---- MODULE MCPageLayout ----
\* Small pages: one shape per part of the walk and of the layout.
EXTENDS PageLayout, TLC

MCNames == {"p", "h1", "b", "a", "q", "div", "script", "ul", "ol", "li",
            "blockquote", "section", "details", "summary", "table", "thead",
            "tr", "td", "th", "form", "input", "hidden", "textarea", "select",
            "option", "option selected", "button", "figure", "figcaption",
            "img", "hr", "iframe", "pre"}

Page(below, fosters, pieces, ids, hidden, maxNodes, maxChars, maxMoves) ==
    [kids |-> [n \in MCNames \cup {Root} |-> IF n \in DOMAIN below THEN below[n] ELSE {}],
     first |-> <<>>,
     fosters |-> fosters, pieces |-> pieces, ids |-> ids, hidden |-> hidden,
     nodes |-> maxNodes, chars |-> maxChars, moves |-> maxMoves]

Inline == Page(Root :> {"p"} @@ "p" :> {Text, "a", "q"} @@ "a" :> {Text}
               @@ "q" :> {Text, "a"},
               {}, {0, 1}, {"a", "q"}, {}, 4, 4, 0)
LongWords == Page(Root :> {"p"} @@ "p" :> {Text, "a"} @@ "a" :> {Text},
               {}, {0, 3}, {"a"}, {}, 4, 7, 0)
ListPage == Page(Root :> {"ul", "ol"} @@ "ul" :> {"li"} @@ "ol" :> {"li"}
               @@ "li" :> {Text, "p", "ul"} @@ "p" :> {Text},
               {}, {2}, {"p", "li", "ul"}, {"p"}, 5, 4, 0)
Blocks == Page(Root :> {"blockquote", "section"} @@ "section" :> {Text, "div"}
               @@ "blockquote" :> {Text, "p", "blockquote"} @@ "div" :> {Text, "p", "h1"}
               @@ "p" :> {Text} @@ "h1" :> {Text},
               {}, {2}, {"p", "div", "section"}, {"h1"}, 5, 4, 0)
Grid2 == Page(Root :> {"table"} @@ "table" :> {"tr"} @@ "tr" :> {"td", "th"}
               @@ "td" :> {Text} @@ "th" :> {Text},
               {}, {2}, {"td"}, {}, 7, 4, 0)
TableBlocks == Page(Root :> {"table"} @@ "table" :> {"thead", "tr"} @@ "thead" :> {"tr"}
               @@ "tr" :> {"td"} @@ "td" :> {Text, "p", "ul"}
               @@ "p" :> {Text} @@ "ul" :> {"li"} @@ "li" :> {Text},
               {}, {2}, {"td", "p"}, {}, 6, 4, 0)
Fostered == Page(Root :> {"table"} @@ "table" :> {"tr"} @@ "tr" :> {"td"}
               @@ "td" :> {Text} @@ "p" :> {Text},
               {"p", Text}, {2}, {"p"}, {}, 5, 4, 2)
Deep == Page(Root :> {"section"} @@ "section" :> {"section"}, {}, {2}, {}, {}, 6, 2, 0)
Long == Page(Root :> {"hr"}, {}, {2}, {}, {}, 14, 2, 0)
TwoByTwo == Page(Root :> {"table"} @@ "table" :> {"tr"} @@ "tr" :> {"th", "td"}
                 @@ "th" :> {Text} @@ "td" :> {Text},
                 {}, {2}, {}, {}, 13, 6, 0)
Rows == [TwoByTwo EXCEPT !.first = <<"table", "tr", "td", "tr", "td", "tr", "td", "tr", "td">>,
                         !.nodes = 9]
TwoRecords ==
    [TwoByTwo EXCEPT !.first = <<"table", "tr", "th", "th", Text, "tr", "td", "td", Text,
                                 "tr", "td", "td", Text>>]
FormPage == Page(Root :> {"form"} @@ "form" :> {"input", "hidden", "button", "select", "textarea"}
               @@ "button" :> {Text} @@ "select" :> {"option", "option selected"},
               {}, {1}, {"button", "form"}, {}, 5, 1, 0)
FigurePage == Page(Root :> {"figure", "details"} @@ "figure" :> {"img", "figcaption", "p"}
               @@ "details" :> {"summary", "p"} @@ "summary" :> {Text}
               @@ "figcaption" :> {Text} @@ "p" :> {Text},
               {}, {2}, {"img", "figcaption", "p"}, {}, 5, 4, 0)
VerbatimPage == Page(Root :> {"pre", "hr", "iframe"} @@ "pre" :> {Text, "b", "script"}
               @@ "b" :> {Text},
               {}, {0, 2}, {"pre", "b", "hr"}, {}, 4, 5, 0)
Misnested == Page(Root :> {"p"} @@ "p" :> {"b", Text} @@ "b" :> {"p", Text},
               {}, {1}, {"b"}, {}, 4, 2, 2)

MCGrammars == {Inline, LongWords, ListPage, Blocks, Grid2, TableBlocks, TwoRecords, Rows,
               Fostered, Deep, Long, FormPage, FigurePage, VerbatimPage, Misnested}
====
