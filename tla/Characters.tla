----------------------------- MODULE Characters -----------------------------
(***************************************************************************)
(* The characters of a page, from the arena to the screen: n > 0 is the    *)
(* page's nth visible one, and one number stands for any whitespace.       *)
(***************************************************************************)
CONSTANT None  \* nothing: no parent, no link, no field, no number

Space == 0

\* The style of a block's own text: no emphasis, link or citation around it.
Plain == [strong |-> FALSE, link |-> None, cite |-> None]
=============================================================================
