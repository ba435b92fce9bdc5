----------------------------- MODULE DomBuilder -----------------------------
(***************************************************************************)
(* The arena of nodes that browser-html fills while html5ever parses a     *)
(* page: DomBuilder, the TreeSink of src/crates/browser-html/src/parser.rs *)
(* There is one action per call of the sink that changes the arena.        *)
(*                                                                         *)
(* html5ever itself is external.  What the sink relies on is in the guards *)
(* of the actions: an appended node is loose, and never an ancestor of the *)
(* node it goes under; nothing is inserted before the document.  The       *)
(* grammar, chosen in Init, bounds the pages that are generated: which     *)
(* elements may stand in which, and what they carry.                       *)
(*                                                                         *)
(* Calls made after a limit is crossed are left out: the arena they would  *)
(* still change is discarded, because limit_error stays set.               *)
(***************************************************************************)
EXTENDS Naturals, FiniteSets, SequencesExt, Characters

CONSTANTS
    MaxNodeCount,   \* MAX_NODE_COUNT, made small
    MaxDomDepth,    \* MAX_DOM_DEPTH, made small
    MaxLoose,       \* bound: nodes the parser holds outside the tree at once
    Names,          \* the element names that occur
    Grammars        \* the bounded page shapes: see GrammarType

ASSUME LimitsAssumption ==
    /\ MaxNodeCount \in Nat
    /\ MaxDomDepth \in Nat
    /\ MaxLoose \in Nat

\* DOCUMENT_HANDLE and OVERFLOW_HANDLE, and the handles that push can give out.
Document == 0
Overflow == 1
Handle == 0 .. MaxNodeCount + 1

\* A text node, the document (a container that is no element), a free handle.
Text == "#text"
Root == "#document"
Unused == "#unused"

ASSUME ConstantsAssumption ==
    /\ None \notin Handle
    /\ {Text, Root, Unused} \cap Names = {}

\* A piece of text brings one space if it is 0, and n visible characters if it is n.
GrammarType ==
    [kids    : [Names \cup {Root} -> SUBSET (Names \cup {Text})],
     first   : Seq(Names \cup {Text}),    \* bound: what the first nodes are, if any
     fosters : SUBSET (Names \cup {Text}), \* what a table pushes out before it
     pieces  : SUBSET Nat,                 \* sizes of the pieces of text
     ids     : SUBSET Names,               \* elements written with an id
     hidden  : SUBSET Names,               \* elements with display: none
     nodes   : Nat,                        \* bound: calls of push
     chars   : Nat,                        \* bound: characters of text
     moves   : Nat]       \* bound: insertions before, removals, reparentings

ASSUME GrammarsAssumption == Grammars \subseteq GrammarType

VARIABLES
    grammar,        \* the page shape
    name,           \* Node.name, Text for a text node
    text,           \* Node.text: visible characters are numbered as they come
    kids,           \* Node.children
    parent,         \* Node.parent
    depth,          \* Node.depth, as it was when the node was linked
    fresh,          \* nodes.len()
    nodeCount,      \* node_count
    depthExceeded,  \* depth_exceeded
    written,        \* how many characters the page has so far
    moves           \* counts against the grammar's moves

dom == <<name, text, kids, parent, depth, fresh, nodeCount, depthExceeded,
         written, moves>>

-----------------------------------------------------------------------------

OverLimit == nodeCount > MaxNodeCount \/ depthExceeded
LimitError == OverLimit

Elements == {h \in Handle : name[h] \in Names}
Loose == {h \in Handle \ {Document, Overflow} :
             name[h] # Unused /\ parent[h] = None}

\* The place of a node among its siblings.
Position(s, h) == CHOOSE i \in 1 .. Len(s) : s[i] = h

\* A set that holds the parent of each of its members.
ClosedUpwards(A) == \A h \in A : parent[h] = None \/ parent[h] \in A

\* p is below c, or is c: c is among its ancestors, whatever holds them all.
IsBelow(p, c) ==
    \A A \in SUBSET (0 .. fresh - 1) : p \in A /\ ClosedUpwards(A) => c \in A

NotBelow(p, c) == ~IsBelow(p, c)

\* Bound: the parser inserts at the right edge of the tree, or near the node
\* it made last, where its open elements are.
RightEdge ==
    LET edge[n \in 0 .. MaxNodeCount] ==
          IF n = 0 THEN {Document}
          ELSE {Last(kids[p]) : p \in {q \in edge[n - 1] : kids[q] # <<>>}}
    IN  UNION {edge[n] : n \in 0 .. MaxNodeCount}

Open(p) == \/ p = fresh - 1
           \/ p = parent[fresh - 1]
           \/ p \in RightEdge

Allows(p, t) == name[p] \in Names \cup {Root} /\ t \in grammar.kids[name[p]]

NewText(n) == IF n = 0 THEN <<Space>> ELSE [i \in 1 .. n |-> written + i]
Write(n) == /\ written' = written + (IF n = 0 THEN 1 ELSE n)
            /\ written' <= grammar.chars
Move == moves < grammar.moves /\ moves' = moves + 1

-----------------------------------------------------------------------------

\* The next node is what the page shape asks for.
Expected(t) == fresh - 1 \in DOMAIN grammar.first => t = grammar.first[fresh - 1]

\* push gives out the next handle, or the overflow handle past the limit.
PushedHandle == IF nodeCount + 1 > MaxNodeCount THEN Overflow ELSE fresh

Push(t, s) ==
    /\ nodeCount < grammar.nodes /\ Expected(t)
    /\ nodeCount' = nodeCount + 1
    /\ IF nodeCount + 1 > MaxNodeCount
       THEN UNCHANGED <<name, text, fresh>>
       ELSE /\ name' = [name EXCEPT ![fresh] = t]
            /\ text' = [text EXCEPT ![fresh] = s]
            /\ fresh' = fresh + 1

\* link_child: the last child of p, one level below it.
LinkChild(p, c) ==
    /\ depth' = [depth EXCEPT ![c] = depth[p] + 1]
    /\ depthExceeded' = (depthExceeded \/ depth[p] + 1 > MaxDomDepth)
    /\ parent' = [parent EXCEPT ![c] = p]
    /\ kids' = [kids EXCEPT ![p] = Append(@, c)]

\* insert_child, where kidsNow and parentNow are the tree it is applied to.
InsertChild(p, i, c, kidsNow, parentNow) ==
    /\ depth' = [depth EXCEPT ![c] = depth[p] + 1]
    /\ depthExceeded' = (depthExceeded \/ depth[p] + 1 > MaxDomDepth)
    /\ parent' = [parentNow EXCEPT ![c] = p]
    /\ kids' = [kidsNow EXCEPT ![p] = InsertAt(@, i, c)]

\* For the mutants: a detach that leaves the old list alone.
KidsStillWith(h) == kids

\* detach: the child lists and parents without h in its place.
KidsWithout(h) ==
    IF parent[h] = None
    THEN kids
    ELSE [kids EXCEPT ![parent[h]] = RemoveAt(@, Position(@, h))]
ParentWithout(h) == [parent EXCEPT ![h] = None]

AddText(h, n) ==
    /\ text' = [text EXCEPT ![h] = @ \o NewText(n)]
    /\ UNCHANGED <<name, kids, parent, depth, fresh, nodeCount, depthExceeded>>

-----------------------------------------------------------------------------

TypeOK ==
    /\ grammar \in Grammars
    /\ name \in [Handle -> Names \cup {Text, Root, Unused}]
    /\ text \in [Handle -> Seq(Nat)]
    /\ kids \in [Handle -> Seq(Handle)]
    /\ parent \in [Handle -> Handle \cup {None}]
    /\ depth \in [Handle -> Nat]
    /\ fresh \in 2 .. MaxNodeCount + 2
    /\ nodeCount \in 0 .. MaxNodeCount + 1
    /\ depthExceeded \in BOOLEAN
    /\ written \in Nat
    /\ moves \in Nat

\* DomBuilder::new: the document, and the element the overflow handle names.
InitDom ==
    /\ grammar \in Grammars
    /\ name = [h \in Handle |-> IF h = Document THEN Root ELSE Unused]
    /\ text = [h \in Handle |-> <<>>]
    /\ kids = [h \in Handle |-> <<>>]
    /\ parent = [h \in Handle |-> None]
    /\ depth = [h \in Handle |-> 0]
    /\ fresh = 2
    /\ nodeCount = 0
    /\ depthExceeded = FALSE
    /\ written = 0
    /\ moves = 0

\* create_element
CreateElement(t) ==
    /\ ~OverLimit
    /\ Cardinality(Loose) < MaxLoose
    /\ \/ t \in grammar.fosters
       \/ \E p \in Handle : Allows(p, t) /\ Open(p)
    /\ Push(t, <<>>)
    /\ UNCHANGED <<kids, parent, depth, depthExceeded, written, moves>>

\* append with a node
AppendNode(p, c) ==
    /\ ~OverLimit
    /\ c \in Loose
    /\ Allows(p, name[c]) /\ Open(p) /\ NotBelow(p, c)
    /\ LinkChild(p, c)
    /\ UNCHANGED <<name, text, fresh, nodeCount, written, moves>>

\* append with text: it joins a text node that is already last.
AppendText(p, n) ==
    /\ ~OverLimit
    /\ Allows(p, Text) /\ Open(p)
    /\ Write(n)
    /\ IF kids[p] # <<>> /\ name[Last(kids[p])] = Text
       THEN AddText(Last(kids[p]), n)
       ELSE Push(Text, NewText(n)) /\ LinkChild(p, PushedHandle)
    /\ UNCHANGED moves

\* append_before_sibling with a node, which is taken from where it was.
AppendNodeBefore(sibling, c) ==
    /\ ~OverLimit /\ Move
    /\ name[sibling] = "table" /\ name[c] \in grammar.fosters
    /\ c # sibling
    /\ parent[sibling] # None /\ NotBelow(parent[sibling], c)
    /\ InsertChild(parent[sibling],
                   Position(KidsWithout(c)[parent[sibling]], sibling), c,
                   KidsWithout(c), ParentWithout(c))
    /\ UNCHANGED <<name, text, fresh, nodeCount, written>>

\* append_before_sibling with text: it joins a text node that stands before.
AppendTextBefore(sibling, n) ==
    /\ ~OverLimit /\ Move
    /\ parent[sibling] # None
    /\ name[sibling] = "table" /\ Text \in grammar.fosters
    /\ LET p == parent[sibling]
           i == Position(kids[p], sibling)
       IN  IF i > 1 /\ name[kids[p][i - 1]] = Text
           THEN AddText(kids[p][i - 1], n)
           ELSE /\ Push(Text, NewText(n))
                /\ InsertChild(p, i, PushedHandle, kids, parent)
    /\ Write(n)

\* remove_from_parent
RemoveFromParent(h) ==
    /\ ~OverLimit /\ Move
    /\ parent[h] \in Elements
    /\ Cardinality(Loose) < MaxLoose
    /\ kids' = KidsWithout(h)
    /\ parent' = ParentWithout(h)
    /\ UNCHANGED <<name, text, depth, fresh, nodeCount, depthExceeded, written>>

\* reparent_children: every child of h goes under the new, empty element m.
ReparentChildren(h, m) ==
    /\ ~OverLimit /\ Move
    /\ kids[h] # <<>> /\ m # h
    /\ kids[m] = <<>> /\ \A i \in 1 .. Len(kids[h]) : Allows(m, name[kids[h][i]])
    /\ kids' = [kids EXCEPT ![h] = <<>>, ![m] = @ \o kids[h]]
    /\ parent' = [c \in Handle |-> IF parent[c] = h THEN m ELSE parent[c]]
    /\ depth' = [c \in Handle |-> IF parent[c] = h THEN depth[m] + 1 ELSE depth[c]]
    /\ depthExceeded' = (depthExceeded \/ depth[m] + 1 > MaxDomDepth)
    /\ UNCHANGED <<name, text, fresh, nodeCount, written>>

NextDom ==
    \/ \E t \in Names : CreateElement(t)
    \/ \E c \in Loose, p \in Handle : AppendNode(p, c)
    \/ \E p \in Handle, n \in grammar.pieces : AppendText(p, n)
    \/ \E s, c \in Elements : AppendNodeBefore(s, c)
    \/ \E s \in Elements, n \in grammar.pieces : AppendTextBefore(s, n)
    \/ \E h \in Elements : RemoveFromParent(h)
    \/ \E h \in Elements, m \in Loose : ReparentChildren(h, m)

SpecDom == InitDom /\ [][NextDom /\ UNCHANGED grammar]_<<dom, grammar>>

-----------------------------------------------------------------------------

(***************************************************************************)
(* The arena is a forest that parents and child lists agree about: each    *)
(* listed child names the list's owner as its parent, at one place only;   *)
(* each node with a parent is listed there; and nobody is its own          *)
(* ancestor, so the recursive walks of the extractor end.  Every insertion *)
(* updates the two ends of a link separately (parser.rs, link_child,       *)
(* insert_child, detach), and three calls can move a linked node.          *)
(***************************************************************************)
ListedOnce ==
    \A p \in Handle : \A i \in 1 .. Len(kids[p]) :
       /\ parent[kids[p][i]] = p
       /\ \A j \in 1 .. Len(kids[p]) : kids[p][j] = kids[p][i] => j = i

ParentsList ==
    \A h \in Handle : parent[h] # None =>
       \E i \in 1 .. Len(kids[parent[h]]) : kids[parent[h]][i] = h

NoCycle ==
    \A S \in SUBSET {h \in Handle : parent[h] # None} :
       S # {} => \E h \in S : parent[h] \notin S

ArenaIsATree == ListedOnce /\ ParentsList /\ NoCycle
=============================================================================
