---------------------------- MODULE LayoutProofs ----------------------------
(***************************************************************************)
(* Proofs about text on its way to the screen, for texts of any characters *)
(* and any length and any width to lay out to: the runs of a block         *)
(* (InlineRuns), the rows of cells a line becomes (CellRows), the rows of  *)
(* a table of lines (GridRows) and those of a list of nodes (PageLayout).  *)
(*                                                                         *)
(* Every loop is a function of how far it has come; it is shown to satisfy *)
(* its own equation first, since TLA+ chooses it, and what it keeps is     *)
(* then proved by induction on that distance.  The rows of the nodes are a *)
(* function of the levels that may lie below; what they show of the text   *)
(* is proved by induction on the levels.                                   *)
(***************************************************************************)
EXTENDS PageLayout, SequenceTheorems, WellFoundedInduction, TLAPS

-----------------------------------------------------------------------------
(* Induction over the length of a walk.                                    *)

\* A set of numbers that is not empty has a least one.
LEMMA LeastNumber ==
  ASSUME NEW S \in SUBSET Nat, S # {}
  PROVE  \E n \in S : \A m \in S : n <= m
<1>1. PICK n \in S : \A m \in S : ~ (<<m, n>> \in OpToRel(<, Nat))
  BY NatLessThanWellFounded, WFMin
<1>2. \A m \in S : ~ (m < n)
  BY <1>1 DEF OpToRel
<1> QED
  BY <1>2

\* A set that holds zero, and every number after one of its own, holds them all.
LEMMA Induction ==
  ASSUME NEW S, 0 \in S, NEW N \in Nat, \A n \in 1 .. N : n - 1 \in S => n \in S
  PROVE  0 .. N \subseteq S
<1> SUFFICES ASSUME ~(0 .. N \subseteq S) PROVE FALSE
  OBVIOUS
<1> DEFINE T == (0 .. N) \ S
<1>1. T \in SUBSET Nat /\ T # {}
  OBVIOUS
<1>2. PICK n \in T : \A m \in T : n <= m
  BY <1>1, LeastNumber
<1> QED
  BY <1>2

LEMMA GreatestIs ==
  ASSUME NEW S \in SUBSET Nat, NEW x \in S, \A y \in S : y <= x
  PROVE  Max(S) = x
<1> DEFINE P(m) == m \in S /\ \A y \in S : m >= y
<1>1. P(x)
  OBVIOUS
<1>2. Max(S) = CHOOSE m : P(m)
  BY DEF Max
<1> DEFINE greatest == Max(S)
<1>3. P(greatest)
  <2> HIDE DEF P
  <2> QED
    BY <1>1, <1>2
<1> HIDE DEF greatest
<1>4. greatest \in Nat /\ x \in Nat /\ greatest >= x /\ greatest <= x
  BY <1>3
<1>5. greatest = x
  BY <1>4
<1> QED
  BY <1>5 DEF greatest

\* A set of numbers with a bound has a greatest one.
LEMMA GreatestNumber ==
  ASSUME NEW N \in Nat, NEW S \in SUBSET (0 .. N), S # {}
  PROVE  Max(S) \in S /\ \A y \in S : y <= Max(S)
<1> DEFINE T == {N - y : y \in S}
<1>1. T \in SUBSET Nat /\ T # {}
  <2>1. PICK y : y \in S
    OBVIOUS
  <2>2. N - y \in T
    BY <2>1
  <2>3. \A z \in S : N - z \in Nat
    OBVIOUS
  <2> QED
    BY <2>2, <2>3
<1>2. PICK t \in T : \A u \in T : t <= u
  BY <1>1, LeastNumber
<1>3. PICK x \in S : t = N - x
  BY <1>2
<1>4. \A y \in S : y <= x
  <2> SUFFICES ASSUME NEW y \in S PROVE y <= x
    OBVIOUS
  <2>1. N - y \in T
    OBVIOUS
  <2>2. t <= N - y /\ y \in 0 .. N /\ x \in 0 .. N
    BY <1>2, <2>1
  <2> QED
    BY <1>3, <2>2
<1>5. S \in SUBSET Nat
  OBVIOUS
<1> HIDE DEF T
<1>6. Max(S) = x
  BY <1>4, <1>5, GreatestIs
<1> QED
  BY <1>4, <1>6

\* A walk of N steps through X: where it starts, and what each step makes of the last place.
IsWalk(f, X, N, start, step) ==
  /\ f \in [0 .. N -> X]
  /\ f[0] = start
  /\ \A n \in 1 .. N : f[n] = step[n][f[n - 1]]

LEMMA WalkExists ==
  ASSUME NEW X, NEW N \in Nat, NEW start \in X, NEW step \in [1 .. N -> [X -> X]]
  PROVE  \E f : IsWalk(f, X, N, start, step)
<1> DEFINE Steps(n, f) == f[0] = start /\ \A i \in 1 .. n : f[i] = step[i][f[i - 1]]
           S == {n \in 0 .. N : \E f \in [0 .. n -> X] : Steps(n, f)}
<1>1. 0 \in S
  <2> DEFINE f == [i \in 0 .. 0 |-> start]
  <2>1. f \in [0 .. 0 -> X] /\ Steps(0, f)
    OBVIOUS
  <2> HIDE DEF Steps, f
  <2> QED
    BY <2>1
<1>2. ASSUME NEW n \in 1 .. N, n - 1 \in S PROVE n \in S
  <2>1. PICK f \in [0 .. n - 1 -> X] : Steps(n - 1, f)
    BY <1>2
  <2> DEFINE g == [i \in 0 .. n |-> IF i = n THEN step[n][f[n - 1]] ELSE f[i]]
  <2>2. n - 1 \in 0 .. n - 1 /\ n - 1 # n /\ 0 \in 0 .. n - 1 /\ 0 # n /\ n \in 0 .. n
    OBVIOUS
  <2>3. f[n - 1] \in X /\ step[n][f[n - 1]] \in X
    BY <2>2
  <2>4. /\ g \in [0 .. n -> X]
        /\ g[n] = step[n][f[n - 1]]
        /\ \A i \in 0 .. n - 1 : g[i] = f[i]
    BY <2>3
  <2> HIDE DEF g
  <2>5. g[0] = start /\ g[n] = step[n][g[n - 1]]
    BY <2>1, <2>2, <2>4
  <2>6. ASSUME NEW i \in 1 .. n - 1 PROVE g[i] = step[i][g[i - 1]]
    <3>1. i \in 0 .. n - 1 /\ i - 1 \in 0 .. n - 1
      OBVIOUS
    <3> QED
      BY <2>1, <2>4, <3>1
  <2>7. \A i \in 1 .. n : i = n \/ i \in 1 .. n - 1
    OBVIOUS
  <2>8. Steps(n, g)
    BY <2>5, <2>6, <2>7
  <2> HIDE DEF Steps
  <2> QED
    BY <2>4, <2>8
<1>3. N \in S
  <2> HIDE DEF S
  <2>1. 0 .. N \subseteq S
    BY <1>1, <1>2, Induction, Zenon
  <2> QED
    BY <2>1
<1> QED
  BY <1>3 DEF IsWalk

-----------------------------------------------------------------------------
(* Columns.                                                                *)

LEMMA ColumnsFacts ==
  ASSUME NEW Cell, NEW cells \in Seq(Cell)
  PROVE  /\ ColumnsUpTo(cells)[0] = 0
         /\ \A n \in 0 .. Len(cells) : ColumnsUpTo(cells)[n] \in Nat
         /\ \A n \in 1 .. Len(cells) :
               ColumnsUpTo(cells)[n] = ColumnsUpTo(cells)[n - 1] + CharColumns(cells[n].char)
<1> DEFINE N == Len(cells)
           X == Nat
           Step(n, x) == x + CharColumns(cells[n].char)
           step == [n \in 1 .. N |-> [x \in X |-> Step(n, x)]]
           Walk(f) == [n \in 0 .. N |-> IF n = 0 THEN 0 ELSE Step(n, f[n - 1])]
           walk == ColumnsUpTo(cells)
<1>1. walk = CHOOSE f : f = Walk(f)
  BY DEF ColumnsUpTo
<1>2. N \in Nat /\ 0 \in X
  OBVIOUS
<1>3. \A n \in 1 .. N, x \in X : Step(n, x) \in X
  BY DEF CharColumns
<1> HIDE DEF Step, X, N
<1>4. step \in [1 .. N -> [X -> X]]
  BY <1>3
<1>5. PICK f : IsWalk(f, X, N, 0, step)
  BY <1>2, <1>4, WalkExists
<1>6. f = Walk(f)
  <2>1. f \in [0 .. N -> X] /\ \A n \in 1 .. N : f[n - 1] \in X
    BY <1>2, <1>5 DEF IsWalk
  <2>2. \A n \in 1 .. N : f[n] = Step(n, f[n - 1])
    BY <1>5, <2>1 DEF IsWalk
  <2> QED
    BY <1>2, <1>5, <2>1, <2>2 DEF IsWalk
<1> HIDE DEF walk
<1>7. walk = Walk(walk)
  BY <1>1, <1>6
<1>8. \A n \in 0 .. N : walk[n] = IF n = 0 THEN 0 ELSE Step(n, walk[n - 1])
  BY <1>7
<1> DEFINE S == {n \in 0 .. N : walk[n] \in X}
<1>9. 0 \in S /\ \A n \in 1 .. N : n - 1 \in S => n \in S
  BY <1>2, <1>3, <1>8
<1>10. \A n \in 0 .. N : walk[n] \in X
  <2> HIDE DEF S
  <2>1. 0 .. N \subseteq S
    BY <1>2, <1>9, Induction
  <2> QED
    BY <2>1 DEF S
<1> QED
  BY <1>2, <1>8, <1>10 DEF walk, N, X, Step

\* Lines that start alike are equally wide so far.
LEMMA ColumnsAlike ==
  ASSUME NEW Cell, NEW s \in Seq(Cell), NEW t \in Seq(Cell), NEW N \in 0 .. Len(s),
         N <= Len(t), \A i \in 1 .. N : s[i] = t[i]
  PROVE  ColumnsUpTo(s)[N] = ColumnsUpTo(t)[N]
<1> DEFINE S == {n \in 0 .. N : ColumnsUpTo(s)[n] = ColumnsUpTo(t)[n]}
<1>1. Len(s) \in Nat /\ Len(t) \in Nat
  OBVIOUS
<1>2. /\ ColumnsUpTo(s)[0] = 0
      /\ \A n \in 1 .. Len(s) :
            ColumnsUpTo(s)[n] = ColumnsUpTo(s)[n - 1] + CharColumns(s[n].char)
  BY ColumnsFacts
<1>3. /\ ColumnsUpTo(t)[0] = 0
      /\ \A n \in 1 .. Len(t) :
            ColumnsUpTo(t)[n] = ColumnsUpTo(t)[n - 1] + CharColumns(t[n].char)
  BY ColumnsFacts
<1>4. N \in Nat /\ 0 \in S
  BY <1>1, <1>2, <1>3
<1>5. ASSUME NEW n \in 1 .. N, n - 1 \in S PROVE n \in S
  <2>1. n \in 1 .. Len(s) /\ n \in 1 .. Len(t) /\ n \in 0 .. N /\ s[n] = t[n]
    BY <1>1
  <2> QED
    BY <1>2, <1>3, <1>5, <2>1
<1> HIDE DEF S
<1>6. 0 .. N \subseteq S
  BY <1>4, <1>5, Induction
<1> QED
  BY <1>4, <1>6 DEF S

LEMMA ColumnsType ==
  ASSUME NEW Cell, NEW s \in Seq(Cell)
  PROVE  Columns(s) \in Nat
BY ColumnsFacts DEF Columns

LEMMA EmptyColumns == Columns(<<>>) = 0
<1>1. <<>> \in Seq({}) /\ Len(<<>>) = 0
  OBVIOUS
<1> QED
  BY <1>1, ColumnsFacts DEF Columns

LEMMA AppendColumns ==
  ASSUME NEW Cell, NEW s \in Seq(Cell), NEW cell \in Cell
  PROVE  /\ Columns(s) \in Nat
         /\ Columns(Append(s, cell)) = Columns(s) + CharColumns(cell.char)
<1> DEFINE t == Append(s, cell)
<1>1. /\ Len(s) \in Nat /\ t \in Seq(Cell) /\ Len(t) = Len(s) + 1 /\ t[Len(t)] = cell
      /\ \A i \in 1 .. Len(s) : s[i] = t[i]
  OBVIOUS
<1> HIDE DEF t
<1>2. ColumnsUpTo(s)[Len(s)] = ColumnsUpTo(t)[Len(s)]
  BY <1>1, ColumnsAlike
<1>3. ColumnsUpTo(t)[Len(t)] = ColumnsUpTo(t)[Len(s)] + CharColumns(cell.char)
  BY <1>1, ColumnsFacts
<1> QED
  BY <1>1, <1>2, <1>3, ColumnsFacts DEF Columns, t

LEMMA ConcatColumns ==
  ASSUME NEW Cell, NEW s \in Seq(Cell), NEW t \in Seq(Cell)
  PROVE  Columns(s \o t) = Columns(s) + Columns(t)
<1> DEFINE both == s \o t
           S == {n \in 0 .. Len(t) :
                   ColumnsUpTo(both)[Len(s) + n] = Columns(s) + ColumnsUpTo(t)[n]}
<1>1. /\ Len(s) \in Nat /\ Len(t) \in Nat /\ both \in Seq(Cell)
      /\ Len(both) = Len(s) + Len(t)
      /\ \A i \in 1 .. Len(s) : s[i] = both[i]
  OBVIOUS
<1>2. \A i \in 1 .. Len(t) : both[Len(s) + i] = t[i]
  BY <1>1
<1>3. Columns(s) \in Nat
  BY <1>1, ColumnsFacts DEF Columns
<1> HIDE DEF both
<1>4. 0 \in S
  <2>1. Len(s) \in 0 .. Len(s) /\ Len(s) <= Len(both)
    BY <1>1
  <2>2. ColumnsUpTo(s)[Len(s)] = ColumnsUpTo(both)[Len(s)]
    BY <1>1, <2>1, ColumnsAlike
  <2>3. ColumnsUpTo(t)[0] = 0
    BY ColumnsFacts
  <2> QED
    BY <1>1, <1>3, <2>2, <2>3 DEF Columns
<1>5. ASSUME NEW n \in 1 .. Len(t), n - 1 \in S PROVE n \in S
  <2>1. Len(s) + n \in 1 .. Len(both) /\ Len(s) + n - 1 = Len(s) + (n - 1) /\ n - 1 \in 0 .. Len(t)
    BY <1>1
  <2>2. ColumnsUpTo(both)[Len(s) + n]
        = ColumnsUpTo(both)[Len(s) + (n - 1)] + CharColumns(t[n].char)
    <3>1. \A k \in 1 .. Len(both) :
             ColumnsUpTo(both)[k] = ColumnsUpTo(both)[k - 1] + CharColumns(both[k].char)
      BY <1>1, ColumnsFacts
    <3>2. both[Len(s) + n] = t[n]
      BY <1>2
    <3> QED
      BY <2>1, <3>1, <3>2
  <2>3. ColumnsUpTo(t)[n] = ColumnsUpTo(t)[n - 1] + CharColumns(t[n].char)
    BY ColumnsFacts
  <2>4. ColumnsUpTo(t)[n - 1] \in Nat /\ CharColumns(t[n].char) \in Nat
    BY <2>1, ColumnsFacts DEF CharColumns
  <2> QED
    BY <1>3, <1>5, <2>2, <2>3, <2>4
<1> HIDE DEF S
<1>6. 0 .. Len(t) \subseteq S
  BY <1>1, <1>4, <1>5, Induction
<1>7. Len(t) \in S
  BY <1>1, <1>6
<1> QED
  BY <1>1, <1>7 DEF S, Columns, both

-----------------------------------------------------------------------------
(* The visible cells of a line.                                            *)

LEMMA ShownFacts == \A Cell : \A cell \in Cell : Shown(cell) \in Seq(Cell)
BY DEF Shown

LEMMA VisibleFacts ==
  ASSUME NEW Cell, NEW cells \in Seq(Cell)
  PROVE  /\ VisibleUpTo(cells)[0] = <<>>
         /\ \A n \in 0 .. Len(cells) : VisibleUpTo(cells)[n] \in Seq(Cell)
         /\ \A n \in 1 .. Len(cells) :
               VisibleUpTo(cells)[n] = VisibleUpTo(cells)[n - 1] \o Shown(cells[n])
<1> DEFINE N == Len(cells)
           X == Seq(Cell)
           Step(n, x) == x \o Shown(cells[n])
           step == [n \in 1 .. N |-> [x \in X |-> Step(n, x)]]
           Walk(f) == [n \in 0 .. N |-> IF n = 0 THEN <<>> ELSE Step(n, f[n - 1])]
           walk == VisibleUpTo(cells)
<1>1. walk = CHOOSE f : f = Walk(f)
  BY DEF VisibleUpTo
<1>2. N \in Nat /\ <<>> \in X
  OBVIOUS
<1>3. \A n \in 1 .. N, x \in X : Step(n, x) \in X
  BY ShownFacts
<1> HIDE DEF Step, X, N
<1>4. step \in [1 .. N -> [X -> X]]
  BY <1>3
<1>5. PICK f : IsWalk(f, X, N, <<>>, step)
  BY <1>2, <1>4, WalkExists
<1>6. f = Walk(f)
  <2>1. f \in [0 .. N -> X] /\ \A n \in 1 .. N : f[n - 1] \in X
    BY <1>2, <1>5 DEF IsWalk
  <2>2. \A n \in 1 .. N : f[n] = Step(n, f[n - 1])
    BY <1>5, <2>1 DEF IsWalk
  <2> QED
    BY <1>2, <1>5, <2>1, <2>2 DEF IsWalk
<1> HIDE DEF walk
<1>7. walk = Walk(walk)
  BY <1>1, <1>6
<1>8. \A n \in 0 .. N : walk[n] = IF n = 0 THEN <<>> ELSE Step(n, walk[n - 1])
  BY <1>7
<1> DEFINE S == {n \in 0 .. N : walk[n] \in X}
<1>9. 0 \in S /\ \A n \in 1 .. N : n - 1 \in S => n \in S
  BY <1>2, <1>3, <1>8
<1>10. \A n \in 0 .. N : walk[n] \in X
  <2> HIDE DEF S
  <2>1. 0 .. N \subseteq S
    BY <1>2, <1>9, Induction
  <2> QED
    BY <2>1 DEF S
<1>11. walk[0] = <<>> /\ \A n \in 1 .. N : walk[n] = Step(n, walk[n - 1])
  BY <1>2, <1>8
<1> QED
  BY <1>10, <1>11, Zenon DEF walk, N, X, Step

\* Lines that start alike have read alike so far.
LEMMA VisibleAlike ==
  ASSUME NEW Cell, NEW s \in Seq(Cell), NEW t \in Seq(Cell), NEW N \in 0 .. Len(s),
         N <= Len(t), \A i \in 1 .. N : s[i] = t[i]
  PROVE  VisibleUpTo(s)[N] = VisibleUpTo(t)[N]
<1> DEFINE S == {n \in 0 .. N : VisibleUpTo(s)[n] = VisibleUpTo(t)[n]}
<1>1. Len(s) \in Nat /\ Len(t) \in Nat
  OBVIOUS
<1>2. /\ VisibleUpTo(s)[0] = <<>>
      /\ \A n \in 1 .. Len(s) :
            VisibleUpTo(s)[n] = VisibleUpTo(s)[n - 1] \o Shown(s[n])
  BY VisibleFacts
<1>3. /\ VisibleUpTo(t)[0] = <<>>
      /\ \A n \in 1 .. Len(t) :
            VisibleUpTo(t)[n] = VisibleUpTo(t)[n - 1] \o Shown(t[n])
  BY VisibleFacts
<1>4. N \in Nat /\ 0 \in S
  BY <1>1, <1>2, <1>3
<1>5. ASSUME NEW n \in 1 .. N, n - 1 \in S PROVE n \in S
  <2>1. n \in 1 .. Len(s) /\ n \in 1 .. Len(t) /\ n \in 0 .. N /\ s[n] = t[n]
    BY <1>1
  <2> QED
    BY <1>2, <1>3, <1>5, <2>1
<1> HIDE DEF S
<1>6. 0 .. N \subseteq S
  BY <1>4, <1>5, Induction
<1> QED
  BY <1>4, <1>6 DEF S

LEMMA VisibleType ==
  ASSUME NEW Cell, NEW s \in Seq(Cell)
  PROVE  VisibleCells(s) \in Seq(Cell)
<1>1. Len(s) \in 0 .. Len(s)
  BY LenProperties
<1>2. \A n \in 0 .. Len(s) : VisibleUpTo(s)[n] \in Seq(Cell)
  BY VisibleFacts
<1> QED
  BY <1>1, <1>2 DEF VisibleCells

LEMMA EmptyVisible == VisibleCells(<<>>) = <<>>
<1>1. <<>> \in Seq({}) /\ Len(<<>>) = 0
  OBVIOUS
<1> QED
  BY <1>1, VisibleFacts DEF VisibleCells

LEMMA AppendVisible ==
  ASSUME NEW Cell, NEW s \in Seq(Cell), NEW cell \in Cell
  PROVE  /\ VisibleCells(s) \in Seq(Cell)
         /\ VisibleCells(Append(s, cell)) = VisibleCells(s) \o Shown(cell)
<1> DEFINE t == Append(s, cell)
<1>1. /\ Len(s) \in Nat /\ t \in Seq(Cell) /\ Len(t) = Len(s) + 1 /\ t[Len(t)] = cell
      /\ \A i \in 1 .. Len(s) : s[i] = t[i]
  OBVIOUS
<1> HIDE DEF t
<1>2. VisibleUpTo(s)[Len(s)] = VisibleUpTo(t)[Len(s)]
  BY <1>1, VisibleAlike
<1>3. VisibleUpTo(t)[Len(t)] = VisibleUpTo(t)[Len(s)] \o Shown(cell)
  <2>1. Len(t) \in 1 .. Len(t) /\ Len(t) - 1 = Len(s)
    BY <1>1
  <2>2. VisibleUpTo(t)[Len(t)] = VisibleUpTo(t)[Len(t) - 1] \o Shown(t[Len(t)])
    BY <1>1, <2>1, VisibleFacts
  <2> QED
    BY <1>1, <2>1, <2>2
<1> QED
  BY <1>2, <1>3, VisibleType DEF VisibleCells, t

LEMMA ConcatVisible ==
  ASSUME NEW Cell, NEW s \in Seq(Cell), NEW t \in Seq(Cell)
  PROVE  VisibleCells(s \o t) = VisibleCells(s) \o VisibleCells(t)
<1> DEFINE both == s \o t
           start == VisibleCells(s)
           SoFar(n) == VisibleUpTo(both)[Len(s) + n]
           Second(n) == VisibleUpTo(t)[n]
           Piece(n) == Shown(t[n])
           S == {n \in 0 .. Len(t) : SoFar(n) = start \o Second(n)}
<1>1. /\ Len(s) \in Nat /\ Len(t) \in Nat /\ both \in Seq(Cell)
      /\ Len(both) = Len(s) + Len(t)
      /\ \A i \in 1 .. Len(s) : s[i] = both[i]
  OBVIOUS
<1>2. \A i \in 1 .. Len(t) : both[Len(s) + i] = t[i]
  BY <1>1
<1>3. start \in Seq(Cell)
  BY VisibleType
<1> HIDE DEF both
<1>4. SoFar(0) = start
  <2>1. Len(s) \in 0 .. Len(s) /\ Len(s) <= Len(both)
    BY <1>1
  <2>2. VisibleUpTo(s)[Len(s)] = VisibleUpTo(both)[Len(s)]
    BY <1>1, <2>1, VisibleAlike
  <2> QED
    BY <1>1, <2>2 DEF VisibleCells
<1>5. Second(0) = <<>> /\ \A n \in 0 .. Len(t) : Second(n) \in Seq(Cell)
  BY VisibleFacts
<1>6. \A n \in 1 .. Len(t) : Second(n) = Second(n - 1) \o Piece(n)
  BY VisibleFacts
<1>7. \A n \in 1 .. Len(t) : Piece(n) \in Seq(Cell)
  <2>1. \A n \in 1 .. Len(t) : t[n] \in Cell
    OBVIOUS
  <2> QED
    BY <2>1, ShownFacts
<1>8. ASSUME NEW n \in 1 .. Len(t) PROVE SoFar(n) = SoFar(n - 1) \o Piece(n)
  <2>1. \A k \in 1 .. Len(both) :
           VisibleUpTo(both)[k] = VisibleUpTo(both)[k - 1] \o Shown(both[k])
    BY <1>1, VisibleFacts
  <2> DEFINE k == Len(s) + n
             after == VisibleUpTo(both)[k]
             before == VisibleUpTo(both)[k - 1]
             cell == both[k]
  <2>2. k \in 1 .. Len(both) /\ k - 1 = Len(s) + (n - 1)
    BY <1>1
  <2>3. cell = t[n]
    BY <1>2
  <2>4. after = before \o Shown(cell)
    <3> HIDE DEF k
    <3> QED
      BY <2>1, <2>2, Zenon
  <2>5. before = SoFar(n - 1) /\ after = SoFar(n) /\ Shown(cell) = Piece(n)
    BY <2>2, <2>3
  <2> HIDE DEF after, before, cell, SoFar, Piece
  <2> QED
    BY <2>4, <2>5
<1> HIDE DEF start, SoFar, Second, Piece
<1>9. 0 \in S
  BY <1>1, <1>3, <1>4, <1>5, ConcatEmptySeq
<1>10. ASSUME NEW n \in 1 .. Len(t), n - 1 \in S PROVE n \in S
  <2> DEFINE a == Second(n - 1)
             b == Piece(n)
             j == SoFar(n)
             i == SoFar(n - 1)
             c == Second(n)
  <2>1. n - 1 \in 0 .. Len(t) /\ n \in 0 .. Len(t)
    BY <1>1
  <2>2. a \in Seq(Cell) /\ b \in Seq(Cell)
    BY <1>5, <1>7, <2>1
  <2>3. j = i \o b
    BY <1>8
  <2>4. c = a \o b
    BY <1>6
  <2>5. i = start \o a
    BY <1>10
  <2> HIDE DEF a, b, c, i, j
  <2>6. (start \o a) \o b = start \o (a \o b)
    BY <1>3, <2>2
  <2>7. j = start \o c
    BY <2>3, <2>4, <2>5, <2>6
  <2> QED
    BY <2>1, <2>7 DEF c, j
<1> HIDE DEF S
<1>11. 0 .. Len(t) \subseteq S
  BY <1>1, <1>9, <1>10, Induction
<1>12. Len(t) \in S
  BY <1>1, <1>11
<1> QED
  BY <1>1, <1>12 DEF S, VisibleCells, both, SoFar, Second, start

LEMMA FirstIn ==
  ASSUME NEW X
  PROVE  \A s \in Seq(X) : Len(s) = 1 => s[1] \in X /\ <<>> \in Seq(X)
OBVIOUS

\* The space held back is not read.
LEMMA SpaceIsNotVisible ==
  ASSUME NEW Cell, NEW space \in Seq(Cell), Len(space) <= 1,
         \A i \in 1 .. Len(space) : IsSpace(space[i])
  PROVE  VisibleCells(space) = <<>>
<1>1. CASE Len(space) = 0
  <2>1. space = <<>>
    BY <1>1, EmptySeq
  <2> QED
    BY <2>1, EmptyVisible
<1>2. CASE Len(space) = 1
  <2>1. space = Append(<<>>, space[1]) /\ space[1] \in Cell /\ <<>> \in Seq(Cell)
    <3>1. space[1] \in Cell /\ <<>> \in Seq(Cell)
      BY <1>2, FirstIn
    <3> DEFINE one == Append(<<>>, space[1])
    <3>2. one \in Seq(Cell) /\ Len(one) = 1 /\ one[1] = space[1]
      BY <3>1
    <3> HIDE DEF one
    <3>3. space = one
      BY <1>2, <3>2
    <3> QED
      BY <3>1, <3>3 DEF one
  <2> DEFINE cell == space[1]
  <2>2. IsSpace(cell) /\ cell \in Cell
    BY <1>2, <2>1
  <2> HIDE DEF cell
  <2>3. VisibleCells(Append(<<>>, cell)) = VisibleCells(<<>>) \o Shown(cell)
    BY <2>1, <2>2, AppendVisible
  <2>4. Shown(cell) = <<>>
    BY <2>2 DEF Shown
  <2> QED
    BY <2>1, <2>3, <2>4, EmptyVisible DEF cell
<1>3. Len(space) \in Nat
  BY LenProperties
<1>4. Len(space) = 0 \/ Len(space) = 1
  <2> DEFINE n == Len(space)
  <2>1. n \in Nat /\ n <= 1
    BY <1>3
  <2> HIDE DEF n
  <2>2. n = 0 \/ n = 1
    BY <2>1
  <2> QED
    BY <2>2 DEF n
<1> QED
  BY <1>1, <1>2, <1>4, Zenon

-----------------------------------------------------------------------------
(* The visible cells of rows.                                              *)

LEMMA ReadFacts ==
  ASSUME NEW Cell, NEW rs \in Seq(Seq(Cell))
  PROVE  /\ ReadUpTo(rs)[0] = <<>>
         /\ \A n \in 0 .. Len(rs) : ReadUpTo(rs)[n] \in Seq(Cell)
         /\ \A n \in 1 .. Len(rs) :
               ReadUpTo(rs)[n] = ReadUpTo(rs)[n - 1] \o VisibleCells(rs[n])
<1> DEFINE N == Len(rs)
           X == Seq(Cell)
           Step(n, x) == x \o VisibleCells(rs[n])
           step == [n \in 1 .. N |-> [x \in X |-> Step(n, x)]]
           Walk(f) == [n \in 0 .. N |-> IF n = 0 THEN <<>> ELSE Step(n, f[n - 1])]
           walk == ReadUpTo(rs)
<1>1. walk = CHOOSE f : f = Walk(f)
  BY DEF ReadUpTo
<1>2. N \in Nat /\ <<>> \in X
  OBVIOUS
<1>3. \A n \in 1 .. N, x \in X : Step(n, x) \in X
  <2> SUFFICES ASSUME NEW n \in 1 .. N, NEW x \in X PROVE Step(n, x) \in X
    OBVIOUS
  <2>1. rs[n] \in Seq(Cell)
    OBVIOUS
  <2>2. VisibleCells(rs[n]) \in Seq(Cell)
    <3>1. Len(rs[n]) \in 0 .. Len(rs[n])
      BY <2>1
    <3> QED
      BY <2>1, <3>1, VisibleFacts DEF VisibleCells
  <2> QED
    BY <2>2
<1> HIDE DEF Step, X, N
<1>4. step \in [1 .. N -> [X -> X]]
  BY <1>3
<1>5. PICK f : IsWalk(f, X, N, <<>>, step)
  BY <1>2, <1>4, WalkExists
<1>6. f = Walk(f)
  <2>1. f \in [0 .. N -> X] /\ \A n \in 1 .. N : f[n - 1] \in X
    BY <1>2, <1>5 DEF IsWalk
  <2>2. \A n \in 1 .. N : f[n] = Step(n, f[n - 1])
    BY <1>5, <2>1 DEF IsWalk
  <2> QED
    BY <1>2, <1>5, <2>1, <2>2 DEF IsWalk
<1> HIDE DEF walk
<1>7. walk = Walk(walk)
  BY <1>1, <1>6
<1>8. \A n \in 0 .. N : walk[n] = IF n = 0 THEN <<>> ELSE Step(n, walk[n - 1])
  BY <1>7
<1> DEFINE S == {n \in 0 .. N : walk[n] \in X}
<1>9. 0 \in S /\ \A n \in 1 .. N : n - 1 \in S => n \in S
  BY <1>2, <1>3, <1>8
<1>10. \A n \in 0 .. N : walk[n] \in X
  <2> HIDE DEF S
  <2>1. 0 .. N \subseteq S
    BY <1>2, <1>9, Induction
  <2> QED
    BY <2>1 DEF S
<1>11. \A n \in 1 .. N : walk[n] = Step(n, walk[n - 1])
  BY <1>2, <1>8
<1>12. walk[0] = <<>>
  BY <1>2, <1>8
<1> QED
  BY <1>10, <1>11, <1>12, Zenon DEF walk, N, X, Step

LEMMA EmptyRead == ReadRows(<<>>) = <<>>
<1>1. <<>> \in Seq(Seq({})) /\ Len(<<>>) = 0
  OBVIOUS
<1> QED
  BY <1>1, ReadFacts DEF ReadRows

LEMMA AppendRead ==
  ASSUME NEW Cell, NEW rs \in Seq(Seq(Cell)), NEW row \in Seq(Cell)
  PROVE  /\ ReadRows(rs) \in Seq(Cell)
         /\ ReadRows(Append(rs, row)) = ReadRows(rs) \o VisibleCells(row)
<1> DEFINE more == Append(rs, row)
           S == {n \in 0 .. Len(rs) : ReadUpTo(more)[n] = ReadUpTo(rs)[n]}
<1>1. /\ Len(rs) \in Nat /\ more \in Seq(Seq(Cell)) /\ Len(more) = Len(rs) + 1
      /\ more[Len(more)] = row
      /\ \A i \in 1 .. Len(rs) : rs[i] = more[i]
  OBVIOUS
<1> HIDE DEF more
<1>2. /\ ReadUpTo(rs)[0] = <<>>
      /\ \A n \in 0 .. Len(rs) : ReadUpTo(rs)[n] \in Seq(Cell)
      /\ \A n \in 1 .. Len(rs) :
            ReadUpTo(rs)[n] = ReadUpTo(rs)[n - 1] \o VisibleCells(rs[n])
  BY ReadFacts
<1>3. /\ ReadUpTo(more)[0] = <<>>
      /\ \A n \in 1 .. Len(more) :
            ReadUpTo(more)[n] = ReadUpTo(more)[n - 1] \o VisibleCells(more[n])
  BY <1>1, ReadFacts
<1>4. 0 \in S
  BY <1>1, <1>2, <1>3
<1>5. ASSUME NEW n \in 1 .. Len(rs), n - 1 \in S PROVE n \in S
  <2>1. n \in 1 .. Len(more) /\ n \in 0 .. Len(rs)
    BY <1>1
  <2> QED
    BY <1>1, <1>2, <1>3, <1>5, <2>1
<1> HIDE DEF S
<1>6. 0 .. Len(rs) \subseteq S
  BY <1>1, <1>4, <1>5, Induction
<1>7. ReadUpTo(more)[Len(rs)] = ReadUpTo(rs)[Len(rs)]
  BY <1>1, <1>6 DEF S
<1>8. ReadUpTo(more)[Len(more)] = ReadUpTo(more)[Len(rs)] \o VisibleCells(row)
  <2>1. Len(more) \in 1 .. Len(more) /\ Len(more) - 1 = Len(rs)
    BY <1>1
  <2>2. ReadUpTo(more)[Len(more)]
        = ReadUpTo(more)[Len(more) - 1] \o VisibleCells(more[Len(more)])
    BY <1>3, <2>1
  <2> QED
    BY <1>1, <2>1, <2>2
<1> QED
  BY <1>1, <1>2, <1>7, <1>8 DEF ReadRows, more

-----------------------------------------------------------------------------
(* The wrapper: what holds between two of its steps.  Every row, done or   *)
(* current, fits, the counter is the current row's width, and the space    *)
(* held back and the word being read are what their names say.             *)

WrapperType(Cell) ==
  [done : Seq(Seq(Cell)), current : Seq(Cell), columns : Nat, space : Seq(Cell),
   word : Seq(Cell)]

NoSpaces(s) == \A i \in 1 .. Len(s) : ~IsSpace(s[i])
Held(s) == Len(s) <= 1 /\ \A i \in 1 .. Len(s) : IsSpace(s[i])

WrapOK(l, w, Cell) ==
  /\ l \in WrapperType(Cell)
  /\ \A i \in 1 .. Len(l.done) : RowFits(l.done[i], w)
  /\ l.current # <<>> => RowFits(l.current, w)
  /\ l.columns = Columns(l.current)
  /\ Held(l.space)
  /\ NoSpaces(l.word)

\* What has come to its row, and that with the word being read.  Then is kept
\* folded in what follows: it needs no more than the three facts about it.
Then(a, b) == a \o b

Placed(l) == Then(ReadRows(l.done), VisibleCells(l.current))
Progress(l) == Then(Placed(l), VisibleCells(l.word))

LEMMA ThenFacts ==
  ASSUME NEW Cell, NEW a \in Seq(Cell)
  PROVE  /\ Then(a, <<>>) = a
         /\ \A b \in Seq(Cell) : Then(a, b) \in Seq(Cell)
         /\ \A b \in Seq(Cell), c \in Seq(Cell) : Then(Then(a, b), c) = Then(a, Then(b, c))
<1>1. Then(a, <<>>) = a
  BY ConcatEmptySeq DEF Then
<1>2. \A b \in Seq(Cell) : Then(a, b) \in Seq(Cell)
  BY DEF Then
<1>3. ASSUME NEW b \in Seq(Cell), NEW c \in Seq(Cell)
      PROVE  Then(Then(a, b), c) = Then(a, Then(b, c))
  BY ConcatAssociative DEF Then
<1> QED
  BY <1>1, <1>2, <1>3

\* The steps of VisibleUpTo and ReadRows in these words.
LEMMA ThenVisible ==
  ASSUME NEW Cell, NEW s \in Seq(Cell)
  PROVE  /\ \A n \in 1 .. Len(s) :
               VisibleUpTo(s)[n] = Then(VisibleUpTo(s)[n - 1], Shown(s[n]))
         /\ \A cell \in Cell : VisibleCells(Append(s, cell)) = Then(VisibleCells(s), Shown(cell))
         /\ \A t \in Seq(Cell) : VisibleCells(s \o t) = Then(VisibleCells(s), VisibleCells(t))
BY VisibleFacts, AppendVisible, ConcatVisible DEF Then

LEMMA PlacedType ==
  ASSUME NEW Cell, NEW l \in WrapperType(Cell)
  PROVE  ReadRows(l.done) \in Seq(Cell) /\ Placed(l) \in Seq(Cell)
<1>1. l.done \in Seq(Seq(Cell)) /\ l.current \in Seq(Cell)
  BY DEF WrapperType
<1>2. ReadRows(l.done) \in Seq(Cell)
  BY <1>1, AppendRead
<1>3. VisibleCells(l.current) \in Seq(Cell)
  BY <1>1, VisibleType
<1> QED
  BY <1>2, <1>3, ThenFacts DEF Placed

\* A row that is done is read as the current one was.
LEMMA FlushRowOK ==
  ASSUME NEW Cell, NEW w \in Nat, NEW l, WrapOK(l, w, Cell), l.current # <<>>
  PROVE  /\ WrapOK(FlushRow(l), w, Cell)
         /\ Placed(FlushRow(l)) = Placed(l)
         /\ FlushRow(l).current = <<>> /\ FlushRow(l).space = <<>>
         /\ FlushRow(l).word = l.word
<1> DEFINE m == FlushRow(l)
<1>1. l \in WrapperType(Cell)
  BY DEF WrapOK
<1>2. /\ l.done \in Seq(Seq(Cell)) /\ l.current \in Seq(Cell)
      /\ m \in WrapperType(Cell)
      /\ m.done = Append(l.done, l.current) /\ m.current = <<>> /\ m.columns = 0
      /\ m.space = <<>> /\ m.word = l.word
  <2> DEFINE more == Append(l.done, l.current)
  <2>1. l.done \in Seq(Seq(Cell)) /\ l.current \in Seq(Cell)
    BY <1>1 DEF WrapperType
  <2>2. more \in Seq(Seq(Cell)) /\ <<>> \in Seq(Cell) /\ 0 \in Nat
    BY <2>1
  <2>3. m = [l EXCEPT !.done = more, !.current = <<>>, !.columns = 0, !.space = <<>>]
    BY DEF FlushRow
  <2> HIDE DEF m, more
  <2>4. /\ m \in WrapperType(Cell) /\ m.done = more /\ m.current = <<>> /\ m.columns = 0
        /\ m.space = <<>> /\ m.word = l.word
    BY <1>1, <2>2, <2>3 DEF WrapperType
  <2> QED
    BY <2>1, <2>4 DEF more
<1> HIDE DEF m
<1>3. \A i \in 1 .. Len(m.done) : RowFits(m.done[i], w)
  <2>1. \A i \in 1 .. Len(l.done) : RowFits(l.done[i], w)
    BY DEF WrapOK
  <2>2. RowFits(l.current, w)
    BY DEF WrapOK
  <2>3. /\ Len(m.done) = Len(l.done) + 1 /\ m.done[Len(m.done)] = l.current
        /\ \A i \in 1 .. Len(l.done) : m.done[i] = l.done[i]
        /\ Len(l.done) \in Nat
    BY <1>2
  <2> SUFFICES ASSUME NEW i \in 1 .. Len(m.done) PROVE RowFits(m.done[i], w)
    OBVIOUS
  <2>4. i = Len(m.done) \/ i \in 1 .. Len(l.done)
    BY <2>3
  <2> QED
    BY <2>1, <2>2, <2>3, <2>4
<1>4. Held(<<>>)
  BY DEF Held
<1>5. WrapOK(m, w, Cell)
  <2>1. NoSpaces(l.word)
    BY DEF WrapOK
  <2> QED
    BY <1>2, <1>3, <1>4, <2>1, EmptyColumns DEF WrapOK
<1>6. Placed(m) = Placed(l)
  <2>1. ReadRows(m.done) = Then(ReadRows(l.done), VisibleCells(l.current))
    BY <1>2, AppendRead DEF Then
  <2>2. Then(Placed(l), <<>>) = Placed(l)
    BY <1>1, PlacedType, ThenFacts
  <2> QED
    BY <1>2, <2>1, <2>2, EmptyVisible DEF Placed
<1> QED
  BY <1>2, <1>5, <1>6 DEF m

\* A row grows by a cell as long as it fits.
LEMMA PushBreakingOK ==
  ASSUME NEW Cell, NEW w \in Nat, NEW l, WrapOK(l, w, Cell), l.space = <<>>,
         NEW cell \in Cell, ~IsSpace(cell)
  PROVE  /\ WrapOK(PushBreaking(l, cell, w), w, Cell)
         /\ Placed(PushBreaking(l, cell, w)) = Then(Placed(l), Shown(cell))
         /\ PushBreaking(l, cell, w).space = <<>>
         /\ PushBreaking(l, cell, w).word = l.word
<1> DEFINE columns == CharColumns(cell.char)
           open == IF l.current # <<>> /\ l.columns + columns > w THEN FlushRow(l) ELSE l
           m == PushBreaking(l, cell, w)
<1>1. columns \in Nat
  BY DEF CharColumns
<1>2. /\ WrapOK(open, w, Cell) /\ Placed(open) = Placed(l)
      /\ open.space = <<>> /\ open.word = l.word
      /\ open.current = <<>> \/ open.columns + columns <= w
  <2>1. CASE l.current # <<>> /\ l.columns + columns > w
    <3>1. open = FlushRow(l)
      BY <2>1
    <3> HIDE DEF open
    <3> QED
      BY <2>1, <3>1, FlushRowOK
  <2>2. CASE ~(l.current # <<>> /\ l.columns + columns > w)
    <3>1. open = l
      BY <2>2
    <3>2. l.columns \in Nat
      BY DEF WrapOK, WrapperType
    <3> HIDE DEF open, columns
    <3> QED
      BY <1>1, <2>2, <3>1, <3>2
  <2> QED
    BY <2>1, <2>2
<1>3. m = [open EXCEPT !.current = Append(@, cell), !.columns = @ + columns]
  BY DEF PushBreaking
<1> HIDE DEF open, columns, m
<1>4. /\ open \in WrapperType(Cell) /\ open.current \in Seq(Cell) /\ open.columns \in Nat
      /\ open.columns = Columns(open.current)
  BY <1>2 DEF WrapOK, WrapperType
<1> DEFINE row == Append(open.current, cell)
<1>5. /\ row \in Seq(Cell) /\ row # <<>> /\ row[Len(row)] = cell
      /\ open.current = <<>> => Len(row) = 1 /\ row[1] = cell
      /\ open.current # <<>> => row[1] = open.current[1]
  BY <1>4
<1>6. Columns(row) = Columns(open.current) + columns
  BY <1>4, AppendColumns DEF columns
<1>7. VisibleCells(row) = Then(VisibleCells(open.current), Shown(cell))
  BY <1>4, AppendVisible DEF Then
<1> HIDE DEF row
<1>8. /\ m \in WrapperType(Cell) /\ m.done = open.done /\ m.current = row
      /\ m.columns = open.columns + columns /\ m.space = open.space /\ m.word = open.word
  <2>1. m = [open EXCEPT !.current = row, !.columns = @ + columns]
    BY <1>3 DEF row
  <2>2. open.columns + columns \in Nat
    BY <1>1, <1>4
  <2> QED
    BY <1>4, <1>5, <2>1, <2>2 DEF WrapperType
<1>9. RowFits(row, w)
  <2>1. CASE open.current = <<>>
    BY <1>5, <2>1 DEF RowFits
  <2>2. CASE open.current # <<>>
    <3>1. ~IsSpace(open.current[1])
      BY <1>2, <2>2 DEF WrapOK, RowFits
    <3>2. Columns(row) <= w
      BY <1>2, <1>4, <1>6, <2>2
    <3> QED
      BY <1>5, <2>2, <3>1, <3>2 DEF RowFits
  <2> QED
    BY <2>1, <2>2
<1>10. WrapOK(m, w, Cell)
  BY <1>2, <1>4, <1>6, <1>8, <1>9 DEF WrapOK
<1>11. Placed(m) = Then(Placed(l), Shown(cell))
  <2> DEFINE a == ReadRows(open.done)
             b == VisibleCells(open.current)
             c == Shown(cell)
  <2>1. a \in Seq(Cell) /\ b \in Seq(Cell) /\ c \in Seq(Cell)
    BY <1>4, PlacedType, VisibleType, ShownFacts
  <2>2. Placed(m) = Then(a, Then(b, c)) /\ Placed(l) = Then(a, b)
    BY <1>2, <1>7, <1>8 DEF Placed
  <2> HIDE DEF a, b, c
  <2>3. Then(Then(a, b), c) = Then(a, Then(b, c))
    BY <2>1, ThenFacts
  <2> QED
    BY <2>2, <2>3 DEF c
<1> QED
  BY <1>2, <1>8, <1>10, <1>11 DEF m

\* A word that is wider than the line is placed cell by cell.
LEMMA PushBrokenWordOK ==
  ASSUME NEW Cell, NEW w \in Nat, NEW l, WrapOK(l, w, Cell),
         NEW word \in Seq(Cell), NoSpaces(word)
  PROVE  /\ WrapOK(PushBrokenWord(l, word, w), w, Cell)
         /\ Placed(PushBrokenWord(l, word, w)) = Then(Placed(l), VisibleCells(word))
         /\ PushBrokenWord(l, word, w).space = <<>>
<1> DEFINE N == Len(word)
           X == {x \in WrapperType(Cell) : WrapOK(x, w, Cell) /\ x.space = <<>>}
           start == [l EXCEPT !.space = <<>>]
           Step(n, x) == PushBreaking(x, word[n], w)
           step == [n \in 1 .. N |-> [x \in X |-> Step(n, x)]]
           Walk(f) == [n \in 0 .. N |-> IF n = 0 THEN start ELSE Step(n, f[n - 1])]
           walk == CHOOSE f : f = Walk(f)
<1>1. PushBrokenWord(l, word, w) = walk[N]
  BY DEF PushBrokenWord
<1>2. N \in Nat /\ \A n \in 1 .. N : word[n] \in Cell /\ ~IsSpace(word[n])
  BY DEF NoSpaces
<1>3. start \in X /\ Placed(start) = Placed(l)
  <2>1. l \in WrapperType(Cell)
    BY DEF WrapOK
  <2>2. <<>> \in Seq(Cell) /\ Held(<<>>)
    BY DEF Held
  <2>3. /\ start \in WrapperType(Cell) /\ start.done = l.done /\ start.current = l.current
        /\ start.columns = l.columns /\ start.word = l.word /\ start.space = <<>>
    BY <2>1, <2>2 DEF WrapperType
  <2> HIDE DEF start
  <2>4. WrapOK(start, w, Cell)
    BY <2>2, <2>3 DEF WrapOK
  <2> QED
    BY <2>3, <2>4 DEF Placed
<1>4. ASSUME NEW n \in 1 .. N, NEW x \in X
      PROVE  Step(n, x) \in X /\ Placed(Step(n, x)) = Then(Placed(x), Shown(word[n]))
  <2> DEFINE cell == word[n]
  <2>1. WrapOK(x, w, Cell) /\ x.space = <<>> /\ cell \in Cell /\ ~IsSpace(cell)
    BY <1>2
  <2>2. Step(n, x) = PushBreaking(x, cell, w)
    OBVIOUS
  <2> HIDE DEF Step, cell, X, N
  <2>3. /\ WrapOK(PushBreaking(x, cell, w), w, Cell)
        /\ Placed(PushBreaking(x, cell, w)) = Then(Placed(x), Shown(cell))
        /\ PushBreaking(x, cell, w).space = <<>>
    BY <2>1, PushBreakingOK
  <2> QED
    BY <2>2, <2>3 DEF WrapOK, X, cell
<1> HIDE DEF Step, X, N, start
<1>5. step \in [1 .. N -> [X -> X]]
  BY <1>4
<1>6. PICK f : IsWalk(f, X, N, start, step)
  BY <1>2, <1>3, <1>5, WalkExists
<1>7. f = Walk(f)
  <2>1. f \in [0 .. N -> X] /\ \A n \in 1 .. N : f[n - 1] \in X
    BY <1>2, <1>6 DEF IsWalk
  <2>2. \A n \in 1 .. N : f[n] = Step(n, f[n - 1])
    BY <1>6, <2>1 DEF IsWalk
  <2> QED
    BY <1>2, <1>6, <2>1, <2>2 DEF IsWalk
<1>8. walk = Walk(walk)
  BY <1>7
<1> HIDE DEF walk
<1>9. \A n \in 0 .. N : walk[n] = IF n = 0 THEN start ELSE Step(n, walk[n - 1])
  BY <1>8
<1> DEFINE Read(n) == VisibleUpTo(word)[n]
           S == {n \in 0 .. N : walk[n] \in X /\ Placed(walk[n]) = Then(Placed(l), Read(n))}
<1>10. /\ Read(0) = <<>>
       /\ \A n \in 0 .. N : Read(n) \in Seq(Cell)
       /\ \A n \in 1 .. N : Read(n) = Then(Read(n - 1), Shown(word[n]))
  BY VisibleFacts, ThenVisible DEF N
<1>11. Placed(l) \in Seq(Cell)
  BY PlacedType DEF WrapOK
<1> HIDE DEF Read
<1>12. 0 \in S
  <2>1. Then(Placed(l), <<>>) = Placed(l)
    BY <1>11, ThenFacts
  <2>2. 0 \in 0 .. N /\ walk[0] = start
    BY <1>2, <1>9
  <2>3. Placed(walk[0]) = Then(Placed(l), Read(0))
    BY <1>3, <1>10, <2>1, <2>2, Zenon
  <2> QED
    BY <1>3, <2>2, <2>3
<1>13. ASSUME NEW n \in 1 .. N, n - 1 \in S PROVE n \in S
  <2> DEFINE a == Placed(l)
             b == Read(n - 1)
             c == Shown(word[n])
             before == walk[n - 1]
             after == walk[n]
  <2>1. n \in 0 .. N /\ n - 1 \in 0 .. N /\ n # 0
    BY <1>2
  <2>2. before \in X /\ Placed(before) = Then(a, b)
    BY <1>13
  <2>3. after = Step(n, before)
    BY <1>9, <2>1
  <2>4. after \in X /\ Placed(after) = Then(Placed(before), c)
    BY <1>4, <2>2, <2>3
  <2>5. a \in Seq(Cell) /\ b \in Seq(Cell) /\ c \in Seq(Cell)
    BY <1>2, <1>10, <1>11, <2>1, ShownFacts
  <2>6. Read(n) = Then(b, c)
    BY <1>10
  <2> HIDE DEF a, b, c, before, after
  <2>7. Then(Then(a, b), c) = Then(a, Then(b, c))
    BY <2>5, ThenFacts
  <2>8. Placed(after) = Then(a, Read(n))
    BY <2>2, <2>4, <2>6, <2>7
  <2> QED
    BY <2>1, <2>4, <2>8 DEF after, a
<1> HIDE DEF S
<1>14. 0 .. N \subseteq S
  BY <1>2, <1>12, <1>13, Induction
<1>15. walk[N] \in X /\ Placed(walk[N]) = Then(Placed(l), Read(N))
  BY <1>2, <1>14 DEF S
<1> QED
  BY <1>1, <1>15 DEF X, Read, VisibleCells, N

\* A word that fits a line of its own is a row that fits.
LEMMA WordFits ==
  ASSUME NEW Cell, NEW w \in Nat, NEW word \in Seq(Cell), word # <<>>, NoSpaces(word),
         Columns(word) <= w
  PROVE  RowFits(word, w)
<1>1. 1 \in 1 .. Len(word) /\ Len(word) \in 1 .. Len(word)
  OBVIOUS
<1> QED
  BY <1>1 DEF NoSpaces, RowFits

LEMMA StartRowOK ==
  ASSUME NEW Cell, NEW w \in Nat, NEW l, WrapOK(l, w, Cell), l.current = <<>>,
         NEW word \in Seq(Cell), word # <<>>, NoSpaces(word), Columns(word) <= w
  PROVE  /\ WrapOK(StartRow(l, word), w, Cell)
         /\ Placed(StartRow(l, word)) = Then(Placed(l), VisibleCells(word))
<1> DEFINE m == StartRow(l, word)
           columns == Columns(word)
<1>1. l \in WrapperType(Cell)
  BY DEF WrapOK
<1>2. columns \in Nat
  BY AppendColumns
<1>3. m = [l EXCEPT !.current = word, !.columns = columns, !.space = <<>>]
  BY DEF StartRow
<1> HIDE DEF m, columns
<1>4. /\ m \in WrapperType(Cell) /\ m.done = l.done /\ m.current = word
      /\ m.columns = columns /\ m.space = <<>> /\ m.word = l.word
  BY <1>1, <1>2, <1>3 DEF WrapperType
<1>5. RowFits(word, w) /\ Held(<<>>)
  BY WordFits DEF Held
<1>6. WrapOK(m, w, Cell)
  BY <1>4, <1>5 DEF WrapOK, columns
<1>7. Placed(m) = Then(Placed(l), VisibleCells(word))
  <2>1. ReadRows(l.done) \in Seq(Cell)
    BY <1>1, PlacedType
  <2>2. Then(ReadRows(l.done), <<>>) = ReadRows(l.done)
    BY <2>1, ThenFacts
  <2> QED
    BY <1>4, <2>2, EmptyVisible DEF Placed
<1> QED
  BY <1>6, <1>7 DEF m

\* Where a line that is not empty and another one are joined.
LEMMA ConcatEnds ==
  ASSUME NEW Cell, NEW s \in Seq(Cell), NEW t \in Seq(Cell), s # <<>>
  PROVE  /\ s \o t \in Seq(Cell) /\ s \o t # <<>> /\ (s \o t)[1] = s[1]
         /\ t # <<>> => (s \o t)[Len(s \o t)] = t[Len(t)]
<1>1. s \o t \in Seq(Cell) /\ s \o t # <<>> /\ (s \o t)[1] = s[1]
  OBVIOUS
<1>2. ASSUME t # <<>> PROVE (s \o t)[Len(s \o t)] = t[Len(t)]
  <2>1. Len(t) \in Nat \ {0} /\ Len(s) \in Nat
    BY <1>2, EmptySeq
  <2>2. Len(s \o t) = Len(s) + Len(t) /\ Len(s) + Len(t) \in 1 .. Len(s) + Len(t)
    BY <2>1, ConcatProperties
  <2>3. (s \o t)[Len(s) + Len(t)] = t[Len(t)]
    BY <2>1
  <2> QED
    BY <2>2, <2>3
<1> QED
  BY <1>1, <1>2

\* The space held back comes between two words of a row.  It is one column wide.
LEMMA AppendWithSpaceOK ==
  ASSUME NEW Cell, NEW w \in Nat, NEW l, WrapOK(l, w, Cell), l.current # <<>>,
         NEW word \in Seq(Cell), word # <<>>, NoSpaces(word),
         l.columns + 1 + Columns(word) <= w, Space \notin Wide \cup ZeroWidth
  PROVE  /\ WrapOK(AppendWithSpace(l, word), w, Cell)
         /\ Placed(AppendWithSpace(l, word)) = Then(Placed(l), VisibleCells(word))
<1> DEFINE m == AppendWithSpace(l, word)
           between == l.current \o l.space
           row == between \o word
           columns == l.columns + Len(l.space) + Columns(word)
<1>1. /\ l \in WrapperType(Cell) /\ l.current \in Seq(Cell) /\ l.space \in Seq(Cell)
      /\ l.columns \in Nat /\ l.columns = Columns(l.current)
  BY DEF WrapOK, WrapperType
<1>2. Len(l.space) \in Nat /\ Len(l.space) <= 1 /\ \A i \in 1 .. Len(l.space) : IsSpace(l.space[i])
  BY <1>1 DEF WrapOK, Held
<1>3. Columns(word) \in Nat
  BY AppendColumns
<1>4. columns \in Nat /\ columns <= w
  BY <1>1, <1>2, <1>3
<1>5. Columns(l.space) = Len(l.space)
  <2> DEFINE n == Len(l.space)
             space == l.space
  <2>1. n = 0 \/ n = 1
    <3>1. n \in Nat /\ n <= 1
      BY <1>2
    <3> HIDE DEF n
    <3> QED
      BY <3>1
  <2>2. ASSUME n = 0 PROVE Columns(space) = n
    <3>1. space \in Seq(Cell) /\ Len(space) = 0
      BY <1>1, <2>2
    <3> HIDE DEF space
    <3>2. space = <<>>
      BY <3>1, EmptySeq
    <3> QED
      BY <2>2, <3>2, EmptyColumns
  <2>3. ASSUME n = 1 PROVE Columns(space) = n
    <3>1. space \in Seq(Cell) /\ 1 \in 1 .. Len(space) /\ Len(space) = 1
      BY <1>1, <2>3
    <3>2. space[1].char = Space
      BY <1>2, <3>1 DEF IsSpace
    <3> HIDE DEF space
    <3>3. ColumnsUpTo(space)[1] = ColumnsUpTo(space)[0] + CharColumns(space[1].char)
      <4>1. \A i \in 1 .. Len(space) :
               ColumnsUpTo(space)[i] = ColumnsUpTo(space)[i - 1] + CharColumns(space[i].char)
        BY <3>1, ColumnsFacts
      <4>2. 1 - 1 = 0
        OBVIOUS
      <4> QED
        BY <3>1, <4>1, <4>2
    <3>4. ColumnsUpTo(space)[0] = 0
      BY <3>1, ColumnsFacts
    <3>5. CharColumns(space[1].char) = 1
      BY <3>2 DEF CharColumns
    <3> QED
      BY <2>3, <3>1, <3>3, <3>4, <3>5 DEF Columns
  <2> QED
    BY <2>1, <2>2, <2>3
<1>6. VisibleCells(l.space) = <<>>
  BY <1>1, <1>2, SpaceIsNotVisible
<1>7. /\ between \in Seq(Cell) /\ row \in Seq(Cell) /\ row # <<>>
      /\ row[1] = l.current[1] /\ row[Len(row)] = word[Len(word)]
  <2> DEFINE current == l.current
             space == l.space
  <2>1. current \in Seq(Cell) /\ current # <<>> /\ space \in Seq(Cell)
    BY <1>1
  <2>2. /\ between \in Seq(Cell) /\ between # <<>> /\ between[1] = current[1]
    <3>1. between = current \o space
      OBVIOUS
    <3> HIDE DEF current, space, between
    <3> QED
      BY <2>1, <3>1, ConcatEnds
  <2> HIDE DEF between
  <2> QED
    BY <2>2, ConcatEnds
<1>8. Columns(between) = Columns(l.current) + Columns(l.space)
  BY <1>1, ConcatColumns
<1>9. Columns(row) = Columns(between) + Columns(word)
  BY <1>7, ConcatColumns
<1>10. Columns(row) = columns
  BY <1>1, <1>2, <1>3, <1>5, <1>8, <1>9
<1>11. VisibleCells(row) = Then(VisibleCells(l.current), VisibleCells(word))
  <2>1. VisibleCells(row) = Then(VisibleCells(between), VisibleCells(word))
    BY <1>7, ConcatVisible DEF Then
  <2>2. VisibleCells(between) = Then(VisibleCells(l.current), VisibleCells(l.space))
    BY <1>1, ConcatVisible DEF Then
  <2>3. VisibleCells(l.current) \in Seq(Cell)
    BY <1>1, VisibleType
  <2>4. Then(VisibleCells(l.current), <<>>) = VisibleCells(l.current)
    BY <2>3, ThenFacts
  <2> QED
    BY <1>6, <2>1, <2>2, <2>4, Zenon
<1>12. m = [l EXCEPT !.current = row, !.columns = columns, !.space = <<>>]
  <2>1. l.current \o l.space \o word = row
    OBVIOUS
  <2>2. l.columns + Len(l.space) + Columns(word) = columns
    OBVIOUS
  <2> HIDE DEF row, columns
  <2> QED
    BY <2>1, <2>2, Zenon DEF AppendWithSpace
<1> HIDE DEF m, columns, row, between
<1>13. /\ m \in WrapperType(Cell) /\ m.done = l.done /\ m.current = row
       /\ m.columns = columns /\ m.space = <<>> /\ m.word = l.word
  <2>1. <<>> \in Seq(Cell)
    OBVIOUS
  <2> QED
    BY <1>1, <1>4, <1>7, <1>12, <2>1 DEF WrapperType
<1>14. RowFits(row, w)
  <2>1. RowFits(l.current, w)
    BY DEF WrapOK
  <2>2. ~IsSpace(l.current[1])
    BY <2>1 DEF RowFits
  <2>3. ~IsSpace(word[Len(word)])
    <3>1. Len(word) \in 1 .. Len(word)
      OBVIOUS
    <3> QED
      BY <3>1 DEF NoSpaces
  <2> QED
    BY <1>4, <1>7, <1>10, <2>2, <2>3 DEF RowFits
<1>15. Held(<<>>)
  BY DEF Held
<1>16. WrapOK(m, w, Cell)
  BY <1>10, <1>13, <1>14, <1>15 DEF WrapOK
<1>17. Placed(m) = Then(Placed(l), VisibleCells(word))
  <2> DEFINE a == ReadRows(l.done)
             b == VisibleCells(l.current)
             c == VisibleCells(word)
  <2>1. a \in Seq(Cell) /\ b \in Seq(Cell) /\ c \in Seq(Cell)
    BY <1>1, PlacedType, VisibleType
  <2>2. Placed(m) = Then(a, Then(b, c)) /\ Placed(l) = Then(a, b)
    BY <1>11, <1>13 DEF Placed
  <2> HIDE DEF a, b, c
  <2>3. Then(Then(a, b), c) = Then(a, Then(b, c))
    BY <2>1, ThenFacts
  <2> QED
    BY <2>2, <2>3 DEF c
<1> QED
  BY <1>16, <1>17 DEF m

LEMMA PlaceWordOK ==
  ASSUME NEW Cell, NEW w \in Nat, NEW l, WrapOK(l, w, Cell),
         NEW word \in Seq(Cell), word # <<>>, NoSpaces(word), Columns(word) <= w,
         Space \notin Wide \cup ZeroWidth
  PROVE  /\ WrapOK(PlaceWord(l, word, w), w, Cell)
         /\ Placed(PlaceWord(l, word, w)) = Then(Placed(l), VisibleCells(word))
<1> DEFINE m == PlaceWord(l, word, w)
           wider == l.columns + 1 + Columns(word) > w
           fits == l.columns + 1 + Columns(word) <= w
<1>1. CASE l.current = <<>>
  <2>1. m = StartRow(l, word)
    BY <1>1 DEF PlaceWord
  <2> HIDE DEF m
  <2>2. WrapOK(m, w, Cell) /\ Placed(m) = Then(Placed(l), VisibleCells(word))
    BY <1>1, <2>1, StartRowOK
  <2> QED
    BY <2>2 DEF m
<1>2. CASE l.current # <<>> /\ wider
  <2>1. l.columns \in Nat /\ Columns(word) \in Nat
    BY AppendColumns DEF WrapOK, WrapperType
  <2>2. ~fits
    BY <1>2, <2>1
  <2>3. m = StartRow(FlushRow(l), word)
    BY <1>2, <2>2 DEF PlaceWord
  <2> DEFINE flushed == FlushRow(l)
  <2>4. WrapOK(flushed, w, Cell) /\ Placed(flushed) = Placed(l) /\ flushed.current = <<>>
    BY <1>2, FlushRowOK
  <2> HIDE DEF flushed
  <2>5. /\ WrapOK(StartRow(flushed, word), w, Cell)
        /\ Placed(StartRow(flushed, word)) = Then(Placed(flushed), VisibleCells(word))
    BY <2>4, StartRowOK
  <2> QED
    BY <2>3, <2>4, <2>5 DEF flushed
<1>3. CASE l.current # <<>> /\ fits
  <2>1. l.columns \in Nat /\ Columns(word) \in Nat
    BY AppendColumns DEF WrapOK, WrapperType
  <2>2. ~wider
    BY <1>3, <2>1
  <2>3. m = AppendWithSpace(l, word)
    BY <1>3, <2>2 DEF PlaceWord
  <2> HIDE DEF m
  <2>4. WrapOK(m, w, Cell) /\ Placed(m) = Then(Placed(l), VisibleCells(word))
    BY <1>3, <2>3, AppendWithSpaceOK
  <2> QED
    BY <2>4 DEF m
<1>4. l.columns \in Nat /\ Columns(word) \in Nat
  BY AppendColumns DEF WrapOK, WrapperType
<1>5. wider \/ fits
  BY <1>4
<1> HIDE DEF wider, fits
<1> QED
  BY <1>1, <1>2, <1>3, <1>5

LEMMA PushWordOK ==
  ASSUME NEW Cell, NEW w \in Nat, NEW l, WrapOK(l, w, Cell),
         NEW word \in Seq(Cell), word # <<>>, NoSpaces(word), Space \notin Wide \cup ZeroWidth
  PROVE  /\ WrapOK(PushWord(l, word, w), w, Cell)
         /\ Placed(PushWord(l, word, w)) = Then(Placed(l), VisibleCells(word))
<1> DEFINE m == PushWord(l, word, w)
<1>1. CASE Columns(word) > w
  <2>1. m = PushBrokenWord(l, word, w)
    BY <1>1 DEF PushWord
  <2> HIDE DEF m
  <2>2. WrapOK(m, w, Cell) /\ Placed(m) = Then(Placed(l), VisibleCells(word))
    BY <2>1, PushBrokenWordOK
  <2> QED
    BY <2>2 DEF m
<1>2. CASE ~(Columns(word) > w)
  <2>1. m = PlaceWord(l, word, w)
    BY <1>2 DEF PushWord
  <2>2. Columns(word) <= w
    BY <1>2, AppendColumns
  <2> HIDE DEF m
  <2>3. WrapOK(m, w, Cell) /\ Placed(m) = Then(Placed(l), VisibleCells(word))
    BY <2>1, <2>2, PlaceWordOK
  <2> QED
    BY <2>3 DEF m
<1> QED
  BY <1>1, <1>2

\* Giving up the word, when it has come to its row.
LEMMA ForgetWord ==
  ASSUME NEW Cell, NEW w \in Nat, NEW l, WrapOK(l, w, Cell)
  PROVE  /\ WrapOK([l EXCEPT !.word = <<>>], w, Cell)
         /\ Placed([l EXCEPT !.word = <<>>]) = Placed(l)
<1> DEFINE m == [l EXCEPT !.word = <<>>]
<1>1. l \in WrapperType(Cell) /\ <<>> \in Seq(Cell) /\ NoSpaces(<<>>)
  BY DEF WrapOK, NoSpaces
<1>2. /\ m \in WrapperType(Cell) /\ m.done = l.done /\ m.current = l.current
      /\ m.columns = l.columns /\ m.space = l.space /\ m.word = <<>>
  BY <1>1 DEF WrapperType
<1> HIDE DEF m
<1>3. WrapOK(m, w, Cell) /\ Placed(m) = Placed(l)
  BY <1>1, <1>2 DEF WrapOK, Placed
<1> QED
  BY <1>3 DEF m

LEMMA FlushWordOK ==
  ASSUME NEW Cell, NEW w \in Nat, NEW l, WrapOK(l, w, Cell), Space \notin Wide \cup ZeroWidth
  PROVE  /\ WrapOK(FlushWord(l, w), w, Cell)
         /\ FlushWord(l, w).word = <<>>
         /\ Placed(FlushWord(l, w)) = Progress(l)
<1>1. l \in WrapperType(Cell) /\ l.word \in Seq(Cell) /\ NoSpaces(l.word)
  BY DEF WrapOK, WrapperType
<1>2. CASE l.word = <<>>
  <2>1. FlushWord(l, w) = l
    BY <1>2 DEF FlushWord
  <2>2. Then(Placed(l), <<>>) = Placed(l)
    BY <1>1, PlacedType, ThenFacts
  <2> QED
    BY <1>2, <2>1, <2>2, EmptyVisible DEF Progress
<1>3. CASE l.word # <<>>
  <2> DEFINE pushed == PushWord(l, l.word, w)
             m == [pushed EXCEPT !.word = <<>>]
  <2>1. FlushWord(l, w) = m
    BY <1>3 DEF FlushWord
  <2>2. WrapOK(pushed, w, Cell) /\ Placed(pushed) = Progress(l)
    <3> DEFINE word == l.word
    <3>1. word \in Seq(Cell) /\ word # <<>> /\ NoSpaces(word)
      BY <1>1, <1>3
    <3> HIDE DEF word
    <3>2. /\ WrapOK(PushWord(l, word, w), w, Cell)
          /\ Placed(PushWord(l, word, w)) = Then(Placed(l), VisibleCells(word))
      BY <3>1, PushWordOK
    <3> QED
      BY <3>2 DEF word, Progress
  <2> HIDE DEF pushed
  <2>3. WrapOK(m, w, Cell) /\ Placed(m) = Progress(l)
    BY <2>2, ForgetWord
  <2>4. m.word = <<>>
    <3>1. pushed \in WrapperType(Cell)
      BY <2>2 DEF WrapOK
    <3> QED
      BY <3>1 DEF WrapperType
  <2> HIDE DEF m
  <2> QED
    BY <2>1, <2>3, <2>4
<1> QED
  BY <1>2, <1>3

\* One more cell of the line: a space ends the word, any other cell is of it.
LEMMA WrapCellOK ==
  ASSUME NEW Cell, NEW w \in Nat, NEW l, WrapOK(l, w, Cell), NEW cell \in Cell,
         Space \notin Wide \cup ZeroWidth
  PROVE  /\ WrapOK(WrapCell(l, cell, w), w, Cell)
         /\ Progress(WrapCell(l, cell, w)) = Then(Progress(l), Shown(cell))
<1>1. l \in WrapperType(Cell) /\ l.word \in Seq(Cell)
  BY DEF WrapOK, WrapperType
<1>2. Placed(l) \in Seq(Cell) /\ VisibleCells(l.word) \in Seq(Cell) /\ Shown(cell) \in Seq(Cell)
  BY <1>1, PlacedType, VisibleType, ShownFacts
<1>3. Progress(l) \in Seq(Cell)
  BY <1>2, ThenFacts DEF Progress
<1>4. CASE IsSpace(cell)
  <2> DEFINE flushed == FlushWord(l, w)
             space == <<cell>>
             m == [flushed EXCEPT !.space = space]
  <2>1. WrapCell(l, cell, w) = m
    BY <1>4 DEF WrapCell
  <2>2. WrapOK(flushed, w, Cell) /\ flushed.word = <<>> /\ Placed(flushed) = Progress(l)
    BY FlushWordOK
  <2>3. space \in Seq(Cell) /\ Held(space)
    BY <1>4 DEF Held
  <2> HIDE DEF flushed, space
  <2>4. flushed \in WrapperType(Cell)
    BY <2>2 DEF WrapOK
  <2>5. /\ m \in WrapperType(Cell) /\ m.done = flushed.done /\ m.current = flushed.current
        /\ m.columns = flushed.columns /\ m.space = space /\ m.word = flushed.word
    BY <2>3, <2>4 DEF WrapperType
  <2> HIDE DEF m
  <2>6. WrapOK(m, w, Cell)
    BY <2>2, <2>3, <2>5 DEF WrapOK
  <2>7. Placed(m) = Progress(l)
    BY <2>2, <2>5 DEF Placed
  <2>8. Progress(m) = Then(Progress(l), <<>>)
    BY <2>2, <2>5, <2>7, EmptyVisible DEF Progress
  <2>9. Shown(cell) = <<>>
    BY <1>4 DEF Shown
  <2> QED
    BY <2>1, <2>6, <2>8, <2>9
<1>5. CASE ~IsSpace(cell)
  <2> DEFINE word == Append(l.word, cell)
             m == [l EXCEPT !.word = word]
  <2>1. WrapCell(l, cell, w) = m
    BY <1>5 DEF WrapCell
  <2>2. VisibleCells(word) = Then(VisibleCells(l.word), Shown(cell))
    BY <1>1, AppendVisible DEF Then
  <2>3. word \in Seq(Cell) /\ NoSpaces(word)
    <3>1. NoSpaces(l.word)
      BY DEF WrapOK
    <3>2. /\ word \in Seq(Cell) /\ Len(word) = Len(l.word) + 1 /\ Len(l.word) \in Nat
          /\ word[Len(word)] = cell /\ \A i \in 1 .. Len(l.word) : word[i] = l.word[i]
      BY <1>1
    <3> HIDE DEF word
    <3>3. ASSUME NEW i \in 1 .. Len(word) PROVE ~IsSpace(word[i])
      <4>1. i = Len(word) \/ i \in 1 .. Len(l.word)
        BY <3>2
      <4> QED
        BY <1>5, <3>1, <3>2, <4>1 DEF NoSpaces
    <3> QED
      BY <3>2, <3>3 DEF NoSpaces
  <2> HIDE DEF word
  <2>4. /\ m \in WrapperType(Cell) /\ m.done = l.done /\ m.current = l.current
        /\ m.columns = l.columns /\ m.space = l.space /\ m.word = word
    BY <1>1, <2>3 DEF WrapperType
  <2> HIDE DEF m
  <2>5. WrapOK(m, w, Cell)
    BY <2>3, <2>4 DEF WrapOK
  <2>6. Placed(m) = Placed(l)
    BY <2>4 DEF Placed
  <2> DEFINE a == Placed(l)
             b == VisibleCells(l.word)
             c == Shown(cell)
  <2>7. Progress(m) = Then(a, Then(b, c)) /\ Progress(l) = Then(a, b)
    BY <2>2, <2>4, <2>6 DEF Progress
  <2>8. a \in Seq(Cell) /\ b \in Seq(Cell) /\ c \in Seq(Cell)
    BY <1>2
  <2> HIDE DEF a, b, c
  <2>9. Then(Then(a, b), c) = Then(a, Then(b, c))
    BY <2>8, ThenFacts
  <2> QED
    BY <2>1, <2>5, <2>7, <2>9 DEF c
<1> QED
  BY <1>4, <1>5

LEMMA NewWrapperOK ==
  ASSUME NEW Cell, NEW w \in Nat
  PROVE  WrapOK(NewWrapper, w, Cell) /\ Progress(NewWrapper) = <<>>
<1>1. <<>> \in Seq(Seq(Cell)) /\ <<>> \in Seq(Cell) /\ Len(<<>>) = 0
  OBVIOUS
<1>2. NewWrapper \in WrapperType(Cell)
  BY <1>1 DEF NewWrapper, WrapperType
<1>3. /\ NewWrapper.done = <<>> /\ NewWrapper.current = <<>> /\ NewWrapper.columns = 0
      /\ NewWrapper.space = <<>> /\ NewWrapper.word = <<>>
  BY DEF NewWrapper
<1>4. Held(<<>>) /\ NoSpaces(<<>>)
  BY DEF Held, NoSpaces
<1>5. WrapOK(NewWrapper, w, Cell)
  BY <1>1, <1>2, <1>3, <1>4, EmptyColumns DEF WrapOK
<1>6. Then(<<>>, <<>>) = <<>>
  BY <1>1, ThenFacts
<1> QED
  BY <1>3, <1>5, <1>6, EmptyVisible, EmptyRead DEF Progress, Placed

\* What the wrapper holds once it has come past the first n cells.
LEMMA WrapFacts ==
  ASSUME NEW Cell, NEW w \in Nat, NEW cells \in Seq(Cell), Space \notin Wide \cup ZeroWidth
  PROVE  /\ WrapOK(WrapUpTo(cells, w)[Len(cells)], w, Cell)
         /\ Progress(WrapUpTo(cells, w)[Len(cells)]) = VisibleCells(cells)
<1> DEFINE N == Len(cells)
           X == {x \in WrapperType(Cell) : WrapOK(x, w, Cell)}
           Step(n, x) == WrapCell(x, cells[n], w)
           step == [n \in 1 .. N |-> [x \in X |-> Step(n, x)]]
           Walk(f) == [n \in 0 .. N |-> IF n = 0 THEN NewWrapper ELSE Step(n, f[n - 1])]
           walk == WrapUpTo(cells, w)
<1>1. walk = CHOOSE f : f = Walk(f)
  BY DEF WrapUpTo
<1>2. N \in Nat /\ \A n \in 1 .. N : cells[n] \in Cell
  OBVIOUS
<1>3. NewWrapper \in X /\ Progress(NewWrapper) = <<>>
  BY NewWrapperOK DEF WrapOK
<1>4. ASSUME NEW n \in 1 .. N, NEW x \in X
      PROVE  Step(n, x) \in X /\ Progress(Step(n, x)) = Then(Progress(x), Shown(cells[n]))
  <2> DEFINE cell == cells[n]
  <2>1. WrapOK(x, w, Cell) /\ cell \in Cell
    BY <1>2
  <2>2. Step(n, x) = WrapCell(x, cell, w)
    OBVIOUS
  <2> HIDE DEF Step, cell, X, N
  <2>3. /\ WrapOK(WrapCell(x, cell, w), w, Cell)
        /\ Progress(WrapCell(x, cell, w)) = Then(Progress(x), Shown(cell))
    BY <2>1, WrapCellOK
  <2> QED
    BY <2>2, <2>3 DEF WrapOK, X, cell
<1> HIDE DEF Step, X, N
<1>5. step \in [1 .. N -> [X -> X]]
  BY <1>4
<1>6. PICK f : IsWalk(f, X, N, NewWrapper, step)
  BY <1>2, <1>3, <1>5, WalkExists
<1>7. f = Walk(f)
  <2>1. f \in [0 .. N -> X] /\ \A n \in 1 .. N : f[n - 1] \in X
    BY <1>2, <1>6 DEF IsWalk
  <2>2. \A n \in 1 .. N : f[n] = Step(n, f[n - 1])
    BY <1>6, <2>1 DEF IsWalk
  <2> QED
    BY <1>2, <1>6, <2>1, <2>2 DEF IsWalk
<1> HIDE DEF walk
<1>8. walk = Walk(walk)
  BY <1>1, <1>7
<1>9. \A n \in 0 .. N : walk[n] = IF n = 0 THEN NewWrapper ELSE Step(n, walk[n - 1])
  BY <1>8
<1> DEFINE Read(n) == VisibleUpTo(cells)[n]
           S == {n \in 0 .. N : walk[n] \in X /\ Progress(walk[n]) = Read(n)}
<1>10. /\ Read(0) = <<>>
       /\ \A n \in 1 .. N : Read(n) = Then(Read(n - 1), Shown(cells[n]))
  BY VisibleFacts, ThenVisible DEF N
<1> HIDE DEF Read
<1>11. 0 \in S
  <2>1. 0 \in 0 .. N /\ walk[0] = NewWrapper
    BY <1>2, <1>9
  <2> QED
    BY <1>3, <1>10, <2>1
<1>12. ASSUME NEW n \in 1 .. N, n - 1 \in S PROVE n \in S
  <2> DEFINE before == walk[n - 1]
             after == walk[n]
  <2>1. n \in 0 .. N /\ n # 0
    BY <1>2
  <2>2. before \in X /\ Progress(before) = Read(n - 1)
    BY <1>12
  <2>3. after = Step(n, before)
    BY <1>9, <2>1
  <2>4. after \in X /\ Progress(after) = Then(Progress(before), Shown(cells[n]))
    BY <1>4, <2>2, <2>3
  <2>5. Progress(after) = Read(n)
    BY <1>10, <2>2, <2>4, Zenon
  <2> QED
    BY <2>1, <2>4, <2>5
<1> HIDE DEF S
<1>13. 0 .. N \subseteq S
  BY <1>2, <1>11, <1>12, Induction
<1>14. walk[N] \in X /\ Progress(walk[N]) = Read(N)
  BY <1>2, <1>13 DEF S
<1> QED
  BY <1>14 DEF X, Read, VisibleCells, N, walk

-----------------------------------------------------------------------------
(* What wrapping a line gives.                                             *)

LEMMA WrapCellsFacts ==
  ASSUME NEW Cell, NEW w \in Nat, NEW cells \in Seq(Cell), Space \notin Wide \cup ZeroWidth
  PROVE  /\ WrapCells(cells, w) \in Seq(Seq(Cell))
         /\ \A i \in 1 .. Len(WrapCells(cells, w)) : RowFits(WrapCells(cells, w)[i], w)
         /\ ReadRows(WrapCells(cells, w)) = VisibleCells(cells)
<1> DEFINE last == WrapUpTo(cells, w)[Len(cells)]
           l == FlushWord(last, w)
           wrapped == WrapCells(cells, w)
<1>1. WrapOK(last, w, Cell) /\ Progress(last) = VisibleCells(cells)
  BY WrapFacts
<1>2. wrapped = FinishRows(l)
  BY DEF WrapCells
<1> HIDE DEF last, wrapped
<1>3. WrapOK(l, w, Cell) /\ Placed(l) = VisibleCells(cells)
  BY <1>1, FlushWordOK
<1> HIDE DEF l
<1>4. l \in WrapperType(Cell)
  BY <1>3 DEF WrapOK
<1>5. CASE l.current = <<>>
  <2>1. wrapped = l.done
    BY <1>2, <1>5 DEF FinishRows
  <2>2. ReadRows(l.done) \in Seq(Cell)
    BY <1>4, PlacedType
  <2>3. Then(ReadRows(l.done), <<>>) = ReadRows(l.done)
    BY <2>2, ThenFacts
  <2>4. ReadRows(wrapped) = VisibleCells(cells)
    BY <1>3, <1>5, <2>1, <2>3, EmptyVisible DEF Placed
  <2>5. \A i \in 1 .. Len(wrapped) : RowFits(wrapped[i], w)
    BY <1>3, <2>1 DEF WrapOK
  <2>6. wrapped \in Seq(Seq(Cell))
    BY <1>4, <2>1 DEF WrapperType
  <2> QED
    BY <2>4, <2>5, <2>6 DEF wrapped
<1>6. CASE l.current # <<>>
  <2> DEFINE m == FlushRow(l)
  <2>1. WrapOK(m, w, Cell) /\ Placed(m) = VisibleCells(cells) /\ m.current = <<>>
    BY <1>3, <1>6, FlushRowOK
  <2>2. wrapped = m.done
    BY <1>2, <1>4, <1>6 DEF FinishRows, FlushRow, WrapperType
  <2> HIDE DEF m
  <2>3. ReadRows(m.done) \in Seq(Cell)
    BY <2>1, PlacedType DEF WrapOK
  <2>4. Then(ReadRows(m.done), <<>>) = ReadRows(m.done)
    BY <2>3, ThenFacts
  <2>5. ReadRows(wrapped) = VisibleCells(cells)
    BY <2>1, <2>2, <2>4, EmptyVisible DEF Placed
  <2>6. \A i \in 1 .. Len(wrapped) : RowFits(wrapped[i], w)
    BY <2>1, <2>2 DEF WrapOK
  <2>7. wrapped \in Seq(Seq(Cell))
    BY <2>1, <2>2 DEF WrapOK, WrapperType
  <2> QED
    BY <2>5, <2>6, <2>7 DEF wrapped
<1> QED
  BY <1>5, <1>6

(***************************************************************************)
(* No row of a wrapped line is wider than the line, but for one that is a  *)
(* single character, and none starts or ends with a space: for every line, *)
(* every width and every set of wide characters that the space is not in   *)
(* (render.rs, wrap_cells and LineWrapper).                                *)
(***************************************************************************)
THEOREM WrappedRowsFit ==
  ASSUME NEW Cell, NEW w \in Nat, NEW cells \in Seq(Cell), Space \notin Wide \cup ZeroWidth
  PROVE  \A i \in 1 .. Len(WrapCells(cells, w)) : RowFits(WrapCells(cells, w)[i], w)
BY WrapCellsFacts

(***************************************************************************)
(* Wrapping loses no character, doubles none and moves none: the rows, read *)
(* from the first to the last, are the line without its spaces (render.rs, *)
(* wrap_cells), also where a word is broken.                               *)
(***************************************************************************)
THEOREM WrapKeepsText ==
  ASSUME NEW Cell, NEW w \in Nat, NEW cells \in Seq(Cell), Space \notin Wide \cup ZeroWidth
  PROVE  ReadRows(WrapCells(cells, w)) = VisibleCells(cells)
BY WrapCellsFacts

(***************************************************************************)
(* A line that is clipped to a width is not wider than it (render.rs,      *)
(* clip_cells), and is the line's start.                                   *)
(***************************************************************************)
THEOREM ClippedRowFits ==
  ASSUME NEW Cell, NEW w \in Nat, NEW cells \in Seq(Cell)
  PROVE  /\ Columns(Clip(cells, w)) <= w
         /\ \A i \in 1 .. Len(Clip(cells, w)) : Clip(cells, w)[i] = cells[i]
<1> DEFINE fits == {n \in 0 .. Len(cells) : ColumnsUpTo(cells)[n] <= w}
           last == Max(fits)
           clip == SubSeq(cells, 1, last)
<1>1. Len(cells) \in Nat /\ ColumnsUpTo(cells)[0] = 0
  BY ColumnsFacts
<1>2. last \in fits
  <2>1. 0 \in fits /\ fits \subseteq 0 .. Len(cells)
    BY <1>1
  <2>2. \E m \in fits : \A n \in fits : m >= n
    <3> DEFINE Bounds == {n \in 0 .. Len(cells) : \A m \in fits : m <= n}
    <3>1. Bounds \in SUBSET Nat /\ Len(cells) \in Bounds
      BY <1>1
    <3>2. PICK b \in Bounds : \A m \in Bounds : b <= m
      BY <3>1, LeastNumber
    <3>3. b \in fits
      <4>1. CASE b = 0
        BY <2>1, <4>1
      <4>2. CASE b # 0
        <5>1. b \in 0 .. Len(cells) /\ b - 1 \in 0 .. Len(cells)
          BY <1>1, <4>2
        <5>2. b - 1 \notin Bounds
          <6> HIDE DEF Bounds
          <6> QED
            BY <3>2, <5>1
        <5>3. PICK m \in fits : ~(m <= b - 1)
          BY <5>1, <5>2
        <5>4. m <= b
          BY <3>2, <5>3
        <5>5. m = b
          BY <2>1, <5>1, <5>3, <5>4
        <5> QED
          BY <5>3, <5>5
      <4> QED
        BY <4>1, <4>2
    <3> QED
      BY <3>2, <3>3
  <2> HIDE DEF fits
  <2> QED
    BY <2>2 DEF Max
<1> HIDE DEF last
<1>3. /\ last \in 0 .. Len(cells) /\ ColumnsUpTo(cells)[last] <= w
  BY <1>2
<1>4. /\ clip \in Seq(Cell) /\ Len(clip) = last
      /\ \A i \in 1 .. last : clip[i] = cells[i]
  BY <1>1, <1>3
<1> HIDE DEF clip
<1>5. ColumnsUpTo(clip)[last] = ColumnsUpTo(cells)[last]
  BY <1>1, <1>3, <1>4, ColumnsAlike
<1>6. Clip(cells, w) = clip
  BY DEF Clip, clip, last
<1> QED
  BY <1>3, <1>4, <1>5, <1>6 DEF Columns

-----------------------------------------------------------------------------
(* The scan for spans: what holds once it has come past the first n cells. *)
(* A closed span ends before the open one starts, unless it is of nothing; *)
(* the columns before that are right, and those after it have the mark of  *)
(* the open span.  That is the mark of the cell the scan came past last.   *)

SpanType(M) == [mark : M, first : Nat, last : Nat]
ScanType(M) == [spans : Seq(SpanType(M)), open : M, start : Nat, col : Nat]

SpansOver(S, k) == {s \in S : s.first <= k /\ k <= s.last}

MarkedAt(S, k, mark, nothing) ==
  /\ mark = None => SpansOver(S, k) \subseteq nothing
  /\ mark # None => \E s \in SpansOver(S, k) :
                       s.mark = mark /\ SpansOver(S, k) \ {s} \subseteq nothing

Limit(r) == IF r.open = None THEN r.col ELSE r.start

ScanOK(r, row, marks, n, M) ==
  /\ r \in ScanType(M)
  /\ r.col = ColumnsUpTo(row)[n]
  /\ r.open # None => r.start <= r.col /\ n >= 1 /\ marks[n] = r.open
  /\ \A s \in ToSet(r.spans) : s.last < Limit(r) \/ s \in SpansOfNothing(row, marks)
  /\ \A j \in 1 .. n : \A k \in ColumnsOfCell(row, j) :
        /\ k \in Nat /\ k < r.col
        /\ k < Limit(r) => MarkedAt(ToSet(r.spans), k, marks[j], SpansOfNothing(row, marks))
        /\ k >= Limit(r) => marks[j] = r.open

LEMMA AppendToSet ==
  ASSUME NEW X, NEW s \in Seq(X), NEW x \in X
  PROVE  ToSet(Append(s, x)) = ToSet(s) \cup {x}
<1> DEFINE t == Append(s, x)
<1>1. /\ Len(s) \in Nat /\ t \in Seq(X) /\ Len(t) = Len(s) + 1 /\ t[Len(t)] = x
      /\ \A i \in 1 .. Len(s) : t[i] = s[i]
  OBVIOUS
<1> HIDE DEF t
<1>2. ToSet(s) = {s[i] : i \in 1 .. Len(s)} /\ ToSet(t) = {t[i] : i \in 1 .. Len(t)}
  BY <1>1 DEF ToSet
<1>3. ToSet(t) \subseteq ToSet(s) \cup {x}
  <2> SUFFICES ASSUME NEW i \in 1 .. Len(t) PROVE t[i] \in ToSet(s) \cup {x}
    BY <1>2
  <2>1. i = Len(t) \/ i \in 1 .. Len(s)
    BY <1>1
  <2> QED
    BY <1>1, <1>2, <2>1
<1>4. ToSet(s) \cup {x} \subseteq ToSet(t)
  <2>1. Len(t) \in 1 .. Len(t) /\ \A i \in 1 .. Len(s) : i \in 1 .. Len(t)
    BY <1>1
  <2> QED
    BY <1>1, <1>2, <2>1
<1> QED
  BY <1>3, <1>4 DEF t

LEMMA ToSetType ==
  ASSUME NEW X, NEW s \in Seq(X)
  PROVE  ToSet(s) \subseteq X
BY DEF ToSet

\* Closing the open span makes every column so far right.
LEMMA CloseSpanOK ==
  ASSUME NEW Cell, NEW row \in Seq(Cell), NEW M, NEW marks, NEW n \in 0 .. Len(row),
         NEW r, ScanOK(r, row, marks, n, M)
  PROVE  /\ CloseSpan(r) \in Seq(SpanType(M))
         /\ \A s \in ToSet(CloseSpan(r)) : s.last < r.col \/ s \in SpansOfNothing(row, marks)
         /\ \A j \in 1 .. n : \A k \in ColumnsOfCell(row, j) :
               MarkedAt(ToSet(CloseSpan(r)), k, marks[j], SpansOfNothing(row, marks))
<1> DEFINE P == SpansOfNothing(row, marks)
<1>1. /\ r \in ScanType(M) /\ r.spans \in Seq(SpanType(M)) /\ r.start \in Nat /\ r.col \in Nat
      /\ r.open \in M
      /\ r.open # None => r.start <= r.col
      /\ \A s \in ToSet(r.spans) : s.last < Limit(r) \/ s \in P
  BY DEF ScanOK, ScanType
<1>2. \A j \in 1 .. n : \A k \in ColumnsOfCell(row, j) :
         /\ k \in Nat /\ k < r.col
         /\ k < Limit(r) => MarkedAt(ToSet(r.spans), k, marks[j], P)
         /\ k >= Limit(r) => marks[j] = r.open
  BY DEF ScanOK
<1>3. CASE r.open = None
  <2>1. CloseSpan(r) = r.spans /\ Limit(r) = r.col
    BY <1>3 DEF CloseSpan, Limit
  <2> HIDE DEF P
  <2> QED
    BY <1>1, <1>2, <2>1 DEF P
<1>4. CASE r.open # None
  <2> DEFINE span == [mark |-> r.open, first |-> r.start, last |-> LastColumn(r.col)]
             spans == CloseSpan(r)
             S == ToSet(r.spans)
             T == ToSet(spans)
  <2>1. spans = Append(r.spans, span) /\ Limit(r) = r.start
    BY <1>4 DEF CloseSpan, Limit
  <2>2. /\ span \in SpanType(M) /\ span.first = r.start /\ span.mark = r.open
        /\ r.col > 0 => span.last = r.col - 1
        /\ span.last \in Nat
    BY <1>1, <1>4 DEF SpanType, LastColumn
  <2>3. r.col = 0 => span \in P
    <3> SUFFICES ASSUME r.col = 0 PROVE span \in P
      OBVIOUS
    <3>1. n \in DOMAIN row /\ ColumnsUpTo(row)[n] = 0 /\ marks[n] = r.open
      BY <1>4 DEF ScanOK
    <3>2. span = [mark |-> marks[n], first |-> 0, last |-> 0]
      BY <1>1, <1>4, <3>1 DEF LastColumn
    <3> QED
      BY <1>4, <3>1, <3>2 DEF SpansOfNothing
  <2>4. S \subseteq SpanType(M)
    BY <1>1, ToSetType
  <2> HIDE DEF span
  <2>5. spans \in Seq(SpanType(M)) /\ T = S \cup {span}
    BY <1>1, <2>1, <2>2, AppendToSet
  <2> HIDE DEF spans, S, T, P
  <2>6. \A s \in S : /\ s.first \in Nat /\ s.last \in Nat
                     /\ s.last < r.start \/ s \in P
    BY <1>1, <2>1, <2>4 DEF SpanType, S
  <2>7. \A s \in T : s.last < r.col \/ s \in P
    <3>1. span.last < r.col \/ span \in P
      BY <1>1, <2>2, <2>3
    <3>2. \A s \in S : s.last < r.col \/ s \in P
      BY <1>1, <1>4, <2>6
    <3> QED
      BY <2>5, <3>1, <3>2
  <2>8. ASSUME NEW j \in 1 .. n, NEW k \in ColumnsOfCell(row, j)
        PROVE  MarkedAt(T, k, marks[j], P)
    <3>1. /\ k \in Nat /\ k < r.col
          /\ k < r.start => MarkedAt(S, k, marks[j], P)
          /\ k >= r.start => marks[j] = r.open
      BY <1>2, <2>1 DEF S, P
    <3>2. CASE k < r.start
      <4>1. SpansOver(T, k) = SpansOver(S, k)
        BY <1>1, <2>2, <2>5, <3>1, <3>2 DEF SpansOver
      <4> QED
        BY <3>1, <3>2, <4>1 DEF MarkedAt
    <3>3. CASE k >= r.start
      <4>1. \A s \in S : k <= s.last => s \in P
        BY <1>1, <2>6, <3>1, <3>3
      <4>2. span.first <= k /\ k <= span.last
        BY <1>1, <2>2, <3>1, <3>3
      <4>3. span \in SpansOver(T, k) /\ SpansOver(T, k) \ {span} \subseteq P
        BY <2>5, <4>1, <4>2 DEF SpansOver
      <4> QED
        BY <1>4, <2>2, <3>1, <3>3, <4>3 DEF MarkedAt
    <3> QED
      BY <1>1, <3>1, <3>2, <3>3
  <2> QED
    BY <2>5, <2>7, <2>8 DEF spans, T, P
<1> QED
  BY <1>3, <1>4

LEMMA ScanCellOK ==
  ASSUME NEW Cell, NEW row \in Seq(Cell), NEW M, None \in M, NEW marks,
         NEW n \in 1 .. Len(row), marks[n] \in M,
         NEW r, ScanOK(r, row, marks, n - 1, M)
  PROVE  ScanOK(ScanCell(r, row[n], marks[n]), row, marks, n, M)
<1> DEFINE columns == CharColumns(row[n].char)
           mark == marks[n]
           col == r.col
           end == col + columns
           q == ScanCell(r, row[n], mark)
           C(i) == ColumnsUpTo(row)[i]
           P == SpansOfNothing(row, marks)
<1>1. columns \in Nat
  BY DEF CharColumns
<1>2. C(n) = C(n - 1) + columns
  BY ColumnsFacts
<1>3. /\ r \in ScanType(M) /\ r.spans \in Seq(SpanType(M)) /\ r.start \in Nat /\ col \in Nat
      /\ r.open \in M /\ col = C(n - 1)
      /\ r.open # None => r.start <= col
      /\ \A s \in ToSet(r.spans) : s.last < Limit(r) \/ s \in P
  BY DEF ScanOK, ScanType
<1>4. \A j \in 1 .. n - 1 : \A k \in ColumnsOfCell(row, j) :
         /\ k \in Nat /\ k < col
         /\ k < Limit(r) => MarkedAt(ToSet(r.spans), k, marks[j], P)
         /\ k >= Limit(r) => marks[j] = r.open
  BY DEF ScanOK
<1> HIDE DEF columns, C, P
<1>5. end \in Nat /\ end = C(n) /\ col <= end
  BY <1>1, <1>2, <1>3
<1>6. \A k \in ColumnsOfCell(row, n) : k \in Nat /\ col <= k /\ k < end
  BY <1>3, <1>5 DEF ColumnsOfCell, C
<1>7. /\ \A j \in 1 .. n : j = n \/ j \in 1 .. n - 1
      /\ n >= 1 /\ n - 1 \in 0 .. Len(row)
  OBVIOUS
<1>8. ToSet(r.spans) \subseteq SpanType(M)
  BY <1>3, ToSetType
<1> HIDE DEF mark
<1>9. CASE mark = r.open
  <2>1. q = [r EXCEPT !.col = end]
    BY <1>9 DEF ScanCell, Advance, columns
  <2> HIDE DEF q, end
  <2>2. /\ q \in ScanType(M) /\ q.spans = r.spans /\ q.open = r.open /\ q.start = r.start
        /\ q.col = end
    BY <1>3, <1>5, <2>1 DEF ScanType
  <2>3. /\ r.open = None => Limit(r) = col /\ Limit(q) = end
        /\ r.open # None => Limit(r) = r.start /\ Limit(q) = r.start
    BY <2>2 DEF Limit
  <2>4. \A s \in ToSet(q.spans) : s.last < Limit(q) \/ s \in P
    <3> HIDE DEF col
    <3> QED
      BY <1>3, <1>5, <1>8, <2>2, <2>3 DEF SpanType
  <2>5. ASSUME NEW j \in 1 .. n, NEW k \in ColumnsOfCell(row, j)
        PROVE  /\ k \in Nat /\ k < end
               /\ k < Limit(q) => MarkedAt(ToSet(q.spans), k, marks[j], P)
               /\ k >= Limit(q) => marks[j] = q.open
    <3>1. CASE j = n
      <4>1. k \in Nat /\ col <= k /\ k < end
        BY <1>6, <3>1
      <4>2. CASE r.open = None
        <5>1. \A s \in ToSet(r.spans) : k <= s.last => s \in P
          BY <1>3, <1>8, <2>3, <4>1, <4>2 DEF SpanType
        <5>2. SpansOver(ToSet(q.spans), k) \subseteq P
          BY <2>2, <5>1 DEF SpansOver
        <5>3. marks[j] = None /\ q.open = None
          BY <1>9, <2>2, <3>1, <4>2 DEF mark
        <5> QED
          BY <4>1, <5>2, <5>3 DEF MarkedAt
      <4>3. CASE r.open # None
        <5>1. ~(k < Limit(q))
          BY <1>3, <2>3, <4>1, <4>3
        <5> QED
          BY <1>9, <2>2, <3>1, <4>1, <5>1 DEF mark
      <4> QED
        BY <4>2, <4>3
    <3>2. CASE j \in 1 .. n - 1
      <4>1. /\ k \in Nat /\ k < col
            /\ k < Limit(r) => MarkedAt(ToSet(r.spans), k, marks[j], P)
            /\ k >= Limit(r) => marks[j] = r.open
        BY <1>4, <3>2
      <4> HIDE DEF col
      <4>2. k < end
        BY <1>3, <1>5, <4>1
      <4>3. CASE r.open = None
        BY <1>3, <1>5, <2>2, <2>3, <4>1, <4>2, <4>3
      <4>4. CASE r.open # None
        BY <2>2, <2>3, <4>1, <4>2, <4>4
      <4> QED
        BY <4>3, <4>4
    <3> QED
      BY <1>7, <3>1, <3>2
  <2>6. q.open # None => q.start <= q.col /\ n >= 1 /\ marks[n] = q.open
    <3> HIDE DEF col
    <3> QED
      BY <1>3, <1>5, <1>7, <1>9, <2>2 DEF mark
  <2>7. q.col = C(n)
    BY <1>5, <2>2
  <2>8. \A j \in 1 .. n : \A k \in ColumnsOfCell(row, j) :
           /\ k \in Nat /\ k < q.col
           /\ k < Limit(q) => MarkedAt(ToSet(q.spans), k, marks[j], P)
           /\ k >= Limit(q) => marks[j] = q.open
    BY <2>2, <2>5
  <2>9. ScanOK(q, row, marks, n, M)
    BY <2>2, <2>4, <2>6, <2>7, <2>8 DEF ScanOK, C, P
  <2> QED
    BY <2>9 DEF q, mark
<1>10. CASE mark # r.open
  <2> DEFINE spans == CloseSpan(r)
  <2>1. /\ spans \in Seq(SpanType(M))
        /\ \A s \in ToSet(spans) : s.last < col \/ s \in P
        /\ \A j \in 1 .. n - 1 : \A k \in ColumnsOfCell(row, j) :
              MarkedAt(ToSet(spans), k, marks[j], P)
    BY <1>7, CloseSpanOK DEF P
  <2>2. q = [spans |-> spans, open |-> mark, start |-> col, col |-> end]
    BY <1>10 DEF ScanCell, Advance, columns
  <2>3. mark \in M
    BY DEF mark
  <2> HIDE DEF spans, q, end, col
  <2>4. /\ q \in ScanType(M) /\ q.spans = spans /\ q.open = mark /\ q.start = col
        /\ q.col = end
    BY <1>3, <1>5, <2>1, <2>2, <2>3 DEF ScanType
  <2>5. /\ mark = None => Limit(q) = end
        /\ mark # None => Limit(q) = col
    BY <2>4 DEF Limit
  <2>6. ToSet(spans) \subseteq SpanType(M)
    BY <2>1, ToSetType
  <2>7. \A s \in ToSet(q.spans) : s.last < Limit(q) \/ s \in P
    BY <1>3, <1>5, <2>1, <2>4, <2>5, <2>6 DEF SpanType
  <2>8. ASSUME NEW j \in 1 .. n, NEW k \in ColumnsOfCell(row, j)
        PROVE  /\ k \in Nat /\ k < end
               /\ k < Limit(q) => MarkedAt(ToSet(q.spans), k, marks[j], P)
               /\ k >= Limit(q) => marks[j] = q.open
    <3>1. CASE j = n
      <4>1. k \in Nat /\ col <= k /\ k < end
        BY <1>6, <3>1
      <4>2. CASE mark = None
        <5>1. \A s \in ToSet(spans) : k <= s.last => s \in P
          BY <1>3, <2>1, <2>6, <4>1 DEF SpanType
        <5>2. SpansOver(ToSet(q.spans), k) \subseteq P
          BY <2>4, <5>1 DEF SpansOver
        <5>3. marks[j] = None /\ q.open = None
          BY <2>4, <3>1, <4>2 DEF mark
        <5> QED
          BY <4>1, <5>2, <5>3 DEF MarkedAt
      <4>3. CASE mark # None
        <5>1. ~(k < Limit(q))
          BY <1>3, <2>5, <4>1, <4>3
        <5> QED
          BY <2>4, <3>1, <4>1, <5>1 DEF mark
      <4> QED
        BY <4>2, <4>3
    <3>2. CASE j \in 1 .. n - 1
      <4>1. k \in Nat /\ k < col /\ MarkedAt(ToSet(q.spans), k, marks[j], P)
        BY <1>4, <2>1, <2>4, <3>2
      <4>2. k < end /\ ~(k >= Limit(q))
        BY <1>3, <1>5, <2>5, <4>1
      <4> QED
        BY <4>1, <4>2
    <3> QED
      BY <1>7, <3>1, <3>2
  <2>9. q.open # None => q.start <= q.col /\ n >= 1 /\ marks[n] = q.open
    BY <1>5, <1>7, <2>4 DEF mark
  <2>10. q.col = C(n)
    BY <1>5, <2>4
  <2>11. \A j \in 1 .. n : \A k \in ColumnsOfCell(row, j) :
            /\ k \in Nat /\ k < q.col
            /\ k < Limit(q) => MarkedAt(ToSet(q.spans), k, marks[j], P)
            /\ k >= Limit(q) => marks[j] = q.open
    BY <2>4, <2>8
  <2>12. ScanOK(q, row, marks, n, M)
    BY <2>4, <2>7, <2>9, <2>10, <2>11 DEF ScanOK, C, P
  <2> QED
    BY <2>12 DEF q, mark
<1> QED
  BY <1>9, <1>10

LEMMA ScanCellType ==
  ASSUME NEW M, None \in M, NEW cell, NEW mark \in M, NEW r \in ScanType(M)
  PROVE  ScanCell(r, cell, mark) \in ScanType(M)
<1> DEFINE columns == CharColumns(cell.char)
           end == r.col + columns
           q == ScanCell(r, cell, mark)
           spans == CloseSpan(r)
<1>1. columns \in Nat
  BY DEF CharColumns
<1>2. /\ r.spans \in Seq(SpanType(M)) /\ r.start \in Nat /\ r.col \in Nat
      /\ r.open \in M
  BY DEF ScanType
<1>3. spans \in Seq(SpanType(M))
  <2>1. CASE r.open = None
    BY <1>2, <2>1 DEF CloseSpan
  <2>2. CASE r.open # None
    <3> DEFINE span == [mark |-> r.open, first |-> r.start, last |-> LastColumn(r.col)]
    <3>1. span \in SpanType(M)
      BY <1>2, <2>2 DEF SpanType, LastColumn
    <3>2. spans = Append(r.spans, span)
      BY <2>2 DEF CloseSpan
    <3> HIDE DEF span
    <3> QED
      BY <1>2, <3>1, <3>2
  <2> QED
    BY <2>1, <2>2
<1>4. q = IF mark = r.open THEN [r EXCEPT !.col = end]
          ELSE [spans |-> spans, open |-> mark, start |-> r.col, col |-> end]
  BY DEF ScanCell, Advance
<1> HIDE DEF columns, spans
<1>5. end \in Nat
  BY <1>1, <1>2
<1> HIDE DEF q, end
<1>6. q \in ScanType(M)
  BY <1>2, <1>3, <1>4, <1>5 DEF ScanType
<1> QED
  BY <1>6 DEF q

\* What holds at the end of the row.
LEMMA ScanFacts ==
  ASSUME NEW Cell, NEW row \in Seq(Cell), NEW M, None \in M, NEW marks,
         \A n \in 1 .. Len(row) : marks[n] \in M
  PROVE  ScanOK(ScanUpTo(row, marks)[Len(row)], row, marks, Len(row), M)
<1> DEFINE N == Len(row)
           X == ScanType(M)
           Step(n, x) == ScanCell(x, row[n], marks[n])
           step == [n \in 1 .. N |-> [x \in X |-> Step(n, x)]]
           Walk(f) == [n \in 0 .. N |-> IF n = 0 THEN NewScan ELSE Step(n, f[n - 1])]
           walk == ScanUpTo(row, marks)
<1>1. walk = CHOOSE f : f = Walk(f)
  BY DEF ScanUpTo
<1>2. N \in Nat
  OBVIOUS
<1>3. NewScan \in ScanType(M) /\ NewScan \in X
  <2>1. <<>> \in Seq(SpanType(M))
    OBVIOUS
  <2> QED
    BY <2>1 DEF NewScan, ScanType
<1>4. \A n \in 1 .. N, x \in X : Step(n, x) \in X
  BY ScanCellType
<1> HIDE DEF Step, X, N
<1>5. step \in [1 .. N -> [X -> X]]
  BY <1>4
<1>6. PICK f : IsWalk(f, X, N, NewScan, step)
  BY <1>2, <1>3, <1>5, WalkExists
<1>7. f = Walk(f)
  <2>1. f \in [0 .. N -> X] /\ \A n \in 1 .. N : f[n - 1] \in X
    BY <1>2, <1>6 DEF IsWalk
  <2>2. \A n \in 1 .. N : f[n] = Step(n, f[n - 1])
    BY <1>6, <2>1 DEF IsWalk
  <2> QED
    BY <1>2, <1>6, <2>1, <2>2 DEF IsWalk
<1> HIDE DEF walk
<1>8. walk = Walk(walk)
  BY <1>1, <1>7
<1>9. \A n \in 0 .. N : walk[n] = IF n = 0 THEN NewScan ELSE Step(n, walk[n - 1])
  BY <1>8
<1> DEFINE Good(n) == ScanOK(walk[n], row, marks, n, M)
           S == {n \in 0 .. N : Good(n)}
<1>10. 0 \in S
  <2>1. 0 \in 0 .. N /\ walk[0] = NewScan
    BY <1>2, <1>9
  <2>2. ToSet(<<>>) = {}
    BY DEF ToSet
  <2>3. ScanOK(NewScan, row, marks, 0, M)
    <3>1. ColumnsUpTo(row)[0] = 0
      BY ColumnsFacts
    <3>2. /\ NewScan.spans = <<>> /\ NewScan.open = None /\ NewScan.col = 0
      BY DEF NewScan
    <3>3. 1 .. 0 = {}
      OBVIOUS
    <3> QED
      BY <1>3, <2>2, <3>1, <3>2, <3>3 DEF ScanOK
  <2> QED
    BY <2>1, <2>3
<1>11. ASSUME NEW n \in 1 .. N, n - 1 \in S PROVE n \in S
  <2> DEFINE before == walk[n - 1]
             mark == marks[n]
  <2>1. n \in 0 .. N /\ n # 0
    BY <1>2
  <2>2. walk[n] = ScanCell(before, row[n], mark)
    BY <1>9, <2>1 DEF Step
  <2>3. ScanOK(before, row, marks, n - 1, M)
    BY <1>11
  <2>4. n \in 1 .. Len(row) /\ marks[n] \in M
    BY DEF N
  <2> HIDE DEF before
  <2>5. ScanOK(ScanCell(before, row[n], marks[n]), row, marks, n, M)
    BY <2>3, <2>4, ScanCellOK
  <2> QED
    BY <2>1, <2>2, <2>5
<1> HIDE DEF S, Good
<1>12. 0 .. N \subseteq S
  BY <1>2, <1>10, <1>11, Induction
<1>13. Good(N)
  BY <1>2, <1>12 DEF S
<1> QED
  BY <1>13 DEF Good, N, walk

(***************************************************************************)
(* The spans of a row are the columns of its marked cells: at each column  *)
(* there is exactly one span, with the mark of the cell drawn there, or    *)
(* none where that cell has no mark.  For every row, every marking of its  *)
(* cells and every set of wide characters and of characters of no column;  *)
(* where the row starts with marked ones of those, their spans may stand   *)
(* on its first column besides (render.rs, extract_link_spans and          *)
(* extract_field_spans).                                                   *)
(***************************************************************************)
THEOREM SpansCorrect ==
  ASSUME NEW Cell, NEW row \in Seq(Cell), NEW marks
  PROVE  SpansMatch(Spans(row, marks), row, marks)
<1> DEFINE M == {None} \cup {marks[n] : n \in 1 .. Len(row)}
           r == ScanUpTo(row, marks)[Len(row)]
           spans == Spans(row, marks)
<1>1. None \in M /\ \A n \in 1 .. Len(row) : marks[n] \in M
  OBVIOUS
<1>2. spans = CloseSpan(r)
  BY DEF Spans
<1> HIDE DEF M, r, spans
<1>3. ScanOK(r, row, marks, Len(row), M)
  BY <1>1, ScanFacts DEF r
<1>4. \A j \in 1 .. Len(row) : \A k \in ColumnsOfCell(row, j) :
         MarkedAt(ToSet(spans), k, marks[j], SpansOfNothing(row, marks))
  <2>1. Len(row) \in 0 .. Len(row)
    OBVIOUS
  <2> QED
    BY <1>2, <1>3, <2>1, CloseSpanOK
<1>5. \A k : SpansOver(ToSet(spans), k) = SpansAt(spans, k)
  BY DEF SpansOver, SpansAt
<1>6. DOMAIN row = 1 .. Len(row)
  OBVIOUS
<1>7. SpansMatch(spans, row, marks)
  BY <1>4, <1>5, <1>6 DEF SpansMatch, MarkedAt
<1> QED
  BY <1>7 DEF spans

(***************************************************************************)
(* The property the runs check, for whatever rows the layout produces.     *)
(***************************************************************************)
THEOREM LinkAndFieldSpansCorrect ==
  ASSUME NEW Cell, rows \in Seq(Seq(Cell))
  PROVE  SpansMatchTheCells
<1>1. ASSUME NEW i \in DOMAIN rows
      PROVE  /\ SpansMatch(LinkSpans(rows[i]), rows[i], Links(rows[i]))
             /\ SpansMatch(FieldSpans(rows[i]), rows[i], Fields(rows[i]))
  <2> DEFINE row == rows[i]
             links == Links(row)
             fields == Fields(row)
  <2>1. row \in Seq(Cell)
    OBVIOUS
  <2>2. LinkSpans(row) = Spans(row, links) /\ FieldSpans(row) = Spans(row, fields)
    BY DEF LinkSpans, FieldSpans
  <2> HIDE DEF row, links, fields
  <2>3. SpansMatch(Spans(row, links), row, links) /\ SpansMatch(Spans(row, fields), row, fields)
    BY <2>1, SpansCorrect
  <2> QED
    BY <2>2, <2>3 DEF row, links, fields
<1> QED
  BY <1>1 DEF SpansMatchTheCells

-----------------------------------------------------------------------------
(* What of a line comes to the cell buffer.                                *)

LEMMA SetOfSeq ==
  ASSUME NEW X
  PROVE  \A s \in Seq(X) : ToSet(s) = {s[i] : i \in 1 .. Len(s)}
BY DEF ToSet

LEMMA ConcatToSet ==
  ASSUME NEW X, NEW s \in Seq(X), NEW t \in Seq(X)
  PROVE  ToSet(s \o t) = ToSet(s) \cup ToSet(t)
<1> DEFINE both == s \o t
<1>1. /\ Len(s) \in Nat /\ Len(t) \in Nat /\ both \in Seq(X)
      /\ Len(both) = Len(s) + Len(t)
      /\ \A i \in 1 .. Len(s) : both[i] = s[i]
  OBVIOUS
<1>2. \A i \in 1 .. Len(t) : both[Len(s) + i] = t[i]
  <2> SUFFICES ASSUME NEW i \in 1 .. Len(t) PROVE both[Len(s) + i] = t[i]
    OBVIOUS
  <2>1. Len(s) + i \in 1 .. Len(both) /\ Len(s) + i > Len(s)
    BY <1>1
  <2> QED
    BY <2>1
<1> HIDE DEF both
<1>3. /\ ToSet(s) = {s[i] : i \in 1 .. Len(s)} /\ ToSet(t) = {t[i] : i \in 1 .. Len(t)}
      /\ ToSet(both) = {both[i] : i \in 1 .. Len(both)}
  BY <1>1, SetOfSeq
<1>4. ToSet(both) \subseteq ToSet(s) \cup ToSet(t)
  <2> SUFFICES ASSUME NEW i \in 1 .. Len(both) PROVE both[i] \in ToSet(s) \cup ToSet(t)
    BY <1>3
  <2>1. CASE i <= Len(s)
    <3>1. i \in 1 .. Len(s)
      BY <1>1, <2>1
    <3> QED
      BY <1>1, <1>3, <3>1
  <2>2. CASE i > Len(s)
    <3> DEFINE k == i - Len(s)
    <3>1. k \in 1 .. Len(t) /\ i = Len(s) + k
      BY <1>1, <2>2
    <3> HIDE DEF k
    <3>2. both[i] = t[k]
      BY <1>2, <3>1
    <3> QED
      BY <1>3, <3>1, <3>2
  <2> QED
    BY <1>1, <2>1, <2>2
<1>5. ToSet(s) \subseteq ToSet(both)
  <2>1. \A i \in 1 .. Len(s) : i \in 1 .. Len(both)
    BY <1>1
  <2> QED
    BY <1>1, <1>3, <2>1
<1>6. ToSet(t) \subseteq ToSet(both)
  <2> SUFFICES ASSUME NEW i \in 1 .. Len(t) PROVE t[i] \in ToSet(both)
    BY <1>3
  <2>1. Len(s) + i \in 1 .. Len(both)
    BY <1>1
  <2> QED
    BY <1>2, <1>3, <2>1
<1> QED
  BY <1>4, <1>5, <1>6 DEF both

\* The cells of a line that are read are its cells but for the spaces.
LEMMA VisibleMembers ==
  ASSUME NEW Cell, NEW s \in Seq(Cell)
  PROVE  ToSet(VisibleCells(s)) = {c \in ToSet(s) : ~IsSpace(c)}
<1> DEFINE Read(n) == ToSet(VisibleUpTo(s)[n])
           Past(n) == {s[i] : i \in 1 .. n}
           Good(n) == Read(n) = {c \in Past(n) : ~IsSpace(c)}
           S == {n \in 0 .. Len(s) : Good(n)}
<1>1. Len(s) \in Nat /\ \A n \in 1 .. Len(s) : s[n] \in Cell
  OBVIOUS
<1>2. VisibleUpTo(s)[0] = <<>> /\ \A n \in 0 .. Len(s) : VisibleUpTo(s)[n] \in Seq(Cell)
  BY VisibleFacts
<1>3. ToSet(<<>>) = {}
  BY DEF ToSet
<1>4. 0 \in S
  <2>1. Read(0) = {} /\ Past(0) = {}
    BY <1>2, <1>3
  <2> QED
    BY <1>1, <2>1
<1>5. ASSUME NEW n \in 1 .. Len(s), n - 1 \in S PROVE n \in S
  <2>1. n \in 0 .. Len(s) /\ n - 1 \in 0 .. Len(s)
    BY <1>1
  <2>2. Past(n) = Past(n - 1) \cup {s[n]}
    <3>1. \A i \in 1 .. n : i = n \/ i \in 1 .. n - 1
      BY <1>1
    <3>2. \A i \in 1 .. n - 1 : i \in 1 .. n
      BY <1>1
    <3>3. n \in 1 .. n
      BY <1>1
    <3> QED
      BY <3>1, <3>2, <3>3
  <2> DEFINE before == VisibleUpTo(s)[n - 1]
             next == Shown(s[n])
             after == VisibleUpTo(s)[n]
  <2>3. after = Then(before, next)
    BY ThenVisible
  <2>4. before \in Seq(Cell) /\ next \in Seq(Cell)
    BY <1>1, <1>2, <2>1, ShownFacts
  <2>5. ToSet(next) = IF IsSpace(s[n]) THEN {} ELSE {s[n]}
    <3>1. CASE IsSpace(s[n])
      BY <1>3, <3>1 DEF Shown
    <3>2. CASE ~IsSpace(s[n])
      BY <3>2 DEF Shown, ToSet
    <3> QED
      BY <3>1, <3>2
  <2>6. ToSet(before) = {c \in Past(n - 1) : ~IsSpace(c)}
    BY <1>5
  <2> HIDE DEF before, after, next
  <2>7. ToSet(after) = ToSet(before) \cup ToSet(next)
    BY <2>3, <2>4, ConcatToSet DEF Then
  <2> HIDE DEF Past
  <2>8. ToSet(after) = {c \in Past(n) : ~IsSpace(c)}
    BY <2>2, <2>5, <2>6, <2>7
  <2> QED
    BY <2>1, <2>8 DEF after
<1> HIDE DEF S, Good
<1>6. 0 .. Len(s) \subseteq S
  BY <1>1, <1>4, <1>5, Induction
<1>7. Good(Len(s))
  BY <1>1, <1>6 DEF S
<1>8. ToSet(s) = Past(Len(s))
  BY DEF ToSet
<1> QED
  BY <1>7, <1>8 DEF VisibleCells, Good

\* What is read of rows is read of one of them.
LEMMA ReadMembers ==
  ASSUME NEW Cell, NEW rs \in Seq(Seq(Cell)), NEW c \in ToSet(ReadRows(rs))
  PROVE  \E k \in 1 .. Len(rs) : c \in ToSet(rs[k])
<1> DEFINE Good(n) == \A x \in ToSet(ReadUpTo(rs)[n]) : \E k \in 1 .. n : x \in ToSet(rs[k])
           S == {n \in 0 .. Len(rs) : Good(n)}
<1>1. Len(rs) \in Nat /\ \A n \in 1 .. Len(rs) : rs[n] \in Seq(Cell)
  OBVIOUS
<1>2. /\ ReadUpTo(rs)[0] = <<>> /\ \A n \in 0 .. Len(rs) : ReadUpTo(rs)[n] \in Seq(Cell)
      /\ \A n \in 1 .. Len(rs) :
            ReadUpTo(rs)[n] = Then(ReadUpTo(rs)[n - 1], VisibleCells(rs[n]))
  BY ReadFacts DEF Then
<1>3. 0 \in S
  <2>1. ToSet(<<>>) = {}
    BY DEF ToSet
  <2> QED
    BY <1>1, <1>2, <2>1
<1>4. ASSUME NEW n \in 1 .. Len(rs), n - 1 \in S PROVE n \in S
  <2>1. n \in 0 .. Len(rs) /\ n - 1 \in 0 .. Len(rs)
    BY <1>1
  <2> DEFINE before == ReadUpTo(rs)[n - 1]
             row == rs[n]
             next == VisibleCells(row)
             after == ReadUpTo(rs)[n]
  <2>2. after = Then(before, next)
    BY <1>2
  <2>3. row \in Seq(Cell) /\ before \in Seq(Cell)
    BY <1>1, <1>2, <2>1
  <2>4. Good(n - 1)
    BY <1>4
  <2> HIDE DEF before, after, row
  <2>5. next \in Seq(Cell) /\ ToSet(next) \subseteq ToSet(row)
    BY <2>3, VisibleType, VisibleMembers
  <2> HIDE DEF next
  <2>6. ToSet(after) = ToSet(before) \cup ToSet(next)
    BY <2>2, <2>3, <2>5, ConcatToSet DEF Then
  <2>7. ASSUME NEW x \in ToSet(after) PROVE \E k \in 1 .. n : x \in ToSet(rs[k])
    <3>1. CASE x \in ToSet(next)
      <4>1. n \in 1 .. n
        BY <1>1
      <4> QED
        BY <2>5, <3>1, <4>1 DEF row
    <3>2. CASE x \in ToSet(before)
      <4>1. PICK k \in 1 .. n - 1 : x \in ToSet(rs[k])
        BY <2>4, <3>2 DEF before
      <4>2. k \in 1 .. n
        BY <1>1
      <4> QED
        BY <4>1, <4>2
    <3> QED
      BY <2>6, <3>1, <3>2
  <2> QED
    BY <2>1, <2>7 DEF after
<1> HIDE DEF S, Good
<1>5. 0 .. Len(rs) \subseteq S
  BY <1>1, <1>3, <1>4, Induction
<1>6. Good(Len(rs))
  BY <1>1, <1>5 DEF S
<1> QED
  BY <1>6 DEF ReadRows, Good

\* A union, as a name where only equality matters.
Together(A, B) == A \cup B

LEMMA ThenHolds ==
  ASSUME NEW X, NEW s \in Seq(X), NEW t \in Seq(X)
  PROVE  /\ Then(s, t) \in Seq(X)
         /\ Len(Then(s, t)) = Len(s) + Len(t)
         /\ ToSet(Then(s, t)) = Together(ToSet(s), ToSet(t))
<1>1. Then(s, t) \in Seq(X) /\ Len(Then(s, t)) = Len(s) + Len(t)
  BY DEF Then
<1>2. ToSet(s \o t) = ToSet(s) \cup ToSet(t)
  BY ConcatToSet
<1>3. ToSet(Then(s, t)) = Together(ToSet(s), ToSet(t))
  BY <1>2, Zenon DEF Then, Together
<1> QED
  BY <1>1, <1>3

\* One more cell after the first m columns: those stay, and the cell takes the
\* next one.
Written(x, m, cell, columns, blank) ==
  SubSeq(x, 1, m) \o <<cell>> \o [i \in 1 .. columns - 1 |-> blank]

LEMMA WriteStep ==
  ASSUME NEW Cell, NEW x \in Seq(Cell), NEW m \in 0 .. Len(x), NEW cell \in Cell,
         NEW blank \in Cell, NEW columns \in Nat
  PROVE  /\ Written(x, m, cell, columns, blank) \in Seq(Cell)
         /\ Len(Written(x, m, cell, columns, blank)) >= m + columns
         /\ Written(x, m, cell, columns, blank)[m + 1] = cell
         /\ \A i \in 1 .. m : Written(x, m, cell, columns, blank)[i] = x[i]
<1> DEFINE after == Written(x, m, cell, columns, blank)
           rest == [i \in 1 .. columns - 1 |-> blank]
           kept == SubSeq(x, 1, m)
           one == <<cell>>
           both == kept \o one
           k == IF columns = 0 THEN 0 ELSE columns - 1
<1>1. k \in Nat /\ k + 1 >= columns /\ 1 .. columns - 1 = 1 .. k /\ m \in Nat
  OBVIOUS
<1>2. rest = [i \in 1 .. k |-> blank]
  BY <1>1
<1> HIDE DEF k, rest
<1>3. rest \in Seq(Cell) /\ Len(rest) = k
  BY <1>1, <1>2
<1>4. kept \in Seq(Cell) /\ Len(kept) = m /\ \A i \in 1 .. m : kept[i] = x[i]
  OBVIOUS
<1>5. one \in Seq(Cell) /\ Len(one) = 1 /\ one[1] = cell
  OBVIOUS
<1>6. after = both \o rest
  BY DEF rest, Written
<1> HIDE DEF kept, one, after
<1>7. /\ both \in Seq(Cell) /\ Len(both) = m + 1 /\ both[m + 1] = cell
      /\ \A i \in 1 .. m : both[i] = x[i]
  <2>1. /\ both \in Seq(Cell) /\ Len(both) = Len(kept) + Len(one)
        /\ \A i \in 1 .. Len(kept) + Len(one) :
              both[i] = IF i <= Len(kept) THEN kept[i] ELSE one[i - Len(kept)]
    BY <1>4, <1>5, ConcatProperties, Zenon
  <2> HIDE DEF both
  <2>2. /\ both \in Seq(Cell) /\ Len(both) = m + 1
        /\ \A i \in 1 .. m + 1 : both[i] = IF i <= m THEN kept[i] ELSE one[i - m]
    BY <1>4, <1>5, <2>1
  <2>3. /\ m + 1 \in 1 .. m + 1 /\ ~(m + 1 <= m) /\ (m + 1) - m = 1
        /\ \A i \in 1 .. m : i \in 1 .. m + 1 /\ i <= m
    BY <1>1
  <2> QED
    BY <1>4, <1>5, <2>2, <2>3
<1> HIDE DEF both
<1>8. /\ after \in Seq(Cell) /\ Len(after) = m + 1 + k
      /\ \A i \in 1 .. m + 1 + k : after[i] = IF i <= m + 1 THEN both[i] ELSE rest[i - (m + 1)]
  <2> DEFINE all == both \o rest
  <2>1. /\ all \in Seq(Cell) /\ Len(all) = Len(both) + Len(rest)
        /\ \A i \in 1 .. Len(both) + Len(rest) :
              all[i] = IF i <= Len(both) THEN both[i] ELSE rest[i - Len(both)]
    BY <1>3, <1>7, ConcatProperties, Zenon
  <2> HIDE DEF all
  <2> QED
    BY <1>3, <1>6, <1>7, <2>1 DEF all
<1>9. m + columns <= m + 1 + k
  BY <1>1
<1>10. \A i \in 1 .. m + 1 : i \in 1 .. m + 1 + k /\ i <= m + 1
  BY <1>1
<1>11. m + 1 \in 1 .. m + 1 /\ \A i \in 1 .. m : i \in 1 .. m + 1
  BY <1>1
<1>12. \A i \in 1 .. m + 1 : i \in 1 .. Len(after) /\ after[i] = both[i]
  BY <1>8, <1>10
<1> QED
  BY <1>7, <1>8, <1>9, <1>11, <1>12 DEF after

\* A row takes at least as many columns of the buffer as it is wide, and its
\* cells that have a column are in the first of them.
LEMMA WriteFacts ==
  ASSUME NEW Cell, NEW row \in Seq(Cell), NEW blank \in Cell
  PROVE  /\ WriteUpTo(row, blank)[Len(row)] \in Seq(Cell)
         /\ Len(WriteUpTo(row, blank)[Len(row)]) >= Columns(row)
         /\ \A j \in 1 .. Len(row) : CharColumns(row[j].char) > 0 =>
               \E i \in 1 .. Columns(row) : WriteUpTo(row, blank)[Len(row)][i] = row[j]
<1> DEFINE N == Len(row)
           X == Seq(Cell)
           C(n) == ColumnsUpTo(row)[n]
           wide(n) == CharColumns(row[n].char)
           Put(n, x) == Written(x, C(n - 1), row[n], wide(n), blank)
           Step(n, x) == IF C(n - 1) <= Len(x) THEN Put(n, x) ELSE x
           step == [n \in 1 .. N |-> [x \in X |-> Step(n, x)]]
           Walk(f) == [n \in 0 .. N |-> IF n = 0 THEN <<>> ELSE Put(n, f[n - 1])]
           walk == WriteUpTo(row, blank)
<1>1. walk = CHOOSE f : f = Walk(f)
  BY DEF WriteUpTo, Written
<1>2. N \in Nat /\ <<>> \in X /\ Len(<<>>) = 0
  OBVIOUS
<1>3. \A n \in 1 .. N : row[n] \in Cell /\ wide(n) \in Nat
  BY DEF CharColumns
<1>4. /\ C(0) = 0 /\ \A n \in 0 .. N : C(n) \in Nat
      /\ \A n \in 1 .. N : C(n) = C(n - 1) + wide(n)
  BY ColumnsFacts
<1> HIDE DEF C, wide, N
<1>5. \A n \in 1 .. N : n - 1 \in 0 .. N /\ n \in 0 .. N /\ n # 0
  BY <1>2
<1>6. ASSUME NEW n \in 1 .. N, NEW x \in X, C(n - 1) <= Len(x)
      PROVE  /\ Put(n, x) \in X /\ Len(Put(n, x)) >= C(n)
             /\ wide(n) > 0 => \E i \in 1 .. C(n) : Put(n, x)[i] = row[n]
             /\ \A i \in 1 .. C(n - 1) : i \in 1 .. C(n) /\ Put(n, x)[i] = x[i]
  <2> DEFINE m == C(n - 1)
             columns == wide(n)
             cell == row[n]
             after == Put(n, x)
  <2>1. m \in 0 .. Len(x) /\ m \in Nat /\ columns \in Nat /\ cell \in Cell /\ C(n) = m + columns
    BY <1>3, <1>4, <1>5, <1>6
  <2>2. after = Written(x, m, cell, columns, blank)
    OBVIOUS
  <2> HIDE DEF m, columns, cell, after, Put
  <2>3. /\ after \in Seq(Cell) /\ Len(after) >= m + columns
        /\ after[m + 1] = cell
        /\ \A i \in 1 .. m : after[i] = x[i]
    BY <2>1, <2>2, WriteStep
  <2>4. /\ columns > 0 => m + 1 \in 1 .. m + columns
        /\ \A i \in 1 .. m : i \in 1 .. m + columns
    BY <2>1
  <2> QED
    BY <2>1, <2>3, <2>4 DEF m, columns, cell, after
<1> HIDE DEF Put
<1>7. step \in [1 .. N -> [X -> X]]
  BY <1>6
<1> HIDE DEF X, Step
<1>8. PICK f : IsWalk(f, X, N, <<>>, step)
  BY <1>2, <1>7, WalkExists
<1> HIDE DEF step
<1>9. f \in [0 .. N -> X] /\ f[0] = <<>> /\ \A n \in 1 .. N : f[n] = Step(n, f[n - 1])
  <2>1. f \in [0 .. N -> X] /\ \A n \in 1 .. N : f[n - 1] \in X
    BY <1>5, <1>8 DEF IsWalk
  <2> QED
    BY <1>2, <1>8, <2>1 DEF IsWalk, step
<1> DEFINE Good(n) == C(n) <= Len(f[n])
           S == {n \in 0 .. N : Good(n)}
<1>10. 0 \in S
  BY <1>2, <1>4, <1>9
<1>11. ASSUME NEW n \in 1 .. N, n - 1 \in S PROVE n \in S
  <2>1. f[n - 1] \in X /\ C(n - 1) <= Len(f[n - 1])
    BY <1>5, <1>9, <1>11
  <2>2. f[n] = Put(n, f[n - 1])
    BY <1>9, <2>1 DEF Step
  <2> QED
    BY <1>5, <1>4, <1>6, <1>9, <2>1, <2>2 DEF X
<1> HIDE DEF S, Good
<1>12. 0 .. N \subseteq S
  BY <1>2, <1>10, <1>11, Induction
<1>13. \A n \in 0 .. N : C(n) <= Len(f[n])
  BY <1>12 DEF S, Good
<1>14. \A n \in 1 .. N : f[n] = Put(n, f[n - 1])
  BY <1>5, <1>9, <1>13 DEF Step
<1>15. f = Walk(f)
  BY <1>2, <1>5, <1>9, <1>14
<1> HIDE DEF walk
<1>16. walk = Walk(walk)
  BY <1>1, <1>15
<1>17. walk[0] = <<>> /\ \A n \in 1 .. N : walk[n] = Put(n, walk[n - 1])
  BY <1>2, <1>5, <1>16
<1> DEFINE At(n, j) == \E i \in 1 .. C(n) : walk[n][i] = row[j]
           OK(n) == /\ walk[n] \in X /\ C(n) <= Len(walk[n])
                    /\ \A j \in 1 .. n : wide(j) > 0 => At(n, j)
           T == {n \in 0 .. N : OK(n)}
<1>18. 0 \in T
  <2>1. walk[0] \in X /\ Len(walk[0]) = 0 /\ C(0) = 0
    BY <1>2, <1>4, <1>17
  <2>2. 0 \in 0 .. N /\ ~\E j \in 1 .. 0 : TRUE
    BY <1>2
  <2> QED
    BY <2>1, <2>2
<1>19. ASSUME NEW n \in 1 .. N, n - 1 \in T PROVE n \in T
  <2>1. /\ walk[n - 1] \in X /\ C(n - 1) <= Len(walk[n - 1])
        /\ \A j \in 1 .. n - 1 : wide(j) > 0 => At(n - 1, j)
    BY <1>19
  <2>2. walk[n] = Put(n, walk[n - 1])
    BY <1>17
  <2> HIDE DEF At
  <2>3. /\ walk[n] \in X /\ Len(walk[n]) >= C(n)
        /\ wide(n) > 0 => \E i \in 1 .. C(n) : walk[n][i] = row[n]
        /\ \A i \in 1 .. C(n - 1) : i \in 1 .. C(n) /\ walk[n][i] = walk[n - 1][i]
    BY <1>6, <2>1, <2>2 DEF X
  <2>4. ASSUME NEW j \in 1 .. n, wide(j) > 0 PROVE At(n, j)
    <3>1. CASE j = n
      BY <2>3, <2>4, <3>1 DEF At
    <3>2. CASE j # n
      <4>1. j \in 1 .. n - 1
        BY <1>2, <3>2
      <4>2. PICK i \in 1 .. C(n - 1) : walk[n - 1][i] = row[j]
        BY <2>1, <2>4, <4>1 DEF At
      <4> QED
        BY <2>3, <4>2 DEF At
    <3> QED
      BY <3>1, <3>2
  <2>5. C(n) \in Nat /\ Len(walk[n]) \in Nat
    BY <1>4, <1>5, <2>3 DEF X
  <2> QED
    BY <1>5, <2>3, <2>4, <2>5
<1> HIDE DEF T, OK
<1>20. 0 .. N \subseteq T
  BY <1>2, <1>18, <1>19, Induction
<1>21. OK(N)
  BY <1>2, <1>20 DEF T
<1>22. C(N) \in Nat /\ Len(walk[N]) \in Nat
  BY <1>2, <1>4, <1>21 DEF OK, X
<1> QED
  BY <1>21, <1>22 DEF OK, At, N, X, C, wide, Columns, walk

\* A row that is not wider than the buffer is in it, but for characters of no
\* column.
LEMMA RowIsInTheBuffer ==
  ASSUME NEW Cell, NEW row \in Seq(Cell), NEW blank \in Cell, NEW w \in Nat, Columns(row) <= w,
         NEW c \in ToSet(row), CharColumns(c.char) > 0
  PROVE  c \in ToSet(Buffer(row, w, blank))
<1> DEFINE shown == WriteUpTo(row, blank)[Len(row)]
           columns == Columns(row)
           size == IF Len(shown) < w THEN Len(shown) ELSE w
           buffer == Buffer(row, w, blank)
<1>1. PICK j \in 1 .. Len(row) : c = row[j]
  BY DEF ToSet
<1>2. columns \in Nat
  BY ColumnsType
<1>3. /\ shown \in Seq(Cell) /\ Len(shown) >= columns
      /\ \E i \in 1 .. columns : shown[i] = c
  BY <1>1, WriteFacts
<1>4. buffer = SubSeq(shown, 1, size)
  BY DEF Buffer
<1> HIDE DEF shown, columns, buffer
<1>5. PICK i \in 1 .. columns : shown[i] = c
  BY <1>3
<1>6. Len(shown) \in Nat
  BY <1>3
<1>7. size \in 0 .. Len(shown) /\ columns <= size
  BY <1>2, <1>3, <1>6 DEF columns
<1> HIDE DEF size
<1>8. i \in 1 .. size
  BY <1>2, <1>6, <1>7
<1>9. buffer \in Seq(Cell) /\ Len(buffer) = size /\ buffer[i] = shown[i]
  BY <1>3, <1>4, <1>6, <1>7, <1>8
<1> QED
  BY <1>5, <1>8, <1>9 DEF ToSet, buffer

\* A row of a wrapped line fits where a character of two columns does.
LEMMA FittingRow ==
  ASSUME NEW Cell, NEW row \in Seq(Cell), NEW w \in Nat, w >= 2, RowFits(row, w)
  PROVE  Columns(row) <= w
<1>1. CASE Columns(row) <= w
  BY <1>1
<1>2. CASE Len(row) = 1
  <2>1. /\ ColumnsUpTo(row)[0] = 0
        /\ \A n \in 1 .. Len(row) :
              ColumnsUpTo(row)[n] = ColumnsUpTo(row)[n - 1] + CharColumns(row[n].char)
    BY ColumnsFacts
  <2>2. 1 - 1 = 0 /\ 1 \in 1 .. Len(row)
    BY <1>2
  <2>3. ColumnsUpTo(row)[1] = 0 + CharColumns(row[1].char)
    BY <2>1, <2>2
  <2>4. CharColumns(row[1].char) <= 2 /\ CharColumns(row[1].char) \in Nat
    BY DEF CharColumns
  <2> QED
    BY <1>2, <2>3, <2>4 DEF Columns
<1> QED
  BY <1>1, <1>2 DEF RowFits

(***************************************************************************)
(* Where there is room for a character of two columns, every character of  *)
(* a wrapped line that has a column, but its spaces, is in the cell        *)
(* buffer: none is lost past the right edge, for any line, any width and   *)
(* any sets of characters of two columns and of none (render.rs,           *)
(* LineWrapper; the terminal's write_row).                                 *)
(***************************************************************************)
THEOREM WrappedTextIsInTheBuffer ==
  ASSUME NEW Cell, NEW cells \in Seq(Cell), NEW blank \in Cell,
         NEW w \in Nat, w >= 2, Space \notin Wide \cup ZeroWidth,
         NEW c \in ToSet(cells), ~IsSpace(c), CharColumns(c.char) > 0
  PROVE  \E k \in 1 .. Len(WrapCells(cells, w)) : c \in ToSet(Buffer(WrapCells(cells, w)[k], w, blank))
<1> DEFINE wrapped == WrapCells(cells, w)
<1>1. wrapped \in Seq(Seq(Cell))
  BY WrapCellsFacts
<1>2. c \in ToSet(ReadRows(wrapped))
  <2>1. c \in ToSet(VisibleCells(cells))
    BY VisibleMembers
  <2> QED
    BY <2>1, WrapKeepsText
<1>3. \A i \in 1 .. Len(wrapped) : RowFits(wrapped[i], w)
  BY WrappedRowsFit
<1> HIDE DEF wrapped
<1>4. PICK k \in 1 .. Len(wrapped) : c \in ToSet(wrapped[k])
  BY <1>1, <1>2, ReadMembers
<1> DEFINE row == wrapped[k]
<1>5. row \in Seq(Cell) /\ RowFits(row, w)
  BY <1>1, <1>3
<1> HIDE DEF row
<1>6. Columns(row) <= w
  BY <1>5, FittingRow
<1>7. c \in ToSet(Buffer(row, w, blank))
  BY <1>4, <1>5, <1>6, RowIsInTheBuffer DEF row
<1> QED
  BY <1>7 DEF row, wrapped

-----------------------------------------------------------------------------
(* Inline runs: the shapes of what a builder handles.                      *)

Item(Char, Styles, Name) == [text : Seq(Char), style : Styles, names : Seq(Name)]
StyledChar(Char, Styles) == [char : Char, style : Styles]

-----------------------------------------------------------------------------
(* Lists of names without doubles.                                         *)

\* The names that have been added so far.
LEMMA AddedFacts ==
  ASSUME NEW Name, NEW names \in Seq(Name), NEW more \in Seq(Name)
  PROVE  /\ AddedUpTo(names, more)[0] = names
         /\ \A n \in 0 .. Len(more) : AddedUpTo(names, more)[n] \in Seq(Name)
         /\ \A n \in 1 .. Len(more) : AddedUpTo(names, more)[n] = AddName(AddedUpTo(names, more)[n - 1], more[n])
<1> DEFINE N == Len(more)
           X == Seq(Name)
           Step(n, x) == AddName(x, more[n])
           step == [n \in 1 .. N |-> [x \in X |-> Step(n, x)]]
           Walk(f) == [n \in 0 .. N |-> IF n = 0 THEN names ELSE Step(n, f[n - 1])]
           walk == AddedUpTo(names, more)
<1>1. walk = CHOOSE f : f = Walk(f)
  BY DEF AddedUpTo
<1>2. N \in Nat /\ names \in X
  OBVIOUS
<1>3. \A n \in 1 .. N, x \in X : Step(n, x) \in X
  BY DEF AddName
<1> HIDE DEF Step, X, N
<1>4. step \in [1 .. N -> [X -> X]]
  BY <1>3
<1>5. PICK f : IsWalk(f, X, N, names, step)
  BY <1>2, <1>4, WalkExists
<1>6. f = Walk(f)
  <2>1. f \in [0 .. N -> X] /\ \A n \in 1 .. N : f[n - 1] \in X
    BY <1>2, <1>5 DEF IsWalk
  <2>2. \A n \in 1 .. N : f[n] = Step(n, f[n - 1])
    BY <1>5, <2>1 DEF IsWalk
  <2> QED
    BY <1>2, <1>5, <2>1, <2>2 DEF IsWalk
<1> HIDE DEF walk
<1>7. walk = Walk(walk)
  BY <1>1, <1>6
<1>8. \A n \in 0 .. N : walk[n] = IF n = 0 THEN names ELSE Step(n, walk[n - 1])
  BY <1>7
<1> DEFINE S == {n \in 0 .. N : walk[n] \in X}
<1>9. 0 \in S /\ \A n \in 1 .. N : n - 1 \in S => n \in S
  BY <1>2, <1>3, <1>8
<1>10. \A n \in 0 .. N : walk[n] \in X
  <2> HIDE DEF S
  <2>1. 0 .. N \subseteq S
    BY <1>2, <1>9, Induction
  <2> QED
    BY <2>1 DEF S
<1>11. /\ walk[0] = names
       /\ \A n \in 1 .. N : walk[n] = Step(n, walk[n - 1])
  BY <1>2, <1>8
<1> QED
  BY <1>10, <1>11, Zenon DEF walk, N, X, Step

LEMMA AddNameToSet ==
  ASSUME NEW Name, NEW names \in Seq(Name), NEW n \in Name
  PROVE  ToSet(AddName(names, n)) = ToSet(names) \cup {n}
<1>1. CASE n \in ToSet(names)
  BY <1>1 DEF AddName
<1>2. CASE n \notin ToSet(names)
  BY <1>2, AppendToSet DEF AddName
<1> QED
  BY <1>1, <1>2

\* push_unique_anchors makes the union of two lists of names.
LEMMA UniqueNames ==
  ASSUME NEW Name, NEW names \in Seq(Name), NEW more \in Seq(Name)
  PROVE  /\ AppendUnique(names, more) \in Seq(Name)
         /\ ToSet(AppendUnique(names, more)) = ToSet(names) \cup ToSet(more)
<1> DEFINE N == Len(more)
           added == AddedUpTo(names, more)
           First(n) == {more[i] : i \in 1 .. n}
           S == {n \in 0 .. N : ToSet(added[n]) = ToSet(names) \cup First(n)}
<1>1. N \in Nat /\ \A n \in 1 .. N : more[n] \in Name
  OBVIOUS
<1>2. /\ added[0] = names
      /\ \A n \in 0 .. N : added[n] \in Seq(Name)
      /\ \A n \in 1 .. N : added[n] = AddName(added[n - 1], more[n])
  BY AddedFacts
<1>3. First(0) = {} /\ \A n \in 1 .. N : First(n) = First(n - 1) \cup {more[n]}
  BY <1>1
<1>4. ToSet(more) = First(N)
  BY DEF ToSet
<1> HIDE DEF N, added, First
<1>5. 0 \in S
  BY <1>1, <1>2, <1>3
<1>6. ASSUME NEW n \in 1 .. N, n - 1 \in S PROVE n \in S
  <2>1. n - 1 \in 0 .. N /\ n \in 0 .. N
    BY <1>1
  <2>2. ToSet(added[n]) = ToSet(added[n - 1]) \cup {more[n]}
    BY <1>1, <1>2, <2>1, AddNameToSet
  <2> QED
    BY <1>3, <1>6, <2>1, <2>2
<1> HIDE DEF S
<1>7. 0 .. N \subseteq S
  BY <1>1, <1>5, <1>6, Induction
<1>8. N \in S /\ added[N] \in Seq(Name)
  BY <1>1, <1>2, <1>7
<1> QED
  BY <1>4, <1>8 DEF S, N, added, AppendUnique

-----------------------------------------------------------------------------
(* What items read as.                                                     *)

LEMMA TaggedType ==
  ASSUME NEW Char, NEW Styles, NEW chars \in Seq(Char), NEW style \in Styles
  PROVE  /\ Tagged(chars, style) \in Seq(StyledChar(Char, Styles))
         /\ Len(Tagged(chars, style)) = Len(chars)
         /\ \A i \in 1 .. Len(chars) :
               Tagged(chars, style)[i] = [char |-> chars[i], style |-> style]
<1>1. Len(chars) \in Nat /\ DOMAIN chars = 1 .. Len(chars)
  OBVIOUS
<1>2. \A i \in 1 .. Len(chars) :
         [char |-> chars[i], style |-> style] \in StyledChar(Char, Styles)
  BY <1>1 DEF StyledChar
<1> QED
  BY <1>1, <1>2 DEF Tagged

LEMMA TaggedEmpty == \A style : Tagged(<<>>, style) = <<>>
BY DEF Tagged

\* A character with its style, and a sequence with one more element: names that
\* stand for the tuple and the sequence where only equality matters.
Pair(c, style) == [char |-> c, style |-> style]
Longer(s, x) == Append(s, x)

LEMMA TaggedAppend ==
  ASSUME NEW Char, NEW Styles, NEW chars \in Seq(Char), NEW style \in Styles, NEW c \in Char
  PROVE  Tagged(Append(chars, c), style)
         = Append(Tagged(chars, style), [char |-> c, style |-> style])
<1> DEFINE longer == Append(chars, c)
           short == Tagged(chars, style)
           long == Tagged(longer, style)
           x == [char |-> c, style |-> style]
<1>1. /\ Len(chars) \in Nat /\ longer \in Seq(Char) /\ Len(longer) = Len(chars) + 1
      /\ longer[Len(chars) + 1] = c
      /\ \A i \in 1 .. Len(chars) : longer[i] = chars[i]
  OBVIOUS
<1>2. x \in StyledChar(Char, Styles)
  BY DEF StyledChar
<1> HIDE DEF longer
<1>3. /\ short \in Seq(StyledChar(Char, Styles)) /\ Len(short) = Len(chars)
      /\ \A i \in 1 .. Len(chars) : short[i] = [char |-> chars[i], style |-> style]
  BY TaggedType
<1>4. /\ long \in Seq(StyledChar(Char, Styles)) /\ Len(long) = Len(longer)
      /\ \A i \in 1 .. Len(longer) : long[i] = [char |-> longer[i], style |-> style]
  <2>1. \A u \in Seq(Char) :
           /\ Tagged(u, style) \in Seq(StyledChar(Char, Styles)) /\ Len(Tagged(u, style)) = Len(u)
           /\ \A i \in 1 .. Len(u) : Tagged(u, style)[i] = [char |-> u[i], style |-> style]
    BY TaggedType
  <2> QED
    BY <1>1, <2>1
<1>5. \A i \in 1 .. Len(chars) : long[i] = short[i]
  BY <1>1, <1>3, <1>4
<1>6. long[Len(chars) + 1] = x
  BY <1>1, <1>4
<1> HIDE DEF short, long, x
<1> DEFINE appended == Append(short, x)
<1>7. /\ appended \in Seq(StyledChar(Char, Styles)) /\ Len(appended) = Len(short) + 1
      /\ appended[Len(short) + 1] = x
      /\ \A i \in 1 .. Len(short) : appended[i] = short[i]
  BY <1>2, <1>3
<1> HIDE DEF appended
<1>8. Len(appended) = Len(long)
  BY <1>1, <1>3, <1>4, <1>7
<1>9. ASSUME NEW i \in 1 .. Len(long) PROVE long[i] = appended[i]
  <2>1. i \in 1 .. Len(chars) \/ i = Len(chars) + 1
    BY <1>1, <1>4
  <2> QED
    BY <1>3, <1>5, <1>6, <1>7, <2>1
<1>10. long = appended
  BY <1>4, <1>7, <1>8, <1>9, SeqEqual
<1> QED
  BY <1>10 DEF long, appended, longer, short, x

LEMMA TaggedLonger ==
  ASSUME NEW Char, NEW Styles
  PROVE  \A chars \in Seq(Char) : \A style \in Styles : \A c \in Char :
            Tagged(Longer(chars, c), style) = Longer(Tagged(chars, style), Pair(c, style))
BY TaggedAppend DEF Longer, Pair

\* What the first items read as, put together.
LEMMA StyledFacts ==
  ASSUME NEW Char, NEW Styles, NEW Name, NEW items \in Seq(Item(Char, Styles, Name))
  PROVE  /\ StyledUpTo(items)[0] = <<>>
         /\ \A n \in 0 .. Len(items) : StyledUpTo(items)[n] \in Seq(StyledChar(Char, Styles))
         /\ \A n \in 1 .. Len(items) : StyledUpTo(items)[n] = Then(StyledUpTo(items)[n - 1], Tagged(items[n].text, items[n].style))
<1> DEFINE N == Len(items)
           X == Seq(StyledChar(Char, Styles))
           Step(n, x) == Then(x, Tagged(items[n].text, items[n].style))
           step == [n \in 1 .. N |-> [x \in X |-> Step(n, x)]]
           Walk(f) == [n \in 0 .. N |-> IF n = 0 THEN <<>> ELSE Step(n, f[n - 1])]
           walk == StyledUpTo(items)
<1>1. walk = CHOOSE f : f = Walk(f)
  BY DEF StyledUpTo, Then
<1>2. N \in Nat /\ <<>> \in X
  OBVIOUS
<1>3. \A n \in 1 .. N, x \in X : Step(n, x) \in X
  <2> SUFFICES ASSUME NEW n \in 1 .. N, NEW x \in X PROVE Step(n, x) \in X
    OBVIOUS
  <2> DEFINE item == items[n]
             C == StyledChar(Char, Styles)
             tagged == Tagged(item.text, item.style)
  <2>1. item \in Item(Char, Styles, Name)
    OBVIOUS
  <2> HIDE DEF item
  <2>2. item.text \in Seq(Char) /\ item.style \in Styles
    BY <2>1 DEF Item
  <2>3. tagged \in Seq(C)
    BY <2>2, TaggedType
  <2> HIDE DEF tagged, C
  <2>4. x \in Seq(C)
    BY DEF C
  <2>5. Then(x, tagged) \in Seq(C)
    BY <2>3, <2>4, ThenFacts
  <2> QED
    BY <2>5 DEF item, tagged, C
<1> HIDE DEF Step, X, N
<1>4. step \in [1 .. N -> [X -> X]]
  BY <1>3
<1>5. PICK f : IsWalk(f, X, N, <<>>, step)
  BY <1>2, <1>4, WalkExists
<1>6. f = Walk(f)
  <2>1. f \in [0 .. N -> X] /\ \A n \in 1 .. N : f[n - 1] \in X
    BY <1>2, <1>5 DEF IsWalk
  <2>2. \A n \in 1 .. N : f[n] = Step(n, f[n - 1])
    BY <1>5, <2>1 DEF IsWalk
  <2> QED
    BY <1>2, <1>5, <2>1, <2>2 DEF IsWalk
<1> HIDE DEF walk
<1>7. walk = Walk(walk)
  BY <1>1, <1>6
<1>8. \A n \in 0 .. N : walk[n] = IF n = 0 THEN <<>> ELSE Step(n, walk[n - 1])
  BY <1>7
<1> DEFINE S == {n \in 0 .. N : walk[n] \in X}
<1>9. 0 \in S /\ \A n \in 1 .. N : n - 1 \in S => n \in S
  BY <1>2, <1>3, <1>8
<1>10. \A n \in 0 .. N : walk[n] \in X
  <2> HIDE DEF S
  <2>1. 0 .. N \subseteq S
    BY <1>2, <1>9, Induction
  <2> QED
    BY <2>1 DEF S
<1>11. /\ walk[0] = <<>>
       /\ \A n \in 1 .. N : walk[n] = Step(n, walk[n - 1])
  BY <1>2, <1>8
<1> QED
  BY <1>10, <1>11, Zenon DEF walk, N, X, Step

\* Items that start alike but for their names read alike so far.
LEMMA StyledAlike ==
  ASSUME NEW Char, NEW Styles, NEW Name,
         NEW s \in Seq(Item(Char, Styles, Name)), NEW t \in Seq(Item(Char, Styles, Name)),
         NEW N \in 0 .. Len(s), N <= Len(t), \A i \in 1 .. N : s[i].text = t[i].text /\ s[i].style = t[i].style
  PROVE  StyledUpTo(s)[N] = StyledUpTo(t)[N]
<1> DEFINE S == {n \in 0 .. N : StyledUpTo(s)[n] = StyledUpTo(t)[n]}
<1>1. Len(s) \in Nat /\ Len(t) \in Nat
  OBVIOUS
<1>2. /\ StyledUpTo(s)[0] = <<>>
      /\ \A n \in 1 .. Len(s) : StyledUpTo(s)[n] = Then(StyledUpTo(s)[n - 1], Tagged(s[n].text, s[n].style))
  BY StyledFacts
<1>3. /\ StyledUpTo(t)[0] = <<>>
      /\ \A n \in 1 .. Len(t) : StyledUpTo(t)[n] = Then(StyledUpTo(t)[n - 1], Tagged(t[n].text, t[n].style))
  BY StyledFacts
<1>4. N \in Nat /\ 0 \in S
  BY <1>1, <1>2, <1>3
<1>5. ASSUME NEW n \in 1 .. N, n - 1 \in S PROVE n \in S
  <2>1. n \in 1 .. Len(s) /\ n \in 1 .. Len(t) /\ n \in 0 .. N
    BY <1>1
  <2>2. Tagged(s[n].text, s[n].style) = Tagged(t[n].text, t[n].style)
    OBVIOUS
  <2> QED
    BY <1>2, <1>3, <1>5, <2>1, <2>2
<1> HIDE DEF S
<1>6. 0 .. N \subseteq S
  BY <1>4, <1>5, Induction
<1> QED
  BY <1>4, <1>6 DEF S

LEMMA StyledAppend ==
  ASSUME NEW Char, NEW Styles, NEW Name,
         NEW s \in Seq(Item(Char, Styles, Name)), NEW item \in Item(Char, Styles, Name)
  PROVE  /\ StyledText(s) \in Seq(StyledChar(Char, Styles))
         /\ StyledText(Append(s, item)) = Then(StyledText(s), Tagged(item.text, item.style))
<1> DEFINE t == Append(s, item)
<1>1. /\ Len(s) \in Nat /\ t \in Seq(Item(Char, Styles, Name)) /\ Len(t) = Len(s) + 1
      /\ t[Len(t)] = item
      /\ \A i \in 1 .. Len(s) : s[i] = t[i]
  OBVIOUS
<1> HIDE DEF t
<1>2. Len(s) \in 0 .. Len(s) /\ Len(s) <= Len(t) /\ Len(t) \in 1 .. Len(t) /\ Len(t) - 1 = Len(s)
  BY <1>1
<1>3. StyledUpTo(s)[Len(s)] = StyledUpTo(t)[Len(s)]
  BY <1>1, <1>2, StyledAlike
<1>4. StyledUpTo(t)[Len(t)] = Then(StyledUpTo(t)[Len(t) - 1], Tagged(item.text, item.style))
  BY <1>1, <1>2, StyledFacts
<1>5. StyledUpTo(s)[Len(s)] \in Seq(StyledChar(Char, Styles))
  BY <1>2, StyledFacts
<1> QED
  BY <1>2, <1>3, <1>4, <1>5 DEF StyledText, t

LEMMA StyledEmpty == StyledText(<<>>) = <<>>
<1> DEFINE items == <<>>
           I == Item({}, {}, {})
<1>1. items \in Seq(I) /\ Len(items) = 0
  OBVIOUS
<1> HIDE DEF items
<1>2. \A Char, Styles, Name : \A s \in Seq(Item(Char, Styles, Name)) : StyledUpTo(s)[0] = <<>>
  BY StyledFacts
<1>3. \A s \in Seq(I) : StyledUpTo(s)[0] = <<>>
  BY <1>2
<1> QED
  BY <1>1, <1>3 DEF StyledText, items

-----------------------------------------------------------------------------
(* Collapsing, one character after the other.                              *)

\* A space is kept for the time being where it follows a visible character.
Follows(t, i) == Visible(t[i].char) \/ (i > 1 /\ Visible(t[i - 1].char))

FollowedUpTo(t) ==
    LET followed[n \in 0 .. Len(t)] ==
          IF n = 0 THEN <<>>
          ELSE IF Follows(t, n) THEN Append(followed[n - 1], t[n]) ELSE followed[n - 1]
    IN  followed

Followed(t) == FollowedUpTo(t)[Len(t)]

Trimmed(u) == IF u # <<>> /\ ~Visible(u[Len(u)].char) THEN Front(u) ELSE u

\* What follows a visible character or is one, so far.
LEMMA FollowedFacts ==
  ASSUME NEW C, NEW t \in Seq(C)
  PROVE  /\ FollowedUpTo(t)[0] = <<>>
         /\ \A n \in 0 .. Len(t) : FollowedUpTo(t)[n] \in Seq(C)
         /\ \A n \in 1 .. Len(t) : FollowedUpTo(t)[n] = IF Follows(t, n) THEN Append(FollowedUpTo(t)[n - 1], t[n]) ELSE FollowedUpTo(t)[n - 1]
<1> DEFINE N == Len(t)
           X == Seq(C)
           Step(n, x) == IF Follows(t, n) THEN Append(x, t[n]) ELSE x
           step == [n \in 1 .. N |-> [x \in X |-> Step(n, x)]]
           Walk(f) == [n \in 0 .. N |-> IF n = 0 THEN <<>> ELSE Step(n, f[n - 1])]
           walk == FollowedUpTo(t)
<1>1. walk = CHOOSE f : f = Walk(f)
  BY DEF FollowedUpTo
<1>2. N \in Nat /\ <<>> \in X
  OBVIOUS
<1>3. \A n \in 1 .. N, x \in X : Step(n, x) \in X
  OBVIOUS
<1> HIDE DEF Step, X, N
<1>4. step \in [1 .. N -> [X -> X]]
  BY <1>3
<1>5. PICK f : IsWalk(f, X, N, <<>>, step)
  BY <1>2, <1>4, WalkExists
<1>6. f = Walk(f)
  <2>1. f \in [0 .. N -> X] /\ \A n \in 1 .. N : f[n - 1] \in X
    BY <1>2, <1>5 DEF IsWalk
  <2>2. \A n \in 1 .. N : f[n] = Step(n, f[n - 1])
    BY <1>5, <2>1 DEF IsWalk
  <2> QED
    BY <1>2, <1>5, <2>1, <2>2 DEF IsWalk
<1> HIDE DEF walk
<1>7. walk = Walk(walk)
  BY <1>1, <1>6
<1>8. \A n \in 0 .. N : walk[n] = IF n = 0 THEN <<>> ELSE Step(n, walk[n - 1])
  BY <1>7
<1> DEFINE S == {n \in 0 .. N : walk[n] \in X}
<1>9. 0 \in S /\ \A n \in 1 .. N : n - 1 \in S => n \in S
  BY <1>2, <1>3, <1>8
<1>10. \A n \in 0 .. N : walk[n] \in X
  <2> HIDE DEF S
  <2>1. 0 .. N \subseteq S
    BY <1>2, <1>9, Induction
  <2> QED
    BY <2>1 DEF S
<1>11. /\ walk[0] = <<>>
       /\ \A n \in 1 .. N : walk[n] = Step(n, walk[n - 1])
  BY <1>2, <1>8
<1> QED
  BY <1>10, <1>11, Zenon DEF walk, N, X, Step

\* What stays of the first characters.
LEMMA CollapsedFacts ==
  ASSUME NEW C, NEW t \in Seq(C)
  PROVE  /\ CollapsedUpTo(t)[0] = <<>>
         /\ \A n \in 0 .. Len(t) : CollapsedUpTo(t)[n] \in Seq(C)
         /\ \A n \in 1 .. Len(t) : CollapsedUpTo(t)[n] = IF Keeps(t, n) THEN Append(CollapsedUpTo(t)[n - 1], t[n]) ELSE CollapsedUpTo(t)[n - 1]
<1> DEFINE N == Len(t)
           X == Seq(C)
           Step(n, x) == IF Keeps(t, n) THEN Append(x, t[n]) ELSE x
           step == [n \in 1 .. N |-> [x \in X |-> Step(n, x)]]
           Walk(f) == [n \in 0 .. N |-> IF n = 0 THEN <<>> ELSE Step(n, f[n - 1])]
           walk == CollapsedUpTo(t)
<1>1. walk = CHOOSE f : f = Walk(f)
  BY DEF CollapsedUpTo
<1>2. N \in Nat /\ <<>> \in X
  OBVIOUS
<1>3. \A n \in 1 .. N, x \in X : Step(n, x) \in X
  OBVIOUS
<1> HIDE DEF Step, X, N
<1>4. step \in [1 .. N -> [X -> X]]
  BY <1>3
<1>5. PICK f : IsWalk(f, X, N, <<>>, step)
  BY <1>2, <1>4, WalkExists
<1>6. f = Walk(f)
  <2>1. f \in [0 .. N -> X] /\ \A n \in 1 .. N : f[n - 1] \in X
    BY <1>2, <1>5 DEF IsWalk
  <2>2. \A n \in 1 .. N : f[n] = Step(n, f[n - 1])
    BY <1>5, <2>1 DEF IsWalk
  <2> QED
    BY <1>2, <1>5, <2>1, <2>2 DEF IsWalk
<1> HIDE DEF walk
<1>7. walk = Walk(walk)
  BY <1>1, <1>6
<1>8. \A n \in 0 .. N : walk[n] = IF n = 0 THEN <<>> ELSE Step(n, walk[n - 1])
  BY <1>7
<1> DEFINE S == {n \in 0 .. N : walk[n] \in X}
<1>9. 0 \in S /\ \A n \in 1 .. N : n - 1 \in S => n \in S
  BY <1>2, <1>3, <1>8
<1>10. \A n \in 0 .. N : walk[n] \in X
  <2> HIDE DEF S
  <2>1. 0 .. N \subseteq S
    BY <1>2, <1>9, Induction
  <2> QED
    BY <2>1 DEF S
<1>11. /\ walk[0] = <<>>
       /\ \A n \in 1 .. N : walk[n] = Step(n, walk[n - 1])
  BY <1>2, <1>8
<1> QED
  BY <1>10, <1>11, Zenon DEF walk, N, X, Step

\* Texts that start alike have been followed alike so far.
LEMMA FollowedAlike ==
  ASSUME NEW C, NEW s \in Seq(C), NEW t \in Seq(C),
         NEW N \in 0 .. Len(s), N <= Len(t), \A i \in 1 .. N : s[i] = t[i]
  PROVE  FollowedUpTo(s)[N] = FollowedUpTo(t)[N]
<1> DEFINE S == {n \in 0 .. N : FollowedUpTo(s)[n] = FollowedUpTo(t)[n]}
<1>1. Len(s) \in Nat /\ Len(t) \in Nat
  OBVIOUS
<1>2. /\ FollowedUpTo(s)[0] = <<>>
      /\ \A n \in 1 .. Len(s) : FollowedUpTo(s)[n] = IF Follows(s, n) THEN Append(FollowedUpTo(s)[n - 1], s[n]) ELSE FollowedUpTo(s)[n - 1]
  BY FollowedFacts
<1>3. /\ FollowedUpTo(t)[0] = <<>>
      /\ \A n \in 1 .. Len(t) : FollowedUpTo(t)[n] = IF Follows(t, n) THEN Append(FollowedUpTo(t)[n - 1], t[n]) ELSE FollowedUpTo(t)[n - 1]
  BY FollowedFacts
<1>4. N \in Nat /\ 0 \in S
  BY <1>1, <1>2, <1>3
<1>5. ASSUME NEW n \in 1 .. N, n - 1 \in S PROVE n \in S
  <2>1. n \in 1 .. Len(s) /\ n \in 1 .. Len(t) /\ n \in 0 .. N
    BY <1>1
  <2>2. s[n] = t[n] /\ (n > 1 => s[n - 1] = t[n - 1])
    BY <1>1
  <2>3. Follows(s, n) <=> Follows(t, n)
    BY <2>2 DEF Follows
  <2>4. FollowedUpTo(s)[n - 1] = FollowedUpTo(t)[n - 1]
    BY <1>5
  <2>5. FollowedUpTo(s)[n] = FollowedUpTo(t)[n]
    <3>1. CASE Follows(s, n)
      BY <1>2, <1>3, <2>1, <2>2, <2>3, <2>4, <3>1
    <3>2. CASE ~Follows(s, n)
      BY <1>2, <1>3, <2>1, <2>3, <2>4, <3>2
    <3> QED
      BY <3>1, <3>2
  <2> QED
    BY <2>1, <2>5
<1> HIDE DEF S
<1>6. 0 .. N \subseteq S
  BY <1>4, <1>5, Induction
<1> QED
  BY <1>4, <1>6 DEF S

LEMMA FollowedAppend ==
  ASSUME NEW C, NEW t \in Seq(C), NEW x \in C
  PROVE  /\ Followed(t) \in Seq(C)
         /\ Followed(Append(t, x))
            = IF Visible(x.char) \/ (t # <<>> /\ Visible(t[Len(t)].char))
              THEN Append(Followed(t), x) ELSE Followed(t)
<1> DEFINE u == Append(t, x)
           n == Len(u)
<1>1. /\ Len(t) \in Nat /\ u \in Seq(C) /\ n = Len(t) + 1 /\ u[n] = x
      /\ \A i \in 1 .. Len(t) : t[i] = u[i]
      /\ t # <<>> <=> Len(t) > 0
  OBVIOUS
<1> HIDE DEF u
<1>2. /\ Len(t) \in 0 .. Len(t) /\ Len(t) <= Len(u) /\ n \in 1 .. Len(u) /\ n - 1 = Len(t)
      /\ n > 1 <=> t # <<>>
      /\ t # <<>> => u[n - 1] = t[Len(t)]
  BY <1>1
<1>3. FollowedUpTo(t)[Len(t)] = FollowedUpTo(u)[Len(t)]
  BY <1>1, <1>2, FollowedAlike
<1>4. FollowedUpTo(u)[n]
      = IF Follows(u, n) THEN Append(FollowedUpTo(u)[n - 1], u[n]) ELSE FollowedUpTo(u)[n - 1]
  BY <1>1, <1>2, FollowedFacts
<1>5. Follows(u, n) <=> Visible(x.char) \/ (t # <<>> /\ Visible(t[Len(t)].char))
  BY <1>1, <1>2 DEF Follows
<1>6. Followed(t) \in Seq(C)
  BY <1>2, FollowedFacts DEF Followed
<1>7. Followed(u) = IF Follows(u, n) THEN Append(Followed(t), x) ELSE Followed(t)
  BY <1>1, <1>2, <1>3, <1>4 DEF Followed
<1> QED
  BY <1>5, <1>6, <1>7 DEF u

LEMMA FollowedEmpty == Followed(<<>>) = <<>>
<1>1. <<>> \in Seq({}) /\ Len(<<>>) = 0
  OBVIOUS
<1> QED
  BY <1>1, FollowedFacts DEF Followed

LEMMA TrimmedFacts ==
  ASSUME NEW C, NEW u \in Seq(C), NEW x \in C
  PROVE  /\ Trimmed(<<>>) = <<>>
         /\ Visible(x.char) => Trimmed(Append(u, x)) = Append(u, x)
         /\ ~Visible(x.char) => Trimmed(Append(u, x)) = u
<1> DEFINE v == Append(u, x)
<1>1. /\ v # <<>> /\ v[Len(v)] = x
      /\ SubSeq(v, 1, Len(v) - 1) = u
  OBVIOUS
<1> HIDE DEF v
<1>2. Visible(x.char) => Trimmed(v) = v
  BY <1>1 DEF Trimmed
<1>3. ~Visible(x.char) => Trimmed(v) = u
  BY <1>1 DEF Trimmed, Front
<1>4. Trimmed(<<>>) = <<>>
  BY DEF Trimmed
<1> QED
  BY <1>2, <1>3, <1>4 DEF v

\* Dropping the last space in the end makes of it what position alone says.
LEMMA TrimmedIsCollapsed ==
  ASSUME NEW C, NEW t \in Seq(C)
  PROVE  Collapsed(t) = Trimmed(Followed(t))
<1> DEFINE N == Len(t)
           For(n) == FollowedUpTo(t)[n]
           Col(n) == CollapsedUpTo(t)[n]
           Sees(n) == Visible(t[n].char)
           Later(n) == \E j \in n + 1 .. N : Sees(j)
           Agree(n) == /\ Later(n) => Col(n) = For(n)
                       /\ ~Later(n) => Col(n) = Trimmed(For(n))
           S == {n \in 0 .. N : Agree(n)}
<1>1. N \in Nat /\ \A n \in 1 .. N : t[n] \in C
  OBVIOUS
<1>2. /\ For(0) = <<>>
      /\ \A n \in 0 .. N : For(n) \in Seq(C)
      /\ \A n \in 1 .. N :
            For(n) = IF Follows(t, n) THEN Append(For(n - 1), t[n]) ELSE For(n - 1)
  BY FollowedFacts
<1>3. /\ Col(0) = <<>>
      /\ \A n \in 1 .. N : Col(n) = IF Keeps(t, n) THEN Append(Col(n - 1), t[n]) ELSE Col(n - 1)
  BY CollapsedFacts
<1>4. \A n \in 1 .. N : Follows(t, n) <=> Sees(n) \/ (n > 1 /\ Sees(n - 1))
  BY DEF Follows
<1>5. \A n \in 1 .. N : Keeps(t, n) <=> Sees(n) \/ (n > 1 /\ Sees(n - 1) /\ Later(n))
  BY DEF Keeps
<1>6. \A n \in 1 .. N : Later(n - 1) <=> Sees(n) \/ Later(n)
  BY <1>1
<1>7. ~Later(N)
  BY <1>1
<1>8. \A n \in 1 .. N, u \in Seq(C) :
         /\ Sees(n) => Trimmed(Append(u, t[n])) = Append(u, t[n])
         /\ ~Sees(n) => Trimmed(Append(u, t[n])) = u
  BY <1>1, TrimmedFacts
<1>9. Trimmed(<<>>) = <<>>
  BY DEF Trimmed
<1>10. Collapsed(t) = Col(N) /\ Followed(t) = For(N)
  BY DEF Collapsed, Followed
<1> HIDE DEF N, For, Col, Sees, Later
<1>11. 0 \in S
  BY <1>1, <1>2, <1>3, <1>9
<1>12. ASSUME NEW n \in 1 .. N, n - 1 \in S PROVE n \in S
  <2>1. n - 1 \in 0 .. N /\ n \in 0 .. N /\ (n > 1 => n - 1 \in 1 .. N /\ (n - 1) - 1 \in 0 .. N)
    BY <1>1
  <2>2. Agree(n - 1) /\ For(n - 1) \in Seq(C)
    BY <1>2, <1>12, <2>1
  <2>3. CASE Sees(n)
    <3>1. Follows(t, n) /\ Keeps(t, n) /\ Later(n - 1)
      BY <1>4, <1>5, <1>6, <2>3
    <3>2. Col(n) = Append(For(n - 1), t[n]) /\ For(n) = Append(For(n - 1), t[n])
      BY <1>2, <1>3, <2>2, <3>1
    <3>3. Trimmed(For(n)) = For(n)
      BY <1>8, <2>2, <2>3, <3>2
    <3> QED
      BY <2>1, <3>2, <3>3
  <2>4. CASE ~Sees(n) /\ Later(n)
    <3>1. (Follows(t, n) <=> Keeps(t, n)) /\ Later(n - 1)
      BY <1>4, <1>5, <1>6, <2>4
    <3>2. CASE Keeps(t, n)
      BY <1>2, <1>3, <2>1, <2>2, <2>4, <3>1, <3>2
    <3>3. CASE ~Keeps(t, n)
      BY <1>2, <1>3, <2>1, <2>2, <2>4, <3>1, <3>3
    <3> QED
      BY <3>2, <3>3
  <2>5. CASE ~Sees(n) /\ ~Later(n)
    <3>1. ~Keeps(t, n) /\ ~Later(n - 1)
      BY <1>5, <1>6, <2>5
    <3>2. Col(n) = Trimmed(For(n - 1))
      BY <1>3, <2>2, <3>1
    <3>3. CASE n > 1 /\ Sees(n - 1)
      <4>1. For(n) = Append(For(n - 1), t[n])
        BY <1>2, <1>4, <3>3
      <4>2. Trimmed(For(n)) = For(n - 1)
        BY <1>8, <2>2, <2>5, <4>1
      <4>3. n - 1 \in 1 .. N /\ (n - 1) - 1 \in 0 .. N
        BY <2>1, <3>3
      <4>4. Follows(t, n - 1) /\ For((n - 1) - 1) \in Seq(C)
        BY <1>2, <1>4, <3>3, <4>3
      <4>5. For(n - 1) = Append(For((n - 1) - 1), t[n - 1])
        BY <1>2, <4>3, <4>4
      <4>6. Trimmed(For(n - 1)) = For(n - 1)
        BY <1>8, <3>3, <4>3, <4>4, <4>5
      <4> QED
        BY <2>1, <2>5, <3>2, <4>2, <4>6
    <3>4. CASE ~(n > 1 /\ Sees(n - 1))
      <4>1. For(n) = For(n - 1)
        BY <1>2, <1>4, <2>5, <3>4
      <4> QED
        BY <2>1, <2>5, <3>2, <4>1
    <3> QED
      BY <3>3, <3>4
  <2> QED
    BY <2>3, <2>4, <2>5
<1> HIDE DEF S
<1>13. 0 .. N \subseteq S
  BY <1>1, <1>11, <1>12, Induction
<1>14. Agree(N)
  BY <1>1, <1>13 DEF S
<1> QED
  BY <1>7, <1>10, <1>14

-----------------------------------------------------------------------------
(* One character more.                                                     *)

BuilderType(Char, Styles, Name) ==
  [runs : Seq(Item(Char, Styles, Name)), current : Item(Char, Styles, Name),
   spaced : BOOLEAN, waiting : Seq(Name)]

\* The runs with the current one, which has text once any character has come.
Whole(b) == Append(b.runs, b.current)
AfterSpace(p) == p = <<>> \/ ~Visible(p[Len(p)].char)

BuilderOK(b, p, Char, Styles, Name) ==
  /\ b \in BuilderType(Char, Styles, Name)
  /\ StyledText(Whole(b)) = Followed(p)
  /\ b.spaced <=> AfterSpace(p)
  /\ b.current.text = <<>> => b.runs = <<>>

LEMMA NewRunType ==
  ASSUME NEW Char, NEW Styles, NEW Name, NEW style \in Styles
  PROVE  /\ NewRun(style) \in Item(Char, Styles, Name)
         /\ NewRun(style).text = <<>> /\ NewRun(style).style = style
         /\ NewRun(style).names = <<>>
BY DEF NewRun, Item

LEMMA FlushCurrentOK ==
  ASSUME NEW Char, NEW Styles, NEW Name, Plain \in Styles,
         NEW b \in BuilderType(Char, Styles, Name)
  PROVE  /\ FlushCurrent(b) \in BuilderType(Char, Styles, Name)
         /\ StyledText(FlushCurrent(b).runs) = StyledText(Whole(b))
         /\ FlushCurrent(b).runs = IF b.current.text = <<>> THEN b.runs ELSE Whole(b)
         /\ FlushCurrent(b).current = NewRun(Plain)
         /\ FlushCurrent(b).spaced = b.spaced /\ FlushCurrent(b).waiting = b.waiting
<1> DEFINE I == Item(Char, Styles, Name)
           C == StyledChar(Char, Styles)
           f == FlushCurrent(b)
<1>1. b.runs \in Seq(I) /\ b.current \in I
  BY DEF BuilderType
<1>2. NewRun(Plain) \in I
  BY NewRunType
<1>3. Whole(b) \in Seq(I)
  BY <1>1 DEF Whole
<1>4. /\ f.runs = IF b.current.text = <<>> THEN b.runs ELSE Whole(b)
      /\ f.current = NewRun(Plain) /\ f.spaced = b.spaced /\ f.waiting = b.waiting
      /\ f \in BuilderType(Char, Styles, Name)
  BY <1>1, <1>2, <1>3 DEF FlushCurrent, BuilderType, Whole
<1>5. StyledText(f.runs) = StyledText(Whole(b))
  <2>1. CASE b.current.text = <<>>
    <3>1. /\ StyledText(b.runs) \in Seq(C)
          /\ StyledText(Whole(b)) = Then(StyledText(b.runs), Tagged(<<>>, b.current.style))
      BY <1>1, <2>1, StyledAppend DEF Whole
    <3> DEFINE before == StyledText(b.runs)
    <3> HIDE DEF before, C
    <3>2. Then(before, <<>>) = before
      BY <3>1, ThenFacts DEF before
    <3> QED
      BY <1>4, <2>1, <3>1, <3>2, TaggedEmpty DEF before
  <2>2. CASE b.current.text # <<>>
    BY <1>4, <2>2
  <2> QED
    BY <2>1, <2>2
<1> QED
  BY <1>4, <1>5

LEMMA OpenRunOK ==
  ASSUME NEW Char, NEW Styles, NEW Name, Plain \in Styles,
         NEW b \in BuilderType(Char, Styles, Name), NEW style \in Styles
  PROVE  /\ OpenRun(b, style) \in BuilderType(Char, Styles, Name)
         /\ StyledText(Whole(OpenRun(b, style))) = StyledText(Whole(b))
         /\ OpenRun(b, style).current.style = style
         /\ OpenRun(b, style).spaced = b.spaced /\ OpenRun(b, style).waiting = b.waiting
<1> DEFINE I == Item(Char, Styles, Name)
           C == StyledChar(Char, Styles)
           f == FlushCurrent(b)
           o == OpenRun(b, style)
<1>1. CASE RunMatches(b, style)
  BY <1>1 DEF OpenRun, RunMatches
<1>2. CASE ~RunMatches(b, style)
  <2>1. /\ f \in BuilderType(Char, Styles, Name) /\ StyledText(f.runs) = StyledText(Whole(b))
        /\ f.spaced = b.spaced /\ f.waiting = b.waiting
    BY FlushCurrentOK
  <2>2. o = [f EXCEPT !.current = NewRun(style)]
    BY <1>2 DEF OpenRun
  <2> HIDE DEF f, o
  <2>3. NewRun(style) \in I /\ NewRun(style).text = <<>> /\ NewRun(style).style = style
    BY NewRunType
  <2>4. /\ o \in BuilderType(Char, Styles, Name) /\ o.runs = f.runs /\ o.current = NewRun(style)
        /\ o.spaced = f.spaced /\ o.waiting = f.waiting
    BY <2>1, <2>2, <2>3 DEF BuilderType
  <2>5. f.runs \in Seq(I)
    BY <2>1 DEF BuilderType
  <2> DEFINE before == StyledText(f.runs)
             run == NewRun(style)
  <2> HIDE DEF run, I
  <2>6. before \in Seq(C) /\ StyledText(Append(f.runs, run)) = Then(before, Tagged(run.text, run.style))
    BY <2>3, <2>5, StyledAppend DEF run, I
  <2> HIDE DEF before, C
  <2>7. Then(before, <<>>) = before
    BY <2>6, ThenFacts
  <2>8. Tagged(run.text, run.style) = <<>>
    BY <2>3, TaggedEmpty DEF run
  <2>9. StyledText(Whole(o)) = before
    BY <2>4, <2>6, <2>7, <2>8 DEF Whole, run
  <2> QED
    BY <2>1, <2>3, <2>4, <2>9 DEF before, o
<1> QED
  BY <1>1, <1>2

\* A character at the end of the current run is read at the end.
LEMMA ExtendOK ==
  ASSUME NEW Char, NEW Styles, NEW Name,
         NEW o \in BuilderType(Char, Styles, Name), NEW b \in BuilderType(Char, Styles, Name),
         NEW c \in Char,
         b.runs = o.runs, b.current.text = Append(o.current.text, c),
         b.current.style = o.current.style
  PROVE  StyledText(Whole(b))
         = Append(StyledText(Whole(o)), [char |-> c, style |-> o.current.style])
<1> DEFINE I == Item(Char, Styles, Name)
           C == StyledChar(Char, Styles)
           chars == o.current.text
           style == o.current.style
           before == StyledText(o.runs)
           tagged == Tagged(chars, style)
           x == [char |-> c, style |-> style]
<1>1. o.runs \in Seq(I) /\ o.current \in I /\ b.current \in I
  BY DEF BuilderType
<1>2. chars \in Seq(Char) /\ style \in Styles
  BY <1>1 DEF Item
<1>3. /\ before \in Seq(C)
      /\ StyledText(Whole(o)) = Then(before, tagged)
      /\ StyledText(Whole(b)) = Then(before, Tagged(Append(chars, c), style))
  <2> DEFINE r == o.runs
             k == b.current
  <2>1. r \in Seq(I) /\ k \in I /\ o.current \in I
    BY <1>1
  <2>2. Whole(b) = Append(r, k) /\ Whole(o) = Append(r, o.current)
    BY DEF Whole
  <2> HIDE DEF r, k
  <2>3. StyledText(Append(r, k)) = Then(StyledText(r), Tagged(k.text, k.style))
    BY <2>1, StyledAppend
  <2>4. /\ StyledText(r) \in Seq(C)
        /\ StyledText(Append(r, o.current)) = Then(StyledText(r), Tagged(chars, style))
    BY <2>1, StyledAppend
  <2>5. k.text = Append(chars, c) /\ k.style = style
    BY DEF k
  <2> HIDE DEF chars, style
  <2> QED
    BY <2>2, <2>3, <2>4, <2>5 DEF r
<1> HIDE DEF chars, style
<1>4. tagged \in Seq(C)
  BY <1>2, TaggedType
<1>5. Tagged(Append(chars, c), style) = Append(tagged, x)
  <2>1. Tagged(Append(chars, c), style)
        = Append(Tagged(chars, style), [char |-> c, style |-> style])
    <3>1. Tagged(Longer(chars, c), style) = Longer(Tagged(chars, style), Pair(c, style))
      BY <1>2, TaggedLonger
    <3> QED
      BY <3>1, Zenon DEF Longer, Pair
  <2> QED
    BY <2>1
<1>6. x \in C
  BY <1>2 DEF StyledChar
<1> HIDE DEF before, tagged, x, C
<1>7. Then(before, Append(tagged, x)) = Append(Then(before, tagged), x)
  BY <1>3, <1>4, <1>6 DEF Then
<1> QED
  BY <1>3, <1>5, <1>7 DEF x, style

LEMMA ExtendLonger ==
  ASSUME NEW Char, NEW Styles, NEW Name
  PROVE  \A o, b \in BuilderType(Char, Styles, Name) : \A c \in Char :
            /\ b.runs = o.runs
            /\ b.current.text = Longer(o.current.text, c)
            /\ b.current.style = o.current.style
            => StyledText(Whole(b)) = Longer(StyledText(Whole(o)), Pair(c, o.current.style))
<1> SUFFICES ASSUME NEW o \in BuilderType(Char, Styles, Name),
                    NEW b \in BuilderType(Char, Styles, Name), NEW c \in Char,
                    b.runs = o.runs, b.current.text = Longer(o.current.text, c),
                    b.current.style = o.current.style
             PROVE  StyledText(Whole(b)) = Longer(StyledText(Whole(o)), Pair(c, o.current.style))
  OBVIOUS
<1>1. b.current.text = Append(o.current.text, c)
  BY Zenon DEF Longer
<1>2. StyledText(Whole(b))
      = Append(StyledText(Whole(o)), [char |-> c, style |-> o.current.style])
  BY <1>1, ExtendOK
<1> QED
  BY <1>2, Zenon DEF Longer, Pair

LEMMA PushCharacterOK ==
  ASSUME NEW Char, NEW Styles, NEW Name, Space \in Char, Plain \in Styles,
         NEW p \in Seq(StyledChar(Char, Styles)), NEW b, BuilderOK(b, p, Char, Styles, Name),
         NEW c \in Char, NEW style \in Styles
  PROVE  BuilderOK(PushCharacter(b, c, style), Append(p, [char |-> c, style |-> style]),
                   Char, Styles, Name)
<1> DEFINE I == Item(Char, Styles, Name)
           C == StyledChar(Char, Styles)
           B == BuilderType(Char, Styles, Name)
           x == [char |-> c, style |-> style]
           q == Append(p, x)
           o == OpenRun(b, style)
           after == PushCharacter(b, c, style)
<1>1. /\ b \in B /\ StyledText(Whole(b)) = Followed(p) /\ (b.spaced <=> AfterSpace(p))
      /\ b.current.text = <<>> => b.runs = <<>>
  BY DEF BuilderOK
<1>2. x \in C /\ x.char = c
  BY DEF StyledChar
<1>3. q \in Seq(C) /\ q # <<>> /\ q[Len(q)] = x
  BY <1>2
<1>4. AfterSpace(q) <=> ~Visible(c)
  BY <1>2, <1>3 DEF AfterSpace
<1>5. /\ o \in B /\ StyledText(Whole(o)) = Followed(p) /\ o.current.style = style
      /\ o.spaced = b.spaced /\ o.waiting = b.waiting
  BY <1>1, OpenRunOK
<1>6. o.current \in I /\ o.runs \in Seq(I) /\ o.waiting \in Seq(Name)
  BY <1>5 DEF BuilderType
<1>7. o.current.text \in Seq(Char) /\ o.current.names \in Seq(Name)
  BY <1>6 DEF Item
<1>8. Followed(q) = IF Visible(c) \/ ~AfterSpace(p) THEN Append(Followed(p), x) ELSE Followed(p)
  BY <1>2, FollowedAppend DEF AfterSpace
<1> HIDE DEF o, q, x
<1>9. CASE Visible(c)
  <2> DEFINE chars == Append(o.current.text, c)
             names == AppendUnique(o.current.names, b.waiting)
             run == [o.current EXCEPT !.text = chars, !.names = names]
  <2>1. after = [o EXCEPT !.current = run, !.spaced = FALSE, !.waiting = <<>>]
    BY <1>9 DEF PushCharacter, PushVisible, Bind, o
  <2>2. chars \in Seq(Char) /\ chars # <<>>
    BY <1>7
  <2>3. names \in Seq(Name)
    BY <1>5, <1>6, <1>7, UniqueNames
  <2> HIDE DEF names, after
  <2>4. <<>> \in Seq(Name)
    OBVIOUS
  <2>5. run \in I /\ run.text = chars /\ run.style = o.current.style
    BY <1>6, <2>2, <2>3 DEF Item
  <2> HIDE DEF run
  <2>6. /\ after \in B /\ after.runs = o.runs /\ after.current = run /\ ~after.spaced
    BY <1>5, <2>1, <2>4, <2>5 DEF BuilderType
  <2>7. StyledText(Whole(after)) = Append(StyledText(Whole(o)), x)
    <3>1. /\ o \in B /\ after \in B /\ c \in Char /\ after.runs = o.runs
          /\ after.current.text = Append(o.current.text, c)
          /\ after.current.style = o.current.style
      BY <1>5, <2>5, <2>6 DEF chars
    <3>2. StyledText(Whole(after)) = Longer(StyledText(Whole(o)), Pair(c, o.current.style))
      BY <3>1, ExtendLonger DEF Longer
    <3> QED
      BY <1>5, <3>2, Zenon DEF Longer, Pair, x
  <2>8. StyledText(Whole(after)) = Followed(q)
    BY <1>5, <1>8, <1>9, <2>7
  <2>9. BuilderOK(after, q, Char, Styles, Name)
    BY <1>4, <1>9, <2>2, <2>5, <2>6, <2>8 DEF BuilderOK
  <2> QED
    BY <2>9 DEF after, q, x
<1>10. CASE ~Visible(c) /\ b.spaced
  <2>1. after = b
    BY <1>10 DEF PushCharacter
  <2>2. Followed(q) = Followed(p)
    BY <1>1, <1>8, <1>10
  <2> QED
    BY <1>1, <1>4, <1>10, <2>1, <2>2 DEF BuilderOK, q, x
<1>11. CASE ~Visible(c) /\ ~b.spaced
  <2> DEFINE chars == Append(o.current.text, Space)
             run == [o.current EXCEPT !.text = chars]
  <2>1. after = [o EXCEPT !.current = run, !.spaced = TRUE]
    BY <1>11 DEF PushCharacter, PushSpace, o
  <2>2. chars \in Seq(Char) /\ chars # <<>> /\ c = Space
    BY <1>7, <1>11 DEF Visible
  <2> HIDE DEF after
  <2>3. run \in I /\ run.text = chars /\ run.style = o.current.style
    BY <1>6, <2>2 DEF Item
  <2> HIDE DEF run
  <2>4. /\ after \in B /\ after.runs = o.runs /\ after.current = run /\ after.spaced
    BY <1>5, <2>1, <2>3 DEF BuilderType
  <2>5. StyledText(Whole(after)) = Append(StyledText(Whole(o)), x)
    <3>1. /\ o \in B /\ after \in B /\ c \in Char /\ after.runs = o.runs
          /\ after.current.text = Append(o.current.text, c)
          /\ after.current.style = o.current.style
      BY <1>5, <2>2, <2>3, <2>4 DEF chars
    <3>2. StyledText(Whole(after)) = Longer(StyledText(Whole(o)), Pair(c, o.current.style))
      BY <3>1, ExtendLonger DEF Longer
    <3> QED
      BY <1>5, <3>2, Zenon DEF Longer, Pair, x
  <2>6. StyledText(Whole(after)) = Followed(q)
    BY <1>1, <1>5, <1>8, <1>11, <2>5
  <2>7. BuilderOK(after, q, Char, Styles, Name)
    BY <1>4, <1>11, <2>2, <2>3, <2>4, <2>6 DEF BuilderOK
  <2> QED
    BY <2>7 DEF after, q, x
<1> QED
  BY <1>9, <1>10, <1>11

-----------------------------------------------------------------------------
(* The first n of a sequence.                                              *)

First(s, n) == [i \in 1 .. n |-> s[i]]

LEMMA FirstFacts ==
  ASSUME NEW C, NEW s \in Seq(C)
  PROVE  /\ First(s, 0) = <<>> /\ First(s, Len(s)) = s
         /\ \A n \in 0 .. Len(s) : First(s, n) \in Seq(C)
         /\ \A n \in 1 .. Len(s) : First(s, n) = Append(First(s, n - 1), s[n])
<1>1. Len(s) \in Nat /\ \A i \in 1 .. Len(s) : s[i] \in C
  OBVIOUS
<1>2. First(s, 0) = <<>> /\ First(s, Len(s)) = s
  BY <1>1 DEF First
<1>3. \A n \in 0 .. Len(s) : First(s, n) \in Seq(C) /\ Len(First(s, n)) = n
  BY <1>1 DEF First
<1>4. ASSUME NEW n \in 1 .. Len(s) PROVE First(s, n) = Append(First(s, n - 1), s[n])
  <2> DEFINE a == First(s, n)
             b == First(s, n - 1)
             c == Append(b, s[n])
  <2>1. /\ a \in Seq(C) /\ Len(a) = n /\ b \in Seq(C) /\ Len(b) = n - 1 /\ s[n] \in C
    BY <1>1, <1>3
  <2>2. \A i \in 1 .. n : a[i] = s[i]
    BY DEF First
  <2>3. \A i \in 1 .. n - 1 : b[i] = s[i]
    BY DEF First
  <2> HIDE DEF a, b
  <2>4. c \in Seq(C) /\ Len(c) = n /\ c[n] = s[n] /\ \A i \in 1 .. n - 1 : c[i] = b[i]
    BY <2>1
  <2> HIDE DEF c
  <2>5. ASSUME NEW i \in 1 .. n PROVE a[i] = c[i]
    <3>1. i = n \/ i \in 1 .. n - 1
      OBVIOUS
    <3> QED
      BY <2>2, <2>3, <2>4, <3>1
  <2>6. a = c
    BY <2>1, <2>4, <2>5, SeqEqual
  <2> QED
    BY <2>6 DEF a, b, c
<1> QED
  BY <1>2, <1>3, <1>4

LEMMA ThenAppend ==
  ASSUME NEW C, NEW a \in Seq(C), NEW b \in Seq(C), NEW x \in C
  PROVE  Then(a, Append(b, x)) = Append(Then(a, b), x)
BY DEF Then

-----------------------------------------------------------------------------
(* All characters of all segments.                                         *)

\* The builders that some text has been pushed to.
Builders(Char, Styles, Name) ==
  {b \in BuilderType(Char, Styles, Name) :
     \E p \in Seq(StyledChar(Char, Styles)) : BuilderOK(b, p, Char, Styles, Name)}

LEMMA TakeNamesOK ==
  ASSUME NEW Char, NEW Styles, NEW Name, NEW p, NEW b, BuilderOK(b, p, Char, Styles, Name),
         NEW names \in Seq(Name)
  PROVE  BuilderOK(TakeNames(b, names), p, Char, Styles, Name)
<1> DEFINE all == AppendUnique(b.waiting, names)
           t == TakeNames(b, names)
<1>1. b \in BuilderType(Char, Styles, Name) /\ b.waiting \in Seq(Name)
  BY DEF BuilderOK, BuilderType
<1>2. all \in Seq(Name)
  BY <1>1, UniqueNames
<1>3. t = [b EXCEPT !.waiting = all]
  BY DEF TakeNames
<1> HIDE DEF all, t
<1>4. /\ t \in BuilderType(Char, Styles, Name)
      /\ t.runs = b.runs /\ t.current = b.current /\ t.spaced = b.spaced
  BY <1>1, <1>2, <1>3 DEF BuilderType
<1>5. Whole(t) = Whole(b)
  BY <1>4 DEF Whole
<1> QED
  BY <1>4, <1>5 DEF BuilderOK, t

\* The builder after the first characters of a segment.
LEMMA PushedFacts ==
  ASSUME NEW Char, NEW Styles, NEW Name, Space \in Char, Plain \in Styles,
         NEW b \in Builders(Char, Styles, Name), NEW segment \in Item(Char, Styles, Name)
  PROVE  /\ PushedUpTo(b, segment)[0] = TakeNames(b, segment.names)
         /\ \A n \in 0 .. Len(segment.text) : PushedUpTo(b, segment)[n] \in Builders(Char, Styles, Name)
         /\ \A n \in 1 .. Len(segment.text) : PushedUpTo(b, segment)[n] = PushCharacter(PushedUpTo(b, segment)[n - 1], segment.text[n], segment.style)
<1> DEFINE N == Len(segment.text)
           X == Builders(Char, Styles, Name)
           Step(n, x) == PushCharacter(x, segment.text[n], segment.style)
           step == [n \in 1 .. N |-> [x \in X |-> Step(n, x)]]
           Walk(f) == [n \in 0 .. N |-> IF n = 0 THEN TakeNames(b, segment.names) ELSE Step(n, f[n - 1])]
           walk == PushedUpTo(b, segment)
<1>1. walk = CHOOSE f : f = Walk(f)
  BY DEF PushedUpTo
<1>2. N \in Nat /\ TakeNames(b, segment.names) \in X
  <2>1. segment.text \in Seq(Char) /\ segment.names \in Seq(Name)
    BY DEF Item
  <2>2. PICK p \in Seq(StyledChar(Char, Styles)) : BuilderOK(b, p, Char, Styles, Name)
    BY DEF Builders
  <2> DEFINE t == TakeNames(b, segment.names)
  <2>3. BuilderOK(t, p, Char, Styles, Name)
    BY <2>1, <2>2, TakeNamesOK
  <2> HIDE DEF t
  <2>4. t \in BuilderType(Char, Styles, Name)
    BY <2>3 DEF BuilderOK
  <2>5. t \in Builders(Char, Styles, Name)
    BY <2>3, <2>4 DEF Builders
  <2> QED
    BY <2>1, <2>5 DEF t
<1>3. \A n \in 1 .. N, x \in X : Step(n, x) \in X
  <2> SUFFICES ASSUME NEW n \in 1 .. N, NEW x \in X PROVE Step(n, x) \in X
    OBVIOUS
  <2> DEFINE c == segment.text[n]
             style == segment.style
             C == StyledChar(Char, Styles)
             next == [char |-> c, style |-> style]
  <2>1. c \in Char /\ style \in Styles
    BY DEF Item
  <2>2. PICK p \in Seq(C) : BuilderOK(x, p, Char, Styles, Name)
    BY DEF Builders
  <2> HIDE DEF c, style
  <2>3. next \in C
    BY <2>1 DEF StyledChar
  <2>4. BuilderOK(PushCharacter(x, c, style), Append(p, next), Char, Styles, Name)
    BY <2>1, <2>2, PushCharacterOK
  <2> HIDE DEF next, C
  <2>5. Append(p, next) \in Seq(C)
    BY <2>2, <2>3
  <2>6. PushCharacter(x, c, style) \in BuilderType(Char, Styles, Name)
    BY <2>4 DEF BuilderOK
  <2> QED
    BY <2>4, <2>5, <2>6 DEF Builders, c, style, C
<1> HIDE DEF Step, X, N
<1>4. step \in [1 .. N -> [X -> X]]
  BY <1>3
<1>5. PICK f : IsWalk(f, X, N, TakeNames(b, segment.names), step)
  BY <1>2, <1>4, WalkExists
<1>6. f = Walk(f)
  <2>1. f \in [0 .. N -> X] /\ \A n \in 1 .. N : f[n - 1] \in X
    BY <1>2, <1>5 DEF IsWalk
  <2>2. \A n \in 1 .. N : f[n] = Step(n, f[n - 1])
    BY <1>5, <2>1 DEF IsWalk
  <2> QED
    BY <1>2, <1>5, <2>1, <2>2 DEF IsWalk
<1> HIDE DEF walk
<1>7. walk = Walk(walk)
  BY <1>1, <1>6
<1>8. \A n \in 0 .. N : walk[n] = IF n = 0 THEN TakeNames(b, segment.names) ELSE Step(n, walk[n - 1])
  BY <1>7
<1> DEFINE S == {n \in 0 .. N : walk[n] \in X}
<1>9. 0 \in S /\ \A n \in 1 .. N : n - 1 \in S => n \in S
  BY <1>2, <1>3, <1>8
<1>10. \A n \in 0 .. N : walk[n] \in X
  <2> HIDE DEF S
  <2>1. 0 .. N \subseteq S
    BY <1>2, <1>9, Induction
  <2> QED
    BY <2>1 DEF S
<1>11. /\ walk[0] = TakeNames(b, segment.names)
       /\ \A n \in 1 .. N : walk[n] = Step(n, walk[n - 1])
  BY <1>2, <1>8
<1> QED
  BY <1>10, <1>11, Zenon DEF walk, N, X, Step

LEMMA PushSegmentOK ==
  ASSUME NEW Char, NEW Styles, NEW Name, Space \in Char, Plain \in Styles,
         NEW p \in Seq(StyledChar(Char, Styles)), NEW b, BuilderOK(b, p, Char, Styles, Name),
         NEW segment \in Item(Char, Styles, Name)
  PROVE  BuilderOK(PushSegment(b, segment), Then(p, Tagged(segment.text, segment.style)),
                   Char, Styles, Name)
<1> DEFINE C == StyledChar(Char, Styles)
           chars == segment.text
           style == segment.style
           N == Len(chars)
           tagged == Tagged(chars, style)
           pushed == PushedUpTo(b, segment)
           So(n) == Then(p, First(tagged, n))
           S == {n \in 0 .. N : BuilderOK(pushed[n], So(n), Char, Styles, Name)}
<1>1. chars \in Seq(Char) /\ style \in Styles /\ segment.names \in Seq(Name)
  BY DEF Item
<1>2. b \in Builders(Char, Styles, Name)
  BY DEF Builders, BuilderOK
<1>3. /\ pushed[0] = TakeNames(b, segment.names)
      /\ \A n \in 1 .. N : pushed[n] = PushCharacter(pushed[n - 1], chars[n], style)
  BY <1>2, PushedFacts
<1>4. PushSegment(b, segment) = pushed[N]
  BY DEF PushSegment
<1> HIDE DEF pushed, chars, style
<1>5. N \in Nat /\ \A n \in 1 .. N : chars[n] \in Char
  BY <1>1
<1>6. tagged \in Seq(C) /\ Len(tagged) = N /\ \A n \in 1 .. N : tagged[n] = [char |-> chars[n], style |-> style]
  BY <1>1, TaggedType
<1> HIDE DEF tagged, N, C
<1>7. /\ First(tagged, 0) = <<>> /\ First(tagged, N) = tagged
      /\ \A n \in 0 .. N : First(tagged, n) \in Seq(C)
      /\ \A n \in 1 .. N : First(tagged, n) = Append(First(tagged, n - 1), tagged[n])
  BY <1>6, FirstFacts
<1>8. p \in Seq(C)
  BY DEF C
<1>9. \A n \in 1 .. N : tagged[n] \in C
  BY <1>6
<1>10. So(0) = p /\ So(N) = Then(p, tagged)
  BY <1>7, <1>8, ThenFacts
<1>11. ASSUME NEW n \in 1 .. N
       PROVE  So(n - 1) \in Seq(C) /\ So(n) = Append(So(n - 1), tagged[n])
  <2> DEFINE before == First(tagged, n - 1)
             x == tagged[n]
  <2>1. n - 1 \in 0 .. N
    BY <1>5
  <2>2. before \in Seq(C) /\ x \in C /\ First(tagged, n) = Append(before, x)
    BY <1>7, <1>9, <2>1
  <2> HIDE DEF before, x
  <2>3. Then(p, before) \in Seq(C) /\ Then(p, Append(before, x)) = Append(Then(p, before), x)
    BY <1>8, <2>2, ThenFacts, ThenAppend
  <2> QED
    BY <2>2, <2>3 DEF before, x
<1> HIDE DEF So
<1>12. 0 \in S
  <2>1. BuilderOK(TakeNames(b, segment.names), p, Char, Styles, Name)
    BY <1>1, TakeNamesOK
  <2> QED
    BY <1>3, <1>5, <1>10, <2>1
<1>13. ASSUME NEW n \in 1 .. N, n - 1 \in S PROVE n \in S
  <2> DEFINE before == pushed[n - 1]
             p1 == So(n - 1)
             c == chars[n]
  <2>1. n \in 0 .. N /\ c \in Char
    BY <1>5
  <2>2. BuilderOK(before, p1, Char, Styles, Name) /\ p1 \in Seq(C)
    BY <1>11, <1>13
  <2>3. pushed[n] = PushCharacter(before, c, style)
    BY <1>3
  <2>4. So(n) = Append(p1, [char |-> c, style |-> style])
    BY <1>6, <1>11
  <2> HIDE DEF before, p1, c
  <2>5. BuilderOK(PushCharacter(before, c, style), Append(p1, [char |-> c, style |-> style]),
                  Char, Styles, Name)
    BY <1>1, <2>1, <2>2, PushCharacterOK DEF C
  <2> QED
    BY <2>1, <2>3, <2>4, <2>5
<1> HIDE DEF S
<1>14. 0 .. N \subseteq S
  BY <1>5, <1>12, <1>13, Induction
<1>15. BuilderOK(pushed[N], So(N), Char, Styles, Name)
  BY <1>5, <1>14 DEF S
<1> QED
  BY <1>4, <1>10, <1>15 DEF tagged, chars, style

LEMMA NewBuilderOK ==
  ASSUME NEW Char, NEW Styles, NEW Name, Plain \in Styles
  PROVE  BuilderOK(NewBuilder, <<>>, Char, Styles, Name)
<1> DEFINE I == Item(Char, Styles, Name)
           C == StyledChar(Char, Styles)
           run == NewRun(Plain)
           before == StyledText(<<>>)
<1>1. run \in I /\ run.text = <<>>
  BY NewRunType
<1> HIDE DEF run
<1>2. <<>> \in Seq(I) /\ <<>> \in Seq(Name) /\ <<>> \in Seq(C)
  OBVIOUS
<1>3. /\ NewBuilder \in BuilderType(Char, Styles, Name) /\ NewBuilder.spaced
      /\ NewBuilder.runs = <<>> /\ NewBuilder.current = run
  BY <1>1, <1>2 DEF NewBuilder, BuilderType, run
<1>4. StyledText(Append(<<>>, run)) = Then(before, Tagged(run.text, run.style))
  <2> DEFINE none == <<>>
  <2>1. none \in Seq(I)
    BY <1>2
  <2> HIDE DEF none
  <2>2. StyledText(Append(none, run)) = Then(StyledText(none), Tagged(run.text, run.style))
    BY <1>1, <2>1, StyledAppend
  <2> QED
    BY <2>2 DEF none
<1>5. Tagged(run.text, run.style) = <<>> /\ before = <<>>
  BY <1>1, TaggedEmpty, StyledEmpty
<1> HIDE DEF C
<1>6. Then(<<>>, <<>>) = <<>>
  BY <1>2, ThenFacts
<1>7. Whole(NewBuilder) = Append(<<>>, run)
  BY <1>3 DEF Whole
<1>8. StyledText(Whole(NewBuilder)) = Followed(<<>>)
  BY <1>4, <1>5, <1>6, <1>7, FollowedEmpty
<1> QED
  BY <1>3, <1>8 DEF BuilderOK, AfterSpace

\* The builder after the first segments.
LEMMA BuiltFacts ==
  ASSUME NEW Char, NEW Styles, NEW Name, Space \in Char, Plain \in Styles,
         NEW segs \in Seq(Item(Char, Styles, Name))
  PROVE  /\ BuiltUpTo(segs)[0] = NewBuilder
         /\ \A n \in 0 .. Len(segs) : BuiltUpTo(segs)[n] \in Builders(Char, Styles, Name)
         /\ \A n \in 1 .. Len(segs) : BuiltUpTo(segs)[n] = PushSegment(BuiltUpTo(segs)[n - 1], segs[n])
<1> DEFINE N == Len(segs)
           X == Builders(Char, Styles, Name)
           Step(n, x) == PushSegment(x, segs[n])
           step == [n \in 1 .. N |-> [x \in X |-> Step(n, x)]]
           Walk(f) == [n \in 0 .. N |-> IF n = 0 THEN NewBuilder ELSE Step(n, f[n - 1])]
           walk == BuiltUpTo(segs)
<1>1. walk = CHOOSE f : f = Walk(f)
  BY DEF BuiltUpTo
<1>2. N \in Nat /\ NewBuilder \in X
  <2>1. BuilderOK(NewBuilder, <<>>, Char, Styles, Name)
    BY NewBuilderOK
  <2> DEFINE none == <<>>
  <2>2. NewBuilder \in BuilderType(Char, Styles, Name) /\ none \in Seq(StyledChar(Char, Styles))
    BY <2>1 DEF BuilderOK
  <2>3. BuilderOK(NewBuilder, none, Char, Styles, Name) /\ N \in Nat
    BY <2>1
  <2> HIDE DEF none, N
  <2> QED
    BY <2>2, <2>3 DEF Builders
<1>3. \A n \in 1 .. N, x \in X : Step(n, x) \in X
  <2> SUFFICES ASSUME NEW n \in 1 .. N, NEW x \in X PROVE Step(n, x) \in X
    OBVIOUS
  <2> DEFINE segment == segs[n]
             C == StyledChar(Char, Styles)
             tagged == Tagged(segment.text, segment.style)
             q(p) == Then(p, tagged)
  <2>1. segment \in Item(Char, Styles, Name)
    OBVIOUS
  <2>2. PICK p \in Seq(C) : BuilderOK(x, p, Char, Styles, Name)
    BY DEF Builders
  <2> HIDE DEF segment
  <2>3. BuilderOK(PushSegment(x, segment), q(p), Char, Styles, Name)
    BY <2>1, <2>2, PushSegmentOK
  <2>4. segment.text \in Seq(Char) /\ segment.style \in Styles
    BY <2>1 DEF Item
  <2>5. tagged \in Seq(C)
    BY <2>4, TaggedType
  <2> HIDE DEF C, tagged
  <2>6. q(p) \in Seq(C)
    BY <2>2, <2>5, ThenFacts
  <2> HIDE DEF q
  <2>7. PushSegment(x, segment) \in BuilderType(Char, Styles, Name)
    BY <2>3 DEF BuilderOK
  <2> QED
    BY <2>3, <2>6, <2>7 DEF Builders, segment, C
<1> HIDE DEF Step, X, N
<1>4. step \in [1 .. N -> [X -> X]]
  BY <1>3
<1>5. PICK f : IsWalk(f, X, N, NewBuilder, step)
  BY <1>2, <1>4, WalkExists
<1>6. f = Walk(f)
  <2>1. f \in [0 .. N -> X] /\ \A n \in 1 .. N : f[n - 1] \in X
    BY <1>2, <1>5 DEF IsWalk
  <2>2. \A n \in 1 .. N : f[n] = Step(n, f[n - 1])
    BY <1>5, <2>1 DEF IsWalk
  <2> QED
    BY <1>2, <1>5, <2>1, <2>2 DEF IsWalk
<1> HIDE DEF walk
<1>7. walk = Walk(walk)
  BY <1>1, <1>6
<1>8. \A n \in 0 .. N : walk[n] = IF n = 0 THEN NewBuilder ELSE Step(n, walk[n - 1])
  BY <1>7
<1> DEFINE S == {n \in 0 .. N : walk[n] \in X}
<1>9. 0 \in S /\ \A n \in 1 .. N : n - 1 \in S => n \in S
  BY <1>2, <1>3, <1>8
<1>10. \A n \in 0 .. N : walk[n] \in X
  <2> HIDE DEF S
  <2>1. 0 .. N \subseteq S
    BY <1>2, <1>9, Induction
  <2> QED
    BY <2>1 DEF S
<1>11. /\ walk[0] = NewBuilder
       /\ \A n \in 1 .. N : walk[n] = Step(n, walk[n - 1])
  BY <1>2, <1>8
<1> QED
  BY <1>10, <1>11, Zenon DEF walk, N, X, Step

\* After the first segments a builder holds what they read as.
LEMMA BuiltOK ==
  ASSUME NEW Char, NEW Styles, NEW Name, Space \in Char, Plain \in Styles,
         NEW segs \in Seq(Item(Char, Styles, Name))
  PROVE  \A n \in 0 .. Len(segs) :
            /\ StyledUpTo(segs)[n] \in Seq(StyledChar(Char, Styles))
            /\ BuilderOK(BuiltUpTo(segs)[n], StyledUpTo(segs)[n], Char, Styles, Name)
<1> DEFINE C == StyledChar(Char, Styles)
           N == Len(segs)
           built == BuiltUpTo(segs)
           So(n) == StyledUpTo(segs)[n]
           S == {n \in 0 .. N : BuilderOK(built[n], So(n), Char, Styles, Name)}
<1>1. N \in Nat /\ \A n \in 1 .. N : segs[n] \in Item(Char, Styles, Name)
  OBVIOUS
<1>2. /\ built[0] = NewBuilder
      /\ \A n \in 1 .. N : built[n] = PushSegment(built[n - 1], segs[n])
  BY BuiltFacts
<1>3. /\ So(0) = <<>>
      /\ \A n \in 0 .. N : So(n) \in Seq(C)
      /\ \A n \in 1 .. N : So(n) = Then(So(n - 1), Tagged(segs[n].text, segs[n].style))
  BY StyledFacts
<1> HIDE DEF N, built, So, C
<1>4. 0 \in S
  BY <1>1, <1>2, <1>3, NewBuilderOK
<1>5. ASSUME NEW n \in 1 .. N, n - 1 \in S PROVE n \in S
  <2> DEFINE before == built[n - 1]
             p == So(n - 1)
             segment == segs[n]
  <2>1. n \in 0 .. N /\ n - 1 \in 0 .. N /\ segment \in Item(Char, Styles, Name)
    BY <1>1
  <2>2. BuilderOK(before, p, Char, Styles, Name) /\ p \in Seq(C)
    BY <1>3, <1>5, <2>1
  <2>3. built[n] = PushSegment(before, segment)
    BY <1>2
  <2>4. So(n) = Then(p, Tagged(segment.text, segment.style))
    BY <1>3
  <2> HIDE DEF before, p, segment
  <2>5. BuilderOK(PushSegment(before, segment), Then(p, Tagged(segment.text, segment.style)),
                  Char, Styles, Name)
    BY <2>1, <2>2, PushSegmentOK DEF C
  <2> QED
    BY <2>1, <2>3, <2>4, <2>5
<1> HIDE DEF S
<1>6. 0 .. N \subseteq S
  BY <1>1, <1>4, <1>5, Induction
<1> QED
  BY <1>3, <1>6 DEF S, N, C, built, So

-----------------------------------------------------------------------------
(* The end of a block.                                                     *)

LEMMA LastOfText ==
  ASSUME NEW Char, NEW chars \in Seq(Char), chars # <<>>
  PROVE  /\ Front(chars) \in Seq(Char) /\ Last(chars) \in Char
         /\ chars = Append(Front(chars), Last(chars))
<1> DEFINE front == Front(chars)
           last == Last(chars)
           n == Len(chars)
<1>1. n \in Nat /\ n > 0 /\ \A i \in 1 .. n : chars[i] \in Char
  OBVIOUS
<1>2. front = SubSeq(chars, 1, n - 1) /\ last = chars[n]
  BY DEF Front, Last
<1>3. last \in Char
  BY <1>1, <1>2
<1>4. front \in Seq(Char) /\ Len(front) = n - 1 /\ \A i \in 1 .. n - 1 : front[i] = chars[i]
  <2>1. 1 \in Int /\ n - 1 \in Int /\ \A i \in 1 .. n - 1 : chars[i] \in Char
    BY <1>1
  <2> HIDE DEF n
  <2>2. /\ SubSeq(chars, 1, n - 1) \in Seq(Char)
        /\ Len(SubSeq(chars, 1, n - 1)) = IF 1 <= n - 1 THEN n - 1 - 1 + 1 ELSE 0
        /\ \A i \in 1 .. n - 1 - 1 + 1 : SubSeq(chars, 1, n - 1)[i] = chars[1 + i - 1]
    BY <2>1, SubSeqProperties
  <2> QED
    BY <1>1, <1>2, <2>2
<1> HIDE DEF front, last
<1> DEFINE whole == Append(front, last)
<1>5. /\ whole \in Seq(Char) /\ Len(whole) = n /\ whole[n] = last
      /\ \A i \in 1 .. n - 1 : whole[i] = front[i]
  BY <1>1, <1>3, <1>4
<1> HIDE DEF whole
<1>6. ASSUME NEW i \in 1 .. n PROVE chars[i] = whole[i]
  <2>1. i = n \/ i \in 1 .. n - 1
    BY <1>1
  <2> QED
    BY <1>2, <1>4, <1>5, <2>1
<1>7. chars = whole
  BY <1>5, <1>6, SeqEqual
<1> QED
  BY <1>3, <1>4, <1>7 DEF front, last, whole

\* The builder without the last character of its current run.
Shorter(b) == [b EXCEPT !.current.text = Front(@)]

LEMMA ShorterOK ==
  ASSUME NEW Char, NEW Styles, NEW Name, NEW b \in BuilderType(Char, Styles, Name),
         b.current.text # <<>>
  PROVE  /\ Shorter(b) \in BuilderType(Char, Styles, Name)
         /\ Shorter(b).runs = b.runs /\ Shorter(b).waiting = b.waiting
         /\ Shorter(b).current.names = b.current.names
         /\ Shorter(b).current.text = Front(b.current.text)
         /\ b.current.text = Append(Shorter(b).current.text, Last(b.current.text))
         /\ Last(b.current.text) \in Char
         /\ Shorter(b).current.style = b.current.style
<1> DEFINE I == Item(Char, Styles, Name)
           chars == b.current.text
           front == Front(chars)
           run == [b.current EXCEPT !.text = front]
           o == Shorter(b)
<1>1. b.current \in I
  BY DEF BuilderType
<1>2. chars \in Seq(Char)
  BY <1>1 DEF Item
<1>3. front \in Seq(Char) /\ Last(chars) \in Char /\ chars = Append(front, Last(chars))
  BY <1>2, LastOfText
<1>4. o = [b EXCEPT !.current = run]
  BY DEF Shorter
<1> HIDE DEF front, o
<1>5. run \in I /\ run.text = front /\ run.style = b.current.style /\ run.names = b.current.names
  BY <1>1, <1>3 DEF Item
<1> HIDE DEF run
<1>6. /\ o \in BuilderType(Char, Styles, Name) /\ o.current = run /\ o.runs = b.runs
      /\ o.waiting = b.waiting
  BY <1>4, <1>5 DEF BuilderType
<1> QED
  BY <1>3, <1>5, <1>6 DEF o, front

LEMMA TrimOK ==
  ASSUME NEW Char, NEW Styles, NEW Name, NEW p, NEW b, BuilderOK(b, p, Char, Styles, Name)
  PROVE  /\ TrimTrailingSpace(b) \in BuilderType(Char, Styles, Name)
         /\ StyledText(Whole(TrimTrailingSpace(b))) = Trimmed(StyledText(Whole(b)))
<1> DEFINE I == Item(Char, Styles, Name)
           C == StyledChar(Char, Styles)
           chars == b.current.text
           whole == StyledText(Whole(b))
<1>1. /\ b \in BuilderType(Char, Styles, Name) /\ b.runs \in Seq(I) /\ b.current \in I
      /\ b.current.text = <<>> => b.runs = <<>>
  BY DEF BuilderOK, BuilderType
<1>2. CASE chars = <<>>
  <2> DEFINE none == <<>>
             run == b.current
             before == StyledText(none)
  <2>1. none \in Seq(I) /\ Whole(b) = Append(none, run) /\ run \in I /\ run.text = <<>>
    BY <1>1, <1>2 DEF Whole
  <2> HIDE DEF none, run
  <2>2. StyledText(Append(none, run)) = Then(before, Tagged(run.text, run.style))
    BY <2>1, StyledAppend
  <2>3. Tagged(run.text, run.style) = <<>> /\ before = <<>>
    BY <2>1, TaggedEmpty, StyledEmpty DEF none
  <2>4. <<>> \in Seq(C)
    OBVIOUS
  <2> HIDE DEF C
  <2>5. Then(<<>>, <<>>) = <<>>
    BY <2>4, ThenFacts
  <2>6. whole = <<>>
    BY <2>1, <2>2, <2>3, <2>5
  <2>7. Trimmed(whole) = whole
    BY <2>6 DEF Trimmed
  <2>8. TrimTrailingSpace(b) = b
    BY <1>2 DEF TrimTrailingSpace
  <2> QED
    BY <1>1, <2>7, <2>8
<1>3. CASE chars # <<>>
  <2> DEFINE o == Shorter(b)
             last == Last(chars)
             x == [char |-> last, style |-> o.current.style]
             before == StyledText(Whole(o))
  <2>1. /\ o \in BuilderType(Char, Styles, Name) /\ o.runs = b.runs /\ last \in Char
        /\ chars = Append(o.current.text, last) /\ o.current.style = b.current.style
    BY <1>1, <1>3, ShorterOK
  <2>2. TrimTrailingSpace(b) = IF last = Space THEN o ELSE b
    BY <1>3 DEF TrimTrailingSpace, Shorter
  <2> HIDE DEF o, last
  <2>3. whole = Append(before, x)
    BY <1>1, <2>1, ExtendOK
  <2>4. o.runs \in Seq(I) /\ o.current \in I
    BY <2>1 DEF BuilderType
  <2>5. Whole(o) \in Seq(I) /\ x \in C /\ x.char = last
    BY <2>1, <2>4 DEF Whole, Item, StyledChar
  <2>6. before \in Seq(C)
    <3> DEFINE runs == Whole(o)
    <3>1. runs \in Seq(I)
      BY <2>5
    <3> HIDE DEF runs
    <3>2. StyledText(runs) \in Seq(C)
      BY <2>4, <3>1, StyledAppend
    <3> QED
      BY <3>2 DEF runs
  <2> HIDE DEF before, x, whole, C
  <2>7. /\ Visible(last) => Trimmed(whole) = whole
        /\ ~Visible(last) => Trimmed(whole) = before
    BY <2>3, <2>5, <2>6, TrimmedFacts
  <2>8. CASE last = Space
    BY <2>1, <2>2, <2>7, <2>8 DEF Visible, before, whole
  <2>9. CASE last # Space
    BY <1>1, <2>2, <2>7, <2>9 DEF Visible, whole
  <2> QED
    BY <2>8, <2>9
<1> QED
  BY <1>2, <1>3

\* Names that trail the text change no text.
LEMMA AttachOK ==
  ASSUME NEW Char, NEW Styles, NEW Name, Plain \in Styles,
         NEW b \in BuilderType(Char, Styles, Name)
  PROVE  /\ AttachTrailingAnchors(b) \in Seq(Item(Char, Styles, Name))
         /\ StyledText(AttachTrailingAnchors(b)) = StyledText(b.runs)
<1> DEFINE I == Item(Char, Styles, Name)
           C == StyledChar(Char, Styles)
           r == b.runs
           N == Len(r)
           a == AttachTrailingAnchors(b)
<1>1. r \in Seq(I) /\ b.waiting \in Seq(Name) /\ N \in Nat
  BY DEF BuilderType
<1>2. CASE b.waiting = <<>>
  BY <1>1, <1>2 DEF AttachTrailingAnchors
<1>3. CASE b.waiting # <<>> /\ r = <<>>
  <2> DEFINE none == <<>>
             run == [NewRun(Plain) EXCEPT !.names = b.waiting]
             before == StyledText(none)
  <2>1. none \in Seq(I) /\ run \in I /\ run.text = <<>>
    <3>1. run = [text |-> <<>>, style |-> Plain, names |-> b.waiting] /\ <<>> \in Seq(Char)
      BY DEF NewRun
    <3>2. run \in I /\ run.text = <<>>
      BY <1>1, <3>1 DEF Item
    <3>3. none \in Seq(I)
      OBVIOUS
    <3> QED
      BY <3>2, <3>3
  <2>2. a = Append(none, run)
    BY <1>3 DEF AttachTrailingAnchors
  <2> HIDE DEF none, run
  <2>3. StyledText(Append(none, run)) = Then(before, Tagged(run.text, run.style))
    BY <2>1, StyledAppend
  <2>4. Tagged(run.text, run.style) = <<>> /\ before = <<>>
    BY <2>1, TaggedEmpty, StyledEmpty DEF none
  <2>5. <<>> \in Seq(C)
    OBVIOUS
  <2> HIDE DEF C
  <2>6. Then(<<>>, <<>>) = <<>>
    BY <2>5, ThenFacts
  <2>7. StyledText(a) = <<>> /\ StyledText(r) = <<>>
    BY <1>3, <2>2, <2>3, <2>4, <2>6, StyledEmpty
  <2>8. a \in Seq(I)
    BY <2>1, <2>2
  <2> QED
    BY <2>7, <2>8
<1>4. CASE b.waiting # <<>> /\ r # <<>>
  <2> DEFINE names == AppendUnique(r[N].names, b.waiting)
             run == [r[N] EXCEPT !.names = names]
  <2>1. N \in 1 .. N /\ r[N] \in I
    BY <1>1, <1>4
  <2>2. r[N].names \in Seq(Name)
    BY <2>1 DEF Item
  <2>3. names \in Seq(Name)
    BY <1>1, <2>2, UniqueNames
  <2>4. a = [r EXCEPT ![N] = run]
    BY <1>4 DEF AttachTrailingAnchors
  <2> HIDE DEF names
  <2>5. run \in I /\ run.text = r[N].text /\ run.style = r[N].style
    BY <2>1, <2>3 DEF Item
  <2> HIDE DEF run, a, I
  <2>6. /\ a \in Seq(I) /\ Len(a) = N
        /\ \A i \in 1 .. N : a[i] = IF i = N THEN run ELSE r[i]
    BY <1>1, <2>1, <2>4, <2>5
  <2>7. \A i \in 1 .. N : a[i].text = r[i].text /\ a[i].style = r[i].style
    BY <2>5, <2>6
  <2> HIDE DEF r
  <2>8. N \in 0 .. N /\ Len(r) = N
    BY <1>1
  <2> HIDE DEF N
  <2>9. StyledUpTo(a)[N] = StyledUpTo(r)[N]
    BY <1>1, <2>6, <2>7, <2>8, StyledAlike DEF I
  <2> QED
    BY <2>6, <2>8, <2>9 DEF StyledText, a, r, I
<1> QED
  BY <1>2, <1>3, <1>4

LEMMA FinishOK ==
  ASSUME NEW Char, NEW Styles, NEW Name, Plain \in Styles,
         NEW p, NEW b, BuilderOK(b, p, Char, Styles, Name)
  PROVE  /\ Finish(b) \in Seq(Item(Char, Styles, Name))
         /\ StyledText(Finish(b)) = Trimmed(Followed(p))
<1> DEFINE t == TrimTrailingSpace(b)
           f == FlushCurrent(t)
<1>1. t \in BuilderType(Char, Styles, Name) /\ StyledText(Whole(t)) = Trimmed(Followed(p))
  BY TrimOK DEF BuilderOK
<1>2. Finish(b) = AttachTrailingAnchors(f)
  BY DEF Finish
<1> HIDE DEF t
<1>3. f \in BuilderType(Char, Styles, Name) /\ StyledText(f.runs) = StyledText(Whole(t))
  BY <1>1, FlushCurrentOK
<1> HIDE DEF f
<1>4. /\ AttachTrailingAnchors(f) \in Seq(Item(Char, Styles, Name))
      /\ StyledText(AttachTrailingAnchors(f)) = StyledText(f.runs)
  BY <1>3, AttachOK
<1> QED
  BY <1>1, <1>2, <1>3, <1>4

(***************************************************************************)
(* RunBuilder: whatever segments a block is gathered in, its runs read as  *)
(* the segments do with whitespace collapsed, each character in its style. *)
(***************************************************************************)
THEOREM RunsReadCollapsed ==
  ASSUME NEW Char, NEW Styles, NEW Name, Space \in Char, Plain \in Styles,
         NEW segs \in Seq(Item(Char, Styles, Name))
  PROVE  ReadsCollapsed(CollapseSegments(segs), segs)
<1> DEFINE C == StyledChar(Char, Styles)
           b == BuiltUpTo(segs)[Len(segs)]
           p == StyledUpTo(segs)[Len(segs)]
<1>1. Len(segs) \in 0 .. Len(segs)
  BY LenProperties
<1>2. p \in Seq(C) /\ BuilderOK(b, p, Char, Styles, Name)
  BY <1>1, BuiltOK
<1>3. CollapseSegments(segs) = Finish(b) /\ StyledText(segs) = p
  BY DEF CollapseSegments, StyledText
<1> HIDE DEF b, p, C
<1>4. StyledText(Finish(b)) = Trimmed(Followed(p))
  BY <1>2, FinishOK
<1>5. Collapsed(p) = Trimmed(Followed(p))
  BY <1>2, TrimmedIsCollapsed
<1> QED
  BY <1>3, <1>4, <1>5 DEF ReadsCollapsed

-----------------------------------------------------------------------------
(* Counting visible characters.                                            *)

Counts(items) == CountsUpTo(items)[Len(items)]
One(c) == IF Visible(c) THEN 1 ELSE 0

\* How many of the first characters are visible.
LEMMA CountFacts ==
  ASSUME NEW Char, NEW chars \in Seq(Char)
  PROVE  /\ CountUpTo(chars)[0] = 0
         /\ \A n \in 0 .. Len(chars) : CountUpTo(chars)[n] \in Nat
         /\ \A n \in 1 .. Len(chars) : CountUpTo(chars)[n] = CountUpTo(chars)[n - 1] + One(chars[n])
<1> DEFINE N == Len(chars)
           X == Nat
           Step(n, x) == x + One(chars[n])
           step == [n \in 1 .. N |-> [x \in X |-> Step(n, x)]]
           Walk(f) == [n \in 0 .. N |-> IF n = 0 THEN 0 ELSE Step(n, f[n - 1])]
           walk == CountUpTo(chars)
<1>1. walk = CHOOSE f : f = Walk(f)
  BY DEF CountUpTo, One
<1>2. N \in Nat /\ 0 \in X
  OBVIOUS
<1>3. \A n \in 1 .. N, x \in X : Step(n, x) \in X
  BY DEF One
<1> HIDE DEF Step, X, N
<1>4. step \in [1 .. N -> [X -> X]]
  BY <1>3
<1>5. PICK f : IsWalk(f, X, N, 0, step)
  BY <1>2, <1>4, WalkExists
<1>6. f = Walk(f)
  <2>1. f \in [0 .. N -> X] /\ \A n \in 1 .. N : f[n - 1] \in X
    BY <1>2, <1>5 DEF IsWalk
  <2>2. \A n \in 1 .. N : f[n] = Step(n, f[n - 1])
    BY <1>5, <2>1 DEF IsWalk
  <2> QED
    BY <1>2, <1>5, <2>1, <2>2 DEF IsWalk
<1> HIDE DEF walk
<1>7. walk = Walk(walk)
  BY <1>1, <1>6
<1>8. \A n \in 0 .. N : walk[n] = IF n = 0 THEN 0 ELSE Step(n, walk[n - 1])
  BY <1>7
<1> DEFINE S == {n \in 0 .. N : walk[n] \in X}
<1>9. 0 \in S /\ \A n \in 1 .. N : n - 1 \in S => n \in S
  BY <1>2, <1>3, <1>8
<1>10. \A n \in 0 .. N : walk[n] \in X
  <2> HIDE DEF S
  <2>1. 0 .. N \subseteq S
    BY <1>2, <1>9, Induction
  <2> QED
    BY <2>1 DEF S
<1>11. /\ walk[0] = 0
       /\ \A n \in 1 .. N : walk[n] = Step(n, walk[n - 1])
  BY <1>2, <1>8
<1> QED
  BY <1>10, <1>11, Zenon DEF walk, N, X, Step

\* Texts that start alike have as many visible characters so far.
LEMMA CountAlike ==
  ASSUME NEW Char, NEW s \in Seq(Char), NEW t \in Seq(Char),
         NEW N \in 0 .. Len(s), N <= Len(t), \A i \in 1 .. N : s[i] = t[i]
  PROVE  CountUpTo(s)[N] = CountUpTo(t)[N]
<1> DEFINE S == {n \in 0 .. N : CountUpTo(s)[n] = CountUpTo(t)[n]}
<1>1. Len(s) \in Nat /\ Len(t) \in Nat
  OBVIOUS
<1>2. /\ CountUpTo(s)[0] = 0
      /\ \A n \in 1 .. Len(s) : CountUpTo(s)[n] = CountUpTo(s)[n - 1] + One(s[n])
  BY CountFacts
<1>3. /\ CountUpTo(t)[0] = 0
      /\ \A n \in 1 .. Len(t) : CountUpTo(t)[n] = CountUpTo(t)[n - 1] + One(t[n])
  BY CountFacts
<1>4. N \in Nat /\ 0 \in S
  BY <1>1, <1>2, <1>3
<1>5. ASSUME NEW n \in 1 .. N, n - 1 \in S PROVE n \in S
  <2>1. n \in 1 .. Len(s) /\ n \in 1 .. Len(t) /\ n \in 0 .. N
    BY <1>1
  <2>2. s[n] = t[n]
    OBVIOUS
  <2> QED
    BY <1>2, <1>3, <1>5, <2>1, <2>2
<1> HIDE DEF S
<1>6. 0 .. N \subseteq S
  BY <1>4, <1>5, Induction
<1> QED
  BY <1>4, <1>6 DEF S

LEMMA CountAppend ==
  ASSUME NEW Char, NEW s \in Seq(Char), NEW c \in Char
  PROVE  /\ VisibleIn(s) \in Nat
         /\ VisibleIn(Append(s, c)) = VisibleIn(s) + One(c)
<1> DEFINE t == Append(s, c)
<1>1. /\ Len(s) \in Nat /\ t \in Seq(Char) /\ Len(t) = Len(s) + 1 /\ t[Len(t)] = c
      /\ \A i \in 1 .. Len(s) : s[i] = t[i]
  OBVIOUS
<1> HIDE DEF t
<1>2. Len(s) \in 0 .. Len(s) /\ Len(s) <= Len(t) /\ Len(t) \in 1 .. Len(t) /\ Len(t) - 1 = Len(s)
  BY <1>1
<1>3. CountUpTo(s)[Len(s)] = CountUpTo(t)[Len(s)]
  BY <1>1, <1>2, CountAlike
<1>4. CountUpTo(t)[Len(t)] = CountUpTo(t)[Len(t) - 1] + One(c)
  BY <1>1, <1>2, CountFacts
<1>5. CountUpTo(s)[Len(s)] \in Nat
  BY <1>2, CountFacts
<1> QED
  BY <1>2, <1>3, <1>4, <1>5 DEF VisibleIn, t

LEMMA CountEmpty == VisibleIn(<<>>) = 0
<1>1. <<>> \in Seq({}) /\ Len(<<>>) = 0
  OBVIOUS
<1> QED
  BY <1>1, CountFacts DEF VisibleIn

\* How many visible characters the first items have.
LEMMA CountsFacts ==
  ASSUME NEW Char, NEW Styles, NEW Name, NEW items \in Seq(Item(Char, Styles, Name))
  PROVE  /\ CountsUpTo(items)[0] = 0
         /\ \A n \in 0 .. Len(items) : CountsUpTo(items)[n] \in Nat
         /\ \A n \in 1 .. Len(items) : CountsUpTo(items)[n] = CountsUpTo(items)[n - 1] + VisibleIn(items[n].text)
<1> DEFINE N == Len(items)
           X == Nat
           Step(n, x) == x + VisibleIn(items[n].text)
           step == [n \in 1 .. N |-> [x \in X |-> Step(n, x)]]
           Walk(f) == [n \in 0 .. N |-> IF n = 0 THEN 0 ELSE Step(n, f[n - 1])]
           walk == CountsUpTo(items)
<1>1. walk = CHOOSE f : f = Walk(f)
  BY DEF CountsUpTo
<1>2. N \in Nat /\ 0 \in X
  OBVIOUS
<1>3. \A n \in 1 .. N, x \in X : Step(n, x) \in X
  <2> SUFFICES ASSUME NEW n \in 1 .. N, NEW x \in Nat PROVE x + VisibleIn(items[n].text) \in Nat
    OBVIOUS
  <2> DEFINE item == items[n]
             chars == item.text
  <2>1. chars \in Seq(Char)
    <3>1. item \in Item(Char, Styles, Name)
      OBVIOUS
    <3> HIDE DEF item
    <3> QED
      BY <3>1 DEF Item
  <2> HIDE DEF chars
  <2>2. Len(chars) \in 0 .. Len(chars)
    BY <2>1, LenProperties
  <2>3. VisibleIn(chars) \in Nat
    BY <2>1, <2>2, CountFacts DEF VisibleIn
  <2> QED
    BY <2>3 DEF chars, item
<1> HIDE DEF Step, X, N
<1>4. step \in [1 .. N -> [X -> X]]
  BY <1>3
<1>5. PICK f : IsWalk(f, X, N, 0, step)
  BY <1>2, <1>4, WalkExists
<1>6. f = Walk(f)
  <2>1. f \in [0 .. N -> X] /\ \A n \in 1 .. N : f[n - 1] \in X
    BY <1>2, <1>5 DEF IsWalk
  <2>2. \A n \in 1 .. N : f[n] = Step(n, f[n - 1])
    BY <1>5, <2>1 DEF IsWalk
  <2> QED
    BY <1>2, <1>5, <2>1, <2>2 DEF IsWalk
<1> HIDE DEF walk
<1>7. walk = Walk(walk)
  BY <1>1, <1>6
<1>8. \A n \in 0 .. N : walk[n] = IF n = 0 THEN 0 ELSE Step(n, walk[n - 1])
  BY <1>7
<1> DEFINE S == {n \in 0 .. N : walk[n] \in X}
<1>9. 0 \in S /\ \A n \in 1 .. N : n - 1 \in S => n \in S
  BY <1>2, <1>3, <1>8
<1>10. \A n \in 0 .. N : walk[n] \in X
  <2> HIDE DEF S
  <2>1. 0 .. N \subseteq S
    BY <1>2, <1>9, Induction
  <2> QED
    BY <2>1 DEF S
<1>11. /\ walk[0] = 0
       /\ \A n \in 1 .. N : walk[n] = Step(n, walk[n - 1])
  BY <1>2, <1>8
<1> QED
  BY <1>10, <1>11, Zenon DEF walk, N, X, Step

\* Items whose texts start alike have as many visible characters so far.
LEMMA CountsAlike ==
  ASSUME NEW Char, NEW Styles, NEW Name,
         NEW s \in Seq(Item(Char, Styles, Name)), NEW t \in Seq(Item(Char, Styles, Name)),
         NEW N \in 0 .. Len(s), N <= Len(t), \A i \in 1 .. N : s[i].text = t[i].text
  PROVE  CountsUpTo(s)[N] = CountsUpTo(t)[N]
<1> DEFINE S == {n \in 0 .. N : CountsUpTo(s)[n] = CountsUpTo(t)[n]}
<1>1. Len(s) \in Nat /\ Len(t) \in Nat
  OBVIOUS
<1>2. /\ CountsUpTo(s)[0] = 0
      /\ \A n \in 1 .. Len(s) : CountsUpTo(s)[n] = CountsUpTo(s)[n - 1] + VisibleIn(s[n].text)
  BY CountsFacts
<1>3. /\ CountsUpTo(t)[0] = 0
      /\ \A n \in 1 .. Len(t) : CountsUpTo(t)[n] = CountsUpTo(t)[n - 1] + VisibleIn(t[n].text)
  BY CountsFacts
<1>4. N \in Nat /\ 0 \in S
  BY <1>1, <1>2, <1>3
<1>5. ASSUME NEW n \in 1 .. N, n - 1 \in S PROVE n \in S
  <2>1. n \in 1 .. Len(s) /\ n \in 1 .. Len(t) /\ n \in 0 .. N
    BY <1>1
  <2>2. s[n].text = t[n].text
    OBVIOUS
  <2> QED
    BY <1>2, <1>3, <1>5, <2>1, <2>2
<1> HIDE DEF S
<1>6. 0 .. N \subseteq S
  BY <1>4, <1>5, Induction
<1> QED
  BY <1>4, <1>6 DEF S

LEMMA CountsAppend ==
  ASSUME NEW Char, NEW Styles, NEW Name,
         NEW s \in Seq(Item(Char, Styles, Name)), NEW item \in Item(Char, Styles, Name)
  PROVE  /\ Counts(s) \in Nat
         /\ Counts(Append(s, item)) = Counts(s) + VisibleIn(item.text)
         /\ \A j \in 0 .. Len(s) : CountsUpTo(Append(s, item))[j] = CountsUpTo(s)[j]
<1> DEFINE t == Append(s, item)
<1>1. /\ Len(s) \in Nat /\ t \in Seq(Item(Char, Styles, Name)) /\ Len(t) = Len(s) + 1
      /\ t[Len(t)] = item
      /\ \A i \in 1 .. Len(s) : s[i] = t[i]
  OBVIOUS
<1> HIDE DEF t
<1>2. Len(s) \in 0 .. Len(s) /\ Len(s) <= Len(t) /\ Len(t) \in 1 .. Len(t) /\ Len(t) - 1 = Len(s)
  BY <1>1
<1>3. ASSUME NEW j \in 0 .. Len(s) PROVE CountsUpTo(s)[j] = CountsUpTo(t)[j]
  <2>1. j <= Len(t) /\ \A i \in 1 .. j : s[i].text = t[i].text
    BY <1>1
  <2> QED
    BY <1>1, <2>1, CountsAlike
<1>4. CountsUpTo(t)[Len(t)] = CountsUpTo(t)[Len(t) - 1] + VisibleIn(item.text)
  BY <1>1, <1>2, CountsFacts
<1>5. CountsUpTo(s)[Len(s)] \in Nat
  BY <1>2, CountsFacts
<1> QED
  BY <1>2, <1>3, <1>4, <1>5 DEF Counts, t

LEMMA CountsEmpty == Counts(<<>>) = 0
<1> DEFINE items == <<>>
           I == Item({}, {}, {})
<1>1. items \in Seq(I) /\ Len(items) = 0
  OBVIOUS
<1> HIDE DEF items
<1>2. \A Char, Styles, Name : \A s \in Seq(Item(Char, Styles, Name)) : CountsUpTo(s)[0] = 0
  BY CountsFacts
<1>3. \A s \in Seq(I) : CountsUpTo(s)[0] = 0
  BY <1>2
<1> QED
  BY <1>1, <1>3 DEF Counts, items

-----------------------------------------------------------------------------
(* Where a name is.                                                        *)

\* It is bound to a run that no more than k visible characters come before.
IsBound(runs, n, k) ==
  \E j \in 1 .. Len(runs) : n \in ToSet(runs[j].names) /\ CountsUpTo(runs)[j - 1] <= k

\* Or it waits, and no more than k have come yet.
IsKept(b, n, k) ==
  \/ n \in ToSet(b.waiting) /\ Counts(Whole(b)) <= k
  \/ IsBound(Whole(b), n, k)

\* A run without visible text has no name, so that it can be dropped.
NamesAreSeen(b) == b.current.names # <<>> => VisibleIn(b.current.text) > 0

LEMMA BoundAppend ==
  ASSUME NEW Char, NEW Styles, NEW Name, NEW s \in Seq(Item(Char, Styles, Name)),
         NEW run \in Item(Char, Styles, Name), NEW n, NEW k \in Nat
  PROVE  IsBound(Append(s, run), n, k)
         <=> IsBound(s, n, k) \/ (n \in ToSet(run.names) /\ Counts(s) <= k)
<1> DEFINE t == Append(s, run)
           N == Len(s)
<1>1. /\ N \in Nat /\ Len(t) = N + 1 /\ t[N + 1] = run
      /\ \A i \in 1 .. N : t[i] = s[i]
  OBVIOUS
<1>2. \A j \in 0 .. N : CountsUpTo(t)[j] = CountsUpTo(s)[j]
  BY CountsAppend
<1>3. Counts(s) = CountsUpTo(s)[N]
  BY DEF Counts
<1> HIDE DEF t, N
<1>4. (N + 1) - 1 = N /\ N \in 0 .. N /\ N + 1 \in 1 .. N + 1
  BY <1>1
<1>5. CountsUpTo(t)[N] = Counts(s)
  BY <1>2, <1>3, <1>4
<1>6. ASSUME NEW j \in 1 .. N
      PROVE  j \in 1 .. N + 1 /\ t[j] = s[j] /\ CountsUpTo(t)[j - 1] = CountsUpTo(s)[j - 1]
  <2>1. j - 1 \in 0 .. N
    BY <1>1
  <2> QED
    BY <1>1, <1>2, <2>1
<1>7. ASSUME IsBound(t, n, k)
      PROVE  IsBound(s, n, k) \/ (n \in ToSet(run.names) /\ Counts(s) <= k)
  <2>1. PICK j \in 1 .. N + 1 : n \in ToSet(t[j].names) /\ CountsUpTo(t)[j - 1] <= k
    BY <1>1, <1>7 DEF IsBound
  <2>2. CASE j = N + 1
    BY <1>1, <1>4, <1>5, <2>1, <2>2
  <2>3. CASE j # N + 1
    <3>1. j \in 1 .. N
      BY <1>1, <2>3
    <3> QED
      BY <1>6, <2>1, <3>1 DEF IsBound, N
  <2> QED
    BY <2>2, <2>3
<1>8. ASSUME IsBound(s, n, k) PROVE IsBound(t, n, k)
  <2>1. PICK j \in 1 .. N : n \in ToSet(s[j].names) /\ CountsUpTo(s)[j - 1] <= k
    BY <1>8 DEF IsBound, N
  <2> QED
    BY <1>1, <1>6, <2>1 DEF IsBound
<1>9. ASSUME n \in ToSet(run.names), Counts(s) <= k PROVE IsBound(t, n, k)
  <2>1. n \in ToSet(t[N + 1].names) /\ CountsUpTo(t)[(N + 1) - 1] <= k
    BY <1>1, <1>4, <1>5, <1>9
  <2> QED
    BY <1>1, <1>4, <2>1 DEF IsBound
<1> QED
  BY <1>7, <1>8, <1>9 DEF t

LEMMA EmptyToSet == ToSet(<<>>) = {}
BY DEF ToSet

\* What the current run adds.
LEMMA WholeFacts ==
  ASSUME NEW Char, NEW Styles, NEW Name, NEW b \in BuilderType(Char, Styles, Name)
  PROVE  /\ Counts(b.runs) \in Nat /\ VisibleIn(b.current.text) \in Nat
         /\ Counts(Whole(b)) = Counts(b.runs) + VisibleIn(b.current.text)
         /\ \A n, k : k \in Nat =>
              (IsBound(Whole(b), n, k)
               <=> IsBound(b.runs, n, k) \/ (n \in ToSet(b.current.names) /\ Counts(b.runs) <= k))
<1> DEFINE I == Item(Char, Styles, Name)
           s == b.runs
           run == b.current
           chars == run.text
<1>1. s \in Seq(I) /\ run \in I
  BY DEF BuilderType
<1>2. chars \in Seq(Char)
  BY <1>1 DEF Item
<1>3. Whole(b) = Append(s, run)
  BY DEF Whole
<1> HIDE DEF s, run
<1>4. Counts(s) \in Nat /\ Counts(Append(s, run)) = Counts(s) + VisibleIn(run.text)
  BY <1>1, CountsAppend
<1>5. \A n, k : k \in Nat =>
         (IsBound(Append(s, run), n, k)
          <=> IsBound(s, n, k) \/ (n \in ToSet(run.names) /\ Counts(s) <= k))
  BY <1>1, BoundAppend
<1> HIDE DEF chars
<1>6. Len(chars) \in 0 .. Len(chars)
  BY <1>2, LenProperties
<1>7. VisibleIn(chars) \in Nat
  BY <1>2, <1>6, CountFacts DEF VisibleIn
<1> QED
  BY <1>3, <1>4, <1>5, <1>7 DEF s, run, chars

LEMMA FlushNames ==
  ASSUME NEW Char, NEW Styles, NEW Name, Plain \in Styles,
         NEW b \in BuilderType(Char, Styles, Name), NamesAreSeen(b)
  PROVE  /\ Counts(FlushCurrent(b).runs) = Counts(Whole(b))
         /\ \A n, k : k \in Nat =>
              (IsBound(Whole(b), n, k) <=> IsBound(FlushCurrent(b).runs, n, k))
<1>1. FlushCurrent(b).runs = IF b.current.text = <<>> THEN b.runs ELSE Whole(b)
  BY FlushCurrentOK
<1>2. CASE b.current.text = <<>>
  <2>1. VisibleIn(b.current.text) = 0
    BY <1>2, CountEmpty
  <2>2. ToSet(b.current.names) = {}
    BY <2>1, EmptyToSet DEF NamesAreSeen
  <2>3. FlushCurrent(b).runs = b.runs
    BY <1>1, <1>2
  <2>4. /\ Counts(b.runs) \in Nat
        /\ Counts(Whole(b)) = Counts(b.runs) + 0
        /\ \A n, k : k \in Nat => (IsBound(Whole(b), n, k) <=> IsBound(b.runs, n, k))
    BY <2>1, <2>2, WholeFacts
  <2> QED
    BY <2>3, <2>4
<1>3. CASE b.current.text # <<>>
  BY <1>1, <1>3
<1> QED
  BY <1>2, <1>3

LEMMA OpenNames ==
  ASSUME NEW Char, NEW Styles, NEW Name, Plain \in Styles,
         NEW b \in BuilderType(Char, Styles, Name), NamesAreSeen(b), NEW style \in Styles
  PROVE  /\ NamesAreSeen(OpenRun(b, style))
         /\ Counts(Whole(OpenRun(b, style))) = Counts(Whole(b))
         /\ \A n, k : k \in Nat /\ IsBound(Whole(b), n, k) => IsBound(Whole(OpenRun(b, style)), n, k)
<1> DEFINE f == FlushCurrent(b)
           o == OpenRun(b, style)
<1>1. CASE RunMatches(b, style)
  BY <1>1 DEF OpenRun
<1>2. CASE ~RunMatches(b, style)
  <2>1. /\ Counts(f.runs) = Counts(Whole(b))
        /\ \A n, k : k \in Nat => (IsBound(Whole(b), n, k) <=> IsBound(f.runs, n, k))
    BY FlushNames
  <2>2. f \in BuilderType(Char, Styles, Name) /\ o \in BuilderType(Char, Styles, Name)
    BY FlushCurrentOK, OpenRunOK
  <2>3. o = [f EXCEPT !.current = NewRun(style)]
    BY <1>2 DEF OpenRun
  <2> HIDE DEF f, o
  <2>4. o.runs = f.runs /\ o.current = NewRun(style)
    BY <2>2, <2>3 DEF BuilderType
  <2>5. o.current.names = <<>> /\ VisibleIn(o.current.text) = 0
    BY <2>4, CountEmpty DEF NewRun
  <2>6. /\ Counts(o.runs) \in Nat
        /\ Counts(Whole(o)) = Counts(o.runs) + 0
        /\ \A n, k : k \in Nat /\ IsBound(o.runs, n, k) => IsBound(Whole(o), n, k)
    BY <2>2, <2>5, WholeFacts
  <2>7. NamesAreSeen(o)
    BY <2>5 DEF NamesAreSeen
  <2> QED
    BY <2>1, <2>4, <2>6, <2>7 DEF o
<1> QED
  BY <1>1, <1>2

LEMMA PushCharacterNames ==
  ASSUME NEW Char, NEW Styles, NEW Name, Space \in Char, Plain \in Styles,
         NEW b \in BuilderType(Char, Styles, Name), NamesAreSeen(b),
         NEW c \in Char, NEW style \in Styles
  PROVE  /\ NamesAreSeen(PushCharacter(b, c, style))
         /\ Counts(Whole(PushCharacter(b, c, style))) = Counts(Whole(b)) + One(c)
         /\ \A n, k : k \in Nat /\ IsKept(b, n, k) => IsKept(PushCharacter(b, c, style), n, k)
<1> DEFINE I == Item(Char, Styles, Name)
           B == BuilderType(Char, Styles, Name)
           o == OpenRun(b, style)
           after == PushCharacter(b, c, style)
<1>1. o \in B /\ o.waiting = b.waiting
  BY OpenRunOK
<1>2. /\ NamesAreSeen(o) /\ Counts(Whole(o)) = Counts(Whole(b))
      /\ \A n, k : k \in Nat /\ IsBound(Whole(b), n, k) => IsBound(Whole(o), n, k)
  BY OpenNames
<1>3. o.current \in I /\ o.runs \in Seq(I) /\ o.waiting \in Seq(Name)
  BY <1>1 DEF BuilderType
<1>4. o.current.text \in Seq(Char) /\ o.current.names \in Seq(Name)
  BY <1>3 DEF Item
<1> HIDE DEF o
<1>5. /\ Counts(o.runs) \in Nat /\ VisibleIn(o.current.text) \in Nat
      /\ Counts(Whole(o)) = Counts(o.runs) + VisibleIn(o.current.text)
      /\ \A n, k : k \in Nat =>
           (IsBound(Whole(o), n, k)
            <=> IsBound(o.runs, n, k) \/ (n \in ToSet(o.current.names) /\ Counts(o.runs) <= k))
  BY <1>1, WholeFacts
<1>6. One(c) \in Nat /\ (Visible(c) => One(c) = 1) /\ (~Visible(c) => One(c) = 0)
  BY DEF One
<1>7. CASE Visible(c)
  <2> DEFINE chars == Append(o.current.text, c)
             names == AppendUnique(o.current.names, b.waiting)
             run == [o.current EXCEPT !.text = chars, !.names = names]
  <2>1. after = [o EXCEPT !.current = run, !.spaced = FALSE, !.waiting = <<>>]
    BY <1>7 DEF PushCharacter, PushVisible, Bind, o
  <2>2. chars \in Seq(Char) /\ VisibleIn(chars) = VisibleIn(o.current.text) + One(c)
    BY <1>4, CountAppend
  <2>3. names \in Seq(Name) /\ ToSet(names) = ToSet(o.current.names) \cup ToSet(b.waiting)
    BY <1>1, <1>3, <1>4, UniqueNames
  <2> HIDE DEF names, after, chars
  <2>4. <<>> \in Seq(Name)
    OBVIOUS
  <2>5. run \in I /\ run.text = chars /\ run.names = names
    BY <1>3, <2>2, <2>3 DEF Item
  <2> HIDE DEF run
  <2>6. after \in B /\ after.runs = o.runs /\ after.current = run /\ after.waiting = <<>>
    BY <1>1, <2>1, <2>4, <2>5 DEF BuilderType
  <2>7. /\ Counts(Whole(after)) = Counts(o.runs) + VisibleIn(chars)
        /\ \A n, k : k \in Nat =>
             (IsBound(Whole(after), n, k)
              <=> IsBound(o.runs, n, k) \/ (n \in ToSet(names) /\ Counts(o.runs) <= k))
    BY <2>5, <2>6, WholeFacts
  <2>8. NamesAreSeen(after)
    BY <1>5, <1>6, <1>7, <2>2, <2>5, <2>6 DEF NamesAreSeen
  <2>9. Counts(Whole(after)) = Counts(Whole(b)) + One(c)
    BY <1>2, <1>5, <1>6, <2>2, <2>7
  <2>10. ASSUME NEW n, NEW k \in Nat, IsKept(b, n, k) PROVE IsKept(after, n, k)
    <3>1. CASE n \in ToSet(b.waiting) /\ Counts(Whole(b)) <= k
      <4>1. n \in ToSet(names) /\ Counts(o.runs) <= k
        BY <1>2, <1>5, <2>3, <3>1
      <4> QED
        BY <2>7, <4>1 DEF IsKept
    <3>2. CASE IsBound(Whole(b), n, k)
      <4>1. IsBound(Whole(o), n, k)
        BY <1>2, <3>2
      <4>2. IsBound(o.runs, n, k) \/ (n \in ToSet(o.current.names) /\ Counts(o.runs) <= k)
        BY <1>5, <4>1
      <4> QED
        BY <2>3, <2>7, <4>2 DEF IsKept
    <3> QED
      BY <2>10, <3>1, <3>2 DEF IsKept
  <2> QED
    BY <2>8, <2>9, <2>10 DEF after
<1>8. CASE ~Visible(c) /\ b.spaced
  <2>1. after = b /\ One(c) = 0
    BY <1>6, <1>8 DEF PushCharacter
  <2>2. Counts(Whole(b)) \in Nat
    BY WholeFacts
  <2> QED
    BY <2>1, <2>2
<1>9. CASE ~Visible(c) /\ ~b.spaced
  <2> DEFINE chars == Append(o.current.text, Space)
             run == [o.current EXCEPT !.text = chars]
  <2>1. after = [o EXCEPT !.current = run, !.spaced = TRUE]
    BY <1>9 DEF PushCharacter, PushSpace, o
  <2>2. c = Space /\ One(c) = 0
    BY <1>6, <1>9 DEF Visible
  <2>3. chars \in Seq(Char) /\ VisibleIn(chars) = VisibleIn(o.current.text) + One(c)
    BY <1>4, <2>2, CountAppend
  <2> HIDE DEF after, chars
  <2>4. run \in I /\ run.text = chars /\ run.names = o.current.names
    BY <1>3, <2>3 DEF Item
  <2> HIDE DEF run
  <2>5. after \in B /\ after.runs = o.runs /\ after.current = run /\ after.waiting = o.waiting
    BY <1>1, <2>1, <2>4 DEF BuilderType
  <2>6. /\ Counts(Whole(after)) = Counts(o.runs) + VisibleIn(chars)
        /\ \A n, k : k \in Nat =>
             (IsBound(Whole(after), n, k)
              <=> IsBound(o.runs, n, k) \/ (n \in ToSet(o.current.names) /\ Counts(o.runs) <= k))
    BY <2>4, <2>5, WholeFacts
  <2>7. NamesAreSeen(after)
    BY <1>2, <1>5, <2>2, <2>3, <2>4, <2>5 DEF NamesAreSeen
  <2>8. Counts(Whole(after)) = Counts(Whole(b)) + One(c) /\ Counts(Whole(after)) = Counts(Whole(b))
    BY <1>2, <1>5, <2>2, <2>3, <2>6
  <2>9. ASSUME NEW n, NEW k \in Nat, IsKept(b, n, k) PROVE IsKept(after, n, k)
    <3>1. CASE n \in ToSet(b.waiting) /\ Counts(Whole(b)) <= k
      BY <1>1, <2>5, <2>8, <3>1 DEF IsKept
    <3>2. CASE IsBound(Whole(b), n, k)
      BY <1>2, <1>5, <2>6, <3>2 DEF IsKept
    <3> QED
      BY <2>9, <3>1, <3>2 DEF IsKept
  <2> QED
    BY <2>7, <2>8, <2>9 DEF after
<1> QED
  BY <1>7, <1>8, <1>9

LEMMA TakeNamesNames ==
  ASSUME NEW Char, NEW Styles, NEW Name, NEW b \in BuilderType(Char, Styles, Name), NamesAreSeen(b),
         NEW names \in Seq(Name)
  PROVE  /\ NamesAreSeen(TakeNames(b, names))
         /\ Counts(Whole(TakeNames(b, names))) = Counts(Whole(b))
         /\ \A n, k : k \in Nat /\ IsKept(b, n, k) => IsKept(TakeNames(b, names), n, k)
         /\ \A n, k : n \in ToSet(names) /\ Counts(Whole(b)) <= k => IsKept(TakeNames(b, names), n, k)
<1> DEFINE all == AppendUnique(b.waiting, names)
           t == TakeNames(b, names)
<1>1. b.waiting \in Seq(Name)
  BY DEF BuilderType
<1>2. ToSet(all) = ToSet(b.waiting) \cup ToSet(names)
  BY <1>1, UniqueNames
<1>3. t = [b EXCEPT !.waiting = all]
  BY DEF TakeNames
<1> HIDE DEF all, t
<1>4. t.runs = b.runs /\ t.current = b.current /\ t.waiting = all
  BY <1>3 DEF BuilderType
<1>5. Whole(t) = Whole(b)
  BY <1>4 DEF Whole
<1> QED
  BY <1>2, <1>4, <1>5 DEF NamesAreSeen, IsKept, t

LEMMA PushSegmentNames ==
  ASSUME NEW Char, NEW Styles, NEW Name, Space \in Char, Plain \in Styles,
         NEW b \in Builders(Char, Styles, Name), NamesAreSeen(b),
         NEW segment \in Item(Char, Styles, Name)
  PROVE  /\ NamesAreSeen(PushSegment(b, segment))
         /\ Counts(Whole(PushSegment(b, segment))) = Counts(Whole(b)) + VisibleIn(segment.text)
         /\ \A n, k : k \in Nat /\ IsKept(b, n, k) => IsKept(PushSegment(b, segment), n, k)
         /\ \A n, k : k \in Nat /\ n \in ToSet(segment.names) /\ Counts(Whole(b)) <= k
              => IsKept(PushSegment(b, segment), n, k)
<1> DEFINE chars == segment.text
           names == segment.names
           style == segment.style
           N == Len(chars)
           pushed == PushedUpTo(b, segment)
           t == TakeNames(b, names)
           start == Counts(Whole(b))
           Keeps1(x, y) == \A n, k : k \in Nat /\ IsKept(x, n, k) => IsKept(y, n, k)
           Count(n) == CountUpTo(chars)[n]
           S == {n \in 0 .. N : /\ NamesAreSeen(pushed[n])
                                /\ Counts(Whole(pushed[n])) = start + Count(n)
                                /\ Keeps1(t, pushed[n])}
<1>1. chars \in Seq(Char) /\ style \in Styles /\ names \in Seq(Name)
  BY DEF Item
<1>2. b \in BuilderType(Char, Styles, Name)
  BY DEF Builders
<1>3. /\ NamesAreSeen(t) /\ Counts(Whole(t)) = start /\ Keeps1(b, t)
      /\ \A n, k : n \in ToSet(names) /\ start <= k => IsKept(t, n, k)
  BY <1>1, <1>2, TakeNamesNames
<1>4. /\ pushed[0] = t
      /\ \A n \in 0 .. N : pushed[n] \in Builders(Char, Styles, Name)
      /\ \A n \in 1 .. N : pushed[n] = PushCharacter(pushed[n - 1], chars[n], style)
  BY PushedFacts
<1>5. \A n \in 0 .. N : pushed[n] \in BuilderType(Char, Styles, Name)
  BY <1>4 DEF Builders
<1>6. PushSegment(b, segment) = pushed[N]
  BY DEF PushSegment
<1>7. N \in Nat /\ \A n \in 1 .. N : chars[n] \in Char
  BY <1>1
<1>8. start \in Nat
  BY <1>2, WholeFacts
<1> HIDE DEF pushed, chars, style, names, t, start
<1>9. /\ Count(0) = 0
      /\ \A n \in 0 .. N : Count(n) \in Nat
      /\ \A n \in 1 .. N : Count(n) = Count(n - 1) + One(chars[n])
  BY <1>1, CountFacts
<1>10. VisibleIn(chars) = Count(N)
  BY DEF VisibleIn
<1> HIDE DEF Count, N
<1>11. 0 \in S
  BY <1>3, <1>4, <1>7, <1>8, <1>9
<1>12. ASSUME NEW n \in 1 .. N, n - 1 \in S PROVE n \in S
  <2> DEFINE before == pushed[n - 1]
             c == chars[n]
             after == PushCharacter(before, c, style)
  <2>1. n \in 0 .. N /\ n - 1 \in 0 .. N /\ c \in Char
    BY <1>7
  <2>2. /\ before \in BuilderType(Char, Styles, Name) /\ NamesAreSeen(before)
        /\ Counts(Whole(before)) = start + Count(n - 1)
    BY <1>5, <1>12, <2>1
  <2>3. Keeps1(t, before)
    BY <1>12
  <2>4. pushed[n] = after
    BY <1>4
  <2> HIDE DEF before, c
  <2>5. /\ NamesAreSeen(after)
        /\ Counts(Whole(after)) = Counts(Whole(before)) + One(c)
        /\ Keeps1(before, after)
    BY <1>1, <2>1, <2>2, PushCharacterNames
  <2> HIDE DEF after
  <2>6. Keeps1(t, after)
    BY <2>3, <2>5
  <2>7. One(c) \in Nat /\ Count(n) = Count(n - 1) + One(c) /\ Count(n - 1) \in Nat
    BY <1>9, <2>1 DEF One, c
  <2>8. Counts(Whole(after)) = start + Count(n)
    BY <1>8, <2>2, <2>5, <2>7
  <2> HIDE DEF Keeps1
  <2> QED
    BY <2>1, <2>4, <2>5, <2>6, <2>8
<1> HIDE DEF S
<1>13. 0 .. N \subseteq S
  BY <1>7, <1>11, <1>12, Induction
<1> HIDE DEF Keeps1
<1>14. /\ NamesAreSeen(pushed[N])
       /\ Counts(Whole(pushed[N])) = start + Count(N)
       /\ Keeps1(t, pushed[N])
  BY <1>7, <1>13 DEF S
<1> QED
  BY <1>3, <1>6, <1>10, <1>14 DEF Keeps1, start, chars, names

-----------------------------------------------------------------------------
(* Where names are after all segments.                                     *)

LEMMA NewBuilderNames ==
  ASSUME NEW Char, NEW Styles, NEW Name, Plain \in Styles
  PROVE  NamesAreSeen(NewBuilder) /\ Counts(Whole(NewBuilder)) = 0
<1>1. /\ NewBuilder \in BuilderType(Char, Styles, Name)
      /\ NewBuilder.runs = <<>> /\ NewBuilder.current = NewRun(Plain)
  <2>1. BuilderOK(NewBuilder, <<>>, Char, Styles, Name)
    BY NewBuilderOK
  <2> QED
    BY <2>1 DEF BuilderOK, NewBuilder
<1>2. NewRun(Plain).names = <<>> /\ NewRun(Plain).text = <<>>
  BY DEF NewRun
<1>3. Counts(Whole(NewBuilder)) = 0 + 0
  BY <1>1, <1>2, WholeFacts, CountEmpty, CountsEmpty
<1> QED
  BY <1>1, <1>2, <1>3 DEF NamesAreSeen

\* The builder has counted what the segments have.
LEMMA BuiltCounts ==
  ASSUME NEW Char, NEW Styles, NEW Name, Space \in Char, Plain \in Styles,
         NEW segs \in Seq(Item(Char, Styles, Name))
  PROVE  \A n \in 0 .. Len(segs) :
            /\ NamesAreSeen(BuiltUpTo(segs)[n])
            /\ Counts(Whole(BuiltUpTo(segs)[n])) = CountsUpTo(segs)[n]
<1> DEFINE N == Len(segs)
           built == BuiltUpTo(segs)
           Count(n) == CountsUpTo(segs)[n]
           S == {n \in 0 .. N : NamesAreSeen(built[n]) /\ Counts(Whole(built[n])) = Count(n)}
<1>1. N \in Nat /\ \A n \in 1 .. N : segs[n] \in Item(Char, Styles, Name)
  OBVIOUS
<1>2. /\ built[0] = NewBuilder
      /\ \A n \in 0 .. N : built[n] \in Builders(Char, Styles, Name)
      /\ \A n \in 1 .. N : built[n] = PushSegment(built[n - 1], segs[n])
  BY BuiltFacts
<1>3. /\ Count(0) = 0
      /\ \A n \in 1 .. N : Count(n) = Count(n - 1) + VisibleIn(segs[n].text)
  BY CountsFacts
<1> HIDE DEF N, built, Count
<1>4. 0 \in S
  BY <1>1, <1>2, <1>3, NewBuilderNames
<1>5. ASSUME NEW n \in 1 .. N, n - 1 \in S PROVE n \in S
  <2> DEFINE before == built[n - 1]
             segment == segs[n]
             after == PushSegment(before, segment)
  <2>1. n \in 0 .. N /\ n - 1 \in 0 .. N /\ segment \in Item(Char, Styles, Name)
    BY <1>1
  <2>2. /\ before \in Builders(Char, Styles, Name) /\ NamesAreSeen(before)
        /\ Counts(Whole(before)) = Count(n - 1)
    BY <1>2, <1>5, <2>1
  <2>3. built[n] = after /\ Count(n) = Count(n - 1) + VisibleIn(segment.text)
    BY <1>2, <1>3
  <2> HIDE DEF before, segment
  <2>4. NamesAreSeen(after) /\ Counts(Whole(after)) = Counts(Whole(before)) + VisibleIn(segment.text)
    BY <2>1, <2>2, PushSegmentNames
  <2> HIDE DEF after
  <2> QED
    BY <2>1, <2>2, <2>3, <2>4
<1> HIDE DEF S
<1>6. 0 .. N \subseteq S
  BY <1>1, <1>4, <1>5, Induction
<1> QED
  BY <1>6 DEF S, N, built, Count

\* A name is kept from its own segment on.
LEMMA BuiltNames ==
  ASSUME NEW Char, NEW Styles, NEW Name, Space \in Char, Plain \in Styles,
         NEW segs \in Seq(Item(Char, Styles, Name)),
         NEW i \in 1 .. Len(segs), NEW anchor \in ToSet(segs[i].names)
  PROVE  IsKept(BuiltUpTo(segs)[Len(segs)], anchor, VisibleBefore(segs, i))
<1> DEFINE N == Len(segs)
           built == BuiltUpTo(segs)
           k == CountsUpTo(segs)[i - 1]
           S == {n \in 0 .. N : n >= i => IsKept(built[n], anchor, k)}
<1>1. N \in Nat /\ i \in 1 .. N /\ \A n \in 1 .. N : segs[n] \in Item(Char, Styles, Name)
  OBVIOUS
<1>2. /\ \A n \in 0 .. N : built[n] \in Builders(Char, Styles, Name)
      /\ \A n \in 1 .. N : built[n] = PushSegment(built[n - 1], segs[n])
  BY BuiltFacts
<1>3. \A n \in 0 .. N : /\ NamesAreSeen(built[n])
                        /\ Counts(Whole(built[n])) = CountsUpTo(segs)[n]
                        /\ CountsUpTo(segs)[n] \in Nat
  BY BuiltCounts, CountsFacts
<1>4. i - 1 \in 0 .. N
  BY <1>1
<1>5. k \in Nat /\ Counts(Whole(built[i - 1])) = k
  BY <1>3, <1>4
<1> HIDE DEF N, built, k
<1>6. 0 \in S
  BY <1>1
<1>7. ASSUME NEW n \in 1 .. N, n - 1 \in S PROVE n \in S
  <2> DEFINE before == built[n - 1]
             segment == segs[n]
             after == PushSegment(before, segment)
  <2>1. n \in 0 .. N /\ n - 1 \in 0 .. N /\ segment \in Item(Char, Styles, Name)
    BY <1>1
  <2>2. before \in Builders(Char, Styles, Name) /\ NamesAreSeen(before) /\ built[n] = after
    BY <1>2, <1>3, <2>1
  <2>3. n = i => anchor \in ToSet(segment.names) /\ Counts(Whole(before)) = k
    BY <1>5
  <2>4. n > i => IsKept(before, anchor, k)
    BY <1>1, <1>7, <2>1
  <2> HIDE DEF before, segment
  <2>5. /\ IsKept(before, anchor, k) => IsKept(after, anchor, k)
        /\ anchor \in ToSet(segment.names) /\ Counts(Whole(before)) <= k => IsKept(after, anchor, k)
    BY <1>5, <2>1, <2>2, PushSegmentNames
  <2> HIDE DEF after
  <2>6. n >= i => IsKept(after, anchor, k)
    <3>1. CASE n = i
      BY <1>5, <2>3, <2>5, <3>1
    <3>2. CASE n > i
      BY <2>4, <2>5, <3>2
    <3>3. n >= i => n = i \/ n > i
      BY <1>1
    <3> QED
      BY <3>1, <3>2, <3>3
  <2> QED
    BY <2>1, <2>2, <2>6
<1> HIDE DEF S
<1>8. 0 .. N \subseteq S
  BY <1>1, <1>6, <1>7, Induction
<1>9. N \in S /\ N >= i
  BY <1>1, <1>8
<1> QED
  BY <1>9 DEF S, N, built, k, VisibleBefore

\* The space that is dropped at the end moves no name.
LEMMA TrimNames ==
  ASSUME NEW Char, NEW Styles, NEW Name,
         NEW b \in BuilderType(Char, Styles, Name), NamesAreSeen(b)
  PROVE  /\ TrimTrailingSpace(b) \in BuilderType(Char, Styles, Name)
         /\ NamesAreSeen(TrimTrailingSpace(b))
         /\ \A n, k : k \in Nat /\ IsKept(b, n, k) => IsKept(TrimTrailingSpace(b), n, k)
<1> DEFINE chars == b.current.text
           last == Last(chars)
           o == Shorter(b)
           Holds(t, n, k) == IsBound(t.runs, n, k) \/ (n \in ToSet(t.current.names) /\ Counts(t.runs) <= k)
<1>1. CASE chars # <<>> /\ last = Space
  <2>1. /\ o \in BuilderType(Char, Styles, Name) /\ o.runs = b.runs /\ o.waiting = b.waiting
        /\ o.current.names = b.current.names
        /\ chars = Append(o.current.text, last) /\ last \in Char
    BY <1>1, ShorterOK
  <2>2. TrimTrailingSpace(b) = o
    BY <1>1 DEF TrimTrailingSpace, Shorter
  <2> HIDE DEF o, last
  <2>3. o.current.text \in Seq(Char)
    BY <2>1 DEF BuilderType, Item
  <2>4. /\ VisibleIn(o.current.text) \in Nat
        /\ VisibleIn(chars) = VisibleIn(o.current.text) + One(last)
    BY <2>1, <2>3, CountAppend
  <2>5. One(last) = 0
    BY <1>1 DEF One, Visible
  <2>6. VisibleIn(chars) = VisibleIn(o.current.text)
    BY <2>4, <2>5
  <2>7. /\ Counts(Whole(b)) = Counts(b.runs) + VisibleIn(chars)
        /\ \A n, k : k \in Nat => (IsBound(Whole(b), n, k) <=> Holds(b, n, k))
    BY WholeFacts
  <2>8. /\ Counts(Whole(o)) = Counts(o.runs) + VisibleIn(o.current.text)
        /\ \A n, k : k \in Nat => (IsBound(Whole(o), n, k) <=> Holds(o, n, k))
    BY <2>1, WholeFacts
  <2>9. \A n, k : Holds(b, n, k) <=> Holds(o, n, k)
    BY <2>1
  <2> HIDE DEF Holds
  <2>10. \A n, k : k \in Nat /\ IsKept(b, n, k) => IsKept(o, n, k)
    BY <2>1, <2>6, <2>7, <2>8, <2>9 DEF IsKept
  <2>11. NamesAreSeen(o)
    BY <2>1, <2>6 DEF NamesAreSeen
  <2> QED
    BY <2>1, <2>2, <2>10, <2>11
<1>2. CASE ~(chars # <<>> /\ last = Space)
  BY <1>2 DEF TrimTrailingSpace
<1> QED
  BY <1>1, <1>2

\* Names that still wait go to the last run.
LEMMA AttachNames ==
  ASSUME NEW Char, NEW Styles, NEW Name, Plain \in Styles,
         NEW b \in BuilderType(Char, Styles, Name), NEW n, NEW k \in Nat,
         \/ n \in ToSet(b.waiting) /\ Counts(b.runs) <= k
         \/ IsBound(b.runs, n, k)
  PROVE  IsBound(AttachTrailingAnchors(b), n, k)
<1> DEFINE I == Item(Char, Styles, Name)
           r == b.runs
           N == Len(r)
           a == AttachTrailingAnchors(b)
<1>1. r \in Seq(I) /\ b.waiting \in Seq(Name) /\ N \in Nat
  BY DEF BuilderType
<1>2. CASE b.waiting = <<>>
  BY <1>2, EmptyToSet DEF AttachTrailingAnchors
<1>3. CASE b.waiting # <<>> /\ r = <<>>
  <2> DEFINE none == <<>>
             run == [NewRun(Plain) EXCEPT !.names = b.waiting]
  <2>1. none \in Seq(I) /\ run \in I /\ run.names = b.waiting
    <3>1. run = [text |-> <<>>, style |-> Plain, names |-> b.waiting] /\ <<>> \in Seq(Char)
      BY DEF NewRun
    <3>2. run \in I /\ run.names = b.waiting
      BY <1>1, <3>1 DEF Item
    <3>3. none \in Seq(I)
      OBVIOUS
    <3> QED
      BY <3>2, <3>3
  <2>2. a = Append(none, run) /\ r = none
    BY <1>3 DEF AttachTrailingAnchors
  <2>3. Counts(none) = 0 /\ ~IsBound(none, n, k)
    BY CountsEmpty DEF IsBound
  <2> HIDE DEF none, run, r, a, I
  <2>4. n \in ToSet(run.names) /\ Counts(none) <= k
    BY <2>1, <2>2, <2>3 DEF r
  <2>5. IsBound(Append(none, run), n, k)
    BY <2>1, <2>4, BoundAppend DEF I
  <2> QED
    BY <2>2, <2>5 DEF a
<1>4. CASE b.waiting # <<>> /\ r # <<>>
  <2> DEFINE names == AppendUnique(r[N].names, b.waiting)
             run == [r[N] EXCEPT !.names = names]
  <2>1. N \in 1 .. N /\ r[N] \in I
    BY <1>1, <1>4
  <2>2. r[N].names \in Seq(Name)
    BY <2>1 DEF Item
  <2>3. names \in Seq(Name) /\ ToSet(names) = ToSet(r[N].names) \cup ToSet(b.waiting)
    BY <1>1, <2>2, UniqueNames
  <2>4. a = [r EXCEPT ![N] = run]
    BY <1>4 DEF AttachTrailingAnchors
  <2> HIDE DEF names
  <2>5. run \in I /\ run.text = r[N].text /\ run.names = names
    BY <2>1, <2>3 DEF Item
  <2> HIDE DEF run, a, I
  <2>6. /\ a \in Seq(I) /\ Len(a) = N
        /\ \A i \in 1 .. N : a[i] = IF i = N THEN run ELSE r[i]
    BY <1>1, <2>1, <2>4, <2>5
  <2>7. \A i \in 1 .. N : a[i].text = r[i].text /\ ToSet(r[i].names) \subseteq ToSet(a[i].names)
    BY <2>3, <2>5, <2>6
  <2> HIDE DEF r
  <2>8. Len(r) = N
    BY DEF N
  <2> HIDE DEF N
  <2>9. ASSUME NEW j \in 0 .. N PROVE CountsUpTo(a)[j] = CountsUpTo(r)[j]
    <3>1. j \in 0 .. Len(a) /\ j <= Len(r) /\ \A i \in 1 .. j : a[i].text = r[i].text
      BY <1>1, <2>6, <2>7, <2>8
    <3> QED
      BY <1>1, <2>6, <3>1, CountsAlike DEF I
  <2>10. CASE IsBound(r, n, k)
    <3>1. PICK j \in 1 .. N : n \in ToSet(r[j].names) /\ CountsUpTo(r)[j - 1] <= k
      BY <2>8, <2>10 DEF IsBound
    <3>2. j - 1 \in 0 .. N
      BY <1>1
    <3>3. n \in ToSet(a[j].names) /\ CountsUpTo(a)[j - 1] <= k
      BY <2>7, <2>9, <3>1, <3>2
    <3> QED
      BY <2>6, <3>3 DEF IsBound, a
  <2>11. CASE n \in ToSet(b.waiting) /\ Counts(r) <= k
    <3>1. n \in ToSet(a[N].names)
      BY <2>1, <2>3, <2>5, <2>6, <2>11
    <3>2. N - 1 \in 0 .. N /\ N \in 1 .. Len(r)
      BY <1>1, <2>1, <2>8
    <3>3. CountsUpTo(r)[N] = CountsUpTo(r)[N - 1] + VisibleIn(r[N].text)
      BY <1>1, <3>2, CountsFacts DEF I
    <3>4. CountsUpTo(r)[N - 1] \in Nat
      BY <1>1, <2>8, <3>2, CountsFacts DEF I
    <3>5. VisibleIn(r[N].text) \in Nat
      <4> DEFINE chars == r[N].text
      <4>1. chars \in Seq(Char)
        BY <2>1 DEF I, Item
      <4> HIDE DEF chars
      <4>2. Len(chars) \in 0 .. Len(chars)
        BY <4>1, LenProperties
      <4>3. VisibleIn(chars) \in Nat
        BY <4>1, <4>2, CountFacts DEF VisibleIn
      <4> QED
        BY <4>3 DEF chars
    <3>6. Counts(r) = CountsUpTo(r)[N]
      BY <2>8 DEF Counts
    <3>7. CountsUpTo(r)[N - 1] <= k
      BY <2>11, <3>3, <3>4, <3>5, <3>6
    <3>8. CountsUpTo(a)[N - 1] <= k
      BY <2>9, <3>2, <3>7
    <3> QED
      BY <2>1, <2>6, <3>1, <3>8 DEF IsBound, a
  <2> QED
    BY <2>10, <2>11 DEF r
<1> QED
  BY <1>2, <1>3, <1>4

LEMMA FinishNames ==
  ASSUME NEW Char, NEW Styles, NEW Name, Plain \in Styles,
         NEW b \in BuilderType(Char, Styles, Name), NamesAreSeen(b),
         NEW n, NEW k \in Nat, IsKept(b, n, k)
  PROVE  IsBound(Finish(b), n, k)
<1> DEFINE t == TrimTrailingSpace(b)
           f == FlushCurrent(t)
<1>1. t \in BuilderType(Char, Styles, Name) /\ NamesAreSeen(t) /\ IsKept(t, n, k)
  BY TrimNames
<1>2. Finish(b) = AttachTrailingAnchors(f)
  BY DEF Finish
<1> HIDE DEF t
<1>3. f \in BuilderType(Char, Styles, Name) /\ f.waiting = t.waiting
  BY <1>1, FlushCurrentOK
<1>4. /\ Counts(f.runs) = Counts(Whole(t))
      /\ IsBound(Whole(t), n, k) <=> IsBound(f.runs, n, k)
  BY <1>1, FlushNames
<1> HIDE DEF f
<1>5. \/ n \in ToSet(f.waiting) /\ Counts(f.runs) <= k
      \/ IsBound(f.runs, n, k)
  BY <1>1, <1>3, <1>4 DEF IsKept
<1>6. IsBound(AttachTrailingAnchors(f), n, k)
  BY <1>3, <1>5, AttachNames
<1> QED
  BY <1>2, <1>6

(***************************************************************************)
(* RunBuilder: every anchor name of a block is bound to a run, and no text *)
(* that stands behind the name comes before the run.                       *)
(***************************************************************************)
THEOREM NamesAreBound ==
  ASSUME NEW Char, NEW Styles, NEW Name, Space \in Char, Plain \in Styles,
         NEW segs \in Seq(Item(Char, Styles, Name))
  PROVE  NamesFindTheirText(CollapseSegments(segs), segs)
<1> DEFINE runs == CollapseSegments(segs)
           b == BuiltUpTo(segs)[Len(segs)]
<1>1. Len(segs) \in 0 .. Len(segs) /\ DOMAIN segs = 1 .. Len(segs)
  BY LenProperties
<1>2. b \in BuilderType(Char, Styles, Name) /\ NamesAreSeen(b)
  BY <1>1, BuiltFacts, BuiltCounts DEF Builders
<1>3. runs = Finish(b)
  BY DEF CollapseSegments
<1>4. DOMAIN runs = 1 .. Len(runs)
  <2>1. BuilderOK(b, StyledUpTo(segs)[Len(segs)], Char, Styles, Name)
    BY <1>1, BuiltOK
  <2>2. Finish(b) \in Seq(Item(Char, Styles, Name))
    BY <2>1, FinishOK
  <2> HIDE DEF b, runs
  <2> QED
    BY <1>3, <2>2, LenProperties
<1>5. ASSUME NEW i \in 1 .. Len(segs), NEW anchor \in ToSet(segs[i].names)
      PROVE  IsBound(runs, anchor, VisibleBefore(segs, i))
  <2> DEFINE k == VisibleBefore(segs, i)
  <2>1. i - 1 \in 0 .. Len(segs)
    BY <1>1
  <2>2. k \in Nat
    BY <2>1, CountsFacts DEF VisibleBefore
  <2>3. IsKept(b, anchor, k)
    BY BuiltNames
  <2> HIDE DEF b, runs, k
  <2>4. IsBound(Finish(b), anchor, k)
    BY <1>2, <2>2, <2>3, FinishNames
  <2> QED
    BY <1>3, <2>4 DEF k
<1> HIDE DEF runs
<1> QED
  BY <1>1, <1>4, <1>5 DEF NamesFindTheirText, IsBound, VisibleBefore, runs

-----------------------------------------------------------------------------
(* Bounds.                                                                 *)

Bounded(S) == \E N \in Nat : S \in SUBSET (0 .. N)

LEMMA BoundedUnion ==
  ASSUME NEW N \in Nat, NEW sets, \A i \in 1 .. N : Bounded(sets[i])
  PROVE  Bounded(UNION {sets[i] : i \in 1 .. N})
<1> DEFINE upto(n) == UNION {sets[i] : i \in 1 .. n}
           S == {n \in 0 .. N : Bounded(upto(n))}
<1>1. 0 \in S
  <2>1. upto(0) = {}
    OBVIOUS
  <2> QED
    BY <2>1 DEF Bounded
<1>2. ASSUME NEW n \in 1 .. N, n - 1 \in S PROVE n \in S
  <2>1. PICK a \in Nat : upto(n - 1) \in SUBSET (0 .. a)
    BY <1>2 DEF Bounded
  <2>2. PICK b \in Nat : sets[n] \in SUBSET (0 .. b)
    BY DEF Bounded
  <2>3. upto(n) = upto(n - 1) \cup sets[n]
    <3>1. 1 .. n = (1 .. n - 1) \cup {n}
      OBVIOUS
    <3> QED
      BY <3>1
  <2> DEFINE c == IF a <= b THEN b ELSE a
  <2>4. c \in Nat /\ 0 .. a \subseteq 0 .. c /\ 0 .. b \subseteq 0 .. c
    OBVIOUS
  <2>5. upto(n) \in SUBSET (0 .. c)
    BY <2>1, <2>2, <2>3, <2>4
  <2> HIDE DEF upto, c
  <2>6. Bounded(upto(n)) /\ n \in 0 .. N
    BY <2>4, <2>5 DEF Bounded
  <2> QED
    BY <2>6
<1> HIDE DEF S
<1>3. 0 .. N \subseteq S
  BY <1>1, <1>2, Induction
<1>4. N \in S
  BY <1>3
<1> QED
  BY <1>4 DEF S

LEMMA BoundedOne ==
  /\ \A n \in Nat : Bounded({n})
  /\ Bounded({})
  /\ \A S, T : Bounded(S) /\ T \subseteq S => Bounded(T)
<1>1. ASSUME NEW n \in Nat PROVE Bounded({n})
  <2>1. {n} \in SUBSET (0 .. n)
    OBVIOUS
  <2> QED
    BY <2>1 DEF Bounded
<1>2. Bounded({})
  BY DEF Bounded
<1>3. ASSUME NEW S, NEW T, Bounded(S), T \subseteq S PROVE Bounded(T)
  BY <1>3 DEF Bounded
<1> QED
  BY <1>1, <1>2, <1>3

LEMMA BoundedBoth ==
  ASSUME NEW S, NEW T, Bounded(S), Bounded(T)
  PROVE  Bounded(S \cup T)
<1>1. PICK a \in Nat : S \in SUBSET (0 .. a)
  BY DEF Bounded
<1>2. PICK b \in Nat : T \in SUBSET (0 .. b)
  BY DEF Bounded
<1> DEFINE c == IF a <= b THEN b ELSE a
<1>3. c \in Nat /\ 0 .. a \subseteq 0 .. c /\ 0 .. b \subseteq 0 .. c
  OBVIOUS
<1>4. S \cup T \in SUBSET (0 .. c)
  BY <1>1, <1>2, <1>3
<1> QED
  BY <1>3, <1>4 DEF Bounded

\* The greatest of some numbers.
LEMMA GreatestOfBounded ==
  ASSUME NEW S, Bounded(S), S # {}
  PROVE  Max(S) \in S /\ Max(S) \in Nat /\ \A y \in S : y <= Max(S)
<1> DEFINE greatest == Max(S)
<1>1. PICK N \in Nat : S \in SUBSET (0 .. N)
  BY DEF Bounded
<1>2. greatest \in S /\ \A y \in S : y <= greatest
  BY <1>1, GreatestNumber
<1> HIDE DEF greatest
<1>3. greatest \in Nat
  BY <1>1, <1>2
<1> QED
  BY <1>2, <1>3 DEF greatest

\* What is measured of the members of a sequence.
LEMMA BoundedNumbers ==
  ASSUME NEW N \in Nat, NEW f, \A i \in 1 .. N : f[i] \in Nat
  PROVE  Bounded({f[i] : i \in 1 .. N})
<1> DEFINE S == {n \in 0 .. N : Bounded({f[i] : i \in 1 .. n})}
<1>1. 0 \in S
  <2>1. {f[i] : i \in 1 .. 0} = {}
    OBVIOUS
  <2> QED
    BY <2>1, BoundedOne
<1>2. ASSUME NEW n \in 1 .. N, n - 1 \in S PROVE n \in S
  <2>1. {f[i] : i \in 1 .. n} = {f[i] : i \in 1 .. n - 1} \cup {f[n]}
    OBVIOUS
  <2>2. Bounded({f[n]}) /\ Bounded({f[i] : i \in 1 .. n - 1})
    BY <1>2, BoundedOne
  <2>3. Bounded({f[i] : i \in 1 .. n - 1} \cup {f[n]})
    BY <2>2, BoundedBoth
  <2> QED
    BY <2>1, <2>3
<1> HIDE DEF S
<1>3. 0 .. N \subseteq S
  BY <1>1, <1>2, Induction
<1>4. N \in S
  BY <1>3
<1> QED
  BY <1>4 DEF S

-----------------------------------------------------------------------------
(* Rows and the characters on them.                                        *)

Holds(row, c) == \E j \in 1 .. Len(row) : row[j].char = c

\* A row of rs that is not wider than w shows c.
Shows(rs, w, c) == \E i \in 1 .. Len(rs) : Columns(rs[i]) <= w /\ Holds(rs[i], c)

\* The cells that layout makes itself are among the cells.
Drawable(Cell) ==
  /\ Blank \in Cell /\ [Blank EXCEPT !.char = Ink] \in Cell
  /\ \A cell \in Cell : [Blank EXCEPT !.char = cell.char] \in Cell

LEMMA HoldsConcat ==
  ASSUME NEW Cell, NEW s \in Seq(Cell), NEW t \in Seq(Cell), NEW c
  PROVE  Holds(s \o t, c) <=> Holds(s, c) \/ Holds(t, c)
<1>1. /\ Len(s) \in Nat /\ Len(t) \in Nat /\ Len(s \o t) = Len(s) + Len(t)
      /\ \A i \in 1 .. Len(s) : (s \o t)[i] = s[i]
      /\ \A i \in 1 .. Len(t) : (s \o t)[Len(s) + i] = t[i]
  OBVIOUS
<1>2. ASSUME Holds(s, c) PROVE Holds(s \o t, c)
  <2>1. PICK j \in 1 .. Len(s) : s[j].char = c
    BY <1>2 DEF Holds
  <2>2. j \in 1 .. Len(s \o t) /\ (s \o t)[j].char = c
    BY <1>1, <2>1
  <2> QED
    BY <2>2 DEF Holds
<1>3. ASSUME Holds(t, c) PROVE Holds(s \o t, c)
  <2>1. PICK j \in 1 .. Len(t) : t[j].char = c
    BY <1>3 DEF Holds
  <2>2. Len(s) + j \in 1 .. Len(s \o t) /\ (s \o t)[Len(s) + j].char = c
    BY <1>1, <2>1
  <2> QED
    BY <2>2 DEF Holds
<1>4. ASSUME Holds(s \o t, c) PROVE Holds(s, c) \/ Holds(t, c)
  <2>1. PICK j \in 1 .. Len(s \o t) : (s \o t)[j].char = c
    BY <1>4 DEF Holds
  <2>2. CASE j <= Len(s)
    <3>1. j \in 1 .. Len(s) /\ s[j].char = c
      BY <1>1, <2>1, <2>2
    <3> QED
      BY <3>1 DEF Holds
  <2>3. CASE ~(j <= Len(s))
    <3>1. j - Len(s) \in 1 .. Len(t) /\ Len(s) + (j - Len(s)) = j
      BY <1>1, <2>1, <2>3
    <3>2. t[j - Len(s)].char = c
      BY <1>1, <2>1, <3>1
    <3> QED
      BY <3>1, <3>2 DEF Holds
  <2> QED
    BY <2>2, <2>3
<1> QED
  BY <1>2, <1>3, <1>4

LEMMA ShowsConcat ==
  ASSUME NEW Cell, NEW rs \in Seq(Seq(Cell)), NEW more \in Seq(Seq(Cell)), NEW w, NEW c,
         Shows(rs, w, c) \/ Shows(more, w, c)
  PROVE  Shows(rs \o more, w, c)
<1>1. /\ Len(rs) \in Nat /\ Len(more) \in Nat /\ Len(rs \o more) = Len(rs) + Len(more)
      /\ \A i \in 1 .. Len(rs) : (rs \o more)[i] = rs[i]
      /\ \A i \in 1 .. Len(more) : (rs \o more)[Len(rs) + i] = more[i]
  OBVIOUS
<1>2. CASE Shows(rs, w, c)
  <2>1. PICK i \in 1 .. Len(rs) : Columns(rs[i]) <= w /\ Holds(rs[i], c)
    BY <1>2 DEF Shows
  <2>2. i \in 1 .. Len(rs \o more) /\ (rs \o more)[i] = rs[i]
    BY <1>1
  <2> QED
    BY <2>1, <2>2 DEF Shows
<1>3. CASE Shows(more, w, c)
  <2>1. PICK i \in 1 .. Len(more) : Columns(more[i]) <= w /\ Holds(more[i], c)
    BY <1>3 DEF Shows
  <2>2. Len(rs) + i \in 1 .. Len(rs \o more) /\ (rs \o more)[Len(rs) + i] = more[i]
    BY <1>1
  <2> QED
    BY <2>1, <2>2 DEF Shows
<1> QED
  BY <1>2, <1>3

LEMMA CellsFacts ==
  ASSUME NEW Cell, NEW x, [Blank EXCEPT !.char = x] \in Cell, NEW n \in Nat
  PROVE  /\ Cells(n, x) \in Seq(Cell) /\ Len(Cells(n, x)) = n
         /\ x \notin Wide \cup ZeroWidth => Columns(Cells(n, x)) = n
<1> DEFINE cell == [Blank EXCEPT !.char = x]
           s == Cells(n, x)
           S == {k \in 0 .. n : ColumnsUpTo(s)[k] = k}
<1>1. cell.char = x
  BY DEF Blank
<1>2. s = [i \in 1 .. n |-> cell]
  BY DEF Cells
<1> HIDE DEF cell, s
<1>3. cell \in Cell
  BY DEF cell
<1>4. s \in Seq(Cell) /\ Len(s) = n /\ \A i \in 1 .. n : s[i] = cell
  BY <1>2, <1>3
<1>5. ASSUME x \notin Wide \cup ZeroWidth PROVE Columns(s) = n
  <2>1. /\ ColumnsUpTo(s)[0] = 0
        /\ \A k \in 1 .. n : ColumnsUpTo(s)[k] = ColumnsUpTo(s)[k - 1] + CharColumns(s[k].char)
    BY <1>4, ColumnsFacts
  <2>2. \A k \in 1 .. n : CharColumns(s[k].char) = 1
    BY <1>1, <1>4, <1>5 DEF CharColumns
  <2>3. 0 \in S
    BY <2>1
  <2>4. \A k \in 1 .. n : k - 1 \in S => k \in S
    BY <2>1, <2>2
  <2> HIDE DEF S
  <2>5. 0 .. n \subseteq S
    BY <2>3, <2>4, Induction
  <2>6. n \in S
    BY <2>5
  <2> QED
    BY <1>4, <2>6 DEF S, Columns
<1> QED
  BY <1>4, <1>5 DEF s

LEMMA SpacesFacts ==
  ASSUME NEW Cell, Drawable(Cell), NEW n \in Nat
  PROVE  /\ Spaces(n) \in Seq(Cell) /\ Len(Spaces(n)) = n /\ Columns(Spaces(n)) = n
         /\ Cells(n, Ink) \in Seq(Cell) /\ Len(Cells(n, Ink)) = n /\ Columns(Cells(n, Ink)) = n
<1>1. [Blank EXCEPT !.char = Space] = Blank
  BY DEF Blank
<1>2. [Blank EXCEPT !.char = Space] \in Cell /\ [Blank EXCEPT !.char = Ink] \in Cell
  BY <1>1 DEF Drawable
<1> QED
  BY <1>2, CellsFacts, InkAssumption DEF Spaces

-----------------------------------------------------------------------------
(* Indenting.                                                              *)

LEMMA IndentFacts ==
  ASSUME NEW Cell, Drawable(Cell), NEW rs \in Seq(Seq(Cell)), NEW prefix \in Seq(Cell)
  PROVE  /\ Indent(rs, prefix) \in Seq(Seq(Cell))
         /\ Len(Indent(rs, prefix)) = Len(rs)
         /\ \A i \in 1 .. Len(rs) :
               /\ Columns(Indent(rs, prefix)[i]) = Columns(prefix) + Columns(rs[i])
               /\ \A c : Holds(rs[i], c) => Holds(Indent(rs, prefix)[i], c)
<1> DEFINE p(i) == IF i = 1 THEN prefix ELSE Spaces(Columns(prefix))
           out == Indent(rs, prefix)
<1>1. Columns(prefix) \in Nat
  BY ColumnsType
<1>2. \A i \in 1 .. Len(rs) : p(i) \in Seq(Cell) /\ Columns(p(i)) = Columns(prefix)
  BY <1>1, SpacesFacts
<1>3. out = [i \in 1 .. Len(rs) |-> p(i) \o rs[i]]
  BY DEF Indent
<1> HIDE DEF p, out
<1>4. ASSUME NEW i \in 1 .. Len(rs)
      PROVE  /\ p(i) \o rs[i] \in Seq(Cell)
             /\ Columns(p(i) \o rs[i]) = Columns(prefix) + Columns(rs[i])
             /\ \A c : Holds(rs[i], c) => Holds(p(i) \o rs[i], c)
  <2>1. p(i) \in Seq(Cell) /\ rs[i] \in Seq(Cell) /\ Columns(p(i)) = Columns(prefix)
    BY <1>2
  <2>2. Columns(p(i) \o rs[i]) = Columns(p(i)) + Columns(rs[i])
    BY <2>1, ConcatColumns
  <2>3. p(i) \o rs[i] \in Seq(Cell)
    BY <2>1
  <2>4. ASSUME NEW c, Holds(rs[i], c) PROVE Holds(p(i) \o rs[i], c)
    BY <2>1, <2>4, HoldsConcat
  <2> QED
    BY <2>1, <2>2, <2>3, <2>4
<1>5. Len(rs) \in Nat
  OBVIOUS
<1>6. out \in Seq(Seq(Cell)) /\ Len(out) = Len(rs)
  <2>1. \A i \in 1 .. Len(rs) : p(i) \o rs[i] \in Seq(Cell)
    BY <1>4
  <2> QED
    BY <1>3, <1>5, <2>1
<1>7. \A i \in 1 .. Len(rs) : out[i] = p(i) \o rs[i]
  BY <1>3
<1> QED
  BY <1>4, <1>6, <1>7 DEF out

LEMMA ShowsIndent ==
  ASSUME NEW Cell, Drawable(Cell), NEW rs \in Seq(Seq(Cell)), NEW prefix \in Seq(Cell),
         NEW w \in Nat, NEW v, v = w + Columns(prefix), NEW c, Shows(rs, w, c)
  PROVE  Shows(Indent(rs, prefix), v, c)
<1> DEFINE out == Indent(rs, prefix)
<1>1. PICK i \in 1 .. Len(rs) : Columns(rs[i]) <= w /\ Holds(rs[i], c)
  BY DEF Shows
<1>2. /\ Len(out) = Len(rs) /\ Columns(out[i]) = Columns(prefix) + Columns(rs[i])
      /\ Holds(out[i], c)
  BY <1>1, IndentFacts
<1> HIDE DEF out
<1>3. Columns(prefix) \in Nat /\ Columns(rs[i]) \in Nat
  <2>1. rs[i] \in Seq(Cell)
    OBVIOUS
  <2> QED
    BY <2>1, ColumnsType
<1>4. Columns(out[i]) <= v
  BY <1>1, <1>2, <1>3
<1> QED
  BY <1>2, <1>4 DEF Shows, out

\* Wrapping shows every character but spaces, where one of two columns has room.
LEMMA ShowsWrap ==
  ASSUME NEW Cell, NEW cells \in Seq(Cell), NEW w \in Nat, w >= 2, Space \notin Wide \cup ZeroWidth,
         NEW c, c # Space, Holds(cells, c)
  PROVE  Shows(WrapCells(cells, w), w, c)
<1> DEFINE wrapped == WrapCells(cells, w)
<1>1. PICK j \in 1 .. Len(cells) : cells[j].char = c
  BY DEF Holds
<1> DEFINE cell == cells[j]
<1>2. cell \in ToSet(cells) /\ ~IsSpace(cell)
  BY <1>1 DEF ToSet, IsSpace
<1> HIDE DEF cell
<1>3. wrapped \in Seq(Seq(Cell)) /\ \A i \in 1 .. Len(wrapped) : RowFits(wrapped[i], w)
  BY WrapCellsFacts
<1>4. cell \in ToSet(ReadRows(wrapped))
  BY <1>2, VisibleMembers, WrapKeepsText
<1> HIDE DEF wrapped
<1>5. PICK k \in 1 .. Len(wrapped) : cell \in ToSet(wrapped[k])
  BY <1>3, <1>4, ReadMembers
<1>6. wrapped[k] \in Seq(Cell)
  BY <1>3
<1>7. Holds(wrapped[k], c)
  <2>1. PICK i \in 1 .. Len(wrapped[k]) : wrapped[k][i] = cell
    BY <1>5, <1>6 DEF ToSet
  <2> QED
    BY <1>1, <2>1 DEF Holds, cell
<1>8. Columns(wrapped[k]) <= w
  BY <1>3, <1>6, FittingRow
<1> QED
  BY <1>5, <1>7, <1>8 DEF Shows, wrapped

-----------------------------------------------------------------------------
(* A table: its loops, its columns, its records.                           *)

\* The loop that adds widths, step by step.
LEMMA TotalSteps ==
  ASSUME NEW widths, Len(widths) \in Nat
  PROVE  /\ TotalUpTo(widths)[0] = 0
         /\ \A n \in 1 .. Len(widths) : TotalUpTo(widths)[n] = TotalUpTo(widths)[n - 1] + (IF n > 1 THEN ColumnGap ELSE 0) + widths[n]
<1> DEFINE last == Len(widths)
           begin == 0
           Step(n, x) == x + (IF n > 1 THEN ColumnGap ELSE 0) + widths[n]
           Body(k, f) == [n \in 0 .. k |-> IF n = 0 THEN begin ELSE Step(n, f[n - 1])]
           S == {k \in 0 .. last : \E f : f = Body(k, f)}
           loop == TotalUpTo(widths)
<1>1. loop = CHOOSE f : f = Body(last, f)
  BY DEF TotalUpTo
<1>2. last \in Nat
  OBVIOUS
<1> HIDE DEF last, begin, Step, loop
<1>3. 0 \in S
  <2> DEFINE f == [n \in 0 .. 0 |-> begin]
  <2>1. f = Body(0, f)
    OBVIOUS
  <2> HIDE DEF f
  <2> QED
    BY <1>2, <2>1
<1>4. ASSUME NEW k \in 1 .. last, k - 1 \in S PROVE k \in S
  <2>1. k \in 0 .. last /\ k - 1 \in 0 .. last
    BY <1>2
  <2>2. PICK f : f = Body(k - 1, f)
    BY <1>4
  <2>3. \A n \in 0 .. k - 1 : f[n] = IF n = 0 THEN begin ELSE Step(n, f[n - 1])
    BY <2>2
  <2> DEFINE g == [n \in 0 .. k |-> IF n = k THEN Step(k, f[k - 1]) ELSE f[n]]
  <2>4. ASSUME NEW n \in 0 .. k PROVE g[n] = IF n = 0 THEN begin ELSE Step(n, g[n - 1])
    <3>1. CASE n = k
      <4>1. k # 0 /\ k - 1 \in 0 .. k /\ k - 1 # k
        BY <1>2
      <4> QED
        BY <3>1, <4>1
    <3>2. CASE n # k
      <4>1. n \in 0 .. k - 1 /\ g[n] = f[n]
        BY <3>2
      <4>2. CASE n = 0
        BY <2>3, <4>1, <4>2
      <4>3. CASE n # 0
        <5>1. n - 1 \in 0 .. k /\ n - 1 # k
          BY <4>1, <4>3
        <5> QED
          BY <2>3, <4>1, <4>3, <5>1
      <4> QED
        BY <4>2, <4>3
    <3> QED
      BY <3>1, <3>2
  <2>5. g = [n \in 0 .. k |-> g[n]]
    OBVIOUS
  <2> HIDE DEF g
  <2>6. g = Body(k, g)
    BY <2>4, <2>5
  <2> QED
    BY <2>1, <2>6
<1> HIDE DEF S
<1>5. last \in S
  BY <1>2, <1>3, <1>4, Induction
<1>6. loop = Body(last, loop)
  BY <1>1, <1>5 DEF S
<1>7. loop[0] = begin /\ \A n \in 1 .. last : loop[n] = Step(n, loop[n - 1])
  BY <1>2, <1>6
<1> QED
  BY <1>7, Zenon DEF loop, last, begin, Step

\* The loop over the columns of a row.
LEMMA ColumnsRowSteps ==
  ASSUME NEW row, NEW widths, Len(widths) \in Nat
  PROVE  /\ ColumnsRowUpTo(row, widths)[0] = <<>>
         /\ \A n \in 1 .. Len(widths) : ColumnsRowUpTo(row, widths)[n] = ColumnsRowUpTo(row, widths)[n - 1] \o (IF n > 1 THEN Spaces(ColumnGap) ELSE <<>>) \o FitCell(row, n, widths)
<1> DEFINE last == Len(widths)
           begin == <<>>
           Step(n, x) == x \o (IF n > 1 THEN Spaces(ColumnGap) ELSE <<>>) \o FitCell(row, n, widths)
           Body(k, f) == [n \in 0 .. k |-> IF n = 0 THEN begin ELSE Step(n, f[n - 1])]
           S == {k \in 0 .. last : \E f : f = Body(k, f)}
           loop == ColumnsRowUpTo(row, widths)
<1>1. loop = CHOOSE f : f = Body(last, f)
  BY DEF ColumnsRowUpTo
<1>2. last \in Nat
  OBVIOUS
<1> HIDE DEF last, begin, Step, loop
<1>3. 0 \in S
  <2> DEFINE f == [n \in 0 .. 0 |-> begin]
  <2>1. f = Body(0, f)
    OBVIOUS
  <2> HIDE DEF f
  <2> QED
    BY <1>2, <2>1
<1>4. ASSUME NEW k \in 1 .. last, k - 1 \in S PROVE k \in S
  <2>1. k \in 0 .. last /\ k - 1 \in 0 .. last
    BY <1>2
  <2>2. PICK f : f = Body(k - 1, f)
    BY <1>4
  <2>3. \A n \in 0 .. k - 1 : f[n] = IF n = 0 THEN begin ELSE Step(n, f[n - 1])
    BY <2>2
  <2> DEFINE g == [n \in 0 .. k |-> IF n = k THEN Step(k, f[k - 1]) ELSE f[n]]
  <2>4. ASSUME NEW n \in 0 .. k PROVE g[n] = IF n = 0 THEN begin ELSE Step(n, g[n - 1])
    <3>1. CASE n = k
      <4>1. k # 0 /\ k - 1 \in 0 .. k /\ k - 1 # k
        BY <1>2
      <4> QED
        BY <3>1, <4>1
    <3>2. CASE n # k
      <4>1. n \in 0 .. k - 1 /\ g[n] = f[n]
        BY <3>2
      <4>2. CASE n = 0
        BY <2>3, <4>1, <4>2
      <4>3. CASE n # 0
        <5>1. n - 1 \in 0 .. k /\ n - 1 # k
          BY <4>1, <4>3
        <5> QED
          BY <2>3, <4>1, <4>3, <5>1
      <4> QED
        BY <4>2, <4>3
    <3> QED
      BY <3>1, <3>2
  <2>5. g = [n \in 0 .. k |-> g[n]]
    OBVIOUS
  <2> HIDE DEF g
  <2>6. g = Body(k, g)
    BY <2>4, <2>5
  <2> QED
    BY <2>1, <2>6
<1> HIDE DEF S
<1>5. last \in S
  BY <1>2, <1>3, <1>4, Induction
<1>6. loop = Body(last, loop)
  BY <1>1, <1>5 DEF S
<1>7. loop[0] = begin /\ \A n \in 1 .. last : loop[n] = Step(n, loop[n - 1])
  BY <1>2, <1>6
<1> QED
  BY <1>7, Zenon DEF loop, last, begin, Step

\* The loop over the fields of a record.
LEMMA RecordSteps ==
  ASSUME NEW row, NEW labels, NEW w, Len(row) \in Nat
  PROVE  /\ RecordUpTo(row, labels, w)[0] = <<>>
         /\ \A n \in 1 .. Len(row) : RecordUpTo(row, labels, w)[n] = RecordUpTo(row, labels, w)[n - 1] \o FieldRows(row[n].content, FieldPrefix(n, labels), w)
<1> DEFINE last == Len(row)
           begin == <<>>
           Step(n, x) == x \o FieldRows(row[n].content, FieldPrefix(n, labels), w)
           Body(k, f) == [n \in 0 .. k |-> IF n = 0 THEN begin ELSE Step(n, f[n - 1])]
           S == {k \in 0 .. last : \E f : f = Body(k, f)}
           loop == RecordUpTo(row, labels, w)
<1>1. loop = CHOOSE f : f = Body(last, f)
  BY DEF RecordUpTo
<1>2. last \in Nat
  OBVIOUS
<1> HIDE DEF last, begin, Step, loop
<1>3. 0 \in S
  <2> DEFINE f == [n \in 0 .. 0 |-> begin]
  <2>1. f = Body(0, f)
    OBVIOUS
  <2> HIDE DEF f
  <2> QED
    BY <1>2, <2>1
<1>4. ASSUME NEW k \in 1 .. last, k - 1 \in S PROVE k \in S
  <2>1. k \in 0 .. last /\ k - 1 \in 0 .. last
    BY <1>2
  <2>2. PICK f : f = Body(k - 1, f)
    BY <1>4
  <2>3. \A n \in 0 .. k - 1 : f[n] = IF n = 0 THEN begin ELSE Step(n, f[n - 1])
    BY <2>2
  <2> DEFINE g == [n \in 0 .. k |-> IF n = k THEN Step(k, f[k - 1]) ELSE f[n]]
  <2>4. ASSUME NEW n \in 0 .. k PROVE g[n] = IF n = 0 THEN begin ELSE Step(n, g[n - 1])
    <3>1. CASE n = k
      <4>1. k # 0 /\ k - 1 \in 0 .. k /\ k - 1 # k
        BY <1>2
      <4> QED
        BY <3>1, <4>1
    <3>2. CASE n # k
      <4>1. n \in 0 .. k - 1 /\ g[n] = f[n]
        BY <3>2
      <4>2. CASE n = 0
        BY <2>3, <4>1, <4>2
      <4>3. CASE n # 0
        <5>1. n - 1 \in 0 .. k /\ n - 1 # k
          BY <4>1, <4>3
        <5> QED
          BY <2>3, <4>1, <4>3, <5>1
      <4> QED
        BY <4>2, <4>3
    <3> QED
      BY <3>1, <3>2
  <2>5. g = [n \in 0 .. k |-> g[n]]
    OBVIOUS
  <2> HIDE DEF g
  <2>6. g = Body(k, g)
    BY <2>4, <2>5
  <2> QED
    BY <2>1, <2>6
<1> HIDE DEF S
<1>5. last \in S
  BY <1>2, <1>3, <1>4, Induction
<1>6. loop = Body(last, loop)
  BY <1>1, <1>5 DEF S
<1>7. loop[0] = begin /\ \A n \in 1 .. last : loop[n] = Step(n, loop[n - 1])
  BY <1>2, <1>6
<1> QED
  BY <1>7, Zenon DEF loop, last, begin, Step

\* The loop over the records.
LEMMA RecordsSteps ==
  ASSUME NEW data, NEW labels, NEW w, Len(data) \in Nat
  PROVE  /\ RecordsUpTo(data, labels, w)[0] = <<>>
         /\ \A n \in 1 .. Len(data) : RecordsUpTo(data, labels, w)[n] = RecordsUpTo(data, labels, w)[n - 1] \o (IF n > 1 THEN <<<<>>>> ELSE <<>>) \o RecordUpTo(data[n], labels, w)[Len(data[n])]
<1> DEFINE last == Len(data)
           begin == <<>>
           Step(n, x) == x \o (IF n > 1 THEN <<<<>>>> ELSE <<>>) \o RecordUpTo(data[n], labels, w)[Len(data[n])]
           Body(k, f) == [n \in 0 .. k |-> IF n = 0 THEN begin ELSE Step(n, f[n - 1])]
           S == {k \in 0 .. last : \E f : f = Body(k, f)}
           loop == RecordsUpTo(data, labels, w)
<1>1. loop = CHOOSE f : f = Body(last, f)
  BY DEF RecordsUpTo
<1>2. last \in Nat
  OBVIOUS
<1> HIDE DEF last, begin, Step, loop
<1>3. 0 \in S
  <2> DEFINE f == [n \in 0 .. 0 |-> begin]
  <2>1. f = Body(0, f)
    OBVIOUS
  <2> HIDE DEF f
  <2> QED
    BY <1>2, <2>1
<1>4. ASSUME NEW k \in 1 .. last, k - 1 \in S PROVE k \in S
  <2>1. k \in 0 .. last /\ k - 1 \in 0 .. last
    BY <1>2
  <2>2. PICK f : f = Body(k - 1, f)
    BY <1>4
  <2>3. \A n \in 0 .. k - 1 : f[n] = IF n = 0 THEN begin ELSE Step(n, f[n - 1])
    BY <2>2
  <2> DEFINE g == [n \in 0 .. k |-> IF n = k THEN Step(k, f[k - 1]) ELSE f[n]]
  <2>4. ASSUME NEW n \in 0 .. k PROVE g[n] = IF n = 0 THEN begin ELSE Step(n, g[n - 1])
    <3>1. CASE n = k
      <4>1. k # 0 /\ k - 1 \in 0 .. k /\ k - 1 # k
        BY <1>2
      <4> QED
        BY <3>1, <4>1
    <3>2. CASE n # k
      <4>1. n \in 0 .. k - 1 /\ g[n] = f[n]
        BY <3>2
      <4>2. CASE n = 0
        BY <2>3, <4>1, <4>2
      <4>3. CASE n # 0
        <5>1. n - 1 \in 0 .. k /\ n - 1 # k
          BY <4>1, <4>3
        <5> QED
          BY <2>3, <4>1, <4>3, <5>1
      <4> QED
        BY <4>2, <4>3
    <3> QED
      BY <3>1, <3>2
  <2>5. g = [n \in 0 .. k |-> g[n]]
    OBVIOUS
  <2> HIDE DEF g
  <2>6. g = Body(k, g)
    BY <2>4, <2>5
  <2> QED
    BY <2>1, <2>6
<1> HIDE DEF S
<1>5. last \in S
  BY <1>2, <1>3, <1>4, Induction
<1>6. loop = Body(last, loop)
  BY <1>1, <1>5 DEF S
<1>7. loop[0] = begin /\ \A n \in 1 .. last : loop[n] = Step(n, loop[n - 1])
  BY <1>2, <1>6
<1> QED
  BY <1>7, Zenon DEF loop, last, begin, Step

\* A cell of a grid, and a table of them.
Entry(Cell) == [header : BOOLEAN, content : Seq(Cell)]
GridOf(Cell) == Seq(Seq(Entry(Cell)))

\* Where the columns of a row have room for its cells, the row is no wider
\* than they are together, and shows what its cells hold.
LEMMA ColumnRowFacts ==
  ASSUME NEW Cell, Drawable(Cell), NEW row \in Seq(Entry(Cell)), NEW widths \in Seq(Nat),
         Len(row) <= Len(widths),
         \A j \in 1 .. Len(row) : Columns(row[j].content) <= widths[j]
  PROVE  /\ ColumnRow(row, widths) \in Seq(Cell)
         /\ TotalUpTo(widths)[Len(widths)] \in Nat
         /\ Columns(ColumnRow(row, widths)) <= TotalUpTo(widths)[Len(widths)]
         /\ \A j \in 1 .. Len(row) : \A c :
               Holds(row[j].content, c) => Holds(ColumnRow(row, widths), c)
<1> DEFINE N == Len(widths)
           gap(n) == IF n > 1 THEN Spaces(ColumnGap) ELSE <<>>
           size(n) == IF n > 1 THEN ColumnGap ELSE 0
           fit(n) == FitCell(row, n, widths)
           cells(n) == ColumnsRowUpTo(row, widths)[n]
           total(n) == TotalUpTo(widths)[n]
           Good(n) == /\ cells(n) \in Seq(Cell)
                      /\ total(n) \in Nat
                      /\ Columns(cells(n)) <= total(n)
                      /\ \A j \in 1 .. Len(row) : j <= n =>
                            \A c : Holds(row[j].content, c) => Holds(cells(n), c)
           S == {n \in 0 .. N : Good(n)}
<1>1. N \in Nat /\ Len(row) \in Nat /\ DOMAIN row = 1 .. Len(row)
  OBVIOUS
<1>2. cells(0) = <<>> /\ \A n \in 1 .. N : cells(n) = cells(n - 1) \o gap(n) \o fit(n)
  BY <1>1, ColumnsRowSteps
<1>3. total(0) = 0 /\ \A n \in 1 .. N : total(n) = total(n - 1) + size(n) + widths[n]
  BY <1>1, TotalSteps
<1>4. ASSUME NEW n \in 1 .. N
      PROVE  gap(n) \in Seq(Cell) /\ size(n) \in Nat /\ Columns(gap(n)) = size(n)
  <2>1. ColumnGap \in Nat
    BY DEF ColumnGap
  <2>2. Spaces(ColumnGap) \in Seq(Cell) /\ Columns(Spaces(ColumnGap)) = ColumnGap
    BY <2>1, SpacesFacts
  <2>3. <<>> \in Seq(Cell) /\ Columns(<<>>) = 0
    BY EmptyColumns
  <2> QED
    BY <2>1, <2>2, <2>3
<1>5. ASSUME NEW n \in 1 .. N
      PROVE  /\ fit(n) \in Seq(Cell) /\ Columns(fit(n)) <= widths[n] /\ widths[n] \in Nat
             /\ n <= Len(row) => \A c : Holds(row[n].content, c) => Holds(fit(n), c)
  <2> DEFINE content == IF n <= Len(row) THEN row[n].content ELSE <<>>
             room == widths[n] - Columns(content)
  <2>1. content \in Seq(Cell) /\ Columns(content) <= widths[n]
    <3>1. CASE n <= Len(row)
      <4>1. n \in 1 .. Len(row) /\ row[n] \in Entry(Cell)
        BY <1>1, <3>1
      <4> QED
        BY <3>1, <4>1 DEF Entry
    <3>2. CASE ~(n <= Len(row))
      <4>1. content = <<>> /\ widths[n] \in Nat /\ <<>> \in Seq(Cell)
        BY <3>2
      <4> HIDE DEF content
      <4> QED
        BY <4>1, EmptyColumns
    <3> QED
      BY <3>1, <3>2
  <2>2. fit(n) = IF n < N THEN content \o Spaces(room) ELSE content
    BY DEF FitCell
  <2>3. n <= Len(row) => content = row[n].content
    OBVIOUS
  <2> HIDE DEF content, fit
  <2>4. Columns(content) \in Nat /\ widths[n] \in Nat
    BY <2>1, ColumnsType
  <2>5. room \in Nat
    BY <2>1, <2>4
  <2> HIDE DEF room
  <2>6. Spaces(room) \in Seq(Cell) /\ Columns(Spaces(room)) = room
    BY <2>5, SpacesFacts
  <2>7. /\ content \o Spaces(room) \in Seq(Cell)
        /\ Columns(content \o Spaces(room)) = Columns(content) + room
    BY <2>1, <2>6, ConcatColumns
  <2>8. ASSUME NEW c, Holds(content, c) PROVE Holds(fit(n), c)
    <3>1. Holds(content \o Spaces(room), c)
      BY <2>1, <2>6, <2>8, HoldsConcat
    <3> QED
      BY <2>2, <2>8, <3>1
  <2>9. fit(n) \in Seq(Cell) /\ Columns(fit(n)) <= widths[n]
    <3>1. Columns(content) + room = widths[n]
      BY <2>4 DEF room
    <3> QED
      BY <2>1, <2>2, <2>4, <2>7, <3>1
  <2> QED
    BY <2>3, <2>4, <2>8, <2>9
<1> HIDE DEF N, gap, size, fit, cells, total
<1>6. 0 \in S
  <2>1. <<>> \in Seq(Cell) /\ Columns(<<>>) = 0
    BY EmptyColumns
  <2>2. cells(0) \in Seq(Cell) /\ total(0) \in Nat /\ Columns(cells(0)) <= total(0)
    <3>1. cells(0) = <<>> /\ total(0) = 0
      BY <1>2, <1>3
    <3>2. 0 <= 0 /\ 0 \in Nat
      OBVIOUS
    <3> QED
      BY <2>1, <3>1, <3>2, Zenon
  <2>3. \A j \in 1 .. Len(row) : ~(j <= 0)
    BY <1>1
  <2>4. Good(0)
    BY <2>2, <2>3
  <2> QED
    BY <1>1, <2>4
<1>7. ASSUME NEW n \in 1 .. N, n - 1 \in S PROVE n \in S
  <2> DEFINE x == cells(n - 1)
             y == x \o gap(n)
             z == y \o fit(n)
  <2>1. Good(n - 1) /\ n \in 0 .. N
    BY <1>1, <1>7
  <2>2. cells(n) = z
    BY <1>2
  <2>3. x \in Seq(Cell) /\ total(n - 1) \in Nat /\ Columns(x) <= total(n - 1)
    BY <2>1
  <2>4. y \in Seq(Cell) /\ Columns(y) = Columns(x) + size(n)
    BY <1>4, <2>3, ConcatColumns
  <2>5. \A c : Holds(x, c) => Holds(y, c)
    BY <1>4, <2>3, HoldsConcat
  <2> HIDE DEF y
  <2>6. z \in Seq(Cell) /\ Columns(z) = Columns(y) + Columns(fit(n))
    BY <1>5, <2>4, ConcatColumns
  <2>7. \A c : Holds(y, c) \/ Holds(fit(n), c) => Holds(z, c)
    BY <1>5, <2>4, HoldsConcat
  <2> HIDE DEF z
  <2>8. total(n) \in Nat /\ Columns(z) <= total(n)
    <3>1. Columns(x) \in Nat /\ Columns(fit(n)) \in Nat
      BY <1>5, <2>3, ColumnsType
    <3>2. total(n) = total(n - 1) + size(n) + widths[n]
      BY <1>3
    <3>3. size(n) \in Nat /\ widths[n] \in Nat /\ Columns(fit(n)) <= widths[n]
      BY <1>4, <1>5
    <3>4. /\ Columns(z) = Columns(x) + size(n) + Columns(fit(n))
          /\ Columns(x) <= total(n - 1) /\ total(n - 1) \in Nat
      BY <2>3, <2>4, <2>6
    <3>5. \A a, b, c, d, e \in Nat : a <= b /\ c <= d => a + e + c <= b + e + d /\ b + e + d \in Nat
      OBVIOUS
    <3> QED
      BY <3>1, <3>2, <3>3, <3>4, <3>5
  <2>9. ASSUME NEW j \in 1 .. Len(row), j <= n, NEW c, Holds(row[j].content, c) PROVE Holds(z, c)
    <3>1. CASE j = n
      <4>1. Holds(fit(n), c)
        BY <1>5, <2>9, <3>1
      <4> QED
        BY <2>7, <4>1
    <3>2. CASE j # n
      <4>1. j <= n - 1
        BY <1>1, <2>9, <3>2
      <4>2. Holds(x, c)
        BY <2>1, <2>9, <4>1
      <4> QED
        BY <2>5, <2>7, <4>2
    <3> QED
      BY <3>1, <3>2
  <2>10. Good(n)
    BY <2>2, <2>6, <2>8, <2>9
  <2> QED
    BY <2>1, <2>10
<1> HIDE DEF S
<1>8. 0 .. N \subseteq S
  BY <1>1, <1>6, <1>7, Induction
<1>9. N \in S
  BY <1>1, <1>8
<1>10. Good(N)
  BY <1>9 DEF S
<1>11. ColumnRow(row, widths) = cells(N)
  BY DEF ColumnRow, cells, N
<1>12. \A j \in 1 .. Len(row) : j <= N
  BY <1>1 DEF N
<1> QED
  BY <1>10, <1>11, <1>12 DEF N, total

\* The columns of a table have room for every cell.
LEMMA ColumnWidthsFacts ==
  ASSUME NEW Cell, NEW grid \in GridOf(Cell), grid # <<>>
  PROVE  /\ ColumnWidths(grid) \in Seq(Nat)
         /\ \A i \in 1 .. Len(grid) :
               /\ Len(grid[i]) <= Len(ColumnWidths(grid))
               /\ \A j \in 1 .. Len(grid[i]) :
                     Columns(grid[i][j].content) <= ColumnWidths(grid)[j]
<1> DEFINE M == Len(grid)
           lens == {Len(grid[i]) : i \in 1 .. M}
           count == Max(lens)
           deep(j) == {k \in 1 .. M : j <= Len(grid[k])}
           column(j) == {Columns(grid[i][j].content) : i \in deep(j)}
           widths == [j \in 1 .. count |-> Max(column(j))]
<1>1. M \in Nat /\ 1 \in 1 .. M /\ DOMAIN grid = 1 .. M
  OBVIOUS
<1>2. \A i \in 1 .. M : grid[i] \in Seq(Entry(Cell)) /\ Len(grid[i]) \in Nat
  BY DEF GridOf
<1>3. ColumnWidths(grid) = widths
  BY <1>1 DEF ColumnWidths
<1> HIDE DEF M
<1>4. Bounded(lens) /\ lens # {}
  <2> DEFINE f == [i \in 1 .. M |-> Len(grid[i])]
  <2>1. \A i \in 1 .. M : f[i] \in Nat
    BY <1>2
  <2>2. lens = {f[i] : i \in 1 .. M}
    OBVIOUS
  <2> HIDE DEF f
  <2>3. Bounded({f[i] : i \in 1 .. M})
    BY <1>1, <2>1, BoundedNumbers
  <2> QED
    BY <1>1, <2>2, <2>3
<1>5. count \in lens /\ count \in Nat /\ \A y \in lens : y <= count
  BY <1>4, GreatestOfBounded
<1>6. ASSUME NEW j \in 1 .. count
      PROVE  Max(column(j)) \in Nat /\ \A y \in column(j) : y <= Max(column(j))
  <2> DEFINE f == [i \in 1 .. M |-> IF j <= Len(grid[i]) THEN Columns(grid[i][j].content) ELSE 0]
  <2>1. ASSUME NEW i \in 1 .. M, j <= Len(grid[i]) PROVE Columns(grid[i][j].content) \in Nat
    <3>1. j \in 1 .. Len(grid[i]) /\ grid[i][j] \in Entry(Cell)
      BY <1>2, <1>5, <2>1
    <3>2. grid[i][j].content \in Seq(Cell)
      BY <3>1 DEF Entry
    <3> QED
      BY <3>2, ColumnsType
  <2>2. \A i \in 1 .. M : f[i] \in Nat
    BY <2>1
  <2>3. column(j) \subseteq {f[i] : i \in 1 .. M}
    OBVIOUS
  <2> HIDE DEF f
  <2>4. Bounded({f[i] : i \in 1 .. M})
    BY <1>1, <2>2, BoundedNumbers
  <2>5. column(j) # {}
    <3>1. PICK i \in 1 .. M : count = Len(grid[i])
      BY <1>5
    <3>2. j <= Len(grid[i])
      BY <1>5, <3>1
    <3> QED
      BY <3>2
  <2> HIDE DEF column
  <2>6. Bounded(column(j))
    BY <2>3, <2>4, BoundedOne
  <2> QED
    BY <2>5, <2>6, GreatestOfBounded
<1> HIDE DEF count, column
<1>7. widths \in Seq(Nat) /\ Len(widths) = count
  BY <1>5, <1>6
<1>8. ASSUME NEW i \in 1 .. M PROVE Len(grid[i]) <= count
  BY <1>5
<1>9. ASSUME NEW i \in 1 .. M, NEW j \in 1 .. Len(grid[i])
      PROVE  Columns(grid[i][j].content) <= widths[j]
  <2>1. j \in 1 .. count /\ j <= Len(grid[i])
    BY <1>2, <1>5, <1>8
  <2>2. Columns(grid[i][j].content) \in column(j)
    BY <2>1 DEF column
  <2> QED
    BY <1>6, <2>1, <2>2
<1> QED
  BY <1>3, <1>7, <1>8, <1>9 DEF M

\* A header cell drawn again as a label is as wide as it is.
LEMMA PlainlyFacts ==
  ASSUME NEW Cell, Drawable(Cell), NEW cells \in Seq(Cell)
  PROVE  Plainly(cells) \in Seq(Cell) /\ Columns(Plainly(cells)) = Columns(cells)
<1> DEFINE out == Plainly(cells)
           N == Len(cells)
           plain(i) == [Blank EXCEPT !.char = cells[i].char]
           S == {n \in 0 .. N : ColumnsUpTo(out)[n] = ColumnsUpTo(cells)[n]}
<1>1. N \in Nat /\ DOMAIN cells = 1 .. N /\ \A i \in 1 .. N : cells[i] \in Cell
  OBVIOUS
<1>2. out = [i \in 1 .. N |-> plain(i)]
  BY <1>1 DEF Plainly
<1>3. \A i \in 1 .. N : plain(i) \in Cell
  BY <1>1 DEF Drawable
<1>4. \A i \in 1 .. N : plain(i).char = cells[i].char
  BY DEF Blank
<1> HIDE DEF out, plain
<1>5. out \in Seq(Cell) /\ Len(out) = N /\ \A i \in 1 .. N : out[i].char = cells[i].char
  BY <1>1, <1>2, <1>3, <1>4
<1>6. /\ ColumnsUpTo(out)[0] = 0
      /\ \A n \in 1 .. N : ColumnsUpTo(out)[n] = ColumnsUpTo(out)[n - 1] + CharColumns(out[n].char)
  BY <1>5, ColumnsFacts
<1>7. /\ ColumnsUpTo(cells)[0] = 0
      /\ \A n \in 1 .. N : ColumnsUpTo(cells)[n] = ColumnsUpTo(cells)[n - 1] + CharColumns(cells[n].char)
  BY ColumnsFacts
<1>8. 0 \in S /\ \A n \in 1 .. N : n - 1 \in S => n \in S
  BY <1>1, <1>5, <1>6, <1>7
<1> HIDE DEF S
<1>9. 0 .. N \subseteq S
  BY <1>1, <1>8, Induction
<1>10. N \in S
  BY <1>1, <1>9
<1> QED
  BY <1>5, <1>10 DEF S, Columns, out

\* The text of a label, and the colon and the space after it.
LEMMA FieldLabelFacts ==
  ASSUME NEW Cell, Drawable(Cell), NEW label \in Seq(Cell)
  PROVE  /\ FieldLabel(label) \in Seq(Cell)
         /\ Columns(FieldLabel(label)) <= Columns(label) + 2
<1> DEFINE plain == Plainly(label)
           colon == Cells(2, Ink)
           both == plain \o colon
<1>1. Columns(label) \in Nat
  BY ColumnsType
<1>2. plain \in Seq(Cell) /\ Columns(plain) = Columns(label)
  BY PlainlyFacts
<1>3. colon \in Seq(Cell) /\ Columns(colon) = 2
  BY CellsFacts, InkAssumption DEF Drawable
<1> HIDE DEF plain, colon
<1>4. both \in Seq(Cell) /\ Columns(both) = Columns(label) + 2
  BY <1>1, <1>2, <1>3, ConcatColumns
<1>5. CASE label = <<>>
  <2>1. FieldLabel(label) = <<>> /\ <<>> \in Seq(Cell)
    BY <1>5 DEF FieldLabel
  <2> QED
    BY <1>1, <2>1, EmptyColumns
<1>6. CASE label # <<>>
  <2>1. FieldLabel(label) = both
    BY <1>6 DEF FieldLabel, plain, colon
  <2> HIDE DEF both
  <2> QED
    BY <1>1, <1>4, <2>1
<1> QED
  BY <1>5, <1>6

\* The indent and the label of a field, and the field wrapped under them.
LEMMA FieldPrefixFacts ==
  ASSUME NEW Cell, Drawable(Cell), NEW labels \in Seq(Seq(Cell)), NEW B \in Nat,
         \A j \in 1 .. Len(labels) : Columns(labels[j]) <= B, NEW j \in Nat \ {0}
  PROVE  /\ FieldPrefix(j, labels) \in Seq(Cell)
         /\ Columns(FieldPrefix(j, labels)) <= RecordIndent + B + 2
<1> DEFINE label == IF j <= Len(labels) THEN FieldLabel(labels[j]) ELSE <<>>
<1>1. RecordIndent \in Nat
  BY DEF RecordIndent
<1>2. label \in Seq(Cell) /\ Columns(label) <= B + 2
  <2>1. CASE j <= Len(labels)
    <3> DEFINE one == labels[j]
    <3>1. one \in Seq(Cell) /\ Columns(one) <= B
      BY <2>1
    <3>2. label = FieldLabel(one)
      BY <2>1
    <3> HIDE DEF one, label
    <3>3. FieldLabel(one) \in Seq(Cell) /\ Columns(FieldLabel(one)) <= Columns(one) + 2
      BY <3>1, FieldLabelFacts
    <3>4. Columns(one) \in Nat /\ Columns(FieldLabel(one)) \in Nat
      BY <3>1, <3>3, ColumnsType
    <3> QED
      BY <3>1, <3>2, <3>3, <3>4
  <2>2. CASE ~(j <= Len(labels))
    <3>1. label = <<>> /\ <<>> \in Seq(Cell)
      BY <2>2
    <3> HIDE DEF label
    <3> QED
      BY <3>1, EmptyColumns
  <2> QED
    BY <2>1, <2>2
<1>3. FieldPrefix(j, labels) = IF j = 1 THEN <<>> ELSE Spaces(RecordIndent) \o label
  BY DEF FieldPrefix
<1> HIDE DEF label
<1>4. Spaces(RecordIndent) \in Seq(Cell) /\ Columns(Spaces(RecordIndent)) = RecordIndent
  BY <1>1, SpacesFacts
<1>5. /\ Spaces(RecordIndent) \o label \in Seq(Cell)
      /\ Columns(Spaces(RecordIndent) \o label) = RecordIndent + Columns(label)
  BY <1>2, <1>4, ConcatColumns
<1>6. Columns(label) \in Nat
  BY <1>2, ColumnsType
<1>7. CASE j = 1
  <2>1. FieldPrefix(j, labels) = <<>> /\ <<>> \in Seq(Cell)
    BY <1>3, <1>7
  <2> QED
    BY <1>1, <2>1, EmptyColumns
<1>8. CASE j # 1
  <2>1. FieldPrefix(j, labels) = Spaces(RecordIndent) \o label
    BY <1>3, <1>8
  <2> QED
    BY <1>1, <1>2, <1>5, <1>6, <2>1
<1> QED
  BY <1>7, <1>8

LEMMA FieldRowsFacts ==
  ASSUME NEW Cell, Drawable(Cell), NEW content \in Seq(Cell), NEW prefix \in Seq(Cell),
         NEW w \in Nat
  PROVE  /\ FieldRows(content, prefix, w) \in Seq(Seq(Cell))
         /\ Columns(prefix) + 2 <= w =>
               \A c : c # Space /\ Holds(content, c) => Shows(FieldRows(content, prefix, w), w, c)
<1> DEFINE room == IF w > Columns(prefix) THEN w - Columns(prefix) ELSE 1
           wrapped == WrapCells(content, room)
<1>1. Columns(prefix) \in Nat /\ Space \notin Wide \cup ZeroWidth
  BY ColumnsType, InkAssumption
<1>2. room \in Nat
  BY <1>1
<1>3. FieldRows(content, prefix, w) = Indent(wrapped, prefix)
  BY DEF FieldRows
<1>4. Columns(prefix) + 2 <= w => room >= 2 /\ w = room + Columns(prefix)
  BY <1>1
<1> HIDE DEF room
<1>5. wrapped \in Seq(Seq(Cell))
  BY <1>1, <1>2, WrapCellsFacts
<1> HIDE DEF wrapped
<1>6. Indent(wrapped, prefix) \in Seq(Seq(Cell))
  BY <1>5, IndentFacts
<1>7. ASSUME Columns(prefix) + 2 <= w, NEW c, c # Space, Holds(content, c)
      PROVE  Shows(Indent(wrapped, prefix), w, c)
  <2>1. room >= 2 /\ w = room + Columns(prefix)
    BY <1>4, <1>7
  <2>2. Shows(wrapped, room, c)
    BY <1>1, <1>2, <1>7, <2>1, ShowsWrap DEF wrapped
  <2> QED
    BY <1>2, <1>5, <2>1, <2>2, ShowsIndent
<1> QED
  BY <1>3, <1>6, <1>7

\* A record shows what its fields hold.
LEMMA RecordFacts ==
  ASSUME NEW Cell, Drawable(Cell), NEW row \in Seq(Entry(Cell)), NEW labels \in Seq(Seq(Cell)),
         NEW B \in Nat, \A j \in 1 .. Len(labels) : Columns(labels[j]) <= B, NEW w \in Nat
  PROVE  /\ RecordUpTo(row, labels, w)[Len(row)] \in Seq(Seq(Cell))
         /\ RecordIndent + B + 4 <= w =>
               \A j \in 1 .. Len(row) : \A c :
                  c # Space /\ Holds(row[j].content, c)
                  => Shows(RecordUpTo(row, labels, w)[Len(row)], w, c)
<1> DEFINE N == Len(row)
           record(n) == RecordUpTo(row, labels, w)[n]
           field(n) == FieldRows(row[n].content, FieldPrefix(n, labels), w)
           Room == RecordIndent + B + 4 <= w
           Kept(n) == \A j \in 1 .. N : j <= n =>
                         \A c : c # Space /\ Holds(row[j].content, c) => Shows(record(n), w, c)
           Good(n) == record(n) \in Seq(Seq(Cell)) /\ (Room => Kept(n))
           S == {n \in 0 .. N : Good(n)}
<1>1. N \in Nat /\ \A n \in 1 .. N : row[n] \in Entry(Cell)
  OBVIOUS
<1>2. record(0) = <<>> /\ \A n \in 1 .. N : record(n) = record(n - 1) \o field(n)
  BY <1>1, RecordSteps
<1>3. ASSUME NEW n \in 1 .. N
      PROVE  /\ field(n) \in Seq(Seq(Cell))
             /\ Room => \A c : c # Space /\ Holds(row[n].content, c) => Shows(field(n), w, c)
  <2> DEFINE prefix == FieldPrefix(n, labels)
  <2>1. row[n].content \in Seq(Cell)
    BY <1>1 DEF Entry
  <2>2. prefix \in Seq(Cell) /\ Columns(prefix) <= RecordIndent + B + 2
    <3>1. n \in Nat \ {0}
      BY <1>1
    <3> QED
      BY <3>1, FieldPrefixFacts, Zenon
  <2> HIDE DEF prefix
  <2>3. Columns(prefix) \in Nat /\ RecordIndent \in Nat
    BY <2>2, ColumnsType DEF RecordIndent
  <2>4. Room => Columns(prefix) + 2 <= w
    BY <2>2, <2>3
  <2>5. /\ FieldRows(row[n].content, prefix, w) \in Seq(Seq(Cell))
        /\ Columns(prefix) + 2 <= w =>
              \A c : c # Space /\ Holds(row[n].content, c)
                     => Shows(FieldRows(row[n].content, prefix, w), w, c)
    BY <2>1, <2>2, FieldRowsFacts
  <2>6. field(n) = FieldRows(row[n].content, prefix, w)
    BY DEF prefix
  <2> HIDE DEF Room, field
  <2> QED
    BY <2>4, <2>5, <2>6
<1> HIDE DEF N, record, field, Room
<1>4. 0 \in S
  <2>1. record(0) \in Seq(Seq(Cell))
    <3>1. record(0) = <<>> /\ <<>> \in Seq(Seq(Cell))
      BY <1>2
    <3> QED
      BY <3>1
  <2>2. \A j \in 1 .. N : ~(j <= 0)
    BY <1>1
  <2> QED
    BY <1>1, <2>1, <2>2
<1>5. ASSUME NEW n \in 1 .. N, n - 1 \in S PROVE n \in S
  <2>1. record(n - 1) \in Seq(Seq(Cell)) /\ (Room => Kept(n - 1)) /\ n \in 0 .. N
    BY <1>1, <1>5
  <2>2. record(n) = record(n - 1) \o field(n) /\ field(n) \in Seq(Seq(Cell))
    BY <1>2, <1>3
  <2>3. record(n) \in Seq(Seq(Cell))
    BY <2>1, <2>2
  <2>4. ASSUME Room, NEW j \in 1 .. N, j <= n, NEW c, c # Space, Holds(row[j].content, c)
        PROVE  Shows(record(n), w, c)
    <3>1. CASE j = n
      <4>1. Shows(field(n), w, c)
        BY <1>3, <2>4, <3>1
      <4> QED
        BY <2>1, <2>2, <4>1, ShowsConcat
    <3>2. CASE j # n
      <4>1. j <= n - 1
        BY <1>1, <2>4, <3>2
      <4>2. Shows(record(n - 1), w, c)
        BY <2>1, <2>4, <4>1
      <4> QED
        BY <2>1, <2>2, <4>2, ShowsConcat
    <3> QED
      BY <3>1, <3>2
  <2>5. Good(n)
    BY <2>3, <2>4
  <2> QED
    BY <2>1, <2>5
<1> HIDE DEF S
<1>6. 0 .. N \subseteq S
  BY <1>1, <1>4, <1>5, Induction
<1>7. N \in S
  BY <1>1, <1>6
<1>8. Good(N)
  BY <1>7 DEF S
<1>9. \A j \in 1 .. N : j <= N
  BY <1>1
<1> QED
  BY <1>8, <1>9 DEF N, record, Room

LEMMA RecordRowsFacts ==
  ASSUME NEW Cell, Drawable(Cell), NEW data \in GridOf(Cell), NEW labels \in Seq(Seq(Cell)),
         NEW B \in Nat, \A j \in 1 .. Len(labels) : Columns(labels[j]) <= B, NEW w \in Nat
  PROVE  /\ RecordRows(data, labels, w) \in Seq(Seq(Cell))
         /\ RecordIndent + B + 4 <= w =>
               \A i \in 1 .. Len(data) : \A j \in 1 .. Len(data[i]) : \A c :
                  c # Space /\ Holds(data[i][j].content, c)
                  => Shows(RecordRows(data, labels, w), w, c)
<1> DEFINE N == Len(data)
           records(n) == RecordsUpTo(data, labels, w)[n]
           gap(n) == IF n > 1 THEN <<<<>>>> ELSE <<>>
           one(n) == RecordUpTo(data[n], labels, w)[Len(data[n])]
           Room == RecordIndent + B + 4 <= w
           In(i, c) == \E j \in 1 .. Len(data[i]) : Holds(data[i][j].content, c)
           Kept(n) == \A i \in 1 .. N : i <= n =>
                         \A c : c # Space /\ In(i, c) => Shows(records(n), w, c)
           Good(n) == records(n) \in Seq(Seq(Cell)) /\ (Room => Kept(n))
           S == {n \in 0 .. N : Good(n)}
<1>1. N \in Nat /\ \A n \in 1 .. N : data[n] \in Seq(Entry(Cell))
  BY DEF GridOf
<1>2. records(0) = <<>> /\ \A n \in 1 .. N : records(n) = records(n - 1) \o gap(n) \o one(n)
  BY <1>1, RecordsSteps
<1>3. \A n \in 1 .. N : gap(n) \in Seq(Seq(Cell))
  OBVIOUS
<1>4. ASSUME NEW n \in 1 .. N
      PROVE  /\ one(n) \in Seq(Seq(Cell))
             /\ Room => \A c : c # Space /\ In(n, c) => Shows(one(n), w, c)
  <2>1. data[n] \in Seq(Entry(Cell))
    BY <1>1
  <2>2. /\ one(n) \in Seq(Seq(Cell))
        /\ Room => \A j \in 1 .. Len(data[n]) : \A c :
                      c # Space /\ Holds(data[n][j].content, c) => Shows(one(n), w, c)
    BY <2>1, RecordFacts
  <2> HIDE DEF one, Room
  <2> QED
    BY <2>2
<1> HIDE DEF N, records, gap, one, Room, In
<1>5. 0 \in S
  <2>1. records(0) \in Seq(Seq(Cell))
    <3>1. records(0) = <<>> /\ <<>> \in Seq(Seq(Cell))
      BY <1>2
    <3> QED
      BY <3>1
  <2>2. \A i \in 1 .. N : ~(i <= 0)
    BY <1>1
  <2> QED
    BY <1>1, <2>1, <2>2
<1>6. ASSUME NEW n \in 1 .. N, n - 1 \in S PROVE n \in S
  <2> DEFINE x == records(n - 1)
             y == x \o gap(n)
  <2>1. x \in Seq(Seq(Cell)) /\ (Room => Kept(n - 1)) /\ n \in 0 .. N
    BY <1>1, <1>6
  <2>2. y \in Seq(Seq(Cell)) /\ \A c : Shows(x, w, c) => Shows(y, w, c)
    BY <1>3, <2>1, ShowsConcat
  <2>3. records(n) = y \o one(n) /\ one(n) \in Seq(Seq(Cell))
    BY <1>2, <1>4
  <2> HIDE DEF y
  <2>4. records(n) \in Seq(Seq(Cell))
    BY <2>2, <2>3
  <2>5. ASSUME Room, NEW i \in 1 .. N, i <= n, NEW c, c # Space, In(i, c)
        PROVE  Shows(records(n), w, c)
    <3>1. CASE i = n
      <4>1. Shows(one(n), w, c)
        BY <1>4, <2>5, <3>1
      <4> QED
        BY <2>2, <2>3, <4>1, ShowsConcat
    <3>2. CASE i # n
      <4>1. i <= n - 1
        BY <1>1, <2>5, <3>2
      <4>2. Shows(x, w, c)
        BY <2>1, <2>5, <4>1
      <4>3. Shows(y, w, c)
        BY <2>2, <4>2
      <4> QED
        BY <2>2, <2>3, <4>3, ShowsConcat
    <3> QED
      BY <3>1, <3>2
  <2>6. Good(n)
    BY <2>4, <2>5
  <2> QED
    BY <2>1, <2>6
<1> HIDE DEF S
<1>7. 0 .. N \subseteq S
  BY <1>1, <1>5, <1>6, Induction
<1>8. N \in S
  BY <1>1, <1>7
<1>9. Good(N)
  BY <1>8 DEF S
<1>10. \A i \in 1 .. N : i <= N
  BY <1>1
<1>11. RecordRows(data, labels, w) = records(N)
  BY DEF RecordRows, records, N
<1>12. Room => \A i \in 1 .. N : \A c : c # Space /\ In(i, c) => Shows(records(N), w, c)
  BY <1>9, <1>10
<1> QED
  BY <1>9, <1>11, <1>12 DEF N, Room, In

\* Where the first row leaves room beside its labels, a table shows what its
\* cells hold, header cells apart, in columns or in records.
LEMMA GridFacts ==
  ASSUME NEW Cell, Drawable(Cell), NEW grid \in GridOf(Cell), grid # <<>>, NEW w \in Nat
  PROVE  LET drawn == ColumnsOrRecords(grid, ColumnWidths(grid), w)
         IN  /\ drawn \in Seq(Seq(Cell))
             /\ \A B \in Nat :
                   /\ RecordIndent + B + 4 <= w
                   /\ \A j \in 1 .. Len(grid[1]) : Columns(grid[1][j].content) <= B
                   => \A i \in 1 .. Len(grid) : \A j \in 1 .. Len(grid[i]) : \A c :
                         c # Space /\ ~grid[i][j].header /\ Holds(grid[i][j].content, c)
                         => Shows(drawn, w, c)
<1> DEFINE widths == ColumnWidths(grid)
           drawn == ColumnsOrRecords(grid, widths, w)
           total == TotalUpTo(widths)[Len(widths)]
           Room(B) == /\ RecordIndent + B + 4 <= w
                      /\ \A j \in 1 .. Len(grid[1]) : Columns(grid[1][j].content) <= B
           In(i, j, c) == c # Space /\ ~grid[i][j].header /\ Holds(grid[i][j].content, c)
           Good == /\ drawn \in Seq(Seq(Cell))
                   /\ \A B \in Nat : Room(B) =>
                         \A i \in 1 .. Len(grid) : \A j \in 1 .. Len(grid[i]) : \A c :
                            In(i, j, c) => Shows(drawn, w, c)
<1>1. /\ Len(grid) \in Nat /\ 1 \in 1 .. Len(grid) /\ DOMAIN grid = 1 .. Len(grid)
      /\ \A i \in 1 .. Len(grid) : grid[i] \in Seq(Entry(Cell))
  BY DEF GridOf
<1>2. /\ widths \in Seq(Nat)
      /\ \A i \in 1 .. Len(grid) :
            /\ Len(grid[i]) <= Len(widths)
            /\ \A j \in 1 .. Len(grid[i]) : Columns(grid[i][j].content) <= widths[j]
  BY ColumnWidthsFacts
<1> HIDE DEF widths
<1>3. ASSUME NEW i \in 1 .. Len(grid)
      PROVE  /\ ColumnRow(grid[i], widths) \in Seq(Cell)
             /\ total \in Nat /\ Columns(ColumnRow(grid[i], widths)) <= total
             /\ \A j \in 1 .. Len(grid[i]) : \A c :
                   Holds(grid[i][j].content, c) => Holds(ColumnRow(grid[i], widths), c)
  BY <1>1, <1>2, ColumnRowFacts
<1>4. ASSUME TableFits(widths, w) PROVE Good
  <2> DEFINE columns == [i \in 1 .. Len(grid) |-> ColumnRow(grid[i], widths)]
  <2>1. drawn = columns
    BY <1>1, <1>4 DEF ColumnsOrRecords
  <2>2. total <= w
    BY <1>4 DEF TableFits
  <2> HIDE DEF total
  <2>3. columns \in Seq(Seq(Cell)) /\ Len(columns) = Len(grid)
    BY <1>1, <1>3
  <2>4. \A i \in 1 .. Len(grid) : columns[i] = ColumnRow(grid[i], widths)
    OBVIOUS
  <2> HIDE DEF columns
  <2>5. ASSUME NEW i \in 1 .. Len(grid), NEW j \in 1 .. Len(grid[i]), NEW c, In(i, j, c)
        PROVE  Shows(columns, w, c)
    <3>1. Holds(columns[i], c)
      BY <1>3, <2>4, <2>5
    <3>2. Columns(columns[i]) <= total /\ total \in Nat /\ columns[i] \in Seq(Cell)
      BY <1>3, <2>4
    <3>3. Columns(columns[i]) \in Nat
      BY <3>2, ColumnsType
    <3>4. Columns(columns[i]) <= w
      BY <2>2, <3>2, <3>3
    <3> QED
      BY <2>3, <3>1, <3>4 DEF Shows
  <2> HIDE DEF drawn, Room, In
  <2> QED
    BY <2>1, <2>3, <2>5
<1>5. ASSUME ~TableFits(widths, w) PROVE Good
  <2>1. drawn = Records(grid, w)
    BY <1>5 DEF ColumnsOrRecords
  <2> HIDE DEF drawn
  <2>2. ASSUME RowIsHeader(grid[1]) PROVE Good
    <3> DEFINE labels == Labels(grid[1])
               data == Tail(grid)
    <3>1. drawn = RecordRows(data, labels, w)
      BY <2>1, <2>2 DEF Records
    <3>2. labels \in Seq(Seq(Cell)) /\ Len(labels) = Len(grid[1])
      <4>1. ASSUME NEW j \in 1 .. Len(grid[1]) PROVE grid[1][j].content \in Seq(Cell)
        <5>1. grid[1][j] \in Entry(Cell)
          BY <1>1
        <5> QED
          BY <5>1 DEF Entry
      <4>2. DOMAIN grid[1] = 1 .. Len(grid[1]) /\ Len(grid[1]) \in Nat
        BY <1>1
      <4>3. labels = [j \in 1 .. Len(grid[1]) |-> grid[1][j].content]
        BY <4>2 DEF Labels
      <4> HIDE DEF labels
      <4> QED
        BY <4>1, <4>2, <4>3
    <3>3. \A j \in 1 .. Len(grid[1]) : labels[j] = grid[1][j].content
      <4>1. DOMAIN grid[1] = 1 .. Len(grid[1])
        BY <1>1
      <4> QED
        BY <4>1 DEF Labels
    <3>4. /\ data \in GridOf(Cell) /\ Len(data) = Len(grid) - 1
          /\ \A i \in 1 .. Len(grid) - 1 : data[i] = grid[i + 1]
      BY <1>1 DEF GridOf
    <3> HIDE DEF labels, data
    <3>5. ASSUME NEW B \in Nat, Room(B) PROVE \A j \in 1 .. Len(labels) : Columns(labels[j]) <= B
      BY <3>2, <3>3, <3>5
    <3>6. \E B \in Nat : \A j \in 1 .. Len(labels) : Columns(labels[j]) <= B
      <4> DEFINE count == Len(labels)
                 size == [j \in 1 .. count |-> Columns(labels[j])]
                 measured == {size[j] : j \in 1 .. count}
      <4>1. count \in Nat /\ \A j \in 1 .. count : Columns(labels[j]) \in Nat
        <5>1. count \in Nat /\ \A j \in 1 .. count : labels[j] \in Seq(Cell)
          BY <3>2
        <5> QED
          BY <5>1, ColumnsType
      <4> HIDE DEF count
      <4>2. \A j \in 1 .. count : size[j] = Columns(labels[j]) /\ size[j] \in Nat
        BY <4>1
      <4> HIDE DEF size
      <4>3. Bounded(measured)
        BY <4>1, <4>2, BoundedNumbers
      <4>4. PICK B \in Nat : measured \in SUBSET (0 .. B)
        BY <4>3 DEF Bounded
      <4>5. \A j \in 1 .. count : size[j] \in measured
        OBVIOUS
      <4> HIDE DEF measured
      <4>6. ASSUME NEW j \in 1 .. count PROVE Columns(labels[j]) <= B
        <5>1. size[j] \in 0 .. B
          BY <4>4, <4>5
        <5> QED
          BY <4>2, <5>1
      <4> QED
        BY <4>6 DEF count
    <3>7. drawn \in Seq(Seq(Cell))
      BY <3>1, <3>2, <3>4, <3>6, RecordRowsFacts
    <3>8. ASSUME NEW B \in Nat, Room(B),
                 NEW i \in 1 .. Len(grid), NEW j \in 1 .. Len(grid[i]), NEW c, In(i, j, c)
          PROVE  Shows(drawn, w, c)
      <4>1. i # 1
        <5>1. ASSUME i = 1 PROVE FALSE
          <6>1. j \in DOMAIN grid[1]
            BY <1>1, <5>1
          <6>2. grid[1][j].header
            BY <2>2, <6>1 DEF RowIsHeader
          <6> QED
            BY <3>8, <5>1, <6>2
        <5> QED
          BY <5>1
      <4> DEFINE k == i - 1
      <4>2. k \in 1 .. Len(data) /\ data[k] = grid[i]
        BY <1>1, <3>4, <4>1
      <4> HIDE DEF k
      <4>3. j \in 1 .. Len(data[k]) /\ c # Space /\ Holds(data[k][j].content, c)
        BY <3>8, <4>2
      <4>4. \A n \in 1 .. Len(labels) : Columns(labels[n]) <= B
        BY <3>5, <3>8
      <4>5. \A n \in 1 .. Len(data) : \A m \in 1 .. Len(data[n]) : \A d :
               d # Space /\ Holds(data[n][m].content, d)
               => Shows(RecordRows(data, labels, w), w, d)
        BY <3>2, <3>4, <3>8, <4>4, RecordRowsFacts
      <4> QED
        BY <3>1, <4>2, <4>3, <4>5
    <3> HIDE DEF Room, In
    <3> QED
      BY <3>7, <3>8
  <2>3. ASSUME ~RowIsHeader(grid[1]) PROVE Good
    <3>1. drawn = RecordRows(grid, <<>>, w)
      BY <2>1, <2>3 DEF Records
    <3>2. <<>> \in Seq(Seq(Cell)) /\ \A B \in Nat : \A j \in 1 .. Len(<<>>) : Columns(<<>>[j]) <= B
      OBVIOUS
    <3>3. drawn \in Seq(Seq(Cell))
      <4>1. 0 \in Nat
        OBVIOUS
      <4> QED
        BY <3>1, <3>2, <4>1, RecordRowsFacts
    <3>4. ASSUME NEW B \in Nat, Room(B),
                 NEW i \in 1 .. Len(grid), NEW j \in 1 .. Len(grid[i]), NEW c, In(i, j, c)
          PROVE  Shows(drawn, w, c)
      <4>1. \A n \in 1 .. Len(grid) : \A m \in 1 .. Len(grid[n]) : \A d :
               d # Space /\ Holds(grid[n][m].content, d)
               => Shows(RecordRows(grid, <<>>, w), w, d)
        BY <3>2, <3>4, RecordRowsFacts
      <4>2. c # Space /\ Holds(grid[i][j].content, c)
        BY <3>4
      <4> QED
        BY <3>1, <4>1, <4>2
    <3> HIDE DEF Room, In
    <3> QED
      BY <3>3, <3>4
  <2> QED
    BY <2>2, <2>3
<1>6. Good
  BY <1>4, <1>5
<1> QED
  BY <1>6 DEF widths

(***************************************************************************)
(* Where the labels of a table leave room for a character of two columns,  *)
(* every character of its data cells that has a column, but the spaces, is *)
(* in the cell buffer, in columns or in records: for tables of any shape,  *)
(* any width, any limit of a column and any sets of characters of two      *)
(* columns and of none (table.rs, render_columns, render_records,          *)
(* render_record_field).                                                   *)
(***************************************************************************)
THEOREM GridTextIsInTheBuffer ==
  ASSUME NEW Cell, Drawable(Cell), NEW grid \in GridOf(Cell), grid # <<>>, NEW w \in Nat,
         NEW B \in Nat, RecordIndent + B + 4 <= w,
         \A j \in 1 .. Len(grid[1]) : Columns(grid[1][j].content) <= B,
         NEW i \in 1 .. Len(grid), NEW j \in 1 .. Len(grid[i]), ~grid[i][j].header,
         NEW c, c # Space, CharColumns(c) > 0, Holds(grid[i][j].content, c)
  PROVE  LET drawn == ColumnsOrRecords(grid, ColumnWidths(grid), w)
         IN  \E k \in 1 .. Len(drawn) : \E cell \in ToSet(Buffer(drawn[k], w, Blank)) : cell.char = c
<1> DEFINE drawn == ColumnsOrRecords(grid, ColumnWidths(grid), w)
<1>1. drawn \in Seq(Seq(Cell)) /\ Shows(drawn, w, c)
  BY GridFacts
<1>2. Blank \in Cell
  BY DEF Drawable
<1> HIDE DEF drawn
<1>3. PICK k \in 1 .. Len(drawn) : Columns(drawn[k]) <= w /\ Holds(drawn[k], c)
  BY <1>1 DEF Shows
<1>4. drawn[k] \in Seq(Cell)
  BY <1>1
<1> DEFINE row == drawn[k]
<1>5. PICK n \in 1 .. Len(row) : row[n].char = c
  BY <1>3 DEF Holds
<1> DEFINE cell == row[n]
<1>6. cell \in ToSet(row) /\ cell.char = c
  <2>1. DOMAIN row = 1 .. Len(row)
    BY <1>4
  <2> QED
    BY <1>5, <2>1, Zenon DEF ToSet
<1> HIDE DEF row, cell
<1>7. cell \in ToSet(Buffer(row, w, Blank))
  BY <1>2, <1>3, <1>4, <1>6, RowIsInTheBuffer DEF row
<1> QED
  BY <1>6, <1>7 DEF drawn, row


-----------------------------------------------------------------------------
(* The loops of layout.                                                    *)

\* The loop over runs, step by step.
LEMMA AddedSteps ==
  ASSUME NEW runs, Len(runs) \in Nat
  PROVE  /\ AddedRuns(runs)[0] = [cells |-> <<>>, waiting |-> <<>>]
         /\ \A n \in 1 .. Len(runs) : AddedRuns(runs)[n] = AddRun(AddedRuns(runs)[n - 1], runs[n])
<1> DEFINE last == Len(runs)
           begin == [cells |-> <<>>, waiting |-> <<>>]
           Step(n, x) == AddRun(x, runs[n])
           Body(k, f) == [n \in 0 .. k |-> IF n = 0 THEN begin ELSE Step(n, f[n - 1])]
           S == {k \in 0 .. last : \E f : f = Body(k, f)}
           loop == AddedRuns(runs)
<1>1. loop = CHOOSE f : f = Body(last, f)
  BY DEF AddedRuns
<1>2. last \in Nat
  OBVIOUS
<1> HIDE DEF last, begin, Step, loop
<1>3. 0 \in S
  <2> DEFINE f == [n \in 0 .. 0 |-> begin]
  <2>1. f = Body(0, f)
    OBVIOUS
  <2> HIDE DEF f
  <2> QED
    BY <1>2, <2>1
<1>4. ASSUME NEW k \in 1 .. last, k - 1 \in S PROVE k \in S
  <2>1. k \in 0 .. last /\ k - 1 \in 0 .. last
    BY <1>2
  <2>2. PICK f : f = Body(k - 1, f)
    BY <1>4
  <2>3. \A n \in 0 .. k - 1 : f[n] = IF n = 0 THEN begin ELSE Step(n, f[n - 1])
    BY <2>2
  <2> DEFINE g == [n \in 0 .. k |-> IF n = k THEN Step(k, f[k - 1]) ELSE f[n]]
  <2>4. ASSUME NEW n \in 0 .. k PROVE g[n] = IF n = 0 THEN begin ELSE Step(n, g[n - 1])
    <3>1. CASE n = k
      <4>1. k # 0 /\ k - 1 \in 0 .. k /\ k - 1 # k
        BY <1>2
      <4> QED
        BY <3>1, <4>1
    <3>2. CASE n # k
      <4>1. n \in 0 .. k - 1 /\ g[n] = f[n]
        BY <3>2
      <4>2. CASE n = 0
        BY <2>3, <4>1, <4>2
      <4>3. CASE n # 0
        <5>1. n - 1 \in 0 .. k /\ n - 1 # k
          BY <4>1, <4>3
        <5> QED
          BY <2>3, <4>1, <4>3, <5>1
      <4> QED
        BY <4>2, <4>3
    <3> QED
      BY <3>1, <3>2
  <2>5. g = [n \in 0 .. k |-> g[n]]
    OBVIOUS
  <2> HIDE DEF g
  <2>6. g = Body(k, g)
    BY <2>4, <2>5
  <2> QED
    BY <2>1, <2>6
<1> HIDE DEF S
<1>5. last \in S
  BY <1>2, <1>3, <1>4, Induction
<1>6. loop = Body(last, loop)
  BY <1>1, <1>5 DEF S
<1>7. loop[0] = begin /\ \A n \in 1 .. last : loop[n] = Step(n, loop[n - 1])
  BY <1>2, <1>6
<1> QED
  BY <1>7, Zenon DEF loop, last, begin, Step

\* The loop over the characters of preformatted text.
LEMMA LinesSteps ==
  ASSUME NEW t, Len(t) \in Nat
  PROVE  /\ LinesUpTo(t)[0] = <<<<>>>>
         /\ \A n \in 1 .. Len(t) : LinesUpTo(t)[n] = AddCharacter(LinesUpTo(t)[n - 1], t[n])
<1> DEFINE last == Len(t)
           begin == <<<<>>>>
           Step(n, x) == AddCharacter(x, t[n])
           Body(k, f) == [n \in 0 .. k |-> IF n = 0 THEN begin ELSE Step(n, f[n - 1])]
           S == {k \in 0 .. last : \E f : f = Body(k, f)}
           loop == LinesUpTo(t)
<1>1. loop = CHOOSE f : f = Body(last, f)
  BY DEF LinesUpTo
<1>2. last \in Nat
  OBVIOUS
<1> HIDE DEF last, begin, Step, loop
<1>3. 0 \in S
  <2> DEFINE f == [n \in 0 .. 0 |-> begin]
  <2>1. f = Body(0, f)
    OBVIOUS
  <2> HIDE DEF f
  <2> QED
    BY <1>2, <2>1
<1>4. ASSUME NEW k \in 1 .. last, k - 1 \in S PROVE k \in S
  <2>1. k \in 0 .. last /\ k - 1 \in 0 .. last
    BY <1>2
  <2>2. PICK f : f = Body(k - 1, f)
    BY <1>4
  <2>3. \A n \in 0 .. k - 1 : f[n] = IF n = 0 THEN begin ELSE Step(n, f[n - 1])
    BY <2>2
  <2> DEFINE g == [n \in 0 .. k |-> IF n = k THEN Step(k, f[k - 1]) ELSE f[n]]
  <2>4. ASSUME NEW n \in 0 .. k PROVE g[n] = IF n = 0 THEN begin ELSE Step(n, g[n - 1])
    <3>1. CASE n = k
      <4>1. k # 0 /\ k - 1 \in 0 .. k /\ k - 1 # k
        BY <1>2
      <4> QED
        BY <3>1, <4>1
    <3>2. CASE n # k
      <4>1. n \in 0 .. k - 1 /\ g[n] = f[n]
        BY <3>2
      <4>2. CASE n = 0
        BY <2>3, <4>1, <4>2
      <4>3. CASE n # 0
        <5>1. n - 1 \in 0 .. k /\ n - 1 # k
          BY <4>1, <4>3
        <5> QED
          BY <2>3, <4>1, <4>3, <5>1
      <4> QED
        BY <4>2, <4>3
    <3> QED
      BY <3>1, <3>2
  <2>5. g = [n \in 0 .. k |-> g[n]]
    OBVIOUS
  <2> HIDE DEF g
  <2>6. g = Body(k, g)
    BY <2>4, <2>5
  <2> QED
    BY <2>1, <2>6
<1> HIDE DEF S
<1>5. last \in S
  BY <1>2, <1>3, <1>4, Induction
<1>6. loop = Body(last, loop)
  BY <1>1, <1>5 DEF S
<1>7. loop[0] = begin /\ \A n \in 1 .. last : loop[n] = Step(n, loop[n - 1])
  BY <1>2, <1>6
<1> QED
  BY <1>7, Zenon DEF loop, last, begin, Step

\* The loops over nodes.
LEMMA RunsSteps ==
  ASSUME NEW below, NEW nodes, NEW runs, Len(nodes) \in Nat
  PROVE  /\ RunsUpTo(below, nodes, runs)[0] = runs
         /\ \A n \in 1 .. Len(nodes) : RunsUpTo(below, nodes, runs)[n] = below[nodes[n]][RunsUpTo(below, nodes, runs)[n - 1]]
<1> DEFINE last == Len(nodes)
           begin == runs
           Step(n, x) == below[nodes[n]][x]
           Body(k, f) == [n \in 0 .. k |-> IF n = 0 THEN begin ELSE Step(n, f[n - 1])]
           S == {k \in 0 .. last : \E f : f = Body(k, f)}
           loop == RunsUpTo(below, nodes, runs)
<1>1. loop = CHOOSE f : f = Body(last, f)
  BY DEF RunsUpTo
<1>2. last \in Nat
  OBVIOUS
<1> HIDE DEF last, begin, Step, loop
<1>3. 0 \in S
  <2> DEFINE f == [n \in 0 .. 0 |-> begin]
  <2>1. f = Body(0, f)
    OBVIOUS
  <2> HIDE DEF f
  <2> QED
    BY <1>2, <2>1
<1>4. ASSUME NEW k \in 1 .. last, k - 1 \in S PROVE k \in S
  <2>1. k \in 0 .. last /\ k - 1 \in 0 .. last
    BY <1>2
  <2>2. PICK f : f = Body(k - 1, f)
    BY <1>4
  <2>3. \A n \in 0 .. k - 1 : f[n] = IF n = 0 THEN begin ELSE Step(n, f[n - 1])
    BY <2>2
  <2> DEFINE g == [n \in 0 .. k |-> IF n = k THEN Step(k, f[k - 1]) ELSE f[n]]
  <2>4. ASSUME NEW n \in 0 .. k PROVE g[n] = IF n = 0 THEN begin ELSE Step(n, g[n - 1])
    <3>1. CASE n = k
      <4>1. k # 0 /\ k - 1 \in 0 .. k /\ k - 1 # k
        BY <1>2
      <4> QED
        BY <3>1, <4>1
    <3>2. CASE n # k
      <4>1. n \in 0 .. k - 1 /\ g[n] = f[n]
        BY <3>2
      <4>2. CASE n = 0
        BY <2>3, <4>1, <4>2
      <4>3. CASE n # 0
        <5>1. n - 1 \in 0 .. k /\ n - 1 # k
          BY <4>1, <4>3
        <5> QED
          BY <2>3, <4>1, <4>3, <5>1
      <4> QED
        BY <4>2, <4>3
    <3> QED
      BY <3>1, <3>2
  <2>5. g = [n \in 0 .. k |-> g[n]]
    OBVIOUS
  <2> HIDE DEF g
  <2>6. g = Body(k, g)
    BY <2>4, <2>5
  <2> QED
    BY <2>1, <2>6
<1> HIDE DEF S
<1>5. last \in S
  BY <1>2, <1>3, <1>4, Induction
<1>6. loop = Body(last, loop)
  BY <1>1, <1>5 DEF S
<1>7. loop[0] = begin /\ \A n \in 1 .. last : loop[n] = Step(n, loop[n - 1])
  BY <1>2, <1>6
<1> QED
  BY <1>7, Zenon DEF loop, last, begin, Step


LEMMA RenderedSteps ==
  ASSUME NEW below, NEW nodes, NEW w, NEW pending, Len(nodes) \in Nat
  PROVE  /\ RenderedUpTo(below, nodes, w, pending)[0] = Pass(<<>>, pending)
         /\ \A n \in 1 .. Len(nodes) : RenderedUpTo(below, nodes, w, pending)[n] = AppendNodeRows(below, RenderedUpTo(below, nodes, w, pending)[n - 1], nodes[n], w)
<1> DEFINE last == Len(nodes)
           begin == Pass(<<>>, pending)
           Step(n, x) == AppendNodeRows(below, x, nodes[n], w)
           Body(k, f) == [n \in 0 .. k |-> IF n = 0 THEN begin ELSE Step(n, f[n - 1])]
           S == {k \in 0 .. last : \E f : f = Body(k, f)}
           loop == RenderedUpTo(below, nodes, w, pending)
<1>1. loop = CHOOSE f : f = Body(last, f)
  BY DEF RenderedUpTo
<1>2. last \in Nat
  OBVIOUS
<1> HIDE DEF last, begin, Step, loop
<1>3. 0 \in S
  <2> DEFINE f == [n \in 0 .. 0 |-> begin]
  <2>1. f = Body(0, f)
    OBVIOUS
  <2> HIDE DEF f
  <2> QED
    BY <1>2, <2>1
<1>4. ASSUME NEW k \in 1 .. last, k - 1 \in S PROVE k \in S
  <2>1. k \in 0 .. last /\ k - 1 \in 0 .. last
    BY <1>2
  <2>2. PICK f : f = Body(k - 1, f)
    BY <1>4
  <2>3. \A n \in 0 .. k - 1 : f[n] = IF n = 0 THEN begin ELSE Step(n, f[n - 1])
    BY <2>2
  <2> DEFINE g == [n \in 0 .. k |-> IF n = k THEN Step(k, f[k - 1]) ELSE f[n]]
  <2>4. ASSUME NEW n \in 0 .. k PROVE g[n] = IF n = 0 THEN begin ELSE Step(n, g[n - 1])
    <3>1. CASE n = k
      <4>1. k # 0 /\ k - 1 \in 0 .. k /\ k - 1 # k
        BY <1>2
      <4> QED
        BY <3>1, <4>1
    <3>2. CASE n # k
      <4>1. n \in 0 .. k - 1 /\ g[n] = f[n]
        BY <3>2
      <4>2. CASE n = 0
        BY <2>3, <4>1, <4>2
      <4>3. CASE n # 0
        <5>1. n - 1 \in 0 .. k /\ n - 1 # k
          BY <4>1, <4>3
        <5> QED
          BY <2>3, <4>1, <4>3, <5>1
      <4> QED
        BY <4>2, <4>3
    <3> QED
      BY <3>1, <3>2
  <2>5. g = [n \in 0 .. k |-> g[n]]
    OBVIOUS
  <2> HIDE DEF g
  <2>6. g = Body(k, g)
    BY <2>4, <2>5
  <2> QED
    BY <2>1, <2>6
<1> HIDE DEF S
<1>5. last \in S
  BY <1>2, <1>3, <1>4, Induction
<1>6. loop = Body(last, loop)
  BY <1>1, <1>5 DEF S
<1>7. loop[0] = begin /\ \A n \in 1 .. last : loop[n] = Step(n, loop[n - 1])
  BY <1>2, <1>6
<1> QED
  BY <1>7, Zenon DEF loop, last, begin, Step


LEMMA ListSteps ==
  ASSUME NEW below, NEW kind, NEW items, NEW w, NEW pending, Len(items) \in Nat
  PROVE  /\ ListUpTo(below, kind, items, w, pending)[0] = Pass(<<>>, pending)
         /\ \A n \in 1 .. Len(items) : ListUpTo(below, kind, items, w, pending)[n] = After(ListUpTo(below, kind, items, w, pending)[n - 1].rows, ListItemRows(below, items[n], ListMarker(kind, n), w, ListUpTo(below, kind, items, w, pending)[n - 1].pending))
<1> DEFINE last == Len(items)
           begin == Pass(<<>>, pending)
           Step(n, x) == After(x.rows, ListItemRows(below, items[n], ListMarker(kind, n), w, x.pending))
           Body(k, f) == [n \in 0 .. k |-> IF n = 0 THEN begin ELSE Step(n, f[n - 1])]
           S == {k \in 0 .. last : \E f : f = Body(k, f)}
           loop == ListUpTo(below, kind, items, w, pending)
<1>1. loop = CHOOSE f : f = Body(last, f)
  BY DEF ListUpTo
<1>2. last \in Nat
  OBVIOUS
<1> HIDE DEF last, begin, Step, loop
<1>3. 0 \in S
  <2> DEFINE f == [n \in 0 .. 0 |-> begin]
  <2>1. f = Body(0, f)
    OBVIOUS
  <2> HIDE DEF f
  <2> QED
    BY <1>2, <2>1
<1>4. ASSUME NEW k \in 1 .. last, k - 1 \in S PROVE k \in S
  <2>1. k \in 0 .. last /\ k - 1 \in 0 .. last
    BY <1>2
  <2>2. PICK f : f = Body(k - 1, f)
    BY <1>4
  <2>3. \A n \in 0 .. k - 1 : f[n] = IF n = 0 THEN begin ELSE Step(n, f[n - 1])
    BY <2>2
  <2> DEFINE g == [n \in 0 .. k |-> IF n = k THEN Step(k, f[k - 1]) ELSE f[n]]
  <2>4. ASSUME NEW n \in 0 .. k PROVE g[n] = IF n = 0 THEN begin ELSE Step(n, g[n - 1])
    <3>1. CASE n = k
      <4>1. k # 0 /\ k - 1 \in 0 .. k /\ k - 1 # k
        BY <1>2
      <4> QED
        BY <3>1, <4>1
    <3>2. CASE n # k
      <4>1. n \in 0 .. k - 1 /\ g[n] = f[n]
        BY <3>2
      <4>2. CASE n = 0
        BY <2>3, <4>1, <4>2
      <4>3. CASE n # 0
        <5>1. n - 1 \in 0 .. k /\ n - 1 # k
          BY <4>1, <4>3
        <5> QED
          BY <2>3, <4>1, <4>3, <5>1
      <4> QED
        BY <4>2, <4>3
    <3> QED
      BY <3>1, <3>2
  <2>5. g = [n \in 0 .. k |-> g[n]]
    OBVIOUS
  <2> HIDE DEF g
  <2>6. g = Body(k, g)
    BY <2>4, <2>5
  <2> QED
    BY <2>1, <2>6
<1> HIDE DEF S
<1>5. last \in S
  BY <1>2, <1>3, <1>4, Induction
<1>6. loop = Body(last, loop)
  BY <1>1, <1>5 DEF S
<1>7. loop[0] = begin /\ \A n \in 1 .. last : loop[n] = Step(n, loop[n - 1])
  BY <1>2, <1>6
<1> QED
  BY <1>7, Zenon DEF loop, last, begin, Step


LEMMA LayoutRowSteps ==
  ASSUME NEW below, NEW cells, NEW w, NEW r, Len(cells) \in Nat
  PROVE  /\ LayoutRowUpTo(below, cells, w, r)[0] = r
         /\ \A n \in 1 .. Len(cells) : LayoutRowUpTo(below, cells, w, r)[n] = After(LayoutRowUpTo(below, cells, w, r)[n - 1].rows, RenderChildren(below, cells[n].kids, w, LayoutRowUpTo(below, cells, w, r)[n - 1].pending))
<1> DEFINE last == Len(cells)
           begin == r
           Step(n, x) == After(x.rows, RenderChildren(below, cells[n].kids, w, x.pending))
           Body(k, f) == [n \in 0 .. k |-> IF n = 0 THEN begin ELSE Step(n, f[n - 1])]
           S == {k \in 0 .. last : \E f : f = Body(k, f)}
           loop == LayoutRowUpTo(below, cells, w, r)
<1>1. loop = CHOOSE f : f = Body(last, f)
  BY DEF LayoutRowUpTo
<1>2. last \in Nat
  OBVIOUS
<1> HIDE DEF last, begin, Step, loop
<1>3. 0 \in S
  <2> DEFINE f == [n \in 0 .. 0 |-> begin]
  <2>1. f = Body(0, f)
    OBVIOUS
  <2> HIDE DEF f
  <2> QED
    BY <1>2, <2>1
<1>4. ASSUME NEW k \in 1 .. last, k - 1 \in S PROVE k \in S
  <2>1. k \in 0 .. last /\ k - 1 \in 0 .. last
    BY <1>2
  <2>2. PICK f : f = Body(k - 1, f)
    BY <1>4
  <2>3. \A n \in 0 .. k - 1 : f[n] = IF n = 0 THEN begin ELSE Step(n, f[n - 1])
    BY <2>2
  <2> DEFINE g == [n \in 0 .. k |-> IF n = k THEN Step(k, f[k - 1]) ELSE f[n]]
  <2>4. ASSUME NEW n \in 0 .. k PROVE g[n] = IF n = 0 THEN begin ELSE Step(n, g[n - 1])
    <3>1. CASE n = k
      <4>1. k # 0 /\ k - 1 \in 0 .. k /\ k - 1 # k
        BY <1>2
      <4> QED
        BY <3>1, <4>1
    <3>2. CASE n # k
      <4>1. n \in 0 .. k - 1 /\ g[n] = f[n]
        BY <3>2
      <4>2. CASE n = 0
        BY <2>3, <4>1, <4>2
      <4>3. CASE n # 0
        <5>1. n - 1 \in 0 .. k /\ n - 1 # k
          BY <4>1, <4>3
        <5> QED
          BY <2>3, <4>1, <4>3, <5>1
      <4> QED
        BY <4>2, <4>3
    <3> QED
      BY <3>1, <3>2
  <2>5. g = [n \in 0 .. k |-> g[n]]
    OBVIOUS
  <2> HIDE DEF g
  <2>6. g = Body(k, g)
    BY <2>4, <2>5
  <2> QED
    BY <2>1, <2>6
<1> HIDE DEF S
<1>5. last \in S
  BY <1>2, <1>3, <1>4, Induction
<1>6. loop = Body(last, loop)
  BY <1>1, <1>5 DEF S
<1>7. loop[0] = begin /\ \A n \in 1 .. last : loop[n] = Step(n, loop[n - 1])
  BY <1>2, <1>6
<1> QED
  BY <1>7, Zenon DEF loop, last, begin, Step


LEMMA LayoutTableSteps ==
  ASSUME NEW below, NEW trs, NEW w, NEW pending, Len(trs) \in Nat
  PROVE  /\ LayoutTableUpTo(below, trs, w, pending)[0] = Pass(<<>>, pending)
         /\ \A n \in 1 .. Len(trs) : LayoutTableUpTo(below, trs, w, pending)[n] = LayoutRowUpTo(below, trs[n].kids, w, LayoutTableUpTo(below, trs, w, pending)[n - 1])[Len(trs[n].kids)]
<1> DEFINE last == Len(trs)
           begin == Pass(<<>>, pending)
           Step(n, x) == LayoutRowUpTo(below, trs[n].kids, w, x)[Len(trs[n].kids)]
           Body(k, f) == [n \in 0 .. k |-> IF n = 0 THEN begin ELSE Step(n, f[n - 1])]
           S == {k \in 0 .. last : \E f : f = Body(k, f)}
           loop == LayoutTableUpTo(below, trs, w, pending)
<1>1. loop = CHOOSE f : f = Body(last, f)
  BY DEF LayoutTableUpTo
<1>2. last \in Nat
  OBVIOUS
<1> HIDE DEF last, begin, Step, loop
<1>3. 0 \in S
  <2> DEFINE f == [n \in 0 .. 0 |-> begin]
  <2>1. f = Body(0, f)
    OBVIOUS
  <2> HIDE DEF f
  <2> QED
    BY <1>2, <2>1
<1>4. ASSUME NEW k \in 1 .. last, k - 1 \in S PROVE k \in S
  <2>1. k \in 0 .. last /\ k - 1 \in 0 .. last
    BY <1>2
  <2>2. PICK f : f = Body(k - 1, f)
    BY <1>4
  <2>3. \A n \in 0 .. k - 1 : f[n] = IF n = 0 THEN begin ELSE Step(n, f[n - 1])
    BY <2>2
  <2> DEFINE g == [n \in 0 .. k |-> IF n = k THEN Step(k, f[k - 1]) ELSE f[n]]
  <2>4. ASSUME NEW n \in 0 .. k PROVE g[n] = IF n = 0 THEN begin ELSE Step(n, g[n - 1])
    <3>1. CASE n = k
      <4>1. k # 0 /\ k - 1 \in 0 .. k /\ k - 1 # k
        BY <1>2
      <4> QED
        BY <3>1, <4>1
    <3>2. CASE n # k
      <4>1. n \in 0 .. k - 1 /\ g[n] = f[n]
        BY <3>2
      <4>2. CASE n = 0
        BY <2>3, <4>1, <4>2
      <4>3. CASE n # 0
        <5>1. n - 1 \in 0 .. k /\ n - 1 # k
          BY <4>1, <4>3
        <5> QED
          BY <2>3, <4>1, <4>3, <5>1
      <4> QED
        BY <4>2, <4>3
    <3> QED
      BY <3>1, <3>2
  <2>5. g = [n \in 0 .. k |-> g[n]]
    OBVIOUS
  <2> HIDE DEF g
  <2>6. g = Body(k, g)
    BY <2>4, <2>5
  <2> QED
    BY <2>1, <2>6
<1> HIDE DEF S
<1>5. last \in S
  BY <1>2, <1>3, <1>4, Induction
<1>6. loop = Body(last, loop)
  BY <1>1, <1>5 DEF S
<1>7. loop[0] = begin /\ \A n \in 1 .. last : loop[n] = Step(n, loop[n - 1])
  BY <1>2, <1>6
<1> QED
  BY <1>7, Zenon DEF loop, last, begin, Step

\* What the functions of levels are before the first level, and a level more.
NoRuns == [node \in AnyNode |-> [runs \in Seq(Run) |-> runs]]
OneRuns(below) ==
    [node \in AnyNode |-> [runs \in Seq(Run) |-> CollectNodeRuns(below, node, runs)]]
NoRows ==
    [node \in AnyNode |-> [w \in Nat |-> [pending \in Seq(Handle) |-> Pass(<<>>, pending)]]]
OneRows(below) ==
    [node \in AnyNode |-> [w \in Nat |-> [pending \in Seq(Handle) |->
        RowsOfNode(below, node, w, pending)]]]
NoLine == [node \in AnyNode |-> {}]
OneLine(below) == [node \in AnyNode |-> LineTextOf(below, node)]
OneFlow(below) == [node \in AnyNode |-> FlowTextOf(below, node)]
NoNeeds == [node \in AnyNode |-> 0]
OneNeeds(below) == [node \in AnyNode |-> NeedsOf(below, node)]

LEMMA HeightType == Levels \in Nat /\ Height \in Nat
BY LimitsAssumption DEF Levels, Height

\* The functions of levels.
LEMMA NodeSteps ==
  /\ NodesOf[0] = {}
         /\ \A n \in 1 .. Height : NodesOf[n] = NodesOver(NodesOf[n - 1])
<1> DEFINE last == Height
           begin == {}
           Step(n, x) == NodesOver(x)
           Body(k, f) == [n \in 0 .. k |-> IF n = 0 THEN begin ELSE Step(n, f[n - 1])]
           S == {k \in 0 .. last : \E f : f = Body(k, f)}
           loop == NodesOf
<1>1. loop = CHOOSE f : f = Body(last, f)
  BY DEF NodesOf
<1>2. last \in Nat
  BY HeightType
<1> HIDE DEF last, begin, Step, loop
<1>3. 0 \in S
  <2> DEFINE f == [n \in 0 .. 0 |-> begin]
  <2>1. f = Body(0, f)
    OBVIOUS
  <2> HIDE DEF f
  <2> QED
    BY <1>2, <2>1
<1>4. ASSUME NEW k \in 1 .. last, k - 1 \in S PROVE k \in S
  <2>1. k \in 0 .. last /\ k - 1 \in 0 .. last
    BY <1>2
  <2>2. PICK f : f = Body(k - 1, f)
    BY <1>4
  <2>3. \A n \in 0 .. k - 1 : f[n] = IF n = 0 THEN begin ELSE Step(n, f[n - 1])
    BY <2>2
  <2> DEFINE g == [n \in 0 .. k |-> IF n = k THEN Step(k, f[k - 1]) ELSE f[n]]
  <2>4. ASSUME NEW n \in 0 .. k PROVE g[n] = IF n = 0 THEN begin ELSE Step(n, g[n - 1])
    <3>1. CASE n = k
      <4>1. k # 0 /\ k - 1 \in 0 .. k /\ k - 1 # k
        BY <1>2
      <4> QED
        BY <3>1, <4>1
    <3>2. CASE n # k
      <4>1. n \in 0 .. k - 1 /\ g[n] = f[n]
        BY <3>2
      <4>2. CASE n = 0
        BY <2>3, <4>1, <4>2
      <4>3. CASE n # 0
        <5>1. n - 1 \in 0 .. k /\ n - 1 # k
          BY <4>1, <4>3
        <5> QED
          BY <2>3, <4>1, <4>3, <5>1
      <4> QED
        BY <4>2, <4>3
    <3> QED
      BY <3>1, <3>2
  <2>5. g = [n \in 0 .. k |-> g[n]]
    OBVIOUS
  <2> HIDE DEF g
  <2>6. g = Body(k, g)
    BY <2>4, <2>5
  <2> QED
    BY <2>1, <2>6
<1> HIDE DEF S
<1>5. last \in S
  BY <1>2, <1>3, <1>4, Induction
<1>6. loop = Body(last, loop)
  BY <1>1, <1>5 DEF S
<1>7. loop[0] = begin /\ \A n \in 1 .. last : loop[n] = Step(n, loop[n - 1])
  BY <1>2, <1>6
<1> QED
  BY <1>7, Zenon DEF loop, last, begin, Step


LEMMA RunsOfSteps ==
  /\ NodeRuns[0] = NoRuns
         /\ \A n \in 1 .. Height : NodeRuns[n] = OneRuns(NodeRuns[n - 1])
<1> DEFINE last == Height
           begin == NoRuns
           Step(n, x) == OneRuns(x)
           Body(k, f) == [n \in 0 .. k |-> IF n = 0 THEN begin ELSE Step(n, f[n - 1])]
           S == {k \in 0 .. last : \E f : f = Body(k, f)}
           loop == NodeRuns
<1>1. loop = CHOOSE f : f = Body(last, f)
  BY DEF NodeRuns, NoRuns, OneRuns
<1>2. last \in Nat
  BY HeightType
<1> HIDE DEF last, begin, Step, loop
<1>3. 0 \in S
  <2> DEFINE f == [n \in 0 .. 0 |-> begin]
  <2>1. f = Body(0, f)
    OBVIOUS
  <2> HIDE DEF f
  <2> QED
    BY <1>2, <2>1
<1>4. ASSUME NEW k \in 1 .. last, k - 1 \in S PROVE k \in S
  <2>1. k \in 0 .. last /\ k - 1 \in 0 .. last
    BY <1>2
  <2>2. PICK f : f = Body(k - 1, f)
    BY <1>4
  <2>3. \A n \in 0 .. k - 1 : f[n] = IF n = 0 THEN begin ELSE Step(n, f[n - 1])
    BY <2>2
  <2> DEFINE g == [n \in 0 .. k |-> IF n = k THEN Step(k, f[k - 1]) ELSE f[n]]
  <2>4. ASSUME NEW n \in 0 .. k PROVE g[n] = IF n = 0 THEN begin ELSE Step(n, g[n - 1])
    <3>1. CASE n = k
      <4>1. k # 0 /\ k - 1 \in 0 .. k /\ k - 1 # k
        BY <1>2
      <4> QED
        BY <3>1, <4>1
    <3>2. CASE n # k
      <4>1. n \in 0 .. k - 1 /\ g[n] = f[n]
        BY <3>2
      <4>2. CASE n = 0
        BY <2>3, <4>1, <4>2
      <4>3. CASE n # 0
        <5>1. n - 1 \in 0 .. k /\ n - 1 # k
          BY <4>1, <4>3
        <5> QED
          BY <2>3, <4>1, <4>3, <5>1
      <4> QED
        BY <4>2, <4>3
    <3> QED
      BY <3>1, <3>2
  <2>5. g = [n \in 0 .. k |-> g[n]]
    OBVIOUS
  <2> HIDE DEF g
  <2>6. g = Body(k, g)
    BY <2>4, <2>5
  <2> QED
    BY <2>1, <2>6
<1> HIDE DEF S
<1>5. last \in S
  BY <1>2, <1>3, <1>4, Induction
<1>6. loop = Body(last, loop)
  BY <1>1, <1>5 DEF S
<1>7. loop[0] = begin /\ \A n \in 1 .. last : loop[n] = Step(n, loop[n - 1])
  BY <1>2, <1>6
<1> QED
  BY <1>7, Zenon DEF loop, last, begin, Step


LEMMA RowsOfSteps ==
  /\ NodeRows[0] = NoRows
         /\ \A n \in 1 .. Height : NodeRows[n] = OneRows(NodeRows[n - 1])
<1> DEFINE last == Height
           begin == NoRows
           Step(n, x) == OneRows(x)
           Body(k, f) == [n \in 0 .. k |-> IF n = 0 THEN begin ELSE Step(n, f[n - 1])]
           S == {k \in 0 .. last : \E f : f = Body(k, f)}
           loop == NodeRows
<1>1. loop = CHOOSE f : f = Body(last, f)
  BY DEF NodeRows, NoRows, OneRows
<1>2. last \in Nat
  BY HeightType
<1> HIDE DEF last, begin, Step, loop
<1>3. 0 \in S
  <2> DEFINE f == [n \in 0 .. 0 |-> begin]
  <2>1. f = Body(0, f)
    OBVIOUS
  <2> HIDE DEF f
  <2> QED
    BY <1>2, <2>1
<1>4. ASSUME NEW k \in 1 .. last, k - 1 \in S PROVE k \in S
  <2>1. k \in 0 .. last /\ k - 1 \in 0 .. last
    BY <1>2
  <2>2. PICK f : f = Body(k - 1, f)
    BY <1>4
  <2>3. \A n \in 0 .. k - 1 : f[n] = IF n = 0 THEN begin ELSE Step(n, f[n - 1])
    BY <2>2
  <2> DEFINE g == [n \in 0 .. k |-> IF n = k THEN Step(k, f[k - 1]) ELSE f[n]]
  <2>4. ASSUME NEW n \in 0 .. k PROVE g[n] = IF n = 0 THEN begin ELSE Step(n, g[n - 1])
    <3>1. CASE n = k
      <4>1. k # 0 /\ k - 1 \in 0 .. k /\ k - 1 # k
        BY <1>2
      <4> QED
        BY <3>1, <4>1
    <3>2. CASE n # k
      <4>1. n \in 0 .. k - 1 /\ g[n] = f[n]
        BY <3>2
      <4>2. CASE n = 0
        BY <2>3, <4>1, <4>2
      <4>3. CASE n # 0
        <5>1. n - 1 \in 0 .. k /\ n - 1 # k
          BY <4>1, <4>3
        <5> QED
          BY <2>3, <4>1, <4>3, <5>1
      <4> QED
        BY <4>2, <4>3
    <3> QED
      BY <3>1, <3>2
  <2>5. g = [n \in 0 .. k |-> g[n]]
    OBVIOUS
  <2> HIDE DEF g
  <2>6. g = Body(k, g)
    BY <2>4, <2>5
  <2> QED
    BY <2>1, <2>6
<1> HIDE DEF S
<1>5. last \in S
  BY <1>2, <1>3, <1>4, Induction
<1>6. loop = Body(last, loop)
  BY <1>1, <1>5 DEF S
<1>7. loop[0] = begin /\ \A n \in 1 .. last : loop[n] = Step(n, loop[n - 1])
  BY <1>2, <1>6
<1> QED
  BY <1>7, Zenon DEF loop, last, begin, Step


LEMMA LineTextSteps ==
  /\ LineText[0] = NoLine
         /\ \A n \in 1 .. Height : LineText[n] = OneLine(LineText[n - 1])
<1> DEFINE last == Height
           begin == NoLine
           Step(n, x) == OneLine(x)
           Body(k, f) == [n \in 0 .. k |-> IF n = 0 THEN begin ELSE Step(n, f[n - 1])]
           S == {k \in 0 .. last : \E f : f = Body(k, f)}
           loop == LineText
<1>1. loop = CHOOSE f : f = Body(last, f)
  BY DEF LineText, NoLine, OneLine
<1>2. last \in Nat
  BY HeightType
<1> HIDE DEF last, begin, Step, loop
<1>3. 0 \in S
  <2> DEFINE f == [n \in 0 .. 0 |-> begin]
  <2>1. f = Body(0, f)
    OBVIOUS
  <2> HIDE DEF f
  <2> QED
    BY <1>2, <2>1
<1>4. ASSUME NEW k \in 1 .. last, k - 1 \in S PROVE k \in S
  <2>1. k \in 0 .. last /\ k - 1 \in 0 .. last
    BY <1>2
  <2>2. PICK f : f = Body(k - 1, f)
    BY <1>4
  <2>3. \A n \in 0 .. k - 1 : f[n] = IF n = 0 THEN begin ELSE Step(n, f[n - 1])
    BY <2>2
  <2> DEFINE g == [n \in 0 .. k |-> IF n = k THEN Step(k, f[k - 1]) ELSE f[n]]
  <2>4. ASSUME NEW n \in 0 .. k PROVE g[n] = IF n = 0 THEN begin ELSE Step(n, g[n - 1])
    <3>1. CASE n = k
      <4>1. k # 0 /\ k - 1 \in 0 .. k /\ k - 1 # k
        BY <1>2
      <4> QED
        BY <3>1, <4>1
    <3>2. CASE n # k
      <4>1. n \in 0 .. k - 1 /\ g[n] = f[n]
        BY <3>2
      <4>2. CASE n = 0
        BY <2>3, <4>1, <4>2
      <4>3. CASE n # 0
        <5>1. n - 1 \in 0 .. k /\ n - 1 # k
          BY <4>1, <4>3
        <5> QED
          BY <2>3, <4>1, <4>3, <5>1
      <4> QED
        BY <4>2, <4>3
    <3> QED
      BY <3>1, <3>2
  <2>5. g = [n \in 0 .. k |-> g[n]]
    OBVIOUS
  <2> HIDE DEF g
  <2>6. g = Body(k, g)
    BY <2>4, <2>5
  <2> QED
    BY <2>1, <2>6
<1> HIDE DEF S
<1>5. last \in S
  BY <1>2, <1>3, <1>4, Induction
<1>6. loop = Body(last, loop)
  BY <1>1, <1>5 DEF S
<1>7. loop[0] = begin /\ \A n \in 1 .. last : loop[n] = Step(n, loop[n - 1])
  BY <1>2, <1>6
<1> QED
  BY <1>7, Zenon DEF loop, last, begin, Step


LEMMA FlowTextSteps ==
  /\ FlowText[0] = NoLine
         /\ \A n \in 1 .. Height : FlowText[n] = OneFlow(FlowText[n - 1])
<1> DEFINE last == Height
           begin == NoLine
           Step(n, x) == OneFlow(x)
           Body(k, f) == [n \in 0 .. k |-> IF n = 0 THEN begin ELSE Step(n, f[n - 1])]
           S == {k \in 0 .. last : \E f : f = Body(k, f)}
           loop == FlowText
<1>1. loop = CHOOSE f : f = Body(last, f)
  BY DEF FlowText, NoLine, OneFlow
<1>2. last \in Nat
  BY HeightType
<1> HIDE DEF last, begin, Step, loop
<1>3. 0 \in S
  <2> DEFINE f == [n \in 0 .. 0 |-> begin]
  <2>1. f = Body(0, f)
    OBVIOUS
  <2> HIDE DEF f
  <2> QED
    BY <1>2, <2>1
<1>4. ASSUME NEW k \in 1 .. last, k - 1 \in S PROVE k \in S
  <2>1. k \in 0 .. last /\ k - 1 \in 0 .. last
    BY <1>2
  <2>2. PICK f : f = Body(k - 1, f)
    BY <1>4
  <2>3. \A n \in 0 .. k - 1 : f[n] = IF n = 0 THEN begin ELSE Step(n, f[n - 1])
    BY <2>2
  <2> DEFINE g == [n \in 0 .. k |-> IF n = k THEN Step(k, f[k - 1]) ELSE f[n]]
  <2>4. ASSUME NEW n \in 0 .. k PROVE g[n] = IF n = 0 THEN begin ELSE Step(n, g[n - 1])
    <3>1. CASE n = k
      <4>1. k # 0 /\ k - 1 \in 0 .. k /\ k - 1 # k
        BY <1>2
      <4> QED
        BY <3>1, <4>1
    <3>2. CASE n # k
      <4>1. n \in 0 .. k - 1 /\ g[n] = f[n]
        BY <3>2
      <4>2. CASE n = 0
        BY <2>3, <4>1, <4>2
      <4>3. CASE n # 0
        <5>1. n - 1 \in 0 .. k /\ n - 1 # k
          BY <4>1, <4>3
        <5> QED
          BY <2>3, <4>1, <4>3, <5>1
      <4> QED
        BY <4>2, <4>3
    <3> QED
      BY <3>1, <3>2
  <2>5. g = [n \in 0 .. k |-> g[n]]
    OBVIOUS
  <2> HIDE DEF g
  <2>6. g = Body(k, g)
    BY <2>4, <2>5
  <2> QED
    BY <2>1, <2>6
<1> HIDE DEF S
<1>5. last \in S
  BY <1>2, <1>3, <1>4, Induction
<1>6. loop = Body(last, loop)
  BY <1>1, <1>5 DEF S
<1>7. loop[0] = begin /\ \A n \in 1 .. last : loop[n] = Step(n, loop[n - 1])
  BY <1>2, <1>6
<1> QED
  BY <1>7, Zenon DEF loop, last, begin, Step


LEMMA NeedsSteps ==
  /\ Needs[0] = NoNeeds
         /\ \A n \in 1 .. Height : Needs[n] = OneNeeds(Needs[n - 1])
<1> DEFINE last == Height
           begin == NoNeeds
           Step(n, x) == OneNeeds(x)
           Body(k, f) == [n \in 0 .. k |-> IF n = 0 THEN begin ELSE Step(n, f[n - 1])]
           S == {k \in 0 .. last : \E f : f = Body(k, f)}
           loop == Needs
<1>1. loop = CHOOSE f : f = Body(last, f)
  BY DEF Needs, NoNeeds, OneNeeds
<1>2. last \in Nat
  BY HeightType
<1> HIDE DEF last, begin, Step, loop
<1>3. 0 \in S
  <2> DEFINE f == [n \in 0 .. 0 |-> begin]
  <2>1. f = Body(0, f)
    OBVIOUS
  <2> HIDE DEF f
  <2> QED
    BY <1>2, <2>1
<1>4. ASSUME NEW k \in 1 .. last, k - 1 \in S PROVE k \in S
  <2>1. k \in 0 .. last /\ k - 1 \in 0 .. last
    BY <1>2
  <2>2. PICK f : f = Body(k - 1, f)
    BY <1>4
  <2>3. \A n \in 0 .. k - 1 : f[n] = IF n = 0 THEN begin ELSE Step(n, f[n - 1])
    BY <2>2
  <2> DEFINE g == [n \in 0 .. k |-> IF n = k THEN Step(k, f[k - 1]) ELSE f[n]]
  <2>4. ASSUME NEW n \in 0 .. k PROVE g[n] = IF n = 0 THEN begin ELSE Step(n, g[n - 1])
    <3>1. CASE n = k
      <4>1. k # 0 /\ k - 1 \in 0 .. k /\ k - 1 # k
        BY <1>2
      <4> QED
        BY <3>1, <4>1
    <3>2. CASE n # k
      <4>1. n \in 0 .. k - 1 /\ g[n] = f[n]
        BY <3>2
      <4>2. CASE n = 0
        BY <2>3, <4>1, <4>2
      <4>3. CASE n # 0
        <5>1. n - 1 \in 0 .. k /\ n - 1 # k
          BY <4>1, <4>3
        <5> QED
          BY <2>3, <4>1, <4>3, <5>1
      <4> QED
        BY <4>2, <4>3
    <3> QED
      BY <3>1, <3>2
  <2>5. g = [n \in 0 .. k |-> g[n]]
    OBVIOUS
  <2> HIDE DEF g
  <2>6. g = Body(k, g)
    BY <2>4, <2>5
  <2> QED
    BY <2>1, <2>6
<1> HIDE DEF S
<1>5. last \in S
  BY <1>2, <1>3, <1>4, Induction
<1>6. loop = Body(last, loop)
  BY <1>1, <1>5 DEF S
<1>7. loop[0] = begin /\ \A n \in 1 .. last : loop[n] = Step(n, loop[n - 1])
  BY <1>2, <1>6
<1> QED
  BY <1>7, Zenon DEF loop, last, begin, Step

-----------------------------------------------------------------------------
(* The cells of a page, and the rows of them.                              *)

ScreenCell == [char : Nat, link : Handle \cup {None}, cite : Handle \cup {None},
               field : Nat \cup {None}, names : Seq(Handle)]

Row == Seq(ScreenCell)
Rows == Seq(Row)

LEMMA ScreenIsDrawable == Drawable(ScreenCell)
<1> DEFINE none == <<>>
           cell(c) == [char |-> c, link |-> None, cite |-> None, field |-> None, names |-> none]
<1>1. none \in Seq(Handle)
  OBVIOUS
<1>2. Blank = cell(Space) /\ [Blank EXCEPT !.char = Ink] = cell(Ink)
  BY DEF Blank
<1> HIDE DEF none
<1>3. \A c \in Nat : cell(c) \in ScreenCell
  BY <1>1 DEF ScreenCell
<1>4. Space \in Nat /\ Ink \in Nat
  BY DEF Space, Ink
<1>5. cell(Space) \in ScreenCell /\ cell(Ink) \in ScreenCell
  BY <1>3, <1>4
<1>6. ASSUME NEW c \in ScreenCell PROVE [Blank EXCEPT !.char = c.char] \in ScreenCell
  <2>1. c.char \in Nat
    BY DEF ScreenCell
  <2>2. [Blank EXCEPT !.char = c.char] = cell(c.char)
    BY DEF Blank, none
  <2> QED
    BY <1>3, <2>1, <2>2
<1> HIDE DEF cell
<1> QED
  BY <1>2, <1>5, <1>6 DEF Drawable

\* Lines that show the same are equally wide.
LEMMA ShownAlike ==
  ASSUME NEW s \in Row, NEW t \in Row, Len(s) = Len(t),
         \A i \in 1 .. Len(s) : s[i].char = t[i].char
  PROVE  Columns(s) = Columns(t) /\ \A c : Holds(s, c) <=> Holds(t, c)
<1> DEFINE N == Len(s)
           S == {n \in 0 .. N : ColumnsUpTo(s)[n] = ColumnsUpTo(t)[n]}
<1>1. N \in Nat /\ Len(t) = N
  BY DEF Row
<1>2. /\ ColumnsUpTo(s)[0] = 0
      /\ \A n \in 1 .. N : ColumnsUpTo(s)[n] = ColumnsUpTo(s)[n - 1] + CharColumns(s[n].char)
  BY ColumnsFacts DEF Row
<1>3. /\ ColumnsUpTo(t)[0] = 0
      /\ \A n \in 1 .. N : ColumnsUpTo(t)[n] = ColumnsUpTo(t)[n - 1] + CharColumns(t[n].char)
  BY <1>1, ColumnsFacts DEF Row
<1>4. 0 \in S /\ \A n \in 1 .. N : n - 1 \in S => n \in S
  BY <1>1, <1>2, <1>3
<1> HIDE DEF S
<1>5. 0 .. N \subseteq S
  BY <1>1, <1>4, Induction
<1>6. N \in S
  BY <1>1, <1>5
<1>7. Columns(s) = Columns(t)
  BY <1>1, <1>6 DEF S, Columns
<1>8. \A c : Holds(s, c) <=> Holds(t, c)
  BY <1>1 DEF Holds
<1> QED
  BY <1>7, <1>8

LEMMA NameFirstFacts ==
  ASSUME NEW row \in Row, row # <<>>, NEW names \in Seq(Handle)
  PROVE  /\ NameFirst(row, names) \in Row
         /\ Len(NameFirst(row, names)) = Len(row)
         /\ Columns(NameFirst(row, names)) = Columns(row)
         /\ \A c : Holds(NameFirst(row, names), c) <=> Holds(row, c)
<1> DEFINE cell == row[1]
           more == AppendUnique(cell.names, names)
           named == [cell EXCEPT !.names = more]
           out == NameFirst(row, names)
<1>1. Len(row) \in Nat /\ 1 \in 1 .. Len(row) /\ DOMAIN row = 1 .. Len(row) /\ cell \in ScreenCell
  BY DEF Row
<1>2. more \in Seq(Handle)
  <2>1. cell.names \in Seq(Handle)
    BY <1>1 DEF ScreenCell
  <2> QED
    BY <2>1, UniqueNames
<1>3. out = [row EXCEPT ![1] = named]
  BY DEF NameFirst
<1> HIDE DEF more, cell, out
<1>4. named \in ScreenCell /\ named.char = cell.char
  BY <1>1, <1>2 DEF ScreenCell
<1> HIDE DEF named
<1>5. out \in Row /\ Len(out) = Len(row)
  BY <1>1, <1>3, <1>4 DEF Row
<1>6. \A i \in 1 .. Len(row) : out[i].char = row[i].char
  BY <1>1, <1>3, <1>4 DEF cell
<1>7. Columns(out) = Columns(row) /\ \A c : Holds(out, c) <=> Holds(row, c)
  BY <1>5, <1>6, ShownAlike
<1> QED
  BY <1>5, <1>7 DEF out

LEMMA RowNamedFacts ==
  ASSUME NEW rs \in Rows, NEW i \in 1 .. Len(rs), rs[i] # <<>>, NEW names \in Seq(Handle)
  PROVE  /\ [rs EXCEPT ![i] = NameFirst(@, names)] \in Rows
         /\ \A w, c : Shows(rs, w, c) => Shows([rs EXCEPT ![i] = NameFirst(@, names)], w, c)
<1> DEFINE row == NameFirst(rs[i], names)
           out == [rs EXCEPT ![i] = NameFirst(@, names)]
<1>1. Len(rs) \in Nat /\ DOMAIN rs = 1 .. Len(rs) /\ rs[i] \in Row
  BY DEF Rows
<1>2. /\ row \in Row /\ Columns(row) = Columns(rs[i])
      /\ \A c : Holds(row, c) <=> Holds(rs[i], c)
  BY <1>1, NameFirstFacts
<1>3. out = [rs EXCEPT ![i] = row]
  OBVIOUS
<1> HIDE DEF row, out
<1>4. out \in Rows /\ Len(out) = Len(rs)
  BY <1>1, <1>2, <1>3 DEF Rows
<1>5. \A k \in 1 .. Len(rs) : out[k] = IF k = i THEN row ELSE rs[k]
  BY <1>1, <1>3
<1>6. ASSUME NEW w, NEW c, Shows(rs, w, c) PROVE Shows(out, w, c)
  <2>1. PICK k \in 1 .. Len(rs) : Columns(rs[k]) <= w /\ Holds(rs[k], c)
    BY <1>6 DEF Shows
  <2>2. Columns(out[k]) <= w /\ Holds(out[k], c)
    BY <1>2, <1>5, <2>1
  <2> QED
    BY <1>4, <2>2 DEF Shows
<1> QED
  BY <1>4, <1>6 DEF out

Passed == [rows : Rows, pending : Seq(Handle)]

\* What the names do to rows: they stay rows, and show what they did.
LEMMA MarkPendingFacts ==
  ASSUME NEW rs \in Rows, NEW pending \in Seq(Handle)
  PROVE  /\ MarkPending(rs, pending) \in Passed
         /\ \A w, c : Shows(rs, w, c) => Shows(MarkPending(rs, pending).rows, w, c)
<1> DEFINE drawn == {i \in DOMAIN rs : rs[i] # <<>>}
           m == MarkPending(rs, pending)
           first == Min(drawn)
           out == [rs EXCEPT ![first] = NameFirst(@, pending)]
<1>1. DOMAIN rs = 1 .. Len(rs) /\ <<>> \in Seq(Handle)
  BY DEF Rows
<1>2. CASE pending = <<>> \/ drawn = {}
  <2>1. m = [rows |-> rs, pending |-> pending]
    BY <1>2 DEF MarkPending
  <2> HIDE DEF m
  <2>2. m \in Passed /\ m.rows = rs
    BY <2>1 DEF Passed
  <2> QED
    BY <2>2 DEF m
<1>3. CASE ~(pending = <<>> \/ drawn = {})
  <2>1. m = [rows |-> out, pending |-> <<>>]
    BY <1>3 DEF MarkPending
  <2>2. first \in drawn
    <3>1. drawn \in SUBSET Nat /\ drawn # {}
      BY <1>1, <1>3
    <3> HIDE DEF drawn
    <3>2. \E x \in drawn : \A y \in drawn : x <= y
      BY <3>1, LeastNumber
    <3> QED
      BY <3>2 DEF Min
  <2> HIDE DEF first, m
  <2>3. first \in 1 .. Len(rs) /\ rs[first] # <<>>
    BY <1>1, <2>2
  <2>4. out \in Rows /\ \A w, c : Shows(rs, w, c) => Shows(out, w, c)
    BY <2>3, RowNamedFacts
  <2> HIDE DEF out
  <2>5. m \in Passed /\ m.rows = out
    BY <1>1, <2>1, <2>4 DEF Passed
  <2> QED
    BY <2>4, <2>5 DEF m
<1> QED
  BY <1>2, <1>3

LEMMA MarkTrailingFacts ==
  ASSUME NEW r \in Passed
  PROVE  /\ MarkTrailing(r) \in Rows
         /\ \A w, c : Shows(r.rows, w, c) => Shows(MarkTrailing(r), w, c)
<1> DEFINE rs == r.rows
           drawn == {i \in DOMAIN rs : rs[i] # <<>>}
           last == Max(drawn)
           out == [rs EXCEPT ![last] = NameFirst(@, r.pending)]
<1>1. rs \in Rows /\ r.pending \in Seq(Handle)
  BY DEF Passed
<1>2. DOMAIN rs = 1 .. Len(rs) /\ Len(rs) \in Nat
  BY <1>1 DEF Rows
<1>3. CASE r.pending = <<>> \/ drawn = {}
  <2>1. MarkTrailing(r) = rs
    BY <1>3 DEF MarkTrailing
  <2> QED
    BY <1>1, <2>1
<1>4. CASE ~(r.pending = <<>> \/ drawn = {})
  <2>1. MarkTrailing(r) = out
    BY <1>4 DEF MarkTrailing
  <2>2. last \in drawn
    <3>1. drawn \in SUBSET (0 .. Len(rs)) /\ drawn # {}
      BY <1>2, <1>4
    <3> HIDE DEF drawn
    <3> QED
      BY <1>2, <3>1, GreatestNumber
  <2> HIDE DEF last
  <2>3. last \in 1 .. Len(rs) /\ rs[last] # <<>>
    BY <1>2, <2>2
  <2> HIDE DEF rs
  <2>4. out \in Rows /\ \A w, c : Shows(rs, w, c) => Shows(out, w, c)
    BY <1>1, <2>3, RowNamedFacts
  <2> QED
    BY <2>1, <2>4 DEF rs
<1> QED
  BY <1>3, <1>4

LEMMA TrimFacts ==
  ASSUME NEW rs \in Rows
  PROVE  /\ TrimBlankRows(rs) \in Rows
         /\ \A w, c : Shows(rs, w, c) => Shows(TrimBlankRows(rs), w, c)
<1> DEFINE drawn == {i \in DOMAIN rs : rs[i] # <<>>} \cup {0}
           last == Max(drawn)
           out == TrimBlankRows(rs)
<1>1. Len(rs) \in Nat /\ DOMAIN rs = 1 .. Len(rs)
  BY DEF Rows
<1>2. drawn \in SUBSET (0 .. Len(rs)) /\ drawn # {}
  BY <1>1
<1>3. last \in drawn /\ \A y \in drawn : y <= last
  <2> HIDE DEF drawn
  <2> QED
    BY <1>1, <1>2, GreatestNumber
<1>4. out = SubSeq(rs, 1, last)
  BY DEF TrimBlankRows
<1> HIDE DEF last, out
<1>5. last \in 0 .. Len(rs)
  BY <1>2, <1>3
<1>6. out \in Rows /\ Len(out) = last /\ \A i \in 1 .. last : out[i] = rs[i]
  BY <1>1, <1>4, <1>5 DEF Rows
<1>7. ASSUME NEW w, NEW c, Shows(rs, w, c) PROVE Shows(out, w, c)
  <2>1. PICK i \in 1 .. Len(rs) : Columns(rs[i]) <= w /\ Holds(rs[i], c)
    BY <1>7 DEF Shows
  <2>2. rs[i] # <<>>
    BY <2>1 DEF Holds
  <2>3. i \in drawn
    BY <1>1, <2>2
  <2>4. i \in 1 .. last
    BY <1>3, <1>5, <2>3
  <2> QED
    BY <1>6, <2>1, <2>4 DEF Shows
<1> QED
  BY <1>6, <1>7 DEF out

-----------------------------------------------------------------------------
(* From runs to cells.                                                     *)

\* A character of some runs.
Says(runs, c) == \E k \in 1 .. Len(runs) : \E i \in 1 .. Len(runs[k].text) : runs[k].text[i] = c

LEMMA RunIsItem == Run = Item(Nat, Style, Handle)
BY DEF Run, Item

LEMMA ThreeEdits ==
  ASSUME NEW r, NEW a, NEW b, NEW d
  PROVE  [r EXCEPT !.char = a, !.link = b, !.cite = d]
           = [[[r EXCEPT !.char = a] EXCEPT !.link = b] EXCEPT !.cite = d]
OBVIOUS

LEMMA RunCellsFacts ==
  ASSUME NEW run \in Run
  PROVE  /\ RunCells(run) \in Row /\ Len(RunCells(run)) = Len(run.text)
         /\ \A i \in 1 .. Len(run.text) : RunCells(run)[i].char = run.text[i]
<1> DEFINE none == <<>>
           cell(c) == [char |-> c, link |-> run.style.link, cite |-> run.style.cite,
                       field |-> None, names |-> none]
           out == RunCells(run)
<1>1. none \in Seq(Handle)
  OBVIOUS
<1>2. /\ run.text \in Seq(Nat) /\ Len(run.text) \in Nat /\ DOMAIN run.text = 1 .. Len(run.text)
      /\ run.style \in Style
  BY DEF Run
<1>3. run.style.link \in Handle \cup {None} /\ run.style.cite \in Handle \cup {None}
  BY <1>2 DEF Style
<1>4. ASSUME NEW c
      PROVE  [Blank EXCEPT !.char = c, !.link = run.style.link, !.cite = run.style.cite] = cell(c)
  <2> DEFINE link == run.style.link
             cite == run.style.cite
             shown == [char |-> Space, link |-> None, cite |-> None, field |-> None, names |-> none]
  <2>1. Blank = shown
    BY DEF Blank
  <2> HIDE DEF none, link, cite
  <2>2. [shown EXCEPT !.char = c, !.link = link, !.cite = cite]
          = [[[shown EXCEPT !.char = c] EXCEPT !.link = link] EXCEPT !.cite = cite]
    BY ThreeEdits
  <2> DEFINE one == [shown EXCEPT !.char = c]
  <2>3. one = [char |-> c, link |-> None, cite |-> None, field |-> None, names |-> none]
    OBVIOUS
  <2> HIDE DEF one
  <2> DEFINE two == [one EXCEPT !.link = link]
  <2>4. two = [char |-> c, link |-> link, cite |-> None, field |-> None, names |-> none]
    BY <2>3
  <2> HIDE DEF two
  <2>5. [two EXCEPT !.cite = cite] = [char |-> c, link |-> link, cite |-> cite, field |-> None, names |-> none]
    BY <2>4
  <2> HIDE DEF shown
  <2>6. [shown EXCEPT !.char = c, !.link = link, !.cite = cite]
          = [char |-> c, link |-> link, cite |-> cite, field |-> None, names |-> none]
    BY <2>2, <2>5 DEF one, two
  <2> QED
    BY <2>1, <2>6 DEF link, cite
<1> HIDE DEF none
<1>5. \A c \in Nat : cell(c) \in ScreenCell /\ cell(c).char = c
  BY <1>1, <1>3 DEF ScreenCell
<1> HIDE DEF cell
<1>6. out = [i \in 1 .. Len(run.text) |-> cell(run.text[i])]
  BY <1>2, <1>4 DEF RunCells
<1> HIDE DEF out
<1>7. \A i \in 1 .. Len(run.text) : run.text[i] \in Nat
  BY <1>2
<1>8. \A i \in 1 .. Len(run.text) : cell(run.text[i]) \in ScreenCell /\ cell(run.text[i]).char = run.text[i]
  BY <1>5, <1>7
<1>9. out \in Row /\ Len(out) = Len(run.text)
  BY <1>2, <1>6, <1>8 DEF Row
<1>10. \A i \in 1 .. Len(run.text) : out[i].char = run.text[i]
  BY <1>6, <1>8
<1> QED
  BY <1>9, <1>10 DEF out

Filling == [cells : Row, waiting : Seq(Handle)]

LEMMA AddRunFacts ==
  ASSUME NEW r \in Filling, NEW run \in Run
  PROVE  /\ AddRun(r, run) \in Filling
         /\ \A c : Holds(r.cells, c) \/ (\E i \in 1 .. Len(run.text) : run.text[i] = c)
                   => Holds(AddRun(r, run).cells, c)
<1> DEFINE waiting == AppendUnique(r.waiting, run.names)
           row == RunCells(run)
           named == NameFirst(row, waiting)
           none == <<>>
<1>1. r.cells \in Row /\ r.waiting \in Seq(Handle) /\ run.names \in Seq(Handle)
      /\ run.text \in Seq(Nat) /\ none \in Seq(Handle)
  BY DEF Filling, Run
<1>2. waiting \in Seq(Handle)
  BY <1>1, UniqueNames
<1> HIDE DEF waiting
<1>3. CASE run.text = <<>>
  <2>1. AddRun(r, run) = [cells |-> r.cells, waiting |-> waiting]
    BY <1>3 DEF AddRun, waiting
  <2>2. Len(run.text) = 0
    BY <1>3
  <2> QED
    BY <1>1, <1>2, <2>1, <2>2 DEF Filling
<1>4. CASE run.text # <<>>
  <2>1. AddRun(r, run) = [cells |-> r.cells \o named, waiting |-> none]
    BY <1>4 DEF AddRun, waiting
  <2>2. row \in Row /\ Len(row) = Len(run.text)
        /\ \A i \in 1 .. Len(run.text) : row[i].char = run.text[i]
    BY RunCellsFacts
  <2>3. row # <<>>
    BY <1>1, <1>4, <2>2 DEF Row
  <2> HIDE DEF row
  <2>4. named \in Row /\ \A c : Holds(named, c) <=> Holds(row, c)
    BY <1>2, <2>2, <2>3, NameFirstFacts
  <2> HIDE DEF named, none
  <2>5. r.cells \o named \in Row
    BY <1>1, <2>4 DEF Row
  <2>6. \A c : Holds(r.cells \o named, c) <=> Holds(r.cells, c) \/ Holds(named, c)
    BY <1>1, <2>4, HoldsConcat DEF Row
  <2>7. \A c : (\E i \in 1 .. Len(run.text) : run.text[i] = c) => Holds(row, c)
    BY <2>2 DEF Holds
  <2>8. AddRun(r, run) \in Filling /\ AddRun(r, run).cells = r.cells \o named
    BY <1>1, <2>1, <2>5 DEF Filling
  <2> QED
    BY <2>4, <2>6, <2>7, <2>8
<1> QED
  BY <1>3, <1>4

LEMMA RunsToCellsFacts ==
  ASSUME NEW runs \in Seq(Run)
  PROVE  /\ RunsToCells(runs) \in Row
         /\ \A c : Says(runs, c) => Holds(RunsToCells(runs), c)
<1> DEFINE N == Len(runs)
           added(n) == AddedRuns(runs)[n]
           Up(n, c) == \E k \in 1 .. N : k <= n /\ \E i \in 1 .. Len(runs[k].text) : runs[k].text[i] = c
           Good(n) == added(n) \in Filling /\ \A c : Up(n, c) => Holds(added(n).cells, c)
           S == {n \in 0 .. N : Good(n)}
<1>1. N \in Nat /\ \A n \in 1 .. N : runs[n] \in Run
  OBVIOUS
<1>2. /\ added(0) = [cells |-> <<>>, waiting |-> <<>>]
      /\ \A n \in 1 .. N : added(n) = AddRun(added(n - 1), runs[n])
  BY <1>1, AddedSteps
<1> HIDE DEF added, N
<1>3. Good(0)
  <2>1. added(0) \in Filling
    <3> DEFINE none == <<>>
    <3>1. none \in Row /\ none \in Seq(Handle)
      BY DEF Row
    <3>2. added(0) = [cells |-> none, waiting |-> none]
      BY <1>2
    <3> HIDE DEF none
    <3> QED
      BY <3>1, <3>2 DEF Filling
  <2>2. \A c : ~Up(0, c)
    BY <1>1
  <2> QED
    BY <2>1, <2>2
<1>4. ASSUME NEW n \in 1 .. N, Good(n - 1) PROVE Good(n)
  <2> DEFINE r == added(n - 1)
             own(c) == \E i \in 1 .. Len(runs[n].text) : runs[n].text[i] = c
  <2>1. r \in Filling /\ runs[n] \in Run /\ added(n) = AddRun(r, runs[n])
    BY <1>1, <1>2, <1>4
  <2>2. added(n) \in Filling /\ \A c : Holds(r.cells, c) \/ own(c) => Holds(added(n).cells, c)
    BY <2>1, AddRunFacts
  <2>3. ASSUME NEW c, Up(n, c) PROVE Up(n - 1, c) \/ own(c)
    <3>1. PICK k \in 1 .. N : k <= n /\ \E i \in 1 .. Len(runs[k].text) : runs[k].text[i] = c
      BY <2>3
    <3>2. CASE k = n
      BY <3>1, <3>2
    <3>3. CASE k # n
      <4>1. k <= n - 1
        BY <1>1, <3>1, <3>3
      <4> QED
        BY <3>1, <4>1
    <3> QED
      BY <3>2, <3>3
  <2>4. \A c : Up(n - 1, c) => Holds(r.cells, c)
    BY <1>4
  <2> HIDE DEF Up, own, r
  <2> QED
    BY <2>2, <2>3, <2>4
<1> HIDE DEF Good
<1>5. 0 \in S /\ \A n \in 1 .. N : n - 1 \in S => n \in S
  BY <1>1, <1>3, <1>4
<1> HIDE DEF S
<1>6. 0 .. N \subseteq S
  BY <1>1, <1>5, Induction
<1>7. Good(N)
  BY <1>1, <1>6 DEF S
<1>8. RunsToCells(runs) = added(N).cells
  BY DEF RunsToCells, added, N
<1>9. added(N).cells \in Row
  BY <1>7 DEF Good, Filling
<1>10. ASSUME NEW c, Says(runs, c) PROVE Up(N, c)
  BY <1>1, <1>10 DEF Says, N
<1> QED
  BY <1>7, <1>8, <1>9, <1>10 DEF Good

\* The characters that runs read as are theirs.
LEMMA ItemsSay ==
  ASSUME NEW Char, NEW Styles, NEW Name, NEW runs \in Seq(Item(Char, Styles, Name)),
         NEW c \in ToSet(RunsText(runs))
  PROVE  Says(runs, c)
<1> DEFINE N == Len(runs)
           styled(n) == StyledUpTo(runs)[n]
           C == StyledChar(Char, Styles)
           Known(n) == \A j \in 1 .. Len(styled(n)) : Says(runs, styled(n)[j].char)
           S == {n \in 0 .. N : Known(n)}
<1>1. N \in Nat /\ \A n \in 1 .. N : runs[n] \in Item(Char, Styles, Name)
  OBVIOUS
<1>2. /\ styled(0) = <<>>
      /\ \A n \in 0 .. N : styled(n) \in Seq(C)
      /\ \A n \in 1 .. N : styled(n) = styled(n - 1) \o Tagged(runs[n].text, runs[n].style)
  <2>2. /\ StyledUpTo(runs)[0] = <<>>
        /\ \A n \in 0 .. Len(runs) : StyledUpTo(runs)[n] \in Seq(StyledChar(Char, Styles))
        /\ \A n \in 1 .. Len(runs) :
              StyledUpTo(runs)[n] = Then(StyledUpTo(runs)[n - 1], Tagged(runs[n].text, runs[n].style))
    BY StyledFacts
  <2> QED
    BY <2>2, Zenon DEF Then, styled, N, C
<1> HIDE DEF styled, N
<1>3. 0 \in S
  BY <1>1, <1>2
<1>4. ASSUME NEW n \in 1 .. N, n - 1 \in S PROVE n \in S
  <2> DEFINE t == runs[n].text
             more == Tagged(t, runs[n].style)
             s == styled(n - 1)
  <2>1. t \in Seq(Char) /\ runs[n].style \in Styles
    BY <1>1 DEF Item
  <2>2. /\ more \in Seq(C) /\ Len(more) = Len(t)
        /\ \A i \in 1 .. Len(t) : more[i] = [char |-> t[i], style |-> runs[n].style]
    <3> DEFINE style == runs[n].style
    <3> HIDE DEF t, style, Known
    <3>1. t \in Seq(Char) /\ style \in Styles
      BY <2>1 DEF style
    <3> HIDE DEF more, s, S, C
    <3>2. /\ Tagged(t, style) \in Seq(StyledChar(Char, Styles))
          /\ Len(Tagged(t, style)) = Len(t)
          /\ \A i \in 1 .. Len(t) : Tagged(t, style)[i] = [char |-> t[i], style |-> style]
      BY <3>1, TaggedType
    <3> QED
      BY <3>2 DEF style, more, C
  <2>3. s \in Seq(C) /\ styled(n) = s \o more /\ n \in 0 .. N
    BY <1>1, <1>2
  <2>4. \A j \in 1 .. Len(s) : Says(runs, s[j].char)
    BY <1>4
  <2>5. \A i \in 1 .. Len(t) : Says(runs, t[i])
    BY <1>1 DEF Says, N
  <2> HIDE DEF more, s, t, C, S
  <2>6. /\ Len(s) \in Nat /\ Len(more) \in Nat /\ Len(s \o more) = Len(s) + Len(more)
        /\ \A i \in 1 .. Len(s) : (s \o more)[i] = s[i]
        /\ \A i \in 1 .. Len(more) : (s \o more)[Len(s) + i] = more[i]
    <3>1. s \in Seq(C) /\ more \in Seq(C)
      BY <2>2, <2>3
    <3> HIDE DEF Known
    <3> QED
      BY <3>1
  <2>7. ASSUME NEW j \in 1 .. Len(s \o more) PROVE Says(runs, (s \o more)[j].char)
    <3>1. CASE j \in 1 .. Len(s)
      BY <2>4, <2>6, <3>1
    <3>2. CASE j \notin 1 .. Len(s)
      <4> DEFINE i == j - Len(s)
      <4>1. i \in 1 .. Len(more) /\ j = Len(s) + i
        BY <2>6, <3>2
      <4> HIDE DEF i
      <4>2. (s \o more)[j] = [char |-> t[i], style |-> runs[n].style]
        BY <2>2, <2>6, <4>1
      <4>3. (s \o more)[j].char = t[i]
        BY <4>2
      <4> QED
        BY <2>2, <2>5, <4>1, <4>3
    <3> QED
      BY <3>1, <3>2
  <2> QED
    BY <2>3, <2>7 DEF S
<1> HIDE DEF S
<1>5. 0 .. N \subseteq S
  BY <1>1, <1>3, <1>4, Induction
<1>6. Known(N) /\ styled(N) \in Seq(C)
  BY <1>1, <1>2, <1>5 DEF S
<1>7. StyledText(runs) = styled(N)
  BY DEF StyledText, styled, N
<1>8. RunsText(runs) = [i \in 1 .. Len(styled(N)) |-> styled(N)[i].char]
  BY <1>6, <1>7 DEF RunsText, Unstyled
<1>9. PICK i \in 1 .. Len(styled(N)) : c = styled(N)[i].char
  BY <1>8 DEF ToSet
<1> QED
  BY <1>6, <1>9

LEMMA RunsTextSays ==
  ASSUME NEW runs \in Seq(Run), NEW c \in ToSet(RunsText(runs))
  PROVE  Says(runs, c)
BY RunIsItem, ItemsSay

LEMMA WrapRows ==
  ASSUME NEW runs \in Seq(Run), NEW w \in Nat
  PROVE  /\ Wrap(runs, w) \in Rows
         /\ w >= 2 => \A c : c # Space /\ Says(runs, c) => Shows(Wrap(runs, w), w, c)
<1> DEFINE cells == RunsToCells(runs)
<1>1. cells \in Row /\ \A c : Says(runs, c) => Holds(cells, c)
  BY RunsToCellsFacts
<1>2. Wrap(runs, w) = WrapCells(cells, w)
  BY DEF Wrap
<1> HIDE DEF cells
<1>3. cells \in Seq(ScreenCell)
  BY <1>1 DEF Row
<1>4. WrapCells(cells, w) \in Seq(Seq(ScreenCell))
  BY <1>3, InkAssumption, WrapCellsFacts
<1>5. ASSUME w >= 2, NEW c, c # Space, Holds(cells, c) PROVE Shows(WrapCells(cells, w), w, c)
  BY <1>3, <1>5, InkAssumption, ShowsWrap
<1> QED
  BY <1>1, <1>2, <1>4, <1>5 DEF Rows, Row

-----------------------------------------------------------------------------
(* The rows of the blocks are rows of the screen.                          *)

LEMMA ClipType ==
  ASSUME NEW row \in Row, NEW w \in Nat
  PROVE  Clip(row, w) \in Row
<1> DEFINE fits == {n \in 0 .. Len(row) : ColumnsUpTo(row)[n] <= w}
           last == Max(fits)
<1>1. Len(row) \in Nat /\ row \in Seq(ScreenCell)
  BY DEF Row
<1>2. ColumnsUpTo(row)[0] = 0
  BY <1>1, ColumnsFacts
<1>3. fits \in SUBSET (0 .. Len(row)) /\ fits # {}
  <2>1. 0 \in fits
    BY <1>1, <1>2
  <2> QED
    BY <2>1
<1>4. Clip(row, w) = SubSeq(row, 1, last)
  BY DEF Clip
<1> HIDE DEF fits
<1>5. last \in 0 .. Len(row)
  BY <1>1, <1>3, GreatestNumber
<1> HIDE DEF last
<1>6. SubSeq(row, 1, last) \in Seq(ScreenCell)
  BY <1>1, <1>5
<1> QED
  BY <1>4, <1>6 DEF Row

LEMMA CellsType ==
  ASSUME NEW n \in Nat
  PROVE  /\ Cells(n, Ink) \in Row /\ Len(Cells(n, Ink)) = n /\ Columns(Cells(n, Ink)) = n
         /\ Spaces(n) \in Row /\ Len(Spaces(n)) = n /\ Columns(Spaces(n)) = n
BY ScreenIsDrawable, SpacesFacts DEF Row

LEMMA ConcatRow ==
  ASSUME NEW s \in Row, NEW t \in Row
  PROVE  s \o t \in Row /\ Len(s \o t) = Len(s) + Len(t)
BY DEF Row

LEMMA OneRow ==
  ASSUME NEW row \in Row
  PROVE  <<row>> \in Rows
BY DEF Rows

LEMMA PlaceholderType ==
  ASSUME NEW w \in Nat
  PROVE  Placeholder(w) \in Row
<1>1. Cells(PlaceholderSize, Ink) \in Row
  BY LayoutAssumption, CellsType
<1> QED
  BY <1>1, ClipType DEF Placeholder

LEMMA MarkFieldType ==
  ASSUME NEW row \in Row, NEW id \in Nat \cup {None}
  PROVE  MarkField(row, id) \in Row
<1>1. Len(row) \in Nat /\ DOMAIN row = 1 .. Len(row) /\ \A i \in 1 .. Len(row) : row[i] \in ScreenCell
  BY DEF Row
<1>2. ASSUME NEW cell \in ScreenCell PROVE [cell EXCEPT !.field = id] \in ScreenCell
  BY DEF ScreenCell
<1>3. \A i \in 1 .. Len(row) : [row[i] EXCEPT !.field = id] \in ScreenCell
  BY <1>1, <1>2
<1>4. MarkField(row, id) = [i \in 1 .. Len(row) |-> [row[i] EXCEPT !.field = id]]
  BY <1>1 DEF MarkField
<1> HIDE DEF MarkField
<1> QED
  BY <1>1, <1>3, <1>4 DEF Row

LEMMA Halves == \A n \in Nat : n \div 2 \in Nat
OBVIOUS

LEMMA SeparatorType ==
  ASSUME NEW w \in Nat
  PROVE  SeparatorRow(w) \in Row
<1> DEFINE rule == IF RuleSize < w THEN RuleSize ELSE w
           side == (w - rule) \div 2
<1>1. rule \in Nat /\ w - rule \in Nat
  BY LayoutAssumption
<1>2. SeparatorRow(w) = Spaces(side) \o Cells(rule, Ink)
  BY DEF SeparatorRow
<1>3. side \in Nat
  <2> HIDE DEF rule
  <2> QED
    BY <1>1, Halves
<1> HIDE DEF rule, side
<1> QED
  BY <1>1, <1>2, <1>3, CellsType, ConcatRow

LEMMA ButtonType ==
  ASSUME NEW runs \in Seq(Run), NEW w \in Nat
  PROVE  ButtonRow(runs, w) \in Row
<1> DEFINE cells == RunsToCells(runs)
           bracket == Cells(2, Ink)
<1>1. cells \in Row /\ bracket \in Row
  BY RunsToCellsFacts, CellsType
<1>2. ButtonRow(runs, w) = Clip(bracket \o cells \o bracket, w)
  BY DEF ButtonRow
<1> HIDE DEF cells, bracket
<1>3. bracket \o cells \in Row
  BY <1>1, ConcatRow
<1>4. bracket \o cells \o bracket \in Row
  BY <1>1, <1>3, ConcatRow
<1> QED
  BY <1>2, <1>4, ClipType

LEMMA AddCharacterType ==
  ASSUME NEW lines \in Rows, lines # <<>>, NEW c \in Nat
  PROVE  AddCharacter(lines, c) \in Rows /\ AddCharacter(lines, c) # <<>>
<1> DEFINE none == <<>>
           cell == [Blank EXCEPT !.char = c]
           last == Len(lines)
           longer == Append(lines[last], cell)
<1>1. last \in Nat /\ last \in DOMAIN lines /\ DOMAIN lines = 1 .. last /\ lines[last] \in Row
  BY DEF Rows
<1>2. cell \in ScreenCell
  <2> DEFINE shown(x) == [char |-> x, link |-> None, cite |-> None, field |-> None, names |-> none]
  <2>1. none \in Seq(Handle)
    OBVIOUS
  <2>2. cell = shown(c)
    BY DEF Blank
  <2> HIDE DEF none, cell
  <2>3. shown(c) \in ScreenCell
    BY <2>1 DEF ScreenCell
  <2> QED
    BY <2>2, <2>3
<1>3. CASE c = Space
  <2>1. AddCharacter(lines, c) = Append(lines, none)
    BY <1>3 DEF AddCharacter
  <2>2. none \in Row
    BY DEF Row
  <2> HIDE DEF none
  <2> QED
    BY <2>1, <2>2 DEF Rows
<1>4. CASE c # Space
  <2>1. AddCharacter(lines, c) = [lines EXCEPT ![last] = longer]
    BY <1>4 DEF AddCharacter
  <2> HIDE DEF cell
  <2>2. longer \in Row
    BY <1>1, <1>2 DEF Row
  <2> HIDE DEF longer
  <2>3. [lines EXCEPT ![last] = longer] \in Rows
    BY <1>1, <2>2 DEF Rows
  <2>4. Len([lines EXCEPT ![last] = longer]) = Len(lines)
    BY DEF Rows
  <2>5. Len(lines) # 0
    BY <1>1
  <2> QED
    BY <2>1, <2>3, <2>4, <2>5
<1> QED
  BY <1>3, <1>4

LEMMA LinesType ==
  ASSUME NEW t \in Seq(Nat)
  PROVE  Lines(t) \in Rows
<1> DEFINE N == Len(t)
           lines == LinesUpTo(t)
           S == {n \in 0 .. N : lines[n] \in Rows /\ lines[n] # <<>>}
<1>1. N \in Nat /\ \A n \in 1 .. N : t[n] \in Nat
  OBVIOUS
<1>2. lines[0] = <<<<>>>> /\ \A n \in 1 .. N : lines[n] = AddCharacter(lines[n - 1], t[n])
  BY <1>1, LinesSteps
<1> HIDE DEF lines, N
<1>3. 0 \in S
  <2> DEFINE none == <<>>
             one == <<none>>
  <2>1. none \in Row
    BY DEF Row
  <2>2. one # <<>> /\ lines[0] = one
    BY <1>2
  <2> HIDE DEF none
  <2>3. one \in Rows
    BY <2>1, OneRow
  <2> HIDE DEF one
  <2> QED
    BY <1>1, <2>2, <2>3
<1>4. ASSUME NEW n \in 1 .. N, n - 1 \in S PROVE n \in S
  <2>1. lines[n - 1] \in Rows /\ lines[n - 1] # <<>>
    BY <1>4
  <2>2. lines[n] \in Rows /\ lines[n] # <<>>
    BY <1>1, <1>2, <2>1, AddCharacterType
  <2>3. n \in 0 .. N
    BY <1>1
  <2> QED
    BY <2>2, <2>3
<1> HIDE DEF S
<1>5. 0 .. N \subseteq S
  BY <1>1, <1>3, <1>4, Induction
<1>6. N \in S
  BY <1>1, <1>5
<1> QED
  BY <1>6 DEF S, Lines, lines, N

LEMMA VerbatimType ==
  ASSUME NEW t \in Seq(Nat), NEW w \in Nat
  PROVE  VerbatimRows(t, w) \in Rows
<1> DEFINE lines == Lines(t)
<1>1. lines \in Rows
  BY LinesType
<1>2. VerbatimRows(t, w) = ClipAll(lines, w)
  BY DEF VerbatimRows
<1> HIDE DEF lines
<1>3. Len(lines) \in Nat /\ DOMAIN lines = 1 .. Len(lines) /\ \A i \in 1 .. Len(lines) : lines[i] \in Row
  BY <1>1 DEF Rows
<1>4. \A i \in 1 .. Len(lines) : Clip(lines[i], w) \in Row
  BY <1>3, ClipType
<1>5. ClipAll(lines, w) = [i \in 1 .. Len(lines) |-> Clip(lines[i], w)]
  BY <1>3 DEF ClipAll
<1> QED
  BY <1>2, <1>3, <1>4, <1>5 DEF Rows

\* A list marker is as wide as it has cells.
LEMMA BulletFacts ==
  ASSUME NEW n \in Nat
  PROVE  LET bullet == Cells(n, Ink) \o Spaces(1)
         IN  bullet \in Row /\ Len(bullet) \in Nat /\ Columns(bullet) = Len(bullet)
<1> DEFINE ink == Cells(n, Ink)
           gap == Spaces(1)
<1>1. ink \in Row /\ Len(ink) = n /\ Columns(ink) = n
  BY CellsType
<1>2. gap \in Row /\ Len(gap) = 1 /\ Columns(gap) = 1
  BY CellsType
<1> HIDE DEF ink, gap
<1>3. ink \o gap \in Row /\ Len(ink \o gap) = n + 1
  BY <1>1, <1>2, ConcatRow
<1>4. Columns(ink \o gap) = Columns(ink) + Columns(gap)
  BY <1>1, <1>2, ConcatColumns DEF Row
<1>5. ink \o gap \in Row /\ Len(ink \o gap) \in Nat /\ Columns(ink \o gap) = Len(ink \o gap)
  BY <1>1, <1>2, <1>3, <1>4
<1> QED
  BY <1>5 DEF ink, gap

LEMMA DigitsType ==
  ASSUME NEW n \in Nat
  PROVE  Digits(n) \in Nat
<1> DEFINE S == {1} \cup {k \in 2 .. n : 10^(k - 1) <= n}
<1>1. S \in SUBSET (0 .. n + 1) /\ n + 1 \in Nat /\ S # {}
  OBVIOUS
<1>2. Digits(n) = Max(S)
  BY DEF Digits
<1> HIDE DEF S
<1>3. Bounded(S)
  BY <1>1 DEF Bounded
<1> QED
  BY <1>1, <1>2, <1>3, GreatestOfBounded

LEMMA MarkerFacts ==
  ASSUME NEW kind, NEW i \in Nat
  PROVE  /\ ListMarker(kind, i) \in Row
         /\ Len(ListMarker(kind, i)) \in Nat
         /\ Columns(ListMarker(kind, i)) = Len(ListMarker(kind, i))
<1> DEFINE n == IF kind = "ol" THEN Digits(i) + 1 ELSE 1
<1>1. n \in Nat
  BY DigitsType
<1>2. ListMarker(kind, i) = Cells(n, Ink) \o Spaces(1)
  BY DEF ListMarker
<1> HIDE DEF n
<1> QED
  BY <1>1, <1>2, BulletFacts

\* Blank rows.
LEMMA SpacingType ==
  ASSUME NEW kind
  PROVE  [i \in 1 .. SpacingAfter(kind) |-> <<>>] \in Rows
<1> DEFINE none == <<>>
<1>1. SpacingAfter(kind) \in Nat
  BY DEF SpacingAfter
<1>2. none \in Row
  BY DEF Row
<1> HIDE DEF none
<1>3. [i \in 1 .. SpacingAfter(kind) |-> none] \in Rows
  BY <1>1, <1>2 DEF Rows
<1> QED
  BY <1>3 DEF none

LEMMA NoRowsType == <<>> \in Rows /\ <<>> \in Seq(Handle)
BY DEF Rows

-----------------------------------------------------------------------------
(* Nodes, level by level.                                                  *)

LEMMA PlainIsAStyle == Plain \in Style
BY DEF Plain, Style

LEMMA LongerLists ==
  ASSUME NEW D, NEW E, D \subseteq E
  PROVE  Seq(D) \subseteq Seq(E)
OBVIOUS

LEMMA NodesGrow ==
  ASSUME NEW D, NEW E, D \subseteq E
  PROVE  NodesOver(D) \subseteq NodesOver(E)
<1>1. Seq(D) \subseteq Seq(E)
  BY LongerLists
<1> SUFFICES ASSUME NEW n \in NodesOver(D) PROVE n \in NodesOver(E)
  OBVIOUS
<1> DEFINE D1 == Seq(D)
           E1 == Seq(E)
<1> HIDE DEF D1, E1
<1>2. D1 \subseteq E1
  BY <1>1 DEF D1, E1
<1>3. n \in [kind : Kinds, of : Seq(Handle), runs : Seq(Run), kids : D1,
             id : Nat \cup {None}, names : Seq(Handle), text : Seq(Nat),
             options : Seq(Option), hide : BOOLEAN]
  BY DEF NodesOver, D1
<1>4. n \in [kind : Kinds, of : Seq(Handle), runs : Seq(Run), kids : E1,
             id : Nat \cup {None}, names : Seq(Handle), text : Seq(Nat),
             options : Seq(Option), hide : BOOLEAN]
  BY <1>2, <1>3
<1> QED
  BY <1>4 DEF NodesOver, E1

LEMMA MoreLevels ==
  /\ \A n \in 1 .. Height : NodesOf[n - 1] \subseteq NodesOf[n]
  /\ \A n \in 0 .. Height : NodesOf[n] \subseteq AnyNode
<1> DEFINE S == {n \in 0 .. Height - 1 : NodesOf[n] \subseteq NodesOf[n + 1]}
           T == {n \in 0 .. Height : NodesOf[Height - n] \subseteq AnyNode}
<1>1. Height \in Nat /\ Height - 1 \in Nat
  BY LimitsAssumption DEF Height, Levels
<1>2. 0 \in S
  BY <1>1, NodeSteps
<1>3. ASSUME NEW n \in 1 .. Height - 1, n - 1 \in S PROVE n \in S
  <2>1. n \in 1 .. Height /\ n + 1 \in 1 .. Height /\ (n + 1) - 1 = n /\ (n - 1) + 1 = n
    BY <1>1
  <2>2. NodesOf[n] = NodesOver(NodesOf[n - 1]) /\ NodesOf[n + 1] = NodesOver(NodesOf[n])
    <3>1. \A k \in 1 .. Height : NodesOf[k] = NodesOver(NodesOf[k - 1])
      BY NodeSteps
    <3>2. NodesOf[n + 1] = NodesOver(NodesOf[(n + 1) - 1])
      BY <2>1, <3>1
    <3> QED
      BY <2>1, <3>1, <3>2
  <2>3. NodesOf[n - 1] \subseteq NodesOf[n]
    BY <1>3, <2>1
  <2>4. NodesOf[n] \subseteq NodesOf[n + 1]
    BY <2>2, <2>3, NodesGrow
  <2> QED
    BY <1>1, <2>4
<1> HIDE DEF S
<1>4. 0 .. Height - 1 \subseteq S
  BY <1>1, <1>2, <1>3, Induction
<1>5. ASSUME NEW n \in 1 .. Height PROVE NodesOf[n - 1] \subseteq NodesOf[n]
  <2>1. n - 1 \in 0 .. Height - 1 /\ (n - 1) + 1 = n
    BY <1>1
  <2> QED
    BY <1>4, <2>1 DEF S
<1>6. 0 \in T
  BY <1>1 DEF AnyNode
<1>7. ASSUME NEW n \in 1 .. Height, n - 1 \in T PROVE n \in T
  <2> DEFINE k == Height - (n - 1)
  <2>1. k \in 1 .. Height /\ k - 1 = Height - n /\ n \in 0 .. Height
    BY <1>1
  <2>2. NodesOf[k] \subseteq AnyNode
    BY <1>7
  <2> HIDE DEF k
  <2>3. NodesOf[k - 1] \subseteq NodesOf[k]
    BY <1>5, <2>1
  <2>4. NodesOf[Height - n] \subseteq AnyNode
    BY <2>1, <2>2, <2>3
  <2> QED
    BY <2>1, <2>4
<1> HIDE DEF T
<1>8. 0 .. Height \subseteq T
  BY <1>1, <1>6, <1>7, Induction
<1>9. ASSUME NEW n \in 0 .. Height PROVE NodesOf[n] \subseteq AnyNode
  <2>1. Height - n \in 0 .. Height /\ Height - (Height - n) = n
    BY <1>1
  <2>2. Height - n \in T
    BY <1>8, <2>1
  <2> QED
    BY <2>1, <2>2 DEF T
<1> QED
  BY <1>5, <1>9

\* A node of a level, and the nodes in it.
LEMMA NodeParts ==
  ASSUME NEW D, NEW node \in NodesOver(D)
  PROVE  /\ node.kind \in Kinds /\ node.of \in Seq(Handle) /\ node.runs \in Seq(Run)
         /\ node.kids \in Seq(D) /\ node.id \in Nat \cup {None} /\ node.names \in Seq(Handle)
         /\ node.text \in Seq(Nat) /\ node.options \in Seq(Option) /\ node.hide \in BOOLEAN
BY DEF NodesOver

LEMMA NodeOfLevel ==
  ASSUME NEW n \in 0 .. Height, NEW node \in NodesOf[n]
  PROVE  n \in 1 .. Height /\ n - 1 \in 0 .. Height /\ node \in NodesOver(NodesOf[n - 1])
<1>1. Height \in Nat /\ NodesOf[0] = {} /\ \A k \in 1 .. Height : NodesOf[k] = NodesOver(NodesOf[k - 1])
  BY HeightType, NodeSteps
<1>2. n # 0
  BY <1>1
<1>3. n \in 1 .. Height /\ n - 1 \in 0 .. Height
  BY <1>1, <1>2
<1> QED
  BY <1>1, <1>3

\* A level holds what is in its nodes.
HoldsItsNodes(D) == \A node \in D : node \in NodesOver(D)

LEMMA LevelsHoldTheirNodes ==
  ASSUME NEW n \in 0 .. Height
  PROVE  HoldsItsNodes(NodesOf[n])
<1> SUFFICES ASSUME NEW node \in NodesOf[n] PROVE node \in NodesOver(NodesOf[n])
  BY DEF HoldsItsNodes
<1>1. n \in 1 .. Height /\ node \in NodesOver(NodesOf[n - 1])
  BY NodeOfLevel
<1>2. NodesOf[n - 1] \subseteq NodesOf[n]
  BY <1>1, MoreLevels
<1> QED
  BY <1>1, <1>2, NodesGrow

LEMMA AnyNodeHoldsItsNodes == HoldsItsNodes(AnyNode)
<1>1. Height \in 0 .. Height
  BY HeightType
<1> QED
  BY <1>1, LevelsHoldTheirNodes DEF AnyNode

LEMMA KidsWithin ==
  ASSUME NEW D, HoldsItsNodes(D), NEW S \in SUBSET D
  PROVE  Kids(S) \subseteq D
<1> SUFFICES ASSUME NEW node \in S PROVE ToSet(node.kids) \subseteq D
  BY DEF Kids
<1>1. node.kids \in Seq(D)
  BY NodeParts DEF HoldsItsNodes
<1> QED
  BY <1>1, ToSetType

-----------------------------------------------------------------------------
(* The runs collected of the nodes in a cell.                              *)

\* What collecting from the nodes of D does: it keeps the runs there were, and
\* adds what the node reads as.
Collects(below, texts, D) ==
    \A node \in D : \A runs \in Seq(Run) :
       /\ below[node][runs] \in Seq(Run)
       /\ \A c : Says(runs, c) \/ c \in texts[node] => Says(below[node][runs], c)

LEMMA SaysConcat ==
  ASSUME NEW runs \in Seq(Run), NEW more \in Seq(Run)
  PROVE  /\ runs \o more \in Seq(Run)
         /\ \A c : Says(runs, c) \/ Says(more, c) => Says(runs \o more, c)
<1> DEFINE both == runs \o more
<1>1. both \in Seq(Run)
  OBVIOUS
<1>2. /\ Len(runs) \in Nat /\ Len(more) \in Nat /\ Len(both) = Len(runs) + Len(more)
      /\ \A i \in 1 .. Len(runs) : both[i] = runs[i]
      /\ \A i \in 1 .. Len(more) : both[Len(runs) + i] = more[i]
  OBVIOUS
<1> HIDE DEF both
<1>3. ASSUME NEW c, Says(runs, c) PROVE Says(both, c)
  <2>1. PICK k \in 1 .. Len(runs) : \E i \in 1 .. Len(runs[k].text) : runs[k].text[i] = c
    BY <1>3 DEF Says
  <2>2. k \in 1 .. Len(both) /\ both[k] = runs[k]
    BY <1>2
  <2> QED
    BY <2>1, <2>2 DEF Says
<1>4. ASSUME NEW c, Says(more, c) PROVE Says(both, c)
  <2>1. PICK k \in 1 .. Len(more) : \E i \in 1 .. Len(more[k].text) : more[k].text[i] = c
    BY <1>4 DEF Says
  <2>2. Len(runs) + k \in 1 .. Len(both) /\ both[Len(runs) + k] = more[k]
    BY <1>2
  <2> QED
    BY <2>1, <2>2 DEF Says
<1> QED
  BY <1>1, <1>3, <1>4 DEF both

LEMMA AppendBlockOK ==
  ASSUME NEW runs \in Seq(Run), NEW block \in Seq(Run)
  PROVE  /\ AppendBlockRuns(runs, block) \in Seq(Run)
         /\ \A c : Says(runs, c) \/ Says(block, c) => Says(AppendBlockRuns(runs, block), c)
<1> DEFINE none == <<>>
           between == IF runs = <<>> THEN <<>> ELSE <<SpaceRun>>
<1>1. CASE block = <<>>
  <2>1. Len(block) = 0
    BY <1>1
  <2>2. \A c : ~Says(block, c)
    BY <2>1 DEF Says
  <2> QED
    BY <1>1, <2>2 DEF AppendBlockRuns
<1>2. CASE block # <<>>
  <2>1. SpaceRun \in Run
    <3> DEFINE one == <<Space>>
    <3>1. one \in Seq(Nat) /\ none \in Seq(Handle)
      BY DEF Space
    <3> HIDE DEF one, none
    <3>2. [text |-> one, style |-> Plain, names |-> none] \in Run
      BY <3>1, PlainIsAStyle DEF Run
    <3> QED
      BY <3>2 DEF SpaceRun, one, none
  <2>2. between \in Seq(Run)
    BY <2>1
  <2>3. AppendBlockRuns(runs, block) = runs \o between \o block
    BY <1>2 DEF AppendBlockRuns
  <2> HIDE DEF between
  <2>4. /\ runs \o between \in Seq(Run)
        /\ \A c : Says(runs, c) \/ Says(between, c) => Says(runs \o between, c)
    BY <2>2, SaysConcat
  <2> DEFINE first == runs \o between
  <2> HIDE DEF first
  <2>5. first \in Seq(Run) /\ \A c : Says(runs, c) => Says(first, c)
    BY <2>4 DEF first
  <2>6. first \o block \in Seq(Run) /\ \A c : Says(first, c) \/ Says(block, c) => Says(first \o block, c)
    BY <2>5, SaysConcat
  <2>7. AppendBlockRuns(runs, block) = first \o block
    BY <2>3 DEF first
  <2> QED
    BY <2>5, <2>6, <2>7
<1> QED
  BY <1>1, <1>2

LEMMA RunsUpToOK ==
  ASSUME NEW below, NEW texts, NEW D, Collects(below, texts, D),
         NEW nodes \in Seq(D), NEW runs \in Seq(Run)
  PROVE  LET out == RunsUpTo(below, nodes, runs)[Len(nodes)]
         IN  /\ out \in Seq(Run)
             /\ \A c : Says(runs, c) \/ c \in Within(texts, ToSet(nodes)) => Says(out, c)
<1> DEFINE N == Len(nodes)
           out(n) == RunsUpTo(below, nodes, runs)[n]
           Read(n, c) == \E k \in 1 .. N : k <= n /\ c \in texts[nodes[k]]
           Good(n) == out(n) \in Seq(Run) /\ \A c : Says(runs, c) \/ Read(n, c) => Says(out(n), c)
           S == {n \in 0 .. N : Good(n)}
<1>1. N \in Nat /\ DOMAIN nodes = 1 .. N /\ \A n \in 1 .. N : nodes[n] \in D
  OBVIOUS
<1>2. out(0) = runs /\ \A n \in 1 .. N : out(n) = below[nodes[n]][out(n - 1)]
  BY <1>1, RunsSteps
<1> HIDE DEF out, N
<1>3. 0 \in S
  <2>1. \A c : ~Read(0, c)
    BY <1>1
  <2> QED
    BY <1>1, <1>2, <2>1
<1>4. ASSUME NEW n \in 1 .. N, n - 1 \in S PROVE n \in S
  <2> DEFINE r == out(n - 1)
  <2>1. r \in Seq(Run) /\ \A c : Says(runs, c) \/ Read(n - 1, c) => Says(r, c)
    BY <1>4
  <2>2. nodes[n] \in D /\ out(n) = below[nodes[n]][r] /\ n \in 0 .. N
    BY <1>1, <1>2
  <2> HIDE DEF r
  <2>3. out(n) \in Seq(Run) /\ \A c : Says(r, c) \/ c \in texts[nodes[n]] => Says(out(n), c)
    BY <2>1, <2>2 DEF Collects
  <2>4. ASSUME NEW c, Read(n, c) PROVE Read(n - 1, c) \/ c \in texts[nodes[n]]
    <3>1. PICK k \in 1 .. N : k <= n /\ c \in texts[nodes[k]]
      BY <2>4
    <3>2. k = n \/ k <= n - 1
      BY <1>1, <3>1
    <3> QED
      BY <3>1, <3>2
  <2> HIDE DEF Read
  <2> QED
    BY <2>1, <2>2, <2>3, <2>4
<1> HIDE DEF S
<1>5. 0 .. N \subseteq S
  BY <1>1, <1>3, <1>4, Induction
<1>6. Good(N)
  BY <1>1, <1>5 DEF S
<1>7. ASSUME NEW c, c \in Within(texts, ToSet(nodes)) PROVE Read(N, c)
  BY <1>1, <1>7 DEF Within, ToSet
<1> HIDE DEF Read
<1> QED
  BY <1>6, <1>7 DEF out, N

LEMMA CollectNodeRunsOK ==
  ASSUME NEW below, NEW texts, NEW D, Collects(below, texts, D),
         NEW node \in NodesOver(D), NEW runs \in Seq(Run)
  PROVE  LET out == CollectNodeRuns(below, node, runs)
         IN  /\ out \in Seq(Run)
             /\ \A c : Says(runs, c) \/ c \in LineTextOf(texts, node) => Says(out, c)
<1> DEFINE out == CollectNodeRuns(below, node, runs)
           Good(o) == o \in Seq(Run) /\ \A c : Says(runs, c) \/ c \in LineTextOf(texts, node) => Says(o, c)
<1>1. /\ node.kind \in Kinds /\ node.runs \in Seq(Run) /\ node.kids \in Seq(D)
      /\ node.names \in Seq(Handle)
  BY NodeParts
<1>2. CASE node.kind \in Heading \cup {"p"}
  <2>1. out = AppendBlockRuns(runs, node.runs) /\ LineTextOf(texts, node) = OwnText(node)
    <3>1. out = AppendBlockRuns(runs, node.runs)
      BY <1>2 DEF CollectNodeRuns, Heading, Lists
    <3>2. node.kind \in {"p", "h1"}
      BY <1>2 DEF Heading
    <3>3. LineTextOf(texts, node) = OwnText(node)
      BY <3>2 DEF LineTextOf, Lists
    <3> QED
      BY <3>1, <3>3
  <2>2. \A c \in OwnText(node) : Says(node.runs, c)
    BY <1>1, RunsTextSays DEF OwnText
  <2>3. out \in Seq(Run) /\ \A c : Says(runs, c) \/ Says(node.runs, c) => Says(out, c)
    BY <1>1, <2>1, AppendBlockOK
  <2> HIDE DEF out
  <2>4. Good(out)
    BY <2>1, <2>2, <2>3
  <2> QED
    BY <2>4 DEF out
<1>3. CASE node.kind \in Lists \cup {"li", "blockquote"}
  <2>1. /\ out = RunsUpTo(below, node.kids, runs)[Len(node.kids)]
        /\ LineTextOf(texts, node) = Within(texts, ToSet(node.kids))
    BY <1>3 DEF CollectNodeRuns, LineTextOf, Heading, Lists
  <2>2. out \in Seq(Run) /\ \A c : Says(runs, c) \/ c \in Within(texts, ToSet(node.kids)) => Says(out, c)
    BY <1>1, <2>1, RunsUpToOK
  <2> HIDE DEF out
  <2>3. Good(out)
    BY <2>1, <2>2
  <2> QED
    BY <2>3 DEF out
<1>4. CASE node.kind = "anchor"
  <2> DEFINE one == <<AnchorOnlyRun(node.names)>>
             none == <<>>
  <2>1. out = Append(runs, AnchorOnlyRun(node.names)) /\ LineTextOf(texts, node) = {}
    BY <1>4 DEF CollectNodeRuns, LineTextOf, Heading, Lists
  <2>2. AnchorOnlyRun(node.names) \in Run
    <3>1. none \in Seq(Nat)
      OBVIOUS
    <3> HIDE DEF none
    <3>2. [text |-> none, style |-> Plain, names |-> node.names] \in Run
      BY <1>1, <3>1, PlainIsAStyle DEF Run
    <3> QED
      BY <3>2 DEF AnchorOnlyRun, none
  <2>3. one \in Seq(Run) /\ out = runs \o one
    BY <2>1, <2>2
  <2> HIDE DEF one, out
  <2>4. out \in Seq(Run) /\ \A c : Says(runs, c) \/ Says(one, c) => Says(out, c)
    BY <2>3, SaysConcat
  <2>5. Good(out)
    BY <2>1, <2>4
  <2> QED
    BY <2>5 DEF out
<1>5. CASE node.kind \notin Heading \cup {"p", "li", "blockquote", "anchor"} \cup Lists
  <2>1. out = runs /\ LineTextOf(texts, node) = {}
    BY <1>5 DEF CollectNodeRuns, LineTextOf, Heading, Lists
  <2> QED
    BY <2>1
<1> QED
  BY <1>2, <1>3, <1>4, <1>5

LEMMA NodeRunsOK ==
  \A n \in 0 .. Height : Collects(NodeRuns[n], LineText[n], NodesOf[n])
<1> DEFINE S == {n \in 0 .. Height : Collects(NodeRuns[n], LineText[n], NodesOf[n])}
<1>1. Height \in Nat
  BY HeightType
<1>2. 0 \in S
  BY <1>1, NodeSteps DEF Collects
<1>3. ASSUME NEW n \in 1 .. Height, n - 1 \in S PROVE n \in S
  <2> DEFINE below == NodeRuns[n - 1]
             texts == LineText[n - 1]
             D == NodesOf[n - 1]
  <2>1. Collects(below, texts, D) /\ n \in 0 .. Height
    BY <1>1, <1>3
  <2>2. NodeRuns[n] = OneRuns(below) /\ LineText[n] = OneLine(texts) /\ NodesOf[n] = NodesOver(D)
    BY RunsOfSteps, LineTextSteps, NodeSteps
  <2>3. NodesOf[n] \subseteq AnyNode
    BY <2>1, MoreLevels
  <2> HIDE DEF below, texts, D
  <2>4. ASSUME NEW node \in NodesOf[n], NEW runs \in Seq(Run)
        PROVE  /\ NodeRuns[n][node][runs] \in Seq(Run)
               /\ \A c : Says(runs, c) \/ c \in LineText[n][node] => Says(NodeRuns[n][node][runs], c)
    <3> DEFINE out == CollectNodeRuns(below, node, runs)
    <3>1. node \in AnyNode /\ node \in NodesOver(D)
      BY <2>2, <2>3
    <3>2. NodeRuns[n][node][runs] = out
      BY <2>2, <3>1 DEF OneRuns
    <3>3. LineText[n][node] = LineTextOf(texts, node)
      BY <2>2, <3>1 DEF OneLine
    <3>4. out \in Seq(Run) /\ \A c : Says(runs, c) \/ c \in LineTextOf(texts, node) => Says(out, c)
      BY <2>1, <3>1, CollectNodeRunsOK
    <3> HIDE DEF out
    <3> QED
      BY <3>2, <3>3, <3>4
  <2>5. Collects(NodeRuns[n], LineText[n], NodesOf[n])
    BY <2>4 DEF Collects
  <2> QED
    BY <2>1, <2>5
<1> HIDE DEF S
<1>4. 0 .. Height \subseteq S
  BY <1>1, <1>2, <1>3, Induction
<1> QED
  BY <1>4 DEF S

-----------------------------------------------------------------------------
(* A table that holds data, as rows.                                       *)

LEMMA CellRunsOK ==
  ASSUME NEW nodes \in Seq(AnyNode)
  PROVE  /\ CellRuns(nodes) \in Seq(Run)
         /\ \A c \in Within(LineText[Height], ToSet(nodes)) : Says(CellRuns(nodes), c)
<1> DEFINE none == <<>>
           below == NodeRuns[Height]
           texts == LineText[Height]
<1>1. Collects(below, texts, AnyNode)
  <2>1. Height \in 0 .. Height
    BY HeightType
  <2> QED
    BY <2>1, NodeRunsOK DEF AnyNode
<1>2. none \in Seq(Run)
  OBVIOUS
<1>3. CellRuns(nodes) = RunsUpTo(below, nodes, none)[Len(nodes)]
  BY DEF CellRuns
<1> HIDE DEF none, below, texts
<1>4. LET out == RunsUpTo(below, nodes, none)[Len(nodes)]
      IN  /\ out \in Seq(Run)
          /\ \A c : Says(none, c) \/ c \in Within(texts, ToSet(nodes)) => Says(out, c)
  BY <1>1, <1>2, RunsUpToOK
<1> QED
  BY <1>3, <1>4 DEF texts

LEMMA GridCellOK ==
  ASSUME NEW cell \in AnyNode
  PROVE  /\ GridCell(cell) \in Entry(ScreenCell)
         /\ GridCell(cell).header <=> cell.kind = "th"
         /\ \A c \in Within(LineText[Height], ToSet(cell.kids)) : Holds(GridCell(cell).content, c)
<1> DEFINE runs == CellRuns(cell.kids)
           header == cell.kind = "th"
           content == RunsToCells(runs)
<1>1. cell.kids \in Seq(AnyNode)
  BY AnyNodeHoldsItsNodes, NodeParts DEF HoldsItsNodes
<1>2. runs \in Seq(Run) /\ \A c \in Within(LineText[Height], ToSet(cell.kids)) : Says(runs, c)
  BY <1>1, CellRunsOK
<1>3. GridCell(cell) = [header |-> header, content |-> content]
  BY DEF GridCell
<1>4. header \in BOOLEAN
  OBVIOUS
<1> HIDE DEF runs
<1>5. content \in Row /\ \A c : Says(runs, c) => Holds(content, c)
  BY <1>2, RunsToCellsFacts
<1> HIDE DEF content
<1>6. GridCell(cell) \in Entry(ScreenCell)
  <2> HIDE DEF header
  <2> QED
    BY <1>3, <1>4, <1>5 DEF Entry, Row
<1>7. GridCell(cell).header = header /\ GridCell(cell).content = content
  <2> HIDE DEF header
  <2> QED
    BY <1>3
<1> QED
  BY <1>2, <1>5, <1>6, <1>7

LEMMA GridOK ==
  ASSUME NEW trs \in Seq(AnyNode)
  PROVE  /\ Grid(trs) \in GridOf(ScreenCell) /\ Len(Grid(trs)) = Len(trs)
         /\ \A i \in 1 .. Len(trs) :
               /\ trs[i].kids \in Seq(AnyNode) /\ Len(Grid(trs)[i]) = Len(trs[i].kids)
               /\ \A j \in 1 .. Len(trs[i].kids) : Grid(trs)[i][j] = GridCell(trs[i].kids[j])
<1> DEFINE E == Entry(ScreenCell)
           line(i) == [j \in 1 .. Len(trs[i].kids) |-> GridCell(trs[i].kids[j])]
<1>1. Len(trs) \in Nat /\ DOMAIN trs = 1 .. Len(trs) /\ \A i \in 1 .. Len(trs) : trs[i] \in AnyNode
  OBVIOUS
<1>2. \A i \in 1 .. Len(trs) : trs[i].kids \in Seq(AnyNode)
  BY <1>1, AnyNodeHoldsItsNodes, NodeParts DEF HoldsItsNodes
<1>3. ASSUME NEW i \in 1 .. Len(trs)
      PROVE  /\ line(i) \in Seq(E) /\ Len(line(i)) = Len(trs[i].kids)
             /\ \A j \in 1 .. Len(trs[i].kids) : line(i)[j] = GridCell(trs[i].kids[j])
             /\ line(i) = [j \in DOMAIN trs[i].kids |-> GridCell(trs[i].kids[j])]
  <2> DEFINE s == trs[i].kids
  <2>1. s \in Seq(AnyNode)
    BY <1>2
  <2> HIDE DEF s
  <2>2. Len(s) \in Nat /\ DOMAIN s = 1 .. Len(s) /\ \A j \in 1 .. Len(s) : s[j] \in AnyNode
    BY <2>1
  <2>3. \A j \in 1 .. Len(s) : GridCell(s[j]) \in E
    BY <2>2, GridCellOK
  <2> HIDE DEF E
  <2>4. /\ [j \in 1 .. Len(s) |-> GridCell(s[j])] \in Seq(E)
        /\ Len([j \in 1 .. Len(s) |-> GridCell(s[j])]) = Len(s)
    BY <2>2, <2>3
  <2> QED
    BY <2>2, <2>4 DEF s
<1>4. Grid(trs) = [i \in 1 .. Len(trs) |-> line(i)]
  BY <1>1, <1>3 DEF Grid
<1> HIDE DEF line, E
<1>5. Grid(trs) \in Seq(Seq(E)) /\ Len(Grid(trs)) = Len(trs)
  BY <1>1, <1>3, <1>4
<1>6. \A i \in 1 .. Len(trs) : Grid(trs)[i] = line(i)
  BY <1>4
<1> QED
  BY <1>2, <1>3, <1>5, <1>6 DEF GridOf, E

LEMMA DataTableOK ==
  ASSUME NEW trs \in Seq(AnyNode), NEW w \in Nat
  PROVE  /\ DataTableRows(trs, w) \in Rows
         /\ \A B \in Nat :
               /\ RecordIndent + B + 4 <= w
               /\ \A n \in LabelWidths(trs) : n <= B
               => \A c \in DataText(trs) : c # Space => Shows(DataTableRows(trs, w), w, c)
<1> DEFINE grid == Grid(trs)
           drawn == ColumnsOrRecords(grid, ColumnWidths(grid), w)
<1>1. /\ grid \in GridOf(ScreenCell) /\ Len(grid) = Len(trs)
      /\ \A i \in 1 .. Len(trs) :
            /\ trs[i].kids \in Seq(AnyNode) /\ Len(grid[i]) = Len(trs[i].kids)
            /\ \A j \in 1 .. Len(trs[i].kids) : grid[i][j] = GridCell(trs[i].kids[j])
  BY GridOK
<1>2. Len(trs) \in Nat /\ DOMAIN trs = 1 .. Len(trs)
  OBVIOUS
<1>3. CASE trs = <<>>
  <2>1. DataTableRows(trs, w) = <<>> /\ ToSet(trs) = {}
    BY <1>3, EmptyToSet DEF DataTableRows
  <2>2. DataText(trs) = {}
    BY <2>1 DEF DataText, Kids
  <2> QED
    BY <2>1, <2>2, NoRowsType
<1>4. CASE trs # <<>>
  <2>1. DataTableRows(trs, w) = drawn
    BY <1>4 DEF DataTableRows
  <2>2. 1 \in 1 .. Len(trs)
    BY <1>2, <1>4
  <2> HIDE DEF grid
  <2>3. grid # <<>>
    BY <1>1, <2>2
  <2>4. LET d == ColumnsOrRecords(grid, ColumnWidths(grid), w)
        IN  /\ d \in Seq(Seq(ScreenCell))
            /\ \A B \in Nat :
                  /\ RecordIndent + B + 4 <= w
                  /\ \A j \in 1 .. Len(grid[1]) : Columns(grid[1][j].content) <= B
                  => \A i \in 1 .. Len(grid) : \A j \in 1 .. Len(grid[i]) : \A c :
                        c # Space /\ ~grid[i][j].header /\ Holds(grid[i][j].content, c)
                        => Shows(d, w, c)
    BY <1>1, <2>3, ScreenIsDrawable, GridFacts
  <2> HIDE DEF drawn
  <2>5. drawn \in Rows
    BY <2>4 DEF drawn, Rows, Row
  <2>6. ASSUME NEW B \in Nat, RecordIndent + B + 4 <= w, \A n \in LabelWidths(trs) : n <= B,
               NEW c \in DataText(trs), c # Space
        PROVE  Shows(drawn, w, c)
    <3>1. FirstRow(trs) = trs[1].kids
      BY <1>4 DEF FirstRow
    <3>2. ASSUME NEW j \in 1 .. Len(grid[1]) PROVE Columns(grid[1][j].content) <= B
      <4>1. j \in 1 .. Len(trs[1].kids) /\ grid[1][j] = GridCell(trs[1].kids[j])
            /\ trs[1].kids \in Seq(AnyNode)
        BY <1>1, <2>2, <3>2
      <4>2. trs[1].kids[j] \in ToSet(FirstRow(trs))
        BY <3>1, <4>1 DEF ToSet
      <4>3. Columns(grid[1][j].content) \in LabelWidths(trs)
        BY <4>1, <4>2 DEF LabelWidths
      <4> QED
        BY <2>6, <4>3
    <3>3. PICK cell : /\ cell \in Kids(ToSet(trs)) /\ cell.kind = "td"
                      /\ c \in Within(LineText[Height], ToSet(cell.kids))
      BY DEF DataText
    <3>4. PICK tr \in ToSet(trs) : cell \in ToSet(tr.kids)
      BY <3>3 DEF Kids
    <3>5. PICK i \in 1 .. Len(trs) : tr = trs[i]
      BY <1>2, <3>4 DEF ToSet
    <3>6. trs[i].kids \in Seq(AnyNode)
      BY <1>1
    <3>7. PICK j \in 1 .. Len(trs[i].kids) : cell = trs[i].kids[j]
      <4> DEFINE s == trs[i].kids
      <4>1. cell \in ToSet(s) /\ s \in Seq(AnyNode)
        BY <3>4, <3>5, <3>6
      <4> HIDE DEF s
      <4>2. \E j \in 1 .. Len(s) : cell = s[j]
        BY <4>1 DEF ToSet
      <4> QED
        BY <4>2 DEF s
    <3>8. cell \in AnyNode /\ grid[i][j] = GridCell(cell)
          /\ i \in 1 .. Len(grid) /\ j \in 1 .. Len(grid[i])
      BY <1>1, <3>6, <3>7
    <3>9. ~grid[i][j].header /\ Holds(grid[i][j].content, c)
      BY <3>3, <3>8, GridCellOK
    <3> QED
      BY <2>4, <2>6, <3>2, <3>8, <3>9 DEF drawn
  <2> QED
    BY <2>1, <2>5, <2>6
<1> QED
  BY <1>3, <1>4

-----------------------------------------------------------------------------
(* What a node needs of the width.                                         *)

Measures(below, D) == \A node \in D : below[node] \in Nat
Sizes(below, S) == {below[m] : m \in S}

LEMMA SizesOfList ==
  ASSUME NEW below, NEW D, Measures(below, D), NEW nodes \in Seq(D)
  PROVE  Bounded(Sizes(below, ToSet(nodes)))
<1> DEFINE f == [i \in 1 .. Len(nodes) |-> below[nodes[i]]]
<1>1. Len(nodes) \in Nat /\ DOMAIN nodes = 1 .. Len(nodes) /\ \A i \in 1 .. Len(nodes) : nodes[i] \in D
  OBVIOUS
<1>2. \A i \in 1 .. Len(nodes) : f[i] \in Nat /\ f[i] = below[nodes[i]]
  BY <1>1 DEF Measures
<1> HIDE DEF f
<1>3. Bounded({f[i] : i \in 1 .. Len(nodes)})
  BY <1>1, <1>2, BoundedNumbers
<1>4. Sizes(below, ToSet(nodes)) = {f[i] : i \in 1 .. Len(nodes)}
  BY <1>1, <1>2 DEF Sizes, ToSet
<1> QED
  BY <1>3, <1>4

LEMMA SizesOfKids ==
  ASSUME NEW below, NEW D, HoldsItsNodes(D), Measures(below, D), NEW nodes \in Seq(D)
  PROVE  Bounded(Sizes(below, Kids(ToSet(nodes))))
<1> DEFINE sizes == [i \in 1 .. Len(nodes) |-> Sizes(below, ToSet(nodes[i].kids))]
<1>1. Len(nodes) \in Nat /\ DOMAIN nodes = 1 .. Len(nodes) /\ \A i \in 1 .. Len(nodes) : nodes[i] \in D
  OBVIOUS
<1>2. ASSUME NEW i \in 1 .. Len(nodes) PROVE Bounded(Sizes(below, ToSet(nodes[i].kids)))
  <2>1. nodes[i].kids \in Seq(D)
    BY <1>1, NodeParts DEF HoldsItsNodes
  <2> QED
    BY <2>1, SizesOfList
<1>3. \A i \in 1 .. Len(nodes) : Bounded(sizes[i]) /\ sizes[i] = Sizes(below, ToSet(nodes[i].kids))
  BY <1>2
<1> HIDE DEF sizes
<1>4. Bounded(UNION {sizes[i] : i \in 1 .. Len(nodes)})
  BY <1>1, <1>3, BoundedUnion
<1>5. Sizes(below, Kids(ToSet(nodes))) \subseteq UNION {sizes[i] : i \in 1 .. Len(nodes)}
  <2> SUFFICES ASSUME NEW m \in Kids(ToSet(nodes))
               PROVE  \E i \in 1 .. Len(nodes) : below[m] \in sizes[i]
    BY DEF Sizes
  <2>1. PICK n \in ToSet(nodes) : m \in ToSet(n.kids)
    BY DEF Kids
  <2>2. PICK i \in 1 .. Len(nodes) : n = nodes[i]
    BY <1>1, <2>1 DEF ToSet
  <2> QED
    BY <1>3, <2>1, <2>2 DEF Sizes
<1> QED
  BY <1>4, <1>5, BoundedOne

LEMMA SizesOfGrandKids ==
  ASSUME NEW below, NEW D, HoldsItsNodes(D), Measures(below, D), NEW nodes \in Seq(D)
  PROVE  Bounded(Sizes(below, Kids(Kids(ToSet(nodes)))))
<1> DEFINE sizes == [i \in 1 .. Len(nodes) |-> Sizes(below, Kids(ToSet(nodes[i].kids)))]
<1>1. Len(nodes) \in Nat /\ DOMAIN nodes = 1 .. Len(nodes) /\ \A i \in 1 .. Len(nodes) : nodes[i] \in D
  OBVIOUS
<1>2. ASSUME NEW i \in 1 .. Len(nodes) PROVE Bounded(Sizes(below, Kids(ToSet(nodes[i].kids))))
  <2>1. nodes[i].kids \in Seq(D)
    BY <1>1, NodeParts DEF HoldsItsNodes
  <2> QED
    BY <2>1, SizesOfKids
<1>3. \A i \in 1 .. Len(nodes) : Bounded(sizes[i]) /\ sizes[i] = Sizes(below, Kids(ToSet(nodes[i].kids)))
  BY <1>2
<1> HIDE DEF sizes
<1>4. Bounded(UNION {sizes[i] : i \in 1 .. Len(nodes)})
  BY <1>1, <1>3, BoundedUnion
<1>5. Sizes(below, Kids(Kids(ToSet(nodes)))) \subseteq UNION {sizes[i] : i \in 1 .. Len(nodes)}
  <2> SUFFICES ASSUME NEW m \in Kids(Kids(ToSet(nodes)))
               PROVE  \E i \in 1 .. Len(nodes) : below[m] \in sizes[i]
    BY DEF Sizes
  <2>1. PICK k \in Kids(ToSet(nodes)) : m \in ToSet(k.kids)
    BY DEF Kids
  <2>2. PICK n \in ToSet(nodes) : k \in ToSet(n.kids)
    BY DEF Kids
  <2>3. PICK i \in 1 .. Len(nodes) : n = nodes[i]
    BY <1>1, <2>2 DEF ToSet
  <2>4. m \in Kids(ToSet(n.kids))
    BY <2>1, <2>2 DEF Kids
  <2> QED
    BY <1>3, <2>3, <2>4 DEF Sizes
<1> QED
  BY <1>4, <1>5, BoundedOne

LEMMA ContentWithin ==
  ASSUME NEW D, HoldsItsNodes(D), NEW node, node.kids \in Seq(D)
  PROVE  Content(node) \subseteq D
<1> DEFINE K == ToSet(node.kids)
<1>1. K \in SUBSET D
  BY ToSetType
<1> HIDE DEF K
<1>2. Kids(K) \subseteq D
  BY <1>1, KidsWithin
<1>3. Kids(Kids(K)) \subseteq D
  BY <1>2, KidsWithin
<1>4. Content(node) \in {K, Kids(K), Kids(Kids(K))}
  BY DEF Content, K
<1> QED
  BY <1>1, <1>2, <1>3, <1>4

LEMMA SizesOfContent ==
  ASSUME NEW below, NEW D, HoldsItsNodes(D), Measures(below, D), NEW node, node.kids \in Seq(D)
  PROVE  Bounded(Sizes(below, Content(node)))
<1> DEFINE K == ToSet(node.kids)
<1>1. Content(node) \in {K, Kids(K), Kids(Kids(K))}
  BY DEF Content
<1>2. Bounded(Sizes(below, K)) /\ Bounded(Sizes(below, Kids(K))) /\ Bounded(Sizes(below, Kids(Kids(K))))
  BY SizesOfList, SizesOfKids, SizesOfGrandKids
<1> HIDE DEF K
<1> QED
  BY <1>1, <1>2

LEMMA LabelsAreBounded ==
  ASSUME NEW trs \in Seq(AnyNode)
  PROVE  Bounded(LabelWidths(trs)) /\ LabelWidths(trs) \subseteq Nat
<1> DEFINE first == FirstRow(trs)
           f == [i \in 1 .. Len(first) |-> Columns(GridCell(first[i]).content)]
<1>1. first \in Seq(AnyNode)
  <2>1. CASE trs = <<>>
    BY <2>1 DEF FirstRow
  <2>2. CASE trs # <<>>
    <3>1. first = trs[1].kids /\ trs[1] \in AnyNode
      BY <2>2 DEF FirstRow
    <3> QED
      BY <3>1, AnyNodeHoldsItsNodes, NodeParts DEF HoldsItsNodes
  <2> QED
    BY <2>1, <2>2
<1>2. LabelWidths(trs) = {Columns(GridCell(cell).content) : cell \in ToSet(first)}
  BY DEF LabelWidths
<1> HIDE DEF first
<1>3. Len(first) \in Nat /\ DOMAIN first = 1 .. Len(first) /\ \A i \in 1 .. Len(first) : first[i] \in AnyNode
  BY <1>1
<1>4. \A i \in 1 .. Len(first) : Columns(GridCell(first[i]).content) \in Nat
  <2> SUFFICES ASSUME NEW i \in 1 .. Len(first) PROVE Columns(GridCell(first[i]).content) \in Nat
    OBVIOUS
  <2>1. GridCell(first[i]) \in Entry(ScreenCell)
    BY <1>3, GridCellOK
  <2>2. GridCell(first[i]).content \in Seq(ScreenCell)
    BY <2>1 DEF Entry
  <2> QED
    BY <2>2, ColumnsType
<1>5. \A i \in 1 .. Len(first) : f[i] \in Nat /\ f[i] = Columns(GridCell(first[i]).content)
  BY <1>4
<1> HIDE DEF f
<1>6. Bounded({f[i] : i \in 1 .. Len(first)})
  BY <1>3, <1>5, BoundedNumbers
<1>7. LabelWidths(trs) = {f[i] : i \in 1 .. Len(first)}
  BY <1>2, <1>3, <1>5 DEF ToSet
<1> QED
  BY <1>5, <1>6, <1>7

\* The widest marker of a list.
LEMMA MarkerColumnsFacts ==
  ASSUME NEW node, Len(node.kids) \in Nat, DOMAIN node.kids = 1 .. Len(node.kids)
  PROVE  /\ MarkerColumns(node) \in Nat
         /\ \A i \in 1 .. Len(node.kids) : Len(ListMarker(node.kind, i)) <= MarkerColumns(node)
<1> DEFINE N == Len(node.kids)
           size(i) == Len(ListMarker(node.kind, i))
           S == {size(i) : i \in 1 .. N}
           sets == [i \in 1 .. N |-> {size(i)}]
<1>1. N \in Nat /\ \A i \in 1 .. N : i \in Nat
  OBVIOUS
<1>2. \A i \in 1 .. N : size(i) \in Nat
  BY <1>1, MarkerFacts
<1>3. MarkerColumns(node) = Max(S \cup {0})
  BY DEF MarkerColumns
<1> HIDE DEF N, size
<1>4. \A i \in 1 .. N : Bounded(sets[i])
  BY <1>2, BoundedOne
<1>5. Bounded(UNION {sets[i] : i \in 1 .. N})
  BY <1>1, <1>4, BoundedUnion
<1>6. S = UNION {sets[i] : i \in 1 .. N}
  OBVIOUS
<1>7. Bounded({0})
  <2>1. 0 \in Nat
    OBVIOUS
  <2> QED
    BY <2>1, BoundedOne
<1>8. Bounded(S \cup {0})
  BY <1>5, <1>6, <1>7, BoundedBoth
<1>9. \A i \in 1 .. N : size(i) \in S
  OBVIOUS
<1> HIDE DEF S
<1>10. Max(S \cup {0}) \in Nat /\ \A y \in S \cup {0} : y <= Max(S \cup {0})
  BY <1>8, GreatestOfBounded
<1> QED
  BY <1>3, <1>9, <1>10 DEF N, size

\* What a node needs is a number, and covers what is in the node.
LEMMA NeedsOfFacts ==
  ASSUME NEW below, Measures(below, AnyNode), NEW node \in AnyNode
  PROVE  /\ NeedsOf(below, node) \in Nat
         /\ \A m \in Content(node) : below[m] \in Nat /\ below[m] <= NeedsOf(below, node)
         /\ node.kind \in Lists =>
               /\ MarkerColumns(node) <= NeedsOf(below, node)
               /\ \A m \in Content(node) :
                     below[m] + MarkerColumns(node) <= NeedsOf(below, node)
         /\ node.kind = "blockquote" =>
               /\ QuoteIndent <= NeedsOf(below, node)
               /\ \A m \in Content(node) : below[m] + QuoteIndent <= NeedsOf(below, node)
         /\ node.kind = "table" => \A n \in LabelWidths(node.kids) \cup {0} :
               n \in Nat /\ RecordIndent + n + 2 <= NeedsOf(below, node)
<1> DEFINE sizes == Sizes(below, Content(node))
           inside == Max({below[m] : m \in Content(node)} \cup {0})
           labels == LabelWidths(node.kids) \cup {0}
           table == {RecordIndent + n + 2 : n \in labels} \cup {inside}
           marker == MarkerColumns(node)
           need == NeedsOf(below, node)
<1>1. node \in NodesOver(AnyNode) /\ node.kids \in Seq(AnyNode)
  BY AnyNodeHoldsItsNodes, NodeParts DEF HoldsItsNodes
<1>2. Bounded(sizes)
  BY <1>1, AnyNodeHoldsItsNodes, SizesOfContent
<1>3. Bounded({0}) /\ Bounded(sizes \cup {0})
  <2>1. 0 \in Nat
    OBVIOUS
  <2> HIDE DEF sizes
  <2>2. Bounded({0})
    BY <2>1, BoundedOne
  <2> QED
    BY <1>2, <2>2, BoundedBoth
<1>4. inside \in Nat /\ \A y \in sizes \cup {0} : y <= inside
  <2>1. inside = Max(sizes \cup {0})
    BY DEF Sizes
  <2> HIDE DEF sizes, inside
  <2> QED
    BY <1>3, <2>1, GreatestOfBounded
<1>5. \A m \in Content(node) : below[m] \in Nat /\ below[m] <= inside
  <2>1. Content(node) \subseteq AnyNode
    BY <1>1, AnyNodeHoldsItsNodes, ContentWithin
  <2> QED
    BY <1>4, <2>1 DEF Measures, Sizes
<1>6. marker \in Nat
  BY <1>1, MarkerColumnsFacts
<1>7. Bounded(labels) /\ labels \subseteq Nat
  BY <1>1, <1>3, LabelsAreBounded, BoundedBoth
<1> HIDE DEF inside, labels, marker, sizes
<1>8. /\ Max(table) \in Nat /\ inside <= Max(table)
      /\ \A n \in labels : RecordIndent + n + 2 <= Max(table)
  <2>1. PICK N \in Nat : labels \in SUBSET (0 .. N)
    BY <1>7 DEF Bounded
  <2>2. {RecordIndent + n + 2 : n \in labels} \in SUBSET (0 .. N + 4) /\ N + 4 \in Nat
    BY <2>1 DEF RecordIndent
  <2>3. Bounded({RecordIndent + n + 2 : n \in labels}) /\ Bounded({inside})
    BY <1>4, <2>2, BoundedOne DEF Bounded
  <2>4. Bounded(table)
    BY <2>3, BoundedBoth
  <2>5. table # {} /\ inside \in table /\ \A n \in labels : RecordIndent + n + 2 \in table
    OBVIOUS
  <2> HIDE DEF table
  <2> QED
    BY <2>4, <2>5, GreatestOfBounded
<1>9. CASE node.kind \in Lists
  <2>1. need = marker + inside
    BY <1>9 DEF NeedsOf, marker, inside, Lists
  <2>2. node.kind # "blockquote" /\ node.kind # "table"
    BY <1>9 DEF Lists
  <2> HIDE DEF need
  <2>3. \A a, b, n \in Nat : n = a + b => a <= n /\ \A x \in Nat : x <= b => x <= n /\ x + a <= n
    OBVIOUS
  <2>4. need \in Nat /\ marker <= need /\ \A m \in Content(node) : below[m] <= need /\ below[m] + marker <= need
    BY <1>4, <1>5, <1>6, <2>1, <2>3
  <2> QED
    BY <1>5, <2>2, <2>4 DEF need, marker
<1>10. CASE node.kind = "blockquote"
  <2>1. need = QuoteIndent + inside
    BY <1>10 DEF NeedsOf, inside, Lists
  <2>2. node.kind \notin Lists /\ node.kind # "table" /\ QuoteIndent \in Nat
    BY <1>10 DEF Lists, QuoteIndent
  <2> HIDE DEF need
  <2> QED
    BY <1>4, <1>5, <2>1, <2>2 DEF need
<1>11. CASE node.kind = "table"
  <2>1. need = Max(table)
    BY <1>11 DEF NeedsOf, inside, labels, Lists
  <2>2. node.kind \notin Lists /\ node.kind # "blockquote"
    BY <1>11 DEF Lists
  <2> HIDE DEF need, table
  <2> QED
    BY <1>4, <1>5, <1>7, <1>8, <2>1, <2>2 DEF need, labels
<1>12. CASE node.kind \notin Lists \cup {"blockquote", "table"}
  <2>1. need = inside
    BY <1>12 DEF NeedsOf, inside, Lists
  <2> HIDE DEF need
  <2> QED
    BY <1>4, <1>5, <1>12, <2>1 DEF need
<1> QED
  BY <1>9, <1>10, <1>11, <1>12

LEMMA NeedsMeasure ==
  \A n \in 0 .. Height : Measures(Needs[n], AnyNode)
<1> DEFINE S == {n \in 0 .. Height : Measures(Needs[n], AnyNode)}
<1>1. Height \in Nat
  BY HeightType
<1>2. 0 \in S
  BY <1>1, NeedsSteps DEF Measures, NoNeeds
<1>3. ASSUME NEW n \in 1 .. Height, n - 1 \in S PROVE n \in S
  <2> DEFINE below == Needs[n - 1]
  <2>1. Measures(below, AnyNode) /\ n \in 0 .. Height
    BY <1>1, <1>3
  <2>2. Needs[n] = OneNeeds(below)
    BY NeedsSteps
  <2> HIDE DEF below
  <2>3. \A node \in AnyNode : NeedsOf(below, node) \in Nat
    BY <2>1, NeedsOfFacts
  <2>4. Measures(Needs[n], AnyNode)
    BY <2>2, <2>3 DEF Measures, OneNeeds
  <2> QED
    BY <2>1, <2>4
<1> HIDE DEF S
<1>4. 0 .. Height \subseteq S
  BY <1>1, <1>2, <1>3, Induction
<1> QED
  BY <1>4 DEF S

-----------------------------------------------------------------------------
(* The rows of the nodes show their text.                                  *)

ShowsText(content, w, C) == \A c \in C : c # Space => Shows(content.rows, w, c)

\* The text of the nodes that have room.
Fitting(texts, needs, S, w) == UNION {texts[m] : m \in {x \in S : needs[x] + 2 <= w}}

\* What laying out a node does, if it does so for the nodes a level down.
LaysOut(below, texts, needs) ==
    \A node \in AnyNode :
       /\ node.kind = "anchor" \/ node.hide => texts[node] = {}
       /\ \A w \in Nat : \A pending \in Seq(Handle) :
             /\ below[node][w][pending] \in Passed
             /\ needs[node] + 2 <= w => ShowsText(below[node][w][pending], w, texts[node])

LEMMA PassFacts ==
  ASSUME NEW rs \in Rows, NEW pending \in Seq(Handle)
  PROVE  /\ Pass(rs, pending) \in Passed
         /\ Pass(rs, pending).rows = rs /\ Pass(rs, pending).pending = pending
BY DEF Pass, Passed

LEMMA PassedType ==
  ASSUME NEW r \in Passed
  PROVE  r.rows \in Rows /\ r.pending \in Seq(Handle)
BY DEF Passed

LEMMA ConcatRows ==
  ASSUME NEW rs \in Rows, NEW more \in Rows
  PROVE  /\ rs \o more \in Rows
         /\ \A w, c : Shows(rs, w, c) \/ Shows(more, w, c) => Shows(rs \o more, w, c)
<1>1. rs \in Seq(Seq(ScreenCell)) /\ more \in Seq(Seq(ScreenCell))
  BY DEF Rows, Row
<1>2. rs \o more \in Rows
  BY DEF Rows
<1>3. ASSUME NEW w, NEW c, Shows(rs, w, c) \/ Shows(more, w, c) PROVE Shows(rs \o more, w, c)
  BY <1>1, <1>3, ShowsConcat
<1> QED
  BY <1>2, <1>3

\* A loop whose steps each keep what is shown, and show more.
LEMMA LoopReads ==
  ASSUME NEW N \in Nat, NEW loop, NEW w, NEW texts, loop[0] \in Passed,
         \A n \in 1 .. N : loop[n - 1] \in Passed =>
            /\ loop[n] \in Passed
            /\ \A v, c : Shows(loop[n - 1].rows, v, c) => Shows(loop[n].rows, v, c)
            /\ ShowsText(loop[n], w, texts[n])
  PROVE  /\ loop[N] \in Passed
         /\ \A v, c : Shows(loop[0].rows, v, c) => Shows(loop[N].rows, v, c)
         /\ \A n \in 1 .. N : ShowsText(loop[N], w, texts[n])
<1> DEFINE Good(n) ==
             /\ loop[n] \in Passed
             /\ \A v, c : Shows(loop[0].rows, v, c) => Shows(loop[n].rows, v, c)
             /\ \A k \in 1 .. n : ShowsText(loop[n], w, texts[k])
           S == {n \in 0 .. N : Good(n)}
<1>1. 0 \in S
  OBVIOUS
<1>2. ASSUME NEW n \in 1 .. N, n - 1 \in S PROVE n \in S
  <2>1. Good(n - 1) /\ n \in 0 .. N
    BY <1>2
  <2>2. /\ loop[n] \in Passed
        /\ \A v, c : Shows(loop[n - 1].rows, v, c) => Shows(loop[n].rows, v, c)
        /\ ShowsText(loop[n], w, texts[n])
    BY <2>1
  <2>3. ASSUME NEW k \in 1 .. n PROVE ShowsText(loop[n], w, texts[k])
    <3>1. CASE k = n
      BY <2>2, <3>1
    <3>2. CASE k # n
      <4>1. k \in 1 .. n - 1
        BY <3>2
      <4>2. ShowsText(loop[n - 1], w, texts[k])
        BY <2>1, <4>1
      <4> QED
        BY <2>2, <4>2 DEF ShowsText
    <3> QED
      BY <3>1, <3>2
  <2>4. \A v, c : Shows(loop[0].rows, v, c) => Shows(loop[n].rows, v, c)
    BY <2>1, <2>2
  <2> QED
    BY <2>1, <2>2, <2>3, <2>4
<1> HIDE DEF S
<1>3. 0 .. N \subseteq S
  BY <1>1, <1>2, Induction
<1>4. N \in S
  BY <1>3
<1> QED
  BY <1>4 DEF S

LEMMA AddRowsOK ==
  ASSUME NEW r \in Passed, NEW content \in Passed, NEW node
  PROVE  /\ AddRows(r, content, node) \in Passed
         /\ \A v, c : Shows(r.rows, v, c) \/ Shows(content.rows, v, c)
                      => Shows(AddRows(r, content, node).rows, v, c)
<1> DEFINE rs == r.rows
           more == content.rows
           blank == IF content.rows = <<>> THEN <<>>
                    ELSE [i \in 1 .. SpacingAfter(node.kind) |-> <<>>]
           all == rs \o more \o blank
<1>1. rs \in Rows /\ more \in Rows /\ content.pending \in Seq(Handle)
  BY PassedType
<1>2. blank \in Rows
  <2> DEFINE spacing == [i \in 1 .. SpacingAfter(node.kind) |-> <<>>]
             none == <<>>
  <2>1. spacing \in Rows /\ none \in Rows
    BY SpacingType, NoRowsType
  <2>2. blank = none \/ blank = spacing
    OBVIOUS
  <2> HIDE DEF blank, spacing, none
  <2> QED
    BY <2>1, <2>2
<1>3. AddRows(r, content, node) = Pass(all, content.pending)
  BY DEF AddRows
<1> HIDE DEF rs, more, blank
<1>4. rs \o more \in Rows /\ \A v, c : Shows(rs, v, c) \/ Shows(more, v, c) => Shows(rs \o more, v, c)
  BY <1>1, ConcatRows
<1>5. all \in Rows /\ \A v, c : Shows(rs \o more, v, c) => Shows(all, v, c)
  BY <1>2, <1>4, ConcatRows
<1> HIDE DEF all
<1>6. Pass(all, content.pending) \in Passed /\ Pass(all, content.pending).rows = all
  BY <1>1, <1>5, PassFacts
<1> QED
  BY <1>3, <1>4, <1>5, <1>6 DEF rs, more

LEMMA AppendNodeRowsOK ==
  ASSUME NEW below, NEW texts, NEW needs, LaysOut(below, texts, needs),
         NEW r \in Passed, NEW node \in AnyNode, NEW w \in Nat
  PROVE  LET out == AppendNodeRows(below, r, node, w)
         IN  /\ out \in Passed
             /\ \A v, c : Shows(r.rows, v, c) => Shows(out.rows, v, c)
             /\ ShowsText(out, w, Fitting(texts, needs, {node}, w))
<1> DEFINE out == AppendNodeRows(below, r, node, w)
           Good(o) == /\ o \in Passed
                      /\ \A v, c : Shows(r.rows, v, c) => Shows(o.rows, v, c)
                      /\ ShowsText(o, w, Fitting(texts, needs, {node}, w))
<1>1. r.rows \in Rows /\ r.pending \in Seq(Handle)
  BY PassedType
<1>2. node \in NodesOver(AnyNode)
  BY AnyNodeHoldsItsNodes DEF HoldsItsNodes
<1>3. node.names \in Seq(Handle) /\ node.hide \in BOOLEAN
  BY <1>2, NodeParts
<1>4. node.kind = "anchor" \/ node.hide => Fitting(texts, needs, {node}, w) = {}
  BY DEF LaysOut, Fitting
<1>5. CASE node.kind = "anchor"
  <2> DEFINE waiting == AppendUnique(r.pending, node.names)
  <2>1. waiting \in Seq(Handle)
    BY <1>1, <1>3, UniqueNames
  <2>2. out = Pass(r.rows, waiting)
    BY <1>5 DEF AppendNodeRows
  <2> HIDE DEF out, waiting
  <2>3. out \in Passed /\ out.rows = r.rows
    BY <1>1, <2>1, <2>2, PassFacts
  <2>4. Good(out)
    BY <1>4, <1>5, <2>3 DEF ShowsText
  <2> QED
    BY <2>4 DEF out
<1>6. CASE node.kind # "anchor" /\ node.hide
  <2>1. out = r
    BY <1>6 DEF AppendNodeRows
  <2> HIDE DEF out
  <2>2. Good(out)
    BY <1>4, <1>6, <2>1 DEF ShowsText
  <2> QED
    BY <2>2 DEF out
<1>7. CASE node.kind # "anchor" /\ ~node.hide
  <2> DEFINE content == below[node][w][r.pending]
             marked == MarkPending(content.rows, content.pending)
  <2>1. content \in Passed /\ (needs[node] + 2 <= w => ShowsText(content, w, texts[node]))
    BY <1>1 DEF LaysOut
  <2>2. out = AddRows(r, marked, node)
    BY <1>7 DEF AppendNodeRows
  <2> HIDE DEF out, content
  <2>3. content.rows \in Rows /\ content.pending \in Seq(Handle)
    BY <2>1, PassedType
  <2>4. marked \in Passed /\ \A v, c : Shows(content.rows, v, c) => Shows(marked.rows, v, c)
    BY <2>3, MarkPendingFacts
  <2> HIDE DEF marked
  <2>5. out \in Passed /\ \A v, c : Shows(r.rows, v, c) \/ Shows(marked.rows, v, c) => Shows(out.rows, v, c)
    BY <2>2, <2>4, AddRowsOK
  <2>6. ASSUME NEW c \in Fitting(texts, needs, {node}, w), c # Space PROVE Shows(out.rows, w, c)
    <3>1. needs[node] + 2 <= w /\ c \in texts[node]
      BY <2>6 DEF Fitting
    <3>2. Shows(content.rows, w, c)
      BY <2>1, <2>6, <3>1 DEF ShowsText
    <3> QED
      BY <2>4, <2>5, <3>2
  <2>7. Good(out)
    BY <2>5, <2>6 DEF ShowsText
  <2> QED
    BY <2>7 DEF out
<1> QED
  BY <1>3, <1>5, <1>6, <1>7

LEMMA RenderChildrenOK ==
  ASSUME NEW below, NEW texts, NEW needs, LaysOut(below, texts, needs),
         NEW nodes \in Seq(AnyNode), NEW w \in Nat, NEW pending \in Seq(Handle)
  PROVE  LET out == RenderChildren(below, nodes, w, pending)
         IN  out \in Passed /\ ShowsText(out, w, Fitting(texts, needs, ToSet(nodes), w))
<1> DEFINE N == Len(nodes)
           loop == RenderedUpTo(below, nodes, w, pending)
           none == <<>>
           parts == [n \in 1 .. N |-> Fitting(texts, needs, {nodes[n]}, w)]
<1>1. N \in Nat /\ DOMAIN nodes = 1 .. N /\ \A n \in 1 .. N : nodes[n] \in AnyNode
  OBVIOUS
<1>2. /\ loop[0] = Pass(none, pending)
      /\ \A n \in 1 .. N : loop[n] = AppendNodeRows(below, loop[n - 1], nodes[n], w)
  BY <1>1, RenderedSteps
<1>3. none \in Rows
  BY NoRowsType
<1>4. \A n \in 1 .. N : parts[n] = Fitting(texts, needs, {nodes[n]}, w)
  OBVIOUS
<1>5. RenderChildren(below, nodes, w, pending) = loop[N]
  BY DEF RenderChildren
<1>6. ToSet(nodes) = {nodes[n] : n \in 1 .. N}
  BY <1>1 DEF ToSet
<1> HIDE DEF N, loop, none, parts
<1>7. loop[0] \in Passed
  BY <1>2, <1>3, PassFacts
<1>8. ASSUME NEW n \in 1 .. N, loop[n - 1] \in Passed
      PROVE  /\ loop[n] \in Passed
             /\ \A v, c : Shows(loop[n - 1].rows, v, c) => Shows(loop[n].rows, v, c)
             /\ ShowsText(loop[n], w, parts[n])
  <2> DEFINE r == loop[n - 1]
             node == nodes[n]
  <2>1. r \in Passed /\ node \in AnyNode /\ loop[n] = AppendNodeRows(below, r, node, w)
        /\ parts[n] = Fitting(texts, needs, {node}, w)
    BY <1>1, <1>2, <1>4, <1>8
  <2> HIDE DEF r, node
  <2>2. /\ AppendNodeRows(below, r, node, w) \in Passed
        /\ \A v, c : Shows(r.rows, v, c) => Shows(AppendNodeRows(below, r, node, w).rows, v, c)
        /\ ShowsText(AppendNodeRows(below, r, node, w), w, Fitting(texts, needs, {node}, w))
    BY <2>1, AppendNodeRowsOK
  <2> QED
    BY <2>1, <2>2 DEF r
<1>9. loop[N] \in Passed /\ \A n \in 1 .. N : ShowsText(loop[N], w, parts[n])
  BY <1>1, <1>7, <1>8, LoopReads
<1>10. Fitting(texts, needs, ToSet(nodes), w) \subseteq UNION {parts[n] : n \in 1 .. N}
  BY <1>4, <1>6 DEF Fitting
<1>11. ShowsText(loop[N], w, Fitting(texts, needs, ToSet(nodes), w))
  BY <1>9, <1>10 DEF ShowsText
<1> QED
  BY <1>5, <1>9, <1>11

\* Rows under a prefix that leaves them a width of v.
LEMMA IndentedOK ==
  ASSUME NEW content \in Passed, NEW prefix \in Row, NEW v \in Nat, NEW w \in Nat,
         NEW C, ShowsText(content, v, C), v + Columns(prefix) = w
  PROVE  LET out == Pass(Indent(TrimBlankRows(content.rows), prefix), content.pending)
         IN  out \in Passed /\ ShowsText(out, w, C)
<1> DEFINE trimmed == TrimBlankRows(content.rows)
           rs == Indent(trimmed, prefix)
           out == Pass(rs, content.pending)
<1>1. content.rows \in Rows /\ content.pending \in Seq(Handle)
  BY PassedType
<1>2. trimmed \in Rows /\ \A u, c : Shows(content.rows, u, c) => Shows(trimmed, u, c)
  BY <1>1, TrimFacts
<1> HIDE DEF trimmed
<1>3. trimmed \in Seq(Seq(ScreenCell)) /\ prefix \in Seq(ScreenCell)
  BY <1>2 DEF Rows, Row
<1>4. rs \in Rows
  BY <1>3, ScreenIsDrawable, IndentFacts DEF Rows, Row
<1>5. \A c : Shows(trimmed, v, c) => Shows(rs, w, c)
  BY <1>3, ScreenIsDrawable, ShowsIndent
<1> HIDE DEF rs
<1>6. out \in Passed /\ out.rows = rs
  BY <1>1, <1>4, PassFacts
<1> HIDE DEF out
<1>7. ShowsText(out, w, C)
  BY <1>2, <1>5, <1>6 DEF ShowsText
<1> QED
  BY <1>6, <1>7 DEF out, rs, trimmed

\* And where it leaves them none, they are rows.
LEMMA IndentedType ==
  ASSUME NEW content \in Passed, NEW prefix \in Row
  PROVE  Pass(Indent(TrimBlankRows(content.rows), prefix), content.pending) \in Passed
<1> DEFINE trimmed == TrimBlankRows(content.rows)
           rs == Indent(trimmed, prefix)
<1>1. content.rows \in Rows /\ content.pending \in Seq(Handle)
  BY PassedType
<1>2. trimmed \in Rows
  BY <1>1, TrimFacts
<1> HIDE DEF trimmed
<1>3. rs \in Rows
  BY <1>2, ScreenIsDrawable, IndentFacts DEF Rows, Row
<1> HIDE DEF rs
<1> QED
  BY <1>1, <1>3, PassFacts DEF rs, trimmed

LEMMA ListItemOK ==
  ASSUME NEW below, NEW texts, NEW needs, LaysOut(below, texts, needs),
         NEW item \in AnyNode, NEW marker \in Row, Len(marker) \in Nat,
         Columns(marker) = Len(marker), NEW w \in Nat, NEW pending \in Seq(Handle)
  PROVE  LET out == ListItemRows(below, item, marker, w, pending)
         IN  /\ out \in Passed
             /\ w > Len(marker) =>
                   ShowsText(out, w, Fitting(texts, needs, ToSet(item.kids), w - Len(marker)))
<1> DEFINE v == ListContentWidth(w, marker)
           content == RenderChildren(below, item.kids, v, pending)
           C == Fitting(texts, needs, ToSet(item.kids), v)
           out == Pass(Indent(TrimBlankRows(content.rows), marker), content.pending)
<1>1. item.kids \in Seq(AnyNode)
  BY AnyNodeHoldsItsNodes, NodeParts DEF HoldsItsNodes
<1>2. v \in Nat /\ (w > Len(marker) => v = w - Len(marker) /\ v + Columns(marker) = w)
  BY DEF ListContentWidth
<1> HIDE DEF v
<1>3. content \in Passed /\ ShowsText(content, v, C)
  BY <1>1, <1>2, RenderChildrenOK
<1>4. ListItemRows(below, item, marker, w, pending) = out
  BY DEF ListItemRows, v
<1> HIDE DEF content, C
<1>5. out \in Passed
  BY <1>3, IndentedType
<1>6. ASSUME w > Len(marker) PROVE ShowsText(out, w, C)
  BY <1>2, <1>3, <1>6, IndentedOK
<1> HIDE DEF out
<1>7. w > Len(marker) => C = Fitting(texts, needs, ToSet(item.kids), w - Len(marker))
  BY <1>2 DEF C
<1> QED
  BY <1>4, <1>5, <1>6, <1>7

LEMMA AfterOK ==
  ASSUME NEW r \in Passed, NEW content \in Passed
  PROVE  /\ After(r.rows, content) \in Passed
         /\ \A v, c : Shows(r.rows, v, c) \/ Shows(content.rows, v, c)
                      => Shows(After(r.rows, content).rows, v, c)
<1>1. r.rows \in Rows /\ content.rows \in Rows /\ content.pending \in Seq(Handle)
  BY PassedType
<1> DEFINE both == r.rows \o content.rows
<1>2. both \in Rows /\ \A v, c : Shows(r.rows, v, c) \/ Shows(content.rows, v, c) => Shows(both, v, c)
  BY <1>1, ConcatRows
<1>3. After(r.rows, content) = Pass(both, content.pending)
  BY DEF After
<1> HIDE DEF both
<1>4. Pass(both, content.pending) \in Passed /\ Pass(both, content.pending).rows = both
  BY <1>1, <1>2, PassFacts
<1> QED
  BY <1>2, <1>3, <1>4

LEMMA ListRowsOK ==
  ASSUME NEW below, NEW texts, NEW needs, LaysOut(below, texts, needs), Measures(needs, AnyNode),
         NEW node \in AnyNode, NEW w \in Nat, NEW pending \in Seq(Handle)
  PROVE  LET out == ListRows(below, node, w, pending)
             k == MarkerColumns(node)
         IN  /\ out \in Passed
             /\ w > k => ShowsText(out, w, Fitting(texts, needs, Kids(ToSet(node.kids)), w - k))
<1> DEFINE items == node.kids
           N == Len(items)
           marker(n) == ListMarker(node.kind, n)
           k == MarkerColumns(node)
           loop == ListUpTo(below, node.kind, items, w, pending)
           none == <<>>
           part(n) == IF w > k THEN Fitting(texts, needs, ToSet(items[n].kids), w - k) ELSE {}
           parts == [n \in 1 .. N |-> part(n)]
<1>1. items \in Seq(AnyNode)
  BY AnyNodeHoldsItsNodes, NodeParts DEF HoldsItsNodes
<1>2. /\ k \in Nat
      /\ \A n \in 1 .. N : /\ marker(n) \in Row /\ Len(marker(n)) \in Nat
                           /\ Columns(marker(n)) = Len(marker(n)) /\ Len(marker(n)) <= k
  <2>1. Len(items) \in Nat /\ DOMAIN items = 1 .. Len(items)
    BY <1>1
  <2>2. k \in Nat /\ \A n \in 1 .. N : Len(marker(n)) <= k
    BY <2>1, MarkerColumnsFacts
  <2>3. \A n \in 1 .. N : n \in Nat
    BY <2>1
  <2>4. \A n \in 1 .. N : /\ marker(n) \in Row /\ Len(marker(n)) \in Nat
                          /\ Columns(marker(n)) = Len(marker(n))
    BY <2>3, MarkerFacts
  <2> QED
    BY <2>2, <2>4
<1>3. ListRows(below, node, w, pending) = loop[N]
  BY DEF ListRows
<1> HIDE DEF items, k
<1>4. N \in Nat /\ DOMAIN items = 1 .. N /\ \A n \in 1 .. N : items[n] \in AnyNode
  BY <1>1
<1>5. /\ loop[0] = Pass(none, pending)
      /\ \A n \in 1 .. N :
            loop[n] = After(loop[n - 1].rows, ListItemRows(below, items[n], marker(n), w, loop[n - 1].pending))
  BY <1>4, ListSteps
<1>6. none \in Rows
  BY NoRowsType
<1>7. \A n \in 1 .. N : parts[n] = part(n)
  OBVIOUS
<1> HIDE DEF N, loop, none, parts, marker
<1>8. loop[0] \in Passed
  BY <1>5, <1>6, PassFacts
<1>9. ASSUME NEW n \in 1 .. N, loop[n - 1] \in Passed
      PROVE  /\ loop[n] \in Passed
             /\ \A v, c : Shows(loop[n - 1].rows, v, c) => Shows(loop[n].rows, v, c)
             /\ ShowsText(loop[n], w, parts[n])
  <2> DEFINE r == loop[n - 1]
             item == items[n]
             content == ListItemRows(below, item, marker(n), w, r.pending)
  <2>1. r \in Passed /\ item \in AnyNode /\ loop[n] = After(r.rows, content)
    BY <1>4, <1>5, <1>9
  <2>2. parts[n] = part(n)
    BY <1>7
  <2> HIDE DEF r
  <2>3. r.pending \in Seq(Handle)
    BY <2>1, PassedType
  <2>4. /\ content \in Passed
        /\ w > k => ShowsText(content, w, Fitting(texts, needs, ToSet(item.kids), w - k))
    <3> DEFINE m == marker(n)
               wide == Fitting(texts, needs, ToSet(item.kids), w - k)
    <3>1. m \in Row /\ Len(m) \in Nat /\ Columns(m) = Len(m) /\ Len(m) <= k /\ k \in Nat
      BY <1>2
    <3> HIDE DEF m
    <3>2. /\ ListItemRows(below, item, m, w, r.pending) \in Passed
          /\ w > Len(m) => ShowsText(ListItemRows(below, item, m, w, r.pending), w,
                                 Fitting(texts, needs, ToSet(item.kids), w - Len(m)))
      BY <2>1, <2>3, <3>1, ListItemOK
    <3>3. ASSUME w > k PROVE ShowsText(ListItemRows(below, item, m, w, r.pending), w, wide)
      <4>1. w > Len(m)
        BY <3>1, <3>3
      <4>2. \A x \in ToSet(item.kids) : needs[x] + 2 <= w - k => needs[x] + 2 <= w - Len(m)
        <5>1. item.kids \in Seq(AnyNode)
          BY <2>1, AnyNodeHoldsItsNodes, NodeParts DEF HoldsItsNodes
        <5>2. ToSet(item.kids) \subseteq AnyNode
          BY <5>1, ToSetType
        <5>3. \A x \in ToSet(item.kids) : needs[x] \in Nat
          BY <5>2 DEF Measures
        <5> HIDE DEF item
        <5> QED
          BY <3>1, <5>3
      <4>3. wide \subseteq Fitting(texts, needs, ToSet(item.kids), w - Len(m))
        BY <4>2 DEF Fitting
      <4> QED
        BY <3>2, <4>1, <4>3 DEF ShowsText
    <3> QED
      BY <3>2, <3>3 DEF m
  <2> HIDE DEF content
  <2>5. /\ loop[n] \in Passed
        /\ \A v, c : Shows(r.rows, v, c) \/ Shows(content.rows, v, c) => Shows(loop[n].rows, v, c)
    BY <2>1, <2>4, AfterOK
  <2>6. ShowsText(loop[n], w, part(n))
    BY <2>4, <2>5 DEF ShowsText
  <2> QED
    BY <2>2, <2>5, <2>6 DEF r
<1>10. loop[N] \in Passed /\ \A n \in 1 .. N : ShowsText(loop[N], w, parts[n])
  BY <1>4, <1>8, <1>9, LoopReads
<1>11. ASSUME w > k PROVE ShowsText(loop[N], w, Fitting(texts, needs, Kids(ToSet(items)), w - k))
  <2>1. SUFFICES ASSUME NEW c \in Fitting(texts, needs, Kids(ToSet(items)), w - k), c # Space
                 PROVE  Shows(loop[N].rows, w, c)
    BY DEF ShowsText
  <2>2. PICK m \in Kids(ToSet(items)) : needs[m] + 2 <= w - k /\ c \in texts[m]
    BY <2>1 DEF Fitting
  <2>3. PICK n \in 1 .. N : m \in ToSet(items[n].kids)
    BY <1>4, <2>2 DEF Kids, ToSet
  <2>4. c \in parts[n]
    BY <1>7, <1>11, <2>2, <2>3 DEF Fitting
  <2> QED
    BY <1>10, <2>1, <2>3, <2>4 DEF ShowsText
<1> QED
  BY <1>3, <1>10, <1>11 DEF items, k

LEMMA QuoteRowsOK ==
  ASSUME NEW below, NEW texts, NEW needs, LaysOut(below, texts, needs),
         NEW node \in AnyNode, NEW w \in Nat, NEW pending \in Seq(Handle)
  PROVE  LET out == QuoteRows(below, node, w, pending)
         IN  /\ out \in Passed
             /\ w > QuoteIndent =>
                   ShowsText(out, w, Fitting(texts, needs, ToSet(node.kids), w - QuoteIndent))
<1> DEFINE indent == QuoteIndentFor(w)
           prefix == Spaces(indent)
           v == w - indent
           content == RenderChildren(below, node.kids, v, pending)
           C == Fitting(texts, needs, ToSet(node.kids), v)
           out == Pass(Indent(TrimBlankRows(content.rows), prefix), content.pending)
<1>1. node.kids \in Seq(AnyNode)
  BY AnyNodeHoldsItsNodes, NodeParts DEF HoldsItsNodes
<1>2. indent \in Nat /\ v \in Nat /\ v + indent = w /\ (w > QuoteIndent => v = w - QuoteIndent)
  BY DEF QuoteIndentFor, QuoteIndent
<1>3. QuoteRows(below, node, w, pending) = out
  BY DEF QuoteRows
<1> HIDE DEF indent, v
<1>4. prefix \in Row /\ Columns(prefix) = indent
  BY <1>2, CellsType
<1>5. content \in Passed /\ ShowsText(content, v, C)
  BY <1>1, <1>2, RenderChildrenOK
<1> HIDE DEF content, C, prefix
<1>6. v + Columns(prefix) = w
  BY <1>2, <1>4
<1>7. out \in Passed /\ ShowsText(out, w, C)
  BY <1>2, <1>4, <1>5, <1>6, IndentedOK
<1> HIDE DEF out
<1>8. w > QuoteIndent => C = Fitting(texts, needs, ToSet(node.kids), w - QuoteIndent)
  BY <1>2 DEF C
<1> QED
  BY <1>3, <1>7, <1>8

LEMMA LayoutRowOK ==
  ASSUME NEW below, NEW texts, NEW needs, LaysOut(below, texts, needs),
         NEW cells \in Seq(AnyNode), NEW w \in Nat, NEW r \in Passed
  PROVE  LET out == LayoutRowUpTo(below, cells, w, r)[Len(cells)]
         IN  /\ out \in Passed
             /\ \A v, c : Shows(r.rows, v, c) => Shows(out.rows, v, c)
             /\ ShowsText(out, w, Fitting(texts, needs, Kids(ToSet(cells)), w))
<1> DEFINE N == Len(cells)
           loop == LayoutRowUpTo(below, cells, w, r)
           part(n) == Fitting(texts, needs, ToSet(cells[n].kids), w)
           parts == [n \in 1 .. N |-> part(n)]
<1>1. N \in Nat /\ DOMAIN cells = 1 .. N /\ \A n \in 1 .. N : cells[n] \in AnyNode
  OBVIOUS
<1>2. /\ loop[0] = r
      /\ \A n \in 1 .. N :
            loop[n] = After(loop[n - 1].rows, RenderChildren(below, cells[n].kids, w, loop[n - 1].pending))
  BY <1>1, LayoutRowSteps
<1>3. \A n \in 1 .. N : parts[n] = part(n)
  OBVIOUS
<1> HIDE DEF loop, parts
<1>4. ASSUME NEW n \in 1 .. N, loop[n - 1] \in Passed
      PROVE  /\ loop[n] \in Passed
             /\ \A v, c : Shows(loop[n - 1].rows, v, c) => Shows(loop[n].rows, v, c)
             /\ ShowsText(loop[n], w, parts[n])
  <2> DEFINE q == loop[n - 1]
             nodes == cells[n].kids
             content == RenderChildren(below, nodes, w, q.pending)
  <2>1. q \in Passed /\ loop[n] = After(q.rows, content)
    BY <1>2, <1>4
  <2>2. parts[n] = Fitting(texts, needs, ToSet(nodes), w)
    BY <1>3
  <2>3. nodes \in Seq(AnyNode)
    BY <1>1, AnyNodeHoldsItsNodes, NodeParts DEF HoldsItsNodes
  <2> HIDE DEF q, nodes
  <2>4. q.pending \in Seq(Handle)
    BY <2>1, PassedType
  <2>5. content \in Passed /\ ShowsText(content, w, Fitting(texts, needs, ToSet(nodes), w))
    BY <2>3, <2>4, RenderChildrenOK
  <2> HIDE DEF content
  <2>6. /\ loop[n] \in Passed
        /\ \A v, c : Shows(q.rows, v, c) \/ Shows(content.rows, v, c) => Shows(loop[n].rows, v, c)
    BY <2>1, <2>5, AfterOK
  <2>7. ShowsText(loop[n], w, parts[n])
    BY <2>2, <2>5, <2>6 DEF ShowsText
  <2> QED
    BY <2>6, <2>7 DEF q
<1>5. /\ loop[N] \in Passed /\ \A n \in 1 .. N : ShowsText(loop[N], w, parts[n])
      /\ \A v, c : Shows(r.rows, v, c) => Shows(loop[N].rows, v, c)
  <2> HIDE DEF N
  <2>1. loop[0] \in Passed
    BY <1>2
  <2>2. /\ loop[N] \in Passed /\ \A n \in 1 .. N : ShowsText(loop[N], w, parts[n])
        /\ \A v, c : Shows(loop[0].rows, v, c) => Shows(loop[N].rows, v, c)
    BY <1>1, <1>4, <2>1, LoopReads
  <2> QED
    BY <1>2, <2>2
<1>6. ShowsText(loop[N], w, Fitting(texts, needs, Kids(ToSet(cells)), w))
  <2>1. SUFFICES ASSUME NEW c \in Fitting(texts, needs, Kids(ToSet(cells)), w), c # Space
                 PROVE  Shows(loop[N].rows, w, c)
    BY DEF ShowsText
  <2>2. PICK m \in Kids(ToSet(cells)) : needs[m] + 2 <= w /\ c \in texts[m]
    BY <2>1 DEF Fitting
  <2>3. PICK n \in 1 .. N : m \in ToSet(cells[n].kids)
    BY <1>1, <2>2 DEF Kids, ToSet
  <2>4. c \in parts[n]
    BY <1>3, <2>2, <2>3 DEF Fitting
  <2> QED
    BY <1>5, <2>1, <2>3, <2>4 DEF ShowsText
<1> QED
  BY <1>5, <1>6 DEF loop

LEMMA LayoutTableOK ==
  ASSUME NEW below, NEW texts, NEW needs, LaysOut(below, texts, needs),
         NEW trs \in Seq(AnyNode), NEW w \in Nat, NEW pending \in Seq(Handle)
  PROVE  LET out == LayoutTableUpTo(below, trs, w, pending)[Len(trs)]
         IN  out \in Passed /\ ShowsText(out, w, Fitting(texts, needs, Kids(Kids(ToSet(trs))), w))
<1> DEFINE N == Len(trs)
           loop == LayoutTableUpTo(below, trs, w, pending)
           part(n) == Fitting(texts, needs, Kids(ToSet(trs[n].kids)), w)
           parts == [n \in 1 .. N |-> part(n)]
           none == <<>>
<1>1. N \in Nat /\ DOMAIN trs = 1 .. N /\ \A n \in 1 .. N : trs[n] \in AnyNode
  OBVIOUS
<1>2. /\ loop[0] = Pass(none, pending)
      /\ \A n \in 1 .. N :
            loop[n] = LayoutRowUpTo(below, trs[n].kids, w, loop[n - 1])[Len(trs[n].kids)]
  BY <1>1, LayoutTableSteps
<1>3. \A n \in 1 .. N : parts[n] = part(n)
  OBVIOUS
<1>4. none \in Rows
  BY NoRowsType
<1> HIDE DEF loop, parts, N, none
<1>5. ASSUME NEW n \in 1 .. N, loop[n - 1] \in Passed
      PROVE  /\ loop[n] \in Passed
             /\ \A v, c : Shows(loop[n - 1].rows, v, c) => Shows(loop[n].rows, v, c)
             /\ ShowsText(loop[n], w, parts[n])
  <2> DEFINE q == loop[n - 1]
             cells == trs[n].kids
             out == LayoutRowUpTo(below, cells, w, q)[Len(cells)]
  <2>1. q \in Passed /\ loop[n] = out
    BY <1>2, <1>5
  <2>2. parts[n] = Fitting(texts, needs, Kids(ToSet(cells)), w)
    BY <1>3
  <2>3. cells \in Seq(AnyNode)
    BY <1>1, AnyNodeHoldsItsNodes, NodeParts DEF HoldsItsNodes
  <2> HIDE DEF q, cells
  <2>4. /\ out \in Passed
        /\ \A v, c : Shows(q.rows, v, c) => Shows(out.rows, v, c)
        /\ ShowsText(out, w, Fitting(texts, needs, Kids(ToSet(cells)), w))
    BY <2>1, <2>3, LayoutRowOK
  <2> HIDE DEF out
  <2> QED
    BY <2>1, <2>2, <2>4 DEF q
<1>6. loop[0] \in Passed
  BY <1>2, <1>4, PassFacts
<1>7. loop[N] \in Passed /\ \A n \in 1 .. N : ShowsText(loop[N], w, parts[n])
  BY <1>1, <1>5, <1>6, LoopReads
<1>8. ShowsText(loop[N], w, Fitting(texts, needs, Kids(Kids(ToSet(trs))), w))
  <2>1. SUFFICES ASSUME NEW c \in Fitting(texts, needs, Kids(Kids(ToSet(trs))), w), c # Space
                 PROVE  Shows(loop[N].rows, w, c)
    BY DEF ShowsText
  <2>2. PICK m \in Kids(Kids(ToSet(trs))) : needs[m] + 2 <= w /\ c \in texts[m]
    BY <2>1 DEF Fitting
  <2>3. PICK n \in 1 .. N : m \in Kids(ToSet(trs[n].kids))
    <3>1. PICK cell \in Kids(ToSet(trs)) : m \in ToSet(cell.kids)
      BY <2>2 DEF Kids
    <3>2. PICK tr \in ToSet(trs) : cell \in ToSet(tr.kids)
      BY <3>1 DEF Kids
    <3>3. m \in Kids(ToSet(tr.kids))
      BY <3>1, <3>2 DEF Kids
    <3> QED
      BY <1>1, <3>2, <3>3 DEF ToSet
  <2>4. c \in parts[n]
    BY <1>3, <2>2, <2>3 DEF Fitting
  <2> QED
    BY <1>7, <2>1, <2>3, <2>4 DEF ShowsText
<1> QED
  BY <1>7, <1>8 DEF loop, N

LEMMA FigureType ==
  ASSUME NEW below, NEW texts, NEW needs, LaysOut(below, texts, needs),
         NEW node \in AnyNode, NEW w \in Nat, NEW pending \in Seq(Handle)
  PROVE  FigureRows(below, node, w, pending) \in Passed
<1> DEFINE content == RenderChildren(below, node.kids, w, pending)
           caption == Wrap(node.runs, w)
<1>1. node.kids \in Seq(AnyNode) /\ node.runs \in Seq(Run)
  BY AnyNodeHoldsItsNodes, NodeParts DEF HoldsItsNodes
<1>2. content \in Passed /\ caption \in Rows
  BY <1>1, RenderChildrenOK, WrapRows
<1>3. FigureRows(below, node, w, pending) = Pass(content.rows \o caption, content.pending)
  BY DEF FigureRows
<1> HIDE DEF content, caption
<1>4. content.rows \o caption \in Rows /\ content.pending \in Seq(Handle)
  BY <1>2, PassedType, ConcatRows
<1> QED
  BY <1>3, <1>4, PassFacts

LEMMA TableRowsOK ==
  ASSUME NEW below, NEW texts, NEW needs, LaysOut(below, texts, needs),
         NEW trs \in Seq(AnyNode), NEW w \in Nat, NEW pending \in Seq(Handle)
  PROVE  LET out == TableRows(below, trs, w, pending)
         IN  /\ out \in Passed
             /\ IsLayoutTable(trs) => ShowsText(out, w, Fitting(texts, needs, Kids(Kids(ToSet(trs))), w))
             /\ ~IsLayoutTable(trs) => \A B \in Nat :
                   /\ RecordIndent + B + 4 <= w
                   /\ \A n \in LabelWidths(trs) : n <= B
                   => ShowsText(out, w, DataText(trs))
<1> DEFINE out == TableRows(below, trs, w, pending)
           laid == LayoutTableUpTo(below, trs, w, pending)[Len(trs)]
           data == DataTableRows(trs, w)
<1>1. CASE IsLayoutTable(trs)
  <2>1. out = laid
    BY <1>1 DEF TableRows
  <2>2. laid \in Passed /\ ShowsText(laid, w, Fitting(texts, needs, Kids(Kids(ToSet(trs))), w))
    BY LayoutTableOK
  <2> HIDE DEF out, laid
  <2>3. /\ out \in Passed
        /\ IsLayoutTable(trs) => ShowsText(out, w, Fitting(texts, needs, Kids(Kids(ToSet(trs))), w))
        /\ IsLayoutTable(trs)
    BY <1>1, <2>1, <2>2
  <2> QED
    BY <2>3 DEF out
<1>2. CASE ~IsLayoutTable(trs)
  <2>1. out = Pass(data, pending)
    BY <1>2 DEF TableRows
  <2>2. /\ data \in Rows
        /\ \A B \in Nat :
              /\ RecordIndent + B + 4 <= w
              /\ \A n \in LabelWidths(trs) : n <= B
              => \A c \in DataText(trs) : c # Space => Shows(data, w, c)
    BY DataTableOK
  <2> HIDE DEF out, data
  <2>3. out \in Passed /\ out.rows = data
    BY <2>1, <2>2, PassFacts
  <2>4. \A B \in Nat :
              /\ RecordIndent + B + 4 <= w
              /\ \A n \in LabelWidths(trs) : n <= B
              => ShowsText(out, w, DataText(trs))
    BY <2>2, <2>3 DEF ShowsText
  <2> QED
    BY <1>2, <2>3, <2>4 DEF out
<1> QED
  BY <1>1, <1>2

\* The rows of every node are rows.
LEMMA RowsOfNodeType ==
  ASSUME NEW below, NEW texts, NEW needs, LaysOut(below, texts, needs), Measures(needs, AnyNode),
         NEW node \in AnyNode, NEW w \in Nat, NEW pending \in Seq(Handle)
  PROVE  RowsOfNode(below, node, w, pending) \in Passed
<1> DEFINE out == RowsOfNode(below, node, w, pending)
           none == <<>>
<1>1. /\ node.runs \in Seq(Run) /\ node.kids \in Seq(AnyNode) /\ node.id \in Nat \cup {None}
      /\ node.text \in Seq(Nat)
  BY AnyNodeHoldsItsNodes, NodeParts DEF HoldsItsNodes
<1>2. CASE node.kind \in TextBlock
  <2>1. out = Pass(Wrap(node.runs, w), pending)
    BY <1>2 DEF RowsOfNode, TextBlock, Heading, Lists, Landmark
  <2>2. Wrap(node.runs, w) \in Rows
    BY <1>1, WrapRows
  <2> QED
    BY <2>1, <2>2, PassFacts
<1>3. CASE node.kind = "blockquote"
  <2>1. out = QuoteRows(below, node, w, pending)
    BY <1>3 DEF RowsOfNode, TextBlock, Heading, Lists, Landmark
  <2> QED
    BY <2>1, QuoteRowsOK
<1>4. CASE node.kind \in Lists
  <2>1. out = ListRows(below, node, w, pending)
    BY <1>4 DEF RowsOfNode, TextBlock, Heading, Lists, Landmark
  <2> QED
    BY <2>1, ListRowsOK
<1>5. CASE node.kind = "table"
  <2>1. out = TableRows(below, node.kids, w, pending)
    BY <1>5 DEF RowsOfNode, TextBlock, Heading, Lists, Landmark
  <2> QED
    BY <1>1, <2>1, TableRowsOK
<1>6. CASE node.kind = "pre"
  <2>1. out = Pass(VerbatimRows(node.text, w), pending)
    BY <1>6 DEF RowsOfNode, TextBlock, Heading, Lists, Landmark
  <2>2. VerbatimRows(node.text, w) \in Rows
    BY <1>1, VerbatimType
  <2> QED
    BY <2>1, <2>2, PassFacts
<1>7. CASE node.kind = "hr"
  <2>1. out = Pass(<<SeparatorRow(w)>>, pending)
    BY <1>7 DEF RowsOfNode, TextBlock, Heading, Lists, Landmark
  <2>2. <<SeparatorRow(w)>> \in Rows
    BY SeparatorType, OneRow
  <2> QED
    BY <2>1, <2>2, PassFacts
<1>8. CASE node.kind \in {"warning", "iframe"}
  <2>1. out = Pass(<<Placeholder(w)>>, pending)
    BY <1>8 DEF RowsOfNode, TextBlock, Heading, Lists, Landmark
  <2>2. <<Placeholder(w)>> \in Rows
    BY PlaceholderType, OneRow
  <2> QED
    BY <2>1, <2>2, PassFacts
<1>9. CASE node.kind = "figure"
  <2>1. out = FigureRows(below, node, w, pending)
    BY <1>9 DEF RowsOfNode, TextBlock, Heading, Lists, Landmark
  <2> QED
    BY <2>1, FigureType
<1>10. CASE node.kind \in {"li", "details", "form"} \cup Landmark
  <2>1. out = RenderChildren(below, node.kids, w, pending)
    BY <1>10 DEF RowsOfNode, TextBlock, Heading, Lists, Landmark
  <2> QED
    BY <1>1, <2>1, RenderChildrenOK
<1>11. CASE node.kind \in {"input", "textarea", "select"}
  <2>1. out = Pass(<<MarkField(Placeholder(w), node.id)>>, pending)
    BY <1>11 DEF RowsOfNode, TextBlock, Heading, Lists, Landmark
  <2>2. <<MarkField(Placeholder(w), node.id)>> \in Rows
    BY <1>1, PlaceholderType, MarkFieldType, OneRow
  <2> QED
    BY <2>1, <2>2, PassFacts
<1>12. CASE node.kind = "button"
  <2>1. out = Pass(<<MarkField(ButtonRow(node.runs, w), node.id)>>, pending)
    BY <1>12 DEF RowsOfNode, TextBlock, Heading, Lists, Landmark
  <2>2. <<MarkField(ButtonRow(node.runs, w), node.id)>> \in Rows
    BY <1>1, ButtonType, MarkFieldType, OneRow
  <2> QED
    BY <2>1, <2>2, PassFacts
<1>13. CASE node.kind \notin TextBlock \cup Lists \cup Landmark \cup
          {"blockquote", "table", "pre", "hr", "warning", "iframe", "figure", "li",
           "details", "form", "input", "textarea", "select", "button"}
  <2>1. out = Pass(none, pending)
    BY <1>13 DEF RowsOfNode, TextBlock, Heading, Lists, Landmark
  <2>2. none \in Rows
    BY NoRowsType
  <2> QED
    BY <2>1, <2>2, PassFacts
<1> QED
  BY <1>2, <1>3, <1>4, <1>5, <1>6, <1>7, <1>8, <1>9, <1>10, <1>11, <1>12, <1>13

\* The text of a node that flows, by its kind.
LEMMA FlowByKind ==
  ASSUME NEW texts, NEW node
  PROVE  LET flow == FlowTextOf(texts, node)
             inside == Within(texts, Content(node))
         IN  /\ node.kind = "anchor" \/ node.hide => flow = {}
             /\ node.kind \in {"p", "h1"} => flow \subseteq OwnText(node)
             /\ node.kind = "table" /\ ~IsLayoutTable(node.kids) => flow \subseteq DataText(node.kids)
             /\ node.kind = "table" /\ IsLayoutTable(node.kids) => flow \subseteq inside
             /\ node.kind \in Lists \cup Landmark \cup {"li", "blockquote", "details", "form"} =>
                   flow \subseteq inside
             /\ node.kind \notin Lists \cup Landmark
                   \cup {"p", "h1", "table", "li", "blockquote", "details", "form"} => flow = {}
<1> DEFINE flow == FlowTextOf(texts, node)
           inside == Within(texts, Content(node))
<1>1. CASE node.hide
  <2>1. flow = {}
    BY <1>1 DEF FlowTextOf
  <2> HIDE DEF flow
  <2>2. \A S : flow \subseteq S
    BY <2>1
  <2> QED
    BY <2>1, <2>2 DEF flow
<1>2. CASE ~node.hide
  <2>1. node.kind \in {"p", "h1"} => flow = OwnText(node)
    BY <1>2 DEF FlowTextOf, Lists, Landmark
  <2>2. node.kind = "table" /\ ~IsLayoutTable(node.kids) => flow = DataText(node.kids)
    BY <1>2 DEF FlowTextOf, Lists, Landmark
  <2>3. node.kind = "table" /\ IsLayoutTable(node.kids) => flow = inside
    BY <1>2 DEF FlowTextOf, Lists, Landmark
  <2>4. node.kind \in Lists \cup Landmark \cup {"li", "blockquote", "details", "form"} => flow = inside
    BY <1>2 DEF FlowTextOf, Lists, Landmark
  <2>5. node.kind \notin Lists \cup Landmark
           \cup {"p", "h1", "table", "li", "blockquote", "details", "form"} => flow = {}
    BY <1>2 DEF FlowTextOf, Lists, Landmark
  <2>6. node.kind = "anchor" => flow = {}
    BY <2>5 DEF Lists, Landmark
  <2> QED
    BY <1>2, <2>1, <2>2, <2>3, <2>4, <2>5, <2>6
<1> QED
  BY <1>1, <1>2

\* Nodes that need no more than a node that has room have room.
LEMMA FittingAll ==
  ASSUME NEW texts, NEW needs, NEW S, NEW w, \A m \in S : needs[m] + 2 <= w
  PROVE  Within(texts, S) \subseteq Fitting(texts, needs, S, w)
BY DEF Within, Fitting

LEMMA RowsOfNodeOK ==
  ASSUME NEW below, NEW texts, NEW needs, LaysOut(below, texts, needs), Measures(needs, AnyNode),
         NEW node \in AnyNode, NEW w \in Nat, NEW pending \in Seq(Handle),
         NeedsOf(needs, node) + 2 <= w
  PROVE  ShowsText(RowsOfNode(below, node, w, pending), w, FlowTextOf(texts, node))
<1> DEFINE out == RowsOfNode(below, node, w, pending)
           flow == FlowTextOf(texts, node)
           need == NeedsOf(needs, node)
           content == Content(node)
           inside == Within(texts, content)
           marker == MarkerColumns(node)
           labels == LabelWidths(node.kids)
<1>1. node.kids \in Seq(AnyNode) /\ node.runs \in Seq(Run)
  BY AnyNodeHoldsItsNodes, NodeParts DEF HoldsItsNodes
<1>2. /\ need \in Nat /\ need + 2 <= w
      /\ \A m \in content : needs[m] \in Nat /\ needs[m] <= need
      /\ node.kind \in Lists => marker <= need /\ \A m \in content : needs[m] + marker <= need
      /\ node.kind = "blockquote" =>
            QuoteIndent <= need /\ \A m \in content : needs[m] + QuoteIndent <= need
      /\ node.kind = "table" => \A n \in labels \cup {0} : n \in Nat /\ RecordIndent + n + 2 <= need
  BY NeedsOfFacts
<1>3. /\ node.kind \in {"p", "h1"} => flow \subseteq OwnText(node)
      /\ node.kind = "table" /\ ~IsLayoutTable(node.kids) => flow \subseteq DataText(node.kids)
      /\ node.kind = "table" /\ IsLayoutTable(node.kids) => flow \subseteq inside
      /\ node.kind \in Lists \cup Landmark \cup {"li", "blockquote", "details", "form"} =>
            flow \subseteq inside
      /\ node.kind \notin Lists \cup Landmark
            \cup {"p", "h1", "table", "li", "blockquote", "details", "form"} => flow = {}
  BY FlowByKind
<1>4. marker \in Nat
  BY <1>1, MarkerColumnsFacts
<1> HIDE DEF flow, need, inside, marker, labels
<1>5. inside \subseteq Fitting(texts, needs, content, w)
  <2>1. \A m \in content : needs[m] + 2 <= w
    BY <1>2
  <2> HIDE DEF content
  <2> QED
    BY <2>1, FittingAll DEF inside
<1>6. CASE node.kind \in {"p", "h1"}
  <2>1. out = Pass(Wrap(node.runs, w), pending)
    BY <1>6 DEF RowsOfNode, TextBlock, Heading, Lists, Landmark
  <2>2. /\ Wrap(node.runs, w) \in Rows
        /\ \A c : c # Space /\ Says(node.runs, c) => Shows(Wrap(node.runs, w), w, c)
    BY <1>1, <1>2, WrapRows
  <2>3. out.rows = Wrap(node.runs, w)
    BY <2>1, <2>2, PassFacts
  <2>4. \A c \in OwnText(node) : Says(node.runs, c)
    BY <1>1, RunsTextSays DEF OwnText
  <2> HIDE DEF out
  <2>5. ShowsText(out, w, flow)
    BY <1>3, <1>6, <2>2, <2>3, <2>4 DEF ShowsText
  <2> QED
    BY <2>5 DEF out, flow
<1>7. CASE node.kind = "blockquote"
  <2>1. out = QuoteRows(below, node, w, pending) /\ content = ToSet(node.kids)
    BY <1>7 DEF RowsOfNode, Content, TextBlock, Heading, Lists, Landmark
  <2>2. w > QuoteIndent => ShowsText(out, w, Fitting(texts, needs, content, w - QuoteIndent))
    BY <2>1, QuoteRowsOK
  <2> HIDE DEF out, content
  <2>3. w > QuoteIndent /\ \A m \in content : needs[m] + 2 <= w - QuoteIndent
    BY <1>2, <1>7 DEF QuoteIndent
  <2>4. inside \subseteq Fitting(texts, needs, content, w - QuoteIndent)
    BY <2>3, FittingAll DEF inside
  <2>5. flow \subseteq inside
    BY <1>3, <1>7
  <2>6. ShowsText(out, w, flow)
    BY <2>2, <2>3, <2>4, <2>5 DEF ShowsText
  <2> QED
    BY <2>6 DEF out, flow
<1>8. CASE node.kind \in Lists
  <2>1. out = ListRows(below, node, w, pending) /\ content = Kids(ToSet(node.kids))
    BY <1>8 DEF RowsOfNode, Content, TextBlock, Heading, Lists, Landmark
  <2>2. w > marker => ShowsText(out, w, Fitting(texts, needs, content, w - marker))
    BY <2>1, ListRowsOK DEF marker
  <2> HIDE DEF out, content
  <2>3. w > marker /\ \A m \in content : needs[m] + 2 <= w - marker
    BY <1>2, <1>4, <1>8
  <2>4. inside \subseteq Fitting(texts, needs, content, w - marker)
    BY <2>3, FittingAll DEF inside
  <2>5. flow \subseteq inside
    BY <1>3, <1>8
  <2>6. ShowsText(out, w, flow)
    BY <2>2, <2>3, <2>4, <2>5 DEF ShowsText
  <2> QED
    BY <2>6 DEF out, flow
<1>9. CASE node.kind = "table"
  <2> DEFINE trs == node.kids
             B == need - (RecordIndent + 2)
  <2>1. out = TableRows(below, trs, w, pending) /\ content = Kids(Kids(ToSet(trs)))
    BY <1>9 DEF RowsOfNode, Content, TextBlock, Heading, Lists, Landmark
  <2>2. /\ IsLayoutTable(trs) => ShowsText(out, w, Fitting(texts, needs, content, w))
        /\ ~IsLayoutTable(trs) => \A b \in Nat :
                   /\ RecordIndent + b + 4 <= w
                   /\ \A n \in LabelWidths(trs) : n <= b
                   => ShowsText(out, w, DataText(trs))
    BY <1>1, <2>1, TableRowsOK
  <2> HIDE DEF out, content
  <2>3. CASE IsLayoutTable(trs)
    <3>1. flow \subseteq inside
      BY <1>3, <1>9, <2>3
    <3>2. ShowsText(out, w, flow)
      BY <1>5, <2>2, <2>3, <3>1 DEF ShowsText
    <3> QED
      BY <3>2 DEF out, flow
  <2>4. CASE ~IsLayoutTable(trs)
    <3>1. \A n \in labels \cup {0} : n \in Nat /\ RecordIndent + n + 2 <= need
      BY <1>2, <1>9
    <3>2. B \in Nat /\ RecordIndent + B + 4 <= w
      <4>1. need \in Nat /\ need + 2 <= w /\ RecordIndent + 0 + 2 <= need
        BY <1>2, <3>1
      <4> QED
        BY <4>1 DEF RecordIndent
    <3>3. \A n \in labels : n <= B
      <4>1. need \in Nat
        BY <1>2
      <4> QED
        BY <3>1, <4>1 DEF RecordIndent
    <3> HIDE DEF B
    <3>4. ShowsText(out, w, DataText(trs))
      BY <2>2, <2>4, <3>2, <3>3 DEF labels
    <3>5. flow \subseteq DataText(trs)
      BY <1>3, <1>9, <2>4
    <3>6. ShowsText(out, w, flow)
      BY <3>4, <3>5 DEF ShowsText
    <3> QED
      BY <3>6 DEF out, flow
  <2> QED
    BY <2>3, <2>4
<1>10. CASE node.kind \in {"li", "details", "form"} \cup Landmark
  <2>1. out = RenderChildren(below, node.kids, w, pending) /\ content = ToSet(node.kids)
    BY <1>10 DEF RowsOfNode, Content, TextBlock, Heading, Lists, Landmark
  <2>2. ShowsText(out, w, Fitting(texts, needs, content, w))
    BY <1>1, <2>1, RenderChildrenOK
  <2>3. flow \subseteq inside
    BY <1>3, <1>10
  <2> HIDE DEF out, content
  <2>4. ShowsText(out, w, flow)
    BY <1>5, <2>2, <2>3 DEF ShowsText
  <2> QED
    BY <2>4 DEF out, flow
<1>11. CASE node.kind \notin Lists \cup Landmark
                \cup {"p", "h1", "table", "li", "blockquote", "details", "form"}
  <2>1. flow = {}
    BY <1>3, <1>11
  <2> HIDE DEF out
  <2>2. ShowsText(out, w, flow)
    BY <2>1 DEF ShowsText
  <2> QED
    BY <2>2 DEF out, flow
<1> QED
  BY <1>6, <1>7, <1>8, <1>9, <1>10, <1>11

\* Every level lays its nodes out, and shows their text where it has room.
LEMMA NodeRowsOK ==
  \A n \in 0 .. Height : LaysOut(NodeRows[n], FlowText[n], Needs[n])
<1> DEFINE S == {n \in 0 .. Height : LaysOut(NodeRows[n], FlowText[n], Needs[n])}
<1>1. Height \in Nat
  BY HeightType
<1>2. 0 \in S
  <2> DEFINE none == <<>>
             laid == NodeRows[0]
             texts == FlowText[0]
             needs == Needs[0]
  <2>1. \A node \in AnyNode : texts[node] = {}
    BY FlowTextSteps DEF NoLine
  <2>2. \A node \in AnyNode : \A w \in Nat : \A pending \in Seq(Handle) :
           laid[node][w][pending] = Pass(none, pending)
    BY RowsOfSteps DEF NoRows
  <2>3. none \in Rows
    BY NoRowsType
  <2> HIDE DEF none, laid, texts, needs
  <2>4. LaysOut(laid, texts, needs)
    BY <2>1, <2>2, <2>3, PassFacts DEF LaysOut, ShowsText
  <2> QED
    BY <1>1, <2>4 DEF laid, texts, needs
<1>3. ASSUME NEW n \in 1 .. Height, n - 1 \in S PROVE n \in S
  <2> DEFINE below == NodeRows[n - 1]
             texts == FlowText[n - 1]
             needs == Needs[n - 1]
             out == NodeRows[n]
             flow == FlowText[n]
             need == Needs[n]
  <2>1. LaysOut(below, texts, needs) /\ n \in 0 .. Height /\ n - 1 \in 0 .. Height
    BY <1>1, <1>3
  <2>2. Measures(needs, AnyNode)
    BY <2>1, NeedsMeasure
  <2>3. out = OneRows(below) /\ flow = OneFlow(texts) /\ need = OneNeeds(needs)
    BY RowsOfSteps, FlowTextSteps, NeedsSteps
  <2> HIDE DEF below, texts, needs, out, flow, need
  <2>4. ASSUME NEW node \in AnyNode
        PROVE  /\ node.kind = "anchor" \/ node.hide => flow[node] = {}
               /\ \A w \in Nat : \A pending \in Seq(Handle) :
                     /\ out[node][w][pending] \in Passed
                     /\ need[node] + 2 <= w => ShowsText(out[node][w][pending], w, flow[node])
    <3>1. flow[node] = FlowTextOf(texts, node) /\ need[node] = NeedsOf(needs, node)
      BY <2>3 DEF OneFlow, OneNeeds
    <3>2. node.kind = "anchor" \/ node.hide => FlowTextOf(texts, node) = {}
      BY FlowByKind
    <3>3. ASSUME NEW w \in Nat, NEW pending \in Seq(Handle)
          PROVE  /\ out[node][w][pending] \in Passed
                 /\ need[node] + 2 <= w => ShowsText(out[node][w][pending], w, flow[node])
      <4>1. out[node][w][pending] = RowsOfNode(below, node, w, pending)
        BY <2>3 DEF OneRows
      <4>2. RowsOfNode(below, node, w, pending) \in Passed
        BY <2>1, <2>2, RowsOfNodeType
      <4>3. NeedsOf(needs, node) + 2 <= w =>
               ShowsText(RowsOfNode(below, node, w, pending), w, FlowTextOf(texts, node))
        BY <2>1, <2>2, RowsOfNodeOK
      <4> QED
        BY <3>1, <4>1, <4>2, <4>3
    <3> QED
      BY <3>1, <3>2, <3>3
  <2>5. LaysOut(out, flow, need)
    BY <2>4 DEF LaysOut
  <2> QED
    BY <2>1, <2>5 DEF out, flow, need
<1> HIDE DEF S
<1>4. 0 .. Height \subseteq S
  BY <1>1, <1>2, <1>3, Induction
<1> QED
  BY <1>4 DEF S

\* A page laid out to some width: rows, with the text of every node that has room.
LEMMA RenderedOK ==
  ASSUME NEW nodes \in Seq(AnyNode), NEW w \in Nat
  PROVE  /\ Rendered(nodes, w) \in Rows
         /\ \A m \in ToSet(nodes) : Needs[Height][m] + 2 <= w =>
               \A c \in FlowText[Height][m] : c # Space => Shows(Rendered(nodes, w), w, c)
<1> DEFINE below == NodeRows[Height]
           texts == FlowText[Height]
           needs == Needs[Height]
           none == <<>>
           content == RenderChildren(below, nodes, w, none)
<1>1. LaysOut(below, texts, needs)
  <2>1. Height \in 0 .. Height
    BY HeightType
  <2> QED
    BY <2>1, NodeRowsOK
<1>2. none \in Seq(Handle)
  BY NoRowsType
<1>3. Rendered(nodes, w) = MarkTrailing(content)
  BY DEF Rendered
<1> HIDE DEF below, texts, needs, none
<1>4. content \in Passed /\ ShowsText(content, w, Fitting(texts, needs, ToSet(nodes), w))
  BY <1>1, <1>2, RenderChildrenOK
<1> HIDE DEF content
<1>5. /\ MarkTrailing(content) \in Rows
      /\ \A v, c : Shows(content.rows, v, c) => Shows(MarkTrailing(content), v, c)
  BY <1>4, MarkTrailingFacts
<1>6. ASSUME NEW m \in ToSet(nodes), needs[m] + 2 <= w, NEW c \in texts[m], c # Space
      PROVE  Shows(Rendered(nodes, w), w, c)
  <2>1. c \in Fitting(texts, needs, ToSet(nodes), w)
    BY <1>6 DEF Fitting
  <2> QED
    BY <1>3, <1>4, <1>5, <1>6, <2>1 DEF ShowsText
<1> QED
  BY <1>3, <1>5, <1>6 DEF texts, needs
=============================================================================
