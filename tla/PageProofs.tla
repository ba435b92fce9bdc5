----------------------------- MODULE PageProofs -----------------------------
(***************************************************************************)
(* Proofs about the page, for any limits and any grammars: the arena the   *)
(* parser's calls build is a forest, and the document the extractor walks  *)
(* out of it reads as the page does, is numbered as it reads, and keeps    *)
(* within its limits.                                                      *)
(*                                                                         *)
(* A call of the sink is a composition of a few changes of the child lists *)
(* and parents; each of them is a lemma about any lists k and any parents  *)
(* q.  The walks are functions of the levels they may go down: what an     *)
(* operation of the extractor keeps is a lemma for whatever the walk one   *)
(* level down keeps, and the walks keep it by induction on the levels.     *)
(***************************************************************************)
EXTENDS LayoutProofs, FiniteSetTheorems

-----------------------------------------------------------------------------
(* Sequences.                                                              *)

LEMMA RemoveFacts ==
    ASSUME NEW S, NEW s \in Seq(S), NEW i \in 1 .. Len(s)
    PROVE  /\ RemoveAt(s, i) \in Seq(S)
           /\ Len(RemoveAt(s, i)) = Len(s) - 1
           /\ \A j \in 1 .. Len(s) - 1 :
                 RemoveAt(s, i)[j] = IF j < i THEN s[j] ELSE s[j + 1]
<1> DEFINE l == SubSeq(s, 1, i - 1)
           r == SubSeq(s, i + 1, Len(s))
<1>1. /\ l \in Seq(S) /\ Len(l) = i - 1
      /\ \A j \in 1 .. i - 1 : l[j] = s[j]
  OBVIOUS
<1>2. /\ r \in Seq(S) /\ Len(r) = Len(s) - i
      /\ \A j \in 1 .. Len(s) - i : r[j] = s[j + i]
  OBVIOUS
<1>3. RemoveAt(s, i) = l \o r
  BY DEF RemoveAt
<1> HIDE DEF l, r
<1>4. l \o r \in Seq(S) /\ Len(l \o r) = Len(s) - 1
  <2>1. l \o r \in Seq(S) /\ Len(l \o r) = Len(l) + Len(r)
    BY <1>1, <1>2, ConcatProperties
  <2>2. Len(s) \in Nat
    OBVIOUS
  <2> QED
    BY <1>1, <1>2, <2>1, <2>2
<1>5. \A j \in 1 .. Len(s) - 1 :
         (l \o r)[j] = IF j < i THEN s[j] ELSE s[j + 1]
  BY <1>1, <1>2
<1> QED
  BY <1>3, <1>4, <1>5

LEMMA InsertFacts ==
    ASSUME NEW S, NEW s \in Seq(S), NEW e \in S, NEW i \in 1 .. Len(s) + 1
    PROVE  /\ InsertAt(s, i, e) \in Seq(S)
           /\ Len(InsertAt(s, i, e)) = Len(s) + 1
           /\ \A j \in 1 .. Len(s) + 1 :
                 InsertAt(s, i, e)[j] = IF j < i THEN s[j]
                                        ELSE IF j = i THEN e ELSE s[j - 1]
<1> DEFINE l == SubSeq(s, 1, i - 1)
           r == SubSeq(s, i, Len(s))
<1>1. /\ l \in Seq(S) /\ Len(l) = i - 1
      /\ \A j \in 1 .. i - 1 : l[j] = s[j]
  OBVIOUS
<1>2. /\ r \in Seq(S) /\ Len(r) = Len(s) - i + 1
      /\ \A j \in 1 .. Len(s) - i + 1 : r[j] = s[j + i - 1]
  OBVIOUS
<1>3. InsertAt(s, i, e) = l \o <<e>> \o r
  BY DEF InsertAt
<1> HIDE DEF l, r
<1>4. l \o <<e>> \o r \in Seq(S) /\ Len(l \o <<e>> \o r) = Len(s) + 1
  <2>1. l \o <<e>> \in Seq(S) /\ Len(l \o <<e>>) = Len(l) + 1
    BY <1>1
  <2>2. l \o <<e>> \o r \in Seq(S) /\ Len(l \o <<e>> \o r) = Len(l) + 1 + Len(r)
    BY <1>1, <1>2, <2>1
  <2>3. Len(s) \in Nat
    OBVIOUS
  <2> QED
    BY <1>1, <1>2, <2>2, <2>3
<1>5. \A j \in 1 .. Len(s) + 1 :
         (l \o <<e>> \o r)[j] = IF j < i THEN s[j]
                                ELSE IF j = i THEN e ELSE s[j - 1]
  <2>1. SUFFICES ASSUME NEW j \in 1 .. Len(s) + 1
                 PROVE  (l \o <<e>> \o r)[j] = IF j < i THEN s[j]
                                               ELSE IF j = i THEN e ELSE s[j - 1]
    OBVIOUS
  <2>2. /\ l \o <<e>> \in Seq(S) /\ Len(l \o <<e>>) = i
        /\ \A m \in 1 .. i - 1 : (l \o <<e>>)[m] = s[m]
        /\ (l \o <<e>>)[i] = e
    BY <1>1
  <2>3. /\ j <= i => (l \o <<e>> \o r)[j] = (l \o <<e>>)[j]
        /\ i < j => (l \o <<e>> \o r)[j] = r[j - i]
    <3> HIDE <1>1
    <3>1. Len(s) \in Nat /\ i \in Nat /\ j \in 1 .. i + Len(r)
      BY <1>2
    <3> QED
      BY <1>2, <2>2, <3>1, ConcatProperties
  <2>4. CASE j < i
    BY <2>2, <2>3, <2>4
  <2>5. CASE j = i
    BY <2>2, <2>3, <2>5
  <2>6. CASE i < j
    <3>1. j - i \in 1 .. Len(s) - i + 1 /\ j - i + i - 1 = j - 1 /\ ~(j < i) /\ j # i
      BY <2>6
    <3> QED
      BY <1>2, <2>3, <2>6, <3>1
  <2>7. j < i \/ j = i \/ i < j
    OBVIOUS
  <2> QED
    BY <2>4, <2>5, <2>6, <2>7, Zenon
<1> QED
  BY <1>3, <1>4, <1>5

LEMMA AppendIsInsert ==
    ASSUME NEW S, NEW s \in Seq(S), NEW e \in S
    PROVE  Append(s, e) = InsertAt(s, Len(s) + 1, e)
<1>1. /\ Append(s, e) \in Seq(S) /\ Len(Append(s, e)) = Len(s) + 1
      /\ \A j \in 1 .. Len(s) : Append(s, e)[j] = s[j]
      /\ Append(s, e)[Len(s) + 1] = e
  OBVIOUS
<1>2. /\ InsertAt(s, Len(s) + 1, e) \in Seq(S)
      /\ Len(InsertAt(s, Len(s) + 1, e)) = Len(s) + 1
      /\ \A j \in 1 .. Len(s) + 1 : InsertAt(s, Len(s) + 1, e)[j]
            = IF j < Len(s) + 1 THEN s[j]
              ELSE IF j = Len(s) + 1 THEN e ELSE s[j - 1]
  <2>1. Len(s) + 1 \in 1 .. Len(s) + 1
    OBVIOUS
  <2> QED
    BY <2>1, InsertFacts
<1>3. \A j \in 1 .. Len(s) + 1 : Append(s, e)[j] = InsertAt(s, Len(s) + 1, e)[j]
  BY <1>1, <1>2
<1> QED
  BY <1>1, <1>2, <1>3, SeqEqual

-----------------------------------------------------------------------------
(* Lists and parents that agree.                                           *)

Shape(k, q) ==
    /\ k \in [Handle -> Seq(Handle)]
    /\ q \in [Handle -> Handle \cup {None}]

ListsAgree(k, q) ==
    \A p \in Handle : \A i \in 1 .. Len(k[p]) :
       /\ q[k[p][i]] = p
       /\ \A j \in 1 .. Len(k[p]) : k[p][j] = k[p][i] => j = i

ParentsAgree(k, q) ==
    \A h \in Handle : q[h] # None =>
       \E i \in 1 .. Len(k[q[h]]) : k[q[h]][i] = h

Agree(k, q) == Shape(k, q) /\ ListsAgree(k, q) /\ ParentsAgree(k, q)

LEMMA NoneIsNoHandle == None \notin Handle
  BY ConstantsAssumption

LEMMA EmptyListIsNoParent ==
    ASSUME NEW k, NEW q, Agree(k, q), NEW c \in Handle, k[c] = <<>>
    PROVE  \A h \in Handle : q[h] # c
<1>1. SUFFICES ASSUME NEW h \in Handle, q[h] = c PROVE FALSE
  OBVIOUS
<1>2. q[h] # None
  BY <1>1, NoneIsNoHandle
<1>3. PICK i \in 1 .. Len(k[q[h]]) : k[q[h]][i] = h
  BY <1>2 DEF Agree, ParentsAgree
<1> QED
  BY <1>1, <1>3

LEMMA UnlinkAgrees ==
    ASSUME NEW k, NEW q, Agree(k, q), NEW p \in Handle,
           NEW i \in 1 .. Len(k[p])
    PROVE  Agree([k EXCEPT ![p] = RemoveAt(@, i)], [q EXCEPT ![k[p][i]] = None])
<1> DEFINE c == k[p][i]
           kk == [k EXCEPT ![p] = RemoveAt(@, i)]
           qq == [q EXCEPT ![c] = None]
           r == RemoveAt(k[p], i)
<1>1. /\ k \in [Handle -> Seq(Handle)] /\ q \in [Handle -> Handle \cup {None}]
      /\ k[p] \in Seq(Handle) /\ c \in Handle /\ q[c] = p
  BY DEF Agree, Shape, ListsAgree
<1>2. /\ r \in Seq(Handle) /\ Len(r) = Len(k[p]) - 1
      /\ \A j \in 1 .. Len(k[p]) - 1 :
            r[j] = IF j < i THEN k[p][j] ELSE k[p][j + 1]
  BY <1>1, RemoveFacts
<1>3. /\ kk[p] = r /\ \A h \in Handle : h # p => kk[h] = k[h]
      /\ qq[c] = None /\ \A h \in Handle : h # c => qq[h] = q[h]
  BY <1>1
<1>4. Shape(kk, qq)
  BY <1>1, <1>2 DEF Shape
<1> HIDE DEF kk, qq, r
<1>5. ListsAgree(kk, qq)
  <2>1. SUFFICES ASSUME NEW h \in Handle, NEW m \in 1 .. Len(kk[h])
                 PROVE  /\ qq[kk[h][m]] = h
                        /\ \A j \in 1 .. Len(kk[h]) : kk[h][j] = kk[h][m] => j = m
    BY DEF ListsAgree
  <2>2. CASE h # p
    <3>1. kk[h] = k[h] /\ k[h] \in Seq(Handle) /\ k[h][m] \in Handle
      BY <1>1, <1>3, <2>2, <2>1
    <3>2. q[k[h][m]] = h /\ k[h][m] # c
      BY <1>1, <2>1, <2>2, <3>1 DEF Agree, ListsAgree
    <3> QED
      <4>1. qq[kk[h][m]] = h
        BY <1>3, <3>1, <3>2
      <4>2. \A j \in 1 .. Len(k[h]) : k[h][j] = k[h][m] => j = m
        BY <2>1, <3>1 DEF Agree, ListsAgree
      <4> QED
        BY <3>1, <4>1, <4>2
  <2>3. CASE h = p
    <3>1. m \in 1 .. Len(k[p]) - 1 /\ Len(k[p]) \in Nat
      BY <1>1, <1>2, <1>3, <2>1, <2>3
    <3> DEFINE at(j) == IF j < i THEN j ELSE j + 1
    <3>2. \A j \in 1 .. Len(k[p]) - 1 :
             at(j) \in 1 .. Len(k[p]) /\ at(j) # i /\ r[j] = k[p][at(j)]
      <4>1. \A j \in 1 .. Len(k[p]) - 1 : at(j) \in 1 .. Len(k[p]) /\ at(j) # i
        BY <3>1
      <4>2. \A j \in 1 .. Len(k[p]) - 1 : r[j] = k[p][at(j)]
        BY <1>2
      <4> QED
        BY <4>1, <4>2
    <3>3. \A j \in 1 .. Len(k[p]) - 1 : at(j) = at(m) => j = m
      <4>1. \A j \in 1 .. Len(k[p]) - 1 :
               (j < i => at(j) = j) /\ (~(j < i) => at(j) = j + 1)
        OBVIOUS
      <4>2. SUFFICES ASSUME NEW j \in 1 .. Len(k[p]) - 1, at(j) = at(m) PROVE j = m
        OBVIOUS
      <4>3. /\ (j < i => at(j) = j) /\ (~(j < i) => at(j) = j + 1)
            /\ (m < i => at(m) = m) /\ (~(m < i) => at(m) = m + 1)
        BY <3>1, <4>1
      <4> HIDE DEF at
      <4>4. i \in Int /\ j \in Int /\ m \in Int
        BY <3>1
      <4>5. \/ j = m
            \/ j = m + 1 /\ j < i /\ ~(m < i)
            \/ m = j + 1 /\ m < i /\ ~(j < i)
            \/ j + 1 = m + 1
        BY <4>2, <4>3
      <4> QED
        BY <4>4, <4>5
    <3>4. \A j \in 1 .. Len(k[p]) - 1 : r[j] \in Handle /\ q[r[j]] = p /\ r[j] # c
      <4>1. \A l \in 1 .. Len(k[p]) :
               k[p][l] \in Handle /\ q[k[p][l]] = p /\ (k[p][l] = c => l = i)
        <5>1. \A l \in 1 .. Len(k[p]) : k[p][l] \in Handle
          BY <1>1
        <5>2. \A l \in 1 .. Len(k[p]) : q[k[p][l]] = p
          BY DEF Agree, ListsAgree
        <5>3. \A l \in 1 .. Len(k[p]) : k[p][l] = k[p][i] => l = i
          BY DEF Agree, ListsAgree
        <5> QED
          BY <5>1, <5>2, <5>3
      <4> HIDE DEF at
      <4> QED
        BY <3>2, <4>1
    <3>5. \A j \in 1 .. Len(k[p]) - 1 : r[j] = r[m] => j = m
      <4> HIDE DEF at
      <4> QED
        BY <3>1, <3>2, <3>3 DEF Agree, ListsAgree
    <3> QED
      BY <1>2, <1>3, <2>3, <3>1, <3>4, <3>5
  <2> QED
    BY <2>2, <2>3
<1>6. ParentsAgree(kk, qq)
  <2>1. SUFFICES ASSUME NEW h \in Handle, qq[h] # None
                 PROVE  \E m \in 1 .. Len(kk[qq[h]]) : kk[qq[h]][m] = h
    BY DEF ParentsAgree
  <2>2. h # c /\ qq[h] = q[h] /\ q[h] \in Handle
    BY <1>1, <1>3, <2>1
  <2>3. PICK j \in 1 .. Len(k[q[h]]) : k[q[h]][j] = h
    BY <2>1, <2>2 DEF Agree, ParentsAgree
  <2>4. CASE q[h] # p
    BY <1>3, <2>2, <2>3, <2>4
  <2>5. CASE q[h] = p
    <3>1. j # i /\ Len(k[p]) \in Nat
      BY <1>1, <2>2, <2>3, <2>5
    <3> DEFINE m == IF j < i THEN j ELSE j - 1
    <3>2. m \in 1 .. Len(k[p]) - 1 /\ r[m] = k[p][j]
      BY <1>2, <2>3, <2>5, <3>1
    <3> QED
      BY <1>2, <1>3, <2>2, <2>3, <2>5, <3>2
  <2> QED
    BY <2>4, <2>5
<1> QED
  BY <1>4, <1>5, <1>6 DEF Agree, kk, qq

LEMMA LinkAgrees ==
    ASSUME NEW k, NEW q, Agree(k, q), NEW p \in Handle, NEW c \in Handle,
           q[c] = None, NEW i \in 1 .. Len(k[p]) + 1
    PROVE  Agree([k EXCEPT ![p] = InsertAt(@, i, c)], [q EXCEPT ![c] = p])
<1> DEFINE kk == [k EXCEPT ![p] = InsertAt(@, i, c)]
           qq == [q EXCEPT ![c] = p]
           r == InsertAt(k[p], i, c)
<1>1. /\ k \in [Handle -> Seq(Handle)] /\ q \in [Handle -> Handle \cup {None}]
      /\ k[p] \in Seq(Handle) /\ Len(k[p]) \in Nat
  BY DEF Agree, Shape
<1>2. /\ r \in Seq(Handle) /\ Len(r) = Len(k[p]) + 1
      /\ \A j \in 1 .. Len(k[p]) + 1 :
            r[j] = IF j < i THEN k[p][j] ELSE IF j = i THEN c ELSE k[p][j - 1]
  BY <1>1, InsertFacts
<1>3. /\ kk[p] = r /\ \A h \in Handle : h # p => kk[h] = k[h]
      /\ qq[c] = p /\ \A h \in Handle : h # c => qq[h] = q[h]
  BY <1>1
<1>4. Shape(kk, qq)
  BY <1>1, <1>2 DEF Shape
<1> HIDE DEF kk, qq, r
<1>5. \A h \in Handle : \A j \in 1 .. Len(k[h]) : k[h][j] \in Handle /\ k[h][j] # c
  <2>1. SUFFICES ASSUME NEW h \in Handle, NEW j \in 1 .. Len(k[h])
                 PROVE  k[h][j] \in Handle /\ k[h][j] # c
    OBVIOUS
  <2>2. q[k[h][j]] = h
    BY DEF Agree, ListsAgree
  <2> QED
    BY <1>1, <2>2, NoneIsNoHandle
<1>6. ListsAgree(kk, qq)
  <2>1. SUFFICES ASSUME NEW h \in Handle, NEW m \in 1 .. Len(kk[h])
                 PROVE  /\ qq[kk[h][m]] = h
                        /\ \A j \in 1 .. Len(kk[h]) : kk[h][j] = kk[h][m] => j = m
    BY DEF ListsAgree
  <2>2. CASE h # p
    <3>1. kk[h] = k[h]
      BY <1>3, <2>2
    <3>2. q[k[h][m]] = h
      BY <2>1, <3>1 DEF Agree, ListsAgree
    <3>3. qq[k[h][m]] = h
      BY <1>3, <1>5, <2>1, <3>1, <3>2
    <3>4. \A j \in 1 .. Len(k[h]) : k[h][j] = k[h][m] => j = m
      BY <2>1, <3>1 DEF Agree, ListsAgree
    <3> QED
      BY <3>1, <3>3, <3>4
  <2>3. CASE h = p
    <3>1. m \in 1 .. Len(k[p]) + 1
      BY <1>2, <1>3, <2>1, <2>3
    <3> DEFINE at(j) == IF j < i THEN j ELSE j - 1
    <3>2. \A j \in 1 .. Len(k[p]) + 1 : j # i =>
             at(j) \in 1 .. Len(k[p]) /\ r[j] = k[p][at(j)]
      <4>1. \A j \in 1 .. Len(k[p]) + 1 : j # i => at(j) \in 1 .. Len(k[p])
        BY <1>1
      <4>2. \A j \in 1 .. Len(k[p]) + 1 : j # i => r[j] = k[p][at(j)]
        BY <1>2
      <4> QED
        BY <4>1, <4>2
    <3>3. \A j, l \in 1 .. Len(k[p]) + 1 :
             j # i /\ l # i /\ at(j) = at(l) => j = l
      <4>1. \A j \in 1 .. Len(k[p]) + 1 :
               (j < i => at(j) = j) /\ (~(j < i) => at(j) = j - 1)
        OBVIOUS
      <4> HIDE DEF at
      <4> QED
        BY <1>1, <4>1
    <3>4. r[i] = c
      <4>1. r[i] = IF i < i THEN k[p][i] ELSE IF i = i THEN c ELSE k[p][i - 1]
        BY <1>2
      <4>2. ~(i < i)
        BY <1>1
      <4> HIDE DEF at
      <4> QED
        BY <4>1, <4>2
    <3> HIDE DEF at
    <3>5. qq[r[m]] = p
      BY <1>3, <1>5, <3>1, <3>2, <3>4 DEF Agree, ListsAgree
    <3>6. \A j \in 1 .. Len(k[p]) + 1 : r[j] = r[m] => j = m
      <4>1. SUFFICES ASSUME NEW j \in 1 .. Len(k[p]) + 1, r[j] = r[m] PROVE j = m
        OBVIOUS
      <4>2. CASE j = i \/ m = i
        BY <1>5, <3>1, <3>2, <3>4, <4>1, <4>2
      <4>3. CASE j # i /\ m # i
        <5>1. at(j) = at(m)
          BY SMTT(30), <3>1, <3>2, <4>1, <4>3 DEF Agree, ListsAgree
        <5> QED
          BY <3>1, <3>3, <4>3, <5>1
      <4> QED
        BY <4>2, <4>3
    <3> QED
      BY <1>2, <1>3, <2>3, <3>5, <3>6
  <2> QED
    BY <2>2, <2>3
<1>7. ParentsAgree(kk, qq)
  <2>1. SUFFICES ASSUME NEW h \in Handle, qq[h] # None
                 PROVE  \E m \in 1 .. Len(kk[qq[h]]) : kk[qq[h]][m] = h
    BY DEF ParentsAgree
  <2>2. CASE h = c
    <3>1. i \in 1 .. Len(r) /\ r[i] = c
      BY <1>1, <1>2
    <3> QED
      BY <1>3, <2>2, <3>1
  <2>3. CASE h # c
    <3>1. qq[h] = q[h] /\ q[h] \in Handle
      BY <1>1, <1>3, <2>1, <2>3
    <3>2. PICK j \in 1 .. Len(k[q[h]]) : k[q[h]][j] = h
      BY <2>1, <3>1 DEF Agree, ParentsAgree
    <3>3. CASE q[h] # p
      BY <1>3, <3>1, <3>2, <3>3
    <3>4. CASE q[h] = p
      <4> DEFINE m == IF j < i THEN j ELSE j + 1
      <4>1. m \in 1 .. Len(k[p]) + 1
        BY <1>1, <3>4
      <4>2. r[m] = k[p][j]
        <5>1. CASE j < i
          BY <1>2, <4>1, <5>1
        <5>2. CASE ~(j < i)
          <6>1. m = j + 1 /\ ~(j + 1 < i) /\ j + 1 # i /\ j + 1 - 1 = j
            BY <1>1, <3>4, <5>2
          <6> QED
            BY <1>2, <4>1, <6>1
        <5> QED
          BY <5>1, <5>2
      <4> QED
        BY <1>2, <1>3, <3>1, <3>2, <3>4, <4>1, <4>2
    <3> QED
      BY <3>3, <3>4
  <2> QED
    BY <2>2, <2>3
<1> QED
  BY <1>4, <1>6, <1>7 DEF Agree, kk, qq

\* All children of h go under m, which has none.
ListsHandedOver(k, h, m) ==
    [p \in Handle |-> IF p = h THEN <<>> ELSE IF p = m THEN k[h] ELSE k[p]]
ParentsHandedOver(q, h, m) == [c \in Handle |-> IF q[c] = h THEN m ELSE q[c]]

LEMMA HandOverAgrees ==
    ASSUME NEW k, NEW q, Agree(k, q), NEW h \in Handle, NEW m \in Handle,
           m # h, k[m] = <<>>
    PROVE  Agree(ListsHandedOver(k, h, m), ParentsHandedOver(q, h, m))
<1> USE DEF ListsHandedOver, ParentsHandedOver
<1> DEFINE kk == ListsHandedOver(k, h, m)
           qq == ParentsHandedOver(q, h, m)
<1>1. /\ k \in [Handle -> Seq(Handle)] /\ q \in [Handle -> Handle \cup {None}]
  BY DEF Agree, Shape
<1>2. k[h] \in Seq(Handle) /\ <<>> \in Seq(Handle)
  BY <1>1
<1>3. kk[h] = <<>> /\ kk[m] = k[h] /\ \A p \in Handle \ {h, m} : kk[p] = k[p]
  BY <1>1, <1>2
<1>4. kk \in [Handle -> Seq(Handle)]
  BY <1>1, <1>2
<1>5. qq \in [Handle -> Handle \cup {None}]
  BY <1>1
<1>6. \A c \in Handle : (q[c] = h => qq[c] = m) /\ (q[c] # h => qq[c] = q[c])
  OBVIOUS
<1> HIDE DEF kk, qq
<1>7. ListsAgree(kk, qq)
  <2>1. SUFFICES ASSUME NEW p \in Handle, NEW i \in 1 .. Len(kk[p])
                 PROVE  /\ qq[kk[p][i]] = p
                        /\ \A j \in 1 .. Len(kk[p]) : kk[p][j] = kk[p][i] => j = i
    BY DEF ListsAgree
  <2>2. p # h
    BY <1>3, <2>1
  <2>3. CASE p = m
    <3>1. kk[p] = k[h] /\ k[h][i] \in Handle
      BY <1>2, <1>3, <2>1, <2>3
    <3>2. q[k[h][i]] = h /\ \A j \in 1 .. Len(k[h]) : k[h][j] = k[h][i] => j = i
      BY <2>1, <3>1 DEF Agree, ListsAgree
    <3> QED
      BY <1>6, <2>3, <3>1, <3>2
  <2>4. CASE p # m
    <3>1. kk[p] = k[p] /\ k[p] \in Seq(Handle) /\ k[p][i] \in Handle
      BY <1>1, <1>3, <2>1, <2>2, <2>4
    <3>2. q[k[p][i]] = p /\ \A j \in 1 .. Len(k[p]) : k[p][j] = k[p][i] => j = i
      BY <2>1, <3>1 DEF Agree, ListsAgree
    <3> QED
      BY <1>6, <2>2, <3>1, <3>2
  <2> QED
    BY <2>3, <2>4
<1>8. ParentsAgree(kk, qq)
  <2>1. SUFFICES ASSUME NEW c \in Handle, qq[c] # None
                 PROVE  \E i \in 1 .. Len(kk[qq[c]]) : kk[qq[c]][i] = c
    BY DEF ParentsAgree
  <2>2. q[c] # None
    BY <1>1, <1>6, <2>1, NoneIsNoHandle
  <2>3. PICK i \in 1 .. Len(k[q[c]]) : k[q[c]][i] = c
    BY <2>2 DEF Agree, ParentsAgree
  <2>4. CASE q[c] = h
    BY <1>3, <1>6, <2>3, <2>4
  <2>5. CASE q[c] # h
    <3>1. q[c] \in Handle \ {h, m}
      <4>1. q[c] # m
        BY EmptyListIsNoParent
      <4> QED
        BY <1>1, <2>2, <2>5, <4>1
    <3> QED
      BY <1>3, <1>6, <2>3, <2>5, <3>1
  <2> QED
    BY <2>4, <2>5
<1> QED
  BY <1>4, <1>5, <1>7, <1>8 DEF Agree, Shape, kk, qq

-----------------------------------------------------------------------------
(* Nobody is its own ancestor.                                             *)

Acyclic(q) ==
    \A S \in SUBSET {h \in Handle : q[h] # None} :
       S # {} => \E h \in S : q[h] \notin S

Parents == [Handle -> Handle \cup {None}]

LEMMA UnlinkStaysAcyclic ==
    ASSUME NEW q \in Parents, Acyclic(q), NEW c \in Handle
    PROVE  Acyclic([q EXCEPT ![c] = None])
<1> DEFINE qq == [q EXCEPT ![c] = None]
<1>1. qq[c] = None /\ \A h \in Handle : h # c => qq[h] = q[h]
  BY DEF Parents
<1> HIDE DEF qq
<1>2. SUFFICES ASSUME NEW S \in SUBSET {h \in Handle : qq[h] # None}, S # {}
               PROVE  \E h \in S : qq[h] \notin S
  BY DEF Acyclic, qq
<1>3. S \in SUBSET {h \in Handle : q[h] # None} /\ c \notin S
  BY <1>1
<1>4. PICK h \in S : q[h] \notin S
  BY <1>2, <1>3 DEF Acyclic
<1> QED
  BY <1>1, <1>3, <1>4

\* The new parent p is outside of what is below c: some set that is closed under
\* parents has p and not c.
LEMMA LinkStaysAcyclic ==
    ASSUME NEW q \in Parents, Acyclic(q), NEW p \in Handle, NEW c \in Handle,
           NEW A, p \in A, c \notin A, \A h \in A : q[h] = None \/ q[h] \in A
    PROVE  Acyclic([q EXCEPT ![c] = p])
<1> DEFINE qq == [q EXCEPT ![c] = p]
<1>1. qq[c] = p /\ \A h \in Handle : h # c => qq[h] = q[h]
  BY DEF Parents
<1> HIDE DEF qq
<1>2. SUFFICES ASSUME NEW S \in SUBSET {h \in Handle : qq[h] # None}, S # {}
               PROVE  \E h \in S : qq[h] \notin S
  BY DEF Acyclic, qq
<1>3. CASE c \notin S
  <2>1. S \in SUBSET {h \in Handle : q[h] # None}
    BY <1>1, <1>3
  <2>2. PICK h \in S : q[h] \notin S
    BY <1>2, <2>1 DEF Acyclic
  <2> QED
    BY <1>1, <1>3, <2>2
<1>4. CASE c \in S /\ p \notin S
  BY <1>1, <1>4
<1>5. CASE p \in S
  <2>1. p \in S \cap A /\ S \cap A \in SUBSET {h \in Handle : q[h] # None}
    BY <1>1, <1>5
  <2>2. PICK h \in S \cap A : q[h] \notin S \cap A
    BY <2>1 DEF Acyclic
  <2>3. q[h] # None /\ h # c /\ h \in Handle
    BY <2>1, <2>2
  <2>4. q[h] \notin S
    BY <2>2, <2>3
  <2> QED
    BY <1>1, <2>2, <2>3, <2>4
<1> QED
  BY <1>3, <1>4, <1>5

LEMMA HandOverStaysAcyclic ==
    ASSUME NEW q \in Parents, Acyclic(q), NEW h \in Handle, NEW m \in Handle,
           m # h, q[m] = None
    PROVE  Acyclic(ParentsHandedOver(q, h, m))
<1> USE DEF ParentsHandedOver
<1> DEFINE qq == ParentsHandedOver(q, h, m)
<1>1. \A c \in Handle : (q[c] = h => qq[c] = m) /\ (q[c] # h => qq[c] = q[c])
  OBVIOUS
<1> HIDE DEF qq
<1>2. SUFFICES ASSUME NEW S \in SUBSET {c \in Handle : qq[c] # None}, S # {}
               PROVE  \E c \in S : qq[c] \notin S
  BY DEF Acyclic, qq
<1>3. m \notin S
  BY <1>1, <1>2, NoneIsNoHandle
<1>4. CASE \E c \in S : q[c] = h
  BY <1>1, <1>3, <1>4
<1>5. CASE \A c \in S : q[c] # h
  <2>1. S \in SUBSET {c \in Handle : q[c] # None}
    BY <1>1, <1>5
  <2>2. PICK c \in S : q[c] \notin S
    BY <1>2, <2>1 DEF Acyclic
  <2> QED
    BY <1>1, <1>5, <2>2
<1> QED
  BY <1>4, <1>5

-----------------------------------------------------------------------------
(* The invariant.  A handle that is not given out, and the overflow handle *)
(* as long as no limit is crossed, is in nobody's list and has none.       *)

Handles ==
    /\ name[Overflow] = Unused /\ kids[Overflow] = <<>>
    /\ \A h \in fresh .. MaxNodeCount + 1 :
          name[h] = Unused /\ parent[h] = None /\ kids[h] = <<>>
    /\ ~OverLimit => parent[Overflow] = None /\ fresh = nodeCount + 2

IInv == TypeOK /\ Agree(kids, parent) /\ Acyclic(parent) /\ Handles

LEMMA InvIsAboutTheArena == IInv => ArenaIsATree
<1>1. SUFFICES ASSUME IInv PROVE ArenaIsATree
  OBVIOUS
<1>2. ListedOnce
  BY <1>1 DEF IInv, Agree, ListsAgree, ListedOnce
<1>3. ParentsList
  BY <1>1 DEF IInv, Agree, ParentsAgree, ParentsList
<1>4. NoCycle
  BY <1>1 DEF IInv, Acyclic, NoCycle
<1> QED
  BY <1>2, <1>3, <1>4 DEF ArenaIsATree

LEMMA SmallHandles ==
    /\ Document \in Handle /\ Overflow \in Handle
    /\ 2 .. MaxNodeCount + 1 \subseteq Handle
  BY LimitsAssumption DEF Handle, Document, Overflow

LEMMA InitInv == InitDom => IInv
<1>1. SUFFICES ASSUME InitDom PROVE IInv
  OBVIOUS
<1>2. TypeOK
  <2>1. <<>> \in Seq(Nat) /\ <<>> \in Seq(Handle)
    OBVIOUS
  <2>2. /\ text \in [Handle -> Seq(Nat)] /\ kids \in [Handle -> Seq(Handle)]
        /\ parent \in [Handle -> Handle \cup {None}] /\ depth \in [Handle -> Nat]
    BY <1>1, <2>1 DEF InitDom
  <2>3. name \in [Handle -> Names \cup {Text, Root, Unused}]
    BY <1>1 DEF InitDom
  <2>4. /\ grammar \in Grammars /\ fresh = 2 /\ nodeCount = 0 /\ written = 0
        /\ moves = 0 /\ depthExceeded = FALSE
    BY <1>1 DEF InitDom
  <2>5. fresh \in 2 .. MaxNodeCount + 2 /\ nodeCount \in 0 .. MaxNodeCount + 1
    BY <2>4, LimitsAssumption
  <2> QED
    BY <2>2, <2>3, <2>4, <2>5 DEF TypeOK
<1>3. \A h \in Handle : kids[h] = <<>> /\ parent[h] = None
  BY <1>1 DEF InitDom
<1>4. Agree(kids, parent)
  <2>1. Shape(kids, parent)
    BY <1>2 DEF TypeOK, Shape
  <2>2. ListsAgree(kids, parent)
    <3>1. \A h \in Handle : Len(kids[h]) = 0
      BY <1>3
    <3> QED
      BY <3>1 DEF ListsAgree
  <2>3. ParentsAgree(kids, parent)
    BY <1>3 DEF ParentsAgree
  <2> QED
    BY <2>1, <2>2, <2>3 DEF Agree
<1>5. Acyclic(parent)
  BY <1>3 DEF Acyclic
<1>6. Handles
  <2>1. \A h \in Handle : h # Document => name[h] = Unused
    BY <1>1 DEF InitDom
  <2>2. fresh = 2 /\ nodeCount = 0
    BY <1>1 DEF InitDom
  <2>3. Overflow # Document /\ \A h \in 2 .. MaxNodeCount + 1 : h # Document
    BY DEF Overflow, Document
  <2> QED
    BY <1>3, <2>1, <2>2, <2>3, SmallHandles DEF Handles
<1> QED
  BY <1>2, <1>4, <1>5, <1>6 DEF IInv

LEMMA TextIsATypeOfItsOwn ==
    /\ Text # Unused /\ Root # Unused /\ Unused \notin Names
  BY ConstantsAssumption DEF Text, Root, Unused

LEMMA NewTextType ==
    ASSUME IInv, NEW n \in grammar.pieces
    PROVE  n \in Nat /\ NewText(n) \in Seq(Nat)
<1>1. grammar \in GrammarType
  BY GrammarsAssumption DEF IInv, TypeOK
<1>2. n \in Nat /\ written \in Nat
  BY <1>1 DEF GrammarType, IInv, TypeOK
<1>3. CASE n = 0
  BY <1>3, <1>2 DEF NewText, Space
<1>4. CASE n # 0
  <2>1. NewText(n) = [i \in 1 .. n |-> written + i]
    BY <1>4 DEF NewText
  <2>2. \A i \in 1 .. n : written + i \in Nat
    BY <1>2
  <2> QED
    BY <1>2, <2>1, <2>2, IsASeq
<1> QED
  BY <1>2, <1>3, <1>4

\* What push gives out stands alone, and everything else of the arena is as it was.
LEMMA PushFacts ==
    ASSUME IInv, ~OverLimit, NEW t \in Names \cup {Text},
           NEW STATE s, s \in Seq(Nat), Push(t, s)
    PROVE  /\ name' \in [Handle -> Names \cup {Text, Root, Unused}]
           /\ text' \in [Handle -> Seq(Nat)]
           /\ fresh' \in 2 .. MaxNodeCount + 2 /\ fresh <= fresh'
           /\ nodeCount' \in 0 .. MaxNodeCount + 1
           /\ name'[Overflow] = Unused
           /\ \A h \in fresh' .. MaxNodeCount + 1 : name'[h] = Unused
           /\ nodeCount' <= MaxNodeCount => fresh' = nodeCount' + 2
           /\ PushedHandle \in Handle /\ name[PushedHandle] = Unused
           /\ parent[PushedHandle] = None /\ kids[PushedHandle] = <<>>
           /\ \A h \in fresh' .. MaxNodeCount + 1 : h # PushedHandle
           /\ PushedHandle = Overflow => nodeCount' > MaxNodeCount
<1>1. /\ nodeCount \in 0 .. MaxNodeCount /\ fresh = nodeCount + 2
      /\ parent[Overflow] = None /\ MaxNodeCount \in Nat
      /\ nodeCount' = nodeCount + 1
  BY LimitsAssumption DEF IInv, TypeOK, Handles, OverLimit, Push
<1>2. CASE nodeCount + 1 > MaxNodeCount
  <2>1. /\ PushedHandle = Overflow /\ name' = name /\ text' = text /\ fresh' = fresh
    BY <1>2 DEF PushedHandle, Push
  <2>2. \A h \in fresh .. MaxNodeCount + 1 : h # Overflow
    BY <1>1 DEF Overflow
  <2> QED
    BY <1>1, <1>2, <2>1, <2>2, SmallHandles DEF IInv, TypeOK, Handles
<1>3. CASE ~(nodeCount + 1 > MaxNodeCount)
  <2>1. /\ PushedHandle = fresh /\ fresh' = fresh + 1
        /\ name' = [name EXCEPT ![fresh] = t] /\ text' = [text EXCEPT ![fresh] = s]
    BY <1>3 DEF PushedHandle, Push
  <2>2. /\ fresh \in 2 .. MaxNodeCount + 1 /\ fresh \in Handle /\ fresh # Overflow
        /\ fresh' \in 2 .. MaxNodeCount + 2
    BY <1>1, <1>3, <2>1, SmallHandles DEF Overflow
  <2>3. name' \in [Handle -> Names \cup {Text, Root, Unused}]
    BY <2>1 DEF IInv, TypeOK
  <2>4. text' \in [Handle -> Seq(Nat)]
    BY <2>1 DEF IInv, TypeOK
  <2>5. name'[Overflow] = Unused
    BY <2>1, <2>2, SmallHandles DEF IInv, TypeOK, Handles
  <2>6. \A h \in fresh' .. MaxNodeCount + 1 :
           h # fresh /\ h \in Handle /\ h \in fresh .. MaxNodeCount + 1
    BY <1>1, <2>1, <2>2, SmallHandles
  <2>7. \A h \in fresh' .. MaxNodeCount + 1 : name'[h] = Unused
    BY <2>1, <2>6 DEF IInv, TypeOK, Handles
  <2>8. name[fresh] = Unused /\ parent[fresh] = None /\ kids[fresh] = <<>>
    BY <1>1, <2>2 DEF IInv, Handles
  <2> QED
    BY <1>1, <1>3, <2>1, <2>2, <2>3, <2>4, <2>5, <2>6, <2>7, <2>8
<1> QED
  BY <1>2, <1>3

LEMMA NamedIsGivenOut ==
    ASSUME IInv, NEW h \in Handle, name[h] # Unused
    PROVE  h # Overflow /\ h \notin fresh .. MaxNodeCount + 1
  BY DEF IInv, Handles

LEMMA ParentIsGivenOut ==
    ASSUME IInv, NEW h \in Handle, parent[h] # None
    PROVE  /\ parent[h] \in Handle /\ kids[parent[h]] # <<>>
           /\ parent[h] # Overflow /\ parent[h] \notin fresh .. MaxNodeCount + 1
<1>1. parent[h] \in Handle
  BY DEF IInv, TypeOK
<1>2. Agree(kids, parent)
  BY DEF IInv
<1>3. kids[parent[h]] # <<>>
  BY <1>1, <1>2, EmptyListIsNoParent
<1> QED
  BY <1>1, <1>3 DEF IInv, Handles

LEMMA PositionFacts ==
    ASSUME NEW s, NEW h, \E i \in 1 .. Len(s) : s[i] = h
    PROVE  Position(s, h) \in 1 .. Len(s) /\ s[Position(s, h)] = h
  BY DEF Position

-----------------------------------------------------------------------------
(* The changes of the tree, applied to the arena.                          *)

LEMMA TreeTypes ==
    ASSUME IInv
    PROVE  /\ kids \in [Handle -> Seq(Handle)] /\ parent \in Parents
           /\ depth \in [Handle -> Nat] /\ Agree(kids, parent) /\ Acyclic(parent)
  BY DEF IInv, TypeOK, Parents

\* A loose node c goes under p, which is not below it.
LEMMA InsertKeepsTree ==
    ASSUME NEW k, NEW q, Agree(k, q), Acyclic(q),
           NEW p \in Handle, NEW c \in Handle, q[c] = None,
           NEW i \in 1 .. Len(k[p]) + 1,
           NEW A, p \in A, c \notin A, \A h \in A : q[h] = None \/ q[h] \in A
    PROVE  /\ Agree([k EXCEPT ![p] = InsertAt(@, i, c)], [q EXCEPT ![c] = p])
           /\ Acyclic([q EXCEPT ![c] = p])
<1>1. q \in Parents
  BY DEF Agree, Shape, Parents
<1>2. Acyclic([q EXCEPT ![c] = p])
  BY <1>1, LinkStaysAcyclic
<1>3. Agree([k EXCEPT ![p] = InsertAt(@, i, c)], [q EXCEPT ![c] = p])
  BY LinkAgrees
<1> QED
  BY <1>2, <1>3

\* detach, of a node that is linked or loose.
LEMMA DetachKeepsTree ==
    ASSUME IInv, NEW c \in Handle
    PROVE  /\ Agree(KidsWithout(c), ParentWithout(c)) /\ Acyclic(ParentWithout(c))
           /\ ParentWithout(c)[c] = None
           /\ \A h \in Handle : h # c => ParentWithout(c)[h] = parent[h]
           /\ \A h \in Handle : kids[h] = <<>> => KidsWithout(c)[h] = <<>>
<1>1. /\ kids \in [Handle -> Seq(Handle)] /\ parent \in Parents
      /\ Agree(kids, parent) /\ Acyclic(parent)
  BY TreeTypes
<1>2. /\ ParentWithout(c)[c] = None
      /\ \A h \in Handle : h # c => ParentWithout(c)[h] = parent[h]
  BY <1>1 DEF ParentWithout, Parents
<1>3. Acyclic(ParentWithout(c))
  BY <1>1, UnlinkStaysAcyclic DEF ParentWithout
<1>4. CASE parent[c] = None
  <2>1. ParentWithout(c) = parent
    BY <1>1, <1>4 DEF ParentWithout, Parents
  <2>2. KidsWithout(c) = kids
    BY <1>4 DEF KidsWithout
  <2> QED
    BY <1>1, <1>2, <1>3, <2>1, <2>2
<1>5. CASE parent[c] # None
  <2> DEFINE p == parent[c]
             i == Position(kids[p], c)
  <2>1. p \in Handle /\ kids[p] # <<>>
    BY <1>5, ParentIsGivenOut
  <2>2. \E j \in 1 .. Len(kids[p]) : kids[p][j] = c
    BY <1>1, <1>5 DEF Agree, ParentsAgree
  <2>3. i \in 1 .. Len(kids[p]) /\ kids[p][i] = c
    BY <2>2, PositionFacts
  <2>4. KidsWithout(c) = [kids EXCEPT ![p] = RemoveAt(@, i)]
    BY <1>1, <1>5, <2>1 DEF KidsWithout
  <2>5. ParentWithout(c) = [parent EXCEPT ![kids[p][i]] = None]
    BY <2>3 DEF ParentWithout
  <2> HIDE DEF p, i
  <2>6. Agree(KidsWithout(c), ParentWithout(c))
    <3>1. Agree([kids EXCEPT ![p] = RemoveAt(@, i)],
                [parent EXCEPT ![kids[p][i]] = None])
      BY <1>1, <2>1, <2>3, UnlinkAgrees
    <3> QED
      BY <2>4, <2>5, <3>1
  <2>7. \A h \in Handle : kids[h] = <<>> => KidsWithout(c)[h] = <<>>
    BY <1>1, <2>1, <2>4
  <2> QED
    BY <1>2, <1>3, <2>6, <2>7
<1> QED
  BY <1>4, <1>5

LEMMA LinkTypes ==
    ASSUME IInv, NEW p \in Handle, NEW STATE c, c \in Handle,
           depth' = [depth EXCEPT ![c] = depth[p] + 1],
           depthExceeded' = (depthExceeded \/ depth[p] + 1 > MaxDomDepth)
    PROVE  /\ depth' \in [Handle -> Nat] /\ depthExceeded' \in BOOLEAN
           /\ depthExceeded => depthExceeded'
<1>1. depth \in [Handle -> Nat] /\ depthExceeded \in BOOLEAN
  BY DEF IInv, TypeOK
<1>2. depth[p] + 1 \in Nat
  BY <1>1
<1> QED
  BY <1>1, <1>2

-----------------------------------------------------------------------------
(* Every call of the sink keeps the invariant.                             *)

LEMMA CreateKeeps ==
    ASSUME IInv, NEW t \in Names, CreateElement(t), UNCHANGED grammar
    PROVE  IInv'
<1>1. ~OverLimit /\ Push(t, <<>>) /\ t \in Names \cup {Text} /\ <<>> \in Seq(Nat)
  BY DEF CreateElement
<1>2. UNCHANGED <<kids, parent, depth, depthExceeded, written, moves, grammar>>
  BY DEF CreateElement
<1>3. /\ name' \in [Handle -> Names \cup {Text, Root, Unused}]
      /\ text' \in [Handle -> Seq(Nat)]
      /\ fresh' \in 2 .. MaxNodeCount + 2 /\ fresh <= fresh'
      /\ nodeCount' \in 0 .. MaxNodeCount + 1
      /\ name'[Overflow] = Unused
      /\ \A h \in fresh' .. MaxNodeCount + 1 : name'[h] = Unused
      /\ nodeCount' <= MaxNodeCount => fresh' = nodeCount' + 2
  BY <1>1, PushFacts
<1>4. TypeOK'
  BY <1>2, <1>3 DEF IInv, TypeOK
<1>5. Handles'
  <2>1. /\ MaxNodeCount \in Nat /\ nodeCount' \in Nat
        /\ fresh \in 2 .. MaxNodeCount + 2
    BY <1>3, LimitsAssumption DEF IInv, TypeOK
  <2>2. kids[Overflow] = <<>> /\ parent[Overflow] = None
    BY <1>1 DEF IInv, Handles
  <2>3. \A h \in fresh' .. MaxNodeCount + 1 : h \in fresh .. MaxNodeCount + 1
    BY <1>3, <2>1
  <2>4. \A h \in fresh' .. MaxNodeCount + 1 : parent[h] = None /\ kids[h] = <<>>
    BY <2>3 DEF IInv, Handles
  <2>5. ~OverLimit' => nodeCount' <= MaxNodeCount
    BY <2>1 DEF OverLimit
  <2> QED
    BY <1>2, <1>3, <2>2, <2>4, <2>5 DEF Handles
<1> QED
  BY <1>2, <1>4, <1>5 DEF IInv

LEMMA AddTextKeeps ==
    ASSUME IInv, NEW n \in grammar.pieces, NEW STATE h, h \in Handle,
           AddText(h, n), written' \in Nat, moves' \in Nat, UNCHANGED grammar
    PROVE  IInv'
<1>1. UNCHANGED <<name, kids, parent, depth, fresh, nodeCount, depthExceeded>>
  BY DEF AddText
<1>2. text' \in [Handle -> Seq(Nat)]
  <2>1. text \in [Handle -> Seq(Nat)] /\ NewText(n) \in Seq(Nat)
    BY NewTextType DEF IInv, TypeOK
  <2>2. text[h] \o NewText(n) \in Seq(Nat)
    BY <2>1
  <2> QED
    BY <2>1, <2>2 DEF AddText
<1>3. TypeOK'
  BY <1>1, <1>2 DEF IInv, TypeOK
<1>4. Handles'
  BY <1>1 DEF IInv, Handles, OverLimit
<1> QED
  BY <1>1, <1>3, <1>4 DEF IInv

LEMMA WriteType ==
    ASSUME IInv, NEW n \in grammar.pieces, Write(n)
    PROVE  written' \in Nat
  BY NewTextType DEF IInv, TypeOK, Write

LEMMA MoveType ==
    ASSUME IInv, Move
    PROVE  moves' \in Nat
  BY DEF IInv, TypeOK, Move

\* A call that changes the list of p and the parent of c, and what is left to
\* show of it.
LinksOnly(p, c) ==
    /\ p \in Handle /\ c \in Handle
    /\ fresh \in Nat /\ fresh' \in Nat /\ fresh <= fresh' /\ MaxNodeCount \in Nat
    /\ name'[Overflow] = Unused /\ p # Overflow
    /\ \A h \in fresh' .. MaxNodeCount + 1 : name'[h] = Unused /\ h # c /\ h # p
    /\ \A h \in Handle : h # p /\ kids[h] = <<>> => kids'[h] = <<>>
    /\ \A h \in Handle : h # c /\ parent[h] = None => parent'[h] = None
    /\ c = Overflow => OverLimit'
    /\ ~OverLimit' => fresh' = nodeCount' + 2

LEMMA HandlesKept ==
    ASSUME IInv, ~OverLimit, NEW STATE p, NEW STATE c, LinksOnly(p, c)
    PROVE  Handles'
<1> USE DEF LinksOnly
<1>1. /\ kids[Overflow] = <<>> /\ parent[Overflow] = None
      /\ Overflow \in Handle
  BY SmallHandles DEF IInv, Handles
<1>2. \A h \in fresh' .. MaxNodeCount + 1 : h \in fresh .. MaxNodeCount + 1
  OBVIOUS
<1>3. \A h \in fresh' .. MaxNodeCount + 1 :
         h \in Handle /\ parent[h] = None /\ kids[h] = <<>>
  <2>1. fresh \in 2 .. MaxNodeCount + 2
    BY DEF IInv, TypeOK
  <2>2. \A h \in fresh .. MaxNodeCount + 1 : h \in 2 .. MaxNodeCount + 1
    BY <2>1
  <2> QED
    BY <1>2, <2>2, SmallHandles DEF IInv, Handles
<1>4. kids'[Overflow] = <<>>
  BY <1>1
<1>5. \A h \in fresh' .. MaxNodeCount + 1 :
         name'[h] = Unused /\ parent'[h] = None /\ kids'[h] = <<>>
  BY <1>3
<1>6. ~OverLimit' => parent'[Overflow] = None
  BY <1>1
<1> QED
  BY <1>4, <1>5, <1>6 DEF Handles

LEMMA Bounds ==
    ASSUME IInv
    PROVE  /\ MaxNodeCount \in Nat /\ fresh \in 2 .. MaxNodeCount + 2 /\ fresh \in Nat
           /\ ~OverLimit => fresh = nodeCount + 2
<1>1. MaxNodeCount \in Nat /\ fresh \in 2 .. MaxNodeCount + 2
  BY LimitsAssumption DEF IInv, TypeOK
<1>2. fresh \in Nat
  BY <1>1
<1> QED
  BY <1>1, <1>2 DEF IInv, Handles

\* With no handle given out, and no limit on nodes crossed.
LEMMA LimitsKept ==
    ASSUME IInv, ~OverLimit, fresh' = fresh, nodeCount' = nodeCount
    PROVE  ~OverLimit' => fresh' = nodeCount' + 2
  BY DEF IInv, Handles

LEMMA AppendNodeKeeps ==
    ASSUME IInv, NEW c \in Loose, NEW p \in Handle, AppendNode(p, c),
           UNCHANGED grammar
    PROVE  IInv'
<1>1. /\ ~OverLimit /\ c \in Handle /\ name[c] # Unused /\ parent[c] = None
      /\ name[p] \in Names \cup {Root} /\ NotBelow(p, c) /\ LinkChild(p, c)
      /\ UNCHANGED <<name, text, fresh, nodeCount, written, moves>>
  BY DEF AppendNode, Allows, Loose
<1>2. /\ kids \in [Handle -> Seq(Handle)] /\ parent \in Parents
      /\ Agree(kids, parent) /\ Acyclic(parent)
  BY TreeTypes
<1>3. /\ kids' = [kids EXCEPT ![p] = InsertAt(@, Len(kids[p]) + 1, c)]
      /\ parent' = [parent EXCEPT ![c] = p]
  <2>1. Append(kids[p], c) = InsertAt(kids[p], Len(kids[p]) + 1, c)
    BY <1>1, <1>2, AppendIsInsert
  <2> QED
    BY <1>1, <1>2, <2>1 DEF LinkChild
<1>4. PICK A \in SUBSET (0 .. fresh - 1) :
         p \in A /\ c \notin A /\ \A h \in A : parent[h] = None \/ parent[h] \in A
  BY <1>1 DEF NotBelow, IsBelow, ClosedUpwards
<1>5. Len(kids[p]) + 1 \in 1 .. Len(kids[p]) + 1
  BY <1>2
<1>6. Agree(kids', parent') /\ Acyclic(parent')
  <2>1. /\ Agree([kids EXCEPT ![p] = InsertAt(@, Len(kids[p]) + 1, c)],
                  [parent EXCEPT ![c] = p])
        /\ Acyclic([parent EXCEPT ![c] = p])
    BY <1>1, <1>2, <1>4, <1>5, InsertKeepsTree
  <2> QED
    BY <1>3, <2>1
<1>7. depth' \in [Handle -> Nat] /\ depthExceeded' \in BOOLEAN
  BY <1>1, LinkTypes DEF LinkChild
<1>8. TypeOK'
  BY <1>1, <1>6, <1>7 DEF IInv, TypeOK, Agree, Shape
<1>9. Handles'
  <2>1. /\ p # Overflow /\ p \notin fresh .. MaxNodeCount + 1
        /\ c # Overflow /\ c \notin fresh .. MaxNodeCount + 1
    BY <1>1, NamedIsGivenOut, TextIsATypeOfItsOwn
  <2>2. name[Overflow] = Unused
        /\ \A h \in fresh .. MaxNodeCount + 1 : name[h] = Unused
    BY DEF IInv, Handles
  <2>3. /\ \A h \in Handle : h # p => kids'[h] = kids[h]
        /\ \A h \in Handle : h # c => parent'[h] = parent[h]
    BY <1>2, <1>3 DEF Parents
  <2>4. fresh' = fresh /\ name' = name /\ nodeCount' = nodeCount
    BY <1>1
  <2>5. ~OverLimit' => fresh' = nodeCount' + 2
    BY <1>1, <2>4, LimitsKept
  <2>6. \A h \in fresh' .. MaxNodeCount + 1 : name'[h] = Unused /\ h # c /\ h # p
    BY <2>1, <2>2, <2>4
  <2>7. fresh \in Nat /\ fresh <= fresh' /\ MaxNodeCount \in Nat /\ fresh' \in Nat
    BY <2>4, Bounds
  <2> QED
    <3>1. LinksOnly(p, c)
      BY <1>1, <2>1, <2>2, <2>3, <2>4, <2>5, <2>6, <2>7 DEF LinksOnly
    <3> QED
      BY <1>1, <3>1, HandlesKept
<1> QED
  BY <1>6, <1>8, <1>9 DEF IInv

\* A new text node is put into the list of p.
LEMMA PushedTextKeeps ==
    ASSUME IInv, ~OverLimit, NEW n \in grammar.pieces, NEW STATE p, p \in Handle,
           p # Overflow, p \notin fresh .. MaxNodeCount + 1,
           NEW STATE i, i \in 1 .. Len(kids[p]) + 1,
           Push(Text, NewText(n)),
           kids' = [kids EXCEPT ![p] = InsertAt(@, i, PushedHandle)],
           parent' = [parent EXCEPT ![PushedHandle] = p],
           depth' = [depth EXCEPT ![PushedHandle] = depth[p] + 1],
           depthExceeded' = (depthExceeded \/ depth[p] + 1 > MaxDomDepth),
           written' \in Nat, moves' \in Nat, UNCHANGED grammar
    PROVE  IInv'
<1> DEFINE c == PushedHandle
<1>1. /\ name' \in [Handle -> Names \cup {Text, Root, Unused}]
      /\ text' \in [Handle -> Seq(Nat)]
      /\ fresh' \in 2 .. MaxNodeCount + 2 /\ fresh <= fresh'
      /\ nodeCount' \in 0 .. MaxNodeCount + 1
      /\ name'[Overflow] = Unused
      /\ \A h \in fresh' .. MaxNodeCount + 1 : name'[h] = Unused
      /\ nodeCount' <= MaxNodeCount => fresh' = nodeCount' + 2
      /\ c \in Handle /\ parent[c] = None /\ kids[c] = <<>>
      /\ \A h \in fresh' .. MaxNodeCount + 1 : h # c
      /\ c = Overflow => nodeCount' > MaxNodeCount
  BY NewTextType, PushFacts
<1>2. c = Overflow \/ c \in fresh .. MaxNodeCount + 1
  <2>1. CASE nodeCount + 1 > MaxNodeCount
    BY <2>1 DEF PushedHandle
  <2>2. CASE ~(nodeCount + 1 > MaxNodeCount)
    <3>1. PushedHandle = fresh
      BY <2>2 DEF PushedHandle
    <3>2. fresh = nodeCount + 2 /\ nodeCount \in Nat /\ MaxNodeCount \in Nat
      BY Bounds DEF IInv, TypeOK
    <3> QED
      BY <2>2, <3>1, <3>2
  <2> QED
    BY <2>1, <2>2
<1>3. p # c
  BY <1>2
<1> HIDE DEF c
<1>4. /\ kids \in [Handle -> Seq(Handle)] /\ parent \in Parents
      /\ Agree(kids, parent) /\ Acyclic(parent)
  BY TreeTypes
<1>5. Agree(kids', parent') /\ Acyclic(parent')
  <2> DEFINE A == Handle \ {c}
  <2>1. p \in A /\ c \notin A /\ \A h \in A : parent[h] = None \/ parent[h] \in A
    <3>1. \A h \in Handle : parent[h] # c
      BY SMTT(30), <1>1, <1>4, EmptyListIsNoParent
    <3> QED
      BY <1>3, <1>4, <3>1 DEF Parents
  <2> HIDE DEF A
  <2>2. /\ Agree([kids EXCEPT ![p] = InsertAt(@, i, c)], [parent EXCEPT ![c] = p])
        /\ Acyclic([parent EXCEPT ![c] = p])
    BY <1>1, <1>4, <2>1, InsertKeepsTree
  <2> QED
    BY <2>2 DEF c
<1>6. depth' \in [Handle -> Nat] /\ depthExceeded' \in BOOLEAN
  BY <1>1, LinkTypes DEF c
<1>7. TypeOK'
  BY <1>1, <1>5, <1>6 DEF IInv, TypeOK, Agree, Shape
<1>8. Handles'
  <2>1. /\ \A h \in Handle : h # p => kids'[h] = kids[h]
        /\ \A h \in Handle : h # c => parent'[h] = parent[h]
    BY <1>4 DEF Parents, c
  <2>2. fresh \in Nat /\ MaxNodeCount \in Nat /\ fresh' \in Nat /\ nodeCount' \in Nat
    <3>1. fresh \in Nat /\ MaxNodeCount \in Nat
      BY Bounds
    <3> QED
      BY <1>1, <3>1
  <2>3. \A h \in fresh' .. MaxNodeCount + 1 : h # p
    BY <1>1, <2>2
  <2>4. nodeCount' > MaxNodeCount => OverLimit'
    BY DEF OverLimit
  <2>5. ~OverLimit' => nodeCount' <= MaxNodeCount
    BY <2>2, <2>4
  <2>6. \A h \in fresh' .. MaxNodeCount + 1 : name'[h] = Unused /\ h # c /\ h # p
    BY <1>1, <2>3
  <2>7. /\ \A h \in Handle : h # p /\ kids[h] = <<>> => kids'[h] = <<>>
        /\ \A h \in Handle : h # c /\ parent[h] = None => parent'[h] = None
    BY <2>1
  <2>8. /\ c = Overflow => OverLimit'
        /\ ~OverLimit' => fresh' = nodeCount' + 2
        /\ c \in Handle /\ fresh <= fresh' /\ name'[Overflow] = Unused
    BY <1>1, <2>4, <2>5
  <2>9. LinksOnly(p, c)
    BY <2>2, <2>6, <2>7, <2>8 DEF LinksOnly
  <2> QED
    BY <2>9, HandlesKept
<1> QED
  BY <1>5, <1>7, <1>8 DEF IInv

LEMMA AppendTextKeeps ==
    ASSUME IInv, NEW p \in Handle, NEW n \in grammar.pieces, AppendText(p, n),
           UNCHANGED grammar
    PROVE  IInv'
<1>1. /\ ~OverLimit /\ name[p] \in Names \cup {Root} /\ Write(n) /\ moves' = moves
  BY DEF AppendText, Allows
<1>2. written' \in Nat /\ moves' \in Nat
  <2>1. moves \in Nat
    BY DEF IInv, TypeOK
  <2> QED
    BY <1>1, <2>1, WriteType
<1>3. kids \in [Handle -> Seq(Handle)]
  BY TreeTypes
<1>4. CASE kids[p] # <<>> /\ name[Last(kids[p])] = Text
  <2>1. Last(kids[p]) \in Handle
    BY <1>3, <1>4 DEF Last
  <2>2. AddText(Last(kids[p]), n)
    BY <1>4 DEF AppendText
  <2> QED
    BY <1>2, <2>1, <2>2, AddTextKeeps
<1>5. CASE ~(kids[p] # <<>> /\ name[Last(kids[p])] = Text)
  <2>1. Push(Text, NewText(n)) /\ LinkChild(p, PushedHandle)
    BY <1>5 DEF AppendText
  <2>2. PushedHandle \in Handle
    BY <1>1, <2>1, NewTextType, PushFacts
  <2>3. Append(kids[p], PushedHandle) = InsertAt(kids[p], Len(kids[p]) + 1, PushedHandle)
    BY <1>3, <2>2, AppendIsInsert
  <2>4. kids' = [kids EXCEPT ![p] = InsertAt(@, Len(kids[p]) + 1, PushedHandle)]
    BY <1>3, <2>1, <2>3 DEF LinkChild
  <2>5. p # Overflow /\ p \notin fresh .. MaxNodeCount + 1
    BY <1>1, NamedIsGivenOut, TextIsATypeOfItsOwn
  <2>6. Len(kids[p]) + 1 \in 1 .. Len(kids[p]) + 1
    BY <1>3
  <2> QED
    BY <1>1, <1>2, <2>1, <2>4, <2>5, <2>6, PushedTextKeeps DEF LinkChild
<1> QED
  BY <1>4, <1>5

LEMMA AppendTextBeforeKeeps ==
    ASSUME IInv, NEW s \in Handle, NEW n \in grammar.pieces,
           AppendTextBefore(s, n), UNCHANGED grammar
    PROVE  IInv'
<1> DEFINE p == parent[s]
           i == Position(kids[p], s)
<1>1. ~OverLimit /\ Move /\ parent[s] # None /\ Write(n)
  BY DEF AppendTextBefore
<1>2. written' \in Nat /\ moves' \in Nat
  BY <1>1, WriteType, MoveType
<1>3. /\ kids \in [Handle -> Seq(Handle)] /\ Agree(kids, parent)
  BY TreeTypes
<1>4. p \in Handle /\ p # Overflow /\ p \notin fresh .. MaxNodeCount + 1
  BY <1>1, ParentIsGivenOut
<1>5. i \in 1 .. Len(kids[p])
  <2>1. \E j \in 1 .. Len(kids[p]) : kids[p][j] = s
    BY <1>1, <1>3 DEF Agree, ParentsAgree
  <2> QED
    BY <2>1, PositionFacts
<1>6. IF i > 1 /\ name[kids[p][i - 1]] = Text
      THEN AddText(kids[p][i - 1], n)
      ELSE /\ Push(Text, NewText(n))
           /\ InsertChild(p, i, PushedHandle, kids, parent)
  BY DEF AppendTextBefore
<1> HIDE DEF p, i
<1>7. CASE i > 1 /\ name[kids[p][i - 1]] = Text
  <2>1. kids[p][i - 1] \in Handle
    <3>1. kids[p] \in Seq(Handle) /\ i - 1 \in 1 .. Len(kids[p])
      BY <1>3, <1>4, <1>5, <1>7
    <3> QED
      BY <3>1
  <2>2. AddText(kids[p][i - 1], n)
    BY <1>6, <1>7
  <2> QED
    BY <1>2, <2>1, <2>2, AddTextKeeps
<1>8. CASE ~(i > 1 /\ name[kids[p][i - 1]] = Text)
  <2>1. Push(Text, NewText(n)) /\ InsertChild(p, i, PushedHandle, kids, parent)
    BY <1>6, <1>8
  <2>2. i \in 1 .. Len(kids[p]) + 1
    BY <1>3, <1>4, <1>5
  <2> QED
    BY <1>1, <1>2, <1>4, <2>1, <2>2, PushedTextKeeps DEF InsertChild
<1> QED
  BY <1>7, <1>8

LEMMA AppendNodeBeforeKeeps ==
    ASSUME IInv, NEW s \in Elements, NEW c \in Elements, AppendNodeBefore(s, c),
           UNCHANGED grammar
    PROVE  IInv'
<1> DEFINE p == parent[s]
           k == KidsWithout(c)
           q == ParentWithout(c)
           i == Position(k[p], s)
<1>1. /\ ~OverLimit /\ Move /\ c # s /\ parent[s] # None /\ NotBelow(p, c)
      /\ InsertChild(p, i, c, k, q)
      /\ UNCHANGED <<name, text, fresh, nodeCount, written>>
  BY DEF AppendNodeBefore
<1>2. s \in Handle /\ c \in Handle /\ name[c] # Unused
  BY TextIsATypeOfItsOwn DEF Elements
<1>3. p \in Handle /\ p # Overflow /\ p \notin fresh .. MaxNodeCount + 1
  BY <1>1, <1>2, ParentIsGivenOut
<1>4. /\ Agree(k, q) /\ Acyclic(q) /\ q[c] = None
      /\ \A h \in Handle : h # c => q[h] = parent[h]
      /\ \A h \in Handle : kids[h] = <<>> => k[h] = <<>>
  BY <1>2, DetachKeepsTree
<1>5. q[s] = p
  BY <1>1, <1>2, <1>4
<1> HIDE DEF k, q
<1>6. k \in [Handle -> Seq(Handle)] /\ q \in Parents
  BY <1>4 DEF Agree, Shape, Parents
<1>7. i \in 1 .. Len(k[p])
  <2>1. \E j \in 1 .. Len(k[p]) : k[p][j] = s
    BY <1>1, <1>2, <1>4, <1>5 DEF Agree, ParentsAgree
  <2> QED
    BY <2>1, PositionFacts
<1> HIDE DEF i, p
<1>8. i \in 1 .. Len(k[p]) + 1
  BY <1>3, <1>6, <1>7
<1>9. /\ kids' = [k EXCEPT ![p] = InsertAt(@, i, c)] /\ parent' = [q EXCEPT ![c] = p]
      /\ depth' = [depth EXCEPT ![c] = depth[p] + 1]
      /\ depthExceeded' = (depthExceeded \/ depth[p] + 1 > MaxDomDepth)
  BY <1>1 DEF InsertChild
<1>10. PICK A \in SUBSET (0 .. fresh - 1) :
          p \in A /\ c \notin A /\ \A h \in A : parent[h] = None \/ parent[h] \in A
  BY <1>1 DEF NotBelow, IsBelow, ClosedUpwards
<1>11. A \subseteq Handle
  BY LimitsAssumption, Bounds DEF Handle
<1>12. \A h \in A : q[h] = None \/ q[h] \in A
  BY <1>4, <1>10, <1>11
<1>13. Agree(kids', parent') /\ Acyclic(parent')
  <2>1. /\ Agree([k EXCEPT ![p] = InsertAt(@, i, c)], [q EXCEPT ![c] = p])
        /\ Acyclic([q EXCEPT ![c] = p])
    BY <1>2, <1>3, <1>4, <1>8, <1>10, <1>12, InsertKeepsTree
  <2> QED
    BY <1>9, <2>1
<1>14. depth' \in [Handle -> Nat] /\ depthExceeded' \in BOOLEAN
  BY <1>2, <1>3, <1>9, LinkTypes
<1>15. moves' \in Nat
  BY <1>1, MoveType
<1>16. TypeOK'
  BY <1>1, <1>13, <1>14, <1>15 DEF IInv, TypeOK, Agree, Shape
<1>17. Handles'
  <2>1. c # Overflow /\ c \notin fresh .. MaxNodeCount + 1
    BY <1>2, NamedIsGivenOut
  <2>2. /\ name[Overflow] = Unused
        /\ \A h \in fresh .. MaxNodeCount + 1 : name[h] = Unused
    BY DEF IInv, Handles
  <2>3. \A h \in Handle : h # p => kids'[h] = k[h]
    BY <1>6, <1>9
  <2>4. \A h \in Handle : h # c => parent'[h] = q[h]
    BY <1>6, <1>9 DEF Parents
  <2>5. /\ \A h \in Handle : h # p /\ kids[h] = <<>> => kids'[h] = <<>>
        /\ \A h \in Handle : h # c /\ parent[h] = None => parent'[h] = None
    BY <1>4, <2>3, <2>4
  <2>6. fresh' = fresh /\ name' = name /\ nodeCount' = nodeCount
    BY <1>1
  <2>7. ~OverLimit' => fresh' = nodeCount' + 2
    BY <1>1, <2>6, LimitsKept
  <2>8. \A h \in fresh' .. MaxNodeCount + 1 : name'[h] = Unused /\ h # c /\ h # p
    BY <1>3, <2>1, <2>2, <2>6
  <2>9. fresh \in Nat /\ fresh <= fresh' /\ MaxNodeCount \in Nat /\ fresh' \in Nat
    BY <2>6, Bounds
  <2> QED
    <3>1. LinksOnly(p, c)
      BY <1>1, <1>2, <1>3, <2>1, <2>2, <2>5, <2>6, <2>7, <2>8, <2>9 DEF LinksOnly
    <3> QED
      BY <1>1, <3>1, HandlesKept
<1> QED
  BY <1>13, <1>16, <1>17 DEF IInv

LEMMA RemoveKeeps ==
    ASSUME IInv, NEW c \in Elements, RemoveFromParent(c), UNCHANGED grammar
    PROVE  IInv'
<1>1. /\ ~OverLimit /\ Move
      /\ kids' = KidsWithout(c) /\ parent' = ParentWithout(c)
      /\ UNCHANGED <<name, text, depth, fresh, nodeCount, depthExceeded, written>>
  BY DEF RemoveFromParent
<1>2. c \in Handle
  BY DEF Elements
<1>3. /\ Agree(kids', parent') /\ Acyclic(parent') /\ parent'[c] = None
      /\ \A h \in Handle : h # c => parent'[h] = parent[h]
      /\ \A h \in Handle : kids[h] = <<>> => kids'[h] = <<>>
  BY <1>1, <1>2, DetachKeepsTree
<1>4. moves' \in Nat
  BY <1>1, MoveType
<1>5. TypeOK'
  BY <1>1, <1>3, <1>4 DEF IInv, TypeOK, Agree, Shape
<1>6. Handles'
  <2>1. /\ kids[Overflow] = <<>> /\ parent[Overflow] = None /\ Overflow \in Handle
        /\ fresh = nodeCount + 2 /\ name[Overflow] = Unused
        /\ \A h \in fresh .. MaxNodeCount + 1 :
              name[h] = Unused /\ parent[h] = None /\ kids[h] = <<>>
    BY <1>1, SmallHandles DEF IInv, Handles
  <2>2. \A h \in fresh .. MaxNodeCount + 1 : h \in Handle
    <3>1. \A h \in fresh .. MaxNodeCount + 1 : h \in 2 .. MaxNodeCount + 1
      BY Bounds
    <3> QED
      BY <3>1, SmallHandles
  <2>3. \A h \in Handle : parent[h] = None => parent'[h] = None
    BY <1>3
  <2> QED
    BY <1>1, <1>3, <2>1, <2>2, <2>3 DEF Handles
<1> QED
  BY <1>3, <1>5, <1>6 DEF IInv

LEMMA ReparentKeeps ==
    ASSUME IInv, NEW h \in Elements, NEW m \in Loose, ReparentChildren(h, m),
           UNCHANGED grammar
    PROVE  IInv'
<1>1. /\ ~OverLimit /\ Move /\ kids[h] # <<>> /\ m # h /\ kids[m] = <<>>
      /\ kids' = [kids EXCEPT ![h] = <<>>, ![m] = @ \o kids[h]]
      /\ parent' = [c \in Handle |-> IF parent[c] = h THEN m ELSE parent[c]]
      /\ depth' = [c \in Handle |-> IF parent[c] = h THEN depth[m] + 1 ELSE depth[c]]
      /\ depthExceeded' = (depthExceeded \/ depth[m] + 1 > MaxDomDepth)
      /\ UNCHANGED <<name, text, fresh, nodeCount, written>>
  BY DEF ReparentChildren
<1>2. /\ h \in Handle /\ m \in Handle /\ name[m] # Unused /\ parent[m] = None
  BY DEF Elements, Loose
<1>3. /\ kids \in [Handle -> Seq(Handle)] /\ parent \in Parents
      /\ depth \in [Handle -> Nat] /\ Agree(kids, parent) /\ Acyclic(parent)
  BY TreeTypes
<1>4. /\ kids' = ListsHandedOver(kids, h, m)
      /\ parent' = ParentsHandedOver(parent, h, m)
  <2>1. <<>> \o kids[h] = kids[h]
    BY <1>2, <1>3
  <2>2. kids' = ListsHandedOver(kids, h, m)
    BY <1>1, <1>2, <1>3, <2>1 DEF ListsHandedOver
  <2> QED
    BY <1>1, <2>2 DEF ParentsHandedOver
<1>5. Agree(kids', parent') /\ Acyclic(parent')
  <2>1. /\ Agree(kids, parent) /\ parent \in Parents /\ Acyclic(parent)
        /\ h \in Handle /\ m \in Handle /\ m # h /\ kids[m] = <<>> /\ parent[m] = None
    BY <1>1, <1>2, <1>3
  <2>2. Agree(ListsHandedOver(kids, h, m), ParentsHandedOver(parent, h, m))
    BY <2>1, HandOverAgrees
  <2>3. Acyclic(ParentsHandedOver(parent, h, m))
    BY <2>1, HandOverStaysAcyclic
  <2> QED
    BY <1>4, <2>2, <2>3
<1>6. depth' \in [Handle -> Nat] /\ depthExceeded' \in BOOLEAN
  <2>1. depth[m] + 1 \in Nat
    BY <1>2, <1>3
  <2> QED
    BY <1>1, <1>3, <2>1
<1>7. moves' \in Nat
  BY <1>1, MoveType
<1>8. TypeOK'
  BY <1>1, <1>5, <1>6, <1>7 DEF IInv, TypeOK, Agree, Shape
<1>9. Handles'
  <2>1. m # Overflow /\ m \notin fresh .. MaxNodeCount + 1
    BY <1>2, NamedIsGivenOut
  <2>2. /\ kids[Overflow] = <<>> /\ parent[Overflow] = None /\ Overflow \in Handle
        /\ fresh = nodeCount + 2 /\ name[Overflow] = Unused
        /\ \A x \in fresh .. MaxNodeCount + 1 :
              name[x] = Unused /\ parent[x] = None /\ kids[x] = <<>>
    BY <1>1, SmallHandles DEF IInv, Handles
  <2>3. \A x \in fresh .. MaxNodeCount + 1 : x \in Handle
    <3>1. \A x \in fresh .. MaxNodeCount + 1 : x \in 2 .. MaxNodeCount + 1
      BY Bounds
    <3> QED
      BY <3>1, SmallHandles
  <2>4. \A x \in Handle : parent[x] = None => parent'[x] = None
    BY <1>1, <1>2, NoneIsNoHandle
  <2>5. \A x \in Handle : x # m /\ kids[x] = <<>> => kids'[x] = <<>>
    BY <1>1, <1>2, <1>3
  <2>6. ~OverLimit' => fresh' = nodeCount' + 2
    BY <1>1, <2>2
  <2>7. kids'[Overflow] = <<>> /\ parent'[Overflow] = None
    BY <2>1, <2>2, <2>4, <2>5
  <2>8. \A x \in fresh .. MaxNodeCount + 1 :
           name[x] = Unused /\ parent'[x] = None /\ kids'[x] = <<>>
    BY <2>1, <2>2, <2>3, <2>4, <2>5
  <2> QED
    BY <1>1, <2>2, <2>6, <2>7, <2>8 DEF Handles
<1> QED
  BY <1>5, <1>8, <1>9 DEF IInv

-----------------------------------------------------------------------------

LEMMA StepKeeps ==
    ASSUME IInv, [NextDom /\ UNCHANGED grammar]_<<dom, grammar>>
    PROVE  IInv'
<1>1. CASE NextDom /\ UNCHANGED grammar
  <2>1. CASE \E t \in Names : CreateElement(t)
    BY <1>1, <2>1, CreateKeeps
  <2>2. CASE \E c \in Loose, p \in Handle : AppendNode(p, c)
    BY <1>1, <2>2, AppendNodeKeeps
  <2>3. CASE \E p \in Handle, n \in grammar.pieces : AppendText(p, n)
    BY <1>1, <2>3, AppendTextKeeps
  <2>4. CASE \E s, c \in Elements : AppendNodeBefore(s, c)
    BY <1>1, <2>4, AppendNodeBeforeKeeps
  <2>5. CASE \E s \in Elements, n \in grammar.pieces : AppendTextBefore(s, n)
    BY <1>1, <2>5, AppendTextBeforeKeeps DEF Elements
  <2>6. CASE \E h \in Elements : RemoveFromParent(h)
    BY <1>1, <2>6, RemoveKeeps
  <2>7. CASE \E h \in Elements, m \in Loose : ReparentChildren(h, m)
    BY <1>1, <2>7, ReparentKeeps
  <2> QED
    BY <1>1, <2>1, <2>2, <2>3, <2>4, <2>5, <2>6, <2>7 DEF NextDom
<1>2. CASE UNCHANGED <<dom, grammar>>
  <2>1. UNCHANGED <<grammar, name, text, kids, parent, depth, fresh, nodeCount,
                    depthExceeded, written, moves>>
    BY <1>2 DEF dom
  <2>2. TypeOK'
    BY <2>1 DEF IInv, TypeOK
  <2>3. Handles'
    BY <2>1 DEF IInv, Handles, OverLimit
  <2> QED
    BY <2>1, <2>2, <2>3 DEF IInv
<1> QED
  BY <1>1, <1>2

\* The invariant holds throughout, for any limits and any grammars.
THEOREM IInvCorrect == SpecDom => []IInv
<1>1. InitDom => IInv
  BY InitInv
<1>2. IInv /\ [NextDom /\ UNCHANGED grammar]_<<dom, grammar>> => IInv'
  BY StepKeeps
<1> QED
  BY <1>1, <1>2, PTL DEF SpecDom

\* Every variable of the arena keeps its type: push gives out handles of the arena only,
\* the overflow handle past the limit.
THEOREM TypeCorrect == SpecDom => []TypeOK
<1>1. IInv => TypeOK
  BY DEF IInv
<1> QED
  BY <1>1, IInvCorrect, PTL

\* Whatever calls html5ever makes, within what it promises of them, the arena stays a
\* forest on whose links lists and parents agree (append, append_before_sibling,
\* remove_from_parent, reparent_children).
THEOREM ArenaCorrect == SpecDom => []ArenaIsATree
<1> QED
  BY InvIsAboutTheArena, IInvCorrect, PTL

-----------------------------------------------------------------------------
(* Lists of nodes, whatever a node is.                                     *)

IsList(s) == \E T : s \in Seq(T)

LEMMA ListFacts ==
  ASSUME NEW s, IsList(s)
  PROVE  Len(s) \in Nat /\ DOMAIN s = 1 .. Len(s) /\ s \in Seq(ToSet(s))
<1>1. PICK T : s \in Seq(T)
  BY DEF IsList
<1>2. Len(s) \in Nat /\ DOMAIN s = 1 .. Len(s) /\ s \in [1 .. Len(s) -> T]
  BY <1>1
<1>3. ToSet(s) = {s[i] : i \in 1 .. Len(s)}
  BY <1>2 DEF ToSet
<1>4. s \in [1 .. Len(s) -> ToSet(s)]
  BY <1>2, <1>3
<1>5. s \in Seq(ToSet(s))
  BY <1>2, <1>4
<1> QED
  BY <1>2, <1>5

LEMMA SequenceIsList ==
  ASSUME NEW T, NEW s \in Seq(T)
  PROVE  IsList(s)
BY DEF IsList

LEMMA EmptyList == IsList(<<>>) /\ Len(<<>>) = 0
<1>1. <<>> \in Seq({})
  OBVIOUS
<1> QED
  BY <1>1, SequenceIsList

LEMMA OneList ==
  ASSUME NEW x
  PROVE  IsList(<<x>>) /\ Len(<<x>>) = 1 /\ <<x>>[1] = x /\ ToSet(<<x>>) = {x}
<1>1. <<x>> \in Seq({x}) /\ Len(<<x>>) = 1 /\ <<x>>[1] = x
  OBVIOUS
<1>2. ToSet(<<x>>) = {x}
  BY <1>1 DEF ToSet
<1> QED
  BY <1>1, <1>2, SequenceIsList

LEMMA ConcatLists ==
  ASSUME NEW s, NEW t, IsList(s), IsList(t)
  PROVE  /\ IsList(s \o t)
         /\ Len(s \o t) = Len(s) + Len(t)
         /\ ToSet(s \o t) = ToSet(s) \cup ToSet(t)
         /\ \A i \in 1 .. Len(s) : (s \o t)[i] = s[i]
         /\ \A i \in 1 .. Len(t) : (s \o t)[Len(s) + i] = t[i]
<1> DEFINE X == ToSet(s) \cup ToSet(t)
<1>1. s \in Seq(ToSet(s)) /\ t \in Seq(ToSet(t))
  BY ListFacts
<1>2. ToSet(s) \subseteq X /\ ToSet(t) \subseteq X
  OBVIOUS
<1>3. s \in Seq(X) /\ t \in Seq(X)
  <2> HIDE DEF X
  <2> QED
    BY <1>1, <1>2
<1> HIDE DEF X
<1>4. ToSet(s \o t) = ToSet(s) \cup ToSet(t)
  BY <1>3, ConcatToSet
<1>5. s \o t \in Seq(X)
  BY <1>3
<1> QED
  BY <1>3, <1>4, <1>5 DEF IsList

LEMMA AtMostFacts ==
  ASSUME NEW s, IsList(s), NEW n \in Nat
  PROVE  /\ IsList(AtMost(n, s))
         /\ Len(AtMost(n, s)) <= n /\ Len(AtMost(n, s)) <= Len(s)
         /\ \A i \in 1 .. Len(AtMost(n, s)) : AtMost(n, s)[i] = s[i]
         /\ ToSet(AtMost(n, s)) \subseteq ToSet(s)
<1> DEFINE m == IF Len(s) < n THEN Len(s) ELSE n
           t == SubSeq(s, 1, m)
           X == ToSet(s)
<1>1. Len(s) \in Nat /\ s \in Seq(X) /\ DOMAIN s = 1 .. Len(s)
  BY ListFacts
<1>2. m \in Nat /\ m <= n /\ m <= Len(s)
  BY <1>1
<1> HIDE DEF m, X
<1>3. t \in Seq(X) /\ Len(t) = m /\ \A i \in 1 .. m : t[i] = s[i]
  BY <1>1, <1>2
<1>4. AtMost(n, s) = t
  BY DEF AtMost, m
<1> HIDE DEF t
<1>5. ToSet(t) \subseteq ToSet(s)
  BY <1>1, <1>2, <1>3 DEF ToSet
<1> QED
  BY <1>2, <1>3, <1>4, <1>5 DEF IsList

-----------------------------------------------------------------------------
(* The nodes below some nodes, at any depth.                               *)

\* Going down one level after the other.
LEMMA DownToFacts ==
  ASSUME NEW roots, NEW bottom \in Nat
  PROVE  /\ NodesDownTo(roots, bottom)[0] = roots
         /\ \A n \in 1 .. bottom : NodesDownTo(roots, bottom)[n] = UNION {ToSet(m.kids) : m \in NodesDownTo(roots, bottom)[n - 1]}
<1> DEFINE last == bottom
           begin == roots
           Step(n, x) == UNION {ToSet(m.kids) : m \in x}
           Body(k, f) == [n \in 0 .. k |-> IF n = 0 THEN begin ELSE Step(n, f[n - 1])]
           S == {k \in 0 .. last : \E f : f = Body(k, f)}
           loop == NodesDownTo(roots, bottom)
<1>1. loop = CHOOSE f : f = Body(last, f)
  BY DEF NodesDownTo, Kids
<1>2. last \in Nat
  OBVIOUS
<1> HIDE DEF last, begin, Step, loop
<1>3. 0 \in S
  <2> DEFINE f == [n \in 0 .. 0 |-> begin]
  <2>1. f = Body(0, f)
    OBVIOUS
  <2> HIDE DEF f
  <2> QED
    BY <1>2, <2>1
<1>4. ASSUME NEW k \in 1 .. last, k - 1 \in S PROVE k \in S
  <2>1. k \in 0 .. last /\ k - 1 \in 0 .. last
    BY <1>2
  <2>2. PICK f : f = Body(k - 1, f)
    BY <1>4
  <2>3. \A n \in 0 .. k - 1 : f[n] = IF n = 0 THEN begin ELSE Step(n, f[n - 1])
    BY <2>2
  <2> DEFINE g == [n \in 0 .. k |-> IF n = k THEN Step(k, f[k - 1]) ELSE f[n]]
  <2>4. ASSUME NEW n \in 0 .. k PROVE g[n] = IF n = 0 THEN begin ELSE Step(n, g[n - 1])
    <3>1. CASE n = k
      <4>1. k # 0 /\ k - 1 \in 0 .. k /\ k - 1 # k
        BY <1>2
      <4> QED
        BY <3>1, <4>1
    <3>2. CASE n # k
      <4>1. n \in 0 .. k - 1 /\ g[n] = f[n]
        BY <3>2
      <4>2. CASE n = 0
        BY <2>3, <4>1, <4>2
      <4>3. CASE n # 0
        <5>1. n - 1 \in 0 .. k /\ n - 1 # k
          BY <4>1, <4>3
        <5> QED
          BY <2>3, <4>1, <4>3, <5>1
      <4> QED
        BY <4>2, <4>3
    <3> QED
      BY <3>1, <3>2
  <2>5. g = [n \in 0 .. k |-> g[n]]
    OBVIOUS
  <2> HIDE DEF g
  <2>6. g = Body(k, g)
    BY <2>4, <2>5
  <2> QED
    BY <2>1, <2>6
<1> HIDE DEF S
<1>5. last \in S
  BY <1>2, <1>3, <1>4, Induction
<1>6. loop = Body(last, loop)
  BY <1>1, <1>5 DEF S
<1>7. loop[0] = begin /\ \A n \in 1 .. last : loop[n] = Step(n, loop[n - 1])
  BY <1>2, <1>6
<1> QED
  BY <1>7, Zenon DEF loop, last, begin, Step

\* A level is the same however far down one goes.
LEMMA LevelFacts ==
  ASSUME NEW roots
  PROVE  /\ NodesAt(roots, 0) = roots
         /\ \A n \in Nat : NodesAt(roots, n + 1) = UNION {ToSet(m.kids) : m \in NodesAt(roots, n)}
<1>1. NodesAt(roots, 0) = roots
  BY DownToFacts DEF NodesAt
<1>2. ASSUME NEW n \in Nat
      PROVE  NodesAt(roots, n + 1) = UNION {ToSet(m.kids) : m \in NodesAt(roots, n)}
  <2> DEFINE short == NodesDownTo(roots, n)
             long == NodesDownTo(roots, n + 1)
             S == {k \in 0 .. n : long[k] = short[k]}
  <2>1. n + 1 \in Nat
    OBVIOUS
  <2>2. /\ short[0] = roots
        /\ \A k \in 1 .. n : short[k] = UNION {ToSet(m.kids) : m \in short[k - 1]}
    BY DownToFacts
  <2>3. /\ long[0] = roots
        /\ \A k \in 1 .. n + 1 : long[k] = UNION {ToSet(m.kids) : m \in long[k - 1]}
    BY <2>1, DownToFacts
  <2> HIDE DEF short, long
  <2>4. ASSUME NEW k \in 1 .. n, k - 1 \in S PROVE k \in S
    <3>1. k \in 0 .. n /\ k \in 1 .. n + 1 /\ long[k - 1] = short[k - 1]
      BY <2>4
    <3> QED
      BY <2>2, <2>3, <3>1
  <2>5. 0 \in S
    BY <2>2, <2>3
  <2> HIDE DEF S
  <2>6. n \in S
    <3>1. 0 .. n \subseteq S
      BY <2>4, <2>5, Induction
    <3> QED
      BY <3>1
  <2>7. long[n + 1] = UNION {ToSet(m.kids) : m \in short[n]}
    <3>1. n + 1 \in 1 .. n + 1 /\ (n + 1) - 1 = n
      OBVIOUS
    <3>2. long[n + 1] = UNION {ToSet(m.kids) : m \in long[n]}
      BY <2>3, <3>1
    <3> QED
      BY <2>6, <3>2 DEF S
  <2> QED
    BY <2>7 DEF NodesAt, short, long
<1> QED
  BY <1>1, <1>2

Below(roots) == UNION {NodesAt(roots, n) : n \in Nat}

LEMMA Counting ==
  ASSUME NEW S, 0 \in S, \A n \in Nat : n \in S => n + 1 \in S
  PROVE  Nat \subseteq S
<1> SUFFICES ASSUME NEW n \in Nat PROVE n \in S
  OBVIOUS
<1>1. \A m \in 1 .. n : m - 1 \in S => m \in S
  <2> SUFFICES ASSUME NEW m \in 1 .. n, m - 1 \in S PROVE m \in S
    OBVIOUS
  <2>1. m - 1 \in Nat /\ (m - 1) + 1 = m
    OBVIOUS
  <2> QED
    BY <2>1
<1>2. 0 .. n \subseteq S
  BY <1>1, Induction
<1> QED
  BY <1>2

LEMMA BelowUnion ==
  ASSUME NEW A, NEW B
  PROVE  Below(A \cup B) = Below(A) \cup Below(B)
<1> DEFINE S == {n \in Nat : NodesAt(A \cup B, n) = NodesAt(A, n) \cup NodesAt(B, n)}
<1>1. 0 \in S
  BY LevelFacts
<1>2. ASSUME NEW n \in Nat, n \in S PROVE n + 1 \in S
  <2>1. NodesAt(A \cup B, n + 1) = UNION {ToSet(m.kids) : m \in NodesAt(A \cup B, n)}
    BY LevelFacts
  <2>2. NodesAt(A, n + 1) = UNION {ToSet(m.kids) : m \in NodesAt(A, n)}
    BY LevelFacts
  <2>3. NodesAt(B, n + 1) = UNION {ToSet(m.kids) : m \in NodesAt(B, n)}
    BY LevelFacts
  <2>4. NodesAt(A \cup B, n) = NodesAt(A, n) \cup NodesAt(B, n) 
    BY <1>2
  <2>5. NodesAt(A \cup B, n + 1) = NodesAt(A, n + 1) \cup NodesAt(B, n + 1)
    <3> HIDE DEF S
    <3> QED
      BY <2>1, <2>2, <2>3, <2>4, Zenon
  <2>6. n + 1 \in Nat
    OBVIOUS
  <2> QED
    BY <2>5, <2>6
<1> HIDE DEF S
<1>3. Nat \subseteq S
  BY <1>1, <1>2, Counting
<1>4. \A n \in Nat : NodesAt(A \cup B, n) = NodesAt(A, n) \cup NodesAt(B, n)
  BY <1>3 DEF S
<1> QED
  BY <1>4 DEF Below

LEMMA BelowMore ==
  ASSUME NEW A, NEW B, A \subseteq B
  PROVE  Below(A) \subseteq Below(B)
<1>1. B = A \cup B
  OBVIOUS
<1> QED
  BY <1>1, BelowUnion

LEMMA BelowNone == Below({}) = {}
<1> DEFINE S == {n \in Nat : NodesAt({}, n) = {}}
<1>1. 0 \in S
  BY LevelFacts
<1>2. ASSUME NEW n \in Nat, n \in S PROVE n + 1 \in S
  <2>1. NodesAt({}, n + 1) = UNION {ToSet(m.kids) : m \in NodesAt({}, n)}
    BY LevelFacts
  <2> QED
    BY <1>2, <2>1
<1> HIDE DEF S
<1>3. Nat \subseteq S
  BY <1>1, <1>2, Counting
<1>4. \A n \in Nat : NodesAt({}, n) = {}
  BY <1>3 DEF S
<1> QED
  BY <1>4 DEF Below

\* A node, and what is below its children.
LEMMA BelowOne ==
  ASSUME NEW node
  PROVE  Below({node}) = {node} \cup Below(ToSet(node.kids))
<1> DEFINE K == ToSet(node.kids)
           S == {n \in Nat : NodesAt({node}, n + 1) = NodesAt(K, n)}
<1>1. NodesAt({node}, 0) = {node} /\ NodesAt({node}, 0 + 1) = K /\ NodesAt(K, 0) = K
  <2>1. NodesAt({node}, 0) = {node} /\ NodesAt(K, 0) = K
    BY LevelFacts
  <2>2. NodesAt({node}, 0 + 1) = UNION {ToSet(m.kids) : m \in NodesAt({node}, 0)}
    BY LevelFacts
  <2> QED
    BY <2>1, <2>2
<1>2. 0 \in S
  BY <1>1
<1>3. ASSUME NEW n \in Nat, n \in S PROVE n + 1 \in S
  <2>1. NodesAt({node}, (n + 1) + 1) = UNION {ToSet(m.kids) : m \in NodesAt({node}, n + 1)}
    <3>1. n + 1 \in Nat
      OBVIOUS
    <3> QED
      BY <3>1, LevelFacts
  <2>2. NodesAt(K, n + 1) = UNION {ToSet(m.kids) : m \in NodesAt(K, n)}
    BY LevelFacts
  <2>3. NodesAt({node}, n + 1) = NodesAt(K, n)
    BY <1>3
  <2>4. NodesAt({node}, (n + 1) + 1) = NodesAt(K, n + 1)
    <3> HIDE DEF S, K
    <3> QED
      BY <2>1, <2>2, <2>3, Zenon
  <2>5. n + 1 \in Nat
    OBVIOUS
  <2> QED
    BY <2>4, <2>5
<1> HIDE DEF S, K
<1>4. Nat \subseteq S
  BY <1>2, <1>3, Counting
<1>5. \A n \in Nat : NodesAt({node}, n + 1) = NodesAt(K, n)
  BY <1>4 DEF S
<1>6. ASSUME NEW n \in Nat PROVE NodesAt({node}, n) \subseteq {node} \cup Below(K)
  <2>1. CASE n = 0
    BY <1>1, <2>1
  <2>2. CASE n # 0
    <3>1. n - 1 \in Nat /\ (n - 1) + 1 = n
      BY <2>2
    <3>2. NodesAt({node}, n) = NodesAt(K, n - 1)
      BY <1>5, <3>1
    <3> QED
      BY <3>1, <3>2 DEF Below
  <2> QED
    BY <2>1, <2>2
<1>7. node \in Below({node})
  BY <1>1 DEF Below
<1>8. ASSUME NEW n \in Nat PROVE NodesAt(K, n) \subseteq Below({node})
  <2>1. n + 1 \in Nat /\ NodesAt({node}, n + 1) = NodesAt(K, n)
    BY <1>5
  <2> QED
    BY <2>1 DEF Below
<1>9. Below({node}) \subseteq {node} \cup Below(K)
  BY <1>6 DEF Below
<1>10. Below(K) \subseteq Below({node})
  BY <1>8 DEF Below
<1> QED
  BY <1>7, <1>9, <1>10 DEF K

LEMMA RootsBelow ==
  ASSUME NEW A
  PROVE  A \subseteq Below(A)
BY LevelFacts DEF Below

LEMMA AllNodesBelow ==
  ASSUME NEW A
  PROVE  AllNodes(A) \subseteq Below(A)
<1>1. 0 .. Levels \subseteq Nat
  BY LimitsAssumption DEF Levels
<1> QED
  BY <1>1 DEF AllNodes, Below

-----------------------------------------------------------------------------
(* Forests: lists of sound nodes whose numbers are from a to before b.     *)

AllIds(roots) == {n.id : n \in Below(roots)} \ {None}

Sorted(s) ==
    \A i, j \in 1 .. Len(s) : i < j => Precede(AllIds({s[i]}), AllIds({s[j]}))

IsNode(n) ==
    n = [kind |-> n.kind, of |-> n.of, runs |-> n.runs, kids |-> n.kids, id |-> n.id,
         names |-> n.names, text |-> n.text, options |-> n.options, hide |-> n.hide]

Reads(n) == n.kind \in TextBlock \cup {"button", "figure"} => ReadsAsItsSource(n)

Sound(n) ==
    /\ IsNode(n) /\ Reads(n) /\ WithinLimits(n)
    /\ IsList(n.kids) /\ Sorted(n.kids)
    /\ Precede({n.id} \ {None}, AllIds(ToSet(n.kids)))

Forest(s, a, b) ==
    /\ IsList(s) /\ Sorted(s)
    /\ \A n \in Below(ToSet(s)) : Sound(n)
    /\ \A i \in AllIds(ToSet(s)) : i \in Nat /\ a <= i /\ i < b

LEMMA IdsUnion ==
  ASSUME NEW A, NEW B
  PROVE  AllIds(A \cup B) = AllIds(A) \cup AllIds(B)
<1>1. Below(A \cup B) = Below(A) \cup Below(B)
  BY BelowUnion
<1> QED
  BY <1>1, Zenon DEF AllIds

LEMMA IdsMore ==
  ASSUME NEW A, NEW B, A \subseteq B
  PROVE  AllIds(A) \subseteq AllIds(B)
BY BelowMore DEF AllIds

LEMMA IdsOne ==
  ASSUME NEW node
  PROVE  AllIds({node}) = ({node.id} \ {None}) \cup AllIds(ToSet(node.kids))
BY BelowOne DEF AllIds

LEMMA EmptyForest ==
  ASSUME NEW a, NEW b
  PROVE  Forest(<<>>, a, b)
<1> DEFINE none == <<>>
<1>1. IsList(none) /\ Len(none) = 0
  BY EmptyList
<1>2. ToSet(none) = {}
  BY EmptyToSet
<1> HIDE DEF none
<1>3. Sorted(none)
  BY <1>1 DEF Sorted
<1> QED
  BY <1>1, <1>2, <1>3, BelowNone DEF Forest, AllIds, none

LEMMA WiderForest ==
  ASSUME NEW s, NEW a \in Nat, NEW b \in Nat, NEW c \in Nat, NEW d \in Nat,
         Forest(s, a, b), c <= a, b <= d
  PROVE  Forest(s, c, d)
BY DEF Forest

LEMMA ConcatForest ==
  ASSUME NEW s, NEW t, NEW a \in Nat, NEW b \in Nat, NEW c \in Nat, a <= b, b <= c,
         Forest(s, a, b), Forest(t, b, c)
  PROVE  Forest(s \o t, a, c)
<1> DEFINE both == s \o t
<1>1. IsList(s) /\ IsList(t) /\ Len(s) \in Nat /\ Len(t) \in Nat
      /\ DOMAIN s = 1 .. Len(s) /\ DOMAIN t = 1 .. Len(t)
  BY ListFacts DEF Forest
<1>2. /\ IsList(both)
      /\ Len(both) = Len(s) + Len(t)
      /\ ToSet(both) = ToSet(s) \cup ToSet(t)
      /\ \A i \in 1 .. Len(s) : both[i] = s[i]
      /\ \A i \in 1 .. Len(t) : both[Len(s) + i] = t[i]
  BY <1>1, ConcatLists
<1> HIDE DEF both
<1>3. \A n \in Below(ToSet(both)) : Sound(n)
  BY <1>2, BelowUnion DEF Forest
<1>4. \A i \in AllIds(ToSet(both)) : i \in Nat /\ a <= i /\ i < c
  <2> SUFFICES ASSUME NEW i \in AllIds(ToSet(both)) PROVE i \in Nat /\ a <= i /\ i < c
    OBVIOUS
  <2>1. i \in AllIds(ToSet(s)) \/ i \in AllIds(ToSet(t))
    BY <1>2, IdsUnion
  <2> QED
    BY <2>1 DEF Forest
<1>5. \A i \in 1 .. Len(s) : AllIds({s[i]}) \subseteq AllIds(ToSet(s))
  <2> SUFFICES ASSUME NEW i \in 1 .. Len(s) PROVE AllIds({s[i]}) \subseteq AllIds(ToSet(s))
    OBVIOUS
  <2>1. {s[i]} \subseteq ToSet(s)
    BY <1>1 DEF ToSet
  <2> QED
    BY <2>1, IdsMore
<1>6. \A i \in 1 .. Len(t) : AllIds({t[i]}) \subseteq AllIds(ToSet(t))
  <2> SUFFICES ASSUME NEW i \in 1 .. Len(t) PROVE AllIds({t[i]}) \subseteq AllIds(ToSet(t))
    OBVIOUS
  <2>1. {t[i]} \subseteq ToSet(t)
    BY <1>1 DEF ToSet
  <2> QED
    BY <2>1, IdsMore
<1>7. ASSUME NEW i \in 1 .. Len(both), NEW j \in 1 .. Len(both), i < j
      PROVE  Precede(AllIds({both[i]}), AllIds({both[j]}))
  <2>1. CASE j <= Len(s)
    <3>1. i \in 1 .. Len(s) /\ j \in 1 .. Len(s) /\ both[i] = s[i] /\ both[j] = s[j]
      BY <1>1, <1>2, <1>7, <2>1
    <3> QED
      BY <1>7, <3>1 DEF Forest, Sorted
  <2>2. CASE i > Len(s)
    <3> DEFINE k == i - Len(s)
               l == j - Len(s)
    <3>1. k \in 1 .. Len(t) /\ l \in 1 .. Len(t) /\ k < l
          /\ i = Len(s) + k /\ j = Len(s) + l
      BY <1>1, <1>2, <1>7, <2>2
    <3> HIDE DEF k, l
    <3>2. both[i] = t[k] /\ both[j] = t[l]
      BY <1>2, <3>1
    <3> QED
      BY <3>1, <3>2 DEF Forest, Sorted
  <2>3. CASE i <= Len(s) /\ j > Len(s)
    <3> DEFINE l == j - Len(s)
    <3>1. i \in 1 .. Len(s) /\ l \in 1 .. Len(t) /\ j = Len(s) + l
      BY <1>1, <1>2, <2>3
    <3> HIDE DEF l
    <3>2. both[i] = s[i] /\ both[j] = t[l]
      BY <1>2, <3>1
    <3>3. /\ \A x \in AllIds({both[i]}) : x \in Nat /\ x < b
          /\ \A x \in AllIds({both[j]}) : x \in Nat /\ b <= x
      BY <1>5, <1>6, <3>1, <3>2 DEF Forest
    <3> QED
      BY <3>3 DEF Precede
  <2> QED
    BY <1>1, <1>2, <2>1, <2>2, <2>3
<1>8. Sorted(both)
  BY <1>7 DEF Sorted
<1> QED
  BY <1>2, <1>3, <1>4, <1>8 DEF Forest, both

\* A node whose children are a forest, numbered before them if it is.
LEMMA OneForest ==
  ASSUME NEW node, NEW a \in Nat, NEW m \in Nat, NEW b \in Nat, a <= m, m <= b,
         IsNode(node), Reads(node), WithinLimits(node),
         node.id = None \/ (node.id \in Nat /\ a <= node.id /\ node.id < m),
         Forest(node.kids, m, b)
  PROVE  Forest(<<node>>, a, b)
<1> DEFINE s == <<node>>
           K == ToSet(node.kids)
<1>1. IsList(s) /\ Len(s) = 1 /\ s[1] = node /\ ToSet(s) = {node}
  BY OneList
<1> HIDE DEF s, K
<1>2. IsList(node.kids) /\ Sorted(node.kids) /\ \A n \in Below(K) : Sound(n)
  BY DEF Forest, K
<1>3. \A i \in AllIds(K) : i \in Nat /\ m <= i /\ i < b
  BY DEF Forest, K
<1>4. Precede({node.id} \ {None}, AllIds(K))
  BY <1>3 DEF Precede
<1>5. Sound(node)
  BY <1>2, <1>4 DEF Sound, K
<1>6. Below({node}) = {node} \cup Below(K)
  BY BelowOne DEF K
<1>7. AllIds({node}) = ({node.id} \ {None}) \cup AllIds(K)
  BY IdsOne DEF K
<1>8. \A n \in Below(ToSet(s)) : Sound(n)
  BY <1>1, <1>2, <1>5, <1>6
<1>9. \A i \in AllIds(ToSet(s)) : i \in Nat /\ a <= i /\ i < b
  <2> SUFFICES ASSUME NEW i \in AllIds({node}) PROVE i \in Nat /\ a <= i /\ i < b
    BY <1>1
  <2>1. CASE i \in AllIds(K)
    BY <1>3, <2>1
  <2>2. CASE i \in {node.id} \ {None}
    BY <2>2
  <2> QED
    BY <1>7, <2>1, <2>2
<1>10. Sorted(s)
  BY <1>1 DEF Sorted
<1> QED
  BY <1>1, <1>8, <1>9, <1>10 DEF Forest, s

\* The first nodes of a forest are one.
LEMMA CutForest ==
  ASSUME NEW s, NEW a, NEW b, NEW n \in Nat, Forest(s, a, b)
  PROVE  Forest(AtMost(n, s), a, b)
<1> DEFINE t == AtMost(n, s)
<1>1. IsList(s) /\ Len(s) \in Nat
  BY ListFacts DEF Forest
<1>2. /\ IsList(t) /\ Len(t) <= Len(s) /\ \A i \in 1 .. Len(t) : t[i] = s[i]
      /\ ToSet(t) \subseteq ToSet(s)
  BY <1>1, AtMostFacts
<1>3. Len(t) \in Nat
  BY <1>2, ListFacts
<1> HIDE DEF t
<1>4. Sorted(t)
  <2> SUFFICES ASSUME NEW i \in 1 .. Len(t), NEW j \in 1 .. Len(t), i < j
               PROVE  Precede(AllIds({t[i]}), AllIds({t[j]}))
    BY DEF Sorted
  <2>1. i \in 1 .. Len(s) /\ j \in 1 .. Len(s) /\ t[i] = s[i] /\ t[j] = s[j]
    BY <1>1, <1>2, <1>3
  <2> QED
    BY <2>1 DEF Forest, Sorted
<1>5. Below(ToSet(t)) \subseteq Below(ToSet(s)) /\ AllIds(ToSet(t)) \subseteq AllIds(ToSet(s))
  BY <1>2, BelowMore, IdsMore
<1> QED
  BY <1>2, <1>4, <1>5 DEF Forest, t

\* A sound node with only its first children left is one.
LEMMA CutNode ==
  ASSUME NEW node, Sound(node), NEW m \in Nat
  PROVE  LET cut == [node EXCEPT !.kids = AtMost(m, @)]
         IN  /\ IsNode(cut) /\ cut.kids = AtMost(m, node.kids) /\ Len(cut.kids) <= m
             /\ cut.id = node.id
             /\ Reads(cut) /\ WithinLimits(cut)
<1> DEFINE cut == [node EXCEPT !.kids = AtMost(m, @)]
           few == AtMost(m, node.kids)
<1>1. IsNode(node) /\ IsList(node.kids) /\ Reads(node) /\ WithinLimits(node)
  BY DEF Sound
<1>2. /\ IsList(few) /\ Len(few) <= m /\ Len(few) <= Len(node.kids)
      /\ \A i \in 1 .. Len(few) : few[i] = node.kids[i]
  BY <1>1, AtMostFacts
<1>3. Len(few) \in Nat /\ Len(node.kids) \in Nat
  BY <1>1, <1>2, ListFacts
<1> HIDE DEF few
<1>4. cut = [kind |-> node.kind, of |-> node.of, runs |-> node.runs, kids |-> few,
             id |-> node.id, names |-> node.names, text |-> node.text,
             options |-> node.options, hide |-> node.hide]
  BY <1>1 DEF IsNode, few
<1> HIDE DEF cut
<1>5. /\ cut.kind = node.kind /\ cut.of = node.of /\ cut.runs = node.runs
      /\ cut.kids = few /\ cut.id = node.id /\ cut.options = node.options
  BY <1>4
<1>6. IsNode(cut)
  BY <1>4 DEF IsNode
<1>7. Reads(cut)
  BY <1>1, <1>5 DEF Reads, ReadsAsItsSource, Source
<1>8. WithinLimits(cut)
  <2>1. cut.kind = "table" =>
          /\ Len(few) <= MaxTableRows
          /\ \A i \in 1 .. Len(few) : Len(few[i].kids) <= MaxTableColumns
    <3> SUFFICES ASSUME node.kind = "table"
                 PROVE  /\ Len(few) <= MaxTableRows
                        /\ \A i \in 1 .. Len(few) : Len(few[i].kids) <= MaxTableColumns
      BY <1>5
    <3>1. /\ Len(node.kids) <= MaxTableRows
          /\ \A i \in 1 .. Len(node.kids) : Len(node.kids[i].kids) <= MaxTableColumns
      BY <1>1 DEF WithinLimits
    <3>2. \A i \in 1 .. Len(few) : i \in 1 .. Len(node.kids)
      BY <1>2, <1>3
    <3> QED
      BY <1>2, <1>3, <3>1, <3>2, TableLimitsAssumption
  <2> QED
    BY <1>1, <1>5, <2>1 DEF WithinLimits
<1> QED
  BY <1>2, <1>5, <1>6, <1>7, <1>8 DEF cut, few

\* Cutting the children of every node of a forest leaves a forest.
LEMMA CutRows ==
  ASSUME NEW s, NEW a \in Nat, NEW b \in Nat, NEW m \in Nat, a <= b, Forest(s, a, b)
  PROVE  LET t == Narrowed(m, s)
         IN  /\ Forest(t, a, b) /\ Len(t) = Len(s)
             /\ \A i \in 1 .. Len(t) : Len(t[i].kids) <= m
<1> DEFINE cut(n) == [n EXCEPT !.kids = AtMost(m, @)]
           t == [i \in DOMAIN s |-> cut(s[i])]
<1>1. IsList(s) /\ Len(s) \in Nat /\ DOMAIN s = 1 .. Len(s)
  BY ListFacts DEF Forest
<1>2. /\ t \in Seq(ToSet(t)) /\ Len(t) = Len(s)
      /\ \A i \in 1 .. Len(s) : t[i] = cut(s[i])
      /\ ToSet(t) = {cut(s[i]) : i \in 1 .. Len(s)}
  <2> HIDE DEF cut
  <2>1. DOMAIN t = 1 .. Len(s) /\ \A i \in 1 .. Len(s) : t[i] = cut(s[i])
    BY <1>1
  <2>2. ToSet(t) = {cut(s[i]) : i \in 1 .. Len(s)}
    BY <2>1 DEF ToSet
  <2>3. t \in [1 .. Len(s) -> ToSet(t)]
    BY <1>1, <2>2
  <2> HIDE DEF t
  <2>4. t \in Seq(ToSet(t)) /\ Len(t) = Len(s)
    BY <1>1, <2>3
  <2> QED
    BY <2>1, <2>2, <2>4
<1> HIDE DEF t
<1>3. IsList(t)
  BY <1>2, SequenceIsList
<1>4. ASSUME NEW i \in 1 .. Len(s)
      PROVE  /\ Sound(t[i]) /\ Len(t[i].kids) <= m
             /\ \A n \in Below({t[i]}) : Sound(n)
             /\ AllIds({t[i]}) \subseteq AllIds({s[i]})
             /\ AllIds({s[i]}) \subseteq AllIds(ToSet(s))
  <2> DEFINE row == s[i]
             few == AtMost(m, row.kids)
             short == cut(row)
  <2>1. t[i] = short /\ row \in ToSet(s)
    BY <1>1, <1>2 DEF ToSet
  <2>2. row \in Below(ToSet(s)) /\ {row} \subseteq ToSet(s)
    BY <2>1, RootsBelow
  <2> HIDE DEF row
  <2>3. Sound(row)
    BY <2>2 DEF Forest
  <2>4. /\ IsNode(short) /\ short.kids = few /\ Len(short.kids) <= m /\ short.id = row.id
        /\ Reads(short) /\ WithinLimits(short)
    BY <2>3, CutNode
  <2>5. IsList(row.kids) /\ Sorted(row.kids)
        /\ Precede({row.id} \ {None}, AllIds(ToSet(row.kids)))
    BY <2>3 DEF Sound
  <2>6. IsList(few) /\ ToSet(few) \subseteq ToSet(row.kids)
        /\ Len(few) <= Len(row.kids) /\ \A k \in 1 .. Len(few) : few[k] = row.kids[k]
    BY <2>5, AtMostFacts
  <2>7. Len(few) \in Nat /\ Len(row.kids) \in Nat
    BY <2>5, <2>6, ListFacts
  <2> HIDE DEF few, short, cut
  <2>8. Below(ToSet(few)) \subseteq Below(ToSet(row.kids))
        /\ AllIds(ToSet(few)) \subseteq AllIds(ToSet(row.kids))
    BY <2>6, BelowMore, IdsMore
  <2>9. Sorted(few)
    <3> SUFFICES ASSUME NEW k \in 1 .. Len(few), NEW l \in 1 .. Len(few), k < l
                 PROVE  Precede(AllIds({few[k]}), AllIds({few[l]}))
      BY DEF Sorted
    <3>1. k \in 1 .. Len(row.kids) /\ l \in 1 .. Len(row.kids)
      BY <2>6, <2>7
    <3> QED
      BY <2>5, <2>6, <3>1 DEF Sorted
  <2>10. Precede({short.id} \ {None}, AllIds(ToSet(short.kids)))
    BY <2>4, <2>5, <2>8 DEF Precede
  <2>11. Sound(short)
    BY <2>4, <2>6, <2>9, <2>10 DEF Sound
  <2>12. Below({row}) \subseteq Below(ToSet(s)) /\ AllIds({row}) \subseteq AllIds(ToSet(s))
    BY <2>2, BelowMore, IdsMore
  <2>13. Below({row}) = {row} \cup Below(ToSet(row.kids))
    BY BelowOne
  <2>14. Below({short}) = {short} \cup Below(ToSet(few))
    BY <2>4, BelowOne
  <2>15. \A n \in Below({short}) : Sound(n)
    BY <2>8, <2>11, <2>12, <2>13, <2>14 DEF Forest
  <2>16. AllIds({short}) \subseteq AllIds({row})
    BY <2>4, <2>8, IdsOne
  <2> QED
    BY <2>1, <2>4, <2>11, <2>12, <2>15, <2>16 DEF row
<1>5. Sorted(t)
  <2> SUFFICES ASSUME NEW i \in 1 .. Len(t), NEW j \in 1 .. Len(t), i < j
               PROVE  Precede(AllIds({t[i]}), AllIds({t[j]}))
    BY DEF Sorted
  <2>1. i \in 1 .. Len(s) /\ j \in 1 .. Len(s)
    BY <1>2
  <2>2. Precede(AllIds({s[i]}), AllIds({s[j]}))
    BY <2>1 DEF Forest, Sorted
  <2>3. AllIds({t[i]}) \subseteq AllIds({s[i]}) /\ AllIds({t[j]}) \subseteq AllIds({s[j]})
    BY <1>4, <2>1
  <2> QED
    BY <2>2, <2>3 DEF Precede
<1>6. \A n \in Below(ToSet(t)) : \E i \in 1 .. Len(s) : n \in Below({t[i]})
  <2> DEFINE Upto(k) == {t[i] : i \in 1 .. k}
             S == {k \in 0 .. Len(s) :
                     \A n \in Below(Upto(k)) : \E i \in 1 .. k : n \in Below({t[i]})}
  <2>1. Upto(0) = {}
    OBVIOUS
  <2>2. \A k \in 1 .. Len(s) : Upto(k) = Upto(k - 1) \cup {t[k]}
    BY <1>1
  <2>3. ToSet(t) = Upto(Len(s))
    BY <1>2
  <2> HIDE DEF Upto
  <2>4. 0 \in S
    <3>1. Below(Upto(0)) = {}
      BY <2>1, BelowNone
    <3> QED
      BY <1>1, <3>1
  <2>5. ASSUME NEW k \in 1 .. Len(s), k - 1 \in S PROVE k \in S
    <3>1. Below(Upto(k)) = Below(Upto(k - 1)) \cup Below({t[k]})
      BY <2>2, BelowUnion
    <3>2. \A n \in Below(Upto(k - 1)) : \E i \in 1 .. k - 1 : n \in Below({t[i]})
      BY <2>5
    <3>3. k \in 1 .. k /\ \A i \in 1 .. k - 1 : i \in 1 .. k
      BY <1>1
    <3>4. \A n \in Below(Upto(k)) : \E i \in 1 .. k : n \in Below({t[i]})
      BY <3>1, <3>2, <3>3
    <3>5. k \in 0 .. Len(s)
      OBVIOUS
    <3> QED
      BY <3>4, <3>5
  <2> HIDE DEF S
  <2>6. 0 .. Len(s) \subseteq S
    BY <1>1, <2>4, <2>5, Induction
  <2>7. Len(s) \in S
    BY <1>1, <2>6
  <2> QED
    BY <2>3, <2>7 DEF S
<1>7. \A n \in Below(ToSet(t)) : Sound(n)
  BY <1>4, <1>6
<1>8. \A x \in AllIds(ToSet(t)) : x \in Nat /\ a <= x /\ x < b
  <2> SUFFICES ASSUME NEW n \in Below(ToSet(t)), n.id # None
               PROVE  n.id \in Nat /\ a <= n.id /\ n.id < b
    BY DEF AllIds
  <2>1. PICK i \in 1 .. Len(s) : n \in Below({t[i]})
    BY <1>6
  <2>2. n.id \in AllIds({t[i]})
    BY <2>1 DEF AllIds
  <2> QED
    BY <1>4, <2>2 DEF Forest
<1>9. Forest(t, a, b) /\ Len(t) = Len(s) /\ \A i \in 1 .. Len(t) : Len(t[i].kids) <= m
  BY <1>2, <1>3, <1>4, <1>5, <1>7, <1>8 DEF Forest
<1> QED
  BY <1>9 DEF t, Narrowed

-----------------------------------------------------------------------------
(* Styled text without its style.                                          *)

LEMMA ConcatElements ==
  ASSUME NEW X, NEW s \in Seq(X), NEW t \in Seq(X)
  PROVE  /\ s \o t \in Seq(X) /\ Len(s \o t) = Len(s) + Len(t)
         /\ Len(s) \in Nat /\ Len(t) \in Nat
         /\ \A i \in 1 .. Len(s) : (s \o t)[i] = s[i]
         /\ \A i \in 1 .. Len(t) : (s \o t)[Len(s) + i] = t[i]
OBVIOUS

LEMMA UnstyledFacts ==
  ASSUME NEW Char, NEW Styles, NEW t \in Seq(StyledChar(Char, Styles))
  PROVE  /\ Unstyled(t) \in Seq(Char) /\ Len(Unstyled(t)) = Len(t)
         /\ \A i \in 1 .. Len(t) : Unstyled(t)[i] = t[i].char
<1>1. Len(t) \in Nat /\ DOMAIN t = 1 .. Len(t)
  OBVIOUS
<1>2. \A i \in 1 .. Len(t) : t[i].char \in Char
  <2> SUFFICES ASSUME NEW i \in 1 .. Len(t) PROVE t[i].char \in Char
    OBVIOUS
  <2> DEFINE x == t[i]
  <2>1. x \in StyledChar(Char, Styles)
    OBVIOUS
  <2> HIDE DEF x
  <2>2. x.char \in Char
    BY <2>1 DEF StyledChar
  <2> QED
    BY <2>2 DEF x
<1> QED
  BY <1>1, <1>2 DEF Unstyled

LEMMA UnstyledConcat ==
  ASSUME NEW Char, NEW Styles, NEW s \in Seq(StyledChar(Char, Styles)),
         NEW t \in Seq(StyledChar(Char, Styles))
  PROVE  Unstyled(s \o t) = Unstyled(s) \o Unstyled(t)
<1> DEFINE X == StyledChar(Char, Styles)
           both == s \o t
           whole == Unstyled(both)
           left == Unstyled(s)
           right == Unstyled(t)
           joined == left \o right
<1>1. /\ both \in Seq(X) /\ Len(both) = Len(s) + Len(t)
      /\ Len(s) \in Nat /\ Len(t) \in Nat
      /\ \A i \in 1 .. Len(s) : both[i] = s[i]
      /\ \A i \in 1 .. Len(t) : both[Len(s) + i] = t[i]
  BY ConcatElements
<1> HIDE DEF both
<1>2. whole \in Seq(Char) /\ Len(whole) = Len(both)
      /\ \A i \in 1 .. Len(both) : whole[i] = both[i].char
  <2>1. both \in Seq(StyledChar(Char, Styles))
    BY <1>1
  <2> QED
    BY <2>1, UnstyledFacts
<1>3. left \in Seq(Char) /\ Len(left) = Len(s) /\ \A i \in 1 .. Len(s) : left[i] = s[i].char
  BY UnstyledFacts
<1>4. right \in Seq(Char) /\ Len(right) = Len(t) /\ \A i \in 1 .. Len(t) : right[i] = t[i].char
  BY UnstyledFacts
<1> HIDE DEF whole, left, right, X
<1>5. /\ joined \in Seq(Char) /\ Len(joined) = Len(s) + Len(t)
      /\ \A i \in 1 .. Len(s) : joined[i] = left[i]
      /\ \A i \in 1 .. Len(t) : joined[Len(s) + i] = right[i]
  <2>1. /\ joined \in Seq(Char) /\ Len(joined) = Len(left) + Len(right)
        /\ \A i \in 1 .. Len(left) : joined[i] = left[i]
        /\ \A i \in 1 .. Len(right) : joined[Len(left) + i] = right[i]
    <3>1. left \in Seq(Char) /\ right \in Seq(Char)
      BY <1>3, <1>4
    <3> QED
      BY <3>1, ConcatElements
  <2> HIDE DEF joined
  <2> QED
    BY <1>3, <1>4, <2>1
<1> HIDE DEF joined
<1>6. ASSUME NEW i \in 1 .. Len(whole) PROVE whole[i] = joined[i]
  <2>1. CASE i <= Len(s)
    <3>1. i \in 1 .. Len(s) /\ i \in 1 .. Len(both)
      BY <1>1, <1>2, <2>1
    <3> QED
      BY <1>1, <1>2, <1>3, <1>5, <3>1
  <2>2. CASE i > Len(s)
    <3> DEFINE k == i - Len(s)
    <3>1. k \in 1 .. Len(t) /\ i = Len(s) + k /\ i \in 1 .. Len(both)
      BY <1>1, <1>2, <2>2
    <3> HIDE DEF k
    <3>2. whole[i] = both[i].char /\ both[i] = t[k] /\ joined[i] = right[k] /\ right[k] = t[k].char
      BY <1>1, <1>2, <1>4, <1>5, <3>1
    <3> QED
      BY <3>2
  <2> QED
    BY <1>1, <1>2, <2>1, <2>2
<1>7. whole = joined
  BY <1>1, <1>2, <1>5, <1>6, SeqEqual
<1> QED
  BY <1>7 DEF whole, joined, left, right, both

LEMMA UnstyledTagged ==
  ASSUME NEW Char, NEW Styles, NEW t \in Seq(Char), NEW style \in Styles
  PROVE  /\ Tagged(t, style) \in Seq(StyledChar(Char, Styles))
         /\ Unstyled(Tagged(t, style)) = t
<1> DEFINE u == Tagged(t, style)
           v == Unstyled(u)
<1>1. /\ u \in Seq(StyledChar(Char, Styles)) /\ Len(u) = Len(t) /\ Len(t) \in Nat
      /\ \A i \in 1 .. Len(t) : u[i] = [char |-> t[i], style |-> style]
  BY TaggedType
<1> HIDE DEF u
<1>2. v \in Seq(Char) /\ Len(v) = Len(u) /\ \A i \in 1 .. Len(u) : v[i] = u[i].char
  BY <1>1, UnstyledFacts
<1> HIDE DEF v
<1>3. \A i \in 1 .. Len(v) : v[i] = t[i]
  <2> SUFFICES ASSUME NEW i \in 1 .. Len(v) PROVE v[i] = t[i]
    OBVIOUS
  <2>1. i \in 1 .. Len(t) /\ i \in 1 .. Len(u)
    BY <1>1, <1>2
  <2>2. u[i] = [char |-> t[i], style |-> style]
    BY <1>1, <2>1
  <2> QED
    BY <1>2, <2>1, <2>2
<1>4. v = t
  BY <1>1, <1>2, <1>3, SeqEqual
<1> QED
  BY <1>1, <1>4 DEF u, v

\* Items one after the other read one after the other.
LEMMA StyledConcat ==
  ASSUME NEW Char, NEW Styles, NEW Name,
         NEW s \in Seq(Item(Char, Styles, Name)), NEW t \in Seq(Item(Char, Styles, Name))
  PROVE  /\ StyledText(s) \in Seq(StyledChar(Char, Styles))
         /\ StyledText(s \o t) = StyledText(s) \o StyledText(t)
<1> DEFINE I == Item(Char, Styles, Name)
           C == StyledChar(Char, Styles)
           both == s \o t
           start == StyledText(s)
           S == {n \in 0 .. Len(t) : StyledUpTo(both)[Len(s) + n] = Then(start, StyledUpTo(t)[n])}
<1>1. /\ both \in Seq(I) /\ Len(both) = Len(s) + Len(t)
      /\ Len(s) \in Nat /\ Len(t) \in Nat
      /\ \A i \in 1 .. Len(s) : s[i] = both[i]
      /\ \A i \in 1 .. Len(t) : both[Len(s) + i] = t[i]
  BY ConcatElements
<1>2. \A i \in 1 .. Len(t) : both[Len(s) + i] = t[i]
  BY <1>1
<1> HIDE DEF both
<1>3. /\ \A n \in 0 .. Len(both) : StyledUpTo(both)[n] \in Seq(C)
      /\ \A n \in 1 .. Len(both) :
            StyledUpTo(both)[n] = Then(StyledUpTo(both)[n - 1], Tagged(both[n].text, both[n].style))
  <2>1. both \in Seq(Item(Char, Styles, Name))
    BY <1>1
  <2> HIDE DEF I, S, start
  <2> QED
    BY <2>1, StyledFacts
<1>4. /\ StyledUpTo(t)[0] = <<>>
      /\ \A n \in 0 .. Len(t) : StyledUpTo(t)[n] \in Seq(C)
      /\ \A n \in 1 .. Len(t) :
            StyledUpTo(t)[n] = Then(StyledUpTo(t)[n - 1], Tagged(t[n].text, t[n].style))
  BY StyledFacts
<1>5. start \in Seq(C)
  <2>1. Len(s) \in 0 .. Len(s)
    BY <1>1
  <2>2. StyledUpTo(s)[Len(s)] \in Seq(C)
    BY <2>1, StyledFacts
  <2> QED
    BY <2>2 DEF StyledText
<1>6. StyledUpTo(both)[Len(s)] = start
  <2>1. Len(s) \in 0 .. Len(s) /\ Len(s) <= Len(both)
    BY <1>1
  <2>2. StyledUpTo(s)[Len(s)] = StyledUpTo(both)[Len(s)]
    <3>1. \A i \in 1 .. Len(s) : s[i].text = both[i].text /\ s[i].style = both[i].style
      BY <1>1
    <3>2. both \in Seq(Item(Char, Styles, Name))
      BY <1>1
    <3> QED
      BY <2>1, <3>1, <3>2, StyledAlike
  <2> QED
    BY <2>2 DEF StyledText
<1> HIDE DEF start
<1>7. 0 \in S
  <2>1. Then(start, <<>>) = start
    BY <1>5, ThenFacts
  <2> QED
    BY <1>1, <1>4, <1>6, <2>1
<1>8. ASSUME NEW n \in 1 .. Len(t), n - 1 \in S PROVE n \in S
  <2> DEFINE tagged == Tagged(t[n].text, t[n].style)
             before == StyledUpTo(t)[n - 1]
  <2>1. n \in 0 .. Len(t) /\ n - 1 \in 0 .. Len(t) /\ Len(s) + n \in 1 .. Len(both)
        /\ (Len(s) + n) - 1 = Len(s) + (n - 1)
    BY <1>1
  <2>2. StyledUpTo(both)[Len(s) + n] = Then(StyledUpTo(both)[Len(s) + (n - 1)], tagged)
    BY <1>2, <1>3, <2>1
  <2>3. StyledUpTo(both)[Len(s) + (n - 1)] = Then(start, before)
    BY <1>8
  <2>4. StyledUpTo(t)[n] = Then(before, tagged)
    BY <1>4
  <2>5. tagged \in Seq(C)
    <3> DEFINE item == t[n]
    <3>1. item \in I
      OBVIOUS
    <3> HIDE DEF item
    <3>2. item.text \in Seq(Char) /\ item.style \in Styles
      BY <3>1 DEF Item
    <3>3. Tagged(item.text, item.style) \in Seq(StyledChar(Char, Styles))
      BY <3>2, TaggedType
    <3> QED
      BY <3>3 DEF item
  <2>6. before \in Seq(C)
    BY <1>4, <2>1
  <2> HIDE DEF tagged, before, C
  <2>7. Then(Then(start, before), tagged) = Then(start, Then(before, tagged))
    BY <1>5, <2>5, <2>6, ThenFacts
  <2> QED
    BY <2>1, <2>2, <2>3, <2>4, <2>7
<1> HIDE DEF S
<1>9. 0 .. Len(t) \subseteq S
  BY <1>1, <1>7, <1>8, Induction
<1>10. Len(t) \in S
  BY <1>1, <1>9
<1>11. StyledText(both) = Then(start, StyledText(t))
  BY <1>1, <1>10 DEF S, StyledText
<1> QED
  BY <1>5, <1>11 DEF start, both, Then, C

\* What a space depends on is the characters around it, not their style.
LEMMA CollapseIgnoresStyle ==
  ASSUME NEW Char, NEW Styles, NEW t \in Seq(StyledChar(Char, Styles)), Plain \in Styles
  PROVE  Unstyled(Collapsed(t)) = CollapsedText(Unstyled(t))
<1> DEFINE C == StyledChar(Char, Styles)
           u == Tagged(Unstyled(t), Plain)
           N == Len(t)
           S == {n \in 0 .. N : Unstyled(CollapsedUpTo(t)[n]) = Unstyled(CollapsedUpTo(u)[n])}
<1>1. Unstyled(t) \in Seq(Char) /\ Len(Unstyled(t)) = N /\ N \in Nat
      /\ \A i \in 1 .. N : Unstyled(t)[i] = t[i].char
  BY UnstyledFacts
<1>2. u \in Seq(C) /\ Len(u) = N /\ \A i \in 1 .. N : u[i] = [char |-> Unstyled(t)[i], style |-> Plain]
  BY <1>1, TaggedType
<1> HIDE DEF u
<1>3. \A i \in 1 .. N : u[i].char = t[i].char
  <2> SUFFICES ASSUME NEW i \in 1 .. N PROVE u[i].char = t[i].char
    OBVIOUS
  <2>1. u[i] = [char |-> Unstyled(t)[i], style |-> Plain]
    BY <1>2
  <2> QED
    BY <1>1, <2>1
<1>4. \A n \in 1 .. N : Keeps(t, n) <=> Keeps(u, n)
  <2> SUFFICES ASSUME NEW n \in 1 .. N PROVE Keeps(t, n) <=> Keeps(u, n)
    OBVIOUS
  <2>1. \A j \in n + 1 .. N : u[j].char = t[j].char
    BY <1>1, <1>3
  <2>2. n > 1 => u[n - 1].char = t[n - 1].char
    BY <1>1, <1>3
  <2>3. u[n].char = t[n].char
    BY <1>3
  <2> QED
    BY <1>2, <2>1, <2>2, <2>3 DEF Keeps
<1>5. /\ CollapsedUpTo(t)[0] = <<>>
      /\ \A n \in 0 .. N : CollapsedUpTo(t)[n] \in Seq(C)
      /\ \A n \in 1 .. N : CollapsedUpTo(t)[n] = IF Keeps(t, n) THEN Append(CollapsedUpTo(t)[n - 1], t[n]) ELSE CollapsedUpTo(t)[n - 1]
  BY CollapsedFacts
<1>6. /\ CollapsedUpTo(u)[0] = <<>>
      /\ \A n \in 0 .. N : CollapsedUpTo(u)[n] \in Seq(C)
      /\ \A n \in 1 .. N : CollapsedUpTo(u)[n] = IF Keeps(u, n) THEN Append(CollapsedUpTo(u)[n - 1], u[n]) ELSE CollapsedUpTo(u)[n - 1]
  BY <1>2, CollapsedFacts
<1>7. 0 \in S
  BY <1>1, <1>5, <1>6
<1>8. ASSUME NEW n \in 1 .. N, n - 1 \in S PROVE n \in S
  <2> DEFINE a == CollapsedUpTo(t)[n - 1]
             b == CollapsedUpTo(u)[n - 1]
             x == t[n]
             y == u[n]
  <2>1. n - 1 \in 0 .. N /\ n \in 0 .. N
    BY <1>1
  <2>2. a \in Seq(C) /\ b \in Seq(C) /\ x \in C /\ y \in C /\ x.char = y.char
    BY <1>2, <1>3, <1>5, <1>6, <2>1
  <2>3. Unstyled(a) = Unstyled(b)
    BY <1>8
  <2> HIDE DEF a, b, x, y
  <2>4. \A c \in Seq(C), z \in C : <<z>> \in Seq(C) /\ Append(c, z) = c \o <<z>>
    <3> HIDE DEF C
    <3> QED
      OBVIOUS
  <2>5. \A c \in Seq(C), z \in C : Unstyled(Append(c, z)) = Unstyled(c) \o Unstyled(<<z>>)
    <3> SUFFICES ASSUME NEW c \in Seq(C), NEW z \in C
                 PROVE  Unstyled(Append(c, z)) = Unstyled(c) \o Unstyled(<<z>>)
      OBVIOUS
    <3> DEFINE one == <<z>>
    <3>1. one \in Seq(C) /\ Append(c, z) = c \o one
      BY <2>4
    <3> HIDE DEF one
    <3>2. Unstyled(c \o one) = Unstyled(c) \o Unstyled(one)
      BY <3>1, UnstyledConcat
    <3> QED
      BY <3>1, <3>2 DEF one
  <2>6. Unstyled(Append(a, x)) = Unstyled(a) \o Unstyled(<<x>>)
        /\ Unstyled(Append(b, y)) = Unstyled(b) \o Unstyled(<<y>>)
    <3> HIDE DEF C
    <3> QED
      BY <2>2, <2>5
  <2>7. Unstyled(<<x>>) = Unstyled(<<y>>)
    BY <2>2 DEF Unstyled
  <2>8. Unstyled(Append(a, x)) = Unstyled(Append(b, y))
    BY <2>3, <2>6, <2>7
  <2>9. /\ CollapsedUpTo(t)[n] = IF Keeps(t, n) THEN Append(a, x) ELSE a
        /\ CollapsedUpTo(u)[n] = IF Keeps(t, n) THEN Append(b, y) ELSE b
    BY <1>4, <1>5, <1>6 DEF a, b, x, y
  <2>10. Unstyled(CollapsedUpTo(t)[n]) = Unstyled(CollapsedUpTo(u)[n])
    BY <2>3, <2>8, <2>9
  <2> QED
    BY <2>1, <2>10
<1> HIDE DEF S
<1>9. 0 .. N \subseteq S
  BY <1>1, <1>7, <1>8, Induction
<1>10. N \in S
  BY <1>1, <1>9
<1> QED
  BY <1>2, <1>10 DEF S, Collapsed, CollapsedText, u

-----------------------------------------------------------------------------
(* The extractor.                                                          *)

LEMMA ExtractorFacts ==
  ASSUME NEW e \in Extractor
  PROVE  /\ TakePending(e) \in Extractor /\ TakePending(e).next = e.next
         /\ Suppress(e) \in Extractor /\ Suppress(e).next = e.next
         /\ Allocate(e) \in Extractor /\ Allocate(e).next = e.next + 1 /\ e.next \in Nat
         /\ \A h \in Handle :
               /\ EnterAnchorNames(h, e) \in Extractor /\ EnterAnchorNames(h, e).next = e.next
               /\ [e EXCEPT !.marked = h] \in Extractor /\ [e EXCEPT !.marked = h].next = e.next
<1>1. /\ e.pending \in Seq(Handle) /\ e.marked \in Handle \cup {None}
      /\ e.next \in Nat /\ e.scripts \in Nat
      /\ e = [pending |-> e.pending, marked |-> e.marked, next |-> e.next, scripts |-> e.scripts]
  BY DEF Extractor
<1>2. ASSUME NEW h \in Handle
      PROVE  EnterAnchorNames(h, e) \in Extractor /\ EnterAnchorNames(h, e).next = e.next
  <2> DEFINE more == AppendUnique(e.pending, <<h>>)
  <2>1. <<h>> \in Seq(Handle)
    OBVIOUS
  <2>2. more \in Seq(Handle)
    BY <1>1, <2>1, UniqueNames
  <2> HIDE DEF more
  <2>3. [e EXCEPT !.pending = more] \in Extractor /\ [e EXCEPT !.pending = more].next = e.next
    BY <1>1, <2>2 DEF Extractor
  <2>4. EnterAnchorNames(h, e) = [e EXCEPT !.pending = more] \/ EnterAnchorNames(h, e) = e
    BY DEF EnterAnchorNames, more
  <2> QED
    BY <2>3, <2>4
<1>3. TakePending(e) \in Extractor /\ TakePending(e).next = e.next
  <2> DEFINE none == <<>>
  <2>1. none \in Seq(Handle)
    OBVIOUS
  <2> HIDE DEF none
  <2>2. [e EXCEPT !.pending = none] \in Extractor /\ [e EXCEPT !.pending = none].next = e.next
    BY <1>1, <2>1 DEF Extractor
  <2> QED
    BY <2>2 DEF TakePending, none
<1>4. Suppress(e) \in Extractor /\ Suppress(e).next = e.next
  BY <1>1 DEF Suppress, Extractor
<1>5. Allocate(e) \in Extractor /\ Allocate(e).next = e.next + 1
  BY <1>1 DEF Allocate, Extractor
<1>6. ASSUME NEW h \in Handle
      PROVE  [e EXCEPT !.marked = h] \in Extractor /\ [e EXCEPT !.marked = h].next = e.next
  BY <1>1 DEF Extractor
<1> QED
  BY <1>1, <1>2, <1>3, <1>4, <1>5, <1>6

-----------------------------------------------------------------------------
(* The text of the page.                                                   *)

NoText == [h \in Handle |-> <<>>]

Arena == text \in [Handle -> Seq(Nat)] /\ kids \in [Handle -> Seq(Handle)]

\* Texts put together, one after the other.
LEMMA JoinedSteps ==
  ASSUME NEW texts, NEW hs, Len(hs) \in Nat
  PROVE  /\ JoinedUpTo(texts, hs)[0] = <<>>
         /\ \A n \in 1 .. Len(hs) : JoinedUpTo(texts, hs)[n] = Then(JoinedUpTo(texts, hs)[n - 1], texts[hs[n]])
<1> DEFINE last == Len(hs)
           begin == <<>>
           Step(n, x) == Then(x, texts[hs[n]])
           Body(k, f) == [n \in 0 .. k |-> IF n = 0 THEN begin ELSE Step(n, f[n - 1])]
           S == {k \in 0 .. last : \E f : f = Body(k, f)}
           loop == JoinedUpTo(texts, hs)
<1>1. loop = CHOOSE f : f = Body(last, f)
  BY DEF JoinedUpTo, Then
<1>2. last \in Nat
  OBVIOUS
<1> HIDE DEF last, begin, Step, loop
<1>3. 0 \in S
  <2> DEFINE f == [n \in 0 .. 0 |-> begin]
  <2>1. f = Body(0, f)
    OBVIOUS
  <2> HIDE DEF f
  <2> QED
    BY <1>2, <2>1
<1>4. ASSUME NEW k \in 1 .. last, k - 1 \in S PROVE k \in S
  <2>1. k \in 0 .. last /\ k - 1 \in 0 .. last
    BY <1>2
  <2>2. PICK f : f = Body(k - 1, f)
    BY <1>4
  <2>3. \A n \in 0 .. k - 1 : f[n] = IF n = 0 THEN begin ELSE Step(n, f[n - 1])
    BY <2>2
  <2> DEFINE g == [n \in 0 .. k |-> IF n = k THEN Step(k, f[k - 1]) ELSE f[n]]
  <2>4. ASSUME NEW n \in 0 .. k PROVE g[n] = IF n = 0 THEN begin ELSE Step(n, g[n - 1])
    <3>1. CASE n = k
      <4>1. k # 0 /\ k - 1 \in 0 .. k /\ k - 1 # k
        BY <1>2
      <4> QED
        BY <3>1, <4>1
    <3>2. CASE n # k
      <4>1. n \in 0 .. k - 1 /\ g[n] = f[n]
        BY <3>2
      <4>2. CASE n = 0
        BY <2>3, <4>1, <4>2
      <4>3. CASE n # 0
        <5>1. n - 1 \in 0 .. k /\ n - 1 # k
          BY <4>1, <4>3
        <5> QED
          BY <2>3, <4>1, <4>3, <5>1
      <4> QED
        BY <4>2, <4>3
    <3> QED
      BY <3>1, <3>2
  <2>5. g = [n \in 0 .. k |-> g[n]]
    OBVIOUS
  <2> HIDE DEF g
  <2>6. g = Body(k, g)
    BY <2>4, <2>5
  <2> QED
    BY <2>1, <2>6
<1> HIDE DEF S
<1>5. last \in S
  BY <1>2, <1>3, <1>4, Induction
<1>6. loop = Body(last, loop)
  BY <1>1, <1>5 DEF S
<1>7. loop[0] = begin /\ \A n \in 1 .. last : loop[n] = Step(n, loop[n - 1])
  BY <1>2, <1>6
<1> QED
  BY <1>7, Zenon DEF loop, last, begin, Step

LEMMA JoinedType ==
  ASSUME NEW texts \in [Handle -> Seq(Nat)], NEW hs \in Seq(Handle)
  PROVE  /\ JoinedUpTo(texts, hs)[0] = <<>>
         /\ \A n \in 1 .. Len(hs) :
               JoinedUpTo(texts, hs)[n] = Then(JoinedUpTo(texts, hs)[n - 1], texts[hs[n]])
         /\ \A n \in 0 .. Len(hs) : JoinedUpTo(texts, hs)[n] \in Seq(Nat)
         /\ Joined(texts, hs) \in Seq(Nat)
<1> DEFINE joined == JoinedUpTo(texts, hs)
           S == {n \in 0 .. Len(hs) : joined[n] \in Seq(Nat)}
<1>1. Len(hs) \in Nat /\ \A n \in 1 .. Len(hs) : texts[hs[n]] \in Seq(Nat)
  OBVIOUS
<1>2. joined[0] = <<>> /\ \A n \in 1 .. Len(hs) : joined[n] = Then(joined[n - 1], texts[hs[n]])
  BY <1>1, JoinedSteps
<1> HIDE DEF joined
<1>3. 0 \in S
  <2> DEFINE none == <<>>
  <2>1. none \in Seq(Nat) /\ joined[0] = none
    BY <1>2
  <2> HIDE DEF none
  <2> QED
    BY <1>1, <2>1
<1>4. ASSUME NEW n \in 1 .. Len(hs), n - 1 \in S PROVE n \in S
  <2>1. \A a, b \in Seq(Nat) : Then(a, b) \in Seq(Nat)
    BY DEF Then
  <2>2. joined[n - 1] \in Seq(Nat) /\ n \in 0 .. Len(hs)
    BY <1>4
  <2>3. joined[n] \in Seq(Nat)
    BY <1>1, <1>2, <2>1, <2>2
  <2> QED
    BY <2>2, <2>3
<1> HIDE DEF S
<1>5. 0 .. Len(hs) \subseteq S
  BY <1>1, <1>3, <1>4, Induction
<1>6. \A n \in 0 .. Len(hs) : joined[n] \in Seq(Nat)
  BY <1>5 DEF S
<1>7. Joined(texts, hs) \in Seq(Nat)
  BY <1>1, <1>6 DEF Joined, joined
<1> QED
  BY <1>2, <1>6, <1>7 DEF joined

\* Going down one level more.
LEMMA RawSteps ==
  /\ RawText[0] = NoText
         /\ \A n \in 1 .. Levels : RawText[n] = [h \in Handle |-> TextOf(RawText[n - 1], h)]
<1> DEFINE last == Levels
           begin == NoText
           Step(n, x) == [h \in Handle |-> TextOf(x, h)]
           Body(k, f) == [n \in 0 .. k |-> IF n = 0 THEN begin ELSE Step(n, f[n - 1])]
           S == {k \in 0 .. last : \E f : f = Body(k, f)}
           loop == RawText
<1>1. loop = CHOOSE f : f = Body(last, f)
  BY DEF RawText, NoText
<1>2. last \in Nat
  BY LimitsAssumption DEF Levels
<1> HIDE DEF last, begin, Step, loop
<1>3. 0 \in S
  <2> DEFINE f == [n \in 0 .. 0 |-> begin]
  <2>1. f = Body(0, f)
    OBVIOUS
  <2> HIDE DEF f
  <2> QED
    BY <1>2, <2>1
<1>4. ASSUME NEW k \in 1 .. last, k - 1 \in S PROVE k \in S
  <2>1. k \in 0 .. last /\ k - 1 \in 0 .. last
    BY <1>2
  <2>2. PICK f : f = Body(k - 1, f)
    BY <1>4
  <2>3. \A n \in 0 .. k - 1 : f[n] = IF n = 0 THEN begin ELSE Step(n, f[n - 1])
    BY <2>2
  <2> DEFINE g == [n \in 0 .. k |-> IF n = k THEN Step(k, f[k - 1]) ELSE f[n]]
  <2>4. ASSUME NEW n \in 0 .. k PROVE g[n] = IF n = 0 THEN begin ELSE Step(n, g[n - 1])
    <3>1. CASE n = k
      <4>1. k # 0 /\ k - 1 \in 0 .. k /\ k - 1 # k
        BY <1>2
      <4> QED
        BY <3>1, <4>1
    <3>2. CASE n # k
      <4>1. n \in 0 .. k - 1 /\ g[n] = f[n]
        BY <3>2
      <4>2. CASE n = 0
        BY <2>3, <4>1, <4>2
      <4>3. CASE n # 0
        <5>1. n - 1 \in 0 .. k /\ n - 1 # k
          BY <4>1, <4>3
        <5> QED
          BY <2>3, <4>1, <4>3, <5>1
      <4> QED
        BY <4>2, <4>3
    <3> QED
      BY <3>1, <3>2
  <2>5. g = [n \in 0 .. k |-> g[n]]
    OBVIOUS
  <2> HIDE DEF g
  <2>6. g = Body(k, g)
    BY <2>4, <2>5
  <2> QED
    BY <2>1, <2>6
<1> HIDE DEF S
<1>5. last \in S
  BY <1>2, <1>3, <1>4, Induction
<1>6. loop = Body(last, loop)
  BY <1>1, <1>5 DEF S
<1>7. loop[0] = begin /\ \A n \in 1 .. last : loop[n] = Step(n, loop[n - 1])
  BY <1>2, <1>6
<1> QED
  BY <1>7, Zenon DEF loop, last, begin, Step

LEMMA RawType ==
  ASSUME Arena
  PROVE  \A n \in 0 .. Levels : RawText[n] \in [Handle -> Seq(Nat)]
<1> DEFINE S == {n \in 0 .. Levels : RawText[n] \in [Handle -> Seq(Nat)]}
<1>1. Levels \in Nat
  BY LimitsAssumption DEF Levels
<1>2. 0 \in S
  <2>1. NoText \in [Handle -> Seq(Nat)]
    BY DEF NoText
  <2>2. RawText[0] = NoText
    BY RawSteps
  <2> QED
    BY <1>1, <2>1, <2>2
<1>3. ASSUME NEW n \in 1 .. Levels, n - 1 \in S PROVE n \in S
  <2> DEFINE texts == RawText[n - 1]
  <2>1. texts \in [Handle -> Seq(Nat)]
    BY <1>3
  <2> HIDE DEF texts
  <2>2. ASSUME NEW h \in Handle PROVE TextOf(texts, h) \in Seq(Nat)
    <3> DEFINE joined == Joined(texts, kids[h])
    <3>1. kids[h] \in Seq(Handle) /\ text[h] \in Seq(Nat)
      BY DEF Arena
    <3>2. joined \in Seq(Nat)
      BY <2>1, <3>1, JoinedType
    <3> HIDE DEF joined
    <3>3. <<OpenMark>> \o joined \o <<CloseMark>> \in Seq(Nat)
      BY <3>2 DEF OpenMark, CloseMark
    <3>4. <<>> \in Seq(Nat)
      OBVIOUS
    <3> QED
      BY <3>1, <3>2, <3>3, <3>4 DEF TextOf, joined
  <2>3. RawText[n] = [h \in Handle |-> TextOf(texts, h)]
    BY RawSteps DEF texts
  <2>4. [h \in Handle |-> TextOf(texts, h)] \in [Handle -> Seq(Nat)]
    BY <2>2
  <2>5. n \in 0 .. Levels
    BY <1>1
  <2> QED
    BY <2>3, <2>4, <2>5
<1> HIDE DEF S
<1>4. 0 .. Levels \subseteq S
  BY <1>1, <1>2, <1>3, Induction
<1> QED
  BY <1>4 DEF S

-----------------------------------------------------------------------------
(* The inline walk reads as the page does.                                 *)

Segments == Seq(Item(Nat, Style, Handle))

\* What is left of the extractor, and what was gathered.
ReadsAs(r, e, chars) ==
    /\ r.self \in Extractor /\ r.self.next = e.next
    /\ r.made \in Segments
    /\ Unstyled(StyledText(r.made)) = chars

LEMMA SegmentsConcat ==
  ASSUME NEW s \in Segments, NEW t \in Segments
  PROVE  /\ s \o t \in Segments
         /\ Unstyled(StyledText(s \o t)) = Unstyled(StyledText(s)) \o Unstyled(StyledText(t))
<1>1. s \in Seq(Item(Nat, Style, Handle)) /\ t \in Seq(Item(Nat, Style, Handle))
  BY DEF Segments
<1>2. /\ StyledText(s) \in Seq(StyledChar(Nat, Style)) /\ StyledText(t) \in Seq(StyledChar(Nat, Style))
      /\ StyledText(s \o t) = StyledText(s) \o StyledText(t)
  BY <1>1, StyledConcat
<1>3. Unstyled(StyledText(s) \o StyledText(t)) = Unstyled(StyledText(s)) \o Unstyled(StyledText(t))
  BY <1>2, UnstyledConcat
<1>4. s \o t \in Seq(Item(Nat, Style, Handle))
  BY <1>1
<1> QED
  BY <1>2, <1>3, <1>4 DEF Segments

LEMMA NoSegments == <<>> \in Segments /\ Unstyled(StyledText(<<>>)) = <<>>
<1> DEFINE none == <<>>
<1>1. none \in Segments
  BY DEF Segments
<1>2. Unstyled(none) = none
  BY DEF Unstyled
<1> QED
  BY <1>1, <1>2, StyledEmpty

LEMMA OneSegment ==
  ASSUME NEW chars \in Seq(Nat), NEW style \in Style, NEW names \in Seq(Handle)
  PROVE  LET s == <<Segment(chars, style, names)>>
         IN  s \in Segments /\ Unstyled(StyledText(s)) = chars
<1> DEFINE item == Segment(chars, style, names)
           I == Item(Nat, Style, Handle)
           none == <<>>
           one == <<item>>
           C == StyledChar(Nat, Style)
           tagged == Tagged(chars, style)
<1>1. item \in I /\ item.text = chars /\ item.style = style
  BY DEF Segment, Item
<1> HIDE DEF item
<1>2. none \in Seq(I) /\ one = Append(none, item) /\ one \in Seq(I)
  <2> HIDE DEF I
  <2> QED
    BY <1>1
<1> HIDE DEF one, I
<1>3. StyledText(one) = Then(StyledText(none), Tagged(item.text, item.style))
  <2>1. none \in Seq(Item(Nat, Style, Handle)) /\ item \in Item(Nat, Style, Handle)
    BY <1>1, <1>2 DEF I
  <2> HIDE DEF none
  <2>2. StyledText(Append(none, item)) = Then(StyledText(none), Tagged(item.text, item.style))
    BY <2>1, StyledAppend
  <2> QED
    BY <1>2, <2>2
<1>4. StyledText(none) = none
  BY StyledEmpty
<1>5. tagged \in Seq(C) /\ Unstyled(tagged) = chars
  BY UnstyledTagged
<1> HIDE DEF tagged, C
<1>6. Then(none, tagged) = tagged
  BY <1>5, ConcatEmptySeq DEF Then
<1>7. StyledText(one) = tagged
  BY <1>1, <1>3, <1>4, <1>6 DEF tagged
<1> QED
  BY <1>2, <1>5, <1>7 DEF one, item, Segments, I

\* A walk over a list, one node after the other.
LEMMA WalkedSteps ==
  ASSUME NEW walk, NEW hs, Len(hs) \in Nat, NEW e
  PROVE  /\ WalkedUpTo(walk, hs, e)[0] = Nothing(e)
         /\ \A n \in 1 .. Len(hs) : WalkedUpTo(walk, hs, e)[n] = Proceed(WalkedUpTo(walk, hs, e)[n - 1], walk[hs[n]])
<1> DEFINE last == Len(hs)
           begin == Nothing(e)
           Step(n, x) == Proceed(x, walk[hs[n]])
           Body(k, f) == [n \in 0 .. k |-> IF n = 0 THEN begin ELSE Step(n, f[n - 1])]
           S == {k \in 0 .. last : \E f : f = Body(k, f)}
           loop == WalkedUpTo(walk, hs, e)
<1>1. loop = CHOOSE f : f = Body(last, f)
  BY DEF WalkedUpTo
<1>2. last \in Nat
  OBVIOUS
<1> HIDE DEF last, begin, Step, loop
<1>3. 0 \in S
  <2> DEFINE f == [n \in 0 .. 0 |-> begin]
  <2>1. f = Body(0, f)
    OBVIOUS
  <2> HIDE DEF f
  <2> QED
    BY <1>2, <2>1
<1>4. ASSUME NEW k \in 1 .. last, k - 1 \in S PROVE k \in S
  <2>1. k \in 0 .. last /\ k - 1 \in 0 .. last
    BY <1>2
  <2>2. PICK f : f = Body(k - 1, f)
    BY <1>4
  <2>3. \A n \in 0 .. k - 1 : f[n] = IF n = 0 THEN begin ELSE Step(n, f[n - 1])
    BY <2>2
  <2> DEFINE g == [n \in 0 .. k |-> IF n = k THEN Step(k, f[k - 1]) ELSE f[n]]
  <2>4. ASSUME NEW n \in 0 .. k PROVE g[n] = IF n = 0 THEN begin ELSE Step(n, g[n - 1])
    <3>1. CASE n = k
      <4>1. k # 0 /\ k - 1 \in 0 .. k /\ k - 1 # k
        BY <1>2
      <4> QED
        BY <3>1, <4>1
    <3>2. CASE n # k
      <4>1. n \in 0 .. k - 1 /\ g[n] = f[n]
        BY <3>2
      <4>2. CASE n = 0
        BY <2>3, <4>1, <4>2
      <4>3. CASE n # 0
        <5>1. n - 1 \in 0 .. k /\ n - 1 # k
          BY <4>1, <4>3
        <5> QED
          BY <2>3, <4>1, <4>3, <5>1
      <4> QED
        BY <4>2, <4>3
    <3> QED
      BY <3>1, <3>2
  <2>5. g = [n \in 0 .. k |-> g[n]]
    OBVIOUS
  <2> HIDE DEF g
  <2>6. g = Body(k, g)
    BY <2>4, <2>5
  <2> QED
    BY <2>1, <2>6
<1> HIDE DEF S
<1>5. last \in S
  BY <1>2, <1>3, <1>4, Induction
<1>6. loop = Body(last, loop)
  BY <1>1, <1>5 DEF S
<1>7. loop[0] = begin /\ \A n \in 1 .. last : loop[n] = Step(n, loop[n - 1])
  BY <1>2, <1>6
<1> QED
  BY <1>7, Zenon DEF loop, last, begin, Step

\* Nodes one after the other.
LEMMA SegmentsInTurn ==
  ASSUME NEW texts \in [Handle -> Seq(Nat)], NEW walk, NEW hs \in Seq(Handle), NEW e \in Extractor,
         \A h \in Handle, e2 \in Extractor : ReadsAs(walk[h][e2], e2, texts[h])
  PROVE  ReadsAs(InTurn(walk, hs, e), e, Joined(texts, hs))
<1> DEFINE N == Len(hs)
           walked == WalkedUpTo(walk, hs, e)
           joined == JoinedUpTo(texts, hs)
           S == {n \in 0 .. N : ReadsAs(walked[n], e, joined[n])}
<1>1. N \in Nat /\ \A n \in 1 .. N : hs[n] \in Handle
  OBVIOUS
<1>2. walked[0] = Nothing(e) /\ \A n \in 1 .. N : walked[n] = Proceed(walked[n - 1], walk[hs[n]])
  <2>1. Len(hs) \in Nat
    OBVIOUS
  <2>2. /\ WalkedUpTo(walk, hs, e)[0] = Nothing(e)
        /\ \A n \in 1 .. Len(hs) :
              WalkedUpTo(walk, hs, e)[n] = Proceed(WalkedUpTo(walk, hs, e)[n - 1], walk[hs[n]])
    <3> HIDE DEF N, walked, joined, S
    <3> QED
      BY <2>1, WalkedSteps
  <2> QED
    BY <2>2, Zenon DEF N, walked
<1>3. joined[0] = <<>> /\ \A n \in 1 .. N : joined[n] = Then(joined[n - 1], texts[hs[n]])
  BY JoinedType
<1> HIDE DEF N, walked, joined
<1>4. 0 \in S
  BY <1>1, <1>2, <1>3, NoSegments DEF ReadsAs, Nothing, Yield
<1>5. ASSUME NEW n \in 1 .. N, n - 1 \in S PROVE n \in S
  <2> DEFINE r == walked[n - 1]
             q == walk[hs[n]][r.self]
             before == joined[n - 1]
             here == texts[hs[n]]
  <2>1. ReadsAs(r, e, before)
    BY <1>5
  <2>2. ReadsAs(q, r.self, here)
    BY <1>1, <2>1 DEF ReadsAs
  <2>3. walked[n] = Yield(r.made \o q.made, q.self)
    BY <1>2 DEF Proceed, Continue
  <2>4. joined[n] = before \o here
    BY <1>3 DEF Then
  <2> HIDE DEF r, q, before, here
  <2>5. r.made \o q.made \in Segments
        /\ Unstyled(StyledText(r.made \o q.made)) = before \o here
    BY <2>1, <2>2, SegmentsConcat DEF ReadsAs
  <2>6. ReadsAs(Yield(r.made \o q.made, q.self), e, before \o here)
    BY <2>1, <2>2, <2>5 DEF ReadsAs, Yield
  <2>7. n \in 0 .. N
    BY <1>1
  <2> QED
    BY <2>3, <2>4, <2>6, <2>7
<1> HIDE DEF S
<1>6. 0 .. N \subseteq S
  BY <1>1, <1>4, <1>5, Induction
<1>7. N \in S
  BY <1>1, <1>6
<1> QED
  BY <1>7 DEF S, InTurn, Joined, N, walked, joined

\* One node.
LEMMA SegmentsOfOK ==
  ASSUME Arena, NEW texts \in [Handle -> Seq(Nat)], NEW gather,
         \A s \in Style, k \in Handle, e2 \in Extractor : ReadsAs(gather[s][k][e2], e2, texts[k]),
         NEW style \in Style, NEW h \in Handle, NEW e \in Extractor
  PROVE  ReadsAs(SegmentsOf(gather, style, h, e), e, TextOf(texts, h))
<1> DEFINE entered == IF e.marked = h THEN e ELSE EnterAnchorNames(h, e)
           inner == ChildContext(h, style)
           below == InTurn(gather[inner], kids[h], entered)
           inside == Joined(texts, kids[h])
<1>1. kids[h] \in Seq(Handle) /\ text[h] \in Seq(Nat)
  BY DEF Arena
<1>2. entered \in Extractor /\ entered.next = e.next
  BY ExtractorFacts
<1>3. inner \in Style
  BY DEF ChildContext, Style
<1> HIDE DEF entered, inner
<1>4. ReadsAs(below, entered, inside)
  <2> DEFINE walk == gather[inner]
  <2>1. \A k \in Handle, e2 \in Extractor : ReadsAs(walk[k][e2], e2, texts[k])
    BY <1>3
  <2> HIDE DEF walk
  <2>2. ReadsAs(InTurn(walk, kids[h], entered), entered, Joined(texts, kids[h]))
    BY <1>1, <1>2, <2>1, SegmentsInTurn
  <2> QED
    BY <2>2 DEF walk
<1>5. ReadsAs(below, e, inside)
  BY <1>2, <1>4 DEF ReadsAs
<1>6. SegmentsOf(gather, style, h, e) =
        CASE name[h] = Text ->
               Yield(<<Segment(text[h], style, e.pending)>>, TakePending(e))
          [] name[h] = "script" -> Nothing(Suppress(entered))
          [] name[h] = "style" -> Nothing(entered)
          [] name[h] = "q" ->
               Between(Segment(<<OpenMark>>, inner, <<>>), below,
                       Segment(<<CloseMark>>, inner, <<>>))
          [] OTHER -> below
  BY DEF SegmentsOf, entered, inner
<1> HIDE DEF below
<1>7. CASE name[h] = Text
  <2> DEFINE s == <<Segment(text[h], style, e.pending)>>
  <2>1. e.pending \in Seq(Handle)
    BY DEF Extractor
  <2>2. s \in Segments /\ Unstyled(StyledText(s)) = text[h]
    BY <1>1, <2>1, OneSegment
  <2> HIDE DEF s
  <2>3. SegmentsOf(gather, style, h, e) = Yield(s, TakePending(e)) /\ TextOf(texts, h) = text[h]
    BY <1>6, <1>7 DEF s, TextOf, Text
  <2>4. TakePending(e) \in Extractor /\ TakePending(e).next = e.next
    BY ExtractorFacts
  <2> QED
    BY <2>2, <2>3, <2>4 DEF ReadsAs, Yield
<1>8. CASE name[h] \in {"script", "style"}
  <2> DEFINE left == IF name[h] = "script" THEN Suppress(entered) ELSE entered
             none == <<>>
  <2>1. left \in Extractor /\ left.next = e.next
    BY <1>2, ExtractorFacts
  <2>2. SegmentsOf(gather, style, h, e) = Nothing(left)
    BY <1>6, <1>8 DEF Text
  <2>3. TextOf(texts, h) = none
    BY <1>8 DEF TextOf, Text
  <2>4. none \in Segments /\ Unstyled(StyledText(none)) = none
    BY NoSegments
  <2> HIDE DEF left, none
  <2>5. Nothing(left) = [made |-> none, self |-> left]
    BY DEF Nothing, Yield, none
  <2> QED
    BY <2>1, <2>2, <2>3, <2>4, <2>5 DEF ReadsAs
<1>9. CASE name[h] = "q"
  <2> DEFINE a == <<Segment(<<OpenMark>>, inner, <<>>)>>
             z == <<Segment(<<CloseMark>>, inner, <<>>)>>
             m == below.made
  <2>1. <<OpenMark>> \in Seq(Nat) /\ <<CloseMark>> \in Seq(Nat)
    BY DEF OpenMark, CloseMark
  <2>2. a \in Segments /\ Unstyled(StyledText(a)) = <<OpenMark>>
    <3>1. <<>> \in Seq(Handle)
      OBVIOUS
    <3> QED
      BY <1>3, <2>1, <3>1, OneSegment
  <2>3. z \in Segments /\ Unstyled(StyledText(z)) = <<CloseMark>>
    <3>1. <<>> \in Seq(Handle)
      OBVIOUS
    <3> QED
      BY <1>3, <2>1, <3>1, OneSegment
  <2>4. m \in Segments /\ Unstyled(StyledText(m)) = inside
    BY <1>5 DEF ReadsAs
  <2>5. SegmentsOf(gather, style, h, e) = Yield(a \o m \o z, below.self)
    BY <1>6, <1>9 DEF Between, Yield, Text
  <2>6. TextOf(texts, h) = <<OpenMark>> \o inside \o <<CloseMark>>
    BY <1>9 DEF TextOf, Text
  <2> HIDE DEF a, z, m, inside
  <2>7. a \o m \in Segments
        /\ Unstyled(StyledText(a \o m)) = <<OpenMark>> \o inside
    BY <2>2, <2>4, SegmentsConcat
  <2>8. (a \o m) \o z \in Segments
        /\ Unstyled(StyledText((a \o m) \o z)) = (<<OpenMark>> \o inside) \o <<CloseMark>>
    BY <2>3, <2>7, SegmentsConcat
  <2>9. below.self \in Extractor /\ below.self.next = e.next
    BY <1>5 DEF ReadsAs
  <2> DEFINE all == a \o m \o z
             chars == <<OpenMark>> \o inside \o <<CloseMark>>
  <2>10. all \in Segments /\ Unstyled(StyledText(all)) = chars
    BY <2>8
  <2>11. SegmentsOf(gather, style, h, e) = Yield(all, below.self) /\ TextOf(texts, h) = chars
    BY <2>5, <2>6
  <2> HIDE DEF all, chars
  <2> QED
    BY <2>9, <2>10, <2>11 DEF ReadsAs, Yield
<1>10. CASE name[h] \notin {Text, "script", "style", "q"}
  <2>1. SegmentsOf(gather, style, h, e) = below /\ TextOf(texts, h) = inside
    BY <1>6, <1>10 DEF TextOf
  <2> QED
    BY <1>5, <2>1
<1> QED
  BY <1>7, <1>8, <1>9, <1>10

NoGather == [style \in Style |-> Idle]
OneGather(g) ==
    [style \in Style |-> [h \in Handle |-> [e \in Extractor |-> SegmentsOf(g, style, h, e)]]]

\* The inline walk, one level more.
LEMMA GatherSteps ==
  /\ GatherSegments[0] = NoGather
         /\ \A n \in 1 .. Levels : GatherSegments[n] = OneGather(GatherSegments[n - 1])
<1> DEFINE last == Levels
           begin == NoGather
           Step(n, x) == OneGather(x)
           Body(k, f) == [n \in 0 .. k |-> IF n = 0 THEN begin ELSE Step(n, f[n - 1])]
           S == {k \in 0 .. last : \E f : f = Body(k, f)}
           loop == GatherSegments
<1>1. loop = CHOOSE f : f = Body(last, f)
  BY DEF GatherSegments, NoGather, OneGather
<1>2. last \in Nat
  BY LimitsAssumption DEF Levels
<1> HIDE DEF last, begin, Step, loop
<1>3. 0 \in S
  <2> DEFINE f == [n \in 0 .. 0 |-> begin]
  <2>1. f = Body(0, f)
    OBVIOUS
  <2> HIDE DEF f
  <2> QED
    BY <1>2, <2>1
<1>4. ASSUME NEW k \in 1 .. last, k - 1 \in S PROVE k \in S
  <2>1. k \in 0 .. last /\ k - 1 \in 0 .. last
    BY <1>2
  <2>2. PICK f : f = Body(k - 1, f)
    BY <1>4
  <2>3. \A n \in 0 .. k - 1 : f[n] = IF n = 0 THEN begin ELSE Step(n, f[n - 1])
    BY <2>2
  <2> DEFINE g == [n \in 0 .. k |-> IF n = k THEN Step(k, f[k - 1]) ELSE f[n]]
  <2>4. ASSUME NEW n \in 0 .. k PROVE g[n] = IF n = 0 THEN begin ELSE Step(n, g[n - 1])
    <3>1. CASE n = k
      <4>1. k # 0 /\ k - 1 \in 0 .. k /\ k - 1 # k
        BY <1>2
      <4> QED
        BY <3>1, <4>1
    <3>2. CASE n # k
      <4>1. n \in 0 .. k - 1 /\ g[n] = f[n]
        BY <3>2
      <4>2. CASE n = 0
        BY <2>3, <4>1, <4>2
      <4>3. CASE n # 0
        <5>1. n - 1 \in 0 .. k /\ n - 1 # k
          BY <4>1, <4>3
        <5> QED
          BY <2>3, <4>1, <4>3, <5>1
      <4> QED
        BY <4>2, <4>3
    <3> QED
      BY <3>1, <3>2
  <2>5. g = [n \in 0 .. k |-> g[n]]
    OBVIOUS
  <2> HIDE DEF g
  <2>6. g = Body(k, g)
    BY <2>4, <2>5
  <2> QED
    BY <2>1, <2>6
<1> HIDE DEF S
<1>5. last \in S
  BY <1>2, <1>3, <1>4, Induction
<1>6. loop = Body(last, loop)
  BY <1>1, <1>5 DEF S
<1>7. loop[0] = begin /\ \A n \in 1 .. last : loop[n] = Step(n, loop[n - 1])
  BY <1>2, <1>6
<1> QED
  BY <1>7, Zenon DEF loop, last, begin, Step

\* However far it goes down, the inline walk reads as the page does.
LEMMA GatherSegmentsOK ==
  ASSUME Arena
  PROVE  \A n \in 0 .. Levels : \A style \in Style, h \in Handle, e \in Extractor :
            ReadsAs(GatherSegments[n][style][h][e], e, RawText[n][h])
<1> DEFINE OK(g, texts) == \A style \in Style, h \in Handle, e \in Extractor :
                              ReadsAs(g[style][h][e], e, texts[h])
           S == {n \in 0 .. Levels : OK(GatherSegments[n], RawText[n])}
<1>1. Levels \in Nat
  BY LimitsAssumption DEF Levels
<1>2. OK(NoGather, NoText)
  <2> SUFFICES ASSUME NEW style \in Style, NEW h \in Handle, NEW e \in Extractor
               PROVE  ReadsAs(NoGather[style][h][e], e, NoText[h])
    OBVIOUS
  <2> DEFINE none == <<>>
  <2>1. NoGather[style][h][e] = [made |-> none, self |-> e]
    BY DEF NoGather, Idle, Nothing, Yield
  <2>2. NoText[h] = none
    BY DEF NoText
  <2>3. none \in Segments /\ Unstyled(StyledText(none)) = none
    BY NoSegments
  <2> HIDE DEF none
  <2> QED
    BY <2>1, <2>2, <2>3 DEF ReadsAs
<1>3. 0 \in S
  <2>1. GatherSegments[0] = NoGather
    BY GatherSteps
  <2>2. RawText[0] = NoText
    BY RawSteps
  <2> HIDE DEF OK
  <2> QED
    BY <1>1, <1>2, <2>1, <2>2
<1>4. ASSUME NEW n \in 1 .. Levels, n - 1 \in S PROVE n \in S
  <2> DEFINE g == GatherSegments[n - 1]
             texts == RawText[n - 1]
             more == [h \in Handle |-> TextOf(texts, h)]
  <2>1. OK(g, texts) /\ n \in 0 .. Levels /\ n - 1 \in 0 .. Levels
    BY <1>1, <1>4
  <2>2. texts \in [Handle -> Seq(Nat)]
    BY <2>1, RawType
  <2>3. GatherSegments[n] = OneGather(g)
    BY GatherSteps
  <2>4. RawText[n] = more
    BY RawSteps
  <2> HIDE DEF g, texts
  <2>5. OK(OneGather(g), more)
    <3> SUFFICES ASSUME NEW style \in Style, NEW h \in Handle, NEW e \in Extractor
                 PROVE  ReadsAs(OneGather(g)[style][h][e], e, more[h])
      OBVIOUS
    <3>1. OneGather(g)[style][h][e] = SegmentsOf(g, style, h, e)
      BY DEF OneGather
    <3>2. more[h] = TextOf(texts, h)
      OBVIOUS
    <3>3. ReadsAs(SegmentsOf(g, style, h, e), e, TextOf(texts, h))
      BY <2>1, <2>2, SegmentsOfOK
    <3> QED
      BY <3>1, <3>2, <3>3
  <2> HIDE DEF OK, more
  <2> QED
    BY <2>1, <2>3, <2>4, <2>5
<1> HIDE DEF S
<1>5. 0 .. Levels \subseteq S
  BY <1>1, <1>3, <1>4, Induction
<1> QED
  BY <1>5 DEF S

\* What is gathered from a list of nodes reads as their text.
LEMMA GatherOK ==
  ASSUME Arena, NEW hs \in Seq(Handle), NEW e \in Extractor
  PROVE  ReadsAs(Gather(hs, e), e, Joined(RawText[Levels], hs))
<1> DEFINE walk == GatherSegments[Levels][Plain]
           texts == RawText[Levels]
           chars == Joined(texts, hs)
           r == InTurn(walk, hs, e)
<1>1. Levels \in Nat /\ Levels \in 0 .. Levels
  BY LimitsAssumption DEF Levels
<1>2. texts \in [Handle -> Seq(Nat)]
  BY <1>1, RawType
<1>3. \A h \in Handle, e2 \in Extractor : ReadsAs(walk[h][e2], e2, texts[h])
  BY <1>1, GatherSegmentsOK, PlainIsAStyle
<1>4. Gather(hs, e) = SegmentPending(r)
  BY DEF Gather
<1> HIDE DEF walk, texts
<1>5. ReadsAs(r, e, chars)
  BY <1>2, <1>3, SegmentsInTurn
<1>6. chars \in Seq(Nat)
  BY <1>2, JoinedType
<1> HIDE DEF r, chars
<1> SUFFICES ReadsAs(SegmentPending(r), e, chars)
  BY <1>4 DEF chars, texts
<1>7. CASE r.self.pending = <<>>
  BY <1>5, <1>7 DEF SegmentPending
<1>8. CASE r.self.pending # <<>>
  <2> DEFINE none == <<>>
             s == <<Segment(none, Plain, r.self.pending)>>
             m == r.made
  <2>1. r.self \in Extractor /\ r.self.next = e.next /\ m \in Segments
        /\ Unstyled(StyledText(m)) = chars
    BY <1>5 DEF ReadsAs
  <2>2. none \in Seq(Nat) /\ r.self.pending \in Seq(Handle)
    BY <2>1 DEF Extractor
  <2>3. chars \o none = chars
    BY <1>6
  <2> HIDE DEF none
  <2>4. s \in Segments /\ Unstyled(StyledText(s)) = none
    BY <2>2, OneSegment, PlainIsAStyle
  <2>5. Append(m, Segment(none, Plain, r.self.pending)) = m \o s
    BY <2>1, <2>4 DEF Segments
  <2> HIDE DEF s, m
  <2>6. m \o s \in Segments /\ Unstyled(StyledText(m \o s)) = chars
    BY <2>1, <2>3, <2>4, SegmentsConcat
  <2>7. SegmentPending(r) = Yield(m \o s, TakePending(r.self))
    BY <1>8, <2>5 DEF SegmentPending, none, m
  <2>8. TakePending(r.self) \in Extractor /\ TakePending(r.self).next = e.next
    BY <2>1, ExtractorFacts
  <2> QED
    BY <2>6, <2>7, <2>8 DEF ReadsAs, Yield
<1> QED
  BY <1>7, <1>8

\* The runs of some segments read as the segments' text, collapsed.
LEMMA RunsRead ==
  ASSUME NEW made \in Segments
  PROVE  RunsText(CollapseSegments(made)) = CollapsedText(Unstyled(StyledText(made)))
<1>1. Space \in Nat /\ Plain \in Style
  BY PlainIsAStyle DEF Space
<1>2. made \in Seq(Item(Nat, Style, Handle))
  BY DEF Segments
<1>3. ReadsCollapsed(CollapseSegments(made), made)
  BY <1>1, <1>2, RunsReadCollapsed
<1>4. StyledText(made) \in Seq(StyledChar(Nat, Style))
  <2>1. <<>> \in Seq(Item(Nat, Style, Handle))
    OBVIOUS
  <2> QED
    BY <1>2, <2>1, StyledConcat
<1>5. Unstyled(Collapsed(StyledText(made))) = CollapsedText(Unstyled(StyledText(made)))
  BY <1>1, <1>4, CollapseIgnoresStyle
<1> QED
  BY <1>3, <1>5 DEF ReadsCollapsed, RunsText

\* The runs made of what was gathered from a list of nodes.
LEMMA GatheredRead ==
  ASSUME Arena, NEW hs \in Seq(Handle), NEW e \in Extractor
  PROVE  LET r == Gather(hs, e)
         IN  /\ r.self \in Extractor /\ r.self.next = e.next
             /\ RunsText(CollapseSegments(r.made)) = CollapsedText(Joined(RawText[Levels], hs))
<1>1. ReadsAs(Gather(hs, e), e, Joined(RawText[Levels], hs))
  BY GatherOK
<1> QED
  BY <1>1, RunsRead DEF ReadsAs

\* No runs, no nodes.
LEMMA NoRunsRead ==
  ASSUME Arena
  PROVE  RunsText(<<>>) = CollapsedText(Joined(RawText[Levels], <<>>))
<1> DEFINE none == <<>>
           texts == RawText[Levels]
           tagged == Tagged(none, Plain)
<1>1. Levels \in 0 .. Levels
  BY LimitsAssumption DEF Levels
<1>2. texts \in [Handle -> Seq(Nat)]
  BY <1>1, RawType
<1>3. none \in Seq(Handle) /\ Len(none) = 0
  OBVIOUS
<1> HIDE DEF texts
<1>4. Joined(texts, none) = none
  BY <1>2, <1>3, JoinedType DEF Joined
<1>5. StyledText(none) = none /\ Unstyled(none) = none
  BY StyledEmpty DEF Unstyled
<1>6. tagged = none
  BY TaggedEmpty
<1>7. Collapsed(none) = none
  <2>1. none \in Seq(StyledChar(Nat, Style))
    OBVIOUS
  <2> QED
    BY <1>3, <2>1, CollapsedFacts DEF Collapsed
<1> HIDE DEF none
<1>8. RunsText(none) = none
  BY <1>5 DEF RunsText
<1>9. CollapsedText(Joined(texts, none)) = none
  BY <1>4, <1>5, <1>6, <1>7 DEF CollapsedText
<1> QED
  BY <1>8, <1>9 DEF none, texts

-----------------------------------------------------------------------------
(* What an operation of the extractor leaves.                              *)

\* A node, field by field.
Describes(n, kind, of, runs, below, id, options) ==
    /\ IsNode(n) /\ n.kind = kind /\ n.of = of /\ n.runs = runs
    /\ n.kids = below /\ n.id = id /\ n.options = options

LEMMA NodeFields ==
  ASSUME NEW kind, NEW h
  PROVE  Describes(Node(kind, h), kind, <<h>>, <<>>, <<>>, None, <<>>)
<1> DEFINE hidden == name[h] \in grammar.hidden \cap Styled
           none == <<>>
           one == <<h>>
<1>1. Node(kind, h) = [kind |-> kind, of |-> one, runs |-> none, kids |-> none, id |-> None,
                       names |-> none, text |-> none, options |-> none, hide |-> hidden]
  BY DEF Node
<1> HIDE DEF hidden, none, one
<1>2. Describes(Node(kind, h), kind, one, none, none, None, none)
  BY <1>1 DEF Describes, IsNode
<1> QED
  BY <1>2 DEF none, one

LEMMA EditFields ==
  ASSUME NEW n, NEW kind, NEW of, NEW runs, NEW below, NEW id, NEW options,
         Describes(n, kind, of, runs, below, id, options), NEW v, NEW w
  PROVE  /\ Describes([n EXCEPT !.names = v], kind, of, runs, below, id, options)
         /\ Describes([n EXCEPT !.runs = v], kind, of, v, below, id, options)
         /\ Describes([n EXCEPT !.text = v], kind, of, runs, below, id, options)
         /\ Describes([n EXCEPT !.kids = v], kind, of, runs, v, id, options)
         /\ Describes([n EXCEPT !.id = v], kind, of, runs, below, v, options)
         /\ Describes([n EXCEPT !.id = v, !.options = w], kind, of, runs, below, v, w)
         /\ Describes([n EXCEPT !.id = v, !.runs = w], kind, of, w, below, v, options)
         /\ Describes([n EXCEPT !.kids = v, !.runs = w], kind, of, w, v, id, options)
         /\ Describes([n EXCEPT !.of = v, !.hide = w], kind, v, runs, below, id, options)
<1> USE DEF Describes
<1>1. Describes([n EXCEPT !.names = v], kind, of, runs, below, id, options)
  BY DEF IsNode
<1>2. Describes([n EXCEPT !.runs = v], kind, of, v, below, id, options)
  BY DEF IsNode
<1>3. Describes([n EXCEPT !.text = v], kind, of, runs, below, id, options)
  BY DEF IsNode
<1>4. Describes([n EXCEPT !.kids = v], kind, of, runs, v, id, options)
  BY DEF IsNode
<1>5. Describes([n EXCEPT !.id = v], kind, of, runs, below, v, options)
  BY DEF IsNode
<1>6. Describes([n EXCEPT !.id = v, !.options = w], kind, of, runs, below, v, w)
  <2> DEFINE first == [n EXCEPT !.id = v]
             both == [n EXCEPT !.id = v, !.options = w]
  <2>1. Describes(first, kind, of, runs, below, v, options)
    BY DEF IsNode
  <2>2. both = [first EXCEPT !.options = w]
    OBVIOUS
  <2> HIDE DEF first, both
  <2>3. Describes(both, kind, of, runs, below, v, w)
    BY <2>1, <2>2 DEF IsNode
  <2> QED
    BY <2>3 DEF both
<1>7. Describes([n EXCEPT !.id = v, !.runs = w], kind, of, w, below, v, options)
  <2> DEFINE first == [n EXCEPT !.id = v]
             both == [n EXCEPT !.id = v, !.runs = w]
  <2>1. Describes(first, kind, of, runs, below, v, options)
    BY DEF IsNode
  <2>2. both = [first EXCEPT !.runs = w]
    OBVIOUS
  <2> HIDE DEF first, both
  <2>3. Describes(both, kind, of, w, below, v, options)
    BY <2>1, <2>2 DEF IsNode
  <2> QED
    BY <2>3 DEF both
<1>8. Describes([n EXCEPT !.kids = v, !.runs = w], kind, of, w, v, id, options)
  <2> DEFINE first == [n EXCEPT !.kids = v]
             both == [n EXCEPT !.kids = v, !.runs = w]
  <2>1. Describes(first, kind, of, runs, v, id, options)
    BY DEF IsNode
  <2>2. both = [first EXCEPT !.runs = w]
    OBVIOUS
  <2> HIDE DEF first, both
  <2>3. Describes(both, kind, of, w, v, id, options)
    BY <2>1, <2>2 DEF IsNode
  <2> QED
    BY <2>3 DEF both
<1>9. Describes([n EXCEPT !.of = v, !.hide = w], kind, v, runs, below, id, options)
  <2> DEFINE first == [n EXCEPT !.of = v]
             both == [n EXCEPT !.of = v, !.hide = w]
  <2>1. Describes(first, kind, v, runs, below, id, options)
    BY DEF IsNode
  <2>2. both = [first EXCEPT !.hide = w]
    OBVIOUS
  <2> HIDE DEF first, both
  <2>3. Describes(both, kind, v, runs, below, id, options)
    BY <2>1, <2>2 DEF IsNode
  <2> QED
    BY <2>3 DEF both
<1> QED
  BY <1>1, <1>2, <1>3, <1>4, <1>5, <1>6, <1>7, <1>8, <1>9

\* The nodes it made are sound, and numbered from where it began to where it left off.
Grows(r, e) ==
    /\ r.self \in Extractor /\ e.next <= r.self.next
    /\ Forest(r.made, e.next, r.self.next)

Walker(walk) == \A h \in Handle, e \in Extractor : Grows(walk[h][e], e)

LEMMA NothingGrows ==
  ASSUME NEW e \in Extractor, NEW d \in Extractor, e.next <= d.next
  PROVE  Grows(Nothing(d), e)
<1> DEFINE none == <<>>
<1>1. Forest(none, e.next, d.next)
  BY EmptyForest
<1> HIDE DEF none
<1>2. Nothing(d) = [made |-> none, self |-> d]
  BY DEF Nothing, Yield, none
<1> QED
  BY <1>1, <1>2 DEF Grows

LEMMA ContinueGrows ==
  ASSUME NEW e \in Extractor, NEW r, NEW s, Grows(r, e), Grows(s, r.self)
  PROVE  Grows(Continue(r, s), e)
<1>1. e.next \in Nat /\ r.self.next \in Nat /\ s.self.next \in Nat
  BY DEF Grows, Extractor
<1>2. Forest(r.made \o s.made, e.next, s.self.next)
  BY <1>1, ConcatForest DEF Grows
<1> QED
  BY <1>1, <1>2 DEF Grows, Continue, Yield

LEMMA IdleWalker == Walker(Idle)
<1> SUFFICES ASSUME NEW h \in Handle, NEW e \in Extractor PROVE Grows(Idle[h][e], e)
  BY DEF Walker
<1>1. Idle[h][e] = Nothing(e)
  BY DEF Idle
<1>2. e.next \in Nat
  BY DEF Extractor
<1> QED
  BY <1>1, <1>2, NothingGrows

\* Starting a little later.
LEMMA GrowsFrom ==
  ASSUME NEW e \in Extractor, NEW d \in Extractor, e.next <= d.next, NEW r, Grows(r, d)
  PROVE  Grows(r, e)
<1>1. e.next \in Nat /\ d.next \in Nat /\ r.self.next \in Nat
  BY DEF Grows, Extractor
<1>2. Forest(r.made, e.next, r.self.next)
  BY <1>1, WiderForest DEF Grows
<1> QED
  BY <1>1, <1>2 DEF Grows

\* One node, numbered before what is below it if it is numbered.
LEMMA NodeGrows ==
  ASSUME NEW e \in Extractor, NEW d \in Extractor, NEW m \in Nat, e.next <= m, m <= d.next,
         NEW n, NEW kind, NEW of, NEW runs, NEW below, NEW id, NEW options,
         Describes(n, kind, of, runs, below, id, options),
         id = None \/ (id \in Nat /\ e.next <= id /\ id < m),
         Forest(below, m, d.next), Reads(n), WithinLimits(n)
  PROVE  Grows(Yield(<<n>>, d), e)
<1>1. e.next \in Nat /\ d.next \in Nat /\ e.next <= d.next
  BY DEF Extractor
<1>2. /\ IsNode(n) /\ Forest(n.kids, m, d.next)
      /\ n.id = None \/ (n.id \in Nat /\ e.next <= n.id /\ n.id < m)
  BY DEF Describes
<1>3. Forest(<<n>>, e.next, d.next)
  BY <1>1, <1>2, OneForest
<1> QED
  BY <1>1, <1>3 DEF Grows, Yield

ReadsAlso == TextBlock \cup {"button", "figure"}

\* Nothing is claimed of what a node of another kind reads as, nor of its children.
LEMMA OtherKinds ==
  ASSUME NEW n, NEW kind, NEW of, NEW runs, NEW below, NEW id, NEW options,
         Describes(n, kind, of, runs, below, id, options)
  PROVE  /\ kind \notin ReadsAlso => Reads(n)
         /\ kind # "table" /\ options = <<>> => WithinLimits(n)
<1>1. kind \notin ReadsAlso => Reads(n)
  BY DEF Reads, Describes, ReadsAlso
<1>2. ASSUME kind # "table", options = <<>> PROVE WithinLimits(n)
  <2>1. n.kind # "table" /\ n.options = <<>> /\ Len(<<>>) = 0
    BY <1>2 DEF Describes
  <2>2. Len(n.options) = 0
    BY <2>1
  <2> QED
    BY <2>1, <2>2, TableLimitsAssumption DEF WithinLimits
<1> QED
  BY <1>1, <1>2

\* A node of such a kind, with the nodes it was given.
LEMMA PlainNodeGrows ==
  ASSUME NEW e \in Extractor, NEW d \in Extractor, NEW m \in Nat, e.next <= m, m <= d.next,
         NEW n, NEW kind, NEW of, NEW runs, NEW below, NEW id,
         Describes(n, kind, of, runs, below, id, <<>>),
         kind \notin ReadsAlso \cup {"table"},
         id = None \/ (id \in Nat /\ e.next <= id /\ id < m),
         Forest(below, m, d.next)
  PROVE  Grows(Yield(<<n>>, d), e)
<1>1. Reads(n) /\ WithinLimits(n)
  BY OtherKinds
<1> QED
  BY <1>1, NodeGrows

LEMMA LeafGrows ==
  ASSUME NEW e \in Extractor, NEW d \in Extractor, e.next <= d.next,
         NEW n, NEW kind, NEW of, NEW runs,
         Describes(n, kind, of, runs, <<>>, None, <<>>),
         kind \notin ReadsAlso \cup {"table"}
  PROVE  Grows(Yield(<<n>>, d), e)
<1>1. e.next \in Nat /\ d.next \in Nat /\ e.next <= e.next
  BY DEF Extractor
<1>2. Forest(<<>>, e.next, d.next)
  BY EmptyForest
<1> QED
  BY <1>1, <1>2, PlainNodeGrows

\* Nodes one after the other.
LEMMA InTurnGrows ==
  ASSUME NEW walk, Walker(walk), NEW hs \in Seq(Handle), NEW e \in Extractor
  PROVE  Grows(InTurn(walk, hs, e), e)
<1> DEFINE N == Len(hs)
           walked == WalkedUpTo(walk, hs, e)
           S == {n \in 0 .. N : Grows(walked[n], e)}
<1>1. N \in Nat /\ \A n \in 1 .. N : hs[n] \in Handle
  OBVIOUS
<1>2. walked[0] = Nothing(e) /\ \A n \in 1 .. N : walked[n] = Proceed(walked[n - 1], walk[hs[n]])
  <2>1. Len(hs) \in Nat
    OBVIOUS
  <2>2. /\ WalkedUpTo(walk, hs, e)[0] = Nothing(e)
        /\ \A n \in 1 .. Len(hs) :
              WalkedUpTo(walk, hs, e)[n] = Proceed(WalkedUpTo(walk, hs, e)[n - 1], walk[hs[n]])
    <3> HIDE DEF N, walked, S
    <3> QED
      BY <2>1, WalkedSteps
  <2> QED
    BY <2>2, Zenon DEF N, walked
<1> HIDE DEF N, walked
<1>3. 0 \in S
  <2>1. e.next \in Nat
    BY DEF Extractor
  <2>2. Grows(Nothing(e), e)
    BY <2>1, NothingGrows
  <2> QED
    BY <1>1, <1>2, <2>2
<1>4. ASSUME NEW n \in 1 .. N, n - 1 \in S PROVE n \in S
  <2> DEFINE r == walked[n - 1]
             q == walk[hs[n]][r.self]
  <2>1. Grows(r, e)
    BY <1>4
  <2>2. Grows(q, r.self)
    BY <1>1, <2>1 DEF Grows, Walker
  <2>3. walked[n] = Continue(r, q)
    BY <1>2 DEF Proceed
  <2> HIDE DEF r, q
  <2>4. Grows(Continue(r, q), e)
    BY <2>1, <2>2, ContinueGrows
  <2>5. n \in 0 .. N
    BY <1>1
  <2> QED
    BY <2>3, <2>4, <2>5
<1> HIDE DEF S
<1>5. 0 .. N \subseteq S
  BY <1>1, <1>3, <1>4, Induction
<1>6. N \in S
  BY <1>1, <1>5
<1> QED
  BY <1>6 DEF S, InTurn, N, walked

-----------------------------------------------------------------------------
(* The operations, one by one.                                             *)

LEMMA MarkGrows ==
  ASSUME NEW h \in Handle, NEW e \in Extractor
  PROVE  Grows(Mark(h, e), e)
<1> DEFINE entered == EnterAnchorNames(h, e)
           marker == EmitAnchorMarker(h, entered)
           anchor == [Node("anchor", h) EXCEPT !.names = entered.pending]
<1>1. entered \in Extractor /\ entered.next = e.next
  BY ExtractorFacts
<1>2. Mark(h, e) = [marker EXCEPT !.self.marked = h]
  BY DEF Mark
<1>3. Describes(anchor, "anchor", <<h>>, <<>>, <<>>, None, <<>>)
  BY NodeFields, EditFields
<1>4. marker = Nothing(entered) \/ marker = Yield(<<anchor>>, TakePending(entered))
  BY DEF EmitAnchorMarker
<1> HIDE DEF entered, marker, anchor
<1>5. e.next \in Nat
  BY DEF Extractor
<1>6. Grows(Nothing(entered), e)
  BY <1>1, <1>5, NothingGrows
<1>7. TakePending(entered) \in Extractor /\ TakePending(entered).next = e.next
  BY <1>1, ExtractorFacts
<1>8. Grows(Yield(<<anchor>>, TakePending(entered)), e)
  <2>1. "anchor" \notin ReadsAlso \cup {"table"}
    BY DEF ReadsAlso, TextBlock, Heading
  <2> QED
    BY <1>3, <1>5, <1>7, <2>1, LeafGrows
<1>9. Grows(marker, e)
  BY <1>4, <1>6, <1>8
<1>10. marker = [made |-> marker.made, self |-> marker.self]
  BY <1>4 DEF Nothing, Yield
<1> DEFINE left == [marker.self EXCEPT !.marked = h]
<1>11. marker.self \in Extractor
  BY <1>9 DEF Grows
<1>12. left \in Extractor /\ left.next = marker.self.next
  BY <1>11, ExtractorFacts
<1>13. [marker EXCEPT !.self.marked = h] = [made |-> marker.made, self |-> left]
  BY <1>10
<1> HIDE DEF left
<1> QED
  BY <1>2, <1>9, <1>12, <1>13 DEF Grows

\* A text block, with the runs of its source.
LEMMA PushGatheredGrows ==
  ASSUME Arena, NEW hs \in Seq(Handle), NEW e \in Extractor, NEW kind \in TextBlock, NEW n,
         Describes(n, kind, hs, <<>>, <<>>, None, <<>>)
  PROVE  Grows(PushGathered(Gather(hs, e), n), e)
<1> DEFINE r == Gather(hs, e)
           runs == CollapseSegments(r.made)
           full == [n EXCEPT !.runs = runs]
<1>1. /\ r.self \in Extractor /\ r.self.next = e.next
      /\ RunsText(runs) = CollapsedText(Joined(RawText[Levels], hs))
  BY GatheredRead
<1>2. PushGathered(r, n) = Nothing(r.self) \/ PushGathered(r, n) = Yield(<<full>>, r.self)
  BY DEF PushGathered, PushRuns
<1> HIDE DEF r, runs
<1>3. e.next \in Nat
  BY DEF Extractor
<1>4. Grows(Nothing(r.self), e)
  BY <1>1, <1>3, NothingGrows
<1>5. Describes(full, kind, hs, runs, <<>>, None, <<>>)
  BY EditFields
<1> HIDE DEF full
<1>6. kind # "table" /\ kind # "figure"
  BY DEF TextBlock, Heading
<1>7. Reads(full)
  BY <1>1, <1>5, <1>6 DEF Reads, ReadsAsItsSource, Source, Describes
<1>8. WithinLimits(full)
  BY <1>5, <1>6, OtherKinds
<1>9. Grows(Yield(<<full>>, r.self), e)
  <2>1. Forest(<<>>, e.next, r.self.next)
    BY EmptyForest
  <2>2. e.next <= e.next /\ e.next <= r.self.next
    BY <1>1, <1>3
  <2> QED
    BY <1>1, <1>3, <1>5, <1>7, <1>8, <2>1, <2>2, NodeGrows
<1> QED
  BY <1>2, <1>4, <1>9 DEF r

LEMMA FlushInlineParagraphGrows ==
  ASSUME Arena, NEW hs \in Seq(Handle), NEW e \in Extractor
  PROVE  Grows(FlushInlineParagraph(hs, e), e)
<1>1. CASE hs = <<>>
  <2>1. FlushInlineParagraph(hs, e) = Nothing(e)
    BY <1>1 DEF FlushInlineParagraph
  <2>2. e.next \in Nat
    BY DEF Extractor
  <2> QED
    BY <2>1, <2>2, NothingGrows
<1>2. CASE hs # <<>>
  <2>1. FlushInlineParagraph(hs, e) = PushGathered(Gather(hs, e), AnonymousParagraph(hs))
    BY <1>2 DEF FlushInlineParagraph
  <2>2. Describes(AnonymousParagraph(hs), "p", hs, <<>>, <<>>, None, <<>>)
    BY NodeFields, EditFields DEF AnonymousParagraph
  <2>3. "p" \in TextBlock
    BY DEF TextBlock
  <2> QED
    BY <2>1, <2>2, <2>3, PushGatheredGrows
<1> QED
  BY <1>1, <1>2

LEMMA PushTextBlockGrows ==
  ASSUME Arena, NEW h \in Handle, NEW e \in Extractor, name[h] \in TextBlock
  PROVE  Grows(PushTextBlock(h, e), e)
<1>1. Describes(Node(name[h], h), name[h], <<h>>, <<>>, <<>>, None, <<>>)
  BY NodeFields
<1>2. <<h>> \in Seq(Handle)
  OBVIOUS
<1> QED
  BY <1>1, <1>2, PushGatheredGrows DEF PushTextBlock

-----------------------------------------------------------------------------
(* Preformatted text: no node is numbered on the way.                      *)

Still(r, e) == r.self \in Extractor /\ r.self.next = e.next

LEMMA StillInTurn ==
  ASSUME NEW walk, \A h \in Handle, e2 \in Extractor : Still(walk[h][e2], e2),
         NEW hs \in Seq(Handle), NEW e \in Extractor
  PROVE  Still(InTurn(walk, hs, e), e)
<1> DEFINE N == Len(hs)
           walked == WalkedUpTo(walk, hs, e)
           S == {n \in 0 .. N : Still(walked[n], e)}
<1>1. N \in Nat /\ \A n \in 1 .. N : hs[n] \in Handle
  OBVIOUS
<1>2. walked[0] = Nothing(e) /\ \A n \in 1 .. N : walked[n] = Proceed(walked[n - 1], walk[hs[n]])
  <2>1. Len(hs) \in Nat
    OBVIOUS
  <2>2. /\ WalkedUpTo(walk, hs, e)[0] = Nothing(e)
        /\ \A n \in 1 .. Len(hs) :
              WalkedUpTo(walk, hs, e)[n] = Proceed(WalkedUpTo(walk, hs, e)[n - 1], walk[hs[n]])
    <3> HIDE DEF N, walked, S
    <3> QED
      BY <2>1, WalkedSteps
  <2> QED
    BY <2>2, Zenon DEF N, walked
<1> HIDE DEF N, walked
<1>3. 0 \in S
  BY <1>1, <1>2 DEF Still, Nothing, Yield
<1>4. ASSUME NEW n \in 1 .. N, n - 1 \in S PROVE n \in S
  <2> DEFINE r == walked[n - 1]
             q == walk[hs[n]][r.self]
  <2>1. Still(r, e)
    BY <1>4
  <2>2. Still(q, r.self)
    BY <1>1, <2>1 DEF Still
  <2>3. walked[n] = Continue(r, q)
    BY <1>2 DEF Proceed
  <2> HIDE DEF r, q
  <2>4. Still(Continue(r, q), e)
    BY <2>1, <2>2 DEF Still, Continue, Yield
  <2>5. n \in 0 .. N
    BY <1>1
  <2> QED
    BY <2>3, <2>4, <2>5
<1> HIDE DEF S
<1>5. 0 .. N \subseteq S
  BY <1>1, <1>3, <1>4, Induction
<1>6. N \in S
  BY <1>1, <1>5
<1> QED
  BY <1>6 DEF S, InTurn, N, walked

OneText(g) == [h \in Handle |-> [e \in Extractor |-> CharactersOf(g, h, e)]]

\* The walk of preformatted text, one level more.
LEMMA TextSteps ==
  /\ GatherText[0] = Idle
         /\ \A n \in 1 .. Levels : GatherText[n] = OneText(GatherText[n - 1])
<1> DEFINE last == Levels
           begin == Idle
           Step(n, x) == OneText(x)
           Body(k, f) == [n \in 0 .. k |-> IF n = 0 THEN begin ELSE Step(n, f[n - 1])]
           S == {k \in 0 .. last : \E f : f = Body(k, f)}
           loop == GatherText
<1>1. loop = CHOOSE f : f = Body(last, f)
  BY DEF GatherText, OneText
<1>2. last \in Nat
  BY LimitsAssumption DEF Levels
<1> HIDE DEF last, begin, Step, loop
<1>3. 0 \in S
  <2> DEFINE f == [n \in 0 .. 0 |-> begin]
  <2>1. f = Body(0, f)
    OBVIOUS
  <2> HIDE DEF f
  <2> QED
    BY <1>2, <2>1
<1>4. ASSUME NEW k \in 1 .. last, k - 1 \in S PROVE k \in S
  <2>1. k \in 0 .. last /\ k - 1 \in 0 .. last
    BY <1>2
  <2>2. PICK f : f = Body(k - 1, f)
    BY <1>4
  <2>3. \A n \in 0 .. k - 1 : f[n] = IF n = 0 THEN begin ELSE Step(n, f[n - 1])
    BY <2>2
  <2> DEFINE g == [n \in 0 .. k |-> IF n = k THEN Step(k, f[k - 1]) ELSE f[n]]
  <2>4. ASSUME NEW n \in 0 .. k PROVE g[n] = IF n = 0 THEN begin ELSE Step(n, g[n - 1])
    <3>1. CASE n = k
      <4>1. k # 0 /\ k - 1 \in 0 .. k /\ k - 1 # k
        BY <1>2
      <4> QED
        BY <3>1, <4>1
    <3>2. CASE n # k
      <4>1. n \in 0 .. k - 1 /\ g[n] = f[n]
        BY <3>2
      <4>2. CASE n = 0
        BY <2>3, <4>1, <4>2
      <4>3. CASE n # 0
        <5>1. n - 1 \in 0 .. k /\ n - 1 # k
          BY <4>1, <4>3
        <5> QED
          BY <2>3, <4>1, <4>3, <5>1
      <4> QED
        BY <4>2, <4>3
    <3> QED
      BY <3>1, <3>2
  <2>5. g = [n \in 0 .. k |-> g[n]]
    OBVIOUS
  <2> HIDE DEF g
  <2>6. g = Body(k, g)
    BY <2>4, <2>5
  <2> QED
    BY <2>1, <2>6
<1> HIDE DEF S
<1>5. last \in S
  BY <1>2, <1>3, <1>4, Induction
<1>6. loop = Body(last, loop)
  BY <1>1, <1>5 DEF S
<1>7. loop[0] = begin /\ \A n \in 1 .. last : loop[n] = Step(n, loop[n - 1])
  BY <1>2, <1>6
<1> QED
  BY <1>7, Zenon DEF loop, last, begin, Step

LEMMA GatherTextOK ==
  ASSUME Arena
  PROVE  \A n \in 0 .. Levels : \A h \in Handle, e \in Extractor : Still(GatherText[n][h][e], e)
<1> DEFINE OK(g) == \A h \in Handle, e \in Extractor : Still(g[h][e], e)
           S == {n \in 0 .. Levels : OK(GatherText[n])}
<1>1. Levels \in Nat
  BY LimitsAssumption DEF Levels
<1>2. OK(Idle)
  BY DEF Idle, Still, Nothing, Yield
<1>3. 0 \in S
  <2> HIDE DEF OK
  <2> QED
    BY <1>1, <1>2, TextSteps
<1>4. ASSUME NEW n \in 1 .. Levels, n - 1 \in S PROVE n \in S
  <2> DEFINE g == GatherText[n - 1]
  <2>1. OK(g) /\ n \in 0 .. Levels
    BY <1>1, <1>4
  <2>2. GatherText[n] = OneText(g)
    BY TextSteps
  <2> HIDE DEF g
  <2>3. OK(OneText(g))
    <3> SUFFICES ASSUME NEW h \in Handle, NEW e \in Extractor
                 PROVE  Still(OneText(g)[h][e], e)
      OBVIOUS
    <3>1. OneText(g)[h][e] = CharactersOf(g, h, e)
      BY DEF OneText
    <3>2. kids[h] \in Seq(Handle)
      BY DEF Arena
    <3>3. Still(InTurn(g, kids[h], e), e)
      BY <2>1, <3>2, StillInTurn
    <3>4. Still(Yield(text[h], e), e) /\ Still(Nothing(Suppress(e)), e) /\ Still(Nothing(e), e)
      BY ExtractorFacts DEF Still, Yield, Nothing
    <3>5. CharactersOf(g, h, e) \in
            {Yield(text[h], e), Nothing(Suppress(e)), Nothing(e), InTurn(g, kids[h], e)}
      BY DEF CharactersOf
    <3> QED
      BY <3>1, <3>3, <3>4, <3>5
  <2> HIDE DEF OK
  <2> QED
    BY <2>1, <2>2, <2>3
<1> HIDE DEF S
<1>5. 0 .. Levels \subseteq S
  BY <1>1, <1>3, <1>4, Induction
<1> QED
  BY <1>5 DEF S

LEMMA PushVerbatimGrows ==
  ASSUME Arena, NEW h \in Handle, NEW e \in Extractor
  PROVE  Grows(PushVerbatim(h, e), e)
<1> DEFINE r == GatherText[Levels][h][e]
           t == TrimLineFeeds(r.made)
           n == [Node("pre", h) EXCEPT !.text = t]
<1>1. Levels \in 0 .. Levels
  BY LimitsAssumption DEF Levels
<1>2. Still(r, e)
  BY <1>1, GatherTextOK
<1>3. PushVerbatim(h, e) = Nothing(r.self) \/ PushVerbatim(h, e) = Yield(<<n>>, r.self)
  BY DEF PushVerbatim, PushText
<1>4. Describes(n, "pre", <<h>>, <<>>, <<>>, None, <<>>)
  BY NodeFields, EditFields
<1> HIDE DEF r, t, n
<1>5. r.self \in Extractor /\ e.next <= r.self.next
  BY <1>2 DEF Still, Extractor
<1>6. Grows(Nothing(r.self), e)
  BY <1>5, NothingGrows
<1>7. Grows(Yield(<<n>>, r.self), e)
  <2>1. "pre" \notin ReadsAlso \cup {"table"}
    BY DEF ReadsAlso, TextBlock, Heading
  <2> QED
    BY <1>4, <1>5, <2>1, LeafGrows
<1> QED
  BY <1>3, <1>6, <1>7

-----------------------------------------------------------------------------
(* The options of a select.                                                *)

FewOptions(o) == o \in Seq(Option) /\ Len(o) <= MaxSelectOptions

Collector(collect) ==
    \A h \in Handle, o \in Seq(Option) : FewOptions(o) => FewOptions(collect[h][o])

\* The options below a node, one child after the other.
LEMMA CollectedSteps ==
  ASSUME NEW collect, NEW hs, Len(hs) \in Nat, NEW options
  PROVE  /\ CollectedUpTo(collect, hs, options)[0] = options
         /\ \A n \in 1 .. Len(hs) : CollectedUpTo(collect, hs, options)[n] = CollectOption(collect, CollectedUpTo(collect, hs, options)[n - 1], hs[n])
<1> DEFINE last == Len(hs)
           begin == options
           Step(n, x) == CollectOption(collect, x, hs[n])
           Body(k, f) == [n \in 0 .. k |-> IF n = 0 THEN begin ELSE Step(n, f[n - 1])]
           S == {k \in 0 .. last : \E f : f = Body(k, f)}
           loop == CollectedUpTo(collect, hs, options)
<1>1. loop = CHOOSE f : f = Body(last, f)
  BY DEF CollectedUpTo
<1>2. last \in Nat
  OBVIOUS
<1> HIDE DEF last, begin, Step, loop
<1>3. 0 \in S
  <2> DEFINE f == [n \in 0 .. 0 |-> begin]
  <2>1. f = Body(0, f)
    OBVIOUS
  <2> HIDE DEF f
  <2> QED
    BY <1>2, <2>1
<1>4. ASSUME NEW k \in 1 .. last, k - 1 \in S PROVE k \in S
  <2>1. k \in 0 .. last /\ k - 1 \in 0 .. last
    BY <1>2
  <2>2. PICK f : f = Body(k - 1, f)
    BY <1>4
  <2>3. \A n \in 0 .. k - 1 : f[n] = IF n = 0 THEN begin ELSE Step(n, f[n - 1])
    BY <2>2
  <2> DEFINE g == [n \in 0 .. k |-> IF n = k THEN Step(k, f[k - 1]) ELSE f[n]]
  <2>4. ASSUME NEW n \in 0 .. k PROVE g[n] = IF n = 0 THEN begin ELSE Step(n, g[n - 1])
    <3>1. CASE n = k
      <4>1. k # 0 /\ k - 1 \in 0 .. k /\ k - 1 # k
        BY <1>2
      <4> QED
        BY <3>1, <4>1
    <3>2. CASE n # k
      <4>1. n \in 0 .. k - 1 /\ g[n] = f[n]
        BY <3>2
      <4>2. CASE n = 0
        BY <2>3, <4>1, <4>2
      <4>3. CASE n # 0
        <5>1. n - 1 \in 0 .. k /\ n - 1 # k
          BY <4>1, <4>3
        <5> QED
          BY <2>3, <4>1, <4>3, <5>1
      <4> QED
        BY <4>2, <4>3
    <3> QED
      BY <3>1, <3>2
  <2>5. g = [n \in 0 .. k |-> g[n]]
    OBVIOUS
  <2> HIDE DEF g
  <2>6. g = Body(k, g)
    BY <2>4, <2>5
  <2> QED
    BY <2>1, <2>6
<1> HIDE DEF S
<1>5. last \in S
  BY <1>2, <1>3, <1>4, Induction
<1>6. loop = Body(last, loop)
  BY <1>1, <1>5 DEF S
<1>7. loop[0] = begin /\ \A n \in 1 .. last : loop[n] = Step(n, loop[n - 1])
  BY <1>2, <1>6
<1> QED
  BY <1>7, Zenon DEF loop, last, begin, Step

LEMMA CollectOptionOK ==
  ASSUME NEW collect, Collector(collect), NEW o, FewOptions(o), NEW k \in Handle
  PROVE  FewOptions(CollectOption(collect, o, k))
<1> DEFINE one == OptionOf(k)
<1>1. one \in Option
  <2> DEFINE chosen == name[k] = "option selected"
  <2>1. chosen \in BOOLEAN
    OBVIOUS
  <2> HIDE DEF chosen
  <2>2. [of |-> k, selected |-> chosen] \in Option
    BY <2>1 DEF Option
  <2> QED
    BY <2>2, Zenon DEF chosen, OptionOf
<1>2. o \in Seq(Option) /\ Len(o) \in Nat /\ Len(o) <= MaxSelectOptions
  BY DEF FewOptions
<1> HIDE DEF one
<1>3. CASE Len(o) < MaxSelectOptions /\ name[k] \in {"option", "option selected"}
  <2> DEFINE more == Append(o, one)
             chosen == name[k] \in {"option", "option selected"}
             count == Len(o)
             full == count >= MaxSelectOptions
  <2>1. count \in Nat /\ count < MaxSelectOptions
    BY <1>2, <1>3
  <2>2. Len(o) = count
    OBVIOUS
  <2> HIDE DEF count
  <2>3. MaxSelectOptions \in Nat /\ ~(count >= MaxSelectOptions)
    BY <2>1, TableLimitsAssumption
  <2>4. chosen
    BY <1>3
  <2>5. more \in Seq(Option) /\ Len(more) = Len(o) + 1
    BY <1>1, <1>2
  <2>6. CollectOption(collect, o, k)
          = CASE full -> o
              [] count < MaxSelectOptions /\ chosen -> more
              [] count < MaxSelectOptions /\ name[k] = Text -> o
              [] OTHER -> collect[k][o]
    BY <2>2 DEF CollectOption, one
  <2>7. name[k] # Text
    BY <1>3 DEF Text
  <2> HIDE DEF more, chosen, full
  <2>8. CollectOption(collect, o, k) = more
    BY <2>1, <2>4, <2>3, <2>6, <2>7 DEF full
  <2>9. Len(more) <= MaxSelectOptions
    BY <2>1, <2>2, <2>3, <2>5
  <2> QED
    BY <2>5, <2>8, <2>9 DEF FewOptions
<1>4. CASE ~(Len(o) < MaxSelectOptions /\ name[k] \in {"option", "option selected"})
  <2>1. CollectOption(collect, o, k) \in {o, collect[k][o]}
    BY <1>2, <1>4, TableLimitsAssumption DEF CollectOption
  <2>2. FewOptions(collect[k][o])
    BY <1>2 DEF Collector
  <2> QED
    BY <2>1, <2>2
<1> QED
  BY <1>3, <1>4

LEMMA CollectedOK ==
  ASSUME NEW collect, Collector(collect), NEW o, FewOptions(o), NEW hs \in Seq(Handle)
  PROVE  FewOptions(CollectedUpTo(collect, hs, o)[Len(hs)])
<1> DEFINE N == Len(hs)
           collected == CollectedUpTo(collect, hs, o)
           S == {n \in 0 .. N : FewOptions(collected[n])}
<1>1. N \in Nat /\ \A n \in 1 .. N : hs[n] \in Handle
  OBVIOUS
<1>2. collected[0] = o
      /\ \A n \in 1 .. N : collected[n] = CollectOption(collect, collected[n - 1], hs[n])
  <2>1. Len(hs) \in Nat
    OBVIOUS
  <2>2. /\ CollectedUpTo(collect, hs, o)[0] = o
        /\ \A n \in 1 .. Len(hs) :
              CollectedUpTo(collect, hs, o)[n]
                = CollectOption(collect, CollectedUpTo(collect, hs, o)[n - 1], hs[n])
    <3> HIDE DEF N, collected, S
    <3> QED
      BY <2>1, CollectedSteps
  <2> QED
    BY <2>2, Zenon DEF N, collected
<1> HIDE DEF N, collected
<1>3. 0 \in S
  BY <1>1, <1>2
<1>4. ASSUME NEW n \in 1 .. N, n - 1 \in S PROVE n \in S
  <2>1. FewOptions(collected[n - 1])
    BY <1>4
  <2>2. FewOptions(collected[n])
    BY <1>1, <1>2, <2>1, CollectOptionOK
  <2>3. n \in 0 .. N
    BY <1>1
  <2> QED
    BY <2>2, <2>3
<1> HIDE DEF S
<1>5. 0 .. N \subseteq S
  BY <1>1, <1>3, <1>4, Induction
<1>6. N \in S
  BY <1>1, <1>5
<1> QED
  BY <1>6 DEF S, N, collected

NoCollecting == [h \in Handle |-> [options \in Seq(Option) |-> options]]
OneCollecting(c) ==
    [h \in Handle |-> [options \in Seq(Option) |->
       CollectedUpTo(c, kids[h], options)[Len(kids[h])]]]

\* The options below a node, one level more.
LEMMA CollectSteps ==
  /\ CollectOptions[0] = NoCollecting
         /\ \A n \in 1 .. Levels : CollectOptions[n] = OneCollecting(CollectOptions[n - 1])
<1> DEFINE last == Levels
           begin == NoCollecting
           Step(n, x) == OneCollecting(x)
           Body(k, f) == [n \in 0 .. k |-> IF n = 0 THEN begin ELSE Step(n, f[n - 1])]
           S == {k \in 0 .. last : \E f : f = Body(k, f)}
           loop == CollectOptions
<1>1. loop = CHOOSE f : f = Body(last, f)
  BY DEF CollectOptions, NoCollecting, OneCollecting
<1>2. last \in Nat
  BY LimitsAssumption DEF Levels
<1> HIDE DEF last, begin, Step, loop
<1>3. 0 \in S
  <2> DEFINE f == [n \in 0 .. 0 |-> begin]
  <2>1. f = Body(0, f)
    OBVIOUS
  <2> HIDE DEF f
  <2> QED
    BY <1>2, <2>1
<1>4. ASSUME NEW k \in 1 .. last, k - 1 \in S PROVE k \in S
  <2>1. k \in 0 .. last /\ k - 1 \in 0 .. last
    BY <1>2
  <2>2. PICK f : f = Body(k - 1, f)
    BY <1>4
  <2>3. \A n \in 0 .. k - 1 : f[n] = IF n = 0 THEN begin ELSE Step(n, f[n - 1])
    BY <2>2
  <2> DEFINE g == [n \in 0 .. k |-> IF n = k THEN Step(k, f[k - 1]) ELSE f[n]]
  <2>4. ASSUME NEW n \in 0 .. k PROVE g[n] = IF n = 0 THEN begin ELSE Step(n, g[n - 1])
    <3>1. CASE n = k
      <4>1. k # 0 /\ k - 1 \in 0 .. k /\ k - 1 # k
        BY <1>2
      <4> QED
        BY <3>1, <4>1
    <3>2. CASE n # k
      <4>1. n \in 0 .. k - 1 /\ g[n] = f[n]
        BY <3>2
      <4>2. CASE n = 0
        BY <2>3, <4>1, <4>2
      <4>3. CASE n # 0
        <5>1. n - 1 \in 0 .. k /\ n - 1 # k
          BY <4>1, <4>3
        <5> QED
          BY <2>3, <4>1, <4>3, <5>1
      <4> QED
        BY <4>2, <4>3
    <3> QED
      BY <3>1, <3>2
  <2>5. g = [n \in 0 .. k |-> g[n]]
    OBVIOUS
  <2> HIDE DEF g
  <2>6. g = Body(k, g)
    BY <2>4, <2>5
  <2> QED
    BY <2>1, <2>6
<1> HIDE DEF S
<1>5. last \in S
  BY <1>2, <1>3, <1>4, Induction
<1>6. loop = Body(last, loop)
  BY <1>1, <1>5 DEF S
<1>7. loop[0] = begin /\ \A n \in 1 .. last : loop[n] = Step(n, loop[n - 1])
  BY <1>2, <1>6
<1> QED
  BY <1>7, Zenon DEF loop, last, begin, Step

LEMMA CollectOptionsOK ==
  ASSUME Arena
  PROVE  \A n \in 0 .. Levels : Collector(CollectOptions[n])
<1> DEFINE S == {n \in 0 .. Levels : Collector(CollectOptions[n])}
<1>1. Levels \in Nat
  BY LimitsAssumption DEF Levels
<1>2. 0 \in S
  <2>1. Collector(NoCollecting)
    BY DEF Collector, NoCollecting
  <2> QED
    BY <1>1, <2>1, CollectSteps
<1>3. ASSUME NEW n \in 1 .. Levels, n - 1 \in S PROVE n \in S
  <2> DEFINE c == CollectOptions[n - 1]
  <2>1. Collector(c) /\ n \in 0 .. Levels
    BY <1>1, <1>3
  <2>2. CollectOptions[n] = OneCollecting(c)
    BY CollectSteps
  <2> HIDE DEF c
  <2>3. Collector(OneCollecting(c))
    <3> SUFFICES ASSUME NEW h \in Handle, NEW o \in Seq(Option), FewOptions(o)
                 PROVE  FewOptions(OneCollecting(c)[h][o])
      BY DEF Collector
    <3>1. OneCollecting(c)[h][o] = CollectedUpTo(c, kids[h], o)[Len(kids[h])]
      BY DEF OneCollecting
    <3>2. kids[h] \in Seq(Handle)
      BY DEF Arena
    <3> QED
      BY <2>1, <3>1, <3>2, CollectedOK
  <2> QED
    BY <2>1, <2>2, <2>3
<1> HIDE DEF S
<1>4. 0 .. Levels \subseteq S
  BY <1>1, <1>2, <1>3, Induction
<1> QED
  BY <1>4 DEF S

\* One option at most stays selected.
LEMMA KeepLastSelectedOK ==
  ASSUME NEW o, FewOptions(o)
  PROVE  LET kept == KeepLastSelected(o)
         IN  /\ Len(kept) \in Nat /\ Len(kept) <= MaxSelectOptions
             /\ \A i, j \in 1 .. Len(kept) : kept[i].selected /\ kept[j].selected => i = j
<1> DEFINE chosen == {i \in DOMAIN o : o[i].selected} \cup {0}
           last == Max(chosen)
           kept == [i \in DOMAIN o |-> [o[i] EXCEPT !.selected = (i = last)]]
<1>1. o \in Seq(Option) /\ Len(o) \in Nat /\ DOMAIN o = 1 .. Len(o) /\ Len(o) <= MaxSelectOptions
  BY DEF FewOptions
<1>2. \A i \in 1 .. Len(o) : o[i] \in Option
  BY <1>1
<1>3. last \in chosen /\ \A i \in chosen : i <= last
  <2>1. chosen \in SUBSET (0 .. Len(o)) /\ chosen # {}
    BY <1>1
  <2> HIDE DEF chosen
  <2> QED
    BY <1>1, <2>1, GreatestNumber
<1>4. KeepLastSelected(o) = IF last = 0 THEN o ELSE kept
  BY DEF KeepLastSelected
<1> HIDE DEF last
<1>5. CASE last = 0
  <2>1. \A i \in 1 .. Len(o) : ~o[i].selected
    BY <1>1, <1>3, <1>5
  <2> QED
    BY <1>1, <1>4, <1>5, <2>1
<1>6. CASE last # 0
  <2>1. \A i \in 1 .. Len(o) : kept[i] = [of |-> o[i].of, selected |-> (i = last)]
    BY <1>1, <1>2 DEF Option
  <2>2. kept \in [1 .. Len(o) -> Option]
    <3> SUFFICES ASSUME NEW i \in 1 .. Len(o) PROVE [o[i] EXCEPT !.selected = (i = last)] \in Option
      BY <1>1
    <3> QED
      BY <1>2 DEF Option
  <2>3. DOMAIN kept = 1 .. Len(o)
    BY <1>1
  <2> HIDE DEF kept
  <2>4. kept \in Seq(Option) /\ Len(kept) = Len(o)
    BY <1>1, <2>2, <2>3
  <2>5. \A i \in 1 .. Len(o) : kept[i].selected => i = last
    <3> SUFFICES ASSUME NEW i \in 1 .. Len(o) PROVE kept[i].selected => i = last
      OBVIOUS
    <3> DEFINE same == i = last
    <3>1. kept[i] = [of |-> o[i].of, selected |-> same]
      BY <2>1
    <3> HIDE DEF same
    <3>2. kept[i].selected = same
      BY <3>1
    <3> QED
      BY <3>2 DEF same
  <2>6. \A i, j \in 1 .. Len(o) : kept[i].selected /\ kept[j].selected => i = j
    BY <2>5
  <2> QED
    BY <1>1, <1>4, <1>6, <2>4, <2>6
<1> QED
  BY <1>5, <1>6

LEMMA OptionsOK ==
  ASSUME Arena, NEW h \in Handle
  PROVE  /\ Len(Options(h)) <= MaxSelectOptions
         /\ \A i, j \in 1 .. Len(Options(h)) :
               Options(h)[i].selected /\ Options(h)[j].selected => i = j
<1>1. CASE name[h] = "select"
  <2> DEFINE o == CollectOptions[Levels][h][<<>>]
  <2>1. Levels \in 0 .. Levels
    BY LimitsAssumption DEF Levels
  <2>2. <<>> \in Seq(Option) /\ FewOptions(<<>>)
    BY TableLimitsAssumption DEF FewOptions
  <2>3. FewOptions(o)
    BY <2>1, <2>2, CollectOptionsOK DEF Collector
  <2>4. Options(h) = KeepLastSelected(o)
    BY <1>1 DEF Options
  <2> HIDE DEF o
  <2> QED
    BY <2>3, <2>4, KeepLastSelectedOK
<1>2. CASE name[h] # "select"
  <2>1. Options(h) = <<>> /\ Len(<<>>) = 0
    BY <1>2 DEF Options
  <2>2. Len(Options(h)) = 0
    BY <2>1
  <2> QED
    BY <2>2, TableLimitsAssumption
<1> QED
  BY <1>1, <1>2

-----------------------------------------------------------------------------
(* Numbered nodes.                                                         *)

LEMMA PushControlGrows ==
  ASSUME Arena, NEW h \in Handle, NEW e \in Extractor, name[h] \in Control
  PROVE  Grows(PushControl(h, e), e)
<1> DEFINE n == [Node(name[h], h) EXCEPT !.id = e.next, !.options = Options(h)]
           d == Allocate(e)
<1>1. d \in Extractor /\ d.next = e.next + 1 /\ e.next \in Nat
  BY ExtractorFacts
<1>2. Describes(n, name[h], <<h>>, <<>>, <<>>, e.next, Options(h))
  BY NodeFields, EditFields
<1>3. PushControl(h, e) = Yield(<<n>>, d)
  BY DEF PushControl
<1> HIDE DEF n, d
<1>4. name[h] \notin ReadsAlso \cup {"table"}
  BY DEF ReadsAlso, TextBlock, Heading, Control
<1>5. Reads(n)
  BY <1>2, <1>4, OtherKinds
<1>6. WithinLimits(n)
  <2>1. n.kind # "table" /\ n.options = Options(h)
    BY <1>2, <1>4 DEF Describes
  <2> QED
    BY <2>1, OptionsOK DEF WithinLimits
<1>7. Forest(<<>>, d.next, d.next)
  BY EmptyForest
<1>8. d.next \in Nat /\ e.next <= d.next /\ d.next <= d.next /\ e.next < d.next
  BY <1>1
<1> QED
  BY <1>1, <1>2, <1>3, <1>5, <1>6, <1>7, <1>8, NodeGrows

LEMMA PushButtonGrows ==
  ASSUME Arena, NEW h \in Handle, NEW e \in Extractor
  PROVE  Grows(PushButton(h, e), e)
<1> DEFINE d == Allocate(e)
           r == Gather(<<h>>, d)
           runs == CollapseSegments(r.made)
           n == [Node("button", h) EXCEPT !.id = e.next, !.runs = runs]
<1>1. d \in Extractor /\ d.next = e.next + 1 /\ e.next \in Nat
  BY ExtractorFacts
<1>2. Describes(n, "button", <<h>>, runs, <<>>, e.next, <<>>)
  BY NodeFields, EditFields
<1>3. PushButton(h, e) = Yield(<<n>>, r.self)
  BY DEF PushButton
<1>4. /\ r.self \in Extractor /\ r.self.next = d.next
      /\ RunsText(runs) = CollapsedText(Joined(RawText[Levels], <<h>>))
  <2>1. <<h>> \in Seq(Handle)
    OBVIOUS
  <2> HIDE DEF d
  <2> QED
    BY <1>1, <2>1, GatheredRead
<1> HIDE DEF d, r, runs, n
<1>5. Reads(n)
  BY <1>2, <1>4 DEF Reads, ReadsAsItsSource, Source, Describes
<1>6. WithinLimits(n)
  BY <1>2, OtherKinds
<1>7. Forest(<<>>, d.next, r.self.next)
  BY EmptyForest
<1>8. d.next \in Nat /\ e.next <= d.next /\ d.next <= r.self.next /\ e.next < d.next
  BY <1>1, <1>4
<1> QED
  BY <1>1, <1>2, <1>3, <1>4, <1>5, <1>6, <1>7, <1>8, NodeGrows

\* A node around what was made, numbered before it if at all.
LEMMA EncloseGrows ==
  ASSUME NEW e \in Extractor, NEW d \in Extractor, e.next <= d.next, NEW r, Grows(r, d),
         NEW n, NEW kind, NEW of, NEW id,
         Describes(n, kind, of, <<>>, <<>>, id, <<>>),
         kind \notin ReadsAlso \cup {"table"},
         id = None \/ (id \in Nat /\ e.next <= id /\ id < d.next)
  PROVE  Grows(Enclose(r, n), e)
<1>1. CASE r.made = <<>>
  BY <1>1, GrowsFrom DEF Enclose
<1>2. CASE r.made # <<>>
  <2> DEFINE full == [n EXCEPT !.kids = r.made]
  <2>1. Enclose(r, n) = Yield(<<full>>, r.self)
    BY <1>2 DEF Enclose
  <2>2. Describes(full, kind, of, <<>>, r.made, id, <<>>)
    BY EditFields
  <2> HIDE DEF full
  <2>3. r.self \in Extractor /\ d.next \in Nat /\ d.next <= r.self.next
        /\ Forest(r.made, d.next, r.self.next)
    BY DEF Grows, Extractor
  <2> QED
    BY <2>1, <2>2, <2>3, PlainNodeGrows
<1> QED
  BY <1>1, <1>2

-----------------------------------------------------------------------------
(* The children of a block.                                                *)

Begun(e) == WithInline(Nothing(e), <<>>)

\* The children of a block, one after the other.
LEMMA ChildrenSteps ==
  ASSUME NEW walk, NEW hs, Len(hs) \in Nat, NEW e
  PROVE  /\ ChildrenUpTo(walk, hs, e)[0] = Begun(e)
         /\ \A n \in 1 .. Len(hs) : ChildrenUpTo(walk, hs, e)[n] = BlockChild(walk, ChildrenUpTo(walk, hs, e)[n - 1], hs[n])
<1> DEFINE last == Len(hs)
           begin == Begun(e)
           Step(n, x) == BlockChild(walk, x, hs[n])
           Body(k, f) == [n \in 0 .. k |-> IF n = 0 THEN begin ELSE Step(n, f[n - 1])]
           S == {k \in 0 .. last : \E f : f = Body(k, f)}
           loop == ChildrenUpTo(walk, hs, e)
<1>1. loop = CHOOSE f : f = Body(last, f)
  BY DEF ChildrenUpTo, Begun
<1>2. last \in Nat
  OBVIOUS
<1> HIDE DEF last, begin, Step, loop
<1>3. 0 \in S
  <2> DEFINE f == [n \in 0 .. 0 |-> begin]
  <2>1. f = Body(0, f)
    OBVIOUS
  <2> HIDE DEF f
  <2> QED
    BY <1>2, <2>1
<1>4. ASSUME NEW k \in 1 .. last, k - 1 \in S PROVE k \in S
  <2>1. k \in 0 .. last /\ k - 1 \in 0 .. last
    BY <1>2
  <2>2. PICK f : f = Body(k - 1, f)
    BY <1>4
  <2>3. \A n \in 0 .. k - 1 : f[n] = IF n = 0 THEN begin ELSE Step(n, f[n - 1])
    BY <2>2
  <2> DEFINE g == [n \in 0 .. k |-> IF n = k THEN Step(k, f[k - 1]) ELSE f[n]]
  <2>4. ASSUME NEW n \in 0 .. k PROVE g[n] = IF n = 0 THEN begin ELSE Step(n, g[n - 1])
    <3>1. CASE n = k
      <4>1. k # 0 /\ k - 1 \in 0 .. k /\ k - 1 # k
        BY <1>2
      <4> QED
        BY <3>1, <4>1
    <3>2. CASE n # k
      <4>1. n \in 0 .. k - 1 /\ g[n] = f[n]
        BY <3>2
      <4>2. CASE n = 0
        BY <2>3, <4>1, <4>2
      <4>3. CASE n # 0
        <5>1. n - 1 \in 0 .. k /\ n - 1 # k
          BY <4>1, <4>3
        <5> QED
          BY <2>3, <4>1, <4>3, <5>1
      <4> QED
        BY <4>2, <4>3
    <3> QED
      BY <3>1, <3>2
  <2>5. g = [n \in 0 .. k |-> g[n]]
    OBVIOUS
  <2> HIDE DEF g
  <2>6. g = Body(k, g)
    BY <2>4, <2>5
  <2> QED
    BY <2>1, <2>6
<1> HIDE DEF S
<1>5. last \in S
  BY <1>2, <1>3, <1>4, Induction
<1>6. loop = Body(last, loop)
  BY <1>1, <1>5 DEF S
<1>7. loop[0] = begin /\ \A n \in 1 .. last : loop[n] = Step(n, loop[n - 1])
  BY <1>2, <1>6
<1> QED
  BY <1>7, Zenon DEF loop, last, begin, Step

Pushed(r, e) ==
    /\ Grows(r, e) /\ r.inline \in Seq(Handle)
    /\ r = [made |-> r.made, self |-> r.self, inline |-> r.inline]

LEMMA FlushGrows ==
  ASSUME Arena, NEW e \in Extractor, NEW r, Pushed(r, e)
  PROVE  Grows(Flush(r), e)
<1>1. Grows(r, e) /\ r.inline \in Seq(Handle) /\ r.self \in Extractor
  BY DEF Pushed, Grows
<1>2. Grows(FlushInlineParagraph(r.inline, r.self), r.self)
  BY <1>1, FlushInlineParagraphGrows
<1> QED
  BY <1>1, <1>2, ContinueGrows DEF Flush

LEMMA BlockChildOK ==
  ASSUME Arena, NEW walk, Walker(walk), NEW e \in Extractor, NEW r, Pushed(r, e), NEW k \in Handle
  PROVE  Pushed(BlockChild(walk, r, k), e)
<1>1. CASE BlockLevel[Levels][k]
  <2> DEFINE f == Flush(r)
             q == walk[k][f.self]
             none == <<>>
  <2>1. Grows(f, e)
    BY FlushGrows
  <2>2. Grows(q, f.self)
    BY <2>1 DEF Walker, Grows
  <2>3. BlockChild(walk, r, k) = WithInline(Continue(f, q), none)
    BY <1>1 DEF BlockChild, Proceed
  <2>4. none \in Seq(Handle)
    OBVIOUS
  <2> HIDE DEF f, q, none
  <2>5. Grows(Continue(f, q), e)
    BY <2>1, <2>2, ContinueGrows
  <2> QED
    BY <2>3, <2>4, <2>5 DEF Pushed, WithInline, Grows
<1>2. CASE ~BlockLevel[Levels][k]
  <2> DEFINE more == Append(r.inline, k)
  <2>1. more \in Seq(Handle)
    BY DEF Pushed
  <2>2. BlockChild(walk, r, k) = [made |-> r.made, self |-> r.self, inline |-> more]
    BY <1>2 DEF BlockChild, Pushed
  <2> HIDE DEF more
  <2> QED
    BY <2>1, <2>2 DEF Pushed, Grows
<1> QED
  BY <1>1, <1>2

LEMMA BlockChildrenGrows ==
  ASSUME Arena, NEW walk, Walker(walk), NEW h \in Handle, NEW e \in Extractor
  PROVE  Grows(BlockChildren(walk, h, e), e)
<1> DEFINE hs == kids[h]
           N == Len(hs)
           pushed == ChildrenUpTo(walk, hs, e)
           S == {n \in 0 .. N : Pushed(pushed[n], e)}
<1>1. hs \in Seq(Handle)
  BY DEF Arena
<1>2. BlockChildren(walk, h, e) = Flush(pushed[N])
  BY DEF BlockChildren
<1> HIDE DEF hs
<1>3. N \in Nat /\ \A n \in 1 .. N : hs[n] \in Handle
  BY <1>1
<1>4. pushed[0] = Begun(e) /\ \A n \in 1 .. N : pushed[n] = BlockChild(walk, pushed[n - 1], hs[n])
  <2>1. Len(hs) \in Nat
    BY <1>1
  <2>2. /\ ChildrenUpTo(walk, hs, e)[0] = Begun(e)
        /\ \A n \in 1 .. Len(hs) :
              ChildrenUpTo(walk, hs, e)[n] = BlockChild(walk, ChildrenUpTo(walk, hs, e)[n - 1], hs[n])
    <3> HIDE DEF N, pushed, S
    <3> QED
      BY <2>1, ChildrenSteps
  <2> QED
    BY <2>2, Zenon DEF N, pushed
<1> HIDE DEF N, pushed
<1>5. 0 \in S
  <2> DEFINE none == <<>>
  <2>1. none \in Seq(Handle)
    OBVIOUS
  <2>2. Begun(e) = WithInline(Nothing(e), none)
    BY DEF Begun
  <2> HIDE DEF none
  <2>3. e.next \in Nat
    BY DEF Extractor
  <2>4. Grows(Nothing(e), e)
    BY <2>3, NothingGrows
  <2>5. Pushed(Begun(e), e)
    BY <2>1, <2>2, <2>4 DEF Pushed, WithInline, Grows
  <2> QED
    BY <1>3, <1>4, <2>5
<1>6. ASSUME NEW n \in 1 .. N, n - 1 \in S PROVE n \in S
  <2>1. Pushed(pushed[n - 1], e)
    BY <1>6
  <2>2. Pushed(pushed[n], e)
    BY <1>3, <1>4, <2>1, BlockChildOK
  <2>3. n \in 0 .. N
    BY <1>3
  <2> QED
    BY <2>2, <2>3
<1> HIDE DEF S
<1>7. 0 .. N \subseteq S
  BY <1>3, <1>5, <1>6, Induction
<1>8. Pushed(pushed[N], e)
  BY <1>3, <1>7 DEF S
<1> QED
  BY <1>2, <1>8, FlushGrows

-----------------------------------------------------------------------------
(* Lists and tables.                                                       *)

Walkers(w) == Walker(w.node) /\ Walker(w.rows)

\* A block element that holds what its children become.
LEMMA ContainerGrows ==
  ASSUME Arena, NEW walk, Walker(walk), NEW h \in Handle, NEW e \in Extractor, NEW kind,
         kind \notin ReadsAlso \cup {"table"}
  PROVE  Grows(Enclose(BlockChildren(walk, h, e), Node(kind, h)), e)
<1>1. Grows(BlockChildren(walk, h, e), e)
  BY BlockChildrenGrows
<1>2. Describes(Node(kind, h), kind, <<h>>, <<>>, <<>>, None, <<>>)
  BY NodeFields
<1>3. e.next \in Nat /\ e.next <= e.next
  BY DEF Extractor
<1> QED
  BY <1>1, <1>2, <1>3, EncloseGrows

LEMMA ListItemsWalk ==
  ASSUME Arena, NEW w, Walkers(w)
  PROVE  Walker(ListItems(w))
<1> SUFFICES ASSUME NEW k \in Handle, NEW e \in Extractor PROVE Grows(ListItems(w)[k][e], e)
  BY DEF Walker
<1>1. ListItems(w)[k][e] = PushListItem(w, k, e)
  BY DEF ListItems
<1>2. e.next \in Nat /\ e.next <= e.next
  BY DEF Extractor
<1>3. Grows(Nothing(e), e)
  BY <1>2, NothingGrows
<1>4. Grows(Enclose(BlockChildren(w.node, k, e), Node("li", k)), e)
  <2>1. "li" \notin ReadsAlso \cup {"table"}
    BY DEF ReadsAlso, TextBlock, Heading
  <2> QED
    BY <2>1, ContainerGrows DEF Walkers
<1> QED
  BY <1>1, <1>3, <1>4 DEF PushListItem

LEMMA ListGrows ==
  ASSUME Arena, NEW w, Walkers(w), NEW h \in Handle, NEW e \in Extractor, name[h] \in Lists
  PROVE  Grows(Enclose(InTurn(ListItems(w), kids[h], e), Node(name[h], h)), e)
<1>1. kids[h] \in Seq(Handle)
  BY DEF Arena
<1>2. Grows(InTurn(ListItems(w), kids[h], e), e)
  BY <1>1, ListItemsWalk, InTurnGrows
<1>3. Describes(Node(name[h], h), name[h], <<h>>, <<>>, <<>>, None, <<>>)
  BY NodeFields
<1>4. name[h] \notin ReadsAlso \cup {"table"}
  BY DEF ReadsAlso, TextBlock, Heading, Lists
<1>5. e.next \in Nat /\ e.next <= e.next
  BY DEF Extractor
<1> QED
  BY <1>2, <1>3, <1>4, <1>5, EncloseGrows

LEMMA PushCellGrows ==
  ASSUME Arena, NEW w, Walkers(w), NEW k \in Handle, NEW e \in Extractor
  PROVE  Grows(PushCell(w, k, e), e)
<1>1. CASE name[k] \in CellName
  <2> DEFINE m == Mark(k, e)
             r == Continue(m, BlockChildren(w.node, k, m.self))
             n == [Node(name[k], k) EXCEPT !.kids = r.made]
  <2>1. Grows(m, e)
    BY MarkGrows
  <2>2. Grows(BlockChildren(w.node, k, m.self), m.self)
    BY <2>1, BlockChildrenGrows DEF Grows, Walkers
  <2>3. Grows(r, e)
    BY <2>1, <2>2, ContinueGrows
  <2>4. PushCell(w, k, e) = Yield(<<n>>, r.self)
    BY <1>1 DEF PushCell
  <2>5. Describes(n, name[k], <<k>>, <<>>, r.made, None, <<>>)
    BY NodeFields, EditFields
  <2> HIDE DEF m, r, n
  <2>6. name[k] \notin ReadsAlso \cup {"table"}
    BY <1>1 DEF CellName, ReadsAlso, TextBlock, Heading
  <2>7. r.self \in Extractor /\ e.next \in Nat /\ e.next <= e.next /\ e.next <= r.self.next
        /\ Forest(r.made, e.next, r.self.next)
    BY <2>3 DEF Grows, Extractor
  <2> QED
    BY <2>4, <2>5, <2>6, <2>7, PlainNodeGrows
<1>2. CASE name[k] \notin CellName
  <2>1. PushCell(w, k, e) = Nothing(e)
    BY <1>2 DEF PushCell
  <2>2. e.next \in Nat /\ e.next <= e.next
    BY DEF Extractor
  <2> QED
    BY <2>1, <2>2, NothingGrows
<1> QED
  BY <1>1, <1>2

LEMMA PushRowGrows ==
  ASSUME Arena, NEW w, Walkers(w), NEW k \in Handle, NEW e \in Extractor
  PROVE  Grows(PushRow(w, k, e), e)
<1>1. kids[k] \in Seq(Handle) /\ e.next \in Nat /\ e.next <= e.next
  BY DEF Arena, Extractor
<1>2. Walker(RowCells(w))
  BY PushCellGrows DEF Walker, RowCells
<1>3. Grows(InTurn(RowCells(w), kids[k], e), e)
  BY <1>1, <1>2, InTurnGrows
<1>4. Describes(Node("tr", k), "tr", <<k>>, <<>>, <<>>, None, <<>>)
  BY NodeFields
<1>5. "tr" \notin ReadsAlso \cup {"table"}
  BY DEF ReadsAlso, TextBlock, Heading
<1>6. Grows(Enclose(InTurn(RowCells(w), kids[k], e), Node("tr", k)), e)
  BY <1>1, <1>3, <1>4, <1>5, EncloseGrows
<1>7. Grows(w.rows[k][e], e)
  BY DEF Walkers, Walker
<1>8. Grows(Nothing(e), e)
  BY <1>1, NothingGrows
<1>9. PushRow(w, k, e) \in {Enclose(InTurn(RowCells(w), kids[k], e), Node("tr", k)),
                            w.rows[k][e], Nothing(e)}
  BY DEF PushRow
<1> QED
  BY <1>6, <1>7, <1>8, <1>9

LEMMA CollectRowsGrows ==
  ASSUME Arena, NEW w, Walkers(w), NEW h \in Handle, NEW e \in Extractor
  PROVE  Grows(CollectRows(w, h, e), e)
<1> DEFINE walk == [k \in Handle |-> [e2 \in Extractor |-> PushRow(w, k, e2)]]
<1>1. Walker(walk)
  BY PushRowGrows DEF Walker
<1>2. kids[h] \in Seq(Handle)
  BY DEF Arena
<1>3. CollectRows(w, h, e) = InTurn(walk, kids[h], e)
  BY DEF CollectRows
<1> HIDE DEF walk
<1> QED
  BY <1>1, <1>2, <1>3, InTurnGrows

\* A table cut down to its limits, and a warning.
LEMMA TableForest ==
  ASSUME NEW h \in Handle, NEW s, NEW a \in Nat, NEW b \in Nat, a <= b, Forest(s, a, b)
  PROVE  Forest(TableNodes(h, s), a, b)
<1> DEFINE few == AtMost(MaxTableRows, s)
           kept == TruncateTable(s)
           n == [Node("table", h) EXCEPT !.kids = kept]
           table == <<n>>
           warned == IF kept = s THEN <<>> ELSE <<Node("warning", h)>>
<1>1. MaxTableRows \in Nat /\ MaxTableColumns \in Nat
  BY TableLimitsAssumption
<1>2. Forest(few, a, b) /\ Len(few) <= MaxTableRows
  BY <1>1, CutForest, AtMostFacts DEF Forest
<1>3. kept = Narrowed(MaxTableColumns, few)
  BY DEF TruncateTable
<1>4. TableNodes(h, s) = IF kept = <<>> THEN <<>> ELSE table \o warned
  BY DEF TableNodes
<1> HIDE DEF few, kept
<1>5. /\ Forest(kept, a, b) /\ Len(kept) = Len(few)
      /\ \A i \in 1 .. Len(kept) : Len(kept[i].kids) <= MaxTableColumns
  <2> DEFINE cut == Narrowed(MaxTableColumns, few)
  <2>1. MaxTableColumns \in Nat /\ Forest(few, a, b)
    BY <1>1, <1>2
  <2>2. /\ Forest(cut, a, b) /\ Len(cut) = Len(few)
        /\ \A i \in 1 .. Len(cut) : Len(cut[i].kids) <= MaxTableColumns
    BY <2>1, CutRows
  <2>3. kept = cut
    BY <1>3
  <2> HIDE DEF cut
  <2> QED
    BY <2>2, <2>3
<1>6. Describes(n, "table", <<h>>, <<>>, kept, None, <<>>)
  BY NodeFields, EditFields
<1> HIDE DEF n
<1>7. "table" \notin ReadsAlso /\ "warning" \notin ReadsAlso \cup {"table"}
  BY DEF ReadsAlso, TextBlock, Heading
<1>8. Reads(n)
  BY <1>6, <1>7, OtherKinds
<1>9. WithinLimits(n)
  <2>1. n.kids = kept /\ n.options = <<>> /\ Len(<<>>) = 0
    BY <1>6 DEF Describes
  <2>2. Len(n.options) = 0
    BY <2>1
  <2> QED
    BY <1>2, <1>5, <2>1, <2>2, TableLimitsAssumption DEF WithinLimits
<1>10. Forest(table, a, b)
  <2>1. a <= a /\ IsNode(n) /\ n.id = None /\ Forest(n.kids, a, b)
    BY <1>5, <1>6 DEF Describes
  <2> QED
    BY <1>8, <1>9, <2>1, OneForest
<1>11. Forest(warned, b, b)
  <2> DEFINE warning == Node("warning", h)
             none == <<>>
  <2>1. Describes(warning, "warning", <<h>>, <<>>, none, None, <<>>)
    BY NodeFields
  <2>2. Forest(none, b, b)
    BY EmptyForest
  <2>3. warned \in {none, <<warning>>}
    OBVIOUS
  <2> HIDE DEF warning, none, warned
  <2>4. Reads(warning) /\ WithinLimits(warning)
    BY <1>7, <2>1, OtherKinds
  <2>5. b <= b /\ IsNode(warning) /\ warning.id = None /\ warning.kids = none
    BY <2>1 DEF Describes
  <2>6. Forest(<<warning>>, b, b)
    BY <2>2, <2>4, <2>5, OneForest
  <2> QED
    BY <2>2, <2>3, <2>6
<1> HIDE DEF table, warned
<1>12. b <= b
  OBVIOUS
<1>13. Forest(table \o warned, a, b)
  BY <1>10, <1>11, <1>12, ConcatForest
<1>14. Forest(<<>>, a, b)
  BY EmptyForest
<1> QED
  BY <1>4, <1>13, <1>14

LEMMA PushTableGrows ==
  ASSUME Arena, NEW w, Walkers(w), NEW h \in Handle, NEW e \in Extractor
  PROVE  Grows(PushTable(w, h, e), e)
<1> DEFINE r == CollectRows(w, h, e)
<1>1. Grows(r, e)
  BY CollectRowsGrows
<1>2. PushTable(w, h, e) = Yield(TableNodes(h, r.made), r.self)
  BY DEF PushTable
<1> HIDE DEF r
<1>3. e.next \in Nat /\ r.self.next \in Nat
  BY <1>1 DEF Grows, Extractor
<1>4. Forest(TableNodes(h, r.made), e.next, r.self.next)
  BY <1>1, <1>3, TableForest DEF Grows
<1> QED
  BY <1>1, <1>2, <1>4 DEF Grows, Yield

-----------------------------------------------------------------------------
(* Figures.                                                                *)

IsCaption(k) == name[k] = "figcaption"
Uncaptioned(e) == Captioned(Nothing(e), <<>>)

\* The children of a figure, one after the other.
LEMMA FigureSteps ==
  ASSUME NEW walk, NEW hs, Len(hs) \in Nat, NEW e
  PROVE  /\ FigureUpTo(walk, hs, e)[0] = Uncaptioned(e)
         /\ \A n \in 1 .. Len(hs) : FigureUpTo(walk, hs, e)[n] = FigureChild(walk, FigureUpTo(walk, hs, e)[n - 1], hs[n])
<1> DEFINE last == Len(hs)
           begin == Uncaptioned(e)
           Step(n, x) == FigureChild(walk, x, hs[n])
           Body(k, f) == [n \in 0 .. k |-> IF n = 0 THEN begin ELSE Step(n, f[n - 1])]
           S == {k \in 0 .. last : \E f : f = Body(k, f)}
           loop == FigureUpTo(walk, hs, e)
<1>1. loop = CHOOSE f : f = Body(last, f)
  BY DEF FigureUpTo, Uncaptioned
<1>2. last \in Nat
  OBVIOUS
<1> HIDE DEF last, begin, Step, loop
<1>3. 0 \in S
  <2> DEFINE f == [n \in 0 .. 0 |-> begin]
  <2>1. f = Body(0, f)
    OBVIOUS
  <2> HIDE DEF f
  <2> QED
    BY <1>2, <2>1
<1>4. ASSUME NEW k \in 1 .. last, k - 1 \in S PROVE k \in S
  <2>1. k \in 0 .. last /\ k - 1 \in 0 .. last
    BY <1>2
  <2>2. PICK f : f = Body(k - 1, f)
    BY <1>4
  <2>3. \A n \in 0 .. k - 1 : f[n] = IF n = 0 THEN begin ELSE Step(n, f[n - 1])
    BY <2>2
  <2> DEFINE g == [n \in 0 .. k |-> IF n = k THEN Step(k, f[k - 1]) ELSE f[n]]
  <2>4. ASSUME NEW n \in 0 .. k PROVE g[n] = IF n = 0 THEN begin ELSE Step(n, g[n - 1])
    <3>1. CASE n = k
      <4>1. k # 0 /\ k - 1 \in 0 .. k /\ k - 1 # k
        BY <1>2
      <4> QED
        BY <3>1, <4>1
    <3>2. CASE n # k
      <4>1. n \in 0 .. k - 1 /\ g[n] = f[n]
        BY <3>2
      <4>2. CASE n = 0
        BY <2>3, <4>1, <4>2
      <4>3. CASE n # 0
        <5>1. n - 1 \in 0 .. k /\ n - 1 # k
          BY <4>1, <4>3
        <5> QED
          BY <2>3, <4>1, <4>3, <5>1
      <4> QED
        BY <4>2, <4>3
    <3> QED
      BY <3>1, <3>2
  <2>5. g = [n \in 0 .. k |-> g[n]]
    OBVIOUS
  <2> HIDE DEF g
  <2>6. g = Body(k, g)
    BY <2>4, <2>5
  <2> QED
    BY <2>1, <2>6
<1> HIDE DEF S
<1>5. last \in S
  BY <1>2, <1>3, <1>4, Induction
<1>6. loop = Body(last, loop)
  BY <1>1, <1>5 DEF S
<1>7. loop[0] = begin /\ \A n \in 1 .. last : loop[n] = Step(n, loop[n - 1])
  BY <1>2, <1>6
<1> QED
  BY <1>7, Zenon DEF loop, last, begin, Step

\* The caption so far is that of the last figcaption so far.
Lifted(r, hs, n) ==
    \/ r.caption = <<>> /\ \A i \in 1 .. n : ~IsCaption(hs[i])
    \/ \E i \in 1 .. n :
          /\ IsCaption(hs[i]) /\ \A j \in i + 1 .. n : ~IsCaption(hs[j])
          /\ RunsText(r.caption) = CollapsedText(Joined(RawText[Levels], <<hs[i]>>))

LEMMA FigureChildOK ==
  ASSUME Arena, NEW walk, Walker(walk), NEW hs \in Seq(Handle), NEW e \in Extractor,
         NEW n \in 1 .. Len(hs), NEW r, Grows(r, e), Lifted(r, hs, n - 1)
  PROVE  LET q == FigureChild(walk, r, hs[n]) IN Grows(q, e) /\ Lifted(q, hs, n)
<1> DEFINE k == hs[n]
           q == FigureChild(walk, r, k)
<1>1. k \in Handle /\ n \in Nat /\ n - 1 + 1 = n /\ r.self \in Extractor
  BY DEF Grows
<1>2. CASE IsCaption(k)
  <2> DEFINE g == Gather(<<k>>, r.self)
             runs == CollapseSegments(g.made)
  <2>1. <<k>> \in Seq(Handle)
    BY <1>1
  <2>2. /\ g.self \in Extractor /\ g.self.next = r.self.next
        /\ RunsText(runs) = CollapsedText(Joined(RawText[Levels], <<k>>))
    BY <1>1, <2>1, GatheredRead
  <2>3. q = [made |-> r.made, self |-> g.self, caption |-> runs]
    BY <1>2 DEF IsCaption, FigureChild, Captioned, Yield
  <2> HIDE DEF g, runs, q
  <2>4. Grows(q, e)
    BY <2>2, <2>3 DEF Grows
  <2>5. Lifted(q, hs, n)
    <3>1. n \in 1 .. n /\ \A j \in n + 1 .. n : ~IsCaption(hs[j])
      BY <1>1
    <3>2. q.caption = runs
      BY <2>3
    <3>3. RunsText(q.caption) = CollapsedText(Joined(RawText[Levels], <<hs[n]>>)) /\ IsCaption(hs[n])
      BY <1>2, <2>2, <3>2
    <3> HIDE DEF k
    <3> QED
      BY <3>1, <3>3 DEF Lifted
  <2> QED
    BY <2>4, <2>5 DEF q
<1>3. CASE ~IsCaption(k)
  <2> DEFINE c == Continue(r, walk[k][r.self])
  <2>1. Grows(c, e)
    BY <1>1, ContinueGrows DEF Walker
  <2>2. q = [made |-> c.made, self |-> c.self, caption |-> r.caption]
    BY <1>3 DEF IsCaption, FigureChild, Captioned, Proceed
  <2> HIDE DEF c, q
  <2>3. Grows(q, e)
    BY <2>1, <2>2 DEF Grows
  <2>4. Lifted(q, hs, n)
    <3>1. q.caption = r.caption
      BY <2>2
    <3>2. CASE r.caption = <<>> /\ \A i \in 1 .. n - 1 : ~IsCaption(hs[i])
      <4>1. \A i \in 1 .. n : i = n \/ i \in 1 .. n - 1
        BY <1>1
      <4>2. \A i \in 1 .. n : ~IsCaption(hs[i])
        BY <1>3, <3>2, <4>1
      <4> QED
        BY <3>1, <3>2, <4>2 DEF Lifted
    <3>3. ASSUME NEW i \in 1 .. n - 1,
                 IsCaption(hs[i]), \A j \in i + 1 .. n - 1 : ~IsCaption(hs[j]),
                 RunsText(r.caption) = CollapsedText(Joined(RawText[Levels], <<hs[i]>>))
          PROVE  Lifted(q, hs, n)
      <4>1. i \in 1 .. n /\ \A j \in i + 1 .. n : j = n \/ j \in i + 1 .. n - 1
        BY <1>1
      <4>2. \A j \in i + 1 .. n : ~IsCaption(hs[j])
        BY <1>3, <3>3, <4>1
      <4>3. RunsText(q.caption) = CollapsedText(Joined(RawText[Levels], <<hs[i]>>))
        BY <3>1, <3>3
      <4> QED
        BY <3>3, <4>1, <4>2, <4>3 DEF Lifted
    <3> QED
      BY <3>2, <3>3 DEF Lifted
  <2> QED
    BY <2>3, <2>4 DEF q
<1> QED
  BY <1>2, <1>3

\* What a figure's runs read as.
LEMMA FigureReads ==
  ASSUME Arena, NEW hs \in Seq(Handle), NEW r, Lifted(r, hs, Len(hs))
  PROVE  LET source == IF LastCaption(hs) = 0 THEN <<>> ELSE <<hs[LastCaption(hs)]>>
         IN  RunsText(r.caption) = CollapsedText(Joined(RawText[Levels], source))
<1> DEFINE S == {i \in DOMAIN hs : IsCaption(hs[i])} \cup {0}
<1>1. LastCaption(hs) = Max(S)
  BY DEF LastCaption, IsCaption
<1>2. Len(hs) \in Nat /\ DOMAIN hs = 1 .. Len(hs)
  OBVIOUS
<1>3. S \in SUBSET Nat /\ 0 \in S
  BY <1>2
<1>4. \A i \in S : i = 0 \/ (i \in 1 .. Len(hs) /\ IsCaption(hs[i]))
  BY <1>2
<1>5. \A i \in 1 .. Len(hs) : IsCaption(hs[i]) => i \in S
  BY <1>2
<1> HIDE DEF S
<1>6. CASE r.caption = <<>> /\ \A i \in 1 .. Len(hs) : ~IsCaption(hs[i])
  <2>1. \A i \in S : i <= 0
    BY <1>4, <1>6
  <2>2. Max(S) = 0
    BY <1>3, <2>1, GreatestIs
  <2> QED
    BY <1>1, <1>6, <2>2, NoRunsRead
<1>7. ASSUME NEW i \in 1 .. Len(hs),
             IsCaption(hs[i]), \A j \in i + 1 .. Len(hs) : ~IsCaption(hs[j]),
             RunsText(r.caption) = CollapsedText(Joined(RawText[Levels], <<hs[i]>>))
      PROVE  /\ LastCaption(hs) # 0
             /\ RunsText(r.caption)
                  = CollapsedText(Joined(RawText[Levels], <<hs[LastCaption(hs)]>>))
  <2>1. i \in S
    BY <1>5, <1>7
  <2>2. \A j \in S : j <= i
    <3> SUFFICES ASSUME NEW j \in S, j > i PROVE FALSE
      BY <1>3
    <3>1. j \in 1 .. Len(hs) /\ IsCaption(hs[j])
      BY <1>4
    <3>2. j \in i + 1 .. Len(hs)
      BY <1>2, <3>1
    <3> QED
      BY <1>7, <3>1, <3>2
  <2>3. Max(S) = i
    BY <1>3, <2>1, <2>2, GreatestIs
  <2> QED
    BY <1>1, <1>7, <2>3
<1> QED
  BY <1>6, <1>7 DEF Lifted

LEMMA PushFigureGrows ==
  ASSUME Arena, NEW walk, Walker(walk), NEW h \in Handle, NEW e \in Extractor
  PROVE  Grows(PushFigure(walk, h, e), e)
<1> DEFINE hs == kids[h]
           N == Len(hs)
           pushed == FigureUpTo(walk, hs, e)
           r == pushed[N]
           n == [Node("figure", h) EXCEPT !.kids = r.made, !.runs = r.caption]
           S == {i \in 0 .. N : Grows(pushed[i], e) /\ Lifted(pushed[i], hs, i)}
<1>1. hs \in Seq(Handle)
  BY DEF Arena
<1>2. PushFigure(walk, h, e) \in {Nothing(r.self), Yield(<<n>>, r.self)}
  BY DEF PushFigure
<1>3. Describes(n, "figure", <<h>>, r.caption, r.made, None, <<>>)
  BY NodeFields, EditFields
<1>4. N \in Nat /\ N = Len(hs)
  BY <1>1
<1>5. pushed[0] = Uncaptioned(e)
      /\ \A i \in 1 .. N : pushed[i] = FigureChild(walk, pushed[i - 1], hs[i])
  <2>1. Len(hs) \in Nat
    BY <1>1
  <2>2. /\ FigureUpTo(walk, hs, e)[0] = Uncaptioned(e)
        /\ \A i \in 1 .. Len(hs) :
              FigureUpTo(walk, hs, e)[i] = FigureChild(walk, FigureUpTo(walk, hs, e)[i - 1], hs[i])
    <3> HIDE DEF N, pushed, S, hs
    <3> QED
      BY <2>1, FigureSteps
  <2> QED
    BY <2>2, Zenon DEF N, pushed
<1> HIDE DEF n
<1>6. n.of = <<h>> /\ n.kind = "figure" /\ n.runs = r.caption
  BY <1>3 DEF Describes
<1>7. Source(n) = IF LastCaption(hs) = 0 THEN <<>> ELSE <<hs[LastCaption(hs)]>>
  BY <1>6 DEF Source
<1> HIDE DEF hs, N, pushed
<1>8. 0 \in S
  <2> DEFINE none == <<>>
             u == Uncaptioned(e)
  <2>1. e.next \in Nat
    BY DEF Extractor
  <2>2. Grows(Nothing(e), e)
    BY <2>1, NothingGrows
  <2>3. u = [made |-> Nothing(e).made, self |-> Nothing(e).self, caption |-> none]
    BY DEF Uncaptioned, Captioned
  <2> HIDE DEF none, u
  <2>4. Grows(u, e)
    BY <2>2, <2>3 DEF Grows
  <2>5. Lifted(u, hs, 0)
    <3>1. u.caption = <<>>
      BY <2>3 DEF none
    <3> QED
      BY <3>1 DEF Lifted
  <2> QED
    BY <1>4, <1>5, <2>4, <2>5 DEF u
<1>9. ASSUME NEW i \in 1 .. N, i - 1 \in S PROVE i \in S
  <2>1. Grows(pushed[i - 1], e) /\ Lifted(pushed[i - 1], hs, i - 1)
    BY <1>9
  <2>2. i \in 1 .. Len(hs) /\ i \in 0 .. N
    BY <1>4
  <2>3. LET q == FigureChild(walk, pushed[i - 1], hs[i]) IN Grows(q, e) /\ Lifted(q, hs, i)
    BY <1>1, <2>1, <2>2, FigureChildOK
  <2> QED
    BY <1>5, <2>2, <2>3
<1> HIDE DEF S
<1>10. 0 .. N \subseteq S
  BY <1>4, <1>8, <1>9, Induction
<1>11. Grows(r, e) /\ Lifted(r, hs, N)
  BY <1>4, <1>10 DEF S
<1> HIDE DEF r
<1>12. Reads(n)
  <2>1. RunsText(r.caption) = CollapsedText(Joined(RawText[Levels], Source(n)))
    BY <1>1, <1>4, <1>7, <1>11, FigureReads
  <2> QED
    BY <1>6, <2>1 DEF Reads, ReadsAsItsSource
<1>13. WithinLimits(n)
  BY <1>3, OtherKinds
<1>14. r.self \in Extractor /\ e.next \in Nat /\ e.next <= e.next /\ e.next <= r.self.next
       /\ Forest(r.made, e.next, r.self.next)
  BY <1>11 DEF Grows, Extractor
<1>15. Grows(Yield(<<n>>, r.self), e)
  BY <1>3, <1>12, <1>13, <1>14, NodeGrows
<1>16. Grows(Nothing(r.self), e)
  BY <1>14, NothingGrows
<1> QED
  BY <1>2, <1>15, <1>16

-----------------------------------------------------------------------------
(* The walk.                                                               *)

LEMMA PushFormGrows ==
  ASSUME Arena, NEW walk, Walker(walk), NEW h \in Handle, NEW e \in Extractor
  PROVE  Grows(PushForm(walk, h, e), e)
<1> DEFINE d == Allocate(e)
           n == [Node("form", h) EXCEPT !.id = e.next]
<1>1. d \in Extractor /\ d.next = e.next + 1 /\ e.next \in Nat
  BY ExtractorFacts
<1>2. Describes(n, "form", <<h>>, <<>>, <<>>, e.next, <<>>)
  BY NodeFields, EditFields
<1>3. PushForm(walk, h, e) = Enclose(BlockChildren(walk, h, d), n)
  BY DEF PushForm
<1> HIDE DEF d, n
<1>4. Grows(BlockChildren(walk, h, d), d)
  BY <1>1, BlockChildrenGrows
<1>5. "form" \notin ReadsAlso \cup {"table"}
  BY DEF ReadsAlso, TextBlock, Heading
<1>6. e.next <= d.next /\ e.next < d.next /\ e.next <= e.next
  BY <1>1
<1> QED
  BY <1>1, <1>2, <1>3, <1>4, <1>5, <1>6, EncloseGrows

LEMMA HandleElementGrows ==
  ASSUME Arena, NEW w, Walkers(w), NEW h \in Handle, NEW e \in Extractor
  PROVE  Grows(HandleElement(w, h, e), e)
<1> DEFINE script   == Nothing(Suppress(e))
           unseen   == Nothing(e)
           block    == PushTextBlock(h, e)
           list     == Enclose(InTurn(ListItems(w), kids[h], e), Node(name[h], h))
           holder   == Enclose(BlockChildren(w.node, h, e), Node(name[h], h))
           verbatim == PushVerbatim(h, e)
           table    == PushTable(w, h, e)
           leaf     == Yield(<<Node(name[h], h)>>, e)
           figure   == PushFigure(w.node, h, e)
           form     == PushForm(w.node, h, e)
           control  == PushControl(h, e)
           button   == PushButton(h, e)
           inside   == InTurn(w.node, kids[h], e)
<1>1. kids[h] \in Seq(Handle) /\ e.next \in Nat /\ e.next <= e.next
  BY DEF Arena, Extractor
<1>2. Walker(w.node)
  BY DEF Walkers
<1>3. Grows(script, e)
  <2>1. Suppress(e) \in Extractor /\ e.next <= Suppress(e).next
    BY <1>1, ExtractorFacts
  <2> QED
    BY <2>1, NothingGrows
<1>4. Grows(unseen, e)
  BY <1>1, NothingGrows
<1>5. name[h] \in TextBlock => Grows(block, e)
  BY PushTextBlockGrows
<1>6. name[h] \in Lists => Grows(list, e)
  BY ListGrows
<1>7. name[h] \in Container => Grows(holder, e)
  <2>1. name[h] \in Container => name[h] \notin ReadsAlso \cup {"table"}
    BY DEF ReadsAlso, TextBlock, Heading, Container, Landmark
  <2> QED
    BY <1>2, <2>1, ContainerGrows
<1>8. Grows(verbatim, e)
  BY PushVerbatimGrows
<1>9. Grows(table, e)
  BY PushTableGrows
<1>10. name[h] \in Leaf => Grows(leaf, e)
  <2>1. Describes(Node(name[h], h), name[h], <<h>>, <<>>, <<>>, None, <<>>)
    BY NodeFields
  <2>2. name[h] \in Leaf => name[h] \notin ReadsAlso \cup {"table"}
    BY DEF ReadsAlso, TextBlock, Heading, Leaf
  <2> QED
    BY <1>1, <2>1, <2>2, LeafGrows
<1>11. Grows(figure, e)
  BY <1>2, PushFigureGrows
<1>12. Grows(form, e)
  BY <1>2, PushFormGrows
<1>13. name[h] \in Control => Grows(control, e)
  BY PushControlGrows
<1>14. Grows(button, e)
  BY PushButtonGrows
<1>15. Grows(inside, e)
  BY <1>1, <1>2, InTurnGrows
<1>16. HandleElement(w, h, e) =
         CASE name[h] = "script"         -> script
           [] name[h] \in {"style", "title"} -> unseen
           [] name[h] \in TextBlock      -> block
           [] name[h] \in Lists          -> list
           [] name[h] \in Container      -> holder
           [] name[h] \in VerbatimBlock  -> verbatim
           [] name[h] = "table"          -> table
           [] name[h] \in Leaf           -> leaf
           [] name[h] = "figure"         -> figure
           [] name[h] = "form"           -> form
           [] name[h] \in Control        -> control
           [] name[h] = "button"         -> button
           [] OTHER                      -> inside
  BY DEF HandleElement
<1> HIDE DEF script, unseen, block, list, holder, verbatim, table, leaf, figure, form,
             control, button, inside
<1>17. \/ HandleElement(w, h, e) \in {script, unseen, verbatim, table, figure, form, button, inside}
       \/ name[h] \in TextBlock /\ HandleElement(w, h, e) = block
       \/ name[h] \in Lists /\ HandleElement(w, h, e) = list
       \/ name[h] \in Container /\ HandleElement(w, h, e) = holder
       \/ name[h] \in Leaf /\ HandleElement(w, h, e) = leaf
       \/ name[h] \in Control /\ HandleElement(w, h, e) = control
  BY <1>16
<1> QED
  BY <1>3, <1>4, <1>5, <1>6, <1>7, <1>8, <1>9, <1>10, <1>11, <1>12, <1>13, <1>14, <1>15, <1>17

LEMMA WalkNodeGrows ==
  ASSUME Arena, NEW w, Walkers(w), NEW h \in Handle, NEW e \in Extractor
  PROVE  Grows(WalkNode(w, h, e), e)
<1>1. kids[h] \in Seq(Handle) /\ e.next \in Nat /\ e.next <= e.next /\ Walker(w.node)
  BY DEF Arena, Extractor, Walkers
<1>2. Grows(Nothing(e), e)
  BY <1>1, NothingGrows
<1>3. Grows(InTurn(w.node, kids[h], e), e)
  BY <1>1, InTurnGrows
<1>4. Grows(Continue(Mark(h, e), HandleElement(w, h, Mark(h, e).self)), e)
  <2> DEFINE m == Mark(h, e)
  <2>1. Grows(m, e)
    BY MarkGrows
  <2> HIDE DEF m
  <2>2. Grows(HandleElement(w, h, m.self), m.self)
    BY <2>1, HandleElementGrows DEF Grows
  <2>3. Grows(Continue(m, HandleElement(w, h, m.self)), e)
    BY <2>1, <2>2, ContinueGrows
  <2> QED
    BY <2>3 DEF m
<1>5. WalkNode(w, h, e) \in {Nothing(e), InTurn(w.node, kids[h], e),
                             Continue(Mark(h, e), HandleElement(w, h, Mark(h, e).self))}
  BY DEF WalkNode
<1> QED
  BY <1>2, <1>3, <1>4, <1>5

NoWalk == [node |-> Idle, rows |-> Idle]
OneWalk(w) ==
    [node |-> [h \in Handle |-> [e \in Extractor |-> WalkNode(w, h, e)]],
     rows |-> [h \in Handle |-> [e \in Extractor |-> CollectRows(w, h, e)]]]

\* The walk, one level more.
LEMMA WalkSteps ==
  /\ Walks[0] = NoWalk
         /\ \A n \in 1 .. Levels : Walks[n] = OneWalk(Walks[n - 1])
<1> DEFINE last == Levels
           begin == NoWalk
           Step(n, x) == OneWalk(x)
           Body(k, f) == [n \in 0 .. k |-> IF n = 0 THEN begin ELSE Step(n, f[n - 1])]
           S == {k \in 0 .. last : \E f : f = Body(k, f)}
           loop == Walks
<1>1. loop = CHOOSE f : f = Body(last, f)
  BY DEF Walks, NoWalk, OneWalk
<1>2. last \in Nat
  BY LimitsAssumption DEF Levels
<1> HIDE DEF last, begin, Step, loop
<1>3. 0 \in S
  <2> DEFINE f == [n \in 0 .. 0 |-> begin]
  <2>1. f = Body(0, f)
    OBVIOUS
  <2> HIDE DEF f
  <2> QED
    BY <1>2, <2>1
<1>4. ASSUME NEW k \in 1 .. last, k - 1 \in S PROVE k \in S
  <2>1. k \in 0 .. last /\ k - 1 \in 0 .. last
    BY <1>2
  <2>2. PICK f : f = Body(k - 1, f)
    BY <1>4
  <2>3. \A n \in 0 .. k - 1 : f[n] = IF n = 0 THEN begin ELSE Step(n, f[n - 1])
    BY <2>2
  <2> DEFINE g == [n \in 0 .. k |-> IF n = k THEN Step(k, f[k - 1]) ELSE f[n]]
  <2>4. ASSUME NEW n \in 0 .. k PROVE g[n] = IF n = 0 THEN begin ELSE Step(n, g[n - 1])
    <3>1. CASE n = k
      <4>1. k # 0 /\ k - 1 \in 0 .. k /\ k - 1 # k
        BY <1>2
      <4> QED
        BY <3>1, <4>1
    <3>2. CASE n # k
      <4>1. n \in 0 .. k - 1 /\ g[n] = f[n]
        BY <3>2
      <4>2. CASE n = 0
        BY <2>3, <4>1, <4>2
      <4>3. CASE n # 0
        <5>1. n - 1 \in 0 .. k /\ n - 1 # k
          BY <4>1, <4>3
        <5> QED
          BY <2>3, <4>1, <4>3, <5>1
      <4> QED
        BY <4>2, <4>3
    <3> QED
      BY <3>1, <3>2
  <2>5. g = [n \in 0 .. k |-> g[n]]
    OBVIOUS
  <2> HIDE DEF g
  <2>6. g = Body(k, g)
    BY <2>4, <2>5
  <2> QED
    BY <2>1, <2>6
<1> HIDE DEF S
<1>5. last \in S
  BY <1>2, <1>3, <1>4, Induction
<1>6. loop = Body(last, loop)
  BY <1>1, <1>5 DEF S
<1>7. loop[0] = begin /\ \A n \in 1 .. last : loop[n] = Step(n, loop[n - 1])
  BY <1>2, <1>6
<1> QED
  BY <1>7, Zenon DEF loop, last, begin, Step

LEMMA WalksOK ==
  ASSUME Arena
  PROVE  \A n \in 0 .. Levels : Walkers(Walks[n])
<1> DEFINE S == {n \in 0 .. Levels : Walkers(Walks[n])}
<1>1. Levels \in Nat
  BY LimitsAssumption DEF Levels
<1>2. 0 \in S
  <2>1. Walkers(NoWalk)
    BY IdleWalker DEF Walkers, NoWalk
  <2> QED
    BY <1>1, <2>1, WalkSteps
<1>3. ASSUME NEW n \in 1 .. Levels, n - 1 \in S PROVE n \in S
  <2> DEFINE w == Walks[n - 1]
             nodes == [h \in Handle |-> [e \in Extractor |-> WalkNode(w, h, e)]]
             below == [h \in Handle |-> [e \in Extractor |-> CollectRows(w, h, e)]]
  <2>1. Walkers(w) /\ n \in 0 .. Levels
    BY <1>1, <1>3
  <2>2. Walks[n] = OneWalk(w)
    BY WalkSteps
  <2> HIDE DEF w
  <2>3. Walker(nodes)
    BY <2>1, WalkNodeGrows DEF Walker
  <2>4. Walker(below)
    BY <2>1, CollectRowsGrows DEF Walker
  <2>5. OneWalk(w).node = nodes /\ OneWalk(w).rows = below
    BY DEF OneWalk
  <2> HIDE DEF nodes, below
  <2>6. Walkers(OneWalk(w))
    BY <2>3, <2>4, <2>5 DEF Walkers
  <2> QED
    BY <2>1, <2>2, <2>6
<1> HIDE DEF S
<1>4. 0 .. Levels \subseteq S
  BY <1>1, <1>2, <1>3, Induction
<1> QED
  BY <1>4 DEF S

\* The document is a forest of sound nodes.
LEMMA ExtractOK ==
  ASSUME Arena
  PROVE  \E b \in Nat : Forest(Extract.nodes, 0, b)
<1> DEFINE e == NewExtractor
           r == Walks[Levels].node[Document][e]
           warning == Node("warning", Document)
           none == <<>>
<1>1. Levels \in 0 .. Levels /\ Document \in Handle
  BY LimitsAssumption DEF Levels, Document, Handle
<1>2. e \in Extractor /\ e.next = 0
  BY DEF NewExtractor, Extractor
<1>3. Grows(r, e)
  <2> HIDE DEF e
  <2> QED
    BY <1>1, <1>2, WalksOK DEF Walkers, Walker
<1>4. Extract.nodes = r.made \/ Extract.nodes = Append(r.made, warning)
  BY DEF Extract, Finished
<1> HIDE DEF e, r
<1> DEFINE b == r.self.next
<1>5. b \in Nat /\ 0 <= b /\ b <= b /\ Forest(r.made, 0, b)
  BY <1>2, <1>3 DEF Grows, Extractor
<1> HIDE DEF b
<1>6. Forest(<<warning>>, b, b)
  <2>1. Describes(warning, "warning", <<Document>>, <<>>, none, None, <<>>)
    BY NodeFields
  <2>2. Forest(none, b, b)
    BY EmptyForest
  <2>3. "warning" \notin ReadsAlso \cup {"table"}
    BY DEF ReadsAlso, TextBlock, Heading
  <2> HIDE DEF warning, none
  <2>4. Reads(warning) /\ WithinLimits(warning)
    BY <2>1, <2>3, OtherKinds
  <2>5. IsNode(warning) /\ warning.id = None /\ warning.kids = none
    BY <2>1 DEF Describes
  <2> QED
    BY <1>5, <2>2, <2>4, <2>5, OneForest
<1> HIDE DEF warning
<1>7. Append(r.made, warning) = r.made \o <<warning>>
  <2>1. PICK T : r.made \in Seq(T)
    BY <1>5 DEF Forest, IsList
  <2> DEFINE U == T \cup {warning}
  <2>2. r.made \in Seq(U) /\ warning \in U
    BY <2>1
  <2> HIDE DEF U
  <2> QED
    BY <2>2
<1>8. Forest(r.made \o <<warning>>, 0, b)
  BY <1>5, <1>6, ConcatForest
<1> QED
  BY <1>4, <1>5, <1>7, <1>8

-----------------------------------------------------------------------------
(* What the properties say of a forest.                                    *)

LEMMA NumbersBelow ==
  ASSUME NEW A
  PROVE  IdsOf(A) \subseteq AllIds(A)
BY AllNodesBelow DEF IdsOf, AllIds

LEMMA ForestClaims ==
  ASSUME NEW s, NEW b, Forest(s, 0, b)
  PROVE  /\ InOrder(s)
         /\ \A n \in AllNodes(ToSet(s)) : Reads(n) /\ NumberedAsItReads(n) /\ WithinLimits(n)
<1>1. ASSUME NEW t, Sorted(t) PROVE InOrder(t)
  BY <1>1, NumbersBelow DEF Sorted, InOrder, Precede
<1>2. InOrder(s)
  BY <1>1 DEF Forest
<1>3. ASSUME NEW n \in AllNodes(ToSet(s))
      PROVE  Reads(n) /\ NumberedAsItReads(n) /\ WithinLimits(n)
  <2>1. Sound(n)
    BY AllNodesBelow DEF Forest
  <2>2. InOrder(n.kids)
    BY <1>1, <2>1 DEF Sound
  <2>3. Precede({n.id} \ {None}, IdsOf(ToSet(n.kids)))
    BY <2>1, NumbersBelow DEF Sound, Precede
  <2> QED
    BY <2>1, <2>2, <2>3 DEF Sound, NumberedAsItReads
<1> QED
  BY <1>2, <1>3

\* The page reads the same as long as the arena stays the same.
LEMMA PageStays ==
  ASSUME UNCHANGED dom
  PROVE  \A n \in 0 .. Levels : RawText'[n] = RawText[n]
<1> DEFINE S == {n \in 0 .. Levels : RawText'[n] = RawText[n]}
<1>1. Levels \in Nat
  BY LimitsAssumption DEF Levels
<1>2. name' = name /\ text' = text /\ kids' = kids
  BY DEF dom
<1>3. /\ RawText[0] = NoText
      /\ \A n \in 1 .. Levels : RawText[n] = [h \in Handle |-> TextOf(RawText[n - 1], h)]
  BY RawSteps
<1>4. /\ RawText'[0] = NoText
      /\ \A n \in 1 .. Levels : RawText'[n] = [h \in Handle |-> TextOf(RawText[n - 1], h)']
  <2>1. (/\ RawText[0] = NoText
         /\ \A n \in 1 .. Levels : RawText[n] = [h \in Handle |-> TextOf(RawText[n - 1], h)])'
    BY RawSteps, PTL
  <2> QED
    BY <2>1
<1>5. 0 \in S
  BY <1>1, <1>3, <1>4
<1>6. ASSUME NEW n \in 1 .. Levels, n - 1 \in S PROVE n \in S
  <2>1. RawText'[n - 1] = RawText[n - 1] /\ n \in 0 .. Levels
    BY <1>1, <1>6
  <2>2. \A h \in Handle : TextOf(RawText[n - 1], h)' = TextOf(RawText[n - 1], h)
    BY <1>2, <2>1 DEF TextOf
  <2>3. RawText'[n] = RawText[n]
    BY <1>3, <1>4, <2>2
  <2> QED
    BY <2>1, <2>3
<1> HIDE DEF S
<1>7. 0 .. Levels \subseteq S
  BY <1>1, <1>5, <1>6, Induction
<1> QED
  BY <1>7 DEF S

LEMMA ReadingStays ==
  ASSUME UNCHANGED dom, NEW n
  PROVE  ReadsAsItsSource(n)' <=> ReadsAsItsSource(n)
<1>1. name' = name /\ kids' = kids
  BY DEF dom
<1>2. Levels \in 0 .. Levels
  BY LimitsAssumption DEF Levels
<1>3. RawText'[Levels] = RawText[Levels]
  BY <1>2, PageStays
<1>4. Source(n)' = Source(n)
  BY <1>1 DEF Source, LastCaption
<1> QED
  BY <1>3, <1>4 DEF ReadsAsItsSource

-----------------------------------------------------------------------------
(* The document.                                                           *)

DocumentOK == TextIsCollapsedFaithfully /\ NumbersFollowThePage /\ DocumentIsBounded

(* The inductive invariant: the arena is a forest all along, and there is  *)
(* no document to speak of before the arena is finished.                   *)
DocumentInv ==
    /\ IInv
    /\ phase = "parsing" => document = NoDocument
    /\ DocumentOK

LEMMA NoDocumentIsOK ==
  /\ InOrder(NoDocument.nodes)
  /\ AllNodes(ToSet(NoDocument.nodes)) = {}
<1> DEFINE none == <<>>
<1>1. NoDocument.nodes = none
  BY DEF NoDocument
<1>2. ToSet(none) = {}
  BY EmptyToSet
<1>3. Forest(none, 0, 0)
  BY EmptyForest
<1> HIDE DEF none
<1>4. AllNodes({}) = {}
  BY AllNodesBelow, BelowNone
<1> QED
  BY <1>1, <1>2, <1>3, <1>4, ForestClaims

LEMMA InvIsArena == IInv => Arena
BY DEF IInv, TypeOK, Arena

LEMMA DocumentInit == InitDocument => DocumentInv
<1> SUFFICES ASSUME InitDocument PROVE DocumentInv
  OBVIOUS
<1>1. IInv
  BY InitInv DEF InitDocument
<1>2. document = NoDocument
  BY DEF InitDocument
<1>3. DocumentOK
  BY <1>2, NoDocumentIsOK DEF DocumentOK, TextIsCollapsedFaithfully, NumbersFollowThePage,
                              DocumentIsBounded
<1> QED
  BY <1>1, <1>2, <1>3 DEF DocumentInv

LEMMA DocumentStep ==
  DocumentInv /\ [Parse \/ FinishParsing]_<<dom, grammar, phase, document>> => DocumentInv'
<1> SUFFICES ASSUME DocumentInv, [Parse \/ FinishParsing]_<<dom, grammar, phase, document>>
             PROVE  DocumentInv'
  OBVIOUS
<1>1. IInv'
  <2>1. [NextDom /\ UNCHANGED grammar]_<<dom, grammar>>
    BY DEF Parse, FinishParsing
  <2> QED
    BY <2>1, StepKeeps DEF DocumentInv
<1>2. ASSUME document' = NoDocument PROVE DocumentOK'
  BY <1>2, NoDocumentIsOK DEF DocumentOK, TextIsCollapsedFaithfully, NumbersFollowThePage,
                              DocumentIsBounded
<1>3. CASE Parse
  <2>1. phase' = "parsing" /\ document' = NoDocument
    BY <1>3 DEF Parse, DocumentInv
  <2> QED
    BY <1>1, <1>2, <2>1 DEF DocumentInv
<1>4. CASE FinishParsing
  <2>1. UNCHANGED dom
    BY <1>4 DEF FinishParsing
  <2>2. CASE LimitError
    <3>1. phase' = "failed" /\ document' = NoDocument
      BY <1>4, <2>2 DEF FinishParsing
    <3> QED
      BY <1>1, <1>2, <3>1 DEF DocumentInv
  <2>3. CASE ~LimitError
    <3>1. phase' = "parsed" /\ document' = Extract
      BY <1>4, <2>3 DEF FinishParsing
    <3>2. PICK b \in Nat : Forest(Extract.nodes, 0, b)
      BY InvIsArena, ExtractOK DEF DocumentInv
    <3>3. /\ InOrder(document'.nodes)
          /\ \A n \in AllNodes(ToSet(document'.nodes)) :
                Reads(n) /\ NumberedAsItReads(n) /\ WithinLimits(n)
      BY <3>1, <3>2, ForestClaims
    <3>4. TextIsCollapsedFaithfully'
      BY <2>1, <3>3, ReadingStays DEF TextIsCollapsedFaithfully, Reads
    <3>5. NumbersFollowThePage' /\ DocumentIsBounded'
      BY <3>3 DEF NumbersFollowThePage, DocumentIsBounded
    <3> QED
      BY <1>1, <3>1, <3>4, <3>5 DEF DocumentInv, DocumentOK
  <2> QED
    BY <2>2, <2>3
<1>5. CASE UNCHANGED <<dom, grammar, phase, document>>
  <2>1. UNCHANGED dom /\ phase' = phase /\ document' = document
    BY <1>5
  <2>2. DocumentOK
    BY DEF DocumentInv
  <2>3. TextIsCollapsedFaithfully'
    BY <2>1, <2>2, ReadingStays DEF DocumentOK, TextIsCollapsedFaithfully
  <2>4. NumbersFollowThePage' /\ DocumentIsBounded'
    BY <2>1, <2>2 DEF DocumentOK, NumbersFollowThePage, DocumentIsBounded
  <2> QED
    BY <1>1, <2>1, <2>3, <2>4 DEF DocumentInv, DocumentOK
<1> QED
  BY <1>3, <1>4, <1>5

(* The arena is a forest while the page is parsed, and what is walked out  *)
(* of it is faithful, numbered and bounded: parse_html_with_base.          *)
THEOREM DocumentCorrect == SpecDocument => []DocumentInv
<1> QED
  BY DocumentInit, DocumentStep, PTL DEF SpecDocument

(* Whatever page the parser builds, every text block, button and caption   *)
(* of its document reads as its part of the page with whitespace           *)
(* collapsed: gather_segments and RunBuilder lose, add, swap and repeat    *)
(* nothing, however elements cut the text.                                 *)
THEOREM TextIsFaithful == SpecDocument => []TextIsCollapsedFaithfully
<1>1. DocumentInv => TextIsCollapsedFaithfully
  BY DEF DocumentInv, DocumentOK
<1> QED
  BY <1>1, DocumentCorrect, PTL

(* Whatever page the parser builds, forms and controls are numbered in     *)
(* document order, a form before what it holds: allocate_node_id is called *)
(* in the order the walk returns (push_form, push_input, push_button).     *)
THEOREM NumbersFollow == SpecDocument => []NumbersFollowThePage
<1>1. DocumentInv => NumbersFollowThePage
  BY DEF DocumentInv, DocumentOK
<1> QED
  BY <1>1, DocumentCorrect, PTL

(* Whatever page the parser builds, tables and selects keep within their   *)
(* limits, and a select has at most one option selected.                   *)
THEOREM DocumentBounded == SpecDocument => []DocumentIsBounded
<1>1. DocumentInv => DocumentIsBounded
  BY DEF DocumentInv, DocumentOK
<1> QED
  BY <1>1, DocumentCorrect, PTL

(* The parser with its document implements the arena alone.                *)
THEOREM DocumentArena == SpecDocument => SpecDom
<1>1. InitDocument => InitDom
  BY DEF InitDocument
<1>2. [Parse \/ FinishParsing]_<<dom, grammar, phase, document>>
        => [NextDom /\ UNCHANGED grammar]_<<dom, grammar>>
  BY DEF Parse, FinishParsing
<1> QED
  BY <1>1, <1>2, PTL DEF SpecDocument, SpecDom
-----------------------------------------------------------------------------
(* The levels are enough: no walk is cut off.                              *)

\* The handles that are fewer than n links from where their tree ends.
Shallow(n, A) ==
    {h \in Handle : parent[h] = None \/ parent[h] \in A[n - 1]}

\* A tree of the arena has fewer levels than there are handles.
LEMMA NoTreeIsDeeper ==
  ASSUME IInv
  PROVE  \E A \in [0 .. Levels -> SUBSET Handle] :
            /\ A[0] = {} /\ A[Levels] = Handle
            /\ \A n \in 1 .. Levels : A[n] = Shallow(n, A) /\ A[n - 1] \subseteq A[n]
<1> DEFINE X == SUBSET Handle
           Up(s) == {h \in Handle : parent[h] = None \/ parent[h] \in s}
           step == [n \in 1 .. Levels |-> [s \in X |-> Up(s)]]
<1>1. Levels \in Nat /\ Levels = MaxNodeCount + 2 /\ MaxNodeCount \in Nat
  BY LimitsAssumption DEF Levels
<1>2. step \in [1 .. Levels -> [X -> X]] /\ {} \in X
  OBVIOUS
<1>3. PICK A : IsWalk(A, X, Levels, {}, step)
  BY <1>1, <1>2, WalkExists
<1>4. A \in [0 .. Levels -> X] /\ A[0] = {}
  BY <1>3 DEF IsWalk
<1>5. ASSUME NEW n \in 1 .. Levels PROVE A[n] = Up(A[n - 1]) /\ A[n] = Shallow(n, A)
  <2>1. n - 1 \in 0 .. Levels
    BY <1>1
  <2>2. A[n] = step[n][A[n - 1]] /\ A[n - 1] \in X
    BY <1>3, <1>4, <2>1 DEF IsWalk
  <2> QED
    BY <2>2 DEF Shallow
<1> DEFINE G == {n \in 0 .. Levels : n = 0 \/ A[n - 1] \subseteq A[n]}
<1> HIDE DEF step, X
<1>6. ASSUME NEW n \in 1 .. Levels, n - 1 \in G PROVE n \in G
  <2>1. n \in 0 .. Levels /\ A[n] = Up(A[n - 1])
    BY <1>1, <1>5
  <2>2. CASE n = 1
    BY <1>4, <2>1, <2>2
  <2>3. CASE n # 1
    <3>1. n - 1 \in 1 .. Levels /\ n - 1 # 0
      BY <1>1, <2>3
    <3>2. A[n - 1] = Up(A[(n - 1) - 1]) /\ A[(n - 1) - 1] \subseteq A[n - 1]
      BY <1>5, <1>6, <3>1
    <3> QED
      BY <2>1, <3>2
  <2> QED
    BY <2>2, <2>3
<1>7. \A n \in 1 .. Levels : A[n - 1] \subseteq A[n]
  <2>1. 0 \in G
    BY <1>1
  <2> HIDE DEF G
  <2>2. 0 .. Levels \subseteq G
    BY <1>1, <1>6, <2>1, Induction
  <2>3. \A n \in 1 .. Levels : n \in 0 .. Levels /\ n # 0
    BY <1>1
  <2> QED
    BY <2>2, <2>3 DEF G
<1>8. IsFiniteSet(Handle) /\ Cardinality(Handle) = Levels
  <2>1. 0 \in Int /\ MaxNodeCount + 1 \in Int
    BY <1>1
  <2> QED
    BY <1>1, <2>1, FS_Interval DEF Handle
<1>9. ASSUME NEW n \in 1 .. Levels, A[n] = A[n - 1] PROVE A[n] = Handle
  <2> DEFINE S == Handle \ A[n]
  <2>1. A[n] = Up(A[n]) /\ A[n] \subseteq Handle
    BY <1>5, <1>9
  <2>2. \A h \in S : parent[h] # None /\ parent[h] \in Handle \cup {None} /\ parent[h] \notin A[n]
    BY <2>1 DEF IInv, Agree, Shape
  <2>3. S \in SUBSET {h \in Handle : parent[h] # None} /\ \A h \in S : parent[h] \in S
    BY <2>2
  <2> HIDE DEF S
  <2>4. S = {}
    BY <2>3 DEF IInv, Acyclic
  <2> QED
    BY <2>1, <2>4 DEF S
<1> DEFINE C == {n \in 0 .. Levels : A[n] = Handle \/ Cardinality(A[n]) >= n}
<1>10. ASSUME NEW n \in 1 .. Levels, n - 1 \in C PROVE n \in C
  <2>1. n \in 0 .. Levels /\ n - 1 \in 0 .. Levels
    BY <1>1
  <2>2. A[n] \in SUBSET Handle /\ A[n - 1] \in SUBSET A[n]
    BY <1>4, <1>7, <2>1 DEF X
  <2>3. IsFiniteSet(A[n]) /\ Cardinality(A[n]) \in Nat
    BY <1>8, <2>2, FS_Subset, FS_CardinalityType
  <2>4. /\ IsFiniteSet(A[n - 1]) /\ Cardinality(A[n - 1]) <= Cardinality(A[n])
        /\ Cardinality(A[n]) = Cardinality(A[n - 1]) => A[n] = A[n - 1]
    BY <2>2, <2>3, FS_Subset
  <2>5. Cardinality(A[n - 1]) \in Nat
    BY <2>4, FS_CardinalityType
  <2>6. CASE A[n - 1] = Handle
    BY <2>1, <2>2, <2>6
  <2>7. CASE A[n] = A[n - 1]
    BY <1>9, <2>1, <2>7
  <2>8. CASE A[n] # A[n - 1] /\ A[n - 1] # Handle
    <3>1. Cardinality(A[n - 1]) >= n - 1
      BY <1>10, <2>8
    <3>2. Cardinality(A[n]) >= n
      BY <2>1, <2>3, <2>4, <2>5, <2>8, <3>1
    <3> QED
      BY <2>1, <3>2
  <2> QED
    BY <2>6, <2>7, <2>8
<1>11. A[Levels] = Handle
  <2>1. IsFiniteSet(A[0]) /\ Cardinality(A[0]) = 0
    BY <1>4, FS_EmptySet
  <2>2. 0 \in C
    BY <1>1, <2>1
  <2> HIDE DEF C
  <2>3. Levels \in C
    <3>1. 0 .. Levels \subseteq C
      BY <1>1, <1>10, <2>2, Induction
    <3> QED
      BY <1>1, <3>1
  <2>4. A[Levels] \in SUBSET Handle
    BY <1>1, <1>4 DEF X
  <2>5. /\ Cardinality(A[Levels]) <= Cardinality(Handle)
        /\ Cardinality(Handle) = Cardinality(A[Levels]) => Handle = A[Levels]
        /\ IsFiniteSet(A[Levels])
    BY <1>8, <2>4, FS_Subset
  <2>6. Cardinality(A[Levels]) \in Nat
    BY <2>5, FS_CardinalityType
  <2> QED
    BY <1>1, <1>8, <2>3, <2>5, <2>6 DEF C
<1> QED
  BY <1>4, <1>5, <1>7, <1>11 DEF X

\* Sets of handles that hold what is below their members, and what stands in one.
Closed(C) == \A h \in C : \A i \in 1 .. Len(kids[h]) : kids[h][i] \in C
BelowIn(h, C) == \A i \in 1 .. Len(kids[h]) : kids[h][i] \in C

\* A function of the levels, by handle: where one level more changes nothing
\* unless it changed something below, it changes nothing in the end.
Settled(f) == \A h \in Handle : \E C \in SUBSET Handle :
    Closed(C) /\ BelowIn(h, C) /\ \A k \in C : f[Levels - 1][k] = f[Levels][k]

LEMMA LevelsSettle ==
  ASSUME IInv, NEW f,
         ASSUME NEW n \in 1 .. Levels - 1, NEW C \in SUBSET Handle, Closed(C),
                \A k \in C : f[n - 1][k] = f[n][k],
                NEW h \in Handle, BelowIn(h, C)
         PROVE  f[n][h] = f[n + 1][h]
  PROVE  Settled(f)
<1>1. Levels \in Nat /\ Levels >= 2
  BY LimitsAssumption DEF Levels
<1>2. PICK A \in [0 .. Levels -> SUBSET Handle] :
            /\ A[0] = {} /\ A[Levels] = Handle
            /\ \A n \in 1 .. Levels : A[n] = Shallow(n, A) /\ A[n - 1] \subseteq A[n]
  BY NoTreeIsDeeper
<1> DEFINE D(n) == Handle \ A[Levels - n]
<1>3. ASSUME NEW n \in 1 .. Levels, NEW h \in D(n) PROVE BelowIn(h, D(n - 1))
  <2> SUFFICES ASSUME NEW i \in 1 .. Len(kids[h]) PROVE kids[h][i] \in D(n - 1)
    BY DEF BelowIn
  <2> DEFINE m == (Levels - n) + 1
             k == kids[h][i]
  <2>1. m \in 1 .. Levels /\ m - 1 = Levels - n /\ Levels - (n - 1) = m
    BY <1>1
  <2>2. h \in Handle /\ h \notin A[m - 1]
    BY <2>1
  <2>3. k \in Handle /\ parent[k] = h
    BY <2>2 DEF IInv, Agree, Shape, ListsAgree
  <2>4. h # None
    BY <2>2, NoneIsNoHandle
  <2> HIDE DEF m, k
  <2>5. k \notin A[m]
    BY <1>2, <2>1, <2>2, <2>3, <2>4 DEF Shallow
  <2> QED
    BY <2>1, <2>3, <2>5 DEF k
<1>4. ASSUME NEW n \in 1 .. Levels PROVE D(n - 1) \subseteq D(n)
  <2> DEFINE m == (Levels - n) + 1
  <2>1. m \in 1 .. Levels /\ m - 1 = Levels - n /\ Levels - (n - 1) = m
    BY <1>1
  <2>2. A[m - 1] \subseteq A[m]
    BY <1>2, <2>1
  <2> HIDE DEF m
  <2> QED
    BY <2>1, <2>2
<1>5. D(0) = {} /\ D(Levels) = Handle
  <2>1. Levels - 0 = Levels /\ Levels - Levels = 0
    BY <1>1
  <2> QED
    BY <1>2, <2>1
<1>6. \A n \in 0 .. Levels : D(n) \in SUBSET Handle
  OBVIOUS
<1> HIDE DEF D
<1>7. ASSUME NEW n \in 0 .. Levels PROVE Closed(D(n))
  <2>1. CASE n = 0
    BY <1>5, <2>1 DEF Closed
  <2>2. CASE n # 0
    <3>1. n \in 1 .. Levels
      BY <2>2
    <3> QED
      BY <1>3, <1>4, <3>1 DEF BelowIn, Closed
  <2> QED
    BY <2>1, <2>2
<1> DEFINE S == {n \in 0 .. Levels - 1 : \A k \in D(n) : f[n][k] = f[n + 1][k]}
<1>8. 0 \in S
  BY <1>1, <1>5
<1>9. ASSUME NEW n \in 1 .. Levels - 1, n - 1 \in S PROVE n \in S
  <2> DEFINE C == D(n - 1)
  <2>1. n \in 1 .. Levels /\ n - 1 \in 0 .. Levels /\ n \in 0 .. Levels - 1 /\ (n - 1) + 1 = n
    BY <1>1
  <2>2. C \in SUBSET Handle /\ Closed(C) /\ \A k \in C : f[n - 1][k] = f[n][k]
    BY <1>6, <1>7, <1>9, <2>1
  <2>3. \A h \in D(n) : h \in Handle /\ BelowIn(h, C)
    <3>1. n \in 0 .. Levels
      BY <2>1
    <3> QED
      BY <1>3, <1>6, <2>1, <3>1
  <2> HIDE DEF C
  <2>4. \A h \in D(n) : f[n][h] = f[n + 1][h]
    BY <2>2, <2>3
  <2> QED
    BY <2>1, <2>4
<1>10. Levels - 1 \in S
  <2>1. Levels - 1 \in Nat
    BY <1>1
  <2> HIDE DEF S
  <2>2. 0 .. Levels - 1 \subseteq S
    BY <1>8, <1>9, <2>1, Induction
  <2> QED
    BY <2>1, <2>2
<1> SUFFICES ASSUME NEW h \in Handle
             PROVE  \E C \in SUBSET Handle :
                       Closed(C) /\ BelowIn(h, C) /\ \A k \in C : f[Levels - 1][k] = f[Levels][k]
  BY DEF Settled
<1>11. Levels \in 1 .. Levels /\ Levels - 1 \in 0 .. Levels /\ (Levels - 1) + 1 = Levels
  BY <1>1
<1>12. BelowIn(h, D(Levels - 1))
  BY <1>3, <1>5, <1>11
<1>13. \A k \in D(Levels - 1) : f[Levels - 1][k] = f[Levels][k]
  BY <1>10, <1>11
<1> QED
  BY <1>6, <1>7, <1>11, <1>12, <1>13

-----------------------------------------------------------------------------
(* What an operation makes depends on the walks of what stands below only.  *)

\* Two walks, or two collections, that are the same for all of a list.
Alike(v, w, hs) == \A i \in 1 .. Len(hs) : v[hs[i]] = w[hs[i]]

LEMMA WalkedStart ==
  ASSUME NEW walk, NEW hs, Len(hs) \in Nat, NEW e
  PROVE  WalkedUpTo(walk, hs, e)[0] = Nothing(e)
BY WalkedSteps

LEMMA SameInTurn ==
  ASSUME NEW v, NEW w, NEW hs, NEW e, Len(hs) \in Nat, Alike(v, w, hs)
  PROVE  InTurn(v, hs, e) = InTurn(w, hs, e)
<1> DEFINE a == WalkedUpTo(v, hs, e)
           b == WalkedUpTo(w, hs, e)
           S == {n \in 0 .. Len(hs) : a[n] = b[n]}
<1>1. a[0] = Nothing(e) /\ \A n \in 1 .. Len(hs) : a[n] = Proceed(a[n - 1], v[hs[n]])
  <2> HIDE DEF a, b, S
  <2>1. WalkedUpTo(v, hs, e)[0] = Nothing(e)
    BY WalkedStart, Zenon
  <2>2. \A n \in 1 .. Len(hs) : WalkedUpTo(v, hs, e)[n] = Proceed(WalkedUpTo(v, hs, e)[n - 1], v[hs[n]])
    BY WalkedSteps
  <2> QED
    BY <2>1, <2>2, Zenon DEF a
<1>2. b[0] = Nothing(e) /\ \A n \in 1 .. Len(hs) : b[n] = Proceed(b[n - 1], w[hs[n]])
  <2> HIDE DEF a, b, S
  <2>1. WalkedUpTo(w, hs, e)[0] = Nothing(e)
    BY WalkedStart, Zenon
  <2>2. \A n \in 1 .. Len(hs) : WalkedUpTo(w, hs, e)[n] = Proceed(WalkedUpTo(w, hs, e)[n - 1], w[hs[n]])
    BY WalkedSteps
  <2> QED
    BY <2>1, <2>2, Zenon DEF b
<1> HIDE DEF a, b
<1>3. 0 \in S
  BY <1>1, <1>2
<1>4. ASSUME NEW n \in 1 .. Len(hs), n - 1 \in S PROVE n \in S
  <2>1. a[n - 1] = b[n - 1] /\ v[hs[n]] = w[hs[n]] /\ n \in 0 .. Len(hs)
    BY <1>4 DEF Alike
  <2>2. a[n] = Proceed(a[n - 1], v[hs[n]]) /\ b[n] = Proceed(b[n - 1], w[hs[n]])
    BY <1>1, <1>2
  <2> QED
    BY <2>1, <2>2
<1> HIDE DEF S
<1>5. Len(hs) \in S
  <2>1. 0 .. Len(hs) \subseteq S
    BY <1>3, <1>4, Induction
  <2> QED
    BY <2>1
<1> QED
  BY <1>5, Zenon DEF S, InTurn, a, b

LEMMA SameJoined ==
  ASSUME NEW v, NEW w, NEW hs, Len(hs) \in Nat, Alike(v, w, hs)
  PROVE  Joined(v, hs) = Joined(w, hs)
<1> DEFINE a == JoinedUpTo(v, hs)
           b == JoinedUpTo(w, hs)
           S == {n \in 0 .. Len(hs) : a[n] = b[n]}
<1>1. a[0] = <<>> /\ \A n \in 1 .. Len(hs) : a[n] = Then(a[n - 1], v[hs[n]])
  <2> HIDE DEF a, b, S
  <2>1. /\ JoinedUpTo(v, hs)[0] = <<>>
           /\ \A n \in 1 .. Len(hs) : JoinedUpTo(v, hs)[n] = Then(JoinedUpTo(v, hs)[n - 1], v[hs[n]])
    BY JoinedSteps
  <2> QED
    BY <2>1, Zenon DEF a
<1>2. b[0] = <<>> /\ \A n \in 1 .. Len(hs) : b[n] = Then(b[n - 1], w[hs[n]])
  <2> HIDE DEF a, b, S
  <2>1. /\ JoinedUpTo(w, hs)[0] = <<>>
           /\ \A n \in 1 .. Len(hs) : JoinedUpTo(w, hs)[n] = Then(JoinedUpTo(w, hs)[n - 1], w[hs[n]])
    BY JoinedSteps
  <2> QED
    BY <2>1, Zenon DEF b
<1> HIDE DEF a, b
<1>3. 0 \in S
  BY <1>1, <1>2
<1>4. ASSUME NEW n \in 1 .. Len(hs), n - 1 \in S PROVE n \in S
  <2>1. a[n - 1] = b[n - 1] /\ v[hs[n]] = w[hs[n]] /\ n \in 0 .. Len(hs)
    BY <1>4 DEF Alike
  <2>2. a[n] = Then(a[n - 1], v[hs[n]]) /\ b[n] = Then(b[n - 1], w[hs[n]])
    BY <1>1, <1>2
  <2> QED
    BY <2>1, <2>2
<1> HIDE DEF S
<1>5. Len(hs) \in S
  <2>1. 0 .. Len(hs) \subseteq S
    BY <1>3, <1>4, Induction
  <2> QED
    BY <2>1
<1> QED
  BY <1>5, Zenon DEF S, Joined, a, b

LEMMA SameChildren ==
  ASSUME NEW v, NEW w, NEW h, NEW e, Len(kids[h]) \in Nat, Alike(v, w, kids[h])
  PROVE  BlockChildren(v, h, e) = BlockChildren(w, h, e)
<1> DEFINE hs == kids[h]
           a == ChildrenUpTo(v, hs, e)
           b == ChildrenUpTo(w, hs, e)
           S == {n \in 0 .. Len(hs) : a[n] = b[n]}
<1>0. Len(hs) \in Nat
  OBVIOUS
<1>1. a[0] = Begun(e) /\ \A n \in 1 .. Len(hs) : a[n] = BlockChild(v, a[n - 1], hs[n])
  <2> HIDE DEF a, b, S, hs
  <2>1. /\ ChildrenUpTo(v, hs, e)[0] = Begun(e)
           /\ \A n \in 1 .. Len(hs) : ChildrenUpTo(v, hs, e)[n] = BlockChild(v, ChildrenUpTo(v, hs, e)[n - 1], hs[n])
    BY <1>0, ChildrenSteps
  <2> QED
    BY <2>1, Zenon DEF a
<1>2. b[0] = Begun(e) /\ \A n \in 1 .. Len(hs) : b[n] = BlockChild(w, b[n - 1], hs[n])
  <2> HIDE DEF a, b, S, hs
  <2>1. /\ ChildrenUpTo(w, hs, e)[0] = Begun(e)
           /\ \A n \in 1 .. Len(hs) : ChildrenUpTo(w, hs, e)[n] = BlockChild(w, ChildrenUpTo(w, hs, e)[n - 1], hs[n])
    BY <1>0, ChildrenSteps
  <2> QED
    BY <2>1, Zenon DEF b
<1>3. \A n \in 1 .. Len(hs) : v[hs[n]] = w[hs[n]]
  BY DEF Alike
<1> HIDE DEF a, b, hs
<1>5. 0 \in S
  BY <1>1, <1>2, <1>0
<1>6. ASSUME NEW n \in 1 .. Len(hs), n - 1 \in S PROVE n \in S
  <2>1. a[n - 1] = b[n - 1] /\ v[hs[n]] = w[hs[n]] /\ n \in 0 .. Len(hs)
    BY <1>3, <1>0, <1>6
  <2>2. BlockChild(v, b[n - 1], hs[n]) = BlockChild(w, b[n - 1], hs[n])
    BY <2>1, Zenon DEF BlockChild
  <2>3. a[n] = BlockChild(v, a[n - 1], hs[n]) /\ b[n] = BlockChild(w, b[n - 1], hs[n])
    BY <1>1, <1>2
  <2> QED
    BY <2>1, <2>2, <2>3
<1> HIDE DEF S
<1>7. Len(hs) \in S
  <2>1. 0 .. Len(hs) \subseteq S
    BY <1>0, <1>5, <1>6, Induction
  <2> QED
    BY <1>0, <2>1
<1> QED
  BY <1>7, Zenon DEF S, BlockChildren, a, b, hs

LEMMA SameFigure ==
  ASSUME NEW v, NEW w, NEW h, NEW e, Len(kids[h]) \in Nat, Alike(v, w, kids[h])
  PROVE  PushFigure(v, h, e) = PushFigure(w, h, e)
<1> DEFINE hs == kids[h]
           a == FigureUpTo(v, hs, e)
           b == FigureUpTo(w, hs, e)
           S == {n \in 0 .. Len(hs) : a[n] = b[n]}
<1>0. Len(hs) \in Nat
  OBVIOUS
<1>1. a[0] = Uncaptioned(e) /\ \A n \in 1 .. Len(hs) : a[n] = FigureChild(v, a[n - 1], hs[n])
  <2> HIDE DEF a, b, S, hs
  <2>1. /\ FigureUpTo(v, hs, e)[0] = Uncaptioned(e)
           /\ \A n \in 1 .. Len(hs) : FigureUpTo(v, hs, e)[n] = FigureChild(v, FigureUpTo(v, hs, e)[n - 1], hs[n])
    BY <1>0, FigureSteps
  <2> QED
    BY <2>1, Zenon DEF a
<1>2. b[0] = Uncaptioned(e) /\ \A n \in 1 .. Len(hs) : b[n] = FigureChild(w, b[n - 1], hs[n])
  <2> HIDE DEF a, b, S, hs
  <2>1. /\ FigureUpTo(w, hs, e)[0] = Uncaptioned(e)
           /\ \A n \in 1 .. Len(hs) : FigureUpTo(w, hs, e)[n] = FigureChild(w, FigureUpTo(w, hs, e)[n - 1], hs[n])
    BY <1>0, FigureSteps
  <2> QED
    BY <2>1, Zenon DEF b
<1>3. \A n \in 1 .. Len(hs) : v[hs[n]] = w[hs[n]]
  BY DEF Alike
<1> HIDE DEF a, b, hs
<1>5. 0 \in S
  BY <1>1, <1>2, <1>0
<1>6. ASSUME NEW n \in 1 .. Len(hs), n - 1 \in S PROVE n \in S
  <2>1. a[n - 1] = b[n - 1] /\ v[hs[n]] = w[hs[n]] /\ n \in 0 .. Len(hs)
    BY <1>3, <1>0, <1>6
  <2>2. FigureChild(v, b[n - 1], hs[n]) = FigureChild(w, b[n - 1], hs[n])
    BY <2>1, Zenon DEF FigureChild
  <2>3. a[n] = FigureChild(v, a[n - 1], hs[n]) /\ b[n] = FigureChild(w, b[n - 1], hs[n])
    BY <1>1, <1>2
  <2> QED
    BY <2>1, <2>2, <2>3
<1> HIDE DEF S
<1>7. Len(hs) \in S
  <2>1. 0 .. Len(hs) \subseteq S
    BY <1>0, <1>5, <1>6, Induction
  <2> QED
    BY <1>0, <2>1
<1> QED
  BY <1>7, Zenon DEF S, PushFigure, a, b, hs

LEMMA SameOptions ==
  ASSUME NEW v, NEW w, NEW h, NEW options, Len(kids[h]) \in Nat, Alike(v, w, kids[h])
  PROVE  CollectedUpTo(v, kids[h], options)[Len(kids[h])]
         = CollectedUpTo(w, kids[h], options)[Len(kids[h])]
<1> DEFINE hs == kids[h]
           a == CollectedUpTo(v, hs, options)
           b == CollectedUpTo(w, hs, options)
           S == {n \in 0 .. Len(hs) : a[n] = b[n]}
<1>0. Len(hs) \in Nat
  OBVIOUS
<1>1. a[0] = options /\ \A n \in 1 .. Len(hs) : a[n] = CollectOption(v, a[n - 1], hs[n])
  <2> HIDE DEF a, b, S, hs
  <2>1. /\ CollectedUpTo(v, hs, options)[0] = options
        /\ \A n \in 1 .. Len(hs) :
              CollectedUpTo(v, hs, options)[n]
              = CollectOption(v, CollectedUpTo(v, hs, options)[n - 1], hs[n])
    BY <1>0, CollectedSteps
  <2> QED
    BY <2>1, Zenon DEF a
<1>2. b[0] = options /\ \A n \in 1 .. Len(hs) : b[n] = CollectOption(w, b[n - 1], hs[n])
  <2> HIDE DEF a, b, S, hs
  <2>1. /\ CollectedUpTo(w, hs, options)[0] = options
        /\ \A n \in 1 .. Len(hs) :
              CollectedUpTo(w, hs, options)[n]
              = CollectOption(w, CollectedUpTo(w, hs, options)[n - 1], hs[n])
    BY <1>0, CollectedSteps
  <2> QED
    BY <2>1, Zenon DEF b
<1>3. \A n \in 1 .. Len(hs) : v[hs[n]] = w[hs[n]]
  BY DEF Alike
<1> HIDE DEF a, b, hs
<1>5. 0 \in S
  BY <1>0, <1>1, <1>2
<1>6. ASSUME NEW n \in 1 .. Len(hs), n - 1 \in S PROVE n \in S
  <2>1. a[n - 1] = b[n - 1] /\ v[hs[n]] = w[hs[n]] /\ n \in 0 .. Len(hs)
    BY <1>0, <1>3, <1>6
  <2>2. CollectOption(v, b[n - 1], hs[n]) = CollectOption(w, b[n - 1], hs[n])
    BY <2>1, Zenon DEF CollectOption
  <2>3. /\ a[n] = CollectOption(v, a[n - 1], hs[n])
        /\ b[n] = CollectOption(w, b[n - 1], hs[n])
    BY <1>1, <1>2
  <2> QED
    BY <2>1, <2>2, <2>3
<1> HIDE DEF S
<1>7. Len(hs) \in S
  <2>1. 0 .. Len(hs) \subseteq S
    BY <1>0, <1>5, <1>6, Induction
  <2> QED
    BY <1>0, <2>1
<1> QED
  BY <1>7, Zenon DEF S, a, b, hs

\* Walks that agree on a set of handles.
AgreeOn(v, w, C) == \A k \in C : v.node[k] = w.node[k] /\ v.rows[k] = w.rows[k]

LEMMA SameBlocks ==
  ASSUME Arena, NEW C \in SUBSET Handle, NEW v, NEW w, AgreeOn(v, w, C),
         NEW h \in Handle, BelowIn(h, C)
  PROVE  /\ \A e : InTurn(v.node, kids[h], e) = InTurn(w.node, kids[h], e)
         /\ \A e : BlockChildren(v.node, h, e) = BlockChildren(w.node, h, e)
         /\ \A e : PushFigure(v.node, h, e) = PushFigure(w.node, h, e)
<1> DEFINE a == v.node
           b == w.node
<1>1. Len(kids[h]) \in Nat
  BY DEF Arena
<1>2. Alike(a, b, kids[h])
  BY DEF AgreeOn, BelowIn, Alike
<1> HIDE DEF a, b
<1>3. \A e : InTurn(a, kids[h], e) = InTurn(b, kids[h], e)
  BY <1>1, <1>2, SameInTurn
<1>4. \A e : BlockChildren(a, h, e) = BlockChildren(b, h, e)
  BY <1>1, <1>2, SameChildren
<1>5. \A e : PushFigure(a, h, e) = PushFigure(b, h, e)
  BY <1>1, <1>2, SameFigure
<1> QED
  BY <1>3, <1>4, <1>5 DEF a, b

LEMMA SameItems ==
  ASSUME Arena, NEW C \in SUBSET Handle, Closed(C), NEW v, NEW w, AgreeOn(v, w, C),
         NEW h \in Handle, BelowIn(h, C), NEW e
  PROVE  InTurn(ListItems(v), kids[h], e) = InTurn(ListItems(w), kids[h], e)
<1> DEFINE a == ListItems(v)
           b == ListItems(w)
<1>1. ASSUME NEW k \in C PROVE a[k] = b[k]
  <2>1. k \in Handle /\ BelowIn(k, C)
    BY DEF Closed, BelowIn
  <2>2. \A e2 : BlockChildren(v.node, k, e2) = BlockChildren(w.node, k, e2)
    BY <2>1, SameBlocks
  <2>3. ASSUME NEW e2 PROVE PushListItem(v, k, e2) = PushListItem(w, k, e2)
    BY <2>2, Zenon DEF PushListItem
  <2> QED
    BY <2>1, <2>3 DEF ListItems
<1>2. Len(kids[h]) \in Nat /\ \A i \in 1 .. Len(kids[h]) : kids[h][i] \in C
  BY DEF Arena, BelowIn
<1> HIDE DEF a, b
<1>3. InTurn(a, kids[h], e) = InTurn(b, kids[h], e)
  <2>1. Alike(a, b, kids[h])
    BY <1>1, <1>2 DEF Alike
  <2> QED
    BY <1>2, <2>1, SameInTurn
<1> QED
  BY <1>3 DEF a, b

LEMMA SameCells ==
  ASSUME Arena, NEW C \in SUBSET Handle, Closed(C), NEW v, NEW w, AgreeOn(v, w, C),
         NEW h \in Handle, BelowIn(h, C), NEW e
  PROVE  InTurn(RowCells(v), kids[h], e) = InTurn(RowCells(w), kids[h], e)
<1> DEFINE a == RowCells(v)
           b == RowCells(w)
<1>1. ASSUME NEW k \in C PROVE a[k] = b[k]
  <2>1. k \in Handle /\ BelowIn(k, C)
    BY DEF Closed, BelowIn
  <2>2. \A e2 : BlockChildren(v.node, k, e2) = BlockChildren(w.node, k, e2)
    BY <2>1, SameBlocks
  <2>3. ASSUME NEW e2 PROVE PushCell(v, k, e2) = PushCell(w, k, e2)
    BY <2>2, Zenon DEF PushCell
  <2> QED
    BY <2>1, <2>3 DEF RowCells
<1>2. Len(kids[h]) \in Nat /\ \A i \in 1 .. Len(kids[h]) : kids[h][i] \in C
  BY DEF Arena, BelowIn
<1> HIDE DEF a, b
<1>3. InTurn(a, kids[h], e) = InTurn(b, kids[h], e)
  <2>1. Alike(a, b, kids[h])
    BY <1>1, <1>2 DEF Alike
  <2> QED
    BY <1>2, <2>1, SameInTurn
<1> QED
  BY <1>3 DEF a, b

LEMMA SameRows ==
  ASSUME Arena, NEW C \in SUBSET Handle, Closed(C), NEW v, NEW w, AgreeOn(v, w, C),
         NEW h \in Handle, BelowIn(h, C), NEW e
  PROVE  CollectRows(v, h, e) = CollectRows(w, h, e)
<1> DEFINE a == [k \in Handle |-> [e2 \in Extractor |-> PushRow(v, k, e2)]]
           b == [k \in Handle |-> [e2 \in Extractor |-> PushRow(w, k, e2)]]
<1>1. ASSUME NEW k \in C PROVE a[k] = b[k]
  <2>1. k \in Handle /\ BelowIn(k, C) /\ v.rows[k] = w.rows[k]
    BY DEF Closed, BelowIn, AgreeOn
  <2>2. \A e2 : InTurn(RowCells(v), kids[k], e2) = InTurn(RowCells(w), kids[k], e2)
    BY <2>1, SameCells
  <2>3. ASSUME NEW e2 PROVE PushRow(v, k, e2) = PushRow(w, k, e2)
    BY <2>1, <2>2, Zenon DEF PushRow
  <2> QED
    BY <2>1, <2>3
<1>2. Len(kids[h]) \in Nat /\ \A i \in 1 .. Len(kids[h]) : kids[h][i] \in C
  BY DEF Arena, BelowIn
<1>3. CollectRows(v, h, e) = InTurn(a, kids[h], e) /\ CollectRows(w, h, e) = InTurn(b, kids[h], e)
  BY DEF CollectRows
<1> HIDE DEF a, b
<1>4. InTurn(a, kids[h], e) = InTurn(b, kids[h], e)
  <2>1. Alike(a, b, kids[h])
    BY <1>1, <1>2 DEF Alike
  <2> QED
    BY <1>2, <2>1, SameInTurn
<1> QED
  BY <1>3, <1>4

LEMMA SameElement ==
  ASSUME Arena, NEW C \in SUBSET Handle, Closed(C), NEW v, NEW w, AgreeOn(v, w, C),
         NEW h \in Handle, BelowIn(h, C), NEW e
  PROVE  HandleElement(v, h, e) = HandleElement(w, h, e)
<1>1. /\ \A e2 : InTurn(v.node, kids[h], e2) = InTurn(w.node, kids[h], e2)
      /\ \A e2 : BlockChildren(v.node, h, e2) = BlockChildren(w.node, h, e2)
      /\ \A e2 : PushFigure(v.node, h, e2) = PushFigure(w.node, h, e2)
  BY SameBlocks
<1>2. InTurn(ListItems(v), kids[h], e) = InTurn(ListItems(w), kids[h], e)
  BY SameItems
<1>3. PushTable(v, h, e) = PushTable(w, h, e)
  <2>1. CollectRows(v, h, e) = CollectRows(w, h, e)
    BY SameRows
  <2> QED
    BY <2>1, Zenon DEF PushTable
<1>4. PushForm(v.node, h, e) = PushForm(w.node, h, e)
  BY <1>1, Zenon DEF PushForm
<1> QED
  BY <1>1, <1>2, <1>3, <1>4, Zenon DEF HandleElement

LEMMA SameWalk ==
  ASSUME Arena, NEW C \in SUBSET Handle, Closed(C), NEW v, NEW w, AgreeOn(v, w, C),
         NEW h \in Handle, BelowIn(h, C), NEW e
  PROVE  WalkNode(v, h, e) = WalkNode(w, h, e)
<1>1. InTurn(v.node, kids[h], e) = InTurn(w.node, kids[h], e)
  BY SameBlocks
<1>2. \A e2 : HandleElement(v, h, e2) = HandleElement(w, h, e2)
  BY SameElement
<1> QED
  BY <1>1, <1>2, Zenon DEF WalkNode

-----------------------------------------------------------------------------
(* Each recursion ends before its levels do.                                *)

\* The set of handles to walk through, for a function that settled.
LEMMA OneSet ==
  ASSUME NEW f, Settled(f), NEW h \in Handle
  PROVE  \E C \in SUBSET Handle :
            Closed(C) /\ BelowIn(h, C) /\ \A k \in C : f[Levels - 1][k] = f[Levels][k]
BY DEF Settled

LEMMA LastLevels == Levels \in 1 .. Levels /\ Levels - 1 \in 0 .. Levels /\ Levels \in 0 .. Levels
BY LimitsAssumption DEF Levels

LEMMA EarlierLevels ==
  ASSUME NEW n \in 1 .. Levels - 1
  PROVE  /\ n \in 1 .. Levels /\ n + 1 \in 1 .. Levels /\ (n + 1) - 1 = n
         /\ n - 1 \in 0 .. Levels /\ n \in 0 .. Levels /\ n + 1 \in 0 .. Levels
BY LimitsAssumption DEF Levels

LEMMA SameText ==
  ASSUME Arena, NEW C \in SUBSET Handle, NEW v, NEW w, \A k \in C : v[k] = w[k],
         NEW h \in Handle, BelowIn(h, C)
  PROVE  TextOf(v, h) = TextOf(w, h)
<1>1. Len(kids[h]) \in Nat /\ Alike(v, w, kids[h])
  BY DEF Arena, Alike, BelowIn
<1>2. Joined(v, kids[h]) = Joined(w, kids[h])
  BY <1>1, SameJoined
<1> QED
  BY <1>2, Zenon DEF TextOf

LEMMA TextSettles ==
  ASSUME IInv
  PROVE  \A h \in Handle : RawText[Levels][h] = TextOf(RawText[Levels], h)
<1> DEFINE f == RawText
<1>1. Arena
  BY InvIsArena
<1>2. \A n \in 1 .. Levels : f[n] = [h \in Handle |-> TextOf(f[n - 1], h)]
  BY RawSteps
<1> HIDE DEF f
<1>3. ASSUME NEW n \in 1 .. Levels - 1, NEW C \in SUBSET Handle, Closed(C),
             \A k \in C : f[n - 1][k] = f[n][k], NEW h \in Handle, BelowIn(h, C)
      PROVE  f[n][h] = f[n + 1][h]
  <2>1. TextOf(f[n - 1], h) = TextOf(f[n], h)
    BY <1>1, <1>3, SameText
  <2>2. f[n] = [k \in Handle |-> TextOf(f[n - 1], k)]
    BY <1>2, EarlierLevels
  <2>3. f[n + 1] = [k \in Handle |-> TextOf(f[n], k)]
    BY <1>2, EarlierLevels
  <2> QED
    BY <2>1, <2>2, <2>3
<1>4. Settled(f)
  BY <1>3, LevelsSettle
<1> SUFFICES ASSUME NEW h \in Handle PROVE f[Levels][h] = TextOf(f[Levels], h)
  BY DEF f
<1>5. PICK C \in SUBSET Handle :
         Closed(C) /\ BelowIn(h, C) /\ \A k \in C : f[Levels - 1][k] = f[Levels][k]
  BY <1>4, OneSet
<1>6. TextOf(f[Levels - 1], h) = TextOf(f[Levels], h)
  BY <1>1, <1>5, SameText
<1> QED
  BY <1>2, <1>6, LastLevels

\* The characters of preformatted text.
LEMMA SameCharacters ==
  ASSUME Arena, NEW C \in SUBSET Handle, NEW v, NEW w, \A k \in C : v[k] = w[k],
         NEW h \in Handle, BelowIn(h, C), NEW e
  PROVE  CharactersOf(v, h, e) = CharactersOf(w, h, e)
<1>1. Len(kids[h]) \in Nat /\ Alike(v, w, kids[h])
  BY DEF Arena, Alike, BelowIn
<1>2. InTurn(v, kids[h], e) = InTurn(w, kids[h], e)
  BY <1>1, SameInTurn
<1> QED
  BY <1>2, Zenon DEF CharactersOf

LEMMA CharactersSettle ==
  ASSUME IInv
  PROVE  \A h \in Handle, e \in Extractor :
            GatherText[Levels][h][e] = CharactersOf(GatherText[Levels], h, e)
<1> DEFINE f == GatherText
<1>1. Arena
  BY InvIsArena
<1>2. \A n \in 1 .. Levels : f[n] = OneText(f[n - 1])
  BY TextSteps
<1> HIDE DEF f
<1>3. ASSUME NEW n \in 1 .. Levels - 1, NEW C \in SUBSET Handle, Closed(C),
             \A k \in C : f[n - 1][k] = f[n][k], NEW h \in Handle, BelowIn(h, C)
      PROVE  f[n][h] = f[n + 1][h]
  <2>1. \A e : CharactersOf(f[n - 1], h, e) = CharactersOf(f[n], h, e)
    BY <1>1, <1>3, SameCharacters
  <2>2. f[n] = OneText(f[n - 1])
    BY <1>2, EarlierLevels
  <2>3. f[n + 1] = OneText(f[n])
    BY <1>2, EarlierLevels
  <2> QED
    BY <2>1, <2>2, <2>3 DEF OneText
<1>4. Settled(f)
  BY <1>3, LevelsSettle
<1> SUFFICES ASSUME NEW h \in Handle, NEW e \in Extractor
             PROVE  f[Levels][h][e] = CharactersOf(f[Levels], h, e)
  BY DEF f
<1>5. PICK C \in SUBSET Handle :
         Closed(C) /\ BelowIn(h, C) /\ \A k \in C : f[Levels - 1][k] = f[Levels][k]
  BY <1>4, OneSet
<1>6. CharactersOf(f[Levels - 1], h, e) = CharactersOf(f[Levels], h, e)
  BY <1>1, <1>5, SameCharacters
<1>7. f[Levels] = OneText(f[Levels - 1])
  BY <1>2, LastLevels
<1> QED
  BY <1>6, <1>7 DEF OneText

\* The options of a select.
EqualIn(v, w, C) == \A k \in C : v[k] = w[k]

LEMMA SameCollected ==
  ASSUME Arena, NEW C \in SUBSET Handle, NEW v, NEW w, EqualIn(v, w, C),
         NEW h \in Handle, BelowIn(h, C), NEW options
  PROVE  CollectedUpTo(v, kids[h], options)[Len(kids[h])]
         = CollectedUpTo(w, kids[h], options)[Len(kids[h])]
<1>1. Len(kids[h]) \in Nat /\ Alike(v, w, kids[h])
  BY DEF Arena, Alike, BelowIn, EqualIn
<1> QED
  BY <1>1, SameOptions

LEMMA OptionsSettle ==
  ASSUME IInv
  PROVE  \A h \in Handle, options \in Seq(Option) :
            CollectOptions[Levels][h][options]
            = CollectedUpTo(CollectOptions[Levels], kids[h], options)[Len(kids[h])]
<1> DEFINE f == CollectOptions
<1>1. Arena
  BY InvIsArena
<1>2. \A n \in 1 .. Levels : f[n] = OneCollecting(f[n - 1])
  BY CollectSteps
<1> HIDE DEF f
<1>3. ASSUME NEW n \in 1 .. Levels - 1, NEW C \in SUBSET Handle, Closed(C),
             \A k \in C : f[n - 1][k] = f[n][k], NEW h \in Handle, BelowIn(h, C)
      PROVE  f[n][h] = f[n + 1][h]
  <2> DEFINE v == f[n - 1]
             w == f[n]
  <2>1. BelowIn(h, C) /\ EqualIn(v, w, C)
    BY <1>3 DEF EqualIn
  <2>2. w = OneCollecting(v)
    BY <1>2, EarlierLevels
  <2>3. f[n + 1] = OneCollecting(w)
    BY <1>2, EarlierLevels
  <2> HIDE DEF v, w
  <2>4. ASSUME NEW options \in Seq(Option)
        PROVE  CollectedUpTo(v, kids[h], options)[Len(kids[h])]
               = CollectedUpTo(w, kids[h], options)[Len(kids[h])]
    BY <1>1, <2>1, SameCollected
  <2>5. f[n + 1][h] = w[h]
    BY <2>2, <2>3, <2>4 DEF OneCollecting
  <2> QED
    BY <2>5 DEF w
<1>4. Settled(f)
  BY <1>3, LevelsSettle
<1> SUFFICES ASSUME NEW h \in Handle, NEW options \in Seq(Option)
             PROVE  f[Levels][h][options]
                    = CollectedUpTo(f[Levels], kids[h], options)[Len(kids[h])]
  BY DEF f
<1>5. PICK C \in SUBSET Handle :
         Closed(C) /\ BelowIn(h, C) /\ \A k \in C : f[Levels - 1][k] = f[Levels][k]
  BY <1>4, OneSet
<1> DEFINE v == f[Levels - 1]
           w == f[Levels]
<1>6. BelowIn(h, C) /\ EqualIn(v, w, C)
  BY <1>5 DEF EqualIn
<1>7. w = OneCollecting(v)
  BY <1>2, LastLevels
<1> HIDE DEF v, w
<1>8. CollectedUpTo(v, kids[h], options)[Len(kids[h])]
      = CollectedUpTo(w, kids[h], options)[Len(kids[h])]
  BY <1>1, <1>6, SameCollected
<1>9. w[h][options] = CollectedUpTo(w, kids[h], options)[Len(kids[h])]
  BY <1>7, <1>8 DEF OneCollecting
<1> QED
  BY <1>9 DEF w

\* Whether a node is a block.
NoBlocks == [h \in Handle |-> FALSE]
OneBlocks(blocks) == [h \in Handle |-> BlockWithin(blocks, h)]

\* Blocks, one level more.
LEMMA BlockSteps ==
  /\ BlockLevel[0] = NoBlocks
         /\ \A n \in 1 .. Levels : BlockLevel[n] = OneBlocks(BlockLevel[n - 1])
<1> DEFINE last == Levels
           begin == NoBlocks
           Step(n, x) == OneBlocks(x)
           Body(k, f) == [n \in 0 .. k |-> IF n = 0 THEN begin ELSE Step(n, f[n - 1])]
           S == {k \in 0 .. last : \E f : f = Body(k, f)}
           loop == BlockLevel
<1>1. loop = CHOOSE f : f = Body(last, f)
  BY DEF BlockLevel, NoBlocks, OneBlocks
<1>2. last \in Nat
  BY LimitsAssumption DEF Levels
<1> HIDE DEF last, begin, Step, loop
<1>3. 0 \in S
  <2> DEFINE f == [n \in 0 .. 0 |-> begin]
  <2>1. f = Body(0, f)
    OBVIOUS
  <2> HIDE DEF f
  <2> QED
    BY <1>2, <2>1
<1>4. ASSUME NEW k \in 1 .. last, k - 1 \in S PROVE k \in S
  <2>1. k \in 0 .. last /\ k - 1 \in 0 .. last
    BY <1>2
  <2>2. PICK f : f = Body(k - 1, f)
    BY <1>4
  <2>3. \A n \in 0 .. k - 1 : f[n] = IF n = 0 THEN begin ELSE Step(n, f[n - 1])
    BY <2>2
  <2> DEFINE g == [n \in 0 .. k |-> IF n = k THEN Step(k, f[k - 1]) ELSE f[n]]
  <2>4. ASSUME NEW n \in 0 .. k PROVE g[n] = IF n = 0 THEN begin ELSE Step(n, g[n - 1])
    <3>1. CASE n = k
      <4>1. k # 0 /\ k - 1 \in 0 .. k /\ k - 1 # k
        BY <1>2
      <4> QED
        BY <3>1, <4>1
    <3>2. CASE n # k
      <4>1. n \in 0 .. k - 1 /\ g[n] = f[n]
        BY <3>2
      <4>2. CASE n = 0
        BY <2>3, <4>1, <4>2
      <4>3. CASE n # 0
        <5>1. n - 1 \in 0 .. k /\ n - 1 # k
          BY <4>1, <4>3
        <5> QED
          BY <2>3, <4>1, <4>3, <5>1
      <4> QED
        BY <4>2, <4>3
    <3> QED
      BY <3>1, <3>2
  <2>5. g = [n \in 0 .. k |-> g[n]]
    OBVIOUS
  <2> HIDE DEF g
  <2>6. g = Body(k, g)
    BY <2>4, <2>5
  <2> QED
    BY <2>1, <2>6
<1> HIDE DEF S
<1>5. last \in S
  BY <1>2, <1>3, <1>4, Induction
<1>6. loop = Body(last, loop)
  BY <1>1, <1>5 DEF S
<1>7. loop[0] = begin /\ \A n \in 1 .. last : loop[n] = Step(n, loop[n - 1])
  BY <1>2, <1>6
<1> QED
  BY <1>7, Zenon DEF loop, last, begin, Step

LEMMA BlocksSettle ==
  ASSUME IInv
  PROVE  \A h \in Handle : BlockLevel[Levels][h] = BlockWithin(BlockLevel[Levels], h)
<1> DEFINE f == BlockLevel
<1>1. Arena
  BY InvIsArena
<1>2. \A n \in 1 .. Levels : f[n] = OneBlocks(f[n - 1])
  BY BlockSteps
<1> HIDE DEF f
<1>3. ASSUME NEW C \in SUBSET Handle, NEW v, NEW w, \A k \in C : v[k] = w[k],
             NEW h \in Handle, BelowIn(h, C)
      PROVE  BlockWithin(v, h) = BlockWithin(w, h)
  <2>1. \A i \in DOMAIN kids[h] : v[kids[h][i]] = w[kids[h][i]]
    BY <1>1, <1>3 DEF Arena, BelowIn
  <2> QED
    BY <2>1, Zenon DEF BlockWithin
<1>4. ASSUME NEW n \in 1 .. Levels - 1, NEW C \in SUBSET Handle, Closed(C),
             \A k \in C : f[n - 1][k] = f[n][k], NEW h \in Handle, BelowIn(h, C)
      PROVE  f[n][h] = f[n + 1][h]
  <2>1. BlockWithin(f[n - 1], h) = BlockWithin(f[n], h)
    BY <1>3, <1>4
  <2>2. f[n] = OneBlocks(f[n - 1])
    BY <1>2, EarlierLevels
  <2>3. f[n + 1] = OneBlocks(f[n])
    BY <1>2, EarlierLevels
  <2> QED
    BY <2>1, <2>2, <2>3 DEF OneBlocks
<1>5. Settled(f)
  BY <1>4, LevelsSettle
<1> SUFFICES ASSUME NEW h \in Handle PROVE f[Levels][h] = BlockWithin(f[Levels], h)
  BY DEF f
<1>6. PICK C \in SUBSET Handle :
         Closed(C) /\ BelowIn(h, C) /\ \A k \in C : f[Levels - 1][k] = f[Levels][k]
  BY <1>5, OneSet
<1>7. BlockWithin(f[Levels - 1], h) = BlockWithin(f[Levels], h)
  BY <1>3, <1>6
<1> QED
  BY <1>2, <1>7, LastLevels DEF OneBlocks

\* The inline walk; it may change the style on its way down.
LEMMA SameSegments ==
  ASSUME Arena, NEW C \in SUBSET Handle, NEW v, NEW w,
         \A style \in Style, k \in C : v[style][k] = w[style][k],
         NEW style \in Style, NEW h \in Handle, BelowIn(h, C), NEW e
  PROVE  SegmentsOf(v, style, h, e) = SegmentsOf(w, style, h, e)
<1> DEFINE inner == ChildContext(h, style)
           a == v[inner]
           b == w[inner]
<1>1. inner \in Style
  BY DEF ChildContext, Style
<1>2. \A k \in C : a[k] = b[k]
  BY <1>1
<1> HIDE DEF a, b, inner
<1>3. Len(kids[h]) \in Nat /\ Alike(a, b, kids[h])
  BY <1>2 DEF Arena, Alike, BelowIn
<1>4. \A e2 : InTurn(a, kids[h], e2) = InTurn(b, kids[h], e2)
  BY <1>3, SameInTurn
<1>5. \A e2 : InTurn(v[ChildContext(h, style)], kids[h], e2)
              = InTurn(w[ChildContext(h, style)], kids[h], e2)
  BY <1>4 DEF a, b, inner
<1>6. CASE name[h] = Text
  BY <1>6 DEF SegmentsOf, Text
<1>7. CASE name[h] = "script" /\ name[h] # Text
  BY <1>7 DEF SegmentsOf
<1>8. CASE name[h] = "style" /\ name[h] # Text
  BY <1>8 DEF SegmentsOf
<1>9. CASE name[h] = "q" /\ name[h] # Text
  BY <1>5, <1>9 DEF SegmentsOf
<1>10. CASE name[h] \notin {Text, "script", "style", "q"}
  BY <1>5, <1>10 DEF SegmentsOf
<1> QED
  BY <1>6, <1>7, <1>8, <1>9, <1>10

LEMMA SegmentsSettle ==
  ASSUME IInv
  PROVE  \A style \in Style, h \in Handle, e \in Extractor :
            GatherSegments[Levels][style][h][e]
            = SegmentsOf(GatherSegments[Levels], style, h, e)
<1> DEFINE g == GatherSegments
           f == [n \in 0 .. Levels |-> [h \in Handle |-> [style \in Style |-> g[n][style][h]]]]
<1>1. Arena
  BY InvIsArena
<1>2. \A n \in 1 .. Levels : g[n] = OneGather(g[n - 1])
  BY GatherSteps
<1> HIDE DEF g
<1>3. \A n \in 0 .. Levels, h \in Handle, style \in Style : f[n][h][style] = g[n][style][h]
  OBVIOUS
<1>4. \A n \in 0 .. Levels, h \in Handle : f[n][h] = [style \in Style |-> g[n][style][h]]
  OBVIOUS
<1> HIDE DEF f
<1>5. ASSUME NEW n \in 1 .. Levels - 1, NEW C \in SUBSET Handle, Closed(C),
             \A k \in C : f[n - 1][k] = f[n][k], NEW h \in Handle, BelowIn(h, C)
      PROVE  f[n][h] = f[n + 1][h]
  <2>1. \A style \in Style, k \in C : g[n - 1][style][k] = g[n][style][k]
    BY <1>3, <1>5, EarlierLevels
  <2>2. ASSUME NEW style \in Style PROVE g[n][style][h] = g[n + 1][style][h]
    <3>1. \A e : SegmentsOf(g[n - 1], style, h, e) = SegmentsOf(g[n], style, h, e)
      BY <1>1, <1>5, <2>1, SameSegments
    <3>2. g[n] = OneGather(g[n - 1])
      BY <1>2, EarlierLevels
    <3>3. g[n + 1] = OneGather(g[n])
      BY <1>2, EarlierLevels
    <3> QED
      BY <3>1, <3>2, <3>3 DEF OneGather
  <2>3. f[n][h] = [style \in Style |-> g[n][style][h]]
    BY <1>4, EarlierLevels
  <2>4. f[n + 1][h] = [style \in Style |-> g[n + 1][style][h]]
    BY <1>4, EarlierLevels
  <2> QED
    BY <2>2, <2>3, <2>4
<1>6. Settled(f)
  BY <1>5, LevelsSettle
<1> SUFFICES ASSUME NEW style \in Style, NEW h \in Handle, NEW e \in Extractor
             PROVE  g[Levels][style][h][e] = SegmentsOf(g[Levels], style, h, e)
  BY DEF g
<1>7. PICK C \in SUBSET Handle :
         Closed(C) /\ BelowIn(h, C) /\ \A k \in C : f[Levels - 1][k] = f[Levels][k]
  BY <1>6, OneSet
<1>8. \A s \in Style, k \in C : g[Levels - 1][s][k] = g[Levels][s][k]
  BY <1>3, <1>7, LastLevels
<1>9. SegmentsOf(g[Levels - 1], style, h, e) = SegmentsOf(g[Levels], style, h, e)
  BY <1>1, <1>7, <1>8, SameSegments
<1>10. g[Levels] = OneGather(g[Levels - 1])
  BY <1>2, LastLevels
<1> QED
  BY <1>9, <1>10 DEF OneGather

\* The block walk, of nodes and of the rows of a table.
LEMMA BlockWalksSettle ==
  ASSUME IInv
  PROVE  \A h \in Handle, e \in Extractor :
            /\ Walks[Levels].node[h][e] = WalkNode(Walks[Levels], h, e)
            /\ Walks[Levels].rows[h][e] = CollectRows(Walks[Levels], h, e)
<1> DEFINE g == Walks
           f == [n \in 0 .. Levels |-> [h \in Handle |-> <<g[n].node[h], g[n].rows[h]>>]]
<1>1. Arena
  BY InvIsArena
<1>2. \A n \in 1 .. Levels : g[n] = OneWalk(g[n - 1])
  BY WalkSteps
<1> HIDE DEF g
<1>3. \A n \in 0 .. Levels, h \in Handle : f[n][h] = <<g[n].node[h], g[n].rows[h]>>
  OBVIOUS
<1> HIDE DEF f
<1>4. ASSUME NEW n \in 0 .. Levels, NEW m \in 0 .. Levels, NEW C \in SUBSET Handle,
             \A k \in C : f[n][k] = f[m][k]
      PROVE  AgreeOn(g[n], g[m], C)
  BY <1>3, <1>4 DEF AgreeOn
<1>5. ASSUME NEW n \in 1 .. Levels - 1, NEW C \in SUBSET Handle, Closed(C),
             \A k \in C : f[n - 1][k] = f[n][k], NEW h \in Handle, BelowIn(h, C)
      PROVE  f[n][h] = f[n + 1][h]
  <2> DEFINE v == g[n - 1]
             w == g[n]
  <2>1. AgreeOn(v, w, C)
    BY <1>4, <1>5, EarlierLevels
  <2>2. g[n] = OneWalk(v)
    BY <1>2, EarlierLevels
  <2>3. g[n + 1] = OneWalk(w)
    BY <1>2, EarlierLevels
  <2>4. f[n][h] = <<g[n].node[h], g[n].rows[h]>>
    BY <1>3, EarlierLevels
  <2>5. f[n + 1][h] = <<g[n + 1].node[h], g[n + 1].rows[h]>>
    BY <1>3, EarlierLevels
  <2> HIDE DEF v, w
  <2>6. \A e : WalkNode(v, h, e) = WalkNode(w, h, e)
    BY <1>1, <1>5, <2>1, SameWalk
  <2>7. \A e : CollectRows(v, h, e) = CollectRows(w, h, e)
    BY <1>1, <1>5, <2>1, SameRows
  <2>8. OneWalk(v).node[h] = OneWalk(w).node[h]
    BY <2>6 DEF OneWalk
  <2>9. OneWalk(v).rows[h] = OneWalk(w).rows[h]
    BY <2>7 DEF OneWalk
  <2> QED
    BY <2>2, <2>3, <2>4, <2>5, <2>8, <2>9
<1>6. Settled(f)
  BY <1>5, LevelsSettle
<1> SUFFICES ASSUME NEW h \in Handle, NEW e \in Extractor
             PROVE  /\ g[Levels].node[h][e] = WalkNode(g[Levels], h, e)
                    /\ g[Levels].rows[h][e] = CollectRows(g[Levels], h, e)
  BY DEF g
<1>7. PICK C \in SUBSET Handle :
         Closed(C) /\ BelowIn(h, C) /\ \A k \in C : f[Levels - 1][k] = f[Levels][k]
  BY <1>6, OneSet
<1> DEFINE v == g[Levels - 1]
           w == g[Levels]
<1>8. AgreeOn(v, w, C) /\ w = OneWalk(v)
  BY <1>2, <1>4, <1>7, LastLevels
<1> HIDE DEF v, w
<1>9. WalkNode(v, h, e) = WalkNode(w, h, e) /\ CollectRows(v, h, e) = CollectRows(w, h, e)
  BY <1>1, <1>7, <1>8, SameWalk, SameRows
<1>10. w.node[h][e] = WalkNode(v, h, e) /\ w.rows[h][e] = CollectRows(v, h, e)
  BY <1>8 DEF OneWalk
<1> QED
  BY <1>9, <1>10 DEF w

\* Every recursive function of the extractor does, with the levels it is given,
\* what it would do with as many as it likes: its recursion ends by itself.
LevelsSuffice ==
    /\ \A h \in Handle :
          /\ RawText[Levels][h] = TextOf(RawText[Levels], h)
          /\ BlockLevel[Levels][h] = BlockWithin(BlockLevel[Levels], h)
          /\ \A options \in Seq(Option) :
                CollectOptions[Levels][h][options]
                = CollectedUpTo(CollectOptions[Levels], kids[h], options)[Len(kids[h])]
    /\ \A h \in Handle, e \in Extractor :
          /\ \A style \in Style :
                GatherSegments[Levels][style][h][e]
                = SegmentsOf(GatherSegments[Levels], style, h, e)
          /\ GatherText[Levels][h][e] = CharactersOf(GatherText[Levels], h, e)
          /\ Walks[Levels].node[h][e] = WalkNode(Walks[Levels], h, e)
          /\ Walks[Levels].rows[h][e] = CollectRows(Walks[Levels], h, e)

LEMMA InvMakesLevelsSuffice == IInv => LevelsSuffice
<1> SUFFICES ASSUME IInv PROVE LevelsSuffice
  OBVIOUS
<1>1. \A h \in Handle : RawText[Levels][h] = TextOf(RawText[Levels], h)
  BY TextSettles
<1>2. \A h \in Handle : BlockLevel[Levels][h] = BlockWithin(BlockLevel[Levels], h)
  BY BlocksSettle
<1>3. \A h \in Handle, options \in Seq(Option) :
         CollectOptions[Levels][h][options]
         = CollectedUpTo(CollectOptions[Levels], kids[h], options)[Len(kids[h])]
  BY OptionsSettle
<1>4. \A style \in Style, h \in Handle, e \in Extractor :
         GatherSegments[Levels][style][h][e] = SegmentsOf(GatherSegments[Levels], style, h, e)
  BY SegmentsSettle
<1>5. \A h \in Handle, e \in Extractor :
         GatherText[Levels][h][e] = CharactersOf(GatherText[Levels], h, e)
  BY CharactersSettle
<1>6. \A h \in Handle, e \in Extractor :
         /\ Walks[Levels].node[h][e] = WalkNode(Walks[Levels], h, e)
         /\ Walks[Levels].rows[h][e] = CollectRows(Walks[Levels], h, e)
  BY BlockWalksSettle
<1> QED
  BY <1>1, <1>2, <1>3, <1>4, <1>5, <1>6, Zenon DEF LevelsSuffice

(* Whatever page the parser builds, no walk of the extractor is cut off by *)
(* the levels the model gives it: walk_node, collect_rows, gather_segments,*)
(* gather_text and collect_options end by themselves, because the arena is *)
(* a forest of fewer levels than handles.                                  *)
THEOREM WalksEnd == SpecDocument => []LevelsSuffice
<1>1. DocumentInv => LevelsSuffice
  BY InvMakesLevelsSuffice DEF DocumentInv
<1> QED
  BY <1>1, DocumentCorrect, PTL

-----------------------------------------------------------------------------
(* The nodes the walk makes, level by level.                               *)

\* An operation makes nodes of D.
Made(r, D) == r.self \in Extractor /\ r.made \in Seq(D)

WalksIn(walk, D) == \A h \in Handle, e \in Extractor : Made(walk[h][e], D)

LEMMA NodeIn ==
  ASSUME NEW kind \in Kinds, NEW h \in Handle, NEW D
  PROVE  Node(kind, h) \in NodesOver(D)
<1> DEFINE hidden == name[h] \in grammar.hidden \cap Styled
           one == <<h>>
           none == <<>>
<1>1. /\ one \in Seq(Handle) /\ none \in Seq(Handle) /\ none \in Seq(Run) /\ none \in Seq(D)
      /\ none \in Seq(Nat) /\ none \in Seq(Option)
  OBVIOUS
<1>2. hidden \in BOOLEAN
  OBVIOUS
<1>3. Node(kind, h) = [kind |-> kind, of |-> one, runs |-> none, kids |-> none, id |-> None,
                       names |-> none, text |-> none, options |-> none, hide |-> hidden]
  BY DEF Node
<1> HIDE DEF hidden, one, none
<1> QED
  BY <1>1, <1>2, <1>3 DEF NodesOver

LEMMA EditIn ==
  ASSUME NEW D, NEW n \in NodesOver(D)
  PROVE  /\ \A v \in Seq(Handle) : [n EXCEPT !.of = v] \in NodesOver(D)
         /\ \A v \in Seq(Handle) : [n EXCEPT !.names = v] \in NodesOver(D)
         /\ \A v \in Seq(Run) : [n EXCEPT !.runs = v] \in NodesOver(D)
         /\ \A v \in Seq(Nat) : [n EXCEPT !.text = v] \in NodesOver(D)
         /\ \A v \in Nat : [n EXCEPT !.id = v] \in NodesOver(D)
         /\ \A v \in Seq(Option) : [n EXCEPT !.options = v] \in NodesOver(D)
         /\ \A v \in BOOLEAN : [n EXCEPT !.hide = v] \in NodesOver(D)
         /\ \A E : \A v \in Seq(E) : [n EXCEPT !.kids = v] \in NodesOver(E)
<1>1. \A v \in Seq(Handle) : [n EXCEPT !.of = v] \in NodesOver(D)
  BY DEF NodesOver
<1>2. \A v \in Seq(Handle) : [n EXCEPT !.names = v] \in NodesOver(D)
  BY DEF NodesOver
<1>3. \A v \in Seq(Run) : [n EXCEPT !.runs = v] \in NodesOver(D)
  BY DEF NodesOver
<1>4. \A v \in Seq(Nat) : [n EXCEPT !.text = v] \in NodesOver(D)
  BY DEF NodesOver
<1>5. \A v \in Nat : [n EXCEPT !.id = v] \in NodesOver(D)
  BY DEF NodesOver
<1>6. \A v \in Seq(Option) : [n EXCEPT !.options = v] \in NodesOver(D)
  BY DEF NodesOver
<1>7. \A v \in BOOLEAN : [n EXCEPT !.hide = v] \in NodesOver(D)
  BY DEF NodesOver
<1>8. \A E : \A v \in Seq(E) : [n EXCEPT !.kids = v] \in NodesOver(E)
  BY DEF NodesOver
<1> QED
  BY <1>1, <1>2, <1>3, <1>4, <1>5, <1>6, <1>7, <1>8

LEMMA OneIn ==
  ASSUME NEW D, NEW n \in D, NEW d \in Extractor
  PROVE  Made(Yield(<<n>>, d), D)
BY DEF Made, Yield

LEMMA NothingIn ==
  ASSUME NEW D, NEW d \in Extractor
  PROVE  Made(Nothing(d), D)
<1> DEFINE none == <<>>
<1>1. none \in Seq(D)
  OBVIOUS
<1> HIDE DEF none
<1>2. Nothing(d) = [made |-> none, self |-> d]
  BY DEF Nothing, Yield, none
<1> QED
  BY <1>1, <1>2 DEF Made

LEMMA ContinueIn ==
  ASSUME NEW D, NEW r, NEW s, Made(r, D), Made(s, D)
  PROVE  Made(Continue(r, s), D)
<1>1. r.made \o s.made \in Seq(D)
  BY DEF Made
<1> QED
  BY <1>1 DEF Made, Continue, Yield

LEMMA MadeMore ==
  ASSUME NEW D, NEW E, D \subseteq E
  PROVE  /\ \A r : Made(r, D) => Made(r, E)
         /\ \A walk : WalksIn(walk, D) => WalksIn(walk, E)
<1>1. Seq(D) \subseteq Seq(E)
  BY LongerLists
<1>2. \A r : Made(r, D) => Made(r, E)
  BY <1>1 DEF Made
<1> QED
  BY <1>2 DEF WalksIn

LEMMA IdleIn ==
  ASSUME NEW D
  PROVE  WalksIn(Idle, D)
<1> SUFFICES ASSUME NEW h \in Handle, NEW e \in Extractor PROVE Made(Idle[h][e], D)
  BY DEF WalksIn
<1>1. Idle[h][e] = Nothing(e)
  BY DEF Idle
<1> QED
  BY <1>1, NothingIn

LEMMA InTurnIn ==
  ASSUME NEW D, NEW walk, WalksIn(walk, D), NEW hs \in Seq(Handle), NEW e \in Extractor
  PROVE  Made(InTurn(walk, hs, e), D)
<1> DEFINE N == Len(hs)
           walked == WalkedUpTo(walk, hs, e)
           S == {n \in 0 .. N : Made(walked[n], D)}
<1>1. N \in Nat /\ \A n \in 1 .. N : hs[n] \in Handle
  OBVIOUS
<1>2. walked[0] = Nothing(e) /\ \A n \in 1 .. N : walked[n] = Proceed(walked[n - 1], walk[hs[n]])
  <2>1. Len(hs) \in Nat
    OBVIOUS
  <2>2. /\ WalkedUpTo(walk, hs, e)[0] = Nothing(e)
        /\ \A n \in 1 .. Len(hs) :
              WalkedUpTo(walk, hs, e)[n] = Proceed(WalkedUpTo(walk, hs, e)[n - 1], walk[hs[n]])
    <3> HIDE DEF N, walked, S
    <3> QED
      BY <2>1, WalkedSteps
  <2> QED
    BY <2>2, Zenon DEF N, walked
<1> HIDE DEF N, walked
<1>3. 0 \in S
  BY <1>1, <1>2, NothingIn
<1>4. ASSUME NEW n \in 1 .. N, n - 1 \in S PROVE n \in S
  <2> DEFINE r == walked[n - 1]
             q == walk[hs[n]][r.self]
  <2>1. Made(r, D)
    BY <1>4
  <2>2. Made(q, D)
    BY <1>1, <2>1 DEF Made, WalksIn
  <2>3. walked[n] = Continue(r, q)
    BY <1>2 DEF Proceed
  <2> HIDE DEF r, q
  <2>4. Made(Continue(r, q), D)
    BY <2>1, <2>2, ContinueIn
  <2>5. n \in 0 .. N
    BY <1>1
  <2> QED
    BY <2>3, <2>4, <2>5
<1> HIDE DEF S
<1>5. 0 .. N \subseteq S
  BY <1>1, <1>3, <1>4, Induction
<1>6. N \in S
  BY <1>1, <1>5
<1> QED
  BY <1>6 DEF S, InTurn, N, walked

LEMMA MarkIn ==
  ASSUME NEW D, NEW h \in Handle, NEW e \in Extractor
  PROVE  Made(Mark(h, e), NodesOver(D))
<1> DEFINE entered == EnterAnchorNames(h, e)
           marker == EmitAnchorMarker(h, entered)
           anchor == [Node("anchor", h) EXCEPT !.names = entered.pending]
<1>1. entered \in Extractor
  BY ExtractorFacts
<1>2. Mark(h, e) = [marker EXCEPT !.self.marked = h]
  BY DEF Mark
<1>3. anchor \in NodesOver(D)
  <2>1. "anchor" \in Kinds
    BY DEF Kinds
  <2>2. entered.pending \in Seq(Handle)
    BY <1>1 DEF Extractor
  <2> HIDE DEF entered
  <2> QED
    BY <2>1, <2>2, NodeIn, EditIn
<1>4. marker = Nothing(entered) \/ marker = Yield(<<anchor>>, TakePending(entered))
  BY DEF EmitAnchorMarker
<1> HIDE DEF entered, marker, anchor
<1>5. Made(Nothing(entered), NodesOver(D))
  BY <1>1, NothingIn
<1>6. Made(Yield(<<anchor>>, TakePending(entered)), NodesOver(D))
  BY <1>1, <1>3, ExtractorFacts, OneIn
<1>7. Made(marker, NodesOver(D))
  BY <1>4, <1>5, <1>6
<1>8. marker = [made |-> marker.made, self |-> marker.self]
  BY <1>4 DEF Nothing, Yield
<1> DEFINE left == [marker.self EXCEPT !.marked = h]
<1>9. left \in Extractor
  BY <1>7, ExtractorFacts DEF Made
<1>10. [marker EXCEPT !.self.marked = h] = [made |-> marker.made, self |-> left]
  BY <1>8
<1> HIDE DEF left
<1> QED
  BY <1>2, <1>7, <1>9, <1>10 DEF Made

-----------------------------------------------------------------------------
(* Text.                                                                   *)

LEMMA GatheredRuns ==
  ASSUME Arena, NEW hs \in Seq(Handle), NEW e \in Extractor
  PROVE  /\ Gather(hs, e).self \in Extractor
         /\ CollapseSegments(Gather(hs, e).made) \in Seq(Run)
<1> DEFINE r == Gather(hs, e)
           segs == r.made
           b == BuiltUpTo(segs)[Len(segs)]
           p == StyledUpTo(segs)[Len(segs)]
<1>1. r.self \in Extractor /\ segs \in Segments
  BY GatherOK DEF ReadsAs
<1> HIDE DEF r
<1>2. segs \in Seq(Item(Nat, Style, Handle)) /\ Len(segs) \in Nat /\ Len(segs) \in 0 .. Len(segs)
  BY <1>1 DEF Segments
<1>3. Space \in Nat /\ Plain \in Style
  BY PlainIsAStyle DEF Space
<1> HIDE DEF segs
<1>4. p \in Seq(StyledChar(Nat, Style)) /\ BuilderOK(b, p, Nat, Style, Handle)
  BY <1>2, <1>3, BuiltOK
<1>5. CollapseSegments(segs) = Finish(b)
  BY DEF CollapseSegments
<1> HIDE DEF b, p
<1>6. Finish(b) \in Seq(Item(Nat, Style, Handle))
  BY <1>3, <1>4, FinishOK
<1>7. CollapseSegments(segs) \in Seq(Run)
  BY <1>5, <1>6, RunIsItem
<1> QED
  BY <1>1, <1>7 DEF segs, r

LEMMA PushGatheredIn ==
  ASSUME Arena, NEW D, NEW hs \in Seq(Handle), NEW e \in Extractor, NEW n \in NodesOver(D)
  PROVE  Made(PushGathered(Gather(hs, e), n), NodesOver(D))
<1> DEFINE r == Gather(hs, e)
           runs == CollapseSegments(r.made)
           full == [n EXCEPT !.runs = runs]
<1>1. r.self \in Extractor /\ runs \in Seq(Run)
  BY GatheredRuns
<1>2. PushGathered(r, n) = Nothing(r.self) \/ PushGathered(r, n) = Yield(<<full>>, r.self)
  BY DEF PushGathered, PushRuns
<1> HIDE DEF r, runs
<1>3. full \in NodesOver(D)
  BY <1>1, EditIn
<1> HIDE DEF full
<1>4. Made(Nothing(r.self), NodesOver(D)) /\ Made(Yield(<<full>>, r.self), NodesOver(D))
  BY <1>1, <1>3, NothingIn, OneIn
<1> QED
  BY <1>2, <1>4 DEF r

LEMMA FlushInlineParagraphIn ==
  ASSUME Arena, NEW D, NEW hs \in Seq(Handle), NEW e \in Extractor
  PROVE  Made(FlushInlineParagraph(hs, e), NodesOver(D))
<1>1. CASE hs = <<>>
  <2>1. FlushInlineParagraph(hs, e) = Nothing(e)
    BY <1>1 DEF FlushInlineParagraph
  <2> QED
    BY <2>1, NothingIn
<1>2. CASE hs # <<>>
  <2> DEFINE first == Node("p", hs[1])
             named == [first EXCEPT !.of = hs]
             n == AnonymousParagraph(hs)
  <2>1. FlushInlineParagraph(hs, e) = PushGathered(Gather(hs, e), n)
    BY <1>2 DEF FlushInlineParagraph
  <2>2. hs[1] \in Handle
    BY <1>2
  <2>3. "p" \in Kinds
    BY DEF Kinds, TextBlock
  <2>4. first \in NodesOver(D)
    BY <2>2, <2>3, NodeIn
  <2>5. n = [named EXCEPT !.hide = FALSE]
    BY DEF AnonymousParagraph
  <2> HIDE DEF first
  <2>6. named \in NodesOver(D)
    BY <2>4, EditIn
  <2> HIDE DEF named, n
  <2>7. n \in NodesOver(D)
    BY <2>5, <2>6, EditIn
  <2> QED
    BY <2>1, <2>7, PushGatheredIn
<1> QED
  BY <1>1, <1>2

LEMMA PushTextBlockIn ==
  ASSUME Arena, NEW D, NEW h \in Handle, NEW e \in Extractor, name[h] \in TextBlock
  PROVE  Made(PushTextBlock(h, e), NodesOver(D))
<1>1. name[h] \in Kinds
  BY DEF Kinds
<1>2. Node(name[h], h) \in NodesOver(D)
  BY <1>1, NodeIn
<1>3. <<h>> \in Seq(Handle)
  OBVIOUS
<1> QED
  BY <1>2, <1>3, PushGatheredIn DEF PushTextBlock

LEMMA GatherTextIn ==
  ASSUME Arena
  PROVE  \A n \in 0 .. Levels : WalksIn(GatherText[n], Nat)
<1> DEFINE S == {n \in 0 .. Levels : WalksIn(GatherText[n], Nat)}
<1>1. Levels \in Nat
  BY LimitsAssumption DEF Levels
<1>2. 0 \in S
  BY <1>1, IdleIn, TextSteps
<1>3. ASSUME NEW n \in 1 .. Levels, n - 1 \in S PROVE n \in S
  <2> DEFINE g == GatherText[n - 1]
  <2>1. WalksIn(g, Nat) /\ n \in 0 .. Levels
    BY <1>1, <1>3
  <2>2. GatherText[n] = OneText(g)
    BY TextSteps
  <2> HIDE DEF g
  <2>3. WalksIn(OneText(g), Nat)
    <3> SUFFICES ASSUME NEW h \in Handle, NEW e \in Extractor
                 PROVE  Made(OneText(g)[h][e], Nat)
      BY DEF WalksIn
    <3>1. OneText(g)[h][e] = CharactersOf(g, h, e)
      BY DEF OneText
    <3>2. kids[h] \in Seq(Handle) /\ text[h] \in Seq(Nat) /\ Suppress(e) \in Extractor
      BY ExtractorFacts DEF Arena
    <3>3. Made(InTurn(g, kids[h], e), Nat)
      BY <2>1, <3>2, InTurnIn
    <3>4. Made(Yield(text[h], e), Nat)
      BY <3>2 DEF Made, Yield
    <3>5. Made(Nothing(Suppress(e)), Nat) /\ Made(Nothing(e), Nat)
      BY <3>2, NothingIn
    <3>6. CharactersOf(g, h, e) \in
            {Yield(text[h], e), Nothing(Suppress(e)), Nothing(e), InTurn(g, kids[h], e)}
      BY DEF CharactersOf
    <3> QED
      BY <3>1, <3>3, <3>4, <3>5, <3>6
  <2> QED
    BY <2>1, <2>2, <2>3
<1> HIDE DEF S
<1>4. 0 .. Levels \subseteq S
  BY <1>1, <1>2, <1>3, Induction
<1> QED
  BY <1>4 DEF S

LEMMA LeastIn ==
  ASSUME NEW S \in SUBSET Nat, S # {}
  PROVE  Min(S) \in S
<1> DEFINE P(m) == m \in S /\ \A y \in S : m <= y
<1>1. \E m : P(m)
  BY LeastNumber
<1>2. Min(S) = CHOOSE m : P(m)
  BY DEF Min
<1> DEFINE least == Min(S)
<1>3. P(least)
  <2> HIDE DEF P
  <2> QED
    BY <1>1, <1>2
<1> QED
  BY <1>3

LEMMA TrimmedLines ==
  ASSUME NEW t \in Seq(Nat)
  PROVE  TrimLineFeeds(t) \in Seq(Nat)
<1> DEFINE seen == {i \in DOMAIN t : Visible(t[i])}
<1>1. TrimLineFeeds(t) = IF seen = {} THEN <<>> ELSE SubSeq(t, Min(seen), Max(seen))
  BY DEF TrimLineFeeds
<1>2. Len(t) \in Nat /\ DOMAIN t = 1 .. Len(t)
  OBVIOUS
<1>3. seen \in SUBSET (0 .. Len(t)) /\ \A i \in seen : 1 <= i
  BY <1>2
<1>4. seen \in SUBSET Nat /\ \A i \in seen : i \in 1 .. Len(t)
  BY <1>2, <1>3
<1> HIDE DEF seen
<1>6. ASSUME seen # {} PROVE Min(seen) \in 1 .. Len(t) /\ Max(seen) \in 1 .. Len(t)
  <2>1. Max(seen) \in seen
    BY <1>2, <1>3, <1>6, GreatestNumber
  <2>2. Min(seen) \in seen
    BY <1>4, <1>6, LeastIn
  <2> QED
    BY <1>4, <2>1, <2>2
<1>5. ASSUME seen # {} PROVE SubSeq(t, Min(seen), Max(seen)) \in Seq(Nat)
  BY <1>2, <1>6, <1>5
<1> QED
  BY <1>1, <1>5

LEMMA PushVerbatimIn ==
  ASSUME Arena, NEW D, NEW h \in Handle, NEW e \in Extractor
  PROVE  Made(PushVerbatim(h, e), NodesOver(D))
<1> DEFINE r == GatherText[Levels][h][e]
           t == TrimLineFeeds(r.made)
           first == Node("pre", h)
           n == [first EXCEPT !.text = t]
<1>1. Levels \in 0 .. Levels
  BY LimitsAssumption DEF Levels
<1>2. r.self \in Extractor /\ r.made \in Seq(Nat)
  BY <1>1, GatherTextIn DEF WalksIn, Made
<1>3. PushVerbatim(h, e) = Nothing(r.self) \/ PushVerbatim(h, e) = Yield(<<n>>, r.self)
  BY DEF PushVerbatim, PushText
<1>4. first \in NodesOver(D)
  BY NodeIn DEF Kinds
<1> HIDE DEF r, first
<1>5. t \in Seq(Nat)
  BY <1>2, TrimmedLines
<1> HIDE DEF t
<1>6. n \in NodesOver(D)
  BY <1>4, <1>5, EditIn
<1> HIDE DEF n
<1>7. Made(Nothing(r.self), NodesOver(D)) /\ Made(Yield(<<n>>, r.self), NodesOver(D))
  BY <1>2, <1>6, NothingIn, OneIn
<1> QED
  BY <1>3, <1>7

-----------------------------------------------------------------------------
(* Controls.                                                               *)

LEMMA OptionsType ==
  ASSUME Arena, NEW h \in Handle
  PROVE  Options(h) \in Seq(Option)
<1>1. CASE name[h] = "select"
  <2> DEFINE o == CollectOptions[Levels][h][<<>>]
             last == Max({i \in DOMAIN o : o[i].selected} \cup {0})
             kept == [i \in DOMAIN o |-> [o[i] EXCEPT !.selected = (i = last)]]
  <2>1. Levels \in 0 .. Levels
    BY LimitsAssumption DEF Levels
  <2>2. <<>> \in Seq(Option) /\ FewOptions(<<>>)
    BY TableLimitsAssumption DEF FewOptions
  <2>3. o \in Seq(Option)
    BY <2>1, <2>2, CollectOptionsOK DEF Collector, FewOptions
  <2>4. Options(h) \in {o, kept}
    BY <1>1 DEF Options, KeepLastSelected
  <2> HIDE DEF o, last
  <2>5. DOMAIN o = 1 .. Len(o) /\ Len(o) \in Nat /\ \A i \in 1 .. Len(o) : o[i] \in Option
    BY <2>3
  <2>6. kept \in [1 .. Len(o) -> Option]
    <3> SUFFICES ASSUME NEW i \in 1 .. Len(o) PROVE [o[i] EXCEPT !.selected = (i = last)] \in Option
      BY <2>5
    <3> QED
      BY <2>5 DEF Option
  <2> HIDE DEF kept
  <2>7. kept \in Seq(Option)
    BY <2>5, <2>6
  <2> QED
    BY <2>3, <2>4, <2>7
<1>2. CASE name[h] # "select"
  <2>1. Options(h) = <<>>
    BY <1>2 DEF Options
  <2> QED
    BY <2>1
<1> QED
  BY <1>1, <1>2

LEMMA PushControlIn ==
  ASSUME Arena, NEW D, NEW h \in Handle, NEW e \in Extractor, name[h] \in Control
  PROVE  Made(PushControl(h, e), NodesOver(D))
<1> DEFINE first == Node(name[h], h)
           numbered == [first EXCEPT !.id = e.next]
           options == Options(h)
           n == [numbered EXCEPT !.options = options]
           d == Allocate(e)
<1>1. d \in Extractor /\ e.next \in Nat
  BY ExtractorFacts
<1>2. PushControl(h, e) = Yield(<<n>>, d)
  BY DEF PushControl
<1>3. name[h] \in Kinds
  BY DEF Kinds
<1>4. first \in NodesOver(D)
  BY <1>3, NodeIn
<1>5. options \in Seq(Option)
  BY OptionsType
<1> HIDE DEF first, d, options
<1>6. numbered \in NodesOver(D)
  BY <1>1, <1>4, EditIn
<1> HIDE DEF numbered
<1>7. n \in NodesOver(D)
  BY <1>5, <1>6, EditIn
<1> HIDE DEF n
<1> QED
  BY <1>1, <1>2, <1>7, OneIn

LEMMA PushButtonIn ==
  ASSUME Arena, NEW D, NEW h \in Handle, NEW e \in Extractor
  PROVE  Made(PushButton(h, e), NodesOver(D))
<1> DEFINE d == Allocate(e)
           r == Gather(<<h>>, d)
           runs == CollapseSegments(r.made)
           first == Node("button", h)
           numbered == [first EXCEPT !.id = e.next]
           n == [numbered EXCEPT !.runs = runs]
<1>1. d \in Extractor /\ e.next \in Nat /\ <<h>> \in Seq(Handle)
  BY ExtractorFacts
<1>2. PushButton(h, e) = Yield(<<n>>, r.self)
  BY DEF PushButton
<1>3. first \in NodesOver(D)
  BY NodeIn DEF Kinds
<1>4. r.self \in Extractor /\ runs \in Seq(Run)
  <2> HIDE DEF d
  <2> QED
    BY <1>1, GatheredRuns
<1> HIDE DEF first, d, r, runs
<1>5. numbered \in NodesOver(D)
  BY <1>1, <1>3, EditIn
<1> HIDE DEF numbered
<1>6. n \in NodesOver(D)
  BY <1>4, <1>5, EditIn
<1> HIDE DEF n
<1> QED
  BY <1>2, <1>4, <1>6, OneIn

-----------------------------------------------------------------------------
(* Containers.                                                             *)

LEMMA EncloseIn ==
  ASSUME NEW D, NEW r, Made(r, D), NEW n \in NodesOver(D)
  PROVE  Made(Enclose(r, n), NodesOver(D))
<1>1. CASE r.made = <<>>
  <2> DEFINE none == <<>>
  <2>1. Enclose(r, n) = r
    BY <1>1 DEF Enclose
  <2>2. none \in Seq(NodesOver(D))
    OBVIOUS
  <2>3. r.made = none
    BY <1>1
  <2> HIDE DEF none
  <2> QED
    BY <2>1, <2>2, <2>3 DEF Made
<1>2. CASE r.made # <<>>
  <2> DEFINE full == [n EXCEPT !.kids = r.made]
  <2>1. Enclose(r, n) = Yield(<<full>>, r.self)
    BY <1>2 DEF Enclose
  <2>2. full \in NodesOver(D) /\ r.self \in Extractor
    BY EditIn DEF Made
  <2> HIDE DEF full
  <2> QED
    BY <2>1, <2>2, OneIn
<1> QED
  BY <1>1, <1>2

PushedIn(r, D) ==
    /\ Made(r, D) /\ r.inline \in Seq(Handle)
    /\ r = [made |-> r.made, self |-> r.self, inline |-> r.inline]

\* What the children of a block may be: text without children of its own, and
\* what the walk makes of them.
HoldsLeaves(D) == \E C : NodesOver(C) \subseteq D

LEMMA FlushIn ==
  ASSUME Arena, NEW D, HoldsLeaves(D), NEW r, PushedIn(r, D)
  PROVE  Made(Flush(r), D)
<1>1. PICK C : NodesOver(C) \subseteq D
  BY DEF HoldsLeaves
<1>2. Made(FlushInlineParagraph(r.inline, r.self), NodesOver(C))
  BY FlushInlineParagraphIn DEF PushedIn, Made
<1>3. Made(FlushInlineParagraph(r.inline, r.self), D)
  BY <1>1, <1>2, MadeMore
<1> QED
  BY <1>3, ContinueIn DEF Flush, PushedIn

LEMMA BlockChildIn ==
  ASSUME Arena, NEW D, HoldsLeaves(D), NEW walk, WalksIn(walk, D), NEW r, PushedIn(r, D),
         NEW k \in Handle
  PROVE  PushedIn(BlockChild(walk, r, k), D)
<1>1. CASE BlockLevel[Levels][k]
  <2> DEFINE f == Flush(r)
             q == walk[k][f.self]
             none == <<>>
  <2>1. Made(f, D)
    BY FlushIn
  <2>2. Made(q, D)
    BY <2>1 DEF WalksIn, Made
  <2>3. BlockChild(walk, r, k) = WithInline(Continue(f, q), none)
    BY <1>1 DEF BlockChild, Proceed
  <2>4. none \in Seq(Handle)
    OBVIOUS
  <2> HIDE DEF f, q, none
  <2>5. Made(Continue(f, q), D)
    BY <2>1, <2>2, ContinueIn
  <2> QED
    BY <2>3, <2>4, <2>5 DEF PushedIn, WithInline, Made
<1>2. CASE ~BlockLevel[Levels][k]
  <2> DEFINE more == Append(r.inline, k)
  <2>1. more \in Seq(Handle)
    BY DEF PushedIn
  <2>2. BlockChild(walk, r, k) = [made |-> r.made, self |-> r.self, inline |-> more]
    BY <1>2 DEF BlockChild, PushedIn
  <2> HIDE DEF more
  <2> QED
    BY <2>1, <2>2 DEF PushedIn, Made
<1> QED
  BY <1>1, <1>2

LEMMA BlockChildrenIn ==
  ASSUME Arena, NEW D, HoldsLeaves(D), NEW walk, WalksIn(walk, D), NEW h \in Handle, NEW e \in Extractor
  PROVE  Made(BlockChildren(walk, h, e), D)
<1> DEFINE hs == kids[h]
           N == Len(hs)
           pushed == ChildrenUpTo(walk, hs, e)
           S == {n \in 0 .. N : PushedIn(pushed[n], D)}
<1>1. hs \in Seq(Handle)
  BY DEF Arena
<1>2. BlockChildren(walk, h, e) = Flush(pushed[N])
  BY DEF BlockChildren
<1> HIDE DEF hs
<1>3. N \in Nat /\ \A n \in 1 .. N : hs[n] \in Handle
  BY <1>1
<1>4. pushed[0] = Begun(e) /\ \A n \in 1 .. N : pushed[n] = BlockChild(walk, pushed[n - 1], hs[n])
  <2>1. Len(hs) \in Nat
    BY <1>1
  <2>2. /\ ChildrenUpTo(walk, hs, e)[0] = Begun(e)
        /\ \A n \in 1 .. Len(hs) :
              ChildrenUpTo(walk, hs, e)[n] = BlockChild(walk, ChildrenUpTo(walk, hs, e)[n - 1], hs[n])
    <3> HIDE DEF N, pushed, S
    <3> QED
      BY <2>1, ChildrenSteps
  <2> QED
    BY <2>2, Zenon DEF N, pushed
<1> HIDE DEF N, pushed
<1>5. 0 \in S
  <2> DEFINE none == <<>>
  <2>1. none \in Seq(Handle)
    OBVIOUS
  <2>2. Begun(e) = WithInline(Nothing(e), none)
    BY DEF Begun
  <2> HIDE DEF none
  <2>3. Made(Nothing(e), D)
    BY NothingIn
  <2>4. PushedIn(Begun(e), D)
    BY <2>1, <2>2, <2>3 DEF PushedIn, WithInline, Made
  <2> QED
    BY <1>3, <1>4, <2>4
<1>6. ASSUME NEW n \in 1 .. N, n - 1 \in S PROVE n \in S
  <2>1. PushedIn(pushed[n - 1], D)
    BY <1>6
  <2>2. PushedIn(pushed[n], D)
    BY <1>3, <1>4, <2>1, BlockChildIn
  <2>3. n \in 0 .. N
    BY <1>3
  <2> QED
    BY <2>2, <2>3
<1> HIDE DEF S
<1>7. 0 .. N \subseteq S
  BY <1>3, <1>5, <1>6, Induction
<1>8. PushedIn(pushed[N], D)
  BY <1>3, <1>7 DEF S
<1> QED
  BY <1>2, <1>8, FlushIn

\* A set of nodes with all a walk may make of an element without children, in
\* which a node may hold others of the set.
Grown(D) == (\E C : NodesOver(C) \subseteq D) /\ D \subseteq NodesOver(D)

RowsOver(D) == NodesOver(NodesOver(D))
TablesOver(D) == NodesOver(RowsOver(D))

WalksWithin(w, D) == WalksIn(w.node, D) /\ WalksIn(w.rows, RowsOver(D))

LEMMA GrownFacts ==
  ASSUME NEW D, Grown(D)
  PROVE  /\ HoldsLeaves(D) /\ D \subseteq NodesOver(D)
         /\ NodesOver(D) \subseteq RowsOver(D) /\ RowsOver(D) \subseteq TablesOver(D)
         /\ D \subseteq TablesOver(D) /\ NodesOver(D) \subseteq TablesOver(D)
<1>1. HoldsLeaves(D) /\ D \subseteq NodesOver(D)
  BY DEF Grown, HoldsLeaves
<1>2. NodesOver(D) \subseteq RowsOver(D)
  BY <1>1, NodesGrow DEF RowsOver
<1>3. RowsOver(D) \subseteq TablesOver(D)
  BY <1>2, NodesGrow DEF RowsOver, TablesOver
<1> QED
  BY <1>1, <1>2, <1>3

LEMMA GrownTables ==
  ASSUME NEW D, Grown(D)
  PROVE  Grown(TablesOver(D))
<1> DEFINE T == TablesOver(D)
<1>1. RowsOver(D) \subseteq T
  BY GrownFacts
<1>2. NodesOver(RowsOver(D)) \subseteq NodesOver(T)
  BY <1>1, NodesGrow
<1>3. T = NodesOver(RowsOver(D))
  BY DEF TablesOver
<1> HIDE DEF T
<1> QED
  BY <1>2, <1>3 DEF Grown, T

LEMMA ContainerIn ==
  ASSUME Arena, NEW D, Grown(D), NEW walk, WalksIn(walk, D), NEW h \in Handle,
         NEW e \in Extractor, NEW kind \in Kinds
  PROVE  Made(Enclose(BlockChildren(walk, h, e), Node(kind, h)), NodesOver(D))
<1>1. Made(BlockChildren(walk, h, e), D)
  BY GrownFacts, BlockChildrenIn
<1>2. Node(kind, h) \in NodesOver(D)
  BY NodeIn
<1> QED
  BY <1>1, <1>2, EncloseIn

LEMMA ListItemsIn ==
  ASSUME Arena, NEW D, Grown(D), NEW w, WalksWithin(w, D)
  PROVE  WalksIn(ListItems(w), NodesOver(D))
<1> SUFFICES ASSUME NEW k \in Handle, NEW e \in Extractor
             PROVE  Made(ListItems(w)[k][e], NodesOver(D))
  BY DEF WalksIn
<1>1. ListItems(w)[k][e] = PushListItem(w, k, e)
  BY DEF ListItems
<1>2. Made(Nothing(e), NodesOver(D))
  BY NothingIn
<1>3. "li" \in Kinds
  BY DEF Kinds
<1>4. Made(Enclose(BlockChildren(w.node, k, e), Node("li", k)), NodesOver(D))
  BY <1>3, ContainerIn DEF WalksWithin
<1> QED
  BY <1>1, <1>2, <1>4 DEF PushListItem

LEMMA ListIn ==
  ASSUME Arena, NEW D, Grown(D), NEW w, WalksWithin(w, D), NEW h \in Handle,
         NEW e \in Extractor, name[h] \in Lists
  PROVE  Made(Enclose(InTurn(ListItems(w), kids[h], e), Node(name[h], h)), RowsOver(D))
<1>1. kids[h] \in Seq(Handle)
  BY DEF Arena
<1>2. Made(InTurn(ListItems(w), kids[h], e), NodesOver(D))
  BY <1>1, ListItemsIn, InTurnIn
<1>3. name[h] \in Kinds
  BY DEF Kinds
<1>4. Node(name[h], h) \in NodesOver(NodesOver(D))
  BY <1>3, NodeIn
<1> QED
  BY <1>2, <1>4, EncloseIn DEF RowsOver

LEMMA PushCellIn ==
  ASSUME Arena, NEW D, Grown(D), NEW w, WalksWithin(w, D), NEW k \in Handle, NEW e \in Extractor
  PROVE  Made(PushCell(w, k, e), NodesOver(D))
<1>1. CASE name[k] \in CellName
  <2> DEFINE m == Mark(k, e)
             r == Continue(m, BlockChildren(w.node, k, m.self))
             first == Node(name[k], k)
             n == [first EXCEPT !.kids = r.made]
  <2>1. PICK C : NodesOver(C) \subseteq D
    BY DEF Grown
  <2>2. Made(m, D)
    BY <2>1, MarkIn, MadeMore
  <2>3. PushCell(w, k, e) = Yield(<<n>>, r.self)
    BY <1>1 DEF PushCell
  <2>4. name[k] \in Kinds
    BY <1>1 DEF Kinds
  <2>5. first \in NodesOver(D)
    BY <2>4, NodeIn
  <2> HIDE DEF m, first
  <2>6. m.self \in Extractor
    BY <2>2 DEF Made
  <2>7. Made(BlockChildren(w.node, k, m.self), D)
    BY <2>6, BlockChildrenIn, GrownFacts DEF WalksWithin
  <2>8. Made(r, D)
    BY <2>2, <2>7, ContinueIn
  <2> HIDE DEF r
  <2>9. n \in NodesOver(D) /\ r.self \in Extractor
    BY <2>5, <2>8, EditIn DEF Made
  <2> HIDE DEF n
  <2> QED
    BY <2>3, <2>9, OneIn
<1>2. CASE name[k] \notin CellName
  <2>1. PushCell(w, k, e) = Nothing(e)
    BY <1>2 DEF PushCell
  <2> QED
    BY <2>1, NothingIn
<1> QED
  BY <1>1, <1>2

LEMMA PushRowIn ==
  ASSUME Arena, NEW D, Grown(D), NEW w, WalksWithin(w, D), NEW k \in Handle, NEW e \in Extractor
  PROVE  Made(PushRow(w, k, e), RowsOver(D))
<1>1. kids[k] \in Seq(Handle)
  BY DEF Arena
<1>2. WalksIn(RowCells(w), NodesOver(D))
  BY PushCellIn DEF WalksIn, RowCells
<1>3. Made(InTurn(RowCells(w), kids[k], e), NodesOver(D))
  BY <1>1, <1>2, InTurnIn
<1>4. "tr" \in Kinds
  BY DEF Kinds
<1>5. Node("tr", k) \in NodesOver(NodesOver(D))
  BY <1>4, NodeIn
<1>6. Made(Enclose(InTurn(RowCells(w), kids[k], e), Node("tr", k)), RowsOver(D))
  BY <1>3, <1>5, EncloseIn DEF RowsOver
<1>7. Made(w.rows[k][e], RowsOver(D))
  BY DEF WalksWithin, WalksIn
<1>8. Made(Nothing(e), RowsOver(D))
  BY NothingIn
<1>9. PushRow(w, k, e) \in {Enclose(InTurn(RowCells(w), kids[k], e), Node("tr", k)),
                            w.rows[k][e], Nothing(e)}
  BY DEF PushRow
<1> QED
  BY <1>6, <1>7, <1>8, <1>9

LEMMA CollectRowsIn ==
  ASSUME Arena, NEW D, Grown(D), NEW w, WalksWithin(w, D), NEW h \in Handle, NEW e \in Extractor
  PROVE  Made(CollectRows(w, h, e), RowsOver(D))
<1> DEFINE walk == [k \in Handle |-> [e2 \in Extractor |-> PushRow(w, k, e2)]]
<1>1. WalksIn(walk, RowsOver(D))
  BY PushRowIn DEF WalksIn
<1>2. kids[h] \in Seq(Handle)
  BY DEF Arena
<1>3. CollectRows(w, h, e) = InTurn(walk, kids[h], e)
  BY DEF CollectRows
<1> HIDE DEF walk
<1> QED
  BY <1>1, <1>2, <1>3, InTurnIn

LEMMA AtMostIn ==
  ASSUME NEW D, NEW s \in Seq(D), NEW n \in Nat
  PROVE  AtMost(n, s) \in Seq(D)
<1> DEFINE m == IF Len(s) < n THEN Len(s) ELSE n
<1>1. m \in Nat /\ m <= Len(s) /\ Len(s) \in Nat
  OBVIOUS
<1>2. AtMost(n, s) = SubSeq(s, 1, m)
  BY DEF AtMost
<1> HIDE DEF m
<1> QED
  BY <1>1, <1>2

LEMMA TableNodesIn ==
  ASSUME NEW D, NEW h \in Handle, NEW s \in Seq(RowsOver(D))
  PROVE  TableNodes(h, s) \in Seq(TablesOver(D))
<1> DEFINE few == AtMost(MaxTableRows, s)
           kept == TruncateTable(s)
           first == Node("table", h)
           n == [first EXCEPT !.kids = kept]
           warning == Node("warning", h)
           table == <<n>>
           warned == IF kept = s THEN <<>> ELSE <<warning>>
<1>1. MaxTableRows \in Nat /\ MaxTableColumns \in Nat
  BY TableLimitsAssumption
<1>2. few \in Seq(RowsOver(D))
  BY <1>1, AtMostIn
<1>3. kept = Narrowed(MaxTableColumns, few)
  BY DEF TruncateTable
<1>4. TableNodes(h, s) = IF kept = <<>> THEN <<>> ELSE table \o warned
  BY DEF TableNodes
<1>5. first \in TablesOver(D) /\ warning \in TablesOver(D)
  BY NodeIn DEF TablesOver, Kinds
<1> HIDE DEF few, kept, first, warning
<1>6. kept \in Seq(RowsOver(D))
  <2> DEFINE N == Len(few)
             row(i) == [few[i] EXCEPT !.kids = AtMost(MaxTableColumns, @)]
             cut == [i \in 1 .. N |-> row(i)]
  <2>1. DOMAIN few = 1 .. N /\ N \in Nat /\ \A i \in 1 .. N : few[i] \in RowsOver(D)
    BY <1>2
  <2>2. kept = cut
    BY <1>3, <2>1 DEF Narrowed
  <2>3. ASSUME NEW i \in 1 .. N PROVE row(i) \in RowsOver(D)
    <3> DEFINE m == few[i]
               below == AtMost(MaxTableColumns, m.kids)
    <3>1. m \in NodesOver(NodesOver(D))
      BY <2>1 DEF RowsOver
    <3>2. m.kids \in Seq(NodesOver(D))
      BY <3>1, NodeParts
    <3>3. below \in Seq(NodesOver(D))
      BY <1>1, <3>2, AtMostIn
    <3>4. row(i) = [m EXCEPT !.kids = below]
      OBVIOUS
    <3> HIDE DEF m, below, row
    <3>5. [m EXCEPT !.kids = below] \in NodesOver(NodesOver(D))
      BY <3>1, <3>3, EditIn
    <3> QED
      BY <3>4, <3>5 DEF RowsOver
  <2> HIDE DEF row
  <2>4. cut \in [1 .. N -> RowsOver(D)]
    BY <2>3
  <2> HIDE DEF cut
  <2>5. cut \in Seq(RowsOver(D))
    BY <2>1, <2>4
  <2> QED
    BY <2>2, <2>5
<1>7. n \in TablesOver(D)
  BY <1>5, <1>6, EditIn DEF TablesOver
<1> HIDE DEF n
<1>8. table \in Seq(TablesOver(D)) /\ warned \in Seq(TablesOver(D)) /\ <<>> \in Seq(TablesOver(D))
  BY <1>5, <1>7
<1> HIDE DEF table, warned
<1>9. table \o warned \in Seq(TablesOver(D))
  BY <1>8
<1> QED
  BY <1>4, <1>8, <1>9

LEMMA PushTableIn ==
  ASSUME Arena, NEW D, Grown(D), NEW w, WalksWithin(w, D), NEW h \in Handle, NEW e \in Extractor
  PROVE  Made(PushTable(w, h, e), TablesOver(D))
<1> DEFINE r == CollectRows(w, h, e)
<1>1. Made(r, RowsOver(D))
  BY CollectRowsIn
<1>2. PushTable(w, h, e) = Yield(TableNodes(h, r.made), r.self)
  BY DEF PushTable
<1> HIDE DEF r
<1>3. TableNodes(h, r.made) \in Seq(TablesOver(D))
  BY <1>1, TableNodesIn DEF Made
<1> QED
  BY <1>1, <1>2, <1>3 DEF Made, Yield

CaptionedIn(r, D) == Made(r, D) /\ r.caption \in Seq(Run)

LEMMA FigureChildIn ==
  ASSUME Arena, NEW D, NEW walk, WalksIn(walk, D), NEW k \in Handle, NEW r, CaptionedIn(r, D)
  PROVE  CaptionedIn(FigureChild(walk, r, k), D)
<1> DEFINE q == FigureChild(walk, r, k)
<1>1. r.self \in Extractor /\ r.made \in Seq(D) /\ r.caption \in Seq(Run)
  BY DEF CaptionedIn, Made
<1>2. CASE name[k] = "figcaption"
  <2> DEFINE g == Gather(<<k>>, r.self)
             runs == CollapseSegments(g.made)
  <2>1. <<k>> \in Seq(Handle)
    OBVIOUS
  <2>2. g.self \in Extractor /\ runs \in Seq(Run)
    BY <1>1, <2>1, GatheredRuns
  <2>3. q = [made |-> r.made, self |-> g.self, caption |-> runs]
    BY <1>2 DEF FigureChild, Captioned, Yield
  <2> HIDE DEF g, runs, q
  <2>4. CaptionedIn(q, D)
    BY <1>1, <2>2, <2>3 DEF CaptionedIn, Made
  <2> QED
    BY <2>4 DEF q
<1>3. CASE name[k] # "figcaption"
  <2> DEFINE c == Continue(r, walk[k][r.self])
  <2>1. Made(walk[k][r.self], D)
    BY <1>1 DEF WalksIn
  <2>2. Made(c, D)
    BY <2>1, ContinueIn DEF CaptionedIn
  <2>3. q = [made |-> c.made, self |-> c.self, caption |-> r.caption]
    BY <1>3 DEF FigureChild, Captioned, Proceed
  <2> HIDE DEF c, q
  <2>4. CaptionedIn(q, D)
    BY <1>1, <2>2, <2>3 DEF CaptionedIn, Made
  <2> QED
    BY <2>4 DEF q
<1> QED
  BY <1>2, <1>3

LEMMA PushFigureIn ==
  ASSUME Arena, NEW D, NEW walk, WalksIn(walk, D), NEW h \in Handle, NEW e \in Extractor
  PROVE  Made(PushFigure(walk, h, e), NodesOver(D))
<1> DEFINE hs == kids[h]
           N == Len(hs)
           pushed == FigureUpTo(walk, hs, e)
           r == pushed[N]
           first == Node("figure", h)
           filled == [first EXCEPT !.kids = r.made]
           n == [filled EXCEPT !.runs = r.caption]
           S == {i \in 0 .. N : CaptionedIn(pushed[i], D)}
<1>1. hs \in Seq(Handle)
  BY DEF Arena
<1>2. PushFigure(walk, h, e) \in {Nothing(r.self), Yield(<<n>>, r.self)}
  BY DEF PushFigure
<1>3. first \in NodesOver(D)
  BY NodeIn DEF Kinds
<1>4. N \in Nat /\ N = Len(hs) /\ \A i \in 1 .. N : hs[i] \in Handle
  BY <1>1
<1>5. pushed[0] = Uncaptioned(e)
      /\ \A i \in 1 .. N : pushed[i] = FigureChild(walk, pushed[i - 1], hs[i])
  <2>1. Len(hs) \in Nat
    BY <1>1
  <2>2. /\ FigureUpTo(walk, hs, e)[0] = Uncaptioned(e)
        /\ \A i \in 1 .. Len(hs) :
              FigureUpTo(walk, hs, e)[i] = FigureChild(walk, FigureUpTo(walk, hs, e)[i - 1], hs[i])
    <3> HIDE DEF N, pushed, S, hs
    <3> QED
      BY <2>1, FigureSteps
  <2> QED
    BY <2>2, Zenon DEF N, pushed
<1> HIDE DEF hs, N, pushed, first
<1>6. 0 \in S
  <2> DEFINE none == <<>>
             u == Uncaptioned(e)
  <2>1. Made(Nothing(e), D) /\ none \in Seq(Run)
    BY NothingIn
  <2>2. u = [made |-> Nothing(e).made, self |-> Nothing(e).self, caption |-> none]
    BY DEF Uncaptioned, Captioned
  <2> HIDE DEF none, u
  <2>3. CaptionedIn(u, D)
    BY <2>1, <2>2 DEF CaptionedIn, Made
  <2> QED
    BY <1>4, <1>5, <2>3 DEF u
<1>7. ASSUME NEW i \in 1 .. N, i - 1 \in S PROVE i \in S
  <2>1. CaptionedIn(pushed[i - 1], D) /\ hs[i] \in Handle /\ i \in 0 .. N
    BY <1>4, <1>7
  <2>2. CaptionedIn(FigureChild(walk, pushed[i - 1], hs[i]), D)
    BY <2>1, FigureChildIn
  <2> QED
    BY <1>5, <2>1, <2>2
<1> HIDE DEF S
<1>8. 0 .. N \subseteq S
  BY <1>4, <1>6, <1>7, Induction
<1>9. CaptionedIn(r, D)
  BY <1>4, <1>8 DEF S
<1> HIDE DEF r
<1>10. r.self \in Extractor /\ r.made \in Seq(D) /\ r.caption \in Seq(Run)
  BY <1>9 DEF CaptionedIn, Made
<1>11. filled \in NodesOver(D)
  BY <1>3, <1>10, EditIn
<1> HIDE DEF filled
<1>12. n \in NodesOver(D)
  BY <1>10, <1>11, EditIn
<1> HIDE DEF n
<1>13. Made(Yield(<<n>>, r.self), NodesOver(D)) /\ Made(Nothing(r.self), NodesOver(D))
  BY <1>10, <1>12, OneIn, NothingIn
<1> QED
  BY <1>2, <1>13

LEMMA PushFormIn ==
  ASSUME Arena, NEW D, Grown(D), NEW walk, WalksIn(walk, D), NEW h \in Handle, NEW e \in Extractor
  PROVE  Made(PushForm(walk, h, e), NodesOver(D))
<1> DEFINE d == Allocate(e)
           first == Node("form", h)
           n == [first EXCEPT !.id = e.next]
<1>1. d \in Extractor /\ e.next \in Nat
  BY ExtractorFacts
<1>2. PushForm(walk, h, e) = Enclose(BlockChildren(walk, h, d), n)
  BY DEF PushForm
<1>3. first \in NodesOver(D)
  BY NodeIn DEF Kinds
<1> HIDE DEF d, first
<1>4. n \in NodesOver(D)
  BY <1>1, <1>3, EditIn
<1> HIDE DEF n
<1>5. Made(BlockChildren(walk, h, d), D)
  BY <1>1, GrownFacts, BlockChildrenIn
<1> QED
  BY <1>2, <1>4, <1>5, EncloseIn

LEMMA HandleElementIn ==
  ASSUME Arena, NEW D, Grown(D), NEW w, WalksWithin(w, D), NEW h \in Handle, NEW e \in Extractor
  PROVE  Made(HandleElement(w, h, e), TablesOver(D))
<1> DEFINE script   == Nothing(Suppress(e))
           unseen   == Nothing(e)
           block    == PushTextBlock(h, e)
           list     == Enclose(InTurn(ListItems(w), kids[h], e), Node(name[h], h))
           holder   == Enclose(BlockChildren(w.node, h, e), Node(name[h], h))
           verbatim == PushVerbatim(h, e)
           table    == PushTable(w, h, e)
           leaf     == Yield(<<Node(name[h], h)>>, e)
           figure   == PushFigure(w.node, h, e)
           form     == PushForm(w.node, h, e)
           control  == PushControl(h, e)
           button   == PushButton(h, e)
           inside   == InTurn(w.node, kids[h], e)
           T        == TablesOver(D)
<1>1. kids[h] \in Seq(Handle) /\ Suppress(e) \in Extractor
  BY ExtractorFacts DEF Arena
<1>2. WalksIn(w.node, D)
  BY DEF WalksWithin
<1>3. Made(script, T) /\ Made(unseen, T)
  BY <1>1, NothingIn
<1>4. \A r : Made(r, NodesOver(D)) \/ Made(r, RowsOver(D)) \/ Made(r, D) => Made(r, T)
  BY GrownFacts, MadeMore
<1>5. name[h] \in TextBlock => Made(block, NodesOver(D))
  BY PushTextBlockIn
<1>6. name[h] \in Lists => Made(list, RowsOver(D))
  BY ListIn
<1>7. name[h] \in Container => Made(holder, NodesOver(D))
  <2>1. name[h] \in Container => name[h] \in Kinds
    BY DEF Kinds
  <2> QED
    BY <1>2, <2>1, ContainerIn
<1>8. Made(verbatim, NodesOver(D))
  BY PushVerbatimIn
<1>9. Made(table, T)
  BY PushTableIn
<1>10. name[h] \in Leaf => Made(leaf, NodesOver(D))
  <2>1. name[h] \in Leaf => name[h] \in Kinds
    BY DEF Kinds
  <2>2. name[h] \in Leaf => Node(name[h], h) \in NodesOver(D)
    BY <2>1, NodeIn
  <2> QED
    BY <2>2, OneIn
<1>11. Made(figure, NodesOver(D))
  BY <1>2, PushFigureIn
<1>12. Made(form, NodesOver(D))
  BY <1>2, PushFormIn
<1>13. name[h] \in Control => Made(control, NodesOver(D))
  BY PushControlIn
<1>14. Made(button, NodesOver(D))
  BY PushButtonIn
<1>15. Made(inside, D)
  BY <1>1, <1>2, InTurnIn
<1>16. HandleElement(w, h, e) =
         CASE name[h] = "script"         -> script
           [] name[h] \in {"style", "title"} -> unseen
           [] name[h] \in TextBlock      -> block
           [] name[h] \in Lists          -> list
           [] name[h] \in Container      -> holder
           [] name[h] \in VerbatimBlock  -> verbatim
           [] name[h] = "table"          -> table
           [] name[h] \in Leaf           -> leaf
           [] name[h] = "figure"         -> figure
           [] name[h] = "form"           -> form
           [] name[h] \in Control        -> control
           [] name[h] = "button"         -> button
           [] OTHER                      -> inside
  BY DEF HandleElement
<1> HIDE DEF script, unseen, block, list, holder, verbatim, table, leaf, figure, form,
             control, button, inside, T
<1>17. \/ HandleElement(w, h, e) \in {script, unseen, verbatim, table, figure, form, button, inside}
       \/ name[h] \in TextBlock /\ HandleElement(w, h, e) = block
       \/ name[h] \in Lists /\ HandleElement(w, h, e) = list
       \/ name[h] \in Container /\ HandleElement(w, h, e) = holder
       \/ name[h] \in Leaf /\ HandleElement(w, h, e) = leaf
       \/ name[h] \in Control /\ HandleElement(w, h, e) = control
  BY <1>16
<1>18. Made(HandleElement(w, h, e), T)
  BY <1>3, <1>4, <1>5, <1>6, <1>7, <1>8, <1>9, <1>10, <1>11, <1>12, <1>13, <1>14, <1>15, <1>17
<1> QED
  BY <1>18 DEF T

LEMMA WalkNodeIn ==
  ASSUME Arena, NEW D, Grown(D), NEW w, WalksWithin(w, D), NEW h \in Handle, NEW e \in Extractor
  PROVE  Made(WalkNode(w, h, e), TablesOver(D))
<1>1. kids[h] \in Seq(Handle) /\ WalksIn(w.node, D)
  BY DEF Arena, WalksWithin
<1>2. \A r : Made(r, NodesOver(D)) \/ Made(r, D) => Made(r, TablesOver(D))
  BY GrownFacts, MadeMore
<1>3. Made(Nothing(e), TablesOver(D))
  BY NothingIn
<1>4. Made(InTurn(w.node, kids[h], e), TablesOver(D))
  BY <1>1, <1>2, InTurnIn
<1>5. Made(Continue(Mark(h, e), HandleElement(w, h, Mark(h, e).self)), TablesOver(D))
  <2> DEFINE m == Mark(h, e)
  <2>1. Made(m, NodesOver(D))
    BY MarkIn
  <2> HIDE DEF m
  <2>2. m.self \in Extractor /\ Made(m, TablesOver(D))
    BY <1>2, <2>1 DEF Made
  <2>3. Made(HandleElement(w, h, m.self), TablesOver(D))
    BY <2>2, HandleElementIn
  <2>4. Made(Continue(m, HandleElement(w, h, m.self)), TablesOver(D))
    BY <2>2, <2>3, ContinueIn
  <2> QED
    BY <2>4 DEF m
<1>6. WalkNode(w, h, e) \in {Nothing(e), InTurn(w.node, kids[h], e),
                             Continue(Mark(h, e), HandleElement(w, h, Mark(h, e).self))}
  BY DEF WalkNode
<1> QED
  BY <1>3, <1>4, <1>5, <1>6

\* What a walk of n levels may make.
Level(n) == NodesOf[3 * n + 1]

LEMMA LevelsUp ==
  /\ Levels \in Nat /\ Level(Levels) = AnyNode
  /\ \A n \in 1 .. Levels : Level(n) = TablesOver(Level(n - 1))
  /\ Grown(Level(0))
<1>1. Levels \in Nat /\ Height = 3 * Levels + 1
  BY LimitsAssumption DEF Levels, Height
<1>2. Level(Levels) = AnyNode
  BY <1>1 DEF Level, AnyNode
<1>3. NodesOf[0] = {} /\ \A k \in 1 .. Height : NodesOf[k] = NodesOver(NodesOf[k - 1])
  BY NodeSteps
<1>4. ASSUME NEW n \in 1 .. Levels PROVE Level(n) = TablesOver(Level(n - 1))
  <2> DEFINE k == 3 * n + 1
  <2>1. k \in 1 .. Height /\ k - 1 \in 1 .. Height /\ k - 2 \in 1 .. Height
        /\ (k - 1) - 1 = k - 2 /\ (k - 2) - 1 = k - 3 /\ 3 * (n - 1) + 1 = k - 3
    BY <1>1
  <2> HIDE DEF k
  <2>2. NodesOf[k] = NodesOver(NodesOf[k - 1])
    BY <1>3, <2>1
  <2>3. NodesOf[k - 1] = NodesOver(NodesOf[k - 2])
    BY <1>3, <2>1
  <2>4. NodesOf[k - 2] = NodesOver(NodesOf[k - 3])
    BY <1>3, <2>1
  <2>5. NodesOf[k] = TablesOver(NodesOf[k - 3])
    BY <2>2, <2>3, <2>4 DEF TablesOver, RowsOver
  <2>6. Level(n - 1) = NodesOf[k - 3]
    BY <2>1 DEF Level
  <2> QED
    BY <2>5, <2>6 DEF Level, k
<1>5. Grown(Level(0))
  <2>1. 1 \in 1 .. Height /\ 1 \in 0 .. Height /\ 1 - 1 = 0 /\ 3 * 0 + 1 = 1
    BY <1>1
  <2>2. NodesOf[1] = NodesOver({})
    BY <1>3, <2>1
  <2>3. NodesOver({}) \subseteq NodesOver(NodesOf[1])
    BY NodesGrow
  <2>4. Level(0) = NodesOf[1]
    BY <2>1 DEF Level
  <2> QED
    BY <2>2, <2>3, <2>4 DEF Grown
<1> QED
  BY <1>1, <1>2, <1>4, <1>5

LEMMA WalksInLevels ==
  ASSUME Arena
  PROVE  \A n \in 0 .. Levels : Grown(Level(n)) /\ WalksWithin(Walks[n], Level(n))
<1> DEFINE S == {n \in 0 .. Levels : Grown(Level(n)) /\ WalksWithin(Walks[n], Level(n))}
<1>1. Levels \in Nat
  BY LevelsUp
<1>2. 0 \in S
  <2>1. WalksWithin(NoWalk, Level(0))
    BY IdleIn DEF WalksWithin, NoWalk
  <2> QED
    BY <1>1, <2>1, WalkSteps, LevelsUp
<1>3. ASSUME NEW n \in 1 .. Levels, n - 1 \in S PROVE n \in S
  <2> DEFINE w == Walks[n - 1]
             D == Level(n - 1)
             E == Level(n)
             nodes == [h \in Handle |-> [e \in Extractor |-> WalkNode(w, h, e)]]
             below == [h \in Handle |-> [e \in Extractor |-> CollectRows(w, h, e)]]
  <2>1. Grown(D) /\ WalksWithin(w, D) /\ n \in 0 .. Levels
    BY <1>1, <1>3
  <2>2. Walks[n] = OneWalk(w)
    BY WalkSteps
  <2>3. E = TablesOver(D)
    BY LevelsUp
  <2> HIDE DEF w, D, E
  <2>4. Grown(E)
    BY <2>1, <2>3, GrownTables
  <2>5. WalksIn(nodes, E)
    BY <2>1, <2>3, WalkNodeIn DEF WalksIn
  <2>6. WalksIn(below, RowsOver(D))
    BY <2>1, CollectRowsIn DEF WalksIn
  <2> HIDE DEF nodes, below
  <2>7. RowsOver(D) \subseteq RowsOver(E)
    <3>1. RowsOver(D) \subseteq E /\ E \subseteq NodesOver(E) /\ NodesOver(E) \subseteq RowsOver(E)
      BY <2>1, <2>3, <2>4, GrownFacts
    <3> QED
      BY <3>1
  <2>8. WalksIn(below, RowsOver(E))
    BY <2>6, <2>7, MadeMore
  <2>9. OneWalk(w).node = nodes /\ OneWalk(w).rows = below
    BY DEF OneWalk, nodes, below
  <2>10. WalksWithin(OneWalk(w), E)
    BY <2>5, <2>8, <2>9 DEF WalksWithin
  <2> QED
    BY <2>1, <2>2, <2>4, <2>10 DEF E
<1> HIDE DEF S
<1>4. 0 .. Levels \subseteq S
  BY <1>1, <1>2, <1>3, Induction
<1> QED
  BY <1>4 DEF S

LEMMA ExtractIn ==
  ASSUME Arena
  PROVE  Extract.nodes \in Seq(AnyNode)
<1> DEFINE e == NewExtractor
           r == Walks[Levels].node[Document][e]
           warning == Node("warning", Document)
<1>1. Levels \in Nat /\ Levels \in 0 .. Levels /\ Document \in Handle
  BY LimitsAssumption DEF Levels, Document, Handle
<1>2. e \in Extractor
  BY DEF NewExtractor, Extractor
<1>3. Extract.nodes = r.made \/ Extract.nodes = Append(r.made, warning)
  BY DEF Extract, Finished
<1>4. WalksIn(Walks[Levels].node, AnyNode) /\ Grown(AnyNode)
  BY <1>1, WalksInLevels, LevelsUp DEF WalksWithin
<1> HIDE DEF e
<1>5. r.made \in Seq(AnyNode)
  BY <1>1, <1>2, <1>4 DEF WalksIn, Made
<1>6. warning \in AnyNode
  <2>1. PICK C : NodesOver(C) \subseteq AnyNode
    BY <1>4 DEF Grown
  <2>2. "warning" \in Kinds
    BY DEF Kinds
  <2>3. warning \in NodesOver(C)
    BY <1>1, <2>2, NodeIn
  <2> QED
    BY <2>1, <2>3
<1> DEFINE made == r.made
<1>7. made \in Seq(AnyNode) /\ (Extract.nodes = made \/ Extract.nodes = Append(made, warning))
  BY <1>3, <1>5
<1> HIDE DEF r, warning, made
<1>8. Append(made, warning) \in Seq(AnyNode)
  BY <1>6, <1>7
<1> QED
  BY <1>7, <1>8

PageChars == {c \in Nat : OfPage(c) /\ CharColumns(c) > 0}

LEMMA WithinPage ==
  ASSUME NEW texts, NEW D, \A m \in D : texts[m] \subseteq PageChars, NEW S \in SUBSET D
  PROVE  Within(texts, S) \subseteq PageChars
BY DEF Within

LEMMA OwnTextOfPage ==
  ASSUME TypeOK, NEW node
  PROVE  OwnText(node) \subseteq PageChars
<1>1. written \in Nat
  BY DEF TypeOK
<1>2. \A c : OfPage(c) => c \in Nat
  BY <1>1 DEF OfPage
<1> QED
  BY <1>2 DEF OwnText, PageChars

LEMMA LineTextOfPage ==
  ASSUME TypeOK, NEW n \in 0 .. Height
  PROVE  \A node \in NodesOf[n] : LineText[n][node] \subseteq PageChars
<1> DEFINE S == {k \in 0 .. Height : \A node \in NodesOf[k] : LineText[k][node] \subseteq PageChars}
<1>1. Height \in Nat
  BY HeightType
<1>2. 0 \in S
  <2>1. NodesOf[0] = {} /\ 0 \in 0 .. Height
    BY <1>1, NodeSteps
  <2> QED
    BY <2>1
<1>3. ASSUME NEW k \in 1 .. Height, k - 1 \in S PROVE k \in S
  <2> DEFINE D == NodesOf[k - 1]
             texts == LineText[k - 1]
  <2>1. k \in 0 .. Height /\ LineText[k] = OneLine(texts) /\ NodesOf[k] = NodesOver(D)
    BY <1>1, LineTextSteps, NodeSteps
  <2>2. NodesOf[k] \subseteq AnyNode
    BY <2>1, MoreLevels
  <2>3. \A m \in D : texts[m] \subseteq PageChars
    BY <1>3
  <2> HIDE DEF D, texts
  <2>4. ASSUME NEW node \in NodesOf[k] PROVE LineText[k][node] \subseteq PageChars
    <3> DEFINE K == ToSet(node.kids)
               own == OwnText(node)
               below == Within(texts, K)
    <3>1. LineText[k][node] = LineTextOf(texts, node)
      BY <2>1, <2>2 DEF OneLine
    <3>2. LineTextOf(texts, node) \in {own, below, {}}
      BY DEF LineTextOf
    <3>3. own \subseteq PageChars
      BY OwnTextOfPage
    <3>4. node.kids \in Seq(D)
      BY <2>1, NodeParts
    <3>5. K \in SUBSET D
      BY <3>4, ToSetType
    <3>6. below \subseteq PageChars
      BY <2>3, <3>5, WithinPage
    <3> HIDE DEF own, below
    <3> QED
      BY <3>1, <3>2, <3>3, <3>6
  <2> QED
    BY <2>1, <2>4
<1> HIDE DEF S
<1>4. 0 .. Height \subseteq S
  BY <1>1, <1>2, <1>3, Induction
<1> QED
  BY <1>4 DEF S

LEMMA DataTextOfPage ==
  ASSUME TypeOK, NEW trs \in Seq(AnyNode)
  PROVE  DataText(trs) \subseteq PageChars
<1> DEFINE texts == LineText[Height]
           cells == {k \in Kids(ToSet(trs)) : k.kind = "td"}
<1>1. \A m \in AnyNode : texts[m] \subseteq PageChars
  <2>1. Height \in 0 .. Height
    BY HeightType
  <2> QED
    BY <2>1, LineTextOfPage DEF AnyNode
<1>2. ToSet(trs) \in SUBSET AnyNode
  BY ToSetType
<1>3. cells \subseteq AnyNode
  BY <1>2, AnyNodeHoldsItsNodes, KidsWithin
<1>4. DataText(trs) = UNION {Within(texts, ToSet(cell.kids)) : cell \in cells}
  BY DEF DataText
<1> HIDE DEF texts, cells
<1>5. ASSUME NEW cell \in cells PROVE Within(texts, ToSet(cell.kids)) \subseteq PageChars
  <2>1. cell.kids \in Seq(AnyNode)
    BY <1>3, AnyNodeHoldsItsNodes, NodeParts DEF HoldsItsNodes
  <2>2. ToSet(cell.kids) \in SUBSET AnyNode
    BY <2>1, ToSetType
  <2> QED
    BY <1>1, <2>2, WithinPage
<1> QED
  BY <1>4, <1>5

LEMMA FlowTextOfPage ==
  ASSUME TypeOK, NEW n \in 0 .. Height
  PROVE  \A node \in NodesOf[n] : FlowText[n][node] \subseteq PageChars
<1> DEFINE S == {k \in 0 .. Height : \A node \in NodesOf[k] : FlowText[k][node] \subseteq PageChars}
<1>1. Height \in Nat
  BY HeightType
<1>2. 0 \in S
  <2>1. NodesOf[0] = {} /\ 0 \in 0 .. Height
    BY <1>1, NodeSteps
  <2> QED
    BY <2>1
<1>3. ASSUME NEW k \in 1 .. Height, k - 1 \in S PROVE k \in S
  <2> DEFINE D == NodesOf[k - 1]
             texts == FlowText[k - 1]
  <2>1. k \in 0 .. Height /\ k - 1 \in 0 .. Height
        /\ FlowText[k] = OneFlow(texts) /\ NodesOf[k] = NodesOver(D)
    BY <1>1, FlowTextSteps, NodeSteps
  <2>2. NodesOf[k] \subseteq AnyNode /\ D \subseteq AnyNode
    BY <2>1, MoreLevels
  <2>3. \A m \in D : texts[m] \subseteq PageChars
    BY <1>3
  <2>4. HoldsItsNodes(D)
    BY <2>1, LevelsHoldTheirNodes
  <2> HIDE DEF D, texts
  <2>5. ASSUME NEW node \in NodesOf[k] PROVE FlowText[k][node] \subseteq PageChars
    <3> DEFINE K == Content(node)
               own == OwnText(node)
               data == DataText(node.kids)
               below == Within(texts, K)
    <3>1. FlowText[k][node] = FlowTextOf(texts, node)
      BY <2>1, <2>2 DEF OneFlow
    <3>2. FlowTextOf(texts, node) \in {own, data, below, {}}
      BY DEF FlowTextOf
    <3>3. own \subseteq PageChars
      BY OwnTextOfPage
    <3>4. node.kids \in Seq(D)
      BY <2>1, NodeParts
    <3>5. node.kids \in Seq(AnyNode)
      BY <2>2, AnyNodeHoldsItsNodes, NodeParts DEF HoldsItsNodes
    <3>6. data \subseteq PageChars
      BY <3>5, DataTextOfPage
    <3>7. K \in SUBSET D
      BY <2>4, <3>4, ContentWithin
    <3>8. below \subseteq PageChars
      BY <2>3, <3>7, WithinPage
    <3> HIDE DEF own, data, below
    <3> QED
      BY <3>1, <3>2, <3>3, <3>6, <3>8
  <2> QED
    BY <2>1, <2>5
<1> HIDE DEF S
<1>4. 0 .. Height \subseteq S
  BY <1>1, <1>2, <1>3, Induction
<1> QED
  BY <1>4 DEF S

-----------------------------------------------------------------------------
(* The page on the screen.                                                 *)

(* The inductive invariant of layout: the document is made of nodes, and   *)
(* what is on the screen is its layout to the width of the last one.       *)
LayoutInv ==
    /\ DocumentInv
    /\ document.nodes \in Seq(AnyNode)
    /\ width \in Nat
    /\ rows \in Rows
    /\ width # 0 => phase = "parsed" /\ rows = Rendered(document.nodes, width)

LEMMA LayoutInit == Init => LayoutInv
<1> DEFINE none == <<>>
<1>1. SUFFICES ASSUME Init PROVE LayoutInv
  OBVIOUS
<1>2. DocumentInv /\ width = 0 /\ rows = none
  BY <1>1, DocumentInit DEF Init
<1>3. document.nodes = none
  BY <1>1 DEF Init, InitDocument, NoDocument
<1>4. none \in Seq(AnyNode) /\ none \in Rows
  BY NoRowsType
<1> QED
  BY <1>2, <1>3, <1>4 DEF LayoutInv

LEMMA StepOfTheDocument ==
  [Next]_vars => [Parse \/ FinishParsing]_<<dom, grammar, phase, document>>
BY DEF Next, Draw, vars

LEMMA LayoutStep == LayoutInv /\ [Next]_vars => LayoutInv'
<1> SUFFICES ASSUME LayoutInv, [Next]_vars PROVE LayoutInv'
  OBVIOUS
<1>1. DocumentInv'
  BY StepOfTheDocument, DocumentStep DEF LayoutInv
<1>2. CASE Parse /\ UNCHANGED <<width, rows>>
  <2>1. phase = "parsing" /\ phase' = phase /\ document' = document
    BY <1>2 DEF Parse
  <2>2. width = 0
    BY <2>1 DEF LayoutInv
  <2> QED
    BY <1>1, <1>2, <2>1, <2>2 DEF LayoutInv
<1>3. CASE FinishParsing /\ UNCHANGED <<width, rows>>
  <2>1. phase = "parsing" /\ width = 0 /\ width' = 0 /\ rows' = rows
    BY <1>3 DEF FinishParsing, LayoutInv
  <2>2. document' = NoDocument \/ document' = Extract
    BY <1>3 DEF FinishParsing
  <2>3. NoDocument.nodes \in Seq(AnyNode)
    BY NoRowsType DEF NoDocument
  <2>4. Extract.nodes \in Seq(AnyNode)
    BY InvIsArena, ExtractIn DEF LayoutInv, DocumentInv
  <2>5. document'.nodes \in Seq(AnyNode)
    BY <2>2, <2>3, <2>4
  <2> QED
    BY <1>1, <2>1, <2>5 DEF LayoutInv
<1>4. ASSUME NEW w \in Widths, Draw(w) PROVE LayoutInv'
  <2>1. w \in Nat
    BY LayoutAssumption
  <2>2. width' = w /\ rows' = Rendered(document.nodes, w) /\ document' = document /\ phase' = "parsed"
    BY <1>4 DEF Draw
  <2>3. rows' = Rendered(document'.nodes, width')
    BY <2>2
  <2>4. rows' \in Rows
    BY <2>1, <2>2, RenderedOK DEF LayoutInv
  <2>5. document'.nodes \in Seq(AnyNode)
    BY <2>2 DEF LayoutInv
  <2> QED
    BY <1>1, <2>1, <2>2, <2>3, <2>4, <2>5 DEF LayoutInv
<1>5. CASE UNCHANGED vars
  <2>1. UNCHANGED <<width, rows, phase, document>>
    BY <1>5 DEF vars
  <2> QED
    BY <1>1, <2>1 DEF LayoutInv
<1> QED
  BY <1>2, <1>3, <1>4, <1>5 DEF Next

(* Whatever page is laid out, to whatever widths, one after the other: the *)
(* document is made of nodes, and what is on the screen is its layout to   *)
(* the width of the last one (render_document).                            *)
THEOREM LayoutCorrect == Spec => []LayoutInv
<1> QED
  BY LayoutInit, LayoutStep, PTL DEF Spec

(* Layout leaves the parser and its document alone.                        *)
THEOREM LayoutDocument == Spec => SpecDocument
<1>1. Init => InitDocument
  BY DEF Init
<1> QED
  BY <1>1, StepOfTheDocument, PTL DEF Spec, SpecDocument

LEMMA InvShowsTheFlow == LayoutInv => FlowTextIsInTheBuffer
<1> SUFFICES ASSUME LayoutInv, width # 0, NEW k \in DOMAIN document.nodes,
                    Needs[Height][document.nodes[k]] + 2 <= width,
                    NEW c \in FlowText[Height][document.nodes[k]]
             PROVE  c \in UNION {{cell.char : cell \in ToSet(Buffer(rows[i], width, Blank))} :
                                   i \in DOMAIN rows}
  BY DEF FlowTextIsInTheBuffer
<1> DEFINE nodes == document.nodes
           node == nodes[k]
<1>1. nodes \in Seq(AnyNode) /\ width \in Nat /\ rows \in Rows /\ rows = Rendered(nodes, width)
  BY DEF LayoutInv
<1>2. node \in AnyNode /\ node \in ToSet(nodes)
  BY <1>1 DEF ToSet
<1>3. c # Space /\ CharColumns(c) > 0
  <2>1. TypeOK /\ Height \in 0 .. Height
    BY HeightType DEF LayoutInv, DocumentInv, IInv
  <2>2. c \in PageChars
    BY <1>2, <2>1, FlowTextOfPage DEF AnyNode
  <2>3. written \in Nat
    BY <2>1 DEF TypeOK
  <2> QED
    BY <2>2, <2>3 DEF PageChars, OfPage, Space
<1>4. Shows(rows, width, c)
  <2>1. c # Space
    BY <1>3
  <2> QED
    BY <1>1, <1>2, <2>1, RenderedOK
<1> HIDE DEF nodes
<1>5. PICK i \in 1 .. Len(rows) : Columns(rows[i]) <= width /\ Holds(rows[i], c)
  BY <1>4 DEF Shows
<1> DEFINE row == rows[i]
<1>6. row \in Seq(ScreenCell) /\ i \in DOMAIN rows
  BY <1>1 DEF Rows, Row
<1>7. PICK j \in 1 .. Len(row) : row[j].char = c
  BY <1>5 DEF Holds
<1> DEFINE cell == row[j]
<1>8. cell \in ToSet(row) /\ CharColumns(cell.char) > 0
  BY <1>3, <1>6, <1>7 DEF ToSet
<1>9. Blank \in ScreenCell
  BY ScreenIsDrawable DEF Drawable
<1> HIDE DEF row, cell
<1>10. cell \in ToSet(Buffer(row, width, Blank))
  BY <1>1, <1>5, <1>6, <1>8, <1>9, RowIsInTheBuffer DEF row
<1> QED
  BY <1>6, <1>7, <1>10 DEF row, cell

(* Whatever page is laid out to whatever width: where there is room for a  *)
(* character of two columns, every character of the flowing text that has  *)
(* a column is in the cell buffer.                                         *)
THEOREM FlowTextIsDrawn == Spec => []FlowTextIsInTheBuffer
<1> QED
  BY LayoutCorrect, InvShowsTheFlow, PTL

(* Whatever page is laid out to whatever width, the link and field spans   *)
(* of its rows are right for their cells, column by column, but for the    *)
(* spans that marks over characters of no column leave on the first column *)
(* of a row.                                                               *)
THEOREM LayoutSpans == Spec => []SpansMatchTheCells
<1>1. LayoutInv => SpansMatchTheCells
  <2>1. ASSUME rows \in Seq(Seq(ScreenCell)) PROVE SpansMatchTheCells
    BY <2>1, LinkAndFieldSpansCorrect
  <2> QED
    BY <2>1 DEF LayoutInv, Rows, Row
<1> QED
  BY <1>1, LayoutCorrect, PTL
=============================================================================
