-------------------------- MODULE VisitHistoryProofs --------------------------
(***************************************************************************)
(* Proofs about VisitHistory, for every set of addresses and hosts, every  *)
(* retention window and list limit, and any number of visits and starts.   *)
(***************************************************************************)
EXTENDS VisitHistory, FiniteSetTheorems, TLAPS

-----------------------------------------------------------------------------
(* The operations of the store.                                            *)

\* What is left of db in db2 when nothing was added or changed: some of the visits, and
\* some of the pages, those of the visits among them.
Shrinks(db, db2) ==
  /\ \A i \in Held(db2) : i \in Held(db) /\ db2.visits[i] = db.visits[i]
  /\ \A u \in Urls : db2.pages[u] \in {db.pages[u], None}
  /\ \A u \in Urls : Visited(db2, u) => db2.pages[u] = db.pages[u]

\* An empty database is a database, and what is left of any other.
LEMMA EmptyDbFacts ==
  /\ EmptyDb \in Database
  /\ \A u \in Urls : EmptyDb.pages[u] = None
  /\ Held(EmptyDb) = {}
  /\ \A db : Shrinks(db, EmptyDb)
<1>1. EmptyDb \in Database /\ Held(EmptyDb) = {} /\ \A u \in Urls : EmptyDb.pages[u] = None
  BY DEF EmptyDb, Database, Held
<1> QED
  BY <1>1 DEF Shrinks, Visited

\* A held visit is one, with an address and a time.
LEMMA HeldType ==
  ASSUME NEW db \in Database, NEW i \in Held(db)
  PROVE  i \in Ids /\ db.visits[i] \in Visit /\ db.visits[i].url \in Urls /\ db.visits[i].at \in Nat
  BY DEF Held, Database, Visit

\* Keeping some of the visits, as a prune does, leaves a database where every page has a
\* visit.
LEMMA KeepVisitsFacts ==
  ASSUME NEW db \in Database, NEW ids
  PROVE  /\ KeepVisits(db, ids) \in Database
         /\ Held(KeepVisits(db, ids)) = Held(db) \cap ids
         /\ \A i \in Held(db) \cap ids : KeepVisits(db, ids).visits[i] = db.visits[i]
         /\ Shrinks(db, KeepVisits(db, ids))
         /\ \A u \in Urls : KeepVisits(db, ids).pages[u] # None => Visited(KeepVisits(db, ids), u)
<1> DEFINE db2 == KeepVisits(db, ids)
<1>1. db2 \in Database
  BY DEF KeepVisits, Database, Held
<1>2. Held(db2) = Held(db) \cap ids
  BY DEF KeepVisits, Held
<1>3. \A i \in Held(db) \cap ids : db2.visits[i] = db.visits[i]
  BY DEF KeepVisits, Held
<1>4. \A u \in Urls : db2.pages[u] = IF \E i \in Held(db) \cap ids : db.visits[i].url = u
                                    THEN db.pages[u] ELSE None
  BY DEF KeepVisits
<1>5. \A u \in Urls : Visited(db2, u) <=> \E i \in Held(db) \cap ids : db.visits[i].url = u
  BY <1>2, <1>3 DEF Visited
<1> HIDE DEF db2
<1>6. Shrinks(db, db2)
  BY <1>2, <1>3, <1>4, <1>5 DEF Shrinks
<1>7. \A u \in Urls : db2.pages[u] # None => Visited(db2, u)
  BY <1>4, <1>5
<1> QED
  BY <1>1, <1>2, <1>3, <1>6, <1>7 DEF db2

\* Removing an entry leaves the other visits and their pages.
LEMMA RemoveEntryFacts ==
  ASSUME NEW db \in Database, NEW id \in Held(db)
  PROVE  /\ RemoveEntry(db, id) \in Database
         /\ Held(RemoveEntry(db, id)) = Held(db) \ {id}
         /\ Shrinks(db, RemoveEntry(db, id))
         /\ \A u \in Urls : RemoveEntry(db, id).pages[u] # db.pages[u] =>
              Visited(db, u) /\ ~Visited(RemoveEntry(db, id), u)
<1> DEFINE db2 == RemoveEntry(db, id)
           gone == db.visits[id].url
<1>1. id \in Ids /\ gone \in Urls
  BY HeldType
<1>2. /\ db2.visits = [db.visits EXCEPT ![id] = None]
      /\ db2.pages = [db.pages EXCEPT ![gone] =
           IF \E i \in Held(db) \ {id} : db.visits[i].url = gone THEN @ ELSE None]
  BY DEF RemoveEntry
<1>3. db2 \in Database
  BY <1>1, <1>2 DEF RemoveEntry, Database
<1>4. Held(db2) = Held(db) \ {id}
  BY <1>1, <1>2 DEF Held, Database
<1>5. \A i \in Held(db2) : i \in Held(db) /\ db2.visits[i] = db.visits[i]
  BY <1>1, <1>2, <1>4 DEF Held, Database
<1>6. \A u \in Urls : db2.pages[u] =
        IF u = gone /\ ~\E i \in Held(db) \ {id} : db.visits[i].url = gone
        THEN None ELSE db.pages[u]
  BY <1>1, <1>2 DEF Database
<1>7. \A u \in Urls : Visited(db2, u) <=> \E i \in Held(db) \ {id} : db.visits[i].url = u
  BY <1>4, <1>5 DEF Visited
<1>8. Visited(db, gone)
  BY DEF Visited
<1> HIDE DEF db2, gone
<1>9. Shrinks(db, db2)
  BY <1>5, <1>6, <1>7 DEF Shrinks
<1> QED
  BY <1>3, <1>4, <1>6, <1>7, <1>8, <1>9 DEF db2

\* Clearing a site removes the pages of its host, their visits, and nothing else.
LEMMA RemoveSiteFacts ==
  ASSUME NEW db \in Database, NEW host
  PROVE  /\ RemoveSite(db, host) \in Database
         /\ Held(RemoveSite(db, host)) = {i \in Held(db) : HostOf[db.visits[i].url] # host}
         /\ Shrinks(db, RemoveSite(db, host))
         /\ \A u \in Urls : RemoveSite(db, host).pages[u] =
              IF HostOf[u] = host THEN None ELSE db.pages[u]
         /\ \A u \in Urls : HostOf[u] = host => ~Visited(RemoveSite(db, host), u)
<1> DEFINE db2 == RemoveSite(db, host)
<1>1. db2 \in Database
  BY DEF RemoveSite, Database, Held
<1>2. Held(db2) = {i \in Held(db) : HostOf[db.visits[i].url] # host}
  BY DEF RemoveSite, Held
<1>3. \A i \in Held(db2) : i \in Held(db) /\ db2.visits[i] = db.visits[i]
  BY <1>2 DEF RemoveSite, Held
<1>4. \A u \in Urls : db2.pages[u] = IF HostOf[u] = host THEN None ELSE db.pages[u]
  BY DEF RemoveSite
<1> HIDE DEF db2
<1>5. \A u \in Urls : HostOf[u] = host => ~Visited(db2, u)
  BY <1>2, <1>3 DEF Visited
<1>6. Shrinks(db, db2)
  BY <1>3, <1>4, <1>5 DEF Shrinks
<1> QED
  BY <1>1, <1>2, <1>4, <1>5, <1>6 DEF db2

\* The first statement of clear_all leaves the pages, and no visit.
LEMMA NoVisitsFacts ==
  ASSUME NEW db \in Database
  PROVE  LET db2 == [db EXCEPT !.visits = EmptyDb.visits] IN
         /\ db2 \in Database /\ Held(db2) = {} /\ Shrinks(db, db2) /\ db2.pages = db.pages
<1> DEFINE db2 == [db EXCEPT !.visits = EmptyDb.visits]
<1>1. db2 \in Database /\ Held(db2) = {} /\ db2.pages = db.pages
  BY EmptyDbFacts DEF Database, Held, EmptyDb
<1>2. Shrinks(db, db2)
  BY <1>1 DEF Shrinks, Visited
<1> QED
  BY <1>1, <1>2

\* Recording adds one visit under a new id and counts it in its page.
LEMMA RecordVisitFacts ==
  ASSUME NEW db \in Database, NEW id \in Ids, NEW u \in Urls, NEW typed \in 0..1,
         now \in Nat, IsNextId(db, id)
  PROVE  /\ RecordVisit(db, id, u, typed) \in Database
         /\ id \notin Held(db)
         /\ Held(RecordVisit(db, id, u, typed)) = Held(db) \cup {id}
         /\ RecordVisit(db, id, u, typed).visits = [db.visits EXCEPT ![id] = [url |-> u, at |-> now]]
         /\ RecordVisit(db, id, u, typed).pages =
              [db.pages EXCEPT ![u] = CountVisit(db.pages[u], typed)]
         /\ CountVisit(db.pages[u], typed) \in Row
<1> DEFINE db2 == RecordVisit(db, id, u, typed)
<1>1. db.pages[u] \in Row \cup {None} /\ typed \in Nat
  BY DEF Database
<1>2. CountVisit(db.pages[u], typed) \in Row
  BY <1>1 DEF CountVisit, Row
<1>3. /\ db2.visits = [db.visits EXCEPT ![id] = [url |-> u, at |-> now]]
      /\ db2.pages = [db.pages EXCEPT ![u] = CountVisit(db.pages[u], typed)]
  BY DEF RecordVisit
<1>4. [url |-> u, at |-> now] \in Visit /\ [url |-> u, at |-> now] # None
  BY NoneIsNoRow DEF Visit
<1>5. db2 \in Database
  BY <1>2, <1>3, <1>4 DEF RecordVisit, Database
<1>6. id \notin Held(db)
  BY DEF IsNextId, Held, Ids
<1>7. Held(db2) = Held(db) \cup {id}
  BY <1>3, <1>4 DEF Held, Database
<1> QED
  BY <1>2, <1>3, <1>5, <1>6, <1>7

-----------------------------------------------------------------------------
(* Types.                                                                  *)

\* The database of the session is one, and writing it leaves the other alone.
LEMMA DbType == ASSUME TypeOK PROVE Db \in Database
  BY DEF TypeOK, Db

LEMMA WriteType ==
  ASSUME TypeOK, NEW db \in Database, Write(db), mode' = mode
  PROVE  /\ file' \in Database /\ ram' \in Database
         /\ Db' = db
         /\ mode = "Persistent" => file' = db /\ ram' = ram
         /\ mode # "Persistent" => file' = file /\ ram' = db
  BY DEF TypeOK, Write, Db

\* A start leaves on disk what was there, or what the prune keeps of it.
LEMMA OpenHistoryFacts ==
  ASSUME TypeOK, OpenHistory
  PROVE  /\ mode' \in {"Disabled", "InMemory", "Persistent"}
         /\ store' \in {"open", "none"}
         /\ file' \in {file, Prune(file)} /\ file' \in Database
         /\ index' \in [Urls -> Row \cup {None}]
         /\ index' = EmptyDb.pages \/ (mode' = "Persistent" /\ index' = file'.pages)
         /\ mode' = "Persistent" /\ store' = "open" =>
              file' = Prune(file) /\ index' = file'.pages
         /\ mode' # "Persistent" => index' = EmptyDb.pages
<1>1. Prune(file) \in Database
  BY KeepVisitsFacts DEF TypeOK, Prune
<1>2. EmptyDb.pages \in [Urls -> Row \cup {None}]
  BY DEF EmptyDb
<1>3. Prune(file).pages \in [Urls -> Row \cup {None}]
  BY <1>1 DEF Database
<1>4. file \in Database
  BY DEF TypeOK
<1> DEFINE pruned == Prune(file)
<1> USE <1>1, <1>2, <1>3, <1>4
<1>5. CASE mode' = "Disabled" /\ store' = "none" /\ file' = file /\ index' = EmptyDb.pages
  BY <1>5
<1>6. CASE mode' = "InMemory" /\ store' \in {"open", "none"} /\ file' = file /\ index' = EmptyDb.pages
  BY <1>6
<1>7. CASE mode' = "Persistent" /\ store' = "open" /\ file' = pruned /\ index' = pruned.pages
  BY <1>7
<1>8. CASE mode' = "Persistent" /\ store' = "none" /\ file' \in {file, pruned} /\ index' = EmptyDb.pages
  BY <1>8
<1> QED
  BY <1>5, <1>6, <1>7, <1>8 DEF OpenHistory

\* The browser starts well typed.
LEMMA TypeInit == Init => TypeOK
<1> SUFFICES ASSUME Init PROVE TypeOK
  OBVIOUS
<1>1. mode \in {"Disabled", "InMemory", "Persistent"} /\ store \in {"open", "none"}
  BY SwitchesAssumption DEF Init
<1>2. file \in Database /\ ram \in Database
  BY EmptyDbFacts DEF Init
<1>3. index \in [Urls -> Row \cup {None}]
  BY DEF Init, EmptyDb
<1> QED
  BY <1>1, <1>2, <1>3 DEF Init, TypeOK

\* Every step keeps the variables in their types.
LEMMA TypeStep ==
  ASSUME TypeOK, [Next]_vars
  PROVE  TypeOK'
<1>1. CASE Restart
  <2>1. ram' \in Database /\ list' \subseteq Ids /\ clearing' \in BOOLEAN /\ session' \in Nat
        /\ now' \in Nat /\ stale' \subseteq Urls /\ told' = told
    <3>1. /\ session' = session + 1 /\ ram' = EmptyDb /\ list' = {} /\ clearing' = FALSE
          /\ stale' = {} /\ now' = now /\ told' = told
      BY <1>1 DEF Restart
    <3>2. EmptyDb \in Database
      BY EmptyDbFacts
    <3>3. session' \in Nat
      BY <3>1 DEF TypeOK
    <3>4. ram' \in Database /\ clearing' \in BOOLEAN
      BY <3>1, <3>2
    <3> QED
      BY <3>1, <3>3, <3>4 DEF TypeOK
  <2>2. OpenHistory
    BY <1>1 DEF Restart
  <2> QED
    BY <2>1, <2>2, OpenHistoryFacts DEF TypeOK, told
<1>2. CASE Tick
  BY <1>2 DEF Tick, memory, told, TypeOK
<1>3. CASE RecordCurrentVisit
  <2>1. PICK id \in Ids, u \in Urls, typed \in 0..1 :
          /\ IsNextId(Db, id)
          /\ Write(RecordVisit(Db, id, u, typed))
          /\ index' = [index EXCEPT ![u] = CountVisit(Db.pages[u], typed)]
          /\ stale' = stale \ {u}
          /\ IF mode = "Persistent"
             THEN forgotten' = forgotten \ {u} /\ missed' = missed \ {u}
             ELSE UNCHANGED told
    BY <1>3 DEF RecordCurrentVisit
  <2>2. /\ RecordVisit(Db, id, u, typed) \in Database
        /\ CountVisit(Db.pages[u], typed) \in Row
    BY <2>1, DbType, RecordVisitFacts DEF TypeOK
  <2>3. UNCHANGED <<mode, store, clearing, now, session>> /\ list' = {}
    BY <1>3 DEF RecordCurrentVisit
  <2>4. file' \in Database /\ ram' \in Database
    BY <2>1, <2>2, <2>3, WriteType
  <2>5. index' \in [Urls -> Row \cup {None}]
    BY <2>1, <2>2 DEF TypeOK
  <2>6. forgotten' \subseteq Urls /\ missed' \subseteq Urls
    BY <2>1 DEF told, TypeOK
  <2> QED
    BY <2>1, <2>3, <2>4, <2>5, <2>6 DEF TypeOK
<1>4. CASE OpenList
  <2>1. PICK matching : list' = Newest(Db, matching)
    BY <1>4 DEF OpenList
  <2>2. list' \subseteq Ids
    BY <2>1 DEF Newest, Held
  <2> QED
    BY <1>4, <2>2 DEF OpenList, told, TypeOK
<1>5. CASE CloseList
  BY <1>5 DEF CloseList, told, TypeOK
<1>6. CASE DeleteEntry
  <2>1. PICK id \in list :
          /\ Write(IF id \in Held(Db) THEN RemoveEntry(Db, id) ELSE Db)
          /\ list' = DropFromList(id)
          /\ stale' = stale \cup {u \in Urls : Visited(Db, u) /\ ~Visited(RemoveEntry(Db, id), u)}
    BY <1>6 DEF DeleteEntry
  <2>2. UNCHANGED <<mode, store, index, clearing, now, session, told>>
    BY <1>6 DEF DeleteEntry
  <2>3. (IF id \in Held(Db) THEN RemoveEntry(Db, id) ELSE Db) \in Database
    BY DbType, RemoveEntryFacts
  <2>4. file' \in Database /\ ram' \in Database
    BY <2>1, <2>2, <2>3, WriteType
  <2>5. list' \subseteq Ids /\ stale' \subseteq Urls
    BY <2>1 DEF TypeOK, DropFromList
  <2> QED
    BY <2>2, <2>4, <2>5 DEF told, TypeOK
<1>7. CASE ClearSite
  <2>1. PICK host \in Hosts, exact \in Spellings, left \in SUBSET Urls :
          /\ ClearHistorySite(host, exact)
          /\ Told({u \in Urls : HostOf[u] = host}, left)
          /\ stale' = stale \cup left
    BY <1>7 DEF ClearSite
  <2>2. UNCHANGED <<mode, store, list, clearing, now, session>>
    BY <1>7 DEF ClearSite
  <2>3. (IF exact THEN RemoveSite(Db, host) ELSE Db) \in Database
    BY DbType, RemoveSiteFacts
  <2>4. file' \in Database /\ ram' \in Database
    BY <2>1, <2>2, <2>3, WriteType DEF ClearHistorySite
  <2>5. index' \in [Urls -> Row \cup {None}] /\ stale' \subseteq Urls
    BY <2>1 DEF TypeOK, ClearHistorySite
  <2>6. forgotten' \subseteq Urls /\ missed' \subseteq Urls
    BY <2>1 DEF TypeOK, Told, told
  <2> QED
    BY <2>2, <2>4, <2>5, <2>6 DEF TypeOK
<1>8. CASE ClearVisits
  <2>1. UNCHANGED <<mode, store, memory, now, session, told>> /\ clearing' = TRUE
        /\ Write([Db EXCEPT !.visits = EmptyDb.visits])
    BY <1>8 DEF ClearVisits
  <2>2. [Db EXCEPT !.visits = EmptyDb.visits] \in Database
    BY DbType, NoVisitsFacts
  <2>3. file' \in Database /\ ram' \in Database
    BY <2>1, <2>2, WriteType
  <2> QED
    BY <2>1, <2>3 DEF TypeOK, memory, told
<1>9. CASE ClearPages
  <2>1. UNCHANGED <<mode, store, list, now, session, stale>> /\ clearing' = FALSE
        /\ Write(EmptyDb) /\ index' = EmptyDb.pages /\ Told(Urls, {})
    BY <1>9 DEF ClearPages
  <2>2. file' \in Database /\ ram' \in Database
    BY <2>1, EmptyDbFacts, WriteType
  <2>3. /\ index' \in [Urls -> Row \cup {None}]
        /\ forgotten' \subseteq Urls /\ missed' \subseteq Urls
    BY <2>1 DEF TypeOK, EmptyDb, Told, told
  <2> QED
    BY <2>1, <2>2, <2>3 DEF TypeOK
<1>10. CASE ClearPagesFails
  BY <1>10 DEF ClearPagesFails, memory, told, TypeOK
<1>11. CASE UNCHANGED vars
  BY <1>11 DEF vars, memory, told, TypeOK
<1> QED
  BY <1>1, <1>2, <1>3, <1>4, <1>5, <1>6, <1>7, <1>8, <1>9, <1>10, <1>11 DEF Next

\* Every variable keeps its type: every database is one, whatever is done to it.
THEOREM TypeCorrect == Spec => []TypeOK
<1>1. TypeOK /\ [Next]_vars => TypeOK'
  BY TypeStep
<1> QED
  BY TypeInit, <1>1, PTL DEF Spec

-----------------------------------------------------------------------------
(***************************************************************************)
(* What each kind of step does to the two databases.  Most only take away; *)
(* a start also leaves the memory of an in-memory session behind.          *)
(***************************************************************************)

\* A step that takes visits and pages away from the session's database, or none.
TakesAway == Shrinks(file, file') /\ Shrinks(ram, ram')

\* A database shrinks to itself.
LEMMA ShrinksToItself == \A db : Shrinks(db, db)
  BY DEF Shrinks

LEMMA WriteTakesAway ==
  ASSUME TypeOK, NEW db, Write(db), Shrinks(Db, db)
  PROVE  TakesAway
  BY ShrinksToItself DEF Write, Db, TakesAway

\* Deleting the highlighted entry: the visit goes, and an address that loses its page is
\* one that had its last visit deleted.
LEMMA DeleteEntryFacts ==
  ASSUME TypeOK, ListedVisitsAreHeld, DeleteEntry
  PROVE  \E id \in list :
           /\ id \in Held(Db) /\ Db' = RemoveEntry(Db, id)
           /\ Held(Db') = Held(Db) \ {id}
           /\ list' = list \ {id}
           /\ TakesAway
           /\ \A u \in Urls : Db'.pages[u] # Db.pages[u] => u \in stale'
           /\ stale \subseteq stale'
<1>1. PICK id \in list :
        /\ Write(IF id \in Held(Db) THEN RemoveEntry(Db, id) ELSE Db)
        /\ list' = DropFromList(id)
        /\ stale' = stale \cup {u \in Urls : Visited(Db, u) /\ ~Visited(RemoveEntry(Db, id), u)}
  BY DEF DeleteEntry
<1>2. id \in Held(Db) /\ Write(RemoveEntry(Db, id)) /\ mode' = mode
  BY <1>1 DEF ListedVisitsAreHeld, DeleteEntry
<1>3. /\ RemoveEntry(Db, id) \in Database
      /\ Held(RemoveEntry(Db, id)) = Held(Db) \ {id}
      /\ Shrinks(Db, RemoveEntry(Db, id))
      /\ \A u \in Urls : RemoveEntry(Db, id).pages[u] # Db.pages[u] =>
           Visited(Db, u) /\ ~Visited(RemoveEntry(Db, id), u)
  BY <1>2, DbType, RemoveEntryFacts
<1>4. Db' = RemoveEntry(Db, id)
  BY <1>2, <1>3, WriteType
<1>5. TakesAway
  BY <1>2, <1>3, WriteTakesAway
<1> QED
  BY <1>1, <1>2, <1>3, <1>4, <1>5 DEF DropFromList

\* Clearing a site; the pages that the store kept are those of a host spelt otherwise.
LEMMA ClearSiteFacts ==
  ASSUME TypeOK, ClearSite
  PROVE  \E host \in Hosts, exact \in Spellings, left \in SUBSET Urls :
           /\ Db' = IF exact THEN RemoveSite(Db, host) ELSE Db
           /\ index' = [u \in Urls |-> IF HostOf[u] = host THEN None ELSE index[u]]
           /\ left = IF exact THEN {} ELSE {u \in Urls : HostOf[u] = host /\ Db.pages[u] # None}
           /\ Told({u \in Urls : HostOf[u] = host}, left)
           /\ stale' = stale \cup left
           /\ TakesAway
<1>1. PICK host \in Hosts, exact \in Spellings, left \in SUBSET Urls :
        /\ ClearHistorySite(host, exact)
        /\ left = IF exact THEN {} ELSE {u \in Urls : HostOf[u] = host /\ Db.pages[u] # None}
        /\ Told({u \in Urls : HostOf[u] = host}, left)
        /\ stale' = stale \cup left
  BY DEF ClearSite
<1> DEFINE db2 == IF exact THEN RemoveSite(Db, host) ELSE Db
<1>2. Write(db2) /\ mode' = mode
  BY <1>1 DEF ClearHistorySite, ClearSite
<1>3. db2 \in Database /\ Shrinks(Db, db2)
  BY DbType, RemoveSiteFacts, ShrinksToItself
<1> HIDE DEF db2
<1>4. Db' = db2 /\ TakesAway
  BY <1>2, <1>3, WriteType, WriteTakesAway
<1> QED
  BY <1>1, <1>4 DEF ClearHistorySite, db2

\* The two halves of clear_all.
LEMMA ClearVisitsFacts ==
  ASSUME TypeOK, ClearVisits
  PROVE  Db'.pages = Db.pages /\ Held(Db') = {} /\ TakesAway
<1> DEFINE db2 == [Db EXCEPT !.visits = EmptyDb.visits]
<1>1. Write(db2) /\ mode' = mode
  BY DEF ClearVisits
<1>2. db2 \in Database /\ Shrinks(Db, db2) /\ db2.pages = Db.pages /\ Held(db2) = {}
  BY DbType, NoVisitsFacts
<1> HIDE DEF db2
<1> QED
  BY <1>1, <1>2, WriteType, WriteTakesAway

LEMMA ClearPagesFacts ==
  ASSUME TypeOK, ClearPages
  PROVE  Db' = EmptyDb /\ index' = EmptyDb.pages /\ Told(Urls, {}) /\ TakesAway
<1>1. Write(EmptyDb) /\ mode' = mode /\ index' = EmptyDb.pages /\ Told(Urls, {})
  BY DEF ClearPages
<1> QED
  BY <1>1, EmptyDbFacts, WriteType, WriteTakesAway

\* A start.
LEMMA RestartFacts ==
  ASSUME TypeOK, Restart
  PROVE  Shrinks(file, file') /\ ram' = EmptyDb /\ TakesAway
<1>1. OpenHistory /\ ram' = EmptyDb
  BY DEF Restart
<1>2. Shrinks(file, Prune(file))
  BY KeepVisitsFacts DEF TypeOK, Prune
<1>3. file' \in {file, Prune(file)}
  BY <1>1, OpenHistoryFacts
<1> QED
  BY <1>1, <1>2, <1>3, ShrinksToItself, EmptyDbFacts DEF TakesAway

\* Steps that leave both databases and the session alone.
LEMMA OtherStepsFacts ==
  ASSUME Tick \/ OpenList \/ CloseList \/ ClearPagesFails \/ UNCHANGED vars
  PROVE  /\ file' = file /\ ram' = ram /\ mode' = mode /\ store' = store
         /\ Db' = Db /\ index' = index /\ stale' = stale
         /\ forgotten' = forgotten /\ missed' = missed
  BY DEF Tick, OpenList, CloseList, ClearPagesFails, vars, memory, told, Db

\* A recorded visit.
LEMMA RecordFacts ==
  ASSUME TypeOK, RecordCurrentVisit
  PROVE  \E id \in Ids, u \in Urls, typed \in 0..1 :
           /\ IsNextId(Db, id) /\ id \notin Held(Db)
           /\ Db' = RecordVisit(Db, id, u, typed)
           /\ Held(Db') = Held(Db) \cup {id}
           /\ Db'.visits = [Db.visits EXCEPT ![id] = [url |-> u, at |-> now]]
           /\ Db'.pages = [Db.pages EXCEPT ![u] = CountVisit(Db.pages[u], typed)]
           /\ index' = [index EXCEPT ![u] = CountVisit(Db.pages[u], typed)]
           /\ stale' = stale \ {u}
           /\ IF mode = "Persistent"
              THEN forgotten' = forgotten \ {u} /\ missed' = missed \ {u}
              ELSE UNCHANGED told
           /\ mode = "Persistent" => ram' = ram
           /\ mode # "Persistent" => file' = file
<1>1. PICK id \in Ids, u \in Urls, typed \in 0..1 :
        /\ IsNextId(Db, id)
        /\ Write(RecordVisit(Db, id, u, typed))
        /\ index' = [index EXCEPT ![u] = CountVisit(Db.pages[u], typed)]
        /\ stale' = stale \ {u}
        /\ IF mode = "Persistent"
           THEN forgotten' = forgotten \ {u} /\ missed' = missed \ {u}
           ELSE UNCHANGED told
  BY DEF RecordCurrentVisit
<1>2. mode' = mode /\ now \in Nat /\ Db \in Database
  BY DbType DEF RecordCurrentVisit, TypeOK
<1>3. /\ RecordVisit(Db, id, u, typed) \in Database
      /\ id \notin Held(Db)
      /\ Held(RecordVisit(Db, id, u, typed)) = Held(Db) \cup {id}
  BY <1>1, <1>2, RecordVisitFacts
<1>4. /\ RecordVisit(Db, id, u, typed).visits = [Db.visits EXCEPT ![id] = [url |-> u, at |-> now]]
      /\ RecordVisit(Db, id, u, typed).pages = [Db.pages EXCEPT ![u] = CountVisit(Db.pages[u], typed)]
  BY DEF RecordVisit
<1>5. /\ Db' = RecordVisit(Db, id, u, typed)
      /\ mode = "Persistent" => ram' = ram
      /\ mode # "Persistent" => file' = file
  BY <1>1, <1>2, <1>3, WriteType
<1> QED
  BY <1>1, <1>3, <1>4, <1>5

-----------------------------------------------------------------------------
(* The open list.                                                          *)

\* The list is open over an enabled store only, and never while it is being cleared.
ListInv ==
  /\ ListedVisitsAreHeld
  /\ list # {} => EnabledStore /\ ~clearing
  /\ clearing => EnabledStore

LEMMA ListInit == Init => ListInv
  BY DEF Init, ListInv, ListedVisitsAreHeld

LEMMA ListStep ==
  ASSUME TypeOK, ListInv, [Next]_vars
  PROVE  ListInv'
<1>1. CASE Restart \/ RecordCurrentVisit \/ CloseList
  <2>1. list' = {}
    BY <1>1 DEF Restart, RecordCurrentVisit, CloseList
  <2>2. CASE Restart
    BY <2>1, <2>2 DEF Restart, ListInv, ListedVisitsAreHeld
  <2>3. CASE RecordCurrentVisit \/ CloseList
    <3>1. UNCHANGED <<mode, store, clearing>>
      BY <2>3 DEF RecordCurrentVisit, CloseList
    <3> QED
      BY <2>1, <3>1 DEF ListInv, ListedVisitsAreHeld, EnabledStore
  <2> QED
    BY <1>1, <2>2, <2>3
<1>2. CASE Tick \/ ClearPagesFails \/ UNCHANGED vars
  <2>1. Db' = Db
    BY <1>2, OtherStepsFacts
  <2> QED
    BY <1>2, <2>1 DEF Tick, ClearPagesFails, vars, memory, ListInv, ListedVisitsAreHeld,
       EnabledStore
<1>3. CASE OpenList
  <2>1. Db' = Db
    BY <1>3, OtherStepsFacts
  <2>2. list' \subseteq Held(Db)
    BY <1>3 DEF OpenList, Newest
  <2> QED
    BY <1>3, <2>1, <2>2 DEF OpenList, Open, Ready, ListInv, ListedVisitsAreHeld, EnabledStore
<1>4. CASE DeleteEntry
  <2>1. PICK id \in list : Held(Db') = Held(Db) \ {id} /\ list' = list \ {id}
    BY <1>4, DeleteEntryFacts DEF ListInv
  <2> QED
    BY <1>4, <2>1 DEF DeleteEntry, ListInv, ListedVisitsAreHeld, EnabledStore
<1>5. CASE ClearSite \/ ClearVisits \/ ClearPages
  BY <1>5 DEF ClearSite, ClearVisits, ClearPages, memory, Open, ListInv, ListedVisitsAreHeld,
     EnabledStore
<1> QED
  BY <1>1, <1>2, <1>3, <1>4, <1>5 DEF Next

\* Every row of the open history list is a visit the store still holds.
THEOREM ListCorrect == Spec => []ListedVisitsAreHeld
<1>1. TypeOK /\ ListInv /\ [Next]_vars => ListInv'
  BY ListStep
<1>2. ListInv => ListedVisitsAreHeld
  BY DEF ListInv
<1> QED
  BY ListInit, TypeCorrect, <1>1, <1>2, PTL DEF Spec

-----------------------------------------------------------------------------
(* Suggestions.                                                            *)

\* Whenever there is a store, clearing or not, the index is its pages but for the
\* stale ones.
SuggestionInv ==
  EnabledStore => \A u \in Urls \ stale : index[u] = Db.pages[u]

LEMMA SuggestionInit == Init => SuggestionInv
  BY DEF Init, SuggestionInv, Db

\* Every step keeps index and store together, or makes the address a stale one.
LEMMA SuggestionStep ==
  ASSUME TypeOK, ListInv, SuggestionInv, [Next]_vars
  PROVE  SuggestionInv'
<1>1. CASE Restart
  <2>1. OpenHistory /\ ram' = EmptyDb
    BY <1>1 DEF Restart
  <2>2. CASE mode' = "Persistent" /\ store' = "open"
    BY <2>1, <2>2, OpenHistoryFacts DEF SuggestionInv, Db
  <2>3. CASE mode' # "Persistent"
    BY <2>1, <2>3, OpenHistoryFacts DEF SuggestionInv, Db
  <2>4. CASE store' # "open"
    BY <2>4 DEF SuggestionInv, EnabledStore
  <2> QED
    BY <2>2, <2>3, <2>4
<1>2. CASE Tick \/ OpenList \/ CloseList \/ ClearPagesFails \/ UNCHANGED vars
  BY <1>2, OtherStepsFacts DEF SuggestionInv, EnabledStore
<1>3. CASE RecordCurrentVisit
  <2>1. PICK id \in Ids, u \in Urls, typed \in 0..1 :
          /\ Db'.pages = [Db.pages EXCEPT ![u] = CountVisit(Db.pages[u], typed)]
          /\ index' = [index EXCEPT ![u] = CountVisit(Db.pages[u], typed)]
          /\ stale' = stale \ {u}
    BY <1>3, RecordFacts
  <2>2. Db.pages \in [Urls -> Row \cup {None}] /\ index \in [Urls -> Row \cup {None}]
    BY DbType DEF Database, TypeOK
  <2>3. EnabledStore /\ EnabledStore'
    BY <1>3 DEF RecordCurrentVisit, Open, EnabledStore
  <2> QED
    BY <2>1, <2>2, <2>3 DEF SuggestionInv
<1>4. CASE DeleteEntry
  <2>1. \A u \in Urls : Db'.pages[u] # Db.pages[u] => u \in stale'
    BY <1>4, DeleteEntryFacts DEF ListInv
  <2>2. stale \subseteq stale'
    BY <1>4, DeleteEntryFacts DEF ListInv
  <2>3. index' = index /\ (EnabledStore' <=> EnabledStore)
    BY <1>4 DEF DeleteEntry, EnabledStore
  <2> QED
    BY <2>1, <2>2, <2>3 DEF SuggestionInv
<1>5. CASE ClearSite
  <2>1. PICK host \in Hosts, exact \in Spellings, left \in SUBSET Urls :
          /\ Db' = IF exact THEN RemoveSite(Db, host) ELSE Db
          /\ index' = [u \in Urls |-> IF HostOf[u] = host THEN None ELSE index[u]]
          /\ left = IF exact THEN {} ELSE {u \in Urls : HostOf[u] = host /\ Db.pages[u] # None}
          /\ stale' = stale \cup left
    BY <1>5, ClearSiteFacts
  <2>2. \A u \in Urls \ stale' :
          Db'.pages[u] = IF HostOf[u] = host THEN None ELSE Db.pages[u]
    <3>1. CASE exact
      BY <2>1, <3>1, DbType, RemoveSiteFacts
    <3>2. CASE ~exact
      BY <2>1, <3>2
    <3> QED
      BY <3>1, <3>2
  <2>3. EnabledStore' <=> EnabledStore
    BY <1>5 DEF ClearSite, EnabledStore
  <2> QED
    BY <2>1, <2>2, <2>3 DEF SuggestionInv
<1>6. CASE ClearVisits
  <2>1. index' = index /\ stale' = stale /\ (EnabledStore' <=> EnabledStore)
    BY <1>6 DEF ClearVisits, memory, EnabledStore
  <2> QED
    BY <1>6, <2>1, ClearVisitsFacts DEF SuggestionInv
<1>7. CASE ClearPages
  BY <1>7, ClearPagesFacts DEF SuggestionInv
<1> QED
  BY <1>1, <1>2, <1>3, <1>4, <1>5, <1>6, <1>7 DEF Next

\* The address bar offers what the store has counted, the stale addresses excepted.
THEOREM SuggestionsCorrect == Spec => []SuggestionsMatchTheStore
<1>1. TypeOK /\ ListInv /\ SuggestionInv /\ [Next]_vars => SuggestionInv'
  BY SuggestionStep
<1>2. TypeOK /\ ListInv /\ [Next]_vars => ListInv'
  BY ListStep
<1>3. SuggestionInv => SuggestionsMatchTheStore
  BY DEF SuggestionInv, SuggestionsMatchTheStore, Open
<1> QED
  BY SuggestionInit, ListInit, TypeCorrect, <1>1, <1>2, <1>3, PTL DEF Spec

-----------------------------------------------------------------------------
(* Starts.                                                                 *)

\* A start that opens the database leaves no page without a visit.
LEMMA StartStep ==
  ASSUME TypeOK, [Next]_vars
  PROVE  session' # session /\ mode' = "Persistent" /\ store' = "open" =>
           \A u \in Urls : file'.pages[u] # None => Visited(file', u)
<1>1. CASE Restart
  <2>1. OpenHistory
    BY <1>1 DEF Restart
  <2>2. SUFFICES ASSUME mode' = "Persistent", store' = "open"
                 PROVE  \A u \in Urls : file'.pages[u] # None => Visited(file', u)
    OBVIOUS
  <2>3. file' = Prune(file)
    BY <2>1, <2>2, OpenHistoryFacts
  <2> QED
    BY <2>3, KeepVisitsFacts DEF Prune, TypeOK
<1>2. CASE ~Restart
  <2>1. session' = session
    BY <1>2 DEF Next, vars, Tick, RecordCurrentVisit, OpenList, CloseList, DeleteEntry, ClearSite,
       ClearVisits, ClearPages, ClearPagesFails
  <2> QED
    BY <2>1
<1> QED
  BY <1>1, <1>2

\* A start that opens the database repairs what an interrupted clear_all left behind.
THEOREM StartsCorrect == Spec => StartsAreConsistent
<1>1. TypeOK /\ [Next]_vars =>
        (session' # session /\ mode' = "Persistent" /\ store' = "open" =>
           \A u \in Urls : file'.pages[u] # None => Visited(file', u))
  BY StartStep
<1> QED
  BY <1>1, TypeCorrect, PTL DEF Spec, StartsAreConsistent

-----------------------------------------------------------------------------
(* What a page sums up.                                                    *)

VisitsOf(db, u) == {i \in Held(db) : db.visits[i].url = u}

\* Every row covers its visits, and neither rows nor visits are of the future.
Covered(db) ==
  /\ \A u \in Urls : RowCoversVisits(db, u)
  /\ \A i \in Held(db) : db.visits[i].at <= now
  /\ \A u \in Urls : db.pages[u] # None =>
       db.pages[u].typed <= db.pages[u].count /\ db.pages[u].last <= now

CoverInv == Covered(file) /\ Covered(ram)

\* The visits of an address are finitely many, and a row counts them all.
LEMMA VisitsOfFacts ==
  ASSUME NEW db \in Database, NEW u \in Urls, RowCoversVisits(db, u)
  PROVE  /\ IsFiniteSet(VisitsOf(db, u)) /\ Cardinality(VisitsOf(db, u)) \in Nat
         /\ db.pages[u] # None => Cardinality(VisitsOf(db, u)) <= db.pages[u].count
         /\ db.pages[u] = None => Cardinality(VisitsOf(db, u)) = 0
<1>1. IsFiniteSet(Ids)
  BY FS_Interval, CountsAssumption DEF Ids
<1>2. VisitsOf(db, u) \subseteq Ids
  BY DEF VisitsOf, Held
<1>3. IsFiniteSet(VisitsOf(db, u))
  BY <1>1, <1>2, FS_Subset
<1>4. Cardinality(VisitsOf(db, u)) \in Nat
  BY <1>3, FS_CardinalityType
<1>5. CASE Visited(db, u)
  BY <1>3, <1>4, <1>5 DEF RowCoversVisits, VisitsOf
<1>6. CASE ~Visited(db, u)
  <2>1. VisitsOf(db, u) = {}
    BY <1>6 DEF Visited, VisitsOf
  <2>2. Cardinality(VisitsOf(db, u)) = 0
    BY <2>1, FS_EmptySet
  <2>3. db.pages[u] # None => db.pages[u].count \in Nat
    BY DEF Database, Row
  <2> QED
    BY <1>3, <1>4, <2>2, <2>3
<1> QED
  BY <1>5, <1>6

\* Taking away leaves rows that cover what is left.
LEMMA ShrinksCovered ==
  ASSUME NEW db \in Database, NEW db2 \in Database, Covered(db), Shrinks(db, db2)
  PROVE  Covered(db2)
<1>1. ASSUME NEW u \in Urls, Visited(db2, u)
      PROVE  RowCoversVisits(db2, u)
  <2>1. Visited(db, u) /\ db2.pages[u] = db.pages[u] /\ RowCoversVisits(db, u)
    BY <1>1 DEF Shrinks, Visited, Covered
  <2>2. VisitsOf(db2, u) \subseteq VisitsOf(db, u)
    BY DEF Shrinks, VisitsOf
  <2>3. Cardinality(VisitsOf(db2, u)) <= Cardinality(VisitsOf(db, u))
    BY <2>1, <2>2, VisitsOfFacts, FS_Subset
  <2>4. IsFiniteSet(VisitsOf(db2, u)) /\ Cardinality(VisitsOf(db2, u)) \in Nat
    BY <2>1, <2>2, VisitsOfFacts, FS_Subset, FS_CardinalityType
  <2>5. db.pages[u] # None /\ db.pages[u].count \in Nat
    BY <2>1 DEF RowCoversVisits, Database, Row
  <2>6. Cardinality(VisitsOf(db2, u)) <= db.pages[u].count
    BY <2>1, <2>3, <2>4, <2>5, VisitsOfFacts
  <2>7. \A i \in Held(db2) : db2.visits[i].url = u => db2.visits[i].at <= db.pages[u].last
    BY <2>1 DEF Shrinks, RowCoversVisits
  <2> QED
    BY <2>1, <2>6, <2>7 DEF RowCoversVisits, VisitsOf
<1>2. \A u \in Urls : RowCoversVisits(db2, u)
  BY <1>1 DEF RowCoversVisits
<1>3. \A i \in Held(db2) : db2.visits[i].at <= now
  BY DEF Shrinks, Covered
<1>4. \A u \in Urls : db2.pages[u] # None =>
        db2.pages[u].typed <= db2.pages[u].count /\ db2.pages[u].last <= now
  BY DEF Shrinks, Covered
<1> QED
  BY <1>2, <1>3, <1>4 DEF Covered

\* Recording counts the visit it adds.
LEMMA RecordCovered ==
  ASSUME NEW db \in Database, NEW id \in Ids, NEW u \in Urls, NEW typed \in 0..1,
         now \in Nat, IsNextId(db, id), Covered(db)
  PROVE  Covered(RecordVisit(db, id, u, typed))
<1> DEFINE db2 == RecordVisit(db, id, u, typed)
           row == CountVisit(db.pages[u], typed)
<1>1. /\ db2 \in Database /\ id \notin Held(db) /\ Held(db2) = Held(db) \cup {id}
      /\ db2.visits = [db.visits EXCEPT ![id] = [url |-> u, at |-> now]]
      /\ db2.pages = [db.pages EXCEPT ![u] = row]
      /\ row \in Row
  <2>1. /\ db2 \in Database /\ id \notin Held(db) /\ Held(db2) = Held(db) \cup {id}
        /\ row \in Row
    BY RecordVisitFacts
  <2>2. /\ db2.visits = [db.visits EXCEPT ![id] = [url |-> u, at |-> now]]
        /\ db2.pages = [db.pages EXCEPT ![u] = row]
    BY DEF RecordVisit
  <2> QED
    BY <2>1, <2>2
<1>2. db2.pages[u] = row /\ \A w \in Urls \ {u} : db2.pages[w] = db.pages[w]
  BY <1>1 DEF Database
<1>3. /\ db2.visits[id] = [url |-> u, at |-> now]
      /\ \A i \in Held(db) : db2.visits[i] = db.visits[i]
  BY <1>1 DEF Database, Held
<1>4. db.pages[u] # None => /\ db.pages[u].count \in Nat /\ db.pages[u].typed \in Nat
                            /\ db.pages[u].typed <= db.pages[u].count
  BY DEF Database, Row, Covered
<1>5. /\ row.count = (IF db.pages[u] = None THEN 0 ELSE db.pages[u].count) + 1
      /\ row.typed = (IF db.pages[u] = None THEN 0 ELSE db.pages[u].typed) + typed
      /\ row.last = now
  BY <1>4 DEF CountVisit
<1>6. row.typed <= row.count
  BY <1>4, <1>5
<1>7. row # None
  BY <1>1, NoneIsNoRow DEF Row
<1> HIDE DEF db2, row
<1>8. \A i \in Held(db) : db.visits[i].at \in Nat /\ db.visits[i].at <= now
  BY HeldType DEF Covered
<1>9. \A i \in Held(db2) : db2.visits[i].at <= now
  BY <1>1, <1>3, <1>8
<1>10. RowCoversVisits(db2, u)
  <2>1. VisitsOf(db2, u) = VisitsOf(db, u) \cup {id}
    BY <1>1, <1>3 DEF VisitsOf
  <2>2. id \notin VisitsOf(db, u)
    BY <1>1 DEF VisitsOf
  <2>3. RowCoversVisits(db, u)
    BY DEF Covered
  <2>4. /\ IsFiniteSet(VisitsOf(db, u)) /\ Cardinality(VisitsOf(db, u)) \in Nat
        /\ db.pages[u] # None => Cardinality(VisitsOf(db, u)) <= db.pages[u].count
        /\ db.pages[u] = None => Cardinality(VisitsOf(db, u)) = 0
    BY <2>3, VisitsOfFacts
  <2>5. Cardinality(VisitsOf(db2, u)) = Cardinality(VisitsOf(db, u)) + 1
    BY <2>1, <2>2, <2>4, FS_AddElement
  <2>6. Cardinality(VisitsOf(db2, u)) <= row.count
    BY <1>4, <1>5, <2>4, <2>5
  <2> QED
    BY <1>2, <1>5, <1>6, <1>7, <1>9, <2>6 DEF RowCoversVisits, VisitsOf
<1>11. ASSUME NEW w \in Urls \ {u} PROVE RowCoversVisits(db2, w)
  <2>1. VisitsOf(db2, w) = VisitsOf(db, w) /\ (Visited(db2, w) <=> Visited(db, w))
    BY <1>1, <1>3 DEF VisitsOf, Visited
  <2>2. RowCoversVisits(db, w)
    BY DEF Covered
  <2>3. \A i \in Held(db2) : db2.visits[i].url = w => i \in Held(db) /\ db2.visits[i] = db.visits[i]
    BY <1>1, <1>3
  <2> QED
    BY <1>2, <2>1, <2>2, <2>3 DEF RowCoversVisits, VisitsOf
<1>12. \A w \in Urls : db2.pages[w] # None =>
         db2.pages[w].typed <= db2.pages[w].count /\ db2.pages[w].last <= now
  BY <1>2, <1>5, <1>6 DEF Covered
<1> QED
  BY <1>9, <1>10, <1>11, <1>12 DEF Covered, db2

\* Time passes, and nothing is of the future yet.
LEMMA LaterCovered ==
  ASSUME NEW db \in Database, Covered(db), now \in Nat, now' = now + 1
  PROVE  /\ \A i \in Held(db) : db.visits[i].at <= now'
         /\ \A u \in Urls : db.pages[u] # None => db.pages[u].last <= now'
<1>1. \A i \in Held(db) : db.visits[i].at \in Nat /\ db.visits[i].at <= now
  BY HeldType DEF Covered
<1>2. \A u \in Urls : db.pages[u] # None => db.pages[u].last \in Nat /\ db.pages[u].last <= now
  BY DEF Covered, Database, Row
<1> QED
  BY <1>1, <1>2

LEMMA EmptyCovered == Covered(EmptyDb)
  BY EmptyDbFacts DEF Covered, RowCoversVisits, Visited

LEMMA CoverInit == Init => CoverInv
  BY EmptyCovered DEF Init, CoverInv

LEMMA CoverStep ==
  ASSUME TypeOK, TypeOK', ListInv, CoverInv, [Next]_vars
  PROVE  CoverInv'
<1>1. file \in Database /\ ram \in Database /\ file' \in Database /\ ram' \in Database /\ now \in Nat
  BY DEF TypeOK
<1>2. ASSUME TakesAway, now' = now PROVE CoverInv'
  <2>1. Covered(file') /\ Covered(ram')
    BY <1>1, <1>2, ShrinksCovered DEF CoverInv, TakesAway
  <2> QED
    BY <1>2, <2>1 DEF CoverInv, Covered, RowCoversVisits, Visited, Held
<1>3. CASE Restart
  <2>1. now' = now
    BY <1>3 DEF Restart
  <2> QED
    BY <1>2, <1>3, <2>1, RestartFacts
<1>4. CASE Tick
  <2>1. now' = now + 1 /\ file' = file /\ ram' = ram
    BY <1>4 DEF Tick
  <2> QED
    BY <1>1, <2>1, LaterCovered DEF CoverInv, Covered, RowCoversVisits, Visited, Held
<1>5. CASE RecordCurrentVisit
  <2>1. PICK id \in Ids, u \in Urls, typed \in 0..1 :
          /\ IsNextId(Db, id)
          /\ Db' = RecordVisit(Db, id, u, typed)
          /\ mode = "Persistent" => ram' = ram
          /\ mode # "Persistent" => file' = file
    BY <1>5, RecordFacts
  <2>2. mode' = mode /\ now' = now
    BY <1>5 DEF RecordCurrentVisit
  <2>3. Covered(Db)
    BY DEF CoverInv, Db
  <2>4. Covered(RecordVisit(Db, id, u, typed))
    BY <1>1, <2>1, <2>3, DbType, RecordCovered
  <2>5. Covered(file') /\ Covered(ram')
    BY <2>1, <2>2, <2>4 DEF CoverInv, Db
  <2> QED
    BY <2>2, <2>5 DEF CoverInv, Covered, RowCoversVisits, Visited, Held
<1>6. CASE OpenList \/ CloseList \/ ClearPagesFails \/ UNCHANGED vars
  <2>1. now' = now /\ file' = file /\ ram' = ram
    BY <1>6 DEF OpenList, CloseList, ClearPagesFails, vars
  <2> QED
    BY <1>2, <2>1, ShrinksToItself DEF TakesAway
<1>7. CASE DeleteEntry
  <2>1. now' = now
    BY <1>7 DEF DeleteEntry
  <2> QED
    BY <1>2, <1>7, <2>1, DeleteEntryFacts DEF ListInv
<1>8. CASE ClearSite
  <2>1. now' = now
    BY <1>8 DEF ClearSite
  <2> QED
    BY <1>2, <1>8, <2>1, ClearSiteFacts
<1>9. CASE ClearVisits \/ ClearPages
  <2>1. now' = now
    BY <1>9 DEF ClearVisits, ClearPages
  <2> QED
    BY <1>2, <1>9, <2>1, ClearVisitsFacts, ClearPagesFacts
<1> QED
  BY <1>3, <1>4, <1>5, <1>6, <1>7, <1>8, <1>9 DEF Next

\* A page always counts at least the visits that are left of it, whatever was deleted,
\* cleared or pruned, and in whatever half-done state.
THEOREM PagesCorrect == Spec => []PagesCoverTheirVisits
<1>1. TypeOK /\ TypeOK' /\ ListInv /\ CoverInv /\ [Next]_vars => CoverInv'
  BY CoverStep
<1>2. TypeOK /\ ListInv /\ [Next]_vars => ListInv'
  BY ListStep
<1>3. CoverInv => PagesCoverTheirVisits
  BY DEF CoverInv, Covered, PagesCoverTheirVisits
<1> QED
  BY CoverInit, ListInit, TypeCorrect, <1>1, <1>2, <1>3, PTL DEF Spec

-----------------------------------------------------------------------------
(* What was cleared.                                                       *)

LEMMA ForgottenInit == Init => ForgottenStaysForgotten
  BY DEF Init, ForgottenStaysForgotten

\* Taking away from the file brings nothing back to it.
LEMMA ShrinksForgets ==
  ASSUME Shrinks(file, file'), NEW u \in Urls, ~Visited(file, u), file.pages[u] = None
  PROVE  ~Visited(file', u) /\ file'.pages[u] = None
  BY DEF Shrinks, Visited

\* What was cleared stays cleared, in this session and over starts.
LEMMA ForgottenStep ==
  ASSUME TypeOK, ListInv, PagesCoverTheirVisits, ForgottenStaysForgotten, [Next]_vars
  PROVE  ForgottenStaysForgotten'
<1> USE DEF ForgottenStaysForgotten
<1>1. CASE Restart
  <2>1. OpenHistory /\ forgotten' = forgotten /\ missed' = missed
    BY <1>1 DEF Restart, told
  <2>2. \A u \in forgotten \ missed : ~Visited(file', u) /\ file'.pages[u] = None
    BY <1>1, RestartFacts, ShrinksForgets DEF TypeOK
  <2>3. index' = EmptyDb.pages \/ index' = file'.pages
    BY <2>1, OpenHistoryFacts
  <2> QED
    BY <2>1, <2>2, <2>3, EmptyDbFacts DEF TypeOK
<1>2. CASE Tick \/ OpenList \/ CloseList \/ ClearPagesFails \/ UNCHANGED vars
  BY <1>2, OtherStepsFacts
<1>3. CASE RecordCurrentVisit
  <2>1. mode' = mode
    BY <1>3 DEF RecordCurrentVisit
  <2>2. CASE mode # "Persistent"
    BY <1>3, <2>1, <2>2, RecordFacts DEF told
  <2>3. CASE mode = "Persistent"
    <3>1. PICK id \in Ids, u \in Urls, typed \in 0..1 :
            /\ Held(file') = Held(file) \cup {id}
            /\ file'.visits = [file.visits EXCEPT ![id] = [url |-> u, at |-> now]]
            /\ file'.pages = [file.pages EXCEPT ![u] = CountVisit(file.pages[u], typed)]
            /\ index' = [index EXCEPT ![u] = CountVisit(file.pages[u], typed)]
            /\ forgotten' = forgotten \ {u} /\ missed' = missed \ {u}
      BY <1>3, <2>1, <2>3, RecordFacts DEF Db
    <3>2. file \in Database /\ index \in [Urls -> Row \cup {None}] /\ forgotten \subseteq Urls
      BY DEF TypeOK
    <3>3. \A w \in forgotten' \ missed' : file'.pages[w] = None /\ index'[w] = None
      BY <2>3, <3>1, <3>2 DEF Database
    <3>4. \A i \in Held(file') : file'.visits[i].url = u \/ (i \in Held(file) /\ file'.visits[i] = file.visits[i])
      BY <3>1, <3>2 DEF Database, Held
    <3>5. \A w \in forgotten' \ missed' : ~Visited(file', w)
      BY <3>1, <3>4 DEF Visited
    <3> QED
      BY <3>3, <3>5
  <2> QED
    BY <2>2, <2>3
<1>4. CASE DeleteEntry
  <2>1. index' = index /\ mode' = mode /\ forgotten' = forgotten /\ missed' = missed
    BY <1>4 DEF DeleteEntry, told
  <2>2. Shrinks(file, file')
    BY <1>4, DeleteEntryFacts DEF ListInv, TakesAway
  <2> QED
    BY <2>1, <2>2, ShrinksForgets DEF TypeOK
<1>5. CASE ClearSite
  <2> DEFINE cleared(h) == {u \in Urls : HostOf[u] = h}
  <2>1. PICK host \in Hosts, exact \in Spellings, left \in SUBSET Urls :
          /\ Db' = IF exact THEN RemoveSite(Db, host) ELSE Db
          /\ index' = [u \in Urls |-> IF HostOf[u] = host THEN None ELSE index[u]]
          /\ left = IF exact THEN {} ELSE {u \in Urls : HostOf[u] = host /\ Db.pages[u] # None}
          /\ Told(cleared(host), left)
          /\ Shrinks(file, file')
    BY <1>5, ClearSiteFacts DEF TakesAway
  <2>2. mode' = mode
    BY <1>5 DEF ClearSite
  <2>3. \A u \in forgotten \ missed : ~Visited(file', u) /\ file'.pages[u] = None
                                      /\ (mode' = "Persistent" => index'[u] = None)
    BY <2>1, <2>2, ShrinksForgets DEF TypeOK
  <2>4. ASSUME mode = "Persistent", NEW u \in cleared(host) \ left
        PROVE  ~Visited(file', u) /\ file'.pages[u] = None /\ index'[u] = None
    <3>1. index'[u] = None
      BY <2>1
    <3>2. CASE exact
      BY <2>1, <2>2, <2>4, <3>1, <3>2, DbType, RemoveSiteFacts DEF Db
    <3>3. CASE ~exact
      <4>1. file' = file /\ file.pages[u] = None
        BY <2>1, <2>2, <2>4, <3>3 DEF Db
      <4>2. ~Visited(file, u)
        BY <4>1 DEF PagesCoverTheirVisits, RowCoversVisits
      <4> QED
        BY <3>1, <4>1, <4>2
    <3> QED
      BY <3>2, <3>3
  <2>5. forgotten' \ missed' \subseteq
          (forgotten \ missed) \cup (IF mode = "Persistent" THEN cleared(host) \ left ELSE {})
    BY <2>1 DEF Told, told
  <2> QED
    BY <2>2, <2>3, <2>4, <2>5
<1>6. CASE ClearVisits
  <2>1. index' = index /\ mode' = mode /\ forgotten' = forgotten /\ missed' = missed
    BY <1>6 DEF ClearVisits, memory, told
  <2> QED
    BY <1>6, <2>1, ClearVisitsFacts, ShrinksForgets DEF TypeOK, TakesAway
<1>7. CASE ClearPages
  <2>1. /\ Db' = EmptyDb /\ index' = EmptyDb.pages /\ Told(Urls, {}) /\ Shrinks(file, file')
        /\ mode' = mode
    BY <1>7, ClearPagesFacts DEF TakesAway, ClearPages
  <2>2. CASE mode = "Persistent"
    <3>1. file' = EmptyDb
      BY <2>1, <2>2 DEF Db
    <3> QED
      BY <2>1, <2>2, <3>1, EmptyDbFacts DEF Told, Visited, TypeOK
  <2>3. CASE mode # "Persistent"
    BY <2>1, <2>3, ShrinksForgets DEF Told, told, TypeOK
  <2> QED
    BY <2>2, <2>3
<1> QED
  BY <1>1, <1>2, <1>3, <1>4, <1>5, <1>6, <1>7 DEF Next

\* An address the user was told is cleared from disk does not come back before it is
\* visited again, unless the store kept it for a host that was typed in another spelling.
THEOREM ForgettingCorrect == Spec => []ForgottenStaysForgotten
<1>1. TypeOK /\ ListInv /\ PagesCoverTheirVisits /\ ForgottenStaysForgotten /\ [Next]_vars =>
        ForgottenStaysForgotten'
  BY ForgottenStep
<1>2. TypeOK /\ ListInv /\ [Next]_vars => ListInv'
  BY ListStep
<1> QED
  BY ForgottenInit, ListInit, TypeCorrect, PagesCorrect, <1>1, <1>2, PTL DEF Spec

-----------------------------------------------------------------------------
(* What the disk remembers.                                                *)

Entry(db, i) == [id |-> i, url |-> db.visits[i].url, at |-> db.visits[i].at]

KeptOf(db) == {Entry(db, i) : i \in Held(db)}

\* Taking away leaves the entries of the visits that are left.
LEMMA KeptOfShrunk ==
  ASSUME NEW db, NEW db2, Shrinks(db, db2)
  PROVE  KeptOf(db2) = {v \in KeptOf(db) : v.id \in Held(db2)}
<1>1. \A i \in Held(db2) : i \in Held(db) /\ Entry(db2, i) = Entry(db, i)
  BY DEF Shrinks, Entry
<1>2. \A i : Entry(db, i).id = i
  BY DEF Entry
<1> QED
  BY <1>1, <1>2 DEF KeptOf

\* An entry has the id, the address and the time of its visit.
LEMMA EntryFields ==
  ASSUME NEW db, NEW i
  PROVE  /\ Entry(db, i).id = i /\ Entry(db, i).url = db.visits[i].url
         /\ Entry(db, i).at = db.visits[i].at
  BY DEF Entry

\* A database that did not change remembers the same.
LEMMA RememberedStutter ==
  ASSUME file' = file, now' = now, session' = session
  PROVE  [Remembered!Next]_<<KeptOf(file), now, session>>
  BY DEF KeptOf, Held, Entry

LEMMA RememberedInit == Init => Remembered!Init
<1> SUFFICES ASSUME Init PROVE Remembered!Init
  OBVIOUS
<1>1. Held(file) = {} /\ now = 0 /\ session = 1
  BY EmptyDbFacts DEF Init
<1> QED
  BY <1>1 DEF Remembered!Init

\* Each step records, deletes, clears, starts, lets time pass, or leaves the disk alone.
LEMMA RememberedStep ==
  ASSUME TypeOK, ListInv, [Next]_vars
  PROVE  [Remembered!Next]_<<KeptOf(file), now, session>>
<1> DEFINE kept == KeptOf(file)
           keptNext == KeptOf(file')
<1>0. file \in Database /\ now \in Nat /\ KeptOf(file)' = keptNext
  BY DEF TypeOK, KeptOf, Held, Entry
<1> USE DEF Remembered!Next
<1>1. CASE Restart
  <2>1. OpenHistory /\ now' = now /\ session' = session + 1
    BY <1>1 DEF Restart
  <2>2. CASE file' = file
    BY <1>0, <2>1, <2>2 DEF Remembered!Start, KeptOf, Entry
  <2>3. CASE file' = Prune(file)
    <3>1. /\ Shrinks(file, file')
          /\ Held(file') = {i \in Held(file) : now <= file.visits[i].at + Retention}
      BY <1>0, <2>3, KeepVisitsFacts DEF Prune
    <3>2. keptNext = {v \in kept : v.id \in Held(file')}
      BY <3>1, KeptOfShrunk
    <3>3. \A i \in Held(file) : Entry(file, i).id \in Held(file') <=> now <= Entry(file, i).at + Retention
      BY <3>1, EntryFields
    <3>4. keptNext = {v \in kept : now <= v.at + Retention}
      BY <3>2, <3>3 DEF KeptOf
    <3> QED
      BY <1>0, <2>1, <3>4 DEF Remembered!Start, KeptOf, Entry
  <2> QED
    BY <2>1, <2>2, <2>3, OpenHistoryFacts
<1>2. CASE Tick
  BY <1>2 DEF Tick, Remembered!Tick, KeptOf, Held, Entry
<1>3. CASE RecordCurrentVisit
  <2>1. mode' = mode /\ now' = now /\ session' = session
    BY <1>3 DEF RecordCurrentVisit
  <2>2. CASE mode # "Persistent"
    BY <1>3, <2>1, <2>2, RecordFacts, RememberedStutter
  <2>3. CASE mode = "Persistent"
    <3>1. PICK id \in Ids, u \in Urls :
            /\ id \notin Held(file)
            /\ Held(file') = Held(file) \cup {id}
            /\ file'.visits = [file.visits EXCEPT ![id] = [url |-> u, at |-> now]]
      BY <1>3, <2>1, <2>3, RecordFacts DEF Db
    <3>2. /\ file'.visits[id] = [url |-> u, at |-> now]
          /\ \A i \in Held(file) : file'.visits[i] = file.visits[i]
      BY <1>0, <3>1 DEF Database, Held
    <3>3. Entry(file', id) = [id |-> id, url |-> u, at |-> now]
      BY <3>2 DEF Entry
    <3>4. \A i \in Held(file) : Entry(file', i) = Entry(file, i)
      BY <3>2 DEF Entry
    <3>5. keptNext = kept \cup {[id |-> id, url |-> u, at |-> now]}
      BY <3>1, <3>3, <3>4 DEF KeptOf
    <3>6. \A v \in kept : v.id # id
      BY <3>1, EntryFields DEF KeptOf
    <3> QED
      BY <1>0, <2>1, <3>5, <3>6 DEF Remembered!Record, KeptOf, Entry
  <2> QED
    BY <2>2, <2>3
<1>4. CASE OpenList \/ CloseList \/ ClearPagesFails \/ UNCHANGED vars
  BY <1>4, RememberedStutter DEF OpenList, CloseList, ClearPagesFails, vars
<1>5. CASE DeleteEntry
  <2>1. mode' = mode /\ now' = now /\ session' = session
    BY <1>5 DEF DeleteEntry
  <2>2. PICK id \in list : id \in Held(Db) /\ Held(Db') = Held(Db) \ {id} /\ TakesAway
    BY <1>5, DeleteEntryFacts DEF ListInv
  <2>3. CASE mode # "Persistent"
    <3>1. file' = file
      BY <1>5, <2>3 DEF DeleteEntry, Write
    <3> QED
      BY <2>1, <3>1, RememberedStutter
  <2>4. CASE mode = "Persistent"
    <3>1. id \in Held(file) /\ Held(file') = Held(file) \ {id} /\ Shrinks(file, file')
      BY <2>1, <2>2, <2>4 DEF Db, TakesAway
    <3>2. keptNext = {v \in kept : v.id \in Held(file')}
      BY <3>1, KeptOfShrunk
    <3>3. keptNext = kept \ {Entry(file, id)}
      BY <3>1, <3>2, EntryFields DEF KeptOf
    <3>4. Entry(file, id) \in kept
      BY <3>1 DEF KeptOf
    <3> QED
      BY <1>0, <2>1, <3>3, <3>4 DEF Remembered!Delete, KeptOf, Entry
  <2> QED
    BY <2>3, <2>4
<1>6. CASE ClearSite
  <2>1. mode' = mode /\ now' = now /\ session' = session
    BY <1>6 DEF ClearSite
  <2>2. PICK host \in Hosts, exact \in Spellings :
          Write(IF exact THEN RemoveSite(Db, host) ELSE Db)
    BY <1>6 DEF ClearSite, ClearHistorySite
  <2>3. CASE mode # "Persistent" \/ ~exact
    BY <2>1, <2>2, <2>3, RememberedStutter DEF Write, Db
  <2>4. CASE mode = "Persistent" /\ exact
    <3>1. file' = RemoveSite(file, host)
      BY <2>2, <2>4 DEF Write, Db
    <3>2. /\ Shrinks(file, file')
          /\ Held(file') = {i \in Held(file) : HostOf[file.visits[i].url] # host}
      BY <1>0, <3>1, RemoveSiteFacts
    <3>3. keptNext = {v \in kept : v.id \in Held(file')}
      BY <3>2, KeptOfShrunk
    <3>4. PICK u \in Urls : host = HostOf[u]
      BY DEF Hosts
    <3>5. \A i \in Held(file) : Entry(file, i).id \in Held(file') <=> HostOf[Entry(file, i).url] # HostOf[u]
      BY <3>2, <3>4, EntryFields
    <3>6. keptNext = {v \in kept : HostOf[v.url] # HostOf[u]}
      BY <3>3, <3>5 DEF KeptOf
    <3> QED
      BY <1>0, <2>1, <3>6 DEF Remembered!ClearSite, KeptOf, Entry
  <2> QED
    BY <2>3, <2>4
<1>7. CASE ClearVisits \/ ClearPages
  <2>1. mode' = mode /\ now' = now /\ session' = session
    BY <1>7 DEF ClearVisits, ClearPages
  <2>2. PICK db : Write(db) /\ Held(db) = {}
    BY <1>7, EmptyDbFacts, DbType, NoVisitsFacts DEF ClearVisits, ClearPages
  <2>3. CASE mode # "Persistent"
    BY <2>1, <2>2, <2>3, RememberedStutter DEF Write
  <2>4. CASE mode = "Persistent"
    <3>1. keptNext = {}
      BY <2>2, <2>4 DEF Write, KeptOf
    <3> QED
      BY <1>0, <2>1, <3>1 DEF Remembered!ClearAll, KeptOf, Entry
  <2> QED
    BY <2>3, <2>4
<1> QED
  BY <1>1, <1>2, <1>3, <1>4, <1>5, <1>6, <1>7 DEF Next

\* What is on disk is forgotten for the four promised reasons only: through any failure,
\* any restart, and sessions in any other mode.
THEOREM RememberedImplemented == Spec => ImplementsRememberedVisits
<1>1. TypeOK /\ ListInv /\ [Next]_vars => [Remembered!Next]_<<KeptOf(file), now, session>>
  BY RememberedStep
<1>2. TypeOK /\ ListInv /\ [Next]_vars => ListInv'
  BY ListStep
<1> QED
  BY RememberedInit, ListInit, TypeCorrect, <1>1, <1>2, PTL
  DEF Spec, ImplementsRememberedVisits, Remembered!Spec, KeptOf, Entry
=============================================================================
