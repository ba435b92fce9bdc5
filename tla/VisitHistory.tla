----------------------------- MODULE VisitHistory -----------------------------
(***************************************************************************)
(* The visit history of Puma Browser: the pages and visits tables of       *)
(* browser-storage, the suggestion index that browser-core keeps of the    *)
(* pages, and the list of visits the terminal opens over them.             *)
(*                                                                         *)
(* A visit is recorded when a load succeeds.  The database then holds one  *)
(* row more in visits and an aggregate per address in pages; the index     *)
(* holds a copy of the aggregates and is brought up to date by each        *)
(* operation on its own.  Operations on the database may fail, the process *)
(* may end between any two of its statements, and a start prunes what is   *)
(* older than the retention window.                                        *)
(*                                                                         *)
(* An address stands for a recordable one (http or https), with its host.  *)
(* Titles are left out.  The order of rows in a list is left out, its      *)
(* limit is not.                                                           *)
(***************************************************************************)
EXTENDS Naturals, FiniteSets

CONSTANTS
  Urls,         \* addresses that are visited
  HostOf,       \* the host of each address
  None,         \* Rust's Option::None
  Retention,    \* retention_days, in ticks of the clock
  QueryLimit,   \* HISTORY_QUERY_LIMIT
  Spellings,    \* whether a typed host can be spelt as in addresses, or not
  HistoryModes, \* the history modes the configuration picks from
  StoreFails,   \* whether the database can fail
  MaxVisits,    \* bound: rows of visits, and the count of a page
  MaxCounted,   \* bound: visits that the pages of both databases count
  MaxTime,      \* bound: ticks of the clock
  MaxSessions   \* bound: process starts

Hosts == {HostOf[u] : u \in Urls}
Ids == 1..MaxVisits

ASSUME NoneIsNoRow ==
  None \notin [url: Urls, at: Nat] \cup [count: Nat, typed: Nat, last: Nat]
ASSUME CountsAssumption ==
  /\ Retention \in Nat /\ QueryLimit \in Nat
  /\ MaxVisits \in Nat /\ MaxCounted \in Nat /\ MaxTime \in Nat /\ MaxSessions \in Nat
ASSUME SwitchesAssumption ==
  /\ Spellings \subseteq BOOLEAN /\ StoreFails \in BOOLEAN
  /\ HistoryModes \subseteq {"Disabled", "InMemory", "Persistent"}

VARIABLES
  mode,      \* HistorySettings.mode, fixed at the start
  store,     \* NavigationController.history: "open" or "none"
  file,      \* the database on disk
  ram,       \* the database of an in-memory session
  index,     \* SuggestionIndex: a copy of the pages row of each indexed address
  list,      \* the ids of the visits in the open history list, {} when it is closed
  clearing,  \* whether clear_all has deleted the visits and not yet the pages
  now,       \* the clock
  session,   \* how many times the process was started
  stale,     \* addresses whose index row was left behind in this session: by deleting the
             \* last visit from the list, or clearing a host spelt otherwise
  forgotten, \* addresses on disk the user was told are cleared, until visited again
  missed     \* those of them the store kept, for the host was spelt otherwise

memory == <<index, list, stale>>
told == <<forgotten, missed>>
vars == <<mode, store, file, ram, index, list, clearing, now, session, stale, told>>

Visit == [url: Urls, at: Nat]
Row == [count: Nat \ {0}, typed: Nat, last: Nat]
Database == [visits: [Ids -> Visit \cup {None}], pages: [Urls -> Row \cup {None}]]

TypeOK ==
  /\ mode \in {"Disabled", "InMemory", "Persistent"}
  /\ store \in {"open", "none"}
  /\ file \in Database /\ ram \in Database
  /\ index \in [Urls -> Row \cup {None}]
  /\ list \subseteq Ids
  /\ clearing \in BOOLEAN
  /\ now \in Nat
  /\ session \in Nat
  /\ stale \subseteq Urls
  /\ forgotten \subseteq Urls /\ missed \subseteq Urls

-----------------------------------------------------------------------------
(* The store (history_store.rs).                                           *)

EmptyDb == [visits |-> [i \in Ids |-> None], pages |-> [u \in Urls |-> None]]

Held(db) == {i \in Ids : db.visits[i] # None}

\* For the bound: the first, second, ... visit each page counts.
Counted(db) ==
  {c \in Urls \X (1..MaxVisits) : db.pages[c[1]] # None /\ c[2] <= db.pages[c[1]].count}

Visited(db, u) == \E i \in Held(db) : db.visits[i].url = u

\* The rowid SQLite gives a new row: one more than the greatest in use, so that the id
\* of a deleted newest visit is given again.
IsNextId(db, id) ==
  /\ \A j \in Held(db) : j < id
  /\ id = 1 \/ id - 1 \in Held(db)

\* Mutant: the counters of a known page are reset instead of added to.
CountVisitAnew(row, typed) == [count |-> 1, typed |-> typed, last |-> now]

\* The upsert of record_visit.
CountVisit(row, typed) ==
  IF row = None THEN [count |-> 1, typed |-> typed, last |-> now]
  ELSE [count |-> row.count + 1, typed |-> row.typed + typed, last |-> now]

RecordVisit(db, id, u, typed) ==
  [visits |-> [db.visits EXCEPT ![id] = [url |-> u, at |-> now]],
   pages  |-> [db.pages EXCEPT ![u] = CountVisit(@, typed)]]

\* Keeps the visits with an id in ids, and the pages that still have one.
KeepVisits(db, ids) ==
  LET visits == [i \in Ids |-> IF i \in ids THEN db.visits[i] ELSE None]
  IN  [visits |-> visits,
       pages  |-> [u \in Urls |-> IF \E i \in Held(db) \cap ids : db.visits[i].url = u
                                  THEN db.pages[u] ELSE None]]

\* remove_entry: the visit, and its page if that was its last one.
RemoveEntry(db, id) ==
  LET u == db.visits[id].url
      others == \E i \in Held(db) \ {id} : db.visits[i].url = u
  IN  [visits |-> [db.visits EXCEPT ![id] = None],
       pages  |-> [db.pages EXCEPT ![u] = IF others THEN @ ELSE None]]

\* Mutant: the visits go and the page stays.
RemoveSiteVisits(db, host) ==
  [db EXCEPT !.visits =
     [i \in Ids |-> IF i \in Held(db) /\ HostOf[db.visits[i].url] = host
                    THEN None ELSE db.visits[i]]]

\* clear_site, by the exact host: the foreign key takes the visits along.
RemoveSite(db, host) ==
  [visits |-> [i \in Ids |-> IF i \in Held(db) /\ HostOf[db.visits[i].url] = host
                             THEN None ELSE db.visits[i]],
   pages  |-> [u \in Urls |-> IF HostOf[u] = host THEN None ELSE db.pages[u]]]

\* Mutant: a page with an expired visit goes, and the foreign key takes the others.
PruneByPage(db) ==
  KeepVisits(db, {i \in Held(db) :
    \A j \in Held(db) : db.visits[j].url = db.visits[i].url => now <= db.visits[j].at + Retention})

\* Mutant: pages without visits are left alone.
PruneVisitsOnly(db) ==
  [db EXCEPT !.visits =
     [i \in Ids |-> IF i \in Held(db) /\ now > db.visits[i].at + Retention
                    THEN None ELSE db.visits[i]]]

\* prune_older_than(retention_cutoff): the visits that are too old, then every page
\* without a visit.
Prune(db) == KeepVisits(db, {i \in Held(db) : now <= db.visits[i].at + Retention})

\* The rows a list shows: the newest of those that match, up to the limit.
Newer(db, i, j) ==
  \/ db.visits[i].at > db.visits[j].at
  \/ db.visits[i].at = db.visits[j].at /\ i > j

Newest(db, urls) ==
  LET matching == {i \in Held(db) : db.visits[i].url \in urls}
  IN  {i \in matching : Cardinality({j \in matching : Newer(db, j, i)}) < QueryLimit}

-----------------------------------------------------------------------------
(* The store a session works on.                                           *)

Db == IF mode = "Persistent" THEN file ELSE ram

Write(db) ==
  /\ file' = IF mode = "Persistent" THEN db ELSE file
  /\ ram' = IF mode = "Persistent" THEN ram ELSE db

\* enabled_store: a store is wired and history is not disabled.
EnabledStore == mode # "Disabled" /\ store = "open"

\* The process is at rest between two operations.
Ready == ~clearing

Open == EnabledStore /\ Ready

\* open_history at a start: what is opened, and the index loaded from it.  A failure at
\* any step is a session without a store; what was pruned by then stays pruned.
OpenHistory ==
  \/ /\ mode' = "Disabled"
     /\ store' = "none" /\ file' = file
     /\ index' = EmptyDb.pages
  \/ /\ mode' = "InMemory"
     /\ store' \in (IF StoreFails THEN {"open", "none"} ELSE {"open"})
     /\ file' = file
     /\ index' = EmptyDb.pages
  \/ /\ mode' = "Persistent"
     /\ store' = "open" /\ file' = Prune(file)
     /\ index' = Prune(file).pages
  \/ /\ mode' = "Persistent" /\ StoreFails
     /\ store' = "none" /\ file' \in {file, Prune(file)}
     /\ index' = EmptyDb.pages

Init ==
  /\ mode \in HistoryModes
  /\ store \in (IF mode = "Disabled" THEN {"none"}
                ELSE IF StoreFails THEN {"open", "none"} ELSE {"open"})
  /\ file = EmptyDb /\ ram = EmptyDb
  /\ index = EmptyDb.pages
  /\ list = {} /\ clearing = FALSE
  /\ now = 0 /\ session = 1
  /\ stale = {} /\ forgotten = {} /\ missed = {}

\* The process ends, at any point, and is started again, with any mode configured.
Restart ==
  /\ session < MaxSessions
  /\ session' = session + 1
  /\ mode' \in HistoryModes
  /\ OpenHistory
  /\ ram' = EmptyDb
  /\ list' = {} /\ clearing' = FALSE /\ stale' = {}
  /\ UNCHANGED <<now, told>>

Tick ==
  /\ now < MaxTime
  /\ now' = now + 1
  /\ UNCHANGED <<mode, store, file, ram, memory, clearing, session, told>>

-----------------------------------------------------------------------------
(* A visit (record_current_visit, at the end of finish_load).              *)

\* The start of the load closed the list, whether Enter in it or a click started it.
RecordCurrentVisit ==
  /\ Open
  /\ \E id \in Ids, u \in Urls, typed \in 0..1 :
       /\ IsNextId(Db, id)
       /\ Cardinality(Counted(file)) + Cardinality(Counted(ram)) < MaxCounted
       /\ Db.pages[u] # None => Db.pages[u].count < MaxVisits
       /\ Write(RecordVisit(Db, id, u, typed))
       /\ index' = [index EXCEPT ![u] = CountVisit(Db.pages[u], typed)]
       /\ stale' = stale \ {u}
       /\ IF mode = "Persistent"
          THEN forgotten' = forgotten \ {u} /\ missed' = missed \ {u}
          ELSE UNCHANGED told
  /\ list' = {}
  /\ UNCHANGED <<mode, store, clearing, now, session>>

-----------------------------------------------------------------------------
(* The history list.                                                       *)

\* /history and /history with words to search for; a list of nothing does not open.
\* The command bar is open, hence the list is not.
OpenList ==
  /\ Open /\ list = {}
  /\ \E matching \in SUBSET Urls : list' = Newest(Db, matching)
  /\ UNCHANGED <<mode, store, file, ram, index, clearing, now, session, stale, told>>

\* Esc, Enter on a row, a click on a link, a load that is not recorded.
CloseList ==
  /\ list # {}
  /\ list' = {}
  /\ UNCHANGED <<mode, store, file, ram, index, clearing, now, session, stale, told>>

\* Mutant: the row stays in the list.
DropFromListNothing(id) == list

\* remove_selected_history_entry: the list closes when its last row goes.
DropFromList(id) == list \ {id}

\* delete_selected_history on the highlighted row.  The index is not told.
DeleteEntry ==
  /\ Open
  /\ \E id \in list :
       /\ Write(IF id \in Held(Db) THEN RemoveEntry(Db, id) ELSE Db)
       /\ list' = DropFromList(id)
       /\ stale' = stale \cup {u \in Urls : Visited(Db, u) /\ ~Visited(RemoveEntry(Db, id), u)}
  /\ UNCHANGED <<mode, store, index, clearing, now, session, told>>

-----------------------------------------------------------------------------
(* Clearing, from the command bar.                                         *)

\* The user is told that the addresses are cleared; left are those the store kept.
Told(urls, left) ==
  IF mode = "Persistent"
  THEN forgotten' = forgotten \cup urls /\ missed' = (missed \ urls) \cup left
  ELSE UNCHANGED told

\* Mutant: the index goes on offering the site.
ClearSiteInStoreOnly(host, exact) ==
  /\ Write(IF exact THEN RemoveSite(Db, host) ELSE Db)
  /\ UNCHANGED index

\* clear_history_site: the store compares hosts exactly, the index ignores case.
ClearHistorySite(host, exact) ==
  /\ Write(IF exact THEN RemoveSite(Db, host) ELSE Db)
  /\ index' = [u \in Urls |-> IF HostOf[u] = host THEN None ELSE index[u]]

\* /history clear <host>.
ClearSite ==
  /\ Open /\ list = {}
  /\ \E host \in Hosts, exact \in Spellings :
       LET cleared == {u \in Urls : HostOf[u] = host}
           left    == IF exact THEN {} ELSE {u \in cleared : Db.pages[u] # None}
       IN  /\ ClearHistorySite(host, exact)
           /\ Told(cleared, left)
           /\ stale' = stale \cup left
  /\ UNCHANGED <<mode, store, list, clearing, now, session>>

\* /history clear: the first statement of clear_all, on its own, has deleted the visits.
ClearVisits ==
  /\ Open /\ list = {}
  /\ Write([Db EXCEPT !.visits = EmptyDb.visits])
  /\ clearing' = TRUE
  /\ UNCHANGED <<mode, store, memory, now, session, told>>

\* The second one has deleted the pages, and the index is emptied.
ClearPages ==
  /\ clearing
  /\ Write(EmptyDb)
  /\ index' = EmptyDb.pages
  /\ clearing' = FALSE
  /\ Told(Urls, {})
  /\ UNCHANGED <<mode, store, list, now, session, stale>>

\* The second one fails: the index stays, and the user is told it failed.
ClearPagesFails ==
  /\ clearing /\ StoreFails
  /\ clearing' = FALSE
  /\ UNCHANGED <<mode, store, file, ram, memory, now, session, told>>

-----------------------------------------------------------------------------
Next ==
  \/ Restart \/ Tick \/ RecordCurrentVisit
  \/ OpenList \/ CloseList \/ DeleteEntry
  \/ ClearSite \/ ClearVisits \/ ClearPages \/ ClearPagesFails

Spec == Init /\ [][Next]_vars

-----------------------------------------------------------------------------
(* Properties.                                                             *)

\* A pages row sums up at least the visits that are left of it: none is without its row
\* (but while clear_all is halfway), none is newer than last_visit_at, and there are
\* never more of them, nor more typed ones, than visit_count says.
RowCoversVisits(db, u) ==
  Visited(db, u) =>
    /\ db.pages[u] # None
    /\ Cardinality({i \in Held(db) : db.visits[i].url = u}) <= db.pages[u].count
    /\ db.pages[u].typed <= db.pages[u].count
    /\ \A i \in Held(db) : db.visits[i].url = u => db.visits[i].at <= db.pages[u].last

PagesCoverTheirVisits ==
  \A u \in Urls : RowCoversVisits(file, u) /\ RowCoversVisits(ram, u)

\* The address bar offers what the store has counted: each indexed row is the store's
\* and each of the store's rows is indexed, unless the address lost its last visit to a
\* deletion from the list (still offered), or its host was cleared in another spelling
\* (the index ignores case, the store does not: no longer offered).
SuggestionsMatchTheStore ==
  Open => \A u \in Urls \ stale : index[u] = Db.pages[u]

\* A row of the open list is a visit the store still holds, so that deleting the
\* highlighted row deletes that visit and not one that took over its id.
ListedVisitsAreHeld == list \subseteq Held(Db)

\* What a session with the store on disk told the user is cleared is gone for good: not
\* on disk, and not offered, in this session or a later one, until it is visited again.
\* The exception are the missed addresses: a host typed with other letters than in its
\* addresses is answered as cleared, while the store, which compares exactly, keeps it
\* and the next start offers it again.  Without a store, or with history in memory or
\* disabled, a clear touches no disk.
ForgottenStaysForgotten ==
  \A u \in forgotten \ missed :
    /\ ~Visited(file, u) /\ file.pages[u] = None
    /\ mode = "Persistent" => index[u] = None

\* A start that opens the database repairs it: every page has a visit again, whatever
\* point clear_all was left at.
StartsAreConsistent ==
  [][session' # session /\ mode' = "Persistent" /\ store' = "open" =>
       \A u \in Urls : file'.pages[u] # None => Visited(file', u)]_vars

Remembered == INSTANCE RememberedVisits WITH
  start <- session,
  kept <- {[id |-> i, url |-> file.visits[i].url, at |-> file.visits[i].at] : i \in Held(file)}

\* A visit on disk is forgotten only when it is deleted, cleared or expired, through any
\* failure and restart, and whatever mode other sessions run in.
ImplementsRememberedVisits == Remembered!Spec
=============================================================================
