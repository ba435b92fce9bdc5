------------------------------ MODULE McpServer ------------------------------
(***************************************************************************)
(* The MCP server: three tools over one NavigationController               *)
(* (src/crates/browser-mcp/src/lib.rs).  Every call runs in a task of its  *)
(* own; the controller is behind a tokio Mutex, which is handed over in    *)
(* the order of arrival, and browser_open keeps it across every await of a *)
(* load.  browser_read and browser_list_links differ in what they take     *)
(* from the document, which is no more than its name here: both are "read".*)
(* The permissions are PermissionSet::defaults, which allow all three.     *)
(***************************************************************************)
EXTENDS Naturals, SequencesExt

CONSTANTS
    Clients,           \* calls that may be under way at once
    Pages,             \* the documents a load may bring
    MaxRedirectCount,  \* MAX_REDIRECT_COUNT, made small
    None               \* no page, nobody, no answer yet

ASSUME LimitAssumption == MaxRedirectCount \in Nat
ASSUME NoneAssumption == /\ None \notin Clients \cup Pages
                         /\ None \notin [url  : Pages \cup {None},
                                        body : Pages \cup {"failed", "not loaded"}]

VARIABLES
    page,   \* NavigationController.current_page
    lock,   \* who holds the controller
    queue,  \* who waits for it, in order
    task    \* the call of each client

vars == <<page, lock, queue, task>>

Target == {"web", "refused"}
Idle == [at |-> "idle", tool |-> "read", target |-> "web", hops |-> 0, answer |-> None]

\* The payload of a reply about the page p: current_url(), and what the document has.
Payload(p) == [url |-> p, body |-> p]
Error(why) == [url |-> None, body |-> why]

Init ==
    /\ page = None
    /\ lock = None
    /\ queue = <<>>
    /\ task = [c \in Clients |-> Idle]

-----------------------------------------------------------------------------

\* The guard of the mutex is dropped: the first in the queue has it.
Release(c) ==
    IF lock # c
    THEN UNCHANGED <<lock, queue>>
    ELSE /\ lock' = IF queue = <<>> THEN None ELSE Head(queue)
         /\ queue' = IF queue = <<>> THEN queue ELSE Tail(queue)

\* For the mutants: a guard that lives for the load only.
AfterInstallReleased(c) == Release(c)

\* load(...).await returned: the guard is still there.
AfterInstall(c) == UNCHANGED <<lock, queue>>

AnswerWith(c, answer) ==
    task' = [task EXCEPT ![c].at = "answered", ![c].answer = answer]

Holds(c) == lock = c /\ task[c].at = "begun"

-----------------------------------------------------------------------------

\* A request comes in and gets a task.
Receive(c, tool, target) ==
    /\ task[c].at = "idle"
    /\ tool = "read" => target = "web"
    /\ task' = [task EXCEPT ![c] = [Idle EXCEPT !.at = "spawned", !.tool = tool,
                                                !.target = target]]
    /\ UNCHANGED <<page, lock, queue>>

\* BrowserUrl::parse and ssrf_guard refuse before the controller is asked for.
Refuse(c) ==
    /\ task[c].at = "spawned" /\ task[c].tool = "open" /\ task[c].target = "refused"
    /\ AnswerWith(c, Error("failed"))
    /\ UNCHANGED <<page, lock, queue>>

\* controller.lock()
Lock(c) ==
    /\ task[c].at = "spawned" /\ task[c].target = "web"
    /\ task' = [task EXCEPT ![c].at = "begun"]
    /\ IF lock = None
       THEN lock' = c /\ UNCHANGED queue
       ELSE queue' = Append(queue, c) /\ UNCHANGED lock
    /\ UNCHANGED page

\* browser_read, browser_list_links
Read(c) ==
    /\ Holds(c) /\ task[c].tool = "read"
    /\ AnswerWith(c, IF page = None THEN Error("not loaded") ELSE Payload(page))
    /\ Release(c)
    /\ UNCHANGED page

\* run_hops: one more redirect.
Redirect(c) ==
    /\ Holds(c) /\ task[c].tool = "open"
    /\ task[c].hops < MaxRedirectCount
    /\ task' = [task EXCEPT ![c].hops = @ + 1]
    /\ UNCHANGED <<page, lock, queue>>

\* Too many redirects, or a failure of the network, of a location or of the parser.
LoadFails(c) ==
    /\ Holds(c) /\ task[c].tool = "open"
    /\ AnswerWith(c, Error("failed"))
    /\ Release(c)
    /\ UNCHANGED page

\* finish_load, up to the await of record_current_visit.
Install(c, p) ==
    /\ Holds(c) /\ task[c].tool = "open"
    /\ page' = p
    /\ task' = [task EXCEPT ![c].at = "recording"]
    /\ AfterInstall(c)

\* The visit is recorded, or was not to be: the reply is made from the controller.
Reply(c) ==
    /\ task[c].at = "recording"
    /\ AnswerWith(c, Payload(page))
    /\ Release(c)
    /\ UNCHANGED page

\* The answer is written out.
Deliver(c) ==
    /\ task[c].at = "answered"
    /\ task' = [task EXCEPT ![c] = Idle]
    /\ UNCHANGED <<page, lock, queue>>

Load(c) == Redirect(c) \/ LoadFails(c) \/ \E p \in Pages : Install(c, p)
Run(c) == Refuse(c) \/ Lock(c) \/ Read(c) \/ Load(c) \/ Reply(c) \/ Deliver(c)

Next ==
    \E c \in Clients :
       \/ \E tool \in {"open", "read"}, target \in Target : Receive(c, tool, target)
       \/ Run(c)

\* The runtime polls every task that can go on, and a fetch ends: by its answer,
\* or by REQUEST_TIMEOUT.
Spec == Init /\ [][Next]_vars /\ \A c \in Clients : WF_vars(Run(c))

-----------------------------------------------------------------------------

Answers == {Error("failed"), Error("not loaded")} \cup [url : Pages, body : Pages]

Task == [at     : {"idle", "spawned", "begun", "recording", "answered"},
         tool   : {"open", "read"},
         target : Target,
         hops   : 0 .. MaxRedirectCount,
         answer : Answers \cup {None}]

TypeOK ==
    /\ page \in Pages \cup {None}
    /\ lock \in Clients \cup {None}
    /\ queue \in Seq(Clients)
    /\ task \in [Clients -> Task]

(***************************************************************************)
(* Calls that run at once are served one at a time and in full: whatever   *)
(* loads are waiting or under way, the address and the content in an       *)
(* answer are of one page, the one that the call itself loaded or that was *)
(* current when it was served; a failed load changes nothing; and no call  *)
(* waits for ever behind another one's load (browser-mcp lib.rs, the       *)
(* controller stays locked from before load until the payload is built).   *)
(***************************************************************************)
CallOf(t, p) ==
    CASE t.at = "idle"                  -> [tool |-> "none", answer |-> None]
      [] t.at \in {"spawned", "begun"}  -> [tool |-> t.tool, answer |-> None]
      [] t.at = "recording"             -> [tool |-> t.tool, answer |-> Payload(p)]
      [] t.at = "answered"              -> [tool |-> t.tool, answer |-> t.answer]

Atomic == INSTANCE AtomicTools WITH call <- [c \in Clients |-> CallOf(task[c], page)]

ImplementsAtomicTools == Atomic!Spec
=============================================================================
