----------------------------- MODULE AtomicTools -----------------------------
(***************************************************************************)
(* What the tools promise an agent that calls several of them at once:     *)
(* each call takes effect at one moment between its request and its        *)
(* answer, the answer tells of one page only, the current one at that      *)
(* moment, and every call is answered.  McpServer implements it.           *)
(***************************************************************************)
CONSTANTS
    Clients,  \* calls that may be under way at once
    Pages,    \* what a load may bring
    None      \* no page, no answer yet

VARIABLES
    page,  \* NavigationController.current_page
    call   \* the tool each client called, and its answer

Tool == {"open", "read"}

\* An answer has the page's address and something of its content, or says why not.
Of(p) == [url |-> p, body |-> p]
Error(why) == [url |-> None, body |-> why]

NoCall == [tool |-> "none", answer |-> None]

Init == page = None /\ call = [c \in Clients |-> NoCall]

Ask(c, tool) ==
    /\ call[c] = NoCall
    /\ call' = [call EXCEPT ![c] = [tool |-> tool, answer |-> None]]
    /\ page' = page

Pending(c, tool) == call[c].tool = tool /\ call[c].answer = None

Answer(c, answer) == call' = [call EXCEPT ![c].answer = answer]

Open(c) ==
    /\ Pending(c, "open")
    /\ \E p \in Pages : page' = p /\ Answer(c, Of(p))

Fail(c) == Pending(c, "open") /\ Answer(c, Error("failed")) /\ page' = page

Read(c) ==
    /\ Pending(c, "read")
    /\ Answer(c, IF page = None THEN Error("not loaded") ELSE Of(page))
    /\ page' = page

Serve(c) == Open(c) \/ Fail(c) \/ Read(c)

Deliver(c) ==
    /\ call[c].answer # None
    /\ call' = [call EXCEPT ![c] = NoCall]
    /\ page' = page

Next == \E c \in Clients : (\E tool \in Tool : Ask(c, tool)) \/ Serve(c) \/ Deliver(c)

Safety == Init /\ [][Next]_<<page, call>>

Spec ==
    /\ Safety
    /\ \A c \in Clients : WF_<<page, call>>(Serve(c)) /\ WF_<<page, call>>(Deliver(c))
=============================================================================
