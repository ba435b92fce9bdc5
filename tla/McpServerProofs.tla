--------------------------- MODULE McpServerProofs ---------------------------
(***************************************************************************)
(* Proofs about McpServer, for any number of clients, any pages and any    *)
(* limit of redirects: it implements the safety part of AtomicTools.       *)
(***************************************************************************)
EXTENDS McpServer, TLAPS

\* While a visit is recorded the controller is still locked, and it has a page.
RecordingIsLocked == \A c \in Clients : task[c].at = "recording" => lock = c /\ page # None

\* What was answered is an answer.
AnsweredHasAnswer == \A c \in Clients : task[c].at = "answered" => task[c].answer \in Answers

IInv == TypeOK /\ RecordingIsLocked /\ AnsweredHasAnswer

LEMMA AnswersFacts ==
  /\ None \notin Answers
  /\ Error("failed") \in Answers /\ Error("not loaded") \in Answers
  /\ \A p \in Pages : Payload(p) \in Answers
<1>1. Error("failed") # None /\ Error("not loaded") # None
  <2>1. \A why \in {"failed", "not loaded"} :
          Error(why) \in [url : Pages \cup {None}, body : Pages \cup {"failed", "not loaded"}]
    BY DEF Error
  <2> QED
    BY <2>1, NoneAssumption, Zenon
<1>2. None \notin [url : Pages, body : Pages]
  BY NoneAssumption
<1> QED
  BY <1>1, <1>2 DEF Answers, Payload

\* The states of a task that the steps make out of another.
LEMMA TaskFacts ==
  ASSUME NEW t \in Task
  PROVE  /\ Idle \in Task
         /\ \A tool \in {"open", "read"}, target \in Target :
              [Idle EXCEPT !.at = "spawned", !.tool = tool, !.target = target] \in Task
         /\ [t EXCEPT !.at = "begun"] \in Task /\ [t EXCEPT !.at = "recording"] \in Task
         /\ t.hops < MaxRedirectCount => [t EXCEPT !.hops = @ + 1] \in Task
         /\ \A a \in Answers : [t EXCEPT !.at = "answered", !.answer = a] \in Task
<1>1. Idle \in Task
  BY LimitAssumption DEF Idle, Task, Target
<1>2. \A tool \in {"open", "read"}, target \in Target :
        [Idle EXCEPT !.at = "spawned", !.tool = tool, !.target = target] \in Task
  BY <1>1 DEF Task
<1>3. [t EXCEPT !.at = "begun"] \in Task /\ [t EXCEPT !.at = "recording"] \in Task
  BY DEF Task
<1>4. t.hops < MaxRedirectCount => [t EXCEPT !.hops = @ + 1] \in Task
  BY LimitAssumption DEF Task
<1>5. \A a \in Answers : [t EXCEPT !.at = "answered", !.answer = a] \in Task
  BY DEF Task
<1> QED
  BY <1>1, <1>2, <1>3, <1>4, <1>5

LEMMA InitIInv == Init => IInv
<1> SUFFICES ASSUME Init PROVE IInv
  OBVIOUS
<1>1. Idle \in Task
  BY LimitAssumption DEF Idle, Task, Target
<1>2. TypeOK
  BY <1>1 DEF Init, TypeOK
<1>3. \A c \in Clients : task[c].at = "idle"
  BY DEF Init, Idle
<1> QED
  BY <1>2, <1>3 DEF IInv, RecordingIsLocked, AnsweredHasAnswer

\* The lock goes to a client or to nobody.
LEMMA ReleaseFacts ==
  ASSUME TypeOK, NEW c \in Clients, Release(c)
  PROVE  lock' \in Clients \cup {None} /\ queue' \in Seq(Clients)
<1>1. queue # <<>> => Head(queue) \in Clients /\ Tail(queue) \in Seq(Clients)
  BY DEF TypeOK
<1>2. CASE lock # c
  BY <1>2 DEF TypeOK, Release
<1>3. CASE lock = c /\ queue = <<>>
  BY <1>3 DEF TypeOK, Release
<1>4. CASE lock = c /\ queue # <<>>
  BY <1>1, <1>4 DEF TypeOK, Release
<1> QED
  BY <1>2, <1>3, <1>4

\* An answer; the guard of the mutex is dropped if there is one.
LEMMA AnswerFacts ==
  ASSUME IInv, NEW c \in Clients, NEW answer \in Answers,
         AnswerWith(c, answer), page' = page,
         (lock = c /\ Release(c)) \/ UNCHANGED <<lock, queue>>
  PROVE  IInv'
<1>1. lock' \in Clients \cup {None} /\ queue' \in Seq(Clients)
  BY ReleaseFacts DEF IInv, TypeOK
<1>2. /\ \A d \in Clients \ {c} : task'[d] = task[d]
      /\ task'[c] = [task[c] EXCEPT !.at = "answered", !.answer = answer]
      /\ task' = [task EXCEPT ![c] = task'[c]]
  BY DEF AnswerWith, IInv, TypeOK
<1>3. task'[c] \in Task
  <2>1. task[c] \in Task
    BY DEF IInv, TypeOK
  <2>2. [task[c] EXCEPT !.at = "answered", !.answer = answer] \in Task
    BY <2>1, TaskFacts
  <2> QED
    BY <1>2, <2>2
<1>4. TypeOK'
  BY <1>1, <1>2, <1>3 DEF IInv, TypeOK
<1>5. task'[c].at = "answered" /\ task'[c].answer = answer
  BY <1>2 DEF IInv, TypeOK, Task
<1>6. RecordingIsLocked'
  <2> SUFFICES ASSUME NEW d \in Clients, task'[d].at = "recording"
               PROVE  lock' = d /\ page' # None
    BY DEF RecordingIsLocked
  <2>1. d # c /\ task[d].at = "recording"
    BY <1>2, <1>5
  <2>2. lock = d /\ page # None
    BY <2>1 DEF IInv, RecordingIsLocked
  <2> QED
    BY <2>1, <2>2
<1>7. AnsweredHasAnswer'
  BY <1>2, <1>5 DEF IInv, AnsweredHasAnswer
<1> QED
  BY <1>4, <1>6, <1>7 DEF IInv

\* A step of one task to a state that is neither "recording" nor "answered".
LEMMA TaskSteps ==
  ASSUME IInv, NEW c \in Clients, NEW t \in Task, t.at \notin {"recording", "answered"},
         task' = [task EXCEPT ![c] = t], page' = page,
         lock' \in Clients \cup {None}, queue' \in Seq(Clients), lock # None => lock' = lock
  PROVE  IInv'
<1>1. TypeOK'
  BY DEF IInv, TypeOK
<1>2. \A d \in Clients : task'[d].at \in {"recording", "answered"} => task'[d] = task[d]
  BY DEF IInv, TypeOK
<1>3. RecordingIsLocked'
  BY <1>2, NoneAssumption DEF IInv, RecordingIsLocked
<1>4. AnsweredHasAnswer'
  BY <1>2 DEF IInv, AnsweredHasAnswer
<1> QED
  BY <1>1, <1>3, <1>4 DEF IInv

LEMMA NextIInv == IInv /\ [Next]_vars => IInv'
<1> SUFFICES ASSUME IInv, [Next]_vars PROVE IInv'
  OBVIOUS
<1>0. TypeOK /\ RecordingIsLocked /\ AnsweredHasAnswer /\ \A c \in Clients : task[c] \in Task
  BY DEF IInv, TypeOK
<1>1. CASE UNCHANGED vars
  BY <1>0, <1>1 DEF vars, IInv, TypeOK, RecordingIsLocked, AnsweredHasAnswer
<1>2. ASSUME NEW c \in Clients, NEW tool \in {"open", "read"}, NEW target \in Target,
             Receive(c, tool, target)
      PROVE  IInv'
  <2> DEFINE t == [Idle EXCEPT !.at = "spawned", !.tool = tool, !.target = target]
  <2>1. t \in Task /\ t.at = "spawned"
    BY <1>0, TaskFacts DEF Idle
  <2>2. task' = [task EXCEPT ![c] = t] /\ UNCHANGED <<page, lock, queue>>
    BY <1>2 DEF Receive
  <2> HIDE DEF t
  <2> QED
    BY <1>0, <2>1, <2>2, TaskSteps DEF TypeOK
<1>3. ASSUME NEW c \in Clients, Refuse(c) PROVE IInv'
  BY <1>3, AnswersFacts, AnswerFacts DEF Refuse
<1>4. ASSUME NEW c \in Clients, Lock(c) PROVE IInv'
  <2> DEFINE t == [task[c] EXCEPT !.at = "begun"]
  <2>1. t \in Task /\ t.at = "begun"
    <3>1. task[c] \in Task
      BY <1>0
    <3>2. t \in Task
      BY <3>1, TaskFacts
    <3> QED
      BY <3>1, <3>2 DEF Task
  <2>2. task' = [task EXCEPT ![c] = t] /\ page' = page
    BY <1>4 DEF Lock
  <2>3. /\ lock' \in Clients \cup {None} /\ queue' \in Seq(Clients)
        /\ lock # None => lock' = lock
    BY <1>0, <1>4 DEF Lock, TypeOK
  <2> HIDE DEF t
  <2> QED
    BY <2>1, <2>2, <2>3, TaskSteps
<1>5. ASSUME NEW c \in Clients, Read(c) PROVE IInv'
  <2> DEFINE answer == IF page = None THEN Error("not loaded") ELSE Payload(page)
  <2>1. answer \in Answers
    BY <1>0, AnswersFacts DEF TypeOK
  <2>2. AnswerWith(c, answer) /\ Release(c) /\ lock = c /\ page' = page
    BY <1>5 DEF Read, Holds
  <2> HIDE DEF answer
  <2> QED
    BY <2>1, <2>2, AnswerFacts
<1>6. ASSUME NEW c \in Clients, Redirect(c) PROVE IInv'
  <2> DEFINE t == [task[c] EXCEPT !.hops = @ + 1]
  <2>1. t \in Task /\ t.at = "begun"
    <3>1. task[c] \in Task /\ task[c].hops < MaxRedirectCount /\ task[c].at = "begun"
      BY <1>0, <1>6 DEF Redirect, Holds
    <3>2. t \in Task
      BY <3>1, TaskFacts
    <3> QED
      BY <3>1, <3>2 DEF Task
  <2>2. task' = [task EXCEPT ![c] = t] /\ UNCHANGED <<page, lock, queue>>
    BY <1>6 DEF Redirect
  <2> HIDE DEF t
  <2> QED
    BY <1>0, <2>1, <2>2, TaskSteps DEF TypeOK
<1>7. ASSUME NEW c \in Clients, LoadFails(c) PROVE IInv'
  BY <1>7, AnswersFacts, AnswerFacts DEF LoadFails, Holds
<1>8. ASSUME NEW c \in Clients, NEW p \in Pages, Install(c, p) PROVE IInv'
  <2>1. /\ page' = p /\ UNCHANGED <<lock, queue>> /\ lock = c
        /\ task' = [task EXCEPT ![c] = [task[c] EXCEPT !.at = "recording"]]
    BY <1>8 DEF Install, AfterInstall, Holds
  <2>2. p # None
    BY NoneAssumption
  <2>3. [task[c] EXCEPT !.at = "recording"] \in Task
    BY <1>0, TaskFacts
  <2>4. TypeOK'
    BY <1>0, <2>1, <2>3 DEF TypeOK
  <2>5. RecordingIsLocked'
    BY <1>0, <2>1, <2>2 DEF TypeOK, RecordingIsLocked
  <2>6. AnsweredHasAnswer'
    BY <1>0, <2>1, <2>3 DEF TypeOK, AnsweredHasAnswer, Task
  <2> QED
    BY <2>4, <2>5, <2>6 DEF IInv
<1>9. ASSUME NEW c \in Clients, Reply(c) PROVE IInv'
  <2>1. lock = c /\ page \in Pages
    BY <1>0, <1>9 DEF Reply, RecordingIsLocked, TypeOK
  <2> QED
    BY <1>9, <2>1, AnswersFacts, AnswerFacts DEF Reply
<1>10. ASSUME NEW c \in Clients, Deliver(c) PROVE IInv'
  <2>1. Idle \in Task /\ Idle.at = "idle"
    BY <1>0, TaskFacts DEF Idle
  <2> QED
    BY <1>0, <1>10, <2>1, TaskSteps DEF Deliver, TypeOK
<1> QED
  BY <1>1, <1>2, <1>3, <1>4, <1>5, <1>6, <1>7, <1>8, <1>9, <1>10 DEF Next, Run, Load

-----------------------------------------------------------------------------
(* Every step is a step of AtomicTools, or none.                           *)

Calls == [c \in Clients |-> CallOf(task[c], page)]

LEMMA CallOfFacts ==
  ASSUME NEW t, NEW p
  PROVE  /\ t.at = "idle" => CallOf(t, p) = [tool |-> "none", answer |-> None]
         /\ t.at \in {"spawned", "begun"} => CallOf(t, p) = [tool |-> t.tool, answer |-> None]
         /\ t.at = "recording" => CallOf(t, p) = [tool |-> t.tool, answer |-> Payload(p)]
         /\ t.at = "answered" => CallOf(t, p) = [tool |-> t.tool, answer |-> t.answer]
BY DEF CallOf

\* The other calls are as they were: what they will answer is settled, or they
\* have not been served.
LEMMA OneCallChanges ==
  ASSUME NEW c \in Clients, NEW t, task \in [Clients -> Task],
         task' = [task EXCEPT ![c] = t],
         page' = page \/ \A d \in Clients \ {c} : task[d].at # "recording"
  PROVE  Calls' = [Calls EXCEPT ![c] = CallOf(t, page')]
<1>1. task'[c] = t /\ \A d \in Clients \ {c} : task'[d] = task[d]
  OBVIOUS
<1>2. \A d \in Clients \ {c} : CallOf(task'[d], page') = CallOf(task[d], page)
  BY <1>1 DEF CallOf, Payload, Task
<1> QED
  BY <1>1, <1>2 DEF Calls

\* A call in terms of its task.
LEMMA CallsFacts ==
  ASSUME NEW c \in Clients
  PROVE  /\ Calls[c] = CallOf(task[c], page)
         /\ task[c].at = "idle" => Calls[c] = [tool |-> "none", answer |-> None]
         /\ task[c].at \in {"spawned", "begun"} =>
              Calls[c] = [tool |-> task[c].tool, answer |-> None]
         /\ task[c].at = "recording" => Calls[c] = [tool |-> task[c].tool, answer |-> Payload(page)]
         /\ task[c].at = "answered" =>
              Calls[c] = [tool |-> task[c].tool, answer |-> task[c].answer]
<1>1. Calls[c] = CallOf(task[c], page)
  BY DEF Calls
<1> QED
  BY <1>1, CallOfFacts

LEMMA AnswerIsUpdate ==
  ASSUME NEW c, NEW tool, NEW answer,
         Calls[c] = [tool |-> tool, answer |-> None]
  PROVE  /\ Calls[c].tool = tool /\ Calls[c].answer = None
         /\ [Calls EXCEPT ![c] = [tool |-> tool, answer |-> answer]]
            = [Calls EXCEPT ![c].answer = answer]
<1> DEFINE r == [tool |-> tool, answer |-> None]
<1>1. r.tool = tool /\ r.answer = None /\ [r EXCEPT !.answer = answer] = [tool |-> tool, answer |-> answer]
  OBVIOUS
<1>2. Calls[c] = r
  OBVIOUS
<1> HIDE DEF r
<1>3. [Calls EXCEPT ![c].answer = answer] = [Calls EXCEPT ![c] = [r EXCEPT !.answer = answer]]
  BY <1>2
<1> QED
  BY <1>1, <1>2, <1>3, Zenon

\* A call that is answered.
LEMMA CallAnswered ==
  ASSUME NEW c \in Clients, NEW answer, task \in [Clients -> Task],
         task[c].at \in {"spawned", "begun"}, AnswerWith(c, answer), page' = page
  PROVE  /\ Calls[c].tool = task[c].tool /\ Calls[c].answer = None
         /\ Calls' = [Calls EXCEPT ![c].answer = answer]
<1> DEFINE t == [task[c] EXCEPT !.at = "answered", !.answer = answer]
<1>1. t.at = "answered" /\ t.tool = task[c].tool /\ t.answer = answer
  BY DEF Task
<1>2. task' = [task EXCEPT ![c] = t]
  BY DEF AnswerWith
<1> HIDE DEF t
<1>3. Calls' = [Calls EXCEPT ![c] = CallOf(t, page')]
  BY <1>2, OneCallChanges
<1>4. CallOf(t, page') = [tool |-> task[c].tool, answer |-> answer]
  BY <1>1 DEF CallOf
<1>5. Calls[c] = [tool |-> task[c].tool, answer |-> None]
  BY CallsFacts
<1>6. Calls' = [Calls EXCEPT ![c] = [tool |-> task[c].tool, answer |-> answer]]
  BY <1>3, <1>4, Zenon
<1>7. /\ Calls[c].tool = task[c].tool /\ Calls[c].answer = None
      /\ [Calls EXCEPT ![c] = [tool |-> task[c].tool, answer |-> answer]]
         = [Calls EXCEPT ![c].answer = answer]
  BY <1>5, AnswerIsUpdate
<1> QED
  BY <1>6, <1>7, Zenon

LEMMA StepIsAtomic ==
  ASSUME IInv, [Next]_vars
  PROVE  [Atomic!Next]_<<page, Calls>>
<1>0. /\ TypeOK /\ RecordingIsLocked /\ AnsweredHasAnswer
      /\ task \in [Clients -> Task] /\ \A c \in Clients : task[c] \in Task
  BY DEF IInv, TypeOK
<1>1. CASE UNCHANGED vars
  BY <1>1 DEF vars, Calls, CallOf, Payload
<1>2. ASSUME NEW c \in Clients, NEW tool \in {"open", "read"}, NEW target \in Target,
             Receive(c, tool, target)
      PROVE  Atomic!Ask(c, tool)
  <2> DEFINE t == [Idle EXCEPT !.at = "spawned", !.tool = tool, !.target = target]
  <2>1. t.at = "spawned" /\ t.tool = tool
    BY DEF Idle
  <2>2. task' = [task EXCEPT ![c] = t] /\ page' = page /\ task[c].at = "idle"
    BY <1>2 DEF Receive
  <2> HIDE DEF t
  <2>3. Calls' = [Calls EXCEPT ![c] = CallOf(t, page')]
    BY <1>0, <2>2, OneCallChanges
  <2>4. CallOf(t, page') = [tool |-> tool, answer |-> None]
    BY <2>1 DEF CallOf
  <2> QED
    BY <2>2, <2>3, <2>4, CallsFacts DEF Atomic!Ask, Atomic!NoCall, Calls
<1>3. ASSUME NEW c \in Clients, Refuse(c) PROVE Atomic!Fail(c)
  <2>1. /\ task[c].at = "spawned" /\ task[c].tool = "open"
        /\ AnswerWith(c, Error("failed")) /\ page' = page
    BY <1>3 DEF Refuse
  <2> QED
    BY <1>0, <2>1, CallAnswered
    DEF Atomic!Fail, Atomic!Pending, Atomic!Answer, Atomic!Error, Error, Calls
<1>4. ASSUME NEW c \in Clients, Lock(c) PROVE UNCHANGED <<page, Calls>>
  <2> DEFINE t == [task[c] EXCEPT !.at = "begun"]
  <2>1. t.at = "begun" /\ t.tool = task[c].tool
    BY <1>0 DEF Task
  <2>2. task' = [task EXCEPT ![c] = t] /\ page' = page /\ task[c].at = "spawned"
    BY <1>4 DEF Lock
  <2> HIDE DEF t
  <2>3. Calls' = [Calls EXCEPT ![c] = CallOf(t, page')]
    BY <1>0, <2>2, OneCallChanges
  <2>4. CallOf(t, page') = Calls[c]
    BY <2>1, <2>2, CallsFacts DEF CallOf
  <2> QED
    BY <2>2, <2>3, <2>4 DEF Calls
<1>5. ASSUME NEW c \in Clients, Read(c) PROVE Atomic!Read(c)
  <2> DEFINE answer == IF page = None THEN Error("not loaded") ELSE Payload(page)
  <2>1. /\ task[c].at = "begun" /\ task[c].tool = "read"
        /\ AnswerWith(c, answer) /\ page' = page
    BY <1>5 DEF Read, Holds
  <2>2. answer = IF page = None THEN Atomic!Error("not loaded") ELSE Atomic!Of(page)
    BY DEF Atomic!Error, Atomic!Of, Error, Payload
  <2> HIDE DEF answer
  <2>3. /\ Calls[c].tool = "read" /\ Calls[c].answer = None
        /\ Calls' = [Calls EXCEPT ![c].answer = answer]
    BY <1>0, <2>1, CallAnswered
  <2> QED
    BY <2>1, <2>2, <2>3 DEF Atomic!Read, Atomic!Pending, Atomic!Answer, Calls
<1>6. ASSUME NEW c \in Clients, Redirect(c) PROVE UNCHANGED <<page, Calls>>
  <2> DEFINE t == [task[c] EXCEPT !.hops = @ + 1]
  <2>1. t.at = task[c].at /\ t.tool = task[c].tool
    BY <1>0 DEF Task
  <2>2. task' = [task EXCEPT ![c] = t] /\ page' = page /\ task[c].at = "begun"
    BY <1>6 DEF Redirect, Holds
  <2> HIDE DEF t
  <2>3. Calls' = [Calls EXCEPT ![c] = CallOf(t, page')]
    BY <1>0, <2>2, OneCallChanges
  <2>4. CallOf(t, page') = Calls[c]
    BY <2>1, <2>2, CallsFacts DEF CallOf
  <2> QED
    BY <2>2, <2>3, <2>4 DEF Calls
<1>7. ASSUME NEW c \in Clients, LoadFails(c) PROVE Atomic!Fail(c)
  <2>1. /\ task[c].at = "begun" /\ task[c].tool = "open"
        /\ AnswerWith(c, Error("failed")) /\ page' = page
    BY <1>7 DEF LoadFails, Holds
  <2> QED
    BY <1>0, <2>1, CallAnswered
    DEF Atomic!Fail, Atomic!Pending, Atomic!Answer, Atomic!Error, Error, Calls
<1>8. ASSUME NEW c \in Clients, NEW p \in Pages, Install(c, p) PROVE Atomic!Open(c)
  <2> DEFINE t == [task[c] EXCEPT !.at = "recording"]
  <2>1. t.at = "recording" /\ t.tool = task[c].tool
    BY <1>0 DEF Task
  <2>2. /\ task' = [task EXCEPT ![c] = t] /\ page' = p /\ lock = c
        /\ task[c].at = "begun" /\ task[c].tool = "open"
    BY <1>8 DEF Install, Holds
  <2> HIDE DEF t
  <2>3. \A d \in Clients \ {c} : task[d].at # "recording"
    BY <1>0, <2>2 DEF RecordingIsLocked
  <2>4. Calls' = [Calls EXCEPT ![c] = CallOf(t, page')]
    BY <1>0, <2>2, <2>3, OneCallChanges
  <2>5. CallOf(t, page') = [tool |-> "open", answer |-> Atomic!Of(p)]
    BY <2>1, <2>2 DEF CallOf, Payload, Atomic!Of
  <2>6. Calls[c] = [tool |-> "open", answer |-> None]
    BY <2>2, CallsFacts
  <2>7. Calls' = [Calls EXCEPT ![c].answer = Atomic!Of(p)]
    <3>1. Calls' = [Calls EXCEPT ![c] = [tool |-> "open", answer |-> Atomic!Of(p)]]
      BY <2>4, <2>5, Zenon
    <3>2. [Calls EXCEPT ![c] = [tool |-> "open", answer |-> Atomic!Of(p)]]
          = [Calls EXCEPT ![c].answer = Atomic!Of(p)]
      BY <2>6, AnswerIsUpdate
    <3> QED
      BY <3>1, <3>2, Zenon
  <2>8. Calls[c].tool = "open" /\ Calls[c].answer = None
    BY <2>6
  <2>9. Atomic!Pending(c, "open") /\ Atomic!Answer(c, Atomic!Of(p))
    BY <2>7, <2>8 DEF Atomic!Pending, Atomic!Answer, Calls
  <2> QED
    BY <2>2, <2>9 DEF Atomic!Open
<1>9. ASSUME NEW c \in Clients, Reply(c) PROVE UNCHANGED <<page, Calls>>
  <2> DEFINE t == [task[c] EXCEPT !.at = "answered", !.answer = Payload(page)]
  <2>1. t.at = "answered" /\ t.tool = task[c].tool /\ t.answer = Payload(page)
    BY <1>0 DEF Task
  <2>2. task' = [task EXCEPT ![c] = t] /\ page' = page /\ task[c].at = "recording"
    BY <1>9 DEF Reply, AnswerWith
  <2> HIDE DEF t
  <2>3. Calls' = [Calls EXCEPT ![c] = CallOf(t, page')]
    BY <1>0, <2>2, OneCallChanges
  <2>4. CallOf(t, page') = Calls[c]
    BY <2>1, <2>2, CallsFacts DEF CallOf
  <2> QED
    BY <2>2, <2>3, <2>4 DEF Calls
<1>10. ASSUME NEW c \in Clients, Deliver(c) PROVE Atomic!Deliver(c)
  <2>1. task' = [task EXCEPT ![c] = Idle] /\ page' = page /\ task[c].at = "answered"
    BY <1>10 DEF Deliver
  <2>2. Calls' = [Calls EXCEPT ![c] = CallOf(Idle, page')]
    BY <1>0, <2>1, OneCallChanges
  <2>3. CallOf(Idle, page') = [tool |-> "none", answer |-> None]
    BY DEF CallOf, Idle
  <2>4. Calls[c].answer # None
    <3> DEFINE r == [tool |-> task[c].tool, answer |-> task[c].answer]
    <3>0. r.answer = task[c].answer
      OBVIOUS
    <3>1. Calls[c] = r
      BY <2>1, CallsFacts
    <3> HIDE DEF r
    <3>2. task[c].answer \in Answers
      BY <1>0, <2>1 DEF AnsweredHasAnswer
    <3> QED
      BY <3>0, <3>1, <3>2, AnswersFacts
  <2> QED
    BY <2>1, <2>2, <2>3, <2>4 DEF Atomic!Deliver, Atomic!NoCall, Calls
<1> QED
  <2>1. CASE UNCHANGED vars
    BY <1>1, <2>1
  <2>2. ASSUME NEW c \in Clients, NEW tool \in {"open", "read"}, NEW target \in Target,
               Receive(c, tool, target)
        PROVE  Atomic!Next
    BY <1>2, <2>2 DEF Atomic!Next, Atomic!Tool
  <2>3. ASSUME NEW c \in Clients, Refuse(c) \/ Read(c) \/ LoadFails(c) \/ Deliver(c)
                                   \/ \E p \in Pages : Install(c, p)
        PROVE  Atomic!Next
    BY <1>3, <1>5, <1>7, <1>8, <1>10, <2>3 DEF Atomic!Next, Atomic!Serve
  <2>4. ASSUME NEW c \in Clients, Lock(c) \/ Redirect(c) \/ Reply(c)
        PROVE  UNCHANGED <<page, Calls>>
    BY <1>4, <1>6, <1>9, <2>4
  <2> QED
    BY <2>1, <2>2, <2>3, <2>4 DEF Next, Run, Load

-----------------------------------------------------------------------------

\* The state keeps its type.
THEOREM TypeCorrect == Spec => []TypeOK
<1>1. IInv => TypeOK
  BY DEF IInv
<1> QED
  BY <1>1, InitIInv, NextIInv, PTL DEF Spec

\* Calls that run at once are served one at a time and in full.  That they are
\* all answered is left to the model checker.
THEOREM ServesAtomically == Spec => Atomic!Safety
<1>1. Init => Atomic!Init
  <2> SUFFICES ASSUME Init PROVE Atomic!Init
    OBVIOUS
  <2>1. \A c \in Clients : task[c].at = "idle"
    BY DEF Init, Idle
  <2> QED
    BY <2>1, CallOfFacts DEF Init, Atomic!Init, Atomic!NoCall
<1>2. IInv /\ [Next]_vars => [Atomic!Next]_<<page, Calls>>
  BY StepIsAtomic
<1>3. IInv /\ [Next]_vars => [Atomic!Next]_<<page, [c \in Clients |-> CallOf(task[c], page)]>>
  BY <1>2 DEF Calls
<1> QED
  BY <1>1, <1>3, InitIInv, NextIInv, PTL DEF Spec, Atomic!Safety
=============================================================================
