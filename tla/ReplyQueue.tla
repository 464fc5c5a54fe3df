------------------------------ MODULE ReplyQueue ------------------------------
(***************************************************************************)
(* What the chat promises its owner: one conversation, in which the        *)
(* messages are answered one at a time and in the order they were saved,   *)
(* each by at most one execution of the assistant, whatever is sent again, *)
(* retried, lost or restarted.  ChatDispatch implements this.              *)
(***************************************************************************)
EXTENDS Naturals

CONSTANT Request

VARIABLES
  phase,    \* what has become of each message
  place,    \* the order the messages were saved in, 0 for a new one
  count,    \* how many messages were saved
  work      \* whether the assistant has executed it

queueVars == <<phase, place, count, work>>

Phases == {"new", "waiting", "active", "done"}
Works == {"none", "running", "ended"}

QueueInit ==
  /\ phase = [r \in Request |-> "new"]
  /\ place = [r \in Request |-> 0]
  /\ count = 0
  /\ work = [r \in Request |-> "none"]

Saved(r) == phase[r] # "new"

\* Every message saved before r is done.
Head(r) == \A q \in Request : Saved(q) /\ place[q] < place[r] => phase[q] = "done"

\* A new message is active at once, unless it is behind one that is not done.
Accept(r) ==
  /\ phase[r] = "new"
  /\ count' = count + 1
  /\ place' = [place EXCEPT ![r] = count + 1]
  /\ phase' = [phase EXCEPT ![r] =
       IF \E q \in Request : phase[q] \in {"waiting", "active"} THEN "waiting" ELSE "active"]
  /\ UNCHANGED work

Start(r) ==
  /\ phase[r] = "waiting"
  /\ Head(r)
  /\ phase' = [phase EXCEPT ![r] = "active"]
  /\ UNCHANGED <<place, count, work>>

\* The owner takes a waiting message back.
Withdraw(r) ==
  /\ phase[r] = "waiting"
  /\ phase' = [phase EXCEPT ![r] = "done"]
  /\ UNCHANGED <<place, count, work>>

\* The assistant starts on an active message, once, and may fail at once.
Execute(r) ==
  /\ phase[r] = "active"
  /\ work[r] = "none"
  /\ \E w \in {"running", "ended"} : work' = [work EXCEPT ![r] = w]
  /\ UNCHANGED <<phase, place, count>>

\* Executions end, one by one or, with the assistant itself, all together.
End(S) ==
  /\ S # {}
  /\ \A r \in S : work[r] = "running"
  /\ work' = [r \in Request |-> IF r \in S THEN "ended" ELSE work[r]]
  /\ UNCHANGED <<phase, place, count>>

\* The outcome is saved, after the execution it is the outcome of; a message
\* that was refused is closed without one, and is never executed later.
Finish(r) ==
  /\ phase[r] = "active"
  /\ work[r] # "running"
  /\ phase' = [phase EXCEPT ![r] = "done"]
  /\ UNCHANGED <<place, count, work>>

QueueNext ==
  \/ \E r \in Request : Accept(r) \/ Start(r) \/ Withdraw(r) \/ Execute(r) \/ Finish(r)
  \/ \E S \in SUBSET Request : End(S)

QueueSpec == QueueInit /\ [][QueueNext]_queueVars

-----------------------------------------------------------------------------

QueueTypeOK ==
  /\ phase \in [Request -> Phases]
  /\ place \in [Request -> Nat]
  /\ count \in Nat
  /\ work \in [Request -> Works]

\* The assistant never works on two messages of the conversation at once.
OneExecution == \A q, r \in Request : work[q] = "running" /\ work[r] = "running" => q = r

\* A message was executed only if every message saved before it is done.
ExecutedInOrder == \A r \in Request : work[r] # "none" => Head(r)

=============================================================================
