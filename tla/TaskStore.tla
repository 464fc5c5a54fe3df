------------------------------ MODULE TaskStore ------------------------------
(***************************************************************************)
(* The rows of the task engine's database and what every transaction on    *)
(* them does: src/radhouse/domain/tasks.py, domain/work.py, the helpers of *)
(* application/work_service.py and storage/postgres.py.                     *)
(*                                                                         *)
(* A transaction holds one advisory lock for the whole deployment           *)
(* (postgres.py:214), so it is one atomic step; the calls to the agent      *)
(* runtime and to the model provider are made between transactions.         *)
(*                                                                         *)
(* Dispatch, attempt and session of a task share the number of the attempt  *)
(* (its generation), which is also the idempotency key given to the         *)
(* runtime.                                                                 *)
(***************************************************************************)
EXTENDS Naturals, FiniteSets

CONSTANTS
  Tasks,        \* task identifiers
  Resource,     \* Resource[t]: the resource key of task t, or NoResource
  NoResource,
  Budget,       \* attempts a task may use
  Workers,      \* identities of workers
  Commands      \* keys of work commands

ASSUME BudgetAssumption == Budget \in Nat \ {0}
(* "none" stands for no task in a row that names one. *)
ASSUME TaskAssumption == "none" \notin Tasks

VARIABLES
  task,     \* task[t]: the row of public.tasks
  att,      \* att[t][g]: attempt g with its dispatch
  work,     \* work[t]: the work item that asked for the task
  cmd,      \* cmd[k]: the receipt of work command k
  grant     \* grant[t]: the owner may still write to the bot and the project

storeVars == <<task, att, work, cmd, grant>>

Attempts == 1..Budget
Phases == {"none", "queued", "active", "recovering", "stopping", "closed"}
Outcomes == {"none", "completed", "cancelled", "failed"}
Kinds == {"pause", "resume", "cancel"}

(* What a finished run says of its work: a usable artifact, an artifact    *)
(* with an incomplete or blocked outcome, a declared failure, nothing that  *)
(* parses.                                                                  *)
Claims == {"delivered", "partial", "gave_up", "unreadable"}
Admission == {"runtime_unavailable"}
ProviderBlockers == {"provider_unavailable"}
Doubts == {"operation_unknown", "runtime_stop", "runtime_unavailable"}
Holds == {"human_pause", "grant_withdrawal", "budget_exhausted"}
Blockers == Doubts \cup ProviderBlockers \cup Holds
              \cup {"cancel_requested", "resource_busy"}
DispatchStates == {"none", "prepared", "submitted", "unknown", "accepted", "closed"}

NoRow == [phase |-> "none", outcome |-> "none", blockers |-> {}, attempt |-> 0,
          gen |-> 0, budget |-> 0, perm |-> 0, result |-> "none"]
NoAttempt == [current |-> FALSE, worker |-> "none", disp |-> "none",
              expired |-> FALSE, obs |-> 0]
NoWork == [managed |-> FALSE, state |-> "none", verified |-> FALSE, artifact |-> 0]
NoCommand == [t |-> "none", kind |-> "none", state |-> "none"]

StoreInit ==
  /\ task = [t \in Tasks |-> NoRow]
  /\ att = [t \in Tasks |-> [g \in Attempts |-> NoAttempt]]
  /\ work = [t \in Tasks |-> NoWork]
  /\ cmd = [k \in Commands |-> NoCommand]
  /\ grant = [t \in Tasks |-> TRUE]

(* coordination_candidates and advance: what the coordinator leaves alone. *)
IsHeld(row) == row.phase # "stopping" /\ row.blockers \cap Holds # {}
Candidate(row) == row.phase \notin {"none", "closed"} /\ ~IsHeld(row)

(* _provider_state *)
Described(row, ok) ==
  [row EXCEPT !.blockers = (@ \ ProviderBlockers)
                              \cup IF ok THEN {} ELSE ProviderBlockers]

\* Mutant: a run that completed beats the cancel that was asked for.
TerminalOutcome_RunFirst(row, state) ==
  IF state = "completed" THEN "completed"
  ELSE IF "cancel_requested" \in row.blockers THEN "cancelled" ELSE "failed"
(* _terminal_outcome *)
TerminalOutcome(row, state) ==
  CASE "cancel_requested" \in row.blockers -> "cancelled"
    [] "cancel_requested" \notin row.blockers /\ state = "completed" -> "completed"
    [] OTHER -> "failed"

\* Mutant: the resource is not asked for.
Reservable_OwnAttempts(t) == task[t].budget > 0 /\ \A g \in Attempts : ~att[t][g].current
(* tx.claim: no current attempt of the task, nobody on its resource, and    *)
(* budget left; the row's revision is the one just read.                    *)
Reservable(t) ==
  /\ task[t].budget > 0
  /\ \A g \in Attempts : ~att[t][g].current
  /\ Resource[t] # NoResource =>
       \A u \in Tasks \ {t} : Resource[u] = Resource[t] =>
         \A g \in Attempts : ~att[u][g].current

-----------------------------------------------------------------------------
(* What a save commits beside the row: the work item and its receipts.      *)

(* _verify_terminal: the verdict and the artifact kept as its evidence.     *)
Verdict(row) ==
  CASE row.outcome = "cancelled" -> "cancelled"
    [] row.outcome = "failed" -> "failed"
    [] row.outcome = "completed" /\ row.result = "delivered" -> "completed"
    [] row.outcome = "completed" /\ row.result = "gave_up" -> "failed"
    [] OTHER -> "waiting"
Evidence(row) == IF row.result \in {"delivered", "partial"} THEN row.attempt ELSE 0

(* The state of open work, as reconcile_task reads it from the task.        *)
Projected(row) ==
  CASE row.phase = "stopping" -> "stopping"
    [] row.phase # "stopping" /\ "human_pause" \in row.blockers -> "paused"
    [] row.phase # "stopping" /\ "human_pause" \notin row.blockers
         /\ (row.blockers # {} \/ row.perm # 0) -> "waiting"
    [] OTHER -> IF row.phase = "queued" THEN "queued" ELSE "active"

(* reconcile_task, the work item *)
Reconciled(item, row) ==
  IF ~item.managed \/ (row.phase = "closed" /\ item.verified) THEN item
  ELSE IF row.phase = "closed"
       THEN [item EXCEPT !.state = Verdict(row), !.artifact = Evidence(row), !.verified = TRUE]
       ELSE [item EXCEPT !.state = Projected(row)]

(* command_application_state *)
Applied(kind, row) ==
  \/ kind = "cancel" /\ row.outcome = "cancelled"
  \/ kind = "pause" /\ "human_pause" \in row.blockers /\ row.phase # "stopping"
  \/ kind = "resume" /\ row.phase \notin {"closed", "stopping"}
       /\ "human_pause" \notin row.blockers
Answered(receipt, row) ==
  [receipt EXCEPT !.state = IF Applied(receipt.kind, row) THEN "applied" ELSE @]

(* Service._save: the row, the work item and the pending receipts commit    *)
(* together.                                                                *)
Put(t, row) ==
  /\ task' = [task EXCEPT ![t] = row]
  /\ work' = [work EXCEPT ![t] = Reconciled(@, row)]
  /\ cmd' = [k \in Commands |->
               IF cmd[k].t = t /\ work[t].managed THEN Answered(cmd[k], row) ELSE cmd[k]]

(* A transaction that only writes when the row changes. *)
PutIfNew(t, row) ==
  IF row = task[t] THEN UNCHANGED <<task, work, cmd>> ELSE Put(t, row)

(* save_dispatch *)
Dispatch(t, g, state) == att' = [att EXCEPT ![t][g].disp = state]

-----------------------------------------------------------------------------
(* The owner's grant is changed by the administrator, outside the engine. *)
ChangeGrant(t) ==
  /\ grant' = [grant EXCEPT ![t] = ~@]
  /\ UNCHANGED <<task, att, work, cmd>>

(* Service._admit and WorkService.submit: a new task, with its work item    *)
(* when the request came through the work endpoint. A repeated request      *)
(* finds the command or the delivery and changes nothing.                   *)
Admit(t, managed) ==
  /\ task[t].phase = "none" /\ grant[t]
  /\ task' = [task EXCEPT ![t] = [NoRow EXCEPT !.phase = "queued", !.budget = Budget]]
  /\ work' = [work EXCEPT ![t] = IF managed THEN [NoWork EXCEPT !.managed = TRUE, !.state = "queued"]
                                  ELSE NoWork]
  /\ UNCHANGED <<att, cmd, grant>>

StoreTypeOK ==
  /\ task \in [Tasks -> [phase : Phases, outcome : Outcomes, blockers : SUBSET Blockers,
                         attempt : 0..Budget, gen : 0..Budget, budget : 0..Budget,
                         perm : Nat, result : Claims \cup {"none"}]]
  /\ att \in [Tasks -> [Attempts -> [current : BOOLEAN, worker : Workers \cup {"none"}, disp : DispatchStates,
                                     expired : BOOLEAN, obs : Nat]]]
  /\ work \in [Tasks -> [managed : BOOLEAN, verified : BOOLEAN, artifact : 0..Budget,
                         state : {"none", "queued", "active", "waiting", "paused", "stopping",
                                  "completed", "failed", "cancelled"}]]
  /\ grant \in [Tasks -> BOOLEAN]
=============================================================================
