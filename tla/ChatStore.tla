------------------------------ MODULE ChatStore ------------------------------
(***************************************************************************)
(* The turns table of radhouse.chat.store.ChatStore for one owner, with    *)
(* the document grant of each turn.  A column of the table is a variable,  *)
(* a function of the request; an action is one database transaction.  A    *)
(* caller that holds a row it read earlier is free to act on it at any     *)
(* later time, so nothing here depends on who calls.                       *)
(*                                                                         *)
(* StoreSpec lets the transactions run in any order that the callers'      *)
(* contract allows (the Caller... guards, each the control flow of         *)
(* chat/service.py that leads to the call).  ChatDispatch models the real  *)
(* callers and implements StoreSpec.                                       *)
(***************************************************************************)
EXTENDS ChatBase

VARIABLES
  status,       \* turns.status, "absent" when there is no row
  seq,          \* turns.seq, 0 when there is no row
  queued,       \* turns.queued_followup
  firstAt,      \* turns.first_dispatch_at
  retryUntil,   \* turns.retry_until
  runId,        \* turns.run_id
  granted,      \* a document grant was minted; it expires at retry_until
  boundRun,     \* document_grants.bound_run_id
  lastSeq       \* the AUTOINCREMENT counter of turns.seq

placeCols == <<seq, queued, lastSeq>>
deadlineCols == <<firstAt, retryUntil>>
grantCols == <<granted, boundRun>>
storeVars == <<status, placeCols, deadlineCols, runId, grantCols>>

Status == Terminal \cup Live \cup {"absent", "waiting", "awaiting_dispatch"}

Present(r) == status[r] # "absent"
Unfinished(r) == Present(r) /\ status[r] \notin Terminal

\* Mutant: the newest row that is not terminal.
Pending_Newest(r) ==
  /\ Unfinished(r)
  /\ \A q \in Request : Unfinished(q) => seq[q] <= seq[r]

\* store.pending: the oldest row that is not terminal.
Pending(r) ==
  /\ Unfinished(r)
  /\ \A q \in Request : Unfinished(q) => seq[r] <= seq[q]

\* A row that is past the queue: it holds a run, or is about to ask for one.
Active(r) == Unfinished(r) /\ status[r] # "waiting"

StoreInit ==
  /\ status = [r \in Request |-> "absent"]
  /\ seq = [r \in Request |-> 0]
  /\ queued = [r \in Request |-> FALSE]
  /\ firstAt = [r \in Request |-> NULL]
  /\ retryUntil = [r \in Request |-> 0]
  /\ runId = [r \in Request |-> NULL]
  /\ granted = [r \in Request |-> FALSE]
  /\ boundRun = [r \in Request |-> NULL]
  /\ lastSeq = 0

-----------------------------------------------------------------------------

\* A message sent behind an unfinished one is saved as a waiting follow-up.
Reserve(r) ==
  LET behind == \E q \in Request : Unfinished(q)
  IN  /\ ~Present(r)
      /\ lastSeq' = lastSeq + 1
      /\ seq' = [seq EXCEPT ![r] = lastSeq + 1]
      /\ queued' = [queued EXCEPT ![r] = behind]
      /\ status' = [status EXCEPT ![r] = IF behind THEN "waiting" ELSE "awaiting_dispatch"]
      /\ UNCHANGED <<deadlineCols, runId, grantCols>>

\* Mutant: any waiting row.
Promotable_AnyWaiting(r) == status[r] = "waiting"

\* Mutant: the rows before it are asked, and not the row itself.
Promotable_Reopens(r) == Present(r) /\ \A q \in Request : Unfinished(q) => seq[r] <= seq[q]

\* promote_waiting; a row that is not promotable is left as it is.
Promotable(r) == status[r] = "waiting" /\ Pending(r)

PromoteWaiting(r) ==
  /\ Promotable(r)
  /\ status' = [status EXCEPT ![r] = "awaiting_dispatch"]
  /\ UNCHANGED <<placeCols, deadlineCols, runId, grantCols>>

\* Mutant: a row about to be dispatched may be withdrawn too.
CancelWaiting_Dispatching(r) ==
  /\ status[r] \in {"waiting", "awaiting_dispatch"}
  /\ runId[r] = NULL
  /\ status' = [status EXCEPT ![r] = "cancelled"]
  /\ UNCHANGED <<placeCols, deadlineCols, runId, grantCols>>

\* cancel_waiting; on any other row it raises (or, on a row it cancelled
\* before, does nothing).
CancelWaiting(r) ==
  /\ status[r] = "waiting"
  /\ firstAt[r] = NULL
  /\ runId[r] = NULL
  /\ status' = [status EXCEPT ![r] = "cancelled"]
  /\ UNCHANGED <<placeCols, deadlineCols, runId, grantCols>>

NeverAttempted(r) == firstAt[r] = NULL /\ retryUntil[r] = 0

\* begin_dispatch: the deadline is durable before the POST, and set once.
BeginDispatch(r, now, window) ==
  /\ NeverAttempted(r)
  /\ firstAt' = [firstAt EXCEPT ![r] = now]
  /\ retryUntil' = [retryUntil EXCEPT ![r] = now + window]
  /\ UNCHANGED <<status, placeCols, runId, grantCols>>

\* document_grant_for_turn, on a turn that has no grant yet.
MintGrant(r) ==
  /\ ~granted[r]
  /\ Unfinished(r)
  /\ retryUntil[r] > 0
  /\ granted' = [granted EXCEPT ![r] = TRUE]
  /\ UNCHANGED <<status, placeCols, deadlineCols, runId, boundRun>>

\* bind_document_grant: a callback of a live run binds the grant to that run
\* and, when the acknowledgement was lost, also tells the turn its run.
Bindable(r, p, now) ==
  /\ granted[r]
  /\ now < retryUntil[r]
  /\ Unfinished(r)
  /\ boundRun[r] \in {NULL, p}
  /\ runId[r] \in {NULL, p}

\* Mutant: the grant learns its run and the turn does not.
BindGrant_GrantOnly(r, p, now) ==
  /\ Bindable(r, p, now)
  /\ boundRun' = [boundRun EXCEPT ![r] = p]
  /\ UNCHANGED <<status, runId, placeCols, deadlineCols, granted>>

BindGrant(r, p, now) ==
  /\ Bindable(r, p, now)
  /\ boundRun' = [boundRun EXCEPT ![r] = p]
  /\ status' = [status EXCEPT ![r] = IF runId[r] = NULL THEN "running" ELSE status[r]]
  /\ runId' = [runId EXCEPT ![r] = p]
  /\ UNCHANGED <<placeCols, deadlineCols, granted>>

\* attach: the acknowledgement of a dispatch.
Attachable(r, p) == Unfinished(r) /\ runId[r] \in {NULL, p}

Attach(r, p, s) ==
  /\ Attachable(r, p)
  /\ runId' = [runId EXCEPT ![r] = p]
  /\ status' = [status EXCEPT ![r] = s]
  /\ UNCHANGED <<placeCols, deadlineCols, grantCols>>

\* observe: copy what the runtime says of the row's own run.
Observe(r, p, s) ==
  /\ Unfinished(r)
  /\ runId[r] = p
  /\ status' = [status EXCEPT ![r] = s]
  /\ UNCHANGED <<placeCols, deadlineCols, runId, grantCols>>

\* reject_unadmitted: the gateway proved that no run was admitted.
Rejectable(r) == runId[r] = NULL /\ status[r] = "awaiting_dispatch"

RejectUnadmitted(r) ==
  /\ Rejectable(r)
  /\ status' = [status EXCEPT ![r] = "failed"]
  /\ UNCHANGED <<placeCols, deadlineCols, runId, grantCols>>

-----------------------------------------------------------------------------

\* A dispatch is begun only after promote_waiting answered with a row that is
\* neither waiting nor terminal, and no one can end or withdraw that row since.
CallerBegins(r) == Active(r)

\* A run is reported, or refused, only for a turn whose dispatch was begun.
CallerPosted(r) == firstAt[r] # NULL

\* One transaction, at a time of Times and with a retry window of Windows.
StoreStep(Times, Windows) ==
  \E r \in Request :
    \/ Reserve(r)
    \/ PromoteWaiting(r)
    \/ CancelWaiting(r)
    \/ \E now \in Times, window \in Windows : CallerBegins(r) /\ BeginDispatch(r, now, window)
    \/ MintGrant(r)
    \/ \E p \in Run, now \in Times : BindGrant(r, p, now)
    \/ \E p \in Run, s \in Live : CallerPosted(r) /\ Attach(r, p, s)
    \/ \E p \in Run, s \in Live \cup Terminal : Observe(r, p, s)
    \/ CallerPosted(r) /\ RejectUnadmitted(r)

StoreNext == StoreStep(Nat, Nat)

StoreSpec == StoreInit /\ [][StoreNext]_storeVars

-----------------------------------------------------------------------------

StoreTypeOK ==
  /\ status \in [Request -> Status]
  /\ seq \in [Request -> Nat]
  /\ queued \in [Request -> BOOLEAN]
  /\ firstAt \in [Request -> Nat \cup {NULL}]
  /\ retryUntil \in [Request -> Nat]
  /\ runId \in [Request -> Run \cup {NULL}]
  /\ granted \in [Request -> BOOLEAN]
  /\ boundRun \in [Request -> Run \cup {NULL}]
  /\ lastSeq \in Nat

\* "Only the oldest unfinished message may reserve a runtime dispatch"
\* (promote_waiting), for every interleaving of sends, promotions, callbacks
\* and observations.
HeadOfQueue == \A r \in Request : Active(r) => Pending(r)

\* "One conversation, one active reply": two turns are never both past the
\* queue, whoever sends, promotes, polls or calls back in between.
OneActiveReply == \A q, r \in Request : Active(q) /\ Active(r) => q = r

\* The document grant of a turn and the turn itself never name two runs,
\* whichever of the acknowledgement and the run's own callback came first.
GrantFollowsRun == \A r \in Request : boundRun[r] \in {NULL, runId[r]}

\* A follow-up that was withdrawn before it got a run was never begun, so no
\* deadline, no grant and no POST can exist for it.
WithdrawnWasNeverBegun ==
  \A r \in Request :
    status[r] = "cancelled" /\ runId[r] = NULL => NeverAttempted(r) /\ ~granted[r]

\* What no transaction may do to a row, however stale its caller's copy is:
\* reopen a terminal turn, change its run, renew its deadline, move it in the
\* conversation, or bind its grant to another run.
RowIsMonotone(r) ==
  /\ status[r] \in Terminal => status'[r] = status[r] /\ runId'[r] = runId[r]
  /\ runId[r] # NULL => runId'[r] = runId[r]
  /\ boundRun[r] # NULL => boundRun'[r] = boundRun[r]
  /\ firstAt[r] # NULL => firstAt'[r] = firstAt[r] /\ retryUntil'[r] = retryUntil[r]
  /\ Present(r) => seq'[r] = seq[r]

AllRowsAreMonotone == \A r \in Request : RowIsMonotone(r)

RowsAreMonotone == [][AllRowsAreMonotone]_storeVars

=============================================================================
