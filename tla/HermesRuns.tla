------------------------------ MODULE HermesRuns ------------------------------
(***************************************************************************)
(* The keyed run admission of the Hermes gateway (POST /v1/runs of         *)
(* runtime/hermes) as radhouse.chat sees it: the handlers of the POSTs in  *)
(* flight, the durable idempotency ledger, and the runs.                   *)
(*                                                                         *)
(* A turn has its own dispatch key and every POST of a turn carries the    *)
(* same body, so the request stands for its key.  The k-th POST ever sent  *)
(* is the member k of Run, and the run it creates, if any, has that name.  *)
(***************************************************************************)
EXTENDS ChatBase

CONSTANTS
  Selective,    \* requests with a model choice or a browser context, which
                \* the gateway may refuse with {"admitted": false}
  RunStates,    \* states a run may report next, until it is terminal
  Retention     \* how long the ledger keeps the key of an ended run

ASSUME HermesAssumption ==
  /\ Selective \subseteq Request
  /\ RunStates \subseteq Live \cup Terminal
  /\ Retention \in Nat

VARIABLES
  post,         \* where each POST is: see Phase
  postFor,      \* the request it carries
  postAt,       \* the time of the retry window check it was sent under
  answer,       \* the run its 202 response names
  answerState,  \* the state its 202 response reports
  ledger,       \* idempotency ledger: the run recorded under the key
  run,          \* the state of each run, "none" before it is created
  endedAt       \* when it became terminal (updated_at)

wireVars == <<post, postFor, postAt, answer, answerState>>
hermesVars == <<wireVars, ledger, run, endedAt>>

\* sent: not yet looked up; fresh: looked up, not yet reserved; the other
\* four: answered, or never to be answered.
Phase == {"unused", "sent", "fresh", "accepted", "refused", "failed", "lost"}
InFlight == {"sent", "fresh"}

Created(p) == run[p] # "none"

HermesInit ==
  /\ post = [p \in Run |-> "unused"]
  /\ postFor = [p \in Run |-> NULL]
  /\ postAt = [p \in Run |-> 0]
  /\ answer = [p \in Run |-> NULL]
  /\ answerState = [p \in Run |-> "queued"]
  /\ ledger = [r \in Request |-> NULL]
  /\ run = [p \in Run |-> "none"]
  /\ endedAt = [p \in Run |-> 0]

-----------------------------------------------------------------------------

\* The next POST goes out, for r, under a window check made at time t.
SendPost(p, r, t) ==
  /\ post[p] = "unused"
  /\ \A q \in Run : post[q] = "unused" => p <= q
  /\ post' = [post EXCEPT ![p] = "sent"]
  /\ postFor' = [postFor EXCEPT ![p] = r]
  /\ postAt' = [postAt EXCEPT ![p] = t]
  /\ UNCHANGED <<answer, answerState, ledger, run, endedAt>>

\* Mutants: the state as it is; and the run of this POST, not of its key.
Respond_AsIs(p, q) ==
  /\ post' = [post EXCEPT ![p] = "accepted"]
  /\ answer' = [answer EXCEPT ![p] = q]
  /\ answerState' = [answerState EXCEPT ![p] = run[q]]
  /\ UNCHANGED <<postFor, postAt>>

Respond_OwnName(p, q) ==
  /\ post' = [post EXCEPT ![p] = "accepted"]
  /\ answer' = [answer EXCEPT ![p] = p]
  /\ answerState' = [answerState EXCEPT ![p] = IF run[q] \in Live THEN run[q] ELSE "queued"]
  /\ UNCHANGED <<postFor, postAt>>

\* The 202 response.  A terminal state is reported to the chat as "queued":
\* attach must leave the terminal state to the observer.
Respond(p, q) ==
  /\ post' = [post EXCEPT ![p] = "accepted"]
  /\ answer' = [answer EXCEPT ![p] = q]
  /\ answerState' = [answerState EXCEPT ![p] = IF run[q] \in Live THEN run[q] ELSE "queued"]
  /\ UNCHANGED <<postFor, postAt>>

\* An unanswered POST: never delivered, or the gateway went away with it.
LosePost(p) ==
  /\ post[p] = "sent"
  /\ post' = [post EXCEPT ![p] = "lost"]
  /\ UNCHANGED <<postFor, postAt, answer, answerState, ledger, run, endedAt>>

\* A lost acceptance is replayed before anything else is looked at.
Lookup(p) ==
  /\ post[p] = "sent"
  /\ IF ledger[postFor[p]] # NULL
       THEN Respond(p, ledger[postFor[p]])
       ELSE /\ post' = [post EXCEPT ![p] = "fresh"]
            /\ UNCHANGED <<postFor, postAt, answer, answerState>>
  /\ UNCHANGED <<ledger, run, endedAt>>

\* 409 {"error": ..., "admitted": false}: the inference or browser checks that
\* a handler awaits before it reserves.
RefuseAdmission(p) ==
  /\ post[p] = "fresh"
  /\ postFor[p] \in Selective
  /\ post' = [post EXCEPT ![p] = "refused"]
  /\ UNCHANGED <<postFor, postAt, answer, answerState, ledger, run, endedAt>>

\* Draining, maintenance, no capacity: any other error response.
FailPost(p) ==
  /\ post[p] = "fresh"
  /\ post' = [post EXCEPT ![p] = "failed"]
  /\ UNCHANGED <<postFor, postAt, answer, answerState, ledger, run, endedAt>>

\* Mutant: the reserve trusts the lookup made before the awaits.
AdmitRun_TrustsLookup(p, now) ==
  /\ post[p] = "fresh"
  /\ post' = [post EXCEPT ![p] = "accepted"]
  /\ answer' = [answer EXCEPT ![p] = p]
  /\ answerState' = [answerState EXCEPT ![p] = "queued"]
  /\ ledger' = [ledger EXCEPT ![postFor[p]] = p]
  /\ run' = [run EXCEPT ![p] = "queued"]
  /\ endedAt' = [endedAt EXCEPT ![p] = now]
  /\ UNCHANGED <<postFor, postAt>>

\* The atomic reserve.  A key that another handler reserved since the lookup
\* is replayed; otherwise the run exists from here on.  A browser admission
\* that fails after the reserve leaves a failed run and still answers 202.
AdmitRun(p, now) ==
  LET r == postFor[p]
  IN  /\ post[p] = "fresh"
      /\ IF ledger[r] # NULL
           THEN /\ Respond(p, ledger[r])
                /\ UNCHANGED <<ledger, run, endedAt>>
           ELSE /\ post' = [post EXCEPT ![p] = "accepted"]
                /\ answer' = [answer EXCEPT ![p] = p]
                /\ answerState' = [answerState EXCEPT ![p] = "queued"]
                /\ ledger' = [ledger EXCEPT ![r] = p]
                /\ \E s \in {"queued"} \cup (IF r \in Selective THEN {"failed"} ELSE {}) :
                     run' = [run EXCEPT ![p] = s]
                /\ endedAt' = [endedAt EXCEPT ![p] = now]
                /\ UNCHANGED <<postFor, postAt>>

\* The runtime moves a run on, or ends it.
AdvanceRun(p, s, now) ==
  /\ run[p] \in Live
  /\ s \in RunStates \ {run[p]}
  /\ run' = [run EXCEPT ![p] = s]
  /\ endedAt' = [endedAt EXCEPT ![p] = IF s \in Terminal THEN now ELSE endedAt[p]]
  /\ UNCHANGED <<wireVars, ledger>>

\* The gateway restarts: handlers die unanswered, live runs are interrupted,
\* the ledger is durable.
RestartGateway(now) ==
  /\ \E p \in Run : post[p] \in InFlight \/ run[p] \in Live
  /\ post' = [p \in Run |-> IF post[p] \in InFlight THEN "lost" ELSE post[p]]
  /\ run' = [p \in Run |-> IF run[p] \in Live THEN "interrupted" ELSE run[p]]
  /\ endedAt' = [p \in Run |-> IF run[p] \in Live THEN now ELSE endedAt[p]]
  /\ UNCHANGED <<postFor, postAt, answer, answerState, ledger>>

\* Mutant: the key is forgotten as soon as its run has ended.
PruneKey_AtOnce(r, now) ==
  /\ ledger[r] # NULL
  /\ run[ledger[r]] \in Terminal
  /\ endedAt[ledger[r]] < now
  /\ ledger' = [ledger EXCEPT ![r] = NULL]
  /\ UNCHANGED <<wireVars, run, endedAt>>

\* The ledger forgets a key only after its run ended and Retention passed.
PruneKey(r, now) ==
  /\ ledger[r] # NULL
  /\ run[ledger[r]] \in Terminal
  /\ endedAt[ledger[r]] + Retention < now
  /\ ledger' = [ledger EXCEPT ![r] = NULL]
  /\ UNCHANGED <<wireVars, run, endedAt>>

\* GET /v1/runs/<id> can be answered while the key is in the ledger.
Observable(p) == \E r \in Request : ledger[r] = p

\* The steps of the gateway's own handlers, and those of its runs.
HandlerStep(now) ==
  \E p \in Run : LosePost(p) \/ Lookup(p) \/ RefuseAdmission(p) \/ FailPost(p) \/ AdmitRun(p, now)

RunStep(now) ==
  \/ \E p \in Run, s \in RunStates : AdvanceRun(p, s, now)
  \/ \E r \in Request : PruneKey(r, now)

-----------------------------------------------------------------------------

HermesTypeOK ==
  /\ post \in [Run -> Phase]
  /\ postFor \in [Run -> Request \cup {NULL}]
  /\ postAt \in [Run -> Nat]
  /\ answer \in [Run -> Run \cup {NULL}]
  /\ answerState \in [Run -> Live]
  /\ ledger \in [Request -> Run \cup {NULL}]
  /\ run \in [Run -> Live \cup Terminal \cup {"none"}]
  /\ endedAt \in [Run -> Nat]

=============================================================================
