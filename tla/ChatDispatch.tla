----------------------------- MODULE ChatDispatch -----------------------------
(***************************************************************************)
(* radhouse.chat.service.ChatService over one store and one gateway: web   *)
(* threads that send, retry and cancel, the observer that saves outcomes   *)
(* and advances the queue, the callbacks of live runs, the operator's      *)
(* dispatch hold, the passing of time, and crashes of either process.      *)
(*                                                                         *)
(* A service is one web process.  Inside it one thread leads a request at  *)
(* a time (the futures of ChatService.send); the others wait for the same  *)
(* answer and change nothing, so a leader is named by service and request. *)
(***************************************************************************)
EXTENDS ChatStore, HermesRuns, FiniteSets

CONSTANTS
  Service,      \* web processes that share the store
  Documented,   \* requests whose turn carries a document grant
  Margin,       \* what the chat keeps off the advertised retention (60 s)
  Delivery,     \* longest time from a window check to the reserve it leads to
  MaxLeaders,   \* bound on threads that dispatch at the same time
  MaxClock,     \* bound on time
  MaxCrashes    \* bound on crashes of web processes and gateway together

ASSUME DispatchAssumption ==
  /\ Documented \subseteq Request
  /\ Margin \in Nat
  /\ Delivery \in Nat
  /\ Delivery <= Margin
  /\ Margin < Retention
  /\ MaxLeaders \in Nat
  /\ MaxClock \in Nat
  /\ MaxCrashes \in Nat

VARIABLES
  leader,       \* where the leading thread of a request is: see LeaderPc
  origin,       \* who asked: the owner, or the observer on its own
  checkedAt,    \* when it last checked the retry window
  ownPost,      \* the POST it waits for
  watch,        \* where a service's observer is: see WatchPc
  watched,      \* the request it read
  seen,         \* the run state it read
  observing,    \* the observer task of a service has not ended
  hold,         \* hold.json exists
  clock,
  crashes

leaderVars == <<leader, origin, checkedAt, ownPost>>
watchVars == <<watch, watched, seen, observing>>
worldVars == <<hold, clock, crashes>>
vars == <<storeVars, hermesVars, leaderVars, watchVars, worldVars>>

LeaderPc == {"idle", "gate", "find", "reserve", "promote", "begin", "grant", "post", "answer"}
WatchPc == {"idle", "save", "next", "retry", "wait"}

\* _prepare_dispatch runs under the service's send_lock ("find" waits for it).
Preparing == {"reserve", "promote", "begin", "grant"}
LockFree(v) == \A q \in Request : leader[v][q] \notin Preparing

\* The admission gate's shared lock is held until the thread is done.
Admitted(v, r) == leader[v][r] \notin {"idle", "gate"}

Window == Retention - Margin

Init ==
  /\ StoreInit
  /\ HermesInit
  /\ leader = [v \in Service |-> [r \in Request |-> "idle"]]
  /\ origin = [v \in Service |-> [r \in Request |-> "owner"]]
  /\ checkedAt = [v \in Service |-> [r \in Request |-> 0]]
  /\ ownPost = [v \in Service |-> [r \in Request |-> NULL]]
  /\ watch = [v \in Service |-> "idle"]
  /\ watched = [v \in Service |-> NULL]
  /\ seen = [v \in Service |-> "none"]
  /\ observing = [v \in Service |-> TRUE]
  /\ hold = FALSE
  /\ clock = 0
  /\ crashes = 0

-----------------------------------------------------------------------------
(* The leading thread of send and retry.                                   *)

Goto(v, r, pc) == leader' = [leader EXCEPT ![v][r] = pc]

\* Only the program counter moves; p is where it moves to.
Skip(v, r, pc) ==
  /\ Goto(v, r, pc)
  /\ UNCHANGED <<origin, checkedAt, ownPost>>

Leading == {l \in Service \X Request : leader[l[1]][l[2]] # "idle"}

Lead(v, r, who) ==
  /\ leader[v][r] = "idle"
  /\ Cardinality(Leading) < MaxLeaders
  /\ Goto(v, r, "gate")
  /\ origin' = [origin EXCEPT ![v][r] = who]
  /\ UNCHANGED <<checkedAt, ownPost>>

\* The owner sends a new message, repeats a send, or presses Retry.
Send(v, r) ==
  /\ Lead(v, r, "owner")
  /\ UNCHANGED <<storeVars, hermesVars, watchVars, worldVars>>

\* dispatch_gate.admission: refused while the operator holds dispatch.
EnterGate(v, r) ==
  /\ leader[v][r] = "gate"
  /\ Skip(v, r, IF hold THEN "idle" ELSE "find")
  /\ UNCHANGED <<storeVars, hermesVars, watchVars, worldVars>>

\* send_lock taken; a turn that has a run or has ended is answered at once.
Find(v, r) ==
  /\ leader[v][r] = "find"
  /\ LockFree(v)
  /\ Skip(v, r, IF runId[r] # NULL \/ status[r] \in Terminal THEN "idle" ELSE "reserve")
  /\ UNCHANGED <<storeVars, hermesVars, watchVars, worldVars>>

\* A step that raises: the gate is being changed or cannot be read, the
\* capabilities call failed or does not suffice, a frozen choice changed, an
\* original cannot be read.
Abandon(v, r) ==
  /\ leader[v][r] \in {"gate", "reserve", "promote", "begin"}
  /\ Skip(v, r, "idle")
  /\ UNCHANGED <<storeVars, hermesVars, watchVars, worldVars>>

ReserveTurn(v, r) ==
  /\ leader[v][r] = "reserve"
  /\ IF Present(r) THEN UNCHANGED storeVars ELSE Reserve(r)
  /\ Skip(v, r, "promote")
  /\ UNCHANGED <<hermesVars, watchVars, worldVars>>

\* Mutant: a row that could not be promoted is dispatched all the same.
Promote_GoesOn(v, r) ==
  /\ leader[v][r] = "promote"
  /\ IF Promotable(r) THEN PromoteWaiting(r) ELSE UNCHANGED storeVars
  /\ Skip(v, r, IF status'[r] \in Terminal THEN "idle" ELSE "begin")
  /\ UNCHANGED <<hermesVars, watchVars, worldVars>>

Promote(v, r) ==
  /\ leader[v][r] = "promote"
  /\ IF Promotable(r) THEN PromoteWaiting(r) ELSE UNCHANGED storeVars
  /\ Skip(v, r, IF status'[r] \in Terminal \cup {"waiting"} THEN "idle" ELSE "begin")
  /\ UNCHANGED <<hermesVars, watchVars, worldVars>>

\* Mutant: there is no deadline.
WindowClosed_Never(r) == FALSE

\* _check_retry_window: a turn never attempted is always in time.
WindowClosed(r) ==
  /\ ~NeverAttempted(r)
  /\ clock >= retryUntil[r] \/ clock >= firstAt[r] + Window

\* The prompt is frozen, begin_dispatch saves the deadline, and the window is
\* checked for the last time.
Begin(v, r) ==
  /\ leader[v][r] = "begin"
  /\ IF WindowClosed(r)
       THEN /\ Skip(v, r, "idle")
            /\ UNCHANGED storeVars
       ELSE /\ Goto(v, r, "grant")
            /\ checkedAt' = [checkedAt EXCEPT ![v][r] = clock]
            /\ IF NeverAttempted(r) THEN BeginDispatch(r, clock, Window) ELSE UNCHANGED storeVars
            /\ UNCHANGED <<origin, ownPost>>
  /\ UNCHANGED <<hermesVars, watchVars, worldVars>>

\* Mutant: only the attempt that set the deadline mints the token.
Grant_FirstAttemptOnly(v, r) ==
  /\ leader[v][r] = "grant"
  /\ IF r \in Documented /\ ~granted[r] /\ checkedAt[v][r] = firstAt[r] /\ Unfinished(r)
       THEN MintGrant(r) ELSE UNCHANGED storeVars
  /\ Skip(v, r, "post")
  /\ UNCHANGED <<hermesVars, watchVars, worldVars>>

\* document_grant_for_turn: the token of the turn, minted once; a turn that
\* ended before it had one is refused.
Grant(v, r) ==
  LET mints == r \in Documented /\ ~granted[r]
  IN  /\ leader[v][r] = "grant"
      /\ IF mints /\ Unfinished(r) THEN MintGrant(r) ELSE UNCHANGED storeVars
      /\ Skip(v, r, IF mints /\ ~Unfinished(r) THEN "idle" ELSE "post")
      /\ UNCHANGED <<hermesVars, watchVars, worldVars>>

\* start_or_attach, with no lock held.
PostRun(v, r) ==
  /\ leader[v][r] = "post"
  /\ \E p \in Run :
       /\ SendPost(p, r, checkedAt[v][r])
       /\ ownPost' = [ownPost EXCEPT ![v][r] = p]
  /\ Goto(v, r, "answer")
  /\ UNCHANGED <<storeVars, origin, checkedAt, watchVars, worldVars>>

Done(v, r) ==
  /\ Goto(v, r, "idle")
  /\ ownPost' = [ownPost EXCEPT ![v][r] = NULL]
  /\ UNCHANGED <<origin, checkedAt>>

\* 202: attach the run, unless the turn already names another one.
TakeAcceptance(v, r) ==
  LET p == ownPost[v][r]
  IN  /\ leader[v][r] = "answer"
      /\ post[p] = "accepted"
      /\ IF Attachable(r, answer[p]) THEN Attach(r, answer[p], answerState[p])
                                     ELSE UNCHANGED storeVars
      /\ Done(v, r)
      /\ UNCHANGED <<hermesVars, watchVars, worldVars>>

\* 409 admitted false: the turn failed, without a run.
TakeRefusal(v, r) ==
  /\ leader[v][r] = "answer"
  /\ post[ownPost[v][r]] = "refused"
  /\ IF Rejectable(r) THEN RejectUnadmitted(r) ELSE UNCHANGED storeVars
  /\ Done(v, r)
  /\ UNCHANGED <<hermesVars, watchVars, worldVars>>

\* No connection, any other error, a broken connection or the request deadline:
\* the outcome is unknown and the turn stays as it is, holding the queue.
GiveUp(v, r) ==
  /\ leader[v][r] \in {"post", "answer"}
  /\ Done(v, r)
  /\ UNCHANGED <<storeVars, hermesVars, watchVars, worldVars>>

LeaderStep(v, r) ==
  \/ EnterGate(v, r) \/ Find(v, r) \/ Abandon(v, r) \/ ReserveTurn(v, r)
  \/ Promote(v, r) \/ Begin(v, r) \/ Grant(v, r) \/ PostRun(v, r)
  \/ TakeAcceptance(v, r) \/ TakeRefusal(v, r) \/ GiveUp(v, r)

-----------------------------------------------------------------------------
(* poll: the observer task, every two seconds, and GET /chat/reply.        *)

Watching(v, pc, r, s) ==
  /\ watch' = [watch EXCEPT ![v] = pc]
  /\ watched' = [watched EXCEPT ![v] = r]
  /\ seen' = [seen EXCEPT ![v] = s]

WatchAt(v, pc, r, s) == Watching(v, pc, r, s) /\ UNCHANGED observing

\* Mutant: a status that cannot be read is taken for a failure.
ReadStatus_FailsOnError(v) ==
  /\ watch[v] = "idle"
  /\ \/ /\ \A r \in Request : Pending(r) => runId[r] = NULL
        /\ WatchAt(v, "next", NULL, "none")
     \/ \E r \in Request :
          /\ Pending(r)
          /\ runId[r] # NULL
          /\ \E s \in {run[runId[r]], "failed"} : WatchAt(v, "save", r, s)
  /\ UNCHANGED <<storeVars, hermesVars, leaderVars, worldVars>>

\* The pending turn and, when it has a run, what the runtime says of it.  A
\* failed status request raises, and ends this poll without any change.
ReadStatus(v) ==
  /\ watch[v] = "idle"
  /\ \/ /\ \A r \in Request : Pending(r) => runId[r] = NULL
        /\ WatchAt(v, "next", NULL, "none")
     \/ \E r \in Request :
          /\ Pending(r)
          /\ runId[r] # NULL
          /\ Observable(runId[r])
          /\ WatchAt(v, "save", r, run[runId[r]])
  /\ UNCHANGED <<storeVars, hermesVars, leaderVars, worldVars>>

\* What poll saves for a reported state: an empty reply is a failure, and an
\* approval request is only noted.
Saved(s) ==
  IF s = "completed" THEN {"completed", "failed"} ELSE {s} \ {"waiting_for_approval"}

SaveStatus(v) ==
  LET r == watched[v]
  IN  /\ watch[v] = "save"
      /\ IF Unfinished(r) /\ Saved(seen[v]) # {}
           THEN \E s \in Saved(seen[v]) : Observe(r, runId[r], s)
           ELSE UNCHANGED storeVars
      /\ WatchAt(v, "next", NULL, "none")
      /\ UNCHANGED <<hermesVars, leaderVars, worldVars>>

\* Mutant: a follow-up promoted before a restart or a failed preparation is
\* left where it is.
AutoDispatchable_WaitingOnly(r) ==
  /\ Pending(r)
  /\ queued[r]
  /\ status[r] = "waiting"

\* "Only a positively never-attempted queued follow-up may auto-dispatch."
AutoDispatchable(r) ==
  /\ Pending(r)
  /\ queued[r]
  /\ runId[r] = NULL
  /\ \/ status[r] = "waiting"
     \/ status[r] = "awaiting_dispatch" /\ NeverAttempted(r)

PickNext(v) ==
  /\ watch[v] = "next"
  /\ \/ \E r \in Request :
          ~hold /\ AutoDispatchable(r) /\ WatchAt(v, "retry", r, "none")
     \/ /\ hold \/ \A r \in Request : ~AutoDispatchable(r)
        /\ WatchAt(v, "idle", NULL, "none")
  /\ UNCHANGED <<storeVars, hermesVars, leaderVars, worldVars>>

\* retry leads the request, or waits for the thread that already does.
RetryNext(v) ==
  /\ watch[v] = "retry"
  /\ IF leader[v][watched[v]] = "idle" THEN Lead(v, watched[v], "observer")
                                       ELSE UNCHANGED leaderVars
  /\ WatchAt(v, "wait", watched[v], "none")
  /\ UNCHANGED <<storeVars, hermesVars, worldVars>>

EndPoll(v) ==
  /\ watch[v] = "wait"
  /\ leader[v][watched[v]] = "idle"
  /\ WatchAt(v, "idle", NULL, "none")
  /\ UNCHANGED <<storeVars, hermesVars, leaderVars, worldVars>>

\* An exception that neither poll nor _observe_reply catches, of a thread that
\* cannot read an original or whose call the client refuses to make: it ends
\* the poll that waits for the thread, and with its poll the observer.
Escape(v) ==
  LET r == watched[v]
  IN  /\ watch[v] = "wait"
      /\ leader[v][r] \in {"begin", "post"}
      /\ Skip(v, r, "idle")
      /\ Watching(v, "idle", NULL, "none")
      /\ \E goesOn \in {observing[v], FALSE} : observing' = [observing EXCEPT ![v] = goesOn]
      /\ UNCHANGED <<storeVars, hermesVars, worldVars>>

WatchStep(v) ==
  \/ ReadStatus(v) \/ SaveStatus(v) \/ PickNext(v) \/ RetryNext(v) \/ EndPoll(v) \/ Escape(v)

-----------------------------------------------------------------------------
(* Everyone else.                                                          *)

\* POST /chat/messages/<id>/cancel
Cancel(r) ==
  /\ CancelWaiting(r)
  /\ UNCHANGED <<hermesVars, leaderVars, watchVars, worldVars>>

\* A document call of run p: authorised while p was live, it binds the grant,
\* possibly after p ended.
Callback(p) ==
  /\ Created(p)
  /\ BindGrant(postFor[p], p, clock)
  /\ UNCHANGED <<hermesVars, leaderVars, watchVars, worldVars>>

\* Mutant: the hold is written without the exclusive lock.
Hold_Unlocked ==
  /\ ~hold
  /\ hold' = TRUE
  /\ UNCHANGED <<storeVars, hermesVars, leaderVars, watchVars, clock, crashes>>

\* The operator's hold takes the exclusive lock, so no thread is admitted.
Hold ==
  /\ ~hold
  /\ \A v \in Service, r \in Request : ~Admitted(v, r)
  /\ hold' = TRUE
  /\ UNCHANGED <<storeVars, hermesVars, leaderVars, watchVars, clock, crashes>>

Release ==
  /\ hold
  /\ \A v \in Service, r \in Request : ~Admitted(v, r)
  /\ hold' = FALSE
  /\ UNCHANGED <<storeVars, hermesVars, leaderVars, watchVars, clock, crashes>>

\* Delivery bounds the time from a window check to the end of the handler of
\* the POST made under it.
Overdue(t) == clock + 1 > t + Delivery

Tick ==
  /\ clock < MaxClock
  /\ \A v \in Service, r \in Request :
       leader[v][r] \in {"grant", "post"} => ~Overdue(checkedAt[v][r])
  /\ \A p \in Run : post[p] \in InFlight => ~Overdue(postAt[p])
  /\ clock' = clock + 1
  /\ UNCHANGED <<storeVars, hermesVars, leaderVars, watchVars, hold, crashes>>

\* A web process dies and comes back, with an observer: its threads, their locks
\* and what they had read are gone, the store, the hold and the gateway stay.
CrashService(v) ==
  /\ crashes < MaxCrashes
  /\ crashes' = crashes + 1
  /\ leader' = [leader EXCEPT ![v] = [r \in Request |-> "idle"]]
  /\ ownPost' = [ownPost EXCEPT ![v] = [r \in Request |-> NULL]]
  /\ Watching(v, "idle", NULL, "none")
  /\ observing' = [observing EXCEPT ![v] = TRUE]
  /\ UNCHANGED <<storeVars, hermesVars, origin, checkedAt, hold, clock>>

CrashGateway ==
  /\ crashes < MaxCrashes
  /\ crashes' = crashes + 1
  /\ RestartGateway(clock)
  /\ UNCHANGED <<storeVars, leaderVars, watchVars, hold, clock>>

GatewayStep ==
  /\ HandlerStep(clock) \/ RunStep(clock)
  /\ UNCHANGED <<storeVars, leaderVars, watchVars, worldVars>>

Next ==
  \/ \E v \in Service, r \in Request : Send(v, r) \/ LeaderStep(v, r)
  \/ \E v \in Service : WatchStep(v) \/ CrashService(v)
  \/ \E r \in Request : Cancel(r)
  \/ \E p \in Run : Callback(p)
  \/ GatewayStep
  \/ CrashGateway
  \/ Hold \/ Release
  \/ Tick

Spec == Init /\ [][Next]_vars

\* Every thread is scheduled, every call it makes has a deadline, the observer
\* task polls again until it ends, and preparations stop failing at last:
\* nothing is promised while the gateway stays out of reach.  Once the observer
\* has ended nobody need begin a poll.  A poll waits for the future of one
\* leader, which stays resolved when another thread leads the same request
\* next, so its wait is strongly fair.  Nothing is assumed of the owner, the
\* operator, the gateway's answers or its runs.
Polling(v) == observing[v] \/ watch[v] # "idle"

Fairness ==
  \A v \in Service :
    /\ WF_vars(Polling(v) /\ WatchStep(v))
    /\ SF_vars(EndPoll(v))
    /\ \A r \in Request : WF_vars(LeaderStep(v, r))

Recovery == <>[][\A v \in Service, r \in Request : ~Abandon(v, r) /\ ~Escape(v)]_vars

FairSpec == Spec /\ Fairness /\ Recovery

-----------------------------------------------------------------------------

DispatchTypeOK ==
  /\ leader \in [Service -> [Request -> LeaderPc]]
  /\ origin \in [Service -> [Request -> {"owner", "observer"}]]
  /\ checkedAt \in [Service -> [Request -> Nat]]
  /\ ownPost \in [Service -> [Request -> Run \cup {NULL}]]
  /\ watch \in [Service -> WatchPc]
  /\ watched \in [Service -> Request \cup {NULL}]
  /\ seen \in [Service -> Live \cup Terminal \cup {"none"}]
  /\ observing \in [Service -> BOOLEAN]
  /\ hold \in BOOLEAN
  /\ clock \in Nat
  /\ crashes \in Nat

TypeOK == StoreTypeOK /\ HermesTypeOK /\ DispatchTypeOK

RunsOf(r) == {p \in Run : postFor[p] = r /\ Created(p)}

\* The dispatch key, the retry window and the gateway's retention together
\* give every turn at most one run, whatever is retried, lost, delayed,
\* restarted or forgotten in between.
OneRunPerTurn == \A r \in Request : \A p, q \in RunsOf(r) : p = q

\* A turn that ended with a run says what that run ended with: nothing is
\* saved for a run still live, or for another run, by an observer whose
\* reading is old.
OutcomeIsTheRuns ==
  \A r \in Request :
    status[r] \in Terminal /\ runId[r] # NULL =>
      /\ postFor[runId[r]] = r
      /\ \/ run[runId[r]] = status[r]
         \/ run[runId[r]] = "completed" /\ status[r] = "failed"

\* The run a turn names is a run of that turn, whether the acknowledgement,
\* the replay of a retry or a callback of the run named it.
TurnNamesItsRun == \A r \in Request : runId[r] # NULL => runId[r] \in RunsOf(r)

\* Every POST of a turn that needs documents carries a token, also when the
\* process died between the durable deadline and the grant.
PostsCarryTheGrant ==
  \A p \in Run : post[p] # "unused" /\ postFor[p] \in Documented => granted[postFor[p]]

\* "Successful hold creation proves earlier admissions have finished"
\* (docs/design/controlled-worker-replacement.md): while dispatch is held no
\* POST leaves, from any thread of any service.
NothingSentWhileHeld ==
  [][\A p \in Run : hold /\ post[p] = "unused" => post'[p] = "unused"]_vars

\* A POST leaves only inside the first window of its turn.
SentInsideTheWindow ==
  \A p \in Run :
    post[p] # "unused" =>
      /\ firstAt[postFor[p]] # NULL
      /\ postAt[p] < firstAt[postFor[p]] + Window

\* "Only an explicit gateway proof of no run admission may close an unsent
\* handoff" (reject_unadmitted): a turn closed that way has no run, and will
\* not get one.
RefusalProvesNoRun ==
  \A r \in Request :
    status[r] = "failed" /\ runId[r] = NULL => RunsOf(r) = {}

\* "Only a positively never-attempted queued follow-up may auto-dispatch.  A
\* lost runtime acknowledgement holds the queue for explicit recovery" (poll):
\* a thread the observer leads never goes on to POST a turn attempted before.
ObserverNeverRetries ==
  [][\A v \in Service, r \in Request :
       leader[v][r] = "begin" /\ leader'[v][r] = "grant" /\ origin[v][r] = "observer"
         => NeverAttempted(r)]_vars

\* Polls go on: the observer has not ended, or some page of the owner asks for
\* replies again and again (GET /chat/reply) after it did.
PollsGoOn == \A v \in Service : []<>Polling(v)

\* The next message is dispatched without anyone sending or retrying it: a
\* follow-up that is at the head of the queue and was never attempted is begun
\* or withdrawn, unless the operator holds dispatch, for as long as polls go on
\* (poll, the observer task).
NextUp(r) == Pending(r) /\ queued[r] /\ NeverAttempted(r) /\ runId[r] = NULL

QueueAdvances == PollsGoOn => \A r \in Request : NextUp(r) ~> (hold \/ ~NextUp(r))

\* The reply of a run that has ended is saved, for as long as polls go on: with
\* no client connected, while the observer lives.
OutcomeIsSaved ==
  PollsGoOn =>
    \A r \in Request :
      (runId[r] # NULL /\ run[runId[r]] \in Terminal) ~> status[r] \in Terminal

\* The store's transactions are called as StoreStep allows.
StoreImplemented == StoreInit /\ [][StoreStep(0..MaxClock, {Window})]_storeVars

\* What the owner sees of a turn, and of the runs that carry it out.
PhaseOf(r) ==
  CASE status[r] = "absent" -> "new"
    [] status[r] = "waiting" -> "waiting"
    [] status[r] \in Terminal -> "done"
    [] OTHER -> "active"

WorkOf(r) ==
  IF \E p \in RunsOf(r) : run[p] \in Live THEN "running"
  ELSE IF RunsOf(r) # {} THEN "ended" ELSE "none"

Queue == INSTANCE ReplyQueue WITH
  phase <- [r \in Request |-> PhaseOf(r)],
  place <- seq,
  count <- lastSeq,
  work <- [r \in Request |-> WorkOf(r)]

\* The chat and the gateway together are the conversation the owner was
\* promised.  Holds where the gateway has no "admitted false" answer.
QueueImplemented == Queue!QueueInit /\ [][Queue!QueueNext]_Queue!queueVars

=============================================================================
