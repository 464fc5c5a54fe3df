----------------------------- MODULE TaskEngine -----------------------------
(***************************************************************************)
(* The task engine: the coordinator that advances every open task, the      *)
(* owner's holds and work commands, and the agent runtime                   *)
(* (src/radhouse/application/service.py, coordinator.py, work_service.py).  *)
(*                                                                         *)
(* A driver is a thread inside Coordinator.run_once. Between two of its     *)
(* transactions it calls the provider or the runtime; what it read may be   *)
(* stale when it goes on. A crash loses the thread and nothing else.        *)
(***************************************************************************)
EXTENDS TaskControls

CONSTANT WorkerOf   \* WorkerOf[d]: the worker identity driver d is configured with
ASSUME WorkerAssumption == WorkerOf \in [Drivers -> Workers]

vars == <<task, att, work, cmd, grant, run, note, ctl, sent, act>>

StopBlockers == ProviderBlockers \cup {"grant_withdrawal", "human_pause", "cancel_requested"}
HoldReasons == {"human_pause", "cancel_requested"}

Init == StoreInit /\ RuntimeInit /\ ControlsInit

Keep == UNCHANGED <<task, work, cmd>>
Enter(a, pc, t, g, seen, why) ==
  act' = [act EXCEPT ![a] = [Idle EXCEPT !.pc = pc, !.t = t, !.g = g, !.seen = seen, !.why = why]]
External == UNCHANGED <<grant, note, ctl, sent>>
Quiet == External /\ UNCHANGED run

-----------------------------------------------------------------------------
(* The world outside the engine. *)
Grant(t) == ChangeGrant(t) /\ UNCHANGED <<runtimeVars, ctl, sent, act>>
Submit(t, managed) == Admit(t, managed) /\ UNCHANGED <<runtimeVars, ctl, sent, act>>

(* The retention of a dispatch's key ends. *)
ExpireRetention(t, g) ==
  /\ att[t][g].disp \notin {"none", "prepared"} /\ ~att[t][g].expired
  /\ att' = [att EXCEPT ![t][g].expired = TRUE]
  /\ Keep /\ Quiet /\ UNCHANGED act

Crash(a) == ~At(a, "idle") /\ Leave(a) /\ UNCHANGED <<storeVars, runtimeVars, ctl, sent>>

-----------------------------------------------------------------------------
(* Coordinator.run_once, Service.advance, run and recover. *)
Advance(d, t) ==
  /\ At(d, "idle") /\ Candidate(task[t])
  /\ Enter(d, IF task[t].phase = "queued" THEN "describe" ELSE "drive", t, 0, "none",
           IF task[t].phase = "queued" THEN "own" ELSE "any")
  /\ UNCHANGED <<storeVars, runtimeVars, ctl, sent>>

(* refresh_provider: the description is read outside the transaction. *)
Describe(d, ok) ==
  LET t == act[d].t IN
  /\ At(d, "describe")
  /\ IF task[t].phase = "closed" THEN Keep ELSE PutIfNew(t, Described(task[t], ok))
  /\ GoTo(d, "claim")
  /\ Quiet /\ UNCHANGED att

(* claim: what keeps a queued task waiting; the reservation, the attempt    *)
(* and its dispatch commit together.                                        *)
Waiting(t) ==
  (task[t].blockers \ {"resource_busy"})
     \cup (IF grant[t] THEN {} ELSE {"grant_withdrawal"})
     \cup (IF task[t].budget > 0 THEN {} ELSE {"budget_exhausted"})
Claim(d) ==
  LET t == act[d].t  row == task[t]  g == row.gen + 1 IN
  /\ At(d, "claim")
  /\ CASE row.phase # "queued" ->
            /\ Keep /\ UNCHANGED att
            /\ IF row.phase = "active" THEN GoTo(d, "drive") ELSE Leave(d)
       [] row.phase = "queued" /\ Waiting(t) # {} ->
            PutIfNew(t, [row EXCEPT !.blockers = Waiting(t)]) /\ Leave(d) /\ UNCHANGED att
       [] row.phase = "queued" /\ Waiting(t) = {} /\ ~Reservable(t) ->
            Put(t, [row EXCEPT !.blockers = @ \cup {"resource_busy"}]) /\ Leave(d) /\ UNCHANGED att
       [] OTHER ->
            /\ Put(t, [row EXCEPT !.phase = "active", !.attempt = g, !.gen = g,
                                  !.budget = @ - 1, !.blockers = {}])
            /\ att' = [att EXCEPT ![t][g] = [NoAttempt EXCEPT !.current = TRUE,
                                               !.worker = WorkerOf[d], !.disp = "prepared"]]
            /\ GoTo(d, "drive")
  /\ Quiet

(* _drive_snapshot, _current_grant: a withdrawn grant and the owner's holds *)
(* stop an accepted run; nothing new is sent while one stands.              *)
Passive(d, row, a) ==
  \/ row.phase = "closed"
  \/ act[d].why = "own" /\ a.worker # WorkerOf[d]
  \/ row.blockers \ (Doubts \cup Admission) # {} /\ row.phase # "stopping" /\ a.disp # "accepted"
Checked(t, disp) ==
  LET row == [task[t] EXCEPT !.blockers = IF grant[t] THEN @ ELSE @ \cup {"grant_withdrawal"}]
  IN IF disp = "accepted" /\ row.blockers \cap StopBlockers # {}
     THEN [row EXCEPT !.phase = "stopping"] ELSE row
AfterSnapshot(d, t, g, disp, row) ==
  CASE disp = "prepared" /\ row.blockers \cap HoldReasons # {} ->
         Enter(d, "hold", t, g, disp,
               IF "cancel_requested" \in row.blockers THEN "cancel_requested" ELSE "human_pause")
    [] disp = "prepared" /\ row.blockers \cap HoldReasons = {} -> Enter(d, "capable", t, g, disp, "none")
    [] disp \in {"submitted", "unknown"} -> Enter(d, "post", t, g, disp, "none")
    [] disp = "accepted" -> Enter(d, "poll", t, g, disp, "none")
    [] OTHER -> Leave(d)
Drive(d) ==
  LET t == act[d].t  g == task[t].attempt IN
  /\ At(d, "drive")
  /\ IF g = 0 \/ Passive(d, task[t], att[t][g]) THEN Keep /\ Leave(d)
     ELSE /\ PutIfNew(t, Checked(t, att[t][g].disp))
          /\ IF ~grant[t] /\ att[t][g].disp # "accepted" THEN Leave(d)
             ELSE AfterSnapshot(d, t, g, att[t][g].disp, Checked(t, att[t][g].disp))
  /\ Quiet /\ UNCHANGED att

-----------------------------------------------------------------------------
(* _needs_attention and _runtime_unavailable *)
NeedsAttention(d) ==
  LET t == act[d].t  g == act[d].g  row == task[t] IN
  /\ At(d, "attention") /\ Leave(d)
  /\ IF row.phase = "closed" THEN Keep /\ UNCHANGED att
     ELSE /\ IF att[t][g].disp \in {"submitted", "prepared"} THEN Dispatch(t, g, "unknown") ELSE UNCHANGED att
          /\ PutIfNew(t, [row EXCEPT !.blockers = @ \cup {"operation_unknown"},
               !.phase = IF @ = "stopping" \/ "cancel_requested" \in row.blockers
                         THEN "stopping" ELSE "recovering"])
  /\ Quiet
RuntimeUnavailable(d) ==
  LET t == act[d].t IN
  /\ At(d, "unavailable") /\ Leave(d)
  /\ IF task[t].phase = "closed" THEN Keep
     ELSE PutIfNew(t, [task[t] EXCEPT !.blockers = @ \cup Admission, !.phase = "recovering"])
  /\ Quiet /\ UNCHANGED att

(* _submit_dispatch: the capabilities call, then the transaction that       *)
(* stamps the key and its retention before anything is sent.                *)
Capabilities(d, ok) ==
  /\ At(d, "capable") /\ GoTo(d, IF ok THEN "submit" ELSE "unavailable")
  /\ UNCHANGED <<storeVars, runtimeVars, ctl, sent>>
SubmitDispatch(d) ==
  LET t == act[d].t  g == act[d].g  row == task[t]  disp == att[t][g].disp IN
  /\ At(d, "submit")
  /\ CASE row.phase = "closed" -> Keep /\ Leave(d) /\ UNCHANGED att
       [] row.phase # "closed" /\ disp # "prepared" ->
            Keep /\ UNCHANGED att /\ AfterSnapshot(d, t, g, disp, [row EXCEPT !.blockers = {}])
       [] row.phase # "closed" /\ disp = "prepared"
            /\ (row.phase = "stopping" \/ row.blockers \cap (HoldReasons \cup {"grant_withdrawal"}) # {}) ->
            Keep /\ Leave(d) /\ UNCHANGED att
       [] OTHER ->
            IF grant[t]
            THEN Keep /\ Dispatch(t, g, "submitted") /\ Enter(d, "post", t, g, "submitted", "none")
            ELSE Put(t, [row EXCEPT !.blockers = @ \cup {"grant_withdrawal"}]) /\ Leave(d) /\ UNCHANGED att
  /\ Quiet

(* One run per key; a later request attaches to it. *)
Begun(t, g) ==
  IF run[t][g].state = "none"
  THEN Publish(t, g, [NoRun EXCEPT !.state = "running", !.starts = 1]) ELSE UNCHANGED run
(* start_or_attach: the request or its answer may be lost.                  *)
Post(d, arrives, answered) ==
  LET t == act[d].t  g == act[d].g IN
  /\ At(d, "post") /\ (answered => arrives)
  /\ IF att[t][g].expired
     THEN GoTo(d, "attention") /\ UNCHANGED run
     ELSE /\ GoTo(d, IF answered THEN "accept" ELSE "attention")
          /\ IF arrives THEN Begun(t, g) ELSE UNCHANGED run
  /\ External /\ Keep /\ UNCHANGED att
AcceptDispatch(d) ==
  LET t == act[d].t  g == act[d].g IN
  /\ At(d, "accept")
  /\ IF task[t].phase = "closed" THEN Leave(d) /\ UNCHANGED att
     ELSE GoTo(d, "poll") /\ IF att[t][g].disp = "accepted" THEN UNCHANGED att ELSE Dispatch(t, g, "accepted")
  /\ Keep /\ Quiet

-----------------------------------------------------------------------------
(* _poll_runtime: a stop when the task is stopping, then one observation.   *)
Poll(d) ==
  /\ At(d, "poll") /\ GoTo(d, IF task[act[d].t].phase = "stopping" THEN "stop" ELSE "ask")
  /\ UNCHANGED <<storeVars, runtimeVars, ctl, sent>>
(* POST /stop on the exact run of an attempt. *)
Stopped(t, g) ==
  IF run[t][g].state = "running" /\ ~run[t][g].stop
  THEN Publish(t, g, [run[t][g] EXCEPT !.stop = TRUE]) ELSE UNCHANGED run
Stop(d, ok) ==
  /\ At(d, "stop")
  /\ IF ok THEN Stopped(act[d].t, act[d].g) ELSE UNCHANGED run
  /\ GoTo(d, IF ok THEN "ask" ELSE "attention")
  /\ External /\ Keep /\ UNCHANGED att
Ask(d, ok) ==
  /\ At(d, "ask")
  /\ act' = [act EXCEPT ![d].pc = IF ok THEN "observe" ELSE "attention",
               ![d].res = IF ok THEN Observation(act[d].t, act[d].g) ELSE NoResult]
  /\ UNCHANGED <<storeVars, runtimeVars, ctl, sent>>

(* _accept_runtime_observation: an older snapshot is dropped. *)
Observe(d) ==
  LET t == act[d].t  g == act[d].g  seq == act[d].res.seq IN
  /\ At(d, "observe")
  /\ IF task[t].phase = "closed" \/ task[t].attempt # g \/ seq < att[t][g].obs
     THEN Leave(d) /\ UNCHANGED att
     ELSE GoTo(d, "supersede") /\ att' = [att EXCEPT ![t][g].obs = seq]
  /\ Keep /\ Quiet

(* _observation_is_current *)
Current(d) == att[act[d].t][act[d].g].obs = act[d].res.seq

(* _running_result: p is the permission the poll leaves pending. *)
ApplyRunning(d) ==
  LET t == act[d].t  row == task[t]
      p == CASE act[d].why = "stale" -> row.perm
             [] act[d].why = "denied" -> 0
             [] OTHER -> act[d].res.perm IN
  /\ At(d, "apply") /\ act[d].res.state = "running" /\ Leave(d)
  /\ IF row.phase \in {"closed", "stopping"} \/ row.attempt # act[d].g \/ ~Current(d) THEN Keep
     ELSE PutIfNew(t, [row EXCEPT !.phase = "active", !.perm = p, !.blockers = @ \ (Doubts \cup Admission)])
  /\ Quiet /\ UNCHANGED att

(* _finish_work: a paused run gives its attempt up and waits again. *)
ApplyTerminal(d) ==
  LET t == act[d].t  g == act[d].g  row == task[t]  state == act[d].res.state
      left == row.blockers \ Doubts IN
  /\ At(d, "apply") /\ state \in {"completed", "failed", "cancelled"} /\ Leave(d)
  /\ IF row.phase = "closed" \/ att[t][g].disp # "accepted" \/ row.attempt # g \/ ~Current(d)
     THEN Keep /\ UNCHANGED att
     ELSE /\ att' = [att EXCEPT ![t][g].disp = "closed", ![t][g].current = FALSE]
          /\ Put(t, IF state = "cancelled" /\ "human_pause" \in left /\ "cancel_requested" \notin left
                    THEN [row EXCEPT !.phase = "queued", !.attempt = 0, !.blockers = left]
                    ELSE [row EXCEPT !.phase = "closed", !.blockers = left, !.perm = 0,
                            !.outcome = TerminalOutcome(row, state), !.result = act[d].res.claim])
  /\ Quiet
(* An unknown state is never a terminal one. *)
ApplyUnknown(d) ==
  /\ At(d, "apply") /\ act[d].res.state = "unknown" /\ GoTo(d, "attention")
  /\ UNCHANGED <<storeVars, runtimeVars, ctl, sent>>

-----------------------------------------------------------------------------
(* The owner. A work command commits the intent with its receipt; a hold    *)
(* reads the attempt and its dispatch in the same transaction and settles   *)
(* the stop outside it.                                                     *)
Reason(kind) == IF kind = "pause" THEN "human_pause" ELSE "cancel_requested"
Snapshot(t) == IF task[t].attempt = 0 THEN "none" ELSE att[t][task[t].attempt].disp
Held(row, reason) ==
  [row EXCEPT !.blockers = @ \cup {reason}, !.phase = IF row.attempt # 0 THEN "stopping" ELSE @]
Resumed(row) == [row EXCEPT !.blockers = @ \ {"human_pause", "grant_withdrawal"}]

PutWithCommand(k, t, kind, row) ==
  /\ task' = [task EXCEPT ![t] = row]
  /\ work' = [work EXCEPT ![t] = Reconciled(@, row)]
  /\ cmd' = [j \in Commands |->
       IF j = k THEN Answered([t |-> t, kind |-> kind, state |-> "received"], row)
       ELSE IF cmd[j].t = t THEN Answered(cmd[j], row) ELSE cmd[j]]

(* apply_command; a queued task is cancelled in the same transaction. *)
Command(o, k, t, kind) ==
  LET row == task[t]
      closes == kind = "cancel" /\ row.attempt = 0
      held == Held(row, Reason(kind)) IN
  /\ At(o, "idle") /\ cmd[k].t = "none" /\ grant[t]
  /\ work[t].managed /\ row.phase \notin {"none", "closed"}
  /\ IF kind = "resume"
     THEN /\ row.phase # "stopping" /\ "cancel_requested" \notin row.blockers
          /\ "human_pause" \in row.blockers
          /\ PutWithCommand(k, t, kind, Resumed(row)) /\ UNCHANGED act
     ELSE /\ PutWithCommand(k, t, kind, IF closes THEN [held EXCEPT !.phase = "closed", !.outcome = "cancelled"]
                                        ELSE held)
          /\ Enter(o, "hold", t, row.attempt, Snapshot(t), Reason(kind))
  /\ Quiet /\ UNCHANGED att

(* Service.cancel, pause and resume: a task without a work item. *)
Hold(o, t, kind) ==
  LET row == task[t] IN
  /\ At(o, "idle") /\ grant[t] /\ ~work[t].managed /\ row.phase \notin {"none", "closed"}
  /\ IF kind = "resume"
     THEN /\ row.phase # "stopping" /\ "cancel_requested" \notin row.blockers
          /\ Put(t, Resumed(row)) /\ UNCHANGED act
     ELSE /\ Put(t, Held(row, Reason(kind)))
          /\ Enter(o, "hold", t, row.attempt, Snapshot(t), Reason(kind))
  /\ Quiet /\ UNCHANGED att

(* _finish_hold, _stop_attempt: g and seen are the snapshot. *)
SettleStop(a, ok) ==
  LET t == act[a].t  g == act[a].g IN
  /\ At(a, "hold")
  /\ IF act[a].seen = "accepted" /\ ok /\ task[t].phase # "closed"
     THEN Stopped(t, g) ELSE UNCHANGED run
  /\ IF task[t].phase = "closed" THEN Leave(a)
     ELSE act' = [act EXCEPT ![a].pc = "held", ![a].seen =
            CASE act[a].seen = "none" \/ act[a].seen = "prepared" -> "unsent"
              [] act[a].seen = "closed" \/ (act[a].seen = "accepted" /\ ok) -> "stopped"
              [] act[a].seen = "accepted" /\ ~ok -> "unstopped"
              [] OTHER -> "unknown"]
  /\ External /\ Keep /\ UNCHANGED att

(* _held_state: latest is the dispatch of the attempt the task has now. *)
HeldState(a) ==
  LET t == act[a].t  g == act[a].g  row == task[t]  n == row.attempt
      latest == Snapshot(t) IN
  /\ At(a, "held") /\ Leave(a)
  /\ CASE row.phase = "closed" -> Keep /\ UNCHANGED att
       [] row.phase # "closed" /\ act[a].seen \in {"unstopped", "unknown"} ->
            /\ Put(t, [row EXCEPT !.phase = "stopping", !.blockers = @ \cup
                 {IF act[a].seen = "unstopped" THEN "runtime_stop" ELSE "operation_unknown"}])
            /\ UNCHANGED att
       [] row.phase # "closed" /\ act[a].seen = "stopped" /\ latest = "accepted" -> Keep /\ UNCHANGED att
       [] OTHER ->
            IF act[a].why = "cancel_requested"
            THEN /\ att' = [h \in Tasks |-> IF h # t THEN att[h] ELSE
                      [k \in Attempts |-> [att[t][k] EXCEPT !.current = @ /\ k # g,
                                             !.disp = IF k = n THEN "closed" ELSE @]]]
                 /\ Put(t, [row EXCEPT !.phase = "closed", !.outcome = "cancelled"])
            ELSE /\ Put(t, [row EXCEPT !.phase = IF g # 0 THEN "active" ELSE "queued"])
                 /\ UNCHANGED att
  /\ Quiet

-----------------------------------------------------------------------------
Endings == ({"completed"} \X Claims) \cup ((Verdicts \ {"completed"}) \X {"none"})
Choices == {<<"guidance", "none">>, <<"permission", "once">>, <<"permission", "deny">>}
Runtime ==
  \E t \in Tasks, g \in Attempts :
    \/ RaisePermission(t, g)
    \/ \E e \in Endings : Finish(t, g, e[1], e[2])
    \/ ExpireRetention(t, g)
Notes == \E c \in Controls : ApplyNote(c)
Admissions == \E t \in Tasks : Grant(t) \/ \E managed \in BOOLEAN : Submit(t, managed)

Driver(d) ==
  \/ \E t \in Tasks : Advance(d, t)
  \/ \E ok \in BOOLEAN : Describe(d, ok) \/ Capabilities(d, ok) \/ Stop(d, ok) \/ Ask(d, ok)
  \/ Claim(d) \/ Drive(d) \/ NeedsAttention(d) \/ RuntimeUnavailable(d) \/ SubmitDispatch(d)
  \/ \E arrives \in BOOLEAN, answered \in BOOLEAN : Post(d, arrives, answered)
  \/ AcceptDispatch(d) \/ Poll(d) \/ Observe(d) \/ CloseSuperseded(d) \/ MarkRetry(d)
  \/ \E arrives, lost \in BOOLEAN : RetryDenial(d, arrives, lost)
  \/ RecordDenial(d) \/ MergeObserved(d)
  \/ ApplyRunning(d) \/ ApplyTerminal(d) \/ ApplyUnknown(d)
Refresh == \E t \in Tasks, g \in Attempts : RefreshGuidance(t, g)

Asked(o) ==
  At(o, "idle") /\ \E t \in Tasks :
    \/ \E k \in Commands, kind \in Kinds : Command(o, k, t, kind)
    \/ \E kind \in Kinds : Hold(o, t, kind)
    \/ \E c \in Controls, ch \in Choices : SubmitControl(o, c, t, ch[1], ch[2])
Owner(o) ==
  \/ Asked(o)
  \/ \E arrives, lost \in BOOLEAN : InvokeControl(o, arrives, lost)
  \/ RecordControl(o) \/ MergeReceipt(o)
Settle(a) == (\E ok \in BOOLEAN : SettleStop(a, ok)) \/ HeldState(a) \/ Crash(a)

Next ==
  \/ Runtime \/ Notes \/ Admissions \/ Refresh
  \/ \E d \in Drivers : Driver(d)
  \/ \E o \in Operators : Owner(o)
  \/ \E a \in Actors : Settle(a)

Spec == Init /\ [][Next]_vars

-----------------------------------------------------------------------------
TypeOK ==
  /\ StoreTypeOK
  /\ \A t \in Tasks, g \in Attempts : run[t][g].state \in RunStates /\ run[t][g].starts \in 0..1
  /\ \A c \in Controls : ctl[c].rev \in Nat /\ ctl[c].t \in Tasks \cup {"none"}
  /\ \A a \in Actors : act[a].t \in Tasks \cup {"none"} /\ act[a].g \in 0..Budget

(* One run at a time for a task, and for a resource two tasks share; and    *)
(* none outlives its task: a closed task has no run going and no thread     *)
(* that may still start one. The attempt's reservation, the key of the run  *)
(* and the refusal to close while a dispatch is unsettled are what keep it. *)
RunsAreFenced ==
  /\ \A t, u \in Tasks, g, h \in Attempts :
       (run[t][g].state = "running" /\ run[u][h].state = "running"
          /\ (t = u \/ (Resource[t] = Resource[u] /\ Resource[t] # NoResource)))
         => t = u /\ g = h
  /\ \A t \in Tasks : task[t].phase = "closed" =>
       /\ \A g \in Attempts : run[t][g].state # "running"
       /\ \A d \in Drivers : act[d].t = t /\ At(d, "post") =>
             run[t][act[d].g].state # "none"

(* What a closed task and its work item say is what happened: a completed   *)
(* task has the output of the run of its last attempt and no cancel was     *)
(* requested; a cancel whose receipt says applied closed the task as        *)
(* cancelled; completed work keeps an artifact of that same attempt; every  *)
(* attempt was paid for once.                                               *)
OutcomesAreEarned ==
  \A t \in Tasks :
    LET row == task[t] IN
    /\ row.phase # "none" => row.gen + row.budget = Budget
    /\ row.outcome = "completed" =>
         /\ "cancel_requested" \notin row.blockers
         /\ run[t][row.attempt].state = "completed" /\ run[t][row.attempt].claim = row.result
    /\ \A k \in Commands : cmd[k].t = t /\ cmd[k].kind = "cancel" /\ cmd[k].state = "applied" =>
         row.phase = "closed" /\ row.outcome = "cancelled"
    /\ work[t].state = "completed" =>
         /\ row.outcome = "completed" /\ work[t].artifact = row.attempt
         /\ run[t][row.attempt].claim = "delivered"

(* A control is sent once; a denial whose answer was lost is sent twice.     *)
(* An answered control does not also leave its request pending.             *)
ControlsAreSentOnce ==
  \A c \in Controls :
    /\ sent[c] <= IF ctl[c].choice = "deny" /\ ctl[c].retried THEN 2 ELSE 1
    /\ ctl[c].state = "none" => sent[c] = 0

(* Nothing settled is reopened by a late poll, answer or receipt: a closed  *)
(* task keeps its outcome, result and work, and of its row only a request   *)
(* for permission it was cancelled with may still be withdrawn; an applied  *)
(* or superseded control and a final receipt of the runtime keep what they  *)
(* say, the cursor of an attempt never goes back.                           *)
NothingReopens ==
  [][/\ \A t \in Tasks : task[t].phase = "closed" =>
          /\ task'[t] = [task[t] EXCEPT !.perm = task'[t].perm]
          /\ task'[t].perm \in {0, task[t].perm}
          /\ work'[t] = work[t]
     /\ \A c \in Controls :
          /\ ctl[c].src = "runtime" /\ ctl[c].final => ctl'[c] = ctl[c]
          /\ ctl[c].state = "superseded" => ctl'[c].state = "superseded"
          /\ ctl'[c].rev >= ctl[c].rev
     /\ \A t \in Tasks, g \in Attempts : att'[t][g].obs >= att[t][g].obs]_vars

(* A cancel that was asked for is settled without its thread: whenever no   *)
(* thread is inside, the coordinator still takes the task up as one it must *)
(* stop ("Intent and wakeup are already durable; restart can settle the     *)
(* same exact stop if this local response or process is lost").             *)
CancelOutlivesItsThread ==
  (\A a \in Actors : At(a, "idle")) =>
    \A t \in Tasks : "cancel_requested" \in task[t].blockers /\ work[t].managed
      => task[t].phase \in {"stopping", "closed"}
=============================================================================
