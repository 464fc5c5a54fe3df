---------------------------- MODULE TaskControls ----------------------------
(***************************************************************************)
(* The agent runtime as the task engine sees it, and the human controls     *)
(* sent to a live run: guidance and answers to permission requests          *)
(* (src/radhouse/integrations/hermes.py, HermesAgentWorkAdapter;            *)
(* application/runtime_controls.py; application/guidance.py).               *)
(*                                                                         *)
(* A control is saved, sent outside the transaction, and its outcome saved. *)
(* A poll of the run may meanwhile have seen a newer receipt, or a later    *)
(* permission request.                                                      *)
(***************************************************************************)
EXTENDS TaskStore

CONSTANTS
  Drivers,     \* threads that run the coordinator's advance
  Operators,   \* request threads of the owner
  Controls,    \* command keys of controls
  MaxSeq,      \* observations a run may publish
  MaxPerm      \* permission requests a run may raise

ASSUME RequestAssumption == MaxPerm \in Nat

VARIABLES
  run,   \* run[t][g]: the runtime's run under key g of task t
  note,  \* note[c]: the runtime's receipt for guidance c
  ctl,   \* ctl[c]: the control kept in the task's guidance list
  sent,  \* sent[c]: calls made for control c (read by properties only)
  act    \* act[a]: where thread a is between two transactions

runtimeVars == <<run, note>>
Actors == Drivers \cup Operators

Verdicts == {"completed", "failed", "cancelled", "interrupted"}
RunStates == {"none", "running"} \cup Verdicts
NoteStates == {"accepted", "applied", "too_late", "not_applied"}
NoRun == [state |-> "none", seq |-> 0, perm |-> 0, asked |-> 0, stop |-> FALSE,
          starts |-> 0, claim |-> "none"]
NoNote == [t |-> "none", g |-> 0, state |-> "none", rev |-> 0]
NoControl == [t |-> "none", g |-> 0, kind |-> "none", req |-> 0, choice |-> "none",
              state |-> "none", app |-> "none", rev |-> 0, final |-> FALSE,
              src |-> "none", retried |-> FALSE]
NoResult == [state |-> "none", seq |-> 0, perm |-> 0, claim |-> "none", notes |-> <<>>]
Idle == [pc |-> "idle", t |-> "none", g |-> 0, seen |-> "none", why |-> "none", res |-> NoResult]

RuntimeInit ==
  /\ run = [t \in Tasks |-> [g \in Attempts |-> NoRun]]
  /\ note = [c \in Controls |-> NoNote]
ControlsInit ==
  /\ ctl = [c \in Controls |-> NoControl]
  /\ sent = [c \in Controls |-> 0]
  /\ act = [a \in Actors |-> Idle]

At(a, pc) == act[a].pc = pc
GoTo(a, pc) == act' = [act EXCEPT ![a].pc = pc]
Leave(a) == act' = [act EXCEPT ![a] = Idle]

-----------------------------------------------------------------------------
(* The runtime. Every change of a run is published under the next sequence  *)
(* number; what it publishes is read whole by result().                     *)

Publish(t, g, r) == run' = [run EXCEPT ![t][g] = [r EXCEPT !.seq = @ + 1]]

(* No two runs of a task use one request identity.                          *)
RaisePermission(t, g) ==
  LET r == run[t][g] IN
  /\ r.state = "running" /\ r.perm = 0 /\ r.asked < MaxPerm /\ r.seq < MaxSeq
  /\ Publish(t, g, [r EXCEPT !.perm = (g - 1) * MaxPerm + r.asked + 1, !.asked = @ + 1])
  /\ UNCHANGED <<storeVars, note, ctl, sent, act>>

(* A run ends, with the controls it did not use; only a stop cancels it.    *)
Finish(t, g, state, claim) ==
  LET r == run[t][g] IN
  /\ r.state = "running" /\ (state = "cancelled" => r.stop)
  /\ Publish(t, g, [r EXCEPT !.state = state, !.perm = 0,
                             !.claim = IF state = "completed" THEN claim ELSE "none"])
  /\ note' = [c \in Controls |->
                IF note[c].t = t /\ note[c].g = g /\ note[c].state = "accepted"
                THEN [note[c] EXCEPT !.state = "not_applied", !.rev = @ + 1] ELSE note[c]]
  /\ UNCHANGED <<storeVars, ctl, sent, act>>

(* The model answered at a checkpoint after the guidance was accepted.      *)
ApplyNote(c) ==
  LET n == note[c] IN
  /\ n.state = "accepted" /\ run[n.t][n.g].state = "running" /\ run[n.t][n.g].seq < MaxSeq
  /\ note' = [note EXCEPT ![c].state = "applied", ![c].rev = @ + 1]
  /\ Publish(n.t, n.g, run[n.t][n.g])
  /\ UNCHANGED <<storeVars, ctl, sent, act>>

(* HermesAgentWorkAdapter.result: one published observation.                *)
Observation(t, g) ==
  [state |-> IF run[t][g].state = "interrupted" THEN "unknown" ELSE run[t][g].state,
   seq |-> run[t][g].seq, perm |-> run[t][g].perm, claim |-> run[t][g].claim,
   notes |-> [c \in {c \in Controls : note[c].t = t /\ note[c].g = g} |-> note[c]]]

(* POST /steer: a receipt under the control's identity, once.               *)
Steered(c, t, g) ==
  IF note[c].t # "none" THEN note
  ELSE [note EXCEPT ![c] = [t |-> t, g |-> g, rev |-> 1,
          state |-> IF run[t][g].state = "running" THEN "accepted" ELSE "too_late"]]
(* POST /approval: resolves exactly the pending request. *)
Resolves(t, g, req) == run[t][g].state = "running" /\ run[t][g].perm = req

-----------------------------------------------------------------------------
Entries(t) == {c \in Controls : ctl[c].t = t}

(* _check_guidance_transport, _submit_control: the control and its intent   *)
(* commit before anything is sent. A repeated key finds its entry and sends *)
(* nothing.                                                                 *)
Accepts(t) ==
  LET row == task[t] IN
  /\ row.phase = "active" /\ row.blockers = {} /\ row.attempt # 0
  /\ att[t][row.attempt].disp = "accepted" /\ grant[t]
  /\ \A c \in Entries(t) : ctl[c].state \notin {"submitted", "unknown"}
SubmitControl(o, c, t, kind, choice) ==
  /\ At(o, "idle") /\ ctl[c].t = "none" /\ Accepts(t)
  /\ IF kind = "guidance" THEN task[t].perm = 0
     ELSE /\ task[t].perm # 0
          /\ \A d \in Entries(t) : ctl[d].kind = "permission" /\ ctl[d].g = task[t].attempt
                                     => ctl[d].req # task[t].perm
  /\ ctl' = [ctl EXCEPT ![c] = [NoControl EXCEPT
               !.t = t, !.g = task[t].attempt, !.kind = kind, !.choice = choice,
               !.req = IF kind = "permission" THEN task[t].perm ELSE 0, !.state = "submitted"]]
  /\ act' = [act EXCEPT ![o] = [Idle EXCEPT !.pc = "invoke", !.t = t, !.g = task[t].attempt, !.why = c]]
  /\ Put(t, task[t])
  /\ UNCHANGED <<att, grant, runtimeVars, sent>>

(* _invoke_control: the call, which may not arrive, or whose answer may be   *)
(* lost; an approval that does not match the pending request is an error of  *)
(* the gateway.                                                             *)
InvokeControl(o, arrives, lost) ==
  LET a == act[o]  c == a.why  resolves == arrives /\ Resolves(a.t, a.g, ctl[c].req) IN
  /\ At(o, "invoke") /\ (~arrives => lost)
  /\ sent' = [sent EXCEPT ![c] = @ + 1]
  /\ IF ctl[c].kind = "guidance"
     THEN /\ note' = IF arrives THEN Steered(c, a.t, a.g) ELSE note
          /\ IF note' = note THEN UNCHANGED run ELSE Publish(a.t, a.g, run[a.t][a.g])
          /\ act' = [act EXCEPT ![o].pc = "record",
                       ![o].seen = CASE lost -> "unknown"
                                     [] ~lost /\ note'[c].state = "too_late" -> "rejected"
                                     [] OTHER -> "accepted",
                       ![o].res = IF lost THEN NoResult ELSE [NoResult EXCEPT !.notes = [e \in {c} |-> note'[e]]]]
     ELSE /\ UNCHANGED note
          /\ IF resolves
             THEN Publish(a.t, a.g, [run[a.t][a.g] EXCEPT !.perm = 0]) ELSE UNCHANGED run
          /\ act' = [act EXCEPT ![o].pc = "record",
                       ![o].seen = IF lost \/ ~resolves THEN "unknown" ELSE "accepted"]
  /\ UNCHANGED <<storeVars, ctl>>

(* _record_control_outcome: a receipt a poll has already merged stays.      *)
RecordControl(o) ==
  LET a == act[o]  c == a.why  t == a.t IN
  /\ At(o, "record")
  /\ ctl' = IF ctl[c].rev # 0 THEN ctl ELSE [ctl EXCEPT ![c].state = a.seen]
  /\ Put(t, [task[t] EXCEPT !.perm =
        IF ctl[c].kind = "permission" /\ a.seen = "accepted" /\ @ = ctl[c].req THEN 0 ELSE @])
  /\ act' = [act EXCEPT ![o].pc = IF a.res = NoResult THEN "idle" ELSE "receipt"]
  /\ UNCHANGED <<att, grant, runtimeVars, sent>>

-----------------------------------------------------------------------------
(* guidance.reconcile *)

\* Mutant: the receipt of the POST overwrites what a poll has merged.
Merged_Latest(e, n) ==
  [e EXCEPT !.app = n.state, !.rev = n.rev, !.src = "runtime", !.final = n.state # "accepted"]
(* _merge_receipt *)
Merged(e, n) ==
  IF n.rev < e.rev \/ (n.rev = e.rev /\ e.src = "runtime") THEN e
  ELSE [e EXCEPT !.app = n.state, !.rev = n.rev, !.src = "runtime",
                 !.final = n.state # "accepted",
                 !.state = IF n.state = "too_late" THEN "rejected" ELSE "accepted"]
(* The runtime changed what it had said was final, or said two things under *)
(* one revision: the transaction fails.                                     *)
Conflicts(e, n) ==
  \/ n.rev = e.rev /\ e.src = "runtime" /\ n.state # e.app
  \/ n.rev > e.rev /\ e.final /\ e.src = "runtime"

(* _settle_missing_entries: uncertainty, which a later receipt may resolve  *)
(* until the dispatch's retention ends.                                     *)
Settled(e, lapsed) ==
  IF e.final THEN e ELSE [e EXCEPT !.app = "unknown", !.final = lapsed, !.src = "controller"]

(* c's receipt among notes, if there is one; then the settling of a run     *)
(* that has ended.                                                          *)
ReconciledControl(c, t, g, notes, terminal, lapsed) ==
  IF ~(ctl[c].t = t /\ ctl[c].g = g /\ ctl[c].kind = "guidance") THEN ctl[c]
  ELSE LET e == IF c \in DOMAIN notes THEN Merged(ctl[c], notes[c]) ELSE ctl[c]
       IN IF terminal THEN Settled(e, lapsed) ELSE e
Reconcile(t, g, notes, terminal, lapsed) ==
  /\ \A c \in DOMAIN notes : ctl[c].t = t /\ ~Conflicts(ctl[c], notes[c])
  /\ ctl' = [c \in Controls |-> ReconciledControl(c, t, g, notes, terminal, lapsed)]

(* control: the receipt of the POST itself is merged last. *)
MergeReceipt(o) ==
  LET a == act[o] IN
  /\ At(o, "receipt")
  /\ Reconcile(a.t, a.g, a.res.notes, FALSE, FALSE)
  /\ Leave(o)
  /\ Put(a.t, task[a.t])
  /\ UNCHANGED <<att, grant, runtimeVars, sent>>

(* pending, refresh_guidance: receipts of any attempt of the task are read  *)
(* back under its original dispatch, or given up with its retention.        *)
Pending(t, g) == \E c \in Entries(t) : ctl[c].g = g /\ ctl[c].kind = "guidance" /\ ~ctl[c].final
RefreshGuidance(t, g) ==
  LET r == Observation(t, g)  lapsed == att[t][g].expired IN
  /\ Pending(t, g) /\ att[t][g].disp \in {"accepted", "closed"}
  /\ IF lapsed THEN Reconcile(t, g, <<>>, TRUE, TRUE)
     ELSE Reconcile(t, g, r.notes, r.state # "running", FALSE)
  /\ ctl' # ctl
  /\ Put(t, task[t])
  /\ UNCHANGED <<att, grant, runtimeVars, sent, act>>

-----------------------------------------------------------------------------
(* reconcile_pending_denial, inside a driver's poll; p is the request the   *)
(* poll observed.                                                           *)
LostDenials(t, g) ==
  {c \in Entries(t) : ctl[c].kind = "permission" /\ ctl[c].choice = "deny"
                        /\ ctl[c].state = "unknown" /\ ctl[c].g = g}

(* _close_superseded_denial: the same run has reached a later request.      *)
CloseSuperseded(d) ==
  LET a == act[d]  p == a.res.perm
      late == {c \in LostDenials(a.t, a.g) : ctl[c].req # p} IN
  /\ At(d, "supersede")
  /\ IF p # 0 /\ task[a.t].perm = p /\ Cardinality(late) = 1
     THEN ctl' = [c \in Controls |-> IF c \in late THEN [ctl[c] EXCEPT !.state = "superseded"] ELSE ctl[c]]
     ELSE UNCHANGED ctl
  /\ GoTo(d, "deny")
  /\ IF ctl' # ctl THEN Put(a.t, task[a.t]) ELSE UNCHANGED <<task, work, cmd>>
  /\ UNCHANGED <<att, grant, runtimeVars, sent>>

\* Mutant: a denial is retried for as long as its answer is lost.
Retryable_Always(t, g, p) == {c \in LostDenials(t, g) : ctl[c].req = p}
Retryable(t, g, p) == {c \in LostDenials(t, g) : ctl[c].req = p /\ ~ctl[c].retried}
(* One retry of a lost denial is committed before it is sent. *)
MarkRetry(d) ==
  LET a == act[d]  p == a.res.perm  same == Retryable(a.t, a.g, p) IN
  /\ At(d, "deny")
  /\ IF p # 0 /\ task[a.t].perm = p /\ Cardinality(same) = 1
     THEN \E c \in same :
            /\ ctl' = [ctl EXCEPT ![c].retried = TRUE]
            /\ act' = [act EXCEPT ![d].pc = "denying", ![d].why = c]
            /\ Put(a.t, task[a.t])
     ELSE GoTo(d, "guide") /\ UNCHANGED <<ctl, task, work, cmd>>
  /\ UNCHANGED <<att, grant, runtimeVars, sent>>
RetryDenial(d, arrives, lost) ==
  LET a == act[d]  resolves == arrives /\ Resolves(a.t, a.g, a.res.perm) IN
  /\ At(d, "denying") /\ (~arrives => lost)
  /\ sent' = [sent EXCEPT ![a.why] = @ + 1]
  /\ IF resolves
     THEN Publish(a.t, a.g, [run[a.t][a.g] EXCEPT !.perm = 0]) ELSE UNCHANGED run
  /\ act' = [act EXCEPT ![d].pc = "denied",
               ![d].seen = IF lost \/ ~resolves THEN "unknown" ELSE "accepted"]
  /\ UNCHANGED <<storeVars, note, ctl>>

(* _record_denial_outcome; why becomes what the poll does with the          *)
(* permission it observed.                                                  *)
RecordDenial(d) ==
  LET a == act[d]  c == a.why  match == task[a.t].perm = a.res.perm IN
  /\ At(d, "denied")
  /\ IF ctl[c].state = "superseded"
     THEN /\ UNCHANGED <<ctl, task, work, cmd>>
          /\ act' = [act EXCEPT ![d].pc = "guide", ![d].why = "stale"]
     ELSE /\ ctl' = [ctl EXCEPT ![c].state = a.seen]
          /\ Put(a.t, [task[a.t] EXCEPT !.perm = IF a.seen = "accepted" /\ match THEN 0 ELSE @])
          /\ act' = [act EXCEPT ![d].pc = "guide",
                       ![d].why = CASE a.seen = "accepted" /\ match -> "denied"
                                    [] ~match -> "stale"
                                    [] OTHER -> "none"]
  /\ UNCHANGED <<att, grant, runtimeVars, sent>>

(* The receipts of the observation are merged before it is applied.         *)
MergeObserved(d) ==
  LET a == act[d] IN
  /\ At(d, "guide")
  /\ Reconcile(a.t, a.g, a.res.notes, a.res.state # "running", FALSE)
  /\ GoTo(d, "apply")
  /\ IF ctl' # ctl THEN Put(a.t, task[a.t]) ELSE UNCHANGED <<task, work, cmd>>
  /\ UNCHANGED <<att, grant, runtimeVars, sent>>
=============================================================================
