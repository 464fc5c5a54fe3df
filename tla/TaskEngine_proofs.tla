------------------------- MODULE TaskEngine_proofs -------------------------
(***************************************************************************)
(* What holds of the task engine for any number of tasks, coordinator and  *)
(* request threads, commands and controls.  What the rows, the runs and    *)
(* the threads between two transactions are to each other comes first      *)
(* (EngineInv); most steps then only have to show that they are mild: they *)
(* leave reservations and attempt numbers alone, and lose no intent.       *)
(***************************************************************************)
EXTENDS TaskEngine, TLAPS

USE BudgetAssumption, TaskAssumption, RequestAssumption, WorkerAssumption

-----------------------------------------------------------------------------
(* The rows, the runs and the threads as records.                          *)

RunResults == Claims \cup {"none"}
TaskRow == [phase : Phases, outcome : Outcomes, blockers : SUBSET Blockers,
            attempt : 0..Budget, gen : 0..Budget, budget : 0..Budget,
            perm : Nat, result : RunResults]
AttRow == [current : BOOLEAN, worker : Workers \cup {"none"}, disp : DispatchStates,
           expired : BOOLEAN, obs : Nat]
WorkStates == {"none", "queued", "active", "waiting", "paused", "stopping",
               "completed", "failed", "cancelled"}
WorkRow == [managed : BOOLEAN, verified : BOOLEAN, artifact : 0..Budget, state : WorkStates]
CmdRow == [t : Tasks \cup {"none"}, kind : Kinds \cup {"none"},
           state : {"none", "received", "applied"}]
RunRow == [state : RunStates, seq : Nat, perm : Nat, asked : Nat, stop : BOOLEAN,
           starts : 0..1, claim : RunResults]
NoteRow == [t : Tasks \cup {"none"}, g : 0..Budget, state : NoteStates \cup {"none"}, rev : Nat]
CtlKinds == {"none", "guidance", "permission"}
CtlStates == {"none", "submitted", "unknown", "accepted", "rejected", "superseded"}
CtlRow == [t : Tasks \cup {"none"}, g : 0..Budget, kind : CtlKinds, req : Nat,
           choice : {"none", "once", "deny"}, state : CtlStates,
           app : NoteStates \cup {"none", "unknown"}, rev : Nat, final : BOOLEAN,
           src : {"none", "runtime", "controller"}, retried : BOOLEAN]
\* A receipt once it was given, and the receipts an observation carries.
GivenRow == {n \in NoteRow : n.rev # 0}
Receipts == UNION {[S -> GivenRow] : S \in SUBSET Controls}
ResRow == [state : RunStates \cup {"unknown"}, seq : Nat, perm : Nat, claim : RunResults,
           notes : Receipts]

\* Where a thread is between two of its transactions: before and after its
\* dispatch was sent, or elsewhere.
BeforeSubmit == {"capable", "submit", "unavailable"}
AfterSubmit == {"post", "accept", "poll", "stop", "ask", "observe", "supersede", "deny",
                "denying", "denied", "guide", "apply", "attention"}
WithTask == {"describe", "claim", "drive", "invoke", "record", "receipt", "hold", "held"}
                \cup BeforeSubmit \cup AfterSubmit
Reasons == {"none", "own", "any", "stale", "denied", "human_pause", "cancel_requested"}
Sightings == DispatchStates \cup {"unsent", "stopped", "unstopped", "rejected"}
ActRow == [pc : WithTask \cup {"idle"}, t : Tasks \cup {"none"}, g : 0..Budget, seen : Sightings,
           why : Reasons \cup Controls, res : ResRow]

EngineTypes ==
  /\ task \in [Tasks -> TaskRow]
  /\ att \in [Tasks -> [Attempts -> AttRow]]
  /\ work \in [Tasks -> WorkRow]
  /\ cmd \in [Commands -> CmdRow]
  /\ grant \in [Tasks -> BOOLEAN]
  /\ run \in [Tasks -> [Attempts -> RunRow]]
  /\ note \in [Controls -> NoteRow]
  /\ ctl \in [Controls -> CtlRow]
  /\ sent \in [Controls -> Nat]
  /\ act \in [Actors -> ActRow]

-----------------------------------------------------------------------------
(* What the rows, the runs and the threads are to each other.              *)

Begins == {"none", "prepared"}
Unsettled == {"prepared", "submitted", "unknown"}
Terminal == {"completed", "failed", "cancelled"}

\* A reservation is the task's own attempt, a run is only where it was asked
\* for, and what runs or may still be started is reserved.
AttemptsFit ==
  \A t \in Tasks, g \in Attempts :
    /\ att[t][g].current = TRUE =>
         /\ g = task[t].attempt /\ task[t].phase \notin {"none", "closed"}
         /\ att[t][g].disp \notin {"none", "closed"}
    /\ att[t][g].disp \in Unsettled => att[t][g].current = TRUE
    /\ g > task[t].gen => att[t][g] = NoAttempt
    /\ run[t][g].state # "none" => att[t][g].disp \notin Begins
    /\ run[t][g].state = "running" => att[t][g].current = TRUE

\* An open task that has an attempt holds its reservation.
RowsFit ==
  \A t \in Tasks :
    /\ task[t].phase = "none" => task[t] = NoRow
    /\ task[t].phase # "none" => task[t].gen + task[t].budget = Budget
    /\ task[t].attempt <= task[t].gen
    /\ task[t].attempt # 0 /\ task[t].phase # "closed" => att[t][task[t].attempt].current = TRUE

\* Two tasks on one resource are not reserved at once.
Related(t, u) == Resource[t] = Resource[u] /\ Resource[t] # NoResource
ResourcesFit ==
  \A t, u \in Tasks, g, h \in Attempts :
    t # u /\ Related(t, u) => ~(att[t][g].current = TRUE /\ att[u][h].current = TRUE)

\* What the thread of a cancel has seen still is so.
CancelStands(a) ==
  LET t == act[a].t  g == act[a].g  seen == act[a].seen IN
  /\ "cancel_requested" \in task[t].blockers /\ task[t].attempt = g
  /\ At(a, "hold") =>
       /\ seen # "closed"
       /\ seen = "none" => g = 0
       /\ seen \in {"prepared", "accepted"} => g # 0 /\ att[t][g].disp = seen
  /\ At(a, "held") =>
       /\ seen \in {"unsent", "stopped", "unstopped", "unknown"}
       /\ seen = "unsent" => g = 0 \/ att[t][g].disp = "prepared"
       /\ seen = "stopped" => g # 0 /\ att[t][g].disp = "accepted"

\* What a thread holds while it is between two transactions.
ThreadFits(a) ==
  LET t == act[a].t  g == act[a].g IN
  /\ ~At(a, "idle") => t \in Tasks /\ task[t].phase # "none"
  /\ act[a].pc \in BeforeSubmit \cup AfterSubmit => g \in Attempts /\ g <= task[t].gen
  /\ act[a].pc \in AfterSubmit => att[t][g].disp \notin Begins
  /\ act[a].pc \in {"invoke", "record", "receipt"} =>
       g \in Attempts /\ g <= task[t].gen /\ att[t][g].disp \notin Begins
  /\ At(a, "post") => att[t][g].current = TRUE \/ run[t][g].state # "none"
  /\ act[a].pc \in {"hold", "held"} /\ act[a].why = "cancel_requested" /\ task[t].phase # "closed"
       => CancelStands(a)
  /\ act[a].res.state \in Terminal =>
       /\ t \in Tasks /\ g \in Attempts
       /\ run[t][g].state = act[a].res.state /\ run[t][g].claim = act[a].res.claim
ThreadsFit == \A a \in Actors : ThreadFits(a)

\* A receipt of the runtime names the run it was given to.
NotesFit ==
  \A c \in Controls : note[c] # NoNote =>
    /\ note[c].t \in Tasks /\ note[c].g \in Attempts
    /\ note[c].state # "none" /\ note[c].rev # 0
    /\ att[note[c].t][note[c].g].disp \notin Begins

\* What a closed row and its work say.
ClosedFit ==
  \A t \in Tasks :
    LET row == task[t] IN
    /\ row.phase # "closed" => row.outcome = "none"
    /\ row.phase = "none" => work[t] = NoWork
    /\ work[t].managed = FALSE => work[t] = NoWork
    /\ work[t].verified = TRUE => row.phase = "closed"
    /\ row.phase = "closed" /\ work[t].managed = TRUE => work[t].verified = TRUE
    /\ row.outcome = "completed" =>
         /\ "cancel_requested" \notin row.blockers /\ row.attempt \in Attempts
         /\ run[t][row.attempt].state = "completed" /\ run[t][row.attempt].claim = row.result
    /\ work[t].state = "completed" =>
         row.outcome = "completed" /\ work[t].artifact = row.attempt /\ row.result = "delivered"
    /\ \A k \in Commands : cmd[k].t = t /\ cmd[k].kind = "cancel" /\ cmd[k].state = "applied" =>
         row.outcome = "cancelled"

-----------------------------------------------------------------------------
(* The controls.                                                           *)

Sending == {"invoke", "record"}
Denying == {"denying", "denied"}

ControlFits(c) ==
  /\ ctl[c].t = "none" => ctl[c] = NoControl /\ sent[c] = 0
  /\ ctl[c].t # "none" => ctl[c].state # "none" /\ ctl[c].kind # "none"
  /\ ctl[c].kind # "guidance" => ctl[c].src = "none" /\ ctl[c].final = FALSE /\ ctl[c].rev = 0
  /\ ctl[c].kind = "guidance" => ctl[c].retried = FALSE /\ ctl[c].choice = "none" /\ ctl[c].state # "superseded"
  /\ ctl[c].src = "runtime" => ctl[c].rev # 0
  /\ ctl[c].retried = TRUE => ctl[c].choice = "deny"
  /\ sent[c] <= IF ctl[c].choice = "deny" /\ ctl[c].retried = TRUE THEN 2 ELSE 1

SenderFits(a) ==
  LET c == act[a].why IN
  /\ act[a].pc \in Sending \cup {"receipt"} => c \in Controls /\ ctl[c].t # "none"
  /\ act[a].pc \in Sending =>
       ctl[c].retried = FALSE /\ (ctl[c].kind = "permission" => ctl[c].state = "submitted")
  /\ At(a, "invoke") => sent[c] = 0
  /\ At(a, "record") => act[a].seen \in {"accepted", "rejected", "unknown"}
  /\ act[a].pc \in Denying =>
       c \in Controls /\ ctl[c].retried = TRUE /\ ctl[c].kind = "permission" /\ ctl[c].choice = "deny"
  /\ At(a, "denying") => sent[c] <= 1
  /\ At(a, "denied") => act[a].seen \in {"accepted", "unknown"}

ControlsFit ==
  /\ \A c \in Controls : ControlFits(c)
  /\ \A a \in Actors : SenderFits(a)
  /\ \A a, b \in Actors : a # b /\ act[a].pc \in Sending /\ act[b].pc \in Sending
                            => act[a].why # act[b].why
  /\ \A a, b \in Actors : a # b /\ act[a].pc \in Denying /\ act[b].pc \in Denying
                            => act[a].why # act[b].why

EngineInv ==
  AttemptsFit /\ RowsFit /\ ResourcesFit /\ ThreadsFit /\ NotesFit /\ ClosedFit /\ ControlsFit

-----------------------------------------------------------------------------
(* Records.                                                                *)

\* The receipt of one control.
LEMMA OneReceipt ==
  ASSUME NEW c \in Controls, NEW f, f \in [{c} -> GivenRow]
  PROVE  f \in Receipts
BY {c} \in SUBSET Controls DEF Receipts

\* What Idle and the empty rows hold.
LEMMA EmptyRows ==
  /\ <<>> \in Receipts
  /\ NoResult \in ResRow
  /\ Idle \in ActRow
  /\ NoRow \in TaskRow /\ NoAttempt \in AttRow /\ NoWork \in WorkRow /\ NoCommand \in CmdRow
  /\ NoRun \in RunRow /\ NoNote \in NoteRow /\ NoControl \in CtlRow
<1>1. <<>> \in [{} -> GivenRow]
  OBVIOUS
<1>2. <<>> \in Receipts
  BY <1>1, {} \in SUBSET Controls DEF Receipts
<1>3. NoResult \in ResRow
  BY <1>2 DEF NoResult, ResRow, RunStates, RunResults
<1>0. 0 \in 0..Budget
  BY BudgetAssumption
<1>4. Idle \in ActRow
  <2>1. "none" \in Tasks \cup {"none"} /\ "none" \in Reasons \cup Controls
    BY DEF Reasons
  <2>2. "none" \in Sightings
    BY DEF Sightings, DispatchStates
  <2> QED
    BY ONLY <1>0, <1>3, <2>1, <2>2 DEF Idle, ActRow
<1>5. NoRow \in TaskRow
  BY <1>0 DEF NoRow, TaskRow, Phases, Outcomes, RunResults
<1>6. NoAttempt \in AttRow /\ NoWork \in WorkRow /\ NoCommand \in CmdRow
  BY <1>0 DEF NoAttempt, AttRow, DispatchStates, NoWork, WorkRow, WorkStates, NoCommand, CmdRow
<1>7. NoRun \in RunRow /\ NoNote \in NoteRow /\ NoControl \in CtlRow
  BY <1>0 DEF NoRun, RunRow, RunStates, RunResults, NoNote, NoteRow, NoControl, CtlRow, CtlKinds, CtlStates
<1> QED
  BY <1>2, <1>3, <1>4, <1>5, <1>6, <1>7

\* The fields of a task's row.
LEMMA RowFields ==
  ASSUME EngineTypes, NEW t \in Tasks
  PROVE  /\ task[t] \in TaskRow
         /\ task[t].phase \in Phases /\ task[t].outcome \in Outcomes
         /\ task[t].blockers \in SUBSET Blockers
         /\ task[t].attempt \in 0..Budget /\ task[t].gen \in 0..Budget
         /\ task[t].budget \in 0..Budget /\ task[t].perm \in Nat /\ task[t].result \in RunResults
BY DEF EngineTypes, TaskRow

LEMMA AttFields ==
  ASSUME EngineTypes, NEW t \in Tasks, NEW g \in Attempts
  PROVE  /\ att[t] \in [Attempts -> AttRow] /\ att[t][g] \in AttRow
         /\ att[t][g].current \in BOOLEAN /\ att[t][g].disp \in DispatchStates
         /\ att[t][g].worker \in Workers \cup {"none"} /\ att[t][g].expired \in BOOLEAN /\ att[t][g].obs \in Nat
BY DEF EngineTypes, AttRow

LEMMA RunFields ==
  ASSUME EngineTypes, NEW t \in Tasks, NEW g \in Attempts
  PROVE  /\ run[t] \in [Attempts -> RunRow] /\ run[t][g] \in RunRow
         /\ run[t][g].state \in RunStates /\ run[t][g].seq \in Nat /\ run[t][g].perm \in Nat
         /\ run[t][g].asked \in Nat /\ run[t][g].stop \in BOOLEAN
         /\ run[t][g].starts \in 0..1 /\ run[t][g].claim \in RunResults
BY DEF EngineTypes, RunRow

LEMMA ActFields ==
  ASSUME EngineTypes, NEW a \in Actors
  PROVE  /\ act[a] \in ActRow
         /\ act[a].pc \in WithTask \cup {"idle"} /\ act[a].t \in Tasks \cup {"none"} /\ act[a].g \in 0..Budget
         /\ act[a].seen \in Sightings /\ act[a].why \in Reasons \cup Controls /\ act[a].res \in ResRow
         /\ act[a].res.state \in RunStates \cup {"unknown"} /\ act[a].res.seq \in Nat
         /\ act[a].res.perm \in Nat /\ act[a].res.claim \in RunResults
         /\ act[a].res.notes \in Receipts
<1>1. act[a] \in ActRow
  BY DEF EngineTypes
<1>2. act[a].res \in ResRow
  BY <1>1 DEF ActRow
<1> QED
  BY <1>1, <1>2 DEF ActRow, ResRow

LEMMA CtlFields ==
  ASSUME EngineTypes, NEW c \in Controls
  PROVE  /\ ctl[c] \in CtlRow /\ note[c] \in NoteRow /\ sent[c] \in Nat
         /\ ctl[c].t \in Tasks \cup {"none"} /\ ctl[c].g \in 0..Budget /\ ctl[c].kind \in CtlKinds
         /\ ctl[c].req \in Nat /\ ctl[c].choice \in {"none", "once", "deny"}
         /\ ctl[c].state \in CtlStates /\ ctl[c].rev \in Nat /\ ctl[c].final \in BOOLEAN
         /\ ctl[c].app \in NoteStates \cup {"none", "unknown"}
         /\ ctl[c].src \in {"none", "runtime", "controller"} /\ ctl[c].retried \in BOOLEAN
         /\ note[c].t \in Tasks \cup {"none"} /\ note[c].g \in 0..Budget
         /\ note[c].state \in NoteStates \cup {"none"} /\ note[c].rev \in Nat
BY DEF EngineTypes, CtlRow, NoteRow

-----------------------------------------------------------------------------
(* Where a thread goes.                                                    *)

\* Every other thread is where it was.
Others(a) == \A b \in Actors : b # a => act'[b] = act[b]

LEMMA Goes ==
  ASSUME EngineTypes, NEW a \in Actors, NEW r \in ActRow, act' = [act EXCEPT ![a] = r]
  PROVE  act' \in [Actors -> ActRow] /\ act'[a] = r /\ Others(a)
BY DEF EngineTypes, Others

LEMMA Leaves ==
  ASSUME EngineTypes, NEW a \in Actors, Leave(a)
  PROVE  act' \in [Actors -> ActRow] /\ act'[a] = Idle /\ Others(a)
BY EmptyRows, Goes DEF Leave

LEMMA GoesTo ==
  ASSUME EngineTypes, NEW a \in Actors, NEW pc \in WithTask, GoTo(a, pc)
  PROVE  /\ act' \in [Actors -> ActRow] /\ Others(a)
         /\ act'[a].pc = pc /\ act'[a].t = act[a].t /\ act'[a].g = act[a].g
         /\ act'[a].seen = act[a].seen /\ act'[a].why = act[a].why /\ act'[a].res = act[a].res
<1> PICK r : r = [act[a] EXCEPT !.pc = pc]
  OBVIOUS
<1>1. /\ r \in ActRow /\ r.pc = pc /\ r.t = act[a].t /\ r.g = act[a].g /\ r.seen = act[a].seen
      /\ r.why = act[a].why /\ r.res = act[a].res
  BY ActFields DEF ActRow
<1>2. act' = [act EXCEPT ![a] = r]
  BY DEF GoTo
<1> QED
  BY <1>1, <1>2, Goes

LEMMA Enters ==
  ASSUME EngineTypes, NEW a \in Actors, NEW pc \in WithTask, NEW t \in Tasks, NEW g \in 0..Budget,
         NEW seen \in Sightings, NEW why \in Reasons \cup Controls, Enter(a, pc, t, g, seen, why)
  PROVE  /\ act' \in [Actors -> ActRow] /\ Others(a)
         /\ act'[a].pc = pc /\ act'[a].t = t /\ act'[a].g = g
         /\ act'[a].seen = seen /\ act'[a].why = why /\ act'[a].res = NoResult
<1> PICK r : r = [Idle EXCEPT !.pc = pc, !.t = t, !.g = g, !.seen = seen, !.why = why]
  OBVIOUS
<1>1. /\ r \in ActRow /\ r.pc = pc /\ r.t = t /\ r.g = g /\ r.seen = seen
      /\ r.why = why /\ r.res = NoResult
  BY EmptyRows DEF ActRow, Idle
<1>2. act' = [act EXCEPT ![a] = r]
  BY DEF Enter
<1> QED
  BY <1>1, <1>2, Goes

-----------------------------------------------------------------------------
(* What other threads, and the rest of the world, may rely on from one     *)
(* step to the next.                                                       *)

Steady ==
  /\ \A t \in Tasks :
       /\ task[t].phase # "none" => task'[t].phase # "none"
       /\ task[t].phase = "closed" => task'[t].phase = "closed"
       /\ task[t].gen <= task'[t].gen
       /\ task'[t].phase # "closed" /\ "cancel_requested" \in task[t].blockers =>
            "cancel_requested" \in task'[t].blockers /\ task'[t].attempt = task[t].attempt
  /\ \A t \in Tasks, g \in Attempts :
       /\ att[t][g].disp \notin Begins => att'[t][g].disp \notin Begins
       /\ task'[t].phase # "closed" /\ "cancel_requested" \in task[t].blockers
            /\ task[t].attempt = g /\ att[t][g].disp \in {"prepared", "accepted"}
            => att'[t][g].disp = att[t][g].disp
       /\ run[t][g].state # "none" => run'[t][g].state # "none"
       /\ run[t][g].state \notin {"none", "running"} =>
            run'[t][g].state = run[t][g].state /\ run'[t][g].claim = run[t][g].claim
       /\ att[t][g].disp \notin Begins /\ att[t][g].current = TRUE /\ run[t][g].state = "none" =>
            att'[t][g].current = TRUE \/ run'[t][g].state # "none"

\* Rows are written, but neither closed nor given another attempt, and a
\* cancel is not forgotten.
RowsMild ==
  \A t \in Tasks :
    /\ task'[t].attempt = task[t].attempt /\ task'[t].gen = task[t].gen
    /\ task'[t].budget = task[t].budget
    /\ task[t].phase = "none" => task'[t] = task[t]
    /\ task[t].phase # "none" => task'[t].phase # "none"
    /\ task'[t].phase = "closed" <=> task[t].phase = "closed"
    /\ "cancel_requested" \in task[t].blockers => "cancel_requested" \in task'[t].blockers

\* Reservations stay, and a dispatch only goes on from where it is.
AttsMild ==
  \A t \in Tasks, g \in Attempts :
    /\ att'[t][g].current = att[t][g].current
    /\ g > task[t].gen => att'[t][g] = att[t][g]
    /\ att[t][g].disp = "accepted" => att'[t][g].disp = "accepted"
    /\ att'[t][g].disp # att[t][g].disp =>
         /\ att[t][g].disp # "none" /\ att'[t][g].disp \in {"submitted", "unknown", "accepted"}
         /\ att'[t][g].disp # "accepted" => att[t][g].current = TRUE
         /\ att[t][g].disp = "prepared" => "cancel_requested" \notin task[t].blockers

\* Runs begin where a dispatch was sent and its attempt is reserved, and end.
RunsMild ==
  \A t \in Tasks, g \in Attempts :
    /\ run[t][g].state # "none" => run'[t][g].state # "none"
    /\ run[t][g].state \notin {"none", "running"} =>
         run'[t][g].state = run[t][g].state /\ run'[t][g].claim = run[t][g].claim
    /\ run[t][g].state = "none" /\ run'[t][g].state # "none" =>
         att[t][g].current = TRUE /\ att[t][g].disp \notin Begins

LEMMA Mild ==
  ASSUME EngineTypes, AttemptsFit, RowsFit, ResourcesFit, RowsMild, AttsMild, RunsMild
  PROVE  Steady /\ AttemptsFit' /\ RowsFit' /\ ResourcesFit'
<1>1. Steady
  <2>1. ASSUME NEW t \in Tasks
        PROVE  /\ task[t].phase # "none" => task'[t].phase # "none"
               /\ task[t].phase = "closed" => task'[t].phase = "closed"
               /\ task[t].gen <= task'[t].gen
               /\ task'[t].phase # "closed" /\ "cancel_requested" \in task[t].blockers =>
                    "cancel_requested" \in task'[t].blockers /\ task'[t].attempt = task[t].attempt
    BY RowFields DEF RowsMild
  <2>2. ASSUME NEW t \in Tasks, NEW g \in Attempts
        PROVE  /\ att[t][g].disp \notin Begins => att'[t][g].disp \notin Begins
               /\ "cancel_requested" \in task[t].blockers /\ att[t][g].disp \in {"prepared", "accepted"}
                    => att'[t][g].disp = att[t][g].disp
    BY DEF AttsMild, Begins
  <2>3. ASSUME NEW t \in Tasks, NEW g \in Attempts
        PROVE  /\ run[t][g].state # "none" => run'[t][g].state # "none"
               /\ run[t][g].state \notin {"none", "running"} =>
                    run'[t][g].state = run[t][g].state /\ run'[t][g].claim = run[t][g].claim
               /\ att[t][g].current = TRUE => att'[t][g].current = TRUE
    BY DEF RunsMild, AttsMild
  <2> QED
    BY <2>1, <2>2, <2>3 DEF Steady
<1>2. AttemptsFit'
  <2> SUFFICES ASSUME NEW t \in Tasks, NEW g \in Attempts
               PROVE  /\ att'[t][g].current = TRUE =>
                           /\ g = task'[t].attempt /\ task'[t].phase \notin {"none", "closed"}
                           /\ att'[t][g].disp \notin {"none", "closed"}
                      /\ att'[t][g].disp \in Unsettled => att'[t][g].current = TRUE
                      /\ g > task'[t].gen => att'[t][g] = NoAttempt
                      /\ run'[t][g].state # "none" => att'[t][g].disp \notin Begins
                      /\ run'[t][g].state = "running" => att'[t][g].current = TRUE
    BY DEF AttemptsFit
  <2>1. /\ att[t][g].current = TRUE =>
             /\ g = task[t].attempt /\ task[t].phase \notin {"none", "closed"}
             /\ att[t][g].disp \notin {"none", "closed"}
        /\ att[t][g].disp \in Unsettled => att[t][g].current = TRUE
        /\ g > task[t].gen => att[t][g] = NoAttempt
        /\ run[t][g].state # "none" => att[t][g].disp \notin Begins
        /\ run[t][g].state = "running" => att[t][g].current = TRUE
    BY DEF AttemptsFit
  <2>2. /\ task'[t].attempt = task[t].attempt /\ task'[t].gen = task[t].gen
        /\ task[t].phase # "none" => task'[t].phase # "none"
        /\ task'[t].phase = "closed" <=> task[t].phase = "closed"
    BY DEF RowsMild
  <2>3. /\ att'[t][g].current = att[t][g].current
        /\ g > task[t].gen => att'[t][g] = att[t][g]
        /\ att'[t][g].disp # att[t][g].disp =>
             /\ att[t][g].disp # "none" /\ att'[t][g].disp \in {"submitted", "unknown", "accepted"}
             /\ att'[t][g].disp # "accepted" => att[t][g].current = TRUE
    BY DEF AttsMild
  <2>4. /\ run[t][g].state \notin {"none", "running"} => run'[t][g].state = run[t][g].state
        /\ run[t][g].state = "none" /\ run'[t][g].state # "none" =>
             att[t][g].current = TRUE /\ att[t][g].disp \notin Begins
    BY DEF RunsMild
  <2> QED
    BY <2>1, <2>2, <2>3, <2>4 DEF Unsettled, Begins
<1>3. RowsFit'
  <2> SUFFICES ASSUME NEW t \in Tasks
               PROVE  /\ task'[t].phase = "none" => task'[t] = NoRow
                      /\ task'[t].phase # "none" => task'[t].gen + task'[t].budget = Budget
                      /\ task'[t].attempt <= task'[t].gen
                      /\ task'[t].attempt # 0 /\ task'[t].phase # "closed"
                           => att'[t][task'[t].attempt].current = TRUE
    BY DEF RowsFit
  <2>1. task[t].attempt # 0 => task[t].attempt \in Attempts
    BY RowFields DEF Attempts
  <2> QED
    BY <2>1, RowFields DEF RowsFit, RowsMild, AttsMild
<1>4. ResourcesFit'
  BY DEF ResourcesFit, AttsMild, Related
<1> QED
  BY <1>1, <1>2, <1>3, <1>4

\* A thread that does not move keeps what it relies on.
LEMMA StaysFit ==
  ASSUME EngineTypes, Steady, NEW a \in Actors, ThreadFits(a), act'[a] = act[a],
         task' \in [Tasks -> TaskRow]
  PROVE  ThreadFits(a)'
<1> PICK t \in Tasks \cup {"none"}, g \in 0..Budget : t = act[a].t /\ g = act[a].g
  BY ActFields
<1>1. g # 0 => g \in Attempts
  BY DEF Attempts
<1>2. ~At(a, "idle") => t \in Tasks /\ task'[t].phase # "none"
  BY DEF ThreadFits, Steady
<1>3. act[a].pc \in BeforeSubmit \cup AfterSubmit => g \in Attempts /\ g <= task'[t].gen
  <2> SUFFICES ASSUME act[a].pc \in BeforeSubmit \cup AfterSubmit
               PROVE  g \in Attempts /\ g <= task'[t].gen
    OBVIOUS
  <2>1. t \in Tasks /\ g \in Attempts /\ g <= task[t].gen
    BY DEF ThreadFits, At, BeforeSubmit, AfterSubmit
  <2>2. task[t].gen <= task'[t].gen /\ task'[t].gen \in 0..Budget
    BY <2>1 DEF Steady, TaskRow
  <2> QED
    BY <2>1, <2>2, RowFields DEF Attempts
<1>4. act[a].pc \in AfterSubmit => att'[t][g].disp \notin Begins
  BY <1>2, <1>3 DEF ThreadFits, At, AfterSubmit, Steady
<1>5. act[a].pc \in {"invoke", "record", "receipt"} =>
        g \in Attempts /\ g <= task'[t].gen /\ att'[t][g].disp \notin Begins
  <2> SUFFICES ASSUME act[a].pc \in {"invoke", "record", "receipt"}
               PROVE  g \in Attempts /\ g <= task'[t].gen /\ att'[t][g].disp \notin Begins
    OBVIOUS
  <2>1. t \in Tasks /\ g \in Attempts /\ g <= task[t].gen /\ att[t][g].disp \notin Begins
    BY DEF ThreadFits, At
  <2>2. task[t].gen <= task'[t].gen /\ task'[t].gen \in 0..Budget /\ att'[t][g].disp \notin Begins
    BY <2>1 DEF Steady, TaskRow
  <2> QED
    BY <2>1, <2>2, RowFields DEF Attempts
<1>6. At(a, "post") => att'[t][g].current = TRUE \/ run'[t][g].state # "none"
  <2> SUFFICES ASSUME At(a, "post")
               PROVE  att'[t][g].current = TRUE \/ run'[t][g].state # "none"
    OBVIOUS
  <2>1. t \in Tasks /\ g \in Attempts
    BY <1>2, <1>3 DEF At, AfterSubmit
  <2>2. att[t][g].disp \notin Begins /\ (att[t][g].current = TRUE \/ run[t][g].state # "none")
    BY DEF ThreadFits, At, AfterSubmit
  <2> QED
    BY <2>1, <2>2 DEF Steady
<1>7. act[a].pc \in {"hold", "held"} /\ act[a].why = "cancel_requested" /\ task'[t].phase # "closed"
        => CancelStands(a)'
  <2> SUFFICES ASSUME act[a].pc \in {"hold", "held"}, act[a].why = "cancel_requested",
                      task'[t].phase # "closed"
               PROVE  CancelStands(a)'
    OBVIOUS
  <2>1. t \in Tasks /\ task[t].phase # "closed"
    BY <1>2 DEF At, Steady
  <2>2. CancelStands(a)
    BY <2>1 DEF ThreadFits
  <2>3. "cancel_requested" \in task[t].blockers /\ task[t].attempt = g
    BY <2>2 DEF CancelStands
  <2>4. "cancel_requested" \in task'[t].blockers /\ task'[t].attempt = g
    BY <2>1, <2>3 DEF Steady
  <2>5. g # 0 /\ att[t][g].disp \in {"prepared", "accepted"} => att'[t][g].disp = att[t][g].disp
    BY <1>1, <2>1, <2>3 DEF Steady
  <2> QED
    BY <2>2, <2>3, <2>4, <2>5 DEF CancelStands, At
<1>8. act[a].res.state \in Terminal =>
        /\ t \in Tasks /\ g \in Attempts
        /\ run'[t][g].state = act[a].res.state /\ run'[t][g].claim = act[a].res.claim
  BY DEF ThreadFits, Terminal, Steady
<1> QED
  BY <1>2, <1>3, <1>4, <1>5, <1>6, <1>7, <1>8 DEF ThreadFits, At

LEMMA NotesStayFit ==
  ASSUME Steady, NotesFit, note' = note
  PROVE  NotesFit'
BY DEF NotesFit, Steady

-----------------------------------------------------------------------------
(* What a transaction writes beside a task's row.                          *)

\* A row with the work item and the receipts that commit with it.
Saved(t, row) ==
  /\ task' = [task EXCEPT ![t] = row]
  /\ \/ work' = [work EXCEPT ![t] = Reconciled(@, row)]
     \/ work' = work /\ row = task[t]
  /\ cmd' \in [Commands -> CmdRow]
  /\ \A k \in Commands :
       cmd'[k] = cmd[k] \/
         /\ cmd'[k].t = t
         /\ cmd'[k].state = "applied" =>
              \/ Applied(cmd'[k].kind, row)
              \/ cmd[k].t = t /\ cmd[k].kind = cmd'[k].kind /\ cmd[k].state = "applied"

\* What may be written over a task's row.
Lawful(t, row) ==
  /\ task[t].phase # "none" /\ row.phase # "none"
  /\ task[t].phase = "closed" =>
       row = [task[t] EXCEPT !.perm = row.perm] /\ row.perm \in {0, task[t].perm}
  /\ row.phase # "closed" => row.outcome = "none"
  /\ task[t].phase # "closed" /\ row.outcome = "completed" =>
       /\ "cancel_requested" \notin row.blockers /\ row.attempt \in Attempts
       /\ run[t][row.attempt].state = "completed" /\ run[t][row.attempt].claim = row.result

\* A closed task keeps its row, but for a request that is withdrawn, and its work.
RowsStay ==
  \A t \in Tasks : task[t].phase = "closed" =>
    /\ task'[t] = [task[t] EXCEPT !.perm = task'[t].perm]
    /\ task'[t].perm \in {0, task[t].perm}
    /\ work'[t] = work[t]

\* Nothing is written.
LEMMA KeptRows ==
  ASSUME EngineTypes, ClosedFit, RunsMild, UNCHANGED <<task, work, cmd>>
  PROVE  /\ ClosedFit' /\ RowsStay /\ RowsMild
         /\ task' \in [Tasks -> TaskRow] /\ work' \in [Tasks -> WorkRow] /\ cmd' \in [Commands -> CmdRow]
<1>1. RowsMild
  BY DEF RowsMild
<1>2. RowsStay
  <2> SUFFICES ASSUME NEW t \in Tasks
               PROVE  task[t] = [task[t] EXCEPT !.perm = task[t].perm]
    BY DEF RowsStay
  <2> QED
    BY RowFields DEF TaskRow
<1>3. ClosedFit'
  BY DEF ClosedFit, RunsMild
<1> QED
  BY <1>1, <1>2, <1>3 DEF EngineTypes

\* What reconcile_task makes of a work item.
LEMMA ReconciledIs ==
  ASSUME NEW item \in WorkRow, NEW row \in TaskRow
  PROVE  /\ Reconciled(item, row) \in WorkRow
         /\ Reconciled(item, row).managed = item.managed
         /\ item.managed = FALSE => Reconciled(item, row) = item
         /\ row.phase = "closed" /\ item.verified = TRUE => Reconciled(item, row) = item
         /\ item.managed = TRUE /\ row.phase = "closed" => Reconciled(item, row).verified = TRUE
         /\ row.phase # "closed" => Reconciled(item, row).verified = item.verified
         /\ item.managed = TRUE /\ row.phase # "closed" => Reconciled(item, row).state # "completed"
         /\ item.managed = TRUE /\ row.phase = "closed" /\ item.verified = FALSE
              /\ Reconciled(item, row).state = "completed" =>
                row.outcome = "completed" /\ row.result = "delivered"
                  /\ Reconciled(item, row).artifact = row.attempt
<1>1. item.managed \in BOOLEAN /\ item.verified \in BOOLEAN
  BY DEF WorkRow
<1>2. CASE item.managed = FALSE \/ (row.phase = "closed" /\ item.verified = TRUE)
  <2>1. Reconciled(item, row) = item
    BY <1>1, <1>2 DEF Reconciled
  <2> QED
    BY <1>1, <1>2, <2>1
<1>3. CASE item.managed = TRUE /\ row.phase = "closed" /\ item.verified = FALSE
  <2> PICK new : new = [item EXCEPT !.state = Verdict(row), !.artifact = Evidence(row), !.verified = TRUE]
    OBVIOUS
  <2>1. Reconciled(item, row) = new
    BY <1>3 DEF Reconciled
  <2>2. /\ Verdict(row) \in WorkStates
        /\ Verdict(row) = "completed" => row.outcome = "completed" /\ row.result = "delivered"
    BY DEF Verdict, WorkStates
  <2>3. Evidence(row) \in 0..Budget /\ (row.result = "delivered" => Evidence(row) = row.attempt)
    BY DEF Evidence, TaskRow
  <2>4. /\ new \in WorkRow /\ new.managed = item.managed /\ new.verified = TRUE
        /\ new.state = Verdict(row) /\ new.artifact = Evidence(row)
    BY <2>2, <2>3 DEF WorkRow
  <2> QED
    BY <1>3, <2>1, <2>2, <2>3, <2>4
<1>4. CASE item.managed = TRUE /\ row.phase # "closed"
  <2> PICK new : new = [item EXCEPT !.state = Projected(row)]
    OBVIOUS
  <2>1. Reconciled(item, row) = new
    BY <1>4 DEF Reconciled
  <2>2. Projected(row) \in WorkStates /\ Projected(row) # "completed"
    BY DEF Projected, WorkStates
  <2>3. new \in WorkRow /\ new.managed = item.managed /\ new.verified = item.verified /\ new.state = Projected(row)
    BY <2>2 DEF WorkRow
  <2> QED
    BY <1>4, <2>1, <2>2, <2>3
<1> QED
  BY <1>1, <1>2, <1>3, <1>4

LEMMA SavedRows ==
  ASSUME EngineTypes, ClosedFit, RunsMild,
         NEW t \in Tasks, NEW row \in TaskRow, Saved(t, row), Lawful(t, row)
  PROVE  /\ ClosedFit' /\ RowsStay
         /\ task' \in [Tasks -> TaskRow] /\ work' \in [Tasks -> WorkRow] /\ cmd' \in [Commands -> CmdRow]
         /\ task'[t] = row /\ \A u \in Tasks \ {t} : task'[u] = task[u]
<1>1. /\ task' \in [Tasks -> TaskRow] /\ cmd' \in [Commands -> CmdRow]
      /\ task'[t] = row /\ \A u \in Tasks \ {t} : task'[u] = task[u]
  BY DEF Saved, EngineTypes
<1> PICK item \in WorkRow : item = work[t]
  BY DEF EngineTypes
<1> PICK new : new = Reconciled(item, row)
  OBVIOUS
<1>2. /\ work' \in [Tasks -> WorkRow] /\ \A u \in Tasks \ {t} : work'[u] = work[u]
      /\ work'[t] = new \/ (work'[t] = item /\ row = task[t])
  <2>1. work' = [work EXCEPT ![t] = new] \/ (work' = work /\ row = task[t])
    BY DEF Saved
  <2>2. work \in [Tasks -> WorkRow] /\ new \in WorkRow
    BY ReconciledIs DEF EngineTypes
  <2> QED
    BY <2>1, <2>2
<1>3. /\ new.managed = item.managed
      /\ item.managed = FALSE => new = item
      /\ row.phase = "closed" /\ item.verified = TRUE => new = item
      /\ item.managed = TRUE /\ row.phase = "closed" => new.verified = TRUE
      /\ row.phase # "closed" => new.verified = item.verified
      /\ item.managed = TRUE /\ row.phase # "closed" => new.state # "completed"
      /\ item.managed = TRUE /\ row.phase = "closed" /\ item.verified = FALSE
           /\ new.state = "completed" =>
             row.outcome = "completed" /\ row.result = "delivered" /\ new.artifact = row.attempt
  BY ReconciledIs
<1>4. item.managed \in BOOLEAN /\ item.verified \in BOOLEAN
  BY DEF WorkRow
<1>5. /\ task[t].phase # "closed" => task[t].outcome = "none"
      /\ item.managed = FALSE => item = NoWork
      /\ item.verified = TRUE => task[t].phase = "closed"
      /\ task[t].phase = "closed" /\ item.managed = TRUE => item.verified = TRUE
      /\ task[t].outcome = "completed" =>
           /\ "cancel_requested" \notin task[t].blockers /\ task[t].attempt \in Attempts
           /\ run[t][task[t].attempt].state = "completed" /\ run[t][task[t].attempt].claim = task[t].result
      /\ item.state = "completed" =>
           /\ task[t].outcome = "completed" /\ item.artifact = task[t].attempt
           /\ task[t].result = "delivered"
      /\ \A k \in Commands : cmd[k].t = t /\ cmd[k].kind = "cancel" /\ cmd[k].state = "applied" =>
           task[t].outcome = "cancelled"
  BY DEF ClosedFit
<1>6. /\ row.phase # "none" /\ (row.phase # "closed" => row.outcome = "none")
      /\ task[t].phase = "closed" => row.perm \in {0, task[t].perm}
  BY DEF Lawful
<1>7. task[t].phase = "closed" =>
        /\ row = [task[t] EXCEPT !.perm = row.perm]
        /\ row.phase = "closed" /\ row.outcome = task[t].outcome /\ row.blockers = task[t].blockers
        /\ row.attempt = task[t].attempt /\ row.result = task[t].result
  BY RowFields DEF Lawful, TaskRow
<1>8. work'[t] = new \/ (work'[t] = item /\ row = task[t] /\ row.phase # "closed") \/ (work'[t] = item /\ new = item)
  BY <1>2, <1>3, <1>4, <1>5, <1>7
<1>9. /\ task[t].phase = "closed" => work'[t] = item
      /\ work'[t].managed = FALSE => work'[t] = NoWork
      /\ work'[t].verified = TRUE => row.phase = "closed"
      /\ row.phase = "closed" /\ work'[t].managed = TRUE => work'[t].verified = TRUE
  BY <1>3, <1>4, <1>5, <1>7, <1>8
<1>10. row.outcome = "completed" =>
         /\ "cancel_requested" \notin row.blockers /\ row.attempt \in Attempts
         /\ run'[t][row.attempt].state = "completed" /\ run'[t][row.attempt].claim = row.result
  <2>1. row.outcome = "completed" =>
          /\ "cancel_requested" \notin row.blockers /\ row.attempt \in Attempts
          /\ run[t][row.attempt].state = "completed" /\ run[t][row.attempt].claim = row.result
    BY <1>5, <1>7 DEF Lawful
  <2> QED
    BY <2>1 DEF RunsMild
<1>11. work'[t].state = "completed" =>
         row.outcome = "completed" /\ work'[t].artifact = row.attempt /\ row.result = "delivered"
  <2>1. item.managed = FALSE => item.state = "none"
    BY <1>5 DEF NoWork
  <2>2. CASE work'[t] = item /\ row = task[t]
    BY <1>5, <2>2
  <2>3. CASE work'[t] = new
    <3>1. CASE item.managed = FALSE
      BY <1>3, <2>1, <2>3, <3>1
    <3>2. CASE item.managed = TRUE /\ item.verified = TRUE
      BY <1>3, <1>5, <1>7, <2>3, <3>2
    <3>3. CASE item.managed = TRUE /\ item.verified = FALSE
      BY <1>3, <2>3, <3>3
    <3> QED
      BY <1>4, <3>1, <3>2, <3>3
  <2> QED
    BY <1>2, <2>2, <2>3
<1>12. ASSUME NEW k \in Commands, cmd'[k].t = t, cmd'[k].kind = "cancel", cmd'[k].state = "applied"
       PROVE  row.outcome = "cancelled"
  <2>1. task[t].outcome = "cancelled" => row.outcome = "cancelled"
    BY <1>5, <1>7
  <2>2. CASE cmd'[k] = cmd[k]
    BY <1>5, <1>12, <2>1, <2>2
  <2>3. CASE cmd'[k] # cmd[k]
    <3>1. \/ Applied(cmd'[k].kind, row)
          \/ cmd[k].t = t /\ cmd[k].kind = cmd'[k].kind /\ cmd[k].state = "applied"
      BY <1>12, <2>3 DEF Saved
    <3> QED
      BY <1>5, <1>12, <2>1, <3>1 DEF Applied
  <2> QED
    BY <2>2, <2>3
<1>13. RowsStay
  <2>1. ASSUME NEW u \in Tasks \ {t} PROVE task[u] = [task[u] EXCEPT !.perm = task[u].perm]
    BY RowFields DEF TaskRow
  <2>2. ASSUME NEW u \in Tasks, task[u].phase = "closed"
        PROVE  /\ task'[u] = [task[u] EXCEPT !.perm = task'[u].perm]
               /\ task'[u].perm \in {0, task[u].perm} /\ work'[u] = work[u]
    <3>1. CASE u = t
      BY <1>1, <1>6, <1>7, <1>9, <2>2, <3>1
    <3>2. CASE u # t
      BY <1>1, <1>2, <2>1, <3>2
    <3> QED
      BY <3>1, <3>2
  <2> QED
    BY <2>2 DEF RowsStay
<1>14. ClosedFit'
  <2>1. ASSUME NEW u \in Tasks \ {t}, NEW k \in Commands,
               cmd'[k].t = u, cmd'[k].kind = "cancel", cmd'[k].state = "applied"
        PROVE  task[u].outcome = "cancelled"
    BY <2>1 DEF Saved, ClosedFit
  <2> SUFFICES ASSUME NEW u \in Tasks
               PROVE  /\ task'[u].phase # "closed" => task'[u].outcome = "none"
                      /\ task'[u].phase = "none" => work'[u] = NoWork
                      /\ work'[u].managed = FALSE => work'[u] = NoWork
                      /\ work'[u].verified = TRUE => task'[u].phase = "closed"
                      /\ task'[u].phase = "closed" /\ work'[u].managed = TRUE => work'[u].verified = TRUE
                      /\ task'[u].outcome = "completed" =>
                           /\ "cancel_requested" \notin task'[u].blockers /\ task'[u].attempt \in Attempts
                           /\ run'[u][task'[u].attempt].state = "completed"
                           /\ run'[u][task'[u].attempt].claim = task'[u].result
                      /\ work'[u].state = "completed" =>
                           task'[u].outcome = "completed" /\ work'[u].artifact = task'[u].attempt
                             /\ task'[u].result = "delivered"
                      /\ \A k \in Commands :
                           cmd'[k].t = u /\ cmd'[k].kind = "cancel" /\ cmd'[k].state = "applied" =>
                             task'[u].outcome = "cancelled"
    BY DEF ClosedFit
  <2>3. CASE u = t
    <3>1. /\ row.phase # "closed" => row.outcome = "none"
          /\ row.phase # "none"
          /\ task'[u] = row
      BY <1>1, <1>6, <2>3
    <3>2. \A k \in Commands : cmd'[k].t = u /\ cmd'[k].kind = "cancel" /\ cmd'[k].state = "applied"
            => row.outcome = "cancelled"
      BY <1>12, <2>3
    <3> QED
      BY <1>9, <1>10, <1>11, <2>3, <3>1, <3>2
  <2>4. CASE u # t
    <3>1. u \in Tasks \ {t} /\ task'[u] = task[u] /\ work'[u] = work[u]
      BY <1>1, <1>2, <2>4
    <3>2. \A k \in Commands : cmd'[k].t = u /\ cmd'[k].kind = "cancel" /\ cmd'[k].state = "applied"
            => task'[u].outcome = "cancelled"
      BY <2>1, <3>1
    <3>3. /\ task[u].phase # "closed" => task[u].outcome = "none"
          /\ task[u].phase = "none" => work[u] = NoWork
          /\ work[u].managed = FALSE => work[u] = NoWork
          /\ work[u].verified = TRUE => task[u].phase = "closed"
          /\ task[u].phase = "closed" /\ work[u].managed = TRUE => work[u].verified = TRUE
      BY DEF ClosedFit
    <3>4. task[u].outcome = "completed" =>
            /\ "cancel_requested" \notin task[u].blockers /\ task[u].attempt \in Attempts
            /\ run'[u][task[u].attempt].state = "completed"
            /\ run'[u][task[u].attempt].claim = task[u].result
      BY DEF ClosedFit, RunsMild
    <3>5. work[u].state = "completed" =>
            task[u].outcome = "completed" /\ work[u].artifact = task[u].attempt /\ task[u].result = "delivered"
      BY DEF ClosedFit
    <3> QED
      BY <3>1, <3>2, <3>3, <3>4, <3>5
  <2> QED
    BY <2>3, <2>4
<1> QED
  BY <1>1, <1>2, <1>13, <1>14

\* A row that is neither closed nor given another attempt by what is written.
MildRow(t, row) ==
  /\ task[t].phase # "none" /\ row.phase # "none"
  /\ row.attempt = task[t].attempt /\ row.gen = task[t].gen /\ row.budget = task[t].budget
  /\ row.outcome = task[t].outcome
  /\ row.phase = "closed" <=> task[t].phase = "closed"
  /\ task[t].phase = "closed" =>
       row = [task[t] EXCEPT !.perm = row.perm] /\ row.perm \in {0, task[t].perm}
  /\ "cancel_requested" \in task[t].blockers => "cancel_requested" \in row.blockers

RowStep ==
  \/ UNCHANGED <<task, work, cmd>>
  \/ \E t \in Tasks, row \in TaskRow : Saved(t, row) /\ MildRow(t, row)

LEMMA RowSteps ==
  ASSUME EngineTypes, ClosedFit, RunsMild, RowStep
  PROVE  /\ ClosedFit' /\ RowsStay /\ RowsMild
         /\ task' \in [Tasks -> TaskRow] /\ work' \in [Tasks -> WorkRow] /\ cmd' \in [Commands -> CmdRow]
<1>1. CASE UNCHANGED <<task, work, cmd>>
  BY <1>1, KeptRows
<1>2. ASSUME NEW t \in Tasks, NEW row \in TaskRow, Saved(t, row), MildRow(t, row)
      PROVE  /\ ClosedFit' /\ RowsStay /\ RowsMild
             /\ task' \in [Tasks -> TaskRow] /\ work' \in [Tasks -> WorkRow]
             /\ cmd' \in [Commands -> CmdRow]
  <2>1. Lawful(t, row)
    <3>1. row.phase # "closed" => row.outcome = "none"
      BY <1>2 DEF MildRow, ClosedFit
    <3>2. task[t].phase # "closed" => row.outcome # "completed"
      BY <1>2 DEF MildRow, ClosedFit
    <3> QED
      BY <1>2, <3>1, <3>2 DEF MildRow, Lawful
  <2>2. /\ ClosedFit' /\ RowsStay
        /\ task' \in [Tasks -> TaskRow] /\ work' \in [Tasks -> WorkRow] /\ cmd' \in [Commands -> CmdRow]
        /\ task'[t] = row /\ \A u \in Tasks \ {t} : task'[u] = task[u]
    BY <1>2, <2>1, SavedRows
  <2>3. RowsMild
    BY <1>2, <2>2 DEF RowsMild, MildRow
  <2> QED
    BY <2>2, <2>3
<1> QED
  BY <1>1, <1>2 DEF RowStep

LEMMA AnsweredIs ==
  ASSUME NEW receipt \in CmdRow, NEW row
  PROVE  /\ Answered(receipt, row) \in CmdRow
         /\ Answered(receipt, row).t = receipt.t /\ Answered(receipt, row).kind = receipt.kind
         /\ Answered(receipt, row).state = "applied" =>
              Applied(receipt.kind, row) \/ receipt.state = "applied"
<1> PICK state : state = IF Applied(receipt.kind, row) THEN "applied" ELSE receipt.state
  OBVIOUS
<1>1. Answered(receipt, row) = [receipt EXCEPT !.state = state]
  BY DEF Answered
<1>2. state \in {"none", "received", "applied"}
  BY DEF CmdRow
<1> QED
  BY <1>1, <1>2 DEF CmdRow

LEMMA Puts ==
  ASSUME EngineTypes, NEW t \in Tasks, NEW row \in TaskRow, Put(t, row)
  PROVE  Saved(t, row)
<1>1. ASSUME NEW k \in Commands
      PROVE  /\ cmd[k] \in CmdRow
             /\ cmd'[k] = cmd[k] \/ (cmd[k].t = t /\ cmd'[k] = Answered(cmd[k], row))
  BY DEF Put, EngineTypes
<1>2. ASSUME NEW k \in Commands
      PROVE  /\ cmd'[k] \in CmdRow
             /\ cmd'[k] = cmd[k] \/
                  /\ cmd'[k].t = t
                  /\ cmd'[k].state = "applied" =>
                       \/ Applied(cmd'[k].kind, row)
                       \/ cmd[k].t = t /\ cmd[k].kind = cmd'[k].kind /\ cmd[k].state = "applied"
  BY <1>1, AnsweredIs
<1>3. cmd' \in [Commands -> CmdRow]
  <2>1. cmd' = [k \in Commands |-> cmd'[k]]
    BY DEF Put
  <2> QED
    BY <1>2, <2>1
<1> QED
  BY <1>2, <1>3 DEF Put, Saved

LEMMA PutsIfNew ==
  ASSUME EngineTypes, NEW t \in Tasks, NEW row \in TaskRow, PutIfNew(t, row)
  PROVE  UNCHANGED <<task, work, cmd>> \/ Saved(t, row)
BY Puts DEF PutIfNew

LEMMA PutsWithCommand ==
  ASSUME EngineTypes, NEW t \in Tasks, NEW row \in TaskRow, NEW k \in Commands, NEW kind \in Kinds,
         PutWithCommand(k, t, kind, row)
  PROVE  Saved(t, row)
<1> PICK receipt : receipt = [t |-> t, kind |-> kind, state |-> "received"]
  OBVIOUS
<1>1. receipt \in CmdRow /\ receipt.t = t /\ receipt.kind = kind /\ receipt.state # "applied"
  BY DEF CmdRow
<1>2. ASSUME NEW j \in Commands
      PROVE  /\ cmd[j] \in CmdRow
             /\ \/ cmd'[j] = cmd[j]
                \/ cmd[j].t = t /\ cmd'[j] = Answered(cmd[j], row)
                \/ cmd'[j] = Answered(receipt, row)
  BY DEF PutWithCommand, EngineTypes
<1>3. ASSUME NEW j \in Commands
      PROVE  /\ cmd'[j] \in CmdRow
             /\ cmd'[j] = cmd[j] \/
                  /\ cmd'[j].t = t
                  /\ cmd'[j].state = "applied" =>
                       \/ Applied(cmd'[j].kind, row)
                       \/ cmd[j].t = t /\ cmd[j].kind = cmd'[j].kind /\ cmd[j].state = "applied"
  <2>1. CASE cmd'[j] = Answered(receipt, row)
    BY <1>1, <2>1, AnsweredIs
  <2> QED
    BY <1>2, <2>1, AnsweredIs
<1>4. cmd' \in [Commands -> CmdRow]
  <2>1. cmd' = [j \in Commands |-> cmd'[j]]
    BY DEF PutWithCommand
  <2> QED
    BY <1>3, <2>1
<1> QED
  BY <1>3, <1>4 DEF PutWithCommand, Saved

-----------------------------------------------------------------------------
(* A step as a whole.                                                      *)

\* The cursor of an attempt never goes back.
CursorsStay == \A t \in Tasks, g \in Attempts : att'[t][g].obs >= att[t][g].obs

\* A control that was superseded, and a receipt that is final, stay.
ControlsStay ==
  \A c \in Controls :
    /\ ctl[c].src = "runtime" /\ ctl[c].final => ctl'[c] = ctl[c]
    /\ ctl[c].state = "superseded" => ctl'[c].state = "superseded"
    /\ ctl'[c].rev >= ctl[c].rev

AttStep == AttsMild /\ CursorsStay /\ att' \in [Tasks -> [Attempts -> AttRow]]
RunStep == RunsMild /\ run' \in [Tasks -> [Attempts -> RunRow]]

LEMMA AttKept == ASSUME EngineTypes, att' = att PROVE AttStep
<1>1. CursorsStay
  BY AttFields DEF CursorsStay
<1> QED
  BY <1>1 DEF AttStep, AttsMild, EngineTypes

LEMMA RunKept == ASSUME EngineTypes, run' = run PROVE RunStep
BY DEF RunStep, RunsMild, EngineTypes

\* What a step makes of the rows, the attempts and the runs.
World ==
  /\ Steady /\ AttemptsFit' /\ RowsFit' /\ ResourcesFit' /\ ClosedFit' /\ RowsStay /\ CursorsStay
  /\ task' \in [Tasks -> TaskRow] /\ work' \in [Tasks -> WorkRow] /\ cmd' \in [Commands -> CmdRow]
  /\ att' \in [Tasks -> [Attempts -> AttRow]] /\ run' \in [Tasks -> [Attempts -> RunRow]]

LEMMA MildWorld ==
  ASSUME EngineTypes, EngineInv, RowStep, AttStep, RunStep
  PROVE  World
<1>1. /\ ClosedFit' /\ RowsStay /\ RowsMild
      /\ task' \in [Tasks -> TaskRow] /\ work' \in [Tasks -> WorkRow] /\ cmd' \in [Commands -> CmdRow]
  BY RowSteps DEF EngineInv, RunStep
<1>2. Steady /\ AttemptsFit' /\ RowsFit' /\ ResourcesFit'
  BY <1>1, Mild DEF EngineInv, AttStep, RunStep
<1> QED
  BY <1>1, <1>2 DEF World, AttStep, RunStep

StepGood == EngineTypes' /\ EngineInv' /\ RowsStay /\ ControlsStay /\ CursorsStay

\* Nothing of the controls and their senders changes but where thread a is.
LEMMA ControlsQuiet ==
  ASSUME EngineTypes, ControlsFit, NEW a \in Actors, Others(a), ctl' = ctl, sent' = sent,
         act'[a].pc \notin Sending \cup Denying \cup {"receipt"}
  PROVE  ControlsFit' /\ ControlsStay
<1>1. ControlsStay
  BY CtlFields DEF ControlsStay
<1>2. \A c \in Controls : ControlFits(c)'
  BY DEF ControlsFit, ControlFits
<1>3. ASSUME NEW b \in Actors PROVE SenderFits(b)'
  <2>1. CASE b = a
    BY <2>1 DEF SenderFits, Sending, Denying, At
  <2>2. CASE b # a
    BY <2>2 DEF ControlsFit, SenderFits, Others, At
  <2> QED
    BY <2>1, <2>2
<1>4. ASSUME NEW b \in Actors, NEW e \in Actors, b # e
      PROVE  /\ act'[b].pc \in Sending /\ act'[e].pc \in Sending => act'[b].why # act'[e].why
             /\ act'[b].pc \in Denying /\ act'[e].pc \in Denying => act'[b].why # act'[e].why
  BY <1>4 DEF ControlsFit, Others
<1> QED
  BY <1>1, <1>2, <1>3, <1>4 DEF ControlsFit

\* A step of thread a that does not touch the controls.
LEMMA ActorStep ==
  ASSUME EngineTypes, EngineInv, World, NEW a \in Actors, Others(a), ThreadFits(a)',
         act' \in [Actors -> ActRow], act'[a].pc \notin Sending \cup Denying \cup {"receipt"},
         grant' \in [Tasks -> BOOLEAN], note' = note, ctl' = ctl, sent' = sent
  PROVE  StepGood
<1>1. ControlsFit' /\ ControlsStay
  BY ControlsQuiet DEF EngineInv
<1>2. NotesFit'
  BY NotesStayFit DEF EngineInv, World
<1>3. ThreadsFit'
  <2>1. ASSUME NEW b \in Actors, b # a PROVE ThreadFits(b)'
    BY <2>1, StaysFit DEF EngineInv, ThreadsFit, World, Others
  <2> QED
    BY <2>1 DEF ThreadsFit
<1>4. EngineTypes'
  BY DEF EngineTypes, World
<1> QED
  BY <1>1, <1>2, <1>3, <1>4 DEF StepGood, EngineInv, World

\* A step of no thread.
LEMMA EnvironmentStep ==
  ASSUME EngineTypes, EngineInv, World, act' = act, grant' \in [Tasks -> BOOLEAN],
         note' \in [Controls -> NoteRow], NotesFit', ctl' = ctl, sent' = sent
  PROVE  StepGood
<1>1. ThreadsFit'
  BY StaysFit DEF EngineInv, ThreadsFit, World
<1>2. ControlsStay
  BY CtlFields DEF ControlsStay
<1>3. ControlsFit'
  BY DEF EngineInv, ControlsFit, ControlFits, SenderFits, At
<1>4. EngineTypes'
  BY DEF EngineTypes, World
<1> QED
  BY <1>1, <1>2, <1>3, <1>4 DEF StepGood, EngineInv, World

-----------------------------------------------------------------------------
(* The threads of the coordinator.                                         *)

LEMMA IdleFits ==
  ASSUME NEW a \in Actors, act'[a] = Idle
  PROVE  ThreadFits(a)' /\ act'[a].pc \notin Sending \cup Denying \cup {"receipt"}
BY DEF Idle, NoResult, ThreadFits, At, BeforeSubmit, AfterSubmit, Terminal, Sending, Denying

LEMMA StillWorld ==
  ASSUME EngineTypes, EngineInv, UNCHANGED <<task, work, cmd, att, run>>
  PROVE  World
BY AttKept, RunKept, MildWorld DEF RowStep

\* A thread that leaves.
LEMMA LeaveStep ==
  ASSUME EngineTypes, EngineInv, World, NEW a \in Actors, Leave(a),
         grant' \in [Tasks -> BOOLEAN], note' = note, ctl' = ctl, sent' = sent
  PROVE  StepGood
BY Leaves, IdleFits, ActorStep

\* A thread on its way to the first reading of its task.
LEMMA PlainFits ==
  ASSUME EngineTypes, World, NEW a \in Actors, ThreadFits(a),
         act'[a].pc \in {"describe", "claim", "drive"},
         act'[a].t \in Tasks, task[act'[a].t].phase # "none",
         \/ act'[a].res = NoResult
         \/ act'[a].t = act[a].t /\ act'[a].g = act[a].g /\ act'[a].res = act[a].res
  PROVE  ThreadFits(a)' /\ act'[a].pc \notin Sending \cup Denying \cup {"receipt"}
<1> PICK t, g : t = act'[a].t /\ g = act'[a].g
  OBVIOUS
<1>1. t \in Tasks /\ task'[t].phase # "none"
  BY DEF World, Steady
<1>2. act'[a].res.state \in Terminal =>
        /\ g \in Attempts
        /\ run'[t][g].state = act'[a].res.state /\ run'[t][g].claim = act'[a].res.claim
  <2>1. CASE act'[a].res = NoResult
    BY <2>1 DEF NoResult, Terminal
  <2>2. CASE act'[a].t = act[a].t /\ act'[a].g = act[a].g /\ act'[a].res = act[a].res
    <3>1. act[a].res.state \in Terminal =>
            /\ g \in Attempts
            /\ run[t][g].state = act[a].res.state /\ run[t][g].claim = act[a].res.claim
      BY <2>2 DEF ThreadFits
    <3>2. act[a].res.state \in Terminal => act[a].res.state \notin {"none", "running"}
      BY DEF Terminal
    <3>3. g \in Attempts /\ run[t][g].state \notin {"none", "running"} =>
            run'[t][g].state = run[t][g].state /\ run'[t][g].claim = run[t][g].claim
      BY <1>1 DEF World, Steady
    <3> QED
      BY <2>2, <3>1, <3>2, <3>3
  <2> QED
    BY <2>1, <2>2
<1> QED
  BY <1>1, <1>2 DEF ThreadFits, At, BeforeSubmit, AfterSubmit, Sending, Denying

\* A thread that goes on after its dispatch was sent.
LEMMA FurtherFits ==
  ASSUME EngineTypes, World, NEW a \in Actors, ThreadFits(a),
         act[a].pc \in AfterSubmit, act'[a].pc \in AfterSubmit \ {"post"},
         act'[a].t = act[a].t, act'[a].g = act[a].g,
         \/ act'[a].res.state \notin Terminal
         \/ act'[a].res = act[a].res
         \/ run'[act[a].t][act[a].g].state = act'[a].res.state
              /\ run'[act[a].t][act[a].g].claim = act'[a].res.claim
  PROVE  ThreadFits(a)'
<1> PICK t, g : t = act[a].t /\ g = act[a].g
  OBVIOUS
<1>1. /\ t \in Tasks /\ g \in Attempts /\ g <= task[t].gen /\ task[t].phase # "none"
      /\ att[t][g].disp \notin Begins
  BY DEF ThreadFits, At, AfterSubmit
<1>2. /\ task'[t].phase # "none" /\ task[t].gen <= task'[t].gen /\ task'[t].gen \in 0..Budget
      /\ att'[t][g].disp \notin Begins
  BY <1>1 DEF World, Steady, TaskRow
<1>3. g <= task'[t].gen
  BY <1>1, <1>2, RowFields DEF Attempts
<1>4. act'[a].res.state \in Terminal =>
        run'[t][g].state = act'[a].res.state /\ run'[t][g].claim = act'[a].res.claim
  <2>1. CASE act'[a].res = act[a].res
    <3>1. act[a].res.state \in Terminal =>
            run[t][g].state = act[a].res.state /\ run[t][g].claim = act[a].res.claim
      BY DEF ThreadFits
    <3>2. act[a].res.state \in Terminal => act[a].res.state \notin {"none", "running"}
      BY DEF Terminal
    <3>3. run[t][g].state \notin {"none", "running"} =>
            run'[t][g].state = run[t][g].state /\ run'[t][g].claim = run[t][g].claim
      BY <1>1 DEF World, Steady
    <3> QED
      BY <2>1, <3>1, <3>2, <3>3
  <2> QED
    BY <2>1
<1> QED
  BY <1>1, <1>2, <1>3, <1>4 DEF ThreadFits, At, AfterSubmit

LEMMA CrashStep ==
  ASSUME EngineTypes, EngineInv, NEW a \in Actors, Crash(a)
  PROVE  StepGood
BY StillWorld, LeaveStep DEF Crash, storeVars, runtimeVars, EngineTypes

LEMMA AdvanceStep ==
  ASSUME EngineTypes, EngineInv, NEW d \in Actors, NEW t \in Tasks, Advance(d, t)
  PROVE  StepGood
<1>1. World /\ grant' \in [Tasks -> BOOLEAN] /\ note' = note /\ ctl' = ctl /\ sent' = sent
  BY StillWorld DEF Advance, storeVars, runtimeVars, EngineTypes
<1> PICK pc \in {"describe", "drive"}, why \in {"own", "any"} : Enter(d, pc, t, 0, "none", why)
  BY DEF Advance
<1>2. 0 \in 0..Budget /\ pc \in WithTask /\ why \in Reasons \cup Controls /\ "none" \in Sightings
  BY BudgetAssumption DEF WithTask, Reasons, Sightings, DispatchStates
<1>3. /\ act' \in [Actors -> ActRow] /\ Others(d)
      /\ act'[d].pc = pc /\ act'[d].t = t /\ act'[d].res = NoResult
  BY <1>2, Enters
<1>4. task[t].phase # "none" /\ ThreadFits(d)
  BY DEF Advance, Candidate, EngineInv, ThreadsFit
<1>5. ThreadFits(d)' /\ act'[d].pc \notin Sending \cup Denying \cup {"receipt"}
  BY <1>1, <1>3, <1>4, PlainFits
<1> QED
  BY <1>1, <1>3, <1>5, ActorStep

LEMMA DescribeStep ==
  ASSUME EngineTypes, EngineInv, NEW d \in Actors, NEW ok \in BOOLEAN, Describe(d, ok)
  PROVE  StepGood
<1>1. ThreadFits(d)
  BY DEF EngineInv, ThreadsFit
<1> PICK t \in Tasks : t = act[d].t /\ task[t].phase # "none"
  BY <1>1 DEF Describe, At, ThreadFits
<1> PICK row : row = Described(task[t], ok)
  OBVIOUS
<1>2. task[t].phase # "closed" => row \in TaskRow /\ MildRow(t, row)
  <2> PICK blockers : blockers = (task[t].blockers \ ProviderBlockers) \cup IF ok THEN {} ELSE ProviderBlockers
    OBVIOUS
  <2>1. /\ blockers \in SUBSET Blockers
        /\ "cancel_requested" \in task[t].blockers => "cancel_requested" \in blockers
    BY RowFields DEF Blockers, ProviderBlockers
  <2>2. row = [task[t] EXCEPT !.blockers = blockers]
    BY DEF Described
  <2> QED
    BY <2>1, <2>2, RowFields DEF MildRow, TaskRow
<1>3. RowStep
  <2>1. CASE task[t].phase = "closed"
    BY <2>1 DEF Describe, Keep, RowStep
  <2>2. CASE task[t].phase # "closed"
    BY <1>2, <2>2, PutsIfNew DEF Describe, RowStep
  <2> QED
    BY <2>1, <2>2
<1>4. World /\ grant' \in [Tasks -> BOOLEAN] /\ note' = note /\ ctl' = ctl /\ sent' = sent
  BY <1>3, AttKept, RunKept, MildWorld DEF Describe, Quiet, External, EngineTypes
<1>5. /\ act' \in [Actors -> ActRow] /\ Others(d)
      /\ act'[d].pc = "claim" /\ act'[d].t = t /\ act'[d].g = act[d].g /\ act'[d].res = act[d].res
  BY GoesTo DEF Describe, WithTask
<1>6. ThreadFits(d)' /\ act'[d].pc \notin Sending \cup Denying \cup {"receipt"}
  BY <1>1, <1>4, <1>5, PlainFits
<1> QED
  BY <1>4, <1>5, <1>6, ActorStep

\* What a step of a thread writes to a dispatch that is on its way.
LEMMA Dispatches ==
  ASSUME EngineTypes, NEW t \in Tasks, NEW g \in Attempts, g <= task[t].gen,
         NEW state \in {"submitted", "unknown", "accepted"}, Dispatch(t, g, state),
         att[t][g].disp # "none", att[t][g].disp = "accepted" => state = "accepted",
         state = "accepted" \/ att[t][g].current = TRUE,
         att[t][g].disp = "prepared" => "cancel_requested" \notin task[t].blockers
  PROVE  AttStep
<1> PICK new : new = [att[t][g] EXCEPT !.disp = state]
  OBVIOUS
<1>1. /\ new \in AttRow /\ new.disp = state /\ new.current = att[t][g].current
      /\ new.obs = att[t][g].obs
  BY AttFields DEF AttRow, DispatchStates
<1>2. att' = [att EXCEPT ![t][g] = new]
  BY DEF Dispatch
<1>3. att' \in [Tasks -> [Attempts -> AttRow]]
  BY <1>1, <1>2 DEF EngineTypes
<1>4. att'[t][g] = new
  BY <1>2 DEF EngineTypes
<1>5. ASSUME NEW u \in Tasks, NEW h \in Attempts, u # t \/ h # g
      PROVE  att'[u][h] = att[u][h]
  BY <1>2, <1>5 DEF EngineTypes
<1>6. ASSUME NEW u \in Tasks, NEW h \in Attempts
      PROVE  /\ att'[u][h].obs >= att[u][h].obs
             /\ att'[u][h].current = att[u][h].current
             /\ h > task[u].gen => att'[u][h] = att[u][h]
             /\ att[u][h].disp = "accepted" => att'[u][h].disp = "accepted"
             /\ att'[u][h].disp # att[u][h].disp =>
                  /\ att[u][h].disp # "none" /\ att'[u][h].disp \in {"submitted", "unknown", "accepted"}
                  /\ att'[u][h].disp # "accepted" => att[u][h].current = TRUE
                  /\ att[u][h].disp = "prepared" => "cancel_requested" \notin task[u].blockers
  <2>1. CASE u = t /\ h = g
    <3>1. ~(g > task[t].gen)
      BY RowFields DEF Attempts
    <3>2. new.obs >= att[t][g].obs
      BY <1>1, AttFields
    <3> QED
      BY <1>1, <1>4, <2>1, <3>1, <3>2
  <2>2. CASE u # t \/ h # g
    BY <1>5, <2>2, AttFields
  <2> QED
    BY <2>1, <2>2
<1>7. CursorsStay
  <2> SUFFICES ASSUME NEW u \in Tasks, NEW h \in Attempts
               PROVE  att'[u][h].obs >= att[u][h].obs
    BY Zenon DEF CursorsStay
  <2> QED
    BY <1>6
<1>8. AttsMild
  BY ONLY <1>6, Zenon DEF AttsMild
<1> QED
  BY <1>3, <1>7, <1>8, Zenon DEF AttStep

\* The blockers and the phase of an open row are written.
LEMMA MildRows ==
  ASSUME EngineTypes, NEW t \in Tasks, task[t].phase \notin {"none", "closed"},
         NEW phase \in Phases \ {"none", "closed"}, NEW blockers \in SUBSET Blockers,
         "cancel_requested" \in task[t].blockers => "cancel_requested" \in blockers,
         NEW perm \in Nat
  PROVE  /\ [task[t] EXCEPT !.phase = phase, !.blockers = blockers, !.perm = perm] \in TaskRow
         /\ MildRow(t, [task[t] EXCEPT !.phase = phase, !.blockers = blockers, !.perm = perm])
BY RowFields DEF MildRow, TaskRow

\* A step that leaves the controls and the runtime's receipts alone.
LEMMA QuietWorld ==
  ASSUME EngineTypes, EngineInv, RowStep, AttStep, RunStep, External
  PROVE  World /\ grant' \in [Tasks -> BOOLEAN] /\ note' = note /\ ctl' = ctl /\ sent' = sent
BY MildWorld DEF External, EngineTypes

\* Where the reading of a dispatch takes a thread.
LEMMA SnapshotFits ==
  ASSUME EngineTypes, EngineInv, World, NEW d \in Actors, NEW t \in Tasks, NEW g \in Attempts,
         NEW row, AfterSnapshot(d, t, g, att[t][g].disp, row), att' = att, run' = run,
         task[t].phase # "none", g <= task[t].gen,
         att[t][g].disp = "prepared" /\ "cancel_requested" \in row.blockers =>
           "cancel_requested" \in task'[t].blockers /\ task'[t].attempt = g
  PROVE  /\ act' \in [Actors -> ActRow] /\ Others(d)
         /\ ThreadFits(d)' /\ act'[d].pc \notin Sending \cup Denying \cup {"receipt"}
<1> PICK disp \in DispatchStates : disp = att[t][g].disp
  BY AttFields
<1>1. /\ task'[t].phase # "none" /\ g <= task'[t].gen /\ att'[t][g].disp = disp
      /\ g \in 0..Budget /\ disp \in Sightings
  <2>1. task[t].gen <= task'[t].gen /\ task'[t].gen \in 0..Budget /\ task'[t].phase # "none"
    BY DEF World, Steady, TaskRow
  <2> QED
    BY <2>1, RowFields DEF Attempts, Sightings
<1>2. CASE disp = "prepared" /\ row.blockers \cap HoldReasons # {}
  <2> PICK why \in {"cancel_requested", "human_pause"} :
             /\ why = "cancel_requested" => "cancel_requested" \in row.blockers
             /\ Enter(d, "hold", t, g, disp, why)
    BY <1>2 DEF AfterSnapshot
  <2>1. "hold" \in WithTask /\ why \in Reasons \cup Controls
    BY DEF WithTask, Reasons
  <2>2. /\ act' \in [Actors -> ActRow] /\ Others(d)
        /\ act'[d].pc = "hold" /\ act'[d].t = t /\ act'[d].g = g
        /\ act'[d].seen = disp /\ act'[d].why = why /\ act'[d].res = NoResult
    BY <1>1, <2>1, Enters
  <2>3. why = "cancel_requested" => CancelStands(d)'
    <3>1. why = "cancel_requested" => "cancel_requested" \in task'[t].blockers /\ task'[t].attempt = g
      BY <1>2
    <3>2. g # 0 /\ att'[t][g].disp = "prepared"
      BY <1>1, <1>2 DEF Attempts
    <3> QED
      BY <1>2, <2>2, <3>1, <3>2 DEF CancelStands, At
  <2> QED
    BY <1>1, <2>2, <2>3 DEF ThreadFits, At, BeforeSubmit, AfterSubmit, Sending, Denying, NoResult, Terminal
<1>3. CASE disp = "prepared" /\ row.blockers \cap HoldReasons = {}
  <2>1. Enter(d, "capable", t, g, disp, "none")
    BY <1>3 DEF AfterSnapshot
  <2>2. "capable" \in WithTask /\ "none" \in Reasons \cup Controls
    BY DEF WithTask, BeforeSubmit, Reasons
  <2>3. /\ act' \in [Actors -> ActRow] /\ Others(d)
        /\ act'[d].pc = "capable" /\ act'[d].t = t /\ act'[d].g = g /\ act'[d].res = NoResult
    BY <1>1, <2>1, <2>2, Enters
  <2> QED
    BY <1>1, <2>3 DEF ThreadFits, At, BeforeSubmit, AfterSubmit, Sending, Denying, NoResult, Terminal
<1>4. CASE disp \in {"submitted", "unknown"}
  <2>1. Enter(d, "post", t, g, disp, "none")
    BY <1>4 DEF AfterSnapshot
  <2>2. "post" \in WithTask /\ "none" \in Reasons \cup Controls
    BY DEF WithTask, AfterSubmit, Reasons
  <2>3. /\ act' \in [Actors -> ActRow] /\ Others(d)
        /\ act'[d].pc = "post" /\ act'[d].t = t /\ act'[d].g = g /\ act'[d].res = NoResult
    BY <1>1, <2>1, <2>2, Enters
  <2>4. att'[t][g].current = TRUE
    BY <1>4 DEF EngineInv, AttemptsFit, Unsettled
  <2> QED
    BY <1>1, <1>4, <2>3, <2>4
       DEF ThreadFits, At, Begins, BeforeSubmit, AfterSubmit, Sending, Denying, NoResult, Terminal
<1>5. CASE disp = "accepted"
  <2>1. Enter(d, "poll", t, g, disp, "none")
    BY <1>5 DEF AfterSnapshot
  <2>2. "poll" \in WithTask /\ "none" \in Reasons \cup Controls
    BY DEF WithTask, AfterSubmit, Reasons
  <2>3. /\ act' \in [Actors -> ActRow] /\ Others(d)
        /\ act'[d].pc = "poll" /\ act'[d].t = t /\ act'[d].g = g /\ act'[d].res = NoResult
    BY <1>1, <2>1, <2>2, Enters
  <2>4. att'[t][g].disp \notin Begins
    BY <1>1, <1>5 DEF Begins
  <2> QED
    BY <1>1, <2>3, <2>4
       DEF ThreadFits, At, BeforeSubmit, AfterSubmit, Sending, Denying, NoResult, Terminal
<1>6. CASE disp \in {"none", "closed"}
  <2>1. Leave(d)
    BY <1>6 DEF AfterSnapshot
  <2> QED
    BY <2>1, Leaves, IdleFits
<1> QED
  BY <1>2, <1>3, <1>4, <1>5, <1>6 DEF DispatchStates

\* The reading of the row and its dispatch.
LEMMA DriveStep ==
  ASSUME EngineTypes, EngineInv, NEW d \in Actors, Drive(d)
  PROVE  StepGood
<1>1. ThreadFits(d)
  BY DEF EngineInv, ThreadsFit
<1> PICK t \in Tasks : t = act[d].t /\ task[t].phase # "none"
  BY <1>1 DEF Drive, At, ThreadFits
<1> PICK g \in 0..Budget : g = task[t].attempt
  BY RowFields
<1>2. RunStep /\ AttStep /\ External /\ att' = att /\ run' = run
  BY AttKept, RunKept DEF Drive, Quiet
<1>3. CASE g = 0 \/ Passive(d, task[t], att[t][g])
  <2>1. RowStep /\ Leave(d)
    BY <1>3 DEF Drive, Keep, RowStep
  <2> QED
    BY <1>2, <2>1, QuietWorld, LeaveStep
<1>4. CASE ~(g = 0 \/ Passive(d, task[t], att[t][g]))
  <2> PICK row : row = Checked(t, att[t][g].disp)
    OBVIOUS
  <2>1. /\ PutIfNew(t, row)
        /\ Leave(d) \/ AfterSnapshot(d, t, g, att[t][g].disp, row)
    BY <1>4, Zenon DEF Drive
  <2>2. g \in Attempts /\ task[t].phase # "closed" /\ g <= task[t].gen
    <3>1. g # 0 /\ task[t].phase # "closed"
      BY <1>4, Zenon DEF Passive
    <3>2. g <= task[t].gen
      BY DEF EngineInv, RowsFit
    <3> QED
      BY <3>1, <3>2 DEF Attempts
  <2>3. /\ row \in TaskRow /\ MildRow(t, row)
        /\ row.attempt = task[t].attempt
    <3> PICK blockers : blockers = IF grant[t] THEN task[t].blockers ELSE task[t].blockers \cup {"grant_withdrawal"}
      OBVIOUS
    <3> PICK phase \in {"stopping", task[t].phase} :
               row = [task[t] EXCEPT !.phase = phase, !.blockers = blockers]
      <4> PICK one : one = [task[t] EXCEPT !.blockers = blockers]
        OBVIOUS
      <4>1. row = [one EXCEPT !.phase = "stopping"] \/ row = one
        BY DEF Checked
      <4>2. /\ [one EXCEPT !.phase = "stopping"] = [task[t] EXCEPT !.phase = "stopping", !.blockers = blockers]
            /\ one = [task[t] EXCEPT !.phase = task[t].phase, !.blockers = blockers]
        BY RowFields, Zenon DEF TaskRow
      <4> QED
        BY <4>1, <4>2, Zenon
    <3>1. /\ blockers \in SUBSET Blockers
          /\ "cancel_requested" \in task[t].blockers => "cancel_requested" \in blockers
      BY RowFields DEF Blockers, Holds
    <3>2. phase \in Phases \ {"none", "closed"}
      BY <2>2, RowFields DEF Phases
    <3>3. row = [task[t] EXCEPT !.phase = phase, !.blockers = blockers, !.perm = task[t].perm]
      BY RowFields DEF TaskRow
    <3>4. task[t].perm \in Nat
      BY RowFields
    <3>5. row \in TaskRow /\ MildRow(t, row)
      <4>1. /\ [task[t] EXCEPT !.phase = phase, !.blockers = blockers, !.perm = task[t].perm] \in TaskRow
            /\ MildRow(t, [task[t] EXCEPT !.phase = phase, !.blockers = blockers, !.perm = task[t].perm])
        BY <2>2, <3>1, <3>2, <3>4, MildRows
      <4> QED
        BY <3>3, <4>1
    <3> QED
      BY <3>5 DEF MildRow
  <2>4. RowStep /\ task'[t] = row
    <3>1. UNCHANGED <<task, work, cmd>> \/ Saved(t, row)
      BY <2>1, <2>3, PutsIfNew, Zenon
    <3>2. task'[t] = row
      BY <2>1, Zenon DEF PutIfNew, Put, EngineTypes
    <3> QED
      BY <2>3, <3>1, <3>2, Zenon DEF RowStep
  <2>5. World /\ grant' \in [Tasks -> BOOLEAN] /\ note' = note /\ ctl' = ctl /\ sent' = sent
    BY <1>2, <2>4, QuietWorld
  <2>6. CASE Leave(d)
    BY <2>5, <2>6, LeaveStep
  <2>7. CASE AfterSnapshot(d, t, g, att[t][g].disp, row)
    <3>1. /\ act' \in [Actors -> ActRow] /\ Others(d)
          /\ ThreadFits(d)' /\ act'[d].pc \notin Sending \cup Denying \cup {"receipt"}
      BY <1>2, <2>2, <2>3, <2>4, <2>5, <2>7, SnapshotFits, Zenon
    <3> QED
      BY <2>5, <3>1, ActorStep
  <2> QED
    BY <2>1, <2>6, <2>7, Zenon
<1> QED
  BY <1>3, <1>4

\* A thread that goes on within what follows the sending of its dispatch.
LEMMA FurtherStep ==
  ASSUME EngineTypes, EngineInv, World, NEW a \in Actors, act[a].pc \in AfterSubmit,
         NEW pc \in AfterSubmit \ (Denying \cup {"post"}), GoTo(a, pc),
         grant' \in [Tasks -> BOOLEAN], note' = note, ctl' = ctl, sent' = sent
  PROVE  StepGood
<1>1. pc \in WithTask /\ pc \notin Sending \cup Denying \cup {"receipt"}
  BY DEF WithTask, AfterSubmit, Sending, Denying
<1>2. /\ act' \in [Actors -> ActRow] /\ Others(a)
      /\ act'[a].pc = pc /\ act'[a].t = act[a].t /\ act'[a].g = act[a].g /\ act'[a].res = act[a].res
  BY <1>1, GoesTo
<1>3. ThreadFits(a)'
  BY <1>2, FurtherFits DEF EngineInv, ThreadsFit
<1> QED
  BY <1>1, <1>2, <1>3, ActorStep

\* A thread that waits for an answer about a dispatch has a task and an attempt.
LEMMA FurtherHas ==
  ASSUME EngineTypes, EngineInv, NEW a \in Actors, act[a].pc \in AfterSubmit \cup BeforeSubmit
  PROVE  /\ act[a].t \in Tasks /\ act[a].g \in Attempts
         /\ task[act[a].t].phase # "none" /\ act[a].g <= task[act[a].t].gen
         /\ act[a].pc \in AfterSubmit => att[act[a].t][act[a].g].disp \notin Begins
BY DEF EngineInv, ThreadsFit, ThreadFits, At, AfterSubmit, BeforeSubmit

\* The outcome of a send is not known.
LEMMA NeedsAttentionStep ==
  ASSUME EngineTypes, EngineInv, NEW d \in Actors, NeedsAttention(d)
  PROVE  StepGood
<1> PICK t, g : t = act[d].t /\ g = act[d].g
  OBVIOUS
<1>1. act[d].pc \in AfterSubmit
  BY DEF NeedsAttention, At, AfterSubmit
<1>2. t \in Tasks /\ g \in Attempts /\ task[t].phase # "none" /\ g <= task[t].gen
      /\ att[t][g].disp \notin Begins
  BY <1>1, FurtherHas
<1>3. Leave(d) /\ External /\ RunStep
  BY RunKept DEF NeedsAttention, Quiet
<1>4. AttStep
  <2>1. CASE UNCHANGED att
    BY <2>1, AttKept
  <2>2. CASE att[t][g].disp \in {"submitted", "prepared"} /\ Dispatch(t, g, "unknown")
    <3>1. att[t][g].disp = "submitted"
      BY <1>2, <2>2 DEF Begins
    <3>2. att[t][g].current = TRUE
      BY <1>2, <3>1 DEF EngineInv, AttemptsFit, Unsettled
    <3> QED
      BY <1>2, <2>2, <3>1, <3>2, Dispatches
  <2> QED
    BY <2>1, <2>2 DEF NeedsAttention
<1>5. RowStep
  <2>1. CASE task[t].phase = "closed"
    BY <2>1 DEF NeedsAttention, Keep, RowStep
  <2>2. CASE task[t].phase # "closed"
    <3> PICK phase : phase = IF task[t].phase = "stopping" \/ "cancel_requested" \in task[t].blockers
                             THEN "stopping" ELSE "recovering"
      OBVIOUS
    <3> PICK blockers : blockers = task[t].blockers \cup {"operation_unknown"}
      OBVIOUS
    <3> PICK row : row = [task[t] EXCEPT !.blockers = blockers, !.phase = phase]
      OBVIOUS
    <3>1. PutIfNew(t, row)
      BY <2>2 DEF NeedsAttention
    <3>2. phase \in Phases \ {"none", "closed"} /\ blockers \in SUBSET Blockers
      BY RowFields, <1>2 DEF Phases, Blockers, Doubts
    <3>3. row \in TaskRow /\ MildRow(t, row)
      BY <1>2, <2>2, <3>2, RowFields DEF MildRow, TaskRow
    <3> QED
      BY <1>2, <3>1, <3>3, PutsIfNew DEF RowStep
  <2> QED
    BY <2>1, <2>2
<1> QED
  BY <1>3, <1>4, <1>5, QuietWorld, LeaveStep

LEMMA RuntimeUnavailableStep ==
  ASSUME EngineTypes, EngineInv, NEW d \in Actors, RuntimeUnavailable(d)
  PROVE  StepGood
<1> PICK t : t = act[d].t
  OBVIOUS
<1>1. act[d].pc \in BeforeSubmit
  BY DEF RuntimeUnavailable, At, BeforeSubmit
<1>2. t \in Tasks /\ task[t].phase # "none"
  BY <1>1, FurtherHas
<1>3. Leave(d) /\ External /\ RunStep /\ AttStep
  BY RunKept, AttKept DEF RuntimeUnavailable, Quiet
<1>4. RowStep
  <2>1. CASE task[t].phase = "closed"
    BY <2>1 DEF RuntimeUnavailable, Keep, RowStep
  <2>2. CASE task[t].phase # "closed"
    <3> PICK blockers : blockers = task[t].blockers \cup Admission
      OBVIOUS
    <3> PICK row : row = [task[t] EXCEPT !.blockers = blockers, !.phase = "recovering"]
      OBVIOUS
    <3>1. PutIfNew(t, row)
      BY <2>2 DEF RuntimeUnavailable
    <3>2. "recovering" \in Phases /\ blockers \in SUBSET Blockers
      BY RowFields, <1>2 DEF Phases, Blockers, Doubts, Admission
    <3>3. row \in TaskRow /\ MildRow(t, row)
      BY <1>2, <2>2, <3>2, RowFields DEF MildRow, TaskRow
    <3> QED
      BY <1>2, <3>1, <3>3, PutsIfNew DEF RowStep
  <2> QED
    BY <2>1, <2>2
<1> QED
  BY <1>3, <1>4, QuietWorld, LeaveStep

LEMMA CapabilitiesStep ==
  ASSUME EngineTypes, EngineInv, NEW d \in Actors, NEW ok \in BOOLEAN, Capabilities(d, ok)
  PROVE  StepGood
<1> PICK t, g : t = act[d].t /\ g = act[d].g
  OBVIOUS
<1>1. act[d].pc \in BeforeSubmit
  BY DEF Capabilities, At, BeforeSubmit
<1>2. t \in Tasks /\ g \in Attempts /\ task[t].phase # "none" /\ g <= task[t].gen
  BY <1>1, FurtherHas
<1>3. World /\ grant' \in [Tasks -> BOOLEAN] /\ note' = note /\ ctl' = ctl /\ sent' = sent
      /\ UNCHANGED <<task, att, run>>
  BY StillWorld DEF Capabilities, storeVars, runtimeVars, EngineTypes
<1> PICK pc \in {"submit", "unavailable"} : GoTo(d, pc)
  BY DEF Capabilities
<1>4. pc \in WithTask /\ pc \in BeforeSubmit /\ pc \notin Sending \cup Denying \cup {"receipt"}
  BY DEF WithTask, BeforeSubmit, Sending, Denying
<1>5. /\ act' \in [Actors -> ActRow] /\ Others(d)
      /\ act'[d].pc = pc /\ act'[d].t = t /\ act'[d].g = g /\ act'[d].res = act[d].res
  BY <1>4, GoesTo
<1>6. act[d].res.state \in Terminal => run[t][g].state = act[d].res.state /\ run[t][g].claim = act[d].res.claim
  BY DEF EngineInv, ThreadsFit, ThreadFits
<1>7. ThreadFits(d)'
  BY <1>2, <1>3, <1>4, <1>5, <1>6 DEF ThreadFits, At, BeforeSubmit, AfterSubmit
<1> QED
  BY <1>3, <1>4, <1>5, <1>7, ActorStep

\* The dispatch is stamped before anything is sent.
LEMMA SubmitDispatchStep ==
  ASSUME EngineTypes, EngineInv, NEW d \in Actors, SubmitDispatch(d)
  PROVE  StepGood
<1> PICK t, g : t = act[d].t /\ g = act[d].g
  OBVIOUS
<1> PICK row, disp : row = task[t] /\ disp = att[t][g].disp
  OBVIOUS
<1>1. act[d].pc \in BeforeSubmit
  BY DEF SubmitDispatch, At, BeforeSubmit
<1>2. t \in Tasks /\ g \in Attempts /\ row.phase # "none" /\ g <= row.gen
  BY <1>1, FurtherHas
<1>3. External /\ RunStep /\ run' = run
  BY RunKept DEF SubmitDispatch, Quiet
<1>4. CASE Keep /\ Leave(d) /\ UNCHANGED att
  <2>1. RowStep /\ AttStep
    BY <1>4, AttKept DEF Keep, RowStep
  <2> QED
    BY <1>3, <1>4, <2>1, QuietWorld, LeaveStep
<1>5. CASE Keep /\ UNCHANGED att /\ AfterSnapshot(d, t, g, disp, [row EXCEPT !.blockers = {}])
  <2>1. RowStep /\ AttStep
    BY <1>5, AttKept DEF Keep, RowStep
  <2>2. World /\ grant' \in [Tasks -> BOOLEAN] /\ note' = note /\ ctl' = ctl /\ sent' = sent
    BY <1>3, <2>1, QuietWorld
  <2> PICK seen : seen = [row EXCEPT !.blockers = {}]
    OBVIOUS
  <2>3. seen.blockers = {}
    BY <1>2, RowFields DEF TaskRow
  <2>4. AfterSnapshot(d, t, g, att[t][g].disp, seen)
    BY <1>5
  <2>5. "cancel_requested" \notin seen.blockers
    BY <2>3
  <2>6. /\ act' \in [Actors -> ActRow] /\ Others(d)
        /\ ThreadFits(d)' /\ act'[d].pc \notin Sending \cup Denying \cup {"receipt"}
    BY <1>2, <1>3, <1>5, <2>2, <2>4, <2>5, SnapshotFits
  <2> QED
    BY <2>2, <2>6, ActorStep
<1>6. CASE /\ Keep /\ Dispatch(t, g, "submitted") /\ Enter(d, "post", t, g, "submitted", "none")
           /\ disp = "prepared" /\ row.phase # "closed"
           /\ row.blockers \cap (HoldReasons \cup {"grant_withdrawal"}) = {}
  <2>1. RowStep /\ att[t][g].current = TRUE
    <3>1. RowStep
      BY <1>6 DEF Keep, RowStep
    <3>2. att[t][g].disp \in Unsettled
      BY <1>6 DEF Unsettled
    <3> QED
      BY <1>2, <3>1, <3>2 DEF EngineInv, AttemptsFit
  <2>2. "cancel_requested" \notin task[t].blockers
    BY <1>6 DEF HoldReasons
  <2>3. AttStep
    BY <1>2, <1>6, <2>1, <2>2, Dispatches
  <2>4. World /\ grant' \in [Tasks -> BOOLEAN] /\ note' = note /\ ctl' = ctl /\ sent' = sent
    BY <1>3, <2>1, <2>3, QuietWorld
  <2>5. "post" \in WithTask /\ "none" \in Reasons \cup Controls /\ "submitted" \in Sightings /\ g \in 0..Budget
    BY <1>2 DEF WithTask, AfterSubmit, Reasons, Sightings, DispatchStates, Attempts
  <2>6. /\ act' \in [Actors -> ActRow] /\ Others(d)
        /\ act'[d].pc = "post" /\ act'[d].t = t /\ act'[d].g = g /\ act'[d].res = NoResult
    BY <1>2, <1>6, <2>5, Enters
  <2>7. att'[t][g].current = TRUE
    BY <1>2, <2>1, <2>3 DEF AttStep, AttsMild
  <2>8. att'[t][g].disp \notin Begins
    BY <1>2, <1>6, AttFields DEF Dispatch, Begins, EngineTypes, AttRow
  <2>9. task' = task
    BY <1>6 DEF Keep
  <2>10. ThreadFits(d)' /\ act'[d].pc \notin Sending \cup Denying \cup {"receipt"}
    BY <1>2, <2>6, <2>7, <2>8, <2>9
       DEF ThreadFits, At, BeforeSubmit, AfterSubmit, Sending, Denying, NoResult, Terminal
  <2> QED
    BY <2>4, <2>6, <2>10, ActorStep
<1>7. CASE /\ Put(t, [row EXCEPT !.blockers = @ \cup {"grant_withdrawal"}]) /\ Leave(d) /\ UNCHANGED att
           /\ row.phase # "closed"
  <2> PICK blockers : blockers = row.blockers \cup {"grant_withdrawal"}
    OBVIOUS
  <2> PICK new : new = [row EXCEPT !.blockers = blockers]
    OBVIOUS
  <2>1. new \in TaskRow /\ MildRow(t, new)
    <3>1. blockers \in SUBSET Blockers
      BY <1>2, RowFields DEF Blockers, Holds
    <3> QED
      BY <1>2, <1>7, <3>1, RowFields DEF MildRow, TaskRow
  <2>2. RowStep /\ AttStep
    BY <1>2, <1>7, <2>1, Puts, AttKept DEF RowStep
  <2> QED
    BY <1>3, <1>7, <2>2, QuietWorld, LeaveStep
<1> QED
  <2>1. CASE row.phase = "closed"
    BY <1>4, <2>1 DEF SubmitDispatch
  <2>2. CASE row.phase # "closed" /\ disp # "prepared"
    BY <1>5, <2>2 DEF SubmitDispatch
  <2>3. CASE row.phase # "closed" /\ disp = "prepared"
              /\ (row.phase = "stopping" \/ row.blockers \cap (HoldReasons \cup {"grant_withdrawal"}) # {})
    BY <1>4, <2>3 DEF SubmitDispatch
  <2>4. CASE row.phase # "closed" /\ disp = "prepared"
              /\ ~(row.phase = "stopping" \/ row.blockers \cap (HoldReasons \cup {"grant_withdrawal"}) # {})
    BY <1>6, <1>7, <2>4 DEF SubmitDispatch
  <2> QED
    BY <2>1, <2>2, <2>3, <2>4

\* What the runtime publishes of a run.
LEMMA Publishes ==
  ASSUME EngineTypes, NEW t \in Tasks, NEW g \in Attempts, NEW r \in RunRow, Publish(t, g, r),
         run[t][g].state # "none" => r.state # "none",
         run[t][g].state \notin {"none", "running"} => r.state = run[t][g].state /\ r.claim = run[t][g].claim,
         run[t][g].state = "none" /\ r.state # "none" =>
           att[t][g].current = TRUE /\ att[t][g].disp \notin Begins
  PROVE  RunStep
<1> PICK new : new = [r EXCEPT !.seq = r.seq + 1]
  OBVIOUS
<1>1. new \in RunRow /\ new.state = r.state /\ new.claim = r.claim
  BY DEF RunRow
<1>2. run' = [run EXCEPT ![t][g] = new]
  BY DEF Publish
<1>3. run' \in [Tasks -> [Attempts -> RunRow]] /\ run'[t][g] = new
  BY <1>1, <1>2 DEF EngineTypes
<1>4. ASSUME NEW u \in Tasks, NEW h \in Attempts, u # t \/ h # g
      PROVE  run'[u][h] = run[u][h]
  BY <1>2, <1>4 DEF EngineTypes
<1>5. ASSUME NEW u \in Tasks, NEW h \in Attempts
      PROVE  /\ run[u][h].state # "none" => run'[u][h].state # "none"
             /\ run[u][h].state \notin {"none", "running"} =>
                  run'[u][h].state = run[u][h].state /\ run'[u][h].claim = run[u][h].claim
             /\ run[u][h].state = "none" /\ run'[u][h].state # "none" =>
                  att[u][h].current = TRUE /\ att[u][h].disp \notin Begins
  <2>1. CASE u = t /\ h = g
    BY <1>1, <1>3, <2>1
  <2>2. CASE u # t \/ h # g
    BY <1>4, <2>2
  <2> QED
    BY <2>1, <2>2
<1> QED
  BY <1>3, <1>5 DEF RunStep, RunsMild

\* The request, which may be lost as its answer may.
LEMMA PostStep ==
  ASSUME EngineTypes, EngineInv, NEW d \in Actors, NEW arrives \in BOOLEAN, NEW answered \in BOOLEAN,
         Post(d, arrives, answered)
  PROVE  StepGood
<1> PICK t, g : t = act[d].t /\ g = act[d].g
  OBVIOUS
<1>1. act[d].pc \in AfterSubmit
  BY DEF Post, At, AfterSubmit
<1>2. t \in Tasks /\ g \in Attempts /\ att[t][g].disp \notin Begins
  BY <1>1, FurtherHas
<1>3. RowStep /\ AttStep /\ External
  BY AttKept DEF Post, Keep, RowStep
<1>4. RunStep
  <2>1. CASE UNCHANGED run
    BY <2>1, RunKept
  <2>2. CASE run[t][g].state = "none" /\ Publish(t, g, [NoRun EXCEPT !.state = "running", !.starts = 1])
    <3> PICK r : r = [NoRun EXCEPT !.state = "running", !.starts = 1]
      OBVIOUS
    <3>1. r \in RunRow /\ r.state = "running"
      <4>1. r = [state |-> "running", seq |-> 0, perm |-> 0, asked |-> 0, stop |-> FALSE,
                 starts |-> 1, claim |-> "none"]
        BY DEF NoRun
      <4>2. "running" \in RunStates /\ "none" \in RunResults /\ 1 \in 0..1 /\ 0 \in Nat
        BY DEF RunStates, RunResults
      <4>3. [state |-> "running", seq |-> 0, perm |-> 0, asked |-> 0, stop |-> FALSE,
             starts |-> 1, claim |-> "none"] \in RunRow
        BY <4>2 DEF RunRow
      <4> QED
        BY <4>1, <4>3
    <3>2. att[t][g].current = TRUE
      BY <2>2 DEF Post, EngineInv, ThreadsFit, ThreadFits
    <3>3. Publish(t, g, r)
      BY <2>2
    <3> QED
      BY <1>2, <2>2, <3>1, <3>2, <3>3, Publishes
  <2> QED
    BY <2>1, <2>2 DEF Post, Begun
<1>5. World /\ grant' \in [Tasks -> BOOLEAN] /\ note' = note /\ ctl' = ctl /\ sent' = sent
  BY <1>3, <1>4, QuietWorld
<1> PICK pc \in {"attention", "accept"} : GoTo(d, pc)
  BY DEF Post
<1>6. pc \in AfterSubmit \ (Denying \cup {"post"})
  BY DEF AfterSubmit, Denying
<1> QED
  BY <1>1, <1>5, <1>6, FurtherStep

LEMMA AcceptDispatchStep ==
  ASSUME EngineTypes, EngineInv, NEW d \in Actors, AcceptDispatch(d)
  PROVE  StepGood
<1> PICK t, g : t = act[d].t /\ g = act[d].g
  OBVIOUS
<1>1. act[d].pc \in AfterSubmit
  BY DEF AcceptDispatch, At, AfterSubmit
<1>2. t \in Tasks /\ g \in Attempts /\ g <= task[t].gen /\ att[t][g].disp \notin Begins
  BY <1>1, FurtherHas
<1>3. RowStep /\ RunStep /\ External
  BY RunKept DEF AcceptDispatch, Keep, Quiet, RowStep
<1>4. AttStep
  <2>1. CASE UNCHANGED att
    BY <2>1, AttKept
  <2>2. CASE Dispatch(t, g, "accepted")
    <3>1. att[t][g].disp \notin {"none", "prepared"}
      BY <1>2 DEF Begins
    <3> QED
      BY <1>2, <2>2, <3>1, Dispatches
  <2> QED
    BY <2>1, <2>2 DEF AcceptDispatch
<1>5. World /\ grant' \in [Tasks -> BOOLEAN] /\ note' = note /\ ctl' = ctl /\ sent' = sent
  BY <1>3, <1>4, QuietWorld
<1>6. CASE Leave(d)
  BY <1>5, <1>6, LeaveStep
<1>7. CASE GoTo(d, "poll")
  <2>1. "poll" \in AfterSubmit \ (Denying \cup {"post"})
    BY DEF AfterSubmit, Denying
  <2> QED
    BY <1>1, <1>5, <1>7, <2>1, FurtherStep
<1> QED
  BY <1>6, <1>7 DEF AcceptDispatch

LEMMA PollStep ==
  ASSUME EngineTypes, EngineInv, NEW d \in Actors, Poll(d)
  PROVE  StepGood
<1>1. act[d].pc \in AfterSubmit
  BY DEF Poll, At, AfterSubmit
<1>2. World /\ grant' \in [Tasks -> BOOLEAN] /\ note' = note /\ ctl' = ctl /\ sent' = sent
  BY StillWorld DEF Poll, storeVars, runtimeVars, EngineTypes
<1> PICK pc \in {"stop", "ask"} : GoTo(d, pc)
  BY DEF Poll
<1>3. pc \in AfterSubmit \ (Denying \cup {"post"})
  BY DEF AfterSubmit, Denying
<1> QED
  BY <1>1, <1>2, <1>3, FurtherStep

LEMMA ApplyUnknownStep ==
  ASSUME EngineTypes, EngineInv, NEW d \in Actors, ApplyUnknown(d)
  PROVE  StepGood
<1>1. act[d].pc \in AfterSubmit
  BY DEF ApplyUnknown, At, AfterSubmit
<1>2. World /\ grant' \in [Tasks -> BOOLEAN] /\ note' = note /\ ctl' = ctl /\ sent' = sent
  BY StillWorld DEF ApplyUnknown, storeVars, runtimeVars, EngineTypes
<1>3. "attention" \in AfterSubmit \ (Denying \cup {"post"}) /\ GoTo(d, "attention")
  BY DEF AfterSubmit, Denying, ApplyUnknown
<1> QED
  BY <1>1, <1>2, <1>3, FurtherStep

\* A stop only marks a run that is going.
LEMMA Stops ==
  ASSUME EngineTypes, NEW t \in Tasks, NEW g \in Attempts, Stopped(t, g)
  PROVE  RunStep
<1>1. CASE UNCHANGED run
  BY <1>1, RunKept
<1>2. CASE run[t][g].state = "running" /\ Publish(t, g, [run[t][g] EXCEPT !.stop = TRUE])
  <2> PICK r : r = [run[t][g] EXCEPT !.stop = TRUE]
    OBVIOUS
  <2>1. r \in RunRow /\ r.state = run[t][g].state /\ r.claim = run[t][g].claim
    BY RunFields DEF RunRow
  <2>2. Publish(t, g, r)
    BY <1>2
  <2> QED
    BY <1>2, <2>1, <2>2, Publishes
<1> QED
  BY <1>1, <1>2 DEF Stopped

LEMMA StopStep ==
  ASSUME EngineTypes, EngineInv, NEW d \in Actors, NEW ok \in BOOLEAN, Stop(d, ok)
  PROVE  StepGood
<1> PICK t, g : t = act[d].t /\ g = act[d].g
  OBVIOUS
<1>1. act[d].pc \in AfterSubmit
  BY DEF Stop, At, AfterSubmit
<1>2. t \in Tasks /\ g \in Attempts
  BY <1>1, FurtherHas
<1>3. RowStep /\ AttStep /\ External
  BY AttKept DEF Stop, Keep, RowStep
<1>4. RunStep
  <2>1. CASE ok
    BY <1>2, <2>1, Stops DEF Stop
  <2>2. CASE ~ok
    BY <2>2, RunKept DEF Stop
  <2> QED
    BY <2>1, <2>2
<1>5. World /\ grant' \in [Tasks -> BOOLEAN] /\ note' = note /\ ctl' = ctl /\ sent' = sent
  BY <1>3, <1>4, QuietWorld
<1> PICK pc \in {"attention", "ask"} : GoTo(d, pc)
  BY DEF Stop
<1>6. pc \in AfterSubmit \ (Denying \cup {"post"})
  BY DEF AfterSubmit, Denying
<1> QED
  BY <1>1, <1>5, <1>6, FurtherStep

\* What the runtime's result() returns.
LEMMA ObservationIs ==
  ASSUME EngineTypes, EngineInv, NEW t \in Tasks, NEW g \in Attempts
  PROVE  /\ Observation(t, g) \in ResRow
         /\ Observation(t, g).state \in Terminal =>
              /\ run[t][g].state = Observation(t, g).state
              /\ run[t][g].claim = Observation(t, g).claim
         /\ Observation(t, g).notes \in Receipts
<1> PICK S : S = {c \in Controls : note[c].t = t /\ note[c].g = g}
  OBVIOUS
<1> PICK notes : notes = [c \in S |-> note[c]]
  OBVIOUS
<1>1. notes \in Receipts
  <2>1. \A c \in S : note[c] \in NoteRow /\ note[c] # NoNote
    BY CtlFields DEF NoNote
  <2>2. \A c \in S : note[c] \in GivenRow
    BY <2>1 DEF EngineInv, NotesFit, GivenRow
  <2>3. notes \in [S -> GivenRow] /\ S \in SUBSET Controls
    BY <2>2
  <2> QED
    BY <2>3 DEF Receipts
<1> PICK state : state = IF run[t][g].state = "interrupted" THEN "unknown" ELSE run[t][g].state
  OBVIOUS
<1>2. state \in RunStates \cup {"unknown"} /\ (state \in Terminal => run[t][g].state = state)
  BY RunFields DEF Terminal
<1>3. Observation(t, g) = [state |-> state, seq |-> run[t][g].seq, perm |-> run[t][g].perm,
                           claim |-> run[t][g].claim, notes |-> notes]
  BY DEF Observation
<1> QED
  BY <1>1, <1>2, <1>3, RunFields DEF ResRow

LEMMA AskStep ==
  ASSUME EngineTypes, EngineInv, NEW d \in Actors, NEW ok \in BOOLEAN, Ask(d, ok)
  PROVE  StepGood
<1> PICK t, g : t = act[d].t /\ g = act[d].g
  OBVIOUS
<1>1. act[d].pc \in AfterSubmit
  BY DEF Ask, At, AfterSubmit
<1>2. t \in Tasks /\ g \in Attempts
  BY <1>1, FurtherHas
<1>3. World /\ grant' \in [Tasks -> BOOLEAN] /\ note' = note /\ ctl' = ctl /\ sent' = sent
      /\ run' = run
  BY StillWorld DEF Ask, storeVars, runtimeVars, EngineTypes
<1> PICK res : res = IF ok THEN Observation(t, g) ELSE NoResult
  OBVIOUS
<1>4. /\ res \in ResRow
      /\ res.state \in Terminal => run[t][g].state = res.state /\ run[t][g].claim = res.claim
  <2>1. NoResult.state \notin Terminal
    BY DEF NoResult, Terminal
  <2> QED
    BY <1>2, <2>1, EmptyRows, ObservationIs
<1> PICK pc \in {"observe", "attention"} : act' = [act EXCEPT ![d].pc = pc, ![d].res = res]
  BY DEF Ask
<1> PICK r : r = [act[d] EXCEPT !.pc = pc, !.res = res]
  OBVIOUS
<1>5. pc \in AfterSubmit \ {"post"} /\ pc \in WithTask /\ pc \notin Sending \cup Denying \cup {"receipt"}
  BY DEF AfterSubmit, WithTask, Sending, Denying
<1>6. /\ r \in ActRow /\ r.pc = pc /\ r.t = t /\ r.g = g /\ r.res = res
  BY <1>4, <1>5, ActFields DEF ActRow
<1>7. act' = [act EXCEPT ![d] = r]
  BY DEF EngineTypes
<1>8. act' \in [Actors -> ActRow] /\ Others(d) /\ act'[d] = r
  BY <1>6, <1>7, Goes
<1>9. \/ act'[d].res.state \notin Terminal
      \/ run'[act[d].t][act[d].g].state = act'[d].res.state
           /\ run'[act[d].t][act[d].g].claim = act'[d].res.claim
  BY <1>3, <1>4, <1>6, <1>8
<1>10. ThreadFits(d)
  BY DEF EngineInv, ThreadsFit
<1>11. ThreadFits(d)'
  BY <1>1, <1>3, <1>5, <1>6, <1>8, <1>9, <1>10, FurtherFits
<1> QED
  BY <1>3, <1>5, <1>6, <1>8, <1>11, ActorStep

\* An older snapshot is dropped, so the cursor only goes forward.
LEMMA ObserveStep ==
  ASSUME EngineTypes, EngineInv, NEW d \in Actors, Observe(d)
  PROVE  StepGood
<1> PICK t, g : t = act[d].t /\ g = act[d].g
  OBVIOUS
<1> PICK seq \in Nat : seq = act[d].res.seq
  BY ActFields
<1>1. act[d].pc \in AfterSubmit
  BY DEF Observe, At, AfterSubmit
<1>2. t \in Tasks /\ g \in Attempts /\ g <= task[t].gen
  BY <1>1, FurtherHas
<1>3. RowStep /\ RunStep /\ External
  BY RunKept DEF Observe, Keep, Quiet, RowStep
<1>4. CASE Leave(d) /\ UNCHANGED att
  BY <1>3, <1>4, AttKept, QuietWorld, LeaveStep
<1>5. CASE GoTo(d, "supersede") /\ att' = [att EXCEPT ![t][g].obs = seq] /\ ~(seq < att[t][g].obs)
  <2> PICK new : new = [att[t][g] EXCEPT !.obs = seq]
    OBVIOUS
  <2>1. /\ new \in AttRow /\ new.disp = att[t][g].disp /\ new.current = att[t][g].current /\ new.obs = seq
    BY <1>2, AttFields DEF AttRow
  <2>2. att' = [att EXCEPT ![t][g] = new]
    BY <1>5
  <2>3. att' \in [Tasks -> [Attempts -> AttRow]] /\ att'[t][g] = new
    BY <1>2, <2>1, <2>2 DEF EngineTypes
  <2>4. ASSUME NEW u \in Tasks, NEW h \in Attempts, u # t \/ h # g
        PROVE  att'[u][h] = att[u][h]
    BY <1>2, <2>2, <2>4 DEF EngineTypes
  <2>5. ~(g > task[t].gen)
    BY <1>2, RowFields DEF Attempts
  <2>6. ASSUME NEW u \in Tasks, NEW h \in Attempts
        PROVE  /\ att'[u][h].current = att[u][h].current /\ att'[u][h].disp = att[u][h].disp
               /\ h > task[u].gen => att'[u][h] = att[u][h]
               /\ att'[u][h].obs >= att[u][h].obs
    <3>1. CASE u = t /\ h = g
      <4>1. seq >= att[t][g].obs
        BY <1>2, <1>5, AttFields
      <4> QED
        BY <2>1, <2>3, <2>5, <3>1, <4>1
    <3>2. CASE u # t \/ h # g
      BY <2>4, <3>2, AttFields
    <3> QED
      BY <3>1, <3>2
  <2>7. AttStep
    BY <2>3, <2>6 DEF AttStep, AttsMild, CursorsStay
  <2>8. World /\ grant' \in [Tasks -> BOOLEAN] /\ note' = note /\ ctl' = ctl /\ sent' = sent
    BY <1>3, <2>7, QuietWorld
  <2>9. "supersede" \in AfterSubmit \ (Denying \cup {"post"})
    BY DEF AfterSubmit, Denying
  <2> QED
    BY <1>1, <1>5, <2>8, <2>9, FurtherStep
<1> QED
  BY <1>4, <1>5 DEF Observe

\* A running observation leaves its permission pending.
LEMMA ApplyRunningStep ==
  ASSUME EngineTypes, EngineInv, NEW d \in Actors, ApplyRunning(d)
  PROVE  StepGood
<1> PICK t, g : t = act[d].t /\ g = act[d].g
  OBVIOUS
<1>1. act[d].pc \in AfterSubmit
  BY DEF ApplyRunning, At, AfterSubmit
<1>2. t \in Tasks /\ g \in Attempts /\ task[t].phase # "none"
  BY <1>1, FurtherHas
<1>3. Leave(d) /\ External /\ RunStep /\ AttStep
  BY RunKept, AttKept DEF ApplyRunning, Quiet
<1>4. RowStep
  <2>1. CASE Keep
    BY <2>1 DEF Keep, RowStep
  <2>2. CASE ~Keep
    <3> PICK p : p = CASE act[d].why = "stale" -> task[t].perm
                       [] act[d].why = "denied" -> 0
                       [] OTHER -> act[d].res.perm
      OBVIOUS
    <3> PICK blockers : blockers = task[t].blockers \ (Doubts \cup Admission)
      OBVIOUS
    <3> PICK row : row = [task[t] EXCEPT !.phase = "active", !.blockers = blockers, !.perm = p]
      OBVIOUS
    <3>1. PutIfNew(t, row) /\ task[t].phase # "closed"
      BY <2>2 DEF ApplyRunning
    <3>2. p \in Nat
      BY <1>2, RowFields, ActFields
    <3>3. blockers \in SUBSET Blockers /\ ("cancel_requested" \in task[t].blockers => "cancel_requested" \in blockers)
      BY <1>2, RowFields DEF Doubts, Admission
    <3>4. row \in TaskRow /\ MildRow(t, row)
      BY <1>2, <3>1, <3>2, <3>3, MildRows DEF Phases
    <3> QED
      BY <1>2, <3>1, <3>4, PutsIfNew DEF RowStep
  <2> QED
    BY <2>1, <2>2
<1> QED
  BY <1>3, <1>4, QuietWorld, LeaveStep

-----------------------------------------------------------------------------
(* Reservations are taken and given up.                                    *)

\* The claim of a queued task: a new attempt, its dispatch prepared.
LEMMA ClaimWorld ==
  ASSUME EngineTypes, EngineInv, NEW t \in Tasks, NEW g, g = task[t].gen + 1,
         task[t].phase = "queued", "cancel_requested" \notin task[t].blockers, Reservable(t),
         NEW row \in TaskRow, Saved(t, row), row.phase = "active", row.attempt = g, row.gen = g,
         row.budget = task[t].budget - 1, row.outcome = task[t].outcome,
         NEW new \in AttRow, new.current = TRUE, new.disp = "prepared",
         att' = [att EXCEPT ![t][g] = new], run' = run
  PROVE  World
<1>1. /\ task[t].gen + task[t].budget = Budget /\ task[t].budget > 0
      /\ task[t].attempt <= task[t].gen
  BY DEF EngineInv, RowsFit, Reservable
<1>2. g \in Attempts /\ g > task[t].gen
  BY <1>1, RowFields DEF Attempts
<1>3. att[t][g] = NoAttempt /\ att[t][g].disp = "none" /\ att[t][g].obs = 0
  BY <1>2 DEF EngineInv, AttemptsFit, NoAttempt
<1>4. run[t][g].state = "none"
  BY <1>2, <1>3 DEF EngineInv, AttemptsFit, Begins
<1>5. RunStep
  BY RunKept
<1>6. Lawful(t, row)
  BY DEF Lawful, EngineInv, ClosedFit
<1>7. /\ ClosedFit' /\ RowsStay
      /\ task' \in [Tasks -> TaskRow] /\ work' \in [Tasks -> WorkRow] /\ cmd' \in [Commands -> CmdRow]
      /\ task'[t] = row /\ \A u \in Tasks \ {t} : task'[u] = task[u]
  BY <1>5, <1>6, SavedRows DEF EngineInv, RunStep
<1>8. /\ att' \in [Tasks -> [Attempts -> AttRow]] /\ att'[t][g] = new
      /\ \A u \in Tasks, h \in Attempts : u # t \/ h # g => att'[u][h] = att[u][h]
  BY <1>2 DEF EngineTypes
<1>9. \A h \in Attempts : att[t][h].current = FALSE
  BY AttFields DEF Reservable
<1>10. AttemptsFit'
  <2> SUFFICES ASSUME NEW u \in Tasks, NEW h \in Attempts
               PROVE  /\ att'[u][h].current = TRUE =>
                           /\ h = task'[u].attempt /\ task'[u].phase \notin {"none", "closed"}
                           /\ att'[u][h].disp \notin {"none", "closed"}
                      /\ att'[u][h].disp \in Unsettled => att'[u][h].current = TRUE
                      /\ h > task'[u].gen => att'[u][h] = NoAttempt
                      /\ run'[u][h].state # "none" => att'[u][h].disp \notin Begins
                      /\ run'[u][h].state = "running" => att'[u][h].current = TRUE
    BY DEF AttemptsFit
  <2>1. /\ att[u][h].current = TRUE =>
             /\ h = task[u].attempt /\ task[u].phase \notin {"none", "closed"}
             /\ att[u][h].disp \notin {"none", "closed"}
        /\ att[u][h].disp \in Unsettled => att[u][h].current = TRUE
        /\ h > task[u].gen => att[u][h] = NoAttempt
        /\ run[u][h].state # "none" => att[u][h].disp \notin Begins
        /\ run[u][h].state = "running" => att[u][h].current = TRUE
    BY DEF EngineInv, AttemptsFit
  <2>2. CASE u # t
    BY <1>7, <1>8, <2>1, <2>2
  <2>3. CASE u = t /\ h # g
    <3>1. task'[u].gen = g /\ att'[u][h] = att[u][h] /\ att[u][h].current = FALSE
      BY <1>7, <1>8, <1>9, <2>3
    <3>2. h > g => h > task[t].gen
      BY <1>2, RowFields DEF Attempts
    <3> QED
      BY <2>1, <2>3, <3>1, <3>2
  <2>4. CASE u = t /\ h = g
    <3>1. ~(h > task'[u].gen)
      BY <1>2, <1>7, <2>4 DEF Attempts
    <3> QED
      BY <1>4, <1>7, <1>8, <2>4, <3>1
  <2> QED
    BY <2>2, <2>3, <2>4
<1>11. RowsFit'
  <2> SUFFICES ASSUME NEW u \in Tasks
               PROVE  /\ task'[u].phase = "none" => task'[u] = NoRow
                      /\ task'[u].phase # "none" => task'[u].gen + task'[u].budget = Budget
                      /\ task'[u].attempt <= task'[u].gen
                      /\ task'[u].attempt # 0 /\ task'[u].phase # "closed"
                           => att'[u][task'[u].attempt].current = TRUE
    BY DEF RowsFit
  <2>1. CASE u = t
    BY <1>1, <1>2, <1>7, <1>8, <2>1, RowFields DEF Attempts
  <2>2. CASE u # t
    <3>1. task[u].attempt # 0 => task[u].attempt \in Attempts
      BY RowFields DEF Attempts
    <3> QED
      BY <1>7, <1>8, <2>2, <3>1 DEF EngineInv, RowsFit
  <2> QED
    BY <2>1, <2>2
<1>12. ResourcesFit'
  <2> SUFFICES ASSUME NEW u \in Tasks, NEW v \in Tasks, NEW h \in Attempts, NEW k \in Attempts,
                      u # v, Related(u, v), att'[u][h].current = TRUE, att'[v][k].current = TRUE
               PROVE  FALSE
    BY DEF ResourcesFit, Related
  <2>1. ASSUME NEW w \in Tasks \ {t}, Related(t, w) PROVE \A i \in Attempts : att[w][i].current # TRUE
    BY <2>1, AttFields DEF Related, Reservable
  <2>2. CASE u # t /\ v # t
    BY <1>8, <2>2 DEF EngineInv, ResourcesFit
  <2>3. CASE u = t
    BY <1>8, <2>1, <2>3
  <2>4. CASE v = t
    <3>1. Related(t, u)
      BY <2>4 DEF Related
    <3> QED
      BY <1>8, <2>1, <2>4, <3>1
  <2> QED
    BY <2>2, <2>3, <2>4
<1>13. Steady
  <2>1. ASSUME NEW u \in Tasks
        PROVE  /\ task[u].phase # "none" => task'[u].phase # "none"
               /\ task[u].phase = "closed" => task'[u].phase = "closed"
               /\ task[u].gen <= task'[u].gen
               /\ task'[u].phase # "closed" /\ "cancel_requested" \in task[u].blockers =>
                    "cancel_requested" \in task'[u].blockers /\ task'[u].attempt = task[u].attempt
    <3>1. CASE u = t
      BY <1>2, <1>7, <3>1, RowFields DEF Attempts
    <3>2. CASE u # t
      BY <1>7, <3>2, RowFields
    <3> QED
      BY <3>1, <3>2
  <2>2. ASSUME NEW u \in Tasks, NEW h \in Attempts
        PROVE  /\ att[u][h].disp \notin Begins => att'[u][h].disp \notin Begins
               /\ task'[u].phase # "closed" /\ "cancel_requested" \in task[u].blockers
                    /\ task[u].attempt = h /\ att[u][h].disp \in {"prepared", "accepted"}
                    => att'[u][h].disp = att[u][h].disp
               /\ att[u][h].disp \notin Begins /\ att[u][h].current = TRUE /\ run[u][h].state = "none" =>
                    att'[u][h].current = TRUE \/ run'[u][h].state # "none"
    <3>1. CASE u = t /\ h = g
      BY <1>3, <1>8, <3>1 DEF Begins
    <3>2. CASE u # t \/ h # g
      BY <1>8, <3>2
    <3> QED
      BY <3>1, <3>2
  <2> QED
    BY <2>1, <2>2 DEF Steady
<1>14. CursorsStay
  <2>1. ASSUME NEW u \in Tasks, NEW h \in Attempts PROVE att'[u][h].obs >= att[u][h].obs
    <3>1. CASE u = t /\ h = g
      BY <1>3, <1>8, <3>1 DEF AttRow
    <3>2. CASE u # t \/ h # g
      BY <1>8, <3>2, AttFields
    <3> QED
      BY <3>1, <3>2
  <2> QED
    BY <2>1 DEF CursorsStay
<1> QED
  BY <1>5, <1>7, <1>8, <1>10, <1>11, <1>12, <1>13, <1>14 DEF World, RunStep

\* A task gives its attempt up when nothing of it runs: it closes, or waits
\* for another one.
LEMMA ReleaseWorld ==
  ASSUME EngineTypes, EngineInv, NEW t \in Tasks, NEW g \in 0..Budget, g = task[t].attempt,
         task[t].phase \notin {"none", "closed"},
         NEW row \in TaskRow, Saved(t, row), Lawful(t, row),
         row.gen = task[t].gen, row.budget = task[t].budget, row.attempt \in {0, g},
         row.phase # "closed" => row.attempt = 0 /\ "cancel_requested" \notin task[t].blockers,
         att' \in [Tasks -> [Attempts -> AttRow]], run' = run,
         \A u \in Tasks, h \in Attempts : u # t \/ h # g => att'[u][h] = att[u][h],
         g # 0 => /\ run[t][g].state # "running"
                  /\ att[t][g].disp \in Begins \/ run[t][g].state # "none"
                  /\ att'[t][g].current = FALSE /\ att'[t][g].disp = "closed"
                  /\ att'[t][g].obs = att[t][g].obs
  PROVE  World
<1>1. RunStep
  BY RunKept
<1>2. /\ ClosedFit' /\ RowsStay
      /\ task' \in [Tasks -> TaskRow] /\ work' \in [Tasks -> WorkRow] /\ cmd' \in [Commands -> CmdRow]
      /\ task'[t] = row /\ \A u \in Tasks \ {t} : task'[u] = task[u]
  BY <1>1, SavedRows DEF EngineInv, RunStep
<1>3. g \in Attempts => g # 0
  BY DEF Attempts
<1>4. AttemptsFit'
  <2> SUFFICES ASSUME NEW u \in Tasks, NEW h \in Attempts
               PROVE  /\ att'[u][h].current = TRUE =>
                           /\ h = task'[u].attempt /\ task'[u].phase \notin {"none", "closed"}
                           /\ att'[u][h].disp \notin {"none", "closed"}
                      /\ att'[u][h].disp \in Unsettled => att'[u][h].current = TRUE
                      /\ h > task'[u].gen => att'[u][h] = NoAttempt
                      /\ run'[u][h].state # "none" => att'[u][h].disp \notin Begins
                      /\ run'[u][h].state = "running" => att'[u][h].current = TRUE
    BY DEF AttemptsFit
  <2>1. /\ att[u][h].current = TRUE =>
             /\ h = task[u].attempt /\ task[u].phase \notin {"none", "closed"}
             /\ att[u][h].disp \notin {"none", "closed"}
        /\ att[u][h].disp \in Unsettled => att[u][h].current = TRUE
        /\ h > task[u].gen => att[u][h] = NoAttempt
        /\ run[u][h].state # "none" => att[u][h].disp \notin Begins
        /\ run[u][h].state = "running" => att[u][h].current = TRUE
    BY DEF EngineInv, AttemptsFit
  <2>2. CASE u # t
    BY <1>2, <2>1, <2>2
  <2>3. CASE u = t /\ h # g
    BY <1>2, <2>1, <2>3
  <2>4. CASE u = t /\ h = g
    <3>1. ~(h > task'[u].gen)
      BY <1>2, <2>4, RowFields DEF EngineInv, RowsFit, Attempts
    <3> QED
      BY <1>2, <1>3, <2>4, <3>1 DEF Unsettled, Begins
  <2> QED
    BY <2>2, <2>3, <2>4
<1>5. RowsFit'
  <2> SUFFICES ASSUME NEW u \in Tasks
               PROVE  /\ task'[u].phase = "none" => task'[u] = NoRow
                      /\ task'[u].phase # "none" => task'[u].gen + task'[u].budget = Budget
                      /\ task'[u].attempt <= task'[u].gen
                      /\ task'[u].attempt # 0 /\ task'[u].phase # "closed"
                           => att'[u][task'[u].attempt].current = TRUE
    BY DEF RowsFit
  <2>1. CASE u = t
    <3>1. task[t].gen + task[t].budget = Budget /\ task[t].attempt <= task[t].gen
      BY DEF EngineInv, RowsFit
    <3>2. row.phase # "none"
      BY DEF Lawful
    <3>3. row.attempt <= row.gen
      BY <3>1, RowFields
    <3> QED
      BY <1>2, <2>1, <3>1, <3>2, <3>3
  <2>2. CASE u # t
    <3>1. task[u].attempt # 0 => task[u].attempt \in Attempts
      BY RowFields DEF Attempts
    <3> QED
      BY <1>2, <2>2, <3>1 DEF EngineInv, RowsFit
  <2> QED
    BY <2>1, <2>2
<1>6. ASSUME NEW u \in Tasks, NEW h \in Attempts, att'[u][h].current = TRUE
      PROVE  att[u][h].current = TRUE
  <2>1. CASE u = t /\ h = g
    BY <1>3, <1>6, <2>1
  <2>2. CASE u # t \/ h # g
    BY <1>6, <2>2
  <2> QED
    BY <2>1, <2>2
<1>7. ResourcesFit'
  <2> SUFFICES ASSUME NEW u \in Tasks, NEW v \in Tasks, NEW h \in Attempts, NEW k \in Attempts,
                      u # v, Related(u, v), att'[u][h].current = TRUE, att'[v][k].current = TRUE
               PROVE  FALSE
    BY DEF ResourcesFit, Related
  <2>1. att[u][h].current = TRUE /\ att[v][k].current = TRUE
    BY <1>6
  <2> QED
    BY <2>1 DEF EngineInv, ResourcesFit
<1>8. Steady
  <2>1. ASSUME NEW u \in Tasks
        PROVE  /\ task[u].phase # "none" => task'[u].phase # "none"
               /\ task[u].phase = "closed" => task'[u].phase = "closed"
               /\ task[u].gen <= task'[u].gen
               /\ task'[u].phase # "closed" /\ "cancel_requested" \in task[u].blockers =>
                    "cancel_requested" \in task'[u].blockers /\ task'[u].attempt = task[u].attempt
    <3>1. CASE u = t
      BY <1>2, <3>1, RowFields DEF Lawful
    <3>2. CASE u # t
      BY <1>2, <3>2, RowFields
    <3> QED
      BY <3>1, <3>2
  <2>2. ASSUME NEW u \in Tasks, NEW h \in Attempts
        PROVE  /\ att[u][h].disp \notin Begins => att'[u][h].disp \notin Begins
               /\ task'[u].phase # "closed" /\ "cancel_requested" \in task[u].blockers
                    /\ task[u].attempt = h /\ att[u][h].disp \in {"prepared", "accepted"}
                    => att'[u][h].disp = att[u][h].disp
               /\ att[u][h].disp \notin Begins /\ att[u][h].current = TRUE /\ run[u][h].state = "none" =>
                    att'[u][h].current = TRUE \/ run'[u][h].state # "none"
    <3>1. CASE u = t /\ h = g
      BY <1>2, <1>3, <3>1 DEF Begins
    <3>2. CASE u # t \/ h # g
      BY <3>2
    <3> QED
      BY <3>1, <3>2
  <2> QED
    BY <2>1, <2>2 DEF Steady
<1>9. CursorsStay
  <2>1. ASSUME NEW u \in Tasks, NEW h \in Attempts PROVE att'[u][h].obs >= att[u][h].obs
    <3>1. CASE u = t /\ h = g
      BY <1>3, <3>1, AttFields
    <3>2. CASE u # t \/ h # g
      BY <3>2, AttFields
    <3> QED
      BY <3>1, <3>2
  <2> QED
    BY <2>1 DEF CursorsStay
<1> QED
  BY <1>1, <1>2, <1>4, <1>5, <1>7, <1>8, <1>9 DEF World, RunStep

\* A queued task is claimed, or waits on.
LEMMA ClaimStep ==
  ASSUME EngineTypes, EngineInv, NEW d \in Drivers, Claim(d)
  PROVE  StepGood
<1>0. d \in Actors
  BY DEF Actors
<1>1. ThreadFits(d)
  BY <1>0 DEF EngineInv, ThreadsFit
<1> PICK t \in Tasks : t = act[d].t /\ task[t].phase # "none"
  BY <1>1 DEF Claim, At, ThreadFits
<1> PICK row \in TaskRow : row = task[t]
  BY RowFields
<1>2. External /\ RunStep /\ run' = run
  BY RunKept DEF Claim, Quiet
<1>3. CASE Keep /\ UNCHANGED att /\ GoTo(d, "drive")
  <2>1. RowStep /\ AttStep
    BY <1>3, AttKept DEF Keep, RowStep
  <2>2. World /\ grant' \in [Tasks -> BOOLEAN] /\ note' = note /\ ctl' = ctl /\ sent' = sent
    BY <1>2, <2>1, QuietWorld
  <2>3. "drive" \in WithTask
    BY DEF WithTask
  <2>4. /\ act' \in [Actors -> ActRow] /\ Others(d)
        /\ act'[d].pc = "drive" /\ act'[d].t = t /\ act'[d].g = act[d].g /\ act'[d].res = act[d].res
    BY <1>0, <1>3, <2>3, GoesTo
  <2>5. ThreadFits(d)' /\ act'[d].pc \notin Sending \cup Denying \cup {"receipt"}
    BY <1>0, <1>1, <2>2, <2>4, PlainFits
  <2> QED
    BY <1>0, <2>2, <2>4, <2>5, ActorStep
<1>4. CASE Keep /\ UNCHANGED att /\ Leave(d)
  <2>1. RowStep /\ AttStep
    BY <1>4, AttKept DEF Keep, RowStep
  <2> QED
    BY <1>0, <1>2, <1>4, <2>1, QuietWorld, LeaveStep
<1>5. CASE row.phase = "queued" /\ PutIfNew(t, [row EXCEPT !.blockers = Waiting(t)]) /\ Leave(d) /\ UNCHANGED att
  <2> PICK blockers : blockers = Waiting(t)
    OBVIOUS
  <2>1. /\ blockers \in SUBSET Blockers
        /\ "cancel_requested" \in row.blockers => "cancel_requested" \in blockers
    BY RowFields DEF Waiting, Blockers, Holds
  <2> PICK new : new = [row EXCEPT !.blockers = blockers]
    OBVIOUS
  <2>2. new \in TaskRow /\ MildRow(t, new)
    BY <1>5, <2>1 DEF MildRow, TaskRow
  <2>3. RowStep /\ AttStep
    BY <1>5, <2>2, PutsIfNew, AttKept DEF RowStep
  <2> QED
    BY <1>0, <1>2, <1>5, <2>3, QuietWorld, LeaveStep
<1>6. CASE row.phase = "queued" /\ Put(t, [row EXCEPT !.blockers = @ \cup {"resource_busy"}]) /\ Leave(d) /\ UNCHANGED att
  <2> PICK blockers : blockers = row.blockers \cup {"resource_busy"}
    OBVIOUS
  <2>1. /\ blockers \in SUBSET Blockers
        /\ "cancel_requested" \in row.blockers => "cancel_requested" \in blockers
    BY RowFields DEF Blockers
  <2> PICK new : new = [row EXCEPT !.blockers = blockers]
    OBVIOUS
  <2>2. new \in TaskRow /\ MildRow(t, new)
    BY <1>6, <2>1 DEF MildRow, TaskRow
  <2>3. RowStep /\ AttStep
    BY <1>6, <2>2, Puts, AttKept DEF RowStep
  <2> QED
    BY <1>0, <1>2, <1>6, <2>3, QuietWorld, LeaveStep
<1>7. CASE row.phase = "queued" /\ Waiting(t) = {} /\ Reservable(t)
  <2> PICK g : g = row.gen + 1
    OBVIOUS
  <2> PICK budget : budget = row.budget - 1
    OBVIOUS
  <2> PICK seat : seat = [NoAttempt EXCEPT !.current = TRUE, !.worker = WorkerOf[d], !.disp = "prepared"]
    OBVIOUS
  <2> PICK new : new = [row EXCEPT !.phase = "active", !.attempt = g, !.gen = g,
                                   !.budget = budget, !.blockers = {}]
    OBVIOUS
  <2>1. /\ Put(t, new) /\ att' = [att EXCEPT ![t][g] = seat] /\ GoTo(d, "drive")
    BY <1>7 DEF Claim
  <2>2. g \in 0..Budget /\ budget \in 0..Budget
    <3>1. row.gen + row.budget = Budget /\ row.budget > 0
      BY <1>7 DEF EngineInv, RowsFit, Reservable
    <3> QED
      BY <3>1, RowFields
  <2>3. /\ new \in TaskRow /\ new.phase = "active" /\ new.attempt = g /\ new.gen = g
        /\ new.budget = budget /\ new.outcome = row.outcome
    BY <2>2 DEF TaskRow, Phases
  <2>4. seat \in AttRow /\ seat.current = TRUE /\ seat.disp = "prepared"
    <3>1. WorkerOf[d] \in Workers
      BY WorkerAssumption
    <3>2. NoAttempt \in AttRow
      BY EmptyRows
    <3> QED
      BY <3>1, <3>2 DEF AttRow, DispatchStates
  <2>5. "cancel_requested" \notin row.blockers
    BY <1>7 DEF Waiting
  <2>6. Saved(t, new)
    BY <2>1, <2>3, Puts
  <2>7. World
    <3>1. /\ g = task[t].gen + 1 /\ task[t].phase = "queued" /\ "cancel_requested" \notin task[t].blockers
          /\ Reservable(t) /\ new \in TaskRow /\ Saved(t, new) /\ new.phase = "active"
          /\ new.attempt = g /\ new.gen = g /\ new.budget = task[t].budget - 1
          /\ new.outcome = task[t].outcome
          /\ seat \in AttRow /\ seat.current = TRUE /\ seat.disp = "prepared"
          /\ att' = [att EXCEPT ![t][g] = seat] /\ run' = run
      BY <1>2, <1>7, <2>1, <2>3, <2>4, <2>5, <2>6
    <3> QED
      BY ONLY <3>1, EngineTypes, EngineInv, t \in Tasks, ClaimWorld
  <2>8. grant' \in [Tasks -> BOOLEAN] /\ note' = note /\ ctl' = ctl /\ sent' = sent
    BY <1>2 DEF External, EngineTypes
  <2>9. "drive" \in WithTask
    BY DEF WithTask
  <2>10. /\ act' \in [Actors -> ActRow] /\ Others(d)
         /\ act'[d].pc = "drive" /\ act'[d].t = t /\ act'[d].g = act[d].g /\ act'[d].res = act[d].res
    BY <1>0, <2>1, <2>9, GoesTo
  <2>11. ThreadFits(d)' /\ act'[d].pc \notin Sending \cup Denying \cup {"receipt"}
    BY <1>0, <1>1, <2>7, <2>10, PlainFits
  <2> QED
    BY <1>0, <2>7, <2>8, <2>10, <2>11, ActorStep
<1> QED
  <2>1. CASE row.phase # "queued"
    BY <1>3, <1>4, <2>1 DEF Claim
  <2>2. CASE row.phase = "queued" /\ Waiting(t) # {}
    BY <1>5, <2>2 DEF Claim
  <2>3. CASE row.phase = "queued" /\ Waiting(t) = {} /\ ~Reservable(t)
    BY <1>6, <2>3 DEF Claim
  <2> QED
    BY <1>7, <2>1, <2>2, <2>3

\* A finished run closes its task, or gives a paused one its turn again.
LEMMA ApplyTerminalStep ==
  ASSUME EngineTypes, EngineInv, NEW d \in Actors, ApplyTerminal(d)
  PROVE  StepGood
<1> PICK t, g, res : t = act[d].t /\ g = act[d].g /\ res = act[d].res
  OBVIOUS
<1>1. act[d].pc \in AfterSubmit
  BY DEF ApplyTerminal, At, AfterSubmit
<1>2. t \in Tasks /\ g \in Attempts /\ g <= task[t].gen /\ task[t].phase # "none"
  BY <1>1, FurtherHas
<1> PICK row \in TaskRow : row = task[t]
  BY <1>2, RowFields
<1>3. /\ res.state \in Terminal /\ res.claim \in RunResults
      /\ run[t][g].state = res.state /\ run[t][g].claim = res.claim
  BY ActFields, Zenon DEF ApplyTerminal, Terminal, EngineInv, ThreadsFit, ThreadFits
<1>4. Leave(d) /\ External /\ RunStep /\ run' = run
  BY RunKept, Zenon DEF ApplyTerminal, Quiet
<1>5. CASE Keep /\ UNCHANGED att
  <2>1. RowStep /\ AttStep
    BY <1>5, AttKept DEF Keep, RowStep
  <2> QED
    BY <1>4, <2>1, QuietWorld, LeaveStep
<1>6. CASE ~(Keep /\ UNCHANGED att)
  <2> PICK left : left = row.blockers \ Doubts
    OBVIOUS
  <2> PICK again, over : /\ again = [row EXCEPT !.phase = "queued", !.attempt = 0, !.blockers = left]
                         /\ over = [row EXCEPT !.phase = "closed", !.blockers = left, !.perm = 0,
                                      !.outcome = TerminalOutcome(row, res.state), !.result = res.claim]
    OBVIOUS
  <2> PICK waits : waits = (res.state = "cancelled" /\ "human_pause" \in left /\ "cancel_requested" \notin left)
    OBVIOUS
  <2> PICK new : new = IF waits THEN again ELSE over
    OBVIOUS
  <2>1. /\ row.phase # "closed" /\ row.attempt = g
        /\ att' = [att EXCEPT ![t][g].disp = "closed", ![t][g].current = FALSE]
        /\ Put(t, new)
    BY <1>6, Zenon DEF ApplyTerminal
  <2>2. /\ left \in SUBSET Blockers /\ ("cancel_requested" \in row.blockers <=> "cancel_requested" \in left)
    BY DEF TaskRow, Doubts
  <2>3. /\ TerminalOutcome(row, res.state) \in {"completed", "cancelled", "failed"}
        /\ TerminalOutcome(row, res.state) = "completed" =>
             res.state = "completed" /\ "cancel_requested" \notin row.blockers
    BY DEF TerminalOutcome
  <2>0. 0 \in 0..Budget
    BY BudgetAssumption
  <2>4. /\ again \in TaskRow /\ again.phase = "queued" /\ again.attempt = 0 /\ again.blockers = left
        /\ again.gen = row.gen /\ again.budget = row.budget /\ again.outcome = row.outcome
    BY <2>0, <2>2 DEF TaskRow, Phases
  <2>5. /\ over \in TaskRow /\ over.phase = "closed" /\ over.attempt = row.attempt /\ over.blockers = left
        /\ over.gen = row.gen /\ over.budget = row.budget
        /\ over.outcome = TerminalOutcome(row, res.state) /\ over.result = res.claim
    <3>1. TerminalOutcome(row, res.state) \in Outcomes /\ "closed" \in Phases
      BY <2>3 DEF Outcomes, Phases
    <3> QED
      BY <1>3, <2>2, <3>1 DEF TaskRow
  <2>6. /\ new \in TaskRow /\ new.gen = row.gen /\ new.budget = row.budget /\ new.attempt \in {0, g}
        /\ new.phase # "closed" => new.attempt = 0 /\ "cancel_requested" \notin row.blockers
    <3>1. CASE waits
      BY <2>2, <2>4, <3>1
    <3>2. CASE ~waits
      BY <2>1, <2>5, <3>2, Zenon
    <3> QED
      BY <3>1, <3>2
  <2>7. row.outcome = "none"
    BY <1>2, <2>1, Zenon DEF EngineInv, ClosedFit
  <2>8. Lawful(t, new)
    <3>1. CASE waits
      BY <1>2, <2>1, <2>4, <2>7, <3>1, Zenon DEF Lawful
    <3>2. CASE ~waits
      BY <1>2, <1>3, <2>1, <2>2, <2>3, <2>5, <3>2, ZenonT(40) DEF Lawful
    <3> QED
      BY <3>1, <3>2
  <2>9. Saved(t, new)
    BY <1>2, <2>1, <2>6, Puts, Zenon
  <2> PICK b \in AttRow : b = att[t][g]
    BY <1>2, AttFields
  <2> PICK seat : seat = [b EXCEPT !.disp = "closed", !.current = FALSE]
    OBVIOUS
  <2>10. seat \in AttRow /\ seat.current = FALSE /\ seat.disp = "closed" /\ seat.obs = b.obs
    BY DEF AttRow, DispatchStates
  <2>11. att' = [att EXCEPT ![t][g] = seat]
    BY <1>2, <2>1, ZenonT(40) DEF EngineTypes
  <2>12. /\ att' \in [Tasks -> [Attempts -> AttRow]] /\ att'[t][g] = seat
         /\ \A u \in Tasks, h \in Attempts : u # t \/ h # g => att'[u][h] = att[u][h]
    BY <1>2, <2>10, <2>11 DEF EngineTypes
  <2>13. /\ g \in 0..Budget /\ run[t][g].state # "running" /\ run[t][g].state # "none"
    BY <1>2, <1>3 DEF Attempts, Terminal
  <2>14. World
    <3>1. /\ g \in 0..Budget /\ g = task[t].attempt /\ task[t].phase \notin {"none", "closed"}
          /\ new \in TaskRow /\ Saved(t, new) /\ Lawful(t, new)
          /\ new.gen = task[t].gen /\ new.budget = task[t].budget /\ new.attempt \in {0, g}
          /\ new.phase # "closed" => new.attempt = 0 /\ "cancel_requested" \notin task[t].blockers
          /\ att' \in [Tasks -> [Attempts -> AttRow]] /\ run' = run
          /\ \A u \in Tasks, h \in Attempts : u # t \/ h # g => att'[u][h] = att[u][h]
          /\ run[t][g].state # "running"
          /\ att[t][g].disp \in Begins \/ run[t][g].state # "none"
          /\ att'[t][g].current = FALSE /\ att'[t][g].disp = "closed"
          /\ att'[t][g].obs = att[t][g].obs
      BY <1>2, <1>4, <2>1, <2>6, <2>8, <2>9, <2>10, <2>12, <2>13, Zenon
    <3> QED
      BY ONLY <1>2, <3>1, EngineTypes, EngineInv, ReleaseWorld
  <2>15. grant' \in [Tasks -> BOOLEAN] /\ note' = note /\ ctl' = ctl /\ sent' = sent
    BY <1>4 DEF External, EngineTypes
  <2> QED
    BY <1>4, <2>14, <2>15, LeaveStep
<1> QED
  BY <1>5, <1>6

-----------------------------------------------------------------------------
(* The owner's holds and commands.                                         *)

\* A thread that has just written a hold: a cancel stands in the row it wrote.
LEMMA HoldFits ==
  ASSUME EngineTypes, EngineInv, World, NEW o \in Actors, NEW t \in Tasks, task[t].phase # "none",
         NEW why \in {"human_pause", "cancel_requested"},
         Enter(o, "hold", t, task[t].attempt, Snapshot(t), why), att' = att,
         why \in task'[t].blockers, task'[t].attempt = task[t].attempt,
         task'[t].phase # "closed" => task[t].phase # "closed"
  PROVE  /\ act' \in [Actors -> ActRow] /\ Others(o)
         /\ ThreadFits(o)' /\ act'[o].pc \notin Sending \cup Denying \cup {"receipt"}
<1> PICK g \in 0..Budget : g = task[t].attempt
  BY RowFields
<1> PICK seen : seen = Snapshot(t)
  OBVIOUS
<1>1. g # 0 => g \in Attempts
  BY DEF Attempts
<1>2. /\ g = 0 => seen = "none"
      /\ g # 0 => seen = att[t][g].disp
  BY DEF Snapshot
<1>3. seen \in Sightings /\ "hold" \in WithTask /\ why \in Reasons \cup Controls
  BY <1>1, <1>2, AttFields DEF Sightings, DispatchStates, WithTask, Reasons
<1>4. /\ act' \in [Actors -> ActRow] /\ Others(o)
      /\ act'[o].pc = "hold" /\ act'[o].t = t /\ act'[o].g = g
      /\ act'[o].seen = seen /\ act'[o].why = why /\ act'[o].res = NoResult
  BY <1>3, Enters
<1>5. task'[t].phase # "none"
  BY DEF World, Steady
<1>6. why = "cancel_requested" /\ task'[t].phase # "closed" => CancelStands(o)'
  <2> SUFFICES ASSUME why = "cancel_requested", task'[t].phase # "closed"
               PROVE  CancelStands(o)'
    OBVIOUS
  <2>1. g # 0 => att[t][g].current = TRUE
    BY DEF EngineInv, RowsFit
  <2>2. g # 0 => att[t][g].disp \notin {"none", "closed"}
    BY <1>1, <2>1 DEF EngineInv, AttemptsFit
  <2>3. /\ seen # "closed" /\ (seen = "none" => g = 0)
        /\ seen \in {"prepared", "accepted"} => g # 0 /\ att'[t][g].disp = seen
    BY <1>2, <2>2
  <2> QED
    BY <1>4, <2>3 DEF CancelStands, At
<1> QED
  BY <1>4, <1>5, <1>6 DEF ThreadFits, At, BeforeSubmit, AfterSubmit, Sending, Denying, NoResult, Terminal

\* What a hold and a resume write.
LEMMA HoldRows ==
  ASSUME EngineTypes, NEW t \in Tasks, task[t].phase \notin {"none", "closed"}
  PROVE  /\ Resumed(task[t]) \in TaskRow /\ MildRow(t, Resumed(task[t]))
         /\ \A why \in {"human_pause", "cancel_requested"} :
              /\ Held(task[t], why) \in TaskRow /\ MildRow(t, Held(task[t], why))
              /\ why \in Held(task[t], why).blockers
<1> PICK row \in TaskRow : row = task[t]
  BY RowFields
<1>1. Resumed(row) \in TaskRow /\ MildRow(t, Resumed(row))
  <2> PICK blockers : blockers = row.blockers \ {"human_pause", "grant_withdrawal"}
    OBVIOUS
  <2>1. blockers \in SUBSET Blockers /\ ("cancel_requested" \in row.blockers => "cancel_requested" \in blockers)
    BY DEF TaskRow
  <2> PICK new : new = [row EXCEPT !.blockers = blockers]
    OBVIOUS
  <2>2. new \in TaskRow /\ MildRow(t, new)
    BY <2>1 DEF MildRow, TaskRow
  <2> QED
    BY <2>2 DEF Resumed
<1>2. ASSUME NEW why \in {"human_pause", "cancel_requested"}
      PROVE  /\ Held(row, why) \in TaskRow /\ MildRow(t, Held(row, why))
             /\ why \in Held(row, why).blockers
  <2> PICK blockers : blockers = row.blockers \cup {why}
    OBVIOUS
  <2> PICK phase : phase = IF row.attempt # 0 THEN "stopping" ELSE row.phase
    OBVIOUS
  <2>1. blockers \in SUBSET Blockers /\ phase \in Phases \ {"none", "closed"}
    BY DEF TaskRow, Blockers, Holds, Phases
  <2> PICK new : new = [row EXCEPT !.blockers = blockers, !.phase = phase]
    OBVIOUS
  <2>2. new \in TaskRow /\ MildRow(t, new) /\ why \in new.blockers
    BY <2>1 DEF MildRow, TaskRow
  <2> QED
    BY <2>2 DEF Held
<1> QED
  BY <1>1, <1>2

\* A step of no thread that leaves the controls alone.
LEMMA StillStep ==
  ASSUME EngineTypes, EngineInv, World, External, act' = act
  PROVE  StepGood
<1>1. /\ grant' \in [Tasks -> BOOLEAN] /\ note' \in [Controls -> NoteRow]
      /\ note' = note /\ ctl' = ctl /\ sent' = sent
  BY DEF External, EngineTypes
<1>2. NotesFit'
  BY <1>1, NotesStayFit DEF EngineInv, World
<1> QED
  BY <1>1, <1>2, EnvironmentStep

LEMMA HoldStep ==
  ASSUME EngineTypes, EngineInv, NEW o \in Actors, NEW t \in Tasks, NEW kind \in Kinds, Hold(o, t, kind)
  PROVE  StepGood
<1>1. task[t].phase \notin {"none", "closed"}
  BY DEF Hold
<1>2. External /\ AttStep /\ RunStep /\ att' = att
  BY AttKept, RunKept DEF Hold, Quiet
<1>3. CASE kind = "resume"
  <2>1. Put(t, Resumed(task[t])) /\ UNCHANGED act
    BY <1>3 DEF Hold
  <2>2. RowStep
    BY <1>1, <2>1, HoldRows, Puts DEF RowStep
  <2> QED
    BY <1>2, <2>1, <2>2, QuietWorld, StillStep
<1>4. CASE kind # "resume"
  <2> PICK why \in {"human_pause", "cancel_requested"} : why = Reason(kind)
    BY DEF Reason
  <2> PICK held : held = Held(task[t], why)
    OBVIOUS
  <2>1. Put(t, held) /\ Enter(o, "hold", t, task[t].attempt, Snapshot(t), why)
    BY <1>4 DEF Hold
  <2>2. held \in TaskRow /\ MildRow(t, held) /\ why \in held.blockers
    BY <1>1, HoldRows
  <2>3. RowStep
    BY <2>1, <2>2, Puts DEF RowStep
  <2>4. World /\ grant' \in [Tasks -> BOOLEAN] /\ note' = note /\ ctl' = ctl /\ sent' = sent
    BY <1>2, <2>3, QuietWorld
  <2>5. task'[t] = held /\ held.attempt = task[t].attempt
    BY <2>1, <2>2 DEF Put, EngineTypes, MildRow
  <2>6. /\ act' \in [Actors -> ActRow] /\ Others(o)
        /\ ThreadFits(o)' /\ act'[o].pc \notin Sending \cup Denying \cup {"receipt"}
    BY <1>1, <1>2, <2>1, <2>2, <2>4, <2>5, HoldFits
  <2> QED
    BY <2>4, <2>6, ActorStep
<1> QED
  BY <1>3, <1>4

\* A work command and its receipt; a queued task is cancelled at once.
LEMMA CommandStep ==
  ASSUME EngineTypes, EngineInv, NEW o \in Actors, NEW k \in Commands, NEW t \in Tasks, NEW kind \in Kinds,
         Command(o, k, t, kind)
  PROVE  StepGood
<1>1. task[t].phase \notin {"none", "closed"}
  BY DEF Command
<1>2. External /\ AttStep /\ RunStep /\ att' = att /\ run' = run
  BY AttKept, RunKept DEF Command, Quiet
<1>3. CASE kind = "resume"
  <2>1. PutWithCommand(k, t, kind, Resumed(task[t])) /\ UNCHANGED act
    BY <1>3 DEF Command
  <2>2. RowStep
    BY <1>1, <2>1, HoldRows, PutsWithCommand DEF RowStep
  <2> QED
    BY <1>2, <2>1, <2>2, QuietWorld, StillStep
<1>4. CASE kind # "resume"
  <2> PICK why \in {"human_pause", "cancel_requested"} : why = Reason(kind)
    BY DEF Reason
  <2> PICK held : held = Held(task[t], why)
    OBVIOUS
  <2> PICK over : over = [held EXCEPT !.phase = "closed", !.outcome = "cancelled"]
    OBVIOUS
  <2>1. /\ \/ kind = "cancel" /\ task[t].attempt = 0 /\ PutWithCommand(k, t, kind, over)
           \/ PutWithCommand(k, t, kind, held)
        /\ Enter(o, "hold", t, task[t].attempt, Snapshot(t), why)
    BY <1>4 DEF Command
  <2>2. held \in TaskRow /\ MildRow(t, held) /\ why \in held.blockers
    BY <1>1, HoldRows
  <2>3. /\ over \in TaskRow /\ over.phase = "closed" /\ over.outcome = "cancelled"
        /\ over.attempt = task[t].attempt /\ over.gen = task[t].gen /\ over.budget = task[t].budget
        /\ why \in over.blockers
    BY <2>2 DEF TaskRow, MildRow, Phases, Outcomes
  <2>4. grant' \in [Tasks -> BOOLEAN] /\ note' = note /\ ctl' = ctl /\ sent' = sent
    BY <1>2 DEF External, EngineTypes
  <2>5. /\ World /\ why \in task'[t].blockers /\ task'[t].attempt = task[t].attempt
    <3>1. CASE PutWithCommand(k, t, kind, held)
      <4>1. RowStep
        BY <2>2, <3>1, PutsWithCommand DEF RowStep
      <4>2. World
        BY <1>2, <4>1, QuietWorld
      <4>3. task'[t] = held
        BY <3>1 DEF PutWithCommand, EngineTypes
      <4> QED
        BY <2>2, <4>2, <4>3 DEF MildRow
    <3>2. CASE task[t].attempt = 0 /\ PutWithCommand(k, t, kind, over)
      <4>1. Saved(t, over)
        BY <2>3, <3>2, PutsWithCommand
      <4>2. Lawful(t, over)
        BY <1>1, <2>3 DEF Lawful
      <4>3. \A u \in Tasks, h \in Attempts : att'[u][h] = att[u][h]
        BY <1>2
      <4>4. att' \in [Tasks -> [Attempts -> AttRow]]
        BY <1>2 DEF EngineTypes
      <4> PICK g \in 0..Budget : g = 0
        BY BudgetAssumption
      <4>5. World
        <5>1. /\ g = task[t].attempt /\ over.attempt \in {0, g}
              /\ over.gen = task[t].gen /\ over.budget = task[t].budget
              /\ over.phase = "closed" /\ run' = run
              /\ \A u \in Tasks, h \in Attempts : u # t \/ h # g => att'[u][h] = att[u][h]
          BY <1>2, <2>3, <3>2, <4>3
        <5> QED
          BY ONLY EngineTypes, EngineInv, <1>1, <2>3, <4>1, <4>2, <4>4, <5>1, t \in Tasks, g = 0,
                  g \in 0..Budget, ReleaseWorld
      <4>6. task'[t] = over
        BY <3>2 DEF PutWithCommand, EngineTypes
      <4> QED
        BY <2>3, <4>5, <4>6
    <3> QED
      BY <2>1, <3>1, <3>2
  <2>6. /\ act' \in [Actors -> ActRow] /\ Others(o)
        /\ ThreadFits(o)' /\ act'[o].pc \notin Sending \cup Denying \cup {"receipt"}
    BY <1>1, <1>2, <2>1, <2>5, HoldFits
  <2> QED
    BY <2>4, <2>5, <2>6, ActorStep
<1> QED
  BY <1>3, <1>4

\* The stop is settled outside the transaction.
LEMMA SettleStopStep ==
  ASSUME EngineTypes, EngineInv, NEW a \in Actors, NEW ok \in BOOLEAN, SettleStop(a, ok)
  PROVE  StepGood
<1>1. ThreadFits(a)
  BY DEF EngineInv, ThreadsFit
<1> PICK t \in Tasks, g \in 0..Budget : t = act[a].t /\ g = act[a].g /\ task[t].phase # "none"
  BY <1>1, ActFields DEF SettleStop, At, ThreadFits
<1>2. RowStep /\ AttStep /\ External /\ att' = att /\ task' = task
  BY AttKept DEF SettleStop, Keep, RowStep
<1>3. RunStep
  <2>1. CASE UNCHANGED run
    BY <2>1, RunKept
  <2>2. CASE Stopped(t, g) /\ g # 0
    BY <2>2, Stops DEF Attempts
  <2>3. CASE Stopped(t, g) /\ g = 0 /\ ~UNCHANGED run
    <3> PICK r : r = [[run[t][g] EXCEPT !.stop = TRUE] EXCEPT !.seq = @ + 1]
      OBVIOUS
    <3>1. run' = [run EXCEPT ![t][g] = r]
      BY <2>3 DEF Stopped, Publish
    <3>2. g \notin Attempts
      BY <2>3 DEF Attempts
    <3>3. [run[t] EXCEPT ![g] = r] = run[t]
      BY <3>2 DEF EngineTypes
    <3>4. run' = run
      BY <3>1, <3>3 DEF EngineTypes
    <3> QED
      BY <2>3, <3>4
  <2> QED
    BY <2>1, <2>2, <2>3 DEF SettleStop
<1>4. World /\ grant' \in [Tasks -> BOOLEAN] /\ note' = note /\ ctl' = ctl /\ sent' = sent
  BY <1>2, <1>3, QuietWorld
<1>5. CASE task[t].phase = "closed"
  BY <1>4, <1>5, LeaveStep DEF SettleStop
<1>6. CASE task[t].phase # "closed"
  <2> PICK seen : seen = CASE act[a].seen = "none" \/ act[a].seen = "prepared" -> "unsent"
                           [] act[a].seen = "closed" \/ (act[a].seen = "accepted" /\ ok) -> "stopped"
                           [] act[a].seen = "accepted" /\ ~ok -> "unstopped"
                           [] OTHER -> "unknown"
    OBVIOUS
  <2> PICK r : r = [act[a] EXCEPT !.pc = "held", !.seen = seen]
    OBVIOUS
  <2>1. /\ seen \in {"unsent", "stopped", "unstopped", "unknown"}
        /\ seen = "unsent" => act[a].seen \in {"none", "prepared"}
        /\ seen = "stopped" => act[a].seen \in {"closed", "accepted"}
    OBVIOUS
  <2>2. seen \in Sightings /\ "held" \in WithTask
    BY <2>1 DEF Sightings, DispatchStates, WithTask
  <2>3. /\ r \in ActRow /\ r.pc = "held" /\ r.t = t /\ r.g = g /\ r.seen = seen
        /\ r.why = act[a].why /\ r.res = act[a].res
    BY <2>2, ActFields DEF ActRow
  <2>4. act' = [act EXCEPT ![a] = r]
    <3>1. act' = [act EXCEPT ![a].pc = "held", ![a].seen = seen]
      BY <1>6 DEF SettleStop
    <3> QED
      BY <3>1 DEF EngineTypes
  <2>5. act' \in [Actors -> ActRow] /\ Others(a) /\ act'[a] = r
    BY <2>3, <2>4, Goes
  <2>6. act[a].why = "cancel_requested" => CancelStands(a)'
    <3> SUFFICES ASSUME act[a].why = "cancel_requested" PROVE CancelStands(a)'
      OBVIOUS
    <3>1. CancelStands(a) /\ At(a, "hold")
      BY <1>1, <1>6 DEF ThreadFits, SettleStop, At
    <3>2. /\ "cancel_requested" \in task[t].blockers /\ task[t].attempt = g
          /\ act[a].seen # "closed" /\ (act[a].seen = "none" => g = 0)
          /\ act[a].seen \in {"prepared", "accepted"} => g # 0 /\ att[t][g].disp = act[a].seen
      BY <3>1 DEF CancelStands
    <3>3. /\ seen = "unsent" => g = 0 \/ att[t][g].disp = "prepared"
          /\ seen = "stopped" => g # 0 /\ att[t][g].disp = "accepted"
      BY <2>1, <3>2
    <3> QED
      BY <1>2, <2>1, <2>3, <2>5, <3>2, <3>3 DEF CancelStands, At
  <2>7. act[a].res.state \in Terminal =>
          g \in Attempts /\ run'[t][g].state = act[a].res.state /\ run'[t][g].claim = act[a].res.claim
    <3>1. act[a].res.state \in Terminal =>
            g \in Attempts /\ run[t][g].state = act[a].res.state /\ run[t][g].claim = act[a].res.claim
      BY <1>1 DEF ThreadFits
    <3>2. act[a].res.state \in Terminal => act[a].res.state \notin {"none", "running"}
      BY DEF Terminal
    <3> QED
      BY <1>3, <3>1, <3>2 DEF RunStep, RunsMild
  <2>8. ThreadFits(a)' /\ act'[a].pc \notin Sending \cup Denying \cup {"receipt"}
    BY <1>2, <2>3, <2>5, <2>6, <2>7 DEF ThreadFits, At, BeforeSubmit, AfterSubmit, Sending, Denying
  <2> QED
    BY <1>4, <2>5, <2>8, ActorStep
<1> QED
  BY <1>5, <1>6

\* A cancel closes its task when nothing was sent, or the run has stopped.
LEMMA HeldStateStep ==
  ASSUME EngineTypes, EngineInv, NEW a \in Actors, HeldState(a)
  PROVE  StepGood
<1>1. ThreadFits(a)
  BY DEF EngineInv, ThreadsFit
<1> PICK t \in Tasks, g \in 0..Budget : t = act[a].t /\ g = act[a].g /\ task[t].phase # "none"
  BY <1>1, ActFields, Zenon DEF HeldState, At, ThreadFits
<1> PICK row \in TaskRow : row = task[t]
  BY RowFields
<1>2. External /\ RunStep /\ run' = run /\ Leave(a)
  BY RunKept, Zenon DEF HeldState, Quiet
<1>3. CASE Keep /\ UNCHANGED att
  <2>1. RowStep /\ AttStep
    BY <1>3, AttKept DEF Keep, RowStep
  <2> QED
    BY <1>2, <2>1, QuietWorld, LeaveStep
<1>4. CASE row.phase # "closed" /\ act[a].seen \in {"unstopped", "unknown"}
  <2> PICK why \in {"runtime_stop", "operation_unknown"} :
             why = IF act[a].seen = "unstopped" THEN "runtime_stop" ELSE "operation_unknown"
    OBVIOUS
  <2> PICK blockers : blockers = row.blockers \cup {why}
    OBVIOUS
  <2> PICK new : new = [row EXCEPT !.phase = "stopping", !.blockers = blockers]
    OBVIOUS
  <2>1. Put(t, new) /\ UNCHANGED att
    BY <1>4, Zenon DEF HeldState
  <2>2. blockers \in SUBSET Blockers /\ "stopping" \in Phases
    BY DEF TaskRow, Blockers, Doubts, Phases
  <2>3. new \in TaskRow /\ MildRow(t, new)
    BY <1>4, <2>2 DEF MildRow, TaskRow
  <2>4. RowStep /\ AttStep
    BY <2>1, <2>3, Puts, AttKept DEF RowStep
  <2> QED
    BY <1>2, <2>4, QuietWorld, LeaveStep
<1>5. CASE /\ row.phase # "closed" /\ act[a].seen \notin {"unstopped", "unknown"}
           /\ ~(act[a].seen = "stopped" /\ Snapshot(t) = "accepted")
           /\ act[a].why # "cancel_requested"
  <2> PICK phase \in {"active", "queued"} : phase = IF g # 0 THEN "active" ELSE "queued"
    OBVIOUS
  <2> PICK new : new = [row EXCEPT !.phase = phase]
    OBVIOUS
  <2>1. Put(t, new) /\ UNCHANGED att
    BY <1>5 DEF HeldState
  <2>2. new \in TaskRow /\ MildRow(t, new)
    BY <1>5 DEF MildRow, TaskRow, Phases
  <2>3. RowStep /\ AttStep
    BY <2>1, <2>2, Puts, AttKept DEF RowStep
  <2> QED
    BY <1>2, <2>3, QuietWorld, LeaveStep
<1>6. CASE /\ row.phase # "closed" /\ act[a].seen \notin {"unstopped", "unknown"}
           /\ ~(act[a].seen = "stopped" /\ Snapshot(t) = "accepted")
           /\ act[a].why = "cancel_requested"
  <2> PICK over : over = [row EXCEPT !.phase = "closed", !.outcome = "cancelled"]
    OBVIOUS
  <2>1. /\ Put(t, over)
        /\ att' = [h \in Tasks |-> IF h # t THEN att[h] ELSE
              [k \in Attempts |-> [att[t][k] EXCEPT !.current = @ /\ k # g,
                                     !.disp = IF k = row.attempt THEN "closed" ELSE @]]]
    BY <1>6, ZenonT(40) DEF HeldState
  <2>2. CancelStands(a)
    BY <1>1, <1>6, Zenon DEF ThreadFits, HeldState, At
  <2>3. /\ row.attempt = g /\ act[a].seen \in {"unsent", "stopped"}
        /\ act[a].seen = "unsent" => g = 0 \/ att[t][g].disp = "prepared"
        /\ act[a].seen = "stopped" => g # 0 /\ att[t][g].disp = "accepted"
    BY <1>6, <2>2, Zenon DEF CancelStands, HeldState
  <2>4. act[a].seen = "stopped" => Snapshot(t) = "accepted"
    BY <2>3 DEF Snapshot
  <2>5. g # 0 => att[t][g].disp = "prepared"
    BY <1>6, <2>3, <2>4
  <2>6. g # 0 => g \in Attempts /\ run[t][g].state = "none"
    BY <2>5 DEF Attempts, EngineInv, AttemptsFit, Begins
  <2>7. /\ over \in TaskRow /\ over.phase = "closed" /\ over.outcome = "cancelled"
        /\ over.attempt = g /\ over.gen = row.gen /\ over.budget = row.budget
    BY <2>3 DEF TaskRow, Phases, Outcomes
  <2>8. Saved(t, over) /\ Lawful(t, over)
    BY <1>6, <2>1, <2>7, Puts, Zenon DEF Lawful
  <2>9. ASSUME NEW k \in Attempts
        PROVE  /\ att'[t][k] \in AttRow /\ att'[t][k].obs = att[t][k].obs
               /\ k = g => att'[t][k].current = FALSE /\ att'[t][k].disp = "closed"
               /\ k # g => att'[t][k] = att[t][k]
    <3> PICK b \in AttRow : b = att[t][k]
      BY AttFields
    <3> PICK current : current = (b.current /\ k # g)
      OBVIOUS
    <3> PICK disp : disp = IF k = g THEN "closed" ELSE b.disp
      OBVIOUS
    <3> PICK new : new = [b EXCEPT !.current = current, !.disp = disp]
      OBVIOUS
    <3>1. att'[t][k] = new
      BY <2>1, <2>3, Zenon
    <3>2. /\ current \in BOOLEAN /\ disp \in DispatchStates /\ b.current \in BOOLEAN
          /\ k = g => current = FALSE
      BY DEF AttRow, DispatchStates
    <3>3. k # g => current = b.current
      BY <3>2
    <3>4. /\ new \in AttRow /\ new.current = current /\ new.disp = disp /\ new.obs = b.obs
          /\ current = b.current /\ disp = b.disp => new = b
      BY <3>2, ZenonT(40) DEF AttRow
    <3> QED
      BY <3>1, <3>2, <3>3, <3>4, Zenon
  <2>10. att' \in [Tasks -> [Attempts -> AttRow]]
    <3>1. ASSUME NEW u \in Tasks PROVE att'[u] \in [Attempts -> AttRow]
      <4>1. CASE u = t
        <5>1. att'[t] = [k \in Attempts |-> att'[t][k]]
          BY <2>1, Zenon
        <5> QED
          BY <2>9, <4>1, <5>1
      <4>2. CASE u # t
        BY <2>1, <4>2 DEF EngineTypes
      <4> QED
        BY <4>1, <4>2
    <3> QED
      BY <2>1, <3>1, Zenon
  <2>11. ASSUME NEW u \in Tasks, NEW h \in Attempts, u # t \/ h # g
         PROVE  att'[u][h] = att[u][h]
    <3>1. CASE u = t
      BY <2>9, <2>11, <3>1
    <3>2. CASE u # t
      BY <2>1, <3>2
    <3> QED
      BY <3>1, <3>2
  <2>12. World
    <3>1. /\ g = task[t].attempt /\ task[t].phase \notin {"none", "closed"}
          /\ over.gen = task[t].gen /\ over.budget = task[t].budget /\ over.attempt \in {0, g}
          /\ over.phase = "closed" /\ run' = run
          /\ \A u \in Tasks, h \in Attempts : u # t \/ h # g => att'[u][h] = att[u][h]
          /\ g # 0 => /\ run[t][g].state # "running"
                      /\ att[t][g].disp \in Begins \/ run[t][g].state # "none"
                      /\ att'[t][g].current = FALSE /\ att'[t][g].disp = "closed"
                      /\ att'[t][g].obs = att[t][g].obs
      BY <1>2, <1>6, <2>3, <2>5, <2>6, <2>7, <2>9, <2>11 DEF Begins
    <3> QED
      BY ONLY EngineTypes, EngineInv, t \in Tasks, g \in 0..Budget, <2>7, <2>8, <2>10, <3>1, ReleaseWorld
  <2>13. grant' \in [Tasks -> BOOLEAN] /\ note' = note /\ ctl' = ctl /\ sent' = sent
    BY <1>2 DEF External, EngineTypes
  <2> QED
    BY <1>2, <2>12, <2>13, LeaveStep
<1> QED
  <2>1. CASE row.phase = "closed"
    BY <1>3, <2>1 DEF HeldState
  <2>2. CASE row.phase # "closed" /\ act[a].seen = "stopped" /\ Snapshot(t) = "accepted"
    BY <1>3, <2>2 DEF HeldState
  <2>3. CASE /\ row.phase # "closed" /\ act[a].seen \notin {"unstopped", "unknown"}
             /\ ~(act[a].seen = "stopped" /\ Snapshot(t) = "accepted")
    BY <1>5, <1>6, <2>3
  <2> QED
    BY <1>4, <2>1, <2>2, <2>3

-----------------------------------------------------------------------------
(* The world outside the engine, and the runtime.                          *)

LEMMA GrantStep ==
  ASSUME EngineTypes, EngineInv, NEW t \in Tasks, Grant(t)
  PROVE  StepGood
<1>1. World
  BY StillWorld DEF Grant, ChangeGrant, runtimeVars
<1>2. grant' \in [Tasks -> BOOLEAN] /\ note' \in [Controls -> NoteRow] /\ UNCHANGED <<note, ctl, sent, act>>
  BY DEF Grant, ChangeGrant, runtimeVars, EngineTypes
<1>3. NotesFit'
  BY <1>1, <1>2, NotesStayFit DEF EngineInv, World
<1> QED
  BY <1>1, <1>2, <1>3, EnvironmentStep

LEMMA ExpireRetentionStep ==
  ASSUME EngineTypes, EngineInv, NEW t \in Tasks, NEW g \in Attempts, ExpireRetention(t, g)
  PROVE  StepGood
<1>1. RowStep /\ RunStep /\ External /\ act' = act
  BY RunKept DEF ExpireRetention, Keep, Quiet, RowStep
<1> PICK b \in AttRow : b = att[t][g]
  BY AttFields
<1> PICK new : new = [b EXCEPT !.expired = TRUE]
  OBVIOUS
<1>2. new \in AttRow /\ new.current = b.current /\ new.disp = b.disp /\ new.obs = b.obs
  BY DEF AttRow
<1>3. att' = [att EXCEPT ![t][g] = new]
  BY DEF ExpireRetention
<1>4. /\ att' \in [Tasks -> [Attempts -> AttRow]] /\ att'[t][g] = new
      /\ \A u \in Tasks, h \in Attempts : u # t \/ h # g => att'[u][h] = att[u][h]
  BY <1>2, <1>3 DEF EngineTypes
<1>5. ~(g > task[t].gen)
  BY DEF ExpireRetention, EngineInv, AttemptsFit, NoAttempt
<1>6. ASSUME NEW u \in Tasks, NEW h \in Attempts
      PROVE  /\ att'[u][h].current = att[u][h].current /\ att'[u][h].disp = att[u][h].disp
             /\ h > task[u].gen => att'[u][h] = att[u][h]
             /\ att'[u][h].obs >= att[u][h].obs
  <2>1. CASE u = t /\ h = g
    <3>1. new.obs >= att[t][g].obs
      BY <1>2, AttFields
    <3> QED
      BY <1>2, <1>4, <1>5, <2>1, <3>1
  <2>2. CASE u # t \/ h # g
    BY <1>4, <2>2, AttFields
  <2> QED
    BY <2>1, <2>2
<1>7. AttStep
  BY <1>4, <1>6 DEF AttStep, AttsMild, CursorsStay
<1> QED
  BY <1>1, <1>7, QuietWorld, StillStep

LEMMA RaisePermissionStep ==
  ASSUME EngineTypes, EngineInv, NEW t \in Tasks, NEW g \in Attempts, RaisePermission(t, g)
  PROVE  StepGood
<1>1. RowStep /\ AttStep /\ External /\ act' = act
  BY AttKept DEF RaisePermission, RowStep, External, storeVars
<1> PICK b \in RunRow : b = run[t][g]
  BY RunFields
<1> PICK p : p = (g - 1) * MaxPerm + b.asked + 1
  OBVIOUS
<1>2. p \in Nat
  <2>1. g - 1 \in Nat /\ b.asked \in Nat /\ MaxPerm \in Nat
    BY RequestAssumption DEF Attempts, RunRow
  <2>2. \A x, y \in Nat : x * y \in Nat
    OBVIOUS
  <2>3. (g - 1) * MaxPerm \in Nat
    BY <2>1, <2>2
  <2> QED
    BY <2>1, <2>3
<1> PICK asked \in Nat : asked = b.asked + 1
  BY DEF RunRow
<1> PICK r : r = [b EXCEPT !.perm = p, !.asked = asked]
  OBVIOUS
<1>3. r \in RunRow /\ r.state = b.state /\ r.claim = b.claim /\ b.state = "running"
  BY <1>2 DEF RunRow, RaisePermission
<1>4. Publish(t, g, r)
  BY DEF RaisePermission
<1>5. RunStep
  BY <1>3, <1>4, Publishes
<1> QED
  BY <1>1, <1>5, QuietWorld, StillStep

\* The runtime's receipts change under a run that ends or goes on.
LEMMA NotesStep ==
  ASSUME EngineTypes, EngineInv, UNCHANGED <<storeVars, ctl, sent, act>>, RunStep,
         note' \in [Controls -> NoteRow],
         \A c \in Controls :
           note'[c] # note[c] =>
             /\ note[c].state # "none" /\ note'[c].t = note[c].t /\ note'[c].g = note[c].g
             /\ note'[c].state # "none" /\ note'[c].rev # 0
  PROVE  StepGood
<1>1. RowStep /\ AttStep /\ grant' \in [Tasks -> BOOLEAN] /\ UNCHANGED <<ctl, sent, act>>
  BY AttKept DEF RowStep, storeVars, EngineTypes
<1>2. World
  BY <1>1, MildWorld
<1>3. NotesFit'
  <2> SUFFICES ASSUME NEW c \in Controls, note'[c] # NoNote
               PROVE  /\ note'[c].t \in Tasks /\ note'[c].g \in Attempts
                      /\ note'[c].state # "none" /\ note'[c].rev # 0
                      /\ att'[note'[c].t][note'[c].g].disp \notin Begins
    BY DEF NotesFit
  <2>1. att' = att
    BY DEF storeVars
  <2>2. note[c].state # "none" => note[c] # NoNote
    BY DEF NoNote
  <2>3. note[c] # NoNote =>
          /\ note[c].t \in Tasks /\ note[c].g \in Attempts
          /\ note[c].state # "none" /\ note[c].rev # 0
          /\ att[note[c].t][note[c].g].disp \notin Begins
    BY DEF EngineInv, NotesFit
  <2>4. CASE note'[c] = note[c]
    BY <2>1, <2>3, <2>4
  <2>5. CASE note'[c] # note[c]
    BY <2>1, <2>2, <2>3, <2>5
  <2> QED
    BY <2>4, <2>5
<1> QED
  BY <1>1, <1>2, <1>3, EnvironmentStep

LEMMA FinishStep ==
  ASSUME EngineTypes, EngineInv, NEW t \in Tasks, NEW g \in Attempts, NEW e \in Endings,
         Finish(t, g, e[1], e[2])
  PROVE  StepGood
<1> PICK b \in RunRow : b = run[t][g]
  BY RunFields
<1> PICK state \in Verdicts, claim \in RunResults : state = e[1] /\ claim = e[2]
  BY DEF Endings, Verdicts, RunResults
<1> PICK said : said = IF state = "completed" THEN claim ELSE "none"
  OBVIOUS
<1> PICK r : r = [b EXCEPT !.state = state, !.perm = 0, !.claim = said]
  OBVIOUS
<1>1. r \in RunRow /\ r.state = state /\ r.claim = said /\ b.state = "running"
  BY DEF RunRow, RunStates, RunResults, Finish
<1>2. state # "none"
  BY DEF Verdicts
<1>3. Publish(t, g, r)
  BY DEF Finish
<1>4. RunStep
  BY <1>1, <1>2, <1>3, Publishes
<1>5. ASSUME NEW c \in Controls
      PROVE  /\ note'[c] \in NoteRow
             /\ note'[c] # note[c] =>
                  /\ note[c].state # "none" /\ note'[c].t = note[c].t /\ note'[c].g = note[c].g
                  /\ note'[c].state # "none" /\ note'[c].rev # 0
  <2> PICK n \in NoteRow : n = note[c]
    BY CtlFields
  <2> PICK rev \in Nat : rev = n.rev + 1
    BY DEF NoteRow
  <2> PICK new : new = [n EXCEPT !.state = "not_applied", !.rev = rev]
    OBVIOUS
  <2>0. rev # 0
    BY DEF NoteRow
  <2>1. /\ new \in NoteRow /\ new.t = n.t /\ new.g = n.g
        /\ new.state = "not_applied" /\ new.rev = rev
    BY DEF NoteRow, NoteStates
  <2>2. note'[c] = n \/ (note'[c] = new /\ n.state = "accepted")
    BY DEF Finish
  <2> QED
    BY <2>0, <2>1, <2>2
<1>6. note' \in [Controls -> NoteRow]
  <2>1. note' = [c \in Controls |-> note'[c]]
    BY DEF Finish
  <2> QED
    BY <1>5, <2>1
<1>7. UNCHANGED <<storeVars, ctl, sent, act>>
  BY DEF Finish
<1> QED
  BY <1>4, <1>5, <1>6, <1>7, NotesStep

LEMMA ApplyNoteStep ==
  ASSUME EngineTypes, EngineInv, NEW c \in Controls, ApplyNote(c)
  PROVE  StepGood
<1> PICK n \in NoteRow : n = note[c]
  BY CtlFields
<1> PICK rev \in Nat : rev = n.rev + 1
  BY DEF NoteRow
<1> PICK new : new = [n EXCEPT !.state = "applied", !.rev = rev]
  OBVIOUS
<1>0. rev # 0
  BY DEF NoteRow
<1>1. /\ new \in NoteRow /\ new.t = n.t /\ new.g = n.g /\ n.state # "none"
      /\ new.state = "applied" /\ new.rev = rev
  BY DEF NoteRow, NoteStates, ApplyNote
<1>2. note' = [note EXCEPT ![c] = new]
  <2>1. note' = [note EXCEPT ![c].state = "applied", ![c].rev = note[c].rev + 1]
    BY DEF ApplyNote, EngineTypes
  <2> QED
    BY <2>1 DEF EngineTypes
<1>3. /\ note' \in [Controls -> NoteRow]
      /\ \A e \in Controls :
           note'[e] # note[e] =>
             /\ note[e].state # "none" /\ note'[e].t = note[e].t /\ note'[e].g = note[e].g
             /\ note'[e].state # "none" /\ note'[e].rev # 0
  BY <1>0, <1>1, <1>2 DEF EngineTypes
<1>4. n.t \in Tasks /\ n.g \in Attempts
  BY <1>1 DEF EngineInv, NotesFit, NoNote
<1>5. RunStep
  <2> PICK r \in RunRow : r = run[n.t][n.g]
    BY <1>4, RunFields
  <2>1. Publish(n.t, n.g, r) /\ r.state = "running"
    BY DEF ApplyNote
  <2> QED
    BY <1>4, <2>1, Publishes
<1>6. UNCHANGED <<storeVars, ctl, sent, act>>
  BY DEF ApplyNote
<1> QED
  BY <1>3, <1>5, <1>6, NotesStep

\* A new task, with its work item when the request came as work.
LEMMA SubmitStep ==
  ASSUME EngineTypes, EngineInv, NEW t \in Tasks, NEW managed \in BOOLEAN, Submit(t, managed)
  PROVE  StepGood
<1>1. /\ UNCHANGED <<att, cmd, grant, run, note, ctl, sent, act>> /\ task[t].phase = "none"
  BY DEF Submit, Admit, runtimeVars
<1>2. task[t] = NoRow
  BY <1>1 DEF EngineInv, RowsFit
<1> PICK row : row = [NoRow EXCEPT !.phase = "queued", !.budget = Budget]
  OBVIOUS
<1> PICK item : item = IF managed THEN [NoWork EXCEPT !.managed = TRUE, !.state = "queued"] ELSE NoWork
  OBVIOUS
<1>3. /\ row \in TaskRow /\ row.phase = "queued" /\ row.outcome = "none" /\ row.attempt = 0
      /\ row.gen = 0 /\ row.budget = Budget
  <2>1. row = [phase |-> "queued", outcome |-> "none", blockers |-> {}, attempt |-> 0,
               gen |-> 0, budget |-> Budget, perm |-> 0, result |-> "none"]
    BY DEF NoRow
  <2>2. 0 \in 0..Budget /\ Budget \in 0..Budget
    BY BudgetAssumption
  <2>3. [phase |-> "queued", outcome |-> "none", blockers |-> {}, attempt |-> 0,
         gen |-> 0, budget |-> Budget, perm |-> 0, result |-> "none"] \in TaskRow
    <3>1. "queued" \in Phases /\ "none" \in Outcomes /\ "none" \in RunResults
      BY DEF Phases, Outcomes, RunResults
    <3> QED
      BY <2>2, <3>1 DEF TaskRow
  <2>4. row \in TaskRow
    BY <2>1, <2>3
  <2>5. row.phase = "queued" /\ row.outcome = "none" /\ row.attempt = 0
    BY ONLY <2>1
  <2>6. row.gen = 0 /\ row.budget = Budget
    BY ONLY <2>1
  <2> QED
    BY <2>4, <2>5, <2>6
<1>4. /\ item \in WorkRow /\ item.verified = FALSE /\ item.state # "completed"
      /\ item.managed = FALSE => item = NoWork
  <2>1. CASE managed
    <3>1. item = [managed |-> TRUE, state |-> "queued", verified |-> FALSE, artifact |-> 0]
      BY <2>1 DEF NoWork
    <3>2. 0 \in 0..Budget /\ "queued" \in WorkStates
      BY BudgetAssumption DEF WorkStates
    <3>3. [managed |-> TRUE, state |-> "queued", verified |-> FALSE, artifact |-> 0] \in WorkRow
      BY <3>2 DEF WorkRow
    <3>4. item \in WorkRow
      BY <3>1, <3>3
    <3>5. item.managed = TRUE /\ item.verified = FALSE /\ item.state = "queued"
      BY ONLY <3>1
    <3> QED
      BY <3>4, <3>5
  <2>2. CASE ~managed
    <3>1. item = NoWork
      BY <2>2
    <3>2. NoWork.verified = FALSE /\ NoWork.state = "none"
      BY DEF NoWork
    <3> QED
      BY <3>1, <3>2, EmptyRows
  <2> QED
    BY <2>1, <2>2
<1>5. task' = [task EXCEPT ![t] = row] /\ work' = [work EXCEPT ![t] = item]
  BY DEF Submit, Admit
<1>6. /\ task' \in [Tasks -> TaskRow] /\ task'[t] = row
      /\ work' \in [Tasks -> WorkRow] /\ work'[t] = item
      /\ \A u \in Tasks \ {t} : task'[u] = task[u] /\ work'[u] = work[u]
  BY <1>3, <1>4, <1>5 DEF EngineTypes
<1>7. /\ task[t].attempt = 0 /\ task[t].gen = 0 /\ task[t].outcome = "none" /\ task[t].blockers = {}
  BY <1>2 DEF NoRow
<1>8. \A h \in Attempts : att[t][h] = NoAttempt /\ att[t][h].current # TRUE
  <2> SUFFICES ASSUME NEW h \in Attempts PROVE att[t][h] = NoAttempt /\ NoAttempt.current # TRUE
    OBVIOUS
  <2>1. h > task[t].gen
    BY <1>7 DEF Attempts
  <2> QED
    BY <2>1 DEF EngineInv, AttemptsFit, NoAttempt
<1>9. AttemptsFit'
  <2> SUFFICES ASSUME NEW u \in Tasks, NEW h \in Attempts
               PROVE  /\ att'[u][h].current = TRUE =>
                           /\ h = task'[u].attempt /\ task'[u].phase \notin {"none", "closed"}
                           /\ att'[u][h].disp \notin {"none", "closed"}
                      /\ att'[u][h].disp \in Unsettled => att'[u][h].current = TRUE
                      /\ h > task'[u].gen => att'[u][h] = NoAttempt
                      /\ run'[u][h].state # "none" => att'[u][h].disp \notin Begins
                      /\ run'[u][h].state = "running" => att'[u][h].current = TRUE
    BY DEF AttemptsFit
  <2>1. /\ att[u][h].current = TRUE =>
             /\ h = task[u].attempt /\ task[u].phase \notin {"none", "closed"}
             /\ att[u][h].disp \notin {"none", "closed"}
        /\ att[u][h].disp \in Unsettled => att[u][h].current = TRUE
        /\ h > task[u].gen => att[u][h] = NoAttempt
        /\ run[u][h].state # "none" => att[u][h].disp \notin Begins
        /\ run[u][h].state = "running" => att[u][h].current = TRUE
    BY DEF EngineInv, AttemptsFit
  <2>2. CASE u = t
    BY <1>1, <1>8, <2>1, <2>2
  <2>3. CASE u # t
    BY <1>1, <1>6, <2>1, <2>3
  <2> QED
    BY <2>2, <2>3
<1>10. RowsFit'
  <2> SUFFICES ASSUME NEW u \in Tasks
               PROVE  /\ task'[u].phase = "none" => task'[u] = NoRow
                      /\ task'[u].phase # "none" => task'[u].gen + task'[u].budget = Budget
                      /\ task'[u].attempt <= task'[u].gen
                      /\ task'[u].attempt # 0 /\ task'[u].phase # "closed"
                           => att'[u][task'[u].attempt].current = TRUE
    BY DEF RowsFit
  <2>1. CASE u = t
    <3>1. task'[u] = row
      BY <1>6, <2>1
    <3>2. row.gen + row.budget = Budget /\ row.attempt <= row.gen
      BY <1>3, BudgetAssumption
    <3> QED
      BY <1>3, <3>1, <3>2
  <2>2. CASE u # t
    BY <1>1, <1>6, <2>2 DEF EngineInv, RowsFit
  <2> QED
    BY <2>1, <2>2
<1>11. ResourcesFit' /\ CursorsStay
  BY <1>1, AttFields DEF EngineInv, ResourcesFit, Related, CursorsStay
<1>12. ASSUME NEW u \in Tasks
       PROVE  /\ task'[u].phase # "closed" => task'[u].outcome = "none"
              /\ task'[u].phase = "none" => work'[u] = NoWork
              /\ work'[u].managed = FALSE => work'[u] = NoWork
              /\ work'[u].verified = TRUE => task'[u].phase = "closed"
              /\ task'[u].phase = "closed" /\ work'[u].managed = TRUE => work'[u].verified = TRUE
              /\ task'[u].outcome = "completed" =>
                   /\ "cancel_requested" \notin task'[u].blockers /\ task'[u].attempt \in Attempts
                   /\ run'[u][task'[u].attempt].state = "completed"
                   /\ run'[u][task'[u].attempt].claim = task'[u].result
              /\ work'[u].state = "completed" =>
                   task'[u].outcome = "completed" /\ work'[u].artifact = task'[u].attempt
                     /\ task'[u].result = "delivered"
              /\ \A k \in Commands :
                   cmd'[k].t = u /\ cmd'[k].kind = "cancel" /\ cmd'[k].state = "applied" =>
                     task'[u].outcome = "cancelled"
  <2>1. CASE u = t
    <3>1. \A k \in Commands : ~(cmd[k].t = t /\ cmd[k].kind = "cancel" /\ cmd[k].state = "applied")
      BY <1>7 DEF EngineInv, ClosedFit
    <3> QED
      BY <1>1, <1>3, <1>4, <1>6, <2>1, <3>1
  <2>2. CASE u # t
    <3>1. task'[u] = task[u] /\ work'[u] = work[u] /\ run' = run /\ cmd' = cmd
      BY <1>1, <1>6, <2>2
    <3> QED
      BY <3>1 DEF EngineInv, ClosedFit
  <2> QED
    BY <2>1, <2>2
<1>13. ClosedFit'
  BY <1>12 DEF ClosedFit
<1>14. RowsStay
  <2> SUFFICES ASSUME NEW u \in Tasks, task[u].phase = "closed"
               PROVE  /\ task'[u] = [task[u] EXCEPT !.perm = task'[u].perm]
                      /\ task'[u].perm \in {0, task[u].perm} /\ work'[u] = work[u]
    BY DEF RowsStay
  <2>1. u # t
    BY <1>1
  <2>2. task[u] = [task[u] EXCEPT !.perm = task[u].perm]
    BY RowFields DEF TaskRow
  <2> QED
    BY <1>6, <2>1, <2>2
<1>15. Steady
  <2>1. ASSUME NEW u \in Tasks
        PROVE  /\ task[u].phase # "none" => task'[u].phase # "none"
               /\ task[u].phase = "closed" => task'[u].phase = "closed"
               /\ task[u].gen <= task'[u].gen
               /\ task'[u].phase # "closed" /\ "cancel_requested" \in task[u].blockers =>
                    "cancel_requested" \in task'[u].blockers /\ task'[u].attempt = task[u].attempt
    <3>1. CASE u = t
      <4>1. task'[u] = row /\ task[u].phase = "none" /\ task[u].gen = 0 /\ task[u].blockers = {}
        BY <1>1, <1>6, <1>7, <3>1
      <4>2. row.phase = "queued" /\ 0 <= row.gen
        BY <1>3
      <4> QED
        BY <4>1, <4>2
    <3>2. CASE u # t
      BY <1>6, <3>2, RowFields
    <3> QED
      BY <3>1, <3>2
  <2> QED
    BY <1>1, <2>1 DEF Steady
<1>16. World
  BY <1>1, <1>6, <1>9, <1>10, <1>11, <1>13, <1>14, <1>15 DEF World, EngineTypes
<1>17. External /\ act' = act
  BY <1>1 DEF External
<1> QED
  BY <1>16, <1>17, StillStep

-----------------------------------------------------------------------------
(* The controls.                                                           *)

\* What a step of one thread may do to the controls of another.
SendersSafe(a) ==
  \A b \in Actors \ {a} :
    LET c == act[b].why IN
    /\ act[b].pc \in Sending =>
         /\ ctl'[c].t # "none" /\ ctl'[c].retried = FALSE
         /\ ctl'[c].kind = "permission" => ctl'[c].state = "submitted"
    /\ act[b].pc \in Denying =>
         ctl'[c].retried = TRUE /\ ctl'[c].kind = "permission" /\ ctl'[c].choice = "deny"
    /\ act[b].pc = "receipt" => ctl'[c].t # "none"
    /\ act[b].pc \in {"invoke", "denying"} => sent'[c] = sent[c]

\* Two threads do not send the same control.
SendersApart(a) ==
  \A b \in Actors \ {a} :
    /\ act'[a].pc \in Sending /\ act[b].pc \in Sending => act'[a].why # act[b].why
    /\ act'[a].pc \in Denying /\ act[b].pc \in Denying => act'[a].why # act[b].why

LEMMA ControlsMove ==
  ASSUME ControlsFit, NEW a \in Actors, Others(a), SenderFits(a)', SendersSafe(a), SendersApart(a),
         \A c \in Controls : ControlFits(c)'
  PROVE  ControlsFit'
<1>1. ASSUME NEW b \in Actors PROVE SenderFits(b)'
  <2>1. CASE b = a
    BY <2>1
  <2>2. CASE b # a
    <3> PICK c, pc : c = act[b].why /\ pc = act[b].pc
      OBVIOUS
    <3>1. act'[b] = act[b] /\ SenderFits(b)
      BY <2>2 DEF Others, ControlsFit
    <3>2. /\ pc \in Sending => ctl'[c].t # "none" /\ ctl'[c].retried = FALSE
          /\ pc \in Sending /\ ctl'[c].kind = "permission" => ctl'[c].state = "submitted"
          /\ pc \in Denying =>
               ctl'[c].retried = TRUE /\ ctl'[c].kind = "permission" /\ ctl'[c].choice = "deny"
          /\ pc = "receipt" => ctl'[c].t # "none"
          /\ pc \in {"invoke", "denying"} => sent'[c] = sent[c]
      BY <2>2 DEF SendersSafe
    <3> QED
      BY <3>1, <3>2 DEF SenderFits, At, Sending, Denying
  <2> QED
    BY <2>1, <2>2
<1>2. ASSUME NEW b \in Actors, NEW e \in Actors, b # e
      PROVE  /\ act'[b].pc \in Sending /\ act'[e].pc \in Sending => act'[b].why # act'[e].why
             /\ act'[b].pc \in Denying /\ act'[e].pc \in Denying => act'[b].why # act'[e].why
  <2>1. CASE b # a /\ e # a
    BY <1>2, <2>1 DEF ControlsFit, Others
  <2>2. CASE b = a
    BY <1>2, <2>2 DEF SendersApart, Others
  <2>3. CASE e = a
    BY <1>2, <2>3 DEF SendersApart, Others
  <2> QED
    BY <2>1, <2>2, <2>3
<1> QED
  BY <1>1, <1>2 DEF ControlsFit

\* A step of a thread that moves a control.
LEMMA SenderStep ==
  ASSUME EngineTypes, EngineInv, World, NEW a \in Actors, Others(a), ThreadFits(a)',
         act' \in [Actors -> ActRow], grant' = grant,
         note' \in [Controls -> NoteRow], NotesFit',
         ctl' \in [Controls -> CtlRow], sent' \in [Controls -> Nat], ControlsFit', ControlsStay
  PROVE  StepGood
<1>1. ThreadsFit'
  <2>1. ASSUME NEW b \in Actors, b # a PROVE ThreadFits(b)'
    BY <2>1, StaysFit DEF EngineInv, ThreadsFit, World, Others
  <2> QED
    BY <2>1 DEF ThreadsFit
<1>2. EngineTypes'
  BY DEF EngineTypes, World
<1> QED
  BY <1>1, <1>2 DEF StepGood, EngineInv, World

\* What a thread is sending is a control.
LEMMA SenderHas ==
  ASSUME EngineTypes, EngineInv, NEW a \in Actors, act[a].pc \in Sending \cup Denying \cup {"receipt"}
  PROVE  /\ act[a].why \in Controls /\ ctl[act[a].why] \in CtlRow
         /\ act[a].pc \in Sending \cup {"receipt"} => ctl[act[a].why].t # "none"
         /\ act[a].pc \in Sending =>
              /\ ctl[act[a].why].retried = FALSE
              /\ ctl[act[a].why].kind = "permission" => ctl[act[a].why].state = "submitted"
         /\ act[a].pc \in Denying =>
              ctl[act[a].why].retried = TRUE /\ ctl[act[a].why].kind = "permission"
                /\ ctl[act[a].why].choice = "deny"
<1>1. SenderFits(a)
  BY DEF EngineInv, ControlsFit
<1> QED
  BY <1>1, CtlFields DEF SenderFits, Sending, Denying

\* The row of a task is written as it is.
LEMMA SameRow ==
  ASSUME EngineTypes, NEW t \in Tasks, task[t].phase # "none", Put(t, task[t])
  PROVE  RowStep
<1>1. task[t] \in TaskRow /\ MildRow(t, task[t])
  <2>1. task[t] = [task[t] EXCEPT !.perm = task[t].perm]
    BY RowFields DEF TaskRow
  <2> QED
    BY <2>1, RowFields DEF MildRow
<1> QED
  BY <1>1, Puts DEF RowStep

\* A request that was answered is withdrawn from the row.
LEMMA PermRow ==
  ASSUME EngineTypes, NEW t \in Tasks, task[t].phase # "none", NEW p \in {0, task[t].perm},
         Put(t, [task[t] EXCEPT !.perm = p])
  PROVE  RowStep
<1> PICK row \in TaskRow : row = task[t]
  BY RowFields
<1> PICK new : new = [row EXCEPT !.perm = p]
  OBVIOUS
<1>1. p \in Nat
  BY RowFields
<1>2. /\ new \in TaskRow /\ new.perm = p /\ new.phase = row.phase /\ new.outcome = row.outcome
      /\ new.blockers = row.blockers /\ new.attempt = row.attempt /\ new.gen = row.gen
      /\ new.budget = row.budget
  BY <1>1 DEF TaskRow
<1>3. MildRow(t, new)
  BY <1>2 DEF MildRow
<1> QED
  BY <1>2, <1>3, Puts DEF RowStep

\* A control is saved before anything is sent.
LEMMA SubmitControlStep ==
  ASSUME EngineTypes, EngineInv, NEW o \in Actors, NEW c \in Controls, NEW t \in Tasks, NEW ch \in Choices,
         SubmitControl(o, c, t, ch[1], ch[2])
  PROVE  StepGood
<1> PICK kind \in {"guidance", "permission"}, choice \in {"none", "once", "deny"} :
           /\ kind = ch[1] /\ choice = ch[2] /\ (kind = "guidance" => choice = "none")
  BY DEF Choices
<1> PICK g \in 0..Budget : g = task[t].attempt
  BY RowFields
<1> PICK req : req = IF kind = "permission" THEN task[t].perm ELSE 0
  OBVIOUS
<1> PICK new : new = [NoControl EXCEPT !.t = t, !.g = g, !.kind = kind, !.choice = choice,
                                       !.req = req, !.state = "submitted"]
  OBVIOUS
<1> PICK r : r = [Idle EXCEPT !.pc = "invoke", !.t = t, !.g = g, !.why = c]
  OBVIOUS
<1>1. /\ At(o, "idle") /\ ctl[c].t = "none" /\ Accepts(t) /\ Put(t, task[t])
      /\ ctl' = [ctl EXCEPT ![c] = new] /\ act' = [act EXCEPT ![o] = r]
      /\ UNCHANGED <<att, grant, run, note, sent>>
  BY DEF SubmitControl, runtimeVars
<1>2. ctl[c] = NoControl /\ sent[c] = 0
  BY <1>1 DEF EngineInv, ControlsFit, ControlFits
<1>3. req \in Nat
  BY RowFields
<1>4. new = [t |-> t, g |-> g, kind |-> kind, req |-> req, choice |-> choice,
             state |-> "submitted", app |-> "none", rev |-> 0, final |-> FALSE,
             src |-> "none", retried |-> FALSE]
  BY DEF NoControl
<1>5. /\ new \in CtlRow /\ new.t = t /\ new.kind = kind /\ new.state = "submitted" /\ new.choice = choice
      /\ new.src = "none" /\ new.final = FALSE /\ new.rev = 0 /\ new.retried = FALSE
  <2>1. "submitted" \in CtlStates /\ kind \in CtlKinds /\ "none" \in NoteStates \cup {"none", "unknown"}
    BY DEF CtlStates, CtlKinds
  <2>2. [t |-> t, g |-> g, kind |-> kind, req |-> req, choice |-> choice,
         state |-> "submitted", app |-> "none", rev |-> 0, final |-> FALSE,
         src |-> "none", retried |-> FALSE] \in CtlRow
    BY <1>3, <2>1 DEF CtlRow
  <2>3. new \in CtlRow
    BY <1>4, <2>2
  <2>4. /\ new.t = t /\ new.kind = kind /\ new.state = "submitted" /\ new.choice = choice
        /\ new.src = "none" /\ new.rev = 0
    BY ONLY <1>4
  <2>5. new.final = FALSE /\ new.retried = FALSE
    BY ONLY <1>4
  <2> QED
    BY <2>3, <2>4, <2>5
<1>6. /\ r \in ActRow /\ r.pc = "invoke" /\ r.t = t /\ r.g = g /\ r.why = c /\ r.res = NoResult
  <2>1. r = [pc |-> "invoke", t |-> t, g |-> g, seen |-> "none", why |-> c, res |-> NoResult]
    BY DEF Idle
  <2>2. "invoke" \in WithTask \cup {"idle"} /\ "none" \in Sightings
    BY DEF WithTask, Sightings, DispatchStates
  <2>3. [pc |-> "invoke", t |-> t, g |-> g, seen |-> "none", why |-> c, res |-> NoResult] \in ActRow
    BY <2>2, EmptyRows DEF ActRow
  <2>4. r \in ActRow
    BY <2>1, <2>3
  <2>5. r.pc = "invoke" /\ r.t = t /\ r.g = g /\ r.why = c /\ r.res = NoResult
    BY ONLY <2>1
  <2> QED
    BY <2>4, <2>5
<1>7. /\ act' \in [Actors -> ActRow] /\ act'[o] = r /\ Others(o)
  BY <1>1, <1>6, Goes
<1>8. /\ ctl' \in [Controls -> CtlRow] /\ ctl'[c] = new
      /\ \A e \in Controls : e # c => ctl'[e] = ctl[e]
  BY <1>1, <1>5 DEF EngineTypes
<1>9. /\ g \in Attempts /\ task[t].phase = "active" /\ g <= task[t].gen /\ att[t][g].disp \notin Begins
  <2>1. g # 0 /\ task[t].phase = "active" /\ att[t][g].disp = "accepted"
    BY <1>1 DEF Accepts
  <2>2. g <= task[t].gen
    BY DEF EngineInv, RowsFit
  <2> QED
    BY <2>1, <2>2 DEF Attempts, Begins
<1>10. World
  <2>1. RowStep
    BY <1>1, <1>9, SameRow
  <2> QED
    BY <1>1, <2>1, AttKept, RunKept, MildWorld
<1>11. ThreadFits(o)'
  <2>1. task'[t].phase # "none" /\ task[t].gen <= task'[t].gen /\ task'[t].gen \in 0..Budget
    BY <1>9, <1>10 DEF World, Steady, TaskRow
  <2>2. g <= task'[t].gen /\ att'[t][g].disp \notin Begins
    BY <1>1, <1>9, <2>1, RowFields DEF Attempts
  <2> QED
    BY <1>6, <1>7, <1>9, <2>1, <2>2 DEF ThreadFits, At, BeforeSubmit, AfterSubmit, NoResult, Terminal
<1>12. \A e \in Controls : ControlFits(e)'
  <2> SUFFICES ASSUME NEW e \in Controls PROVE ControlFits(e)'
    OBVIOUS
  <2>1. CASE e = c
    <3>1. t # "none" /\ sent'[c] = 0
      BY <1>1, <1>2, TaskAssumption
    <3>2. ctl'[e] = new
      BY <1>8, <2>1
    <3>3. /\ ctl'[e].t # "none" /\ ctl'[e].kind \in {"guidance", "permission"}
          /\ ctl'[e].state = "submitted" /\ ctl'[e].src = "none" /\ ctl'[e].rev = 0
          /\ ctl'[e].kind = "guidance" => ctl'[e].choice = "none"
      BY <1>5, <3>1, <3>2
    <3>4. ctl'[e].final = FALSE /\ ctl'[e].retried = FALSE
      BY <1>5, <3>2
    <3>5. sent'[e] = 0
      BY <2>1, <3>1
    <3> QED
      BY <3>3, <3>4, <3>5 DEF ControlFits
  <2>2. CASE e # c
    BY <1>1, <1>8, <2>2 DEF ControlFits, EngineInv, ControlsFit
  <2> QED
    BY <2>1, <2>2
<1>13. \A b \in Actors \ {o} : act[b].pc \in Sending \cup Denying \cup {"receipt"} => act[b].why # c
  <2> SUFFICES ASSUME NEW b \in Actors \ {o}, act[b].pc \in Sending \cup Denying \cup {"receipt"}, act[b].why = c
               PROVE  FALSE
    OBVIOUS
  <2>1. ctl[c].t = "none" /\ ctl[c].retried = FALSE
    BY <1>2 DEF NoControl
  <2> QED
    BY <2>1, SenderHas
<1>14. SenderFits(o)'
  <2>1. t # "none" /\ sent'[c] = 0
    BY <1>1, <1>2, TaskAssumption
  <2>2. act'[o].pc = "invoke" /\ act'[o].why = c
    BY <1>6, <1>7
  <2>3. ctl'[c].t # "none" /\ ctl'[c].retried = FALSE /\ ctl'[c].state = "submitted"
    BY <1>5, <1>8, <2>1
  <2> QED
    BY <2>1, <2>2, <2>3 DEF SenderFits, At, Sending, Denying
<1>15. SendersSafe(o)
  <2> SUFFICES ASSUME NEW b \in Actors \ {o}, act[b].pc \in Sending \cup Denying \cup {"receipt"}
               PROVE  ctl'[act[b].why] = ctl[act[b].why] /\ sent'[act[b].why] = sent[act[b].why]
    BY SenderHas DEF SendersSafe, Sending, Denying
  <2> QED
    BY <1>1, <1>8, <1>13, SenderHas
<1>16. SendersApart(o)
  BY <1>6, <1>7, <1>13 DEF SendersApart, Denying
<1>17. ControlsFit'
  BY <1>7, <1>12, <1>14, <1>15, <1>16, ControlsMove DEF EngineInv
<1>18. ControlsStay
  <2> SUFFICES ASSUME NEW e \in Controls
               PROVE  /\ ctl[e].src = "runtime" /\ ctl[e].final => ctl'[e] = ctl[e]
                      /\ ctl[e].state = "superseded" => ctl'[e].state = "superseded"
                      /\ ctl'[e].rev >= ctl[e].rev
    BY DEF ControlsStay
  <2>1. CASE e = c
    <3>1. ctl[c].src = "none" /\ ctl[c].state = "none" /\ ctl[c].rev = 0
      BY <1>2 DEF NoControl
    <3>2. ctl'[c].rev = 0
      BY <1>5, <1>8
    <3> QED
      BY <2>1, <3>1, <3>2
  <2>2. CASE e # c
    BY <1>8, <2>2, CtlFields
  <2> QED
    BY <2>1, <2>2
<1>19. /\ grant' = grant /\ note' \in [Controls -> NoteRow] /\ sent' \in [Controls -> Nat]
       /\ NotesFit'
  BY <1>1, <1>10, NotesStayFit DEF EngineTypes, EngineInv, World
<1> QED
  BY <1>7, <1>8, <1>10, <1>11, <1>17, <1>18, <1>19, SenderStep

\* A thread that sends or has sent a control has its task and its run.
LEMMA SendingHas ==
  ASSUME EngineTypes, EngineInv, NEW a \in Actors, act[a].pc \in {"invoke", "record", "receipt"}
  PROVE  /\ act[a].t \in Tasks /\ act[a].g \in Attempts
         /\ task[act[a].t].phase # "none" /\ act[a].g <= task[act[a].t].gen
         /\ att[act[a].t][act[a].g].disp \notin Begins
         /\ ThreadFits(a)
BY DEF EngineInv, ThreadsFit, ThreadFits, At

\* A thread that goes on with the control it has sent.
LEMMA SendingFits ==
  ASSUME EngineTypes, EngineInv, World, NEW a \in Actors, act[a].pc \in {"invoke", "record", "receipt"},
         act'[a].pc \in {"record", "receipt", "idle"},
         act'[a].t = act[a].t, act'[a].g = act[a].g,
         act'[a].res = act[a].res \/ act'[a].res.state \notin Terminal
  PROVE  ThreadFits(a)'
<1> PICK t, g : t = act[a].t /\ g = act[a].g
  OBVIOUS
<1>1. /\ t \in Tasks /\ g \in Attempts /\ task[t].phase # "none" /\ g <= task[t].gen
      /\ att[t][g].disp \notin Begins /\ ThreadFits(a)
  BY SendingHas
<1>2. /\ task'[t].phase # "none" /\ task[t].gen <= task'[t].gen /\ task'[t].gen \in 0..Budget
      /\ att'[t][g].disp \notin Begins
  BY <1>1 DEF World, Steady, TaskRow
<1>3. g <= task'[t].gen
  BY <1>1, <1>2, RowFields DEF Attempts
<1>4. act'[a].res.state \in Terminal =>
        run'[t][g].state = act'[a].res.state /\ run'[t][g].claim = act'[a].res.claim
  <2>1. CASE act'[a].res = act[a].res
    <3>1. act[a].res.state \in Terminal =>
            run[t][g].state = act[a].res.state /\ run[t][g].claim = act[a].res.claim
      BY <1>1 DEF ThreadFits
    <3>2. act[a].res.state \in Terminal => act[a].res.state \notin {"none", "running"}
      BY DEF Terminal
    <3>3. run[t][g].state \notin {"none", "running"} =>
            run'[t][g].state = run[t][g].state /\ run'[t][g].claim = run[t][g].claim
      BY <1>1 DEF World, Steady
    <3> QED
      BY <2>1, <3>1, <3>2, <3>3
  <2>2. CASE act'[a].res.state \notin Terminal
    BY <2>2
  <2> QED
    BY <2>1, <2>2
<1> QED
  BY <1>1, <1>2, <1>3, <1>4 DEF ThreadFits, At, BeforeSubmit, AfterSubmit

\* A run that was told something is published as it is, or without its request.
LEMMA ToldRuns ==
  ASSUME EngineTypes, NEW t \in Tasks, NEW g \in Attempts,
         \/ UNCHANGED run
         \/ Publish(t, g, run[t][g])
         \/ Publish(t, g, [run[t][g] EXCEPT !.perm = 0])
  PROVE  RunStep
<1> PICK b \in RunRow : b = run[t][g]
  BY RunFields
<1> PICK r : r = [b EXCEPT !.perm = 0]
  OBVIOUS
<1>1. r \in RunRow /\ r.state = b.state /\ r.claim = b.claim
  BY DEF RunRow
<1>2. CASE UNCHANGED run
  BY <1>2, RunKept
<1>3. CASE Publish(t, g, b)
  BY <1>3, Publishes
<1>4. CASE Publish(t, g, r)
  BY <1>1, <1>4, Publishes
<1> QED
  BY <1>2, <1>3, <1>4

\* The call of a control, which may not arrive, or whose answer may be lost.
LEMMA InvokeControlStep ==
  ASSUME EngineTypes, EngineInv, NEW o \in Actors, NEW arrives \in BOOLEAN, NEW lost \in BOOLEAN,
         InvokeControl(o, arrives, lost)
  PROVE  StepGood
<1> PICK t, g, c : t = act[o].t /\ g = act[o].g /\ c = act[o].why
  OBVIOUS
<1>1. At(o, "invoke") /\ act[o].pc = "invoke" /\ act[o].pc \in Sending
  BY DEF InvokeControl, At, Sending
<1>2. /\ t \in Tasks /\ g \in Attempts /\ task[t].phase # "none" /\ g <= task[t].gen
      /\ att[t][g].disp \notin Begins
  BY <1>1, SendingHas
<1>3. /\ c \in Controls /\ ctl[c].t # "none" /\ ctl[c].retried = FALSE
      /\ ctl[c].kind = "permission" => ctl[c].state = "submitted"
  BY <1>1, SenderHas
<1>4. sent[c] = 0
  BY <1>1 DEF EngineInv, ControlsFit, SenderFits
<1>5. /\ sent' = [sent EXCEPT ![c] = sent[c] + 1]
      /\ UNCHANGED <<task, att, work, cmd, grant, ctl>>
  BY DEF InvokeControl, storeVars
<1>6. /\ sent' \in [Controls -> Nat] /\ sent'[c] = 1
      /\ \A e \in Controls : e # c => sent'[e] = sent[e]
  BY <1>3, <1>4, <1>5 DEF EngineTypes
<1>7. /\ note' = note \/ (arrives /\ note' = Steered(c, t, g))
      /\ \/ UNCHANGED run
         \/ Publish(t, g, run[t][g])
         \/ Publish(t, g, [run[t][g] EXCEPT !.perm = 0])
  BY DEF InvokeControl
<1> PICK given : given = [t |-> t, g |-> g, rev |-> 1,
                          state |-> IF run[t][g].state = "running" THEN "accepted" ELSE "too_late"]
  OBVIOUS
<1>8. /\ given \in NoteRow /\ given.t = t /\ given.g = g /\ given.rev = 1 /\ given.state # "none"
  <2> PICK state \in {"accepted", "too_late"} :
             state = IF run[t][g].state = "running" THEN "accepted" ELSE "too_late"
    OBVIOUS
  <2>1. given = [t |-> t, g |-> g, rev |-> 1, state |-> state]
    OBVIOUS
  <2>2. g \in 0..Budget /\ state \in NoteStates
    BY <1>2 DEF Attempts, NoteStates
  <2>3. [t |-> t, g |-> g, rev |-> 1, state |-> state] \in NoteRow
    BY <1>2, <2>2 DEF NoteRow
  <2> QED
    BY <2>1, <2>3
<1>9. /\ note' \in [Controls -> NoteRow]
      /\ \A e \in Controls : note'[e] = note[e] \/ note'[e] = given
      /\ arrives /\ note' = Steered(c, t, g) => note'[c].t # "none"
  <2>1. note' = note \/ note' = [note EXCEPT ![c] = given]
    BY <1>7 DEF Steered
  <2>2. note' \in [Controls -> NoteRow] /\ \A e \in Controls : note'[e] = note[e] \/ note'[e] = given
    BY <1>3, <1>8, <2>1 DEF EngineTypes
  <2>3. note' = Steered(c, t, g) => note'[c].t # "none"
    <3>1. t # "none"
      BY <1>2, TaskAssumption
    <3>2. [note EXCEPT ![c] = given][c] = given
      BY <1>3 DEF EngineTypes
    <3> QED
      BY <1>8, <3>1, <3>2 DEF Steered
  <2> QED
    BY <2>2, <2>3
<1>10. World
  <2>1. RowStep /\ AttStep /\ RunStep
    BY <1>2, <1>5, <1>7, AttKept, ToldRuns DEF RowStep
  <2> QED
    BY <2>1, MildWorld
<1>11. NotesFit'
  <2> SUFFICES ASSUME NEW e \in Controls, note'[e] # NoNote
               PROVE  /\ note'[e].t \in Tasks /\ note'[e].g \in Attempts
                      /\ note'[e].state # "none" /\ note'[e].rev # 0
                      /\ att'[note'[e].t][note'[e].g].disp \notin Begins
    BY DEF NotesFit
  <2>1. CASE note'[e] = note[e]
    BY <1>5, <2>1 DEF EngineInv, NotesFit
  <2>2. CASE note'[e] = given
    BY <1>2, <1>5, <1>8, <2>2
  <2> QED
    BY <1>9, <2>1, <2>2
<1>12. PICK seen \in {"accepted", "rejected", "unknown"}, res \in ResRow :
         /\ res = act[o].res \/ res.state = "none"
         /\ act' = [act EXCEPT ![o] = [act[o] EXCEPT !.pc = "record", !.seen = seen, !.res = res]]
  <2>1. CASE ctl[c].kind = "guidance"
    <3> PICK seen : seen = CASE lost -> "unknown"
                             [] ~lost /\ note'[c].state = "too_late" -> "rejected"
                             [] OTHER -> "accepted"
      OBVIOUS
    <3> PICK notes : notes = [e \in {c} |-> note'[e]]
      OBVIOUS
    <3> PICK res : res = IF lost THEN NoResult ELSE [NoResult EXCEPT !.notes = notes]
      OBVIOUS
    <3>1. act' = [act EXCEPT ![o].pc = "record", ![o].seen = seen, ![o].res = res]
      BY <2>1 DEF InvokeControl
    <3>2. seen \in {"accepted", "rejected", "unknown"}
      OBVIOUS
    <3>3. ~lost => notes \in Receipts
      <4> SUFFICES ASSUME ~lost PROVE notes \in Receipts
        OBVIOUS
      <4>1. note' = Steered(c, t, g) /\ arrives
        BY <2>1 DEF InvokeControl
      <4>2. note'[c] # NoNote /\ note'[c] \in NoteRow
        BY <1>3, <1>9, <4>1 DEF NoNote
      <4>3. note'[c] \in GivenRow
        BY <1>3, <1>11, <4>2 DEF NotesFit, GivenRow
      <4>4. notes \in [{c} -> GivenRow]
        BY <4>3
      <4> QED
        BY <1>3, <4>4, OneReceipt
    <3>4. res \in ResRow /\ res.state = "none"
      <4>1. NoResult \in ResRow /\ NoResult.state = "none"
        BY EmptyRows DEF NoResult
      <4>2. CASE lost
        BY <4>1, <4>2
      <4>3. CASE ~lost
        <5> PICK e \in ResRow : e = NoResult
          BY <4>1
        <5>1. /\ [e EXCEPT !.notes = notes] \in ResRow
              /\ [e EXCEPT !.notes = notes].state = e.state
          BY <3>3, <4>3 DEF ResRow
        <5> QED
          BY <4>1, <4>3, <5>1
      <4> QED
        BY <4>2, <4>3
    <3>5. act' = [act EXCEPT ![o] = [act[o] EXCEPT !.pc = "record", !.seen = seen, !.res = res]]
      BY <3>1 DEF EngineTypes
    <3> QED
      BY <3>2, <3>4, <3>5, Zenon
  <2>2. CASE ctl[c].kind # "guidance"
    <3> PICK seen \in {"accepted", "unknown"} : act' = [act EXCEPT ![o].pc = "record", ![o].seen = seen]
      BY <2>2 DEF InvokeControl
    <3>1. act[o].res \in ResRow
      BY ActFields
    <3> PICK b \in ActRow : b = act[o]
      BY ActFields
    <3>2. [b EXCEPT !.pc = "record", !.seen = seen]
            = [b EXCEPT !.pc = "record", !.seen = seen, !.res = b.res]
      BY DEF ActRow
    <3>3. act' = [act EXCEPT ![o] = [b EXCEPT !.pc = "record", !.seen = seen]]
      BY DEF EngineTypes
    <3>4. act' = [act EXCEPT ![o] = [act[o] EXCEPT !.pc = "record", !.seen = seen, !.res = b.res]]
      BY <3>2, <3>3
    <3>5. b.res \in ResRow /\ (b.res = act[o].res \/ b.res.state = "none")
      BY <3>1
    <3>6. seen \in {"accepted", "rejected", "unknown"}
      OBVIOUS
    <3> QED
      BY ONLY <3>4, <3>5, <3>6
  <2> QED
    BY <2>1, <2>2, Zenon
<1> PICK r : r = [act[o] EXCEPT !.pc = "record", !.seen = seen, !.res = res]
  OBVIOUS
<1>13. /\ r \in ActRow /\ r.pc = "record" /\ r.t = t /\ r.g = g /\ r.why = c
       /\ r.seen = seen /\ r.res = res
  <2>1. "record" \in WithTask \cup {"idle"} /\ seen \in Sightings
    BY <1>12 DEF WithTask, Sightings, DispatchStates
  <2> QED
    BY <1>12, <2>1, ActFields DEF ActRow
<1>14. act' \in [Actors -> ActRow] /\ act'[o] = r /\ Others(o)
  BY <1>12, <1>13, Goes
<1>15. ThreadFits(o)'
  <2>1. act'[o].res = act[o].res \/ act'[o].res.state \notin Terminal
    BY <1>12, <1>13, <1>14 DEF Terminal
  <2> QED
    BY <1>1, <1>10, <1>13, <1>14, <2>1, SendingFits
<1>16. \A e \in Controls : ControlFits(e)'
  <2> SUFFICES ASSUME NEW e \in Controls PROVE ControlFits(e)'
    OBVIOUS
  <2>1. ctl'[e] = ctl[e] /\ ControlFits(e)
    BY <1>5 DEF EngineInv, ControlsFit
  <2>2. CASE e = c
    BY <1>3, <1>6, <2>1, <2>2 DEF ControlFits
  <2>3. CASE e # c
    BY <1>6, <2>1, <2>3 DEF ControlFits
  <2> QED
    BY <2>2, <2>3
<1>17. SenderFits(o)'
  <2>1. /\ act'[o].pc = "record" /\ act'[o].why = c /\ act'[o].seen \in {"accepted", "rejected", "unknown"}
    BY <1>12, <1>13, <1>14
  <2> QED
    BY <1>3, <1>5, <2>1 DEF SenderFits, At, Sending, Denying
<1>18. \A b \in Actors \ {o} : act[b].pc \in Sending \cup Denying => act[b].why # c
  <2> SUFFICES ASSUME NEW b \in Actors \ {o}, act[b].pc \in Sending \cup Denying, act[b].why = c
               PROVE  FALSE
    OBVIOUS
  <2>1. CASE act[b].pc \in Sending
    BY <1>1, <2>1 DEF EngineInv, ControlsFit
  <2>2. CASE act[b].pc \in Denying
    BY <1>3, <2>2, SenderHas
  <2> QED
    BY <2>1, <2>2
<1>19. SendersSafe(o)
  <2> SUFFICES ASSUME NEW b \in Actors \ {o}, act[b].pc \in Sending \cup Denying \cup {"receipt"}
               PROVE  /\ ctl'[act[b].why] = ctl[act[b].why]
                      /\ act[b].pc \in {"invoke", "denying"} => sent'[act[b].why] = sent[act[b].why]
    BY SenderHas DEF SendersSafe, Sending, Denying
  <2> QED
    BY <1>5, <1>6, <1>18, SenderHas DEF Sending, Denying
<1>20. SendersApart(o)
  BY <1>13, <1>14, <1>18 DEF SendersApart, Denying
<1>21. ControlsFit'
  BY <1>14, <1>16, <1>17, <1>19, <1>20, ControlsMove DEF EngineInv
<1>22. ControlsStay
  BY <1>5, CtlFields DEF ControlsStay
<1>23. ctl' \in [Controls -> CtlRow] /\ grant' = grant
  BY <1>5 DEF EngineTypes
<1> QED
  BY <1>6, <1>9, <1>10, <1>11, <1>14, <1>15, <1>21, <1>22, <1>23, SenderStep

\* The outcome of the call is saved, unless a poll has merged a newer receipt.
LEMMA RecordControlStep ==
  ASSUME EngineTypes, EngineInv, NEW o \in Actors, RecordControl(o)
  PROVE  StepGood
<1> PICK t, g, c : t = act[o].t /\ g = act[o].g /\ c = act[o].why
  OBVIOUS
<1>1. At(o, "record") /\ act[o].pc = "record" /\ act[o].pc \in Sending
  BY DEF RecordControl, At, Sending
<1>2. t \in Tasks /\ task[t].phase # "none"
  BY <1>1, SendingHas
<1>3. /\ c \in Controls /\ ctl[c].t # "none" /\ ctl[c].retried = FALSE
      /\ ctl[c].kind = "permission" => ctl[c].state = "submitted"
  BY <1>1, SenderHas
<1> PICK seen \in {"accepted", "rejected", "unknown"} : seen = act[o].seen
  BY <1>1 DEF EngineInv, ControlsFit, SenderFits
<1> PICK p : p = IF ctl[c].kind = "permission" /\ seen = "accepted" /\ task[t].perm = ctl[c].req
                 THEN 0 ELSE task[t].perm
  OBVIOUS
<1> PICK pc : pc = IF act[o].res = NoResult THEN "idle" ELSE "receipt"
  OBVIOUS
<1> PICK b \in CtlRow : b = ctl[c]
  BY <1>3, CtlFields
<1> PICK new : new = [b EXCEPT !.state = seen]
  OBVIOUS
<1> PICK r : r = [act[o] EXCEPT !.pc = pc]
  OBVIOUS
<1>4. /\ Put(t, [task[t] EXCEPT !.perm = p])
      /\ act' = [act EXCEPT ![o] = r]
      /\ UNCHANGED <<att, grant, run, note, sent>>
  BY DEF RecordControl, runtimeVars
<1>5. ctl' = IF b.rev # 0 THEN ctl ELSE [ctl EXCEPT ![c] = new]
  BY <1>3 DEF RecordControl, EngineTypes
<1>6. /\ new \in CtlRow /\ new.t = b.t /\ new.kind = b.kind /\ new.state = seen /\ new.choice = b.choice
      /\ new.src = b.src /\ new.rev = b.rev
  <2>1. seen \in CtlStates
    BY DEF CtlStates
  <2> QED
    BY <2>1 DEF CtlRow
<1>7. new.final = b.final /\ new.retried = b.retried
  BY DEF CtlRow
<1>8. /\ r \in ActRow /\ r.pc = pc /\ r.t = t /\ r.g = g /\ r.why = c /\ r.res = act[o].res
  <2>1. pc \in WithTask \cup {"idle"}
    BY DEF WithTask
  <2> QED
    BY <2>1, ActFields DEF ActRow
<1>9. act' \in [Actors -> ActRow] /\ act'[o] = r /\ Others(o)
  BY <1>4, <1>8, Goes
<1>10. World
  <2>1. p \in {0, task[t].perm}
    OBVIOUS
  <2>2. RowStep
    BY <1>2, <1>4, <2>1, PermRow
  <2> QED
    BY <1>4, <2>2, AttKept, RunKept, MildWorld
<1>11. ThreadFits(o)'
  <2>1. act'[o].pc \in {"record", "receipt", "idle"}
    BY <1>8, <1>9
  <2> QED
    BY <1>1, <1>8, <1>9, <1>10, <2>1, SendingFits
<1>12. /\ ctl' \in [Controls -> CtlRow]
       /\ \A e \in Controls : e # c => ctl'[e] = ctl[e]
       /\ ctl'[c] = b \/ (b.rev = 0 /\ ctl'[c] = new)
  BY <1>3, <1>5, <1>6 DEF EngineTypes
<1>13. \A e \in Controls : ControlFits(e)'
  <2> SUFFICES ASSUME NEW e \in Controls PROVE ControlFits(e)'
    OBVIOUS
  <2>1. sent'[e] = sent[e] /\ ControlFits(e)
    BY <1>4 DEF EngineInv, ControlsFit
  <2>2. CASE ctl'[e] = ctl[e]
    BY <2>1, <2>2 DEF ControlFits
  <2>3. CASE e = c /\ ctl'[c] = new
    BY <1>3, <1>6, <1>7, <2>1, <2>3 DEF ControlFits
  <2> QED
    BY <1>12, <2>2, <2>3
<1>14. SenderFits(o)'
  <2>1. act'[o].pc \in {"idle", "receipt"} /\ act'[o].why = c
    BY <1>8, <1>9
  <2>2. ctl'[c].t # "none"
    BY <1>3, <1>6, <1>12
  <2> QED
    BY <1>3, <2>1, <2>2 DEF SenderFits, At, Sending, Denying
<1>15. SendersSafe(o)
  <2> SUFFICES ASSUME NEW a \in Actors \ {o}, act[a].pc \in Sending \cup Denying \cup {"receipt"}
               PROVE  \/ ctl'[act[a].why] = ctl[act[a].why] /\ sent'[act[a].why] = sent[act[a].why]
                      \/ act[a].pc = "receipt" /\ ctl'[act[a].why].t # "none"
    BY SenderHas DEF SendersSafe, Sending, Denying
  <2>1. CASE act[a].why # c
    BY <1>4, <1>12, <2>1, SenderHas
  <2>2. CASE act[a].why = c /\ act[a].pc \in Sending
    BY <1>1, <2>2 DEF EngineInv, ControlsFit
  <2>3. CASE act[a].why = c /\ act[a].pc \in Denying
    BY <1>3, <2>3, SenderHas
  <2>4. CASE act[a].why = c /\ act[a].pc = "receipt"
    <3>1. b.t # "none" /\ (ctl'[c] = b \/ ctl'[c] = new) /\ new.t = b.t
      BY <1>3, <1>6, <1>12
    <3>2. ctl'[c].t # "none"
      BY ONLY <3>1
    <3> QED
      BY <2>4, <3>2
  <2> QED
    BY <2>1, <2>2, <2>3, <2>4
<1>16. SendersApart(o)
  BY <1>8, <1>9 DEF SendersApart, Sending, Denying
<1>17. ControlsFit'
  BY <1>9, <1>13, <1>14, <1>15, <1>16, ControlsMove DEF EngineInv
<1>18. ControlsStay
  <2> SUFFICES ASSUME NEW e \in Controls
               PROVE  /\ ctl[e].src = "runtime" /\ ctl[e].final => ctl'[e] = ctl[e]
                      /\ ctl[e].state = "superseded" => ctl'[e].state = "superseded"
                      /\ ctl'[e].rev >= ctl[e].rev
    BY DEF ControlsStay
  <2>1. CASE ctl'[e] = ctl[e]
    BY <2>1, CtlFields
  <2>2. CASE e = c /\ b.rev = 0 /\ ctl'[c] = new
    <3>1. ControlFits(c)
      BY <1>3 DEF EngineInv, ControlsFit
    <3>2. ctl[c].src # "runtime"
      BY <2>2, <3>1 DEF ControlFits
    <3>3. ctl[c].state # "superseded"
      BY <1>3, <3>1, CtlFields DEF ControlFits, CtlKinds
    <3>4. ctl'[c].rev >= ctl[c].rev
      BY <1>6, <2>2
    <3> QED
      BY <2>2, <3>2, <3>3, <3>4
  <2> QED
    BY <1>12, <2>1, <2>2
<1>19. /\ grant' = grant /\ note' \in [Controls -> NoteRow] /\ sent' \in [Controls -> Nat]
       /\ NotesFit'
  BY <1>4, <1>10, NotesStayFit DEF EngineTypes, EngineInv, World
<1> QED
  BY <1>9, <1>10, <1>11, <1>12, <1>17, <1>18, <1>19, SenderStep

-----------------------------------------------------------------------------
(* The receipts of the runtime.                                            *)

\* What becomes of a control keeps its identity, and what is final.
KeepsControl(e, f) ==
  /\ f \in CtlRow
  /\ f.t = e.t /\ f.g = e.g /\ f.kind = e.kind /\ f.choice = e.choice /\ f.req = e.req
  /\ f.retried = e.retried
  /\ e.state # "none" => f.state # "none"
  /\ e.state # "superseded" => f.state # "superseded"
  /\ f.rev >= e.rev
  /\ f.src = "runtime" => f.rev # 0
  /\ e.src = "runtime" /\ e.final = TRUE => f = e

\* A receipt is merged under its revision, and never over a final one.
LEMMA MergedIs ==
  ASSUME NEW e \in CtlRow, NEW n \in GivenRow, ~Conflicts(e, n), e.src = "runtime" => e.rev # 0
  PROVE  KeepsControl(e, Merged(e, n))
<1>1. n \in NoteRow /\ n.rev \in Nat /\ n.rev # 0 /\ n.state \in NoteStates \cup {"none"}
  BY DEF GivenRow, NoteRow
<1>2. e.rev \in Nat
  BY DEF CtlRow
<1>3. CASE n.rev < e.rev \/ (n.rev = e.rev /\ e.src = "runtime")
  <2>1. Merged(e, n) = e
    BY <1>3 DEF Merged
  <2> QED
    BY <1>2, <2>1 DEF KeepsControl
<1>4. CASE ~(n.rev < e.rev \/ (n.rev = e.rev /\ e.src = "runtime"))
  <2> PICK state \in {"accepted", "rejected"} : state = IF n.state = "too_late" THEN "rejected" ELSE "accepted"
    OBVIOUS
  <2> PICK last \in BOOLEAN : last = (n.state # "accepted")
    OBVIOUS
  <2> PICK f : f = [e EXCEPT !.app = n.state, !.rev = n.rev, !.src = "runtime", !.final = last, !.state = state]
    OBVIOUS
  <2>1. Merged(e, n) = f
    BY <1>4 DEF Merged
  <2>2. state \in CtlStates /\ n.state \in NoteStates \cup {"none", "unknown"}
    BY <1>1 DEF CtlStates
  <2>3. /\ f \in CtlRow
        /\ f.t = e.t /\ f.g = e.g /\ f.kind = e.kind /\ f.choice = e.choice /\ f.req = e.req
        /\ f.state = state /\ f.rev = n.rev
    BY <1>1, <2>2 DEF CtlRow
  <2>4. f.retried = e.retried
    BY DEF CtlRow
  <2>5. n.rev >= e.rev
    BY <1>1, <1>2, <1>4
  <2>6. ~(e.src = "runtime" /\ e.final = TRUE)
    BY <1>1, <1>2, <1>4 DEF Conflicts
  <2> QED
    BY <1>1, <2>1, <2>3, <2>4, <2>5, <2>6 DEF KeepsControl
<1> QED
  BY <1>3, <1>4

\* What the end of a run leaves open of a control is settled.
LEMMA SettledIs ==
  ASSUME NEW e \in CtlRow, NEW lapsed \in BOOLEAN, e.src = "runtime" => e.rev # 0
  PROVE  KeepsControl(e, Settled(e, lapsed))
<1>1. e.rev \in Nat /\ e.final \in BOOLEAN
  BY DEF CtlRow
<1>2. CASE e.final = TRUE
  <2>1. Settled(e, lapsed) = e
    BY <1>2 DEF Settled
  <2> QED
    BY <1>1, <2>1 DEF KeepsControl
<1>3. CASE e.final = FALSE
  <2> PICK f : f = [e EXCEPT !.app = "unknown", !.final = lapsed, !.src = "controller"]
    OBVIOUS
  <2>1. Settled(e, lapsed) = f
    BY <1>3 DEF Settled
  <2>2. /\ f \in CtlRow
        /\ f.t = e.t /\ f.g = e.g /\ f.kind = e.kind /\ f.choice = e.choice /\ f.req = e.req
        /\ f.state = e.state /\ f.rev = e.rev /\ f.src = "controller"
    BY DEF CtlRow
  <2>3. f.retried = e.retried
    BY DEF CtlRow
  <2> QED
    BY <1>1, <1>3, <2>1, <2>2, <2>3 DEF KeepsControl
<1> QED
  BY <1>1, <1>2, <1>3

\* What reconcile does to every control of a task.
LEMMA Reconciles ==
  ASSUME EngineTypes, ControlsFit, NEW t \in Tasks, NEW g \in Attempts, NEW notes \in Receipts,
         NEW terminal \in BOOLEAN, NEW lapsed \in BOOLEAN,
         Reconcile(t, g, notes, terminal, lapsed), sent' = sent
  PROVE  /\ ctl' \in [Controls -> CtlRow] /\ ControlsStay
         /\ \A c \in Controls : ControlFits(c)'
         /\ \A c \in Controls :
              /\ ctl'[c].t = ctl[c].t /\ ctl'[c].kind = ctl[c].kind /\ ctl'[c].choice = ctl[c].choice
              /\ ctl'[c].retried = ctl[c].retried
              /\ ctl[c].kind # "guidance" => ctl'[c] = ctl[c]
<1>1. ctl' = [c \in Controls |-> ReconciledControl(c, t, g, notes, terminal, lapsed)]
  BY DEF Reconcile
<1>2. ASSUME NEW c \in DOMAIN notes PROVE c \in Controls /\ notes[c] \in GivenRow
  BY <1>2 DEF Receipts
<1>3. ASSUME NEW c \in Controls
      PROVE  \/ ctl'[c] = ctl[c]
             \/ ctl[c].kind = "guidance" /\ KeepsControl(ctl[c], ctl'[c])
  <2> PICK b \in CtlRow : b = ctl[c]
    BY CtlFields
  <2>1. b.src = "runtime" => b.rev # 0
    BY DEF ControlsFit, ControlFits
  <2>2. ctl'[c] = ReconciledControl(c, t, g, notes, terminal, lapsed)
    BY <1>1
  <2>3. CASE ~(b.t = t /\ b.g = g /\ b.kind = "guidance")
    BY <2>2, <2>3 DEF ReconciledControl
  <2>4. CASE b.t = t /\ b.g = g /\ b.kind = "guidance"
    <3> PICK e : e = IF c \in DOMAIN notes THEN Merged(b, notes[c]) ELSE b
      OBVIOUS
    <3>1. ctl'[c] = IF terminal THEN Settled(e, lapsed) ELSE e
      BY <2>2, <2>4 DEF ReconciledControl
    <3>2. KeepsControl(b, b)
      BY <2>1 DEF KeepsControl, CtlRow
    <3>3. KeepsControl(b, e)
      <4>1. CASE c \in DOMAIN notes
        <5>1. ~Conflicts(b, notes[c]) /\ notes[c] \in GivenRow
          BY <1>2, <4>1 DEF Reconcile
        <5> QED
          BY <2>1, <4>1, <5>1, MergedIs
      <4> QED
        BY <3>2, <4>1
    <3>4. e \in CtlRow /\ (e.src = "runtime" => e.rev # 0)
      BY <3>3 DEF KeepsControl
    <3> PICK f : f = Settled(e, lapsed)
      OBVIOUS
    <3>5. KeepsControl(e, f)
      BY <3>4, SettledIs
    <3>6. KeepsControl(b, f)
      <4>1. b.rev \in Nat /\ e.rev \in Nat /\ f.rev \in Nat
        BY <3>4, <3>5 DEF KeepsControl, CtlRow
      <4>2. f.rev >= b.rev
        BY <3>3, <3>5, <4>1 DEF KeepsControl
      <4>3. b.src = "runtime" /\ b.final = TRUE => f = b
        BY <3>3, <3>5 DEF KeepsControl
      <4> QED
        BY <3>3, <3>5, <4>2, <4>3 DEF KeepsControl
    <3> QED
      BY <2>4, <3>1, <3>3, <3>6
  <2> QED
    BY <2>3, <2>4
<1>4. ctl' \in [Controls -> CtlRow]
  <2>1. ASSUME NEW c \in Controls PROVE ctl'[c] \in CtlRow
    BY <1>3, CtlFields DEF KeepsControl
  <2> QED
    BY <1>1, <2>1
<1>5. ControlsStay
  <2> SUFFICES ASSUME NEW c \in Controls
               PROVE  /\ ctl[c].src = "runtime" /\ ctl[c].final => ctl'[c] = ctl[c]
                      /\ ctl[c].state = "superseded" => ctl'[c].state = "superseded"
                      /\ ctl'[c].rev >= ctl[c].rev
    BY DEF ControlsStay
  <2>1. ctl[c].kind = "guidance" => ctl[c].state # "superseded"
    BY DEF ControlsFit, ControlFits
  <2>2. ctl[c].rev \in Nat /\ ctl[c].final \in BOOLEAN
    BY CtlFields
  <2>3. ctl[c].final => ctl[c].final = TRUE
    BY <2>2
  <2>4. CASE ctl'[c] = ctl[c]
    BY <2>2, <2>4
  <2>5. CASE ctl[c].kind = "guidance" /\ KeepsControl(ctl[c], ctl'[c])
    BY <2>1, <2>3, <2>5 DEF KeepsControl
  <2> QED
    BY <1>3, <2>4, <2>5
<1>6. ASSUME NEW c \in Controls PROVE ControlFits(c)'
  <2>1. ControlFits(c) /\ sent'[c] = sent[c]
    BY DEF ControlsFit
  <2>2. CASE ctl'[c] = ctl[c]
    BY <2>1, <2>2 DEF ControlFits
  <2>3. CASE ctl[c].kind = "guidance" /\ KeepsControl(ctl[c], ctl'[c])
    <3>1. ctl[c].t # "none"
      BY <2>1, <2>3 DEF ControlFits, NoControl
    <3> QED
      BY <2>1, <2>3, <3>1 DEF ControlFits, KeepsControl
  <2> QED
    BY <1>3, <2>2, <2>3
<1>7. ASSUME NEW c \in Controls
      PROVE  /\ ctl'[c].t = ctl[c].t /\ ctl'[c].kind = ctl[c].kind /\ ctl'[c].choice = ctl[c].choice
             /\ ctl'[c].retried = ctl[c].retried
             /\ ctl[c].kind # "guidance" => ctl'[c] = ctl[c]
  BY <1>3 DEF KeepsControl
<1> QED
  BY <1>4, <1>5, <1>6, <1>7

\* A step that reconciles the guidance of a task and sends none.
LEMMA ReconcileStep ==
  ASSUME EngineTypes, EngineInv, World, NEW t \in Tasks, NEW g \in Attempts, NEW notes \in Receipts,
         NEW terminal \in BOOLEAN, NEW lapsed \in BOOLEAN, Reconcile(t, g, notes, terminal, lapsed),
         act' \in [Actors -> ActRow], grant' = grant, note' = note, sent' = sent,
         \A b \in Actors :
           \/ act'[b] = act[b]
           \/ act'[b].pc \notin Sending \cup Denying \cup {"receipt"} /\ ThreadFits(b)'
  PROVE  StepGood
<1>1. /\ ctl' \in [Controls -> CtlRow] /\ ControlsStay
      /\ \A c \in Controls : ControlFits(c)'
      /\ \A c \in Controls :
           /\ ctl'[c].t = ctl[c].t /\ ctl'[c].kind = ctl[c].kind /\ ctl'[c].choice = ctl[c].choice
           /\ ctl'[c].retried = ctl[c].retried
           /\ ctl[c].kind # "guidance" => ctl'[c] = ctl[c]
  BY Reconciles DEF EngineInv
<1>2. ASSUME NEW b \in Actors PROVE SenderFits(b)'
  <2>1. CASE act'[b].pc \notin Sending \cup Denying \cup {"receipt"}
    BY <2>1 DEF SenderFits, At, Sending, Denying
  <2>2. CASE act'[b] = act[b] /\ act[b].pc \in Sending \cup Denying \cup {"receipt"}
    <3> PICK c \in Controls : c = act[b].why
      BY <2>2, SenderHas
    <3>1. /\ ctl'[c].t = ctl[c].t /\ ctl'[c].kind = ctl[c].kind /\ ctl'[c].choice = ctl[c].choice
          /\ ctl'[c].retried = ctl[c].retried
          /\ ctl[c].kind # "guidance" => ctl'[c] = ctl[c]
      BY <1>1
    <3>2. SenderFits(b)
      BY DEF EngineInv, ControlsFit
    <3>3. ctl'[c].kind = "permission" => ctl'[c] = ctl[c]
      BY <3>1
    <3> QED
      BY <2>2, <3>1, <3>2, <3>3 DEF SenderFits, At, Sending, Denying
  <2> QED
    BY <2>1, <2>2
<1>3. ASSUME NEW b \in Actors, NEW e \in Actors, b # e
      PROVE  /\ act'[b].pc \in Sending /\ act'[e].pc \in Sending => act'[b].why # act'[e].why
             /\ act'[b].pc \in Denying /\ act'[e].pc \in Denying => act'[b].why # act'[e].why
  BY <1>3 DEF EngineInv, ControlsFit
<1>4. ControlsFit'
  BY <1>1, <1>2, <1>3 DEF ControlsFit
<1>5. ThreadsFit'
  <2>1. ASSUME NEW b \in Actors PROVE ThreadFits(b)'
    BY <2>1, StaysFit DEF EngineInv, ThreadsFit, World
  <2> QED
    BY <2>1 DEF ThreadsFit
<1>6. NotesFit'
  BY NotesStayFit DEF EngineInv, World
<1>7. EngineTypes'
  BY <1>1 DEF EngineTypes, World
<1> QED
  BY <1>1, <1>4, <1>5, <1>6, <1>7 DEF StepGood, EngineInv, World

\* The receipt of the call itself is merged last.
LEMMA MergeReceiptStep ==
  ASSUME EngineTypes, EngineInv, NEW o \in Actors, MergeReceipt(o)
  PROVE  StepGood
<1> PICK t, g, notes : t = act[o].t /\ g = act[o].g /\ notes = act[o].res.notes
  OBVIOUS
<1>1. /\ act[o].pc = "receipt" /\ Reconcile(t, g, notes, FALSE, FALSE) /\ Leave(o) /\ Put(t, task[t])
      /\ UNCHANGED <<att, grant, run, note, sent>>
  BY DEF MergeReceipt, At, runtimeVars
<1>2. t \in Tasks /\ g \in Attempts /\ task[t].phase # "none" /\ notes \in Receipts
  BY <1>1, SendingHas, ActFields
<1>3. World
  BY <1>1, <1>2, SameRow, AttKept, RunKept, MildWorld
<1>4. /\ act' \in [Actors -> ActRow] /\ Others(o)
      /\ act'[o].pc \notin Sending \cup Denying \cup {"receipt"} /\ ThreadFits(o)'
  BY <1>1, Leaves, IdleFits
<1>5. \A b \in Actors :
        \/ act'[b] = act[b]
        \/ act'[b].pc \notin Sending \cup Denying \cup {"receipt"} /\ ThreadFits(b)'
  BY <1>4 DEF Others
<1> QED
  BY <1>1, <1>2, <1>3, <1>4, <1>5, ReconcileStep

\* The receipts of any attempt are read back, or given up with its retention.
LEMMA RefreshGuidanceStep ==
  ASSUME EngineTypes, EngineInv, NEW t \in Tasks, NEW g \in Attempts, RefreshGuidance(t, g)
  PROVE  StepGood
<1> PICK lapsed \in BOOLEAN : lapsed = att[t][g].expired
  BY AttFields
<1> PICK res \in ResRow : res = Observation(t, g)
  BY ObservationIs
<1>1. /\ att[t][g].disp \in {"accepted", "closed"} /\ Put(t, task[t])
      /\ UNCHANGED <<att, grant, run, note, sent, act>>
  BY DEF RefreshGuidance, runtimeVars
<1>2. IF lapsed THEN Reconcile(t, g, <<>>, TRUE, TRUE)
      ELSE Reconcile(t, g, res.notes, res.state # "running", FALSE)
  BY DEF RefreshGuidance
<1>3. task[t].phase # "none"
  <2>1. ~(g > task[t].gen)
    BY <1>1 DEF EngineInv, AttemptsFit, NoAttempt
  <2>2. g # 0
    BY DEF Attempts
  <2>3. task[t] # NoRow
    BY <2>1, <2>2 DEF NoRow, Attempts
  <2> QED
    BY <2>3 DEF EngineInv, RowsFit
<1>4. World
  BY <1>1, <1>3, SameRow, AttKept, RunKept, MildWorld
<1>5. /\ act' \in [Actors -> ActRow]
      /\ \A b \in Actors : act'[b] = act[b]
  BY <1>1 DEF EngineTypes
<1>6. <<>> \in Receipts /\ res.notes \in Receipts
  BY EmptyRows DEF ResRow
<1> PICK terminal \in BOOLEAN : terminal = (res.state # "running")
  OBVIOUS
<1>7. CASE Reconcile(t, g, <<>>, TRUE, TRUE)
  BY <1>1, <1>4, <1>5, <1>6, <1>7, ReconcileStep
<1>8. CASE Reconcile(t, g, res.notes, terminal, FALSE)
  BY <1>1, <1>4, <1>5, <1>6, <1>8, ReconcileStep
<1> QED
  BY <1>2, <1>7, <1>8

\* The receipts of an observation are merged before it is applied.
LEMMA MergeObservedStep ==
  ASSUME EngineTypes, EngineInv, NEW d \in Actors, MergeObserved(d)
  PROVE  StepGood
<1> PICK t, g, notes : t = act[d].t /\ g = act[d].g /\ notes = act[d].res.notes
  OBVIOUS
<1> PICK terminal \in BOOLEAN : terminal = (act[d].res.state # "running")
  OBVIOUS
<1>1. /\ act[d].pc = "guide" /\ Reconcile(t, g, notes, terminal, FALSE) /\ GoTo(d, "apply")
      /\ Put(t, task[t]) \/ UNCHANGED <<task, work, cmd>>
      /\ UNCHANGED <<att, grant, run, note, sent>>
  BY DEF MergeObserved, At, runtimeVars
<1>2. /\ t \in Tasks /\ g \in Attempts /\ task[t].phase # "none" /\ notes \in Receipts
      /\ act[d].pc \in AfterSubmit
  <2>1. act[d].pc \in AfterSubmit
    BY <1>1 DEF AfterSubmit
  <2> QED
    BY <2>1, FurtherHas, ActFields
<1>3. World
  <2>1. RowStep
    BY <1>1, <1>2, SameRow DEF RowStep
  <2> QED
    BY <1>1, <2>1, AttKept, RunKept, MildWorld
<1>4. "apply" \in WithTask /\ "apply" \in AfterSubmit \ {"post"}
      /\ "apply" \notin Sending \cup Denying \cup {"receipt"}
  BY DEF WithTask, AfterSubmit, Sending, Denying
<1>5. /\ act' \in [Actors -> ActRow] /\ Others(d)
      /\ act'[d].pc = "apply" /\ act'[d].t = t /\ act'[d].g = g /\ act'[d].res = act[d].res
  BY <1>1, <1>4, GoesTo
<1>6. ThreadFits(d)'
  BY <1>2, <1>3, <1>4, <1>5, FurtherFits DEF EngineInv, ThreadsFit
<1>7. \A b \in Actors :
        \/ act'[b] = act[b]
        \/ act'[b].pc \notin Sending \cup Denying \cup {"receipt"} /\ ThreadFits(b)'
  BY <1>4, <1>5, <1>6 DEF Others
<1> QED
  BY <1>1, <1>2, <1>3, <1>5, <1>7, ReconcileStep

-----------------------------------------------------------------------------
(* The denials whose answer was lost.                                      *)

\* A thread between its dispatch and the end of its poll moves a control,
\* and goes on.
LEMMA DenialStep ==
  ASSUME EngineTypes, EngineInv, World, NEW d \in Actors, act[d].pc \in AfterSubmit,
         NEW r \in ActRow, r.pc \in AfterSubmit \ {"post"},
         r.t = act[d].t, r.g = act[d].g, r.res = act[d].res, act' = [act EXCEPT ![d] = r],
         UNCHANGED <<grant, note>>, ctl' \in [Controls -> CtlRow], sent' \in [Controls -> Nat],
         \A c \in Controls : ControlFits(c)', SenderFits(d)', SendersSafe(d), SendersApart(d), ControlsStay
  PROVE  StepGood
<1>1. act' \in [Actors -> ActRow] /\ act'[d] = r /\ Others(d)
  BY Goes
<1>2. ThreadFits(d)'
  BY <1>1, FurtherFits DEF EngineInv, ThreadsFit
<1>3. ControlsFit'
  BY <1>1, ControlsMove DEF EngineInv
<1>4. note' \in [Controls -> NoteRow] /\ NotesFit'
  BY NotesStayFit DEF EngineTypes, EngineInv, World
<1> QED
  BY <1>1, <1>2, <1>3, <1>4, SenderStep

\* What other threads send is not touched, and what they retry keeps its identity.
LEMMA OthersSafe ==
  ASSUME EngineTypes, EngineInv, NEW a \in Actors,
         \A b \in Actors \ {a} : act[b].pc \in Sending \cup Denying \cup {"receipt"} =>
           LET c == act[b].why IN
           /\ act[b].pc \in {"invoke", "denying"} => sent'[c] = sent[c]
           /\ \/ ctl'[c] = ctl[c]
              \/ /\ act[b].pc \notin Sending /\ ctl'[c].t = ctl[c].t
                 /\ act[b].pc \in Denying =>
                      /\ ctl'[c].retried = ctl[c].retried /\ ctl'[c].kind = ctl[c].kind
                      /\ ctl'[c].choice = ctl[c].choice
  PROVE  SendersSafe(a)
<1> SUFFICES ASSUME NEW b \in Actors \ {a}, NEW c, c = act[b].why, NEW pc, pc = act[b].pc
             PROVE  /\ pc \in Sending =>
                         /\ ctl'[c].t # "none" /\ ctl'[c].retried = FALSE
                         /\ ctl'[c].kind = "permission" => ctl'[c].state = "submitted"
                    /\ pc \in Denying =>
                         ctl'[c].retried = TRUE /\ ctl'[c].kind = "permission" /\ ctl'[c].choice = "deny"
                    /\ pc = "receipt" => ctl'[c].t # "none"
                    /\ pc \in {"invoke", "denying"} => sent'[c] = sent[c]
  BY ZenonT(40) DEF SendersSafe
<1>1. /\ pc \in Sending \cup {"receipt"} => ctl[c].t # "none"
      /\ pc \in Sending => ctl[c].retried = FALSE /\ (ctl[c].kind = "permission" => ctl[c].state = "submitted")
      /\ pc \in Denying => ctl[c].retried = TRUE /\ ctl[c].kind = "permission" /\ ctl[c].choice = "deny"
  BY SenderHas
<1>2. CASE pc \notin Sending \cup Denying \cup {"receipt"}
  BY <1>2 DEF Sending, Denying
<1>3. CASE pc \in Sending \cup Denying \cup {"receipt"} /\ ctl'[c] = ctl[c]
  BY <1>1, <1>3
<1>4. CASE pc \in Denying \cup {"receipt"} /\ pc \notin Sending /\ ctl'[c] # ctl[c]
  BY <1>1, <1>4 DEF Sending, Denying
<1> QED
  BY <1>2, <1>3, <1>4

\* A lost denial of an earlier request is given up.
LEMMA CloseSupersededStep ==
  ASSUME EngineTypes, EngineInv, NEW d \in Actors, CloseSuperseded(d)
  PROVE  StepGood
<1> PICK t, g : t = act[d].t /\ g = act[d].g
  OBVIOUS
<1> PICK late : late = {c \in LostDenials(t, g) : ctl[c].req # act[d].res.perm}
  OBVIOUS
<1> PICK r : r = [act[d] EXCEPT !.pc = "deny"]
  OBVIOUS
<1>1. /\ act[d].pc = "supersede" /\ act' = [act EXCEPT ![d] = r]
      /\ UNCHANGED ctl \/
         ctl' = [c \in Controls |-> IF c \in late THEN [ctl[c] EXCEPT !.state = "superseded"] ELSE ctl[c]]
      /\ Put(t, task[t]) \/ UNCHANGED <<task, work, cmd>>
      /\ UNCHANGED <<att, grant, run, note, sent>>
  BY DEF CloseSuperseded, At, GoTo, runtimeVars
<1>2. t \in Tasks /\ task[t].phase # "none" /\ act[d].pc \in AfterSubmit
  <2>1. act[d].pc \in AfterSubmit
    BY <1>1 DEF AfterSubmit
  <2> QED
    BY <2>1, FurtherHas
<1>3. World
  <2>1. RowStep
    BY <1>1, <1>2, SameRow DEF RowStep
  <2> QED
    BY <1>1, <2>1, AttKept, RunKept, MildWorld
<1>4. /\ r \in ActRow /\ r.pc = "deny" /\ r.t = act[d].t /\ r.g = act[d].g /\ r.res = act[d].res
      /\ "deny" \in AfterSubmit \ {"post"}
  <2>1. "deny" \in WithTask /\ "deny" \in AfterSubmit \ {"post"}
    BY DEF WithTask, AfterSubmit
  <2> QED
    BY <2>1, ActFields DEF ActRow
<1>5. ASSUME NEW c \in Controls
      PROVE  \/ ctl'[c] = ctl[c]
             \/ /\ ctl[c].kind = "permission" /\ ctl[c].state = "unknown"
                /\ ctl'[c] = [ctl[c] EXCEPT !.state = "superseded"]
  BY <1>1 DEF LostDenials
<1>6. ASSUME NEW c \in Controls, ctl'[c] # ctl[c]
      PROVE  /\ ctl[c].kind = "permission" /\ ctl[c].state = "unknown"
             /\ ctl'[c] \in CtlRow /\ ctl'[c].t = ctl[c].t /\ ctl'[c].kind = ctl[c].kind
             /\ ctl'[c].choice = ctl[c].choice /\ ctl'[c].state = "superseded"
             /\ ctl'[c].src = ctl[c].src /\ ctl'[c].rev = ctl[c].rev
             /\ ctl'[c].retried = ctl[c].retried /\ ctl'[c].final = ctl[c].final
  <2> PICK b \in CtlRow : b = ctl[c]
    BY CtlFields
  <2> PICK new : new = [b EXCEPT !.state = "superseded"]
    OBVIOUS
  <2>1. /\ new \in CtlRow /\ new.t = b.t /\ new.kind = b.kind /\ new.choice = b.choice
        /\ new.state = "superseded" /\ new.src = b.src /\ new.rev = b.rev
    BY DEF CtlRow, CtlStates
  <2>2. new.retried = b.retried /\ new.final = b.final
    BY DEF CtlRow
  <2>3. ctl'[c] = new /\ b.kind = "permission" /\ b.state = "unknown"
    BY <1>5, <1>6
  <2> QED
    BY <2>1, <2>2, <2>3
<1>7. ctl' \in [Controls -> CtlRow]
  <2>1. ASSUME NEW c \in Controls PROVE ctl'[c] \in CtlRow
    BY <1>6, CtlFields
  <2>2. ctl' = [c \in Controls |-> ctl'[c]]
    BY <1>1 DEF EngineTypes
  <2> QED
    BY <2>1, <2>2
<1>8. \A c \in Controls : ControlFits(c)'
  <2> SUFFICES ASSUME NEW c \in Controls PROVE ControlFits(c)'
    OBVIOUS
  <2>1. ControlFits(c) /\ sent'[c] = sent[c]
    BY <1>1 DEF EngineInv, ControlsFit
  <2>2. CASE ctl'[c] = ctl[c]
    BY <2>1, <2>2 DEF ControlFits
  <2>3. CASE ctl'[c] # ctl[c]
    <3>1. ctl[c].t # "none"
      BY <1>6, <2>1, <2>3 DEF ControlFits, NoControl
    <3> QED
      BY <1>6, <2>1, <2>3, <3>1 DEF ControlFits
  <2> QED
    BY <2>2, <2>3
<1>9. SenderFits(d)' /\ SendersApart(d)
  <2>1. act'[d].pc = "deny"
    BY <1>1, <1>4, Goes
  <2> QED
    BY <2>1 DEF SenderFits, SendersApart, At, Sending, Denying
<1>10. SendersSafe(d)
  <2> SUFFICES ASSUME NEW b \in Actors \ {d}, act[b].pc \in Sending \cup Denying \cup {"receipt"},
                      NEW c \in Controls, c = act[b].why, ctl'[c] # ctl[c]
               PROVE  /\ act[b].pc \notin Sending
                      /\ ctl'[c].retried = ctl[c].retried /\ ctl'[c].kind = ctl[c].kind
                      /\ ctl'[c].choice = ctl[c].choice /\ ctl'[c].t = ctl[c].t
    BY <1>1, SenderHas, OthersSafe, ZenonT(40)
  <2> QED
    BY <1>6, SenderHas
<1>11. ControlsStay
  <2> SUFFICES ASSUME NEW c \in Controls
               PROVE  /\ ctl[c].src = "runtime" /\ ctl[c].final => ctl'[c] = ctl[c]
                      /\ ctl[c].state = "superseded" => ctl'[c].state = "superseded"
                      /\ ctl'[c].rev >= ctl[c].rev
    BY DEF ControlsStay
  <2>1. CASE ctl'[c] = ctl[c]
    BY <2>1, CtlFields
  <2>2. CASE ctl'[c] # ctl[c]
    <3>1. ctl[c].src = "none"
      BY <1>6, <2>2 DEF EngineInv, ControlsFit, ControlFits
    <3> QED
      BY <1>6, <2>2, <3>1, CtlFields
  <2> QED
    BY <2>1, <2>2
<1>12. sent' \in [Controls -> Nat] /\ UNCHANGED <<grant, note>>
  BY <1>1 DEF EngineTypes
<1> QED
  BY <1>1, <1>2, <1>3, <1>4, <1>7, <1>8, <1>9, <1>10, <1>11, <1>12, DenialStep

\* One retry of a lost denial is committed before it is sent.
LEMMA MarkRetryStep ==
  ASSUME EngineTypes, EngineInv, NEW d \in Actors, MarkRetry(d)
  PROVE  StepGood
<1> PICK t, g, p : t = act[d].t /\ g = act[d].g /\ p = act[d].res.perm
  OBVIOUS
<1>1. /\ act[d].pc = "deny" /\ UNCHANGED <<att, grant, run, note, sent>>
      /\ \/ GoTo(d, "guide") /\ UNCHANGED <<ctl, task, work, cmd>>
         \/ \E c \in Retryable(t, g, p) :
              /\ ctl' = [ctl EXCEPT ![c].retried = TRUE]
              /\ act' = [act EXCEPT ![d].pc = "denying", ![d].why = c]
              /\ Put(t, task[t])
  BY DEF MarkRetry, At, runtimeVars
<1>2. t \in Tasks /\ task[t].phase # "none" /\ act[d].pc \in AfterSubmit
  <2>1. act[d].pc \in AfterSubmit
    BY <1>1 DEF AfterSubmit
  <2> QED
    BY <2>1, FurtherHas
<1>3. CASE GoTo(d, "guide") /\ UNCHANGED <<ctl, task, work, cmd>>
  <2>1. "guide" \in AfterSubmit \ (Denying \cup {"post"})
    BY DEF AfterSubmit, Denying
  <2>2. World /\ grant' \in [Tasks -> BOOLEAN]
    BY <1>1, <1>3, StillWorld DEF EngineTypes
  <2> QED
    BY <1>1, <1>2, <1>3, <2>1, <2>2, FurtherStep
<1>4. ASSUME NEW c \in Retryable(t, g, p), ctl' = [ctl EXCEPT ![c].retried = TRUE],
             act' = [act EXCEPT ![d].pc = "denying", ![d].why = c], Put(t, task[t])
      PROVE  StepGood
  <2>1. /\ c \in Controls /\ ctl[c].t = t /\ ctl[c].kind = "permission" /\ ctl[c].choice = "deny"
        /\ ctl[c].state = "unknown"
    BY DEF Retryable, LostDenials, Entries
  <2>2. ctl[c].retried = FALSE
    <3>1. ~ctl[c].retried
      BY DEF Retryable
    <3> QED
      BY <2>1, <3>1, CtlFields
  <2> PICK b \in CtlRow : b = ctl[c]
    BY <2>1, CtlFields
  <2> PICK new : new = [b EXCEPT !.retried = TRUE]
    OBVIOUS
  <2> PICK r : r = [act[d] EXCEPT !.pc = "denying", !.why = c]
    OBVIOUS
  <2>3. /\ new \in CtlRow /\ new.t = t /\ new.kind = "permission" /\ new.choice = "deny"
        /\ new.state = "unknown" /\ new.src = b.src /\ new.rev = b.rev
    BY <2>1 DEF CtlRow
  <2>4. new.retried = TRUE /\ new.final = b.final
    BY DEF CtlRow
  <2>5. ctl' = [ctl EXCEPT ![c] = new] /\ act' = [act EXCEPT ![d] = r]
    BY <1>4, <2>1 DEF EngineTypes
  <2>6. /\ ctl' \in [Controls -> CtlRow] /\ ctl'[c] = new
        /\ \A e \in Controls : e # c => ctl'[e] = ctl[e]
    BY <2>1, <2>3, <2>5 DEF EngineTypes
  <2>7. /\ r \in ActRow /\ r.pc = "denying" /\ r.why = c /\ r.t = act[d].t /\ r.g = act[d].g
        /\ r.res = act[d].res /\ "denying" \in AfterSubmit \ {"post"}
    <3>1. "denying" \in WithTask /\ "denying" \in AfterSubmit \ {"post"}
      BY DEF WithTask, AfterSubmit
    <3> QED
      BY <2>1, <3>1, ActFields DEF ActRow
  <2>8. World
    BY <1>1, <1>2, <1>4, SameRow, AttKept, RunKept, MildWorld
  <2>9. t # "none" /\ ControlFits(c) /\ sent[c] \in Nat /\ sent' = sent
    BY <1>1, <1>2, <2>1, TaskAssumption, CtlFields DEF EngineInv, ControlsFit
  <2>10. sent[c] <= 1
    BY <2>2, <2>9 DEF ControlFits
  <2>11. \A e \in Controls : ControlFits(e)'
    <3> SUFFICES ASSUME NEW e \in Controls PROVE ControlFits(e)'
      OBVIOUS
    <3>1. CASE e = c
      <4>1. /\ ctl'[e].t # "none" /\ ctl'[e].kind = "permission" /\ ctl'[e].choice = "deny"
            /\ ctl'[e].state = "unknown" /\ ctl'[e].src = b.src /\ ctl'[e].rev = b.rev
        BY <2>3, <2>6, <2>9, <3>1
      <4>2. ctl'[e].retried = TRUE /\ ctl'[e].final = b.final
        BY <2>4, <2>6, <3>1
      <4>3. b.src = "none" /\ b.final = FALSE /\ b.rev = 0
        BY <2>1, <2>9 DEF ControlFits
      <4>4. sent'[e] <= 2
        BY <2>9, <2>10, <3>1
      <4> QED
        BY <4>1, <4>2, <4>3, <4>4 DEF ControlFits
    <3>2. CASE e # c
      BY <2>6, <2>9, <3>2 DEF EngineInv, ControlsFit, ControlFits
    <3> QED
      BY <3>1, <3>2
  <2>12. SenderFits(d)'
    <3>1. act'[d].pc = "denying" /\ act'[d].why = c
      BY <2>5, <2>7, Goes
    <3>2. /\ ctl'[c].kind = "permission" /\ ctl'[c].choice = "deny" /\ ctl'[c].retried = TRUE
          /\ sent'[c] <= 1
      BY <2>3, <2>4, <2>6, <2>9, <2>10
    <3> QED
      BY <2>1, <3>1, <3>2 DEF SenderFits, At, Sending, Denying
  <2>13. ASSUME NEW e \in Actors, act[e].pc \in Sending \cup Denying, act[e].why = c PROVE FALSE
    BY <2>1, <2>2, <2>13, SenderHas
  <2>14. SendersSafe(d)
    <3> SUFFICES ASSUME NEW e \in Actors \ {d}, act[e].pc \in Sending \cup Denying \cup {"receipt"},
                        ctl'[act[e].why] # ctl[act[e].why], NEW f \in Controls, f = act[e].why
                 PROVE  act[e].pc \notin Sending \cup Denying /\ ctl'[f].t = ctl[f].t
      BY <2>9, SenderHas, OthersSafe
    <3>1. f = c
      BY <2>6
    <3>2. act[e].pc \notin Sending \cup Denying
      BY <2>13, <3>1
    <3> QED
      BY <2>1, <2>3, <2>6, <3>1, <3>2, ZenonT(40)
  <2>15. SendersApart(d)
    <3>1. act'[d].pc = "denying" /\ act'[d].why = c
      BY <2>5, <2>7, Goes
    <3> QED
      BY <2>13, <3>1 DEF SendersApart, Sending
  <2>16. ControlsStay
    <3> SUFFICES ASSUME NEW e \in Controls
                 PROVE  /\ ctl[e].src = "runtime" /\ ctl[e].final => ctl'[e] = ctl[e]
                        /\ ctl[e].state = "superseded" => ctl'[e].state = "superseded"
                        /\ ctl'[e].rev >= ctl[e].rev
      BY DEF ControlsStay
    <3>1. CASE e = c
      <4>1. ctl[c].src = "none"
        BY <2>1, <2>9 DEF ControlFits
      <4>2. ctl'[c].rev >= ctl[c].rev
        BY <2>1, <2>3, <2>6, CtlFields
      <4> QED
        BY <2>1, <3>1, <4>1, <4>2
    <3>2. CASE e # c
      BY <2>6, <3>2, CtlFields
    <3> QED
      BY <3>1, <3>2
  <2>17. sent' \in [Controls -> Nat] /\ UNCHANGED <<grant, note>>
    BY <1>1 DEF EngineTypes
  <2> QED
    BY <1>2, <2>5, <2>6, <2>7, <2>8, <2>11, <2>12, <2>14, <2>15, <2>16, <2>17, DenialStep
<1> QED
  BY <1>1, <1>3, <1>4

\* The retry, whose answer may be lost too.
LEMMA RetryDenialStep ==
  ASSUME EngineTypes, EngineInv, NEW d \in Actors, NEW arrives \in BOOLEAN, NEW lost \in BOOLEAN,
         RetryDenial(d, arrives, lost)
  PROVE  StepGood
<1> PICK t, g, c : t = act[d].t /\ g = act[d].g /\ c = act[d].why
  OBVIOUS
<1> PICK seen \in {"accepted", "unknown"} : act' = [act EXCEPT ![d].pc = "denied", ![d].seen = seen]
  BY DEF RetryDenial
<1>1. /\ act[d].pc = "denying" /\ sent' = [sent EXCEPT ![c] = @ + 1]
      /\ UNCHANGED <<task, att, work, cmd, grant, note, ctl>>
      /\ UNCHANGED run \/ Publish(t, g, [run[t][g] EXCEPT !.perm = 0])
  BY DEF RetryDenial, At, storeVars
<1>2. t \in Tasks /\ g \in Attempts /\ act[d].pc \in AfterSubmit
  <2>1. act[d].pc \in AfterSubmit
    BY <1>1 DEF AfterSubmit
  <2> QED
    BY <2>1, FurtherHas
<1>3. /\ c \in Controls /\ act[d].pc \in Denying
      /\ ctl[c].retried = TRUE /\ ctl[c].kind = "permission" /\ ctl[c].choice = "deny"
  <2>1. act[d].pc \in Denying
    BY <1>1 DEF Denying
  <2> QED
    BY <2>1, SenderHas
<1> PICK r : r = [act[d] EXCEPT !.pc = "denied", !.seen = seen]
  OBVIOUS
<1>4. /\ r \in ActRow /\ r.pc = "denied" /\ r.why = c /\ r.t = act[d].t /\ r.g = act[d].g
      /\ r.res = act[d].res /\ r.seen = seen /\ "denied" \in AfterSubmit \ {"post"}
  <2>1. "denied" \in WithTask /\ "denied" \in AfterSubmit \ {"post"} /\ seen \in Sightings
    BY DEF WithTask, AfterSubmit, Sightings, DispatchStates
  <2> QED
    BY <2>1, ActFields DEF ActRow
<1>5. act' = [act EXCEPT ![d] = r]
  BY DEF EngineTypes
<1>6. act'[d] = r
  BY <1>4, <1>5, Goes
<1>7. World
  BY <1>1, <1>2, ToldRuns, AttKept, MildWorld DEF RowStep
<1>8. /\ sent' \in [Controls -> Nat] /\ sent'[c] = sent[c] + 1
      /\ \A e \in Controls : e # c => sent'[e] = sent[e]
  BY <1>1, <1>3 DEF EngineTypes
<1>9. sent[c] \in Nat /\ sent[c] <= 1
  BY <1>1, <1>3, CtlFields DEF EngineInv, ControlsFit, SenderFits, At
<1>10. \A e \in Controls : ControlFits(e)'
  <2> SUFFICES ASSUME NEW e \in Controls PROVE ControlFits(e)'
    OBVIOUS
  <2>1. ctl'[e] = ctl[e] /\ ControlFits(e)
    BY <1>1 DEF EngineInv, ControlsFit
  <2>2. CASE e = c
    <3>1. ctl[c].t # "none"
      BY <1>3, <2>1, <2>2 DEF ControlFits, NoControl
    <3>2. sent'[c] <= 2
      BY <1>8, <1>9
    <3> QED
      BY <1>3, <2>1, <2>2, <3>1, <3>2 DEF ControlFits
  <2>3. CASE e # c
    BY <1>8, <2>1, <2>3 DEF ControlFits
  <2> QED
    BY <2>2, <2>3
<1>11. SenderFits(d)'
  <2>1. act'[d].pc = "denied" /\ act'[d].why = c /\ act'[d].seen \in {"accepted", "unknown"}
    BY <1>4, <1>6
  <2>2. ctl'[c] = ctl[c]
    BY <1>1
  <2> QED
    BY <1>3, <2>1, <2>2 DEF SenderFits, At, Sending, Denying
<1>12. ASSUME NEW e \in Actors \ {d}, act[e].pc \in Sending \cup Denying, act[e].why = c PROVE FALSE
  <2>1. CASE act[e].pc \in Sending
    BY <1>3, <1>12, <2>1, SenderHas
  <2>2. CASE act[e].pc \in Denying
    BY <1>3, <1>12, <2>2 DEF EngineInv, ControlsFit
  <2> QED
    BY <1>12, <2>1, <2>2
<1>13. SendersSafe(d)
  <2> SUFFICES ASSUME NEW e \in Actors \ {d}, act[e].pc \in {"invoke", "denying"}
               PROVE  sent'[act[e].why] = sent[act[e].why]
    BY <1>1, OthersSafe
  <2>1. act[e].pc \in Sending \cup Denying
    BY DEF Sending, Denying
  <2> QED
    BY <1>8, <1>12, <2>1, SenderHas
<1>14. SendersApart(d)
  BY <1>4, <1>6, <1>12 DEF SendersApart, Sending
<1>15. ControlsStay
  BY <1>1, CtlFields DEF ControlsStay
<1>16. ctl' \in [Controls -> CtlRow] /\ UNCHANGED <<grant, note>>
  BY <1>1 DEF EngineTypes
<1> QED
  BY <1>2, <1>4, <1>5, <1>7, <1>8, <1>10, <1>11, <1>13, <1>14, <1>15, <1>16, DenialStep

\* The outcome of the retry is saved, unless the denial was given up meanwhile.
LEMMA RecordDenialStep ==
  ASSUME EngineTypes, EngineInv, NEW d \in Actors, RecordDenial(d)
  PROVE  StepGood
<1> PICK t, g, c : t = act[d].t /\ g = act[d].g /\ c = act[d].why
  OBVIOUS
<1>1. act[d].pc = "denied" /\ UNCHANGED <<att, grant, run, note, sent>>
  BY DEF RecordDenial, At, runtimeVars
<1>2. t \in Tasks /\ task[t].phase # "none" /\ act[d].pc \in AfterSubmit
  <2>1. act[d].pc \in AfterSubmit
    BY <1>1 DEF AfterSubmit
  <2> QED
    BY <2>1, FurtherHas
<1>3. /\ c \in Controls /\ act[d].pc \in Denying
      /\ ctl[c].retried = TRUE /\ ctl[c].kind = "permission" /\ ctl[c].choice = "deny"
  <2>1. act[d].pc \in Denying
    BY <1>1 DEF Denying
  <2> QED
    BY <2>1, SenderHas
<1> PICK seen \in {"accepted", "unknown"} : seen = act[d].seen
  BY <1>1 DEF EngineInv, ControlsFit, SenderFits, At
<1> PICK b \in CtlRow : b = ctl[c]
  BY <1>3, CtlFields
<1> PICK new : new = [b EXCEPT !.state = seen]
  OBVIOUS
<1>4. PICK why \in Reasons :
        /\ act' = [act EXCEPT ![d].pc = "guide", ![d].why = why]
        /\ \/ UNCHANGED <<ctl, task, work, cmd>>
           \/ /\ b.state # "superseded" /\ ctl' = [ctl EXCEPT ![c] = new]
              /\ \E p \in {0, task[t].perm} : Put(t, [task[t] EXCEPT !.perm = p])
  <2>1. CASE ctl[c].state = "superseded"
    <3>1. act' = [act EXCEPT ![d].pc = "guide", ![d].why = "stale"] /\ UNCHANGED <<ctl, task, work, cmd>>
      BY <2>1 DEF RecordDenial
    <3> QED
      BY <3>1 DEF Reasons
  <2>2. CASE ctl[c].state # "superseded"
    <3> PICK match \in BOOLEAN : match = (task[t].perm = act[d].res.perm)
      OBVIOUS
    <3> PICK p \in {0, task[t].perm} : p = IF seen = "accepted" /\ match THEN 0 ELSE task[t].perm
      OBVIOUS
    <3> PICK why \in Reasons : why = CASE seen = "accepted" /\ match -> "denied"
                                        [] ~match -> "stale"
                                        [] OTHER -> "none"
      BY DEF Reasons
    <3>1. ctl' = [ctl EXCEPT ![c].state = seen]
      BY <2>2 DEF RecordDenial
    <3>2. ctl' = [ctl EXCEPT ![c] = new]
      BY <3>1 DEF EngineTypes
    <3>3. Put(t, [task[t] EXCEPT !.perm = p])
      BY <2>2 DEF RecordDenial
    <3>4. act' = [act EXCEPT ![d].pc = "guide", ![d].why = why]
      BY <2>2 DEF RecordDenial
    <3> QED
      BY <2>2, <3>2, <3>3, <3>4
  <2> QED
    BY <2>1, <2>2
<1> PICK r : r = [act[d] EXCEPT !.pc = "guide", !.why = why]
  OBVIOUS
<1>5. /\ r \in ActRow /\ r.pc = "guide" /\ r.t = act[d].t /\ r.g = act[d].g
      /\ r.res = act[d].res /\ "guide" \in AfterSubmit \ {"post"}
  <2>1. "guide" \in WithTask /\ "guide" \in AfterSubmit \ {"post"}
    BY DEF WithTask, AfterSubmit
  <2> QED
    BY <2>1, ActFields DEF ActRow
<1>6. act' = [act EXCEPT ![d] = r]
  BY <1>4 DEF EngineTypes
<1>7. act'[d] = r
  BY <1>5, <1>6, Goes
<1>8. World
  <2>1. RowStep
    BY <1>2, <1>4, PermRow DEF RowStep
  <2> QED
    BY <1>1, <2>1, AttKept, RunKept, MildWorld
<1>9. /\ new \in CtlRow /\ new.t = b.t /\ new.kind = b.kind /\ new.choice = b.choice
      /\ new.state = seen /\ new.src = b.src /\ new.rev = b.rev
  <2>1. seen \in CtlStates
    BY DEF CtlStates
  <2> QED
    BY <2>1 DEF CtlRow
<1>10. new.retried = b.retried /\ new.final = b.final
  BY DEF CtlRow
<1>11. /\ ctl' \in [Controls -> CtlRow]
       /\ \A e \in Controls : e # c => ctl'[e] = ctl[e]
       /\ ctl'[c] = b \/ (b.state # "superseded" /\ ctl'[c] = new)
  <2>1. ctl \in [Controls -> CtlRow] /\ ctl[c] = b
    BY <1>3 DEF EngineTypes
  <2>2. CASE ctl' = ctl
    BY <2>1, <2>2
  <2>3. CASE b.state # "superseded" /\ ctl' = [ctl EXCEPT ![c] = new]
    BY ONLY <1>3, <1>9, <2>1, <2>3, Zenon
  <2> QED
    BY <1>4, <2>2, <2>3
<1>12. ControlFits(c)
  BY <1>3 DEF EngineInv, ControlsFit
<1>13. b.t # "none" /\ b.src = "none"
  BY <1>3, <1>12 DEF ControlFits, NoControl
<1>14. \A e \in Controls : ControlFits(e)'
  <2> SUFFICES ASSUME NEW e \in Controls PROVE ControlFits(e)'
    OBVIOUS
  <2>1. sent'[e] = sent[e] /\ ControlFits(e)
    BY <1>1 DEF EngineInv, ControlsFit
  <2>2. CASE ctl'[e] = ctl[e]
    BY <2>1, <2>2 DEF ControlFits
  <2>3. CASE e = c /\ ctl'[c] = new
    BY <1>3, <1>9, <1>10, <1>13, <2>1, <2>3 DEF ControlFits
  <2> QED
    BY <1>11, <2>2, <2>3
<1>15. SenderFits(d)' /\ SendersApart(d)
  BY <1>5, <1>7 DEF SenderFits, SendersApart, At, Sending, Denying
<1>16. SendersSafe(d)
  <2> SUFFICES ASSUME NEW e \in Actors \ {d}, act[e].pc \in Sending \cup Denying \cup {"receipt"},
                      ctl'[act[e].why] # ctl[act[e].why], NEW f \in Controls, f = act[e].why
               PROVE  act[e].pc \notin Sending \cup Denying /\ ctl'[f].t = ctl[f].t
    BY <1>1, SenderHas, OthersSafe
  <2>1. f = c /\ ctl'[c] = new /\ act[e].why = c
    BY <1>11
  <2>2. act[e].pc \notin Sending
    <3>1. act[e].pc \in Sending => ctl[act[e].why].retried = FALSE
      BY SenderHas
    <3> QED
      BY <1>3, <2>1, <3>1
  <2>3. act[e].pc \notin Denying
    <3>1. act[e].pc \in Denying /\ act[d].pc \in Denying => act[e].why # act[d].why
      BY DEF EngineInv, ControlsFit
    <3> QED
      BY <1>3, <2>1, <3>1
  <2> QED
    BY <1>9, <2>1, <2>2, <2>3
<1>17. ControlsStay
  <2> SUFFICES ASSUME NEW e \in Controls
               PROVE  /\ ctl[e].src = "runtime" /\ ctl[e].final => ctl'[e] = ctl[e]
                      /\ ctl[e].state = "superseded" => ctl'[e].state = "superseded"
                      /\ ctl'[e].rev >= ctl[e].rev
    BY DEF ControlsStay
  <2>1. CASE ctl'[e] = ctl[e]
    BY <2>1, CtlFields
  <2>2. CASE e = c /\ b.state # "superseded" /\ ctl'[c] = new
    <3>1. ctl'[c].rev >= ctl[c].rev
      BY <1>3, <1>9, <2>2, CtlFields
    <3> QED
      BY <1>13, <2>2, <3>1
  <2> QED
    BY <1>11, <2>1, <2>2
<1>18. sent' \in [Controls -> Nat] /\ UNCHANGED <<grant, note>>
  BY <1>1 DEF EngineTypes
<1> QED
  BY <1>2, <1>5, <1>6, <1>8, <1>11, <1>14, <1>15, <1>16, <1>17, <1>18, DenialStep

-----------------------------------------------------------------------------
(* The invariant, and what follows from it.                                *)

\* Nothing is asked for yet.
LEMMA EngineInit ==
  ASSUME Init
  PROVE  EngineTypes /\ EngineInv
<1>1. /\ task = [t \in Tasks |-> NoRow] /\ att = [t \in Tasks |-> [g \in Attempts |-> NoAttempt]]
      /\ work = [t \in Tasks |-> NoWork] /\ cmd = [k \in Commands |-> NoCommand]
      /\ grant = [t \in Tasks |-> TRUE]
      /\ run = [t \in Tasks |-> [g \in Attempts |-> NoRun]] /\ note = [c \in Controls |-> NoNote]
      /\ ctl = [c \in Controls |-> NoControl] /\ sent = [c \in Controls |-> 0]
      /\ act = [a \in Actors |-> Idle]
  BY DEF Init, StoreInit, RuntimeInit, ControlsInit
<1>2. EngineTypes
  <2>1. /\ task \in [Tasks -> TaskRow] /\ att \in [Tasks -> [Attempts -> AttRow]]
        /\ work \in [Tasks -> WorkRow] /\ cmd \in [Commands -> CmdRow]
    BY <1>1, EmptyRows
  <2>2. /\ run \in [Tasks -> [Attempts -> RunRow]] /\ note \in [Controls -> NoteRow]
        /\ ctl \in [Controls -> CtlRow] /\ act \in [Actors -> ActRow]
    BY <1>1, EmptyRows
  <2>3. grant \in [Tasks -> BOOLEAN] /\ sent \in [Controls -> Nat]
    BY <1>1
  <2> QED
    BY <2>1, <2>2, <2>3 DEF EngineTypes
<1>3. \A t \in Tasks :
        /\ task[t] = NoRow /\ work[t] = NoWork
        /\ task[t].phase = "none" /\ task[t].outcome = "none" /\ task[t].attempt = 0 /\ task[t].gen = 0
        /\ work[t].verified = FALSE /\ work[t].state = "none"
  <2>1. \A t \in Tasks : task[t] = NoRow /\ work[t] = NoWork
    BY <1>1
  <2>2. NoRow.phase = "none" /\ NoRow.outcome = "none" /\ NoRow.attempt = 0 /\ NoRow.gen = 0
    BY DEF NoRow
  <2>3. NoWork.verified = FALSE /\ NoWork.state = "none"
    BY DEF NoWork
  <2> QED
    BY <2>1, <2>2, <2>3
<1>4. \A t \in Tasks, g \in Attempts :
        /\ att[t][g] = NoAttempt /\ att[t][g].current = FALSE /\ att[t][g].disp = "none"
        /\ run[t][g].state = "none"
  BY <1>1 DEF NoAttempt, NoRun
<1>5. \A a \in Actors : act[a].pc = "idle" /\ act[a].res.state = "none"
  BY <1>1 DEF Idle, NoResult
<1>6. AttemptsFit
  BY <1>4 DEF AttemptsFit, Unsettled
<1>7. RowsFit
  BY <1>3 DEF RowsFit
<1>8. ResourcesFit
  BY <1>4 DEF ResourcesFit
<1>9. ThreadsFit
  BY <1>5 DEF ThreadsFit, ThreadFits, At, BeforeSubmit, AfterSubmit, Terminal
<1>10. NotesFit
  BY <1>1 DEF NotesFit
<1>11. ClosedFit
  <2>1. \A k \in Commands : cmd[k].kind # "cancel"
    BY <1>1 DEF NoCommand
  <2> QED
    BY <1>3, <2>1 DEF ClosedFit
<1>12. ControlsFit
  <2>1. ASSUME NEW c \in Controls PROVE ControlFits(c)
    <3>1. ctl[c] = NoControl /\ sent[c] = 0
      BY <1>1
    <3>2. /\ NoControl.t = "none" /\ NoControl.kind = "none" /\ NoControl.src = "none"
          /\ NoControl.rev = 0 /\ NoControl.choice = "none"
      BY DEF NoControl
    <3>3. NoControl.final = FALSE /\ NoControl.retried = FALSE
      BY DEF NoControl
    <3> QED
      BY <3>1, <3>2, <3>3 DEF ControlFits
  <2> QED
    BY <1>5, <2>1 DEF ControlsFit, SenderFits, At, Sending, Denying
<1> QED
  BY <1>2, <1>6, <1>7, <1>8, <1>9, <1>10, <1>11, <1>12 DEF EngineInv

\* A step of the coordinator.
LEMMA DriverStep ==
  ASSUME EngineTypes, EngineInv, NEW d \in Drivers, Driver(d)
  PROVE  StepGood
<1>1. d \in Actors
  BY DEF Actors
<1>2. CASE \E t \in Tasks : Advance(d, t)
  BY <1>1, <1>2, AdvanceStep
<1>3. CASE \E ok \in BOOLEAN : Describe(d, ok) \/ Capabilities(d, ok) \/ Stop(d, ok) \/ Ask(d, ok)
  BY <1>1, <1>3, DescribeStep, CapabilitiesStep, StopStep, AskStep
<1>4. CASE Claim(d) \/ Drive(d) \/ NeedsAttention(d) \/ RuntimeUnavailable(d) \/ SubmitDispatch(d)
  BY <1>1, <1>4, ClaimStep, DriveStep, NeedsAttentionStep, RuntimeUnavailableStep, SubmitDispatchStep
<1>5. CASE \E arrives \in BOOLEAN, answered \in BOOLEAN : Post(d, arrives, answered)
  BY <1>1, <1>5, PostStep
<1>6. CASE AcceptDispatch(d) \/ Poll(d) \/ Observe(d) \/ CloseSuperseded(d) \/ MarkRetry(d)
  BY <1>1, <1>6, AcceptDispatchStep, PollStep, ObserveStep, CloseSupersededStep, MarkRetryStep
<1>7. CASE \E arrives, lost \in BOOLEAN : RetryDenial(d, arrives, lost)
  BY <1>1, <1>7, RetryDenialStep
<1>8. CASE RecordDenial(d) \/ MergeObserved(d)
  BY <1>1, <1>8, RecordDenialStep, MergeObservedStep
<1>9. CASE ApplyRunning(d) \/ ApplyTerminal(d) \/ ApplyUnknown(d)
  BY <1>1, <1>9, ApplyRunningStep, ApplyTerminalStep, ApplyUnknownStep
<1> QED
  BY <1>2, <1>3, <1>4, <1>5, <1>6, <1>7, <1>8, <1>9 DEF Driver

\* A step of a request thread of the owner.
LEMMA OwnerStep ==
  ASSUME EngineTypes, EngineInv, NEW o \in Operators, Owner(o)
  PROVE  StepGood
<1>1. o \in Actors
  BY DEF Actors
<1>2. CASE Asked(o)
  <2> PICK t \in Tasks :
        \/ \E k \in Commands, kind \in Kinds : Command(o, k, t, kind)
        \/ \E kind \in Kinds : Hold(o, t, kind)
        \/ \E c \in Controls, ch \in Choices : SubmitControl(o, c, t, ch[1], ch[2])
    BY <1>2 DEF Asked
  <2>1. CASE \E k \in Commands, kind \in Kinds : Command(o, k, t, kind)
    BY <1>1, <2>1, CommandStep
  <2>2. CASE \E kind \in Kinds : Hold(o, t, kind)
    BY <1>1, <2>2, HoldStep
  <2>3. CASE \E c \in Controls, ch \in Choices : SubmitControl(o, c, t, ch[1], ch[2])
    BY <1>1, <2>3, SubmitControlStep
  <2> QED
    BY <2>1, <2>2, <2>3
<1>3. CASE \E arrives, lost \in BOOLEAN : InvokeControl(o, arrives, lost)
  BY <1>1, <1>3, InvokeControlStep
<1>4. CASE RecordControl(o) \/ MergeReceipt(o)
  BY <1>1, <1>4, RecordControlStep, MergeReceiptStep
<1> QED
  BY <1>2, <1>3, <1>4 DEF Owner

\* Every step keeps the invariant, and reopens nothing.
LEMMA EngineSteps ==
  ASSUME EngineTypes, EngineInv, Next
  PROVE  StepGood
<1>1. CASE Runtime
  <2> PICK t \in Tasks, g \in Attempts :
        \/ RaisePermission(t, g)
        \/ \E e \in Endings : Finish(t, g, e[1], e[2])
        \/ ExpireRetention(t, g)
    BY <1>1 DEF Runtime
  <2> QED
    BY RaisePermissionStep, FinishStep, ExpireRetentionStep
<1>2. CASE Notes
  BY <1>2, ApplyNoteStep DEF Notes
<1>3. CASE Admissions
  BY <1>3, GrantStep, SubmitStep DEF Admissions
<1>4. CASE Refresh
  BY <1>4, RefreshGuidanceStep DEF Refresh
<1>5. CASE \E d \in Drivers : Driver(d)
  BY <1>5, DriverStep
<1>6. CASE \E o \in Operators : Owner(o)
  BY <1>6, OwnerStep
<1>7. CASE \E a \in Actors : Settle(a)
  BY <1>7, SettleStopStep, HeldStateStep, CrashStep DEF Settle
<1> QED
  BY <1>1, <1>2, <1>3, <1>4, <1>5, <1>6, <1>7 DEF Next

\* A step that changes nothing.
LEMMA EngineStutters ==
  ASSUME EngineTypes, EngineInv, UNCHANGED vars
  PROVE  EngineTypes' /\ EngineInv'
<1>1. /\ task' = task /\ att' = att /\ work' = work /\ cmd' = cmd /\ grant' = grant /\ run' = run
      /\ note' = note /\ ctl' = ctl /\ sent' = sent /\ act' = act
  BY DEF vars
<1>2. World
  BY <1>1, StillWorld
<1>3. External /\ act' = act
  BY <1>1 DEF External
<1> QED
  BY <1>2, <1>3, StillStep DEF StepGood

\* What the rows, the runs, the threads and the controls are to each other
\* holds in every reachable state.
THEOREM EngineHolds == Spec => [](EngineTypes /\ EngineInv)
<1>1. Init => EngineTypes /\ EngineInv
  BY EngineInit
<1>2. EngineTypes /\ EngineInv /\ [Next]_vars => EngineTypes' /\ EngineInv'
  BY EngineSteps, EngineStutters DEF StepGood
<1> QED
  BY <1>1, <1>2, PTL DEF Spec

\* The rows, attempts, work items, runs, controls and threads have their types.
THEOREM EngineTypesHold == Spec => []TypeOK
<1>1. EngineTypes => TypeOK
  <2> SUFFICES ASSUME EngineTypes PROVE TypeOK
    OBVIOUS
  <2>1. StoreTypeOK
    BY DEF EngineTypes, StoreTypeOK, TaskRow, AttRow, WorkRow, WorkStates, RunResults
  <2>2. \A t \in Tasks, g \in Attempts : run[t][g].state \in RunStates /\ run[t][g].starts \in 0..1
    BY RunFields
  <2>3. \A c \in Controls : ctl[c].rev \in Nat /\ ctl[c].t \in Tasks \cup {"none"}
    BY CtlFields
  <2>4. \A a \in Actors : act[a].t \in Tasks \cup {"none"} /\ act[a].g \in 0..Budget
    BY ActFields
  <2> QED
    BY <2>1, <2>2, <2>3, <2>4 DEF TypeOK
<1> QED
  BY <1>1, EngineHolds, PTL

\* One run at a time for a task, and for a resource two tasks share; none
\* outlives its task, and no thread may still start one for a closed task
\* (claim's reservation, the key of the run, the refusal to close while a
\* dispatch is unsettled).
THEOREM RunsStayFenced == Spec => []RunsAreFenced
<1>1. EngineTypes /\ EngineInv => RunsAreFenced
  <2> SUFFICES ASSUME EngineTypes, EngineInv PROVE RunsAreFenced
    OBVIOUS
  <2>1. ASSUME NEW t \in Tasks, NEW g \in Attempts, run[t][g].state = "running"
        PROVE  att[t][g].current = TRUE /\ g = task[t].attempt /\ task[t].phase # "closed"
    BY <2>1 DEF EngineInv, AttemptsFit
  <2>2. ASSUME NEW t \in Tasks, NEW u \in Tasks, NEW g \in Attempts, NEW h \in Attempts,
               run[t][g].state = "running", run[u][h].state = "running",
               t = u \/ (Resource[t] = Resource[u] /\ Resource[t] # NoResource)
        PROVE  t = u /\ g = h
    <3>1. /\ att[t][g].current = TRUE /\ att[u][h].current = TRUE
          /\ g = task[t].attempt /\ h = task[u].attempt
      BY <2>1, <2>2
    <3>2. t = u
      BY <2>2, <3>1 DEF EngineInv, ResourcesFit, Related
    <3> QED
      BY <3>1, <3>2
  <2>3. ASSUME NEW t \in Tasks, task[t].phase = "closed"
        PROVE  /\ \A g \in Attempts : run[t][g].state # "running"
               /\ \A d \in Drivers : act[d].t = t /\ At(d, "post") => run[t][act[d].g].state # "none"
    <3>1. \A g \in Attempts : run[t][g].state # "running"
      BY <2>1, <2>3
    <3>2. ASSUME NEW d \in Drivers, act[d].t = t, At(d, "post")
          PROVE  run[t][act[d].g].state # "none"
      <4>1. d \in Actors /\ act[d].pc \in AfterSubmit
        BY <3>2 DEF Actors, At, AfterSubmit
      <4>2. act[d].g \in Attempts
        BY <4>1, FurtherHas
      <4>3. att[t][act[d].g].current = TRUE \/ run[t][act[d].g].state # "none"
        BY <3>2, <4>1 DEF EngineInv, ThreadsFit, ThreadFits
      <4>4. att[t][act[d].g].current # TRUE
        BY <2>3, <4>2 DEF EngineInv, AttemptsFit
      <4> QED
        BY <4>3, <4>4
    <3> QED
      BY <3>1, <3>2
  <2> QED
    BY <2>2, <2>3 DEF RunsAreFenced
<1> QED
  BY <1>1, EngineHolds, PTL

\* What a closed task and its work item say is what happened to the run of
\* its last attempt and to the cancel that was asked for (_terminal_outcome,
\* _verify_terminal, command_application_state).
THEOREM OutcomesStayEarned == Spec => []OutcomesAreEarned
<1>1. EngineTypes /\ EngineInv => OutcomesAreEarned
  <2> SUFFICES ASSUME EngineTypes, EngineInv, NEW t \in Tasks
               PROVE  /\ task[t].phase # "none" => task[t].gen + task[t].budget = Budget
                      /\ task[t].outcome = "completed" =>
                           /\ "cancel_requested" \notin task[t].blockers
                           /\ run[t][task[t].attempt].state = "completed"
                           /\ run[t][task[t].attempt].claim = task[t].result
                      /\ \A k \in Commands :
                           cmd[k].t = t /\ cmd[k].kind = "cancel" /\ cmd[k].state = "applied" =>
                             task[t].phase = "closed" /\ task[t].outcome = "cancelled"
                      /\ work[t].state = "completed" =>
                           /\ task[t].outcome = "completed" /\ work[t].artifact = task[t].attempt
                           /\ run[t][task[t].attempt].claim = "delivered"
    BY DEF OutcomesAreEarned
  <2>1. task[t].phase # "none" => task[t].gen + task[t].budget = Budget
    BY DEF EngineInv, RowsFit
  <2>2. /\ task[t].phase # "closed" => task[t].outcome = "none"
        /\ task[t].outcome = "completed" =>
             /\ "cancel_requested" \notin task[t].blockers
             /\ run[t][task[t].attempt].state = "completed"
             /\ run[t][task[t].attempt].claim = task[t].result
        /\ work[t].state = "completed" =>
             /\ task[t].outcome = "completed" /\ work[t].artifact = task[t].attempt
             /\ task[t].result = "delivered"
        /\ \A k \in Commands : cmd[k].t = t /\ cmd[k].kind = "cancel" /\ cmd[k].state = "applied" =>
             task[t].outcome = "cancelled"
    BY DEF EngineInv, ClosedFit
  <2> QED
    BY <2>1, <2>2
<1> QED
  BY <1>1, EngineHolds, PTL

\* A control is sent once, and a denial whose answer was lost twice at most
\* (_submit_control, reconcile_pending_denial).
THEOREM ControlsStaySentOnce == Spec => []ControlsAreSentOnce
<1>1. EngineTypes /\ EngineInv => ControlsAreSentOnce
  <2> SUFFICES ASSUME EngineTypes, EngineInv, NEW c \in Controls
               PROVE  /\ sent[c] <= IF ctl[c].choice = "deny" /\ ctl[c].retried THEN 2 ELSE 1
                      /\ ctl[c].state = "none" => sent[c] = 0
    BY DEF ControlsAreSentOnce
  <2>1. ControlFits(c)
    BY DEF EngineInv, ControlsFit
  <2>2. ctl[c].retried = (ctl[c].retried = TRUE)
    BY CtlFields
  <2>3. sent[c] <= IF ctl[c].choice = "deny" /\ ctl[c].retried = TRUE THEN 2 ELSE 1
    BY <2>1 DEF ControlFits
  <2>4. ctl[c].state = "none" => sent[c] = 0
    BY <2>1 DEF ControlFits
  <2> QED
    BY <2>2, <2>3, <2>4
<1> QED
  BY <1>1, EngineHolds, PTL

\* No late poll, answer or receipt reopens a closed task, a control that was
\* superseded or a receipt that is final, and no cursor goes back.
THEOREM NothingEverReopens == Spec => NothingReopens
<1>1. EngineTypes /\ EngineInv /\ [Next]_vars =>
        [/\ \A t \in Tasks : task[t].phase = "closed" =>
              /\ task'[t] = [task[t] EXCEPT !.perm = task'[t].perm]
              /\ task'[t].perm \in {0, task[t].perm}
              /\ work'[t] = work[t]
         /\ \A c \in Controls :
              /\ ctl[c].src = "runtime" /\ ctl[c].final => ctl'[c] = ctl[c]
              /\ ctl[c].state = "superseded" => ctl'[c].state = "superseded"
              /\ ctl'[c].rev >= ctl[c].rev
         /\ \A t \in Tasks, g \in Attempts : att'[t][g].obs >= att[t][g].obs]_vars
  BY EngineSteps DEF StepGood, RowsStay, ControlsStay, CursorsStay
<1> QED
  BY <1>1, EngineHolds, PTL DEF Spec, NothingReopens
=============================================================================
