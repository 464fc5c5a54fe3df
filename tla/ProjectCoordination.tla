------------------------ MODULE ProjectCoordination ------------------------
(***************************************************************************)
(* One Buzz project coordinated by Radhouse: the ingress cycle of           *)
(* channels/project_buzz.py over the snapshot of domain/projects.py, with    *)
(* the rules of application/project_coordination.py.                        *)
(*                                                                         *)
(* Admitting a task, saving a message and saving the snapshot are separate  *)
(* transactions: the cycle may be refused or stop between any two. What it  *)
(* holds of the snapshot in between is `held' (context.state), and `inner'  *)
(* inside _reconcile. Specialists' own cycles process what is pending.      *)
(***************************************************************************)
EXTENDS Base, FiniteSets

CONSTANTS
  Revisions,       \* revisions of the work a Builder may report
  Messages,        \* how many messages the owner sends
  MaxTasks,        \* how many tasks are admitted
  Automatic        \* automatic_private_release, with every role configured

ASSUME ProjectAssumption == Messages \in Nat /\ MaxTasks \in Nat /\ None \notin Revisions

Notes == 1..Messages
Tasks == 1..MaxTasks
Roles == {"researcher", "builder", "reviewer", "deployer"}
Asks == {"pause", "resume", "stop", "goal", "research", "both", "build", "accept", "review", "deploy",
            "status", "reviewer_talk", "files"}
Routes == {"invalid", "clarify", "research", "build", "research_then_build"}

VARIABLES
  coord,           \* the saved snapshot
  work,            \* work[t]: task t, under the key that admitted it
  note,            \* note[e]: what the owner asks for
  saved,           \* saved[e]: its row, and the task it started
  cyc              \* the ingress cycle

projectVars == <<coord, work, note, saved, cyc>>

NoSnapshot == [phase |-> "intake", role |-> None, task |-> 0, latest |-> 0, pending |-> 0, preview |-> None,
               accepted |-> None, reviewed |-> None, verdict |-> None, healthy |-> FALSE, handoff |-> None, plan |-> 0, src |-> 0]
NoReport == [kind |-> None, rev |-> None]
NoTask == [key |-> <<>>, role |-> None, state |-> "none", report |-> NoReport]
NoMessage == [state |-> "none", task |-> 0, role |-> None, act |-> None]
AtEase == [pc |-> "idle", e |-> 0, todo |-> {}, held |-> NoSnapshot, inner |-> NoSnapshot, own |-> FALSE, target |-> None, task |-> 0]

ProjectInit ==
  /\ coord = NoSnapshot /\ work = [t \in Tasks |-> NoTask]
  /\ note = [e \in Notes |-> None] /\ saved = [e \in Notes |-> NoMessage] /\ cyc = AtEase

Reports == [kind : Routes, rev : {None}] \cup [kind : {"preview"}, rev : Revisions]
             \cup [kind : {"READY", "CHANGES_NEEDED"}, rev : Revisions \cup {None}]
             \cup [kind : {"text", "healthy"}, rev : {None}]
ProjectTypeOK ==
  /\ coord.task \in 0..MaxTasks /\ coord.preview \in Revisions \cup {None}
  /\ \A t \in Tasks : /\ work[t].state \in {"none", "open", "stopping", "closed"}
                      /\ work[t].report \in Reports \cup {NoReport}
  /\ \A e \in Notes : saved[e].state \in {"none", "received", "done", "planning"}

-----------------------------------------------------------------------------
(* Tasks. Admission under a key is idempotent.                              *)
OpenTask(t) == t # 0 /\ work[t].state \in {"open", "stopping"}
Successful(t) == t # 0 /\ work[t].state = "closed" /\ work[t].report # NoReport
Keyed(key) == {t \in Tasks : work[t].key = key}
Vacant == {t \in Tasks : work[t].state = "none"}
Admits(key, role, t) ==
  IF Keyed(key) # {} THEN t \in Keyed(key) /\ UNCHANGED work
  ELSE /\ Vacant # {} /\ t = CHOOSE u \in Vacant : \A x \in Vacant : u <= x
       /\ work' = [work EXCEPT ![t] = [key |-> key, role |-> role, state |-> "open", report |-> NoReport]]

(* What agents report: parse_coordination_plan, result_update.              *)
ReportsOf(role) ==
  CASE role = "planner" -> [kind : Routes, rev : {None}]
    [] role = "builder" -> [kind : {"text"}, rev : {None}] \cup [kind : {"preview"}, rev : Revisions]
    [] role = "reviewer" -> [kind : {"READY", "CHANGES_NEEDED"}, rev : Revisions \cup {None}] \cup [kind : {"text"}, rev : {None}]
    [] role = "deployer" -> [kind : {"healthy", "text"}, rev : {None}]
    [] OTHER -> [kind : {"text"}, rev : {None}]
TaskCloses(t, report) ==
  /\ OpenTask(t) /\ report \in ReportsOf(work[t].role) \cup {NoReport}
  /\ work' = [work EXCEPT ![t].state = "closed", ![t].report = report]
  /\ UNCHANGED <<coord, note, saved, cyc>>
OwnerWrites(e, intent) ==
  /\ note[e] = None /\ note' = [note EXCEPT ![e] = intent]
  /\ UNCHANGED <<coord, work, saved, cyc>>

-----------------------------------------------------------------------------
(* The rules. A Builder reports a revision as source and preview at once, or *)
(* no evidence.                                                             *)
\* Mutant: a new preview leaves what was deployed before it.
Superseded_Kept(c) == [c EXCEPT !.accepted = None, !.reviewed = None, !.verdict = None]
Superseded(c) == [c EXCEPT !.accepted = None, !.reviewed = None, !.verdict = None, !.healthy = FALSE]
BuilderChanges(c, report) ==
  IF report.kind # "preview" THEN [c EXCEPT !.phase = "blocked"]
  ELSE [(IF report.rev # c.accepted THEN Superseded(c) ELSE c) EXCEPT !.preview = report.rev, !.phase = "preview_feedback"]
\* Mutant: a review counts whatever revision it is of.
Matching_Any(c, report) == TRUE
Matching(c, report) == report.rev = c.preview
ReviewerChanges(c, report) ==
  LET found == IF Matching(c, report) /\ report.kind # "text" THEN report ELSE NoReport IN
  [c EXCEPT !.reviewed = IF Matching(c, report) THEN c.preview ELSE None, !.verdict = found.kind,
            !.phase = IF found.kind = "READY" THEN "merge_ready" ELSE "correction"]
\* Mutant: a deployment is recorded without the review.
Releasable_Anyhow(c) == TRUE
Releasable(c) == c.verdict = "READY" /\ c.reviewed = c.preview
DeploymentUpdate(c, report) ==
  IF report.kind = "healthy" /\ Releasable(c)
  THEN [c EXCEPT !.healthy = TRUE, !.phase = "deployed"]
  ELSE [c EXCEPT !.phase = "blocked"]
ApplyResult(c, t) ==
  LET done == [c EXCEPT !.role = None, !.task = 0]  report == work[t].report IN
  IF report = NoReport THEN [done EXCEPT !.phase = "blocked"]
  ELSE CASE work[t].role = "builder" -> BuilderChanges(done, report)
         [] work[t].role = "reviewer" -> ReviewerChanges(done, report)
         [] work[t].role = "deployer" -> DeploymentUpdate(done, report)
         [] OTHER -> [done EXCEPT !.phase = "research"]
AcceptPreview(c) == [c EXCEPT !.accepted = c.preview, !.phase = "review"]
(* The specialist that goes on after task t.                                *)
HandoffTarget(c, t) ==
  LET role == work[t].role IN
  IF ~Successful(t) THEN None
  ELSE IF role = "reviewer" /\ c.verdict = "CHANGES_NEEDED" THEN "builder"
  ELSE IF Automatic /\ role = "builder" /\ c.preview # None THEN "reviewer"
  ELSE IF Automatic /\ role = "reviewer" /\ Releasable(c) /\ c.preview # None THEN "deployer"
  ELSE c.handoff
PhaseOf(role) == CASE role = "builder" -> "building" [] role = "deployer" -> "deployment"
                   [] role = "researcher" -> "research" [] OTHER -> "review"
Planned(c) == [c EXCEPT !.role = None, !.task = 0, !.plan = 0, !.src = 0]
Working(c, t, role) == [c EXCEPT !.role = role, !.task = t, !.latest = t, !.phase = PhaseOf(role)]

-----------------------------------------------------------------------------
(* The cycle. `inner' is the snapshot _reconcile works on, `held' the one of *)
(* the message's handler; a refusal goes back to it, whatever was saved.    *)
Where(pc) == cyc.pc = pc
Moves(pc) == cyc' = [cyc EXCEPT !.pc = pc]
Reject ==
  /\ cyc' = IF cyc.e = 0 THEN AtEase ELSE [cyc EXCEPT !.pc = "next", !.inner = cyc.held]
  /\ saved' = IF cyc.e # 0 /\ saved[cyc.e].state = "none" THEN [saved EXCEPT ![cyc.e].state = "done"] ELSE saved
  /\ UNCHANGED coord
Holding(c, pc) == [cyc EXCEPT !.inner = c, !.held = IF cyc.own THEN @ ELSE c, !.pc = pc]
(* _save_state, validate: only over the snapshot that was read.             *)
SaveState(c, pc) ==
  IF coord = cyc.inner /\ (c.plan # 0 => c.plan = c.task) THEN coord' = c /\ cyc' = Holding(c, pc) /\ UNCHANGED saved
  ELSE Reject
(* _record_owner_event                                                      *)
Answer ==
  /\ saved' = IF saved[cyc.e].state = "none" THEN [saved EXCEPT ![cyc.e].state = "done"] ELSE saved
  /\ Moves("next") /\ UNCHANGED <<coord, work, note>>

BeginCycle(seen) ==
  /\ Where("idle") /\ \A m \in seen : note[m] # None
  /\ cyc' = [AtEase EXCEPT !.pc = "reconcile", !.todo = seen, !.held = coord, !.inner = coord, !.own = TRUE]
  /\ UNCHANGED <<coord, work, note, saved>>
NextNote ==
  /\ Where("next")
  /\ cyc' = IF cyc.todo = {} THEN AtEase
            ELSE LET m == CHOOSE x \in cyc.todo : \A y \in cyc.todo : x <= y IN
                 IF saved[m].state # "none" THEN [cyc EXCEPT !.todo = @ \ {m}]
                 ELSE [cyc EXCEPT !.todo = @ \ {m}, !.e = m, !.inner = cyc.held, !.own = TRUE, !.pc = "reconcile"]
  /\ UNCHANGED <<coord, work, note, saved>>

(* _reconcile: what the closed active task leads to.                        *)
ReconcileTask ==
  LET c == cyc.inner  t == c.task IN
  /\ Where("reconcile")
  /\ IF t = 0 \/ work[t].state # "closed" THEN Moves("reconciled") /\ UNCHANGED <<coord, saved>>
     ELSE IF c.plan # 0 THEN
       IF work[t].report.kind \in {None, "invalid"} THEN SaveState([Planned(c) EXCEPT !.phase = "blocked"], "reconciled")
       ELSE IF work[t].report.kind = "clarify" THEN SaveState([Planned(c) EXCEPT !.phase = "intake"], "reconciled")
       ELSE Moves("dispatch") /\ UNCHANGED <<coord, saved>>
     ELSE LET new == ApplyResult(c, t)  next == HandoffTarget(new, t) IN
       IF coord = c
       THEN /\ coord' = new /\ UNCHANGED saved
            /\ cyc' = [Holding(new, IF next = None THEN "reconciled" ELSE "handoff") EXCEPT !.target = next, !.task = t]
       ELSE Reject
  /\ UNCHANGED <<work, note>>
Reconciled ==
  /\ Where("reconciled")
  /\ cyc' = [cyc EXCEPT !.held = cyc.inner, !.own = FALSE,
       !.pc = IF cyc.e # 0 THEN "choose" ELSE IF cyc.inner.pending # 0 /\ cyc.inner.task = 0 THEN "pending" ELSE "next"]
  /\ UNCHANGED <<coord, work, note, saved>>

(* _finish_planning: the first step of the plan.                            *)
FirstRole(route) == IF route = "build" THEN "builder" ELSE "researcher"
Dispatch(t) ==
  LET c == cyc.inner  route == work[c.plan].report.kind IN
  /\ Where("dispatch") /\ Admits(<<"dispatch", c.src, route>>, FirstRole(route), t)
  /\ cyc' = [cyc EXCEPT !.task = t, !.pc = "dispatched"] /\ UNCHANGED <<coord, note, saved>>
Dispatched ==
  LET c == cyc.inner  route == work[c.plan].report.kind IN
  /\ Where("dispatched")
  /\ SaveState([Working(Planned(c), cyc.task, FirstRole(route))
                  EXCEPT !.handoff = IF route = "research_then_build" THEN "builder" ELSE None], "reconciled")
  /\ UNCHANGED <<work, note>>

(* _handoff: a task that follows another, which needs its result.           *)
Handoff(t) ==
  /\ Where("handoff") /\ (cyc.task = 0 \/ Successful(cyc.task))
  /\ Admits(<<"handoff", cyc.task, cyc.target, cyc.inner.preview>>, cyc.target, t)
  /\ cyc' = [cyc EXCEPT !.task = t, !.pc = "handed"] /\ UNCHANGED <<coord, note, saved>>
HandedOver ==
  /\ Where("handed")
  /\ SaveState([Working(cyc.inner, cyc.task, cyc.target) EXCEPT !.handoff = None], IF cyc.own THEN "reconciled" ELSE "next")
  /\ UNCHANGED <<work, note>>

(* conversations.process: the message starts its task, or guides one.       *)
Processes(m, t) ==
  LET row == saved[m] IN
  IF row.state = "done" THEN t = row.task /\ UNCHANGED <<work, saved>>
  ELSE IF row.act = "guide" THEN t = row.task /\ saved' = [saved EXCEPT ![m].state = "done"] /\ UNCHANGED work
  ELSE /\ row.state = "received" /\ (row.task = 0 \/ Successful(row.task)) /\ Admits(<<"note", m>>, row.role, t)
       /\ saved' = [saved EXCEPT ![m].state = "done", ![m].task = t]
Pending(t) ==
  /\ Where("pending") /\ Processes(cyc.inner.pending, t)
  /\ cyc' = [cyc EXCEPT !.task = t, !.pc = "pended"] /\ UNCHANGED <<coord, note>>
Pended ==
  /\ Where("pended") /\ SaveState([Working(cyc.inner, cyc.task, work[cyc.task].role) EXCEPT !.pending = 0], "next")
  /\ UNCHANGED <<work, note>>
SpecialistIngress(m, t) ==
  /\ saved[m].state = "received" /\ Processes(m, t) /\ UNCHANGED <<coord, note, cyc>>

-----------------------------------------------------------------------------
(* What a message asks for: _process_project_event, _select.                *)
Asking(intents) == Where("choose") /\ note[cyc.e] \in intents
Idle == cyc.held.task = 0
Controls == {"pause", "resume", "stop"}
Control ==
  LET c == cyc.held IN
  /\ Asking(Controls)
  /\ IF Idle \/ work[c.task].state = "closed" THEN Answer
     ELSE /\ IF note[cyc.e] = "stop"
             THEN /\ \E state \in {"stopping", "closed"} : work' = [work EXCEPT ![c.task].state = state]
                  /\ Moves("stopped") /\ UNCHANGED <<coord, saved>>
             ELSE SaveState([c EXCEPT !.phase = IF note[cyc.e] = "pause" THEN "paused" ELSE PhaseOf(c.role)], "answer")
                  /\ UNCHANGED work
          /\ UNCHANGED note
\* Mutant: a stop forgets the planner that is still stopping.
Cleared_All(c) == [Planned(c) EXCEPT !.phase = "blocked", !.pending = 0, !.handoff = None]
Cleared(c) == [c EXCEPT !.phase = "blocked", !.pending = 0, !.handoff = None]
Stopped == Where("stopped") /\ SaveState(Cleared(cyc.held), "answer") /\ UNCHANGED <<work, note>>
AnswerControl == Where("answer") /\ Answer

(* _planning_candidate, _start_planning: the message and the pointer to its  *)
(* planner are saved together.                                              *)
Candidate == /\ Asking({"goal", "both"}) /\ Idle
             /\ cyc.held.phase \notin {"preview_feedback", "correction", "merge_ready", "deployed"}
StartPlanning(t) ==
  /\ Candidate /\ Admits(<<"plan", cyc.e>>, "planner", t)
  /\ cyc' = [cyc EXCEPT !.task = t, !.pc = "planning"] /\ UNCHANGED <<coord, note, saved>>
SavePlan ==
  LET c == [cyc.held EXCEPT !.role = "researcher", !.task = cyc.task, !.plan = cyc.task, !.src = cyc.e, !.phase = "planning"] IN
  /\ Where("planning")
  /\ IF coord = cyc.held
     THEN coord' = c /\ cyc' = Holding(c, "next") /\ saved' = [saved EXCEPT ![cyc.e].state = "planning", ![cyc.e].task = cyc.task]
     ELSE Reject
  /\ UNCHANGED <<work, note>>

StatusAsked == Asking({"status"}) /\ Answer
(* _request_review, with the owner's acceptance of the preview.             *)
Review == /\ \/ Asking({"accept", "review"}) /\ (Idle \/ cyc.held.role = "reviewer")
             \/ Where("review")
          /\ LET c == cyc.held IN
             IF c.preview = None THEN Answer
             ELSE /\ IF note[cyc.e] = "accept" /\ c.accepted # c.preview THEN SaveState(AcceptPreview(c), "review")
                     ELSE /\ saved' = [saved EXCEPT ![cyc.e].state = "done", ![cyc.e].task = c.latest]
                          /\ cyc' = [cyc EXCEPT !.target = "reviewer", !.task = c.latest, !.pc = "handoff"] /\ UNCHANGED coord
                  /\ UNCHANGED <<work, note>>
(* _request_deployment                                                      *)
Deploy ==
  LET c == cyc.held IN
  /\ Asking({"deploy"}) /\ (Idle \/ c.role = "deployer")
  /\ IF ~Releasable(c) THEN Answer
     ELSE /\ saved' = [saved EXCEPT ![cyc.e].state = "done"]
          /\ cyc' = [cyc EXCEPT !.target = "deployer", !.task = IF Successful(c.latest) THEN c.latest ELSE 0, !.pc = "handoff"]
          /\ UNCHANGED <<coord, work, note>>

(* _route_project_message: the active specialist, or the one for the phase  *)
(* and the words.                                                           *)
Selected ==
  LET c == cyc.held  intent == note[cyc.e] IN
  IF intent = "reviewer_talk" THEN "reviewer"
  ELSE IF ~Idle THEN c.role
  ELSE IF c.phase \notin {"preview_feedback", "correction"} /\ intent \in {"research", "both"} THEN "researcher" ELSE "builder"
Received(act, task) ==
  /\ saved' = [saved EXCEPT ![cyc.e] = [state |-> "received", task |-> task, role |-> Selected, act |-> act]]
  /\ UNCHANGED <<coord, work, note>>
Busy == ~Idle /\ cyc.held.role # "reviewer" /\ note[cyc.e] = "reviewer_talk"
Routed == /\ Where("choose") /\ ~Candidate /\ note[cyc.e] \notin Controls \cup {"status"}
          /\ ~(note[cyc.e] \in {"accept", "review"} /\ (Idle \/ cyc.held.role = "reviewer"))
          /\ ~(note[cyc.e] = "deploy" /\ (Idle \/ cyc.held.role = "deployer"))
RouteMessage ==
  LET c == cyc.held IN
  /\ Routed
  /\ IF Busy THEN Answer
     ELSE IF note[cyc.e] = "both" /\ Idle /\ Selected = "researcher" /\ c.handoff = None
     THEN SaveState([c EXCEPT !.handoff = "builder"], "choose") /\ UNCHANGED <<work, note>>
     ELSE IF note[cyc.e] = "files" /\ ~Idle
     THEN IF c.pending # 0 THEN Answer ELSE Received("start", c.task) /\ Moves("deferred")
     ELSE /\ IF Idle \/ c.plan # 0 \/ note[cyc.e] = "reviewer_talk" THEN Received("start", 0) ELSE Received("guide", c.task)
          /\ Moves("process")
Deferred == Where("deferred") /\ SaveState([cyc.held EXCEPT !.pending = cyc.e], "next") /\ UNCHANGED <<work, note>>
Process(t) ==
  /\ Where("process") /\ Processes(cyc.e, t)
  /\ cyc' = [cyc EXCEPT !.task = t, !.pc = "processed"] /\ UNCHANGED <<coord, note>>
Processed ==
  /\ Where("processed")
  /\ IF OpenTask(cyc.task) THEN SaveState(Working(cyc.held, cyc.task, work[cyc.task].role), "next")
     ELSE Moves("next") /\ UNCHANGED <<coord, saved>>
  /\ UNCHANGED <<work, note>>

(* An admission, a control or an attachment is refused; the process stops.  *)
Rejected == /\ cyc.pc \in {"dispatch", "handoff", "pending", "choose", "process"} \/ (Where("reconcile") /\ cyc.e # 0)
            /\ Reject /\ UNCHANGED <<work, note>>
Stops == ~Where("idle") /\ cyc' = AtEase /\ UNCHANGED <<coord, work, note, saved>>

ProjectNext ==
  \/ \E m \in Notes, intent \in Asks : OwnerWrites(m, intent)
  \/ \E t \in Tasks : (\E report \in Reports \cup {NoReport} : TaskCloses(t, report))
                      \/ \E m \in Notes : SpecialistIngress(m, t)
  \/ \E seen \in SUBSET Notes : BeginCycle(seen)
  \/ NextNote \/ ReconcileTask \/ Reconciled \/ Dispatched \/ HandedOver \/ Pended \/ Control \/ Stopped \/ AnswerControl
  \/ SavePlan \/ StatusAsked \/ Review \/ Deploy \/ RouteMessage \/ Deferred \/ Processed \/ Rejected \/ Stops
  \/ \E t \in Tasks : Dispatch(t) \/ Handoff(t) \/ Pending(t) \/ StartPlanning(t) \/ Process(t)
ProjectSpec == part = "project" /\ ProjectInit /\ [][ProjectNext /\ UNCHANGED part]_<<part, projectVars>>

-----------------------------------------------------------------------------
Reviewed(rev) == \E t \in Tasks : work[t].role = "reviewer" /\ work[t].report = [kind |-> "READY", rev |-> rev]
\* While there is a preview, READY and a healthy deployment are about it: some
\* Reviewer has found this very revision ready, however the work went on since.
\* And the planner of a message that counts as handled is the one the project
\* waits for as long as it runs, wherever the cycle was interrupted.
ProjectsArePrecise ==
  part = "project" =>
    /\ coord.preview # None /\ (coord.verdict = "READY" \/ coord.healthy) => Reviewed(coord.preview)
    /\ \A m \in Notes : saved[m].state = "planning" /\ OpenTask(saved[m].task) => coord.plan = saved[m].task
\* software-delivery-agents.md:111 "Reviewer READY requires the reviewed
\* revision to equal the preview revision": what is deployed was reviewed.
DeployedIsReviewed == coord.healthy => coord.preview # None /\ Reviewed(coord.preview)
=============================================================================
