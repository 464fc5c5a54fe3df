---------------------------- MODULE MCTaskEngine ----------------------------
(***************************************************************************)
(* The task engine on small instances, as corners of one state space: each  *)
(* corner names the threads, requests and faults that may have occurred in  *)
(* a state the search goes on from.                                         *)
(***************************************************************************)
EXTENDS TaskEngine

CONSTANTS t1, t2, d1, d2, o1, o2, c1, c2, k1, k2

MCResource == [t \in Tasks |-> "repository"]
MCWorkerOf == [d \in Drivers |-> "worker"]

Corner(tasks, actors, commands, controls, asks, gens, faults, claims) ==
  [asks |-> asks, gens |-> gens, tasks |-> tasks, actors |-> actors, commands |-> commands, controls |-> controls,
   faults |-> faults, claims |-> claims]

(* What has gone wrong in a state. *)
Faults ==
  {f \in {"grant", "expiry", "provider", "gateway", "doubt", "interrupted", "unmanaged"} :
     \E t \in Tasks :
       \/ f = "grant" /\ (~grant[t] \/ "grant_withdrawal" \in task[t].blockers)
       \/ f = "expiry" /\ \E g \in Attempts : att[t][g].expired
       \/ f = "provider" /\ "provider_unavailable" \in task[t].blockers
       \/ f = "gateway" /\ "runtime_unavailable" \in task[t].blockers
       \/ f = "doubt" /\ task[t].blockers \cap {"operation_unknown", "runtime_stop"} # {}
       \/ f = "interrupted" /\ \E g \in Attempts : run[t][g].state = "interrupted"
       \/ f = "unmanaged" /\ task[t].phase # "none" /\ ~work[t].managed}
Fits(c, faults, working, asked) ==
  /\ working \subseteq c.actors /\ faults \subseteq c.faults /\ asked \subseteq c.controls
  /\ {t \in Tasks : task[t].phase # "none"} \subseteq c.tasks
  /\ {k \in Commands : cmd[k].t # "none"} \subseteq c.commands
  /\ \A t \in Tasks : task[t].gen <= c.gens
  /\ \A t \in Tasks, g \in Attempts : run[t][g].asked <= c.asks /\ run[t][g].claim \in c.claims \cup {"none"}

Corners == {
  (* pauses, resumes and cancels of one task, over two attempts *)
  Corner({t1}, {d1, o1}, {k1, k2}, {}, 0, 2, {"doubt"}, {"delivered"}),
  (* two coordinators poll one run, which may end in doubt *)
  Corner({t1}, {d1, d2}, {}, {}, 0, 1, {"doubt", "interrupted"}, {"delivered"}),
  (* controls whose answers are lost, and a later permission request *)
  Corner({t1}, {d1, o1}, {}, {c1}, 2, 1, {}, {"delivered"}),
  (* two tasks on one resource *)
  Corner({t1, t2}, {d1}, {}, {}, 0, 1, {}, {"delivered"}),
  (* the grant is withdrawn, the key expires *)
  Corner({t1}, {d1, o1}, {k1}, {}, 0, 1, {"grant", "doubt"}, {"delivered"}),
  Corner({t1}, {d1, o1}, {k1}, {}, 0, 1, {"expiry", "doubt"}, {"delivered"}),
  (* the provider or the gateway is down while a cancel is settled *)
  Corner({t1}, {d1, o1}, {k1}, {}, 0, 1, {"provider", "gateway"}, {"delivered"}),
  (* a task without work; two owners of a task *)
  Corner({t1}, {d1, o1}, {}, {}, 0, 1, {"unmanaged"}, {"delivered"}),
  Corner({t1}, {d1, o1, o2}, {k1, k2}, {}, 0, 1, {}, {"delivered"}),
  (* what a run may say of its work *)
  Corner({t1}, {d1}, {}, {}, 0, 1, {}, Claims)
 }
InTask ==
  LET faults == Faults
      working == {a \in Actors : act[a].pc # "idle"}
      asked == {e \in Controls : ctl[e].t # "none"}
  IN \E c \in Corners : Fits(c, faults, working, asked)
=============================================================================
