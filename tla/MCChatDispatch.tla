--------------------------- MODULE MCChatDispatch ---------------------------
(***************************************************************************)
(* Small instances of ChatDispatch for TLC.  The run `service' covers      *)
(* several corners of an instance: a corner bounds how much takes part,    *)
(* and the run explores every state that fits into one of the corners.     *)
(***************************************************************************)
EXTENDS ChatDispatch, TLC

Turns == {r \in Request : Present(r) \/ \E v \in Service : leader[v][r] # "idle"}

Busy(v) ==
  \/ watch[v] # "idle"
  \/ \E r \in Request :
       leader[v][r] # "idle" \/ origin[v][r] # "owner" \/ checkedAt[v][r] # 0

\* Turns without and with documents, services, POSTs, runs reported running,
\* the last time, and crashes.
Corner(plain, documented, services, posts, running, time, failures) == [
  plain |-> plain, documented |-> documented, services |-> services,
  posts |-> posts, running |-> running, time |-> time, crashes |-> failures]

\* The end of an observer is followed in `progress'; what the others check does
\* not depend on who begins a poll.
Fits(c) ==
  /\ \A v \in Service : observing[v]
  /\ clock <= c.time
  /\ crashes <= c.crashes
  /\ Cardinality({p \in Run : post[p] # "unused"}) <= c.posts
  /\ Cardinality({p \in Run : run[p] = "running"}) <= c.running
  /\ Cardinality(Turns \ Documented) <= c.plain
  /\ Cardinality(Turns \cap Documented) <= c.documented
  /\ Cardinality({v \in Service : Busy(v)}) <= c.services

\* Two POSTs of one turn while time passes the window and the retention, three
\* while it passes the window; a turn with a model choice and documents, with a
\* crash; two web processes on one store.
Corners == {
  Corner(1, 0, 1, 2, 0, 5, 0),
  Corner(1, 0, 1, 3, 0, 3, 0),
  Corner(0, 1, 1, 2, 1, 1, 1),
  Corner(1, 0, 2, 2, 0, 0, 0)}

InCorner == \E c \in Corners : Fits(c)

\* The run `queue': two turns and two threads with a crash, or three turns, a
\* thread at a time and no crash.
InQueueCorner ==
  /\ \A v \in Service : observing[v]
  /\ \/ Cardinality(Turns) <= 2
     \/ /\ crashes = 0
        /\ Cardinality({r \in Request : \E v \in Service : leader[v][r] # "idle"}) <= 1

\* No action names a service; nor a request, where all are alike.
ServiceSymmetry == Permutations(Service)
Symmetry == Permutations(Request) \cup ServiceSymmetry

=============================================================================
