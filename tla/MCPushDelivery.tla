--------------------------- MODULE MCPushDelivery ---------------------------
(***************************************************************************)
(* Instances of PushDelivery for TLC.  One run covers several corners of   *)
(* an instance: a corner bounds how much of the environment takes part,    *)
(* and the run explores every state that fits into one of the corners.     *)
(* The corners of the progress run bound only what no step of a pass       *)
(* increases, so that they take nothing from the fairness of a pass.       *)
(***************************************************************************)
EXTENDS PushDelivery, TLC

Used == {i \in Installation :
  device[i] # NULL \/ \E q \in Registration : request[q] # NULL /\ request[q].installation = i}

\* Where one handset takes part, it is this one.
Given(S) == CHOOSE x \in S : TRUE

\* The last times for anything and for a login, turns, notices published,
\* handsets, sessions, sessions revoked, requests in flight, observers in a
\* pass, generations, and failed passes.
Corner(t, l, r, n, h, s, v, q, p, g, f) == [
  time |-> t, login |-> l, replies |-> r, notices |-> n, handsets |-> h,
  sessions |-> s, revoked |-> v, requests |-> q, observers |-> p,
  generation |-> g, failures |-> f]

Fits(c) ==
  /\ now <= c.time
  /\ lastSeq <= c.replies
  /\ failures <= c.failures
  /\ Cardinality({p \in Process : pc[p] # "rest"}) <= c.observers
  /\ Cardinality({q \in Registration : request[q] # NULL}) <= c.requests
  /\ \A s \in Session : session[s].end <= Absolute + c.login
  /\ Cardinality({s \in Session : session[s].state # "absent"}) <= c.sessions
  /\ Cardinality({s \in Session : session[s].state = "revoked"}) <= c.revoked
  /\ Cardinality({n \in Notice : status[n] # "absent"}) <= c.notices
  /\ IF c.handsets = 1 THEN Used \subseteq {Given(Installation)} ELSE Cardinality(Used) <= c.handsets
  /\ \A i \in Installation : device[i] # NULL => device[i].generation <= c.generation

\* One handset.  Two sessions and two observers at one moment; two sessions
\* and a retry; time that passes the life of a delivery; a pass overtaken by
\* another; a notice and two sessions. Then two notices; and two handsets for
\* one place.
SafetyCorners == {
  Corner(0, 0, 1, 0, 1, 2, 1, 1, 2, 2, 1),
  Corner(1, 1, 1, 0, 1, 2, 1, 1, 1, 1, 0),
  Corner(2, 0, 1, 0, 1, 1, 0, 1, 1, 1, 0),
  Corner(1, 0, 1, 0, 1, 1, 0, 1, 2, 1, 0),
  Corner(1, 0, 0, 1, 1, 2, 1, 1, 1, 2, 0),
  Corner(1, 0, 0, 2, 1, 1, 0, 1, 1, 1, 0),
  Corner(1, 0, 0, 0, 2, 2, 0, 1, 0, 2, 0)}

\* A reply to two handsets; two replies with a pass broken off; a reply and a
\* notice that is held.
ProgressCorners == {
  Corner(0, 0, 1, 0, 2, 1, 0, 1, 1, 1, 0),
  Corner(0, 0, 2, 0, 1, 1, 0, 1, 1, 1, 1),
  Corner(1, 0, 1, 1, 1, 1, 0, 1, 1, 1, 0)}

\* A first turn's reply, seen by two observers until its rows and then its
\* device are old enough to be deleted, and what is registered after that.
Aged ==
  /\ Fits(Corner(6, 0, 1, 0, 1, 1, 0, 1, 2, 1, 0))
  /\ now > 0 => lastSeq > 0 /\ born[1] = 0
  /\ now \in 1..Retention => \A q \in Registration : request[q] = NULL

InSafetyCorner == Aged \/ \E c \in SafetyCorners : Fits(c)
InProgressCorner == \E c \in ProgressCorners : Fits(c)

\* Sessions and processes are interchangeable.
Symmetry == Permutations(Session) \cup Permutations(Process)

=============================================================================
