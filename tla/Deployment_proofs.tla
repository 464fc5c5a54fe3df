-------------------------- MODULE Deployment_proofs --------------------------
(***************************************************************************)
(* Promises of the deployment for every behaviour and every value of the    *)
(* constants. The invariant of a part holds wherever that part runs:        *)
(* Next keeps the part, and gives its state to that part's steps alone.     *)
(***************************************************************************)
EXTENDS Deployment, DeploymentParts_proofs, BrowserParts_proofs

USE MailAssumption

(* A linked conversation. *)
Acts == {None, "start", "guide", "status", "clarify"}
MailRoutes == {r \in [act : Acts, task : 0..Count, rev : Nat] : r.act = "guide" => r.task # 0}
MailRows == [state : {"none", "received", "done"}, route : MailRoutes, task : 0..Count]
MailJobs == [phase : {"none", "queued", "active", "closed"}, rev : Nat, said : Nat]
MailEvents == [event : Nat, parent : 0..Count, sent : BOOLEAN, refused : BOOLEAN]
MailTurns == [pc : {"idle", "next", "receive", "process", "command", "complete"}, e : 0..Count, todo : SUBSET Mail, last : BOOLEAN]
MailTypes ==
  /\ post \in [Mail -> [src : {None, "buzz", "web"}, intent : Intents \cup {None}, reply : 0..Count]]
  /\ msg \in [Mail -> MailRows] /\ job \in [Mail -> MailJobs] /\ guides \in [Mail -> SUBSET Mail] /\ settled \subseteq Mail
  /\ outbox \in [Ids -> MailEvents] /\ signed \in Nat
  /\ turn \in [Receivers -> MailTurns] /\ egress.todo \subseteq Ids
\* What a thread has taken up is received.
MailTurnInv ==
  \A th \in Receivers : /\ turn[th].pc \in {"receive", "process", "command", "complete"} => turn[th].e \in Mail
                        /\ turn[th].pc \in {"process", "command", "complete"} => msg[turn[th].e].state # "none"
\* What was done for a message, by the route that was frozen.
ActedAs(e) ==
  /\ job[e].phase # "none" => msg[e].state # "none" /\ msg[e].route.act = "start"
  /\ \A t \in Mail : e \in guides[t] => msg[e].state # "none" /\ msg[e].route.act = "guide" /\ msg[e].route.task = t
AnsweredAs(e) ==
  /\ msg[e].state = "done" => <<"reply", e>> \in answers \/ <<"outcome", e>> \in answers
  /\ <<"reply", e>> \in answers \/ <<"outcome", e>> \in answers => msg[e].state # "none"
\* What the relay has is the event that was retained.
RelayInv ==
  /\ \A x \in onRelay : x[1] \in Ids /\ x = <<x[1], outbox[x[1]].event>> /\ outbox[x[1]].event # 0
  /\ \A m \in egress.todo : outbox[m].event # 0
  /\ \A m \in Ids : outbox[m].event # 0 /\ m[1] \in {"reply", "outcome"} => outbox[m].parent = m[2]
MailInv == MailTypes /\ MailTurnInv /\ (\A e \in Mail : ActedAs(e) /\ AnsweredAs(e)) /\ RelayInv

\* The first state.
LEMMA MailBegins == MailInit => MailInv
<1> SUFFICES ASSUME MailInit PROVE MailInv
  OBVIOUS
<1>1. NoRoute \in MailRoutes
  BY DEF NoRoute, MailRoutes, Acts, None
<1>2. NoRow \in MailRows /\ NoRow.state = "none"
  BY <1>1 DEF NoRow, MailRows
<1>3. NoJob \in MailJobs /\ NoJob.phase = "none"
  BY DEF NoJob, MailJobs
<1>4. NoEvent \in MailEvents /\ NoEvent.event = 0
  BY DEF NoEvent, MailEvents
<1>5. Resting \in MailTurns /\ Resting.pc = "idle"
  BY DEF Resting, MailTurns
<1>6. MailTypes
  <2>1. post \in [Mail -> [src : {None, "buzz", "web"}, intent : Intents \cup {None}, reply : 0..Count]]
    BY DEF MailInit, NoPost
  <2>2. egress.todo \subseteq Ids /\ signed \in Nat /\ settled \subseteq Mail /\ guides \in [Mail -> SUBSET Mail]
    BY DEF MailInit, Quiet
  <2>3. msg \in [Mail -> MailRows] /\ job \in [Mail -> MailJobs]
    BY <1>2, <1>3 DEF MailInit
  <2>4. outbox \in [Ids -> MailEvents] /\ turn \in [Receivers -> MailTurns]
    BY <1>4, <1>5 DEF MailInit
  <2> QED
    BY <2>1, <2>2, <2>3, <2>4 DEF MailTypes
<1>7. MailTurnInv
  BY <1>5 DEF MailInit, MailTurnInv
<1>8. \A e \in Mail : ActedAs(e) /\ AnsweredAs(e)
  BY <1>2, <1>3 DEF MailInit, ActedAs, AnsweredAs
<1>9. RelayInv
  BY <1>4 DEF MailInit, RelayInv, Quiet
<1> QED
  BY <1>6, <1>7, <1>8, <1>9 DEF MailInv

\* A set of messages has a last one.
LEMMA LastOfMail ==
  ASSUME NEW S \in SUBSET Mail, S # {}
  PROVE  (CHOOSE e \in S : \A f \in S : f <= e) \in S
<1>1. PICK b \in S : TRUE
  OBVIOUS
<1>6. \A e \in S : Count - e \in Nat
  BY DEF Mail
<1>2. PICK T \in SUBSET Nat : T = {Count - e : e \in S}
  BY <1>6
<1>7. T # {}
  BY <1>1, <1>2
<1>5. PICK n \in T : \A k \in T : n <= k
  BY <1>7, LeastRow
<1>3. PICK e \in S : Count - e = n
  BY <1>2, <1>5
<1>4. \A f \in S : f <= e
  <2> SUFFICES ASSUME NEW f \in S, f > e PROVE FALSE
    BY DEF Mail
  <2>1. Count - f \in T
    BY <1>2
  <2>2. Count - f < n /\ n \in Nat /\ Count - f \in Nat
    BY <1>2, <1>3, <1>6 DEF Mail
  <2> QED
    BY <1>5, <2>1, <2>2
<1> QED
  BY <1>4

\* What is asked of a task, or of none.
LEMMA RoutesTo ==
  ASSUME MailTypes, NEW act \in Acts, NEW t \in 0..Count, act = "guide" => t # 0
  PROVE  To(act, t) \in MailRoutes
<1>1. act = "guide" => job[t].rev \in Nat
  <2>1. act = "guide" => t \in Mail
    BY DEF Mail
  <2> QED
    BY <2>1 DEF MailTypes, MailJobs
<1>2. (IF act = "guide" THEN job[t].rev ELSE 0) \in Nat
  BY <1>1
<1> QED
  BY <1>2 DEF To, MailRoutes

\* A route is for a task that exists, or for none.
LEMMA RouteKnown ==
  ASSUME MailTypes, NEW e \in Mail
  PROVE  Route(e) \in MailRoutes
<1>1. ASSUME NEW intent, NEW t \in 0..Count
      PROVE  TaskRoute(intent, t) \in MailRoutes
  <2>1. "status" \in Acts /\ "start" \in Acts /\ "clarify" \in Acts /\ "guide" \in Acts /\ 0 \in 0..Count
    BY DEF Acts
  <2>2. To("status", t) \in MailRoutes /\ To("start", 0) \in MailRoutes /\ To("clarify", 0) \in MailRoutes
    BY <2>1, RoutesTo
  <2>3. t # 0 => To("guide", t) \in MailRoutes
    BY <2>1, RoutesTo
  <2> QED
    BY <2>2, <2>3 DEF TaskRoute
<1>2. To("start", 0) \in MailRoutes /\ To("clarify", 0) \in MailRoutes
  <2>1. "start" \in Acts /\ "clarify" \in Acts /\ 0 \in 0..Count
    BY DEF Acts
  <2> QED
    BY <2>1, RoutesTo
<1>3. PICK intent, reply : intent = post[e].intent /\ reply = post[e].reply
  OBVIOUS
<1>4. reply \in 0..Count
  BY <1>3 DEF MailTypes
<1>5. reply # 0 => msg[reply].task \in 0..Count
  <2>1. reply # 0 => reply \in Mail
    BY <1>4 DEF Mail
  <2> QED
    BY <2>1 DEF MailTypes, MailRows
<1>6. Focus \in 0..Count
  <2>1. CASE Chosen = {}
    BY <2>1 DEF Focus
  <2>2. CASE Chosen # {}
    <3>1. (CHOOSE f \in Chosen : \A g \in Chosen : g <= f) \in Chosen
      BY <2>2, LastOfMail DEF Chosen
    <3>2. PICK f \in Mail : f = CHOOSE x \in Chosen : \A g \in Chosen : g <= x
      BY <3>1 DEF Chosen
    <3>3. Focus = msg[f].task
      BY <2>2, <3>2 DEF Focus
    <3> QED
      BY <3>2, <3>3 DEF MailTypes, MailRows
  <2> QED
    BY <2>1, <2>2
<1>7. PICK active \in SUBSET Mail : active = {t \in Known : Open(t)}
  BY DEF Known
<1>8. PICK t \in 0..Count : t = IF active # {} THEN CHOOSE u \in active : TRUE ELSE Focus
  BY <1>6, <1>7 DEF Mail
<1>9. TaskRoute(intent, t) \in MailRoutes /\ TaskRoute(intent, 0) \in MailRoutes /\ (reply # 0 => TaskRoute(intent, msg[reply].task) \in MailRoutes)
  BY <1>1, <1>5
<1>10. \/ Route(e) \in {To("start", 0), To("clarify", 0), TaskRoute(intent, 0), TaskRoute(intent, t)}
       \/ reply # 0 /\ Route(e) = TaskRoute(intent, msg[reply].task)
  BY <1>3, <1>7, <1>8 DEF Route
<1> QED
  BY <1>2, <1>9, <1>10

-----------------------------------------------------------------------------
\* A step that acts on no message: rows, tasks and guidance stay what they
\* were to a message, answers only grow, and so does what is signed.
LEMMA MailStands ==
  ASSUME MailInv, MailTypes', MailTurnInv', UNCHANGED <<msg, guides>>, answers \subseteq answers',
         \A e \in Mail : job'[e].phase # "none" => job[e].phase # "none",
         \A e \in Mail : <<"reply", e>> \in answers' \/ <<"outcome", e>> \in answers' => msg[e].state # "none",
         RelayInv'
  PROVE  MailInv'
<1>1. \A e \in Mail : ActedAs(e)'
  BY DEF MailInv, ActedAs
<1>2. \A e \in Mail : AnsweredAs(e)'
  BY DEF MailInv, AnsweredAs
<1> QED
  BY <1>1, <1>2 DEF MailInv

\* The owner writes; a task goes on.
LEMMA OutsideKeeps ==
  ASSUME MailInv,
         \/ \E e \in Mail, intent \in Intents, reply \in 0..Count : Post(e, intent, reply)
         \/ \E t \in Mail : \E phase \in {"active", "closed"} : TaskMoves(t, phase)
         \/ \E t, e \in Mail : GuidanceSettles(t, e)
  PROVE  MailInv'
<1>1. MailTypes
  BY DEF MailInv
<1>2. /\ UNCHANGED <<msg, guides, answers, outbox, signed, onRelay, turn, egress>>
      /\ post' \in [Mail -> [src : {None, "buzz", "web"}, intent : Intents \cup {None}, reply : 0..Count]] /\ settled' \subseteq Mail
      /\ job' \in [Mail -> MailJobs] /\ \A e \in Mail : job'[e].phase # "none" => job[e].phase # "none"
  <2>1. CASE \E e \in Mail, intent \in Intents, reply \in 0..Count : Post(e, intent, reply)
    BY <1>1, <2>1 DEF Post, MailTypes
  <2>2. CASE \E t \in Mail : \E phase \in {"active", "closed"} : TaskMoves(t, phase)
    <3>1. PICK t \in Mail, phase \in {"active", "closed"} : TaskMoves(t, phase)
      BY <2>2
    <3>2. job[t] \in MailJobs /\ job \in [Mail -> MailJobs]
      BY <1>1 DEF MailTypes
    <3>3. job[t].rev + 1 \in Nat /\ job[t].phase # "none"
      BY <3>1, <3>2 DEF MailJobs, TaskMoves, Open
    <3>4. PICK x \in MailJobs : x = [job[t] EXCEPT !.phase = phase, !.rev = job[t].rev + 1]
      BY <3>2, <3>3 DEF MailJobs
    <3>5. job' = [job EXCEPT ![t] = x]
      BY <3>1, <3>2, <3>4 DEF TaskMoves
    <3> QED
      BY <1>1, <3>1, <3>2, <3>3, <3>5 DEF TaskMoves, MailTypes
  <2>3. CASE \E t, e \in Mail : GuidanceSettles(t, e)
    <3>1. PICK t \in Mail, e \in Mail : GuidanceSettles(t, e)
      BY <2>3
    <3>2. job[t] \in MailJobs /\ job \in [Mail -> MailJobs]
      BY <1>1 DEF MailTypes
    <3>3. job[t].rev + 1 \in Nat
      BY <3>2 DEF MailJobs
    <3>4. PICK x \in MailJobs : x = [job[t] EXCEPT !.rev = job[t].rev + 1]
      BY <3>2, <3>3 DEF MailJobs
    <3>5. job' = [job EXCEPT ![t] = x] /\ x.phase = job[t].phase
      BY <3>1, <3>2, <3>4 DEF GuidanceSettles, MailJobs
    <3>6. job' \in [Mail -> MailJobs] /\ \A f \in Mail : job'[f].phase # "none" => job[f].phase # "none"
      BY <3>2, <3>5
    <3>7. settled' \subseteq Mail
      BY <1>1, <3>1 DEF GuidanceSettles, MailTypes
    <3> QED
      BY <1>1, <3>1, <3>6, <3>7 DEF GuidanceSettles, MailTypes
  <2> QED
    BY <2>1, <2>2, <2>3
<1>3. MailTypes'
  BY <1>1, <1>2 DEF MailTypes
<1>4. MailTurnInv' /\ RelayInv'
  BY <1>2 DEF MailInv, MailTurnInv, RelayInv
<1>5. \A e \in Mail : <<"reply", e>> \in answers' \/ <<"outcome", e>> \in answers' => msg[e].state # "none"
  BY <1>2 DEF MailInv, AnsweredAs
<1> QED
  BY <1>2, <1>3, <1>4, <1>5, MailStands

-----------------------------------------------------------------------------
\* A thread that goes on, and does nothing yet.
LEMMA ThreadGoesOn ==
  ASSUME MailInv, NEW th \in Receivers, NEW x \in MailTurns, turn' = [turn EXCEPT ![th] = x],
         UNCHANGED <<msg, job, guides, settled, answers, outbox, signed, onRelay, egress>>,
         post' \in [Mail -> [src : {None, "buzz", "web"}, intent : Intents \cup {None}, reply : 0..Count]],
         x.pc \in {"receive", "process", "command", "complete"} => x.e \in Mail,
         x.pc \in {"process", "command", "complete"} => msg[x.e].state # "none"
  PROVE  MailInv'
<1>1. MailTypes'
  BY DEF MailInv, MailTypes
<1>2. MailTurnInv'
  BY DEF MailInv, MailTypes, MailTurnInv
<1>3. RelayInv'
  BY DEF MailInv, RelayInv
<1>4. \A e \in Mail : <<"reply", e>> \in answers' \/ <<"outcome", e>> \in answers' => msg[e].state # "none"
  BY DEF MailInv, AnsweredAs
<1> QED
  BY <1>1, <1>2, <1>3, <1>4, MailStands

\* A cycle begins, a request is made, the next message is taken up, a thread
\* stops.
LEMMA ThreadsKeep ==
  ASSUME MailInv,
         \/ \E seen \in SUBSET Mail : BeginIngress(seen)
         \/ \E e \in Mail, intent \in Intents, reply \in 0..Count : SubmitMessage(e, intent, reply)
         \/ \E th \in Receivers : NextMessage(th) \/ ProcessBegins(th) \/ Abandon(th)
  PROVE  MailInv'
<1>1. MailTypes /\ turn \in [Receivers -> MailTurns] /\ post \in [Mail -> [src : {None, "buzz", "web"}, intent : Intents \cup {None}, reply : 0..Count]]
  BY DEF MailInv, MailTypes
<1>2. Resting \in MailTurns /\ Resting.pc = "idle"
  BY DEF Resting, MailTurns
<1>3. CASE \E seen \in SUBSET Mail : BeginIngress(seen)
  <2>1. PICK seen \in SUBSET Mail : BeginIngress(seen)
    BY <1>3
  <2>4. 0 \in 0..Count
    OBVIOUS
  <2>2. PICK x \in MailTurns : x = [pc |-> "next", e |-> 0, todo |-> seen, last |-> FALSE]
    BY <2>4 DEF MailTurns
  <2>3. x.pc = "next" /\ "ingress" \in Receivers
    BY <2>2 DEF Receivers
  <2> QED
    BY <1>1, <2>1, <2>2, <2>3, ThreadGoesOn DEF BeginIngress
<1>4. CASE \E e \in Mail, intent \in Intents, reply \in 0..Count : SubmitMessage(e, intent, reply)
  <2>1. PICK e \in Mail, intent \in Intents, reply \in 0..Count : SubmitMessage(e, intent, reply)
    BY <1>4
  <2>6. e \in 0..Count
    BY DEF Mail
  <2>2. PICK x \in MailTurns : x = [pc |-> "receive", e |-> e, todo |-> {}, last |-> TRUE]
    BY <2>6 DEF MailTurns
  <2>3. x.pc = "receive" /\ x.e = e /\ "web" \in Receivers
    BY <2>2 DEF Receivers
  <2>4. post' \in [Mail -> [src : {None, "buzz", "web"}, intent : Intents \cup {None}, reply : 0..Count]]
    BY <1>1, <2>1 DEF SubmitMessage
  <2>5. turn' = [turn EXCEPT !["web"] = x] /\ UNCHANGED <<msg, job, guides, settled, answers, outbox, signed, onRelay, egress>>
    BY <2>1, <2>2 DEF SubmitMessage
  <2> QED
    BY <2>3, <2>4, <2>5, ThreadGoesOn
<1>5. CASE \E th \in Receivers : NextMessage(th)
  <2>1. PICK th \in Receivers : NextMessage(th)
    BY <1>5
  <2>2. PICK q \in MailTurns : q = turn[th] /\ q.pc = "next"
    BY <1>1, <2>1 DEF NextMessage, InStep
  <2>3. UNCHANGED <<post, msg, job, guides, settled, answers, outbox, signed, onRelay, egress>>
    BY <2>1 DEF NextMessage
  <2>4. CASE q.todo # {}
    <3>1. q.todo \in SUBSET Mail
      BY DEF MailTurns
    <3>2. PICK e \in Mail : e = FirstOf(q.todo)
      <4>1. \E e \in q.todo : \A f \in q.todo : e <= f
        BY <2>4, <3>1, LeastRow DEF Mail
      <4>2. FirstOf(q.todo) \in q.todo
        BY <4>1 DEF FirstOf
      <4> QED
        BY <3>1, <4>2
    <3>3. PICK pc \in {"next", "process", "receive"} :
            pc = CASE msg[e].state = "done" -> "next" [] msg[e].state = "received" -> "process" [] OTHER -> "receive"
      OBVIOUS
    <3>12. e \in 0..Count
      BY DEF Mail
    <3>4. PICK x1 \in MailTurns : x1 = [q EXCEPT !.e = e]
      BY <3>12 DEF MailTurns
    <3>5. PICK T \in SUBSET Mail : T = q.todo \ {e}
      BY <3>1
    <3>6. PICK x2 \in MailTurns : x2 = [x1 EXCEPT !.todo = T]
      BY DEF MailTurns
    <3>7. PICK x \in MailTurns : x = [x2 EXCEPT !.pc = pc]
      BY DEF MailTurns
    <3>8. x = [q EXCEPT !.e = e, !.todo = T, !.pc = pc]
      BY <3>4, <3>6, <3>7 DEF MailTurns
    <3>9. x.pc = pc /\ x.e = e
      BY <3>4, <3>6, <3>7 DEF MailTurns
    <3>13. [turn[th] EXCEPT !.e = FirstOf(q.todo), !.todo = q.todo \ {FirstOf(q.todo)},
                   !.pc = CASE msg[FirstOf(q.todo)].state = "done" -> "next"
                            [] msg[FirstOf(q.todo)].state = "received" -> "process" [] OTHER -> "receive"] = x
      BY <2>2, <3>2, <3>3, <3>5, <3>8
    <3>10. turn' = [turn EXCEPT ![th] = x]
      <4>1. turn[th].todo # {}
        BY <2>2, <2>4
      <4>2. turn' = [turn EXCEPT ![th] = [turn[th] EXCEPT !.e = FirstOf(turn[th].todo), !.todo = turn[th].todo \ {FirstOf(turn[th].todo)},
                       !.pc = CASE msg[FirstOf(turn[th].todo)].state = "done" -> "next"
                                [] msg[FirstOf(turn[th].todo)].state = "received" -> "process" [] OTHER -> "receive"]]
        BY <2>1, <4>1, Zenon DEF NextMessage
      <4> QED
        BY <2>2, <3>13, <4>2
    <3>11. pc = "process" => msg[e].state # "none"
      BY <3>3
    <3> QED
      BY <1>1, <2>3, <3>9, <3>10, <3>11, ThreadGoesOn
  <2>5. CASE q.todo = {}
    <3>1. PICK T \in SUBSET Mail : T = {e \in Mail : msg[e].state = "received"}
      OBVIOUS
    <3>2. PICK x \in MailTurns : x = [q EXCEPT !.todo = T, !.last = TRUE]
      BY DEF MailTurns
    <3>3. x.pc = "next"
      BY <2>2, <3>2 DEF MailTurns
    <3>4. turn' = [turn EXCEPT ![th] = x] \/ turn' = [turn EXCEPT ![th] = Resting]
      BY <1>1, <2>1, <2>2, <2>5, <3>1, <3>2 DEF NextMessage
    <3> QED
      BY <1>1, <1>2, <2>3, <3>3, <3>4, ThreadGoesOn
  <2> QED
    BY <2>4, <2>5
<1>6. CASE \E th \in Receivers : ProcessBegins(th)
  <2>1. PICK th \in Receivers : ProcessBegins(th)
    BY <1>6
  <2>2. PICK q \in MailTurns : q = turn[th] /\ q.pc = "process"
    BY <1>1, <2>1 DEF ProcessBegins, InStep
  <2>3. PICK pc \in {"next", "command"} : turn' = [turn EXCEPT ![th].pc = pc]
    BY <2>1 DEF ProcessBegins, Goto
  <2>4. PICK x \in MailTurns : x = [q EXCEPT !.pc = pc]
    BY DEF MailTurns
  <2>5. x.pc = pc /\ x.e = q.e /\ turn' = [turn EXCEPT ![th] = x]
    BY <1>1, <2>2, <2>3, <2>4 DEF MailTurns
  <2>6. q.e \in Mail /\ msg[q.e].state # "none"
    BY <2>2 DEF MailInv, MailTurnInv
  <2> QED
    BY <1>1, <2>1, <2>5, <2>6, ThreadGoesOn DEF ProcessBegins
<1>7. CASE \E th \in Receivers : Abandon(th)
  BY <1>1, <1>2, <1>7, ThreadGoesOn DEF Abandon
<1> QED
  BY <1>3, <1>4, <1>5, <1>6, <1>7

-----------------------------------------------------------------------------
\* A message is received: the route is taken once, and nothing was done for it
\* before.
LEMMA ReceiveKeeps ==
  ASSUME MailInv, NEW th \in Receivers, Receive(th)
  PROVE  MailInv'
<1>1. MailTypes /\ turn \in [Receivers -> MailTurns] /\ msg \in [Mail -> MailRows]
  BY DEF MailInv, MailTypes
<1>2. PICK q \in MailTurns : q = turn[th] /\ q.pc = "receive" /\ q.e \in Mail
  BY <1>1 DEF Receive, InStep, MailInv, MailTurnInv
<1>3. PICK e \in Mail : e = q.e
  BY <1>2
<1>4. /\ UNCHANGED <<post, job, guides, settled, outbox, signed, onRelay, egress>>
      /\ \/ msg[e].state # "none" /\ Goto(th, "process") /\ UNCHANGED <<msg, answers>>
         \/ msg[e].state = "none" /\ RejectMessage(e) /\ Goto(th, "next")
         \/ /\ msg[e].state = "none" /\ msg' = [msg EXCEPT ![e] = [NoRow EXCEPT !.state = "received", !.route = Route(e)]]
            /\ Goto(th, "process") /\ UNCHANGED answers
  BY <1>2, <1>3 DEF Receive
<1>5. PICK pc \in {"process", "next"} : Goto(th, pc)
  BY <1>4
<1>6. PICK x \in MailTurns : x = [q EXCEPT !.pc = pc]
  BY DEF MailTurns
<1>7. x.pc = pc /\ x.e = e /\ turn' = [turn EXCEPT ![th] = x]
  BY <1>1, <1>2, <1>3, <1>5, <1>6 DEF MailTurns, Goto
<1>8. CASE msg[e].state # "none" /\ UNCHANGED <<msg, answers>>
  BY <1>1, <1>3, <1>4, <1>7, <1>8, ThreadGoesOn DEF MailTypes
<1>9. CASE msg[e].state = "none" /\ (RejectMessage(e) \/ (/\ msg' = [msg EXCEPT ![e] = [NoRow EXCEPT !.state = "received", !.route = Route(e)]]
                                                         /\ UNCHANGED answers))
  <2>1. PICK row \in MailRows : /\ msg' = [msg EXCEPT ![e] = row] /\ row.state # "none"
                                /\ \/ row.state = "done" /\ answers' = answers \cup {<<"reply", e>>}
                                   \/ row.state = "received" /\ answers' = answers
    <3>1. NoRow.task = 0 /\ 0 \in 0..Count
      BY DEF NoRow
    <3>2. CASE RejectMessage(e)
      <4>1. NoRoute \in MailRoutes
        BY DEF NoRoute, MailRoutes, Acts, None
      <4>2. PICK row \in MailRows : row = [NoRow EXCEPT !.state = "done"]
        BY <3>1, <4>1 DEF NoRow, MailRows
      <4>3. row.state = "done"
        BY <4>2 DEF NoRow
      <4> QED
        BY <3>2, <4>2, <4>3 DEF RejectMessage, Settled
    <3>3. CASE msg' = [msg EXCEPT ![e] = [NoRow EXCEPT !.state = "received", !.route = Route(e)]] /\ UNCHANGED answers
      <4>1. PICK route \in MailRoutes : route = Route(e)
        BY <1>1, RouteKnown
      <4>2. PICK row \in MailRows : row = [NoRow EXCEPT !.state = "received", !.route = route]
        BY <3>1, <4>1 DEF NoRow, MailRows
      <4>3. row.state = "received"
        BY <4>2 DEF NoRow
      <4> QED
        BY <3>3, <4>1, <4>2, <4>3
    <3> QED
      BY <1>9, <3>2, <3>3
  <2>2. msg' \in [Mail -> MailRows] /\ msg'[e] = row /\ \A f \in Mail : f # e => msg'[f] = msg[f]
    BY <1>1, <2>1
  <2>3. MailTypes'
    BY <1>1, <1>4, <1>7, <2>2 DEF MailTypes
  <2>4. MailTurnInv'
    <3>1. \A f \in Mail : msg[f].state # "none" => msg'[f].state # "none"
      BY <2>1, <2>2
    <3>2. \A t \in Receivers : turn'[t] = turn[t] \/ (turn'[t].e = e /\ msg'[e].state # "none")
      BY <1>1, <1>7, <2>1, <2>2
    <3> QED
      BY <3>1, <3>2 DEF MailInv, MailTurnInv
  <2>5. \A f \in Mail : ActedAs(f)'
    <3> SUFFICES ASSUME NEW f \in Mail PROVE ActedAs(f)'
      OBVIOUS
    <3>1. ActedAs(f)
      BY DEF MailInv
    <3> QED
      BY <1>4, <1>9, <2>2, <3>1 DEF ActedAs
  <2>6. \A f \in Mail : AnsweredAs(f)'
    <3> SUFFICES ASSUME NEW f \in Mail PROVE AnsweredAs(f)'
      OBVIOUS
    <3>1. AnsweredAs(f)
      BY DEF MailInv
    <3>2. CASE f = e
      BY <2>1, <2>2, <3>1, <3>2, <1>9 DEF AnsweredAs
    <3>3. CASE f # e
      BY <2>1, <2>2, <3>1, <3>3 DEF AnsweredAs
    <3> QED
      BY <3>2, <3>3
  <2>7. RelayInv'
    BY <1>4 DEF MailInv, RelayInv
  <2> QED
    BY <2>3, <2>4, <2>5, <2>6, <2>7 DEF MailInv
<1> QED
  BY <1>4, <1>8, <1>9

\* What a message asked for is done under its key.
LEMMA CommandKeeps ==
  ASSUME MailInv, NEW th \in Receivers, Command(th)
  PROVE  MailInv'
<1>1. MailTypes /\ turn \in [Receivers -> MailTurns] /\ job \in [Mail -> MailJobs] /\ guides \in [Mail -> SUBSET Mail]
  BY DEF MailInv, MailTypes
<1>2. PICK q \in MailTurns : q = turn[th] /\ q.pc = "command" /\ q.e \in Mail /\ msg[q.e].state # "none"
  BY <1>1 DEF Command, InStep, MailInv, MailTurnInv
<1>3. PICK e \in Mail : e = q.e
  BY <1>2
<1>4. PICK route \in MailRoutes : route = msg[e].route
  BY <1>1 DEF MailTypes, MailRows
<1>5. PICK x \in MailTurns : x = [q EXCEPT !.pc = "complete"]
  BY DEF MailTurns
<1>6. x.pc = "complete" /\ x.e = e /\ turn' = [turn EXCEPT ![th] = x]
  BY <1>1, <1>2, <1>3, <1>5 DEF MailTurns, Command, Goto
<1>7. /\ UNCHANGED <<post, msg, settled, answers, outbox, signed, onRelay, egress>>
      /\ \/ /\ route.act = "start" /\ job' = [job EXCEPT ![e] = [phase |-> "queued", rev |-> 1, said |-> 0]] /\ UNCHANGED guides
         \/ /\ route.act = "guide" /\ job[route.task].phase \in {"queued", "active"}
            /\ guides' = [guides EXCEPT ![route.task] = guides[route.task] \cup {e}] /\ job' = [job EXCEPT ![route.task].rev = job[route.task].rev + 1]
         \/ UNCHANGED <<job, guides>>
  BY <1>2, <1>3, <1>4 DEF Command, Asked, Open
<1>8. MailTurnInv'
  BY <1>1, <1>2, <1>3, <1>6, <1>7 DEF MailInv, MailTurnInv
<1>9. RelayInv'
  BY <1>7 DEF MailInv, RelayInv
<1>10. /\ job' \in [Mail -> MailJobs] /\ guides' \in [Mail -> SUBSET Mail]
       /\ \A f \in Mail : job'[f].phase # "none" => job[f].phase # "none" \/ (f = e /\ route.act = "start")
       /\ \A f, t \in Mail : f \in guides'[t] => f \in guides[t] \/ (f = e /\ route.act = "guide" /\ route.task = t)
  <2>1. CASE route.act = "start" /\ job' = [job EXCEPT ![e] = [phase |-> "queued", rev |-> 1, said |-> 0]] /\ UNCHANGED guides
    <3>1. PICK y \in MailJobs : y = [phase |-> "queued", rev |-> 1, said |-> 0]
      BY DEF MailJobs
    <3> QED
      BY <1>1, <2>1, <3>1
  <2>2. CASE /\ route.act = "guide" /\ job[route.task].phase \in {"queued", "active"}
             /\ guides' = [guides EXCEPT ![route.task] = guides[route.task] \cup {e}] /\ job' = [job EXCEPT ![route.task].rev = job[route.task].rev + 1]
    <3>1. PICK t \in Mail : t = route.task
      BY <2>2 DEF MailRoutes, Mail
    <3>2. PICK y0 \in MailJobs : y0 = job[t]
      BY <1>1
    <3>3. y0.rev + 1 \in Nat
      BY DEF MailJobs
    <3>4. PICK y \in MailJobs : y = [y0 EXCEPT !.rev = y0.rev + 1]
      BY <3>3 DEF MailJobs
    <3>5. y.phase = y0.phase /\ job' = [job EXCEPT ![t] = y]
      BY <1>1, <2>2, <3>1, <3>2, <3>4 DEF MailJobs
    <3>6. PICK G \in SUBSET Mail : G = guides[t] \cup {e}
      BY <1>1
    <3>7. guides' = [guides EXCEPT ![t] = G]
      BY <2>2, <3>1, <3>6
    <3>8. job' \in [Mail -> MailJobs] /\ \A f \in Mail : job'[f].phase # "none" => job[f].phase # "none"
      BY <1>1, <3>2, <3>5
    <3>9. guides' \in [Mail -> SUBSET Mail] /\ \A f, u \in Mail : f \in guides'[u] => f \in guides[u] \/ (f = e /\ u = t)
      BY <1>1, <3>6, <3>7
    <3> QED
      BY <2>2, <3>1, <3>8, <3>9
  <2>3. CASE UNCHANGED <<job, guides>>
    BY <1>1, <2>3
  <2> QED
    BY <1>7, <2>1, <2>2, <2>3
<1>11. MailTypes'
  BY <1>1, <1>6, <1>7, <1>10 DEF MailTypes
<1>12. \A f \in Mail : ActedAs(f)' /\ AnsweredAs(f)'
  <2> SUFFICES ASSUME NEW f \in Mail PROVE ActedAs(f)' /\ AnsweredAs(f)'
    OBVIOUS
  <2>1. ActedAs(f) /\ AnsweredAs(f)
    BY DEF MailInv
  <2>2. AnsweredAs(f)'
    BY <1>7, <2>1 DEF AnsweredAs
  <2>3. ActedAs(f)'
    <3>1. msg' = msg /\ msg[e].state # "none" /\ msg[e].route = route
      BY <1>2, <1>3, <1>4, <1>7
    <3>2. job'[f].phase # "none" => msg[f].state # "none" /\ msg[f].route.act = "start"
      BY <1>10, <2>1, <3>1 DEF ActedAs
    <3>3. ASSUME NEW t \in Mail, f \in guides'[t]
          PROVE  msg[f].state # "none" /\ msg[f].route.act = "guide" /\ msg[f].route.task = t
      BY <1>10, <2>1, <3>1, <3>3 DEF ActedAs
    <3> QED
      BY <3>1, <3>2, <3>3 DEF ActedAs
  <2> QED
    BY <2>2, <2>3
<1> QED
  BY <1>8, <1>9, <1>11, <1>12 DEF MailInv

\* The answer to a message is kept with it.
LEMMA CompleteMailKeeps ==
  ASSUME MailInv, NEW th \in Receivers, Complete(th)
  PROVE  MailInv'
<1>1. MailTypes /\ turn \in [Receivers -> MailTurns] /\ msg \in [Mail -> MailRows]
  BY DEF MailInv, MailTypes
<1>2. PICK q \in MailTurns : q = turn[th] /\ q.pc = "complete" /\ q.e \in Mail /\ msg[q.e].state # "none"
  BY <1>1 DEF Complete, InStep, MailInv, MailTurnInv
<1>3. PICK e \in Mail : e = q.e
  BY <1>2
<1>4. PICK route \in MailRoutes : route = msg[e].route
  BY <1>1 DEF MailTypes, MailRows
<1>5. PICK x \in MailTurns : x = [q EXCEPT !.pc = "next"]
  BY DEF MailTurns
<1>6. x.pc = "next" /\ turn' = [turn EXCEPT ![th] = x]
  BY <1>1, <1>2, <1>5 DEF MailTurns, Complete, Goto
<1>7. PICK t \in 0..Count : t = IF route.act = "start" THEN e ELSE route.task
  BY DEF MailRoutes, Mail
<1>8. PICK row0 \in MailRows : row0 = msg[e]
  BY <1>1
<1>9. PICK row \in MailRows : row = [row0 EXCEPT !.state = "done", !.task = t]
  BY DEF MailRows
<1>10. row.state = "done" /\ row.route = route
  BY <1>4, <1>8, <1>9 DEF MailRows
<1>11. PICK kind \in {"reply", "outcome"} : kind = IF e \in settled THEN "outcome" ELSE "reply"
  OBVIOUS
<1>12. /\ msg' = [msg EXCEPT ![e] = row] /\ answers' = answers \cup {<<kind, e>>}
       /\ UNCHANGED <<post, job, guides, settled, outbox, signed, onRelay, egress>>
  BY <1>2, <1>3, <1>4, <1>7, <1>8, <1>9, <1>11 DEF Complete, Asked, Settled
<1>13. msg' \in [Mail -> MailRows] /\ msg'[e] = row /\ \A f \in Mail : f # e => msg'[f] = msg[f]
  BY <1>1, <1>12
<1>14. MailTypes'
  BY <1>1, <1>6, <1>12, <1>13 DEF MailTypes
<1>15. MailTurnInv'
  BY <1>1, <1>6, <1>10, <1>13 DEF MailInv, MailTurnInv
<1>16. RelayInv'
  BY <1>12 DEF MailInv, RelayInv
<1>17. \A f \in Mail : ActedAs(f)' /\ AnsweredAs(f)'
  <2> SUFFICES ASSUME NEW f \in Mail PROVE ActedAs(f)' /\ AnsweredAs(f)'
    OBVIOUS
  <2>1. ActedAs(f) /\ AnsweredAs(f)
    BY DEF MailInv
  <2>2. CASE f = e
    <3>1. ActedAs(f)'
      BY <1>2, <1>3, <1>4, <1>10, <1>12, <1>13, <2>1, <2>2 DEF ActedAs
    <3>2. AnsweredAs(f)'
      BY <1>10, <1>11, <1>12, <1>13, <2>2 DEF AnsweredAs
    <3> QED
      BY <3>1, <3>2
  <2>3. CASE f # e
    BY <1>12, <1>13, <2>1, <2>3 DEF ActedAs, AnsweredAs
  <2> QED
    BY <2>2, <2>3
<1> QED
  BY <1>14, <1>15, <1>16, <1>17 DEF MailInv

-----------------------------------------------------------------------------
\* The egress thread tells what tasks have become.
LEMMA AnnounceKeeps ==
  ASSUME MailInv, Announce
  PROVE  MailInv'
<1>1. MailTypes /\ job \in [Mail -> MailJobs]
  BY DEF MailInv, MailTypes
<1>2. /\ UNCHANGED <<post, msg, guides, settled, outbox, signed, onRelay, turn>> /\ egress'.todo = egress.todo
      /\ answers' = answers \cup {<<job[t].phase, t>> : t \in Changed}
                       \cup {<<"outcome", e>> : e \in settled \cap UNION {guides[t] : t \in Changed}}
      /\ job' = [t \in Mail |-> IF t \in Changed THEN [job[t] EXCEPT !.said = job[t].rev] ELSE job[t]]
  <2>1. egress' = [egress EXCEPT !.pc = "prepare"]
    BY DEF Announce
  <2>2. egress'.todo = egress.todo
    BY <2>1
  <2> QED
    BY <2>2 DEF Announce
<1>3. ASSUME NEW t \in Mail PROVE job'[t] \in MailJobs /\ job'[t].phase = job[t].phase
  <2>1. job[t] \in MailJobs
    BY <1>1
  <2>2. CASE t \in Changed
    <3>1. job'[t] = [job[t] EXCEPT !.said = job[t].rev]
      BY <1>2, <2>2
    <3> QED
      BY <2>1, <3>1 DEF MailJobs
  <2>3. CASE t \notin Changed
    BY <1>2, <2>1, <2>3
  <2> QED
    BY <2>2, <2>3
<1>4. MailTypes'
  <2>1. job' = [t \in Mail |-> job'[t]]
    BY <1>2
  <2>2. job' \in [Mail -> MailJobs]
    BY <1>3, <2>1
  <2> QED
    BY <1>1, <1>2, <2>2 DEF MailTypes
<1>5. MailTurnInv' /\ RelayInv'
  BY <1>2 DEF MailInv, MailTurnInv, RelayInv
<1>6. ASSUME NEW e \in Mail, <<"reply", e>> \in answers' \/ <<"outcome", e>> \in answers' PROVE msg[e].state # "none"
  <2>1. AnsweredAs(e) /\ ActedAs(e)
    BY DEF MailInv
  <2>2. CASE <<"reply", e>> \in answers \/ <<"outcome", e>> \in answers
    BY <2>1, <2>2 DEF AnsweredAs
  <2>3. \A t \in Changed : job[t].phase \notin {"reply", "outcome"}
    BY <1>1 DEF Changed, Known, MailJobs
  <2>4. CASE ~(<<"reply", e>> \in answers \/ <<"outcome", e>> \in answers)
    <3>1. e \in UNION {guides[t] : t \in Changed}
      BY <1>2, <1>6, <2>3, <2>4
    <3>2. PICK t \in Mail : e \in guides[t]
      BY <3>1 DEF Changed, Known
    <3> QED
      BY <2>1, <3>2 DEF ActedAs
  <2> QED
    BY <2>2, <2>4
<1>7. answers \subseteq answers'
  BY <1>2
<1>8. \A e \in Mail : job'[e].phase # "none" => job[e].phase # "none"
  BY <1>3
<1> QED
  BY <1>2, <1>4, <1>5, <1>6, <1>7, <1>8, MailStands

\* A step of the egress thread on the events alone.
LEMMA EventsKeep ==
  ASSUME MailInv, UNCHANGED <<post, msg, job, guides, settled, answers, turn>>, RelayInv',
         outbox' \in [Ids -> MailEvents], signed' \in Nat, egress'.todo \subseteq Ids
  PROVE  MailInv'
<1>1. MailTypes'
  BY DEF MailInv, MailTypes
<1>2. MailTurnInv'
  BY DEF MailInv, MailTurnInv
<1>3. \A e \in Mail : <<"reply", e>> \in answers' \/ <<"outcome", e>> \in answers' => msg[e].state # "none"
  BY DEF MailInv, AnsweredAs
<1> QED
  BY <1>1, <1>2, <1>3, MailStands

\* An event is signed once, under what it answers.
LEMMA SignKeeps ==
  ASSUME MailInv, NEW m \in Ids, Sign(m)
  PROVE  MailInv'
<1>1. /\ outbox \in [Ids -> MailEvents] /\ signed + 1 \in Nat /\ signed + 1 # 0 /\ egress.todo \subseteq Ids /\ outbox[m].event = 0
      /\ UNCHANGED <<post, msg, job, guides, settled, answers, onRelay, turn, egress>> /\ signed' = signed + 1
  <2>1. signed \in Nat
    BY DEF MailInv, MailTypes
  <2> QED
    BY <2>1 DEF MailInv, MailTypes, Sign, Ready
<1>2. PICK k \in Kinds, e \in Mail : m = <<k, e>>
  BY DEF Ids
<1>3. m[1] = k /\ m[2] = e
  BY <1>2
<1>4. PICK parent \in 0..Count : parent = IF Parent(m) # 0 /\ msg[Parent(m)].state # "none" /\ EventOf(Parent(m)) THEN Parent(m) ELSE 0
  <2>1. e \in 0..Count /\ 0 \in 0..Count
    BY DEF Mail
  <2>2. post[e].reply \in 0..Count
    BY DEF MailInv, MailTypes
  <2>3. Parent(m) \in 0..Count
    BY <1>3, <2>1, <2>2 DEF Parent, Anchor
  <2> QED
    BY <2>1, <2>3
<1>5. k \in {"reply", "outcome"} => parent = e
  <2> SUFFICES ASSUME k \in {"reply", "outcome"} PROVE parent = e
    OBVIOUS
  <2>1. Parent(m) = e
    BY <1>3 DEF Parent
  <2>2. m \in answers
    BY <1>3 DEF Sign, Ready
  <2>3. msg[e].state # "none"
    BY <1>2, <2>2 DEF MailInv, AnsweredAs
  <2>4. e # 0
    BY DEF Mail
  <2>5. EventOf(e)
    BY <2>1, <2>3, <2>4 DEF Sign, Threaded
  <2> QED
    BY <1>4, <2>1, <2>3, <2>4, <2>5
<1>6. PICK x \in MailEvents : x = [NoEvent EXCEPT !.event = signed + 1, !.parent = parent]
  BY <1>1 DEF NoEvent, MailEvents
<1>7. x.event = signed + 1 /\ x.parent = parent
  BY <1>6 DEF NoEvent
<1>8. outbox' = [outbox EXCEPT ![m] = x]
  BY <1>4, <1>6 DEF Sign
<1>9. outbox' \in [Ids -> MailEvents] /\ outbox'[m] = x /\ \A n \in Ids : n # m => outbox'[n] = outbox[n]
  BY <1>1, <1>8
<1>10. RelayInv'
  <2>1. \A y \in onRelay : y[1] \in Ids /\ y = <<y[1], outbox[y[1]].event>> /\ outbox[y[1]].event # 0
    BY DEF MailInv, RelayInv
  <2>2. \A y \in onRelay : y[1] # m
    BY <1>1, <2>1
  <2>3. \A y \in onRelay : y[1] \in Ids /\ y = <<y[1], outbox'[y[1]].event>> /\ outbox'[y[1]].event # 0
    BY <1>9, <2>1, <2>2
  <2>4. \A n \in egress.todo : outbox'[n].event # 0
    BY <1>1, <1>7, <1>9 DEF MailInv, RelayInv
  <2>5. \A n \in Ids : outbox'[n].event # 0 /\ n[1] \in {"reply", "outcome"} => outbox'[n].parent = n[2]
    BY <1>3, <1>5, <1>7, <1>9 DEF MailInv, RelayInv
  <2> QED
    BY <1>1, <2>3, <2>4, <2>5 DEF RelayInv
<1> QED
  BY <1>1, <1>9, <1>10, EventsKeep

\* What is signed is sent, again and again the same.
LEMMA SendingKeeps ==
  ASSUME MailInv,
         \/ Prepared \/ Acknowledge \/ EgressEnds
         \/ \E m \in Ids : Refused(m) \/ \E reached, answered \in BOOLEAN : Publish(m, reached, answered)
  PROVE  MailInv'
<1>1. /\ outbox \in [Ids -> MailEvents] /\ signed \in Nat /\ egress.todo \subseteq Ids /\ RelayInv
  BY DEF MailInv, MailTypes
<1>2. CASE Prepared \/ EgressEnds
  <2>1. /\ UNCHANGED <<post, msg, job, guides, settled, answers, outbox, signed, onRelay, turn>>
        /\ egress'.todo \subseteq {m \in Ids : outbox[m].event # 0}
    BY <1>2 DEF Prepared, EgressEnds, Quiet
  <2>2. RelayInv'
    BY <1>1, <2>1 DEF RelayInv
  <2>3. egress'.todo \subseteq Ids /\ signed' \in Nat /\ outbox' \in [Ids -> MailEvents]
    BY <1>1, <2>1
  <2> QED
    BY <2>1, <2>2, <2>3, EventsKeep
<1>3. CASE Acknowledge \/ \E m \in Ids : Refused(m)
  <2>1. /\ UNCHANGED <<post, msg, job, guides, settled, answers, signed, onRelay, turn>> /\ egress'.todo \subseteq egress.todo
        /\ \E m : outbox' = [outbox EXCEPT ![m].sent = TRUE] \/ outbox' = [outbox EXCEPT ![m].refused = TRUE]
    <3>1. CASE Acknowledge
      BY <3>1 DEF Acknowledge
    <3>2. CASE \E m \in Ids : Refused(m)
      <4>1. PICK m \in Ids : Refused(m)
        BY <3>2
      <4>2. egress' = [egress EXCEPT !.todo = egress.todo \ {m}] /\ outbox' = [outbox EXCEPT ![m].refused = TRUE]
        BY <4>1 DEF Refused
      <4>3. egress'.todo \subseteq egress.todo
        BY <4>2
      <4> QED
        BY <4>1, <4>2, <4>3 DEF Refused
    <3> QED
      BY <1>3, <3>1, <3>2
  <2>2. PICK m : outbox' = [outbox EXCEPT ![m].sent = TRUE] \/ outbox' = [outbox EXCEPT ![m].refused = TRUE]
    BY <2>1
  <2>3. outbox' \in [Ids -> MailEvents] /\ \A n \in Ids : outbox'[n].event = outbox[n].event /\ outbox'[n].parent = outbox[n].parent
    <3>1. CASE m \notin Ids
      BY <1>1, <2>2, <3>1
    <3>2. CASE m \in Ids
      <4>1. PICK y \in MailEvents : y = outbox[m]
        BY <1>1, <3>2
      <4>2. PICK x \in MailEvents : x = [y EXCEPT !.sent = TRUE]
        BY DEF MailEvents
      <4>3. PICK z \in MailEvents : z = [y EXCEPT !.refused = TRUE]
        BY DEF MailEvents
      <4>4. x.event = y.event /\ x.parent = y.parent /\ z.event = y.event /\ z.parent = y.parent
        BY <4>2, <4>3 DEF MailEvents
      <4>5. outbox' = [outbox EXCEPT ![m] = x] \/ outbox' = [outbox EXCEPT ![m] = z]
        BY <1>1, <2>2, <3>2, <4>1, <4>2, <4>3
      <4> QED
        BY <1>1, <4>1, <4>4, <4>5
    <3> QED
      BY <3>1, <3>2
  <2>4. RelayInv'
    BY <1>1, <2>1, <2>3 DEF RelayInv
  <2>5. egress'.todo \subseteq Ids /\ signed' \in Nat
    BY <1>1, <2>1
  <2> QED
    BY <2>1, <2>3, <2>4, <2>5, EventsKeep
<1>4. CASE \E m \in Ids, reached, answered \in BOOLEAN : Publish(m, reached, answered)
  <2>1. PICK m \in Ids, reached \in BOOLEAN, answered \in BOOLEAN : Publish(m, reached, answered)
    BY <1>4
  <2>2. /\ UNCHANGED <<post, msg, job, guides, settled, answers, outbox, signed, turn>>
        /\ onRelay' \subseteq onRelay \cup {<<m, outbox[m].event>>} /\ m \in egress.todo
    BY <2>1 DEF Publish, EventSent
  <2>3. egress'.todo \subseteq egress.todo
    <3>1. egress' = [egress EXCEPT !.pc = "acknowledge", !.m = m] \/ egress' = Quiet
      BY <2>1 DEF Publish
    <3>2. [egress EXCEPT !.pc = "acknowledge", !.m = m].todo = egress.todo
      OBVIOUS
    <3>3. Quiet.todo = {}
      BY DEF Quiet
    <3> QED
      BY <3>1, <3>2, <3>3
  <2>4. outbox[m].event # 0
    BY <1>1, <2>2 DEF RelayInv
  <2>5. RelayInv'
    BY <1>1, <2>2, <2>3, <2>4 DEF RelayInv
  <2>6. egress'.todo \subseteq Ids /\ signed' \in Nat /\ outbox' \in [Ids -> MailEvents]
    BY <1>1, <2>2, <2>3
  <2> QED
    BY <2>2, <2>5, <2>6, EventsKeep
<1> QED
  BY <1>2, <1>3, <1>4

\* Every step of a linked conversation keeps its invariant.
LEMMA MailSteps == MailInv /\ (MailNext \/ UNCHANGED mailVars) => MailInv'
<1> SUFFICES ASSUME MailInv, MailNext \/ UNCHANGED mailVars PROVE MailInv'
  OBVIOUS
<1>1. CASE \/ \E e \in Mail, intent \in Intents, reply \in 0..Count : Post(e, intent, reply)
           \/ \E t \in Mail : \E phase \in {"active", "closed"} : TaskMoves(t, phase)
           \/ \E t, e \in Mail : GuidanceSettles(t, e)
  BY <1>1, OutsideKeeps
<1>2. CASE \/ \E seen \in SUBSET Mail : BeginIngress(seen)
           \/ \E e \in Mail, intent \in Intents, reply \in 0..Count : SubmitMessage(e, intent, reply)
           \/ \E th \in Receivers : NextMessage(th) \/ ProcessBegins(th) \/ Abandon(th)
  BY <1>2, ThreadsKeep
<1>3. CASE \E th \in Receivers : Receive(th) \/ Command(th) \/ Complete(th)
  BY <1>3, ReceiveKeeps, CommandKeeps, CompleteMailKeeps
<1>4. CASE Announce \/ \E m \in Ids : Sign(m)
  BY <1>4, AnnounceKeeps, SignKeeps
<1>5. CASE \/ Prepared \/ Acknowledge \/ EgressEnds
           \/ \E m \in Ids : Refused(m) \/ \E reached, answered \in BOOLEAN : Publish(m, reached, answered)
  BY <1>5, SendingKeeps
<1>6. CASE UNCHANGED mailVars
  <2>1. /\ UNCHANGED <<post, msg, job, guides, settled, answers, outbox, signed, onRelay, turn, egress>>
    BY <1>6 DEF mailVars
  <2>2. RelayInv' /\ signed' \in Nat /\ outbox' \in [Ids -> MailEvents] /\ egress'.todo \subseteq Ids
    BY <2>1 DEF MailInv, MailTypes, RelayInv
  <2> QED
    BY <2>1, <2>2, EventsKeep
<1> QED
  BY <1>1, <1>2, <1>3, <1>4, <1>5, <1>6 DEF MailNext

\* What the invariant says of a message.
LEMMA MailInvIsEnough == MailInv => MessagesActOnce
<1> SUFFICES ASSUME MailInv PROVE MessagesActOnce
  OBVIOUS
<1>1. \A e \in Mail : /\ job[e].phase # "none" => msg[e].route.act = "start"
                      /\ \A t \in Mail : e \in guides[t] => msg[e].route.act = "guide" /\ msg[e].route.task = t
                      /\ msg[e].state = "done" => {<<"reply", e>>, <<"outcome", e>>} \cap answers # {}
  BY DEF MailInv, ActedAs, AnsweredAs
<1>2. \A a, b \in onRelay : a[1] = b[1] => a = b
  BY DEF MailInv, RelayInv
<1>3. \A m \in Ids : outbox[m].event # 0 /\ m[1] \in {"reply", "outcome"} => outbox[m].parent = m[2]
  BY DEF MailInv, RelayInv
<1> QED
  BY <1>1, <1>2, <1>3 DEF MessagesActOnce

-----------------------------------------------------------------------------
(* A project. *)

USE ProjectAssumption

ProjectPcs == {"idle", "next", "reconcile", "reconciled", "dispatch", "dispatched", "handoff", "handed", "pending", "pended",
               "choose", "stopped", "answer", "planning", "review", "deferred", "process", "processed"}
AnyRole == Roles \cup {"planner", None}
ReportKinds == Routes \cup {None, "preview", "READY", "CHANGES_NEEDED", "text", "healthy"}
Previews == Revisions \cup {None}
ProjectPhases == {"intake", "blocked", "preview_feedback", "merge_ready", "correction", "deployed", "research", "review", "building",
                  "deployment", "paused", "planning"}
Snapshots == [phase : ProjectPhases, role : AnyRole, task : 0..MaxTasks, latest : 0..MaxTasks, pending : 0..Messages,
              preview : Previews, accepted : Previews, reviewed : Previews, verdict : ReportKinds,
              healthy : BOOLEAN, handoff : AnyRole, plan : 0..MaxTasks, src : 0..Messages]
TaskKeys == {<<>>} \cup {<<"plan", e>> : e \in Nat} \cup {<<"note", e>> : e \in Nat}
              \cup {<<"dispatch", e, r>> : e \in Nat, r \in ReportKinds}
              \cup {<<"handoff", t, r, v>> : t \in Nat, r \in AnyRole, v \in Previews}
TaskRows == [key : TaskKeys, role : AnyRole, state : {"none", "open", "stopping", "closed"}, report : Reports \cup {NoReport}]
NoteRows == [state : {"none", "received", "done", "planning"}, task : 0..MaxTasks, role : AnyRole, act : {None, "start", "guide"}]
Cycles == [pc : ProjectPcs, e : 0..Messages, todo : SUBSET Notes, held : Snapshots, inner : Snapshots, own : BOOLEAN,
           target : AnyRole, task : 0..MaxTasks]
ProjectTypes == /\ coord \in Snapshots /\ work \in [Tasks -> TaskRows]
                /\ saved \in [Notes -> NoteRows] /\ cyc \in Cycles

\* What the saved snapshot says of revisions, and of the planner it waits for.
ProjectSnapshotInv ==
  /\ coord.plan # 0 => coord.plan = coord.task
  /\ coord.accepted # None => coord.accepted = coord.preview
  /\ coord.preview # None /\ (coord.verdict = "READY" \/ coord.healthy = TRUE) => Reviewed(coord.preview)
\* A handler works on the snapshot of its message, and a plan that is carried
\* out has its planner behind it.
ProjectCycleInv ==
  /\ cyc.own = FALSE => cyc.held = cyc.inner
  /\ cyc.pc \in {"choose", "stopped", "answer", "review", "deferred", "process", "processed", "planning", "pended", "pending"} => cyc.own = FALSE
  /\ cyc.pc \in {"dispatch", "dispatched"} => cyc.inner.plan # 0 /\ cyc.inner.task # 0 /\ work[cyc.inner.task].state = "closed"
  /\ cyc.pc \in {"dispatched", "handed", "pended", "processed", "planning"} => cyc.task # 0
  /\ cyc.pc \in {"choose", "stopped", "answer", "review", "planning", "process"} => cyc.e # 0
  /\ cyc.pc = "pending" => cyc.inner.pending # 0
  /\ cyc.pc = "planning" => cyc.held.task = 0 /\ work[cyc.task].state # "none"
\* Only a closed task has reported, and only an admitted one has a key.
ProjectWorkInv ==
  \A t \in Tasks :
    /\ work[t].state # "closed" => work[t].report = NoReport
    /\ work[t].state = "none" => work[t].key = <<>>
\* The planner of a message that counts as handled is the one waited for.
ProjectSavedInv ==
  \A m \in Notes : saved[m].state = "planning" =>
    /\ saved[m].task # 0 /\ work[saved[m].task].state # "none"
    /\ work[saved[m].task].state \in {"open", "stopping"} => coord.plan = saved[m].task
ProjectInv == ProjectTypes /\ ProjectSnapshotInv /\ ProjectCycleInv /\ ProjectWorkInv /\ ProjectSavedInv

\* The first state.
LEMMA ProjectBegins == ProjectInit => ProjectInv
<1> SUFFICES ASSUME ProjectInit PROVE ProjectInv
  OBVIOUS
<1>1. /\ NoSnapshot \in Snapshots /\ NoSnapshot.plan = 0 /\ NoSnapshot.accepted = None /\ NoSnapshot.preview = None
      /\ NoSnapshot.task = 0
  BY DEF NoSnapshot, Snapshots, ProjectPhases, AnyRole, Previews, ReportKinds
<1>2. NoTask \in TaskRows /\ NoTask.state = "none" /\ NoTask.report = NoReport /\ NoTask.key = <<>>
  BY DEF NoTask, TaskRows, TaskKeys, AnyRole
<1>3. NoMessage \in NoteRows /\ NoMessage.state = "none"
  BY DEF NoMessage, NoteRows, AnyRole
<1>4. AtEase \in Cycles /\ AtEase.own = FALSE /\ AtEase.pc = "idle" /\ AtEase.held = NoSnapshot /\ AtEase.inner = NoSnapshot
  <2> HIDE DEF NoSnapshot, Snapshots
  <2> QED
    BY <1>1 DEF AtEase, Cycles, ProjectPcs, AnyRole
<1>5. ProjectTypes
  BY <1>1, <1>2, <1>3, <1>4 DEF ProjectInit, ProjectTypes
<1>6. ProjectSnapshotInv /\ ProjectCycleInv /\ ProjectWorkInv /\ ProjectSavedInv
  BY <1>1, <1>2, <1>3, <1>4 DEF ProjectInit, ProjectSnapshotInv, ProjectCycleInv, ProjectWorkInv, ProjectSavedInv
<1> QED
  BY <1>5, <1>6 DEF ProjectInv

\* Changing one field of a cycle.
LEMMA CycleFields ==
  ASSUME NEW c \in Cycles
  PROVE  /\ \A pc \in ProjectPcs : LET d == [c EXCEPT !.pc = pc] IN
              /\ d \in Cycles /\ d.pc = pc /\ d.e = c.e /\ d.held = c.held /\ d.inner = c.inner /\ d.own = c.own
              /\ d.target = c.target /\ d.task = c.task /\ d.todo = c.todo
         /\ \A t \in 0..MaxTasks : LET d == [c EXCEPT !.task = t] IN
              /\ d \in Cycles /\ d.pc = c.pc /\ d.e = c.e /\ d.held = c.held /\ d.inner = c.inner /\ d.own = c.own
              /\ d.target = c.target /\ d.task = t /\ d.todo = c.todo
         /\ \A s \in Snapshots : LET d == [c EXCEPT !.inner = s] IN
              /\ d \in Cycles /\ d.pc = c.pc /\ d.e = c.e /\ d.held = c.held /\ d.inner = s /\ d.own = c.own
              /\ d.target = c.target /\ d.task = c.task /\ d.todo = c.todo
         /\ \A s \in Snapshots : LET d == [c EXCEPT !.held = s] IN
              /\ d \in Cycles /\ d.pc = c.pc /\ d.e = c.e /\ d.held = s /\ d.inner = c.inner /\ d.own = c.own
              /\ d.target = c.target /\ d.task = c.task /\ d.todo = c.todo
         /\ \A s \in AnyRole : LET d == [c EXCEPT !.target = s] IN
              /\ d \in Cycles /\ d.pc = c.pc /\ d.e = c.e /\ d.held = c.held /\ d.inner = c.inner /\ d.own = c.own
              /\ d.target = s /\ d.task = c.task /\ d.todo = c.todo
         /\ \A b \in BOOLEAN : LET d == [c EXCEPT !.own = b] IN
              /\ d \in Cycles /\ d.pc = c.pc /\ d.e = c.e /\ d.held = c.held /\ d.inner = c.inner /\ d.own = b
              /\ d.target = c.target /\ d.task = c.task /\ d.todo = c.todo
         /\ \A e \in 0..Messages : LET d == [c EXCEPT !.e = e] IN
              /\ d \in Cycles /\ d.pc = c.pc /\ d.e = e /\ d.held = c.held /\ d.inner = c.inner /\ d.own = c.own
              /\ d.target = c.target /\ d.task = c.task /\ d.todo = c.todo
         /\ \A s \in SUBSET Notes : LET d == [c EXCEPT !.todo = s] IN
              /\ d \in Cycles /\ d.pc = c.pc /\ d.e = c.e /\ d.held = c.held /\ d.inner = c.inner /\ d.own = c.own
              /\ d.target = c.target /\ d.task = c.task /\ d.todo = s
  BY DEF Cycles

-----------------------------------------------------------------------------
\* What the rules make of a snapshot.
SameEvidence(c, d) == d.preview = c.preview /\ d.accepted = c.accepted /\ d.verdict = c.verdict /\ d.healthy = c.healthy

\* A snapshot with another phase says the same of revisions and of its planner.
LEMMA PhaseChanges ==
  ASSUME NEW c \in Snapshots, NEW ph \in ProjectPhases
  PROVE  [c EXCEPT !.phase = ph] \in Snapshots /\ SameEvidence(c, [c EXCEPT !.phase = ph])
         /\ [c EXCEPT !.phase = ph].plan = c.plan /\ [c EXCEPT !.phase = ph].task = c.task
  BY DEF Snapshots, SameEvidence

\* A snapshot whose planner is behind it.
LEMMA PlanEnds ==
  ASSUME NEW c \in Snapshots
  PROVE  Planned(c) \in Snapshots /\ SameEvidence(c, Planned(c)) /\ Planned(c).plan = 0
<1>1. None \in AnyRole /\ 0 \in 0..MaxTasks /\ 0 \in 0..Messages
  BY DEF AnyRole
<1> QED
  BY <1>1 DEF Snapshots, SameEvidence, Planned

\* A message that is left for later, or is no longer.
LEMMA PendingChanges ==
  ASSUME NEW c \in Snapshots, NEW e \in 0..Messages
  PROVE  [c EXCEPT !.pending = e] \in Snapshots /\ SameEvidence(c, [c EXCEPT !.pending = e])
         /\ [c EXCEPT !.pending = e].plan = c.plan /\ [c EXCEPT !.pending = e].task = c.task
  BY DEF Snapshots, SameEvidence

\* The specialist a handoff asks for.
LEMMA HandoffChanges ==
  ASSUME NEW c \in Snapshots, NEW r \in AnyRole
  PROVE  [c EXCEPT !.handoff = r] \in Snapshots /\ SameEvidence(c, [c EXCEPT !.handoff = r])
         /\ [c EXCEPT !.handoff = r].plan = c.plan /\ [c EXCEPT !.handoff = r].task = c.task
  BY DEF Snapshots, SameEvidence

\* A snapshot that works on a task.
LEMMA WorkGoesOn ==
  ASSUME NEW c \in Snapshots, NEW t \in 0..MaxTasks, NEW r \in AnyRole
  PROVE  Working(c, t, r) \in Snapshots /\ SameEvidence(c, Working(c, t, r)) /\ Working(c, t, r).plan = c.plan
         /\ Working(c, t, r).task = t
<1>1. PhaseOf(r) \in ProjectPhases
  BY DEF PhaseOf, ProjectPhases
<1> QED
  BY <1>1 DEF Snapshots, SameEvidence, Working

\* A stopped project keeps what its revisions showed.
LEMMA StopClears ==
  ASSUME NEW c \in Snapshots
  PROVE  Cleared(c) \in Snapshots /\ SameEvidence(c, Cleared(c)) /\ Cleared(c).plan = c.plan /\ Cleared(c).task = c.task
<1>1. None \in AnyRole /\ 0 \in 0..Messages /\ "blocked" \in ProjectPhases
  BY DEF AnyRole, ProjectPhases
<1> QED
  BY <1>1 DEF Snapshots, SameEvidence, Cleared

\* The owner's acceptance is of the preview that is shown.
LEMMA OwnerAccepts ==
  ASSUME NEW c \in Snapshots
  PROVE  /\ AcceptPreview(c) \in Snapshots /\ AcceptPreview(c).preview = c.preview /\ AcceptPreview(c).accepted = c.preview
         /\ AcceptPreview(c).verdict = c.verdict /\ AcceptPreview(c).healthy = c.healthy
         /\ AcceptPreview(c).plan = c.plan /\ AcceptPreview(c).task = c.task
  BY DEF Snapshots, AcceptPreview, ProjectPhases

\* A report of a Builder, Reviewer or Deployer leaves the evidence precise.
Evident(c) ==
  /\ c.accepted # None => c.accepted = c.preview
  /\ c.preview # None /\ (c.verdict = "READY" \/ c.healthy = TRUE) => Reviewed(c.preview)
\* What a task may have reported.
LEMMA ReportKnown ==
  ASSUME NEW r \in Reports \cup {NoReport}
  PROVE  /\ r.kind \in ReportKinds
         /\ r.rev \in Previews /\ (r.kind = "preview" => r.rev \in Revisions)
         /\ r = [kind |-> r.kind, rev |-> r.rev]
  BY DEF Reports, NoReport, Previews, ReportKinds, Routes, None

\* A new preview loses the verdict and the health of the old one.
LEMMA BuilderReports ==
  ASSUME NEW c \in Snapshots, Evident(c), NEW r \in Reports \cup {NoReport}
  PROVE  /\ BuilderChanges(c, r) \in Snapshots /\ Evident(BuilderChanges(c, r))
         /\ BuilderChanges(c, r).plan = c.plan /\ BuilderChanges(c, r).task = c.task
<1>1. CASE r.kind # "preview"
  <2>1. BuilderChanges(c, r) = [c EXCEPT !.phase = "blocked"] /\ "blocked" \in ProjectPhases
    BY <1>1 DEF BuilderChanges, ProjectPhases
  <2> QED
    BY <2>1, PhaseChanges DEF Evident, SameEvidence
<1>2. CASE r.kind = "preview"
  <2>1. r.rev \in Revisions /\ r.rev # None
    BY <1>2, ReportKnown
  <2>2. PICK d : d = IF r.rev # c.accepted THEN Superseded(c) ELSE c
    OBVIOUS
  <2>3. CASE r.rev # c.accepted
    <3>1. /\ d \in Snapshots /\ d.accepted = None /\ d.verdict = None /\ d.healthy = FALSE
          /\ d.plan = c.plan /\ d.task = c.task
      BY <2>2, <2>3 DEF Superseded, Snapshots, Previews, ReportKinds
    <3>2. PICK f : f = [d EXCEPT !.preview = r.rev, !.phase = "preview_feedback"]
      OBVIOUS
    <3>3. f \in Snapshots /\ f.accepted = None /\ f.verdict = None /\ f.healthy = FALSE /\ f.plan = c.plan /\ f.task = c.task
      BY <2>1, <3>1, <3>2 DEF Snapshots, Previews, ProjectPhases
    <3>4. BuilderChanges(c, r) = f
      BY <1>2, <2>2, <3>2 DEF BuilderChanges
    <3> QED
      BY <3>3, <3>4 DEF Evident, None
  <2>4. CASE r.rev = c.accepted
    <3>1. d = c /\ c.preview = r.rev
      BY <2>1, <2>2, <2>4 DEF Evident
    <3>2. PICK f : f = [d EXCEPT !.preview = r.rev, !.phase = "preview_feedback"]
      OBVIOUS
    <3>3. f \in Snapshots /\ SameEvidence(c, f) /\ f.plan = c.plan /\ f.task = c.task
      BY <2>1, <3>1, <3>2 DEF Snapshots, Previews, ProjectPhases, SameEvidence
    <3>4. BuilderChanges(c, r) = f
      BY <1>2, <2>2, <3>2 DEF BuilderChanges
    <3> QED
      BY <3>3, <3>4 DEF Evident, SameEvidence
  <2> QED
    BY <2>3, <2>4
<1> QED
  BY <1>1, <1>2

\* A verdict counts for the revision that was reviewed, and only for the preview.
LEMMA ReviewerReports ==
  ASSUME NEW c \in Snapshots, Evident(c), NEW t \in Tasks, work[t].role = "reviewer",
         work[t].report \in Reports \cup {NoReport}
  PROVE  LET d == ReviewerChanges(c, work[t].report)
         IN  d \in Snapshots /\ Evident(d) /\ d.plan = c.plan /\ d.task = c.task
<1>1. PICK r \in Reports \cup {NoReport} : r = work[t].report
  OBVIOUS
<1>2. PICK found : found = IF Matching(c, r) /\ r.kind # "text" THEN r ELSE NoReport
  OBVIOUS
<1>3. PICK k : k = found.kind
  OBVIOUS
<1>4. k = "READY" => Matching(c, r) /\ r.kind = "READY"
  BY <1>2, <1>3 DEF NoReport, None
<1>5. k = "READY" => Reviewed(c.preview)
  <2> SUFFICES ASSUME k = "READY" PROVE Reviewed(c.preview)
    OBVIOUS
  <2>1. r = [kind |-> "READY", rev |-> c.preview]
    BY <1>4, ReportKnown DEF Matching
  <2> QED
    BY <1>1, <2>1 DEF Reviewed
<1>6. k \in ReportKinds
  <2>1. NoReport \in Reports \cup {NoReport}
    OBVIOUS
  <2>2. found \in Reports \cup {NoReport}
    BY <1>2, <2>1
  <2> QED
    BY <1>3, <2>2, ReportKnown
<1>7. PICK v : v = IF Matching(c, r) THEN c.preview ELSE None
  OBVIOUS
<1>8. PICK ph : ph = IF k = "READY" THEN "merge_ready" ELSE "correction"
  OBVIOUS
<1>9. v \in Previews /\ ph \in ProjectPhases
  <2>1. c.preview \in Previews /\ None \in Previews
    BY DEF Snapshots, Previews
  <2> QED
    BY <1>7, <1>8, <2>1 DEF ProjectPhases
<1>10. PICK d : d = [c EXCEPT !.reviewed = v, !.verdict = k, !.phase = ph]
  OBVIOUS
<1>11. /\ d \in Snapshots /\ d.preview = c.preview /\ d.accepted = c.accepted /\ d.verdict = k /\ d.healthy = c.healthy
       /\ d.plan = c.plan /\ d.task = c.task
  BY <1>6, <1>9, <1>10 DEF Snapshots
<1>12. ReviewerChanges(c, work[t].report) = d
  BY <1>1, <1>2, <1>3, <1>7, <1>8, <1>10 DEF ReviewerChanges
<1>13. Evident(d)
  BY <1>5, <1>11 DEF Evident
<1> QED
  BY <1>11, <1>12, <1>13

\* A release is healthy only of a revision that may be released.
LEMMA DeployerReports ==
  ASSUME NEW c \in Snapshots, Evident(c), NEW r
  PROVE  LET d == DeploymentUpdate(c, r)
         IN  d \in Snapshots /\ Evident(d) /\ d.plan = c.plan /\ d.task = c.task
<1>1. CASE r.kind = "healthy" /\ Releasable(c)
  <2>1. PICK d : d = [c EXCEPT !.healthy = TRUE, !.phase = "deployed"]
    OBVIOUS
  <2>2. /\ d \in Snapshots /\ d.preview = c.preview /\ d.accepted = c.accepted /\ d.verdict = c.verdict
        /\ d.plan = c.plan /\ d.task = c.task
    BY <2>1 DEF Snapshots, ProjectPhases
  <2>3. DeploymentUpdate(c, r) = d
    BY <1>1, <2>1 DEF DeploymentUpdate
  <2> QED
    BY <1>1, <2>2, <2>3 DEF Evident, Releasable
<1>2. CASE ~(r.kind = "healthy" /\ Releasable(c))
  <2>1. DeploymentUpdate(c, r) = [c EXCEPT !.phase = "blocked"] /\ "blocked" \in ProjectPhases
    BY <1>2 DEF DeploymentUpdate, ProjectPhases
  <2> QED
    BY <2>1, PhaseChanges DEF Evident, SameEvidence
<1> QED
  BY <1>1, <1>2

\* Whatever a specialist reports, the snapshot stays evident and works on nothing.
LEMMA ResultsApply ==
  ASSUME NEW c \in Snapshots, Evident(c), NEW t \in Tasks, work[t].report \in Reports \cup {NoReport}
  PROVE  ApplyResult(c, t) \in Snapshots /\ Evident(ApplyResult(c, t)) /\ ApplyResult(c, t).plan = c.plan
         /\ ApplyResult(c, t).task = 0
<1>1. PICK done : done = [c EXCEPT !.role = None, !.task = 0]
  OBVIOUS
<1>2. done \in Snapshots /\ SameEvidence(c, done) /\ done.plan = c.plan /\ done.task = 0
  <2>1. None \in AnyRole /\ 0 \in 0..MaxTasks
    BY DEF AnyRole
  <2> QED
    BY <1>1, <2>1 DEF Snapshots, SameEvidence
<1>3. Evident(done)
  BY <1>2 DEF Evident, SameEvidence
<1>4. PICK r \in Reports \cup {NoReport} : r = work[t].report
  OBVIOUS
<1>5. CASE r = NoReport \/ work[t].role \notin {"builder", "reviewer", "deployer"}
  <2>1. PICK ph \in {"blocked", "research"} : ApplyResult(c, t) = [done EXCEPT !.phase = ph]
    BY <1>1, <1>4, <1>5 DEF ApplyResult
  <2>2. ph \in ProjectPhases
    BY DEF ProjectPhases
  <2> QED
    BY <1>2, <1>3, <2>1, <2>2, PhaseChanges DEF Evident, SameEvidence
<1>6. CASE r # NoReport /\ work[t].role = "builder"
  <2>1. ApplyResult(c, t) = BuilderChanges(done, r)
    BY <1>1, <1>4, <1>6 DEF ApplyResult
  <2> QED
    BY <1>2, <1>3, <2>1, BuilderReports
<1>7. CASE r # NoReport /\ work[t].role = "reviewer"
  <2>1. ApplyResult(c, t) = ReviewerChanges(done, work[t].report)
    BY <1>1, <1>4, <1>7 DEF ApplyResult
  <2> QED
    BY <1>2, <1>3, <1>4, <1>7, <2>1, ReviewerReports
<1>8. CASE r # NoReport /\ work[t].role = "deployer"
  <2>1. ApplyResult(c, t) = DeploymentUpdate(done, r)
    BY <1>1, <1>4, <1>8 DEF ApplyResult
  <2> QED
    BY <1>2, <1>3, <2>1, DeployerReports
<1> QED
  BY <1>5, <1>6, <1>7, <1>8

-----------------------------------------------------------------------------
\* What any step does to the tasks.
WorkMove ==
  /\ work' \in [Tasks -> TaskRows] /\ ProjectWorkInv'
  /\ \A t \in Tasks : work[t].state = "closed" => work'[t] = work[t]
  /\ \A t \in Tasks : work[t].state # "none" => work'[t].state # "none"

\* A step that leaves the tasks alone.
LEMMA WorkStands ==
  ASSUME ProjectTypes, ProjectWorkInv, UNCHANGED work
  PROVE  WorkMove
  BY DEF WorkMove, ProjectTypes, ProjectWorkInv

\* Admission under a key gives the task of that key, or a new one.
LEMMA AdmissionAdds ==
  ASSUME ProjectTypes, ProjectWorkInv, NEW key \in TaskKeys, key # <<>>, NEW role \in AnyRole, NEW t \in Tasks,
         Admits(key, role, t)
  PROVE  WorkMove /\ work'[t].state # "none"
<1>1. CASE Keyed(key) # {}
  <2>1. work' = work /\ work[t].key = key
    BY <1>1 DEF Admits, Keyed
  <2>2. work[t].state # "none"
    <3>1. work[t].state = "none" => work[t].key = <<>>
      BY DEF ProjectWorkInv
    <3> QED
      BY <2>1, <3>1
  <2> QED
    BY <2>1, <2>2, WorkStands
<1>2. CASE Keyed(key) = {}
  <2>1. \E u \in Vacant : \A x \in Vacant : u <= x
    <3>1. Vacant \in SUBSET Nat /\ Vacant # {}
      BY <1>2 DEF Admits, Vacant, Tasks
    <3> QED
      BY <3>1, LeastRow
  <2>2. t \in Vacant
    BY <1>2, <2>1 DEF Admits
  <2>3. PICK row : row = [key |-> key, role |-> role, state |-> "open", report |-> NoReport]
    OBVIOUS
  <2>4. row \in TaskRows /\ row.state = "open" /\ row.report = NoReport
    BY <2>3 DEF TaskRows
  <2>5. work' = [work EXCEPT ![t] = row]
    BY <1>2, <2>3 DEF Admits
  <2> QED
    BY <2>2, <2>4, <2>5 DEF WorkMove, ProjectTypes, ProjectWorkInv, Vacant
<1> QED
  BY <1>1, <1>2

\* A task that has not closed goes on or closes, with a report only then.
LEMMA WorkChanges ==
  ASSUME ProjectTypes, ProjectWorkInv, NEW t \in Tasks, work[t].state # "closed", NEW row \in TaskRows,
         row.state # "none", row.state # "closed" => row.report = NoReport, work' = [work EXCEPT ![t] = row]
  PROVE  WorkMove
  BY DEF WorkMove, ProjectTypes, ProjectWorkInv

\* A message that is processed.
LEMMA ProcessingAdmits ==
  ASSUME ProjectTypes, ProjectWorkInv, NEW m \in Notes, NEW t \in Tasks, Processes(m, t)
  PROVE  WorkMove
<1>1. CASE UNCHANGED work
  BY <1>1, WorkStands
<1>2. CASE Admits(<<"note", m>>, saved[m].role, t)
  <2>1. <<"note", m>> \in TaskKeys /\ <<"note", m>> # <<>>
    BY DEF TaskKeys, Notes
  <2>2. saved[m].role \in AnyRole
    BY <1>2 DEF ProjectTypes, NoteRows
  <2> QED
    BY <1>2, <2>1, <2>2, AdmissionAdds
<1> QED
  BY <1>1, <1>2 DEF Processes

\* Every step moves tasks forward only: ended work and its report stay.
LEMMA TasksMove ==
  ASSUME ProjectTypes, ProjectWorkInv, ProjectCycleInv, ProjectNext
  PROVE  WorkMove
<1>1. CASE UNCHANGED work
  BY <1>1, WorkStands
<1>2. ASSUME NEW t \in Tasks, NEW report \in Reports \cup {NoReport}, TaskCloses(t, report)
      PROVE  WorkMove
  <2>1. PICK row : row = [work[t] EXCEPT !.state = "closed", !.report = report]
    OBVIOUS
  <2>2. row \in TaskRows /\ row.state = "closed"
    BY <2>1 DEF ProjectTypes, TaskRows
  <2>3. work' = [work EXCEPT ![t] = row] /\ work[t].state # "closed"
    BY <1>2, <2>1 DEF TaskCloses, OpenTask, ProjectTypes, TaskRows
  <2> QED
    BY <2>2, <2>3, WorkChanges
<1>3. ASSUME NEW m \in Notes, NEW t \in Tasks, SpecialistIngress(m, t) PROVE WorkMove
  BY <1>3, ProcessingAdmits DEF SpecialistIngress
<1>4. CASE Control
  <2>1. CASE UNCHANGED work
    BY <2>1, WorkStands
  <2>2. CASE ~UNCHANGED work
    <3>1. PICK c : c = cyc.held
      OBVIOUS
    <3>2. PICK state \in {"stopping", "closed"} : work' = [work EXCEPT ![c.task].state = state]
      BY <1>4, <2>2, <3>1 DEF Control, Answer
    <3>3. c.task # 0 /\ work[c.task].state # "closed"
      BY <1>4, <2>2, <3>1 DEF Control, Answer, Idle
    <3>4. c.task \in Tasks
      <4>1. c \in Snapshots
        BY <3>1 DEF ProjectTypes, Cycles
      <4>2. c.task \in 0..MaxTasks
        BY <4>1 DEF Snapshots
      <4> QED
        BY <3>3, <4>2 DEF Tasks
    <3>5. PICK row : row = [work[c.task] EXCEPT !.state = state]
      OBVIOUS
    <3>8. work[c.task] \in TaskRows /\ work[c.task].report = NoReport
      BY <3>3, <3>4 DEF ProjectTypes, ProjectWorkInv
    <3>6. row \in TaskRows /\ row.state = state /\ row.report = NoReport
      BY <3>5, <3>8 DEF TaskRows
    <3>7. work' = [work EXCEPT ![c.task] = row]
      BY <3>2, <3>5
    <3> QED
      BY <3>3, <3>4, <3>6, <3>7, WorkChanges
  <2> QED
    BY <2>1, <2>2
<1>5. ASSUME NEW t \in Tasks, Dispatch(t) PROVE WorkMove
  <2>1. PICK e, r : e = cyc.inner.src /\ r = work[cyc.inner.plan].report.kind
    OBVIOUS
  <2>6. cyc.inner.plan # 0
    BY <1>5 DEF Dispatch, Where, ProjectCycleInv
  <2>7. cyc.inner.plan \in 0..MaxTasks /\ cyc.inner.src \in 0..Messages
    BY DEF ProjectTypes, Cycles, Snapshots
  <2>2. cyc.inner.plan \in Tasks /\ e \in Nat
    BY <2>1, <2>6, <2>7 DEF Tasks
  <2>3. r \in ReportKinds
    BY <2>1, <2>2, ReportKnown DEF ProjectTypes, TaskRows
  <2>4. <<"dispatch", e, r>> \in TaskKeys /\ <<"dispatch", e, r>> # <<>>
    BY <2>2, <2>3 DEF TaskKeys
  <2>5. FirstRole(r) \in AnyRole
    BY DEF FirstRole, AnyRole, Roles
  <2> QED
    BY <1>5, <2>1, <2>4, <2>5, AdmissionAdds DEF Dispatch
<1>6. ASSUME NEW t \in Tasks, Handoff(t) PROVE WorkMove
  <2>1. PICK s, g, v : s = cyc.task /\ g = cyc.target /\ v = cyc.inner.preview
    OBVIOUS
  <2>2. s \in Nat /\ g \in AnyRole /\ v \in Previews
    BY <2>1 DEF ProjectTypes, Cycles, Snapshots
  <2>3. <<"handoff", s, g, v>> \in TaskKeys /\ <<"handoff", s, g, v>> # <<>>
    BY <2>2 DEF TaskKeys
  <2> QED
    BY <1>6, <2>1, <2>2, <2>3, AdmissionAdds DEF Handoff
<1>7. ASSUME NEW t \in Tasks, Pending(t) PROVE WorkMove
  <2>1. cyc.inner.pending \in Notes
    BY <1>7 DEF Pending, Where, ProjectCycleInv, ProjectTypes, Cycles, Snapshots, Notes
  <2> QED
    BY <1>7, <2>1, ProcessingAdmits DEF Pending
<1>8. ASSUME NEW t \in Tasks, StartPlanning(t) PROVE WorkMove
  <2>1. cyc.e \in Nat
    BY DEF ProjectTypes, Cycles
  <2>2. <<"plan", cyc.e>> \in TaskKeys /\ <<"plan", cyc.e>> # <<>> /\ "planner" \in AnyRole
    BY <2>1 DEF TaskKeys, AnyRole
  <2> QED
    BY <1>8, <2>2, AdmissionAdds DEF StartPlanning
<1>9. ASSUME NEW t \in Tasks, Process(t) PROVE WorkMove
  <2>1. cyc.e \in Notes
    BY <1>9 DEF Process, Where, ProjectCycleInv, ProjectTypes, Cycles, Notes
  <2> QED
    BY <1>9, <2>1, ProcessingAdmits DEF Process
<1>10. ASSUME NEW m \in Notes, NEW intent \in Asks, OwnerWrites(m, intent) PROVE UNCHANGED work
  BY <1>10 DEF OwnerWrites
<1>11. ASSUME NEW seen \in SUBSET Notes, BeginCycle(seen) PROVE UNCHANGED work
  BY <1>11 DEF BeginCycle
<1>12. CASE NextNote \/ ReconcileTask \/ Reconciled \/ Dispatched \/ HandedOver \/ Pended \/ Stopped \/ AnswerControl
  BY <1>1, <1>12 DEF NextNote, ReconcileTask, Reconciled, Dispatched, HandedOver, Pended, Stopped, AnswerControl, Answer
<1>13. CASE SavePlan \/ StatusAsked \/ Review \/ Deploy \/ RouteMessage \/ Deferred \/ Processed \/ Rejected \/ Stops
  BY <1>1, <1>13 DEF SavePlan, StatusAsked, Review, Deploy, RouteMessage, Received, Deferred, Processed, Rejected, Stops, Answer
<1> QED
  BY <1>1, <1>2, <1>3, <1>4, <1>5, <1>6, <1>7, <1>8, <1>9, <1>10, <1>11, <1>12, <1>13 DEF ProjectNext

-----------------------------------------------------------------------------
\* What may be saved over the snapshot: it is as precise as that, and forgets
\* a planner only when that has closed.
Written(d) ==
  /\ d \in Snapshots /\ Evident(d)
  /\ d.plan # 0 => d.plan = d.task
  /\ d.plan = coord.plan \/ (d.plan = 0 /\ (coord.plan # 0 => work[coord.plan].state = "closed"))
\* No message becomes handled by a planner.
SavedKeeps ==
  /\ saved' \in [Notes -> NoteRows]
  /\ \A m \in Notes : saved'[m].state = "planning" => saved'[m] = saved[m]

\* A revision found ready stays so.
LEMMA ReviewLasts ==
  ASSUME ProjectWorkInv, WorkMove, NEW v, Reviewed(v)
  PROVE  \E t \in Tasks : work'[t].role = "reviewer" /\ work'[t].report = [kind |-> "READY", rev |-> v]
<1>1. PICK t \in Tasks : work[t].role = "reviewer" /\ work[t].report = [kind |-> "READY", rev |-> v]
  BY DEF Reviewed
<1>2. work[t].report # NoReport
  BY <1>1 DEF NoReport, None
<1>3. work'[t] = work[t]
  BY <1>2 DEF ProjectWorkInv, WorkMove
<1> QED
  BY <1>1, <1>3

\* A snapshot that is written with evidence is kept with it.
LEMMA SnapshotKept ==
  ASSUME ProjectInv, WorkMove, SavedKeeps, NEW d, Written(d), coord' = d
  PROVE  coord' \in Snapshots /\ ProjectSnapshotInv' /\ ProjectSavedInv'
<1>1. d \in Snapshots /\ (d.plan # 0 => d.plan = d.task) /\ (d.accepted # None => d.accepted = d.preview)
  BY DEF Written, Evident
<1>2. d.preview # None /\ (d.verdict = "READY" \/ d.healthy = TRUE)
        => \E t \in Tasks : work'[t].role = "reviewer" /\ work'[t].report = [kind |-> "READY", rev |-> d.preview]
  BY ReviewLasts DEF Written, Evident, ProjectInv
<1>3. ProjectSnapshotInv'
  BY <1>1, <1>2 DEF ProjectSnapshotInv, Reviewed
<1>4. ASSUME NEW m \in Notes, saved'[m].state = "planning"
      PROVE  /\ saved'[m].task # 0 /\ work'[saved'[m].task].state # "none"
             /\ work'[saved'[m].task].state \in {"open", "stopping"} => d.plan = saved'[m].task
  <2>1. PICK t : t = saved[m].task
    OBVIOUS
  <2>2. saved'[m].task = t /\ saved[m].state = "planning"
    BY <1>4, <2>1 DEF SavedKeeps
  <2>3. t # 0 /\ work[t].state # "none" /\ (work[t].state \in {"open", "stopping"} => coord.plan = t)
    BY <2>1, <2>2 DEF ProjectInv, ProjectSavedInv
  <2>4. t \in Tasks
    BY <2>1, <2>3 DEF ProjectInv, ProjectTypes, NoteRows, Tasks
  <2>5. work'[t].state # "none" /\ (work[t].state = "closed" => work'[t].state = "closed")
    BY <2>3, <2>4 DEF WorkMove
  <2>6. work[t].state \in {"none", "open", "stopping", "closed"}
    BY <2>4 DEF ProjectInv, ProjectTypes, TaskRows
  <2>7. work'[t].state \in {"open", "stopping"} => d.plan = t
    BY <2>3, <2>5, <2>6 DEF Written
  <2> QED
    BY <2>2, <2>3, <2>5, <2>7
<1>5. ProjectSavedInv'
  BY <1>4 DEF ProjectSavedInv
<1> QED
  BY <1>1, <1>3, <1>5

\* A step that saves no snapshot keeps the saved one.
LEMMA CoordStands ==
  ASSUME ProjectInv, WorkMove, SavedKeeps, coord' = coord
  PROVE  coord' \in Snapshots /\ ProjectSnapshotInv' /\ ProjectSavedInv'
<1>1. Written(coord)
  BY DEF ProjectInv, ProjectTypes, ProjectSnapshotInv, Written, Evident
<1> QED
  BY <1>1, SnapshotKept

\* A step that leaves the messages alone.
LEMMA SavedStands ==
  ASSUME ProjectInv, UNCHANGED saved
  PROVE  SavedKeeps
  BY DEF ProjectInv, ProjectTypes, SavedKeeps

\* A row that changes, to anything but handled by a planner.
LEMMA SavedChanges ==
  ASSUME ProjectInv, NEW m, NEW row \in NoteRows, row.state # "planning", saved' = [saved EXCEPT ![m] = row]
  PROVE  SavedKeeps
  BY DEF ProjectInv, ProjectTypes, SavedKeeps

\* Any other row is marked done.
LEMMA SavedDone ==
  ASSUME ProjectInv, NEW m \in Notes
  PROVE  [saved[m] EXCEPT !.state = "done"] \in NoteRows /\ [saved[m] EXCEPT !.state = "done"].state = "done"
  BY DEF ProjectInv, ProjectTypes, NoteRows

\* A message that is marked done.
LEMMA AnsweredKeeps ==
  ASSUME ProjectInv, NEW m \in 0..Messages,
         saved' = saved \/ saved' = [saved EXCEPT ![m].state = "done"]
  PROVE  SavedKeeps
<1>1. CASE UNCHANGED saved
  BY <1>1, SavedStands
<1>2. CASE saved' = [saved EXCEPT ![m].state = "done"] /\ m \in Notes
  <2>1. PICK row : row = [saved[m] EXCEPT !.state = "done"]
    OBVIOUS
  <2>2. row \in NoteRows /\ row.state = "done"
    BY <1>2, <2>1, SavedDone
  <2>3. saved' = [saved EXCEPT ![m] = row]
    BY <1>2, <2>1
  <2> QED
    BY <2>2, <2>3, SavedChanges
<1>3. CASE saved' = [saved EXCEPT ![m].state = "done"] /\ m \notin Notes
  <2>1. saved' = saved
    BY <1>3 DEF ProjectInv, ProjectTypes
  <2> QED
    BY <2>1, SavedStands
<1> QED
  BY <1>1, <1>2, <1>3

\* Where the cycle goes, it goes with one snapshot.
CycleGoes(pcs) ==
  /\ cyc' \in Cycles /\ cyc'.pc \in pcs /\ (cyc'.own = FALSE => cyc'.held = cyc'.inner)
  /\ cyc'.pc \in {"choose", "answer", "stopped", "review", "deferred", "process"} => cyc'.own = FALSE
  /\ cyc'.pc \in {"choose", "stopped", "answer", "review", "process"} => cyc'.e # 0
PlainPcs == {"idle", "next", "reconcile", "reconciled", "handoff", "choose", "answer", "stopped", "review", "deferred", "process"}

\* A cycle at a plain step claims nothing of tasks.
LEMMA CycleKept ==
  ASSUME CycleGoes(PlainPcs)
  PROVE  cyc' \in Cycles /\ ProjectCycleInv'
  BY DEF CycleGoes, PlainPcs, ProjectCycleInv

\* Everything together.
LEMMA ProjectKept ==
  ASSUME ProjectInv, WorkMove, SavedKeeps, CycleGoes(PlainPcs), NEW d, Written(d), coord' = d
  PROVE  ProjectInv'
<1>1. coord' \in Snapshots /\ ProjectSnapshotInv' /\ ProjectSavedInv'
  BY SnapshotKept
<1>2. cyc' \in Cycles /\ ProjectCycleInv'
  BY CycleKept
<1>3. ProjectTypes' /\ ProjectWorkInv'
  BY <1>1, <1>2 DEF ProjectTypes, WorkMove, SavedKeeps
<1> QED
  BY <1>1, <1>2, <1>3 DEF ProjectInv

\* A step that saves no snapshot and ends at a plain step.
LEMMA ProjectStays ==
  ASSUME ProjectInv, WorkMove, SavedKeeps, CycleGoes(PlainPcs), coord' = coord
  PROVE  ProjectInv'
<1>1. Written(coord)
  BY DEF ProjectInv, ProjectTypes, ProjectSnapshotInv, Written, Evident
<1> QED
  BY <1>1, ProjectKept

\* A refusal goes back to the snapshot of the message.
LEMMA RejectKeeps ==
  ASSUME ProjectInv, WorkMove, Reject
  PROVE  ProjectInv'
<1>1. SavedKeeps
  <2>1. cyc.e \in 0..Messages
    BY DEF ProjectInv, ProjectTypes, Cycles
  <2> QED
    BY <2>1, AnsweredKeeps DEF Reject
<1>2. CycleGoes(PlainPcs)
  <2>1. CASE cyc.e = 0
    <3>1. AtEase \in Cycles /\ AtEase.pc = "idle" /\ AtEase.held = AtEase.inner
      <4>1. NoSnapshot \in Snapshots
        BY DEF NoSnapshot, Snapshots, ProjectPhases, AnyRole, Previews, ReportKinds
      <4> HIDE DEF NoSnapshot, Snapshots
      <4> QED
        BY <4>1 DEF AtEase, Cycles, ProjectPcs, AnyRole
    <3> QED
      BY <2>1, <3>1 DEF Reject, CycleGoes, PlainPcs
  <2>2. CASE cyc.e # 0
    <3>1. PICK c : c = [cyc EXCEPT !.pc = "next"]
      OBVIOUS
    <3>2. c \in Cycles /\ c.pc = "next" /\ c.held = cyc.held /\ cyc.held \in Snapshots
      <4>1. cyc \in Cycles /\ "next" \in ProjectPcs
        BY DEF ProjectInv, ProjectTypes, ProjectPcs
      <4> QED
        BY <3>1, <4>1, CycleFields DEF Cycles
    <3>3. cyc' = [c EXCEPT !.inner = cyc.held]
      BY <2>2, <3>1 DEF Reject
    <3>4. cyc' \in Cycles /\ cyc'.pc = "next" /\ cyc'.held = cyc.held /\ cyc'.inner = cyc.held
      BY <3>2, <3>3, CycleFields
    <3> QED
      BY <3>4 DEF CycleGoes, PlainPcs
  <2> QED
    BY <2>1, <2>2
<1> QED
  BY <1>1, <1>2, ProjectStays DEF Reject

\* Saving over the snapshot that was read, or a refusal.
LEMMA SaveKeeps ==
  ASSUME ProjectInv, WorkMove, NEW d \in Snapshots, NEW pc \in {"reconciled", "next", "answer", "review", "choose"},
         SaveState(d, pc), pc \in {"answer", "review", "choose"} => cyc.own = FALSE /\ cyc.e # 0,
         coord = cyc.inner => /\ Evident(d)
                              /\ d.plan = coord.plan \/ (d.plan = 0 /\ (coord.plan # 0 => work[coord.plan].state = "closed"))
  PROVE  ProjectInv'
<1>1. CASE Reject
  BY <1>1, RejectKeeps
<1>2. CASE coord = cyc.inner /\ (d.plan # 0 => d.plan = d.task) /\ coord' = d /\ cyc' = Holding(d, pc) /\ UNCHANGED saved
  <2>1. Written(d)
    BY <1>2 DEF Written
  <2>2. SavedKeeps
    BY <1>2, SavedStands
  <2>3. PICK c, h : c = [cyc EXCEPT !.inner = d] /\ h = IF cyc.own THEN cyc.held ELSE d
    OBVIOUS
  <2>4. cyc \in Cycles /\ pc \in ProjectPcs /\ cyc.held \in Snapshots /\ cyc.own \in BOOLEAN
    BY DEF ProjectInv, ProjectTypes, ProjectPcs, Cycles
  <2>5. c \in Cycles /\ c.inner = d /\ c.own = cyc.own /\ c.e = cyc.e /\ h \in Snapshots
    BY <2>3, <2>4, CycleFields
  <2>6. PICK b : b = [c EXCEPT !.held = h]
    OBVIOUS
  <2>7. b \in Cycles /\ b.inner = d /\ b.own = cyc.own /\ b.e = cyc.e /\ b.held = h
    BY <2>5, <2>6, CycleFields
  <2>8. cyc' = [b EXCEPT !.pc = pc]
    BY <1>2, <2>3, <2>6 DEF Holding, ProjectInv, ProjectTypes, Cycles
  <2>9. cyc' \in Cycles /\ cyc'.pc = pc /\ cyc'.inner = d /\ cyc'.own = cyc.own /\ cyc'.e = cyc.e /\ cyc'.held = h
    BY <2>4, <2>7, <2>8, CycleFields
  <2>10. cyc'.own = FALSE => cyc'.held = cyc'.inner
    BY <2>3, <2>9
  <2>11. CycleGoes(PlainPcs)
    BY <2>9, <2>10 DEF CycleGoes, PlainPcs
  <2> QED
    BY <1>2, <2>1, <2>2, <2>11, ProjectKept
<1> QED
  BY <1>1, <1>2 DEF SaveState

-----------------------------------------------------------------------------
\* The steps of agents, the owner and specialists leave the cycle alone.
LEMMA CycleStands ==
  ASSUME ProjectInv, WorkMove, UNCHANGED cyc
  PROVE  ProjectCycleInv'
<1>1. cyc \in Cycles /\ ProjectCycleInv
  BY DEF ProjectInv, ProjectTypes
<1>2. cyc.pc \in {"dispatch", "dispatched"} => work'[cyc.inner.task].state = "closed"
  <2> SUFFICES ASSUME cyc.pc \in {"dispatch", "dispatched"} PROVE work'[cyc.inner.task].state = "closed"
    OBVIOUS
  <2>1. cyc.inner.task # 0 /\ work[cyc.inner.task].state = "closed"
    BY <1>1 DEF ProjectCycleInv
  <2>2. cyc.inner.task \in Tasks
    BY <1>1, <2>1 DEF Cycles, Snapshots, Tasks
  <2> QED
    BY <2>1, <2>2 DEF WorkMove
<1>3. cyc.pc = "planning" => work'[cyc.task].state # "none"
  <2> SUFFICES ASSUME cyc.pc = "planning" PROVE work'[cyc.task].state # "none"
    OBVIOUS
  <2>1. cyc.task # 0 /\ work[cyc.task].state # "none"
    BY <1>1 DEF ProjectCycleInv
  <2>2. cyc.task \in Tasks
    BY <1>1, <2>1 DEF Cycles, Tasks
  <2> QED
    BY <2>1, <2>2 DEF WorkMove
<1> QED
  BY <1>1, <1>2, <1>3 DEF ProjectCycleInv

\* A specialist takes up a message: no planner is waited for by it.
LEMMA ProcessingKeeps ==
  ASSUME ProjectInv, NEW m \in Notes, NEW t \in Tasks, Processes(m, t)
  PROVE  SavedKeeps
<1>1. CASE saved' = saved \/ saved' = [saved EXCEPT ![m].state = "done"]
  <2>1. m \in 0..Messages
    BY DEF Notes
  <2> QED
    BY <1>1, <2>1, AnsweredKeeps
<1>2. CASE saved' = [saved EXCEPT ![m].state = "done", ![m].task = t]
  <2>1. PICK row, new : row = [saved[m] EXCEPT !.state = "done"] /\ new = [row EXCEPT !.task = t]
    OBVIOUS
  <2>2. row \in NoteRows /\ row.state = "done"
    BY <2>1, SavedDone
  <2>5. t \in 0..MaxTasks
    BY DEF Tasks
  <2>3. new \in NoteRows /\ new.state = "done"
    BY <2>1, <2>2, <2>5 DEF NoteRows
  <2>4. saved' = [saved EXCEPT ![m] = new]
    BY <1>2, <2>1 DEF ProjectInv, ProjectTypes
  <2> QED
    BY <2>3, <2>4, SavedChanges
<1> QED
  BY <1>1, <1>2 DEF Processes

\* A step that leaves the coordinator and its cycle alone.
LEMMA OthersKeep ==
  ASSUME ProjectInv, WorkMove, UNCHANGED <<coord, cyc>>, SavedKeeps
  PROVE  ProjectInv'
<1>1. coord' \in Snapshots /\ ProjectSnapshotInv' /\ ProjectSavedInv'
  BY CoordStands
<1>2. ProjectCycleInv'
  BY CycleStands
<1> QED
  BY <1>1, <1>2 DEF ProjectInv, ProjectTypes, WorkMove, SavedKeeps

\* The cycle moves to another step and keeps what it holds.
LEMMA CycleSteps ==
  ASSUME ProjectInv, NEW pc \in ProjectPcs, Moves(pc)
  PROVE  /\ cyc' \in Cycles /\ cyc'.pc = pc /\ cyc'.e = cyc.e /\ cyc'.held = cyc.held /\ cyc'.inner = cyc.inner
         /\ cyc'.own = cyc.own /\ cyc'.task = cyc.task
  BY CycleFields DEF ProjectInv, ProjectTypes, Moves

\* A message that is answered.
LEMMA NoteAnswered ==
  ASSUME ProjectInv, WorkMove, Answer
  PROVE  ProjectInv'
<1>1. SavedKeeps
  <2>1. cyc.e \in 0..Messages
    BY DEF ProjectInv, ProjectTypes, Cycles
  <2> QED
    BY <2>1, AnsweredKeeps DEF Answer
<1>2. CycleGoes(PlainPcs)
  <2>1. "next" \in ProjectPcs
    BY DEF ProjectPcs
  <2> QED
    BY <2>1, CycleSteps DEF Answer, CycleGoes, PlainPcs, ProjectInv, ProjectCycleInv
<1>3. coord' = coord
  BY DEF Answer
<1> QED
  BY <1>1, <1>2, <1>3, ProjectStays

\* The empty cycle, and one that begins.
LEMMA CycleAtRest ==
  AtEase \in Cycles /\ AtEase.pc = "idle" /\ AtEase.held = AtEase.inner /\ AtEase.own = FALSE /\ AtEase.task = 0 /\ AtEase.e = 0
<1>1. NoSnapshot \in Snapshots
  BY DEF NoSnapshot, Snapshots, ProjectPhases, AnyRole, Previews, ReportKinds
<1> HIDE DEF NoSnapshot, Snapshots
<1> QED
  BY <1>1 DEF AtEase, Cycles, ProjectPcs, AnyRole

\* The coordinator stops, wherever its cycle is.
LEMMA StopsKeeps ==
  ASSUME ProjectInv, WorkMove, Stops
  PROVE  ProjectInv'
<1>1. SavedKeeps
  BY SavedStands DEF Stops
<1>2. CycleGoes(PlainPcs)
  BY CycleAtRest DEF Stops, CycleGoes, PlainPcs
<1> QED
  BY <1>1, <1>2, ProjectStays DEF Stops

\* A cycle reads the saved snapshot.
LEMMA BeginCycleKeeps ==
  ASSUME ProjectInv, WorkMove, NEW seen \in SUBSET Notes, BeginCycle(seen)
  PROVE  ProjectInv'
<1>1. SavedKeeps
  BY SavedStands DEF BeginCycle
<1>2. CycleGoes(PlainPcs)
  <2>1. PICK a : a = [AtEase EXCEPT !.pc = "reconcile"]
    OBVIOUS
  <2>2. coord \in Snapshots /\ "reconcile" \in ProjectPcs
    BY DEF ProjectInv, ProjectTypes, ProjectPcs
  <2>3. a \in Cycles /\ a.pc = "reconcile"
    BY <2>1, <2>2, CycleAtRest, CycleFields
  <2>9. PICK b : b = [a EXCEPT !.todo = seen]
    OBVIOUS
  <2>4. b \in Cycles /\ b.pc = "reconcile"
    BY <2>3, <2>9, CycleFields
  <2>10. PICK c : c = [b EXCEPT !.held = coord]
    OBVIOUS
  <2>5. c \in Cycles /\ c.pc = "reconcile"
    BY <2>2, <2>4, <2>10, CycleFields
  <2>11. PICK d : d = [c EXCEPT !.inner = coord]
    OBVIOUS
  <2>6. d \in Cycles /\ d.pc = "reconcile"
    BY <2>2, <2>5, <2>11, CycleFields
  <2>7. cyc' = [d EXCEPT !.own = TRUE]
    BY <2>1, <2>9, <2>10, <2>11 DEF BeginCycle
  <2>8. cyc' \in Cycles /\ cyc'.pc = "reconcile" /\ cyc'.own = TRUE
    BY <2>6, <2>7, CycleFields
  <2> QED
    BY <2>8 DEF CycleGoes, PlainPcs
<1> QED
  BY <1>1, <1>2, ProjectStays DEF BeginCycle

\* The next message is taken with the snapshot of that moment.
LEMMA NextNoteKeeps ==
  ASSUME ProjectInv, WorkMove, NextNote
  PROVE  ProjectInv'
<1>1. SavedKeeps
  BY SavedStands DEF NextNote
<1>2. CycleGoes(PlainPcs)
  <2>1. CASE cyc.todo = {}
    BY <2>1, CycleAtRest DEF NextNote, CycleGoes, PlainPcs
  <2>2. CASE cyc.todo # {}
    <3>1. PICK m : m = CHOOSE x \in cyc.todo : \A y \in cyc.todo : x <= y
      OBVIOUS
    <3>2. cyc \in Cycles /\ cyc.pc = "next" /\ cyc.held \in Snapshots /\ cyc.todo \in SUBSET Notes
      BY DEF ProjectInv, ProjectTypes, Cycles, NextNote, Where
    <3>3. m \in cyc.todo
      <4>1. cyc.todo \in SUBSET Nat
        BY <3>2 DEF Notes
      <4>2. \E x \in cyc.todo : \A y \in cyc.todo : x <= y
        BY <2>2, <4>1, LeastRow
      <4> QED
        BY <3>1, <4>2
    <3>4. PICK a : a = [cyc EXCEPT !.todo = @ \ {m}]
      OBVIOUS
    <3>5. a \in Cycles /\ a.pc = "next" /\ a.held = cyc.held /\ a.inner = cyc.inner /\ a.own = cyc.own
      <4>1. cyc.todo \ {m} \in SUBSET Notes
        BY <3>2
      <4> QED
        BY <3>2, <3>4, <4>1, CycleFields
    <3>6. CASE saved[m].state # "none"
      <4>1. cyc' = a
        BY <2>2, <3>1, <3>4, <3>6 DEF NextNote
      <4> QED
        BY <3>5, <4>1 DEF CycleGoes, PlainPcs, ProjectInv, ProjectCycleInv
    <3>7. CASE saved[m].state = "none"
      <4>1. PICK b, c, d : b = [a EXCEPT !.e = m] /\ c = [b EXCEPT !.inner = cyc.held] /\ d = [c EXCEPT !.own = TRUE]
        OBVIOUS
      <4>2. m \in 0..Messages /\ "reconcile" \in ProjectPcs
        BY <3>2, <3>3 DEF Notes, ProjectPcs
      <4>3. b \in Cycles
        BY <3>5, <4>1, <4>2, CycleFields
      <4>4. c \in Cycles
        BY <3>2, <4>1, <4>3, CycleFields
      <4>5. d \in Cycles /\ d.own = TRUE
        BY <4>1, <4>4, CycleFields
      <4>6. cyc' = [d EXCEPT !.pc = "reconcile"]
        BY <2>2, <3>1, <3>4, <3>7, <4>1 DEF NextNote
      <4>7. cyc' \in Cycles /\ cyc'.pc = "reconcile" /\ cyc'.own = TRUE
        BY <4>2, <4>5, <4>6, CycleFields
      <4> QED
        BY <4>7 DEF CycleGoes, PlainPcs
    <3> QED
      BY <3>6, <3>7
  <2> QED
    BY <2>1, <2>2
<1> QED
  BY <1>1, <1>2, ProjectStays DEF NextNote

\* What the cycle reconciles with is a task that has closed.
LEMMA ReconcileTaskKeeps ==
  ASSUME ProjectInv, WorkMove, ReconcileTask
  PROVE  ProjectInv'
<1>1. PICK c, t : c = cyc.inner /\ t = c.task
  OBVIOUS
<1>2. cyc \in Cycles /\ c \in Snapshots /\ coord \in Snapshots /\ cyc.pc = "reconcile" /\ t \in 0..MaxTasks
  BY <1>1 DEF ProjectInv, ProjectTypes, Cycles, Snapshots, ReconcileTask, Where
<1>3. CASE t = 0 \/ work[t].state # "closed"
  <2>1. Moves("reconciled") /\ coord' = coord /\ UNCHANGED saved
    BY <1>1, <1>3 DEF ReconcileTask
  <2>2. CycleGoes(PlainPcs)
    <3>1. "reconciled" \in ProjectPcs
      BY DEF ProjectPcs
    <3> QED
      BY <2>1, <3>1, CycleSteps DEF CycleGoes, PlainPcs, ProjectInv, ProjectCycleInv
  <2> QED
    BY <2>1, <2>2, SavedStands, ProjectStays
<1>4. CASE t # 0 /\ work[t].state = "closed" /\ c.plan # 0
  <2>1. ASSUME NEW ph \in {"blocked", "intake"}, SaveState([Planned(c) EXCEPT !.phase = ph], "reconciled") PROVE ProjectInv'
    <3>1. Planned(c) \in Snapshots /\ SameEvidence(c, Planned(c)) /\ Planned(c).plan = 0
      BY <1>2, PlanEnds
    <3>2. PICK d : d = [Planned(c) EXCEPT !.phase = ph]
      OBVIOUS
    <3>3. d \in Snapshots /\ SameEvidence(c, d) /\ d.plan = 0
      <4>1. ph \in ProjectPhases
        BY DEF ProjectPhases
      <4> QED
        BY <3>1, <3>2, <4>1, PhaseChanges DEF SameEvidence
    <3>4. coord = cyc.inner => Evident(d) /\ d.plan = 0 /\ (coord.plan # 0 => work[coord.plan].state = "closed")
      BY <1>1, <1>4, <3>3 DEF ProjectInv, ProjectSnapshotInv, Evident, SameEvidence
    <3> QED
      BY <2>1, <3>2, <3>3, <3>4, SaveKeeps
  <2>2. ASSUME Moves("dispatch"), coord' = coord, UNCHANGED saved PROVE ProjectInv'
    <3>1. "dispatch" \in ProjectPcs
      BY DEF ProjectPcs
    <3>2. /\ cyc' \in Cycles /\ cyc'.pc = "dispatch" /\ cyc'.held = cyc.held /\ cyc'.inner = c /\ cyc'.own = cyc.own
      BY <1>1, <2>2, <3>1, CycleSteps
    <3>3. work'[t].state = "closed"
      BY <1>2, <1>4 DEF WorkMove, Tasks
    <3>4. ProjectCycleInv'
      BY <1>1, <1>4, <3>2, <3>3 DEF ProjectCycleInv, ProjectInv
    <3>5. coord' \in Snapshots /\ ProjectSnapshotInv' /\ ProjectSavedInv' /\ SavedKeeps
      BY <2>2, SavedStands, CoordStands
    <3> QED
      BY <3>2, <3>4, <3>5 DEF ProjectInv, ProjectTypes, WorkMove, SavedKeeps
  <2> QED
    BY <1>1, <1>4, <2>1, <2>2 DEF ReconcileTask
<1>5. CASE t # 0 /\ work[t].state = "closed" /\ c.plan = 0
  <2>1. PICK new, next : new = ApplyResult(c, t) /\ next = HandoffTarget(new, t)
    OBVIOUS
  <2>2. CASE Reject
    BY <2>2, RejectKeeps
  <2>3. CASE coord # c
    BY <1>1, <1>5, <2>1, <2>2, <2>3 DEF ReconcileTask
  <2>4. CASE coord = c
    <3>1. t \in Tasks /\ work[t].report \in Reports \cup {NoReport}
      BY <1>2, <1>5 DEF Tasks, ProjectInv, ProjectTypes, TaskRows
    <3>2. Evident(c)
      BY <2>4 DEF ProjectInv, ProjectSnapshotInv, Evident
    <3>3. new \in Snapshots /\ Evident(new) /\ new.plan = 0 /\ new.task = 0
      BY <1>2, <1>5, <2>1, <3>1, <3>2, ResultsApply
    <3>4. Written(new)
      BY <1>5, <2>4, <3>3 DEF Written
    <3>5. next \in AnyRole
      <4>1. new.handoff \in AnyRole
        BY <3>3 DEF Snapshots
      <4>2. {None, "builder", "reviewer", "deployer"} \subseteq AnyRole
        BY DEF AnyRole, Roles
      <4> QED
        BY <2>1, <4>1, <4>2 DEF HandoffTarget
    <3>6. PICK pc : pc = IF next = None THEN "reconciled" ELSE "handoff"
      OBVIOUS
    <3>7. PICK h : h = [Holding(new, pc) EXCEPT !.target = next]
      OBVIOUS
    <3>8. coord' = new /\ UNCHANGED saved /\ cyc' = [h EXCEPT !.task = t]
      BY <1>1, <1>5, <2>1, <2>4, <3>6, <3>7 DEF ReconcileTask
    <3>9. Holding(new, pc) \in Cycles /\ Holding(new, pc).pc = pc /\ Holding(new, pc).inner = new
          /\ (Holding(new, pc).own = FALSE => Holding(new, pc).held = new)
      <4>1. PICK i : i = [cyc EXCEPT !.inner = new]
        OBVIOUS
      <4>2. i \in Cycles /\ i.inner = new /\ i.own = cyc.own /\ i.held = cyc.held /\ cyc.held \in Snapshots /\ cyc.own \in BOOLEAN
        BY <1>2, <3>3, <4>1, CycleFields DEF Cycles
      <4>3. PICK g : g = IF cyc.own THEN cyc.held ELSE new
        OBVIOUS
      <4>4. g \in Snapshots /\ (cyc.own = FALSE => g = new)
        BY <3>3, <4>2, <4>3
      <4>5. PICK j : j = [i EXCEPT !.held = g]
        OBVIOUS
      <4>6. j \in Cycles /\ j.inner = new /\ j.own = cyc.own /\ j.held = g
        BY <4>2, <4>4, <4>5, CycleFields
      <4>7. Holding(new, pc) = [j EXCEPT !.pc = pc] /\ pc \in ProjectPcs
        BY <1>2, <3>6, <4>1, <4>3, <4>5 DEF Holding, Cycles, ProjectPcs
      <4>8. [j EXCEPT !.pc = pc] \in Cycles /\ [j EXCEPT !.pc = pc].pc = pc /\ [j EXCEPT !.pc = pc].inner = new
            /\ [j EXCEPT !.pc = pc].own = cyc.own /\ [j EXCEPT !.pc = pc].held = g
        BY <4>6, <4>7, CycleFields
      <4> QED
        BY <4>4, <4>7, <4>8
    <3>10. h \in Cycles /\ h.pc = pc /\ h.inner = new /\ (h.own = FALSE => h.held = new)
      BY <3>5, <3>7, <3>9, CycleFields
    <3>11. cyc' \in Cycles /\ cyc'.pc = pc /\ cyc'.inner = new /\ (cyc'.own = FALSE => cyc'.held = new)
      BY <1>2, <3>8, <3>10, CycleFields
    <3>12. CycleGoes(PlainPcs)
      BY <3>6, <3>11 DEF CycleGoes, PlainPcs
    <3> QED
      BY <3>4, <3>8, <3>12, SavedStands, ProjectKept
  <2> QED
    BY <2>3, <2>4
<1> QED
  BY <1>3, <1>4, <1>5

\* What follows a reconciliation.
LEMMA ReconciledKeeps ==
  ASSUME ProjectInv, WorkMove, Reconciled
  PROVE  ProjectInv'
<1>1. cyc \in Cycles /\ cyc.inner \in Snapshots
  BY DEF ProjectInv, ProjectTypes, Cycles
<1>2. PICK pc : pc = IF cyc.e # 0 THEN "choose" ELSE IF cyc.inner.pending # 0 /\ cyc.inner.task = 0 THEN "pending" ELSE "next"
  OBVIOUS
<1>3. pc \in ProjectPcs /\ (pc = "choose" => cyc.e # 0) /\ (pc = "pending" => cyc.inner.pending # 0) /\ pc \in {"choose", "pending", "next"}
  BY <1>2 DEF ProjectPcs
<1>4. PICK a : a = [cyc EXCEPT !.held = cyc.inner]
  OBVIOUS
<1>5. a \in Cycles /\ a.held = cyc.inner /\ a.inner = cyc.inner /\ a.e = cyc.e
  BY <1>1, <1>4, CycleFields
<1>6. PICK b : b = [a EXCEPT !.own = FALSE]
  OBVIOUS
<1>7. b \in Cycles /\ b.held = cyc.inner /\ b.inner = cyc.inner /\ b.e = cyc.e /\ b.own = FALSE
  BY <1>5, <1>6, CycleFields
<1>8. cyc' = [b EXCEPT !.pc = pc]
  BY <1>2, <1>4, <1>6 DEF Reconciled
<1>9. cyc' \in Cycles /\ cyc'.held = cyc.inner /\ cyc'.inner = cyc.inner /\ cyc'.e = cyc.e /\ cyc'.own = FALSE /\ cyc'.pc = pc
  BY <1>3, <1>7, <1>8, CycleFields
<1>10. ProjectCycleInv'
  BY <1>3, <1>9 DEF ProjectCycleInv
<1>11. coord' \in Snapshots /\ ProjectSnapshotInv' /\ ProjectSavedInv' /\ SavedKeeps
  BY SavedStands, CoordStands DEF Reconciled
<1> QED
  BY <1>9, <1>10, <1>11 DEF ProjectInv, ProjectTypes, WorkMove, SavedKeeps

\* An admission gives the cycle its task.
LEMMA CycleTakes ==
  ASSUME ProjectInv, NEW t \in Tasks, NEW pc \in ProjectPcs, cyc' = [cyc EXCEPT !.task = t, !.pc = pc]
  PROVE  /\ cyc' \in Cycles /\ cyc'.pc = pc /\ cyc'.e = cyc.e /\ cyc'.held = cyc.held /\ cyc'.inner = cyc.inner
         /\ cyc'.own = cyc.own /\ cyc'.task = t
<1>1. PICK a : a = [cyc EXCEPT !.task = t]
  OBVIOUS
<1>2. a \in Cycles /\ a.e = cyc.e /\ a.held = cyc.held /\ a.inner = cyc.inner /\ a.own = cyc.own /\ a.task = t
  <2>1. t \in 0..MaxTasks /\ cyc \in Cycles
    BY DEF Tasks, ProjectInv, ProjectTypes
  <2> QED
    BY <1>1, <2>1, CycleFields
<1>3. PICK b : b = [a EXCEPT !.pc = pc]
  OBVIOUS
<1>4. b \in Cycles /\ b.pc = pc /\ b.e = a.e /\ b.held = a.held /\ b.inner = a.inner /\ b.own = a.own /\ b.task = a.task
  BY <1>2, <1>3, CycleFields
<1>5. cyc' = b
  BY <1>1, <1>3
<1> QED
  BY <1>2, <1>4, <1>5

\* A step that saves no snapshot.
LEMMA ProjectTogether ==
  ASSUME ProjectInv, WorkMove, SavedKeeps, coord' = coord, cyc' \in Cycles, ProjectCycleInv'
  PROVE  ProjectInv'
<1>1. coord' \in Snapshots /\ ProjectSnapshotInv' /\ ProjectSavedInv'
  BY CoordStands
<1> QED
  BY <1>1 DEF ProjectInv, ProjectTypes, WorkMove, SavedKeeps

\* An admission saves nothing: it gives the cycle its task.
LEMMA AdmissionKept ==
  ASSUME ProjectInv, WorkMove, NEW t \in Tasks, UNCHANGED coord, SavedKeeps,
         \/ Where("dispatch") /\ cyc' = [cyc EXCEPT !.task = t, !.pc = "dispatched"]
         \/ Where("handoff") /\ cyc' = [cyc EXCEPT !.task = t, !.pc = "handed"]
         \/ Where("pending") /\ cyc' = [cyc EXCEPT !.task = t, !.pc = "pended"]
         \/ Where("process") /\ cyc' = [cyc EXCEPT !.task = t, !.pc = "processed"]
         \/ Where("choose") /\ cyc' = [cyc EXCEPT !.task = t, !.pc = "planning"] /\ cyc.held.task = 0 /\ work'[t].state # "none"
  PROVE  ProjectInv'
<1>1. PICK pc \in {"dispatched", "handed", "pended", "processed", "planning"} :
        /\ cyc' = [cyc EXCEPT !.task = t, !.pc = pc]
        /\ pc = "dispatched" => cyc.pc = "dispatch"
        /\ pc = "pended" => cyc.pc = "pending"
        /\ pc = "processed" => cyc.pc = "process"
        /\ pc = "planning" => cyc.pc = "choose" /\ cyc.held.task = 0 /\ work'[t].state # "none"
  BY DEF Where
<1>2. pc \in ProjectPcs
  BY DEF ProjectPcs
<1>3. /\ cyc' \in Cycles /\ cyc'.pc = pc /\ cyc'.e = cyc.e /\ cyc'.held = cyc.held /\ cyc'.inner = cyc.inner
      /\ cyc'.own = cyc.own /\ cyc'.task = t
  BY <1>1, <1>2, CycleTakes
<1>4. t # 0
  BY DEF Tasks
<1>5. ProjectCycleInv /\ cyc \in Cycles
  BY DEF ProjectInv, ProjectTypes
<1>6. pc = "dispatched" => cyc.inner.plan # 0 /\ cyc.inner.task # 0 /\ work'[cyc.inner.task].state = "closed"
  <2> SUFFICES ASSUME pc = "dispatched"
               PROVE  cyc.inner.plan # 0 /\ cyc.inner.task # 0 /\ work'[cyc.inner.task].state = "closed"
    OBVIOUS
  <2>1. cyc.inner.plan # 0 /\ cyc.inner.task # 0 /\ work[cyc.inner.task].state = "closed"
    BY <1>1, <1>5 DEF ProjectCycleInv
  <2>2. cyc.inner.task \in Tasks
    BY <1>5, <2>1 DEF Cycles, Snapshots, Tasks
  <2> QED
    BY <2>1, <2>2 DEF WorkMove
<1>7. ProjectCycleInv'
  BY <1>1, <1>3, <1>4, <1>5, <1>6 DEF ProjectCycleInv
<1> QED
  BY <1>3, <1>7, ProjectTogether

\* Every admission of the cycle.
LEMMA AdmissionsKeep ==
  ASSUME ProjectInv, WorkMove, NEW t \in Tasks,
         Dispatch(t) \/ Handoff(t) \/ Pending(t) \/ StartPlanning(t) \/ Process(t)
  PROVE  ProjectInv'
<1>1. CASE Dispatch(t) \/ Handoff(t)
  BY <1>1, SavedStands, AdmissionKept DEF Dispatch, Handoff
<1>2. CASE Pending(t)
  <2>1. cyc.inner.pending \in Notes
    BY <1>2 DEF Pending, Where, ProjectInv, ProjectCycleInv, ProjectTypes, Cycles, Snapshots, Notes
  <2> QED
    BY <1>2, <2>1, ProcessingKeeps, AdmissionKept DEF Pending
<1>3. CASE StartPlanning(t)
  <2>1. cyc.e \in Nat
    BY DEF ProjectInv, ProjectTypes, Cycles
  <2>2. <<"plan", cyc.e>> \in TaskKeys /\ <<"plan", cyc.e>> # <<>> /\ "planner" \in AnyRole
    BY <2>1 DEF TaskKeys, AnyRole
  <2>3. work'[t].state # "none"
    BY <1>3, <2>2, AdmissionAdds DEF StartPlanning, ProjectInv
  <2> QED
    BY <1>3, <2>3, SavedStands, AdmissionKept DEF StartPlanning, Candidate, Asking, Idle
<1>4. CASE Process(t)
  <2>1. cyc.e \in Notes
    BY <1>4 DEF Process, Where, ProjectInv, ProjectCycleInv, ProjectTypes, Cycles, Notes
  <2> QED
    BY <1>4, <2>1, ProcessingKeeps, AdmissionKept DEF Process
<1> QED
  BY <1>1, <1>2, <1>3, <1>4

\* A snapshot that only says more of where the work is.
LEMMA SameSaved ==
  ASSUME ProjectInv, WorkMove, NEW c, c = cyc.inner, NEW d \in Snapshots, SameEvidence(c, d), d.plan = c.plan,
         NEW pc \in {"reconciled", "next", "answer", "review", "choose"}, SaveState(d, pc),
         pc \in {"answer", "review", "choose"} => cyc.own = FALSE /\ cyc.e # 0
  PROVE  ProjectInv'
<1>1. coord = cyc.inner => Evident(d) /\ d.plan = coord.plan
  BY DEF ProjectInv, ProjectSnapshotInv, Evident, SameEvidence
<1> QED
  BY <1>1, SaveKeeps

\* The specialist of a plan's report has the task.
LEMMA DispatchedKeeps ==
  ASSUME ProjectInv, WorkMove, Dispatched
  PROVE  ProjectInv'
<1>1. PICK c, route : c = cyc.inner /\ route = work[c.plan].report.kind
  OBVIOUS
<1>2. /\ cyc \in Cycles /\ c \in Snapshots /\ coord \in Snapshots /\ cyc.task \in 0..MaxTasks
      /\ c.plan # 0 /\ c.task # 0 /\ work[c.task].state = "closed"
  BY <1>1 DEF Dispatched, Where, ProjectInv, ProjectTypes, ProjectCycleInv, Cycles
<1>3. PICK p : p = Planned(c)
  OBVIOUS
<1>4. p \in Snapshots /\ SameEvidence(c, p) /\ p.plan = 0
  BY <1>2, <1>3, PlanEnds
<1>5. FirstRole(route) \in AnyRole
  BY DEF FirstRole, AnyRole, Roles
<1>6. PICK w : w = Working(p, cyc.task, FirstRole(route))
  OBVIOUS
<1>7. w \in Snapshots /\ SameEvidence(p, w) /\ w.plan = 0
  BY <1>2, <1>4, <1>5, <1>6, WorkGoesOn
<1>8. PICK g : g = IF route = "research_then_build" THEN "builder" ELSE None
  OBVIOUS
<1>9. PICK d : d = [w EXCEPT !.handoff = g]
  OBVIOUS
<1>10. d \in Snapshots /\ SameEvidence(w, d) /\ d.plan = 0
  <2>1. g \in AnyRole
    BY <1>8 DEF AnyRole, Roles
  <2> QED
    BY <1>7, <1>9, <2>1, HandoffChanges
<1>11. coord = cyc.inner => Evident(d) /\ d.plan = 0 /\ (coord.plan # 0 => work[coord.plan].state = "closed")
  BY <1>1, <1>2, <1>4, <1>7, <1>10 DEF ProjectInv, ProjectSnapshotInv, Evident, SameEvidence
<1>12. SaveState(d, "reconciled")
  BY <1>1, <1>3, <1>6, <1>8, <1>9 DEF Dispatched
<1> QED
  BY <1>10, <1>11, <1>12, SaveKeeps

\* The specialist that was asked for has the task.
LEMMA HandedOverKeeps ==
  ASSUME ProjectInv, WorkMove, HandedOver
  PROVE  ProjectInv'
<1>1. PICK c : c = cyc.inner
  OBVIOUS
<1>2. cyc \in Cycles /\ c \in Snapshots /\ cyc.task \in 0..MaxTasks /\ cyc.target \in AnyRole
  BY <1>1 DEF ProjectInv, ProjectTypes, Cycles
<1>3. PICK w : w = Working(c, cyc.task, cyc.target)
  OBVIOUS
<1>4. w \in Snapshots /\ SameEvidence(c, w) /\ w.plan = c.plan
  BY <1>2, <1>3, WorkGoesOn
<1>5. PICK d : d = [w EXCEPT !.handoff = None]
  OBVIOUS
<1>6. d \in Snapshots /\ SameEvidence(c, d) /\ d.plan = c.plan
  <2>1. None \in AnyRole
    BY DEF AnyRole
  <2>2. d \in Snapshots /\ SameEvidence(w, d) /\ d.plan = w.plan
    BY <1>4, <1>5, <2>1, HandoffChanges
  <2> QED
    BY <1>4, <2>2 DEF SameEvidence
<1>7. PICK pc : pc = IF cyc.own THEN "reconciled" ELSE "next"
  OBVIOUS
<1>8. pc \in {"reconciled", "next"}
  BY <1>7
<1>9. SaveState(d, pc)
  BY <1>1, <1>3, <1>5, <1>7 DEF HandedOver
<1> QED
  BY <1>1, <1>6, <1>8, <1>9, SameSaved

\* A handler has its message's snapshot for the one it saves over.
LEMMA HandlerHolds ==
  ASSUME ProjectInv, cyc.pc \in {"choose", "stopped", "answer", "review", "deferred", "process", "processed", "planning", "pended"}
  PROVE  /\ cyc.own = FALSE /\ cyc.held = cyc.inner /\ cyc \in Cycles /\ cyc.held \in Snapshots
         /\ cyc.task \in 0..MaxTasks /\ cyc.e \in 0..Messages
  BY DEF ProjectInv, ProjectTypes, ProjectCycleInv, Cycles

\* The message that was left for later has its task.
LEMMA PendedKeeps ==
  ASSUME ProjectInv, WorkMove, Pended
  PROVE  ProjectInv'
<1>1. PICK c : c = cyc.inner
  OBVIOUS
<1>2. c \in Snapshots /\ cyc.task \in 0..MaxTasks /\ cyc.task # 0
  BY <1>1 DEF Pended, Where, ProjectInv, ProjectTypes, ProjectCycleInv, Cycles
<1>3. work[cyc.task].role \in AnyRole
  BY <1>2 DEF ProjectInv, ProjectTypes, TaskRows, Tasks
<1>4. PICK w : w = Working(c, cyc.task, work[cyc.task].role)
  OBVIOUS
<1>5. w \in Snapshots /\ SameEvidence(c, w) /\ w.plan = c.plan
  BY <1>2, <1>3, <1>4, WorkGoesOn
<1>6. PICK d : d = [w EXCEPT !.pending = 0]
  OBVIOUS
<1>7. d \in Snapshots /\ SameEvidence(c, d) /\ d.plan = c.plan
  <2>1. 0 \in 0..Messages
    OBVIOUS
  <2>2. d \in Snapshots /\ SameEvidence(w, d) /\ d.plan = w.plan
    BY <1>5, <1>6, <2>1, PendingChanges
  <2> QED
    BY <1>5, <2>2 DEF SameEvidence
<1>8. SaveState(d, "next")
  BY <1>1, <1>4, <1>6 DEF Pended
<1> QED
  BY <1>1, <1>7, <1>8, SameSaved

\* A message for a specialist has its task.
LEMMA ProcessedKeeps ==
  ASSUME ProjectInv, WorkMove, Processed
  PROVE  ProjectInv'
<1>1. cyc.own = FALSE /\ cyc.held = cyc.inner /\ cyc.held \in Snapshots /\ cyc.task \in 0..MaxTasks /\ cyc.task # 0
  BY HandlerHolds DEF Processed, Where, ProjectInv, ProjectCycleInv
<1>2. CASE OpenTask(cyc.task)
  <2>1. work[cyc.task].role \in AnyRole
    BY <1>1 DEF ProjectInv, ProjectTypes, TaskRows, Tasks
  <2>2. PICK d : d = Working(cyc.held, cyc.task, work[cyc.task].role)
    OBVIOUS
  <2>3. d \in Snapshots /\ SameEvidence(cyc.held, d) /\ d.plan = cyc.held.plan
    BY <1>1, <2>1, <2>2, WorkGoesOn
  <2>4. SaveState(d, "next")
    BY <1>2, <2>2 DEF Processed
  <2> QED
    BY <1>1, <2>3, <2>4, SameSaved
<1>3. CASE ~OpenTask(cyc.task)
  <2>1. Moves("next") /\ coord' = coord /\ UNCHANGED saved
    BY <1>3 DEF Processed
  <2>2. CycleGoes(PlainPcs)
    <3>1. "next" \in ProjectPcs
      BY DEF ProjectPcs
    <3> QED
      BY <1>1, <2>1, <3>1, CycleSteps DEF CycleGoes, PlainPcs
  <2> QED
    BY <2>1, <2>2, SavedStands, ProjectStays
<1> QED
  BY <1>2, <1>3

\* The owner's commands to the project.
LEMMA CommandedKeeps ==
  ASSUME ProjectInv, WorkMove, Control
  PROVE  ProjectInv'
<1>1. PICK c : c = cyc.held
  OBVIOUS
<1>2. cyc.own = FALSE /\ c = cyc.inner /\ c \in Snapshots /\ cyc.e # 0 /\ cyc.pc = "choose"
  BY <1>1, HandlerHolds DEF Control, Asking, Where, ProjectInv, ProjectCycleInv
<1>3. CASE Answer
  BY <1>3, NoteAnswered
<1>4. CASE Moves("stopped") /\ UNCHANGED <<coord, saved>>
  <2>1. CycleGoes(PlainPcs)
    <3>1. "stopped" \in ProjectPcs
      BY DEF ProjectPcs
    <3> QED
      BY <1>1, <1>2, <1>4, <3>1, CycleSteps DEF CycleGoes, PlainPcs
  <2> QED
    BY <1>4, <2>1, SavedStands, ProjectStays
<1>5. ASSUME NEW ph, ph = IF note[cyc.e] = "pause" THEN "paused" ELSE PhaseOf(c.role), SaveState([c EXCEPT !.phase = ph], "answer")
      PROVE  ProjectInv'
  <2>1. ph \in ProjectPhases
    <3>1. PhaseOf(c.role) \in ProjectPhases
      BY DEF PhaseOf, ProjectPhases
    <3>2. "paused" \in ProjectPhases
      BY DEF ProjectPhases
    <3> QED
      BY <1>5, <3>1, <3>2
  <2>2. PICK d : d = [c EXCEPT !.phase = ph]
    OBVIOUS
  <2>3. d \in Snapshots /\ SameEvidence(c, d) /\ d.plan = c.plan
    BY <1>2, <2>1, <2>2, PhaseChanges
  <2> QED
    BY <1>2, <1>5, <2>2, <2>3, SameSaved
<1>6. PICK ph : ph = IF note[cyc.e] = "pause" THEN "paused" ELSE PhaseOf(c.role)
  OBVIOUS
<1>7. \/ Answer
      \/ Moves("stopped") /\ UNCHANGED <<coord, saved>>
      \/ SaveState([c EXCEPT !.phase = ph], "answer")
  BY <1>1, <1>6 DEF Control
<1> QED
  BY <1>3, <1>4, <1>5, <1>6, <1>7

\* A stop that was carried out.
LEMMA StoppedKeeps ==
  ASSUME ProjectInv, WorkMove, Stopped
  PROVE  ProjectInv'
<1>1. cyc.own = FALSE /\ cyc.held = cyc.inner /\ cyc.held \in Snapshots
  BY HandlerHolds DEF Stopped, Where
<1>2. CASE cyc.e # 0
  <2>1. Cleared(cyc.held) \in Snapshots /\ SameEvidence(cyc.held, Cleared(cyc.held)) /\ Cleared(cyc.held).plan = cyc.held.plan
    BY <1>1, StopClears
  <2>2. PICK d : d = Cleared(cyc.held)
    OBVIOUS
  <2> QED
    BY <1>1, <1>2, <2>1, <2>2, SameSaved DEF Stopped
<1>3. cyc.e # 0
  BY DEF Stopped, Where, ProjectInv, ProjectCycleInv
<1> QED
  BY <1>2, <1>3

\* A planner is waited for from the save that names it.
LEMMA SavePlanKeeps ==
  ASSUME ProjectInv, WorkMove, SavePlan
  PROVE  ProjectInv'
<1>1. /\ cyc.own = FALSE /\ cyc.held = cyc.inner /\ cyc \in Cycles /\ cyc.held \in Snapshots /\ cyc.pc = "planning"
      /\ cyc.task \in 0..MaxTasks /\ cyc.e \in 0..Messages
  BY HandlerHolds DEF SavePlan, Where
<1>2. cyc.e # 0 /\ cyc.held.task = 0 /\ cyc.task # 0 /\ work[cyc.task].state # "none"
  BY <1>1 DEF ProjectInv, ProjectCycleInv
<1>3. CASE Reject
  BY <1>3, RejectKeeps
<1>4. CASE coord # cyc.held
  BY <1>3, <1>4 DEF SavePlan
<1>5. CASE coord = cyc.held
  <2>1. PICK c : c = [cyc.held EXCEPT !.role = "researcher", !.task = cyc.task, !.plan = cyc.task, !.src = cyc.e, !.phase = "planning"]
    OBVIOUS
  <2>2. c \in Snapshots /\ SameEvidence(cyc.held, c) /\ c.plan = cyc.task /\ c.task = cyc.task
    <3>1. "planning" \in ProjectPhases /\ "researcher" \in AnyRole
      BY DEF ProjectPhases, AnyRole, Roles
    <3> QED
      BY <1>1, <2>1, <3>1 DEF Snapshots, SameEvidence
  <2>3. /\ coord' = c /\ cyc' = Holding(c, "next")
        /\ saved' = [saved EXCEPT ![cyc.e].state = "planning", ![cyc.e].task = cyc.task]
    BY <1>5, <2>1 DEF SavePlan
  <2>4. coord.plan = 0
    BY <1>2, <1>5 DEF ProjectInv, ProjectSnapshotInv
  <2>5. cyc.e \in Notes /\ cyc.task \in Tasks
    BY <1>1, <1>2 DEF Notes, Tasks
  <2>6. PICK row, new : row = [saved[cyc.e] EXCEPT !.state = "planning"] /\ new = [row EXCEPT !.task = cyc.task]
    OBVIOUS
  <2>7. row \in NoteRows /\ row.state = "planning"
    BY <2>5, <2>6 DEF ProjectInv, ProjectTypes, NoteRows
  <2>8. new \in NoteRows /\ new.state = "planning" /\ new.task = cyc.task
    BY <1>1, <2>6, <2>7 DEF NoteRows
  <2>9. saved' = [saved EXCEPT ![cyc.e] = new]
    BY <2>3, <2>6 DEF ProjectInv, ProjectTypes
  <2>10. saved' \in [Notes -> NoteRows]
    BY <2>8, <2>9 DEF ProjectInv, ProjectTypes
  <2>11. work'[cyc.task].state # "none"
    BY <1>2, <2>5 DEF WorkMove
  <2>12. ASSUME NEW m \in Notes, saved'[m].state = "planning"
         PROVE  /\ saved'[m].task # 0 /\ work'[saved'[m].task].state # "none"
                /\ work'[saved'[m].task].state \in {"open", "stopping"} => c.plan = saved'[m].task
    <3>1. CASE m = cyc.e
      <4>1. saved'[m] = new
        BY <2>5, <2>9, <3>1 DEF ProjectInv, ProjectTypes
      <4> QED
        BY <1>2, <2>2, <2>8, <2>11, <4>1
    <3>2. CASE m # cyc.e
      <4>1. saved'[m] = saved[m]
        BY <2>9, <3>2 DEF ProjectInv, ProjectTypes
      <4>2. PICK t : t = saved[m].task
        OBVIOUS
      <4>3. t # 0 /\ work[t].state # "none" /\ (work[t].state \in {"open", "stopping"} => coord.plan = t)
        BY <2>12, <4>1, <4>2 DEF ProjectInv, ProjectSavedInv
      <4>4. t \in Tasks
        BY <4>2, <4>3 DEF ProjectInv, ProjectTypes, NoteRows, Tasks
      <4>5. work[t].state = "closed"
        BY <2>4, <4>3, <4>4 DEF ProjectInv, ProjectTypes, TaskRows
      <4>6. work'[t].state = "closed"
        BY <4>4, <4>5 DEF WorkMove
      <4> QED
        BY <4>1, <4>2, <4>3, <4>6
    <3> QED
      BY <3>1, <3>2
  <2>13. ProjectSavedInv'
    BY <2>3, <2>12 DEF ProjectSavedInv
  <2>14. ProjectSnapshotInv'
    <3>1. Evident(c)
      BY <1>5, <2>2 DEF ProjectInv, ProjectSnapshotInv, Evident, SameEvidence
    <3>2. c.preview # None /\ (c.verdict = "READY" \/ c.healthy = TRUE)
            => \E t \in Tasks : work'[t].role = "reviewer" /\ work'[t].report = [kind |-> "READY", rev |-> c.preview]
      BY <3>1, ReviewLasts DEF Evident, ProjectInv
    <3> QED
      BY <2>2, <2>3, <3>1, <3>2 DEF ProjectSnapshotInv, Reviewed, Evident
  <2>15. PICK a : a = [cyc EXCEPT !.inner = c]
    OBVIOUS
  <2>16. a \in Cycles /\ a.inner = c /\ a.own = FALSE
    BY <1>1, <2>2, <2>15, CycleFields
  <2>17. PICK b : b = [a EXCEPT !.held = c]
    OBVIOUS
  <2>18. b \in Cycles /\ b.inner = c /\ b.held = c /\ b.own = FALSE
    BY <2>2, <2>16, <2>17, CycleFields
  <2>19. cyc' = [b EXCEPT !.pc = "next"]
    BY <1>1, <2>3, <2>15, <2>17 DEF Holding, Cycles
  <2>20. cyc' \in Cycles /\ cyc'.pc = "next" /\ cyc'.inner = c /\ cyc'.held = c
    <3>1. "next" \in ProjectPcs
      BY DEF ProjectPcs
    <3> QED
      BY <2>18, <2>19, <3>1, CycleFields
  <2>21. ProjectCycleInv'
    BY <2>20 DEF ProjectCycleInv
  <2> QED
    BY <2>2, <2>3, <2>10, <2>13, <2>14, <2>20, <2>21 DEF ProjectInv, ProjectTypes, WorkMove
<1> QED
  BY <1>4, <1>5

\* A handler asks for a specialist.
LEMMA AskingKeeps ==
  ASSUME ProjectInv, WorkMove, cyc.own = FALSE, SavedKeeps, UNCHANGED coord, NEW r \in AnyRole, NEW t \in 0..MaxTasks,
         cyc' = [cyc EXCEPT !.target = r, !.task = t, !.pc = "handoff"]
  PROVE  ProjectInv'
<1>1. PICK a : a = [cyc EXCEPT !.target = r]
  OBVIOUS
<1>2. cyc \in Cycles /\ cyc.held = cyc.inner /\ "handoff" \in ProjectPcs
  BY DEF ProjectInv, ProjectTypes, ProjectCycleInv, ProjectPcs
<1>3. a \in Cycles /\ a.held = cyc.held /\ a.inner = cyc.inner
  BY <1>1, <1>2, CycleFields
<1>4. PICK b : b = [a EXCEPT !.task = t]
  OBVIOUS
<1>5. b \in Cycles /\ b.held = cyc.held /\ b.inner = cyc.inner
  BY <1>3, <1>4, CycleFields
<1>6. PICK d : d = [b EXCEPT !.pc = "handoff"]
  OBVIOUS
<1>9. d \in Cycles /\ d.held = b.held /\ d.inner = b.inner /\ d.pc = "handoff"
  BY <1>2, <1>5, <1>6, CycleFields
<1>7. cyc' \in Cycles /\ cyc'.held = cyc.held /\ cyc'.inner = cyc.inner /\ cyc'.pc = "handoff"
  <2>1. cyc' = d
    BY <1>1, <1>4, <1>6
  <2> QED
    BY <1>3, <1>5, <1>9, <2>1
<1>8. CycleGoes(PlainPcs)
  BY <1>2, <1>7 DEF CycleGoes, PlainPcs
<1> QED
  BY <1>8, ProjectStays

\* The message's row is marked done, with the latest task.
LEMMA SavedDoneWith ==
  ASSUME ProjectInv, NEW m \in Notes, NEW t \in 0..MaxTasks, saved' = [saved EXCEPT ![m].state = "done", ![m].task = t]
  PROVE  SavedKeeps
<1>1. PICK row : row = [saved[m] EXCEPT !.state = "done"]
  OBVIOUS
<1>2. row \in NoteRows /\ row.state = "done"
  BY <1>1, SavedDone
<1>3. PICK new : new = [row EXCEPT !.task = t]
  OBVIOUS
<1>4. new \in NoteRows /\ new.state = "done"
  BY <1>2, <1>3 DEF NoteRows
<1>5. saved' = [saved EXCEPT ![m] = new]
  BY <1>1, <1>3 DEF ProjectInv, ProjectTypes
<1> QED
  BY <1>4, <1>5, SavedChanges

\* A review is asked for.
LEMMA ReviewKeeps ==
  ASSUME ProjectInv, WorkMove, Review
  PROVE  ProjectInv'
<1>1. PICK c : c = cyc.held
  OBVIOUS
<1>2. cyc.pc \in {"choose", "review"}
  BY DEF Review, Asking, Where
<1>3. cyc.own = FALSE /\ c = cyc.inner /\ c \in Snapshots /\ cyc.e \in 0..Messages
  BY <1>1, <1>2, HandlerHolds
<1>4. cyc.e # 0 /\ c.latest \in 0..MaxTasks
  BY <1>2, <1>3 DEF ProjectInv, ProjectCycleInv, Snapshots
<1>5. CASE Answer
  BY <1>5, NoteAnswered
<1>6. CASE SaveState(AcceptPreview(c), "review")
  <2>1. PICK d : d = AcceptPreview(c)
    OBVIOUS
  <2>2. /\ d \in Snapshots /\ d.preview = c.preview /\ d.accepted = c.preview
        /\ d.verdict = c.verdict /\ d.healthy = c.healthy /\ d.plan = c.plan
    BY <1>3, <2>1, OwnerAccepts
  <2>3. coord = cyc.inner => Evident(d) /\ d.plan = coord.plan
    BY <1>3, <2>2 DEF ProjectInv, ProjectSnapshotInv, Evident
  <2> QED
    BY <1>3, <1>4, <1>6, <2>1, <2>2, <2>3, SaveKeeps
<1>7. CASE /\ saved' = [saved EXCEPT ![cyc.e].state = "done", ![cyc.e].task = c.latest]
           /\ cyc' = [cyc EXCEPT !.target = "reviewer", !.task = c.latest, !.pc = "handoff"] /\ UNCHANGED coord
  <2>1. cyc.e \in Notes
    BY <1>3, <1>4 DEF Notes
  <2>2. SavedKeeps
    BY <1>4, <1>7, <2>1, SavedDoneWith
  <2>3. "reviewer" \in AnyRole
    BY DEF AnyRole, Roles
  <2> QED
    BY <1>3, <1>4, <1>7, <2>2, <2>3, AskingKeeps
<1> QED
  BY <1>1, <1>5, <1>6, <1>7 DEF Review

\* A release is asked for.
LEMMA DeployKeeps ==
  ASSUME ProjectInv, WorkMove, Deploy
  PROVE  ProjectInv'
<1>1. PICK c, t : c = cyc.held /\ t = IF Successful(c.latest) THEN c.latest ELSE 0
  OBVIOUS
<1>2. cyc.own = FALSE /\ c \in Snapshots /\ cyc.e \in 0..Messages
  BY <1>1, HandlerHolds DEF Deploy, Asking, Where
<1>3. t \in 0..MaxTasks
  BY <1>1, <1>2 DEF Snapshots
<1>4. CASE Answer
  BY <1>4, NoteAnswered
<1>5. CASE /\ saved' = [saved EXCEPT ![cyc.e].state = "done"] /\ UNCHANGED coord
           /\ cyc' = [cyc EXCEPT !.target = "deployer", !.task = t, !.pc = "handoff"]
  <2>1. SavedKeeps
    BY <1>2, <1>5, AnsweredKeeps
  <2>2. "deployer" \in AnyRole
    BY DEF AnyRole, Roles
  <2> QED
    BY <1>2, <1>3, <1>5, <2>1, <2>2, AskingKeeps
<1> QED
  BY <1>1, <1>4, <1>5 DEF Deploy

\* A message is routed to a specialist, or left for later.
LEMMA RouteMessageKeeps ==
  ASSUME ProjectInv, WorkMove, RouteMessage
  PROVE  ProjectInv'
<1>1. PICK c : c = cyc.held
  OBVIOUS
<1>2. cyc.own = FALSE /\ c = cyc.inner /\ c \in Snapshots /\ cyc.e \in 0..Messages /\ cyc.e # 0
  BY <1>1, HandlerHolds DEF RouteMessage, Routed, Where, ProjectInv, ProjectCycleInv
<1>3. CASE Answer
  BY <1>3, NoteAnswered
<1>4. CASE SaveState([c EXCEPT !.handoff = "builder"], "choose")
  <2>1. PICK d : d = [c EXCEPT !.handoff = "builder"]
    OBVIOUS
  <2>2. d \in Snapshots /\ SameEvidence(c, d) /\ d.plan = c.plan
    <3>1. "builder" \in AnyRole
      BY DEF AnyRole, Roles
    <3> QED
      BY <1>2, <2>1, <3>1, HandoffChanges
  <2> QED
    BY <1>2, <1>4, <2>1, <2>2, SameSaved
<1>5. ASSUME NEW act \in {"start", "guide"}, NEW t \in 0..MaxTasks, NEW pc \in {"deferred", "process"}, Received(act, t), Moves(pc)
      PROVE  ProjectInv'
  <2>1. Selected \in AnyRole
    <3>1. c.role \in AnyRole
      BY <1>2 DEF Snapshots
    <3>2. {"reviewer", "researcher", "builder"} \subseteq AnyRole
      BY DEF AnyRole, Roles
    <3> QED
      BY <1>1, <3>1, <3>2 DEF Selected
  <2>2. PICK row : row = [state |-> "received", task |-> t, role |-> Selected, act |-> act]
    OBVIOUS
  <2>3. row \in NoteRows /\ row.state = "received"
    BY <2>1, <2>2 DEF NoteRows
  <2>4. saved' = [saved EXCEPT ![cyc.e] = row] /\ coord' = coord
    BY <1>5, <2>2 DEF Received
  <2>5. SavedKeeps
    BY <2>3, <2>4, SavedChanges
  <2>6. CycleGoes(PlainPcs)
    <3>1. pc \in ProjectPcs
      BY DEF ProjectPcs
    <3> QED
      BY <1>1, <1>2, <1>5, <3>1, CycleSteps DEF CycleGoes, PlainPcs
  <2> QED
    BY <2>4, <2>5, <2>6, ProjectStays
<1>6. c.task \in 0..MaxTasks /\ 0 \in 0..MaxTasks
  BY <1>2 DEF Snapshots
<1>7. \/ Answer
      \/ SaveState([c EXCEPT !.handoff = "builder"], "choose")
      \/ Received("start", c.task) /\ Moves("deferred")
      \/ (Received("start", 0) \/ Received("guide", c.task)) /\ Moves("process")
  BY <1>1 DEF RouteMessage
<1> QED
  BY <1>3, <1>4, <1>5, <1>6, <1>7

\* A message that is left for later.
LEMMA DeferredKeeps ==
  ASSUME ProjectInv, WorkMove, Deferred
  PROVE  ProjectInv'
<1>1. cyc.own = FALSE /\ cyc.held = cyc.inner /\ cyc.held \in Snapshots /\ cyc.e \in 0..Messages
  BY HandlerHolds DEF Deferred, Where
<1>2. PICK d : d = [cyc.held EXCEPT !.pending = cyc.e]
  OBVIOUS
<1>3. d \in Snapshots /\ SameEvidence(cyc.held, d) /\ d.plan = cyc.held.plan
  BY <1>1, <1>2, PendingChanges
<1>4. SaveState(d, "next")
  BY <1>2 DEF Deferred
<1> QED
  BY <1>1, <1>3, <1>4, SameSaved

\* Every step keeps the invariant.
LEMMA ProjectSteps == ProjectInv /\ (ProjectNext \/ UNCHANGED projectVars) => ProjectInv'
<1> SUFFICES ASSUME ProjectInv, ProjectNext \/ UNCHANGED projectVars PROVE ProjectInv'
  OBVIOUS
<1>1. CASE UNCHANGED projectVars
  <2>1. WorkMove
    BY <1>1, WorkStands DEF projectVars, ProjectInv
  <2> QED
    BY <1>1, <2>1, SavedStands, OthersKeep DEF projectVars
<1>2. CASE ProjectNext
  <2>1. WorkMove
    BY <1>2, TasksMove DEF ProjectInv
  <2>2. ASSUME NEW m \in Notes, NEW intent \in Asks, OwnerWrites(m, intent) PROVE ProjectInv'
    BY <2>1, <2>2, SavedStands, OthersKeep DEF OwnerWrites
  <2>3. ASSUME NEW t \in Tasks, NEW report \in Reports \cup {NoReport}, TaskCloses(t, report) PROVE ProjectInv'
    BY <2>1, <2>3, SavedStands, OthersKeep DEF TaskCloses
  <2>4. ASSUME NEW t \in Tasks, NEW m \in Notes, SpecialistIngress(m, t) PROVE ProjectInv'
    BY <2>1, <2>4, ProcessingKeeps, OthersKeep DEF SpecialistIngress
  <2>5. ASSUME NEW seen \in SUBSET Notes, BeginCycle(seen) PROVE ProjectInv'
    BY <2>1, <2>5, BeginCycleKeeps
  <2>6. CASE NextNote \/ ReconcileTask \/ Reconciled \/ Dispatched \/ HandedOver \/ Pended
    BY <2>1, <2>6, NextNoteKeeps, ReconcileTaskKeeps, ReconciledKeeps, DispatchedKeeps, HandedOverKeeps, PendedKeeps
  <2>7. CASE Control \/ Stopped \/ SavePlan \/ Review \/ Deploy \/ RouteMessage \/ Deferred \/ Processed \/ Stops
    BY <2>1, <2>7, CommandedKeeps, StoppedKeeps, SavePlanKeeps, ReviewKeeps, DeployKeeps, RouteMessageKeeps, DeferredKeeps,
       ProcessedKeeps, StopsKeeps
  <2>8. CASE AnswerControl \/ StatusAsked
    BY <2>1, <2>8, NoteAnswered DEF AnswerControl, StatusAsked
  <2>9. CASE Rejected
    BY <2>1, <2>9, RejectKeeps DEF Rejected
  <2>10. ASSUME NEW t \in Tasks, Dispatch(t) \/ Handoff(t) \/ Pending(t) \/ StartPlanning(t) \/ Process(t) PROVE ProjectInv'
    BY <2>1, <2>10, AdmissionsKeep
  <2> QED
    BY <1>2, <2>2, <2>3, <2>4, <2>5, <2>6, <2>7, <2>8, <2>9, <2>10 DEF ProjectNext
<1> QED
  BY <1>1, <1>2

\* The invariant says what the promise says.
LEMMA ProjectInvIsEnough == ProjectInv => ProjectsArePrecise
<1> SUFFICES ASSUME ProjectInv PROVE ProjectsArePrecise
  OBVIOUS
<1>1. coord.preview # None /\ (coord.verdict = "READY" \/ coord.healthy) => Reviewed(coord.preview)
  BY DEF ProjectInv, ProjectSnapshotInv
<1>2. \A m \in Notes : saved[m].state = "planning" /\ OpenTask(saved[m].task) => coord.plan = saved[m].task
  BY DEF ProjectInv, ProjectSavedInv, OpenTask
<1> QED
  BY <1>1, <1>2 DEF ProjectsArePrecise

-----------------------------------------------------------------------------
(* Each part keeps its invariant in the deployment. *)

ReleasePart == part = "release" => ReleaseInv
AuthPart == part = "auth" => AuthInv
TerminalPart == part = "terminal" => TerminalInv
TransferPart == part = "transfer" => TransferInv
SpacePart == part = "space" => SpaceInv
WorkerPart == part = "worker" => WorkerInv
LibraryPart == part = "library" => LibraryInv
ReviewPart == part = "review" => ReviewInv
MailPart == part = "mail" => MailInv
BrowserPart == part = "browser" => BrowserInv
ProjectPart == part = "project" => ProjectInv
ReaderPart == part = "reader" => ReadingFits(doc, ask, pass, given)

(***************************************************************************)
(* scripts/release.py: after any number of attempts, failures and killed    *)
(* commands the journal is verified only with the proof of its attempt, and *)
(* the candidate runs only over rows that were recorded.                    *)
(***************************************************************************)
THEOREM ReleaseIsProven == Spec => []ReleaseKeepsItsProof
<1>1. Init => ReleasePart
  BY ReleaseBegins DEF Init, ReleasePart
<1>2. ReleasePart /\ [Next]_vars => ReleasePart'
  <2> SUFFICES ASSUME ReleasePart, [Next]_vars, part' = "release" PROVE ReleaseInv'
    BY DEF ReleasePart
  <2>1. CASE ReleaseNext /\ part = "release"
    BY <2>1, ReleaseSteps DEF ReleasePart
  <2>2. CASE UNCHANGED vars
    BY <2>2, ReleaseSteps DEF ReleasePart, vars, releaseVars
  <2> QED
    BY <2>1, <2>2 DEF Next
<1>3. ReleasePart => ReleaseKeepsItsProof
  BY ReleaseInvIsEnough DEF ReleasePart, ReleaseKeepsItsProof
<1> QED
  BY <1>1, <1>2, <1>3, PTL DEF Spec

(***************************************************************************)
(* The owner's terminal: what runs on the worker is counted, through        *)
(* cancelled and failed spawns and until the processes of a closed shell    *)
(* are gone; no tab has two shells and the capacity is never passed.        *)
(***************************************************************************)
THEOREM ShellsStayCounted == Spec => []ShellsAreCounted
<1>1. Init => TerminalPart
  BY TerminalBegins DEF Init, TerminalPart
<1>2. TerminalPart /\ [Next]_vars => TerminalPart'
  <2> SUFFICES ASSUME TerminalPart, [Next]_vars, part' = "terminal" PROVE TerminalInv'
    BY DEF TerminalPart
  <2>1. CASE TerminalNext /\ part = "terminal"
    BY <2>1, TerminalSteps DEF TerminalPart
  <2>2. CASE UNCHANGED vars
    BY <2>2, TerminalSteps DEF TerminalPart, vars, terminalVars
  <2> QED
    BY <2>1, <2>2 DEF Next
<1>3. TerminalPart => ShellsAreCounted
  BY TerminalInvIsEnough DEF TerminalPart, ShellsAreCounted
<1> QED
  BY <1>1, <1>2, <1>3, PTL DEF Spec

(***************************************************************************)
(* AuthService: of the callers that race with one code at most one is let   *)
(* in, a revoked session stays revoked and no renewal outlasts the absolute *)
(* end of its session.                                                      *)
(***************************************************************************)
THEOREM CodesAreSpent == Spec => CodesAreSpentOnce
<1>1. Init => AuthPart
  BY AuthBegins DEF Init, AuthPart
<1>2. AuthPart /\ [Next]_vars => AuthPart' /\ (part = "auth" => SpentInStep)
  <2> SUFFICES ASSUME AuthPart, [Next]_vars, part = "auth" \/ part' = "auth"
               PROVE  AuthInv' /\ SpentInStep
    BY DEF AuthPart
  <2>1. CASE AuthNext /\ part = "auth"
    BY <2>1, AuthSteps DEF AuthPart
  <2>2. CASE UNCHANGED vars
    BY <2>2, AuthSteps DEF AuthPart, vars, authVars
  <2> QED
    BY <2>1, <2>2 DEF Next
<1>3. AuthPart /\ [Next]_vars => [part = "auth" => SpentInStep]_authVars
  BY <1>2
<1>4. CodesAreSpentOnce <=> [][part = "auth" => SpentInStep]_authVars
  BY DEF CodesAreSpentOnce, SpentInStep
<1> QED
  BY <1>1, <1>2, <1>3, <1>4, PTL DEF Spec

(***************************************************************************)
(* Files of the owner's browser: whichever process dies between two calls,  *)
(* a download is removed from the guest only when the library has it, or    *)
(* when the recovery of a dead launch could not read it; what ran while the  *)
(* owner had the browser in private, from the moment the guest heard of it,  *)
(* is private in the library; and a file chooser takes one file at most,    *)
(* from whoever had the browser then.                                       *)
(***************************************************************************)
THEOREM TransfersStayFaithful == Spec => []TransfersAreFaithful
<1>1. Init => TransferPart
  BY TransferBegins DEF Init, TransferPart
<1>2. TransferPart /\ [Next]_vars => TransferPart'
  <2> SUFFICES ASSUME TransferPart, [Next]_vars, part' = "transfer" PROVE TransferInv'
    BY DEF TransferPart
  <2>1. CASE TransferNext /\ part = "transfer"
    BY <2>1, TransferSteps DEF TransferPart
  <2>2. CASE UNCHANGED vars
    BY <2>2, TransferSteps DEF TransferPart, vars, transferVars
  <2> QED
    BY <2>1, <2>2 DEF Next
<1>3. TransferPart => TransfersAreFaithful
  BY TransferInvIsEnough DEF TransferPart, TransfersAreFaithful
<1> QED
  BY <1>1, <1>2, <1>3, PTL DEF Spec

(***************************************************************************)
(* The microVM: however requests and answers are lost, late or doubled     *)
(* and whatever restarts, one Chrome runs at most, none of a launch the    *)
(* host took for retired, and the guest honours input only inside the      *)
(* owner's lease, never once it agreed that nobody holds it.               *)
(***************************************************************************)
THEOREM OneBrowserIsKept == Spec => []OneBrowserOneHolder
<1>1. Init => SpacePart
  BY SpaceBegins DEF Init, SpacePart
<1>2. SpacePart /\ [Next]_vars => SpacePart'
  <2> SUFFICES ASSUME SpacePart, [Next]_vars, part' = "space" PROVE SpaceInv'
    BY DEF SpacePart
  <2>1. CASE SpaceNext /\ part = "space"
    BY <2>1, SpaceSteps DEF SpacePart
  <2>2. CASE UNCHANGED vars
    BY <2>2, SpaceSteps DEF SpacePart, vars, spaceVars
  <2> QED
    BY <2>1, <2>2 DEF Next
<1>3. SpacePart => OneBrowserOneHolder
  BY SpaceInvIsEnough DEF SpacePart, OneBrowserOneHolder
<1> QED
  BY <1>1, <1>2, <1>3, PTL DEF Spec

(***************************************************************************)
(* The browser on the worker: in whatever order its three threads are      *)
(* served and wherever the unit stops, one Chrome runs at most, and a      *)
(* launch that counts as gone is gone for good.                            *)
(***************************************************************************)
THEOREM OneChromeIsKept == Spec => []OneChromeAtATime
<1>1. Init => WorkerPart
  BY WorkerBegins DEF Init, WorkerPart
<1>2. WorkerPart /\ [Next]_vars => WorkerPart'
  <2> SUFFICES ASSUME WorkerPart, [Next]_vars, part' = "worker" PROVE WorkerInv'
    BY DEF WorkerPart
  <2>1. CASE WorkerNext /\ part = "worker"
    BY <2>1, WorkerSteps DEF WorkerPart
  <2>2. CASE UNCHANGED vars
    BY <2>2, WorkerSteps DEF WorkerPart, vars, workerVars
  <2> QED
    BY <2>1, <2>2 DEF Next
<1>3. WorkerPart => OneChromeAtATime
  BY WorkerInvIsEnough DEF WorkerPart, OneChromeAtATime
<1> QED
  BY <1>1, <1>2, <1>3, PTL DEF Spec

(***************************************************************************)
(* chat/store.py and the document callbacks: a file is its bytes for good,  *)
(* a grant holds nothing the owner keeps private, what a callback was       *)
(* answered was read while its turn, its window and its run lived, and a    *)
(* reading in pages misses nothing and repeats nothing.                     *)
(***************************************************************************)
THEOREM FilesStayInScope == Spec => []FilesKeepTheirScope
<1>1. Init => LibraryPart
  BY LibraryBegins DEF Init, LibraryPart
<1>2. LibraryPart /\ [Next]_vars => LibraryPart'
  <2> SUFFICES ASSUME LibraryPart, [Next]_vars, part' = "library" PROVE LibraryInv'
    BY DEF LibraryPart
  <2>1. CASE LibraryNext /\ part = "library"
    BY <2>1, LibrarySteps DEF LibraryPart
  <2>2. CASE UNCHANGED vars
    BY <2>2, LibrarySteps DEF LibraryPart, vars, libraryVars
  <2> QED
    BY <2>1, <2>2 DEF Next
<1>3. LibraryPart => FilesKeepTheirScope
  BY LibraryInvIsEnough DEF LibraryPart, FilesKeepTheirScope
<1> QED
  BY <1>1, <1>2, <1>3, PTL DEF Spec

(***************************************************************************)
(* chat/commitment_review.py and commitment_followup.py: one review at a    *)
(* time, under the present permission and within the day's budget, with any *)
(* number of overlapping workers; nothing the owner put off or ended comes  *)
(* back, and a notice is of the revision the owner left, with its note.     *)
(***************************************************************************)
THEOREM OwnerKeepsTheLastWord == Spec => []OwnerHasTheLastWord
<1>1. Init => ReviewPart
  BY ReviewBegins DEF Init, ReviewPart
<1>2. ReviewPart /\ [Next]_vars => ReviewPart'
  <2> SUFFICES ASSUME ReviewPart, [Next]_vars, part' = "review" PROVE ReviewInv'
    BY DEF ReviewPart
  <2>1. CASE ReviewNext /\ part = "review"
    BY <2>1, ReviewSteps DEF ReviewPart
  <2>2. CASE UNCHANGED vars
    BY <2>2, ReviewSteps DEF ReviewPart, vars, reviewVars
  <2> QED
    BY <2>1, <2>2 DEF Next
<1>3. ReviewPart => OwnerHasTheLastWord
  BY ReviewInvIsEnough DEF ReviewPart, OwnerHasTheLastWord
<1> QED
  BY <1>1, <1>2, <1>3, PTL DEF Spec

(***************************************************************************)
(* A linked Buzz conversation: whoever sees a message, how often and in     *)
(* whichever thread, and wherever a thread stops, what was done for it is   *)
(* the route that was frozen first, a message that is done has its answer,  *)
(* and the relay has one event of a message at most: the retained one.      *)
(***************************************************************************)
THEOREM MessagesStayActedOnce == Spec => []MessagesActOnce
<1>1. Init => MailPart
  BY MailBegins DEF Init, MailPart
<1>2. MailPart /\ [Next]_vars => MailPart'
  <2> SUFFICES ASSUME MailPart, [Next]_vars, part' = "mail" PROVE MailInv'
    BY DEF MailPart
  <2>1. CASE MailNext /\ part = "mail"
    BY <2>1, MailSteps DEF MailPart
  <2>2. CASE UNCHANGED vars
    BY <2>2, MailSteps DEF MailPart, vars, mailVars
  <2> QED
    BY <2>1, <2>2 DEF Next
<1>3. MailPart => MessagesActOnce
  BY MailInvIsEnough DEF MailPart, MessagesActOnce
<1> QED
  BY <1>1, <1>2, <1>3, PTL DEF Spec

(***************************************************************************)
(* The shared browser: while a command of the agent waits in the driver     *)
(* nothing of the owner is pressed and none of her logins is under way, a   *)
(* command that is left behind keeps its browser in recovery, and what the  *)
(* agent is shown was captured under one grant that never ended.            *)
(***************************************************************************)
THEOREM HandsStayApart == Spec => []HandsApart
<1>1. Init => BrowserPart
  BY BrowserBegins DEF Init, BrowserPart
<1>2. BrowserPart /\ [Next]_vars => BrowserPart'
  <2> SUFFICES ASSUME BrowserPart, [Next]_vars, part' = "browser" PROVE BrowserInv'
    BY DEF BrowserPart
  <2>1. CASE BrowserNext /\ part = "browser"
    BY <2>1, BrowserKeeps DEF BrowserPart
  <2>2. CASE UNCHANGED vars
    BY <2>2, BrowserKeeps DEF BrowserPart, vars
  <2> QED
    BY <2>1, <2>2 DEF Next
<1>3. BrowserPart => HandsApart
  BY BrowserInvIsEnough DEF BrowserPart, HandsApart
<1> QED
  BY <1>1, <1>2, <1>3, PTL DEF Spec

(***************************************************************************)
(* application/coordinator.py: however messages, reports and the            *)
(* coordinator's cycle interleave and wherever it stops, a preview is READY *)
(* or deployed only if a reviewer found that very revision ready, and the   *)
(* planner a handled message left behind is the one the project waits for   *)
(* as long as it runs.                                                      *)
(***************************************************************************)
THEOREM ProjectsStayPrecise == Spec => []ProjectsArePrecise
<1>1. Init => ProjectPart
  BY ProjectBegins DEF Init, ProjectPart
<1>2. ProjectPart /\ [Next]_vars => ProjectPart'
  <2> SUFFICES ASSUME ProjectPart, [Next]_vars, part' = "project" PROVE ProjectInv'
    BY DEF ProjectPart
  <2>1. CASE ProjectNext /\ part = "project"
    BY <2>1, ProjectSteps DEF ProjectPart
  <2>2. CASE UNCHANGED vars
    BY <2>2, ProjectSteps DEF ProjectPart, vars, projectVars
  <2> QED
    BY <2>1, <2>2 DEF Next
<1>3. ProjectPart => ProjectsArePrecise
  BY ProjectInvIsEnough DEF ProjectPart, ProjectsArePrecise
<1> QED
  BY <1>1, <1>2, <1>3, PTL DEF Spec

RecoveryInStep == br.mode = "recovering" /\ ~br.retired => br'.mode = "recovering" \/ br'.retired

(***************************************************************************)
(* A browser in recovery: no step of the agent, the owner, the gateway or a *)
(* lease that lapses gives control of it to anybody; only its retirement,   *)
(* once the driver is positively gone, ends it.                             *)
(***************************************************************************)
THEOREM RecoverySticks == Spec => UncertaintySticks
<1>1. Init => BrowserPart
  BY BrowserBegins DEF Init, BrowserPart
<1>2. BrowserPart /\ [Next]_vars => BrowserPart' /\ (part = "browser" => RecoveryInStep)
  <2> SUFFICES ASSUME BrowserPart, [Next]_vars, part = "browser" \/ part' = "browser"
               PROVE  BrowserInv' /\ RecoveryInStep
    BY DEF BrowserPart
  <2>1. CASE BrowserNext /\ part = "browser"
    <3>1. BrowserInv /\ BrowserInv' /\ RowMove
      BY <2>1, BrowserKeeps DEF BrowserPart
    <3> QED
      BY <3>1, RecoveryLasts DEF BrowserInv, BrowserTypes, RecoveryInStep
  <2>2. CASE UNCHANGED vars
    <3>1. BrowserInv
      BY <2>2 DEF BrowserPart, vars
    <3>2. BrowserInv' /\ RowMove
      BY <2>2, <3>1, BrowserKeeps DEF vars
    <3> QED
      BY <3>1, <3>2, RecoveryLasts DEF BrowserInv, BrowserTypes, RecoveryInStep
  <2> QED
    BY <2>1, <2>2 DEF Next
<1>3. BrowserPart /\ [Next]_vars => [part = "browser" => RecoveryInStep]_browserVars
  BY <1>2
<1>4. UncertaintySticks <=> [][part = "browser" => RecoveryInStep]_browserVars
  <2>1. [part = "browser" => RecoveryInStep]_browserVars <=>
          [part = "browser" /\ br.mode = "recovering" /\ ~br.retired => br'.mode = "recovering" \/ br'.retired]_browserVars
    BY DEF RecoveryInStep
  <2> QED
    BY <2>1, PTL DEF UncertaintySticks
<1> QED
  BY <1>1, <1>2, <1>3, <1>4, PTL DEF Spec

(***************************************************************************)
(* chat/document_parser.py and document_access.py: the answers to one       *)
(* question show all it asks for, once and in order, whatever the original, *)
(* the needle, the locator and the limits of an answer are.                 *)
(***************************************************************************)
THEOREM NothingIsMissed == Spec => []ReadingMissesNothing
<1>1. Init => ReaderPart
  BY ReaderStarts DEF Init, ReaderPart
<1>2. ReaderPart /\ [Next]_vars => ReaderPart'
  <2> SUFFICES ASSUME ReaderPart, [Next]_vars, part' = "reader" PROVE ReadingFits(doc', ask', pass', given')
    BY DEF ReaderPart
  <2>1. CASE ReaderNext /\ part = "reader"
    BY <2>1, ReadingSteps DEF ReaderPart
  <2>2. CASE UNCHANGED vars
    BY <2>2, ReadingSteps DEF ReaderPart, vars, readerVars
  <2> QED
    BY <2>1, <2>2 DEF Next
<1>3. ReaderPart => ReadingMissesNothing
  BY ReadingFitsIsEnough DEF ReaderPart
<1> QED
  BY <1>1, <1>2, <1>3, PTL DEF Spec

=============================================================================
