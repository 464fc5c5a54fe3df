---------------------------- MODULE BuzzMessages ----------------------------
(***************************************************************************)
(* A linked Buzz conversation of the owner with one agent: routing and      *)
(* effect of a message (application/conversations.py), the ingress and      *)
(* egress cycles (channels/buzz_conversations.py), their rows               *)
(* (storage/conversations.py) and the relay (channels/buzz_relay.py).       *)
(*                                                                         *)
(* The controller runs ingress and egress in threads of their own, the web  *)
(* application handles a message in a third; every transaction is atomic    *)
(* and the store orders them. Any thread may stop between two of them.      *)
(***************************************************************************)
EXTENDS Base, FiniteSets

CONSTANTS
  Count,           \* messages of the owner, numbered by their time
  MaxState,        \* revisions of a task
  MaxSigned        \* events signed

ASSUME MailAssumption == Count \in Nat

Mail == 1..Count
Intents == {"plain", "status", "new", "addressed", "files", "unusable"}

VARIABLES
  post,            \* post[e]: what the owner wrote, and where
  msg,             \* msg[e]: its row
  job,             \* job[e]: the task that message e started
  guides,          \* guides[t]: the messages task t was guided by
  settled,         \* the guidance with a final receipt
  answers,         \* messages of the agent
  outbox,          \* outbox[m]: the signed event of message m
  signed,          \* events signed so far
  onRelay,         \* <<m, event>> the relay has accepted
  turn,            \* turn[th]: where a receiving thread is
  egress           \* where the egress thread is

mailVars == <<post, msg, job, guides, settled, answers, outbox, signed, onRelay, turn, egress>>

NoPost == [src |-> None, intent |-> None, reply |-> 0]
NoRoute == [act |-> None, task |-> 0, rev |-> 0]
NoRow == [state |-> "none", route |-> NoRoute, task |-> 0]
NoJob == [phase |-> "none", rev |-> 0, said |-> 0]
Resting == [pc |-> "idle", e |-> 0, todo |-> {}, last |-> FALSE]
Quiet == [pc |-> "idle", todo |-> {}, m |-> None]
Receivers == {"ingress", "web"}
Kinds == {"reply", "outcome", "queued", "active", "closed", "mirror"}
Ids == Kinds \X Mail        \* the agent's messages, and the mirror of a web message
NoEvent == [event |-> 0, parent |-> 0, sent |-> FALSE, refused |-> FALSE]

MailInit ==
  /\ post = [e \in Mail |-> NoPost] /\ msg = [e \in Mail |-> NoRow]
  /\ job = [e \in Mail |-> NoJob] /\ guides = [t \in Mail |-> {}] /\ settled = {}
  /\ answers = {} /\ outbox = [m \in Ids |-> NoEvent] /\ signed = 0 /\ onRelay = {}
  /\ turn = [th \in Receivers |-> Resting] /\ egress = Quiet

MailTypeOK ==
  /\ \A e \in Mail : msg[e].state \in {"none", "received", "done"} /\ job[e].phase \in {"none", "queued", "active", "closed"}
  /\ answers \subseteq Ids /\ onRelay \subseteq Ids \X (1..MaxSigned)
  /\ \A m \in Ids : outbox[m].event # 0 => outbox[m].event <= signed

(* The owner writes to the relay; events may become visible out of order.   *)
Post(e, intent, reply) ==
  /\ post[e] = NoPost /\ reply < e
  /\ post' = [post EXCEPT ![e] = [src |-> "buzz", intent |-> intent, reply |-> reply]]
  /\ UNCHANGED <<msg, job, guides, settled, answers, outbox, signed, onRelay, turn, egress>>

-----------------------------------------------------------------------------
(* _route: what a message asks for, frozen when it is received.             *)
Open(t) == job[t].phase \in {"queued", "active"}
Known == {t \in Mail : \E e \in Mail : msg[e].task = t}          \* conversation_task_messages
Chosen == {e \in Mail : msg[e].state = "done" /\ msg[e].task # 0}
Focus == IF Chosen = {} THEN 0 ELSE msg[CHOOSE e \in Chosen : \A f \in Chosen : f <= e].task
To(act, t) == [act |-> act, task |-> t, rev |-> IF act = "guide" THEN job[t].rev ELSE 0]

(* _task_route *)
TaskRoute(intent, t) ==
  IF intent = "status" THEN To("status", t)
  ELSE IF intent = "new" THEN To("start", 0)
  ELSE IF t # 0 /\ Open(t) /\ intent = "files" THEN To("clarify", 0)
  ELSE IF t # 0 THEN (IF Open(t) THEN To("guide", t) ELSE To("start", 0))
  ELSE IF Cardinality(Known) > 1 THEN To("clarify", 0) ELSE To("start", 0)
Route(e) ==
  LET intent == post[e].intent  reply == post[e].reply
      active == {t \in Known : Open(t)}
      pending == {f \in Mail \ {e} : msg[f].state = "received"} IN
  IF intent = "addressed" /\ reply = 0 THEN To("start", 0)
  ELSE IF pending # {} /\ reply = 0 /\ intent # "new" THEN To("clarify", 0)
  ELSE IF reply # 0 /\ msg[reply].state = "none" THEN To("clarify", 0)
  ELSE IF reply # 0 /\ msg[reply].task # 0 THEN TaskRoute(intent, msg[reply].task)
  ELSE IF reply # 0 THEN TaskRoute(intent, 0)
  ELSE IF Cardinality(active) > 1 /\ intent # "new" THEN To("clarify", 0)
  ELSE TaskRoute(intent, IF active # {} THEN CHOOSE t \in active : TRUE ELSE Focus)

-----------------------------------------------------------------------------
(* A receiving thread: the ingress cycle over what the relay shows and then  *)
(* what is pending; or the request of the web application.                  *)
InStep(th, pc) == turn[th].pc = pc
Goto(th, pc) == turn' = [turn EXCEPT ![th].pc = pc]
FirstOf(S) == CHOOSE e \in S : \A f \in S : e <= f
BeginIngress(seen) ==
  /\ InStep("ingress", "idle") /\ \A e \in seen : post[e].src = "buzz"
  /\ turn' = [turn EXCEPT !["ingress"] = [pc |-> "next", e |-> 0, todo |-> seen, last |-> FALSE]]
  /\ UNCHANGED <<post, msg, job, guides, settled, answers, outbox, signed, onRelay, egress>>
NextMessage(th) ==
  LET todo == turn[th].todo IN
  /\ InStep(th, "next")
  /\ turn' = [turn EXCEPT ![th] =
       IF todo # {}
       THEN LET e == FirstOf(todo) IN
            [@ EXCEPT !.e = e, !.todo = todo \ {e},
                      !.pc = CASE msg[e].state = "done" -> "next"
                               [] msg[e].state = "received" -> "process"
                               [] OTHER -> "receive"]
       ELSE IF ~turn[th].last /\ th = "ingress"
            THEN [@ EXCEPT !.todo = {e \in Mail : msg[e].state = "received"}, !.last = TRUE]
            ELSE Resting]
  /\ UNCHANGED <<post, msg, job, guides, settled, answers, outbox, signed, onRelay, egress>>
(* A request of the web client: the message is received in its handler.     *)
SubmitMessage(e, intent, reply) ==
  LET sent == [src |-> "web", intent |-> intent, reply |-> reply] IN
  /\ InStep("web", "idle") /\ post[e] \in {NoPost, sent} /\ reply < e /\ intent # "unusable"
  /\ post' = [post EXCEPT ![e] = sent]
  /\ turn' = [turn EXCEPT !["web"] = [pc |-> "receive", e |-> e, todo |-> {}, last |-> TRUE]]
  /\ UNCHANGED <<msg, job, guides, settled, answers, outbox, signed, onRelay, egress>>

Settled(e, row, response) ==
  /\ msg' = [msg EXCEPT ![e] = row]
  /\ answers' = answers \cup {response}
(* What cannot be used is kept as rejected, with its answer.                *)
Unusable(e) == post[e].intent = "unusable"
RejectMessage(e) == Settled(e, [NoRow EXCEPT !.state = "done"], <<"reply", e>>)
(* receive: the first time, with the route frozen.                          *)
Receive(th) ==
  LET e == turn[th].e IN
  /\ InStep(th, "receive")
  /\ IF msg[e].state # "none" THEN Goto(th, "process") /\ UNCHANGED <<msg, answers>>
     ELSE IF Unusable(e) THEN RejectMessage(e) /\ Goto(th, "next")
     ELSE /\ msg' = [msg EXCEPT ![e] = [NoRow EXCEPT !.state = "received", !.route = Route(e)]]
          /\ Goto(th, "process") /\ UNCHANGED answers
  /\ UNCHANGED <<post, job, guides, settled, outbox, signed, onRelay, egress>>
ProcessBegins(th) ==
  /\ InStep(th, "process")
  /\ Goto(th, IF msg[turn[th].e].state = "done" THEN "next" ELSE "command")
  /\ UNCHANGED <<post, msg, job, guides, settled, answers, outbox, signed, onRelay, egress>>

\* Mutant: a message that is processed again is routed again.
Asked_Anew(e) == Route(e)
Asked(e) == msg[e].route
(* The command under the message's key: admitting twice is admitting once,  *)
(* and a guidance the task holds already is not given again.                *)
Command(th) ==
  LET e == turn[th].e  r == Asked(e)
      fits == Open(r.task) /\ job[r.task].rev = r.rev /\ job[r.task].rev < MaxState IN
  /\ InStep(th, "command") /\ Goto(th, "complete")
  /\ IF r.act = "start" /\ job[e].phase = "none"
     THEN job' = [job EXCEPT ![e] = [phase |-> "queued", rev |-> 1, said |-> 0]] /\ UNCHANGED guides
     ELSE IF r.act = "guide" /\ (\A t \in Mail : e \notin guides[t]) /\ fits
     THEN guides' = [guides EXCEPT ![r.task] = @ \cup {e}] /\ job' = [job EXCEPT ![r.task].rev = @ + 1]
     ELSE UNCHANGED <<job, guides>>
  /\ UNCHANGED <<post, msg, settled, answers, outbox, signed, onRelay, egress>>
Complete(th) ==
  LET e == turn[th].e  r == Asked(e) IN
  /\ InStep(th, "complete") /\ Goto(th, "next")
  /\ Settled(e, [msg[e] EXCEPT !.state = "done", !.task = IF r.act = "start" THEN e ELSE r.task],
             <<IF e \in settled THEN "outcome" ELSE "reply", e>>)
  /\ UNCHANGED <<post, job, guides, settled, outbox, signed, onRelay, egress>>
(* A rejection, an unreachable relay, a restart: the thread begins anew.    *)
Abandon(th) ==
  /\ ~InStep(th, "idle") /\ turn' = [turn EXCEPT ![th] = Resting]
  /\ UNCHANGED <<post, msg, job, guides, settled, answers, outbox, signed, onRelay, egress>>

-----------------------------------------------------------------------------
(* The task engine goes on.                                                 *)
TaskMoves(t, phase) ==
  /\ Open(t) /\ phase # job[t].phase /\ job[t].rev < MaxState
  /\ job' = [job EXCEPT ![t].phase = phase, ![t].rev = @ + 1]
  /\ UNCHANGED <<post, msg, guides, settled, answers, outbox, signed, onRelay, turn, egress>>
GuidanceSettles(t, e) ==
  /\ e \in guides[t] \ settled /\ job[t].rev < MaxState
  /\ settled' = settled \cup {e} /\ job' = [job EXCEPT ![t].rev = @ + 1]
  /\ UNCHANGED <<post, msg, guides, answers, outbox, signed, onRelay, turn, egress>>

-----------------------------------------------------------------------------
(* egress: what tasks have become, once per state; then what has no event   *)
(* yet is signed, and what is signed is published.                          *)
Changed == {t \in Known : job[t].rev > job[t].said}
Announce ==
  /\ egress.pc = "idle"
  /\ answers' = answers \cup {<<job[t].phase, t>> : t \in Changed}
                        \cup {<<"outcome", e>> : e \in settled \cap UNION {guides[t] : t \in Changed}}
  /\ job' = [t \in Mail |-> IF t \in Changed THEN [job[t] EXCEPT !.said = job[t].rev] ELSE job[t]]
  /\ egress' = [egress EXCEPT !.pc = "prepare"]
  /\ UNCHANGED <<post, msg, guides, settled, outbox, signed, onRelay, turn>>

(* What a message answers: the message itself, or the one that began the     *)
(* task; conversation_task_anchor knows it once it is processed.            *)
Anchor(t) == IF msg[t].state = "done" THEN t ELSE 0
Parent(m) == IF m[1] = "mirror" THEN post[m[2]].reply
             ELSE IF m[1] \in {"reply", "outcome"} THEN m[2] ELSE Anchor(m[2])
EventOf(e) == IF post[e].src = "buzz" THEN TRUE ELSE outbox[<<"mirror", e>>].event # 0
\* Mutant: what answers a message without an event is sent by itself.
Threaded_Anyway(m) == TRUE
(* _thread_tags: an answer waits for the event of what it answers.          *)
Threaded(m) == Parent(m) # 0 /\ msg[Parent(m)].state # "none" => EventOf(Parent(m))
Ready == {m \in Ids : /\ outbox[m].event = 0
                      /\ \/ m \in answers
                         \/ m[1] = "mirror" /\ post[m[2]].src = "web" /\ msg[m[2]].state = "done"}
(* _prepare_outbox: one page, oldest first, in one transaction; a message   *)
(* prepared earlier in the page is an event for a later one.                *)
Sign(m) ==
  /\ egress.pc = "prepare" /\ m \in Ready /\ Threaded(m) /\ signed < MaxSigned
  /\ signed' = signed + 1
  /\ outbox' = [outbox EXCEPT ![m] =
       [NoEvent EXCEPT !.event = signed + 1,
          !.parent = IF Parent(m) # 0 /\ msg[Parent(m)].state # "none" /\ EventOf(Parent(m)) THEN Parent(m) ELSE 0]]
  /\ UNCHANGED <<post, msg, job, guides, settled, answers, onRelay, turn, egress>>
Prepared ==
  /\ egress.pc = "prepare"
  /\ egress' = [pc |-> "send", m |-> None,
                todo |-> {m \in Ids : outbox[m].event # 0 /\ ~outbox[m].sent /\ ~outbox[m].refused}]
  /\ UNCHANGED <<post, msg, job, guides, settled, answers, outbox, signed, onRelay, turn>>

\* Mutant: every attempt signs the message anew.
EventSent_Anew(m) == signed
(* The retained event is published; its acceptance may go unnoticed.        *)
EventSent(m) == outbox[m].event
Publish(m, reached, answered) ==
  /\ egress.pc = "send" /\ m \in egress.todo /\ \A n \in egress.todo : outbox[m].event <= outbox[n].event
  /\ answered => reached
  /\ onRelay' = IF reached THEN onRelay \cup {<<m, EventSent(m)>>} ELSE onRelay
  /\ egress' = IF answered THEN [egress EXCEPT !.pc = "acknowledge", !.m = m] ELSE Quiet
  /\ UNCHANGED <<post, msg, job, guides, settled, answers, outbox, signed, turn>>
Acknowledge ==
  /\ egress.pc = "acknowledge"
  /\ outbox' = [outbox EXCEPT ![egress.m].sent = TRUE]
  /\ egress' = [pc |-> "send", m |-> None, todo |-> egress.todo \ {egress.m}]
  /\ UNCHANGED <<post, msg, job, guides, settled, answers, signed, onRelay, turn>>
(* The relay refuses the thread: the event is kept and never sent again.    *)
Refused(m) ==
  /\ egress.pc = "send" /\ m \in egress.todo /\ outbox[m].parent # 0 /\ <<m, outbox[m].event>> \notin onRelay
  /\ outbox' = [outbox EXCEPT ![m].refused = TRUE] /\ egress' = [egress EXCEPT !.todo = @ \ {m}]
  /\ UNCHANGED <<post, msg, job, guides, settled, answers, signed, onRelay, turn>>
EgressEnds ==
  /\ egress.pc # "idle" /\ egress' = Quiet
  /\ UNCHANGED <<post, msg, job, guides, settled, answers, outbox, signed, onRelay, turn>>

MailNext ==
  \/ \E e \in Mail, intent \in Intents, reply \in 0..Count : Post(e, intent, reply) \/ SubmitMessage(e, intent, reply)
  \/ \E seen \in SUBSET Mail : BeginIngress(seen)
  \/ \E th \in Receivers : \/ NextMessage(th) \/ Receive(th) \/ ProcessBegins(th)
                           \/ Command(th) \/ Complete(th) \/ Abandon(th)
  \/ \E t \in Mail : (\E phase \in {"active", "closed"} : TaskMoves(t, phase))
                     \/ \E e \in Mail : GuidanceSettles(t, e)
  \/ Announce \/ Prepared \/ Acknowledge \/ EgressEnds
  \/ \E m \in Ids : \/ Sign(m) \/ Refused(m)
                    \/ \E reached, answered \in BOOLEAN : Publish(m, reached, answered)

-----------------------------------------------------------------------------
\* A message acts once, and as it was read when it was received: whichever
\* threads take it up, and however often they stop between its command and its
\* answer, it starts its own task or guides the one task it was routed to. What
\* is processed has an answer; each message reaches the relay as one event, and
\* an answer only under the event it answers.
MessagesActOnce ==
  part = "mail" =>
    /\ \A e \in Mail :
         /\ job[e].phase # "none" => msg[e].route.act = "start"
         /\ \A t \in Mail : e \in guides[t] => msg[e].route.act = "guide" /\ msg[e].route.task = t
         /\ msg[e].state = "done" => {<<"reply", e>>, <<"outcome", e>>} \cap answers # {}
    /\ \A a, b \in onRelay : a[1] = b[1] => a = b
    /\ \A m \in Ids : outbox[m].event # 0 /\ m[1] \in {"reply", "outcome"} => outbox[m].parent = m[2]
=============================================================================
