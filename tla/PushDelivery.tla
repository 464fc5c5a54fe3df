---------------------------- MODULE PushDelivery ----------------------------
(***************************************************************************)
(* The push outbox with everything that acts on it: the device routes of   *)
(* push_routes.install_push, the login sessions they and the authorizer    *)
(* read, the chat turns and commitment notices that fall due, and one      *)
(* observer loop per process.  A dispatch holds the database's write lock  *)
(* from the selection of a delivery to the saving of its outcome, so the   *)
(* lock is free when no observer is between the two.                       *)
(***************************************************************************)
EXTENDS PushOutbox, FiniteSetsExt

CONSTANTS
  Process,        \* web processes, each with an observer
  Registration,   \* registration requests in flight
  BatchSize,      \* turns per reconciliation batch
  PassSize,       \* deliveries dispatched per pass
  Idle, Absolute, \* lifetimes of a session
  RetryAfters,    \* what the provider may ask for
  PassLimit,      \* longest time between the steps of a pass
  MaxClock, MaxGeneration, MaxFailures

ASSUME DeliveryAssumption ==
  /\ BatchSize \in Nat \ {0} /\ PassSize \in Nat \ {0}
  /\ Idle \in Nat \ {0} /\ Absolute \in Nat \ {0} /\ PassLimit \in Nat
  /\ RetryAfters \subseteq Nat
  /\ 2 * PassLimit <= Retention - Day
  /\ MaxClock \in Nat /\ MaxGeneration \in Nat /\ MaxFailures \in Nat

VARIABLES
  now,
  lastSeq,    \* the newest row of the chat's turns table
  status,     \* status[e]: a turn's reply, or a notice's item
  born,       \* created_at of the turn or item
  session,    \* the local_sessions table
  request,    \* request[q]: a registration that read its turn, or NULL
  pc, at, cursor, batch, left,   \* an observer: place, clock reading, locals
  claim,      \* claim[p]: the delivery being dispatched, or NULL
  failures,   \* passes that were broken off
  told,       \* deliveries saved as sent since their device was registered
  late,       \* late[s]: provider calls for s after s was revoked
  admittedAt  \* when a notice was first admitted

worldVars == <<now, lastSeq, status, born>>
observerVars == <<pc, at, cursor, batch, left, claim>>
historyVars == <<told, late, admittedAt>>
vars == <<outboxVars, worldVars, session, request, observerVars, failures, historyVars>>

Verdict == {"sent", "blocked", "invalid", "retry"}
Holding == {"sending"} \cup Verdict
LockFree == \A p \in Process : pc[p] \notin Holding

Init ==
  /\ OutboxInit
  /\ now = 0 /\ lastSeq = 0 /\ failures = 0
  /\ status = [e \in Event |-> "absent"]
  /\ born = [e \in Event |-> 0]
  /\ session = [s \in Session |-> [state |-> "absent", expires |-> 0, end |-> 0, base |-> 0]]
  /\ request = [q \in Registration |-> NULL]
  /\ pc = [p \in Process |-> "rest"]
  /\ at = [p \in Process |-> 0]
  /\ cursor = [p \in Process |-> 0]
  /\ batch = [p \in Process |-> {}]
  /\ left = [p \in Process |-> 0]
  /\ claim = [p \in Process |-> NULL]
  /\ told = {}
  /\ late = [s \in Session |-> 0]
  /\ admittedAt = [n \in Notice |-> NULL]

-----------------------------------------------------------------------------
(* Time, the chat, the commitments and the owner's sessions.               *)

Tick ==
  /\ now < MaxClock
  /\ \A p \in Process : pc[p] = "rest" \/ now < at[p] + PassLimit
  /\ now' = now + 1
  /\ UNCHANGED <<outboxVars, lastSeq, status, born, session, request, observerVars,
                 failures, historyVars>>

Submit ==
  /\ lastSeq < MaxTurns
  /\ lastSeq' = lastSeq + 1
  /\ status' = [status EXCEPT ![lastSeq + 1] = "open"]
  /\ born' = [born EXCEPT ![lastSeq + 1] = now]
  /\ UNCHANGED <<outboxVars, now, session, request, observerVars, failures, historyVars>>

\* A turn that fails instead stays open here: it is never notified.
Complete(e) ==
  /\ e \in Reply
  /\ status[e] = "open"
  /\ status' = [status EXCEPT ![e] = "completed"]
  /\ UNCHANGED <<outboxVars, now, lastSeq, born, session, request, observerVars, failures, historyVars>>

\* A suggestion or a follow-up notice is published.
Publish(n) ==
  /\ status[n] = "absent"
  /\ status' = [status EXCEPT ![n] = "open"]
  /\ born' = [born EXCEPT ![n] = now]
  /\ UNCHANGED <<outboxVars, now, lastSeq, session, request, observerVars, failures, historyVars>>

\* It is decided, superseded, paused, or overtaken by a newer conversation.
Withdraw(n) ==
  /\ status[n] = "open"
  /\ status' = [status EXCEPT ![n] = "withdrawn"]
  /\ UNCHANGED <<outboxVars, now, lastSeq, born, session, request, observerVars, failures, historyVars>>

\* notification_session_active
Active(s) == session[s].state = "live" /\ session[s].expires > now

Login(s) ==
  /\ session[s].state = "absent"
  /\ session' = [session EXCEPT ![s] =
       [state |-> "live", expires |-> Earlier(now + Idle, now + Absolute),
        end |-> now + Absolute, base |-> lastSeq]]
  /\ UNCHANGED <<outboxVars, worldVars, request, observerVars, failures, historyVars>>

\* Logging out; losing the binding or the actor has the same effect on s.
Revoke(s) ==
  /\ session[s].state = "live"
  /\ session' = [session EXCEPT ![s].state = "revoked"]
  /\ UNCHANGED <<outboxVars, worldVars, request, observerVars, failures, historyVars>>

\* LocalAuth.session: every authenticated request moves the idle expiry.
Renew(s) ==
  /\ Active(s)
  /\ session' = [session EXCEPT ![s].expires = Earlier(now + Idle, session[s].end)]

-----------------------------------------------------------------------------
(* The device routes.                                                      *)

\* push_register up to its reading of the latest turn.
BeginRegister(q, i, s, wanted) ==
  /\ request[q] = NULL
  /\ wanted => MaxNotices > 0
  /\ device[i] # NULL => device[i].generation < MaxGeneration
  /\ Renew(s)
  /\ request' = [request EXCEPT ![q] =
       [installation |-> i, session |-> s, wanted |-> wanted,
        expires |-> Earlier(now + Idle, session[s].end), latest |-> lastSeq]]
  /\ UNCHANGED <<outboxVars, worldVars, observerVars, failures, historyVars>>

\* Mutant: registration does not wait for a dispatch.
RegisterLock_Ignored == TRUE

RegisterLock == LockFree

CommitRegister(q) ==
  /\ request[q] # NULL
  /\ RegisterLock
  /\ Register(request[q].installation, request[q].session, request[q].expires,
              request[q].latest, request[q].wanted, now)
  /\ request' = [request EXCEPT ![q] = NULL]
  /\ UNCHANGED <<worldVars, session, observerVars, failures, historyVars>>

\* The request is refused, times out on the lock, or dies with its process.
DropRegister(q) ==
  /\ request[q] # NULL
  /\ request' = [request EXCEPT ![q] = NULL]
  /\ UNCHANGED <<outboxVars, worldVars, session, observerVars, failures, historyVars>>

\* push_unregister, where it finds a row to delete.
OptOut(i, s) ==
  /\ Renew(s)
  /\ LockFree
  /\ Unregister(i, s)
  /\ told' = {pair \in told : pair[1] # i}
  /\ UNCHANGED <<worldVars, request, observerVars, failures, late, admittedAt>>

-----------------------------------------------------------------------------
(* One pass of an observer, _dispatch_notifications.                       *)

Goto(p, place) == pc' = [pc EXCEPT ![p] = place]

\* Leave the pass: the locals are gone.
Rest(p) ==
  /\ Goto(p, "rest")
  /\ at' = [at EXCEPT ![p] = 0]
  /\ cursor' = [cursor EXCEPT ![p] = 0]
  /\ batch' = [batch EXCEPT ![p] = {}]
  /\ left' = [left EXCEPT ![p] = 0]
  /\ claim' = [claim EXCEPT ![p] = NULL]

\* Mutant: the newest consent decides where the scan starts.
Floor_Newest(t) == Max({device[i].start : i \in LiveDevices(t)})

\* The consent floor of reconcile.
Floor(t) == Min({device[i].start : i \in LiveDevices(t)})

\* Without a commitment review there are no notices to look for.
AfterReplies == IF MaxNotices = 0 THEN "dispatch" ELSE "items"

Reconcile(p) ==
  /\ pc[p] = "rest"
  /\ LockFree
  /\ Purge(now)
  /\ told' = {pair \in told : ~Forgotten(pair[1], now)}
  /\ at' = [at EXCEPT ![p] = now]
  /\ IF LiveDevices(now) = {}
     THEN Goto(p, AfterReplies) /\ UNCHANGED cursor
     ELSE Goto(p, "scan") /\ cursor' = [cursor EXCEPT ![p] = Floor(now)]
  /\ left' = [left EXCEPT ![p] = PassSize]
  /\ UNCHANGED <<worldVars, session, request, batch, claim, failures, late, admittedAt>>

\* The completed turns after the cursor, of the last day.
Found(p) ==
  {e \in Reply : e > cursor[p] /\ status[e] = "completed" /\ born[e] + Day >= at[p]}

Oldest(turns, n) == {e \in turns : Cardinality({f \in turns : f < e}) < n}

Scan(p) ==
  /\ pc[p] = "scan"
  /\ batch' = [batch EXCEPT ![p] = Oldest(Found(p), BatchSize)]
  /\ IF Found(p) = {}
     THEN Goto(p, AfterReplies) /\ cursor' = [cursor EXCEPT ![p] = 0]
     ELSE Goto(p, "enqueue") /\ UNCHANGED cursor
  /\ UNCHANGED <<outboxVars, worldVars, session, request, at, left, claim, failures, historyVars>>

EnqueueReplies(p) ==
  /\ pc[p] = "enqueue"
  /\ LockFree
  /\ Enqueue(batch[p], at[p])
  /\ cursor' = [cursor EXCEPT ![p] = Max(batch[p])]
  /\ batch' = [batch EXCEPT ![p] = {}]
  /\ Goto(p, "scan")
  /\ UNCHANGED <<worldVars, session, request, at, left, claim, failures, historyVars>>

\* CommitmentReview.notification_items
Items(p) ==
  /\ pc[p] = "items"
  /\ batch' = [batch EXCEPT ![p] = {n \in Notice : status[n] = "open" /\ born[n] + Day > now}]
  /\ Goto(p, "admit")
  /\ UNCHANGED <<outboxVars, worldVars, session, request, at, cursor, left, claim, failures, historyVars>>

EnqueueNotices(p) ==
  /\ pc[p] = "admit"
  /\ LockFree
  /\ EnqueueCommitments(batch[p], born, now)
  /\ admittedAt' = [n \in Notice |->
       IF admittedAt[n] = NULL /\ \E i \in Installation : delivery'[i][n] # NULL
       THEN now ELSE admittedAt[n]]
  /\ at' = [at EXCEPT ![p] = now]
  /\ batch' = [batch EXCEPT ![p] = {}]
  /\ Goto(p, "dispatch")
  /\ UNCHANGED <<worldVars, session, request, cursor, left, claim, failures, told, late>>

\* dispatch_one finds nothing due, or the pass has dispatched its share.
EndPass(p) ==
  /\ pc[p] = "dispatch"
  /\ left[p] = 0 \/ (LockFree /\ \A i \in Installation, e \in Event : ~Due(i, e, now))
  /\ Rest(p)
  /\ UNCHANGED <<outboxVars, worldVars, session, request, failures, historyVars>>

\* dispatch_one takes the lock and selects a delivery.
Selects(p, i, e) == pc[p] = "dispatch" /\ left[p] > 0 /\ LockFree /\ Selected(i, e, now)

\* It then ends with an outcome of its own, without calling the provider.
Settles(p) ==
  /\ at' = [at EXCEPT ![p] = now]
  /\ left' = [left EXCEPT ![p] = left[p] - 1]
  /\ UNCHANGED <<worldVars, session, request, pc, cursor, batch, claim, failures, historyVars>>

DropStale(p, i, e) ==
  /\ Selects(p, i, e)
  /\ ~Dispatchable(i, e, now)
  /\ Finish(i, e, "closed")
  /\ Settles(p)

\* Mutant: the session is not asked about again.
Authorized_Always(i) == TRUE

Authorized(i) == Active(device[i].session)

Deny(p, i, e) ==
  /\ Selects(p, i, e)
  /\ Dispatchable(i, e, now)
  /\ ~Authorized(i)
  /\ Deactivate(i)
  /\ Settles(p)

\* The authorizer or the decision raises: an attempt, with the default delay.
Outage(p, i, e) ==
  /\ Selects(p, i, e)
  /\ Dispatchable(i, e, now)
  /\ Retry(i, e, Minute, now)
  /\ Settles(p)

\* CommitmentReview.notification_decision is "allow" or "hold", by the hour.
Deliverable(i, e) ==
  e \in Reply \/ (device[i].since # NULL /\ status[e] = "open" /\ born[e] + Day > now)

DiscardNotice(p, i, e) ==
  /\ Selects(p, i, e)
  /\ Dispatchable(i, e, now)
  /\ Authorized(i)
  /\ ~Deliverable(i, e)
  /\ Finish(i, e, "closed")
  /\ Settles(p)

HoldNotice(p, i, e) ==
  /\ Selects(p, i, e)
  /\ Dispatchable(i, e, now)
  /\ Authorized(i)
  /\ Deliverable(i, e) /\ e \in Notice
  /\ Hold(i, e, now)
  /\ Settles(p)

Send(p, i, e) ==
  /\ Selects(p, i, e)
  /\ Dispatchable(i, e, now)
  /\ Authorized(i)
  /\ Deliverable(i, e)
  /\ at' = [at EXCEPT ![p] = now]
  /\ claim' = [claim EXCEPT ![p] =
       [installation |-> i, event |-> e, session |-> device[i].session]]
  /\ Goto(p, "sending")
  /\ UNCHANGED <<outboxVars, worldVars, session, request, cursor, batch, left, failures, historyVars>>

\* The provider answers, or the call times out; `retry' may have delivered.
Answer(p, verdict) ==
  /\ pc[p] = "sending"
  /\ late' = IF session[claim[p].session].state = "revoked"
             THEN [late EXCEPT ![claim[p].session] = @ + 1] ELSE late
  /\ Goto(p, verdict)
  /\ UNCHANGED <<outboxVars, worldVars, session, request, at, cursor, batch, left, claim,
                 failures, told, admittedAt>>

\* The outcome is saved and the lock released.
Save(p, retryAfter) ==
  LET i == claim[p].installation
      e == claim[p].event
  IN  /\ pc[p] \in Verdict
      /\ \/ pc[p] = "sent" /\ Finish(i, e, "sent") /\ told' = told \cup {<<i, e>>}
         \/ pc[p] = "blocked" /\ Finish(i, e, "closed") /\ UNCHANGED told
         \/ pc[p] = "invalid" /\ Deactivate(i) /\ UNCHANGED told
         \/ pc[p] = "retry" /\ Retry(i, e, retryAfter, at[p]) /\ UNCHANGED told
      /\ Goto(p, "dispatch")
      /\ left' = [left EXCEPT ![p] = left[p] - 1]
      /\ claim' = [claim EXCEPT ![p] = NULL]
      /\ UNCHANGED <<worldVars, session, request, at, cursor, batch, failures, late, admittedAt>>

\* A step of the pass raises, for one on a locked database, or the process
\* stops or dies; with the lock held it dies, and the outcome is not saved.
Break(p) ==
  /\ pc[p] # "rest"
  /\ failures < MaxFailures
  /\ failures' = failures + 1
  /\ Rest(p)
  /\ UNCHANGED <<outboxVars, worldVars, session, request, historyVars>>

-----------------------------------------------------------------------------

Dispatch(p) ==
  \E i \in Installation, e \in Event :
    \/ DropStale(p, i, e) \/ Deny(p, i, e) \/ Outage(p, i, e)
    \/ DiscardNotice(p, i, e) \/ HoldNotice(p, i, e) \/ Send(p, i, e)

Pass(p) ==
  \/ Reconcile(p) \/ Scan(p) \/ EnqueueReplies(p) \/ Items(p) \/ EnqueueNotices(p)
  \/ EndPass(p) \/ Dispatch(p)
  \/ \E v \in Verdict : Answer(p, v)
  \/ \E r \in RetryAfters : Save(p, r)

Routes ==
  \/ \E q \in Registration, i \in Installation, s \in Session, w \in BOOLEAN :
       BeginRegister(q, i, s, w)
  \/ \E q \in Registration : CommitRegister(q) \/ DropRegister(q)
  \/ \E i \in Installation, s \in Session : OptOut(i, s)

World ==
  \/ Tick \/ Submit
  \/ \E e \in Reply : Complete(e)
  \/ \E n \in Notice : Publish(n) \/ Withdraw(n)
  \/ \E s \in Session : Login(s) \/ Revoke(s)

Next == World \/ Routes \/ \E p \in Process : Pass(p) \/ Break(p)

Spec == Init /\ [][Next]_vars

FairSpec == Spec /\ \A p \in Process : WF_vars(Pass(p))

-----------------------------------------------------------------------------

DeviceRow ==
  [session : Session, generation : Nat, active : BOOLEAN,
   expires : Nat, updated : Nat, start : 0..MaxTurns, since : Nat \cup {NULL}]

DeliveryRow ==
  [generation : Nat, state : {"pending", "sent", "closed"},
   attempts : 0..MaxAttempts, due : Nat, expires : Nat, created : Nat]

RequestRow ==
  [installation : Installation, session : Session, wanted : BOOLEAN,
   expires : Nat, latest : 0..MaxTurns]

ClaimRow == [installation : Installation, event : Event, session : Session]

\* NULL is no row.
ASSUME RowAssumption ==
  NULL \notin DeviceRow /\ NULL \notin DeliveryRow /\ NULL \notin RequestRow /\ NULL \notin ClaimRow

\* The types of the tables, the routes' requests and the observers' locals.
TypeOK ==
  /\ device \in [Installation -> DeviceRow \cup {NULL}]
  /\ delivery \in [Installation -> [Event -> DeliveryRow \cup {NULL}]]
  /\ now \in Nat /\ lastSeq \in 0..MaxTurns /\ failures \in Nat
  /\ status \in [Event -> {"absent", "open", "completed", "withdrawn"}]
  /\ born \in [Event -> Nat]
  /\ session \in [Session -> [state : {"absent", "live", "revoked"}, expires : Nat,
                              end : Nat, base : 0..MaxTurns]]
  /\ request \in [Registration -> RequestRow \cup {NULL}]
  /\ pc \in [Process -> {"rest", "scan", "enqueue", "items", "admit", "dispatch"} \cup Holding]
  /\ at \in [Process -> Nat]
  /\ cursor \in [Process -> 0..MaxTurns]
  /\ batch \in [Process -> SUBSET Event]
  /\ left \in [Process -> 0..PassSize]
  /\ claim \in [Process -> ClaimRow \cup {NULL}]
  /\ told \subseteq Installation \X Event
  /\ late \in [Session -> Nat]
  /\ admittedAt \in [Notice -> Nat \cup {NULL}]

\* A delivery that is pending is owed to the registration the device has now:
\* rotation, replacement, a refused session and a dead token, in any order
\* with the observers' inserts, leave none behind (push.py 121-170, 312-315).
PendingIsCurrent ==
  \A i \in Installation, e \in Event : Pending(i, e) =>
    /\ device[i] # NULL
    /\ device[i].active
    /\ delivery[i][e].generation = device[i].generation

\* "Existing history is never replayed": what waits for a device was asked
\* after its session began, and a notice was published after the consent to
\* notices, whatever registrations the handset had before.
OnlyConsented ==
  \A i \in Installation, e \in Event : Pending(i, e) =>
    /\ e \in Reply => e > session[device[i].session].base
    /\ e \in Notice => device[i].since # NULL /\ born[e] >= device[i].since

\* "Rotation/opt-out serialize with dispatch across worker processes": while
\* the provider is called, the delivery stays pending, its device stays with
\* the session that was authorized, and no other process dispatches.
DispatchIsExclusive ==
  \A p \in Process : pc[p] \in Holding =>
    /\ Pending(claim[p].installation, claim[p].event)
    /\ device[claim[p].installation].active
    /\ device[claim[p].installation].session = claim[p].session
    /\ \A q \in Process : pc[q] \in Holding => q = p

\* A session that ended is pushed to at most once more, by the call that was
\* already authorized; no retry, other device, other process or restart adds one.
OnePushAfterRevocation == \A s \in Session : late[s] <= 1

\* A delivery saved as sent is not sent again while its device stays
\* registered: its row is deleted only when its turn is no longer scanned.
SentOnce == \A i \in Installation, e \in Event : <<i, e>> \in told => ~Pending(i, e)

\* MAX_DEVICES bounds the devices that are live, though expired and inactive
\* ones come back by registering again.
LiveDevicesBounded == Cardinality(LiveDevices(now)) <= MaxDevices

\* A reply is never rescheduled to a time at which it could only expire.
RetriesFit ==
  \A i \in Installation, e \in Reply :
    Pending(i, e) => delivery[i][e].due < delivery[i][e].expires

\* The rows of a day show no more notices than the cap, across devices and
\* with several processes admitting (push.py 235-240).
NoticesCapped == Cardinality(Recent(now)) <= NoticeCap

\* "At most two new suggestion events are admitted in a rolling day."
TwoNoticesADay ==
  \A t \in 0..now :
    Cardinality({n \in Notice : admittedAt[n] # NULL /\ admittedAt[n] <= t
                                /\ admittedAt[n] + Day > t}) <= NoticeCap

Eligible(i, e) == status[e] = "completed" /\ Owed(i, e, now) /\ born[e] + Day >= now

\* Every completed turn a device is owed gets its delivery, in whatever order
\* turns complete and whenever a pass is broken off (push.py 183-210).
RepliesAreQueued ==
  \A i \in Installation, e \in Reply :
    Eligible(i, e) ~> (delivery[i][e] # NULL \/ ~Eligible(i, e))

\* A delivery that is due is dealt with: nothing that is held, refused or
\* failing stays ahead of it for ever.
DueIsServed ==
  \A i \in Installation, e \in Event : Due(i, e, now) ~> ~Due(i, e, now)

=============================================================================
