----------------------------- MODULE PushOutbox -----------------------------
(***************************************************************************)
(* The database of radhouse.chat.push.PushOutbox for one owner: the devices *)
(* that asked for notifications and the deliveries owed to them.  An action *)
(* is what one write transaction does; `at' is the clock reading its caller *)
(* took.  Times are counted in units of the smallest delay.                 *)
(***************************************************************************)
EXTENDS Integers, FiniteSets

CONSTANTS
  Installation,   \* handsets
  Session,        \* login sessions, each with the binding revision it was for
  NULL,
  MaxTurns,       \* requests of the chat; a reply is named by its turns.seq
  MaxNotices,     \* commitment notices, named by the numbers that follow
  MaxDevices,     \* MAX_DEVICES
  MaxAttempts,    \* attempts after which a delivery is exhausted
  NoticeCap,      \* notices admitted in a day
  Minute,         \* first retry delay, and the delay of a held notice
  Hour,           \* life of a reply notification, and the longest retry_after
  Day,
  Retention       \* age at which rows are deleted

Reply == 1..MaxTurns
Notice == (MaxTurns + 1)..(MaxTurns + MaxNotices)
Event == 1..(MaxTurns + MaxNotices)

ASSUME PushAssumption ==
  /\ NULL \notin Int
  /\ MaxTurns \in Nat /\ MaxNotices \in Nat
  /\ IsFiniteSet(Installation)
  /\ MaxDevices \in Nat /\ MaxAttempts \in Nat \ {0} /\ NoticeCap \in Nat
  /\ Minute \in Nat /\ Hour \in Nat /\ Day \in Nat /\ Retention \in Nat
  /\ 0 < Minute /\ Minute <= Hour /\ Hour <= Day /\ Day < Retention

\* Delays are whole numbers; the provers have no rule for powers.
ASSUME DelayAssumption == \A n \in 0..MaxAttempts : Minute * 2^n \in Nat

VARIABLES
  device,     \* the devices table: a record, or NULL when there is no row
  delivery    \* the deliveries table: delivery[i][e], or NULL

outboxVars == <<device, delivery>>

Earlier(a, b) == IF a <= b THEN a ELSE b
Later(a, b) == IF a <= b THEN b ELSE a

Live(i, at) == device[i] # NULL /\ device[i].active /\ device[i].expires > at
LiveDevices(at) == {i \in Installation : Live(i, at)}

Pending(i, e) == delivery[i][e] # NULL /\ delivery[i][e].state = "pending"

\* "closed" stands for discarded, expired, exhausted and blocked.
Closed(row) == [row EXCEPT !.state = "closed"]

NoRows == [e \in Event |-> NULL]

OutboxInit ==
  /\ device = [i \in Installation |-> NULL]
  /\ delivery = [i \in Installation |-> NoRows]

-----------------------------------------------------------------------------

\* Mutant: any active registration of the handset is continued.
SameScope_AnySession(i, s) == device[i] # NULL /\ device[i].active

SameScope(i, s) == device[i] # NULL /\ device[i].active /\ device[i].session = s

\* _admit_registration
Admissible(i, at) == Cardinality(LiveDevices(at)) < MaxDevices \/ Live(i, at)

\* Mutant: rotation leaves pending deliveries to their old generation.
Retarget_KeepsGeneration(i, e, gen, keep) ==
  IF Pending(i, e) /\ ~keep THEN Closed(delivery[i][e]) ELSE delivery[i][e]

\* Rotation retargets the unsent work that is kept and discards the rest.
Retarget(i, e, gen, keep) ==
  IF ~Pending(i, e) THEN delivery[i][e]
  ELSE IF keep THEN [delivery[i][e] EXCEPT !.generation = gen] ELSE Closed(delivery[i][e])

\* Mutant: notices survive a registration that no longer asks for them.
Kept_Notices(e, same, wanted) == same

Kept(e, same, wanted) == same /\ (e \in Reply \/ wanted)

\* register; `wanted' is the separate consent to commitment notices.
Register(i, s, expires, latest, wanted, at) ==
  LET old == device[i]
      same == SameScope(i, s)
      gen == IF old = NULL THEN 1 ELSE old.generation + 1
  IN  /\ expires > at
      /\ Admissible(i, at)
      /\ device' = [device EXCEPT ![i] =
           [session |-> s, generation |-> gen, active |-> TRUE,
            expires |-> expires, updated |-> at,
            start |-> IF same THEN old.start ELSE latest,
            since |-> IF ~wanted THEN NULL
                      ELSE IF same /\ old.since # NULL THEN old.since ELSE at]]
      /\ delivery' = [delivery EXCEPT ![i] =
           [e \in Event |-> Retarget(i, e, gen, Kept(e, same, wanted))]]

\* unregister: only the session that registered the handset removes it.
Unregister(i, s) ==
  /\ device[i] # NULL
  /\ device[i].session = s
  /\ device' = [device EXCEPT ![i] = NULL]
  /\ delivery' = [delivery EXCEPT ![i] = NoRows]

-----------------------------------------------------------------------------

Forgotten(i, at) ==
  /\ device[i] # NULL
  /\ device[i].updated + Retention < at
  /\ device[i].expires <= at

\* Mutant: rows are kept no longer than their turn is scanned.
Outdated_Day(row, at) == row.created + Day < at

Outdated(row, at) == row.created + Retention < at

Purged(i, e, at) ==
  LET row == delivery[i][e]
  IN  IF row = NULL \/ Forgotten(i, at) \/ Outdated(row, at) THEN NULL
      ELSE IF Pending(i, e) /\ row.expires <= at THEN Closed(row) ELSE row

\* The first transaction of reconcile: expire and delete.
Purge(at) ==
  /\ device' = [i \in Installation |-> IF Forgotten(i, at) THEN NULL ELSE device[i]]
  /\ delivery' = [i \in Installation |-> [e \in Event |-> Purged(i, e, at)]]

NewRow(i, expires, at) ==
  [generation |-> device[i].generation, state |-> "pending", attempts |-> 0,
   due |-> at, expires |-> Earlier(expires, device[i].expires), created |-> at]

\* Consent covers requests submitted after the registration.
Owed(i, e, at) == Live(i, at) /\ e > device[i].start

\* _enqueue: INSERT OR IGNORE of a batch of completed turns.
Enqueue(turns, at) ==
  /\ delivery' = [i \in Installation |-> [e \in Event |->
       IF delivery[i][e] = NULL /\ e \in turns /\ Owed(i, e, at)
       THEN NewRow(i, at + Hour, at) ELSE delivery[i][e]]]
  /\ UNCHANGED device

\* An opted-in device takes notices published after its consent, for a day.
Wants(i, n, born, at) ==
  /\ Live(i, at)
  /\ device[i].since # NULL
  /\ born[n] >= device[i].since
  /\ born[n] + Day > at

\* The notices some row shows to have been admitted in the last day.
Recent(at) ==
  {n \in Notice : \E i \in Installation :
     delivery[i][n] # NULL /\ delivery[i][n].created + Day > at}

Admits(count) == count < NoticeCap

\* The items to be inserted, oldest first until the cap is reached.
Granted(items, born, at) ==
  LET new == {n \in items \ Recent(at) : \E i \in Installation : Wants(i, n, born, at)}
      ahead(n) == {m \in new : born[m] < born[n] \/ (born[m] = born[n] /\ m < n)}
  IN  {n \in items : n \in Recent(at)
         \/ Admits(Cardinality(Recent(at)) + Cardinality(ahead(n)))}

EnqueueCommitments(items, born, at) ==
  /\ delivery' = [i \in Installation |-> [e \in Event |->
       IF delivery[i][e] = NULL /\ e \in Granted(items, born, at) /\ Wants(i, e, born, at)
       THEN NewRow(i, born[e] + Day, at) ELSE delivery[i][e]]]
  /\ UNCHANGED device

-----------------------------------------------------------------------------

Due(i, e, at) == Pending(i, e) /\ delivery[i][e].due <= at

\* The row dispatch_one selects: ORDER BY due_at, created_at LIMIT 1.
Selected(i, e, at) ==
  /\ Due(i, e, at)
  /\ \A j \in Installation, f \in Event : Due(j, f, at) =>
       LET row == delivery[i][e]
           other == delivery[j][f]
       IN  row.due < other.due \/ (row.due = other.due /\ row.created <= other.created)

Dispatchable(i, e, at) ==
  /\ device[i].active
  /\ delivery[i][e].generation = device[i].generation
  /\ Earlier(delivery[i][e].expires, device[i].expires) > at

\* _finish
Finish(i, e, state) ==
  /\ delivery' = [delivery EXCEPT ![i][e].state = state]
  /\ UNCHANGED device

\* _deactivate
Deactivate(i) ==
  /\ device' = [device EXCEPT ![i].active = FALSE]
  /\ delivery' = [delivery EXCEPT ![i] = [e \in Event |->
       IF Pending(i, e) THEN Closed(delivery[i][e]) ELSE delivery[i][e]]]

\* Mutant: a held notice keeps its place at the head.
Hold_InPlace(i, e, at) == UNCHANGED outboxVars

\* _defer_commitment in the quiet hours
Hold(i, e, at) ==
  /\ delivery' = [delivery EXCEPT ![i][e].due = at + Minute]
  /\ UNCHANGED device

Exhausted(row, attempts, next) == attempts >= MaxAttempts \/ next >= row.expires

\* A failed attempt: exponential delay, or the provider's own if longer.
Retry(i, e, retryAfter, at) ==
  LET row == delivery[i][e]
      attempts == row.attempts + 1
      next == at + Later(Minute * 2^row.attempts, Earlier(Hour, retryAfter))
  IN  /\ delivery' = [delivery EXCEPT ![i][e] =
           [row EXCEPT !.attempts = attempts, !.due = next,
            !.state = IF Exhausted(row, attempts, next) THEN "closed" ELSE "pending"]]
      /\ UNCHANGED device

=============================================================================
