------------------------- MODULE PushDelivery_proofs -------------------------
(***************************************************************************)
(* What holds of push delivery for any number of handsets, sessions,       *)
(* observers, turns and notices.  The database's transactions come first:  *)
(* what each does to the rows, whoever calls it.  Then the observers, the  *)
(* routes and the rest of the world, which call them.                      *)
(***************************************************************************)
EXTENDS PushDelivery, WellFoundedInduction, FiniteSetTheorems, TLAPS

USE PushAssumption, DeliveryAssumption

OutboxTypes ==
  /\ device \in [Installation -> DeviceRow \cup {NULL}]
  /\ delivery \in [Installation -> [Event -> DeliveryRow \cup {NULL}]]

\* A delivery that is pending has attempts left.
AttemptsLeft ==
  \A i \in Installation, e \in Event : Pending(i, e) => delivery[i][e].attempts < MaxAttempts

OutboxInv == OutboxTypes /\ AttemptsLeft /\ PendingIsCurrent /\ RetriesFit

-----------------------------------------------------------------------------
(* Rows.                                                                   *)

LEMMA Events ==
  /\ Event = Reply \cup Notice
  /\ Reply \cap Notice = {}
  /\ Reply \subseteq 1..MaxTurns
BY DEF Event, Reply, Notice

LEMMA DeviceFields ==
  ASSUME OutboxTypes, NEW i \in Installation, device[i] # NULL
  PROVE  /\ device[i] \in DeviceRow
         /\ device[i].session \in Session /\ device[i].generation \in Nat
         /\ device[i].active \in BOOLEAN /\ device[i].expires \in Nat
         /\ device[i].updated \in Nat /\ device[i].start \in 0..MaxTurns
         /\ device[i].since \in Nat \cup {NULL}
BY DEF OutboxTypes, DeviceRow

LEMMA DeliveryFields ==
  ASSUME OutboxTypes, NEW i \in Installation, NEW e \in Event, delivery[i][e] # NULL
  PROVE  /\ delivery[i][e] \in DeliveryRow
         /\ delivery[i][e].generation \in Nat /\ delivery[i][e].attempts \in 0..MaxAttempts
         /\ delivery[i][e].due \in Nat /\ delivery[i][e].expires \in Nat
         /\ delivery[i][e].created \in Nat
         /\ delivery[i][e].state \in {"pending", "sent", "closed"}
<1>1. delivery[i][e] \in DeliveryRow
  BY DEF OutboxTypes
<1> QED
  BY <1>1 DEF DeliveryRow

LEMMA EarlierNat == \A a, b \in Nat : Earlier(a, b) \in Nat /\ Later(a, b) \in Nat
BY DEF Earlier, Later

\* A row is replaced by another.
LEMMA RowReplaced ==
  ASSUME OutboxTypes, NEW i \in Installation, NEW e \in Event, NEW row \in DeliveryRow,
         delivery' = [delivery EXCEPT ![i][e] = row]
  PROVE  /\ delivery' \in [Installation -> [Event -> DeliveryRow \cup {NULL}]]
         /\ delivery'[i][e] = row
         /\ \A j \in Installation, f \in Event :
              j # i \/ f # e => delivery'[j][f] = delivery[j][f]
<1>1. delivery[i] \in [Event -> DeliveryRow \cup {NULL}]
  BY DEF OutboxTypes
<1>2. delivery' = [delivery EXCEPT ![i] = [delivery[i] EXCEPT ![e] = row]]
  OBVIOUS
<1> DEFINE rows == [delivery[i] EXCEPT ![e] = row]
<1>3. /\ rows \in [Event -> DeliveryRow \cup {NULL}]
      /\ rows[e] = row
      /\ \A f \in Event : f # e => rows[f] = delivery[i][f]
  BY <1>1
<1>4. delivery' = [delivery EXCEPT ![i] = rows]
  BY <1>2
<1> HIDE DEF rows
<1> QED
  BY <1>3, <1>4 DEF OutboxTypes

\* The rows of every handset are rewritten by an expression.
LEMMA RowsRewritten ==
  ASSUME NEW F \in [Installation -> [Event -> DeliveryRow \cup {NULL}]], delivery' = F
  PROVE  delivery' \in [Installation -> [Event -> DeliveryRow \cup {NULL}]]
OBVIOUS

-----------------------------------------------------------------------------
(* The transactions, one by one.                                           *)

LEMMA RegisterKeeps ==
  ASSUME OutboxInv, NEW i \in Installation, NEW s \in Session, NEW expires \in Nat,
         NEW latest \in 0..MaxTurns, NEW wanted \in BOOLEAN, NEW t \in Nat,
         Register(i, s, expires, latest, wanted, t)
  PROVE  OutboxInv'
<1> DEFINE same == SameScope(i, s)
           gen == IF device[i] = NULL THEN 1 ELSE device[i].generation + 1
           row == [session |-> s, generation |-> gen, active |-> TRUE,
                   expires |-> expires, updated |-> t,
                   start |-> IF same THEN device[i].start ELSE latest,
                   since |-> IF ~wanted THEN NULL
                             ELSE IF same /\ device[i].since # NULL THEN device[i].since ELSE t]
           rows == [e \in Event |-> Retarget(i, e, gen, Kept(e, same, wanted))]
<1>0. OutboxTypes
  BY DEF OutboxInv
<1>1. device' = [device EXCEPT ![i] = row] /\ delivery' = [delivery EXCEPT ![i] = rows]
  BY DEF Register
<1>2. gen \in Nat /\ same \in BOOLEAN
  BY <1>0, DeviceFields DEF SameScope
<1>3. row \in DeviceRow
  <2>1. device[i] # NULL => device[i].start \in 0..MaxTurns /\ device[i].since \in Nat \cup {NULL}
    BY <1>0, DeviceFields
  <2>2. same => device[i] # NULL
    BY DEF SameScope
  <2> HIDE DEF same, gen
  <2> QED
    BY <1>2, <2>1, <2>2 DEF DeviceRow
<1>4. \A e \in Event :
        /\ Retarget(i, e, gen, Kept(e, same, wanted)) \in DeliveryRow \cup {NULL}
        /\ ~Pending(i, e) => rows[e] = delivery[i][e]
        /\ Pending(i, e) /\ ~Kept(e, same, wanted) => rows[e] = Closed(delivery[i][e])
        /\ Pending(i, e) /\ Kept(e, same, wanted) =>
             rows[e] = [delivery[i][e] EXCEPT !.generation = gen]
  <2> TAKE e \in Event
  <2>1. delivery[i][e] \in DeliveryRow \cup {NULL}
    BY <1>0 DEF OutboxTypes
  <2>2. Pending(i, e) => delivery[i][e] \in DeliveryRow
    BY <2>1 DEF Pending
  <2> HIDE DEF gen, same
  <2>3. Pending(i, e) => /\ Closed(delivery[i][e]) \in DeliveryRow
                         /\ [delivery[i][e] EXCEPT !.generation = gen] \in DeliveryRow
    BY <2>2, <1>2 DEF Closed, DeliveryRow
  <2> QED
    BY <2>1, <2>3 DEF Retarget
<1> HIDE DEF row, gen, same
<1>5. /\ delivery' \in [Installation -> [Event -> DeliveryRow \cup {NULL}]]
      /\ device' \in [Installation -> DeviceRow \cup {NULL}]
  BY <1>0, <1>1, <1>3, <1>4 DEF OutboxTypes
<1>6. OutboxTypes'
  BY <1>5 DEF OutboxTypes
<1>7. \A e \in Event : Pending(i, e)' =>
        /\ Pending(i, e)
        /\ delivery'[i][e].generation = gen
        /\ delivery'[i][e].attempts = delivery[i][e].attempts
        /\ delivery'[i][e].due = delivery[i][e].due
        /\ delivery'[i][e].expires = delivery[i][e].expires
  <2> TAKE e \in Event
  <2>1. delivery'[i][e] = rows[e]
    BY <1>0, <1>1 DEF OutboxTypes
  <2>2. Pending(i, e) => delivery[i][e] \in DeliveryRow
    BY <1>0, DeliveryFields DEF Pending
  <2> QED
    BY <1>4, <2>1, <2>2 DEF Pending, Closed, DeliveryRow
<1>8. \A j \in Installation : j # i => device'[j] = device[j] /\ delivery'[j] = delivery[j]
  BY <1>0, <1>1 DEF OutboxTypes
<1>9. device'[i] = row /\ row # NULL /\ row.active /\ row.generation = gen
  BY <1>0, <1>1, <1>3, RowAssumption DEF OutboxTypes, row
<1> QED
  BY <1>0, <1>6, <1>7, <1>8, <1>9, Events
  DEF OutboxInv, AttemptsLeft, PendingIsCurrent, RetriesFit, Pending

\* Some rows stop waiting; nothing else happens to those that wait.
LEMMA FewerPending ==
  ASSUME OutboxInv, OutboxTypes',
         \A i \in Installation, e \in Event : Pending(i, e)' =>
           Pending(i, e) /\ delivery'[i][e] = delivery[i][e] /\ device'[i] = device[i]
  PROVE  OutboxInv'
<1>1. AttemptsLeft'
  BY DEF OutboxInv, AttemptsLeft
<1>2. PendingIsCurrent'
  BY DEF OutboxInv, PendingIsCurrent
<1>3. RetriesFit'
  BY Events DEF OutboxInv, RetriesFit
<1> QED
  BY <1>1, <1>2, <1>3 DEF OutboxInv

LEMMA UnregisterKeeps ==
  ASSUME OutboxInv, NEW i \in Installation, NEW s \in Session, Unregister(i, s)
  PROVE  OutboxInv'
<1>1. NoRows \in [Event -> DeliveryRow \cup {NULL}] /\ \A e \in Event : NoRows[e] = NULL
  BY DEF NoRows
<1>2. device' = [device EXCEPT ![i] = NULL] /\ delivery' = [delivery EXCEPT ![i] = NoRows]
  BY DEF Unregister
<1>3. OutboxTypes'
  BY <1>1, <1>2 DEF OutboxInv, OutboxTypes
<1>4. /\ \A e \in Event : delivery'[i][e] = NULL
      /\ \A j \in Installation : j # i => device'[j] = device[j] /\ delivery'[j] = delivery[j]
  BY <1>1, <1>2 DEF OutboxInv, OutboxTypes
<1> QED
  BY <1>3, <1>4, FewerPending DEF Pending

LEMMA PurgeKeeps ==
  ASSUME OutboxInv, NEW t \in Nat, Purge(t)
  PROVE  OutboxInv'
<1>0. OutboxTypes
  BY DEF OutboxInv
<1>1. ASSUME NEW i \in Installation, NEW e \in Event
      PROVE  /\ Purged(i, e, t) \in DeliveryRow \cup {NULL}
             /\ delivery'[i][e] = Purged(i, e, t)
             /\ device'[i] = IF Forgotten(i, t) THEN NULL ELSE device[i]
             /\ Purged(i, e, t) # NULL =>
                  delivery[i][e] # NULL /\ ~Forgotten(i, t)
             /\ Pending(i, e)' => Pending(i, e) /\ delivery'[i][e] = delivery[i][e]
  <2>1. delivery[i][e] \in DeliveryRow \cup {NULL}
    BY <1>0 DEF OutboxTypes
  <2>2. Pending(i, e) => Closed(delivery[i][e]) \in DeliveryRow
                         /\ Closed(delivery[i][e]).state = "closed"
    BY <2>1 DEF Pending, Closed, DeliveryRow
  <2>3. delivery'[i][e] = Purged(i, e, t) /\ device'[i] = IF Forgotten(i, t) THEN NULL ELSE device[i]
    BY DEF Purge
  <2>4. Purged(i, e, t) \in {NULL, delivery[i][e]} \cup
          (IF Pending(i, e) THEN {Closed(delivery[i][e])} ELSE {})
    BY DEF Purged
  <2>5. Purged(i, e, t) # NULL => delivery[i][e] # NULL /\ ~Forgotten(i, t)
    BY DEF Purged
  <2> QED
    BY <2>1, <2>2, <2>3, <2>4, <2>5 DEF Pending
<1>2. OutboxTypes'
  <2>1. device' \in [Installation -> DeviceRow \cup {NULL}]
    BY <1>0 DEF Purge, OutboxTypes
  <2>2. delivery' \in [Installation -> [Event -> DeliveryRow \cup {NULL}]]
    BY <1>1 DEF Purge
  <2> QED
    BY <2>1, <2>2 DEF OutboxTypes
<1>3. \A i \in Installation, e \in Event : Pending(i, e)' =>
        /\ Pending(i, e) /\ delivery'[i][e] = delivery[i][e] /\ device'[i] = device[i]
  BY <1>1 DEF Pending
<1> QED
  BY <1>2, <1>3, FewerPending

LEMMA NewRowFields ==
  ASSUME OutboxTypes, NEW i \in Installation, NEW t \in Nat, NEW expires \in Nat,
         Live(i, t), expires > t
  PROVE  /\ NewRow(i, expires, t) \in DeliveryRow
         /\ NewRow(i, expires, t).attempts = 0
         /\ NewRow(i, expires, t).created = t
         /\ NewRow(i, expires, t).generation = device[i].generation
         /\ NewRow(i, expires, t).due < NewRow(i, expires, t).expires
<1>1. device[i].expires \in Nat /\ device[i].expires > t /\ device[i].generation \in Nat
  BY DeviceFields DEF Live
<1> QED
  BY <1>1 DEF NewRow, Earlier, DeliveryRow

LEMMA EnqueueKeeps ==
  ASSUME OutboxInv, NEW turns \in SUBSET Event, NEW t \in Nat, Enqueue(turns, t)
  PROVE  OutboxInv'
<1>0. OutboxTypes
  BY DEF OutboxInv
<1>1. ASSUME NEW i \in Installation, NEW e \in Event
      PROVE  \/ delivery'[i][e] = delivery[i][e]
             \/ delivery'[i][e] = NewRow(i, t + Hour, t) /\ Live(i, t)
  BY DEF Enqueue, Owed
<1> t + Hour \in Nat /\ t + Hour > t
  OBVIOUS
<1>2. ASSUME NEW i \in Installation, NEW e \in Event
      PROVE  delivery'[i][e] \in DeliveryRow \cup {NULL}
  <2>1. CASE delivery'[i][e] = delivery[i][e]
    BY <1>0, <2>1 DEF OutboxTypes
  <2>2. CASE delivery'[i][e] = NewRow(i, t + Hour, t) /\ Live(i, t)
    BY <1>0, <2>2, NewRowFields
  <2> QED
    BY <1>1, <2>1, <2>2
<1>3. OutboxTypes'
  <2>1. delivery' = [i \in Installation |-> [e \in Event |-> delivery'[i][e]]]
    BY DEF Enqueue
  <2> QED
    BY <1>0, <1>2, <2>1 DEF OutboxTypes, Enqueue
<1>4. device' = device
  BY DEF Enqueue
<1>5. ASSUME NEW i \in Installation, NEW e \in Event, Pending(i, e)',
             delivery'[i][e] # delivery[i][e]
      PROVE  /\ device[i] # NULL /\ device[i].active
             /\ delivery'[i][e].generation = device[i].generation
             /\ delivery'[i][e].attempts < MaxAttempts
             /\ delivery'[i][e].due < delivery'[i][e].expires
  BY <1>0, <1>1, <1>5, NewRowFields DEF Live
<1> QED
  BY <1>3, <1>4, <1>5, Events DEF OutboxInv, AttemptsLeft, PendingIsCurrent, RetriesFit, Pending

LEMMA EnqueueCommitmentsKeeps ==
  ASSUME OutboxInv, NEW items \in SUBSET Event, NEW b \in [Event -> Nat], NEW t \in Nat,
         EnqueueCommitments(items, b, t)
  PROVE  OutboxInv'
<1>0. OutboxTypes
  BY DEF OutboxInv
<1>1. ASSUME NEW i \in Installation, NEW e \in Event
      PROVE  \/ delivery'[i][e] = delivery[i][e]
             \/ delivery'[i][e] = NewRow(i, b[e] + Day, t) /\ Live(i, t) /\ b[e] + Day > t
  BY DEF EnqueueCommitments, Wants
<1>2. ASSUME NEW i \in Installation, NEW e \in Event
      PROVE  delivery'[i][e] \in DeliveryRow \cup {NULL}
  <2>1. CASE delivery'[i][e] = delivery[i][e]
    BY <1>0, <2>1 DEF OutboxTypes
  <2>2. CASE delivery'[i][e] = NewRow(i, b[e] + Day, t) /\ Live(i, t) /\ b[e] + Day > t
    <3>1. b[e] + Day \in Nat
      OBVIOUS
    <3> QED
      BY <1>0, <2>2, <3>1, NewRowFields
  <2> QED
    BY <1>1, <2>1, <2>2
<1>3. OutboxTypes'
  <2>1. delivery' = [i \in Installation |-> [e \in Event |-> delivery'[i][e]]]
    BY DEF EnqueueCommitments
  <2> QED
    BY <1>0, <1>2, <2>1 DEF OutboxTypes, EnqueueCommitments
<1>4. device' = device
  BY DEF EnqueueCommitments
<1>5. ASSUME NEW i \in Installation, NEW e \in Event, Pending(i, e)',
             delivery'[i][e] # delivery[i][e]
      PROVE  /\ device[i] # NULL /\ device[i].active
             /\ delivery'[i][e].generation = device[i].generation
             /\ delivery'[i][e].attempts < MaxAttempts
             /\ delivery'[i][e].due < delivery'[i][e].expires
  BY <1>0, <1>1, <1>5, NewRowFields DEF Live
<1> QED
  BY <1>3, <1>4, <1>5, Events DEF OutboxInv, AttemptsLeft, PendingIsCurrent, RetriesFit, Pending

\* One pending row gets an outcome or a later time; all others stay.
LEMMA OneRowKeeps ==
  ASSUME OutboxInv, NEW i \in Installation, NEW e \in Event, NEW row \in DeliveryRow,
         delivery' = [delivery EXCEPT ![i][e] = row], device' = device, Pending(i, e),
         row.state = "pending" =>
           /\ row.generation = delivery[i][e].generation
           /\ row.attempts < MaxAttempts
           /\ e \in Reply => row.due < row.expires
  PROVE  OutboxInv'
<1>0. OutboxTypes
  BY DEF OutboxInv
<1>1. /\ delivery' \in [Installation -> [Event -> DeliveryRow \cup {NULL}]]
      /\ delivery'[i][e] = row
      /\ \A j \in Installation, f \in Event : j # i \/ f # e => delivery'[j][f] = delivery[j][f]
  <2>1. delivery' = [delivery EXCEPT ![i][e] = row]
    OBVIOUS
  <2> QED
    BY ONLY ZenonT(40), <1>0, <2>1, RowReplaced, i \in Installation, e \in Event, row \in DeliveryRow
<1>2. OutboxTypes'
  BY <1>0, <1>1 DEF OutboxTypes
<1> QED
  BY <1>1, <1>2, Events DEF OutboxInv, AttemptsLeft, PendingIsCurrent, RetriesFit, Pending

LEMMA FinishKeeps ==
  ASSUME OutboxInv, NEW i \in Installation, NEW e \in Event, Pending(i, e),
         NEW state \in {"sent", "closed"}, Finish(i, e, state)
  PROVE  OutboxInv' /\ ~Pending(i, e)'
<1> DEFINE row == [delivery[i][e] EXCEPT !.state = state]
<1>1. delivery[i][e] \in DeliveryRow
  BY DeliveryFields DEF OutboxInv, Pending
<1>2. row \in DeliveryRow /\ row.state = state
  BY <1>1 DEF DeliveryRow
<1>3. delivery' = [delivery EXCEPT ![i][e] = row] /\ device' = device
  BY DEF Finish
<1> HIDE DEF row
<1>4. OutboxInv'
  BY <1>2, <1>3, OneRowKeeps
<1>5. delivery'[i][e] = row
  BY <1>2, <1>3, RowReplaced DEF OutboxInv
<1> QED
  BY <1>2, <1>4, <1>5 DEF Pending

LEMMA HoldKeeps ==
  ASSUME OutboxInv, NEW i \in Installation, NEW e \in Notice, Pending(i, e),
         NEW t \in Nat, Hold(i, e, t)
  PROVE  OutboxInv'
<1> DEFINE row == [delivery[i][e] EXCEPT !.due = t + Minute]
<1>0. e \in Event /\ e \notin Reply
  BY Events
<1>1. delivery[i][e] \in DeliveryRow
  BY <1>0, DeliveryFields DEF OutboxInv, Pending
<1>2. /\ row \in DeliveryRow
      /\ row.generation = delivery[i][e].generation
      /\ row.attempts = delivery[i][e].attempts
  BY <1>1 DEF DeliveryRow
<1>3. delivery' = [delivery EXCEPT ![i][e] = row] /\ device' = device
  BY DEF Hold
<1> HIDE DEF row
<1> QED
  BY <1>0, <1>2, <1>3, OneRowKeeps DEF OutboxInv, AttemptsLeft

LEMMA RetryRow ==
  ASSUME OutboxInv, NEW i \in Installation, NEW e \in Event, Pending(i, e),
         NEW r \in Nat, NEW t \in Nat, Retry(i, e, r, t)
  PROVE  \E row \in DeliveryRow :
           /\ delivery' = [delivery EXCEPT ![i][e] = row] /\ device' = device
           /\ row.generation = delivery[i][e].generation
           /\ row.created = delivery[i][e].created
           /\ row.state = "pending" => row.attempts < MaxAttempts /\ row.due < row.expires
<1> DEFINE old == delivery[i][e]
           wait == Minute * 2^old.attempts
           next == t + Later(wait, Earlier(Hour, r))
           state == IF Exhausted(old, old.attempts + 1, next) THEN "closed" ELSE "pending"
           row == [old EXCEPT !.attempts = old.attempts + 1, !.due = next, !.state = state]
<1>1. old \in DeliveryRow /\ old.attempts \in 0..MaxAttempts /\ old.attempts < MaxAttempts
  BY DeliveryFields DEF OutboxInv, AttemptsLeft, Pending
<1>2. wait \in Nat
  BY <1>1, DelayAssumption
<1>3. delivery' = [delivery EXCEPT ![i][e] = row] /\ device' = device
  BY DEF Retry
<1> HIDE DEF wait
<1>4. next \in Nat
  <2>1. Earlier(Hour, r) \in Nat
    BY EarlierNat
  <2>2. Later(wait, Earlier(Hour, r)) \in Nat
    BY <1>2, <2>1, EarlierNat
  <2> QED
    BY <2>2
<1> HIDE DEF next
<1>5. state \in {"pending", "closed"} /\ (state = "pending" => ~Exhausted(old, old.attempts + 1, next))
  OBVIOUS
<1> HIDE DEF state
<1>6. /\ row \in DeliveryRow
      /\ row.generation = old.generation
      /\ row.attempts = old.attempts + 1
      /\ row.due = next /\ row.expires = old.expires
      /\ row.created = old.created
      /\ row.state = state
  <2>1. old.attempts + 1 \in 0..MaxAttempts
    BY <1>1
  <2> HIDE DEF old
  <2> QED
    BY <1>1, <1>4, <1>5, <2>1 DEF DeliveryRow
<1>7. row.state = "pending" => row.attempts < MaxAttempts /\ row.due < row.expires
  BY <1>1, <1>4, <1>5, <1>6 DEF Exhausted, DeliveryRow
<1> HIDE DEF row
<1> QED
  BY <1>3, <1>6, <1>7

LEMMA RetryKeeps ==
  ASSUME OutboxInv, NEW i \in Installation, NEW e \in Event, Pending(i, e),
         NEW r \in Nat, NEW t \in Nat, Retry(i, e, r, t)
  PROVE  OutboxInv'
BY RetryRow, OneRowKeeps

LEMMA DeactivateKeeps ==
  ASSUME OutboxInv, NEW i \in Installation, device[i] # NULL, Deactivate(i)
  PROVE  OutboxInv' /\ \A e \in Event : ~Pending(i, e)'
<1> DEFINE row == [device[i] EXCEPT !.active = FALSE]
           rows == [e \in Event |-> IF Pending(i, e) THEN Closed(delivery[i][e]) ELSE delivery[i][e]]
<1>0. OutboxTypes
  BY DEF OutboxInv
<1>1. device' = [device EXCEPT ![i] = row] /\ delivery' = [delivery EXCEPT ![i] = rows]
  BY DEF Deactivate
<1>2. row \in DeviceRow
  BY <1>0, DeviceFields DEF DeviceRow
<1>3. \A e \in Event : /\ rows[e] \in DeliveryRow \cup {NULL}
                       /\ rows[e] = NULL \/ rows[e].state # "pending"
  <2> TAKE e \in Event
  <2>1. delivery[i][e] \in DeliveryRow \cup {NULL}
    BY <1>0 DEF OutboxTypes
  <2>2. Pending(i, e) => Closed(delivery[i][e]) \in DeliveryRow
                         /\ Closed(delivery[i][e]).state = "closed"
    BY <2>1 DEF Pending, Closed, DeliveryRow
  <2> QED
    BY <2>1, <2>2 DEF Pending
<1>4. rows \in [Event -> DeliveryRow \cup {NULL}]
  BY <1>3
<1> HIDE DEF row, rows
<1>5. OutboxTypes'
  BY <1>0, <1>1, <1>2, <1>4 DEF OutboxTypes
<1>6. /\ \A e \in Event : ~Pending(i, e)'
      /\ \A j \in Installation : j # i => device'[j] = device[j] /\ delivery'[j] = delivery[j]
  BY <1>0, <1>1, <1>3 DEF OutboxTypes, Pending
<1> QED
  BY <1>5, <1>6, FewerPending DEF Pending

-----------------------------------------------------------------------------
(* The system: types, and who may change the outbox.                       *)

WorldTypes ==
  /\ now \in Nat /\ lastSeq \in 0..MaxTurns /\ failures \in Nat
  /\ status \in [Event -> {"absent", "open", "completed", "withdrawn"}]
  /\ born \in [Event -> Nat]
  /\ session \in [Session -> [state : {"absent", "live", "revoked"}, expires : Nat,
                              end : Nat, base : 0..MaxTurns]]
  /\ request \in [Registration -> RequestRow \cup {NULL}]

Places == {"rest", "scan", "enqueue", "items", "admit", "dispatch"} \cup Holding

ObserverTypes ==
  /\ pc \in [Process -> Places]
  /\ at \in [Process -> Nat]
  /\ cursor \in [Process -> 0..MaxTurns]
  /\ batch \in [Process -> SUBSET Event]
  /\ left \in [Process -> 0..PassSize]
  /\ claim \in [Process -> ClaimRow \cup {NULL}]

HistoryTypes ==
  /\ told \subseteq Installation \X Event
  /\ late \in [Session -> Nat]
  /\ admittedAt \in [Notice -> Nat \cup {NULL}]

\* An observer that holds the lock has a claim and a dispatch left in its
\* pass; a batch to be enqueued is not empty.
ObserverInv ==
  \A p \in Process :
    /\ pc[p] \in Holding => left[p] > 0 /\ claim[p] \in ClaimRow
    /\ pc[p] = "enqueue" => batch[p] # {} /\ batch[p] \subseteq Reply

PassInv ==
  OutboxInv /\ WorldTypes /\ ObserverTypes /\ HistoryTypes /\ ObserverInv /\ DispatchIsExclusive

LEMMA TypesTogether ==
  OutboxTypes /\ WorldTypes /\ ObserverTypes /\ HistoryTypes <=> TypeOK
BY DEF TypeOK, OutboxTypes, WorldTypes, ObserverTypes, HistoryTypes, Places

LEMMA OutboxFrame ==
  ASSUME OutboxInv, UNCHANGED outboxVars
  PROVE  OutboxInv'
BY DEF outboxVars, OutboxInv, OutboxTypes, AttemptsLeft, PendingIsCurrent, RetriesFit, Pending

\* Nobody begins to hold the lock, and no claim or row changes.
LEMMA ExclusiveFrame ==
  ASSUME DispatchIsExclusive, UNCHANGED outboxVars,
         \A q \in Process : pc'[q] \in Holding => pc[q] \in Holding /\ claim'[q] = claim[q]
  PROVE  DispatchIsExclusive'
BY DEF outboxVars, DispatchIsExclusive, Pending

LEMMA ExclusiveFree == LockFree' => DispatchIsExclusive'
BY DEF LockFree, DispatchIsExclusive

\* Whatever does not touch the outbox or the observers.
LEMMA OutsidePass ==
  ASSUME PassInv, UNCHANGED <<outboxVars, observerVars>>, WorldTypes', HistoryTypes'
  PROVE  PassInv'
<1>1. OutboxInv'
  BY OutboxFrame DEF PassInv
<1>2. DispatchIsExclusive'
  BY ExclusiveFrame DEF PassInv, observerVars
<1>3. ObserverTypes' /\ ObserverInv'
  BY DEF PassInv, observerVars, ObserverTypes, ObserverInv
<1> QED
  BY <1>1, <1>2, <1>3 DEF PassInv

LEMMA WorldKeeps ==
  ASSUME PassInv, World
  PROVE  PassInv'
<1>1. /\ UNCHANGED <<outboxVars, observerVars, historyVars, request, failures>>
      /\ WorldTypes /\ HistoryTypes
  BY DEF World, Tick, Submit, Complete, Publish, Withdraw, Login, Revoke, PassInv, worldVars
<1>2. HistoryTypes'
  BY <1>1 DEF historyVars, HistoryTypes
<1>3. request' = request /\ failures' = failures
  BY <1>1
<1>4. WorldTypes'
  <2>1. CASE Tick
    BY <1>1, <1>3, <2>1 DEF Tick, WorldTypes
  <2>2. CASE Submit
    <3>1. lastSeq + 1 \in 1..MaxTurns
      BY <1>1, <2>2 DEF Submit, WorldTypes
    <3>2. lastSeq + 1 \in Event
      BY <3>1 DEF Event
    <3> QED
      BY <1>1, <1>3, <2>2, <3>1, <3>2 DEF Submit, WorldTypes
  <2>3. CASE \E e \in Reply : Complete(e)
    BY <1>1, <1>3, <2>3, Events DEF Complete, WorldTypes
  <2>4. CASE \E n \in Notice : Publish(n) \/ Withdraw(n)
    <3>1. PICK n \in Notice : Publish(n) \/ Withdraw(n)
      BY <2>4
    <3>2. n \in Event
      BY Events
    <3>3. CASE Publish(n)
      BY <1>1, <1>3, <3>2, <3>3 DEF Publish, WorldTypes
    <3>4. CASE Withdraw(n)
      BY <1>1, <1>3, <3>2, <3>4 DEF Withdraw, WorldTypes
    <3> QED
      BY <3>1, <3>3, <3>4
  <2>5. CASE \E s \in Session : Login(s)
    <3>1. PICK s \in Session : Login(s)
      BY <2>5
    <3>2. now + Idle \in Nat /\ now + Absolute \in Nat
      BY <1>1 DEF WorldTypes
    <3>3. Earlier(now + Idle, now + Absolute) \in Nat
      BY <3>2, EarlierNat
    <3> QED
      BY <1>1, <1>3, <3>1, <3>2, <3>3 DEF Login, WorldTypes, worldVars
  <2>6. CASE \E s \in Session : Revoke(s)
    BY <1>1, <1>3, <2>6 DEF Revoke, WorldTypes, worldVars
  <2> QED
    BY <2>1, <2>2, <2>3, <2>4, <2>5, <2>6 DEF World
<1> QED
  BY <1>1, <1>2, <1>4, OutsidePass

-----------------------------------------------------------------------------
(* The routes.                                                             *)

LEMMA RenewTypes ==
  ASSUME WorldTypes, NEW s \in Session, Renew(s)
  PROVE  /\ session' \in [Session -> [state : {"absent", "live", "revoked"}, expires : Nat,
                                     end : Nat, base : 0..MaxTurns]]
         /\ Earlier(now + Idle, session[s].end) \in Nat
<1>1. session[s].end \in Nat /\ now + Idle \in Nat
  BY DEF WorldTypes
<1>2. Earlier(now + Idle, session[s].end) \in Nat
  BY <1>1, EarlierNat
<1> QED
  BY <1>2 DEF Renew, WorldTypes

LEMMA BeginRegisterKeeps ==
  ASSUME PassInv, NEW q \in Registration, NEW i \in Installation, NEW s \in Session,
         NEW w \in BOOLEAN, BeginRegister(q, i, s, w)
  PROVE  PassInv'
<1>1. /\ UNCHANGED <<outboxVars, worldVars, observerVars, failures, historyVars>>
      /\ Renew(s) /\ WorldTypes /\ HistoryTypes
  BY DEF BeginRegister, PassInv
<1>2. HistoryTypes'
  BY <1>1 DEF historyVars, HistoryTypes
<1> DEFINE row == [installation |-> i, session |-> s, wanted |-> w,
                   expires |-> Earlier(now + Idle, session[s].end), latest |-> lastSeq]
<1>3. row \in RequestRow
  BY <1>1, RenewTypes DEF RequestRow, WorldTypes
<1>4. request' = [request EXCEPT ![q] = row]
  BY DEF BeginRegister
<1> HIDE DEF row
<1>5. WorldTypes'
  BY <1>1, <1>3, <1>4, RenewTypes DEF WorldTypes, worldVars
<1> QED
  BY <1>1, <1>2, <1>5, OutsidePass

\* A step that changes the outbox with the lock free leaves it free.
LEMMA OutboxStep ==
  ASSUME PassInv, LockFree, OutboxInv', UNCHANGED observerVars, WorldTypes', HistoryTypes'
  PROVE  PassInv'
<1>1. LockFree'
  BY DEF LockFree, observerVars
<1>2. ObserverTypes' /\ ObserverInv'
  BY DEF PassInv, observerVars, ObserverTypes, ObserverInv
<1> QED
  BY <1>1, <1>2, ExclusiveFree DEF PassInv

LEMMA CommitRegisterKeeps ==
  ASSUME PassInv, NEW q \in Registration, CommitRegister(q)
  PROVE  PassInv'
<1>1. /\ LockFree /\ OutboxInv /\ WorldTypes /\ HistoryTypes /\ request[q] \in RequestRow
      /\ UNCHANGED <<worldVars, session, observerVars, failures, historyVars>>
  BY DEF CommitRegister, RegisterLock, PassInv, WorldTypes
<1>2. OutboxInv'
  BY <1>1, RegisterKeeps DEF CommitRegister, RequestRow, WorldTypes
<1>3. WorldTypes' /\ HistoryTypes'
  BY <1>1 DEF CommitRegister, WorldTypes, worldVars, HistoryTypes, historyVars
<1> QED
  BY <1>1, <1>2, <1>3, OutboxStep

LEMMA DropRegisterKeeps ==
  ASSUME PassInv, NEW q \in Registration, DropRegister(q)
  PROVE  PassInv'
<1>1. /\ UNCHANGED <<outboxVars, worldVars, session, observerVars, failures, historyVars>>
      /\ WorldTypes /\ HistoryTypes
  BY DEF DropRegister, PassInv
<1>2. WorldTypes' /\ HistoryTypes'
  BY <1>1 DEF DropRegister, WorldTypes, worldVars, HistoryTypes, historyVars
<1> QED
  BY <1>1, <1>2, OutsidePass

LEMMA OptOutKeeps ==
  ASSUME PassInv, NEW i \in Installation, NEW s \in Session, OptOut(i, s)
  PROVE  PassInv'
<1>1. /\ LockFree /\ OutboxInv /\ WorldTypes /\ HistoryTypes /\ Renew(s) /\ Unregister(i, s)
      /\ UNCHANGED <<worldVars, request, observerVars, failures, late, admittedAt>>
      /\ told' \subseteq told
  BY DEF OptOut, PassInv
<1>2. OutboxInv'
  BY <1>1, UnregisterKeeps
<1>3. WorldTypes'
  BY <1>1, RenewTypes DEF WorldTypes, worldVars
<1>4. HistoryTypes'
  BY <1>1 DEF HistoryTypes
<1> QED
  BY <1>1, <1>2, <1>3, <1>4, OutboxStep

-----------------------------------------------------------------------------
(* The steps of a pass.                                                    *)

LEMMA Least ==
  ASSUME NEW S \in SUBSET Nat, S # {}
  PROVE  Min(S) \in S /\ \A y \in S : Min(S) <= y
<1>1. PICK x \in S : \A y \in S : ~(<<y, x>> \in OpToRel(<, Nat))
  BY NatLessThanWellFounded, WFMin
<1>2. \A y \in S : ~(y < x)
  <2> SUFFICES ASSUME NEW y \in S, y < x PROVE <<y, x>> \in OpToRel(<, Nat)
    BY <1>1
  <2>1. y \in Nat /\ x \in Nat
    OBVIOUS
  <2> QED
    BY <2>1, Zenon DEF OpToRel
<1>3. \A y \in S : x <= y
  BY <1>2
<1> QED
  BY <1>3 DEF Min

LEMMA Greatest ==
  ASSUME NEW n \in Nat, NEW S \in SUBSET (0..n), S # {}
  PROVE  Max(S) \in S /\ \A y \in S : y <= Max(S)
<1> DEFINE T == {n - x : x \in S}
<1>0. \A x \in S : n - x \in Nat
  OBVIOUS
<1>1. T \in SUBSET Nat /\ T # {}
  BY <1>0
<1>2. Min(T) \in T /\ \A y \in T : Min(T) <= y
  BY <1>1, Least
<1>3. PICK x \in S : Min(T) = n - x
  BY <1>2
<1>4. \A y \in S : n - x <= n - y
  BY <1>2, <1>3
<1>5. \A y \in S : x >= y
  BY <1>4
<1> QED
  BY <1>5 DEF Max

LEMMA FloorType ==
  ASSUME OutboxTypes, NEW t \in Nat, LiveDevices(t) # {}
  PROVE  Floor(t) \in 0..MaxTurns
<1> DEFINE S == {device[i].start : i \in LiveDevices(t)}
<1>1. \A i \in LiveDevices(t) : device[i].start \in 0..MaxTurns
  BY DeviceFields DEF LiveDevices, Live
<1>2. S \in SUBSET (0..MaxTurns) /\ S \in SUBSET Nat /\ S # {}
  BY <1>1
<1> HIDE DEF S
<1>3. Min(S) \in S
  BY <1>2, Least
<1> QED
  BY <1>2, <1>3 DEF Floor, S

LEMMA WorldFrame ==
  ASSUME WorldTypes, UNCHANGED <<worldVars, session, request>>, failures' \in Nat
  PROVE  WorldTypes'
BY DEF WorldTypes, worldVars

LEMMA AfterRepliesPlace == AfterReplies \in {"dispatch", "items"}
BY DEF AfterReplies

LEMMA ReconcileKeeps ==
  ASSUME PassInv, NEW p \in Process, Reconcile(p)
  PROVE  PassInv'
<1>0. OutboxInv /\ OutboxTypes /\ WorldTypes /\ ObserverTypes /\ HistoryTypes /\ ObserverInv /\ now \in Nat
  BY DEF PassInv, OutboxInv, WorldTypes
<1>1. OutboxInv'
  BY <1>0, PurgeKeeps DEF Reconcile
<1>2. WorldTypes'
  BY <1>0, WorldFrame DEF Reconcile, WorldTypes
<1>3. HistoryTypes'
  BY <1>0 DEF Reconcile, HistoryTypes
<1>4. PICK place \in {"scan", "dispatch", "items"} : pc' = [pc EXCEPT ![p] = place]
  BY AfterRepliesPlace DEF Reconcile, Goto
<1>5. cursor' \in [Process -> 0..MaxTurns]
  <2>1. CASE LiveDevices(now) = {}
    BY <1>0, <2>1 DEF Reconcile, ObserverTypes
  <2>2. CASE LiveDevices(now) # {}
    <3>1. Floor(now) \in 0..MaxTurns
      BY <1>0, <2>2, FloorType
    <3> QED
      BY <1>0, <2>2, <3>1 DEF Reconcile, ObserverTypes
  <2> QED
    BY <2>1, <2>2
<1>6. ObserverTypes'
  <2>1. /\ at' = [at EXCEPT ![p] = now] /\ left' = [left EXCEPT ![p] = PassSize]
        /\ batch' = batch /\ claim' = claim
    BY DEF Reconcile
  <2>2. pc' \in [Process -> Places]
    BY <1>0, <1>4 DEF ObserverTypes, Places
  <2>3. at' \in [Process -> Nat]
    BY <1>0, <2>1 DEF ObserverTypes
  <2>4. left' \in [Process -> 0..PassSize]
    <3>1. PassSize \in 0..PassSize
      OBVIOUS
    <3> QED
      BY <1>0, <2>1, <3>1 DEF ObserverTypes
  <2> QED
    BY <1>0, <1>5, <2>1, <2>2, <2>3, <2>4 DEF ObserverTypes
<1>7. ObserverInv'
  BY <1>0, <1>4 DEF Reconcile, ObserverTypes, ObserverInv, Holding, Verdict
<1>8. LockFree'
  BY <1>0, <1>4 DEF Reconcile, LockFree, ObserverTypes, Holding, Verdict
<1> QED
  BY <1>1, <1>2, <1>3, <1>6, <1>7, <1>8, ExclusiveFree DEF PassInv

LEMMA OldestOfSome ==
  ASSUME NEW S \in SUBSET Reply, S # {}
  PROVE  Oldest(S, BatchSize) \subseteq S /\ Oldest(S, BatchSize) # {}
<1>1. S \in SUBSET Nat
  BY DEF Reply
<1>2. PICK e \in S : \A f \in S : e <= f
  BY <1>1, Least
<1>3. \A f \in S : ~(f < e)
  BY <1>1, <1>2
<1>4. {f \in S : f < e} = {}
  BY <1>3
<1>5. Cardinality({f \in S : f < e}) < BatchSize
  BY <1>4, FS_EmptySet
<1>6. e \in {g \in S : Cardinality({f \in S : f < g}) < BatchSize}
  BY <1>5
<1>7. e \in Oldest(S, BatchSize)
  BY <1>6, Zenon DEF Oldest
<1> QED
  BY <1>7 DEF Oldest

LEMMA ScanKeeps ==
  ASSUME PassInv, NEW p \in Process, Scan(p)
  PROVE  PassInv'
<1>0. OutboxInv /\ WorldTypes /\ ObserverTypes /\ HistoryTypes /\ ObserverInv
  BY DEF PassInv
<1>1. UNCHANGED <<outboxVars, worldVars, session, request, at, left, claim, failures, historyVars>>
  BY DEF Scan
<1>2. OutboxInv'
  BY <1>0, <1>1, OutboxFrame
<1>3. WorldTypes' /\ HistoryTypes'
  BY <1>0, <1>1, WorldFrame DEF WorldTypes, HistoryTypes, historyVars
<1>4. Found(p) \in SUBSET Reply /\ Found(p) \in SUBSET Event
  BY Events DEF Found
<1>5. Oldest(Found(p), BatchSize) \subseteq Found(p)
  BY DEF Oldest
<1>6. PICK place \in {"enqueue", "dispatch", "items"} :
        /\ pc' = [pc EXCEPT ![p] = place]
        /\ place = "enqueue" => Found(p) # {}
  BY AfterRepliesPlace DEF Scan, Goto
<1>7. ObserverTypes'
  BY <1>0, <1>1, <1>4, <1>5, <1>6 DEF Scan, ObserverTypes, Places
<1>8. ObserverInv'
  BY <1>0, <1>1, <1>4, <1>5, <1>6, OldestOfSome
  DEF Scan, ObserverTypes, ObserverInv, Holding, Verdict
<1>9. DispatchIsExclusive'
  BY <1>0, <1>1, <1>6, ExclusiveFrame DEF PassInv, ObserverTypes, Holding, Verdict
<1> QED
  BY <1>2, <1>3, <1>7, <1>8, <1>9 DEF PassInv

LEMMA EnqueueRepliesKeeps ==
  ASSUME PassInv, NEW p \in Process, EnqueueReplies(p)
  PROVE  PassInv'
<1>0. /\ OutboxInv /\ WorldTypes /\ ObserverTypes /\ HistoryTypes /\ ObserverInv
      /\ at[p] \in Nat /\ batch[p] \in SUBSET Event /\ batch[p] # {} /\ batch[p] \subseteq Reply
  BY DEF PassInv, ObserverTypes, ObserverInv, EnqueueReplies
<1>1. UNCHANGED <<worldVars, session, request, at, left, claim, failures, historyVars>>
  BY DEF EnqueueReplies
<1>2. OutboxInv'
  BY <1>0, EnqueueKeeps DEF EnqueueReplies
<1>3. WorldTypes' /\ HistoryTypes'
  BY <1>0, <1>1, WorldFrame DEF WorldTypes, HistoryTypes, historyVars
<1>4. Max(batch[p]) \in 0..MaxTurns
  <2>1. \A e \in Reply : e \in 0..MaxTurns
    BY DEF Reply
  <2>2. batch[p] \in SUBSET (0..MaxTurns)
    BY <1>0, <2>1
  <2> QED
    BY <1>0, <2>2, Greatest
<1>5. pc' = [pc EXCEPT ![p] = "scan"] /\ batch' = [batch EXCEPT ![p] = {}]
      /\ cursor' = [cursor EXCEPT ![p] = Max(batch[p])]
  BY DEF EnqueueReplies, Goto
<1>6. ObserverTypes'
  BY <1>0, <1>1, <1>4, <1>5 DEF ObserverTypes, Places
<1>7. ObserverInv'
  BY <1>0, <1>1, <1>5 DEF ObserverTypes, ObserverInv, Holding, Verdict
<1>8. LockFree'
  BY <1>0, <1>5 DEF EnqueueReplies, LockFree, ObserverTypes, Holding, Verdict
<1> QED
  BY <1>2, <1>3, <1>6, <1>7, <1>8, ExclusiveFree DEF PassInv

LEMMA ItemsKeeps ==
  ASSUME PassInv, NEW p \in Process, Items(p)
  PROVE  PassInv'
<1>0. OutboxInv /\ WorldTypes /\ ObserverTypes /\ HistoryTypes /\ ObserverInv
  BY DEF PassInv
<1>1. UNCHANGED <<outboxVars, worldVars, session, request, at, cursor, left, claim, failures, historyVars>>
  BY DEF Items
<1>2. OutboxInv'
  BY <1>0, <1>1, OutboxFrame
<1>3. WorldTypes' /\ HistoryTypes'
  BY <1>0, <1>1, WorldFrame DEF WorldTypes, HistoryTypes, historyVars
<1>4. pc' = [pc EXCEPT ![p] = "admit"]
  BY DEF Items, Goto
<1>5. ObserverTypes'
  BY <1>0, <1>1, <1>4, Events DEF Items, ObserverTypes, Places
<1>6. ObserverInv'
  BY <1>0, <1>1, <1>4 DEF Items, ObserverTypes, ObserverInv, Holding, Verdict
<1>7. DispatchIsExclusive'
  BY <1>0, <1>1, <1>4, ExclusiveFrame DEF PassInv, ObserverTypes, Holding, Verdict
<1> QED
  BY <1>2, <1>3, <1>5, <1>6, <1>7 DEF PassInv

LEMMA EnqueueNoticesKeeps ==
  ASSUME PassInv, NEW p \in Process, EnqueueNotices(p)
  PROVE  PassInv'
<1>0. /\ OutboxInv /\ WorldTypes /\ ObserverTypes /\ HistoryTypes /\ ObserverInv
      /\ now \in Nat /\ batch[p] \in SUBSET Event /\ born \in [Event -> Nat]
  BY DEF PassInv, ObserverTypes, WorldTypes
<1>1. UNCHANGED <<worldVars, session, request, cursor, left, claim, failures, told, late>>
  BY DEF EnqueueNotices
<1>2. OutboxInv'
  BY <1>0, EnqueueCommitmentsKeeps DEF EnqueueNotices
<1>3. WorldTypes'
  BY <1>0, <1>1, WorldFrame DEF WorldTypes
<1>4. HistoryTypes'
  BY <1>0, <1>1 DEF EnqueueNotices, HistoryTypes
<1>5. /\ pc' = [pc EXCEPT ![p] = "dispatch"] /\ batch' = [batch EXCEPT ![p] = {}]
      /\ at' = [at EXCEPT ![p] = now]
  BY DEF EnqueueNotices, Goto
<1>6. ObserverTypes'
  BY <1>0, <1>1, <1>5 DEF ObserverTypes, Places
<1>7. ObserverInv'
  BY <1>0, <1>1, <1>5 DEF ObserverTypes, ObserverInv, Holding, Verdict
<1>8. LockFree'
  BY <1>0, <1>5 DEF EnqueueNotices, LockFree, ObserverTypes, Holding, Verdict
<1> QED
  BY <1>2, <1>3, <1>4, <1>6, <1>7, <1>8, ExclusiveFree DEF PassInv

\* Both ways out of a pass.
LEMMA RestKeeps ==
  ASSUME PassInv, NEW p \in Process, Rest(p), failures' \in Nat,
         UNCHANGED <<outboxVars, worldVars, session, request, historyVars>>
  PROVE  PassInv'
<1>0. OutboxInv /\ WorldTypes /\ ObserverTypes /\ HistoryTypes /\ ObserverInv
  BY DEF PassInv
<1>1. OutboxInv'
  BY <1>0, OutboxFrame
<1>2. WorldTypes' /\ HistoryTypes'
  BY <1>0, WorldFrame DEF HistoryTypes, historyVars
<1>3. ObserverTypes'
  BY <1>0 DEF Rest, Goto, ObserverTypes, Places
<1>4. ObserverInv'
  BY <1>0 DEF Rest, Goto, ObserverTypes, ObserverInv, Holding, Verdict
<1>5. DispatchIsExclusive'
  BY <1>0, ExclusiveFrame DEF PassInv, Rest, Goto, ObserverTypes, Holding, Verdict
<1> QED
  BY <1>1, <1>2, <1>3, <1>4, <1>5 DEF PassInv

\* A dispatch that ends with an outcome of its own.
LEMMA SettlesKeeps ==
  ASSUME PassInv, NEW p \in Process, NEW i \in Installation, NEW e \in Event,
         Selects(p, i, e), Settles(p), OutboxInv'
  PROVE  PassInv'
<1>0. WorldTypes /\ ObserverTypes /\ HistoryTypes /\ ObserverInv /\ now \in Nat
  BY DEF PassInv, WorldTypes
<1>1. UNCHANGED <<worldVars, session, request, pc, cursor, batch, claim, failures, historyVars>>
  BY DEF Settles
<1>2. WorldTypes' /\ HistoryTypes'
  BY <1>0, <1>1, WorldFrame DEF WorldTypes, HistoryTypes, historyVars
<1>3. ObserverTypes'
  BY <1>0, <1>1 DEF Selects, Settles, ObserverTypes
<1>4. ObserverInv' /\ LockFree'
  BY <1>0, <1>1 DEF Selects, Settles, ObserverTypes, ObserverInv, LockFree
<1> QED
  BY <1>2, <1>3, <1>4, ExclusiveFree DEF PassInv

LEMMA SelectedIsPending ==
  ASSUME PassInv, NEW p \in Process, NEW i \in Installation, NEW e \in Event, Selects(p, i, e)
  PROVE  /\ OutboxInv /\ Pending(i, e) /\ device[i] # NULL /\ now \in Nat
         /\ WorldTypes /\ ObserverTypes /\ HistoryTypes /\ ObserverInv
BY DEF PassInv, OutboxInv, WorldTypes, PendingIsCurrent, Selects, Selected, Due

LEMMA SettledKeeps ==
  ASSUME PassInv, NEW p \in Process, NEW i \in Installation, NEW e \in Event,
         \/ DropStale(p, i, e) \/ Deny(p, i, e) \/ Outage(p, i, e)
         \/ DiscardNotice(p, i, e) \/ HoldNotice(p, i, e)
  PROVE  PassInv'
<1>1. Selects(p, i, e) /\ Settles(p)
  BY DEF DropStale, Deny, Outage, DiscardNotice, HoldNotice
<1>2. OutboxInv'
  <2>1. CASE DropStale(p, i, e) \/ DiscardNotice(p, i, e)
    BY <1>1, <2>1, SelectedIsPending, FinishKeeps DEF DropStale, DiscardNotice
  <2>2. CASE Deny(p, i, e)
    BY <1>1, <2>2, SelectedIsPending, DeactivateKeeps DEF Deny
  <2>3. CASE Outage(p, i, e)
    BY <1>1, <2>3, SelectedIsPending, RetryKeeps DEF Outage
  <2>4. CASE HoldNotice(p, i, e)
    BY <1>1, <2>4, SelectedIsPending, HoldKeeps DEF HoldNotice
  <2> QED
    BY <2>1, <2>2, <2>3, <2>4
<1> QED
  BY <1>1, <1>2, SettlesKeeps

LEMMA SendKeeps ==
  ASSUME PassInv, NEW p \in Process, NEW i \in Installation, NEW e \in Event, Send(p, i, e)
  PROVE  PassInv'
<1> DEFINE row == [installation |-> i, event |-> e, session |-> device[i].session]
<1>0. /\ Selects(p, i, e) /\ OutboxInv /\ Pending(i, e) /\ device[i] # NULL /\ now \in Nat
      /\ WorldTypes /\ ObserverTypes /\ HistoryTypes /\ ObserverInv
  BY SelectedIsPending DEF Send
<1>1. /\ UNCHANGED <<outboxVars, worldVars, session, request, cursor, batch, left, failures, historyVars>>
      /\ pc' = [pc EXCEPT ![p] = "sending"] /\ at' = [at EXCEPT ![p] = now]
      /\ claim' = [claim EXCEPT ![p] = row]
  BY DEF Send, Goto
<1>2. row \in ClaimRow /\ row.installation = i /\ row.event = e /\ row.session = device[i].session
  BY <1>0, DeviceFields DEF ClaimRow, OutboxInv
<1> HIDE DEF row
<1>3. OutboxInv'
  BY <1>0, <1>1, OutboxFrame
<1>4. WorldTypes' /\ HistoryTypes'
  BY <1>0, <1>1, WorldFrame DEF WorldTypes, HistoryTypes, historyVars
<1>5. ObserverTypes'
  BY <1>0, <1>1, <1>2 DEF ObserverTypes, Places, Holding
<1>6. ObserverInv'
  BY <1>0, <1>1, <1>2 DEF Selects, ObserverTypes, ObserverInv
<1>7. DispatchIsExclusive'
  <2>1. \A q \in Process : q # p => pc'[q] \notin Holding
    BY <1>0, <1>1 DEF Selects, LockFree, ObserverTypes
  <2>2. claim'[p] = row /\ Pending(i, e)' /\ device' = device /\ device[i].active
    BY <1>0, <1>1 DEF ObserverTypes, outboxVars, Pending, Send, Dispatchable
  <2> QED
    BY <1>2, <2>1, <2>2 DEF DispatchIsExclusive
<1> QED
  BY <1>3, <1>4, <1>5, <1>6, <1>7 DEF PassInv

LEMMA AnswerKeeps ==
  ASSUME PassInv, NEW p \in Process, NEW v \in Verdict, Answer(p, v)
  PROVE  PassInv'
<1>0. /\ OutboxInv /\ WorldTypes /\ ObserverTypes /\ HistoryTypes /\ ObserverInv
      /\ pc[p] = "sending" /\ claim[p] \in ClaimRow
  BY DEF PassInv, ObserverInv, Answer, Holding
<1>1. /\ UNCHANGED <<outboxVars, worldVars, session, request, at, cursor, batch, left, claim,
                     failures, told, admittedAt>>
      /\ pc' = [pc EXCEPT ![p] = v]
  BY DEF Answer, Goto
<1>2. OutboxInv'
  BY <1>0, <1>1, OutboxFrame
<1>3. WorldTypes'
  BY <1>0, <1>1, WorldFrame DEF WorldTypes
<1>4. HistoryTypes'
  <2>1. claim[p].session \in Session
    BY <1>0 DEF ClaimRow
  <2> QED
    BY <1>0, <1>1, <2>1 DEF Answer, HistoryTypes
<1>5. ObserverTypes'
  BY <1>0, <1>1 DEF ObserverTypes, Places, Holding
<1>6. ObserverInv'
  BY <1>0, <1>1 DEF ObserverTypes, ObserverInv, Holding, Verdict
<1>7. DispatchIsExclusive'
  BY <1>0, <1>1, ExclusiveFrame DEF PassInv, ObserverTypes, Holding
<1> QED
  BY <1>2, <1>3, <1>4, <1>5, <1>6, <1>7 DEF PassInv

LEMMA SaveKeeps ==
  ASSUME PassInv, NEW p \in Process, NEW r \in RetryAfters, Save(p, r)
  PROVE  PassInv'
<1> DEFINE i == claim[p].installation
           e == claim[p].event
<1>0. /\ OutboxInv /\ WorldTypes /\ ObserverTypes /\ HistoryTypes /\ ObserverInv
      /\ pc[p] \in Holding /\ claim[p] \in ClaimRow /\ left[p] > 0
      /\ at[p] \in Nat /\ r \in Nat
  BY DEF PassInv, ObserverInv, ObserverTypes, Save, Holding
<1>1. i \in Installation /\ e \in Event
  BY <1>0 DEF ClaimRow
<1>2. Pending(i, e) /\ device[i] # NULL /\ \A q \in Process : pc[q] \in Holding => q = p
  BY <1>0, <1>1 DEF PassInv, DispatchIsExclusive, OutboxInv, PendingIsCurrent
<1>3. /\ UNCHANGED <<worldVars, session, request, at, cursor, batch, failures, late, admittedAt>>
      /\ pc' = [pc EXCEPT ![p] = "dispatch"] /\ left' = [left EXCEPT ![p] = left[p] - 1]
      /\ claim' = [claim EXCEPT ![p] = NULL]
  BY DEF Save, Goto
<1>4. /\ OutboxInv'
      /\ told' = told \/ told' = told \cup {<<i, e>>}
  <2>1. CASE pc[p] = "sent" /\ Finish(i, e, "sent") /\ told' = told \cup {<<i, e>>}
    BY <1>0, <1>1, <1>2, <2>1, FinishKeeps
  <2>2. CASE pc[p] = "blocked" /\ Finish(i, e, "closed") /\ UNCHANGED told
    BY <1>0, <1>1, <1>2, <2>2, FinishKeeps
  <2>3. CASE pc[p] = "invalid" /\ Deactivate(i) /\ UNCHANGED told
    BY <1>0, <1>1, <1>2, <2>3, DeactivateKeeps
  <2>4. CASE pc[p] = "retry" /\ Retry(i, e, r, at[p]) /\ UNCHANGED told
    BY <1>0, <1>1, <1>2, <2>4, RetryKeeps
  <2> QED
    BY <2>1, <2>2, <2>3, <2>4 DEF Save
<1>5. WorldTypes' /\ HistoryTypes'
  BY <1>0, <1>1, <1>3, <1>4, WorldFrame DEF WorldTypes, HistoryTypes
<1>6. ObserverTypes'
  BY <1>0, <1>3 DEF ObserverTypes, Places
<1>7. ObserverInv' /\ LockFree'
  BY <1>0, <1>2, <1>3 DEF ObserverTypes, ObserverInv, LockFree, Holding, Verdict
<1> QED
  BY <1>4, <1>5, <1>6, <1>7, ExclusiveFree DEF PassInv

-----------------------------------------------------------------------------

LEMMA PassInvInit == Init => PassInv
<1> SUFFICES ASSUME Init PROVE PassInv
  OBVIOUS
<1>1. OutboxInv
  <2>1. device = [i \in Installation |-> NULL] /\ delivery = [i \in Installation |-> NoRows]
    BY DEF Init, OutboxInit
  <2>2. NoRows \in [Event -> DeliveryRow \cup {NULL}] /\ \A e \in Event : NoRows[e] = NULL
    BY DEF NoRows
  <2>3. \A i \in Installation, e \in Event : ~Pending(i, e)
    BY <2>1, <2>2 DEF Pending
  <2> QED
    BY <2>1, <2>2, <2>3, Events DEF OutboxInv, OutboxTypes, AttemptsLeft, PendingIsCurrent, RetriesFit
<1>2. WorldTypes /\ ObserverTypes /\ HistoryTypes
  BY DEF Init, WorldTypes, ObserverTypes, HistoryTypes, Places
<1>3. ObserverInv /\ DispatchIsExclusive
  BY DEF Init, ObserverInv, DispatchIsExclusive, Holding, Verdict
<1> QED
  BY <1>1, <1>2, <1>3 DEF PassInv

LEMMA PassInvStep == PassInv /\ [Next]_vars => PassInv'
<1> SUFFICES ASSUME PassInv, [Next]_vars PROVE PassInv'
  OBVIOUS
<1>1. CASE World
  BY <1>1, WorldKeeps
<1>2. CASE Routes
  BY <1>2, BeginRegisterKeeps, CommitRegisterKeeps, DropRegisterKeeps, OptOutKeeps DEF Routes
<1>3. ASSUME NEW p \in Process, Pass(p)
      PROVE  PassInv'
  <2>1. ASSUME EndPass(p) PROVE PassInv'
    BY <2>1, RestKeeps DEF EndPass, PassInv, WorldTypes
  <2>2. ASSUME NEW i \in Installation, NEW e \in Event, Send(p, i, e) \/ DropStale(p, i, e)
          \/ Deny(p, i, e) \/ Outage(p, i, e) \/ DiscardNotice(p, i, e) \/ HoldNotice(p, i, e)
        PROVE  PassInv'
    BY <2>2, SendKeeps, SettledKeeps
  <2>3. ASSUME Dispatch(p) PROVE PassInv'
    BY <2>2, <2>3 DEF Dispatch
  <2> QED
    BY <1>3, <2>1, <2>3, ReconcileKeeps, ScanKeeps, EnqueueRepliesKeeps, ItemsKeeps,
       EnqueueNoticesKeeps, AnswerKeeps, SaveKeeps DEF Pass
<1>4. ASSUME NEW p \in Process, Break(p)
      PROVE  PassInv'
  BY <1>4, RestKeeps DEF Break, PassInv, WorldTypes
<1>5. CASE UNCHANGED vars
  <2>1. UNCHANGED <<outboxVars, observerVars>> /\ WorldTypes' /\ HistoryTypes'
    BY <1>5 DEF vars, PassInv, WorldTypes, worldVars, HistoryTypes, historyVars
  <2> QED
    BY <2>1, OutsidePass
<1> QED
  BY <1>1, <1>2, <1>3, <1>4, <1>5 DEF Next

LEMMA PassInvHolds == Spec => []PassInv
BY PassInvInit, PassInvStep, PTL DEF Spec

\* The tables, the requests and the observers keep their types.
THEOREM PushTypeCorrect == Spec => []TypeOK
<1>1. PassInv => TypeOK
  BY TypesTogether DEF PassInv, OutboxInv
<1> QED
  BY <1>1, PassInvHolds, PTL

\* Whatever waits to be sent belongs to the registration its device has now.
THEOREM PendingBelongsToDevice == Spec => []PendingIsCurrent
<1>1. PassInv => PendingIsCurrent
  BY DEF PassInv, OutboxInv
<1> QED
  BY <1>1, PassInvHolds, PTL

\* Rotation, opt-out and the other processes wait for a dispatch in progress.
THEOREM DispatchExcludes == Spec => []DispatchIsExclusive
<1>1. PassInv => DispatchIsExclusive
  BY DEF PassInv
<1> QED
  BY <1>1, PassInvHolds, PTL

\* A reply is rescheduled only while it has life left.
THEOREM RetriesAreInTime == Spec => []RetriesFit
<1>1. PassInv => RetriesFit
  BY DEF PassInv, OutboxInv
<1> QED
  BY <1>1, PassInvHolds, PTL

-----------------------------------------------------------------------------
(* A session that ended is pushed to once more at most.                    *)

RevokedInv ==
  \A s \in Session :
    /\ late[s] <= 1
    /\ session[s].state # "revoked" => late[s] = 0
    /\ late[s] = 1 => \A p \in Process : pc[p] = "sending" => claim[p].session # s

LEMMA RevokedFrame ==
  ASSUME RevokedInv, late' = late,
         \A s \in Session : session'[s].state # "revoked" => session[s].state # "revoked",
         \A q \in Process : pc'[q] = "sending" => pc[q] = "sending" /\ claim'[q] = claim[q]
  PROVE  RevokedInv'
BY DEF RevokedInv

LEMMA RenewKeepsState ==
  ASSUME WorldTypes, NEW s \in Session, Renew(s)
  PROVE  \A x \in Session : session'[x].state = session[x].state /\ session'[x].base = session[x].base
BY DEF Renew, WorldTypes

LEMMA SessionMoves ==
  ASSUME PassInv, [Next]_vars
  PROVE  \A s \in Session :
           /\ session'[s].state # "revoked" => session[s].state # "revoked"
           /\ session[s].state # "absent" =>
                session'[s].state # "absent" /\ session'[s].base = session[s].base
<1>0. WorldTypes
  BY DEF PassInv
<1>1. CASE UNCHANGED session
  BY <1>1
<1>2. ASSUME NEW s \in Session, Renew(s)
      PROVE  \A x \in Session : session'[x].state = session[x].state /\ session'[x].base = session[x].base
  BY <1>0, <1>2, RenewKeepsState
<1>3. ASSUME NEW s \in Session, Login(s) \/ Revoke(s)
      PROVE  \A x \in Session :
               /\ session'[x].state # "revoked" => session[x].state # "revoked"
               /\ session[x].state # "absent" =>
                    session'[x].state # "absent" /\ session'[x].base = session[x].base
  BY <1>0, <1>3 DEF Login, Revoke, WorldTypes
<1>4. CASE World
  BY <1>1, <1>3, <1>4 DEF World, Tick, Submit, Complete, Publish, Withdraw
<1>5. CASE Routes
  BY <1>1, <1>2, <1>5 DEF Routes, BeginRegister, CommitRegister, DropRegister, OptOut
<1>6. ASSUME NEW p \in Process, Pass(p) \/ Break(p)
      PROVE  UNCHANGED session
  BY <1>6 DEF Pass, Dispatch, Reconcile, Scan, EnqueueReplies, Items, EnqueueNotices, EndPass,
              DropStale, Deny, Outage, DiscardNotice, HoldNotice, Settles, Send, Answer, Save, Break
<1> QED
  BY <1>1, <1>4, <1>5, <1>6 DEF Next, vars

LEMMA RevokedStep ==
  ASSUME PassInv, RevokedInv, [Next]_vars
  PROVE  RevokedInv'
<1>0. WorldTypes /\ ObserverTypes /\ HistoryTypes
  BY DEF PassInv
<1>1. ASSUME NEW p \in Process, NEW i \in Installation, NEW e \in Event, Send(p, i, e)
      PROVE  RevokedInv'
  <2> DEFINE row == [installation |-> i, event |-> e, session |-> device[i].session]
  <2>1. device[i] # NULL /\ OutboxTypes
    BY <1>1, SelectedIsPending DEF Send, OutboxInv
  <2>2. device[i].session \in Session
    BY <2>1, DeviceFields
  <2>3. /\ late' = late /\ session' = session
        /\ pc' = [pc EXCEPT ![p] = "sending"] /\ claim' = [claim EXCEPT ![p] = row]
    BY <1>1 DEF Send, Goto, historyVars
  <2>4. session[device[i].session].state = "live" /\ row.session = device[i].session
    BY <1>1 DEF Send, Authorized, Active
  <2> HIDE DEF row
  <2>5. \A q \in Process :
          /\ q # p => pc'[q] = pc[q] /\ claim'[q] = claim[q]
          /\ q = p => claim'[q].session = device[i].session
    BY <1>0, <2>3, <2>4 DEF ObserverTypes
  <2> QED
    BY <2>2, <2>3, <2>4, <2>5 DEF RevokedInv
<1>2. ASSUME NEW p \in Process, NEW v \in Verdict, Answer(p, v)
      PROVE  RevokedInv'
  <2> DEFINE s == claim[p].session
  <2>1. claim[p] \in ClaimRow /\ pc[p] = "sending" /\ pc[p] \in Holding
    BY <1>2 DEF PassInv, ObserverInv, Answer, Holding
  <2>2. s \in Session
    BY <2>1 DEF ClaimRow
  <2>3. /\ session' = session /\ claim' = claim /\ pc' = [pc EXCEPT ![p] = v]
        /\ late' = IF session[s].state = "revoked" THEN [late EXCEPT ![s] = late[s] + 1] ELSE late
    BY <1>2 DEF Answer, Goto
  <2>4. \A q \in Process : pc'[q] # "sending"
    <3>1. \A q \in Process : pc[q] \in Holding => q = p
      BY <2>1 DEF PassInv, DispatchIsExclusive
    <3> QED
      BY <1>0, <2>3, <3>1 DEF ObserverTypes, Holding, Verdict
  <2>5. late[s] = 0
    BY <2>1, <2>2, <1>0 DEF RevokedInv, HistoryTypes
  <2> HIDE DEF s
  <2> QED
    BY <1>0, <2>2, <2>3, <2>4, <2>5 DEF RevokedInv, HistoryTypes
<1>3. ASSUME late' = late,
             \A q \in Process : pc'[q] = "sending" => pc[q] = "sending" /\ claim'[q] = claim[q]
      PROVE  RevokedInv'
  BY <1>3, SessionMoves, RevokedFrame
<1>4. CASE World \/ Routes \/ UNCHANGED vars
  <2>1. UNCHANGED <<late, pc, claim>>
    BY <1>4 DEF World, Tick, Submit, Complete, Publish, Withdraw, Login, Revoke, Routes,
                BeginRegister, CommitRegister, DropRegister, OptOut, vars, observerVars, historyVars
  <2> QED
    BY <1>3, <2>1
<1>5. ASSUME NEW p \in Process, Pass(p) \/ Break(p)
      PROVE  RevokedInv'
  <2>1. CASE Reconcile(p) \/ Scan(p) \/ EnqueueReplies(p) \/ Items(p) \/ EnqueueNotices(p)
    <3>1. /\ late' = late /\ claim' = claim
          /\ \E place \in Places \ Holding : pc' = [pc EXCEPT ![p] = place]
      BY <2>1, AfterRepliesPlace DEF Reconcile, Scan, EnqueueReplies, Items, EnqueueNotices, Goto,
                                     historyVars, Places, Holding, Verdict
    <3> QED
      BY <1>0, <1>3, <3>1 DEF ObserverTypes, Holding
  <2>2. CASE EndPass(p) \/ Break(p)
    <3>1. late' = late /\ Rest(p)
      BY <2>2 DEF EndPass, Break, historyVars
    <3> QED
      BY <1>0, <1>3, <3>1 DEF Rest, Goto, ObserverTypes
  <2>3. ASSUME NEW i \in Installation, NEW e \in Event, Settles(p)
        PROVE  RevokedInv'
    BY <1>3, <2>3 DEF Settles, historyVars
  <2>4. CASE Dispatch(p)
    BY <1>1, <2>3, <2>4 DEF Dispatch, DropStale, Deny, Outage, DiscardNotice, HoldNotice
  <2>5. CASE \E r \in RetryAfters : Save(p, r)
    <3>1. late' = late /\ pc' = [pc EXCEPT ![p] = "dispatch"] /\ claim' = [claim EXCEPT ![p] = NULL]
      BY <2>5 DEF Save, Goto
    <3> QED
      BY <1>0, <1>3, <3>1 DEF ObserverTypes
  <2> QED
    BY <1>2, <1>5, <2>1, <2>2, <2>4, <2>5 DEF Pass
<1> QED
  BY <1>4, <1>5 DEF Next

\* The call that was already authorised is the last one made for a session.
THEOREM LastPushToSession == Spec => []OnePushAfterRevocation
<1>1. Init => RevokedInv
  BY DEF Init, RevokedInv
<1>2. RevokedInv => OnePushAfterRevocation
  BY DEF RevokedInv, OnePushAfterRevocation
<1>3. PassInv /\ RevokedInv /\ [Next]_vars => RevokedInv'
  BY RevokedStep
<1> QED
  BY <1>1, <1>2, <1>3, PassInvHolds, PTL DEF Spec


-----------------------------------------------------------------------------
(***************************************************************************)
(* What push delivery promises its owner, for any number of handsets,      *)
(* sessions, observers, turns and notices: nothing without consent, no     *)
(* delivery twice, and no more devices and notices than admitted.          *)
(***************************************************************************)

-----------------------------------------------------------------------------
(* What a step may do to the rows, and to what they are about.             *)

\* Outcomes and delays: settled rows and registrations stay as they are.
Touched ==
  \A j \in Installation :
    /\ device'[j] = NULL <=> device[j] = NULL
    /\ device[j] # NULL =>
         /\ device'[j].session = device[j].session
         /\ device'[j].start = device[j].start
         /\ device'[j].since = device[j].since
         /\ device'[j].expires = device[j].expires
         /\ device'[j].active => device[j].active
    /\ \A f \in Event :
         /\ ~Pending(j, f) => delivery'[j][f] = delivery[j][f]
         /\ Pending(j, f) =>
              delivery'[j][f] # NULL /\ delivery'[j][f].created = delivery[j][f].created

LEMMA TouchedFrame == UNCHANGED outboxVars => Touched
BY DEF outboxVars, Touched, Pending

LEMMA OneRowTouched ==
  ASSUME OutboxInv, NEW i \in Installation, NEW e \in Event, Pending(i, e),
         NEW row \in DeliveryRow, row.created = delivery[i][e].created,
         delivery' = [delivery EXCEPT ![i][e] = row], device' = device
  PROVE  Touched
<1>1. /\ delivery' \in [Installation -> [Event -> DeliveryRow \cup {NULL}]]
      /\ delivery'[i][e] = row
      /\ \A j \in Installation, f \in Event : j # i \/ f # e => delivery'[j][f] = delivery[j][f]
  <2>1. OutboxTypes /\ delivery' = [delivery EXCEPT ![i][e] = row]
    BY DEF OutboxInv
  <2> QED
    BY ONLY ZenonT(40), <2>1, RowReplaced, i \in Installation, e \in Event, row \in DeliveryRow
<1>2. row # NULL
  BY RowAssumption
<1> QED
  BY <1>1, <1>2 DEF Touched, Pending

LEMMA FinishTouches ==
  ASSUME OutboxInv, NEW i \in Installation, NEW e \in Event, Pending(i, e),
         NEW state \in {"sent", "closed"}, Finish(i, e, state)
  PROVE  Touched
<1> DEFINE row == [delivery[i][e] EXCEPT !.state = state]
<1>1. delivery[i][e] \in DeliveryRow
  BY DeliveryFields DEF OutboxInv, Pending
<1>2. row \in DeliveryRow /\ row.created = delivery[i][e].created
  BY <1>1 DEF DeliveryRow
<1>3. delivery' = [delivery EXCEPT ![i][e] = row] /\ device' = device
  BY DEF Finish
<1> HIDE DEF row
<1> QED
  BY <1>2, <1>3, OneRowTouched

LEMMA HoldTouches ==
  ASSUME OutboxInv, NEW i \in Installation, NEW e \in Event, Pending(i, e),
         NEW t \in Nat, Hold(i, e, t)
  PROVE  Touched
<1> DEFINE row == [delivery[i][e] EXCEPT !.due = t + Minute]
<1>1. delivery[i][e] \in DeliveryRow
  BY DeliveryFields DEF OutboxInv, Pending
<1>2. row \in DeliveryRow /\ row.created = delivery[i][e].created
  BY <1>1 DEF DeliveryRow
<1>3. delivery' = [delivery EXCEPT ![i][e] = row] /\ device' = device
  BY DEF Hold
<1> HIDE DEF row
<1> QED
  BY <1>2, <1>3, OneRowTouched

LEMMA RetryTouches ==
  ASSUME OutboxInv, NEW i \in Installation, NEW e \in Event, Pending(i, e),
         NEW r \in Nat, NEW t \in Nat, Retry(i, e, r, t)
  PROVE  Touched
BY RetryRow, OneRowTouched

LEMMA DeactivateTouches ==
  ASSUME OutboxInv, NEW i \in Installation, device[i] # NULL, Deactivate(i)
  PROVE  Touched
<1> DEFINE row == [device[i] EXCEPT !.active = FALSE]
           rows == [e \in Event |-> IF Pending(i, e) THEN Closed(delivery[i][e]) ELSE delivery[i][e]]
<1>0. OutboxTypes
  BY DEF OutboxInv
<1>1. device' = [device EXCEPT ![i] = row] /\ delivery' = [delivery EXCEPT ![i] = rows]
  BY DEF Deactivate
<1>2. /\ row \in DeviceRow /\ row # NULL /\ row.active = FALSE
      /\ row.session = device[i].session /\ row.start = device[i].start
      /\ row.since = device[i].since /\ row.expires = device[i].expires
  BY <1>0, DeviceFields, RowAssumption DEF DeviceRow
<1>3. \A e \in Event :
        /\ ~Pending(i, e) => rows[e] = delivery[i][e]
        /\ Pending(i, e) => rows[e] # NULL /\ rows[e].created = delivery[i][e].created
  <2> TAKE e \in Event
  <2>1. Pending(i, e) => delivery[i][e] \in DeliveryRow
    BY <1>0, DeliveryFields DEF Pending
  <2>2. Pending(i, e) => /\ Closed(delivery[i][e]) \in DeliveryRow
                         /\ Closed(delivery[i][e]).created = delivery[i][e].created
    BY <2>1 DEF Closed, DeliveryRow
  <2> QED
    BY <2>2, RowAssumption
<1> HIDE DEF row, rows
<1>4. device'[i] = row /\ delivery'[i] = rows
  BY <1>0, <1>1 DEF OutboxTypes
<1>5. \A j \in Installation : j # i => device'[j] = device[j] /\ delivery'[j] = delivery[j]
  BY <1>0, <1>1 DEF OutboxTypes
<1> QED
  BY <1>2, <1>3, <1>4, <1>5 DEF Touched, Pending

\* The steps that do more than that to the outbox.
Rewrites ==
  \/ \E q \in Registration : CommitRegister(q)
  \/ \E i \in Installation, s \in Session : OptOut(i, s)
  \/ \E p \in Process : Reconcile(p) \/ EnqueueReplies(p) \/ EnqueueNotices(p)

LEMMA StepsTouch ==
  ASSUME PassInv, [Next]_vars
  PROVE  Touched \/ Rewrites
<1>1. ASSUME UNCHANGED outboxVars PROVE Touched
  BY <1>1, TouchedFrame
<1>2. ASSUME NEW p \in Process, NEW i \in Installation, NEW e \in Event,
             Send(p, i, e) \/ DropStale(p, i, e) \/ Deny(p, i, e) \/ Outage(p, i, e)
             \/ DiscardNotice(p, i, e) \/ HoldNotice(p, i, e)
      PROVE  Touched
  <2>1. /\ Selects(p, i, e)
        /\ \/ UNCHANGED outboxVars \/ Finish(i, e, "closed") \/ Deactivate(i)
           \/ Retry(i, e, Minute, now) \/ Hold(i, e, now)
    BY <1>2 DEF Send, DropStale, Deny, Outage, DiscardNotice, HoldNotice
  <2>2. OutboxInv /\ Pending(i, e) /\ device[i] # NULL /\ now \in Nat
    BY <2>1, SelectedIsPending
  <2> QED
    BY <2>1, <2>2, TouchedFrame, FinishTouches, DeactivateTouches, RetryTouches, HoldTouches
<1>3. ASSUME NEW p \in Process, NEW r \in RetryAfters, Save(p, r)
      PROVE  Touched
  <2> DEFINE i == claim[p].installation
             e == claim[p].event
  <2>0. /\ OutboxInv /\ pc[p] \in Holding /\ claim[p] \in ClaimRow /\ at[p] \in Nat /\ r \in Nat
    BY <1>3 DEF PassInv, ObserverInv, ObserverTypes, Save, Holding
  <2>1. i \in Installation /\ e \in Event
    BY <2>0 DEF ClaimRow
  <2>2. Pending(i, e) /\ device[i] # NULL
    BY <2>0, <2>1 DEF PassInv, DispatchIsExclusive, OutboxInv, PendingIsCurrent
  <2>3. \/ Finish(i, e, "sent") \/ Finish(i, e, "closed") \/ Deactivate(i) \/ Retry(i, e, r, at[p])
    BY <1>3 DEF Save
  <2> HIDE DEF i, e
  <2> QED
    BY <2>0, <2>1, <2>2, <2>3, FinishTouches, DeactivateTouches, RetryTouches
<1>4. ASSUME ~Rewrites PROVE Touched
  <2>1. CASE World
    <3>1. UNCHANGED outboxVars
      BY <2>1 DEF World, Tick, Submit, Complete, Publish, Withdraw, Login, Revoke
    <3> QED
      BY <1>1, <3>1
  <2>2. CASE Routes
    <3>1. UNCHANGED outboxVars
      BY <1>4, <2>2 DEF Routes, Rewrites, BeginRegister, DropRegister
    <3> QED
      BY <1>1, <3>1
  <2>3. ASSUME NEW p \in Process, Pass(p) \/ Break(p)
        PROVE  Touched
    <3>1. CASE Dispatch(p)
      BY <1>2, <3>1 DEF Dispatch
    <3>2. CASE \E r \in RetryAfters : Save(p, r)
      BY <1>3, <3>2
    <3>3. CASE Scan(p) \/ Items(p) \/ EndPass(p) \/ Break(p) \/ \E v \in Verdict : Answer(p, v)
      <4>1. UNCHANGED outboxVars
        BY <3>3 DEF Scan, Items, EndPass, Break, Answer
      <4> QED
        BY <1>1, <4>1
    <3> QED
      BY <1>4, <2>3, <3>1, <3>2, <3>3 DEF Pass, Rewrites
  <2>4. CASE UNCHANGED vars
    <3>1. UNCHANGED outboxVars
      BY <2>4 DEF vars
    <3> QED
      BY <1>1, <3>1
  <2> QED
    BY <2>1, <2>2, <2>3, <2>4 DEF Next
<1> QED
  BY <1>4

\* Steps that make no row, continue no registration and admit no device.
Lasting ==
  \A j \in Installation :
    /\ device'[j] # NULL =>
         /\ device[j] # NULL
         /\ device'[j].session = device[j].session
         /\ device'[j].start = device[j].start
         /\ device'[j].since = device[j].since
         /\ device'[j].expires = device[j].expires
         /\ device'[j].active => device[j].active
    /\ \A f \in Event : delivery'[j][f] # NULL =>
         /\ delivery[j][f] # NULL
         /\ delivery'[j][f].created = delivery[j][f].created
         /\ Pending(j, f)' => Pending(j, f)

LEMMA TouchedLasts == Touched => Lasting
BY DEF Touched, Lasting, Pending

LEMMA PurgeLasts ==
  ASSUME OutboxTypes, NEW t \in Nat, Purge(t)
  PROVE  /\ Lasting
         /\ \A i \in Installation, e \in Event :
              delivery[i][e] # NULL /\ delivery'[i][e] = NULL =>
                Forgotten(i, t) \/ delivery[i][e].created + Retention < t
<1> USE DEF Pending
<1>1. ASSUME NEW i \in Installation, NEW e \in Event
      PROVE  /\ delivery'[i][e] # NULL =>
                 /\ delivery[i][e] # NULL
                 /\ delivery'[i][e].created = delivery[i][e].created
                 /\ Pending(i, e)' => Pending(i, e)
             /\ delivery[i][e] # NULL /\ delivery'[i][e] = NULL =>
                  Forgotten(i, t) \/ delivery[i][e].created + Retention < t
  <2>1. delivery'[i][e] = Purged(i, e, t)
    BY DEF Purge
  <2>2. Pending(i, e) => /\ Closed(delivery[i][e]) \in DeliveryRow
                         /\ Closed(delivery[i][e]).created = delivery[i][e].created
                         /\ Closed(delivery[i][e]) # NULL
    <3>1. Pending(i, e) => delivery[i][e] \in DeliveryRow
      BY DeliveryFields
    <3> QED
      BY <3>1, RowAssumption DEF Closed, DeliveryRow
  <2> QED
    BY <2>1, <2>2 DEF Purged, Outdated
<1>2. \A i \in Installation : device'[i] # NULL => device'[i] = device[i]
  BY DEF Purge
<1> QED
  BY <1>1, <1>2 DEF Lasting

LEMMA UnregisterLasts ==
  ASSUME OutboxTypes, NEW i \in Installation, NEW s \in Session, Unregister(i, s)
  PROVE  /\ Lasting
         /\ \A j \in Installation : j # i => device'[j] = device[j] /\ delivery'[j] = delivery[j]
<1>1. NoRows \in [Event -> DeliveryRow \cup {NULL}] /\ \A e \in Event : NoRows[e] = NULL
  BY DEF NoRows
<1>2. device' = [device EXCEPT ![i] = NULL] /\ delivery' = [delivery EXCEPT ![i] = NoRows]
  BY DEF Unregister
<1>3. /\ device'[i] = NULL /\ \A e \in Event : delivery'[i][e] = NULL
      /\ \A j \in Installation : j # i => device'[j] = device[j] /\ delivery'[j] = delivery[j]
  BY <1>1, <1>2 DEF OutboxTypes
<1> QED
  BY <1>3 DEF Lasting, Pending

LEMMA RowsLast ==
  ASSUME PassInv, [Next]_vars
  PROVE  \/ Lasting
         \/ \E q \in Registration : CommitRegister(q)
         \/ \E p \in Process : EnqueueReplies(p) \/ EnqueueNotices(p)
<1>1. OutboxTypes /\ now \in Nat
  BY DEF PassInv, OutboxInv, WorldTypes
<1>2. ASSUME NEW p \in Process, Reconcile(p) PROVE Lasting
  BY <1>1, <1>2, PurgeLasts DEF Reconcile
<1>3. ASSUME NEW i \in Installation, NEW s \in Session, OptOut(i, s) PROVE Lasting
  BY <1>1, <1>3, UnregisterLasts DEF OptOut
<1> QED
  BY <1>2, <1>3, StepsTouch, TouchedLasts DEF Rewrites

\* A registration makes no row and lets none wait but those it keeps.
Rotated(i, e) ==
  /\ delivery'[i][e] # NULL => delivery[i][e] # NULL /\ delivery'[i][e].created = delivery[i][e].created
  /\ delivery[i][e] # NULL => delivery'[i][e] # NULL
  /\ Pending(i, e)' => Pending(i, e)

\* A registration that is renewed keeps its start and its consent.
Continued(i, s, latest, wanted, t) ==
  /\ device'[i] # NULL /\ device'[i].session = s
  /\ \/ SameScope(i, s) /\ device'[i].start = device[i].start
     \/ ~SameScope(i, s) /\ device'[i].start = latest
  /\ \/ ~wanted /\ device'[i].since = NULL
     \/ wanted /\ SameScope(i, s) /\ device[i].since # NULL /\ device'[i].since = device[i].since
     \/ wanted /\ ~(SameScope(i, s) /\ device[i].since # NULL) /\ device'[i].since = t

LEMMA RegisterRows ==
  ASSUME OutboxTypes, NEW i \in Installation, NEW s \in Session, NEW expires \in Nat,
         NEW latest \in 0..MaxTurns, NEW wanted \in BOOLEAN, NEW t \in Nat,
         Register(i, s, expires, latest, wanted, t)
  PROVE  /\ \A j \in Installation : j # i => device'[j] = device[j] /\ delivery'[j] = delivery[j]
         /\ Continued(i, s, latest, wanted, t)
         /\ \A e \in Event :
              /\ Rotated(i, e)
              /\ Pending(i, e)' => SameScope(i, s) /\ (e \in Reply \/ wanted)
<1> DEFINE same == SameScope(i, s)
           gen == IF device[i] = NULL THEN 1 ELSE device[i].generation + 1
           row == [session |-> s, generation |-> gen, active |-> TRUE,
                   expires |-> expires, updated |-> t,
                   start |-> IF same THEN device[i].start ELSE latest,
                   since |-> IF ~wanted THEN NULL
                             ELSE IF same /\ device[i].since # NULL THEN device[i].since ELSE t]
           rows == [e \in Event |-> Retarget(i, e, gen, Kept(e, same, wanted))]
<1>1. device' = [device EXCEPT ![i] = row] /\ delivery' = [delivery EXCEPT ![i] = rows]
  BY DEF Register
<1>2. gen \in Nat /\ same \in BOOLEAN
  BY DeviceFields DEF SameScope
<1>3. row # NULL
  <2>1. device[i] # NULL => device[i].start \in 0..MaxTurns /\ device[i].since \in Nat \cup {NULL}
    BY DeviceFields
  <2>2. same => device[i] # NULL
    BY DEF SameScope
  <2> HIDE DEF same, gen
  <2>3. row \in DeviceRow
    BY <1>2, <2>1, <2>2 DEF DeviceRow
  <2> QED
    BY <2>3, RowAssumption
<1>4. ASSUME NEW e \in Event
      PROVE  /\ rows[e] = NULL <=> delivery[i][e] = NULL
             /\ delivery[i][e] # NULL => rows[e].created = delivery[i][e].created
             /\ rows[e] # NULL /\ rows[e].state = "pending" =>
                  Pending(i, e) /\ SameScope(i, s) /\ (e \in Reply \/ wanted)
  <2>1. Pending(i, e) => delivery[i][e] \in DeliveryRow
    BY DeliveryFields DEF Pending
  <2> HIDE DEF gen
  <2> DEFINE kept == [delivery[i][e] EXCEPT !.generation = gen]
             closed == Closed(delivery[i][e])
  <2>2. Pending(i, e) =>
          /\ closed # NULL /\ closed.state = "closed" /\ closed.created = delivery[i][e].created
          /\ kept # NULL /\ kept.created = delivery[i][e].created
    BY <1>2, <2>1, RowAssumption DEF Closed, DeliveryRow
  <2>3. rows[e] = IF ~Pending(i, e) THEN delivery[i][e]
                  ELSE IF Kept(e, same, wanted) THEN kept ELSE closed
    BY DEF Retarget
  <2> HIDE DEF kept, closed, rows
  <2> QED
    BY <2>2, <2>3 DEF Kept, Pending
<1>5. /\ row.session = s
      /\ row.start = IF same THEN device[i].start ELSE latest
      /\ row.since = IF ~wanted THEN NULL
                     ELSE IF same /\ device[i].since # NULL THEN device[i].since ELSE t
  OBVIOUS
<1> HIDE DEF row, rows
<1>6. /\ device'[i] = row /\ delivery'[i] = rows
      /\ \A j \in Installation : j # i => device'[j] = device[j] /\ delivery'[j] = delivery[j]
  BY <1>1 DEF OutboxTypes
<1> QED
  BY <1>3, <1>4, <1>5, <1>6 DEF Pending, Rotated, Continued

\* What the two enqueuing transactions insert.
Inserted(i, e, t) ==
  delivery[i][e] = NULL /\ delivery'[i][e] # NULL /\ delivery'[i][e].created = t

LEMMA EnqueueRows ==
  ASSUME OutboxTypes, NEW turns \in SUBSET Event, NEW t \in Nat, Enqueue(turns, t)
  PROVE  \A i \in Installation, e \in Event :
           \/ delivery'[i][e] = delivery[i][e]
           \/ Inserted(i, e, t) /\ e \in turns /\ Owed(i, e, t)
<1> TAKE i \in Installation, e \in Event
<1>1. CASE delivery[i][e] = NULL /\ e \in turns /\ Owed(i, e, t)
  <2>1. delivery'[i][e] = NewRow(i, t + Hour, t)
    BY <1>1 DEF Enqueue
  <2>2. t + Hour \in Nat /\ t + Hour > t
    OBVIOUS
  <2> QED
    BY <1>1, <2>1, <2>2, NewRowFields, RowAssumption DEF Owed, Inserted
<1>2. CASE ~(delivery[i][e] = NULL /\ e \in turns /\ Owed(i, e, t))
  BY <1>2 DEF Enqueue
<1> QED
  BY <1>1, <1>2

LEMMA EnqueueCommitmentsRows ==
  ASSUME OutboxTypes, NEW items \in SUBSET Event, NEW b \in [Event -> Nat], NEW t \in Nat,
         EnqueueCommitments(items, b, t)
  PROVE  \A i \in Installation, e \in Event :
           \/ delivery'[i][e] = delivery[i][e]
           \/ Inserted(i, e, t) /\ e \in Granted(items, b, t) /\ Wants(i, e, b, t)
<1> TAKE i \in Installation, e \in Event
<1>1. CASE delivery[i][e] = NULL /\ e \in Granted(items, b, t) /\ Wants(i, e, b, t)
  <2>1. delivery'[i][e] = NewRow(i, b[e] + Day, t)
    BY <1>1 DEF EnqueueCommitments
  <2>2. b[e] + Day \in Nat /\ b[e] + Day > t
    BY <1>1 DEF Wants
  <2> QED
    BY <1>1, <2>1, <2>2, NewRowFields, RowAssumption DEF Wants, Inserted
<1>2. CASE ~(delivery[i][e] = NULL /\ e \in Granted(items, b, t) /\ Wants(i, e, b, t))
  BY <1>2 DEF EnqueueCommitments
<1> QED
  BY <1>1, <1>2

-----------------------------------------------------------------------------
(* Time goes on, and what was asked or published keeps its date.           *)

\* Whatever is queued, waiting or told has been asked or published.
ExistInv ==
  /\ \A e \in Reply : e > lastSeq => status[e] = "absent"
  /\ \A p \in Process : \A e \in batch[p] : status[e] # "absent"
  /\ \A p \in Process : pc[p] = "admit" => batch[p] \subseteq Notice
  /\ \A i \in Installation, e \in Event : delivery[i][e] # NULL => status[e] # "absent"
  /\ \A pair \in told : status[pair[2]] # "absent"

Dated ==
  /\ now <= now' /\ lastSeq <= lastSeq'
  /\ \A e \in Event :
       /\ born'[e] \in {born[e], now}
       /\ status[e] # "absent" => status'[e] # "absent" /\ born'[e] = born[e]

LEMMA DatesKept ==
  ASSUME PassInv, ExistInv, [Next]_vars
  PROVE  Dated /\ \A e \in Reply : e > lastSeq' => status'[e] = "absent"
<1>0. WorldTypes /\ Event = Reply \cup Notice /\ Reply \cap Notice = {}
  BY Events DEF PassInv
<1>1. CASE UNCHANGED worldVars
  BY <1>0, <1>1 DEF worldVars, Dated, WorldTypes, ExistInv
<1>2. CASE Tick
  BY <1>0, <1>2 DEF Tick, Dated, WorldTypes, ExistInv
<1>3. CASE Submit
  <2>1. lastSeq + 1 \in Reply /\ lastSeq + 1 \in Event /\ lastSeq + 1 > lastSeq
    BY <1>0, <1>3 DEF Submit, WorldTypes, Reply, Event
  <2>2. status[lastSeq + 1] = "absent"
    BY <2>1 DEF ExistInv
  <2>3. \A e \in Reply : e \in Nat
    BY DEF Reply
  <2> QED
    BY <1>0, <1>3, <2>1, <2>2, <2>3 DEF Submit, Dated, WorldTypes, ExistInv
<1>4. CASE \E e \in Reply : Complete(e)
  BY <1>0, <1>4 DEF Complete, Dated, WorldTypes, ExistInv
<1>5. CASE \E n \in Notice : Publish(n) \/ Withdraw(n)
  BY <1>0, <1>5 DEF Publish, Withdraw, Dated, WorldTypes, ExistInv
<1>6. CASE \E s \in Session : Login(s) \/ Revoke(s)
  BY <1>1, <1>6 DEF Login, Revoke
<1>7. CASE Routes
  BY <1>1, <1>7 DEF Routes, BeginRegister, CommitRegister, DropRegister, OptOut
<1>8. ASSUME NEW p \in Process, Pass(p) \/ Break(p)
      PROVE  UNCHANGED worldVars
  BY <1>8 DEF Pass, Dispatch, Reconcile, Scan, EnqueueReplies, Items, EnqueueNotices, EndPass,
              DropStale, Deny, Outage, DiscardNotice, HoldNotice, Settles, Send, Answer, Save, Break
<1> QED
  BY <1>1, <1>2, <1>3, <1>4, <1>5, <1>6, <1>7, <1>8 DEF Next, World, vars

\* An observer keeps its clock reading, or takes a new one; what it queues
\* exists, and replies are of the day before the reading.
Moves(q) ==
  /\ pc'[q] # "rest" => (pc[q] # "rest" /\ at'[q] = at[q]) \/ (at'[q] = now /\ now' = now)
  /\ pc'[q] = "enqueue" =>
       /\ at'[q] = at[q]
       /\ \A e \in batch'[q] :
            (pc[q] = "enqueue" /\ e \in batch[q]) \/ (status[e] # "absent" /\ born[e] + Day >= at[q])
  /\ pc'[q] = "admit" => batch'[q] \subseteq Notice \/ (pc[q] = "admit" /\ batch'[q] = batch[q])
  /\ \A e \in batch'[q] : e \in batch[q] \/ status[e] # "absent"

LEMMA ObserversMove ==
  ASSUME PassInv, [Next]_vars
  PROVE  \A q \in Process : Moves(q)
<1>0. ObserverTypes /\ WorldTypes
  BY DEF PassInv
<1>1. ASSUME UNCHANGED <<pc, at, batch>> PROVE \A q \in Process : Moves(q)
  BY <1>1 DEF Moves
<1>2. CASE World \/ Routes \/ UNCHANGED vars
  <2>1. UNCHANGED <<pc, at, batch>>
    BY <1>2 DEF World, Tick, Submit, Complete, Publish, Withdraw, Login, Revoke, Routes,
                BeginRegister, CommitRegister, DropRegister, OptOut, vars, observerVars
  <2> QED
    BY <1>1, <2>1
<1>3. ASSUME NEW p \in Process, Pass(p) \/ Break(p)
      PROVE  \A q \in Process : Moves(q)
  <2> DEFINE Others == \A q \in Process : q # p =>
                        pc'[q] = pc[q] /\ at'[q] = at[q] /\ batch'[q] = batch[q]
  <2>1. ASSUME Others, Moves(p) PROVE \A q \in Process : Moves(q)
    BY <2>1 DEF Moves
  <2>2. CASE Reconcile(p)
    <3>1. PICK place \in {"scan", "dispatch", "items"} : pc' = [pc EXCEPT ![p] = place]
      BY <2>2, AfterRepliesPlace DEF Reconcile, Goto
    <3>2. at' = [at EXCEPT ![p] = now] /\ batch' = batch /\ now' = now
      BY <2>2 DEF Reconcile, worldVars
    <3> QED
      BY <1>0, <2>1, <3>1, <3>2 DEF Moves, ObserverTypes
  <2>3. CASE Scan(p)
    <3>1. PICK place \in {"enqueue", "dispatch", "items"} : pc' = [pc EXCEPT ![p] = place]
      BY <2>3, AfterRepliesPlace DEF Scan, Goto
    <3>2. /\ pc[p] = "scan" /\ at' = at /\ batch' = [batch EXCEPT ![p] = Oldest(Found(p), BatchSize)]
      BY <2>3 DEF Scan
    <3>3. \A e \in Oldest(Found(p), BatchSize) :
            status[e] # "absent" /\ born[e] + Day >= at[p]
      BY DEF Oldest, Found
    <3> QED
      BY <1>0, <2>1, <3>1, <3>2, <3>3 DEF Moves, ObserverTypes
  <2>4. CASE EnqueueReplies(p)
    <3>1. /\ pc[p] = "enqueue" /\ pc' = [pc EXCEPT ![p] = "scan"]
          /\ batch' = [batch EXCEPT ![p] = {}] /\ at' = at
      BY <2>4 DEF EnqueueReplies, Goto
    <3> QED
      BY <1>0, <2>1, <3>1 DEF Moves, ObserverTypes
  <2>5. CASE Items(p)
    <3> DEFINE open == {n \in Notice : status[n] = "open" /\ born[n] + Day > now}
    <3>1. /\ pc[p] = "items" /\ pc' = [pc EXCEPT ![p] = "admit"]
          /\ batch' = [batch EXCEPT ![p] = open] /\ at' = at
      BY <2>5 DEF Items, Goto
    <3>2. open \subseteq Notice /\ \A e \in open : status[e] # "absent"
      OBVIOUS
    <3> HIDE DEF open
    <3> QED
      BY <1>0, <2>1, <3>1, <3>2 DEF Moves, ObserverTypes
  <2>6. CASE EnqueueNotices(p)
    <3>1. /\ pc' = [pc EXCEPT ![p] = "dispatch"] /\ now' = now
          /\ batch' = [batch EXCEPT ![p] = {}] /\ at' = [at EXCEPT ![p] = now]
      BY <2>6 DEF EnqueueNotices, Goto, worldVars
    <3> QED
      BY <1>0, <2>1, <3>1 DEF Moves, ObserverTypes
  <2>7. CASE EndPass(p) \/ Break(p)
    <3>1. /\ pc' = [pc EXCEPT ![p] = "rest"] /\ at' = [at EXCEPT ![p] = 0]
          /\ batch' = [batch EXCEPT ![p] = {}]
      BY <2>7 DEF EndPass, Break, Rest, Goto
    <3> QED
      BY <1>0, <2>1, <3>1 DEF Moves, ObserverTypes
  <2>8. CASE Dispatch(p)
    <3>1. /\ pc[p] = "dispatch" /\ now' = now /\ batch' = batch
          /\ at' = [at EXCEPT ![p] = now]
          /\ \E place \in {"dispatch", "sending"} : pc' = [pc EXCEPT ![p] = place]
      <4>1. pc' = pc /\ pc[p] = "dispatch" => pc' = [pc EXCEPT ![p] = "dispatch"]
        BY <1>0 DEF ObserverTypes
      <4> QED
        BY <2>8, <4>1 DEF Dispatch, DropStale, Deny, Outage, DiscardNotice, HoldNotice, Settles,
                          Send, Selects, Goto, worldVars
    <3> QED
      BY <1>0, <2>1, <3>1 DEF Moves, ObserverTypes
  <2>9. CASE \E v \in Verdict : Answer(p, v)
    <3>1. /\ pc[p] = "sending" /\ at' = at /\ batch' = batch
          /\ \E v \in Verdict : pc' = [pc EXCEPT ![p] = v]
      BY <2>9 DEF Answer, Goto
    <3> QED
      BY <1>0, <2>1, <3>1 DEF Moves, ObserverTypes, Verdict
  <2>10. CASE \E r \in RetryAfters : Save(p, r)
    <3>1. /\ pc[p] \in Verdict /\ at' = at /\ batch' = batch
          /\ pc' = [pc EXCEPT ![p] = "dispatch"]
      BY <2>10 DEF Save, Goto
    <3> QED
      BY <1>0, <2>1, <3>1 DEF Moves, ObserverTypes, Verdict
  <2> QED
    BY <1>3, <2>2, <2>3, <2>4, <2>5, <2>6, <2>7, <2>8, <2>9, <2>10 DEF Pass
<1> QED
  BY <1>2, <1>3 DEF Next

\* A delivery is told when its pending row is settled.
LEMMA ToldGrows ==
  ASSUME PassInv, [Next]_vars
  PROVE  \/ told' \subseteq told
         \/ \E i \in Installation, e \in Event :
              Pending(i, e) /\ Finish(i, e, "sent") /\ told' = told \cup {<<i, e>>}
<1>1. CASE told' \subseteq told
  BY <1>1
<1>2. CASE \E p \in Process, r \in RetryAfters : Save(p, r)
  <2>1. PICK p \in Process, r \in RetryAfters : Save(p, r)
    BY <1>2
  <2> DEFINE i == claim[p].installation
             e == claim[p].event
  <2>2. pc[p] \in Holding /\ claim[p] \in ClaimRow
    BY <2>1 DEF PassInv, ObserverInv, Save, Holding
  <2>3. i \in Installation /\ e \in Event /\ Pending(i, e)
    BY <2>2 DEF ClaimRow, PassInv, DispatchIsExclusive
  <2>4. told' = told \/ (Finish(i, e, "sent") /\ told' = told \cup {<<i, e>>})
    BY <2>1 DEF Save
  <2> HIDE DEF i, e
  <2> QED
    BY <2>3, <2>4
<1>3. CASE \E p \in Process : Reconcile(p)
  BY <1>3 DEF Reconcile
<1>4. CASE \E i \in Installation, s \in Session : OptOut(i, s)
  BY <1>4 DEF OptOut
<1>5. CASE World \/ Routes \/ UNCHANGED vars
  BY <1>4, <1>5 DEF World, Tick, Submit, Complete, Publish, Withdraw, Login, Revoke, Routes,
              BeginRegister, CommitRegister, DropRegister, vars, historyVars
<1>6. ASSUME NEW p \in Process, Pass(p) \/ Break(p), ~Reconcile(p),
             ~ \E r \in RetryAfters : Save(p, r)
      PROVE  told' = told
  BY <1>6 DEF Pass, Dispatch, Scan, EnqueueReplies, Items, EnqueueNotices, EndPass,
              DropStale, Deny, Outage, DiscardNotice, HoldNotice, Settles, Send, Answer, Break, historyVars
<1> QED
  BY <1>2, <1>3, <1>5, <1>6 DEF Next

\* A step makes rows only of batches.
LEMMA NewRows ==
  ASSUME PassInv, [Next]_vars,
         NEW i \in Installation, NEW e \in Event, delivery'[i][e] # NULL
  PROVE  \/ /\ delivery[i][e] # NULL
            /\ delivery'[i][e].created = delivery[i][e].created
            /\ Pending(i, e)' => Pending(i, e)
         \/ /\ delivery[i][e] = NULL
            /\ \E p \in Process :
                 /\ e \in batch[p] /\ now' = now /\ born' = born
                 /\ \/ pc[p] = "enqueue" /\ delivery'[i][e].created = at[p]
                       /\ EnqueueReplies(p) /\ Owed(i, e, at[p])
                    \/ pc[p] = "admit" /\ delivery'[i][e].created = now
                       /\ EnqueueNotices(p) /\ Wants(i, e, born, now)
<1>0. OutboxTypes /\ WorldTypes /\ ObserverTypes
  BY DEF PassInv, OutboxInv
<1>1. CASE Lasting
  BY <1>1 DEF Lasting
<1>2. ASSUME NEW q \in Registration, CommitRegister(q)
      PROVE  /\ delivery[i][e] # NULL
             /\ delivery'[i][e].created = delivery[i][e].created
             /\ Pending(i, e)' => Pending(i, e)
  <2>1. request[q] \in RequestRow
    BY <1>0, <1>2 DEF CommitRegister, WorldTypes
  <2>2. PICK j \in Installation, z \in Session, expires \in Nat, latest \in 0..MaxTurns,
             wanted \in BOOLEAN : Register(j, z, expires, latest, wanted, now)
    BY <1>2, <2>1 DEF CommitRegister, RequestRow
  <2>3. /\ \A k \in Installation : k # j => delivery'[k] = delivery[k]
        /\ \A f \in Event : Rotated(j, f)
    BY <1>0, <2>2, RegisterRows DEF WorldTypes
  <2>4. CASE i = j
    BY <2>3, <2>4 DEF Rotated
  <2>5. CASE i # j
    BY <2>3, <2>5 DEF Pending
  <2> QED
    BY <2>4, <2>5
<1>3. ASSUME NEW p \in Process, EnqueueReplies(p)
      PROVE  \/ delivery'[i][e] = delivery[i][e]
             \/ /\ Inserted(i, e, at[p]) /\ e \in batch[p] /\ Owed(i, e, at[p])
                /\ pc[p] = "enqueue" /\ now' = now /\ born' = born
  BY <1>0, <1>3, EnqueueRows DEF EnqueueReplies, ObserverTypes, worldVars
<1>4. ASSUME NEW p \in Process, EnqueueNotices(p)
      PROVE  \/ delivery'[i][e] = delivery[i][e]
             \/ /\ Inserted(i, e, now) /\ e \in batch[p] /\ Wants(i, e, born, now)
                /\ pc[p] = "admit" /\ now' = now /\ born' = born
  <2>1. e \in Granted(batch[p], born, now) => e \in batch[p]
    BY DEF Granted
  <2>2. /\ batch[p] \in SUBSET Event /\ born \in [Event -> Nat] /\ now \in Nat
        /\ EnqueueCommitments(batch[p], born, now) /\ pc[p] = "admit"
        /\ now' = now /\ born' = born
    BY <1>0, <1>4 DEF EnqueueNotices, ObserverTypes, WorldTypes, worldVars
  <2>3. \/ delivery'[i][e] = delivery[i][e]
        \/ Inserted(i, e, now) /\ e \in Granted(batch[p], born, now) /\ Wants(i, e, born, now)
    BY <1>0, <2>2, EnqueueCommitmentsRows
  <2> QED
    BY <2>1, <2>2, <2>3
<1> QED
  BY <1>1, <1>2, <1>3, <1>4, RowsLast DEF Pending, Inserted

LEMMA ExistStep ==
  ASSUME PassInv, ExistInv, [Next]_vars
  PROVE  ExistInv'
<1>0. /\ Dated /\ HistoryTypes /\ ObserverTypes' /\ PassInv'
      /\ \A e \in Reply : e > lastSeq' => status'[e] = "absent"
  BY DatesKept, PassInvStep DEF PassInv
<1>1. ASSUME NEW p \in Process, NEW e \in batch'[p] PROVE status'[e] # "absent"
  <2>1. e \in Event
    BY <1>0 DEF ObserverTypes
  <2>2. status[e] # "absent"
    BY ObserversMove DEF Moves, ExistInv
  <2> QED
    BY <1>0, <2>1, <2>2 DEF Dated
<1>2. ASSUME NEW i \in Installation, NEW e \in Event, delivery'[i][e] # NULL
      PROVE  status'[e] # "absent"
  BY <1>0, <1>2, NewRows DEF Dated, ExistInv
<1>3. ASSUME NEW pair \in told' PROVE status'[pair[2]] # "absent"
  <2>1. CASE pair \in told
    <3>1. pair[2] \in Event
      BY <1>0, <2>1 DEF HistoryTypes
    <3> QED
      BY <1>0, <2>1, <3>1 DEF Dated, ExistInv
  <2>2. CASE pair \notin told
    <3>1. PICK i \in Installation, e \in Event : Pending(i, e) /\ pair = <<i, e>>
      BY <2>2, ToldGrows
    <3> QED
      BY <1>0, <3>1 DEF Dated, ExistInv, Pending
  <2> QED
    BY <2>1, <2>2
<1>4. ASSUME NEW p \in Process, pc'[p] = "admit" PROVE batch'[p] \subseteq Notice
  BY <1>4, ObserversMove DEF Moves, ExistInv
<1> QED
  BY <1>0, <1>1, <1>2, <1>3, <1>4 DEF ExistInv

LEMMA ExistHolds == Spec => []ExistInv
<1>1. Init => ExistInv
  BY Events DEF Init, OutboxInit, NoRows, ExistInv
<1> QED
  BY <1>1, ExistStep, PassInvHolds, PTL DEF Spec

-----------------------------------------------------------------------------
(* Nothing is sent twice.                                                  *)

\* Readings of the clock are recent; a row is as old as its turn or notice,
\* give or take a pass; what was told and forgotten is too old to be found.
OnceInv ==
  /\ \A p \in Process : pc[p] # "rest" => at[p] <= now /\ now <= at[p] + PassLimit
  /\ \A p \in Process : pc[p] = "enqueue" => \A e \in batch[p] : born[e] + Day >= at[p]
  /\ \A e \in Event : born[e] <= now
  /\ \A i \in Installation, e \in Event :
       delivery[i][e] # NULL => born[e] <= delivery[i][e].created + PassLimit
  /\ \A i \in Installation, e \in Event : <<i, e>> \in told =>
       /\ ~Pending(i, e)
       /\ delivery[i][e] = NULL => born[e] + Retention < now + PassLimit

LEMMA TickWaits ==
  ASSUME PassInv, [Next]_vars, now' # now
  PROVE  Tick
<1>1. CASE World
  BY <1>1 DEF World, Submit, Complete, Publish, Withdraw, Login, Revoke, worldVars
<1>2. CASE Routes
  BY <1>2 DEF Routes, BeginRegister, CommitRegister, DropRegister, OptOut, worldVars
<1>3. ASSUME NEW p \in Process, Pass(p) \/ Break(p)
      PROVE  UNCHANGED worldVars
  BY <1>3 DEF Pass, Dispatch, Reconcile, Scan, EnqueueReplies, Items, EnqueueNotices, EndPass,
              DropStale, Deny, Outage, DiscardNotice, HoldNotice, Settles, Send, Answer, Save, Break
<1> QED
  BY <1>1, <1>2, <1>3 DEF Next, vars, worldVars

\* A row that was told disappears only when it is old.
LEMMA OldRowsGo ==
  ASSUME PassInv, [Next]_vars, NEW i \in Installation, NEW e \in Event,
         delivery[i][e] # NULL, delivery'[i][e] = NULL, <<i, e>> \in told'
  PROVE  delivery[i][e].created + Retention < now
<1>0. OutboxTypes /\ WorldTypes /\ ObserverTypes /\ now \in Nat
  BY DEF PassInv, OutboxInv, WorldTypes
<1>1. CASE Touched
  BY <1>1 DEF Touched
<1>2. ASSUME NEW q \in Registration, CommitRegister(q) PROVE FALSE
  <2>1. request[q] \in RequestRow
    BY <1>0, <1>2 DEF CommitRegister, WorldTypes
  <2>2. PICK j \in Installation, z \in Session, expires \in Nat, latest \in 0..MaxTurns,
             wanted \in BOOLEAN : Register(j, z, expires, latest, wanted, now)
    BY <1>2, <2>1 DEF CommitRegister, RequestRow
  <2>3. /\ \A k \in Installation : k # j => delivery'[k] = delivery[k]
        /\ \A f \in Event : Rotated(j, f)
    BY <1>0, <2>2, RegisterRows
  <2> QED
    BY <2>3 DEF Rotated
<1>3. ASSUME NEW j \in Installation, NEW z \in Session, OptOut(j, z) PROVE FALSE
  <2>1. \A k \in Installation : k # j => delivery'[k] = delivery[k]
    BY <1>0, <1>3, UnregisterLasts DEF OptOut
  <2>2. i # j
    BY <1>3 DEF OptOut
  <2> QED
    BY <2>1, <2>2
<1>4. ASSUME NEW p \in Process, Reconcile(p)
      PROVE  delivery[i][e].created + Retention < now
  <2>1. ~Forgotten(i, now) /\ Purge(now)
    BY <1>4 DEF Reconcile
  <2> QED
    BY <1>0, <2>1, PurgeLasts
<1>5. ASSUME NEW p \in Process, EnqueueReplies(p) PROVE FALSE
  BY <1>0, <1>5, EnqueueRows DEF EnqueueReplies, ObserverTypes, Inserted
<1>6. ASSUME NEW p \in Process, EnqueueNotices(p) PROVE FALSE
  <2>1. /\ batch[p] \in SUBSET Event /\ born \in [Event -> Nat]
        /\ EnqueueCommitments(batch[p], born, now)
    BY <1>0, <1>6 DEF EnqueueNotices, ObserverTypes, WorldTypes
  <2> QED
    BY <1>0, <2>1, EnqueueCommitmentsRows DEF Inserted
<1> QED
  BY <1>1, <1>2, <1>3, <1>4, <1>5, <1>6, StepsTouch DEF Rewrites

LEMMA OnceStep ==
  ASSUME PassInv, ExistInv, OnceInv, [Next]_vars
  PROVE  OnceInv'
<1>0. /\ Dated /\ OutboxTypes /\ WorldTypes /\ ObserverTypes /\ HistoryTypes
      /\ OutboxTypes' /\ WorldTypes' /\ HistoryTypes'
  BY DatesKept, PassInvStep DEF PassInv, OutboxInv
<1>1. /\ now \in Nat /\ now' \in Nat /\ now <= now' /\ PassLimit \in Nat
      /\ Retention \in Nat /\ Day \in Nat /\ 2 * PassLimit <= Retention - Day
      /\ \A e \in Event : born[e] \in Nat /\ born'[e] \in {born[e], now}
      /\ \A e \in Event : status[e] # "absent" => born'[e] = born[e]
  BY <1>0 DEF WorldTypes, Dated
<1>2. ASSUME NEW p \in Process, pc'[p] # "rest"
      PROVE  at'[p] <= now' /\ now' <= at'[p] + PassLimit
  <2>1. at[p] \in Nat
    BY <1>0 DEF ObserverTypes
  <2>2. Moves(p)
    BY ObserversMove
  <2>3. CASE now' = now
    BY <1>1, <1>2, <2>1, <2>2, <2>3 DEF OnceInv, Moves
  <2>4. CASE now' # now
    <3>1. Tick
      BY <2>4, TickWaits
    <3>2. pc' = pc /\ at' = at /\ now' = now + 1 /\ now < at[p] + PassLimit
      BY <1>2, <3>1 DEF Tick, observerVars
    <3> QED
      BY <1>1, <1>2, <2>1, <3>2 DEF OnceInv
  <2> QED
    BY <2>3, <2>4
<1>3. ASSUME NEW p \in Process, pc'[p] = "enqueue", NEW e \in batch'[p]
      PROVE  born'[e] + Day >= at'[p]
  <2>1. Moves(p)
    BY ObserversMove
  <2>2. status[e] # "absent" /\ born[e] + Day >= at'[p]
    BY <1>3, <2>1 DEF Moves, OnceInv, ExistInv
  <2>3. e \in Event
    BY PassInvStep DEF PassInv, ObserverTypes
  <2> QED
    BY <1>1, <2>2, <2>3
<1>4. \A e \in Event : born'[e] <= now'
  BY <1>1 DEF OnceInv
<1>5. ASSUME NEW i \in Installation, NEW e \in Event, delivery'[i][e] # NULL
      PROVE  born'[e] <= delivery'[i][e].created + PassLimit
  <2>1. CASE delivery[i][e] # NULL
    <3>1. delivery'[i][e].created = delivery[i][e].created
      BY <1>5, <2>1, NewRows
    <3>2. born'[e] = born[e]
      BY <1>1, <2>1 DEF ExistInv
    <3> QED
      BY <2>1, <3>1, <3>2 DEF OnceInv
  <2>2. CASE delivery[i][e] = NULL
    <3>1. PICK p \in Process :
            /\ e \in batch[p] /\ born' = born
            /\ \/ pc[p] = "enqueue" /\ delivery'[i][e].created = at[p]
               \/ pc[p] = "admit" /\ delivery'[i][e].created = now
      BY <1>5, <2>2, NewRows
    <3>2. at[p] \in Nat /\ now <= at[p] + PassLimit /\ born[e] <= now
      BY <1>0, <3>1 DEF OnceInv, ObserverTypes
    <3> QED
      BY <1>1, <3>1, <3>2
  <2> QED
    BY <2>1, <2>2
<1>6. ASSUME NEW i \in Installation, NEW e \in Event, <<i, e>> \in told'
      PROVE  /\ ~Pending(i, e)'
             /\ delivery'[i][e] = NULL => born'[e] + Retention < now' + PassLimit
  <2>1. CASE <<i, e>> \in told
    <3>1. ~Pending(i, e) /\ status[e] # "absent" /\ born'[e] = born[e]
      BY <1>1, <2>1 DEF OnceInv, ExistInv
    <3>2. CASE delivery[i][e] # NULL
      <4>1. ~Pending(i, e)'
        BY <3>1, <3>2, NewRows DEF Pending
      <4>2. ASSUME delivery'[i][e] = NULL
            PROVE  born'[e] + Retention < now' + PassLimit
        <5>1. delivery[i][e].created + Retention < now /\ delivery[i][e].created \in Nat
          BY <1>0, <1>6, <3>2, <4>2, OldRowsGo, DeliveryFields
        <5>2. born[e] <= delivery[i][e].created + PassLimit
          BY <3>2 DEF OnceInv
        <5> QED
          BY <1>1, <3>1, <5>1, <5>2
      <4> QED
        BY <4>1, <4>2
    <3>3. CASE delivery[i][e] = NULL
      <4>1. born[e] + Retention < now + PassLimit
        BY <2>1, <3>3 DEF OnceInv
      <4>2. delivery'[i][e] = NULL
        <5> SUFFICES ASSUME delivery'[i][e] # NULL PROVE FALSE
          OBVIOUS
        <5>1. PICK p \in Process :
                /\ e \in batch[p]
                /\ pc[p] = "enqueue" \/ (pc[p] = "admit" /\ Wants(i, e, born, now))
          BY <3>3, NewRows
        <5>2. CASE pc[p] = "enqueue"
          <6>1. at[p] \in Nat /\ now <= at[p] + PassLimit /\ born[e] + Day >= at[p]
            BY <1>0, <5>1, <5>2 DEF OnceInv, ObserverTypes
          <6> QED
            BY <1>1, <4>1, <6>1
        <5>3. CASE Wants(i, e, born, now)
          BY <1>1, <4>1, <5>3 DEF Wants
        <5> QED
          BY <5>1, <5>2, <5>3
      <4> QED
        BY <1>1, <3>1, <4>1, <4>2 DEF Pending
    <3> QED
      BY <3>2, <3>3
  <2>2. CASE <<i, e>> \notin told
    <3>1. Pending(i, e) /\ Finish(i, e, "sent")
      BY <1>6, <2>2, ToldGrows
    <3>2. ~Pending(i, e)' /\ Touched
      BY <3>1, FinishKeeps, FinishTouches DEF PassInv
    <3>3. delivery'[i][e] # NULL
      BY <3>1, <3>2 DEF Touched
    <3> QED
      BY <3>2, <3>3
  <2> QED
    BY <2>1, <2>2
<1> QED
  BY <1>2, <1>3, <1>4, <1>5, <1>6 DEF OnceInv

\* What was saved as sent is not sent again while the device is registered.
THEOREM SentAtMostOnce == Spec => []SentOnce
<1>1. Init => OnceInv
  BY DEF Init, OutboxInit, NoRows, OnceInv
<1>2. OnceInv => SentOnce
  BY DEF OnceInv, SentOnce
<1> QED
  BY <1>1, <1>2, OnceStep, ExistHolds, PassInvHolds, PTL DEF Spec

-----------------------------------------------------------------------------
(* Nothing waits without consent.                                          *)

\* A registration was made in a session, and starts no earlier than it; what
\* waits is newer than its device's start, or than its consent to notices.
ConsentInv ==
  /\ \A s \in Session : session[s].base <= lastSeq
  /\ \A q \in Registration : request[q] # NULL =>
       /\ session[request[q].session].state # "absent"
       /\ request[q].latest >= session[request[q].session].base
  /\ \A i \in Installation : device[i] # NULL =>
       /\ session[device[i].session].state # "absent"
       /\ device[i].start >= session[device[i].session].base
  /\ \A i \in Installation, e \in Event : Pending(i, e) =>
       /\ e \in Reply => e > device[i].start
       /\ e \in Notice => device[i].since # NULL /\ born[e] >= device[i].since

LEMMA BasesKept ==
  ASSUME PassInv, ExistInv, ConsentInv, [Next]_vars
  PROVE  \A s \in Session : session'[s].base <= lastSeq'
<1>0. WorldTypes /\ lastSeq <= lastSeq' /\ lastSeq \in Nat /\ lastSeq' \in Nat
  BY DatesKept, PassInvStep DEF PassInv, Dated, WorldTypes
<1>1. \A s \in Session : session[s].base \in Nat /\ session[s].base <= lastSeq
  BY <1>0 DEF WorldTypes, ConsentInv
<1>2. CASE \E s \in Session : Login(s)
  BY <1>0, <1>1, <1>2 DEF Login, worldVars, WorldTypes
<1>3. CASE \A s \in Session : session'[s].base = session[s].base
  BY <1>0, <1>1, <1>3
<1>4. ASSUME UNCHANGED session PROVE \A s \in Session : session'[s].base = session[s].base
  BY <1>4
<1>5. CASE World
  <2>1. ASSUME NEW s \in Session, Revoke(s)
        PROVE  \A x \in Session : session'[x].base = session[x].base
    BY <1>0, <2>1 DEF Revoke, WorldTypes
  <2> QED
    BY <1>2, <1>3, <1>4, <1>5, <2>1 DEF World, Tick, Submit, Complete, Publish, Withdraw
<1>6. CASE Routes
  <2>1. ASSUME NEW s \in Session, Renew(s)
        PROVE  \A x \in Session : session'[x].base = session[x].base
    BY <1>0, <2>1, RenewKeepsState
  <2> QED
    BY <1>3, <1>4, <1>6, <2>1 DEF Routes, BeginRegister, CommitRegister, DropRegister, OptOut
<1>7. ASSUME NEW p \in Process, Pass(p) \/ Break(p)
      PROVE  UNCHANGED session
  BY <1>7 DEF Pass, Dispatch, Reconcile, Scan, EnqueueReplies, Items, EnqueueNotices, EndPass,
              DropStale, Deny, Outage, DiscardNotice, HoldNotice, Settles, Send, Answer, Save, Break
<1> QED
  BY <1>3, <1>4, <1>5, <1>6, <1>7 DEF Next, vars

LEMMA RequestsMove ==
  ASSUME PassInv, [Next]_vars, NEW q \in Registration, request'[q] # NULL
  PROVE  \/ request'[q] = request[q]
         \/ \E s \in Session : /\ session[s].state = "live" /\ request'[q].session = s
                             /\ request'[q].latest = lastSeq
<1>0. WorldTypes
  BY DEF PassInv
<1>1. CASE UNCHANGED request
  BY <1>1
<1>2. CASE World
  BY <1>1, <1>2 DEF World, Tick, Submit, Complete, Publish, Withdraw, Login, Revoke
<1>3. ASSUME NEW x \in Registration, CommitRegister(x) \/ DropRegister(x)
      PROVE  request'[q] = request[q]
  BY <1>0, <1>3 DEF CommitRegister, DropRegister, WorldTypes
<1>4. ASSUME NEW x \in Registration, NEW i \in Installation, NEW s \in Session, NEW w \in BOOLEAN,
             BeginRegister(x, i, s, w)
      PROVE  \/ request'[q] = request[q]
             \/ /\ session[s].state = "live" /\ request'[q].session = s
                /\ request'[q].latest = lastSeq
  BY <1>0, <1>4 DEF BeginRegister, WorldTypes, Renew, Active
<1>5. CASE Routes
  BY <1>1, <1>3, <1>4, <1>5 DEF Routes, OptOut
<1>6. ASSUME NEW p \in Process, Pass(p) \/ Break(p)
      PROVE  UNCHANGED request
  BY <1>6 DEF Pass, Dispatch, Reconcile, Scan, EnqueueReplies, Items, EnqueueNotices, EndPass,
              DropStale, Deny, Outage, DiscardNotice, HoldNotice, Settles, Send, Answer, Save, Break
<1> QED
  BY <1>1, <1>2, <1>5, <1>6 DEF Next, vars

LEMMA ConsentStep ==
  ASSUME PassInv, ExistInv, ConsentInv, [Next]_vars
  PROVE  ConsentInv'
<1>0. /\ Dated /\ OutboxTypes /\ WorldTypes /\ ObserverTypes
      /\ OutboxTypes' /\ WorldTypes'
  BY DatesKept, PassInvStep DEF PassInv, OutboxInv
<1>1. \A s \in Session : session[s].state # "absent" =>
        session'[s].state # "absent" /\ session'[s].base = session[s].base
  BY SessionMoves
<1>2. ASSUME NEW q \in Registration, request'[q] # NULL
      PROVE  /\ session'[request'[q].session].state # "absent"
             /\ request'[q].latest >= session'[request'[q].session].base
  <2>1. CASE request'[q] = request[q]
    <3>1. request[q].session \in Session
      BY <1>0, <1>2, <2>1 DEF WorldTypes, RequestRow
    <3> QED
      BY <1>1, <1>2, <2>1, <3>1 DEF ConsentInv
  <2>2. ASSUME NEW s \in Session, session[s].state = "live", request'[q].session = s,
               request'[q].latest = lastSeq
        PROVE  /\ session'[request'[q].session].state # "absent"
               /\ request'[q].latest >= session'[request'[q].session].base
    <3>1. session[s].base \in Nat /\ lastSeq \in Nat /\ session[s].base <= lastSeq
      BY <1>0 DEF WorldTypes, ConsentInv
    <3> QED
      BY <1>1, <2>2, <3>1
  <2> QED
    BY <1>2, <2>1, <2>2, RequestsMove
<1>3. CASE Lasting
  <2>1. ASSUME NEW i \in Installation, device'[i] # NULL
        PROVE  /\ session'[device'[i].session].state # "absent"
               /\ device'[i].start >= session'[device'[i].session].base
    <3>1. /\ device[i] # NULL /\ device'[i].session = device[i].session
          /\ device'[i].start = device[i].start
      BY <1>3, <2>1 DEF Lasting
    <3>2. device[i].session \in Session
      BY <1>0, <3>1, DeviceFields
    <3> QED
      BY <1>1, <3>1, <3>2 DEF ConsentInv
  <2>2. ASSUME NEW i \in Installation, NEW e \in Event, Pending(i, e)'
        PROVE  /\ e \in Reply => e > device'[i].start
               /\ e \in Notice => device'[i].since # NULL /\ born'[e] >= device'[i].since
    <3>1. Pending(i, e) /\ device[i] # NULL
      BY <1>3, <2>2 DEF Lasting, Pending, PassInv, OutboxInv, PendingIsCurrent
    <3>2. device'[i] # NULL
      BY <2>2, PassInvStep DEF PassInv, OutboxInv, PendingIsCurrent
    <3>3. device'[i].start = device[i].start /\ device'[i].since = device[i].since
      BY <1>3, <3>2 DEF Lasting
    <3>4. born'[e] = born[e]
      BY <1>0, <3>1 DEF Dated, ExistInv, Pending
    <3> QED
      BY <3>1, <3>3, <3>4 DEF ConsentInv
  <2> QED
    BY <1>2, <2>1, <2>2, BasesKept DEF ConsentInv
<1>4. ASSUME NEW q \in Registration, CommitRegister(q)
      PROVE  ConsentInv'
  <2>1. request[q] \in RequestRow /\ request[q] # NULL
    BY <1>0, <1>4 DEF CommitRegister, WorldTypes
  <2>2. PICK i \in Installation, z \in Session, expires \in Nat, latest \in 0..MaxTurns,
             wanted \in BOOLEAN :
          /\ Register(i, z, expires, latest, wanted, now)
          /\ z = request[q].session /\ latest = request[q].latest
    BY <1>4, <2>1 DEF CommitRegister, RequestRow
  <2>3. /\ \A j \in Installation : j # i => device'[j] = device[j] /\ delivery'[j] = delivery[j]
        /\ Continued(i, z, latest, wanted, now)
        /\ \A e \in Event : Pending(i, e)' =>
             Pending(i, e) /\ SameScope(i, z) /\ (e \in Reply \/ wanted)
    <3>1. now \in Nat
      BY <1>0 DEF WorldTypes
    <3>2. \A e \in Event :
            Rotated(i, e) /\ (Pending(i, e)' => SameScope(i, z) /\ (e \in Reply \/ wanted))
      BY <1>0, <2>2, <3>1, RegisterRows
    <3>3. /\ \A j \in Installation : j # i => device'[j] = device[j] /\ delivery'[j] = delivery[j]
          /\ Continued(i, z, latest, wanted, now)
      BY <1>0, <2>2, <3>1, RegisterRows
    <3> QED
      BY <3>2, <3>3 DEF Rotated
  <2>4. /\ born' = born /\ session' = session
    BY <1>4 DEF CommitRegister, worldVars
  <2>5. /\ device'[i] # NULL /\ device'[i].session = z
        /\ session[z].state # "absent" /\ device'[i].start >= session[z].base
    <3>1. latest >= session[z].base /\ session[z].state # "absent"
      BY <2>1, <2>2 DEF ConsentInv
    <3>2. SameScope(i, z) => device[i].start >= session[z].base
      BY DEF SameScope, ConsentInv
    <3> QED
      BY <2>3, <3>1, <3>2 DEF Continued
  <2>6. ASSUME NEW e \in Event, Pending(i, e)'
        PROVE  /\ e \in Reply => e > device'[i].start
               /\ e \in Notice => device'[i].since # NULL /\ born[e] >= device'[i].since
    <3>1. Pending(i, e) /\ SameScope(i, z) /\ (e \in Reply \/ wanted)
      BY <2>3, <2>6
    <3>2. /\ e \in Reply => e > device[i].start
          /\ e \in Notice => device[i].since # NULL /\ born[e] >= device[i].since
      BY <3>1 DEF ConsentInv
    <3>3. device'[i].start = device[i].start
      BY <2>3, <3>1 DEF Continued
    <3>4. e \in Notice => e \notin Reply
      BY Events
    <3>5. e \in Notice => device'[i].since = device[i].since
      BY <2>3, <3>1, <3>2, <3>4 DEF Continued
    <3> QED
      BY <3>2, <3>3, <3>5
  <2>7. ASSUME NEW j \in Installation, device'[j] # NULL
        PROVE  /\ session'[device'[j].session].state # "absent"
               /\ device'[j].start >= session'[device'[j].session].base
    BY <2>3, <2>4, <2>5, <2>7 DEF ConsentInv
  <2>8. ASSUME NEW j \in Installation, NEW e \in Event, Pending(j, e)'
        PROVE  /\ e \in Reply => e > device'[j].start
               /\ e \in Notice => device'[j].since # NULL /\ born'[e] >= device'[j].since
    <3>1. CASE j = i
      BY <2>4, <2>6, <2>8, <3>1
    <3>2. CASE j # i
      <4>1. Pending(j, e)
        BY <2>3, <2>8, <3>2 DEF Pending
      <4> QED
        BY <2>3, <2>4, <3>2, <4>1 DEF ConsentInv
    <3> QED
      BY <3>1, <3>2
  <2> QED
    BY <1>2, <2>7, <2>8, BasesKept DEF ConsentInv
<1>5. ASSUME NEW p \in Process, EnqueueReplies(p) \/ EnqueueNotices(p)
      PROVE  ConsentInv'
  <2>1. device' = device /\ session' = session /\ born' = born
    BY <1>5 DEF EnqueueReplies, EnqueueNotices, Enqueue, EnqueueCommitments, worldVars
  <2>2. ASSUME NEW i \in Installation, NEW e \in Event, Pending(i, e)'
        PROVE  /\ e \in Reply => e > device[i].start
               /\ e \in Notice => device[i].since # NULL /\ born[e] >= device[i].since
    <3>0. delivery'[i][e] # NULL
      BY <2>2 DEF Pending
    <3>1. CASE Pending(i, e)
      BY <3>1 DEF ConsentInv
    <3>2. ASSUME NEW r \in Process, e \in batch[r], pc[r] = "enqueue", Owed(i, e, at[r])
          PROVE  e \in Reply /\ e > device[i].start
      BY <3>2 DEF Owed, PassInv, ObserverInv
    <3>3. ASSUME NEW r \in Process, Wants(i, e, born, now), e \in batch[r], EnqueueNotices(r)
          PROVE  device[i].since # NULL /\ born[e] >= device[i].since /\ e \notin Reply
      <4>1. pc[r] = "admit"
        BY <3>3 DEF EnqueueNotices
      <4> QED
        BY <3>3, <4>1, Events DEF Wants, ExistInv
    <3>4. CASE ~Pending(i, e)
      BY <3>0, <3>2, <3>3, <3>4, <2>2, NewRows, Events
    <3> QED
      BY <3>1, <3>4
  <2> QED
    BY <1>2, <2>1, <2>2, BasesKept DEF ConsentInv
<1> QED
  BY <1>3, <1>4, <1>5, RowsLast

\* What waits for a device was asked or published after the consent to it.
THEOREM NothingWithoutConsent == Spec => []OnlyConsented
<1>1. Init => ConsentInv
  BY DEF Init, OutboxInit, NoRows, Pending, ConsentInv
<1>2. PassInv /\ ConsentInv => OnlyConsented
  <2> SUFFICES ASSUME PassInv, ConsentInv, NEW i \in Installation, NEW e \in Event, Pending(i, e)
               PROVE  /\ e \in Reply => e > session[device[i].session].base
                      /\ e \in Notice => device[i].since # NULL /\ born[e] >= device[i].since
    BY DEF OnlyConsented
  <2>1. device[i] # NULL /\ OutboxTypes /\ WorldTypes
    BY DEF PassInv, OutboxInv, PendingIsCurrent
  <2>2. device[i].start \in Nat /\ device[i].session \in Session
    BY <2>1, DeviceFields
  <2>3. session[device[i].session].base \in Nat
    BY <2>1, <2>2 DEF WorldTypes
  <2>4. e \in Int
    BY DEF Event
  <2> QED
    BY <2>1, <2>2, <2>3, <2>4 DEF ConsentInv
<1> QED
  BY <1>1, <1>2, ConsentStep, ExistHolds, PassInvHolds, PTL DEF Spec

-----------------------------------------------------------------------------
(* How many.                                                               *)

LEMMA SomeDevices == \A t : IsFiniteSet(LiveDevices(t)) /\ Cardinality(LiveDevices(t)) \in Nat
<1> TAKE t
<1>1. LiveDevices(t) \subseteq Installation
  BY DEF LiveDevices
<1> QED
  BY <1>1, FS_Subset, FS_CardinalityType

LEMMA FewerDevices ==
  ASSUME LiveDevices(now)' \subseteq LiveDevices(now), LiveDevicesBounded,
         IsFiniteSet(LiveDevices(now)')
  PROVE  LiveDevicesBounded'
<1> DEFINE new == LiveDevices(now)'
           old == LiveDevices(now)
<1>1. IsFiniteSet(old) /\ Cardinality(old) \in Nat /\ Cardinality(old) <= MaxDevices
  BY SomeDevices DEF LiveDevicesBounded
<1>2. Cardinality(new) <= Cardinality(old) /\ Cardinality(new) \in Nat
  <2>1. new \subseteq old
    OBVIOUS
  <2> HIDE DEF new, old
  <2> QED
    BY <1>1, <2>1, FS_Subset, FS_CardinalityType
<1>3. Cardinality(new) <= MaxDevices
  <2> HIDE DEF new, old
  <2> QED
    BY <1>1, <1>2
<1> QED
  BY <1>3 DEF LiveDevicesBounded

LEMMA DevicesStep ==
  ASSUME PassInv, ExistInv, LiveDevicesBounded, [Next]_vars
  PROVE  LiveDevicesBounded'
<1>0. /\ OutboxTypes /\ WorldTypes /\ now \in Nat /\ now' \in Nat /\ now <= now'
      /\ OutboxTypes'
  BY DatesKept, PassInvStep DEF PassInv, OutboxInv, WorldTypes, Dated
<1>1. IsFiniteSet(LiveDevices(now)')
  <2>1. LiveDevices(now)' \subseteq Installation
    BY DEF LiveDevices
  <2> QED
    BY <2>1, FS_Subset
<1>2. ASSUME \A i \in Installation : device'[i] # NULL =>
               /\ device[i] # NULL /\ device'[i].expires = device[i].expires
               /\ device'[i].active => device[i].active
      PROVE  LiveDevicesBounded'
  <2>1. ASSUME NEW i \in Installation, Live(i, now)'
        PROVE  Live(i, now)
    <3>1. device[i] # NULL
      BY <1>2, <2>1 DEF Live
    <3>2. device[i].expires \in Nat
      BY <1>0, <3>1, DeviceFields
    <3> QED
      BY <1>0, <1>2, <2>1, <3>2 DEF Live
  <2>2. LiveDevices(now)' \subseteq LiveDevices(now)
    BY <2>1 DEF LiveDevices
  <2> QED
    BY <1>1, <2>2, FewerDevices
<1>3. CASE Lasting
  BY <1>2, <1>3 DEF Lasting
<1>4. CASE \E p \in Process : EnqueueReplies(p) \/ EnqueueNotices(p)
  <2>1. device' = device
    BY <1>4 DEF EnqueueReplies, EnqueueNotices, Enqueue, EnqueueCommitments
  <2> QED
    BY <1>2, <2>1
<1>5. ASSUME NEW q \in Registration, CommitRegister(q)
      PROVE  LiveDevicesBounded'
  <2>1. request[q] \in RequestRow /\ request[q] # NULL /\ now' = now
    BY <1>0, <1>5 DEF CommitRegister, WorldTypes, worldVars
  <2>2. PICK i \in Installation, z \in Session, expires \in Nat, latest \in 0..MaxTurns,
             wanted \in BOOLEAN : Register(i, z, expires, latest, wanted, now)
    BY <1>5, <2>1 DEF CommitRegister, RequestRow
  <2>3. /\ \A j \in Installation : j # i => device'[j] = device[j]
        /\ Admissible(i, now)
    BY <1>0, <2>2, RegisterRows DEF Register
  <2>4. LiveDevices(now)' \subseteq LiveDevices(now) \cup {i}
    BY <2>1, <2>3 DEF LiveDevices, Live
  <2>5. CASE Live(i, now)
    <3>1. LiveDevices(now)' \subseteq LiveDevices(now)
      BY <2>4, <2>5 DEF LiveDevices
    <3> QED
      BY <1>1, <3>1, FewerDevices
  <2>6. CASE Cardinality(LiveDevices(now)) < MaxDevices
    <3> DEFINE new == LiveDevices(now)'
               old == LiveDevices(now)
    <3>1. IsFiniteSet(old) /\ Cardinality(old) \in Nat /\ Cardinality(old) < MaxDevices
      BY <2>6, SomeDevices
    <3>2. new \subseteq old \cup {i}
      BY <2>4
    <3> HIDE DEF new, old
    <3>3. IsFiniteSet(old \cup {i}) /\ Cardinality(old \cup {i}) <= Cardinality(old) + 1
      <4>1. IsFiniteSet(old \cup {i}) /\
              Cardinality(old \cup {i}) = IF i \in old THEN Cardinality(old) ELSE Cardinality(old) + 1
        BY ONLY <3>1, FS_AddElement
      <4> QED
        BY <3>1, <4>1
    <3>4. /\ Cardinality(new) <= Cardinality(old \cup {i})
          /\ Cardinality(new) \in Nat /\ Cardinality(old \cup {i}) \in Nat
      BY <3>2, <3>3, FS_Subset, FS_CardinalityType
    <3>5. Cardinality(new) <= MaxDevices
      BY <3>1, <3>3, <3>4
    <3> QED
      BY <3>5 DEF LiveDevicesBounded, new
  <2> QED
    BY <2>3, <2>5, <2>6 DEF Admissible
<1> QED
  BY <1>3, <1>4, <1>5, RowsLast

\* Registering never leaves more devices live than admitted.
THEOREM DevicesAdmitted == Spec => []LiveDevicesBounded
<1>1. Init => LiveDevicesBounded
  <2>1. Init => LiveDevices(now) = {}
    BY DEF Init, OutboxInit, LiveDevices, Live
  <2> QED
    BY <2>1, FS_EmptySet DEF LiveDevicesBounded
<1> QED
  BY <1>1, DevicesStep, ExistHolds, PassInvHolds, PTL DEF Spec

LEMMA SomeNotices ==
  ASSUME NEW S, S \subseteq Notice
  PROVE  IsFiniteSet(S) /\ Cardinality(S) \in Nat
<1>1. IsFiniteSet(Notice)
  <2>1. MaxTurns + 1 \in Int /\ MaxTurns + MaxNotices \in Int
    OBVIOUS
  <2> QED
    BY <2>1, FS_Interval DEF Notice
<1> QED
  BY <1>1, FS_Subset, FS_CardinalityType

\* Notices in the order of their dates, some of them admitted by their place.
LEMMA FewGranted ==
  ASSUME NEW b \in [Event -> Nat], NEW t \in Nat, \A e \in Event : b[e] <= t,
         NEW R, R \subseteq Notice, Cardinality(R) <= NoticeCap,
         NEW N, N \subseteq Notice,
         NEW G, G \subseteq N,
         \A n \in G :
           Cardinality(R) +
             Cardinality({m \in N : b[m] < b[n] \/ (b[m] = b[n] /\ m < n)}) < NoticeCap
  PROVE  Cardinality(R \cup G) <= NoticeCap
<1>1. CASE G = {}
  BY <1>1
<1>2. CASE G # {}
  <2>0. \A n \in Notice : n \in Event /\ n \in 0..(MaxTurns + MaxNotices)
    BY Events DEF Notice
  <2> DEFINE B == {b[n] : n \in G}
             last == Max(B)
             T == {n \in G : b[n] = last}
             m == Max(T)
             ahead == {n \in N : b[n] < b[m] \/ (b[n] = b[m] /\ n < m)}
  <2>1. last \in B /\ \A x \in B : x <= last
    <3>1. \A n \in G : b[n] \in 0..t
      BY <2>0
    <3>2. B \in SUBSET (0..t) /\ B # {}
      BY <1>2, <3>1
    <3> HIDE DEF B
    <3> QED
      BY <3>2, Greatest
  <2> HIDE DEF last
  <2>2. m \in T /\ \A x \in T : x <= m
    <3>1. T \in SUBSET (0..(MaxTurns + MaxNotices)) /\ T # {}
      BY <2>0, <2>1
    <3>2. MaxTurns + MaxNotices \in Nat
      OBVIOUS
    <3> HIDE DEF T
    <3> QED
      BY <3>1, <3>2, Greatest
  <2> HIDE DEF m
  <2>3. ASSUME NEW n \in G PROVE n \in ahead \cup {m}
    <3>1. m \in G /\ b[m] = last /\ n \in Int /\ m \in Int /\ b[n] \in Int /\ last \in Int
      BY <2>0, <2>2, <2>3
    <3>2. b[n] <= last /\ (b[n] = last => n <= m)
      BY <2>1, <2>2, <2>3
    <3> QED
      BY <2>3, <3>1, <3>2
  <2>4. Cardinality(R) + Cardinality(ahead) < NoticeCap
    BY <2>2
  <2>5. ahead \subseteq Notice /\ m \in Notice
    BY <2>2
  <2> HIDE DEF ahead
  <2>6. R \cup G \subseteq (R \cup ahead) \cup {m}
    BY <2>3
  <2>7. /\ IsFiniteSet(R) /\ Cardinality(R) \in Nat
        /\ IsFiniteSet(ahead) /\ Cardinality(ahead) \in Nat
        /\ IsFiniteSet(R \cup ahead) /\ Cardinality(R \cup ahead) \in Nat
        /\ Cardinality(R \cap ahead) \in Nat
        /\ IsFiniteSet((R \cup ahead) \cup {m}) /\ Cardinality((R \cup ahead) \cup {m}) \in Nat
        /\ Cardinality(R \cup G) \in Nat
    <3>1. /\ R \cup ahead \subseteq Notice /\ R \cap ahead \subseteq Notice
          /\ (R \cup ahead) \cup {m} \subseteq Notice /\ R \cup G \subseteq Notice
      BY <2>5
    <3> QED
      BY <2>5, <3>1, SomeNotices
  <2>8. Cardinality(R \cup ahead) <= Cardinality(R) + Cardinality(ahead)
    <3>1. Cardinality(R \cup ahead) = Cardinality(R) + Cardinality(ahead) - Cardinality(R \cap ahead)
      BY ONLY <2>7, FS_Union
    <3> QED
      BY <2>7, <3>1
  <2>9. Cardinality((R \cup ahead) \cup {m}) <= Cardinality(R \cup ahead) + 1
    <3>1. Cardinality((R \cup ahead) \cup {m}) =
            IF m \in R \cup ahead THEN Cardinality(R \cup ahead) ELSE Cardinality(R \cup ahead) + 1
      BY ONLY <2>7, FS_AddElement
    <3> QED
      BY <2>7, <3>1
  <2>10. Cardinality(R \cup G) <= Cardinality((R \cup ahead) \cup {m})
    BY ONLY <2>6, <2>7, FS_Subset
  <2> QED
    BY <2>4, <2>7, <2>8, <2>9, <2>10
<1> QED
  BY <1>1, <1>2

LEMMA NoMoreNotices ==
  ASSUME Recent(now)' \subseteq Recent(now), NoticesCapped
  PROVE  NoticesCapped'
<1> DEFINE new == Recent(now)'
           old == Recent(now)
<1>1. /\ IsFiniteSet(old) /\ Cardinality(old) \in Nat /\ Cardinality(old) <= NoticeCap
      /\ new \subseteq old
  BY SomeNotices DEF Recent, NoticesCapped
<1>2. Cardinality(new) <= NoticeCap
  <2> HIDE DEF new, old
  <2>1. Cardinality(new) <= Cardinality(old) /\ Cardinality(new) \in Nat
    BY <1>1, FS_Subset, FS_CardinalityType
  <2> QED
    BY <1>1, <2>1
<1> QED
  BY <1>2 DEF NoticesCapped

LEMMA NoticesStep ==
  ASSUME PassInv, ExistInv, OnceInv, NoticesCapped, [Next]_vars
  PROVE  NoticesCapped'
<1>0. /\ OutboxTypes /\ OutboxTypes' /\ WorldTypes /\ ObserverTypes /\ now \in Nat /\ now' \in Nat
      /\ now <= now' /\ Day \in Nat
  BY DatesKept, PassInvStep DEF PassInv, OutboxInv, WorldTypes, Dated
<1>1. CASE ~ \E p \in Process : EnqueueNotices(p)
  <2>1. ASSUME NEW i \in Installation, NEW n \in Notice, delivery'[i][n] # NULL,
               delivery'[i][n].created + Day > now'
        PROVE  delivery[i][n] # NULL /\ delivery[i][n].created + Day > now
    <3>0. n \in Event /\ n \notin Reply
      BY Events
    <3>1. delivery[i][n] # NULL /\ delivery'[i][n].created = delivery[i][n].created
      BY <1>1, <2>1, <3>0, NewRows DEF PassInv, ObserverInv
    <3>2. delivery[i][n].created \in Nat
      BY <1>0, <3>0, <3>1, DeliveryFields
    <3> QED
      BY <1>0, <2>1, <3>1, <3>2
  <2>2. Recent(now)' \subseteq Recent(now)
    BY <2>1 DEF Recent
  <2> QED
    BY <2>2, NoMoreNotices
<1>2. ASSUME NEW p \in Process, EnqueueNotices(p)
      PROVE  NoticesCapped'
  <2> DEFINE R == Recent(now)
             N == {n \in batch[p] \ R : \E i \in Installation : Wants(i, n, born, now)}
             ahead(n) == {m \in N : born[m] < born[n] \/ (born[m] = born[n] /\ m < n)}
             G == {n \in N : Cardinality(R) + Cardinality(ahead(n)) < NoticeCap}
  <2>1. /\ batch[p] \in SUBSET Event /\ batch[p] \subseteq Notice /\ born \in [Event -> Nat]
        /\ EnqueueCommitments(batch[p], born, now) /\ now' = now
    BY <1>0, <1>2 DEF EnqueueNotices, ObserverTypes, WorldTypes, ExistInv, worldVars
  <2>2. \A n \in Granted(batch[p], born, now) :
          (\E i \in Installation : Wants(i, n, born, now)) => n \in R \cup G
    BY DEF Granted, Admits
  <2>3. \A i \in Installation, e \in Event :
          \/ delivery'[i][e] = delivery[i][e]
          \/ e \in Granted(batch[p], born, now) /\ Wants(i, e, born, now)
    BY <1>0, <2>1, EnqueueCommitmentsRows
  <2>4. Recent(now)' \subseteq R \cup G
    <3> HIDE DEF G
    <3> QED
      BY <2>1, <2>2, <2>3, Events DEF Recent
  <2>5. Cardinality(R \cup G) <= NoticeCap
    <3>1. /\ R \subseteq Notice /\ N \subseteq Notice /\ G \subseteq N
          /\ Cardinality(R) <= NoticeCap /\ \A e \in Event : born[e] <= now
      BY <2>1 DEF Recent, NoticesCapped, OnceInv
    <3>2. \A n \in G : Cardinality(R) +
            Cardinality({m \in N : born[m] < born[n] \/ (born[m] = born[n] /\ m < n)}) < NoticeCap
      OBVIOUS
    <3> HIDE DEF R, N, G
    <3> QED
      BY <1>0, <2>1, <3>1, <3>2, FewGranted
  <2>6. /\ IsFiniteSet(R \cup G) /\ Cardinality(R \cup G) \in Nat
    <3>1. R \cup G \subseteq Notice
      BY <2>1 DEF Recent
    <3> QED
      BY <3>1, SomeNotices
  <2> DEFINE new == Recent(now)'
  <2>7. Cardinality(new) <= Cardinality(R \cup G) /\ Cardinality(new) \in Nat
    <3>1. new \subseteq R \cup G
      BY <2>4
    <3> HIDE DEF new, R, G
    <3> QED
      BY <2>6, <3>1, FS_Subset, FS_CardinalityType
  <2>8. Cardinality(new) <= NoticeCap
    <3> HIDE DEF new, R, G
    <3> QED
      BY <2>5, <2>6, <2>7
  <2> QED
    BY <2>8 DEF NoticesCapped
<1> QED
  BY <1>1, <1>2

\* However many devices and observers there are, the rows of a day show no
\* more notices than admitted.
THEOREM NoticesAdmitted == Spec => []NoticesCapped
<1>1. Init => NoticesCapped /\ OnceInv
  <2>1. Init => Recent(now) = {}
    BY Events DEF Init, OutboxInit, NoRows, Recent
  <2>2. Init => OnceInv
    BY DEF Init, OutboxInit, NoRows, OnceInv
  <2> QED
    BY <2>1, <2>2, FS_EmptySet DEF NoticesCapped
<1> QED
  BY <1>1, NoticesStep, OnceStep, ExistHolds, PassInvHolds, PTL DEF Spec

=============================================================================
