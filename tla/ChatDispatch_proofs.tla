------------------------- MODULE ChatDispatch_proofs -------------------------
(***************************************************************************)
(* The store keeps one active reply, in queue order, for every number of   *)
(* requests and runs and every order of calls its callers' contract allows.*)
(* The chat service calls the store as that contract says, for any number  *)
(* of web processes, requests and POSTs, so that every theorem about the   *)
(* store holds of the whole; nothing is sent while dispatch is held; and a *)
(* turn only ever names a run of its own.                                  *)
(***************************************************************************)
EXTENDS ChatDispatch, TLAPS

-----------------------------------------------------------------------------
(* The store.                                                               *)

\* Rows are numbered in the order of their reservation, without repetition.
SeqInv ==
  /\ \A r \in Request : seq[r] <= lastSeq
  /\ \A q, r \in Request : Present(q) /\ Present(r) /\ seq[q] = seq[r] => q = r

\* What must have happened to a row before it may hold a deadline, a grant or
\* a run.
HistoryInv ==
  \A r \in Request :
    /\ firstAt[r] = NULL => retryUntil[r] = 0
    /\ firstAt[r] # NULL => status[r] \notin {"absent", "waiting"}
    /\ runId[r] # NULL => firstAt[r] # NULL
    /\ status[r] \in Live => runId[r] # NULL
    /\ granted[r] => firstAt[r] # NULL
    /\ ~granted[r] => boundRun[r] = NULL

\* HeadOfQueue alone is not inductive: that an acknowledgement or a callback
\* never finds a waiting row is HistoryInv, that a new row goes last is SeqInv.
StoreInv ==
  /\ StoreTypeOK
  /\ SeqInv
  /\ HistoryInv
  /\ HeadOfQueue
  /\ GrantFollowsRun
  /\ WithdrawnWasNeverBegun

USE DEF Terminal, Live, Status

-----------------------------------------------------------------------------

LEMMA InitEstablishesStoreInv == StoreInit => StoreInv
  BY IdentityAssumption DEF StoreInit, StoreInv, StoreTypeOK, SeqInv, HistoryInv, HeadOfQueue,
     GrantFollowsRun, WithdrawnWasNeverBegun, Active, Unfinished, Present, NeverAttempted

\* The columns keep their types.
LEMMA StoreTyping ==
  ASSUME StoreTypeOK, StoreNext
  PROVE  StoreTypeOK'
  <1> USE IdentityAssumption DEF StoreTypeOK, placeCols, deadlineCols, grantCols
  <1>1. ASSUME NEW r \in Request, Reserve(r) PROVE StoreTypeOK'
    BY <1>1 DEF Reserve
  <1>2. ASSUME NEW r \in Request, PromoteWaiting(r) PROVE StoreTypeOK'
    BY <1>2 DEF PromoteWaiting
  <1>3. ASSUME NEW r \in Request, CancelWaiting(r) PROVE StoreTypeOK'
    BY <1>3 DEF CancelWaiting
  <1>4. ASSUME NEW r \in Request, NEW now \in Nat, NEW window \in Nat,
               CallerBegins(r), BeginDispatch(r, now, window) PROVE StoreTypeOK'
    BY <1>4 DEF BeginDispatch
  <1>5. ASSUME NEW r \in Request, MintGrant(r) PROVE StoreTypeOK'
    BY <1>5 DEF MintGrant
  <1>6. ASSUME NEW r \in Request, NEW p \in Run, NEW now \in Nat, BindGrant(r, p, now)
        PROVE StoreTypeOK'
    BY <1>6 DEF BindGrant
  <1>7. ASSUME NEW r \in Request, NEW p \in Run, NEW s \in Live,
               CallerPosted(r), Attach(r, p, s) PROVE StoreTypeOK'
    BY <1>7 DEF Attach
  <1>8. ASSUME NEW r \in Request, NEW p \in Run, NEW s \in Live \cup Terminal,
               Observe(r, p, s) PROVE StoreTypeOK'
    BY <1>8 DEF Observe
  <1>9. ASSUME NEW r \in Request, CallerPosted(r), RejectUnadmitted(r) PROVE StoreTypeOK'
    BY <1>9 DEF RejectUnadmitted
  <1> HIDE DEF StoreTypeOK, Terminal, Live, Status
  <1> QED
    BY <1>1, <1>2, <1>3, <1>4, <1>5, <1>6, <1>7, <1>8, <1>9 DEF StoreNext, StoreStep

\* A new row takes a number above every other; no other transaction numbers.
LEMMA StepKeepsSeqInv ==
  ASSUME StoreTypeOK, SeqInv, StoreNext
  PROVE  SeqInv'
  <1> USE IdentityAssumption DEF StoreTypeOK, placeCols, deadlineCols, grantCols, SeqInv, Present, Unfinished
  <1>1. ASSUME NEW r \in Request, Reserve(r) PROVE SeqInv'
    BY <1>1 DEF Reserve
  <1>2. ASSUME NEW r \in Request, PromoteWaiting(r) PROVE SeqInv'
    BY <1>2 DEF PromoteWaiting, Promotable
  <1>3. ASSUME NEW r \in Request, CancelWaiting(r) PROVE SeqInv'
    BY <1>3 DEF CancelWaiting
  <1>4. ASSUME NEW r \in Request, NEW now \in Nat, NEW window \in Nat,
               CallerBegins(r), BeginDispatch(r, now, window) PROVE SeqInv'
    BY <1>4 DEF BeginDispatch, CallerBegins
  <1>5. ASSUME NEW r \in Request, MintGrant(r) PROVE SeqInv'
    BY <1>5 DEF MintGrant
  <1>6. ASSUME NEW r \in Request, NEW p \in Run, NEW now \in Nat, BindGrant(r, p, now)
        PROVE SeqInv'
    BY <1>6 DEF BindGrant, Bindable
  <1>7. ASSUME NEW r \in Request, NEW p \in Run, NEW s \in Live,
               CallerPosted(r), Attach(r, p, s) PROVE SeqInv'
    BY <1>7 DEF Attach, Attachable, CallerPosted
  <1>8. ASSUME NEW r \in Request, NEW p \in Run, NEW s \in Live \cup Terminal,
               Observe(r, p, s) PROVE SeqInv'
    BY <1>8 DEF Observe
  <1>9. ASSUME NEW r \in Request, CallerPosted(r), RejectUnadmitted(r) PROVE SeqInv'
    BY <1>9 DEF RejectUnadmitted, Rejectable, CallerPosted
  <1> HIDE DEF StoreTypeOK, Terminal, Live, Status
  <1> QED
    BY <1>1, <1>2, <1>3, <1>4, <1>5, <1>6, <1>7, <1>8, <1>9 DEF StoreNext, StoreStep

\* A row gets a deadline only once it is past the queue, and the rest later.
LEMMA StepKeepsHistoryInv ==
  ASSUME StoreTypeOK, HistoryInv, StoreNext
  PROVE  HistoryInv'
  <1> USE IdentityAssumption DEF StoreTypeOK, placeCols, deadlineCols, grantCols, HistoryInv, Active, Present, Unfinished
  <1>1. ASSUME NEW r \in Request, Reserve(r) PROVE HistoryInv'
    BY <1>1 DEF Reserve
  <1>2. ASSUME NEW r \in Request, PromoteWaiting(r) PROVE HistoryInv'
    BY <1>2 DEF PromoteWaiting, Promotable
  <1>3. ASSUME NEW r \in Request, CancelWaiting(r) PROVE HistoryInv'
    BY <1>3 DEF CancelWaiting
  <1>4. ASSUME NEW r \in Request, NEW now \in Nat, NEW window \in Nat,
               CallerBegins(r), BeginDispatch(r, now, window) PROVE HistoryInv'
    BY <1>4 DEF BeginDispatch, CallerBegins
  <1>5. ASSUME NEW r \in Request, MintGrant(r) PROVE HistoryInv'
    BY <1>5 DEF MintGrant
  <1>6. ASSUME NEW r \in Request, NEW p \in Run, NEW now \in Nat, BindGrant(r, p, now)
        PROVE HistoryInv'
    BY <1>6 DEF BindGrant, Bindable
  <1>7. ASSUME NEW r \in Request, NEW p \in Run, NEW s \in Live,
               CallerPosted(r), Attach(r, p, s) PROVE HistoryInv'
    BY <1>7 DEF Attach, Attachable, CallerPosted
  <1>8. ASSUME NEW r \in Request, NEW p \in Run, NEW s \in Live \cup Terminal,
               Observe(r, p, s) PROVE HistoryInv'
    BY <1>8 DEF Observe
  <1>9. ASSUME NEW r \in Request, CallerPosted(r), RejectUnadmitted(r) PROVE HistoryInv'
    BY <1>9 DEF RejectUnadmitted, Rejectable, CallerPosted
  <1> HIDE DEF StoreTypeOK, Terminal, Live, Status
  <1> QED
    BY <1>1, <1>2, <1>3, <1>4, <1>5, <1>6, <1>7, <1>8, <1>9 DEF StoreNext, StoreStep

\* Past the queue is only the oldest: by promotion, or alone at reservation.
LEMMA StepKeepsHeadOfQueue ==
  ASSUME StoreTypeOK, SeqInv, HistoryInv, HeadOfQueue, StoreNext
  PROVE  HeadOfQueue'
  <1> USE IdentityAssumption DEF StoreTypeOK, placeCols, deadlineCols, grantCols, SeqInv, HistoryInv, HeadOfQueue, Pending, Active, Present, Unfinished
  <1>1. ASSUME NEW r \in Request, Reserve(r) PROVE HeadOfQueue'
    BY <1>1 DEF Reserve
  <1>2. ASSUME NEW r \in Request, PromoteWaiting(r) PROVE HeadOfQueue'
    BY <1>2 DEF PromoteWaiting, Promotable
  <1>3. ASSUME NEW r \in Request, CancelWaiting(r) PROVE HeadOfQueue'
    BY <1>3 DEF CancelWaiting
  <1>4. ASSUME NEW r \in Request, NEW now \in Nat, NEW window \in Nat,
               CallerBegins(r), BeginDispatch(r, now, window) PROVE HeadOfQueue'
    BY <1>4 DEF BeginDispatch, CallerBegins
  <1>5. ASSUME NEW r \in Request, MintGrant(r) PROVE HeadOfQueue'
    BY <1>5 DEF MintGrant
  <1>6. ASSUME NEW r \in Request, NEW p \in Run, NEW now \in Nat, BindGrant(r, p, now)
        PROVE HeadOfQueue'
    BY <1>6 DEF BindGrant, Bindable
  <1>7. ASSUME NEW r \in Request, NEW p \in Run, NEW s \in Live,
               CallerPosted(r), Attach(r, p, s) PROVE HeadOfQueue'
    BY <1>7 DEF Attach, Attachable, CallerPosted
  <1>8. ASSUME NEW r \in Request, NEW p \in Run, NEW s \in Live \cup Terminal,
               Observe(r, p, s) PROVE HeadOfQueue'
    BY <1>8 DEF Observe
  <1>9. ASSUME NEW r \in Request, CallerPosted(r), RejectUnadmitted(r) PROVE HeadOfQueue'
    BY <1>9 DEF RejectUnadmitted, Rejectable, CallerPosted
  <1> HIDE DEF StoreTypeOK, Terminal, Live, Status
  <1> QED
    BY <1>1, <1>2, <1>3, <1>4, <1>5, <1>6, <1>7, <1>8, <1>9 DEF StoreNext, StoreStep

\* Each of attach and bind checks what the other one saved.
LEMMA StepKeepsGrantFollowsRun ==
  ASSUME StoreTypeOK, HistoryInv, GrantFollowsRun, StoreNext
  PROVE  GrantFollowsRun'
  <1> USE IdentityAssumption DEF StoreTypeOK, placeCols, deadlineCols, grantCols, HistoryInv, GrantFollowsRun, Present, Unfinished
  <1>1. ASSUME NEW r \in Request, Reserve(r) PROVE GrantFollowsRun'
    BY <1>1 DEF Reserve
  <1>2. ASSUME NEW r \in Request, PromoteWaiting(r) PROVE GrantFollowsRun'
    BY <1>2 DEF PromoteWaiting, Promotable
  <1>3. ASSUME NEW r \in Request, CancelWaiting(r) PROVE GrantFollowsRun'
    BY <1>3 DEF CancelWaiting
  <1>4. ASSUME NEW r \in Request, NEW now \in Nat, NEW window \in Nat,
               CallerBegins(r), BeginDispatch(r, now, window) PROVE GrantFollowsRun'
    BY <1>4 DEF BeginDispatch, CallerBegins
  <1>5. ASSUME NEW r \in Request, MintGrant(r) PROVE GrantFollowsRun'
    BY <1>5 DEF MintGrant
  <1>6. ASSUME NEW r \in Request, NEW p \in Run, NEW now \in Nat, BindGrant(r, p, now)
        PROVE GrantFollowsRun'
    BY <1>6 DEF BindGrant, Bindable
  <1>7. ASSUME NEW r \in Request, NEW p \in Run, NEW s \in Live,
               CallerPosted(r), Attach(r, p, s) PROVE GrantFollowsRun'
    BY <1>7 DEF Attach, Attachable, CallerPosted
  <1>8. ASSUME NEW r \in Request, NEW p \in Run, NEW s \in Live \cup Terminal,
               Observe(r, p, s) PROVE GrantFollowsRun'
    BY <1>8 DEF Observe
  <1>9. ASSUME NEW r \in Request, CallerPosted(r), RejectUnadmitted(r) PROVE GrantFollowsRun'
    BY <1>9 DEF RejectUnadmitted, Rejectable, CallerPosted
  <1> HIDE DEF StoreTypeOK, Terminal, Live, Status
  <1> QED
    BY <1>1, <1>2, <1>3, <1>4, <1>5, <1>6, <1>7, <1>8, <1>9 DEF StoreNext, StoreStep

\* A withdrawn row is terminal, and no transaction begins a terminal row.
LEMMA StepKeepsWithdrawn ==
  ASSUME StoreTypeOK, HistoryInv, WithdrawnWasNeverBegun, StoreNext
  PROVE  WithdrawnWasNeverBegun'
  <1> USE IdentityAssumption DEF StoreTypeOK, placeCols, deadlineCols, grantCols, HistoryInv, WithdrawnWasNeverBegun, NeverAttempted, Active, Present, Unfinished
  <1>1. ASSUME NEW r \in Request, Reserve(r) PROVE WithdrawnWasNeverBegun'
    BY <1>1 DEF Reserve
  <1>2. ASSUME NEW r \in Request, PromoteWaiting(r) PROVE WithdrawnWasNeverBegun'
    BY <1>2 DEF PromoteWaiting, Promotable
  <1>3. ASSUME NEW r \in Request, CancelWaiting(r) PROVE WithdrawnWasNeverBegun'
    BY <1>3 DEF CancelWaiting
  <1>4. ASSUME NEW r \in Request, NEW now \in Nat, NEW window \in Nat,
               CallerBegins(r), BeginDispatch(r, now, window) PROVE WithdrawnWasNeverBegun'
    BY <1>4 DEF BeginDispatch, CallerBegins
  <1>5. ASSUME NEW r \in Request, MintGrant(r) PROVE WithdrawnWasNeverBegun'
    BY <1>5 DEF MintGrant
  <1>6. ASSUME NEW r \in Request, NEW p \in Run, NEW now \in Nat, BindGrant(r, p, now)
        PROVE WithdrawnWasNeverBegun'
    BY <1>6 DEF BindGrant, Bindable
  <1>7. ASSUME NEW r \in Request, NEW p \in Run, NEW s \in Live,
               CallerPosted(r), Attach(r, p, s) PROVE WithdrawnWasNeverBegun'
    BY <1>7 DEF Attach, Attachable, CallerPosted
  <1>8. ASSUME NEW r \in Request, NEW p \in Run, NEW s \in Live \cup Terminal,
               Observe(r, p, s) PROVE WithdrawnWasNeverBegun'
    BY <1>8 DEF Observe
  <1>9. ASSUME NEW r \in Request, CallerPosted(r), RejectUnadmitted(r) PROVE WithdrawnWasNeverBegun'
    BY <1>9 DEF RejectUnadmitted, Rejectable, CallerPosted
  <1> HIDE DEF StoreTypeOK, Terminal, Live, Status
  <1> QED
    BY <1>1, <1>2, <1>3, <1>4, <1>5, <1>6, <1>7, <1>8, <1>9 DEF StoreNext, StoreStep

-----------------------------------------------------------------------------

LEMMA StepKeepsStoreInv ==
  ASSUME StoreInv, [StoreNext]_storeVars
  PROVE  StoreInv'
  <1>1. CASE StoreNext
    BY <1>1, StoreTyping, StepKeepsSeqInv, StepKeepsHistoryInv, StepKeepsHeadOfQueue,
       StepKeepsGrantFollowsRun, StepKeepsWithdrawn DEF StoreInv
  <1>2. CASE UNCHANGED storeVars
    BY <1>2 DEF storeVars, placeCols, deadlineCols, grantCols, StoreInv, StoreTypeOK, SeqInv,
       HistoryInv, HeadOfQueue, GrantFollowsRun, WithdrawnWasNeverBegun, NeverAttempted,
       Pending, Active, Unfinished, Present
  <1> QED
    BY <1>1, <1>2

\* The inductive invariant, on which the theorems below rest.
THEOREM StoreInvariant == StoreSpec => []StoreInv
  <1>1. StoreInit => StoreInv
    BY InitEstablishesStoreInv
  <1>2. StoreInv /\ [StoreNext]_storeVars => StoreInv'
    BY StepKeepsStoreInv
  <1> QED
    BY <1>1, <1>2, PTL DEF StoreSpec

\* The store's columns always have their types (turns table, chat/store.py).
THEOREM StoreTypeCorrect == StoreSpec => []StoreTypeOK
  <1>1. StoreInv => StoreTypeOK
    BY DEF StoreInv
  <1> QED
    BY <1>1, StoreInvariant, PTL

\* promote_waiting and reserve keep the conversation's order: a turn past the
\* queue is the oldest unfinished one.
THEOREM StoreKeepsOrder == StoreSpec => []HeadOfQueue
  <1>1. StoreInv => HeadOfQueue
    BY DEF StoreInv
  <1> QED
    BY <1>1, StoreInvariant, PTL

\* The module docstring of chat/service.py: "one active reply".
THEOREM StoreKeepsOneActiveReply == StoreSpec => []OneActiveReply
  <1>1. StoreInv => OneActiveReply
    <2> SUFFICES ASSUME StoreInv, NEW q \in Request, NEW r \in Request, Active(q), Active(r)
                 PROVE  q = r
      BY DEF OneActiveReply
    <2>1. Pending(q) /\ Pending(r)
      BY DEF StoreInv, HeadOfQueue
    <2>2. seq[q] <= seq[r] /\ seq[r] <= seq[q] /\ seq[q] \in Nat /\ seq[r] \in Nat
      BY <2>1 DEF Pending, StoreInv, StoreTypeOK
    <2>3. seq[q] = seq[r]
      BY <2>2
    <2> QED
      BY <2>3 DEF StoreInv, SeqInv, Active, Unfinished
  <1> QED
    BY <1>1, StoreInvariant, PTL

\* bind_document_grant and attach agree on the run of a turn.
THEOREM StoreBindsOneRun == StoreSpec => []GrantFollowsRun
  <1>1. StoreInv => GrantFollowsRun
    BY DEF StoreInv
  <1> QED
    BY <1>1, StoreInvariant, PTL

\* cancel_waiting only ever withdraws what was never begun.
THEOREM StoreWithdrawsOnlyUnbegun == StoreSpec => []WithdrawnWasNeverBegun
  <1>1. StoreInv => WithdrawnWasNeverBegun
    BY DEF StoreInv
  <1> QED
    BY <1>1, StoreInvariant, PTL

\* No transaction reopens, renews, moves or rebinds a row.
LEMMA StepIsMonotone ==
  ASSUME StoreInv, StoreNext
  PROVE  AllRowsAreMonotone
  <1> USE IdentityAssumption DEF StoreInv, StoreTypeOK, HistoryInv, placeCols, deadlineCols,
      grantCols, AllRowsAreMonotone, RowIsMonotone,
      Present, Unfinished, Active
  <1>1. ASSUME NEW r \in Request, Reserve(r) PROVE AllRowsAreMonotone
    BY <1>1 DEF Reserve
  <1>2. ASSUME NEW r \in Request, PromoteWaiting(r) PROVE AllRowsAreMonotone
    BY <1>2 DEF PromoteWaiting, Promotable
  <1>3. ASSUME NEW r \in Request, CancelWaiting(r) PROVE AllRowsAreMonotone
    BY <1>3 DEF CancelWaiting
  <1>4. ASSUME NEW r \in Request, NEW now \in Nat, NEW window \in Nat,
               CallerBegins(r), BeginDispatch(r, now, window) PROVE AllRowsAreMonotone
    BY <1>4 DEF BeginDispatch, NeverAttempted, CallerBegins
  <1>5. ASSUME NEW r \in Request, MintGrant(r) PROVE AllRowsAreMonotone
    BY <1>5 DEF MintGrant
  <1>6. ASSUME NEW r \in Request, NEW p \in Run, NEW now \in Nat, BindGrant(r, p, now)
        PROVE AllRowsAreMonotone
    BY <1>6 DEF BindGrant, Bindable
  <1>7. ASSUME NEW r \in Request, NEW p \in Run, NEW s \in Live,
               CallerPosted(r), Attach(r, p, s) PROVE AllRowsAreMonotone
    BY <1>7 DEF Attach, Attachable, CallerPosted
  <1>8. ASSUME NEW r \in Request, NEW p \in Run, NEW s \in Live \cup Terminal,
               Observe(r, p, s) PROVE AllRowsAreMonotone
    BY <1>8 DEF Observe
  <1>9. ASSUME NEW r \in Request, CallerPosted(r), RejectUnadmitted(r) PROVE AllRowsAreMonotone
    BY <1>9 DEF RejectUnadmitted, Rejectable, CallerPosted
  <1> HIDE DEF StoreTypeOK, Terminal, Live, Status
  <1> QED
    BY <1>1, <1>2, <1>3, <1>4, <1>5, <1>6, <1>7, <1>8, <1>9 DEF StoreNext, StoreStep

\* Every stale caller is safe: the rows of the turns table only move forward.
THEOREM StoreIsMonotone == StoreSpec => RowsAreMonotone
  <1>1. StoreInv /\ [StoreNext]_storeVars => [AllRowsAreMonotone]_storeVars
    BY StepIsMonotone
  <1> QED
    BY <1>1, StoreInvariant, PTL DEF StoreSpec, RowsAreMonotone

-----------------------------------------------------------------------------
(* The chat service.                                                        *)

\* A leading thread knows of its turn what it established, whatever other
\* threads and processes did to the turn since.
LeaderKnows(v, r) ==
  /\ leader[v][r] = "promote" => Present(r)
  /\ leader[v][r] = "begin" =>
       /\ status[r] \notin {"absent", "waiting"}
       /\ firstAt[r] = NULL => status[r] = "awaiting_dispatch"
  /\ leader[v][r] \in {"grant", "post", "answer"} => firstAt[r] # NULL
  /\ leader[v][r] = "answer" =>
       /\ ownPost[v][r] \in Run
       /\ post[ownPost[v][r]] # "unused"
       /\ postFor[ownPost[v][r]] = r

LeaderInv == \A v \in Service, r \in Request : LeaderKnows(v, r)

\* What a POST, an answer and the ledger say of runs agrees.
WireInv ==
  /\ \A p \in Run :
       /\ post[p] # "unused" => postFor[p] \in Request /\ firstAt[postFor[p]] # NULL
       /\ Created(p) => post[p] # "unused"
       /\ post[p] = "accepted" =>
            answer[p] \in Run /\ Created(answer[p]) /\ postFor[answer[p]] = postFor[p]
  /\ \A r \in Request :
       ledger[r] # NULL => Created(ledger[r]) /\ postFor[ledger[r]] = r

\* The run a turn names was created for it.
NamedRunInv ==
  \A r \in Request : runId[r] # NULL => Created(runId[r]) /\ postFor[runId[r]] = r

\* What the observer read is of a turn that had a run.
WatchInv ==
  \A v \in Service :
    /\ watch[v] = "save" =>
         watched[v] \in Request /\ runId[watched[v]] # NULL /\ seen[v] \in Live \cup Terminal
    /\ watch[v] \in {"retry", "wait"} => watched[v] \in Request

HoldInv == hold => \A v \in Service, r \in Request : ~Admitted(v, r)

DispatchInv ==
  /\ StoreInv
  /\ HermesTypeOK
  /\ DispatchTypeOK
  /\ LeaderInv
  /\ WireInv
  /\ NamedRunInv
  /\ WatchInv
  /\ HoldInv

USE DEF storeVars, placeCols, deadlineCols, grantCols, hermesVars, wireVars, leaderVars, watchVars, worldVars

-----------------------------------------------------------------------------

LEMMA InitEstablishesDispatchInv == Init => DispatchInv
  <1> SUFFICES ASSUME Init PROVE DispatchInv
    OBVIOUS
  <1>1. StoreInv
    BY InitEstablishesStoreInv DEF Init
  <1>2. HermesTypeOK
    BY DEF Init, HermesInit, HermesTypeOK, Phase, Live
  <1>3. DispatchTypeOK
    BY DispatchAssumption DEF Init, DispatchTypeOK, LeaderPc, WatchPc
  <1>4. LeaderInv /\ WatchInv /\ HoldInv
    BY DEF Init, LeaderInv, LeaderKnows, WatchInv, HoldInv, Admitted
  <1>5. WireInv /\ NamedRunInv
    BY DEF Init, StoreInit, HermesInit, WireInv, NamedRunInv, Created
  <1> QED
    BY <1>1, <1>2, <1>3, <1>4, <1>5 DEF DispatchInv

\* A transaction of the service is dated by the clock, and a deadline by the
\* one window.
CallsStore == StoreStep({clock}, {Window})

\* Every action of the service makes a transaction its contract allows, or
\* leaves the store alone.
LEMMA ServiceDatesItsCalls ==
  ASSUME DispatchInv, Next
  PROVE  CallsStore \/ UNCHANGED storeVars
  <1> USE DEF CallsStore, StoreStep, DispatchInv
  <1>1. ASSUME NEW v \in Service, NEW r \in Request, LeaderStep(v, r)
        PROVE  CallsStore \/ UNCHANGED storeVars
    <2>1. CASE EnterGate(v, r) \/ Find(v, r) \/ Abandon(v, r) \/ PostRun(v, r) \/ GiveUp(v, r)
      BY <2>1 DEF EnterGate, Find, Abandon, PostRun, GiveUp
    <2>2. CASE ReserveTurn(v, r)
      BY <2>2 DEF ReserveTurn
    <2>3. CASE Promote(v, r)
      BY <2>3 DEF Promote
    <2>4. CASE Begin(v, r)
      <3>1. clock \in Nat /\ Window \in Nat
        BY DispatchAssumption, HermesAssumption DEF DispatchTypeOK, Window
      <3>2. NeverAttempted(r) => CallerBegins(r)
        BY <2>4 DEF Begin, LeaderInv, LeaderKnows, NeverAttempted, CallerBegins, Active, Unfinished, Present, Terminal
      <3> QED
        BY <2>4, <3>1, <3>2 DEF Begin
    <2>5. CASE Grant(v, r)
      BY <2>5 DEF Grant
    <2>6. CASE TakeAcceptance(v, r)
      <3>1. ownPost[v][r] \in Run /\ CallerPosted(r)
        BY <2>6 DEF TakeAcceptance, LeaderInv, LeaderKnows, CallerPosted
      <3>2. answer[ownPost[v][r]] \in Run
        BY <2>6, <3>1 DEF TakeAcceptance, WireInv
      <3>3. answerState[ownPost[v][r]] \in Live
        BY <3>1 DEF HermesTypeOK
      <3> QED
        BY <2>6, <3>1, <3>2, <3>3 DEF TakeAcceptance
    <2>7. CASE TakeRefusal(v, r)
      BY <2>7 DEF TakeRefusal, LeaderInv, LeaderKnows, CallerPosted
    <2> QED
      BY <1>1, <2>1, <2>2, <2>3, <2>4, <2>5, <2>6, <2>7 DEF LeaderStep
  <1>2. ASSUME NEW v \in Service, WatchStep(v)
        PROVE  CallsStore \/ UNCHANGED storeVars
    <2>1. CASE ReadStatus(v) \/ PickNext(v) \/ RetryNext(v) \/ EndPoll(v) \/ Escape(v)
      BY <2>1 DEF ReadStatus, PickNext, RetryNext, EndPoll, Escape
    <2>2. CASE SaveStatus(v)
      <3>1. /\ watched[v] \in Request
            /\ runId[watched[v]] \in Run
            /\ seen[v] \in Live \cup Terminal
        BY <2>2 DEF SaveStatus, WatchInv, StoreInv, StoreTypeOK
      <3>2. Saved(seen[v]) \subseteq Live \cup Terminal
        BY <3>1 DEF Saved, Live, Terminal
      <3> QED
        BY <2>2, <3>1, <3>2 DEF SaveStatus
    <2> QED
      BY <1>2, <2>1, <2>2 DEF WatchStep
  <1>3. ASSUME NEW v \in Service, NEW r \in Request, Send(v, r) PROVE UNCHANGED storeVars
    BY <1>3 DEF Send
  <1>4. ASSUME NEW v \in Service, CrashService(v) PROVE UNCHANGED storeVars
    BY <1>4 DEF CrashService
  <1>5. ASSUME NEW r \in Request, Cancel(r) PROVE CallsStore
    BY <1>5 DEF Cancel
  <1>6. ASSUME NEW p \in Run, Callback(p) PROVE CallsStore
    <2>1. postFor[p] \in Request /\ clock \in Nat
      BY <1>6 DEF Callback, WireInv, DispatchTypeOK
    <2> QED
      BY <1>6, <2>1 DEF Callback
  <1>7. ASSUME GatewayStep \/ CrashGateway \/ Hold \/ Release \/ Tick PROVE UNCHANGED storeVars
    BY <1>7 DEF GatewayStep, CrashGateway, Hold, Release, Tick
  <1> HIDE DEF CallsStore, StoreStep, DispatchInv
  <1> QED
    BY <1>1, <1>2, <1>3, <1>4, <1>5, <1>6, <1>7 DEF Next

\* So it makes a transaction of the store.
LEMMA CallsAreTransactions ==
  ASSUME clock \in Nat, CallsStore
  PROVE  StoreNext
  <1>1. Window \in Nat
    BY DispatchAssumption, HermesAssumption DEF Window
  <1>2. PICK r \in Request :
             \/ Reserve(r)
             \/ PromoteWaiting(r)
             \/ CancelWaiting(r)
             \/ CallerBegins(r) /\ BeginDispatch(r, clock, Window)
             \/ MintGrant(r)
             \/ \E p \in Run : BindGrant(r, p, clock)
             \/ \E p \in Run, s \in Live : CallerPosted(r) /\ Attach(r, p, s)
             \/ \E p \in Run, s \in Live \cup Terminal : Observe(r, p, s)
             \/ CallerPosted(r) /\ RejectUnadmitted(r)
    BY DEF CallsStore, StoreStep
  <1> QED
    BY <1>1, <1>2 DEF StoreNext, StoreStep

\* Every action makes a transaction of the store, or leaves it alone.
LEMMA ServiceCallsStore ==
  ASSUME DispatchInv, Next
  PROVE  StoreNext \/ UNCHANGED storeVars
  <1>1. clock \in Nat
    BY DEF DispatchInv, DispatchTypeOK
  <1> QED
    BY <1>1, ServiceDatesItsCalls, CallsAreTransactions

\* What a transaction of another thread leaves true of a row.
RowMoves(r) ==
  /\ Present(r) => Present(r)'
  /\ firstAt[r] # NULL => firstAt'[r] # NULL
  /\ status[r] \notin {"absent", "waiting"} => status'[r] \notin {"absent", "waiting"}
  /\ status[r] = "awaiting_dispatch" /\ firstAt[r] = NULL => status'[r] = "awaiting_dispatch"
  /\ runId[r] # NULL => runId'[r] = runId[r]

AllRowsMove == \A r \in Request : RowMoves(r)

LEMMA StoreMoves ==
  ASSUME StoreInv, StoreNext \/ UNCHANGED storeVars
  PROVE  AllRowsMove
  <1> USE IdentityAssumption DEF StoreInv, StoreTypeOK, HistoryInv, AllRowsMove, RowMoves,
      Present, Unfinished, Terminal, Live, Status
  <1>1. ASSUME NEW r \in Request, Reserve(r) PROVE AllRowsMove
    BY <1>1 DEF Reserve
  <1>2. ASSUME NEW r \in Request, PromoteWaiting(r) PROVE AllRowsMove
    BY <1>2 DEF PromoteWaiting, Promotable
  <1>3. ASSUME NEW r \in Request, CancelWaiting(r) PROVE AllRowsMove
    BY <1>3 DEF CancelWaiting
  <1>4. ASSUME NEW r \in Request, NEW now \in Nat, NEW window \in Nat,
               CallerBegins(r), BeginDispatch(r, now, window) PROVE AllRowsMove
    BY <1>4 DEF BeginDispatch, NeverAttempted
  <1>5. ASSUME NEW r \in Request, MintGrant(r) PROVE AllRowsMove
    BY <1>5 DEF MintGrant
  <1>6. ASSUME NEW r \in Request, NEW p \in Run, NEW now \in Nat, BindGrant(r, p, now)
        PROVE AllRowsMove
    BY <1>6 DEF BindGrant, Bindable
  <1>7. ASSUME NEW r \in Request, NEW p \in Run, NEW s \in Live,
               CallerPosted(r), Attach(r, p, s) PROVE AllRowsMove
    BY <1>7 DEF Attach, Attachable, CallerPosted
  <1>8. ASSUME NEW r \in Request, NEW p \in Run, NEW s \in Live \cup Terminal,
               Observe(r, p, s) PROVE AllRowsMove
    BY <1>8 DEF Observe
  <1>9. ASSUME NEW r \in Request, CallerPosted(r), RejectUnadmitted(r) PROVE AllRowsMove
    BY <1>9 DEF RejectUnadmitted, Rejectable, CallerPosted
  <1>10. ASSUME UNCHANGED storeVars PROVE AllRowsMove
    BY <1>10
  <1> HIDE DEF StoreTypeOK, Terminal, Live, Status, AllRowsMove
  <1> QED
    BY <1>1, <1>2, <1>3, <1>4, <1>5, <1>6, <1>7, <1>8, <1>9, <1>10 DEF StoreNext, StoreStep

-----------------------------------------------------------------------------
(* The gateway.                                                            *)

\* What the service and the gateway do to POSTs, ledger and runs in one step.
HermesMove ==
  \/ \E p \in Run, r \in Request : firstAt[r] # NULL /\ \E t \in Nat : SendPost(p, r, t)
  \/ HandlerStep(clock)
  \/ RunStep(clock)
  \/ RestartGateway(clock)
  \/ UNCHANGED hermesVars

LEMMA NextMovesHermes ==
  ASSUME DispatchInv, Next
  PROVE  HermesMove
  <1> USE DEF HermesMove
  <1>1. ASSUME NEW v \in Service, NEW r \in Request, LeaderStep(v, r) PROVE HermesMove
    <2>1. CASE PostRun(v, r)
      <3>1. firstAt[r] # NULL /\ checkedAt[v][r] \in Nat
        BY <2>1 DEF PostRun, DispatchInv, LeaderInv, LeaderKnows, DispatchTypeOK
      <3> QED
        BY <2>1, <3>1 DEF PostRun
    <2>2. CASE ~PostRun(v, r)
      BY <1>1, <2>2 DEF LeaderStep, EnterGate, Find, Abandon, ReserveTurn, Promote, Begin, Grant,
         TakeAcceptance, TakeRefusal, GiveUp
    <2> QED
      BY <2>1, <2>2
  <1>2. ASSUME NEW v \in Service, WatchStep(v) PROVE HermesMove
    BY <1>2 DEF WatchStep, ReadStatus, SaveStatus, PickNext, RetryNext, EndPoll, Escape
  <1>3. ASSUME NEW v \in Service, NEW r \in Request, Send(v, r) PROVE HermesMove
    BY <1>3 DEF Send
  <1>4. ASSUME NEW v \in Service, CrashService(v) PROVE HermesMove
    BY <1>4 DEF CrashService
  <1>5. ASSUME NEW r \in Request, Cancel(r) PROVE HermesMove
    BY <1>5 DEF Cancel
  <1>6. ASSUME NEW p \in Run, Callback(p) PROVE HermesMove
    BY <1>6 DEF Callback
  <1>7. ASSUME GatewayStep \/ CrashGateway \/ Hold \/ Release \/ Tick PROVE HermesMove
    BY <1>7 DEF GatewayStep, CrashGateway, Hold, Release, Tick
  <1> HIDE DEF HermesMove
  <1> QED
    BY <1>1, <1>2, <1>3, <1>4, <1>5, <1>6, <1>7 DEF Next

\* What a POST, an answer and the ledger say of runs stays in agreement.
HermesInv == HermesTypeOK /\ WireInv

LEMMA HermesMoveKeepsInv ==
  ASSUME DispatchInv, HermesMove, AllRowsMove
  PROVE  HermesInv'
  <1> USE IdentityAssumption DEF HermesInv, HermesTypeOK, WireInv, Created, Phase, Terminal, Live,
      AllRowsMove, RowMoves
  <1>0. HermesTypeOK /\ WireInv /\ clock \in Nat
    BY DEF DispatchInv, DispatchTypeOK
  <1>1. ASSUME NEW p \in Run, NEW r \in Request, firstAt[r] # NULL, NEW t \in Nat, SendPost(p, r, t)
        PROVE  HermesInv'
    BY <1>0, <1>1 DEF SendPost
  <1>2. ASSUME NEW p \in Run, LosePost(p) PROVE HermesInv'
    BY <1>0, <1>2 DEF LosePost
  <1>3. ASSUME NEW p \in Run, Lookup(p) PROVE HermesInv'
    BY <1>0, <1>3 DEF Lookup, Respond
  <1>4. ASSUME NEW p \in Run, RefuseAdmission(p) PROVE HermesInv'
    BY <1>0, <1>4 DEF RefuseAdmission
  <1>5. ASSUME NEW p \in Run, FailPost(p) PROVE HermesInv'
    BY <1>0, <1>5 DEF FailPost
  <1>6. ASSUME NEW p \in Run, AdmitRun(p, clock) PROVE HermesInv'
    <2> DEFINE r == postFor[p]
    <2>1. r \in Request /\ post[p] = "fresh" /\ firstAt[r] # NULL
      BY <1>0, <1>6 DEF AdmitRun
    <2>2. CASE ledger[r] # NULL
      BY <1>0, <1>6, <2>1, <2>2 DEF AdmitRun, Respond
    <2>3. CASE ledger[r] = NULL
      <3>1. PICK s \in {"queued", "failed"} : run' = [run EXCEPT ![p] = s]
        BY <1>6, <2>3 DEF AdmitRun
      <3>2. /\ post' = [post EXCEPT ![p] = "accepted"]
            /\ answer' = [answer EXCEPT ![p] = p]
            /\ answerState' = [answerState EXCEPT ![p] = "queued"]
            /\ ledger' = [ledger EXCEPT ![r] = p]
            /\ endedAt' = [endedAt EXCEPT ![p] = clock]
            /\ UNCHANGED <<postFor, postAt>>
        BY <1>6, <2>3 DEF AdmitRun
      <3> HIDE DEF r
      <3>3. HermesTypeOK'
        BY <1>0, <2>1, <3>1, <3>2
      <3>4. \A q \in Run : Created(q)' <=> Created(q) \/ q = p
        BY <1>0, <3>1
      <3>5. r = postFor[p]
        BY DEF r
      <3>6. WireInv'
        <4> HIDE DEF Created
        <4> QED
          BY <1>0, <2>1, <3>2, <3>3, <3>4, <3>5
      <3> QED
        BY <3>3, <3>6
    <2> QED
      BY <2>2, <2>3
  <1>7. ASSUME NEW p \in Run, NEW s \in RunStates, AdvanceRun(p, s, clock) PROVE HermesInv'
    BY <1>0, <1>7, HermesAssumption DEF AdvanceRun
  <1>8. ASSUME NEW r \in Request, PruneKey(r, clock) PROVE HermesInv'
    BY <1>0, <1>8 DEF PruneKey
  <1>9. ASSUME RestartGateway(clock) PROVE HermesInv'
    BY <1>0, <1>9 DEF RestartGateway, InFlight
  <1>10. ASSUME UNCHANGED hermesVars PROVE HermesInv'
    BY <1>0, <1>10
  <1> HIDE DEF HermesInv
  <1> QED
    BY <1>1, <1>2, <1>3, <1>4, <1>5, <1>6, <1>7, <1>8, <1>9, <1>10
       DEF HermesMove, HandlerStep, RunStep

\* A POST once sent, and a run once created, stay so.
PostsMove ==
  \A p \in Run :
    /\ post[p] # "unused" => post'[p] # "unused" /\ postFor'[p] = postFor[p]
    /\ Created(p) => Created(p)'

LEMMA PostsOnlyMove ==
  ASSUME DispatchInv, HermesMove
  PROVE  PostsMove
  <1> USE DEF PostsMove, HermesTypeOK, Created, Phase, Terminal, Live
  <1>0. HermesTypeOK /\ WireInv
    BY DEF DispatchInv
  <1>1. ASSUME NEW p \in Run, NEW r \in Request, NEW t \in Nat, SendPost(p, r, t) PROVE PostsMove
    BY <1>0, <1>1 DEF SendPost
  <1>2. ASSUME HandlerStep(clock) PROVE PostsMove
    BY <1>0, <1>2 DEF HandlerStep, LosePost, Lookup, Respond, RefuseAdmission, FailPost, AdmitRun
  <1>3. ASSUME RunStep(clock) PROVE PostsMove
    BY <1>0, <1>3, HermesAssumption DEF RunStep, AdvanceRun, PruneKey
  <1>4. ASSUME RestartGateway(clock) PROVE PostsMove
    BY <1>0, <1>4 DEF RestartGateway, InFlight
  <1>5. ASSUME UNCHANGED hermesVars PROVE PostsMove
    BY <1>5
  <1> HIDE DEF PostsMove
  <1> QED
    BY <1>1, <1>2, <1>3, <1>4, <1>5 DEF HermesMove

-----------------------------------------------------------------------------
(* The threads.                                                            *)

\* What a thread knows stays true while others move.
LEMMA UnmovedLeaderKnows ==
  ASSUME DispatchInv, AllRowsMove, PostsMove, NEW v \in Service, NEW r \in Request,
         leader'[v][r] = leader[v][r], ownPost'[v][r] = ownPost[v][r]
  PROVE  LeaderKnows(v, r)'
  <1>1. LeaderKnows(v, r) /\ RowMoves(r)
    BY DEF DispatchInv, LeaderInv, AllRowsMove
  <1>2. leader[v][r] = "answer" =>
          post'[ownPost[v][r]] # "unused" /\ postFor'[ownPost[v][r]] = r
    BY <1>1 DEF LeaderKnows, PostsMove
  <1>3. leader[v][r] = "begin" /\ firstAt'[r] = NULL => status'[r] = "awaiting_dispatch"
    BY <1>1 DEF LeaderKnows, RowMoves
  <1> QED
    BY <1>1, <1>2, <1>3 DEF LeaderKnows, RowMoves, Present

\* One step of a leading thread.
LEMMA LeaderStepKeepsLeaderInv ==
  ASSUME DispatchInv, AllRowsMove, PostsMove, NEW v \in Service, NEW r \in Request,
         LeaderStep(v, r)
  PROVE  LeaderInv'
  <1>0. leader \in [Service -> [Request -> LeaderPc]] /\ ownPost \in [Service -> [Request -> Run \cup {NULL}]]
    BY DEF DispatchInv, DispatchTypeOK
  <1>1. \A w \in Service, q \in Request : <<w, q>> # <<v, r>> =>
          leader'[w][q] = leader[w][q] /\ ownPost'[w][q] = ownPost[w][q]
    BY <1>0 DEF LeaderStep, EnterGate, Find, Abandon, ReserveTurn, Promote, Begin, Grant, PostRun,
       TakeAcceptance, TakeRefusal, GiveUp, Skip, Goto, Done
  <1>2. LeaderKnows(v, r)'
    <2> USE <1>0 DEF LeaderKnows, Skip, Goto, Done
    <2>1. CASE EnterGate(v, r) \/ Find(v, r) \/ Abandon(v, r) \/ TakeAcceptance(v, r)
               \/ TakeRefusal(v, r) \/ GiveUp(v, r)
      BY <2>1 DEF EnterGate, Find, Abandon, TakeAcceptance, TakeRefusal, GiveUp
    <2>2. CASE ReserveTurn(v, r)
      <3>1. Present(r)'
        BY <2>2 DEF ReserveTurn, Reserve, Present, DispatchInv, StoreInv, StoreTypeOK
      <3> QED
        BY <2>2, <3>1 DEF ReserveTurn
    <2>3. CASE Promote(v, r)
      <3>1. Present(r) /\ status[r] \in Status /\ HistoryInv
        BY <2>3 DEF Promote, LeaderInv, DispatchInv, StoreInv, StoreTypeOK
      <3>2. /\ status'[r] # "absent"
            /\ status'[r] \notin {"waiting"} \cup Terminal /\ firstAt'[r] = NULL
                 => status'[r] = "awaiting_dispatch"
        BY <2>3, <3>1 DEF Promote, PromoteWaiting, Present, HistoryInv, Status, Terminal, Live,
           DispatchInv, StoreInv, StoreTypeOK
      <3> QED
        BY <2>3, <3>2 DEF Promote, Terminal
    <2>4. CASE Begin(v, r)
      <3>1. WindowClosed(r) \/ firstAt'[r] # NULL
        BY <2>4, IdentityAssumption DEF Begin, BeginDispatch, NeverAttempted, DispatchInv, StoreInv,
           StoreTypeOK, HistoryInv, DispatchTypeOK
      <3> QED
        BY <2>4, <3>1 DEF Begin
    <2>5. CASE Grant(v, r)
      BY <2>5 DEF Grant, MintGrant, DispatchInv, LeaderInv
    <2>6. CASE PostRun(v, r)
      BY <2>6 DEF PostRun, SendPost, DispatchInv, LeaderInv, HermesTypeOK
    <2> QED
      BY <2>1, <2>2, <2>3, <2>4, <2>5, <2>6 DEF LeaderStep
  <1> SUFFICES ASSUME NEW w \in Service, NEW q \in Request PROVE LeaderKnows(w, q)'
    BY DEF LeaderInv
  <1>3. CASE <<w, q>> = <<v, r>>
    BY <1>2, <1>3
  <1>4. CASE <<w, q>> # <<v, r>>
    BY <1>1, <1>4, UnmovedLeaderKnows
  <1> QED
    BY <1>3, <1>4

LEMMA NextKeepsLeaderInv ==
  ASSUME DispatchInv, Next, AllRowsMove, PostsMove
  PROVE  LeaderInv'
  <1>0. leader \in [Service -> [Request -> LeaderPc]] /\ ownPost \in [Service -> [Request -> Run \cup {NULL}]]
    BY DEF DispatchInv, DispatchTypeOK
  <1>1. ASSUME \A v \in Service, r \in Request :
                 \/ leader'[v][r] = leader[v][r] /\ ownPost'[v][r] = ownPost[v][r]
                 \/ leader'[v][r] \in {"idle", "gate"}
        PROVE  LeaderInv'
    <2> SUFFICES ASSUME NEW v \in Service, NEW r \in Request PROVE LeaderKnows(v, r)'
      BY DEF LeaderInv
    <2>1. CASE leader'[v][r] = leader[v][r] /\ ownPost'[v][r] = ownPost[v][r]
      BY <2>1, UnmovedLeaderKnows
    <2>2. CASE leader'[v][r] \in {"idle", "gate"}
      BY <2>2 DEF LeaderKnows
    <2> QED
      BY <1>1, <2>1, <2>2
  <1>2. ASSUME NEW v \in Service, NEW r \in Request, LeaderStep(v, r) PROVE LeaderInv'
    BY <1>2, LeaderStepKeepsLeaderInv
  <1>3. ASSUME NEW v \in Service, NEW r \in Request, Send(v, r) PROVE LeaderInv'
    BY <1>0, <1>1, <1>3 DEF Send, Lead, Goto
  <1>4. ASSUME NEW v \in Service, RetryNext(v) PROVE LeaderInv'
    <2>1. watched[v] \in Request
      BY <1>4 DEF RetryNext, DispatchInv, WatchInv
    <2>2. CASE leader[v][watched[v]] = "idle"
      BY <1>0, <1>1, <1>4, <2>1, <2>2 DEF RetryNext, Lead, Goto
    <2>3. CASE leader[v][watched[v]] # "idle"
      BY <1>1, <1>4, <2>3 DEF RetryNext
    <2> QED
      BY <2>2, <2>3
  <1>5. ASSUME NEW v \in Service, CrashService(v) PROVE LeaderInv'
    BY <1>0, <1>1, <1>5 DEF CrashService
  <1>6. ASSUME UNCHANGED leaderVars PROVE LeaderInv'
    BY <1>1, <1>6
  <1>7. ASSUME NEW v \in Service, WatchStep(v), ~RetryNext(v), ~Escape(v) PROVE UNCHANGED leaderVars
    BY <1>7 DEF WatchStep, ReadStatus, SaveStatus, PickNext, EndPoll
  <1>11. ASSUME NEW v \in Service, Escape(v) PROVE LeaderInv'
    <2>1. watched[v] \in Request
      BY <1>11 DEF Escape, DispatchInv, WatchInv
    <2> QED
      BY <1>0, <1>1, <1>11, <2>1 DEF Escape, Skip, Goto
  <1>8. ASSUME NEW r \in Request, Cancel(r) PROVE UNCHANGED leaderVars
    BY <1>8 DEF Cancel
  <1>9. ASSUME NEW p \in Run, Callback(p) PROVE UNCHANGED leaderVars
    BY <1>9 DEF Callback
  <1>10. ASSUME GatewayStep \/ CrashGateway \/ Hold \/ Release \/ Tick PROVE UNCHANGED leaderVars
    BY <1>10 DEF GatewayStep, CrashGateway, Hold, Release, Tick
  <1> HIDE DEF LeaderInv, DispatchInv, leaderVars
  <1> QED
    BY <1>2, <1>3, <1>4, <1>5, <1>6, <1>7, <1>8, <1>9, <1>10, <1>11 DEF Next

\* What the observer read stays true of its turn.
LEMMA NextKeepsWatchInv ==
  ASSUME DispatchInv, Next, AllRowsMove
  PROVE  WatchInv'
  <1>0. watch \in [Service -> WatchPc] /\ watched \in [Service -> Request \cup {NULL}]
        /\ seen \in [Service -> Live \cup Terminal \cup {"none"}] /\ WatchInv
    BY DEF DispatchInv, DispatchTypeOK
  <1>1. \A r \in Request : runId[r] # NULL => runId'[r] # NULL
    BY DEF AllRowsMove, RowMoves
  <1>2. ASSUME UNCHANGED watchVars PROVE WatchInv'
    BY <1>0, <1>1, <1>2 DEF WatchInv
  <1>3. ASSUME NEW v \in Service, NEW pc \in {"idle", "next"}, Watching(v, pc, NULL, "none")
        PROVE  WatchInv'
    BY <1>0, <1>1, <1>3 DEF WatchInv, Watching
  <1>4. ASSUME NEW v \in Service, WatchStep(v) PROVE WatchInv'
    <2>1. CASE ReadStatus(v)
      <3>1. CASE WatchAt(v, "next", NULL, "none")
        BY <1>3, <3>1 DEF WatchAt
      <3>2. ASSUME NEW r \in Request, runId[r] # NULL, WatchAt(v, "save", r, run[runId[r]])
            PROVE  WatchInv'
        <4>1. runId[r] \in Run /\ run[runId[r]] \in Live \cup Terminal
          BY <3>2 DEF DispatchInv, StoreInv, StoreTypeOK, NamedRunInv, Created, HermesTypeOK
        <4> QED
          BY <1>0, <1>1, <3>2, <4>1 DEF WatchInv, WatchAt, Watching
      <3> QED
        BY <2>1, <3>1, <3>2 DEF ReadStatus
    <2>2. CASE SaveStatus(v)
      BY <1>3, <2>2 DEF SaveStatus, WatchAt
    <2>3. CASE PickNext(v)
      <3>1. CASE WatchAt(v, "idle", NULL, "none")
        BY <1>3, <3>1 DEF WatchAt
      <3>2. ASSUME NEW r \in Request, WatchAt(v, "retry", r, "none") PROVE WatchInv'
        BY <1>0, <1>1, <3>2 DEF WatchInv, WatchAt, Watching
      <3> QED
        BY <2>3, <3>1, <3>2 DEF PickNext
    <2>4. CASE RetryNext(v)
      BY <1>0, <1>1, <2>4 DEF RetryNext, WatchInv, WatchAt, Watching
    <2>5. CASE EndPoll(v)
      BY <1>3, <2>5 DEF EndPoll, WatchAt
    <2>6. CASE Escape(v)
      BY <1>3, <2>6 DEF Escape
    <2> QED
      BY <1>4, <2>1, <2>2, <2>3, <2>4, <2>5, <2>6 DEF WatchStep
  <1>5. ASSUME NEW v \in Service, CrashService(v) PROVE WatchInv'
    BY <1>3, <1>5 DEF CrashService
  <1>6. ASSUME NEW v \in Service, NEW r \in Request, Send(v, r) PROVE UNCHANGED watchVars
    BY <1>6 DEF Send
  <1>7. ASSUME NEW v \in Service, NEW r \in Request, LeaderStep(v, r) PROVE UNCHANGED watchVars
    BY <1>7 DEF LeaderStep, EnterGate, Find, Abandon, ReserveTurn, Promote, Begin, Grant, PostRun,
       TakeAcceptance, TakeRefusal, GiveUp
  <1>8. ASSUME NEW r \in Request, Cancel(r) PROVE UNCHANGED watchVars
    BY <1>8 DEF Cancel
  <1>9. ASSUME NEW p \in Run, Callback(p) PROVE UNCHANGED watchVars
    BY <1>9 DEF Callback
  <1>10. ASSUME GatewayStep \/ CrashGateway \/ Hold \/ Release \/ Tick PROVE UNCHANGED watchVars
    BY <1>10 DEF GatewayStep, CrashGateway, Hold, Release, Tick
  <1> HIDE DEF WatchInv, DispatchInv, watchVars
  <1> QED
    BY <1>2, <1>4, <1>5, <1>6, <1>7, <1>8, <1>9, <1>10 DEF Next

\* Only an acknowledgement and a callback name a run, and each names one that
\* the gateway created for the turn.
LEMMA NextKeepsNamedRunInv ==
  ASSUME DispatchInv, Next, PostsMove
  PROVE  NamedRunInv'
  <1>0. runId \in [Request -> Run \cup {NULL}] /\ NamedRunInv /\ WireInv
    BY DEF DispatchInv, StoreInv, StoreTypeOK
  <1>00. \A p \in Run : Created(p) => Created(p)' /\ postFor'[p] = postFor[p]
    BY <1>0 DEF PostsMove, WireInv
  <1>1. ASSUME NEW r \in Request, NEW p \in Run, Created(p), postFor[p] = r,
               runId' = [runId EXCEPT ![r] = p]
        PROVE  NamedRunInv'
    BY <1>0, <1>00, <1>1 DEF NamedRunInv
  <1>2. ASSUME UNCHANGED runId PROVE NamedRunInv'
    BY <1>0, <1>00, <1>2 DEF NamedRunInv
  <1>3. ASSUME NEW v \in Service, NEW r \in Request, TakeAcceptance(v, r) PROVE NamedRunInv'
    <2> DEFINE p == ownPost[v][r]
    <2>1. p \in Run /\ postFor[p] = r /\ post[p] = "accepted"
      BY <1>3 DEF TakeAcceptance, DispatchInv, LeaderInv, LeaderKnows
    <2>2. answer[p] \in Run /\ Created(answer[p]) /\ postFor[answer[p]] = r
      BY <1>0, <2>1 DEF WireInv
    <2>3. UNCHANGED runId \/ runId' = [runId EXCEPT ![r] = answer[p]]
      BY <1>3 DEF TakeAcceptance, Attach
    <2> QED
      BY <1>1, <1>2, <2>2, <2>3
  <1>4. ASSUME NEW p \in Run, Callback(p) PROVE NamedRunInv'
    <2>1. postFor[p] \in Request /\ Created(p)
      BY <1>0, <1>4 DEF Callback, WireInv
    <2> QED
      BY <1>1, <1>4, <2>1 DEF Callback, BindGrant
  <1>5. ASSUME NEW v \in Service, NEW r \in Request, LeaderStep(v, r), ~TakeAcceptance(v, r)
        PROVE  UNCHANGED runId
    BY <1>5 DEF LeaderStep, EnterGate, Find, Abandon, ReserveTurn, Reserve, Promote, PromoteWaiting,
       Begin, BeginDispatch, Grant, MintGrant, PostRun, TakeRefusal, RejectUnadmitted, GiveUp
  <1>6. ASSUME NEW v \in Service, WatchStep(v) PROVE UNCHANGED runId
    BY <1>6 DEF WatchStep, ReadStatus, SaveStatus, Observe, PickNext, RetryNext, EndPoll, Escape
  <1>7. ASSUME NEW v \in Service, NEW r \in Request, Send(v, r) PROVE UNCHANGED runId
    BY <1>7 DEF Send
  <1>8. ASSUME NEW v \in Service, CrashService(v) PROVE UNCHANGED runId
    BY <1>8 DEF CrashService
  <1>9. ASSUME NEW r \in Request, Cancel(r) PROVE UNCHANGED runId
    BY <1>9 DEF Cancel, CancelWaiting
  <1>10. ASSUME GatewayStep \/ CrashGateway \/ Hold \/ Release \/ Tick PROVE UNCHANGED runId
    BY <1>10 DEF GatewayStep, CrashGateway, Hold, Release, Tick
  <1> HIDE DEF NamedRunInv, DispatchInv
  <1> QED
    BY <1>2, <1>3, <1>4, <1>5, <1>6, <1>7, <1>8, <1>9, <1>10 DEF Next

\* While dispatch is held no thread passes the gate, and Hold waits for those
\* that did.
LEMMA NextKeepsHoldInv ==
  ASSUME DispatchInv, Next
  PROVE  HoldInv'
  <1>0. leader \in [Service -> [Request -> LeaderPc]] /\ HoldInv
    BY DEF DispatchInv, DispatchTypeOK
  <1>1. ASSUME UNCHANGED hold, UNCHANGED leader PROVE HoldInv'
    BY <1>0, <1>1 DEF HoldInv, Admitted
  <1>2. ASSUME UNCHANGED hold,
               \A v \in Service, r \in Request :
                 leader'[v][r] = leader[v][r] \/ leader'[v][r] \in {"idle", "gate"}
        PROVE  HoldInv'
    BY <1>0, <1>2 DEF HoldInv, Admitted
  <1>3. ASSUME NEW v \in Service, NEW r \in Request, LeaderStep(v, r) PROVE HoldInv'
    <2>1. CASE hold
      <3>1. leader[v][r] \in {"idle", "gate"}
        BY <1>0, <2>1 DEF HoldInv, Admitted
      <3>2. EnterGate(v, r) \/ Abandon(v, r)
        BY <1>3, <3>1 DEF LeaderStep, Find, ReserveTurn, Promote, Begin, Grant, PostRun,
           TakeAcceptance, TakeRefusal, GiveUp
      <3>3. UNCHANGED hold /\ leader' = [leader EXCEPT ![v][r] = "idle"]
        BY <2>1, <3>2 DEF EnterGate, Abandon, Skip, Goto
      <3> QED
        BY <1>0, <1>2, <3>3
    <2>2. CASE ~hold
      <3>1. UNCHANGED hold
        BY <1>3 DEF LeaderStep, EnterGate, Find, Abandon, ReserveTurn, Promote, Begin, Grant,
           PostRun, TakeAcceptance, TakeRefusal, GiveUp
      <3> QED
        BY <2>2, <3>1 DEF HoldInv
    <2> QED
      BY <2>1, <2>2
  <1>4. ASSUME NEW v \in Service, NEW r \in Request, Send(v, r) PROVE HoldInv'
    BY <1>0, <1>2, <1>4 DEF Send, Lead, Goto
  <1>5. ASSUME NEW v \in Service, RetryNext(v) PROVE HoldInv'
    <2>1. watched[v] \in Request
      BY <1>5 DEF RetryNext, DispatchInv, WatchInv
    <2> QED
      BY <1>0, <1>2, <1>5, <2>1 DEF RetryNext, Lead, Goto
  <1>6. ASSUME NEW v \in Service, WatchStep(v), ~RetryNext(v), ~Escape(v) PROVE HoldInv'
    BY <1>1, <1>6 DEF WatchStep, ReadStatus, SaveStatus, PickNext, EndPoll
  <1>12. ASSUME NEW v \in Service, Escape(v) PROVE HoldInv'
    <2>1. watched[v] \in Request
      BY <1>12 DEF Escape, DispatchInv, WatchInv
    <2> QED
      BY <1>0, <1>2, <1>12, <2>1 DEF Escape, Skip, Goto
  <1>7. ASSUME NEW v \in Service, CrashService(v) PROVE HoldInv'
    BY <1>0, <1>2, <1>7 DEF CrashService
  <1>8. ASSUME NEW r \in Request, Cancel(r) PROVE HoldInv'
    BY <1>1, <1>8 DEF Cancel
  <1>9. ASSUME NEW p \in Run, Callback(p) PROVE HoldInv'
    BY <1>1, <1>9 DEF Callback
  <1>10. ASSUME GatewayStep \/ CrashGateway \/ Tick PROVE HoldInv'
    BY <1>1, <1>10 DEF GatewayStep, CrashGateway, Tick
  <1>11. ASSUME Hold \/ Release PROVE HoldInv'
    BY <1>11 DEF Hold, Release, HoldInv, Admitted
  <1> HIDE DEF HoldInv, DispatchInv
  <1> QED
    BY <1>3, <1>4, <1>5, <1>6, <1>7, <1>8, <1>9, <1>10, <1>11, <1>12 DEF Next

\* The types of the service's own variables.
LeaderTypeOK ==
  /\ leader \in [Service -> [Request -> LeaderPc]]
  /\ origin \in [Service -> [Request -> {"owner", "observer"}]]
  /\ checkedAt \in [Service -> [Request -> Nat]]
  /\ ownPost \in [Service -> [Request -> Run \cup {NULL}]]

WatchTypeOK ==
  /\ watch \in [Service -> WatchPc]
  /\ watched \in [Service -> Request \cup {NULL}]
  /\ seen \in [Service -> Live \cup Terminal \cup {"none"}]
  /\ observing \in [Service -> BOOLEAN]

WorldTypeOK == hold \in BOOLEAN /\ clock \in Nat /\ crashes \in Nat

\* Setting one place of a table keeps its type.
LEMMA SetPlace ==
  ASSUME NEW S, NEW T, NEW X, NEW f \in [S -> [T -> X]], NEW s \in S, NEW t \in T, NEW x \in X
  PROVE  [f EXCEPT ![s][t] = x] \in [S -> [T -> X]]
  OBVIOUS

LEMMA NextKeepsLeaderTypes ==
  ASSUME DispatchInv, Next
  PROVE  LeaderTypeOK'
  <1>0. LeaderTypeOK /\ clock \in Nat
    BY DEF DispatchInv, DispatchTypeOK, LeaderTypeOK
  <1>1. ASSUME NEW v \in Service, NEW r \in Request, NEW pc \in LeaderPc,
               leader' = [leader EXCEPT ![v][r] = pc],
               \/ UNCHANGED origin
               \/ \E who \in {"owner", "observer"} : origin' = [origin EXCEPT ![v][r] = who],
               \/ UNCHANGED checkedAt
               \/ checkedAt' = [checkedAt EXCEPT ![v][r] = clock],
               \/ UNCHANGED ownPost
               \/ \E p \in Run \cup {NULL} : ownPost' = [ownPost EXCEPT ![v][r] = p]
        PROVE  LeaderTypeOK'
    <2>1. leader' \in [Service -> [Request -> LeaderPc]]
      BY <1>0, <1>1, SetPlace, Zenon DEF LeaderTypeOK
    <2>2. origin' \in [Service -> [Request -> {"owner", "observer"}]]
      <3>1. CASE UNCHANGED origin
        BY <1>0, <3>1 DEF LeaderTypeOK
      <3>2. ASSUME NEW who \in {"owner", "observer"}, origin' = [origin EXCEPT ![v][r] = who]
            PROVE  origin' \in [Service -> [Request -> {"owner", "observer"}]]
        BY <1>0, <3>2, SetPlace, Zenon DEF LeaderTypeOK
      <3> QED
        BY <1>1, <3>1, <3>2
    <2>3. checkedAt' \in [Service -> [Request -> Nat]]
      <3>1. CASE UNCHANGED checkedAt
        BY <1>0, <3>1 DEF LeaderTypeOK
      <3>2. CASE checkedAt' = [checkedAt EXCEPT ![v][r] = clock]
        BY <1>0, <3>2, SetPlace, Zenon DEF LeaderTypeOK
      <3> QED
        BY <1>1, <3>1, <3>2
    <2>4. ownPost' \in [Service -> [Request -> Run \cup {NULL}]]
      <3>1. CASE UNCHANGED ownPost
        BY <1>0, <3>1 DEF LeaderTypeOK
      <3>2. ASSUME NEW p \in Run \cup {NULL}, ownPost' = [ownPost EXCEPT ![v][r] = p]
            PROVE  ownPost' \in [Service -> [Request -> Run \cup {NULL}]]
        BY <1>0, <3>2, SetPlace, Zenon DEF LeaderTypeOK
      <3> QED
        BY <1>1, <3>1, <3>2
    <2> QED
      BY <2>1, <2>2, <2>3, <2>4 DEF LeaderTypeOK
  <1>2. ASSUME UNCHANGED leaderVars PROVE LeaderTypeOK'
    BY <1>0, <1>2 DEF LeaderTypeOK
  <1>3. ASSUME NEW v \in Service, NEW r \in Request, LeaderStep(v, r) PROVE LeaderTypeOK'
    <2>1. \E pc \in LeaderPc : leader' = [leader EXCEPT ![v][r] = pc]
      BY <1>3 DEF LeaderStep, EnterGate, Find, Abandon, ReserveTurn, Promote, Begin, Grant, PostRun,
         TakeAcceptance, TakeRefusal, GiveUp, Skip, Goto, Done, LeaderPc
    <2>2. /\ UNCHANGED origin
          /\ UNCHANGED checkedAt \/ checkedAt' = [checkedAt EXCEPT ![v][r] = clock]
      BY <1>3 DEF LeaderStep, EnterGate, Find, Abandon, ReserveTurn, Promote, Begin, Grant, PostRun,
         TakeAcceptance, TakeRefusal, GiveUp, Skip, Done
    <2>3. \/ UNCHANGED ownPost
          \/ \E p \in Run \cup {NULL} : ownPost' = [ownPost EXCEPT ![v][r] = p]
      BY <1>3 DEF LeaderStep, EnterGate, Find, Abandon, ReserveTurn, Promote, Begin, Grant, PostRun,
         TakeAcceptance, TakeRefusal, GiveUp, Skip, Done
    <2> QED
      <3>1. PICK pc \in LeaderPc : leader' = [leader EXCEPT ![v][r] = pc]
        BY <2>1
      <3> QED
        BY <1>1, <2>2, <2>3, <3>1
  <1>4. ASSUME NEW v \in Service, NEW r \in Request, NEW who \in {"owner", "observer"},
               Lead(v, r, who)
        PROVE  LeaderTypeOK'
    BY <1>1, <1>4 DEF Lead, Goto, LeaderPc
  <1>5. ASSUME NEW v \in Service, WatchStep(v) PROVE LeaderTypeOK'
    <2>1. CASE RetryNext(v)
      <3>1. watched[v] \in Request
        BY <2>1 DEF RetryNext, DispatchInv, WatchInv
      <3> QED
        BY <1>2, <1>4, <2>1, <3>1 DEF RetryNext
    <2>2. CASE ~RetryNext(v) /\ ~Escape(v)
      BY <1>2, <1>5, <2>2 DEF WatchStep, ReadStatus, SaveStatus, PickNext, EndPoll
    <2>3. CASE Escape(v)
      <3>1. watched[v] \in Request
        BY <2>3 DEF Escape, DispatchInv, WatchInv
      <3>2. leader' = [leader EXCEPT ![v][watched[v]] = "idle"] /\ UNCHANGED <<origin, checkedAt, ownPost>>
        BY <2>3 DEF Escape, Skip, Goto
      <3>3. leader' \in [Service -> [Request -> LeaderPc]]
        BY <1>0, <3>1, <3>2, SetPlace DEF LeaderTypeOK, LeaderPc
      <3> QED
        BY <1>0, <3>2, <3>3 DEF LeaderTypeOK
    <2> QED
      BY <2>1, <2>2, <2>3
  <1>6. ASSUME NEW v \in Service, CrashService(v) PROVE LeaderTypeOK'
    BY <1>0, <1>6 DEF CrashService, LeaderTypeOK, LeaderPc
  <1>7. ASSUME NEW v \in Service, NEW r \in Request, Send(v, r) PROVE LeaderTypeOK'
    BY <1>4, <1>7 DEF Send
  <1>8. ASSUME NEW r \in Request, Cancel(r) PROVE UNCHANGED leaderVars
    BY <1>8 DEF Cancel
  <1>9. ASSUME NEW p \in Run, Callback(p) PROVE UNCHANGED leaderVars
    BY <1>9 DEF Callback
  <1>10. ASSUME GatewayStep \/ CrashGateway \/ Hold \/ Release \/ Tick PROVE UNCHANGED leaderVars
    BY <1>10 DEF GatewayStep, CrashGateway, Hold, Release, Tick
  <1> HIDE DEF LeaderTypeOK, DispatchInv, leaderVars
  <1> QED
    BY <1>2, <1>3, <1>5, <1>6, <1>7, <1>8, <1>9, <1>10 DEF Next

LEMMA NextKeepsWatchTypes ==
  ASSUME DispatchInv, Next
  PROVE  WatchTypeOK'
  <1>0. WatchTypeOK
    BY DEF DispatchInv, DispatchTypeOK, WatchTypeOK
  <1>1. ASSUME NEW v \in Service, NEW pc \in WatchPc, NEW r \in Request \cup {NULL},
               NEW s \in Live \cup Terminal \cup {"none"}, NEW on \in BOOLEAN, Watching(v, pc, r, s),
               UNCHANGED observing \/ observing' = [observing EXCEPT ![v] = on]
        PROVE  WatchTypeOK'
    BY <1>0, <1>1 DEF Watching, WatchTypeOK
  <1>2. ASSUME UNCHANGED watchVars PROVE WatchTypeOK'
    BY <1>0, <1>2 DEF WatchTypeOK
  <1>3. ASSUME NEW v \in Service, WatchStep(v) PROVE WatchTypeOK'
    <2>1. CASE ReadStatus(v)
      <3>1. \A r \in Request : runId[r] # NULL => run[runId[r]] \in Live \cup Terminal
        BY DEF DispatchInv, StoreInv, StoreTypeOK, NamedRunInv, Created, HermesTypeOK
      <3> QED
        BY <1>1, <2>1, <3>1 DEF ReadStatus, WatchPc, WatchAt
    <2>2. CASE SaveStatus(v) \/ PickNext(v) \/ EndPoll(v)
      BY <1>1, <2>2 DEF SaveStatus, PickNext, EndPoll, WatchPc, WatchAt
    <2>3. CASE RetryNext(v)
      BY <1>0, <1>1, <2>3 DEF RetryNext, WatchPc, WatchTypeOK, WatchAt
    <2>4. CASE Escape(v)
      <3>1. PICK on \in {observing[v], FALSE} : observing' = [observing EXCEPT ![v] = on]
        BY <2>4 DEF Escape
      <3>2. on \in BOOLEAN
        BY <1>0, <3>1 DEF WatchTypeOK
      <3> QED
        BY <1>1, <2>4, <3>1, <3>2 DEF Escape, WatchPc
    <2> QED
      BY <1>3, <2>1, <2>2, <2>3, <2>4 DEF WatchStep
  <1>4. ASSUME NEW v \in Service, CrashService(v) PROVE WatchTypeOK'
    BY <1>1, <1>4 DEF CrashService, WatchPc
  <1>5. ASSUME NEW v \in Service, NEW r \in Request, Send(v, r) PROVE UNCHANGED watchVars
    BY <1>5 DEF Send
  <1>6. ASSUME NEW v \in Service, NEW r \in Request, LeaderStep(v, r) PROVE UNCHANGED watchVars
    BY <1>6 DEF LeaderStep, EnterGate, Find, Abandon, ReserveTurn, Promote, Begin, Grant, PostRun,
       TakeAcceptance, TakeRefusal, GiveUp
  <1>7. ASSUME NEW r \in Request, Cancel(r) PROVE UNCHANGED watchVars
    BY <1>7 DEF Cancel
  <1>8. ASSUME NEW p \in Run, Callback(p) PROVE UNCHANGED watchVars
    BY <1>8 DEF Callback
  <1>9. ASSUME GatewayStep \/ CrashGateway \/ Hold \/ Release \/ Tick PROVE UNCHANGED watchVars
    BY <1>9 DEF GatewayStep, CrashGateway, Hold, Release, Tick
  <1> HIDE DEF WatchTypeOK, DispatchInv, watchVars
  <1> QED
    BY <1>2, <1>3, <1>4, <1>5, <1>6, <1>7, <1>8, <1>9 DEF Next

LEMMA NextKeepsWorldTypes ==
  ASSUME DispatchInv, Next
  PROVE  WorldTypeOK'
  <1>0. WorldTypeOK
    BY DEF DispatchInv, DispatchTypeOK, WorldTypeOK
  <1>1. ASSUME UNCHANGED worldVars PROVE WorldTypeOK'
    BY <1>0, <1>1 DEF WorldTypeOK
  <1>2. ASSUME NEW v \in Service, NEW r \in Request, Send(v, r) PROVE UNCHANGED worldVars
    BY <1>2 DEF Send
  <1>3. ASSUME NEW v \in Service, NEW r \in Request, LeaderStep(v, r) PROVE UNCHANGED worldVars
    BY <1>3 DEF LeaderStep, EnterGate, Find, Abandon, ReserveTurn, Promote, Begin, Grant, PostRun,
       TakeAcceptance, TakeRefusal, GiveUp
  <1>4. ASSUME NEW v \in Service, WatchStep(v) PROVE UNCHANGED worldVars
    BY <1>4 DEF WatchStep, ReadStatus, SaveStatus, PickNext, RetryNext, EndPoll, Escape
  <1>5. ASSUME NEW r \in Request, Cancel(r) PROVE UNCHANGED worldVars
    BY <1>5 DEF Cancel
  <1>6. ASSUME NEW p \in Run, Callback(p) PROVE UNCHANGED worldVars
    BY <1>6 DEF Callback
  <1>7. ASSUME GatewayStep PROVE UNCHANGED worldVars
    BY <1>7 DEF GatewayStep
  <1>8. ASSUME CrashGateway \/ \E v \in Service : CrashService(v) PROVE WorldTypeOK'
    BY <1>0, <1>8 DEF CrashGateway, CrashService, WorldTypeOK
  <1>9. ASSUME Hold \/ Release \/ Tick PROVE WorldTypeOK'
    <2>1. CASE Hold \/ Release
      <3>1. hold' \in BOOLEAN /\ UNCHANGED <<clock, crashes>>
        BY <2>1, Zenon DEF Hold, Release
      <3> QED
        BY <1>0, <3>1 DEF WorldTypeOK
    <2>2. CASE Tick
      <3>1. UNCHANGED <<hold, crashes>> /\ clock' = clock + 1
        BY <2>2 DEF Tick
      <3>2. clock' \in Nat
        BY <1>0, <3>1 DEF WorldTypeOK
      <3> QED
        BY <1>0, <3>1, <3>2, Zenon DEF WorldTypeOK
    <2> QED
      BY <1>9, <2>1, <2>2
  <1> HIDE DEF WorldTypeOK, DispatchInv, worldVars
  <1> QED
    BY <1>1, <1>2, <1>3, <1>4, <1>5, <1>6, <1>7, <1>8, <1>9 DEF Next

LEMMA NextKeepsDispatchTypes ==
  ASSUME DispatchInv, Next
  PROVE  DispatchTypeOK'
  BY NextKeepsLeaderTypes, NextKeepsWatchTypes, NextKeepsWorldTypes
     DEF LeaderTypeOK, WatchTypeOK, WorldTypeOK, DispatchTypeOK

-----------------------------------------------------------------------------

LEMMA NextKeepsDispatchInv ==
  ASSUME DispatchInv, Next
  PROVE  DispatchInv'
  <1>1. StoreNext \/ UNCHANGED storeVars
    BY ServiceCallsStore
  <1>2. StoreInv /\ StoreInv'
    <2> HIDE DEF storeVars
    <2> QED
      BY <1>1, StepKeepsStoreInv DEF DispatchInv
  <1>3. AllRowsMove
    BY <1>1, <1>2, StoreMoves
  <1>4. HermesMove
    BY NextMovesHermes
  <1>5. PostsMove
    BY <1>4, PostsOnlyMove
  <1>6. HermesTypeOK' /\ WireInv'
    BY <1>3, <1>4, HermesMoveKeepsInv DEF HermesInv
  <1> QED
    BY <1>2, <1>3, <1>5, <1>6, NextKeepsLeaderInv, NextKeepsWatchInv, NextKeepsNamedRunInv,
       NextKeepsHoldInv, NextKeepsDispatchTypes DEF DispatchInv

LEMMA StutterKeepsDispatchInv ==
  ASSUME DispatchInv, UNCHANGED vars
  PROVE  DispatchInv'
  <1> USE DEF vars
  <1>1. StoreInv'
    BY StepKeepsStoreInv DEF DispatchInv
  <1>2. HermesTypeOK' /\ WireInv'
    BY DEF DispatchInv, HermesTypeOK, WireInv, Created
  <1>3. DispatchTypeOK' /\ HoldInv' /\ WatchInv' /\ NamedRunInv'
    BY DEF DispatchInv, DispatchTypeOK, HoldInv, WatchInv, NamedRunInv, Admitted, Created
  <1>4. LeaderInv'
    BY DEF DispatchInv, LeaderInv, LeaderKnows, Present
  <1> QED
    BY <1>1, <1>2, <1>3, <1>4 DEF DispatchInv

\* The inductive invariant of service, store and gateway together.
THEOREM DispatchInvariant == Spec => []DispatchInv
  <1>1. Init => DispatchInv
    BY InitEstablishesDispatchInv
  <1>2. DispatchInv /\ [Next]_vars => DispatchInv'
    BY NextKeepsDispatchInv, StutterKeepsDispatchInv
  <1> QED
    BY <1>1, <1>2, PTL DEF Spec

\* Every column and every variable of service and gateway keeps its type.
THEOREM DispatchTypeCorrect == Spec => []TypeOK
  <1>1. DispatchInv => TypeOK
    BY DEF DispatchInv, TypeOK, StoreInv
  <1> QED
    BY <1>1, DispatchInvariant, PTL

\* chat/service.py calls chat/store.py only as the store's contract allows.
THEOREM ServiceImplementsStore == Spec => StoreSpec
  <1>1. Init => StoreInit
    BY DEF Init
  <1>2. DispatchInv /\ [Next]_vars => [StoreNext]_storeVars
    <2> SUFFICES ASSUME DispatchInv, [Next]_vars PROVE StoreNext \/ UNCHANGED storeVars
      OBVIOUS
    <2>1. CASE Next
      BY <2>1, ServiceCallsStore
    <2>2. CASE UNCHANGED vars
      BY <2>2 DEF vars
    <2> QED
      BY <2>1, <2>2
  <1> QED
    BY <1>1, <1>2, DispatchInvariant, PTL DEF Spec, StoreSpec

\* Nothing but the tick moves the clock, and it stops at its bound.
ClockInv == clock \in 0..MaxClock

LEMMA NextKeepsClockInv ==
  ASSUME ClockInv, Next
  PROVE  ClockInv'
  <1> USE DEF ClockInv
  <1>1. CASE Tick
    BY <1>1, DispatchAssumption DEF Tick
  <1>2. ASSUME NEW v \in Service, NEW r \in Request, LeaderStep(v, r) PROVE clock' = clock
    BY <1>2 DEF LeaderStep, EnterGate, Find, Abandon, ReserveTurn, Promote, Begin, Grant, PostRun,
                TakeAcceptance, TakeRefusal, GiveUp, worldVars
  <1>3. ASSUME NEW v \in Service, WatchStep(v) PROVE clock' = clock
    BY <1>3 DEF WatchStep, ReadStatus, SaveStatus, PickNext, RetryNext, EndPoll, Escape, worldVars
  <1>4. ASSUME NEW v \in Service, NEW r \in Request, Send(v, r) \/ CrashService(v) PROVE clock' = clock
    BY <1>4 DEF Send, CrashService, worldVars
  <1>5. ASSUME NEW r \in Request, Cancel(r) PROVE clock' = clock
    BY <1>5 DEF Cancel, worldVars
  <1>6. ASSUME NEW p \in Run, Callback(p) PROVE clock' = clock
    BY <1>6 DEF Callback, worldVars
  <1>7. ASSUME GatewayStep \/ CrashGateway \/ Hold \/ Release PROVE clock' = clock
    BY <1>7 DEF GatewayStep, CrashGateway, Hold, Release, worldVars
  <1>8. ASSUME NEW v \in Service, CrashService(v) PROVE clock' = clock
    BY <1>8 DEF CrashService
  <1> QED
    BY <1>1, <1>2, <1>3, <1>4, <1>5, <1>6, <1>7, <1>8 DEF Next

\* The calls of the service, thread by thread, are those of the store's
\* contract: dated by the clock of this behaviour, and every deadline is its
\* one window (begin_dispatch as service.py calls it).
THEOREM ServiceImplementsItsStore == Spec => StoreImplemented
  <1>1. Init => StoreInit
    BY DEF Init
  <1>2. Init => ClockInv
    BY DispatchAssumption DEF Init, ClockInv
  <1>3. ClockInv /\ [Next]_vars => ClockInv'
    BY NextKeepsClockInv DEF ClockInv, vars, worldVars
  <1>4. DispatchInv /\ ClockInv /\ [Next]_vars => [StoreStep(0..MaxClock, {Window})]_storeVars
    <2> SUFFICES ASSUME DispatchInv, ClockInv, [Next]_vars
                 PROVE  StoreStep(0..MaxClock, {Window}) \/ UNCHANGED storeVars
      OBVIOUS
    <2>1. CASE Next
      <3>1. CallsStore \/ UNCHANGED storeVars
        BY <2>1, ServiceDatesItsCalls
      <3>2. CallsStore => StoreStep(0..MaxClock, {Window})
        BY DEF CallsStore, StoreStep, ClockInv
      <3> QED
        BY <3>1, <3>2
    <2>2. CASE UNCHANGED vars
      BY <2>2 DEF vars
    <2> QED
      BY <2>1, <2>2
  <1> QED
    BY <1>1, <1>2, <1>3, <1>4, DispatchInvariant, PTL DEF Spec, StoreImplemented

\* "One conversation, one active reply", of the service that really calls.
THEOREM ServiceKeepsOneActiveReply == Spec => []OneActiveReply
  BY ServiceImplementsStore, StoreKeepsOneActiveReply, PTL

\* Acknowledgements, replays and callbacks agree on the run of a turn.
THEOREM ServiceBindsOneRun == Spec => []GrantFollowsRun
  BY ServiceImplementsStore, StoreBindsOneRun, PTL

\* The run a turn names is one the gateway created for that very turn.
THEOREM TurnsNameTheirRuns == Spec => []TurnNamesItsRun
  <1>1. DispatchInv => TurnNamesItsRun
    BY DEF DispatchInv, NamedRunInv, TurnNamesItsRun, RunsOf, StoreInv, StoreTypeOK
  <1> QED
    BY <1>1, DispatchInvariant, PTL

\* While the operator's hold is in place no POST leaves any web process.
THEOREM HeldMeansSilent == Spec => NothingSentWhileHeld
  <1> DEFINE Silent == \A p \in Run : hold /\ post[p] = "unused" => post'[p] = "unused"
  <1>1. DispatchInv /\ [Next]_vars => [Silent]_vars
    <2> SUFFICES ASSUME DispatchInv, Next, hold, NEW p \in Run, post[p] = "unused"
                 PROVE  post'[p] = "unused"
      OBVIOUS
    <2>1. \A v \in Service, r \in Request : leader[v][r] \in {"idle", "gate"}
      BY DEF DispatchInv, HoldInv, Admitted
    <2>2. HermesTypeOK
      BY DEF DispatchInv
    <2>3. CASE GatewayStep \/ CrashGateway
      <3>1. CASE HandlerStep(clock)
        BY <2>2, <3>1 DEF HandlerStep, LosePost, Lookup, Respond, RefuseAdmission, FailPost, AdmitRun,
           HermesTypeOK
      <3>2. CASE RunStep(clock)
        BY <3>2 DEF RunStep, AdvanceRun, PruneKey
      <3>3. CASE RestartGateway(clock)
        BY <3>3 DEF RestartGateway, InFlight
      <3> QED
        BY <2>3, <3>1, <3>2, <3>3 DEF GatewayStep, CrashGateway
    <2>4. CASE UNCHANGED post
      BY <2>4
    <2>5. ASSUME NEW v \in Service, NEW r \in Request, LeaderStep(v, r) PROVE UNCHANGED post
      BY <2>1, <2>5 DEF LeaderStep, EnterGate, Find, Abandon, ReserveTurn, Promote, Begin, Grant,
         PostRun, TakeAcceptance, TakeRefusal, GiveUp
    <2>6. ASSUME NEW v \in Service, NEW r \in Request, Send(v, r) PROVE UNCHANGED post
      BY <2>6 DEF Send
    <2>7. ASSUME NEW v \in Service, WatchStep(v) \/ CrashService(v) PROVE UNCHANGED post
      BY <2>7 DEF WatchStep, ReadStatus, SaveStatus, PickNext, RetryNext, EndPoll, Escape, CrashService
    <2>8. ASSUME NEW r \in Request, Cancel(r) PROVE UNCHANGED post
      BY <2>8 DEF Cancel
    <2>9. ASSUME NEW q \in Run, Callback(q) PROVE UNCHANGED post
      BY <2>9 DEF Callback
    <2>10. CASE Hold \/ Release \/ Tick
      BY <2>10 DEF Hold, Release, Tick
    <2> HIDE DEF DispatchInv
    <2> QED
      BY <2>3, <2>4, <2>5, <2>6, <2>7, <2>8, <2>9, <2>10 DEF Next
  <1> QED
    BY <1>1, DispatchInvariant, PTL DEF Spec, NothingSentWhileHeld

=============================================================================
