-------------------------- MODULE ChatPromise_proofs --------------------------
(***************************************************************************)
(* What the owner is promised, for any number of web processes, messages,  *)
(* POSTs, crashes and retries: a turn has at most one run, ends with the   *)
(* outcome of that run, and chat and gateway together implement            *)
(* ReplyQueue.  At the bottom is the clock: the retry window is shorter    *)
(* than the gateway's retention of a dispatch key by more than a POST can  *)
(* be delayed, so a handler never reserves under a key that was forgotten. *)
(***************************************************************************)
EXTENDS ChatDispatch_proofs

\* A thread that passed the window check, and the POST it sends, are inside
\* the window, and late by at most Delivery.
CheckedInv ==
  \A v \in Service, r \in Request :
    leader[v][r] \in {"grant", "post"} =>
      /\ checkedAt[v][r] < firstAt[r] + Window
      /\ clock <= checkedAt[v][r] + Delivery

SentInv ==
  \A p \in Run :
    /\ post[p] # "unused" => postAt[p] < firstAt[postFor[p]] + Window
    /\ post[p] \in InFlight => clock <= postAt[p] + Delivery

\* A run begins, and so ends, after its turn was begun; the ledger forgets its
\* key only when every POST of the turn has been dealt with.
KeyInv ==
  \A p \in Run :
    Created(p) =>
      /\ firstAt[postFor[p]] <= endedAt[p]
      /\ \/ ledger[postFor[p]] = p
         \/ ledger[postFor[p]] = NULL /\ firstAt[postFor[p]] + Retention < clock

\* A token was minted before anything that carries it is sent.
TokenInv ==
  /\ \A v \in Service, r \in Documented : leader[v][r] \in {"post", "answer"} => granted[r]
  /\ \A p \in Run : post[p] # "unused" /\ postFor[p] \in Documented => granted[postFor[p]]

RetentionInv ==
  /\ \A r \in Request : firstAt[r] # NULL => firstAt[r] <= clock
  /\ CheckedInv
  /\ SentInv
  /\ KeyInv
  /\ OneRunPerTurn
  /\ TokenInv

USE DEF storeVars, placeCols, deadlineCols, grantCols, hermesVars, wireVars, leaderVars, watchVars, worldVars

-----------------------------------------------------------------------------

\* What the assumptions on the constants say of the window.
LEMMA WindowFits ==
  /\ Retention \in Nat /\ Delivery \in Nat
  /\ Window \in Nat /\ Window > 0
  /\ Window + Delivery <= Retention
  BY HermesAssumption, DispatchAssumption DEF Window

\* Only Begin sets a deadline, from the clock; only Tick moves the clock.
FirstAtMoves ==
  \A r \in Request :
    \/ firstAt'[r] = firstAt[r]
    \/ firstAt[r] = NULL /\ firstAt'[r] = clock

\* Every step moves deadlines that way.
LEMMA DeadlinesMove ==
  ASSUME DispatchInv, Next
  PROVE  FirstAtMoves
  <1>1. ASSUME UNCHANGED firstAt PROVE FirstAtMoves
    BY <1>1 DEF FirstAtMoves
  <1>2. ASSUME NEW v \in Service, NEW r \in Request, Begin(v, r) PROVE FirstAtMoves
    BY <1>1, <1>2 DEF Begin, BeginDispatch, NeverAttempted, FirstAtMoves, DispatchInv, StoreInv,
       StoreTypeOK
  <1>3. ASSUME NEW v \in Service, NEW r \in Request, LeaderStep(v, r), ~Begin(v, r)
        PROVE  UNCHANGED firstAt
    BY <1>3 DEF LeaderStep, EnterGate, Find, Abandon, ReserveTurn, Reserve, Promote, PromoteWaiting,
       Grant, MintGrant, PostRun, TakeAcceptance, Attach, TakeRefusal, RejectUnadmitted, GiveUp
  <1>4. ASSUME NEW v \in Service, WatchStep(v) PROVE UNCHANGED firstAt
    BY <1>4 DEF WatchStep, ReadStatus, SaveStatus, Observe, PickNext, RetryNext, EndPoll, Escape
  <1>5. ASSUME NEW v \in Service, NEW r \in Request, Send(v, r) PROVE UNCHANGED firstAt
    BY <1>5 DEF Send
  <1>6. ASSUME NEW v \in Service, CrashService(v) PROVE UNCHANGED firstAt
    BY <1>6 DEF CrashService
  <1>7. ASSUME NEW r \in Request, Cancel(r) PROVE UNCHANGED firstAt
    BY <1>7 DEF Cancel, CancelWaiting
  <1>8. ASSUME NEW p \in Run, Callback(p) PROVE UNCHANGED firstAt
    BY <1>8 DEF Callback, BindGrant
  <1>9. ASSUME GatewayStep \/ CrashGateway \/ Hold \/ Release \/ Tick PROVE UNCHANGED firstAt
    BY <1>9 DEF GatewayStep, CrashGateway, Hold, Release, Tick
  <1> HIDE DEF FirstAtMoves, DispatchInv
  <1> QED
    BY <1>1, <1>2, <1>3, <1>4, <1>5, <1>6, <1>7, <1>8, <1>9 DEF Next

\* Only the passing of time moves the clock.
LEMMA OnlyTickMovesClock ==
  ASSUME Next, ~Tick
  PROVE  UNCHANGED clock
  <1>1. ASSUME NEW v \in Service, NEW r \in Request, LeaderStep(v, r) PROVE UNCHANGED clock
    BY <1>1 DEF LeaderStep, EnterGate, Find, Abandon, ReserveTurn, Promote, Begin, Grant, PostRun,
       TakeAcceptance, TakeRefusal, GiveUp
  <1>2. ASSUME NEW v \in Service, NEW r \in Request, Send(v, r) PROVE UNCHANGED clock
    BY <1>2 DEF Send
  <1>3. ASSUME NEW v \in Service, WatchStep(v) \/ CrashService(v) PROVE UNCHANGED clock
    BY <1>3 DEF WatchStep, ReadStatus, SaveStatus, PickNext, RetryNext, EndPoll, Escape, CrashService
  <1>4. ASSUME NEW r \in Request, Cancel(r) PROVE UNCHANGED clock
    BY <1>4 DEF Cancel
  <1>5. ASSUME NEW p \in Run, Callback(p) PROVE UNCHANGED clock
    BY <1>5 DEF Callback
  <1>6. ASSUME GatewayStep \/ CrashGateway \/ Hold \/ Release PROVE UNCHANGED clock
    BY <1>6 DEF GatewayStep, CrashGateway, Hold, Release
  <1> QED
    BY <1>1, <1>2, <1>3, <1>4, <1>5, <1>6 DEF Next

-----------------------------------------------------------------------------

\* A thread between the check and the POST has not moved, or has just passed
\* the check, or has got its token.
LEMMA NextKeepsCheckedInv ==
  ASSUME DispatchInv, RetentionInv, Next, FirstAtMoves
  PROVE  CheckedInv'
  <1>0. /\ leader \in [Service -> [Request -> LeaderPc]]
        /\ checkedAt \in [Service -> [Request -> Nat]]
        /\ clock \in Nat
        /\ firstAt \in [Request -> Nat \cup {NULL}]
        /\ CheckedInv
        /\ HistoryInv
    BY DEF DispatchInv, DispatchTypeOK, RetentionInv, StoreInv, StoreTypeOK
  <1>1. \A v \in Service, r \in Request :
          leader[v][r] \in {"grant", "post"} => firstAt[r] # NULL /\ firstAt'[r] = firstAt[r]
    BY DEF DispatchInv, LeaderInv, LeaderKnows, FirstAtMoves
  <1>2. ASSUME UNCHANGED clock,
               \A v \in Service, r \in Request :
                 leader'[v][r] \in {"grant", "post"} =>
                   leader[v][r] \in {"grant", "post"} /\ checkedAt'[v][r] = checkedAt[v][r]
        PROVE  CheckedInv'
    BY <1>0, <1>1, <1>2 DEF CheckedInv
  <1>3. ASSUME NEW v \in Service, NEW r \in Request, Begin(v, r) PROVE CheckedInv'
    <2>1. CASE WindowClosed(r)
      BY <1>0, <1>2, <1>3, <2>1 DEF Begin, Skip, Goto
    <2>2. CASE ~WindowClosed(r)
      <3>1. /\ leader' = [leader EXCEPT ![v][r] = "grant"]
            /\ checkedAt' = [checkedAt EXCEPT ![v][r] = clock]
            /\ UNCHANGED clock
        BY <1>3, <2>2 DEF Begin, Goto
      <3>2. firstAt'[r] \in Nat /\ clock < firstAt'[r] + Window
        <4>1. CASE NeverAttempted(r)
          BY <1>0, <1>3, <2>2, <4>1, WindowFits DEF Begin, BeginDispatch
        <4>2. CASE ~NeverAttempted(r)
          <5>1. firstAt[r] \in Nat
            BY <1>0, <4>2 DEF NeverAttempted, HistoryInv
          <5>2. UNCHANGED firstAt
            BY <1>3, <2>2, <4>2 DEF Begin
          <5> QED
            BY <1>0, <2>2, <4>2, <5>1, <5>2, WindowFits DEF WindowClosed
        <4> QED
          BY <4>1, <4>2
      <3> SUFFICES ASSUME NEW w \in Service, NEW q \in Request, leader'[w][q] \in {"grant", "post"}
                   PROVE  checkedAt'[w][q] < firstAt'[q] + Window /\ clock' <= checkedAt'[w][q] + Delivery
        BY DEF CheckedInv
      <3>3. CASE w = v /\ q = r
        BY <1>0, <3>1, <3>2, <3>3, WindowFits
      <3>4. CASE ~(w = v /\ q = r)
        <4>1. leader'[w][q] = leader[w][q] /\ checkedAt'[w][q] = checkedAt[w][q]
          BY <1>0, <3>1, <3>4
        <4> QED
          BY <1>0, <1>1, <3>1, <4>1 DEF CheckedInv
      <3> QED
        BY <3>3, <3>4
    <2> QED
      BY <2>1, <2>2
  <1>4. ASSUME NEW v \in Service, NEW r \in Request, LeaderStep(v, r), ~Begin(v, r) PROVE CheckedInv'
    <2>1. UNCHANGED clock /\ UNCHANGED checkedAt
      BY <1>4 DEF LeaderStep, EnterGate, Find, Abandon, ReserveTurn, Promote, Grant, PostRun,
         TakeAcceptance, TakeRefusal, GiveUp, Skip, Done
    <2>2. \/ leader[v][r] = "grant"
          \/ \E pc \in LeaderPc \ {"grant", "post"} : leader' = [leader EXCEPT ![v][r] = pc]
      BY <1>4 DEF LeaderStep, EnterGate, Find, Abandon, ReserveTurn, Promote, Grant, PostRun,
         TakeAcceptance, TakeRefusal, GiveUp, Skip, Goto, Done, LeaderPc
    <2>3. \E pc \in LeaderPc : leader' = [leader EXCEPT ![v][r] = pc]
      BY <1>4 DEF LeaderStep, EnterGate, Find, Abandon, ReserveTurn, Promote, Grant, PostRun,
         TakeAcceptance, TakeRefusal, GiveUp, Skip, Goto, Done, LeaderPc
    <2>4. PICK pc \in LeaderPc : /\ leader' = [leader EXCEPT ![v][r] = pc]
                                 /\ leader[v][r] = "grant" \/ pc \notin {"grant", "post"}
      BY <2>2, <2>3
    <2>5. \A w \in Service, q \in Request :
            leader'[w][q] \in {"grant", "post"} => leader[w][q] \in {"grant", "post"}
      BY <1>0, <2>4
    <2> QED
      BY <1>2, <2>1, <2>5
  <1>5. ASSUME NEW v \in Service, NEW r \in Request, NEW who, Lead(v, r, who), UNCHANGED clock
        PROVE  CheckedInv'
    BY <1>0, <1>2, <1>5 DEF Lead, Goto
  <1>6. ASSUME UNCHANGED leaderVars, UNCHANGED clock PROVE CheckedInv'
    BY <1>2, <1>6
  <1>7. ASSUME NEW v \in Service, WatchStep(v) PROVE CheckedInv'
    <2>1. CASE RetryNext(v)
      <3>1. watched[v] \in Request
        BY <2>1 DEF RetryNext, DispatchInv, WatchInv
      <3> QED
        BY <1>5, <1>6, <2>1, <3>1 DEF RetryNext
    <2>2. CASE ~RetryNext(v) /\ ~Escape(v)
      BY <1>6, <1>7, <2>2 DEF WatchStep, ReadStatus, SaveStatus, PickNext, EndPoll
    <2>3. CASE Escape(v)
      <3>1. watched[v] \in Request
        BY <2>3 DEF Escape, DispatchInv, WatchInv
      <3> QED
        BY <1>0, <1>2, <2>3, <3>1 DEF Escape, Skip, Goto
    <2> QED
      BY <2>1, <2>2, <2>3
  <1>8. ASSUME NEW v \in Service, CrashService(v) PROVE CheckedInv'
    BY <1>0, <1>2, <1>8 DEF CrashService
  <1>9. ASSUME NEW v \in Service, NEW r \in Request, Send(v, r) PROVE CheckedInv'
    BY <1>5, <1>9 DEF Send
  <1>10. ASSUME NEW r \in Request, Cancel(r) PROVE CheckedInv'
    BY <1>6, <1>10 DEF Cancel
  <1>11. ASSUME NEW p \in Run, Callback(p) PROVE CheckedInv'
    BY <1>6, <1>11 DEF Callback
  <1>12. ASSUME GatewayStep \/ CrashGateway \/ Hold \/ Release PROVE CheckedInv'
    BY <1>6, <1>12 DEF GatewayStep, CrashGateway, Hold, Release
  <1>13. ASSUME Tick PROVE CheckedInv'
    BY <1>0, <1>1, <1>13, WindowFits DEF Tick, Overdue, CheckedInv
  <1> HIDE DEF CheckedInv, DispatchInv, RetentionInv, FirstAtMoves
  <1> QED
    BY <1>3, <1>4, <1>7, <1>8, <1>9, <1>10, <1>11, <1>12, <1>13 DEF Next

\* A POST goes out under the check its thread has made; a handler does not
\* outlive Delivery.
LEMMA NextKeepsSentInv ==
  ASSUME DispatchInv, RetentionInv, Next, FirstAtMoves
  PROVE  SentInv'
  <1>0. /\ HermesTypeOK
        /\ clock \in Nat
        /\ SentInv
    BY DEF DispatchInv, DispatchTypeOK, RetentionInv
  <1>1. \A p \in Run : post[p] # "unused" =>
          firstAt[postFor[p]] # NULL /\ firstAt'[postFor[p]] = firstAt[postFor[p]]
    BY DEF DispatchInv, WireInv, FirstAtMoves
  <1>2. ASSUME UNCHANGED <<clock, postFor, postAt>>,
               \A p \in Run : /\ post'[p] # "unused" => post[p] # "unused"
                              /\ post'[p] \in InFlight => post[p] \in InFlight
        PROVE  SentInv'
    BY <1>0, <1>1, <1>2 DEF SentInv
  <1>3. ASSUME NEW v \in Service, NEW r \in Request, PostRun(v, r) PROVE SentInv'
    <2>1. PICK p \in Run : SendPost(p, r, checkedAt[v][r])
      BY <1>3 DEF PostRun
    <2>2. /\ firstAt'[r] = firstAt[r]
          /\ checkedAt[v][r] < firstAt[r] + Window
          /\ clock <= checkedAt[v][r] + Delivery
          /\ UNCHANGED clock
      BY <1>3 DEF PostRun, RetentionInv, CheckedInv
    <2> SUFFICES ASSUME NEW q \in Run, post'[q] # "unused"
                 PROVE  /\ postAt'[q] < firstAt'[postFor'[q]] + Window
                        /\ post'[q] \in InFlight => clock' <= postAt'[q] + Delivery
      BY DEF SentInv, InFlight
    <2>3. CASE q = p
      BY <1>0, <2>1, <2>2, <2>3 DEF SendPost, HermesTypeOK
    <2>4. CASE q # p
      BY <1>0, <1>1, <2>1, <2>2, <2>4 DEF SendPost, HermesTypeOK, SentInv
    <2> QED
      BY <2>3, <2>4
  <1>4. ASSUME NEW v \in Service, NEW r \in Request, LeaderStep(v, r), ~PostRun(v, r)
        PROVE  UNCHANGED wireVars /\ UNCHANGED clock
    BY <1>4 DEF LeaderStep, EnterGate, Find, Abandon, ReserveTurn, Promote, Begin, Grant,
       TakeAcceptance, TakeRefusal, GiveUp
  <1>5. ASSUME UNCHANGED wireVars, UNCHANGED clock PROVE SentInv'
    BY <1>2, <1>5
  <1>6. ASSUME GatewayStep \/ CrashGateway PROVE SentInv'
    <2>1. UNCHANGED <<clock, postFor, postAt>>
      BY <1>6 DEF GatewayStep, CrashGateway, HandlerStep, RunStep, LosePost, Lookup, Respond,
         RefuseAdmission, FailPost, AdmitRun, AdvanceRun, PruneKey, RestartGateway
    <2>2. CASE HandlerStep(clock)
      BY <1>0, <1>2, <2>1, <2>2 DEF HandlerStep, LosePost, Lookup, Respond, RefuseAdmission,
         FailPost, AdmitRun, InFlight, HermesTypeOK
    <2>3. CASE RunStep(clock)
      BY <1>2, <2>1, <2>3 DEF RunStep, AdvanceRun, PruneKey
    <2>4. CASE RestartGateway(clock)
      BY <1>2, <2>1, <2>4 DEF RestartGateway, InFlight
    <2> QED
      BY <1>6, <2>2, <2>3, <2>4 DEF GatewayStep, CrashGateway
  <1>7. ASSUME Tick PROVE SentInv'
    BY <1>0, <1>1, <1>7, WindowFits DEF Tick, Overdue, SentInv, HermesTypeOK
  <1>8. ASSUME NEW v \in Service, NEW r \in Request, Send(v, r)
        PROVE  UNCHANGED wireVars /\ UNCHANGED clock
    BY <1>8 DEF Send
  <1>9. ASSUME NEW v \in Service, WatchStep(v) \/ CrashService(v)
        PROVE  UNCHANGED wireVars /\ UNCHANGED clock
    BY <1>9 DEF WatchStep, ReadStatus, SaveStatus, PickNext, RetryNext, EndPoll, Escape, CrashService
  <1>10. ASSUME NEW r \in Request, Cancel(r) PROVE UNCHANGED wireVars /\ UNCHANGED clock
    BY <1>10 DEF Cancel
  <1>11. ASSUME NEW p \in Run, Callback(p) PROVE UNCHANGED wireVars /\ UNCHANGED clock
    BY <1>11 DEF Callback
  <1>12. ASSUME Hold \/ Release PROVE UNCHANGED wireVars /\ UNCHANGED clock
    BY <1>12 DEF Hold, Release
  <1> HIDE DEF SentInv, DispatchInv, RetentionInv, FirstAtMoves, wireVars
  <1> QED
    BY <1>3, <1>4, <1>5, <1>6, <1>7, <1>8, <1>9, <1>10, <1>11, <1>12 DEF Next

-----------------------------------------------------------------------------

\* A handler that reserves finds that no run was ever created under its key:
\* the key cannot have been forgotten as long as the POST is in flight.
LEMMA ReserveIsFirst ==
  ASSUME DispatchInv, RetentionInv, NEW p \in Run, post[p] = "fresh", ledger[postFor[p]] = NULL
  PROVE  \A q \in Run : Created(q) => postFor[q] # postFor[p]
  <1> DEFINE r == postFor[p]
  <1>0. /\ WireInv /\ KeyInv /\ SentInv /\ HermesTypeOK
        /\ clock \in Nat
        /\ firstAt \in [Request -> Nat \cup {NULL}]
    BY DEF DispatchInv, DispatchTypeOK, RetentionInv, StoreInv, StoreTypeOK
  <1>1. r \in Request /\ firstAt[r] \in Nat
    BY <1>0 DEF WireInv
  <1>2. postAt[p] \in Nat /\ postAt[p] < firstAt[r] + Window /\ clock <= postAt[p] + Delivery
    BY <1>0 DEF SentInv, InFlight, HermesTypeOK
  <1>3. ~(firstAt[r] + Retention < clock)
    BY <1>0, <1>1, <1>2, WindowFits
  <1> QED
    BY <1>0, <1>3, IdentityAssumption DEF KeyInv

\* The steps of the gateway.  A handler that reserves finds the key taken, or
\* is in time to know that no run was ever created under it.
LEMMA NextKeepsKeyInv ==
  ASSUME DispatchInv, RetentionInv, HermesMove, FirstAtMoves, clock' \in Nat, clock <= clock'
  PROVE  KeyInv' /\ OneRunPerTurn'
  <1> DEFINE Goal == KeyInv' /\ OneRunPerTurn'
  <1>0. /\ HermesTypeOK /\ WireInv
        /\ clock \in Nat
        /\ firstAt \in [Request -> Nat \cup {NULL}]
        /\ KeyInv /\ OneRunPerTurn
    BY DEF DispatchInv, DispatchTypeOK, RetentionInv, StoreInv, StoreTypeOK
  <1>1. \A r \in Request : firstAt[r] # NULL =>
          firstAt[r] \in Nat /\ firstAt[r] <= clock /\ firstAt'[r] = firstAt[r]
    BY <1>0 DEF RetentionInv, FirstAtMoves
  <1>2. \A p \in Run : Created(p) =>
          post[p] # "unused" /\ postFor[p] \in Request /\ firstAt[postFor[p]] # NULL
    BY <1>0 DEF WireInv
  <1>3. ASSUME UNCHANGED ledger,
               \A p \in Run : Created(p)' =>
                 /\ Created(p) /\ postFor'[p] = postFor[p]
                 /\ endedAt'[p] \in {endedAt[p], clock}
        PROVE  Goal
    <2>1. KeyInv'
      <3> SUFFICES ASSUME NEW p \in Run, Created(p)'
                   PROVE  /\ firstAt'[postFor'[p]] <= endedAt'[p]
                          /\ \/ ledger'[postFor'[p]] = p
                             \/ ledger'[postFor'[p]] = NULL
                                /\ firstAt'[postFor'[p]] + Retention < clock'
        BY DEF KeyInv
      <3> DEFINE r == postFor[p]
      <3>1. Created(p) /\ postFor'[p] = r /\ endedAt'[p] \in {endedAt[p], clock}
        BY <1>3
      <3>2. r \in Request /\ firstAt[r] \in Nat /\ firstAt[r] <= clock /\ firstAt'[r] = firstAt[r]
        BY <1>1, <1>2, <3>1
      <3>3. firstAt[r] <= endedAt[p] /\ (ledger[r] = p \/ (ledger[r] = NULL /\ firstAt[r] + Retention < clock))
        BY <1>0, <3>1 DEF KeyInv
      <3>4. endedAt[p] \in Nat
        BY <1>0 DEF HermesTypeOK
      <3> HIDE DEF r
      <3> QED
        BY <1>0, <1>3, <3>1, <3>2, <3>3, <3>4, WindowFits
    <2>2. OneRunPerTurn'
      BY <1>0, <1>3 DEF OneRunPerTurn, RunsOf
    <2> QED
      BY <2>1, <2>2
  <1>4. ASSUME NEW p \in Run, NEW r \in Request, NEW t \in Nat, SendPost(p, r, t) PROVE Goal
    <2>1. UNCHANGED <<run, ledger, endedAt>> /\ post[p] = "unused"
      BY <1>4 DEF SendPost
    <2>2. \A q \in Run : q # p => postFor'[q] = postFor[q]
      BY <1>0, <1>4 DEF SendPost, HermesTypeOK
    <2>3. \A q \in Run : Created(q)' = Created(q)
      BY <2>1 DEF Created
    <2> QED
      BY <1>2, <1>3, <2>1, <2>2, <2>3
  <1>5. ASSUME NEW p \in Run, LosePost(p) \/ Lookup(p) \/ RefuseAdmission(p) \/ FailPost(p) PROVE Goal
    <2>1. UNCHANGED <<run, ledger, endedAt, postFor>>
      BY <1>5 DEF LosePost, Lookup, Respond, RefuseAdmission, FailPost
    <2> QED
      BY <1>3, <2>1 DEF Created
  <1>6. ASSUME NEW p \in Run, AdmitRun(p, clock) PROVE Goal
    <2> DEFINE r == postFor[p]
    <2>1. CASE ledger[r] # NULL
      <3>1. UNCHANGED <<run, ledger, endedAt, postFor>>
        BY <1>6, <2>1 DEF AdmitRun, Respond
      <3> QED
        BY <1>3, <3>1 DEF Created
    <2>2. CASE ledger[r] = NULL
      <3>1. /\ post[p] = "fresh"
            /\ ledger' = [ledger EXCEPT ![r] = p]
            /\ endedAt' = [endedAt EXCEPT ![p] = clock]
            /\ UNCHANGED postFor
            /\ \E s \in RunStates \cup {"queued", "failed"} : run' = [run EXCEPT ![p] = s]
        BY <1>6, <2>2 DEF AdmitRun
      <3>2. r \in Request /\ firstAt[r] \in Nat /\ firstAt[r] <= clock /\ firstAt'[r] = firstAt[r]
        BY <1>0, <1>1, <3>1 DEF WireInv
      <3>5. \A q \in Run : Created(q) => postFor[q] # r
        BY <2>2, <3>1, ReserveIsFirst
      <3>6. \A q \in Run : q # p => /\ Created(q)' = Created(q) /\ endedAt'[q] = endedAt[q]
        BY <1>0, <3>1 DEF HermesTypeOK, Created
      <3>7. \A q \in Request : q # r => ledger'[q] = ledger[q]
        BY <1>0, <3>1 DEF HermesTypeOK
      <3>8. ledger'[r] = p /\ endedAt'[p] = clock
        BY <1>0, <3>1, <3>2 DEF HermesTypeOK
      <3>9. KeyInv'
        <4> SUFFICES ASSUME NEW q \in Run, Created(q)'
                     PROVE  /\ firstAt'[postFor[q]] <= endedAt'[q]
                            /\ \/ ledger'[postFor[q]] = q
                               \/ ledger'[postFor[q]] = NULL
                                  /\ firstAt'[postFor[q]] + Retention < clock'
          BY <3>1 DEF KeyInv
        <4>1. CASE q = p
          BY <3>2, <3>8, <4>1
        <4>2. CASE q # p
          <5>1. Created(q) /\ postFor[q] # r /\ postFor[q] \in Request
            BY <1>2, <3>5, <3>6, <4>2
          <5>2. firstAt[postFor[q]] \in Nat /\ firstAt'[postFor[q]] = firstAt[postFor[q]]
            BY <1>1, <1>2, <5>1
          <5>3. /\ firstAt[postFor[q]] <= endedAt[q]
                /\ ledger[postFor[q]] = q \/ (ledger[postFor[q]] = NULL /\ firstAt[postFor[q]] + Retention < clock)
            BY <1>0, <5>1 DEF KeyInv
          <5> HIDE DEF r
          <5> QED
            BY <1>0, <3>6, <3>7, <4>2, <5>1, <5>2, <5>3, WindowFits
        <4> QED
          BY <4>1, <4>2
      <3>10. OneRunPerTurn'
        BY <1>0, <3>1, <3>5, <3>6 DEF OneRunPerTurn, RunsOf
      <3> QED
        BY <3>9, <3>10
    <2> QED
      BY <2>1, <2>2
  <1>7. ASSUME NEW p \in Run, NEW s \in RunStates, AdvanceRun(p, s, clock) PROVE Goal
    <2>1. UNCHANGED <<ledger, postFor>>
      BY <1>7 DEF AdvanceRun
    <2>2. \A q \in Run : Created(q)' => Created(q) /\ endedAt'[q] \in {endedAt[q], clock}
      BY <1>0, <1>7 DEF AdvanceRun, HermesTypeOK, Created, Live
    <2> QED
      BY <1>3, <2>1, <2>2
  <1>8. ASSUME NEW r \in Request, PruneKey(r, clock) PROVE Goal
    <2>1. UNCHANGED <<run, endedAt, postFor>>
      BY <1>8 DEF PruneKey
    <2>2. /\ ledger[r] # NULL
          /\ endedAt[ledger[r]] + Retention < clock
          /\ ledger' = [ledger EXCEPT ![r] = NULL]
      BY <1>8 DEF PruneKey
    <2>3. OneRunPerTurn'
      BY <1>0, <2>1 DEF OneRunPerTurn, RunsOf, Created
    <2>4. KeyInv'
      <3> SUFFICES ASSUME NEW p \in Run, Created(p)
                   PROVE  /\ firstAt'[postFor[p]] <= endedAt[p]
                          /\ \/ ledger'[postFor[p]] = p
                             \/ ledger'[postFor[p]] = NULL
                                /\ firstAt'[postFor[p]] + Retention < clock'
        BY <2>1 DEF KeyInv, Created
      <3>1. /\ postFor[p] \in Request
            /\ firstAt[postFor[p]] \in Nat /\ firstAt'[postFor[p]] = firstAt[postFor[p]]
            /\ endedAt[p] \in Nat
        BY <1>0, <1>1, <1>2 DEF HermesTypeOK
      <3>2. /\ firstAt[postFor[p]] <= endedAt[p]
            /\ ledger[postFor[p]] = p \/ (ledger[postFor[p]] = NULL /\ firstAt[postFor[p]] + Retention < clock)
        BY <1>0 DEF KeyInv
      <3>3. CASE postFor[p] = r
        BY <1>0, <2>2, <3>1, <3>2, <3>3, WindowFits DEF HermesTypeOK
      <3>4. CASE postFor[p] # r
        BY <1>0, <2>2, <3>1, <3>2, <3>4, WindowFits DEF HermesTypeOK
      <3> QED
        BY <3>3, <3>4
    <2> QED
      BY <2>3, <2>4
  <1>9. ASSUME RestartGateway(clock) PROVE Goal
    <2>1. UNCHANGED <<ledger, postFor>>
      BY <1>9 DEF RestartGateway
    <2>2. \A q \in Run : Created(q)' => Created(q) /\ endedAt'[q] \in {endedAt[q], clock}
      BY <1>0, <1>9 DEF RestartGateway, HermesTypeOK, Created, Live
    <2> QED
      BY <1>3, <2>1, <2>2
  <1>10. ASSUME UNCHANGED hermesVars PROVE Goal
    BY <1>3, <1>10 DEF Created
  <1> HIDE DEF Goal
  <1> QED
    BY <1>4, <1>5, <1>6, <1>7, <1>8, <1>9, <1>10 DEF HermesMove, HandlerStep, RunStep, Goal

-----------------------------------------------------------------------------

\* A token once minted stays; Grant mints it before the POST it guards.
LEMMA NextKeepsTokenInv ==
  ASSUME DispatchInv, RetentionInv, Next
  PROVE  TokenInv'
  <1>0. /\ leader \in [Service -> [Request -> LeaderPc]]
        /\ granted \in [Request -> BOOLEAN]
        /\ HermesTypeOK
        /\ Documented \subseteq Request
        /\ TokenInv
    BY DispatchAssumption DEF DispatchInv, DispatchTypeOK, RetentionInv, StoreInv, StoreTypeOK
  <1>1. \A r \in Request : granted[r] => granted'[r]
    <2>1. ASSUME NEW r \in Request, MintGrant(r) PROVE \A q \in Request : granted[q] => granted'[q]
      BY <1>0, <2>1, Zenon DEF MintGrant
    <2>2. ASSUME UNCHANGED granted PROVE \A q \in Request : granted[q] => granted'[q]
      BY <2>2
    <2>3. UNCHANGED granted \/ \E r \in Request : MintGrant(r)
      <3>1. ASSUME StoreNext PROVE UNCHANGED granted \/ \E r \in Request : MintGrant(r)
        BY <3>1 DEF StoreNext, StoreStep, Reserve, PromoteWaiting, CancelWaiting, BeginDispatch,
           BindGrant, Attach, Observe, RejectUnadmitted
      <3>2. StoreNext \/ UNCHANGED storeVars
        BY ServiceCallsStore
      <3> HIDE DEF StoreNext
      <3> QED
        BY <3>1, <3>2
    <2> QED
      BY <2>1, <2>2, <2>3
  <1> DEFINE Carries == \A p \in Run : post[p] # "unused" /\ postFor[p] \in Documented => granted[postFor[p]]
             Leads == \A v \in Service, r \in Documented : leader[v][r] \in {"post", "answer"} => granted[r]
  <1>2. Carries'
    <2>1. ASSUME \A p \in Run : post'[p] # "unused" => post[p] # "unused" /\ postFor'[p] = postFor[p]
          PROVE  Carries'
      BY <1>0, <1>1, <2>1 DEF TokenInv
    <2>2. ASSUME NEW v \in Service, NEW r \in Request, PostRun(v, r) PROVE Carries'
      <3>1. PICK p \in Run : SendPost(p, r, checkedAt[v][r])
        BY <2>2 DEF PostRun
      <3>2. r \in Documented => granted[r]
        BY <1>0, <2>2 DEF PostRun, TokenInv
      <3>3. \A q \in Run : q # p => post'[q] = post[q] /\ postFor'[q] = postFor[q]
        BY <1>0, <3>1 DEF SendPost, HermesTypeOK
      <3>4. postFor'[p] = r
        BY <1>0, <3>1 DEF SendPost, HermesTypeOK
      <3> QED
        BY <1>0, <1>1, <3>2, <3>3, <3>4 DEF TokenInv
    <2>3. ASSUME NEW v \in Service, NEW r \in Request, LeaderStep(v, r), ~PostRun(v, r)
          PROVE  UNCHANGED wireVars
      BY <2>3 DEF LeaderStep, EnterGate, Find, Abandon, ReserveTurn, Promote, Begin, Grant,
         TakeAcceptance, TakeRefusal, GiveUp
    <2>4. ASSUME UNCHANGED wireVars PROVE Carries'
      BY <2>1, <2>4
    <2>5. ASSUME HandlerStep(clock) PROVE Carries'
      BY <1>0, <2>1, <2>5 DEF HandlerStep, LosePost, Lookup, Respond, RefuseAdmission, FailPost,
         AdmitRun, HermesTypeOK
    <2>6. ASSUME RunStep(clock) \/ RestartGateway(clock) PROVE Carries'
      BY <2>1, <2>6 DEF RunStep, AdvanceRun, PruneKey, RestartGateway, InFlight
    <2>7. ASSUME NEW v \in Service, NEW r \in Request, Send(v, r) PROVE UNCHANGED wireVars
      BY <2>7 DEF Send
    <2>8. ASSUME NEW v \in Service, WatchStep(v) \/ CrashService(v) PROVE UNCHANGED wireVars
      BY <2>8 DEF WatchStep, ReadStatus, SaveStatus, PickNext, RetryNext, EndPoll, Escape, CrashService
    <2>9. ASSUME NEW r \in Request, Cancel(r) PROVE UNCHANGED wireVars
      BY <2>9 DEF Cancel
    <2>10. ASSUME NEW p \in Run, Callback(p) PROVE UNCHANGED wireVars
      BY <2>10 DEF Callback
    <2>11. ASSUME Hold \/ Release \/ Tick PROVE UNCHANGED wireVars
      BY <2>11 DEF Hold, Release, Tick
    <2>12. ASSUME GatewayStep \/ CrashGateway PROVE Carries'
      BY <2>5, <2>6, <2>12 DEF GatewayStep, CrashGateway
    <2> HIDE DEF Carries, DispatchInv, RetentionInv, wireVars
    <2> QED
      BY <2>2, <2>3, <2>4, <2>7, <2>8, <2>9, <2>10, <2>11, <2>12 DEF Next
  <1>3. Leads'
    <2>1. ASSUME \A v \in Service, r \in Request :
                   leader'[v][r] \in {"post", "answer"} => leader[v][r] \in {"post", "answer"}
          PROVE  Leads'
      BY <1>0, <1>1, <2>1 DEF TokenInv
    <2>2. ASSUME NEW v \in Service, NEW r \in Request, Grant(v, r) PROVE Leads'
      <3>1. CASE r \in Documented /\ ~granted[r] /\ ~Unfinished(r)
        BY <1>0, <2>1, <2>2, <3>1 DEF Grant, Skip, Goto
      <3>2. CASE r \notin Documented \/ granted[r]
        <4>1. leader' = [leader EXCEPT ![v][r] = "post"]
          BY <2>2, <3>2 DEF Grant, Skip, Goto
        <4>2. r \in Documented => granted[r]
          BY <3>2
        <4> QED
          BY <1>0, <1>1, <4>1, <4>2 DEF TokenInv
      <3>3. CASE r \in Documented /\ ~granted[r] /\ Unfinished(r)
        <4>1. leader' = [leader EXCEPT ![v][r] = "post"] /\ MintGrant(r)
          BY <2>2, <3>3 DEF Grant, Skip, Goto
        <4>2. granted'[r]
          BY <1>0, <4>1, Zenon DEF MintGrant
        <4> QED
          BY <1>0, <1>1, <4>1, <4>2 DEF TokenInv
      <3> QED
        BY <3>1, <3>2, <3>3
    <2>3. ASSUME NEW v \in Service, NEW r \in Request, LeaderStep(v, r), ~Grant(v, r) PROVE Leads'
      <3>1. \/ leader[v][r] = "post"
            \/ \E pc \in LeaderPc \ {"post", "answer"} : leader' = [leader EXCEPT ![v][r] = pc]
        BY <2>3 DEF LeaderStep, EnterGate, Find, Abandon, ReserveTurn, Promote, Begin, PostRun,
           TakeAcceptance, TakeRefusal, GiveUp, Skip, Goto, Done, LeaderPc
      <3>2. \E pc \in LeaderPc : leader' = [leader EXCEPT ![v][r] = pc]
        BY <2>3 DEF LeaderStep, EnterGate, Find, Abandon, ReserveTurn, Promote, Begin, PostRun,
           TakeAcceptance, TakeRefusal, GiveUp, Skip, Goto, Done, LeaderPc
      <3>3. PICK pc \in LeaderPc : /\ leader' = [leader EXCEPT ![v][r] = pc]
                                   /\ leader[v][r] = "post" \/ pc \notin {"post", "answer"}
        BY <3>1, <3>2
      <3> QED
        BY <1>0, <2>1, <3>3
    <2>4. ASSUME UNCHANGED leader PROVE Leads'
      BY <2>1, <2>4
    <2>5. ASSUME NEW v \in Service, NEW r \in Request, NEW who, Lead(v, r, who) PROVE Leads'
      BY <1>0, <2>1, <2>5 DEF Lead, Goto
    <2>6. ASSUME NEW v \in Service, WatchStep(v) PROVE Leads'
      <3>1. CASE RetryNext(v)
        <4>1. watched[v] \in Request
          BY <3>1 DEF RetryNext, DispatchInv, WatchInv
        <4> QED
          BY <2>4, <2>5, <3>1, <4>1 DEF RetryNext
      <3>2. CASE ~RetryNext(v) /\ ~Escape(v)
        BY <2>4, <2>6, <3>2 DEF WatchStep, ReadStatus, SaveStatus, PickNext, EndPoll
      <3>3. CASE Escape(v)
        <4>1. watched[v] \in Request
          BY <3>3 DEF Escape, DispatchInv, WatchInv
        <4> QED
          BY <1>0, <2>1, <3>3, <4>1 DEF Escape, Skip, Goto
      <3> QED
        BY <3>1, <3>2, <3>3
    <2>7. ASSUME NEW v \in Service, CrashService(v) PROVE Leads'
      BY <1>0, <2>1, <2>7 DEF CrashService
    <2>8. ASSUME NEW v \in Service, NEW r \in Request, Send(v, r) PROVE Leads'
      BY <2>5, <2>8 DEF Send
    <2>9. ASSUME NEW r \in Request, Cancel(r) PROVE UNCHANGED leader
      BY <2>9 DEF Cancel
    <2>10. ASSUME NEW p \in Run, Callback(p) PROVE UNCHANGED leader
      BY <2>10 DEF Callback
    <2>11. ASSUME GatewayStep \/ CrashGateway \/ Hold \/ Release \/ Tick PROVE UNCHANGED leader
      BY <2>11 DEF GatewayStep, CrashGateway, Hold, Release, Tick
    <2> HIDE DEF Leads, DispatchInv, RetentionInv
    <2> QED
      BY <2>2, <2>3, <2>4, <2>6, <2>7, <2>8, <2>9, <2>10, <2>11 DEF Next
  <1> QED
    BY <1>2, <1>3 DEF TokenInv

-----------------------------------------------------------------------------

\* Nothing has been sent yet.
LEMMA InitEstablishesRetentionInv == Init => RetentionInv
  <1> SUFFICES ASSUME Init PROVE RetentionInv
    OBVIOUS
  <1>1. CheckedInv /\ TokenInv
    BY DispatchAssumption DEF Init, HermesInit, CheckedInv, TokenInv
  <1>2. SentInv /\ KeyInv /\ OneRunPerTurn
    BY DEF Init, HermesInit, SentInv, KeyInv, OneRunPerTurn, RunsOf, Created, InFlight
  <1> QED
    BY <1>1, <1>2 DEF Init, StoreInit, RetentionInv

\* Every step keeps the clock, the windows and the keys in order.
LEMMA NextKeepsRetentionInv ==
  ASSUME DispatchInv, RetentionInv, Next
  PROVE  RetentionInv'
  <1>1. FirstAtMoves
    BY DeadlinesMove
  <1>2. HermesMove
    BY NextMovesHermes
  <1>3. clock \in Nat /\ clock' \in Nat /\ clock <= clock'
    <2>1. clock \in Nat
      BY DEF DispatchInv, DispatchTypeOK
    <2>2. CASE Tick
      BY <2>1, <2>2 DEF Tick
    <2>3. CASE ~Tick
      BY <2>1, <2>3, OnlyTickMovesClock
    <2> QED
      BY <2>1, <2>2, <2>3
  <1>4. \A r \in Request : firstAt'[r] # NULL => firstAt'[r] <= clock'
    <2>1. /\ \A r \in Request : firstAt[r] # NULL => firstAt[r] <= clock
          /\ firstAt \in [Request -> Nat \cup {NULL}]
      BY DEF RetentionInv, DispatchInv, StoreInv, StoreTypeOK
    <2> QED
      BY <1>1, <1>3, <2>1 DEF FirstAtMoves
  <1>5. CheckedInv' /\ SentInv'
    BY <1>1, NextKeepsCheckedInv, NextKeepsSentInv
  <1>6. KeyInv' /\ OneRunPerTurn'
    BY <1>1, <1>2, <1>3, NextKeepsKeyInv
  <1>7. TokenInv'
    BY NextKeepsTokenInv
  <1> QED
    BY <1>4, <1>5, <1>6, <1>7 DEF RetentionInv

\* A stuttering step changes none of it.
LEMMA StutterKeepsRetentionInv ==
  ASSUME RetentionInv, UNCHANGED vars
  PROVE  RetentionInv'
  BY DEF vars, RetentionInv, CheckedInv, SentInv, KeyInv, OneRunPerTurn, RunsOf, TokenInv, Created

\* The inductive invariant of the clock, the windows and the dispatch keys.
THEOREM RetentionInvariant == Spec => []RetentionInv
  <1>1. Init => RetentionInv
    BY InitEstablishesRetentionInv
  <1>2. DispatchInv /\ RetentionInv /\ [Next]_vars => RetentionInv'
    BY NextKeepsRetentionInv, StutterKeepsRetentionInv
  <1> QED
    BY <1>1, <1>2, DispatchInvariant, PTL DEF Spec

\* The dispatch key, the retry window (chat/service.py, _check_retry_window)
\* and the gateway's retention give every turn at most one run.
THEOREM AtMostOneRunPerTurn == Spec => []OneRunPerTurn
  <1>1. RetentionInv => OneRunPerTurn
    BY DEF RetentionInv
  <1> QED
    BY <1>1, RetentionInvariant, PTL

\* No POST of a turn leaves outside its first window, from any thread.
THEOREM PostsStayInTheWindow == Spec => []SentInsideTheWindow
  <1>1. DispatchInv /\ RetentionInv => SentInsideTheWindow
    BY DEF DispatchInv, WireInv, RetentionInv, SentInv, SentInsideTheWindow
  <1> QED
    BY <1>1, DispatchInvariant, RetentionInvariant, PTL

\* No POST of a turn with documents leaves without its token.
THEOREM PostsCarryTokens == Spec => []PostsCarryTheGrant
  <1>1. RetentionInv => PostsCarryTheGrant
    BY DEF RetentionInv, TokenInv, PostsCarryTheGrant
  <1> QED
    BY <1>1, RetentionInvariant, PTL

-----------------------------------------------------------------------------
(* Outcomes.                                                               *)

\* A terminal state once read is the state of the run for good, so what the
\* observer saves later is true whatever happened since it read.
ReadInv ==
  \A v \in Service :
    watch[v] = "save" /\ seen[v] \in Terminal => run[runId[watched[v]]] = seen[v]

OutcomeInv == ReadInv /\ OutcomeIsTheRuns

-----------------------------------------------------------------------------
(* What a step does to the runs.                                           *)

\* A run that has ended stays as it is.
RunsStay == \A p \in Run : run[p] \in Terminal => run'[p] = run[p]

\* No step of the gateway touches a run that has ended.
LEMMA EndedRunsStay ==
  ASSUME DispatchInv, RetentionInv, HermesMove
  PROVE  RunsStay
  <1> USE DEF RunsStay
  <1>0. HermesTypeOK /\ WireInv
    BY DEF DispatchInv
  <1>1. ASSUME UNCHANGED run PROVE RunsStay
    BY <1>1
  <1>2. ASSUME NEW p \in Run, AdmitRun(p, clock) PROVE RunsStay
    <2>1. CASE ledger[postFor[p]] # NULL
      BY <1>1, <1>2, <2>1 DEF AdmitRun
    <2>2. CASE ledger[postFor[p]] = NULL
      <3>1. run[p] \notin Terminal
        BY <1>2, <2>2, ReserveIsFirst DEF AdmitRun, Created, Terminal
      <3> QED
        BY <1>0, <1>2, <2>2, <3>1 DEF AdmitRun, HermesTypeOK
    <2> QED
      BY <2>1, <2>2
  <1>3. ASSUME NEW p \in Run, LosePost(p) \/ Lookup(p) \/ RefuseAdmission(p) \/ FailPost(p)
        PROVE  UNCHANGED run
    BY <1>3 DEF LosePost, Lookup, RefuseAdmission, FailPost
  <1>4. ASSUME NEW p \in Run, NEW r \in Request, NEW t \in Nat, SendPost(p, r, t)
        PROVE  UNCHANGED run
    BY <1>4 DEF SendPost
  <1>5. ASSUME NEW p \in Run, NEW s \in RunStates, AdvanceRun(p, s, clock) PROVE RunsStay
    BY <1>0, <1>5 DEF AdvanceRun, HermesTypeOK, Live, Terminal
  <1>6. ASSUME NEW r \in Request, PruneKey(r, clock) PROVE UNCHANGED run
    BY <1>6 DEF PruneKey
  <1>7. ASSUME RestartGateway(clock) PROVE RunsStay
    BY <1>0, <1>7 DEF RestartGateway, HermesTypeOK, Live, Terminal
  <1>8. ASSUME UNCHANGED hermesVars PROVE UNCHANGED run
    BY <1>8
  <1> HIDE DEF RunsStay, DispatchInv, RetentionInv, hermesVars
  <1> QED
    BY <1>1, <1>2, <1>3, <1>4, <1>5, <1>6, <1>7, <1>8 DEF HermesMove, HandlerStep, RunStep

-----------------------------------------------------------------------------
(* A turn ends with the outcome of its run.                                *)

\* A turn that ends is withdrawn before it was begun, refused by the gateway
\* without a run, or settled by what an observer read of its run.
Settles(v, r) ==
  /\ watch[v] = "save" /\ watched[v] = r
  /\ status'[r] \in Saved(seen[v])
  /\ runId'[r] = runId[r] /\ runId[r] # NULL

TurnEnds(r) ==
  \/ status'[r] = status[r] /\ runId'[r] = runId[r] /\ firstAt'[r] = firstAt[r]
  \/ runId'[r] = NULL /\ (firstAt'[r] = NULL \/ \E p \in Run : post[p] = "refused")
  \/ \E v \in Service : Settles(v, r)

TurnsEnd == \A r \in Request : status'[r] \in Terminal => TurnEnds(r)

\* Every step ends turns in those three ways only.
LEMMA TurnsEndInThreeWays ==
  ASSUME DispatchInv, Next
  PROVE  TurnsEnd
  <1> USE DEF TurnsEnd
  <1>0. /\ status \in [Request -> Status] /\ runId \in [Request -> Run \cup {NULL}]
        /\ firstAt \in [Request -> Nat \cup {NULL}]
    BY DEF DispatchInv, StoreInv, StoreTypeOK
  <1>1. ASSUME UNCHANGED <<status, runId, firstAt>> PROVE TurnsEnd
    BY <1>1 DEF TurnEnds
  <1>2. ASSUME NEW r \in Request, NEW s \in Status, status' = [status EXCEPT ![r] = s],
               UNCHANGED runId, UNCHANGED firstAt, TurnEnds(r)
        PROVE  TurnsEnd
    <2>1. \A q \in Request : q # r => status'[q] = status[q]
      BY <1>0, <1>2
    <2> QED
      BY <1>2, <2>1 DEF TurnEnds
  <1>3. ASSUME NEW r \in Request, NEW p, NEW s \in Status \ Terminal,
               status' = [status EXCEPT ![r] = s], UNCHANGED firstAt,
               UNCHANGED runId \/ runId' = [runId EXCEPT ![r] = p]
        PROVE  TurnsEnd
    BY <1>0, <1>3 DEF TurnEnds
  <1>4. ASSUME NEW v \in Service, NEW r \in Request, LeaderStep(v, r) PROVE TurnsEnd
    <2>1. CASE ReserveTurn(v, r)
      BY <1>1, <1>3, <2>1 DEF ReserveTurn, Reserve, Status, Terminal
    <2>2. CASE Promote(v, r)
      BY <1>1, <1>3, <2>2 DEF Promote, PromoteWaiting, Status, Terminal
    <2>3. CASE TakeAcceptance(v, r)
      <3>1. ownPost[v][r] \in Run
        BY <2>3 DEF TakeAcceptance, DispatchInv, LeaderInv, LeaderKnows
      <3>2. answerState[ownPost[v][r]] \in Live
        BY <3>1 DEF DispatchInv, HermesTypeOK
      <3>3. Live \subseteq Status \ Terminal
        BY DEF Live, Status, Terminal
      <3> QED
        BY <1>1, <1>3, <2>3, <3>2, <3>3 DEF TakeAcceptance, Attach
    <2>4. CASE TakeRefusal(v, r)
      <3>1. ownPost[v][r] \in Run /\ post[ownPost[v][r]] = "refused"
        BY <2>4 DEF TakeRefusal, DispatchInv, LeaderInv, LeaderKnows
      <3>2. CASE ~Rejectable(r)
        BY <1>1, <2>4, <3>2 DEF TakeRefusal
      <3>3. CASE Rejectable(r)
        BY <1>2, <2>4, <3>1, <3>3 DEF TakeRefusal, RejectUnadmitted, Rejectable, TurnEnds, Status, Terminal
      <3> QED
        BY <3>2, <3>3
    <2>5. CASE Begin(v, r)
      <3>1. status[r] \notin Terminal \/ firstAt[r] # NULL
        BY <2>5 DEF Begin, DispatchInv, LeaderInv, LeaderKnows, Terminal
      <3>2. UNCHANGED <<status, runId>>
        BY <2>5 DEF Begin, BeginDispatch
      <3>3. \A q \in Request : status[q] \in Terminal => firstAt'[q] = firstAt[q]
        BY <1>0, <2>5, <3>1 DEF Begin, BeginDispatch, NeverAttempted
      <3> QED
        BY <3>2, <3>3 DEF TurnEnds
    <2>6. CASE EnterGate(v, r) \/ Find(v, r) \/ Abandon(v, r) \/ Grant(v, r)
               \/ PostRun(v, r) \/ GiveUp(v, r)
      BY <1>1, <2>6 DEF EnterGate, Find, Abandon, Grant, MintGrant, PostRun, GiveUp
    <2> QED
      BY <1>4, <2>1, <2>2, <2>3, <2>4, <2>5, <2>6 DEF LeaderStep
  <1>5. ASSUME NEW v \in Service, WatchStep(v) PROVE TurnsEnd
    <2>1. CASE SaveStatus(v)
      <3>1. /\ watch[v] = "save" /\ watched[v] \in Request /\ runId[watched[v]] # NULL
            /\ seen[v] \in Live \cup Terminal
        BY <2>1 DEF SaveStatus, DispatchInv, WatchInv
      <3>2. CASE UNCHANGED storeVars
        BY <1>1, <3>2
      <3>3. CASE ~UNCHANGED storeVars
        <4>1. PICK s \in Saved(seen[v]) :
                 status' = [status EXCEPT ![watched[v]] = s] /\ UNCHANGED <<runId, firstAt>>
          BY <2>1, <3>3 DEF SaveStatus, Observe
        <4>2. Settles(v, watched[v])
          BY <1>0, <3>1, <4>1 DEF Settles
        <4>3. s \in Status
          BY <3>1, <4>1 DEF Saved, Status, Terminal, Live
        <4> QED
          BY <1>2, <3>1, <4>1, <4>2, <4>3 DEF TurnEnds
      <3> QED
        BY <3>2, <3>3
    <2>2. CASE ~SaveStatus(v)
      BY <1>1, <1>5, <2>2 DEF WatchStep, ReadStatus, PickNext, RetryNext, EndPoll, Escape
    <2> QED
      BY <2>1, <2>2
  <1>6. ASSUME NEW v \in Service, NEW r \in Request, Send(v, r)
        PROVE  UNCHANGED <<status, runId, firstAt>>
    BY <1>6 DEF Send
  <1>7. ASSUME NEW v \in Service, CrashService(v) PROVE UNCHANGED <<status, runId, firstAt>>
    BY <1>7 DEF CrashService
  <1>8. ASSUME NEW r \in Request, Cancel(r) PROVE TurnsEnd
    BY <1>2, <1>8 DEF Cancel, CancelWaiting, TurnEnds, Status, Terminal
  <1>9. ASSUME NEW p \in Run, Callback(p) PROVE TurnsEnd
    <2> DEFINE r == postFor[p]
    <2>1. r \in Request
      BY <1>9 DEF Callback, DispatchInv, WireInv
    <2>2. PICK s : /\ status' = [status EXCEPT ![r] = s]
                   /\ s = "running" \/ s = status[r]
                   /\ runId' = [runId EXCEPT ![r] = p]
                   /\ UNCHANGED firstAt
                   /\ Unfinished(r)
      BY <1>9 DEF Callback, BindGrant, Bindable
    <2>3. s \in Status \ Terminal
      BY <1>0, <2>1, <2>2 DEF Unfinished, Status, Live, Terminal
    <2> HIDE DEF r
    <2> QED
      BY <1>3, <2>1, <2>2, <2>3
  <1>10. ASSUME GatewayStep \/ CrashGateway \/ Hold \/ Release \/ Tick
         PROVE  UNCHANGED <<status, runId, firstAt>>
    BY <1>10 DEF GatewayStep, CrashGateway, Hold, Release, Tick
  <1> HIDE DEF TurnsEnd, DispatchInv
  <1> QED
    BY <1>1, <1>4, <1>5, <1>6, <1>7, <1>8, <1>9, <1>10 DEF Next

\* What the observer knows it read from a run that had ended.
LEMMA NextKeepsReadInv ==
  ASSUME DispatchInv, Next, AllRowsMove, RunsStay, ReadInv
  PROVE  ReadInv'
  <1>0. /\ watch \in [Service -> WatchPc] /\ watched \in [Service -> Request \cup {NULL}]
        /\ seen \in [Service -> Live \cup Terminal \cup {"none"}]
        /\ runId \in [Request -> Run \cup {NULL}]
        /\ WatchInv /\ NamedRunInv
    BY DEF DispatchInv, DispatchTypeOK, StoreInv, StoreTypeOK
  <1>1. \A r \in Request :
          runId[r] # NULL =>
            /\ runId'[r] = runId[r]
            /\ run[runId[r]] \in Terminal => run'[runId[r]] = run[runId[r]]
    BY <1>0 DEF AllRowsMove, RowMoves, RunsStay
  <1>2. ASSUME \A v \in Service :
                 \/ watch'[v] = watch[v] /\ watched'[v] = watched[v] /\ seen'[v] = seen[v]
                 \/ watch'[v] # "save"
        PROVE  ReadInv'
    BY <1>0, <1>1, <1>2 DEF ReadInv, WatchInv
  <1>3. ASSUME UNCHANGED watchVars PROVE ReadInv'
    BY <1>2, <1>3
  <1>4. ASSUME NEW v \in Service, NEW pc \in WatchPc, NEW r, NEW s, Watching(v, pc, r, s), pc # "save"
        PROVE  ReadInv'
    BY <1>0, <1>2, <1>4 DEF Watching
  <1>5. ASSUME NEW v \in Service, WatchStep(v) PROVE ReadInv'
    <2>1. CASE ReadStatus(v)
      <3>1. CASE WatchAt(v, "next", NULL, "none")
        BY <1>4, <3>1 DEF WatchPc, WatchAt
      <3>2. CASE \E r \in Request : runId[r] # NULL /\ WatchAt(v, "save", r, run[runId[r]])
        <4>1. PICK r \in Request : runId[r] # NULL /\ WatchAt(v, "save", r, run[runId[r]])
          BY <3>2
        <4>2. UNCHANGED <<runId, run>>
          BY <2>1 DEF ReadStatus
        <4> SUFFICES ASSUME NEW w \in Service, watch'[w] = "save", seen'[w] \in Terminal
                     PROVE  run[runId[watched'[w]]] = seen'[w]
          BY <4>2 DEF ReadInv
        <4>3. CASE w = v
          BY <1>0, <4>1, <4>3 DEF WatchAt, Watching
        <4>4. CASE w # v
          BY <1>0, <4>1, <4>4 DEF WatchAt, Watching, ReadInv
        <4> QED
          BY <4>3, <4>4
      <3> QED
        BY <2>1, <3>1, <3>2 DEF ReadStatus
    <2>2. CASE ~ReadStatus(v)
      BY <1>4, <1>5, <2>2 DEF WatchStep, SaveStatus, PickNext, RetryNext, EndPoll, Escape, WatchPc, WatchAt
    <2> QED
      BY <2>1, <2>2
  <1>6. ASSUME NEW v \in Service, CrashService(v) PROVE ReadInv'
    BY <1>4, <1>6 DEF CrashService, WatchPc
  <1>7. ASSUME NEW v \in Service, NEW r \in Request, Send(v, r) \/ LeaderStep(v, r)
        PROVE  UNCHANGED watchVars
    BY <1>7 DEF Send, LeaderStep, EnterGate, Find, Abandon, ReserveTurn, Promote, Begin, Grant, PostRun,
       TakeAcceptance, TakeRefusal, GiveUp
  <1>8. ASSUME NEW r \in Request, Cancel(r) PROVE UNCHANGED watchVars
    BY <1>8 DEF Cancel
  <1>9. ASSUME NEW p \in Run, Callback(p) PROVE UNCHANGED watchVars
    BY <1>9 DEF Callback
  <1>10. ASSUME GatewayStep \/ CrashGateway \/ Hold \/ Release \/ Tick PROVE UNCHANGED watchVars
    BY <1>10 DEF GatewayStep, CrashGateway, Hold, Release, Tick
  <1> HIDE DEF ReadInv, DispatchInv, watchVars
  <1> QED
    BY <1>3, <1>5, <1>6, <1>7, <1>8, <1>9, <1>10 DEF Next

\* A turn that has just ended took its outcome from a reading that still holds.
LEMMA NextKeepsOutcome ==
  ASSUME DispatchInv, Next, PostsMove, RunsStay, TurnsEnd, OutcomeInv
  PROVE  OutcomeIsTheRuns'
  <1> USE DEF Terminal, Live
  <1>0. /\ runId \in [Request -> Run \cup {NULL}]
        /\ WatchInv /\ NamedRunInv /\ WireInv /\ ReadInv /\ OutcomeIsTheRuns
    BY DEF DispatchInv, StoreInv, StoreTypeOK, OutcomeInv
  <1> SUFFICES ASSUME NEW r \in Request, status'[r] \in Terminal, runId'[r] # NULL
               PROVE  /\ postFor'[runId'[r]] = r
                      /\ \/ run'[runId'[r]] = status'[r]
                         \/ run'[runId'[r]] = "completed" /\ status'[r] = "failed"
    BY DEF OutcomeIsTheRuns
  <1>1. runId'[r] = runId[r]
    BY DEF TurnsEnd, TurnEnds, Settles
  <1>2. runId[r] \in Run /\ Created(runId[r]) /\ postFor[runId[r]] = r
    BY <1>0, <1>1 DEF NamedRunInv
  <1>3. postFor'[runId[r]] = r
    BY <1>0, <1>2 DEF PostsMove, WireInv
  <1>4. \/ run[runId[r]] = status'[r]
        \/ run[runId[r]] = "completed" /\ status'[r] = "failed"
    <2>1. CASE status'[r] = status[r]
      BY <1>0, <1>1, <2>1 DEF OutcomeIsTheRuns
    <2>2. CASE \E v \in Service : Settles(v, r)
      <3>1. PICK v \in Service : Settles(v, r)
        BY <2>2
      <3>2. /\ watch[v] = "save" /\ watched[v] = r
            /\ status'[r] \in Saved(seen[v])
        BY <3>1 DEF Settles
      <3>3. seen[v] \in Terminal /\ (status'[r] = seen[v] \/ (seen[v] = "completed" /\ status'[r] = "failed"))
        BY <1>0, <3>2 DEF Saved, WatchInv
      <3> QED
        BY <1>0, <3>2, <3>3 DEF ReadInv
    <2> QED
      BY <2>1, <2>2 DEF TurnsEnd, TurnEnds
  <1>5. run'[runId[r]] = run[runId[r]]
    BY <1>2, <1>4 DEF RunsStay
  <1> QED
    BY <1>1, <1>3, <1>4, <1>5

\* Nothing was read and no turn has ended.
LEMMA InitEstablishesOutcomeInv == Init => OutcomeInv
  BY DEF Init, StoreInit, OutcomeInv, ReadInv, OutcomeIsTheRuns

\* Every step keeps the readings and the outcomes true.
LEMMA StepKeepsOutcomeInv ==
  ASSUME DispatchInv, RetentionInv, OutcomeInv, [Next]_vars
  PROVE  OutcomeInv'
  <1>1. CASE Next
    <2>1. HermesMove /\ TurnsEnd
      BY <1>1, NextMovesHermes, TurnsEndInThreeWays
    <2>2. PostsMove /\ RunsStay
      BY <2>1, PostsOnlyMove, EndedRunsStay
    <2>3. AllRowsMove
      BY <1>1, ServiceCallsStore, StoreMoves DEF DispatchInv
    <2> QED
      BY <1>1, <2>1, <2>2, <2>3, NextKeepsReadInv, NextKeepsOutcome DEF OutcomeInv
  <1>2. CASE UNCHANGED vars
    BY <1>2 DEF vars, OutcomeInv, ReadInv, OutcomeIsTheRuns
  <1> QED
    BY <1>1, <1>2

\* The inductive invariant of the observers' readings and of the outcomes.
THEOREM OutcomeInvariant == Spec => []OutcomeInv
  <1>1. DispatchInv /\ RetentionInv /\ OutcomeInv /\ [Next]_vars => OutcomeInv'
    BY StepKeepsOutcomeInv
  <1> QED
    BY <1>1, InitEstablishesOutcomeInv, DispatchInvariant, RetentionInvariant, PTL DEF Spec

\* A turn that ended with a run says what that run ended with, however old
\* the reading of the observer that saved it (chat/service.py, poll).
THEOREM OutcomesAreTheRuns == Spec => []OutcomeIsTheRuns
  <1>1. OutcomeInv => OutcomeIsTheRuns
    BY DEF OutcomeInv
  <1> QED
    BY <1>1, OutcomeInvariant, PTL

-----------------------------------------------------------------------------
(* Chat and gateway implement ReplyQueue, where the gateway has no         *)
(* "admitted false" answer (Selective is empty).                           *)

\* Without that answer, a turn closed without a run was never begun, so no
\* run can come of it later.
NothingRefused == \A p \in Run : post[p] # "refused"

ClosedUnbegun ==
  \A r \in Request : status[r] \in Terminal /\ runId[r] = NULL => firstAt[r] = NULL

ClosedInv == NothingRefused /\ ClosedUnbegun

\* No step refuses a POST, so no step closes a begun turn without a run.
LEMMA StepKeepsClosedInv ==
  ASSUME Selective = {}, DispatchInv, ClosedInv, [Next]_vars
  PROVE  ClosedInv'
  <1>1. CASE Next
    <2>1. HermesMove /\ TurnsEnd
      BY <1>1, NextMovesHermes, TurnsEndInThreeWays
    <2>2. NothingRefused'
      <3> USE DEF ClosedInv, NothingRefused
      <3>1. HermesTypeOK
        BY DEF DispatchInv
      <3>2. ASSUME NEW p \in Run, NEW ph \in Phase \ {"refused"}, post' = [post EXCEPT ![p] = ph]
            PROVE  NothingRefused'
        BY <3>1, <3>2 DEF HermesTypeOK
      <3>3. ASSUME UNCHANGED post PROVE NothingRefused'
        BY <3>3
      <3>4. ASSUME NEW p \in Run, NEW r \in Request, NEW t \in Nat, SendPost(p, r, t)
            PROVE  NothingRefused'
        BY <3>2, <3>4 DEF SendPost, Phase
      <3>5. ASSUME HandlerStep(clock) PROVE NothingRefused'
        BY <3>2, <3>5 DEF HandlerStep, LosePost, Lookup, Respond, RefuseAdmission, FailPost, AdmitRun,
           Phase
      <3>6. ASSUME RunStep(clock) PROVE NothingRefused'
        BY <3>3, <3>6 DEF RunStep, AdvanceRun, PruneKey
      <3>7. ASSUME RestartGateway(clock) PROVE NothingRefused'
        BY <3>7 DEF RestartGateway, InFlight
      <3>8. ASSUME UNCHANGED hermesVars PROVE NothingRefused'
        BY <3>3, <3>8
      <3> HIDE DEF NothingRefused, ClosedInv
      <3> QED
        BY <2>1, <3>4, <3>5, <3>6, <3>7, <3>8 DEF HermesMove
    <2>3. ClosedUnbegun'
      BY <2>1 DEF TurnsEnd, TurnEnds, Settles, ClosedInv, NothingRefused, ClosedUnbegun
    <2> QED
      BY <2>2, <2>3 DEF ClosedInv
  <1>2. CASE UNCHANGED vars
    BY <1>2 DEF vars, ClosedInv, NothingRefused, ClosedUnbegun
  <1> QED
    BY <1>1, <1>2

\* Every action is one of the store or one of the gateway, never both.
LEMMA StoreOrGateway ==
  ASSUME Next
  PROVE  UNCHANGED storeVars \/ UNCHANGED hermesVars
  <1>1. ASSUME NEW v \in Service, NEW r \in Request, LeaderStep(v, r) \/ Send(v, r)
        PROVE  UNCHANGED storeVars \/ UNCHANGED hermesVars
    BY <1>1 DEF Send, LeaderStep, EnterGate, Find, Abandon, ReserveTurn, Promote, Begin, Grant,
       PostRun, TakeAcceptance, TakeRefusal, GiveUp
  <1>2. ASSUME NEW v \in Service, WatchStep(v) \/ CrashService(v) PROVE UNCHANGED hermesVars
    BY <1>2 DEF WatchStep, ReadStatus, SaveStatus, PickNext, RetryNext, EndPoll, Escape, CrashService
  <1>3. ASSUME NEW r \in Request, Cancel(r) PROVE UNCHANGED hermesVars
    BY <1>3 DEF Cancel
  <1>4. ASSUME NEW p \in Run, Callback(p) PROVE UNCHANGED hermesVars
    BY <1>4 DEF Callback
  <1>5. ASSUME GatewayStep \/ CrashGateway \/ Hold \/ Release \/ Tick PROVE UNCHANGED storeVars
    BY <1>5 DEF GatewayStep, CrashGateway, Hold, Release, Tick
  <1> HIDE DEF storeVars, hermesVars
  <1> QED
    BY <1>1, <1>2, <1>3, <1>4, <1>5 DEF Next

-----------------------------------------------------------------------------
(* The phase and the work of a turn.                                       *)

\* What the status of a row says of its phase.
LEMMA PhaseIs ==
  ASSUME NEW r \in Request, status \in [Request -> Status]
  PROVE  /\ status[r] = "absent" <=> PhaseOf(r) = "new"
         /\ status[r] = "waiting" <=> PhaseOf(r) = "waiting"
         /\ status[r] \in Terminal <=> PhaseOf(r) = "done"
         /\ Active(r) <=> PhaseOf(r) = "active"
  BY DEF PhaseOf, Active, Unfinished, Present, Status, Terminal, Live

\* The same after the step.
LEMMA PhaseIsNext ==
  ASSUME NEW r \in Request, status' \in [Request -> Status]
  PROVE  /\ status'[r] = "absent" <=> PhaseOf(r)' = "new"
         /\ status'[r] = "waiting" <=> PhaseOf(r)' = "waiting"
         /\ status'[r] \in Terminal <=> PhaseOf(r)' = "done"
         /\ Active(r)' <=> PhaseOf(r)' = "active"
  BY DEF PhaseOf, Active, Unfinished, Present, Status, Terminal, Live

\* The only run of a turn says what the turn's work is.
LEMMA WorkIs ==
  ASSUME HermesTypeOK, OneRunPerTurn, NEW r \in Request
  PROVE  /\ RunsOf(r) = {} => WorkOf(r) = "none"
         /\ \A p \in RunsOf(r) : /\ run[p] \in Live => WorkOf(r) = "running"
                                 /\ run[p] \in Terminal => WorkOf(r) = "ended"
  BY DEF WorkOf, RunsOf, OneRunPerTurn, HermesTypeOK, Live, Terminal

\* The same after the step.
LEMMA WorkIsNext ==
  ASSUME HermesTypeOK', OneRunPerTurn', NEW r \in Request
  PROVE  /\ RunsOf(r)' = {} => WorkOf(r)' = "none"
         /\ \A p \in RunsOf(r)' : /\ run'[p] \in Live => WorkOf(r)' = "running"
                                  /\ run'[p] \in Terminal => WorkOf(r)' = "ended"
  BY DEF WorkOf, RunsOf, OneRunPerTurn, HermesTypeOK, Live, Terminal

PhasesStay == \A r \in Request : PhaseOf(r)' = PhaseOf(r)
WorkStays == \A r \in Request : WorkOf(r)' = WorkOf(r)

\* Where nothing the owner sees has changed, the queue stutters.
LEMMA StutterMaps ==
  ASSUME PhasesStay, WorkStays, UNCHANGED <<seq, lastSeq>>
  PROVE  UNCHANGED Queue!queueVars
  BY DEF Queue!queueVars, PhasesStay, WorkStays

\* A transaction of the store leaves the work of every turn alone.
LEMMA StoreKeepsWork ==
  ASSUME UNCHANGED hermesVars
  PROVE  WorkStays
  BY DEF WorkStays, WorkOf, RunsOf, Created

\* A step of the gateway leaves the phase of every turn alone.
LEMMA GatewayKeepsPhases ==
  ASSUME UNCHANGED storeVars
  PROVE  PhasesStay /\ UNCHANGED <<seq, lastSeq>>
  BY DEF PhasesStay, PhaseOf

-----------------------------------------------------------------------------
(* The transactions of the store.                                          *)

\* What is known on both sides of a step.
PromiseInv ==
  /\ DispatchInv /\ RetentionInv /\ OutcomeInv /\ ClosedInv

\* One row changes its phase.
LEMMA OnePhaseMoves ==
  ASSUME NEW r \in Request, status \in [Request -> Status], NEW s, status' = [status EXCEPT ![r] = s]
  PROVE  \A q \in Request : q # r => PhaseOf(q)' = PhaseOf(q)
  BY DEF PhaseOf

\* Saving a new message is accepting it.
LEMMA ReserveMaps ==
  ASSUME StoreInv, StoreInv', WorkStays, NEW r \in Request, Reserve(r)
  PROVE  Queue!Accept(r)
  <1>0. status \in [Request -> Status] /\ status' \in [Request -> Status] /\ seq \in [Request -> Nat]
    BY DEF StoreInv, StoreTypeOK
  <1> DEFINE behind == \E q \in Request : Unfinished(q)
  <1>1. status' = [status EXCEPT ![r] = IF behind THEN "waiting" ELSE "awaiting_dispatch"]
    BY DEF Reserve
  <1>2. \A q \in Request : q # r => PhaseOf(q)' = PhaseOf(q)
    BY <1>0, <1>1, OnePhaseMoves
  <1>3. PhaseOf(r) = "new"
    BY <1>0, PhaseIs DEF Reserve, Present
  <1>4. behind <=> \E q \in Request : PhaseOf(q) \in {"waiting", "active"}
    BY <1>0, PhaseIs DEF Active, Unfinished, Present, Terminal
  <1>5. PhaseOf(r)' = IF behind THEN "waiting" ELSE "active"
    BY <1>0, <1>1, PhaseIsNext DEF Active, Unfinished, Present, Terminal
  <1>6. lastSeq' = lastSeq + 1 /\ seq' = [seq EXCEPT ![r] = lastSeq + 1]
    BY DEF Reserve
  <1> HIDE DEF behind
  <1>7. [q \in Request |-> PhaseOf(q)'] =
          [[q \in Request |-> PhaseOf(q)] EXCEPT ![r] = IF behind THEN "waiting" ELSE "active"]
    BY <1>2, <1>5
  <1>8. [q \in Request |-> WorkOf(q)'] = [q \in Request |-> WorkOf(q)]
    BY DEF WorkStays
  <1> QED
    BY <1>3, <1>4, <1>6, <1>7, <1>8 DEF Queue!Accept

\* Promoting the oldest unfinished row is starting the head of the queue.
LEMMA PromoteMaps ==
  ASSUME StoreInv, StoreInv', WorkStays, NEW r \in Request, PromoteWaiting(r)
  PROVE  Queue!Start(r)
  <1>0. status \in [Request -> Status] /\ status' \in [Request -> Status] /\ seq \in [Request -> Nat]
    BY DEF StoreInv, StoreTypeOK
  <1>1. status' = [status EXCEPT ![r] = "awaiting_dispatch"] /\ status[r] = "waiting" /\ Pending(r)
    BY DEF PromoteWaiting, Promotable
  <1>2. \A q \in Request : q # r => PhaseOf(q)' = PhaseOf(q)
    BY <1>0, <1>1, OnePhaseMoves
  <1>3. PhaseOf(r) = "waiting"
    BY <1>0, <1>1, PhaseIs
  <1>4. PhaseOf(r)' = "active"
    BY <1>0, <1>1, PhaseIsNext DEF Active, Unfinished, Present, Terminal
  <1>5. \A q \in Request : PhaseOf(q) # "new" /\ seq[q] < seq[r] => PhaseOf(q) = "done"
    BY <1>0, <1>1, PhaseIs DEF Pending, Unfinished, Present
  <1>6. [q \in Request |-> PhaseOf(q)'] = [[q \in Request |-> PhaseOf(q)] EXCEPT ![r] = "active"]
    BY <1>2, <1>4
  <1>7. [q \in Request |-> WorkOf(q)'] = [q \in Request |-> WorkOf(q)]
    BY DEF WorkStays
  <1>8. UNCHANGED <<seq, lastSeq>>
    BY DEF PromoteWaiting
  <1> QED
    BY <1>3, <1>5, <1>6, <1>7, <1>8 DEF Queue!Start, Queue!Head, Queue!Saved

\* Cancelling a waiting row is withdrawing the message.
LEMMA CancelMaps ==
  ASSUME StoreInv, StoreInv', WorkStays, NEW r \in Request, CancelWaiting(r)
  PROVE  Queue!Withdraw(r)
  <1>0. status \in [Request -> Status] /\ status' \in [Request -> Status]
    BY DEF StoreInv, StoreTypeOK
  <1>1. status' = [status EXCEPT ![r] = "cancelled"] /\ status[r] = "waiting"
    BY DEF CancelWaiting
  <1>2. \A q \in Request : q # r => PhaseOf(q)' = PhaseOf(q)
    BY <1>0, <1>1, OnePhaseMoves
  <1>3. PhaseOf(r) = "waiting"
    BY <1>0, <1>1, PhaseIs
  <1>4. PhaseOf(r)' = "done"
    BY <1>0, <1>1, PhaseIsNext DEF Terminal
  <1>5. [q \in Request |-> PhaseOf(q)'] = [[q \in Request |-> PhaseOf(q)] EXCEPT ![r] = "done"]
    BY <1>2, <1>4
  <1>6. [q \in Request |-> WorkOf(q)'] = [q \in Request |-> WorkOf(q)]
    BY DEF WorkStays
  <1>7. UNCHANGED <<seq, lastSeq>>
    BY DEF CancelWaiting
  <1> QED
    BY <1>3, <1>5, <1>6, <1>7 DEF Queue!Withdraw

\* A row past the queue gets another state: it stays active, or its outcome is
\* saved, and then its run, if it had one, has ended.
LEMMA ActiveRowMaps ==
  ASSUME PromiseInv, PromiseInv', WorkStays, NEW r \in Request, Active(r),
         UNCHANGED <<hermesVars, seq, lastSeq>>,
         NEW s \in Live \cup Terminal, status' = [status EXCEPT ![r] = s],
         s \in Terminal => runId'[r] # NULL
  PROVE  Queue!Finish(r) \/ UNCHANGED Queue!queueVars
  <1>0. /\ status \in [Request -> Status] /\ status' \in [Request -> Status]
        /\ HermesTypeOK /\ OneRunPerTurn
        /\ runId' \in [Request -> Run \cup {NULL}]
    BY DEF PromiseInv, DispatchInv, RetentionInv, StoreInv, StoreTypeOK
  <1>1. \A q \in Request : q # r => PhaseOf(q)' = PhaseOf(q)
    BY <1>0, OnePhaseMoves
  <1>2. PhaseOf(r) = "active"
    BY <1>0, PhaseIs
  <1>3. CASE s \in Live
    <2>1. PhaseOf(r)' = "active"
      BY <1>0, <1>3, PhaseIsNext DEF Active, Unfinished, Present, Terminal, Live
    <2> QED
      BY <1>1, <1>2, <2>1, StutterMaps DEF PhasesStay
  <1>4. CASE s \in Terminal
    <2>1. PhaseOf(r)' = "done"
      BY <1>0, <1>4, PhaseIsNext
    <2> DEFINE p == runId'[r]
    <2>2. p \in Run /\ run'[p] \in Terminal /\ postFor'[p] = r
      <3>1. status'[r] = s
        BY <1>0
      <3> QED
        BY <1>0, <1>4, <3>1 DEF PromiseInv, OutcomeInv, OutcomeIsTheRuns, Terminal
    <2>3. p \in RunsOf(r) /\ run[p] \in Terminal
      BY <2>2 DEF RunsOf, Created, Terminal
    <2>4. WorkOf(r) = "ended"
      BY <1>0, <2>3, WorkIs
    <2>5. [q \in Request |-> PhaseOf(q)'] = [[q \in Request |-> PhaseOf(q)] EXCEPT ![r] = "done"]
      BY <1>1, <2>1
    <2>6. [q \in Request |-> WorkOf(q)'] = [q \in Request |-> WorkOf(q)]
      BY DEF WorkStays
    <2> QED
      BY <1>2, <2>4, <2>5, <2>6 DEF Queue!Finish
  <1> QED
    BY <1>3, <1>4

\* Every transaction of the store is a step of the queue, or shows nothing.
LEMMA StoreMaps ==
  ASSUME PromiseInv, PromiseInv', StoreNext, UNCHANGED hermesVars
  PROVE  [Queue!QueueNext]_Queue!queueVars
  <1> DEFINE Mapped == Queue!QueueNext \/ UNCHANGED Queue!queueVars
  <1> SUFFICES Mapped
    OBVIOUS
  <1>0. /\ StoreInv /\ StoreInv'
        /\ status \in [Request -> Status]
        /\ HistoryInv
        /\ WorkStays
    BY StoreKeepsWork DEF PromiseInv, DispatchInv, StoreInv, StoreTypeOK
  <1>1. \A r \in Request : firstAt[r] # NULL /\ Unfinished(r) => Active(r)
    BY <1>0 DEF HistoryInv, Active
  <1>2. ASSUME NEW r \in Request, Reserve(r) PROVE Mapped
    BY <1>0, <1>2, ReserveMaps DEF Queue!QueueNext
  <1>3. ASSUME NEW r \in Request, PromoteWaiting(r) PROVE Mapped
    BY <1>0, <1>3, PromoteMaps DEF Queue!QueueNext
  <1>4. ASSUME NEW r \in Request, CancelWaiting(r) PROVE Mapped
    BY <1>0, <1>4, CancelMaps DEF Queue!QueueNext
  <1>5. ASSUME UNCHANGED <<status, seq, lastSeq>> PROVE Mapped
    <2>1. PhasesStay
      BY <1>5 DEF PhasesStay, PhaseOf
    <2> QED
      BY <1>0, <1>5, <2>1, StutterMaps
  <1>6. ASSUME NEW r \in Request, NEW now \in Nat, NEW window \in Nat, BeginDispatch(r, now, window)
        PROVE  Mapped
    BY <1>5, <1>6 DEF BeginDispatch
  <1>7. ASSUME NEW r \in Request, MintGrant(r) PROVE Mapped
    BY <1>5, <1>7 DEF MintGrant
  <1>8. ASSUME NEW r \in Request, NEW s \in Live \cup Terminal, status' = [status EXCEPT ![r] = s],
               Active(r), UNCHANGED <<seq, lastSeq>>, s \in Terminal => runId'[r] # NULL
        PROVE  Mapped
    BY <1>0, <1>8, ActiveRowMaps DEF Queue!QueueNext
  <1>9. ASSUME NEW r \in Request, NEW p \in Run, NEW now \in Nat, BindGrant(r, p, now) PROVE Mapped
    <2>1. Active(r) /\ UNCHANGED <<seq, lastSeq>>
      BY <1>0, <1>1, <1>9 DEF BindGrant, Bindable, HistoryInv
    <2>2. CASE runId[r] = NULL
      <3>1. status' = [status EXCEPT ![r] = "running"]
        BY <1>9, <2>2 DEF BindGrant
      <3> QED
        BY <1>8, <2>1, <3>1 DEF Live, Terminal
    <2>3. CASE runId[r] # NULL
      BY <1>0, <1>5, <1>9, <2>1, <2>3 DEF BindGrant
    <2> QED
      BY <2>2, <2>3
  <1>10. ASSUME NEW r \in Request, NEW p \in Run, NEW s \in Live, CallerPosted(r), Attach(r, p, s)
         PROVE  Mapped
    <2>1. Active(r)
      BY <1>1, <1>10 DEF CallerPosted, Attach, Attachable
    <2>2. s \notin Terminal
      BY DEF Live, Terminal
    <2> QED
      BY <1>8, <1>10, <2>1, <2>2 DEF Attach
  <1>11. ASSUME NEW r \in Request, NEW p \in Run, NEW s \in Live \cup Terminal, Observe(r, p, s)
         PROVE  Mapped
    <2>1. runId[r] # NULL /\ UNCHANGED runId
      BY <1>11, IdentityAssumption DEF Observe
    <2>2. Active(r)
      BY <1>0, <1>1, <1>11, <2>1 DEF Observe, HistoryInv
    <2> QED
      BY <1>8, <1>11, <2>1, <2>2 DEF Observe
  <1>12. ASSUME NEW r \in Request, CallerPosted(r), RejectUnadmitted(r) PROVE Mapped
    <2>1. status'[r] = "failed" /\ runId'[r] = NULL /\ firstAt'[r] # NULL
      BY <1>0, <1>12 DEF RejectUnadmitted, Rejectable, CallerPosted
    <2> QED
      BY <2>1 DEF PromiseInv, ClosedInv, ClosedUnbegun, Terminal
  <1> HIDE DEF Mapped
  <1> QED
    BY <1>2, <1>3, <1>4, <1>6, <1>7, <1>9, <1>10, <1>11, <1>12 DEF StoreNext, StoreStep

-----------------------------------------------------------------------------
(* The gateway.                                                            *)

\* The runs of a turn are the same ones, each as live or as ended as it was.
LEMMA RunsUnchangedMaps ==
  ASSUME PhasesStay, UNCHANGED <<seq, lastSeq>>,
         \A p \in Run :
           /\ Created(p) <=> Created(p)'
           /\ Created(p) => postFor'[p] = postFor[p] /\ (run[p] \in Live <=> run'[p] \in Live)
  PROVE  UNCHANGED Queue!queueVars
  <1>1. \A r \in Request : RunsOf(r)' = RunsOf(r)
    BY DEF RunsOf
  <1>2. WorkStays
    BY <1>1 DEF WorkStays, WorkOf, RunsOf
  <1> QED
    BY <1>2, StutterMaps

\* The first reserve under the key of a turn: the turn is active, and this
\* is its first run.
LEMMA AdmitMaps ==
  ASSUME Selective = {}, PromiseInv, PromiseInv', UNCHANGED storeVars,
         NEW p \in Run, NEW r \in Request, postFor[p] = r, AdmitRun(p, clock), ledger[r] = NULL
  PROVE  Queue!Execute(r)
  <1>0. /\ HermesTypeOK /\ OneRunPerTurn /\ HermesTypeOK' /\ OneRunPerTurn'
        /\ WireInv /\ NamedRunInv /\ HistoryInv /\ ClosedUnbegun
        /\ status \in [Request -> Status] /\ runId \in [Request -> Run \cup {NULL}]
    BY DEF PromiseInv, DispatchInv, RetentionInv, ClosedInv, StoreInv, StoreTypeOK
  <1>1. /\ post[p] = "fresh"
        /\ run' = [run EXCEPT ![p] = "queued"]
        /\ UNCHANGED postFor
    BY DEF AdmitRun
  <1>2. firstAt[r] # NULL
    BY <1>0, <1>1 DEF WireInv
  <1>3. \A q \in Run : Created(q) => postFor[q] # r
    BY <1>1, ReserveIsFirst DEF PromiseInv
  <1>4. runId[r] = NULL
    BY <1>0, <1>2, <1>3 DEF NamedRunInv
  <1>5. PhaseOf(r) = "active"
    <2>1. status[r] \notin Terminal /\ status[r] \notin {"absent", "waiting"}
      BY <1>0, <1>2, <1>4 DEF ClosedUnbegun, HistoryInv
    <2> QED
      BY <1>0, <1>2, <2>1, PhaseIs DEF Active, Unfinished, Present
  <1>6. WorkOf(r) = "none"
    BY <1>0, <1>2, <1>3, WorkIs DEF RunsOf
  <1>7. WorkOf(r)' = "running"
    <2>1. run'[p] = "queued"
      BY <1>0, <1>1 DEF HermesTypeOK
    <2>2. p \in RunsOf(r)'
      BY <1>1, <2>1 DEF RunsOf, Created
    <2>3. "queued" \in Live
      BY DEF Live
    <2> QED
      BY <1>0, <1>2, <2>1, <2>2, <2>3, WorkIsNext
  <1>8. ASSUME NEW q \in Request, q # r PROVE WorkOf(q)' = WorkOf(q)
    <2>1. \A o \in Run : postFor[o] = q => run'[o] = run[o]
      BY <1>0, <1>1, <1>8 DEF HermesTypeOK
    <2>2. RunsOf(q)' = RunsOf(q)
      BY <1>1, <2>1 DEF RunsOf, Created
    <2>3. \A o \in RunsOf(q) : run'[o] = run[o]
      BY <2>1 DEF RunsOf
    <2> QED
      BY <2>2, <2>3 DEF WorkOf
  <1>9. UNCHANGED <<seq, lastSeq>> /\ PhasesStay
    BY GatewayKeepsPhases
  <1>10. [q \in Request |-> WorkOf(q)'] = [[q \in Request |-> WorkOf(q)] EXCEPT ![r] = "running"]
    BY <1>7, <1>8
  <1>11. [q \in Request |-> PhaseOf(q)'] = [q \in Request |-> PhaseOf(q)]
    BY <1>9 DEF PhasesStay
  <1> QED
    BY <1>2, <1>5, <1>6, <1>9, <1>10, <1>11 DEF Queue!Execute

\* Some runs end, and nothing else changes.
LEMMA EndMaps ==
  ASSUME HermesTypeOK, OneRunPerTurn, HermesTypeOK', OneRunPerTurn', WireInv,
         UNCHANGED storeVars, UNCHANGED postFor,
         NEW Ended \in SUBSET {p \in Run : run[p] \in Live},
         \A p \in Run : (run'[p] \in Terminal /\ p \in Ended) \/ (run'[p] = run[p] /\ p \notin Ended)
  PROVE  [Queue!QueueNext]_Queue!queueVars
  <1> DEFINE S == {r \in Request : \E p \in Ended : postFor[p] = r}
  <1> USE DEF Live, Terminal
  <1>1. \A p \in Run : Created(p) <=> Created(p)'
    BY DEF Created
  <1>2. \A r \in Request : RunsOf(r)' = RunsOf(r)
    BY <1>1 DEF RunsOf
  <1>3. \A r \in S : WorkOf(r) = "running" /\ WorkOf(r)' = "ended"
    <2> SUFFICES ASSUME NEW p \in Ended, NEW r \in Request, postFor[p] = r
                 PROVE  WorkOf(r) = "running" /\ WorkOf(r)' = "ended"
      OBVIOUS
    <2>1. p \in RunsOf(r) /\ p \in RunsOf(r)' /\ run[p] \in Live /\ run'[p] \in Terminal
      BY <1>2 DEF RunsOf, Created
    <2> QED
      BY <2>1, WorkIs, WorkIsNext
  <1>4. \A r \in Request \ S : WorkOf(r)' = WorkOf(r)
    <2> SUFFICES ASSUME NEW r \in Request \ S PROVE WorkOf(r)' = WorkOf(r)
      OBVIOUS
    <2>1. \A p \in RunsOf(r) : run'[p] = run[p]
      BY DEF RunsOf
    <2> QED
      BY <1>2, <2>1 DEF WorkOf
  <1>5. UNCHANGED <<seq, lastSeq>> /\ PhasesStay
    BY GatewayKeepsPhases
  <1>6. S \in SUBSET Request
    OBVIOUS
  <1> HIDE DEF S, Live, Terminal
  <1>7. CASE S = {}
    BY <1>4, <1>5, <1>7, StutterMaps DEF WorkStays
  <1>8. CASE S # {}
    <2>1. [r \in Request |-> WorkOf(r)'] =
            [r \in Request |-> IF r \in S THEN "ended" ELSE WorkOf(r)]
      BY <1>3, <1>4
    <2>2. [r \in Request |-> PhaseOf(r)'] = [r \in Request |-> PhaseOf(r)]
      BY <1>5 DEF PhasesStay
    <2>3. Queue!End(S)
      BY <1>3, <1>5, <1>6, <1>8, <2>1, <2>2 DEF Queue!End
    <2> QED
      BY <1>6, <2>3 DEF Queue!QueueNext
  <1> QED
    BY <1>7, <1>8

\* Every step of the gateway is a step of the queue, or shows nothing.
LEMMA GatewayMaps ==
  ASSUME Selective = {}, PromiseInv, PromiseInv', HermesMove, UNCHANGED storeVars
  PROVE  [Queue!QueueNext]_Queue!queueVars
  <1> DEFINE Mapped == Queue!QueueNext \/ UNCHANGED Queue!queueVars
  <1> SUFFICES Mapped
    OBVIOUS
  <1>0. /\ HermesTypeOK /\ HermesTypeOK' /\ OneRunPerTurn /\ OneRunPerTurn'
        /\ WireInv
        /\ PhasesStay /\ UNCHANGED <<seq, lastSeq>>
    BY GatewayKeepsPhases DEF PromiseInv, DispatchInv, RetentionInv
  <1>1. ASSUME UNCHANGED run, \A p \in Run : Created(p) => postFor'[p] = postFor[p]
        PROVE  Mapped
    <2>1. \A p \in Run : Created(p) <=> Created(p)'
      BY <1>1 DEF Created
    <2> QED
      BY <1>0, <1>1, <2>1, RunsUnchangedMaps
  <1>2. ASSUME NEW p \in Run, NEW r \in Request, NEW t \in Nat, SendPost(p, r, t) PROVE Mapped
    <2>1. ~Created(p)
      BY <1>0, <1>2 DEF SendPost, WireInv
    <2>2. \A q \in Run : q # p => postFor'[q] = postFor[q]
      BY <1>0, <1>2 DEF SendPost, HermesTypeOK
    <2> QED
      BY <1>1, <1>2, <2>1, <2>2 DEF SendPost
  <1>3. ASSUME NEW p \in Run, LosePost(p) \/ Lookup(p) \/ RefuseAdmission(p) \/ FailPost(p)
        PROVE  Mapped
    BY <1>1, <1>3 DEF LosePost, Lookup, Respond, RefuseAdmission, FailPost
  <1>4. ASSUME NEW p \in Run, AdmitRun(p, clock) PROVE Mapped
    <2>1. CASE ledger[postFor[p]] # NULL
      BY <1>1, <1>4, <2>1 DEF AdmitRun, Respond
    <2>2. CASE ledger[postFor[p]] = NULL
      <3>1. postFor[p] \in Request
        BY <1>0, <1>4 DEF AdmitRun, WireInv
      <3> QED
        BY <1>4, <2>2, <3>1, AdmitMaps DEF Queue!QueueNext
    <2> QED
      BY <2>1, <2>2
  <1>5. ASSUME NEW p \in Run, NEW s \in RunStates, AdvanceRun(p, s, clock) PROVE Mapped
    <2>1. /\ run[p] \in Live
          /\ run' = [run EXCEPT ![p] = s]
          /\ UNCHANGED postFor
      BY <1>5 DEF AdvanceRun
    <2>2. s \in Live \cup Terminal
      BY HermesAssumption
    <2>3. CASE s \in Live
      <3>1. \A q \in Run : (Created(q) <=> Created(q)') /\ (run[q] \in Live <=> run'[q] \in Live)
        BY <1>0, <2>1, <2>3 DEF HermesTypeOK, Created, Live
      <3> QED
        BY <1>0, <2>1, <3>1, RunsUnchangedMaps
    <2>4. CASE s \in Terminal
      <3>1. \A q \in Run : (run'[q] \in Terminal /\ q \in {p}) \/ (run'[q] = run[q] /\ q \notin {p})
        BY <1>0, <2>1, <2>4 DEF HermesTypeOK
      <3>2. {p} \in SUBSET {q \in Run : run[q] \in Live}
        BY <2>1
      <3> QED
        BY <1>0, <2>1, <3>1, <3>2, EndMaps
    <2> QED
      BY <2>2, <2>3, <2>4
  <1>6. ASSUME NEW r \in Request, PruneKey(r, clock) PROVE Mapped
    BY <1>1, <1>6 DEF PruneKey
  <1>7. ASSUME RestartGateway(clock) PROVE Mapped
    <2> DEFINE Ended == {p \in Run : run[p] \in Live}
    <2>1. UNCHANGED postFor
      BY <1>7 DEF RestartGateway
    <2>2. \A p \in Run : (run'[p] \in Terminal /\ p \in Ended) \/ (run'[p] = run[p] /\ p \notin Ended)
      BY <1>7 DEF RestartGateway, Terminal
    <2>3. Ended \in SUBSET {p \in Run : run[p] \in Live}
      OBVIOUS
    <2> HIDE DEF Ended
    <2> QED
      BY <1>0, <2>1, <2>2, <2>3, EndMaps
  <1>8. ASSUME UNCHANGED hermesVars PROVE Mapped
    BY <1>1, <1>8
  <1> HIDE DEF Mapped
  <1> QED
    BY <1>2, <1>3, <1>4, <1>5, <1>6, <1>7, <1>8 DEF HermesMove, HandlerStep, RunStep

-----------------------------------------------------------------------------

\* The conversation begins empty.
LEMMA InitMaps == Init => Queue!QueueInit
  <1> SUFFICES ASSUME Init PROVE Queue!QueueInit
    OBVIOUS
  <1>1. \A r \in Request : PhaseOf(r) = "new"
    <2>1. status \in [Request -> Status]
      BY DEF Init, StoreInit, Status
    <2> QED
      BY <2>1, PhaseIs DEF Init, StoreInit
  <1>2. \A r \in Request : WorkOf(r) = "none"
    BY DEF Init, HermesInit, WorkOf, RunsOf, Created
  <1> QED
    BY <1>1, <1>2 DEF Init, StoreInit, Queue!QueueInit

\* Every step of the whole is a step of the queue, or shows nothing.
LEMMA StepMaps ==
  ASSUME Selective = {}, PromiseInv, PromiseInv', [Next]_vars
  PROVE  [Queue!QueueNext]_Queue!queueVars
  <1>1. CASE Next
    <2>1. CASE UNCHANGED storeVars
      BY <1>1, <2>1, NextMovesHermes, GatewayMaps DEF PromiseInv
    <2>2. CASE ~UNCHANGED storeVars
      BY <1>1, <2>2, StoreOrGateway, ServiceCallsStore, StoreMaps DEF PromiseInv
    <2> HIDE DEF storeVars
    <2> QED
      BY <2>1, <2>2
  <1>2. CASE UNCHANGED vars
    <2>1. UNCHANGED storeVars /\ UNCHANGED hermesVars
      BY <1>2 DEF vars
    <2> QED
      BY <2>1, GatewayKeepsPhases, StoreKeepsWork, StutterMaps
  <1> QED
    BY <1>1, <1>2

\* What the owner was promised, kept by any number of web processes, POSTs,
\* crashes and retries: messages are answered in the order they were saved,
\* one at a time, each by at most one run (where the gateway has no "admitted
\* false" answer, which can close a turn before an earlier POST of it runs).
THEOREM ChatKeepsThePromise ==
  ASSUME Selective = {}
  PROVE  Spec => QueueImplemented
  <1>1. Init => ClosedInv
    BY DEF Init, StoreInit, HermesInit, ClosedInv, NothingRefused, ClosedUnbegun, Terminal
  <1>2. DispatchInv /\ ClosedInv /\ [Next]_vars => ClosedInv'
    BY StepKeepsClosedInv
  <1>3. Spec => []PromiseInv
    BY <1>1, <1>2, DispatchInvariant, RetentionInvariant, OutcomeInvariant, PTL DEF Spec, PromiseInv
  <1>4. PromiseInv /\ PromiseInv' /\ [Next]_vars => [Queue!QueueNext]_Queue!queueVars
    BY StepMaps
  <1> QED
    BY <1>3, <1>4, InitMaps, PTL DEF Spec, QueueImplemented

\* What ReplyQueue_proofs shows of the promise holds of the chat.
Promise == INSTANCE ReplyQueue_proofs WITH
  phase <- [r \in Request |-> PhaseOf(r)],
  place <- seq,
  count <- lastSeq,
  work <- [r \in Request |-> WorkOf(r)]

\* The two instances of ReplyQueue are the same specification.
LEMMA QueueIsThePromise == QueueImplemented => Promise!QueueSpec
  <1>1. Queue!QueueInit => Promise!QueueInit
    BY DEF Queue!QueueInit, Promise!QueueInit
  <1>2. [Queue!QueueNext]_Queue!queueVars => [Promise!QueueNext]_Promise!queueVars
    <2>1. \A r \in Request :
            /\ Queue!Accept(r) = Promise!Accept(r)
            /\ Queue!Start(r) = Promise!Start(r)
            /\ Queue!Withdraw(r) = Promise!Withdraw(r)
            /\ Queue!Execute(r) = Promise!Execute(r)
            /\ Queue!Finish(r) = Promise!Finish(r)
      BY DEF Queue!Accept, Queue!Start, Queue!Withdraw, Queue!Execute, Queue!Finish, Queue!Head,
         Queue!Saved, Promise!Accept, Promise!Start, Promise!Withdraw, Promise!Execute,
         Promise!Finish, Promise!Head, Promise!Saved
    <2>2. \A S \in SUBSET Request : Queue!End(S) = Promise!End(S)
      BY DEF Queue!End, Promise!End
    <2>3. Queue!queueVars = Promise!queueVars /\ (Queue!queueVars)' = (Promise!queueVars)'
      BY DEF Queue!queueVars, Promise!queueVars
    <2> QED
      BY <2>1, <2>2, <2>3 DEF Queue!QueueNext, Promise!QueueNext
  <1> QED
    BY <1>1, <1>2, PTL DEF QueueImplemented, Promise!QueueSpec

\* The assistant works on at most one message of the conversation at a time,
\* across every web process and gateway restart.
THEOREM ChatExecutesOneAtATime ==
  ASSUME Selective = {}
  PROVE  Spec => []Promise!OneExecution
  BY ChatKeepsThePromise, QueueIsThePromise, Promise!PromiseIsOneExecution, PTL

\* A message has a run only if every message saved before it is done.
THEOREM ChatExecutesInOrder ==
  ASSUME Selective = {}
  PROVE  Spec => []Promise!ExecutedInOrder
  BY ChatKeepsThePromise, QueueIsThePromise, Promise!PromiseIsInOrder, PTL

=============================================================================
