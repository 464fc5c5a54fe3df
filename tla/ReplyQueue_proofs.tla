--------------------------- MODULE ReplyQueue_proofs ---------------------------
(***************************************************************************)
(* What the promise of ReplyQueue gives the owner, for any number of       *)
(* messages: one execution at a time, and in order.                        *)
(***************************************************************************)
EXTENDS ReplyQueue, TLAPS

Underway == {"waiting", "active"}

\* Places are given out in order, and only once.
Ranked ==
  /\ \A r \in Request : Saved(r) => place[r] \in 1..count
  /\ \A q, r \in Request : Saved(q) /\ Saved(r) /\ place[q] = place[r] => q = r

\* Whatever is past the queue is at its head.
AtHead == \A r \in Request : phase[r] = "active" => Head(r)

\* Work belongs to a message that is active, or was.
WorkIsOwned ==
  \A r \in Request :
    /\ work[r] # "none" => phase[r] \in {"active", "done"}
    /\ work[r] = "running" => phase[r] = "active"

QueueInv == QueueTypeOK /\ Ranked /\ AtHead /\ WorkIsOwned /\ ExecutedInOrder

LEMMA QueueInvInit == QueueInit => QueueInv
BY DEF QueueInit, QueueInv, QueueTypeOK, Ranked, AtHead, WorkIsOwned, ExecutedInOrder,
       Saved, Phases, Works

\* No step takes a message away from the head of the queue.
LEMMA HeadIsStable ==
  ASSUME QueueInv, QueueNext, NEW r \in Request, Saved(r), Head(r)
  PROVE  Head(r)'
<1> USE DEF QueueInv, QueueTypeOK, Ranked, Saved, Head
<1>1. CASE \E q \in Request : Accept(q)
  BY <1>1 DEF Accept
<1>2. CASE \E q \in Request : Start(q) \/ Withdraw(q) \/ Execute(q) \/ Finish(q)
  BY <1>2 DEF Start, Withdraw, Execute, Finish
<1>3. CASE \E S \in SUBSET Request : End(S)
  BY <1>3 DEF End
<1> QED
  BY <1>1, <1>2, <1>3 DEF QueueNext

LEMMA QueueInvStep == QueueInv /\ [QueueNext]_queueVars => QueueInv'
<1> SUFFICES ASSUME QueueInv, [QueueNext]_queueVars PROVE QueueInv'
  OBVIOUS
<1>0. CASE UNCHANGED queueVars
  BY <1>0 DEF queueVars, QueueInv, QueueTypeOK, Ranked, AtHead, WorkIsOwned,
              ExecutedInOrder, Saved, Head
<1>1. CASE QueueNext
  <2>1. /\ QueueTypeOK /\ Ranked /\ AtHead /\ WorkIsOwned /\ ExecutedInOrder
    BY DEF QueueInv
  <2>2. QueueTypeOK'
    BY <1>1, <2>1 DEF QueueNext, QueueTypeOK, Phases, Works, Accept, Start, Withdraw,
                      Execute, End, Finish
  <2>3. Ranked'
    <3>1. CASE \E r \in Request : Accept(r)
      BY <3>1, <2>1 DEF Accept, QueueTypeOK, Phases, Ranked, Saved
    <3>2. CASE ~\E r \in Request : Accept(r)
      BY <1>1, <3>2, <2>1 DEF QueueNext, Start, Withdraw, Execute, End, Finish,
                              QueueTypeOK, Phases, Ranked, Saved
    <3> QED
      BY <3>1, <3>2
  <2>4. AtHead'
    <3> SUFFICES ASSUME NEW r \in Request, phase'[r] = "active" PROVE Head(r)'
      BY DEF AtHead
    <3>1. CASE phase[r] = "active"
      BY <1>1, <2>1, <3>1, HeadIsStable DEF AtHead, Saved
    <3>2. CASE phase[r] = "waiting"
      <4>1. Head(r)
        BY <1>1, <3>2, <2>1 DEF QueueNext, Accept, Start, Withdraw, Execute, End, Finish,
                                QueueTypeOK
      <4> QED
        BY <1>1, <3>2, <4>1, HeadIsStable DEF Saved
    <3>3. CASE phase[r] = "new"
      <4>1. Accept(r) /\ \A q \in Request : phase[q] \notin Underway
        BY <1>1, <3>3, <2>1 DEF QueueNext, Accept, Start, Withdraw, Execute, End, Finish,
                                QueueTypeOK, Underway
      <4> QED
        BY <4>1, <2>1 DEF Accept, Head, Saved, QueueTypeOK, Phases, Underway
    <3>4. CASE phase[r] = "done"
      BY <1>1, <3>4, <2>1 DEF QueueNext, Accept, Start, Withdraw, Execute, End, Finish,
                              QueueTypeOK
    <3> QED
      BY <3>1, <3>2, <3>3, <3>4, <2>1 DEF QueueTypeOK, Phases
  <2>5. WorkIsOwned'
    BY <1>1, <2>1 DEF QueueNext, Accept, Start, Withdraw, Execute, End, Finish,
                      QueueTypeOK, WorkIsOwned, Works, Phases
  <2>6. ExecutedInOrder'
    <3> SUFFICES ASSUME NEW r \in Request, work'[r] # "none" PROVE Head(r)'
      BY DEF ExecutedInOrder
    <3>1. CASE work[r] # "none"
      BY <1>1, <2>1, <3>1, HeadIsStable DEF ExecutedInOrder, WorkIsOwned, Saved
    <3>2. CASE work[r] = "none"
      <4>1. phase[r] = "active"
        BY <1>1, <2>1, <3>2 DEF QueueNext, Accept, Start, Withdraw, Execute, End, Finish,
                                QueueTypeOK
      <4> QED
        BY <1>1, <2>1, <4>1, HeadIsStable DEF AtHead, Saved
    <3> QED
      BY <3>1, <3>2
  <2> QED
    BY <2>2, <2>3, <2>4, <2>5, <2>6 DEF QueueInv
<1> QED
  BY <1>0, <1>1

LEMMA QueueKeepsInv == QueueSpec => []QueueInv
BY QueueInvInit, QueueInvStep, PTL DEF QueueSpec

\* The assistant works on at most one message of the conversation at a time.
THEOREM PromiseIsOneExecution == QueueSpec => []OneExecution
<1>1. QueueInv => OneExecution
  <2> SUFFICES ASSUME QueueInv, NEW q \in Request, NEW r \in Request,
                      work[q] = "running", work[r] = "running"
               PROVE  q = r
    BY DEF OneExecution
  <2>1. /\ phase[q] = "active" /\ phase[r] = "active"
        /\ Head(q) /\ Head(r)
    BY DEF QueueInv, WorkIsOwned, AtHead
  <2> QED
    BY <2>1 DEF QueueInv, QueueTypeOK, Ranked, Head, Saved
<1> QED
  BY <1>1, QueueKeepsInv, PTL

\* A message is executed only after every message saved before it is done.
THEOREM PromiseIsInOrder == QueueSpec => []ExecutedInOrder
<1>1. QueueInv => ExecutedInOrder
  BY DEF QueueInv
<1> QED
  BY <1>1, QueueKeepsInv, PTL

=============================================================================
