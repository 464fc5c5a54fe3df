---------------------------- MODULE SpaceBrowser ----------------------------
(***************************************************************************)
(* The owner's browser in a microVM. The host's controller                   *)
(* (runtime/selkies/space_client.py, space_platform.py) sends one request    *)
(* after another to a gateway, which keeps a journal of launches             *)
(* (space_gateway.py), and it to the guest's service (space_guest.py), which *)
(* runs Chrome, honours the owner's input for as long as a grant lives, and   *)
(* starts anew by space_bootstrap.py.                                       *)
(* No request is repeated: an answer that is lost leaves its outcome unknown.*)
(*                                                                         *)
(* One clock stands for the host's and the guest's. The two publications of  *)
(* one authority that follow each other on leaving the input lock are one.  *)
(***************************************************************************)
EXTENDS Base, FiniteSets

CONSTANTS Launches, GrantSeconds, LeaseSeconds,   \* a launch is a number
          MaxTick, MaxRequest

\* Launches are numbered from 1; grants and leases last a number of ticks.
ASSUME SpaceAssumption == Launches \subseteq Nat \ {0} /\ GrantSeconds \in Nat /\ LeaseSeconds \in Nat

VARIABLES
  tick,
  chromes,      \* the launches whose Chrome runs in the guest
  launches,         \* the guest's durable table of launches
  guest,        \* its service: launch, newest sequence, fault and input block
  serving,      \* whether the service runs
  fence,        \* its grant: who may send input, until when, and whether input is frozen
  reserved,      \* the gateway's: which launches it reserved, and those known retired
  coldReceipt, sandbox,        \* the retirement of a guest of an earlier boot
  handle,       \* the host's: launch, state, sequence, whether it grants input
  leaseEnd,     \* when the owner's lease ends, 0 for none
  section,      \* the step of the critical section the host is in
  request, late,   \* the request on the line; one the host no longer waits for
  confirmed, agreed    \* launches the host took for retired; whether the guest acknowledged that nobody holds input

spaceVars == <<tick, chromes, launches, guest, serving, fence, reserved, coldReceipt, sandbox,
               handle, leaseEnd, section, request, late, confirmed, agreed>>
NoRequest == [id |-> 0, op |-> "none", by |-> "none", seq |-> 0, holder |-> FALSE, ttl |-> 0, end |-> 0, lease |-> 0, answer |-> "none"]
NoGuest == [launch |-> 0, seq |-> 0, faulted |-> FALSE, blocked |-> FALSE]
NoGrant == [holder |-> FALSE, deadline |-> 0, expired |-> TRUE, made |-> FALSE, frozen |-> FALSE, lease |-> 0]
NoHandle == [id |-> 0, state |-> "none", seq |-> 0, holder |-> FALSE, blocked |-> FALSE]
SpaceInit ==
  /\ tick = 0 /\ chromes = {} /\ launches = [i \in Launches |-> "none"] /\ guest = NoGuest /\ serving = TRUE /\ fence = NoGrant
  /\ reserved = [i \in Launches |-> "none"] /\ coldReceipt = "none" /\ sandbox = 1 /\ handle = NoHandle
  /\ leaseEnd = 0 /\ section = "idle" /\ request = NoRequest /\ late = NoRequest /\ confirmed = {} /\ agreed = FALSE
SpaceTypeOK ==
  /\ chromes \subseteq Launches /\ confirmed \subseteq Launches /\ tick \in 0..MaxTick
  /\ \A i \in Launches : /\ launches[i] \in {"none", "starting", "running", "retired"}
                         /\ reserved[i] \in {"none", "reserved", "retired"}
  /\ guest.launch \in Launches \cup {0} /\ guest.seq \in 0..MaxRequest
  /\ handle.state \in {"none", "starting", "running", "unavailable", "stopping", "unknown", "retired"}
  /\ coldReceipt \in {"none", "intent", "accepted", "deleted", "retired"} /\ sandbox \in 1..2
  /\ leaseEnd \in 0..(MaxTick + LeaseSeconds)

-----------------------------------------------------------------------------
(* The guest. A request of another launch, or not newer than the last, is     *)
(* refused; but a retired launch stays known so.                            *)
Least(a, b) == IF a < b THEN a ELSE b
GrantLives == ~fence.expired /\ tick < fence.deadline
Running == guest.launch # 0 /\ guest.launch \in chromes
InputHonoured == Running /\ ~guest.blocked /\ GrantLives /\ fence.holder /\ ~fence.frozen
GrantRevoked == [fence EXCEPT !.expired = TRUE, !.holder = FALSE]
(* The answer reaches the host, or the host gave the request up before.      *)
Replies(heard, r) == IF heard THEN request' = [request EXCEPT !.answer = r] ELSE late' = NoRequest
GuestKeeps == UNCHANGED <<chromes, launches, guest, fence>>

StartRefused(i) == guest.launch # 0 \/ launches[i] # "none" \/ \E k \in Launches : launches[k] \notin {"none", "retired"}
Start(m, heard) ==
  \/ /\ StartRefused(m.id) /\ Replies(heard, "refused") /\ UNCHANGED <<chromes, launches, fence>>
     /\ guest' = IF guest.launch # 0 THEN guest ELSE [guest EXCEPT !.seq = m.seq]
  \/ ~StartRefused(m.id) /\ Replies(heard, "running") /\ chromes' = chromes \cup {m.id} /\ launches' = [launches EXCEPT ![m.id] = "running"]
     /\ guest' = [NoGuest EXCEPT !.launch = m.id, !.seq = m.seq] /\ fence' = NoGrant
  \/ ~StartRefused(m.id) /\ Replies(heard, "refused")                        \* failed and was undone
     /\ launches' = [launches EXCEPT ![m.id] = "retired"] /\ guest' = NoGuest /\ fence' = NoGrant /\ UNCHANGED chromes
  \/ ~StartRefused(m.id) /\ Replies(heard, "refused")                        \* failed, and so did its undoing
     /\ launches' = [launches EXCEPT ![m.id] = "starting"] /\ \E left \in SUBSET {m.id} : chromes' = chromes \cup left
     /\ guest' = [launch |-> m.id, seq |-> m.seq, faulted |-> TRUE, blocked |-> TRUE] /\ fence' = GrantRevoked
Stop(heard, seen) ==
  \/ Replies(heard, "retired") /\ chromes' = chromes \ {guest.launch} /\ launches' = [launches EXCEPT ![guest.launch] = "retired"]
     /\ guest' = NoGuest /\ fence' = GrantRevoked
  \/ Replies(heard, "refused") /\ \E left \in SUBSET {guest.launch} : chromes' = (chromes \ {guest.launch}) \cup left
     /\ guest' = [seen EXCEPT !.faulted = TRUE, !.blocked = TRUE] /\ fence' = GrantRevoked /\ UNCHANGED launches

(* A grant lives no longer than the host meant it to, however late it comes;  *)
(* one that ended is not revived. A change of holder blocks input first.     *)
\* Mutant: the grant's own length counts from its arrival.
GrantFor_Whole(m) == m.ttl
GrantFor(m) == Least(m.ttl, IF m.end > tick THEN m.end - tick ELSE 0)
PublishGrants(m, heard, seen) ==
  LET changed == [seen EXCEPT !.blocked = @ \/ m.holder # fence.holder] IN
  IF GrantFor(m) = 0 THEN Replies(heard, "refused") /\ guest' = seen /\ UNCHANGED <<chromes, launches, fence>>
  ELSE IF fence.made /\ ~GrantLives THEN Replies(heard, "refused") /\ guest' = changed /\ UNCHANGED <<chromes, launches, fence>>
  ELSE /\ Replies(heard, "running") /\ guest' = [seen EXCEPT !.blocked = FALSE] /\ UNCHANGED <<chromes, launches>>
       /\ fence' = [fence EXCEPT !.holder = m.holder, !.deadline = tick + GrantFor(m), !.expired = FALSE,
                                 !.made = TRUE, !.lease = m.lease]
Freeze(m, heard, seen) ==
  /\ guest' = seen /\ UNCHANGED <<chromes, launches>>
  /\ IF fence.frozen THEN Replies(heard, "refused") /\ UNCHANGED fence
     ELSE Replies(heard, "running") /\ fence' = [fence EXCEPT !.frozen = TRUE]
Thaw(m, heard, seen) ==
  /\ guest' = seen /\ UNCHANGED <<chromes, launches>>
  /\ IF ~fence.frozen \/ ~GrantLives THEN Replies(heard, "refused") /\ UNCHANGED fence
     ELSE Replies(heard, "running") /\ fence' = [fence EXCEPT !.frozen = FALSE]
\* Mutant: a request that was overtaken is carried out all the same.
Newer_Any(m) == TRUE
Newer(m) == m.seq > guest.seq
Usual(m, heard, seen) ==
  \/ m.op = "publish" /\ PublishGrants(m, heard, seen)
  \/ m.op = "freeze" /\ Freeze(m, heard, seen)
  \/ m.op = "thaw" /\ Thaw(m, heard, seen)
  \/ m.op = "drain" /\ Replies(heard, "running") /\ guest' = seen /\ UNCHANGED <<chromes, launches, fence>>
GuestExecutes(m, heard) ==
  LET seen == [guest EXCEPT !.seq = m.seq]
      known == m.id # guest.launch /\ m.op \in {"status", "stop"} /\ launches[m.id] = "retired"
      stale == m.id # guest.launch \/ ~Newer(m)
      usable == Running /\ ~guest.faulted IN
  IF m.op = "start" THEN Start(m, heard)
  ELSE IF stale THEN Replies(heard, IF known THEN "retired" ELSE "refused") /\ GuestKeeps
  ELSE \/ m.op = "stop" /\ Stop(heard, seen)
       \/ m.op = "status" /\ Replies(heard, IF Running THEN "running" ELSE "unavailable")
          /\ guest' = seen /\ UNCHANGED <<chromes, launches, fence>>
       \/ usable /\ Usual(m, heard, seen)
       \/ ~usable /\ m.op \notin {"stop", "status"} /\ Replies(heard, "refused") /\ guest' = seen /\ UNCHANGED <<chromes, launches, fence>>

Outside == UNCHANGED <<reserved, coldReceipt, sandbox, handle, leaseEnd, section, confirmed, agreed>>
Watch ==     \* Chrome is gone, the grant ended or never came, or a file fault
  /\ guest.launch # 0 /\ launches[guest.launch] = "running" /\ ~guest.faulted
  /\ guest' = [guest EXCEPT !.faulted = TRUE, !.blocked = TRUE] /\ fence' = GrantRevoked
  /\ Outside /\ UNCHANGED <<tick, chromes, launches, serving, request, late>>
ChromeDies == \E i \in chromes : chromes' = chromes \ {i} /\ Outside /\ UNCHANGED <<tick, launches, guest, serving, fence, request, late>>
GuestStops ==
  /\ serving /\ serving' = FALSE /\ guest' = NoGuest /\ fence' = NoGrant
  /\ Outside /\ UNCHANGED <<tick, chromes, launches, request, late>>
(* It starts again only when nothing of the browsers before it is left, and   *)
(* then takes every one of them for retired.                                *)
\* Mutant: it starts without looking for what is left.
NothingRemains_Assumed == TRUE
NothingRemains == chromes = {}
Bootstrap ==
  /\ ~serving /\ NothingRemains /\ serving' = TRUE
  /\ launches' = [i \in Launches |-> IF launches[i] = "none" THEN "none" ELSE "retired"]
  /\ Outside /\ UNCHANGED <<tick, chromes, guest, fence, request, late>>

-----------------------------------------------------------------------------
(* The gateway reserves a launch before it forwards its start, and answers    *)
(* for what it knows to be retired. It forwards a request once.             *)
Unadmitted(m) == IF m.op = "start" THEN reserved[m.id] # "none" ELSE reserved[m.id] # "reserved"
Forward(m, heard) ==
  /\ coldReceipt = "none"
  /\ \/ /\ Unadmitted(m) /\ GuestKeeps /\ UNCHANGED reserved
        /\ Replies(heard, IF reserved[m.id] = "retired" /\ m.op \in {"status", "stop"} THEN "retired" ELSE "refused")
     \/ /\ ~Unadmitted(m) /\ reserved' = [reserved EXCEPT ![m.id] = "reserved"]
        /\ ((serving /\ GuestExecutes(m, heard)) \/ (Replies(heard, "refused") /\ GuestKeeps))
Beyond == UNCHANGED <<tick, serving, coldReceipt, sandbox, handle, leaseEnd, section, confirmed, agreed>>
Forwarded == /\ request.op # "none" /\ request.answer = "none" /\ Forward(request, TRUE)
           /\ Beyond /\ UNCHANGED late
DeliverLate == late.op # "none" /\ Forward(late, FALSE) /\ Beyond /\ UNCHANGED request

(* A guest of an earlier boot is deleted once, with the gateway stopped; only  *)
(* a confirmed deletion lets another take its place and its launches rest.   *)
Cold == UNCHANGED <<tick, serving, handle, leaseEnd, section, request, late, confirmed, agreed>>
Intend == /\ sandbox = 1 /\ coldReceipt = "none" /\ \E i \in Launches : launches[i] # "none"
          /\ coldReceipt' = "intent" /\ Cold /\ UNCHANGED <<sandbox, reserved>> /\ GuestKeeps
Delete == /\ coldReceipt = "intent" /\ \E receipt \in {"intent", "accepted"} : coldReceipt' = receipt
          /\ Cold /\ UNCHANGED <<sandbox, reserved>> /\ GuestKeeps
Deleted == /\ coldReceipt = "accepted" /\ coldReceipt' = "deleted" /\ chromes' = {} /\ guest' = NoGuest /\ fence' = NoGrant
           /\ Cold /\ UNCHANGED <<sandbox, reserved, launches>>
Replace == /\ coldReceipt = "deleted" /\ coldReceipt' = "none" /\ sandbox' = 2
           /\ launches' = [i \in Launches |-> "none"]
           /\ reserved' = [i \in Launches |-> IF reserved[i] = "none" THEN "none" ELSE "retired"]
           /\ Cold /\ UNCHANGED <<chromes, guest, fence>>

-----------------------------------------------------------------------------
(* The host. One request at a time; a launch is replaced only when it is       *)
(* known to be retired.                                                     *)
HostOnly == UNCHANGED <<tick, chromes, launches, guest, serving, fence, reserved, coldReceipt, sandbox>>
LineFree == request.op = "none" /\ handle.seq < MaxRequest
May == handle.holder /\ leaseEnd > tick /\ ~handle.blocked
Length == IF May THEN Least(GrantSeconds, leaseEnd - tick) ELSE GrantSeconds
GrantToPublish == [NoRequest EXCEPT !.holder = May, !.ttl = Length, !.end = tick + Length, !.lease = IF May THEN leaseEnd ELSE 0]
Send(op, by) ==
  /\ LineFree /\ handle' = [handle EXCEPT !.seq = @ + 1]
  /\ request' = [(IF op = "publish" THEN GrantToPublish ELSE NoRequest) EXCEPT !.id = handle.id, !.op = op, !.by = by, !.seq = handle.seq + 1]
  /\ agreed' = (agreed /\ ~(op = "publish" /\ May))
  /\ HostOnly /\ UNCHANGED <<leaseEnd, section, late, confirmed>>
LaunchChrome ==
  /\ LineFree /\ handle.state \in {"none", "retired"} /\ \E i \in Launches :
       /\ i > handle.id /\ handle' = [NoHandle EXCEPT !.id = i, !.state = "starting", !.seq = 1]
       /\ request' = [NoRequest EXCEPT !.id = i, !.op = "start", !.by = "launch", !.seq = 1]
  /\ agreed' = FALSE /\ leaseEnd' = 0 /\ section' = "idle" /\ HostOnly /\ UNCHANGED <<late, confirmed>>

(* Control changes within the input lock, which holds the guest's input frozen; *)
(* Op is what each step asks of the guest.                                  *)
Op == [take_freeze |-> "freeze", take_grant |-> "publish", take_exit |-> "publish", take_thaw |-> "thaw",
       hand_freeze |-> "freeze", hand_exit |-> "publish", hand_thaw |-> "thaw", drop_publish |-> "publish", drop_drain |-> "drain"]
Then == [take_freeze |-> "take_grant", take_grant |-> "take_exit", take_exit |-> "take_thaw", take_thaw |-> "idle",
         hand_freeze |-> "hand_exit", hand_exit |-> "hand_thaw", hand_thaw |-> "drop_publish",
         drop_publish |-> "drop_drain", drop_drain |-> "idle"]
HandleUsable == handle.state = "running" /\ LineFree
Enter(s) == section = "idle" /\ section' = s /\ HostOnly /\ UNCHANGED <<request, late, confirmed, agreed>>
TakeInput == HandleUsable /\ ~handle.holder /\ ~handle.blocked /\ Enter("take_freeze") /\ UNCHANGED <<handle, leaseEnd>>
HandBack == HandleUsable /\ May /\ Enter("hand_freeze") /\ UNCHANGED <<handle, leaseEnd>>
DropInput ==      \* paused, expired or disconnected
  HandleUsable /\ handle.holder /\ Enter("drop_publish") /\ handle' = [handle EXCEPT !.holder = FALSE] /\ leaseEnd' = 0
Step == HandleUsable /\ section # "idle" /\ Send(Op[section], "section")
Renew == HandleUsable /\ Send("publish", "renew")
Terminate == handle.state \in {"running", "unavailable"} /\ Send("stop", "retire")
AskStatus == handle.state = "unknown" /\ Send("status", "retire")

(* What an answer, or none, makes of the host. An answer that does not come    *)
(* leaves the request where it is, and it may still arrive.                 *)
Withdrawn(h) == [h EXCEPT !.holder = FALSE, !.blocked = TRUE]
\* Mutant: a guest that does not answer is taken for retired.
Retired_Unheard(r) == r \in {"retired", "lost"}
Retired(r) == r = "retired"
AtStart(ok) == handle' = [handle EXCEPT !.state = IF ok THEN "running" ELSE "unknown"] /\ UNCHANGED <<leaseEnd, section, confirmed>>
AtRetire(r) == /\ handle' = [handle EXCEPT !.state = IF Retired(r) THEN "retired" ELSE "unknown"]
               /\ confirmed' = IF Retired(r) THEN confirmed \cup {handle.id} ELSE confirmed
               /\ UNCHANGED <<leaseEnd, section>>
AtRenew(ok) == /\ handle' = IF ok THEN handle ELSE [Withdrawn(handle) EXCEPT !.state = "unavailable"]
               /\ UNCHANGED <<leaseEnd, section, confirmed>>
AtSection(ok) ==
  /\ section' = IF ok \/ section = "take_grant" THEN Then[section] ELSE "idle"
  /\ UNCHANGED confirmed
  /\ CASE section = "take_freeze" /\ ok -> handle' = [handle EXCEPT !.holder = TRUE] /\ leaseEnd' = tick + LeaseSeconds
       [] section = "hand_freeze" /\ ok -> handle' = [handle EXCEPT !.holder = FALSE] /\ leaseEnd' = 0
       [] section = "take_grant" /\ ~ok -> handle' = Withdrawn(handle) /\ leaseEnd' = 0
       [] section \in {"drop_publish", "drop_drain"} /\ ~ok -> handle' = Withdrawn(handle) /\ UNCHANGED leaseEnd
       [] OTHER -> UNCHANGED <<handle, leaseEnd>>
Conclude(r) ==
  /\ request.op # "none" /\ request' = NoRequest
  /\ CASE request.by = "launch" -> AtStart(r = "running")
       [] request.by = "retire" -> AtRetire(r)
       [] request.by = "renew" -> AtRenew(r = "running")
       [] OTHER -> AtSection(r = "running")
  /\ agreed' = IF request.op = "publish" /\ r = "running" THEN ~request.holder ELSE agreed
  /\ HostOnly
HearAnswer == request.answer # "none" /\ Conclude(request.answer) /\ UNCHANGED late
TimeOut == Conclude("lost") /\ late' = IF request.answer = "none" THEN request ELSE late
HostRestarts ==
  /\ handle.state # "none" /\ handle' = [NoHandle EXCEPT !.id = handle.id] /\ request' = NoRequest
  /\ late' = IF request.answer = "none" /\ request.op # "none" THEN request ELSE late
  /\ agreed' = FALSE /\ leaseEnd' = 0 /\ section' = "idle" /\ HostOnly /\ UNCHANGED confirmed
TickOn == tick < MaxTick /\ tick' = tick + 1 /\ Outside /\ UNCHANGED <<chromes, launches, guest, serving, fence, request, late>>

SpaceNext ==
  \/ Watch \/ ChromeDies \/ GuestStops \/ Bootstrap \/ Forwarded \/ DeliverLate
  \/ Intend \/ Delete \/ Deleted \/ Replace
  \/ LaunchChrome \/ TakeInput \/ HandBack \/ DropInput \/ Step \/ Renew \/ Terminate \/ AskStatus
  \/ HearAnswer \/ TimeOut \/ HostRestarts \/ TickOn

-----------------------------------------------------------------------------
\* One browser at a time, and one that the host takes for retired is gone,
\* whichever answer was lost and whichever process restarted between. The guest
\* honours the owner's input only while the lease it was granted under lasts,
\* however late a grant arrives; and never once it acknowledged that nobody
\* holds input, though an older grant may still be on its way.
OneBrowserOneHolder ==
  part = "space" =>
    /\ Cardinality(chromes) <= 1 /\ confirmed \cap chromes = {}
    /\ InputHonoured => tick < fence.lease
    /\ agreed /\ guest.launch = handle.id => ~InputHonoured
=============================================================================
