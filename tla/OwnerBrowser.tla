---------------------------- MODULE OwnerBrowser ----------------------------
(***************************************************************************)
(* The shared browser of a conversation: the agent's operations             *)
(* (src/runtime/hermes/bridge.py), the channel to the native driver          *)
(* (native_control.py) and the owner's streamed input                        *)
(* (src/runtime/selkies/control.py, platform.py), over the row of            *)
(* BrowserControl.  The operation lock orders threads, the transition and     *)
(* input locks the tasks of the stream; the row is all they share.           *)
(***************************************************************************)
EXTENDS BrowserControl

VARIABLES
  native,     \* the driver process: "none", "up", "gone"
  owned,      \* this process holds the handle of the driver
  line,       \* commands in the driver's channel, oldest first
  op,         \* who holds the operation lock
  agent,      \* the agent's browser operation
  ended,      \* the admitted run has reached a terminal status
  stream,     \* the stream of the browser: "none", "up", "stopping"
  blocked,    \* the boundary refuses for good
  token,      \* whose input the stream accepts
  holder,     \* input_owner: whose input was not drained yet
  event,      \* an input event is in X11 dispatch
  keys,       \* the X server holds keys or buttons pressed
  input,      \* who holds the input lock
  tr,         \* the holder of the transition lock and where it is
  handover,   \* the revision of a drained hand-back
  login,      \* a call of the owner that fills in a login
  watched,    \* an agent's observation of the owner's page
  withdrawn   \* history: how often an observation grant ended

handleVars == <<native, owned>>
agentVars == <<op, agent, ended>>
streamVars == <<stream, blocked, token, holder, event, keys, input, tr, handover>>
callVars == <<login, watched>>
browserVars == <<controlVars, handleVars, line, agentVars, streamVars, callVars, withdrawn>>

FreeTr == [pc |-> "free", op |-> None, v |-> None, rev |-> 0]
NoLogin == [pc |-> "idle", seq |-> 0]
NoWatch == [pc |-> "idle", v |-> None, lid |-> 0, epoch |-> 0, ends |-> 0]

StreamInit ==
  /\ stream = "none" /\ blocked = FALSE /\ token = None /\ holder = None /\ event = FALSE
  /\ keys = FALSE /\ input = "free" /\ tr = FreeTr /\ handover = 0
BrowserInit ==
  /\ ControlInit /\ StreamInit /\ native = "none" /\ owned = FALSE /\ line = <<>>
  /\ op = "free" /\ agent = "idle" /\ ended = FALSE /\ login = NoLogin /\ watched = NoWatch /\ withdrawn = 0

BrowserTypeOK ==
  /\ ControlTypeOK
  /\ token \in Viewers \cup {None} /\ (token # None => token = holder)
  /\ Len(line) <= 2 /\ (input = "login" <=> login.pc # "idle")

-----------------------------------------------------------------------------
(* The driver's channel: one command executes, one may wait.                *)
Submit(kind) == native = "up" /\ owned /\ Len(line) < 2 /\ line' = Append(line, kind)
Executing(kind) == line # <<>> /\ Head(line) = kind
Waiting(kind) == \E i \in 1..Len(line) : line[i] = kind
Execute == line # <<>> /\ line' = Tail(line)
           /\ UNCHANGED <<controlVars, handleVars, agentVars, streamVars, callVars>>
(* The driver exits; what its channel held is lost. *)
DriverExits == native = "up" /\ native' = "gone" /\ line' = <<>>
               /\ UNCHANGED <<controlVars, owned, agentVars, streamVars, callVars>>

(* _current_owned: a driver that is positively gone is retired.             *)
CurrentOwned ==
  /\ native = "gone" /\ RetireBrowser /\ native' = "none" /\ owned' = FALSE /\ line' = <<>>
  /\ UNCHANGED <<agentVars, streamVars, callVars>>
Launch(run) ==
  /\ native = "none" /\ stream = "none" /\ op = "free" /\ agent = "idle" /\ BindBrowser(run)
  /\ native' = "up" /\ owned' = TRUE /\ line' = <<>> /\ ended' = FALSE /\ handover' = 0
  /\ stream' = "up" /\ blocked' = FALSE
  /\ UNCHANGED <<op, agent, token, holder, event, keys, input, tr, callVars>>
(* ensure: a stream that was stopped begins again for a driver that lives.   *)
Ensure ==
  /\ native = "up" /\ owned /\ stream = "none" /\ stream' = "up" /\ blocked' = FALSE /\ handover' = 0
  /\ UNCHANGED <<controlVars, handleVars, line, agentVars, token, holder, event, keys, input, tr, callVars>>
(* The gateway's process dies and starts; the driver may live on.           *)
Crash(dies) ==
  /\ native = "up" /\ owned /\ RecoverStartup
  /\ owned' = FALSE /\ native' = (IF dies THEN "gone" ELSE "up") /\ line' = IF dies THEN <<>> ELSE line
  /\ op' = "free" /\ agent' = "idle" /\ ended' = TRUE
  /\ login' = NoLogin /\ watched' = NoWatch
  /\ stream' = "none" /\ blocked' = FALSE /\ token' = None /\ holder' = None /\ event' = FALSE
  /\ keys' = FALSE /\ input' = "free" /\ tr' = FreeTr /\ handover' = 0

-----------------------------------------------------------------------------
(* agent_browser_operation: the lock, the reservation, commands, the end.   *)
BeginOperation(run) == op = "free" /\ owned /\ ReserveAgent(run) /\ op' = "agent"
AgentBegin(run) ==
  /\ agent = "idle" /\ BeginOperation(run) /\ agent' = "reserved"
  /\ UNCHANGED <<handleVars, line, ended, streamVars, callVars>>
AgentCommand ==
  /\ agent = "reserved" /\ Submit("agent") /\ agent' = "sent"
  /\ UNCHANGED <<controlVars, handleVars, op, ended, streamVars, callVars>>
(* The answer, a refusal of the channel, or a deadline that leaves the       *)
(* command behind; the row may have been retired meanwhile.                  *)
AgentEnd ==
  /\ agent \in {"reserved", "sent"}
  /\ IF br.cmd = "agent"
     THEN CompleteAgent(br.run, agent = "reserved" \/ (~Waiting("agent") /\ native = "up")) ELSE UNCHANGED controlVars
  /\ agent' = "idle" /\ op' = "free"
  /\ UNCHANGED <<handleVars, line, ended, streamVars, callVars>>
RunEnds == br.run # None /\ ~ended /\ ended' = TRUE
           /\ UNCHANGED <<controlVars, handleVars, line, op, agent, streamVars, callVars>>
(* The admission of a run with the browser: after a hand-back, or while the  *)
(* agent holds it.                                                           *)
Admit(run) ==
  /\ owned /\ stream = "up" /\ AdmitRun(run, ended, handover) /\ handover' = 0 /\ ended' = FALSE
  /\ UNCHANGED <<handleVars, line, op, agent, stream, blocked, token, holder, event, keys, input, tr, callVars>>
(* _metadata_observation, under the operation lock.                         *)
ReadPage ==
  /\ op = "free" /\ br.cmd = None /\ ~maintenance /\ br.mode \notin {"recovering", "takeover_pending"}
  /\ Submit("page") /\ op' = "page"
  /\ UNCHANGED <<controlVars, handleVars, agent, ended, streamVars, callVars>>
PageRead == op = "page" /\ ~Waiting("page") /\ op' = "free"
            /\ UNCHANGED <<controlVars, handleVars, line, agent, ended, streamVars, callVars>>

-----------------------------------------------------------------------------
(* Input of the owner.  A dispatch holds the input lock.                     *)
Authorized(v) == ~blocked /\ v # None /\ v = token /\ native = "up"
                 /\ Leased(v) /\ br.cmd = None
BeginEvent ==
  /\ stream = "up" /\ input = "free" /\ Authorized(token) /\ input' = "event" /\ event' = TRUE
  /\ UNCHANGED <<controlVars, handleVars, line, agentVars, stream, blocked, token, holder, keys, tr, handover, callVars>>
EndEvent(down) ==
  /\ event /\ input' = "free" /\ event' = FALSE /\ keys' = down
  /\ UNCHANGED <<controlVars, handleVars, line, agentVars, stream, blocked, token, holder, tr, handover, callVars>>
(* _human_login: reserved and completed by its sequence number.             *)
BeginLogin(v, seq) ==
  /\ stream = "up" /\ input = "free" /\ login.pc = "idle" /\ ~Repeated(seq) /\ ReserveInput(v, seq)
  /\ input' = "login" /\ login' = [pc |-> "reserved", seq |-> seq]
  /\ UNCHANGED <<handleVars, line, agentVars, stream, blocked, token, holder, event, keys, tr, handover, watched>>
LoginCommand ==
  /\ login.pc = "reserved" /\ op = "free" /\ Submit("login") /\ op' = "login" /\ login' = [login EXCEPT !.pc = "sent"]
  /\ UNCHANGED <<controlVars, handleVars, agent, ended, streamVars, watched>>
LoginEnd ==
  LET lost == login.pc = "sent" /\ (Waiting("login") \/ native # "up") IN
  /\ login.pc = "reserved" => op = "free"
  /\ login.pc \in {"reserved", "sent"}
  /\ IF br.cmd = "human" /\ br.seq = login.seq
     THEN \E outcome \in IF lost THEN {"uncertain"} ELSE {"applied", "rejected"} : CompleteInput(outcome)
     ELSE UNCHANGED controlVars
  /\ op' = (IF login.pc = "sent" THEN "free" ELSE op) /\ login' = NoLogin /\ input' = "free"
  /\ UNCHANGED <<handleVars, line, agent, ended, stream, blocked, token, holder, event, keys, tr, handover, watched>>

-----------------------------------------------------------------------------
(* Transitions, one at a time.  A grant closes the former token, drains what  *)
(* it left pressed, and fences the driver before the new token is given.      *)
Free == stream = "up" /\ tr.pc = "free"
Go(pc, name, v, rev) == tr' = [pc |-> pc, op |-> name, v |-> v, rev |-> rev]
GrantFrom(name, v, rev) ==
  IF token # None THEN token' = None /\ Go("drain", name, v, rev) ELSE UNCHANGED token /\ Go("fence", name, v, rev)
Take(v) ==
  /\ Free /\ ~blocked /\ native = "up" /\ owned /\ RequestTakeover(v)
  /\ IF br.cmd = None THEN GrantFrom("grant", v, br'.rev) ELSE UNCHANGED <<token, tr>>
  /\ UNCHANGED <<handleVars, line, agentVars, stream, blocked, holder, event, keys, input, handover, callVars>>
SettleTakeover ==
  /\ Free /\ ~blocked /\ br.mode = "takeover_pending" /\ br.cmd = None /\ GrantFrom("grant", br.lease, br.rev)
  /\ UNCHANGED <<controlVars, handleVars, line, agentVars, stream, blocked, holder, event, keys, input, handover, callVars>>
Move(v) ==
  /\ Free /\ ~blocked /\ br.mode = "human" /\ br.lease # v /\ br.cmd = None /\ Pause(br.lease)
  /\ token' = None /\ Go("drain", "move", v, br'.rev)
  /\ UNCHANGED <<handleVars, line, agentVars, stream, blocked, holder, event, keys, input, handover, callVars>>
(* reconcile, disconnect and the pause of the owner. *)
Reconcile(gone) ==
  /\ Free /\ token # None /\ (gone \/ ~Authorized(token))
  /\ IF br.mode = "human" /\ br.lease = holder THEN Pause(holder) ELSE UNCHANGED controlVars
  /\ token' = None /\ Go("drain", "close", None, 0)
  /\ UNCHANGED <<handleVars, line, agentVars, stream, blocked, holder, event, keys, input, handover, callVars>>
PauseOwner(v) == owned /\ Pause(v) /\ UNCHANGED <<handleVars, line, agentVars, streamVars, callVars>>

\* Mutant: what the owner holds pressed stays pressed.
Released_Nothing == UNCHANGED keys
(* _drain_locked: buttons and keys are released and read back. *)
Released == keys' = FALSE
Fail == blocked' = TRUE /\ tr' = FreeTr
Drain(ok) ==
  /\ tr.pc = "drain" /\ input = "free"
  /\ IF ~ok THEN Fail /\ UNCHANGED <<controlVars, keys, holder>>
     ELSE /\ Released /\ holder' = IF tr.op = "return" THEN holder ELSE None
          /\ IF tr.op = "move"
             THEN IF br.rev = tr.rev /\ Takeable
                  THEN RequestTakeover(tr.v) /\ Go("fence", "move", tr.v, br'.rev) /\ UNCHANGED blocked
                  ELSE Fail /\ UNCHANGED controlVars
             ELSE /\ tr' = CASE tr.op = "grant" -> [tr EXCEPT !.pc = "fence"]
                             [] tr.op = "return" -> [tr EXCEPT !.pc = "observe"]
                             [] OTHER -> FreeTr
                  /\ UNCHANGED <<controlVars, blocked>>
  /\ UNCHANGED <<handleVars, line, agentVars, stream, token, event, input, handover, callVars>>
(* fence_after: nothing may be pending in the channel.                       *)
Abort == IF tr.op = "move" THEN Fail ELSE UNCHANGED blocked /\ tr' = FreeTr
Fence ==
  /\ tr.pc = "fence"
  /\ IF line = <<>> /\ native = "up" THEN Submit("fence") /\ tr' = [tr EXCEPT !.pc = "fenced"] /\ UNCHANGED blocked
     ELSE Abort /\ UNCHANGED line
  /\ UNCHANGED <<controlVars, handleVars, agentVars, stream, token, holder, event, keys, input, handover, callVars>>
Grant(published) ==
  /\ tr.pc = "fenced" /\ ~Waiting("fence") /\ input = "free"
  /\ IF native = "up" /\ Confirmable(tr.rev)
     THEN IF published
          THEN /\ ConfirmTakeover(tr.rev) /\ token' = br.lease /\ holder' = br.lease /\ tr' = FreeTr /\ UNCHANGED blocked
          ELSE Revise(Revoked("paused")) /\ holder' = br.lease /\ Fail /\ UNCHANGED token
     ELSE Abort /\ UNCHANGED <<controlVars, token, holder>>
  /\ UNCHANGED <<handleVars, line, agentVars, stream, event, keys, input, handover, callVars>>
(* handback: the check for sensitive fields holds the input lock.            *)
Handback(v) ==
  /\ Free /\ input = "free" /\ Leased(v) /\ input' = "return" /\ Go("clear", "return", v, br.rev)
  /\ UNCHANGED <<controlVars, handleVars, line, agentVars, stream, blocked, token, holder, event, keys, handover, callVars>>
Clear(clean) ==
  /\ tr.pc = "clear" /\ input' = "free"
  /\ IF clean /\ Leased(tr.v) /\ br.rev = tr.rev
     THEN BeginReturn(tr.v) /\ token' = None /\ Go("drain", "return", tr.v, br'.rev)
     ELSE UNCHANGED <<controlVars, token>> /\ tr' = FreeTr
  /\ UNCHANGED <<handleVars, line, agentVars, stream, blocked, holder, event, keys, handover, callVars>>
Observe ==
  /\ tr.pc = "observe"
  /\ IF Len(line) < 2 /\ native = "up" THEN Submit("snapshot") /\ tr' = [tr EXCEPT !.pc = "observed"] /\ UNCHANGED blocked
     ELSE Fail /\ UNCHANGED line
  /\ UNCHANGED <<controlVars, handleVars, agentVars, stream, token, holder, event, keys, input, handover, callVars>>
Resume ==
  /\ tr.pc = "observed" /\ ~Waiting("snapshot")
  /\ IF native = "up" THEN handover' = tr.rev /\ holder' = None /\ tr' = FreeTr /\ UNCHANGED blocked
     ELSE Fail /\ UNCHANGED <<handover, holder>>
  /\ UNCHANGED <<controlVars, handleVars, line, agentVars, stream, token, event, keys, input, callVars>>

-----------------------------------------------------------------------------
(* What an agent may see of the owner's page: a grant of the lease, checked   *)
(* before and after the capture.                                             *)
Visibility(v, observe) ==
  /\ Free /\ ObservationMode(v, observe)
  /\ UNCHANGED <<handleVars, line, agentVars, streamVars, callVars>>
BeginObservation(v) ==
  /\ watched.pc = "idle" /\ stream = "up" /\ br.observe /\ Leased(v)
  /\ watched' = [NoWatch EXCEPT !.pc = "granted", !.v = v, !.lid = br.lid, !.epoch = br.epoch]
  /\ UNCHANGED <<controlVars, handleVars, line, agentVars, streamVars, login>>
Capture ==
  /\ watched.pc = "granted" /\ input = "free"
  /\ IF Observable(watched.v, watched.lid, watched.epoch) /\ Len(line) < 2 /\ native = "up"
     THEN Submit("capture") /\ input' = "capture" /\ watched' = [watched EXCEPT !.pc = "captured", !.ends = withdrawn]
     ELSE watched' = NoWatch /\ UNCHANGED <<line, input>>
  /\ UNCHANGED <<controlVars, handleVars, agentVars, stream, blocked, token, holder, event, keys, tr, handover, login>>
Deliver ==
  /\ watched.pc = "captured" /\ ~Waiting("capture") /\ input' = "free"
  /\ watched' = IF native = "up" /\ Observable(watched.v, watched.lid, watched.epoch)
                THEN [watched EXCEPT !.pc = "shown", !.ends = withdrawn - @] ELSE NoWatch
  /\ UNCHANGED <<controlVars, handleVars, line, agentVars, stream, blocked, token, holder, event, keys, tr, handover, login>>
Shown == watched.pc = "shown" /\ watched' = NoWatch
         /\ UNCHANGED <<controlVars, handleVars, line, agentVars, streamVars, login>>

-----------------------------------------------------------------------------
(* _owner_close, the failing watcher, and the end of a stream.               *)
Close ==
  /\ op = "free" /\ owned /\ stream = "up" /\ br.cmd = None
  /\ IF br.mode = "human" THEN BeginReturn(br.lease) ELSE BeginClose(ended)
  /\ Submit("close") /\ stream' = "stopping" /\ blocked' = TRUE /\ token' = None
  /\ UNCHANGED <<handleVars, agentVars, holder, event, keys, input, tr, handover, callVars>>
WatchFails ==
  /\ stream = "up" /\ native # "up"
  /\ IF br.lease # None THEN Pause(br.lease) ELSE UNCHANGED controlVars
  /\ stream' = "stopping" /\ blocked' = TRUE /\ token' = None
  /\ UNCHANGED <<handleVars, line, agentVars, holder, event, keys, input, tr, handover, callVars>>
ProbeDriver == line = <<>> /\ Submit("probe")
(* The owner's page asks in turn; the probe of the driver does not wait for   *)
(* the operation lock, so that it may find an agent's reservation.           *)
Heartbeat(v) ==
  /\ owned /\ stream = "up" /\ (Renewable(v) \/ Present) /\ ProbeDriver
  /\ UNCHANGED <<controlVars, handleVars, agentVars, streamVars, callVars>>
(* Only a confirmed drain releases the stream; a transition that is left    *)
(* fails on the closed channel.                                              *)
Cleanup ==
  /\ stream = "stopping" /\ input = "free" /\ tr.pc = "free"
  /\ stream' = "none" /\ keys' = FALSE /\ holder' = None
  /\ UNCHANGED <<controlVars, handleVars, line, agentVars, blocked, token, event, input, tr, handover, callVars>>
Ends(A) == A /\ UNCHANGED <<handleVars, line, agentVars, streamVars, callVars>>

OwnerAsks(v) ==
  \/ Launch(None) \/ Take(v) \/ Move(v) \/ (\E observe \in BOOLEAN : Visibility(v, observe))
  \/ Heartbeat(v) \/ PauseOwner(v) \/ Close \/ SettleTakeover
BrowserSteps ==
  \/ Execute \/ DriverExits \/ CurrentOwned \/ (\E run \in Runs : Launch(run)) \/ Ensure
  \/ (\E dies \in BOOLEAN : Crash(dies))
  \/ (\E run \in Runs : AgentBegin(run) \/ Admit(run))
  \/ AgentCommand \/ AgentEnd \/ RunEnds \/ ReadPage \/ PageRead
  \/ BeginEvent \/ (\E down \in BOOLEAN : EndEvent(down))
  \/ (\E v \in Viewers, seq \in 1..MaxInputs : BeginLogin(v, seq)) \/ LoginCommand \/ LoginEnd
  \/ (\E v \in Viewers : OwnerAsks(v) \/ Handback(v) \/ BeginObservation(v))
  \/ (\E gone \in BOOLEAN : Reconcile(gone)) \/ (\E ok \in BOOLEAN : Drain(ok) \/ Grant(ok) \/ Clear(ok))
  \/ Fence \/ Observe \/ Resume \/ Capture \/ Deliver \/ Shown \/ WatchFails \/ Cleanup
  \/ Ends(LeaseLapses) \/ Ends(ToggleHold)
BrowserNext ==
  /\ BrowserSteps
  /\ withdrawn' = withdrawn + IF br.observe /\ (~br'.observe \/ br'.lease # br.lease) THEN 1 ELSE 0

-----------------------------------------------------------------------------
\* The agent and the owner never act on the page together: while a command of
\* an agent is in the driver, no input event is in dispatch and no key or
\* button of the owner is held down; a command nobody waits for any more keeps
\* its browser in recovery; and what is shown to an agent of the owner's page
\* was captured under one grant that never ended in between.
HandsApart ==
  part = "browser" =>
    /\ Waiting("agent") => ~event /\ ~keys /\ ~Waiting("login")
    /\ Waiting("agent") /\ agent = "idle" => br.mode = "recovering"
    /\ watched.pc = "shown" => watched.ends = 0

\* A command whose outcome is unknown is followed by no other in its browser:
\* until the driver is positively gone nobody gets control of it.
UncertaintySticks ==
  [][part = "browser" /\ br.mode = "recovering" /\ ~br.retired =>
       br'.mode = "recovering" \/ br'.retired]_browserVars
=============================================================================
