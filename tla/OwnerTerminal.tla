---------------------------- MODULE OwnerTerminal ----------------------------
(***************************************************************************)
(* The owner's shell on the worker VM (src/runtime/hermes/owner_terminal.py)*)
(* and its relay (src/radhouse/chat/owner_terminal.py).                     *)
(*                                                                         *)
(* One asyncio lock orders the opens of all tabs and is held while a shell  *)
(* is spawned; one lock per shell orders its calls and is held across their *)
(* awaits. Maintenance waits for active_count to reach zero.                *)
(***************************************************************************)
EXTENDS Base, FiniteSets

CONSTANTS
  Tabs,         \* (principal, session, tab) keys
  Bindings,     \* conversation and binding revision the owner presents
  Requests,     \* identities of open requests
  Capacity,     \* shells at once
  RingSize,     \* bytes kept of a shell's output
  MaxCursor, MaxSequence, MaxEpoch, MaxShells

ASSUME TerminalAssumption == IsFiniteSet(Tabs) /\ Capacity \in Nat

VARIABLES
  shell,    \* shell[t]: the entry of sessions under key t
  pending,  \* pending_spawns
  opener,   \* the open call that holds the manager's lock
  latch,   \* latch[t]: the call that holds the shell's lock
  reader,   \* reader[t]: an output call of tab t
  live,     \* live[t]: PTY processes that run for t
  typed,    \* typed[t]: inputs the PTY of t's shell was given
  made,     \* shells made so far; a shell's generation is its number
  held      \* maintenance is held

terminalVars == <<shell, pending, opener, latch, reader, live, typed, made, held>>

NoShell == [state |-> "none", gen |-> 0, epoch |-> 0, req |-> "none", bind |-> "none",
            cursor |-> 0, ring |-> 0, seq |-> 0, outcome |-> "none", cleanup |-> FALSE, late |-> FALSE]
NoOpener == [pc |-> "free", t |-> "none", req |-> "none", bind |-> "none", cancelled |-> FALSE]
NoHolder == [op |-> "free", seq |-> 0]
NoReader == [pc |-> "idle", gen |-> 0, epoch |-> 0, bind |-> "none", cursor |-> 0, expired |-> FALSE]

TerminalInit ==
  /\ shell = [t \in Tabs |-> NoShell] /\ pending = 0 /\ opener = NoOpener
  /\ latch = [t \in Tabs |-> NoHolder] /\ reader = [t \in Tabs |-> NoReader]
  /\ live = [t \in Tabs |-> 0] /\ typed = [t \in Tabs |-> 0]
  /\ made = 0 /\ held = FALSE

TerminalTypeOK ==
  /\ \A t \in Tabs : /\ shell[t].state \in {"none", "open", "exited", "closed"}
                     /\ live[t] \in Nat /\ shell[t].ring <= RingSize
  /\ pending \in 0..1 /\ held \in BOOLEAN

Entries == {t \in Tabs : shell[t].state # "none"}
\* Mutant: a shell stops counting when it is closed.
Counted_WhileOpen(t) == shell[t].state \in {"open", "exited"}
(* active_count *)
Counted(t) == shell[t].state \in {"open", "exited"} \/ shell[t].cleanup
ActiveCount == pending + Cardinality({t \in Tabs : Counted(t)})
Unlocked(t) == latch[t] = NoHolder
Hold(t, op, seq) == latch' = [latch EXCEPT ![t] = [op |-> op, seq |-> seq]]
Release(t) == latch' = [latch EXCEPT ![t] = NoHolder]

Maintain == held' = ~held /\ UNCHANGED <<shell, pending, opener, latch, reader, live, typed, made>>

-----------------------------------------------------------------------------
(* open *)
Pruned == [t \in Tabs |-> IF Counted(t) THEN shell[t] ELSE NoShell]
BeginOpen(t, req, bind) ==
  /\ opener = NoOpener /\ ~held /\ pending = 0
  /\ shell' = Pruned
  /\ ~Pruned[t].cleanup
  /\ LET new == Pruned[t].state = "none" IN
     /\ new => ActiveCount < Capacity
     /\ pending' = IF new THEN 1 ELSE 0
     /\ opener' = [pc |-> IF new THEN "spawn" ELSE "attach", t |-> t, req |-> req, bind |-> bind,
                   cancelled |-> FALSE]
  /\ UNCHANGED <<latch, reader, live, typed, made, held>>
(* An open shell is taken over; the call may have waited for its lock, and  *)
(* the shell be closed by the time it gets it.                              *)
Attach ==
  LET t == opener.t  s == shell[t] IN
  /\ opener.pc = "attach" /\ Unlocked(t)
  /\ shell' = IF held THEN shell ELSE
       [shell EXCEPT ![t].epoch = IF s.req # opener.req \/ s.bind # opener.bind THEN @ + 1 ELSE @,
                     ![t].req = opener.req, ![t].bind = opener.bind, ![t].late = FALSE]
  /\ opener' = NoOpener
  /\ UNCHANGED <<pending, latch, reader, live, typed, made, held>>
(* The client goes away while the shell is spawned. *)
CancelOpen ==
  /\ opener.pc = "spawn" /\ ~opener.cancelled /\ opener' = [opener EXCEPT !.cancelled = TRUE]
  /\ UNCHANGED <<shell, pending, latch, reader, live, typed, made, held>>
(* The factory returns; known: the new process could be looked up.          *)
Spawned(known) ==
  LET t == opener.t IN
  /\ opener.pc = "spawn" /\ made < MaxShells /\ live' = [live EXCEPT ![t] = @ + 1]
  /\ IF opener.cancelled \/ ~known
     THEN opener' = [opener EXCEPT !.pc = "discard"] /\ UNCHANGED <<shell, pending, typed, made>>
     ELSE /\ shell' = [shell EXCEPT ![t] = [NoShell EXCEPT !.state = "open", !.gen = made + 1, !.epoch = 1,
                         !.req = opener.req, !.bind = opener.bind]]
          /\ typed' = [typed EXCEPT ![t] = 0] /\ made' = made + 1
          /\ pending' = 0 /\ opener' = NoOpener
  /\ UNCHANGED <<latch, reader, held>>
(* The factory fails: what it left behind is unknown and stays counted.     *)
SpawnFails(child) ==
  /\ opener.pc = "spawn" /\ opener' = NoOpener
  /\ live' = [live EXCEPT ![opener.t] = IF child THEN @ + 1 ELSE @]
  /\ UNCHANGED <<shell, pending, latch, reader, typed, made, held>>
Discard ==
  /\ opener.pc = "discard" /\ opener' = NoOpener /\ pending' = 0
  /\ live' = [live EXCEPT ![opener.t] = @ - 1]
  /\ UNCHANGED <<shell, latch, reader, typed, made, held>>

-----------------------------------------------------------------------------
(* Calls on a bound shell. Every one renews its deadline.                   *)
Bound(t, gen, epoch, bind) ==
  shell[t].gen = gen /\ shell[t].epoch = epoch /\ shell[t].bind = bind
Usable(t) == shell[t].state \in {"open", "exited"} /\ Unlocked(t)
Seen(t) == [shell EXCEPT ![t].late = FALSE]

Status(t, bind) ==
  /\ Usable(t) /\ shell[t].bind = bind /\ shell' = Seen(t)
  /\ UNCHANGED <<pending, opener, latch, reader, live, typed, made, held>>

(* input: the number is checked, the descendants are sampled in a thread,   *)
(* and only then maintenance is asked again and the bytes are written.      *)
BeginInput(t, gen, epoch, bind, seq) ==
  /\ Usable(t) /\ Bound(t, gen, epoch, bind) /\ shell' = Seen(t)
  /\ IF seq = shell[t].seq + 1 /\ shell[t].state = "open" THEN Hold(t, "input", seq) ELSE UNCHANGED latch
  /\ UNCHANGED <<pending, opener, reader, live, typed, made, held>>
WriteInput(t) ==
  /\ latch[t].op = "input"
  /\ IF held THEN Release(t) /\ UNCHANGED <<shell, typed>>
     ELSE /\ shell' = [shell EXCEPT ![t].seq = latch[t].seq, ![t].outcome = "uncertain"]
          /\ typed' = [typed EXCEPT ![t] = @ + 1]
          /\ Hold(t, "written", 0)
  /\ UNCHANGED <<pending, opener, reader, live, made, held>>
EndInput(t, ok) ==
  /\ latch[t].op = "written" /\ Release(t)
  /\ shell' = IF ok THEN [shell EXCEPT ![t].outcome = "written"] ELSE shell
  /\ UNCHANGED <<pending, opener, reader, live, typed, made, held>>

(* output: a poll that waits without the lock. *)
BeginOutput(t, gen, epoch, bind, cursor) ==
  /\ Usable(t) /\ Bound(t, gen, epoch, bind) /\ cursor <= shell[t].cursor
  /\ reader[t].pc # "waiting" /\ shell' = Seen(t)
  /\ reader' = [reader EXCEPT ![t] = [pc |-> "waiting", gen |-> gen, epoch |-> epoch, bind |-> bind,
                                      cursor |-> cursor, expired |-> FALSE]]
  /\ UNCHANGED <<pending, opener, latch, live, typed, made, held>>
ExpireReader(t) ==
  /\ reader[t].pc = "waiting" /\ ~reader[t].expired
  /\ reader' = [reader EXCEPT ![t].expired = TRUE]
  /\ UNCHANGED <<shell, pending, opener, latch, live, typed, made, held>>
(* What is answered starts at the cursor or where the ring does. *)
EndOutput(t) ==
  LET r == reader[t]  s == shell[t]  first == s.cursor - s.ring IN
  /\ r.pc = "waiting" /\ Unlocked(t)
  /\ reader' = [reader EXCEPT ![t] =
       IF Bound(t, r.gen, r.epoch, r.bind) /\ ~r.expired /\ s.cursor > r.cursor
       THEN [r EXCEPT !.pc = "answered", !.cursor = IF first > @ THEN first ELSE @]
       ELSE NoReader]
  /\ UNCHANGED <<shell, pending, opener, latch, live, typed, made, held>>

-----------------------------------------------------------------------------
Kept(ring) == IF ring < RingSize THEN ring + 1 ELSE ring
(* The drain task of a shell. *)
DrainOutput(t) ==
  /\ shell[t].state = "open" /\ shell[t].cursor < MaxCursor
  /\ shell' = [shell EXCEPT ![t].cursor = @ + 1, ![t].ring = Kept(@)]
  /\ UNCHANGED <<pending, opener, latch, reader, live, typed, made, held>>
Exit(t) ==
  /\ shell[t].state = "open" /\ live[t] > 0
  /\ shell' = [shell EXCEPT ![t].state = "exited"] /\ live' = [live EXCEPT ![t] = @ - 1]
  /\ UNCHANGED <<pending, opener, latch, reader, typed, made, held>>
(* The caller's authority or the reconnection grace ends. *)
Elapse(t) ==
  /\ shell[t].state \in {"open", "exited"} /\ ~shell[t].late
  /\ shell' = [shell EXCEPT ![t].late = TRUE]
  /\ UNCHANGED <<pending, opener, latch, reader, live, typed, made, held>>

(* _finish, from close, the drain's deadline, its error or shutdown: the    *)
(* processes are ended in a thread while the shell's lock is held.          *)
Finish(t, asked) ==
  /\ Usable(t) /\ (asked \/ shell[t].late)
  /\ shell' = [shell EXCEPT ![t].state = "closed", ![t].cleanup = TRUE]
  /\ Hold(t, "finish", 0)
  /\ UNCHANGED <<pending, opener, reader, live, typed, made, held>>
Finished(t) ==
  /\ latch[t].op = "finish" /\ Release(t)
  /\ live' = [live EXCEPT ![t] = IF shell[t].gen # 0 /\ @ > 0 THEN @ - 1 ELSE @]
  /\ shell' = [shell EXCEPT ![t].ring = 0, ![t].cleanup = FALSE]
  /\ UNCHANGED <<pending, opener, reader, typed, made, held>>

Calls(t) ==
  \/ \E bind \in Bindings :
       \/ Status(t, bind)
       \/ \E gen \in 1..MaxShells, epoch \in 1..MaxEpoch :
            \/ \E seq \in 1..MaxSequence : BeginInput(t, gen, epoch, bind, seq)
            \/ \E cursor \in 0..MaxCursor : BeginOutput(t, gen, epoch, bind, cursor)
  \/ WriteInput(t) \/ (\E ok \in BOOLEAN : EndInput(t, ok))
  \/ ExpireReader(t) \/ EndOutput(t)
  \/ DrainOutput(t) \/ Exit(t) \/ Elapse(t) \/ (\E asked \in BOOLEAN : Finish(t, asked)) \/ Finished(t)
TerminalNext ==
  \/ Maintain
  \/ \E t \in Tabs, req \in Requests, bind \in Bindings : BeginOpen(t, req, bind)
  \/ Attach \/ CancelOpen \/ (\E known \in BOOLEAN : Spawned(known))
  \/ (\E child \in BOOLEAN : SpawnFails(child)) \/ Discard
  \/ \E t \in Tabs : Calls(t)

-----------------------------------------------------------------------------
(* What maintenance waits for is what runs: the PTY processes of a tab are  *)
(* always counted, through a cancelled or failed spawn and until a closed   *)
(* shell's processes are gone; a tab never has two shells.                  *)
ShellsAreCounted ==
  part = "terminal" =>
    /\ \A t \in Tabs : live[t] > 0 => Counted(t) \/ pending > 0
    /\ pending = 0 => \A t \in Tabs : live[t] <= 1
    /\ Cardinality({t \in Tabs : Counted(t)}) <= Capacity
    /\ \A t \in Tabs : typed[t] = shell[t].seq \/ shell[t].state = "none"
=============================================================================
