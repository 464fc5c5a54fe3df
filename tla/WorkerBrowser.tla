---------------------------- MODULE WorkerBrowser ----------------------------
(***************************************************************************)
(* The owner's browser beside the gateway. The adapter                       *)
(* (runtime/selkies/platform.py, network_client.py) asks a worker in a unit  *)
(* of its own (network_worker.py) for one Chrome at a time. Three threads     *)
(* ask: the one that launches, the one that retires, and a monitor. Each      *)
(* request has a connection of its own, so requests reach the worker in any   *)
(* order; its lock serves one after another. A request whose answer does not  *)
(* come may still be served. The worker's memory does not survive it.       *)
(***************************************************************************)
EXTENDS Base, FiniteSets

CONSTANTS Spawns,       \* launches, numbered as the adapter makes them up
          MaxStops      \* how often the unit of the worker stops

\* Launches are numbered from 1.
ASSUME WorkerAssumption == Spawns \subseteq Nat \ {0}

VARIABLES
  worker,       \* its unit runs; how often it stopped
  launch, spawned,    \* the worker's launch_id, 0 for none, and whether its Chrome was started
  starting,     \* the start that holds the lock, 0 for none
  known,        \* the launches it remembers as retired
  processes,    \* launches of which any process is left in the unit
  living,       \* those whose Chrome itself lives
  asked,        \* requests: what they ask, their answer, and whether somebody waits for it
  chromeOf,     \* the adapter's handle: its launch and state
  tunnel,       \* the launch its loopback tunnel leads to, 0 for none
  ceased          \* history: launches the adapter took for refused or retired

unitVars == <<launch, spawned, starting, known, processes, living>>
adapterVars == <<chromeOf, tunnel, ceased>>
workerVars == <<worker, unitVars, asked, adapterVars>>

NoChrome == [id |-> 0, state |-> "none"]
WorkerInit ==
  /\ worker = [up |-> TRUE, stops |-> 0] /\ launch = 0 /\ spawned = FALSE /\ starting = 0 /\ known = {}
  /\ processes = {} /\ living = {} /\ asked = {} /\ chromeOf = NoChrome /\ tunnel = 0 /\ ceased = {}
WorkerTypeOK ==
  /\ launch \in Spawns \cup {0} /\ living \subseteq processes /\ processes \subseteq Spawns
  /\ starting # 0 => starting = launch
  /\ chromeOf.state \in {"none", "starting", "unknown", "running", "retired"}
  /\ \A q \in asked : q.id \in Spawns /\ q.op \in {"start", "stop", "status"}

-----------------------------------------------------------------------------
(* The worker. An answer finds the thread that waits for it, if one does.    *)
Unserved(op) == {q \in asked : q.op = op /\ q.answer = "none"}
UnitFree == worker.up /\ starting = 0
ReplyTo(q, r) ==
  /\ asked' = (asked \ {q}) \cup (IF q.waits THEN {[q EXCEPT !.answer = r]} ELSE {})
  /\ UNCHANGED <<worker, adapterVars>>
Memory == <<launch, spawned, known, processes, living>>

\* Mutant: only the Chrome itself is waited for, not what it started.
Reaped_Chrome(left) == living' = {}
(* A launch is retired once no process is left in the unit.                  *)
Reaped(left) == left = {}
(* stop, of the launch that is held; one that fails leaves it held.          *)
StopHeld(q, done, failed) ==
  \E left \in SUBSET processes :
    /\ processes' = left /\ living' \in SUBSET (living \cap left)
    /\ \/ Reaped(left) /\ launch' = 0 /\ spawned' = FALSE /\ known' = known \cup {launch} /\ ReplyTo(q, done)
       \/ UNCHANGED <<launch, spawned, known>> /\ ReplyTo(q, failed)

RefuseStart(q) ==
  /\ UnitFree /\ (launch # 0 \/ q.id \in known)
  /\ ReplyTo(q, "rejected") /\ UNCHANGED unitVars
(* The launch is reserved before any process of it.                         *)
BeginStart(q) ==
  /\ UnitFree /\ launch = 0 /\ q.id \notin known /\ launch' = q.id /\ starting' = q.id
  /\ spawned' \in BOOLEAN /\ processes' = (IF spawned' THEN {q.id} ELSE {}) /\ living' = processes'
  /\ UNCHANGED <<worker, known, asked, adapterVars>>
EndStart(q) ==
  /\ worker.up /\ starting = q.id /\ starting' = 0
  /\ \/ launch \in living /\ ReplyTo(q, "running") /\ UNCHANGED Memory
     \/ StopHeld(q, "rejected", "retained")
AnswerStop(q) ==
  /\ UnitFree /\ UNCHANGED starting
  /\ \/ q.id # launch /\ ReplyTo(q, IF q.id \in known THEN "retired" ELSE "unknown") /\ UNCHANGED Memory
     \/ q.id = launch /\ StopHeld(q, "retired", "lost")
(* A Chrome found dead is cleaned up by the question for its status.         *)
AnswerStatus(q) ==
  /\ UnitFree /\ UNCHANGED starting
  /\ \/ q.id # launch /\ ReplyTo(q, IF q.id \in known THEN "retired" ELSE "unknown") /\ UNCHANGED Memory
     \/ q.id = launch /\ ~spawned /\ ReplyTo(q, "unknown") /\ UNCHANGED Memory
     \/ q.id = launch /\ spawned /\ launch \in living /\ ReplyTo(q, "running") /\ UNCHANGED Memory
     \/ q.id = launch /\ spawned /\ launch \notin living /\ StopHeld(q, "retired", "lost")
ChromeExits ==
  /\ living # {} /\ living' = {} /\ processes' \in SUBSET processes
  /\ UNCHANGED <<worker, launch, spawned, starting, known, asked, adapterVars>>
(* The unit stops, and every process in it; what was being asked has no answer. *)
UnitStops ==
  /\ worker.up /\ worker.stops < MaxStops /\ worker' = [up |-> FALSE, stops |-> worker.stops + 1]
  /\ launch' = 0 /\ spawned' = FALSE /\ starting' = 0 /\ known' = {} /\ processes' = {} /\ living' = {}
  /\ asked' = {[q EXCEPT !.answer = IF @ = "none" THEN "lost" ELSE @] : q \in {k \in asked : k.waits}}
  /\ UNCHANGED adapterVars
UnitStarts == ~worker.up /\ worker' = [worker EXCEPT !.up = TRUE] /\ UNCHANGED <<unitVars, asked, adapterVars>>

-----------------------------------------------------------------------------
(* The adapter. Only a worker that refuses, or that cannot be reached, did    *)
(* not launch; and only its own word retires a launch.                       *)
AdapterOnly == UNCHANGED <<worker, unitVars>>
Request(op, id) == asked' = asked \cup {[op |-> op, id |-> id, answer |-> "none", waits |-> TRUE]}
GiveUp(id) == ceased' = ceased \cup {id}
Threads(op) == {q \in asked : q.op = op /\ q.waits}

StartChrome ==
  /\ chromeOf.state \in {"none", "retired"} /\ AdapterOnly /\ UNCHANGED tunnel
  /\ LET id == chromeOf.id + 1 IN
     /\ id \in Spawns
     /\ IF worker.up THEN Request("start", id) /\ chromeOf' = [id |-> id, state |-> "starting"] /\ UNCHANGED ceased
                     ELSE chromeOf' = [id |-> id, state |-> "none"] /\ GiveUp(id) /\ UNCHANGED asked

\* Mutant: a start without an answer is taken for one that was refused.
NotLaunched_Unheard(r) == r # "running"
NotLaunched(r) == r = "rejected"
HearStart(r) ==
  /\ AdapterOnly /\ chromeOf.state = "starting"
  /\ IF r = "running" THEN chromeOf' = [chromeOf EXCEPT !.state = "running"] /\ tunnel' = chromeOf.id /\ UNCHANGED ceased
     ELSE IF NotLaunched(r) THEN chromeOf' = [chromeOf EXCEPT !.state = "none"] /\ GiveUp(chromeOf.id) /\ UNCHANGED tunnel
     ELSE chromeOf' = [chromeOf EXCEPT !.state = "unknown"] /\ UNCHANGED <<tunnel, ceased>>

RetireChrome ==
  /\ chromeOf.state = "running" /\ worker.up /\ Threads("stop") = {} /\ Request("stop", chromeOf.id)
  /\ AdapterOnly /\ UNCHANGED adapterVars
AskStatusOf ==
  /\ chromeOf.state = "running" /\ worker.up /\ Threads("status") = {} /\ Request("status", chromeOf.id)
  /\ AdapterOnly /\ UNCHANGED adapterVars
MarkRetired(q, r) ==
  /\ AdapterOnly
  /\ IF r = "retired" /\ q.id = chromeOf.id
     THEN chromeOf' = [chromeOf EXCEPT !.state = "retired"] /\ tunnel' = 0 /\ GiveUp(q.id)
     ELSE UNCHANGED adapterVars
Hear(q, r) == IF q.op = "start" THEN HearStart(r) ELSE MarkRetired(q, r)
HearReply(q) == q.answer # "none" /\ asked' = asked \ {q} /\ Hear(q, q.answer)
(* A deadline passes, or the connection breaks; the request may still be served. *)
GiveUpWaiting(q) == /\ asked' = (asked \ {q}) \cup IF q.answer = "none" THEN {[q EXCEPT !.waits = FALSE]} ELSE {}
                    /\ Hear(q, "lost")
AdapterRestarts ==
  /\ chromeOf.state # "none" /\ chromeOf' = [chromeOf EXCEPT !.state = "none"] /\ tunnel' = 0
  /\ asked' = {[q EXCEPT !.waits = FALSE] : q \in {k \in asked : k.answer = "none"}}
  /\ AdapterOnly /\ UNCHANGED ceased

WorkerNext ==
  \/ \E q \in Unserved("start") : RefuseStart(q) \/ BeginStart(q) \/ EndStart(q)
  \/ \E q \in Unserved("stop") : AnswerStop(q)
  \/ \E q \in Unserved("status") : AnswerStatus(q)
  \/ ChromeExits \/ UnitStops \/ UnitStarts
  \/ StartChrome \/ RetireChrome \/ AskStatusOf \/ AdapterRestarts
  \/ \E q \in asked : q.waits /\ (HearReply(q) \/ GiveUpWaiting(q))

-----------------------------------------------------------------------------
\* One Chrome at a time. A launch the adapter took for refused or retired has
\* no process left and never gets one, though its answers may be lost and a
\* start may be served long after it was asked; and the adapter's tunnel leads
\* to a launch that is still its own.
OneChromeAtATime ==
  part = "worker" =>
    /\ Cardinality(processes) <= 1 /\ processes \cap ceased = {} /\ launch \notin ceased
    /\ tunnel # 0 => tunnel = chromeOf.id /\ tunnel \notin ceased
=============================================================================
