--------------------------- MODULE BrowserControl ---------------------------
(***************************************************************************)
(* The durable row that says who controls the shared browser of a           *)
(* conversation (src/runtime/hermes/browser_control.py).  Every operation   *)
(* is one immediate SQLite transaction; a rejected one changes nothing.     *)
(* What a lapsed lease becomes is saved by the next transaction that loads   *)
(* the row; all readers load it so, and the lapse is the step here.         *)
(***************************************************************************)
EXTENDS Base, Sequences

CONSTANTS
  Viewers,          \* owner bindings: the tabs of the owner
  Runs,             \* agent runs
  MaxRevision, MaxGeneration, MaxInputs

ASSUME BrowserAssumption == None \notin Viewers

VARIABLES
  br,               \* the row
  maintenance       \* the root hold exists

controlVars == <<br, maintenance>>

NoBrowser == [gen |-> 0, mode |-> "paused", rev |-> 0, run |-> None, cmd |-> None, lease |-> None,
              seq |-> 0, receipt |-> None, observe |-> FALSE, lid |-> 0, epoch |-> 0, retired |-> TRUE]

ControlInit == br = NoBrowser /\ maintenance = FALSE

ControlTypeOK ==
  /\ br.mode \in {"agent", "takeover_pending", "human", "paused", "recovering"}
  /\ br.lease \in Viewers \cup {None} /\ br.run \in Runs \cup {None}
  /\ br.lease # None <=> br.mode \in {"takeover_pending", "human"}
  /\ br.mode = "agent" => br.run # None

\* A change of authority takes a new revision.
Revise(row) == br.rev < MaxRevision /\ br' = [row EXCEPT !.rev = @ + 1] /\ UNCHANGED maintenance
Admitted == ~maintenance
Leased(v) == ~br.retired /\ br.mode = "human" /\ br.lease = v
\* Mutant: the lease outlives what was revoked.
Revoked_KeepsLease(mode) == [br EXCEPT !.mode = mode, !.observe = FALSE]
Revoked(mode) == [br EXCEPT !.mode = mode, !.lease = None, !.observe = FALSE]

ToggleHold == maintenance' = ~maintenance /\ UNCHANGED br

BindBrowser(run) ==
  /\ Admitted /\ br.retired /\ br.gen < MaxGeneration
  /\ Revise([NoBrowser EXCEPT !.gen = br.gen + 1, !.rev = br.rev, !.run = run, !.retired = FALSE,
               !.mode = IF run = None THEN "paused" ELSE "agent"])

LeaseLapses ==
  br.lease # None /\ Revise(Revoked(IF br.cmd = "human" THEN "recovering" ELSE "paused"))

\* The proof of a drained hand-back is of the present revision.
Handed(proof) == proof = br.rev
(* ended: the run admitted before has reached a terminal status. *)
AdmitRun(run, ended, proof) ==
  /\ Admitted /\ ~br.retired /\ br.cmd = None
  /\ br.mode = "agent" \/ (br.mode = "paused" /\ Handed(proof))
  /\ br.run # None => run # br.run /\ ended
  /\ Revise([br EXCEPT !.mode = "agent", !.run = run])

ReserveAgent(run) ==
  /\ Admitted /\ ~br.retired /\ br.run = run /\ br.mode = "agent" /\ br.cmd = None
  /\ br' = [br EXCEPT !.cmd = "agent"] /\ UNCHANGED maintenance

\* Mutant: a command whose answer is missing is taken for done.
CompleteAgent_Done(run, certain) ==
  /\ br.cmd = "agent" /\ br.run = run
  /\ br' = [br EXCEPT !.cmd = None] /\ UNCHANGED maintenance
CompleteAgent(run, certain) ==
  /\ br.cmd = "agent" /\ br.run = run
  /\ IF certain THEN br' = [br EXCEPT !.cmd = None] /\ UNCHANGED maintenance
     ELSE Revise(Revoked("recovering"))

Takeable == Admitted /\ ~br.retired /\ br.lease = None /\ br.mode \in {"agent", "paused"}
RequestTakeover(v) ==
  /\ Takeable
  /\ Revise([br EXCEPT !.mode = "takeover_pending", !.lease = v, !.lid = br.rev, !.seq = 0, !.epoch = 0])

Confirmable(rev) == Admitted /\ br.mode = "takeover_pending" /\ br.cmd = None /\ br.rev = rev
ConfirmTakeover(rev) ==
  /\ Confirmable(rev)
  /\ Revise([br EXCEPT !.mode = "human"])

(* A sequence number that is the last one saved is answered from the receipt. *)
Repeated(seq) == br.receipt # None /\ seq = br.seq
ReserveInput(v, seq) ==
  /\ Admitted /\ Leased(v) /\ seq = br.seq + 1 /\ seq <= MaxInputs /\ br.cmd = None
  /\ br' = [br EXCEPT !.cmd = "human", !.seq = seq, !.receipt = "reserved"] /\ UNCHANGED maintenance

CompleteInput(outcome) ==
  /\ br.cmd = "human" /\ br.receipt = "reserved"
  /\ IF outcome = "uncertain" THEN Revise([Revoked("recovering") EXCEPT !.receipt = outcome])
     ELSE br' = [br EXCEPT !.cmd = None, !.receipt = outcome] /\ UNCHANGED maintenance

\* Mutant: the epoch of the grant stays what it was.
ObservationMode_SameEpoch(v, observe) ==
  /\ Admitted /\ Leased(v) /\ br.observe # observe
  /\ Revise([br EXCEPT !.observe = observe])
ObservationMode(v, observe) ==
  /\ Admitted /\ Leased(v) /\ br.observe # observe
  /\ Revise([br EXCEPT !.observe = observe, !.epoch = @ + 1])
Observable(v, lid, epoch) == Admitted /\ Leased(v) /\ br.lid = lid /\ br.observe /\ br.epoch = epoch

(* What keeps a lease, or an idle browser, alive changes no authority.       *)
Renewable(v) == Admitted /\ Leased(v)
Present == Admitted /\ ~br.retired /\ br.mode \in {"agent", "paused"}
BeginReturn(v) == Leased(v) /\ Revise(Revoked("paused"))
BeginClose(ended) ==
  /\ Admitted /\ ~br.retired /\ br.mode \in {"agent", "paused"} /\ br.cmd = None
  /\ br.run # None => ended
  /\ Revise([br EXCEPT !.mode = "paused"])
Pause(v) == br.lease = v /\ Revise(Revoked("paused"))

Doubtful(receipt) == IF receipt = "reserved" THEN "uncertain" ELSE receipt
\* Mutant: what is no command under way is paused.
RecoverStartup_Pauses ==
  IF br.retired THEN UNCHANGED controlVars
  ELSE Revise([Revoked(IF br.cmd # None THEN "recovering" ELSE "paused") EXCEPT !.receipt = Doubtful(@)])
RecoverStartup ==
  IF br.retired \/ (br.cmd = None /\ br.mode \in {"paused", "recovering"})
  THEN UNCHANGED controlVars
  ELSE Revise([Revoked(IF br.cmd # None THEN "recovering" ELSE "paused") EXCEPT !.receipt = Doubtful(@)])
RetireBrowser ==
  /\ ~br.retired
  /\ Revise([Revoked("paused") EXCEPT !.run = None, !.cmd = None, !.receipt = Doubtful(@), !.retired = TRUE])
=============================================================================
