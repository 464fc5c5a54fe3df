------------------------------ MODULE Releases ------------------------------
(***************************************************************************)
(* One release of the static web lane: operate() of scripts/release.py, the   *)
(* apply and verify of one packet on one host.                              *)
(*                                                                         *)
(* The command works on a copy of the journal and saves it after each step;  *)
(* it may be refused, fail or be killed at any of them. The API keeps        *)
(* serving the owner until it is stopped and may be started or stopped from  *)
(* outside. The owner's rows are a version number; every change is a new one. *)
(***************************************************************************)
EXTENDS Base

CONSTANTS MaxAttempts, MaxData

ASSUME ReleaseAssumption == MaxAttempts \in Nat

VARIABLES
  unit,            \* the revision the unit file selects
  staged,          \* the candidate's release directory
  api,             \* the service: active or not, and the revision it runs
  rows, busy,      \* the owner's rows; work that is not settled
  journal, proofs, \* the durable journal; proofs[n]: the snapshot of attempt n
  cmd,             \* the command that holds the release lock, with its copy
  go, drift,       \* a live authority; something that was pinned has changed
  first, spoilt    \* rows when the stopped API was first found quiet; rows lost since

releaseVars == <<unit, staged, api, rows, busy, journal, proofs, cmd, go, drift, first, spoilt>>

NoJournal == [phase |-> "prepared", attempts |-> 0, retry |-> FALSE, stop |-> FALSE, before |-> 0, snap |-> 0]
NoCommand == [pc |-> "none", done |-> FALSE, j |-> NoJournal]
ReleaseInit ==
  /\ unit = "base" /\ staged = "none" /\ api = [active |-> TRUE, runs |-> "base"]
  /\ rows = 1 /\ busy = FALSE /\ journal = NoJournal /\ proofs = [n \in 1..MaxAttempts |-> 0]
  /\ cmd = NoCommand /\ go = FALSE /\ drift = FALSE /\ first = 0 /\ spoilt = FALSE
Phases == {"prepared", "preflight-started", "preflight-complete", "staged", "api-stopped", "snapshot-verified",
           "candidate-published", "candidate-started", "verified"}
ReleaseTypeOK ==
  /\ unit \in {"base", "cand"} /\ staged \in {"none", "partial", "whole"} /\ rows \in 1..MaxData + 1
  /\ journal.phase \in Phases /\ journal.attempts \in 0..MaxAttempts /\ journal.before \in 0..MaxData + 1

-----------------------------------------------------------------------------
(* Around the command.                                                      *)
Elsewhere == UNCHANGED <<unit, staged, journal, proofs, cmd, first>>
OwnerWorks == /\ api.active /\ rows <= MaxData /\ rows' = rows + 1 /\ busy' \in BOOLEAN
              /\ Elsewhere /\ UNCHANGED <<api, go, drift, spoilt>>
RowsAreLost == /\ rows <= MaxData /\ rows' = rows + 1
               /\ spoilt' = (spoilt \/ (first # 0 /\ journal.phase # "verified"))
               /\ Elsewhere /\ UNCHANGED <<api, busy, go, drift>>
ServiceStarts == ~api.active /\ api' = [active |-> TRUE, runs |-> unit] /\ Elsewhere /\ UNCHANGED <<rows, busy, go, drift, spoilt>>
ServiceStops == api.active /\ api' = [api EXCEPT !.active = FALSE] /\ Elsewhere /\ UNCHANGED <<rows, busy, go, drift, spoilt>>
OwnerDecides == go' = ~go /\ Elsewhere /\ UNCHANGED <<api, rows, busy, drift, spoilt>>
PinsDrift == drift' = ~drift /\ Elsewhere /\ UNCHANGED <<api, rows, busy, go, spoilt>>

-----------------------------------------------------------------------------
(* What the command checks: the packet and the profile, the authority, the   *)
(* host's identity and pinned controls, the trees, the owner's work.         *)
Packaged == ~drift
Authorised == go
Pinned == ~drift
Live == Authorised /\ Pinned
Whole(revision) == ~drift /\ (revision = "cand" => staged = "whole")
OwnerIsQuiet == ~busy
\* Mutant: a failure needs no diagnosis to be tried again.
Retryable_Always(j) == TRUE
Retryable(j) == j.attempts = 0 \/ j.retry

(* save: the phase is durable. A failure is saved with its kind: one that    *)
(* is not retryable fences the journal.                                     *)
Save(j, pc) == journal' = j /\ cmd' = [cmd EXCEPT !.j = j, !.pc = pc]
FailRelease(retry) == /\ journal' = [cmd.j EXCEPT !.retry = retry, !.stop = ~retry] /\ cmd' = NoCommand
               /\ UNCHANGED <<unit, staged, api, rows, busy, proofs, go, drift, first, spoilt>>
OnStep(pc) == cmd.pc = pc /\ UNCHANGED <<rows, busy, go, drift, spoilt>>

BeginRelease(verb) ==
  LET done == journal.phase = "verified"
      applies == verb = "apply" /\ ~done IN
  /\ cmd = NoCommand /\ Packaged /\ Live /\ ~journal.stop
  /\ applies => Retryable(journal) /\ journal.attempts < MaxAttempts
  /\ cmd' = [pc |-> IF applies THEN "apply" ELSE "verify", done |-> done, j |-> journal]
  /\ UNCHANGED <<unit, staged, api, rows, busy, journal, proofs, go, drift, first, spoilt>>
(* The attempt is counted before the preflight.                             *)
BeginAttempt ==
  /\ OnStep("apply")
  /\ Whole(unit)
  /\ Save([cmd.j EXCEPT !.attempts = @ + 1, !.retry = FALSE, !.phase = "preflight-started"], "preflight")
  /\ UNCHANGED <<unit, staged, api, proofs, first>>
BeginVerify ==
  /\ OnStep("verify") /\ Whole(unit) /\ cmd.j.before # 0 /\ cmd.j.snap # 0 /\ unit = "cand"
  /\ cmd' = [cmd EXCEPT !.pc = "prove"] /\ UNCHANGED <<unit, staged, api, journal, proofs, first>>
Unproven == /\ cmd.pc = "verify" /\ (cmd.j.before = 0 \/ cmd.j.snap = 0 \/ unit # "cand") /\ FailRelease(FALSE)
Preflight ==
  /\ OnStep("preflight") /\ OwnerIsQuiet /\ Save([cmd.j EXCEPT !.phase = "preflight-complete"], "stage")
  /\ UNCHANGED <<unit, staged, api, proofs, first>>
Stage ==
  /\ OnStep("stage")
  /\ \/ staged = "none" /\ Live /\ staged' = "partial" /\ cmd' = [cmd EXCEPT !.pc = "staging"] /\ UNCHANGED journal
     \/ Whole("cand") /\ Save([cmd.j EXCEPT !.phase = "staged"], "stop") /\ UNCHANGED staged
  /\ UNCHANGED <<unit, api, proofs, first>>
Staged ==
  /\ OnStep("staging") /\ staged' = "whole" /\ Save([cmd.j EXCEPT !.phase = "staged"], "stop")
  /\ UNCHANGED <<unit, api, proofs, first>>
StopApi ==
  /\ OnStep("stop") /\ Live /\ api' = [api EXCEPT !.active = FALSE] /\ Save([cmd.j EXCEPT !.phase = "api-stopped"], "record")
  /\ UNCHANGED <<unit, staged, proofs, first>>
(* A retry is compared with what the first attempt recorded.                *)
Comparable(j) == j.before \in {0, rows}
Record ==
  /\ OnStep("record") /\ OwnerIsQuiet /\ Comparable(cmd.j)
  /\ proofs' = [proofs EXCEPT ![cmd.j.attempts] = rows] /\ first' = IF first = 0 THEN rows ELSE first
  /\ cmd' = [cmd EXCEPT !.pc = "recorded", !.j.before = rows]
  /\ UNCHANGED <<unit, staged, api, journal>>
Recorded ==
  /\ OnStep("recorded") /\ rows = cmd.j.before
  /\ Save([cmd.j EXCEPT !.snap = proofs[cmd.j.attempts], !.phase = "snapshot-verified"], "publish")
  /\ UNCHANGED <<unit, staged, api, proofs, first>>
PublishUnit ==
  /\ OnStep("publish") /\ Live /\ unit' = "cand" /\ cmd' = [cmd EXCEPT !.pc = "published"]
  /\ UNCHANGED <<staged, api, journal, proofs, first>>
UnitSelected ==
  /\ OnStep("published") /\ Save([cmd.j EXCEPT !.phase = "candidate-published"], "start")
  /\ UNCHANGED <<unit, staged, api, proofs, first>>
StartApi ==
  /\ OnStep("start") /\ Live /\ api' = IF api.active THEN api ELSE [active |-> TRUE, runs |-> unit]
  /\ Save([cmd.j EXCEPT !.phase = "candidate-started"], "prove")
  /\ UNCHANGED <<unit, staged, proofs, first>>
(* The proof of the release; of a completed one, all but the retention.      *)
Prove ==
  /\ OnStep("prove") /\ Live /\ Whole("cand") /\ proofs[cmd.j.attempts] = cmd.j.snap
  /\ api = [active |-> TRUE, runs |-> "cand"] /\ (cmd.done \/ rows = cmd.j.before)
  /\ journal' = [cmd.j EXCEPT !.phase = "verified"] /\ cmd' = NoCommand
  /\ UNCHANGED <<unit, staged, api, proofs, first>>

(* What stops it there: busy work and a service that does not answer may be  *)
(* tried again; whatever else is wrong may not.                             *)
Fails ==
  \/ cmd.pc \in {"preflight", "record"} /\ ~OwnerIsQuiet /\ FailRelease(TRUE)
  \/ cmd.pc \in {"apply", "stop", "start", "prove"} /\ FailRelease(TRUE)
  \/ /\ cmd.pc \in {"stage", "stop", "publish", "start", "prove"}
     /\ ~Live \/ (cmd.pc = "stage" /\ staged = "partial")
     /\ FailRelease(FALSE)
  \/ cmd.pc \in {"apply", "verify"} /\ ~Whole(unit) /\ FailRelease(FALSE)
  \/ cmd.pc = "record" /\ OwnerIsQuiet /\ ~Comparable(cmd.j) /\ FailRelease(FALSE)
  \/ cmd.pc = "recorded" /\ rows # cmd.j.before /\ FailRelease(FALSE)
  \/ cmd.pc = "prove" /\ ~cmd.done /\ rows # cmd.j.before /\ FailRelease(FALSE)
  \/ cmd.pc = "prove" /\ proofs[cmd.j.attempts] # cmd.j.snap /\ FailRelease(FALSE)
  \/ cmd.pc = "prove" /\ api = [active |-> TRUE, runs |-> "base"] /\ FailRelease(FALSE)
CommandDies == /\ cmd # NoCommand /\ cmd' = NoCommand
               /\ UNCHANGED <<unit, staged, api, rows, busy, journal, proofs, go, drift, first, spoilt>>

ReleaseNext ==
  \/ OwnerWorks \/ RowsAreLost \/ ServiceStarts \/ ServiceStops \/ OwnerDecides \/ PinsDrift
  \/ \E verb \in {"apply", "verify"} : BeginRelease(verb)
  \/ BeginAttempt \/ BeginVerify \/ Unproven \/ Preflight \/ Stage \/ Staged \/ StopApi \/ Record \/ Recorded
  \/ PublishUnit \/ UnitSelected \/ StartApi \/ Prove \/ Fails \/ CommandDies

-----------------------------------------------------------------------------
\* A release that counts as verified kept the owner's rows as they were when the
\* API was first found stopped and quiet, over every retry, crash and restart in
\* between, and its last attempt's snapshot is of exactly those rows. No
\* revision is selected, or served, before its tree is whole and that record is
\* made.
ReleaseKeepsItsProof ==
  part = "release" =>
    /\ journal.phase = "verified" =>
         /\ ~spoilt /\ journal.before = first /\ journal.snap = first /\ proofs[journal.attempts] = first
    /\ journal.before # 0 => journal.before = first
    /\ unit = "cand" \/ api.runs = "cand" => staged = "whole" /\ first # 0
=============================================================================
