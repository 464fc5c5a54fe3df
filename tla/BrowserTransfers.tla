-------------------------- MODULE BrowserTransfers --------------------------
(***************************************************************************)
(* Files that leave and enter the owner's browser. Downloads: Chrome writes   *)
(* them in the guest, the guest's outbox (runtime/selkies/browser_files.py)   *)
(* lists them until they are acknowledged, the host adds what it knows of     *)
(* their origin (runtime/hermes/browser_files.py) and the chat's collector    *)
(* saves them (chat/browser_files.py). Uploads: an original is staged in the  *)
(* guest and given to the file chooser the page opened.                      *)
(*                                                                         *)
(* One launch; sizes and digests are whether a file is whole. Any process    *)
(* may stop between two steps; what is durable is the outbox, the host's      *)
(* receipts and the library.                                                *)
(***************************************************************************)
EXTENDS Base, Sequences

CONSTANTS Downloads, Transfers, MaxChoosers

\* Names of the input lock's other states are not uploads.
ASSUME TransferAssumption == {None, "switch"} \cap Transfers = {}

VARIABLES
  up, hidden,      \* the launch is up; what the guest was last told of privacy
  control,         \* who has the browser: the agent, the owner observed, the owner in private
  inputLock,       \* the holder of the input lock: a change of control, or an upload's commit
  dl,              \* the guest's rows and Chrome's files; history: the owner had the browser in
                   \* private while the row was pending, and its file could not be read at recovery
  receipt,         \* the host's: the first origin it saw, and whether it ever saw the file private
  library, coll,   \* the library's rows of downloads; the chat's collector
  chooser, opened, \* the chooser the page has open, 0 for none; choosers opened so far
  handed, effects   \* uploads; what was put into a page

transferVars == <<up, hidden, control, inputLock, dl, receipt, library, coll, chooser, opened, handed, effects>>
NoDownload == [state |-> "none", private |-> FALSE, file |-> "no", owner |-> FALSE, lost |-> FALSE]
NoReceipt == [made |-> FALSE, private |-> FALSE, agent |-> FALSE]
NotSaved == [saved |-> FALSE, private |-> FALSE, seen |-> FALSE]
NoCollector == [pc |-> "idle", d |-> None, private |-> FALSE]
NoTransfer == [pc |-> "none", chooser |-> 0, by |-> None]
TransferInit ==
  /\ up = TRUE /\ hidden = TRUE /\ control = "agent" /\ inputLock = None
  /\ dl = [d \in Downloads |-> NoDownload] /\ receipt = [d \in Downloads |-> NoReceipt]
  /\ library = [d \in Downloads |-> NotSaved] /\ coll = NoCollector
  /\ chooser = 0 /\ opened = 0 /\ handed = [u \in Transfers |-> NoTransfer] /\ effects = <<>>
TransferTypeOK ==
  /\ control \in {"agent", "observed", "private"} /\ inputLock \in {None, "switch"} \cup Transfers
  /\ \A d \in Downloads : dl[d].state \in {"none", "pending", "completed", "saved", "cancelled"} /\ dl[d].file \in {"no", "part", "whole", "gone"}
  /\ coll.pc \in {"idle", "read", "confirm", "commit", "ack"} /\ chooser \in 0..opened

-----------------------------------------------------------------------------
(* Control of the browser changes while input is frozen; the guest is told   *)
(* before it is thawed. Private marks what is still on its way.             *)
OnlyControl == UNCHANGED <<receipt, library, coll, chooser, opened, handed, effects>>
SwitchControl(c) == /\ up /\ inputLock = None /\ c # control /\ control' = c /\ inputLock' = "switch"
                    /\ OnlyControl /\ UNCHANGED <<up, hidden, dl>>
\* Mutant: what is on its way when the owner takes the browser stays as it was.
Marked_Never(h) == dl
Marked(h) == [d \in Downloads |-> IF h /\ dl[d].state = "pending" THEN [dl[d] EXCEPT !.private = TRUE] ELSE dl[d]]
Witnessed(rows) == [d \in Downloads |-> IF control = "private" /\ rows[d].state = "pending" THEN [rows[d] EXCEPT !.owner = TRUE] ELSE rows[d]]
PublishVisibility ==
  /\ up /\ inputLock = "switch" /\ inputLock' = None
  /\ hidden' = (control = "private") /\ dl' = Witnessed(Marked(hidden'))
  /\ OnlyControl /\ UNCHANGED <<up, control>>

(* Chrome begins a download and renames it when it is whole; the outbox hears *)
(* of each later, in that order, or of nothing more once it has faulted: a    *)
(* row is as private as the guest is when it hears of its beginning.        *)
Rest == OnlyControl /\ UNCHANGED <<up, hidden, control, inputLock>>
OwnerAlone == control = "private" /\ inputLock # "switch"
StartDownload(d) == up /\ dl[d].state = "none" /\ dl[d].file = "no" /\ dl' = [dl EXCEPT ![d].file = "part"] /\ Rest
BeginDownload(d) == /\ up /\ dl[d].state = "none" /\ dl[d].file # "no"
                    /\ dl' = [dl EXCEPT ![d].state = "pending", ![d].private = hidden, ![d].owner = OwnerAlone] /\ Rest
FinishFile(d) == up /\ dl[d].state \in {"none", "pending"} /\ dl[d].file = "part" /\ dl' = [dl EXCEPT ![d].file = "whole"] /\ Rest
CompleteDownload(d) == up /\ dl[d].state = "pending" /\ dl[d].file = "whole" /\ dl' = [dl EXCEPT ![d].state = "completed"] /\ Rest
CancelDownload(d) == /\ up /\ dl[d].state = "pending" /\ dl[d].file = "part"
                     /\ dl' = [dl EXCEPT ![d].state = "cancelled"] /\ Rest

(* The launch is gone: what was renamed is whole, unless it cannot be read;  *)
(* the rest is removed. A row nobody heard of is left as it is.             *)
\* Mutant: a download that was not reported complete is given up.
RecoveredState_Cancelled(x, unread) == "cancelled"
RecoveredState(x, unread) == IF x.file = "whole" /\ ~unread THEN "completed" ELSE "cancelled"
Removed(file) == IF file = "part" THEN "no" ELSE IF file = "whole" THEN "gone" ELSE file
Renamed == {d \in Downloads : dl[d].state = "pending" /\ dl[d].file = "whole"}
Recovered(unread) ==
  [d \in Downloads |->
     LET state == IF dl[d].state = "pending" THEN RecoveredState(dl[d], d \in unread) ELSE dl[d].state IN
     [dl[d] EXCEPT !.state = state, !.file = IF state \in {"saved", "cancelled"} THEN Removed(@) ELSE @, !.lost = @ \/ d \in unread]]
(* The outbox as a call of the host may find it.                            *)
Recoveries == {Recovered(unread) : unread \in SUBSET Renamed}
Outboxes == IF up THEN {dl} ELSE Recoveries
StopLaunch ==
  /\ up /\ inputLock \notin Transfers /\ up' = FALSE /\ dl' \in Recoveries /\ chooser' = 0
  /\ handed' = [u \in Transfers |-> NoTransfer] /\ inputLock' = None
  /\ UNCHANGED <<hidden, control, receipt, library, coll, opened, effects>>
GuestDies ==
  /\ up /\ up' = FALSE /\ chooser' = 0 /\ handed' = [u \in Transfers |-> NoTransfer] /\ inputLock' = None
  /\ UNCHANGED <<hidden, control, dl, receipt, library, coll, opened, effects>>

-----------------------------------------------------------------------------
(* The collector. Each of its calls opens the outbox of a launch that is gone *)
(* anew and recovers it first. A listing records what the host knows.       *)
Collecting == UNCHANGED <<up, hidden, control, inputLock, chooser, opened, handed, effects>>
AgentHas == up /\ control = "agent"
Observed == up /\ control \in {"agent", "observed"}
Provenance(d, x) == [made |-> TRUE, private |-> receipt[d].private \/ x.private \/ ~Observed,
               agent |-> IF receipt[d].made THEN receipt[d].agent ELSE AgentHas]
Listed(o) == {d \in Downloads : o[d].state \in {"pending", "completed"}}
Receipted(o) == [d \in Downloads |-> IF d \in Listed(o) THEN Provenance(d, o[d]) ELSE receipt[d]]
List(o) ==
  /\ coll.pc = "idle" /\ dl' = o /\ receipt' = Receipted(o)
  /\ \/ \E d \in Downloads : o[d].state = "completed" /\ coll' = [pc |-> "read", d |-> d, private |-> Provenance(d, o[d]).private]
     \/ (\A d \in Downloads : o[d].state # "completed") /\ UNCHANGED coll
  /\ Collecting /\ UNCHANGED library
ReadBytes(o) ==
  /\ coll.pc = "read" /\ o[coll.d].state = "completed" /\ o[coll.d].file = "whole"
  /\ dl' = o /\ coll' = [coll EXCEPT !.pc = "confirm"] /\ Collecting /\ UNCHANGED <<receipt, library>>
\* Mutant: the library takes the origin of the first listing.
ConfirmedPrivate_First(first, now) == first
ConfirmedPrivate(first, now) == first \/ now
Confirm(o) ==
  /\ coll.pc = "confirm" /\ coll.d \in Listed(o) /\ dl' = o /\ receipt' = Receipted(o)
  /\ coll' = [coll EXCEPT !.pc = "commit", !.private = ConfirmedPrivate(@, Receipted(o)[coll.d].private)]
  /\ Collecting /\ UNCHANGED library
Commit ==
  /\ coll.pc = "commit" /\ coll' = [coll EXCEPT !.pc = "ack"]
  /\ library' = IF library[coll.d].saved THEN library
                ELSE [library EXCEPT ![coll.d] = [saved |-> TRUE, private |-> coll.private, seen |-> receipt[coll.d].private]]
  /\ Collecting /\ UNCHANGED <<dl, receipt>>
(* The row says saved before the file goes; one that stays is swept later.   *)
AckDownload(o) ==
  /\ coll.pc = "ack" /\ o[coll.d].state \in {"completed", "saved"}
  /\ \E file \in {Removed(o[coll.d].file), o[coll.d].file} : dl' = [o EXCEPT ![coll.d].state = "saved", ![coll.d].file = file]
  /\ coll' = NoCollector /\ Collecting /\ UNCHANGED <<receipt, library>>
CollectorStops == coll.pc # "idle" /\ coll' = NoCollector /\ Collecting /\ UNCHANGED <<dl, receipt, library>>

-----------------------------------------------------------------------------
(* Uploads. The page opens a chooser, which a navigation takes away; the      *)
(* guest keeps its operations apart, the page's events come between.        *)
Page == UNCHANGED <<up, hidden, control, inputLock, dl, receipt, library, coll>>
OpenChooser == up /\ opened < MaxChoosers /\ opened' = opened + 1 /\ chooser' = opened + 1 /\ Page /\ UNCHANGED <<handed, effects>>
Navigate == up /\ chooser # 0 /\ chooser' = 0 /\ Page /\ UNCHANGED <<opened, handed, effects>>
Committing == \E u \in Transfers : handed[u].pc \in {"verify", "effect"}
Has(by) == (by = "agent") = (control = "agent")
BeginTransfer(u, by) ==
  /\ up /\ ~Committing /\ handed[u].pc = "none" /\ chooser # 0 /\ Has(by)
  /\ handed' = [handed EXCEPT ![u] = [pc |-> "part", chooser |-> chooser, by |-> by]] /\ Page /\ UNCHANGED <<chooser, opened, effects>>
WriteChunks(u) == /\ ~Committing /\ handed[u].pc = "part" /\ (handed[u].by = "owner" => Has("owner"))
                  /\ handed' = [handed EXCEPT ![u].pc = "whole"] /\ Page /\ UNCHANGED <<chooser, opened, effects>>
(* The commit holds the input lock; whoever asks must still have control.    *)
MayCommit(u) == Has(handed[u].by)
BeginCommit(u) ==
  /\ ~Committing /\ inputLock = None /\ handed[u].pc \in {"part", "whole"} /\ MayCommit(u)
  /\ chooser # 0 /\ chooser = handed[u].chooser
  /\ inputLock' = u /\ handed' = [handed EXCEPT ![u].pc = IF @ = "whole" THEN "verify" ELSE "refused"]
  /\ UNCHANGED <<up, hidden, control, dl, receipt, library, coll, chooser, opened, effects>>
\* Mutant: the chooser is left for the page to close.
ChooserLeft_Open(c) == c
ChooserLeft(c) == 0
Consume(u) ==
  /\ handed[u].pc = "verify"
  /\ \/ chooser = handed[u].chooser /\ chooser' = ChooserLeft(chooser) /\ handed' = [handed EXCEPT ![u].pc = "effect"]
     \/ chooser # handed[u].chooser /\ handed' = [handed EXCEPT ![u].pc = "refused"] /\ UNCHANGED chooser
  /\ Page /\ UNCHANGED <<opened, effects>>
(* Whether the page took it may stay unknown; it is not tried again.        *)
SetFiles(u) ==
  /\ handed[u].pc = "effect"
  /\ \E took \in BOOLEAN : effects' = IF took THEN Append(effects, [chooser |-> handed[u].chooser, by |-> handed[u].by, had |-> control]) ELSE effects
  /\ handed' = [handed EXCEPT ![u].pc = "done"] /\ Page /\ UNCHANGED <<chooser, opened>>
EndCommit(u) == /\ inputLock = u /\ handed[u].pc \in {"done", "refused"} /\ inputLock' = None
                /\ UNCHANGED <<up, hidden, control, dl, receipt, library, coll, chooser, opened, handed, effects>>

TransferNext ==
  \/ \E c \in {"agent", "observed", "private"} : SwitchControl(c)
  \/ PublishVisibility \/ StopLaunch \/ GuestDies
  \/ \E d \in Downloads : StartDownload(d) \/ BeginDownload(d) \/ FinishFile(d) \/ CompleteDownload(d) \/ CancelDownload(d)
  \/ \E o \in Outboxes : List(o) \/ ReadBytes(o) \/ Confirm(o) \/ AckDownload(o)
  \/ Commit \/ CollectorStops
  \/ OpenChooser \/ Navigate
  \/ \E u \in Transfers : \/ \E by \in {"agent", "owner"} : BeginTransfer(u, by)
                          \/ WriteChunks(u) \/ BeginCommit(u) \/ Consume(u) \/ SetFiles(u) \/ EndCommit(u)

-----------------------------------------------------------------------------
\* No download is lost: what the guest removes as saved is in the library,
\* whatever call or process failed between the commit and the
\* acknowledgement, and what Chrome had finished is given up only when the
\* recovery could not read it, not because the guest died before it noticed.
\* A download whose row was pending while the owner had the browser in
\* private, to begin with or since a change of control, is private in the
\* library, and so is one that the guest or a listing found private; one
\* whose beginning is heard of only after the change is not (README.md). One
\* chooser takes at most one file, and only from whoever had the browser at
\* that moment.
TransfersAreFaithful ==
  part = "transfer" =>
    /\ \A d \in Downloads :
         /\ dl[d].state = "saved" => library[d].saved
         /\ dl[d].state = "completed" => dl[d].file = "whole"
         /\ dl[d].file = "gone" => library[d].saved \/ dl[d].lost
         /\ library[d].saved => ~dl[d].lost
         /\ library[d].saved /\ ~library[d].private => ~dl[d].private /\ ~dl[d].owner /\ ~library[d].seen
    /\ \A i, j \in DOMAIN effects : i # j => effects[i].chooser # effects[j].chooser
    /\ \A i \in DOMAIN effects : (effects[i].by = "agent") = (effects[i].had = "agent")
=============================================================================
