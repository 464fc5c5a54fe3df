------------------------- MODULE BrowserParts_proofs -------------------------
(***************************************************************************)
(* The inductive invariants of the owner's browser, for every value of the  *)
(* constants: its files on their way in and out, the browser in a microVM   *)
(* and the one on the worker, and who has the hands on it.                  *)
(* Deployment_proofs lifts them to behaviours of Deployment.                *)
(***************************************************************************)
EXTENDS BrowserTransfers, SpaceBrowser, WorkerBrowser, OwnerBrowser, SequenceTheorems, FiniteSetTheorems, TLAPS

USE TransferAssumption, SpaceAssumption, WorkerAssumption

(* Downloads and uploads. *)
GuestRows == [state : {"none", "pending", "completed", "saved", "cancelled"}, private : BOOLEAN, file : {"no", "part", "whole", "gone"},
              owner : BOOLEAN, lost : BOOLEAN]
HostReceipts == [made : BOOLEAN, private : BOOLEAN, agent : BOOLEAN]
SavedRows == [saved : BOOLEAN, private : BOOLEAN, seen : BOOLEAN]
Collectors == [pc : {"idle", "read", "confirm", "commit", "ack"}, d : Downloads \cup {None}, private : BOOLEAN]
Handings == [pc : {"none", "part", "whole", "verify", "refused", "effect", "done"}, chooser : Nat, by : {"agent", "owner", None}]
PageEffects == [chooser : Nat, by : {"agent", "owner", None}, had : {"agent", "observed", "private"}]
TransferTypes ==
  /\ up \in BOOLEAN /\ hidden \in BOOLEAN /\ control \in {"agent", "observed", "private"}
  /\ dl \in [Downloads -> GuestRows] /\ receipt \in [Downloads -> HostReceipts] /\ library \in [Downloads -> SavedRows]
  /\ coll \in Collectors /\ chooser \in Nat /\ opened \in Nat /\ handed \in [Transfers -> Handings] /\ effects \in Seq(PageEffects)
\* A row and its file: a finished file is gone when the library has it or it
\* could not be read; what ran while the owner was alone is private.
RowFits(x, kept) ==
  /\ x.state = "none" => x.file \in {"no", "part", "whole"} /\ ~x.owner
  /\ x.state = "pending" => x.file \in {"part", "whole"}
  /\ x.state = "completed" => x.file = "whole"
  /\ x.state = "saved" => x.file \in {"whole", "gone"} /\ kept
  /\ x.state = "cancelled" => x.file \in {"part", "no"} \/ (x.file = "gone" /\ x.lost)
  /\ x.lost => x.state = "cancelled"
  /\ x.owner => x.private
RowsFit == \A d \in Downloads : RowFits(dl[d], library[d].saved)
\* Once the owner's private turn has begun the guest knows of it.
HiddenInv == up /\ OwnerAlone => hidden
\* What is settled stays as private as it was.
IsWhole(d) == dl[d].state \in {"completed", "saved"}
CollectorInv ==
  /\ coll.pc # "idle" => coll.d \in Downloads /\ IsWhole(coll.d)
  /\ coll.pc = "commit" /\ ~coll.private => ~dl[coll.d].private /\ ~receipt[coll.d].private
  /\ coll.pc = "ack" => library[coll.d].saved
KeptInv ==
  \A d \in Downloads : library[d].saved =>
    /\ IsWhole(d)
    /\ ~library[d].private => ~dl[d].private /\ ~library[d].seen
\* A chooser is used up before its file is set; a commit keeps control where it was.
ChooserInv ==
  /\ chooser <= opened
  /\ \A u \in Transfers :
       /\ handed[u].pc # "none" => handed[u].chooser \in 1..opened
       /\ handed[u].pc \in {"verify", "effect"} => inputLock = u /\ Has(handed[u].by)
       /\ handed[u].pc = "effect" =>
            chooser # handed[u].chooser /\ \A i \in DOMAIN effects : effects[i].chooser # handed[u].chooser
EffectsInv ==
  /\ \A i \in DOMAIN effects : effects[i].chooser \in 1..opened /\ effects[i].chooser # chooser
  /\ \A i, j \in DOMAIN effects : i # j => effects[i].chooser # effects[j].chooser
  /\ \A i \in DOMAIN effects : (effects[i].by = "agent") = (effects[i].had = "agent")
TransferInv == TransferTypes /\ RowsFit /\ HiddenInv /\ CollectorInv /\ KeptInv /\ ChooserInv /\ EffectsInv

\* Nothing was downloaded, no chooser was opened.
LEMMA TransferBegins == TransferInit => TransferInv
<1> SUFFICES ASSUME TransferInit PROVE TransferInv
  OBVIOUS
<1>1. TransferTypes
  BY DEF TransferInit, TransferTypes, GuestRows, HostReceipts, SavedRows, Collectors, Handings, NoDownload, NoReceipt, NotSaved,
         NoCollector, NoTransfer
<1>2. RowsFit /\ HiddenInv /\ CollectorInv /\ KeptInv
  BY DEF TransferInit, RowsFit, RowFits, HiddenInv, CollectorInv, KeptInv, NoDownload, NoReceipt, NotSaved, NoCollector
<1>3. ChooserInv /\ EffectsInv
  BY DEF TransferInit, ChooserInv, EffectsInv, NoTransfer
<1> QED
  BY <1>1, <1>2, <1>3 DEF TransferInv

\* What downloads leave alone of uploads, and uploads of downloads.
UploadsRest == UNCHANGED <<control, inputLock, chooser, opened, handed, effects>>
DownloadsRest == UNCHANGED <<dl, receipt, library, coll>>

\* The guest's row and the file of one download, as the invariant knows them.
LEMMA RowKnown ==
  ASSUME TransferInv, NEW d \in Downloads
  PROVE  /\ dl[d] \in GuestRows /\ RowFits(dl[d], library[d].saved) /\ receipt[d] \in HostReceipts /\ library[d] \in SavedRows
         /\ library[d].saved => IsWhole(d) /\ (~library[d].private => ~dl[d].private /\ ~library[d].seen)
BY DEF TransferInv, TransferTypes, RowsFit, KeptInv

\* A row of the guest goes its way: a settled one stays as private as it was,
\* and is saved when the library has it.
RowMoves(d) ==
  /\ dl'[d] \in GuestRows /\ RowFits(dl'[d], library[d].saved)
  /\ IsWhole(d) => dl'[d].state \in {"completed", "saved"} /\ dl'[d].private = dl[d].private

\* Rows that go their way keep what is known of downloads.
LEMMA RowsMove ==
  ASSUME TransferInv, dl' \in [Downloads -> GuestRows], \A d \in Downloads : RowMoves(d), up' \in BOOLEAN, hidden' \in BOOLEAN,
         UNCHANGED <<receipt, library, coll>>
  PROVE  RowsFit' /\ CollectorInv' /\ KeptInv'
<1>1. RowsFit'
  BY DEF RowsFit, RowMoves
<1>2. CollectorInv'
  BY DEF TransferInv, CollectorInv, RowMoves, IsWhole
<1>3. KeptInv'
  BY DEF TransferInv, KeptInv, RowMoves, IsWhole
<1> QED
  BY <1>1, <1>2, <1>3

\* The same with uploads at rest.
LEMMA RowsKeep ==
  ASSUME TransferInv, dl' \in [Downloads -> GuestRows], \A d \in Downloads : RowMoves(d),
         UNCHANGED <<up, hidden, receipt, library, coll>>, UploadsRest
  PROVE  TransferInv'
<1>1. RowsFit' /\ CollectorInv' /\ KeptInv'
  BY RowsMove DEF TransferInv, TransferTypes
<1>2. TransferTypes' /\ HiddenInv'
  BY DEF TransferInv, TransferTypes, HiddenInv, OwnerAlone, UploadsRest
<1>3. ChooserInv' /\ EffectsInv'
  BY DEF TransferInv, ChooserInv, EffectsInv, UploadsRest, Has
<1> QED
  BY <1>1, <1>2, <1>3 DEF TransferInv

\* One row of the guest changes.
LEMMA RowKeeps ==
  ASSUME TransferInv, NEW d \in Downloads, NEW x \in GuestRows, RowFits(x, library[d].saved), ~IsWhole(d),
         dl' = [dl EXCEPT ![d] = x], OnlyControl, UNCHANGED <<up, hidden, control, inputLock>>
  PROVE  TransferInv'
<1>1. dl' \in [Downloads -> GuestRows]
  BY DEF TransferInv, TransferTypes
<1>2. ASSUME NEW e \in Downloads PROVE RowMoves(e)
  <2>1. dl'[e] = IF e = d THEN x ELSE dl[e]
    BY DEF TransferInv, TransferTypes
  <2> QED
    BY <2>1, RowKnown DEF RowMoves, IsWhole
<1>3. UploadsRest /\ UNCHANGED <<up, hidden, receipt, library, coll>>
  BY DEF OnlyControl, UploadsRest
<1> QED
  BY <1>1, <1>2, <1>3, RowsKeep

\* Chrome's downloads.
LEMMA DownloadKeeps ==
  ASSUME TransferInv, NEW d \in Downloads, StartDownload(d) \/ BeginDownload(d) \/ FinishFile(d) \/ CompleteDownload(d) \/ CancelDownload(d)
  PROVE  TransferInv'
<1>1. dl[d] \in GuestRows /\ hidden \in BOOLEAN /\ RowFits(dl[d], library[d].saved)
  BY RowKnown DEF TransferInv, TransferTypes
<1> CASE StartDownload(d)
  <2>1. PICK x \in GuestRows : x = [dl[d] EXCEPT !.file = "part"]
    BY <1>1 DEF GuestRows
  <2>2. /\ x.state = "none" /\ x.file = "part" /\ x.owner = dl[d].owner /\ x.lost = dl[d].lost /\ dl[d].state = "none"
        /\ x.private = dl[d].private
    BY <1>1, <2>1 DEF StartDownload, GuestRows
  <2>3. RowFits(x, library[d].saved)
    BY <1>1, <2>2 DEF RowFits
  <2> QED
    BY <2>1, <2>3, RowKeeps DEF StartDownload, Rest, IsWhole
<1>2. CASE BeginDownload(d)
  <2>1. OwnerAlone \in BOOLEAN /\ (OwnerAlone => hidden)
    BY <1>2 DEF BeginDownload, TransferInv, HiddenInv, OwnerAlone
  <2>2. PICK x \in GuestRows : x = [state |-> "pending", private |-> hidden, file |-> dl[d].file, owner |-> OwnerAlone, lost |-> dl[d].lost]
    BY <1>1, <2>1 DEF GuestRows
  <2>3. dl' = [dl EXCEPT ![d] = x]
    <3>1. x = [[[dl[d] EXCEPT !.state = "pending"] EXCEPT !.private = hidden] EXCEPT !.owner = OwnerAlone]
      BY <1>1, <2>2 DEF GuestRows
    <3>2. dl' = [dl EXCEPT ![d] = [[[dl[d] EXCEPT !.state = "pending"] EXCEPT !.private = hidden] EXCEPT !.owner = OwnerAlone]]
      BY <1>2 DEF BeginDownload, TransferInv, TransferTypes
    <3> QED
      BY <3>1, <3>2
  <2>4. RowFits(x, library[d].saved)
    BY <1>1, <1>2, <2>1, <2>2 DEF BeginDownload, RowFits, GuestRows
  <2> QED
    BY <1>2, <2>3, <2>4, RowKeeps DEF BeginDownload, Rest, IsWhole
<1>3. CASE FinishFile(d)
  <2>1. PICK x \in GuestRows : x = [dl[d] EXCEPT !.file = "whole"]
    BY <1>1 DEF GuestRows
  <2>2. /\ x.state = dl[d].state /\ x.state \in {"none", "pending"} /\ x.file = "whole"
        /\ x.owner = dl[d].owner /\ x.lost = dl[d].lost /\ x.private = dl[d].private
    BY <1>1, <1>3, <2>1 DEF FinishFile, GuestRows
  <2>3. RowFits(x, library[d].saved)
    BY <1>1, <2>2 DEF RowFits
  <2> QED
    BY <1>3, <2>1, <2>3, RowKeeps DEF FinishFile, Rest, IsWhole
<1>4. CASE CompleteDownload(d)
  <2>1. PICK x \in GuestRows : x = [dl[d] EXCEPT !.state = "completed"]
    BY <1>1 DEF GuestRows
  <2>2. /\ x.state = "completed" /\ x.file = "whole" /\ x.owner = dl[d].owner /\ x.lost = dl[d].lost /\ x.private = dl[d].private
        /\ dl[d].state = "pending"
    BY <1>1, <1>4, <2>1 DEF CompleteDownload, GuestRows
  <2>3. RowFits(x, library[d].saved)
    BY <1>1, <2>2 DEF RowFits
  <2> QED
    BY <1>4, <2>1, <2>3, RowKeeps DEF CompleteDownload, Rest, IsWhole
<1>5. CASE CancelDownload(d)
  <2>1. PICK x \in GuestRows : x = [dl[d] EXCEPT !.state = "cancelled"]
    BY <1>1 DEF GuestRows
  <2>2. /\ x.state = "cancelled" /\ x.file = "part" /\ x.owner = dl[d].owner /\ x.lost = dl[d].lost /\ x.private = dl[d].private
        /\ dl[d].state = "pending"
    BY <1>1, <1>5, <2>1 DEF CancelDownload, GuestRows
  <2>3. RowFits(x, library[d].saved)
    BY <1>1, <2>2 DEF RowFits
  <2> QED
    BY <1>5, <2>1, <2>3, RowKeeps DEF CancelDownload, Rest, IsWhole
<1> QED
  BY <1>2, <1>3, <1>4, <1>5

\* Recovery of a launch that is gone: a whole file that can be read is
\* completed, the rest is removed, and what is settled stays as it was.
LEMMA RecoveredFits ==
  ASSUME TransferInv, NEW o \in Recoveries
  PROVE  /\ o \in [Downloads -> GuestRows]
         /\ \A d \in Downloads : /\ RowFits(o[d], library[d].saved)
                                 /\ IsWhole(d) => o[d].state = dl[d].state /\ o[d].private = dl[d].private
<1>1. PICK unread \in SUBSET Renamed : o = Recovered(unread)
  BY DEF Recoveries
<1> SUFFICES ASSUME NEW d \in Downloads
             PROVE  /\ o[d] \in GuestRows /\ RowFits(o[d], library[d].saved)
                    /\ IsWhole(d) => o[d].state = dl[d].state /\ o[d].private = dl[d].private
  BY <1>1 DEF Recovered
<1>2. dl[d] \in GuestRows /\ RowFits(dl[d], library[d].saved)
  BY RowKnown
<1> DEFINE failed == d \in unread
           state == IF dl[d].state = "pending" THEN RecoveredState(dl[d], failed) ELSE dl[d].state
           file == IF state \in {"saved", "cancelled"} THEN Removed(dl[d].file) ELSE dl[d].file
           lost == dl[d].lost \/ failed
<1>3. /\ state \in {"none", "completed", "saved", "cancelled"} /\ file \in {"no", "part", "whole", "gone"} /\ lost \in BOOLEAN
      /\ failed => dl[d].state = "pending" /\ dl[d].file = "whole"
  BY <1>2 DEF GuestRows, RecoveredState, Removed, Renamed
<1>4. o[d] = [[[dl[d] EXCEPT !.state = state] EXCEPT !.file = file] EXCEPT !.lost = lost]
  BY <1>1, <1>2 DEF Recovered, GuestRows
<1>5. o[d] = [state |-> state, private |-> dl[d].private, file |-> file, owner |-> dl[d].owner, lost |-> lost]
  BY <1>2, <1>4 DEF GuestRows
<1>6. o[d] \in GuestRows
  BY <1>2, <1>3, <1>5 DEF GuestRows
<1>7. RowFits(o[d], library[d].saved)
  <2>1. /\ o[d].state = state /\ o[d].private = dl[d].private /\ o[d].file = file /\ o[d].owner = dl[d].owner /\ o[d].lost = lost
    BY <1>5
  <2>2. CASE dl[d].state # "pending"
    BY <1>2, <1>3, <2>1, <2>2 DEF RowFits, GuestRows, Removed
  <2>3. CASE dl[d].state = "pending" /\ failed
    BY <1>2, <1>3, <2>1, <2>3 DEF RowFits, GuestRows, RecoveredState, Removed
  <2>4. CASE dl[d].state = "pending" /\ ~failed
    BY <1>2, <1>3, <2>1, <2>4 DEF RowFits, GuestRows, RecoveredState, Removed
  <2> QED
    BY <2>2, <2>3, <2>4
<1>8. IsWhole(d) => state = dl[d].state
  BY DEF IsWhole
<1> QED
  BY <1>5, <1>6, <1>7, <1>8

\* The outbox as a call of the host finds it.
LEMMA OutboxFits ==
  ASSUME TransferInv, NEW o \in Outboxes
  PROVE  /\ o \in [Downloads -> GuestRows]
         /\ \A d \in Downloads : /\ RowFits(o[d], library[d].saved)
                                 /\ IsWhole(d) => o[d].state = dl[d].state /\ o[d].private = dl[d].private
<1>1. CASE up
  BY <1>1, RowKnown DEF Outboxes, TransferInv, TransferTypes
<1>2. CASE ~up
  BY <1>2, RecoveredFits DEF Outboxes
<1> QED
  BY <1>1, <1>2

\* A change of control, and what it hides.
LEMMA ControlKeeps ==
  ASSUME TransferInv, (\E c \in {"agent", "observed", "private"} : SwitchControl(c)) \/ PublishVisibility
  PROVE  TransferInv'
<1>1. CASE \E c \in {"agent", "observed", "private"} : SwitchControl(c)
  <2>1. TransferTypes'
    BY <1>1 DEF SwitchControl, OnlyControl, TransferInv, TransferTypes
  <2>2. RowsFit' /\ HiddenInv' /\ CollectorInv' /\ KeptInv'
    BY <1>1 DEF SwitchControl, OnlyControl, TransferInv, RowsFit, HiddenInv, OwnerAlone, CollectorInv, KeptInv, IsWhole
  <2>3. \A u \in Transfers : handed[u].pc \notin {"verify", "effect"}
    BY <1>1 DEF SwitchControl, TransferInv, ChooserInv
  <2>4. ChooserInv' /\ EffectsInv'
    BY <1>1, <2>3 DEF SwitchControl, OnlyControl, TransferInv, ChooserInv, EffectsInv
  <2> QED
    BY <2>1, <2>2, <2>4 DEF TransferInv
<1>2. CASE PublishVisibility
  <2>1. hidden' \in BOOLEAN /\ up' \in BOOLEAN
    BY <1>2 DEF PublishVisibility, TransferInv, TransferTypes
  <2>2. ASSUME NEW d \in Downloads PROVE dl'[d] \in GuestRows /\ RowMoves(d)
    <3> DEFINE m == IF hidden' /\ dl[d].state = "pending" THEN [dl[d] EXCEPT !.private = TRUE] ELSE dl[d]
    <3>1. dl[d] \in GuestRows /\ RowFits(dl[d], library[d].saved) /\ hidden' = (control = "private")
      BY <1>2, RowKnown DEF PublishVisibility
    <3>2. m \in GuestRows /\ m.state = dl[d].state /\ m.file = dl[d].file /\ m.owner = dl[d].owner /\ m.lost = dl[d].lost
          /\ (hidden' /\ dl[d].state = "pending" => m.private) /\ (dl[d].private => m.private) /\ (IsWhole(d) => m = dl[d])
      BY <3>1 DEF GuestRows, IsWhole
    <3>3. dl'[d] = IF hidden' /\ m.state = "pending" THEN [m EXCEPT !.owner = TRUE] ELSE m
      BY <1>2, <3>1 DEF PublishVisibility, Marked, Witnessed
    <3>4. /\ dl'[d] \in GuestRows /\ dl'[d].state = dl[d].state /\ dl'[d].file = dl[d].file /\ dl'[d].lost = dl[d].lost
          /\ dl'[d].private = m.private
          /\ dl'[d].owner => dl[d].owner \/ (hidden' /\ dl[d].state = "pending")
      BY <3>2, <3>3 DEF GuestRows
    <3>5. RowFits(dl'[d], library[d].saved)
      BY <3>1, <3>2, <3>4 DEF RowFits, GuestRows
    <3>6. IsWhole(d) => dl'[d].private = dl[d].private
      BY <3>2, <3>4
    <3> QED
      BY <3>4, <3>5, <3>6 DEF RowMoves, IsWhole
  <2>3. dl' \in [Downloads -> GuestRows]
    BY <1>2, <2>2 DEF PublishVisibility, Witnessed
  <2>4. RowsFit' /\ CollectorInv' /\ KeptInv'
    BY <1>2, <2>1, <2>2, <2>3, RowsMove DEF PublishVisibility, OnlyControl
  <2>5. TransferTypes'
    BY <1>2, <2>1, <2>3 DEF PublishVisibility, OnlyControl, TransferInv, TransferTypes
  <2>6. \A u \in Transfers : handed[u].pc \notin {"verify", "effect"}
    BY <1>2 DEF PublishVisibility, TransferInv, ChooserInv
  <2>7. ChooserInv' /\ EffectsInv'
    BY <1>2, <2>6 DEF PublishVisibility, OnlyControl, TransferInv, ChooserInv, EffectsInv
  <2>8. HiddenInv'
    BY <1>2 DEF PublishVisibility, HiddenInv, OwnerAlone
  <2> QED
    BY <2>4, <2>5, <2>7, <2>8 DEF TransferInv
<1> QED
  BY <1>1, <1>2

\* The launch stops in order, or the guest dies.
LEMMA LaunchEnds ==
  ASSUME TransferInv, StopLaunch \/ GuestDies
  PROVE  TransferInv'
<1>1. /\ up' = FALSE /\ chooser' = 0 /\ handed' = [u \in Transfers |-> NoTransfer] /\ inputLock' = None
      /\ UNCHANGED <<hidden, control, receipt, library, coll, opened, effects>>
      /\ dl' \in Recoveries \/ dl' = dl
  BY DEF StopLaunch, GuestDies
<1>2. dl' \in [Downloads -> GuestRows] /\ \A d \in Downloads : RowMoves(d)
  BY <1>1, RecoveredFits, RowKnown DEF RowMoves, IsWhole, TransferInv, TransferTypes
<1>3. RowsFit' /\ CollectorInv' /\ KeptInv'
  BY <1>1, <1>2, RowsMove DEF TransferInv, TransferTypes
<1>4. TransferTypes'
  BY <1>1, <1>2 DEF TransferInv, TransferTypes, NoTransfer, Handings
<1>5. ChooserInv'
  BY <1>1 DEF TransferInv, TransferTypes, ChooserInv, NoTransfer
<1>6. EffectsInv' /\ HiddenInv'
  BY <1>1 DEF TransferInv, EffectsInv, HiddenInv
<1> QED
  BY <1>3, <1>4, <1>5, <1>6 DEF TransferInv

\* What the host adds to a row it lists.
LEMMA ReceiptedFits ==
  ASSUME TransferInv, NEW o \in Outboxes
  PROVE  /\ Receipted(o) \in [Downloads -> HostReceipts]
         /\ \A d \in Listed(o) : Receipted(o)[d].private = (receipt[d].private \/ o[d].private \/ ~Observed)
<1>1. ASSUME NEW d \in Downloads PROVE Provenance(d, o[d]) \in HostReceipts
  <2>1. receipt[d] \in HostReceipts /\ o[d] \in GuestRows /\ up \in BOOLEAN
    BY RowKnown, OutboxFits DEF TransferInv, TransferTypes
  <2> QED
    BY <2>1 DEF Provenance, HostReceipts, GuestRows, AgentHas, Observed
<1>2. Receipted(o) \in [Downloads -> HostReceipts]
  BY <1>1, RowKnown DEF Receipted
<1>3. \A d \in Listed(o) : Receipted(o)[d] = Provenance(d, o[d])
  BY DEF Receipted, Listed
<1> QED
  <2>1. \A d \in Listed(o) : Receipted(o)[d].private = Provenance(d, o[d]).private
    BY <1>3
  <2>2. \A d \in Listed(o) : Provenance(d, o[d]).private = (receipt[d].private \/ o[d].private \/ ~Observed)
    BY DEF Provenance
  <2> QED
    BY <1>2, <2>1, <2>2

\* The collector's calls.
LEMMA CollectorKeeps ==
  ASSUME TransferInv, NEW o \in Outboxes, List(o) \/ ReadBytes(o) \/ Confirm(o) \/ Commit \/ AckDownload(o) \/ CollectorStops
  PROVE  TransferInv'
<1>1. Collecting /\ UploadsRest
  BY DEF List, ReadBytes, Confirm, Commit, AckDownload, CollectorStops, Collecting, UploadsRest
<1>2. ChooserInv' /\ EffectsInv' /\ HiddenInv'
  BY <1>1 DEF TransferInv, ChooserInv, EffectsInv, HiddenInv, OwnerAlone, UploadsRest, Collecting, Has
<1>3. ASSUME dl' \in [Downloads -> GuestRows], receipt' \in [Downloads -> HostReceipts], library' \in [Downloads -> SavedRows],
             coll' \in Collectors
      PROVE  TransferTypes'
  BY <1>1, <1>3 DEF Collecting, TransferInv, TransferTypes
<1>4. /\ dl \in [Downloads -> GuestRows] /\ receipt \in [Downloads -> HostReceipts] /\ library \in [Downloads -> SavedRows]
      /\ coll \in Collectors /\ coll.private \in BOOLEAN /\ coll.d \in Downloads \cup {None}
  BY DEF TransferInv, TransferTypes, Collectors
<1>5. ASSUME dl' = o, UNCHANGED library PROVE /\ RowsFit' /\ KeptInv' /\ dl' \in [Downloads -> GuestRows]
                                                   /\ \A d \in Downloads : IsWhole(d) => IsWhole(d)'
  <2>1. RowsFit'
    BY <1>5, OutboxFits DEF RowsFit
  <2>2. KeptInv'
    BY <1>5, OutboxFits DEF TransferInv, KeptInv, IsWhole
  <2> QED
    BY <1>5, <2>1, <2>2, OutboxFits DEF IsWhole
<1>6. CASE List(o)
  <2>1. CASE UNCHANGED coll
    <3>1. CollectorInv'
      BY <1>4, <1>6, <2>1, OutboxFits DEF List, TransferInv, CollectorInv
    <3> QED
      BY <1>2, <1>3, <1>4, <1>5, <1>6, <2>1, <3>1, ReceiptedFits DEF List, TransferInv
  <2>2. CASE ~UNCHANGED coll
    <3>1. PICK d \in Downloads : o[d].state = "completed" /\ coll' = [pc |-> "read", d |-> d, private |-> Provenance(d, o[d]).private]
      BY <1>6, <2>2 DEF List
    <3>2. Provenance(d, o[d]).private \in BOOLEAN
      BY RowKnown, OutboxFits DEF Provenance, GuestRows, HostReceipts, Observed, TransferInv, TransferTypes
    <3>3. coll' \in Collectors /\ coll'.pc = "read" /\ coll'.d = d
      BY <3>1, <3>2 DEF Collectors
    <3>4. CollectorInv'
      BY <1>6, <3>1, <3>3 DEF List, CollectorInv, IsWhole
    <3> QED
      BY <1>2, <1>3, <1>4, <1>5, <1>6, <3>3, <3>4, ReceiptedFits DEF List, TransferInv
  <2> QED
    BY <2>1, <2>2
<1>7. CASE ReadBytes(o)
  <2>1. coll' \in Collectors /\ coll'.pc = "confirm" /\ coll'.d = coll.d
    BY <1>4, <1>7 DEF ReadBytes, Collectors
  <2>2. CollectorInv'
    BY <1>5, <1>7, <2>1 DEF ReadBytes, CollectorInv, TransferInv
  <2> QED
    BY <1>2, <1>3, <1>4, <1>5, <1>7, <2>1, <2>2 DEF ReadBytes, TransferInv
<1>8. CASE Confirm(o)
  <2> DEFINE p == coll.private \/ Receipted(o)[coll.d].private
  <2>1. coll.d \in Downloads /\ IsWhole(coll.d) /\ Receipted(o)[coll.d].private = (receipt[coll.d].private \/ o[coll.d].private \/ ~Observed)
    BY <1>8, ReceiptedFits DEF Confirm, TransferInv, CollectorInv
  <2>2. Receipted(o)[coll.d].private \in BOOLEAN
    BY <2>1, ReceiptedFits DEF HostReceipts
  <2>3. p \in BOOLEAN
    BY <1>4, <2>2
  <2>4. coll' = [[coll EXCEPT !.pc = "commit"] EXCEPT !.private = p]
    BY <1>4, <1>8 DEF Confirm, ConfirmedPrivate, Collectors
  <2>5. coll' = [pc |-> "commit", d |-> coll.d, private |-> p]
    BY <1>4, <2>4 DEF Collectors
  <2>6. coll' \in Collectors
    BY <1>4, <2>3, <2>5 DEF Collectors
  <2>7. CollectorInv'
    <3>1. coll'.pc = "commit" /\ coll'.d = coll.d /\ coll'.private = p
      BY <2>5
    <3>2. IsWhole(coll.d)' /\ dl'[coll.d] = o[coll.d] /\ receipt'[coll.d] = Receipted(o)[coll.d]
      BY <1>5, <1>8, <2>1 DEF Confirm
    <3>3. ~p => ~Receipted(o)[coll.d].private /\ ~o[coll.d].private
      BY <2>1
    <3>4. ~p => ~dl'[coll.d].private /\ ~receipt'[coll.d].private
      BY <3>2, <3>3
    <3> QED
      BY <2>1, <3>1, <3>2, <3>4 DEF CollectorInv, IsWhole
  <2> QED
    BY <1>2, <1>3, <1>4, <1>5, <1>8, <2>6, <2>7, ReceiptedFits DEF Confirm, TransferInv
<1>9. CASE Commit
  <2>1. coll.d \in Downloads /\ IsWhole(coll.d) /\ (~coll.private => ~dl[coll.d].private /\ ~receipt[coll.d].private)
    BY <1>9 DEF Commit, TransferInv, CollectorInv
  <2>2. coll' \in Collectors /\ coll'.pc = "ack" /\ coll'.d = coll.d
    BY <1>4, <1>9 DEF Commit, Collectors
  <2>3. receipt[coll.d].private \in BOOLEAN
    BY <2>1, RowKnown DEF HostReceipts
  <2>4. PICK row \in SavedRows : row = [saved |-> TRUE, private |-> coll.private, seen |-> receipt[coll.d].private]
    BY <1>4, <2>3 DEF SavedRows
  <2>5. library' = IF library[coll.d].saved THEN library ELSE [library EXCEPT ![coll.d] = row]
    BY <1>9, <2>4 DEF Commit
  <2>6. library' \in [Downloads -> SavedRows] /\ library'[coll.d].saved /\ \A d \in Downloads : d # coll.d => library'[d] = library[d]
    BY <1>4, <2>1, <2>4, <2>5
  <2>7. \A d \in Downloads : library[d].saved => library'[d].saved
    BY <2>1, <2>6
  <2>8. RowsFit'
    BY <1>9, <2>7 DEF Commit, TransferInv, RowsFit, RowFits
  <2>9. CollectorInv'
    BY <1>9, <2>1, <2>2, <2>6 DEF Commit, CollectorInv, IsWhole
  <2>10. KeptInv'
    <3> SUFFICES ASSUME NEW d \in Downloads, library'[d].saved
                 PROVE  IsWhole(d)' /\ (~library'[d].private => ~dl'[d].private /\ ~library'[d].seen)
      BY DEF KeptInv
    <3>1. CASE library'[d] = library[d]
      BY <1>9, <3>1 DEF Commit, TransferInv, KeptInv, IsWhole
    <3>2. CASE d = coll.d /\ library'[d] = row
      BY <1>9, <2>1, <2>4, <3>2 DEF Commit, IsWhole
    <3> QED
      BY <1>4, <2>1, <2>5, <2>6, <3>1, <3>2
  <2> QED
    BY <1>2, <1>3, <1>4, <1>9, <2>2, <2>6, <2>8, <2>9, <2>10 DEF Commit, TransferInv
<1>10. CASE AckDownload(o)
  <2>1. coll.d \in Downloads /\ IsWhole(coll.d) /\ library[coll.d].saved
    BY <1>10 DEF AckDownload, TransferInv, CollectorInv
  <2>2. o[coll.d] \in GuestRows /\ RowFits(o[coll.d], library[coll.d].saved) /\ o[coll.d].state \in {"completed", "saved"}
    <3>1. o[coll.d] \in GuestRows /\ RowFits(o[coll.d], library[coll.d].saved)
      BY <2>1, OutboxFits
    <3>2. o[coll.d].state \in {"completed", "saved"}
      BY <1>10 DEF AckDownload
    <3> QED
      BY <3>1, <3>2
  <2>3. o[coll.d].file \in {"whole", "gone"} /\ Removed(o[coll.d].file) \in {"whole", "gone"}
    BY <2>2 DEF RowFits, Removed
  <2>4. PICK file \in {"whole", "gone"} : dl' = [o EXCEPT ![coll.d].state = "saved", ![coll.d].file = file]
    BY <1>10, <2>3 DEF AckDownload
  <2>5. PICK y \in GuestRows : y = [o[coll.d] EXCEPT !.state = "saved"]
    BY <2>2 DEF GuestRows
  <2>6. PICK x \in GuestRows : x = [y EXCEPT !.file = file]
    BY <2>4 DEF GuestRows
  <2>7. /\ dl' = [o EXCEPT ![coll.d] = x]
        /\ x.state = "saved" /\ x.file = file /\ x.private = o[coll.d].private
        /\ x.owner = o[coll.d].owner /\ x.lost = o[coll.d].lost
    <3>1. dl' = [o EXCEPT ![coll.d] = [[o[coll.d] EXCEPT !.state = "saved"] EXCEPT !.file = file]]
      BY <2>1, <2>4, OutboxFits
    <3>2. y.state = "saved" /\ y.private = o[coll.d].private /\ y.owner = o[coll.d].owner /\ y.lost = o[coll.d].lost
      BY <2>2, <2>5 DEF GuestRows
    <3>3. x.state = y.state /\ x.private = y.private /\ x.owner = y.owner /\ x.lost = y.lost /\ x.file = file
      BY <2>6 DEF GuestRows
    <3> QED
      BY <2>5, <2>6, <3>1, <3>2, <3>3
  <2>8. dl' \in [Downloads -> GuestRows] /\ dl'[coll.d] = x /\ \A d \in Downloads : d # coll.d => dl'[d] = o[d]
    BY <2>1, <2>7, OutboxFits
  <2>9. RowsFit'
    <3> SUFFICES ASSUME NEW d \in Downloads PROVE RowFits(dl'[d], library[d].saved)
      BY <1>10 DEF AckDownload, RowsFit
    <3>1. CASE d = coll.d
      BY <2>1, <2>2, <2>4, <2>7, <2>8, <3>1 DEF RowFits
    <3>2. CASE d # coll.d
      BY <2>8, <3>2, OutboxFits
    <3> QED
      BY <3>1, <3>2
  <2>10. KeptInv'
    BY <1>10, <2>1, <2>7, <2>8, OutboxFits DEF AckDownload, TransferInv, KeptInv, IsWhole
  <2>11. coll' \in Collectors /\ CollectorInv'
    BY <1>10 DEF AckDownload, NoCollector, Collectors, CollectorInv
  <2> QED
    BY <1>2, <1>3, <1>4, <1>10, <2>8, <2>9, <2>10, <2>11 DEF AckDownload, TransferInv
<1>11. CASE CollectorStops
  <2>1. coll' \in Collectors /\ CollectorInv'
    BY <1>11 DEF CollectorStops, NoCollector, Collectors, CollectorInv
  <2>2. RowsFit' /\ KeptInv'
    BY <1>11 DEF CollectorStops, TransferInv, RowsFit, KeptInv, IsWhole
  <2> QED
    BY <1>2, <1>3, <1>4, <1>11, <2>1, <2>2 DEF CollectorStops, TransferInv
<1> QED
  BY <1>6, <1>7, <1>8, <1>9, <1>10, <1>11

\* What uploads leave alone.
LEMMA PageRests ==
  ASSUME TransferInv, DownloadsRest, UNCHANGED <<up, hidden, control>>, inputLock' = "switch" \/ inputLock # "switch"
  PROVE  RowsFit' /\ HiddenInv' /\ CollectorInv' /\ KeptInv'
BY DEF TransferInv, DownloadsRest, RowsFit, HiddenInv, OwnerAlone, CollectorInv, KeptInv, IsWhole

\* The page opens a chooser, or takes it away.
LEMMA PageKeeps ==
  ASSUME TransferInv, OpenChooser \/ Navigate
  PROVE  TransferInv'
<1>1. /\ DownloadsRest /\ UNCHANGED <<up, hidden, control, inputLock, handed, effects>>
      /\ opened \in Nat /\ opened' \in {opened, opened + 1} /\ chooser' \in {0, opened + 1} /\ chooser' <= opened'
  BY DEF OpenChooser, Navigate, Page, DownloadsRest, TransferInv, TransferTypes
<1>2. TransferTypes'
  BY <1>1 DEF DownloadsRest, TransferInv, TransferTypes
<1>3. ChooserInv'
  BY <1>1 DEF TransferInv, ChooserInv, Has
<1>4. EffectsInv'
  BY <1>1 DEF TransferInv, EffectsInv
<1> QED
  BY <1>1, <1>2, <1>3, <1>4, PageRests DEF TransferInv

\* One upload goes on; the page is as it was.
LEMMA HandedKeeps ==
  ASSUME TransferInv, NEW u \in Transfers, NEW x \in Handings, handed' = [handed EXCEPT ![u] = x],
         x.pc # "none" => x.chooser \in 1..opened, x.pc # "effect",
         x.pc = "verify" => inputLock' = u /\ Has(x.by), inputLock' = inputLock \/ inputLock' = u, inputLock \in {None, u} \/ inputLock' = inputLock,
         UNCHANGED <<up, hidden, control, chooser, opened, effects>>, DownloadsRest
  PROVE  TransferInv'
<1>1. TransferTypes'
  BY DEF DownloadsRest, TransferInv, TransferTypes
<1>2. handed'[u] = x /\ \A w \in Transfers : w # u => handed'[w] = handed[w]
  BY DEF TransferInv, TransferTypes
<1>3. ASSUME NEW w \in Transfers, handed'[w].pc \in {"verify", "effect"} PROVE inputLock' = w /\ Has(handed'[w].by)
  BY <1>2, <1>3 DEF TransferInv, ChooserInv
<1>4. ChooserInv'
  BY <1>2, <1>3 DEF TransferInv, ChooserInv, Has
<1>5. EffectsInv'
  BY DEF TransferInv, EffectsInv
<1>6. inputLock' = "switch" \/ inputLock # "switch"
  BY DEF None
<1> QED
  BY <1>1, <1>4, <1>5, <1>6, PageRests DEF TransferInv

\* An upload is begun, written and given in.
LEMMA UploadKeeps ==
  ASSUME TransferInv, NEW u \in Transfers,
         (\E by \in {"agent", "owner"} : BeginTransfer(u, by)) \/ WriteChunks(u) \/ BeginCommit(u)
  PROVE  TransferInv'
<1>1. handed[u] \in Handings /\ chooser \in Nat /\ opened \in Nat /\ chooser <= opened /\ handed \in [Transfers -> Handings]
  BY DEF TransferInv, TransferTypes, ChooserInv
<1>2. handed[u].pc # "none" => handed[u].chooser \in 1..opened
  BY DEF TransferInv, ChooserInv
<1>3. CASE \E by \in {"agent", "owner"} : BeginTransfer(u, by)
  <2>1. PICK by \in {"agent", "owner"} : BeginTransfer(u, by)
    BY <1>3
  <2>2. PICK x \in Handings : x = [pc |-> "part", chooser |-> chooser, by |-> by]
    BY <1>1 DEF Handings
  <2>3. x.chooser \in 1..opened
    BY <1>1, <2>1, <2>2 DEF BeginTransfer
  <2>4. /\ handed' = [handed EXCEPT ![u] = x] /\ UNCHANGED <<up, hidden, control, inputLock, chooser, opened, effects>> /\ DownloadsRest
    BY <2>1, <2>2 DEF BeginTransfer, Page, DownloadsRest
  <2> QED
    BY <2>2, <2>3, <2>4, HandedKeeps
<1>4. CASE WriteChunks(u)
  <2>1. PICK x \in Handings : x = [handed[u] EXCEPT !.pc = "whole"]
    BY <1>1 DEF Handings
  <2>2. x.pc = "whole" /\ x.chooser = handed[u].chooser
    BY <1>1, <2>1 DEF Handings
  <2>3. /\ handed' = [handed EXCEPT ![u] = x] /\ UNCHANGED <<up, hidden, control, inputLock, chooser, opened, effects>> /\ DownloadsRest
        /\ handed[u].pc # "none"
    BY <1>4, <2>1 DEF WriteChunks, Page, DownloadsRest
  <2> QED
    BY <1>2, <2>2, <2>3, HandedKeeps
<1>5. CASE BeginCommit(u)
  <2>1. PICK pc \in {"verify", "refused"} : pc = IF handed[u].pc = "whole" THEN "verify" ELSE "refused"
    OBVIOUS
  <2>2. PICK x \in Handings : x = [handed[u] EXCEPT !.pc = pc]
    BY <1>1 DEF Handings
  <2>3. x.pc = pc /\ x.chooser = handed[u].chooser /\ x.by = handed[u].by
    BY <1>1, <2>2 DEF Handings
  <2>4. handed' = [handed EXCEPT ![u] = x]
    BY <1>1, <1>5, <2>1, <2>2 DEF BeginCommit
  <2>5. /\ inputLock' = u /\ inputLock = None /\ UNCHANGED <<up, hidden, control, chooser, opened, effects>> /\ DownloadsRest
        /\ handed[u].pc # "none" /\ Has(handed[u].by)
    BY <1>5 DEF BeginCommit, DownloadsRest, MayCommit
  <2> QED
    BY <1>2, <2>3, <2>4, <2>5, HandedKeeps
<1> QED
  BY <1>3, <1>4, <1>5

\* The chooser is used up, unless the page changed since.
LEMMA ConsumeKeeps ==
  ASSUME TransferInv, NEW u \in Transfers, Consume(u)
  PROVE  TransferInv'
<1>1. /\ handed[u] \in Handings /\ chooser \in Nat /\ opened \in Nat /\ handed \in [Transfers -> Handings] /\ handed[u].pc = "verify"
      /\ inputLock = u /\ Has(handed[u].by) /\ handed[u].chooser \in 1..opened
  BY DEF TransferInv, TransferTypes, ChooserInv, Consume
<1>2. /\ DownloadsRest /\ UNCHANGED <<up, hidden, control, inputLock, opened, effects>>
  BY DEF Consume, Page, DownloadsRest
<1>3. CASE chooser # handed[u].chooser /\ handed' = [handed EXCEPT ![u].pc = "refused"] /\ UNCHANGED chooser
  <2>1. PICK x \in Handings : x = [handed[u] EXCEPT !.pc = "refused"]
    BY <1>1 DEF Handings
  <2>2. x.pc = "refused" /\ x.chooser = handed[u].chooser
    BY <1>1, <2>1 DEF Handings
  <2>3. handed' = [handed EXCEPT ![u] = x]
    BY <1>1, <1>3, <2>1
  <2> QED
    BY <1>1, <1>2, <1>3, <2>2, <2>3, HandedKeeps
<1>4. CASE chooser = handed[u].chooser /\ chooser' = 0 /\ handed' = [handed EXCEPT ![u].pc = "effect"]
  <2>1. PICK x \in Handings : x = [handed[u] EXCEPT !.pc = "effect"]
    BY <1>1 DEF Handings
  <2>2. x.pc = "effect" /\ x.chooser = handed[u].chooser /\ x.by = handed[u].by
    BY <1>1, <2>1 DEF Handings
  <2>3. handed' = [handed EXCEPT ![u] = x]
    BY <1>1, <1>4, <2>1
  <2>4. handed'[u] = x /\ \A w \in Transfers : w # u => handed'[w] = handed[w]
    BY <1>1, <2>3
  <2>5. TransferTypes'
    BY <1>1, <1>2, <1>4, <2>3 DEF DownloadsRest, TransferInv, TransferTypes
  <2>6. \A w \in Transfers : w # u => handed[w].pc \notin {"verify", "effect"}
    BY <1>1 DEF TransferInv, ChooserInv
  <2>7. \A i \in DOMAIN effects : effects[i].chooser # handed[u].chooser
    BY <1>4 DEF TransferInv, EffectsInv
  <2>8. ASSUME NEW w \in Transfers
        PROVE  /\ handed'[w].pc # "none" => handed'[w].chooser \in 1..opened'
               /\ handed'[w].pc \in {"verify", "effect"} => inputLock' = w /\ Has(handed'[w].by)
               /\ handed'[w].pc = "effect" =>
                    chooser' # handed'[w].chooser /\ \A i \in DOMAIN effects' : effects'[i].chooser # handed'[w].chooser
    <3>1. CASE w = u
      <4>1. chooser' # handed[u].chooser
        BY <1>1, <1>4
      <4>2. /\ handed'[u].pc = "effect" /\ handed'[u].chooser = handed[u].chooser /\ handed'[u].by = handed[u].by
        BY <2>2, <2>4
      <4> QED
        BY <1>1, <1>2, <2>7, <3>1, <4>1, <4>2
    <3>2. CASE w # u
      BY <1>2, <2>4, <2>6, <3>2 DEF TransferInv, ChooserInv
    <3> QED
      BY <3>1, <3>2
  <2>9. ChooserInv'
    <3>1. chooser' <= opened'
      BY <1>1, <1>2, <1>4
    <3>2. \A w \in Transfers : Has(handed'[w].by) => (Has(handed[w].by))'
      BY <1>2 DEF Has
    <3> QED
      BY <2>8, <3>1, <3>2 DEF ChooserInv
  <2>10. EffectsInv'
    BY <1>2, <1>4 DEF TransferInv, EffectsInv
  <2> QED
    BY <1>2, <2>5, <2>9, <2>10, PageRests DEF TransferInv
<1> QED
  BY <1>3, <1>4 DEF Consume, ChooserLeft

\* The file is set into the page, or it stays unknown whether it was.
LEMMA SetFilesKeeps ==
  ASSUME TransferInv, NEW u \in Transfers, SetFiles(u)
  PROVE  TransferInv'
<1>1. /\ handed[u] \in Handings /\ chooser \in Nat /\ opened \in Nat /\ handed \in [Transfers -> Handings] /\ handed[u].pc = "effect"
      /\ inputLock = u /\ Has(handed[u].by) /\ handed[u].chooser \in 1..opened /\ chooser # handed[u].chooser
      /\ \A i \in DOMAIN effects : effects[i].chooser # handed[u].chooser
  BY DEF TransferInv, TransferTypes, ChooserInv, SetFiles
<1>2. /\ DownloadsRest /\ UNCHANGED <<up, hidden, control, inputLock, opened, chooser>>
  BY DEF SetFiles, Page, DownloadsRest
<1>3. PICK x \in Handings : x = [handed[u] EXCEPT !.pc = "done"]
  BY <1>1 DEF Handings
<1>4. x.pc = "done" /\ x.chooser = handed[u].chooser /\ handed' = [handed EXCEPT ![u] = x]
  BY <1>1, <1>3 DEF Handings, SetFiles
<1>5. handed'[u] = x /\ \A w \in Transfers : w # u => handed'[w] = handed[w]
  BY <1>1, <1>4
<1>6. PICK e \in PageEffects : e = [chooser |-> handed[u].chooser, by |-> handed[u].by, had |-> control]
  BY <1>1 DEF PageEffects, Handings, TransferInv, TransferTypes
<1>7. effects \in Seq(PageEffects) /\ (effects' = Append(effects, e) \/ effects' = effects)
  BY <1>6 DEF SetFiles, TransferInv, TransferTypes
<1>8. e.chooser = handed[u].chooser /\ (e.by = "agent") = (e.had = "agent")
  BY <1>1, <1>6 DEF Has
<1>9. TransferTypes'
  <2>1. effects' \in Seq(PageEffects)
    BY <1>6, <1>7
  <2>2. handed' \in [Transfers -> Handings]
    BY <1>1, <1>4
  <2> QED
    BY <1>2, <2>1, <2>2 DEF DownloadsRest, TransferInv, TransferTypes
<1>10. \A w \in Transfers : w # u => handed[w].pc \notin {"verify", "effect"}
  BY <1>1 DEF TransferInv, ChooserInv
<1>11. ChooserInv'
  <2> SUFFICES ASSUME NEW w \in Transfers
               PROVE  /\ handed'[w].pc # "none" => handed'[w].chooser \in 1..opened
                      /\ handed'[w].pc \notin {"verify", "effect"}
    BY <1>2 DEF TransferInv, ChooserInv
  <2>1. CASE w = u
    BY <1>1, <1>4, <1>5, <2>1
  <2>2. CASE w # u
    BY <1>5, <1>10, <2>2 DEF TransferInv, ChooserInv
  <2> QED
    BY <2>1, <2>2
<1>12. EffectsInv'
  <2>1. CASE effects' = effects
    BY <1>2, <2>1 DEF TransferInv, EffectsInv
  <2>2. CASE effects' = Append(effects, e)
    <3>1. /\ Len(effects') = Len(effects) + 1 /\ Len(effects) \in Nat /\ DOMAIN effects' = 1..(Len(effects) + 1) /\ DOMAIN effects = 1..Len(effects)
          /\ effects'[Len(effects) + 1] = e /\ \A i \in DOMAIN effects : effects'[i] = effects[i]
      BY <1>7, <2>2
    <3>2. \A i \in DOMAIN effects' : i \in DOMAIN effects \/ i = Len(effects) + 1
      BY <3>1
    <3>3. \A i \in DOMAIN effects' : effects'[i].chooser \in 1..opened' /\ effects'[i].chooser # chooser'
      BY <1>1, <1>2, <1>8, <3>1, <3>2 DEF TransferInv, EffectsInv
    <3>4. \A i, j \in DOMAIN effects' : i # j => effects'[i].chooser # effects'[j].chooser
      BY <1>1, <1>8, <3>1, <3>2 DEF TransferInv, EffectsInv
    <3>5. \A i \in DOMAIN effects' : (effects'[i].by = "agent") = (effects'[i].had = "agent")
      BY <1>8, <3>1, <3>2 DEF TransferInv, EffectsInv
    <3> QED
      BY <3>3, <3>4, <3>5 DEF EffectsInv
  <2> QED
    BY <1>7, <2>1, <2>2
<1> QED
  BY <1>2, <1>9, <1>11, <1>12, PageRests DEF TransferInv

\* The commit is over.
LEMMA EndCommitKeeps ==
  ASSUME TransferInv, NEW u \in Transfers, EndCommit(u)
  PROVE  TransferInv'
<1>1. /\ DownloadsRest /\ UNCHANGED <<up, hidden, control, opened, chooser, handed, effects>>
      /\ inputLock = u /\ handed[u].pc \in {"done", "refused"}
  BY DEF EndCommit, DownloadsRest
<1>2. TransferTypes'
  BY <1>1 DEF DownloadsRest, TransferInv, TransferTypes
<1>3. \A w \in Transfers : handed[w].pc \notin {"verify", "effect"}
  BY <1>1 DEF TransferInv, ChooserInv
<1>4. ChooserInv'
  BY <1>1, <1>3 DEF TransferInv, ChooserInv
<1>5. EffectsInv'
  BY <1>1 DEF TransferInv, EffectsInv
<1> QED
  BY <1>1, <1>2, <1>4, <1>5, PageRests DEF TransferInv

\* Every step of it.
LEMMA TransferSteps == TransferInv /\ (TransferNext \/ UNCHANGED transferVars) => TransferInv'
<1> SUFFICES ASSUME TransferInv, TransferNext \/ UNCHANGED transferVars PROVE TransferInv'
  OBVIOUS
<1>1. CASE (\E c \in {"agent", "observed", "private"} : SwitchControl(c)) \/ PublishVisibility
  BY <1>1, ControlKeeps
<1>2. CASE StopLaunch \/ GuestDies
  BY <1>2, LaunchEnds
<1>3. CASE \E d \in Downloads : StartDownload(d) \/ BeginDownload(d) \/ FinishFile(d) \/ CompleteDownload(d) \/ CancelDownload(d)
  BY <1>3, DownloadKeeps
<1>4. CASE (\E o \in Outboxes : List(o) \/ ReadBytes(o) \/ Confirm(o) \/ AckDownload(o)) \/ Commit \/ CollectorStops
  <2>1. \E o : o \in Outboxes
    BY DEF Outboxes, Recoveries
  <2> QED
    BY <1>4, <2>1, CollectorKeeps
<1>5. CASE OpenChooser \/ Navigate
  BY <1>5, PageKeeps
<1>6. CASE \E u \in Transfers : (\E by \in {"agent", "owner"} : BeginTransfer(u, by)) \/ WriteChunks(u) \/ BeginCommit(u)
  BY <1>6, UploadKeeps
<1>7. CASE \E u \in Transfers : Consume(u)
  BY <1>7, ConsumeKeeps
<1>8. CASE \E u \in Transfers : SetFiles(u)
  BY <1>8, SetFilesKeeps
<1>9. CASE \E u \in Transfers : EndCommit(u)
  BY <1>9, EndCommitKeeps
<1>10. CASE UNCHANGED transferVars
  BY <1>10 DEF transferVars, TransferInv, TransferTypes, HiddenInv, OwnerAlone, RowsFit, CollectorInv, KeptInv, IsWhole, ChooserInv, Has, EffectsInv
<1> QED
  BY <1>1, <1>2, <1>3, <1>4, <1>5, <1>6, <1>7, <1>8, <1>9, <1>10 DEF TransferNext

\* What is promised of it.
LEMMA TransferInvIsEnough == TransferInv => TransfersAreFaithful
<1> SUFFICES ASSUME TransferInv PROVE TransfersAreFaithful
  OBVIOUS
<1>1. ASSUME NEW d \in Downloads
      PROVE  /\ dl[d].state = "saved" => library[d].saved
             /\ dl[d].state = "completed" => dl[d].file = "whole"
             /\ dl[d].file = "gone" => library[d].saved \/ dl[d].lost
             /\ library[d].saved => ~dl[d].lost
             /\ library[d].saved /\ ~library[d].private => ~dl[d].private /\ ~dl[d].owner /\ ~library[d].seen
  BY RowKnown DEF RowFits, IsWhole, GuestRows
<1>2. /\ \A i, j \in DOMAIN effects : i # j => effects[i].chooser # effects[j].chooser
      /\ \A i \in DOMAIN effects : (effects[i].by = "agent") = (effects[i].had = "agent")
  BY DEF TransferInv, EffectsInv
<1> QED
  BY <1>1, <1>2 DEF TransfersAreFaithful

(* The owner's browser in a microVM. *)
SpaceAnswers == {"none", "refused", "running", "retired", "unavailable"}
LineRequests == [id : Launches \cup {0}, op : {"none", "start", "stop", "status", "publish", "freeze", "thaw", "drain"},
             by : {"none", "launch", "retire", "renew", "section"}, seq : Nat, holder : BOOLEAN, ttl : Nat, end : Nat,
             lease : Nat, answer : SpaceAnswers]
Guests == [launch : Launches \cup {0}, seq : Nat, faulted : BOOLEAN, blocked : BOOLEAN]
Fences == [holder : BOOLEAN, deadline : Nat, expired : BOOLEAN, made : BOOLEAN, frozen : BOOLEAN, lease : Nat]
Handles == [id : Launches \cup {0}, state : {"none", "starting", "running", "unavailable", "unknown", "retired"},
            seq : Nat, holder : BOOLEAN, blocked : BOOLEAN]
Sections == {"idle", "take_freeze", "take_grant", "take_exit", "take_thaw", "hand_freeze", "hand_exit", "hand_thaw",
             "drop_publish", "drop_drain"}
SpaceTypes ==
  /\ tick \in Nat /\ leaseEnd \in Nat /\ chromes \subseteq Launches /\ confirmed \subseteq Launches
  /\ launches \in [Launches -> {"none", "starting", "running", "retired"}]
  /\ reserved \in [Launches -> {"none", "reserved", "retired"}]
  /\ guest \in Guests /\ fence \in Fences
  /\ handle \in Handles
  /\ request \in LineRequests /\ late \in LineRequests /\ section \in Sections
\* A launch of which nothing runs, and that is not started again.
LaunchRests(i) == i \notin chromes /\ i # guest.launch /\ reserved[i] # "none"
ChromesInv ==
  /\ \A i, j \in chromes : i = j
  /\ serving => chromes \subseteq {guest.launch}
  /\ \A i \in chromes : launches[i] # "retired" /\ reserved[i] = "reserved"
  /\ guest.launch # 0 => serving /\ reserved[guest.launch] = "reserved" /\ launches[guest.launch] # "retired"
  /\ coldReceipt = "deleted" => chromes = {} /\ guest.launch = 0
ConfirmedInv ==
  /\ \A i \in confirmed : LaunchRests(i)
  /\ request.op # "none" /\ request.answer = "retired" => LaunchRests(request.id)
\* The host has one request on the line, and one at most that it gave up.
LineInv ==
  /\ request.op # "none" => request.id = handle.id /\ handle.state # "none" /\ request.seq = handle.seq
  /\ request.op # "none" /\ request.by \notin {"launch", "retire", "renew"} => section # "idle"
  /\ handle.state # "none" => handle.id \in Launches
  /\ late.op # "none" => late.id \in Launches /\ late.id <= handle.id
  /\ late.op # "none" /\ late.id = handle.id => handle.state = "none" \/ late.seq <= handle.seq
  /\ late.op # "none" /\ request.op # "none" /\ late.id = handle.id => late.seq < request.seq
GrantInv ==
  /\ \A m \in {request, late} : m.op = "publish" /\ m.holder => m.end <= m.lease
  /\ fence.holder /\ ~fence.expired => fence.deadline <= fence.lease
\* Nobody holds input in the guest, and no request it carried out says otherwise.
InputRests(n) == handle.id \in Launches /\ reserved[handle.id] # "none" /\ (guest.launch = handle.id => ~fence.holder /\ n <= guest.seq)
HolderInv ==
  /\ agreed => InputRests(0) /\ ~(request.op = "publish" /\ request.holder)
  /\ agreed /\ late.op = "publish" /\ late.holder /\ late.id = handle.id => InputRests(late.seq)
  /\ request.op = "publish" /\ request.answer = "running" /\ ~request.holder => InputRests(request.seq)
SpaceInv == SpaceTypes /\ ChromesInv /\ ConfirmedInv /\ LineInv /\ GrantInv /\ HolderInv

\* Nothing launched, nothing asked.
LEMMA SpaceBegins == SpaceInit => SpaceInv
<1> SUFFICES ASSUME SpaceInit PROVE SpaceInv
  OBVIOUS
<1>1. SpaceTypes
  BY DEF SpaceInit, SpaceTypes, NoGuest, NoGrant, NoHandle, NoRequest, LineRequests, SpaceAnswers, Guests, Fences, Handles, Sections
<1>2. ChromesInv /\ ConfirmedInv /\ LineInv /\ GrantInv /\ HolderInv
  BY DEF SpaceInit, ChromesInv, ConfirmedInv, LineInv, GrantInv, HolderInv, NoGuest, NoGrant, NoHandle, NoRequest
<1> QED
  BY <1>1, <1>2 DEF SpaceInv

\* The request that is forwarded: the one on the line, or one given up.
OnLine(m, heard) ==
  /\ m \in LineRequests /\ m.op # "none" /\ heard \in BOOLEAN
  /\ IF heard THEN m = request /\ request.answer = "none" /\ late' = late ELSE m = late /\ request' = request

\* What an answer does to the line.
LEMMA RepliesMove ==
  ASSUME SpaceInv, NEW m, NEW heard, OnLine(m, heard), NEW r \in SpaceAnswers \ {"none"}, Replies(heard, r)
  PROVE  /\ request' \in LineRequests /\ late' \in LineRequests
         /\ request'.op = request.op /\ request'.id = request.id /\ request'.seq = request.seq /\ request'.by = request.by
         /\ request'.holder = request.holder /\ request'.end = request.end /\ request'.lease = request.lease
         /\ request'.answer = request.answer \/ (m = request /\ request.answer = "none" /\ request'.answer = r)
         /\ late' = late \/ late'.op = "none"
<1>1. request \in LineRequests /\ late \in LineRequests /\ NoRequest \in LineRequests
  BY DEF SpaceInv, SpaceTypes, NoRequest, LineRequests, SpaceAnswers
<1>2. CASE heard
  <2>1. request' = [request EXCEPT !.answer = r] /\ late' = late /\ m = request /\ request.answer = "none"
    BY <1>2 DEF Replies, OnLine
  <2> QED
    BY <1>1, <2>1 DEF LineRequests
<1>3. CASE ~heard
  <2>1. request' = request /\ late' = NoRequest
    BY <1>3 DEF Replies, OnLine
  <2>2. NoRequest.op = "none"
    BY DEF NoRequest
  <2> QED
    BY <1>1, <2>1, <2>2
<1> QED
  BY <1>2, <1>3 DEF OnLine

\* The line and its grants, whatever is answered.
LEMMA RepliesKeepLine ==
  ASSUME SpaceInv, handle' = handle, request'.op = request.op, request'.id = request.id, request'.seq = request.seq, request'.by = request.by, section' = section,
         request'.holder = request.holder, request'.end = request.end, request'.lease = request.lease,
         late' = late \/ late'.op = "none",
         fence'.holder /\ ~fence'.expired => fence'.deadline <= fence'.lease
  PROVE  LineInv' /\ GrantInv'
<1>1. LineInv'
  BY DEF SpaceInv, LineInv
<1>2. \A m \in {request', late'} : m.op = "publish" /\ m.holder => m.end <= m.lease
  BY DEF SpaceInv, GrantInv
<1> QED
  BY <1>1, <1>2 DEF GrantInv

\* What a launch that rests needs of a step, to rest on.
LEMMA RestKeeps ==
  ASSUME NEW i, LaunchRests(i), i # 0,
         i \in chromes' => i \in chromes \/ i = guest.launch \/ reserved[i] = "none",
         guest'.launch \in {0, guest.launch} \/ (i = guest'.launch => reserved[i] = "none"),
         reserved'[i] # reserved[i] => reserved'[i] # "none"
  PROVE  LaunchRests(i)'
BY DEF LaunchRests

\* A request the guest refuses, or carries out without a change.
LEMMA RefusedKeeps ==
  ASSUME SpaceInv, NEW m, NEW heard, OnLine(m, heard), NEW r \in {"refused", "retired", "running", "unavailable"},
         Replies(heard, r), Beyond, r = "retired" => LaunchRests(m.id), r = "running" => m.op # "publish",
         UNCHANGED <<chromes, launches, fence>>,
         guest' \in Guests,
         guest'.launch = guest.launch, guest.launch # 0 => guest'.seq >= guest.seq,
         reserved' \in [Launches -> {"none", "reserved", "retired"}],
         \A i \in Launches : reserved'[i] = reserved[i] \/ (reserved[i] = "none" /\ reserved'[i] = "reserved")
  PROVE  SpaceInv'
<1>1. r \in SpaceAnswers \ {"none"}
  BY DEF SpaceAnswers
<1>2. /\ request' \in LineRequests /\ late' \in LineRequests
      /\ request'.op = request.op /\ request'.id = request.id /\ request'.seq = request.seq /\ request'.by = request.by
      /\ request'.holder = request.holder /\ request'.end = request.end /\ request'.lease = request.lease
      /\ request'.answer = request.answer \/ (m = request /\ request.answer = "none" /\ request'.answer = r)
      /\ late' = late \/ late'.op = "none"
  BY <1>1, RepliesMove
<1>3. /\ tick' = tick /\ serving' = serving /\ coldReceipt' = coldReceipt /\ sandbox' = sandbox /\ handle' = handle
      /\ leaseEnd' = leaseEnd /\ confirmed' = confirmed /\ agreed' = agreed /\ section' = section
      /\ chromes' = chromes /\ launches' = launches /\ fence' = fence
  BY DEF Beyond
<1>4. SpaceTypes'
  BY <1>2, <1>3 DEF SpaceInv, SpaceTypes
<1>0. guest.launch \in Launches \cup {0} /\ guest.seq \in Nat /\ guest'.seq \in Nat /\ chromes \subseteq Launches
  BY DEF SpaceInv, SpaceTypes, Guests
<1>5. ChromesInv'
  BY <1>0, <1>3 DEF SpaceInv, ChromesInv
<1>6. \A i \in Launches : LaunchRests(i) => LaunchRests(i)'
  BY <1>3 DEF LaunchRests
<1>7. ConfirmedInv'
  BY <1>2, <1>3, <1>6 DEF SpaceInv, SpaceTypes, ConfirmedInv, LineInv
<1>8. LineInv' /\ GrantInv'
  <2>1. fence'.holder /\ ~fence'.expired => fence'.deadline <= fence'.lease
    BY <1>3 DEF SpaceInv, GrantInv
  <2> QED
    BY <1>2, <1>3, <2>1, RepliesKeepLine
<1>9. \A n \in Nat : InputRests(n) => InputRests(n)'
  <2> SUFFICES ASSUME NEW n \in Nat, InputRests(n) PROVE InputRests(n)'
    OBVIOUS
  <2>1. handle'.id \in Launches /\ reserved'[handle'.id] # "none"
    BY <1>3 DEF InputRests
  <2>2. guest'.launch = handle'.id => n <= guest'.seq
    BY <1>0, <1>3 DEF InputRests
  <2>3. guest'.launch = handle'.id => ~fence'.holder
    BY <1>3 DEF InputRests
  <2> QED
    BY <2>1, <2>2, <2>3 DEF InputRests
<1>10. HolderInv'
  <2>1. 0 \in Nat /\ late.seq \in Nat /\ request.seq \in Nat
    BY DEF SpaceInv, SpaceTypes, LineRequests
  <2> QED
    BY <1>2, <1>3, <1>9, <2>1 DEF SpaceInv, HolderInv
<1> QED
  BY <1>4, <1>5, <1>7, <1>8, <1>10 DEF SpaceInv

\* A request that is newer than any before it, of the launch that runs.
LEMMA AdmittedKeeps ==
  ASSUME SpaceInv, NEW m, NEW heard, OnLine(m, heard), NEW r \in {"refused", "retired", "running", "unavailable"},
         Replies(heard, r), Beyond, m.id = guest.launch, m.id # 0, m.seq > guest.seq, reserved' = reserved,
         coldReceipt = "none", serving,
         guest' \in Guests, guest'.launch \in {0, guest.launch}, guest'.launch # 0 => guest'.seq = m.seq,
         chromes' \subseteq {guest.launch},
         \/ launches' = launches /\ guest'.launch = guest.launch
         \/ launches' = [launches EXCEPT ![guest.launch] = "retired"] /\ chromes' = {} /\ guest'.launch = 0,
         r = "retired" => guest'.launch = 0 /\ chromes' = {},
         fence' \in Fences, fence'.holder /\ ~fence'.expired => fence'.deadline <= fence'.lease,
         fence'.holder => fence.holder \/ (m.op = "publish" /\ m.holder),
         r = "running" /\ m.op = "publish" /\ fence'.holder => m.holder
  PROVE  SpaceInv'
<1>1. r \in SpaceAnswers \ {"none"}
  BY DEF SpaceAnswers
<1>2. /\ request' \in LineRequests /\ late' \in LineRequests
      /\ request'.op = request.op /\ request'.id = request.id /\ request'.seq = request.seq /\ request'.by = request.by
      /\ request'.holder = request.holder /\ request'.end = request.end /\ request'.lease = request.lease
      /\ request'.answer = request.answer \/ (m = request /\ request.answer = "none" /\ request'.answer = r)
      /\ late' = late \/ late'.op = "none"
  BY <1>1, RepliesMove
<1>3. /\ tick' = tick /\ serving' = serving /\ coldReceipt' = coldReceipt /\ sandbox' = sandbox /\ handle' = handle
      /\ leaseEnd' = leaseEnd /\ confirmed' = confirmed /\ agreed' = agreed /\ section' = section
  BY DEF Beyond
<1>4. /\ guest.launch \in Launches /\ guest.seq \in Nat /\ guest'.seq \in Nat /\ chromes \subseteq Launches
      /\ m.seq \in Nat /\ request.seq \in Nat /\ late.seq \in Nat
      /\ launches \in [Launches -> {"none", "starting", "running", "retired"}]
  <2>1. m \in LineRequests /\ request \in LineRequests /\ late \in LineRequests
    BY DEF SpaceInv, SpaceTypes, OnLine
  <2>2. m.seq \in Nat /\ request.seq \in Nat /\ late.seq \in Nat
    BY <2>1 DEF LineRequests
  <2>3. guest.launch \in Launches \cup {0} /\ guest.seq \in Nat /\ guest'.seq \in Nat
    BY DEF SpaceInv, SpaceTypes, Guests
  <2> QED
    BY <2>2, <2>3 DEF SpaceInv, SpaceTypes
<1>5. SpaceTypes'
  BY <1>2, <1>3, <1>4 DEF SpaceInv, SpaceTypes, Guests, Fences
<1>8. ChromesInv'
  BY <1>3, <1>4 DEF SpaceInv, ChromesInv
<1>9. \A i \in Launches : LaunchRests(i) => LaunchRests(i)'
  BY <1>3, <1>4 DEF LaunchRests
<1>10. ConfirmedInv'
  <2>1. r = "retired" => LaunchRests(m.id)'
    BY <1>4 DEF LaunchRests, SpaceInv, ChromesInv
  <2> QED
    BY <1>2, <1>3, <1>9, <2>1 DEF SpaceInv, SpaceTypes, ConfirmedInv, LineInv
<1>11. LineInv' /\ GrantInv'
  BY <1>2, <1>3, RepliesKeepLine
<1>12. ASSUME NEW n \in Nat, InputRests(n), m.op = "publish" /\ m.holder => m.id # handle.id PROVE InputRests(n)'
  <2>1. handle'.id \in Launches /\ reserved'[handle'.id] # "none"
    BY <1>3, <1>12 DEF InputRests
  <2>2. guest'.launch = handle'.id => n <= guest'.seq
    BY <1>3, <1>4, <1>12 DEF InputRests
  <2>3. guest'.launch = handle'.id => ~fence'.holder
    BY <1>3, <1>12, <2>1 DEF InputRests
  <2> QED
    BY <2>1, <2>2, <2>3 DEF InputRests
<1>13. HolderInv'
  <2>1. agreed /\ m.op = "publish" /\ m.holder => m.id # handle.id
    BY <1>4 DEF SpaceInv, HolderInv, InputRests, OnLine
  <2>2. request.op = "publish" /\ request.answer = "running" /\ ~request.holder /\ m.op = "publish" /\ m.holder => m.id # handle.id
    BY <1>4 DEF SpaceInv, HolderInv, InputRests, OnLine, LineInv
  <2>3. m = request /\ m.op = "publish" /\ r = "running" /\ ~m.holder => InputRests(request.seq)'
    <3> SUFFICES ASSUME m = request, m.op = "publish", r = "running", ~m.holder PROVE InputRests(request.seq)'
      OBVIOUS
    <3>1. handle.id = m.id /\ handle.id \in Launches /\ reserved[handle.id] = "reserved"
      BY <1>4 DEF SpaceInv, LineInv, ChromesInv
    <3>2. ~fence'.holder
      OBVIOUS
    <3>3. guest'.launch = handle'.id => request.seq <= guest'.seq
      BY <1>3, <1>4, <3>1
    <3> QED
      BY <1>2, <1>3, <3>1, <3>2, <3>3 DEF InputRests
  <2>4. agreed' => InputRests(0)' /\ ~(request'.op = "publish" /\ request'.holder)
    BY <1>2, <1>3, <1>12, <2>1 DEF SpaceInv, HolderInv
  <2>5. agreed' /\ late'.op = "publish" /\ late'.holder /\ late'.id = handle'.id => InputRests(late.seq)' /\ late' = late
    BY <1>2, <1>3, <1>4, <1>12, <2>1 DEF SpaceInv, HolderInv
  <2>6. request'.op = "publish" /\ request'.answer = "running" /\ ~request'.holder => InputRests(request.seq)'
    BY <1>2, <1>3, <1>4, <1>12, <2>2, <2>3 DEF SpaceInv, HolderInv
  <2> QED
    BY <1>2, <2>4, <2>5, <2>6 DEF HolderInv, InputRests
<1> QED
  BY <1>5, <1>8, <1>10, <1>11, <1>13 DEF SpaceInv

\* A launch that was never reserved is started, or could not be.
LEMMA StartedKeeps ==
  ASSUME SpaceInv, NEW m, NEW heard, OnLine(m, heard), NEW r \in {"refused", "running"},
         Replies(heard, r), Beyond, m.op = "start", m.id \in Launches, reserved[m.id] = "none",
         reserved' = [reserved EXCEPT ![m.id] = "reserved"], coldReceipt = "none", serving,
         guest' \in Guests, guest'.launch \in {0, m.id}, chromes' \subseteq {guest'.launch} \ {0},
         launches' \in [Launches -> {"none", "starting", "running", "retired"}], launches'[m.id] = "retired" => guest'.launch = 0,
         fence' \in Fences, ~fence'.holder
  PROVE  SpaceInv'
<1>1. r \in SpaceAnswers \ {"none"}
  BY DEF SpaceAnswers
<1>2. /\ request' \in LineRequests /\ late' \in LineRequests
      /\ request'.op = request.op /\ request'.id = request.id /\ request'.seq = request.seq /\ request'.by = request.by
      /\ request'.holder = request.holder /\ request'.end = request.end /\ request'.lease = request.lease
      /\ request'.answer = request.answer \/ (m = request /\ request.answer = "none" /\ request'.answer = r)
      /\ late' = late \/ late'.op = "none"
  BY <1>1, RepliesMove
<1>3. /\ tick' = tick /\ serving' = serving /\ coldReceipt' = coldReceipt /\ sandbox' = sandbox /\ handle' = handle
      /\ leaseEnd' = leaseEnd /\ confirmed' = confirmed /\ agreed' = agreed /\ section' = section
  BY DEF Beyond
<1>4. /\ m.id \in Nat /\ m.id # 0 /\ reserved \in [Launches -> {"none", "reserved", "retired"}]
      /\ reserved' \in [Launches -> {"none", "reserved", "retired"}] /\ reserved'[m.id] = "reserved"
      /\ \A i \in Launches \ {m.id} : reserved'[i] = reserved[i]
  BY DEF SpaceInv, SpaceTypes
<1>5. SpaceTypes'
  BY <1>2, <1>3, <1>4 DEF SpaceInv, SpaceTypes, Guests, Fences
<1>6. ChromesInv'
  BY <1>3, <1>4 DEF SpaceInv, ChromesInv
<1>7. \A i \in Launches : LaunchRests(i) => LaunchRests(i)'
  BY <1>4 DEF LaunchRests
<1>8. ConfirmedInv'
  BY <1>2, <1>3, <1>7 DEF SpaceInv, SpaceTypes, ConfirmedInv, LineInv
<1>9. LineInv' /\ GrantInv'
  BY <1>2, <1>3, RepliesKeepLine
<1>10. \A n \in Nat : InputRests(n) => InputRests(n)'
  BY <1>3, <1>4 DEF InputRests
<1>11. HolderInv'
  <2>1. 0 \in Nat /\ late.seq \in Nat /\ request.seq \in Nat
    BY DEF SpaceInv, SpaceTypes, LineRequests
  <2> QED
    BY <1>2, <1>3, <1>10, <2>1 DEF SpaceInv, HolderInv
<1> QED
  BY <1>5, <1>6, <1>8, <1>9, <1>11 DEF SpaceInv

\* The gateway and the guest's service, of a request on the line or given up.
LEMMA ForwardKeeps == ASSUME SpaceInv, NEW m, NEW heard, OnLine(m, heard), m.id \in Launches, Forward(m, heard), Beyond PROVE SpaceInv'
<1>1. /\ m \in LineRequests /\ m.id # 0 /\ m.seq \in Nat /\ m.end \in Nat /\ m.lease \in Nat /\ m.ttl \in Nat /\ m.holder \in BOOLEAN
      /\ tick \in Nat /\ guest \in Guests /\ fence \in Fences /\ guest.launch \in Launches \cup {0} /\ guest.seq \in Nat
      /\ launches \in [Launches -> {"none", "starting", "running", "retired"}]
      /\ reserved \in [Launches -> {"none", "reserved", "retired"}]
      /\ coldReceipt = "none" /\ chromes \subseteq Launches
  <2>1. m \in LineRequests
    BY DEF OnLine
  <2>2. m.seq \in Nat /\ m.end \in Nat /\ m.lease \in Nat /\ m.ttl \in Nat /\ m.holder \in BOOLEAN
    BY <2>1 DEF LineRequests
  <2>3. guest.launch \in Launches \cup {0} /\ guest.seq \in Nat
    BY DEF SpaceInv, SpaceTypes, Guests
  <2> QED
    BY <2>1, <2>2, <2>3 DEF SpaceInv, SpaceTypes, Forward
<1>2. /\ m.op = "publish" /\ m.holder => m.end <= m.lease
      /\ fence.holder /\ ~fence.expired => fence.deadline <= fence.lease
  BY DEF SpaceInv, GrantInv, OnLine
<1>3. NoGuest \in Guests /\ NoGuest.launch = 0 /\ NoGrant \in Fences /\ ~NoGrant.holder /\ GrantRevoked \in Fences /\ ~GrantRevoked.holder
  BY <1>1 DEF NoGuest, NoGrant, GrantRevoked, Guests, Fences
<1>12. ASSUME NEW r \in {"refused", "retired"}, Replies(heard, r), GuestKeeps, r = "retired" => LaunchRests(m.id),
              reserved' \in [Launches -> {"none", "reserved", "retired"}],
              \A i \in Launches : reserved'[i] = reserved[i] \/ (reserved[i] = "none" /\ reserved'[i] = "reserved")
       PROVE  SpaceInv'
  <2>1. UNCHANGED <<chromes, launches, fence>> /\ guest' \in Guests /\ guest'.launch = guest.launch /\ guest'.seq >= guest.seq
    BY <1>1, <1>12 DEF GuestKeeps
  <2>2. r \in {"refused", "retired", "running", "unavailable"} /\ (r = "running" => m.op # "publish")
    OBVIOUS
  <2> QED
    BY <1>12, <2>1, <2>2, RefusedKeeps
<1>4. CASE GuestKeeps /\ UNCHANGED reserved /\ Replies(heard, "refused")
  BY <1>1, <1>4, <1>12
<1>5. CASE Unadmitted(m) /\ GuestKeeps /\ UNCHANGED reserved /\ Replies(heard, "retired") /\ reserved[m.id] = "retired"
  <2>1. LaunchRests(m.id)
    BY <1>1, <1>5 DEF LaunchRests, SpaceInv, ChromesInv
  <2> QED
    BY <1>1, <1>5, <2>1, <1>12
<1>6. ASSUME ~Unadmitted(m), reserved' = [reserved EXCEPT ![m.id] = "reserved"]
      PROVE  /\ reserved' \in [Launches -> {"none", "reserved", "retired"}]
             /\ \A i \in Launches : reserved'[i] = reserved[i] \/ (reserved[i] = "none" /\ reserved'[i] = "reserved")
             /\ m.op = "start" => reserved[m.id] = "none"
             /\ m.op # "start" => reserved' = reserved /\ reserved[m.id] = "reserved"
  BY <1>1, <1>6 DEF Unadmitted
<1>7. CASE ~Unadmitted(m) /\ reserved' = [reserved EXCEPT ![m.id] = "reserved"] /\ Replies(heard, "refused") /\ GuestKeeps
  BY <1>6, <1>7, <1>12
<1>8. ASSUME serving, ~Unadmitted(m), reserved' = [reserved EXCEPT ![m.id] = "reserved"], m.op = "start", Start(m, heard)
      PROVE  SpaceInv'
  <2> USE <1>8
  <2>1. CASE StartRefused(m.id)
    <3>1. /\ Replies(heard, "refused") /\ UNCHANGED <<chromes, launches, fence>>
          /\ guest' = IF guest.launch # 0 THEN guest ELSE [guest EXCEPT !.seq = m.seq]
      BY <2>1 DEF Start
    <3>2. guest' \in Guests /\ guest'.launch = guest.launch /\ (guest.launch # 0 => guest'.seq >= guest.seq)
      BY <1>1, <3>1 DEF Guests
    <3> QED
      BY <1>1, <1>6, <3>1, <3>2, RefusedKeeps DEF Guests
  <2>2. CASE ~StartRefused(m.id)
    <3>1. guest.launch = 0 /\ chromes = {}
      BY <1>1, <2>2 DEF StartRefused, SpaceInv, ChromesInv
    <3>2. PICK r \in {"refused", "running"} :
            /\ Replies(heard, r) /\ guest'.launch \in {0, m.id} /\ chromes' \subseteq {guest'.launch} \ {0}
            /\ guest' \in Guests /\ fence' \in Fences /\ ~fence'.holder
            /\ launches' \in [Launches -> {"none", "starting", "running", "retired"}]
            /\ launches'[m.id] = "retired" => guest'.launch = 0
      <4>1. CASE Replies(heard, "running") /\ chromes' = chromes \cup {m.id} /\ launches' = [launches EXCEPT ![m.id] = "running"]
                 /\ guest' = [NoGuest EXCEPT !.launch = m.id, !.seq = m.seq] /\ fence' = NoGrant
        BY <1>1, <1>3, <3>1, <4>1 DEF NoGuest, Guests
      <4>2. CASE Replies(heard, "refused") /\ launches' = [launches EXCEPT ![m.id] = "retired"] /\ guest' = NoGuest
                 /\ fence' = NoGrant /\ UNCHANGED chromes
        BY <1>1, <1>3, <3>1, <4>2
      <4>3. CASE Replies(heard, "refused") /\ launches' = [launches EXCEPT ![m.id] = "starting"]
                 /\ (\E left \in SUBSET {m.id} : chromes' = chromes \cup left)
                 /\ guest' = [launch |-> m.id, seq |-> m.seq, faulted |-> TRUE, blocked |-> TRUE] /\ fence' = GrantRevoked
        BY <1>1, <1>3, <3>1, <4>3 DEF Guests
      <4> QED
        BY <2>2, <4>1, <4>2, <4>3 DEF Start
    <3> QED
      <4>1. reserved[m.id] = "none" /\ coldReceipt = "none" /\ serving
        BY <1>1, <1>6
      <4> QED
        BY <3>2, <4>1, StartedKeeps
  <2> QED
    BY <2>1, <2>2
<1>9. ASSUME serving, ~Unadmitted(m), reserved' = [reserved EXCEPT ![m.id] = "reserved"], m.op # "start",
             m.id # guest.launch \/ ~Newer(m), GuestKeeps,
             Replies(heard, IF m.id # guest.launch /\ m.op \in {"status", "stop"} /\ launches[m.id] = "retired" THEN "retired" ELSE "refused")
      PROVE  SpaceInv'
  <2>1. m.id # guest.launch /\ launches[m.id] = "retired" => LaunchRests(m.id)
    BY <1>1, <1>6, <1>9 DEF LaunchRests, SpaceInv, ChromesInv
  <2>2. CASE m.id # guest.launch /\ m.op \in {"status", "stop"} /\ launches[m.id] = "retired"
    BY <1>6, <1>9, <2>1, <2>2, <1>12
  <2>3. CASE ~(m.id # guest.launch /\ m.op \in {"status", "stop"} /\ launches[m.id] = "retired")
    BY <1>6, <1>9, <2>3, <1>12
  <2> QED
    BY <2>2, <2>3
<1>10. ASSUME serving, ~Unadmitted(m), reserved' = [reserved EXCEPT ![m.id] = "reserved"], m.op # "start",
              m.id = guest.launch, m.seq > guest.seq, NEW seen, seen = [guest EXCEPT !.seq = m.seq],
              \/ m.op = "stop" /\ Stop(heard, seen)
              \/ m.op = "status" /\ Replies(heard, IF Running THEN "running" ELSE "unavailable")
                 /\ guest' = seen /\ UNCHANGED <<chromes, launches, fence>>
              \/ Usual(m, heard, seen)
              \/ m.op \notin {"stop", "status"} /\ Replies(heard, "refused") /\ guest' = seen /\ UNCHANGED <<chromes, launches, fence>>
       PROVE  SpaceInv'
  <2>0. /\ seen \in Guests /\ seen.launch = guest.launch /\ seen.seq = m.seq
        /\ chromes \subseteq {guest.launch} /\ reserved' = reserved /\ m.id = guest.launch /\ m.seq > guest.seq /\ serving
    BY <1>1, <1>6, <1>10 DEF Guests, SpaceInv, ChromesInv
  <2>1. ASSUME NEW r \in {"refused", "running", "unavailable"}, Replies(heard, r), UNCHANGED <<chromes, launches>>,
               guest' \in Guests, guest'.launch = guest.launch, guest'.seq = m.seq, fence' \in Fences,
               fence'.holder /\ ~fence'.expired => fence'.deadline <= fence'.lease,
               fence'.holder => fence.holder \/ (m.op = "publish" /\ m.holder),
               r = "running" /\ m.op = "publish" /\ fence'.holder => m.holder
        PROVE  SpaceInv'
    BY <1>1, <2>0, <2>1, AdmittedKeeps
  <2>2. ASSUME NEW r \in {"refused", "running", "unavailable"}, Replies(heard, r), guest' = seen, UNCHANGED <<chromes, launches, fence>>,
               r = "running" => m.op # "publish"
        PROVE  SpaceInv'
    BY <1>1, <1>2, <2>0, <2>1, <2>2
  <2>3. CASE m.op = "stop" /\ Stop(heard, seen)
    <3>1. CASE Replies(heard, "retired") /\ chromes' = chromes \ {guest.launch} /\ launches' = [launches EXCEPT ![guest.launch] = "retired"]
               /\ guest' = NoGuest /\ fence' = GrantRevoked
      BY <1>1, <1>3, <2>0, <2>3, <3>1, AdmittedKeeps
    <3>2. CASE Replies(heard, "refused") /\ (\E left \in SUBSET {guest.launch} : chromes' = (chromes \ {guest.launch}) \cup left)
               /\ guest' = [seen EXCEPT !.faulted = TRUE, !.blocked = TRUE] /\ fence' = GrantRevoked /\ UNCHANGED launches
      <4>1. guest' \in Guests /\ guest'.launch = guest.launch /\ guest'.seq = m.seq
        BY <2>0, <3>2 DEF Guests
      <4>2. chromes' \subseteq {guest.launch}
        BY <2>0, <3>2
      <4> QED
        BY <1>1, <1>3, <2>0, <2>3, <3>2, <4>1, <4>2, AdmittedKeeps
    <3> QED
      BY <2>3, <3>1, <3>2 DEF Stop
  <2>4. CASE m.op = "status" /\ Replies(heard, IF Running THEN "running" ELSE "unavailable")
             /\ guest' = seen /\ UNCHANGED <<chromes, launches, fence>>
    <3>1. CASE Running
      BY <2>2, <2>4, <3>1
    <3>2. CASE ~Running
      BY <2>2, <2>4, <3>2
    <3> QED
      BY <3>1, <3>2
  <2>5. CASE m.op \notin {"stop", "status"} /\ Replies(heard, "refused") /\ guest' = seen /\ UNCHANGED <<chromes, launches, fence>>
    BY <2>2, <2>5
  <2>6. CASE m.op = "publish" /\ PublishGrants(m, heard, seen)
    <3>1. CASE Replies(heard, "refused") /\ guest' = seen /\ UNCHANGED <<chromes, launches, fence>>
      BY <2>2, <3>1
    <3>2. CASE Replies(heard, "refused") /\ guest' = [seen EXCEPT !.blocked = @ \/ m.holder # fence.holder]
               /\ UNCHANGED <<chromes, launches, fence>>
      <4>1. guest' \in Guests /\ guest'.launch = guest.launch /\ guest'.seq = m.seq
        BY <2>0, <3>2 DEF Guests
      <4> QED
        BY <1>1, <1>2, <2>1, <3>2, <4>1
    <3>3. CASE /\ GrantFor(m) # 0 /\ Replies(heard, "running") /\ guest' = [seen EXCEPT !.blocked = FALSE] /\ UNCHANGED <<chromes, launches>>
               /\ fence' = [fence EXCEPT !.holder = m.holder, !.deadline = tick + GrantFor(m), !.expired = FALSE,
                                         !.made = TRUE, !.lease = m.lease]
      <4>1. guest' \in Guests /\ guest'.launch = guest.launch /\ guest'.seq = m.seq
        BY <2>0, <3>3 DEF Guests
      <4>2. GrantFor(m) \in Nat /\ tick + GrantFor(m) <= m.end
        BY <1>1, <3>3 DEF GrantFor, Least
      <4>3. fence' \in Fences /\ fence'.holder = m.holder /\ fence'.deadline = tick + GrantFor(m) /\ fence'.lease = m.lease
        <5>1. tick + GrantFor(m) \in Nat
          BY <1>1, <4>2
        <5>2. \A x \in Nat : LET g == [fence EXCEPT !.holder = m.holder, !.deadline = x, !.expired = FALSE,
                                                     !.made = TRUE, !.lease = m.lease] IN
                             g \in Fences /\ g.holder = m.holder /\ g.deadline = x /\ g.lease = m.lease
          BY <1>1 DEF Fences
        <5> QED
          BY <3>3, <5>1, <5>2
      <4>4. fence'.holder => fence'.deadline <= fence'.lease
        BY <1>1, <1>2, <2>6, <4>2, <4>3
      <4> QED
        BY <2>1, <2>6, <3>3, <4>1, <4>3, <4>4
    <3> QED
      BY <2>6, <3>1, <3>2, <3>3 DEF PublishGrants
  <2>7. CASE m.op \in {"freeze", "thaw"} /\ (Freeze(m, heard, seen) \/ Thaw(m, heard, seen))
    <3>1. \A x \in BOOLEAN : [fence EXCEPT !.frozen = x] \in Fences /\ [fence EXCEPT !.frozen = x].holder = fence.holder
                             /\ [fence EXCEPT !.frozen = x].expired = fence.expired
                             /\ [fence EXCEPT !.frozen = x].deadline = fence.deadline
                             /\ [fence EXCEPT !.frozen = x].lease = fence.lease
      BY <1>1 DEF Fences
    <3>2. CASE Replies(heard, "refused") /\ guest' = seen /\ UNCHANGED <<chromes, launches, fence>>
      BY <2>2, <3>2
    <3>3. CASE Replies(heard, "running") /\ guest' = seen /\ UNCHANGED <<chromes, launches>> /\ \E x \in BOOLEAN : fence' = [fence EXCEPT !.frozen = x]
      <4>1. fence' \in Fences /\ fence'.holder = fence.holder /\ fence'.expired = fence.expired
            /\ fence'.deadline = fence.deadline /\ fence'.lease = fence.lease
        BY <3>1, <3>3
      <4> QED
        BY <1>2, <2>0, <2>1, <2>7, <3>3, <4>1
    <3> QED
      BY <2>7, <3>2, <3>3 DEF Freeze, Thaw
  <2>8. CASE m.op = "drain" /\ Replies(heard, "running") /\ guest' = seen /\ UNCHANGED <<chromes, launches, fence>>
    BY <2>2, <2>8
  <2> QED
    BY <1>10, <2>3, <2>4, <2>5, <2>6, <2>7, <2>8 DEF Usual
<1>11. CASE serving /\ ~Unadmitted(m) /\ reserved' = [reserved EXCEPT ![m.id] = "reserved"] /\ GuestExecutes(m, heard)
  BY <1>1, <1>8, <1>9, <1>10, <1>11 DEF GuestExecutes, Newer
<1> QED
  BY <1>4, <1>5, <1>7, <1>11 DEF Forward

\* What the guest, its boot and the clock do by themselves.
LEMMA GuestMoves ==
  ASSUME SpaceInv, UNCHANGED <<handle, leaseEnd, section, request, late, confirmed, agreed>>,
         tick' \in Nat, launches' \in [Launches -> {"none", "starting", "running", "retired"}],
         reserved' \in [Launches -> {"none", "reserved", "retired"}], guest' \in Guests, fence' \in Fences,
         chromes' \subseteq chromes, guest'.launch \in {0, guest.launch}, guest'.launch # 0 => guest'.seq = guest.seq,
         \A i \in Launches : reserved[i] # "none" => reserved'[i] # "none",
         ChromesInv', fence'.holder => fence.holder, fence'.holder /\ ~fence'.expired => fence'.deadline <= fence'.lease
  PROVE  SpaceInv'
<1>1. handle' = handle /\ request' = request /\ late' = late /\ confirmed' = confirmed /\ agreed' = agreed /\ section' = section
      /\ leaseEnd' = leaseEnd
  OBVIOUS
<1>2. SpaceTypes'
  BY <1>1 DEF SpaceInv, SpaceTypes
<1>3. \A i \in Launches : LaunchRests(i) => LaunchRests(i)'
  BY DEF LaunchRests
<1>4. ConfirmedInv'
  BY <1>1, <1>3 DEF SpaceInv, SpaceTypes, ConfirmedInv, LineInv
<1>5. LineInv' /\ GrantInv'
  BY <1>1, RepliesKeepLine
<1>6. ASSUME NEW n \in Nat, InputRests(n) PROVE InputRests(n)'
  <2>1. handle'.id \in Launches /\ reserved'[handle'.id] # "none"
    BY <1>1, <1>6 DEF InputRests
  <2>2. handle.id # 0
    BY <1>6 DEF InputRests
  <2>3. guest'.launch = handle'.id => n <= guest'.seq
    BY <1>1, <1>6, <2>2 DEF InputRests
  <2>4. guest'.launch = handle'.id => ~fence'.holder
    BY <1>1, <1>6, <2>2 DEF InputRests
  <2> QED
    BY <2>1, <2>3, <2>4 DEF InputRests
<1>7. HolderInv'
  <2>1. 0 \in Nat /\ late.seq \in Nat /\ request.seq \in Nat
    BY DEF SpaceInv, SpaceTypes, LineRequests
  <2> QED
    BY <1>1, <1>6, <2>1 DEF SpaceInv, HolderInv
<1> QED
  BY <1>2, <1>4, <1>5, <1>7 DEF SpaceInv

\* Every step of the guest that no request asks for.
LEMMA GuestStepsKeep ==
  ASSUME SpaceInv, Watch \/ ChromeDies \/ GuestStops \/ Bootstrap \/ Intend \/ Delete \/ Deleted \/ Replace \/ TickOn
  PROVE  SpaceInv'
<1>1. /\ tick \in Nat /\ guest \in Guests /\ fence \in Fences /\ guest.launch \in Launches \cup {0} /\ guest.seq \in Nat
      /\ launches \in [Launches -> {"none", "starting", "running", "retired"}]
      /\ reserved \in [Launches -> {"none", "reserved", "retired"}]
      /\ chromes \subseteq Launches
  BY DEF SpaceInv, SpaceTypes, Guests
<1>2. ChromesInv /\ (fence.holder /\ ~fence.expired => fence.deadline <= fence.lease)
  BY DEF SpaceInv, GrantInv
<1>3. NoGuest \in Guests /\ NoGuest.launch = 0 /\ NoGrant \in Fences /\ ~NoGrant.holder /\ GrantRevoked \in Fences /\ ~GrantRevoked.holder
  BY <1>1 DEF NoGuest, NoGrant, GrantRevoked, Guests, Fences
<1>4. CASE Watch
  <2>1. guest' \in Guests /\ guest'.launch = guest.launch /\ guest'.seq = guest.seq
    BY <1>1, <1>4 DEF Watch, Guests
  <2>2. ChromesInv'
    BY <1>2, <1>4, <2>1 DEF Watch, Outside, ChromesInv
  <2> QED
    BY <1>1, <1>3, <1>4, <2>1, <2>2, GuestMoves DEF Watch, Outside
<1>5. CASE ChromeDies
  <2>1. ChromesInv'
    BY <1>2, <1>5 DEF ChromeDies, Outside, ChromesInv
  <2> QED
    BY <1>1, <1>2, <1>5, <2>1, GuestMoves DEF ChromeDies, Outside
<1>6. CASE GuestStops
  <2>1. ChromesInv'
    BY <1>2, <1>3, <1>6 DEF GuestStops, Outside, ChromesInv
  <2> QED
    BY <1>1, <1>3, <1>6, <2>1, GuestMoves DEF GuestStops, Outside
<1>7. CASE Bootstrap
  <2>1. guest.launch = 0 /\ chromes = {}
    BY <1>2, <1>7 DEF Bootstrap, NothingRemains, ChromesInv
  <2>2. ChromesInv'
    BY <1>2, <1>7, <2>1 DEF Bootstrap, Outside, ChromesInv
  <2>3. launches' \in [Launches -> {"none", "starting", "running", "retired"}]
    BY <1>7 DEF Bootstrap
  <2> QED
    BY <1>1, <1>2, <1>7, <2>2, <2>3, GuestMoves DEF Bootstrap, Outside
<1>8. CASE Intend \/ Delete
  <2>1. ChromesInv'
    BY <1>2, <1>8 DEF Intend, Delete, Cold, GuestKeeps, ChromesInv
  <2> QED
    BY <1>1, <1>2, <1>8, <2>1, GuestMoves DEF Intend, Delete, Cold, GuestKeeps
<1>9. CASE Deleted
  <2>1. ChromesInv'
    BY <1>3, <1>9 DEF Deleted, Cold, ChromesInv
  <2> QED
    BY <1>1, <1>3, <1>9, <2>1, GuestMoves DEF Deleted, Cold
<1>10. CASE Replace
  <2>1. chromes = {} /\ guest.launch = 0
    BY <1>2, <1>10 DEF Replace, ChromesInv
  <2>2. ChromesInv'
    BY <1>10, <2>1 DEF Replace, Cold, ChromesInv
  <2>3. /\ launches' \in [Launches -> {"none", "starting", "running", "retired"}]
        /\ reserved' \in [Launches -> {"none", "reserved", "retired"}]
        /\ \A i \in Launches : reserved[i] # "none" => reserved'[i] # "none"
    BY <1>10 DEF Replace
  <2> QED
    BY <1>1, <1>2, <1>10, <2>2, <2>3, GuestMoves DEF Replace, Cold
<1>11. CASE TickOn
  <2>1. ChromesInv'
    BY <1>2, <1>11 DEF TickOn, Outside, ChromesInv
  <2> QED
    BY <1>1, <1>2, <1>11, <2>1, GuestMoves DEF TickOn, Outside
<1> QED
  BY <1>4, <1>5, <1>6, <1>7, <1>8, <1>9, <1>10, <1>11

\* What the host does alone: the guest's own facts stand.
LEMMA HostMoves ==
  ASSUME SpaceInv, HostOnly, leaseEnd' \in Nat, confirmed' \subseteq Launches, section' \in Sections,
         handle' \in Handles, request' \in LineRequests, late' \in LineRequests,
         LineInv', HolderInv', \A i \in confirmed' \ confirmed : LaunchRests(i),
         \A m \in {request', late'} : m.op = "publish" /\ m.holder => m.end <= m.lease,
         request'.op = "none" \/ request'.answer # "retired"
  PROVE  SpaceInv'
<1>1. /\ tick' = tick /\ chromes' = chromes /\ launches' = launches /\ guest' = guest /\ serving' = serving /\ fence' = fence
      /\ reserved' = reserved /\ coldReceipt' = coldReceipt
  BY DEF HostOnly
<1>2. SpaceTypes'
  BY <1>1 DEF SpaceInv, SpaceTypes
<1>3. ChromesInv'
  BY <1>1 DEF SpaceInv, ChromesInv
<1>4. ConfirmedInv'
  <2>1. \A i \in Launches : LaunchRests(i) => LaunchRests(i)'
    BY <1>1 DEF LaunchRests
  <2> QED
    BY <2>1 DEF SpaceInv, ConfirmedInv
<1>5. GrantInv'
  BY <1>1 DEF SpaceInv, GrantInv
<1> QED
  BY <1>2, <1>3, <1>4, <1>5 DEF SpaceInv

\* What of the host the prover needs typed.
LEMMA HostTyped ==
  ASSUME SpaceInv
  PROVE  /\ tick \in Nat /\ leaseEnd \in Nat /\ handle \in Handles /\ handle.id \in Launches \cup {0} /\ handle.seq \in Nat
         /\ handle.holder \in BOOLEAN
         /\ request \in LineRequests /\ late \in LineRequests /\ request.seq \in Nat /\ late.seq \in Nat /\ late.id \in Launches \cup {0}
         /\ handle.id \in Nat /\ late.id \in Nat /\ guest.seq \in Nat /\ NoRequest \in LineRequests /\ NoRequest.op = "none" /\ section \in Sections
<1>1. handle \in Handles /\ request \in LineRequests /\ late \in LineRequests /\ guest \in Guests /\ section \in Sections
  BY DEF SpaceInv, SpaceTypes
<1>2. handle.id \in Launches \cup {0} /\ handle.seq \in Nat /\ guest.seq \in Nat /\ handle.holder \in BOOLEAN
  BY <1>1 DEF Handles, Guests
<1>3. request.seq \in Nat /\ late.seq \in Nat /\ late.id \in Launches \cup {0}
  BY <1>1 DEF LineRequests
<1>4. NoRequest \in LineRequests /\ NoRequest.op = "none"
  BY DEF NoRequest, LineRequests, SpaceAnswers
<1>5. Launches \cup {0} \subseteq Nat
  BY SpaceAssumption
<1>6. handle.id \in Nat
  BY <1>2, <1>5
<1>7. late.id \in Nat
  BY <1>3, <1>5
<1> QED
  BY <1>1, <1>2, <1>3, <1>4, <1>6, <1>7 DEF SpaceInv, SpaceTypes

\* A request with the next number; a grant is meant to end with the lease.
LEMMA SendKeeps ==
  ASSUME SpaceInv, NEW o \in {"stop", "status", "publish", "freeze", "thaw", "drain"}, NEW by \in {"retire", "renew", "section"},
         Send(o, by), handle.state # "none", by = "section" => section # "idle"
  PROVE  SpaceInv'
<1>1. /\ tick \in Nat /\ leaseEnd \in Nat /\ handle \in Handles /\ handle.seq \in Nat /\ request.op = "none" /\ late \in LineRequests
      /\ handle.id \in Launches /\ late.seq \in Nat /\ guest.seq \in Nat /\ section \in Sections /\ late.id \in Launches \cup {0}
      /\ handle.holder \in BOOLEAN /\ NoRequest \in LineRequests
  BY HostTyped DEF Send, LineFree, SpaceInv, LineInv
<1>2. May \in BOOLEAN /\ Length \in Nat /\ (May => tick + Length <= leaseEnd)
  BY <1>1 DEF May, Length, Least
<1>3. /\ request' \in LineRequests /\ request'.op = o /\ request'.by = by /\ request'.id = handle.id
      /\ request'.seq = handle.seq + 1 /\ request'.answer = "none"
      /\ o = "publish" => (request'.holder = May) /\ request'.end = tick + Length /\ (May => request'.lease = leaseEnd)
  <2>1. CASE o = "publish"
    <3>1. request' = [[NoRequest EXCEPT !.holder = May, !.ttl = Length, !.end = tick + Length, !.lease = IF May THEN leaseEnd ELSE 0]
                        EXCEPT !.id = handle.id, !.op = "publish", !.by = by, !.seq = handle.seq + 1]
      BY <2>1 DEF Send, GrantToPublish
    <3>2. \E may \in BOOLEAN, l \in Nat :
            /\ may = May /\ l = IF May THEN leaseEnd ELSE 0
            /\ request' = [[NoRequest EXCEPT !.holder = may, !.ttl = Length, !.end = tick + Length, !.lease = l]
                             EXCEPT !.id = handle.id, !.op = "publish", !.by = by, !.seq = handle.seq + 1]
      <4>1. May \in BOOLEAN
        BY <1>2
      <4>2. (IF May THEN leaseEnd ELSE 0) \in Nat
        BY <1>1
      <4> QED
        BY <3>1, <4>1, <4>2
    <3>3. PICK may \in BOOLEAN, l \in Nat :
            /\ may = May /\ l = IF May THEN leaseEnd ELSE 0
            /\ request' = [[NoRequest EXCEPT !.holder = may, !.ttl = Length, !.end = tick + Length, !.lease = l]
                             EXCEPT !.id = handle.id, !.op = "publish", !.by = by, !.seq = handle.seq + 1]
      BY <3>2
    <3>4. Length \in Nat /\ tick + Length \in Nat /\ handle.seq + 1 \in Nat /\ handle.id \in Launches
      BY <1>1, <1>2
    <3>6. \E n, end, k \in Nat, i \in Launches :
            /\ n = Length /\ end = tick + Length /\ k = handle.seq + 1 /\ i = handle.id
            /\ request' = [[NoRequest EXCEPT !.holder = may, !.ttl = n, !.end = end, !.lease = l]
                             EXCEPT !.id = i, !.op = "publish", !.by = by, !.seq = k]
      BY <3>3, <3>4
    <3>7. PICK n \in Nat, end \in Nat, k \in Nat, i \in Launches :
            /\ n = Length /\ end = tick + Length /\ k = handle.seq + 1 /\ i = handle.id
            /\ request' = [[NoRequest EXCEPT !.holder = may, !.ttl = n, !.end = end, !.lease = l]
                             EXCEPT !.id = i, !.op = "publish", !.by = by, !.seq = k]
      BY <3>6
    <3>8. /\ request' \in LineRequests /\ request'.op = "publish" /\ request'.by = by /\ request'.id = i
          /\ request'.seq = k /\ request'.answer = "none"
          /\ request'.holder = may /\ request'.end = end /\ request'.lease = l
      <4>1. NoRequest \in LineRequests /\ NoRequest.answer = "none"
        BY DEF NoRequest, LineRequests, SpaceAnswers
      <4>2. PICK g \in LineRequests : /\ g = [NoRequest EXCEPT !.holder = may, !.ttl = n, !.end = end, !.lease = l]
                                      /\ g.answer = "none" /\ g.holder = may /\ g.end = end /\ g.lease = l
        <5> DEFINE g == [NoRequest EXCEPT !.holder = may, !.ttl = n, !.end = end, !.lease = l]
        <5>1. g \in LineRequests /\ g.answer = "none" /\ g.holder = may /\ g.end = end /\ g.lease = l
          BY <4>1 DEF LineRequests
        <5> QED
          BY <5>1
      <4>3. request' = [g EXCEPT !.id = i, !.op = "publish", !.by = by, !.seq = k]
        BY <3>7, <4>2
      <4>4. request' \in LineRequests
        BY <4>3 DEF LineRequests
      <4>5. request'.op = "publish" /\ request'.by = by /\ request'.id = i /\ request'.seq = k
        BY <4>3 DEF LineRequests
      <4>6. request'.answer = "none" /\ request'.end = end /\ request'.lease = l
        BY <4>2, <4>3 DEF LineRequests
      <4>7. request'.holder = g.holder
        BY <4>3 DEF LineRequests
      <4> QED
        BY <4>2, <4>4, <4>5, <4>6, <4>7
    <3>5. /\ request' \in LineRequests /\ request'.op = "publish" /\ request'.by = by /\ request'.id = handle.id
          /\ request'.seq = handle.seq + 1 /\ request'.answer = "none"
          /\ request'.holder = may /\ request'.end = tick + Length /\ request'.lease = l
      BY <3>7, <3>8
    <3> QED
      BY <2>1, <3>3, <3>5
  <2>2. CASE o # "publish"
    <3>1. request' = [NoRequest EXCEPT !.id = handle.id, !.op = o, !.by = by, !.seq = handle.seq + 1]
      BY <2>2 DEF Send
    <3>2. request' = [id |-> handle.id, op |-> o, by |-> by, seq |-> handle.seq + 1, holder |-> FALSE, ttl |-> 0,
                      end |-> 0, lease |-> 0, answer |-> "none"]
      BY <3>1 DEF NoRequest
    <3>3. request' \in LineRequests
      BY <1>1, <3>2 DEF LineRequests, SpaceAnswers
    <3> QED
      BY <2>2, <3>2, <3>3
  <2> QED
    BY <2>1, <2>2
<1>4. handle' \in Handles /\ handle'.id = handle.id /\ handle'.state = handle.state /\ handle'.seq = handle.seq + 1
  BY <1>1 DEF Send, Handles
<1>5. /\ HostOnly /\ leaseEnd' = leaseEnd /\ section' = section /\ late' = late /\ confirmed' = confirmed
      /\ agreed' = (agreed /\ ~(o = "publish" /\ May))
      /\ guest' = guest /\ fence' = fence /\ reserved' = reserved
  BY DEF Send, HostOnly
<1>6. LineInv'
  BY <1>1, <1>3, <1>4, <1>5 DEF SpaceInv, LineInv
<1>7. \A n \in Nat : InputRests(n) => InputRests(n)'
  BY <1>4, <1>5 DEF InputRests
<1>8. HolderInv'
  <2>1. agreed' => InputRests(0)' /\ ~(request'.op = "publish" /\ request'.holder)
    BY <1>3, <1>5, <1>7 DEF SpaceInv, HolderInv
  <2>2. agreed' /\ late'.op = "publish" /\ late'.holder /\ late'.id = handle'.id => InputRests(late.seq)'
    BY <1>1, <1>4, <1>5, <1>7 DEF SpaceInv, HolderInv
  <2> QED
    BY <1>3, <1>5, <2>1, <2>2 DEF HolderInv
<1>9. \A m \in {request', late'} : m.op = "publish" /\ m.holder => m.end <= m.lease
  BY <1>2, <1>3, <1>5 DEF SpaceInv, GrantInv
<1> QED
  BY <1>1, <1>3, <1>4, <1>5, <1>6, <1>8, <1>9, HostMoves DEF SpaceInv, SpaceTypes

\* A new launch has a number of its own, and nobody holds its input.
LEMMA LaunchKeeps == ASSUME SpaceInv, LaunchChrome PROVE SpaceInv'
<1>1. PICK i \in Launches : /\ i > handle.id /\ handle' = [NoHandle EXCEPT !.id = i, !.state = "starting", !.seq = 1]
                            /\ request' = [NoRequest EXCEPT !.id = i, !.op = "start", !.by = "launch", !.seq = 1]
  BY DEF LaunchChrome
<1>2. handle' \in Handles /\ handle'.id = i /\ handle'.state = "starting" /\ handle'.seq = 1
  BY <1>1 DEF NoHandle, Handles
<1>3. request' = [id |-> i, op |-> "start", by |-> "launch", seq |-> 1, holder |-> FALSE, ttl |-> 0, end |-> 0, lease |-> 0, answer |-> "none"]
  BY <1>1 DEF NoRequest
<1>4. request' \in LineRequests
  BY <1>3 DEF LineRequests, SpaceAnswers
<1>5. HostOnly /\ agreed' = FALSE /\ leaseEnd' = 0 /\ section' = "idle" /\ late' = late /\ confirmed' = confirmed
  BY DEF LaunchChrome
<1>6. /\ late.id \in Launches \cup {0} /\ handle.id \in Launches \cup {0} /\ late \in LineRequests
      /\ late.id \in Nat /\ i \in Nat
  BY HostTyped
<1>7. late.op # "none" => late.id < i
  BY <1>1, <1>6 DEF SpaceInv, LineInv
<1>8. LineInv'
  <2>1. /\ handle'.id \in Launches /\ request'.op = "start" /\ request'.id = handle'.id /\ request'.seq = handle'.seq
        /\ request'.by = "launch" /\ handle'.state = "starting"
    BY <1>2, <1>3
  <2>2. late'.op # "none" => late'.id \in Launches /\ late'.id < handle'.id
    BY <1>2, <1>5, <1>7 DEF SpaceInv, LineInv
  <2>3. late'.op # "none" => late'.id <= handle'.id /\ late'.id # handle'.id
    BY <1>2, <1>5, <1>6, <2>2, handle'.id \in Nat, late'.id \in Nat
  <2> QED
    BY <2>1, <2>2, <2>3 DEF LineInv
<1>9. HolderInv'
  BY <1>3, <1>5 DEF HolderInv
<1>10. \A m \in {request', late'} : m.op = "publish" /\ m.holder => m.end <= m.lease
  BY <1>3, <1>5 DEF SpaceInv, GrantInv
<1> QED
  BY <1>2, <1>3, <1>4, <1>5, <1>6, <1>8, <1>9, <1>10, HostMoves DEF SpaceInv, SpaceTypes, Sections

\* The host enters a section, with no request on the line.
LEMMA EnterKeeps == ASSUME SpaceInv, TakeInput \/ HandBack \/ DropInput PROVE SpaceInv'
<1>1. /\ handle \in Handles /\ leaseEnd \in Nat /\ request \in LineRequests /\ late \in LineRequests /\ request.op = "none"
      /\ handle.id \in Launches \cup {0}
  BY HostTyped DEF TakeInput, HandBack, DropInput, HandleUsable, LineFree
<1>2. /\ HostOnly /\ request' = request /\ late' = late /\ confirmed' = confirmed /\ agreed' = agreed /\ section' \in Sections
      /\ guest' = guest /\ fence' = fence /\ reserved' = reserved
  BY DEF TakeInput, HandBack, DropInput, Enter, HostOnly, Sections
<1>3. handle' \in Handles /\ handle'.id = handle.id /\ handle'.state = handle.state /\ handle'.seq = handle.seq /\ leaseEnd' \in Nat
  <2>1. CASE handle' = handle /\ leaseEnd' \in {leaseEnd, 0}
    BY <1>1, <2>1
  <2>2. CASE handle' = [handle EXCEPT !.holder = FALSE] /\ leaseEnd' = 0
    BY <1>1, <2>2 DEF Handles
  <2> QED
    BY <2>1, <2>2 DEF TakeInput, HandBack, DropInput
<1>4. LineInv'
  BY <1>1, <1>2, <1>3 DEF SpaceInv, LineInv
<1>5. \A n \in Nat : InputRests(n) => InputRests(n)'
  BY <1>2, <1>3 DEF InputRests
<1>6. HolderInv'
  <2>1. 0 \in Nat /\ late.seq \in Nat /\ request.seq \in Nat
    BY HostTyped
  <2> QED
    BY <1>2, <1>3, <1>5, <2>1 DEF SpaceInv, HolderInv
<1>7. \A m \in {request', late'} : m.op = "publish" /\ m.holder => m.end <= m.lease
  BY <1>2 DEF SpaceInv, GrantInv
<1> QED
  BY <1>1, <1>2, <1>3, <1>4, <1>6, <1>7, HostMoves DEF SpaceInv, SpaceTypes

\* An answer, or none. One that does not come leaves the request to arrive yet.
LEMMA ConcludeKeeps ==
  ASSUME SpaceInv, NEW r, Conclude(r), r = "lost" \/ r = request.answer, late' = late \/ late' = request,
         late' = request => r = "lost"
  PROVE  SpaceInv'
<1>1. /\ handle \in Handles /\ leaseEnd \in Nat /\ request \in LineRequests /\ late \in LineRequests /\ request.op # "none"
      /\ request.id = handle.id /\ handle.id \in Launches /\ request.seq = handle.seq /\ tick \in Nat
      /\ request.seq \in Nat /\ late.seq \in Nat /\ guest.seq \in Nat /\ section \in Sections /\ handle.id \in Nat
  BY HostTyped DEF Conclude, SpaceInv, LineInv
<1>2. /\ HostOnly /\ request' = NoRequest /\ request'.op = "none" /\ request' \in LineRequests
      /\ agreed' = IF request.op = "publish" /\ r = "running" THEN ~request.holder ELSE agreed
      /\ guest' = guest /\ fence' = fence /\ reserved' = reserved
  BY HostTyped DEF Conclude, HostOnly
<1>3. /\ handle' \in Handles /\ handle'.id = handle.id /\ handle'.seq = handle.seq
      /\ leaseEnd' \in Nat /\ section' \in Sections /\ confirmed' \subseteq confirmed \cup {handle.id}
      /\ confirmed' # confirmed => r = "retired"
  <2>1. CASE request.by = "launch"
    BY <1>1, <2>1 DEF Conclude, AtStart, Handles
  <2>2. CASE request.by = "retire"
    <3>1. AtRetire(r)
      BY <2>2 DEF Conclude
    <3>2. handle' \in Handles /\ handle'.id = handle.id /\ handle'.seq = handle.seq
      BY <1>1, <3>1 DEF AtRetire, Handles
    <3> QED
      BY <1>1, <3>1, <3>2 DEF AtRetire, Retired
  <2>3. CASE request.by = "renew"
    BY ZenonT(40), <1>1, <2>3 DEF Conclude, AtRenew, Withdrawn, Handles
  <2>4. CASE request.by \notin {"launch", "retire", "renew"}
    <3>1. section # "idle" /\ AtSection(r = "running")
      BY <1>1, <2>4 DEF Conclude, SpaceInv, LineInv
    <3>2. section' \in Sections
      BY <1>1, <3>1 DEF AtSection, Then, Sections
    <3>3. handle' = handle \/ handle' = [handle EXCEPT !.holder = TRUE] \/ handle' = [handle EXCEPT !.holder = FALSE]
          \/ handle' = Withdrawn(handle)
      BY <3>1 DEF AtSection
    <3>4. leaseEnd' \in {leaseEnd, 0, tick + LeaseSeconds} /\ confirmed' = confirmed
      BY <3>1 DEF AtSection
    <3>5. handle' \in Handles /\ handle'.id = handle.id /\ handle'.seq = handle.seq
      BY <1>1, <3>3 DEF Withdrawn, Handles
    <3> QED
      BY <1>1, <3>2, <3>4, <3>5
  <2> QED
    BY <2>1, <2>2, <2>3, <2>4
<1>4. \A i \in confirmed' \ confirmed : LaunchRests(i)
  BY <1>1, <1>3 DEF SpaceInv, ConfirmedInv
<1>5. LineInv'
  <2>1. late'.op # "none" => late'.id \in Launches /\ late'.id <= handle.id
    <3>1. late.op # "none" => late.id \in Launches /\ late.id <= handle.id
      BY DEF SpaceInv, LineInv
    <3>2. request.id \in Launches /\ request.id <= handle.id
      BY <1>1
    <3> QED
      BY <3>1, <3>2
  <2>2. late'.op # "none" /\ late'.id = handle.id => late'.seq <= handle.seq
    BY <1>1 DEF SpaceInv, LineInv
  <2> QED
    BY <1>1, <1>2, <1>3, <2>1, <2>2 DEF LineInv
<1>6. \A n \in Nat : InputRests(n) => InputRests(n)'
  BY <1>2, <1>3 DEF InputRests
<1>7. HolderInv'
  <2>1. CASE request.op = "publish" /\ r = "running"
    <3> SUFFICES ASSUME agreed' PROVE InputRests(0)' /\ (late'.op # "none" /\ late'.id = handle'.id => InputRests(late.seq)' /\ late' = late)
      BY <1>2 DEF HolderInv
    <3>1. InputRests(request.seq) /\ late' = late
      BY <1>2, <2>1 DEF SpaceInv, HolderInv
    <3>2. InputRests(0)
      BY <1>1, <3>1 DEF InputRests
    <3>3. late.op # "none" /\ late.id = handle.id => InputRests(late.seq)
      BY <1>1, <3>1 DEF InputRests, SpaceInv, LineInv
    <3> QED
      BY <1>1, <1>3, <1>6, <3>1, <3>2, <3>3
  <2>2. CASE ~(request.op = "publish" /\ r = "running")
    <3>1. agreed' = agreed
      BY <1>2, <2>2
    <3>2. agreed => InputRests(0)' /\ ~(request.op = "publish" /\ request.holder)
      BY <1>6 DEF SpaceInv, HolderInv
    <3>3. agreed /\ late' = late /\ late.op = "publish" /\ late.holder /\ late.id = handle.id => InputRests(late.seq)'
      BY <1>1, <1>6 DEF SpaceInv, HolderInv
    <3>4. late' # late => late' = request
      OBVIOUS
    <3> QED
      BY <1>2, <1>3, <3>1, <3>2, <3>3, <3>4 DEF HolderInv
  <2> QED
    BY <2>1, <2>2
<1>8. \A m \in {request', late'} : m.op = "publish" /\ m.holder => m.end <= m.lease
  BY <1>2 DEF SpaceInv, GrantInv
<1>9. confirmed' \subseteq Launches
  BY <1>1, <1>3 DEF SpaceInv, SpaceTypes
<1> QED
  BY <1>1, <1>2, <1>3, <1>4, <1>5, <1>7, <1>8, <1>9, HostMoves

\* A host that restarts knows of no lease and no answer.
LEMMA HostRestartKeeps == ASSUME SpaceInv, HostRestarts PROVE SpaceInv'
<1>1. /\ handle.id \in Launches /\ handle.id \in Nat /\ request \in LineRequests /\ late \in LineRequests /\ NoRequest \in LineRequests /\ NoRequest.op = "none"
  BY HostTyped DEF HostRestarts, SpaceInv, LineInv
<1>2. /\ HostOnly /\ request' = NoRequest /\ late' \in {late, request} /\ agreed' = FALSE /\ leaseEnd' = 0 /\ section' = "idle"
      /\ confirmed' = confirmed /\ (late' # late => request.op # "none")
  BY DEF HostRestarts
<1>3. handle' \in Handles /\ handle'.id = handle.id /\ handle'.state = "none"
  BY <1>1 DEF HostRestarts, NoHandle, Handles
<1>4. LineInv'
  <2>1. late'.op # "none" => late'.id \in Launches /\ late'.id <= handle.id
    <3>1. late.op # "none" => late.id \in Launches /\ late.id <= handle.id
      BY DEF SpaceInv, LineInv
    <3>2. request.op # "none" => request.id \in Launches /\ request.id <= handle.id
      BY <1>1 DEF SpaceInv, LineInv
    <3> QED
      BY <1>2, <3>1, <3>2
  <2> QED
    BY <1>1, <1>2, <1>3, <2>1 DEF LineInv
<1>5. HolderInv'
  BY <1>1, <1>2 DEF HolderInv
<1>6. \A m \in {request', late'} : m.op = "publish" /\ m.holder => m.end <= m.lease
  BY <1>1, <1>2 DEF SpaceInv, GrantInv
<1> QED
  BY <1>1, <1>2, <1>3, <1>4, <1>5, <1>6, HostMoves DEF SpaceInv, SpaceTypes, Sections

\* Every step of the host, the gateway and the guest.
LEMMA SpaceSteps == SpaceInv /\ [SpaceNext]_spaceVars => SpaceInv'
<1> SUFFICES ASSUME SpaceInv, [SpaceNext]_spaceVars PROVE SpaceInv'
  OBVIOUS
<1>1. CASE Watch \/ ChromeDies \/ GuestStops \/ Bootstrap \/ Intend \/ Delete \/ Deleted \/ Replace \/ TickOn
  BY <1>1, GuestStepsKeep
<1>2. CASE Forwarded
  <2>1. OnLine(request, TRUE) /\ request.id \in Launches
    BY <1>2, HostTyped DEF Forwarded, OnLine, SpaceInv, LineInv
  <2> QED
    BY <1>2, <2>1, ForwardKeeps DEF Forwarded
<1>3. CASE DeliverLate
  <2>1. OnLine(late, FALSE) /\ late.id \in Launches
    BY <1>3, HostTyped DEF DeliverLate, OnLine, SpaceInv, LineInv
  <2> QED
    BY <1>3, <2>1, ForwardKeeps DEF DeliverLate
<1>4. CASE LaunchChrome
  BY <1>4, LaunchKeeps
<1>5. CASE TakeInput \/ HandBack \/ DropInput
  BY <1>5, EnterKeeps
<1>6. CASE Step
  <2>1. Op[section] \in {"stop", "status", "publish", "freeze", "thaw", "drain"}
    BY <1>6, HostTyped DEF Step, Op, Sections
  <2> QED
    BY <1>6, <2>1, SendKeeps DEF Step, HandleUsable
<1>7. CASE Renew \/ Terminate \/ AskStatus
  BY <1>7, SendKeeps DEF Renew, Terminate, AskStatus, HandleUsable
<1>8. CASE HearAnswer
  BY <1>8, ConcludeKeeps, HostTyped DEF HearAnswer, Conclude, SpaceInv, LineInv
<1>9. CASE TimeOut
  BY <1>9, ConcludeKeeps DEF TimeOut
<1>10. CASE HostRestarts
  BY <1>10, HostRestartKeeps
<1>11. CASE UNCHANGED spaceVars
  BY <1>11 DEF spaceVars, SpaceInv, SpaceTypes, ChromesInv, ConfirmedInv, LaunchRests, LineInv, GrantInv, HolderInv, InputRests
<1> QED
  BY <1>1, <1>2, <1>3, <1>4, <1>5, <1>6, <1>7, <1>8, <1>9, <1>10, <1>11 DEF SpaceNext

\* What is promised of it.
LEMMA SpaceInvIsEnough == SpaceInv => OneBrowserOneHolder
<1> SUFFICES ASSUME SpaceInv PROVE OneBrowserOneHolder
  OBVIOUS
<1>1. Cardinality(chromes) <= 1
  <2>1. CASE chromes = {}
    BY <2>1, FS_EmptySet
  <2>2. CASE chromes # {}
    <3>1. PICK i \in chromes : TRUE
      BY <2>2
    <3>2. \A k \in chromes : k = i
      BY DEF SpaceInv, ChromesInv
    <3>3. chromes = {i}
      BY <3>2
    <3> QED
      <4>1. Cardinality({i}) = 1
        BY FS_Singleton
      <4> QED
        BY <3>3, <4>1
  <2> QED
    BY <2>1, <2>2
<1>2. confirmed \cap chromes = {}
  BY DEF SpaceInv, ConfirmedInv, LaunchRests
<1>3. InputHonoured => tick < fence.lease
  <2>1. tick \in Nat /\ fence.deadline \in Nat /\ fence.lease \in Nat
    BY DEF SpaceInv, SpaceTypes, Fences
  <2> QED
    BY <2>1 DEF InputHonoured, GrantLives, SpaceInv, GrantInv
<1>4. agreed /\ guest.launch = handle.id => ~InputHonoured
  BY DEF InputHonoured, SpaceInv, HolderInv, InputRests
<1> QED
  BY <1>1, <1>2, <1>3, <1>4 DEF OneBrowserOneHolder

(* The worker's browser. *)
WorkerAnswers == {"none", "rejected", "running", "retired", "unknown", "lost", "retained"}
WorkerRequests == [op : {"start", "stop", "status"}, id : Spawns, answer : WorkerAnswers, waits : BOOLEAN]
WorkerTypes ==
  /\ asked \subseteq WorkerRequests /\ launch \in Spawns \cup {0} /\ starting \in {0, launch}
  /\ known \subseteq Spawns /\ ceased \subseteq Spawns /\ processes \subseteq Spawns /\ living \subseteq processes
  /\ chromeOf.id \in Nat /\ chromeOf = [id |-> chromeOf.id, state |-> chromeOf.state]
  /\ chromeOf.state \in {"none", "starting", "unknown", "running", "retired"} /\ tunnel \in Spawns \cup {0}
  /\ chromeOf.state # "none" => chromeOf.id \in Spawns
\* Launches are numbered upwards.
NumbersInv == /\ \A n \in known \cup ceased \cup {launch} : n <= chromeOf.id
              /\ \A q \in asked : q.id <= chromeOf.id
\* A launch that can no longer begin.
Gone(n) == n # launch /\ \A q \in asked : q.op = "start" /\ q.id = n => q.answer # "none"
StartsInv ==
  \A q \in asked : q.op = "start" =>
    /\ \A k \in asked : k.op = "start" /\ k.id = q.id => k = q
    /\ q.waits => q.id = chromeOf.id /\ chromeOf.state = "starting"
    /\ q.answer = "none" /\ q.id = launch => starting = launch
    /\ q.answer = "rejected" => q.id # launch
GoneInv ==
  /\ \A n \in known \cup ceased : Gone(n)
  /\ \A q \in asked : q.op # "start" /\ q.answer = "retired" => Gone(q.id)
HandleInv ==
  /\ processes \subseteq {launch}
  /\ chromeOf.state \in {"starting", "running", "unknown"} => chromeOf.id \notin ceased
  /\ tunnel # 0 => tunnel = chromeOf.id /\ chromeOf.state = "running"
  /\ chromeOf.state = "starting" => \A q \in asked : q.id = chromeOf.id => q.op = "start"
WorkerInv == WorkerTypes /\ NumbersInv /\ StartsInv /\ GoneInv /\ HandleInv

\* No worker asked, no Chrome started.
LEMMA WorkerBegins == WorkerInit => WorkerInv
BY DEF WorkerInit, WorkerInv, WorkerTypes, NumbersInv, Gone, StartsInv, GoneInv, HandleInv, NoChrome, WorkerRequests

\* A request of the adapter is one the invariant can speak of.
LEMMA RequestTyped ==
  ASSUME NEW o \in {"start", "stop", "status"}, NEW n \in Spawns, NEW r \in WorkerAnswers, NEW w \in BOOLEAN
  PROVE  [op |-> o, id |-> n, answer |-> r, waits |-> w] \in WorkerRequests
BY DEF WorkerRequests

\* What an answer makes of a request.
LEMMA AnsweredTyped ==
  ASSUME NEW q \in WorkerRequests, NEW r \in WorkerAnswers
  PROVE  /\ [q EXCEPT !.answer = r] \in WorkerRequests
         /\ [q EXCEPT !.answer = r].op = q.op /\ [q EXCEPT !.answer = r].id = q.id
         /\ [q EXCEPT !.answer = r].answer = r /\ [q EXCEPT !.answer = r].waits = q.waits
         /\ [q EXCEPT !.waits = FALSE] \in WorkerRequests
         /\ [q EXCEPT !.waits = FALSE].op = q.op /\ [q EXCEPT !.waits = FALSE].id = q.id
         /\ [q EXCEPT !.waits = FALSE].answer = q.answer /\ ~[q EXCEPT !.waits = FALSE].waits
BY DEF WorkerRequests

\* The worker answers a request, and no launch comes to be held that was not.
LEMMA ReplyKeeps ==
  ASSUME WorkerInv, NEW q \in asked, q.answer = "none", NEW r \in WorkerAnswers \ {"none"}, ReplyTo(q, r),
         launch' \in {0, launch}, starting' \in {0, starting}, starting' # 0 => launch' = launch,
         processes' \subseteq {launch'}, processes' \subseteq processes, living' \subseteq processes',
         known' \subseteq known \cup ({launch} \ {0, launch'}),
         launch' = launch => starting' = starting \/ (q.op = "start" /\ q.id = launch),
         launch' # launch => starting = 0 \/ (q.op = "start" /\ q.id = launch),
         q.op = "start" /\ r = "rejected" => q.id # launch',
         q.op # "start" /\ r = "retired" => q.id \in known'
  PROVE  WorkerInv'
<1> USE DEF WorkerInv
<1>1. q \in WorkerRequests /\ r \in WorkerAnswers
  BY DEF WorkerTypes
<1>2. PICK a \in WorkerRequests :
        /\ a = [q EXCEPT !.answer = r] /\ a.op = q.op /\ a.id = q.id /\ a.answer = r /\ a.waits = q.waits
  <2>1. [q EXCEPT !.answer = r] \in WorkerRequests
    BY <1>1, AnsweredTyped
  <2> WITNESS [q EXCEPT !.answer = r] \in WorkerRequests
  <2> QED
    BY <1>1, AnsweredTyped
<1>3. asked' \subseteq (asked \ {q}) \cup {a}
  BY <1>2 DEF ReplyTo
<1>4. worker' = worker /\ UNCHANGED adapterVars
  BY DEF ReplyTo
<1>5. WorkerTypes'
  BY <1>2, <1>3, <1>4 DEF WorkerTypes, adapterVars
<1>6. NumbersInv'
  <2>1. chromeOf'.id = chromeOf.id /\ chromeOf.id \in Nat /\ ceased' = ceased
    BY <1>4 DEF WorkerTypes, adapterVars
  <2>2. \A n \in known' \cup ceased' \cup {launch'} : n <= chromeOf.id
    BY <2>1 DEF NumbersInv
  <2>3. \A k \in asked' : k.id <= chromeOf.id
    BY <1>2, <1>3 DEF NumbersInv
  <2> QED
    BY <2>1, <2>2, <2>3 DEF NumbersInv
<1>7. StartsInv'
  BY <1>2, <1>3, <1>4, <1>5 DEF StartsInv, adapterVars, WorkerTypes, WorkerRequests
<1>8. \A n \in Spawns : Gone(n) => Gone(n)'
  <2> SUFFICES ASSUME NEW n \in Spawns, Gone(n) PROVE Gone(n)'
    OBVIOUS
  <2>1. n # launch'
    BY DEF Gone
  <2>2. \A k \in asked' : k.op = "start" /\ k.id = n => k.answer # "none"
    BY <1>2, <1>3 DEF Gone
  <2> QED
    BY <2>1, <2>2 DEF Gone
<1>9. \A n \in known' : Gone(n)'
  BY <1>2, <1>3, <1>8 DEF Gone, GoneInv, StartsInv, WorkerTypes, WorkerRequests
<1>10. GoneInv'
  BY <1>2, <1>3, <1>4, <1>8, <1>9 DEF GoneInv, adapterVars, WorkerTypes, WorkerRequests
<1>11. HandleInv'
  BY <1>2, <1>3, <1>4 DEF HandleInv, adapterVars
<1> QED
  BY <1>5, <1>6, <1>7, <1>10, <1>11

\* A stop of the held launch, with whatever is left of it.
LEMMA StopHeldKeeps ==
  ASSUME WorkerInv, NEW q \in asked, q.answer = "none", NEW done \in WorkerAnswers \ {"none"},
         NEW failed \in {"retained", "lost"}, StopHeld(q, done, failed), q.id = launch,
         IF q.op = "start" THEN starting = q.id /\ starting' = 0 ELSE starting = 0 /\ starting' = starting
  PROVE  WorkerInv'
<1>1. launch # 0 /\ launch \in Spawns
  BY DEF WorkerInv, WorkerTypes, WorkerRequests
<1>2. PICK left \in SUBSET processes :
        /\ processes' = left /\ living' \in SUBSET (living \cap left)
        /\ \/ Reaped(left) /\ launch' = 0 /\ spawned' = FALSE /\ known' = known \cup {launch} /\ ReplyTo(q, done)
           \/ UNCHANGED <<launch, spawned, known>> /\ ReplyTo(q, failed)
  BY DEF StopHeld
<1>3. processes \subseteq {launch}
  BY DEF WorkerInv, HandleInv
<1>4. CASE launch' = 0 /\ left = {} /\ known' = known \cup {launch} /\ ReplyTo(q, done)
  BY <1>1, <1>2, <1>3, <1>4, ReplyKeeps DEF WorkerInv, WorkerTypes
<1>5. CASE UNCHANGED <<launch, spawned, known>> /\ ReplyTo(q, failed)
  BY <1>1, <1>2, <1>3, <1>5, ReplyKeeps DEF WorkerInv, WorkerTypes, WorkerAnswers
<1> QED
  BY <1>2, <1>4, <1>5 DEF Reaped


\* The starts, when one request is answered for the last time or not waited for.
LEMMA StartsKept ==
  ASSUME StartsInv, NEW q \in asked, NEW a, a.op = q.op, a.id = q.id, a.answer = q.answer, ~a.waits,
         asked' \subseteq (asked \ {q}) \cup {a}, launch' = launch, starting' = starting,
         chromeOf'.id = chromeOf.id, chromeOf'.state = chromeOf.state \/ (q.op = "start" /\ q.id = chromeOf.id)
  PROVE  StartsInv'
<1> SUFFICES ASSUME NEW k \in asked', k.op = "start"
             PROVE  /\ \A h \in asked' : h.op = "start" /\ h.id = k.id => h = k
                    /\ k.waits => k.id = chromeOf'.id /\ chromeOf'.state = "starting"
                    /\ k.answer = "none" /\ k.id = launch => starting = launch
                    /\ k.answer = "rejected" => k.id # launch
  BY DEF StartsInv
<1>1. PICK b \in asked : /\ b.op = k.op /\ b.id = k.id /\ b.answer = k.answer
                         /\ k = b \/ k = a
                         /\ k.waits => b = k /\ b # q
                         /\ k = a => b = q
                         /\ k # a => b # q /\ b = k
  OBVIOUS
<1>2. /\ \A h \in asked : h.op = "start" /\ h.id = b.id => h = b
      /\ b.waits => b.id = chromeOf.id /\ chromeOf.state = "starting"
      /\ b.answer = "none" /\ b.id = launch => starting = launch
      /\ b.answer = "rejected" => b.id # launch
  BY <1>1 DEF StartsInv
<1>3. \A h \in asked' : h.op = "start" /\ h.id = k.id => h = k
  <2> SUFFICES ASSUME NEW h \in asked', h.op = "start", h.id = k.id PROVE h = k
    OBVIOUS
  <2>1. CASE h = a
    BY <1>1, <1>2, <2>1
  <2>2. CASE h # a
    BY <1>1, <1>2, <2>2
  <2> QED
    BY <2>1, <2>2
<1>4. k.waits => k.id = chromeOf'.id /\ chromeOf'.state = "starting"
  <2> SUFFICES ASSUME k.waits PROVE k.id = chromeOf'.id /\ chromeOf'.state = "starting"
    OBVIOUS
  <2>1. b = k /\ b # q /\ b.waits /\ b.id = chromeOf.id /\ chromeOf.state = "starting"
    BY <1>1, <1>2
  <2>2. ~(q.op = "start" /\ q.id = chromeOf.id)
    BY <1>2, <2>1
  <2> QED
    BY <2>1, <2>2
<1> QED
  BY <1>1, <1>2, <1>3, <1>4

\* An answer, or a wait that is given up: only the worker's own word makes a
\* launch one that is refused or retired.
LEMMA HearKeeps ==
  ASSUME WorkerInv, NEW q \in asked, q.waits, NEW r \in WorkerAnswers, Hear(q, r),
         r \in {"rejected", "retired"} => r = q.answer,
         \/ asked' = asked \ {q}
         \/ asked' = (asked \ {q}) \cup {[q EXCEPT !.waits = FALSE]} /\ r = "lost"
  PROVE  WorkerInv'
<1> USE DEF WorkerInv
<1>1. q \in WorkerRequests /\ q.op \in {"start", "stop", "status"} /\ q.id \in Spawns
  BY DEF WorkerTypes, WorkerRequests
<1>2. PICK a \in WorkerRequests :
        /\ a = [q EXCEPT !.waits = FALSE] /\ a.op = q.op /\ a.id = q.id /\ a.answer = q.answer /\ ~a.waits
  <2>1. [q EXCEPT !.waits = FALSE] \in WorkerRequests
    BY <1>1, AnsweredTyped
  <2> WITNESS [q EXCEPT !.waits = FALSE] \in WorkerRequests
  <2> QED
    BY <1>1, AnsweredTyped
<1>3. asked' \subseteq (asked \ {q}) \cup {a} /\ (r # "lost" => asked' \subseteq asked \ {q})
  BY <1>2
<1>4. UNCHANGED <<worker, unitVars>>
  BY DEF Hear, HearStart, MarkRetired, AdapterOnly
<1>5. /\ chromeOf'.id = chromeOf.id /\ chromeOf' = [id |-> chromeOf'.id, state |-> chromeOf'.state]
      /\ chromeOf'.state \in {"none", "starting", "unknown", "running", "retired"}
      /\ tunnel' \in {0, tunnel, chromeOf.id} /\ ceased' \subseteq ceased \cup {chromeOf.id}
  BY DEF Hear, HearStart, MarkRetired, adapterVars, WorkerTypes, GiveUp
<1>6. q.op = "start" => q.id = chromeOf.id /\ chromeOf.state = "starting"
  BY DEF StartsInv
<1>7. CASE UNCHANGED adapterVars /\ q.op # "start"
  <2>1. WorkerTypes'
    BY <1>2, <1>3, <1>4, <1>7 DEF WorkerTypes, unitVars, adapterVars
  <2>2. NumbersInv'
    BY <1>2, <1>3, <1>4, <1>7 DEF NumbersInv, unitVars, adapterVars
  <2>3. StartsInv'
    BY <1>2, <1>3, <1>4, <1>7, StartsKept DEF unitVars, adapterVars
  <2>4. \A n \in Spawns : Gone(n) => Gone(n)'
    BY <1>2, <1>3, <1>4 DEF Gone, unitVars
  <2>6. GoneInv'
    <3>1. \A n \in known' \cup ceased' : Gone(n)'
      BY <1>4, <1>7, <2>4 DEF GoneInv, unitVars, adapterVars, WorkerTypes
    <3>2. \A k \in asked' : k.op # "start" /\ k.answer = "retired" => Gone(k.id)'
      BY <1>1, <1>2, <1>3, <2>4 DEF GoneInv, WorkerTypes, WorkerRequests
    <3> QED
      BY <3>1, <3>2 DEF GoneInv
  <2>5. HandleInv'
    BY <1>2, <1>3, <1>4, <1>7 DEF HandleInv, unitVars, adapterVars
  <2> QED
    BY <2>1, <2>2, <2>3, <2>5, <2>6
<1>8. CASE q.op = "start"
  <2>0. HearStart(r) /\ q.id = chromeOf.id /\ chromeOf.id \in Spawns
    BY <1>1, <1>6, <1>8 DEF Hear
  <2>1. WorkerTypes'
    BY <1>2, <1>3, <1>4, <1>5, <2>0 DEF WorkerTypes, unitVars
  <2>2. NumbersInv'
    <3>1. chromeOf'.id = chromeOf.id /\ chromeOf.id \in Nat
      BY <1>5 DEF WorkerTypes
    <3>2. \A k \in asked' : k.id <= chromeOf.id
      BY <1>2, <1>3 DEF NumbersInv
    <3> QED
      BY <1>4, <1>5, <3>1, <3>2 DEF NumbersInv, unitVars
  <2>3. StartsInv'
    BY <1>2, <1>3, <1>4, <1>5, <1>8, <2>0, StartsKept DEF unitVars
  <2>4. \A n \in Spawns : Gone(n) => Gone(n)'
    BY <1>2, <1>3, <1>4 DEF Gone, unitVars
  <2>5. ceased' # ceased => Gone(q.id)'
    <3> SUFFICES ASSUME ceased' # ceased PROVE Gone(q.id)'
      OBVIOUS
    <3>1. r = "rejected" /\ q.answer = r /\ asked' \subseteq asked \ {q}
      BY <1>3, <2>0 DEF HearStart, NotLaunched
    <3>2. q.id # launch /\ \A k \in asked : k.op = "start" /\ k.id = q.id => k = q
      BY <1>8, <3>1 DEF StartsInv
    <3> QED
      BY <3>1, <3>2, <1>4 DEF Gone, unitVars
  <2>6. GoneInv'
    <3>1. \A n \in known' \cup ceased' : Gone(n)'
      BY <1>4, <1>5, <2>0, <2>4, <2>5 DEF GoneInv, unitVars, WorkerTypes
    <3>2. \A k \in asked' : k.op # "start" /\ k.answer = "retired" => Gone(k.id)'
      BY <1>1, <1>2, <1>3, <1>8, <2>4 DEF GoneInv, WorkerTypes, WorkerRequests
    <3> QED
      BY <3>1, <3>2 DEF GoneInv
  <2>7. HandleInv'
    BY <1>2, <1>3, <1>4, <1>5, <2>0, <1>6, <1>8 DEF HandleInv, unitVars, HearStart, NotLaunched, GiveUp
  <2> QED
    BY <2>1, <2>2, <2>3, <2>6, <2>7
<1>9. CASE q.op # "start" /\ r = "retired" /\ q.id = chromeOf.id
  <2>0. /\ chromeOf' = [chromeOf EXCEPT !.state = "retired"] /\ tunnel' = 0 /\ ceased' = ceased \cup {q.id}
        /\ q.answer = "retired" /\ asked' \subseteq asked \ {q} /\ Gone(q.id)
    BY <1>3, <1>9 DEF Hear, MarkRetired, GiveUp, GoneInv
  <2>1. WorkerTypes'
    <3>1. chromeOf.id \in Spawns /\ ceased' \subseteq Spawns /\ asked' \subseteq asked /\ tunnel' = 0
      BY <1>1, <1>9, <2>0 DEF WorkerTypes
    <3> QED
      BY <1>4, <1>5, <3>1 DEF WorkerTypes, unitVars
  <2>2. NumbersInv'
    BY <1>3, <1>4, <1>5, <1>9, <2>0 DEF NumbersInv, unitVars
  <2>3. StartsInv'
    <3>1. chromeOf.state # "starting"
      BY <1>9 DEF HandleInv
    <3> QED
      BY <1>3, <1>4, <1>5, <1>9, <2>0, <3>1 DEF StartsInv, unitVars
  <2>4. \A n \in Spawns : Gone(n) => Gone(n)'
    BY <1>4, <2>0 DEF Gone, unitVars
  <2>5. GoneInv'
    BY <1>1, <1>4, <2>0, <2>4 DEF GoneInv, WorkerTypes, WorkerRequests, unitVars
  <2>6. HandleInv'
    BY <1>4, <1>5, <1>9, <2>0 DEF HandleInv, unitVars
  <2> QED
    BY <2>1, <2>2, <2>3, <2>5, <2>6
<1> QED
  BY <1>1, <1>7, <1>8, <1>9 DEF Hear, MarkRetired

\* A new launch has a number of its own.
LEMMA StartChromeKeeps == ASSUME WorkerInv, StartChrome PROVE WorkerInv'
<1> USE DEF WorkerInv
<1>1. PICK id \in Spawns : id = chromeOf.id + 1
  BY DEF StartChrome
<1>2. /\ UNCHANGED unitVars /\ tunnel' = tunnel /\ tunnel = 0 /\ chromeOf'.id = id
      /\ chromeOf' = [id |-> chromeOf'.id, state |-> chromeOf'.state] /\ chromeOf'.state \in {"starting", "none"}
      /\ id \in Nat /\ chromeOf.id \in Nat /\ chromeOf.id < id
      /\ \A k \in asked : k.op = "start" => ~k.waits
  BY <1>1 DEF StartChrome, AdapterOnly, HandleInv, StartsInv, WorkerTypes, WorkerRequests
<1>3. PICK a \in WorkerRequests : a = [op |-> "start", id |-> id, answer |-> "none", waits |-> TRUE] /\
                                  a.op = "start" /\ a.id = id /\ a.answer = "none"
  <2>1. [op |-> "start", id |-> id, answer |-> "none", waits |-> TRUE] \in WorkerRequests
    BY RequestTyped DEF WorkerAnswers
  <2> QED
    BY <2>1
<1>4. /\ asked' \subseteq asked \cup {a} /\ ceased' \subseteq ceased \cup {id}
      /\ asked' = asked \/ (ceased' = ceased /\ chromeOf'.state = "starting")
      /\ chromeOf'.state = "starting" => ceased' = ceased
  BY <1>1, <1>3 DEF StartChrome, Request, GiveUp
<1>5. \A n \in known \cup ceased \cup {launch} \cup {starting} : n # id
  BY <1>2 DEF NumbersInv, WorkerTypes
<1>6. \A k \in asked : k.id # id
  BY <1>2 DEF NumbersInv, WorkerTypes, WorkerRequests
<1>7. WorkerTypes'
  BY <1>1, <1>2, <1>3, <1>4 DEF WorkerTypes, unitVars
<1>8. NumbersInv'
  <2>1. \A n \in known \cup ceased \cup {launch} : n \in Nat /\ n <= id
    BY <1>2 DEF NumbersInv, WorkerTypes
  <2>2. \A k \in asked : k.id \in Nat /\ k.id <= id
    BY <1>2 DEF NumbersInv, WorkerTypes, WorkerRequests
  <2> QED
    BY <1>2, <1>3, <1>4, <2>1, <2>2 DEF NumbersInv, unitVars
<1>9. StartsInv'
  <2> SUFFICES ASSUME NEW k \in asked', k.op = "start"
               PROVE  /\ \A h \in asked' : h.op = "start" /\ h.id = k.id => h = k
                      /\ k.waits => k.id = chromeOf'.id /\ chromeOf'.state = "starting"
                      /\ k.answer = "none" /\ k.id = launch' => starting' = launch'
                      /\ k.answer = "rejected" => k.id # launch'
    BY DEF StartsInv
  <2>1. launch' = launch /\ starting' = starting
    BY <1>2 DEF unitVars
  <2>2. CASE k = a
    <3>1. asked' # asked
      BY <1>3, <1>6, <2>2
    <3> QED
      BY <1>2, <1>3, <1>4, <1>5, <1>6, <2>1, <2>2, <3>1
  <2>3. CASE k # a
    BY <1>2, <1>3, <1>4, <1>6, <2>1, <2>3 DEF StartsInv
  <2> QED
    BY <2>2, <2>3
<1>10. \A n \in Spawns : n # id /\ Gone(n) => Gone(n)'
  BY <1>2, <1>3, <1>4 DEF Gone, unitVars
<1>11. ceased' # ceased => Gone(id)'
  BY <1>2, <1>4, <1>5, <1>6 DEF Gone, unitVars
<1>12. GoneInv'
  <2>1. \A n \in known' \cup ceased' : Gone(n)'
    BY <1>2, <1>4, <1>5, <1>10, <1>11 DEF GoneInv, unitVars, WorkerTypes
  <2>2. \A k \in asked' : k.op # "start" /\ k.answer = "retired" => Gone(k.id)'
    BY <1>3, <1>4, <1>6, <1>10 DEF GoneInv, WorkerTypes, WorkerRequests
  <2> QED
    BY <2>1, <2>2 DEF GoneInv
<1>13. HandleInv'
  BY <1>2, <1>3, <1>4, <1>5, <1>6 DEF HandleInv, unitVars
<1> QED
  BY <1>7, <1>8, <1>9, <1>12, <1>13

\* A question to the worker, about the launch the adapter holds.
LEMMA AsksKeep == ASSUME WorkerInv, RetireChrome \/ AskStatusOf PROVE WorkerInv'
<1> USE DEF WorkerInv
<1>1. /\ UNCHANGED <<unitVars, adapterVars>> /\ chromeOf.state = "running"
      /\ \E o \in {"stop", "status"} : Request(o, chromeOf.id)
  BY DEF RetireChrome, AskStatusOf, AdapterOnly
<1>2. PICK o \in {"stop", "status"} : Request(o, chromeOf.id)
  BY <1>1
<1>3. /\ chromeOf.id \in Nat /\ chromeOf' = chromeOf /\ tunnel' = tunnel /\ ceased' = ceased
      /\ launch' = launch /\ starting' = starting /\ known' = known /\ processes' = processes /\ living' = living
  BY <1>1 DEF WorkerTypes, unitVars, adapterVars
<1>4. PICK a : /\ asked' = asked \cup {a} /\ a = [op |-> o, id |-> chromeOf.id, answer |-> "none", waits |-> TRUE]
               /\ a.op # "start" /\ a.id = chromeOf.id /\ a.answer = "none"
  <2> DEFINE a == [op |-> o, id |-> chromeOf.id, answer |-> "none", waits |-> TRUE]
  <2>1. asked' = asked \cup {a} /\ a.op = o /\ a.id = chromeOf.id /\ a.answer = "none"
    BY <1>2 DEF Request
  <2> QED
    BY <2>1
<1>5. chromeOf.id \in Spawns => a \in WorkerRequests
  BY <1>4, RequestTyped DEF WorkerAnswers
<1>6. WorkerTypes'
  BY <1>1, <1>3, <1>4, <1>5 DEF WorkerTypes
<1>7. NumbersInv'
  BY <1>3, <1>4 DEF NumbersInv
<1>8. StartsInv'
  BY <1>3, <1>4 DEF StartsInv
<1>9. GoneInv'
  BY <1>3, <1>4 DEF GoneInv, Gone
<1>10. HandleInv'
  BY <1>1, <1>3, <1>4 DEF HandleInv
<1> QED
  BY <1>6, <1>7, <1>8, <1>9, <1>10

\* What was asked and is not yet answered may still be served.
LEMMA AdapterRestartKeeps == ASSUME WorkerInv, AdapterRestarts PROVE WorkerInv'
<1> USE DEF WorkerInv
<1>1. /\ UNCHANGED unitVars /\ tunnel' = 0 /\ ceased' = ceased
      /\ chromeOf' = [chromeOf EXCEPT !.state = "none"] /\ chromeOf'.id = chromeOf.id /\ chromeOf'.state = "none"
      /\ chromeOf' = [id |-> chromeOf'.id, state |-> chromeOf'.state] /\ chromeOf.id \in Nat
  BY DEF AdapterRestarts, AdapterOnly, WorkerTypes
<1>2. \A k \in asked' : \E b \in asked : /\ b.answer = "none" /\ k = [b EXCEPT !.waits = FALSE] /\ k \in WorkerRequests
                                         /\ k.op = b.op /\ k.id = b.id /\ k.answer = b.answer /\ ~k.waits
  <2> SUFFICES ASSUME NEW k \in asked'
               PROVE  \E b \in asked : /\ b.answer = "none" /\ k = [b EXCEPT !.waits = FALSE] /\ k \in WorkerRequests
                                       /\ k.op = b.op /\ k.id = b.id /\ k.answer = b.answer /\ ~k.waits
    OBVIOUS
  <2>1. PICK b \in asked : b.answer = "none" /\ k = [b EXCEPT !.waits = FALSE]
    BY DEF AdapterRestarts
  <2>2. b \in WorkerRequests /\ "none" \in WorkerAnswers
    BY DEF WorkerTypes, WorkerAnswers
  <2> QED
    BY <2>1, <2>2, AnsweredTyped
<1>3. WorkerTypes'
  BY <1>1, <1>2 DEF WorkerTypes, unitVars
<1>4. NumbersInv'
  <2>1. \A k \in asked' : k.id <= chromeOf.id
    BY <1>2 DEF NumbersInv
  <2> QED
    BY <1>1, <2>1 DEF NumbersInv, unitVars
<1>5. StartsInv'
  <2> SUFFICES ASSUME NEW k \in asked', k.op = "start"
               PROVE  /\ \A h \in asked' : h.op = "start" /\ h.id = k.id => h = k
                      /\ ~k.waits /\ k.answer = "none" /\ (k.id = launch => starting = launch)
    BY <1>1 DEF StartsInv, unitVars
  <2>1. PICK b \in asked : b.answer = "none" /\ k = [b EXCEPT !.waits = FALSE] /\ k.op = b.op /\ k.id = b.id /\ k.answer = b.answer /\ ~k.waits
    BY <1>2
  <2>2. \A h \in asked' : h.op = "start" /\ h.id = k.id => h = k
    <3> SUFFICES ASSUME NEW h \in asked', h.op = "start", h.id = k.id PROVE h = k
      OBVIOUS
    <3>1. PICK c \in asked : h = [c EXCEPT !.waits = FALSE] /\ h.op = c.op /\ h.id = c.id
      BY <1>2
    <3>2. c = b
      BY <2>1, <3>1 DEF StartsInv
    <3> QED
      BY <2>1, <3>1, <3>2
  <2> QED
    BY <2>1, <2>2 DEF StartsInv
<1>6. \A n \in Spawns : Gone(n) => Gone(n)'
  BY <1>1, <1>2 DEF Gone, unitVars
<1>7. GoneInv'
  BY <1>1, <1>2, <1>6 DEF GoneInv, WorkerTypes, unitVars
<1>8. HandleInv'
  BY <1>1 DEF HandleInv, unitVars
<1> QED
  BY <1>3, <1>4, <1>5, <1>7, <1>8

\* The unit of the worker stops, and every process and every request in it.
LEMMA UnitStopKeeps == ASSUME WorkerInv, UnitStops PROVE WorkerInv'
<1> USE DEF WorkerInv
<1>1. /\ launch' = 0 /\ starting' = 0 /\ known' = {} /\ processes' = {} /\ living' = {}
      /\ chromeOf' = chromeOf /\ tunnel' = tunnel /\ ceased' = ceased /\ chromeOf.id \in Nat
  BY DEF UnitStops, adapterVars, WorkerTypes
<1>2. \A k \in asked' : \E b \in asked :
        /\ k = [b EXCEPT !.answer = IF b.answer = "none" THEN "lost" ELSE b.answer] /\ k \in WorkerRequests /\ k.waits = b.waits
        /\ k.op = b.op /\ k.id = b.id /\ k.answer # "none" /\ k.answer \in {"lost", b.answer}
  <2> SUFFICES ASSUME NEW k \in asked'
               PROVE  \E b \in asked :
                        /\ k = [b EXCEPT !.answer = IF b.answer = "none" THEN "lost" ELSE b.answer]
                        /\ k \in WorkerRequests /\ k.waits = b.waits
                        /\ k.op = b.op /\ k.id = b.id /\ k.answer # "none" /\ k.answer \in {"lost", b.answer}
    OBVIOUS
  <2>1. PICK b \in asked : k = [b EXCEPT !.answer = IF b.answer = "none" THEN "lost" ELSE b.answer]
    BY DEF UnitStops, WorkerTypes, WorkerRequests
  <2>2. b \in WorkerRequests /\ b.answer \in WorkerAnswers /\ "lost" \in WorkerAnswers
    BY DEF WorkerTypes, WorkerRequests, WorkerAnswers
  <2>3. PICK r \in WorkerAnswers : r = IF b.answer = "none" THEN "lost" ELSE b.answer
    BY <2>2
  <2>4. k = [b EXCEPT !.answer = r]
    BY <2>1, <2>3
  <2>5. k \in WorkerRequests /\ k.waits = b.waits /\ k.op = b.op /\ k.id = b.id /\ k.answer = r
    BY <2>2, <2>4, AnsweredTyped
  <2> WITNESS b \in asked
  <2> QED
    BY <2>1, <2>3, <2>5
<1>3. WorkerTypes'
  BY <1>1, <1>2 DEF WorkerTypes
<1>4. NumbersInv'
  <2>1. \A k \in asked' : k.id <= chromeOf.id
    BY <1>2 DEF NumbersInv
  <2> QED
    BY <1>1, <2>1 DEF NumbersInv
<1>5. StartsInv'
  <2> SUFFICES ASSUME NEW k \in asked', k.op = "start"
               PROVE  /\ \A h \in asked' : h.op = "start" /\ h.id = k.id => h = k
                      /\ k.waits => k.id = chromeOf.id /\ chromeOf.state = "starting"
                      /\ k.answer # "none" /\ k.id # 0
    BY <1>1 DEF StartsInv
  <2>1. PICK b \in asked : /\ k = [b EXCEPT !.answer = IF b.answer = "none" THEN "lost" ELSE b.answer] /\ k.waits = b.waits
                           /\ k.op = b.op /\ k.id = b.id /\ k.answer # "none"
    BY <1>2
  <2>2. \A h \in asked' : h.op = "start" /\ h.id = k.id => h = k
    <3> SUFFICES ASSUME NEW h \in asked', h.op = "start", h.id = k.id PROVE h = k
      OBVIOUS
    <3>1. PICK c \in asked : /\ h = [c EXCEPT !.answer = IF c.answer = "none" THEN "lost" ELSE c.answer]
                             /\ h.op = c.op /\ h.id = c.id
      BY <1>2
    <3>2. c = b
      BY <2>1, <3>1 DEF StartsInv
    <3> QED
      BY <2>1, <3>1, <3>2
  <2>3. k.id # 0
    BY <1>3 DEF WorkerTypes, WorkerRequests
  <2> QED
    BY <2>1, <2>2, <2>3 DEF StartsInv
<1>6. \A n \in Spawns : Gone(n)'
  BY <1>1, <1>2 DEF Gone
<1>7. GoneInv'
  BY <1>1, <1>3, <1>6 DEF GoneInv, WorkerTypes, WorkerRequests
<1>8. HandleInv'
  BY <1>1, <1>2 DEF HandleInv
<1> QED
  BY <1>3, <1>4, <1>5, <1>7, <1>8

\* The launch a start reserves was neither refused nor retired.
LEMMA BeginStartKeeps == ASSUME WorkerInv, NEW q \in Unserved("start"), BeginStart(q) PROVE WorkerInv'
<1> USE DEF WorkerInv
<1>1. /\ q \in asked /\ q.op = "start" /\ q.answer = "none" /\ q \in WorkerRequests /\ q.id \in Spawns
      /\ launch = 0 /\ launch' = q.id /\ starting = 0 /\ starting' = q.id /\ known' = known /\ asked' = asked
      /\ processes' \subseteq {q.id} /\ living' = processes'
      /\ chromeOf' = chromeOf /\ tunnel' = tunnel /\ ceased' = ceased
  BY DEF BeginStart, Unserved, UnitFree, WorkerTypes, WorkerRequests, adapterVars
<1>2. WorkerTypes'
  BY <1>1 DEF WorkerTypes
<1>3. NumbersInv'
  BY <1>1 DEF NumbersInv
<1>4. StartsInv'
  BY <1>1 DEF StartsInv
<1>5. \A n \in Spawns : Gone(n) => Gone(n)'
  BY <1>1 DEF Gone
<1>6. GoneInv'
  BY <1>1, <1>5 DEF GoneInv, WorkerTypes, WorkerRequests
<1>7. HandleInv'
  BY <1>1 DEF HandleInv
<1> QED
  BY <1>2, <1>3, <1>4, <1>6, <1>7

\* The worker refuses a start, or ends one.
LEMMA StartsKeep ==
  ASSUME WorkerInv, NEW q \in Unserved("start"), RefuseStart(q) \/ EndStart(q) PROVE WorkerInv'
<1>1. /\ q \in asked /\ q.op = "start" /\ q.answer = "none" /\ q.id \in Spawns /\ q.id # 0
      /\ processes \subseteq {launch} /\ living \subseteq processes
      /\ starting \in {0, launch} /\ (q.id = launch => starting = launch)
  BY DEF Unserved, WorkerInv, WorkerTypes, WorkerRequests, StartsInv, HandleInv
<1>2. {"rejected", "running", "retained"} \subseteq WorkerAnswers \ {"none"}
  BY DEF WorkerAnswers
<1>3. CASE RefuseStart(q)
  BY <1>1, <1>2, <1>3, ReplyKeeps DEF RefuseStart, UnitFree, unitVars, WorkerInv, HandleInv, WorkerTypes
<1>4. CASE EndStart(q)
  <2>1. starting = q.id /\ starting' = 0 /\ q.id = launch
    BY <1>1, <1>4 DEF EndStart
  <2>2. CASE launch \in living /\ ReplyTo(q, "running") /\ UNCHANGED Memory
    BY <1>1, <1>2, <2>1, <2>2, ReplyKeeps DEF Memory, WorkerInv, HandleInv, WorkerTypes
  <2>3. CASE StopHeld(q, "rejected", "retained")
    BY <1>1, <1>2, <2>1, <2>3, StopHeldKeeps
  <2> QED
    BY <1>4, <2>2, <2>3 DEF EndStart
<1> QED
  BY <1>3, <1>4

\* The worker answers a stop or a question.
LEMMA AnswersKeep ==
  ASSUME WorkerInv, NEW q \in Unserved("stop") \cup Unserved("status"), AnswerStop(q) \/ AnswerStatus(q) PROVE WorkerInv'
<1>1. /\ q \in asked /\ q.op # "start" /\ q.answer = "none" /\ starting = 0 /\ starting' = starting
      /\ processes \subseteq {launch} /\ living \subseteq processes
  BY DEF Unserved, WorkerInv, WorkerTypes, HandleInv, AnswerStop, AnswerStatus, UnitFree
<1>2. {"retired", "running", "unknown", "lost"} \subseteq WorkerAnswers \ {"none"}
  BY DEF WorkerAnswers
<1>3. CASE StopHeld(q, "retired", "lost") /\ q.id = launch
  BY <1>1, <1>2, <1>3, StopHeldKeeps
<1>4. CASE \E r \in {"retired", "running", "unknown"} : ReplyTo(q, r) /\ UNCHANGED Memory /\ (r = "retired" => q.id \in known)
  <2>1. PICK r \in {"retired", "running", "unknown"} : ReplyTo(q, r) /\ UNCHANGED Memory /\ (r = "retired" => q.id \in known)
    BY <1>4
  <2> QED
    BY <1>1, <1>2, <2>1, ReplyKeeps DEF Memory
<1> QED
  BY <1>3, <1>4 DEF AnswerStop, AnswerStatus

\* Every step of the worker, of its Chrome and of the adapter.
LEMMA WorkerSteps == WorkerInv /\ [WorkerNext]_workerVars => WorkerInv'
<1> SUFFICES ASSUME WorkerInv, [WorkerNext]_workerVars PROVE WorkerInv'
  OBVIOUS
<1>1. ASSUME NEW q \in Unserved("start"), RefuseStart(q) \/ BeginStart(q) \/ EndStart(q) PROVE WorkerInv'
  BY <1>1, StartsKeep, BeginStartKeeps
<1>2. ASSUME NEW q \in Unserved("stop") \cup Unserved("status"), AnswerStop(q) \/ AnswerStatus(q) PROVE WorkerInv'
  BY <1>2, AnswersKeep
<1>3. CASE ChromeExits
  BY <1>3 DEF ChromeExits, adapterVars, WorkerInv, WorkerTypes, NumbersInv, StartsInv, GoneInv, Gone, HandleInv
<1>4. CASE UnitStops
  BY <1>4, UnitStopKeeps
<1>5. CASE UnitStarts \/ UNCHANGED workerVars
  BY <1>5 DEF UnitStarts, workerVars, unitVars, adapterVars, WorkerInv, WorkerTypes, NumbersInv, StartsInv, GoneInv, Gone, HandleInv
<1>6. CASE StartChrome
  BY <1>6, StartChromeKeeps
<1>7. CASE RetireChrome \/ AskStatusOf
  BY <1>7, AsksKeep
<1>8. CASE AdapterRestarts
  BY <1>8, AdapterRestartKeeps
<1>9. ASSUME NEW q \in asked, q.waits, HearReply(q) \/ GiveUpWaiting(q) PROVE WorkerInv'
  <2>1. q.answer \in WorkerAnswers /\ "lost" \in WorkerAnswers
    BY <1>9 DEF WorkerInv, WorkerTypes, WorkerRequests, WorkerAnswers
  <2> QED
    BY <1>9, <2>1, HearKeeps DEF HearReply, GiveUpWaiting
<1> QED
  BY <1>1, <1>2, <1>3, <1>4, <1>5, <1>6, <1>7, <1>8, <1>9 DEF WorkerNext

\* What is gone is not held, and only the held launch has a process.
LEMMA WorkerInvIsEnough == WorkerInv => OneChromeAtATime
<1> SUFFICES ASSUME WorkerInv PROVE OneChromeAtATime
  OBVIOUS
<1>1. processes \subseteq {launch} /\ launch \notin ceased
  BY DEF WorkerInv, HandleInv, GoneInv, Gone
<1>2. Cardinality(processes) <= 1
  <2>1. processes = {} \/ processes = {launch}
    BY <1>1
  <2>2. Cardinality({launch}) = 1
    BY FS_Singleton
  <2>3. Cardinality({}) = 0
    BY FS_EmptySet
  <2> QED
    BY <2>1, <2>2, <2>3
<1>3. tunnel # 0 => tunnel = chromeOf.id /\ tunnel \notin ceased
  BY DEF WorkerInv, HandleInv
<1> QED
  BY <1>1, <1>2, <1>3 DEF OneChromeAtATime

-----------------------------------------------------------------------------
USE BrowserAssumption

(* The shared browser. *)
Modes == {"agent", "takeover_pending", "human", "paused", "recovering"}
BRows == [gen : Nat, mode : Modes, rev : Nat, run : Runs \cup {None}, cmd : {None, "agent", "human"},
          lease : Viewers \cup {None}, seq : Nat, receipt : {None, "reserved", "applied", "rejected", "uncertain"}, observe : BOOLEAN,
          lid : Nat, epoch : Nat, retired : BOOLEAN]
Logins == [pc : {"idle", "reserved", "sent"}, seq : Nat]
Trs == [pc : {"free", "drain", "fence", "fenced", "clear", "observe", "observed"}, op : {None, "grant", "move", "close", "return"},
        v : Viewers \cup {None}, rev : Nat]
Watches == [pc : {"idle", "granted", "captured", "shown"}, v : Viewers \cup {None}, lid : Nat, epoch : Nat, ends : Int]
Lined == {"agent", "page", "login", "fence", "snapshot", "capture", "close", "probe"}
BrowserTypes ==
  /\ br \in BRows /\ line \in Seq(Lined) /\ withdrawn \in Nat /\ handover \in Nat
  /\ login \in Logins
\* The row: a lease is of a mode, a grant is of the owner's, and a revision
\* names what it was when the lease was taken.
BRowInv ==
  /\ br.lease # None <=> br.mode \in {"takeover_pending", "human"}
  /\ br.observe => br.mode = "human"
  /\ br.retired => br.cmd = None /\ br.lease = None /\ ~br.observe
  /\ br.rev = 0 => br.retired
  /\ br.lid < br.rev \/ (br.rev = 0 /\ br.lid = 0)
\* What waits in the driver is in the row, whoever still waits for it.
BLineInv ==
  /\ line # <<>> => native = "up"
  /\ native = "none" <=> br.retired
  /\ Waiting("agent") => br.cmd = "agent" /\ (agent = "sent" \/ br.mode = "recovering")
  /\ Waiting("login") => br.cmd = "human" /\ login.pc # "reserved"
  /\ agent # "idle" => br.retired \/ (br.cmd = "agent" /\ br.mode # "recovering")
  /\ login.pc # "idle" => br.retired \/ br.cmd = "human"
\* Who holds the input lock.
BInputInv ==
  /\ event <=> input = "event"
  /\ login.pc # "idle" <=> input = "login"
  /\ watched.pc = "captured" <=> input = "capture"
  /\ tr.pc = "clear" <=> input = "return"
  /\ stream = "none" => ~event /\ ~keys /\ login.pc = "idle"
\* No agent has the browser before what the owner pressed is released.
Pressed == event \/ keys
HandsInv ==
  /\ Pressed => br.mode # "agent" /\ br.cmd # "agent"
  /\ handover <= br.rev
  /\ handover = br.rev /\ ~br.retired => br.mode = "paused" /\ ~Pressed
\* A hand-back is drained before it is the proof of anything.
Returning == tr.op = "return" /\ tr.pc \in {"drain", "observe", "observed"}
TrInv ==
  /\ tr \in Trs /\ tr.rev <= br.rev /\ (tr.op = "move" => tr.v \in Viewers)
  /\ tr.pc \in {"observe", "observed"} => tr.op = "return"
  /\ Returning /\ tr.rev = br.rev /\ ~br.retired => br.mode = "paused" /\ (tr.pc # "drain" => ~Pressed)
\* A grant that ended is never given again.
LiveGrant == br.observe /\ br.lid = watched.lid /\ br.epoch = watched.epoch /\ watched.lid < br.rev
GoneGrant == watched.lid < br.rev /\ (br.lid = watched.lid => br.lease = None \/ br.epoch > watched.epoch)
WatchInv ==
  /\ watched \in Watches
  /\ watched.pc = "captured" => (LiveGrant /\ watched.ends = withdrawn) \/ GoneGrant
  /\ watched.pc = "shown" => watched.ends = 0
BrowserInv == BrowserTypes /\ BRowInv /\ BLineInv /\ BInputInv /\ HandsInv /\ TrInv /\ WatchInv

\* The first state.
LEMMA BrowserBegins == BrowserInit => BrowserInv
<1> SUFFICES ASSUME BrowserInit PROVE BrowserInv
  OBVIOUS
<1>1. NoBrowser \in BRows
  BY DEF NoBrowser, BRows, Modes
<1>2. BrowserTypes
  BY <1>1 DEF BrowserInit, ControlInit, StreamInit, BrowserTypes, NoLogin, Logins
<1>3. BRowInv
  BY DEF BrowserInit, ControlInit, BRowInv, NoBrowser, None
<1>4. ~Waiting("agent") /\ ~Waiting("login")
  BY DEF BrowserInit, Waiting
<1>5. BLineInv
  BY <1>4 DEF BrowserInit, ControlInit, BLineInv, NoBrowser, NoLogin
<1>6. BInputInv
  BY DEF BrowserInit, StreamInit, BInputInv, NoLogin, NoWatch, FreeTr
<1>7. HandsInv
  BY DEF BrowserInit, ControlInit, StreamInit, HandsInv, Pressed, NoBrowser
<1>9. TrInv
  BY DEF BrowserInit, ControlInit, StreamInit, TrInv, Returning, Pressed, NoBrowser, FreeTr, Trs, None
<1>8. WatchInv
  BY DEF BrowserInit, WatchInv, NoWatch, Watches, None
<1> QED
  BY <1>2, <1>3, <1>5, <1>6, <1>7, <1>8, <1>9 DEF BrowserInv

-----------------------------------------------------------------------------
(* What a transaction does to the row. *)
KeepsCmd(cmd, retired) == br'.cmd = cmd /\ br'.retired = retired
GrantKept == br'.lid = br.lid /\ br'.epoch = br.epoch
LeaseKept == br'.lease = br.lease /\ br'.observe = br.observe /\ GrantKept
LeaseGone == br'.lease = None /\ ~br'.observe /\ GrantKept
RevisedRow == br'.rev = br.rev + 1
WithdrawnTo(mode) == RevisedRow /\ br'.mode = mode /\ LeaseGone /\ KeepsCmd(br.cmd, br.retired)
BeginsRow(mode) == br.retired /\ RevisedRow /\ br'.mode = mode /\ br'.lease = None /\ ~br'.observe /\ br'.lid = 0 /\ KeepsCmd(None, FALSE)
AdmitsRow(proof) == /\ ~br.retired /\ br.cmd = None /\ (br.mode = "agent" \/ (br.mode = "paused" /\ proof = br.rev))
                 /\ RevisedRow /\ br'.mode = "agent" /\ LeaseKept /\ KeepsCmd(None, FALSE)
CommandsRow(mode, cmd) == /\ ~br.retired /\ br.mode = mode /\ br.cmd = None
                       /\ br'.rev = br.rev /\ br'.mode = mode /\ LeaseKept /\ KeepsCmd(cmd, FALSE)
AnsweredRow(cmd) == br.cmd = cmd /\ br'.rev = br.rev /\ br'.mode = br.mode /\ LeaseKept /\ KeepsCmd(None, br.retired)
RequestsRow == /\ ~br.retired /\ br.lease = None /\ br.mode \in {"agent", "paused"}
            /\ RevisedRow /\ br'.mode = "takeover_pending" /\ br'.lease # None /\ br'.observe = br.observe
            /\ br'.lid = br.rev /\ KeepsCmd(br.cmd, FALSE)
ConfirmsRow == /\ br.mode = "takeover_pending" /\ br.cmd = None
            /\ RevisedRow /\ br'.mode = "human" /\ LeaseKept /\ KeepsCmd(None, br.retired)
ObservesRow == /\ ~br.retired /\ br.mode = "human"
            /\ RevisedRow /\ br'.mode = "human" /\ br'.lease = br.lease /\ br'.observe # br.observe
            /\ br'.lid = br.lid /\ br'.epoch = br.epoch + 1 /\ KeepsCmd(br.cmd, FALSE)
ClosesRow == /\ ~br.retired /\ br.mode \in {"agent", "paused"} /\ br.cmd = None
          /\ RevisedRow /\ br'.mode = "paused" /\ LeaseKept /\ KeepsCmd(None, FALSE)
RetiresRow == ~br.retired /\ RevisedRow /\ br'.mode = "paused" /\ LeaseGone /\ KeepsCmd(None, TRUE)

\* A new revision of a row.
LEMMA ReviseMoves ==
  ASSUME NEW row \in BRows, Revise(row)
  PROVE  /\ br' \in BRows /\ br'.rev = row.rev + 1 /\ br'.mode = row.mode /\ br'.lease = row.lease /\ br'.observe = row.observe
         /\ br'.lid = row.lid /\ br'.epoch = row.epoch /\ br'.cmd = row.cmd /\ br'.retired = row.retired
<1>1. br' = [row EXCEPT !.rev = row.rev + 1]
  BY DEF Revise
<1>2. row.rev \in Nat
  BY DEF BRows
<1>3. row.rev + 1 \in Nat
  BY <1>2
<1> QED
  BY <1>1, <1>3 DEF BRows

\* The row of a revoked authority.
LEMMA RevokedRow ==
  ASSUME br \in BRows, NEW mode \in Modes
  PROVE  /\ Revoked(mode) \in BRows /\ Revoked(mode).rev = br.rev /\ Revoked(mode).mode = mode /\ Revoked(mode).lease = None
         /\ ~Revoked(mode).observe /\ Revoked(mode).lid = br.lid /\ Revoked(mode).epoch = br.epoch
         /\ Revoked(mode).cmd = br.cmd /\ Revoked(mode).retired = br.retired /\ Revoked(mode).receipt = br.receipt
<1>1. PICK x1 \in BRows : x1 = [br EXCEPT !.mode = mode]
  BY DEF BRows
<1>2. PICK x2 \in BRows : x2 = [x1 EXCEPT !.lease = None]
  BY DEF BRows
<1>3. PICK x3 \in BRows : x3 = [x2 EXCEPT !.observe = FALSE]
  BY DEF BRows
<1>4. Revoked(mode) = x3
  BY <1>1, <1>2, <1>3 DEF Revoked, BRows
<1> QED
  BY <1>1, <1>2, <1>3, <1>4 DEF BRows

\* An authority withdrawn.
LEMMA WithdrawMoves ==
  ASSUME br \in BRows, NEW mode \in Modes, Revise(Revoked(mode))
  PROVE  br' \in BRows /\ WithdrawnTo(mode)
BY ReviseMoves, RevokedRow DEF WithdrawnTo, RevisedRow, LeaseGone, GrantKept, KeepsCmd

\* The same, with the receipt of an input that is lost.
LEMMA WithdrawReceiptMoves ==
  ASSUME br \in BRows, NEW mode \in Modes, NEW told \in {None, "reserved", "applied", "rejected", "uncertain"},
         Revise([Revoked(mode) EXCEPT !.receipt = told])
  PROVE  br' \in BRows /\ WithdrawnTo(mode)
<1>1. PICK x \in BRows : x = [Revoked(mode) EXCEPT !.receipt = told]
  BY RevokedRow DEF BRows
<1>2. /\ x.rev = br.rev /\ x.mode = mode /\ x.lease = None /\ ~x.observe /\ x.lid = br.lid /\ x.epoch = br.epoch
      /\ x.cmd = br.cmd /\ x.retired = br.retired
  BY <1>1, RevokedRow DEF BRows
<1> QED
  BY <1>1, <1>2, ReviseMoves DEF WithdrawnTo, RevisedRow, LeaseGone, GrantKept, KeepsCmd

\* A browser is bound.
LEMMA BindMoves ==
  ASSUME br \in BRows, NEW run \in Runs \cup {None}, BindBrowser(run)
  PROVE  br' \in BRows /\ \E mode \in {"paused", "agent"} : BeginsRow(mode)
<1>1. br.gen + 1 \in Nat /\ br.rev \in Nat
  <2>1. br.gen \in Nat /\ br.rev \in Nat
    BY DEF BRows
  <2> QED
    BY <2>1
<1>2. NoBrowser \in BRows
  BY DEF NoBrowser, BRows, Modes
<1>3. PICK mode \in {"paused", "agent"} : mode = IF run = None THEN "paused" ELSE "agent"
  OBVIOUS
<1>4. PICK x \in BRows : x = [NoBrowser EXCEPT !.gen = br.gen + 1, !.rev = br.rev, !.run = run, !.retired = FALSE, !.mode = mode]
  <2>1. PICK x1 \in BRows : x1 = [NoBrowser EXCEPT !.gen = br.gen + 1]
    BY <1>1, <1>2 DEF BRows
  <2>2. PICK x2 \in BRows : x2 = [x1 EXCEPT !.rev = br.rev]
    BY <1>1 DEF BRows
  <2>3. PICK x3 \in BRows : x3 = [x2 EXCEPT !.run = run]
    BY DEF BRows
  <2>4. PICK x4 \in BRows : x4 = [x3 EXCEPT !.retired = FALSE]
    BY DEF BRows
  <2>5. mode \in Modes
    BY <1>3 DEF Modes
  <2>6. PICK x5 \in BRows : x5 = [x4 EXCEPT !.mode = mode]
    BY <2>5 DEF BRows
  <2>7. x5 = [NoBrowser EXCEPT !.gen = br.gen + 1, !.rev = br.rev, !.run = run, !.retired = FALSE, !.mode = mode]
    BY <1>2, <2>1, <2>2, <2>3, <2>4, <2>6 DEF BRows
  <2> QED
    BY <2>7
<1>5. x.rev = br.rev /\ x.mode = mode /\ x.lease = None /\ ~x.observe /\ x.lid = 0 /\ x.cmd = None /\ ~x.retired
  BY <1>4 DEF NoBrowser
<1>6. Revise(x) /\ br.retired
  BY <1>3, <1>4 DEF BindBrowser
<1> QED
  BY <1>5, <1>6, ReviseMoves DEF BeginsRow, RevisedRow, KeepsCmd

\* A run is admitted.
LEMMA AdmitMoves ==
  ASSUME br \in BRows, BRowInv, NEW run \in Runs, NEW done, NEW proof, AdmitRun(run, done, proof)
  PROVE  br' \in BRows /\ AdmitsRow(proof)
<1>1. PICK x1 \in BRows : x1 = [br EXCEPT !.mode = "agent"]
  BY DEF BRows, Modes
<1>2. PICK x \in BRows : x = [x1 EXCEPT !.run = run]
  BY DEF BRows
<1>3. x = [br EXCEPT !.mode = "agent", !.run = run]
  BY <1>1, <1>2 DEF BRows
<1>4. /\ x.rev = br.rev /\ x.mode = "agent" /\ x.lease = br.lease /\ x.observe = br.observe /\ x.lid = br.lid /\ x.epoch = br.epoch
      /\ x.cmd = br.cmd /\ x.retired = br.retired
  BY <1>1, <1>2 DEF BRows
<1>5. Revise(x) /\ ~br.retired /\ br.cmd = None /\ (br.mode = "agent" \/ (br.mode = "paused" /\ proof = br.rev))
  BY <1>3 DEF AdmitRun, Handed
<1>6. br'.retired = FALSE
  <2>1. br.retired = FALSE
    BY <1>5 DEF BRows
  <2> QED
    BY <1>4, <1>5, <2>1, ReviseMoves
<1> QED
  BY <1>4, <1>5, <1>6, ReviseMoves DEF AdmitsRow, RevisedRow, LeaseKept, GrantKept, KeepsCmd

\* An agent's operation, or an input of the owner, is reserved.
LEMMA ReserveMoves ==
  ASSUME br \in BRows, BRowInv,
         (\E run \in Runs : ReserveAgent(run)) \/ (\E v \in Viewers, seq \in Nat : ReserveInput(v, seq))
  PROVE  /\ br' \in BRows
         /\ \/ CommandsRow("agent", "agent") /\ \E run \in Runs : ReserveAgent(run)
            \/ CommandsRow("human", "human") /\ \E v \in Viewers, seq \in Nat : ReserveInput(v, seq)
<1>1. CASE \E run \in Runs : ReserveAgent(run)
  <2>1. ~br.retired /\ br.mode = "agent" /\ br.cmd = None /\ br' = [br EXCEPT !.cmd = "agent"]
    BY <1>1 DEF ReserveAgent
  <2>2. br' \in BRows
    BY <2>1 DEF BRows
  <2>3. br.retired = FALSE
    BY <2>1 DEF BRows
  <2>4. CommandsRow("agent", "agent")
    BY <2>1, <2>2, <2>3 DEF CommandsRow, LeaseKept, GrantKept, KeepsCmd, BRows
  <2> QED
    BY <1>1, <2>2, <2>4
<1>2. CASE \E v \in Viewers, seq \in Nat : ReserveInput(v, seq)
  <2>1. PICK v \in Viewers, seq \in Nat : ReserveInput(v, seq)
    BY <1>2
  <2>2. ~br.retired /\ br.mode = "human" /\ br.cmd = None /\ br' = [br EXCEPT !.cmd = "human", !.seq = seq, !.receipt = "reserved"]
    BY <2>1 DEF ReserveInput, Leased
  <2>3. PICK x1 \in BRows : x1 = [br EXCEPT !.cmd = "human"]
    BY DEF BRows
  <2>4. PICK x2 \in BRows : x2 = [x1 EXCEPT !.seq = seq]
    BY DEF BRows
  <2>5. PICK x3 \in BRows : x3 = [x2 EXCEPT !.receipt = "reserved"]
    BY DEF BRows
  <2>6. br' = x3
    BY <2>2, <2>3, <2>4, <2>5 DEF BRows
  <2>7. /\ x3.rev = br.rev /\ x3.mode = br.mode /\ x3.lease = br.lease /\ x3.observe = br.observe /\ x3.lid = br.lid
        /\ x3.epoch = br.epoch /\ x3.cmd = "human" /\ x3.retired = br.retired
    BY <2>3, <2>4, <2>5 DEF BRows
  <2>8. br.retired = FALSE
    BY <2>2 DEF BRows
  <2>9. CommandsRow("human", "human")
    BY <2>2, <2>6, <2>7, <2>8 DEF CommandsRow, LeaseKept, GrantKept, KeepsCmd
  <2> QED
    BY <1>2, <2>6, <2>9
<1> QED
  BY <1>1, <1>2

\* An operation is completed.
LEMMA CompleteAgentMoves ==
  ASSUME br \in BRows, NEW run, NEW certain \in BOOLEAN, CompleteAgent(run, certain)
  PROVE  /\ br' \in BRows /\ br.cmd = "agent"
         /\ (certain /\ AnsweredRow("agent")) \/ (~certain /\ WithdrawnTo("recovering"))
<1>1. br.cmd = "agent"
  BY DEF CompleteAgent
<1>2. CASE certain
  <2>1. br' = [br EXCEPT !.cmd = None]
    BY <1>2 DEF CompleteAgent
  <2>2. br' \in BRows
    BY <2>1 DEF BRows
  <2> QED
    BY <1>1, <1>2, <2>1, <2>2 DEF AnsweredRow, LeaseKept, GrantKept, KeepsCmd, BRows
<1>3. CASE ~certain
  <2>1. Revise(Revoked("recovering")) /\ "recovering" \in Modes
    BY <1>3 DEF CompleteAgent, Modes
  <2> QED
    BY <1>1, <1>3, <2>1, WithdrawMoves
<1> QED
  BY <1>2, <1>3

\* An input is completed, or its outcome is unknown.
LEMMA CompleteInputMoves ==
  ASSUME br \in BRows, NEW outcome \in {"uncertain", "applied", "rejected"}, CompleteInput(outcome)
  PROVE  /\ br' \in BRows /\ br.cmd = "human"
         /\ (outcome # "uncertain" /\ AnsweredRow("human")) \/ (outcome = "uncertain" /\ WithdrawnTo("recovering"))
<1>1. br.cmd = "human"
  BY DEF CompleteInput
<1>2. CASE outcome # "uncertain"
  <2>1. br' = [br EXCEPT !.cmd = None, !.receipt = outcome]
    BY <1>2 DEF CompleteInput
  <2>2. PICK x1 \in BRows : x1 = [br EXCEPT !.cmd = None]
    BY DEF BRows
  <2>3. PICK x2 \in BRows : x2 = [x1 EXCEPT !.receipt = outcome]
    BY DEF BRows
  <2>4. br' = x2
    BY <2>1, <2>2, <2>3 DEF BRows
  <2>5. /\ x2.rev = br.rev /\ x2.mode = br.mode /\ x2.lease = br.lease /\ x2.observe = br.observe /\ x2.lid = br.lid
        /\ x2.epoch = br.epoch /\ x2.cmd = None /\ x2.retired = br.retired
    BY <2>2, <2>3 DEF BRows
  <2> QED
    BY <1>1, <1>2, <2>4, <2>5 DEF AnsweredRow, LeaseKept, GrantKept, KeepsCmd
<1>3. CASE outcome = "uncertain"
  <2>1. Revise([Revoked("recovering") EXCEPT !.receipt = "uncertain"]) /\ "recovering" \in Modes
    BY <1>3 DEF CompleteInput, Modes
  <2> QED
    BY <1>1, <1>3, <2>1, WithdrawReceiptMoves
<1> QED
  BY <1>2, <1>3

\* The owner asks for the browser.
LEMMA RequestMoves ==
  ASSUME br \in BRows, NEW v \in Viewers, RequestTakeover(v)
  PROVE  br' \in BRows /\ RequestsRow
<1>1. /\ ~br.retired /\ br.lease = None /\ br.mode \in {"agent", "paused"}
      /\ Revise([br EXCEPT !.mode = "takeover_pending", !.lease = v, !.lid = br.rev, !.seq = 0, !.epoch = 0])
  BY DEF RequestTakeover, Takeable
<1>2. PICK x1 \in BRows : x1 = [br EXCEPT !.mode = "takeover_pending"]
  BY DEF BRows, Modes
<1>3. PICK x2 \in BRows : x2 = [x1 EXCEPT !.lease = v]
  BY DEF BRows
<1>9. br.rev \in Nat
  BY DEF BRows
<1>4. PICK x3 \in BRows : x3 = [x2 EXCEPT !.lid = br.rev]
  BY <1>9 DEF BRows
<1>5. PICK x4 \in BRows : x4 = [x3 EXCEPT !.seq = 0]
  BY DEF BRows
<1>6. PICK x5 \in BRows : x5 = [x4 EXCEPT !.epoch = 0]
  BY DEF BRows
<1>7. x5 = [br EXCEPT !.mode = "takeover_pending", !.lease = v, !.lid = br.rev, !.seq = 0, !.epoch = 0]
  BY <1>2, <1>3, <1>4, <1>5, <1>6 DEF BRows
<1>8. /\ x5.rev = br.rev /\ x5.mode = "takeover_pending" /\ x5.lease = v /\ x5.observe = br.observe /\ x5.lid = br.rev
      /\ x5.cmd = br.cmd /\ x5.retired = br.retired
  BY <1>2, <1>3, <1>4, <1>5, <1>6 DEF BRows
<1>10. br.retired = FALSE /\ v # None
  BY <1>1 DEF BRows
<1> QED
  BY <1>1, <1>7, <1>8, <1>10, ReviseMoves DEF RequestsRow, RevisedRow, KeepsCmd

\* The browser is hers once the driver is fenced.
LEMMA ConfirmMoves ==
  ASSUME br \in BRows, NEW rev, ConfirmTakeover(rev)
  PROVE  br' \in BRows /\ ConfirmsRow
<1>1. br.mode = "takeover_pending" /\ br.cmd = None /\ Revise([br EXCEPT !.mode = "human"])
  BY DEF ConfirmTakeover, Confirmable
<1>2. PICK x \in BRows : x = [br EXCEPT !.mode = "human"]
  BY DEF BRows, Modes
<1>3. /\ x.rev = br.rev /\ x.mode = "human" /\ x.lease = br.lease /\ x.observe = br.observe /\ x.lid = br.lid /\ x.epoch = br.epoch
      /\ x.cmd = br.cmd /\ x.retired = br.retired
  BY <1>2 DEF BRows
<1> QED
  BY <1>1, <1>2, <1>3, ReviseMoves DEF ConfirmsRow, RevisedRow, LeaseKept, GrantKept, KeepsCmd

\* She shows the agent what she sees, or no longer: the grant has an epoch.
LEMMA ObservationMoves ==
  ASSUME br \in BRows, NEW v \in Viewers, NEW observe \in BOOLEAN, ObservationMode(v, observe)
  PROVE  br' \in BRows /\ ObservesRow
<1>1. ~br.retired /\ br.mode = "human" /\ br.observe # observe /\ Revise([br EXCEPT !.observe = observe, !.epoch = br.epoch + 1])
  BY DEF ObservationMode, Leased
<1>2. br.epoch + 1 \in Nat
  <2>1. br.epoch \in Nat
    BY DEF BRows
  <2> QED
    BY <2>1
<1>3. PICK x1 \in BRows : x1 = [br EXCEPT !.observe = observe]
  BY DEF BRows
<1>4. PICK x \in BRows : x = [x1 EXCEPT !.epoch = br.epoch + 1]
  BY <1>2 DEF BRows
<1>5. x = [br EXCEPT !.observe = observe, !.epoch = br.epoch + 1]
  BY <1>3, <1>4 DEF BRows
<1>6. /\ x.rev = br.rev /\ x.mode = br.mode /\ x.lease = br.lease /\ x.observe = observe /\ x.lid = br.lid /\ x.epoch = br.epoch + 1
      /\ x.cmd = br.cmd /\ x.retired = br.retired
  BY <1>3, <1>4 DEF BRows
<1>7. br.retired = FALSE
  BY <1>1 DEF BRows
<1> QED
  BY <1>1, <1>5, <1>6, <1>7, ReviseMoves DEF ObservesRow, RevisedRow, KeepsCmd

\* A stream is closed.
LEMMA CloseMoves ==
  ASSUME br \in BRows, NEW done, BeginClose(done)
  PROVE  br' \in BRows /\ ClosesRow
<1>1. ~br.retired /\ br.mode \in {"agent", "paused"} /\ br.cmd = None /\ Revise([br EXCEPT !.mode = "paused"])
  BY DEF BeginClose
<1>2. PICK x \in BRows : x = [br EXCEPT !.mode = "paused"]
  BY DEF BRows, Modes
<1>3. /\ x.rev = br.rev /\ x.mode = "paused" /\ x.lease = br.lease /\ x.observe = br.observe /\ x.lid = br.lid /\ x.epoch = br.epoch
      /\ x.cmd = br.cmd /\ x.retired = br.retired
  BY <1>2 DEF BRows
<1>4. br.retired = FALSE
  BY <1>1 DEF BRows
<1> QED
  BY <1>1, <1>2, <1>3, <1>4, ReviseMoves DEF ClosesRow, RevisedRow, LeaseKept, GrantKept, KeepsCmd

\* After a restart no lease is left, and a command under way is in doubt.
LEMMA RecoverMoves ==
  ASSUME br \in BRows, RecoverStartup
  PROVE  /\ br' \in BRows
         /\ \/ br' = br /\ (br.retired \/ (br.cmd = None /\ br.mode \in {"paused", "recovering"}))
            \/ ~br.retired /\ br.cmd # None /\ WithdrawnTo("recovering")
            \/ ~br.retired /\ br.cmd = None /\ br.mode # "recovering" /\ WithdrawnTo("paused")
<1>1. CASE br.retired \/ (br.cmd = None /\ br.mode \in {"paused", "recovering"})
  BY <1>1 DEF RecoverStartup, controlVars
<1>2. CASE ~(br.retired \/ (br.cmd = None /\ br.mode \in {"paused", "recovering"}))
  <2>1. PICK mode \in {"paused", "recovering"} : mode = IF br.cmd # None THEN "recovering" ELSE "paused"
    OBVIOUS
  <2>2. PICK told \in {None, "reserved", "applied", "rejected", "uncertain"} : told = Doubtful(Revoked(mode).receipt)
    <3>1. mode \in Modes
      BY DEF Modes
    <3>2. Revoked(mode).receipt = br.receipt
      BY <3>1, RevokedRow
    <3> QED
      BY <3>2 DEF Doubtful, BRows
  <2>3. Revise([Revoked(mode) EXCEPT !.receipt = told])
    BY <1>2, <2>1, <2>2 DEF RecoverStartup
  <2>4. br' \in BRows /\ WithdrawnTo(mode)
    BY <2>3, WithdrawReceiptMoves DEF Modes
  <2> QED
    BY <1>2, <2>1, <2>4
<1> QED
  BY <1>1, <1>2

\* A driver that is gone leaves a retired row.
LEMMA RetireMoves ==
  ASSUME br \in BRows, RetireBrowser
  PROVE  br' \in BRows /\ RetiresRow
<1>1. "paused" \in Modes
  BY DEF Modes
<1>2. PICK y \in BRows : /\ y = Revoked("paused") /\ y.rev = br.rev /\ y.mode = "paused" /\ y.lease = None /\ ~y.observe
                         /\ y.lid = br.lid /\ y.epoch = br.epoch /\ y.receipt = br.receipt
  BY <1>1, RevokedRow
<1>3. PICK told \in {None, "reserved", "applied", "rejected", "uncertain"} : told = Doubtful(y.receipt)
  BY DEF Doubtful, BRows
<1>4. PICK x1 \in BRows : x1 = [y EXCEPT !.run = None]
  BY DEF BRows
<1>5. PICK x2 \in BRows : x2 = [x1 EXCEPT !.cmd = None]
  BY DEF BRows
<1>6. PICK x3 \in BRows : x3 = [x2 EXCEPT !.receipt = told]
  BY ZenonT(40) DEF BRows
<1>7. PICK x4 \in BRows : x4 = [x3 EXCEPT !.retired = TRUE]
  BY DEF BRows
<1>8. x4 = [y EXCEPT !.run = None, !.cmd = None, !.receipt = told, !.retired = TRUE]
  BY <1>4, <1>5, <1>6, <1>7 DEF BRows
<1>9. /\ x4.rev = br.rev /\ x4.mode = "paused" /\ x4.lease = None /\ ~x4.observe /\ x4.lid = br.lid /\ x4.epoch = br.epoch
      /\ x4.cmd = None /\ x4.retired = TRUE
  BY <1>2, <1>4, <1>5, <1>6, <1>7 DEF BRows
<1>10. Revise(x4) /\ ~br.retired
  BY <1>2, <1>3, <1>8 DEF RetireBrowser
<1> QED
  BY <1>9, <1>10, ReviseMoves DEF RetiresRow, RevisedRow, LeaseGone, GrantKept, KeepsCmd

-----------------------------------------------------------------------------
(* What a move of the row keeps of the rest. *)
\* A move that leaves commands, and what recovers, as they are.
CalmMove ==
  \/ br' = br \/ (WithdrawnTo("paused") /\ br.mode # "recovering") \/ (WithdrawnTo("recovering") /\ br.cmd = "human")
  \/ RequestsRow \/ ConfirmsRow \/ ObservesRow \/ ClosesRow \/ AdmitsRow(handover)
RowMove ==
  \/ CalmMove \/ (WithdrawnTo("recovering") /\ br.cmd # None) \/ RetiresRow
  \/ BeginsRow("paused") \/ BeginsRow("agent") \/ CommandsRow("agent", "agent") \/ CommandsRow("human", "human")
  \/ AnsweredRow("agent") \/ AnsweredRow("human")

\* Every move keeps the row consistent.
LEMMA MovedRowKeeps ==
  ASSUME br \in BRows, BRowInv, br' \in BRows, RowMove
  PROVE  /\ BRowInv' /\ br'.rev >= br.rev
         /\ br'.rev = br.rev => br'.mode = br.mode /\ br'.retired = br.retired
         /\ br'.cmd = "agent" => br.cmd = "agent" \/ br.mode = "agent"
<1>1. br.rev \in Nat /\ br.lid \in Nat /\ br'.rev \in Nat /\ br'.lid \in Nat
  BY DEF BRows
<1>2. CASE br' = br
  BY <1>1, <1>2 DEF BRowInv
<1>3. CASE \E mode \in {"paused", "recovering"} : WithdrawnTo(mode)
  <2>1. PICK mode \in {"paused", "recovering"} : WithdrawnTo(mode)
    BY <1>3
  <2>2. /\ br'.rev = br.rev + 1 /\ br'.mode = mode /\ br'.lease = None /\ ~br'.observe /\ br'.lid = br.lid /\ br'.cmd = br.cmd
        /\ br'.retired = br.retired
    BY <2>1 DEF WithdrawnTo, RevisedRow, LeaseGone, GrantKept, KeepsCmd
  <2>3. br'.retired <=> br.retired
    BY <2>2
  <2>4. br.rev = 0 => br.retired
    BY DEF BRowInv
  <2>5. br'.lease # None <=> br'.mode \in {"takeover_pending", "human"}
    BY <2>1, <2>2
  <2>6. br'.lid < br'.rev
    BY <1>1, <2>2 DEF BRowInv
  <2>7. br'.retired => br'.cmd = None
    BY <2>2, <2>3 DEF BRowInv
  <2>8. BRowInv'
    BY <1>1, <2>2, <2>5, <2>6, <2>7 DEF BRowInv
  <2> QED
    BY <1>1, <2>2, <2>8
<1>4. CASE RequestsRow
  BY <1>1, <1>4 DEF BRowInv, RequestsRow, RevisedRow, KeepsCmd
<1>5. CASE ConfirmsRow
  BY <1>1, <1>5 DEF BRowInv, ConfirmsRow, RevisedRow, LeaseKept, GrantKept, KeepsCmd, None
<1>6. CASE ObservesRow
  BY <1>1, <1>6 DEF BRowInv, ObservesRow, RevisedRow, KeepsCmd
<1>7. CASE ClosesRow \/ AdmitsRow(handover)
  BY <1>1, <1>7 DEF BRowInv, ClosesRow, AdmitsRow, RevisedRow, LeaseKept, GrantKept, KeepsCmd, None
<1>8. CASE RetiresRow
  BY <1>1, <1>8 DEF BRowInv, RetiresRow, RevisedRow, LeaseGone, GrantKept, KeepsCmd, None
<1>9. CASE BeginsRow("paused") \/ BeginsRow("agent")
  BY <1>1, <1>9 DEF BRowInv, BeginsRow, RevisedRow, KeepsCmd, None
<1>10. CASE CommandsRow("agent", "agent") \/ CommandsRow("human", "human")
  <2>1. /\ br'.rev = br.rev /\ br'.mode = br.mode /\ br'.lease = br.lease /\ br'.observe = br.observe /\ br'.lid = br.lid
        /\ ~br.retired /\ br'.retired = FALSE /\ ~br'.retired /\ (br'.cmd = "agent" => br.mode = "agent")
    BY <1>10 DEF CommandsRow, LeaseKept, GrantKept, KeepsCmd
  <2>2. br.retired = FALSE
    BY <2>1 DEF BRows
  <2>3. br'.lease # None <=> br'.mode \in {"takeover_pending", "human"}
    BY <2>1 DEF BRowInv
  <2>4. br'.lid < br'.rev /\ br'.rev # 0
    BY <1>1, <2>1 DEF BRowInv
  <2>5. br'.observe => br'.mode = "human"
    BY <2>1 DEF BRowInv
  <2>6. ~br'.retired
    BY <2>1
  <2>7. BRowInv'
    BY <2>3, <2>4, <2>5, <2>6 DEF BRowInv
  <2>8. br'.rev >= br.rev /\ br'.mode = br.mode /\ (br'.cmd = "agent" => br.mode = "agent")
    BY <1>1, <2>1
  <2>9. br'.retired = br.retired
    BY <2>1, <2>2
  <2> QED
    BY <2>7, <2>8, <2>9
<1>11. CASE AnsweredRow("agent") \/ AnsweredRow("human")
  BY <1>1, <1>11 DEF BRowInv, AnsweredRow, LeaseKept, GrantKept, KeepsCmd, None
<1> QED
  BY <1>2, <1>3, <1>4, <1>5, <1>6, <1>7, <1>8, <1>9, <1>10, <1>11 DEF RowMove, CalmMove

EndsCounted == withdrawn' = withdrawn + (IF br.observe /\ (~br'.observe \/ br'.lease # br.lease) THEN 1 ELSE 0)
\* What ended is counted, and a grant that ended is not given again.
LEMMA WatchKeeps ==
  ASSUME br \in BRows, BRowInv, br' \in BRows, RowMove, WatchInv, EndsCounted, withdrawn \in Nat, watched' = watched
  PROVE  WatchInv' /\ withdrawn' \in Nat
<1>1. br.rev \in Nat /\ br.lid \in Nat /\ br.epoch \in Nat /\ br'.rev \in Nat /\ br'.lid \in Nat /\ br'.epoch \in Nat
  BY DEF BRows
<1>2. withdrawn' \in Nat
  BY DEF EndsCounted
<1>3. watched \in Watches /\ watched.lid \in Nat /\ watched.epoch \in Nat
  BY DEF WatchInv, Watches
<1>4. ASSUME GoneGrant PROVE GoneGrant'
  <2>1. CASE br' = br
    BY <1>4, <2>1 DEF GoneGrant
  <2>2. CASE \E mode \in {"paused", "recovering"} : WithdrawnTo(mode)
    BY <1>1, <1>3, <1>4, <2>2 DEF GoneGrant, WithdrawnTo, RevisedRow, LeaseGone, GrantKept, KeepsCmd
  <2>3. CASE RequestsRow
    BY <1>1, <1>3, <1>4, <2>3 DEF GoneGrant, RequestsRow, RevisedRow
  <2>4. CASE ConfirmsRow
    BY <1>1, <1>3, <1>4, <2>4 DEF GoneGrant, ConfirmsRow, RevisedRow, LeaseKept, GrantKept
  <2>5. CASE ObservesRow
    BY <1>1, <1>3, <1>4, <2>5 DEF GoneGrant, ObservesRow, RevisedRow, BRowInv, None
  <2>6. CASE ClosesRow \/ AdmitsRow(handover)
    <3>1. br'.rev = br.rev + 1 /\ br'.lease = br.lease /\ br'.lid = br.lid /\ br'.epoch = br.epoch
      BY <2>6 DEF ClosesRow, AdmitsRow, RevisedRow, LeaseKept, GrantKept
    <3> QED
      BY <1>1, <1>3, <1>4, <3>1 DEF GoneGrant
  <2>7. CASE RetiresRow
    BY <1>1, <1>3, <1>4, <2>7 DEF GoneGrant, RetiresRow, RevisedRow, LeaseGone, GrantKept
  <2>8. CASE BeginsRow("paused") \/ BeginsRow("agent")
    <3>1. br'.rev = br.rev + 1 /\ br'.lease = None
      BY <2>8 DEF BeginsRow, RevisedRow
    <3> QED
      BY <1>1, <1>3, <1>4, <3>1 DEF GoneGrant
  <2>9. CASE CommandsRow("agent", "agent") \/ CommandsRow("human", "human") \/ AnsweredRow("agent") \/ AnsweredRow("human")
    BY <1>1, <1>3, <1>4, <2>9 DEF GoneGrant, CommandsRow, AnsweredRow, LeaseKept, GrantKept
  <2> QED
    BY <2>1, <2>2, <2>3, <2>4, <2>5, <2>6, <2>7, <2>8, <2>9 DEF RowMove, CalmMove
<1>5. ASSUME LiveGrant PROVE (LiveGrant' /\ withdrawn' = withdrawn) \/ GoneGrant'
  <2>1. CASE br' = br
    <3>1. LiveGrant'
      BY <1>5, <2>1 DEF LiveGrant
    <3>2. withdrawn' = withdrawn
      BY <2>1 DEF EndsCounted
    <3> QED
      BY <3>1, <3>2
  <2>2. CASE \E mode \in {"paused", "recovering"} : WithdrawnTo(mode)
    BY <1>1, <1>3, <1>5, <2>2 DEF LiveGrant, GoneGrant, WithdrawnTo, RevisedRow, LeaseGone, GrantKept, KeepsCmd
  <2>3. CASE RequestsRow \/ ConfirmsRow
    BY <1>1, <1>3, <1>5, <2>3 DEF LiveGrant, RequestsRow, ConfirmsRow, BRowInv
  <2>4. CASE ObservesRow
    BY <1>1, <1>3, <1>5, <2>4 DEF LiveGrant, GoneGrant, ObservesRow, RevisedRow
  <2>5. CASE ClosesRow \/ AdmitsRow(handover)
    BY <1>1, <1>3, <1>5, <2>5 DEF LiveGrant, ClosesRow, AdmitsRow, BRowInv
  <2>6. CASE RetiresRow
    BY <1>1, <1>3, <1>5, <2>6 DEF LiveGrant, GoneGrant, RetiresRow, RevisedRow, LeaseGone, GrantKept
  <2>7. CASE BeginsRow("paused") \/ BeginsRow("agent")
    BY <1>5, <2>7 DEF LiveGrant, BeginsRow, BRowInv
  <2>8. CASE CommandsRow("agent", "agent") \/ CommandsRow("human", "human") \/ AnsweredRow("agent") \/ AnsweredRow("human")
    <3>1. br'.rev = br.rev /\ LeaseKept
      BY <2>8 DEF CommandsRow, AnsweredRow
    <3>2. LiveGrant'
      BY <1>5, <3>1 DEF LiveGrant, LeaseKept, GrantKept
    <3>3. withdrawn' = withdrawn
      BY <3>1 DEF EndsCounted, LeaseKept
    <3> QED
      BY <3>2, <3>3
  <2> QED
    BY <2>1, <2>2, <2>3, <2>4, <2>5, <2>6, <2>7, <2>8 DEF RowMove, CalmMove
<1>6. CASE watched.pc = "captured" /\ LiveGrant /\ watched.ends = withdrawn
  BY <1>2, <1>3, <1>5, <1>6 DEF WatchInv
<1>7. CASE watched.pc = "captured" /\ GoneGrant
  BY <1>2, <1>3, <1>4, <1>7 DEF WatchInv
<1>8. CASE watched.pc # "captured"
  BY <1>2, <1>3, <1>8 DEF WatchInv
<1> QED
  BY <1>6, <1>7, <1>8 DEF WatchInv

-----------------------------------------------------------------------------
(* The channel of the driver. *)
\* A command that is submitted is the last in line, and the only new one.
LEMMA SubmitAdds ==
  ASSUME line \in Seq(Lined), NEW k \in Lined, Submit(k)
  PROVE  line' \in Seq(Lined) /\ native = "up" /\ \A x \in Lined : Waiting(x)' => Waiting(x) \/ x = k
<1>1. line' = Append(line, k) /\ native = "up"
  BY DEF Submit
<1>2. line' \in Seq(Lined) /\ Len(line') = Len(line) + 1 /\ Len(line) \in Nat
  BY <1>1
<1>3. ASSUME NEW x \in Lined, NEW i \in 1..Len(line'), line'[i] = x PROVE Waiting(x) \/ x = k
  <2>1. CASE i = Len(line) + 1
    BY <1>1, <1>3, <2>1
  <2>2. CASE i # Len(line) + 1
    <3>1. i \in 1..Len(line)
      BY <1>2, <2>2
    <3>2. line[i] = x
      BY <1>1, <1>3, <3>1
    <3> QED
      BY <3>1, <3>2 DEF Waiting
  <2> QED
    BY <2>1, <2>2
<1>4. \A x \in Lined : Waiting(x)' => Waiting(x) \/ x = k
  BY <1>3 DEF Waiting
<1> QED
  BY <1>1, <1>2, <1>4

\* A command that is done leaves the line.
LEMMA ExecuteTakes ==
  ASSUME line \in Seq(Lined), line # <<>>, line' = Tail(line)
  PROVE  line' \in Seq(Lined) /\ \A x \in Lined : Waiting(x)' => Waiting(x)
<1>1. line' \in Seq(Lined) /\ Len(line') = Len(line) - 1 /\ Len(line) \in Nat
  OBVIOUS
<1>2. ASSUME NEW x \in Lined, NEW i \in 1..Len(line'), line'[i] = x PROVE Waiting(x)
  <2>1. i + 1 \in 1..Len(line)
    BY <1>1
  <2>2. line[i + 1] = x
    BY <1>1, <1>2
  <2> QED
    BY <2>1, <2>2 DEF Waiting
<1>3. \A x \in Lined : Waiting(x)' => Waiting(x)
  BY <1>2 DEF Waiting
<1> QED
  BY <1>1, <1>3

\* An empty channel has nothing to wait for.
LEMMA EmptyLine ==
  ASSUME line' = <<>>
  PROVE  line' \in Seq(Lined) /\ \A x \in Lined : ~Waiting(x)'
<1>1. Len(line') = 0
  OBVIOUS
<1>2. \A x \in Lined : ~Waiting(x)'
  BY <1>1 DEF Waiting
<1> QED
  BY <1>2

NoNewWait == /\ line' \in Seq(Lined) /\ (line' # <<>> => native' = "up")
             /\ (Waiting("agent")' => Waiting("agent")) /\ (Waiting("login")' => Waiting("login"))
\* Nothing else is in the channel.
LEMMA LineKept ==
  ASSUME line \in Seq(Lined), line # <<>> => native = "up", line' = line, native' = native
  PROVE  NoNewWait
<1>1. (Waiting("agent")' => Waiting("agent")) /\ (Waiting("login")' => Waiting("login"))
  BY DEF Waiting
<1> QED
  BY <1>1 DEF NoNewWait

\* A command that is nobody's input joins the line.
LEMMA LineGrows ==
  ASSUME line \in Seq(Lined), NEW k \in Lined \ {"agent", "login"}, Submit(k), native' = native
  PROVE  NoNewWait
<1>1. "agent" \in Lined /\ "login" \in Lined
  BY DEF Lined
<1> QED
  BY <1>1, SubmitAdds DEF NoNewWait

-----------------------------------------------------------------------------
(* A step that begins and ends no command. *)
\* What a calm move leaves as it is.
LEMMA CalmFacts ==
  ASSUME br \in BRows, BRowInv, CalmMove
  PROVE  /\ br'.cmd = br.cmd /\ (br'.retired <=> br.retired)
         /\ br.mode = "recovering" => br'.mode = "recovering"
         /\ br'.mode = "recovering" => br.mode = "recovering" \/ br.cmd = "human"
<1>1. CASE br' = br
  BY <1>1
<1>2. CASE WithdrawnTo("paused") /\ br.mode # "recovering"
  BY <1>2 DEF WithdrawnTo, KeepsCmd
<1>3. CASE WithdrawnTo("recovering") /\ br.cmd = "human"
  BY <1>3 DEF WithdrawnTo, KeepsCmd
<1>4. CASE RequestsRow
  BY <1>4 DEF RequestsRow, KeepsCmd
<1>5. CASE ConfirmsRow
  BY <1>5 DEF ConfirmsRow, KeepsCmd
<1>6. CASE ObservesRow
  BY <1>6 DEF ObservesRow, KeepsCmd
<1>7. CASE ClosesRow
  BY <1>7 DEF ClosesRow, KeepsCmd
<1>8. CASE AdmitsRow(handover)
  BY <1>8 DEF AdmitsRow, KeepsCmd
<1> QED
  BY <1>1, <1>2, <1>3, <1>4, <1>5, <1>6, <1>7, <1>8 DEF CalmMove

\* Who waits for what stays right.
LEMMA LineFrame ==
  ASSUME br \in BRows, BRowInv, BLineInv, CalmMove, NoNewWait, native' = native, agent' = agent, login' = login
  PROVE  BLineInv'
<1>1. /\ br'.cmd = br.cmd /\ (br'.retired <=> br.retired) /\ (br.mode = "recovering" => br'.mode = "recovering")
      /\ (br'.mode = "recovering" => br.mode = "recovering" \/ br.cmd = "human")
  BY CalmFacts
<1>2. (line # <<>>)' => native' = "up"
  BY DEF NoNewWait
<1>3. native' = "none" <=> br'.retired
  BY <1>1 DEF BLineInv
<1>4. Waiting("agent")' => br'.cmd = "agent" /\ (agent' = "sent" \/ br'.mode = "recovering")
  BY <1>1 DEF NoNewWait, BLineInv
<1>5. Waiting("login")' => br'.cmd = "human" /\ login'.pc # "reserved"
  BY <1>1 DEF NoNewWait, BLineInv
<1>6. agent' # "idle" => br'.retired \/ (br'.cmd = "agent" /\ br'.mode # "recovering")
  BY <1>1 DEF BLineInv
<1>7. login'.pc # "idle" => br'.retired \/ br'.cmd = "human"
  BY <1>1 DEF BLineInv
<1> QED
  BY <1>2, <1>3, <1>4, <1>5, <1>6, <1>7 DEF BLineInv

\* Nothing is pressed that was not, and no revision is taken twice.
LEMMA HandsFrame ==
  ASSUME BrowserInv, br' \in BRows, RowMove, BRowInv', Pressed' => Pressed, handover' \in {handover, 0},
         br'.mode = "agent" => br.mode = "agent" \/ ~Pressed'
  PROVE  HandsInv' /\ handover' \in Nat
<1>1. br \in BRows /\ BRowInv /\ HandsInv /\ handover \in Nat
  BY DEF BrowserInv, BrowserTypes
<1>2. /\ br'.rev >= br.rev /\ br.rev \in Nat /\ br'.rev \in Nat
      /\ br'.rev = br.rev => br'.mode = br.mode /\ br'.retired = br.retired
      /\ br'.cmd = "agent" => br.cmd = "agent" \/ br.mode = "agent"
  BY <1>1, MovedRowKeeps DEF BRows
<1>3. Pressed' => br'.mode # "agent" /\ br'.cmd # "agent"
  BY <1>1, <1>2 DEF HandsInv
<1>4. handover' \in Nat /\ handover' <= br'.rev
  BY <1>1, <1>2 DEF HandsInv
<1>5. handover' = br'.rev /\ ~br'.retired => br'.mode = "paused" /\ ~Pressed'
  <2> SUFFICES ASSUME handover' = br'.rev, ~br'.retired PROVE br'.mode = "paused" /\ ~Pressed'
    OBVIOUS
  <2>1. br'.rev # 0
    BY DEF BRowInv
  <2>2. handover' = handover /\ handover = br.rev /\ br'.rev = br.rev
    BY <1>1, <1>2, <2>1 DEF HandsInv
  <2>3. ~br.retired
    BY <1>2, <2>2
  <2> QED
    BY <1>1, <1>2, <2>2, <2>3 DEF HandsInv
<1> QED
  BY <1>3, <1>4, <1>5 DEF HandsInv

\* A transition that goes on is the one that was begun.
LEMMA TrFrame ==
  ASSUME BrowserInv, br' \in BRows, RowMove, Pressed' => Pressed, tr' = tr
  PROVE  TrInv'
<1>1. br \in BRows /\ BRowInv /\ TrInv
  BY DEF BrowserInv, BrowserTypes
<1>2. /\ br'.rev >= br.rev /\ br.rev \in Nat /\ br'.rev \in Nat
      /\ br'.rev = br.rev => br'.mode = br.mode /\ br'.retired = br.retired
  BY <1>1, MovedRowKeeps DEF BRows
<1>3. tr' \in Trs /\ tr'.rev \in Nat /\ tr'.rev <= br'.rev /\ (tr'.op = "move" => tr'.v \in Viewers)
  BY <1>1, <1>2 DEF TrInv, Trs
<1>4. tr'.pc \in {"observe", "observed"} => tr'.op = "return"
  BY <1>1 DEF TrInv
<1>5. Returning' /\ tr'.rev = br'.rev /\ ~br'.retired => br'.mode = "paused" /\ (tr'.pc # "drain" => ~Pressed')
  <2> SUFFICES ASSUME Returning', tr'.rev = br'.rev, ~br'.retired PROVE br'.mode = "paused" /\ (tr'.pc # "drain" => ~Pressed')
    OBVIOUS
  <2>1. tr.rev = br.rev /\ br'.rev = br.rev
    BY <1>1, <1>2 DEF TrInv
  <2>2. Returning /\ ~br.retired
    BY <1>2, <2>1 DEF Returning
  <2> QED
    BY <1>1, <1>2, <2>1, <2>2 DEF TrInv
<1> QED
  BY <1>3, <1>4, <1>5 DEF TrInv

CalmStep == /\ br' \in BRows /\ CalmMove /\ NoNewWait /\ EndsCounted
            /\ UNCHANGED <<native, agent, login, watched>> /\ handover' \in {handover, 0} /\ (Pressed' => Pressed)
            /\ (br'.mode = "agent" => br.mode = "agent" \/ ~Pressed')
\* A step that begins and ends no command keeps the invariant, with the locks
\* it takes and gives.
LEMMA CalmKeeps ==
  ASSUME BrowserInv, CalmStep, tr' = tr \/ TrInv', BInputInv'
  PROVE  BrowserInv' /\ RowMove
<1>1. br \in BRows /\ BRowInv /\ BLineInv /\ WatchInv /\ withdrawn \in Nat
  BY DEF BrowserInv, BrowserTypes
<1>2. RowMove /\ br' \in BRows
  BY DEF RowMove, CalmStep
<1>3. BRowInv'
  BY <1>1, <1>2, MovedRowKeeps
<1>4. BLineInv'
  BY <1>1, LineFrame DEF CalmStep
<1>5. HandsInv' /\ handover' \in Nat
  BY <1>2, <1>3, HandsFrame DEF CalmStep
<1>6. TrInv'
  BY <1>2, TrFrame DEF CalmStep
<1>7. WatchInv' /\ withdrawn' \in Nat
  BY <1>1, <1>2, WatchKeeps DEF CalmStep
<1>8. login' \in Logins
  BY DEF BrowserInv, BrowserTypes, CalmStep
<1>9. BrowserTypes'
  BY <1>2, <1>5, <1>7, <1>8 DEF BrowserTypes, CalmStep, NoNewWait
<1> QED
  BY <1>2, <1>3, <1>4, <1>5, <1>6, <1>7, <1>9 DEF BrowserInv

-----------------------------------------------------------------------------
(* Steps that leave the row alone. *)
\* A step of a lock or of the channel.
LEMMA QuietKeeps ==
  ASSUME BrowserInv, EndsCounted, br' = br, NoNewWait, UNCHANGED <<native, agent, login, watched>>, handover' \in {handover, 0},
         Pressed' => Pressed, tr' = tr \/ TrInv', BInputInv'
  PROVE  BrowserInv' /\ RowMove
<1>1. br' \in BRows
  BY DEF BrowserInv, BrowserTypes
<1>2. CalmMove
  BY DEF CalmMove
<1>3. br'.mode = "agent" => br.mode = "agent" \/ ~Pressed'
  OBVIOUS
<1>4. CalmStep
  BY <1>1, <1>2, <1>3 DEF CalmStep
<1> QED
  BY <1>4, CalmKeeps

\* The agent's run, a page that was read, the driver at work, the root hold.
LEMMA QuietSteps ==
  ASSUME BrowserInv, EndsCounted, RunEnds \/ PageRead \/ Execute \/ ReadPage \/ Ends(ToggleHold) \/ (\E v \in Viewers : Heartbeat(v))
  PROVE  BrowserInv' /\ RowMove
<1>1. /\ br' = br /\ native' = native /\ agent' = agent /\ login' = login /\ watched' = watched /\ handover' = handover
      /\ event' = event /\ keys' = keys /\ input' = input /\ tr' = tr /\ stream' = stream
  <2>1. CASE RunEnds
    BY <2>1 DEF RunEnds, controlVars, handleVars, streamVars, callVars
  <2>2. CASE PageRead
    BY <2>2 DEF PageRead, controlVars, handleVars, streamVars, callVars
  <2>3. CASE Execute
    BY <2>3 DEF Execute, controlVars, handleVars, agentVars, streamVars, callVars
  <2>4. CASE ReadPage
    BY <2>4 DEF ReadPage, controlVars, handleVars, streamVars, callVars
  <2>5. CASE Ends(ToggleHold)
    BY <2>5 DEF Ends, ToggleHold, handleVars, agentVars, streamVars, callVars
  <2>6. CASE \E v \in Viewers : Heartbeat(v)
    BY <2>6 DEF Heartbeat, controlVars, handleVars, agentVars, streamVars, callVars
  <2> QED
    BY <2>1, <2>2, <2>3, <2>4, <2>5, <2>6
<1>2. line \in Seq(Lined) /\ (line # <<>> => native = "up")
  BY DEF BrowserInv, BrowserTypes, BLineInv
<1>3. NoNewWait
  <2>1. CASE RunEnds \/ PageRead \/ Ends(ToggleHold)
    <3>1. line' = line
      BY <2>1 DEF RunEnds, PageRead, Ends
    <3> QED
      BY <1>1, <1>2, <3>1, LineKept
  <2>2. CASE Execute
    <3>1. line # <<>> /\ line' = Tail(line)
      BY <2>2 DEF Execute
    <3>2. "agent" \in Lined /\ "login" \in Lined
      BY DEF Lined
    <3> QED
      BY <1>1, <1>2, <3>1, <3>2, ExecuteTakes DEF NoNewWait
  <2>3. CASE ReadPage
    <3>1. Submit("page") /\ "page" \in Lined \ {"agent", "login"}
      BY <2>3 DEF ReadPage, Lined
    <3> QED
      BY <1>1, <1>2, <3>1, LineGrows
  <2>4. CASE \E v \in Viewers : Heartbeat(v)
    <3>1. Submit("probe") /\ "probe" \in Lined \ {"agent", "login"}
      BY <2>4 DEF Heartbeat, ProbeDriver, Lined
    <3> QED
      BY <1>1, <1>2, <3>1, LineGrows
  <2> QED
    BY <2>1, <2>2, <2>3, <2>4
<1>4. BInputInv'
  BY <1>1 DEF BrowserInv, BInputInv
<1>5. Pressed' => Pressed
  BY <1>1 DEF Pressed
<1> QED
  BY <1>1, <1>3, <1>4, <1>5, QuietKeeps

\* A stream begins and ends; an input of the owner ends.
LEMMA StreamSteps ==
  ASSUME BrowserInv, EndsCounted, Ensure \/ Cleanup \/ (\E down \in BOOLEAN : EndEvent(down))
  PROVE  BrowserInv' /\ RowMove
<1>1. /\ br' = br /\ native' = native /\ line' = line /\ agent' = agent /\ login' = login /\ watched' = watched /\ tr' = tr
  BY DEF Ensure, Cleanup, EndEvent, controlVars, handleVars, agentVars, callVars
<1>2. NoNewWait
  BY <1>1, LineKept DEF BrowserInv, BrowserTypes, BLineInv
<1>3. BInputInv
  BY DEF BrowserInv
<1>4. CASE Ensure
  <2>1. /\ stream = "none" /\ stream' = "up" /\ handover' = 0 /\ event' = event /\ keys' = keys /\ input' = input
    BY <1>4 DEF Ensure
  <2>2. BInputInv'
    BY <1>1, <1>3, <2>1 DEF BInputInv
  <2>3. Pressed' => Pressed
    BY <2>1 DEF Pressed
  <2> QED
    BY <1>1, <1>2, <2>1, <2>2, <2>3, QuietKeeps
<1>5. CASE Cleanup
  <2>1. /\ input = "free" /\ stream' = "none" /\ keys' = FALSE /\ handover' = handover /\ event' = event /\ input' = input
    BY <1>5 DEF Cleanup
  <2>2. ~event /\ login.pc = "idle"
    BY <1>3, <2>1 DEF BInputInv
  <2>3. BInputInv'
    BY <1>1, <1>3, <2>1, <2>2 DEF BInputInv
  <2>4. Pressed' => Pressed
    BY <2>1 DEF Pressed
  <2> QED
    BY <1>1, <1>2, <2>1, <2>3, <2>4, QuietKeeps
<1>6. CASE \E down \in BOOLEAN : EndEvent(down)
  <2>1. /\ event /\ event' = FALSE /\ input' = "free" /\ stream' = stream /\ handover' = handover
    BY <1>6 DEF EndEvent
  <2>2. BInputInv'
    BY <1>1, <1>3, <2>1 DEF BInputInv
  <2>3. Pressed
    BY <2>1 DEF Pressed
  <2> QED
    BY <1>1, <1>2, <2>1, <2>2, <2>3, QuietKeeps
<1> QED
  BY <1>4, <1>5, <1>6

\* A transition goes on: its fence, its observation, the check of a hand-back.
LEMMA FenceSteps ==
  ASSUME BrowserInv, EndsCounted, SettleTakeover \/ Fence \/ Observe \/ (\E v \in Viewers : Handback(v))
  PROVE  BrowserInv' /\ RowMove
<1>1. /\ br' = br /\ native' = native /\ agent' = agent /\ login' = login /\ watched' = watched /\ handover' = handover
      /\ event' = event /\ keys' = keys /\ stream' = stream
  BY DEF SettleTakeover, Fence, Observe, Handback, controlVars, handleVars, agentVars, callVars
<1>2. line \in Seq(Lined) /\ (line # <<>> => native = "up")
  BY DEF BrowserInv, BrowserTypes, BLineInv
<1>3. BInputInv /\ TrInv /\ tr \in Trs /\ br.rev \in Nat
  BY DEF BrowserInv, BrowserTypes, BRows, TrInv
<1>4. Pressed' => Pressed
  BY <1>1 DEF Pressed
<1>5. CASE SettleTakeover
  <2>1. /\ tr.pc = "free" /\ tr'.pc \in {"drain", "fence"} /\ tr'.op = "grant" /\ tr'.rev = br.rev /\ input' = input /\ line' = line
    BY <1>5 DEF SettleTakeover, Free, GrantFrom, Go
  <2>2. tr' \in Trs
    <3>1. br.lease \in Viewers \cup {None}
      BY DEF BrowserInv, BrowserTypes, BRows
    <3> QED
      BY <1>3, <1>5, <3>1 DEF SettleTakeover, GrantFrom, Go, Trs
  <2>3. TrInv' /\ BInputInv'
    BY <1>1, <1>3, <2>1, <2>2 DEF TrInv, BInputInv, Returning
  <2>4. NoNewWait
    BY <1>1, <1>2, <2>1, LineKept
  <2> QED
    BY <1>1, <1>4, <2>3, <2>4, QuietKeeps
<1>6. CASE Fence
  <2>1. tr.pc = "fence" /\ input' = input
    BY <1>6 DEF Fence
  <2>2. CASE Submit("fence") /\ tr' = [tr EXCEPT !.pc = "fenced"]
    <3>1. NoNewWait
      BY <1>1, <1>2, <2>2, LineGrows DEF Lined
    <3>2. tr' \in Trs /\ tr'.rev = tr.rev /\ tr'.op = tr.op /\ tr'.v = tr.v /\ tr'.pc = "fenced"
      BY <1>3, <2>2 DEF Trs
    <3>3. TrInv' /\ BInputInv'
      BY <1>1, <1>3, <2>1, <3>2 DEF TrInv, BInputInv, Returning
    <3> QED
      BY <1>1, <1>4, <3>1, <3>3, QuietKeeps
  <2>3. CASE tr' = FreeTr /\ line' = line
    <3>1. TrInv' /\ BInputInv'
      BY <1>1, <1>3, <2>1, <2>3 DEF TrInv, BInputInv, Returning, FreeTr, Trs, None
    <3>2. NoNewWait
      BY <1>1, <1>2, <2>3, LineKept
    <3> QED
      BY <1>1, <1>4, <3>1, <3>2, QuietKeeps
  <2> QED
    BY <1>6, <2>2, <2>3 DEF Fence, Abort, Fail
<1>7. CASE Observe
  <2>1. tr.pc = "observe" /\ input' = input
    BY <1>7 DEF Observe
  <2>2. CASE Submit("snapshot") /\ tr' = [tr EXCEPT !.pc = "observed"]
    <3>1. NoNewWait
      BY <1>1, <1>2, <2>2, LineGrows DEF Lined
    <3>2. tr' \in Trs /\ tr'.rev = tr.rev /\ tr'.op = tr.op /\ tr'.v = tr.v /\ tr'.pc = "observed"
      BY <1>3, <2>2 DEF Trs
    <3>3. TrInv' /\ BInputInv'
      BY <1>1, <1>3, <1>4, <2>1, <3>2 DEF TrInv, BInputInv, Returning
    <3> QED
      BY <1>1, <1>4, <3>1, <3>3, QuietKeeps
  <2>3. CASE tr' = FreeTr /\ line' = line
    <3>1. TrInv' /\ BInputInv'
      BY <1>1, <1>3, <2>1, <2>3 DEF TrInv, BInputInv, Returning, FreeTr, Trs, None
    <3>2. NoNewWait
      BY <1>1, <1>2, <2>3, LineKept
    <3> QED
      BY <1>1, <1>4, <3>1, <3>2, QuietKeeps
  <2> QED
    BY <1>7, <2>2, <2>3 DEF Observe, Fail
<1>8. CASE \E v \in Viewers : Handback(v)
  <2>1. PICK v \in Viewers : Handback(v)
    BY <1>8
  <2>2. /\ tr.pc = "free" /\ input = "free" /\ input' = "return" /\ line' = line
        /\ tr' = [pc |-> "clear", op |-> "return", v |-> v, rev |-> br.rev]
    BY <2>1 DEF Handback, Free, Go
  <2>3. TrInv' /\ BInputInv'
    BY <1>1, <1>3, <2>2 DEF TrInv, BInputInv, Returning, Trs
  <2>4. NoNewWait
    BY <1>1, <1>2, <2>2, LineKept
  <2> QED
    BY <1>1, <1>4, <2>3, <2>4, QuietKeeps
<1> QED
  BY <1>5, <1>6, <1>7, <1>8

-----------------------------------------------------------------------------
(* Steps that move the row and leave the commands alone. *)
\* An authority is withdrawn: the owner pauses, the lease lapses.
LEMMA PauseKeeps ==
  ASSUME BrowserInv, EndsCounted, Ends(LeaseLapses) \/ (\E v \in Viewers : PauseOwner(v))
  PROVE  BrowserInv' /\ RowMove
<1>1. /\ native' = native /\ line' = line /\ agent' = agent /\ login' = login /\ watched' = watched /\ tr' = tr /\ handover' = handover
      /\ event' = event /\ keys' = keys /\ input' = input /\ stream' = stream
  BY DEF Ends, PauseOwner, handleVars, agentVars, streamVars, callVars
<1>2. NoNewWait
  BY <1>1, LineKept DEF BrowserInv, BrowserTypes, BLineInv
<1>3. br \in BRows /\ BRowInv
  BY DEF BrowserInv, BrowserTypes
<1>4. br' \in BRows /\ CalmMove /\ br'.mode # "agent"
  <2>1. br.lease # None
    BY DEF Ends, LeaseLapses, PauseOwner, Pause
  <2>2. br.mode # "recovering"
    BY <1>3, <2>1 DEF BRowInv
  <2>3. CASE Ends(LeaseLapses) /\ br.cmd = "human"
    <3>1. Revise(Revoked("recovering")) /\ "recovering" \in Modes
      BY <2>3 DEF Ends, LeaseLapses, Modes
    <3>2. br' \in BRows /\ WithdrawnTo("recovering")
      BY <1>3, <3>1, WithdrawMoves
    <3> QED
      BY <2>3, <3>2 DEF CalmMove, WithdrawnTo
  <2>4. CASE ~(Ends(LeaseLapses) /\ br.cmd = "human")
    <3>1. Revise(Revoked("paused")) /\ "paused" \in Modes
      BY <2>4 DEF Ends, LeaseLapses, PauseOwner, Pause, Modes
    <3>2. br' \in BRows /\ WithdrawnTo("paused")
      BY <1>3, <3>1, WithdrawMoves
    <3> QED
      BY <2>2, <3>2 DEF CalmMove, WithdrawnTo
  <2> QED
    BY <2>3, <2>4
<1>5. BInputInv'
  BY <1>1 DEF BrowserInv, BInputInv
<1>6. CalmStep
  BY <1>1, <1>2, <1>4 DEF CalmStep, Pressed
<1> QED
  BY <1>1, <1>5, <1>6, CalmKeeps

\* The owner shows the agent what she sees, or no longer.
LEMMA VisibilityKeeps ==
  ASSUME BrowserInv, EndsCounted, NEW v \in Viewers, NEW observe \in BOOLEAN, Visibility(v, observe)
  PROVE  BrowserInv' /\ RowMove
<1>1. /\ native' = native /\ line' = line /\ agent' = agent /\ login' = login /\ watched' = watched /\ tr' = tr /\ handover' = handover
      /\ event' = event /\ keys' = keys /\ input' = input /\ stream' = stream
  BY DEF Visibility, handleVars, agentVars, streamVars, callVars
<1>2. NoNewWait
  BY <1>1, LineKept DEF BrowserInv, BrowserTypes, BLineInv
<1>3. br' \in BRows /\ ObservesRow
  BY ObservationMoves DEF Visibility, BrowserInv, BrowserTypes
<1>4. CalmMove /\ br'.mode # "agent"
  BY <1>3 DEF CalmMove, ObservesRow
<1>5. BInputInv'
  BY <1>1 DEF BrowserInv, BInputInv
<1>6. CalmStep
  BY <1>1, <1>2, <1>3, <1>4 DEF CalmStep, Pressed
<1> QED
  BY <1>1, <1>5, <1>6, CalmKeeps

\* A run is admitted: to a browser the agent holds, or on the proof of a
\* drained hand-back.
LEMMA AdmitKeeps ==
  ASSUME BrowserInv, EndsCounted, NEW run \in Runs, Admit(run)
  PROVE  BrowserInv' /\ RowMove
<1>1. /\ native' = native /\ line' = line /\ agent' = agent /\ login' = login /\ watched' = watched /\ tr' = tr /\ handover' = 0
      /\ event' = event /\ keys' = keys /\ input' = input /\ stream' = stream
  BY DEF Admit, handleVars, callVars
<1>2. NoNewWait
  BY <1>1, LineKept DEF BrowserInv, BrowserTypes, BLineInv
<1>3. br' \in BRows /\ AdmitsRow(handover)
  BY AdmitMoves DEF Admit, BrowserInv, BrowserTypes
<1>4. CalmMove
  BY <1>3 DEF CalmMove
<1>5. br.mode = "agent" \/ ~Pressed
  <2>1. ~br.retired /\ (br.mode = "agent" \/ handover = br.rev)
    BY <1>3 DEF AdmitsRow
  <2> QED
    BY <2>1 DEF BrowserInv, HandsInv
<1>6. (Pressed' => Pressed) /\ (br.mode = "agent" \/ ~Pressed')
  BY <1>1, <1>5 DEF Pressed
<1>7. BInputInv'
  BY <1>1 DEF BrowserInv, BInputInv
<1>8. CalmStep
  BY <1>1, <1>2, <1>3, <1>4, <1>6 DEF CalmStep
<1> QED
  BY <1>1, <1>7, <1>8, CalmKeeps

\* The owner takes the browser.
LEMMA TakeKeeps ==
  ASSUME BrowserInv, EndsCounted, NEW v \in Viewers, Take(v)
  PROVE  BrowserInv' /\ RowMove
<1>1. /\ native' = native /\ line' = line /\ agent' = agent /\ login' = login /\ watched' = watched /\ handover' = handover
      /\ event' = event /\ keys' = keys /\ input' = input /\ stream' = stream
  BY DEF Take, handleVars, agentVars, callVars
<1>2. NoNewWait
  BY <1>1, LineKept DEF BrowserInv, BrowserTypes, BLineInv
<1>3. br' \in BRows /\ RequestsRow
  BY RequestMoves DEF Take, BrowserInv, BrowserTypes
<1>4. CalmMove /\ br'.mode # "agent"
  BY <1>3 DEF CalmMove, RequestsRow
<1>5. br'.rev \in Nat /\ BInputInv /\ tr.pc = "free"
  BY <1>3 DEF BRows, BrowserInv, Take, Free
<1>6. tr' = tr \/ (tr' \in Trs /\ tr'.pc \in {"drain", "fence"} /\ tr'.op = "grant" /\ tr'.rev = br'.rev)
  BY <1>5 DEF Take, GrantFrom, Go, Trs
<1>7. tr' = tr \/ TrInv'
  BY <1>5, <1>6 DEF TrInv, Returning
<1>8. BInputInv'
  BY <1>1, <1>5, <1>6 DEF BInputInv
<1>9. CalmStep
  BY <1>1, <1>2, <1>3, <1>4 DEF CalmStep, Pressed
<1> QED
  BY <1>7, <1>8, <1>9, CalmKeeps

\* Another tab takes it; what is no longer authorised is closed.
LEMMA TabMoveKeeps ==
  ASSUME BrowserInv, EndsCounted, (\E v \in Viewers : Move(v)) \/ (\E gone \in BOOLEAN : Reconcile(gone))
  PROVE  BrowserInv' /\ RowMove
<1>1. /\ native' = native /\ line' = line /\ agent' = agent /\ login' = login /\ watched' = watched /\ handover' = handover
      /\ event' = event /\ keys' = keys /\ input' = input /\ stream' = stream
  BY DEF Move, Reconcile, handleVars, agentVars, callVars
<1>2. NoNewWait
  BY <1>1, LineKept DEF BrowserInv, BrowserTypes, BLineInv
<1>3. br' \in BRows /\ CalmMove /\ (br' = br \/ br'.mode = "paused")
  <2>1. br \in BRows
    BY DEF BrowserInv, BrowserTypes
  <2>2. br' = br \/ (br.mode = "human" /\ Revise(Revoked("paused")))
    BY DEF Move, Reconcile, Pause, controlVars
  <2>3. CASE br' = br
    BY <2>1, <2>3 DEF CalmMove
  <2>4. CASE br.mode = "human" /\ Revise(Revoked("paused"))
    <3>1. br' \in BRows /\ WithdrawnTo("paused")
      BY <2>1, <2>4, WithdrawMoves DEF Modes
    <3> QED
      BY <2>4, <3>1 DEF CalmMove, WithdrawnTo
  <2> QED
    BY <2>2, <2>3, <2>4
<1>4. br'.rev \in Nat /\ BInputInv /\ tr.pc = "free"
  BY <1>3 DEF BRows, BrowserInv, Move, Reconcile, Free
<1>5. /\ tr' \in Trs /\ tr'.pc = "drain" /\ tr'.op \in {"move", "close"} /\ tr'.rev \in {br'.rev, 0}
      /\ tr'.op = "move" => tr'.v \in Viewers
  BY <1>4 DEF Move, Reconcile, Go, Trs
<1>6. TrInv'
  BY <1>4, <1>5 DEF TrInv, Returning
<1>7. BInputInv'
  BY <1>1, <1>4, <1>5 DEF BInputInv
<1>8. CalmStep
  BY <1>1, <1>2, <1>3 DEF CalmStep, Pressed
<1> QED
  BY <1>6, <1>7, <1>8, CalmKeeps

\* A stream is told to stop: by the owner, or because its driver is gone.
LEMMA CloseKeeps ==
  ASSUME BrowserInv, EndsCounted, Close \/ WatchFails
  PROVE  BrowserInv' /\ RowMove
<1>1. /\ native' = native /\ agent' = agent /\ login' = login /\ watched' = watched /\ tr' = tr /\ handover' = handover
      /\ event' = event /\ keys' = keys /\ input' = input /\ stream' = "stopping"
  BY DEF Close, WatchFails, handleVars, agentVars, callVars
<1>2. NoNewWait
  <2>1. line \in Seq(Lined) /\ (line # <<>> => native = "up")
    BY DEF BrowserInv, BrowserTypes, BLineInv
  <2>2. CASE Close
    <3>1. Submit("close") /\ "close" \in Lined \ {"agent", "login"}
      BY <2>2 DEF Close, Lined
    <3> QED
      BY <1>1, <2>1, <3>1, LineGrows
  <2>3. CASE WatchFails
    <3>1. line' = line
      BY <2>3 DEF WatchFails
    <3> QED
      BY <1>1, <2>1, <3>1, LineKept
  <2> QED
    BY <2>2, <2>3
<1>3. br' \in BRows /\ CalmMove /\ (br' = br \/ br'.mode = "paused")
  <2>1. br \in BRows /\ BRowInv
    BY DEF BrowserInv, BrowserTypes
  <2>2. \/ br' = br \/ (br.mode # "recovering" /\ Revise(Revoked("paused"))) \/ BeginClose(ended)
    <3>1. CASE Close
      BY <3>1 DEF Close, BeginReturn, Leased
    <3>2. CASE WatchFails /\ br.lease # None
      <4>1. br.mode # "recovering"
        BY <2>1, <3>2 DEF BRowInv
      <4> QED
        BY <3>2, <4>1 DEF WatchFails, Pause
    <3>3. CASE WatchFails /\ br.lease = None
      BY <3>3 DEF WatchFails, controlVars
    <3> QED
      BY <3>1, <3>2, <3>3
  <2>3. CASE br' = br
    BY <2>1, <2>3 DEF CalmMove
  <2>4. CASE br.mode # "recovering" /\ Revise(Revoked("paused"))
    <3>1. br' \in BRows /\ WithdrawnTo("paused")
      BY <2>1, <2>4, WithdrawMoves DEF Modes
    <3> QED
      BY <2>4, <3>1 DEF CalmMove, WithdrawnTo
  <2>5. CASE BeginClose(ended)
    <3>1. br' \in BRows /\ ClosesRow
      BY <2>1, <2>5, CloseMoves
    <3> QED
      BY <3>1 DEF CalmMove, ClosesRow
  <2> QED
    BY <2>2, <2>3, <2>4, <2>5
<1>4. BInputInv'
  BY <1>1 DEF BrowserInv, BInputInv
<1>5. CalmStep
  BY <1>1, <1>2, <1>3 DEF CalmStep, Pressed
<1> QED
  BY <1>1, <1>4, <1>5, CalmKeeps

\* What was left pressed is released, or the browser is refused for good.
LEMMA DrainKeeps ==
  ASSUME BrowserInv, EndsCounted, NEW ok \in BOOLEAN, Drain(ok)
  PROVE  BrowserInv' /\ RowMove
<1>1. /\ native' = native /\ line' = line /\ agent' = agent /\ login' = login /\ watched' = watched /\ handover' = handover
      /\ event' = event /\ input' = input /\ stream' = stream /\ tr.pc = "drain" /\ input = "free"
  BY DEF Drain, handleVars, agentVars, callVars
<1>2. NoNewWait
  BY <1>1, LineKept DEF BrowserInv, BrowserTypes, BLineInv
<1>3. /\ br \in BRows /\ br.rev \in Nat /\ BInputInv /\ TrInv /\ ~event /\ tr \in Trs
  BY <1>1 DEF BrowserInv, BrowserTypes, BInputInv, BRows, TrInv
<1>4. CASE ~ok
  <2>1. tr' = FreeTr /\ br' = br /\ keys' = keys
    BY <1>4 DEF Drain, Fail, controlVars
  <2>2. TrInv' /\ BInputInv'
    BY <1>1, <1>3, <2>1 DEF TrInv, BInputInv, Returning, FreeTr, Trs, None
  <2>3. Pressed' => Pressed
    BY <1>1, <2>1 DEF Pressed
  <2> QED
    BY <1>1, <1>2, <2>1, <2>2, <2>3, QuietKeeps
<1>5. CASE ok
  <2>1. keys' = FALSE /\ ~Pressed'
    BY <1>1, <1>3, <1>5 DEF Drain, Released, Pressed
  <2>2. CASE tr.op = "move" /\ br.rev = tr.rev /\ Takeable
    <3>1. tr.v \in Viewers
      BY <1>3, <2>2 DEF TrInv
    <3>2. RequestTakeover(tr.v) /\ tr' = [pc |-> "fence", op |-> "move", v |-> tr.v, rev |-> br'.rev]
      BY <1>5, <2>2 DEF Drain, Go
    <3>3. br' \in BRows /\ RequestsRow
      BY <1>3, <3>1, <3>2, RequestMoves
    <3>4. CalmMove /\ br'.mode # "agent" /\ br'.rev \in Nat
      BY <3>3 DEF CalmMove, RequestsRow, BRows
    <3>5. TrInv' /\ BInputInv'
      BY <1>1, <1>3, <2>1, <3>1, <3>2, <3>4 DEF TrInv, BInputInv, Returning, Trs
    <3>6. CalmStep
      BY <1>1, <1>2, <2>1, <3>3, <3>4 DEF CalmStep
    <3> QED
      BY <3>5, <3>6, CalmKeeps
  <2>3. CASE ~(tr.op = "move" /\ br.rev = tr.rev /\ Takeable)
    <3>1. br' = br
      BY <1>5, <2>3 DEF Drain, controlVars
    <3>2. tr' \in Trs /\ tr'.pc # "clear" /\ tr'.pc # "observed" /\ tr'.rev <= br.rev
      /\ (tr'.op = "move" => tr'.v \in Viewers) /\ (tr'.pc = "observe" => tr'.op = "return")
      /\ (tr' = FreeTr \/ (tr'.op = tr.op /\ tr'.rev = tr.rev /\ tr'.pc \in {"fence", "observe"}))
      <4>1. CASE tr' = FreeTr
        BY <1>3, <4>1 DEF FreeTr, Trs, None
      <4>2. CASE tr' = [tr EXCEPT !.pc = "fence"] /\ tr.op = "grant"
        BY <1>3, <4>2 DEF Trs, TrInv
      <4>3. CASE tr' = [tr EXCEPT !.pc = "observe"] /\ tr.op = "return"
        BY <1>3, <4>3 DEF Trs, TrInv
      <4> QED
        BY <1>5, <2>3, <4>1, <4>2, <4>3 DEF Drain, Fail
    <3>3. TrInv' /\ BInputInv'
      <4>1. Returning' /\ tr'.rev = br'.rev /\ ~br'.retired => br'.mode = "paused"
        BY <1>1, <1>3, <3>1, <3>2 DEF TrInv, Returning, FreeTr, None
      <4> QED
        BY <1>1, <1>3, <2>1, <3>1, <3>2, <4>1 DEF TrInv, BInputInv
    <3> QED
      BY <1>1, <1>2, <2>1, <3>1, <3>3, QuietKeeps
  <2> QED
    BY <2>2, <2>3
<1> QED
  BY <1>4, <1>5

\* The new token is given, or the fenced transition is given up.
LEMMA GrantKeeps ==
  ASSUME BrowserInv, EndsCounted, NEW published \in BOOLEAN, Grant(published)
  PROVE  BrowserInv' /\ RowMove
<1>1. /\ native' = native /\ line' = line /\ agent' = agent /\ login' = login /\ watched' = watched /\ handover' = handover
      /\ event' = event /\ keys' = keys /\ input' = input /\ stream' = stream /\ tr.pc = "fenced"
  BY DEF Grant, handleVars, agentVars, callVars
<1>2. NoNewWait
  BY <1>1, LineKept DEF BrowserInv, BrowserTypes, BLineInv
<1>3. br \in BRows /\ BInputInv
  BY DEF BrowserInv, BrowserTypes
<1>4. tr' = FreeTr
  BY DEF Grant, Fail, Abort
<1>5. br' \in BRows /\ CalmMove /\ (br'.mode = "agent" => br.mode = "agent")
  <2>1. CASE ConfirmTakeover(tr.rev)
    <3>1. br' \in BRows /\ ConfirmsRow
      BY <1>3, <2>1, ConfirmMoves
    <3> QED
      BY <3>1 DEF CalmMove, ConfirmsRow
  <2>2. CASE Confirmable(tr.rev) /\ Revise(Revoked("paused"))
    <3>1. br' \in BRows /\ WithdrawnTo("paused")
      BY <1>3, <2>2, WithdrawMoves DEF Modes
    <3> QED
      BY <2>2, <3>1 DEF CalmMove, WithdrawnTo, Confirmable
  <2>3. CASE br' = br
    BY <1>3, <2>3 DEF CalmMove
  <2> QED
    BY <2>1, <2>2, <2>3 DEF Grant, controlVars
<1>6. br'.rev \in Nat
  BY <1>5 DEF BRows
<1>7. TrInv' /\ BInputInv'
  BY <1>1, <1>3, <1>4, <1>6 DEF TrInv, BInputInv, Returning, FreeTr, Trs, None
<1>8. CalmStep
  BY <1>1, <1>2, <1>5 DEF CalmStep, Pressed
<1> QED
  BY <1>7, <1>8, CalmKeeps

\* A hand-back that is clean is drained next.
LEMMA ClearKeeps ==
  ASSUME BrowserInv, EndsCounted, NEW clean \in BOOLEAN, Clear(clean)
  PROVE  BrowserInv' /\ RowMove
<1>1. /\ native' = native /\ line' = line /\ agent' = agent /\ login' = login /\ watched' = watched /\ handover' = handover
      /\ event' = event /\ keys' = keys /\ input' = "free" /\ stream' = stream /\ tr.pc = "clear"
  BY DEF Clear, handleVars, agentVars, callVars
<1>2. NoNewWait
  BY <1>1, LineKept DEF BrowserInv, BrowserTypes, BLineInv
<1>3. br \in BRows /\ br.rev \in Nat /\ BInputInv /\ input = "return" /\ tr \in Trs
  BY <1>1 DEF BrowserInv, BrowserTypes, BInputInv, BRows, TrInv
<1>4. CASE BeginReturn(tr.v) /\ tr' = [pc |-> "drain", op |-> "return", v |-> tr.v, rev |-> br'.rev]
  <2>1. br.mode = "human" /\ Revise(Revoked("paused"))
    BY <1>4 DEF BeginReturn, Leased
  <2>2. br' \in BRows /\ WithdrawnTo("paused")
    BY <1>3, <2>1, WithdrawMoves DEF Modes
  <2>3. CalmMove /\ br'.mode = "paused" /\ br'.rev \in Nat
    BY <2>1, <2>2 DEF CalmMove, WithdrawnTo, BRows
  <2>4. tr' \in Trs
    BY <1>3, <1>4, <2>3 DEF Trs
  <2>5. TrInv' /\ BInputInv'
    BY <1>1, <1>3, <1>4, <2>3, <2>4 DEF TrInv, BInputInv
  <2>6. CalmStep
    BY <1>1, <1>2, <2>2, <2>3 DEF CalmStep, Pressed
  <2> QED
    BY <2>5, <2>6, CalmKeeps
<1>5. CASE br' = br /\ tr' = FreeTr
  <2>1. TrInv' /\ BInputInv'
    BY <1>1, <1>3, <1>5 DEF TrInv, BInputInv, Returning, FreeTr, Trs, None
  <2>2. Pressed' => Pressed
    BY <1>1 DEF Pressed
  <2> QED
    BY <1>1, <1>2, <1>5, <2>1, <2>2, QuietKeeps
<1> QED
  BY <1>4, <1>5 DEF Clear, Go, controlVars

-----------------------------------------------------------------------------
(* Hands of the owner and the proof of her hand-back. *)
\* A step of the hands alone.
LEMMA HandsKeep ==
  ASSUME BrowserInv, EndsCounted, br' = br, NoNewWait, UNCHANGED <<native, agent, login, watched>>,
         HandsInv', TrInv', BInputInv', handover' \in Nat
  PROVE  BrowserInv' /\ RowMove
<1>1. br \in BRows /\ BRowInv /\ BLineInv /\ WatchInv /\ withdrawn \in Nat /\ login \in Logins
  BY DEF BrowserInv, BrowserTypes
<1>2. RowMove /\ CalmMove /\ br' \in BRows
  BY <1>1 DEF RowMove, CalmMove
<1>3. BRowInv'
  BY <1>1, <1>2, MovedRowKeeps
<1>4. BLineInv'
  BY <1>1, <1>2, LineFrame
<1>5. WatchInv' /\ withdrawn' \in Nat
  BY <1>1, <1>2, WatchKeeps
<1>6. BrowserTypes'
  BY <1>1, <1>2, <1>5 DEF BrowserTypes, NoNewWait
<1> QED
  BY <1>2, <1>3, <1>4, <1>5, <1>6 DEF BrowserInv

\* The owner presses: the lease is hers, no command is under way.
LEMMA PressKeeps ==
  ASSUME BrowserInv, EndsCounted, BeginEvent
  PROVE  BrowserInv' /\ RowMove
<1>1. /\ br' = br /\ native' = native /\ line' = line /\ agent' = agent /\ login' = login /\ watched' = watched /\ handover' = handover
      /\ keys' = keys /\ event' = TRUE /\ input = "free" /\ input' = "event" /\ stream = "up" /\ stream' = stream /\ tr' = tr
  BY DEF BeginEvent, controlVars, handleVars, agentVars, callVars
<1>2. br.mode = "human" /\ br.cmd = None
  BY DEF BeginEvent, Authorized, Leased
<1>3. NoNewWait
  BY <1>1, LineKept DEF BrowserInv, BrowserTypes, BLineInv
<1>4. BInputInv'
  BY <1>1 DEF BrowserInv, BInputInv
<1>5. HandsInv' /\ handover' \in Nat
  BY <1>1, <1>2 DEF BrowserInv, BrowserTypes, HandsInv, None
<1>6. TrInv'
  BY <1>1, <1>2 DEF BrowserInv, TrInv, Returning
<1> QED
  BY <1>1, <1>3, <1>4, <1>5, <1>6, HandsKeep

\* A hand-back that was drained and observed is the proof of its revision.
LEMMA ResumeKeeps ==
  ASSUME BrowserInv, EndsCounted, Resume
  PROVE  BrowserInv' /\ RowMove
<1>1. /\ br' = br /\ native' = native /\ line' = line /\ agent' = agent /\ login' = login /\ watched' = watched
      /\ keys' = keys /\ event' = event /\ input' = input /\ stream' = stream /\ tr.pc = "observed" /\ tr' = FreeTr
      /\ handover' \in {handover, tr.rev}
  BY DEF Resume, Fail, controlVars, handleVars, agentVars, callVars
<1>2. NoNewWait
  BY <1>1, LineKept DEF BrowserInv, BrowserTypes, BLineInv
<1>3. BInputInv'
  BY <1>1 DEF BrowserInv, BInputInv, FreeTr
<1>4. /\ TrInv /\ HandsInv /\ tr.rev \in Nat /\ handover \in Nat /\ br.rev \in Nat /\ Returning
  BY <1>1 DEF BrowserInv, BrowserTypes, TrInv, Trs, BRows, Returning
<1>5. Pressed' <=> Pressed
  BY <1>1 DEF Pressed
<1>6. HandsInv' /\ handover' \in Nat
  BY <1>1, <1>4, <1>5 DEF HandsInv, TrInv
<1>7. TrInv'
  BY <1>1, <1>4 DEF TrInv, Returning, FreeTr, Trs, None
<1> QED
  BY <1>1, <1>2, <1>3, <1>6, <1>7, HandsKeep

-----------------------------------------------------------------------------
(* The driver, the agent's commands and the owner's logins. *)
\* A step that presses nothing, with what it does to the channel.
LEMMA BrowserCommandKeeps ==
  ASSUME BrowserInv, EndsCounted, br' \in BRows, RowMove, BLineInv', BInputInv', line' \in Seq(Lined), login' \in Logins,
         Pressed' => Pressed, handover' \in {handover, 0}, tr' \in {tr, FreeTr}, watched' = watched \/ WatchInv',
         br'.mode = "agent" => br.mode = "agent" \/ ~Pressed'
  PROVE  BrowserInv' /\ RowMove
<1>1. br \in BRows /\ BRowInv /\ WatchInv /\ withdrawn \in Nat
  BY DEF BrowserInv, BrowserTypes
<1>2. BRowInv'
  BY <1>1, MovedRowKeeps
<1>3. WatchInv' /\ withdrawn' \in Nat
  <2>1. withdrawn' \in Nat
    BY <1>1 DEF EndsCounted
  <2> QED
    BY <1>1, <2>1, WatchKeeps
<1>4. HandsInv' /\ handover' \in Nat
  BY <1>2, HandsFrame
<1>5. TrInv'
  <2>1. CASE tr' = tr
    BY <2>1, TrFrame
  <2>2. CASE tr' = FreeTr
    <3>1. br'.rev \in Nat
      BY DEF BRows
    <3> QED
      BY <2>2, <3>1 DEF TrInv, Returning, FreeTr, Trs, None
  <2> QED
    BY <2>1, <2>2
<1>6. BrowserTypes'
  BY <1>3, <1>4 DEF BrowserTypes
<1> QED
  BY <1>2, <1>3, <1>4, <1>5, <1>6 DEF BrowserInv

\* The driver is gone, and found to be gone.
LEMMA DriverKeeps ==
  ASSUME BrowserInv, EndsCounted, DriverExits \/ CurrentOwned
  PROVE  BrowserInv' /\ RowMove
<1>1. /\ line' = <<>> /\ agent' = agent /\ login' = login /\ watched' = watched /\ tr' = tr /\ handover' = handover
      /\ event' = event /\ keys' = keys /\ input' = input /\ stream' = stream
  BY DEF DriverExits, CurrentOwned, agentVars, streamVars, callVars
<1>2. /\ br \in BRows /\ BRowInv /\ BLineInv /\ login \in Logins
  BY DEF BrowserInv, BrowserTypes
<1>3. line' \in Seq(Lined) /\ ~Waiting("agent")' /\ ~Waiting("login")'
  <2>1. "agent" \in Lined /\ "login" \in Lined
    BY DEF Lined
  <2> QED
    BY <1>1, <2>1, EmptyLine
<1>4. BInputInv'
  BY <1>1 DEF BrowserInv, BInputInv
<1>5. CASE DriverExits
  <2>1. br' = br /\ native = "up" /\ native' = "gone"
    BY <1>5 DEF DriverExits, controlVars
  <2>2. BLineInv'
    BY <1>1, <1>2, <1>3, <2>1 DEF BLineInv
  <2>3. RowMove /\ br' \in BRows
    BY <1>2, <2>1 DEF RowMove, CalmMove
  <2> QED
    BY <1>1, <1>2, <1>3, <1>4, <2>1, <2>2, <2>3, BrowserCommandKeeps DEF Pressed
<1>6. CASE CurrentOwned
  <2>1. native' = "none" /\ br' \in BRows /\ RetiresRow
    BY <1>2, <1>6, RetireMoves DEF CurrentOwned
  <2>2. br'.retired /\ br'.mode = "paused" /\ RowMove
    BY <2>1 DEF RetiresRow, KeepsCmd, RowMove
  <2>3. BLineInv'
    BY <1>1, <1>3, <2>1, <2>2 DEF BLineInv
  <2> QED
    BY <1>1, <1>2, <1>3, <1>4, <2>1, <2>2, <2>3, BrowserCommandKeeps DEF Pressed
<1> QED
  BY <1>5, <1>6

\* A browser is launched where none is.
LEMMA BrowserLaunchKeeps ==
  ASSUME BrowserInv, EndsCounted, NEW run \in Runs \cup {None}, Launch(run)
  PROVE  BrowserInv' /\ RowMove
<1>1. /\ line' = <<>> /\ agent' = agent /\ agent = "idle" /\ login' = login /\ watched' = watched /\ tr' = tr /\ handover' = 0
      /\ event' = event /\ keys' = keys /\ input' = input /\ stream = "none" /\ stream' = "up" /\ native' = "up"
  BY DEF Launch, callVars
<1>2. /\ br \in BRows /\ BRowInv /\ BLineInv /\ BInputInv /\ login \in Logins
  BY DEF BrowserInv, BrowserTypes
<1>3. line' \in Seq(Lined) /\ ~Waiting("agent")' /\ ~Waiting("login")'
  <2>1. "agent" \in Lined /\ "login" \in Lined
    BY DEF Lined
  <2> QED
    BY <1>1, <2>1, EmptyLine
<1>4. ~event /\ ~keys /\ login.pc = "idle"
  BY <1>1, <1>2 DEF BInputInv
<1>5. BInputInv'
  BY <1>1, <1>2 DEF BInputInv
<1>6. br' \in BRows /\ \E mode \in {"paused", "agent"} : BeginsRow(mode)
  BY <1>2, BindMoves DEF Launch
<1>7. RowMove /\ ~br'.retired
  BY <1>6 DEF RowMove, BeginsRow, KeepsCmd
<1>8. BLineInv'
  BY <1>1, <1>3, <1>4, <1>7 DEF BLineInv
<1>9. ~Pressed'
  BY <1>1, <1>4 DEF Pressed
<1> QED
  BY <1>1, <1>2, <1>3, <1>5, <1>6, <1>7, <1>8, <1>9, BrowserCommandKeeps

\* The gateway dies, with the driver or without it: what was under way is in doubt.
LEMMA CrashKeeps ==
  ASSUME BrowserInv, EndsCounted, NEW dies \in BOOLEAN, Crash(dies)
  PROVE  BrowserInv' /\ RowMove
<1>1. /\ agent' = "idle" /\ login' = NoLogin /\ watched' = NoWatch /\ tr' = FreeTr /\ handover' = 0 /\ native = "up"
      /\ event' = FALSE /\ keys' = FALSE /\ input' = "free" /\ stream' = "none"
      /\ (line' = <<>> /\ native' = "gone") \/ (line' = line /\ native' = "up")
  BY DEF Crash
<1>2. /\ br \in BRows /\ BRowInv /\ BLineInv /\ line \in Seq(Lined)
  BY DEF BrowserInv, BrowserTypes
<1>3. ~br.retired
  BY <1>1, <1>2 DEF BLineInv
<1>4. /\ br' \in BRows
      /\ \/ br' = br /\ br.cmd = None /\ br.mode \in {"paused", "recovering"}
         \/ br.cmd # None /\ WithdrawnTo("recovering")
         \/ br.cmd = None /\ br.mode # "recovering" /\ WithdrawnTo("paused")
  BY <1>2, <1>3, RecoverMoves DEF Crash
<1>5. RowMove /\ ~br'.retired /\ br'.mode # "agent"
  BY <1>3, <1>4 DEF RowMove, CalmMove, WithdrawnTo, KeepsCmd
<1>6. line' \in Seq(Lined) /\ (Waiting("agent")' => Waiting("agent")) /\ (Waiting("login")' => Waiting("login"))
  <2>1. "agent" \in Lined /\ "login" \in Lined
    BY DEF Lined
  <2>2. CASE line' = <<>>
    BY <2>1, <2>2, EmptyLine
  <2>3. CASE line' = line
    BY <1>2, <2>3 DEF Waiting
  <2> QED
    BY <1>1, <2>2, <2>3
<1>7. Waiting("agent")' => br'.cmd = "agent" /\ br'.mode = "recovering"
  <2> SUFFICES ASSUME Waiting("agent") PROVE br'.cmd = "agent" /\ br'.mode = "recovering"
    BY <1>6
  <2>1. br.cmd = "agent" /\ br.cmd # None
    BY <1>2 DEF BLineInv, None
  <2> QED
    BY <1>4, <2>1 DEF WithdrawnTo, KeepsCmd
<1>8. Waiting("login")' => br'.cmd = "human"
  <2> SUFFICES ASSUME Waiting("login") PROVE br'.cmd = "human"
    BY <1>6
  <2>1. br.cmd = "human" /\ br.cmd # None
    BY <1>2 DEF BLineInv, None
  <2> QED
    BY <1>4, <2>1 DEF WithdrawnTo, KeepsCmd
<1>9. BLineInv'
  BY <1>1, <1>5, <1>7, <1>8 DEF BLineInv, NoLogin
<1>10. BInputInv' /\ ~Pressed' /\ WatchInv' /\ login' \in Logins
  <2>1. withdrawn' \in Nat
    BY DEF EndsCounted, BrowserInv, BrowserTypes
  <2> QED
    BY <1>1, <2>1 DEF BInputInv, Pressed, WatchInv, NoLogin, NoWatch, FreeTr, Logins, Watches, None
<1> QED
  BY <1>1, <1>4, <1>5, <1>6, <1>9, <1>10, BrowserCommandKeeps

\* The agent's operation begins.
LEMMA AgentBeginKeeps ==
  ASSUME BrowserInv, EndsCounted, NEW run \in Runs, AgentBegin(run)
  PROVE  BrowserInv' /\ RowMove
<1>1. /\ agent' = "reserved" /\ native' = native /\ line' = line /\ login' = login /\ watched' = watched /\ tr' = tr
      /\ event' = event /\ keys' = keys /\ input' = input /\ stream' = stream /\ handover' = handover
  BY DEF AgentBegin, handleVars, streamVars, callVars
<1>2. /\ br \in BRows /\ BRowInv /\ BLineInv /\ HandsInv /\ line \in Seq(Lined) /\ login \in Logins
  BY DEF BrowserInv, BrowserTypes
<1>3. br' \in BRows /\ CommandsRow("agent", "agent")
  <2>1. ReserveAgent(run)
    BY DEF AgentBegin, BeginOperation
  <2>2. br.mode = "agent"
    BY <2>1 DEF ReserveAgent
  <2>3. ~\E v \in Viewers, seq \in Nat : ReserveInput(v, seq)
    BY <2>2 DEF ReserveInput, Leased
  <2> QED
    BY <1>2, <2>1, <2>3, ReserveMoves
<1>4. /\ br.cmd = None /\ ~br.retired /\ br'.cmd = "agent" /\ br'.mode = "agent" /\ br.mode = "agent" /\ ~br'.retired /\ RowMove
  BY <1>3 DEF CommandsRow, KeepsCmd, RowMove
<1>5. ~Waiting("agent") /\ ~Waiting("login") /\ login.pc = "idle"
  BY <1>2, <1>4 DEF BLineInv, None
<1>6. ~Waiting("agent")' /\ ~Waiting("login")'
  BY <1>1, <1>5 DEF Waiting
<1>7. BLineInv'
  BY <1>1, <1>2, <1>4, <1>5, <1>6 DEF BLineInv
<1>8. BInputInv'
  BY <1>1 DEF BrowserInv, BInputInv
<1> QED
  BY <1>1, <1>2, <1>3, <1>4, <1>7, <1>8, BrowserCommandKeeps DEF Pressed

\* Its command enters the channel.
LEMMA AgentCommandKeeps ==
  ASSUME BrowserInv, EndsCounted, AgentCommand
  PROVE  BrowserInv' /\ RowMove
<1>1. /\ agent = "reserved" /\ agent' = "sent" /\ native' = native /\ login' = login /\ watched' = watched /\ tr' = tr /\ br' = br
      /\ event' = event /\ keys' = keys /\ input' = input /\ stream' = stream /\ handover' = handover /\ Submit("agent")
  BY DEF AgentCommand, controlVars, handleVars, streamVars, callVars
<1>2. /\ br \in BRows /\ BLineInv /\ line \in Seq(Lined) /\ login \in Logins
  BY DEF BrowserInv, BrowserTypes
<1>3. line' \in Seq(Lined) /\ native = "up" /\ (Waiting("login")' => Waiting("login"))
  <2>1. "agent" \in Lined /\ "login" \in Lined
    BY DEF Lined
  <2> QED
    BY <1>1, <1>2, <2>1, SubmitAdds
<1>4. br.cmd = "agent" /\ br.mode # "recovering"
  BY <1>1, <1>2, <1>3 DEF BLineInv
<1>5. BLineInv'
  BY <1>1, <1>2, <1>3, <1>4 DEF BLineInv
<1>6. BInputInv'
  BY <1>1 DEF BrowserInv, BInputInv
<1>7. RowMove /\ br' \in BRows
  BY <1>1, <1>2 DEF RowMove, CalmMove
<1> QED
  BY <1>1, <1>2, <1>3, <1>5, <1>6, <1>7, BrowserCommandKeeps DEF Pressed

\* It ends: answered, refused, or given up with the command left behind.
LEMMA AgentEndKeeps ==
  ASSUME BrowserInv, EndsCounted, AgentEnd
  PROVE  BrowserInv' /\ RowMove
<1>1. /\ agent \in {"reserved", "sent"} /\ agent' = "idle" /\ native' = native /\ line' = line /\ login' = login /\ watched' = watched
      /\ event' = event /\ keys' = keys /\ input' = input /\ stream' = stream /\ handover' = handover /\ tr' = tr
  BY DEF AgentEnd, handleVars, streamVars, callVars
<1>2. /\ br \in BRows /\ BRowInv /\ BLineInv /\ line \in Seq(Lined) /\ login \in Logins
  BY DEF BrowserInv, BrowserTypes
<1>3. BInputInv'
  BY <1>1 DEF BrowserInv, BInputInv
<1>4. (Waiting("agent")' <=> Waiting("agent")) /\ (Waiting("login")' <=> Waiting("login"))
  BY <1>1 DEF Waiting
<1>5. CASE br.cmd = "agent"
  <2>1. PICK certain \in BOOLEAN : certain <=> (agent = "reserved" \/ (~Waiting("agent") /\ native = "up"))
    OBVIOUS
  <2>2. CompleteAgent(br.run, certain)
    BY <1>5, <2>1 DEF AgentEnd, CompleteAgent
  <2>3. ~br.retired /\ br.mode # "recovering" /\ login.pc = "idle" /\ ~Waiting("login") /\ native # "none"
    BY <1>1, <1>2, <1>5 DEF BRowInv, BLineInv, None
  <2>4. br' \in BRows /\ ((certain /\ AnsweredRow("agent")) \/ (~certain /\ WithdrawnTo("recovering")))
    BY <1>2, <2>2, CompleteAgentMoves
  <2>5. RowMove /\ ~br'.retired /\ (br'.mode = "agent" => br.mode = "agent")
    BY <1>5, <2>3, <2>4 DEF RowMove, AnsweredRow, WithdrawnTo, KeepsCmd, None
  <2>6. Waiting("agent") => br'.cmd = "agent" /\ br'.mode = "recovering"
    <3>1. Waiting("agent") => ~certain
      BY <1>1, <1>2, <2>1, <2>3 DEF BLineInv
    <3> QED
      BY <1>5, <2>4, <3>1 DEF WithdrawnTo, KeepsCmd
  <2>7. BLineInv'
    BY <1>1, <1>2, <1>4, <2>3, <2>5, <2>6 DEF BLineInv
  <2> QED
    BY <1>1, <1>2, <1>3, <2>4, <2>5, <2>7, BrowserCommandKeeps DEF Pressed
<1>6. CASE br.cmd # "agent"
  <2>1. br' = br
    BY <1>6 DEF AgentEnd, controlVars
  <2>2. ~Waiting("agent")
    BY <1>2, <1>6 DEF BLineInv
  <2>3. BLineInv'
    BY <1>1, <1>2, <1>4, <2>1, <2>2 DEF BLineInv
  <2>4. RowMove /\ br' \in BRows
    BY <1>2, <2>1 DEF RowMove, CalmMove
  <2> QED
    BY <1>1, <1>2, <1>3, <2>1, <2>3, <2>4, BrowserCommandKeeps DEF Pressed
<1> QED
  BY <1>5, <1>6

\* A login of the owner is reserved.
LEMMA BeginLoginKeeps ==
  ASSUME BrowserInv, EndsCounted, NEW v \in Viewers, NEW seq, BeginLogin(v, seq)
  PROVE  BrowserInv' /\ RowMove
<1>1. /\ agent' = agent /\ native' = native /\ line' = line /\ login' = [pc |-> "reserved", seq |-> seq] /\ watched' = watched
      /\ event' = event /\ keys' = keys /\ input = "free" /\ input' = "login" /\ stream' = stream /\ handover' = handover /\ tr' = tr
      /\ stream = "up" /\ login.pc = "idle"
  BY DEF BeginLogin, handleVars, agentVars
<1>2. /\ br \in BRows /\ BRowInv /\ BLineInv /\ line \in Seq(Lined)
  BY DEF BrowserInv, BrowserTypes
<1>3. seq \in Nat /\ ReserveInput(v, seq) /\ br.mode = "human"
  <2>1. ReserveInput(v, seq) /\ seq = br.seq + 1 /\ br.mode = "human"
    BY DEF BeginLogin, ReserveInput, Leased
  <2>2. br.seq \in Nat
    BY <1>2 DEF BRows
  <2> QED
    BY <2>1, <2>2
<1>4. br' \in BRows /\ CommandsRow("human", "human")
  <2>1. ~\E run \in Runs : ReserveAgent(run)
    BY <1>3 DEF ReserveAgent
  <2> QED
    BY <1>2, <1>3, <2>1, ReserveMoves
<1>5. br.cmd = None /\ ~br.retired /\ br'.cmd = "human" /\ br'.mode = "human" /\ ~br'.retired /\ RowMove
  BY <1>4 DEF CommandsRow, KeepsCmd, RowMove
<1>6. ~Waiting("agent") /\ ~Waiting("login") /\ agent = "idle"
  BY <1>2, <1>5 DEF BLineInv, None
<1>7. ~Waiting("agent")' /\ ~Waiting("login")'
  BY <1>1, <1>6 DEF Waiting
<1>8. BLineInv'
  BY <1>1, <1>2, <1>5, <1>6, <1>7 DEF BLineInv
<1>9. BInputInv'
  BY <1>1 DEF BrowserInv, BInputInv
<1>10. login' \in Logins
  BY <1>1, <1>3 DEF Logins
<1> QED
  BY <1>1, <1>2, <1>4, <1>5, <1>8, <1>9, <1>10, BrowserCommandKeeps DEF Pressed

\* Its command enters the channel.
LEMMA LoginCommandKeeps ==
  ASSUME BrowserInv, EndsCounted, LoginCommand
  PROVE  BrowserInv' /\ RowMove
<1>1. /\ agent' = agent /\ native' = native /\ login.pc = "reserved" /\ login' = [login EXCEPT !.pc = "sent"] /\ watched' = watched
      /\ event' = event /\ keys' = keys /\ input' = input /\ stream' = stream /\ handover' = handover /\ Submit("login")
      /\ tr' = tr /\ br' = br
  BY DEF LoginCommand, controlVars, handleVars, streamVars
<1>2. /\ br \in BRows /\ BLineInv /\ line \in Seq(Lined) /\ login \in Logins
  BY DEF BrowserInv, BrowserTypes
<1>3. line' \in Seq(Lined) /\ native = "up" /\ (Waiting("agent")' => Waiting("agent"))
  <2>1. "agent" \in Lined /\ "login" \in Lined
    BY DEF Lined
  <2> QED
    BY <1>1, <1>2, <2>1, SubmitAdds
<1>4. br.cmd = "human"
  BY <1>1, <1>2, <1>3 DEF BLineInv
<1>5. login' \in Logins /\ login'.pc = "sent"
  BY <1>1, <1>2 DEF Logins
<1>6. BLineInv'
  BY <1>1, <1>2, <1>3, <1>4, <1>5 DEF BLineInv
<1>7. BInputInv'
  BY <1>1, <1>5 DEF BrowserInv, BInputInv
<1>8. RowMove /\ br' \in BRows
  BY <1>1, <1>2 DEF RowMove, CalmMove
<1> QED
  BY <1>1, <1>2, <1>3, <1>5, <1>6, <1>7, <1>8, BrowserCommandKeeps DEF Pressed

\* It ends: with its receipt, or in doubt.
LEMMA LoginEndKeeps ==
  ASSUME BrowserInv, EndsCounted, LoginEnd
  PROVE  BrowserInv' /\ RowMove
<1>1. /\ agent' = agent /\ native' = native /\ line' = line /\ login.pc \in {"reserved", "sent"} /\ login' = NoLogin /\ watched' = watched
      /\ event' = event /\ keys' = keys /\ input' = "free" /\ stream' = stream /\ handover' = handover /\ tr' = tr
  BY DEF LoginEnd, handleVars
<1>2. /\ br \in BRows /\ BRowInv /\ BLineInv /\ BInputInv /\ line \in Seq(Lined) /\ login' \in Logins
  BY <1>1 DEF BrowserInv, BrowserTypes, NoLogin, Logins
<1>3. BInputInv'
  BY <1>1, <1>2 DEF BInputInv, NoLogin
<1>4. (Waiting("agent")' <=> Waiting("agent")) /\ (Waiting("login")' <=> Waiting("login"))
  BY <1>1 DEF Waiting
<1>5. CASE br.cmd = "human" /\ br' # br
  <2>1. PICK outcome \in {"uncertain", "applied", "rejected"} :
          CompleteInput(outcome) /\ (login.pc = "sent" /\ (Waiting("login") \/ native # "up") => outcome = "uncertain")
    BY <1>5 DEF LoginEnd, controlVars
  <2>2. ~br.retired /\ native # "none" /\ agent = "idle" /\ ~Waiting("agent")
    BY <1>2, <1>5 DEF BRowInv, BLineInv, None
  <2>3. br' \in BRows /\ ((outcome # "uncertain" /\ AnsweredRow("human")) \/ (outcome = "uncertain" /\ WithdrawnTo("recovering")))
    BY <1>2, <2>1, CompleteInputMoves
  <2>4. RowMove /\ ~br'.retired /\ (br'.mode = "agent" => br.mode = "agent")
    BY <1>5, <2>2, <2>3 DEF RowMove, AnsweredRow, WithdrawnTo, KeepsCmd, None
  <2>5. Waiting("login") => br'.cmd = "human"
    <3>1. Waiting("login") => outcome = "uncertain"
      BY <1>1, <1>2, <2>1 DEF BLineInv
    <3> QED
      BY <1>5, <2>3, <3>1 DEF WithdrawnTo, KeepsCmd
  <2>6. BLineInv'
    BY <1>1, <1>2, <1>4, <2>2, <2>4, <2>5 DEF BLineInv, NoLogin
  <2> QED
    BY <1>1, <1>2, <1>3, <2>3, <2>4, <2>6, BrowserCommandKeeps DEF Pressed
<1>6. CASE br' = br
  <2>1. BLineInv'
    BY <1>1, <1>2, <1>4, <1>6 DEF BLineInv, NoLogin
  <2>2. RowMove /\ br' \in BRows
    BY <1>2, <1>6 DEF RowMove, CalmMove
  <2> QED
    BY <1>1, <1>2, <1>3, <1>6, <2>1, <2>2, BrowserCommandKeeps DEF Pressed
<1> QED
  BY <1>5, <1>6 DEF LoginEnd, controlVars

\* What the agent is shown was captured under a grant that lasts.
LEMMA WatchedKeeps ==
  ASSUME BrowserInv, EndsCounted, (\E v \in Viewers : BeginObservation(v)) \/ Capture \/ Deliver \/ Shown
  PROVE  BrowserInv' /\ RowMove
<1>1. /\ br' = br /\ agent' = agent /\ native' = native /\ login' = login
      /\ event' = event /\ keys' = keys /\ stream' = stream /\ handover' = handover /\ tr' = tr
  BY DEF BeginObservation, Capture, Deliver, Shown, controlVars, handleVars, agentVars, streamVars
<1>2. /\ br \in BRows /\ BRowInv /\ BLineInv /\ BInputInv /\ WatchInv /\ line \in Seq(Lined) /\ login \in Logins /\ withdrawn \in Nat
      /\ watched \in Watches
  BY DEF BrowserInv, BrowserTypes, WatchInv
<1>3. RowMove /\ CalmMove /\ br' \in BRows
  BY <1>1, <1>2 DEF RowMove, CalmMove
<1>4. withdrawn' = withdrawn
  BY <1>1, <1>2 DEF EndsCounted
<1>5. line \in Seq(Lined) /\ (line # <<>> => native = "up")
  BY <1>2 DEF BLineInv
<1>6. NoNewWait /\ WatchInv' /\ BInputInv'
  <2>1. CASE \E v \in Viewers : BeginObservation(v)
    <3>1. PICK v \in Viewers : BeginObservation(v)
      BY <2>1
    <3>2. /\ watched.pc = "idle" /\ watched' = [NoWatch EXCEPT !.pc = "granted", !.v = v, !.lid = br.lid, !.epoch = br.epoch]
          /\ line' = line /\ input' = input
      BY <3>1 DEF BeginObservation, streamVars
    <3>3. watched' \in Watches /\ watched'.pc = "granted"
      <4>1. br.lid \in Nat /\ br.epoch \in Nat
        BY <1>2 DEF BRows
      <4>2. PICK x1 \in Watches : x1 = [NoWatch EXCEPT !.pc = "granted"]
        <5>1. NoWatch \in Watches
          BY DEF NoWatch, Watches, None
        <5> QED
          BY <5>1 DEF Watches
      <4>3. PICK x2 \in Watches : x2 = [x1 EXCEPT !.v = v]
        BY DEF Watches
      <4>4. PICK x3 \in Watches : x3 = [x2 EXCEPT !.lid = br.lid]
        BY <4>1 DEF Watches
      <4>5. PICK x4 \in Watches : x4 = [x3 EXCEPT !.epoch = br.epoch]
        BY <4>1 DEF Watches
      <4>6. watched' = x4 /\ x4.pc = "granted"
        BY <3>2, <4>2, <4>3, <4>4, <4>5 DEF NoWatch, Watches
      <4> QED
        BY <4>6
    <3>4. NoNewWait
      BY <1>1, <1>5, <3>2, LineKept
    <3> QED
      BY <1>1, <1>2, <3>2, <3>3, <3>4 DEF WatchInv, BInputInv
  <2>2. CASE Capture /\ watched' # NoWatch
    <3>1. /\ watched.pc = "granted" /\ input = "free" /\ input' = "capture" /\ Submit("capture")
          /\ Observable(watched.v, watched.lid, watched.epoch)
          /\ watched' = [watched EXCEPT !.pc = "captured", !.ends = withdrawn]
      BY <2>2 DEF Capture
    <3>2. /\ watched' \in Watches /\ watched'.pc = "captured" /\ watched'.ends = withdrawn
          /\ watched'.lid = watched.lid /\ watched'.epoch = watched.epoch
      <4>1. PICK x1 \in Watches : x1 = [watched EXCEPT !.pc = "captured"]
        BY <1>2 DEF Watches
      <4>2. withdrawn \in Int
        BY <1>2
      <4>3. PICK x2 \in Watches : x2 = [x1 EXCEPT !.ends = withdrawn]
        BY <4>2 DEF Watches
      <4>4. watched' = x2
        BY <1>2, <3>1, <4>1, <4>3 DEF Watches
      <4> QED
        BY <1>2, <4>1, <4>3, <4>4 DEF Watches
    <3>3. LiveGrant'
      <4>1. /\ br.observe /\ br.lid = watched.lid /\ br.epoch = watched.epoch /\ ~br.retired
        BY <3>1 DEF Observable, Leased
      <4>2. br.lid < br.rev
        BY <1>2, <4>1 DEF BRowInv
      <4> QED
        BY <1>1, <3>2, <4>1, <4>2 DEF LiveGrant
    <3>4. NoNewWait
      BY <1>1, <1>5, <3>1, LineGrows DEF Lined
    <3>5. WatchInv'
      BY <1>4, <3>2, <3>3 DEF WatchInv
    <3>6. BInputInv'
      BY <1>1, <1>2, <3>1, <3>2 DEF BInputInv
    <3> QED
      BY <3>4, <3>5, <3>6
  <2>3. CASE Capture /\ watched' = NoWatch
    <3>1. watched.pc = "granted" /\ input = "free" /\ input' = input /\ line' = line
      BY <2>3 DEF Capture, NoWatch
    <3> QED
      BY <1>1, <1>2, <1>5, <2>3, <3>1, LineKept DEF WatchInv, BInputInv, NoWatch, Watches, None
  <2>4. CASE Deliver
    <3>1. watched.pc = "captured" /\ input' = "free" /\ line' = line /\ input = "capture"
      BY <1>2, <2>4 DEF Deliver, BInputInv
    <3>2. WatchInv' /\ watched'.pc # "captured"
      <4>1. CASE watched' = NoWatch
        BY <4>1 DEF WatchInv, NoWatch, Watches, None
      <4>2. CASE /\ Observable(watched.v, watched.lid, watched.epoch)
                 /\ watched' = [watched EXCEPT !.pc = "shown", !.ends = withdrawn - watched.ends]
        <5>1. br.observe /\ br.lid = watched.lid /\ br.epoch = watched.epoch /\ br.mode = "human"
          BY <4>2 DEF Observable, Leased
        <5>2. br.lease # None /\ watched.epoch \in Nat
          BY <1>2, <5>1 DEF BRowInv, Watches
        <5>3. ~GoneGrant
          BY <5>1, <5>2 DEF GoneGrant
        <5>4. watched.ends = withdrawn
          BY <1>2, <3>1, <5>3 DEF WatchInv
        <5>5. withdrawn - watched.ends = 0
          BY <1>2, <5>4
        <5>6. watched' \in Watches /\ watched'.pc = "shown" /\ watched'.ends = 0
          <6>1. PICK x1 \in Watches : x1 = [watched EXCEPT !.pc = "shown"]
            BY <1>2 DEF Watches
          <6>2. PICK x2 \in Watches : x2 = [x1 EXCEPT !.ends = 0]
            <7>1. 0 \in Int
              OBVIOUS
            <7> QED
              BY <7>1 DEF Watches
          <6>3. watched' = x2
            BY <1>2, <4>2, <5>5, <6>1, <6>2 DEF Watches
          <6> QED
            BY <6>1, <6>2, <6>3 DEF Watches
        <5> QED
          BY <5>6 DEF WatchInv
      <4> QED
        BY <2>4, <4>1, <4>2 DEF Deliver
    <3> QED
      BY <1>1, <1>2, <1>5, <3>1, <3>2, LineKept DEF BInputInv
  <2>5. CASE Shown
    <3>1. watched.pc = "shown" /\ input' = input /\ line' = line /\ watched' = NoWatch
      BY <2>5 DEF Shown, streamVars
    <3> QED
      BY <1>1, <1>2, <1>5, <3>1, LineKept DEF WatchInv, BInputInv, NoWatch, Watches, None
  <2> QED
    BY <2>1, <2>2, <2>3, <2>4, <2>5
<1>7. BLineInv'
  BY <1>1, <1>2, <1>3, <1>6, LineFrame
<1>8. line' \in Seq(Lined)
  BY <1>6 DEF NoNewWait
<1> QED
  BY <1>1, <1>2, <1>3, <1>6, <1>7, <1>8, BrowserCommandKeeps DEF Pressed

-----------------------------------------------------------------------------
(* Every step. *)
\* What the owner asks for keeps the invariant.
LEMMA OwnerAsksKeep ==
  ASSUME BrowserInv, EndsCounted, NEW v \in Viewers, OwnerAsks(v)
  PROVE  BrowserInv' /\ RowMove
<1>1. CASE Launch(None)
  BY <1>1, BrowserLaunchKeeps
<1>2. CASE Take(v)
  BY <1>2, TakeKeeps
<1>3. CASE Move(v)
  BY <1>3, TabMoveKeeps
<1>4. CASE \E observe \in BOOLEAN : Visibility(v, observe)
  BY <1>4, VisibilityKeeps
<1>5. CASE Heartbeat(v)
  BY <1>5, QuietSteps
<1>6. CASE PauseOwner(v)
  BY <1>6, PauseKeeps
<1>7. CASE Close
  BY <1>7, CloseKeeps
<1>8. CASE SettleTakeover
  BY <1>8, FenceSteps
<1> QED
  BY <1>1, <1>2, <1>3, <1>4, <1>5, <1>6, <1>7, <1>8 DEF OwnerAsks

\* So does every step of the browser, and the row moves as its table says.
LEMMA BrowserKeeps ==
  ASSUME BrowserInv, [BrowserNext]_browserVars
  PROVE  BrowserInv' /\ RowMove
<1>1. CASE BrowserNext
  <2>1. EndsCounted
    BY <1>1 DEF BrowserNext, EndsCounted
  <2>2. CASE Execute \/ RunEnds \/ ReadPage \/ PageRead \/ Ends(ToggleHold)
    BY <2>1, <2>2, QuietSteps
  <2>3. CASE DriverExits \/ CurrentOwned
    BY <2>1, <2>3, DriverKeeps
  <2>4. CASE \E run \in Runs : Launch(run) \/ AgentBegin(run) \/ Admit(run)
    BY <2>1, <2>4, BrowserLaunchKeeps, AgentBeginKeeps, AdmitKeeps
  <2>5. CASE Ensure \/ Cleanup \/ (\E down \in BOOLEAN : EndEvent(down))
    BY <2>1, <2>5, StreamSteps
  <2>6. CASE \E dies \in BOOLEAN : Crash(dies)
    BY <2>1, <2>6, CrashKeeps
  <2>7. CASE AgentCommand \/ AgentEnd
    BY <2>1, <2>7, AgentCommandKeeps, AgentEndKeeps
  <2>8. CASE BeginEvent \/ Resume
    BY <2>1, <2>8, PressKeeps, ResumeKeeps
  <2>9. CASE (\E v \in Viewers, seq \in 1..MaxInputs : BeginLogin(v, seq)) \/ LoginCommand \/ LoginEnd
    BY <2>1, <2>9, BeginLoginKeeps, LoginCommandKeeps, LoginEndKeeps
  <2>10. CASE \E v \in Viewers : OwnerAsks(v)
    BY <2>1, <2>10, OwnerAsksKeep
  <2>11. CASE (\E v \in Viewers : Handback(v)) \/ Fence \/ Observe
    BY <2>1, <2>11, FenceSteps
  <2>12. CASE (\E v \in Viewers : BeginObservation(v)) \/ Capture \/ Deliver \/ Shown
    BY <2>1, <2>12, WatchedKeeps
  <2>13. CASE \E gone \in BOOLEAN : Reconcile(gone)
    BY <2>1, <2>13, TabMoveKeeps
  <2>14. CASE \E ok \in BOOLEAN : Drain(ok) \/ Grant(ok) \/ Clear(ok)
    BY <2>1, <2>14, DrainKeeps, GrantKeeps, ClearKeeps
  <2>15. CASE WatchFails
    BY <2>1, <2>15, CloseKeeps
  <2>16. CASE Ends(LeaseLapses)
    BY <2>1, <2>16, PauseKeeps
  <2> QED
    BY <1>1, <2>2, <2>3, <2>4, <2>5, <2>6, <2>7, <2>8, <2>9, <2>10, <2>11, <2>12, <2>13, <2>14, <2>15, <2>16
       DEF BrowserNext, BrowserSteps
<1>2. CASE UNCHANGED browserVars
  <2>1. /\ br' = br /\ line' = line /\ native' = native /\ agent' = agent /\ login' = login /\ watched' = watched /\ tr' = tr
        /\ handover' = handover /\ event' = event /\ keys' = keys /\ input' = input /\ stream' = stream /\ withdrawn' = withdrawn
    BY <1>2 DEF browserVars, controlVars, handleVars, agentVars, streamVars, callVars
  <2>2. EndsCounted
    BY <2>1 DEF EndsCounted, BrowserInv, BrowserTypes
  <2>3. NoNewWait
    BY <2>1, LineKept DEF BrowserInv, BrowserTypes, BLineInv
  <2>4. BInputInv'
    BY <2>1 DEF BrowserInv, BInputInv
  <2> QED
    BY <2>1, <2>2, <2>3, <2>4, QuietKeeps DEF Pressed
<1> QED
  BY <1>1, <1>2

\* What the invariant says of the hands.
LEMMA BrowserInvIsEnough == BrowserInv => HandsApart
BY DEF BrowserInv, BLineInv, HandsInv, Pressed, WatchInv, HandsApart

\* No move of the row leaves recovery but the one that retires it.
LEMMA RecoveryLasts ==
  ASSUME br \in BRows, BRowInv, RowMove, br.mode = "recovering", ~br.retired
  PROVE  br'.mode = "recovering" \/ br'.retired
<1>1. br.lease = None
  BY DEF BRowInv
<1>2. CASE CalmMove
  BY <1>2, CalmFacts
<1>3. CASE WithdrawnTo("recovering") /\ br.cmd # None
  BY <1>3 DEF WithdrawnTo
<1>4. CASE RetiresRow
  BY <1>4 DEF RetiresRow, KeepsCmd
<1>5. CASE CommandsRow("agent", "agent") \/ CommandsRow("human", "human") \/ AnsweredRow("agent") \/ AnsweredRow("human")
  BY <1>5 DEF CommandsRow, AnsweredRow
<1> QED
  BY <1>2, <1>3, <1>4, <1>5 DEF RowMove, BeginsRow
=============================================================================
