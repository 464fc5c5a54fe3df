------------------------------ MODULE Library ------------------------------
(***************************************************************************)
(* The owner's files and who may read them: the upload, sharing, listing and *)
(* document-grant transactions of chat/store.py, and the callback of a run    *)
(* that reads, fetches or shares a file: chat/document_bridge.py with         *)
(* chat/document_access.py.                                                 *)
(*                                                                         *)
(* One owner. A file id stands for its name too; bytes are 1 (text) or 2. A   *)
(* file shared by a run has an id made of the run, so the run's name stands   *)
(* for it. A callback names the run it was given to, which may be over.      *)
(***************************************************************************)
EXTENDS Base, Sequences, FiniteSets

CONSTANTS Uploadable, HermesRun, Web, LastTurn, MaxStored, PageSize
ASSUME LibraryAssumption ==
  /\ None \notin HermesRun /\ IsFiniteSet(Uploadable \cup HermesRun)
  /\ LastTurn \in Nat /\ MaxStored \in Nat /\ PageSize \in Nat \ {0}

VARIABLES
  stored, disk,     \* the uploads table with what is known of a file's origin; the bytes of storage names
  attached, turns,  \* the attachments of a turn; the turn
  runOf,            \* runs: of which turn, and whether it is live
  scope,            \* document_grants: made, the files, the bound run
  req,              \* requests in progress: uploads and callbacks
  released, told,   \* what callbacks were answered; bytes the uploader was given a receipt for
  look              \* one reading of the library, page by page

libraryVars == <<stored, disk, attached, turns, runOf, scope, req, released, told, look>>
Turns == 1..LastTurn
Files == Uploadable \cup HermesRun
NoFile == [v |-> 0, at |-> 0, place |-> "plain", by |-> 0]
NoTurn == [st |-> "none", due |-> FALSE, late |-> FALSE, run |-> None]
NoScope == [made |-> FALSE, files |-> {}, bound |-> None]
NoReq == [pc |-> "idle", op |-> "upload", f |-> None, v |-> 0, place |-> "plain", t |-> 0, r |-> None,
          files |-> {}, again |-> FALSE, held |-> FALSE]
NotLooking == [pc |-> "off", after |-> 0, seen |-> <<>>, had |-> {}]
LibraryInit ==
  /\ stored = [f \in Files |-> NoFile] /\ disk = <<>>
  /\ attached = [t \in Turns |-> {}] /\ turns = [t \in Turns |-> NoTurn]
  /\ runOf = [r \in HermesRun |-> [t |-> 0, live |-> FALSE]] /\ scope = [t \in Turns |-> NoScope]
  /\ req = [w \in Web |-> NoReq] /\ released = {} /\ told = [f \in Files |-> {}] /\ look = NotLooking
LibraryTypeOK ==
  /\ \A f \in Files : stored[f].at \in 0..Len(disk) /\ stored[f].by \in 0..LastTurn
                      /\ stored[f].place \in {"plain", "private", "public"}
  /\ \A t \in Turns : turns[t].st \in {"none", "open", "over"} /\ turns[t].run \in HermesRun \cup {None} /\ scope[t].files \subseteq Files
  /\ \A w \in Web : req[w].pc \in {"idle", "staged", "moved", "probe", "bind", "work", "parse", "reask", "publish", "answer"}

-----------------------------------------------------------------------------
InLibrary(f) == stored[f].at # 0
Private(f) == stored[f].place = "private"
IsText(f) == stored[f].v = 1
(* BEGIN IMMEDIATE: one writer; an upload holds the lock while it moves bytes. *)
Writable == \A w \in Web : req[w].pc # "moved"
RunLives(r) == runOf[r].live
Granted(t) == scope[t].made /\ ~turns[t].late /\ turns[t].st = "open"
For(t, r) == scope[t].bound \in {None, r} /\ turns[t].run \in {None, r}

-----------------------------------------------------------------------------
(* Uploads, by the owner (private or not) and by the collector of browser    *)
(* downloads, which says whether it is private and whose run produced it.    *)
Origins == [place : {"plain", "private"}, r : {None}] \cup [place : {"public"}, r : HermesRun \cup {None}]
BeginUpload(w, f, v, o) ==
  /\ req' = [req EXCEPT ![w] = [NoReq EXCEPT !.pc = "staged", !.f = f, !.v = v, !.place = o.place, !.r = o.r]]
  /\ UNCHANGED <<stored, disk, attached, turns, runOf, scope, released, told, look>>
\* Mutant: whatever is uploaded under a known name is acknowledged.
Same_Name(f, v) == TRUE
Same(f, v) == stored[f].v = v
Receipt(w) == told' = [told EXCEPT ![req[w].f] = @ \cup {req[w].v}]
MoveUpload(w) ==
  /\ req[w].pc = "staged" /\ Writable
  /\ \/ /\ InLibrary(req[w].f) /\ Same(req[w].f, req[w].v) /\ Receipt(w)
        /\ req' = [req EXCEPT ![w] = NoReq] /\ UNCHANGED disk
     \/ /\ ~InLibrary(req[w].f) /\ Len(disk) < MaxStored
        /\ disk' = Append(disk, req[w].v) /\ req' = [req EXCEPT ![w].pc = "moved"] /\ UNCHANGED told
  /\ UNCHANGED <<stored, attached, turns, runOf, scope, released, look>>
(* The rows: with a public download, also whose output it is, and the grant  *)
(* of the run's turn while that is open.                                    *)
PublishUpload(w) ==
  LET q == req[w]
      of == {t \in Turns : q.place = "public" /\ q.r # None /\ turns[t].run = q.r}
      by == IF q.op = "share" THEN q.t ELSE IF of = {} THEN 0 ELSE CHOOSE t \in of : TRUE IN
  /\ q.pc = "moved"
  /\ stored' = [stored EXCEPT ![q.f] = [v |-> q.v, at |-> Len(disk), place |-> q.place, by |-> by]]
  /\ scope' = [t \in Turns |-> IF t \in of /\ Granted(t) /\ scope[t].bound \in {None, q.r}
                               THEN [scope[t] EXCEPT !.files = @ \cup {q.f}] ELSE scope[t]]
  /\ Receipt(w) /\ req' = [req EXCEPT ![w] = NoReq]
  /\ UNCHANGED <<disk, attached, turns, runOf, released, look>>
ShareBrowserFile(f) ==
  /\ InLibrary(f) /\ Private(f) /\ Writable
  /\ stored' = [stored EXCEPT ![f].place = "public"]
  /\ UNCHANGED <<disk, attached, turns, runOf, scope, req, released, told, look>>
(* A request ends without an answer: refused, failed, or its process dies.   *)
Drop(w) == /\ req[w].pc # "idle" /\ req' = [req EXCEPT ![w] = NoReq]
           /\ UNCHANGED <<stored, disk, attached, turns, runOf, scope, released, told, look>>

-----------------------------------------------------------------------------
(* Turns and runs, as far as grants depend on them.                         *)
Keep == UNCHANGED <<stored, disk, req, released, told, look>>
Reserve(t, fs) ==
  /\ turns[t].st = "none" /\ (t > 1 => turns[t - 1].st # "none") /\ Writable /\ \A f \in fs : InLibrary(f)
  /\ turns' = [turns EXCEPT ![t].st = "open"]
  /\ attached' = [attached EXCEPT ![t] = {[f |-> f, v |-> stored[f].v] : f \in fs}]
  /\ Keep /\ UNCHANGED <<runOf, scope>>
Due(t) == /\ turns[t].st = "open" /\ ~turns[t].due /\ (t > 1 => turns[t - 1].st = "over") /\ Writable
          /\ turns' = [turns EXCEPT ![t].due = TRUE] /\ Keep /\ UNCHANGED <<attached, runOf, scope>>
\* Mutant: a grant holds what the owner keeps private too.
Grantable_All(f) == InLibrary(f)
Grantable(f) == InLibrary(f) /\ ~Private(f)
InScope(t, f) ==
  \/ \E u \in 1..t : [f |-> f, v |-> stored[f].v] \in attached[u]
  \/ stored[f].by \in 1..t - 1 /\ IsText(f)
  \/ stored[f].place # "plain"
MintGrant(t) ==
  /\ turns[t].st = "open" /\ turns[t].due /\ ~scope[t].made /\ Writable
  /\ scope' = [scope EXCEPT ![t] = [made |-> TRUE, files |-> {f \in Files : Grantable(f) /\ InScope(t, f)}, bound |-> None]]
  /\ Keep /\ UNCHANGED <<attached, turns, runOf>>
StartRun(t, r) ==
  /\ scope[t].made /\ runOf[r].t = 0 /\ \A x \in HermesRun : runOf[x].t = t => ~RunLives(x)
  /\ runOf' = [runOf EXCEPT ![r] = [t |-> t, live |-> TRUE]] /\ Keep /\ UNCHANGED <<attached, turns, scope>>
EndRun(r) == RunLives(r) /\ runOf' = [runOf EXCEPT ![r].live = FALSE] /\ Keep /\ UNCHANGED <<attached, turns, scope>>
NameRun(t, r) == /\ turns[t].st = "open" /\ runOf[r].t = t /\ turns[t].run = None /\ Writable
                /\ turns' = [turns EXCEPT ![t].run = r] /\ Keep /\ UNCHANGED <<attached, runOf, scope>>
CloseTurn(t) == turns[t].st = "open" /\ Writable /\ turns' = [turns EXCEPT ![t].st = "over"] /\ Keep /\ UNCHANGED <<attached, runOf, scope>>
Lapse(t) == turns[t].due /\ ~turns[t].late /\ turns' = [turns EXCEPT ![t].late = TRUE] /\ Keep /\ UNCHANGED <<attached, runOf, scope>>

-----------------------------------------------------------------------------
(* A callback. _authorize reads the grant, asks Hermes for the run, and binds *)
(* the grant to it; each is a step, and the whole is done twice.             *)
Callback == UNCHANGED <<attached, runOf, look>>
Ask(w, r, op, f) ==
  LET t == runOf[r].t IN
  /\ req[w].pc = "idle" /\ t # 0 /\ Granted(t) /\ For(t, r)
  /\ req' = [req EXCEPT ![w] = [NoReq EXCEPT !.pc = "probe", !.op = op, !.f = f,
                                              !.t = t, !.r = r, !.files = scope[t].files]]
  /\ Callback /\ UNCHANGED <<stored, disk, turns, scope, released, told>>
Probe(w) == /\ req[w].pc = "probe" /\ RunLives(req[w].r) /\ req' = [req EXCEPT ![w].pc = "bind"]
            /\ Callback /\ UNCHANGED <<stored, disk, turns, scope, released, told>>
AfterBind(q) == IF ~q.again THEN "work" ELSE IF q.op = "share" THEN "publish" ELSE "answer"
Bind(w) ==
  LET q == req[w] IN
  /\ q.pc = "bind" /\ Writable /\ Granted(q.t) /\ For(q.t, q.r)
  /\ scope' = [scope EXCEPT ![q.t].bound = q.r] /\ turns' = [turns EXCEPT ![q.t].run = q.r]
  /\ req' = [req EXCEPT ![w].pc = AfterBind(q)]
  /\ Callback /\ UNCHANGED <<stored, disk, released, told>>
(* What it came for. A passage is read by the one parser of the process, or   *)
(* not at all; the file is opened before and its digest taken with the bytes. *)
Held(q) == Granted(q.t) /\ RunLives(q.r)
Took(w) == req' = [req EXCEPT ![w].pc = "reask", ![w].v = disk[stored[req[w].f].at], ![w].held = Held(req[w])]
BeginRead(w) ==
  /\ req[w].pc = "work" /\ req[w].op = "read" /\ req[w].f \in req[w].files /\ IsText(req[w].f)
  /\ req' = [req EXCEPT ![w].pc = IF \E x \in Web : req[x].pc = "parse" THEN "reask" ELSE "parse"]
  /\ Callback /\ UNCHANGED <<stored, disk, turns, scope, released, told>>
EndRead(w) == req[w].pc = "parse" /\ Took(w) /\ Callback /\ UNCHANGED <<stored, disk, turns, scope, released, told>>
Fetch(w) ==
  /\ req[w].pc = "work" /\ req[w].op = "content" /\ req[w].f \in req[w].files /\ ~Private(req[w].f) /\ Took(w)
  /\ Callback /\ UNCHANGED <<stored, disk, turns, scope, released, told>>
StageText(w) ==
  /\ req[w].pc = "work" /\ req[w].op = "share" /\ req' = [req EXCEPT ![w].pc = "reask", ![w].v = 1]
  /\ Callback /\ UNCHANGED <<stored, disk, turns, scope, released, told>>
\* Mutant: what was read is handed out without asking again.
Reauthorised_Once(q) == [q EXCEPT !.pc = IF q.op = "share" THEN "publish" ELSE "answer"]
Reauthorised(q) == [q EXCEPT !.pc = IF Granted(q.t) /\ For(q.t, q.r) THEN "probe" ELSE "idle", !.again = TRUE]
Reask(w) ==
  /\ req[w].pc = "reask"
  /\ req' = [req EXCEPT ![w] = IF Reauthorised(@).pc = "idle" THEN NoReq ELSE Reauthorised(@)]
  /\ Callback /\ UNCHANGED <<stored, disk, turns, scope, released, told>>
GiveAnswer(w) ==
  LET q == req[w] IN
  /\ q.pc = "answer"
  /\ released' = IF q.v = 0 THEN released ELSE released \cup {[t |-> q.t, r |-> q.r, f |-> q.f, v |-> q.v, held |-> q.held]}
  /\ req' = [req EXCEPT ![w] = NoReq]
  /\ Callback /\ UNCHANGED <<stored, disk, turns, scope, told>>
(* share_file checks the grant again in the transaction that publishes.      *)
PublishText(w) ==
  LET q == req[w] IN
  /\ q.pc = "publish" /\ Writable /\ Granted(q.t) /\ turns[q.t].run = q.r /\ scope[q.t].bound = q.r
  /\ \/ /\ InLibrary(q.f) /\ Same(q.f, q.v) /\ stored[q.f].by = q.t
        /\ Receipt(w) /\ req' = [req EXCEPT ![w] = NoReq] /\ UNCHANGED disk
     \/ /\ ~InLibrary(q.f) /\ Len(disk) < MaxStored
        /\ disk' = Append(disk, q.v) /\ req' = [req EXCEPT ![w].pc = "moved"] /\ UNCHANGED told
  /\ Callback /\ UNCHANGED <<stored, turns, scope, released>>

-----------------------------------------------------------------------------
(* The library, newest file first, a page at a time.                        *)
BeginLook == /\ look.pc = "off"
             /\ look' = [NotLooking EXCEPT !.pc = "on", !.after = MaxStored + 1, !.had = {f \in Files : InLibrary(f)}]
             /\ UNCHANGED <<stored, disk, attached, turns, runOf, scope, req, released, told>>
\* Mutant: the cursor names the first file of the next page, which then counts as shown.
CursorOf_Next(older, page) ==
  LET rest == older \ page IN IF rest = {} THEN 0 ELSE stored[CHOOSE f \in rest : \A g \in rest : stored[g].at <= stored[f].at].at
CursorOf(older, page) ==
  IF older = page THEN 0 ELSE stored[CHOOSE f \in page : \A g \in page : stored[g].at >= stored[f].at].at
LookOn ==
  /\ look.pc = "on"
  /\ LET older == {f \in Files : InLibrary(f) /\ stored[f].at < look.after}
         page == {f \in older : Cardinality({g \in older : stored[g].at > stored[f].at}) < PageSize}
         next == CursorOf(older, page) IN
     look' = [look EXCEPT !.seen = Append(@, page), !.after = next, !.pc = IF next = 0 THEN "read" ELSE "on"]
  /\ UNCHANGED <<stored, disk, attached, turns, runOf, scope, req, released, told>>

LibraryNext ==
  \/ \E w \in Web : \/ req[w].pc = "idle" /\ \E f \in Uploadable, v \in 1..2, o \in Origins : BeginUpload(w, f, v, o)
                    \/ MoveUpload(w) \/ PublishUpload(w) \/ Drop(w)
                    \/ \E r \in HermesRun, f \in Files, op \in {"read", "content"} : Ask(w, r, op, f)
                    \/ \E r \in HermesRun : Ask(w, r, "share", r)
                    \/ Probe(w) \/ Bind(w) \/ BeginRead(w) \/ EndRead(w) \/ Fetch(w) \/ StageText(w) \/ Reask(w)
                    \/ GiveAnswer(w) \/ PublishText(w)
  \/ \E f \in Files : ShareBrowserFile(f)
  \/ \E t \in Turns : \/ \E fs \in SUBSET Files : Reserve(t, fs)
                      \/ Due(t) \/ MintGrant(t) \/ CloseTurn(t) \/ Lapse(t)
                      \/ \E r \in HermesRun : StartRun(t, r) \/ NameRun(t, r)
  \/ \E r \in HermesRun : EndRun(r)
  \/ BeginLook \/ LookOn

-----------------------------------------------------------------------------
\* The bytes of a file are on disk before its row and never change: every
\* receipt, every attachment and every answer was of these bytes. What a
\* callback was answered had been read while its turn was open, its window had
\* not lapsed and its run was live, and one grant served one run. A grant, made
\* once and extended by the run's own downloads, never holds a file the owner
\* keeps private, and no private file was handed to a run. A reading of the
\* library in pages shows every file that was there when it began, once.
FilesKeepTheirScope ==
  part = "library" =>
    /\ \A f \in Files : /\ InLibrary(f) => disk[stored[f].at] = stored[f].v
                        /\ told[f] \subseteq {stored[f].v}
    /\ \A t \in Turns : /\ \A a \in attached[t] : stored[a.f].v = a.v
                        /\ \A f \in scope[t].files : InLibrary(f) /\ ~Private(f)
    /\ \A x \in released : /\ x.held /\ x.v = stored[x.f].v /\ x.f \in scope[x.t].files
                           /\ scope[x.t].bound = x.r /\ turns[x.t].run = x.r
    /\ \A i, j \in DOMAIN look.seen : i # j => look.seen[i] \cap look.seen[j] = {}
    /\ look.pc = "read" => look.had \subseteq UNION {look.seen[i] : i \in DOMAIN look.seen}
=============================================================================
