----------------------------- MODULE Deployment -----------------------------
(***************************************************************************)
(* The parts of the deployment around the chat. Each is a module of its own *)
(* with its own state; none of their steps reads or writes the state of     *)
(* another, so a behaviour follows one part, whichever, and the state of    *)
(* the others is absent.                                                    *)
(***************************************************************************)
EXTENDS AuthSessions, OwnerTerminal, OwnerBrowser, BuzzMessages,
        ProjectCoordination, Commitments, Releases, DocumentReader,
        Library, BrowserTransfers, SpaceBrowser, WorkerBrowser

vars == <<part, authVars, terminalVars, browserVars, mailVars, projectVars,
          reviewVars, releaseVars, readerVars, libraryVars, transferVars,
          spaceVars, workerVars>>
AuthAbsent == clock = None /\ cred = None /\ throttle = None /\
              sess = None /\ owner = None /\ mutex = None /\ call = None
TerminalAbsent == shell = None /\ pending = None /\ opener = None /\
                  latch = None /\ reader = None /\ live = None /\
                  typed = None /\ made = None /\ held = None
BrowserAbsent == br = None /\ maintenance = None /\ native = None /\
                 owned = None /\ line = None /\ op = None /\
                 agent = None /\ ended = None /\ stream = None /\
                 blocked = None /\ token = None /\ holder = None /\
                 event = None /\ keys = None /\ input = None /\
                 tr = None /\ handover = None /\ login = None /\
                 watched = None /\ withdrawn = None
MailAbsent == post = None /\ msg = None /\ job = None /\ guides = None /\
              settled = None /\ answers = None /\ outbox = None /\
              signed = None /\ onRelay = None /\ turn = None /\
              egress = None
ProjectAbsent == coord = None /\ work = None /\ note = None /\
                 saved = None /\ cyc = None
ReviewAbsent == today = None /\ text = None /\ bound = None /\
                mandate = None /\ review = None /\ sugg = None /\
                fup = None /\ cron = None /\ gone = None
ReleaseAbsent == unit = None /\ staged = None /\ api = None /\
                 rows = None /\ busy = None /\ journal = None /\
                 proofs = None /\ cmd = None /\ go = None /\
                 drift = None /\ first = None /\ spoilt = None
ReaderAbsent == doc = None /\ ask = None /\ pass = None /\ given = None
LibraryAbsent == stored = None /\ disk = None /\ attached = None /\
                 turns = None /\ runOf = None /\ scope = None /\
                 req = None /\ released = None /\ told = None /\ look = None
TransferAbsent == up = None /\ hidden = None /\ control = None /\
                  inputLock = None /\ dl = None /\ receipt = None /\
                  library = None /\ coll = None /\ chooser = None /\
                  opened = None /\ handed = None /\ effects = None
SpaceAbsent == tick = None /\ chromes = None /\ launches = None /\
               guest = None /\ serving = None /\ fence = None /\
               reserved = None /\ coldReceipt = None /\ sandbox = None /\
               handle = None /\ leaseEnd = None /\ section = None /\
               request = None /\ late = None /\ confirmed = None /\
               agreed = None
WorkerAbsent == worker = None /\ launch = None /\ spawned = None /\
                starting = None /\ known = None /\ processes = None /\
                living = None /\ asked = None /\ chromeOf = None /\
                tunnel = None /\ ceased = None
Init == /\ part \in {"auth", "terminal", "browser", "mail", "project",
                     "review", "release", "reader", "library", "transfer",
                     "space", "worker"}
        /\ IF part = "auth" THEN AuthInit ELSE AuthAbsent
        /\ IF part = "terminal" THEN TerminalInit ELSE TerminalAbsent
        /\ IF part = "browser" THEN BrowserInit ELSE BrowserAbsent
        /\ IF part = "mail" THEN MailInit ELSE MailAbsent
        /\ IF part = "project" THEN ProjectInit ELSE ProjectAbsent
        /\ IF part = "review" THEN ReviewInit ELSE ReviewAbsent
        /\ IF part = "release" THEN ReleaseInit ELSE ReleaseAbsent
        /\ IF part = "reader" THEN ReaderInit ELSE ReaderAbsent
        /\ IF part = "library" THEN LibraryInit ELSE LibraryAbsent
        /\ IF part = "transfer" THEN TransferInit ELSE TransferAbsent
        /\ IF part = "space" THEN SpaceInit ELSE SpaceAbsent
        /\ IF part = "worker" THEN WorkerInit ELSE WorkerAbsent
ExceptAuth == <<terminalVars, browserVars, mailVars, projectVars, reviewVars,
              releaseVars, readerVars, libraryVars, transferVars,
              spaceVars, workerVars>>
ExceptTerminal == <<authVars, browserVars, mailVars, projectVars, reviewVars,
              releaseVars, readerVars, libraryVars, transferVars,
              spaceVars, workerVars>>
ExceptBrowser == <<authVars, terminalVars, mailVars, projectVars, reviewVars,
              releaseVars, readerVars, libraryVars, transferVars,
              spaceVars, workerVars>>
ExceptMail == <<authVars, terminalVars, browserVars, projectVars, reviewVars,
              releaseVars, readerVars, libraryVars, transferVars,
              spaceVars, workerVars>>
ExceptProject == <<authVars, terminalVars, browserVars, mailVars, reviewVars,
              releaseVars, readerVars, libraryVars, transferVars,
              spaceVars, workerVars>>
ExceptReview == <<authVars, terminalVars, browserVars, mailVars, projectVars,
              releaseVars, readerVars, libraryVars, transferVars,
              spaceVars, workerVars>>
ExceptRelease == <<authVars, terminalVars, browserVars, mailVars, projectVars,
              reviewVars, readerVars, libraryVars, transferVars, spaceVars,
              workerVars>>
ExceptReader == <<authVars, terminalVars, browserVars, mailVars, projectVars,
              reviewVars, releaseVars, libraryVars, transferVars,
              spaceVars, workerVars>>
ExceptLibrary == <<authVars, terminalVars, browserVars, mailVars, projectVars,
              reviewVars, releaseVars, readerVars, transferVars, spaceVars,
              workerVars>>
ExceptTransfer == <<authVars, terminalVars, browserVars, mailVars, projectVars,
              reviewVars, releaseVars, readerVars, libraryVars, spaceVars,
              workerVars>>
ExceptSpace == <<authVars, terminalVars, browserVars, mailVars, projectVars,
              reviewVars, releaseVars, readerVars, libraryVars,
              transferVars, workerVars>>
ExceptWorker == <<authVars, terminalVars, browserVars, mailVars, projectVars,
              reviewVars, releaseVars, readerVars, libraryVars,
              transferVars, spaceVars>>
Next ==
  /\ UNCHANGED part
  /\ \/ part = "auth" /\ AuthNext /\ UNCHANGED ExceptAuth
     \/ part = "terminal" /\ TerminalNext /\ UNCHANGED ExceptTerminal
     \/ part = "browser" /\ BrowserNext /\ UNCHANGED ExceptBrowser
     \/ part = "mail" /\ MailNext /\ UNCHANGED ExceptMail
     \/ part = "project" /\ ProjectNext /\ UNCHANGED ExceptProject
     \/ part = "review" /\ ReviewNext /\ UNCHANGED ExceptReview
     \/ part = "release" /\ ReleaseNext /\ UNCHANGED ExceptRelease
     \/ part = "reader" /\ ReaderNext /\ UNCHANGED ExceptReader
     \/ part = "library" /\ LibraryNext /\ UNCHANGED ExceptLibrary
     \/ part = "transfer" /\ TransferNext /\ UNCHANGED ExceptTransfer
     \/ part = "space" /\ SpaceNext /\ UNCHANGED ExceptSpace
     \/ part = "worker" /\ WorkerNext /\ UNCHANGED ExceptWorker
Spec == Init /\ [][Next]_vars
TypeOK ==
  \/ part = "auth" /\ AuthTypeOK
  \/ part = "terminal" /\ TerminalTypeOK
  \/ part = "browser" /\ BrowserTypeOK
  \/ part = "mail" /\ MailTypeOK
  \/ part = "project" /\ ProjectTypeOK
  \/ part = "review" /\ ReviewTypeOK
  \/ part = "release" /\ ReleaseTypeOK
  \/ part = "reader" /\ ReaderTypeOK
  \/ part = "library" /\ LibraryTypeOK
  \/ part = "transfer" /\ TransferTypeOK
  \/ part = "space" /\ SpaceTypeOK
  \/ part = "worker" /\ WorkerTypeOK
=============================================================================
