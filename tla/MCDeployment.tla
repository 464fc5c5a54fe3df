---------------------------- MODULE MCDeployment ----------------------------
EXTENDS Deployment

(* Corners of the parts whose whole state space is too large.              *)
Calling == {x \in Callers : call[x].pc # "idle"}
Started == {k \in Tokens : sess[k].a # None}
AuthCorners ==
  \/ Cardinality(Calling) <= 1 /\ Cardinality(Started) <= 1
  \/ /\ \A x \in Callers : call[x].pc \in {"idle", "verify", "admit"} /\ call[x].right = (call[x].pc # "idle") /\ ~call[x].remember
     /\ \A k \in Tokens : ~sess[k].revoked
     /\ \A a \in Accounts : cred[a].known = cred[a].active /\ \A src \in Sources : throttle[a][src] = NoFailures
(* A hand-over and back; or the owner lets an agent look, and again.         *)
BrowserCorners == br.rev < MaxRevision \/ (br.observe /\ watched.pc # "idle")
(* Messages of any kind taken up by both threads; or what the egress thread  *)
(* makes of one message and its task, or of a message and a question.        *)
AtRest == {th \in Receivers : turn[th].pc = "idle"}
MailCorners ==
  /\ post[1].intent \in {None, "plain"}
  /\ \/ /\ egress.pc = "idle" /\ signed = 0
        /\ \A t \in Mail : job[t].said = 0 /\ (job[t].rev <= 2 \/ settled # {})
        /\ post[2] = NoPost \/ AtRest # {} \/ turn["web"].e = turn["ingress"].e
     \/ /\ AtRest = Receivers \/ (AtRest # {} /\ egress.pc = "idle")
        /\ \/ post[2] = NoPost
           \/ /\ post[2].intent = "status" /\ post[2].reply = 0
              /\ job[1].rev <= 1 /\ job[2].rev = 0
              /\ "ingress" \in AtRest \/ signed = 0
(* A plan and what the owner adds while it is made; or a build, its review   *)
(* and release, and what the owner adds once there is a verdict.            *)
ProjectCorners ==
  \/ /\ note[1] \in {None, "goal", "both"} /\ note[2] \in {None, "stop", "files", "pause", "reviewer_talk", "status"}
     /\ work[3] = NoTask /\ \A t \in Tasks : work[t].report.rev # "b"
  \/ /\ note[1] \in {None, "build"} /\ note[2] \in {None, "accept", "deploy", "build"}
     /\ work[1].report \in {NoReport, [kind |-> "preview", rev |-> "a"]} /\ work[2].report.kind # "text"
     /\ note[2] = None \/ coord.verdict # None \/ work[1].state = "none" \/ coord.task = 0
     /\ work[2].report.kind = "READY" \/ work[3] = NoTask
(* Overlapping runs of the worker; or three reviews in a row; or a changed   *)
(* binding once the responsibility has been enabled.                        *)
Still == {w \in CronJobs : cron[w].pc = "rest"}
ReviewCorners ==
  /\ \/ bound = "b" \/ (mandate.epoch = 0 /\ bound = None /\ today + text = 0)
     \/ mandate.epoch > 0 /\ bound = "c" /\ review[2] = NoReview /\ Still # {}
  /\ Still # {} \/ (review[3] = NoReview /\ review[2] # NoReview)
  /\ review[3] = NoReview \/ mandate.epoch <= 1
WebBusy == {w \in Web : req[w].pc # "idle"}
TurnBegun(t) == turns[t].st # "none"
Uploads(w) == req[w].op = "upload" /\ req[w].pc # "idle"
(* Two uploads of one file, and a look at the library; or one callback of a  *)
(* turn over a text, beside another that finds the parser busy; or            *)
(* what the second turn's grant holds.                                      *)
LibraryCorners ==
  \/ /\ ~TurnBegun(1)
     /\ Cardinality(WebBusy) = 2 => req["w1"].f = req["w2"].f /\ look.pc = "off" /\ \A w \in Web : req[w].place = "plain"
     /\ look.pc # "off" => \A f \in Files : stored[f].v < 2 /\ stored[f].place = "plain"
  \/ /\ TurnBegun(1) /\ ~TurnBegun(2) /\ look.pc = "off" /\ released = {}
     /\ stored["d"].v = 1 /\ stored["d"].place = "plain" /\ stored["d"].at = 1 /\ (runOf["r2"].t = 0 \/ runOf["r1"].t = 1)
     /\ stored["e"].at = 0 \/ stored["e"].by # 0
     /\ \A w \in Web : Uploads(w) => req[w].f = "e" /\ req[w].v = 1 /\ req[w].place = "public" /\ req[w].r # None
     /\ req["w2"].pc # "idle" => req["w2"].op = "read" /\ req["w2"].f = "d" /\ req["w1"].pc = "parse"
  \/ /\ TurnBegun(2) /\ look.pc = "off" /\ released = {}
     /\ \A w \in Web : Uploads(w) => req[w].place = "private" /\ req[w].v = 1
     /\ \A w \in Web : req[w].pc # "idle" /\ req[w].op # "upload" => req[w].op = "share" /\ req[w].t = 1 
     /\ req["w2"].pc = "idle" /\ runOf["r2"].t = 0 /\ Cardinality(attached[2]) < 2 /\ attached[1] = {}
(* Downloads, the second once the first is complete and nobody is observed;   *)
(* or uploads.                                                              *)
TransferCorners ==
  \/ opened = 0 /\ (dl["d2"].file = "no" \/ (dl["d1"].state = "completed" /\ control # "observed"))
  \/ \A d \in Downloads : dl[d].file = "no"
(* The owner's input on one launch, with an old grant still on its way; or    *)
(* launches one after another, without input.                               *)
SpaceCorners ==
  \/ /\ handle.id <= 1 /\ coldReceipt = "none" /\ handle.state \in {"none", "starting", "running"}
     /\ launches[1] \in {"none", "running"} /\ (late.op = "none" \/ (late.op = "publish" /\ late.holder))
     /\ guest.launch \in chromes \cup {0}
  \/ tick = 0 /\ handle.seq <= 3 /\ section = "idle" /\ ~fence.made /\ request.op # "publish"
InCorner ==
  CASE part = "auth" -> AuthCorners
    [] part = "terminal" -> \A t \in Tabs : shell[t].epoch <= MaxEpoch
    [] part = "browser" -> BrowserCorners
    [] part = "mail" -> MailCorners
    [] part = "project" -> ProjectCorners
    [] part = "review" -> ReviewCorners
    [] part = "library" -> LibraryCorners
    [] part = "transfer" -> TransferCorners
    [] part = "space" -> SpaceCorners
    [] OTHER -> TRUE
=============================================================================
