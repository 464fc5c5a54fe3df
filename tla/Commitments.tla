---------------------------- MODULE Commitments -----------------------------
(***************************************************************************)
(* The background review of the owner's conversation: chat/                  *)
(* commitment_review.py, commitment_followup.py and commitment_research.py,   *)
(* with the cron worker of runtime/hermes/commitment_worker.py.              *)
(*                                                                         *)
(* A worker claims a review, may collect public research, infers, and         *)
(* completes. Each is a transaction of its own; in between the owner pauses   *)
(* or enables the responsibility, decides on suggestions, changes follow-ups  *)
(* and writes on. Any answer may be lost and any worker may die.             *)
(***************************************************************************)
EXTENDS Base, FiniteSets

CONSTANTS
  Items,           \* commitments, by the message they were found in
  Homes,           \* conversation and binding revision of the owner's account
  CronJobs,        \* runs of the worker that may overlap
  MaxReviews, MaxText, MaxMandate, MaxChanges, LastDay,
  ReviewTtl,       \* expires_at - created_at
  DayLong,         \* DAY
  Budget,          \* reviews per day
  FollowLimit      \* live follow-ups

ASSUME ReviewAssumption == MaxReviews \in Nat /\ LastDay \in Nat /\ DayLong \in Nat /\ Budget \in Nat

ReviewIds == 1..MaxReviews
LiveStates == {"active", "snoozed"}

VARIABLES
  today, text,     \* the clock; the revision of the recent conversation
  bound,           \* the binding of the owner's account, None when inactive
  mandate, review, sugg, fup,
  cron,            \* cron[w]: a run of the worker
  gone             \* the follow-ups the owner has completed or stopped

reviewVars == <<today, text, bound, mandate, review, sugg, fup, cron, gone>>

NoReview == [state |-> None, kind |-> None, epoch |-> 0, input |-> 0, at |-> 0, due |-> [i \in {} |-> 0], asks |-> FALSE, got |-> FALSE]
NoSuggestion == [state |-> None, epoch |-> 0, input |-> 0, at |-> 0, bind |-> None]
NoAlert == [rev |-> 0, epoch |-> 0, input |-> 0, at |-> 0]
NoFollowup == [state |-> None, rev |-> 0, bind |-> None, until |-> 0, asks |-> FALSE, seen |-> 0, note |-> 0, notice |-> NoAlert]
Unoccupied == [pc |-> "rest", r |-> 0]
ReviewInit ==
  /\ today = 0 /\ text = 0 /\ bound = None /\ gone = {}
  /\ mandate = [bind |-> None, epoch |-> 0, active |-> FALSE]
  /\ review = [r \in ReviewIds |-> NoReview]
  /\ sugg = [i \in Items |-> NoSuggestion] /\ fup = [i \in Items |-> NoFollowup]
  /\ cron = [w \in CronJobs |-> Unoccupied]

ReviewTypeOK ==
  /\ mandate.epoch \in 0..MaxMandate /\ mandate.bind \in Homes \cup {None}
  /\ \A r \in ReviewIds : review[r].state \in {None, "running", "interrupted", "revoked", "failed", "stale", "quiet", "ready"}
  /\ \A i \in Items : /\ sugg[i].state \in {None, "suggested", "confirmed", "dismissed"}
                      /\ fup[i].state \in LiveStates \cup {None, "completed", "stopped", "scope_changed"}

-----------------------------------------------------------------------------
(* The account, the conversation and the clock.                             *)
Rebind(b) == /\ b # bound /\ bound' = b /\ UNCHANGED <<today, text, mandate, review, sugg, fup, cron, gone>>
TurnEnds == /\ text < MaxText /\ text' = text + 1 /\ UNCHANGED <<today, bound, mandate, review, sugg, fup, cron, gone>>
Passes == /\ today < LastDay /\ today' = today + 1 /\ UNCHANGED <<text, bound, mandate, review, sugg, fup, cron, gone>>

(* _mandate                                                                 *)
Mandated == mandate.active /\ bound # None /\ bound = mandate.bind
(* A permission given or withdrawn ends the review that runs.               *)
\* Mutant: the review that runs is left to finish.
RevokedReviews_Kept == review
RevokedReviews == [r \in ReviewIds |-> IF review[r].state = "running" THEN [review[r] EXCEPT !.state = "revoked"] ELSE review[r]]
SetActive(active) ==
  /\ bound # None /\ mandate.epoch < MaxMandate
  /\ mandate' = [bind |-> bound, epoch |-> mandate.epoch + 1, active |-> active]
  /\ review' = RevokedReviews
  /\ fup' = [i \in Items |-> IF fup[i].state # None /\ fup[i].bind # bound
                             THEN [fup[i] EXCEPT !.state = "scope_changed", !.rev = @ + 1, !.notice = NoAlert] ELSE fup[i]]
  /\ UNCHANGED <<today, text, bound, sugg, cron, gone>>

-----------------------------------------------------------------------------
(* claim: what expired is closed; one review at a time; discovery and        *)
(* follow-ups in turn. Which live follow-ups are due by their cadence is     *)
(* left open.                                                               *)
Expired(r) == review[r].state = "running" /\ review[r].at + ReviewTtl <= today
Swept == [r \in ReviewIds |-> IF Expired(r) THEN [review[r] EXCEPT !.state = "interrupted"] ELSE review[r]]
Begun == {r \in ReviewIds : review[r].state # None}
InADay(day) == {r \in Begun : review[r].at > day - DayLong}
LastKind == IF Begun = {} THEN None ELSE review[CHOOSE r \in Begun : \A o \in Begun : o <= r].kind
Selectable == {i \in Items : fup[i].state \in LiveStates /\ fup[i].bind = mandate.bind /\ fup[i].until <= today}
Fresh == /\ text > 0
         /\ ~\E r \in Begun : review[r].kind = "discovery" /\ review[r].input = text /\ review[r].epoch = mandate.epoch
                              /\ review[r].state \in {"quiet", "ready"}
KindFor(due) == IF due # {} /\ (~Fresh \/ LastKind # "followup") THEN "followup" ELSE IF Fresh THEN "discovery" ELSE None
\* Mutant: only the reviews that came to a result count.
WithinBudget_Finished == Cardinality({r \in InADay(today) : review[r].state \in {"quiet", "ready"}}) < Budget
WithinBudget == Cardinality(InADay(today)) < Budget
NewReview(kind, due, state) ==
  [state |-> state, kind |-> kind, epoch |-> mandate.epoch, input |-> text, at |-> today,
   due |-> [i \in (IF kind = "followup" THEN due ELSE {}) |-> fup[i].rev],
   asks |-> kind = "followup" /\ \E i \in due : fup[i].asks, got |-> FALSE]
Claim(w, due) ==
  /\ cron[w].pc = "rest" /\ Mandated /\ due \subseteq Selectable
  /\ IF (\E r \in ReviewIds : Swept[r].state = "running") \/ KindFor(due) = None \/ ~WithinBudget
     THEN /\ Swept # review /\ review' = Swept /\ UNCHANGED cron
     ELSE \E r \in ReviewIds \ Begun, state \in {"running", "failed"}, heard \in BOOLEAN :
            /\ \A o \in ReviewIds \ Begun : r <= o
            /\ review' = [Swept EXCEPT ![r] = NewReview(KindFor(due), due, state)]
            /\ cron' = IF heard /\ state = "running" THEN [cron EXCEPT ![w] = [pc |-> "claimed", r |-> r]] ELSE cron
  /\ UNCHANGED <<today, text, bound, mandate, sugg, fup, gone>>

(* current: every follow-up is still as it was when the review began.       *)
\* Mutant: whatever the owner changed meanwhile.
Unchanged_Live(v) == \A i \in DOMAIN v.due : fup[i].state \in LiveStates
Unchanged(v) == \A i \in DOMAIN v.due : /\ fup[i].rev = v.due[i] /\ fup[i].state \in LiveStates
                                        /\ fup[i].until <= today /\ fup[i].bind = mandate.bind
OpenReview(r) == Mandated /\ review[r].epoch = mandate.epoch /\ review[r].state = "running" /\ review[r].at + ReviewTtl > today

(* attach_research, after the worker has collected what was asked for. A     *)
(* refusal or a lost answer makes the worker report a failure.              *)
AttachResearch(w, heard) ==
  LET r == cron[w].r  accepted == OpenReview(r) /\ review[r].kind = "followup" /\ review[r].input = text /\ Unchanged(review[r]) IN
  /\ cron[w].pc = "claimed" /\ review[r].asks
  /\ review' = IF accepted THEN [review EXCEPT ![r].got = TRUE] ELSE review
  /\ cron' = [cron EXCEPT ![w].pc = IF accepted /\ heard THEN "prompted" ELSE "failed"]
  /\ UNCHANGED <<today, text, bound, mandate, sugg, fup, gone>>
(* isolated_review, native_review                                           *)
Infer(w, pc) ==
  /\ cron[w].pc # "rest" /\ cron[w].pc = IF review[cron[w].r].asks THEN "prompted" ELSE "claimed"
  /\ cron' = [cron EXCEPT ![w].pc = pc]
  /\ UNCHANGED <<today, text, bound, mandate, review, sugg, fup, gone>>

(* publish: `out' says for each commitment whether there is something to     *)
(* write down, new evidence or exchanges, or a check-in, which is refused    *)
(* (_result) before its time. The first review of a commitment alerts the    *)
(* owner only for a check-in. When one is due is left open.                  *)
Results == {"quiet", "update", "news", "check_in"}
Warranted(i, out) == out[i] = "check_in" \/ (out[i] = "news" /\ fup[i].seen > 0)
Published(v, out) ==
  [i \in Items |->
     IF i \notin DOMAIN v.due THEN fup[i]
     ELSE [fup[i] EXCEPT !.state = "active", !.seen = 1,
             !.note = IF out[i] = "quiet" THEN @ ELSE v.due[i],
             !.notice = IF Warranted(i, out)
                        THEN [rev |-> v.due[i], epoch |-> mandate.epoch, input |-> v.input, at |-> today] ELSE @]]
(* INSERT OR IGNORE: a commitment is suggested once, whatever was decided.   *)
\* Mutant: a suggestion replaces the one that was decided.
Suggested_Again(i, out) == out[i] # "quiet"
Suggested(i, out) == out[i] # "quiet" /\ sugg[i].state = None
WithSuggestions(v, out) ==
  [i \in Items |-> IF v.kind = "discovery" /\ Suggested(i, out)
                   THEN [state |-> "suggested", epoch |-> mandate.epoch, input |-> v.input, at |-> today, bind |-> mandate.bind]
                   ELSE sugg[i]]
(* complete, _result                                                        *)
Outcome(v, failed, out) ==
  IF text # v.input \/ ~Unchanged(v) THEN "stale"
  ELSE IF failed \/ (v.asks /\ ~v.got) THEN "failed"
  ELSE IF v.kind = "followup" THEN IF \E i \in DOMAIN v.due : out[i] # "quiet" THEN "ready" ELSE "quiet"
  ELSE IF \E i \in Items : Suggested(i, out) THEN "ready" ELSE "quiet"
CompleteReview(w, out) ==
  LET r == cron[w].r  v == review[r]  state == Outcome(v, cron[w].pc = "failed", out) IN
  /\ cron[w].pc \in {"inferred", "failed"}
  /\ cron' = [cron EXCEPT ![w] = Unoccupied]
  /\ IF OpenReview(r)
     THEN /\ review' = [review EXCEPT ![r].state = state]
          /\ sugg' = IF state = "ready" THEN WithSuggestions(v, out) ELSE sugg
          /\ fup' = IF state \in {"ready", "quiet"} THEN Published(v, out) ELSE fup
     ELSE UNCHANGED <<review, sugg, fup>>
  /\ UNCHANGED <<today, text, bound, mandate, gone>>
WorkerDies(w) == /\ cron[w].pc # "rest" /\ cron' = [cron EXCEPT ![w] = Unoccupied]
                 /\ UNCHANGED <<today, text, bound, mandate, review, sugg, fup, gone>>

-----------------------------------------------------------------------------
(* The owner. decide: confirming a suggestion may start its follow-up, in    *)
(* the same transaction.                                                    *)
Decide(i, decision) ==
  /\ sugg[i].state \in {"suggested", decision} /\ sugg' = [sugg EXCEPT ![i].state = decision]
  /\ sugg' # sugg /\ UNCHANGED <<today, text, bound, mandate, review, fup, cron, gone>>
Follows(i) ==
  /\ sugg[i].state \in {"suggested", "confirmed"} /\ Mandated /\ sugg[i].bind = mandate.bind
  /\ fup[i].state = None /\ Cardinality({j \in Items : fup[j].state \in LiveStates}) < FollowLimit
  /\ sugg' = [sugg EXCEPT ![i].state = "confirmed"]
  /\ fup' = [fup EXCEPT ![i] = [NoFollowup EXCEPT !.state = "active", !.rev = 1, !.bind = mandate.bind]]
  /\ UNCHANGED <<today, text, bound, mandate, review, cron, gone>>
(* change: over the revision the owner has seen. What narrows needs no       *)
(* permission.                                                              *)
Changes(i, new) ==
  /\ fup[i].state \in LiveStates /\ fup[i].rev < MaxChanges
  /\ fup' = [fup EXCEPT ![i] = [new EXCEPT !.rev = fup[i].rev + 1, !.notice = NoAlert]]
  /\ UNCHANGED <<today, text, bound, mandate, review, sugg, cron>>
Allowed(i) == Mandated /\ fup[i].bind = mandate.bind
EndFollowup(i, state) == Changes(i, [fup[i] EXCEPT !.state = state]) /\ gone' = gone \cup {i}
Snooze(i) == Allowed(i) /\ Changes(i, [fup[i] EXCEPT !.state = "snoozed", !.until = today + DayLong]) /\ UNCHANGED gone
Progresses(i) == Allowed(i) /\ Changes(i, [fup[i] EXCEPT !.state = "active", !.until = 0]) /\ UNCHANGED gone
AskPublicly(i, asks) == (asks => Allowed(i)) /\ Changes(i, [fup[i] EXCEPT !.asks = asks, !.note = 0]) /\ UNCHANGED gone

ReviewNext ==
  \/ \E b \in Homes \cup {None} : Rebind(b)
  \/ TurnEnds \/ Passes
  \/ \E active \in BOOLEAN : SetActive(active)
  \/ \E w \in CronJobs : \/ \E due \in SUBSET Items : Claim(w, due)
                         \/ \E heard \in BOOLEAN : AttachResearch(w, heard)
                         \/ \E pc \in {"inferred", "failed"} : Infer(w, pc)
                         \/ \E out \in [Items -> Results] : CompleteReview(w, out)
                         \/ WorkerDies(w)
  \/ \E i \in Items : \/ \E decision \in {"confirmed", "dismissed"} : Decide(i, decision)
                      \/ Follows(i) \/ Snooze(i) \/ Progresses(i)
                      \/ \E state \in {"completed", "stopped"} : EndFollowup(i, state)
                      \/ \E asks \in BOOLEAN : AskPublicly(i, asks)

-----------------------------------------------------------------------------
(* notification_items, notification_decision: what a phone may still be told *)
(* in the quiet hours' absence.                                             *)
TellsOf(i) == /\ Mandated /\ fup[i].notice # NoAlert /\ fup[i].state = "active" /\ fup[i].until <= today
              /\ fup[i].notice.rev = fup[i].rev /\ fup[i].notice.epoch = mandate.epoch /\ fup[i].notice.at + DayLong > today
              /\ fup[i].bind = mandate.bind /\ fup[i].notice.input = text
\* The owner has the last word, whatever a review had read before it. One
\* review runs at most, under the present permission, and only as many begin in
\* a day as were agreed. A review that ends late neither wakes what the owner
\* put off nor revives what the owner ended; a notice on record is of the
\* revision the owner left, and when a phone is told of it, the note of that
\* revision is there to be read.
OwnerHasTheLastWord ==
  part = "review" =>
    /\ \A r, o \in ReviewIds : review[r].state = "running" /\ review[o].state = "running" => r = o
    /\ \A r \in ReviewIds : review[r].state = "running" => review[r].epoch = mandate.epoch
    /\ \A day \in 0..LastDay : Cardinality({r \in InADay(day) : review[r].at <= day}) <= Budget
    /\ \A i \in gone : fup[i].state \notin LiveStates
    /\ \A i \in Items : /\ fup[i].state = "active" => fup[i].until <= today
                        /\ fup[i].notice # NoAlert => fup[i].notice.rev = fup[i].rev
                        /\ TellsOf(i) => fup[i].note = fup[i].rev
                        /\ fup[i].state # None => sugg[i].state = "confirmed"
=============================================================================
