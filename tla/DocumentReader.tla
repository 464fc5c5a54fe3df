--------------------------- MODULE DocumentReader ---------------------------
(***************************************************************************)
(* Reading or searching one original, answer by answer: the bounded scan of  *)
(* chat/document_parser.py and the cursors of chat/document_access.py.       *)
(*                                                                         *)
(* An original is a sequence of fragments, each a chunk of one line, page,   *)
(* paragraph or cell (its base). An answer stops at a limit and carries a    *)
(* cursor; the next one scans again: a plain text from the retained          *)
(* fragment, every other format from the start. Characters are "a" and a     *)
(* blank, a needle is so many "a"; case folding is left out, and so is every *)
(* character an excerpt shows around a hit. An original may be damaged: its   *)
(* reader raises at the fragment ask.bad, or after the last, and the answer   *)
(* under way is lost. (A PDF or slide reader that skips the damage has none.) *)
(***************************************************************************)
EXTENDS Base, Sequences, FiniteSets

CONSTANTS
  MaxFragments, MaxBases,   \* bounds of the originals
  ChunkChars, MaxShown, MaxPassages, MaxUnits,
  Needles, Offsets          \* what is searched for, where a locator begins

\* A chunk fits an answer (CHUNK_CHARS, MAX_TEXT_BYTES), and a needle is no
\* longer than a chunk and one more (a query has 512 characters at most).
ASSUME ReaderAssumption ==
  /\ MaxFragments \in Nat /\ MaxBases \in Nat /\ ChunkChars \in Nat \ {0}
  /\ MaxShown \in Nat /\ MaxShown >= ChunkChars /\ MaxPassages \in Nat /\ MaxUnits \in Nat
  /\ Needles \subseteq 1..ChunkChars + 1 /\ Offsets \subseteq Nat

VARIABLES
  doc,      \* the original's fragments
  ask,      \* the request: a needle (0 when it reads), a locator; where the reader meets damage
  pass,     \* the scan for one answer
  given     \* the fragments that the answers so far have shown, in order

readerVars == <<doc, ask, pass, given>>

(* Fragments: only the last chunk of a base is short; an empty one is a base *)
(* of its own, and no line of a text.                                       *)
Texts == UNION {[1..n -> {"a", " "}] : n \in 0..ChunkChars}
WellFormed(kind, d) ==
  \A i \in DOMAIN d :
     LET alone == (i = 1 \/ d[i - 1].base # d[i].base) /\ (i = Len(d) \/ d[i + 1].base # d[i].base) IN
     /\ i = 1 => d[i].base = 1
     /\ i > 1 => d[i].base \in {d[i - 1].base, d[i - 1].base + 1}
     /\ i < Len(d) /\ d[i + 1].base = d[i].base => Len(d[i].text) = ChunkChars
     /\ d[i].text = <<>> => alone /\ kind # "text"
Originals(kind) == {d \in UNION {[1..n -> [base : 1..MaxBases, text : Texts]] : n \in 1..MaxFragments} : WellFormed(kind, d)}
\* The offset of fragment i in its base.
Offset(d, i) == ChunkChars * Cardinality({k \in 1..i - 1 : d[k].base = d[i].base})
Blank(text) == \A i \in DOMAIN text : text[i] = " "

Searching == ask.needle > 0
Overlap == IF Searching THEN ask.needle - 1 ELSE 0
NoAsk == [kind |-> "text", needle |-> 0, sel |-> 0, off |-> 0, bad |-> 0]
NoCursor == [position |-> 0, from |-> 0, any |-> FALSE]
NoPass == [pc |-> "none", cursor |-> NoCursor, index |-> 0, any |-> FALSE, tail |-> <<>>, count |-> 0, bytes |-> 0,
           scanned |-> 0, found |-> FALSE, at |-> FALSE]
ReaderInit == doc = <<>> /\ ask = NoAsk /\ pass = NoPass /\ given = <<>>
ReaderTypeOK == /\ pass.pc \in {"none", "scan", "answered", "complete", "unreadable", "damaged", "empty", "not_found"}
                /\ pass.index \in 0..MaxFragments /\ pass.cursor.position \in 0..MaxFragments /\ Len(given) <= 2 * MaxFragments

-----------------------------------------------------------------------------
BeginReading(kind, d, needle, sel, off, bad) ==
  /\ doc' = d /\ ask' = [kind |-> kind, needle |-> needle, sel |-> sel, off |-> off, bad |-> bad]
  /\ pass' = [NoPass EXCEPT !.pc = "scan"] /\ UNCHANGED given
(* The next call carries the cursor of the last answer.                     *)
NextAnswer == /\ pass.pc = "answered"
              /\ pass' = [NoPass EXCEPT !.pc = "scan", !.cursor = pass.cursor, !.any = pass.cursor.any,
                                        !.index = pass.cursor.from]
              /\ UNCHANGED <<doc, ask, given>>

Fragment == doc[pass.index + 1]
Contiguous == pass.index > pass.cursor.from /\ doc[pass.index].base = Fragment.base
Prefix == IF Contiguous THEN pass.tail ELSE <<>>
Combined == Prefix \o Fragment.text
LastOf(s, n) == IF Len(s) <= n THEN s ELSE SubSeq(s, Len(s) - n + 1, Len(s))
(* A hit that ends after the prefix; one inside it was shown before.        *)
HitAfter(needle, text, least) == \E e \in least + 1..Len(text) :
                                   e >= needle /\ \A k \in 0..needle - 1 : text[e - k] = "a"
InChosen == ask.sel = 0 \/ Fragment.base = ask.sel
AnyText == pass.any \/ (InChosen /\ ~Blank(Fragment.text))
EndsAt == Offset(doc, pass.index + 1) + Len(Fragment.text)
Scanned == [pass EXCEPT !.tail = LastOf(Combined, Overlap), !.any = AnyText]

(* What of the fragment an answer shows.                                    *)
Begins == LET o == Offset(doc, pass.index + 1) IN IF ask.sel # 0 /\ ask.off > o THEN ask.off - o ELSE 0
Showing == IF Searching THEN IF HitAfter(ask.needle, Combined, Len(Prefix)) THEN Fragment.text ELSE <<>>
         ELSE SubSeq(Fragment.text, Begins + 1, Len(Fragment.text))

Readable(i) == i # ask.bad
OnFragment == pass.pc = "scan" /\ pass.index < Len(doc) /\ Readable(pass.index + 1) /\ UNCHANGED <<doc, ask>>
Seeking == pass.index >= pass.cursor.position
Skip ==
  /\ OnFragment
  /\ \/ ~Seeking
     \/ Seeking /\ ~InChosen /\ ~pass.found
     \/ Seeking /\ InChosen /\ ask.sel # 0 /\ Fragment.text # <<>> /\ EndsAt <= ask.off
  /\ pass' = [Scanned EXCEPT !.index = @ + 1, !.found = @ \/ (Seeking /\ InChosen /\ ask.sel # 0)]
  /\ UNCHANGED given
Concluded(p, wanted) == IF ask.sel # 0 /\ ~wanted THEN "not_found" ELSE IF ~p.any THEN "empty" ELSE "complete"
(* Beyond the chosen base.                                                  *)
LeaveBase == /\ OnFragment /\ Seeking /\ ~InChosen /\ pass.found
             /\ pass' = [pass EXCEPT !.pc = Concluded(pass, pass.at)] /\ UNCHANGED given
Reached == IF Fragment.text = <<>> THEN ask.off = 0 ELSE ask.off < EndsAt
Scannable == /\ OnFragment /\ Seeking /\ InChosen
             /\ ask.sel = 0 \/ Fragment.text = <<>> \/ EndsAt > ask.off
Found(p) == IF ask.sel = 0 THEN p ELSE [p EXCEPT !.found = TRUE, !.at = Reached]
(* The cursor: a plain text is read on from the fragment the scan had last   *)
(* read, when there is one. The caller refuses one that makes no progress.   *)
Continued(p, next, prior) ==
  IF next <= pass.cursor.position THEN [p EXCEPT !.pc = "unreadable"]
  ELSE [p EXCEPT !.pc = "answered",
                 !.cursor = IF ask.kind = "text" /\ prior >= pass.cursor.from THEN [position |-> next, from |-> prior, any |-> p.any]
                            ELSE [position |-> next, from |-> 0, any |-> FALSE]]
Fits == Showing = <<>> \/ pass.bytes + Len(Showing) <= MaxShown
\* Mutant: the answer is full and the fragment that did not fit counts as read.
NextIndex_Past(fits) == pass.index + 1
NextIndex(fits) == IF fits THEN pass.index + 1 ELSE pass.index
Overflow == /\ Scannable /\ ~Fits
            /\ pass' = LET p == Found([Scanned EXCEPT !.scanned = @ + 1]) IN
                       Continued(p, NextIndex(FALSE), pass.index - 1)
            /\ UNCHANGED given
(* The answer's passages go with it.                                         *)
LosesTheAnswer == pass' = [pass EXCEPT !.pc = "damaged"] /\ given' = SubSeq(given, 1, Len(given) - pass.count)
MeetsDamage == pass.pc = "scan" /\ ~Readable(pass.index + 1) /\ LosesTheAnswer /\ UNCHANGED <<doc, ask>>
\* A full answer looks one fragment ahead.
ScanFragment ==
  /\ Scannable /\ Fits
  /\ LET shows == ~Blank(Showing)
         p == Found([Scanned EXCEPT !.scanned = @ + 1, !.index = @ + 1, !.count = IF shows THEN @ + 1 ELSE @,
                                    !.bytes = IF shows THEN @ + Len(Showing) ELSE @])
         full == p.count = MaxPassages \/ p.scanned = MaxUnits
         more == pass.index + 1 < Len(doc) /\ (ask.sel = 0 \/ doc[pass.index + 2].base = ask.sel) IN
     IF full /\ ~Readable(pass.index + 2) THEN LosesTheAnswer
     ELSE /\ given' = IF shows THEN Append(given, pass.index + 1) ELSE given
          /\ pass' = IF ~full THEN p ELSE IF more THEN Continued(p, NextIndex(TRUE), pass.index) ELSE [p EXCEPT !.pc = "complete"]
EndOfDocument ==
  /\ pass.pc = "scan" /\ pass.index = Len(doc) /\ Readable(Len(doc) + 1)
  /\ pass' = [pass EXCEPT !.pc = Concluded(pass, pass.found /\ pass.at)] /\ UNCHANGED <<doc, ask, given>>

ReaderNext ==
  \/ /\ pass.pc = "none"
     /\ \E kind \in {"text", "pages"}, needle \in {0} \cup Needles : \E d \in Originals(kind) :
       \/ \E bad \in 0..Len(d) + 1 : BeginReading(kind, d, needle, 0, 0, bad)
       \/ needle = 0 /\ \E sel \in 1..MaxBases, off \in Offsets, bad \in {0, Len(d)} : BeginReading(kind, d, 0, sel, off, bad)
  \/ NextAnswer \/ Skip \/ LeaveBase \/ Overflow \/ MeetsDamage \/ ScanFragment \/ EndOfDocument

-----------------------------------------------------------------------------
(* What a reading ought to show, said of the original as a whole.           *)
BaseText(d) == \* the text of each fragment's base, up to its end
  LET upTo[i \in 0..Len(d)] ==
        IF i = 0 THEN <<>>
        ELSE (IF i > 1 /\ d[i - 1].base = d[i].base THEN upTo[i - 1] ELSE <<>>) \o d[i].text
  IN  upTo
Hits(d, needle, i) == LET text == BaseText(d)[i] IN HitAfter(needle, text, Len(text) - Len(d[i].text))
Wanted(d, q, i) ==
  IF q.needle > 0 THEN Hits(d, q.needle, i)
  ELSE /\ q.sel # 0 => d[i].base = q.sel
       /\ ~Blank(SubSeq(d[i].text, (IF q.sel # 0 /\ q.off > Offset(d, i) THEN q.off - Offset(d, i) ELSE 0) + 1,
                        Len(d[i].text)))

\* The answers to one question, put together, show every fragment it asks for
\* once and in order, a hit that lies across two fragments or two answers
\* included; what was shown so far is always a beginning of that. A cursor
\* always leads on, nothing is reported missing that is there, and no reading
\* of a whole original ends well that met damage.
ReadingMissesNothing ==
  part = "reader" =>
    LET shown == {given[k] : k \in DOMAIN given}
        wanted == {i \in DOMAIN doc : Wanted(doc, ask, i)} IN
    /\ \A k, l \in DOMAIN given : k < l => given[k] < given[l]
    /\ shown \subseteq wanted
    /\ \A i \in wanted, j \in shown : i < j => i \in shown
    /\ pass.pc = "complete" => shown = wanted
    /\ pass.pc # "unreadable"
    /\ pass.pc = "complete" /\ ask.sel = 0 => ask.bad = 0
    /\ pass.pc \in {"empty", "not_found"} => wanted = {}
=============================================================================
