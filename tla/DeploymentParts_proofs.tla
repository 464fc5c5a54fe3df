----------------------- MODULE DeploymentParts_proofs -----------------------
(***************************************************************************)
(* The inductive invariants of six parts of the deployment, for every value *)
(* of the constants: the reading of an original, a release, the sign-in     *)
(* calls, the owner's shells, the library and the background review.        *)
(* Deployment_proofs lifts them to behaviours of Deployment.                *)
(***************************************************************************)
EXTENDS AuthSessions, OwnerTerminal, Releases, Library, Commitments, DocumentReader,
        WellFoundedInduction, SequenceTheorems, FiniteSetTheorems, TLAPS

\* A set of numbers has a least one.
LEMMA LeastRow ==
  ASSUME NEW S \in SUBSET Nat, S # {}
  PROVE  \E x \in S : \A y \in S : x <= y
<1>1. PICK x \in S : \A y \in S : ~(<<y, x>> \in OpToRel(<, Nat))
  BY NatLessThanWellFounded, WFMin
<1>2. \A y \in S : ~(y < x)
  <2> SUFFICES ASSUME NEW y \in S, y < x PROVE <<y, x>> \in OpToRel(<, Nat)
    BY <1>1
  <2>1. y \in Nat /\ x \in Nat
    OBVIOUS
  <2> QED
    BY <2>1, Zenon DEF OpToRel
<1>3. x \in Nat /\ \A y \in S : y \in Nat
  OBVIOUS
<1>4. \A y \in S : x <= y
  BY <1>2, <1>3
<1> QED
  BY <1>4

-----------------------------------------------------------------------------
(* Reading an original.                                                    *)

\* What holds of 0 and goes on from each number to the next holds of all.
LEMMA UpFromZero ==
  ASSUME NEW S, 0 \in S, \A n \in Nat : n \in S => n + 1 \in S
  PROVE  \A n \in Nat : n \in S
<1> SUFFICES ASSUME Nat \ S # {} PROVE FALSE
  OBVIOUS
<1>1. PICK x \in Nat \ S : \A y \in Nat \ S : x <= y
  BY LeastRow
<1>2. x # 0 /\ x - 1 \in Nat
  OBVIOUS
<1>3. x - 1 \notin Nat \ S
  BY <1>1, <1>2
<1> QED
  BY <1>2, <1>3

Chars == {"a", " "}
TextSoFar(d, f, i) ==
  IF i = 0 THEN <<>>
  ELSE (IF i > 1 /\ d[i - 1].base = d[i].base THEN f[i - 1] ELSE <<>>) \o d[i].text

\* The texts of the bases are defined from fragment to fragment.
LEMMA TextsExist ==
  ASSUME NEW d
  PROVE  \A m \in Nat : \E f : f = [i \in 0..m |-> TextSoFar(d, f, i)]
<1> DEFINE S == {m \in Nat : \E f : f = [i \in 0..m |-> TextSoFar(d, f, i)]}
<1>1. 0 \in S
  <2> PICK f : f = [i \in 0..0 |-> <<>>]
    OBVIOUS
  <2>1. f = [i \in 0..0 |-> TextSoFar(d, f, i)]
    BY DEF TextSoFar
  <2> QED
    BY <2>1
<1>2. ASSUME NEW n \in Nat, n \in S PROVE n + 1 \in S
  <2>1. PICK f : f = [i \in 0..n |-> TextSoFar(d, f, i)]
    BY <1>2
  <2> PICK g : g = [i \in 0..n + 1 |-> IF i <= n THEN f[i] ELSE TextSoFar(d, f, i)]
    OBVIOUS
  <2>2. ASSUME NEW i \in 0..n + 1 PROVE TextSoFar(d, g, i) = TextSoFar(d, f, i)
    <3>1. i > 1 => i - 1 \in 0..n + 1 /\ i - 1 <= n
      OBVIOUS
    <3>2. i > 1 => g[i - 1] = f[i - 1]
      BY <3>1
    <3> QED
      BY <3>2 DEF TextSoFar
  <2>3. ASSUME NEW i \in 0..n + 1 PROVE g[i] = TextSoFar(d, g, i)
    <3>1. CASE i <= n
      <4>1. g[i] = f[i] /\ f[i] = TextSoFar(d, f, i)
        BY <2>1, <3>1
      <4> QED
        BY <2>2, <4>1
    <3>2. CASE ~(i <= n)
      BY <2>2, <3>2
    <3> QED
      BY <3>1, <3>2
  <2>4. g = [i \in 0..n + 1 |-> TextSoFar(d, g, i)]
    BY <2>3
  <2> QED
    BY <2>4
<1> HIDE DEF S
<1>3. \A n \in Nat : n \in S
  BY <1>1, <1>2, UpFromZero
<1> QED
  BY <1>3 DEF S

LEMMA TextsAre ==
  ASSUME NEW d, Len(d) \in Nat
  PROVE  BaseText(d) = [i \in 0..Len(d) |-> TextSoFar(d, BaseText(d), i)]
<1>1. \E f : f = [i \in 0..Len(d) |-> TextSoFar(d, f, i)]
  BY TextsExist
<1>2. BaseText(d) = CHOOSE f : f = [i \in 0..Len(d) |-> TextSoFar(d, f, i)]
  BY DEF BaseText, TextSoFar
<1> QED
  BY <1>1, <1>2

\* An original that a reader yields.
Original(d) ==
  /\ Len(d) \in Nat /\ DOMAIN d = 1..Len(d)
  /\ \A i \in 1..Len(d) :
       /\ d[i].base \in Nat /\ d[i].text \in Seq(Chars) /\ Len(d[i].text) <= ChunkChars
       /\ i < Len(d) => d[i + 1].base \in {d[i].base, d[i].base + 1}
       /\ i < Len(d) /\ d[i + 1].base = d[i].base =>
            Len(d[i].text) = ChunkChars /\ d[i].text # <<>> /\ d[i + 1].text # <<>>

LEMMA OriginalsAre ==
  ASSUME NEW kind, NEW d \in Originals(kind)
  PROVE  Original(d)
<1>1. PICK n \in 1..MaxFragments : d \in [1..n -> [base : 1..MaxBases, text : Texts]]
  BY DEF Originals
<1>2. WellFormed(kind, d)
  BY DEF Originals
<1>3. n \in Nat /\ Len(d) = n /\ DOMAIN d = 1..n
  BY <1>1, ReaderAssumption
<1>4. ASSUME NEW i \in 1..n
      PROVE  d[i].base \in Nat /\ d[i].text \in Seq(Chars) /\ Len(d[i].text) <= ChunkChars
  <2>1. d[i].base \in 1..MaxBases /\ d[i].text \in Texts
    BY <1>1
  <2>2. PICK k \in 0..ChunkChars : d[i].text \in [1..k -> Chars]
    BY <2>1 DEF Texts, Chars
  <2> QED
    BY <2>1, <2>2, ReaderAssumption
<1>5. ASSUME NEW i \in 1..n, i < n
      PROVE  /\ d[i + 1].base \in {d[i].base, d[i].base + 1}
             /\ d[i + 1].base = d[i].base =>
                  Len(d[i].text) = ChunkChars /\ d[i].text # <<>> /\ d[i + 1].text # <<>>
  <2>1. i + 1 \in 1..n /\ i \in DOMAIN d /\ i + 1 \in DOMAIN d /\ i + 1 - 1 = i
    BY <1>3, <1>5
  <2>2. /\ i + 1 > 1 => d[i + 1].base \in {d[i + 1 - 1].base, d[i + 1 - 1].base + 1}
        /\ d[i + 1].text = <<>> => i + 1 = 1 \/ d[i + 1 - 1].base # d[i + 1].base
    BY <1>2, <2>1 DEF WellFormed
  <2>3. i < Len(d) /\ d[i + 1].base = d[i].base => Len(d[i].text) = ChunkChars
    BY <1>2, <2>1 DEF WellFormed
  <2>4. d[i].text = <<>> => Len(d[i].text) = 0
    OBVIOUS
  <2> QED
    BY <1>3, <1>5, <2>1, <2>2, <2>3, <2>4, ReaderAssumption
<1> QED
  BY <1>3, <1>4, <1>5 DEF Original

\* Bases come in order.
LEMMA BasesInOrder ==
  ASSUME NEW d, Original(d)
  PROVE  \A i, j \in 1..Len(d) : i <= j => d[i].base <= d[j].base
<1> DEFINE S == {k \in Nat : \A i \in 1..Len(d) : i + k <= Len(d) => d[i].base <= d[i + k].base}
<1>1. 0 \in S
  BY DEF Original
<1>2. ASSUME NEW n \in Nat, n \in S PROVE n + 1 \in S
  <2> SUFFICES ASSUME NEW i \in 1..Len(d), i + (n + 1) <= Len(d) PROVE d[i].base <= d[i + (n + 1)].base
    OBVIOUS
  <2>1. i + n \in 1..Len(d) /\ i + n < Len(d) /\ i + n + 1 = i + (n + 1) /\ i + (n + 1) \in 1..Len(d)
    BY DEF Original
  <2> PICK j \in 1..Len(d) : j = i + n /\ j < Len(d) /\ j + 1 = i + (n + 1) /\ j + 1 \in 1..Len(d)
    BY <2>1
  <2>2. d[i].base <= d[j].base
    BY <1>2, <2>1
  <2>3. /\ d[i].base \in Nat /\ d[j].base \in Nat
        /\ d[j + 1].base \in {d[j].base, d[j].base + 1}
    BY DEF Original
  <2> QED
    BY <2>2, <2>3
<1> HIDE DEF S
<1>3. \A n \in Nat : n \in S
  BY <1>1, <1>2, UpFromZero
<1> SUFFICES ASSUME NEW i \in 1..Len(d), NEW j \in 1..Len(d), i <= j PROVE d[i].base <= d[j].base
  OBVIOUS
<1>4. j - i \in Nat /\ i + (j - i) = j
  BY DEF Original
<1>5. j - i \in S
  BY <1>3, <1>4
<1> QED
  BY <1>4, <1>5 DEF S, Original

\* Offsets grow by whole chunks.
LEMMA OffsetsAre ==
  ASSUME NEW d, Original(d), NEW i \in 1..Len(d)
  PROVE  /\ Offset(d, i) \in Nat
         /\ i < Len(d) /\ d[i + 1].base = d[i].base => Offset(d, i + 1) = Offset(d, i) + ChunkChars
<1> DEFINE K == {k \in 1..i - 1 : d[k].base = d[i].base}
<1>0. i \in Nat /\ i - 1 \in Int
  BY DEF Original
<1>1. IsFiniteSet(1..i - 1)
  BY <1>0, FS_Interval
<1>2. IsFiniteSet(K)
  BY <1>1, FS_Subset
<1>3. Cardinality(K) \in Nat
  BY <1>2, FS_CardinalityType
<1>4. Offset(d, i) = ChunkChars * Cardinality(K)
  BY DEF Offset
<1>5. ASSUME i < Len(d), d[i + 1].base = d[i].base PROVE Offset(d, i + 1) = Offset(d, i) + ChunkChars
  <2>1. {k \in 1..(i + 1) - 1 : d[k].base = d[i + 1].base} = K \cup {i}
    BY <1>0, <1>5
  <2>2. i \notin K
    BY <1>0
  <2>3. Cardinality(K \cup {i}) = Cardinality(K) + 1
    BY <1>2, <2>2, FS_AddElement
  <2>4. Offset(d, i + 1) = ChunkChars * Cardinality(K \cup {i})
    BY <2>1 DEF Offset
  <2> HIDE DEF K
  <2> QED
    BY <1>3, <1>4, <2>3, <2>4, ReaderAssumption
<1> HIDE DEF K
<1> QED
  BY <1>3, <1>4, <1>5, ReaderAssumption

\* The text of a base up to a fragment, and what comes before that fragment.
Before(d, i) == IF i > 1 /\ d[i - 1].base = d[i].base THEN BaseText(d)[i - 1] ELSE <<>>

LEMMA BaseTextsAre ==
  ASSUME NEW d, Original(d)
  PROVE  \A i \in 1..Len(d) :
           /\ BaseText(d)[i] \in Seq(Chars) /\ Before(d, i) \in Seq(Chars)
           /\ BaseText(d)[i] = Before(d, i) \o d[i].text
<1> PICK b : b = BaseText(d)
  OBVIOUS
<1>0. Len(d) \in Nat
  BY DEF Original
<1>1. \A i \in 1..Len(d) : b[i] = Before(d, i) \o d[i].text
  <2>1. \A i \in 0..Len(d) : b[i] = TextSoFar(d, b, i)
    BY <1>0, TextsAre
  <2> SUFFICES ASSUME NEW i \in 1..Len(d) PROVE b[i] = Before(d, i) \o d[i].text
    OBVIOUS
  <2>2. i # 0 /\ i \in 0..Len(d)
    BY <1>0
  <2>3. b[i] = TextSoFar(d, b, i)
    BY <2>1, <2>2
  <2> QED
    BY <2>2, <2>3 DEF TextSoFar, Before
<1> DEFINE S == {n \in Nat : \A i \in 1..Len(d) : i <= n => b[i] \in Seq(Chars) /\ Before(d, i) \in Seq(Chars)}
<1>2. 0 \in S
  BY <1>0
<1>3. ASSUME NEW n \in Nat, n \in S PROVE n + 1 \in S
  <2> SUFFICES ASSUME NEW i \in 1..Len(d), i <= n + 1
               PROVE  b[i] \in Seq(Chars) /\ Before(d, i) \in Seq(Chars)
    OBVIOUS
  <2>1. i > 1 => i - 1 \in 1..Len(d) /\ i - 1 <= n
    BY <1>0
  <2>2. i > 1 => b[i - 1] \in Seq(Chars)
    BY <1>3, <2>1
  <2>3. Before(d, i) \in Seq(Chars)
    BY <2>2 DEF Before
  <2>4. d[i].text \in Seq(Chars)
    BY DEF Original
  <2> HIDE DEF S
  <2> QED
    BY <1>1, <2>3, <2>4, ConcatProperties
<1> HIDE DEF S
<1>4. \A n \in Nat : n \in S
  BY <1>2, <1>3, UpFromZero
<1>5. Len(d) \in S
  BY <1>0, <1>4
<1> QED
  BY <1>0, <1>1, <1>5 DEF S

\* One text ends with another.
EndOf(s, e) == Len(e) <= Len(s) /\ \A j \in 1..Len(e) : e[j] = s[Len(s) - Len(e) + j]

LEMMA EndsGrow ==
  ASSUME NEW s \in Seq(Chars), NEW e \in Seq(Chars), NEW t \in Seq(Chars), EndOf(s, e)
  PROVE  EndOf(s \o t, e \o t)
<1>1. /\ Len(s \o t) = Len(s) + Len(t) /\ Len(e \o t) = Len(e) + Len(t)
      /\ \A i \in 1..Len(s) + Len(t) : (s \o t)[i] = IF i <= Len(s) THEN s[i] ELSE t[i - Len(s)]
      /\ \A i \in 1..Len(e) + Len(t) : (e \o t)[i] = IF i <= Len(e) THEN e[i] ELSE t[i - Len(e)]
  BY ConcatProperties
<1>2. Len(s) \in Nat /\ Len(e) \in Nat /\ Len(t) \in Nat /\ Len(e) <= Len(s)
  BY DEF EndOf
<1>3. ASSUME NEW j \in 1..Len(e) + Len(t)
      PROVE  (e \o t)[j] = (s \o t)[Len(s) - Len(e) + j]
  <2> PICK k : k = Len(s) - Len(e) + j
    OBVIOUS
  <2>1. k \in 1..Len(s) + Len(t)
    BY <1>2
  <2>2. CASE j <= Len(e)
    <3>1. k <= Len(s) /\ e[j] = s[k]
      BY <1>2, <2>2 DEF EndOf
    <3> QED
      BY <1>1, <2>1, <2>2, <3>1
  <2>3. CASE j > Len(e)
    <3>1. ~(k <= Len(s)) /\ k - Len(s) = j - Len(e)
      BY <1>2, <2>3
    <3> QED
      BY <1>1, <2>1, <2>3, <3>1
  <2> QED
    BY <1>2, <2>2, <2>3
<1> QED
  BY <1>1, <1>2, <1>3 DEF EndOf

\* What the scan keeps of a text.
LEMMA LastIs ==
  ASSUME NEW s \in Seq(Chars), NEW n \in Nat
  PROVE  /\ LastOf(s, n) \in Seq(Chars) /\ EndOf(s, LastOf(s, n))
         /\ Len(LastOf(s, n)) = IF Len(s) <= n THEN Len(s) ELSE n
<1>0. Len(s) \in Nat
  OBVIOUS
<1>1. CASE Len(s) <= n
  BY <1>0, <1>1 DEF LastOf, EndOf
<1>2. CASE ~(Len(s) <= n)
  <2>0. Len(s) - n + 1 \in Nat
    BY <1>0, <1>2
  <2> PICK m \in Nat : m = Len(s) - n + 1
    BY <2>0
  <2>4. m >= 1
    BY <1>0, <1>2
  <2>1. LastOf(s, n) = SubSeq(s, m, Len(s))
    BY <1>2 DEF LastOf
  <2>2. /\ SubSeq(s, m, Len(s)) \in Seq(Chars)
        /\ Len(SubSeq(s, m, Len(s))) = IF m <= Len(s) THEN Len(s) - m + 1 ELSE 0
        /\ \A i \in 1..Len(s) - m + 1 : SubSeq(s, m, Len(s))[i] = s[m + i - 1]
    <3>1. \A i \in m..Len(s) : s[i] \in Chars
      <4> SUFFICES ASSUME NEW i \in m..Len(s) PROVE s[i] \in Chars
        OBVIOUS
      <4>1. i \in 1..Len(s)
        BY <1>0, <2>4
      <4> QED
        BY <4>1
    <3> QED
      BY <1>0, <3>1, SubSeqProperties
  <2>3. Len(SubSeq(s, m, Len(s))) = n /\ Len(s) - m + 1 = n /\ n <= Len(s)
    BY <1>0, <1>2, <2>2
  <2>5. ASSUME NEW j \in 1..n PROVE SubSeq(s, m, Len(s))[j] = s[Len(s) - n + j]
    <3>1. m + j - 1 = Len(s) - n + j
      BY <1>0
    <3> QED
      BY <2>2, <2>3, <3>1
  <2> QED
    BY <1>2, <2>1, <2>2, <2>3, <2>5 DEF EndOf
<1> QED
  BY <1>1, <1>2

LEMMA EndsOfEnds ==
  ASSUME NEW s \in Seq(Chars), NEW e \in Seq(Chars), NEW f \in Seq(Chars), EndOf(s, e), EndOf(e, f)
  PROVE  EndOf(s, f)
<1>1. Len(s) \in Nat /\ Len(e) \in Nat /\ Len(f) \in Nat /\ Len(e) <= Len(s) /\ Len(f) <= Len(e)
  BY DEF EndOf
<1>2. ASSUME NEW j \in 1..Len(f) PROVE f[j] = s[Len(s) - Len(f) + j]
  <2> PICK k : k = Len(e) - Len(f) + j
    OBVIOUS
  <2>1. k \in 1..Len(e) /\ Len(s) - Len(e) + k = Len(s) - Len(f) + j
    BY <1>1
  <2>2. f[j] = e[k] /\ e[k] = s[Len(s) - Len(e) + k]
    BY <2>1 DEF EndOf
  <2> QED
    BY <2>1, <2>2
<1> QED
  BY <1>1, <1>2 DEF EndOf

\* A hit after what came before is seen in what was kept of it, when that is
\* all of it or a needle but for its last character.
LEMMA HitsAreSeen ==
  ASSUME NEW s \in Seq(Chars), NEW e \in Seq(Chars), NEW t \in Seq(Chars), EndOf(s, e),
         NEW needle \in Nat \ {0}, Len(e) = Len(s) \/ Len(e) + 1 >= needle
  PROVE  HitAfter(needle, s \o t, Len(s)) <=> HitAfter(needle, e \o t, Len(e))
<1> PICK st, et : st = s \o t /\ et = e \o t
  OBVIOUS
<1>1. Len(st) = Len(s) + Len(t) /\ Len(et) = Len(e) + Len(t)
  BY ConcatProperties
<1>2. EndOf(st, et)
  BY EndsGrow
<1> PICK ls \in Nat, le \in Nat, lt \in Nat : ls = Len(s) /\ le = Len(e) /\ lt = Len(t)
  OBVIOUS
<1>0. le <= ls
  BY DEF EndOf
<1>00. ls - le \in Nat
  BY <1>0
<1> PICK k \in Nat : k = ls - le
  BY <1>00
<1>3. Len(st) = ls + lt /\ Len(et) = le + lt /\ Len(st) - Len(et) = k /\ le + k = ls /\ (k = 0 \/ le + 1 >= needle)
  BY <1>1
<1>4. \A j \in 1..Len(et) : et[j] = st[k + j]
  BY <1>2, <1>3 DEF EndOf
<1>5. ASSUME NEW x \in ls + 1..Len(st), x >= needle, \A i \in 0..needle - 1 : st[x - i] = "a"
      PROVE  HitAfter(needle, et, Len(e))
  <2> PICK y : y = x - k
    OBVIOUS
  <2>0. x \in Nat /\ x >= needle /\ x >= ls + 1 /\ x <= ls + lt
    BY <1>3, <1>5
  <2>1. y \in le + 1..Len(et) /\ y >= needle /\ y \in Nat
    BY ONLY <1>3, <2>0, y = x - k, needle \in Nat, k \in Nat, le \in Nat, lt \in Nat, ls \in Nat
  <2>2. ASSUME NEW i \in 0..needle - 1 PROVE et[y - i] = "a"
    <3>1. y - i \in 1..Len(et) /\ k + (y - i) = x - i
      BY ONLY <1>3, <2>0, <2>1, y = x - k, needle \in Nat, k \in Nat, le \in Nat, lt \in Nat, ls \in Nat, i \in 0..needle - 1
    <3>2. st[x - i] = "a" /\ et[y - i] = st[k + (y - i)]
      BY <1>4, <1>5, <3>1
    <3> QED
      BY <3>1, <3>2
  <2> QED
    BY <2>1, <2>2 DEF HitAfter
<1>6. ASSUME NEW y \in le + 1..Len(et), y >= needle, \A i \in 0..needle - 1 : et[y - i] = "a"
      PROVE  HitAfter(needle, st, Len(s))
  <2> PICK x : x = y + k
    OBVIOUS
  <2>0. y \in Nat /\ y >= needle /\ y >= le + 1 /\ y <= le + lt
    BY <1>3, <1>6
  <2>1. x \in ls + 1..Len(st) /\ x >= needle /\ x \in Nat
    BY ONLY <1>3, <2>0, x = y + k, needle \in Nat, k \in Nat, le \in Nat, lt \in Nat, ls \in Nat
  <2>2. ASSUME NEW i \in 0..needle - 1 PROVE st[x - i] = "a"
    <3>1. y - i \in 1..Len(et) /\ k + (y - i) = x - i
      BY ONLY <1>3, <2>0, <2>1, x = y + k, needle \in Nat, k \in Nat, le \in Nat, lt \in Nat, ls \in Nat, i \in 0..needle - 1
    <3>2. et[y - i] = "a" /\ et[y - i] = st[k + (y - i)]
      BY <1>4, <1>6, <3>1
    <3> QED
      BY <3>1, <3>2
  <2> QED
    BY <2>1, <2>2 DEF HitAfter
<1>7. HitAfter(needle, st, Len(s)) => HitAfter(needle, et, Len(e))
  BY <1>5 DEF HitAfter
<1>8. HitAfter(needle, et, Len(e)) => HitAfter(needle, st, Len(s))
  BY <1>6 DEF HitAfter
<1> QED
  BY <1>7, <1>8

\* A hit after the prefix ends in the fragment, which is not blank then.
LEMMA HitsHaveText ==
  ASSUME NEW s \in Seq(Chars), NEW t \in Seq(Chars), NEW needle \in Nat \ {0},
         HitAfter(needle, s \o t, Len(s))
  PROVE  ~Blank(t)
<1>1. Len(s) \in Nat /\ Len(t) \in Nat
  OBVIOUS
<1>2. /\ Len(s \o t) = Len(s) + Len(t)
      /\ \A i \in 1..Len(s) + Len(t) : (s \o t)[i] = IF i <= Len(s) THEN s[i] ELSE t[i - Len(s)]
  BY ConcatProperties
<1>3. PICK x \in Len(s) + 1..Len(s \o t) : \A k \in 0..needle - 1 : (s \o t)[x - k] = "a"
  BY DEF HitAfter
<1>4. (s \o t)[x] = "a"
  <2>1. 0 \in 0..needle - 1 /\ x - 0 = x
    BY <1>1, <1>2
  <2> QED
    BY <1>3, <2>1
<1>5. x - Len(s) \in DOMAIN t /\ t[x - Len(s)] = "a"
  BY <1>1, <1>2, <1>4
<1> QED
  BY <1>5 DEF Blank

-----------------------------------------------------------------------------
(* What is asked of the original.                                          *)

Question(d, q) ==
  /\ q \in [kind : {"text", "pages"}, needle : Nat, sel : Nat, off : Nat, bad : Nat]
  /\ q.needle <= ChunkChars + 1 /\ (q.needle > 0 => q.sel = 0) /\ q.bad <= Len(d) + 1

ChosenBase(d, q, i) == q.sel = 0 \/ d[i].base = q.sel
LastOffset(d, i) == Offset(d, i) + Len(d[i].text)
\* A chosen fragment that goes beyond where the locator begins.
InReach(d, q, i) == ChosenBase(d, q, i) /\ d[i].text # <<>> /\ LastOffset(d, i) > q.off

\* What is left of a text from a character on.
LEMMA LatterText ==
  ASSUME NEW words \in Seq(Chars), NEW b \in Nat, ~Blank(SubSeq(words, b + 1, Len(words)))
  PROVE  ~Blank(words) /\ b + 1 <= Len(words)
<1> PICK n \in Nat : n = Len(words)
  OBVIOUS
<1> PICK latter : latter = SubSeq(words, b + 1, n)
  OBVIOUS
<1>1. \A j \in b + 1..n : words[j] \in Chars
  <2> SUFFICES ASSUME NEW j \in b + 1..n PROVE words[j] \in Chars
    OBVIOUS
  <2>1. j \in 1..n
    OBVIOUS
  <2> QED
    BY <2>1
<1>2. /\ latter \in Seq(Chars)
      /\ Len(latter) = IF b + 1 <= n THEN n - (b + 1) + 1 ELSE 0
      /\ \A j \in 1..n - (b + 1) + 1 : latter[j] = words[(b + 1) + j - 1]
  <2> PICK m \in Int : m = b + 1
    OBVIOUS
  <2>1. words \in Seq(Chars) /\ n \in Int /\ latter = SubSeq(words, m, n) /\ \A j \in m..n : words[j] \in Chars
    BY <1>1
  <2>2. /\ latter \in Seq(Chars)
        /\ Len(latter) = IF m <= n THEN n - m + 1 ELSE 0
        /\ \A j \in 1..n - m + 1 : latter[j] = words[m + j - 1]
    BY ONLY <2>1, m \in Int, SubSeqProperties
  <2> QED
    BY <2>2
<1>3. PICK j \in DOMAIN latter : latter[j] # " "
  BY DEF Blank
<1>4. DOMAIN latter = 1..Len(latter) /\ Len(latter) \in Nat
  BY <1>2
<1> PICK len \in Nat : len = Len(latter)
  BY <1>4
<1>9. j \in 1..len /\ len = IF b + 1 <= n THEN n - (b + 1) + 1 ELSE 0
  BY <1>2, <1>3, <1>4
<1>5. b + 1 <= n /\ j \in 1..n - (b + 1) + 1
  BY ONLY <1>9, b \in Nat, n \in Nat
<1>6. (b + 1) + j - 1 \in 1..n
  BY <1>5
<1>7. words[(b + 1) + j - 1] # " "
  BY <1>2, <1>3, <1>5
<1>8. (b + 1) + j - 1 \in DOMAIN words
  BY <1>6
<1> QED
  BY <1>5, <1>7, <1>8 DEF Blank

LEMMA LatterLength ==
  ASSUME NEW words \in Seq(Chars), NEW b \in Nat
  PROVE  /\ Len(SubSeq(words, b + 1, Len(words))) \in Nat
         /\ Len(SubSeq(words, b + 1, Len(words))) <= Len(words)
         /\ words = <<>> => SubSeq(words, b + 1, Len(words)) = <<>>
<1> PICK n \in Nat : n = Len(words)
  OBVIOUS
<1>1. \A j \in b + 1..n : words[j] \in Chars
  <2> SUFFICES ASSUME NEW j \in b + 1..n PROVE words[j] \in Chars
    OBVIOUS
  <2>1. j \in 1..n
    OBVIOUS
  <2> QED
    BY <2>1
<1>2. Len(SubSeq(words, b + 1, n)) = IF b + 1 <= n THEN n - (b + 1) + 1 ELSE 0
  BY <1>1, SubSeqProperties
<1>3. words = <<>> => n < b + 1
  OBVIOUS
<1>4. words = <<>> => SubSeq(words, b + 1, n) = <<>>
  BY <1>3, SubSeqEmpty
<1> QED
  BY <1>2, <1>4

\* What is wanted of a fragment is chosen text.
LEMMA WantedIsText ==
  ASSUME NEW d, Original(d), NEW q, Question(d, q), NEW i \in 1..Len(d), Wanted(d, q, i)
  PROVE  ChosenBase(d, q, i) /\ ~Blank(d[i].text) /\ (q.sel # 0 => InReach(d, q, i))
<1> PICK words \in Seq(Chars) : words = d[i].text
  BY DEF Original
<1>1. CASE q.needle > 0
  <2>1. HitAfter(q.needle, BaseText(d)[i], Len(BaseText(d)[i]) - Len(words))
    BY <1>1 DEF Wanted, Hits
  <2> PICK s \in Seq(Chars) : s = Before(d, i)
    BY BaseTextsAre
  <2>2. BaseText(d)[i] = s \o words
    BY BaseTextsAre
  <2>3. Len(s \o words) - Len(words) = Len(s)
    <3>1. Len(s \o words) = Len(s) + Len(words)
      BY ConcatProperties
    <3>2. Len(s) \in Nat /\ Len(words) \in Nat
      OBVIOUS
    <3> QED
      BY <3>1, <3>2
  <2>4. HitAfter(q.needle, s \o words, Len(s))
    BY <2>1, <2>2, <2>3
  <2>5. q.needle \in Nat \ {0} /\ q.sel = 0
    BY <1>1 DEF Question
  <2>6. ~Blank(words)
    BY <2>4, <2>5, HitsHaveText
  <2> QED
    BY <2>5, <2>6 DEF ChosenBase
<1>2. CASE ~(q.needle > 0)
  <2> PICK b : b = IF q.sel # 0 /\ q.off > Offset(d, i) THEN q.off - Offset(d, i) ELSE 0
    OBVIOUS
  <2>1. ~Blank(SubSeq(words, b + 1, Len(words))) /\ (q.sel # 0 => d[i].base = q.sel)
    BY <1>2 DEF Wanted
  <2>2. b \in Nat /\ Offset(d, i) \in Nat /\ Len(words) \in Nat /\ q.off \in Nat
    BY OffsetsAre DEF Question
  <2>7. ~Blank(words) /\ b + 1 <= Len(words)
    BY <2>1, <2>2, LatterText
  <2>8. q.sel # 0 => LastOffset(d, i) > q.off
    BY <2>2, <2>7 DEF LastOffset
  <2>9. words # <<>>
    BY <2>2, <2>7
  <2> QED
    BY <2>1, <2>7, <2>8, <2>9 DEF ChosenBase, InReach
<1> QED
  BY <1>1, <1>2

\* The answers show what is wanted up to a fragment, once and in order.
Covers(d, q, g, m) ==
  /\ \A k, l \in DOMAIN g : k < l => g[k] < g[l]
  /\ \A k \in DOMAIN g : g[k] \in 1..m
  /\ \A i \in 1..m : Wanted(d, q, i) <=> \E k \in DOMAIN g : g[k] = i

LEMMA CoversNothing == ASSUME NEW d, NEW q PROVE Covers(d, q, <<>>, 0)
BY DEF Covers

LEMMA CoversUnwanted ==
  ASSUME NEW d, NEW q, NEW g \in Seq(Nat), NEW m \in Nat, Covers(d, q, g, m), ~Wanted(d, q, m + 1)
  PROVE  Covers(d, q, g, m + 1)
<1>1. \A k \in DOMAIN g : g[k] \in 1..m + 1 /\ g[k] # m + 1
  BY DEF Covers
<1>2. ASSUME NEW i \in 1..m + 1 PROVE Wanted(d, q, i) <=> \E k \in DOMAIN g : g[k] = i
  <2>1. CASE i = m + 1
    BY <1>1, <2>1
  <2>2. CASE i # m + 1
    <3>1. i \in 1..m
      BY <2>2
    <3> QED
      BY <3>1 DEF Covers
  <2> QED
    BY <2>1, <2>2
<1> QED
  BY <1>1, <1>2 DEF Covers

LEMMA CoversOneMore ==
  ASSUME NEW d, NEW q, NEW g \in Seq(Nat), NEW m \in Nat, Covers(d, q, g, m), Wanted(d, q, m + 1)
  PROVE  Covers(d, q, Append(g, m + 1), m + 1)
<1> PICK h : h = Append(g, m + 1)
  OBVIOUS
<1> PICK n \in Nat : n = Len(g)
  OBVIOUS
<1>1. h \in Seq(Nat) /\ Len(h) = n + 1 /\ DOMAIN h = 1..n + 1 /\ DOMAIN g = 1..n
  <2>1. h \in Seq(Nat) /\ Len(h) = n + 1
    BY AppendProperties
  <2> QED
    BY <2>1
<1>2. (\A k \in 1..n : h[k] = g[k]) /\ h[n + 1] = m + 1
  BY AppendProperties
<1>3. \A k \in 1..n : g[k] \in 1..m
  BY <1>1 DEF Covers
<1>4. ASSUME NEW k \in 1..n + 1, NEW l \in 1..n + 1, k < l PROVE h[k] < h[l]
  <2>1. k \in 1..n /\ h[k] = g[k] /\ g[k] \in 1..m
    BY <1>2, <1>3, <1>4
  <2>2. CASE l = n + 1
    BY <1>2, <2>1, <2>2
  <2>3. CASE l # n + 1
    <3>1. l \in 1..n /\ h[l] = g[l]
      BY <1>2, <2>3
    <3> QED
      BY <1>1, <1>4, <2>1, <3>1 DEF Covers
  <2> QED
    BY <2>2, <2>3
<1>5. ASSUME NEW k \in 1..n + 1 PROVE h[k] \in 1..m + 1
  <2>1. CASE k = n + 1
    BY <1>2, <2>1
  <2>2. CASE k # n + 1
    <3>1. k \in 1..n
      BY <2>2
    <3> QED
      BY <1>2, <1>3, <3>1
  <2> QED
    BY <2>1, <2>2
<1>6. ASSUME NEW i \in 1..m + 1 PROVE Wanted(d, q, i) <=> \E k \in 1..n + 1 : h[k] = i
  <2>1. CASE i = m + 1
    <3>1. n + 1 \in 1..n + 1
      OBVIOUS
    <3> QED
      BY <1>2, <2>1, <3>1
  <2>2. CASE i # m + 1
    <3>1. i \in 1..m
      BY <2>2
    <3>2. Wanted(d, q, i) <=> \E k \in 1..n : g[k] = i
      BY <1>1, <3>1 DEF Covers
    <3>3. \A k \in 1..n + 1 : k \in 1..n \/ k = n + 1
      OBVIOUS
    <3>4. \A k \in 1..n : k \in 1..n + 1
      OBVIOUS
    <3> QED
      BY <1>2, <2>2, <3>2, <3>3, <3>4
  <2> QED
    BY <2>1, <2>2
<1> QED
  BY <1>1, <1>4, <1>5, <1>6 DEF Covers

LEMMA CoversUpTo ==
  ASSUME NEW d, NEW q, NEW g \in Seq(Nat), NEW m \in Nat, NEW n \in Nat, m <= n, Covers(d, q, g, m),
         \A i \in m + 1..n : ~Wanted(d, q, i)
  PROVE  Covers(d, q, g, n)
<1>1. \A k \in DOMAIN g : g[k] \in 1..n /\ g[k] \in 1..m
  BY DEF Covers
<1>2. ASSUME NEW i \in 1..n PROVE Wanted(d, q, i) <=> \E k \in DOMAIN g : g[k] = i
  <2>1. CASE i \in 1..m
    BY <2>1 DEF Covers
  <2>2. CASE i \notin 1..m
    <3>1. i \in m + 1..n
      BY <2>2
    <3> QED
      BY <1>1, <2>2, <3>1
  <2> QED
    BY <2>1, <2>2
<1> QED
  BY <1>1, <1>2 DEF Covers

\* Without its last passages a reading shows what it showed before them.
LEMMA WithoutTheLast ==
  ASSUME NEW g \in Seq(Nat), NEW x \in Nat, NEW c \in Nat, c <= Len(g)
  PROVE  /\ SubSeq(Append(g, x), 1, Len(Append(g, x)) - (c + 1)) = SubSeq(g, 1, Len(g) - c)
         /\ SubSeq(g, 1, Len(g) - c) \in Seq(Nat)
<1> PICK n \in Nat : n = Len(g)
  OBVIOUS
<1> PICK h : h = Append(g, x)
  OBVIOUS
<1>1. h \in Seq(Nat) /\ Len(h) = n + 1 /\ \A k \in 1..n : h[k] = g[k]
  BY AppendProperties
<1>2. n - c \in Nat /\ Len(h) - (c + 1) = n - c
  BY <1>1
<1> PICK m \in Nat : m = n - c
  BY <1>2
<1>3. \A k \in 1..m : h[k] = g[k] /\ g[k] \in Nat /\ k \in 1..n
  BY <1>1
<1>4. /\ SubSeq(g, 1, m) \in Seq(Nat)
      /\ Len(SubSeq(g, 1, m)) = m
      /\ \A k \in 1..m : SubSeq(g, 1, m)[k] = g[k]
  <2>1. \A k \in 1..m : g[k] \in Nat
    BY <1>3
  <2>2. /\ SubSeq(g, 1, m) \in Seq(Nat)
        /\ Len(SubSeq(g, 1, m)) = IF 1 <= m THEN m - 1 + 1 ELSE 0
        /\ \A k \in 1..m - 1 + 1 : SubSeq(g, 1, m)[k] = g[1 + k - 1]
    BY <2>1, SubSeqProperties
  <2> QED
    BY <2>2
<1>5. /\ SubSeq(h, 1, m) \in Seq(Nat)
      /\ Len(SubSeq(h, 1, m)) = m
      /\ \A k \in 1..m : SubSeq(h, 1, m)[k] = h[k]
  <2>1. \A k \in 1..m : h[k] \in Nat
    BY <1>3
  <2>2. /\ SubSeq(h, 1, m) \in Seq(Nat)
        /\ Len(SubSeq(h, 1, m)) = IF 1 <= m THEN m - 1 + 1 ELSE 0
        /\ \A k \in 1..m - 1 + 1 : SubSeq(h, 1, m)[k] = h[1 + k - 1]
    BY <2>1, SubSeqProperties
  <2> QED
    BY <2>2
<1>6. SubSeq(h, 1, m) = SubSeq(g, 1, m)
  BY <1>3, <1>4, <1>5
<1> QED
  BY <1>2, <1>4, <1>6

-----------------------------------------------------------------------------
(* What the scan knows between two fragments, and what a cursor carries.   *)

CursorRow == [position : Nat, from : Nat, any : BOOLEAN]
PassStates == {"none", "scan", "answered", "complete", "unreadable", "damaged", "empty", "not_found"}
PassRow == [pc : PassStates, cursor : CursorRow, index : Nat, any : BOOLEAN, tail : Seq(Chars),
            count : Nat, bytes : Nat, scanned : Nat, found : BOOLEAN, at : BOOLEAN]

\* A scan that starts at a retained fragment has the one before the next to
\* show in sight; what an answer stopped at is in reach of the locator.
CursorFits(d, q, c) ==
  /\ c.from = 0 \/ c.from < c.position
  /\ c.position # 0 => c.position < Len(d) /\ (q.sel # 0 => InReach(d, q, c.position + 1))
\* Chosen text is remembered, over the answers too.
SawText(d, q, any, m) == \A i \in 1..m : ChosenBase(d, q, i) /\ ~Blank(d[i].text) => any = TRUE
Undamaged(q, m) == q.bad = 0 \/ q.bad > m
\* What is kept of a base that goes on is its end, long enough for the needle.
TailFits(d, q, p) ==
  p.index > p.cursor.from /\ p.index < Len(d) /\ d[p.index + 1].base = d[p.index].base =>
    EndOf(BaseText(d)[p.index], p.tail) /\ Len(p.tail) + 1 >= q.needle
\* Whatever the locator reaches has been noticed in this answer.
ReachNoticed(d, q, p) ==
  q.sel # 0 => \A i \in 1..p.index : i > p.cursor.position /\ InReach(d, q, i) => p.found = TRUE /\ p.at = TRUE
FoundFits(d, q, p) == p.found = TRUE => q.sel # 0 /\ p.index > 0 /\ d[p.index].base >= q.sel
Later(m, n) == IF m >= n THEN m ELSE n

Scanning(d, q, p, g) ==
  /\ CursorFits(d, q, p.cursor) /\ p.index >= p.cursor.from
  /\ Undamaged(q, p.index) /\ SawText(d, q, p.any, p.index) /\ TailFits(d, q, p)
  /\ ReachNoticed(d, q, p) /\ FoundFits(d, q, p)
  /\ p.count <= Len(g) /\ Covers(d, q, g, Later(p.index, p.cursor.position))
  /\ Covers(d, q, SubSeq(g, 1, Len(g) - p.count), p.cursor.position)
  /\ p.index <= p.cursor.position => p.bytes = 0

ReadingFits(d, q, p, g) ==
  /\ p \in PassRow /\ g \in Seq(Nat)
  /\ p.pc = "none" => d = <<>> /\ g = <<>>
  /\ p.pc # "none" => Original(d) /\ Question(d, q) /\ p.index <= Len(d) /\ p.cursor.position <= Len(d)
  /\ p.pc = "scan" => Scanning(d, q, p, g)
  /\ p.pc = "answered" =>
       /\ CursorFits(d, q, p.cursor) /\ Undamaged(q, p.cursor.from)
       /\ SawText(d, q, p.cursor.any, p.cursor.from) /\ Covers(d, q, g, p.cursor.position)
  /\ p.pc = "damaged" => Covers(d, q, g, p.cursor.position)
  /\ p.pc = "complete" => Covers(d, q, g, Len(d)) /\ (q.sel = 0 => q.bad = 0)
  /\ p.pc \in {"empty", "not_found"} => Covers(d, q, g, Len(d)) /\ \A i \in 1..Len(d) : ~Wanted(d, q, i)
  /\ p.pc # "unreadable"

LEMMA PassFields ==
  ASSUME NEW p \in PassRow
  PROVE  /\ p.pc \in PassStates /\ p.index \in Nat /\ p.tail \in Seq(Chars)
         /\ p.count \in Nat /\ p.bytes \in Nat /\ p.scanned \in Nat
         /\ p.cursor \in CursorRow /\ p.cursor.position \in Nat /\ p.cursor.from \in Nat
         /\ p.any \in BOOLEAN /\ p.found \in BOOLEAN /\ p.at \in BOOLEAN /\ p.cursor.any \in BOOLEAN
BY DEF PassRow, CursorRow

LEMMA NoPassIs ==
  /\ NoPass \in PassRow /\ NoPass.pc = "none" /\ NoPass.cursor = NoCursor /\ NoPass.index = 0
  /\ NoPass.any = FALSE /\ NoPass.tail = <<>> /\ NoPass.count = 0 /\ NoPass.bytes = 0
  /\ NoPass.found = FALSE /\ NoPass.at = FALSE
  /\ NoCursor \in CursorRow /\ NoCursor.position = 0 /\ NoCursor.from = 0 /\ NoCursor.any = FALSE
<1>1. NoCursor \in CursorRow /\ NoCursor.position = 0 /\ NoCursor.from = 0 /\ NoCursor.any = FALSE
  BY DEF NoCursor, CursorRow
<1>2. <<>> \in Seq(Chars) /\ "none" \in PassStates
  BY DEF PassStates
<1> QED
  BY <1>1, <1>2 DEF NoPass, PassRow

LEMMA ReaderStarts == ASSUME ReaderInit PROVE ReadingFits(doc, ask, pass, given)
BY NoPassIs DEF ReaderInit, ReadingFits

\* The first scan of an original.
LEMMA ReadingBegun ==
  ASSUME ReadingFits(doc, ask, pass, given), pass.pc = "none",
         NEW kind \in {"text", "pages"}, NEW d \in Originals(kind), NEW needle \in {0} \cup Needles,
         NEW sel \in Nat, NEW off \in Nat, NEW bad \in 0..Len(d) + 1, needle > 0 => sel = 0,
         BeginReading(kind, d, needle, sel, off, bad)
  PROVE  ReadingFits(doc', ask', pass', given')
<1>1. Original(d) /\ Len(d) \in Nat
  BY OriginalsAre DEF Original
<1> PICK p : p = [NoPass EXCEPT !.pc = "scan"]
  OBVIOUS
<1> PICK q : q = [kind |-> kind, needle |-> needle, sel |-> sel, off |-> off, bad |-> bad]
  OBVIOUS
<1>2. /\ p \in PassRow /\ p.pc = "scan" /\ p.cursor = NoCursor /\ p.index = 0 /\ p.any = FALSE
      /\ p.count = 0 /\ p.bytes = 0 /\ p.found = FALSE
  BY NoPassIs DEF PassRow, PassStates
<1>3. doc' = d /\ ask' = q /\ pass' = p /\ given' = <<>>
  BY DEF BeginReading, ReadingFits
<1>4. Question(d, q) /\ q.bad \in Nat
  <2>1. needle \in Nat /\ needle <= ChunkChars + 1
    BY ReaderAssumption
  <2> QED
    BY <1>1, <2>1 DEF Question
<1>5. Scanning(d, q, p, <<>>)
  <2>1. CursorFits(d, q, p.cursor) /\ p.index >= p.cursor.from /\ p.cursor.position = 0
    BY <1>2, NoPassIs DEF CursorFits
  <2>2. Undamaged(q, p.index) /\ SawText(d, q, p.any, p.index) /\ TailFits(d, q, p)
    BY <1>2, <1>4, NoPassIs DEF Undamaged, SawText, TailFits
  <2>3. ReachNoticed(d, q, p) /\ FoundFits(d, q, p)
    BY <1>2 DEF ReachNoticed, FoundFits
  <2>4. Later(p.index, p.cursor.position) = 0
    BY <1>2, <2>1 DEF Later
  <2>5. SubSeq(<<>>, 1, Len(<<>>) - p.count) = <<>> /\ p.count <= Len(<<>>)
    BY <1>2
  <2>6. Covers(d, q, <<>>, 0)
    BY CoversNothing
  <2> QED
    BY <1>2, <2>1, <2>2, <2>3, <2>4, <2>5, <2>6 DEF Scanning
<1> QED
  BY <1>1, <1>2, <1>3, <1>4, <1>5, NoPassIs DEF ReadingFits

\* The scan for the next answer.
LEMMA Resumed ==
  ASSUME ReadingFits(doc, ask, pass, given), NextAnswer
  PROVE  ReadingFits(doc', ask', pass', given')
<1> PICK c \in CursorRow : c = pass.cursor
  BY PassFields DEF ReadingFits
<1> PICK p : p = [NoPass EXCEPT !.pc = "scan", !.cursor = c, !.any = c.any, !.index = c.from]
  OBVIOUS
<1>1. c.position \in Nat /\ c.from \in Nat /\ c.any \in BOOLEAN
  BY DEF CursorRow
<1>2. /\ p \in PassRow /\ p.pc = "scan" /\ p.cursor = c /\ p.index = c.from /\ p.any = c.any
      /\ p.count = 0 /\ p.bytes = 0 /\ p.found = FALSE
  BY <1>1, NoPassIs DEF PassRow, PassStates
<1>3. doc' = doc /\ ask' = ask /\ pass' = p /\ given' = given /\ pass.pc = "answered"
  BY DEF NextAnswer
<1>4. /\ CursorFits(doc, ask, c) /\ Undamaged(ask, c.from) /\ SawText(doc, ask, c.any, c.from)
      /\ Covers(doc, ask, given, c.position) /\ Original(doc) /\ Question(doc, ask)
      /\ c.position <= Len(doc) /\ given \in Seq(Nat)
  BY <1>3 DEF ReadingFits
<1>5. c.from <= c.position /\ Len(doc) \in Nat
  BY <1>1, <1>4 DEF CursorFits, Original
<1>6. Scanning(doc, ask, p, given)
  <2>1. TailFits(doc, ask, p) /\ FoundFits(doc, ask, p)
    BY <1>1, <1>2 DEF TailFits, FoundFits
  <2>2. ReachNoticed(doc, ask, p)
    BY <1>1, <1>2, <1>5 DEF ReachNoticed
  <2>3. Later(p.index, p.cursor.position) = c.position
    BY <1>1, <1>2, <1>5 DEF Later
  <2>4. SubSeq(given, 1, Len(given) - p.count) = given /\ p.count <= Len(given)
    <3>1. Len(given) \in Nat /\ Len(given) - 0 = Len(given) /\ 0 <= Len(given)
      BY <1>4
    <3>2. SubSeq(given, 1, Len(given)) = given
      BY <1>4, SubSeqFull
    <3> QED
      BY <1>2, <3>1, <3>2
  <2>5. CursorFits(doc, ask, p.cursor) /\ Undamaged(ask, p.index) /\ SawText(doc, ask, p.any, p.index)
    BY ONLY <1>2, <1>4, Zenon
  <2>6. /\ Covers(doc, ask, given, Later(p.index, p.cursor.position))
        /\ Covers(doc, ask, SubSeq(given, 1, Len(given) - p.count), p.cursor.position)
    BY ONLY <1>2, <1>4, <2>3, <2>4, Zenon
  <2>7. p.index >= p.cursor.from /\ p.bytes = 0
    BY ONLY <1>1, <1>2
  <2> QED
    BY ONLY <2>1, <2>2, <2>4, <2>5, <2>6, <2>7, Zenon DEF Scanning
<1> QED
  BY <1>1, <1>2, <1>3, <1>4, <1>5, <1>6 DEF ReadingFits

-----------------------------------------------------------------------------
(* A fragment is scanned.                                                  *)

\* What the scan of the next fragment starts from.
AtFragment(i) ==
  /\ i = pass.index + 1 /\ i \in 1..Len(doc) /\ pass.pc = "scan" /\ Readable(i)
  /\ doc' = doc /\ ask' = ask

LEMMA FragmentHas ==
  ASSUME ReadingFits(doc, ask, pass, given), OnFragment
  PROVE  /\ AtFragment(pass.index + 1) /\ Original(doc) /\ Question(doc, ask)
         /\ Scanning(doc, ask, pass, given) /\ pass \in PassRow /\ given \in Seq(Nat)
<1>1. pass.pc = "scan" /\ pass.index < Len(doc) /\ Readable(pass.index + 1) /\ doc' = doc /\ ask' = ask
  BY DEF OnFragment
<1>2. Original(doc) /\ Question(doc, ask) /\ Scanning(doc, ask, pass, given) /\ pass \in PassRow /\ given \in Seq(Nat)
  BY <1>1 DEF ReadingFits
<1>3. pass.index + 1 \in 1..Len(doc)
  BY <1>1, <1>2, PassFields DEF Original
<1> QED
  BY <1>1, <1>2, <1>3 DEF AtFragment

\* What was kept is the end of what comes before the fragment in its base.
LEMMA PrefixIs ==
  ASSUME Original(doc), Question(doc, ask), pass \in PassRow, Scanning(doc, ask, pass, given),
         NEW i, AtFragment(i)
  PROVE  /\ Prefix \in Seq(Chars) /\ EndOf(Before(doc, i), Prefix) /\ Before(doc, i) \in Seq(Chars)
         /\ Fragment = doc[i] /\ doc[i].text \in Seq(Chars) /\ BaseText(doc)[i] = Before(doc, i) \o doc[i].text
         /\ pass.index >= pass.cursor.position => Len(Prefix) = Len(Before(doc, i)) \/ Len(Prefix) + 1 >= ask.needle
<1>0. i \in 1..Len(doc) /\ pass.index = i - 1 /\ i - 1 \in Nat /\ Fragment = doc[i] /\ Len(doc) \in Nat
  BY PassFields DEF AtFragment, Fragment, Original
<1>1. /\ Before(doc, i) \in Seq(Chars) /\ BaseText(doc)[i] = Before(doc, i) \o doc[i].text
      /\ doc[i].text \in Seq(Chars)
  BY <1>0, BaseTextsAre DEF Original
<1>2. <<>> \in Seq(Chars) /\ EndOf(Before(doc, i), <<>>)
  BY <1>1 DEF EndOf
<1>3. CASE Contiguous
  <2>1. pass.index > pass.cursor.from /\ doc[pass.index].base = Fragment.base
    BY <1>3 DEF Contiguous
  <2>2. /\ pass.index < Len(doc) /\ pass.index + 1 = i /\ i > 1
    <3>1. pass.index \in Nat /\ pass.cursor.from \in Nat
      BY PassFields
    <3> QED
      BY ONLY <1>0, <2>1, <3>1
  <2>3. EndOf(BaseText(doc)[pass.index], pass.tail) /\ Len(pass.tail) + 1 >= ask.needle
    BY <1>0, <2>1, <2>2 DEF Scanning, TailFits
  <2>4. Before(doc, i) = BaseText(doc)[pass.index]
    BY <1>0, <2>1, <2>2 DEF Before
  <2>5. Prefix = pass.tail
    BY <1>3 DEF Prefix
  <2> QED
    BY <1>0, <1>1, <2>3, <2>4, <2>5, PassFields
<1>4. CASE ~Contiguous
  <2>1. Prefix = <<>>
    BY <1>4 DEF Prefix
  <2>2. ASSUME pass.index >= pass.cursor.position PROVE Before(doc, i) = <<>>
    <3>1. pass.index \in Nat /\ pass.cursor.from \in Nat /\ pass.cursor.position \in Nat
      BY PassFields
    <3>2. pass.cursor.from = 0 \/ pass.index > pass.cursor.from
      BY <2>2, <3>1 DEF Scanning, CursorFits
    <3>3. i > 1 => pass.index > pass.cursor.from
      BY <1>0, <3>1, <3>2
    <3>4. i > 1 => doc[i - 1].base # doc[i].base
      BY <1>0, <1>4, <3>3 DEF Contiguous
    <3> QED
      BY <3>4 DEF Before
  <2> QED
    BY <1>0, <1>1, <1>2, <2>1, <2>2
<1> QED
  BY <1>3, <1>4

\* What the answer shows of a fragment is text exactly when it is wanted.
LEMMA ShowsWanted ==
  ASSUME Original(doc), Question(doc, ask), pass \in PassRow, Scanning(doc, ask, pass, given),
         NEW i, AtFragment(i), Seeking, InChosen
  PROVE  /\ ~Blank(Showing) <=> Wanted(doc, ask, i)
         /\ Len(Showing) \in Nat /\ Len(Showing) <= ChunkChars
         /\ ask.sel # 0 /\ Showing # <<>> => doc[i].text # <<>>
<1>1. /\ Prefix \in Seq(Chars) /\ EndOf(Before(doc, i), Prefix) /\ Before(doc, i) \in Seq(Chars)
      /\ Fragment = doc[i] /\ doc[i].text \in Seq(Chars) /\ BaseText(doc)[i] = Before(doc, i) \o doc[i].text
      /\ Len(Prefix) = Len(Before(doc, i)) \/ Len(Prefix) + 1 >= ask.needle
  BY PrefixIs DEF Seeking
<1>0. i \in 1..Len(doc) /\ pass.index + 1 = i /\ Len(doc[i].text) <= ChunkChars /\ ChunkChars \in Nat
  BY ReaderAssumption DEF AtFragment, Original
<1> PICK words \in Seq(Chars) : words = doc[i].text
  BY <1>1
<1>2. CASE ask.needle > 0
  <2>1. ask.needle \in Nat \ {0} /\ ask.sel = 0
    BY <1>2 DEF Question
  <2>2. Hits(doc, ask.needle, i) <=> HitAfter(ask.needle, Before(doc, i) \o words, Len(Before(doc, i)))
    <3>1. Len(Before(doc, i) \o words) = Len(Before(doc, i)) + Len(words)
      BY <1>1, ConcatProperties
    <3>2. Len(Before(doc, i)) \in Nat /\ Len(words) \in Nat
      BY <1>1
    <3>3. Len(Before(doc, i) \o words) - Len(words) = Len(Before(doc, i))
      BY <3>1, <3>2
    <3> QED
      BY <1>1, <3>3 DEF Hits
  <2>3. Hits(doc, ask.needle, i) <=> HitAfter(ask.needle, Prefix \o words, Len(Prefix))
    BY <1>1, <2>1, <2>2, HitsAreSeen
  <2>4. Wanted(doc, ask, i) <=> HitAfter(ask.needle, Combined, Len(Prefix))
    BY <1>1, <1>2, <2>3 DEF Wanted, Combined
  <2>5. Showing = IF Wanted(doc, ask, i) THEN words ELSE <<>>
    BY <1>1, <1>2, <2>4 DEF Showing, Searching
  <2>6. Wanted(doc, ask, i) => ~Blank(words)
    BY <1>0, WantedIsText
  <2>7. Blank(<<>>) /\ Len(<<>>) = 0
    BY DEF Blank
  <2> QED
    BY <1>0, <2>1, <2>5, <2>6, <2>7
<1>3. CASE ~(ask.needle > 0)
  <2> PICK b : b = IF ask.sel # 0 /\ ask.off > Offset(doc, i) THEN ask.off - Offset(doc, i) ELSE 0
    OBVIOUS
  <2>1. b \in Nat
    BY <1>0, OffsetsAre DEF Question
  <2>2. Begins = b
    BY <1>0 DEF Begins
  <2>3. Showing = SubSeq(words, b + 1, Len(words))
    BY <1>1, <1>3, <2>2 DEF Showing, Searching
  <2>4. Wanted(doc, ask, i) <=> (ask.sel # 0 => doc[i].base = ask.sel) /\ ~Blank(SubSeq(words, b + 1, Len(words)))
    BY <1>3 DEF Wanted
  <2>5. ask.sel # 0 => doc[i].base = ask.sel
    BY <1>1 DEF InChosen
  <2>6. /\ Len(SubSeq(words, b + 1, Len(words))) \in Nat
        /\ Len(SubSeq(words, b + 1, Len(words))) <= Len(words)
        /\ words = <<>> => SubSeq(words, b + 1, Len(words)) = <<>>
    BY <2>1, LatterLength
  <2>7. Len(words) \in Nat /\ Len(words) <= ChunkChars
    BY <1>0
  <2>8. ~Blank(Showing) <=> Wanted(doc, ask, i)
    BY <2>3, <2>4, <2>5
  <2>9. Len(Showing) \in Nat /\ Len(Showing) <= ChunkChars
    <3> PICK latter : latter = SubSeq(words, b + 1, Len(words))
      OBVIOUS
    <3>1. Len(latter) \in Nat /\ Len(latter) <= Len(words) /\ Showing = latter
      BY <2>3, <2>6
    <3>2. ChunkChars \in Nat
      BY <1>0
    <3>3. Len(latter) <= ChunkChars
      BY ONLY <2>7, <3>1, <3>2
    <3> QED
      BY <3>1, <3>3
  <2>10. Showing # <<>> => doc[i].text # <<>>
    BY <2>3, <2>6
  <2> QED
    BY <2>8, <2>9, <2>10
<1> QED
  BY <1>2, <1>3

\* What the scan knows after one more fragment.
LEMMA Advances ==
  ASSUME Original(doc), Question(doc, ask), pass \in PassRow, Scanning(doc, ask, pass, given),
         NEW i, AtFragment(i)
  PROVE  /\ Undamaged(ask, i) /\ SawText(doc, ask, AnyText, i) /\ AnyText \in BOOLEAN
         /\ LastOf(Combined, Overlap) \in Seq(Chars)
         /\ i < Len(doc) /\ doc[i + 1].base = doc[i].base =>
              /\ EndOf(BaseText(doc)[i], LastOf(Combined, Overlap))
              /\ Len(LastOf(Combined, Overlap)) + 1 >= ask.needle
<1>1. /\ Prefix \in Seq(Chars) /\ EndOf(Before(doc, i), Prefix) /\ Before(doc, i) \in Seq(Chars)
      /\ Fragment = doc[i] /\ doc[i].text \in Seq(Chars) /\ BaseText(doc)[i] = Before(doc, i) \o doc[i].text
  BY PrefixIs
<1>2. i \in 1..Len(doc) /\ pass.index + 1 = i /\ pass.index \in Nat /\ i \in Nat /\ Len(doc) \in Nat
  BY PassFields DEF AtFragment, Original
<1> PICK words \in Seq(Chars) : words = doc[i].text
  BY <1>1
<1>3. Combined = Prefix \o words /\ Combined \in Seq(Chars) /\ Len(Combined) = Len(Prefix) + Len(words)
  BY <1>1, ConcatProperties DEF Combined
<1>4. Overlap \in Nat /\ Overlap <= ChunkChars /\ Overlap + 1 >= ask.needle
  BY ReaderAssumption DEF Overlap, Searching, Question
<1>5. Undamaged(ask, i)
  <2>1. ask.bad = 0 \/ ask.bad > pass.index
    BY DEF Scanning, Undamaged
  <2>2. ask.bad # i /\ ask.bad \in Nat
    BY DEF AtFragment, Readable, Question
  <2> QED
    BY <1>2, <2>1, <2>2 DEF Undamaged
<1>6. AnyText \in BOOLEAN
  BY PassFields DEF AnyText
<1>7. SawText(doc, ask, AnyText, i)
  <2> SUFFICES ASSUME NEW j \in 1..i, ChosenBase(doc, ask, j), ~Blank(doc[j].text) PROVE AnyText = TRUE
    BY DEF SawText
  <2>1. CASE j = i
    BY <1>1, <1>2, <2>1, PassFields DEF AnyText, InChosen, ChosenBase
  <2>2. CASE j # i
    <3>1. j \in 1..pass.index
      BY <1>2, <2>2
    <3>2. pass.any = TRUE
      BY <3>1 DEF Scanning, SawText
    <3> QED
      BY <3>2 DEF AnyText
  <2> QED
    BY <2>1, <2>2
<1>8. /\ LastOf(Combined, Overlap) \in Seq(Chars) /\ EndOf(Combined, LastOf(Combined, Overlap))
      /\ Len(LastOf(Combined, Overlap)) = IF Len(Combined) <= Overlap THEN Len(Combined) ELSE Overlap
  BY <1>3, <1>4, LastIs
<1>9. ASSUME i < Len(doc), doc[i + 1].base = doc[i].base
      PROVE  /\ EndOf(BaseText(doc)[i], LastOf(Combined, Overlap))
             /\ Len(LastOf(Combined, Overlap)) + 1 >= ask.needle
  <2>1. EndOf(BaseText(doc)[i], Combined)
    BY <1>1, <1>3, EndsGrow
  <2>2. BaseText(doc)[i] \in Seq(Chars)
    BY <1>2, BaseTextsAre
  <2>3. EndOf(BaseText(doc)[i], LastOf(Combined, Overlap))
    BY <1>3, <1>8, <2>1, <2>2, EndsOfEnds
  <2>4. Len(words) = ChunkChars
    BY <1>2, <1>9 DEF Original
  <2>5. Len(Prefix) \in Nat /\ Len(words) \in Nat /\ ask.needle \in Nat
    BY <1>1 DEF Question
  <2>6. Len(LastOf(Combined, Overlap)) >= Overlap
    BY <1>3, <1>4, <1>8, <2>4, <2>5
  <2> QED
    BY <1>4, <1>8, <2>3, <2>5, <2>6
<1> QED
  BY <1>5, <1>6, <1>7, <1>8, <1>9

\* Nothing is wanted of the fragments behind the chosen base.
LEMMA BehindTheBase ==
  ASSUME Original(doc), Question(doc, ask), ask.sel # 0, NEW i \in 1..Len(doc), NEW j \in 1..Len(doc), i < j,
         doc[i].base >= ask.sel, doc[j].base # ask.sel
  PROVE  \A k \in j..Len(doc) : ~ChosenBase(doc, ask, k) /\ ~Wanted(doc, ask, k)
<1> SUFFICES ASSUME NEW k \in j..Len(doc) PROVE ~ChosenBase(doc, ask, k) /\ ~Wanted(doc, ask, k)
  OBVIOUS
<1>1. k \in 1..Len(doc) /\ i <= j /\ j <= k
  BY DEF Original
<1>2. doc[i].base <= doc[j].base /\ doc[j].base <= doc[k].base
  BY <1>1, BasesInOrder
<1>3. doc[i].base \in Nat /\ doc[j].base \in Nat /\ doc[k].base \in Nat /\ ask.sel \in Nat
  BY <1>1 DEF Original, Question
<1>4. ~ChosenBase(doc, ask, k)
  BY <1>2, <1>3 DEF ChosenBase
<1> QED
  BY <1>1, <1>4, WantedIsText

\* A fragment is left out.
LEMMA Skipped ==
  ASSUME ReadingFits(doc, ask, pass, given), Skip
  PROVE  ReadingFits(doc', ask', pass', given')
<1> PICK i : i = pass.index + 1
  OBVIOUS
<1>1. /\ AtFragment(i) /\ Original(doc) /\ Question(doc, ask) /\ Scanning(doc, ask, pass, given)
      /\ pass \in PassRow /\ given \in Seq(Nat)
  BY FragmentHas DEF Skip
<1>2. /\ Undamaged(ask, i) /\ SawText(doc, ask, AnyText, i) /\ AnyText \in BOOLEAN
      /\ LastOf(Combined, Overlap) \in Seq(Chars)
      /\ i < Len(doc) /\ doc[i + 1].base = doc[i].base =>
           /\ EndOf(BaseText(doc)[i], LastOf(Combined, Overlap))
           /\ Len(LastOf(Combined, Overlap)) + 1 >= ask.needle
  BY <1>1, Advances
<1> PICK tail \in Seq(Chars), any \in BOOLEAN : tail = LastOf(Combined, Overlap) /\ any = AnyText
  BY <1>2
<1> PICK found : found = (pass.found \/ (Seeking /\ InChosen /\ ask.sel # 0))
  OBVIOUS
<1> PICK p : p = [pass EXCEPT !.tail = tail, !.any = any, !.index = i, !.found = found]
  OBVIOUS
<1>3. pass' = p /\ given' = given /\ doc' = doc /\ ask' = ask
  BY <1>1 DEF Skip, Scanned, AtFragment
<1>4. /\ i \in 1..Len(doc) /\ i \in Nat /\ pass.index \in Nat /\ pass.index + 1 = i /\ Len(doc) \in Nat
      /\ pass.cursor.position \in Nat /\ pass.cursor.from \in Nat /\ pass.pc = "scan"
      /\ Fragment = doc[i] /\ found \in BOOLEAN
  BY <1>1, PassFields DEF AtFragment, Original, Fragment
<1>5. /\ p \in PassRow /\ p.pc = "scan" /\ p.cursor = pass.cursor /\ p.index = i /\ p.any = any /\ p.tail = tail
      /\ p.count = pass.count /\ p.bytes = pass.bytes /\ p.found = found /\ p.at = pass.at
  BY <1>1, <1>4 DEF PassRow
<1>6. \/ ~Seeking
      \/ Seeking /\ ~InChosen /\ ~pass.found
      \/ Seeking /\ InChosen /\ ask.sel # 0 /\ doc[i].text # <<>> /\ EndsAt <= ask.off
  BY <1>4 DEF Skip
<1>7. LastOffset(doc, i) = EndsAt /\ EndsAt \in Nat /\ ask.off \in Nat
  <2>1. Offset(doc, i) \in Nat
    BY <1>1, <1>4, OffsetsAre
  <2>2. doc[i].text \in Seq(Chars)
    BY <1>1, <1>4 DEF Original
  <2>3. Len(doc[i].text) \in Nat
    BY <2>2
  <2>4. EndsAt = Offset(doc, i) + Len(doc[i].text)
    BY <1>4, Zenon DEF EndsAt
  <2>5. ask.off \in Nat
    BY <1>1 DEF Question
  <2> QED
    BY <2>1, <2>3, <2>4, <2>5 DEF LastOffset
<1>8. Seeking => ~Wanted(doc, ask, i) /\ ~InReach(doc, ask, i)
  <2>1. ASSUME Seeking PROVE ~InReach(doc, ask, i) /\ (ask.sel # 0 \/ ~ChosenBase(doc, ask, i))
    BY <1>4, <1>6, <1>7, <2>1 DEF InReach, ChosenBase, InChosen
  <2> QED
    BY <1>1, <1>4, <2>1, WantedIsText
<1>9. Scanning(doc, ask, p, given)
  <2>1. CursorFits(doc, ask, p.cursor) /\ p.index >= p.cursor.from /\ Undamaged(ask, p.index) /\ SawText(doc, ask, p.any, p.index)
    <3>1. pass.index >= pass.cursor.from /\ CursorFits(doc, ask, pass.cursor)
      BY <1>1 DEF Scanning
    <3>2. i >= pass.cursor.from
      BY ONLY <1>4, <3>1
    <3> QED
      BY <1>2, <1>5, <3>1, <3>2
  <2>2. TailFits(doc, ask, p)
    BY <1>2, <1>5 DEF TailFits
  <2>3. FoundFits(doc, ask, p)
    <3> SUFFICES ASSUME found = TRUE PROVE ask.sel # 0 /\ i > 0 /\ doc[i].base >= ask.sel
      BY <1>5 DEF FoundFits
    <3>1. CASE pass.found = TRUE
      <4>1. ask.sel # 0 /\ pass.index > 0 /\ doc[pass.index].base >= ask.sel
        BY <1>1, <3>1 DEF Scanning, FoundFits
      <4>2. pass.index \in 1..Len(doc) /\ pass.index <= i
        BY ONLY <1>4, <4>1
      <4>3. doc[pass.index].base <= doc[i].base
        BY <1>1, <1>4, <4>2, BasesInOrder
      <4>4. doc[pass.index].base \in Nat /\ doc[i].base \in Nat /\ ask.sel \in Nat
        BY <1>1, <1>4, <4>2 DEF Original, Question
      <4> QED
        BY ONLY <1>4, <4>1, <4>3, <4>4
    <3>2. CASE InChosen /\ ask.sel # 0
      <4>1. doc[i].base = ask.sel /\ ask.sel \in Nat
        BY <1>1, <1>4, <3>2 DEF InChosen, Question
      <4> QED
        BY <1>4, <3>2, <4>1
    <3> QED
      BY <1>1, <3>1, <3>2, PassFields
  <2>4. ReachNoticed(doc, ask, p)
    <3> SUFFICES ASSUME ask.sel # 0, NEW j \in 1..i, j > pass.cursor.position, InReach(doc, ask, j)
                 PROVE  found = TRUE /\ pass.at = TRUE
      BY <1>5 DEF ReachNoticed
    <3>1. j # i
      <4>1. j = i => Seeking
        BY <1>4 DEF Seeking
      <4> QED
        BY <1>8, <4>1
    <3>2. j \in 1..pass.index
      BY <1>4, <3>1
    <3>3. pass.found = TRUE /\ pass.at = TRUE
      BY <1>1, <3>2 DEF Scanning, ReachNoticed
    <3> QED
      BY <3>3
  <2>5. Covers(doc, ask, given, Later(p.index, p.cursor.position))
    <3>1. Covers(doc, ask, given, Later(pass.index, pass.cursor.position))
      BY <1>1 DEF Scanning
    <3>2. CASE Seeking
      <4>1. Later(pass.index, pass.cursor.position) = pass.index /\ Later(i, pass.cursor.position) = i
        BY <1>4, <3>2 DEF Seeking, Later
      <4>2. Covers(doc, ask, given, pass.index + 1)
        BY <1>1, <1>4, <1>8, <3>1, <3>2, <4>1, CoversUnwanted
      <4> QED
        BY <1>4, <1>5, <4>1, <4>2
    <3>3. CASE ~Seeking
      <4>1. Later(pass.index, pass.cursor.position) = pass.cursor.position /\ Later(i, pass.cursor.position) = pass.cursor.position
        BY <1>4, <3>3 DEF Seeking, Later
      <4> QED
        BY <1>5, <3>1, <4>1
    <3> QED
      BY <3>2, <3>3
  <2>6. /\ p.count <= Len(given) /\ Covers(doc, ask, SubSeq(given, 1, Len(given) - p.count), p.cursor.position)
    BY <1>1, <1>5 DEF Scanning
  <2>7. p.index <= p.cursor.position => p.bytes = 0
    <3>1. pass.index <= pass.cursor.position => pass.bytes = 0
      BY <1>1 DEF Scanning
    <3> QED
      BY <1>4, <1>5, <3>1
  <2> QED
    BY <2>1, <2>2, <2>3, <2>4, <2>5, <2>6, <2>7 DEF Scanning
<1>10. pass.cursor.position <= Len(doc)
  BY <1>4 DEF ReadingFits
<1> QED
  BY <1>1, <1>3, <1>4, <1>5, <1>9, <1>10 DEF ReadingFits

\* A reading that ends after all that is wanted of the original.
LEMMA Concludes ==
  ASSUME ReadingFits(doc, ask, pass, given), pass.pc = "scan", Covers(doc, ask, given, Len(doc)),
         \A j \in 1..Len(doc) : Wanted(doc, ask, j) => j <= pass.index,
         NEW wanted \in BOOLEAN, ask.sel # 0 /\ (\E j \in 1..pass.index : InReach(doc, ask, j)) => wanted = TRUE,
         ask.sel = 0 => ask.bad = 0,
         doc' = doc, ask' = ask, given' = given, pass' = [pass EXCEPT !.pc = Concluded(pass, wanted)]
  PROVE  ReadingFits(doc', ask', pass', given')
<1> PICK pc : pc = Concluded(pass, wanted)
  OBVIOUS
<1> PICK p : p = [pass EXCEPT !.pc = pc]
  OBVIOUS
<1>1. /\ Original(doc) /\ Question(doc, ask) /\ Scanning(doc, ask, pass, given)
      /\ pass \in PassRow /\ given \in Seq(Nat) /\ pass.index <= Len(doc) /\ pass.cursor.position <= Len(doc)
  BY DEF ReadingFits
<1>2. pc \in {"complete", "empty", "not_found"}
  BY DEF Concluded
<1>3. p \in PassRow /\ p.pc = pc /\ p.index = pass.index /\ p.cursor = pass.cursor
  BY <1>1, <1>2 DEF PassRow, PassStates
<1>4. ASSUME pc \in {"empty", "not_found"}, NEW j \in 1..Len(doc), Wanted(doc, ask, j) PROVE FALSE
  <2>1. j \in 1..pass.index
    BY <1>1, <1>4, PassFields DEF Original
  <2>2. ChosenBase(doc, ask, j) /\ ~Blank(doc[j].text) /\ (ask.sel # 0 => InReach(doc, ask, j))
    BY <1>1, <1>4, WantedIsText
  <2>3. pass.any = TRUE
    BY <1>1, <2>1, <2>2 DEF Scanning, SawText
  <2>4. ask.sel # 0 => wanted = TRUE
    BY <2>1, <2>2
  <2> QED
    BY <1>4, <2>3, <2>4 DEF Concluded
<1>5. pass' = p
  OBVIOUS
<1> QED
  BY <1>1, <1>2, <1>3, <1>4, <1>5 DEF ReadingFits

\* The fragment where an answer stopped is noticed as soon as it is passed.
LEMMA ReachIsNoticed ==
  ASSUME Original(doc), pass \in PassRow, Scanning(doc, ask, pass, given), ask.sel # 0,
         NEW j \in 1..pass.index, InReach(doc, ask, j),
         pass.index > pass.cursor.position \/ ~InReach(doc, ask, pass.cursor.position + 1)
  PROVE  pass.found = TRUE /\ pass.at = TRUE
<1>1. pass.index \in Nat /\ pass.cursor.position \in Nat
  BY PassFields
<1>2. CASE j > pass.cursor.position
  BY <1>2 DEF Scanning, ReachNoticed
<1>3. CASE ~(j > pass.cursor.position)
  <2>1. pass.cursor.position # 0
    BY <1>1, <1>3
  <2>2. InReach(doc, ask, pass.cursor.position + 1)
    BY <2>1 DEF Scanning, CursorFits
  <2>3. pass.cursor.position + 1 \in 1..pass.index /\ pass.cursor.position + 1 > pass.cursor.position
    BY <1>1, <2>2
  <2> QED
    BY <2>2, <2>3 DEF Scanning, ReachNoticed
<1> QED
  BY <1>2, <1>3

\* The scan goes beyond the chosen base.
LEMMA BaseLeft ==
  ASSUME ReadingFits(doc, ask, pass, given), LeaveBase
  PROVE  ReadingFits(doc', ask', pass', given')
<1> PICK i : i = pass.index + 1
  OBVIOUS
<1>1. /\ AtFragment(i) /\ Original(doc) /\ Question(doc, ask) /\ Scanning(doc, ask, pass, given)
      /\ pass \in PassRow /\ given \in Seq(Nat)
  BY FragmentHas DEF LeaveBase
<1>2. /\ i \in 1..Len(doc) /\ i \in Nat /\ pass.index \in Nat /\ pass.index + 1 = i /\ Len(doc) \in Nat
      /\ pass.cursor.position \in Nat /\ pass.pc = "scan" /\ Fragment = doc[i] /\ pass.at \in BOOLEAN
  BY <1>1, PassFields DEF AtFragment, Original, Fragment
<1>3. /\ pass.index >= pass.cursor.position /\ pass.found = TRUE /\ ask.sel # 0 /\ doc[i].base # ask.sel
      /\ pass' = [pass EXCEPT !.pc = Concluded(pass, pass.at)]
      /\ given' = given /\ doc' = doc /\ ask' = ask
  BY <1>1, <1>2, PassFields DEF LeaveBase, Seeking, InChosen, AtFragment
<1>4. pass.index > 0 /\ doc[pass.index].base >= ask.sel
  BY <1>1, <1>3 DEF Scanning, FoundFits
<1>5. pass.index \in 1..Len(doc) /\ pass.index < i
  BY <1>2, <1>4
<1>6. \A k \in i..Len(doc) : ~ChosenBase(doc, ask, k) /\ ~Wanted(doc, ask, k)
  BY <1>1, <1>2, <1>3, <1>4, <1>5, BehindTheBase
<1>7. Covers(doc, ask, given, Len(doc))
  <2>1. Later(pass.index, pass.cursor.position) = pass.index
    BY <1>2, <1>3 DEF Later
  <2>2. Covers(doc, ask, given, pass.index)
    BY <1>1, <2>1 DEF Scanning
  <2>3. \A k \in pass.index + 1..Len(doc) : ~Wanted(doc, ask, k)
    BY <1>2, <1>6
  <2>4. pass.index <= Len(doc)
    BY <1>5, <1>2
  <2> QED
    BY <1>1, <1>2, <2>2, <2>3, <2>4, CoversUpTo
<1>8. ASSUME NEW j \in 1..Len(doc), Wanted(doc, ask, j) PROVE j <= pass.index
  <2>1. ~(j \in i..Len(doc))
    BY <1>6, <1>8
  <2> QED
    BY <1>2, <2>1
<1>9. ASSUME NEW j \in 1..pass.index, InReach(doc, ask, j) PROVE pass.at = TRUE
  <2>1. pass.index > pass.cursor.position \/ ~InReach(doc, ask, pass.cursor.position + 1)
    <3>1. ~ChosenBase(doc, ask, i)
      BY <1>2, <1>6
    <3>2. pass.index = pass.cursor.position => pass.cursor.position + 1 = i
      BY <1>2
    <3> QED
      BY <1>2, <1>3, <3>1, <3>2 DEF InReach
  <2> QED
    BY <1>1, <1>3, <1>9, <2>1, ReachIsNoticed
<1> PICK wanted \in BOOLEAN : wanted = pass.at
  BY <1>2
<1>10. pass' = [pass EXCEPT !.pc = Concluded(pass, wanted)]
  BY <1>3
<1>11. ask.sel # 0 /\ (\E j \in 1..pass.index : InReach(doc, ask, j)) => wanted = TRUE
  BY <1>9
<1> QED
  BY <1>2, <1>3, <1>7, <1>8, <1>10, <1>11, Concludes

\* The scan reaches the end of the original.
LEMMA Ended ==
  ASSUME ReadingFits(doc, ask, pass, given), EndOfDocument
  PROVE  ReadingFits(doc', ask', pass', given')
<1>1. /\ Original(doc) /\ Question(doc, ask) /\ Scanning(doc, ask, pass, given)
      /\ pass \in PassRow /\ given \in Seq(Nat) /\ pass.cursor.position <= Len(doc)
  BY DEF ReadingFits, EndOfDocument
<1> PICK wanted : wanted = (pass.found /\ pass.at)
  OBVIOUS
<1>2. /\ pass.index = Len(doc) /\ pass.pc = "scan" /\ ask.bad # Len(doc) + 1
      /\ pass' = [pass EXCEPT !.pc = Concluded(pass, wanted)]
      /\ given' = given /\ doc' = doc /\ ask' = ask
  BY DEF EndOfDocument, Readable
<1>3. /\ pass.index \in Nat /\ pass.cursor.position \in Nat /\ wanted \in BOOLEAN
      /\ wanted = TRUE <=> pass.found = TRUE /\ pass.at = TRUE
  BY <1>1, PassFields
<1>4. Covers(doc, ask, given, Len(doc))
  <2>1. Later(pass.index, pass.cursor.position) = Len(doc)
    BY <1>1, <1>2, <1>3 DEF Later
  <2> QED
    BY <1>1, <2>1 DEF Scanning
<1>5. ASSUME ask.sel # 0, NEW j \in 1..pass.index, InReach(doc, ask, j) PROVE wanted = TRUE
  <2>1. pass.index > pass.cursor.position \/ ~InReach(doc, ask, pass.cursor.position + 1)
    <3>1. CASE pass.cursor.position = 0
      BY <1>3, <3>1
    <3>2. CASE pass.cursor.position # 0
      BY <1>1, <1>2, <3>2 DEF Scanning, CursorFits
    <3> QED
      BY <3>1, <3>2
  <2>2. pass.found = TRUE /\ pass.at = TRUE
    BY <1>1, <1>5, <2>1, ReachIsNoticed
  <2> QED
    BY <1>3, <2>2
<1>6. ask.bad = 0
  <2>1. ask.bad = 0 \/ ask.bad > Len(doc)
    BY <1>1, <1>2 DEF Scanning, Undamaged
  <2>2. ask.bad \in Nat /\ ask.bad <= Len(doc) + 1 /\ Len(doc) \in Nat
    BY <1>1 DEF Question, Original
  <2> QED
    BY <1>2, <2>1, <2>2
<1>7. \A j \in 1..Len(doc) : Wanted(doc, ask, j) => j <= pass.index
  BY <1>2, <1>3
<1> QED
  BY <1>2, <1>3, <1>4, <1>5, <1>6, <1>7, Concludes

\* The reader meets damage: the passages of the answer under way are lost.
LEMMA AnswerLost ==
  ASSUME ReadingFits(doc, ask, pass, given), pass.pc = "scan", LosesTheAnswer, doc' = doc, ask' = ask
  PROVE  ReadingFits(doc', ask', pass', given')
<1>1. /\ Original(doc) /\ Question(doc, ask) /\ Scanning(doc, ask, pass, given)
      /\ pass \in PassRow /\ given \in Seq(Nat) /\ pass.cursor.position <= Len(doc) /\ pass.index <= Len(doc)
  BY DEF ReadingFits
<1> PICK p : p = [pass EXCEPT !.pc = "damaged"]
  OBVIOUS
<1>2. /\ p \in PassRow /\ p.pc = "damaged" /\ p.index = pass.index /\ p.cursor = pass.cursor
  BY <1>1 DEF PassRow, PassStates
<1>3. pass' = p /\ given' = SubSeq(given, 1, Len(given) - pass.count)
  BY DEF LosesTheAnswer
<1>4. Covers(doc, ask, given', pass.cursor.position) /\ pass.count <= Len(given)
  BY <1>1, <1>3 DEF Scanning
<1>5. given' \in Seq(Nat)
  BY <1>1, <1>3, <1>4, WithoutTheLast, PassFields
<1> QED
  BY <1>1, <1>2, <1>3, <1>4, <1>5 DEF ReadingFits

\* An answer stops before or after a fragment; the next one goes on from there.
LEMMA Continues ==
  ASSUME Original(doc), Question(doc, ask), NEW p \in PassRow, NEW g \in Seq(Nat), p.cursor = pass.cursor,
         pass.cursor.position \in Nat, pass.cursor.from \in Nat,
         NEW next \in 1..Len(doc), NEW prior \in Int, prior < next, next > pass.cursor.position,
         prior >= 0, next < Len(doc), ask.sel # 0 => InReach(doc, ask, next + 1),
         Undamaged(ask, prior), SawText(doc, ask, p.any, prior), Covers(doc, ask, g, next), p.index <= Len(doc)
  PROVE  ReadingFits(doc, ask, Continued(p, next, prior), g)
<1> PICK c : c = IF ask.kind = "text" /\ prior >= pass.cursor.from THEN [position |-> next, from |-> prior, any |-> p.any]
                 ELSE [position |-> next, from |-> 0, any |-> FALSE]
  OBVIOUS
<1> PICK r : r = [p EXCEPT !.pc = "answered", !.cursor = c]
  OBVIOUS
<1>1. Continued(p, next, prior) = r
  <2>1. ~(next <= pass.cursor.position)
    BY DEF Original
  <2> QED
    BY <2>1 DEF Continued
<1>2. /\ c \in CursorRow /\ c.position = next
      /\ (c.from = prior /\ c.any = p.any) \/ (c.from = 0 /\ c.any = FALSE)
  <2>1. prior \in Nat /\ next \in Nat /\ p.any \in BOOLEAN
    BY PassFields DEF Original
  <2> QED
    BY <2>1 DEF CursorRow
<1>3. /\ r \in PassRow /\ r.pc = "answered" /\ r.cursor = c /\ r.index = p.index
  BY <1>2 DEF PassRow, PassStates
<1>4. CursorFits(doc, ask, c)
  <2>1. c.from = 0 \/ c.from < c.position
    BY <1>2
  <2> QED
    BY <1>2, <2>1 DEF CursorFits
<1>5. Undamaged(ask, c.from)
  <2>1. ask.bad \in Nat
    BY DEF Question
  <2> QED
    BY <1>2, <2>1 DEF Undamaged
<1>6. SawText(doc, ask, c.any, c.from)
  BY <1>2 DEF SawText
<1>7. Covers(doc, ask, g, c.position) /\ c.position <= Len(doc)
  BY <1>2 DEF Original
<1> QED
  BY <1>1, <1>3, <1>4, <1>5, <1>6, <1>7 DEF ReadingFits

\* What a locator reaches of the fragment.
LEMMA ReachedIs ==
  ASSUME Original(doc), Question(doc, ask), NEW i, i = pass.index + 1, i \in 1..Len(doc)
  PROVE  /\ Reached \in BOOLEAN /\ EndsAt \in Nat /\ EndsAt = LastOffset(doc, i) /\ ask.off \in Nat
         /\ doc[i].text # <<>> /\ EndsAt > ask.off => Reached = TRUE
<1>1. Offset(doc, i) \in Nat
  BY OffsetsAre
<1> PICK words \in Seq(Chars) : words = doc[i].text
  BY DEF Original
<1>2. Len(words) \in Nat
  OBVIOUS
<1>3. Fragment.text = words
  BY DEF Fragment
<1>4. EndsAt = Offset(doc, i) + Len(words) /\ LastOffset(doc, i) = Offset(doc, i) + Len(words)
  BY <1>3, Zenon DEF EndsAt, LastOffset
<1> PICK e \in Nat : e = EndsAt
  BY <1>1, <1>2, <1>4
<1> PICK off \in Nat : off = ask.off
  BY DEF Question
<1>5. CASE words = <<>>
  <2>1. Reached = (off = 0)
    BY <1>3, <1>5 DEF Reached
  <2> QED
    BY <1>4, <1>5, <2>1
<1>6. CASE words # <<>>
  <2>1. Reached = (off < e)
    BY <1>3, <1>6 DEF Reached
  <2>2. (off < e) \in BOOLEAN /\ (e > off => (off < e) = TRUE)
    OBVIOUS
  <2> QED
    BY <1>4, <2>1, <2>2
<1> QED
  BY <1>5, <1>6

\* The answer has no room for the fragment.
LEMMA Overflown ==
  ASSUME ReadingFits(doc, ask, pass, given), Overflow
  PROVE  ReadingFits(doc', ask', pass', given')
<1> PICK i : i = pass.index + 1
  OBVIOUS
<1>1. /\ AtFragment(i) /\ Original(doc) /\ Question(doc, ask) /\ Scanning(doc, ask, pass, given)
      /\ pass \in PassRow /\ given \in Seq(Nat)
  BY FragmentHas DEF Overflow, Scannable
<1>2. /\ Undamaged(ask, i) /\ SawText(doc, ask, AnyText, i) /\ AnyText \in BOOLEAN
      /\ LastOf(Combined, Overlap) \in Seq(Chars)
  BY <1>1, Advances
<1>3. /\ i \in 1..Len(doc) /\ i \in Nat /\ pass.index \in Nat /\ pass.index + 1 = i /\ Len(doc) \in Nat
      /\ pass.cursor.position \in Nat /\ pass.cursor.from \in Nat /\ pass.bytes \in Nat /\ pass.scanned \in Nat
      /\ pass.pc = "scan" /\ Fragment = doc[i]
  BY <1>1, PassFields DEF AtFragment, Original, Fragment
<1>4. /\ Seeking /\ InChosen /\ ~Fits /\ given' = given /\ doc' = doc /\ ask' = ask
      /\ ask.sel = 0 \/ doc[i].text = <<>> \/ EndsAt > ask.off
  BY <1>1, <1>3 DEF Overflow, Scannable, AtFragment
<1>5. /\ Len(Showing) \in Nat /\ Len(Showing) <= ChunkChars
      /\ ask.sel # 0 /\ Showing # <<>> => doc[i].text # <<>>
  BY <1>1, <1>4, ShowsWanted
<1>6. Showing # <<>> /\ pass.bytes # 0
  BY <1>3, <1>4, <1>5, ReaderAssumption DEF Fits
<1>7. pass.index > pass.cursor.position
  BY <1>1, <1>3, <1>6 DEF Scanning
<1> PICK tail \in Seq(Chars), any \in BOOLEAN : tail = LastOf(Combined, Overlap) /\ any = AnyText
  BY <1>2
<1> PICK found, at \in BOOLEAN :
         /\ found = IF ask.sel = 0 THEN pass.found ELSE TRUE
         /\ at = IF ask.sel = 0 THEN pass.at ELSE Reached
  <2>1. Reached \in BOOLEAN
    BY <1>1, <1>3, ReachedIs
  <2> QED
    BY <1>1, <2>1, PassFields
<1> PICK scanned \in Nat : scanned = pass.scanned + 1
  BY <1>3
<1> PICK p : p = [pass EXCEPT !.tail = tail, !.any = any, !.scanned = scanned, !.found = found, !.at = at]
  OBVIOUS
<1>8. /\ p \in PassRow /\ p.cursor = pass.cursor /\ p.index = pass.index /\ p.any = any
  <2>1. p = [pc |-> pass.pc, cursor |-> pass.cursor, index |-> pass.index, any |-> any, tail |-> tail,
             count |-> pass.count, bytes |-> pass.bytes, scanned |-> scanned, found |-> found, at |-> at]
    BY <1>1 DEF PassRow
  <2>2. /\ pass.pc \in PassStates /\ pass.cursor \in CursorRow /\ pass.index \in Nat /\ pass.count \in Nat
        /\ pass.bytes \in Nat
    BY <1>1, PassFields
  <2> QED
    BY ONLY <2>1, <2>2, tail \in Seq(Chars), any \in BOOLEAN, scanned \in Nat, found \in BOOLEAN,
       at \in BOOLEAN DEF PassRow
<1>9. Found([Scanned EXCEPT !.scanned = @ + 1]) = p
  BY <1>1 DEF Found, Scanned, PassRow
<1>10. pass' = Continued(p, pass.index, pass.index - 1)
  BY <1>9 DEF Overflow, NextIndex
<1>11. ask.sel # 0 => InReach(doc, ask, i)
  <2>1. EndsAt = LastOffset(doc, i)
    BY <1>1, <1>3, ReachedIs
  <2> QED
    BY <1>3, <1>4, <1>5, <1>6, <2>1 DEF InReach, ChosenBase, InChosen
<1>12. Covers(doc, ask, given, pass.index)
  <2>1. Later(pass.index, pass.cursor.position) = pass.index
    BY <1>3, <1>7 DEF Later
  <2> QED
    BY <1>1, <2>1 DEF Scanning
<1>13. Undamaged(ask, pass.index - 1)
  <2>1. ask.bad \in Nat
    BY <1>1 DEF Question
  <2> QED
    BY <1>2, <1>3, <2>1 DEF Undamaged
<1>14. SawText(doc, ask, p.any, pass.index - 1)
  <2>1. \A j \in 1..pass.index - 1 : j \in 1..i
    BY <1>3
  <2> QED
    BY <1>2, <1>8, <2>1 DEF SawText
<1> PICK next \in 1..Len(doc), prior \in Int : next = pass.index /\ prior = pass.index - 1
  BY ONLY <1>3, <1>7
<1>15. pass.index \in 1..Len(doc) /\ pass.index - 1 \in Int /\ pass.index - 1 < pass.index
       /\ pass.index - 1 >= 0 /\ pass.index < Len(doc)
  BY ONLY <1>3, <1>7
<1>16. p.index <= Len(doc) /\ next + 1 = i
  <2>1. pass.index <= Len(doc) /\ pass.index + 1 = i
    BY ONLY <1>3
  <2> QED
    BY <1>8, <2>1
<1>17. ReadingFits(doc, ask, Continued(p, next, prior), given)
  <2>1. /\ Original(doc) /\ Question(doc, ask) /\ p \in PassRow /\ given \in Seq(Nat) /\ p.cursor = pass.cursor
        /\ pass.cursor.position \in Nat /\ pass.cursor.from \in Nat
    BY <1>1, <1>3, <1>8
  <2>2. /\ prior < next /\ next > pass.cursor.position /\ prior >= 0 /\ next < Len(doc)
    BY <1>7, <1>15
  <2>3. ask.sel # 0 => InReach(doc, ask, next + 1)
    BY <1>11, <1>16
  <2>4. Undamaged(ask, prior) /\ SawText(doc, ask, p.any, prior) /\ Covers(doc, ask, given, next)
    BY <1>12, <1>13, <1>14
  <2> QED
    BY ONLY <1>16, <2>1, <2>2, <2>3, <2>4, next \in 1..Len(doc), prior \in Int, Continues
<1> QED
  BY <1>4, <1>10, <1>17

\* A fragment is read for the answer.
LEMMA FragmentScanned ==
  ASSUME ReadingFits(doc, ask, pass, given), ScanFragment
  PROVE  ReadingFits(doc', ask', pass', given')
<1> PICK i : i = pass.index + 1
  OBVIOUS
<1>1. /\ AtFragment(i) /\ Original(doc) /\ Question(doc, ask) /\ Scanning(doc, ask, pass, given)
      /\ pass \in PassRow /\ given \in Seq(Nat)
  BY FragmentHas DEF ScanFragment, Scannable
<1>2. /\ Undamaged(ask, i) /\ SawText(doc, ask, AnyText, i) /\ AnyText \in BOOLEAN
      /\ LastOf(Combined, Overlap) \in Seq(Chars)
      /\ i < Len(doc) /\ doc[i + 1].base = doc[i].base =>
           /\ EndOf(BaseText(doc)[i], LastOf(Combined, Overlap))
           /\ Len(LastOf(Combined, Overlap)) + 1 >= ask.needle
  BY <1>1, Advances
<1>3. /\ i \in 1..Len(doc) /\ i \in Nat /\ pass.index \in Nat /\ pass.index + 1 = i /\ Len(doc) \in Nat
      /\ pass.cursor.position \in Nat /\ pass.cursor.from \in Nat /\ pass.bytes \in Nat /\ pass.scanned \in Nat
      /\ pass.count \in Nat /\ pass.pc = "scan" /\ Fragment = doc[i] /\ doc' = doc /\ ask' = ask
  BY <1>1, PassFields DEF AtFragment, Original, Fragment
<1>4. /\ Seeking /\ InChosen /\ pass.index >= pass.cursor.position
      /\ ask.sel = 0 \/ doc[i].text = <<>> \/ EndsAt > ask.off
      /\ ask.sel = 0 \/ doc[i].base = ask.sel
  BY <1>3 DEF ScanFragment, Scannable, Seeking, InChosen
<1>5. /\ ~Blank(Showing) <=> Wanted(doc, ask, i)
      /\ Len(Showing) \in Nat
  BY <1>1, <1>4, ShowsWanted
<1> PICK tail \in Seq(Chars), any \in BOOLEAN : tail = LastOf(Combined, Overlap) /\ any = AnyText
  BY <1>2
<1> PICK found, at \in BOOLEAN :
         /\ found = IF ask.sel = 0 THEN pass.found ELSE TRUE
         /\ at = IF ask.sel = 0 THEN pass.at ELSE Reached
  <2>1. Reached \in BOOLEAN
    BY <1>1, <1>3, ReachedIs
  <2> QED
    BY <1>1, <2>1, PassFields
<1> PICK shows \in BOOLEAN : shows = ~Blank(Showing)
  OBVIOUS
<1> PICK count \in Nat : count = IF shows THEN pass.count + 1 ELSE pass.count
  BY <1>3
<1> PICK bytes \in Nat : bytes = IF shows THEN pass.bytes + Len(Showing) ELSE pass.bytes
  BY <1>3, <1>5
<1> PICK scanned \in Nat : scanned = pass.scanned + 1
  BY <1>3
<1> PICK g \in Seq(Nat) : g = IF shows THEN Append(given, i) ELSE given
  <2>1. Append(given, i) \in Seq(Nat)
    BY <1>1, <1>3, AppendProperties
  <2> QED
    BY <1>1, <2>1
<1> PICK p : p = [pass EXCEPT !.tail = tail, !.any = any, !.scanned = scanned, !.index = i, !.count = count,
                              !.bytes = bytes, !.found = found, !.at = at]
  OBVIOUS
<1>6. /\ p \in PassRow /\ p.pc = "scan" /\ p.cursor = pass.cursor /\ p.index = i /\ p.any = any /\ p.tail = tail
      /\ p.count = count /\ p.bytes = bytes /\ p.found = found /\ p.at = at
  <2>1. /\ p \in PassRow /\ p.pc = pass.pc /\ p.cursor = pass.cursor /\ p.index = i /\ p.any = any /\ p.tail = tail
        /\ p.count = count /\ p.bytes = bytes /\ p.found = found /\ p.at = at
    <3>1. p = [pc |-> pass.pc, cursor |-> pass.cursor, index |-> i, any |-> any, tail |-> tail, count |-> count,
               bytes |-> bytes, scanned |-> scanned, found |-> found, at |-> at]
      BY <1>1 DEF PassRow
    <3>2. pass.pc \in PassStates /\ pass.cursor \in CursorRow /\ i \in Nat
      BY <1>1, <1>3, PassFields
    <3> QED
      BY ONLY <3>1, <3>2, tail \in Seq(Chars), any \in BOOLEAN, scanned \in Nat, count \in Nat, bytes \in Nat,
         found \in BOOLEAN, at \in BOOLEAN DEF PassRow
  <2> QED
    BY <1>3, <2>1
<1>0. /\ i \in Nat /\ pass.index \in Nat /\ pass.index + 1 = i /\ Len(doc) \in Nat /\ i <= Len(doc) /\ i >= 1
      /\ pass.index \in Int /\ pass.index < i /\ pass.index >= 0 /\ pass.index <= Len(doc)
      /\ pass.cursor.position \in Nat /\ i > pass.cursor.position
  BY ONLY <1>3, <1>4
<1>7. Found([Scanned EXCEPT !.scanned = @ + 1, !.index = @ + 1,
                            !.count = IF shows THEN @ + 1 ELSE @,
                            !.bytes = IF shows THEN @ + Len(Showing) ELSE @]) = p
  BY <1>1, <1>3 DEF Found, Scanned, PassRow
<1> PICK more \in BOOLEAN : more = (i < Len(doc) /\ (ask.sel = 0 \/ doc[i + 1].base = ask.sel))
  OBVIOUS
<1> PICK full \in BOOLEAN : full = (p.count = MaxPassages \/ p.scanned = MaxUnits)
  OBVIOUS
<1>8. \/ full /\ ~Readable(i + 1) /\ LosesTheAnswer
      \/ /\ ~(full /\ ~Readable(i + 1)) /\ given' = g
         /\ pass' = IF ~full THEN p ELSE IF more THEN Continued(p, i, pass.index) ELSE [p EXCEPT !.pc = "complete"]
  <2>1. pass.index + 2 = i + 1 /\ NextIndex(TRUE) = i
    BY <1>3 DEF NextIndex
  <2>2. LET P == Found([Scanned EXCEPT !.scanned = @ + 1, !.index = @ + 1,
                                       !.count = IF ~Blank(Showing) THEN @ + 1 ELSE @,
                                       !.bytes = IF ~Blank(Showing) THEN @ + Len(Showing) ELSE @]) IN
        IF (P.count = MaxPassages \/ P.scanned = MaxUnits) /\ ~Readable(pass.index + 2) THEN LosesTheAnswer
        ELSE /\ given' = IF ~Blank(Showing) THEN Append(given, pass.index + 1) ELSE given
             /\ pass' = IF ~(P.count = MaxPassages \/ P.scanned = MaxUnits) THEN P
                        ELSE IF pass.index + 1 < Len(doc) /\ (ask.sel = 0 \/ doc[pass.index + 2].base = ask.sel)
                             THEN Continued(P, NextIndex(TRUE), pass.index) ELSE [P EXCEPT !.pc = "complete"]
    BY Zenon DEF ScanFragment
  <2>3. Found([Scanned EXCEPT !.scanned = @ + 1, !.index = @ + 1,
                              !.count = IF ~Blank(Showing) THEN @ + 1 ELSE @,
                              !.bytes = IF ~Blank(Showing) THEN @ + Len(Showing) ELSE @]) = p
    BY <1>7
  <2> HIDE DEF NextIndex
  <2>4. IF full /\ ~Readable(i + 1) THEN LosesTheAnswer
        ELSE /\ given' = g
             /\ pass' = IF ~full THEN p ELSE IF more THEN Continued(p, i, pass.index) ELSE [p EXCEPT !.pc = "complete"]
    BY <1>3, <2>1, <2>2, <2>3
  <2> QED
    BY <2>4
<1>9. Covers(doc, ask, g, i)
  <2>1. Later(pass.index, pass.cursor.position) = pass.index
    BY <1>3, <1>4 DEF Later
  <2>2. Covers(doc, ask, given, pass.index)
    BY <1>1, <2>1 DEF Scanning
  <2>3. CASE Wanted(doc, ask, i)
    BY <1>1, <1>3, <1>5, <2>2, <2>3, CoversOneMore
  <2>4. CASE ~Wanted(doc, ask, i)
    BY <1>1, <1>3, <1>5, <2>2, <2>4, CoversUnwanted
  <2> QED
    BY <2>3, <2>4
<1>10. count <= Len(g) /\ Covers(doc, ask, SubSeq(g, 1, Len(g) - count), pass.cursor.position)
  <2>1. pass.count <= Len(given) /\ Covers(doc, ask, SubSeq(given, 1, Len(given) - pass.count), pass.cursor.position)
    BY <1>1 DEF Scanning
  <2>2. CASE shows
    <3>0. g = Append(given, i) /\ count = pass.count + 1
      BY <2>2
    <3>1. SubSeq(g, 1, Len(g) - count) = SubSeq(given, 1, Len(given) - pass.count)
      <4>1. pass.count \in Nat /\ pass.count <= Len(given) /\ given \in Seq(Nat) /\ i \in Nat
        BY <1>1, <1>3, <2>1
      <4>2. SubSeq(Append(given, i), 1, Len(Append(given, i)) - (pass.count + 1)) = SubSeq(given, 1, Len(given) - pass.count)
        BY ONLY <4>1, WithoutTheLast
      <4> QED
        BY ONLY <3>0, <4>2
    <3>2. Len(g) = Len(given) + 1 /\ Len(given) \in Nat
      <4>1. given \in Seq(Nat) /\ i \in Nat
        BY <1>1, <1>3
      <4> QED
        BY ONLY <3>0, <4>1, AppendProperties
    <3>3. count <= Len(g)
      BY <1>3, <2>1, <3>0, <3>2
    <3> QED
      BY <2>1, <3>1, <3>3
  <2>3. CASE ~shows
    BY <2>1, <2>3
  <2> QED
    BY <2>2, <2>3
<1>11. ask.sel # 0 => found = TRUE /\ (doc[i].text # <<>> => at = TRUE)
  <2>1. ask.sel # 0 /\ doc[i].text # <<>> => Reached = TRUE
    BY <1>1, <1>3, <1>4, ReachedIs
  <2> QED
    BY <2>1
\* The three ways to go on: within the answer, with the next one, or not at all.
<1>12. CASE full /\ ~Readable(i + 1) /\ LosesTheAnswer
  BY <1>3, <1>12, AnswerLost
<1>13. CASE ~full /\ given' = g /\ pass' = p
  <2>1. Scanning(doc, ask, p, g)
    <3>1. CursorFits(doc, ask, p.cursor) /\ p.index >= p.cursor.from /\ Undamaged(ask, p.index) /\ SawText(doc, ask, p.any, p.index)
      <4>1. pass.index >= pass.cursor.from /\ CursorFits(doc, ask, pass.cursor)
        BY <1>1 DEF Scanning
      <4>2. i >= pass.cursor.from
        BY ONLY <1>3, <4>1
      <4> QED
        BY <1>2, <1>6, <4>1, <4>2
    <3>2. TailFits(doc, ask, p)
      BY <1>2, <1>6 DEF TailFits
    <3>3. FoundFits(doc, ask, p)
      <4> SUFFICES ASSUME found = TRUE PROVE ask.sel # 0 /\ i > 0 /\ doc[i].base >= ask.sel
        BY <1>6 DEF FoundFits
      <4>1. ask.sel # 0
        BY <1>1, PassFields DEF Scanning, FoundFits
      <4>2. doc[i].base = ask.sel /\ ask.sel \in Nat
        BY <1>1, <1>4, <4>1 DEF Question
      <4>3. doc[i].base >= ask.sel
        BY ONLY <4>2
      <4> QED
        BY ONLY <1>0, <4>1, <4>3
    <3>4. ReachNoticed(doc, ask, p)
      <4> SUFFICES ASSUME ask.sel # 0, NEW j \in 1..i, InReach(doc, ask, j)
                   PROVE  doc[i].text # <<>>
        BY <1>6, <1>11 DEF ReachNoticed
      <4>1. CASE j = i
        BY <4>1 DEF InReach
      <4>2. CASE j # i
        <5>1. pass.index \in 1..Len(doc) /\ j \in 1..Len(doc) /\ j <= pass.index /\ pass.index <= i /\ pass.index < Len(doc)
          BY ONLY <1>0, <4>2, j \in 1..i
        <5>2. doc[j].base <= doc[pass.index].base /\ doc[pass.index].base <= doc[i].base
          BY <1>1, <1>3, <5>1, BasesInOrder
        <5>3. doc[j].base = ask.sel /\ doc[i].base = ask.sel
          BY <1>4 DEF InReach, ChosenBase
        <5>4. doc[pass.index].base \in Nat /\ ask.sel \in Nat
          BY <1>1, <5>1 DEF Original, Question
        <5>5. doc[pass.index + 1].base = doc[pass.index].base
          <6>1. doc[pass.index].base = ask.sel
            BY ONLY <5>2, <5>3, <5>4
          <6> QED
            BY ONLY <1>0, <5>3, <6>1
        <5>6. doc[pass.index + 1].text # <<>>
          BY <1>1, <5>1, <5>5 DEF Original
        <5> QED
          BY <1>3, <5>6
      <4> QED
        BY <4>1, <4>2
    <3>5. Covers(doc, ask, g, Later(p.index, p.cursor.position))
      <4>1. Later(i, pass.cursor.position) = i
        BY ONLY <1>0 DEF Later
      <4> QED
        BY <1>6, <1>9, <4>1
    <3>6. ~(p.index <= p.cursor.position)
      <4>1. ~(i <= pass.cursor.position)
        BY ONLY <1>0
      <4> QED
        BY <1>6, <4>1
    <3> QED
      BY <1>6, <1>10, <3>1, <3>2, <3>3, <3>4, <3>5, <3>6 DEF Scanning
  <2>2. pass.cursor.position <= Len(doc)
    BY <1>3 DEF ReadingFits
  <2>3. /\ p \in PassRow /\ p.pc = "scan" /\ p.index <= Len(doc) /\ p.cursor.position <= Len(doc)
        /\ Original(doc) /\ Question(doc, ask)
    BY <1>1, <1>0, <1>6, <2>2
  <2>4. ReadingFits(doc, ask, p, g)
    BY ONLY <2>1, <2>3, g \in Seq(Nat) DEF ReadingFits
  <2> QED
    BY <1>3, <1>13, <2>4
<1>14. CASE full /\ more /\ given' = g /\ pass' = Continued(p, i, pass.index)
  <2>0. i < Len(doc) /\ (ask.sel # 0 => doc[i + 1].base = ask.sel)
    BY <1>14
  <2>1. i < Len(doc) /\ (ask.sel # 0 => doc[i + 1].base = ask.sel) /\ i + 1 \in 1..Len(doc)
    BY ONLY <1>0, <2>0
  <2>2. ask.sel # 0 => InReach(doc, ask, i + 1)
    <3> SUFFICES ASSUME ask.sel # 0 PROVE InReach(doc, ask, i + 1)
      OBVIOUS
    <3>1. doc[i + 1].base = doc[i].base /\ doc[i + 1].base = ask.sel
      BY <1>4, <2>1
    <3>2. Len(doc[i].text) = ChunkChars /\ doc[i].text # <<>> /\ doc[i + 1].text # <<>>
      BY <1>1, <1>3, <2>1, <3>1 DEF Original
    <3>3. Offset(doc, i + 1) = Offset(doc, i) + ChunkChars /\ Offset(doc, i) \in Nat
      BY <1>1, <1>3, <2>1, <3>1, OffsetsAre
    <3>4. Offset(doc, i) + ChunkChars > ask.off
      <4>1. EndsAt = Offset(doc, i) + Len(doc[i].text)
        BY <1>3, Zenon DEF EndsAt
      <4> QED
        BY <1>4, <3>2, <4>1
    <3>5. doc[i + 1].text \in Seq(Chars)
      BY <1>1, <2>1 DEF Original
    <3>6. Len(doc[i + 1].text) \in Nat
      BY <3>5
    <3>7. ChunkChars \in Nat /\ ask.off \in Nat
      BY <1>1, ReaderAssumption DEF Question
    <3>8. LastOffset(doc, i + 1) = Offset(doc, i + 1) + Len(doc[i + 1].text)
      BY Zenon DEF LastOffset
    <3>9. LastOffset(doc, i + 1) > ask.off
      BY ONLY <3>3, <3>4, <3>6, <3>7, <3>8
    <3> QED
      BY <3>1, <3>2, <3>9 DEF InReach, ChosenBase
  <2>3. Undamaged(ask, pass.index)
    BY <1>1 DEF Scanning
  <2>4. SawText(doc, ask, p.any, pass.index)
    <3>1. \A j \in 1..pass.index : j \in 1..i
      BY <1>3
    <3> QED
      BY <1>2, <1>6, <3>1 DEF SawText
  <2>5. i > pass.cursor.position /\ pass.index \in Int /\ pass.index < i /\ pass.index >= 0 /\ i <= Len(doc)
    BY ONLY <1>0
  <2> PICK prior \in Int : prior = pass.index
    BY <2>5
  <2>6. ReadingFits(doc, ask, Continued(p, i, prior), g)
    <3>1. i \in 1..Len(doc) /\ prior < i /\ prior >= 0 /\ p.index <= Len(doc) /\ i < Len(doc) /\ i > pass.cursor.position
      BY <1>0, <1>3, <1>6, <2>1, <2>5
    <3>2. /\ Original(doc) /\ Question(doc, ask) /\ p \in PassRow /\ p.cursor = pass.cursor
          /\ pass.cursor.position \in Nat /\ pass.cursor.from \in Nat
      BY <1>1, <1>3, <1>6
    <3>3. Undamaged(ask, prior) /\ SawText(doc, ask, p.any, prior) /\ Covers(doc, ask, g, i)
      BY <1>9, <2>3, <2>4
    <3> QED
      BY ONLY <2>2, <3>1, <3>2, <3>3, g \in Seq(Nat), prior \in Int, Continues
  <2> QED
    BY <1>3, <1>14, <2>6
<1>15. CASE full /\ ~more /\ Readable(i + 1) /\ given' = g /\ pass' = [p EXCEPT !.pc = "complete"]
  <2>1. Covers(doc, ask, g, Len(doc))
    <3>1. CASE i = Len(doc)
      BY <1>9, <3>1
    <3>2. CASE i # Len(doc)
      <4>1. i < Len(doc) /\ i + 1 \in 1..Len(doc) /\ i < i + 1 /\ i <= Len(doc)
        BY ONLY <1>0, <3>2
      <4>2. ask.sel # 0 /\ doc[i + 1].base # ask.sel
        BY <1>15, <4>1
      <4>3. doc[i].base >= ask.sel
        <5>1. ask.sel \in Nat
          BY <1>1 DEF Question
        <5> QED
          BY <1>4, <4>2, <5>1
      <4>4. \A k \in i + 1..Len(doc) : ~Wanted(doc, ask, k)
        BY <1>1, <1>3, <4>1, <4>2, <4>3, BehindTheBase
      <4> QED
        BY <1>3, <1>9, <4>1, <4>4, CoversUpTo
    <3> QED
      BY <3>1, <3>2
  <2>2. ask.sel = 0 => ask.bad = 0
    <3> SUFFICES ASSUME ask.sel = 0 PROVE ask.bad = 0
      OBVIOUS
    <3>1. i = Len(doc)
      <4>1. ~(i < Len(doc))
        BY <1>15
      <4> QED
        BY ONLY <1>0, <4>1
    <3>2. ask.bad # Len(doc) + 1
      BY <1>15, <3>1 DEF Readable
    <3>3. ask.bad \in Nat /\ ask.bad <= Len(doc) + 1
      BY <1>1 DEF Question
    <3>4. ask.bad = 0 \/ ask.bad > Len(doc)
      BY <1>2, <3>1 DEF Undamaged
    <3> QED
      BY <1>3, <3>2, <3>3, <3>4
  <2> PICK r : r = [p EXCEPT !.pc = "complete"]
    OBVIOUS
  <2>3. r \in PassRow /\ r.pc = "complete" /\ r.index = i /\ r.cursor = pass.cursor
    <3>1. p \in PassRow /\ p.index = i /\ p.cursor = pass.cursor
      BY <1>6
    <3> QED
      BY ONLY <3>1, r = [p EXCEPT !.pc = "complete"] DEF PassRow, PassStates
  <2>4. pass.cursor.position <= Len(doc) /\ i <= Len(doc) /\ pass' = r
    BY <1>3, <1>15 DEF ReadingFits
  <2> QED
    BY <1>1, <1>3, <1>15, <2>1, <2>2, <2>3, <2>4 DEF ReadingFits
<1> QED
  <2>1. CASE full /\ ~Readable(i + 1)
    BY <1>8, <1>12, <2>1
  <2>2. CASE ~(full /\ ~Readable(i + 1))
    BY <1>8, <1>13, <1>14, <1>15, <2>2
  <2> QED
    BY <2>1, <2>2

\* Every step of a reading.
LEMMA ReadingSteps ==
  ASSUME ReadingFits(doc, ask, pass, given), ReaderNext \/ UNCHANGED readerVars
  PROVE  ReadingFits(doc', ask', pass', given')
<1>1. CASE UNCHANGED readerVars
  BY <1>1 DEF readerVars
<1>2. ASSUME pass.pc = "none", NEW kind \in {"text", "pages"}, NEW needle \in {0} \cup Needles,
             NEW d \in Originals(kind),
             \/ \E bad \in 0..Len(d) + 1 : BeginReading(kind, d, needle, 0, 0, bad)
             \/ needle = 0 /\ \E sel \in 1..MaxBases, off \in Offsets, bad \in {0, Len(d)} :
                                BeginReading(kind, d, 0, sel, off, bad)
      PROVE  ReadingFits(doc', ask', pass', given')
  <2>0. Len(d) \in Nat
    BY OriginalsAre DEF Original
  <2>1. ASSUME NEW bad \in 0..Len(d) + 1, BeginReading(kind, d, needle, 0, 0, bad)
        PROVE  ReadingFits(doc', ask', pass', given')
    BY <1>2, <2>1, ReadingBegun
  <2>2. ASSUME needle = 0, NEW sel \in 1..MaxBases, NEW off \in Offsets, NEW bad \in {0, Len(d)},
               BeginReading(kind, d, 0, sel, off, bad)
        PROVE  ReadingFits(doc', ask', pass', given')
    <3>1. sel \in Nat /\ off \in Nat /\ bad \in 0..Len(d) + 1 /\ ~(needle > 0)
      BY <2>0, <2>2, ReaderAssumption
    <3> QED
      BY <1>2, <2>2, <3>1, ReadingBegun
  <2> QED
    BY <1>2, <2>1, <2>2
<1>3. CASE NextAnswer
  BY <1>3, Resumed
<1>4. CASE Skip \/ LeaveBase \/ Overflow \/ ScanFragment
  BY <1>4, Skipped, BaseLeft, Overflown, FragmentScanned
<1>5. CASE MeetsDamage
  BY <1>5, AnswerLost DEF MeetsDamage
<1>6. CASE EndOfDocument
  BY <1>6, Ended
<1> QED
  BY <1>1, <1>2, <1>3, <1>4, <1>5, <1>6 DEF ReaderNext

\* A reading that fits misses nothing.
LEMMA ReadingFitsIsEnough ==
  ASSUME part = "reader" => ReadingFits(doc, ask, pass, given)
  PROVE  ReadingMissesNothing
<1> SUFFICES ASSUME part = "reader",
                    NEW shown, shown = {given[k] : k \in DOMAIN given},
                    NEW wanted, wanted = {i \in DOMAIN doc : Wanted(doc, ask, i)}
             PROVE  /\ \A k, l \in DOMAIN given : k < l => given[k] < given[l]
                    /\ shown \subseteq wanted
                    /\ \A i \in wanted, j \in shown : i < j => i \in shown
                    /\ pass.pc = "complete" => shown = wanted
                    /\ pass.pc # "unreadable"
                    /\ pass.pc = "complete" /\ ask.sel = 0 => ask.bad = 0
                    /\ pass.pc \in {"empty", "not_found"} => wanted = {}
  BY DEF ReadingMissesNothing
<1>0. ReadingFits(doc, ask, pass, given)
  OBVIOUS
<1>1. CASE pass.pc = "none"
  BY <1>0, <1>1 DEF ReadingFits
<1>2. CASE pass.pc # "none"
  <2>1. Original(doc) /\ pass \in PassRow /\ pass.index <= Len(doc) /\ pass.cursor.position <= Len(doc)
    BY <1>0, <1>2 DEF ReadingFits
  <2>2. PICK m \in 0..Len(doc) : /\ Covers(doc, ask, given, m)
                                 /\ pass.pc \in {"complete", "empty", "not_found"} => m = Len(doc)
    <3>1. /\ pass.pc \in PassStates /\ pass.index \in 0..Len(doc) /\ pass.cursor.position \in 0..Len(doc)
          /\ Len(doc) \in 0..Len(doc)
      BY <2>1, PassFields DEF Original
    <3>2. Later(pass.index, pass.cursor.position) \in 0..Len(doc)
      BY <3>1 DEF Later
    <3>3. CASE pass.pc = "scan"
      BY <1>0, <3>2, <3>3 DEF ReadingFits, Scanning
    <3>4. CASE pass.pc \in {"answered", "damaged"}
      BY <1>0, <3>1, <3>4 DEF ReadingFits
    <3>5. CASE pass.pc \in {"complete", "empty", "not_found"}
      BY <1>0, <3>1, <3>5 DEF ReadingFits
    <3> QED
      BY <1>0, <1>2, <3>1, <3>3, <3>4, <3>5 DEF ReadingFits, PassStates
  <2>3. DOMAIN doc = 1..Len(doc) /\ Len(doc) \in Nat
    BY <2>1 DEF Original
  <2>4. \A k \in DOMAIN given : given[k] \in 1..m
    BY <2>2 DEF Covers
  <2>5. ASSUME NEW i \in 1..m PROVE i \in wanted <=> i \in shown
    <3>1. i \in wanted <=> Wanted(doc, ask, i)
      <4>1. i \in 1..Len(doc)
        BY <2>3
      <4> QED
        BY <2>3, <4>1
    <3>2. Wanted(doc, ask, i) <=> \E k \in DOMAIN given : given[k] = i
      BY <2>2 DEF Covers
    <3>3. i \in shown <=> \E k \in DOMAIN given : given[k] = i
      OBVIOUS
    <3> QED
      BY <3>1, <3>2, <3>3
  <2>6. shown \subseteq wanted
    BY <2>4, <2>5
  <2>7. ASSUME NEW i \in wanted, NEW j \in shown, i < j PROVE i \in shown
    <3>1. j \in 1..m /\ i \in 1..Len(doc)
      BY <2>3, <2>4
    <3>2. i \in 1..m
      BY <2>3, <2>7, <3>1
    <3> QED
      BY <2>5, <3>2
  <2>8. pass.pc \in {"complete", "empty", "not_found"} => shown = wanted
    BY <2>2, <2>3, <2>5, <2>6
  <2>9. pass.pc \in {"empty", "not_found"} => wanted = {}
    BY <1>0, <2>3 DEF ReadingFits
  <2>10. \A k, l \in DOMAIN given : k < l => given[k] < given[l]
    BY <2>2 DEF Covers
  <2>11. pass.pc # "unreadable" /\ (pass.pc = "complete" /\ ask.sel = 0 => ask.bad = 0)
    BY <1>0 DEF ReadingFits
  <2> QED
    BY <2>6, <2>7, <2>8, <2>9, <2>10, <2>11
<1> QED
  BY <1>1, <1>2

-----------------------------------------------------------------------------
USE AuthAssumption, TerminalAssumption, ReleaseAssumption

(* A release. *)
Journals == [phase : Phases, attempts : 0..MaxAttempts, retry : BOOLEAN, stop : BOOLEAN, before : Nat, snap : Nat]
AttemptPcs == {"preflight", "stage", "staging", "stop", "record", "recorded", "publish", "published", "start"}
CommandPcs == AttemptPcs \cup {"none", "apply", "verify", "prove"}
ReleaseTypes ==
  /\ unit \in {"base", "cand"} /\ staged \in {"none", "partial", "whole"}
  /\ api \in [active : BOOLEAN, runs : {"base", "cand"}] /\ rows \in Nat \ {0}
  /\ journal \in Journals /\ proofs \in [1..MaxAttempts -> Nat] /\ first \in Nat /\ spoilt \in BOOLEAN
  /\ cmd \in [pc : CommandPcs, done : BOOLEAN, j : Journals]
RowsInv == /\ first # 0 => rows >= first
           /\ spoilt => first # 0 /\ rows > first /\ journal.phase # "verified"
JournalInv ==
  /\ journal.before # 0 => journal.before = first
  /\ journal.snap # 0 => journal.snap = first
  /\ first # 0 /\ journal.before = 0 =>
       journal.attempts > 0 /\ ~journal.retry /\ cmd.pc \in {"none", "verify", "recorded"}
  /\ journal.phase = "verified" => journal.before # 0 /\ journal.snap # 0 /\ proofs[journal.attempts] = first
CommandInv ==
  /\ cmd.pc = "none" => cmd = NoCommand
  /\ cmd.pc \notin {"none", "recorded"} => cmd.j = journal
  /\ cmd.pc = "recorded" => /\ cmd.j = [journal EXCEPT !.before = first] /\ first # 0
                            /\ proofs[journal.attempts] = first
  /\ cmd.done => journal.phase = "verified"
  /\ cmd.pc \in AttemptPcs => journal.phase # "verified" /\ journal.attempts > 0 /\ ~journal.retry
  /\ cmd.pc \in {"stop", "record", "recorded", "publish", "published", "start"} => staged = "whole"
  /\ cmd.pc \in {"publish", "published", "start", "prove"} => journal.before # 0 /\ journal.snap # 0
  /\ cmd.pc = "apply" => journal.phase # "verified" /\ journal.attempts < MaxAttempts
ServedInv == unit = "cand" \/ api.runs = "cand" => staged = "whole" /\ first # 0
ReleaseInv == ReleaseTypes /\ RowsInv /\ JournalInv /\ CommandInv /\ ServedInv

\* The host before any release: nothing staged, no journal, no command.
LEMMA ReleaseBegins == ReleaseInit => ReleaseInv
<1> SUFFICES ASSUME ReleaseInit PROVE ReleaseInv
  OBVIOUS
<1>1. NoJournal \in Journals
  BY DEF NoJournal, Journals, Phases
<1>2. NoCommand \in [pc : CommandPcs, done : BOOLEAN, j : Journals]
  BY <1>1 DEF NoCommand, CommandPcs
<1>3. ReleaseTypes
  <2>1. rows = 1 /\ first = 0 /\ spoilt = FALSE
    BY DEF ReleaseInit
  <2>4. proofs \in [1..MaxAttempts -> Nat]
    BY DEF ReleaseInit
  <2>2. /\ unit \in {"base", "cand"} /\ staged \in {"none", "partial", "whole"}
        /\ api \in [active : BOOLEAN, runs : {"base", "cand"}]
    BY DEF ReleaseInit
  <2>3. journal = NoJournal /\ cmd = NoCommand
    BY DEF ReleaseInit
  <2>5. journal \in Journals /\ cmd \in [pc : CommandPcs, done : BOOLEAN, j : Journals]
    BY <1>1, <1>2, <2>3
  <2>6. rows \in Nat \ {0} /\ first \in Nat
    BY <2>1
  <2>7. spoilt \in BOOLEAN
    BY <2>1, Zenon
  <2> QED
    BY ONLY <2>2, <2>4, <2>5, <2>6, <2>7 DEF ReleaseTypes
<1>4. RowsInv /\ JournalInv
  BY DEF RowsInv, JournalInv, ReleaseInit, NoJournal
<1>5. CommandInv /\ ServedInv
  BY DEF CommandInv, ServedInv, AttemptPcs, ReleaseInit, NoCommand
<1> QED
  BY <1>3, <1>4, <1>5 DEF ReleaseInv

\* A failure is saved with the kind it has; only what was never proved is fenced
\* by a verification.
LEMMA FailureKeepsInv ==
  ASSUME ReleaseInv, NEW retry \in BOOLEAN, FailRelease(retry), cmd.pc # "none", cmd.pc = "verify" => ~retry
  PROVE  ReleaseInv'
<1> USE DEF ReleaseInv, FailRelease
<1>1. cmd.j \in Journals
  BY DEF ReleaseTypes
<1>2. /\ journal' \in Journals /\ journal'.retry = retry
      /\ journal'.phase = cmd.j.phase /\ journal'.attempts = cmd.j.attempts
      /\ journal'.before = cmd.j.before /\ journal'.snap = cmd.j.snap
  BY <1>1 DEF Journals
<1>3. ReleaseTypes'
  <2>1. NoCommand \in [pc : CommandPcs, done : BOOLEAN, j : Journals]
    BY DEF NoCommand, NoJournal, CommandPcs, Journals, Phases
  <2> QED
    BY <1>2, <2>1 DEF ReleaseTypes
<1>4. cmd.j = journal \/ (cmd.pc = "recorded" /\ cmd.j = [journal EXCEPT !.before = first])
  BY DEF CommandInv
<1>5. /\ cmd.j.phase = journal.phase /\ cmd.j.attempts = journal.attempts /\ cmd.j.snap = journal.snap
      /\ cmd.j.before # 0 => cmd.j.before = first
      /\ journal.phase = "verified" => cmd.j.before # 0
      /\ cmd.pc = "recorded" => cmd.j.before = first /\ first # 0
  BY <1>4 DEF JournalInv, CommandInv, ReleaseTypes, Journals
<1>6. RowsInv'
  BY <1>2, <1>5 DEF RowsInv
<1>7. JournalInv'
  BY <1>2, <1>4, <1>5 DEF JournalInv, NoCommand
<1>8. CommandInv' /\ ServedInv'
  BY DEF CommandInv, ServedInv, NoCommand, AttemptPcs
<1> QED
  BY <1>3, <1>6, <1>7, <1>8

\* Rows come in while a release rests or runs.
LEMMA RowsGrow ==
  ASSUME ReleaseInv, Elsewhere, UNCHANGED api, rows' = rows + 1,
         spoilt' = spoilt \/ spoilt' = (spoilt \/ (first # 0 /\ journal.phase # "verified"))
  PROVE  ReleaseInv'
<1>1. ReleaseTypes'
  <2>1. rows' \in Nat \ {0}
    BY DEF ReleaseInv, ReleaseTypes
  <2>2. spoilt' \in BOOLEAN
    <3>1. CASE spoilt' = spoilt
      BY <3>1 DEF ReleaseInv, ReleaseTypes
    <3>2. CASE spoilt' = (spoilt \/ (first # 0 /\ journal.phase # "verified"))
      BY <3>2
    <3> QED
      BY <3>1, <3>2
  <2> QED
    BY <2>1, <2>2 DEF ReleaseInv, ReleaseTypes, Elsewhere
<1>2. RowsInv'
  BY DEF ReleaseInv, ReleaseTypes, RowsInv, Elsewhere
<1>3. JournalInv' /\ CommandInv'
  BY DEF ReleaseInv, JournalInv, CommandInv, Elsewhere
<1>4. ServedInv'
  BY DEF ReleaseInv, ServedInv, Elsewhere
<1> QED
  BY <1>1, <1>2, <1>3, <1>4 DEF ReleaseInv

\* Every step of a release, a failed one and a killed command included.
LEMMA ReleaseSteps == ReleaseInv /\ [ReleaseNext]_releaseVars => ReleaseInv'
<1> SUFFICES ASSUME ReleaseInv, [ReleaseNext]_releaseVars PROVE ReleaseInv'
  OBVIOUS
<1>1. CASE OwnerWorks
  BY <1>1, RowsGrow DEF OwnerWorks
<1>2. CASE RowsAreLost
  BY <1>2, RowsGrow DEF RowsAreLost
<1> USE DEF ReleaseInv, ReleaseTypes, RowsInv, JournalInv, CommandInv, ServedInv, NoJournal, NoCommand,
       Journals, Phases, AttemptPcs, CommandPcs
<1>3. CASE ServiceStarts
  BY SMTT(20), <1>3 DEF ServiceStarts, Elsewhere
<1>4. CASE ServiceStops
  <2> USE <1>4 DEF ServiceStops, Elsewhere
  <2>1. ReleaseTypes'
    <3>1. journal' \in Journals
      BY DEF Journals, Phases
    <3>2. cmd' \in [pc : CommandPcs, done : BOOLEAN, j : Journals]
      BY <3>1 DEF AttemptPcs, CommandPcs, Journals, Phases
    <3>3. api' \in [active : BOOLEAN, runs : {"base", "cand"}] /\ proofs' \in [1..MaxAttempts -> Nat]
      OBVIOUS
    <3> QED
      BY <3>1, <3>2, <3>3
  <2>2. RowsInv'
    OBVIOUS
  <2>3. JournalInv'
    OBVIOUS
  <2>4. CommandInv'
    OBVIOUS
  <2>5. ServedInv'
    OBVIOUS
  <2> QED
    BY <2>1, <2>2, <2>3, <2>4, <2>5
<1>5. CASE OwnerDecides
  BY SMTT(20), <1>5 DEF OwnerDecides, Elsewhere
<1>6. CASE PinsDrift
  BY SMTT(20), <1>6 DEF PinsDrift, Elsewhere
<1>7. ASSUME NEW verb \in {"apply", "verify"}, BeginRelease(verb) PROVE ReleaseInv'
  BY <1>7 DEF BeginRelease, Retryable
<1>8. CASE BeginAttempt
  <2> USE <1>8 DEF BeginAttempt, OnStep, Save
  <2>1. ReleaseTypes'
    <3>0. cmd.j = journal /\ journal.attempts + 1 \in 0..MaxAttempts
      OBVIOUS
    <3>1. journal' \in Journals
      BY <3>0 DEF Journals, Phases
    <3>2. cmd' \in [pc : CommandPcs, done : BOOLEAN, j : Journals]
      BY <3>1 DEF AttemptPcs, CommandPcs, Journals, Phases
    <3>3. api' \in [active : BOOLEAN, runs : {"base", "cand"}] /\ proofs' \in [1..MaxAttempts -> Nat]
      OBVIOUS
    <3> QED
      BY <3>1, <3>2, <3>3
  <2>2. RowsInv'
    OBVIOUS
  <2>3. JournalInv'
    OBVIOUS
  <2>4. CommandInv'
    OBVIOUS
  <2>5. ServedInv'
    OBVIOUS
  <2> QED
    BY <2>1, <2>2, <2>3, <2>4, <2>5
<1>9. CASE BeginVerify
  BY SMTT(20), <1>9 DEF BeginVerify, OnStep
<1>10. CASE Unproven
  BY <1>10, FailureKeepsInv DEF Unproven
<1>11. CASE Preflight
  BY ZenonT(40), <1>11 DEF Preflight, OnStep, Save
<1>12. CASE Stage
  <2> USE <1>12 DEF Stage, OnStep, Save, Whole
  <2>1. ReleaseTypes'
    <3>0. cmd.j \in Journals /\ journal \in Journals /\ [cmd.j EXCEPT !.phase = "staged"] \in Journals
      BY DEF Journals, Phases
    <3>1. journal' \in Journals
      <4>1. journal' = journal \/ journal' = [cmd.j EXCEPT !.phase = "staged"]
        OBVIOUS
      <4> HIDE DEF Journals
      <4> QED
        BY ONLY <3>0, <4>1
    <3>2. cmd' \in [pc : CommandPcs, done : BOOLEAN, j : Journals]
      <4>1. cmd.j \in Journals /\ [cmd.j EXCEPT !.phase = "staged"] \in Journals
        BY DEF Journals, Phases
      <4>2. CASE cmd' = [cmd EXCEPT !.pc = "staging"]
        BY <4>2 DEF AttemptPcs, CommandPcs
      <4>3. CASE cmd' = [cmd EXCEPT !.j = [cmd.j EXCEPT !.phase = "staged"], !.pc = "stop"]
        BY <4>1, <4>3 DEF AttemptPcs, CommandPcs
      <4> QED
        BY <4>2, <4>3
    <3>3. api' \in [active : BOOLEAN, runs : {"base", "cand"}] /\ proofs' \in [1..MaxAttempts -> Nat]
      OBVIOUS
    <3> QED
      BY <3>1, <3>2, <3>3
  <2>2. RowsInv'
    OBVIOUS
  <2>3. JournalInv'
    OBVIOUS
  <2>4. CommandInv'
    <3>1. CASE staged = "none"
      BY <3>1
    <3>2. CASE Save([cmd.j EXCEPT !.phase = "staged"], "stop") /\ staged' = staged /\ staged = "whole"
      BY <3>2
    <3> QED
      BY <3>1, <3>2
  <2>5. ServedInv'
    OBVIOUS
  <2> QED
    BY <2>1, <2>2, <2>3, <2>4, <2>5
<1>13. CASE Staged
  BY <1>13 DEF Staged, OnStep, Save
<1>14. CASE StopApi
  BY <1>14 DEF StopApi, OnStep, Save
<1>15. CASE Record
  <2> USE <1>15 DEF Record, OnStep, Comparable
  <2>1. ReleaseTypes'
    BY ZenonT(40)
  <2>2. RowsInv'
    OBVIOUS
  <2>3. JournalInv'
    OBVIOUS
  <2>4. CommandInv'
    <3>1. cmd.j = journal /\ journal.attempts \in 1..MaxAttempts /\ journal.phase # "verified" /\ ~journal.retry
      OBVIOUS
    <3>2. cmd'.pc = "recorded" /\ cmd'.j = [journal EXCEPT !.before = rows] /\ cmd'.done = cmd.done
      BY <3>1
    <3>3. first' = rows /\ first' # 0
      OBVIOUS
    <3>4. proofs'[journal'.attempts] = first'
      BY <3>1, <3>3
    <3> QED
      BY <3>1, <3>2, <3>3, <3>4
  <2>5. ServedInv'
    OBVIOUS
  <2> QED
    BY <2>1, <2>2, <2>3, <2>4, <2>5
<1>16. CASE Recorded
  BY ZenonT(40), <1>16 DEF Recorded, OnStep, Save
<1>17. CASE PublishUnit
  BY <1>17 DEF PublishUnit, OnStep
<1>18. CASE UnitSelected
  BY <1>18 DEF UnitSelected, OnStep, Save
<1>19. CASE StartApi
  BY <1>19 DEF StartApi, OnStep, Save
<1>20. CASE Prove
  BY <1>20 DEF Prove, OnStep, Whole
<1>21. CASE Fails
  <2>1. \E retry \in BOOLEAN : FailRelease(retry) /\ cmd.pc # "none" /\ (cmd.pc = "verify" => ~retry)
    BY <1>21 DEF Fails
  <2> QED
    BY <2>1, FailureKeepsInv
<1>22. CASE CommandDies
  BY SMTT(20), <1>22 DEF CommandDies
<1>23. CASE UNCHANGED releaseVars
  BY SMTT(20), <1>23 DEF releaseVars
<1> QED
  BY <1>1, <1>2, <1>3, <1>4, <1>5, <1>6, <1>7, <1>8, <1>9, <1>10, <1>11, <1>12, <1>13, <1>14, <1>15, <1>16, <1>17, <1>18, <1>19, <1>20, <1>21, <1>22, <1>23 DEF ReleaseNext

\* The invariant implies what the runs check of a release.
LEMMA ReleaseInvIsEnough == ReleaseInv => ReleaseKeepsItsProof
BY DEF ReleaseInv, ReleaseTypes, RowsInv, JournalInv, ServedInv, ReleaseKeepsItsProof

-----------------------------------------------------------------------------
(* The sign-in calls. *)
SessionRows == [a : Accounts \cup {None}, idle : Nat, abs : Nat, assured : Nat, remembered : BOOLEAN, revoked : BOOLEAN]
CallStates ==
  [pc : {"idle", "session", "signout", "assure", "revoke", "code", "verify", "recheck", "admit", "extend"},
   a : Accounts \cup {None}, src : Sources \cup {None}, k : Tokens \cup {None}, now : Nat, right : BOOLEAN,
   code : Nat, remember : BOOLEAN]
AuthTypes ==
  /\ clock \in Nat /\ cred \in [Accounts -> [known : BOOLEAN, active : BOOLEAN, last : Nat]]
  /\ sess \in [Tokens -> SessionRows] /\ mutex \in [Accounts -> Callers \cup {None}]
  /\ call \in [Callers -> CallStates]
Starting(x) == call[x].pc \in {"verify", "admit"}
Continuing(x) == call[x].pc \in {"session", "signout", "assure", "revoke", "code", "recheck", "extend"}
Accepted(x) == call[x].pc \in {"admit", "extend"}
SessionsInv == \A k \in Tokens : /\ sess[k].a = None => ~sess[k].revoked
                                 /\ sess[k].idle <= sess[k].abs
CallersInv ==
  \A x \in Callers :
    /\ Starting(x) \/ Continuing(x) => call[x].k \in Tokens /\ call[x].a \in Accounts
    /\ Starting(x) => sess[call[x].k].a = None
    /\ Starting(x) => \A y \in Callers : y # x => call[y].k # call[x].k
    /\ Continuing(x) => sess[call[x].k].a = call[x].a
LocksInv ==
  \A x \in Callers : Accepted(x) => mutex[call[x].a] = x /\ call[x].code > cred[call[x].a].last
AuthInv == AuthTypes /\ SessionsInv /\ CallersInv /\ LocksInv

\* Before any account is provisioned.
LEMMA AuthBegins == AuthInit => AuthInv
<1> SUFFICES ASSUME AuthInit PROVE AuthInv
  OBVIOUS
<1>1. NoSession \in SessionRows /\ NoSession.a = None /\ NoSession.revoked = FALSE /\ NoSession.idle <= NoSession.abs
  BY DEF NoSession, SessionRows
<1>2. NoCall \in CallStates /\ NoCall.pc = "idle"
  BY DEF NoCall, CallStates
<1>3. AuthTypes
  BY <1>1, <1>2 DEF AuthInit, AuthTypes
<1>4. SessionsInv
  BY <1>1 DEF AuthInit, SessionsInv
<1>5. CallersInv /\ LocksInv
  BY <1>2 DEF AuthInit, CallersInv, LocksInv, Starting, Continuing, Accepted
<1> QED
  BY <1>3, <1>4, <1>5 DEF AuthInv

\* What a caller may become: every field keeps its type.
LEMMA CallTyped ==
  ASSUME AuthTypes, NEW x \in Callers, NEW c \in CallStates, call' = [call EXCEPT ![x] = c]
  PROVE  /\ call' \in [Callers -> CallStates] /\ call'[x] = c
         /\ \A y \in Callers : y # x => call'[y] = call[y]
BY DEF AuthTypes

\* The caller moves on without touching a session, a credential or a lock.
LEMMA QuitTyped ==
  ASSUME AuthTypes, NEW x \in Callers, Quit(x)
  PROVE  /\ call' \in [Callers -> CallStates] /\ call'[x].pc = "idle"
         /\ call'[x].k = None
         /\ \A y \in Callers : y # x => call'[y] = call[y]
<1>1. NoCall \in CallStates /\ NoCall.pc = "idle" /\ NoCall.k = None
  BY DEF NoCall, CallStates
<1> QED
  BY <1>1, CallTyped DEF Quit

\* The caller goes on to another await, with the token and the code it has.
LEMMA GoesTyped ==
  ASSUME AuthTypes, NEW x \in Callers,
         NEW pc \in {"idle", "session", "signout", "assure", "revoke", "code", "verify", "recheck", "admit", "extend"},
         Goes(x, pc)
  PROVE  /\ call' \in [Callers -> CallStates] /\ call'[x].pc = pc /\ call'[x].a = call[x].a /\ call'[x].k = call[x].k
         /\ call'[x].code = call[x].code
         /\ \A y \in Callers : y # x => call'[y] = call[y]
<1> DEFINE c == [call[x] EXCEPT !.pc = pc]
<1>1. call[x] \in CallStates
  BY DEF AuthTypes
<1>2. c \in CallStates /\ c.pc = pc /\ c.a = call[x].a /\ c.k = call[x].k /\ c.code = call[x].code
  BY <1>1 DEF CallStates
<1>3. call' = [call EXCEPT ![x] = c]
  BY DEF Goes
<1> HIDE DEF c
<1> QED
  BY <1>2, <1>3, CallTyped

\* One session row is replaced.
LEMMA SessionTyped ==
  ASSUME AuthTypes, NEW k \in Tokens, NEW s \in SessionRows, sess' = [sess EXCEPT ![k] = s]
  PROVE  /\ sess' \in [Tokens -> SessionRows] /\ sess'[k] = s
         /\ \A j \in Tokens : j # k => sess'[j] = sess[j]
BY DEF AuthTypes

\* The fields of one session row.
LEMMA SessionRow ==
  ASSUME AuthTypes, NEW k \in Tokens
  PROVE  /\ sess[k] \in SessionRows
         /\ sess[k].a \in Accounts \cup {None} /\ sess[k].idle \in Nat /\ sess[k].abs \in Nat /\ sess[k].assured \in Nat
         /\ sess[k].revoked \in BOOLEAN
BY DEF AuthTypes, SessionRows

\* The fields of one call.
LEMMA CallRow ==
  ASSUME AuthTypes, NEW x \in Callers
  PROVE  /\ call[x] \in CallStates
         /\ call[x].a \in Accounts \cup {None} /\ call[x].k \in Tokens \cup {None}
         /\ call[x].now \in Nat /\ call[x].code \in Nat
BY DEF AuthTypes, CallStates

\* What a step says of the sessions and the codes it spends.
SpentInStep ==
  \A k \in Tokens :
    /\ (sess[k].a = None /\ sess'[k].a # None) \/ sess'[k].assured # sess[k].assured
         => cred'[sess'[k].a].last > cred[sess'[k].a].last
    /\ sess[k].revoked => sess'[k].revoked
    /\ sess[k].a # None => sess'[k].abs = sess[k].abs /\ sess'[k].idle <= sess[k].abs

\* A step that writes no session keeps what is said of them.
LEMMA SameSessions == ASSUME AuthInv, sess' = sess PROVE SpentInStep
BY DEF AuthInv, SessionsInv, SpentInStep

\* A caller moves, with its token or to a free one, and leaves the tokens of the
\* others to the accounts they had.
LEMMA CallersKept ==
  ASSUME AuthInv, NEW x \in Callers,
         call' \in [Callers -> CallStates], \A y \in Callers : y # x => call'[y] = call[y],
         \A y \in Callers : y # x /\ (Starting(y) \/ Continuing(y)) => sess'[call[y].k].a = sess[call[y].k].a,
         call'[x].pc = "idle" => call'[x].k = None,
         call'[x].pc # "idle" => call'[x].k \in Tokens /\ call'[x].a \in Accounts,
         call'[x].pc \in {"verify", "admit"} =>
           /\ sess'[call'[x].k].a = None
           /\ \A y \in Callers : y # x => call[y].k # call'[x].k,
         call'[x].pc \notin {"idle", "verify", "admit"} =>
           sess'[call'[x].k].a = call'[x].a /\ sess[call'[x].k].a = call'[x].a
  PROVE  CallersInv'
<1> SUFFICES ASSUME NEW z \in Callers
             PROVE  /\ Starting(z)' \/ Continuing(z)' => call'[z].k \in Tokens /\ call'[z].a \in Accounts
                    /\ Starting(z)' => sess'[call'[z].k].a = None
                    /\ Starting(z)' => \A y \in Callers : y # z => call'[y].k # call'[z].k
                    /\ Continuing(z)' => sess'[call'[z].k].a = call'[z].a
  BY DEF CallersInv
<1>1. CASE z = x
  BY <1>1 DEF Starting, Continuing
<1>2. CASE z # x
  <2>1. call'[z] = call[z]
    BY <1>2
  <2>2. ASSUME Starting(z) PROVE call'[x].k # call[z].k
    <3>1. call[z].k \in Tokens /\ sess[call[z].k].a = None
      BY <2>2 DEF AuthInv, CallersInv
    <3>2. CASE call'[x].pc = "idle"
      BY <3>1, <3>2
    <3>3. CASE call'[x].pc \in {"verify", "admit"}
      BY <1>2, <3>3
    <3>4. CASE call'[x].pc \notin {"idle", "verify", "admit"}
      BY <3>1, <3>4
    <3> QED
      BY <3>2, <3>3, <3>4
  <2>3. Starting(z) \/ Continuing(z) => sess'[call[z].k].a = sess[call[z].k].a
    BY <1>2
  <2>4. /\ Starting(z) \/ Continuing(z) => call[z].k \in Tokens /\ call[z].a \in Accounts
        /\ Starting(z) => sess[call[z].k].a = None
        /\ Starting(z) => \A y \in Callers : y # z => call[y].k # call[z].k
        /\ Continuing(z) => sess[call[z].k].a = call[z].a
    BY DEF AuthInv, CallersInv
  <2>5. (Starting(z)' <=> Starting(z)) /\ (Continuing(z)' <=> Continuing(z))
    BY <2>1 DEF Starting, Continuing
  <2>6. Starting(z) => \A y \in Callers : y # z => call'[y].k # call[z].k
    <3> SUFFICES ASSUME Starting(z), NEW y \in Callers, y # z PROVE call'[y].k # call[z].k
      OBVIOUS
    <3>1. CASE y = x
      BY <2>2, <3>1
    <3>2. CASE y # x
      BY <2>4, <3>2
    <3> QED
      BY <3>1, <3>2
  <2> QED
    BY <2>1, <2>3, <2>4, <2>5, <2>6
<1> QED
  BY <1>1, <1>2

\* The locks stay right when no other caller becomes accepted.
LEMMA LocksKept ==
  ASSUME AuthInv, NEW x \in Callers, \A y \in Callers : y # x => call'[y] = call[y],
         call'[x].pc \notin {"admit", "extend"},
         \A y \in Callers : y # x /\ Accepted(y) =>
           mutex'[call[y].a] = y /\ cred'[call[y].a].last = cred[call[y].a].last
  PROVE  LocksInv'
BY DEF AuthInv, LocksInv, Accepted

\* A caller that is not accepted moves, and no row, credential or lock does.
LEMMA CallerMoves ==
  ASSUME AuthInv, NEW x \in Callers, sess' = sess, cred' = cred, clock' = clock, mutex' = mutex,
         call' \in [Callers -> CallStates], \A y \in Callers : y # x => call'[y] = call[y],
         call'[x].pc \notin {"admit", "extend"},
         CallersInv'
  PROVE  AuthInv'
<1>1. AuthTypes'
  BY DEF AuthInv, AuthTypes
<1>2. SessionsInv'
  BY DEF AuthInv, SessionsInv
<1>3. LocksInv'
  BY LocksKept DEF AuthInv, LocksInv
<1> QED
  BY <1>1, <1>2, <1>3 DEF AuthInv

\* A renewal never outlasts the absolute end.
LEMMA RenewedTyped ==
  ASSUME AuthInv, NEW k \in Tokens, NEW now \in Nat
  PROVE  /\ Renewed(k, now) \in SessionRows /\ Renewed(k, now).a = sess[k].a /\ Renewed(k, now).abs = sess[k].abs
         /\ Renewed(k, now).assured = sess[k].assured /\ Renewed(k, now).revoked = sess[k].revoked
         /\ Renewed(k, now).idle <= sess[k].abs
<1>1. sess[k] \in SessionRows
  BY DEF AuthInv, AuthTypes
<1> DEFINE i == Earlier(now + IF sess[k].remembered THEN RememberedTtl ELSE IdleTtl, sess[k].abs)
<1>2. i \in Nat /\ i <= sess[k].abs
  BY <1>1 DEF SessionRows, Earlier
<1>3. Renewed(k, now) = [sess[k] EXCEPT !.idle = i]
  BY DEF Renewed
<1> HIDE DEF i
<1> QED
  BY <1>1, <1>2, <1>3 DEF SessionRows

\* provision: a new authenticator starts its counters anew.
LEMMA ProvisionKeeps ==
  ASSUME AuthInv, NEW a \in Accounts, NEW p \in Projects, Provision(a, p)
  PROVE  AuthInv' /\ SpentInStep
<1>1. /\ cred' \in [Accounts -> [known : BOOLEAN, active : BOOLEAN, last : Nat]]
      /\ \A b \in Accounts : cred'[b].last <= cred[b].last
  <2>1. cred' = [cred EXCEPT ![a] = [known |-> TRUE, active |-> TRUE, last |-> 0]]
    BY DEF Provision
  <2> QED
    BY <2>1 DEF AuthInv, AuthTypes
<1>2. sess' \in [Tokens -> SessionRows]
  BY ZenonT(40) DEF Provision, AuthInv, AuthTypes, SessionRows
<1>3. \A k \in Tokens : /\ sess'[k].a = sess[k].a /\ sess'[k].idle = sess[k].idle /\ sess'[k].abs = sess[k].abs
                        /\ sess'[k].assured = sess[k].assured
                        /\ sess[k].a # a => sess'[k].revoked = sess[k].revoked
                        /\ sess[k].revoked => sess'[k].revoked
  <2> SUFFICES ASSUME NEW k \in Tokens
               PROVE  /\ sess'[k].a = sess[k].a /\ sess'[k].idle = sess[k].idle /\ sess'[k].abs = sess[k].abs
                      /\ sess'[k].assured = sess[k].assured
                      /\ sess[k].a # a => sess'[k].revoked = sess[k].revoked
                      /\ sess[k].revoked => sess'[k].revoked
    OBVIOUS
  <2>1. sess[k] \in SessionRows /\ sess'[k] = IF sess[k].a = a THEN [sess[k] EXCEPT !.revoked = TRUE] ELSE sess[k]
    BY DEF Provision, AuthInv, AuthTypes
  <2>2. CASE sess[k].a = a
    BY <2>1, <2>2 DEF SessionRows
  <2>3. CASE sess[k].a # a
    BY <2>1, <2>3
  <2> QED
    BY <2>2, <2>3
<1>4. AuthTypes'
  BY <1>1, <1>2 DEF Provision, AuthInv, AuthTypes
<1>5. SessionsInv'
  BY <1>3 DEF AuthInv, SessionsInv
<1>6. CallersInv'
  BY <1>3 DEF Provision, AuthInv, CallersInv, Starting, Continuing
<1>7. LocksInv'
  <2> SUFFICES ASSUME NEW x \in Callers, Accepted(x)
               PROVE  mutex[call[x].a] = x /\ call[x].code > cred'[call[x].a].last
    BY DEF Provision, LocksInv, Accepted
  <2>1. call[x].a \in Accounts /\ call[x].code \in Nat
    BY DEF AuthInv, AuthTypes, CallStates, CallersInv, Accepted, Starting, Continuing
  <2>2. cred[call[x].a].last \in Nat /\ cred'[call[x].a].last \in Nat
    BY <1>1, <2>1 DEF AuthInv, AuthTypes
  <2> QED
    BY <1>1, <2>1, <2>2 DEF AuthInv, LocksInv
<1>8. SpentInStep
  BY <1>3 DEF SpentInStep, AuthInv, SessionsInv
<1> QED
  BY <1>4, <1>5, <1>6, <1>7, <1>8 DEF AuthInv

\* An account made inactive keeps its rows and its counter.
LEMMA DeactivateKeeps ==
  ASSUME AuthInv, NEW a \in Accounts, Deactivate(a) PROVE AuthInv' /\ SpentInStep
<1>1. /\ cred' \in [Accounts -> [known : BOOLEAN, active : BOOLEAN, last : Nat]]
      /\ \A b \in Accounts : cred'[b].last = cred[b].last
  <2>1. cred \in [Accounts -> [known : BOOLEAN, active : BOOLEAN, last : Nat]]
    BY DEF AuthInv, AuthTypes
  <2>2. PICK row \in [known : BOOLEAN, active : BOOLEAN, last : Nat] : row = [cred[a] EXCEPT !.active = FALSE]
    BY <2>1
  <2>3. cred' = [cred EXCEPT ![a] = row] /\ row.last = cred[a].last
    BY <2>1, <2>2 DEF Deactivate
  <2> QED
    BY <2>1, <2>2, <2>3
<1>2. AuthTypes' /\ SessionsInv' /\ CallersInv'
  BY <1>1 DEF Deactivate, AuthInv, AuthTypes, SessionsInv, CallersInv, Starting, Continuing
<1>3. LocksInv'
  BY <1>1 DEF Deactivate, AuthInv, LocksInv, Accepted, CallersInv, Starting, Continuing
<1> QED
  BY <1>2, <1>3, SameSessions DEF Deactivate, AuthInv

\* A request with a session cookie is looked up.
LEMMA BeginSessionKeeps ==
  ASSUME AuthInv, NEW x \in Callers, NEW k \in Tokens, NEW purpose \in {"session", "signout", "assure"},
         BeginSession(x, k, purpose)
  PROVE  AuthInv' /\ SpentInStep
<1> DEFINE c == [NoCall EXCEPT !.pc = purpose, !.k = k, !.a = sess[k].a, !.now = clock]
<1>1. c \in CallStates /\ c.pc = purpose /\ c.k = k /\ c.a = sess[k].a
  BY SessionRow DEF AuthInv, AuthTypes, NoCall, CallStates
<1>2. call' = [call EXCEPT ![x] = c] /\ sess[k].a # None
  BY DEF BeginSession
<1>3. sess' = sess /\ cred' = cred /\ clock' = clock /\ mutex' = mutex
  BY DEF BeginSession
<1>4. sess[k].a \in Accounts
  BY <1>2, SessionRow DEF AuthInv
<1> HIDE DEF c
<1>5. /\ call' \in [Callers -> CallStates] /\ call'[x] = c
      /\ \A y \in Callers : y # x => call'[y] = call[y]
  BY <1>1, <1>2, CallTyped DEF AuthInv
<1>6. CallersInv'
  BY <1>1, <1>3, <1>4, <1>5, CallersKept
<1> QED
  BY <1>1, <1>3, <1>5, <1>6, CallerMoves, SameSessions

\* A sign-in takes a token nobody has.
LEMMA BeginSignInKeeps ==
  ASSUME AuthInv, NEW x \in Callers, NEW a \in Accounts, NEW src \in Sources, NEW k \in Tokens,
         NEW right \in BOOLEAN, NEW code \in Nat, NEW remember \in BOOLEAN,
         BeginSignIn(x, a, src, k, right, code, remember)
  PROVE  AuthInv' /\ SpentInStep
<1> DEFINE c == [pc |-> "verify", a |-> a, src |-> src, k |-> k, now |-> clock, right |-> right, code |-> code,
                 remember |-> remember]
<1>1. c \in CallStates /\ c.pc = "verify" /\ c.k = k /\ c.a = a
  BY DEF AuthInv, AuthTypes, CallStates
<1>2. call' = [call EXCEPT ![x] = c] /\ sess[k].a = None /\ \A y \in Callers : call[y].k # k
  BY DEF BeginSignIn
<1>3. sess' = sess /\ cred' = cred /\ clock' = clock /\ mutex' = mutex
  BY DEF BeginSignIn
<1> HIDE DEF c
<1>5. /\ call' \in [Callers -> CallStates] /\ call'[x] = c
      /\ \A y \in Callers : y # x => call'[y] = call[y]
  BY <1>1, <1>2, CallTyped DEF AuthInv
<1>6. CallersInv'
  BY <1>1, <1>2, <1>3, <1>5, CallersKept
<1> QED
  BY <1>1, <1>3, <1>5, <1>6, CallerMoves, SameSessions

\* A one-time code is entered for a sign-in or a reassurance.
LEMMA EnterCodeKeeps ==
  ASSUME AuthInv, NEW x \in Callers, NEW src \in Sources, NEW right \in BOOLEAN, NEW code \in Nat,
         EnterCode(x, src, right, code)
  PROVE  AuthInv' /\ SpentInStep
<1> DEFINE c == [call[x] EXCEPT !.pc = "recheck", !.src = src, !.right = right, !.code = code, !.now = clock]
<1>1. c \in CallStates /\ c.pc = "recheck" /\ c.k = call[x].k /\ c.a = call[x].a
  BY ZenonT(40), CallRow DEF AuthInv, AuthTypes, CallStates
<1>2. call' = [call EXCEPT ![x] = c] /\ Continuing(x)
  BY DEF EnterCode, At, Continuing
<1>3. sess' = sess /\ cred' = cred /\ clock' = clock /\ mutex' = mutex
  BY DEF EnterCode
<1> HIDE DEF c
<1>4. call[x].k \in Tokens /\ call[x].a \in Accounts /\ sess[call[x].k].a = call[x].a
  BY <1>2 DEF AuthInv, CallersInv
<1>5. /\ call' \in [Callers -> CallStates] /\ call'[x] = c
      /\ \A y \in Callers : y # x => call'[y] = call[y]
  BY <1>1, <1>2, CallTyped DEF AuthInv
<1>6. CallersInv'
  BY <1>1, <1>3, <1>4, <1>5, CallersKept
<1> QED
  BY <1>1, <1>3, <1>5, <1>6, CallerMoves, SameSessions

\* A session is found live, renewed and handed on.
LEMMA SessionKeeps ==
  ASSUME AuthInv, NEW x \in Callers, Session(x) PROVE AuthInv' /\ SpentInStep
<1> DEFINE k == call[x].k
           now == call[x].now
<1>1. k \in Tokens /\ call[x].a \in Accounts /\ sess[k].a = call[x].a /\ now \in Nat
  BY CallRow DEF Session, Continuing, AuthInv, CallersInv
<1>2. cred' = cred /\ clock' = clock /\ mutex' = mutex
  BY DEF Session
<1>3. CASE ~Valid(k, now)
  <2>1. Quit(x) /\ sess' = sess
    BY <1>3 DEF Session
  <2>2. /\ call' \in [Callers -> CallStates] /\ call'[x].pc = "idle" /\ call'[x].k = None
        /\ \A y \in Callers : y # x => call'[y] = call[y]
    BY <2>1, QuitTyped DEF AuthInv
  <2>3. CallersInv'
    BY <2>1, <2>2, CallersKept
  <2> QED
    BY <1>2, <2>1, <2>2, <2>3, CallerMoves, SameSessions
<1>4. CASE Valid(k, now)
  <2>1. sess' = [sess EXCEPT ![k] = Renewed(k, now)]
    BY <1>4 DEF Session
  <2>2. /\ Renewed(k, now) \in SessionRows /\ Renewed(k, now).a = sess[k].a /\ Renewed(k, now).abs = sess[k].abs
        /\ Renewed(k, now).assured = sess[k].assured /\ Renewed(k, now).revoked = sess[k].revoked
        /\ Renewed(k, now).idle <= sess[k].abs
    BY <1>1, RenewedTyped
  <2>3. /\ sess' \in [Tokens -> SessionRows] /\ sess'[k] = Renewed(k, now)
        /\ \A j \in Tokens : j # k => sess'[j] = sess[j]
    BY <1>1, <2>1, <2>2, SessionTyped DEF AuthInv
  <2>4. \A j \in Tokens : /\ sess'[j].a = sess[j].a /\ sess'[j].abs = sess[j].abs
                          /\ sess'[j].assured = sess[j].assured /\ sess'[j].revoked = sess[j].revoked
                          /\ sess'[j].idle <= sess[j].abs
    BY <2>2, <2>3 DEF AuthInv, SessionsInv
  <2>5. /\ call' \in [Callers -> CallStates] /\ call'[x].pc \in {"idle", "revoke", "code"}
        /\ call'[x].pc = "idle" => call'[x].k = None
        /\ call'[x].pc # "idle" => call'[x].k = call[x].k /\ call'[x].a = call[x].a
        /\ \A y \in Callers : y # x => call'[y] = call[y]
    <3>1. CASE Quit(x)
      BY <3>1, QuitTyped DEF AuthInv
    <3>2. CASE Goes(x, "revoke")
      BY <3>2, GoesTyped DEF AuthInv
    <3>3. CASE Goes(x, "code")
      BY <3>3, GoesTyped DEF AuthInv
    <3> QED
      BY <1>4, <3>1, <3>2, <3>3 DEF Session, At
  <2>6. CallersInv'
    <3>1. \A y \in Callers : y # x /\ (Starting(y) \/ Continuing(y)) => sess'[call[y].k].a = sess[call[y].k].a
      BY <2>4 DEF AuthInv, CallersInv
    <3> QED
      BY <1>1, <2>4, <2>5, <3>1, CallersKept
  <2>7. AuthTypes' /\ SessionsInv'
    BY <1>2, <2>3, <2>4, <2>5 DEF AuthInv, AuthTypes, SessionsInv
  <2>8. LocksInv'
    BY <1>2, <2>5, LocksKept DEF AuthInv, LocksInv
  <2>9. SpentInStep
    BY <2>4 DEF SpentInStep
  <2> QED
    BY <2>6, <2>7, <2>8, <2>9 DEF AuthInv
<1> QED
  BY <1>3, <1>4

\* The second transaction of a sign-out revokes the row.
LEMMA RevokeKeeps ==
  ASSUME AuthInv, NEW x \in Callers, Revoke(x) PROVE AuthInv' /\ SpentInStep
<1> DEFINE k == call[x].k
           s == [sess[k] EXCEPT !.revoked = TRUE]
<1>1. k \in Tokens /\ call[x].a \in Accounts /\ sess[k].a = call[x].a
  BY DEF Revoke, At, Continuing, AuthInv, CallersInv
<1>2. cred' = cred /\ clock' = clock /\ mutex' = mutex /\ Quit(x)
  BY DEF Revoke
<1>3. s \in SessionRows /\ s.a = sess[k].a /\ s.abs = sess[k].abs /\ s.assured = sess[k].assured
      /\ s.idle = sess[k].idle /\ s.revoked = TRUE
  BY <1>1, SessionRow DEF AuthInv, SessionRows
<1>4. sess' = [sess EXCEPT ![k] = s]
  BY <1>1 DEF Revoke, AuthInv, AuthTypes
<1> HIDE DEF s
<1>5. /\ sess' \in [Tokens -> SessionRows] /\ sess'[k] = s /\ \A j \in Tokens : j # k => sess'[j] = sess[j]
  BY <1>1, <1>3, <1>4, SessionTyped DEF AuthInv
<1>6. /\ call' \in [Callers -> CallStates] /\ call'[x].pc = "idle" /\ call'[x].k = None
      /\ \A y \in Callers : y # x => call'[y] = call[y]
  BY <1>2, QuitTyped DEF AuthInv
<1>7. \A j \in Tokens : sess'[j].a = sess[j].a /\ sess'[j].abs = sess[j].abs
                        /\ sess'[j].assured = sess[j].assured /\ sess'[j].idle = sess[j].idle
                        /\ (sess[j].revoked => sess'[j].revoked)
  BY <1>3, <1>5
<1>8. CallersInv'
  <2>1. \A y \in Callers : y # x /\ (Starting(y) \/ Continuing(y)) => sess'[call[y].k].a = sess[call[y].k].a
    BY <1>7 DEF AuthInv, CallersInv
  <2> QED
    BY <1>6, <2>1, CallersKept
<1>9. SessionsInv'
  BY <1>1, <1>5, <1>7 DEF AuthInv, SessionsInv
<1>10. AuthTypes' /\ LocksInv'
  BY <1>2, <1>5, <1>6, LocksKept DEF AuthInv, AuthTypes, LocksInv
<1>11. SpentInStep
  BY <1>7 DEF SpentInStep, AuthInv, SessionsInv
<1> QED
  BY <1>8, <1>9, <1>10, <1>11 DEF AuthInv

\* A lock is taken only when it is free, by a caller whose code is newer.
LEMMA VerifyKeeps ==
  ASSUME AuthInv, NEW x \in Callers, Verify(x) PROVE AuthInv' /\ SpentInStep
<1> DEFINE a == call[x].a
<1>1. /\ call[x].k \in Tokens /\ a \in Accounts /\ mutex[a] = None
      /\ call[x].pc \in {"verify", "recheck"}
      /\ call[x].pc = "verify" => sess[call[x].k].a = None /\ \A y \in Callers : y # x => call[y].k # call[x].k
      /\ call[x].pc = "recheck" => sess[call[x].k].a = a
  BY DEF Verify, LockFree, Starting, Continuing, AuthInv, CallersInv
<1>2. cred' = cred /\ clock' = clock /\ sess' = sess
  BY DEF Verify
<1>3. CASE Quit(x) /\ mutex' = mutex
  <2>1. /\ call' \in [Callers -> CallStates] /\ call'[x].pc = "idle" /\ call'[x].k = None
        /\ \A y \in Callers : y # x => call'[y] = call[y]
    BY <1>3, QuitTyped DEF AuthInv
  <2>2. CallersInv'
    BY <1>2, <2>1, CallersKept
  <2> QED
    BY <1>2, <1>3, <2>1, <2>2, CallerMoves, SameSessions
<1>4. CASE /\ mutex' = [mutex EXCEPT ![a] = x]
           /\ Goes(x, IF At(x, "verify") THEN "admit" ELSE "extend")
           /\ call[x].code > cred[a].last
  <2> DEFINE pc == IF At(x, "verify") THEN "admit" ELSE "extend"
  <2>1. pc \in {"admit", "extend"} /\ (pc = "admit" <=> call[x].pc = "verify")
    BY DEF At
  <2> HIDE DEF pc
  <2>2. /\ call' \in [Callers -> CallStates] /\ call'[x].pc = pc /\ call'[x].a = a /\ call'[x].k = call[x].k
        /\ call'[x].code = call[x].code /\ \A y \in Callers : y # x => call'[y] = call[y]
    BY <1>4, <2>1, GoesTyped DEF AuthInv, pc
  <2>3. CallersInv'
    BY <1>1, <1>2, <2>1, <2>2, CallersKept
  <2>4. mutex' \in [Accounts -> Callers \cup {None}]
    BY <1>4 DEF AuthInv, AuthTypes
  <2>5. AuthTypes' /\ SessionsInv'
    BY <1>2, <2>2, <2>4 DEF AuthInv, AuthTypes, SessionsInv
  <2>6. LocksInv'
    <3> SUFFICES ASSUME NEW y \in Callers, Accepted(y)'
                 PROVE  mutex'[call'[y].a] = y /\ call'[y].code > cred'[call'[y].a].last
      BY DEF LocksInv
    <3>1. CASE y = x
      BY <1>1, <1>2, <1>4, <2>2, <3>1 DEF AuthInv, AuthTypes
    <3>2. CASE y # x
      <4>1. call'[y] = call[y] /\ Accepted(y)
        BY <2>2, <3>2 DEF Accepted
      <4>2. mutex[call[y].a] = y /\ call[y].code > cred[call[y].a].last /\ y # None /\ call[y].a \in Accounts
        BY <4>1 DEF AuthInv, LocksInv, CallersInv, Accepted, Starting, Continuing
      <4>3. call[y].a # a
        BY <1>1, <4>2
      <4> QED
        BY <1>1, <1>2, <1>4, <4>1, <4>2, <4>3 DEF AuthInv, AuthTypes
    <3> QED
      BY <3>1, <3>2
  <2> QED
    BY <1>2, <2>3, <2>5, <2>6, SameSessions DEF AuthInv
<1> QED
  BY <1>3, <1>4 DEF Verify, Accepts

\* What the commit of an accepted caller does to the locks and the credentials.
LEMMA SpentMoves ==
  ASSUME AuthInv, NEW x \in Callers, Accepted(x), Spent(x)
  PROVE  /\ cred' \in [Accounts -> [known : BOOLEAN, active : BOOLEAN, last : Nat]]
         /\ mutex' \in [Accounts -> Callers \cup {None}]
         /\ call' \in [Callers -> CallStates] /\ call'[x].pc = "idle" /\ call'[x].k = None
         /\ \A y \in Callers : y # x => call'[y] = call[y]
         /\ cred'[call[x].a].last > cred[call[x].a].last
         /\ clock' = clock /\ LocksInv'
<1>1. call[x].a \in Accounts /\ call[x].code \in Nat /\ mutex[call[x].a] = x /\ call[x].code > cred[call[x].a].last
  BY CallRow DEF AuthInv, LocksInv, CallersInv, Accepted, Starting, Continuing
<1>2. cred' = [cred EXCEPT ![call[x].a].last = call[x].code] /\ mutex' = [mutex EXCEPT ![call[x].a] = None]
  BY DEF Spent
<1>3. /\ cred' \in [Accounts -> [known : BOOLEAN, active : BOOLEAN, last : Nat]]
      /\ cred'[call[x].a].last = call[x].code /\ \A b \in Accounts : b # call[x].a => cred'[b] = cred[b]
  BY <1>1, <1>2 DEF AuthInv, AuthTypes
<1>4. /\ mutex' \in [Accounts -> Callers \cup {None}]
      /\ \A b \in Accounts : b # call[x].a => mutex'[b] = mutex[b]
  BY <1>1, <1>2 DEF AuthInv, AuthTypes
<1>5. /\ call' \in [Callers -> CallStates] /\ call'[x].pc = "idle" /\ call'[x].k = None
      /\ \A y \in Callers : y # x => call'[y] = call[y]
  BY QuitTyped DEF AuthInv, Spent
<1>6. LocksInv'
  <2>1. \A y \in Callers : y # x /\ Accepted(y) => call[y].a # call[x].a /\ call[y].a \in Accounts /\ mutex[call[y].a] = y
    BY <1>1 DEF AuthInv, LocksInv, CallersInv, Accepted, Starting, Continuing
  <2> QED
    BY <1>3, <1>4, <1>5, <2>1, LocksKept
<1> QED
  BY <1>1, <1>3, <1>4, <1>5, <1>6 DEF Spent

\* The accepted sign-in commits: the session starts and the counter moves.
LEMMA LoginKeeps ==
  ASSUME AuthInv, NEW x \in Callers, Login(x) PROVE AuthInv' /\ SpentInStep
<1> DEFINE k == call[x].k
           s == [a |-> call[x].a, remembered |-> call[x].remember, revoked |-> FALSE,
                 assured |-> call[x].now + AssuranceTtl,
                 idle |-> call[x].now + IF call[x].remember THEN RememberedTtl ELSE IdleTtl,
                 abs |-> call[x].now + IF call[x].remember THEN RememberedTtl ELSE AbsoluteTtl]
<1>1. /\ k \in Tokens /\ call[x].a \in Accounts /\ sess[k].a = None /\ Accepted(x)
      /\ \A y \in Callers : y # x => call[y].k # k
  BY DEF Login, At, Accepted, Starting, AuthInv, CallersInv
<1>2. call[x].now \in Nat /\ call[x].remember \in BOOLEAN
  BY DEF AuthInv, AuthTypes, CallStates
<1>3. s \in SessionRows /\ s.a = call[x].a /\ s.idle <= s.abs
  BY <1>1, <1>2 DEF SessionRows
<1>4. sess' = [sess EXCEPT ![k] = s] /\ Spent(x)
  BY DEF Login
<1> HIDE DEF s
<1>5. /\ sess' \in [Tokens -> SessionRows] /\ sess'[k] = s /\ \A j \in Tokens : j # k => sess'[j] = sess[j]
  BY <1>1, <1>3, <1>4, SessionTyped DEF AuthInv
<1>6. /\ cred' \in [Accounts -> [known : BOOLEAN, active : BOOLEAN, last : Nat]]
      /\ mutex' \in [Accounts -> Callers \cup {None}]
      /\ call' \in [Callers -> CallStates] /\ call'[x].pc = "idle" /\ call'[x].k = None
      /\ \A y \in Callers : y # x => call'[y] = call[y]
      /\ cred'[call[x].a].last > cred[call[x].a].last
      /\ clock' = clock /\ LocksInv'
  BY <1>1, <1>4, SpentMoves
<1>7. AuthTypes'
  BY <1>5, <1>6 DEF AuthInv, AuthTypes
<1>8. SessionsInv'
  BY <1>1, <1>3, <1>5 DEF AuthInv, SessionsInv
<1>9. CallersInv'
  <2>1. \A y \in Callers : y # x /\ (Starting(y) \/ Continuing(y)) => sess'[call[y].k].a = sess[call[y].k].a
    BY <1>1, <1>5 DEF AuthInv, CallersInv
  <2> QED
    BY <1>6, <2>1, CallersKept
<1>10. SpentInStep
  <2> SUFFICES ASSUME NEW j \in Tokens
               PROVE  /\ (sess[j].a = None /\ sess'[j].a # None) \/ sess'[j].assured # sess[j].assured
                           => cred'[sess'[j].a].last > cred[sess'[j].a].last
                      /\ sess[j].revoked => sess'[j].revoked
                      /\ sess[j].a # None => sess'[j].abs = sess[j].abs /\ sess'[j].idle <= sess[j].abs
    BY DEF SpentInStep
  <2>1. CASE j = k
    BY <1>1, <1>3, <1>5, <1>6, <2>1 DEF AuthInv, SessionsInv
  <2>2. CASE j # k
    BY <1>5, <2>2 DEF AuthInv, SessionsInv
  <2> QED
    BY <2>1, <2>2
<1> QED
  BY <1>6, <1>7, <1>8, <1>9, <1>10 DEF AuthInv

\* The accepted reassurance commits: the counter moves with it.
LEMMA ReauthenticateKeeps ==
  ASSUME AuthInv, NEW x \in Callers, Reauthenticate(x) PROVE AuthInv' /\ SpentInStep
<1> DEFINE k == call[x].k
           s == [sess[k] EXCEPT !.assured = call[x].now + AssuranceTtl]
<1>1. k \in Tokens /\ call[x].a \in Accounts /\ sess[k].a = call[x].a /\ Accepted(x) /\ call[x].now \in Nat
  BY CallRow DEF Reauthenticate, At, Accepted, Continuing, AuthInv, CallersInv
<1>2. CASE sess' = [sess EXCEPT ![k].assured = call[x].now + AssuranceTtl] /\ Spent(x)
  <2>1. /\ s \in SessionRows /\ s.a = sess[k].a /\ s.abs = sess[k].abs /\ s.idle = sess[k].idle
        /\ s.revoked = sess[k].revoked
    BY <1>1, SessionRow DEF AuthInv, SessionRows
  <2>2. sess' = [sess EXCEPT ![k] = s]
    BY <1>1, <1>2 DEF AuthInv, AuthTypes
  <2> HIDE DEF s
  <2>3. /\ sess' \in [Tokens -> SessionRows] /\ sess'[k] = s /\ \A j \in Tokens : j # k => sess'[j] = sess[j]
    BY <1>1, <2>1, <2>2, SessionTyped DEF AuthInv
  <2>4. \A j \in Tokens : /\ sess'[j].a = sess[j].a /\ sess'[j].abs = sess[j].abs /\ sess'[j].idle = sess[j].idle
                          /\ sess'[j].revoked = sess[j].revoked
    BY <2>1, <2>3
  <2>5. /\ cred' \in [Accounts -> [known : BOOLEAN, active : BOOLEAN, last : Nat]]
        /\ mutex' \in [Accounts -> Callers \cup {None}]
        /\ call' \in [Callers -> CallStates] /\ call'[x].pc = "idle" /\ call'[x].k = None
        /\ \A y \in Callers : y # x => call'[y] = call[y]
        /\ cred'[call[x].a].last > cred[call[x].a].last
        /\ clock' = clock /\ LocksInv'
    BY <1>1, <1>2, SpentMoves
  <2>6. AuthTypes' /\ SessionsInv'
    BY <2>3, <2>4, <2>5 DEF AuthInv, AuthTypes, SessionsInv
  <2>7. CallersInv'
    <3>1. \A y \in Callers : y # x /\ (Starting(y) \/ Continuing(y)) => sess'[call[y].k].a = sess[call[y].k].a
      BY <2>4 DEF AuthInv, CallersInv
    <3> QED
      BY <2>5, <3>1, CallersKept
  <2>8. \A j \in Tokens : sess'[j].assured # sess[j].assured => j = k
    BY <2>3
  <2>9. SpentInStep
    BY <1>1, <2>4, <2>5, <2>8 DEF SpentInStep, AuthInv, SessionsInv
  <2> QED
    BY <2>5, <2>6, <2>7, <2>9 DEF AuthInv
<1>3. CASE /\ mutex' = [mutex EXCEPT ![call[x].a] = None] /\ Quit(x)
           /\ UNCHANGED <<clock, cred, throttle, sess, owner>>
  <2>1. /\ call' \in [Callers -> CallStates] /\ call'[x].pc = "idle" /\ call'[x].k = None
        /\ \A y \in Callers : y # x => call'[y] = call[y]
    BY <1>3, QuitTyped DEF AuthInv
  <2>2. mutex' \in [Accounts -> Callers \cup {None}] /\ \A b \in Accounts : b # call[x].a => mutex'[b] = mutex[b]
    BY <1>3 DEF AuthInv, AuthTypes
  <2>3. AuthTypes' /\ SessionsInv'
    BY <1>3, <2>1, <2>2 DEF AuthInv, AuthTypes, SessionsInv
  <2>4. CallersInv'
    BY <1>3, <2>1, CallersKept
  <2>5. \A y \in Callers : y # x /\ Accepted(y) => call[y].a # call[x].a /\ call[y].a \in Accounts /\ mutex[call[y].a] = y
    BY <1>1 DEF AuthInv, LocksInv, CallersInv, Accepted, Starting, Continuing
  <2>6. LocksInv'
    BY <1>3, <2>1, <2>2, <2>5, LocksKept
  <2> QED
    BY <1>3, <2>3, <2>4, <2>6, SameSessions DEF AuthInv
<1> QED
  BY <1>2, <1>3 DEF Reauthenticate

\* A caller goes away, and lets its lock go.
LEMMA DisconnectKeeps ==
  ASSUME AuthInv, NEW x \in Callers, Disconnect(x) PROVE AuthInv' /\ SpentInStep
<1>1. sess' = sess /\ cred' = cred /\ clock' = clock /\ Quit(x)
  BY DEF Disconnect
<1>2. /\ call' \in [Callers -> CallStates] /\ call'[x].pc = "idle" /\ call'[x].k = None
      /\ \A y \in Callers : y # x => call'[y] = call[y]
  BY <1>1, QuitTyped DEF AuthInv
<1>3. mutex' \in [Accounts -> Callers \cup {None}] /\ \A b \in Accounts : mutex[b] # x => mutex'[b] = mutex[b]
  BY DEF Disconnect, AuthInv, AuthTypes
<1>4. AuthTypes' /\ SessionsInv'
  BY <1>1, <1>2, <1>3 DEF AuthInv, AuthTypes, SessionsInv
<1>5. CallersInv'
  BY <1>1, <1>2, CallersKept
<1>6. \A y \in Callers : y # x /\ Accepted(y) => mutex[call[y].a] = y /\ call[y].a \in Accounts
  BY DEF AuthInv, LocksInv, CallersInv, Accepted, Starting, Continuing
<1>7. LocksInv'
  BY <1>1, <1>2, <1>3, <1>6, LocksKept
<1> QED
  BY <1>1, <1>4, <1>5, <1>7, SameSessions DEF AuthInv

\* Every step of the sign-in calls keeps the invariant and spends codes once.
LEMMA AuthSteps == AuthInv /\ [AuthNext]_authVars => AuthInv' /\ SpentInStep
<1> SUFFICES ASSUME AuthInv, [AuthNext]_authVars PROVE AuthInv' /\ SpentInStep
  OBVIOUS
<1>1. CASE Tick \/ UNCHANGED authVars
  <2>1. sess' = sess /\ cred' = cred /\ mutex' = mutex /\ call' = call /\ clock' \in Nat
    BY <1>1 DEF Tick, authVars, AuthInv, AuthTypes
  <2>2. AuthTypes' /\ SessionsInv'
    BY <2>1 DEF AuthInv, AuthTypes, SessionsInv
  <2>3. CallersInv' /\ LocksInv'
    BY <2>1 DEF AuthInv, CallersInv, LocksInv, Starting, Continuing, Accepted
  <2> QED
    BY <2>1, <2>2, <2>3, SameSessions DEF AuthInv
<1>2. ASSUME NEW a \in Accounts, Deactivate(a) \/ \E p \in Projects : Provision(a, p)
      PROVE  AuthInv' /\ SpentInStep
  BY <1>2, DeactivateKeeps, ProvisionKeeps
<1>3. ASSUME NEW x \in Callers, SignIn(x) PROVE AuthInv' /\ SpentInStep
  <2>1. PICK src \in Sources, answer \in Answers :
          \/ EnterCode(x, src, answer[1], answer[2])
          \/ \E a \in Accounts, k \in Tokens, remember \in BOOLEAN :
               BeginSignIn(x, a, src, k, answer[1], answer[2], remember)
    BY <1>3 DEF SignIn
  <2>2. answer[1] \in BOOLEAN /\ answer[2] \in Nat
    <3>1. MaxTime \in Nat
      OBVIOUS
    <3>2. CASE answer \in BOOLEAN \X {1}
      <4>1. PICK b \in BOOLEAN : answer = <<b, 1>>
        BY <3>2
      <4> QED
        BY <4>1
    <3>3. CASE answer \in {TRUE} \X (1..MaxTime + 1)
      <4> DEFINE Codes == 1..MaxTime + 1
      <4>1. Codes \subseteq Nat
        BY <3>1
      <4>2. answer \in {TRUE} \X Codes
        BY ONLY <3>3
      <4> HIDE DEF Codes
      <4>3. answer[1] = TRUE /\ answer[2] \in Codes
        BY ONLY <4>2
      <4>4. answer[1] \in BOOLEAN
        BY <4>3, Zenon
      <4> QED
        BY <4>1, <4>3, <4>4
    <3> QED
      BY <3>2, <3>3 DEF Answers
  <2> QED
    BY <2>1, <2>2, EnterCodeKeeps, BeginSignInKeeps
<1>4. ASSUME NEW x \in Callers, NEW k \in Tokens, NEW purpose \in {"session", "signout", "assure"},
             BeginSession(x, k, purpose)
      PROVE  AuthInv' /\ SpentInStep
  BY <1>4, BeginSessionKeeps
<1>5. ASSUME NEW x \in Callers,
             Session(x) \/ Revoke(x) \/ Verify(x) \/ Login(x) \/ Reauthenticate(x) \/ Disconnect(x)
      PROVE  AuthInv' /\ SpentInStep
  BY <1>5, SessionKeeps, RevokeKeeps, VerifyKeeps, LoginKeeps, ReauthenticateKeeps, DisconnectKeeps
<1> QED
  BY <1>1, <1>2, <1>3, <1>4, <1>5 DEF AuthNext

-----------------------------------------------------------------------------
(* The shells. *)
ShellStates == {"none", "open", "exited", "closed"}
Making == opener.pc \in {"spawn", "discard"}
Shells ==
  [state : ShellStates, gen : Nat, epoch : Nat, req : Requests \cup {"none"}, bind : Bindings \cup {"none"},
   cursor : Nat, ring : Nat, seq : Nat, outcome : {"none", "uncertain", "written"}, cleanup : BOOLEAN, late : BOOLEAN]
Openers == [pc : {"free", "spawn", "attach", "discard"}, t : Tabs \cup {"none"}, req : Requests \cup {"none"},
            bind : Bindings \cup {"none"}, cancelled : BOOLEAN]
Holders == [op : {"free", "input", "written", "finish"}, seq : Nat]
TerminalTypes ==
  /\ shell \in [Tabs -> Shells] /\ opener \in Openers /\ latch \in [Tabs -> Holders]
  /\ live \in [Tabs -> Nat] /\ typed \in [Tabs -> Nat] /\ pending \in {0, 1} /\ made \in Nat
OpenerInv ==
  /\ Making => pending = 1 /\ opener.t \in Tabs /\ shell[opener.t].state = "none"
  /\ opener.pc = "attach" => opener.t \in Tabs
  /\ opener.pc = "spawn" => live[opener.t] = 0
  /\ opener.pc = "discard" => live[opener.t] = 1
ShellsInv ==
  \A t \in Tabs :
    /\ (Making \/ pending = 0) /\ ~(Making /\ t = opener.t) => live[t] <= 1 /\ (live[t] > 0 => Counted(t))
    /\ shell[t].state = "none" => ~shell[t].cleanup
    /\ shell[t].state # "none" => shell[t].gen > 0 /\ typed[t] = shell[t].seq
HoldersInv ==
  \A t \in Tabs :
    /\ latch[t].op = "finish" => shell[t].state = "closed" /\ shell[t].cleanup
    /\ shell[t].cleanup => latch[t].op = "finish"
    /\ latch[t].op \in {"input", "written"} => shell[t].state \in {"open", "exited"}
    /\ latch[t].op = "input" => latch[t].seq = shell[t].seq + 1
CapacityInv == ActiveCount <= Capacity
TerminalInv == TerminalTypes /\ OpenerInv /\ ShellsInv /\ HoldersInv /\ CapacityInv

\* Before any shell is opened.
LEMMA TerminalBegins == TerminalInit => TerminalInv
<1> SUFFICES ASSUME TerminalInit PROVE TerminalInv
  OBVIOUS
<1>1. NoShell \in Shells /\ NoShell.state = "none" /\ NoShell.cleanup = FALSE
  BY DEF NoShell, Shells, ShellStates
<1>2. NoOpener \in Openers /\ NoOpener.pc = "free" /\ NoHolder \in Holders /\ NoHolder.op = "free"
  BY DEF NoOpener, Openers, NoHolder, Holders
<1>3. TerminalTypes
  BY <1>1, <1>2 DEF TerminalTypes, TerminalInit
<1>4. OpenerInv /\ ~Making
  BY <1>2 DEF OpenerInv, Making, TerminalInit
<1>5. ShellsInv /\ HoldersInv
  BY <1>1, <1>2, <1>4 DEF ShellsInv, HoldersInv, TerminalInit
<1>6. {t \in Tabs : Counted(t)} = {}
  BY <1>1 DEF Counted, TerminalInit
<1>7. CapacityInv
  BY <1>6, FS_EmptySet DEF CapacityInv, ActiveCount, TerminalInit
<1> QED
  BY <1>3, <1>4, <1>5, <1>7 DEF TerminalInv

\* A step after which no more shells and spawns count stays in the capacity.
LEMMA CountedShrinks ==
  ASSUME TerminalInv, pending' <= pending, pending' \in Nat, \A u \in Tabs : Counted(u)' => Counted(u)
  PROVE  CapacityInv'
<1> DEFINE S == {u \in Tabs : Counted(u)}
           T == {u \in Tabs : Counted(u)'}
<1>1. T \subseteq S /\ IsFiniteSet(S)
  BY FS_Subset
<1>2. Cardinality(T) <= Cardinality(S) /\ Cardinality(T) \in Nat /\ Cardinality(S) \in Nat
  BY <1>1, FS_Subset, FS_CardinalityType
<1>3. pending + Cardinality(S) <= Capacity /\ pending \in Nat
  BY DEF TerminalInv, TerminalTypes, CapacityInv, ActiveCount
<1>4. pending' + Cardinality(T) <= Capacity
  BY <1>2, <1>3
<1> QED
  BY <1>4 DEF CapacityInv, ActiveCount

\* A step on the shell of one tab, while the opener stays where it is.
LEMMA OneShell ==
  ASSUME TerminalInv, NEW t \in Tabs,
         shell' \in [Tabs -> Shells], latch' \in [Tabs -> Holders], live' \in [Tabs -> Nat], typed' \in [Tabs -> Nat],
         \A u \in Tabs : u # t => /\ shell'[u] = shell[u] /\ latch'[u] = latch[u]
                                  /\ live'[u] = live[u] /\ typed'[u] = typed[u],
         opener' = opener, pending' = pending, made' = made,
         shell[t].state # "none", shell'[t].state # "none",
         Counted(t)' => Counted(t),
         live'[t] <= live[t], live[t] <= 1 /\ live'[t] > 0 => Counted(t)',
         shell'[t].gen > 0, typed'[t] = shell'[t].seq,
         latch'[t].op = "finish" => shell'[t].state = "closed" /\ shell'[t].cleanup,
         shell'[t].cleanup => latch'[t].op = "finish",
         latch'[t].op \in {"input", "written"} => shell'[t].state \in {"open", "exited"},
         latch'[t].op = "input" => latch'[t].seq = shell'[t].seq + 1
  PROVE  TerminalInv'
<1>1. TerminalTypes'
  BY DEF TerminalInv, TerminalTypes
<1>2. (Making' <=> Making) /\ (Making => opener.t # t)
  BY DEF Making, TerminalInv, OpenerInv
<1>3. OpenerInv'
  BY <1>2 DEF TerminalInv, OpenerInv, Making
<1>4. \A u \in Tabs : u # t => (Counted(u)' <=> Counted(u))
  BY DEF Counted
<1>5. ShellsInv'
  <2> SUFFICES ASSUME NEW u \in Tabs
               PROVE  /\ (Making \/ pending = 0) /\ ~(Making /\ u = opener.t)
                           => live'[u] <= 1 /\ (live'[u] > 0 => Counted(u)')
                      /\ shell'[u].state = "none" => ~shell'[u].cleanup
                      /\ shell'[u].state # "none" => shell'[u].gen > 0 /\ typed'[u] = shell'[u].seq
    BY <1>2 DEF ShellsInv
  <2>1. CASE u = t
    BY <2>1 DEF TerminalInv, ShellsInv, TerminalTypes
  <2>2. CASE u # t
    BY <1>4, <2>2 DEF TerminalInv, ShellsInv
  <2> QED
    BY <2>1, <2>2
<1>6. HoldersInv'
  <2> SUFFICES ASSUME NEW u \in Tabs
               PROVE  /\ latch'[u].op = "finish" => shell'[u].state = "closed" /\ shell'[u].cleanup
                      /\ shell'[u].cleanup => latch'[u].op = "finish"
                      /\ latch'[u].op \in {"input", "written"} => shell'[u].state \in {"open", "exited"}
                      /\ latch'[u].op = "input" => latch'[u].seq = shell'[u].seq + 1
    BY DEF HoldersInv
  <2>1. CASE u = t
    BY <2>1
  <2>2. CASE u # t
    BY <2>2 DEF TerminalInv, HoldersInv
  <2> QED
    BY <2>1, <2>2
<1>7. CapacityInv'
  BY <1>4, CountedShrinks DEF TerminalInv, TerminalTypes
<1> QED
  BY <1>1, <1>3, <1>5, <1>6, <1>7 DEF TerminalInv

\* What a row of the table of shells is.
LEMMA ShellRow ==
  ASSUME TerminalInv, NEW t \in Tabs
  PROVE  /\ shell[t] \in Shells /\ latch[t] \in Holders /\ live[t] \in Nat /\ typed[t] \in Nat
         /\ shell[t].state # "none" => shell[t].gen > 0 /\ typed[t] = shell[t].seq
         /\ latch[t].op = "finish" => shell[t].state = "closed" /\ shell[t].cleanup
         /\ shell[t].cleanup => latch[t].op = "finish"
         /\ latch[t].op \in {"input", "written"} => shell[t].state \in {"open", "exited"}
         /\ latch[t].op = "input" => latch[t].seq = shell[t].seq + 1
BY DEF TerminalInv, TerminalTypes, ShellsInv, HoldersInv

\* One row of the table of shells is replaced.
LEMMA RowSet ==
  ASSUME TerminalInv, NEW t \in Tabs, NEW s \in Shells, shell' = [shell EXCEPT ![t] = s]
  PROVE  shell' \in [Tabs -> Shells] /\ shell'[t] = s /\ \A u \in Tabs : u # t => shell'[u] = shell[u]
BY DEF TerminalInv, TerminalTypes

\* One lock of a shell is replaced.
LEMMA LatchSet ==
  ASSUME TerminalInv, NEW t \in Tabs, NEW op \in {"free", "input", "written", "finish"}, NEW n \in Nat,
         latch' = [latch EXCEPT ![t] = [op |-> op, seq |-> n]]
  PROVE  /\ latch' \in [Tabs -> Holders] /\ latch'[t].op = op /\ latch'[t].seq = n
         /\ \A u \in Tabs : u # t => latch'[u] = latch[u]
BY DEF TerminalInv, TerminalTypes, Holders

\* What the types say, without the invariant.
LEMMA SameTypes ==
  ASSUME TerminalInv
  PROVE  /\ shell \in [Tabs -> Shells] /\ latch \in [Tabs -> Holders] /\ live \in [Tabs -> Nat]
         /\ typed \in [Tabs -> Nat] /\ opener \in Openers /\ pending \in {0, 1} /\ made \in Nat
BY DEF TerminalInv, TerminalTypes

\* A row that changes nothing the invariant speaks of.
LEMMA QuietRow ==
  ASSUME TerminalInv, NEW t \in Tabs, shell[t].state # "none", NEW s \in Shells, shell' = [shell EXCEPT ![t] = s],
         s.state = shell[t].state, s.gen = shell[t].gen, s.seq = shell[t].seq, s.cleanup = shell[t].cleanup,
         latch' = latch, live' = live, typed' = typed, opener' = opener, pending' = pending, made' = made
  PROVE  TerminalInv'
<1>1. shell' \in [Tabs -> Shells] /\ shell'[t] = s /\ \A u \in Tabs : u # t => shell'[u] = shell[u]
  BY RowSet
<1>2. Counted(t)' <=> Counted(t)
  BY <1>1 DEF Counted
<1>3. live[t] <= 1 /\ live'[t] > 0 => Counted(t)' \/ ~(live[t] <= 1 /\ live[t] > 0 => Counted(t))
  BY <1>2
<1>4. TerminalTypes' /\ OpenerInv' /\ (Making' <=> Making)
  BY <1>1 DEF TerminalInv, TerminalTypes, OpenerInv, Making
<1>5. ShellsInv'
  BY <1>1, <1>4 DEF TerminalInv, ShellsInv, Counted
<1>6. HoldersInv'
  BY <1>1 DEF TerminalInv, HoldersInv
<1>7. CapacityInv'
  <2>1. \A u \in Tabs : Counted(u)' => Counted(u)
    BY <1>1 DEF Counted
  <2> QED
    BY <2>1, SameTypes, CountedShrinks
<1> QED
  BY <1>4, <1>5, <1>6, <1>7 DEF TerminalInv

\* status renews the deadline of a bound shell.
LEMMA StatusKeeps ==
  ASSUME TerminalInv, NEW t \in Tabs, Usable(t), shell' = Seen(t),
         latch' = latch, live' = live, typed' = typed, opener' = opener, pending' = pending, made' = made
  PROVE  TerminalInv'
<1> DEFINE s == [shell[t] EXCEPT !.late = FALSE]
<1>1. /\ s \in Shells /\ s.state = shell[t].state /\ s.gen = shell[t].gen /\ s.seq = shell[t].seq
      /\ s.cleanup = shell[t].cleanup
  BY ZenonT(40), ShellRow DEF Shells
<1>2. shell' = [shell EXCEPT ![t] = s] /\ shell[t].state # "none"
  BY DEF Seen, Usable
<1> HIDE DEF s
<1> QED
  BY <1>1, <1>2, QuietRow

\* input takes the shell's lock with the next number.
LEMMA BeginInputKeeps ==
  ASSUME TerminalInv, NEW t \in Tabs, NEW gen, NEW epoch, NEW bind, NEW seq, BeginInput(t, gen, epoch, bind, seq)
  PROVE  TerminalInv'
<1>1. Usable(t) /\ shell' = Seen(t) /\ live' = live /\ typed' = typed /\ opener' = opener
      /\ pending' = pending /\ made' = made
  BY DEF BeginInput
<1>2. CASE latch' = latch
  BY <1>1, <1>2, StatusKeeps
<1>3. CASE seq = shell[t].seq + 1 /\ shell[t].state = "open" /\ Hold(t, "input", seq)
  <2> DEFINE s == [shell[t] EXCEPT !.late = FALSE]
  <2>0. shell[t] \in Shells /\ shell[t].gen > 0 /\ typed[t] = shell[t].seq
    BY <1>3, ShellRow
  <2>1. /\ s \in Shells /\ s.state = shell[t].state /\ s.gen = shell[t].gen /\ s.seq = shell[t].seq
        /\ s.cleanup = shell[t].cleanup
    BY <2>0 DEF Shells
  <2>7. seq \in Nat /\ s.state = "open" /\ seq = s.seq + 1
    BY <1>3, <2>0, <2>1 DEF Shells
  <2>2. shell' = [shell EXCEPT ![t] = s] /\ ~shell[t].cleanup
    BY <1>1, <1>3, ShellRow DEF Seen, Usable, Unlocked, NoHolder
  <2> HIDE DEF s
  <2>3. shell' \in [Tabs -> Shells] /\ shell'[t] = s /\ \A u \in Tabs : u # t => shell'[u] = shell[u]
    BY <2>1, <2>2, RowSet
  <2>4. /\ latch' \in [Tabs -> Holders] /\ latch'[t].op = "input" /\ latch'[t].seq = seq
        /\ \A u \in Tabs : u # t => latch'[u] = latch[u]
    BY <1>3, <2>7, LatchSet DEF Hold
  <2>5. Counted(t) /\ Counted(t)' /\ live[t] <= live[t]
    BY <1>3, <2>7, <2>3, SameTypes DEF Counted
  <2> QED
    BY <1>1, <1>3, <2>0, <2>1, <2>2, <2>3, <2>4, <2>5, <2>7, SameTypes, OneShell
<1> QED
  BY <1>2, <1>3 DEF BeginInput

\* The bytes are written under the number that was checked, unless maintenance began.
LEMMA WriteInputKeeps ==
  ASSUME TerminalInv, NEW t \in Tabs, WriteInput(t)
  PROVE  TerminalInv'
<1>1. /\ latch[t].op = "input" /\ live' = live /\ opener' = opener /\ pending' = pending /\ made' = made
      /\ shell[t].state \in {"open", "exited"} /\ latch[t].seq = shell[t].seq + 1 /\ ~shell[t].cleanup
      /\ shell[t].gen > 0 /\ typed[t] = shell[t].seq
  BY ShellRow DEF WriteInput
<1>2. Counted(t) /\ live[t] <= live[t]
  BY <1>1, SameTypes DEF Counted
<1>3. CASE Release(t) /\ shell' = shell /\ typed' = typed
  <2>1. /\ latch' \in [Tabs -> Holders] /\ latch'[t].op = "free"
        /\ \A u \in Tabs : u # t => latch'[u] = latch[u]
    BY <1>3, LatchSet DEF Release, NoHolder
  <2>2. Counted(t)'
    BY <1>1, <1>3 DEF Counted
  <2> QED
    BY <1>1, <1>2, <1>3, <2>1, <2>2, SameTypes, OneShell
<1>4. CASE /\ shell' = [shell EXCEPT ![t].seq = latch[t].seq, ![t].outcome = "uncertain"]
           /\ typed' = [typed EXCEPT ![t] = @ + 1] /\ Hold(t, "written", 0)
  <2> DEFINE s == [shell[t] EXCEPT !.seq = latch[t].seq, !.outcome = "uncertain"]
  <2>0. shell[t] \in Shells /\ latch[t].seq \in Nat
    BY ShellRow DEF Holders
  <2>1. /\ s \in Shells /\ s.state = shell[t].state /\ s.gen = shell[t].gen /\ s.seq = latch[t].seq
        /\ s.cleanup = shell[t].cleanup
    BY <2>0 DEF Shells
  <2>2. shell' = [shell EXCEPT ![t] = s]
    BY <1>4, SameTypes
  <2> HIDE DEF s
  <2>3. shell' \in [Tabs -> Shells] /\ shell'[t] = s /\ \A u \in Tabs : u # t => shell'[u] = shell[u]
    BY <2>1, <2>2, RowSet
  <2>4. /\ latch' \in [Tabs -> Holders] /\ latch'[t].op = "written"
        /\ \A u \in Tabs : u # t => latch'[u] = latch[u]
    BY <1>4, LatchSet DEF Hold
  <2>5. /\ typed' \in [Tabs -> Nat] /\ typed'[t] = typed[t] + 1 /\ \A u \in Tabs : u # t => typed'[u] = typed[u]
    BY <1>4, SameTypes
  <2>6. Counted(t)'
    BY <1>1, <2>1, <2>3 DEF Counted
  <2> QED
    BY <1>1, <1>2, <2>1, <2>3, <2>4, <2>5, <2>6, SameTypes, OneShell
<1> QED
  BY <1>3, <1>4 DEF WriteInput

\* The outcome of a write is recorded and the lock released.
LEMMA EndInputKeeps ==
  ASSUME TerminalInv, NEW t \in Tabs, NEW ok \in BOOLEAN, EndInput(t, ok)
  PROVE  TerminalInv'
<1>1. /\ latch[t].op = "written" /\ Release(t) /\ live' = live /\ typed' = typed /\ opener' = opener
      /\ pending' = pending /\ made' = made
      /\ shell[t].state \in {"open", "exited"} /\ ~shell[t].cleanup /\ shell[t].gen > 0 /\ typed[t] = shell[t].seq
  BY ShellRow DEF EndInput
<1>2. /\ shell' \in [Tabs -> Shells] /\ \A u \in Tabs : u # t => shell'[u] = shell[u]
      /\ shell'[t].state = shell[t].state /\ shell'[t].gen = shell[t].gen /\ shell'[t].seq = shell[t].seq
      /\ shell'[t].cleanup = shell[t].cleanup
  <2>1. CASE shell' = shell
    BY <2>1, SameTypes
  <2>2. CASE shell' = [shell EXCEPT ![t].outcome = "written"]
    <3> DEFINE s == [shell[t] EXCEPT !.outcome = "written"]
    <3>1. /\ s \in Shells /\ s.state = shell[t].state /\ s.gen = shell[t].gen /\ s.seq = shell[t].seq
          /\ s.cleanup = shell[t].cleanup
      BY ShellRow DEF Shells
    <3>2. shell' = [shell EXCEPT ![t] = s]
      BY <2>2, SameTypes
    <3> HIDE DEF s
    <3> QED
      BY <3>1, <3>2, RowSet
  <2> QED
    BY <2>1, <2>2 DEF EndInput
<1>3. latch' \in [Tabs -> Holders] /\ latch'[t].op = "free" /\ \A u \in Tabs : u # t => latch'[u] = latch[u]
  BY <1>1, LatchSet DEF Release, NoHolder
<1>4. Counted(t) /\ Counted(t)' /\ live[t] <= live[t]
  BY <1>1, <1>2, SameTypes DEF Counted
<1> QED
  BY <1>1, <1>2, <1>3, <1>4, SameTypes, OneShell

\* Output moves the cursor of an open shell.
LEMMA DrainOutputKeeps ==
  ASSUME TerminalInv, NEW t \in Tabs, DrainOutput(t) PROVE TerminalInv'
<1> DEFINE s == [shell[t] EXCEPT !.cursor = @ + 1, !.ring = Kept(@)]
<1>1. shell[t] \in Shells /\ shell[t].cursor + 1 \in Nat /\ Kept(shell[t].ring) \in Nat
  BY ShellRow DEF Shells, Kept
<1>2. /\ s \in Shells /\ s.state = shell[t].state /\ s.gen = shell[t].gen /\ s.seq = shell[t].seq
      /\ s.cleanup = shell[t].cleanup
  BY <1>1 DEF Shells
<1>3. shell' = [shell EXCEPT ![t] = s]
  BY SameTypes DEF DrainOutput
<1> HIDE DEF s
<1> QED
  BY <1>2, <1>3, QuietRow DEF DrainOutput

\* A deadline passes.
LEMMA ElapseKeeps ==
  ASSUME TerminalInv, NEW t \in Tabs, Elapse(t) PROVE TerminalInv'
<1> DEFINE s == [shell[t] EXCEPT !.late = TRUE]
<1>1. shell[t] \in Shells /\ shell[t].state # "none"
  BY ShellRow DEF Elapse
<1>2. /\ s \in Shells /\ s.state = shell[t].state /\ s.gen = shell[t].gen /\ s.seq = shell[t].seq
      /\ s.cleanup = shell[t].cleanup
  BY <1>1 DEF Shells
<1>3. shell' = [shell EXCEPT ![t] = s]
  BY SameTypes DEF Elapse
<1> HIDE DEF s
<1> QED
  BY <1>1, <1>2, <1>3, QuietRow DEF Elapse

\* A shell ends by itself and still counts.
LEMMA ExitKeeps ==
  ASSUME TerminalInv, NEW t \in Tabs, Exit(t) PROVE TerminalInv'
<1> DEFINE s == [shell[t] EXCEPT !.state = "exited"]
<1>1. /\ shell[t] \in Shells /\ shell[t].state = "open" /\ live[t] > 0 /\ latch' = latch /\ typed' = typed
      /\ opener' = opener /\ pending' = pending /\ made' = made
      /\ shell[t].gen > 0 /\ typed[t] = shell[t].seq /\ ~shell[t].cleanup
  BY ShellRow DEF Exit
<1>2. /\ s \in Shells /\ s.state = "exited" /\ s.gen = shell[t].gen /\ s.seq = shell[t].seq
      /\ s.cleanup = shell[t].cleanup
  BY <1>1 DEF Shells, ShellStates
<1>3. shell' = [shell EXCEPT ![t] = s] /\ live' = [live EXCEPT ![t] = @ - 1]
  BY SameTypes DEF Exit
<1> HIDE DEF s
<1>4. shell' \in [Tabs -> Shells] /\ shell'[t] = s /\ \A u \in Tabs : u # t => shell'[u] = shell[u]
  BY <1>2, <1>3, RowSet
<1>5. /\ live' \in [Tabs -> Nat] /\ live'[t] <= live[t] /\ \A u \in Tabs : u # t => live'[u] = live[u]
  BY <1>1, <1>3, SameTypes
<1>6. Counted(t) /\ Counted(t)'
  BY <1>1, <1>2, <1>4 DEF Counted
<1> QED
  BY <1>1, <1>2, <1>4, <1>5, <1>6, SameTypes, ShellRow, OneShell

\* A shell is closed under its lock and counts by its cleanup.
LEMMA FinishKeeps ==
  ASSUME TerminalInv, NEW t \in Tabs, NEW asked \in BOOLEAN, Finish(t, asked) PROVE TerminalInv'
<1> DEFINE s == [shell[t] EXCEPT !.state = "closed", !.cleanup = TRUE]
<1>1. /\ shell[t] \in Shells /\ shell[t].state \in {"open", "exited"} /\ live' = live /\ typed' = typed
      /\ opener' = opener /\ pending' = pending /\ made' = made
      /\ shell[t].gen > 0 /\ typed[t] = shell[t].seq
  BY ShellRow DEF Finish, Usable
<1>2. /\ s \in Shells /\ s.state = "closed" /\ s.gen = shell[t].gen /\ s.seq = shell[t].seq /\ s.cleanup = TRUE
  BY <1>1 DEF Shells, ShellStates
<1>3. shell' = [shell EXCEPT ![t] = s] /\ Hold(t, "finish", 0)
  BY SameTypes DEF Finish
<1> HIDE DEF s
<1>4. shell' \in [Tabs -> Shells] /\ shell'[t] = s /\ \A u \in Tabs : u # t => shell'[u] = shell[u]
  BY <1>2, <1>3, RowSet
<1>5. latch' \in [Tabs -> Holders] /\ latch'[t].op = "finish" /\ \A u \in Tabs : u # t => latch'[u] = latch[u]
  BY <1>3, LatchSet DEF Hold
<1>6. Counted(t) /\ Counted(t)' /\ live[t] <= live[t]
  BY <1>1, <1>2, <1>4, SameTypes DEF Counted
<1> QED
  BY <1>1, <1>2, <1>4, <1>5, <1>6, SameTypes, OneShell

\* The processes of a closed shell are gone before it stops counting.
LEMMA FinishedKeeps ==
  ASSUME TerminalInv, NEW t \in Tabs, Finished(t) PROVE TerminalInv'
<1> DEFINE s == [shell[t] EXCEPT !.ring = 0, !.cleanup = FALSE]
<1>1. /\ shell[t] \in Shells /\ shell[t].state = "closed" /\ shell[t].cleanup /\ typed' = typed
      /\ opener' = opener /\ pending' = pending /\ made' = made
      /\ shell[t].gen > 0 /\ typed[t] = shell[t].seq /\ live[t] \in Nat
  BY ShellRow DEF Finished
<1>2. /\ s \in Shells /\ s.state = "closed" /\ s.gen = shell[t].gen /\ s.seq = shell[t].seq /\ s.cleanup = FALSE
  BY <1>1 DEF Shells
<1>3. /\ shell' = [shell EXCEPT ![t] = s] /\ Release(t)
      /\ live' = [live EXCEPT ![t] = IF shell[t].gen # 0 /\ live[t] > 0 THEN live[t] - 1 ELSE live[t]]
  BY SameTypes DEF Finished
<1> HIDE DEF s
<1>4. shell' \in [Tabs -> Shells] /\ shell'[t] = s /\ \A u \in Tabs : u # t => shell'[u] = shell[u]
  BY <1>2, <1>3, RowSet
<1>5. latch' \in [Tabs -> Holders] /\ latch'[t].op = "free" /\ \A u \in Tabs : u # t => latch'[u] = latch[u]
  BY <1>3, LatchSet DEF Release, NoHolder
<1>6. /\ live' \in [Tabs -> Nat] /\ live'[t] = IF live[t] > 0 THEN live[t] - 1 ELSE live[t]
      /\ \A u \in Tabs : u # t => live'[u] = live[u]
  BY <1>1, <1>3, SameTypes
<1>7. live'[t] <= live[t] /\ ~(live[t] <= 1 /\ live'[t] > 0)
  BY <1>1, <1>6
<1>8. Counted(t)
  BY <1>1 DEF Counted
<1> QED
  BY <1>1, <1>2, <1>4, <1>5, <1>6, <1>7, <1>8, SameTypes, OneShell

\* Every call and every task of one tab.
LEMMA CallsKeep ==
  ASSUME TerminalInv, NEW t \in Tabs, Calls(t) PROVE TerminalInv'
<1>1. ASSUME NEW bind \in Bindings, Status(t, bind) PROVE TerminalInv'
  BY <1>1, StatusKeeps DEF Status
<1>2. ASSUME NEW bind \in Bindings, NEW gen \in 1..MaxShells, NEW epoch \in 1..MaxEpoch,
             NEW seq \in 1..MaxSequence, BeginInput(t, gen, epoch, bind, seq)
      PROVE  TerminalInv'
  BY <1>2, BeginInputKeeps
<1>3. ASSUME NEW bind \in Bindings, NEW gen \in 1..MaxShells, NEW epoch \in 1..MaxEpoch,
             NEW cursor \in 0..MaxCursor, BeginOutput(t, gen, epoch, bind, cursor)
      PROVE  TerminalInv'
  BY <1>3, StatusKeeps DEF BeginOutput
<1>4. CASE ExpireReader(t) \/ EndOutput(t)
  <2>1. UNCHANGED <<shell, pending, opener, latch, live, typed, made>>
    BY <1>4 DEF ExpireReader, EndOutput
  <2> QED
    BY <2>1 DEF TerminalInv, TerminalTypes, OpenerInv, Making, ShellsInv, Counted, HoldersInv, CapacityInv, ActiveCount
<1>5. ASSUME NEW ok \in BOOLEAN, EndInput(t, ok) PROVE TerminalInv'
  BY <1>5, EndInputKeeps
<1>6. ASSUME NEW asked \in BOOLEAN, Finish(t, asked) PROVE TerminalInv'
  BY <1>6, FinishKeeps
<1> QED
  BY <1>1, <1>2, <1>3, <1>4, <1>5, <1>6, WriteInputKeeps, DrainOutputKeeps, ExitKeeps, ElapseKeeps, FinishedKeeps
     DEF Calls

\* A prune leaves what counts, and an opened tab that does not count has no shell.
LEMMA BeginOpenKeeps ==
  ASSUME TerminalInv, NEW t \in Tabs, NEW q \in Requests, NEW bind \in Bindings, BeginOpen(t, q, bind)
  PROVE  TerminalInv'
<1>1. /\ opener = NoOpener /\ pending = 0 /\ shell' = Pruned /\ latch' = latch /\ live' = live /\ typed' = typed
      /\ made' = made /\ ~Making
  BY DEF BeginOpen, Making, NoOpener
<1>2. \A u \in Tabs : shell'[u] = IF Counted(u) THEN shell[u] ELSE NoShell
  BY <1>1 DEF Pruned
<1>3. NoShell \in Shells /\ NoShell.state = "none" /\ NoShell.cleanup = FALSE /\ NoShell \in Shells
  BY DEF NoShell, Shells, ShellStates
<1>4. \A u \in Tabs : Counted(u)' <=> Counted(u)
  BY <1>2, <1>3 DEF Counted
<1>5. \A u \in Tabs : live[u] <= 1 /\ (live[u] > 0 => Counted(u))
  BY <1>1 DEF TerminalInv, ShellsInv
<1>6. shell' \in [Tabs -> Shells]
  BY <1>1, <1>3, SameTypes DEF Pruned
<1> DEFINE new == Pruned[t].state = "none"
<1>7. /\ opener' = [pc |-> IF new THEN "spawn" ELSE "attach", t |-> t, req |-> q, bind |-> bind, cancelled |-> FALSE]
      /\ pending' = (IF new THEN 1 ELSE 0) /\ (new => ActiveCount < Capacity) /\ (new <=> shell'[t].state = "none")
  BY <1>1 DEF BeginOpen
<1> HIDE DEF new
<1>8. /\ opener' \in Openers /\ opener'.pc = (IF new THEN "spawn" ELSE "attach") /\ opener'.t = t
      /\ (Making' <=> new)
  BY <1>7 DEF Openers, Making
<1>9. TerminalTypes'
  BY <1>1, <1>6, <1>7, <1>8 DEF TerminalInv, TerminalTypes
<1>10. shell'[t].state = "none" => live[t] = 0
  <2>1. shell'[t].state = "none" => ~Counted(t)
    BY <1>2, ShellRow DEF Counted
  <2> QED
    BY <1>5, <2>1, SameTypes
<1>11. OpenerInv'
  BY <1>1, <1>7, <1>8, <1>10 DEF OpenerInv, Making
<1>12. ShellsInv'
  BY <1>1, <1>2, <1>3, <1>4, <1>5 DEF TerminalInv, ShellsInv
<1>13. HoldersInv'
  BY <1>1, <1>2, <1>3 DEF TerminalInv, HoldersInv, Counted
<1>14. CapacityInv'
  <2> DEFINE S == {u \in Tabs : Counted(u)}
  <2>1. {u \in Tabs : Counted(u)'} = S
    BY <1>4
  <2>2. Cardinality(S) \in Nat
    BY FS_Subset, FS_CardinalityType
  <2>3. Cardinality(S) <= Capacity /\ (new => Cardinality(S) < Capacity)
    BY <1>1, <1>7, <2>2 DEF ActiveCount, TerminalInv, CapacityInv
  <2>4. pending' + Cardinality(S) <= Capacity
    BY <1>7, <2>2, <2>3
  <2> QED
    BY <2>1, <2>4 DEF CapacityInv, ActiveCount
<1> QED
  BY <1>9, <1>11, <1>12, <1>13, <1>14 DEF TerminalInv

\* No open call.
LEMMA FreeOpener == NoOpener \in Openers /\ NoOpener.pc = "free"
BY DEF NoOpener, Openers

\* A second open of a tab takes its shell over, or finds maintenance begun.
LEMMA AttachKeeps == ASSUME TerminalInv, Attach PROVE TerminalInv'
<1>1. /\ opener.pc = "attach" /\ opener' = NoOpener /\ pending' = pending /\ latch' = latch /\ live' = live
      /\ typed' = typed /\ made' = made /\ ~Making /\ opener.t \in Tabs /\ ~Making'
  BY FreeOpener DEF Attach, TerminalInv, OpenerInv, Making
<1> DEFINE t == opener.t
<1>2. /\ shell' \in [Tabs -> Shells]
      /\ \A u \in Tabs : /\ shell'[u].state = shell[u].state /\ shell'[u].gen = shell[u].gen
                         /\ shell'[u].seq = shell[u].seq /\ shell'[u].cleanup = shell[u].cleanup
  <2>1. CASE shell' = shell
    BY <2>1, SameTypes
  <2>2. CASE shell' # shell
    <3> DEFINE e == IF shell[t].req # opener.req \/ shell[t].bind # opener.bind
                    THEN shell[t].epoch + 1 ELSE shell[t].epoch
               s == [shell[t] EXCEPT !.epoch = e, !.req = opener.req, !.bind = opener.bind, !.late = FALSE]
    <3>1. shell[t] \in Shells /\ e \in Nat /\ opener.req \in Requests \cup {"none"} /\ opener.bind \in Bindings \cup {"none"}
      BY <1>1, ShellRow, SameTypes DEF Shells, Openers
    <3>2. shell' = [shell EXCEPT ![t] = s]
      BY <1>1, <2>2, SameTypes DEF Attach
    <3> HIDE DEF e
    <3>3. /\ s \in Shells /\ s.state = shell[t].state /\ s.gen = shell[t].gen /\ s.seq = shell[t].seq
          /\ s.cleanup = shell[t].cleanup
      BY <3>1 DEF Shells
    <3> HIDE DEF s
    <3>4. shell' \in [Tabs -> Shells] /\ shell'[t] = s /\ \A u \in Tabs : u # t => shell'[u] = shell[u]
      BY <1>1, <3>2, <3>3, RowSet
    <3> QED
      BY <3>3, <3>4
  <2> QED
    BY <2>1, <2>2
<1>3. \A u \in Tabs : Counted(u)' <=> Counted(u)
  BY <1>2 DEF Counted
<1>4. TerminalTypes'
  BY <1>1, <1>2, FreeOpener DEF TerminalInv, TerminalTypes
<1>5. OpenerInv'
  BY <1>1, FreeOpener DEF OpenerInv, Making
<1>6. ShellsInv'
  BY <1>1, <1>2, <1>3 DEF TerminalInv, ShellsInv
<1>7. HoldersInv'
  BY <1>1, <1>2 DEF TerminalInv, HoldersInv
<1>8. CapacityInv'
  BY <1>1, <1>3, SameTypes, CountedShrinks
<1> QED
  BY <1>4, <1>5, <1>6, <1>7, <1>8 DEF TerminalInv

\* The client of a spawn goes away.
LEMMA CancelOpenKeeps == ASSUME TerminalInv, CancelOpen PROVE TerminalInv'
<1>1. UNCHANGED <<shell, pending, latch, live, typed, made>> /\ opener.pc = "spawn"
  BY DEF CancelOpen
<1>2. opener' \in Openers /\ opener'.pc = opener.pc /\ opener'.t = opener.t
  BY SameTypes DEF CancelOpen, Openers
<1>3. TerminalTypes' /\ OpenerInv' /\ ShellsInv'
  BY <1>1, <1>2 DEF TerminalInv, TerminalTypes, OpenerInv, ShellsInv, Making, Counted
<1>4. HoldersInv' /\ CapacityInv'
  BY <1>1 DEF TerminalInv, HoldersInv, CapacityInv, ActiveCount, Counted
<1> QED
  BY <1>3, <1>4 DEF TerminalInv

\* The step that enters a new shell: it is counted in the same step as the
\* pending spawn no longer is.
LEMMA EnteredKeeps ==
  ASSUME TerminalInv, NEW t \in Tabs, NEW s \in Shells,
         s.state = "open", s.gen > 0, s.seq = 0, ~s.cleanup,
         Making, t = opener.t, pending = 1, shell[t].state = "none", ~shell[t].cleanup, latch' = latch,
         live' \in [Tabs -> Nat], live'[t] = 1, \A u \in Tabs : u # t => live'[u] = live[u],
         shell' = [shell EXCEPT ![t] = s], typed' = [typed EXCEPT ![t] = 0],
         made' = made + 1, pending' = 0, opener' = NoOpener
  PROVE  TerminalInv'
<1>1. shell' \in [Tabs -> Shells] /\ shell'[t] = s /\ \A u \in Tabs : u # t => shell'[u] = shell[u]
  BY RowSet
<1>2. typed' \in [Tabs -> Nat] /\ typed'[t] = 0 /\ \A u \in Tabs : u # t => typed'[u] = typed[u]
  BY SameTypes
<1>3. TerminalTypes' /\ OpenerInv' /\ ~Making'
  BY <1>1, <1>2, FreeOpener DEF TerminalInv, TerminalTypes, OpenerInv, Making
<1>4. \A u \in Tabs : Counted(u)' <=> (Counted(u) \/ u = t)
  BY <1>1 DEF Counted
<1>5. ~Counted(t)
  BY DEF Counted
<1>6. ShellsInv'
  <2> SUFFICES ASSUME NEW u \in Tabs
               PROVE  /\ live'[u] <= 1 /\ (live'[u] > 0 => Counted(u)')
                      /\ shell'[u].state = "none" => ~shell'[u].cleanup
                      /\ shell'[u].state # "none" => shell'[u].gen > 0 /\ typed'[u] = shell'[u].seq
    BY <1>3 DEF ShellsInv
  <2>1. CASE u = t
    <3>1. Counted(u)'
      BY <1>4, <2>1
    <3>2. live'[t] = 1 /\ shell'[t].state = "open" /\ shell'[t].gen > 0 /\ typed'[t] = shell'[t].seq
      BY <1>1, <1>2
    <3> QED
      BY <2>1, <3>1, <3>2
  <2>2. CASE u # t
    <3>1. live[u] <= 1 /\ (live[u] > 0 => Counted(u))
      BY <2>2 DEF TerminalInv, ShellsInv, OpenerInv, Making
    <3>2. /\ shell[u].state = "none" => ~shell[u].cleanup
          /\ shell[u].state # "none" => shell[u].gen > 0 /\ typed[u] = shell[u].seq
      BY DEF TerminalInv, ShellsInv
    <3> QED
      BY <1>1, <1>2, <1>4, <2>2, <3>1, <3>2
  <2> QED
    BY <2>1, <2>2
<1>7. HoldersInv'
  BY <1>1 DEF TerminalInv, HoldersInv
<1>8. CapacityInv'
  <2> DEFINE S == {u \in Tabs : Counted(u)}
  <2>1. t \notin S
    BY <1>5
  <2>2. {u \in Tabs : Counted(u)'} = S \cup {t}
    BY <1>4
  <2>3. IsFiniteSet(S) /\ Cardinality(S) \in Nat
    BY FS_Subset, FS_CardinalityType
  <2>4. 1 + Cardinality(S) <= Capacity
    BY DEF TerminalInv, CapacityInv, ActiveCount
  <2> HIDE DEF S
  <2>5. Cardinality(S \cup {t}) = Cardinality(S) + 1
    BY <2>1, <2>3, FS_AddElement
  <2>6. pending' + Cardinality(S \cup {t}) <= Capacity
    BY <2>3, <2>4, <2>5
  <2> QED
    BY <2>2, <2>6 DEF CapacityInv, ActiveCount
<1> QED
  BY <1>3, <1>6, <1>7, <1>8 DEF TerminalInv

\* A spawn that succeeds enters the shell, or hands the process to be ended.
LEMMA SpawnedKeeps == ASSUME TerminalInv, NEW known \in BOOLEAN, Spawned(known) PROVE TerminalInv'
<1>1. /\ opener.pc = "spawn" /\ opener.t \in Tabs /\ pending = 1 /\ shell[opener.t].state = "none"
      /\ live[opener.t] = 0 /\ latch' = latch /\ Making /\ ~shell[opener.t].cleanup
  BY ShellRow DEF Spawned, TerminalInv, OpenerInv, Making, ShellsInv
<1>2. PICK t \in Tabs : t = opener.t
  BY <1>1
<1>3. /\ live' \in [Tabs -> Nat] /\ live'[t] = 1 /\ \A u \in Tabs : u # t => live'[u] = live[u]
  BY <1>1, <1>2, SameTypes DEF Spawned
<1>4. \A u \in Tabs : u # t => live[u] <= 1 /\ (live[u] > 0 => Counted(u))
  BY <1>1, <1>2 DEF TerminalInv, ShellsInv
<1>5. CASE opener' = [opener EXCEPT !.pc = "discard"] /\ UNCHANGED <<shell, pending, typed, made>>
  <2>1. opener' \in Openers /\ opener'.pc = "discard" /\ opener'.t = t
    BY <1>2, <1>5, SameTypes DEF Openers
  <2>2. TerminalTypes' /\ OpenerInv'
    BY <1>1, <1>2, <1>3, <1>5, <2>1 DEF TerminalInv, TerminalTypes, OpenerInv, Making
  <2>3. ShellsInv'
    BY <1>1, <1>3, <1>4, <1>5, <2>1 DEF TerminalInv, ShellsInv, Counted, Making
  <2>4. HoldersInv' /\ CapacityInv'
    BY <1>1, <1>5 DEF TerminalInv, HoldersInv, CapacityInv, ActiveCount, Counted
  <2> QED
    BY <2>2, <2>3, <2>4 DEF TerminalInv
<1>6. CASE /\ shell' = [shell EXCEPT ![opener.t] = [NoShell EXCEPT !.state = "open", !.gen = made + 1, !.epoch = 1,
                          !.req = opener.req, !.bind = opener.bind]]
           /\ typed' = [typed EXCEPT ![opener.t] = 0] /\ made' = made + 1 /\ pending' = 0 /\ opener' = NoOpener
  <2> DEFINE s == [NoShell EXCEPT !.state = "open", !.gen = made + 1, !.epoch = 1,
                    !.req = opener.req, !.bind = opener.bind]
  <2>1. made \in Nat /\ opener.req \in Requests \cup {"none"} /\ opener.bind \in Bindings \cup {"none"}
    BY SameTypes DEF Openers
  <2>2. s \in Shells /\ s.state = "open" /\ s.gen > 0 /\ s.seq = 0 /\ ~s.cleanup
    <3>1. NoShell \in Shells /\ NoShell.seq = 0 /\ ~NoShell.cleanup
      BY DEF NoShell, Shells, ShellStates
    <3>2. made + 1 \in Nat /\ made + 1 > 0
      BY <2>1
    <3> QED
      BY <2>1, <3>1, <3>2 DEF Shells, ShellStates
  <2>3. shell' = [shell EXCEPT ![t] = s] /\ typed' = [typed EXCEPT ![t] = 0]
    BY <1>2, <1>6
  <2>4. shell[t].state = "none" /\ ~shell[t].cleanup
    BY <1>1, <1>2
  <2> HIDE DEF s
  <2> QED
    BY <1>1, <1>2, <1>3, <1>6, <2>2, <2>3, <2>4, EnteredKeeps
<1> QED
  BY <1>5, <1>6 DEF Spawned

\* A failed spawn stays counted, with the process it may have left.
LEMMA SpawnFailsKeeps == ASSUME TerminalInv, NEW child \in BOOLEAN, SpawnFails(child) PROVE TerminalInv'
<1>1. /\ pending = 1 /\ opener' = NoOpener /\ UNCHANGED <<shell, pending, latch, typed, made>> /\ opener.t \in Tabs
  BY DEF SpawnFails, TerminalInv, OpenerInv, Making
<1>2. live' \in [Tabs -> Nat]
  BY <1>1, SameTypes DEF SpawnFails
<1>3. TerminalTypes' /\ OpenerInv' /\ ~Making'
  BY <1>1, <1>2, FreeOpener DEF TerminalInv, TerminalTypes, OpenerInv, Making
<1>4. ShellsInv'
  BY <1>1, <1>3 DEF TerminalInv, ShellsInv
<1>5. HoldersInv' /\ CapacityInv'
  BY <1>1 DEF TerminalInv, HoldersInv, CapacityInv, ActiveCount, Counted
<1> QED
  BY <1>3, <1>4, <1>5 DEF TerminalInv

\* The process nobody waits for is ended before the spawn stops counting.
LEMMA DiscardKeeps == ASSUME TerminalInv, Discard PROVE TerminalInv'
<1>1. /\ opener.t \in Tabs /\ live[opener.t] = 1 /\ opener' = NoOpener /\ pending' = 0 /\ pending = 1 /\ Making
      /\ UNCHANGED <<shell, latch, typed, made>> /\ live' = [live EXCEPT ![opener.t] = @ - 1]
  BY DEF Discard, TerminalInv, OpenerInv, Making
<1>2. /\ live' \in [Tabs -> Nat] /\ live'[opener.t] = 0 /\ \A u \in Tabs : u # opener.t => live'[u] = live[u]
  BY <1>1, SameTypes
<1>3. TerminalTypes' /\ OpenerInv'
  BY <1>1, <1>2, FreeOpener DEF TerminalInv, TerminalTypes, OpenerInv, Making
<1>4. ShellsInv'
  BY <1>1, <1>2 DEF TerminalInv, ShellsInv, Counted
<1>5. HoldersInv'
  BY <1>1 DEF TerminalInv, HoldersInv
<1>6. CapacityInv'
  BY <1>1, CountedShrinks DEF Counted
<1> QED
  BY <1>3, <1>4, <1>5, <1>6 DEF TerminalInv

\* Every step of the shells keeps the invariant.
LEMMA TerminalSteps == TerminalInv /\ [TerminalNext]_terminalVars => TerminalInv'
<1> SUFFICES ASSUME TerminalInv, [TerminalNext]_terminalVars PROVE TerminalInv'
  OBVIOUS
<1>1. CASE Maintain \/ UNCHANGED terminalVars
  <2>1. UNCHANGED <<shell, pending, opener, latch, live, typed, made>>
    BY <1>1 DEF Maintain, terminalVars
  <2> QED
    BY <2>1 DEF TerminalInv, TerminalTypes, OpenerInv, Making, ShellsInv, Counted, HoldersInv, CapacityInv, ActiveCount
<1>2. ASSUME NEW t \in Tabs, Calls(t) PROVE TerminalInv'
  BY <1>2, CallsKeep
<1>3. ASSUME NEW t \in Tabs, NEW q \in Requests, NEW bind \in Bindings, BeginOpen(t, q, bind) PROVE TerminalInv'
  BY <1>3, BeginOpenKeeps
<1>4. CASE \/ Attach \/ CancelOpen \/ Discard
           \/ (\E known \in BOOLEAN : Spawned(known)) \/ (\E child \in BOOLEAN : SpawnFails(child))
  BY <1>4, AttachKeeps, CancelOpenKeeps, DiscardKeeps, SpawnedKeeps, SpawnFailsKeeps
<1> QED
  BY <1>1, <1>2, <1>3, <1>4 DEF TerminalNext

\* The invariant implies what the runs check of the shells.
LEMMA TerminalInvIsEnough == TerminalInv => ShellsAreCounted
<1> SUFFICES ASSUME TerminalInv
             PROVE  /\ \A t \in Tabs : live[t] > 0 => Counted(t) \/ pending > 0
                    /\ pending = 0 => \A t \in Tabs : live[t] <= 1
                    /\ Cardinality({t \in Tabs : Counted(t)}) <= Capacity
                    /\ \A t \in Tabs : typed[t] = shell[t].seq \/ shell[t].state = "none"
  BY DEF ShellsAreCounted
<1>1. pending = 0 \/ pending = 1
  BY SameTypes
<1>2. pending = 0 => \A t \in Tabs : live[t] <= 1 /\ (live[t] > 0 => Counted(t))
  BY DEF TerminalInv, OpenerInv, ShellsInv
<1>3. Cardinality({t \in Tabs : Counted(t)}) <= Capacity
  <2>1. Cardinality({t \in Tabs : Counted(t)}) \in Nat
    BY FS_Subset, FS_CardinalityType
  <2> QED
    BY <1>1, <2>1 DEF TerminalInv, CapacityInv, ActiveCount
<1>4. \A t \in Tabs : typed[t] = shell[t].seq \/ shell[t].state = "none"
  BY DEF TerminalInv, ShellsInv
<1> QED
  BY <1>1, <1>2, <1>3, <1>4

-----------------------------------------------------------------------------
(* The library and who may read it. *)
USE LibraryAssumption

Callbacks == {"probe", "bind", "work", "parse", "reask", "publish", "answer"}
LibraryRows == [v : 0..2, at : Nat, place : {"plain", "private", "public"}, by : 0..LastTurn]
TurnRows == [st : {"none", "open", "over"}, due : BOOLEAN, late : BOOLEAN, run : HermesRun \cup {None}]
Grants == [made : BOOLEAN, files : SUBSET Files, bound : HermesRun \cup {None}]
WebRequests == [pc : Callbacks \cup {"idle", "staged", "moved"}, op : {"upload", "read", "content", "share"}, f : Files \cup {None},
                v : 0..2, place : {"plain", "private", "public"}, t : 0..LastTurn, r : HermesRun \cup {None}, files : SUBSET Files,
                again : BOOLEAN, held : BOOLEAN]
Answered == [t : Turns, r : HermesRun, f : Files, v : 0..2, held : BOOLEAN]
LibraryTypes ==
  /\ stored \in [Files -> LibraryRows] /\ disk \in Seq(1..2) /\ attached \in [Turns -> SUBSET [f : Files, v : 0..2]]
  /\ turns \in [Turns -> TurnRows] /\ runOf \in [HermesRun -> [t : 0..LastTurn, live : BOOLEAN]] /\ scope \in [Turns -> Grants]
  /\ req \in [Web -> WebRequests] /\ released \subseteq Answered /\ told \in [Files -> SUBSET (0..2)]
  /\ look \in [pc : {"off", "on", "read"}, after : Nat, seen : Seq(SUBSET Files), had : SUBSET Files]
\* Rows name bytes that are there, each its own.
BytesInv ==
  /\ Len(disk) <= MaxStored
  /\ \A f \in Files : /\ InLibrary(f) => stored[f].at \in 1..Len(disk) /\ disk[stored[f].at] = stored[f].v
                      /\ ~InLibrary(f) => told[f] = {}
                      /\ told[f] \subseteq {stored[f].v}
  /\ \A f, g \in Files : InLibrary(f) /\ InLibrary(g) /\ stored[f].at = stored[g].at => f = g
\* What is uploaded, and what was moved and has no row yet: the lock is held.
UploadsInv ==
  \A w \in Web :
    /\ req[w].pc \in {"staged", "moved"} => req[w].f \in Files /\ req[w].v # 0
    /\ req[w].pc = "moved" =>
         /\ ~InLibrary(req[w].f) /\ Len(disk) > 0 /\ disk[Len(disk)] = req[w].v
         /\ \A g \in Files : stored[g].at # Len(disk)
         /\ \A x \in Web : req[x].pc = "moved" => x = w
\* What is said of a file stays true while the file is there.
OwnedInv ==
  /\ \A t \in Turns : /\ \A a \in attached[t] : InLibrary(a.f) /\ stored[a.f].v = a.v
                      /\ \A f \in scope[t].files : InLibrary(f) /\ ~Private(f)
                      /\ scope[t].made \/ turns[t].due => turns[t].st # "none"
  /\ \A x \in released : /\ scope[x.t].made /\ scope[x.t].bound = x.r /\ turns[x.t].run = x.r /\ x.f \in scope[x.t].files
                         /\ x.held /\ x.v = stored[x.f].v
\* A callback: whose it is, what it may read, and what it has read.
Reading(q) == q.op \in {"read", "content"} /\ q.v # 0
CallInv(q) ==
  /\ q.op # "upload" /\ q.t \in Turns /\ q.r \in HermesRun /\ q.f \in Files /\ scope[q.t].made /\ q.files \subseteq scope[q.t].files
  /\ runOf[q.r].t = q.t
  /\ q.pc \in {"work", "parse", "reask", "publish", "answer"} \/ q.again => scope[q.t].bound = q.r /\ turns[q.t].run = q.r
  /\ q.pc \in {"work", "parse"} => ~q.again
  /\ q.pc = "parse" => q.op = "read" /\ q.f \in q.files
  /\ Reading(q) => q.f \in q.files /\ q.v = stored[q.f].v /\ (RunLives(q.r) /\ Granted(q.t) => q.held)
  /\ Reading(q) /\ q.pc = "bind" /\ q.again => (Granted(q.t) => q.held)
  /\ q.pc \in {"work", "parse"} \/ (q.pc \in {"probe", "bind"} /\ ~q.again) => q.v = 0
  /\ q.op = "share" /\ (q.again \/ q.pc = "reask") => q.v # 0
  /\ q.pc = "answer" => q.op # "share" /\ (Reading(q) => q.held)
  /\ q.pc = "publish" => q.op = "share" /\ q.again
CallsInv == \A w \in Web : req[w].pc \in Callbacks => CallInv(req[w])
\* A reading of the library is below its cursor what it has still to show.
LookInv ==
  /\ \A f \in look.had : InLibrary(f)
  /\ \A i \in DOMAIN look.seen : \A f \in look.seen[i] : InLibrary(f) /\ (look.pc = "on" => stored[f].at >= look.after)
  /\ \A i, j \in DOMAIN look.seen : i # j => look.seen[i] \cap look.seen[j] = {}
  /\ look.pc = "on" => \A f \in look.had : stored[f].at >= look.after => \E i \in DOMAIN look.seen : f \in look.seen[i]
  /\ look.pc = "read" => \A f \in look.had : \E i \in DOMAIN look.seen : f \in look.seen[i]
LibraryInv == LibraryTypes /\ BytesInv /\ UploadsInv /\ OwnedInv /\ CallsInv /\ LookInv

\* Nothing was stored, asked or read.
LEMMA LibraryBegins == LibraryInit => LibraryInv
<1> SUFFICES ASSUME LibraryInit PROVE LibraryInv
  OBVIOUS
<1>1. NoFile \in LibraryRows /\ NoTurn \in TurnRows /\ NoScope \in Grants /\ NoReq \in WebRequests
  BY DEF NoFile, LibraryRows, NoTurn, TurnRows, NoScope, Grants, NoReq, WebRequests
<1>2. look \in [pc : {"off", "on", "read"}, after : Nat, seen : Seq(SUBSET Files), had : SUBSET Files]
  BY DEF LibraryInit, NotLooking
<1>3. LibraryTypes
  BY <1>1, <1>2 DEF LibraryInit, LibraryTypes
<1>4. BytesInv /\ UploadsInv /\ OwnedInv
  BY DEF LibraryInit, BytesInv, InLibrary, NoFile, UploadsInv, NoReq, OwnedInv, NoScope, NoTurn
<1>5. CallsInv /\ LookInv
  BY DEF LibraryInit, CallsInv, NoReq, Callbacks, LookInv, NotLooking
<1> QED
  BY <1>3, <1>4, <1>5 DEF LibraryInv

-----------------------------------------------------------------------------
(* What every step does: files stay, grants grow, what is over stays over.  *)
FilesStay ==
  \A f \in Files : InLibrary(f) => /\ stored'[f].v = stored[f].v /\ stored'[f].at = stored[f].at
                                   /\ ~Private(f) => stored'[f].place # "private"
GrantStays(t) ==
  /\ scope'[t].made /\ scope[t].files \subseteq scope'[t].files
  /\ scope[t].bound # None => scope'[t].bound = scope[t].bound
  /\ turns[t].run # None => turns'[t].run = turns[t].run
  /\ Granted(t)' => Granted(t)
GrantsStay == \A t \in Turns : scope[t].made => GrantStays(t)
RunsStay == \A r \in HermesRun : runOf[r].t # 0 => runOf'[r].t = runOf[r].t /\ (runOf'[r].live => runOf[r].live)
GoesOn == FilesStay /\ GrantsStay /\ RunsStay

\* A file of a grant is in the library.
LEMMA GrantedFileIsThere ==
  ASSUME LibraryInv, NEW t \in Turns, NEW f \in scope[t].files
  PROVE  f \in Files /\ InLibrary(f) /\ ~Private(f)
BY DEF LibraryInv, LibraryTypes, Grants, OwnedInv

\* What was known of a callback stays true.
LEMMA CallGoesOn ==
  ASSUME LibraryInv, GoesOn, NEW q \in WebRequests, CallInv(q)
  PROVE  CallInv(q)'
<1>1. /\ q.op # "upload" /\ q.t \in Turns /\ q.r \in HermesRun /\ q.f \in Files /\ scope[q.t].made /\ q.files \subseteq scope[q.t].files
      /\ runOf[q.r].t = q.t /\ q.t # 0
  BY DEF CallInv, Turns
<1>2. GrantStays(q.t) /\ runOf'[q.r].t = q.t /\ (runOf'[q.r].live => runOf[q.r].live)
  BY <1>1 DEF GoesOn, GrantsStay, RunsStay
<1>3. scope'[q.t].made /\ q.files \subseteq scope'[q.t].files
  BY <1>1, <1>2 DEF GrantStays
<1>4. scope[q.t].bound = q.r /\ turns[q.t].run = q.r => scope'[q.t].bound = q.r /\ turns'[q.t].run = q.r
  BY <1>1, <1>2 DEF GrantStays
<1>5. q.f \in q.files => stored'[q.f].v = stored[q.f].v
  BY <1>1, GrantedFileIsThere DEF GoesOn, FilesStay
<1>6. (Granted(q.t)' => Granted(q.t)) /\ (RunLives(q.r)' => RunLives(q.r))
  BY <1>2 DEF GrantStays, RunLives
<1>7. /\ Reading(q) => q.f \in q.files /\ q.v = stored'[q.f].v /\ (RunLives(q.r)' /\ Granted(q.t)' => q.held)
      /\ Reading(q) /\ q.pc = "bind" /\ q.again => (Granted(q.t)' => q.held)
  BY <1>5, <1>6 DEF CallInv
<1>8. /\ q.pc \in {"work", "parse", "reask", "publish", "answer"} \/ q.again => scope'[q.t].bound = q.r /\ turns'[q.t].run = q.r
  BY <1>4 DEF CallInv
<1> QED
  BY <1>1, <1>2, <1>3, <1>7, <1>8 DEF CallInv, Reading


\* So of all the callbacks in progress.
LEMMA CallsKnown ==
  ASSUME req' \in [Web -> WebRequests],
         \A w \in Web, q \in WebRequests : q = req'[w] /\ q.pc \in Callbacks => CallInv(q)'
  PROVE  CallsInv'
<1> SUFFICES ASSUME NEW w \in Web, req'[w].pc \in Callbacks PROVE CallInv(req[w])'
  BY DEF CallsInv
<1>1. PICK q \in WebRequests : q = req'[w]
  OBVIOUS
<1>2. CallInv(q)'
  BY <1>1
<1> QED
  BY <1>1, <1>2 DEF CallInv, Reading

\* A step that changes one request.
LEMMA OneCallChanges ==
  ASSUME LibraryInv, GoesOn, NEW w \in Web, NEW x \in WebRequests, req' = [req EXCEPT ![w] = x],
         x.pc \in Callbacks => CallInv(x)'
  PROVE  CallsInv' /\ req' \in [Web -> WebRequests]
<1>1. req \in [Web -> WebRequests]
  BY DEF LibraryInv, LibraryTypes
<1>2. req' \in [Web -> WebRequests]
  BY <1>1
<1>3. ASSUME NEW v \in Web, NEW q \in WebRequests, q = req'[v], q.pc \in Callbacks PROVE CallInv(q)'
  <2>1. CASE v = w
    <3>1. q = x
      BY <1>1, <1>3, <2>1
    <3> QED
      BY <1>3, <3>1
  <2>2. CASE v # w
    <3>1. q = req[v]
      BY <1>1, <1>3, <2>2
    <3>2. CallInv(q)
      BY <1>3, <3>1 DEF LibraryInv, CallsInv
    <3> QED
      BY <3>2, CallGoesOn
  <2> QED
    BY <2>1, <2>2
<1> QED
  BY <1>2, <1>3, CallsKnown

\* A step that changes none.
LEMMA NoCallChanges ==
  ASSUME LibraryInv, GoesOn, UNCHANGED req
  PROVE  CallsInv'
<1>1. req' \in [Web -> WebRequests]
  BY DEF LibraryInv, LibraryTypes
<1>2. ASSUME NEW v \in Web, NEW q \in WebRequests, q = req'[v], q.pc \in Callbacks PROVE CallInv(q)'
  <2>1. CallInv(q)
    BY <1>2 DEF LibraryInv, CallsInv
  <2> QED
    BY <2>1, CallGoesOn
<1> QED
  BY <1>1, <1>2, CallsKnown

\* What was attached and answered stays as it was; a grant says which files it
\* has gained.
LEMMA OwnedGoesOn ==
  ASSUME LibraryInv, GoesOn, UNCHANGED released,
         \A t \in Turns : \A a \in attached'[t] : a \in attached[t] \/ (InLibrary(a.f)' /\ a.f \in Files /\ stored'[a.f].v = a.v),
         \A t \in Turns : \A f \in scope'[t].files :
           f \in scope[t].files \/ (f \in Files /\ InLibrary(f)' /\ stored'[f].place # "private"),
         \A t \in Turns : scope'[t].made \/ turns'[t].due => turns'[t].st # "none"
  PROVE  OwnedInv'
<1>1. ASSUME NEW t \in Turns, NEW a \in attached'[t] PROVE stored'[a.f].at # 0 /\ stored'[a.f].v = a.v
  <2>1. CASE a \in attached[t]
    <3>1. a.f \in Files /\ InLibrary(a.f) /\ stored[a.f].v = a.v
      BY <2>1 DEF LibraryInv, LibraryTypes, OwnedInv
    <3> QED
      BY <3>1 DEF GoesOn, FilesStay, InLibrary
  <2> QED
    BY <2>1 DEF InLibrary
<1>2. ASSUME NEW t \in Turns, NEW f \in scope'[t].files PROVE stored'[f].at # 0 /\ stored'[f].place # "private"
  <2>1. CASE f \in scope[t].files
    <3>1. f \in Files /\ InLibrary(f) /\ ~Private(f)
      BY <2>1, GrantedFileIsThere
    <3> QED
      BY <3>1 DEF GoesOn, FilesStay, InLibrary
  <2> QED
    BY <1>2, <2>1 DEF InLibrary
<1>3. ASSUME NEW x \in released
      PROVE  /\ scope'[x.t].made /\ scope'[x.t].bound = x.r /\ turns'[x.t].run = x.r /\ x.f \in scope'[x.t].files
             /\ x.held /\ x.v = stored'[x.f].v
  <2>1. x.t \in Turns /\ x.r \in HermesRun /\ x.f \in Files
    BY DEF LibraryInv, LibraryTypes, Answered
  <2>2. /\ scope[x.t].made /\ scope[x.t].bound = x.r /\ turns[x.t].run = x.r /\ x.f \in scope[x.t].files
        /\ x.held /\ x.v = stored[x.f].v
    BY DEF LibraryInv, OwnedInv
  <2>3. GrantStays(x.t)
    BY <2>1, <2>2 DEF GoesOn, GrantsStay
  <2>4. InLibrary(x.f)
    BY <2>1, <2>2, GrantedFileIsThere
  <2>5. stored'[x.f].v = stored[x.f].v
    BY <2>1, <2>4 DEF GoesOn, FilesStay
  <2> QED
    BY <2>1, <2>2, <2>3, <2>5 DEF GrantStays
<1> QED
  BY <1>1, <1>2, <1>3 DEF OwnedInv, InLibrary, Private

\* A reading of the library that does not go on.
LEMMA LookGoesOn ==
  ASSUME LibraryInv, FilesStay, UNCHANGED look
  PROVE  LookInv'
<1>1. look.had \subseteq Files /\ look.seen \in Seq(SUBSET Files)
  BY DEF LibraryInv, LibraryTypes
<1>2. \A i \in DOMAIN look.seen : look.seen[i] \subseteq Files
  BY <1>1
<1>3. \A f \in look.had : InLibrary(f)' /\ stored'[f].at = stored[f].at
  BY <1>1 DEF LibraryInv, LookInv, FilesStay, InLibrary
<1>4. \A i \in DOMAIN look.seen : \A f \in look.seen[i] : InLibrary(f)' /\ (look.pc = "on" => stored'[f].at >= look.after)
  BY <1>2 DEF LibraryInv, LookInv, FilesStay, InLibrary
<1> QED
  BY <1>3, <1>4 DEF LibraryInv, LookInv

-----------------------------------------------------------------------------
CallAlone == UNCHANGED <<stored, disk, attached, turns, runOf, scope, released, told, look>>
\* A request goes on and nothing else does.
LEMMA CallKeeps ==
  ASSUME LibraryInv, NEW w \in Web, NEW x \in WebRequests, req' = [req EXCEPT ![w] = x], CallAlone,
         x.pc \in {"idle", "staged"} \cup Callbacks, x.pc = "staged" => x.f \in Files /\ x.v # 0,
         x.pc \in Callbacks => CallInv(x)
  PROVE  LibraryInv'
<1>1. GoesOn
  BY DEF CallAlone, GoesOn, FilesStay, GrantsStay, GrantStays, RunsStay, Granted, Private
<1>2. CallInv(x) => CallInv(x)'
  BY <1>1, CallGoesOn
<1>3. CallsInv' /\ req' \in [Web -> WebRequests]
  BY <1>1, <1>2, OneCallChanges
<1>4. LibraryTypes'
  BY <1>3 DEF CallAlone, LibraryInv, LibraryTypes
<1>5. BytesInv'
  BY DEF CallAlone, LibraryInv, BytesInv, InLibrary
<1>6. UploadsInv'
  <2>1. req'[w] = x /\ \A v \in Web : v # w => req'[v] = req[v]
    BY DEF LibraryInv, LibraryTypes
  <2>2. x.pc # "moved"
    BY DEF Callbacks
  <2> QED
    BY <2>1, <2>2 DEF CallAlone, LibraryInv, UploadsInv, InLibrary
<1>7. OwnedInv'
  BY <1>1, OwnedGoesOn DEF CallAlone, LibraryInv, OwnedInv
<1>8. LookInv'
  BY <1>1, LookGoesOn DEF CallAlone, GoesOn
<1> QED
  BY <1>3, <1>4, <1>5, <1>6, <1>7, <1>8 DEF LibraryInv

\* What the prover needs typed of a request.
LEMMA RequestKnown ==
  ASSUME LibraryInv, NEW w \in Web
  PROVE  /\ req[w] \in WebRequests /\ (req[w].pc \in Callbacks => CallInv(req[w]))
         /\ NoReq \in WebRequests /\ NoReq.pc = "idle"
BY DEF LibraryInv, LibraryTypes, CallsInv, NoReq, WebRequests

\* An upload is begun, or a request ends without an answer.
LEMMA RequestsBeginAndDrop ==
  ASSUME LibraryInv, NEW w \in Web,
         (req[w].pc = "idle" /\ \E f \in Uploadable, v \in 1..2, o \in Origins : BeginUpload(w, f, v, o)) \/ Drop(w)
  PROVE  LibraryInv'
<1>1. CASE \E f \in Uploadable, v \in 1..2, o \in Origins : BeginUpload(w, f, v, o)
  <2>1. PICK f \in Uploadable, v \in 1..2, o \in Origins : BeginUpload(w, f, v, o)
    BY <1>1
  <2>2. o.place \in {"plain", "private", "public"} /\ o.r \in HermesRun \cup {None}
    BY DEF Origins
  <2>3. PICK x \in WebRequests : x = [NoReq EXCEPT !.pc = "staged", !.f = f, !.v = v, !.place = o.place, !.r = o.r]
    <3>1. f \in Files /\ v \in 0..2 /\ NoReq \in WebRequests
      BY RequestKnown DEF Files
    <3>2. PICK y1 \in WebRequests : y1 = [NoReq EXCEPT !.pc = "staged"]
      BY <3>1 DEF WebRequests
    <3>3. PICK y2 \in WebRequests : y2 = [y1 EXCEPT !.f = f]
      BY <3>1 DEF WebRequests
    <3>4. PICK y3 \in WebRequests : y3 = [y2 EXCEPT !.v = v]
      BY <3>1 DEF WebRequests
    <3>5. PICK y4 \in WebRequests : y4 = [y3 EXCEPT !.place = o.place]
      BY ZenonT(40), <2>2 DEF WebRequests
    <3>6. PICK y5 \in WebRequests : y5 = [y4 EXCEPT !.r = o.r]
      BY <2>2 DEF WebRequests
    <3> QED
      BY <3>2, <3>3, <3>4, <3>5, <3>6
  <2>4. x.pc = "staged" /\ x.f = f /\ x.v = v
    BY <2>3 DEF NoReq
  <2>5. f \in Files /\ v # 0
    BY DEF Files
  <2>6. x.pc \notin Callbacks
    BY <2>4 DEF Callbacks
  <2>7. req' = [req EXCEPT ![w] = x] /\ CallAlone
    BY <2>1, <2>3 DEF BeginUpload, CallAlone
  <2> QED
    BY <2>4, <2>5, <2>6, <2>7, CallKeeps
<1>2. CASE Drop(w)
  <2>1. NoReq \in WebRequests /\ NoReq.pc = "idle" /\ NoReq.pc \notin Callbacks
    BY RequestKnown DEF Callbacks
  <2>2. req' = [req EXCEPT ![w] = NoReq] /\ CallAlone
    BY <1>2 DEF Drop, CallAlone
  <2> QED
    BY <2>1, <2>2, CallKeeps
<1> QED
  BY <1>1, <1>2

\* A callback is asked, probed and reads.
LEMMA AskKeeps ==
  ASSUME LibraryInv, NEW w \in Web, NEW r \in HermesRun, NEW f \in Files, NEW op \in {"read", "content", "share"}, Ask(w, r, op, f)
  PROVE  LibraryInv'
<1>1. PICK t \in Turns : t = runOf[r].t
  <2>1. runOf[r].t \in 0..LastTurn /\ runOf[r].t # 0
    BY DEF LibraryInv, LibraryTypes, Ask
  <2> QED
    BY <2>1 DEF Turns
<1>2. Granted(t) /\ For(t, r) /\ scope[t].made /\ scope[t].files \subseteq Files
  BY <1>1 DEF Ask, Granted, LibraryInv, LibraryTypes, Grants
<1>3. PICK x \in WebRequests :
        /\ x = [NoReq EXCEPT !.pc = "probe", !.op = op, !.f = f, !.t = t, !.r = r, !.files = scope[t].files]
        /\ x.pc = "probe" /\ x.op = op /\ x.f = f /\ x.t = t /\ x.r = r /\ x.files = scope[t].files /\ x.v = 0 /\ x.again = FALSE
  <2>1. t \in 0..LastTurn /\ NoReq \in WebRequests
    BY RequestKnown DEF Turns
  <2>2. PICK y1 \in WebRequests : y1 = [NoReq EXCEPT !.pc = "probe"]
    BY <2>1 DEF WebRequests, Callbacks
  <2>3. PICK y2 \in WebRequests : y2 = [y1 EXCEPT !.op = op]
    BY DEF WebRequests
  <2>4. PICK y3 \in WebRequests : y3 = [y2 EXCEPT !.f = f]
    BY DEF WebRequests
  <2>5. PICK y4 \in WebRequests : y4 = [y3 EXCEPT !.t = t]
    BY <2>1 DEF WebRequests
  <2>6. PICK y5 \in WebRequests : y5 = [y4 EXCEPT !.r = r]
    BY DEF WebRequests
  <2>7. PICK y6 \in WebRequests : y6 = [y5 EXCEPT !.files = scope[t].files]
    BY ZenonT(40), <1>2 DEF WebRequests
  <2>8. y6 = [NoReq EXCEPT !.pc = "probe", !.op = op, !.f = f, !.t = t, !.r = r, !.files = scope[t].files]
    BY <2>2, <2>3, <2>4, <2>5, <2>6, <2>7
  <2>9. y6.pc = "probe" /\ y6.op = op /\ y6.f = f /\ y6.t = t /\ y6.r = r /\ y6.files = scope[t].files
    BY <2>1, <2>8 DEF WebRequests
  <2>10. y6.v = 0 /\ y6.again = FALSE
    BY <2>8 DEF NoReq
  <2> QED
    BY <2>8, <2>9, <2>10
<1>4. req' = [req EXCEPT ![w] = x] /\ CallAlone
  BY <1>1, <1>3 DEF Ask, Callback, CallAlone
<1>5. CallInv(x)
  BY <1>1, <1>2, <1>3 DEF CallInv, Reading
<1>6. x.pc \in Callbacks /\ x.pc # "staged"
  BY <1>3 DEF Callbacks
<1> QED
  BY <1>4, <1>5, <1>6, CallKeeps

\* A callback only moves on.
LEMMA PcKeeps ==
  ASSUME LibraryInv, NEW w \in Web, NEW pc \in Callbacks, req' = [req EXCEPT ![w].pc = pc], CallAlone,
         req[w].pc \in Callbacks,
         \/ pc = "bind" /\ req[w].pc = "probe" /\ RunLives(req[w].r)
         \/ pc \in {"parse", "reask"} /\ req[w].pc = "work" /\ req[w].op = "read" /\ req[w].f \in req[w].files
  PROVE  LibraryInv'
<1>1. req[w] \in WebRequests /\ CallInv(req[w])
  BY RequestKnown
<1>2. PICK q \in WebRequests : q = req[w]
  BY <1>1
<1>3. PICK x \in WebRequests : x = [q EXCEPT !.pc = pc]
  BY <1>2 DEF WebRequests
<1>4. req' = [req EXCEPT ![w] = x]
  BY <1>2, <1>3
<1>5. /\ x.pc = pc /\ x.op = q.op /\ x.f = q.f /\ x.v = q.v /\ x.t = q.t /\ x.r = q.r /\ x.files = q.files
      /\ x.again = q.again /\ x.held = q.held
  BY <1>2, <1>3 DEF WebRequests
<1>6. CallInv(x)
  BY <1>1, <1>2, <1>5 DEF CallInv, Reading
<1>7. pc # "staged"
  BY DEF Callbacks
<1> QED
  BY <1>4, <1>5, <1>6, <1>7, CallKeeps

\* The prover's form of one update.
LEMMA HeldTyped == ASSUME NEW z \in WebRequests, NEW h \in BOOLEAN PROVE \E a \in WebRequests : a = [z EXCEPT !.held = h]
<1>1. [z EXCEPT !.held = h] \in WebRequests
  BY DEF WebRequests
<1> QED
  BY <1>1

\* What a callback reads are the bytes of a file of its grant.
LEMMA TookKeeps ==
  ASSUME LibraryInv, NEW w \in Web, Took(w), CallAlone, req[w].pc \in {"work", "parse"}, req[w].op \in {"read", "content"},
         req[w].f \in req[w].files
  PROVE  LibraryInv'
<1>1. req[w] \in WebRequests /\ CallInv(req[w])
  BY RequestKnown DEF Callbacks
<1>2. PICK q \in WebRequests : q = req[w]
  BY <1>1
<1>3. /\ q.t \in Turns /\ q.f \in scope[q.t].files
  BY <1>1, <1>2 DEF CallInv
<1>4. q.f \in Files /\ InLibrary(q.f)
  BY <1>3, GrantedFileIsThere
<1>5. disk[stored[q.f].at] = stored[q.f].v /\ stored[q.f].v \in 0..2
  BY <1>4 DEF LibraryInv, BytesInv, LibraryTypes, LibraryRows
<1>6. Held(q) \in BOOLEAN
  BY <1>1, <1>2 DEF Held, Granted, RunLives, CallInv, LibraryInv, LibraryTypes
<1>7. PICK x \in WebRequests : x = [[[q EXCEPT !.pc = "reask"] EXCEPT !.v = stored[q.f].v] EXCEPT !.held = Held(q)]
  <2>1. PICK y \in WebRequests : y = [q EXCEPT !.pc = "reask"]
    BY DEF WebRequests, Callbacks
  <2>2. PICK z \in WebRequests : z = [y EXCEPT !.v = stored[q.f].v]
    BY <1>5 DEF WebRequests
  <2>3. PICK h \in BOOLEAN : h = Held(q)
    BY <1>6
  <2>4. PICK a \in WebRequests : a = [z EXCEPT !.held = h]
    BY HeldTyped
  <2> QED
    BY <2>1, <2>2, <2>3, <2>4
<1>8. req' = [req EXCEPT ![w] = x]
  <2>1. req \in [Web -> WebRequests]
    BY DEF LibraryInv, LibraryTypes
  <2>2. req' = [req EXCEPT ![w] = [[[req[w] EXCEPT !.pc = "reask"] EXCEPT !.v = disk[stored[req[w].f].at]] EXCEPT !.held = Held(req[w])]]
    BY <2>1 DEF Took
  <2> QED
    BY <1>2, <1>5, <1>7, <2>2
<1>9. /\ x.pc = "reask" /\ x.op = q.op /\ x.f = q.f /\ x.v = stored[q.f].v /\ x.t = q.t /\ x.r = q.r /\ x.files = q.files
      /\ x.again = q.again
  BY <1>7 DEF WebRequests
<1>10. x.held = Held(q)
  BY <1>7 DEF WebRequests
<1>11. CallInv(x)
  <2>1. Reading(x) => x.f \in x.files /\ x.v = stored[x.f].v
    BY <1>2, <1>9
  <2>2. RunLives(x.r) /\ Granted(x.t) => x.held
    BY <1>9, <1>10 DEF Held
  <2>3. ~x.again
    BY <1>1, <1>2, <1>9 DEF CallInv
  <2> QED
    BY <1>1, <1>2, <1>9, <2>1, <2>2, <2>3 DEF CallInv
<1>12. x.pc \in Callbacks /\ x.pc # "staged"
  BY <1>9 DEF Callbacks
<1> QED
  BY <1>8, <1>11, <1>12, CallKeeps

\* A text is staged; and what was done is authorised a second time.
LEMMA ReaskKeeps ==
  ASSUME LibraryInv, NEW w \in Web, StageText(w) \/ Reask(w)
  PROVE  LibraryInv'
<1>1. req[w] \in WebRequests /\ CallInv(req[w])
  BY RequestKnown DEF Callbacks, StageText, Reask
<1>2. PICK q \in WebRequests : q = req[w]
  BY <1>1
<1>3. CASE StageText(w)
  <2>1. PICK x \in WebRequests : x = [[q EXCEPT !.pc = "reask"] EXCEPT !.v = 1]
    <3>1. PICK y \in WebRequests : y = [q EXCEPT !.pc = "reask"]
      BY DEF WebRequests, Callbacks
    <3>2. 1 \in 0..2
      OBVIOUS
    <3>3. PICK z \in WebRequests : z = [y EXCEPT !.v = 1]
      BY <3>2 DEF WebRequests
    <3> QED
      BY <3>1, <3>3
  <2>2. req' = [req EXCEPT ![w] = x] /\ CallAlone
    <3>1. req \in [Web -> WebRequests]
      BY DEF LibraryInv, LibraryTypes
    <3> QED
      BY ZenonT(40), <1>2, <1>3, <2>1, <3>1 DEF StageText, CallAlone, Callback, WebRequests
  <2>3. /\ x.pc = "reask" /\ x.op = q.op /\ x.f = q.f /\ x.v = 1 /\ x.t = q.t /\ x.r = q.r /\ x.files = q.files
        /\ x.again = q.again /\ q.op = "share" /\ q.pc = "work"
    BY <1>2, <1>3, <2>1 DEF WebRequests, StageText
  <2>4. CallInv(x)
    BY <1>1, <1>2, <2>3 DEF CallInv, Reading
  <2>5. x.pc \in Callbacks /\ x.pc # "staged"
    BY <2>3 DEF Callbacks
  <2> QED
    BY <2>2, <2>4, <2>5, CallKeeps
<1>4. CASE Reask(w) /\ ~(Granted(q.t) /\ For(q.t, q.r))
  <2>1. Reauthorised(q).pc = "idle"
    BY <1>4 DEF Reauthorised, WebRequests
  <2>2. req' = [req EXCEPT ![w] = NoReq] /\ CallAlone
    <3>1. req \in [Web -> WebRequests]
      BY DEF LibraryInv, LibraryTypes
    <3> QED
      BY <1>2, <1>4, <2>1, <3>1 DEF Reask, CallAlone, Callback
  <2>3. NoReq \in WebRequests /\ NoReq.pc = "idle" /\ NoReq.pc \notin Callbacks
    BY RequestKnown DEF Callbacks
  <2> QED
    BY <2>2, <2>3, CallKeeps
<1>5. CASE Reask(w) /\ Granted(q.t) /\ For(q.t, q.r)
  <2>1. PICK x \in WebRequests : x = [[q EXCEPT !.pc = "probe"] EXCEPT !.again = TRUE]
    <3>1. PICK y \in WebRequests : y = [q EXCEPT !.pc = "probe"]
      BY DEF WebRequests, Callbacks
    <3> QED
      BY <3>1 DEF WebRequests
  <2>2. Reauthorised(q) = x
    BY <1>5, <2>1 DEF Reauthorised, WebRequests
  <2>3. /\ x.pc = "probe" /\ x.op = q.op /\ x.f = q.f /\ x.v = q.v /\ x.t = q.t /\ x.r = q.r /\ x.files = q.files
        /\ x.again = TRUE /\ x.held = q.held /\ q.pc = "reask"
    BY <1>2, <1>5, <2>1 DEF WebRequests, Reask
  <2>4. req' = [req EXCEPT ![w] = x] /\ CallAlone
    <3>1. req \in [Web -> WebRequests]
      BY DEF LibraryInv, LibraryTypes
    <3> QED
      BY <1>2, <1>5, <2>2, <2>3, <3>1 DEF Reask, CallAlone, Callback
  <2>5. CallInv(x)
    BY <1>1, <1>2, <2>3 DEF CallInv, Reading
  <2>6. x.pc \in Callbacks /\ x.pc # "staged"
    BY <2>3 DEF Callbacks
  <2> QED
    BY <2>4, <2>5, <2>6, CallKeeps
<1> QED
  BY <1>3, <1>4, <1>5

\* A grant serves the run that asks, once that is known to be live.
LEMMA BindKeeps ==
  ASSUME LibraryInv, NEW w \in Web, Bind(w)
  PROVE  LibraryInv'
<1>1. req[w] \in WebRequests /\ CallInv(req[w]) /\ req \in [Web -> WebRequests]
  BY RequestKnown DEF Callbacks, Bind, LibraryInv, LibraryTypes
<1>2. PICK q \in WebRequests : q = req[w]
  BY <1>1
<1>3. /\ q.pc = "bind" /\ Granted(q.t) /\ For(q.t, q.r) /\ q.t \in Turns /\ q.r \in HermesRun
      /\ scope' = [scope EXCEPT ![q.t].bound = q.r] /\ turns' = [turns EXCEPT ![q.t].run = q.r]
      /\ UNCHANGED <<stored, disk, attached, runOf, released, told, look>> /\ q.r # None
  BY <1>1, <1>2 DEF Bind, Callback, CallInv
<1>4. scope \in [Turns -> Grants] /\ turns \in [Turns -> TurnRows]
  BY DEF LibraryInv, LibraryTypes
<1>5. scope' \in [Turns -> Grants] /\ turns' \in [Turns -> TurnRows]
  BY SMTT(20), <1>3, <1>4 DEF Grants, TurnRows
<1>6. \A t \in Turns : scope'[t].made = scope[t].made /\ scope'[t].files = scope[t].files /\ turns'[t].st = turns[t].st
                       /\ turns'[t].late = turns[t].late /\ turns'[t].due = turns[t].due
  BY <1>3, <1>4 DEF Grants, TurnRows
<1>7. scope'[q.t].bound = q.r /\ turns'[q.t].run = q.r
  BY <1>3, <1>4 DEF Grants, TurnRows
<1>8. \A t \in Turns : t # q.t => scope'[t] = scope[t] /\ turns'[t] = turns[t]
  BY <1>3, <1>4
<1>9. GoesOn
  <2>1. ASSUME NEW t \in Turns, scope[t].made PROVE GrantStays(t)
    <3>1. Granted(t)' => Granted(t)
      BY <1>6 DEF Granted
    <3>2. scope[t].bound # None => scope'[t].bound = scope[t].bound
      BY <1>3, <1>7, <1>8 DEF For
    <3>3. turns[t].run # None => turns'[t].run = turns[t].run
      BY <1>3, <1>7, <1>8 DEF For
    <3> QED
      BY <1>6, <2>1, <3>1, <3>2, <3>3 DEF GrantStays
  <2> QED
    BY <1>3, <2>1 DEF GoesOn, GrantsStay, FilesStay, RunsStay, Private
<1>10. PICK pc \in {"work", "publish", "answer"} : pc = AfterBind(q)
  BY DEF AfterBind
<1>11. PICK x \in WebRequests : x = [q EXCEPT !.pc = pc]
  BY DEF WebRequests, Callbacks
<1>12. req' = [req EXCEPT ![w] = x]
  BY <1>1, <1>2, <1>10, <1>11 DEF Bind
<1>13. /\ x.pc = pc /\ x.op = q.op /\ x.f = q.f /\ x.v = q.v /\ x.t = q.t /\ x.r = q.r /\ x.files = q.files
       /\ x.again = q.again /\ x.held = q.held
  BY <1>11 DEF WebRequests
<1>14. CallInv(q)'
  BY <1>1, <1>2, <1>9, CallGoesOn
<1>15. Reading(q) /\ q.again => q.held
  BY <1>1, <1>2, <1>3 DEF CallInv
<1>16. /\ pc = "work" <=> ~q.again
       /\ pc = "publish" <=> q.again /\ q.op = "share"
       /\ pc = "answer" <=> q.again /\ q.op # "share"
  BY <1>10 DEF AfterBind
<1>17. CallInv(x)'
  BY <1>1, <1>2, <1>3, <1>7, <1>13, <1>14, <1>15, <1>16 DEF CallInv, Reading
<1>18. CallsInv' /\ req' \in [Web -> WebRequests]
  BY <1>9, <1>12, <1>17, OneCallChanges
<1>19. LibraryTypes'
  BY <1>3, <1>5, <1>18 DEF LibraryInv, LibraryTypes
<1>20. BytesInv'
  BY <1>3 DEF LibraryInv, BytesInv, InLibrary
<1>21. UploadsInv'
  <2>1. req'[w] = x /\ \A v \in Web : v # w => req'[v] = req[v]
    BY <1>1, <1>12
  <2> QED
    BY SMTT(20), <1>3, <1>10, <1>13, <2>1 DEF LibraryInv, UploadsInv, InLibrary
<1>22. OwnedInv'
  BY SMTT(20), <1>3, <1>6, <1>9, OwnedGoesOn DEF LibraryInv, OwnedInv
<1>23. LookInv'
  BY <1>3, <1>9, LookGoesOn DEF GoesOn
<1> QED
  BY <1>18, <1>19, <1>20, <1>21, <1>22, <1>23 DEF LibraryInv

\* A callback is answered what it had read.
LEMMA AnswerKeeps ==
  ASSUME LibraryInv, NEW w \in Web, GiveAnswer(w)
  PROVE  LibraryInv'
<1>1. req[w] \in WebRequests /\ CallInv(req[w]) /\ req \in [Web -> WebRequests]
  BY RequestKnown DEF Callbacks, GiveAnswer, LibraryInv, LibraryTypes
<1>2. PICK q \in WebRequests : q = req[w]
  BY <1>1
<1>3. /\ q.pc = "answer" /\ req' = [req EXCEPT ![w] = NoReq]
      /\ released' = IF q.v = 0 THEN released ELSE released \cup {[t |-> q.t, r |-> q.r, f |-> q.f, v |-> q.v, held |-> q.held]}
      /\ UNCHANGED <<stored, disk, attached, turns, runOf, scope, told, look>>
  BY <1>2 DEF GiveAnswer, Callback
<1>4. /\ q.t \in Turns /\ q.r \in HermesRun /\ q.f \in Files /\ scope[q.t].made /\ q.files \subseteq scope[q.t].files
      /\ scope[q.t].bound = q.r /\ turns[q.t].run = q.r /\ q.op \in {"read", "content"}
      /\ q.v # 0 => q.f \in q.files /\ q.v = stored[q.f].v /\ q.held
  BY <1>1, <1>2, <1>3 DEF CallInv, Reading, WebRequests
<1>5. GoesOn
  BY <1>3 DEF GoesOn, FilesStay, GrantsStay, GrantStays, RunsStay, Granted, Private
<1>6. NoReq \in WebRequests /\ NoReq.pc = "idle" /\ NoReq.pc \notin Callbacks
  BY RequestKnown DEF Callbacks
<1>7. CallsInv' /\ req' \in [Web -> WebRequests]
  BY <1>3, <1>5, <1>6, OneCallChanges
<1>8. released' \subseteq Answered
  <2>1. released \subseteq Answered /\ q.v \in 0..2 /\ q.held \in BOOLEAN
    BY DEF LibraryInv, LibraryTypes, WebRequests
  <2>2. [t |-> q.t, r |-> q.r, f |-> q.f, v |-> q.v, held |-> q.held] \in Answered
    BY <1>4, <2>1 DEF Answered
  <2> QED
    BY <1>3, <2>1, <2>2
<1>9. LibraryTypes'
  BY <1>3, <1>7, <1>8 DEF LibraryInv, LibraryTypes
<1>10. BytesInv'
  BY <1>3 DEF LibraryInv, BytesInv, InLibrary
<1>11. UploadsInv'
  <2>1. req'[w] = NoReq /\ \A v \in Web : v # w => req'[v] = req[v]
    BY <1>1, <1>3
  <2> QED
    BY <1>3, <1>6, <2>1 DEF LibraryInv, UploadsInv, InLibrary
<1>12. OwnedInv'
  <2>1. \A t \in Turns : /\ \A a \in attached'[t] : InLibrary(a.f)' /\ stored'[a.f].v = a.v
                         /\ \A f \in scope'[t].files : InLibrary(f)' /\ ~Private(f)'
                         /\ scope'[t].made \/ turns'[t].due => turns'[t].st # "none"
    BY <1>3 DEF LibraryInv, OwnedInv, InLibrary, Private
  <2>2. ASSUME NEW y \in released'
        PROVE  /\ scope'[y.t].made /\ scope'[y.t].bound = y.r /\ turns'[y.t].run = y.r /\ y.f \in scope'[y.t].files
               /\ y.held /\ y.v = stored'[y.f].v
    <3>1. CASE y \in released
      BY <1>3, <3>1 DEF LibraryInv, OwnedInv
    <3>2. CASE y = [t |-> q.t, r |-> q.r, f |-> q.f, v |-> q.v, held |-> q.held] /\ q.v # 0
      <4>1. y.t = q.t /\ y.r = q.r /\ y.f = q.f /\ y.v = q.v /\ y.held = q.held
        BY <3>2
      <4>2. y.held
        BY <1>4, <3>2, <4>1
      <4>3. q.f \in scope[q.t].files
        BY <1>4, <3>2
      <4> QED
        BY <1>3, <1>4, <3>2, <4>1, <4>2, <4>3
    <3> QED
      BY <1>3, <2>2, <3>1, <3>2
  <2> QED
    BY <2>1, <2>2 DEF OwnedInv
<1>13. LookInv'
  BY <1>3, <1>5, LookGoesOn DEF GoesOn
<1> QED
  BY <1>7, <1>9, <1>10, <1>11, <1>12, <1>13 DEF LibraryInv

-----------------------------------------------------------------------------
\* Bytes are moved in under the lock.
LEMMA MoveKeeps ==
  ASSUME LibraryInv, NEW w \in Web, Writable, req[w].f \in Files, req[w].v # 0, ~InLibrary(req[w].f), Len(disk) < MaxStored,
         disk' = Append(disk, req[w].v), req' = [req EXCEPT ![w].pc = "moved"],
         UNCHANGED <<stored, attached, turns, runOf, scope, released, told, look>>
  PROVE  LibraryInv'
<1>1. req[w] \in WebRequests /\ req \in [Web -> WebRequests] /\ disk \in Seq(1..2)
  BY DEF LibraryInv, LibraryTypes
<1>2. PICK q \in WebRequests : q = req[w]
  BY <1>1
<1>3. PICK x \in WebRequests : x = [q EXCEPT !.pc = "moved"]
  BY DEF WebRequests
<1>4. req' = [req EXCEPT ![w] = x] /\ x.pc = "moved" /\ x.f = q.f /\ x.v = q.v /\ q.v \in 1..2
  <2>1. q.v \in 0..2
    BY DEF WebRequests
  <2> QED
    BY <1>1, <1>2, <1>3, <2>1 DEF WebRequests
<1>5. x.pc \notin Callbacks
  BY <1>4 DEF Callbacks
<1>6. GoesOn
  BY DEF GoesOn, FilesStay, GrantsStay, GrantStays, RunsStay, Granted, Private
<1>7. CallsInv' /\ req' \in [Web -> WebRequests]
  BY <1>4, <1>5, <1>6, OneCallChanges
<1>8. /\ disk' \in Seq(1..2) /\ Len(disk') = Len(disk) + 1 /\ Len(disk) \in Nat /\ disk'[Len(disk')] = q.v
      /\ \A i \in 1..Len(disk) : disk'[i] = disk[i]
  BY <1>1, <1>2, <1>4
<1>9. LibraryTypes'
  BY <1>7, <1>8 DEF LibraryInv, LibraryTypes
<1>10. BytesInv'
  <2>1. Len(disk') <= MaxStored
    BY <1>8 DEF LibraryInv, LibraryTypes
  <2>2. \A f \in Files : InLibrary(f) => stored[f].at \in 1..Len(disk') /\ disk'[stored[f].at] = stored[f].v
    BY <1>8 DEF LibraryInv, BytesInv
  <2> QED
    BY <2>1, <2>2 DEF LibraryInv, BytesInv, InLibrary
<1>11. UploadsInv'
  <2>1. req'[w] = x /\ \A v \in Web : v # w => req'[v] = req[v]
    BY <1>1, <1>4
  <2>2. \A v \in Web : v # w => req'[v].pc # "moved"
    BY <2>1 DEF Writable
  <2>3. \A g \in Files : stored[g].at # Len(disk')
    <3>1. \A g \in Files : stored[g].at \in Nat /\ (stored[g].at = 0 \/ stored[g].at \in 1..Len(disk))
      BY DEF LibraryInv, LibraryTypes, LibraryRows, BytesInv, InLibrary
    <3> QED
      BY <1>8, <3>1
  <2>4. ~InLibrary(x.f)' /\ x.f \in Files /\ x.v # 0 /\ Len(disk') > 0 /\ disk'[Len(disk')] = x.v
    BY <1>2, <1>4, <1>8 DEF InLibrary
  <2>5. ASSUME NEW v \in Web, req'[v].pc = "moved" PROVE v = w
    BY <2>2, <2>5
  <2>6. ASSUME NEW v \in Web
        PROVE  /\ req'[v].pc \in {"staged", "moved"} => req'[v].f \in Files /\ req'[v].v # 0
               /\ req'[v].pc = "moved" =>
                    /\ ~InLibrary(req[v].f)' /\ Len(disk') > 0 /\ disk'[Len(disk')] = req'[v].v
                    /\ \A g \in Files : stored'[g].at # Len(disk')
                    /\ \A y \in Web : req'[y].pc = "moved" => y = v
    <3>1. CASE v = w
      <4>1. req'[v] = x /\ stored' = stored
        BY <2>1, <3>1
      <4>2. ~InLibrary(req[v].f)'
        BY <2>4, <4>1 DEF InLibrary
      <4> QED
        BY <2>3, <2>4, <2>5, <3>1, <4>1, <4>2
    <3>2. CASE v # w
      <4>1. req'[v] = req[v] /\ req'[v].pc # "moved"
        BY <2>1, <2>2, <3>2
      <4> QED
        BY <4>1 DEF LibraryInv, UploadsInv
    <3> QED
      BY <3>1, <3>2
  <2> QED
    BY <2>6 DEF UploadsInv
<1>12. OwnedInv'
  BY <1>6, OwnedGoesOn DEF LibraryInv, OwnedInv
<1>13. LookInv'
  BY <1>6, LookGoesOn DEF GoesOn
<1> QED
  BY <1>7, <1>9, <1>10, <1>11, <1>12, <1>13 DEF LibraryInv

\* Who uploads what is there gets the receipt of what is there.
LEMMA ReceiptKeeps ==
  ASSUME LibraryInv, NEW w \in Web, req[w].f \in Files, InLibrary(req[w].f), Same(req[w].f, req[w].v), Receipt(w),
         req' = [req EXCEPT ![w] = NoReq], UNCHANGED <<stored, disk, attached, turns, runOf, scope, released, look>>
  PROVE  LibraryInv'
<1>1. req[w] \in WebRequests /\ req \in [Web -> WebRequests] /\ told \in [Files -> SUBSET (0..2)]
  BY DEF LibraryInv, LibraryTypes
<1>2. PICK q \in WebRequests : q = req[w]
  BY <1>1
<1>3. q.v \in 0..2 /\ q.f \in Files /\ stored[q.f].v = q.v /\ stored[q.f].at # 0
  BY <1>2 DEF WebRequests, Same, InLibrary
<1>4. /\ told' \in [Files -> SUBSET (0..2)] /\ told'[q.f] = told[q.f] \cup {q.v} /\ \A f \in Files : f # q.f => told'[f] = told[f]
  BY <1>1, <1>2, <1>3 DEF Receipt
<1>5. NoReq \in WebRequests /\ NoReq.pc = "idle" /\ NoReq.pc \notin Callbacks
  BY RequestKnown DEF Callbacks
<1>6. GoesOn
  BY DEF GoesOn, FilesStay, GrantsStay, GrantStays, RunsStay, Granted, Private
<1>7. CallsInv' /\ req' \in [Web -> WebRequests]
  BY <1>5, <1>6, OneCallChanges
<1>8. LibraryTypes'
  BY <1>4, <1>7 DEF LibraryInv, LibraryTypes
<1>9. BytesInv'
  BY <1>3, <1>4 DEF LibraryInv, BytesInv, InLibrary
<1>10. UploadsInv'
  <2>1. req'[w] = NoReq /\ \A v \in Web : v # w => req'[v] = req[v]
    BY <1>1
  <2> QED
    BY <1>5, <2>1 DEF LibraryInv, UploadsInv, InLibrary
<1>11. OwnedInv'
  BY <1>6, OwnedGoesOn DEF LibraryInv, OwnedInv
<1>12. LookInv'
  BY <1>6, LookGoesOn DEF GoesOn
<1> QED
  BY <1>7, <1>8, <1>9, <1>10, <1>11, <1>12 DEF LibraryInv

\* An upload, and a text of a run: the bytes.
LEMMA UploadMoves ==
  ASSUME LibraryInv, NEW w \in Web, MoveUpload(w) \/ PublishText(w)
  PROVE  LibraryInv'
<1>1. req[w].f \in Files /\ req[w].v # 0 /\ Writable
  <2>1. CASE MoveUpload(w)
    BY <2>1 DEF MoveUpload, LibraryInv, UploadsInv
  <2>2. CASE PublishText(w)
    <3>1. CallInv(req[w]) /\ req[w].pc = "publish"
      BY <2>2, RequestKnown DEF PublishText, Callbacks
    <3> QED
      BY <2>2, <3>1 DEF PublishText, CallInv
  <2> QED
    BY <2>1, <2>2
<1>2. CASE InLibrary(req[w].f) /\ Same(req[w].f, req[w].v) /\ Receipt(w) /\ req' = [req EXCEPT ![w] = NoReq] /\ UNCHANGED disk
  BY <1>1, <1>2, ReceiptKeeps DEF MoveUpload, PublishText, Callback
<1>3. CASE /\ ~InLibrary(req[w].f) /\ Len(disk) < MaxStored /\ disk' = Append(disk, req[w].v) /\ req' = [req EXCEPT ![w].pc = "moved"]
           /\ UNCHANGED told
  BY <1>1, <1>3, MoveKeeps DEF MoveUpload, PublishText, Callback
<1> QED
  BY <1>2, <1>3 DEF MoveUpload, PublishText

\* The row of what was moved, and what it means for the grant of its run.
LEMMA PublishKeeps ==
  ASSUME LibraryInv, NEW w \in Web, PublishUpload(w)
  PROVE  LibraryInv'
<1>1. req[w] \in WebRequests /\ req \in [Web -> WebRequests] /\ told \in [Files -> SUBSET (0..2)] /\ stored \in [Files -> LibraryRows]
  BY DEF LibraryInv, LibraryTypes
<1>2. PICK q \in WebRequests : q = req[w]
  BY <1>1
<1>3. /\ q.pc = "moved" /\ q.f \in Files /\ q.v \in 1..2 /\ stored[q.f].at = 0 /\ Len(disk) > 0 /\ disk[Len(disk)] = q.v
      /\ \A g \in Files : stored[g].at # Len(disk)
      /\ \A x \in Web : x # w => req[x].pc # "moved"
  <2>1. q.v \in 0..2 /\ q.pc = "moved"
    BY <1>2 DEF WebRequests, PublishUpload
  <2> QED
    BY <1>2, <2>1 DEF LibraryInv, UploadsInv, InLibrary
<1> DEFINE of == {t \in Turns : q.place = "public" /\ q.r # None /\ turns[t].run = q.r}
           by == IF q.op = "share" THEN q.t ELSE IF of = {} THEN 0 ELSE CHOOSE t \in of : TRUE
<1>4. by \in 0..LastTurn
  <2>1. of \subseteq 0..LastTurn /\ q.t \in 0..LastTurn
    BY DEF Turns, WebRequests
  <2>2. CASE of = {}
    BY <2>1, <2>2
  <2>3. CASE of # {}
    <3>1. (CHOOSE t \in of : TRUE) \in of
      BY <2>3
    <3> QED
      BY <2>1, <2>3, <3>1
  <2> QED
    BY <2>2, <2>3
<1>5. /\ stored' = [stored EXCEPT ![q.f] = [v |-> q.v, at |-> Len(disk), place |-> q.place, by |-> by]]
      /\ scope' = [t \in Turns |-> IF t \in of /\ Granted(t) /\ scope[t].bound \in {None, q.r}
                                   THEN [scope[t] EXCEPT !.files = @ \cup {q.f}] ELSE scope[t]]
      /\ Receipt(w) /\ req' = [req EXCEPT ![w] = NoReq]
      /\ UNCHANGED <<disk, attached, turns, runOf, released, look>>
  BY <1>2 DEF PublishUpload
<1>6. PICK n \in 0..LastTurn : n = by
  BY <1>4
<1>7. Len(disk) \in Nat /\ q.place \in {"plain", "private", "public"} /\ q.v \in 0..2
  BY DEF LibraryInv, LibraryTypes, WebRequests
<1>8. PICK row \in LibraryRows : row = [v |-> q.v, at |-> Len(disk), place |-> q.place, by |-> n]
  BY <1>7 DEF LibraryRows
<1>9. stored' = [stored EXCEPT ![q.f] = row] /\ row.v = q.v /\ row.at = Len(disk) /\ row.place = q.place
  BY <1>5, <1>6, <1>8
<1>10. stored' \in [Files -> LibraryRows] /\ stored'[q.f] = row /\ \A f \in Files : f # q.f => stored'[f] = stored[f]
  BY <1>1, <1>3, <1>9
<1>11. ASSUME NEW t \in Turns
       PROVE  /\ scope'[t] \in Grants /\ scope'[t].made = scope[t].made /\ scope'[t].bound = scope[t].bound
              /\ scope[t].files \subseteq scope'[t].files
              /\ \A f \in scope'[t].files : f \in scope[t].files \/ (f = q.f /\ q.place = "public")
  <2>1. scope[t] \in Grants
    BY DEF LibraryInv, LibraryTypes
  <2>2. CASE t \in of /\ Granted(t) /\ scope[t].bound \in {None, q.r}
    <3>1. scope'[t] = [scope[t] EXCEPT !.files = @ \cup {q.f}]
      BY <1>5, <2>2
    <3>2. scope'[t] = [scope[t] EXCEPT !.files = scope[t].files \cup {q.f}]
      BY <2>1, <3>1 DEF Grants
    <3>3. scope[t].files \cup {q.f} \subseteq Files
      BY <1>3, <2>1 DEF Grants
    <3>4. scope'[t] \in Grants
      BY <2>1, <3>2, <3>3 DEF Grants
    <3>5. scope'[t].files = scope[t].files \cup {q.f} /\ scope'[t].made = scope[t].made /\ scope'[t].bound = scope[t].bound
      BY <2>1, <3>2 DEF Grants
    <3>6. q.place = "public"
      BY <2>2
    <3> QED
      BY <3>4, <3>5, <3>6
  <2>3. CASE ~(t \in of /\ Granted(t) /\ scope[t].bound \in {None, q.r})
    <3>1. scope'[t] = scope[t]
      BY <1>5, <2>3
    <3> QED
      BY <2>1, <3>1
  <2> QED
    BY <2>2, <2>3
<1>12. GoesOn
  <2>1. FilesStay
    BY <1>3, <1>10 DEF FilesStay, InLibrary, Private
  <2>2. ASSUME NEW t \in Turns, scope[t].made PROVE GrantStays(t)
    BY <1>5, <1>11, <2>2 DEF GrantStays, Granted
  <2> QED
    BY <1>5, <2>1, <2>2 DEF GoesOn, GrantsStay, RunsStay
<1>13. NoReq \in WebRequests /\ NoReq.pc = "idle" /\ NoReq.pc \notin Callbacks
  BY RequestKnown DEF Callbacks
<1>14. CallsInv' /\ req' \in [Web -> WebRequests]
  BY <1>5, <1>12, <1>13, OneCallChanges
<1>15. /\ told' \in [Files -> SUBSET (0..2)] /\ told'[q.f] = told[q.f] \cup {q.v} /\ \A f \in Files : f # q.f => told'[f] = told[f]
  BY <1>1, <1>2, <1>3, <1>5 DEF Receipt
<1>16. LibraryTypes'
  <2>1. scope' \in [Turns -> Grants]
    <3>1. scope' = [t \in Turns |-> scope'[t]]
      BY <1>5
    <3> QED
      BY <1>11, <3>1
  <2> QED
    BY <1>5, <1>10, <1>14, <1>15, <2>1 DEF LibraryInv, LibraryTypes
<1>17. BytesInv'
  <2>1. told[q.f] = {} /\ told'[q.f] = {q.v}
    BY <1>3, <1>15 DEF LibraryInv, BytesInv, InLibrary
  <2>2. ASSUME NEW f \in Files
        PROVE  /\ stored'[f].at # 0 => stored'[f].at \in 1..Len(disk) /\ disk[stored'[f].at] = stored'[f].v
               /\ stored'[f].at = 0 => told'[f] = {}
               /\ told'[f] \subseteq {stored'[f].v}
    <3>1. CASE f = q.f
      BY <1>3, <1>7, <1>9, <1>10, <2>1, <3>1
    <3>2. CASE f # q.f
      BY <1>10, <1>15, <3>2 DEF LibraryInv, BytesInv, InLibrary
    <3> QED
      BY <3>1, <3>2
  <2>3. ASSUME NEW f \in Files, NEW g \in Files, stored'[f].at # 0, stored'[f].at = stored'[g].at PROVE f = g
    BY <1>3, <1>9, <1>10, <2>3 DEF LibraryInv, BytesInv, InLibrary
  <2> QED
    BY <1>5, <2>2, <2>3 DEF LibraryInv, BytesInv, InLibrary
<1>18. UploadsInv'
  <2>1. req'[w] = NoReq /\ \A v \in Web : v # w => req'[v] = req[v]
    BY <1>1, <1>5
  <2> QED
    BY <1>3, <1>13, <2>1 DEF LibraryInv, UploadsInv
<1>19. OwnedInv'
  <2>1. \A t \in Turns : scope'[t].made \/ turns'[t].due => turns'[t].st # "none"
    BY <1>5, <1>11 DEF LibraryInv, OwnedInv
  <2>2. stored'[q.f].at # 0 /\ (q.place = "public" => stored'[q.f].place # "private")
    BY <1>3, <1>9, <1>10
  <2>3. \A t \in Turns : \A f \in scope'[t].files : f \in scope[t].files \/ (f \in Files /\ InLibrary(f)' /\ stored'[f].place # "private")
    BY <1>3, <1>11, <2>2 DEF InLibrary
  <2> QED
    BY <1>5, <1>12, <2>1, <2>3, OwnedGoesOn
<1>20. LookInv'
  BY <1>5, <1>12, LookGoesOn DEF GoesOn
<1> QED
  BY <1>14, <1>16, <1>17, <1>18, <1>19, <1>20 DEF LibraryInv

\* The owner shares what was private.
LEMMA ShareKeeps ==
  ASSUME LibraryInv, NEW f \in Files, ShareBrowserFile(f)
  PROVE  LibraryInv'
<1>1. /\ stored' = [stored EXCEPT ![f].place = "public"]
      /\ UNCHANGED <<disk, attached, turns, runOf, scope, req, released, told, look>> /\ stored \in [Files -> LibraryRows]
  BY DEF ShareBrowserFile, LibraryInv, LibraryTypes
<1>2. /\ stored' \in [Files -> LibraryRows]
      /\ \A g \in Files : stored'[g].v = stored[g].v /\ stored'[g].at = stored[g].at
      /\ \A g \in Files : stored'[g].place \in {stored[g].place, "public"}
  BY <1>1 DEF LibraryRows
<1>3. GoesOn
  BY <1>1, <1>2 DEF GoesOn, FilesStay, GrantsStay, GrantStays, RunsStay, Granted, Private
<1>4. CallsInv'
  BY <1>1, <1>3, NoCallChanges
<1>5. LibraryTypes'
  BY <1>1, <1>2 DEF LibraryInv, LibraryTypes
<1>6. BytesInv'
  BY <1>1, <1>2 DEF LibraryInv, BytesInv, InLibrary
<1>7. UploadsInv'
  BY <1>1, <1>2 DEF LibraryInv, UploadsInv, InLibrary
<1>8. OwnedInv'
  BY <1>1, <1>3, OwnedGoesOn DEF LibraryInv, OwnedInv
<1>9. LookInv'
  BY <1>1, <1>3, LookGoesOn DEF GoesOn
<1> QED
  BY <1>4, <1>5, <1>6, <1>7, <1>8, <1>9 DEF LibraryInv

-----------------------------------------------------------------------------
\* A turn or a run goes on, with no file, no request and no answer touched.
LEMMA TurnGoesOn ==
  ASSUME LibraryInv, Keep, GrantsStay, RunsStay, attached' \in [Turns -> SUBSET [f : Files, v : 0..2]], turns' \in [Turns -> TurnRows],
         runOf' \in [HermesRun -> [t : 0..LastTurn, live : BOOLEAN]], scope' \in [Turns -> Grants],
         \A t \in Turns : \A a \in attached'[t] : a \in attached[t] \/ (InLibrary(a.f) /\ stored[a.f].v = a.v),
         \A t \in Turns : \A f \in scope'[t].files : f \in scope[t].files \/ (InLibrary(f) /\ ~Private(f)),
         \A t \in Turns : scope'[t].made \/ turns'[t].due => turns'[t].st # "none"
  PROVE  LibraryInv'
<1>1. GoesOn
  BY DEF Keep, GoesOn, FilesStay, Private
<1>2. CallsInv'
  BY <1>1, NoCallChanges DEF Keep
<1>3. LibraryTypes'
  BY DEF Keep, LibraryInv, LibraryTypes
<1>4. BytesInv' /\ UploadsInv'
  BY DEF Keep, LibraryInv, BytesInv, UploadsInv, InLibrary
<1>5. OwnedInv'
  <2>1. \A t \in Turns : \A a \in attached'[t] : a.f \in Files
    OBVIOUS
  <2>2. \A t \in Turns : \A f \in scope'[t].files : f \in Files
    BY DEF Grants
  <2>3. \A t \in Turns : \A a \in attached'[t] : a \in attached[t] \/ (InLibrary(a.f)' /\ a.f \in Files /\ stored'[a.f].v = a.v)
    BY <2>1 DEF Keep, InLibrary
  <2>4. \A t \in Turns : \A f \in scope'[t].files : f \in scope[t].files \/ (f \in Files /\ InLibrary(f)' /\ stored'[f].place # "private")
    BY <2>2 DEF Keep, InLibrary, Private
  <2> QED
    BY <1>1, <2>3, <2>4, OwnedGoesOn DEF Keep
<1>6. LookInv'
  BY <1>1, LookGoesOn DEF Keep, GoesOn
<1> QED
  BY <1>2, <1>3, <1>4, <1>5, <1>6 DEF LibraryInv

\* One turn moves on.
LEMMA TurnMoves ==
  ASSUME LibraryInv, Keep, NEW t \in Turns, NEW x \in TurnRows, turns' = [turns EXCEPT ![t] = x], UNCHANGED <<attached, runOf, scope>>,
         x.st # "none", x.run = turns[t].run \/ turns[t].run = None,
         scope[t].made /\ ~x.late /\ x.st = "open" => ~turns[t].late /\ turns[t].st = "open"
  PROVE  LibraryInv'
<1>1. turns' \in [Turns -> TurnRows] /\ turns'[t] = x /\ \A u \in Turns : u # t => turns'[u] = turns[u]
  BY DEF LibraryInv, LibraryTypes
<1>2. GrantsStay
  BY <1>1 DEF GrantsStay, GrantStays, Granted
<1>3. RunsStay
  BY DEF RunsStay
<1>4. \A u \in Turns : scope'[u].made \/ turns'[u].due => turns'[u].st # "none"
  BY <1>1 DEF LibraryInv, OwnedInv
<1> QED
  BY <1>1, <1>2, <1>3, <1>4, TurnGoesOn DEF LibraryInv, LibraryTypes, OwnedInv

\* A turn is due, ends, lapses or gets the name of its run.
LEMMA TurnsKeep ==
  ASSUME LibraryInv, NEW t \in Turns, Due(t) \/ CloseTurn(t) \/ Lapse(t) \/ \E r \in HermesRun : NameRun(t, r)
  PROVE  LibraryInv'
<1>1. turns[t] \in TurnRows /\ turns \in [Turns -> TurnRows]
  BY DEF LibraryInv, LibraryTypes
<1>2. CASE Due(t)
  <2>1. PICK x \in TurnRows : x = [turns[t] EXCEPT !.due = TRUE]
    BY <1>1 DEF TurnRows
  <2>2. x.st = turns[t].st /\ x.late = turns[t].late /\ x.run = turns[t].run /\ turns[t].st = "open"
    BY <1>1, <1>2, <2>1 DEF TurnRows, Due
  <2> QED
    BY <1>2, <2>1, <2>2, TurnMoves DEF Due
<1>3. CASE CloseTurn(t)
  <2>1. PICK x \in TurnRows : x = [turns[t] EXCEPT !.st = "over"]
    BY <1>1 DEF TurnRows
  <2>2. x.st = "over" /\ x.late = turns[t].late /\ x.run = turns[t].run
    BY <1>1, <2>1 DEF TurnRows
  <2> QED
    BY <1>3, <2>1, <2>2, TurnMoves DEF CloseTurn
<1>4. CASE Lapse(t)
  <2>1. PICK x \in TurnRows : x = [turns[t] EXCEPT !.late = TRUE]
    BY <1>1 DEF TurnRows
  <2>2. x.st = turns[t].st /\ x.late = TRUE /\ x.run = turns[t].run
    BY <1>1, <2>1 DEF TurnRows
  <2>3. turns[t].st # "none"
    BY <1>4 DEF Lapse, LibraryInv, OwnedInv
  <2> QED
    BY <1>4, <2>1, <2>2, <2>3, TurnMoves DEF Lapse
<1>5. CASE \E r \in HermesRun : NameRun(t, r)
  <2>1. PICK r \in HermesRun : NameRun(t, r)
    BY <1>5
  <2>2. PICK x \in TurnRows : x = [turns[t] EXCEPT !.run = r]
    BY <1>1 DEF TurnRows
  <2>3. x.st = turns[t].st /\ x.late = turns[t].late /\ turns[t].run = None /\ turns[t].st = "open"
    BY <1>1, <2>1, <2>2 DEF TurnRows, NameRun
  <2>4. turns' = [turns EXCEPT ![t] = x] /\ Keep /\ UNCHANGED <<attached, runOf, scope>>
    BY <1>1, <2>1, <2>2 DEF NameRun
  <2>5. x.st # "none" /\ (scope[t].made /\ ~x.late /\ x.st = "open" => ~turns[t].late /\ turns[t].st = "open")
    BY <2>3
  <2> QED
    BY <2>3, <2>4, <2>5, TurnMoves
<1> QED
  BY <1>2, <1>3, <1>4, <1>5

\* A turn is reserved with what the owner attaches, and gets its grant.
LEMMA TurnBegins ==
  ASSUME LibraryInv, NEW t \in Turns, MintGrant(t) \/ \E fs \in SUBSET Files : Reserve(t, fs)
  PROVE  LibraryInv'
<1>1. /\ turns \in [Turns -> TurnRows] /\ attached \in [Turns -> SUBSET [f : Files, v : 0..2]] /\ scope \in [Turns -> Grants]
      /\ runOf \in [HermesRun -> [t : 0..LastTurn, live : BOOLEAN]] /\ stored \in [Files -> LibraryRows]
      /\ \A u \in Turns : scope[u].made \/ turns[u].due => turns[u].st # "none"
  BY DEF LibraryInv, LibraryTypes, OwnedInv
<1>2. CASE MintGrant(t)
  <2>1. PICK g \in Grants : g = [made |-> TRUE, files |-> {f \in Files : Grantable(f) /\ InScope(t, f)}, bound |-> None]
    BY DEF Grants
  <2>2. scope' = [scope EXCEPT ![t] = g] /\ turns[t].st = "open" /\ ~scope[t].made /\ Keep /\ UNCHANGED <<attached, turns, runOf>>
    BY <1>2, <2>1 DEF MintGrant
  <2>3. scope' \in [Turns -> Grants] /\ scope'[t] = g /\ \A u \in Turns : u # t => scope'[u] = scope[u]
    BY <1>1, <2>2
  <2>4. GrantsStay
    BY <2>2, <2>3 DEF GrantsStay, GrantStays, Granted
  <2>5. \A u \in Turns : \A f \in scope'[u].files : f \in scope[u].files \/ (InLibrary(f) /\ ~Private(f))
    BY <2>1, <2>3 DEF Grantable
  <2>6. \A u \in Turns : scope'[u].made \/ turns'[u].due => turns'[u].st # "none"
    BY <1>1, <2>2, <2>3
  <2>7. RunsStay
    BY <2>2 DEF RunsStay
  <2> QED
    BY <1>1, <2>2, <2>3, <2>4, <2>5, <2>6, <2>7, TurnGoesOn
<1>3. CASE \E fs \in SUBSET Files : Reserve(t, fs)
  <2>1. PICK fs \in SUBSET Files : Reserve(t, fs)
    BY <1>3
  <2>2. PICK x \in TurnRows : x = [turns[t] EXCEPT !.st = "open"]
    <3>1. PICK y \in TurnRows : y = turns[t]
      BY <1>1
    <3>2. [y EXCEPT !.st = "open"] \in TurnRows
      BY DEF TurnRows
    <3> QED
      BY <3>1, <3>2
  <2>3. /\ turns' = [turns EXCEPT ![t] = x] /\ turns[t].st = "none" /\ Keep /\ UNCHANGED <<runOf, scope>>
        /\ attached' = [attached EXCEPT ![t] = {[f |-> f, v |-> stored[f].v] : f \in fs}] /\ \A f \in fs : InLibrary(f)
    BY <1>1, <2>1, <2>2 DEF Reserve
  <2>4. /\ turns' \in [Turns -> TurnRows] /\ turns'[t] = x /\ x.st = "open"
        /\ \A u \in Turns : u # t => turns'[u] = turns[u]
    BY <1>1, <2>2, <2>3 DEF TurnRows
  <2>5. ~scope[t].made
    BY <1>1, <2>3
  <2>6. GrantsStay
    BY <2>3, <2>4, <2>5 DEF GrantsStay, GrantStays, Granted
  <2>7. {[f |-> f, v |-> stored[f].v] : f \in fs} \in SUBSET [f : Files, v : 0..2]
    BY <1>1 DEF LibraryRows
  <2>8. attached' \in [Turns -> SUBSET [f : Files, v : 0..2]]
    BY <1>1, <2>3, <2>7
  <2>9. \A a \in attached'[t] : InLibrary(a.f) /\ stored[a.f].v = a.v
    BY <1>1, <2>3
  <2>10. \A u \in Turns : \A a \in attached'[u] : a \in attached[u] \/ (InLibrary(a.f) /\ stored[a.f].v = a.v)
    BY <1>1, <2>3, <2>9
  <2>11. \A u \in Turns : scope'[u].made \/ turns'[u].due => turns'[u].st # "none"
    BY <1>1, <2>3, <2>4
  <2>12. RunsStay
    BY <2>3 DEF RunsStay
  <2> QED
    BY <1>1, <2>3, <2>4, <2>6, <2>8, <2>10, <2>11, <2>12, TurnGoesOn
<1> QED
  BY <1>2, <1>3

\* A run begins and ends.
LEMMA RunMoves ==
  ASSUME LibraryInv, NEW r \in HermesRun, EndRun(r) \/ \E t \in Turns : StartRun(t, r)
  PROVE  LibraryInv'
<1>1. /\ runOf \in [HermesRun -> [t : 0..LastTurn, live : BOOLEAN]]
      /\ Keep /\ UNCHANGED <<attached, turns, scope>>
      /\ turns \in [Turns -> TurnRows] /\ attached \in [Turns -> SUBSET [f : Files, v : 0..2]] /\ scope \in [Turns -> Grants]
      /\ \A u \in Turns : scope[u].made \/ turns[u].due => turns[u].st # "none"
  BY DEF EndRun, StartRun, LibraryInv, LibraryTypes, OwnedInv
<1>2. runOf' \in [HermesRun -> [t : 0..LastTurn, live : BOOLEAN]] /\ RunsStay
  <2>1. CASE EndRun(r)
    BY ZenonT(40), <1>1, <2>1 DEF EndRun, RunsStay
  <2>2. CASE \E t \in Turns : StartRun(t, r)
    <3>1. PICK t \in Turns : StartRun(t, r)
      BY <2>2
    <3>2. t \in 0..LastTurn
      BY DEF Turns
    <3>3. PICK n \in [t : 0..LastTurn, live : BOOLEAN] : n = [t |-> t, live |-> TRUE]
      BY <3>2
    <3>4. runOf' = [runOf EXCEPT ![r] = n] /\ runOf[r].t = 0
      BY <3>1, <3>3 DEF StartRun
    <3> QED
      BY <1>1, <3>4 DEF RunsStay
  <2> QED
    BY <2>1, <2>2
<1>3. GrantsStay
  BY <1>1 DEF GrantsStay, GrantStays, Granted
<1> QED
  BY <1>1, <1>2, <1>3, TurnGoesOn

-----------------------------------------------------------------------------
(* A page of the library.                                                   *)
\* The newest of some files.
LEMMA GreatestRow ==
  ASSUME NEW n \in Nat, NEW S \in SUBSET (0..n), S # {}
  PROVE  \E x \in S : \A y \in S : y <= x
<1> DEFINE T == {n - x : x \in S}
<1>0. \A x \in S : n - x \in Nat
  OBVIOUS
<1>1. T \in SUBSET Nat /\ T # {}
  BY <1>0
<1>2. PICK z \in T : \A y \in T : z <= y
  <2> HIDE DEF T
  <2> QED
    BY <1>1, LeastRow
<1>3. PICK x \in S : z = n - x
  BY <1>2
<1>4. \A y \in S : n - x <= n - y
  BY <1>2, <1>3
<1> QED
  BY <1>4

OlderThan(n) == {f \in Files : InLibrary(f) /\ stored[f].at < n}
PageBelow(n) == {f \in OlderThan(n) : Cardinality({g \in OlderThan(n) : stored[g].at > stored[f].at}) < PageSize}
PageIsNewest(n, older, page) ==
  /\ page \subseteq older /\ CursorOf(older, page) \in Nat
  /\ older = page => CursorOf(older, page) = 0
  /\ older # page => /\ CursorOf(older, page) \in 1..n - 1
                     /\ \A f \in older : f \in page <=> stored[f].at >= CursorOf(older, page)
\* A page shows the newest files below the cursor, and the cursor goes to the
\* oldest of them, or the reading is over.
LEMMA PageKnown ==
  ASSUME LibraryInv, NEW n \in Nat
  PROVE  PageIsNewest(n, OlderThan(n), PageBelow(n))
<1>a. PICK older : older = OlderThan(n)
  OBVIOUS
<1>b. PICK page : page = PageBelow(n)
  OBVIOUS
<1>0. /\ older = {f \in Files : InLibrary(f) /\ stored[f].at < n}
      /\ page = {f \in older : Cardinality({g \in older : stored[g].at > stored[f].at}) < PageSize}
  BY <1>a, <1>b DEF OlderThan, PageBelow
<1>1. page \subseteq older /\ older \subseteq Files /\ \A f \in older : stored[f].at \in Nat /\ stored[f].at # 0 /\ stored[f].at < n
  BY <1>0 DEF LibraryInv, LibraryTypes, LibraryRows, InLibrary
<1>2. IsFiniteSet(older) /\ \A S \in SUBSET older : IsFiniteSet(S) /\ Cardinality(S) \in Nat
  <2>1. IsFiniteSet(Files)
    BY LibraryAssumption DEF Files
  <2>2. IsFiniteSet(older)
    BY <1>1, <2>1, FS_Subset
  <2>3. ASSUME NEW S \in SUBSET older PROVE IsFiniteSet(S) /\ Cardinality(S) \in Nat
    BY <2>2, FS_Subset, FS_CardinalityType
  <2> QED
    BY <2>2, <2>3
<1>3. ASSUME NEW f \in older, NEW g \in page, stored[f].at >= stored[g].at PROVE f \in page
  <2> DEFINE A == {h \in older : stored[h].at > stored[f].at}
             B == {h \in older : stored[h].at > stored[g].at}
  <2>1. g \in older /\ stored[f].at \in Nat /\ stored[g].at \in Nat
    BY <1>1
  <2>2. A \in SUBSET B /\ B \in SUBSET older
    BY <1>1, <1>3, <2>1
  <2> HIDE DEF A, B
  <2>3. Cardinality(A) <= Cardinality(B)
    BY <1>2, <2>2, FS_Subset
  <2>4. Cardinality(A) \in Nat /\ Cardinality(B) \in Nat
    BY <1>2, <2>2
  <2>5. Cardinality(B) < PageSize
    BY <1>0 DEF B
  <2>6. Cardinality(A) < PageSize
    BY <2>3, <2>4, <2>5
  <2> QED
    BY <1>0, <2>6 DEF A
<1>4. ASSUME older # {} PROVE page # {}
  <2> DEFINE S == {stored[f].at : f \in older}
  <2>1. S \in SUBSET (0..n) /\ S # {}
    <3>1. \A f \in older : stored[f].at \in 0..n
      BY <1>1
    <3> QED
      BY <1>4, <3>1
  <2>2. PICK x \in S : \A y \in S : y <= x
    <3> HIDE DEF S
    <3> QED
      BY <2>1, GreatestRow
  <2>3. PICK f \in older : x = stored[f].at
    BY <2>2
  <2>4. \A g \in older : ~(stored[g].at > stored[f].at)
    BY <1>1, <2>2, <2>3
  <2>5. {g \in older : stored[g].at > stored[f].at} = {}
    BY <2>4
  <2>6. Cardinality({g \in older : stored[g].at > stored[f].at}) = 0
    BY <2>5, FS_EmptySet
  <2> QED
    BY <1>0, <2>6
<1>5. CASE older = page
  BY <1>1, <1>5, <1>a, <1>b DEF CursorOf, PageIsNewest
<1>6. CASE older # page
  <2> DEFINE S == {stored[f].at : f \in page}
  <2>1. S \in SUBSET Nat /\ S # {}
    <3>1. \A f \in page : stored[f].at \in Nat
      BY <1>1
    <3>2. older # {}
      BY <1>1, <1>6
    <3>3. page # {}
      BY <1>4, <3>2
    <3> QED
      BY <3>1, <3>3
  <2>2. PICK x \in S : \A y \in S : x <= y
    <3> HIDE DEF S
    <3> QED
      BY <2>1, LeastRow
  <2>3. PICK f \in page : x = stored[f].at
    BY <2>2
  <2>4. \A g \in page : stored[g].at >= stored[f].at
    BY <1>1, <2>2, <2>3
  <2>5. PICK m \in page : m = CHOOSE e \in page : \A g \in page : stored[g].at >= stored[e].at
    BY <2>4
  <2>6. \A g \in page : stored[g].at >= stored[m].at
    BY <2>4, <2>5
  <2>7. CursorOf(older, page) = stored[m].at
    BY <1>6, <2>5 DEF CursorOf
  <2>8. \A g \in older : g \in page <=> stored[g].at >= stored[m].at
    BY <1>3, <2>6
  <2>9. m \in older
    BY <1>1
  <2>10. stored[m].at \in Nat /\ stored[m].at # 0 /\ stored[m].at < n
    BY <1>1, <2>9
  <2>11. stored[m].at \in 1..n - 1
    BY <2>10
  <2> QED
    BY <1>1, <1>6, <2>7, <2>8, <2>10, <2>11, <1>a, <1>b DEF PageIsNewest
<1> QED
  BY <1>5, <1>6

\* A reading of the library begins and goes on.
LEMMA LookKeeps ==
  ASSUME LibraryInv, BeginLook \/ LookOn
  PROVE  LibraryInv'
<1>1. /\ UNCHANGED <<stored, disk, attached, turns, runOf, scope, req, released, told>>
      /\ look \in [pc : {"off", "on", "read"}, after : Nat, seen : Seq(SUBSET Files), had : SUBSET Files]
  BY DEF BeginLook, LookOn, LibraryInv, LibraryTypes
<1>2. \A f \in Files : stored[f].at \in Nat /\ stored[f].at < MaxStored + 1
  <2>1. Len(disk) \in Nat /\ Len(disk) <= MaxStored
    BY DEF LibraryInv, LibraryTypes, BytesInv
  <2>2. ASSUME NEW f \in Files PROVE stored[f].at \in Nat /\ (stored[f].at = 0 \/ stored[f].at \in 1..Len(disk))
    BY DEF LibraryInv, LibraryTypes, LibraryRows, BytesInv, InLibrary
  <2>3. ASSUME NEW f \in Files PROVE stored[f].at < MaxStored + 1
    BY <2>1, <2>2
  <2> QED
    BY <2>2, <2>3
<1>3. GoesOn
  BY <1>1 DEF GoesOn, FilesStay, GrantsStay, GrantStays, RunsStay, Granted, Private
<1>4. CallsInv'
  BY <1>1, <1>3, NoCallChanges
<1>5. BytesInv' /\ UploadsInv'
  BY <1>1 DEF LibraryInv, BytesInv, UploadsInv, InLibrary
<1>6. OwnedInv'
  BY <1>1, <1>3, OwnedGoesOn DEF LibraryInv, OwnedInv
<1>7. /\ look' \in [pc : {"off", "on", "read"}, after : Nat, seen : Seq(SUBSET Files), had : SUBSET Files]
      /\ LookInv'
  <2>1. CASE BeginLook
    <3>1. look' = [NotLooking EXCEPT !.pc = "on", !.after = MaxStored + 1, !.had = {f \in Files : InLibrary(f)}]
      BY <2>1 DEF BeginLook
    <3>2. look' = [pc |-> "on", after |-> MaxStored + 1, seen |-> <<>>, had |-> {f \in Files : InLibrary(f)}]
      BY <3>1 DEF NotLooking
    <3> QED
      BY <1>1, <1>2, <3>2 DEF LookInv, InLibrary
  <2>2. CASE LookOn
    <3>1. PICK older : older = {f \in Files : InLibrary(f) /\ stored[f].at < look.after}
      OBVIOUS
    <3>2. PICK page : page = {f \in older : Cardinality({g \in older : stored[g].at > stored[f].at}) < PageSize}
      OBVIOUS
    <3>3. PICK next : next = CursorOf(older, page)
      OBVIOUS
    <3>4. /\ page \subseteq older /\ next \in Nat
          /\ older = page => next = 0
          /\ older # page => next \in 1..look.after - 1 /\ \A f \in older : f \in page <=> stored[f].at >= next
      <4>1. look.after \in Nat
        BY <1>1
      <4>2. older = OlderThan(look.after) /\ page = PageBelow(look.after)
        BY <3>1, <3>2 DEF OlderThan, PageBelow
      <4>3. PageIsNewest(look.after, older, page)
        BY <4>1, <4>2, PageKnown
      <4> QED
        BY <3>3, <4>3 DEF PageIsNewest
    <3>5. PICK q \in [pc : {"off", "on", "read"}, after : Nat, seen : Seq(SUBSET Files), had : SUBSET Files] : q = look
      BY <1>1
    <3>6. PICK pc \in {"on", "read"} : pc = IF next = 0 THEN "read" ELSE "on"
      OBVIOUS
    <3>7. look' = [[[q EXCEPT !.seen = Append(q.seen, page)] EXCEPT !.after = next] EXCEPT !.pc = pc]
      BY <2>2, <3>1, <3>2, <3>3, <3>5, <3>6 DEF LookOn
    <3>8. page \in SUBSET Files /\ Append(q.seen, page) \in Seq(SUBSET Files)
      BY <3>1, <3>4, <3>5
    <3>9. /\ look' \in [pc : {"off", "on", "read"}, after : Nat, seen : Seq(SUBSET Files), had : SUBSET Files]
          /\ look'.seen = Append(q.seen, page) /\ look'.after = next /\ look'.pc = pc /\ look'.had = q.had
      BY <3>4, <3>7, <3>8
    <3>10. /\ DOMAIN look'.seen = 1..Len(q.seen) + 1 /\ DOMAIN q.seen = 1..Len(q.seen) /\ Len(q.seen) \in Nat
           /\ look'.seen[Len(q.seen) + 1] = page /\ \A i \in 1..Len(q.seen) : look'.seen[i] = q.seen[i]
      BY <3>5, <3>8, <3>9
    <3>11. look.pc = "on" /\ q.pc = "on"
      BY <2>2, <3>5 DEF LookOn
    <3>12. /\ \A f \in q.had : InLibrary(f) /\ f \in Files
           /\ \A i \in 1..Len(q.seen) : \A f \in q.seen[i] : InLibrary(f) /\ stored[f].at >= q.after /\ f \in Files
           /\ \A i, j \in 1..Len(q.seen) : i # j => q.seen[i] \cap q.seen[j] = {}
           /\ \A f \in q.had : stored[f].at >= q.after => \E i \in 1..Len(q.seen) : f \in q.seen[i]
      <4>1. /\ \A f \in q.had : InLibrary(f)
            /\ \A i \in 1..Len(q.seen) : \A f \in q.seen[i] : InLibrary(f) /\ stored[f].at >= q.after
            /\ \A i, j \in 1..Len(q.seen) : i # j => q.seen[i] \cap q.seen[j] = {}
            /\ \A f \in q.had : stored[f].at >= q.after => \E i \in 1..Len(q.seen) : f \in q.seen[i]
        BY <3>5, <3>10, <3>11 DEF LibraryInv, LookInv
      <4>2. q.had \subseteq Files /\ \A i \in 1..Len(q.seen) : q.seen[i] \subseteq Files
        BY <3>5
      <4> QED
        BY <4>1, <4>2
    <3>13. \A f \in page : f \in Files /\ InLibrary(f) /\ stored[f].at < q.after /\ (next # 0 => stored[f].at >= next)
      BY <3>1, <3>4, <3>5
    <3>14. next # 0 => next < q.after
      BY <1>1, <3>4, <3>5
    <3>15. \A f \in q.had : stored[f].at >= next => f \in page \/ stored[f].at >= q.after
      BY <1>2, <3>1, <3>4, <3>5, <3>12
    <3>16. \A i \in DOMAIN look'.seen : \A f \in look'.seen[i] : InLibrary(f) /\ (pc = "on" => stored[f].at >= next)
      <4>1. ASSUME NEW i \in 1..Len(q.seen), NEW f \in q.seen[i] PROVE InLibrary(f) /\ (pc = "on" => stored[f].at >= next)
        BY <1>2, <3>4, <3>6, <3>12, <3>14
      <4>2. ASSUME NEW f \in page PROVE InLibrary(f) /\ (pc = "on" => stored[f].at >= next)
        BY <3>6, <3>13
      <4> QED
        BY SMTT(20), <3>10, <4>1, <4>2
    <3>17. \A i, j \in DOMAIN look'.seen : i # j => look'.seen[i] \cap look'.seen[j] = {}
      <4>1. ASSUME NEW i \in 1..Len(q.seen) PROVE q.seen[i] \cap page = {}
        <5>1. q.after \in Nat /\ \A f \in Files : stored[f].at \in Nat
          BY <1>2, <3>5
        <5>2. ASSUME NEW f \in q.seen[i], f \in page PROVE FALSE
          <6>1. f \in Files /\ stored[f].at >= q.after /\ stored[f].at < q.after
            BY <3>12, <3>13, <5>2
          <6> QED
            BY <5>1, <6>1
        <5> QED
          BY <5>2
      <4>2. PICK n, s : n \in Nat /\ n = Len(q.seen) /\ s = look'.seen
        BY <3>10
      <4>3. DOMAIN s = 1..n + 1 /\ s[n + 1] = page /\ \A i \in 1..n : s[i] = q.seen[i]
        BY <3>10, <4>2
      <4>4. ASSUME NEW i \in 1..n + 1, NEW j \in 1..n + 1, i # j PROVE s[i] \cap s[j] = {}
        <5>1. CASE i = n + 1
          <6>1. j \in 1..n
            BY <4>2, <4>4, <5>1
          <6> QED
            BY <4>1, <4>2, <4>3, <5>1, <6>1
        <5>2. CASE j = n + 1
          <6>1. i \in 1..n
            BY <4>2, <4>4, <5>2
          <6> QED
            BY <4>1, <4>2, <4>3, <5>2, <6>1
        <5>3. CASE i # n + 1 /\ j # n + 1
          <6>1. i \in 1..n /\ j \in 1..n
            BY <4>2, <5>3
          <6> QED
            BY <3>12, <4>2, <4>3, <4>4, <6>1
        <5> QED
          BY <5>1, <5>2, <5>3
      <4> QED
        BY <4>2, <4>3, <4>4
    <3>18. \A f \in q.had : stored[f].at >= next => \E i \in DOMAIN look'.seen : f \in look'.seen[i]
      <4>1. ASSUME NEW f \in q.had, stored[f].at >= next PROVE \E i \in DOMAIN look'.seen : f \in look'.seen[i]
        <5>1. CASE f \in page
          <6>1. Len(q.seen) + 1 \in DOMAIN look'.seen
            BY <3>10
          <6> QED
            BY <3>10, <5>1, <6>1
        <5>2. CASE stored[f].at >= q.after
          <6>1. PICK i \in 1..Len(q.seen) : f \in q.seen[i]
            BY <3>12, <5>2
          <6>2. i \in DOMAIN look'.seen /\ look'.seen[i] = q.seen[i]
            BY <3>10
          <6> QED
            BY <6>1, <6>2
        <5> QED
          BY <3>15, <4>1, <5>1, <5>2
      <4> QED
        BY <4>1
    <3>19. pc = "read" => next = 0
      BY <3>6
    <3>20. \A f \in q.had : stored[f].at >= 0
      BY <1>2, <3>12
    <3>21. LookInv'
      <4>1. \A f \in look'.had : InLibrary(f)'
        BY <1>1, <3>9, <3>12 DEF InLibrary
      <4>2. \A i \in DOMAIN look'.seen : \A f \in look'.seen[i] : InLibrary(f)' /\ (look'.pc = "on" => stored'[f].at >= look'.after)
        BY <1>1, <3>9, <3>16 DEF InLibrary
      <4>3. look'.pc = "on" => \A f \in look'.had : stored'[f].at >= look'.after => \E i \in DOMAIN look'.seen : f \in look'.seen[i]
        BY <1>1, <3>9, <3>18
      <4>4. look'.pc = "read" => \A f \in look'.had : \E i \in DOMAIN look'.seen : f \in look'.seen[i]
        BY <3>9, <3>18, <3>19, <3>20
      <4> QED
        BY <3>17, <4>1, <4>2, <4>3, <4>4 DEF LookInv
    <3> QED
      BY <3>9, <3>21
  <2> QED
    BY <2>1, <2>2
<1>8. LibraryTypes'
  BY <1>1, <1>7 DEF LibraryInv, LibraryTypes
<1> QED
  BY <1>4, <1>5, <1>6, <1>7, <1>8 DEF LibraryInv

-----------------------------------------------------------------------------
\* A callback is asked for, probed, and takes what it came for.
LEMMA CallbackMoves ==
  ASSUME LibraryInv, NEW w \in Web, Probe(w) \/ BeginRead(w) \/ EndRead(w) \/ Fetch(w)
  PROVE  LibraryInv'
<1>1. CallAlone
  BY DEF Probe, BeginRead, EndRead, Fetch, Callback, CallAlone
<1>2. req[w].pc \in Callbacks
  BY DEF Probe, BeginRead, EndRead, Fetch, Callbacks
<1>3. CASE Probe(w)
  BY <1>1, <1>2, <1>3, PcKeeps DEF Probe, Callbacks
<1>4. CASE BeginRead(w)
  <2>1. PICK pc \in {"parse", "reask"} : pc = IF \E x \in Web : req[x].pc = "parse" THEN "reask" ELSE "parse"
    OBVIOUS
  <2>2. pc \in Callbacks /\ req' = [req EXCEPT ![w].pc = pc]
    BY <1>4, <2>1 DEF BeginRead, Callbacks
  <2> QED
    BY <1>1, <1>2, <1>4, <2>2, PcKeeps DEF BeginRead
<1>5. CASE EndRead(w)
  <2>1. req[w].op = "read" /\ req[w].f \in req[w].files
    BY <1>2, <1>5, RequestKnown DEF EndRead, CallInv
  <2> QED
    BY <1>1, <1>5, <2>1, TookKeeps DEF EndRead
<1>6. CASE Fetch(w)
  BY <1>1, <1>6, TookKeeps DEF Fetch
<1> QED
  BY <1>3, <1>4, <1>5, <1>6

\* Every step of the library and of its readers.
LEMMA LibrarySteps == LibraryInv /\ (LibraryNext \/ UNCHANGED libraryVars) => LibraryInv'
<1> SUFFICES ASSUME LibraryInv, LibraryNext \/ UNCHANGED libraryVars PROVE LibraryInv'
  OBVIOUS
<1>1. CASE LibraryNext
  <2>1. ASSUME NEW w \in Web,
               \/ req[w].pc = "idle" /\ \E f \in Uploadable, v \in 1..2, o \in Origins : BeginUpload(w, f, v, o)
               \/ Drop(w)
        PROVE LibraryInv'
    BY <2>1, RequestsBeginAndDrop
  <2>2. ASSUME NEW w \in Web, MoveUpload(w) \/ PublishText(w) PROVE LibraryInv'
    BY <2>2, UploadMoves
  <2>3. ASSUME NEW w \in Web, PublishUpload(w) PROVE LibraryInv'
    BY <2>3, PublishKeeps
  <2>4. ASSUME NEW w \in Web, NEW r \in HermesRun, NEW f \in Files, NEW op \in {"read", "content"}, Ask(w, r, op, f) PROVE LibraryInv'
    <3>1. op \in {"read", "content", "share"}
      OBVIOUS
    <3> QED
      BY <2>4, <3>1, AskKeeps
  <2>5. ASSUME NEW w \in Web, NEW r \in HermesRun, Ask(w, r, "share", r) PROVE LibraryInv'
    <3>1. r \in Files /\ "share" \in {"read", "content", "share"}
      BY DEF Files
    <3> QED
      BY <2>5, <3>1, AskKeeps
  <2>6. ASSUME NEW w \in Web, Probe(w) \/ BeginRead(w) \/ EndRead(w) \/ Fetch(w) PROVE LibraryInv'
    BY <2>6, CallbackMoves
  <2>7. ASSUME NEW w \in Web, Bind(w) PROVE LibraryInv'
    BY <2>7, BindKeeps
  <2>8. ASSUME NEW w \in Web, StageText(w) \/ Reask(w) PROVE LibraryInv'
    BY <2>8, ReaskKeeps
  <2>9. ASSUME NEW w \in Web, GiveAnswer(w) PROVE LibraryInv'
    BY <2>9, AnswerKeeps
  <2>10. ASSUME NEW f \in Files, ShareBrowserFile(f) PROVE LibraryInv'
    BY <2>10, ShareKeeps
  <2>11. ASSUME NEW t \in Turns, MintGrant(t) \/ \E fs \in SUBSET Files : Reserve(t, fs) PROVE LibraryInv'
    BY <2>11, TurnBegins
  <2>12. ASSUME NEW t \in Turns, Due(t) \/ CloseTurn(t) \/ Lapse(t) \/ \E r \in HermesRun : NameRun(t, r) PROVE LibraryInv'
    BY <2>12, TurnsKeep
  <2>13. ASSUME NEW r \in HermesRun, EndRun(r) \/ \E t \in Turns : StartRun(t, r) PROVE LibraryInv'
    BY <2>13, RunMoves
  <2>14. CASE BeginLook \/ LookOn
    BY <2>14, LookKeeps
  <2> QED
    BY <1>1, <2>1, <2>2, <2>3, <2>4, <2>5, <2>6, <2>7, <2>8, <2>9, <2>10, <2>11, <2>12, <2>13, <2>14 DEF LibraryNext
<1>2. CASE UNCHANGED libraryVars
  <2>1. GoesOn
    BY <1>2 DEF libraryVars, GoesOn, FilesStay, GrantsStay, GrantStays, RunsStay, Granted, Private
  <2>2. CallsInv' /\ LookInv'
    BY <1>2, <2>1, NoCallChanges, LookGoesOn DEF libraryVars, GoesOn
  <2>3. OwnedInv'
    BY <1>2, <2>1, OwnedGoesOn DEF libraryVars, LibraryInv, OwnedInv
  <2>4. LibraryTypes' /\ BytesInv' /\ UploadsInv'
    BY <1>2 DEF libraryVars, LibraryInv, LibraryTypes, BytesInv, UploadsInv, InLibrary
  <2> QED
    BY <2>2, <2>3, <2>4 DEF LibraryInv
<1> QED
  BY <1>1, <1>2

\* And it is enough.
LEMMA LibraryInvIsEnough == LibraryInv => FilesKeepTheirScope
<1> SUFFICES ASSUME LibraryInv PROVE FilesKeepTheirScope
  OBVIOUS
<1>1. \A f \in Files : /\ InLibrary(f) => disk[stored[f].at] = stored[f].v
                       /\ told[f] \subseteq {stored[f].v}
  BY DEF LibraryInv, BytesInv
<1>2. /\ \A t \in Turns : /\ \A a \in attached[t] : stored[a.f].v = a.v
                          /\ \A f \in scope[t].files : InLibrary(f) /\ ~Private(f)
      /\ \A x \in released : /\ x.held /\ x.v = stored[x.f].v /\ x.f \in scope[x.t].files
                             /\ scope[x.t].bound = x.r /\ turns[x.t].run = x.r
  BY DEF LibraryInv, OwnedInv
<1>3. \A i, j \in DOMAIN look.seen : i # j => look.seen[i] \cap look.seen[j] = {}
  BY DEF LibraryInv, LookInv
<1>4. look.pc = "read" => look.had \subseteq UNION {look.seen[i] : i \in DOMAIN look.seen}
  BY DEF LibraryInv, LookInv
<1> QED
  BY <1>1, <1>2, <1>3, <1>4 DEF FilesKeepTheirScope

-----------------------------------------------------------------------------
USE ReviewAssumption

(* The background review. *)
DueMaps == UNION {[S -> Nat] : S \in SUBSET Items}
ReviewRows == [state : {None, "running", "interrupted", "revoked", "failed", "stale", "quiet", "ready"},
               kind : {None, "discovery", "followup"}, epoch : Nat, input : Nat, at : Nat, due : DueMaps, asks : BOOLEAN, got : BOOLEAN]
SuggestionRows == [state : {None, "suggested", "confirmed", "dismissed"}, epoch : Nat, input : Nat, at : Nat, bind : Homes \cup {None}]
Notices == [rev : Nat, epoch : Nat, input : Nat, at : Nat]
FollowupRows == [state : LiveStates \cup {None, "completed", "stopped", "scope_changed"}, rev : Nat, bind : Homes \cup {None}, until : Nat,
                 asks : BOOLEAN, seen : Nat, note : Nat, notice : Notices]
CronRows == [pc : {"rest", "claimed", "prompted", "inferred", "failed"}, r : 0..MaxReviews]
ReviewTypes ==
  /\ today \in Nat /\ text \in Nat /\ bound \in Homes \cup {None}
  /\ mandate \in [bind : Homes \cup {None}, epoch : Nat, active : BOOLEAN]
  /\ review \in [ReviewIds -> ReviewRows] /\ sugg \in [Items -> SuggestionRows] /\ fup \in [Items -> FollowupRows]
  /\ cron \in [CronJobs -> CronRows] /\ gone \subseteq Items
\* One review runs, under the present permission.
RunningInv ==
  /\ \A r \in ReviewIds : /\ review[r].at <= today
                          /\ review[r].state = "running" => review[r].epoch = mandate.epoch
                          /\ \A o \in ReviewIds : review[r].state = "running" /\ review[o].state = "running" => r = o
  /\ \A w \in CronJobs : cron[w].pc # "rest" => cron[w].r # 0
\* What began in the day that ends with `day'.
DayOf(day) == {r \in ReviewIds : review[r].state # None /\ review[r].at > day - DayLong /\ review[r].at <= day}
BudgetInv == \A day \in Nat : Cardinality(DayOf(day)) <= Budget
\* A notice is of the revision the owner left, and that has its note.
NoticeFits(x) == x.notice # NoAlert => x.notice.rev = x.rev /\ x.note = x.rev
OwnersInv ==
  /\ \A i \in gone : fup[i].state \notin LiveStates \cup {None}
  /\ \A i \in Items : /\ fup[i].state = "active" => fup[i].until <= today
                      /\ NoticeFits(fup[i])
                      /\ fup[i].state # None => sugg[i].state = "confirmed"
ReviewInv == ReviewTypes /\ RunningInv /\ BudgetInv /\ OwnersInv

\* The first state.
LEMMA ReviewBegins == ReviewInit => ReviewInv
<1> SUFFICES ASSUME ReviewInit PROVE ReviewInv
  OBVIOUS
<1>1. [i \in {} |-> 0] \in DueMaps
  <2>1. [i \in {} |-> 0] \in [{} -> Nat] /\ {} \in SUBSET Items
    OBVIOUS
  <2> QED
    BY <2>1 DEF DueMaps
<1>2. NoReview \in ReviewRows
  BY <1>1 DEF NoReview, ReviewRows
<1>3. NoSuggestion \in SuggestionRows /\ NoFollowup \in FollowupRows /\ Unoccupied \in CronRows
  BY DEF NoSuggestion, SuggestionRows, NoFollowup, NoAlert, FollowupRows, Notices, LiveStates, Unoccupied, CronRows
<1>4. ReviewTypes
  BY <1>2, <1>3 DEF ReviewInit, ReviewTypes
<1>5. RunningInv
  BY DEF ReviewInit, RunningInv, NoReview, Unoccupied, None
<1>6. BudgetInv
  <2>1. \A day \in Nat : DayOf(day) = {}
    BY DEF ReviewInit, DayOf, NoReview
  <2> QED
    BY <2>1, FS_EmptySet DEF BudgetInv
<1>7. OwnersInv
  BY DEF ReviewInit, OwnersInv, NoFollowup, NoticeFits, None
<1> QED
  BY <1>4, <1>5, <1>6, <1>7 DEF ReviewInv

\* The reviews that count in a day are those that were.
LEMMA SameDays ==
  ASSUME ReviewInv, \A r \in ReviewIds : (review'[r].state = None <=> review[r].state = None) /\ review'[r].at = review[r].at
  PROVE  BudgetInv'
<1>1. \A day \in Nat : DayOf(day)' = DayOf(day)
  BY DEF DayOf
<1> QED
  BY <1>1 DEF ReviewInv, BudgetInv

\* A step that leaves reviews and follow-ups alone.
LEMMA AsideKeeps ==
  ASSUME ReviewInv, ReviewTypes', UNCHANGED <<mandate, review, sugg, fup, gone>>, today' >= today,
         \A w \in CronJobs : cron'[w].pc # "rest" => cron'[w].r # 0
  PROVE  ReviewInv'
<1>1. today \in Nat /\ today' \in Nat /\ (\A r \in ReviewIds : review[r].at \in Nat) /\ \A i \in Items : fup[i].until \in Nat
  BY DEF ReviewInv, ReviewTypes, ReviewRows, FollowupRows
<1>2. RunningInv'
  BY <1>1 DEF ReviewInv, RunningInv
<1>3. BudgetInv'
  BY SameDays
<1>4. OwnersInv'
  BY <1>1 DEF ReviewInv, OwnersInv, NoticeFits
<1> QED
  BY <1>2, <1>3, <1>4 DEF ReviewInv

\* The clock, the account, the conversation; the worker on its own.
LEMMA SurroundingsKeep ==
  ASSUME ReviewInv,
         \/ \E b \in Homes \cup {None} : Rebind(b)
         \/ TurnEnds \/ Passes
         \/ \E w \in CronJobs : WorkerDies(w) \/ \E pc \in {"inferred", "failed"} : Infer(w, pc)
         \/ UNCHANGED reviewVars
  PROVE  ReviewInv'
<1>1. ReviewTypes
  BY DEF ReviewInv
<1>2. CASE \E b \in Homes \cup {None} : Rebind(b)
  <2>1. ReviewTypes'
    BY <1>1, <1>2 DEF Rebind, ReviewTypes
  <2>2. today' >= today
    BY <1>1, <1>2 DEF Rebind, ReviewTypes
  <2> QED
    BY <1>2, <2>1, <2>2, AsideKeeps DEF Rebind, ReviewInv, RunningInv
<1>3. CASE TurnEnds \/ Passes
  <2>1. today' >= today /\ ReviewTypes'
    BY <1>1, <1>3 DEF TurnEnds, Passes, ReviewTypes
  <2> QED
    BY <1>3, <2>1, AsideKeeps DEF TurnEnds, Passes, ReviewInv, RunningInv
<1>4. CASE \E w \in CronJobs : WorkerDies(w) \/ \E pc \in {"inferred", "failed"} : Infer(w, pc)
  <2>1. PICK w \in CronJobs : WorkerDies(w) \/ \E pc \in {"inferred", "failed"} : Infer(w, pc)
    BY <1>4
  <2>2. PICK x \in CronRows : cron' = [cron EXCEPT ![w] = x] /\ (x.pc # "rest" => x.r = cron[w].r /\ cron[w].pc # "rest")
    <3>1. CASE WorkerDies(w)
      <4>1. Unoccupied \in CronRows /\ Unoccupied.pc = "rest"
        BY DEF Unoccupied, CronRows
      <4> QED
        BY <3>1, <4>1 DEF WorkerDies
    <3>2. CASE \E pc \in {"inferred", "failed"} : Infer(w, pc)
      <4>1. PICK pc \in {"inferred", "failed"} : Infer(w, pc)
        BY <3>2
      <4>2. PICK y \in CronRows : y = cron[w]
        BY <1>1 DEF ReviewTypes
      <4>3. PICK x \in CronRows : x = [y EXCEPT !.pc = pc]
        BY DEF CronRows
      <4>4. x.r = y.r
        BY <4>3 DEF CronRows
      <4> QED
        BY <4>1, <4>2, <4>3, <4>4 DEF Infer
    <3> QED
      BY <2>1, <3>1, <3>2
  <2>3. UNCHANGED <<today, text, bound, mandate, review, sugg, fup, gone>>
    BY <2>1 DEF WorkerDies, Infer
  <2>4. cron' \in [CronJobs -> CronRows] /\ cron'[w] = x /\ \A v \in CronJobs : v # w => cron'[v] = cron[v]
    BY <1>1, <2>2 DEF ReviewTypes
  <2>5. today' >= today /\ ReviewTypes'
    BY <1>1, <2>3, <2>4 DEF ReviewTypes
  <2>6. \A v \in CronJobs : cron'[v].pc # "rest" => cron'[v].r # 0
    BY <2>2, <2>4 DEF ReviewInv, RunningInv
  <2> QED
    BY <2>3, <2>5, <2>6, AsideKeeps
<1>5. CASE UNCHANGED reviewVars
  <2>1. today' >= today /\ ReviewTypes' /\ UNCHANGED <<mandate, review, sugg, fup, cron, gone>>
    BY <1>1, <1>5 DEF reviewVars, ReviewTypes
  <2> QED
    BY <2>1, AsideKeeps DEF ReviewInv, RunningInv
<1> QED
  BY <1>2, <1>3, <1>4, <1>5

-----------------------------------------------------------------------------
\* The owner gives or withdraws the permission: no review goes on.
LEMMA SetActiveKeeps ==
  ASSUME ReviewInv, NEW active \in BOOLEAN, SetActive(active)
  PROVE  ReviewInv'
<1>1. /\ ReviewTypes /\ bound # None /\ mandate' = [bind |-> bound, epoch |-> mandate.epoch + 1, active |-> active]
      /\ review' = RevokedReviews /\ UNCHANGED <<today, text, bound, sugg, cron, gone>>
      /\ fup' = [i \in Items |-> IF fup[i].state # None /\ fup[i].bind # bound
                                 THEN [fup[i] EXCEPT !.state = "scope_changed", !.rev = @ + 1, !.notice = NoAlert] ELSE fup[i]]
  BY DEF ReviewInv, SetActive
<1>2. ASSUME NEW r \in ReviewIds
      PROVE  /\ review'[r] \in ReviewRows /\ review'[r].at = review[r].at /\ review'[r].state # "running"
             /\ review'[r].state = None <=> review[r].state = None
  <2>1. review[r] \in ReviewRows
    BY <1>1 DEF ReviewTypes
  <2>2. CASE review[r].state = "running"
    <3>1. review'[r] = [review[r] EXCEPT !.state = "revoked"]
      BY <1>1, <2>2 DEF RevokedReviews
    <3> QED
      BY <2>1, <2>2, <3>1 DEF ReviewRows, None
  <2>3. CASE review[r].state # "running"
    BY <1>1, <2>1, <2>3 DEF RevokedReviews
  <2> QED
    BY <2>2, <2>3
<1>3. ASSUME NEW i \in Items
      PROVE  /\ fup'[i] \in FollowupRows
             /\ \/ fup'[i] = fup[i]
                \/ fup'[i].state = "scope_changed" /\ fup'[i].notice = NoAlert /\ fup[i].state # None
  <2>1. fup[i] \in FollowupRows
    BY <1>1 DEF ReviewTypes
  <2>2. CASE fup[i].state # None /\ fup[i].bind # bound
    <3>1. fup'[i] = [fup[i] EXCEPT !.state = "scope_changed", !.rev = @ + 1, !.notice = NoAlert]
      BY <1>1, <2>2
    <3>2. PICK x1 \in FollowupRows : x1 = [fup[i] EXCEPT !.state = "scope_changed"]
      BY <2>1 DEF FollowupRows
    <3>8. fup[i].rev + 1 \in Nat
      BY <2>1 DEF FollowupRows
    <3>3. PICK x2 \in FollowupRows : x2 = [x1 EXCEPT !.rev = fup[i].rev + 1]
      BY <3>8 DEF FollowupRows
    <3>4. NoAlert \in Notices
      BY DEF NoAlert, Notices
    <3>5. PICK x3 \in FollowupRows : x3 = [x2 EXCEPT !.notice = NoAlert]
      BY <3>4 DEF FollowupRows
    <3>6. fup'[i] = x3
      BY <2>1, <3>1, <3>2, <3>3, <3>5 DEF FollowupRows
    <3>7. x3.state = "scope_changed" /\ x3.notice = NoAlert
      BY <3>2, <3>3, <3>5 DEF FollowupRows
    <3> QED
      BY <2>2, <3>6, <3>7
  <2>3. CASE ~(fup[i].state # None /\ fup[i].bind # bound)
    BY <1>1, <2>1, <2>3
  <2> QED
    BY <2>2, <2>3
<1>4. review' \in [ReviewIds -> ReviewRows] /\ fup' \in [Items -> FollowupRows]
  <2>1. review' = [r \in ReviewIds |-> review'[r]] /\ fup' = [i \in Items |-> fup'[i]]
    BY <1>1 DEF RevokedReviews
  <2> QED
    BY <1>2, <1>3, <2>1
<1>5. ReviewTypes'
  <2>3. mandate.epoch \in Nat
    BY DEF ReviewInv, ReviewTypes
  <2>1. mandate.epoch + 1 \in Nat
    BY <2>3
  <2>2. mandate' \in [bind : Homes \cup {None}, epoch : Nat, active : BOOLEAN]
    BY <1>1, <2>1 DEF ReviewTypes
  <2> QED
    BY <1>1, <1>4, <2>2 DEF ReviewTypes
<1>6. RunningInv'
  BY <1>1, <1>2 DEF ReviewInv, RunningInv
<1>7. BudgetInv'
  BY <1>2, SameDays
<1>8. OwnersInv'
  <2>1. \A i \in gone : fup'[i].state \notin LiveStates \cup {None}
    <3>1. "scope_changed" \notin LiveStates \cup {None}
      BY DEF LiveStates, None
    <3>2. \A i \in gone : i \in Items /\ fup[i].state \notin LiveStates \cup {None}
      BY DEF ReviewInv, ReviewTypes, OwnersInv
    <3> QED
      BY <1>3, <3>1, <3>2
  <2>2. ASSUME NEW i \in Items
        PROVE  /\ fup'[i].state = "active" => fup'[i].until <= today
               /\ fup'[i].notice # NoAlert => fup'[i].notice.rev = fup'[i].rev /\ fup'[i].note = fup'[i].rev
               /\ fup'[i].state # None => sugg[i].state = "confirmed"
    <3>1. /\ fup[i].state = "active" => fup[i].until <= today
          /\ fup[i].notice # NoAlert => fup[i].notice.rev = fup[i].rev /\ fup[i].note = fup[i].rev
          /\ fup[i].state # None => sugg[i].state = "confirmed"
      BY DEF ReviewInv, OwnersInv, NoticeFits
    <3> QED
      BY <1>3, <3>1
  <2> QED
    BY <1>1, <2>1, <2>2 DEF OwnersInv, NoticeFits
<1> QED
  BY <1>5, <1>6, <1>7, <1>8 DEF ReviewInv

-----------------------------------------------------------------------------
\* What the sweep does to the reviews, before one is begun.
LEMMA SweptKnown ==
  ASSUME ReviewInv, NEW r \in ReviewIds
  PROVE  /\ Swept[r] \in ReviewRows /\ Swept[r].at = review[r].at /\ Swept[r].epoch = review[r].epoch
         /\ Swept[r].state = None <=> review[r].state = None
         /\ Swept[r].state = "running" => review[r].state = "running"
<1>1. review[r] \in ReviewRows
  BY DEF ReviewInv, ReviewTypes
<1>2. CASE Expired(r)
  <2>1. Swept[r] = [review[r] EXCEPT !.state = "interrupted"] /\ review[r].state = "running"
    BY <1>2 DEF Swept, Expired
  <2> QED
    BY <1>1, <2>1 DEF ReviewRows, None
<1>3. CASE ~Expired(r)
  BY <1>1, <1>3 DEF Swept
<1> QED
  BY <1>2, <1>3

\* A review more on a day that had room.
LEMMA OneMoreToday ==
  ASSUME ReviewInv, NEW r \in ReviewIds, WithinBudget, review[r].state = None, review'[r].at = today,
         \A o \in ReviewIds : o # r => (review'[o].state = None <=> review[o].state = None) /\ review'[o].at = review[o].at
  PROVE  BudgetInv'
<1>0. today \in Nat /\ \A o \in ReviewIds : review[o].at \in Nat /\ review[o].at <= today
  BY DEF ReviewInv, ReviewTypes, ReviewRows, RunningInv
<1>1. IsFiniteSet(ReviewIds)
  BY FS_Interval DEF ReviewIds
<1> SUFFICES ASSUME NEW day \in Nat PROVE Cardinality(DayOf(day)') <= Budget
  BY DEF BudgetInv
<1>2. CASE day < today
  <2>1. DayOf(day)' = DayOf(day)
    BY <1>0, <1>2 DEF DayOf
  <2> QED
    BY <2>1 DEF ReviewInv, BudgetInv
<1>3. CASE day >= today
  <2> DEFINE S == InADay(today)
  <2>1. S \in SUBSET ReviewIds /\ r \notin S
    BY DEF InADay, Begun
  <2>2. IsFiniteSet(S)
    BY <1>1, <2>1, FS_Subset
  <2>3. DayOf(day)' \subseteq S \cup {r}
    <3>1. ASSUME NEW o \in ReviewIds, o # r, review'[o].state # None, review'[o].at > day - DayLong PROVE o \in S
      BY <1>0, <1>3, <3>1 DEF InADay, Begun
    <3> QED
      BY <3>1 DEF DayOf
  <2>4. IsFiniteSet(S \cup {r}) /\ Cardinality(S \cup {r}) = Cardinality(S) + 1
    BY <2>1, <2>2, FS_AddElement
  <2>5. Cardinality(S) < Budget
    BY DEF WithinBudget
  <2> HIDE DEF S
  <2>6. Cardinality(DayOf(day)') <= Cardinality(S \cup {r}) /\ Cardinality(DayOf(day)') \in Nat /\ Cardinality(S) \in Nat
    BY <2>2, <2>3, <2>4, FS_Subset, FS_CardinalityType
  <2> QED
    BY <2>4, <2>5, <2>6
<1> QED
  BY <1>0, <1>2, <1>3

\* A worker claims a review: what expired is closed first.
LEMMA ClaimKeeps ==
  ASSUME ReviewInv, NEW w \in CronJobs, NEW due \in SUBSET Items, Claim(w, due)
  PROVE  ReviewInv'
<1>1. /\ ReviewTypes /\ UNCHANGED <<today, text, bound, mandate, sugg, fup, gone>>
      /\ today \in Nat /\ text \in Nat /\ mandate.epoch \in Nat
      /\ Swept = [o \in ReviewIds |-> Swept[o]]
  <2>1. ReviewTypes
    BY DEF ReviewInv
  <2>2. today \in Nat /\ text \in Nat /\ mandate.epoch \in Nat
    BY <2>1 DEF ReviewTypes
  <2>3. Swept = [o \in ReviewIds |-> Swept[o]]
    BY DEF Swept
  <2> QED
    BY <2>1, <2>2, <2>3 DEF Claim
<1>2. Swept \in [ReviewIds -> ReviewRows]
  BY <1>1, SweptKnown
<1>3. OwnersInv'
  BY <1>1 DEF ReviewInv, OwnersInv, NoticeFits
<1>4. CASE review' = Swept /\ UNCHANGED cron
  <2>1. ReviewTypes'
    BY <1>1, <1>2, <1>4 DEF ReviewTypes
  <2>2. RunningInv'
    BY <1>1, <1>4, SweptKnown DEF ReviewInv, RunningInv
  <2>3. BudgetInv'
    BY <1>4, SweptKnown, SameDays
  <2> QED
    BY <1>3, <2>1, <2>2, <2>3 DEF ReviewInv
<1>5. CASE ~((\E r \in ReviewIds : Swept[r].state = "running") \/ KindFor(due) = None \/ ~WithinBudget)
  <2>1. PICK r \in ReviewIds \ Begun, state \in {"running", "failed"}, heard \in BOOLEAN :
          /\ review' = [Swept EXCEPT ![r] = NewReview(KindFor(due), due, state)]
          /\ cron' = IF heard /\ state = "running" THEN [cron EXCEPT ![w] = [pc |-> "claimed", r |-> r]] ELSE cron
    BY <1>5 DEF Claim
  <2>2. review[r].state = None /\ r \in ReviewIds /\ r \in 0..MaxReviews /\ r # 0
    BY <2>1 DEF Begun, ReviewIds
  <2>3. PICK n : n = NewReview(KindFor(due), due, state)
    OBVIOUS
  <2>4. n \in ReviewRows /\ n.state = state /\ n.at = today /\ n.epoch = mandate.epoch
    <3>1. PICK d : d = [i \in (IF KindFor(due) = "followup" THEN due ELSE {}) |-> fup[i].rev]
      OBVIOUS
    <3>2. d \in DueMaps
      <4>1. \A i \in due : fup[i].rev \in Nat
        BY <1>1 DEF ReviewTypes, FollowupRows
      <4>2. PICK D \in SUBSET Items : D = (IF KindFor(due) = "followup" THEN due ELSE {}) /\ \A i \in D : fup[i].rev \in Nat
        <5>1. CASE KindFor(due) = "followup"
          BY <4>1, <5>1, Zenon
        <5>2. CASE KindFor(due) # "followup"
          <6>1. {} \in SUBSET Items /\ \A i \in {} : fup[i].rev \in Nat
            OBVIOUS
          <6>2. {} = (IF KindFor(due) = "followup" THEN due ELSE {})
            BY <5>2, Zenon
          <6> QED
            BY <6>1, <6>2, Zenon
        <5> QED
          BY <5>1, <5>2
      <4>3. d \in [D -> Nat]
        BY <3>1, <4>2
      <4> QED
        BY <4>3 DEF DueMaps
    <3>3. PICK asks \in BOOLEAN : asks = (KindFor(due) = "followup" /\ \E i \in due : fup[i].asks)
      <4>1. (KindFor(due) = "followup" /\ \E i \in due : fup[i].asks) \in BOOLEAN
        BY Zenon
      <4> QED
        BY <4>1, Zenon
    <3>4. n = [state |-> state, kind |-> KindFor(due), epoch |-> mandate.epoch, input |-> text, at |-> today,
               due |-> d, asks |-> asks, got |-> FALSE]
      BY <2>3, <3>1, <3>3 DEF NewReview
    <3>5. KindFor(due) \in {None, "discovery", "followup"}
      BY DEF KindFor
    <3>6. state \in {None, "running", "interrupted", "revoked", "failed", "stale", "quiet", "ready"}
      OBVIOUS
    <3> QED
      BY <1>1, <3>2, <3>4, <3>5, <3>6 DEF ReviewRows
  <2>5. review' = [Swept EXCEPT ![r] = n]
    BY <2>1, <2>3
  <2>6. review' \in [ReviewIds -> ReviewRows] /\ review'[r] = n /\ \A o \in ReviewIds : o # r => review'[o] = Swept[o]
    BY <1>2, <2>2, <2>4, <2>5
  <2>7. cron' \in [CronJobs -> CronRows] /\ \A v \in CronJobs : cron'[v].pc # "rest" => cron'[v].r # 0
    <3>1. PICK x \in CronRows : x = [pc |-> "claimed", r |-> r]
      BY <2>2 DEF CronRows
    <3>2. x.r = r
      BY <3>1
    <3>3. cron \in [CronJobs -> CronRows] /\ \A v \in CronJobs : cron[v].pc # "rest" => cron[v].r # 0
      BY DEF ReviewInv, ReviewTypes, RunningInv
    <3>4. cron' = [cron EXCEPT ![w] = x] \/ cron' = cron
      BY <2>1, <3>1
    <3> QED
      BY <2>2, <3>2, <3>3, <3>4
  <2>8. ReviewTypes'
    BY <1>1, <2>6, <2>7 DEF ReviewTypes
  <2>9. RunningInv'
    <3>1. \A o \in ReviewIds : o # r => review'[o].state # "running" /\ review'[o].at <= today
      BY <1>5, <2>6, SweptKnown DEF ReviewInv, RunningInv
    <3>2. \A o \in ReviewIds : review'[o].state = "running" => o = r
      BY <3>1
    <3>3. review'[r].at <= today /\ review'[r].epoch = mandate.epoch
      BY <1>1, <2>4, <2>6
    <3> QED
      BY <1>1, <2>7, <3>1, <3>2, <3>3 DEF RunningInv
  <2>10. BudgetInv'
    BY <1>5, <2>2, <2>4, <2>6, SweptKnown, OneMoreToday
  <2> QED
    BY <1>3, <2>8, <2>9, <2>10 DEF ReviewInv
<1> QED
  BY <1>4, <1>5 DEF Claim

-----------------------------------------------------------------------------
\* The worker brings what it has collected.
LEMMA ResearchKeeps ==
  ASSUME ReviewInv, NEW w \in CronJobs, NEW heard \in BOOLEAN, AttachResearch(w, heard)
  PROVE  ReviewInv'
<1>1. /\ ReviewTypes /\ UNCHANGED <<today, text, bound, mandate, sugg, fup, gone>> /\ cron[w].pc = "claimed"
  BY DEF ReviewInv, AttachResearch
<1>2. PICK r \in 0..MaxReviews : r = cron[w].r
  BY <1>1 DEF ReviewTypes, CronRows
<1>3. r \in ReviewIds
  <2>1. r # 0
    BY <1>1, <1>2 DEF ReviewInv, RunningInv
  <2> QED
    BY <2>1 DEF ReviewIds
<1>4. PICK x \in ReviewRows : x = [review[r] EXCEPT !.got = TRUE]
  <2>1. review[r] \in ReviewRows
    BY <1>1, <1>3 DEF ReviewTypes
  <2> QED
    BY <2>1 DEF ReviewRows
<1>5. x.state = review[r].state /\ x.at = review[r].at /\ x.epoch = review[r].epoch
  <2>1. review[r] \in ReviewRows
    BY <1>1, <1>3 DEF ReviewTypes
  <2> QED
    BY <1>4, <2>1 DEF ReviewRows
<1>6. review' = review \/ review' = [review EXCEPT ![r] = x]
  <2>1. review' = review \/ review' = [review EXCEPT ![r].got = TRUE]
    BY <1>2 DEF AttachResearch
  <2>2. [review EXCEPT ![r].got = TRUE] = [review EXCEPT ![r] = x]
    BY <1>1, <1>3, <1>4 DEF ReviewTypes
  <2> QED
    BY <2>1, <2>2
<1>7. /\ review' \in [ReviewIds -> ReviewRows]
      /\ \A o \in ReviewIds : review'[o].state = review[o].state /\ review'[o].at = review[o].at /\ review'[o].epoch = review[o].epoch
  BY <1>1, <1>3, <1>5, <1>6 DEF ReviewTypes
<1>8. cron' \in [CronJobs -> CronRows] /\ \A v \in CronJobs : cron'[v].pc # "rest" => cron'[v].r # 0
  <2>1. PICK pc \in {"prompted", "failed"} : cron' = [cron EXCEPT ![w].pc = pc]
    BY DEF AttachResearch
  <2>2. PICK y \in CronRows : y = cron[w]
    BY <1>1 DEF ReviewTypes
  <2>3. PICK z \in CronRows : z = [y EXCEPT !.pc = pc]
    BY DEF CronRows
  <2>4. z.r = y.r
    BY <2>3 DEF CronRows
  <2>5. cron \in [CronJobs -> CronRows] /\ \A v \in CronJobs : cron[v].pc # "rest" => cron[v].r # 0
    BY DEF ReviewInv, ReviewTypes, RunningInv
  <2>6. cron' = [cron EXCEPT ![w] = z]
    BY <2>1, <2>2, <2>3
  <2>7. z.r # 0
    BY <1>1, <2>2, <2>4, <2>5
  <2> QED
    BY <2>5, <2>6, <2>7
<1>9. ReviewTypes'
  BY <1>1, <1>7, <1>8 DEF ReviewTypes
<1>10. RunningInv'
  BY <1>1, <1>7, <1>8 DEF ReviewInv, RunningInv
<1>11. BudgetInv'
  BY <1>7, SameDays
<1>12. OwnersInv'
  BY <1>1 DEF ReviewInv, OwnersInv, NoticeFits
<1> QED
  BY <1>9, <1>10, <1>11, <1>12 DEF ReviewInv

-----------------------------------------------------------------------------
\* What is published to a follow-up the owner has left as it was: it stays
\* active, of the same revision, and a new notice comes with its note.
LEMMA PublishedKnown ==
  ASSUME ReviewInv, NEW v \in ReviewRows, Unchanged(v), NEW out \in [Items -> Results], NEW i \in Items
  PROVE  /\ Published(v, out)[i] \in FollowupRows /\ NoticeFits(Published(v, out)[i])
         /\ \/ Published(v, out)[i] = fup[i]
            \/ /\ fup[i].state \in LiveStates /\ fup[i].until <= today
               /\ Published(v, out)[i].state = "active" /\ Published(v, out)[i].until = fup[i].until
<1>1. /\ fup[i] \in FollowupRows /\ NoticeFits(fup[i]) /\ today \in Nat /\ mandate.epoch \in Nat
  BY DEF ReviewInv, ReviewTypes, OwnersInv
<1>2. CASE i \notin DOMAIN v.due
  BY <1>1, <1>2 DEF Published
<1>3. CASE i \in DOMAIN v.due
  <2>1. /\ fup[i].rev = v.due[i] /\ fup[i].state \in LiveStates /\ fup[i].until <= today
    BY <1>3 DEF Unchanged
  <2>2. PICK rev \in Nat : rev = v.due[i] /\ rev = fup[i].rev
    BY <1>1, <2>1 DEF FollowupRows
  <2>3. PICK alert \in Notices : alert = [rev |-> rev, epoch |-> mandate.epoch, input |-> v.input, at |-> today]
    BY <1>1 DEF Notices, ReviewRows
  <2>4. PICK note \in Nat : note = IF out[i] = "quiet" THEN fup[i].note ELSE v.due[i]
    BY <1>1, <2>2 DEF FollowupRows
  <2>5. PICK notice \in Notices : notice = IF Warranted(i, out) THEN alert ELSE fup[i].notice
    BY <1>1 DEF FollowupRows
  <2>6. PICK x1 \in FollowupRows : x1 = [fup[i] EXCEPT !.state = "active"]
    BY <1>1 DEF FollowupRows, LiveStates
  <2>7. PICK x2 \in FollowupRows : x2 = [x1 EXCEPT !.seen = 1]
    BY DEF FollowupRows
  <2>8. PICK x3 \in FollowupRows : x3 = [x2 EXCEPT !.note = note]
    BY DEF FollowupRows
  <2>9. PICK x4 \in FollowupRows : x4 = [x3 EXCEPT !.notice = notice]
    BY DEF FollowupRows
  <2>10. x4 = [fup[i] EXCEPT !.state = "active", !.seen = 1, !.note = note, !.notice = notice]
    BY <1>1, <2>6, <2>7, <2>8, <2>9 DEF FollowupRows
  <2>11. Published(v, out)[i] = x4
    BY <1>3, <2>2, <2>3, <2>4, <2>5, <2>10 DEF Published
  <2>12. x4.state = "active" /\ x4.until = fup[i].until /\ x4.rev = rev /\ x4.note = note /\ x4.notice = notice
    BY <1>1, <2>2, <2>6, <2>7, <2>8, <2>9 DEF FollowupRows
  <2>13. NoticeFits(x4)
    <3>1. CASE Warranted(i, out)
      <4>1. alert.rev = rev
        BY <2>3
      <4>2. notice = alert
        BY <2>5, <3>1, Zenon
      <4>3. note = rev
        BY <2>2, <2>4, <3>1 DEF Warranted
      <4> QED
        BY <2>12, <4>1, <4>2, <4>3 DEF NoticeFits
    <3>2. CASE ~Warranted(i, out)
      <4>1. notice = fup[i].notice
        BY <2>5, <3>2, Zenon
      <4>2. notice # NoAlert => notice.rev = rev /\ fup[i].note = rev
        BY <1>1, <2>2, <4>1 DEF NoticeFits
      <4>3. note = fup[i].note \/ note = rev
        BY <2>2, <2>4
      <4> QED
        BY <2>12, <4>2, <4>3 DEF NoticeFits
    <3> QED
      BY <3>1, <3>2
  <2> QED
    BY <2>1, <2>11, <2>12, <2>13
<1> QED
  BY <1>2, <1>3

\* A commitment is suggested once.
LEMMA SuggestionsKnown ==
  ASSUME ReviewInv, NEW v \in ReviewRows, NEW out \in [Items -> Results], NEW i \in Items
  PROVE  /\ WithSuggestions(v, out)[i] \in SuggestionRows
         /\ sugg[i].state # None => WithSuggestions(v, out)[i] = sugg[i]
<1>1. sugg[i] \in SuggestionRows /\ today \in Nat /\ mandate.epoch \in Nat /\ mandate.bind \in Homes \cup {None} /\ v.input \in Nat
  BY DEF ReviewInv, ReviewTypes, ReviewRows
<1>2. CASE v.kind = "discovery" /\ Suggested(i, out)
  <2>1. sugg[i].state = None
    BY <1>2 DEF Suggested
  <2>2. WithSuggestions(v, out)[i]
          = [state |-> "suggested", epoch |-> mandate.epoch, input |-> v.input, at |-> today, bind |-> mandate.bind]
    BY <1>2 DEF WithSuggestions
  <2> QED
    BY <1>1, <2>1, <2>2 DEF SuggestionRows
<1>3. CASE ~(v.kind = "discovery" /\ Suggested(i, out))
  <2>1. WithSuggestions(v, out)[i] = sugg[i]
    BY <1>3 DEF WithSuggestions
  <2> QED
    BY <1>1, <2>1
<1> QED
  BY <1>2, <1>3

\* The review comes to its end, whatever the owner did meanwhile.
LEMMA CompleteKeeps ==
  ASSUME ReviewInv, NEW w \in CronJobs, NEW out \in [Items -> Results], CompleteReview(w, out)
  PROVE  ReviewInv'
<1>1. /\ ReviewTypes /\ UNCHANGED <<today, text, bound, mandate, gone>> /\ cron[w].pc # "rest" /\ cron' = [cron EXCEPT ![w] = Unoccupied]
  BY DEF ReviewInv, CompleteReview
<1>2. PICK r \in 0..MaxReviews : r = cron[w].r
  BY <1>1 DEF ReviewTypes, CronRows
<1>3. r \in ReviewIds
  <2>1. r # 0
    BY <1>1, <1>2 DEF ReviewInv, RunningInv
  <2> QED
    BY <2>1 DEF ReviewIds
<1>4. PICK v \in ReviewRows : v = review[r]
  BY <1>1, <1>3 DEF ReviewTypes
<1>5. PICK state \in {"stale", "failed", "ready", "quiet"} : state = Outcome(v, cron[w].pc = "failed", out)
  BY DEF Outcome
<1>6. state \in {"ready", "quiet"} => Unchanged(v)
  BY <1>5 DEF Outcome
<1>7. \/ /\ OpenReview(r) /\ review' = [review EXCEPT ![r].state = state]
         /\ sugg' = (IF state = "ready" THEN WithSuggestions(v, out) ELSE sugg)
         /\ fup' = (IF state \in {"ready", "quiet"} THEN Published(v, out) ELSE fup)
      \/ UNCHANGED <<review, sugg, fup>>
  BY <1>2, <1>4, <1>5 DEF CompleteReview
<1>8. cron' \in [CronJobs -> CronRows] /\ \A c \in CronJobs : cron'[c].pc # "rest" => cron'[c].r # 0
  <2>1. Unoccupied \in CronRows /\ Unoccupied.pc = "rest"
    BY DEF Unoccupied, CronRows
  <2>2. cron \in [CronJobs -> CronRows] /\ \A c \in CronJobs : cron[c].pc # "rest" => cron[c].r # 0
    BY DEF ReviewInv, ReviewTypes, RunningInv
  <2> QED
    BY <1>1, <2>1, <2>2
<1>9. /\ review' \in [ReviewIds -> ReviewRows]
      /\ \A o \in ReviewIds : /\ review'[o].state = None <=> review[o].state = None
                              /\ review'[o].at = review[o].at /\ review'[o].epoch = review[o].epoch
                              /\ review'[o].state = "running" => review[o].state = "running"
  <2>1. CASE UNCHANGED <<review, sugg, fup>>
    BY <1>1, <2>1 DEF ReviewTypes
  <2>2. CASE OpenReview(r) /\ review' = [review EXCEPT ![r].state = state]
    <3>1. v.state = "running"
      BY <1>4, <2>2 DEF OpenReview
    <3>2. PICK x \in ReviewRows : x = [v EXCEPT !.state = state]
      BY <1>5 DEF ReviewRows
    <3>3. x.state = state /\ x.at = v.at /\ x.epoch = v.epoch
      BY <3>2 DEF ReviewRows
    <3>4. review' = [review EXCEPT ![r] = x] /\ review \in [ReviewIds -> ReviewRows]
      BY <1>1, <1>3, <1>4, <2>2, <3>2 DEF ReviewTypes
    <3>5. state # None /\ "running" # None /\ state # "running"
      BY <1>5 DEF None
    <3> QED
      BY <1>3, <1>4, <3>1, <3>3, <3>4, <3>5
  <2> QED
    BY <1>7, <2>1, <2>2
<1>10. ASSUME NEW i \in Items
       PROVE  /\ fup'[i] \in FollowupRows /\ NoticeFits(fup'[i]) /\ sugg'[i] \in SuggestionRows
              /\ \/ fup'[i] = fup[i]
                 \/ fup[i].state \in LiveStates /\ fup[i].until <= today /\ fup'[i].state = "active" /\ fup'[i].until = fup[i].until
              /\ sugg[i].state # None => sugg'[i] = sugg[i]
  <2>1. fup[i] \in FollowupRows /\ NoticeFits(fup[i]) /\ sugg[i] \in SuggestionRows
    BY DEF ReviewInv, ReviewTypes, OwnersInv
  <2>2. \/ fup'[i] = fup[i]
        \/ Unchanged(v) /\ fup'[i] = Published(v, out)[i]
    BY <1>6, <1>7
  <2>3. sugg'[i] = sugg[i] \/ sugg'[i] = WithSuggestions(v, out)[i]
    BY <1>7
  <2>4. CASE fup'[i] = fup[i]
    BY <2>1, <2>3, <2>4, SuggestionsKnown
  <2>5. CASE Unchanged(v) /\ fup'[i] = Published(v, out)[i]
    <3>1. /\ fup'[i] \in FollowupRows /\ NoticeFits(fup'[i])
          /\ \/ fup'[i] = fup[i]
             \/ fup[i].state \in LiveStates /\ fup[i].until <= today /\ fup'[i].state = "active" /\ fup'[i].until = fup[i].until
      BY <2>5, PublishedKnown
    <3> QED
      BY <2>1, <2>3, <3>1, SuggestionsKnown
  <2> QED
    BY <2>2, <2>4, <2>5
<1>11. ReviewTypes'
  <2>1. fup' \in [Items -> FollowupRows] /\ sugg' \in [Items -> SuggestionRows]
    <3>1. fup' = [i \in Items |-> fup'[i]] /\ sugg' = [i \in Items |-> sugg'[i]]
      BY <1>1, <1>7 DEF ReviewTypes, Published, WithSuggestions
    <3> QED
      BY <1>10, <3>1
  <2> QED
    BY <1>1, <1>8, <1>9, <2>1 DEF ReviewTypes
<1>12. RunningInv'
  <2>1. \A o \in ReviewIds : review'[o].at = review[o].at /\ review'[o].epoch = review[o].epoch
    BY <1>9
  <2>2. \A o \in ReviewIds : review'[o].state = "running" => review[o].state = "running"
    BY <1>9
  <2>3. today' = today /\ mandate' = mandate
    BY <1>1
  <2> QED
    BY <1>8, <2>1, <2>2, <2>3 DEF ReviewInv, RunningInv
<1>13. BudgetInv'
  <2>1. \A o \in ReviewIds : (review'[o].state = None <=> review[o].state = None) /\ review'[o].at = review[o].at
    BY <1>9
  <2> QED
    BY <2>1, SameDays
<1>14. OwnersInv'
  <2>1. \A i \in gone : i \in Items /\ fup[i].state \notin LiveStates \cup {None}
    BY DEF ReviewInv, ReviewTypes, OwnersInv
  <2>2. \A i \in gone : fup'[i].state \notin LiveStates \cup {None}
    BY <1>10, <2>1
  <2>3. ASSUME NEW i \in Items
        PROVE  /\ fup'[i].state = "active" => fup'[i].until <= today
               /\ fup'[i].notice # NoAlert => fup'[i].notice.rev = fup'[i].rev /\ fup'[i].note = fup'[i].rev
               /\ fup'[i].state # None => sugg'[i].state = "confirmed"
    <3>1. fup[i].state = "active" => fup[i].until <= today
      BY DEF ReviewInv, OwnersInv
    <3>2. fup[i].state # None => sugg[i].state = "confirmed"
      BY DEF ReviewInv, OwnersInv
    <3>3. fup'[i].state # None => fup[i].state # None
      BY <1>10 DEF LiveStates, None
    <3>4. sugg[i].state = "confirmed" => sugg'[i] = sugg[i]
      BY <1>10 DEF None
    <3>5. NoticeFits(fup'[i])
      BY <1>10
    <3>6. fup'[i].state = "active" => fup'[i].until <= today
      BY <1>10, <3>1
    <3> QED
      BY <3>2, <3>3, <3>4, <3>5, <3>6 DEF NoticeFits
  <2> QED
    BY <1>1, <2>2, <2>3 DEF OwnersInv, NoticeFits
<1> QED
  BY <1>11, <1>12, <1>13, <1>14 DEF ReviewInv

-----------------------------------------------------------------------------
\* A step of the owner on follow-ups and suggestions.
LEMMA OwnersStepKeeps ==
  ASSUME ReviewInv, UNCHANGED <<today, text, bound, mandate, review, cron>>,
         sugg' \in [Items -> SuggestionRows], fup' \in [Items -> FollowupRows], gone' \subseteq Items, OwnersInv'
  PROVE  ReviewInv'
<1>1. ReviewTypes'
  BY DEF ReviewInv, ReviewTypes
<1>2. RunningInv'
  BY DEF ReviewInv, RunningInv
<1>3. BudgetInv'
  BY SameDays
<1> QED
  BY <1>1, <1>2, <1>3 DEF ReviewInv

\* The owner confirms or dismisses.
LEMMA DecideKeeps ==
  ASSUME ReviewInv, NEW i \in Items, NEW decision \in {"confirmed", "dismissed"}, Decide(i, decision)
  PROVE  ReviewInv'
<1>1. /\ ReviewTypes /\ sugg' = [sugg EXCEPT ![i].state = decision] /\ sugg' # sugg /\ sugg[i].state \in {"suggested", decision}
      /\ UNCHANGED <<today, text, bound, mandate, review, fup, cron, gone>>
  BY DEF ReviewInv, Decide
<1>2. PICK x \in SuggestionRows : x = [sugg[i] EXCEPT !.state = decision]
  BY <1>1 DEF ReviewTypes, SuggestionRows
<1>3. sugg \in [Items -> SuggestionRows] /\ sugg' = [sugg EXCEPT ![i] = x]
  BY <1>1, <1>2 DEF ReviewTypes
<1>4. sugg[i].state = "suggested"
  <2>1. SUFFICES ASSUME sugg[i].state = decision PROVE FALSE
    BY <1>1
  <2>2. sugg[i] \in SuggestionRows
    BY <1>3
  <2>3. x = sugg[i]
    BY <1>2, <2>1, <2>2 DEF SuggestionRows
  <2> QED
    BY <1>1, <1>3, <2>3
<1>5. fup[i].state = None
  BY <1>4 DEF ReviewInv, OwnersInv
<1>6. sugg' \in [Items -> SuggestionRows] /\ \A j \in Items : fup[j].state # None => sugg'[j] = sugg[j]
  BY <1>3, <1>5
<1>7. OwnersInv'
  BY <1>1, <1>6 DEF ReviewInv, OwnersInv, NoticeFits
<1> QED
  BY <1>1, <1>6, <1>7, OwnersStepKeeps DEF ReviewTypes

\* A confirmed commitment is followed.
LEMMA FollowsKeeps ==
  ASSUME ReviewInv, NEW i \in Items, Follows(i)
  PROVE  ReviewInv'
<1>1. /\ ReviewTypes /\ fup[i].state = None /\ sugg' = [sugg EXCEPT ![i].state = "confirmed"]
      /\ fup' = [fup EXCEPT ![i] = [NoFollowup EXCEPT !.state = "active", !.rev = 1, !.bind = mandate.bind]]
      /\ UNCHANGED <<today, text, bound, mandate, review, cron, gone>>
  BY DEF ReviewInv, Follows
<1>2. PICK x \in SuggestionRows : x = [sugg[i] EXCEPT !.state = "confirmed"]
  BY <1>1 DEF ReviewTypes, SuggestionRows
<1>3. sugg \in [Items -> SuggestionRows] /\ sugg' = [sugg EXCEPT ![i] = x] /\ x.state = "confirmed"
  <2>1. sugg[i] \in SuggestionRows
    BY <1>1 DEF ReviewTypes
  <2>2. x.state = "confirmed"
    BY <1>2, <2>1 DEF SuggestionRows
  <2> QED
    BY <1>1, <1>2, <2>2 DEF ReviewTypes
<1>4. PICK y : y = [NoFollowup EXCEPT !.state = "active", !.rev = 1, !.bind = mandate.bind]
  OBVIOUS
<1>5. /\ y \in FollowupRows /\ y.state = "active" /\ y.until = 0 /\ y.notice = NoAlert
  <2>1. mandate.bind \in Homes \cup {None}
    BY <1>1 DEF ReviewTypes
  <2>2. PICK b \in Homes \cup {None} : b = mandate.bind
    BY <2>1
  <2>3. NoAlert \in Notices
    BY DEF NoAlert, Notices
  <2>4. y = [state |-> "active", rev |-> 1, bind |-> b, until |-> 0, asks |-> FALSE, seen |-> 0, note |-> 0, notice |-> NoAlert]
    BY <1>4, <2>2 DEF NoFollowup
  <2> QED
    BY <2>3, <2>4 DEF FollowupRows, LiveStates
<1>6. fup \in [Items -> FollowupRows] /\ fup' = [fup EXCEPT ![i] = y] /\ today \in Nat
  BY <1>1, <1>4 DEF ReviewTypes
<1>7. OwnersInv'
  <2>1. \A j \in gone : j \in Items /\ j # i /\ fup[j].state \notin LiveStates \cup {None}
    BY <1>1 DEF ReviewInv, ReviewTypes, OwnersInv
  <2>2. \A j \in gone : fup'[j].state \notin LiveStates \cup {None}
    BY <1>6, <2>1
  <2>3. ASSUME NEW j \in Items
        PROVE  /\ fup'[j].state = "active" => fup'[j].until <= today
               /\ fup'[j].notice # NoAlert => fup'[j].notice.rev = fup'[j].rev /\ fup'[j].note = fup'[j].rev
               /\ fup'[j].state # None => sugg'[j].state = "confirmed"
    <3>1. CASE j = i
      BY <1>3, <1>5, <1>6, <3>1
    <3>2. CASE j # i
      <4>1. fup'[j] = fup[j] /\ sugg'[j] = sugg[j]
        BY <1>3, <1>6, <3>2
      <4> QED
        BY <4>1 DEF ReviewInv, OwnersInv, NoticeFits
    <3> QED
      BY <3>1, <3>2
  <2> QED
    BY <1>1, <2>2, <2>3 DEF OwnersInv, NoticeFits
<1>8. sugg' \in [Items -> SuggestionRows] /\ fup' \in [Items -> FollowupRows] /\ gone' \subseteq Items
  <2>1. gone' \subseteq Items
    BY <1>1 DEF ReviewTypes
  <2> QED
    BY <1>3, <1>5, <1>6, <2>1
<1> QED
  BY <1>1, <1>7, <1>8, OwnersStepKeeps

\* A change over the revision the owner has seen: no notice outlives it.
LEMMA ChangesKeep ==
  ASSUME ReviewInv, NEW i \in Items, NEW new \in FollowupRows, Changes(i, new), gone' \subseteq gone \cup {i},
         new.state # None, new.state = "active" => new.until <= today, i \in gone' => new.state \notin LiveStates
  PROVE  ReviewInv'
<1>1. /\ ReviewTypes /\ fup[i].state \in LiveStates /\ fup' = [fup EXCEPT ![i] = [new EXCEPT !.rev = fup[i].rev + 1, !.notice = NoAlert]]
      /\ UNCHANGED <<today, text, bound, mandate, review, sugg, cron>>
  BY DEF ReviewInv, Changes
<1>2. fup[i].rev + 1 \in Nat
  <2>1. fup[i].rev \in Nat
    BY <1>1 DEF ReviewTypes, FollowupRows
  <2> QED
    BY <2>1
<1>3. PICK x1 \in FollowupRows : x1 = [new EXCEPT !.rev = fup[i].rev + 1]
  BY <1>2 DEF FollowupRows
<1>4. NoAlert \in Notices
  BY DEF NoAlert, Notices
<1>5. PICK x \in FollowupRows : x = [x1 EXCEPT !.notice = NoAlert]
  BY <1>4 DEF FollowupRows
<1>6. x.state = new.state /\ x.until = new.until /\ x.notice = NoAlert
  BY <1>3, <1>5 DEF FollowupRows
<1>7. x = [new EXCEPT !.rev = fup[i].rev + 1, !.notice = NoAlert]
  BY <1>3, <1>5 DEF FollowupRows
<1>8. fup \in [Items -> FollowupRows] /\ fup' = [fup EXCEPT ![i] = x]
  BY <1>1, <1>7 DEF ReviewTypes
<1>9. sugg[i].state = "confirmed"
  <2>1. fup[i].state # None
    BY <1>1 DEF LiveStates, None
  <2> QED
    BY <2>1 DEF ReviewInv, OwnersInv
<1>10. OwnersInv'
  <2>1. ASSUME NEW j \in gone' PROVE fup'[j].state \notin LiveStates \cup {None}
    <3>1. CASE j = i
      BY <1>6, <1>8, <2>1, <3>1
    <3>2. CASE j # i
      <4>1. j \in gone
        BY <2>1, <3>2
      <4>2. j \in Items /\ fup[j].state \notin LiveStates \cup {None}
        BY <4>1 DEF ReviewInv, ReviewTypes, OwnersInv
      <4> QED
        BY <1>8, <3>2, <4>2
    <3> QED
      BY <3>1, <3>2
  <2>2. ASSUME NEW j \in Items
        PROVE  /\ fup'[j].state = "active" => fup'[j].until <= today
               /\ fup'[j].notice # NoAlert => fup'[j].notice.rev = fup'[j].rev /\ fup'[j].note = fup'[j].rev
               /\ fup'[j].state # None => sugg[j].state = "confirmed"
    <3>1. CASE j = i
      BY <1>6, <1>8, <1>9, <3>1
    <3>2. CASE j # i
      <4>1. fup'[j] = fup[j]
        BY <1>8, <3>2
      <4> QED
        BY <4>1 DEF ReviewInv, OwnersInv, NoticeFits
    <3> QED
      BY <3>1, <3>2
  <2> QED
    BY <1>1, <2>1, <2>2 DEF OwnersInv, NoticeFits
<1>11. sugg' \in [Items -> SuggestionRows] /\ fup' \in [Items -> FollowupRows] /\ gone' \subseteq Items
  <2>1. gone' \subseteq Items /\ sugg' \in [Items -> SuggestionRows]
    BY <1>1 DEF ReviewTypes
  <2> QED
    BY <1>8, <2>1
<1> QED
  BY <1>1, <1>10, <1>11, OwnersStepKeeps

\* The owner ends, puts off, takes up or narrows a follow-up.
LEMMA OwnerKeeps ==
  ASSUME ReviewInv, NEW i \in Items,
         \/ \E state \in {"completed", "stopped"} : EndFollowup(i, state)
         \/ Snooze(i) \/ Progresses(i)
         \/ \E asks \in BOOLEAN : AskPublicly(i, asks)
  PROVE  ReviewInv'
<1>1. fup[i] \in FollowupRows /\ today \in Nat /\ today + DayLong \in Nat /\ gone \subseteq Items
  <2>1. today \in Nat
    BY DEF ReviewInv, ReviewTypes
  <2>2. today + DayLong \in Nat
    BY <2>1
  <2> QED
    BY <2>1, <2>2 DEF ReviewInv, ReviewTypes
<1>2. fup[i].state \in LiveStates => i \notin gone
  BY DEF ReviewInv, OwnersInv
<1>3. CASE \E state \in {"completed", "stopped"} : EndFollowup(i, state)
  <2>1. PICK state \in {"completed", "stopped"} : Changes(i, [fup[i] EXCEPT !.state = state]) /\ gone' = gone \cup {i}
    BY <1>3 DEF EndFollowup
  <2>2. PICK new \in FollowupRows : new = [fup[i] EXCEPT !.state = state]
    BY <1>1 DEF FollowupRows
  <2>3. new.state = state
    BY <1>1, <2>2 DEF FollowupRows
  <2>4. new.state # None /\ new.state # "active" /\ new.state \notin LiveStates
    BY <2>3 DEF LiveStates, None
  <2>5. Changes(i, new)
    BY <2>1, <2>2
  <2> QED
    BY <2>1, <2>4, <2>5, ChangesKeep
<1>4. CASE Snooze(i)
  <2>1. Changes(i, [fup[i] EXCEPT !.state = "snoozed", !.until = today + DayLong]) /\ gone' = gone
    BY <1>4 DEF Snooze
  <2>2. PICK x \in FollowupRows : x = [fup[i] EXCEPT !.state = "snoozed"]
    BY <1>1 DEF FollowupRows, LiveStates
  <2>3. PICK new \in FollowupRows : new = [x EXCEPT !.until = today + DayLong]
    BY <1>1 DEF FollowupRows
  <2>4. new.state = "snoozed" /\ new = [fup[i] EXCEPT !.state = "snoozed", !.until = today + DayLong]
    BY <1>1, <2>2, <2>3 DEF FollowupRows
  <2>5. Changes(i, new)
    BY <2>1, <2>4
  <2>6. i \notin gone'
    BY <1>2, <2>1 DEF Changes
  <2> QED
    BY <2>1, <2>4, <2>5, <2>6, ChangesKeep DEF None
<1>5. CASE Progresses(i)
  <2>1. Changes(i, [fup[i] EXCEPT !.state = "active", !.until = 0]) /\ gone' = gone
    BY <1>5 DEF Progresses
  <2>2. PICK x \in FollowupRows : x = [fup[i] EXCEPT !.state = "active"]
    BY <1>1 DEF FollowupRows, LiveStates
  <2>3. PICK new \in FollowupRows : new = [x EXCEPT !.until = 0]
    BY <1>1 DEF FollowupRows
  <2>4. new.state = "active" /\ new.until = 0 /\ new = [fup[i] EXCEPT !.state = "active", !.until = 0]
    BY <1>1, <2>2, <2>3 DEF FollowupRows
  <2>5. Changes(i, new)
    BY <2>1, <2>4
  <2>6. i \notin gone'
    BY <1>2, <2>1 DEF Changes
  <2>7. new.until <= today
    BY <1>1, <2>4
  <2> QED
    BY <2>1, <2>4, <2>5, <2>6, <2>7, ChangesKeep DEF None
<1>6. CASE \E asks \in BOOLEAN : AskPublicly(i, asks)
  <2>1. PICK asks \in BOOLEAN : Changes(i, [fup[i] EXCEPT !.asks = asks, !.note = 0]) /\ gone' = gone
    BY <1>6 DEF AskPublicly
  <2>2. PICK x \in FollowupRows : x = [fup[i] EXCEPT !.asks = asks]
    BY <1>1 DEF FollowupRows
  <2>3. PICK new \in FollowupRows : new = [x EXCEPT !.note = 0]
    BY <1>1 DEF FollowupRows
  <2>4. new.state = fup[i].state /\ new.until = fup[i].until
    BY <1>1, <2>2, <2>3 DEF FollowupRows
  <2>5. new = [fup[i] EXCEPT !.asks = asks, !.note = 0]
    BY <1>1, <2>2, <2>3 DEF FollowupRows
  <2>6. Changes(i, new)
    BY <2>1, <2>5
  <2>7. i \notin gone' /\ new.state # None
    BY <1>2, <2>1, <2>4 DEF Changes, LiveStates, None
  <2>8. new.state = "active" => new.until <= today
    BY <2>4 DEF ReviewInv, OwnersInv
  <2> QED
    BY <2>1, <2>6, <2>7, <2>8, ChangesKeep
<1> QED
  BY <1>3, <1>4, <1>5, <1>6

\* Every step of the review keeps its invariant.
LEMMA ReviewSteps == ReviewInv /\ (ReviewNext \/ UNCHANGED reviewVars) => ReviewInv'
<1> SUFFICES ASSUME ReviewInv, ReviewNext \/ UNCHANGED reviewVars PROVE ReviewInv'
  OBVIOUS
<1>1. CASE \/ \E b \in Homes \cup {None} : Rebind(b)
           \/ TurnEnds \/ Passes
           \/ \E w \in CronJobs : WorkerDies(w) \/ \E pc \in {"inferred", "failed"} : Infer(w, pc)
           \/ UNCHANGED reviewVars
  BY <1>1, SurroundingsKeep
<1>2. CASE \E active \in BOOLEAN : SetActive(active)
  BY <1>2, SetActiveKeeps
<1>3. CASE \E w \in CronJobs : \/ \E due \in SUBSET Items : Claim(w, due)
                               \/ \E heard \in BOOLEAN : AttachResearch(w, heard)
                               \/ \E out \in [Items -> Results] : CompleteReview(w, out)
  BY <1>3, ClaimKeeps, ResearchKeeps, CompleteKeeps
<1>4. CASE \E i \in Items : \E decision \in {"confirmed", "dismissed"} : Decide(i, decision)
  BY <1>4, DecideKeeps
<1>5. CASE \E i \in Items : Follows(i)
  BY <1>5, FollowsKeeps
<1>6. CASE \E i \in Items : \/ \E state \in {"completed", "stopped"} : EndFollowup(i, state)
                            \/ Snooze(i) \/ Progresses(i)
                            \/ \E asks \in BOOLEAN : AskPublicly(i, asks)
  BY <1>6, OwnerKeeps
<1> QED
  BY <1>1, <1>2, <1>3, <1>4, <1>5, <1>6 DEF ReviewNext

\* What the invariant says of the owner's word.
LEMMA ReviewInvIsEnough == ReviewInv => OwnerHasTheLastWord
<1> SUFFICES ASSUME ReviewInv PROVE OwnerHasTheLastWord
  OBVIOUS
<1>1. \A r, o \in ReviewIds : review[r].state = "running" /\ review[o].state = "running" => r = o
  BY DEF ReviewInv, RunningInv
<1>2. \A r \in ReviewIds : review[r].state = "running" => review[r].epoch = mandate.epoch
  BY DEF ReviewInv, RunningInv
<1>3. \A day \in 0..LastDay : Cardinality({r \in InADay(day) : review[r].at <= day}) <= Budget
  <2> SUFFICES ASSUME NEW day \in 0..LastDay PROVE Cardinality({r \in InADay(day) : review[r].at <= day}) <= Budget
    OBVIOUS
  <2>1. {r \in InADay(day) : review[r].at <= day} = DayOf(day)
    BY DEF InADay, Begun, DayOf
  <2>2. day \in Nat
    OBVIOUS
  <2>3. Cardinality(DayOf(day)) <= Budget
    BY <2>2 DEF ReviewInv, BudgetInv
  <2> QED
    BY <2>1, <2>3
<1>4. \A i \in gone : fup[i].state \notin LiveStates
  BY DEF ReviewInv, OwnersInv
<1>5. \A i \in Items : /\ fup[i].state = "active" => fup[i].until <= today
                       /\ fup[i].notice # NoAlert => fup[i].notice.rev = fup[i].rev
                       /\ TellsOf(i) => fup[i].note = fup[i].rev
                       /\ fup[i].state # None => sugg[i].state = "confirmed"
  BY DEF ReviewInv, OwnersInv, NoticeFits, TellsOf
<1> QED
  BY <1>1, <1>2, <1>3, <1>4, <1>5 DEF OwnerHasTheLastWord
=============================================================================
