-------------------------- MODULE HashReplaceProofs --------------------------
(***************************************************************************)
(* Proofs about HashReplace for every script, private file, hash and width *)
(* of a word: one entry never brings a script back, and hashes that cannot *)
(* be mistaken for one another are replaced as if all at once. Then proofs *)
(* about the hash of a text, for every odd factor and number of bits.      *)
(***************************************************************************)
EXTENDS PrivateHashes, WellFoundedInduction, TLAPS

LEMMA SmallestElement ==
  ASSUME NEW S \in SUBSET Nat, S # {}
  PROVE  \E n \in S : \A m \in S : n <= m
<1>1. PICK n \in S : \A m \in S : <<m, n>> \notin OpToRel(<, Nat)
  BY WFMin, NatLessThanWellFounded, Zenon
<1>2. \A m \in S : ~(m < n)
  BY <1>1, Zenon DEF OpToRel
<1> QED  BY <1>2

-----------------------------------------------------------------------------
(* The order of the bytes of two scripts of one length.                    *)

\* The first place where two texts of bytes differ decides which comes before.
LEMMA BeforeIsTotal ==
  ASSUME NEW D \in SUBSET Nat, NEW x \in [D -> Byte], NEW y \in [D -> Byte], x # y
  PROVE  Before(x, y) \/ Before(y, x)
<1> DEFINE differ == {p \in D : x[p] # y[p]}
<1>0. x = [p \in D |-> x[p]] /\ y = [p \in D |-> y[p]]  OBVIOUS
<1>1. differ \in SUBSET Nat /\ differ # {}
  <2>1. ASSUME \A p \in D : x[p] = y[p] PROVE FALSE
    <3>1. [p \in D |-> x[p]] = [p \in D |-> y[p]]  BY <2>1
    <3> QED  BY <1>0, <3>1, Zenon
  <2> QED  BY <2>1
<1> HIDE DEF differ
<1>2. PICK p \in differ : \A q \in differ : p <= q
  BY <1>1, SmallestElement
<1>3. p \in D /\ x[p] # y[p] /\ \A q \in D : q < p => x[q] = y[q]
  BY <1>1, <1>2 DEF differ
<1>4. x[p] \in Nat /\ y[p] \in Nat  BY <1>3, ByteAssumption
<1>5. x[p] < y[p] \/ y[p] < x[p]  BY <1>3, <1>4
<1> QED  BY <1>3, <1>5 DEF Before

\* The order is strict and transitive: a script never comes before itself, so
\* that no sequence of steps in one direction leads back to where it began.
THEOREM BeforeIsOrder ==
  ASSUME NEW D \in SUBSET Nat, NEW x \in [D -> Byte], NEW y \in [D -> Byte],
         NEW z \in [D -> Byte]
  PROVE  /\ ~Before(x, x)
         /\ Before(x, y) /\ Before(y, z) => Before(x, z)
<1>1. ~Before(x, x)
  <2> SUFFICES ASSUME NEW p \in D, x[p] < x[p] PROVE FALSE  BY DEF Before
  <2>1. x[p] \in Nat  BY ByteAssumption
  <2>2. ~(x[p] < x[p])  BY <2>1
  <2> QED  BY <2>2
<1>2. ASSUME Before(x, y), Before(y, z) PROVE Before(x, z)
  <2>1. PICK p \in D : x[p] < y[p] /\ \A q \in D : q < p => x[q] = y[q]
    BY <1>2 DEF Before
  <2>2. PICK r \in D : y[r] < z[r] /\ \A q \in D : q < r => y[q] = z[q]
    BY <1>2 DEF Before
  <2>3. \A q \in D : x[q] \in Nat /\ y[q] \in Nat /\ z[q] \in Nat
    BY ByteAssumption
  <2>4. CASE p < r
    <3>1. x[p] < z[p] /\ \A q \in D : q < p => x[q] = z[q]
      BY <2>1, <2>2, <2>4
    <3> QED  BY <3>1 DEF Before
  <2>5. CASE ~(p < r)
    <3>1. r < p \/ r = p  BY <2>5
    <3>2. x[r] < z[r]  BY <2>1, <2>2, <2>3, <3>1
    <3>3. \A q \in D : q < r => x[q] = z[q]  BY <2>1, <2>2, <3>1
    <3> QED  BY <3>2, <3>3 DEF Before
  <2> QED  BY <2>4, <2>5
<1> QED  BY <1>1, <1>2

-----------------------------------------------------------------------------
(* Writing a word where another stood.                                     *)

LEMMA PutFacts ==
  ASSUME NEW D \in SUBSET Nat, NEW s \in [D -> Byte], NEW off \in Nat, NEW w \in Word
  PROVE  /\ Put(s, off, w) \in [D -> Byte]
         /\ \A p \in D : p \in off .. off + Width - 1 => Put(s, off, w)[p] = w[p - off]
         /\ \A p \in D : p \notin off .. off + Width - 1 => Put(s, off, w)[p] = s[p]
<1>1. ASSUME NEW p \in D, p \in off .. off + Width - 1
      PROVE  w[p - off] \in Byte
  <2>1. p - off \in 0 .. Width - 1  BY <1>1, WidthAssumption
  <2> QED  BY <2>1 DEF Word
<1>2. DOMAIN s = D  OBVIOUS
<1> QED  BY <1>1, <1>2 DEF Put

\* Only another word makes a difference.
LEMMA PutAgain ==
  ASSUME NEW D \in SUBSET Nat, NEW s \in [D -> Byte], NEW off \in Nat, NEW w \in Word,
         At(s, off, w)
  PROVE  Put(s, off, w) = s
<1> DEFINE t == Put(s, off, w)
<1>1. /\ t \in [D -> Byte]
      /\ \A p \in D : p \in off .. off + Width - 1 => t[p] = w[p - off]
      /\ \A p \in D : p \notin off .. off + Width - 1 => t[p] = s[p]
  BY PutFacts
<1> HIDE DEF t
<1>2. ASSUME NEW p \in D PROVE t[p] = s[p]
  <2>1. CASE p \in off .. off + Width - 1
    <3> DEFINE k == p - off
    <3>1. k \in 0 .. Width - 1 /\ p = off + k  BY <2>1, WidthAssumption
    <3>2. s[p] = w[k]  BY <3>1 DEF At
    <3> QED  BY <1>1, <2>1, <3>2
  <2> QED  BY <1>1, <2>1
<1>3. t = [p \in D |-> t[p]] /\ s = [p \in D |-> s[p]]  BY <1>1
<1>4. [p \in D |-> t[p]] = [p \in D |-> s[p]]  BY <1>2
<1> QED  BY <1>3, <1>4, Zenon DEF t

\* The first byte that differs decides, and it is a byte of the word.
LEMMA BeforeCarried ==
  ASSUME NEW D \in SUBSET Nat, NEW s \in [D -> Byte], NEW off,
         NEW h \in Word, NEW w \in Word, At(s, off, h)
  PROVE  /\ Before(h, w) => Before(s, Put(s, off, w))
         /\ Before(w, h) => Before(Put(s, off, w), s)
<1> DEFINE t == Put(s, off, w)
<1>1. off \in Nat /\ \A k \in 0 .. Width - 1 : off + k \in D /\ s[off + k] = h[k]
  BY DEF At
<1>2. /\ t \in [D -> Byte]
      /\ \A p \in D : p \in off .. off + Width - 1 => t[p] = w[p - off]
      /\ \A p \in D : p \notin off .. off + Width - 1 => t[p] = s[p]
  BY <1>1, PutFacts
<1> HIDE DEF t
<1>3. ASSUME NEW k \in 0 .. Width - 1, \A j \in 0 .. Width - 1 : j < k => h[j] = w[j]
      PROVE  /\ off + k \in D /\ s[off + k] = h[k] /\ t[off + k] = w[k]
             /\ \A q \in D : q < off + k => s[q] = t[q]
  <2>1. off + k \in D /\ s[off + k] = h[k]  BY <1>1
  <2>2. off + k \in off .. off + Width - 1 /\ (off + k) - off = k
    BY <1>1, WidthAssumption
  <2>3. t[off + k] = w[k]  BY <1>2, <2>1, <2>2
  <2>4. ASSUME NEW q \in D, q < off + k PROVE s[q] = t[q]
    <3>1. CASE q \in off .. off + Width - 1
      <4> DEFINE j == q - off
      <4>1. j \in 0 .. Width - 1 /\ j < k /\ q = off + j
        BY <1>1, <2>4, <3>1, WidthAssumption
      <4>2. s[q] = h[j] /\ t[q] = w[j]  BY <1>1, <1>2, <3>1, <4>1
      <4> QED  BY <1>3, <4>1, <4>2
    <3> QED  BY <1>2, <3>1
  <2> QED  BY <2>1, <2>3, <2>4
<1>4. DOMAIN s = D /\ DOMAIN t = D /\ DOMAIN h = 0 .. Width - 1 /\ DOMAIN w = 0 .. Width - 1
  BY <1>2 DEF Word
<1>5. ASSUME Before(h, w) PROVE Before(s, t)
  <2>1. PICK k \in 0 .. Width - 1 :
          h[k] < w[k] /\ \A j \in 0 .. Width - 1 : j < k => h[j] = w[j]
    BY <1>4, <1>5 DEF Before
  <2> QED  BY <1>3, <1>4, <2>1 DEF Before
<1>6. ASSUME Before(w, h) PROVE Before(t, s)
  <2>1. PICK k \in 0 .. Width - 1 :
          w[k] < h[k] /\ \A j \in 0 .. Width - 1 : j < k => w[j] = h[j]
    BY <1>4, <1>6 DEF Before
  <2> QED  BY <1>3, <1>4, <2>1 DEF Before
<1> QED  BY <1>5, <1>6 DEF t

-----------------------------------------------------------------------------

LEMMA InitTypeOK == Init => TypeOK
<1> SUFFICES ASSUME Init PROVE TypeOK  OBVIOUS
<1>1. IsScript(original)  BY ScriptAssumption DEF Init
<1>2. DOMAIN hashes \subseteq Texts /\ hashes \in [DOMAIN hashes -> Word]
  BY FileAssumption DEF Init
<1> QED  BY <1>1, <1>2 DEF Init, TypeOK, IsScript

\* What TypeOK says of the entry being treated.
LEMMA EntryFacts ==
  ASSUME TypeOK, NEW t \in DOMAIN hashes
  PROVE  /\ DOMAIN original \in SUBSET Nat
         /\ HashWord(t) \in Word /\ hashes[t] \in Word
BY TextAssumption DEF TypeOK, IsScript

LEMMA ReplaceFoundFacts ==
  ASSUME TypeOK, ReplaceFound
  PROVE  /\ str \in DOMAIN hashes
         /\ \E off \in Nat : /\ At(script, off, HashWord(str))
                             /\ script' = Put(script, off, hashes[str])
                             /\ off \in DOMAIN original
BY DEF ReplaceFound, Occurrences, At, TypeOK

LEMMA NextTypeOK == TypeOK /\ [Next]_vars => TypeOK'
<1> SUFFICES ASSUME TypeOK, [Next]_vars PROVE TypeOK'  OBVIOUS
<1>1. ASSUME NEW t \in left, Visit(t) PROVE TypeOK'
  BY <1>1 DEF Visit, TypeOK
<1>2. CASE ReplaceFound
  <2>1. PICK off \in Nat : script' = Put(script, off, hashes[str])
    BY <1>2, ReplaceFoundFacts
  <2>2. script' \in [DOMAIN original -> Byte]
    <3>1. str \in DOMAIN hashes  BY <1>2, ReplaceFoundFacts
    <3>2. DOMAIN original \in SUBSET Nat /\ hashes[str] \in Word  BY <3>1, EntryFacts
    <3> QED  BY <2>1, <3>2, PutFacts DEF TypeOK
  <2> QED  BY <1>2, <2>2 DEF ReplaceFound, TypeOK
<1>3. CASE NothingFound  BY <1>3 DEF NothingFound, TypeOK
<1>4. CASE UNCHANGED vars  BY <1>4 DEF vars, TypeOK
<1> QED  BY <1>1, <1>2, <1>3, <1>4 DEF Next, Terminated

\* TypeOK: texts, values and bytes stay in range, and the script keeps its length.
THEOREM HashReplaceTypeCorrect == Spec => []TypeOK
<1> QED  BY InitTypeOK, NextTypeOK, PTL DEF Spec

\* Progress: the steps of one entry all go one way in the order of the scripts,
\* whatever the words and wherever they are found.
THEOREM ReplacementsProgress == Spec => Progress
<1> DEFINE Step == script' # script =>
             IF Before(HashWord(str), hashes[str]) THEN Before(script, script')
             ELSE Before(script', script)
<1>1. TypeOK /\ [Next]_vars => [Step]_vars
  <2> SUFFICES ASSUME TypeOK, [Next]_vars, script' # script
               PROVE  IF Before(HashWord(str), hashes[str]) THEN Before(script, script')
                      ELSE Before(script', script)
    OBVIOUS
  <2>1. ReplaceFound
    BY DEF Next, vars, Visit, NothingFound, Terminated
  <2>2. PICK off \in Nat : /\ At(script, off, HashWord(str))
                           /\ script' = Put(script, off, hashes[str])
    BY <2>1, ReplaceFoundFacts
  <2>3. /\ DOMAIN original \in SUBSET Nat /\ script \in [DOMAIN original -> Byte]
        /\ HashWord(str) \in Word /\ hashes[str] \in Word
    BY <2>1, ReplaceFoundFacts, EntryFacts DEF TypeOK
  <2> HIDE DEF Step
  <2>4. CASE Before(HashWord(str), hashes[str])
    BY <2>2, <2>3, <2>4, BeforeCarried
  <2>5. CASE ~Before(HashWord(str), hashes[str])
    <3>1. HashWord(str) # hashes[str]
      BY <2>2, <2>3, PutAgain
    <3>2. Before(hashes[str], HashWord(str))
      <4>1. 0 .. Width - 1 \in SUBSET Nat  BY WidthAssumption
      <4> QED  BY <2>3, <2>5, <3>1, <4>1, BeforeIsTotal DEF Word
    <3> QED  BY <2>2, <2>3, <2>5, <3>2, BeforeCarried
  <2> QED  BY <2>4, <2>5
<1>2. Spec => []TypeOK  BY HashReplaceTypeCorrect
<1> QED  BY <1>1, <1>2, PTL DEF Spec, Progress

-----------------------------------------------------------------------------
(* Hashes that cannot be mistaken for one another.                         *)

\* Occurrences of hashes in one script lie apart.
LEMMA PlacesApart ==
  ASSUME TypeOK, Unmistakable, NEW x \in Places(original), NEW y \in Places(original),
         NEW p, Covers(x, p), Covers(y, p)
  PROVE  x = y
<1>1. /\ x[1] \in DOMAIN hashes /\ x[2] \in DOMAIN original
      /\ y[1] \in DOMAIN hashes /\ y[2] \in DOMAIN original
      /\ x = <<x[1], x[2]>> /\ y = <<y[1], y[2]>>
      /\ At(original, x[2], HashWord(x[1])) /\ At(original, y[2], HashWord(y[1]))
  BY DEF Places
<1>2. x[2] \in Nat /\ y[2] \in Nat  BY <1>1 DEF At
<1>3. p \in x[2] .. x[2] + Width - 1 /\ p \in y[2] .. y[2] + Width - 1  BY DEF Covers
<1> DEFINE d == y[2] - x[2]
<1>4. d \in Near  BY <1>2, <1>3, WidthAssumption DEF Near
<1>5. Overlap(HashWord(x[1]), HashWord(y[1]), d)
  <2> SUFFICES ASSUME NEW k \in 0 .. Width - 1, k + d \in 0 .. Width - 1
               PROVE  HashWord(x[1])[k + d] = HashWord(y[1])[k]
    BY DEF Overlap
  <2>1. x[2] + (k + d) = y[2] + k  BY <1>2
  <2>2. original[x[2] + (k + d)] = HashWord(x[1])[k + d]  BY <1>1 DEF At
  <2>3. original[y[2] + k] = HashWord(y[1])[k]  BY <1>1 DEF At
  <2> QED  BY <2>1, <2>2, <2>3
<1>6. x[1] = y[1] /\ d = 0
  <2> SUFFICES ASSUME x[1] # y[1] \/ d # 0 PROVE FALSE  OBVIOUS
  <2> HIDE DEF d
  <2>1. ~Overlap(HashWord(x[1]), HashWord(y[1]), d)  BY <1>1, <1>4 DEF Unmistakable
  <2> QED  BY <1>5, <2>1
<1>7. x[2] = y[2]  BY <1>2, <1>6
<1> QED  BY <1>1, <1>6, <1>7

\* What a script with some occurrences replaced holds at each place.
LEMMA SubstitutedFacts ==
  ASSUME TypeOK, Unmistakable, NEW R \in SUBSET Places(original)
  PROVE  /\ Substituted(original, R) \in [DOMAIN original -> Byte]
         /\ \A x \in R : \A p \in DOMAIN original :
              Covers(x, p) => Substituted(original, R)[p] = hashes[x[1]][p - x[2]]
         /\ \A p \in DOMAIN original :
              (\A x \in R : ~Covers(x, p)) => Substituted(original, R)[p] = original[p]
<1> DEFINE t == Substituted(original, R)
<1>1. ASSUME NEW x \in R, NEW p \in DOMAIN original, Covers(x, p)
      PROVE  t[p] = hashes[x[1]][p - x[2]] /\ t[p] \in Byte
  <2>1. \A y \in R : Covers(y, p) => y = x  BY <1>1, PlacesApart
  <2>2. (CHOOSE y \in R : Covers(y, p)) = x  BY <1>1, <2>1
  <2>3. t[p] = hashes[x[1]][p - x[2]]  BY <1>1, <2>2 DEF Substituted
  <2>4. x[1] \in DOMAIN hashes /\ x[2] \in Nat  BY DEF Places, At
  <2>5. hashes[x[1]] \in Word  BY <2>4 DEF TypeOK
  <2>6. p - x[2] \in 0 .. Width - 1  BY <1>1, <2>4, WidthAssumption DEF Covers
  <2> QED  BY <2>3, <2>5, <2>6 DEF Word
<1>2. ASSUME NEW p \in DOMAIN original, \A x \in R : ~Covers(x, p)
      PROVE  t[p] = original[p] /\ t[p] \in Byte
  BY <1>2 DEF Substituted, TypeOK, IsScript
<1>3. t = [p \in DOMAIN original |-> t[p]]  BY DEF Substituted
<1> HIDE DEF t
<1>4. \A p \in DOMAIN original : t[p] \in Byte  BY <1>1, <1>2
<1>5. t \in [DOMAIN original -> Byte]  BY <1>3, <1>4
<1> QED  BY <1>1, <1>2, <1>5 DEF t

\* A value makes no occurrence: those that are left were there at the beginning.
LEMMA NothingNew ==
  ASSUME TypeOK, Unmistakable, NEW R \in SUBSET Places(original),
         NEW u \in DOMAIN hashes, NEW off \in DOMAIN original,
         At(Substituted(original, R), off, HashWord(u))
  PROVE  /\ <<u, off>> \in Places(original)
         /\ \A x \in R : \A p : Covers(<<u, off>>, p) => ~Covers(x, p)
<1> DEFINE t == Substituted(original, R)
<1>1. /\ off \in Nat
      /\ \A k \in 0 .. Width - 1 :
           off + k \in DOMAIN original /\ t[off + k] = HashWord(u)[k]
  BY SubstitutedFacts DEF At
<1>2. ASSUME NEW x \in R, NEW p, Covers(<<u, off>>, p), Covers(x, p) PROVE FALSE
  <2>1. x[1] \in DOMAIN hashes /\ x[2] \in Nat  BY DEF Places, At
  <2> DEFINE d == off - x[2]
  <2>2. d \in Near
    <3>1. p \in off .. off + Width - 1 /\ p \in x[2] .. x[2] + Width - 1
      BY <1>2 DEF Covers
    <3> QED  BY <1>1, <2>1, <3>1, WidthAssumption DEF Near
  <2>3. Overlap(hashes[x[1]], HashWord(u), d)
    <3> SUFFICES ASSUME NEW k \in 0 .. Width - 1, k + d \in 0 .. Width - 1
                 PROVE  hashes[x[1]][k + d] = HashWord(u)[k]
      BY DEF Overlap
    <3>1. off + k \in DOMAIN original /\ t[off + k] = HashWord(u)[k]  BY <1>1
    <3>2. Covers(x, off + k) /\ (off + k) - x[2] = k + d
      BY <1>1, <2>1, WidthAssumption DEF Covers
    <3>3. t[off + k] = hashes[x[1]][k + d]
      <4> HIDE DEF d
      <4> QED  BY <3>1, <3>2, SubstitutedFacts
    <3> QED  BY <3>1, <3>3
  <2> HIDE DEF d
  <2>4. ~Overlap(hashes[x[1]], HashWord(u), d)  BY <2>1, <2>2 DEF Unmistakable
  <2> QED  BY <2>3, <2>4
<1>3. At(original, off, HashWord(u))
  <2> SUFFICES ASSUME NEW k \in 0 .. Width - 1
               PROVE  off + k \in DOMAIN original /\ original[off + k] = HashWord(u)[k]
    BY <1>1 DEF At
  <2>1. Covers(<<u, off>>, off + k)  BY <1>1, WidthAssumption DEF Covers
  <2>2. \A x \in R : ~Covers(x, off + k)  BY <1>2, <2>1
  <2>3. t[off + k] = original[off + k]  BY <1>1, <2>2, SubstitutedFacts
  <2> QED  BY <1>1, <2>3
<1> QED  BY <1>2, <1>3 DEF Places

\* One occurrence more.
LEMMA OneMore ==
  ASSUME TypeOK, Unmistakable, NEW R \in SUBSET Places(original), NEW x \in Places(original)
  PROVE  Put(Substituted(original, R), x[2], hashes[x[1]])
           = Substituted(original, R \cup {x})
<1> DEFINE D == DOMAIN original
           s == Substituted(original, R)
           t == Put(s, x[2], hashes[x[1]])
           u == Substituted(original, R \cup {x})
<1>1. x[1] \in DOMAIN hashes /\ x[2] \in Nat  BY DEF Places, At
<1>2. D \in SUBSET Nat /\ hashes[x[1]] \in Word  BY <1>1 DEF TypeOK, IsScript
<1>3. s \in [D -> Byte] /\ u \in [D -> Byte]  BY SubstitutedFacts
<1>4. /\ t \in [D -> Byte]
      /\ \A p \in D : Covers(x, p) => t[p] = hashes[x[1]][p - x[2]]
      /\ \A p \in D : ~Covers(x, p) => t[p] = s[p]
  <2> DEFINE off == x[2]
             w == hashes[x[1]]
  <2>1. \A p : Covers(x, p) <=> p \in off .. off + Width - 1  BY DEF Covers
  <2>2. off \in Nat /\ w \in Word /\ D \in SUBSET Nat /\ s \in [D -> Byte]
    BY <1>1, <1>2, <1>3
  <2>3. t = Put(s, off, w)  OBVIOUS
  <2> HIDE DEF D, s, t, off, w
  <2>4. /\ Put(s, off, w) \in [D -> Byte]
        /\ \A p \in D : p \in off .. off + Width - 1 => Put(s, off, w)[p] = w[p - off]
        /\ \A p \in D : p \notin off .. off + Width - 1 => Put(s, off, w)[p] = s[p]
    BY <2>2, PutFacts
  <2>5. /\ t \in [D -> Byte]
        /\ \A p \in D : Covers(x, p) => t[p] = w[p - off]
        /\ \A p \in D : ~Covers(x, p) => t[p] = s[p]
    BY <2>1, <2>3, <2>4
  <2> QED  BY <2>5 DEF off, w
<1>5. ASSUME NEW p \in D PROVE t[p] = u[p]
  <2> HIDE DEF t
  <2>1. CASE Covers(x, p)
    <3>1. u[p] = hashes[x[1]][p - x[2]]  BY <2>1, SubstitutedFacts
    <3> QED  BY <1>4, <2>1, <3>1
  <2>2. CASE ~Covers(x, p) /\ \E y \in R : Covers(y, p)
    <3>1. PICK y \in R : Covers(y, p)  BY <2>2
    <3>2. s[p] = hashes[y[1]][p - y[2]]  BY <3>1, SubstitutedFacts
    <3>3. u[p] = hashes[y[1]][p - y[2]]  BY <3>1, SubstitutedFacts
    <3> QED  BY <1>4, <2>2, <3>2, <3>3
  <2>3. CASE ~Covers(x, p) /\ \A y \in R : ~Covers(y, p)
    <3>1. s[p] = original[p]  BY <2>3, SubstitutedFacts
    <3>2. \A y \in R \cup {x} : ~Covers(y, p)  BY <2>3
    <3>3. u[p] = original[p]  BY <3>2, SubstitutedFacts
    <3> QED  BY <1>4, <2>3, <3>1, <3>3
  <2> QED  BY <2>1, <2>2, <2>3
<1> HIDE DEF D, t, u
<1>6. t = [p \in D |-> t[p]] /\ u = [p \in D |-> u[p]]  BY <1>3, <1>4
<1>7. [p \in D |-> t[p]] = [p \in D |-> u[p]]  BY <1>5
<1>8. t = u  BY <1>6, <1>7, Zenon
<1> QED  BY <1>8 DEF t, u

-----------------------------------------------------------------------------

(***************************************************************************)
(* The script is the original with some occurrences replaced, among them   *)
(* all those of the entries that have been treated.                        *)
(***************************************************************************)
PartlySubstituted(R) ==
  /\ R \in SUBSET Places(original)
  /\ script = Substituted(original, R)
  /\ \A x \in Places(original) \ R : x[1] \in left \cup {str}

IInv == Unmistakable => \E R : PartlySubstituted(R)

LEMMA InitIInv == TypeOK /\ Init => IInv
<1> SUFFICES ASSUME TypeOK, Init, Unmistakable PROVE PartlySubstituted({})
  BY DEF IInv
<1>1. \A x \in Places(original) : x[1] \in left  BY DEF Init, Places
<1>2. original = Substituted(original, {})
  <2>1. original = [p \in DOMAIN original |-> original[p]]  BY DEF TypeOK, IsScript
  <2> QED  BY <2>1 DEF Substituted
<1> QED  BY <1>1, <1>2 DEF Init, PartlySubstituted

LEMMA ReplaceKeeps == TypeOK /\ IInv /\ ReplaceFound => IInv'
<1> SUFFICES ASSUME TypeOK, IInv, ReplaceFound, Unmistakable' PROVE \E R : PartlySubstituted(R)'
  BY DEF IInv
<1>1. original' = original /\ hashes' = hashes /\ left' = left /\ str' = str
  BY DEF ReplaceFound
<1>2. Unmistakable  BY <1>1 DEF Unmistakable
<1>3. PICK R : PartlySubstituted(R)  BY <1>2 DEF IInv
<1>4. PICK off \in Nat : /\ At(script, off, HashWord(str)) /\ off \in DOMAIN original
                         /\ script' = Put(script, off, hashes[str])
  BY ReplaceFoundFacts
<1> DEFINE x == <<str, off>>
<1>5. R \in SUBSET Places(original) /\ script = Substituted(original, R)
  BY <1>3 DEF PartlySubstituted
<1>6. x \in Places(original)
  BY <1>2, <1>4, <1>5, NothingNew, ReplaceFoundFacts
<1>7. script' = Substituted(original, R \cup {x})
  <2>1. x[1] = str /\ x[2] = off  OBVIOUS
  <2> HIDE DEF x
  <2>2. Put(Substituted(original, R), x[2], hashes[x[1]]) = Substituted(original, R \cup {x})
    BY <1>2, <1>5, <1>6, OneMore
  <2> QED  BY <1>4, <1>5, <2>1, <2>2
<1>8. Places(original)' = Places(original)
      /\ Substituted(original, R \cup {x})' = Substituted(original, R \cup {x})
  BY <1>1 DEF Places, Substituted
<1>9. \A y \in Places(original) \ (R \cup {x}) : y[1] \in left \cup {str}
  BY <1>3 DEF PartlySubstituted
<1> DEFINE R1 == R \cup {x}
<1>10. R1 \in SUBSET Places(original) /\ x' = x  BY <1>1, <1>5, <1>6
<1> HIDE DEF x
<1>11. (R1 \in SUBSET Places(original))'  BY <1>8, <1>10
<1>12. (script = Substituted(original, R1))'  BY <1>7, <1>8
<1>13. (\A y \in Places(original) \ R1 : y[1] \in left \cup {str})'
  BY <1>1, <1>8, <1>9, <1>10
<1>14. PartlySubstituted(R1)'  BY <1>11, <1>12, <1>13 DEF PartlySubstituted
<1> QED  BY <1>14

LEMMA NothingFoundKeeps == TypeOK /\ IInv /\ NothingFound => IInv'
<1> SUFFICES ASSUME TypeOK, IInv, NothingFound, Unmistakable' PROVE \E R : PartlySubstituted(R)'
  BY DEF IInv
<1>1. /\ original' = original /\ hashes' = hashes /\ left' = left /\ script' = script
      /\ str' = NoText /\ str # NoText /\ Occurrences(script, HashWord(str)) = {}
  BY DEF NothingFound
<1>2. Unmistakable  BY <1>1 DEF Unmistakable
<1>3. PICK R : PartlySubstituted(R)  BY <1>2 DEF IInv
<1>4. R \in SUBSET Places(original) /\ script = Substituted(original, R)
  BY <1>3 DEF PartlySubstituted
<1>5. ASSUME NEW x \in Places(original) \ R, x[1] = str PROVE FALSE
  <2>1. /\ At(original, x[2], HashWord(str)) /\ x[2] \in Nat /\ x[2] \in DOMAIN original
    BY <1>5 DEF Places, At
  <2>2. ASSUME NEW k \in 0 .. Width - 1
        PROVE  x[2] + k \in DOMAIN script /\ script[x[2] + k] = HashWord(str)[k]
    <3>1. x[2] + k \in DOMAIN original /\ original[x[2] + k] = HashWord(str)[k]
      BY <2>1 DEF At
    <3>2. Covers(x, x[2] + k)  BY <2>1, WidthAssumption DEF Covers
    <3>3. \A y \in R : ~Covers(y, x[2] + k)
      <4> SUFFICES ASSUME NEW y \in R, Covers(y, x[2] + k) PROVE FALSE  OBVIOUS
      <4>1. y = x  BY <1>2, <1>4, <3>2, PlacesApart
      <4> QED  BY <1>5, <4>1
    <3>4. script[x[2] + k] = original[x[2] + k]
      BY <1>2, <1>4, <3>1, <3>3, SubstitutedFacts
    <3> QED  BY <3>1, <3>4 DEF TypeOK
  <2>3. x[2] \in Occurrences(script, HashWord(str))
    BY <2>1, <2>2 DEF Occurrences, At, TypeOK
  <2> QED  BY <1>1, <2>3
<1>6. \A x \in Places(original) \ R : x[1] \in left
  BY <1>3, <1>5 DEF PartlySubstituted
<1>7. Places(original)' = Places(original)
      /\ Substituted(original, R)' = Substituted(original, R)
  BY <1>1 DEF Places, Substituted
<1>8. PartlySubstituted(R)'  BY <1>1, <1>4, <1>6, <1>7 DEF PartlySubstituted
<1> QED  BY <1>8

LEMMA VisitKeeps == ASSUME TypeOK, IInv, NEW t \in left, Visit(t) PROVE IInv'
<1> SUFFICES ASSUME Unmistakable' PROVE \E R : PartlySubstituted(R)'  BY DEF IInv
<1>1. /\ original' = original /\ hashes' = hashes /\ script' = script
      /\ left \subseteq left' \cup {str'} /\ str = NoText
  BY DEF Visit
<1>2. Unmistakable  BY <1>1 DEF Unmistakable
<1>3. PICK R : PartlySubstituted(R)  BY <1>2 DEF IInv
<1>4. Places(original)' = Places(original)
      /\ Substituted(original, R)' = Substituted(original, R)
  BY <1>1 DEF Places, Substituted
<1>5. /\ R \in SUBSET Places(original) /\ script = Substituted(original, R)
      /\ \A x \in Places(original) \ R : x[1] \in left \cup {str}
  BY <1>3 DEF PartlySubstituted
<1>6. \A x \in Places(original) \ R : x[1] \in left' \cup {str'}
  <2> SUFFICES ASSUME NEW x \in Places(original) \ R PROVE x[1] \in left' \cup {str'}
    OBVIOUS
  <2>1. x[1] \in DOMAIN hashes /\ x[1] \in left \cup {str}  BY <1>5 DEF Places
  <2>2. x[1] # NoText  BY <2>1, TextAssumption DEF TypeOK
  <2> QED  BY <1>1, <2>1, <2>2
<1>7. PartlySubstituted(R)'  BY <1>1, <1>4, <1>5, <1>6 DEF PartlySubstituted
<1> QED  BY <1>7

LEMMA NextIInv == TypeOK /\ IInv /\ [Next]_vars => IInv'
<1> SUFFICES ASSUME TypeOK, IInv, [Next]_vars PROVE IInv'  OBVIOUS
<1>1. CASE ReplaceFound  BY <1>1, ReplaceKeeps
<1>2. CASE NothingFound  BY <1>2, NothingFoundKeeps
<1>3. ASSUME NEW t \in left, Visit(t) PROVE IInv'  BY <1>3, VisitKeeps
<1>4. CASE UNCHANGED vars
  BY <1>4 DEF vars, IInv, PartlySubstituted, Places, Substituted, Unmistakable
<1> QED  BY <1>1, <1>2, <1>3, <1>4 DEF Next, Terminated

\* At the end no occurrence is left to be replaced.
LEMMA IInvImplies == TypeOK /\ IInv => AllAtOnce
<1> SUFFICES ASSUME TypeOK, IInv, Done, Unmistakable
             PROVE  script = Substituted(original, Places(original))
  BY DEF AllAtOnce
<1>1. PICK R : PartlySubstituted(R)  BY DEF IInv
<1>2. ASSUME NEW x \in Places(original) \ R PROVE FALSE
  <2>1. x[1] \in DOMAIN hashes /\ x[1] = NoText
    BY <1>1 DEF PartlySubstituted, Places, Done
  <2> QED  BY <2>1, TextAssumption DEF TypeOK
<1>3. R = Places(original)  BY <1>1, <1>2 DEF PartlySubstituted
<1> QED  BY <1>1, <1>3 DEF PartlySubstituted

\* AllAtOnce, for every script, private file, width and order of the map.
THEOREM ReplacedAllAtOnce == Spec => []AllAtOnce
<1>1. Spec => []TypeOK  BY HashReplaceTypeCorrect
<1> QED  BY <1>1, InitTypeOK, InitIInv, NextIInv, IInvImplies, PTL DEF Spec
-----------------------------------------------------------------------------
(* The hash of a text.                                                     *)

\* A number has one remainder.
LEMMA RemainderIs ==
  ASSUME NEW M \in Nat \ {0}, NEW x \in Nat, NEW q \in Int, NEW r \in 0 .. M - 1, x = M * q + r
  PROVE  x % M = r
<1> DEFINE d == x \div M
           s == x % M
<1>1. d \in Int /\ s \in 0 .. M - 1 /\ x = M * d + s  OBVIOUS
<1> HIDE DEF d, s
<1>2. M * q + r = M * d + s  BY <1>1
<1>3. CASE q < d
  <2>1. d = q + (d - q) /\ d - q - 1 \in Nat  BY <1>1, <1>3
  <2>2. M * d = M * q + M + M * (d - q - 1)  BY <1>1
  <2>3. M * (d - q - 1) \in Nat  BY <2>1
  <2>4. M * d >= M * q + M  BY <2>2, <2>3, <1>1
  <2> QED  BY <1>1, <1>2, <2>4
<1>4. CASE q > d
  <2>1. q - d - 1 \in Nat  BY <1>1, <1>4
  <2>2. M * q = M * d + M + M * (q - d - 1)  BY <1>1
  <2>3. M * (q - d - 1) \in Nat  BY <2>1
  <2>4. M * q >= M * d + M  BY <2>2, <2>3, <1>1
  <2> QED  BY <1>1, <1>2, <2>4
<1>5. CASE q = d
  <2>1. M * q = M * d /\ M * q \in Int  BY <1>1, <1>5
  <2> QED  BY <1>1, <1>2, <2>1 DEF s
<1> QED  BY <1>1, <1>3, <1>4, <1>5

\* The lower half of a number is that of the wider number it is cut from.
LEMMA LowerHalf ==
  ASSUME NEW M \in Nat \ {0}, NEW x \in Nat
  PROVE  (x % (M * M)) % M = x % M
<1> DEFINE W == M * M
           d == x \div W
           y == x % W
<1>1. W \in Nat \ {0}  OBVIOUS
<1> HIDE DEF W
<1>2. d \in Int /\ y \in 0 .. W - 1 /\ x = W * d + y  BY <1>1
<1> HIDE DEF d, y
<1> DEFINE e == y \div M
           r == y % M
<1>3. e \in Int /\ r \in 0 .. M - 1 /\ y = M * e + r  BY <1>2
<1> HIDE DEF e, r
<1>4. W * d = M * (M * d)  BY <1>2 DEF W
<1>5. x = M * (M * d + e) + r  BY <1>2, <1>3, <1>4
<1>6. M * d + e \in Int  BY <1>2, <1>3
<1>7. x % M = r  BY <1>3, <1>5, <1>6, RemainderIs
<1> QED  BY <1>7 DEF r, y, W

\* The lower half of a product depends on that of a factor.
LEMMA LowerFactor ==
  ASSUME NEW M \in Nat \ {0}, NEW x \in Nat, NEW k \in Nat
  PROVE  (x * k) % M = ((x % M) * k) % M
<1> DEFINE d == x \div M
           y == x % M
<1>1. d \in Int /\ y \in 0 .. M - 1 /\ x = M * d + y  OBVIOUS
<1> HIDE DEF d, y
<1> DEFINE z == y * k
           e == z \div M
           r == z % M
<1>2. z \in Nat  BY <1>1
<1> HIDE DEF z
<1>3. e \in Int /\ r \in 0 .. M - 1 /\ z = M * e + r  BY <1>2
<1> HIDE DEF e, r
<1>4. x * k = M * (d * k) + z  BY <1>1 DEF z
<1>5. x * k = M * (d * k + e) + r  BY <1>1, <1>3, <1>4
<1>6. d * k + e \in Int /\ x * k \in Nat  BY <1>1, <1>3
<1>7. (x * k) % M = r  BY <1>3, <1>5, <1>6, RemainderIs
<1> QED  BY <1>7 DEF r, z, y

\* What is xored with a character and multiplied.
Turned(h, c) == (Xor64(h, Extended(lowerc(c))) * Iv) % Wide

\* The same on the lower half.
LowTurned(l, c) == (Xor64(l, Extended(lowerc(c)) % Mask) * Iv) % Mask

LEMMA WideIs ==
  Mask \in Nat \ {0} /\ Wide \in Nat \ {0} /\ Mask <= Wide
<1>1. Mask \in Nat \ {0}  BY HashAssumption
<1>2. Mask * Mask \in Nat \ {0}  BY <1>1
<1>3. Mask <= Mask * Mask
  <2>1. Mask * Mask = Mask + Mask * (Mask - 1) /\ Mask - 1 \in Nat  BY <1>1
  <2>2. Mask * (Mask - 1) \in Nat  BY <1>1, <2>1
  <2> QED  BY <1>1, <2>1, <2>2
<1> QED  BY <1>1, <1>2, <1>3 DEF Wide

LEMMA ExtendedIs ==
  ASSUME NEW c \in Char
  PROVE  Extended(lowerc(c)) \in 0 .. Wide - 1 /\ Extended(lowerc(c)) % Mask \in 0 .. Mask - 1
<1>1. Mask \in Nat \ {0} /\ Wide \in Nat \ {0} /\ Mask <= Wide  BY WideIs
<1>2. lowerc(c) \in -(Mask \div 2) .. (Mask - 1) \div 2  BY CharAssumption
<1>3. Mask \div 2 \in 0 .. Mask /\ (Mask - 1) \div 2 \in 0 .. Mask - 1  BY <1>1
<1>4. Extended(lowerc(c)) \in 0 .. Wide - 1  BY <1>1, <1>2, <1>3 DEF Extended
<1> QED  BY <1>1, <1>4

\* Characters of one lower half are one, once in lower case.
LEMMA CharactersApart ==
  ASSUME NEW c \in Char, NEW d \in Char,
         Extended(lowerc(c)) % Mask = Extended(lowerc(d)) % Mask
  PROVE  lowerc(c) = lowerc(d)
<1> DEFINE M == Mask
           a == lowerc(c)
           b == lowerc(d)
           u == IF a < 0 THEN M + a ELSE a
           v == IF b < 0 THEN M + b ELSE b
<1>1. M \in Nat \ {0} /\ Wide = M * M  BY WideIs DEF Wide
<1>2. a \in -(M \div 2) .. (M - 1) \div 2 /\ b \in -(M \div 2) .. (M - 1) \div 2
  BY CharAssumption
<1>3. Extended(a) \in Nat /\ Extended(b) \in Nat  BY ExtendedIs, WideIs
<1>4. Extended(a) = IF a < 0 THEN M * M + a ELSE a
  BY <1>1 DEF Extended
<1>5. Extended(b) = IF b < 0 THEN M * M + b ELSE b
  BY <1>1 DEF Extended
<1>6. Extended(a) % Mask = Extended(b) % Mask  OBVIOUS
<1> HIDE DEF M, a, b
<1>7. u \in 0 .. M - 1 /\ v \in 0 .. M - 1  BY <1>1, <1>2
<1>8. Extended(a) = M * (IF a < 0 THEN M - 1 ELSE 0) + u
  <2>1. M * M = M * (M - 1) + M /\ M * 0 = 0  BY <1>1
  <2> QED  BY <1>1, <1>2, <1>4, <2>1
<1>9. Extended(b) = M * (IF b < 0 THEN M - 1 ELSE 0) + v
  <2>1. M * M = M * (M - 1) + M /\ M * 0 = 0  BY <1>1
  <2> QED  BY <1>1, <1>2, <1>5, <2>1
<1> HIDE DEF u, v
<1>10. Extended(a) % M = u
  <2>1. (IF a < 0 THEN M - 1 ELSE 0) \in Int  BY <1>1
  <2> QED  BY <1>1, <1>3, <1>7, <1>8, <2>1, RemainderIs
<1>11. Extended(b) % M = v
  <2>1. (IF b < 0 THEN M - 1 ELSE 0) \in Int  BY <1>1
  <2> QED  BY <1>1, <1>3, <1>7, <1>9, <2>1, RemainderIs
<1>12. u = v  BY <1>6, <1>10, <1>11 DEF M
<1>13. a = b  BY <1>1, <1>2, <1>12 DEF u, v
<1> QED  BY <1>13 DEF a, b

\* One more character is one more turn of the lower half.
LEMMA TurnedIs ==
  ASSUME NEW h \in 0 .. Wide - 1, NEW c \in Char
  PROVE  /\ Turned(h, c) \in 0 .. Wide - 1
         /\ Turned(h, c) % Mask = LowTurned(h % Mask, c)
<1> DEFINE e == Extended(lowerc(c))
           x == Xor64(h, e)
<1>1. Mask \in Nat \ {0} /\ Wide \in Nat \ {0} /\ Iv \in Nat /\ Wide = Mask * Mask
  BY WideIs, HashAssumption DEF Wide
<1>2. e \in 0 .. Wide - 1  BY ExtendedIs
<1> HIDE DEF e
<1>3. x \in 0 .. Wide - 1 /\ x % Mask = Xor64(h % Mask, e % Mask)  BY <1>2, XorAssumption
<1> HIDE DEF x
<1>4. x * Iv \in Nat  BY <1>1, <1>3
<1>5. (x * Iv) % Wide \in 0 .. Wide - 1  BY <1>1, <1>4
<1>6. ((x * Iv) % Wide) % Mask = (x * Iv) % Mask  BY <1>1, <1>4, LowerHalf
<1>7. (x * Iv) % Mask = ((x % Mask) * Iv) % Mask  BY <1>1, <1>3, LowerFactor
<1> QED  BY <1>3, <1>5, <1>6, <1>7 DEF Turned, LowTurned, x, e

\* Numbers below Mask are xored to numbers below Mask, and by no number to the same.
LEMMA XorApart ==
  ASSUME NEW m \in 0 .. Mask - 1, NEW n \in 0 .. Mask - 1, NEW k \in 0 .. Mask - 1
  PROVE  /\ Xor64(m, n) \in 0 .. Mask - 1
         /\ Xor64(m, k) = Xor64(n, k) => m = n
         /\ Xor64(k, m) = Xor64(k, n) => m = n
<1>1. Mask \in Nat \ {0} /\ Wide \in Nat \ {0} /\ Mask <= Wide  BY WideIs
<1>2. m \in 0 .. Wide - 1 /\ n \in 0 .. Wide - 1 /\ k \in 0 .. Wide - 1  BY <1>1
<1>3. m % Mask = m /\ n % Mask = n  BY <1>1
<1>4. Xor64(m, n) \in Nat /\ Xor64(m, n) % Mask = Xor64(m, n)  BY <1>2, <1>3, XorAssumption, <1>1
<1>5. Xor64(m, n) \in 0 .. Mask - 1  BY <1>1, <1>4
<1>6. Xor64(Xor64(m, k), k) = m /\ Xor64(Xor64(n, k), k) = n  BY <1>2, XorAssumption
<1>7. Xor64(k, m) = Xor64(m, k) /\ Xor64(k, n) = Xor64(n, k)  BY <1>2, XorAssumption
<1> QED  BY <1>5, <1>6, <1>7

LEMMA LowTurnedApart ==
  ASSUME NEW m \in 0 .. Mask - 1, NEW n \in 0 .. Mask - 1, NEW c \in Char, NEW d \in Char,
         LowTurned(m, c) = LowTurned(n, d)
  PROVE  (m = n) = (lowerc(c) = lowerc(d))
<1> DEFINE e == Extended(lowerc(c)) % Mask
           f == Extended(lowerc(d)) % Mask
<1>1. e \in 0 .. Mask - 1 /\ f \in 0 .. Mask - 1  BY ExtendedIs
<1>2. (Xor64(m, e) * Iv) % Mask = (Xor64(n, f) * Iv) % Mask  BY DEF LowTurned
<1>3. e = f => lowerc(c) = lowerc(d)  BY CharactersApart
<1>4. lowerc(c) = lowerc(d) => e = f  OBVIOUS
<1> HIDE DEF e, f
<1>5. Xor64(m, e) \in 0 .. Mask - 1 /\ Xor64(n, f) \in 0 .. Mask - 1  BY <1>1, XorApart
<1>6. Xor64(m, e) = Xor64(n, f)  BY <1>2, <1>5, IvAssumption
<1>7. m = n => e = f  BY <1>1, <1>6, XorApart
<1>8. e = f => m = n  BY <1>1, <1>6, XorApart
<1> QED  BY <1>3, <1>4, <1>7, <1>8

\* h[n] is the hash of the first n characters of text, up to the m-th.
HashesUpTo(text, m, h) ==
  h = [n \in 0 .. m |->
         IF n = 0 THEN Prime ELSE (Xor64(h[n - 1], Extended(lowerc(text[n]))) * Iv) % Wide]

LEMMA HashesExist ==
  ASSUME NEW text, NEW m \in Nat
  PROVE  \E h : HashesUpTo(text, m, h)
<1> DEFINE none == {n \in Nat : ~\E h : HashesUpTo(text, n, h)}
<1>1. none = {}
  <2> SUFFICES ASSUME none # {} PROVE FALSE  OBVIOUS
  <2>1. PICK n \in none : \A k \in none : n <= k
    <3>1. none \in SUBSET Nat  OBVIOUS
    <3> HIDE DEF none
    <3> QED  BY <3>1, SmallestElement
  <2>2. n \in Nat  BY <2>1
  <2>3. CASE n = 0
    <3> DEFINE h == [k \in 0 .. 0 |-> Prime]
    <3>1. h = [k \in 0 .. n |->
            IF k = 0 THEN Prime ELSE (Xor64(h[k - 1], Extended(lowerc(text[k]))) * Iv) % Wide]
      BY <2>3
    <3> HIDE DEF h
    <3>2. HashesUpTo(text, n, h)  BY <3>1 DEF HashesUpTo
    <3> QED  BY <2>1, <3>2
  <2>4. CASE n # 0
    <3>1. n - 1 \in Nat /\ n - 1 \notin none  BY <2>1, <2>2, <2>4
    <3>2. PICK g : HashesUpTo(text, n - 1, g)  BY <3>1
    <3>3. \A k \in 0 .. n - 1 : g[k] =
            IF k = 0 THEN Prime ELSE (Xor64(g[k - 1], Extended(lowerc(text[k]))) * Iv) % Wide
      BY <3>2 DEF HashesUpTo
    <3> DEFINE last == (Xor64(g[n - 1], Extended(lowerc(text[n]))) * Iv) % Wide
               h == [k \in 0 .. n |-> IF k = n THEN last ELSE g[k]]
    <3>4. ASSUME NEW k \in 0 .. n
          PROVE  h[k] =
            IF k = 0 THEN Prime ELSE (Xor64(h[k - 1], Extended(lowerc(text[k]))) * Iv) % Wide
      <4>1. CASE k = n
        <5>1. h[k] = last /\ k # 0  BY <2>4, <4>1
        <5>2. k - 1 \in 0 .. n /\ k - 1 # n  BY <2>2, <2>4, <4>1
        <5>3. h[k - 1] = g[n - 1]  BY <4>1, <5>2
        <5> HIDE DEF h
        <5> QED  BY <4>1, <5>1, <5>3
      <4>2. CASE k # n
        <5>1. k \in 0 .. n - 1 /\ h[k] = g[k]  BY <2>2, <4>2
        <5>2. CASE k = 0  BY <3>3, <5>1, <5>2
        <5>3. CASE k # 0
          <6>1. k - 1 \in 0 .. n /\ k - 1 # n  BY <2>2, <5>1, <5>3
          <6>2. h[k - 1] = g[k - 1]  BY <6>1
          <6> HIDE DEF h
          <6> QED  BY <3>3, <5>1, <5>3, <6>2
        <5> QED  BY <5>2, <5>3
      <4> QED  BY <4>1, <4>2
    <3>5. h = [k \in 0 .. n |-> h[k]]  OBVIOUS
    <3> HIDE DEF h
    <3>6. h = [k \in 0 .. n |->
            IF k = 0 THEN Prime ELSE (Xor64(h[k - 1], Extended(lowerc(text[k]))) * Iv) % Wide]
      BY <3>4, <3>5
    <3>7. HashesUpTo(text, n, h)  BY <3>6 DEF HashesUpTo
    <3> QED  BY <2>1, <3>7
  <2> QED  BY <2>3, <2>4
<1> QED  BY <1>1

\* l[n] is the lower half of the hash of the first n characters of text.
LowHashes(text, l) ==
  /\ l[0] = Prime % Mask
  /\ \A n \in 0 .. Len(text) : l[n] \in 0 .. Mask - 1
  /\ \A n \in 1 .. Len(text) : l[n] = LowTurned(l[n - 1], text[n])

LEMMA HashIsLow ==
  ASSUME NEW text \in Seq(Char)
  PROVE  \E l : LowHashes(text, l) /\ HashT7Pre(text) = l[Len(text)]
<1> DEFINE N == Len(text)
           h == CHOOSE g : HashesUpTo(text, N, g)
           l == [n \in 0 .. N |-> h[n] % Mask]
<1>1. N \in Nat /\ \A n \in 1 .. N : text[n] \in Char  OBVIOUS
<1>2. HashesUpTo(text, N, h)  BY <1>1, HashesExist
<1>3. Hash64A(text, Prime, Iv) = h[N]  BY DEF Hash64A, HashesUpTo
<1> HIDE DEF N, h
<1>4. \A n \in 0 .. N : h[n] = IF n = 0 THEN Prime ELSE Turned(h[n - 1], text[n])
  BY <1>2 DEF HashesUpTo, Turned
<1>5. Mask \in Nat \ {0} /\ Wide \in Nat \ {0} /\ Prime \in 0 .. Wide - 1
  BY WideIs, HashAssumption
<1> DEFINE wrong == {n \in 0 .. N : h[n] \notin 0 .. Wide - 1}
<1>6. wrong = {}
  <2> SUFFICES ASSUME wrong # {} PROVE FALSE  OBVIOUS
  <2>1. PICK n \in wrong : \A k \in wrong : n <= k
    <3>1. wrong \in SUBSET Nat  OBVIOUS
    <3> HIDE DEF wrong
    <3> QED  BY <3>1, SmallestElement
  <2>2. n \in 1 .. N /\ n \in 0 .. N  BY <1>1, <1>4, <1>5, <2>1
  <2>3. n - 1 \in 0 .. N /\ n - 1 \notin wrong  BY <1>1, <2>1, <2>2
  <2>4. h[n] = Turned(h[n - 1], text[n])  BY <1>4, <2>2
  <2>5. h[n] \in 0 .. Wide - 1  BY <1>1, <2>2, <2>3, <2>4, TurnedIs
  <2> QED  BY <2>1, <2>5
<1>7. \A n \in 0 .. N : h[n] \in 0 .. Wide - 1  BY <1>6
<1>8. \A n \in 0 .. N : l[n] = h[n] % Mask /\ l[n] \in 0 .. Mask - 1
  BY <1>5, <1>7
<1> HIDE DEF l
<1>9. ASSUME NEW n \in 1 .. N PROVE l[n] = LowTurned(l[n - 1], text[n])
  <2>1. n \in 0 .. N /\ n - 1 \in 0 .. N /\ n # 0  BY <1>1
  <2>2. h[n] = Turned(h[n - 1], text[n])  BY <1>4, <2>1
  <2>3. h[n] % Mask = LowTurned(h[n - 1] % Mask, text[n])
    BY <1>1, <1>7, <2>1, <2>2, TurnedIs
  <2> QED  BY <1>8, <2>1, <2>3
<1>10. l[0] = Prime % Mask /\ HashT7Pre(text) = l[N]
  <2>1. 0 \in 0 .. N /\ N \in 0 .. N  BY <1>1
  <2> QED  BY <1>3, <1>4, <1>8, <2>1 DEF HashT7Pre
<1>11. LowHashes(text, l)  BY <1>8, <1>9, <1>10 DEF LowHashes, N
<1> QED  BY <1>10, <1>11 DEF N

-----------------------------------------------------------------------------
(* SameHash.                                                               *)

LEMMA SameCharacterIs ==
  ASSUME NEW c \in Char, NEW d \in Char
  PROVE  SameCharacter(c, d) <=> lowerc(c) = lowerc(d)
<1>1. c \in Int /\ d \in Int  BY CharAssumption
<1>2. SameCharacter(c, d) => lowerc(c) = lowerc(d)
  BY <1>1, LettersAssumption DEF SameCharacter, lowerc
<1>3. ASSUME lowerc(c) = lowerc(d) PROVE SameCharacter(c, d)
  <2>1. CASE c \in UpperCase /\ d \in UpperCase
    BY <1>1, <1>3, <2>1, LettersAssumption DEF SameCharacter, lowerc
  <2>2. CASE c \in UpperCase /\ d \notin UpperCase
    BY <1>1, <1>3, <2>2, LettersAssumption DEF SameCharacter, lowerc
  <2>3. CASE c \notin UpperCase /\ d \in UpperCase
    BY <1>1, <1>3, <2>3, LettersAssumption DEF SameCharacter, lowerc
  <2>4. CASE c \notin UpperCase /\ d \notin UpperCase
    BY <1>1, <1>3, <2>4, LettersAssumption DEF SameCharacter, lowerc
  <2> QED  BY <2>1, <2>2, <2>3, <2>4
<1> QED  BY <1>2, <1>3

\* Up to where two texts first differ, their hashes are the same.
LEMMA SameSoFar ==
  ASSUME NEW s \in Seq(Char), NEW t \in Seq(Char), NEW l, NEW m,
         LowHashes(s, l), LowHashes(t, m), NEW i \in 0 .. Len(s), i <= Len(t),
         \A j \in 1 .. i : lowerc(s[j]) = lowerc(t[j])
  PROVE  l[i] = m[i]
<1> DEFINE differ == {n \in 0 .. i : l[n] # m[n]}
<1>1. Len(s) \in Nat /\ Len(t) \in Nat  OBVIOUS
<1>2. differ = {}
  <2> SUFFICES ASSUME differ # {} PROVE FALSE  OBVIOUS
  <2>1. PICK n \in differ : \A k \in differ : n <= k
    <3>1. differ \in SUBSET Nat  OBVIOUS
    <3> HIDE DEF differ
    <3> QED  BY <3>1, SmallestElement
  <2>2. n \in 0 .. i /\ l[n] # m[n]  BY <2>1
  <2>3. n # 0  BY <2>2 DEF LowHashes
  <2>4. n - 1 \in 0 .. i /\ n - 1 \notin differ  BY <1>1, <2>1, <2>2, <2>3
  <2>5. n \in 1 .. Len(s) /\ n \in 1 .. Len(t) /\ n \in 1 .. i  BY <1>1, <2>2, <2>3
  <2>6. l[n] = LowTurned(l[n - 1], s[n]) /\ m[n] = LowTurned(m[n - 1], t[n])
    BY <2>5 DEF LowHashes
  <2>7. l[n - 1] = m[n - 1]  BY <2>4
  <2>8. lowerc(s[n]) = lowerc(t[n])  BY <2>5
  <2> QED  BY <2>2, <2>6, <2>7, <2>8 DEF LowTurned
<1> QED  BY <1>2

\* Once different, they stay so as long as the characters are the same.
LEMMA DifferentFromThere ==
  ASSUME NEW s \in Seq(Char), NEW t \in Seq(Char), NEW l, NEW m,
         LowHashes(s, l), LowHashes(t, m), Len(s) = Len(t),
         NEW i \in 0 .. Len(s), l[i] # m[i],
         \A j \in i + 1 .. Len(s) : s[j] = t[j]
  PROVE  l[Len(s)] # m[Len(s)]
<1> DEFINE agree == {n \in i .. Len(s) : l[n] = m[n]}
<1>1. Len(s) \in Nat  OBVIOUS
<1>2. agree = {}
  <2> SUFFICES ASSUME agree # {} PROVE FALSE  OBVIOUS
  <2>1. PICK n \in agree : \A k \in agree : n <= k
    <3>1. agree \in SUBSET Nat  OBVIOUS
    <3> HIDE DEF agree
    <3> QED  BY <3>1, SmallestElement
  <2>2. n \in i + 1 .. Len(s) /\ l[n] = m[n]  BY <1>1, <2>1
  <2>3. n \in 1 .. Len(s) /\ n - 1 \in 0 .. Len(s) /\ n - 1 \in i .. Len(s)
    BY <1>1, <2>2
  <2>4. n - 1 \notin agree  BY <1>1, <2>1, <2>2
  <2>5. l[n] = LowTurned(l[n - 1], s[n]) /\ m[n] = LowTurned(m[n - 1], t[n])
    BY <2>3 DEF LowHashes
  <2>6. l[n - 1] \in 0 .. Mask - 1 /\ m[n - 1] \in 0 .. Mask - 1
    BY <2>3 DEF LowHashes
  <2>7. s[n] = t[n] /\ s[n] \in Char /\ t[n] \in Char  BY <2>2, <2>3
  <2>8. l[n - 1] = m[n - 1]  BY <2>2, <2>5, <2>6, <2>7, LowTurnedApart
  <2> QED  BY <2>3, <2>4, <2>8
<1> QED  BY <1>1, <1>2

\* The hash of a text in terms of the lower half alone, and what HashT7Post adds.
LEMMA HashT7Is ==
  ASSUME NEW s \in Seq(Char), NEW t \in Seq(Char)
  PROVE  /\ HashT7(s) \in 0 .. Mask - 1
         /\ HashT7(s) = HashT7(t) <=> HashT7Pre(s) = HashT7Pre(t)
<1>1. ASSUME NEW u \in Seq(Char) PROVE HashT7Pre(u) \in 0 .. Mask - 1
  <2>1. PICK l : LowHashes(u, l) /\ HashT7Pre(u) = l[Len(u)]  BY HashIsLow
  <2>2. Len(u) \in 0 .. Len(u)  OBVIOUS
  <2> QED  BY <2>1, <2>2 DEF LowHashes
<1>2. HashT7Pre(s) \in 0 .. Mask - 1 /\ HashT7Pre(t) \in 0 .. Mask - 1  BY <1>1
<1>3. Mask \in Nat \ {0} /\ Iv \in Nat  BY HashAssumption
<1>4. HashT7Pre(s) * Iv \in Nat  BY <1>2, <1>3
<1>5. HashT7(s) \in 0 .. Mask - 1  BY <1>3, <1>4 DEF HashT7, HashT7Post
<1> QED  BY <1>2, <1>5, IvAssumption DEF HashT7, HashT7Post

LEMMA HashesAlike ==
  ASSUME NEW s \in Seq(Char), NEW t \in Seq(Char)
  PROVE  /\ SameText(s, t) => HashT7(s) = HashT7(t)
         /\ OneApart(s, t) /\ HashT7(s) = HashT7(t) => SameText(s, t)
<1>1. PICK l : LowHashes(s, l) /\ HashT7Pre(s) = l[Len(s)]  BY HashIsLow
<1>2. PICK m : LowHashes(t, m) /\ HashT7Pre(t) = m[Len(t)]  BY HashIsLow
<1>3. Len(s) \in Nat /\ Len(t) \in Nat /\ DOMAIN s = 1 .. Len(s)  OBVIOUS
<1>4. \A j \in 1 .. Len(s) : s[j] \in Char  OBVIOUS
<1>5. \A j \in 1 .. Len(t) : t[j] \in Char  OBVIOUS
<1>6. ASSUME SameText(s, t) PROVE HashT7(s) = HashT7(t)
  <2>1. Len(s) = Len(t) /\ Len(s) \in 0 .. Len(s) /\ Len(s) <= Len(t)
    BY <1>3, <1>6 DEF SameText
  <2>2. \A j \in 1 .. Len(s) : lowerc(s[j]) = lowerc(t[j])
    BY <1>3, <1>4, <1>5, <1>6, <2>1, SameCharacterIs DEF SameText
  <2>3. l[Len(s)] = m[Len(s)]  BY <1>1, <1>2, <2>1, <2>2, SameSoFar
  <2> QED  BY <1>1, <1>2, <2>1, <2>3, HashT7Is
<1>7. ASSUME OneApart(s, t), HashT7(s) = HashT7(t) PROVE SameText(s, t)
  <2>1. PICK i \in 1 .. Len(s) : \A j \in 1 .. Len(s) : j # i => s[j] = t[j]
    BY <1>3, <1>7 DEF OneApart
  <2>2. Len(s) = Len(t)  BY <1>7 DEF OneApart
  <2>3. i \in 1 .. Len(t) /\ i - 1 \in 0 .. Len(s) /\ i - 1 <= Len(t) /\ i \in 0 .. Len(s)
    BY <1>3, <2>2
  <2>4. \A j \in 1 .. i - 1 : j \in 1 .. Len(s) /\ j # i  BY <1>3, <2>3
  <2>5. \A j \in 1 .. i - 1 : lowerc(s[j]) = lowerc(t[j])  BY <2>1, <2>4
  <2>6. l[i - 1] = m[i - 1]  BY <1>1, <1>2, <2>3, <2>5, SameSoFar
  <2>7. \A j \in i + 1 .. Len(s) : j \in 1 .. Len(s) /\ j # i  BY <1>3, <2>3
  <2>8. \A j \in i + 1 .. Len(s) : s[j] = t[j]  BY <2>1, <2>7
  <2>9. l[Len(s)] = m[Len(s)]  BY <1>1, <1>2, <1>7, <2>2, HashT7Is
  <2>10. l[i] = m[i]  BY <1>1, <1>2, <2>2, <2>3, <2>8, <2>9, DifferentFromThere
  <2>11. l[i] = LowTurned(l[i - 1], s[i]) /\ m[i] = LowTurned(m[i - 1], t[i])
    BY <1>1, <1>2, <2>2 DEF LowHashes
  <2>12. l[i - 1] \in 0 .. Mask - 1 /\ m[i - 1] \in 0 .. Mask - 1
    BY <1>1, <1>2, <2>2, <2>3 DEF LowHashes
  <2>13. lowerc(s[i]) = lowerc(t[i])
    <3>1. s[i] \in Char /\ t[i] \in Char  BY <1>4, <1>5, <2>3
    <3>2. LowTurned(l[i - 1], s[i]) = LowTurned(m[i - 1], t[i])  BY <2>10, <2>11
    <3> QED  BY <2>6, <2>12, <3>1, <3>2, LowTurnedApart
  <2>14. \A j \in 1 .. Len(s) : SameCharacter(s[j], t[j])
    <3> SUFFICES ASSUME NEW j \in 1 .. Len(s) PROVE SameCharacter(s[j], t[j])  OBVIOUS
    <3>1. lowerc(s[j]) = lowerc(t[j])  BY <2>1, <2>13
    <3> QED  BY <1>4, <1>5, <2>2, <3>1, SameCharacterIs
  <2> QED  BY <1>3, <2>2, <2>14 DEF SameText
<1> QED  BY <1>6, <1>7

\* SameHash, for every private file, whatever numbers the hash is made of.
THEOREM HashesOfTexts == Spec => []SameHash
<1>1. TypeOK => SameHash
  <2> SUFFICES ASSUME TypeOK, NEW s \in DOMAIN hashes, NEW t \in DOMAIN hashes
               PROVE  /\ SameText(s, t) => HashWord(s) = HashWord(t)
                      /\ OneApart(s, t) /\ HashWord(s) = HashWord(t) => SameText(s, t)
    BY DEF SameHash
  <2>1. /\ s \in Seq(Char) /\ HashWord(s) = Stored(HashT7(s))
        /\ t \in Seq(Char) /\ HashWord(t) = Stored(HashT7(t))
    BY StoredAssumption DEF TypeOK
  <2>2. HashT7(s) \in 0 .. Mask - 1 /\ HashT7(t) \in 0 .. Mask - 1  BY <2>1, HashT7Is
  <2>3. HashWord(s) = HashWord(t) <=> HashT7(s) = HashT7(t)
    BY <2>1, <2>2, StoredAssumption
  <2> QED  BY <2>1, <2>3, HashesAlike
<1> QED  BY <1>1, HashReplaceTypeCorrect, PTL
=============================================================================
