--------------------------- MODULE DriverFilesProofs ---------------------------
(***************************************************************************)
(* Proofs about the files that Driver reads and writes, for every command  *)
(* line, tree of files and set of links.                                   *)
(***************************************************************************)
EXTENDS DriverProofs, SequenceTheorems, WellFoundedInduction

-----------------------------------------------------------------------------
(* Least and greatest numbers.                                             *)

LEMMA SmallestElement ==
  ASSUME NEW S \in SUBSET Nat, S # {}
  PROVE  \E n \in S : \A m \in S : n <= m
<1>1. PICK n \in S : \A m \in S : <<m, n>> \notin OpToRel(<, Nat)
  BY WFMin, NatLessThanWellFounded, Zenon
<1>2. \A m \in S : ~(m < n)
  BY <1>1, Zenon DEF OpToRel
<1> QED  BY <1>2

LEMMA GreatestElement ==
  ASSUME NEW N \in Nat, NEW S \in SUBSET (0 .. N), S # {}
  PROVE  \E n \in S : \A m \in S : m <= n
<1> DEFINE T == {m \in Nat : m <= N /\ N - m \in S}
<1>1. T \in SUBSET Nat /\ T # {}
  <2>1. PICK m : m \in S  OBVIOUS
  <2>2. N - m \in Nat /\ N - m <= N /\ N - (N - m) = m  BY <2>1
  <2>3. N - m \in T  BY <2>1, <2>2
  <2> QED  BY <2>3
<1>2. PICK n \in T : \A m \in T : n <= m
  <2> HIDE DEF T
  <2> QED  BY <1>1, SmallestElement
<1>3. N - n \in S  BY <1>2
<1>4. ASSUME NEW m \in S  PROVE m <= N - n
  <2>1. m \in 0 .. N  BY <1>4
  <2>2. N - m \in Nat /\ N - m <= N /\ N - (N - m) = m  BY <2>1
  <2>3. n <= N - m  BY <1>2, <1>4, <2>2
  <2>4. n \in Nat  BY <1>2
  <2> QED  BY <2>1, <2>3, <2>4
<1> QED  BY <1>3, <1>4

-----------------------------------------------------------------------------
(* Prefixes.                                                               *)

Names == STRING \cup {".."}

LEMMA PlainPaths == Plain \subseteq Seq(STRING) /\ Plain \subseteq Seq(Names)
BY SeqMonotonic DEF Plain, Names

LEMMA FirstOf ==
  ASSUME NEW S, NEW s \in Seq(S), NEW n \in 0 .. Len(s)
  PROVE  /\ SubSeq(s, 1, n) \in Seq(S) /\ Len(SubSeq(s, 1, n)) = n
         /\ \A i \in 1 .. n : SubSeq(s, 1, n)[i] = s[i]
<1>1. Len(s) \in Nat  OBVIOUS
<1>2. n \in Nat /\ 1 .. n \subseteq 1 .. Len(s)  BY <1>1
<1>3. \A i \in 1 .. n : s[i] \in S  BY <1>2, ElementOfSeq
<1>4. /\ SubSeq(s, 1, n) \in Seq(S)
      /\ Len(SubSeq(s, 1, n)) = IF 1 <= n THEN n - 1 + 1 ELSE 0
      /\ \A i \in 1 .. n - 1 + 1 : SubSeq(s, 1, n)[i] = s[1 + i - 1]
  BY <1>2, <1>3, SubSeqProperties
<1>5. n - 1 + 1 = n /\ (~(1 <= n) => n = 0) /\ \A i \in 1 .. n : 1 + i - 1 = i  BY <1>2
<1> QED  BY <1>4, <1>5

\* One path begins with another.
LEMMA PrefixIs ==
  ASSUME NEW S, NEW s \in Seq(S), NEW t \in Seq(S)
  PROVE  IsPrefix(s, t) <=> Len(s) <= Len(t) /\ \A i \in 1 .. Len(s) : s[i] = t[i]
<1>1. Len(s) \in Nat /\ Len(t) \in Nat  OBVIOUS
<1>2. CASE Len(s) <= Len(t)
  <2>1. Len(s) \in 0 .. Len(s) /\ Len(s) \in 0 .. Len(t)  BY <1>1, <1>2
  <2> DEFINE a == SubSeq(s, 1, Len(s))
             b == SubSeq(t, 1, Len(s))
  <2>2. /\ a \in Seq(S) /\ Len(a) = Len(s) /\ \A i \in 1 .. Len(s) : a[i] = s[i]
        /\ b \in Seq(S) /\ Len(b) = Len(s) /\ \A i \in 1 .. Len(s) : b[i] = t[i]
    BY <2>1, FirstOf
  <2>3. IsPrefix(s, t) <=> a = b  BY <1>2 DEF IsPrefix
  <2> HIDE DEF a, b
  <2>4. a = b <=> \A i \in 1 .. Len(s) : a[i] = b[i]  BY <2>2, SeqEqual
  <2> QED  BY <1>2, <2>2, <2>3, <2>4
<1>3. CASE ~(Len(s) <= Len(t))  BY <1>3 DEF IsPrefix
<1> QED  BY <1>2, <1>3

LEMMA StrictPrefixIs ==
  ASSUME NEW S, NEW s \in Seq(S), NEW t \in Seq(S)
  PROVE  IsStrictPrefix(s, t) <=> Len(s) < Len(t) /\ \A i \in 1 .. Len(s) : s[i] = t[i]
<1>1. Len(s) \in Nat /\ Len(t) \in Nat  OBVIOUS
<1>2. IsStrictPrefix(s, t) <=> IsPrefix(s, t) /\ s # t  BY DEF IsStrictPrefix
<1>3. ASSUME Len(s) = Len(t), \A i \in 1 .. Len(s) : s[i] = t[i]  PROVE s = t
  BY <1>3, SeqEqual
<1> QED  BY <1>1, <1>2, <1>3, PrefixIs

\* Of two beginnings of a path, one begins with the other.
LEMMA Comparable ==
  ASSUME NEW S, NEW s \in Seq(S), NEW t \in Seq(S), NEW u \in Seq(S),
         IsPrefix(s, u), IsPrefix(t, u)
  PROVE  IsPrefix(s, t) \/ IsPrefix(t, s)
<1>1. Len(s) \in Nat /\ Len(t) \in Nat /\ Len(u) \in Nat  OBVIOUS
<1>2. /\ \A i \in 1 .. Len(s) : s[i] = u[i]
      /\ \A i \in 1 .. Len(t) : t[i] = u[i]
  BY PrefixIs
<1>3. CASE Len(s) <= Len(t)
  <2>1. \A i \in 1 .. Len(s) : i \in 1 .. Len(t)  BY <1>1, <1>3
  <2> QED  BY <1>2, <1>3, <2>1, PrefixIs
<1>4. CASE Len(t) <= Len(s)
  <2>1. \A i \in 1 .. Len(t) : i \in 1 .. Len(s)  BY <1>1, <1>4
  <2> QED  BY <1>2, <1>4, <2>1, PrefixIs
<1> QED  BY <1>1, <1>3, <1>4

LEMMA StrictIsPrefix == ASSUME NEW s, NEW t, IsStrictPrefix(s, t) PROVE IsPrefix(s, t) /\ s # t
BY DEF IsStrictPrefix

LEMMA PrefixOfItself == ASSUME NEW S, NEW s \in Seq(S) PROVE IsPrefix(s, s)
<1>1. Len(s) \in Nat  OBVIOUS
<1> QED  BY <1>1, PrefixIs

\* What lies under a path is that path with more after it.
LEMMA LongerIsUnder ==
  ASSUME NEW S, NEW s \in Seq(S), NEW t \in Seq(S), t # <<>>
  PROVE  s \o t \in Seq(S) /\ IsStrictPrefix(s, s \o t) /\ s \o t # <<>>
<1>1. Len(s) \in Nat /\ Len(t) \in Nat \ {0}  BY EmptySeq
<1>2. /\ s \o t \in Seq(S) /\ Len(s \o t) = Len(s) + Len(t)
      /\ \A i \in 1 .. Len(s) + Len(t) : (s \o t)[i] = IF i <= Len(s) THEN s[i] ELSE t[i - Len(s)]
  BY ConcatProperties
<1>3. \A i \in 1 .. Len(s) : i \in 1 .. Len(s) + Len(t) /\ i <= Len(s)  BY <1>1
<1>4. Len(s) < Len(s) + Len(t) /\ Len(s) + Len(t) # 0  BY <1>1
<1>5. IsStrictPrefix(s, s \o t)  BY <1>2, <1>3, <1>4, StrictPrefixIs
<1>6. Len(<<>>) = 0  OBVIOUS
<1> QED  BY <1>2, <1>4, <1>5, <1>6

-----------------------------------------------------------------------------
(* What Normal makes of a path.                                            *)

\* f[n] is what the first n names of the path lead to.
Walks(path, f) ==
  f = [n \in 0 .. Len(path) |-> IF n = 0 THEN <<>> ELSE Stepped(f[n - 1], path[n])]

LEMMA OneWay ==
  ASSUME NEW path, Len(path) \in Nat, NEW f, NEW g, Walks(path, f), Walks(path, g)
  PROVE  f = g
<1>1. /\ f = [n \in 0 .. Len(path) |-> IF n = 0 THEN <<>> ELSE Stepped(f[n - 1], path[n])]
      /\ g = [n \in 0 .. Len(path) |-> IF n = 0 THEN <<>> ELSE Stepped(g[n - 1], path[n])]
  BY DEF Walks
<1>2. f = [n \in 0 .. Len(path) |-> f[n]] /\ g = [n \in 0 .. Len(path) |-> g[n]]
  BY <1>1
<1>3. \A n \in 0 .. Len(path) :
        /\ f[n] = IF n = 0 THEN <<>> ELSE Stepped(f[n - 1], path[n])
        /\ g[n] = IF n = 0 THEN <<>> ELSE Stepped(g[n - 1], path[n])
  BY <1>1
<1> DEFINE differ == {n \in 0 .. Len(path) : f[n] # g[n]}
<1>4. differ = {}
  <2> SUFFICES ASSUME differ # {} PROVE FALSE  OBVIOUS
  <2>1. PICK n \in differ : \A m \in differ : n <= m
    <3>1. differ \in SUBSET Nat  OBVIOUS
    <3> HIDE DEF differ
    <3> QED  BY <3>1, SmallestElement
  <2>2. n \in 0 .. Len(path) /\ n # 0  BY <1>3
  <2>3. n - 1 \in 0 .. Len(path) /\ n - 1 \notin differ  BY <2>1, <2>2
  <2>4. f[n - 1] = g[n - 1]  BY <2>3
  <2> QED  BY <1>3, <2>2, <2>4
<1>5. \A n \in 0 .. Len(path) : f[n] = g[n]  BY <1>4
<1> QED  BY <1>2, <1>5

LEMMA NormalIs ==
  ASSUME NEW path, Len(path) \in Nat, NEW g, Walks(path, g)
  PROVE  Normal(path) = g[Len(path)]
<1> DEFINE f == CHOOSE h :
             h = [n \in 0 .. Len(path) |-> IF n = 0 THEN <<>> ELSE Stepped(h[n - 1], path[n])]
<1>1. Walks(path, f)  BY DEF Walks
<1>2. Normal(path) = f[Len(path)]  BY DEF Normal
<1> HIDE DEF f
<1>3. f = g  BY <1>1, OneWay
<1> QED  BY <1>2, <1>3

\* Up from the first m names of a path.
LEMMA StepUp ==
  ASSUME NEW S, NEW s \in Seq(S), NEW m \in Int, m <= Len(s)
  PROVE  Stepped(SubSeq(s, 1, m), "..") = SubSeq(s, 1, m - 1)
<1>1. Len(s) \in Nat  OBVIOUS
<1> DEFINE t == SubSeq(s, 1, m)
<1>2. Stepped(t, "..") = SubSeq(t, 1, Len(t) - 1)  BY DEF Stepped, Front
<1>3. CASE m >= 1
  <2>1. m \in 0 .. Len(s) /\ m - 1 \in 0 .. Len(s) /\ m - 1 \in 0 .. m  BY <1>1, <1>3
  <2>2. t \in Seq(S) /\ Len(t) = m /\ \A i \in 1 .. m : t[i] = s[i]  BY <2>1, FirstOf
  <2> HIDE DEF t
  <2>3. /\ SubSeq(t, 1, m - 1) \in Seq(S) /\ Len(SubSeq(t, 1, m - 1)) = m - 1
        /\ \A i \in 1 .. m - 1 : SubSeq(t, 1, m - 1)[i] = t[i]
        /\ SubSeq(s, 1, m - 1) \in Seq(S) /\ Len(SubSeq(s, 1, m - 1)) = m - 1
        /\ \A i \in 1 .. m - 1 : SubSeq(s, 1, m - 1)[i] = s[i]
    BY <2>1, <2>2, FirstOf
  <2>4. \A i \in 1 .. m - 1 : i \in 1 .. m  OBVIOUS
  <2>5. SubSeq(t, 1, m - 1) = SubSeq(s, 1, m - 1)  BY <2>2, <2>3, <2>4, SeqEqual
  <2>6. Stepped(t, "..") = SubSeq(t, 1, m - 1)  BY <1>2, <2>2
  <2> QED  BY <2>5, <2>6 DEF t
<1>4. CASE ~(m >= 1)
  <2>1. m < 1 /\ m - 1 < 1 /\ m - 1 \in Int  BY <1>4
  <2>2. t = <<>> /\ SubSeq(s, 1, m - 1) = <<>>  BY <2>1, SubSeqEmpty
  <2>3. Len(<<>>) - 1 \in Int /\ Len(<<>>) - 1 < 1  OBVIOUS
  <2>4. SubSeq(<<>>, 1, Len(<<>>) - 1) = <<>>  BY <2>3, SubSeqEmpty
  <2> QED  BY <1>2, <2>2, <2>4
<1> QED  BY <1>3, <1>4

\* Down to the next name of t.
LEMMA StepDown ==
  ASSUME NEW S, NEW s \in Seq(S), NEW t \in Seq(S), NEW j \in 1 .. Len(t), t[j] # ".."
  PROVE  Stepped(s \o SubSeq(t, 1, j - 1), t[j]) = s \o SubSeq(t, 1, j)
<1>1. Len(t) \in Nat  OBVIOUS
<1>2. 1 \in 1 .. Len(t) /\ j \in 1 .. Len(t) /\ j - 1 \in 0 .. Len(t)  BY <1>1
<1>3. SubSeq(t, 1, j) = SubSeq(t, 1, j - 1) \o <<t[j]>>  BY <1>2, SubSeqRecursiveSecond
<1>4. SubSeq(t, 1, j - 1) \in Seq(S)  BY <1>2, FirstOf
<1>5. t[j] \in S  BY ElementOfSeq
<1> DEFINE u == SubSeq(t, 1, j - 1)
           e == t[j]
<1> HIDE DEF u, e
<1>6. u \in Seq(S) /\ e \in S /\ <<e>> \in Seq(S)  BY <1>4, <1>5 DEF u, e
<1>7. s \o u \in Seq(S)  BY <1>6, ConcatProperties
<1>8. Append(s \o u, e) = (s \o u) \o <<e>>  BY <1>6, <1>7, AppendIsConcat
<1>9. (s \o u) \o <<e>> = s \o (u \o <<e>>)  BY <1>6, ConcatAssociative
<1>10. Stepped(s \o u, e) = Append(s \o u, e)  BY DEF Stepped, e
<1> QED  BY <1>3, <1>8, <1>9, <1>10 DEF u, e

Dots(k) == [i \in 1 .. k |-> ".."]

LEMMA DotsAre ==
  ASSUME NEW k \in Nat
  PROVE  Dots(k) \in Seq(Names) /\ Len(Dots(k)) = k /\ \A i \in 1 .. k : Dots(k)[i] = ".."
<1>1. \A i \in 1 .. k : Dots(k)[i] = ".." /\ Dots(k)[i] \in Names
  <2>1. \A i \in 1 .. k : Dots(k)[i] = ".."  BY DEF Dots
  <2> QED  BY <2>1 DEF Names
<1>2. DOMAIN Dots(k) = 1 .. k /\ Dots(k) = [i \in 1 .. k |-> Dots(k)[i]]  BY DEF Dots
<1> HIDE DEF Dots
<1>3. Dots(k) \in Seq(Names)  BY <1>1, <1>2, SeqDef
<1>4. Len(Dots(k)) \in Nat /\ DOMAIN Dots(k) = 1 .. Len(Dots(k))  BY <1>3, LenProperties
<1>5. Len(Dots(k)) = k  BY <1>2, <1>4
<1> QED  BY <1>1, <1>3, <1>5

\* The names of a path that goes down, up k times, and down again.
LEMMA UpAndDown ==
  ASSUME NEW base \in Plain, NEW k \in Nat, NEW tail \in Plain
  PROVE  /\ Len(base) \in Nat /\ Len(tail) \in Nat
         /\ base \o (Dots(k) \o tail) \in Seq(Names)
         /\ Len(base \o (Dots(k) \o tail)) = Len(base) + (k + Len(tail))
         /\ \A n \in 1 .. Len(base) : (base \o (Dots(k) \o tail))[n] = base[n]
         /\ \A n \in Len(base) + 1 .. Len(base) + k : (base \o (Dots(k) \o tail))[n] = ".."
         /\ \A n \in Len(base) + k + 1 .. Len(base) + (k + Len(tail)) :
              (base \o (Dots(k) \o tail))[n] = tail[n - (Len(base) + k)]
<1>1. base \in Seq(Names) /\ tail \in Seq(Names)  BY PlainPaths
<1>2. Len(base) \in Nat /\ Len(tail) \in Nat  BY <1>1
<1>3. Dots(k) \in Seq(Names) /\ Len(Dots(k)) = k /\ \A i \in 1 .. k : Dots(k)[i] = ".."
  BY DotsAre
<1> DEFINE rel == Dots(k) \o tail
           path == base \o rel
           B == Len(base)
           T == Len(tail)
<1>4. /\ rel \in Seq(Names) /\ Len(rel) = k + T
      /\ \A i \in 1 .. k + T : rel[i] = IF i <= k THEN Dots(k)[i] ELSE tail[i - k]
  BY <1>1, <1>3, ConcatProperties
<1> HIDE DEF rel
<1>5. /\ path \in Seq(Names) /\ Len(path) = B + (k + T)
      /\ \A i \in 1 .. B + (k + T) : path[i] = IF i <= B THEN base[i] ELSE rel[i - B]
  <2>1. Len(base \o rel) = Len(base) + Len(rel)  BY <1>1, <1>4, ConcatProperties
  <2>2. \A i \in 1 .. Len(base) + Len(rel) :
          (base \o rel)[i] = IF i <= Len(base) THEN base[i] ELSE rel[i - Len(base)]
    BY <1>1, <1>4, ConcatProperties
  <2>3. base \o rel \in Seq(Names)  BY <1>1, <1>4, ConcatProperties
  <2> QED  BY <1>4, <2>1, <2>2, <2>3
<1> HIDE DEF path, B, T
<1>6. B \in Nat /\ T \in Nat  BY <1>2 DEF B, T
<1>7. ASSUME NEW n \in 1 .. B  PROVE path[n] = base[n]
  <2>1. n \in 1 .. B + (k + T) /\ n <= B  BY <1>6
  <2> QED  BY <1>5, <2>1
<1>8. ASSUME NEW n \in B + 1 .. B + k  PROVE path[n] = ".."
  <2>1. /\ n \in 1 .. B + (k + T) /\ ~(n <= B)
        /\ n - B \in 1 .. k + T /\ n - B <= k /\ n - B \in 1 .. k
    BY <1>6
  <2> QED  BY <1>3, <1>4, <1>5, <2>1
<1>9. ASSUME NEW n \in B + k + 1 .. B + (k + T)  PROVE path[n] = tail[n - (B + k)]
  <2>1. /\ n \in 1 .. B + (k + T) /\ ~(n <= B)
        /\ n - B \in 1 .. k + T /\ ~(n - B <= k) /\ (n - B) - k = n - (B + k)
    BY <1>6
  <2> QED  BY <1>4, <1>5, <2>1
<1> QED  BY <1>5, <1>6, <1>7, <1>8, <1>9 DEF path, rel, B, T

LEMMA NormalOf ==
  ASSUME NEW base \in Plain, NEW k \in Nat, NEW tail \in Plain
  PROVE  Normal(base \o (Dots(k) \o tail)) = SubSeq(base, 1, Len(base) - k) \o tail
<1> DEFINE path == base \o (Dots(k) \o tail)
           B == Len(base)
           T == Len(tail)
           C == B + k
           up(n) == IF n <= B THEN n ELSE (B + B) - n
           g == [n \in 0 .. B + (k + T) |->
                   IF n <= C THEN SubSeq(base, 1, up(n))
                   ELSE SubSeq(base, 1, B - k) \o SubSeq(tail, 1, n - C)]
<1>1. /\ B \in Nat /\ T \in Nat /\ Len(path) = B + (k + T)
      /\ \A n \in 1 .. B : path[n] = base[n]
      /\ \A n \in B + 1 .. B + k : path[n] = ".."
      /\ \A n \in B + k + 1 .. B + (k + T) : path[n] = tail[n - (B + k)]
  BY UpAndDown
<1>2. /\ base \in Seq(STRING \ {".."}) /\ tail \in Seq(STRING \ {".."})
      /\ \A i \in 1 .. B : base[i] # ".."
      /\ \A i \in 1 .. T : tail[i] # ".."
  BY ElementOfSeq DEF Plain
<1>3. SubSeq(base, 1, B - k) \in Seq(STRING \ {".."})
  <2>1. CASE B - k >= 0
    <3>1. B - k \in 0 .. B  BY <1>1, <2>1
    <3> QED  BY <1>2, <3>1, FirstOf
  <2>2. CASE ~(B - k >= 0)
    <3>1. B - k \in Int /\ B - k < 1  BY <1>1, <2>2
    <3>2. SubSeq(base, 1, B - k) = <<>>  BY <3>1, SubSeqEmpty
    <3> QED  BY <3>2
  <2> QED  BY <2>1, <2>2
<1> HIDE DEF path, B, T
<1>4. up(C) = B - k
  BY <1>1
<1>5. ASSUME NEW n \in 0 .. B + (k + T)
      PROVE  g[n] = IF n = 0 THEN <<>> ELSE Stepped(g[n - 1], path[n])
  <2>1. CASE n = 0
    <3>1. n <= C /\ up(n) = 0  BY <1>1, <2>1
    <3>2. SubSeq(base, 1, 0) = <<>>  BY SubSeqEmpty
    <3> QED  BY <2>1, <3>1, <3>2
  <2>2. CASE n \in 1 .. B
    <3>1. n <= C /\ n - 1 <= C /\ n - 1 \in 0 .. B + (k + T) /\ up(n) = n /\ up(n - 1) = n - 1
      BY <1>1, <2>2
    <3>2. path[n] = base[n] /\ base[n] # ".."  BY <1>1, <1>2, <2>2
    <3>3. Stepped(<<>> \o SubSeq(base, 1, n - 1), base[n]) = <<>> \o SubSeq(base, 1, n)
      <4>1. <<>> \in Seq(STRING \ {".."})  OBVIOUS
      <4>2. n \in 1 .. Len(base)  BY <2>2 DEF B
      <4> DEFINE e == <<>>
      <4> HIDE DEF e
      <4>3. Stepped(e \o SubSeq(base, 1, n - 1), base[n]) = e \o SubSeq(base, 1, n)
        BY <1>2, <3>2, <4>1, <4>2, StepDown DEF e
      <4> QED  BY <4>3 DEF e
    <3>4. n \in 0 .. B /\ n - 1 \in 0 .. B  BY <1>1, <2>2
    <3>5. SubSeq(base, 1, n - 1) \in Seq(Names) /\ SubSeq(base, 1, n) \in Seq(Names)
      BY <3>4, FirstOf, PlainPaths DEF B
    <3>6. /\ <<>> \o SubSeq(base, 1, n - 1) = SubSeq(base, 1, n - 1)
          /\ <<>> \o SubSeq(base, 1, n) = SubSeq(base, 1, n)
      BY <3>5, ConcatEmptySeq
    <3>7. n # 0  BY <2>2
    <3> QED  BY <3>1, <3>2, <3>3, <3>6, <3>7
  <2>3. CASE n \in B + 1 .. C
    <3>1. /\ n <= C /\ n - 1 <= C /\ n - 1 \in 0 .. B + (k + T) /\ n # 0
          /\ up(n) = up(n - 1) - 1 /\ up(n - 1) \in Int /\ up(n - 1) <= B
      BY <1>1, <2>3
    <3>2. path[n] = ".."  BY <1>1, <2>3
    <3> DEFINE m == up(n - 1)
    <3> HIDE DEF m
    <3>3. Stepped(SubSeq(base, 1, m), "..") = SubSeq(base, 1, m - 1)
      BY <1>2, <3>1, StepUp DEF B, m
    <3> QED  BY <3>1, <3>2, <3>3 DEF m
  <2>4. CASE n \in C + 1 .. B + (k + T)
    <3> DEFINE j == n - C
               s == SubSeq(base, 1, B - k)
    <3>1. /\ ~(n <= C) /\ n # 0 /\ n - 1 \in 0 .. B + (k + T)
          /\ j \in 1 .. T /\ (n - 1) - C = j - 1
      BY <1>1, <2>4
    <3>2. path[n] = tail[j] /\ tail[j] # ".."
      <4>1. n \in B + k + 1 .. B + (k + T)  BY <2>4
      <4>2. path[n] = tail[n - (B + k)]  BY <1>1, <4>1
      <4> QED  BY <1>2, <3>1, <4>2
    <3> HIDE DEF j, s
    <3>3. Stepped(s \o SubSeq(tail, 1, j - 1), tail[j]) = s \o SubSeq(tail, 1, j)
      BY <1>2, <1>3, <3>1, <3>2, StepDown DEF T, s
    <3>4. g[n - 1] = s \o SubSeq(tail, 1, j - 1)
      <4>1. CASE n - 1 <= C
        <5>1. n - 1 = C /\ j - 1 = 0  BY <1>1, <2>4, <4>1 DEF j
        <5>2. g[n - 1] = s  BY <1>4, <3>1, <5>1, <4>1 DEF s
        <5>3. SubSeq(tail, 1, 0) = <<>>  BY SubSeqEmpty
        <5>4. s \o <<>> = s  BY <1>3, ConcatEmptySeq DEF s
        <5> QED  BY <5>1, <5>2, <5>3, <5>4
      <4>2. CASE ~(n - 1 <= C)
        BY <3>1, <4>2 DEF s
      <4> QED  BY <4>1, <4>2
    <3>5. g[n] = s \o SubSeq(tail, 1, j)  BY <3>1 DEF s, j
    <3> QED  BY <3>1, <3>2, <3>3, <3>4, <3>5
  <2>5. n = 0 \/ n \in 1 .. B \/ n \in B + 1 .. C \/ n \in C + 1 .. B + (k + T)  BY <1>1
  <2> QED  BY <2>1, <2>2, <2>3, <2>4, <2>5
<1>6. Walks(path, g)
  <2>1. g = [n \in 0 .. B + (k + T) |-> g[n]]  OBVIOUS
  <2> HIDE DEF g
  <2>2. g = [n \in 0 .. B + (k + T) |-> IF n = 0 THEN <<>> ELSE Stepped(g[n - 1], path[n])]
    BY <1>5, <2>1
  <2> QED  BY <1>1, <2>2 DEF Walks
<1>7. Normal(path) = g[B + (k + T)]
  <2>1. Len(path) \in Nat  BY <1>1
  <2> HIDE DEF g
  <2> QED  BY <1>1, <1>6, <2>1, NormalIs
<1>8. g[B + (k + T)] = SubSeq(base, 1, B - k) \o tail
  <2>1. CASE T = 0
    <3>1. tail = <<>>  BY <1>2, <2>1, EmptySeq DEF T
    <3>2. SubSeq(base, 1, B - k) \o <<>> = SubSeq(base, 1, B - k)  BY <1>3, ConcatEmptySeq
    <3>3. B + (k + T) = C /\ C \in 0 .. B + (k + T) /\ C <= C  BY <1>1, <2>1
    <3>4. g[C] = SubSeq(base, 1, B - k)  BY <1>4, <3>3
    <3> QED  BY <3>1, <3>2, <3>3, <3>4
  <2>2. CASE T # 0
    <3>1. /\ B + (k + T) \in 0 .. B + (k + T) /\ ~(B + (k + T) <= C)
          /\ (B + (k + T)) - C = T
      BY <1>1, <2>2
    <3>2. SubSeq(tail, 1, T) = tail  BY <1>2, SubSeqFull DEF T
    <3> QED  BY <3>1, <3>2
  <2> QED  BY <2>1, <2>2
<1> QED  BY <1>7, <1>8 DEF path, B

-----------------------------------------------------------------------------
(* Where the files of an input are, and where they go.                     *)

LEMMA FirstPlain ==
  ASSUME NEW p \in Plain, NEW n \in Int, n <= Len(p)  PROVE SubSeq(p, 1, n) \in Plain
<1>1. Len(p) \in Nat  BY DEF Plain
<1>2. CASE n >= 0
  <2>1. n \in 0 .. Len(p)  BY <1>1, <1>2
  <2> QED  BY <2>1, FirstOf DEF Plain
<1>3. CASE ~(n >= 0)
  <2>1. SubSeq(p, 1, n) = <<>>  BY <1>3, SubSeqEmpty
  <2> QED  BY <2>1, EmptySeq DEF Plain
<1> QED  BY <1>2, <1>3

LEMMA RestPlain ==
  ASSUME NEW p \in Plain, NEW n \in 0 .. Len(p)
  PROVE  /\ SubSeq(p, n + 1, Len(p)) \in Plain
         /\ SubSeq(p, 1, n) \o SubSeq(p, n + 1, Len(p)) = p
         /\ n < Len(p) => SubSeq(p, n + 1, Len(p)) # <<>>
<1>1. p \in Seq(STRING \ {".."}) /\ Len(p) \in Nat  BY DEF Plain
<1>2. n + 1 \in Int /\ Len(p) \in Int /\ \A i \in n + 1 .. Len(p) : i \in 1 .. Len(p)  BY <1>1
<1>3. \A i \in n + 1 .. Len(p) : p[i] \in STRING \ {".."}  BY <1>1, <1>2, ElementOfSeq
<1>4. /\ SubSeq(p, n + 1, Len(p)) \in Seq(STRING \ {".."})
      /\ Len(SubSeq(p, n + 1, Len(p))) = IF n + 1 <= Len(p) THEN Len(p) - (n + 1) + 1 ELSE 0
  BY <1>2, <1>3, SubSeqProperties
<1>5. SubSeq(p, 1, n) \o SubSeq(p, n + 1, Len(p)) = SubSeq(p, 1, Len(p))
  <2>1. 1 \in 1 .. Len(p) + 1 /\ n \in 1 - 1 .. Len(p) /\ Len(p) \in n .. Len(p)  BY <1>1
  <2> QED  BY <1>1, <2>1, ConcatAdjacentSubSeq
<1>6. SubSeq(p, 1, Len(p)) = p  BY <1>1, SubSeqFull
<1>7. n < Len(p) => Len(p) - (n + 1) + 1 # 0 /\ n + 1 <= Len(p)  BY <1>1
<1> QED  BY <1>4, <1>5, <1>6, <1>7, EmptySeq DEF Plain

LEMMA ConcatPlain ==
  ASSUME NEW p \in Plain, NEW q \in Plain
  PROVE  p \o q \in Plain /\ (q # <<>> => IsStrictPrefix(p, p \o q))
<1>1. p \o q \in Plain  BY ConcatProperties DEF Plain
<1>2. q # <<>> => IsStrictPrefix(p, p \o q)  BY LongerIsUnder DEF Plain
<1> QED  BY <1>1, <1>2

LEMMA NormalPlain == ASSUME NEW p \in Plain PROVE Normal(p) = p
<1>1. p \in Seq(Names) /\ Len(p) \in Nat /\ p \in Seq(STRING \ {".."})  BY PlainPaths DEF Plain
<1>2. <<>> \in Plain  BY EmptySeq DEF Plain
<1>3. Dots(0) = <<>>
  <2>1. Dots(0) \in Seq(Names) /\ Len(Dots(0)) = 0  BY DotsAre
  <2> QED  BY <2>1, EmptySeq
<1>4. Normal(p \o (Dots(0) \o <<>>)) = SubSeq(p, 1, Len(p) - 0) \o <<>>  BY <1>2, NormalOf
<1>5. <<>> \o <<>> = <<>> /\ p \o <<>> = p  BY <1>1, <1>2, ConcatEmptySeq DEF Plain
<1>6. Len(p) - 0 = Len(p) /\ SubSeq(p, 1, Len(p)) = p  BY <1>1, SubSeqFull
<1> QED  BY <1>3, <1>4, <1>5, <1>6

\* From base to p: up to the first n names, which they share, and down.
Way(base, p, n, rel) ==
  /\ n <= Len(p) /\ SubSeq(p, 1, n) = SubSeq(base, 1, n)
  /\ IsPrefix(base, p) => n = Len(base)
  /\ rel = Dots(Len(base) - n) \o SubSeq(p, n + 1, Len(p))

LEMMA RelativeIs ==
  ASSUME NEW path, NEW base \in Plain, NEW p \in Plain, p = Real(path)
  PROVE  \E n \in 0 .. Len(base) : Way(base, p, n, Relative(path, base))
<1> DEFINE shared == {n \in 0 .. Len(base) :
                        n <= Len(p) /\ SubSeq(p, 1, n) = SubSeq(base, 1, n)}
           n == CHOOSE m \in shared : \A k \in shared : k <= m
<1>1. Len(base) \in Nat /\ Len(p) \in Nat  BY DEF Plain
<1>2. 0 \in shared
  <2>1. 0 \in 0 .. Len(base) /\ 0 <= Len(p)  BY <1>1
  <2>2. SubSeq(p, 1, 0) = <<>> /\ SubSeq(base, 1, 0) = <<>>  BY SubSeqEmpty
  <2> QED  BY <2>1, <2>2
<1>3. n \in shared /\ \A k \in shared : k <= n
  <2>1. shared \in SUBSET (0 .. Len(base))  OBVIOUS
  <2> HIDE DEF shared
  <2>2. \E m \in shared : \A k \in shared : k <= m  BY <1>1, <1>2, <2>1, GreatestElement
  <2> QED  BY <2>2
<1>4. Relative(path, base) = Dots(Len(base) - n) \o SubSeq(p, n + 1, Len(p))
  BY DEF Relative, Dots
<1>5. ASSUME IsPrefix(base, p)  PROVE n = Len(base)
  <2>1. Len(base) <= Len(p) /\ SubSeq(p, 1, Len(base)) = base
    BY <1>1, <1>5, SubSeqFull DEF IsPrefix, Plain
  <2>2. SubSeq(base, 1, Len(base)) = base  BY SubSeqFull DEF Plain
  <2>3. Len(base) \in shared  BY <1>1, <2>1, <2>2
  <2> HIDE DEF n
  <2>4. n \in 0 .. Len(base) /\ Len(base) <= n  BY <1>3, <2>3
  <2> QED  BY <1>1, <2>4
<1> HIDE DEF n
<1> QED  BY <1>3, <1>4, <1>5 DEF Way

\* HandleFile opens the file itself, and its output is under out when the file is under base.
LEMMA ListedIs ==
  ASSUME NEW path, NEW base \in Plain, NEW out \in Plain, NEW p \in Plain, p = Real(path)
  PROVE  /\ Normal(base \o Relative(path, base)) = p
         /\ Normal(out \o Relative(path, base)) \in Plain
         /\ IsStrictPrefix(base, p) => IsStrictPrefix(out, Normal(out \o Relative(path, base)))
<1> DEFINE rel == Relative(path, base)
<1>0. PICK n \in 0 .. Len(base) : Way(base, p, n, rel)  BY RelativeIs
<1>1. /\ n <= Len(p) /\ SubSeq(p, 1, n) = SubSeq(base, 1, n)
      /\ IsPrefix(base, p) => n = Len(base)
      /\ Relative(path, base) = Dots(Len(base) - n) \o SubSeq(p, n + 1, Len(p))
  BY <1>0 DEF Way
<1>2. Len(base) \in Nat /\ Len(p) \in Nat /\ Len(out) \in Nat  BY DEF Plain
<1> DEFINE tail == SubSeq(p, n + 1, Len(p))
           k == Len(base) - n
<1>3. n \in 0 .. Len(p) /\ k \in Nat /\ Len(base) - k = n  BY <1>1, <1>2
<1>4. tail \in Plain /\ SubSeq(p, 1, n) \o tail = p /\ (n < Len(p) => tail # <<>>)
  BY <1>3, RestPlain
<1>5. Relative(path, base) = Dots(k) \o tail  BY <1>1
<1> HIDE DEF tail, k
<1>6. Normal(base \o (Dots(k) \o tail)) = SubSeq(base, 1, Len(base) - k) \o tail
  BY <1>3, <1>4, NormalOf
<1>7. Normal(out \o (Dots(k) \o tail)) = SubSeq(out, 1, Len(out) - k) \o tail
  BY <1>3, <1>4, NormalOf
<1>8. Normal(base \o Relative(path, base)) = p  BY <1>1, <1>3, <1>4, <1>5, <1>6
<1>9. Normal(out \o Relative(path, base)) \in Plain
  <2>1. Len(out) - k \in Int /\ Len(out) - k <= Len(out)  BY <1>2, <1>3
  <2>2. SubSeq(out, 1, Len(out) - k) \in Plain  BY <2>1, FirstPlain
  <2> QED  BY <1>4, <1>5, <1>7, <2>2, ConcatPlain
<1>10. ASSUME IsStrictPrefix(base, p)
       PROVE  IsStrictPrefix(out, Normal(out \o Relative(path, base)))
  <2>1. IsPrefix(base, p) /\ Len(base) < Len(p)
    BY <1>10, StrictIsPrefix, StrictPrefixIs DEF Plain
  <2>2. n = Len(base) /\ n < Len(p)  BY <1>1, <2>1
  <2>3. k = 0 /\ Len(out) - k = Len(out)  BY <1>2, <2>2 DEF k
  <2>4. SubSeq(out, 1, Len(out)) = out  BY SubSeqFull DEF Plain
  <2>5. Normal(out \o Relative(path, base)) = out \o tail  BY <1>5, <1>7, <2>3, <2>4
  <2> QED  BY <1>4, <2>2, <2>5, ConcatPlain
<1> QED  BY <1>8, <1>9, <1>10

-----------------------------------------------------------------------------
(* Types.                                                                  *)

Args == {case.args[k] : k \in 1 .. Len(case.args)}

CommandType ==
  /\ next \in 1 .. Len(case.args) + 1
  /\ DOMAIN given \subseteq Flags \cup Valued /\ \A o \in DOMAIN given : given[o] \in Args
  /\ params \in Seq(Args) /\ understood \in BOOLEAN

\* Nothing has been listed before the loop, and nothing written.
NotBegun ==
  pc \in {"Arguments", "Checks", "Private"} =>
    input = 1 /\ files = {} /\ handled = {} /\ r = 0 /\ disk = before

LoopType ==
  /\ pc \in {"Arguments", "Checks", "Private", "Inputs", "Exited"}
  /\ input \in 1 .. Len(params) + 1
  /\ r \in {0, -1} /\ exit \in {0, -1, Aborted}
  /\ run \in 1 .. MaxRuns

\* Each step either reads or checks the command, or is one of the loop, its end, or another run.
LEMMA Steps ==
  ASSUME [Next]_vars
  PROVE  \/ /\ ReadArgument \/ CheckUsage \/ LoadPrivateFile
            /\ pc \in {"Arguments", "Checks", "Private"}
            /\ UNCHANGED <<case, disk, before, input, files, handled, r, run>>
         \/ ListInput \/ HandleFile \/ Return \/ Again
         \/ UNCHANGED vars
<1>1. CASE ReadArgument  BY <1>1 DEF ReadArgument, loop
<1>2. CASE CheckUsage  BY <1>2 DEF CheckUsage, loop, Exit
<1>3. CASE LoadPrivateFile  BY <1>3 DEF LoadPrivateFile, loop, Exit
<1>4. CASE ~(ReadArgument \/ CheckUsage \/ LoadPrivateFile)  BY <1>4 DEF Next, Terminated
<1> QED  BY <1>1, <1>2, <1>3, <1>4

\* The command, once read, stays as it is until the next run.
LEMMA CommandSteps ==
  ASSUME [Next]_vars
  PROVE  case' = case /\ (ReadArgument \/ UNCHANGED commandLine \/ Again)
<1>1. CASE ReadArgument \/ Again  BY <1>1 DEF ReadArgument, Again
<1>2. CASE CheckUsage \/ LoadPrivateFile  BY <1>2 DEF CheckUsage, LoadPrivateFile
<1>3. CASE ListInput \/ HandleFile \/ Return  BY <1>3 DEF ListInput, HandleFile, Return
<1>4. CASE UNCHANGED vars  BY <1>4 DEF vars
<1> QED  BY <1>1, <1>2, <1>3, <1>4 DEF Next, Terminated

LEMMA CommandKeeps ==
  ASSUME IInv, CommandType, [Next]_vars  PROVE CommandType'
<1>1. Len(case.args) \in Nat  BY ArgsFacts
<1>2. case' = case /\ Args' = Args  BY CommandSteps DEF Args
<1>3. CASE UNCHANGED commandLine  BY <1>2, <1>3 DEF CommandType, commandLine
<1>4. CASE Again
  <2>1. next' = 1 /\ given' = <<>> /\ params' = <<>> /\ understood' = TRUE  BY <1>4 DEF Again
  <2>2. DOMAIN given' = {} /\ 1 \in 1 .. Len(case.args) + 1  BY <1>1, <2>1
  <2>3. params' \in Seq(Args)  BY <2>1, EmptySeq
  <2> QED  BY <1>2, <2>1, <2>2, <2>3 DEF CommandType
<1>5. CASE ReadArgument
  <2>1. PICK k : k = next  OBVIOUS
  <2>2. CASE k > Len(case.args)
    <3>1. UNCHANGED commandLine
      BY <1>1, <1>5, <2>1, <2>2 DEF ReadArgument, CommandType
    <3> QED  BY <1>3, <3>1
  <2>3. CASE ~(k > Len(case.args))
    <3> DEFINE arg == case.args[k]
    <3>1. k \in 1 .. Len(case.args)  BY <1>1, <2>1, <2>3 DEF CommandType
    <3>2. \/ ReadParam(arg) \/ ReadFlag(arg) \/ ReadValued(arg)
          \/ arg \in Undefined /\ Misunderstood
      BY <1>5, <2>1, <2>3 DEF ReadArgument
    <3>3. arg \in Args  BY <3>1 DEF Args
    <3>4. k + 1 \in 1 .. Len(case.args) + 1  BY <1>1, <3>1
    <3>5. CASE ReadParam(arg)
      <4>1. params' = Append(params, arg) /\ next' = k + 1 /\ UNCHANGED <<given, understood>>
        BY <2>1, <3>5 DEF ReadParam
      <4>2. params' \in Seq(Args)  BY <3>3, <4>1, AppendProperties DEF CommandType
      <4> QED  BY <1>2, <3>4, <4>1, <4>2 DEF CommandType
    <3>6. CASE ReadFlag(arg)
      <4>1. /\ arg \in Flags /\ given' = Put(given, arg, arg) /\ next' = k + 1
            /\ UNCHANGED <<params, understood>>
        BY <2>1, <3>6 DEF ReadFlag
      <4> QED  BY <1>2, <3>3, <3>4, <4>1 DEF CommandType, Put
    <3>7. CASE ReadValued(arg) /\ ~Misunderstood
      <4>1. /\ arg \in Valued /\ given' = Put(given, arg, case.args[k + 1]) /\ next' = k + 2
            /\ UNCHANGED <<params, understood>> /\ k < Len(case.args)
        BY <2>1, <3>7 DEF ReadValued
      <4>2. /\ k + 1 \in 1 .. Len(case.args) /\ k + 2 \in 1 .. Len(case.args) + 1
        BY <1>1, <3>1, <4>1
      <4>3. case.args[k + 1] \in Args  BY <4>2 DEF Args
      <4> QED  BY <1>2, <4>1, <4>2, <4>3 DEF CommandType, Put
    <3>8. CASE Misunderstood
      BY <1>2, <3>8 DEF Misunderstood, CommandType
    <3> QED  BY <3>2, <3>5, <3>6, <3>7, <3>8
  <2> QED  BY <2>2, <2>3
<1> QED  BY <1>3, <1>4, <1>5, CommandSteps

LEMMA LoopKeeps ==
  ASSUME CommandType, LoopType, NotBegun, CommandType', [Next]_vars
  PROVE  LoopType' /\ NotBegun'
<1>1. Len(params) \in Nat /\ Len(params') \in Nat  BY DEF CommandType
<1>2. CASE /\ ReadArgument \/ CheckUsage \/ LoadPrivateFile
           /\ UNCHANGED <<case, disk, before, input, files, handled, r, run>>
  <2>1. input' \in 1 .. Len(params') + 1 /\ pc \in {"Arguments", "Checks", "Private"}
    BY <1>1, <1>2 DEF NotBegun, ReadArgument, CheckUsage, LoadPrivateFile
  <2>2. /\ pc' \in {"Arguments", "Checks", "Private", "Inputs", "Exited"}
        /\ exit' \in {0, -1, Aborted}
    <3>1. CASE ReadArgument
      BY <3>1 DEF ReadArgument, ReadParam, ReadFlag, ReadValued, Misunderstood, LoopType
    <3>2. CASE CheckUsage \/ LoadPrivateFile
      BY <3>2 DEF CheckUsage, LoadPrivateFile, Exit, LoopType
    <3> QED  BY <1>2, <3>1, <3>2
  <2> QED  BY <1>2, <2>1, <2>2 DEF LoopType, NotBegun
<1>3. CASE ListInput
  <2>1. /\ pc = "Inputs" /\ UNCHANGED <<params, r, run>>
        /\ \/ UNCHANGED <<pc, exit>> /\ input' = input + 1 /\ input <= Len(params)
           \/ pc' = "Exited" /\ exit' = Aborted /\ input' = input
    BY <1>3 DEF ListInput, Exit, commandLine
  <2>2. input' \in 1 .. Len(params') + 1  BY <1>1, <2>1 DEF LoopType
  <2> QED  BY <2>1, <2>2 DEF LoopType, NotBegun
<1>4. CASE HandleFile
  <2>1. /\ pc = "Inputs" /\ UNCHANGED <<params, input, run>>
        /\ r' \in {r, -1}
        /\ \/ UNCHANGED <<pc, exit>>
           \/ pc' = "Exited" /\ exit' = Aborted
    BY <1>4 DEF HandleFile, Save, Over, Result, Exit, commandLine
  <2> QED  BY <2>1 DEF LoopType, NotBegun
<1>5. CASE Return
  BY <1>5 DEF Return, Exit, commandLine, loop, LoopType, NotBegun
<1>6. CASE Again
  <2>1. run' \in 1 .. MaxRuns  BY <1>6, RunsAssumption DEF Again, LoopType
  <2>2. input' \in 1 .. Len(params') + 1  BY <1>1, <1>6 DEF Again
  <2> QED  BY <1>6, <2>1, <2>2 DEF Again, LoopType, NotBegun
<1>7. CASE UNCHANGED vars
  BY <1>7 DEF vars, commandLine, loop, LoopType, NotBegun
<1> QED  BY <1>2, <1>3, <1>4, <1>5, <1>6, <1>7, Steps

-----------------------------------------------------------------------------
(* The files there are, and those listed.                                  *)

LEMMA PlainCommand ==
  ASSUME IInv, CommandType
  PROVE  /\ OutDir \in Plain
         /\ \A k \in 1 .. Len(params) : PathNamed(params[k]) \in Plain
         /\ Inputs \subseteq Plain
<1>1. \A a \in Args : PathNamed(a) \in Plain
  <2>1. case \in Cases /\ DOMAIN case.args = 1 .. Len(case.args)  BY ArgsFacts DEF IInv
  <2> QED  BY <2>1, NamesAssumption DEF Args
<1>2. OutDir \in Plain
  BY <1>1, NamesAssumption DEF OutDir, CommandType
<1>3. \A k \in 1 .. Len(params) : params[k] \in Args  BY ElementOfSeq DEF CommandType
<1>4. \A k \in 1 .. Len(params) : PathNamed(params[k]) \in Plain  BY <1>1, <1>3
<1> QED  BY <1>2, <1>4 DEF Inputs

LEMMA RealPlain ==
  ASSUME case \in Cases, NEW p \in Plain
  PROVE  /\ Real(p) \in Plain /\ Real(p) \notin DOMAIN case.links
         /\ p \notin DOMAIN case.links => Real(p) = p
         /\ p \in DOMAIN case.links => Real(p) = case.links[p]
         /\ Real(Real(p)) = Real(p)
         /\ Real(p) # <<>> => p # <<>>
<1>1. Normal(p) = p  BY NormalPlain
<1>2. \A l \in DOMAIN case.links :
        /\ l # <<>>
        /\ case.links[l] \in Plain /\ case.links[l] # <<>> /\ case.links[l] \notin DOMAIN case.links
  BY LinksAssumption
<1>3. Real(p) \in Plain /\ Real(p) \notin DOMAIN case.links  BY <1>1, <1>2 DEF Real
<1> DEFINE q == Real(p)
<1>4. Normal(q) = q
  <2> HIDE DEF q
  <2> QED  BY <1>3, NormalPlain DEF q
<1>5. Real(q) = q
  <2>1. Real(q) = IF Normal(q) \in DOMAIN case.links THEN case.links[Normal(q)] ELSE Normal(q)
    BY DEF Real
  <2> QED  BY <1>3, <1>4, <2>1
<1> QED  BY <1>1, <1>2, <1>3, <1>5 DEF Real

LEMMA SameReal == ASSUME case' = case, NEW p  PROVE Real(p)' = Real(p)
BY DEF Real

LEMMA SamePlaced ==
  ASSUME UNCHANGED <<case, given, params>>
  PROVE  OutDir' = OutDir /\ Inputs' = Inputs /\ Straight' = Straight /\ Apart' = Apart
<1>1. OutDir' = OutDir /\ Inputs' = Inputs  BY DEF OutDir, Inputs
<1>2. \A p : Real(p)' = Real(p)  BY SameReal
<1> QED  BY <1>1, <1>2 DEF Straight, Apart

\* Every file has a path without "..", was made of one there was at first, and has nothing below it.
Tree ==
  /\ \A p \in DOMAIN disk :
       /\ p \in Plain /\ p # <<>> /\ p \notin DOMAIN case.links
       /\ disk[p] \in ContentType /\ disk[p].of \in DOMAIN case.disk
  /\ \A p \in DOMAIN before : p \in DOMAIN disk /\ before[p] \in ContentType
  /\ \A p, q \in Entries : ~IsStrictPrefix(p, q)

\* What is listed has an output under the output directory, and is not in it itself.
FileIs(f) ==
  /\ f \in FileType /\ f.in \in Plain /\ f.out \in Plain
  /\ Straight => IsStrictPrefix(OutDir, f.out)
  /\ Straight /\ Apart => ~IsStrictPrefix(OutDir, Real(f.in))

FilesInv == \A f \in files : FileIs(f)

LEMMA EntriesPlain ==
  ASSUME IInv, Tree, NEW p \in Entries  PROVE p \in Plain /\ p # <<>>
BY LinksAssumption DEF Tree, Entries, IInv

LEMMA TypeOfFile ==
  ASSUME NEW a \in Plain, NEW b \in Plain, NEW c \in Plain
  PROVE  [entry |-> a, in |-> b, out |-> c] \in FileType
<1>1. a \in Paths /\ b \in Paths /\ c \in Paths  BY PlainPaths DEF Paths
<1> QED  BY <1>1 DEF FileType

\* A file that is given by its name.
LEMMA NamedFile ==
  ASSUME IInv, CommandType, Tree, NEW base \in Inputs, IsRegular(base)
  PROVE  FileIs([entry |-> base, in |-> base, out |-> Normal(Append(OutDir, Last(base)))])
<1>1. OutDir \in Plain /\ base \in Plain /\ case \in Cases  BY PlainCommand DEF IInv
<1>2. Real(base) # <<>>  BY DEF IsRegular, Tree
<1>3. base # <<>>  BY <1>1, <1>2, RealPlain
<1>4. base \in Seq(STRING \ {".."})  BY <1>1 DEF Plain
<1> DEFINE e == Last(base)
<1>5. Len(base) \in 1 .. Len(base)  BY <1>3, <1>4, EmptySeq
<1>6. e \in STRING \ {".."}  BY <1>4, <1>5, ElementOfSeq DEF Last
<1> HIDE DEF e
<1>7. <<e>> \in Seq(STRING \ {".."}) /\ <<e>> # <<>>  BY <1>6
<1>8. Append(OutDir, e) = OutDir \o <<e>>  BY <1>1, <1>6, AppendIsConcat DEF Plain
<1>9. Append(OutDir, e) \in Plain /\ IsStrictPrefix(OutDir, Append(OutDir, e))
  BY <1>1, <1>7, <1>8, ConcatPlain DEF Plain
<1>10. Normal(Append(OutDir, e)) = Append(OutDir, e)  BY <1>9, NormalPlain
<1>11. Apart => ~IsStrictPrefix(OutDir, Real(base))  BY StrictIsPrefix DEF Apart
<1> DEFINE f == [entry |-> base, in |-> base, out |-> Normal(Append(OutDir, e))]
<1>12. f \in FileType /\ f.in = base /\ f.out = Append(OutDir, e)
  BY <1>1, <1>9, <1>10, TypeOfFile
<1> HIDE DEF f
<1>13. FileIs(f)  BY <1>1, <1>9, <1>11, <1>12 DEF FileIs
<1> QED  BY <1>13 DEF f, e

\* A file that is found under an input.
LEMMA FoundFile ==
  ASSUME IInv, CommandType, Tree, NEW base \in Inputs,
         NEW q \in Entries, IsStrictPrefix(base, q)
  PROVE  FileIs(Listed(base, q)) /\ Listed(base, q).in = Real(q)
<1>1. OutDir \in Plain /\ base \in Plain /\ case \in Cases  BY PlainCommand DEF IInv
<1>2. q \in Plain  BY EntriesPlain
<1> DEFINE p == Real(q)
           rel == Relative(q, base)
<1>3. p \in Plain /\ Real(p) = p  BY <1>1, <1>2, RealPlain
<1>4. Straight => IsStrictPrefix(base, p)
  BY <1>1, <1>2, RealPlain DEF Straight
<1>5. /\ Normal(base \o rel) = p /\ Normal(OutDir \o rel) \in Plain
      /\ IsStrictPrefix(base, p) => IsStrictPrefix(OutDir, Normal(OutDir \o rel))
  <2> HIDE DEF p
  <2>1. p = Real(q)  BY DEF p
  <2> QED  BY <1>1, <1>3, <2>1, ListedIs
<1> DEFINE f == Listed(base, q)
<1>6. f = [entry |-> q, in |-> p, out |-> Normal(OutDir \o rel)]
  BY <1>5 DEF Listed
<1>7. f \in FileType /\ f.in = p /\ f.out = Normal(OutDir \o rel)
  BY <1>2, <1>3, <1>5, <1>6, TypeOfFile
<1> HIDE DEF f, p, rel
<1>8. ASSUME IsStrictPrefix(base, p), IsStrictPrefix(OutDir, p)  PROVE ~Apart
  <2>1. IsPrefix(base, p) /\ IsPrefix(OutDir, p)  BY <1>8, StrictIsPrefix
  <2>2. IsPrefix(base, OutDir) \/ IsPrefix(OutDir, base)
    BY <1>1, <1>3, <2>1, Comparable DEF Plain
  <2> QED  BY <2>2 DEF Apart
<1>9. FileIs(f)  BY <1>3, <1>4, <1>5, <1>7, <1>8 DEF FileIs
<1> QED  BY <1>7, <1>9 DEF f, p

LEMMA ListedFiles ==
  ASSUME IInv, CommandType, LoopType, Tree, ListInput
  PROVE  /\ InputPath \in Inputs
         /\ \A f \in files' : FileIs(f)
<1>1. /\ pc = "Inputs" /\ files = {} /\ input <= Len(params)
      /\ \/ files' = IF IsRegular(InputPath)
                     THEN {[entry |-> InputPath, in |-> InputPath,
                            out |-> Normal(Append(OutDir, Last(InputPath)))]}
                     ELSE Found(InputPath)
         \/ files' = {}
  BY DEF ListInput
<1>2. Len(params) \in Nat  BY DEF CommandType
<1>3. input \in 1 .. Len(params)  BY <1>1, <1>2 DEF LoopType
<1>4. InputPath \in Inputs  BY <1>3 DEF Inputs, InputPath
<1>5. ASSUME IsRegular(InputPath), NEW f \in files'  PROVE FileIs(f)
  BY <1>1, <1>4, <1>5, NamedFile
<1>6. ASSUME ~IsRegular(InputPath), NEW f \in files'  PROVE FileIs(f)
  <2>1. PICK q \in Entries : IsStrictPrefix(InputPath, q) /\ f = Listed(InputPath, q)
    BY <1>1, <1>6 DEF Found
  <2> QED  BY <1>4, <2>1, FoundFile
<1> QED  BY <1>4, <1>5, <1>6

-----------------------------------------------------------------------------
(* What a step of the loop does to the files.                              *)

HandledType == \A h \in handled : h.file \in FileType /\ h.saved \in BOOLEAN

\* One file is saved, fails, or ends the program.
Handles(f) ==
  \/ Save(f)
  \/ Over(f, FALSE) /\ UNCHANGED <<disk, pc, exit>>
  \/ pc' = "Exited" /\ exit' = Aborted /\ UNCHANGED <<disk, files, handled, r>>

LEMMA HandleIs ==
  ASSUME HandleFile
  PROVE  /\ pc = "Inputs" /\ UNCHANGED <<case, before, given, params, input, run>>
         /\ \E f \in files : Handles(f)
BY DEF HandleFile, Handles, Exit, commandLine

LEMMA SavedContent ==
  ASSUME NEW content \in ContentType
  PROVE  /\ Obfuscated(content) \in ContentType /\ Obfuscated(content).of = content.of
         /\ Obfuscated(content).times = content.times + 1
<1>1. content.times \in Nat /\ content.times + 1 \in Nat  BY DEF ContentType
<1> QED  BY <1>1 DEF Obfuscated, ContentType

\* The source of what is saved, and where it goes.
LEMMA SaveIs ==
  ASSUME IInv, Tree, FilesInv, NEW f \in files, Save(f)
  PROVE  /\ Source(f) \in DOMAIN disk /\ Target(f) \in Plain /\ Target(f) # <<>>
         /\ Target(f) \notin DOMAIN case.links
         /\ \A p \in Entries : ~IsStrictPrefix(p, Target(f)) /\ ~IsStrictPrefix(Target(f), p)
         /\ Straight => IsStrictPrefix(OutDir, Target(f))
         /\ Straight /\ Apart => ~IsStrictPrefix(OutDir, Source(f))
         /\ DOMAIN disk' = DOMAIN disk \cup {Target(f)}
         /\ disk'[Target(f)] = Obfuscated(disk[Source(f)])
         /\ \A p \in DOMAIN disk : p # Target(f) => disk'[p] = disk[p]
<1> DEFINE t == Target(f)
           s == Source(f)
<1>1. FileIs(f) /\ case \in Cases  BY DEF FilesInv, IInv
<1>2. s \in DOMAIN disk /\ ~IsDirectory(t) /\ ~InTheWay(t) /\ disk' = Put(disk, t, Obfuscated(disk[s]))
  BY DEF Save, Readable, Writable, Source, Target
<1>3. t \in Plain /\ t \notin DOMAIN case.links  BY <1>1, RealPlain DEF FileIs, Target
<1>4. Normal(t) = t
  <2> HIDE DEF t
  <2> QED  BY <1>3, NormalPlain
<1>5. \A p \in Entries : ~IsStrictPrefix(p, t) /\ ~IsStrictPrefix(t, p)
  BY <1>2, <1>4 DEF IsDirectory, InTheWay
<1>6. t # <<>>
  <2>1. s \in Entries /\ s \in Plain /\ s # <<>>  BY <1>2 DEF Tree, Entries
  <2>2. <<>> \in Plain /\ <<>> \o s = s  BY <2>1, EmptySeq, ConcatEmptySeq DEF Plain
  <2>3. IsStrictPrefix(<<>>, s)  BY <2>1, <2>2, ConcatPlain
  <2> QED  BY <1>5, <2>1, <2>3
<1>7. Straight => IsStrictPrefix(OutDir, t)
  BY <1>1, RealPlain DEF FileIs, Straight, Target
<1>8. Straight /\ Apart => ~IsStrictPrefix(OutDir, s)  BY <1>1 DEF FileIs, Source
<1> HIDE DEF t, s
<1>9. /\ DOMAIN disk' = DOMAIN disk \cup {t} /\ disk'[t] = Obfuscated(disk[s])
      /\ \A p \in DOMAIN disk : p # t => disk'[p] = disk[p]
  BY <1>2 DEF Put
<1> QED  BY <1>2, <1>3, <1>5, <1>6, <1>7, <1>8, <1>9 DEF t, s

LEMMA TreeKeeps ==
  ASSUME IInv, Tree, FilesInv, NotBegun, [Next]_vars  PROVE Tree'
<1>0. case' = case  BY CommandSteps
<1>1. CASE UNCHANGED <<disk, before>>  BY <1>0, <1>1 DEF Tree, Entries
<1>2. CASE Again
  <2>1. disk' = disk /\ before' = disk  BY <1>2 DEF Again
  <2> QED  BY <1>0, <2>1 DEF Tree, Entries
<1>3. CASE HandleFile
  <2>1. PICK f \in files : Handles(f)  BY <1>3, HandleIs
  <2>2. before' = before  BY <1>3, HandleIs
  <2>3. CASE ~Save(f)
    <3>1. disk' = disk  BY <2>1, <2>3 DEF Handles
    <3> QED  BY <1>1, <2>2, <3>1
  <2>4. CASE Save(f)
    <3> DEFINE t == Target(f)
               s == Source(f)
    <3>1. /\ s \in DOMAIN disk /\ t \in Plain /\ t # <<>> /\ t \notin DOMAIN case.links
          /\ \A p \in Entries : ~IsStrictPrefix(p, t) /\ ~IsStrictPrefix(t, p)
          /\ DOMAIN disk' = DOMAIN disk \cup {t} /\ disk'[t] = Obfuscated(disk[s])
          /\ \A p \in DOMAIN disk : p # t => disk'[p] = disk[p]
      BY <2>4, SaveIs
    <3> HIDE DEF t, s
    <3>2. /\ Obfuscated(disk[s]) \in ContentType
          /\ Obfuscated(disk[s]).of \in DOMAIN case.disk
      BY <3>1, SavedContent DEF Tree
    <3>3. ASSUME NEW p \in DOMAIN disk'
          PROVE  /\ p \in Plain /\ p # <<>> /\ p \notin DOMAIN case.links
                 /\ disk'[p] \in ContentType /\ disk'[p].of \in DOMAIN case.disk
      BY <3>1, <3>2, <3>3 DEF Tree
    <3>4. \A p \in Entries' : p \in Entries \/ p = t  BY <1>0, <3>1 DEF Entries
    <3>5. ~IsStrictPrefix(t, t)  BY DEF IsStrictPrefix
    <3>6. \A p, q \in Entries' : ~IsStrictPrefix(p, q)  BY <3>1, <3>4, <3>5 DEF Tree
    <3>7. \A p \in DOMAIN before' : p \in DOMAIN disk' /\ before'[p] \in ContentType
      BY <2>2, <3>1 DEF Tree
    <3> QED  BY <1>0, <3>3, <3>6, <3>7 DEF Tree
  <2> QED  BY <2>3, <2>4
<1>4. CASE ListInput \/ Return  BY <1>1, <1>4 DEF ListInput, Return
<1>5. CASE UNCHANGED vars  BY <1>1, <1>5 DEF vars
<1> QED  BY <1>1, <1>2, <1>3, <1>4, <1>5, Steps

LEMMA SameFile ==
  ASSUME UNCHANGED <<case, given, params>>, NEW f  PROVE FileIs(f)' = FileIs(f)
<1>1. OutDir' = OutDir /\ Straight' = Straight /\ Apart' = Apart  BY SamePlaced
<1>2. Real(f.in)' = Real(f.in)  BY SameReal
<1> QED  BY <1>1, <1>2 DEF FileIs

LEMMA FilesKeep ==
  ASSUME IInv, CommandType, LoopType, NotBegun, Tree, FilesInv, HandledType, [Next]_vars
  PROVE  FilesInv' /\ HandledType'
<1>1. CASE files' = {} /\ handled' \subseteq handled  BY <1>1 DEF FilesInv, HandledType
<1>2. CASE UNCHANGED <<case, given, params>> /\ files' \subseteq files /\ handled' = handled
  BY <1>2, SameFile DEF FilesInv, HandledType
<1>3. CASE ListInput
  <2>1. UNCHANGED <<case, given, params, handled>>  BY <1>3 DEF ListInput, commandLine
  <2>2. \A f \in files' : FileIs(f)  BY <1>3, ListedFiles
  <2>3. \A f \in files' : FileIs(f)'  BY <2>1, <2>2, SameFile
  <2> QED  BY <2>1, <2>3 DEF FilesInv, HandledType
<1>4. CASE HandleFile
  <2>1. PICK f \in files : Handles(f)  BY <1>4, HandleIs
  <2>2. UNCHANGED <<case, given, params>>  BY <1>4, HandleIs
  <2>3. files' \subseteq files  BY <2>1 DEF Handles, Save, Over, Left
  <2>4. FilesInv'  BY <2>2, <2>3, SameFile DEF FilesInv
  <2>5. f \in FileType  BY DEF FilesInv, FileIs
  <2>6. CASE UNCHANGED handled  BY <2>4, <2>6 DEF HandledType
  <2>7. CASE \E b \in BOOLEAN : Over(f, b)
    <3>1. PICK b \in BOOLEAN : Over(f, b)  BY <2>7
    <3> DEFINE h == [file |-> f, of |-> Real(f.in), to |-> Real(f.out), saved |-> b]
    <3>2. handled' = handled \cup {h} /\ h.file = f /\ h.saved = b  BY <3>1 DEF Over
    <3> HIDE DEF h
    <3> QED  BY <2>4, <2>5, <3>2 DEF HandledType
  <2> QED  BY <2>1, <2>6, <2>7 DEF Handles, Save
<1>5. CASE Return  BY <1>2, <1>5 DEF Return, commandLine, loop
<1>6. CASE Again  BY <1>1, <1>6 DEF Again
<1>7. CASE UNCHANGED vars  BY <1>2, <1>7 DEF vars, commandLine, loop
<1>8. CASE /\ pc \in {"Arguments", "Checks", "Private"}
           /\ UNCHANGED <<case, disk, before, input, files, handled, r, run>>
  BY <1>1, <1>8 DEF NotBegun
<1> QED  BY <1>3, <1>4, <1>5, <1>6, <1>7, <1>8, Steps

LEMMA OriginalsKeep ==
  ASSUME IInv, NotBegun, Tree, FilesInv, OriginalsKept, [Next]_vars
  PROVE  OriginalsKept'
<1>1. CASE disk' = before'  BY <1>1 DEF OriginalsKept
<1>2. CASE UNCHANGED <<case, given, params, disk, before>> /\ Reading
  <2>1. OutDir' = OutDir /\ Straight' = Straight  BY <1>2, SamePlaced
  <2> QED  BY <1>2, <2>1 DEF OriginalsKept
<1>3. CASE ListInput  BY <1>2, <1>3 DEF ListInput, commandLine, Reading
<1>4. CASE HandleFile
  <2>1. PICK f \in files : Handles(f)  BY <1>4, HandleIs
  <2>2. Reading /\ UNCHANGED <<case, given, params, before>>  BY <1>4, HandleIs DEF Reading
  <2>3. CASE ~Save(f)
    <3>1. disk' = disk  BY <2>1, <2>3 DEF Handles
    <3> QED  BY <1>2, <2>2, <3>1
  <2>4. CASE Save(f)
    <3>1. OutDir' = OutDir /\ Straight' = Straight  BY <2>2, SamePlaced
    <3>2. /\ Straight => IsStrictPrefix(OutDir, Target(f))
          /\ DOMAIN disk' = DOMAIN disk \cup {Target(f)}
          /\ \A p \in DOMAIN disk : p # Target(f) => disk'[p] = disk[p]
      BY <2>4, SaveIs
    <3> QED  BY <2>2, <3>1, <3>2 DEF OriginalsKept
  <2> QED  BY <2>3, <2>4
<1>5. CASE Return  BY <1>2, <1>5 DEF Return, commandLine, Reading
<1>6. CASE Again  BY <1>6 DEF Again, OriginalsKept, Reading
<1>7. CASE UNCHANGED vars
  BY <1>2, <1>7 DEF vars, commandLine, OriginalsKept, Reading
<1>8. CASE /\ pc \in {"Arguments", "Checks", "Private"}
           /\ UNCHANGED <<case, disk, before, input, files, handled, r, run>>
  BY <1>1, <1>8 DEF NotBegun
<1> QED  BY <1>3, <1>4, <1>5, <1>6, <1>7, <1>8, Steps

-----------------------------------------------------------------------------
(* The command as a whole, which is the same in every run.                 *)

InputsBefore(k) == {case.args[m] : m \in {l \in 1 .. k - 1 : Role(l) = "input"}}

ParamSet == {params[j] : j \in 1 .. Len(params)}

\* The inputs read are those of the command, unless it stops making sense.
ParamsInv ==
  /\ pc = "Arguments" => ParamSet = InputsBefore(next)
  /\ pc # "Arguments" /\ Errors = {} => ParamSet = InputsBefore(Len(case.args) + 1)

CommandOut == PathNamed(IF Places("-o") # {} THEN ValueOf("-o") ELSE "output")
CommandInputs == {PathNamed(a) : a \in InputsBefore(Len(case.args) + 1)}

CommandIsStraight ==
  \A base \in CommandInputs \cup {CommandOut} : \A p \in DOMAIN case.links :
    IsStrictPrefix(base, p) => IsStrictPrefix(base, case.links[p])

CommandIsApart ==
  \A base \in CommandInputs : \A p \in {base, Real(base)} :
    ~IsPrefix(CommandOut, p) /\ ~IsPrefix(p, CommandOut)

LEMMA OneInputMore ==
  ASSUME NEW k \in Nat \ {0}
  PROVE  InputsBefore(k + 1) =
           InputsBefore(k) \cup {a \in {case.args[k]} : Role(k) = "input"}
<1>1. 1 .. (k + 1) - 1 = (1 .. k - 1) \cup {k}  OBVIOUS
<1> QED  BY <1>1 DEF InputsBefore

LEMMA SameInputs ==
  ASSUME case' = case
  PROVE  /\ \A k : InputsBefore(k)' = InputsBefore(k)
         /\ CommandInputs' = CommandInputs /\ CommandOut' = CommandOut
         /\ CommandIsStraight' = CommandIsStraight /\ CommandIsApart' = CommandIsApart
<1>1. /\ \A k : (Role(k))' = Role(k) /\ \A o : (Places(o))' = Places(o) /\ (ValueOf(o))' = ValueOf(o)
  BY SameArguments
<1>2. \A k : InputsBefore(k)' = InputsBefore(k)  BY <1>1 DEF InputsBefore
<1>3. CommandInputs' = CommandInputs  BY <1>2 DEF CommandInputs
<1>4. CommandOut' = CommandOut  BY <1>1 DEF CommandOut
<1>5. \A p : Real(p)' = Real(p)  BY SameReal
<1> QED  BY <1>2, <1>3, <1>4, <1>5 DEF CommandIsStraight, CommandIsApart

LEMMA NextInputs ==
  ASSUME NEW k, next' = k, case' = case  PROVE InputsBefore(next)' = InputsBefore(k)
BY SameInputs DEF InputsBefore

LEMMA ParamsKeep ==
  ASSUME IInv, CommandType, ParamsInv, [Next]_vars  PROVE ParamsInv'
<1>1. case' = case /\ Errors' = Errors  BY CommandSteps, SameArguments
<1>2. Len(case.args) \in Nat  BY ArgsFacts
<1>3. CASE ReadArgument
  <2>1. PICK k : k = next  OBVIOUS
  <2>2. /\ k \in 1 .. Len(case.args) + 1 /\ k \in Nat \ {0} /\ IsRead(k) /\ pc = "Arguments"
        /\ ParamSet = InputsBefore(k)
    BY <1>2, <1>3, <2>1 DEF ReadArgument, IInv, ArgumentsInv, ParamsInv
  <2>3. ASSUME NEW up \in Nat, next' = up, pc' = pc, ParamSet' = InputsBefore(up)
        PROVE  ParamsInv'
    BY <1>1, <2>2, <2>3, NextInputs DEF ParamsInv
  <2>4. CASE k > Len(case.args)
    <3>1. k = Len(case.args) + 1 /\ pc' = "Checks" /\ params' = params
      BY <1>2, <1>3, <2>1, <2>2, <2>4 DEF ReadArgument, commandLine
    <3>2. InputsBefore(Len(case.args) + 1)' = InputsBefore(k)  BY <1>1, <3>1, SameInputs
    <3> QED  BY <1>1, <2>2, <3>1, <3>2 DEF ParamsInv, ParamSet
  <2>5. CASE ~(k > Len(case.args))
    <3> DEFINE arg == case.args[k]
    <3>1. k \in 1 .. Len(case.args)  BY <1>2, <2>2, <2>5
    <3>2. \/ ReadParam(arg) \/ ReadFlag(arg) \/ ReadValued(arg)
          \/ arg \in Undefined /\ Misunderstood
      BY <1>3, <2>1, <2>5 DEF ReadArgument
    <3>3. InputsBefore(k + 1) = InputsBefore(k) \cup {a \in {arg} : Role(k) = "input"}
      BY <2>2, OneInputMore
    <3>4. k + 1 \in Nat \ {0} /\ k + 2 \in Nat /\ (k + 1) + 1 = k + 2  BY <2>2
    <3>5. CASE ReadParam(arg)
      <4>1. /\ arg \notin Dashed /\ params' = Append(params, arg) /\ next' = k + 1 /\ pc' = pc
        BY <2>1, <3>5 DEF ReadParam
      <4>2. Role(k) = "input"  BY <2>2, <4>1, RoleOfRead
      <4>3. ParamSet' = ParamSet \cup {arg}
        <5>1. /\ Len(params') = Len(params) + 1 /\ Len(params) \in Nat
              /\ \A j \in 1 .. Len(params) : params'[j] = params[j]
              /\ params'[Len(params) + 1] = arg
          <6>1. params \in Seq(Args) /\ arg \in Args  BY <3>1 DEF CommandType, Args
          <6> QED  BY <4>1, <6>1, AppendProperties
        <5>2. 1 .. Len(params) + 1 = (1 .. Len(params)) \cup {Len(params) + 1}  BY <5>1
        <5> QED  BY <5>1, <5>2 DEF ParamSet
      <4> QED  BY <2>2, <2>3, <3>3, <3>4, <4>1, <4>2, <4>3
    <3>6. CASE ReadFlag(arg)
      <4>1. arg \in Flags /\ next' = k + 1 /\ UNCHANGED <<pc, params>>
        BY <2>1, <3>6 DEF ReadFlag
      <4>2. Role(k) # "input"  BY <2>2, <4>1, RoleOfRead
      <4>3. ParamSet' = InputsBefore(k + 1)  BY <2>2, <3>3, <4>1, <4>2 DEF ParamSet
      <4> QED  BY <2>3, <3>4, <4>1, <4>3
    <3>7. CASE ReadValued(arg) /\ ~Misunderstood
      <4>1. arg \in Valued /\ next' = k + 2 /\ UNCHANGED <<pc, params>>
        BY <2>1, <3>7 DEF ReadValued
      <4>2. Role(k) # "input"  BY <2>2, <4>1, RoleOfRead
      <4>3. Role(k + 1) # "input"  BY <2>2, <4>1, AfterOption DEF Role
      <4>4. InputsBefore(k + 2) = InputsBefore(k + 1)
        BY <3>4, <4>3, OneInputMore
      <4>5. ParamSet' = InputsBefore(k + 2)
        BY <2>2, <3>3, <4>1, <4>2, <4>4 DEF ParamSet
      <4> QED  BY <2>3, <3>4, <4>1, <4>5
    <3>8. CASE Misunderstood
      <4>1. pc' = "Checks" /\ understood' = FALSE  BY <3>8 DEF Misunderstood
      <4>2. Known'  BY <1>3, <4>1, ReadArgumentKeeps DEF IInv, KnownInv
      <4>3. Errors' # {}  BY <4>1, <4>2 DEF Known
      <4> QED  BY <4>1, <4>3 DEF ParamsInv
    <3> QED  BY <3>2, <3>5, <3>6, <3>7, <3>8
  <2> QED  BY <2>4, <2>5
<1>4. CASE Again
  <2>1. pc' = "Arguments" /\ next' = 1 /\ params' = <<>>  BY <1>4 DEF Again
  <2>2. ParamSet' = {}  BY <2>1 DEF ParamSet
  <2>3. InputsBefore(next)' = InputsBefore(1)  BY <1>1, <2>1, NextInputs
  <2>4. InputsBefore(1) = {}  BY DEF InputsBefore
  <2> QED  BY <2>1, <2>2, <2>3, <2>4 DEF ParamsInv
<1>5. CASE UNCHANGED commandLine /\ ~Again /\ ~ReadArgument
  <2>1. ParamSet' = ParamSet  BY <1>5 DEF commandLine, ParamSet
  <2>2. InputsBefore(Len(case.args) + 1)' = InputsBefore(Len(case.args) + 1)
    BY <1>1, SameInputs DEF InputsBefore
  <2>3. CASE pc = "Arguments"
    <3>1. UNCHANGED <<pc, next>>
      BY <1>5, <2>3 DEF Next, CheckUsage, LoadPrivateFile, ListInput, HandleFile, Return,
                        Terminated, vars, commandLine
    <3>2. InputsBefore(next)' = InputsBefore(next)  BY <1>1, <3>1, NextInputs
    <3> QED  BY <2>1, <2>3, <3>1, <3>2 DEF ParamsInv
  <2>4. CASE pc # "Arguments"
    <3>1. pc' # "Arguments"
      BY <1>5, <2>4 DEF Next, CheckUsage, LoadPrivateFile, ListInput, HandleFile, Return,
                        Terminated, vars, Exit, Save
    <3> QED  BY <1>1, <2>1, <2>2, <2>4, <3>1 DEF ParamsInv
  <2> QED  BY <2>3, <2>4
<1> QED  BY <1>3, <1>4, <1>5, CommandSteps

LEMMA CommandIs ==
  ASSUME IInv, CommandType, ParamsInv, pc # "Arguments", Errors = {}
  PROVE  /\ OutDir = CommandOut
         /\ Straight <=> CommandIsStraight
         /\ Straight /\ Apart <=> CommandIsStraight /\ CommandIsApart
<1>1. Known  BY DEF IInv, KnownInv
<1>2. "-o" \in Valued  BY DEF Valued
<1>3. OutDir = CommandOut  BY <1>1, <1>2 DEF Known, OutDir, CommandOut
<1>4. Inputs = CommandInputs
  <2>1. Inputs = {PathNamed(a) : a \in ParamSet}  BY DEF Inputs, ParamSet
  <2> QED  BY <2>1 DEF ParamsInv, CommandInputs
<1> QED  BY <1>3, <1>4 DEF Straight, Apart, CommandIsStraight, CommandIsApart

-----------------------------------------------------------------------------
(* Nothing is obfuscated twice.                                            *)

OnceInv ==
  /\ Errors # {} => disk = case.disk
  /\ CommandIsStraight /\ CommandIsApart =>
       \A p \in DOMAIN disk :
         /\ disk[p].times <= 1
         /\ ~IsStrictPrefix(CommandOut, p) => disk[p].times = 0

LEMMA OnceKeeps ==
  ASSUME IInv, CommandType, ParamsInv, Tree, FilesInv, OnceInv, [Next]_vars
  PROVE  OnceInv'
<1>1. /\ case' = case /\ Errors' = Errors /\ CommandOut' = CommandOut
      /\ CommandIsStraight' = CommandIsStraight /\ CommandIsApart' = CommandIsApart
  BY CommandSteps, SameArguments, SameInputs
<1>2. CASE disk' = disk  BY <1>1, <1>2 DEF OnceInv
<1>3. CASE HandleFile
  <2>1. PICK f \in files : Handles(f)  BY <1>3, HandleIs
  <2>2. CASE ~Save(f)  BY <1>2, <2>1, <2>2 DEF Handles
  <2>3. CASE Save(f)
    <3> DEFINE t == Target(f)
               s == Source(f)
    <3>1. pc = "Inputs" /\ Errors = {}
      BY <1>3, HandleIs DEF IInv, BegunInv, CanBegin
    <3>2. /\ OutDir = CommandOut /\ Straight <=> CommandIsStraight
          /\ Straight /\ Apart <=> CommandIsStraight /\ CommandIsApart
      BY <3>1, CommandIs
    <3>3. /\ s \in DOMAIN disk
          /\ Straight => IsStrictPrefix(OutDir, t)
          /\ Straight /\ Apart => ~IsStrictPrefix(OutDir, s)
          /\ DOMAIN disk' = DOMAIN disk \cup {t} /\ disk'[t] = Obfuscated(disk[s])
          /\ \A p \in DOMAIN disk : p # t => disk'[p] = disk[p]
      BY <2>3, SaveIs
    <3> HIDE DEF t, s
    <3>4. disk'[t].times = disk[s].times + 1
      BY <3>3, SavedContent DEF Tree
    <3>5. ASSUME CommandIsStraight, CommandIsApart, NEW p \in DOMAIN disk'
          PROVE  /\ disk'[p].times <= 1
                 /\ ~IsStrictPrefix(CommandOut, p) => disk'[p].times = 0
      <4>1. disk[s].times = 0  BY <3>2, <3>3, <3>5 DEF OnceInv
      <4>2. IsStrictPrefix(CommandOut, t)  BY <3>2, <3>3, <3>5
      <4>3. CASE p = t
        <5>1. disk'[p].times = 1  BY <3>4, <4>1, <4>3
        <5> QED  BY <4>2, <4>3, <5>1
      <4>4. CASE p # t
        <5>1. p \in DOMAIN disk /\ disk'[p] = disk[p]  BY <3>3, <3>5, <4>4
        <5> QED  BY <3>5, <5>1 DEF OnceInv
      <4> QED  BY <4>3, <4>4
    <3> QED  BY <1>1, <3>1, <3>5 DEF OnceInv
  <2> QED  BY <2>2, <2>3
<1>4. CASE ListInput \/ Return \/ Again  BY <1>2, <1>4 DEF ListInput, Return, Again
<1>5. CASE UNCHANGED vars  BY <1>2, <1>5 DEF vars
<1> QED  BY <1>2, <1>3, <1>4, <1>5, Steps

LEMMA OnceIs ==
  ASSUME IInv, CommandType, ParamsInv, Tree, OnceInv  PROVE OnceOnly
<1> SUFFICES ASSUME Reading, Straight, Apart, NEW p \in DOMAIN disk
             PROVE  disk[p].times <= case.disk[disk[p].of].times + 1
  BY DEF OnceOnly
<1>1. ASSUME NEW q \in DOMAIN case.disk  PROVE case.disk[q].times = 0
  <2>1. case.disk[q] = [of |-> q, times |-> 0]  BY DiskAssumption DEF IInv
  <2> DEFINE c == case.disk[q]
  <2>2. c = [of |-> q, times |-> 0]  BY <2>1
  <2> HIDE DEF c
  <2>3. c.times = 0  BY <2>2
  <2> QED  BY <2>3 DEF c
<1>2. case.disk[disk[p].of].times = 0  BY <1>1 DEF Tree
<1>3. CASE Errors # {}
  <2>1. p \in DOMAIN case.disk /\ disk[p] = case.disk[p]  BY <1>3 DEF OnceInv
  <2>2. disk[p].times = 0  BY <1>1, <2>1
  <2> QED  BY <1>2, <2>2
<1>4. CASE Errors = {}
  <2>1. CommandIsStraight /\ CommandIsApart  BY <1>4, CommandIs DEF Reading
  <2>2. disk[p].times <= 1  BY <2>1 DEF OnceInv
  <2> QED  BY <1>2, <2>2
<1> QED  BY <1>3, <1>4

-----------------------------------------------------------------------------
(* What success means.                                                     *)

\* What h was to write is there, or something else that goes to the same path.
IsThere(h) ==
  /\ h.to \in DOMAIN disk
  /\ \E g \in handled : g.to = h.to /\ disk[h.to] = Obfuscated(before[g.of])

SavedHere == Reading /\ Straight /\ Apart => \A h \in handled : h.saved => IsThere(h)

ZeroInv == pc = "Exited" /\ exit = 0 => \A h \in handled : h.saved

LEMMA SavedKeeps ==
  ASSUME IInv, NotBegun, Tree, FilesInv, OriginalsKept, SavedHere, [Next]_vars
  PROVE  SavedHere'
<1>1. CASE handled' = {}  BY <1>1 DEF SavedHere
<1>2. CASE UNCHANGED <<case, given, params, disk, before, handled>> /\ Reading
  <2>1. Straight' = Straight /\ Apart' = Apart  BY <1>2, SamePlaced
  <2> QED  BY <1>2, <2>1 DEF SavedHere, IsThere
<1>3. CASE ListInput  BY <1>2, <1>3 DEF ListInput, commandLine, Reading
<1>4. CASE HandleFile
  <2>1. PICK f \in files : Handles(f)  BY <1>4, HandleIs
  <2>2. Reading /\ UNCHANGED <<case, given, params, before>>  BY <1>4, HandleIs DEF Reading
  <2>3. Straight' = Straight /\ Apart' = Apart  BY <2>2, SamePlaced
  <2> SUFFICES ASSUME Straight, Apart, NEW h \in handled', h.saved  PROVE IsThere(h)'
    BY <2>3 DEF SavedHere
  <2>4. \A g \in handled : g.saved => IsThere(g)  BY <2>2 DEF SavedHere
  <2>5. CASE Save(f)
    <3> DEFINE t == Target(f)
               s == Source(f)
               new == [file |-> f, of |-> Real(f.in), to |-> Real(f.out), saved |-> TRUE]
    <3>1. /\ s \in DOMAIN disk /\ ~IsStrictPrefix(OutDir, s)
          /\ DOMAIN disk' = DOMAIN disk \cup {t} /\ disk'[t] = Obfuscated(disk[s])
          /\ \A p \in DOMAIN disk : p # t => disk'[p] = disk[p]
      BY <2>5, SaveIs
    <3>2. handled' = handled \cup {new} /\ new.of = s /\ new.to = t
      BY <2>5 DEF Save, Over, Source, Target
    <3> HIDE DEF t, s, new
    <3>3. disk[s] = before[s]  BY <2>2, <3>1 DEF OriginalsKept
    <3>4. disk'[t] = Obfuscated(before'[new.of])  BY <2>2, <3>1, <3>2, <3>3
    <3>5. CASE h.to = t
      BY <3>1, <3>2, <3>4, <3>5 DEF IsThere
    <3>6. CASE h.to # t
      <4>1. h \in handled  BY <3>2, <3>6
      <4>2. IsThere(h)  BY <2>4, <4>1
      <4> QED  BY <2>2, <3>1, <3>2, <3>6, <4>2 DEF IsThere
    <3> QED  BY <3>5, <3>6
  <2>6. CASE ~Save(f)
    <3>1. disk' = disk /\ handled \subseteq handled'  BY <2>1, <2>6 DEF Handles, Over
    <3>2. h \in handled
      <4>1. CASE UNCHANGED handled  BY <4>1
      <4>2. CASE Over(f, FALSE)
        <5> DEFINE new == [file |-> f, of |-> Real(f.in), to |-> Real(f.out), saved |-> FALSE]
        <5>1. handled' = handled \cup {new} /\ new.saved = FALSE  BY <4>2 DEF Over
        <5> HIDE DEF new
        <5> QED  BY <5>1
      <4> QED  BY <2>1, <2>6, <4>1, <4>2 DEF Handles
    <3>3. IsThere(h)  BY <2>4, <3>2
    <3> QED  BY <2>2, <3>1, <3>3 DEF IsThere
  <2> QED  BY <2>5, <2>6
<1>5. CASE Return  BY <1>2, <1>5 DEF Return, commandLine, loop, Reading
<1>6. CASE Again  BY <1>1, <1>6 DEF Again
<1>7. CASE UNCHANGED vars
  BY <1>2, <1>7 DEF vars, commandLine, loop, SavedHere, Reading
<1>8. CASE /\ pc \in {"Arguments", "Checks", "Private"}
           /\ UNCHANGED <<case, disk, before, input, files, handled, r, run>>
  BY <1>1, <1>8 DEF NotBegun
<1> QED  BY <1>3, <1>4, <1>5, <1>6, <1>7, <1>8, Steps

LEMMA ZeroKeeps ==
  ASSUME IInv, NotBegun, HandledType, ZeroInv, [Next]_vars  PROVE ZeroInv'
<1>1. CASE ListInput  BY <1>1 DEF ListInput, Exit, Aborted, ZeroInv
<1>2. CASE HandleFile
  <2>1. PICK f \in files : Handles(f)  BY <1>2, HandleIs
  <2>2. pc = "Inputs"  BY <1>2, HandleIs
  <2> QED  BY <2>1, <2>2 DEF Handles, Save, Over, Aborted, ZeroInv
<1>3. CASE Return
  <2>1. pc = "Inputs" /\ exit' = r /\ handled' = handled  BY <1>3 DEF Return, Exit, loop
  <2> QED  BY <2>1 DEF ZeroInv, IInv, ResultInv
<1>4. CASE Again  BY <1>4 DEF Again, ZeroInv
<1>5. CASE UNCHANGED vars  BY <1>5 DEF vars, loop, ZeroInv
<1>6. CASE /\ pc \in {"Arguments", "Checks", "Private"}
           /\ UNCHANGED <<case, disk, before, input, files, handled, r, run>>
  BY <1>6 DEF NotBegun, ZeroInv
<1> QED  BY <1>1, <1>2, <1>3, <1>4, <1>5, <1>6, Steps

LEMMA SuccessIs ==
  ASSUME SavedHere, ZeroInv  PROVE SuccessMeansSaved
BY DEF SavedHere, ZeroInv, SuccessMeansSaved, IsThere, Reading

-----------------------------------------------------------------------------
(* Nothing is forgotten.                                                   *)

Wanted(base, p) ==
  \/ p = base
  \/ IsStrictPrefix(base, p) /\ Extension(Last(p)) \in Accepted

\* p has been handled, or is about to be.
Met(p) == (\E h \in handled : h.of = p) \/ \E f \in files : Real(f.in) = p

ListedInv ==
  pc = "Inputs" =>
    \A k \in 1 .. input - 1 : \A p \in DOMAIN before :
      Wanted(PathNamed(params[k]), p) => Met(p)

\* Whatever there is of an input is listed with it.
LEMMA ListsAll ==
  ASSUME IInv, CommandType, LoopType, Tree, ListInput, pc' = pc,
         NEW p \in DOMAIN before, Wanted(InputPath, p)
  PROVE  \E f \in files' : Real(f.in) = p
<1> DEFINE base == InputPath
<1>1. base \in Inputs /\ base \in Plain /\ case \in Cases
  BY ListedFiles, PlainCommand DEF IInv
<1>2. p \in DOMAIN disk /\ p \in Plain /\ p \notin DOMAIN case.links /\ p \in Entries
  BY DEF Tree, Entries
<1>3. Real(p) = p  BY <1>1, <1>2, RealPlain
<1>4. files' = IF IsRegular(base)
               THEN {[entry |-> base, in |-> base, out |-> Normal(Append(OutDir, Last(base)))]}
               ELSE Found(base)
  BY DEF ListInput, Exit
<1> HIDE DEF base
<1>5. CASE IsRegular(base)
  <2>1. base \in Entries  BY <1>1, <1>5, RealPlain DEF IsRegular, Entries
  <2>2. ~IsStrictPrefix(base, p)  BY <1>2, <2>1 DEF Tree
  <2>3. p = base  BY <2>2 DEF Wanted, base
  <2> DEFINE f == [entry |-> base, in |-> base, out |-> Normal(Append(OutDir, Last(base)))]
  <2>4. f \in files' /\ f.in = base  BY <1>4, <1>5
  <2> QED  BY <1>3, <2>3, <2>4
<1>6. CASE ~IsRegular(base)
  <2>1. p # base  BY <1>2, <1>3, <1>6 DEF IsRegular
  <2>2. IsStrictPrefix(base, p) /\ Extension(Last(p)) \in Accepted  BY <2>1 DEF Wanted, base
  <2>3. Listed(base, p) \in files'  BY <1>2, <1>4, <1>6, <2>2 DEF Found
  <2>4. Listed(base, p).in = p  BY <1>1, <1>2, <1>3, <2>2, FoundFile
  <2> QED  BY <1>3, <2>3, <2>4
<1> QED  BY <1>5, <1>6

LEMMA ListedKeeps ==
  ASSUME IInv, CommandType, LoopType, NotBegun, Tree, ListedInv, [Next]_vars
  PROVE  ListedInv'
<1>0. case' = case /\ \A p : Real(p)' = Real(p)  BY CommandSteps, SameReal
<1>1. CASE pc' # "Inputs"  BY <1>1 DEF ListedInv
<1>2. CASE pc' = "Inputs" /\ pc # "Inputs"
  <2>1. LoadPrivateFile
    BY <1>2 DEF Next, ReadArgument, ReadParam, ReadFlag, ReadValued, Misunderstood, CheckUsage,
                ListInput, HandleFile, Return, Again, Terminated, vars, Exit
  <2>2. input' = 1  BY <2>1 DEF LoadPrivateFile, NotBegun, loop
  <2>3. 1 .. input' - 1 = {}  BY <2>2
  <2> QED  BY <2>3 DEF ListedInv
<1>3. CASE pc' = "Inputs" /\ pc = "Inputs"
  <2>1. CASE ListInput
    <3>1. /\ input \in 1 .. Len(params) /\ input' = input + 1 /\ files = {}
          /\ UNCHANGED <<params, before, handled>>
      <4>1. Len(params) \in Nat  BY DEF CommandType
      <4>2. /\ input <= Len(params) /\ files = {} /\ UNCHANGED <<params, before, handled>>
            /\ input' = input + 1
        BY <1>3, <2>1 DEF ListInput, commandLine, Exit
      <4> QED  BY <4>1, <4>2 DEF LoopType
    <3>2. \A k \in 1 .. input' - 1 : k \in 1 .. input - 1 \/ k = input  BY <3>1
    <3>3. ASSUME NEW k \in 1 .. input' - 1, NEW p \in DOMAIN before, Wanted(PathNamed(params[k]), p)
          PROVE  Met(p)'
      <4>1. CASE k \in 1 .. input - 1
        <5>1. \E h \in handled : h.of = p
          BY <1>3, <3>1, <3>3, <4>1 DEF ListedInv, Met
        <5> QED  BY <3>1, <5>1 DEF Met
      <4>2. CASE k = input
        <5>1. \E f \in files' : Real(f.in) = p
          BY <1>3, <2>1, <3>3, <4>2, ListsAll DEF InputPath
        <5> QED  BY <1>0, <5>1 DEF Met
      <4> QED  BY <3>2, <3>3, <4>1, <4>2
    <3> QED  BY <3>1, <3>3 DEF ListedInv, Wanted
  <2>2. CASE HandleFile
    <3>1. PICK f \in files : Handles(f)  BY <2>2, HandleIs
    <3>2. UNCHANGED <<params, before, input>>  BY <2>2, HandleIs
    <3>3. \E b \in BOOLEAN : Over(f, b)  BY <1>3, <3>1 DEF Handles, Save
    <3>4. PICK b \in BOOLEAN : Over(f, b)  BY <3>3
    <3> DEFINE new == [file |-> f, of |-> Real(f.in), to |-> Real(f.out), saved |-> b]
    <3>5. handled' = handled \cup {new} /\ files' = files \ {f} /\ new.of = Real(f.in)
      BY <3>4 DEF Over, Left
    <3> HIDE DEF new
    <3>6. ASSUME NEW p, Met(p)  PROVE Met(p)'
      BY <1>0, <3>5, <3>6 DEF Met
    <3> QED  BY <1>3, <3>2, <3>6 DEF ListedInv, Wanted
  <2>3. CASE UNCHANGED vars
    <3>1. UNCHANGED <<input, params, before, handled, files>>
      BY <2>3 DEF vars, commandLine, loop
    <3> QED  BY <1>0, <1>3, <3>1 DEF ListedInv, Wanted, Met
  <2>4. CASE Return \/ Again  BY <1>3, <2>4 DEF Return, Again, Exit
  <2> QED  BY <1>3, <2>1, <2>2, <2>3, <2>4, Steps
<1> QED  BY <1>1, <1>2, <1>3

LEMMA NothingForgottenKeeps ==
  ASSUME IInv, CommandType, LoopType, ListedInv, NothingForgotten, [Next]_vars
  PROVE  NothingForgotten'
<1>1. CASE pc' # "Exited" \/ exit' = Aborted  BY <1>1 DEF NothingForgotten
<1>2. CASE CheckUsage \/ LoadPrivateFile
  <2>1. Known /\ UNCHANGED <<case, commandLine>>
    BY <1>2 DEF IInv, KnownInv, CheckUsage, LoadPrivateFile
  <2>2. LevelIsValid' = LevelIsValid /\ CanBegin' = CanBegin  BY <2>1, SameCommand
  <2>3. CASE pc' # "Exited" \/ exit' = Aborted  BY <1>1, <2>3
  <2>4. CASE ~(pc' # "Exited" \/ exit' = Aborted)
    <3>1. CASE CheckUsage
      <4>1. \/ "-l" \in DOMAIN given /\ given["-l"] \notin LogLevels
            \/ BadUsage
        BY <2>4, <3>1 DEF CheckUsage
      <4>2. ~LevelIsValid \/ ~CanBegin  BY <2>1, <4>1, ChecksAreRight
      <4> QED  BY <2>2, <4>2 DEF NothingForgotten
    <3>2. CASE LoadPrivateFile
      <4>1. PrivateFile # "loads"  BY <2>4, <3>2 DEF LoadPrivateFile, Exit
      <4>2. ~CanBegin  BY <2>1, <4>1, ChecksAreRight
      <4> QED  BY <2>2, <4>2 DEF NothingForgotten
    <3> QED  BY <1>2, <3>1, <3>2
  <2> QED  BY <2>3, <2>4
<1>3. CASE Return
  <2>1. /\ pc = "Inputs" /\ files = {} /\ input > Len(params)
        /\ UNCHANGED <<params, before, handled>>
    BY <1>3 DEF Return, commandLine, loop
  <2>2. input - 1 = Len(params)
    <3>1. Len(params) \in Nat  BY DEF CommandType
    <3> QED  BY <2>1, <3>1 DEF LoopType
  <2>3. ASSUME NEW k \in 1 .. Len(params), NEW p \in DOMAIN before,
               Wanted(PathNamed(params[k]), p)
        PROVE  \E h \in handled : h.of = p
    BY <2>1, <2>2, <2>3 DEF ListedInv, Met
  <2>4. \A base \in Inputs : \A p \in DOMAIN before :
          Wanted(base, p) => \E h \in handled : h.of = p
    BY <2>3 DEF Inputs
  <2>5. Inputs' = Inputs  BY <2>1 DEF Inputs
  <2> QED  BY <2>1, <2>4, <2>5 DEF NothingForgotten, Wanted
<1>4. CASE UNCHANGED vars
  <2>1. UNCHANGED <<case, commandLine, before, handled, pc, exit, params>>
    BY <1>4 DEF vars, commandLine, loop
  <2>2. Inputs' = Inputs  BY <2>1 DEF Inputs
  <2>3. LevelIsValid' = LevelIsValid /\ CanBegin' = CanBegin  BY <2>1, SameCommand
  <2> QED  BY <2>1, <2>2, <2>3 DEF NothingForgotten
<1>5. CASE ReadArgument \/ ListInput \/ HandleFile \/ Again
  <2>1. pc' # "Exited" \/ exit' = Aborted
    BY <1>5 DEF ReadArgument, ReadParam, ReadFlag, ReadValued, Misunderstood, ListInput,
                HandleFile, Save, Again, Exit
  <2> QED  BY <1>1, <2>1
<1> QED  BY <1>2, <1>3, <1>4, <1>5 DEF Next, Terminated

-----------------------------------------------------------------------------
(* All of it.                                                              *)

FilesAllInv ==
  /\ IInv /\ CommandType /\ LoopType /\ NotBegun
  /\ Tree /\ FilesInv /\ HandledType
  /\ OriginalsKept /\ ParamsInv /\ OnceInv /\ SavedHere /\ ZeroInv
  /\ ListedInv /\ NothingForgotten

LEMMA FilesAllInit == Init => FilesAllInv
<1> SUFFICES ASSUME Init PROVE FilesAllInv  OBVIOUS
<1>1. /\ case \in Cases /\ run = 1 /\ disk = case.disk /\ before = case.disk
      /\ pc = "Arguments" /\ next = 1 /\ given = <<>> /\ params = <<>> /\ understood = TRUE
      /\ input = 1 /\ files = {} /\ handled = {} /\ r = 0 /\ exit = 0
  BY DEF Init, Start
<1>2. IInv  BY InitIInv
<1>3. CommandType
  <2>1. 1 \in 1 .. Len(case.args) + 1  BY <1>2, ArgsFacts
  <2>2. params \in Seq(Args) /\ DOMAIN given = {}  BY <1>1, EmptySeq
  <2> QED  BY <1>1, <2>1, <2>2 DEF CommandType
<1>4. LoopType
  <2>1. Len(params) = 0 /\ 1 \in 1 .. 0 + 1  BY <1>1
  <2> QED  BY <1>1, <2>1, RunsAssumption DEF LoopType
<1>5. NotBegun /\ FilesInv /\ HandledType  BY <1>1 DEF NotBegun, FilesInv, HandledType
<1>6. ASSUME NEW p \in DOMAIN disk
      PROVE  /\ p \in Plain /\ p # <<>> /\ p \notin DOMAIN case.links
             /\ disk[p] \in ContentType /\ disk[p].of \in DOMAIN case.disk /\ disk[p].times = 0
  <2>1. p \in Plain \ {<<>>} /\ disk[p] = [of |-> p, times |-> 0]  BY <1>1, <1>6, DiskAssumption
  <2>2. p \notin DOMAIN case.links  BY <1>1, <1>6, LinksAssumption
  <2> DEFINE c == disk[p]
  <2>3. c = [of |-> p, times |-> 0]  BY <2>1
  <2> HIDE DEF c
  <2>4. p \in Paths  BY <2>1, PlainPaths DEF Paths
  <2>5. c \in ContentType /\ c.of = p /\ c.times = 0  BY <2>3, <2>4 DEF ContentType
  <2> QED  BY <1>1, <1>6, <2>1, <2>2, <2>5 DEF c
<1>7. Tree
  <2>1. \A p, q \in Entries : ~IsStrictPrefix(p, q)  BY <1>1, DiskAssumption DEF Entries
  <2> QED  BY <1>1, <1>6, <2>1 DEF Tree
<1>8. OriginalsKept /\ SavedHere /\ ZeroInv /\ ListedInv /\ NothingForgotten
  BY <1>1 DEF OriginalsKept, SavedHere, Reading, ZeroInv, ListedInv, NothingForgotten
<1>9. ParamsInv
  <2>1. ParamSet = {}  BY <1>1 DEF ParamSet
  <2>2. InputsBefore(next) = {}  BY <1>1 DEF InputsBefore
  <2> QED  BY <1>1, <2>1, <2>2 DEF ParamsInv
<1>10. OnceInv  BY <1>1, <1>6 DEF OnceInv
<1> QED  BY <1>2, <1>3, <1>4, <1>5, <1>7, <1>8, <1>9, <1>10 DEF FilesAllInv

LEMMA FilesAllKeeps == FilesAllInv /\ [Next]_vars => FilesAllInv'
<1> SUFFICES ASSUME FilesAllInv, [Next]_vars PROVE FilesAllInv'  OBVIOUS
<1>0. /\ IInv /\ CommandType /\ LoopType /\ NotBegun /\ Tree /\ FilesInv /\ HandledType
      /\ OriginalsKept /\ ParamsInv /\ OnceInv /\ SavedHere /\ ZeroInv
      /\ ListedInv /\ NothingForgotten
  BY DEF FilesAllInv
<1>1. IInv'  BY <1>0, NextKeeps
<1>2. CommandType'  BY <1>0, CommandKeeps
<1>3. LoopType' /\ NotBegun'  BY <1>0, <1>2, LoopKeeps
<1>4. Tree'  BY <1>0, TreeKeeps
<1>5. FilesInv' /\ HandledType'  BY <1>0, FilesKeep
<1>6. OriginalsKept'  BY <1>0, OriginalsKeep
<1>7. ParamsInv'  BY <1>0, ParamsKeep
<1>8. OnceInv'  BY <1>0, OnceKeeps
<1>9. SavedHere' /\ ZeroInv'  BY <1>0, SavedKeeps, ZeroKeeps
<1>10. ListedInv' /\ NothingForgotten'  BY <1>0, ListedKeeps, NothingForgottenKeeps
<1> QED
  BY <1>1, <1>2, <1>3, <1>4, <1>5, <1>6, <1>7, <1>8, <1>9, <1>10 DEF FilesAllInv

LEMMA TypesAre == FilesAllInv => TypeOK
<1> SUFFICES ASSUME FilesAllInv PROVE TypeOK  OBVIOUS
<1>1. IInv /\ CommandType /\ LoopType /\ Tree /\ FilesInv /\ HandledType  BY DEF FilesAllInv
<1>2. case \in Cases /\ Args \subseteq STRING  BY <1>1, ArgsFacts DEF IInv, Args
<1>3. \A p \in DOMAIN disk : p \in Paths /\ disk[p] \in ContentType
  BY <1>1, PlainPaths DEF Tree, Paths
<1>4. \A p \in DOMAIN before : p \in Paths /\ before[p] \in ContentType
  BY <1>1, <1>3 DEF Tree
<1>5. params \in Seq(STRING)  BY <1>1, <1>2, SeqMonotonic DEF CommandType
<1>6. files \subseteq FileType  BY <1>1 DEF FilesInv, FileIs
<1> QED
  BY <1>1, <1>2, <1>3, <1>4, <1>5, <1>6 DEF TypeOK, CommandType, LoopType, HandledType

\* The variables of the program keep their types, whatever the command and the files.
THEOREM TypesAreKept == Spec => []TypeOK
<1> QED  BY FilesAllInit, FilesAllKeeps, TypesAre, PTL DEF Spec

\* Unless a link leads out of an input or out of the output directory, nothing is made or
\* changed but in the output directory, whatever the inputs, also when they hold it.
THEOREM OriginalsAreKept == Spec => []OriginalsKept
<1>1. FilesAllInv => OriginalsKept  BY DEF FilesAllInv
<1> QED  BY <1>1, FilesAllInit, FilesAllKeeps, PTL DEF Spec

\* If the inputs and the output directory are apart as well, no file is obfuscated twice, however
\* often the command is given.
THEOREM ObfuscatedOnce == Spec => []OnceOnly
<1>1. FilesAllInv => OnceOnly  BY OnceIs DEF FilesAllInv
<1> QED  BY <1>1, FilesAllInit, FilesAllKeeps, PTL DEF Spec

\* When main returns after a command that makes sense, it has handled every file there was under
\* every input, also those after one that failed.
THEOREM NothingIsForgotten == Spec => []NothingForgotten
<1>1. FilesAllInv => NothingForgotten  BY DEF FilesAllInv
<1> QED  BY <1>1, FilesAllInit, FilesAllKeeps, PTL DEF Spec

\* With exit code 0, each file's output is there, made of it or of one that goes to the same path.
THEOREM SuccessIsSaved == Spec => []SuccessMeansSaved
<1>1. FilesAllInv => SuccessMeansSaved  BY SuccessIs DEF FilesAllInv
<1> QED  BY <1>1, FilesAllInit, FilesAllKeeps, PTL DEF Spec

-----------------------------------------------------------------------------
(* When a saved file is where the documentation says.                      *)

\* What is handled goes into the output directory, whatever became of it.
IntoOutput == Reading /\ Straight => \A h \in handled : IsStrictPrefix(OutDir, h.to)

LEMMA IntoOutputKeeps ==
  ASSUME IInv, NotBegun, FilesInv, IntoOutput, [Next]_vars  PROVE IntoOutput'
<1>1. CASE handled' = {}  BY <1>1 DEF IntoOutput
<1>2. CASE UNCHANGED <<case, given, params, handled>> /\ Reading
  <2>1. OutDir' = OutDir /\ Straight' = Straight  BY <1>2, SamePlaced
  <2> QED  BY <1>2, <2>1 DEF IntoOutput
<1>3. CASE ListInput  BY <1>2, <1>3 DEF ListInput, commandLine, Reading
<1>4. CASE HandleFile
  <2>1. PICK f \in files : Handles(f)  BY <1>4, HandleIs
  <2>2. Reading /\ UNCHANGED <<case, given, params>>  BY <1>4, HandleIs DEF Reading
  <2>3. OutDir' = OutDir /\ Straight' = Straight  BY <2>2, SamePlaced
  <2>4. CASE UNCHANGED handled  BY <2>2, <2>3, <2>4 DEF IntoOutput
  <2>5. CASE \E b \in BOOLEAN : Over(f, b)
    <3>1. PICK b \in BOOLEAN : Over(f, b)  BY <2>5
    <3> DEFINE new == [file |-> f, of |-> Real(f.in), to |-> Real(f.out), saved |-> b]
    <3>2. handled' = handled \cup {new} /\ new.to = Target(f)  BY <3>1 DEF Over, Target
    <3> HIDE DEF new
    <3>3. Straight => IsStrictPrefix(OutDir, Target(f))
      <4>1. FileIs(f) /\ case \in Cases  BY DEF FilesInv, IInv
      <4> QED  BY <4>1, RealPlain DEF FileIs, Straight, Target
    <3> QED  BY <2>2, <2>3, <3>2, <3>3 DEF IntoOutput
  <2> QED  BY <2>1, <2>4, <2>5 DEF Handles, Save
<1>5. CASE Return  BY <1>2, <1>5 DEF Return, commandLine, loop, Reading
<1>6. CASE Again  BY <1>1, <1>6 DEF Again
<1>7. CASE UNCHANGED vars  BY <1>2, <1>7 DEF vars, commandLine, loop, IntoOutput, Reading
<1>8. CASE /\ pc \in {"Arguments", "Checks", "Private"}
           /\ UNCHANGED <<case, disk, before, input, files, handled, r, run>>
  BY <1>1, <1>8 DEF NotBegun
<1> QED  BY <1>3, <1>4, <1>5, <1>6, <1>7, <1>8, Steps

(***************************************************************************)
(* The finding SavedIntoOutput is about links only: without one that leads *)
(* out of its directory, what main saves it saves into the output          *)
(* directory, whatever the paths given and however they overlap.           *)
(***************************************************************************)
THEOREM StraightFilesSavedIntoOutput == Spec => [](Reading /\ Straight => SavedIntoOutput)
<1>1. Init => IntoOutput
  <2> SUFFICES ASSUME Init PROVE IntoOutput  OBVIOUS
  <2>1. handled = {}  BY DEF Init, Start
  <2> QED  BY <2>1 DEF IntoOutput
<1>2. FilesAllInv /\ IntoOutput /\ [Next]_vars => IntoOutput'
  BY IntoOutputKeeps DEF FilesAllInv
<1>3. IntoOutput => (Reading /\ Straight => SavedIntoOutput)
  BY DEF IntoOutput, SavedIntoOutput
<1> QED  BY <1>1, <1>2, <1>3, FilesAllInit, FilesAllKeeps, PTL DEF Spec

\* No two files handled go to one path.
OutputsApart == \A g, h \in handled : g.to = h.to => g.of = h.of

(***************************************************************************)
(* The finding EachSaved is about files of one name only: when no two that *)
(* main has handled go to one path, exit code 0 means that each output is  *)
(* that of its own file.                                                   *)
(***************************************************************************)
THEOREM FilesOfApartNamesSaved == Spec => [](OutputsApart => EachSaved)
<1>1. SuccessMeansSaved => (OutputsApart => EachSaved)
  BY DEF SuccessMeansSaved, OutputsApart, EachSaved
<1> QED  BY <1>1, SuccessIsSaved, PTL
=============================================================================
