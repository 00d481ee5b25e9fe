----------------------------- MODULE FinderProofs -----------------------------
(***************************************************************************)
(* Proofs about Finder for every zone: what it returns are scripts, apart  *)
(* from each other.                                                        *)
(***************************************************************************)
EXTENDS FinderProperties, TLAPS

\* What has been found lies before the cursor.
Passed == \A i \in DOMAIN results : Last(results[i]) < pointer

IInv == TypeOK /\ Passed /\ ResultsApart /\ ResultsAreScripts

-----------------------------------------------------------------------------

\* The search returns a header in the zone, at or behind the cursor, and its length.
LEMMA MatchFacts ==
  ASSUME IsZone(zone), NEW m \in Marks(zone), Match(m)
  PROVE  /\ m \in Nat /\ m >= pointer /\ m + TreeSize <= zone.size
         /\ zone.lengths[m] \in Int /\ zone.size \in Nat
<1>1. m \in 0 .. zone.size - TreeSize /\ zone.size \in Nat /\ zone.lengths[m] \in Int
  BY DEF IsZone
<1>2. m >= pointer  BY DEF Match
<1> QED  BY <1>1, <1>2 DEF TreeSize

\* A string ends in the zone, at the first zero behind its beginning.
LEMMA StringFacts ==
  ASSUME IsZone(zone), NEW m \in Nat, NEW q \in zone.nuls, EndsString(q, m + TreeSize)
  PROVE  /\ q \in Nat /\ q >= m + TreeSize /\ q < zone.size
         /\ \A p \in m + TreeSize .. q - 1 : p \notin zone.nuls
<1>1. q \in 0 .. zone.size - 1 /\ zone.size \in Nat /\ zone.nuls \subseteq 0 .. zone.size - 1
  BY DEF IsZone
<1>2. q >= m + TreeSize /\ \A k \in zone.nuls : k >= m + TreeSize => q <= k
  BY DEF EndsString
<1>3. ASSUME NEW p \in m + TreeSize .. q - 1, p \in zone.nuls  PROVE FALSE
  <2>1. p \in Int /\ p >= m + TreeSize /\ p < q  BY <1>1 DEF TreeSize
  <2> QED  BY <1>1, <1>2, <1>3, <2>1
<1> QED  BY <1>1, <1>2, <1>3

-----------------------------------------------------------------------------

LEMMA InitIInv == Init => IInv
<1> SUFFICES ASSUME Init PROVE IInv  OBVIOUS
<1>1. IsZone(zone)  BY ZonesAssumption DEF Init
<1>2. zone.size \in Nat  BY <1>1 DEF IsZone
<1>3. results = <<>> /\ pointer = 0 /\ pc = "Search"  BY DEF Init
<1> QED  BY <1>1, <1>2, <1>3 DEF IInv, TypeOK, Passed, ResultsApart, ResultsAreScripts

LEMMA RejectKeeps == IInv /\ Reject => IInv'
<1> SUFFICES ASSUME IInv, Reject PROVE IInv'  OBVIOUS
<1> USE DEF IInv
<1>1. PICK m \in Marks(zone), q \in zone.nuls :
        Match(m) /\ EndsString(q, m + TreeSize) /\ pointer' = q + 1
  BY DEF Reject, AfterName
<1>2. /\ IsZone(zone) /\ pointer \in Nat /\ results \in Seq(ResultType)
      /\ pc \in {"Search", "Done", "Failed"}
  BY DEF TypeOK
<1>3. m \in Nat /\ m >= pointer  BY <1>1, <1>2, MatchFacts
<1>4. q \in Nat /\ q >= m + TreeSize /\ q < zone.size /\ zone.size \in Nat
  <2>1. zone.size \in Nat  BY <1>2 DEF IsZone
  <2> QED  BY <1>1, <1>2, <1>3, <2>1, StringFacts
<1>5. UNCHANGED <<zone, pc, results>>  BY DEF Reject
<1>6. pointer' \in 0 .. zone.size /\ pointer < pointer'  BY <1>1, <1>2, <1>3, <1>4 DEF TreeSize
<1>7. TypeOK'  BY <1>2, <1>5, <1>6 DEF TypeOK
<1>8. Passed'
  <2> SUFFICES ASSUME NEW i \in DOMAIN results PROVE Last(results[i]) < pointer'
    BY <1>5 DEF Passed, Last
  <2>1. results[i] \in ResultType  BY <1>2
  <2>2. Last(results[i]) \in Int  BY <2>1 DEF Last, ResultType
  <2> QED  BY <1>2, <1>4, <1>6, <2>2 DEF Passed
<1> QED  BY <1>5, <1>7, <1>8 DEF ResultsApart, ResultsAreScripts, Last

LEMMA TakeKeeps == IInv /\ Take => IInv'
<1> SUFFICES ASSUME IInv, Take PROVE IInv'  OBVIOUS
<1> USE DEF IInv
<1>1. PICK m \in Marks(zone), q \in zone.nuls :
        /\ Match(m) /\ EndsString(q, m + TreeSize)
        /\ IsCandidate(m, q) /\ CanRead(q + 1, DataSize(m))
        /\ pointer' = q + 1 + DataSize(m)
        /\ results' = IF HasMagic(q + 1)
                      THEN Append(results, [mark |-> m, name |-> m + TreeSize,
                                            obj |-> q + 1, size |-> DataSize(m)])
                      ELSE results
  BY DEF Take, AfterData
<1> DEFINE new == [mark |-> m, name |-> m + TreeSize, obj |-> q + 1, size |-> DataSize(m)]
<1>2. /\ IsZone(zone) /\ pointer \in Nat /\ results \in Seq(ResultType)
      /\ pc \in {"Search", "Done", "Failed"}
  BY DEF TypeOK
<1>3. m \in Nat /\ m >= pointer /\ zone.lengths[m] \in Int /\ zone.size \in Nat
  BY <1>1, <1>2, MatchFacts
<1>4. /\ q \in Nat /\ q >= m + TreeSize
      /\ \A p \in m + TreeSize .. q - 1 : p \notin zone.nuls
  BY <1>1, <1>2, <1>3, StringFacts
<1>5. DataSize(m) \in Nat /\ DataSize(m) > SmallestSize
  BY <1>1, <1>3 DEF IsCandidate, DataSize, SmallestSize
<1>6. q \in zone.exts  BY <1>1 DEF IsCandidate, ScriptEnd
<1>7. q + 1 + DataSize(m) <= zone.size  BY <1>1 DEF CanRead
<1>8. UNCHANGED <<zone, pc>>  BY DEF Take
<1>9. new \in ResultType  BY <1>3, <1>4, <1>5 DEF ResultType, TreeSize
<1>10. Last(new) = q + DataSize(m) /\ Last(new) < pointer' /\ Last(new) < zone.size
  BY <1>1, <1>3, <1>4, <1>5, <1>7 DEF Last
<1>11. pointer' \in 0 .. zone.size /\ pointer < pointer'
  BY <1>1, <1>2, <1>3, <1>4, <1>5, <1>7 DEF TreeSize
<1>12. \A i \in DOMAIN results :
         /\ results[i] \in ResultType /\ Last(results[i]) \in Int
         /\ Last(results[i]) < pointer /\ Last(results[i]) < m
  <2> SUFFICES ASSUME NEW i \in DOMAIN results
               PROVE  /\ results[i] \in ResultType /\ Last(results[i]) \in Int
                      /\ Last(results[i]) < pointer /\ Last(results[i]) < m
    OBVIOUS
  <2>1. results[i] \in ResultType  BY <1>2
  <2>2. Last(results[i]) \in Int  BY <2>1 DEF Last, ResultType
  <2> QED  BY <1>2, <1>3, <2>1, <2>2 DEF Passed
<1> HIDE DEF new
<1>13. CASE ~HasMagic(q + 1)
  <2>1. results' = results  BY <1>1, <1>13
  <2>2. TypeOK'  BY <1>2, <1>8, <1>11, <2>1 DEF TypeOK
  <2>3. Passed'
    <3> SUFFICES ASSUME NEW i \in DOMAIN results PROVE Last(results[i]) < pointer'
      BY <2>1 DEF Passed, Last
    <3> QED  BY <1>2, <1>3, <1>11, <1>12
  <2> QED  BY <1>8, <2>1, <2>2, <2>3 DEF ResultsApart, ResultsAreScripts, Last
<1>14. CASE HasMagic(q + 1)
  <2>1. results' = Append(results, new)  BY <1>1, <1>14 DEF new
  <2>2. /\ DOMAIN results' = DOMAIN results \cup {Len(results) + 1}
        /\ results'[Len(results) + 1] = new
        /\ \A i \in DOMAIN results : results'[i] = results[i]
    BY <1>2, <1>9, <2>1
  <2>3. Len(results) \in Nat /\ DOMAIN results = 1 .. Len(results)  BY <1>2
  <2>4. TypeOK'
    <3>1. results' \in Seq(ResultType)  BY <1>2, <1>9, <2>1
    <3> QED  BY <1>2, <1>8, <1>11, <3>1 DEF TypeOK
  <2>5. Passed'
    <3> SUFFICES ASSUME NEW i \in DOMAIN results' PROVE Last(results'[i]) < pointer'
      BY DEF Passed, Last
    <3>1. CASE i \in DOMAIN results  BY <1>2, <1>3, <1>11, <1>12, <2>2, <3>1
    <3>2. CASE i = Len(results) + 1  BY <1>10, <2>2, <3>2
    <3> QED  BY <2>2, <3>1, <3>2
  <2>6. ResultsApart'
    <3> SUFFICES ASSUME NEW i \in DOMAIN results', NEW j \in DOMAIN results', i < j
                 PROVE  Last(results'[i]) < results'[j].mark
      BY DEF ResultsApart, Last
    <3>1. CASE j \in DOMAIN results
      <4>1. i \in DOMAIN results  BY <2>2, <2>3, <3>1
      <4> QED  BY <2>2, <3>1, <4>1 DEF ResultsApart
    <3>2. CASE j = Len(results) + 1
      <4>1. i \in DOMAIN results  BY <2>2, <2>3, <3>2
      <4>2. new.mark = m  BY DEF new
      <4> QED  BY <1>12, <2>2, <3>2, <4>1, <4>2
    <3> QED  BY <2>2, <3>1, <3>2
  <2>7. ResultsAreScripts'
    <3> SUFFICES ASSUME NEW i \in DOMAIN results'
                 PROVE  /\ Last(results'[i]) < zone.size
                        /\ results'[i].obj \in zone.magics
                        /\ results'[i].obj - 1 \in zone.exts
                        /\ \A p \in results'[i].name .. results'[i].obj - 2 : p \notin zone.nuls
      BY <1>8 DEF ResultsAreScripts, Last
    <3>1. CASE i \in DOMAIN results  BY <2>2, <3>1 DEF ResultsAreScripts
    <3>2. CASE i = Len(results) + 1
      <4>1. new.obj = q + 1 /\ new.name = m + TreeSize  BY DEF new
      <4>2. new.obj - 1 = q /\ new.obj - 2 = q - 1  BY <1>4, <4>1
      <4>3. q + 1 \in zone.magics  BY <1>14 DEF HasMagic
      <4> QED  BY <1>4, <1>6, <1>10, <2>2, <3>2, <4>1, <4>2, <4>3
    <3> QED  BY <2>2, <3>1, <3>2
  <2> QED  BY <2>4, <2>5, <2>6, <2>7
<1> QED  BY <1>13, <1>14

LEMMA NextKeeps == IInv /\ [Next]_vars => IInv'
<1> SUFFICES ASSUME IInv, [Next]_vars PROVE IInv'  OBVIOUS
<1>1. CASE Reject  BY <1>1, RejectKeeps
<1>2. CASE Take  BY <1>2, TakeKeeps
<1>3. CASE NoMatch \/ Unterminated
  <2>1. UNCHANGED <<zone, pointer, results>> /\ pc' \in {"Done", "Failed"}
    BY <1>3 DEF NoMatch, Unterminated
  <2> QED  BY <2>1 DEF IInv, TypeOK, Passed, ResultsApart, ResultsAreScripts, Last
<1>4. CASE Terminated \/ UNCHANGED vars
  <2>1. UNCHANGED <<zone, pc, pointer, results>>  BY <1>4 DEF Terminated, vars
  <2> QED  BY <2>1 DEF IInv, TypeOK, Passed, ResultsApart, ResultsAreScripts, Last
<1> QED  BY <1>1, <1>2, <1>3, <1>4 DEF Next

\* Everything below follows from the invariant.
THEOREM FinderInvariance == Spec => []IInv
<1> QED  BY InitIInv, NextKeeps, PTL DEF Spec

\* The cursor never leaves the zone, whatever lengths the zone gives.
THEOREM FinderTypeCorrect == Spec => []TypeOK
<1>1. IInv => TypeOK  BY DEF IInv
<1> QED  BY <1>1, FinderInvariance, PTL

\* Scripts found never overlap: to patch one in place changes no byte of another.
THEOREM ScriptsApart == Spec => []ResultsApart
<1>1. IInv => ResultsApart  BY DEF IInv
<1> QED  BY <1>1, FinderInvariance, PTL

\* What is found has a name, an extension and a magic number, and lies in the zone.
THEOREM FoundAreScripts == Spec => []ResultsAreScripts
<1>1. IInv => ResultsAreScripts  BY DEF IInv
<1> QED  BY <1>1, FinderInvariance, PTL

-----------------------------------------------------------------------------
(* Nothing is missed without a reason.                                     *)

Uncovered(m) == IsScript(m) /\ \A k \in Marks(zone) : ~Covers(k, m)

\* The search has found every script behind the cursor that nothing could hide.
FoundSoFar ==
  /\ \A m \in Marks(zone) : m < pointer /\ Uncovered(m) =>
       \E i \in DOMAIN results : results[i].mark = m
  /\ pc = "Done" => \A m \in Marks(zone) : m < pointer

\* The zero that the search stops after is the end of the name.
LEMMA NameEndUnique ==
  ASSUME IsZone(zone), NEW m, NEW q \in zone.nuls, EndsString(q, m + TreeSize)
  PROVE  HasName(m) /\ NameEnd(m) = q
<1>1. zone.nuls \subseteq Int  BY DEF IsZone
<1>2. \A p \in zone.nuls : EndsString(p, m + TreeSize) => p = q
  BY <1>1 DEF EndsString
<1>3. NameEnd(m) = q  BY <1>2 DEF NameEnd
<1> QED  BY <1>3 DEF HasName, EndsString

\* What lies between a match and the end of its name is its own, or covered by it.
LEMMA RejectMissesNothing == IInv /\ FoundSoFar /\ Reject => FoundSoFar'
<1> SUFFICES ASSUME IInv, FoundSoFar, Reject PROVE FoundSoFar'  OBVIOUS
<1>1. PICK m \in Marks(zone), q \in zone.nuls :
        /\ Match(m) /\ EndsString(q, m + TreeSize) /\ pointer' = q + 1
        /\ ~IsCandidate(m, q) \/ ~CanRead(q + 1, DataSize(m))
  BY DEF Reject, AfterName
<1>2. IsZone(zone) /\ pointer \in Nat  BY DEF IInv, TypeOK
<1>3. m \in Nat /\ m >= pointer /\ zone.lengths[m] \in Int /\ zone.size \in Nat
  BY <1>1, <1>2, MatchFacts
<1>4. q \in Nat /\ q >= m + TreeSize  BY <1>1, <1>2, <1>3, StringFacts
<1>5. HasName(m) /\ NameEnd(m) = q  BY <1>1, <1>2, NameEndUnique
<1>6. UNCHANGED <<zone, pc, results>> /\ pc = "Search"  BY DEF Reject
<1>7. ~IsScript(m)
  <2> SUFFICES ASSUME IsScript(m) PROVE FALSE  OBVIOUS
  <2>1. IsCandidate(m, q)
    BY <1>3, <1>4, <1>5 DEF IsScript, IsCandidate, ScriptEnd, TreeSize, NameSize
  <2>2. CanRead(q + 1, DataSize(m))
    BY <1>3, <1>4, <1>5 DEF IsScript, CanRead, DataSize
  <2> QED  BY <1>1, <2>1, <2>2
<1>8. ASSUME NEW n \in Marks(zone), n < pointer', Uncovered(n)
      PROVE  \E i \in DOMAIN results : results[i].mark = n
  <2>1. n \in Nat  BY <1>2 DEF IsZone
  <2>2. CASE n < pointer  BY <1>8, <2>2 DEF FoundSoFar
  <2>3. CASE n >= pointer
    <3>1. m <= n  BY <1>1, <2>3 DEF Match
    <3>2. n # m  BY <1>7, <1>8 DEF Uncovered
    <3>3. Covers(m, n)  BY <1>1, <1>3, <1>4, <1>5, <1>8, <2>1, <3>1, <3>2 DEF Covers
    <3> QED  BY <1>8, <3>3 DEF Uncovered
  <2> QED  BY <1>2, <2>1, <2>2, <2>3
<1>9. \A n : Uncovered(n)' = Uncovered(n)
  BY <1>6 DEF Uncovered, IsScript, Covers, HasName, NameEnd, EndsString
<1> QED  BY <1>6, <1>8, <1>9 DEF FoundSoFar

\* What lies in the data of a match is covered by it, and a match that is a script is taken.
LEMMA TakeMissesNothing == IInv /\ FoundSoFar /\ Take => FoundSoFar'
<1> SUFFICES ASSUME IInv, FoundSoFar, Take PROVE FoundSoFar'  OBVIOUS
<1>1. PICK m \in Marks(zone), q \in zone.nuls :
        /\ Match(m) /\ EndsString(q, m + TreeSize)
        /\ IsCandidate(m, q)
        /\ pointer' = q + 1 + DataSize(m)
        /\ results' = IF HasMagic(q + 1)
                      THEN Append(results, [mark |-> m, name |-> m + TreeSize,
                                            obj |-> q + 1, size |-> DataSize(m)])
                      ELSE results
  BY DEF Take, AfterData
<1> DEFINE new == [mark |-> m, name |-> m + TreeSize, obj |-> q + 1, size |-> DataSize(m)]
<1>2. IsZone(zone) /\ pointer \in Nat /\ results \in Seq(ResultType)  BY DEF IInv, TypeOK
<1>3. m \in Nat /\ m >= pointer /\ zone.lengths[m] \in Int
  BY <1>1, <1>2, MatchFacts
<1>4. q \in Nat /\ q >= m + TreeSize  BY <1>1, <1>2, <1>3, StringFacts
<1>5. HasName(m) /\ NameEnd(m) = q  BY <1>1, <1>2, NameEndUnique
<1>6. UNCHANGED <<zone, pc>> /\ pc = "Search"  BY DEF Take
<1>7. q \in zone.exts  BY <1>1 DEF IsCandidate, ScriptEnd
<1>8. DataSize(m) \in Nat  BY <1>1, <1>3 DEF IsCandidate, DataSize, SmallestSize
<1>9. new \in ResultType  BY <1>3, <1>4, <1>8 DEF ResultType, TreeSize
<1>10. new.mark = m  OBVIOUS
<1> HIDE DEF new
<1>11. /\ \A i \in DOMAIN results : i \in DOMAIN results' /\ results'[i] = results[i]
       /\ HasMagic(q + 1) => \E i \in DOMAIN results' : results'[i].mark = m
  <2>1. CASE HasMagic(q + 1)
    <3>1. results' = Append(results, new)  BY <1>1, <2>1 DEF new
    <3>2. /\ \A i \in DOMAIN results : i \in DOMAIN results' /\ results'[i] = results[i]
          /\ Len(results) + 1 \in DOMAIN results' /\ results'[Len(results) + 1] = new
      BY <1>2, <1>9, <3>1
    <3> QED  BY <1>10, <3>2
  <2>2. CASE ~HasMagic(q + 1)  BY <1>1, <2>2
  <2> QED  BY <2>1, <2>2
<1>12. ASSUME NEW n \in Marks(zone), n < pointer', Uncovered(n)
       PROVE  \E i \in DOMAIN results' : results'[i].mark = n
  <2>1. n \in Nat  BY <1>2 DEF IsZone
  <2>2. CASE n < pointer  BY <1>11, <1>12, <2>2 DEF FoundSoFar
  <2>3. CASE n = m
    <3>1. q + 1 \in zone.magics  BY <1>5, <1>12, <2>3 DEF Uncovered, IsScript
    <3> QED  BY <1>11, <2>3, <3>1 DEF HasMagic
  <2>4. CASE n >= pointer /\ n # m
    <3>1. m <= n  BY <1>1, <2>4 DEF Match
    <3>2. n <= q + 1 + zone.lengths[m]
      BY <1>1, <1>3, <1>4, <1>12, <2>1 DEF DataSize
    <3>3. Covers(m, n)  BY <1>3, <1>5, <1>7, <2>1, <2>4, <3>1, <3>2 DEF Covers
    <3> QED  BY <1>12, <3>3 DEF Uncovered
  <2> QED  BY <1>2, <2>1, <2>2, <2>3, <2>4
<1>13. \A n : Uncovered(n)' = Uncovered(n)
  BY <1>6 DEF Uncovered, IsScript, Covers, HasName, NameEnd, EndsString
<1> QED  BY <1>6, <1>12, <1>13 DEF FoundSoFar

(***************************************************************************)
(* AllFound: on any zone, the only scripts missed are those that the name  *)
(* or the data of something that looks like a header would cover.          *)
(***************************************************************************)
THEOREM NothingMissed == Spec => []AllFound
<1>1. IInv /\ Init => FoundSoFar
  BY DEF Init, FoundSoFar, IInv, TypeOK, IsZone
<1>2. IInv /\ FoundSoFar /\ [Next]_vars => FoundSoFar'
  <2> SUFFICES ASSUME IInv, FoundSoFar, [Next]_vars PROVE FoundSoFar'  OBVIOUS
  <2>1. CASE Reject  BY <2>1, RejectMissesNothing
  <2>2. CASE Take  BY <2>2, TakeMissesNothing
  <2>3. CASE NoMatch \/ Unterminated \/ Terminated \/ UNCHANGED vars
    <3>1. UNCHANGED <<zone, pointer, results>>
      BY <2>3 DEF NoMatch, Unterminated, Terminated, vars
    <3>2. pc' = "Done" => (\A m \in Marks(zone) : m < pointer) \/ pc = "Done"
      BY <2>3 DEF NoMatch, Unterminated, Terminated, vars
    <3>3. \A n : Uncovered(n)' = Uncovered(n)
      BY <3>1 DEF Uncovered, IsScript, Covers, HasName, NameEnd, EndsString
    <3> QED  BY <3>1, <3>2, <3>3 DEF FoundSoFar
  <2> QED  BY <2>1, <2>2, <2>3 DEF Next
<1>3. FoundSoFar => AllFound  BY DEF FoundSoFar, AllFound, Uncovered
<1> QED  BY <1>1, <1>2, <1>3, FinderInvariance, PTL DEF Spec
=============================================================================
