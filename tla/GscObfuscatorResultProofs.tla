---------------------- MODULE GscObfuscatorResultProofs ----------------------
(***************************************************************************)
(* Proofs about what GscObfuscator leaves behind, for every script, option *)
(* and jump width: where killed calls lead, which functions are left       *)
(* without a trampoline, what checksums cover, what calls link to, which   *)
(* identifiers are equal, and for which scripts a pass throws.             *)
(***************************************************************************)
EXTENDS GscObfuscatorProofs, FiniteSetTheorems

-----------------------------------------------------------------------------
(* Passes follow each other, and each writes only what it is about.        *)

\* The step taken in a pass that later ones rely on.
LEMMA Turn ==
  ASSUME [Next]_vars
  PROVE  /\ pc = "Privates" =>
              (\E i \in DOMAIN script.exports : KillPrivateExport(i)) \/ EndPass \/ UNCHANGED vars
         /\ pc = "Hashes" =>
              (\E h \in DOMAIN opt.hashes : ApplyPrivateHash(h)) \/ EndPass \/ UNCHANGED vars
         /\ pc = "DevImports" =>
              (\E x \in todo : KillDevImport(x[1], x[2])) \/ EndPass \/ UNCHANGED vars
         /\ pc = "Trampolines" =>
              (\E i \in DOMAIN script.exports : CreateTrampoline(i)) \/ EndPass \/ UNCHANGED vars
         /\ pc = "Checksums" =>
              (\E i \in DOMAIN script.exports : ComputeChecksum(i)) \/ EndPass \/ UNCHANGED vars
BY DEF Next, Terminated, ReadTables, ApplyPrivateTexts, RemoveLocalVariables, KillPrivateExport,
       ApplyPrivateHash, KillDevImport, KillDevString, CreateTrampoline, ComputeChecksum, Visit

\* A pass is left only when nothing is left to visit, for the next one and all of its work.
LEMMA PassStep ==
  ASSUME [Next]_vars
  PROVE  \/ pc' = pc /\ todo' \subseteq todo
         \/ pc' = "Failed"
         \/ pc = "ReadTables" /\ pc' = "Locals" /\ todo' = Work(pc')
         \/ pc \in Passes /\ todo = {} /\ pc' = NextPass[pc] /\ todo' = Work(pc')
<1>1. CASE ReadTables  BY <1>1 DEF ReadTables, Fail
<1>2. CASE EndPass  BY <1>2 DEF EndPass
<1>3. CASE ApplyPrivateTexts  BY <1>3 DEF ApplyPrivateTexts, Visit, Fail
<1>4. ASSUME NEW i \in DOMAIN script.exports,
             RemoveLocalVariables(i) \/ KillPrivateExport(i) \/ CreateTrampoline(i)
             \/ ComputeChecksum(i)
      PROVE  (pc' = pc /\ todo' \subseteq todo) \/ pc' = "Failed"
  <2>1. CASE RemoveLocalVariables(i)  BY <2>1 DEF RemoveLocalVariables, Visit, Fail
  <2>2. CASE KillPrivateExport(i)  BY <2>2 DEF KillPrivateExport, Visit
  <2>3. CASE CreateTrampoline(i)  BY <2>3 DEF CreateTrampoline, Visit
  <2>4. CASE ComputeChecksum(i)  BY <2>4 DEF ComputeChecksum, Visit
  <2> QED  BY <1>4, <2>1, <2>2, <2>3, <2>4
<1>5. ASSUME NEW h \in DOMAIN opt.hashes, ApplyPrivateHash(h)
      PROVE  pc' = pc /\ todo' \subseteq todo
  BY <1>5 DEF ApplyPrivateHash, Visit
<1>6. ASSUME NEW x \in todo, KillDevImport(x[1], x[2]) \/ KillDevString(x[1], x[2])
      PROVE  (pc' = pc /\ todo' \subseteq todo) \/ pc' = "Failed"
  BY <1>6 DEF KillDevImport, KillDevString, Visit, Fail
<1>7. CASE UNCHANGED vars  BY <1>7 DEF vars
<1> QED  BY <1>1, <1>2, <1>3, <1>4, <1>5, <1>6, <1>7 DEF Next, Terminated

\* What each pass may write to.
LEMMA PassWrites ==
  ASSUME DataInv, [Next]_vars
  PROVE  /\ script' = script /\ opt' = opt
         /\ pc # "ReadTables" => exportsMap' = exportsMap
         /\ pc \notin {"DevImports", "DevStrings"} => junk' = junk
         /\ pc \notin {"DevImports", "DevStrings", "Trampolines"} => free' = free
         /\ pc \in {"ReadTables", "Checksums", "Done"} => mem' = mem
         /\ pc # "Privates" => privateCount' = privateCount
         /\ pc \notin {"Privates", "Hashes", "Trampolines", "Checksums"} => exports' = exports
         /\ pc \notin {"Privates", "Hashes", "DevImports"} => imports' = imports
<1>1. script' = script /\ opt' = opt  BY ProgressStep
<1>2. CASE ReadTables  BY <1>1, <1>2 DEF ReadTables, tables
<1>3. CASE EndPass  BY <1>1, <1>3 DEF EndPass, tables
<1>4. CASE ApplyPrivateTexts  BY <1>1, <1>4 DEF ApplyPrivateTexts, Visit, tables
<1>5. ASSUME NEW i \in DOMAIN script.exports, RemoveLocalVariables(i)
      PROVE  /\ pc = "Locals"
             /\ UNCHANGED <<exports, imports, exportsMap, free, junk, privateCount>>
  BY <1>5 DEF RemoveLocalVariables, Visit, tables
<1>6. ASSUME NEW i \in DOMAIN script.exports, KillPrivateExport(i)
      PROVE  pc = "Privates" /\ UNCHANGED <<mem, exportsMap, free, junk>>
  BY <1>6 DEF KillPrivateExport, Visit
<1>7. ASSUME NEW i \in DOMAIN script.exports, CreateTrampoline(i)
      PROVE  pc = "Trampolines" /\ UNCHANGED <<imports, exportsMap, junk, privateCount>>
  BY <1>7 DEF CreateTrampoline, Visit
<1>8. ASSUME NEW i \in DOMAIN script.exports, ComputeChecksum(i)
      PROVE  pc = "Checksums" /\ UNCHANGED <<mem, imports, exportsMap, free, junk, privateCount>>
  BY <1>8 DEF ComputeChecksum, Visit
<1>9. ASSUME NEW h \in DOMAIN opt.hashes, ApplyPrivateHash(h)
      PROVE  pc = "Hashes" /\ UNCHANGED <<exportsMap, free, junk, privateCount>>
  BY <1>9 DEF ApplyPrivateHash, Visit
<1>10. ASSUME NEW x \in todo, KillDevImport(x[1], x[2])
       PROVE  pc = "DevImports" /\ UNCHANGED <<exports, exportsMap, privateCount>>
  BY <1>10 DEF KillDevImport, Visit
<1>11. ASSUME NEW x \in todo, KillDevString(x[1], x[2])
       PROVE  pc = "DevStrings" /\ UNCHANGED <<exports, imports, exportsMap, privateCount>>
  BY <1>11 DEF KillDevString, Visit
<1>12. CASE UNCHANGED vars  BY <1>1, <1>12 DEF vars, tables
<1> QED
  BY <1>1, <1>2, <1>3, <1>4, <1>5, <1>6, <1>7, <1>8, <1>9, <1>10, <1>11, <1>12 DEF Next, Terminated

-----------------------------------------------------------------------------
(* Killed calls and the well.                                              *)

\* The dev calls whose offset KillDevImports has visited.
Visited(k, j) == <<k, j>> \notin todo \/ pc # "DevImports"

WellInv ==
  /\ \A k \in DOMAIN script.imports :
       DOMAIN imports[k].offsets = DOMAIN script.imports[k].offsets
  /\ pc \in {"DevImports", "DevStrings", "Trampolines", "Checksums", "Done"} /\ ~opt.noDebugKill =>
       \A k \in DOMAIN script.imports : script.imports[k].dev =>
         \A j \in DOMAIN script.imports[k].offsets : Visited(k, j) =>
           LET floc == script.imports[k].offsets[j]
           IN  IF Killable(script, floc, 8, Delta(script, k))
               THEN junk # 0 /\ imports[k].offsets[j] = junk
               ELSE imports[k].offsets[j] = floc

\* The well is dug once and stays where it is.
LEMMA WellStays ==
  ASSUME DataInv, [Next]_vars, junk # 0
  PROVE  junk' = junk
<1>1. ASSUME NEW x \in todo, KillDevImport(x[1], x[2])
      PROVE  junk' = junk
  BY <1>1 DEF KillDevImport, KillDevByteCodeOp, Well
<1>2. ASSUME NEW x \in todo, KillDevString(x[1], x[2])
      PROVE  junk' = junk
  BY <1>2 DEF KillDevString, KillDevByteCodeOp, Well
<1>3. (\A x \in todo : ~KillDevImport(x[1], x[2]) /\ ~KillDevString(x[1], x[2])) => junk' = junk
  BY DEF Next, Terminated, ReadTables, EndPass, ApplyPrivateTexts, RemoveLocalVariables,
         KillPrivateExport, ApplyPrivateHash, CreateTrampoline, ComputeChecksum, vars, tables
<1> QED  BY <1>1, <1>2, <1>3

\* An op that can be killed leaves a well.
LEMMA KillDigs ==
  ASSUME script \in Scripts, NEW o \in DevOps(script), DataInv,
         KillDevByteCodeOp(o.id, o.floc, o.len, o.delta),
         Killable(script, o.floc, o.len, o.delta)
  PROVE  junk' # 0
<1> DEFINE bc == Operand(o.floc, o.len, o.delta)
<1>1. o.floc \in Nat /\ o.delta \in {0, 1} /\ bc \in Nat /\ o.floc + o.delta <= bc
  BY DevOpFacts
<1>2. bc # 0  BY <1>1 DEF Killable
<1>3. junk' = Well(bc)  BY DEF KillDevByteCodeOp
<1> QED  BY <1>2, <1>3 DEF Well

\* KillDevImports sends the offset it visits to the well, and no other.
LEMMA WellImportStep ==
  ASSUME VisitInv, Rest, WellInv, NEW x \in todo, KillDevImport(x[1], x[2]), junk # 0 => junk' = junk
  PROVE  WellInv'
<1> DEFINE k == x[1]
           j == x[2]
           floc == imports[k].offsets[j]
           delta == Delta(script, k)
<1>1. /\ script' = script /\ opt' = opt /\ pc = "DevImports" /\ pc' = pc /\ todo' = todo \ {<<k, j>>}
  BY DEF KillDevImport, Visit
<1>2. /\ x = <<k, j>> /\ k \in DOMAIN script.imports /\ script.imports[k].dev
      /\ j \in 0 .. Len(script.imports[k].offsets)
  <2>1. x \in Work("DevImports")  BY <1>1 DEF VisitInv
  <2> QED  BY <2>1, WorkImport
<1>3. DataInv /\ script \in Scripts  BY DEF Rest, VisitInv
<1>4. \A m \in DOMAIN script.imports : script.imports[m].offsets \in Seq(Nat)
  <2>1. script.imports \in Seq(ImportType)  BY <1>3, ScriptsAssumption DEF IsScript
  <2>2. \A m \in DOMAIN script.imports : script.imports[m] \in ImportType  BY <2>1
  <2> QED  BY <2>2 DEF ImportType
<1>5. CASE j = 0 /\ imports' = [imports EXCEPT ![k].name = AssertHash] /\ UNCHANGED <<mem, free, junk>>
  <2>1. \A m \in DOMAIN script.imports : imports'[m].offsets = imports[m].offsets
    BY <1>2, <1>3, <1>5, AssertHashAssumption DEF DataInv
  <2>2. \A m \in DOMAIN script.imports : \A n \in DOMAIN script.imports[m].offsets :
          Visited(m, n)' => Visited(m, n)
    <3>1. \A m \in DOMAIN script.imports : \A n \in DOMAIN script.imports[m].offsets : n # 0
      BY <1>4
    <3> QED  BY <1>1, <1>5, <3>1 DEF Visited
  <2> QED  BY <1>1, <1>5, <2>1, <2>2 DEF WellInv, Delta
<1>6. CASE /\ j > 0
           /\ KillDevByteCodeOp(<<"import", k, j>>, floc, 8, delta)
           /\ imports' = [imports EXCEPT ![k].offsets[j] = Redirected(@, 8, delta)]
  <2> DEFINE o == DevCall(script, k, j)
             new == Redirected(floc, 8, delta)
  <2>1. j \in DOMAIN script.imports[k].offsets  BY <1>2, <1>4, <1>6
  <2>2. floc = script.imports[k].offsets[j]
    <3>1. <<k, j>> \in todo  BY <1>2
    <3> QED  BY <1>1, <1>2, <2>1, <3>1 DEF Rest, PendingInv
  <2>3. o \in DevOps(script)  BY <1>2, <2>1 DEF DevOps, DevCalls
  <2>4. o.id = <<"import", k, j>> /\ o.floc = floc /\ o.len = 8 /\ o.delta = delta
    BY <2>2 DEF DevCall
  <2>5. new = IF Killable(script, floc, 8, delta) THEN junk' ELSE floc  BY DEF Redirected
  <2>6. Killable(script, floc, 8, delta) => junk' # 0
    <3> HIDE DEF o, floc, delta
    <3> QED  BY <1>3, <1>6, <2>3, <2>4, KillDigs
  <2>7. imports[k].offsets \in Seq(Nat)
    BY <1>2, <1>3 DEF DataInv
  <2>8. imports' = [imports EXCEPT ![k].offsets[j] = new]  BY <1>6
  <2> HIDE DEF new, floc, delta, o
  <2>9. imports[k] \in [import_namespace : Nat, name : Nat, offsets : Seq(Nat)]
        /\ DOMAIN imports = DOMAIN script.imports
    BY <1>2, <1>3 DEF DataInv
  <2>10. imports' = [imports EXCEPT ![k] = [imports[k] EXCEPT !.offsets = [imports[k].offsets EXCEPT ![j] = new]]]
    BY <2>8
  <2>11. imports'[k].offsets = [imports[k].offsets EXCEPT ![j] = new]
    BY <1>2, <2>9, <2>10
  <2>12. \A m \in DOMAIN script.imports : m # k => imports'[m] = imports[m]
    BY <1>2, <2>9, <2>10
  <2>13. \A m \in DOMAIN script.imports :
           DOMAIN imports'[m].offsets = DOMAIN script.imports[m].offsets
    BY <2>11, <2>12 DEF WellInv
  <2>14. ASSUME ~opt.noDebugKill, NEW m \in DOMAIN script.imports, script.imports[m].dev,
                NEW n \in DOMAIN script.imports[m].offsets, <<m, n>> \notin todo',
                NEW at, at = script.imports[m].offsets[n]
         PROVE  IF Killable(script, at, 8, Delta(script, m))
                THEN junk' # 0 /\ imports'[m].offsets[n] = junk'
                ELSE imports'[m].offsets[n] = at
    <3>1. CASE m = k /\ n = j
      <4>1. imports'[m].offsets[n] = new
        BY <2>1, <2>11, <3>1 DEF WellInv
      <4> QED  BY <2>2, <2>5, <2>6, <2>14, <3>1, <4>1 DEF delta
    <3>2. CASE ~(m = k /\ n = j)
      <4>1. <<m, n>> \notin todo  BY <1>1, <2>14, <3>2
      <4>2. imports'[m].offsets[n] = imports[m].offsets[n]
        <5>1. CASE m # k  BY <2>12, <5>1
        <5>2. CASE m = k /\ n # j
          <6>1. n \in DOMAIN imports[k].offsets  BY <2>14, <5>2 DEF WellInv
          <6>2. imports'[k].offsets[n] = imports[k].offsets[n]  BY <2>11, <5>2, <6>1
          <6> QED  BY <5>2, <6>2
        <5> QED  BY <3>2, <5>1, <5>2
      <4>3. IF Killable(script, at, 8, Delta(script, m))
            THEN junk # 0 /\ imports[m].offsets[n] = junk
            ELSE imports[m].offsets[n] = at
        BY <1>1, <2>14, <4>1 DEF WellInv, Visited
      <4> QED  BY <4>2, <4>3
    <3> QED  BY <3>1, <3>2
  <2> QED  BY <1>1, <2>13, <2>14 DEF WellInv, Visited, Delta
<1> QED  BY <1>5, <1>6 DEF KillDevImport

\* Every step keeps the killed calls at the well.
LEMMA WellStep ==
  ASSUME VisitInv, Rest, WellInv, [Next]_vars
  PROVE  WellInv'
<1>1. junk # 0 => junk' = junk  BY WellStays DEF Rest
<1>2. script' = script /\ opt' = opt  BY ProgressStep
<1>3. CASE \E x \in todo : KillDevImport(x[1], x[2])  BY <1>1, <1>3, WellImportStep
<1>4. CASE ~\E x \in todo : KillDevImport(x[1], x[2])
  <2>1. \A m \in DOMAIN script.imports : imports'[m].offsets = imports[m].offsets
    <3>1. CASE \E i \in DOMAIN script.exports : KillPrivateExport(i)
      BY <3>1 DEF KillPrivateExport, Rest, DataInv
    <3>2. CASE \E h \in DOMAIN opt.hashes : ApplyPrivateHash(h)
      <4>1. PICK h \in DOMAIN opt.hashes : ApplyPrivateHash(h)  BY <3>2
      <4> DEFINE renamed(n) == IF n = h THEN opt.hashes[h] ELSE n
      <4>2. imports' = [m \in DOMAIN imports |->
              [imports[m] EXCEPT !.name = renamed(@), !.import_namespace = renamed(@)]]
        BY <4>1 DEF ApplyPrivateHash
      <4> HIDE DEF renamed
      <4> QED  BY <4>2 DEF Rest, DataInv
    <3>3. CASE pc = "DevImports"
      <4>1. EndPass \/ UNCHANGED vars  BY <1>4, <3>3, Turn
      <4> QED  BY <4>1 DEF EndPass, tables, vars
    <3>4. CASE pc \in {"Privates", "Hashes"} /\ (EndPass \/ UNCHANGED vars)
      BY <3>4 DEF EndPass, tables, vars
    <3>5. CASE pc \notin {"Privates", "Hashes", "DevImports"}
      BY <3>5, PassWrites DEF Rest
    <3> QED  BY <3>1, <3>2, <3>3, <3>4, <3>5, Turn
  <2>2. ASSUME pc' \in {"DevImports", "DevStrings", "Trampolines", "Checksums", "Done"},
               ~opt.noDebugKill,
               NEW m \in DOMAIN script.imports, script.imports[m].dev,
               NEW n \in DOMAIN script.imports[m].offsets, Visited(m, n)'
        PROVE  /\ pc \in {"DevImports", "DevStrings", "Trampolines", "Checksums", "Done"}
               /\ Visited(m, n)
    <3>1. CASE pc' = pc /\ todo' \subseteq todo
      <4>1. CASE pc = "DevImports"
        <5>1. EndPass \/ UNCHANGED vars  BY <1>4, <4>1, Turn
        <5>2. todo' = todo  BY <3>1, <4>1, <5>1 DEF EndPass, vars, NextPass
        <5> QED  BY <2>2, <3>1, <5>2 DEF Visited
      <4>2. CASE pc # "DevImports"  BY <2>2, <3>1, <4>2 DEF Visited
      <4> QED  BY <4>1, <4>2
    <3>2. CASE pc = "Hashes" /\ pc' = "DevImports" /\ todo' = Work(pc')
      <4>1. <<m, n>> \in Work("DevImports")
        <5> DEFINE offsets == [e \in DOMAIN script.imports |-> script.imports[e].offsets]
        <5>1. script.imports[m].offsets \in Seq(Nat)
          <6>1. script.imports \in Seq(ImportType)  BY ScriptsAssumption DEF IsScript, VisitInv
          <6>2. script.imports[m] \in ImportType  BY <6>1
          <6> QED  BY <6>2 DEF ImportType
        <5>2. n \in 0 .. Len(offsets[m])  BY <5>1
        <5>3. <<m, n>> \in {m} \X (0 .. Len(offsets[m]))  BY <5>2
        <5>4. <<m, n>> \in UNION {{e} \X (0 .. Len(offsets[e])) : e \in DOMAIN offsets}
          BY <5>3
        <5> QED  BY <2>2, <5>4 DEF Work
      <4>2. Work(pc') = Work("DevImports")  BY <3>2
      <4>3. <<m, n>> \in todo'  BY <3>2, <4>1, <4>2
      <4> QED  BY <2>2, <3>2, <4>3 DEF Visited
    <3>3. CASE pc \in {"DevImports", "DevStrings", "Trampolines", "Checksums"} /\ todo = {}
      BY <3>3 DEF Visited
    <3> QED  BY <2>2, <3>1, <3>2, <3>3, PassStep DEF Passes, NextPass
  <2>3. ASSUME NEW m \in DOMAIN script.imports
        PROVE  DOMAIN imports'[m].offsets = DOMAIN script.imports[m].offsets
    BY <2>1 DEF WellInv
  <2>4. ASSUME pc' \in {"DevImports", "DevStrings", "Trampolines", "Checksums", "Done"},
               ~opt.noDebugKill,
               NEW m \in DOMAIN script.imports, script.imports[m].dev,
               NEW n \in DOMAIN script.imports[m].offsets, Visited(m, n)',
               NEW at, at = script.imports[m].offsets[n]
        PROVE  IF Killable(script, at, 8, Delta(script, m))
               THEN junk' # 0 /\ imports'[m].offsets[n] = junk'
               ELSE imports'[m].offsets[n] = at
    <3>1. IF Killable(script, at, 8, Delta(script, m))
          THEN junk # 0 /\ imports[m].offsets[n] = junk
          ELSE imports[m].offsets[n] = at
      BY <2>2, <2>4 DEF WellInv
    <3> QED  BY <1>1, <2>1, <3>1
  <2> QED  BY <1>2, <2>3, <2>4 DEF WellInv, Delta
<1> QED  BY <1>3, <1>4

(***************************************************************************)
(* RedirectedToWell: all killed calls lead to one location, for every      *)
(* script, option and order in which importsMap is walked.                 *)
(***************************************************************************)
THEOREM CallsRedirected == Spec => []RedirectedToWell
<1>1. Init => WellInv  BY DEF Init, WellInv
<1>2. IInv /\ WellInv /\ [Next]_vars => WellInv'  BY WellStep DEF IInv
<1>3. IInv /\ WellInv => RedirectedToWell
  BY DEF IInv, Rest, DataInv, WellInv, Visited, RedirectedToWell
<1> QED  BY <1>1, <1>2, <1>3, Invariance, PTL DEF Spec

-----------------------------------------------------------------------------
(* Functions without a trampoline.                                         *)

Unreachable(i) == \A s \in free : ~InReach(s[1], exports[i].address)

\* What CreateTrampolines has visited and left has no slot it could use.
ServedInv ==
  pc \in {"Trampolines", "Checksums", "Done"} /\ ~opt.noTrampoline =>
    \A i \in DOMAIN script.exports :
      <<i, 0>> \notin todo \/ pc # "Trampolines" => Moved(i) \/ Unreachable(i)

\* A slot is not the entry of any function, so that who takes one has moved.
LEMMA SlotIsNoEntry ==
  ASSUME VisitInv, Rest, NEW slot \in free, NEW i \in DOMAIN script.exports
  PROVE  slot[1] # script.exports[i].address
<1>1. PICK o \in DevOps(script) : SlotOf(slot[1], o)  BY DEF Rest, FreeInv
<1>2. slot[1] \in Nat /\ slot[1] .. slot[1] + 3 \subseteq OperandBytes(o)
  BY <1>1, SlotInOperand DEF VisitInv, SlotOf
<1>3. slot[1] \in OperandBytes(o)  BY <1>2
<1> QED  BY <1>1, <1>3, ScriptsAssumption DEF VisitInv, IsScript, WellFormed

\* CreateTrampolines moves the entry it visits, or there is no slot for it.
LEMMA ServedTrampolineStep ==
  ASSUME VisitInv, Rest, ServedInv, NEW i \in DOMAIN script.exports, CreateTrampoline(i)
  PROVE  ServedInv'
<1>1. /\ script' = script /\ opt' = opt /\ pc = "Trampolines" /\ pc' = pc /\ <<i, 0>> \in todo
  BY DEF CreateTrampoline, Visit
<1>2. DOMAIN exports = DOMAIN script.exports  BY DEF Rest, DataInv
<1>3. CASE free = {} /\ free' = free
  BY <1>3 DEF ServedInv, Unreachable
<1>4. CASE /\ todo' = todo \ {<<i, 0>>} /\ UNCHANGED <<exports, free>>
           /\ {slot \in free : InReach(slot[1], exports[i].address)} = {}
  <2>1. Unreachable(i)  BY <1>4 DEF Unreachable
  <2>2. \A e \in DOMAIN script.exports :
          /\ Moved(e)' = Moved(e) /\ Unreachable(e)' = Unreachable(e)
          /\ e # i => (<<e, 0>> \in todo' <=> <<e, 0>> \in todo)
    BY <1>1, <1>4 DEF Moved, Unreachable, InReach, JumpDelta
  <2> QED  BY <1>1, <2>1, <2>2 DEF ServedInv
<1>5. CASE /\ todo' = todo \ {<<i, 0>>}
           /\ \E slot \in free :
                free' = free \ {slot} /\ exports' = [exports EXCEPT ![i].address = slot[1]]
  <2>1. PICK slot \in free :
          free' = free \ {slot} /\ exports' = [exports EXCEPT ![i].address = slot[1]]
    BY <1>5
  <2>2. exports'[i].address = slot[1]
    BY <1>2, <2>1 DEF Rest, DataInv
  <2>3. Moved(i)'  BY <1>1, <2>2, SlotIsNoEntry DEF Moved
  <2>4. ASSUME NEW e \in DOMAIN script.exports, e # i
        PROVE  /\ Moved(e)' = Moved(e) /\ (Unreachable(e) => Unreachable(e)')
               /\ (<<e, 0>> \in todo' <=> <<e, 0>> \in todo)
    <3>1. exports'[e].address = exports[e].address  BY <1>2, <2>1, <2>4
    <3>2. Moved(e)' = Moved(e)  BY <1>1, <3>1 DEF Moved
    <3>3. Unreachable(e) => Unreachable(e)'
      BY <2>1, <3>1 DEF Unreachable, InReach, JumpDelta
    <3> QED  BY <1>5, <2>4, <3>2, <3>3
  <2> QED  BY <1>1, <2>3, <2>4 DEF ServedInv
<1> QED  BY <1>3, <1>4, <1>5 DEF CreateTrampoline, Visit, Erase

\* Outside CreateTrampolines neither addresses nor slots change any more.
LEMMA ServedStep ==
  ASSUME VisitInv, Rest, ServedInv, [Next]_vars
  PROVE  ServedInv'
<1>1. script' = script /\ opt' = opt  BY ProgressStep
<1>2. CASE \E i \in DOMAIN script.exports : CreateTrampoline(i)
  BY <1>2, ServedTrampolineStep
<1>3. CASE ~\E i \in DOMAIN script.exports : CreateTrampoline(i)
  <2>1. CASE pc = "DevStrings" /\ pc' = "Trampolines" /\ todo' = Work(pc')
    <3>1. ~opt.noTrampoline => \A i \in DOMAIN script.exports : <<i, 0>> \in Work("Trampolines")
      BY DEF Work
    <3>2. Work(pc') = Work("Trampolines")  BY <2>1
    <3> QED  BY <1>1, <2>1, <3>1, <3>2 DEF ServedInv
  <2>2. CASE pc \in {"Trampolines", "Checksums", "Done"}
    <3>1. EndPass \/ UNCHANGED vars \/ pc # "Trampolines"  BY <1>3, Turn
    <3>2. /\ free' = free
          /\ \A i \in DOMAIN script.exports : exports'[i].address = exports[i].address
      <4>1. CASE EndPass \/ UNCHANGED vars  BY <4>1 DEF EndPass, vars, tables
      <4>2. CASE pc = "Checksums" /\ \E i \in DOMAIN script.exports : ComputeChecksum(i)
        BY <4>2 DEF ComputeChecksum, Rest, DataInv
      <4>3. CASE pc = "Done"
        BY <4>3, PassWrites DEF Rest
      <4> QED  BY <2>2, <3>1, <4>1, <4>2, <4>3, Turn
    <3>3. ASSUME NEW i \in DOMAIN script.exports, <<i, 0>> \notin todo' \/ pc' # "Trampolines",
                 pc' # "Failed"
          PROVE  <<i, 0>> \notin todo \/ pc # "Trampolines"
      <4>1. CASE UNCHANGED vars  BY <3>3, <4>1 DEF vars
      <4>2. CASE EndPass  BY <4>2 DEF EndPass
      <4> QED  BY <3>1, <4>1, <4>2
    <3>4. \A i \in DOMAIN script.exports :
            Moved(i)' = Moved(i) /\ Unreachable(i)' = Unreachable(i)
      BY <1>1, <3>2 DEF Moved, Unreachable, InReach, JumpDelta
    <3> QED  BY <1>1, <2>2, <3>3, <3>4 DEF ServedInv
  <2>3. CASE pc' \notin {"Trampolines", "Checksums", "Done"}  BY <2>3 DEF ServedInv
  <2> QED  BY <2>1, <2>2, <2>3, PassStep DEF Passes, NextPass
<1> QED  BY <1>2, <1>3

(***************************************************************************)
(* NoWastedSlot: whatever the order of the table and the slots others take *)
(* first, a function stays without a trampoline only if none is in reach.  *)
(***************************************************************************)
THEOREM SlotsNotWasted == Spec => []NoWastedSlot
<1>1. Init => ServedInv  BY DEF Init, ServedInv
<1>2. IInv /\ ServedInv /\ [Next]_vars => ServedInv'  BY ServedStep DEF IInv
<1>3. IInv /\ ServedInv => NoWastedSlot
  <2> SUFFICES ASSUME IInv, ServedInv, pc = "Done", ~opt.noTrampoline,
                      NEW i \in DOMAIN exports, NEW s \in free, ~Moved(i),
                      NEW d, d = exports[i].address - (s[1] + 4)
               PROVE  d < -(MaxJump + 1) \/ d > MaxJump
    BY DEF NoWastedSlot
  <2>1. exports[i].address \in Nat /\ i \in DOMAIN script.exports
    BY DEF IInv, Rest, DataInv
  <2>2. s[1] \in Nat
    <3>1. PICK o \in DevOps(script) : SlotOf(s[1], o)  BY DEF IInv, Rest, FreeInv
    <3> QED  BY <3>1, SlotInOperand DEF IInv, VisitInv, SlotOf
  <2>3. ~InReach(s[1], exports[i].address)  BY <2>1 DEF ServedInv, Unreachable
  <2>4. d \notin -(MaxJump + 1) .. MaxJump  BY <2>3 DEF InReach, JumpDelta
  <2>5. d \in Int /\ MaxJump \in Nat  BY <2>1, <2>2, MaxJumpAssumption
  <2> QED  BY <2>4, <2>5
<1> QED  BY <1>1, <1>2, <1>3, Invariance, PTL DEF Spec

\* A slot taken as a trampoline is not the entry of any function either.
LEMMA TakenIsNoEntry ==
  ASSUME VisitInv, Rest, NEW i \in DOMAIN script.exports, NEW j \in DOMAIN script.exports, Moved(i)
  PROVE  exports[i].address # script.exports[j].address
<1> DEFINE at == exports[i].address
<1>1. PICK o \in DevOps(script) : SlotOf(at, o)  BY DEF Rest, MovedInv
<1> HIDE DEF at
<1>2. at \in Nat /\ at .. at + 3 \subseteq OperandBytes(o)
  BY <1>1, SlotInOperand DEF VisitInv, SlotOf
<1>3. at \in OperandBytes(o)  BY <1>2
<1> QED  BY <1>1, <1>3, ScriptsAssumption DEF VisitInv, IsScript, WellFormed, at

(***************************************************************************)
(* The finding LocationsNotShared is about a second run only: one run over *)
(* a script of functions with different entries leaves them different,     *)
(* whichever have moved and wherever to.                                   *)
(***************************************************************************)
THEOREM LocationsNotSharedAtOnce ==
  Spec => []((\A i, j \in DOMAIN script.exports :
                i # j => script.exports[i].address # script.exports[j].address)
             => LocationsNotShared)
<1> DEFINE Apart == \A i, j \in DOMAIN script.exports :
                      i # j => script.exports[i].address # script.exports[j].address
<1>1. IInv => (Apart => LocationsNotShared)
  <2> SUFFICES ASSUME IInv, Apart, NEW i \in DOMAIN exports, NEW j \in DOMAIN exports, i # j
               PROVE  exports[i].address # exports[j].address
    BY DEF LocationsNotShared
  <2>1. i \in DOMAIN script.exports /\ j \in DOMAIN script.exports  BY DEF IInv, Rest, DataInv
  <2>2. CASE Moved(i) /\ Moved(j)  BY <2>1, <2>2 DEF IInv, Rest, MovedInv
  <2>3. CASE Moved(i) /\ ~Moved(j)
    <3>1. exports[i].address # script.exports[j].address
      BY <2>1, <2>3, TakenIsNoEntry DEF IInv
    <3> QED  BY <2>3, <3>1 DEF Moved
  <2>4. CASE ~Moved(i) /\ Moved(j)
    <3>1. exports[j].address # script.exports[i].address
      BY <2>1, <2>4, TakenIsNoEntry DEF IInv
    <3> QED  BY <2>4, <3>1 DEF Moved
  <2>5. CASE ~Moved(i) /\ ~Moved(j)  BY <2>1, <2>5 DEF Moved
  <2> QED  BY <2>2, <2>3, <2>4, <2>5
<1> QED  BY <1>1, Invariance, PTL DEF Spec

-----------------------------------------------------------------------------
(* Checksums.                                                              *)

SumLen(i) == IF opt.recomputeCRC THEN script.exports[i].len ELSE 1

SumInv ==
  /\ pc = "ReadTables" =>
       /\ mem = Image(script)
       /\ \A i \in DOMAIN script.exports :
            exports[i].checksum = CRC(Image(script), script.exports[i].address, script.exports[i].len)
  /\ pc \notin {"ReadTables", "Failed"} =>
       \A i \in DOMAIN script.exports : exportsMap[i].len = script.exports[i].len
  /\ pc \in {"Checksums", "Done"} =>
       \A i \in DOMAIN script.exports :
         (<<i, 0>> \notin todo \/ pc # "Checksums") /\ SumLen(i) > 0 =>
           exports[i].checksum = CRC(mem, script.exports[i].address, SumLen(i))

\* Without collisions, the size found is the one the checksum was taken of.
LEMMA SizeFound ==
  ASSUME NEW m, NEW bc \in Nat, NEW size \in Nat, NEW len \in Nat, len > 0 => bc + len <= size
  PROVE  FindExportSizeByCrc(m, bc, size, CRC(m, bc, len)) = len
<1> DEFINE lens == {n \in 1 .. size - bc : CRC(m, bc, n) = CRC(m, bc, len)}
<1>1. ASSUME NEW n \in Nat, CRC(m, bc, n) = CRC(m, bc, len)
      PROVE  n = len
  <2>1. DOMAIN CRC(m, bc, n) = 1 .. n /\ DOMAIN CRC(m, bc, len) = 1 .. len  BY DEF CRC
  <2>2. 1 .. n = 1 .. len  BY <1>1, <2>1
  <2> QED  BY <2>2
<1>2. CASE len = 0
  <2>1. lens = {}  BY <1>1, <1>2
  <2> QED  BY <1>2, <2>1 DEF FindExportSizeByCrc
<1>3. CASE len > 0
  <2>1. len \in lens  BY <1>3
  <2>2. \A n \in lens : n = len  BY <1>1
  <2>3. FindExportSizeByCrc(m, bc, size, CRC(m, bc, len)) \in lens  BY <2>1 DEF FindExportSizeByCrc
  <2> QED  BY <2>2, <2>3
<1> QED  BY <1>2, <1>3

\* ReadTables finds the size of every export.
LEMMA SumReadTablesStep ==
  ASSUME VisitInv, Rest, SumInv, ReadTables
  PROVE  SumInv'
<1>1. script' = script /\ pc = "ReadTables" /\ pc' \in {"Locals", "Failed"}
  BY DEF ReadTables, Fail
<1>2. IsScript(script) /\ WellFormed(script)  BY ScriptsAssumption DEF VisitInv, IsScript
<1>3. ASSUME pc' = "Locals", NEW i \in DOMAIN script.exports
      PROVE  exportsMap'[i].len = script.exports[i].len
  <2> DEFINE bc == script.exports[i].address
             len == script.exports[i].len
  <2>1. exportsMap'[i].len =
          FindExportSizeByCrc(mem, exports[i].address, script.size, exports[i].checksum)
    BY <1>3 DEF ReadTables, Fail, Rest, DataInv
  <2>2. exports[i].address = bc  BY <1>1 DEF Rest, AddressInv, Moved, Unmoved, Early
  <2>3. exports[i].checksum = CRC(mem, bc, len)  BY <1>1 DEF SumInv
  <2>4. bc \in Nat /\ len \in Nat
    <3>1. script.exports \in Seq(ExportType)  BY <1>2 DEF IsScript
    <3>2. script.exports[i] \in ExportType  BY <3>1
    <3> QED  BY <3>2 DEF ExportType
  <2>5. script.size \in Nat /\ (len > 0 => bc + len <= script.size)
    BY <1>2 DEF IsScript, WellFormed
  <2> HIDE DEF bc, len
  <2>6. FindExportSizeByCrc(mem, bc, script.size, CRC(mem, bc, len)) = len
    BY <2>4, <2>5, SizeFound
  <2> QED  BY <2>1, <2>2, <2>3, <2>6 DEF len
<1> QED  BY <1>1, <1>3 DEF SumInv

\* ComputeChecksums takes the checksum of the final bytes.
LEMMA SumChecksumStep ==
  ASSUME VisitInv, Rest, SumInv, NEW i \in DOMAIN script.exports, ComputeChecksum(i)
  PROVE  SumInv'
<1>1. /\ UNCHANGED <<script, opt, mem, exportsMap>>
      /\ pc = "Checksums" /\ pc' = pc /\ todo' = todo \ {<<i, 0>>}
  BY DEF ComputeChecksum, Visit
<1>2. exportsMap[i].bc = script.exports[i].address /\ exportsMap[i].len = script.exports[i].len
  BY <1>1 DEF Rest, LoadInv, SumInv
<1>3. DOMAIN exports = DOMAIN script.exports  BY DEF Rest, DataInv
<1>4. SumLen(i) \in Nat
  <2>1. script.exports \in Seq(ExportType)  BY ScriptsAssumption DEF VisitInv, IsScript
  <2>2. script.exports[i] \in ExportType  BY <2>1
  <2> QED  BY <2>2 DEF ExportType, SumLen
<1>5. SumLen(i) > 0 =>
        exports'[i].checksum = CRC(mem, script.exports[i].address, SumLen(i))
  <2> SUFFICES ASSUME SumLen(i) > 0
               PROVE  exports'[i].checksum = CRC(mem, script.exports[i].address, SumLen(i))
    OBVIOUS
  <2>1. ~(opt.recomputeCRC /\ exportsMap[i].len = 0)  BY <1>2, <1>4 DEF SumLen
  <2>2. exports' = [exports EXCEPT ![i].checksum =
                      CRC(mem, exportsMap[i].bc, IF opt.recomputeCRC THEN exportsMap[i].len ELSE 1)]
    BY <2>1 DEF ComputeChecksum
  <2>3. exports' = [exports EXCEPT ![i].checksum =
                      CRC(mem, script.exports[i].address, SumLen(i))]
    BY <1>2, <2>2 DEF SumLen
  <2> DEFINE crc == CRC(mem, script.exports[i].address, SumLen(i))
  <2> HIDE DEF crc
  <2>4. exports' = [exports EXCEPT ![i].checksum = crc]  BY <2>3 DEF crc
  <2>5. exports'[i].checksum = crc  BY <1>3, <2>4 DEF Rest, DataInv
  <2> QED  BY <2>5 DEF crc
<1>6. \A e \in DOMAIN script.exports : e # i => exports'[e] = exports[e]
  BY <1>3 DEF ComputeChecksum
<1> QED  BY <1>1, <1>5, <1>6 DEF SumInv, SumLen

\* Every step keeps what the checksums are about.
LEMMA SumStep ==
  ASSUME VisitInv, Rest, SumInv, [Next]_vars
  PROVE  SumInv'
<1>1. script' = script /\ opt' = opt  BY ProgressStep
<1>2. CASE pc = "ReadTables"
  <2>1. ReadTables \/ UNCHANGED vars
    BY <1>2 DEF Next, Terminated, EndPass, Passes, ApplyPrivateTexts, RemoveLocalVariables,
       KillPrivateExport, ApplyPrivateHash, KillDevImport, KillDevString, CreateTrampoline,
       ComputeChecksum, Visit
  <2>2. CASE UNCHANGED vars  BY <2>2 DEF SumInv, SumLen, vars, tables
  <2> QED  BY <2>1, <2>2, SumReadTablesStep
<1>3. CASE pc = "Checksums"
  <2>1. CASE \E i \in DOMAIN script.exports : ComputeChecksum(i)
    BY <2>1, SumChecksumStep
  <2>2. CASE EndPass  BY <1>3, <2>2 DEF EndPass, NextPass, SumInv, SumLen, tables
  <2>3. CASE UNCHANGED vars  BY <2>3 DEF SumInv, SumLen, vars, tables
  <2> QED  BY <1>3, <2>1, <2>2, <2>3, Turn
<1>4. CASE pc = "Done"
  <2>1. pc' = "Done"
    BY <1>4 DEF Next, Terminated, ReadTables, EndPass, Passes, ApplyPrivateTexts,
       RemoveLocalVariables, KillPrivateExport, ApplyPrivateHash, KillDevImport, KillDevString,
       CreateTrampoline, ComputeChecksum, Visit, vars
  <2>2. UNCHANGED <<mem, exports, exportsMap>>  BY <1>4, PassWrites DEF Rest
  <2> QED  BY <1>1, <1>4, <2>1, <2>2 DEF SumInv, SumLen
<1>5. CASE pc \notin {"ReadTables", "Checksums", "Done"}
  <2>1. exportsMap' = exportsMap  BY <1>5, PassWrites DEF Rest
  <2>2. pc' # "ReadTables" /\ (pc' \notin {"Failed"} => pc # "Failed")
    BY <1>5, PassStep, NextPassIsPass DEF Passes
  <2>3. pc' \in {"Checksums", "Done"} => pc' = "Checksums" /\ todo' = Work(pc')
    BY <1>5, PassStep DEF Passes, NextPass
  <2>4. pc' = "Checksums" => \A i \in DOMAIN script.exports : <<i, 0>> \in Work(pc')
    BY DEF Work
  <2> QED  BY <1>1, <1>5, <2>1, <2>2, <2>3, <2>4 DEF SumInv
<1> QED  BY <1>2, <1>3, <1>4, <1>5

(***************************************************************************)
(* ChecksumsFinal: the checksums of the result are those of its final      *)
(* bytes, of the size each function had when the script was loaded.        *)
(***************************************************************************)
THEOREM ChecksumsAreFinal == Spec => []ChecksumsFinal
<1>1. Init => SumInv
  <2> SUFFICES ASSUME Init PROVE SumInv  OBVIOUS
  <2>1. \A i \in DOMAIN script.exports :
          exports[i].checksum = CRC(Image(script), script.exports[i].address, script.exports[i].len)
    BY DEF Init
  <2> QED  BY <2>1 DEF Init, SumInv
<1>2. IInv /\ SumInv /\ [Next]_vars => SumInv'  BY SumStep DEF IInv
<1>3. IInv /\ SumInv => ChecksumsFinal
  BY DEF IInv, Rest, DataInv, SumInv, SumLen, ChecksumsFinal
<1> QED  BY <1>1, <1>2, <1>3, Invariance, PTL DEF Spec

\* A function whose size is not known keeps the checksum it was compiled with.
NoSumInv ==
  pc # "Failed" /\ opt.recomputeCRC =>
    \A i \in DOMAIN script.exports :
      script.exports[i].len = 0 =>
        exports[i].checksum = CRC(Image(script), script.exports[i].address, 0)

\* Renaming leaves the checksums alone.
LEMMA HashKeepsSums ==
  ASSUME DataInv, NEW h \in DOMAIN opt.hashes, ApplyPrivateHash(h)
  PROVE  \A i \in DOMAIN script.exports : exports'[i].checksum = exports[i].checksum
<1> DEFINE val == opt.hashes[h]
           renamed(n) == IF n = h THEN val ELSE n
<1>1. /\ exports' = [i \in DOMAIN exports |->
           [exports[i] EXCEPT !.name = renamed(@), !.name_space = renamed(@)]]
      /\ imports' = [k \in DOMAIN imports |->
           [imports[k] EXCEPT !.name = renamed(@), !.import_namespace = renamed(@)]]
  BY DEF ApplyPrivateHash
<1> HIDE DEF renamed, val
<1>2. \A i \in DOMAIN script.exports :
        /\ exports'[i].name = renamed(exports[i].name)
        /\ exports'[i].checksum = exports[i].checksum
  BY <1>1 DEF DataInv
<1> QED  BY <1>2

LEMMA NoSumStep ==
  ASSUME VisitInv, Rest, SumInv, NoSumInv, [Next]_vars
  PROVE  NoSumInv'
<1>1. script' = script /\ opt' = opt /\ (pc' # "Failed" => pc # "Failed")
  BY ProgressStep, PassStep, NextPassIsPass DEF Passes
<1>2. DOMAIN exports = DOMAIN script.exports  BY DEF Rest, DataInv
<1> SUFFICES ASSUME pc' # "Failed", opt.recomputeCRC, NEW i \in DOMAIN script.exports,
                    script.exports[i].len = 0
             PROVE  exports'[i].checksum = exports[i].checksum
  BY <1>1 DEF NoSumInv
<1>3. CASE exports' = exports  BY <1>3
<1>4. ASSUME NEW j \in DOMAIN script.exports, KillPrivateExport(j)
      PROVE  exports'[i].checksum = exports[i].checksum
  BY <1>2, <1>4 DEF KillPrivateExport
<1>5. ASSUME NEW h \in DOMAIN opt.hashes, ApplyPrivateHash(h)
      PROVE  exports'[i].checksum = exports[i].checksum
  BY <1>5, HashKeepsSums DEF Rest
<1>6. ASSUME NEW j \in DOMAIN script.exports, CreateTrampoline(j)
      PROVE  exports'[i].checksum = exports[i].checksum
  <2>1. CASE exports' = exports  BY <2>1
  <2>2. CASE \E at : exports' = [exports EXCEPT ![j].address = at]  BY <1>2, <2>2
  <2> QED  BY <1>6, <2>1, <2>2 DEF CreateTrampoline
<1>7. ASSUME NEW j \in DOMAIN script.exports, ComputeChecksum(j)
      PROVE  exports'[i].checksum = exports[i].checksum
  <2>1. CASE j = i
    <3>1. pc = "Checksums"  BY <1>7 DEF ComputeChecksum, Visit
    <3>2. exportsMap[i].len = 0  BY <3>1 DEF SumInv
    <3> QED  BY <1>7, <2>1, <3>2 DEF ComputeChecksum
  <2>2. CASE j # i  BY <1>2, <1>7, <2>2 DEF ComputeChecksum
  <2> QED  BY <2>1, <2>2
<1>8. CASE pc \notin {"Privates", "Hashes", "Trampolines", "Checksums"}
  BY <1>3, <1>8, PassWrites DEF Rest
<1>9. CASE EndPass \/ UNCHANGED vars
  <2>1. exports' = exports  BY <1>9 DEF EndPass, tables, vars
  <2> QED  BY <1>3, <2>1
<1> QED  BY <1>4, <1>5, <1>6, <1>7, <1>8, <1>9, Turn

\* The checksum of no bytes is the same wherever they are.
LEMMA NoBytes ==
  ASSUME NEW m1, NEW m2, NEW bc \in Nat  PROVE CRC(m1, bc, 0) = CRC(m2, bc, 0)
BY DEF CRC

(***************************************************************************)
(* The finding RecomputedChecksumsFound is about trampolines only: a       *)
(* function that stays where it was compiled is found with its size by the *)
(* checksum that --export-crc-recomp gives it.                             *)
(***************************************************************************)
THEOREM UnmovedChecksumsFound ==
  Spec => [](pc = "Done" /\ opt.recomputeCRC =>
               \A i \in DOMAIN exports :
                 \/ Moved(i)
                 \/ FindExportSizeByCrc(mem, exports[i].address, script.size, exports[i].checksum)
                      = script.exports[i].len)
<1> DEFINE Found ==
      pc = "Done" /\ opt.recomputeCRC =>
        \A i \in DOMAIN exports :
          \/ Moved(i)
          \/ FindExportSizeByCrc(mem, exports[i].address, script.size, exports[i].checksum)
               = script.exports[i].len
<1>1. Init => SumInv /\ NoSumInv
  <2> SUFFICES ASSUME Init PROVE SumInv /\ NoSumInv  OBVIOUS
  <2>1. \A i \in DOMAIN script.exports :
          exports[i].checksum = CRC(Image(script), script.exports[i].address, script.exports[i].len)
    BY DEF Init
  <2> QED  BY <2>1 DEF Init, SumInv, NoSumInv
<1>2. IInv /\ SumInv /\ NoSumInv /\ [Next]_vars => SumInv' /\ NoSumInv'
  BY SumStep, NoSumStep DEF IInv
<1>3. IInv /\ SumInv /\ NoSumInv => Found
  <2> SUFFICES ASSUME IInv, SumInv, NoSumInv, pc = "Done", opt.recomputeCRC,
                      NEW i \in DOMAIN exports, ~Moved(i)
               PROVE  FindExportSizeByCrc(mem, exports[i].address, script.size, exports[i].checksum)
                        = script.exports[i].len
    OBVIOUS
  <2> DEFINE bc == script.exports[i].address
             len == script.exports[i].len
  <2>1. i \in DOMAIN script.exports /\ exports[i].address = bc
    BY DEF IInv, Rest, DataInv, Moved
  <2>2. IsScript(script) /\ WellFormed(script)
    BY ScriptsAssumption DEF IInv, VisitInv, IsScript
  <2>3. bc \in Nat /\ len \in Nat
    <3>1. script.exports \in Seq(ExportType)  BY <2>2 DEF IsScript
    <3>2. script.exports[i] \in ExportType  BY <2>1, <3>1
    <3> QED  BY <3>2 DEF ExportType
  <2>4. script.size \in Nat /\ (len > 0 => bc + len <= script.size)
    BY <2>1, <2>2 DEF IsScript, WellFormed
  <2>5. exports[i].checksum = CRC(mem, bc, len)
    <3>1. CASE len > 0  BY <2>1, <3>1 DEF SumInv, SumLen
    <3>2. CASE len = 0
      <4>1. exports[i].checksum = CRC(Image(script), bc, 0)  BY <2>1, <3>2 DEF NoSumInv
      <4> HIDE DEF bc, len
      <4>2. exports[i].checksum = CRC(mem, bc, 0)  BY <2>3, <4>1, NoBytes
      <4> QED  BY <3>2, <4>2
    <3> QED  BY <2>3, <3>1, <3>2
  <2> HIDE DEF bc, len
  <2>6. FindExportSizeByCrc(mem, bc, script.size, CRC(mem, bc, len)) = len
    BY <2>3, <2>4, SizeFound
  <2> QED  BY <2>1, <2>5, <2>6 DEF len
<1> QED  BY <1>1, <1>2, <1>3, Invariance, PTL DEF Spec

-----------------------------------------------------------------------------
(* Names.                                                                  *)

Linked(i, k) ==
  exports[i].name = imports[k].name /\ exports[i].name_space = imports[k].import_namespace

LinkInv ==
  \A i \in DOMAIN script.exports, k \in DOMAIN script.imports :
    ~script.imports[k].dev => (Linked(i, k) <=> ExportKey(script, i) = ImportKey(script, k))

\* The private exports that have no number yet.
Unnumbered == {i \in DOMAIN script.exports : pc = "Privates" /\ <<i, 0>> \in todo}

\* Until private hashes are applied a name is the compiled one or a number handed out.
NumberInv ==
  /\ pc \in {"ReadTables", "Locals"} => privateCount = 0
  /\ pc \in {"ReadTables", "Locals", "Privates", "Texts"} =>
       /\ \A i \in DOMAIN script.exports :
            /\ exports[i].name_space = script.exports[i].name_space
            /\ exports[i].name = script.exports[i].name \/ exports[i].name <= privateCount
       /\ \A k \in DOMAIN script.imports :
            /\ imports[k].import_namespace = script.imports[k].import_namespace
            /\ imports[k].name = script.imports[k].name \/ imports[k].name <= privateCount
       /\ privateCount + Cardinality(Unnumbered) <= Len(script.exports)

\* Every name and namespace of the tables.
InUse ==
  {exports[i].name : i \in DOMAIN script.exports}
  \cup {exports[i].name_space : i \in DOMAIN script.exports}
  \cup {imports[k].name : k \in DOMAIN script.imports}
  \cup {imports[k].import_namespace : k \in DOMAIN script.imports}

\* The value of a private hash that has not been applied is not in use.
HashInv ==
  pc = "Hashes" =>
    \A h \in DOMAIN opt.hashes : <<h, 0>> \in todo => opt.hashes[h] \notin InUse

NameInv == LinkInv /\ NumberInv /\ HashInv

\* The exports without a number are finitely many, no more than there are exports.
LEMMA UnnumberedFinite ==
  ASSUME NEW n \in Nat, NEW S \in SUBSET (1 .. n)
  PROVE  IsFiniteSet(S) /\ Cardinality(S) \in Nat /\ Cardinality(S) <= n
<1>1. IsFiniteSet(1 .. n) /\ Cardinality(1 .. n) <= n  BY FS_Interval
<1>2. IsFiniteSet(S) /\ Cardinality(S) <= Cardinality(1 .. n)  BY <1>1, FS_Subset
<1>3. Cardinality(S) \in Nat /\ Cardinality(1 .. n) \in Nat  BY <1>1, <1>2, FS_CardinalityType
<1> QED  BY <1>1, <1>2, <1>3

\* The fields of compiled exports and imports.
LEMMA ScriptFacts ==
  ASSUME script \in Scripts
  PROVE  /\ Len(script.exports) \in Nat /\ DOMAIN script.exports = 1 .. Len(script.exports)
         /\ \A i \in DOMAIN script.exports :
              /\ script.exports[i].name \in Nat /\ script.exports[i].name > Len(script.exports)
         /\ \A k \in DOMAIN script.imports :
              /\ script.imports[k].name \in Nat /\ script.imports[k].name > Len(script.exports)
<1>1. IsScript(script) /\ WellFormed(script)  BY ScriptsAssumption DEF IsScript
<1>2. script.exports \in Seq(ExportType) /\ script.imports \in Seq(ImportType)
  BY <1>1 DEF IsScript
<1>3. \A i \in DOMAIN script.exports : script.exports[i] \in ExportType  BY <1>2
<1>4. \A k \in DOMAIN script.imports : script.imports[k] \in ImportType  BY <1>2
<1> QED  BY <1>1, <1>2, <1>3, <1>4 DEF WellFormed, ExportType, ImportType

\* The next number is in use nowhere, so that what gets it is linked to nothing else.
LEMMA NamePrivateStep ==
  ASSUME VisitInv, Rest, NameInv, NEW i \in DOMAIN script.exports, KillPrivateExport(i)
  PROVE  NameInv'
<1> DEFINE c == privateCount + 1
           named(k) == ImportKey(script, k) = ExportKey(script, i)
<1>1. /\ script' = script /\ opt' = opt /\ pc = "Privates" /\ pc' = pc
      /\ <<i, 0>> \in todo /\ todo' = todo \ {<<i, 0>>} /\ privateCount' = c
  BY DEF KillPrivateExport, Visit
<1>2. /\ exports \in [DOMAIN script.exports ->
                      [address : Nat, name_space : Nat, name : Nat, checksum : Seq(Cells)]]
      /\ imports \in [DOMAIN script.imports ->
                      [import_namespace : Nat, name : Nat, offsets : Seq(Nat)]]
      /\ privateCount \in Nat
  BY DEF Rest, DataInv
<1>3. /\ exports' = [exports EXCEPT ![i].name = c]
      /\ imports' = [k \in DOMAIN imports |->
           IF named(k) THEN [imports[k] EXCEPT !.name = c] ELSE imports[k]]
  BY <1>1 DEF KillPrivateExport
<1>4. Sole(script, i)
  <2>1. <<i, 0>> \in Work("Privates")  BY <1>1 DEF VisitInv
  <2> QED  BY <2>1 DEF Work
<1>5. /\ Len(script.exports) \in Nat /\ DOMAIN script.exports = 1 .. Len(script.exports)
      /\ \A e \in DOMAIN script.exports :
           script.exports[e].name \in Nat /\ script.exports[e].name > Len(script.exports)
      /\ \A k \in DOMAIN script.imports :
           script.imports[k].name \in Nat /\ script.imports[k].name > Len(script.exports)
  BY ScriptFacts DEF VisitInv
<1>6. /\ c \in Nat /\ c <= Len(script.exports)
      /\ c + Cardinality(Unnumbered') <= Len(script.exports)
  <2> DEFINE U == Unnumbered
  <2>1. U \in SUBSET (1 .. Len(script.exports)) /\ i \in U  BY <1>1, <1>5 DEF Unnumbered
  <2>2. Unnumbered' = U \ {i}  BY <1>1 DEF Unnumbered
  <2>3. privateCount + Cardinality(U) <= Len(script.exports)  BY <1>1 DEF NameInv, NumberInv
  <2> HIDE DEF U
  <2>4. IsFiniteSet(U) /\ Cardinality(U) \in Nat  BY <1>5, <2>1, UnnumberedFinite
  <2>5. Cardinality(U \ {i}) = Cardinality(U) - 1  BY <2>1, <2>4, FS_RemoveElement
  <2>6. Cardinality(U \ {i}) \in Nat
    <3>1. U \ {i} \in SUBSET (1 .. Len(script.exports))  BY <2>1
    <3> QED  BY <1>5, <3>1, UnnumberedFinite
  <2> QED  BY <1>2, <1>5, <2>2, <2>3, <2>4, <2>5, <2>6
<1>7. \A e \in DOMAIN script.exports :
        /\ exports[e].name_space = script.exports[e].name_space
        /\ exports[e].name = script.exports[e].name \/ exports[e].name <= privateCount
        /\ exports[e].name \in Nat
  BY <1>1, <1>2 DEF NameInv, NumberInv
<1>8. \A k \in DOMAIN script.imports :
        /\ imports[k].import_namespace = script.imports[k].import_namespace
        /\ imports[k].name = script.imports[k].name \/ imports[k].name <= privateCount
        /\ imports[k].name \in Nat
  BY <1>1, <1>2 DEF NameInv, NumberInv
<1>9. c \in Nat /\ privateCount \in Nat /\ c > privateCount  BY <1>2
<1> HIDE DEF c, named
<1>10. /\ \A e \in DOMAIN script.exports : exports[e].name # c
       /\ \A k \in DOMAIN script.imports : imports[k].name # c
  <2> DEFINE n == Len(script.exports)
  <2>1. n \in Nat /\ c <= n  BY <1>5, <1>6
  <2>2. /\ \A e \in DOMAIN script.exports : script.exports[e].name \in Nat /\ script.exports[e].name > n
        /\ \A k \in DOMAIN script.imports : script.imports[k].name \in Nat /\ script.imports[k].name > n
    BY <1>5
  <2> HIDE DEF n
  <2>3. ASSUME NEW e \in DOMAIN script.exports
        PROVE  exports[e].name # c
    BY <1>7, <1>9, <2>1, <2>2
  <2>4. ASSUME NEW k \in DOMAIN script.imports
        PROVE  imports[k].name # c
    BY <1>8, <1>9, <2>1, <2>2
  <2> QED  BY <2>3, <2>4
<1>11. \A e \in DOMAIN script.exports :
         /\ exports'[e].name_space = exports[e].name_space
         /\ exports'[e].name = IF e = i THEN c ELSE exports[e].name
  BY <1>2, <1>3
<1>12. \A k \in DOMAIN script.imports :
         /\ imports'[k].import_namespace = imports[k].import_namespace
         /\ imports'[k].name = IF named(k) THEN c ELSE imports[k].name
  BY <1>2, <1>3
<1>13. LinkInv'
  <2> SUFFICES ASSUME NEW e \in DOMAIN script.exports, NEW k \in DOMAIN script.imports,
                      ~script.imports[k].dev
               PROVE  Linked(e, k)' <=> ExportKey(script, e) = ImportKey(script, k)
    BY <1>1 DEF LinkInv, ExportKey, ImportKey
  <2>1. Linked(e, k) <=> ExportKey(script, e) = ImportKey(script, k)
    BY DEF NameInv, LinkInv
  <2>2. CASE e = i /\ named(k)
    <3>1. script.imports[k].import_namespace = script.exports[i].name_space
      BY <2>2 DEF named, ExportKey, ImportKey
    <3> QED  BY <1>7, <1>8, <1>11, <1>12, <2>2, <3>1 DEF Linked, named
  <2>3. CASE e = i /\ ~named(k)  BY <1>10, <1>11, <1>12, <2>3 DEF Linked, named
  <2>4. CASE e # i /\ named(k)
    <3>1. ExportKey(script, e) # ImportKey(script, k)  BY <1>4, <2>4 DEF named, Sole
    <3> QED  BY <1>10, <1>11, <1>12, <2>4, <3>1 DEF Linked
  <2>5. CASE e # i /\ ~named(k)  BY <1>11, <1>12, <2>1, <2>5 DEF Linked
  <2> QED  BY <2>2, <2>3, <2>4, <2>5
<1>14. NumberInv'
  <2>1. \A e \in DOMAIN script.exports :
          /\ exports'[e].name_space = script.exports[e].name_space
          /\ exports'[e].name = script.exports[e].name \/ exports'[e].name <= c
    <3> SUFFICES ASSUME NEW e \in DOMAIN script.exports
                 PROVE  /\ exports'[e].name_space = script.exports[e].name_space
                        /\ exports'[e].name = script.exports[e].name \/ exports'[e].name <= c
      OBVIOUS
    <3>1. exports[e].name <= privateCount => exports[e].name <= c  BY <1>7, <1>9
    <3> QED  BY <1>7, <1>9, <1>11, <3>1
  <2>2. \A k \in DOMAIN script.imports :
          /\ imports'[k].import_namespace = script.imports[k].import_namespace
          /\ imports'[k].name = script.imports[k].name \/ imports'[k].name <= c
    <3> SUFFICES ASSUME NEW k \in DOMAIN script.imports
                 PROVE  /\ imports'[k].import_namespace = script.imports[k].import_namespace
                        /\ imports'[k].name = script.imports[k].name \/ imports'[k].name <= c
      OBVIOUS
    <3>1. imports[k].name <= privateCount => imports[k].name <= c  BY <1>8, <1>9
    <3> QED  BY <1>8, <1>9, <1>12, <3>1
  <2> QED  BY <1>1, <1>6, <2>1, <2>2 DEF NumberInv
<1>15. HashInv'  BY <1>1 DEF HashInv
<1> QED  BY <1>13, <1>14, <1>15 DEF NameInv

\* Renaming to what is not in use keeps equal what is equal, and apart what is not.
LEMMA NameHashStep ==
  ASSUME VisitInv, Rest, NameInv, NEW h \in DOMAIN opt.hashes, ApplyPrivateHash(h)
  PROVE  NameInv'
<1> DEFINE val == opt.hashes[h]
           renamed(n) == IF n = h THEN val ELSE n
<1>1. /\ script' = script /\ opt' = opt /\ pc = "Hashes" /\ pc' = pc
      /\ <<h, 0>> \in todo /\ todo' = todo \ {<<h, 0>>}
  BY DEF ApplyPrivateHash, Visit
<1>2. /\ exports' = [i \in DOMAIN exports |->
           [exports[i] EXCEPT !.name = renamed(@), !.name_space = renamed(@)]]
      /\ imports' = [k \in DOMAIN imports |->
           [imports[k] EXCEPT !.name = renamed(@), !.import_namespace = renamed(@)]]
  BY DEF ApplyPrivateHash
<1>3. val \notin InUse  BY <1>1 DEF NameInv, HashInv
<1>4. \A a, b \in InUse : renamed(a) = renamed(b) <=> a = b  BY <1>3
<1>5. \A g \in DOMAIN opt.hashes : <<g, 0>> \in todo' =>
        opt.hashes[g] # val /\ opt.hashes[g] \notin InUse
  <2>1. IsOption(opt)  BY OptionsAssumption DEF VisitInv
  <2> QED  BY <1>1, <2>1 DEF NameInv, HashInv, IsOption
<1>6. \A n \in InUse : renamed(n) = val \/ renamed(n) \in InUse  OBVIOUS
<1> HIDE DEF renamed, val
<1>7. \A i \in DOMAIN script.exports :
        /\ exports'[i].name = renamed(exports[i].name)
        /\ exports'[i].name_space = renamed(exports[i].name_space)
        /\ exports[i].name \in InUse /\ exports[i].name_space \in InUse
  BY <1>2 DEF Rest, DataInv, InUse
<1>8. \A k \in DOMAIN script.imports :
        /\ imports'[k].name = renamed(imports[k].name)
        /\ imports'[k].import_namespace = renamed(imports[k].import_namespace)
        /\ imports[k].name \in InUse /\ imports[k].import_namespace \in InUse
  BY <1>2 DEF Rest, DataInv, InUse
<1>9. LinkInv'
  <2>1. \A i \in DOMAIN script.exports, k \in DOMAIN script.imports : Linked(i, k)' <=> Linked(i, k)
    BY <1>4, <1>7, <1>8 DEF Linked
  <2> QED  BY <1>1, <2>1 DEF NameInv, LinkInv, ExportKey, ImportKey
<1>10. HashInv'
  <2>1. \A n \in InUse' : n = val \/ n \in InUse  BY <1>1, <1>6, <1>7, <1>8 DEF InUse
  <2> QED  BY <1>1, <1>5, <2>1 DEF HashInv
<1>11. NumberInv'  BY <1>1 DEF NumberInv
<1> QED  BY <1>9, <1>10, <1>11 DEF NameInv

\* KillDevImports renames dev imports only, and no call outside dev blocks uses one.
LEMMA NameDevImportStep ==
  ASSUME VisitInv, Rest, NameInv, NEW x \in todo, KillDevImport(x[1], x[2])
  PROVE  NameInv'
<1>1. /\ script' = script /\ opt' = opt /\ exports' = exports
      /\ pc = "DevImports" /\ pc' = pc
  BY DEF KillDevImport, Visit
<1>2. script.imports[x[1]].dev
  <2>1. x \in Work("DevImports")  BY <1>1 DEF VisitInv
  <2> QED  BY <2>1, WorkImport
<1>3. \A k \in DOMAIN script.imports : ~script.imports[k].dev => imports'[k] = imports[k]
  <2>1. \E new : imports' = [imports EXCEPT ![x[1]] = new]
    <3>1. CASE imports' = [imports EXCEPT ![x[1]].name = AssertHash]
      BY <3>1
    <3>2. CASE imports' = [imports EXCEPT ![x[1]].offsets[x[2]] =
                             Redirected(@, 8, Delta(script, x[1]))]
      BY <3>2
    <3> QED  BY <3>1, <3>2 DEF KillDevImport
  <2> QED  BY <1>2, <2>1 DEF Rest, DataInv
<1>4. LinkInv'
  BY <1>1, <1>3 DEF NameInv, LinkInv, Linked, ExportKey, ImportKey
<1>5. NumberInv' /\ HashInv'  BY <1>1 DEF NumberInv, HashInv
<1> QED  BY <1>4, <1>5 DEF NameInv

SameNames ==
  /\ \A i \in DOMAIN script.exports :
       exports'[i].name = exports[i].name /\ exports'[i].name_space = exports[i].name_space
  /\ \A k \in DOMAIN script.imports :
       /\ imports'[k].name = imports[k].name
       /\ imports'[k].import_namespace = imports[k].import_namespace

\* No other pass renames anything.
LEMMA OthersRenameNothing ==
  ASSUME Rest, [Next]_vars,
         ~\E i \in DOMAIN script.exports : KillPrivateExport(i),
         ~\E h \in DOMAIN opt.hashes : ApplyPrivateHash(h),
         ~\E x \in todo : KillDevImport(x[1], x[2])
  PROVE  SameNames
<1>1. CASE EndPass \/ UNCHANGED vars  BY <1>1 DEF EndPass, SameNames, tables, vars
<1>2. CASE pc \notin {"Privates", "Hashes", "DevImports", "Trampolines", "Checksums"}
  BY <1>2, PassWrites DEF Rest, SameNames
<1>3. ASSUME pc = "Trampolines", NEW i \in DOMAIN script.exports, CreateTrampoline(i)
      PROVE  SameNames
  <2>1. imports' = imports  BY <1>3 DEF CreateTrampoline
  <2>2. exports' = exports \/ \E a : exports' = [exports EXCEPT ![i].address = a]
    BY <1>3 DEF CreateTrampoline
  <2> QED  BY <2>1, <2>2 DEF Rest, DataInv, SameNames
<1>4. ASSUME pc = "Checksums", NEW i \in DOMAIN script.exports, ComputeChecksum(i)
      PROVE  SameNames
  <2>1. imports' = imports  BY <1>4 DEF ComputeChecksum
  <2>2. exports' = exports \/ \E crc : exports' = [exports EXCEPT ![i].checksum = crc]
    BY <1>4 DEF ComputeChecksum
  <2> QED  BY <2>1, <2>2 DEF Rest, DataInv, SameNames
<1> QED  BY <1>1, <1>2, <1>3, <1>4, Turn

\* Every step keeps what calls link to.
LEMMA NameStep ==
  ASSUME VisitInv, Rest, NameInv, [Next]_vars
  PROVE  NameInv'
<1>1. script' = script /\ opt' = opt  BY ProgressStep
<1>2. CASE \E i \in DOMAIN script.exports : KillPrivateExport(i)  BY <1>2, NamePrivateStep
<1>3. CASE \E h \in DOMAIN opt.hashes : ApplyPrivateHash(h)  BY <1>3, NameHashStep
<1>4. CASE \E x \in todo : KillDevImport(x[1], x[2])  BY <1>4, NameDevImportStep
<1>5. CASE /\ ~\E i \in DOMAIN script.exports : KillPrivateExport(i)
           /\ ~\E h \in DOMAIN opt.hashes : ApplyPrivateHash(h)
           /\ ~\E x \in todo : KillDevImport(x[1], x[2])
  <2>1. SameNames  BY <1>5, OthersRenameNothing
  <2>2. LinkInv'  BY <1>1, <2>1 DEF SameNames, NameInv, LinkInv, Linked, ExportKey, ImportKey
  <2>3. privateCount' = privateCount
    <3>1. EndPass \/ UNCHANGED vars \/ pc # "Privates"  BY <1>5, Turn
    <3>2. EndPass \/ UNCHANGED vars => privateCount' = privateCount  BY DEF EndPass, vars
    <3> QED  BY <3>1, <3>2, PassWrites DEF Rest
  <2>4. Len(script.exports) \in Nat /\ DOMAIN script.exports = 1 .. Len(script.exports)
    BY ScriptFacts DEF VisitInv
  <2>5. Unnumbered' \in SUBSET (1 .. Len(script.exports))
    BY <1>1, <2>4 DEF Unnumbered
  <2>6. Unnumbered \in SUBSET (1 .. Len(script.exports))
    BY <2>4 DEF Unnumbered
  <2>7. /\ Cardinality(Unnumbered) \in Nat
        /\ Cardinality(Unnumbered') \in Nat /\ Cardinality(Unnumbered') <= Len(script.exports)
    BY <2>4, <2>5, <2>6, UnnumberedFinite
  <2>8. privateCount \in Nat  BY DEF Rest, DataInv
  <2>9. NumberInv'
    <3>1. CASE pc' \notin {"ReadTables", "Locals", "Privates", "Texts"}
      BY <3>1 DEF NumberInv
    <3>2. CASE pc' \in {"ReadTables", "Locals", "Privates", "Texts"}
      <4>1. /\ pc \in {"ReadTables", "Locals", "Privates", "Texts"}
            /\ pc' \in {"ReadTables", "Locals"} => pc \in {"ReadTables", "Locals"}
            /\ pc' = "Privates" => pc \in {"Locals", "Privates"}
        BY <3>2, PassStep DEF Passes, NextPass
      <4>2. privateCount' + Cardinality(Unnumbered') <= Len(script.exports)
        <5>1. CASE pc' # "Privates"
          <6>1. Unnumbered' = {}  BY <5>1 DEF Unnumbered
          <6>2. Cardinality(Unnumbered') = 0  BY <6>1, FS_EmptySet
          <6>3. privateCount + Cardinality(Unnumbered) <= Len(script.exports)
            BY <4>1 DEF NameInv, NumberInv
          <6> QED  BY <2>3, <2>4, <2>7, <2>8, <6>2, <6>3
        <5>2. CASE pc' = "Privates" /\ pc = "Locals"
          <6>1. privateCount = 0  BY <5>2 DEF NameInv, NumberInv
          <6> QED  BY <2>3, <2>4, <2>7, <6>1
        <5>3. CASE pc' = "Privates" /\ pc = "Privates"
          <6>1. EndPass \/ UNCHANGED vars  BY <1>5, <5>3, Turn
          <6>2. UNCHANGED vars  BY <5>3, <6>1 DEF EndPass, NextPass
          <6>3. Unnumbered' = Unnumbered  BY <6>2 DEF Unnumbered, vars
          <6> QED  BY <2>3, <5>3, <6>3 DEF NameInv, NumberInv
        <5> QED  BY <4>1, <5>1, <5>2, <5>3
      <4> QED  BY <1>1, <2>1, <2>3, <4>1, <4>2 DEF SameNames, NameInv, NumberInv
    <3> QED  BY <3>1, <3>2
  <2>10. HashInv'
    <3>1. InUse' = InUse  BY <1>1, <2>1 DEF SameNames, InUse
    <3>2. CASE pc = "Texts"
      <4>1. \A n \in InUse : n \in Identifiers(script) \/ n <= privateCount
        BY <3>2 DEF NameInv, NumberInv, InUse, Identifiers
      <4>2. privateCount <= Len(script.exports)
        <5>1. privateCount + Cardinality(Unnumbered) <= Len(script.exports)
          BY <3>2 DEF NameInv, NumberInv
        <5> QED  BY <2>4, <2>7, <2>8, <5>1
      <4>3. \A h \in DOMAIN opt.hashes :
              /\ opt.hashes[h] \in Nat /\ opt.hashes[h] > Len(script.exports)
              /\ opt.hashes[h] \notin Identifiers(script)
        BY OptionsAssumption DEF VisitInv, IsOption
      <4>4. \A h \in DOMAIN opt.hashes : ~(opt.hashes[h] <= privateCount)
        BY <2>4, <2>8, <4>2, <4>3
      <4> QED  BY <1>1, <3>1, <4>1, <4>3, <4>4 DEF HashInv
    <3>3. CASE pc = "Hashes" /\ todo' \subseteq todo
      BY <1>1, <3>1, <3>3 DEF NameInv, HashInv
    <3>4. CASE pc' # "Hashes"  BY <3>4 DEF HashInv
    <3> QED  BY <3>2, <3>3, <3>4, PassStep DEF Passes, NextPass
  <2> QED  BY <2>2, <2>9, <2>10 DEF NameInv
<1> QED  BY <1>2, <1>3, <1>4, <1>5

(***************************************************************************)
(* LinkPreserved: through every renaming, in whatever order private names  *)
(* are numbered and private hashes applied, a call that is not killed      *)
(* links to the functions it linked to in the compiled script.             *)
(***************************************************************************)
THEOREM LinksPreserved == Spec => []LinkPreserved
<1>1. Init => NameInv
  <2> SUFFICES ASSUME Init PROVE NameInv  OBVIOUS
  <2>1. script \in Scripts /\ pc = "ReadTables" /\ todo = {} /\ privateCount = 0  BY DEF Init
  <2>2. /\ \A i \in DOMAIN script.exports :
             /\ exports[i].name = script.exports[i].name
             /\ exports[i].name_space = script.exports[i].name_space
        /\ \A k \in DOMAIN script.imports :
             /\ imports[k].name = script.imports[k].name
             /\ imports[k].import_namespace = script.imports[k].import_namespace
    BY DEF Init
  <2>3. LinkInv  BY <2>2 DEF LinkInv, Linked, ExportKey, ImportKey
  <2>4. Cardinality(Unnumbered) = 0
    <3>1. Unnumbered = {}  BY <2>1 DEF Unnumbered
    <3> QED  BY <3>1, FS_EmptySet
  <2>5. Len(script.exports) \in Nat  BY <2>1, ScriptFacts
  <2>6. NumberInv  BY <2>1, <2>2, <2>4, <2>5 DEF NumberInv
  <2> QED  BY <2>1, <2>3, <2>6 DEF NameInv, HashInv
<1>2. IInv /\ NameInv /\ [Next]_vars => NameInv'  BY NameStep DEF IInv
<1>3. IInv /\ NameInv => LinkPreserved
  <2> SUFFICES ASSUME IInv, NameInv PROVE LinkPreserved  OBVIOUS
  <2>1. /\ DOMAIN exports = DOMAIN script.exports /\ DOMAIN imports = DOMAIN script.imports
    BY DEF IInv, Rest, DataInv
  <2> QED  BY <2>1 DEF NameInv, LinkInv, Linked, LinkPreserved
<1> QED  BY <1>1, <1>2, <1>3, Invariance, PTL DEF Spec

-----------------------------------------------------------------------------
(* Identifiers of the code.                                                *)

\* Killing a dev op writes to its opcodes only.
LEMMA KillWrites ==
  ASSUME script \in Scripts, DataInv,
         NEW o \in DevOps(script), KillDevByteCodeOp(o.id, o.floc, o.len, o.delta)
  PROVE  \A p \in 0 .. script.size - 1 : p \notin OpcodeBytes(o) => mem'[p] = mem[p]
<1> DEFINE bc == Operand(o.floc, o.len, o.delta)
           next == Aligned(bc + o.len, 2)
           at == o.floc - 2
           m1 == Write(mem, at, 2, "dead", 0)
<1>1. mem' = mem \/ mem' = Write(m1, next, 2, "beef", 0)  BY DEF KillDevByteCodeOp
<1>2. o.floc \in Nat /\ o.len \in {4, 8} /\ bc \in Nat  BY DevOpFacts
<1>3. at \in Int /\ at + 1 = o.floc - 1  BY <1>2
<1>4. next \in Int
  <2>1. bc + o.len \in Nat  BY <1>2
  <2> QED  BY <2>1, AlignedBounds
<1>5. script.size \in Nat  BY ScriptsAssumption DEF IsScript
<1>6. mem \in [0 .. script.size - 1 -> Cells]  BY DEF DataInv
<1>7. OpcodeBytes(o) = (at .. at + 1) \cup (next .. next + 1)  BY <1>3 DEF OpcodeBytes
<1> HIDE DEF at, next
<1>8. /\ m1 \in [0 .. script.size - 1 -> Cells]
      /\ \A p \in 0 .. script.size - 1 : p \notin at .. at + 1 => m1[p] = mem[p]
  BY <1>3, <1>5, <1>6, PlantFacts
<1> HIDE DEF m1
<1>9. \A p \in 0 .. script.size - 1 :
        p \notin next .. next + 1 => Write(m1, next, 2, "beef", 0)[p] = m1[p]
  BY <1>4, <1>5, <1>8, PlantFacts
<1> QED  BY <1>1, <1>7, <1>8, <1>9

\* A step of any pass but ApplyPrivateHashes leaves the identifiers of the code alone.
LEMMA OthersKeepWords ==
  ASSUME VisitInv, Rest, [Next]_vars, ~\E h \in DOMAIN opt.hashes : ApplyPrivateHash(h),
         NEW w \in CodeWords, NEW p \in w .. w + 3
  PROVE  mem'[p] = mem[p]
<1>1. script \in Scripts /\ DataInv  BY DEF VisitInv, Rest
<1>2. IsScript(script) /\ WellFormed(script)  BY <1>1, ScriptsAssumption DEF IsScript
<1>3. /\ w \in DOMAIN script.words /\ p \in WordBytes(script)
      /\ p \in 0 .. script.size - 1
  BY <1>2 DEF CodeWords, WordBytes, WellFormed
<1>4. mem \in [0 .. script.size - 1 -> Cells]  BY <1>1 DEF DataInv
<1>5. \A o \in DevOps(script) : p \notin OpcodeBytes(o) /\ p \notin OperandBytes(o)
  BY <1>2, <1>3 DEF WellFormed
<1>6. ASSUME NEW o \in DevOps(script), KillDevByteCodeOp(o.id, o.floc, o.len, o.delta)
      PROVE  mem'[p] = mem[p]
  BY <1>1, <1>3, <1>5, <1>6, KillWrites
<1>7. ASSUME NEW i \in DOMAIN script.exports, RemoveLocalVariables(i)
      PROVE  mem'[p] = mem[p]
  <2> DEFINE params == script.exports[i].params
             named == {j \in DOMAIN params : ~params[j]}
             at(j) == NameAt(exportsMap[i].bc, j)
  <2>1. exportsMap[i].bc = script.exports[i].address
    <3>1. pc = "Locals"  BY <1>7 DEF RemoveLocalVariables, Visit
    <3> QED  BY <3>1 DEF Rest, LoadInv
  <2>2. \A j \in named : p \notin at(j) .. at(j) + 3
    <3> SUFFICES ASSUME NEW j \in named PROVE p \notin at(j) .. at(j) + 3  OBVIOUS
    <3>1. at(j) = NameAt(script.exports[i].address, j)  BY <2>1
    <3>2. w # at(j)  BY <3>1 DEF CodeWords
    <3>3. (w .. w + 3) \cap (at(j) .. at(j) + 3) = {}
      BY <1>2, <1>3, <3>1, <3>2 DEF WellFormed
    <3> QED  BY <3>3
  <2>3. \/ mem' = mem
        \/ \E name : mem' = [q \in DOMAIN mem |->
             IF \E j \in named : q \in at(j) .. at(j) + 3 THEN name[q] ELSE mem[q]]
    <3> DEFINE choice(q) == CHOOSE j \in named : q \in at(j) .. at(j) + 3
               name == [q \in DOMAIN mem |-> <<"word", choice(q), q - at(choice(q))>>]
    <3>1. \/ mem' = mem
          \/ mem' = [q \in DOMAIN mem |->
               IF \E j \in named : q \in at(j) .. at(j) + 3
               THEN <<"word", choice(q), q - at(choice(q))>> ELSE mem[q]]
      BY <1>7 DEF RemoveLocalVariables
    <3> HIDE DEF choice, named, at
    <3>2. \A q \in DOMAIN mem : name[q] = <<"word", choice(q), q - at(choice(q))>>  OBVIOUS
    <3> HIDE DEF name
    <3> QED  BY <3>1, <3>2
  <2> HIDE DEF named, at
  <2> QED  BY <1>3, <1>4, <2>2, <2>3
<1>8. ASSUME NEW x \in todo, KillDevImport(x[1], x[2])
      PROVE  mem'[p] = mem[p]
  <2> DEFINE k == x[1]
             j == x[2]
             o == DevCall(script, k, j)
  <2>1. pc = "DevImports"  BY <1>8 DEF KillDevImport, Visit
  <2>2. /\ x = <<k, j>> /\ k \in DOMAIN script.imports /\ script.imports[k].dev
        /\ j \in 0 .. Len(script.imports[k].offsets)
    <3>1. x \in Work("DevImports")  BY <2>1 DEF VisitInv
    <3> QED  BY <3>1, WorkImport
  <2>3. CASE j = 0  BY <1>8, <2>3 DEF KillDevImport
  <2>4. CASE j # 0
    <3>1. script.imports[k].offsets \in Seq(Nat)
      <4>1. script.imports \in Seq(ImportType)  BY <1>2 DEF IsScript
      <4>2. script.imports[k] \in ImportType  BY <2>2, <4>1
      <4> QED  BY <4>2 DEF ImportType
    <3>2. j \in DOMAIN script.imports[k].offsets  BY <2>2, <2>4, <3>1
    <3>3. imports[k].offsets[j] = script.imports[k].offsets[j]
      <4>1. <<k, j>> \in todo  BY <2>2
      <4> QED  BY <2>1, <2>2, <3>2, <4>1 DEF Rest, PendingInv
    <3>4. o \in DevOps(script)  BY <2>2, <3>2 DEF DevOps, DevCalls
    <3>5. KillDevByteCodeOp(<<"import", k, j>>, imports[k].offsets[j], 8, Delta(script, k))
      BY <1>8, <2>4 DEF KillDevImport
    <3>6. KillDevByteCodeOp(o.id, o.floc, o.len, o.delta)  BY <3>3, <3>5 DEF DevCall
    <3> HIDE DEF o
    <3> QED  BY <1>6, <3>4, <3>6
  <2> QED  BY <2>3, <2>4
<1>9. ASSUME NEW x \in todo, KillDevString(x[1], x[2])
      PROVE  mem'[p] = mem[p]
  <2> DEFINE k == x[1]
             j == x[2]
             o == DevStringUse(script, k, j)
  <2>1. pc = "DevStrings"  BY <1>9 DEF KillDevString, Visit
  <2>2. /\ x = <<k, j>> /\ k \in DOMAIN script.devStrings
        /\ j \in 0 .. Len(script.devStrings[k])
    <3>1. x \in Work("DevStrings")  BY <2>1 DEF VisitInv
    <3> QED  BY <3>1, WorkString
  <2>3. CASE j = 0  BY <1>9, <2>3 DEF KillDevString
  <2>4. CASE j # 0
    <3>1. script.devStrings[k] \in Seq(Nat)  BY <1>2, <2>2 DEF IsScript
    <3>2. j \in DOMAIN script.devStrings[k]  BY <2>2, <2>4, <3>1
    <3>3. devStrings[k][j] = script.devStrings[k][j]
      <4>1. <<k, j>> \in todo  BY <2>2
      <4> QED  BY <2>1, <2>2, <3>2, <4>1 DEF Rest, PendingInv
    <3>4. o \in DevOps(script)  BY <2>2, <3>2 DEF DevOps, DevStringUses
    <3>5. KillDevByteCodeOp(<<"string", k, j>>, devStrings[k][j], 4, 0)
      BY <1>9, <2>4 DEF KillDevString
    <3>6. KillDevByteCodeOp(o.id, o.floc, o.len, o.delta)  BY <3>3, <3>5 DEF DevStringUse
    <3> HIDE DEF o
    <3> QED  BY <1>6, <3>4, <3>6
  <2> QED  BY <2>3, <2>4
<1>10. ASSUME NEW i \in DOMAIN script.exports, CreateTrampoline(i)
       PROVE  mem'[p] = mem[p]
  <2>1. CASE mem' = mem  BY <2>1
  <2>2. CASE mem' # mem
    <3>1. PICK slot \in free : \E d : mem' = Write(mem, slot[1], 4, "jump", d)
      BY <1>10, <2>2 DEF CreateTrampoline
    <3>2. PICK o \in DevOps(script) : SlotOf(slot[1], o)  BY DEF Rest, FreeInv
    <3>3. slot[1] \in Nat /\ slot[1] .. slot[1] + 3 \subseteq OperandBytes(o)
      BY <1>1, <3>2, SlotInOperand DEF SlotOf
    <3>4. slot[1] + 4 - 1 = slot[1] + 3  BY <3>3
    <3> QED  BY <1>3, <1>4, <1>5, <3>1, <3>3, <3>4 DEF Write
  <2> QED  BY <2>1, <2>2
<1>11. CASE ReadTables \/ EndPass \/ ApplyPrivateTexts \/ UNCHANGED vars
  BY <1>11 DEF ReadTables, EndPass, ApplyPrivateTexts, vars
<1>12. ASSUME NEW i \in DOMAIN script.exports, KillPrivateExport(i) \/ ComputeChecksum(i)
       PROVE  mem'[p] = mem[p]
  BY <1>12 DEF KillPrivateExport, ComputeChecksum
<1> QED  BY <1>7, <1>8, <1>9, <1>10, <1>11, <1>12 DEF Next, Terminated

\* The exports that keep their name until private hashes are applied.
Named(i) == ~(script.exports[i].private /\ Sole(script, i))

\* An identifier when the hashes in H have been replaced.
Renamed(hashes, H, n) == IF n \in H THEN hashes[n] ELSE n

\* Code and exports have had the same hashes replaced, none that is still to be visited.
WordInv ==
  \E H \in SUBSET DOMAIN opt.hashes :
    /\ pc \in {"ReadTables", "Locals", "Privates", "Texts"} => H = {}
    /\ pc = "Hashes" => \A h \in H : <<h, 0>> \notin todo
    /\ \A w \in CodeWords, k \in 0 .. 3 :
         mem[w + k] = <<"word", Renamed(opt.hashes, H, script.words[w]), k>>
    /\ \A i \in DOMAIN script.exports :
         Named(i) => exports[i].name = Renamed(opt.hashes, H, script.exports[i].name)

\* A hash is replaced in the code where its bytes are, and in the table where it is the name.
LEMMA WordHashStep ==
  ASSUME VisitInv, Rest, WordInv, NEW h \in DOMAIN opt.hashes, ApplyPrivateHash(h)
  PROVE  WordInv'
<1> DEFINE val == opt.hashes[h]
           renamed(n) == IF n = h THEN val ELSE n
<1>1. /\ script' = script /\ opt' = opt /\ pc = "Hashes" /\ pc' = pc
      /\ <<h, 0>> \in todo /\ todo' = todo \ {<<h, 0>>}
      /\ mem' = Replace(mem, h, val)
      /\ exports' = [i \in DOMAIN exports |->
           [exports[i] EXCEPT !.name = renamed(@), !.name_space = renamed(@)]]
  BY DEF ApplyPrivateHash, Visit
<1>2. PICK H \in SUBSET DOMAIN opt.hashes :
        /\ \A g \in H : <<g, 0>> \notin todo
        /\ \A w \in CodeWords, k \in 0 .. 3 :
             mem[w + k] = <<"word", Renamed(opt.hashes, H, script.words[w]), k>>
        /\ \A i \in DOMAIN script.exports :
             Named(i) => exports[i].name = Renamed(opt.hashes, H, script.exports[i].name)
  BY <1>1 DEF WordInv
<1> DEFINE G == H \cup {h}
<1>3. h \notin H  BY <1>1, <1>2
<1>4. \A g \in DOMAIN opt.hashes : opt.hashes[g] # h
  BY OptionsAssumption DEF VisitInv, IsOption
<1>5. \A n : Renamed(opt.hashes, G, n) = renamed(Renamed(opt.hashes, H, n))  BY <1>3, <1>4 DEF Renamed
<1>6. CodeWords' = CodeWords /\ \A i : Named(i)' = Named(i)  BY <1>1 DEF CodeWords, Named
<1>7. mem' = Replace(mem, h, val)  BY <1>1
<1> HIDE DEF renamed, val
<1>8. ASSUME NEW w \in CodeWords, NEW k \in 0 .. 3
      PROVE  mem'[w + k] = <<"word", Renamed(opt.hashes, G, script.words[w]), k>>
  <2> DEFINE v == Renamed(opt.hashes, H, script.words[w])
             p == w + k
  <2>1. w \in Nat /\ p \in DOMAIN mem /\ \A n \in 0 .. 3 : w + n \in DOMAIN mem
    <3>1. IsScript(script) /\ WellFormed(script)  BY ScriptsAssumption DEF VisitInv, IsScript
    <3>2. w \in DOMAIN script.words /\ w \in Nat  BY <3>1 DEF CodeWords, IsScript
    <3>3. \A n \in 0 .. 3 : w + n \in w .. w + 3  BY <3>2
    <3>4. \A n \in 0 .. 3 : w + n \in WordBytes(script)  BY <3>2, <3>3 DEF WordBytes
    <3>5. DOMAIN mem = 0 .. script.size - 1  BY DEF Rest, DataInv
    <3> QED  BY <3>1, <3>2, <3>4, <3>5 DEF WellFormed
  <2>2. \A n \in 0 .. 3 : mem[w + n] = <<"word", v, n>>  BY <1>2
  <2>3. mem[p][1] = "word" /\ mem[p][3] = k /\ mem[p] = <<"word", v, k>> /\ p - mem[p][3] = w
    <3>1. mem[p] = <<"word", v, k>>  BY <2>2
    <3>2. p - k = w  BY <2>1
    <3> QED  BY <3>1, <3>2
  <2> HIDE DEF v, p
  <2>4. Holds(mem, w, 4, "word", h) <=> v = h
    <3>1. Holds(mem, w, 4, "word", h) <=> \A n \in 0 .. 3 : mem[w + n] = <<"word", h, n>>
      <4>1. \A q \in w .. w + 4 - 1 : q - w \in 0 .. 3 /\ w + (q - w) = q  BY <2>1
      <4>2. \A n \in 0 .. 3 : w + n \in w .. w + 4 - 1 /\ (w + n) - w = n  BY <2>1
      <4> QED  BY <2>1, <4>1, <4>2 DEF Holds
    <3> QED  BY <2>2, <3>1
  <2>5. mem'[p] = IF v = h THEN <<"word", val, k>> ELSE mem[p]
    BY <1>7, <2>1, <2>3, <2>4 DEF Replace, p
  <2>6. Renamed(opt.hashes, G, script.words[w]) = renamed(v)  BY <1>5 DEF v
  <2> QED  BY <2>3, <2>5, <2>6 DEF renamed, p
<1>9. ASSUME NEW i \in DOMAIN script.exports, Named(i)
      PROVE  exports'[i].name = Renamed(opt.hashes, G, script.exports[i].name)
  <2>1. exports'[i].name = renamed(exports[i].name)  BY <1>1 DEF Rest, DataInv
  <2> QED  BY <1>2, <1>5, <1>9, <2>1
<1>10. \A g \in G : <<g, 0>> \notin todo'  BY <1>1, <1>2
<1>11. G \in SUBSET DOMAIN opt.hashes  OBVIOUS
<1>12. script' = script /\ opt' = opt /\ pc' = "Hashes"  BY <1>1
<1> HIDE DEF G
<1> QED  BY <1>6, <1>8, <1>9, <1>10, <1>11, <1>12 DEF WordInv

\* Every step keeps the code and the exports in accordance.
LEMMA WordStep ==
  ASSUME VisitInv, Rest, WordInv, [Next]_vars
  PROVE  WordInv'
<1>1. CASE \E h \in DOMAIN opt.hashes : ApplyPrivateHash(h)  BY <1>1, WordHashStep
<1>2. CASE ~\E h \in DOMAIN opt.hashes : ApplyPrivateHash(h)
  <2>1. script' = script /\ opt' = opt  BY ProgressStep
  <2>2. CodeWords' = CodeWords /\ \A i : Named(i)' = Named(i)
    BY <2>1 DEF CodeWords, Named
  <2>3. \A w \in CodeWords, k \in 0 .. 3 : mem'[w + k] = mem[w + k]
    <3>1. \A w \in CodeWords : w \in Nat
      BY ScriptsAssumption DEF VisitInv, CodeWords, IsScript
    <3>2. \A w \in CodeWords, k \in 0 .. 3 : w + k \in w .. w + 3  BY <3>1
    <3> QED  BY <1>2, <3>2, OthersKeepWords
  <2>4. ASSUME NEW i \in DOMAIN script.exports, Named(i)
        PROVE  exports'[i].name = exports[i].name
    <3>1. CASE \E e \in DOMAIN script.exports : KillPrivateExport(e)
      <4>1. PICK e \in DOMAIN script.exports : KillPrivateExport(e)  BY <3>1
      <4>2. <<e, 0>> \in Work("Privates")  BY <4>1 DEF KillPrivateExport, Visit, VisitInv
      <4>3. e # i  BY <2>4, <4>2 DEF Work, Named
      <4> QED  BY <4>1, <4>3 DEF KillPrivateExport, Rest, DataInv
    <3>2. CASE \E x \in todo : KillDevImport(x[1], x[2])
      BY <3>2 DEF KillDevImport
    <3>3. CASE /\ ~\E e \in DOMAIN script.exports : KillPrivateExport(e)
               /\ ~\E x \in todo : KillDevImport(x[1], x[2])
      BY <1>2, <3>3, OthersRenameNothing DEF SameNames
    <3> QED  BY <3>1, <3>2, <3>3
  <2>5. /\ pc' \in {"ReadTables", "Locals", "Privates", "Texts"} =>
              pc \in {"ReadTables", "Locals", "Privates", "Texts"}
        /\ pc' = "Hashes" => pc = "Texts" \/ (pc = "Hashes" /\ todo' \subseteq todo)
    BY PassStep DEF Passes, NextPass
  <2>6. PICK H \in SUBSET DOMAIN opt.hashes :
          /\ pc \in {"ReadTables", "Locals", "Privates", "Texts"} => H = {}
          /\ pc = "Hashes" => \A h \in H : <<h, 0>> \notin todo
          /\ \A w \in CodeWords, k \in 0 .. 3 :
               mem[w + k] = <<"word", Renamed(opt.hashes, H, script.words[w]), k>>
          /\ \A i \in DOMAIN script.exports :
               Named(i) => exports[i].name = Renamed(opt.hashes, H, script.exports[i].name)
    BY DEF WordInv
  <2>7. /\ pc' \in {"ReadTables", "Locals", "Privates", "Texts"} => H = {}
        /\ pc' = "Hashes" => \A h \in H : <<h, 0>> \notin todo'
    BY <2>5, <2>6
  <2>8. \A w \in CodeWords, k \in 0 .. 3 :
          mem'[w + k] = <<"word", Renamed(opt.hashes, H, script.words[w]), k>>
    BY <2>3, <2>6
  <2>9. \A i \in DOMAIN script.exports :
          Named(i) => exports'[i].name = Renamed(opt.hashes, H, script.exports[i].name)
    BY <2>4, <2>6
  <2> QED  BY <2>1, <2>2, <2>7, <2>8, <2>9 DEF WordInv
<1> QED  BY <1>1, <1>2

\* Replacing hashes makes no two identifiers one.
LEMMA RenamedApart ==
  ASSUME VisitInv, NEW H \in SUBSET DOMAIN opt.hashes,
         NEW a \in Identifiers(script), NEW b \in Identifiers(script)
  PROVE  Renamed(opt.hashes, H, a) = Renamed(opt.hashes, H, b) <=> a = b
BY OptionsAssumption DEF VisitInv, IsOption, Renamed

(***************************************************************************)
(* IdentifiersConsistent: whatever the passes write, and in whatever order *)
(* private hashes are replaced, identifiers in the code and names of       *)
(* exports are equal exactly if they were.                                 *)
(***************************************************************************)
THEOREM IdentifiersAgree == Spec => []IdentifiersConsistent
<1>1. Init => WordInv
  <2> SUFFICES ASSUME Init PROVE WordInv  OBVIOUS
  <2>1. script \in Scripts /\ mem = Image(script)  BY DEF Init
  <2>2. IsScript(script) /\ WellFormed(script)  BY <2>1, ScriptsAssumption DEF IsScript
  <2>3. ASSUME NEW w \in CodeWords, NEW k \in 0 .. 3
        PROVE  mem[w + k] = <<"word", script.words[w], k>>
    <3> DEFINE p == w + k
               v == CHOOSE v \in DOMAIN script.words : p \in v .. v + 3
    <3>1. w \in DOMAIN script.words /\ w \in Nat  BY <2>2 DEF CodeWords, IsScript
    <3>2. p \in w .. w + 3 /\ p - w = k  BY <3>1
    <3> HIDE DEF p
    <3>3. v \in DOMAIN script.words /\ p \in v .. v + 3  BY <3>1, <3>2
    <3> HIDE DEF v
    <3>4. v = w  BY <2>2, <3>1, <3>2, <3>3 DEF WellFormed
    <3>5. p \in WordBytes(script)  BY <3>1, <3>2 DEF WordBytes
    <3>6. p \in 0 .. script.size - 1  BY <2>2, <3>5 DEF WellFormed
    <3>7. mem[p] = <<"word", script.words[v], p - v>>  BY <2>1, <3>5, <3>6 DEF Image, v
    <3> QED  BY <3>2, <3>4, <3>7 DEF p
  <2>4. \A i \in DOMAIN script.exports : exports[i].name = script.exports[i].name  BY DEF Init
  <2>5. \A n : Renamed(opt.hashes, {}, n) = n  BY DEF Renamed
  <2> QED  BY <2>3, <2>4, <2>5 DEF Init, WordInv
<1>2. IInv /\ WordInv /\ [Next]_vars => WordInv'  BY WordStep DEF IInv
<1>3. IInv /\ WordInv => IdentifiersConsistent
  <2> SUFFICES ASSUME IInv, WordInv PROVE IdentifiersConsistent  OBVIOUS
  <2>1. PICK H \in SUBSET DOMAIN opt.hashes :
          /\ \A w \in CodeWords, k \in 0 .. 3 :
               mem[w + k] = <<"word", Renamed(opt.hashes, H, script.words[w]), k>>
          /\ \A i \in DOMAIN script.exports :
               Named(i) => exports[i].name = Renamed(opt.hashes, H, script.exports[i].name)
    BY DEF WordInv
  <2>2. \A w \in CodeWords :
          /\ script.words[w] \in Identifiers(script)
          /\ mem[w][2] = Renamed(opt.hashes, H, script.words[w])
    <3> SUFFICES ASSUME NEW w \in CodeWords
                 PROVE  /\ script.words[w] \in Identifiers(script)
                        /\ mem[w][2] = Renamed(opt.hashes, H, script.words[w])
      OBVIOUS
    <3>1. w \in DOMAIN script.words /\ w \in Nat
      BY ScriptsAssumption DEF CodeWords, IInv, VisitInv, IsScript
    <3>2. mem[w + 0] = <<"word", Renamed(opt.hashes, H, script.words[w]), 0>> /\ w + 0 = w
      BY <2>1, <3>1
    <3> QED  BY <3>1, <3>2 DEF Identifiers
  <2>3. DOMAIN exports = DOMAIN script.exports  BY DEF IInv, Rest, DataInv
  <2>4. \A i \in DOMAIN exports : script.exports[i].name \in Identifiers(script)
    BY <2>3 DEF Identifiers
  <2>5. \A a, b \in Identifiers(script) : Renamed(opt.hashes, H, a) = Renamed(opt.hashes, H, b) <=> a = b
    BY RenamedApart DEF IInv
  <2> QED  BY <2>1, <2>2, <2>3, <2>4, <2>5 DEF IdentifiersConsistent, Named
<1> QED  BY <1>1, <1>2, <1>3, Invariance, PTL DEF Spec

-----------------------------------------------------------------------------
(* What a pass has looked at lies inside the script.                       *)

\* What x must do for its turn in a pass to end well.
Fits(pass, x) ==
  /\ pass = "Locals" => ParamsFit(script, x[1])
  /\ pass = "Texts" => script.textsFit
  /\ pass = "DevStrings" /\ x[2] = 0 => x[1] <= script.devStringsFit

TablesFit == script.tablesFit /\ \A i \in DOMAIN script.exports : EntryFits(script, i)

\* The passes that may throw, each with the moments at which it is still to come.
Ahead ==
  [Locals |-> {"ReadTables"},
   Texts |-> {"ReadTables", "Locals", "Privates"},
   DevStrings |-> Early \cup {"DevImports"}]

FitInv ==
  /\ pc \notin {"ReadTables", "Failed"} =>
       /\ TablesFit
       /\ \A pass \in DOMAIN Ahead : \A x \in Work(pass) :
            Fits(pass, x) \/ pc \in Ahead[pass] \/ (pc = pass /\ x \in todo)
  /\ pc = "Failed" => ~Completes

\* The last name of a list of parameters lies in the script if and only if all of them do.
LEMMA ParamsFitAll ==
  ASSUME NEW s \in Scripts, NEW i \in DOMAIN s.exports
  PROVE  ParamsFit(s, i) <=>
           \A j \in DOMAIN s.exports[i].params : NameAt(s.exports[i].address, j) + 8 <= s.size
<1> DEFINE params == s.exports[i].params
           n == Len(params)
           entry == s.exports[i].address
           first == Aligned(Aligned(entry, 2) + 3, 4)
<1>1. s.exports \in Seq(ExportType) /\ s.size \in Nat  BY ScriptsAssumption DEF IsScript
<1>2. params \in Seq(BOOLEAN) /\ entry \in Nat
  <2>1. s.exports[i] \in ExportType  BY <1>1
  <2> QED  BY <2>1 DEF ExportType
<1>3. n \in Nat /\ DOMAIN params = 1 .. n  BY <1>2
<1>4. first \in Nat
  <2> HIDE DEF entry
  <2>1. Aligned(entry, 2) \in Nat  BY <1>2, AlignedBounds
  <2>2. Aligned(entry, 2) + 3 \in Nat  BY <2>1
  <2> QED  BY <2>2, AlignedBounds
<1>5. \A j : NameAt(entry, j) = first + 8 * (j - 1)  BY DEF NameAt
<1> HIDE DEF first, entry, n, params
<1>6. ASSUME NEW j \in 1 .. n
      PROVE  n > 0 /\ first + 8 * (j - 1) <= first + 8 * (n - 1)
  BY <1>3, <1>4
<1>7. n > 0 => n \in 1 .. n  BY <1>3
<1>8. \A j \in 1 .. n : first + 8 * (j - 1) \in Int  BY <1>3, <1>4
<1>9. ParamsFit(s, i) <=> (n > 0 => first + 8 * (n - 1) + 8 <= s.size)
  BY <1>5 DEF ParamsFit, n, params, entry
<1>10. (\A j \in DOMAIN params : NameAt(entry, j) + 8 <= s.size) <=>
         (\A j \in 1 .. n : first + 8 * (j - 1) + 8 <= s.size)
  BY <1>3, <1>5
<1>11. (n > 0 => first + 8 * (n - 1) + 8 <= s.size) <=>
         (\A j \in 1 .. n : first + 8 * (j - 1) + 8 <= s.size)
  <2>1. ASSUME n > 0 => first + 8 * (n - 1) + 8 <= s.size, NEW j \in 1 .. n
        PROVE  first + 8 * (j - 1) + 8 <= s.size
    <3>1. first + 8 * (n - 1) + 8 <= s.size /\ first + 8 * (j - 1) <= first + 8 * (n - 1)
      BY <1>6, <2>1
    <3> DEFINE a == first + 8 * (j - 1)
               b == first + 8 * (n - 1)
    <3>2. a \in Int /\ b \in Int  BY <1>3, <1>4
    <3> HIDE DEF a, b
    <3>3. b + 8 <= s.size /\ a <= b  BY <3>1 DEF a, b
    <3>4. a + 8 <= s.size  BY <1>1, <3>2, <3>3
    <3> QED  BY <3>4 DEF a
  <2> QED  BY <1>7, <2>1
<1> QED  BY <1>9, <1>10, <1>11 DEF params, entry

\* RunTasks can only complete if everything its passes visit fits, and then it does.
LEMMA CompletesIs ==
  ASSUME script \in Scripts
  PROVE  Completes <=> TablesFit /\ \A pass \in DOMAIN Ahead : \A x \in Work(pass) : Fits(pass, x)
<1> DEFINE fit(pass) == \A x \in Work(pass) : Fits(pass, x)
<1>1. IsScript(script)  BY ScriptsAssumption
<1>2. TablesFit <=> script.tablesFit
                    /\ \A i \in DOMAIN script.exports :
                         Aligned(script.exports[i].address, 2) + 4 <= script.size
  BY DEF TablesFit, EntryFits
<1>3. fit("Locals") <=> (opt.noRemoveLocals \/
        \A i \in DOMAIN script.exports : \A j \in DOMAIN script.exports[i].params :
          NameAt(script.exports[i].address, j) + 8 <= script.size)
  <2>1. Work("Locals") = IF opt.noRemoveLocals THEN {} ELSE {<<i, 0>> : i \in DOMAIN script.exports}
    BY DEF Work
  <2>2. fit("Locals") <=> (opt.noRemoveLocals \/ \A i \in DOMAIN script.exports : ParamsFit(script, i))
    <3>1. fit("Locals") <=> \A x \in Work("Locals") : ParamsFit(script, x[1])  BY DEF Fits
    <3> HIDE DEF fit
    <3>2. CASE opt.noRemoveLocals  BY <2>1, <3>1, <3>2
    <3>3. CASE ~opt.noRemoveLocals
      <4>1. Work("Locals") = {<<i, 0>> : i \in DOMAIN script.exports}  BY <2>1, <3>3
      <4>2. \A i \in DOMAIN script.exports : <<i, 0>> \in Work("Locals") /\ <<i, 0>>[1] = i
        BY <4>1
      <4>3. \A x \in Work("Locals") : x[1] \in DOMAIN script.exports  BY <4>1
      <4> QED  BY <3>1, <3>3, <4>2, <4>3
    <3> QED  BY <3>2, <3>3
  <2> QED  BY <2>2, ParamsFitAll
<1>4. fit("Texts") <=> script.textsFit
  <2>1. Work("Texts") = {<<0, 0>>}  BY DEF Work
  <2> QED  BY <2>1 DEF Fits
<1>5. fit("DevStrings") <=> (opt.noDebugKill \/ Len(script.devStrings) <= script.devStringsFit)
  <2> DEFINE n == Len(script.devStrings)
  <2>1. n \in Nat /\ DOMAIN script.devStrings = 1 .. n /\ script.devStringsFit \in Nat
    BY <1>1 DEF IsScript
  <2>2. \A k \in 1 .. n : Len(script.devStrings[k]) \in Nat
    <3>1. \A k \in 1 .. n : script.devStrings[k] \in Seq(Nat)  BY <1>1, <2>1 DEF IsScript
    <3> QED  BY <3>1
  <2>3. opt.noDebugKill => Work("DevStrings") = {}  BY DEF Work
  <2>4. ASSUME ~opt.noDebugKill, NEW k \in 1 .. n
        PROVE  <<k, 0>> \in Work("DevStrings")
    <3>1. k \in DOMAIN script.devStrings /\ 0 \in 0 .. Len(script.devStrings[k])  BY <2>1, <2>2
    <3>2. <<k, 0>> \in {k} \X (0 .. Len(script.devStrings[k]))  BY <3>1
    <3> HIDE DEF n
    <3> QED  BY <2>4, <3>1, <3>2 DEF Work
  <2>5. \A x \in Work("DevStrings") : x[1] \in 1 .. n  BY <2>1, WorkString
  <2> HIDE DEF n
  <2>6. CASE opt.noDebugKill  BY <2>3, <2>6
  <2>7. CASE ~opt.noDebugKill
    <3>1. ASSUME n <= script.devStringsFit PROVE fit("DevStrings")
      <4>1. \A x \in Work("DevStrings") : x[1] <= script.devStringsFit  BY <2>1, <2>5, <3>1
      <4> QED  BY <4>1 DEF Fits
    <3>2. ASSUME fit("DevStrings") PROVE n <= script.devStringsFit
      <4>1. CASE n = 0  BY <2>1, <4>1
      <4>2. CASE n # 0
        <5>1. <<n, 0>> \in Work("DevStrings")  BY <2>1, <2>4, <2>7, <4>2
        <5> QED  BY <3>2, <5>1 DEF Fits
      <4> QED  BY <4>1, <4>2
    <3> QED  BY <2>7, <3>1, <3>2 DEF n
  <2> QED  BY <2>6, <2>7
<1>6. DOMAIN Ahead = {"Locals", "Texts", "DevStrings"}  BY DEF Ahead
<1> HIDE DEF fit
<1>7. (\A pass \in DOMAIN Ahead : fit(pass)) <=> fit("Locals") /\ fit("Texts") /\ fit("DevStrings")
  BY <1>6
<1>8. Completes <=> TablesFit /\ \A pass \in DOMAIN Ahead : fit(pass)
  BY <1>2, <1>3, <1>4, <1>5, <1>7 DEF Completes
<1> QED  BY <1>8 DEF fit

\* Replacing a hash never throws.
LEMMA HashTurn ==
  ASSUME NEW h \in DOMAIN opt.hashes, ApplyPrivateHash(h)
  PROVE  pc = "Hashes" /\ pc' = pc
BY Zenon DEF ApplyPrivateHash, Visit

\* A turn ends well for what fits only.
LEMMA TurnFits ==
  ASSUME VisitInv, [Next]_vars, pc' = pc, NEW x \in todo, x \notin todo'
  PROVE  Fits(pc, x)
<1>1. ASSUME NEW i \in DOMAIN script.exports, RemoveLocalVariables(i)
      PROVE  Fits(pc, x)
  <2>1. x = <<i, 0>> /\ pc = "Locals" /\ ParamsFit(script, i)
    BY <1>1 DEF RemoveLocalVariables, Visit, Fail
  <2> QED  BY <2>1 DEF Fits
<1>2. CASE ApplyPrivateTexts  BY <1>2 DEF ApplyPrivateTexts, Visit, Fail, Fits
<1>3. ASSUME NEW y \in todo, KillDevString(y[1], y[2])
      PROVE  Fits(pc, x)
  <2>1. pc = "DevStrings" /\ x = <<y[1], y[2]>> /\ (y[2] = 0 => y[1] <= script.devStringsFit)
    BY <1>3 DEF KillDevString, Visit, Fail
  <2> QED  BY <2>1 DEF Fits
<1>4. CASE pc \notin {"Locals", "Texts", "DevStrings"}  BY <1>4 DEF Fits
<1>5. CASE pc \in {"Locals", "Texts", "DevStrings"}
  <2>1. ~ReadTables  BY <1>5 DEF ReadTables
  <2>2. ~EndPass  BY DEF EndPass
  <2>3. \A i \in DOMAIN script.exports :
          ~KillPrivateExport(i) /\ ~CreateTrampoline(i) /\ ~ComputeChecksum(i)
    BY <1>5 DEF KillPrivateExport, CreateTrampoline, ComputeChecksum, Visit
  <2>4. \A h \in DOMAIN opt.hashes : ~ApplyPrivateHash(h)  BY <1>5, HashTurn
  <2>5. \A y \in todo : ~KillDevImport(y[1], y[2])  BY <1>5 DEF KillDevImport, Visit
  <2>6. ~Terminated /\ ~UNCHANGED vars  BY DEF Terminated, vars
  <2> QED  BY <1>1, <1>2, <1>3, <1>5, <2>1, <2>2, <2>3, <2>4, <2>5, <2>6 DEF Next
<1> QED  BY <1>4, <1>5

\* A pass throws only for what does not fit.
LEMMA FailDoesNotFit ==
  ASSUME VisitInv, DataInv, [Next]_vars, pc # "Failed", pc' = "Failed"
  PROVE  ~Completes
<1>1. script \in Scripts /\ todo \subseteq Work(pc)  BY DEF VisitInv
<1>2. CASE ReadTables
  <2>1. ~TablesFit  BY <1>2 DEF ReadTables, TablesFit, DataInv
  <2> QED  BY <1>1, <2>1, CompletesIs
<1>3. ASSUME NEW i \in DOMAIN script.exports, RemoveLocalVariables(i)
      PROVE  ~Completes
  <2>1. pc = "Locals" /\ <<i, 0>> \in todo /\ ~ParamsFit(script, i)
    BY <1>3 DEF RemoveLocalVariables, Visit
  <2>2. ~Fits("Locals", <<i, 0>>) /\ <<i, 0>> \in Work("Locals")  BY <1>1, <2>1 DEF Fits
  <2> QED  BY <1>1, <2>2, CompletesIs DEF Ahead
<1>4. CASE ApplyPrivateTexts  BY <1>4 DEF ApplyPrivateTexts, Visit, Completes
<1>5. ASSUME NEW y \in todo, KillDevString(y[1], y[2])
      PROVE  ~Completes
  <2>1. pc = "DevStrings" /\ y[2] = 0 /\ y[1] > script.devStringsFit
    BY <1>5 DEF KillDevString, Visit
  <2>2. y \in Work("DevStrings")  BY <1>1, <2>1
  <2>3. y[1] \in Nat /\ script.devStringsFit \in Nat
    BY <1>1, <2>2, WorkString, ScriptsAssumption DEF IsScript
  <2>4. ~Fits("DevStrings", y)  BY <2>1, <2>3 DEF Fits
  <2> QED  BY <1>1, <2>2, <2>4, CompletesIs DEF Ahead
<1>6. CASE EndPass  BY <1>6, NextPassIsPass DEF EndPass, Passes
<1>7. \A i \in DOMAIN script.exports :
        ~KillPrivateExport(i) /\ ~CreateTrampoline(i) /\ ~ComputeChecksum(i)
  BY DEF KillPrivateExport, CreateTrampoline, ComputeChecksum, Visit
<1>8. \A h \in DOMAIN opt.hashes : ~ApplyPrivateHash(h)  BY HashTurn
<1>9. \A y \in todo : ~KillDevImport(y[1], y[2])  BY DEF KillDevImport, Visit
<1>10. ~Terminated /\ ~UNCHANGED vars  BY DEF Terminated, vars
<1> QED  BY <1>2, <1>3, <1>4, <1>5, <1>6, <1>7, <1>8, <1>9, <1>10 DEF Next

\* Every step keeps what the passes have looked at inside the script.
LEMMA FitStep ==
  ASSUME VisitInv, DataInv, FitInv, [Next]_vars
  PROVE  FitInv'
<1>1. script' = script /\ opt' = opt  BY ProgressStep
<1>2. /\ TablesFit' = TablesFit /\ Completes' = Completes
      /\ \A pass : Work(pass)' = Work(pass)
      /\ \A pass, x : Fits(pass, x)' = Fits(pass, x)
  BY <1>1 DEF TablesFit, Completes, Work, Fits
<1>3. CASE pc' = "Failed"  BY <1>2, <1>3, FailDoesNotFit DEF FitInv
<1>4. CASE pc' = pc /\ todo' \subseteq todo /\ pc # "Failed"
  <2>1. \A x \in todo : x \notin todo' => Fits(pc, x)  BY <1>4, TurnFits
  <2> QED  BY <1>2, <1>4, <2>1 DEF FitInv
<1>5. CASE pc = "ReadTables" /\ pc' = "Locals" /\ todo' = Work(pc')
  <2>1. TablesFit
    <3>1. ReadTables
      BY <1>5 DEF Next, Terminated, EndPass, Passes, ApplyPrivateTexts, RemoveLocalVariables,
         KillPrivateExport, ApplyPrivateHash, KillDevImport, KillDevString, CreateTrampoline,
         ComputeChecksum, Visit, vars
    <3> QED  BY <1>5, <3>1 DEF ReadTables, Fail, TablesFit, DataInv
  <2>2. todo' = Work("Locals")' /\ pc' \in Ahead["Texts"] /\ pc' \in Ahead["DevStrings"]
    BY <1>2, <1>5 DEF Ahead, Early
  <2>3. DOMAIN Ahead = {"Locals", "Texts", "DevStrings"}  BY DEF Ahead
  <2> QED  BY <1>2, <1>5, <2>1, <2>2, <2>3 DEF FitInv
<1>6. CASE pc \in Passes /\ todo = {} /\ pc' = NextPass[pc] /\ todo' = Work(pc')
  <2>1. pc \notin {"ReadTables", "Failed"}  BY <1>6 DEF Passes
  <2>2. pc' # "Failed"  BY <1>6, NextPassIsPass DEF Passes
  <2>3. \A pass \in DOMAIN Ahead :
          pc \in Ahead[pass] => pc' \in Ahead[pass] \/ pc' = pass
    BY <1>6 DEF Ahead, Early, Passes, NextPass
  <2>4. \A pass \in DOMAIN Ahead : pc' = pass => todo' = Work(pass)  BY <1>6
  <2> QED  BY <1>2, <1>6, <2>1, <2>2, <2>3, <2>4 DEF FitInv
<1> QED  BY <1>3, <1>4, <1>5, <1>6, PassStep DEF VisitInv

(***************************************************************************)
(* Verdict: RunTasks completes exactly the scripts that keep inside        *)
(* themselves whatever its passes visit, for every script and option: a    *)
(* pass throws for nothing else, and lets nothing else by.                 *)
(***************************************************************************)
THEOREM VerdictIsRight == Spec => []Verdict
<1>1. Init => FitInv  BY DEF Init, FitInv
<1>2. IInv /\ FitInv /\ [Next]_vars => FitInv'  BY FitStep DEF IInv, Rest
<1>3. IInv /\ FitInv => Verdict
  <2> SUFFICES ASSUME IInv, FitInv, pc = "Done" PROVE Completes  BY DEF FitInv, Verdict
  <2>1. \A pass \in DOMAIN Ahead : pc \notin Ahead[pass] /\ pc # pass  BY DEF Ahead, Early
  <2> QED  BY <2>1, CompletesIs DEF IInv, VisitInv, FitInv
<1> QED  BY <1>1, <1>2, <1>3, Invariance, PTL DEF Spec
=============================================================================
