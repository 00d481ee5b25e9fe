------------------------- MODULE GscObfuscatorProofs -------------------------
(***************************************************************************)
(* Proofs about GscObfuscator for every script, option and jump width: the *)
(* type invariant, and that trampolines preserve every entry and leave     *)
(* live code alone.                                                        *)
(***************************************************************************)
EXTENDS GscObfuscatorProperties, SequenceTheorems, TLAPS

-----------------------------------------------------------------------------
(* Alignment, and the slots of an operand.                                 *)

\* Aligning to 2, 4 or 8 moves an address forward by less than the alignment.
LEMMA AlignedBounds ==
  ASSUME NEW loc \in Nat, NEW size \in {2, 4, 8}
  PROVE  Aligned(loc, size) \in Nat /\ loc <= Aligned(loc, size) /\ Aligned(loc, size) < loc + size
<1>1. CASE size = 2  BY <1>1 DEF Aligned
<1>2. CASE size = 4  BY <1>2 DEF Aligned
<1>3. CASE size = 8  BY <1>3 DEF Aligned
<1> QED  BY <1>1, <1>2, <1>3

\* The fields of the dev ops of a script.
LEMMA DevOpFacts ==
  ASSUME NEW s \in Scripts, NEW o \in DevOps(s)
  PROVE  /\ o.floc \in Nat /\ o.len \in {4, 8} /\ o.delta \in {0, 1}
         /\ Operand(o.floc, o.len, o.delta) \in Nat
         /\ o.floc + o.delta <= Operand(o.floc, o.len, o.delta)
<1>1. IsScript(s)  BY ScriptsAssumption
<1>2. s.imports \in Seq(ImportType) /\ s.devStrings \in Seq(Seq(Nat))  BY <1>1 DEF IsScript
<1>3. o.floc \in Nat /\ o.len \in {4, 8} /\ o.delta \in {0, 1}
  <2>1. CASE o \in DevCalls(s)
    <3>1. PICK k \in DOMAIN s.imports : \E j \in DOMAIN s.imports[k].offsets : o = DevCall(s, k, j)
      BY <2>1 DEF DevCalls
    <3>2. PICK j \in DOMAIN s.imports[k].offsets : o = DevCall(s, k, j)  BY <3>1
    <3>3. s.imports[k] \in ImportType  BY <1>2
    <3>4. s.imports[k].offsets \in Seq(Nat)  BY <3>3 DEF ImportType
    <3>5. s.imports[k].offsets[j] \in Nat  BY <3>4
    <3> QED  BY <3>2, <3>5 DEF Delta, DevCall
  <2>2. CASE o \in DevStringUses(s)
    <3>1. PICK k \in DOMAIN s.devStrings : \E j \in DOMAIN s.devStrings[k] : o = DevStringUse(s, k, j)
      BY <2>2 DEF DevStringUses
    <3>2. PICK j \in DOMAIN s.devStrings[k] : o = DevStringUse(s, k, j)  BY <3>1
    <3>3. s.devStrings[k] \in Seq(Nat)  BY <1>2
    <3>4. s.devStrings[k][j] \in Nat  BY <3>3
    <3> QED  BY <3>2, <3>4 DEF DevStringUse
  <2> QED  BY <2>1, <2>2 DEF DevOps
<1>4. o.floc + o.delta \in Nat /\ o.len \in {2, 4, 8}  BY <1>3
<1> QED  BY <1>3, <1>4, AlignedBounds DEF Operand

\* A slot and the three bytes after it are in the operand.
LEMMA SlotInOperand ==
  ASSUME NEW s \in Scripts, NEW o \in DevOps(s),
         NEW loc \in Slots(Operand(o.floc, o.len, o.delta), o.len)
  PROVE  loc \in Nat /\ loc .. loc + 3 \subseteq OperandBytes(o)
<1> DEFINE bc == Operand(o.floc, o.len, o.delta)
<1>1. bc \in Nat /\ o.len \in {4, 8}  BY DevOpFacts
<1>2. PICK i \in 0 .. (o.len \div 4) - 1 : loc = bc + 4 * i  BY DEF Slots, TRAMPOLINE_SIZE
<1>3. loc \in Nat /\ bc <= loc /\ loc + 3 <= bc + o.len - 1
  <2>1. CASE o.len = 4  BY <1>1, <1>2, <2>1
  <2>2. CASE o.len = 8  BY <1>1, <1>2, <2>2
  <2> QED  BY <1>1, <2>1, <2>2
<1> HIDE DEF bc
<1>4. loc .. loc + 3 \subseteq bc .. bc + o.len - 1  BY <1>1, <1>3
<1> QED  BY <1>3, <1>4 DEF OperandBytes, bc

\* Two slots whose bytes meet are one slot of one op.
LEMMA SlotsApart ==
  ASSUME NEW s \in Scripts, NEW o1 \in DevOps(s), NEW o2 \in DevOps(s),
         NEW loc1 \in Slots(Operand(o1.floc, o1.len, o1.delta), o1.len),
         NEW loc2 \in Slots(Operand(o2.floc, o2.len, o2.delta), o2.len),
         (loc1 .. loc1 + 3) \cap (loc2 .. loc2 + 3) # {}
  PROVE  o1 = o2 /\ loc1 = loc2
<1>1. loc1 \in Nat /\ loc1 .. loc1 + 3 \subseteq OperandBytes(o1)  BY SlotInOperand
<1>2. loc2 \in Nat /\ loc2 .. loc2 + 3 \subseteq OperandBytes(o2)  BY SlotInOperand
<1>3. WellFormed(s)  BY ScriptsAssumption DEF IsScript
<1>4. o1 = o2  BY <1>1, <1>2, <1>3 DEF WellFormed
<1> DEFINE bc == Operand(o1.floc, o1.len, o1.delta)
<1>5. bc \in Nat /\ o1.len \in {4, 8}  BY DevOpFacts
<1>6. PICK i \in 0 .. (o1.len \div 4) - 1 : loc1 = bc + 4 * i  BY DEF Slots, TRAMPOLINE_SIZE
<1>7. PICK j \in 0 .. (o1.len \div 4) - 1 : loc2 = bc + 4 * j
  BY <1>4 DEF Slots, TRAMPOLINE_SIZE
<1> HIDE DEF bc
<1>8. i \in Int /\ j \in Int  BY <1>5, <1>6, <1>7
<1>9. PICK p : p \in loc1 .. loc1 + 3 /\ p \in loc2 .. loc2 + 3  OBVIOUS
<1>10. p \in Int /\ loc1 <= p /\ p <= loc1 + 3 /\ loc2 <= p /\ p <= loc2 + 3
  BY <1>1, <1>2, <1>9
<1>11. i = j  BY <1>5, <1>6, <1>7, <1>8, <1>10
<1> QED  BY <1>4, <1>6, <1>7, <1>11

-----------------------------------------------------------------------------
(* The inductive invariant, by the pieces of state it is about.            *)

Early == {"ReadTables", "Locals", "Privates", "Texts", "Hashes"}
Unmoved == Early \cup {"DevImports", "DevStrings", "Failed"}

VisitInv ==
  /\ script \in Scripts /\ opt \in Options
  /\ pc \in Passes \cup {"ReadTables", "Done", "Failed"}
  /\ todo \subseteq Work(pc)

DataInv ==
  /\ mem \in [0 .. script.size - 1 -> Cells]
  /\ exports \in [DOMAIN script.exports ->
                  [address : Nat, name_space : Nat, name : Nat, checksum : Seq(Cells)]]
  /\ imports \in [DOMAIN script.imports ->
                  [import_namespace : Nat, name : Nat, offsets : Seq(Nat)]]
  /\ devStrings \in [DOMAIN script.devStrings -> Seq(Nat)]
  /\ junk \in Nat
  /\ privateCount \in Nat

LoadInv ==
  /\ exportsMap \in {<<>>} \cup [DOMAIN script.exports -> [bc : Nat, len : Nat]]
  /\ pc \notin {"ReadTables", "Failed"} =>
       /\ exportsMap \in [DOMAIN script.exports -> [bc : Nat, len : Nat]]
       /\ \A i \in DOMAIN script.exports :
            /\ exportsMap[i].bc = script.exports[i].address
            /\ exportsMap[i].bc + exportsMap[i].len <= script.size
            /\ exportsMap[i].bc + 1 <= script.size

\* An offset that has not been visited is the one compiled.
PendingInv ==
  /\ \A k \in DOMAIN script.imports : \A j \in DOMAIN script.imports[k].offsets :
       pc \in Early \/ (pc = "DevImports" /\ <<k, j>> \in todo) =>
         imports[k].offsets[j] = script.imports[k].offsets[j]
  /\ \A k \in DOMAIN script.devStrings : \A j \in DOMAIN script.devStrings[k] :
       pc \in Early \cup {"DevImports"} \/ (pc = "DevStrings" /\ <<k, j>> \in todo) =>
         devStrings[k][j] = script.devStrings[k][j]

AddressInv ==
  \A i \in DOMAIN script.exports :
    pc \in Unmoved \/ (pc = "Trampolines" /\ <<i, 0>> \in todo) => ~Moved(i)

SlotOf(loc, o) ==
  /\ loc \in Slots(Operand(o.floc, o.len, o.delta), o.len)
  /\ Killable(script, o.floc, o.len, o.delta)

FreeInv ==
  /\ \A s \in free : \E o \in DevOps(script) : SlotOf(s[1], o) /\ s = <<s[1], o.id>> /\ s[1] # junk
  /\ junk = 0 => free = {}

MovedInv ==
  \A i \in DOMAIN script.exports : Moved(i) =>
    /\ Lands(mem, exports[i].address, script.exports[i].address)
    /\ exports[i].address # junk
    /\ \E o \in DevOps(script) : SlotOf(exports[i].address, o)
    /\ \A s \in free : s[1] # exports[i].address
    /\ \A j \in DOMAIN script.exports :
         Moved(j) /\ exports[j].address = exports[i].address => j = i

Rest == DataInv /\ LoadInv /\ PendingInv /\ AddressInv /\ FreeInv /\ MovedInv /\ LiveCodeIntact

IInv == VisitInv /\ Rest

-----------------------------------------------------------------------------
(* How a step moves along the passes.                                      *)

\* Every pass but the last is followed by a pass.
LEMMA NextPassIsPass ==
  ASSUME NEW p \in Passes
  PROVE  NextPass[p] \in Passes \cup {"Done"}
BY DEF Passes, NextPass

\* A step visits part of the work of its pass, enters a pass with all of its work, or fails.
LEMMA ProgressStep ==
  ASSUME [Next]_vars
  PROVE  /\ script' = script /\ opt' = opt
         /\ \/ pc' = pc /\ todo' \subseteq todo
            \/ pc' = "Failed" /\ todo' = {}
            \/ pc' \in Passes \cup {"Done"} /\ todo' = Work(pc')
<1>1. CASE ReadTables  BY <1>1 DEF ReadTables, Fail, Passes
<1>2. CASE EndPass  BY <1>2, NextPassIsPass DEF EndPass
<1>3. CASE ApplyPrivateTexts  BY <1>3 DEF ApplyPrivateTexts, Visit, Fail
<1>4. ASSUME NEW i \in DOMAIN script.exports,
             RemoveLocalVariables(i) \/ KillPrivateExport(i) \/ CreateTrampoline(i)
             \/ ComputeChecksum(i)
      PROVE  /\ script' = script /\ opt' = opt
             /\ (pc' = pc /\ todo' \subseteq todo) \/ (pc' = "Failed" /\ todo' = {})
  <2>1. CASE RemoveLocalVariables(i)  BY <2>1 DEF RemoveLocalVariables, Visit, Fail
  <2>2. CASE KillPrivateExport(i)  BY <2>2 DEF KillPrivateExport, Visit
  <2>3. CASE CreateTrampoline(i)  BY <2>3 DEF CreateTrampoline, Visit
  <2>4. CASE ComputeChecksum(i)  BY <2>4 DEF ComputeChecksum, Visit
  <2> QED  BY <1>4, <2>1, <2>2, <2>3, <2>4
<1>5. ASSUME NEW h \in DOMAIN opt.hashes, ApplyPrivateHash(h)
      PROVE  script' = script /\ opt' = opt /\ pc' = pc /\ todo' \subseteq todo
  BY <1>5 DEF ApplyPrivateHash, Visit
<1>6. ASSUME NEW x \in todo, KillDevImport(x[1], x[2]) \/ KillDevString(x[1], x[2])
      PROVE  /\ script' = script /\ opt' = opt
             /\ (pc' = pc /\ todo' \subseteq todo) \/ (pc' = "Failed" /\ todo' = {})
  BY <1>6 DEF KillDevImport, KillDevString, Visit, Fail
<1>7. CASE UNCHANGED vars  BY <1>7 DEF vars
<1> QED  BY <1>1, <1>2, <1>3, <1>4, <1>5, <1>6, <1>7 DEF Next, Terminated

\* The script and the options never change, and a pass only visits its own work.
LEMMA VisitStep ==
  ASSUME VisitInv, [Next]_vars
  PROVE  VisitInv'
<1>1. Work(pc)' = Work(pc')  BY ProgressStep DEF Work
<1>2. Work("Failed") = {}  BY DEF Work
<1> QED  BY <1>1, <1>2, ProgressStep DEF VisitInv

-----------------------------------------------------------------------------
(* What is visited exists.                                                 *)

\* KillDevImports visits entries and offsets of dev imports only.
LEMMA WorkImport ==
  ASSUME NEW x \in Work("DevImports")
  PROVE  /\ x = <<x[1], x[2]>> /\ x[1] \in DOMAIN script.imports /\ script.imports[x[1]].dev
         /\ x[2] \in 0 .. Len(script.imports[x[1]].offsets)
<1> DEFINE offsets == [k \in DOMAIN script.imports |-> script.imports[k].offsets]
<1>1. /\ x \in UNION {{k} \X (0 .. Len(offsets[k])) : k \in DOMAIN offsets}
      /\ script.imports[x[1]].dev
  BY DEF Work
<1>2. PICK k \in DOMAIN offsets : x \in {k} \X (0 .. Len(offsets[k]))  BY <1>1
<1> QED  BY <1>1, <1>2

\* KillDevStrings visits entries and offsets of the dev string table only.
LEMMA WorkString ==
  ASSUME NEW x \in Work("DevStrings")
  PROVE  /\ x = <<x[1], x[2]>> /\ x[1] \in DOMAIN script.devStrings
         /\ x[2] \in 0 .. Len(script.devStrings[x[1]])
BY DEF Work

-----------------------------------------------------------------------------
(* Writing to an image.                                                    *)

\* Planting a two byte opcode changes these two bytes.
LEMMA PlantFacts ==
  ASSUME NEW n \in Nat, NEW m \in [0 .. n - 1 -> Cells], NEW at \in Int,
         NEW tag \in {"dead", "beef"}
  PROVE  /\ Write(m, at, 2, tag, 0) \in [0 .. n - 1 -> Cells]
         /\ \A p \in 0 .. n - 1 : p \notin at .. at + 1 => Write(m, at, 2, tag, 0)[p] = m[p]
<1>1. \A p \in 0 .. n - 1 : <<tag, 0, p - at>> \in Cells  BY DEF Cells
<1> QED  BY <1>1 DEF Write

\* Killing a dev op writes outside live code and frees only slots of its own.
LEMMA KillOp ==
  ASSUME script \in Scripts, script' = script, DataInv, FreeInv, LiveCodeIntact,
         NEW o \in DevOps(script), KillDevByteCodeOp(o.id, o.floc, o.len, o.delta)
  PROVE  /\ mem' \in [0 .. script.size - 1 -> Cells]
         /\ junk' \in Nat
         /\ Redirected(o.floc, o.len, o.delta) \in Nat
         /\ FreeInv'
         /\ LiveCodeIntact'
<1> DEFINE bc == Operand(o.floc, o.len, o.delta)
<1>1. /\ o.floc \in Nat /\ o.len \in {4, 8} /\ o.delta \in {0, 1}
      /\ bc \in Nat /\ o.floc + o.delta <= bc
  BY DevOpFacts
<1>2. IsScript(script) /\ WellFormed(script)  BY ScriptsAssumption DEF IsScript
<1>3. CASE ~Killable(script, o.floc, o.len, o.delta)
  <2>1. UNCHANGED <<mem, free, junk>>  BY <1>3 DEF KillDevByteCodeOp
  <2>2. FreeInv'  BY <2>1 DEF FreeInv, SlotOf
  <2> QED  BY <1>1, <1>3, <2>1, <2>2 DEF DataInv, Redirected, LiveCodeIntact
<1>4. CASE Killable(script, o.floc, o.len, o.delta)
  <2> DEFINE next == Aligned(bc + o.len, 2)
             m1 == Write(mem, o.floc - 2, 2, "dead", 0)
  <2>1. /\ junk' = Well(bc)
        /\ free' = free \cup {<<loc, o.id>> : loc \in Slots(bc, o.len) \ {junk'}}
        /\ mem' = Write(m1, next, 2, "beef", 0)
    BY <1>4 DEF KillDevByteCodeOp
  <2>2. next \in Nat
    <3>1. bc + o.len \in Nat  BY <1>1
    <3> QED  BY <3>1, AlignedBounds
  <2>3. script.size \in Nat  BY <1>2 DEF IsScript
  <2>4. mem \in [0 .. script.size - 1 -> Cells] /\ junk \in Nat  BY DEF DataInv
  <2>5. o.floc - 2 \in Int  BY <1>1
  <2> HIDE DEF next
  <2>6. /\ m1 \in [0 .. script.size - 1 -> Cells]
        /\ \A p \in 0 .. script.size - 1 : p \notin o.floc - 2 .. o.floc - 1 => m1[p] = mem[p]
    <3> DEFINE at == o.floc - 2
    <3>1. at \in Int /\ at + 1 = o.floc - 1  BY <1>1
    <3> HIDE DEF at
    <3>2. /\ Write(mem, at, 2, "dead", 0) \in [0 .. script.size - 1 -> Cells]
          /\ \A p \in 0 .. script.size - 1 :
               p \notin at .. at + 1 => Write(mem, at, 2, "dead", 0)[p] = mem[p]
      BY <2>3, <2>4, <3>1, PlantFacts
    <3> QED  BY <3>1, <3>2 DEF at
  <2> HIDE DEF m1
  <2>7. /\ mem' \in [0 .. script.size - 1 -> Cells]
        /\ \A p \in 0 .. script.size - 1 : p \notin next .. next + 1 => mem'[p] = m1[p]
    <3>1. next \in Int  BY <2>2
    <3> QED  BY <2>1, <2>3, <2>6, <3>1, PlantFacts
  <2>8. LiveCodeIntact'
    <3>1. OpcodeBytes(o) = (o.floc - 2 .. o.floc - 1) \cup (next .. next + 1)
      BY DEF OpcodeBytes, next
    <3>2. OpcodeBytes(o) \cap script.live = {} /\ script.live \subseteq 0 .. script.size - 1
      BY <1>2 DEF WellFormed
    <3>3. \A p \in script.live : mem'[p] = mem[p]  BY <2>6, <2>7, <3>1, <3>2
    <3> QED  BY <3>3 DEF LiveCodeIntact
  <2>9. junk' \in Nat /\ junk' # 0 /\ (junk # 0 => junk' = junk)
    <3>1. bc # 0  BY <1>1, <1>4 DEF Killable
    <3> QED  BY <1>1, <2>1, <2>4, <3>1 DEF Well
  <2>10. FreeInv'
    <3>1. ASSUME NEW s \in free'
          PROVE  \E op \in DevOps(script) :
                   SlotOf(s[1], op) /\ s = <<s[1], op.id>> /\ s[1] # junk'
      <4>1. CASE s \in free  BY <4>1, <2>9 DEF FreeInv
      <4>2. CASE s \notin free
        <5>1. PICK loc \in Slots(bc, o.len) \ {junk'} : s = <<loc, o.id>>  BY <2>1, <4>2, <3>1
        <5> QED  BY <5>1, <1>4 DEF SlotOf
      <4> QED  BY <4>1, <4>2
    <3> QED  BY <3>1, <2>9 DEF FreeInv, SlotOf
  <2> QED  BY <1>4, <2>7, <2>8, <2>9, <2>10 DEF Redirected
<1> QED  BY <1>3, <1>4

-----------------------------------------------------------------------------
(* What a step keeps when it leaves the state of a part alone.             *)

Within == (pc' = pc /\ todo' \subseteq todo) \/ pc' = "Failed"

\* Offsets not visited yet stay as compiled when a step leaves both tables alone.
LEMMA KeepPending ==
  ASSUME PendingInv, script' = script, devStrings' = devStrings, Within,
         \A k \in DOMAIN script.imports : imports'[k].offsets = imports[k].offsets
  PROVE  PendingInv'
BY DEF PendingInv, Within, Early

\* Entries not visited yet stay as compiled when no address is written.
LEMMA KeepAddress ==
  ASSUME AddressInv, script' = script, Within, pc' = "Failed" => pc \in Unmoved,
         \A i \in DOMAIN script.exports : exports'[i].address = exports[i].address
  PROVE  AddressInv'
BY DEF AddressInv, Within, Moved, Unmoved, Early

\* Before CreateTrampolines no export has a trampoline.
LEMMA UnmovedFacts ==
  ASSUME AddressInv, pc \in Unmoved
  PROVE  MovedInv
BY DEF AddressInv, MovedInv

\* The free slots stay slots of their ops when none is added.
LEMMA KeepFree ==
  ASSUME FreeInv, script' = script, free' = free, junk' = junk
  PROVE  FreeInv'
BY DEF FreeInv, SlotOf

\* What ReadTables cached stays as it was found.
LEMMA KeepLoad ==
  ASSUME LoadInv, script' = script, exportsMap' = exportsMap, Within
  PROVE  LoadInv'
BY DEF LoadInv, Within

\* Trampolines stay in place when neither the image nor an address is written.
LEMMA KeepMoved ==
  ASSUME MovedInv, script' = script, mem' = mem, free' = free, junk' = junk,
         \A i \in DOMAIN script.exports : exports'[i].address = exports[i].address
  PROVE  MovedInv'
<1>1. \A loc, o : SlotOf(loc, o)' = SlotOf(loc, o)  BY DEF SlotOf
<1> QED  BY <1>1 DEF MovedInv, Moved, Lands

-----------------------------------------------------------------------------
(* Each action preserves the parts of the invariant it can disturb.        *)

\* A size found by its checksum lies in the script.
LEMMA FoundSize ==
  ASSUME NEW m, NEW bc \in Nat, NEW size \in Nat, NEW crc, bc <= size
  PROVE  /\ FindExportSizeByCrc(m, bc, size, crc) \in Nat
         /\ bc + FindExportSizeByCrc(m, bc, size, crc) <= size
<1> DEFINE lens == {n \in 1 .. size - bc : CRC(m, bc, n) = crc}
<1>1. CASE lens = {}  BY <1>1 DEF FindExportSizeByCrc
<1>2. CASE lens # {}
  <2>1. FindExportSizeByCrc(m, bc, size, crc) \in lens  BY <1>2 DEF FindExportSizeByCrc
  <2> QED  BY <2>1
<1> QED  BY <1>1, <1>2

\* ReadTables caches entries and sizes that lie in the script and writes nothing.
LEMMA ReadTablesStep ==
  ASSUME VisitInv, Rest, ReadTables
  PROVE  Rest'
<1>1. /\ UNCHANGED <<script, mem, exports, imports, devStrings, free, junk, privateCount>>
      /\ pc = "ReadTables" /\ pc' \in {"Locals", "Failed"}
  BY DEF ReadTables, Fail, tables
<1>2. DataInv' /\ LiveCodeIntact'  BY <1>1 DEF Rest, DataInv, LiveCodeIntact
<1>3. PendingInv'  BY <1>1 DEF Rest, PendingInv, Early
<1>4. AddressInv'  BY <1>1 DEF Rest, AddressInv, Moved, Unmoved, Early
<1>5. FreeInv' /\ MovedInv'  BY <1>1, KeepFree, KeepMoved DEF Rest
<1>6. LoadInv'
  <2>1. CASE pc' = "Failed"  BY <1>1, <2>1 DEF Rest, LoadInv, ReadTables
  <2>2. CASE pc' = "Locals"
    <3>1. /\ \A i \in DOMAIN exports : EntryFits(script, i)
          /\ exportsMap' = [i \in DOMAIN exports |->
               [bc |-> exports[i].address,
                len |-> FindExportSizeByCrc(mem, exports[i].address, script.size,
                                            exports[i].checksum)]]
      BY <2>2 DEF ReadTables, Fail
    <3>2. DOMAIN exports = DOMAIN script.exports  BY DEF Rest, DataInv
    <3>3. script.size \in Nat  BY ScriptsAssumption DEF VisitInv, IsScript
    <3>4. ASSUME NEW i \in DOMAIN script.exports
          PROVE  /\ exports[i].address = script.exports[i].address
                 /\ exports[i].address \in Nat /\ exports[i].address + 1 <= script.size
      <4>1. exports[i].address = script.exports[i].address
        BY <1>1 DEF Rest, AddressInv, Moved, Unmoved, Early
      <4>2. exports[i].address \in Nat  BY <3>2 DEF Rest, DataInv
      <4>3. Aligned(exports[i].address, 2) + 4 <= script.size  BY <3>1, <3>2, <4>1 DEF EntryFits
      <4>4. /\ Aligned(exports[i].address, 2) \in Nat
            /\ exports[i].address <= Aligned(exports[i].address, 2)
        BY <4>2, AlignedBounds
      <4> QED  BY <3>3, <4>1, <4>2, <4>3, <4>4
    <3>5. ASSUME NEW i \in DOMAIN script.exports
          PROVE  LET n == FindExportSizeByCrc(mem, exports[i].address, script.size,
                                              exports[i].checksum)
                 IN  n \in Nat /\ exports[i].address + n <= script.size
      BY <3>3, <3>4, FoundSize
    <3> QED  BY <1>1, <3>1, <3>2, <3>4, <3>5 DEF LoadInv
  <2> QED  BY <1>1, <2>1, <2>2
<1> QED  BY <1>2, <1>3, <1>4, <1>5, <1>6 DEF Rest

\* Going on to the next pass of RunTasks writes nothing.
LEMMA EndPassStep ==
  ASSUME VisitInv, Rest, EndPass
  PROVE  Rest'
<1>1. /\ UNCHANGED <<script, mem, exports, imports, devStrings, exportsMap, free, junk, privateCount>>
      /\ pc \in Passes /\ todo = {} /\ pc' = NextPass[pc]
  BY DEF EndPass, tables
<1>2. DataInv' /\ LiveCodeIntact'  BY <1>1 DEF Rest, DataInv, LiveCodeIntact
<1>3. PendingInv'  BY <1>1 DEF Rest, PendingInv, Early, Passes, NextPass
<1>4. AddressInv'  BY <1>1 DEF Rest, AddressInv, Moved, Unmoved, Early, Passes, NextPass
<1>5. FreeInv' /\ MovedInv'  BY <1>1, KeepFree, KeepMoved DEF Rest
<1>6. LoadInv'  BY <1>1 DEF Rest, LoadInv, Passes, NextPass
<1> QED  BY <1>2, <1>3, <1>4, <1>5, <1>6 DEF Rest

\* ApplyPrivateStrings and ApplyPrivateScripts leave what the invariant speaks of alone.
LEMMA TextsStep ==
  ASSUME VisitInv, Rest, ApplyPrivateTexts
  PROVE  Rest'
<1>1. /\ UNCHANGED <<script, mem, exports, imports, devStrings, exportsMap, free, junk, privateCount>>
      /\ Within /\ pc = "Texts"
  BY DEF ApplyPrivateTexts, Visit, Fail, tables, Within
<1>2. DataInv' /\ LiveCodeIntact'  BY <1>1 DEF Rest, DataInv, LiveCodeIntact
<1>3. AddressInv'  BY <1>1, KeepAddress DEF Rest, Unmoved, Early
<1>4. PendingInv' /\ FreeInv' /\ MovedInv' /\ LoadInv'
  BY <1>1, KeepPending, KeepFree, KeepMoved, KeepLoad DEF Rest
<1> QED  BY <1>2, <1>3, <1>4 DEF Rest

\* RemoveLocalVariables writes to names of parameters, never to live code.
LEMMA LocalsStep ==
  ASSUME VisitInv, Rest, NEW i \in DOMAIN script.exports, RemoveLocalVariables(i)
  PROVE  Rest'
<1>1. /\ UNCHANGED <<script, exports, imports, devStrings, exportsMap, free, junk, privateCount>>
      /\ Within /\ pc = "Locals"
  BY DEF RemoveLocalVariables, Visit, Fail, tables, Within
<1>2. AddressInv'  BY <1>1, KeepAddress DEF Rest, Unmoved, Early
<1>3. PendingInv' /\ FreeInv' /\ LoadInv'  BY <1>1, KeepPending, KeepFree, KeepLoad DEF Rest
<1>4. MovedInv'
  <2>1. pc' \in Unmoved  BY <1>1 DEF Within, Unmoved, Early
  <2> QED  BY <1>2, <2>1 DEF AddressInv, MovedInv
<1>5. DataInv' /\ LiveCodeIntact'
  <2>1. CASE mem' = mem  BY <1>1, <2>1 DEF Rest, DataInv, LiveCodeIntact
  <2>2. CASE mem' # mem
    <3> DEFINE params == script.exports[i].params
               named == {j \in DOMAIN params : ~params[j]}
               at(j) == NameAt(exportsMap[i].bc, j)
               name(p) == CHOOSE j \in named : p \in at(j) .. at(j) + 3
    <3>1. mem' = [p \in DOMAIN mem |->
                IF \E j \in named : p \in at(j) .. at(j) + 3
                THEN <<"word", name(p), p - at(name(p))>>
                ELSE mem[p]]
      BY <2>2 DEF RemoveLocalVariables
    <3>2. IsScript(script) /\ WellFormed(script)  BY ScriptsAssumption DEF VisitInv, IsScript
    <3>3. exportsMap[i].bc = script.exports[i].address /\ exportsMap[i].bc \in Nat
      BY <1>1 DEF Rest, LoadInv
    <3>4. params \in Seq(BOOLEAN)
      <4>1. script.exports \in Seq(ExportType)  BY <3>2 DEF IsScript
      <4>2. script.exports[i] \in ExportType  BY <4>1
      <4> QED  BY <4>2 DEF ExportType
    <3>5. \A j \in named : j \in Nat  BY <3>4
    <3>6. \A j \in named : at(j) \in Int
      <4>1. Aligned(exportsMap[i].bc, 2) + 3 \in Nat  BY <3>3, AlignedBounds
      <4>2. Aligned(Aligned(exportsMap[i].bc, 2) + 3, 4) \in Nat  BY <4>1, AlignedBounds
      <4> QED  BY <3>5, <4>2 DEF NameAt
    <3>7. \A p : (\E j \in named : p \in at(j) .. at(j) + 3) =>
                 name(p) \in named /\ p \in at(name(p)) .. at(name(p)) + 3
      OBVIOUS
    <3>8. \A j \in named : (at(j) .. at(j) + 3) \cap script.live = {}
      BY <3>2, <3>3 DEF WellFormed
    <3>9. mem \in [0 .. script.size - 1 -> Cells]  BY DEF Rest, DataInv
    <3> HIDE DEF named, at, name
    <3>10. mem' \in [0 .. script.size - 1 -> Cells]
      <4>1. ASSUME NEW p \in 0 .. script.size - 1
            PROVE  mem'[p] \in Cells
        <5>1. CASE \E j \in named : p \in at(j) .. at(j) + 3
          <6>1. name(p) \in Int /\ at(name(p)) \in Int  BY <3>5, <3>6, <3>7, <5>1
          <6>2. mem'[p] = <<"word", name(p), p - at(name(p))>>  BY <3>1, <3>9, <5>1
          <6> QED  BY <6>1, <6>2 DEF Cells
        <5>2. CASE ~\E j \in named : p \in at(j) .. at(j) + 3  BY <3>1, <3>9, <5>2
        <5> QED  BY <5>1, <5>2
      <4> QED  BY <3>1, <3>9, <4>1
    <3>11. LiveCodeIntact'
      <4>1. script.live \subseteq 0 .. script.size - 1  BY <3>2 DEF WellFormed
      <4>2. \A p \in script.live : mem'[p] = mem[p]  BY <3>1, <3>8, <3>9, <4>1
      <4> QED  BY <1>1, <4>2 DEF Rest, LiveCodeIntact
    <3> QED  BY <1>1, <3>10, <3>11 DEF Rest, DataInv
  <2> QED  BY <2>1, <2>2
<1> QED  BY <1>2, <1>3, <1>4, <1>5 DEF Rest

\* KillPrivateExports renames and moves nothing.
LEMMA PrivatesStep ==
  ASSUME VisitInv, Rest, NEW i \in DOMAIN script.exports, KillPrivateExport(i)
  PROVE  Rest'
<1>1. /\ UNCHANGED <<script, mem, devStrings, exportsMap, free, junk>>
      /\ Within /\ pc = "Privates" /\ pc' = pc /\ privateCount' = privateCount + 1
      /\ exports' = [exports EXCEPT ![i].name = privateCount']
      /\ imports' = [k \in DOMAIN imports |->
           IF ImportKey(script, k) = ExportKey(script, i)
           THEN [imports[k] EXCEPT !.name = privateCount'] ELSE imports[k]]
  BY DEF KillPrivateExport, Visit, Within
<1>2. DataInv  BY DEF Rest
<1>3. privateCount' \in Nat  BY <1>1, <1>2 DEF DataInv
<1>4. /\ exports' \in [DOMAIN script.exports ->
           [address : Nat, name_space : Nat, name : Nat, checksum : Seq(Cells)]]
      /\ \A e \in DOMAIN script.exports : exports'[e].address = exports[e].address
  BY <1>1, <1>2, <1>3 DEF DataInv
<1>5. /\ imports' \in [DOMAIN script.imports ->
           [import_namespace : Nat, name : Nat, offsets : Seq(Nat)]]
      /\ \A k \in DOMAIN script.imports : imports'[k].offsets = imports[k].offsets
  BY <1>1, <1>2, <1>3 DEF DataInv
<1>6. DataInv' /\ LiveCodeIntact'
  BY <1>1, <1>2, <1>3, <1>4, <1>5 DEF Rest, DataInv, LiveCodeIntact
<1>7. AddressInv' /\ PendingInv' /\ FreeInv' /\ MovedInv' /\ LoadInv'
  BY <1>1, <1>4, <1>5, KeepAddress, KeepPending, KeepFree, KeepMoved, KeepLoad DEF Rest
<1> QED  BY <1>6, <1>7 DEF Rest

\* ApplyPrivateHashes writes over identifiers, never over live code.
LEMMA HashesStep ==
  ASSUME VisitInv, Rest, NEW h \in DOMAIN opt.hashes, ApplyPrivateHash(h)
  PROVE  Rest'
<1> DEFINE val == opt.hashes[h]
           renamed(n) == IF n = h THEN val ELSE n
<1>1. /\ UNCHANGED <<script, devStrings, exportsMap, free, junk, privateCount>>
      /\ Within /\ pc = "Hashes" /\ pc' = pc
      /\ mem' = Replace(mem, h, val)
      /\ exports' = [i \in DOMAIN exports |->
           [exports[i] EXCEPT !.name = renamed(@), !.name_space = renamed(@)]]
      /\ imports' = [k \in DOMAIN imports |->
           [imports[k] EXCEPT !.name = renamed(@), !.import_namespace = renamed(@)]]
  BY DEF ApplyPrivateHash, Visit, Within
<1>2. DataInv  BY DEF Rest
<1>3. val \in Nat  BY OptionsAssumption DEF VisitInv, IsOption
<1> HIDE DEF val
<1>4. \A n \in Nat : renamed(n) \in Nat  BY <1>3
<1> HIDE DEF renamed
<1>5. /\ exports' \in [DOMAIN script.exports ->
           [address : Nat, name_space : Nat, name : Nat, checksum : Seq(Cells)]]
      /\ \A i \in DOMAIN script.exports : exports'[i].address = exports[i].address
  BY <1>1, <1>2, <1>4 DEF DataInv
<1>6. /\ imports' \in [DOMAIN script.imports ->
           [import_namespace : Nat, name : Nat, offsets : Seq(Nat)]]
      /\ \A k \in DOMAIN script.imports : imports'[k].offsets = imports[k].offsets
  BY <1>1, <1>2, <1>4 DEF DataInv
<1>7. mem \in [0 .. script.size - 1 -> Cells]  BY <1>2 DEF DataInv
<1>8. mem' \in [0 .. script.size - 1 -> Cells]
  <2>1. ASSUME NEW p \in 0 .. script.size - 1
        PROVE  mem'[p] \in Cells
    <3>1. mem[p] \in Cells  BY <1>7
    <3>2. mem[p][3] \in Int  BY <3>1 DEF Cells
    <3>3. <<"word", val, mem[p][3]>> \in Cells  BY <1>3, <3>2 DEF Cells
    <3> QED  BY <1>1, <1>7, <3>1, <3>3 DEF Replace
  <2> QED  BY <1>1, <1>7, <2>1 DEF Replace
<1>9. LiveCodeIntact'
  <2>1. script.live \subseteq 0 .. script.size - 1
    BY ScriptsAssumption DEF VisitInv, IsScript, WellFormed
  <2>2. ASSUME NEW p \in script.live
        PROVE  mem'[p] = <<"code", p, 0>>
    <3>1. mem[p] = <<"code", p, 0>>  BY DEF Rest, LiveCodeIntact
    <3>2. mem[p][1] # "word"  BY <3>1
    <3> QED  BY <1>1, <1>7, <2>1, <3>1, <3>2 DEF Replace
  <2> QED  BY <1>1, <2>2 DEF LiveCodeIntact
<1>10. DataInv'  BY <1>1, <1>2, <1>5, <1>6, <1>8 DEF DataInv
<1>11. AddressInv' /\ PendingInv' /\ FreeInv' /\ LoadInv'
  BY <1>1, <1>5, <1>6, KeepAddress, KeepPending, KeepFree, KeepLoad DEF Rest
<1>12. MovedInv'  BY <1>1, <1>11 DEF AddressInv, MovedInv, Unmoved, Early
<1> QED  BY <1>9, <1>10, <1>11, <1>12 DEF Rest

\* Changing one item of a sequence of numbers leaves one.
LEMMA ExceptNat ==
  ASSUME NEW seq \in Seq(Nat), NEW j, NEW v \in Nat
  PROVE  [seq EXCEPT ![j] = v] \in Seq(Nat)
<1>1. PICK n \in Nat : seq \in [1 .. n -> Nat]  BY SeqDef
<1>2. [seq EXCEPT ![j] = v] \in [1 .. n -> Nat]  BY <1>1
<1> QED  BY <1>2, SeqDef

\* KillDevImports kills the op of the compiled offset, not of a redirected one.
LEMMA DevImportStep ==
  ASSUME VisitInv, Rest, NEW x \in todo, KillDevImport(x[1], x[2])
  PROVE  Rest'
<1> DEFINE k == x[1]
           j == x[2]
           floc == imports[k].offsets[j]
           delta == Delta(script, k)
<1>1. /\ UNCHANGED <<script, exports, devStrings, exportsMap, privateCount>>
      /\ Within /\ pc = "DevImports" /\ pc' = pc /\ todo' = todo \ {<<k, j>>}
  BY DEF KillDevImport, Visit, Within
<1>2. /\ x = <<k, j>> /\ k \in DOMAIN script.imports /\ script.imports[k].dev
      /\ j \in 0 .. Len(script.imports[k].offsets)
  <2>1. x \in Work("DevImports")  BY <1>1 DEF VisitInv
  <2> QED  BY <2>1, WorkImport
<1>3. DataInv /\ script \in Scripts  BY DEF Rest, VisitInv
<1>4. AddressInv' /\ LoadInv'  BY <1>1, KeepAddress, KeepLoad DEF Rest
<1>5. MovedInv'  BY <1>1, <1>4 DEF AddressInv, MovedInv, Unmoved, Early
<1>6. CASE j = 0 /\ imports' = [imports EXCEPT ![k].name = AssertHash] /\ UNCHANGED <<mem, free, junk>>
  <2>1. /\ imports' \in [DOMAIN script.imports ->
             [import_namespace : Nat, name : Nat, offsets : Seq(Nat)]]
        /\ \A m \in DOMAIN script.imports : imports'[m].offsets = imports[m].offsets
    BY <1>2, <1>3, <1>6, AssertHashAssumption DEF DataInv
  <2>2. DataInv' /\ LiveCodeIntact'  BY <1>1, <1>3, <1>6, <2>1 DEF DataInv, Rest, LiveCodeIntact
  <2>3. PendingInv' /\ FreeInv'  BY <1>1, <1>6, <2>1, KeepPending, KeepFree DEF Rest
  <2> QED  BY <1>4, <1>5, <2>2, <2>3 DEF Rest
<1>7. CASE /\ j > 0
           /\ KillDevByteCodeOp(<<"import", k, j>>, floc, 8, delta)
           /\ imports' = [imports EXCEPT ![k].offsets[j] = Redirected(@, 8, delta)]
  <2> DEFINE o == DevCall(script, k, j)
             new == Redirected(floc, 8, delta)
  <2>1. script.imports[k].offsets \in Seq(Nat)
    <3>1. script.imports \in Seq(ImportType)  BY <1>3, ScriptsAssumption DEF IsScript
    <3>2. script.imports[k] \in ImportType  BY <1>2, <3>1
    <3> QED  BY <3>2 DEF ImportType
  <2>2. j \in DOMAIN script.imports[k].offsets  BY <1>2, <1>7, <2>1
  <2>3. floc = script.imports[k].offsets[j]
    <3>1. <<k, j>> \in todo  BY <1>2
    <3> QED  BY <1>1, <1>2, <2>2, <3>1 DEF Rest, PendingInv
  <2>4. o \in DevOps(script)  BY <1>2, <2>2 DEF DevOps, DevCalls
  <2>5. o.id = <<"import", k, j>> /\ o.floc = floc /\ o.len = 8 /\ o.delta = delta
    BY <2>3 DEF DevCall
  <2> HIDE DEF o, floc, delta
  <2>6. KillDevByteCodeOp(o.id, o.floc, o.len, o.delta)  BY <1>7, <2>5
  <2>7. /\ mem' \in [0 .. script.size - 1 -> Cells] /\ junk' \in Nat
        /\ new \in Nat /\ FreeInv' /\ LiveCodeIntact'
    BY <1>1, <1>3, <2>4, <2>5, <2>6, KillOp DEF Rest
  <2> HIDE DEF new
  <2>8. imports' = [imports EXCEPT ![k].offsets[j] = new]  BY <1>7 DEF new, floc
  <2>9. imports[k].offsets \in Seq(Nat) /\ imports[k] \in [import_namespace : Nat, name : Nat, offsets : Seq(Nat)]
    BY <1>2, <1>3 DEF DataInv
  <2>10. [imports[k].offsets EXCEPT ![j] = new] \in Seq(Nat)
    BY <2>7, <2>9, ExceptNat
  <2>11. imports' = [imports EXCEPT ![k] = [imports[k] EXCEPT !.offsets = [imports[k].offsets EXCEPT ![j] = new]]]
    BY <2>8
  <2>12. imports' \in [DOMAIN script.imports ->
             [import_namespace : Nat, name : Nat, offsets : Seq(Nat)]]
    BY <1>3, <2>9, <2>10, <2>11 DEF DataInv
  <2>13. \A m, n : <<m, n>> # <<k, j>> /\ m \in DOMAIN script.imports =>
           imports'[m].offsets[n] = imports[m].offsets[n]
    <3> SUFFICES ASSUME NEW m \in DOMAIN script.imports, NEW n, <<m, n>> # <<k, j>>
                 PROVE  imports'[m].offsets[n] = imports[m].offsets[n]
      OBVIOUS
    <3>1. CASE m # k  BY <3>1, <1>3, <2>11 DEF DataInv
    <3>2. CASE m = k /\ n # j
      <4>1. imports'[k].offsets = [imports[k].offsets EXCEPT ![j] = new]
        BY <1>2, <1>3, <2>9, <2>11 DEF DataInv
      <4> QED  BY <3>2, <4>1
    <3> QED  BY <3>1, <3>2
  <2>14. PendingInv'
    <3>1. ASSUME NEW m \in DOMAIN script.imports, NEW n \in DOMAIN script.imports[m].offsets,
                 <<m, n>> \in todo'
          PROVE  imports'[m].offsets[n] = script.imports[m].offsets[n]
      BY <1>1, <2>13, <3>1 DEF Rest, PendingInv
    <3> QED  BY <1>1, <3>1 DEF Rest, PendingInv, Early
  <2>15. DataInv'  BY <1>1, <1>3, <2>7, <2>12 DEF DataInv
  <2> QED  BY <1>4, <1>5, <2>7, <2>14, <2>15 DEF Rest
<1> QED  BY <1>6, <1>7 DEF KillDevImport

\* KillDevStrings kills the op of the compiled offset, not of a redirected one.
LEMMA DevStringStep ==
  ASSUME VisitInv, Rest, NEW x \in todo, KillDevString(x[1], x[2])
  PROVE  Rest'
<1> DEFINE k == x[1]
           j == x[2]
           floc == devStrings[k][j]
<1>1. /\ UNCHANGED <<script, exports, imports, exportsMap, privateCount>>
      /\ Within /\ pc = "DevStrings"
  BY DEF KillDevString, Visit, Within, Fail
<1>2. /\ x = <<k, j>> /\ k \in DOMAIN script.devStrings
      /\ j \in 0 .. Len(script.devStrings[k])
  <2>1. x \in Work("DevStrings")  BY <1>1 DEF VisitInv
  <2> QED  BY <2>1, WorkString
<1>3. DataInv /\ script \in Scripts  BY DEF Rest, VisitInv
<1>4. AddressInv' /\ LoadInv'
  <2>1. "DevStrings" \in Unmoved  BY DEF Unmoved
  <2> QED  BY <1>1, <2>1, KeepAddress, KeepLoad DEF Rest
<1>5. MovedInv'  BY <1>1, <1>4 DEF AddressInv, MovedInv, Unmoved, Within
<1>6. CASE UNCHANGED <<mem, devStrings, free, junk>>
  <2>1. DataInv' /\ LiveCodeIntact'  BY <1>1, <1>3, <1>6 DEF DataInv, Rest, LiveCodeIntact
  <2>2. PendingInv' /\ FreeInv'  BY <1>1, <1>6, KeepPending, KeepFree DEF Rest
  <2> QED  BY <1>4, <1>5, <2>1, <2>2 DEF Rest
<1>7. CASE /\ j > 0 /\ pc' = pc /\ todo' = todo \ {<<k, j>>}
           /\ KillDevByteCodeOp(<<"string", k, j>>, floc, 4, 0)
           /\ devStrings' = IF \A y \in todo' : y[1] # k
                            THEN [devStrings EXCEPT ![k] = <<>>]
                            ELSE [devStrings EXCEPT ![k][j] = Redirected(@, 4, 0)]
  <2> DEFINE o == DevStringUse(script, k, j)
             new == Redirected(floc, 4, 0)
             seq == IF \A y \in todo' : y[1] # k THEN <<>> ELSE [devStrings[k] EXCEPT ![j] = new]
  <2>1. script.devStrings[k] \in Seq(Nat)
    BY <1>2, <1>3, ScriptsAssumption DEF IsScript
  <2>2. j \in DOMAIN script.devStrings[k]  BY <1>2, <1>7, <2>1
  <2>3. floc = script.devStrings[k][j]
    <3>1. <<k, j>> \in todo  BY <1>2
    <3> QED  BY <1>1, <1>2, <2>2, <3>1 DEF Rest, PendingInv
  <2>4. o \in DevOps(script)  BY <1>2, <2>2 DEF DevOps, DevStringUses
  <2>5. o.id = <<"string", k, j>> /\ o.floc = floc /\ o.len = 4 /\ o.delta = 0
    BY <2>3 DEF DevStringUse
  <2> HIDE DEF o, floc
  <2>6. KillDevByteCodeOp(o.id, o.floc, o.len, o.delta)  BY <1>7, <2>5
  <2>7. /\ mem' \in [0 .. script.size - 1 -> Cells] /\ junk' \in Nat
        /\ new \in Nat /\ FreeInv' /\ LiveCodeIntact'
    BY <1>1, <1>3, <2>4, <2>5, <2>6, KillOp DEF Rest
  <2>8. devStrings' = [devStrings EXCEPT ![k] = seq]  BY <1>7 DEF floc
  <2> HIDE DEF new
  <2>9. devStrings[k] \in Seq(Nat)  BY <1>2, <1>3 DEF DataInv
  <2>10. seq \in Seq(Nat)
    <3>1. [devStrings[k] EXCEPT ![j] = new] \in Seq(Nat)  BY <2>7, <2>9, ExceptNat
    <3> QED  BY <3>1
  <2>11. DataInv'  BY <1>1, <1>2, <1>3, <2>7, <2>8, <2>10 DEF DataInv
  <2>12. ASSUME NEW m \in DOMAIN script.devStrings, NEW n \in DOMAIN script.devStrings[m],
                <<m, n>> \in todo'
         PROVE  devStrings'[m][n] = script.devStrings[m][n]
    <3>1. devStrings[m][n] = script.devStrings[m][n] /\ <<m, n>> # <<k, j>>
      BY <1>1, <1>7, <2>12 DEF Rest, PendingInv
    <3>2. CASE m # k  BY <1>3, <2>8, <3>1, <3>2 DEF DataInv
    <3>3. CASE m = k
      <4>1. n # j /\ ~\A y \in todo' : y[1] # k  BY <2>12, <3>1, <3>3
      <4>2. seq[n] = devStrings[k][n]  BY <4>1
      <4>3. devStrings'[k] = seq  BY <1>2, <1>3, <2>8 DEF DataInv
      <4> QED  BY <3>1, <3>3, <4>2, <4>3
    <3> QED  BY <3>2, <3>3
  <2>13. PendingInv'  BY <1>1, <1>7, <2>12 DEF PendingInv, Early
  <2> QED  BY <1>4, <1>5, <2>7, <2>11, <2>13 DEF Rest
<1> QED  BY <1>6, <1>7 DEF KillDevString, Visit

\* ComputeChecksums writes to the checksums of the export table only.
LEMMA ChecksumStep ==
  ASSUME VisitInv, Rest, NEW i \in DOMAIN script.exports, ComputeChecksum(i)
  PROVE  Rest'
<1> DEFINE data == exportsMap[i]
           n == IF opt.recomputeCRC THEN data.len ELSE 1
           crc == CRC(mem, data.bc, n)
<1>1. /\ UNCHANGED <<script, mem, imports, devStrings, exportsMap, free, junk, privateCount>>
      /\ Within /\ pc = "Checksums" /\ pc' = pc
      /\ exports' = exports \/ exports' = [exports EXCEPT ![i].checksum = crc]
  BY DEF ComputeChecksum, Visit, Within
<1>2. DataInv  BY DEF Rest
<1>3. crc \in Seq(Cells)
  <2>1. data.bc \in Nat /\ data.len \in Nat /\ n \in Nat /\ data.bc + n <= script.size
    BY <1>1 DEF Rest, LoadInv
  <2>2. mem \in [0 .. script.size - 1 -> Cells]  BY <1>2 DEF DataInv
  <2>3. script.size \in Nat  BY ScriptsAssumption DEF VisitInv, IsScript
  <2> HIDE DEF data, n
  <2>4. \A p \in 1 .. n : data.bc + p - 1 \in 0 .. script.size - 1  BY <2>1, <2>3
  <2>5. crc \in [1 .. n -> Cells]  BY <2>2, <2>4 DEF CRC
  <2> QED  BY <2>1, <2>5, SeqDef
<1> HIDE DEF crc
<1>4. /\ exports' \in [DOMAIN script.exports ->
           [address : Nat, name_space : Nat, name : Nat, checksum : Seq(Cells)]]
      /\ \A e \in DOMAIN script.exports : exports'[e].address = exports[e].address
  BY <1>1, <1>2, <1>3 DEF DataInv
<1>5. DataInv' /\ LiveCodeIntact'  BY <1>1, <1>2, <1>4 DEF Rest, DataInv, LiveCodeIntact
<1>6. AddressInv' /\ PendingInv' /\ FreeInv' /\ MovedInv' /\ LoadInv'
  BY <1>1, <1>4, KeepAddress, KeepPending, KeepFree, KeepMoved, KeepLoad DEF Rest
<1> QED  BY <1>5, <1>6 DEF Rest

\* A displacement in reach is stored as it is.
LEMMA ToInt16Exact ==
  ASSUME NEW d \in -(MaxJump + 1) .. MaxJump
  PROVE  ToInt16(d) = d
<1> DEFINE m == MaxJump + 1
           e == d + m
<1>1. m \in Nat /\ m > 0 /\ e \in Int /\ 0 <= e /\ e < 2 * m  BY MaxJumpAssumption
<1> HIDE DEF m, e
<1>2. e % (2 * m) = e  BY <1>1
<1>3. d + MaxJump + 1 = e /\ d = e - m  BY MaxJumpAssumption DEF e, m
<1> QED  BY <1>2, <1>3 DEF ToInt16, m

\* The bytes of a slot are bytes of the script.
LEMMA SlotInScript ==
  ASSUME script \in Scripts, NEW o \in DevOps(script), NEW loc, SlotOf(loc, o)
  PROVE  loc \in Nat /\ loc .. loc + 3 \subseteq 0 .. script.size - 1
<1> DEFINE bc == Operand(o.floc, o.len, o.delta)
           end == bc + o.len
<1>1. loc \in Nat /\ loc .. loc + 3 \subseteq OperandBytes(o)  BY SlotInOperand DEF SlotOf
<1>2. bc \in Nat /\ o.len \in {4, 8}  BY DevOpFacts
<1>3. script.size \in Nat  BY ScriptsAssumption DEF IsScript
<1>4. end \in Nat  BY <1>2
<1>5. ~(Aligned(end, 2) + 2 > script.size)  BY DEF SlotOf, Killable
<1> HIDE DEF end
<1>6. Aligned(end, 2) \in Nat /\ end <= Aligned(end, 2)  BY <1>4, AlignedBounds
<1>7. end <= script.size  BY <1>3, <1>4, <1>5, <1>6
<1>8. OperandBytes(o) = bc .. end - 1
  <2>1. bc + (o.len - 1) = (bc + o.len) - 1  BY <1>2
  <2> QED  BY <2>1 DEF OperandBytes, end
<1> HIDE DEF bc
<1>9. bc .. end - 1 \subseteq 0 .. script.size - 1  BY <1>2, <1>3, <1>4, <1>7
<1> QED  BY <1>1, <1>8, <1>9

(***************************************************************************)
(* A trampoline is written to bytes that neither live code nor an earlier  *)
(* trampoline uses, because free slots lie apart.                          *)
(***************************************************************************)
LEMMA NewTrampoline ==
  ASSUME VisitInv, Rest, NEW i \in DOMAIN script.exports, <<i, 0>> \in todo, pc = "Trampolines",
         todo' = todo \ {<<i, 0>>}, pc' = pc,
         NEW slot \in free, InReach(slot[1], exports[i].address),
         free' = free \ {slot},
         mem' = Write(mem, slot[1], 4, "jump", ToInt16(JumpDelta(slot[1], exports[i].address))),
         exports' = [exports EXCEPT ![i].address = slot[1]],
         UNCHANGED <<script, imports, devStrings, exportsMap, junk, privateCount>>
  PROVE  Rest'
<1> DEFINE loc == slot[1]
           dest == script.exports[i].address
           d == dest - (loc + 4)
<1>1. DataInv /\ script \in Scripts  BY DEF Rest, VisitInv
<1>2. IsScript(script) /\ WellFormed(script)  BY <1>1, ScriptsAssumption DEF IsScript
<1>3. exports[i].address = dest /\ dest \in Nat
  <2>1. ~Moved(i)  BY DEF Rest, AddressInv
  <2> QED  BY <2>1, <1>1 DEF Moved, DataInv
<1>4. PICK o \in DevOps(script) : SlotOf(loc, o) /\ slot = <<loc, o.id>> /\ loc # junk
  BY DEF Rest, FreeInv
<1>5. loc \in Nat /\ loc .. loc + 3 \subseteq 0 .. script.size - 1
  BY <1>1, <1>4, SlotInScript
<1>6. loc .. loc + 3 \subseteq OperandBytes(o)  BY <1>1, <1>4, SlotInOperand DEF SlotOf
<1>7. d \in Int /\ ToInt16(JumpDelta(loc, exports[i].address)) = d
  <2>1. d \in -(MaxJump + 1) .. MaxJump  BY <1>3 DEF InReach, JumpDelta
  <2> QED  BY <1>3, <1>5, <2>1, ToInt16Exact DEF JumpDelta
<1> HIDE DEF loc, d
<1>8. mem' = Write(mem, loc, 4, "jump", d) /\ exports' = [exports EXCEPT ![i].address = loc]
  BY <1>7 DEF loc
<1>9. /\ mem' \in [0 .. script.size - 1 -> Cells]
      /\ \A p \in 0 .. script.size - 1 : p \notin loc .. loc + 3 => mem'[p] = mem[p]
      /\ Holds(mem', loc, 4, "jump", d)
  <2>1. script.size \in Nat  BY <1>2 DEF IsScript
  <2>2. mem \in [0 .. script.size - 1 -> Cells]  BY <1>1 DEF DataInv
  <2>3. loc + 4 - 1 = loc + 3  BY <1>5
  <2>4. \A p \in 0 .. script.size - 1 : <<"jump", d, p - loc>> \in Cells  BY <1>5, <1>7 DEF Cells
  <2>5. /\ mem' \in [0 .. script.size - 1 -> Cells]
        /\ \A p \in 0 .. script.size - 1 : p \notin loc .. loc + 3 => mem'[p] = mem[p]
    <3>1. DOMAIN mem = 0 .. script.size - 1  BY <2>2
    <3>2. mem' = [p \in 0 .. script.size - 1 |->
                   IF p \in loc .. loc + 3 THEN <<"jump", d, p - loc>> ELSE mem[p]]
      BY <1>8, <2>3, <3>1 DEF Write
    <3> QED  BY <2>2, <2>4, <3>2
  <2>6. \A p \in loc .. loc + 3 : p \in DOMAIN mem' /\ mem'[p] = <<"jump", d, p - loc>>
    BY <1>5, <1>8, <2>2, <2>3 DEF Write
  <2> QED  BY <2>3, <2>5, <2>6 DEF Holds
<1>10. /\ exports' \in [DOMAIN script.exports ->
            [address : Nat, name_space : Nat, name : Nat, checksum : Seq(Cells)]]
       /\ exports'[i].address = loc
       /\ \A e \in DOMAIN script.exports : e # i => exports'[e].address = exports[e].address
  BY <1>1, <1>5, <1>8 DEF DataInv
<1>11. DataInv'  BY <1>1, <1>9, <1>10 DEF DataInv
<1>12. LoadInv' /\ PendingInv'
  <2>1. Within  BY DEF Within
  <2> QED  BY <2>1, KeepLoad, KeepPending DEF Rest
<1>13. AddressInv'
  <2>1. ASSUME NEW e \in DOMAIN script.exports, <<e, 0>> \in todo'
        PROVE  exports'[e].address = script.exports[e].address
    <3>1. e # i /\ ~Moved(e)  BY <2>1 DEF Rest, AddressInv
    <3> QED  BY <1>10, <3>1 DEF Moved
  <2> QED  BY <2>1 DEF AddressInv, Moved, Unmoved, Early
<1>14. FreeInv'  BY DEF Rest, FreeInv, SlotOf
<1>15. LiveCodeIntact'
  <2>1. OperandBytes(o) \cap script.live = {} /\ script.live \subseteq 0 .. script.size - 1
    BY <1>2, <1>4 DEF WellFormed
  <2> QED  BY <1>6, <1>9, <2>1 DEF Rest, LiveCodeIntact
<1>16. MovedInv'
  <2>1. \A s \in free' : s \in free /\ s[1] # loc
    <3> SUFFICES ASSUME NEW s \in free', s[1] = loc PROVE FALSE  OBVIOUS
    <3>1. s \in free /\ s # slot  OBVIOUS
    <3>2. PICK op \in DevOps(script) : SlotOf(loc, op) /\ s = <<loc, op.id>>
      BY <3>1 DEF Rest, FreeInv
    <3>3. op = o
      <4>1. (loc .. loc + 3) \cap (loc .. loc + 3) # {}  BY <1>5
      <4> QED  BY <1>1, <1>4, <3>2, <4>1, SlotsApart DEF SlotOf
    <3> QED  BY <1>4, <3>1, <3>2, <3>3
  <2>2. \A e \in DOMAIN script.exports : Moved(e) => exports[e].address # loc
    BY DEF Rest, MovedInv, loc
  <2>3. \A a, op : SlotOf(a, op)' = SlotOf(a, op)  BY DEF SlotOf
  <2>4. ASSUME NEW e \in DOMAIN script.exports, e # i, Moved(e)
        PROVE  Lands(mem', exports[e].address, script.exports[e].address)
    <3> DEFINE a == exports[e].address
    <3>1. PICK op \in DevOps(script) : SlotOf(a, op)  BY <2>4 DEF Rest, MovedInv
    <3>2. a \in Nat /\ a .. a + 3 \subseteq 0 .. script.size - 1  BY <1>1, <3>1, SlotInScript
    <3>3. (a .. a + 3) \cap (loc .. loc + 3) = {}
      BY <1>1, <1>4, <2>2, <2>4, <3>1, SlotsApart DEF SlotOf
    <3>4. Lands(mem, a, script.exports[e].address)  BY <2>4 DEF Rest, MovedInv
    <3>5. DOMAIN mem = DOMAIN mem'  BY <1>1, <1>9 DEF DataInv
    <3> HIDE DEF a
    <3>6. a + 4 - 1 = a + 3  BY <3>2
    <3>7. \A p \in a .. a + 3 : mem'[p] = mem[p]  BY <1>9, <3>2, <3>3
    <3> QED  BY <3>4, <3>5, <3>6, <3>7 DEF Lands, Holds, a
  <2>5. \A e \in DOMAIN script.exports : e # i => Moved(e)' = Moved(e)  BY <1>10 DEF Moved
  <2>6. ASSUME NEW e \in DOMAIN script.exports, Moved(e)'
        PROVE  /\ Lands(mem', exports'[e].address, script.exports[e].address)
               /\ exports'[e].address # junk
               /\ \E op \in DevOps(script) : SlotOf(exports'[e].address, op)
               /\ \A s \in free' : s[1] # exports'[e].address
               /\ \A f \in DOMAIN script.exports :
                    Moved(f)' /\ exports'[f].address = exports'[e].address => f = e
    <3>1. CASE e = i
      <4>1. Lands(mem', loc, dest)  BY <1>9 DEF Lands, d
      <4> QED  BY <1>4, <1>10, <2>1, <2>2, <2>5, <3>1, <4>1
    <3>2. CASE e # i
      <4>1. Moved(e) /\ exports'[e].address = exports[e].address  BY <1>10, <2>5, <2>6, <3>2
      <4>2. /\ exports[e].address # junk
            /\ \E op \in DevOps(script) : SlotOf(exports[e].address, op)
            /\ \A s \in free' : s[1] # exports[e].address
        BY <2>1, <4>1 DEF Rest, MovedInv
      <4>3. \A f \in DOMAIN script.exports :
              Moved(f)' /\ exports'[f].address = exports[e].address => f = e
        <5>1. exports[e].address # loc  BY <2>2, <4>1
        <5> QED  BY <1>10, <2>5, <4>1, <5>1 DEF Rest, MovedInv
      <4> QED  BY <2>4, <3>2, <4>1, <4>2, <4>3
    <3> QED  BY <3>1, <3>2
  <2> QED  BY <2>3, <2>6 DEF MovedInv
<1> QED  BY <1>11, <1>12, <1>13, <1>14, <1>15, <1>16 DEF Rest

\* CreateTrampolines keeps the invariant whether or not it finds a slot.
LEMMA TrampolinesStep ==
  ASSUME VisitInv, Rest, NEW i \in DOMAIN script.exports, CreateTrampoline(i)
  PROVE  Rest'
<1>1. /\ UNCHANGED <<script, imports, devStrings, exportsMap, junk, privateCount>>
      /\ pc = "Trampolines" /\ pc' = pc /\ todo' \subseteq todo /\ <<i, 0>> \in todo
  BY DEF CreateTrampoline, Visit
<1>2. CASE UNCHANGED <<mem, exports, free>>
  <2>1. Within  BY <1>1 DEF Within
  <2>2. DataInv' /\ LiveCodeIntact'  BY <1>1, <1>2 DEF Rest, DataInv, LiveCodeIntact
  <2>3. AddressInv' /\ PendingInv' /\ FreeInv' /\ MovedInv' /\ LoadInv'
    BY <1>1, <1>2, <2>1, KeepAddress, KeepPending, KeepFree, KeepMoved, KeepLoad DEF Rest
  <2> QED  BY <2>2, <2>3 DEF Rest
<1>3. CASE /\ todo' = todo \ {<<i, 0>>}
           /\ \E slot \in free :
                /\ InReach(slot[1], exports[i].address)
                /\ free' = free \ {slot}
                /\ mem' = Write(mem, slot[1], 4, "jump",
                                ToInt16(JumpDelta(slot[1], exports[i].address)))
                /\ exports' = [exports EXCEPT ![i].address = slot[1]]
  BY <1>1, <1>3, NewTrampoline
<1>4. UNCHANGED <<mem, exports, free>> \/
      /\ todo' = todo \ {<<i, 0>>}
      /\ \E slot \in free :
           /\ InReach(slot[1], exports[i].address)
           /\ free' = free \ {slot}
           /\ mem' = Write(mem, slot[1], 4, "jump",
                           ToInt16(JumpDelta(slot[1], exports[i].address)))
           /\ exports' = [exports EXCEPT ![i].address = slot[1]]
  BY DEF CreateTrampoline, Visit, Erase
<1> QED  BY <1>2, <1>3, <1>4

\* Every step keeps the invariant.
LEMMA RestStep ==
  ASSUME VisitInv, Rest, [Next]_vars
  PROVE  Rest'
<1>1. CASE ReadTables  BY <1>1, ReadTablesStep
<1>2. CASE EndPass  BY <1>2, EndPassStep
<1>3. CASE ApplyPrivateTexts  BY <1>3, TextsStep
<1>4. CASE \E i \in DOMAIN script.exports :
             \/ RemoveLocalVariables(i) \/ KillPrivateExport(i)
             \/ CreateTrampoline(i) \/ ComputeChecksum(i)
  BY <1>4, LocalsStep, PrivatesStep, TrampolinesStep, ChecksumStep
<1>5. CASE \E h \in DOMAIN opt.hashes : ApplyPrivateHash(h)  BY <1>5, HashesStep
<1>6. CASE \E x \in todo : KillDevImport(x[1], x[2]) \/ KillDevString(x[1], x[2])
  BY <1>6, DevImportStep, DevStringStep
<1>7. CASE UNCHANGED vars
  <2>1. /\ UNCHANGED <<script, mem, exports, imports, devStrings, exportsMap, free, junk, privateCount>>
        /\ pc' = pc /\ todo' = todo
    BY <1>7 DEF vars, tables
  <2>2. Within  BY <2>1 DEF Within
  <2>3. DataInv' /\ LiveCodeIntact'  BY <2>1 DEF Rest, DataInv, LiveCodeIntact
  <2>4. AddressInv'  BY <2>1 DEF Rest, AddressInv, Moved
  <2>5. PendingInv' /\ FreeInv' /\ MovedInv' /\ LoadInv'
    BY <2>1, <2>2, KeepPending, KeepFree, KeepMoved, KeepLoad DEF Rest
  <2> QED  BY <2>3, <2>4, <2>5 DEF Rest
<1> QED  BY <1>1, <1>2, <1>3, <1>4, <1>5, <1>6, <1>7 DEF Next, Terminated

\* The invariant holds of a script as it was compiled.
LEMMA InitRest ==
  ASSUME Init
  PROVE  VisitInv /\ Rest
<1>1. IsScript(script) /\ WellFormed(script)  BY ScriptsAssumption DEF Init, IsScript
<1>2. script.size \in Nat  BY <1>1 DEF IsScript
<1> DEFINE start == [i \in DOMAIN script.exports |-> script.exports[i].address]
<1>3. \A i \in DOMAIN script.exports : script.exports[i] \in ExportType
  <2>1. script.exports \in Seq(ExportType)  BY <1>1 DEF IsScript
  <2> QED  BY <2>1
<1>4. \A k \in DOMAIN script.imports : script.imports[k] \in ImportType
  <2>1. script.imports \in Seq(ImportType)  BY <1>1 DEF IsScript
  <2> QED  BY <2>1
<1>5. Image(script) \in [0 .. script.size - 1 -> Cells]
  <2>1. ASSUME NEW p \in 0 .. script.size - 1
        PROVE  Image(script)[p] \in Cells
    <3>1. CASE p \in WordBytes(script)
      <4> DEFINE w == CHOOSE w \in DOMAIN script.words : p \in w .. w + 3
      <4>1. w \in DOMAIN script.words  BY <3>1 DEF WordBytes
      <4>2. w \in Nat /\ script.words[w] \in Nat  BY <1>1, <4>1 DEF IsScript
      <4>3. Image(script)[p] = <<"word", script.words[w], p - w>>  BY <3>1 DEF Image
      <4> HIDE DEF w
      <4> QED  BY <4>2, <4>3 DEF Cells
    <3>2. CASE p \notin WordBytes(script)  BY <3>2 DEF Image, Cells
    <3> QED  BY <3>1, <3>2
  <2> QED  BY <2>1 DEF Image
<1>6. \A i \in DOMAIN script.exports :
        CRC(Image(script), script.exports[i].address, script.exports[i].len) \in Seq(Cells)
  <2> SUFFICES ASSUME NEW i \in DOMAIN script.exports
               PROVE  CRC(Image(script), script.exports[i].address, script.exports[i].len) \in Seq(Cells)
    OBVIOUS
  <2> DEFINE bc == script.exports[i].address
             n == script.exports[i].len
  <2>1. bc \in Nat /\ n \in Nat  BY <1>3 DEF ExportType
  <2>2. n > 0 => bc + n <= script.size  BY <1>1 DEF WellFormed
  <2> HIDE DEF bc, n
  <2>3. \A p \in 1 .. n : bc + p - 1 \in 0 .. script.size - 1  BY <1>2, <2>1, <2>2
  <2>4. CRC(Image(script), bc, n) \in [1 .. n -> Cells]  BY <1>5, <2>3 DEF CRC
  <2>5. CRC(Image(script), bc, n) \in Seq(Cells)  BY <2>1, <2>4, SeqDef
  <2> QED  BY <2>5 DEF bc, n
<1>7. VisitInv  BY DEF Init, VisitInv
<1>8. exports \in [DOMAIN script.exports ->
             [address : Nat, name_space : Nat, name : Nat, checksum : Seq(Cells)]]
  BY <1>3, <1>6 DEF Init, ExportType
<1>9. imports \in [DOMAIN script.imports -> [import_namespace : Nat, name : Nat, offsets : Seq(Nat)]]
  BY <1>4 DEF Init, ImportType
<1>10. devStrings \in [DOMAIN script.devStrings -> Seq(Nat)]
  <2>1. script.devStrings \in Seq(Seq(Nat))  BY <1>1 DEF IsScript
  <2>2. script.devStrings \in [DOMAIN script.devStrings -> Seq(Nat)]  BY <2>1
  <2> QED  BY <2>2 DEF Init
<1>11. DataInv  BY <1>5, <1>8, <1>9, <1>10 DEF Init, DataInv
<1>12. AddressInv  BY DEF Init, AddressInv, Moved
<1>13. LoadInv /\ FreeInv  BY DEF Init, LoadInv, FreeInv
<1>14. PendingInv  BY DEF Init, PendingInv
<1>15. MovedInv  BY DEF Init, MovedInv, Moved
<1>16. LiveCodeIntact
  <2>1. script.live \subseteq 0 .. script.size - 1 /\ script.live \cap WordBytes(script) = {}
    BY <1>1 DEF WellFormed
  <2> QED  BY <2>1 DEF Init, LiveCodeIntact, Image
<1> QED  BY <1>7, <1>11, <1>12, <1>13, <1>14, <1>15, <1>16 DEF Rest

(***************************************************************************)
(* The inductive invariant: it holds when a script has been loaded and     *)
(* every pass of RunTasks keeps it, on every script and with every option. *)
(***************************************************************************)
THEOREM Invariance == Spec => []IInv
<1>1. Init => IInv  BY InitRest DEF IInv
<1>2. IInv /\ [Next]_vars => IInv'  BY VisitStep, RestStep DEF IInv
<1> QED  BY <1>1, <1>2, PTL DEF Spec

-----------------------------------------------------------------------------
(* What follows for every behaviour.                                       *)

\* The work of every pass is a set of pairs of numbers.
LEMMA WorkPairs ==
  ASSUME script \in Scripts, opt \in Options, NEW pass
  PROVE  Work(pass) \subseteq Nat \X Nat
<1>1. IsScript(script) /\ IsOption(opt)  BY ScriptsAssumption, OptionsAssumption
<1>2. /\ DOMAIN script.exports \subseteq Nat /\ DOMAIN script.imports \subseteq Nat
      /\ DOMAIN script.devStrings \subseteq Nat /\ DOMAIN opt.hashes \subseteq Nat
  BY <1>1 DEF IsScript, IsOption
<1>3. CASE pass = "DevImports"
  <2>1. ASSUME NEW x \in Work("DevImports")
        PROVE  x \in Nat \X Nat
    <3>1. /\ x = <<x[1], x[2]>> /\ x[1] \in Nat
          /\ x[2] \in 0 .. Len(script.imports[x[1]].offsets)
      BY <1>2, <2>1, WorkImport
    <3> QED  BY <3>1
  <2> QED  BY <1>3, <2>1
<1>4. CASE pass = "DevStrings"
  <2>1. ASSUME NEW x \in Work("DevStrings")
        PROVE  x \in Nat \X Nat
    <3>1. /\ x = <<x[1], x[2]>> /\ x[1] \in Nat
          /\ x[2] \in 0 .. Len(script.devStrings[x[1]])
      BY <1>2, <2>1, WorkString
    <3> QED  BY <3>1
  <2> QED  BY <1>4, <2>1
<1>5. CASE pass \notin {"DevImports", "DevStrings"}  BY <1>2, <1>5 DEF Work
<1> QED  BY <1>3, <1>4, <1>5

(***************************************************************************)
(* Types are kept for every script and option, and free slots are always   *)
(* bytes of the dev op they were taken from.                               *)
(***************************************************************************)
THEOREM TypeCorrect == Spec => []TypeOK
<1>1. IInv => TypeOK
  <2> SUFFICES ASSUME IInv PROVE TypeOK  OBVIOUS
  <2>1. VisitInv /\ Rest  BY DEF IInv
  <2>2. todo \in SUBSET (Nat \X Nat)  BY <2>1, WorkPairs DEF VisitInv
  <2>3. free \subseteq UNION {OperandBytes(o) \X {o.id} : o \in DevOps(script)}
    <3> SUFFICES ASSUME NEW s \in free
                 PROVE  \E o \in DevOps(script) : s \in OperandBytes(o) \X {o.id}
      OBVIOUS
    <3>1. PICK o \in DevOps(script) : SlotOf(s[1], o) /\ s = <<s[1], o.id>>
      BY <2>1 DEF Rest, FreeInv
    <3>2. s[1] \in OperandBytes(o)
      <4>1. s[1] \in Nat /\ s[1] .. s[1] + 3 \subseteq OperandBytes(o)
        BY <2>1, <3>1, SlotInOperand DEF VisitInv, SlotOf
      <4> QED  BY <4>1
    <3> QED  BY <3>1, <3>2
  <2> QED  BY <2>1, <2>2, <2>3 DEF TypeOK, VisitInv, Rest, DataInv, LoadInv
<1> QED  BY <1>1, Invariance, PTL

(***************************************************************************)
(* Whatever the script, the options, the order of the maps and the width   *)
(* of jumps, every export still leads to the function it was compiled to.  *)
(***************************************************************************)
THEOREM EntriesPreserved == Spec => []EntryPreserved
<1>1. IInv => EntryPreserved
  BY DEF IInv, Rest, MovedInv, DataInv, EntryPreserved
<1> QED  BY <1>1, Invariance, PTL

\* No pass ever writes to code that runs outside dev blocks.
THEOREM LiveCodeKept == Spec => []LiveCodeIntact
<1>1. IInv => LiveCodeIntact  BY DEF IInv, Rest
<1> QED  BY <1>1, Invariance, PTL

\* Free slots, the junk location and the trampolines in use never coincide.
THEOREM SlotsAreExclusive == Spec => []SlotsExclusive
<1>1. IInv => SlotsExclusive
  <2> SUFFICES ASSUME IInv PROVE SlotsExclusive  OBVIOUS
  <2>1. VisitInv /\ FreeInv /\ MovedInv /\ DataInv  BY DEF IInv, Rest
  <2>2. \A s, t \in free : s[1] = t[1] => s = t
    <3> SUFFICES ASSUME NEW s \in free, NEW t \in free, s[1] = t[1] PROVE s = t  OBVIOUS
    <3>1. PICK o1 \in DevOps(script) : SlotOf(s[1], o1) /\ s = <<s[1], o1.id>>
      BY <2>1 DEF FreeInv
    <3>2. PICK o2 \in DevOps(script) : SlotOf(t[1], o2) /\ t = <<t[1], o2.id>>
      BY <2>1 DEF FreeInv
    <3>3. s[1] \in Nat  BY <2>1, <3>1, SlotInOperand DEF VisitInv, SlotOf
    <3>4. (s[1] .. s[1] + 3) \cap (t[1] .. t[1] + 3) # {}  BY <3>3
    <3>5. o1 = o2  BY <2>1, <3>1, <3>2, <3>4, SlotsApart DEF VisitInv, SlotOf
    <3> QED  BY <3>1, <3>2, <3>5
  <2>3. \A s \in free : s[1] # junk  BY <2>1 DEF FreeInv
  <2> QED  BY <2>1, <2>2, <2>3 DEF SlotsExclusive, MovedInv, DataInv
<1> QED  BY <1>1, Invariance, PTL

\* No step moves an export that has a trampoline.
LEMMA AddressStep ==
  ASSUME IInv, [Next]_vars, NEW i \in DOMAIN script.exports, Moved(i)
  PROVE  exports'[i].address = exports[i].address
<1>1. DataInv /\ AddressInv  BY DEF IInv, Rest
<1>2. CASE \E k \in DOMAIN script.exports : KillPrivateExport(k)
  BY <1>1, <1>2 DEF KillPrivateExport, Visit, AddressInv, Unmoved, Early
<1>3. CASE \E k \in DOMAIN script.exports : ComputeChecksum(k)
  BY <1>1, <1>3 DEF ComputeChecksum, DataInv
<1>4. CASE \E h \in DOMAIN opt.hashes : ApplyPrivateHash(h)
  BY <1>1, <1>4 DEF ApplyPrivateHash, Visit, AddressInv, Unmoved, Early
<1>5. ASSUME NEW k \in DOMAIN script.exports, CreateTrampoline(k)
      PROVE  exports'[i].address = exports[i].address
  <2>1. ~Moved(k)  BY <1>1, <1>5 DEF CreateTrampoline, Visit, AddressInv
  <2>2. exports' = exports \/ \E a : exports' = [exports EXCEPT ![k].address = a]
    BY <1>5 DEF CreateTrampoline
  <2> QED  BY <1>1, <2>1, <2>2 DEF DataInv
<1>6. CASE exports' = exports  BY <1>6
<1>7. ReadTables \/ EndPass \/ ApplyPrivateTexts \/ UNCHANGED vars => exports' = exports
  BY DEF ReadTables, EndPass, ApplyPrivateTexts, vars, tables
<1>8. \A k \in DOMAIN script.exports : RemoveLocalVariables(k) => exports' = exports
  BY DEF RemoveLocalVariables, tables
<1>9. \A x \in todo : KillDevImport(x[1], x[2]) \/ KillDevString(x[1], x[2]) => exports' = exports
  BY DEF KillDevImport, KillDevString
<1> QED  BY <1>2, <1>3, <1>4, <1>5, <1>6, <1>7, <1>8, <1>9 DEF Next, Terminated

\* A trampoline, once created, is never moved, retargeted or damaged.
THEOREM TrampolinesStable == Spec => TrampolineStable
<1> DEFINE Kept == \A i \in DOMAIN exports : Moved(i) =>
             /\ exports'[i].address = exports[i].address
             /\ \A k \in 0 .. 3 : mem'[exports[i].address + k] = mem[exports[i].address + k]
<1>1. IInv /\ IInv' /\ [Next]_vars => [Kept]_vars
  <2> SUFFICES ASSUME IInv, IInv', [Next]_vars PROVE Kept  OBVIOUS
  <2> SUFFICES ASSUME NEW i \in DOMAIN exports, Moved(i)
               PROVE  /\ exports'[i].address = exports[i].address
                      /\ \A k \in 0 .. 3 :
                           mem'[exports[i].address + k] = mem[exports[i].address + k]
    OBVIOUS
  <2> DEFINE a == exports[i].address
             d == script.exports[i].address - (a + 4)
  <2>1. i \in DOMAIN script.exports /\ a \in Nat /\ script' = script
    BY ProgressStep DEF IInv, Rest, DataInv
  <2>2. exports'[i].address = a  BY <2>1, AddressStep
  <2>3. Holds(mem, a, 4, "jump", d)  BY <2>1 DEF IInv, Rest, MovedInv, Lands
  <2>4. Holds(mem', a, 4, "jump", d)  BY <2>1, <2>2 DEF IInv, Rest, MovedInv, Lands, Moved
  <2> HIDE DEF a, d
  <2>5. \A k \in 0 .. 3 : a + k \in a .. a + 4 - 1  BY <2>1
  <2>6. \A k \in 0 .. 3 : mem'[a + k] = mem[a + k]  BY <2>3, <2>4, <2>5 DEF Holds
  <2> QED  BY <2>2, <2>6 DEF a
<1> QED  BY <1>1, Invariance, PTL DEF Spec, TrampolineStable
=============================================================================
