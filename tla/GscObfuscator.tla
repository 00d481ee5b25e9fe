---------------------------- MODULE GscObfuscator ----------------------------
(***************************************************************************)
(* The obfuscation of one compiled T7 script (gsc_obfuscator.cpp): the     *)
(* tables are read, then RunTasks applies its passes in order to the byte  *)
(* image of the script, in place.                                          *)
(*                                                                         *)
(* The image is a function from addresses to cells <<tag, value, byte>>:   *)
(*   <<"code", p, 0>>  the byte the compiler left at address p,            *)
(*   <<"word", v, k>>  byte k of the 32-bit identifier v,                  *)
(*   <<"dead", 0, k>>, <<"beef", 0, k>>  byte k of a planted opcode,       *)
(*   <<"jump", d, k>>  byte k of a jump with the 16-bit displacement d.    *)
(* The export, import and dev string tables are kept beside the image.     *)
(* Identifiers are numbers; the names the tool makes up count from 1.      *)
(***************************************************************************)
EXTENDS Integers, Sequences, FiniteSets

CONSTANTS Scripts,    \* the compiled scripts that may be given to the tool
          Options,    \* the command line options that may be given with them
          MaxJump,    \* INT16_MAX, the largest displacement of a jump
          AssertHash  \* HashT7("assert")

VARIABLES script,       \* the script as it was loaded, never written
          opt,          \* the options
          pc,           \* the pass under way
          todo,         \* what the loops of this pass have not reached yet
          mem,          \* the byte image
          exports,      \* the export table
          imports,      \* the import table
          devStrings,   \* for each dev string, the offsets that use it
          exportsMap,   \* the entry and size of each export, cached at load
          free,         \* trampolineFreeLocations, each with the op it was in
          junk,         \* junkLocation, 0 until a dev op has been killed
          privateCount  \* the last name given to a private export

tables == <<exports, imports, devStrings>>
vars == <<script, opt, pc, todo, mem, tables, exportsMap, free, junk, privateCount>>

-----------------------------------------------------------------------------
(* Addresses, words and checksums of an image.                             *)

TRAMPOLINE_SIZE == 4

Aligned(loc, size) == ((loc + size - 1) \div size) * size

\* m with the n bytes from address at holding the value val of kind tag.
Write(m, at, n, tag, val) ==
  [p \in DOMAIN m |-> IF p \in at .. at + n - 1 THEN <<tag, val, p - at>> ELSE m[p]]

Holds(m, at, n, tag, val) ==
  \A p \in at .. at + n - 1 : p \in DOMAIN m /\ m[p] = <<tag, val, p - at>>

ReplaceFirst(m, hash, val) ==
  LET at == {p \in DOMAIN m : Holds(m, p, 4, "word", hash)}
  IN  IF at = {} THEN m ELSE Write(m, CHOOSE p \in at : \A q \in at : p <= q, 4, "word", val)

\* m with every occurrence of the identifier hash replaced by val.
Replace(m, hash, val) ==
  [p \in DOMAIN m |->
     IF m[p][1] = "word" /\ Holds(m, p - m[p][3], 4, "word", hash)
     THEN <<"word", val, m[p][3]>>
     ELSE m[p]]

\* The checksum of n bytes, without collisions: the bytes themselves.
CRC(m, bc, n) == [k \in 1 .. n |-> m[bc + k - 1]]

\* The sizes are tried from 1 on; without collisions at most one has the checksum.
FindExportSizeByCrc(m, bc, size, crc) ==
  LET lens == {n \in 1 .. size - bc : CRC(m, bc, n) = crc}
  IN  IF lens = {} THEN 0 ELSE CHOOSE n \in lens : TRUE

\* A displacement as int16_t stores it.
ToInt16(d) == ((d + MaxJump + 1) % (2 * (MaxJump + 1))) - (MaxJump + 1)

-----------------------------------------------------------------------------
(* The script as it was compiled.                                          *)

WordBytes(s) == UNION {w .. w + 3 : w \in DOMAIN s.words}

Image(s) ==
  [p \in 0 .. s.size - 1 |->
     IF p \in WordBytes(s)
     THEN LET w == CHOOSE w \in DOMAIN s.words : p \in w .. w + 3
          IN  <<"word", s.words[w], p - w>>
     ELSE <<"code", p, 0>>]

ExportKey(s, i) == <<s.exports[i].name_space, s.exports[i].name>>
ImportKey(s, k) == <<s.imports[k].import_namespace, s.imports[k].name>>

\* The exports whose name and namespace are used by no other.
AnyExport(s, i) == i \in DOMAIN s.exports
Sole(s, i) == \A j \in DOMAIN s.exports : ExportKey(s, j) = ExportKey(s, i) => j = i

Delta(s, k) == IF s.imports[k].method THEN 1 ELSE 0

\* Where the name of parameter j of the function at bc is stored.
NameAt(bc, j) == Aligned(Aligned(bc, 2) + 3, 4) + 8 * (j - 1)

\* Uses of dev functions and dev strings, as KillDevByteCodeOp is given them.
DevCall(s, k, j) ==
  [id |-> <<"import", k, j>>, floc |-> s.imports[k].offsets[j], len |-> 8, delta |-> Delta(s, k)]

DevStringUse(s, k, j) ==
  [id |-> <<"string", k, j>>, floc |-> s.devStrings[k][j], len |-> 4, delta |-> 0]

DevCalls(s) ==
  UNION {{DevCall(s, k, j) : j \in DOMAIN s.imports[k].offsets} :
         k \in {i \in DOMAIN s.imports : s.imports[i].dev}}

DevStringUses(s) ==
  UNION {{DevStringUse(s, k, j) : j \in DOMAIN s.devStrings[k]} : k \in DOMAIN s.devStrings}

DevOps(s) == DevCalls(s) \cup DevStringUses(s)

Operand(floc, len, delta) == Aligned(floc + delta, len)
SlotsOneTooMany(bc, len) == {bc + TRAMPOLINE_SIZE * i : i \in 0 .. len \div TRAMPOLINE_SIZE}
Slots(bc, len) == {bc + TRAMPOLINE_SIZE * i : i \in 0 .. (len \div TRAMPOLINE_SIZE) - 1}

OperandBytes(o) ==
  LET bc == Operand(o.floc, o.len, o.delta) IN bc .. bc + o.len - 1

\* The opcode before the operand and the one after it.
OpcodeBytes(o) ==
  LET next == Aligned(Operand(o.floc, o.len, o.delta) + o.len, 2)
  IN  (o.floc - 2 .. o.floc - 1) \cup (next .. next + 1)

Killable(s, floc, len, delta) ==
  ~(floc < 2 + delta \/ Aligned(Operand(floc, len, delta) + len, 2) + 2 > s.size)

(***************************************************************************)
(* What the compiler guarantees: the operands of two dev ops do not meet,  *)
(* no function starts in one, the code that runs outside dev blocks (live) *)
(* meets neither a dev op, with the opcode before and after its operand,   *)
(* nor an identifier, nor the name of a parameter; identifiers lie in the  *)
(* script, apart from each other and outside dev ops; a checksum covers    *)
(* bytes of the script; and names are hashes, larger than the numbers the  *)
(* tool hands out.                                                         *)
(***************************************************************************)
WellFormed(s) ==
  /\ \A o1, o2 \in DevOps(s) : o1 # o2 => OperandBytes(o1) \cap OperandBytes(o2) = {}
  /\ \A o \in DevOps(s), i \in DOMAIN s.exports : s.exports[i].address \notin OperandBytes(o)
  /\ \A o \in DevOps(s) : (OpcodeBytes(o) \cup OperandBytes(o)) \cap s.live = {}
  /\ s.live \subseteq 0 .. s.size - 1
  /\ \A i \in DOMAIN s.exports :
       s.exports[i].len > 0 => s.exports[i].address + s.exports[i].len <= s.size
  /\ s.live \cap WordBytes(s) = {}
  /\ \A i \in DOMAIN s.exports : \A j \in DOMAIN s.exports[i].params :
       LET at == NameAt(s.exports[i].address, j) IN (at .. at + 3) \cap s.live = {}
  /\ \A o \in DevOps(s) : (OpcodeBytes(o) \cup OperandBytes(o)) \cap WordBytes(s) = {}
  /\ WordBytes(s) \subseteq 0 .. s.size - 1
  /\ \A v, w \in DOMAIN s.words : v # w => (v .. v + 3) \cap (w .. w + 3) = {}
  /\ \A i \in DOMAIN s.exports : \A j \in DOMAIN s.exports[i].params, w \in DOMAIN s.words :
       LET at == NameAt(s.exports[i].address, j)
       IN  w # at => (w .. w + 3) \cap (at .. at + 3) = {}
  /\ \A i \in DOMAIN s.exports : s.exports[i].name > Len(s.exports)
  /\ \A k \in DOMAIN s.imports : s.imports[k].name > Len(s.exports)

ExportType == [address : Nat, name_space : Nat, name : Nat, private : BOOLEAN,
               len : Nat, params : Seq(BOOLEAN)]
ImportType == [import_namespace : Nat, name : Nat, dev : BOOLEAN, method : BOOLEAN,
               offsets : Seq(Nat)]

IsScript(s) ==
  /\ s.size \in Nat /\ s.devStringsFit \in Nat
  /\ s.tablesFit \in BOOLEAN /\ s.textsFit \in BOOLEAN
  /\ s.exports \in Seq(ExportType)
  /\ s.imports \in Seq(ImportType)
  /\ s.devStrings \in Seq(Seq(Nat))
  /\ DOMAIN s.words \subseteq Nat /\ \A w \in DOMAIN s.words : s.words[w] \in Nat
  /\ WellFormed(s)

Identifiers(s) ==
  {s.words[w] : w \in DOMAIN s.words}
  \cup {s.exports[i].name : i \in DOMAIN s.exports}
  \cup {s.exports[i].name_space : i \in DOMAIN s.exports}
  \cup {s.imports[k].name : k \in DOMAIN s.imports}
  \cup {s.imports[k].import_namespace : k \in DOMAIN s.imports}

\* A private file gives hashes distinct numbers that nothing else uses.
IsOption(o) ==
  /\ {o.noRemoveLocals, o.noRemovePrivateExports, o.noDebugKill, o.noTrampoline,
      o.recomputeCRC} \subseteq BOOLEAN
  /\ DOMAIN o.hashes \subseteq Nat /\ \A h \in DOMAIN o.hashes : o.hashes[h] \in Nat
  /\ \A g, h \in DOMAIN o.hashes : o.hashes[g] = o.hashes[h] => g = h
  /\ \A s \in Scripts : \A h \in DOMAIN o.hashes :
       /\ h > Len(s.exports) /\ o.hashes[h] > Len(s.exports)
       /\ o.hashes[h] \notin Identifiers(s) \cup DOMAIN o.hashes

ASSUME MaxJumpAssumption == MaxJump \in Nat
ASSUME AssertHashAssumption == AssertHash \in Nat
ASSUME ScriptsAssumption == \A s \in Scripts : IsScript(s)
ASSUME OptionsAssumption == \A o \in Options : IsOption(o)
-----------------------------------------------------------------------------
(* The passes of RunTasks.                                                 *)

Passes == {"Locals", "Privates", "Texts", "Hashes", "DevImports", "DevStrings",
           "Trampolines", "Checksums"}

ChecksumsEarly ==
  [Locals |-> "Privates", Privates |-> "Texts", Texts |-> "Hashes",
   Hashes |-> "DevImports", DevImports |-> "DevStrings", DevStrings |-> "Checksums",
   Checksums |-> "Trampolines", Trampolines |-> "Done"]

NextPass ==
  [Locals |-> "Privates", Privates |-> "Texts", Texts |-> "Hashes",
   Hashes |-> "DevImports", DevImports |-> "DevStrings", DevStrings |-> "Trampolines",
   Trampolines |-> "Checksums", Checksums |-> "Done"]

(***************************************************************************)
(* What the loops of a pass visit: pairs of an entry of a table and of an  *)
(* offset in it, 0 standing for the entry itself.                          *)
(***************************************************************************)
Work(pass) ==
  LET each(table) == {<<i, 0>> : i \in DOMAIN table}
      pairs(seqs) == UNION {{i} \X (0 .. Len(seqs[i])) : i \in DOMAIN seqs}
      skip(option, work) == IF option THEN {} ELSE work
  IN  CASE pass = "Locals" -> skip(opt.noRemoveLocals, each(script.exports))
        [] pass = "Privates" ->
             skip(opt.noRemovePrivateExports,
                  {x \in each(script.exports) :
                     script.exports[x[1]].private /\ Sole(script, x[1])})
        [] pass = "Texts" -> {<<0, 0>>}
        [] pass = "Hashes" -> each(opt.hashes)
        [] pass = "DevImports" ->
             skip(opt.noDebugKill,
                  {x \in pairs([k \in DOMAIN script.imports |-> script.imports[k].offsets]) :
                     script.imports[x[1]].dev})
        [] pass = "DevStrings" -> skip(opt.noDebugKill, pairs(script.devStrings))
        [] pass = "Trampolines" -> skip(opt.noTrampoline, each(script.exports))
        [] pass = "Checksums" -> each(script.exports)
        [] OTHER -> {}

Init ==
  /\ script \in Scripts
  /\ opt \in Options
  /\ pc = "ReadTables"
  /\ todo = {}
  /\ mem = Image(script)
  /\ exports = [i \in DOMAIN script.exports |->
                  LET e == script.exports[i]
                  IN  [address |-> e.address, name_space |-> e.name_space, name |-> e.name,
                       checksum |-> CRC(Image(script), e.address, e.len)]]
  /\ imports = [k \in DOMAIN script.imports |->
                  LET m == script.imports[k]
                  IN  [import_namespace |-> m.import_namespace, name |-> m.name,
                       offsets |-> m.offsets]]
  /\ devStrings = script.devStrings
  /\ exportsMap = <<>>
  /\ free = {}
  /\ junk = 0
  /\ privateCount = 0

\* An exception leaves RunTasks; the caller drops the image.
Fail == pc' = "Failed" /\ todo' = {}

EntryStartFits(s, i) == s.exports[i].address + 2 <= s.size
EntryFits(s, i) == Aligned(s.exports[i].address, 2) + 4 <= s.size

ReadTables ==
  /\ pc = "ReadTables"
  /\ \/ /\ ~script.tablesFit \/ \E i \in DOMAIN exports : ~EntryFits(script, i)
        /\ Fail /\ UNCHANGED exportsMap
     \/ /\ script.tablesFit /\ \A i \in DOMAIN exports : EntryFits(script, i)
        /\ exportsMap' = [i \in DOMAIN exports |->
             [bc |-> exports[i].address,
              len |-> FindExportSizeByCrc(mem, exports[i].address, script.size,
                                          exports[i].checksum)]]
        /\ pc' = "Locals" /\ todo' = Work("Locals")
  /\ UNCHANGED <<script, opt, mem, tables, free, junk, privateCount>>

EndPass ==
  /\ pc \in Passes /\ todo = {}
  /\ pc' = NextPass[pc] /\ todo' = Work(NextPass[pc])
  /\ UNCHANGED <<script, opt, mem, tables, exportsMap, free, junk, privateCount>>

\* One more turn of the loops of the pass under way.
Visit(pass, x) == pc = pass /\ x \in todo /\ todo' = todo \ {x} /\ pc' = pc

ParamsStartFits(s, i) ==
  s.exports[i].params # <<>> => NameAt(s.exports[i].address, 1) <= s.size

ParamsFit(s, i) ==
  LET n == Len(s.exports[i].params)
  IN  n > 0 => NameAt(s.exports[i].address, n) + 8 <= s.size

\* The names of the parameters become 1, 2, ..., but the one of varargs.
RemoveLocalVariables(i) ==
  LET params == script.exports[i].params
      named == {j \in DOMAIN params : ~params[j]}
      at(j) == NameAt(exportsMap[i].bc, j)
  IN  /\ \/ /\ ParamsFit(script, i)
           /\ Visit("Locals", <<i, 0>>)
           /\ mem' = [p \in DOMAIN mem |->
                IF \E j \in named : p \in at(j) .. at(j) + 3
                THEN LET j == CHOOSE j \in named : p \in at(j) .. at(j) + 3
                     IN  <<"word", j, p - at(j)>>
                ELSE mem[p]]
        \/ /\ pc = "Locals" /\ <<i, 0>> \in todo /\ ~ParamsFit(script, i)
           /\ Fail /\ UNCHANGED mem
      /\ UNCHANGED <<script, opt, tables, exportsMap, free, junk, privateCount>>

\* A private export and the imports that named it get the next number.
KillPrivateExport(i) ==
  /\ Visit("Privates", <<i, 0>>)
  /\ privateCount' = privateCount + 1
  /\ exports' = [exports EXCEPT ![i].name = privateCount']
  /\ imports' = [k \in DOMAIN imports |->
       IF ImportKey(script, k) = ExportKey(script, i)
       THEN [imports[k] EXCEPT !.name = privateCount'] ELSE imports[k]]
  /\ UNCHANGED <<script, opt, mem, devStrings, exportsMap, free, junk>>

\* Strings and script names are rewritten in place, outside what is modelled here.
ApplyPrivateTexts ==
  /\ \/ script.textsFit /\ Visit("Texts", <<0, 0>>)
     \/ pc = "Texts" /\ todo # {} /\ ~script.textsFit /\ Fail
  /\ UNCHANGED <<script, opt, mem, tables, exportsMap, free, junk, privateCount>>

\* Every occurrence of a private hash, in the code and in the tables.
ApplyPrivateHash(h) ==
  LET renamed(n) == IF n = h THEN opt.hashes[h] ELSE n
  IN  /\ Visit("Hashes", <<h, 0>>)
      /\ mem' = Replace(mem, h, opt.hashes[h])
      /\ exports' = [i \in DOMAIN exports |->
           [exports[i] EXCEPT !.name = renamed(@), !.name_space = renamed(@)]]
      /\ imports' = [k \in DOMAIN imports |->
           [imports[k] EXCEPT !.name = renamed(@), !.import_namespace = renamed(@)]]
      /\ UNCHANGED <<script, opt, devStrings, exportsMap, free, junk, privateCount>>

\* The first slot of all is the well, where every killed offset is sent.
LatestWell(bc) == bc
Well(bc) == IF junk = 0 THEN bc ELSE junk

(***************************************************************************)
(* The op that uses the offset floc of a dev function or string is spoilt, *)
(* and its operand yields slots, free unless one is the well.              *)
(***************************************************************************)
KillDevByteCodeOp(id, floc, len, delta) ==
  LET bc == Operand(floc, len, delta)
  IN  IF Killable(script, floc, len, delta)
      THEN /\ junk' = Well(bc)
           /\ free' = free \cup {<<loc, id>> : loc \in Slots(bc, len) \ {junk'}}
           /\ mem' = Write(Write(mem, floc - 2, 2, "dead", 0),
                           Aligned(bc + len, 2), 2, "beef", 0)
      ELSE UNCHANGED <<mem, free, junk>>

Redirected(floc, len, delta) == IF Killable(script, floc, len, delta) THEN junk' ELSE floc

InTableOrder(x, y) == x[1] < y[1] \/ (x[1] = y[1] /\ x[2] <= y[2])

\* importsMap is walked group by group, in any order of the groups.
InMapOrder(k, j) ==
  LET group(x) == ImportKey(script, x[1])
      mine == ImportKey(script, k)
  IN  /\ \A x \in todo : group(x) = mine => InTableOrder(<<k, j>>, x)
      /\ \A x \in Work("DevImports") \ todo :
           group(x) = mine \/ \A y \in todo : group(y) # group(x)

KillDevImport(k, j) ==
  /\ Visit("DevImports", <<k, j>>)
  /\ InMapOrder(k, j)
  /\ \/ /\ j = 0
        /\ imports' = [imports EXCEPT ![k].name = AssertHash]
        /\ UNCHANGED <<mem, free, junk>>
     \/ /\ j > 0
        /\ KillDevByteCodeOp(<<"import", k, j>>, imports[k].offsets[j], 8, Delta(script, k))
        /\ imports' = [imports EXCEPT ![k].offsets[j] = Redirected(@, 8, Delta(script, k))]
  /\ UNCHANGED <<script, opt, exports, devStrings, exportsMap, privateCount>>

\* In table order; an entry is wiped when its last offset has been visited.
KillDevString(k, j) ==
  LET wiped == \A x \in todo' : x[1] # k
  IN  /\ \A x \in todo : InTableOrder(<<k, j>>, x)
      /\ \/ /\ j = 0 /\ k > script.devStringsFit
           /\ pc = "DevStrings" /\ <<k, j>> \in todo
           /\ Fail /\ UNCHANGED <<mem, devStrings, free, junk>>
        \/ /\ j = 0 /\ k <= script.devStringsFit
           /\ Visit("DevStrings", <<k, j>>)
           /\ UNCHANGED <<mem, devStrings, free, junk>>
        \/ /\ j > 0
           /\ Visit("DevStrings", <<k, j>>)
           /\ KillDevByteCodeOp(<<"string", k, j>>, devStrings[k][j], 4, 0)
           /\ devStrings' = IF wiped THEN [devStrings EXCEPT ![k] = <<>>]
                            ELSE [devStrings EXCEPT ![k][j] = Redirected(@, 4, 0)]
      /\ UNCHANGED <<script, opt, exports, imports, exportsMap, privateCount>>

\* A jump delta starts from the end of the op data.
JumpDelta(loc, dest) == dest - (loc + 4)
InReachUnsigned(loc, dest) == JumpDelta(loc, dest) \in -(MaxJump + 1) .. 2 * MaxJump + 1
InReachForward(loc, dest) == JumpDelta(loc, dest) \in 0 .. MaxJump
InReach(loc, dest) == JumpDelta(loc, dest) \in -(MaxJump + 1) .. MaxJump

NoErase(slot) == free
Erase(slot) == free \ {slot}

\* In table order: the lowest free slot in reach of the entry, or none.
CreateTrampoline(i) ==
  LET dest == exports[i].address
      near == {slot \in free : InReach(slot[1], dest)}
  IN  /\ \A x \in todo : i <= x[1]
      /\ \/ /\ free = {}
           /\ pc = "Trampolines" /\ <<i, 0>> \in todo
           /\ todo' = {} /\ UNCHANGED <<pc, mem, exports, free>>
        \/ /\ free # {} /\ near = {}
           /\ Visit("Trampolines", <<i, 0>>)
           /\ UNCHANGED <<mem, exports, free>>
        \/ /\ Visit("Trampolines", <<i, 0>>)
           /\ \E slot \in near :
                /\ \A other \in near : slot[1] <= other[1]
                /\ free' = Erase(slot)
                /\ mem' = Write(mem, slot[1], 4, "jump", ToInt16(JumpDelta(slot[1], dest)))
                /\ exports' = [exports EXCEPT ![i].address = slot[1]]
      /\ UNCHANGED <<script, opt, imports, devStrings, exportsMap, junk, privateCount>>

\* One byte, or the size found at load when checksums are recomputed.
ComputeChecksum(i) ==
  LET data == exportsMap[i]
  IN  /\ Visit("Checksums", <<i, 0>>)
      /\ exports' = IF opt.recomputeCRC /\ data.len = 0 THEN exports
           ELSE [exports EXCEPT ![i].checksum =
                   CRC(mem, data.bc, IF opt.recomputeCRC THEN data.len ELSE 1)]
      /\ UNCHANGED <<script, opt, mem, imports, devStrings, exportsMap, free, junk, privateCount>>

Terminated == pc \in {"Done", "Failed"} /\ UNCHANGED vars

Next ==
  \/ ReadTables \/ EndPass \/ ApplyPrivateTexts \/ Terminated
  \/ \E i \in DOMAIN script.exports :
       \/ RemoveLocalVariables(i) \/ KillPrivateExport(i)
       \/ CreateTrampoline(i) \/ ComputeChecksum(i)
  \/ \E h \in DOMAIN opt.hashes : ApplyPrivateHash(h)
  \/ \E x \in todo : KillDevImport(x[1], x[2]) \/ KillDevString(x[1], x[2])

Spec == Init /\ [][Next]_vars /\ WF_vars(Next)
=============================================================================
