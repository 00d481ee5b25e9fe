----------------------- MODULE GscObfuscatorProperties -----------------------
(***************************************************************************)
(* What the obfuscation of a script promises.                              *)
(***************************************************************************)
EXTENDS GscObfuscator

Cells == {"code", "word", "dead", "beef", "jump"} \X Int \X Int

\* Every variable has its type; free slots lie in operands of the ops they come from.
TypeOK ==
  /\ script \in Scripts /\ opt \in Options
  /\ pc \in Passes \cup {"ReadTables", "Done", "Failed"}
  /\ todo \in SUBSET (Nat \X Nat)
  /\ mem \in [0 .. script.size - 1 -> Cells]
  /\ exports \in [DOMAIN script.exports ->
                  [address : Nat, name_space : Nat, name : Nat, checksum : Seq(Cells)]]
  /\ imports \in [DOMAIN script.imports ->
                  [import_namespace : Nat, name : Nat, offsets : Seq(Nat)]]
  /\ devStrings \in [DOMAIN script.devStrings -> Seq(Nat)]
  /\ exportsMap \in {<<>>} \cup [DOMAIN script.exports -> [bc : Nat, len : Nat]]
  /\ free \subseteq UNION {OperandBytes(o) \X {o.id} : o \in DevOps(script)}
  /\ junk \in Nat
  /\ privateCount \in Nat

Moved(i) == exports[i].address # script.exports[i].address

\* The jump at that address leads to dest.
Lands(m, at, dest) == Holds(m, at, 4, "jump", dest - (at + 4))

(***************************************************************************)
(* Calling any export, at any moment, still starts at its own function:    *)
(* its address is the one compiled, or that of a jump to it that no later  *)
(* write has damaged and whose 16-bit displacement has not wrapped.        *)
(***************************************************************************)
EntryPreserved ==
  \A i \in DOMAIN exports :
    Moved(i) => Lands(mem, exports[i].address, script.exports[i].address)

(***************************************************************************)
(* No pass damages code that runs outside dev blocks: planted opcodes,     *)
(* slots taken for trampolines and erased names all miss it.               *)
(***************************************************************************)
LiveCodeIntact == \A p \in script.live : mem[p] = <<"code", p, 0>>

(***************************************************************************)
(* No two owners share a slot: a location is free once, is not that of a   *)
(* trampoline in use nor the junk location, and no two exports use one     *)
(* trampoline.                                                             *)
(***************************************************************************)
SlotsExclusive ==
  /\ \A s, t \in free : s[1] = t[1] => s = t
  /\ \A s \in free : s[1] # junk
  /\ \A i \in DOMAIN exports : Moved(i) =>
       /\ exports[i].address # junk
       /\ \A s \in free : s[1] # exports[i].address
       /\ \A j \in DOMAIN exports : Moved(j) /\ exports[j].address = exports[i].address => j = i

(***************************************************************************)
(* Once dev imports have been killed all their offsets lead to one and the *)
(* same location, the junk location, except for ops too close to the ends  *)
(* of the script to be killed, which keep theirs.                          *)
(***************************************************************************)
RedirectedToWell ==
  pc \in {"DevStrings", "Trampolines", "Checksums", "Done"} /\ ~opt.noDebugKill =>
    \A k \in DOMAIN imports : script.imports[k].dev =>
      \A j \in DOMAIN imports[k].offsets :
        LET floc == script.imports[k].offsets[j]
        IN  imports[k].offsets[j] = IF Killable(script, floc, 8, Delta(script, k))
                                    THEN junk ELSE floc

(***************************************************************************)
(* A call links to the same functions after any renaming as before: private*)
(* names are numbered together with the imports that use them, in whatever *)
(* order the maps are walked, and two functions of one name stay so.       *)
(***************************************************************************)
LinkPreserved ==
  \A k \in DOMAIN imports : ~script.imports[k].dev =>
    {i \in DOMAIN exports : /\ exports[i].name = imports[k].name
                            /\ exports[i].name_space = imports[k].import_namespace}
      = {i \in DOMAIN exports : ExportKey(script, i) = ImportKey(script, k)}

\* The identifiers of the code, but the names of parameters.
CodeWords ==
  {w \in DOMAIN script.words :
     \A i \in DOMAIN script.exports : \A j \in DOMAIN script.exports[i].params :
       w # NameAt(script.exports[i].address, j)}

(***************************************************************************)
(* Private hashes are replaced consistently in the code and in the export  *)
(* table: identifiers that were equal stay equal, different ones different.*)
(***************************************************************************)
IdentifiersConsistent ==
  /\ \A v, w \in CodeWords : mem[v][2] = mem[w][2] <=> script.words[v] = script.words[w]
  /\ \A w \in CodeWords, i \in DOMAIN exports :
       ~(script.exports[i].private /\ Sole(script, i)) =>
         (mem[w][2] = exports[i].name <=> script.words[w] = script.exports[i].name)

(***************************************************************************)
(* The checksums written are those of the final code, whatever the passes  *)
(* changed inside it: of the size known at load when they are recomputed,  *)
(* of one byte otherwise.                                                  *)
(***************************************************************************)
ChecksumsFinal ==
  pc = "Done" =>
    \A i \in DOMAIN exports :
      LET entry == script.exports[i].address
          len == IF opt.recomputeCRC THEN script.exports[i].len ELSE 1
      IN  len > 0 => exports[i].checksum = CRC(mem, entry, len)

(***************************************************************************)
(* A function is left without a trampoline only when no free slot is within*)
(* a signed 16-bit jump of it.                                             *)
(***************************************************************************)
NoWastedSlot ==
  pc = "Done" /\ ~opt.noTrampoline =>
    \A i \in DOMAIN exports, s \in free :
      ~Moved(i) => LET d == exports[i].address - (s[1] + 4)
                   IN  d < -(MaxJump + 1) \/ d > MaxJump

\* A trampoline, once created, is never moved, retargeted or damaged by a later step.
TrampolineStable ==
  [][\A i \in DOMAIN exports : Moved(i) =>
       /\ exports'[i].address = exports[i].address
       /\ \A k \in 0 .. 3 : mem'[exports[i].address + k] = mem[exports[i].address + k]]_vars

Completes ==
  /\ script.tablesFit /\ script.textsFit
  /\ \A i \in DOMAIN script.exports : Aligned(script.exports[i].address, 2) + 4 <= script.size
  /\ opt.noRemoveLocals \/
     \A i \in DOMAIN script.exports : \A j \in DOMAIN script.exports[i].params :
       NameAt(script.exports[i].address, j) + 8 <= script.size
  /\ opt.noDebugKill \/ Len(script.devStrings) <= script.devStringsFit

(***************************************************************************)
(* RunTasks returns for no script with a table, a text, an entry or a list *)
(* of parameters that a pass would have read or written outside it, and    *)
(* throws for no other: what the options switch off is not held against it.*)
(***************************************************************************)
Verdict == (pc = "Done" => Completes) /\ (pc = "Failed" => ~Completes)

(***************************************************************************)
(* Every run ends, with an obfuscated script or an exception as its input  *)
(* and its options decide, however far the passes went before one throws.  *)
(* As both ends are final, no state breaks Verdict unless this is broken.  *)
(***************************************************************************)
Outcome == <>[](pc = IF Completes THEN "Done" ELSE "Failed")

(***************************************************************************)
(* "we recompute the export checksum, like that cerberus can accept the    *)
(* data" (gsc_obfuscator.cpp:406): a reader of the result that looks for   *)
(* the size of an export by its checksum, as ReadTables does, finds the    *)
(* size it had.                                                            *)
(***************************************************************************)
RecomputedChecksumsFound ==
  pc = "Done" /\ opt.recomputeCRC =>
    \A i \in DOMAIN exports :
      FindExportSizeByCrc(mem, exports[i].address, script.size, exports[i].checksum)
        = script.exports[i].len

(***************************************************************************)
(* "the loc isn't used, so we can use it as a trampoline"                  *)
(* (gsc_obfuscator.cpp:162): a location becomes the trampoline of one      *)
(* function only, so that no two exports start at the same place.          *)
(***************************************************************************)
LocationsNotShared ==
  \A i, j \in DOMAIN exports : i # j => exports[i].address # exports[j].address
=============================================================================
