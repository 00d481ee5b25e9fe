------------------------------ MODULE PrivateFile ------------------------------
(***************************************************************************)
(* The private file (private_file.cpp): a table of strings, hashes and     *)
(* script names that must not be readable in the result, and their         *)
(* replacement in the scripts of a fastfile (HandleFFFile of main.cpp,     *)
(* ApplyPrivateStrings and ApplyPrivateScripts of gsc_obfuscator.cpp). All *)
(* texts are rewritten in place, where the memory of the old one ends.     *)
(*                                                                         *)
(* A text is a record: a stem, the separator between its directories, an   *)
(* extension, and its whole size. What is made up for row n has the stem   *)
(* "code", the number of the row in base 38, or "padded", a stream of      *)
(* digits as long as needed. Different rows are assumed to give different  *)
(* texts, which nothing else is called: the number is masked with a random *)
(* one, and the stream comes from a 64-bit hash of it.                     *)
(*                                                                         *)
(* A script is the name of its asset in the fastfile, its own name, its    *)
(* includes and its strings.                                               *)
(***************************************************************************)
EXTENDS Integers, Sequences

CONSTANTS Csvs,      \* the private files that may be given
          Zones,     \* the scripts of the fastfiles that may be given
          CodeSizes  \* how long the number of a row may be

VARIABLES csv,      \* the private file
          codes,    \* how long the number of each of its rows is
          original, \* the scripts of the fastfile
          zone,     \* the same, as they are now
          pc,       \* what is under way
          row,      \* the row of the private file read next
          strings,  \* PrivateFile::strings
          scripts,  \* PrivateFile::scripts
          hashes,   \* PrivateFile::hashes, with the row each value is made of
          at        \* the script treated next

maps == <<strings, scripts, hashes>>
input == <<csv, codes, original>>
vars == <<input, zone, pc, row, maps, at>>

Server == {".gsc", ".gsh"}
Client == {".csc", ".csh"}
Extensions == {"", ".txt"} \cup Server \cup Client
Separators == {"none", "/", "\\"}

StemType ==
  [kind : {"named"}, name : STRING, row : {0}]
    \cup [kind : {"code", "padded"}, name : {""}, row : Nat]
TextType == [stem : StemType, sep : Separators, ext : Extensions, size : Nat]

ScriptType ==
  [asset : TextType, name : TextType,
   includes : Seq({t \in TextType : t.ext = ""}), strings : Seq(TextType)]

RowType == [cells : Nat, type : STRING, val : TextType]

ASSUME CodesAssumption == CodeSizes \subseteq 0 .. 7
ASSUME ZonesAssumption == \A z \in Zones : z \in Seq(ScriptType)
\* No text of a fastfile is one that a row may be given.
ASSUME NewTextsAssumption ==
  \A z \in Zones : \A s \in DOMAIN z :
    /\ z[s].asset.stem.kind = "named"
    /\ \A k \in DOMAIN z[s].includes : z[s].includes[k].stem.kind = "named"
    /\ \A k \in DOMAIN z[s].strings : z[s].strings[k].stem.kind = "named"
ASSUME CsvsAssumption ==
  \A c \in Csvs :
    /\ c.columns \in Nat /\ c.rows \in Seq(RowType)
    /\ \A n \in 1 .. Len(c.rows) : c.rows[n].val.ext # "" => c.rows[n].val.size >= 4

-----------------------------------------------------------------------------
(* Reading: PrivateFile::ReadFile.                                         *)

\* f with a at x.
Put(f, x, a) == [y \in DOMAIN f \cup {x} |-> IF y = x THEN a ELSE f[y]]

CleanPath(text) == IF text.sep = "/" THEN [text EXCEPT !.sep = "\\"] ELSE text

Made(kind, n) == [kind |-> kind, name |-> "", row |-> n]

Code(n, ext) ==
  [stem |-> Made("code", n), sep |-> "none", ext |-> ext,
   size |-> IF ext = "" THEN codes[n] ELSE codes[n] + 4]

PaddedAlike(n, val) == [Code(n, val.ext) EXCEPT !.stem = Made("padded", 0), !.size = val.size]
Unpadded(n, val) == [Code(n, val.ext) EXCEPT !.stem = Made("padded", n)]

\* A longer name is a stream of digits, so that nothing changes its size.
Padded(n, val) == [Code(n, val.ext) EXCEPT !.stem = Made("padded", n), !.size = val.size]

ScriptName(n, val) ==
  IF Code(n, val.ext).size = val.size THEN Code(n, val.ext) ELSE Padded(n, val)

SmallerThan(text, val) == text.size < val.size
Fits(text, val) == text.size <= val.size

Init ==
  /\ csv \in Csvs /\ codes \in [1 .. Len(csv.rows) -> CodeSizes]
  /\ original \in Zones /\ zone = original
  /\ pc = "File" /\ row = 1
  /\ strings = <<>> /\ scripts = <<>> /\ hashes = <<>>
  /\ at = 1

OpenFile ==
  /\ pc = "File"
  /\ pc' = IF csv.columns = 2 THEN "Rows" ELSE "Refused"
  /\ UNCHANGED <<input, zone, row, maps, at>>

ReadString(val) ==
  IF Fits(Code(row, ""), val) THEN strings' = Put(strings, val, Code(row, "")) /\ UNCHANGED <<scripts, hashes>>
  ELSE UNCHANGED maps

ReadScript(val) ==
  IF val.ext \in {".gsc", ".gsh", ".csc"} /\ Fits(Code(row, val.ext), val)
  THEN scripts' = Put(scripts, CleanPath(val), ScriptName(row, val)) /\ UNCHANGED <<strings, hashes>>
  ELSE UNCHANGED maps

RowAfter == row + 1

\* A row with one cell throws; a row of no known type, or too short to be replaced, is skipped.
ReadRow ==
  LET entry == csv.rows[row]
  IN  /\ pc = "Rows" /\ row <= Len(csv.rows)
      /\ \/ entry.cells < 2 /\ pc' = "Refused" /\ UNCHANGED <<row, maps>>
         \/ /\ entry.cells >= 2 /\ pc' = pc
            /\ \/ entry.type = "string" /\ ReadString(entry.val)
               \/ /\ entry.type = "hash"
                  /\ hashes' = Put(hashes, entry.val, row) /\ UNCHANGED <<strings, scripts>>
               \/ entry.type = "script" /\ ReadScript(entry.val)
               \/ entry.type \notin {"string", "hash", "script"} /\ UNCHANGED maps
            /\ row' = RowAfter
      /\ UNCHANGED <<input, zone, at>>

Loaded ==
  /\ pc = "Rows" /\ row > Len(csv.rows)
  /\ pc' = "Asset"
  /\ UNCHANGED <<input, zone, row, maps, at>>

-----------------------------------------------------------------------------
(* Replacing.                                                              *)

Lookup(map, key, text) == IF key \in DOMAIN map THEN map[key] ELSE text

RenamedString(text) == Lookup(strings, text, text)
RenamedScript(text) == Lookup(scripts, text, text)

WithExt(text, ext) == [stem |-> text.stem, sep |-> text.sep, ext |-> ext, size |-> text.size + 4]
WithoutExt(text) == [stem |-> text.stem, sep |-> text.sep, ext |-> "", size |-> text.size - 4]

KeyAsWritten(text, client) == WithExt(text, IF client THEN ".csc" ELSE ".gsc")
Key(text, client) == CleanPath(WithExt(text, IF client THEN ".csc" ELSE ".gsc"))

RenamedWithExt(text, client) == Lookup(scripts, Key(text, client), text)
RenamedScriptExt(text, client) ==
  IF Key(text, client) \in DOMAIN scripts THEN WithoutExt(scripts[Key(text, client)]) ELSE text

\* The obfuscation of this script throws, here or in another pass.
Throw == pc' = "Failed" /\ UNCHANGED at

RenameAsset ==
  /\ pc = "Asset" /\ at <= Len(zone)
  /\ zone' = [zone EXCEPT ![at].asset = RenamedScript(@)]
  /\ pc' = "Strings"
  /\ UNCHANGED <<input, row, maps, at>>

\* Texts are replaced up to where an invalid one is found.
ApplyPrivateStrings ==
  LET list == zone[at].strings
  IN  /\ pc = "Strings"
      /\ \E n \in 0 .. Len(list) :
           /\ zone' = [zone EXCEPT ![at].strings =
                         [k \in DOMAIN list |-> IF k <= n THEN RenamedString(list[k]) ELSE list[k]]]
           /\ \/ Throw
              \/ n = Len(list) /\ pc' = "Names" /\ UNCHANGED at
      /\ UNCHANGED <<input, row, maps>>

InnerNameOfServer(name) == IF name.ext \in Client THEN name ELSE RenamedScript(name)
InnerName(name) == RenamedScript(name)

ApplyPrivateScripts ==
  LET script == zone[at]
      client == script.name.ext \in Client
  IN  /\ pc = "Names"
      /\ \/ /\ script.name.ext \notin Client \cup Server
            /\ pc' = "Asset" /\ at' = at + 1 /\ UNCHANGED zone
         \/ /\ script.name.ext \in Client \cup Server
            /\ \E n \in 0 .. Len(script.includes) :
                 /\ zone' = [zone EXCEPT
                      ![at].name = InnerName(@),
                      ![at].includes = [k \in DOMAIN @ |->
                         IF k <= n THEN RenamedScriptExt(@[k], client) ELSE @[k]]]
                 /\ \/ Throw
                    \/ n = Len(script.includes) /\ pc' = "Asset" /\ at' = at + 1
         \/ Throw /\ UNCHANGED zone
      /\ UNCHANGED <<input, row, maps>>

Finish ==
  /\ pc = "Asset" /\ at > Len(zone)
  /\ pc' = "Done"
  /\ UNCHANGED <<input, zone, row, maps, at>>

Terminated == pc \in {"Refused", "Failed", "Done"} /\ UNCHANGED vars

Next ==
  \/ OpenFile \/ ReadRow \/ Loaded
  \/ RenameAsset \/ ApplyPrivateStrings \/ ApplyPrivateScripts \/ Finish
  \/ Terminated

Spec == Init /\ [][Next]_vars /\ WF_vars(Next)
=============================================================================
