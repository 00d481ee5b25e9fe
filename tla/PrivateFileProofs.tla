--------------------------- MODULE PrivateFileProofs ---------------------------
(***************************************************************************)
(* Proofs about PrivateFile for every private file, fastfile and size of   *)
(* codes: what is written in place never needs more room than there is; a  *)
(* script and its asset stay of one name, includes follow the scripts that *)
(* are renamed, no two texts are confused, and what is listed is gone.     *)
(***************************************************************************)
EXTENDS PrivateFileProperties, TLAPS

-----------------------------------------------------------------------------
(* The inductive invariant of the sizes.                                   *)

\* What is made for a text has its size, or may be shorter for a string.
MapSizes ==
  /\ \A key \in DOMAIN scripts : scripts[key].size = key.size
  /\ \A key \in DOMAIN strings : strings[key].size <= key.size

\* While a script is treated, there is one.
AtInv == pc \in {"Strings", "Names"} => at <= Len(zone)

\* The scripts keep as many strings.
SameLists == \A s \in DOMAIN zone : DOMAIN zone[s].strings = DOMAIN original[s].strings

Kept == SameLists /\ SizesKept

IInv == TypeOK /\ MapSizes /\ AtInv /\ Kept

-----------------------------------------------------------------------------
(* Sizes, sequences and texts.                                             *)

LEMMA FourMore == ASSUME NEW x \in Nat PROVE x + 4 \in Nat /\ (x + 4) - 4 = x
OBVIOUS

LEMMA Elements ==
  ASSUME NEW S, NEW list \in Seq(S)
  PROVE  /\ Len(list) \in Nat /\ DOMAIN list = 1 .. Len(list)
         /\ \A k \in DOMAIN list : list[k] \in S
OBVIOUS

\* A list that has the positions of another one, with elements of a set.
LEMMA MadeOf ==
  ASSUME NEW S, NEW T, NEW list \in Seq(S), NEW f, f = [k \in DOMAIN list |-> f[k]],
         \A k \in DOMAIN list : f[k] \in T
  PROVE  f \in Seq(T) /\ DOMAIN f = DOMAIN list
OBVIOUS

LEMMA AtMost ==
  ASSUME NEW a \in Nat, NEW b \in Nat, NEW c \in Nat, a <= b, b <= c  PROVE a <= c
OBVIOUS

LEMMA TextFields ==
  ASSUME NEW text \in TextType
  PROVE  /\ text.stem \in StemType /\ text.sep \in Separators
         /\ text.ext \in Extensions /\ text.size \in Nat
BY DEF TextType

LEMMA TextFromFields ==
  ASSUME NEW stem \in StemType, NEW sep \in Separators, NEW ext \in Extensions, NEW size \in Nat
  PROVE  [stem |-> stem, sep |-> sep, ext |-> ext, size |-> size] \in TextType
BY DEF TextType

-----------------------------------------------------------------------------
(* What is made for a row.                                                 *)

LEMMA RowsFacts ==
  ASSUME TypeOK  PROVE csv.rows \in Seq(RowType) /\ Len(csv.rows) \in Nat
<1>1. csv.rows \in Seq(RowType)  BY CsvsAssumption DEF TypeOK
<1> QED  BY <1>1

LEMMA CodeFacts ==
  ASSUME TypeOK, NEW n \in 1 .. Len(csv.rows), NEW ext \in Extensions
  PROVE  /\ Code(n, ext) \in TextType
         /\ Code(n, "").size = codes[n]
<1>1. codes[n] \in 0 .. 7
  <2>1. codes \in [1 .. Len(csv.rows) -> CodeSizes]  BY DEF TypeOK
  <2> QED  BY <2>1, CodesAssumption
<1>2. n \in Nat
  <2>1. Len(csv.rows) \in Nat  BY RowsFacts
  <2> QED  BY <2>1
<1>3. Made("code", n) \in StemType  BY <1>2 DEF Made, StemType
<1> DEFINE size == IF ext = "" THEN codes[n] ELSE codes[n] + 4
<1>4. size \in Nat
  <2>1. codes[n] \in Nat  BY <1>1
  <2>2. codes[n] + 4 \in Nat  BY <2>1, FourMore
  <2> QED  BY <2>1, <2>2
<1>5. "none" \in Separators  BY DEF Separators
<1>6. Code(n, ext) = [stem |-> Made("code", n), sep |-> "none", ext |-> ext, size |-> size]
  BY DEF Code
<1>7. Code(n, "").size = codes[n]  BY DEF Code
<1> HIDE DEF size
<1> QED  BY <1>3, <1>4, <1>5, <1>6, <1>7, TextFromFields

LEMMA ScriptNameFacts ==
  ASSUME TypeOK, NEW n \in 1 .. Len(csv.rows), NEW val \in TextType
  PROVE  ScriptName(n, val) \in TextType /\ ScriptName(n, val).size = val.size
<1>1. val.ext \in Extensions /\ val.size \in Nat  BY DEF TextType
<1>2. Code(n, val.ext) \in TextType  BY <1>1, CodeFacts
<1>3. n \in Nat
  <2>1. Len(csv.rows) \in Nat  BY RowsFacts
  <2> QED  BY <2>1
<1>4. Made("padded", n) \in StemType  BY <1>3 DEF Made, StemType
<1>5. Padded(n, val) \in TextType /\ Padded(n, val).size = val.size
  BY <1>1, <1>2, <1>4 DEF Padded, TextType
<1> QED  BY <1>2, <1>5 DEF ScriptName

LEMMA CleanPathFacts ==
  ASSUME NEW text \in TextType
  PROVE  CleanPath(text) \in TextType /\ CleanPath(text).size = text.size
BY DEF CleanPath, TextType, Separators

-----------------------------------------------------------------------------
(* What a text is replaced by.                                             *)

LEMMA RenamedScriptFacts ==
  ASSUME TypeOK, MapSizes, NEW text \in TextType
  PROVE  RenamedScript(text) \in TextType /\ RenamedScript(text).size = text.size
BY DEF RenamedScript, Lookup, TypeOK, MapSizes

LEMMA RenamedStringFacts ==
  ASSUME TypeOK, MapSizes, NEW text \in TextType
  PROVE  RenamedString(text) \in TextType /\ RenamedString(text).size <= text.size
<1>1. text.size \in Nat  BY DEF TextType
<1>2. CASE text \in DOMAIN strings
  BY <1>2 DEF RenamedString, Lookup, TypeOK, MapSizes
<1>3. CASE text \notin DOMAIN strings
  BY <1>1, <1>3 DEF RenamedString, Lookup
<1> QED  BY <1>2, <1>3

LEMMA RenamedScriptExtFacts ==
  ASSUME TypeOK, MapSizes, NEW text \in TextType, text.ext = "", NEW client
  PROVE  /\ RenamedScriptExt(text, client) \in TextType
         /\ RenamedScriptExt(text, client).ext = ""
         /\ RenamedScriptExt(text, client).size = text.size
<1> DEFINE key == Key(text, client)
<1>1. text.size \in Nat  BY DEF TextType
<1>2. key.size = text.size + 4
  <2> DEFINE e == IF client THEN ".csc" ELSE ".gsc"
  <2>1. WithExt(text, e) \in TextType /\ WithExt(text, e).size = text.size + 4
    <3>1. e \in Extensions  BY DEF Extensions, Server, Client
    <3> HIDE DEF e
    <3>2. text.size + 4 \in Nat  BY <1>1, FourMore
    <3> QED  BY <3>1, <3>2, TextFields, TextFromFields DEF WithExt
  <2>2. key = CleanPath(WithExt(text, e))  BY DEF Key
  <2> HIDE DEF e, key
  <2> QED  BY <2>1, <2>2, CleanPathFacts
<1>3. CASE key \in DOMAIN scripts
  <2>1. scripts[key] \in TextType /\ scripts[key].size = text.size + 4
    BY <1>2, <1>3 DEF TypeOK, MapSizes
  <2>2. RenamedScriptExt(text, client) = WithoutExt(scripts[key])
    BY <1>3 DEF RenamedScriptExt
  <2> HIDE DEF key
  <2>3. scripts[key].size - 4 = text.size
    <3>1. (text.size + 4) - 4 = text.size  BY <1>1, FourMore
    <3> QED  BY <2>1, <3>1
  <2> DEFINE new == WithoutExt(scripts[key])
  <2>4. new.ext = "" /\ new.size = text.size  BY <2>3 DEF WithoutExt
  <2>5. "" \in Extensions  BY DEF Extensions
  <2>6. new \in TextType
    BY <1>1, <2>1, <2>3, <2>5, TextFields, TextFromFields DEF WithoutExt
  <2> QED  BY <2>2, <2>4, <2>6
<1>4. CASE key \notin DOMAIN scripts
  BY <1>4 DEF RenamedScriptExt
<1> QED  BY <1>3, <1>4

-----------------------------------------------------------------------------
(* One script takes the place of another.                                  *)

LEMMA ScriptReplaced ==
  ASSUME IInv, at <= Len(zone), NEW new \in ScriptType,
         zone' = [zone EXCEPT ![at] = new], original' = original,
         new.asset.size = zone[at].asset.size, new.name.size = zone[at].name.size,
         DOMAIN new.includes = DOMAIN zone[at].includes,
         \A k \in DOMAIN new.includes : new.includes[k].size = zone[at].includes[k].size,
         DOMAIN new.strings = DOMAIN zone[at].strings,
         \A k \in DOMAIN new.strings :
           new.strings[k] = zone[at].strings[k] \/ new.strings[k] = RenamedString(zone[at].strings[k])
  PROVE  zone' \in Seq(ScriptType) /\ Len(zone') = Len(zone) /\ Kept'
<1>1. /\ zone \in Seq(ScriptType) /\ at \in DOMAIN zone /\ at \in Nat
      /\ original \in Seq(ScriptType) /\ DOMAIN zone = DOMAIN original
  BY ZonesAssumption DEF IInv, TypeOK
<1>2. zone' \in Seq(ScriptType) /\ Len(zone') = Len(zone) /\ DOMAIN zone' = DOMAIN zone
  BY <1>1
<1>3. zone'[at] = new /\ \A s \in DOMAIN zone : s # at => zone'[s] = zone[s]
  BY <1>1
<1>4. ASSUME NEW k \in DOMAIN new.strings, k \in DOMAIN zone[at].strings
      PROVE  new.strings[k].size <= original[at].strings[k].size
  <2>1. zone[at] \in ScriptType /\ original[at] \in ScriptType  BY <1>1
  <2>2. zone[at].strings \in Seq(TextType) /\ original[at].strings \in Seq(TextType)
    BY <2>1 DEF ScriptType
  <2>3. DOMAIN zone[at].strings = DOMAIN original[at].strings  BY <1>1 DEF IInv, Kept, SameLists
  <2>4. zone[at].strings[k] \in TextType /\ original[at].strings[k] \in TextType
    BY <1>4, <2>2, <2>3, Elements
  <2>5. zone[at].strings[k].size <= original[at].strings[k].size
    BY <1>1, <1>4 DEF IInv, Kept, SizesKept
  <2>6. CASE new.strings[k] = zone[at].strings[k]  BY <2>5, <2>6
  <2>7. CASE new.strings[k] = RenamedString(zone[at].strings[k])
    <3>1. new.strings[k] \in TextType /\ new.strings[k].size <= zone[at].strings[k].size
      BY <2>4, <2>7, RenamedStringFacts DEF IInv
    <3> QED  BY <2>4, <2>5, <3>1, TextFields, AtMost
  <2> QED  BY <1>4, <2>6, <2>7
<1>5. Kept'
  <2> SUFFICES ASSUME NEW s \in DOMAIN zone
               PROVE  /\ DOMAIN zone'[s].strings = DOMAIN original[s].strings
                      /\ zone'[s].asset.size = original[s].asset.size
                      /\ zone'[s].name.size = original[s].name.size
                      /\ \A k \in DOMAIN zone'[s].includes :
                           zone'[s].includes[k].size = original[s].includes[k].size
                      /\ \A k \in DOMAIN zone'[s].strings :
                           zone'[s].strings[k].size <= original[s].strings[k].size
    BY <1>2 DEF Kept, SameLists, SizesKept
  <2>1. CASE s # at  BY <1>3, <2>1 DEF IInv, Kept, SameLists, SizesKept
  <2>2. CASE s = at  BY <1>1, <1>3, <1>4, <2>2 DEF IInv, Kept, SameLists, SizesKept
  <2> QED  BY <2>1, <2>2
<1> QED  BY <1>2, <1>5

LEMMA ScriptAt ==
  ASSUME TypeOK, at <= Len(zone)
  PROVE  /\ zone[at] \in ScriptType /\ at \in DOMAIN zone
         /\ zone[at].asset \in TextType /\ zone[at].name \in TextType
         /\ \A k \in DOMAIN zone[at].includes :
              zone[at].includes[k] \in TextType /\ zone[at].includes[k].ext = ""
         /\ \A k \in DOMAIN zone[at].strings : zone[at].strings[k] \in TextType
<1>1. at \in DOMAIN zone /\ zone[at] \in ScriptType  BY DEF TypeOK
<1>2. /\ zone[at].asset \in TextType /\ zone[at].name \in TextType
      /\ zone[at].includes \in Seq({t \in TextType : t.ext = ""})
      /\ zone[at].strings \in Seq(TextType)
  BY <1>1 DEF ScriptType
<1>3. \A k \in DOMAIN zone[at].includes : zone[at].includes[k] \in {t \in TextType : t.ext = ""}
  BY <1>2, Elements
<1>4. \A k \in DOMAIN zone[at].strings : zone[at].strings[k] \in TextType
  BY <1>2, Elements
<1> QED  BY <1>1, <1>2, <1>3, <1>4

-----------------------------------------------------------------------------
(* The steps.                                                              *)

LEMMA InitIInv == Init => IInv
<1> SUFFICES ASSUME Init PROVE IInv  OBVIOUS
<1>1. /\ csv \in Csvs /\ original \in Zones /\ zone = original
      /\ codes \in [1 .. Len(csv.rows) -> CodeSizes]
      /\ pc = "File" /\ row = 1 /\ at = 1
      /\ strings = <<>> /\ scripts = <<>> /\ hashes = <<>>
  BY DEF Init
<1>2. csv.rows \in Seq(RowType) /\ zone \in Seq(ScriptType)  BY <1>1, CsvsAssumption, ZonesAssumption
<1>3. Len(csv.rows) \in Nat /\ Len(zone) \in Nat  BY <1>2
<1>4. TypeOK  BY <1>1, <1>2, <1>3 DEF TypeOK
<1>5. Kept
  <2> SUFFICES ASSUME NEW s \in DOMAIN zone, NEW k \in DOMAIN zone[s].strings
               PROVE  zone[s].strings[k].size <= original[s].strings[k].size
    BY <1>1 DEF Kept, SameLists, SizesKept
  <2>1. zone[s] \in ScriptType  BY <1>2
  <2>2. zone[s].strings \in Seq(TextType)  BY <2>1 DEF ScriptType
  <2>3. zone[s].strings[k] \in TextType  BY <2>2
  <2>4. zone[s].strings[k].size \in Nat  BY <2>3, TextFields
  <2> QED  BY <1>1, <2>4
<1> QED  BY <1>1, <1>4, <1>5 DEF IInv, MapSizes, AtInv

LEMMA ReadRowKeeps == IInv /\ ReadRow => IInv'
<1> SUFFICES ASSUME IInv, ReadRow PROVE IInv'  OBVIOUS
<1>1. TypeOK /\ MapSizes /\ Kept  BY DEF IInv
<1>2. row <= Len(csv.rows) /\ UNCHANGED <<input, zone, at>>  BY DEF ReadRow
<1>3. csv.rows \in Seq(RowType) /\ Len(csv.rows) \in Nat
  BY <1>1, RowsFacts
<1>4. row \in 1 .. Len(csv.rows)  BY <1>1, <1>2, <1>3 DEF TypeOK
<1> DEFINE val == csv.rows[row].val
<1>5. val \in TextType /\ val.size \in Nat
  <2>1. csv.rows[row] \in RowType  BY <1>3, <1>4
  <2> QED  BY <2>1 DEF RowType, TextType
<1>6. pc' \in {"Rows", "Refused"} /\ row' \in {row, row + 1}
  BY DEF ReadRow, RowAfter
<1>7. /\ maps' = maps \/ strings' = Put(strings, val, Code(row, "")) \/ strings' = strings
      /\ strings' = strings \/ (strings' = Put(strings, val, Code(row, "")) /\ Fits(Code(row, ""), val))
      /\ scripts' = scripts \/ scripts' = Put(scripts, CleanPath(val), ScriptName(row, val))
      /\ hashes' = hashes \/ hashes' = Put(hashes, val, row)
  BY DEF ReadRow, ReadString, ReadScript, maps
<1> HIDE DEF val
<1>8. /\ Code(row, "") \in TextType
      /\ ScriptName(row, val) \in TextType /\ ScriptName(row, val).size = val.size
      /\ CleanPath(val) \in TextType /\ CleanPath(val).size = val.size
  <2>1. "" \in Extensions  BY DEF Extensions
  <2> QED  BY <1>1, <1>4, <1>5, <2>1, CodeFacts, ScriptNameFacts, CleanPathFacts
<1>9. \A key \in DOMAIN strings' :
        key \in TextType /\ strings'[key] \in TextType /\ strings'[key].size <= key.size
  <2>1. CASE strings' = strings  BY <1>1, <2>1 DEF TypeOK, MapSizes
  <2>2. CASE strings' = Put(strings, val, Code(row, "")) /\ Fits(Code(row, ""), val)
    BY <1>1, <1>5, <1>8, <2>2 DEF TypeOK, MapSizes, Put, Fits
  <2> QED  BY <1>7, <2>1, <2>2
<1>10. \A key \in DOMAIN scripts' :
         key \in TextType /\ scripts'[key] \in TextType /\ scripts'[key].size = key.size
  <2>1. CASE scripts' = scripts  BY <1>1, <2>1 DEF TypeOK, MapSizes
  <2>2. CASE scripts' = Put(scripts, CleanPath(val), ScriptName(row, val))
    BY <1>1, <1>8, <2>2 DEF TypeOK, MapSizes, Put
  <2> QED  BY <1>7, <2>1, <2>2
<1>11. \A key \in DOMAIN hashes' : key \in TextType /\ hashes'[key] \in 1 .. Len(csv.rows)
  <2>1. CASE hashes' = hashes  BY <1>1, <2>1 DEF TypeOK
  <2>2. CASE hashes' = Put(hashes, val, row)  BY <1>1, <1>4, <1>5, <2>2 DEF TypeOK, Put
  <2> QED  BY <1>7, <2>1, <2>2
<1>12. TypeOK'
  <2>1. row' \in 1 .. Len(csv.rows) + 1  BY <1>3, <1>4, <1>6
  <2> QED  BY <1>1, <1>2, <1>6, <1>9, <1>10, <1>11, <2>1 DEF TypeOK, input
<1>13. MapSizes'  BY <1>9, <1>10 DEF MapSizes
<1>14. AtInv'  BY <1>6 DEF AtInv
<1>15. Kept'  BY <1>1, <1>2 DEF Kept, SameLists, SizesKept, input
<1> QED  BY <1>12, <1>13, <1>14, <1>15 DEF IInv

LEMMA RenameAssetKeeps == IInv /\ RenameAsset => IInv'
<1> SUFFICES ASSUME IInv, RenameAsset PROVE IInv'  OBVIOUS
<1>1. TypeOK /\ MapSizes  BY DEF IInv
<1>2. /\ at <= Len(zone) /\ pc' = "Strings"
      /\ UNCHANGED <<input, row, maps, at>>
  BY DEF RenameAsset
<1> DEFINE new == [zone[at] EXCEPT !.asset = RenamedScript(zone[at].asset)]
<1>3. zone' = [zone EXCEPT ![at] = new]  BY DEF RenameAsset
<1>4. RenamedScript(zone[at].asset) \in TextType
      /\ RenamedScript(zone[at].asset).size = zone[at].asset.size
  BY <1>1, <1>2, ScriptAt, RenamedScriptFacts
<1>5. /\ new \in ScriptType /\ new.asset = RenamedScript(zone[at].asset)
      /\ new.name = zone[at].name /\ new.includes = zone[at].includes
      /\ new.strings = zone[at].strings
  BY <1>1, <1>2, <1>4, ScriptAt DEF ScriptType
<1> HIDE DEF new
<1>6. zone' \in Seq(ScriptType) /\ Len(zone') = Len(zone) /\ Kept'
  BY <1>2, <1>3, <1>4, <1>5, ScriptReplaced DEF input
<1>7. TypeOK'  BY <1>1, <1>2, <1>6 DEF TypeOK, input, maps
<1>8. MapSizes' /\ AtInv'  BY <1>1, <1>2, <1>6 DEF MapSizes, AtInv, maps
<1> QED  BY <1>6, <1>7, <1>8 DEF IInv

LEMMA StringsKeep == IInv /\ ApplyPrivateStrings => IInv'
<1> SUFFICES ASSUME IInv, ApplyPrivateStrings PROVE IInv'  OBVIOUS
<1>1. TypeOK /\ MapSizes /\ at <= Len(zone)
  BY DEF IInv, AtInv, ApplyPrivateStrings
<1> DEFINE list == zone[at].strings
<1>2. PICK n \in 0 .. Len(list) :
        zone' = [zone EXCEPT ![at].strings =
                   [k \in DOMAIN list |-> IF k <= n THEN RenamedString(list[k]) ELSE list[k]]]
  BY DEF ApplyPrivateStrings
<1>3. /\ UNCHANGED <<input, row, maps, at>> /\ pc' \in {"Failed", "Names"}
  BY DEF ApplyPrivateStrings, Throw
<1> DEFINE texts == [k \in DOMAIN list |-> IF k <= n THEN RenamedString(list[k]) ELSE list[k]]
<1> DEFINE new == [zone[at] EXCEPT !.strings = texts]
<1>4. zone' = [zone EXCEPT ![at] = new]  BY <1>2
<1>5. texts \in Seq(TextType)
  <2>1. list \in Seq(TextType)  BY <1>1, ScriptAt DEF ScriptType
  <2>2. \A k \in DOMAIN list : RenamedString(list[k]) \in TextType /\ list[k] \in TextType
    BY <1>1, ScriptAt, RenamedStringFacts
  <2> HIDE DEF list
  <2> QED  BY <2>1, <2>2
<1>6. DOMAIN texts = DOMAIN zone[at].strings  OBVIOUS
<1>7. \A k \in DOMAIN texts :
        texts[k] = zone[at].strings[k] \/ texts[k] = RenamedString(zone[at].strings[k])
  OBVIOUS
<1> HIDE DEF texts
<1>8. /\ new \in ScriptType /\ new.asset = zone[at].asset
      /\ new.name = zone[at].name /\ new.includes = zone[at].includes
      /\ new.strings = texts
  BY <1>1, <1>5, ScriptAt DEF ScriptType
<1> HIDE DEF new
<1>9. zone' \in Seq(ScriptType) /\ Len(zone') = Len(zone) /\ Kept'
  BY <1>1, <1>3, <1>4, <1>6, <1>7, <1>8, ScriptReplaced DEF input
<1>10. TypeOK'  BY <1>1, <1>3, <1>9 DEF TypeOK, input, maps
<1>11. MapSizes' /\ AtInv'  BY <1>1, <1>3, <1>9 DEF MapSizes, AtInv, maps
<1> QED  BY <1>9, <1>10, <1>11 DEF IInv

LEMMA NamesKeep == IInv /\ ApplyPrivateScripts => IInv'
<1> SUFFICES ASSUME IInv, ApplyPrivateScripts PROVE IInv'  OBVIOUS
<1>1. TypeOK /\ MapSizes /\ at <= Len(zone) /\ Kept
  BY DEF IInv, AtInv, ApplyPrivateScripts
<1>2. /\ UNCHANGED <<input, row, maps>> /\ pc' \in {"Failed", "Asset"} /\ at' \in {at, at + 1}
  BY DEF ApplyPrivateScripts, Throw
<1>3. CASE zone' = zone
  <2>1. TypeOK'  BY <1>1, <1>2, <1>3 DEF TypeOK, input, maps
  <2> QED  BY <1>1, <1>2, <1>3, <2>1 DEF IInv, MapSizes, AtInv, Kept, SameLists, SizesKept, input, maps
<1>4. CASE zone' # zone
  <2> DEFINE list == zone[at].includes
             client == zone[at].name.ext \in Client
  <2>1. PICK n \in 0 .. Len(list) :
          zone' = [zone EXCEPT
                     ![at].name = InnerName(@),
                     ![at].includes = [k \in DOMAIN @ |->
                        IF k <= n THEN RenamedScriptExt(@[k], client) ELSE @[k]]]
    BY <1>4 DEF ApplyPrivateScripts
  <2> DEFINE texts == [k \in DOMAIN list |->
                         IF k <= n THEN RenamedScriptExt(list[k], client) ELSE list[k]]
             new == [zone[at] EXCEPT !.name = RenamedScript(zone[at].name), !.includes = texts]
  <2>2. zone' = [zone EXCEPT ![at] = new]
    BY <1>1, <2>1, ScriptAt DEF InnerName, ScriptType, TypeOK
  <2>3. \A k \in DOMAIN list :
          /\ list[k] \in TextType /\ list[k].ext = ""
          /\ RenamedScriptExt(list[k], client) \in {t \in TextType : t.ext = ""}
          /\ RenamedScriptExt(list[k], client).size = list[k].size
    BY <1>1, ScriptAt, RenamedScriptExtFacts
  <2>4. texts \in Seq({t \in TextType : t.ext = ""}) /\ DOMAIN texts = DOMAIN list
        /\ \A k \in DOMAIN texts : texts[k].size = list[k].size
    <3>1. list \in Seq({t \in TextType : t.ext = ""})  BY <1>1, ScriptAt DEF ScriptType
    <3>2. /\ texts = [k \in DOMAIN list |-> texts[k]]
          /\ \A k \in DOMAIN list :
               texts[k] = RenamedScriptExt(list[k], client) \/ texts[k] = list[k]
      OBVIOUS
    <3> HIDE DEF list, texts
    <3>3. \A k \in DOMAIN list : texts[k] \in {t \in TextType : t.ext = ""}
      BY <2>3, <3>2
    <3>4. texts \in Seq({t \in TextType : t.ext = ""}) /\ DOMAIN texts = DOMAIN list
      BY <3>1, <3>2, <3>3, MadeOf
    <3>5. \A k \in DOMAIN list : texts[k].size = list[k].size  BY <2>3, <3>2
    <3> QED  BY <3>4, <3>5
  <2>5. RenamedScript(zone[at].name) \in TextType
        /\ RenamedScript(zone[at].name).size = zone[at].name.size
    BY <1>1, ScriptAt, RenamedScriptFacts
  <2> HIDE DEF texts
  <2>6. /\ new \in ScriptType /\ new.asset = zone[at].asset
        /\ new.name = RenamedScript(zone[at].name) /\ new.includes = texts
        /\ new.strings = zone[at].strings
    BY <1>1, <2>4, <2>5, ScriptAt DEF ScriptType
  <2> HIDE DEF new
  <2>7. zone' \in Seq(ScriptType) /\ Len(zone') = Len(zone) /\ Kept'
    BY <1>1, <1>2, <2>2, <2>4, <2>5, <2>6, ScriptReplaced DEF input
  <2>8. TypeOK'  BY <1>1, <1>2, <2>7 DEF TypeOK, input, maps
  <2> QED  BY <1>1, <1>2, <2>7, <2>8 DEF IInv, MapSizes, AtInv, maps
<1> QED  BY <1>3, <1>4

LEMMA NextKeeps == IInv /\ [Next]_vars => IInv'
<1> SUFFICES ASSUME IInv, [Next]_vars PROVE IInv'  OBVIOUS
<1>1. CASE ReadRow  BY <1>1, ReadRowKeeps
<1>2. CASE RenameAsset  BY <1>2, RenameAssetKeeps
<1>3. CASE ApplyPrivateStrings  BY <1>3, StringsKeep
<1>4. CASE ApplyPrivateScripts  BY <1>4, NamesKeep
<1>5. CASE OpenFile \/ Loaded \/ Finish
  <2>1. /\ UNCHANGED <<input, zone, row, maps, at>>
        /\ pc' \in {"Rows", "Refused", "Asset", "Done"}
    BY <1>5 DEF OpenFile, Loaded, Finish
  <2>2. TypeOK'  BY <2>1 DEF IInv, TypeOK, input, maps
  <2> QED  BY <2>1, <2>2 DEF IInv, MapSizes, AtInv, Kept, SameLists, SizesKept, input, maps
<1>6. CASE Terminated \/ UNCHANGED vars
  <2>1. UNCHANGED <<input, zone, pc, row, maps, at>>  BY <1>6 DEF Terminated, vars
  <2>2. TypeOK'  BY <2>1 DEF IInv, TypeOK, input, maps
  <2> QED  BY <2>1, <2>2 DEF IInv, MapSizes, AtInv, Kept, SameLists, SizesKept, input, maps
<1> QED  BY <1>1, <1>2, <1>3, <1>4, <1>5, <1>6 DEF Next

\* Everything below follows from the invariant.
THEOREM PrivateInvariance == Spec => []IInv
<1> QED  BY InitIInv, NextKeeps, PTL DEF Spec

\* The maps hold texts, and an include never gets an extension.
THEOREM PrivateTypeCorrect == Spec => []TypeOK
<1>1. IInv => TypeOK  BY DEF IInv
<1> QED  BY <1>1, PrivateInvariance, PTL

\* Whatever the private file and the codes, no text outgrows the one it replaces,
\* and the names of scripts and includes keep their exact size.
THEOREM SizesAreKept == Spec => []SizesKept
<1>1. IInv => SizesKept  BY DEF IInv, Kept
<1> QED  BY <1>1, PrivateInvariance, PTL


-----------------------------------------------------------------------------
(* The invariants of the names.                                            *)

\* Every value of a map is made for a row, and its key is the text of that row. So no two
\* keys have one value. Scripts have one of the extensions that ReadFile accepts, and keep it.
Origin ==
  /\ \A key \in DOMAIN scripts :
       /\ key.ext \in Client \cup Server
       /\ scripts[key].stem.kind # "named"
       /\ scripts[key].sep = "none" /\ scripts[key].ext = key.ext
       /\ key = CleanPath(csv.rows[scripts[key].stem.row].val)
  /\ \A key \in DOMAIN strings :
       /\ strings[key].stem.kind # "named"
       /\ key = csv.rows[strings[key].stem.row].val

\* The rows whose texts are replaced.
ScriptRow(n) ==
  /\ csv.rows[n].type = "script" /\ csv.rows[n].val.ext \in {".gsc", ".gsh", ".csc"}
  /\ codes[n] + 4 <= csv.rows[n].val.size

StringRow(n) == csv.rows[n].type = "string" /\ codes[n] <= csv.rows[n].val.size

Reading == pc \in {"File", "Rows", "Refused"}

\* The keys of the maps are the texts of the rows read: no row takes the key of another away.
ReadInv ==
  /\ DOMAIN scripts = {CleanPath(csv.rows[n].val) : n \in {m \in 1 .. row - 1 : ScriptRow(m)}}
  /\ DOMAIN strings = {csv.rows[n].val : n \in {m \in 1 .. row - 1 : StringRow(m)}}
  /\ ~Reading => row = Len(csv.rows) + 1

AssetDone(s) == s < at \/ (s = at /\ pc \in {"Strings", "Names"})
StringsDone(s) == s < at \/ (s = at /\ pc = "Names")

IsScript(s) == original[s].name.ext \in Client \cup Server
NewInclude(s, k) ==
  RenamedScriptExt(original[s].includes[k], original[s].name.ext \in Client)

\* What the script s has become: the replacement of what it was, up to where its treatment is.
Treated(s) ==
  /\ zone[s].asset = IF AssetDone(s) THEN RenamedScript(original[s].asset) ELSE original[s].asset
  /\ zone[s].name = IF s < at THEN RenamedScript(original[s].name) ELSE original[s].name
  /\ \A k \in DOMAIN zone[s].strings :
       zone[s].strings[k] = IF StringsDone(s) THEN RenamedString(original[s].strings[k])
                            ELSE original[s].strings[k]
  /\ DOMAIN zone[s].includes = DOMAIN original[s].includes
  /\ \A k \in DOMAIN zone[s].includes :
       zone[s].includes[k] =
         IF s < at /\ IsScript(s) THEN NewInclude(s, k) ELSE original[s].includes[k]

TreatedInv ==
  /\ Reading => at = 1 /\ zone = original
  /\ ~Reading /\ pc # "Failed" => \A s \in DOMAIN zone : Treated(s)
  /\ pc = "Done" => at > Len(zone)

NamesInv == IInv /\ Origin /\ ReadInv /\ TreatedInv

-----------------------------------------------------------------------------
(* The maps.                                                               *)

LEMMA OriginKept == NamesInv /\ [Next]_vars => Origin'
<1> SUFFICES ASSUME NamesInv, [Next]_vars PROVE Origin'  OBVIOUS
<1>1. TypeOK /\ Origin  BY DEF NamesInv, IInv
<1>2. CASE UNCHANGED <<csv, strings, scripts>>
  BY <1>1, <1>2 DEF Origin, CleanPath
<1>3. CASE ReadRow
  <2> DEFINE val == csv.rows[row].val
  <2>1. csv' = csv /\ row <= Len(csv.rows)  BY <1>3 DEF ReadRow, input
  <2>2. row \in 1 .. Len(csv.rows) /\ row \in Nat
    <3>1. Len(csv.rows) \in Nat  BY <1>1, RowsFacts
    <3> QED  BY <1>1, <2>1, <3>1 DEF TypeOK
  <2>3. val \in TextType
    <3>1. csv.rows[row] \in RowType  BY <1>1, <2>2, RowsFacts
    <3> QED  BY <3>1 DEF RowType
  <2>4. /\ strings' = strings \/ strings' = Put(strings, val, Code(row, ""))
        /\ \/ scripts' = scripts
           \/ /\ scripts' = Put(scripts, CleanPath(val), ScriptName(row, val))
              /\ val.ext \in {".gsc", ".gsh", ".csc"}
    BY <1>3 DEF ReadRow, ReadString, ReadScript, maps
  <2>5. /\ Code(row, "").stem.kind = "code" /\ Code(row, "").stem.row = row
        /\ ScriptName(row, val).stem.kind # "named" /\ ScriptName(row, val).stem.row = row
        /\ ScriptName(row, val).sep = "none" /\ ScriptName(row, val).ext = val.ext
    BY DEF Code, ScriptName, Padded, Made
  <2>6. CleanPath(val).ext = val.ext  BY <2>3 DEF CleanPath, TextType
  <2> HIDE DEF val
  <2>7. \A key \in DOMAIN scripts' :
          /\ key.ext \in Client \cup Server
          /\ scripts'[key].stem.kind # "named"
          /\ scripts'[key].sep = "none" /\ scripts'[key].ext = key.ext
          /\ key = CleanPath(csv.rows[scripts'[key].stem.row].val)
    <3>1. CASE scripts' = scripts  BY <1>1, <3>1 DEF Origin
    <3>2. CASE /\ scripts' = Put(scripts, CleanPath(val), ScriptName(row, val))
               /\ val.ext \in {".gsc", ".gsh", ".csc"}
      <4> SUFFICES ASSUME NEW key \in DOMAIN scripts'
                   PROVE  /\ key.ext \in Client \cup Server
                          /\ scripts'[key].stem.kind # "named"
                          /\ scripts'[key].sep = "none" /\ scripts'[key].ext = key.ext
                          /\ key = CleanPath(csv.rows[scripts'[key].stem.row].val)
        OBVIOUS
      <4>1. CASE key = CleanPath(val)
        <5>1. scripts'[key] = ScriptName(row, val)  BY <3>2, <4>1 DEF Put
        <5>2. key.ext \in Client \cup Server  BY <2>6, <3>2, <4>1 DEF Client, Server
        <5> QED  BY <2>5, <2>6, <4>1, <5>1, <5>2 DEF val
      <4>2. CASE key # CleanPath(val)
        <5>1. key \in DOMAIN scripts /\ scripts'[key] = scripts[key]  BY <3>2, <4>2 DEF Put
        <5> QED  BY <1>1, <5>1 DEF Origin
      <4> QED  BY <4>1, <4>2
    <3> QED  BY <2>4, <3>1, <3>2
  <2>8. \A key \in DOMAIN strings' :
          /\ strings'[key].stem.kind # "named"
          /\ key = csv.rows[strings'[key].stem.row].val
    <3>1. CASE strings' = strings  BY <1>1, <3>1 DEF Origin
    <3>2. CASE strings' = Put(strings, val, Code(row, ""))
      <4> SUFFICES ASSUME NEW key \in DOMAIN strings'
                   PROVE  /\ strings'[key].stem.kind # "named"
                          /\ key = csv.rows[strings'[key].stem.row].val
        OBVIOUS
      <4>1. CASE key = val
        <5>1. strings'[key] = Code(row, "")  BY <3>2, <4>1 DEF Put
        <5> QED  BY <2>5, <4>1, <5>1 DEF val
      <4>2. CASE key # val
        <5>1. key \in DOMAIN strings /\ strings'[key] = strings[key]  BY <3>2, <4>2 DEF Put
        <5> QED  BY <1>1, <5>1 DEF Origin
      <4> QED  BY <4>1, <4>2
    <3> QED  BY <2>4, <3>1, <3>2
  <2> QED  BY <2>1, <2>7, <2>8 DEF Origin, CleanPath
<1> QED
  BY <1>2, <1>3 DEF Next, vars, input, maps, OpenFile, Loaded, RenameAsset,
    ApplyPrivateStrings, ApplyPrivateScripts, Finish, Terminated

\* What becomes of the keys of a map when one is put in it.
LEMMA PutKeys == ASSUME NEW f, NEW x, NEW a PROVE DOMAIN Put(f, x, a) = DOMAIN f \cup {x}
BY DEF Put

LEMMA ReadInvKept == NamesInv /\ [Next]_vars => ReadInv'
<1> SUFFICES ASSUME NamesInv, [Next]_vars PROVE ReadInv'  OBVIOUS
<1>1. TypeOK /\ ReadInv  BY DEF NamesInv, IInv
<1>2. CASE UNCHANGED <<csv, codes, row, strings, scripts>> /\ (Reading => Reading' \/ Loaded)
  <2>1. ~Reading' => row = Len(csv.rows) + 1
    <3>1. CASE Loaded
      <4>1. row > Len(csv.rows) /\ row \in 1 .. Len(csv.rows) + 1 /\ Len(csv.rows) \in Nat
        BY <1>1, <3>1, RowsFacts DEF Loaded, TypeOK
      <4> HIDE DEF ReadInv
      <4> QED  BY <4>1
    <3> QED  BY <1>1, <1>2, <3>1 DEF ReadInv
  <2>2. \A n : (ScriptRow(n)' <=> ScriptRow(n)) /\ (StringRow(n)' <=> StringRow(n))
    BY <1>2 DEF ScriptRow, StringRow
  <2>3. \A text : CleanPath(text)' = CleanPath(text)  BY DEF CleanPath
  <2> QED  BY <1>1, <1>2, <2>1, <2>2, <2>3 DEF ReadInv
<1>3. CASE ReadRow
  <2> DEFINE val == csv.rows[row].val
  <2>1. csv' = csv /\ codes' = codes /\ row <= Len(csv.rows) /\ Reading'
    BY <1>3 DEF ReadRow, input, Reading
  <2>2. row \in 1 .. Len(csv.rows) /\ row \in Nat \ {0}
    <3>1. Len(csv.rows) \in Nat  BY <1>1, RowsFacts
    <3> QED  BY <1>1, <2>1, <3>1 DEF TypeOK
  <2>3. val \in TextType /\ val.ext \in Extensions /\ val.size \in Nat
    <3>1. csv.rows[row] \in RowType  BY <1>1, <2>2, RowsFacts
    <3> QED  BY <3>1, TextFields DEF RowType
  <2>4. /\ Fits(Code(row, ""), val) <=> codes[row] <= val.size
        /\ val.ext # "" => (Fits(Code(row, val.ext), val) <=> codes[row] + 4 <= val.size)
    BY DEF Fits, Code
  <2>5. \A n : (ScriptRow(n)' <=> ScriptRow(n)) /\ (StringRow(n)' <=> StringRow(n))
    BY <2>1 DEF ScriptRow, StringRow
  <2>6. CASE UNCHANGED <<row, maps>>
    BY <1>1, <2>1, <2>5, <2>6 DEF ReadInv, maps, CleanPath
  <2>7. CASE row' = row + 1
    <3>1. \/ /\ csv.rows[row].type = "string" /\ ReadString(val)
          \/ /\ csv.rows[row].type = "hash" /\ UNCHANGED <<strings, scripts>>
          \/ /\ csv.rows[row].type = "script" /\ ReadScript(val)
          \/ /\ csv.rows[row].type \notin {"string", "hash", "script"} /\ UNCHANGED maps
      <4>1. row' # row  BY <2>2, <2>7
      <4> QED  BY <1>3, <4>1 DEF ReadRow
    <3>2. DOMAIN scripts' = DOMAIN scripts \cup IF ScriptRow(row) THEN {CleanPath(val)} ELSE {}
      <4>1. CASE ScriptRow(row)
        <5>1. ReadScript(val)  BY <3>1, <4>1 DEF ScriptRow
        <5>2. scripts' = Put(scripts, CleanPath(val), ScriptName(row, val))
          BY <2>4, <4>1, <5>1 DEF ScriptRow, ReadScript
        <5> QED  BY <4>1, <5>2, PutKeys
      <4>2. CASE ~ScriptRow(row)
        <5>1. scripts' = scripts
          BY <2>4, <3>1, <4>2 DEF ScriptRow, ReadScript, ReadString, maps
        <5> QED  BY <4>2, <5>1
      <4> QED  BY <4>1, <4>2
    <3>3. DOMAIN strings' = DOMAIN strings \cup IF StringRow(row) THEN {val} ELSE {}
      <4>1. CASE StringRow(row)
        <5>1. ReadString(val)  BY <3>1, <4>1 DEF StringRow
        <5>2. strings' = Put(strings, val, Code(row, ""))
          BY <2>4, <4>1, <5>1 DEF StringRow, ReadString
        <5> QED  BY <4>1, <5>2, PutKeys
      <4>2. CASE ~StringRow(row)
        <5>1. strings' = strings
          BY <2>4, <3>1, <4>2 DEF StringRow, ReadScript, ReadString, maps
        <5> QED  BY <4>2, <5>1
      <4> QED  BY <4>1, <4>2
    <3> DEFINE clean(n) == CleanPath(csv.rows[n].val)
               text(n) == csv.rows[n].val
    <3>4. 1 .. row' - 1 = (1 .. row - 1) \cup {row}  BY <2>2, <2>7
    <3>5. {clean(n) : n \in {m \in 1 .. row' - 1 : ScriptRow(m)}} = DOMAIN scripts'
      <4>1. {clean(n) : n \in {m \in 1 .. row - 1 : ScriptRow(m)}} = DOMAIN scripts
        BY <1>1 DEF ReadInv
      <4>2. clean(row) = CleanPath(val)  OBVIOUS
      <4> HIDE DEF clean, val
      <4> QED  BY <2>2, <3>2, <3>4, <4>1, <4>2
    <3>6. {text(n) : n \in {m \in 1 .. row' - 1 : StringRow(m)}} = DOMAIN strings'
      <4>1. {text(n) : n \in {m \in 1 .. row - 1 : StringRow(m)}} = DOMAIN strings
        BY <1>1 DEF ReadInv
      <4>2. text(row) = val  OBVIOUS
      <4> HIDE DEF text, val
      <4> QED  BY <2>2, <3>3, <3>4, <4>1, <4>2
    <3> QED  BY <2>1, <2>5, <3>5, <3>6 DEF ReadInv, CleanPath
  <2> QED  BY <1>3, <2>6, <2>7 DEF ReadRow, RowAfter
<1> QED
  BY <1>2, <1>3 DEF Next, vars, input, maps, OpenFile, Loaded, RenameAsset,
    ApplyPrivateStrings, ApplyPrivateScripts, Finish, Terminated, Reading

\* A name without one of the extensions is looked up in vain.
LEMMA OtherNamesStay ==
  ASSUME Origin, NEW text, text.ext \notin Client \cup Server
  PROVE  RenamedScript(text) = text
BY DEF Origin, RenamedScript, Lookup

\* Two texts that were not made for a row get the same text only if they are the same.
LEMMA ScriptsInjective ==
  ASSUME Origin, NEW a, NEW b, a.stem.kind = "named", b.stem.kind = "named",
         RenamedScript(a) = RenamedScript(b)
  PROVE  a = b
BY DEF Origin, RenamedScript, Lookup

LEMMA StringsInjective ==
  ASSUME Origin, NEW a, NEW b, a.stem.kind = "named", b.stem.kind = "named",
         RenamedString(a) = RenamedString(b)
  PROVE  a = b
BY DEF Origin, RenamedString, Lookup

-----------------------------------------------------------------------------
(* The scripts.                                                            *)

LEMMA ZoneFacts ==
  ASSUME IInv
  PROVE  /\ zone \in Seq(ScriptType) /\ original \in Seq(ScriptType)
         /\ DOMAIN zone = 1 .. Len(zone) /\ DOMAIN original = DOMAIN zone
         /\ Len(zone) \in Nat /\ at \in Nat
BY ZonesAssumption DEF IInv, TypeOK

\* While nothing more is read, the texts that a script shall get stay the same.
LEMMA SameIncludes ==
  ASSUME UNCHANGED <<original, scripts>>
  PROVE  \A s : /\ IsScript(s)' <=> IsScript(s)
                /\ \A k : NewInclude(s, k)' = NewInclude(s, k)
BY DEF IsScript, NewInclude, RenamedScriptExt, Key, WithExt, WithoutExt, CleanPath

\* A step of a script leaves all other scripts what they are.
LEMMA OthersStay ==
  ASSUME IInv, TreatedInv, ~Reading, pc # "Failed",
         input' = input, maps' = maps, pc' # "Failed",
         at' = at \/ (at' = at + 1 /\ at <= Len(zone)),
         at' = at => pc' \in {"Strings", "Names"},
         DOMAIN zone' = DOMAIN zone, NEW s \in DOMAIN zone, s # at, zone'[s] = zone[s],
         at' = at + 1 => pc' = "Asset"
  PROVE  Treated(s)'
<1>1. Treated(s)  BY DEF TreatedInv
<1>2. s \in Nat /\ at \in Nat  BY ZoneFacts
<1>3. (s < at') <=> (s < at)  BY <1>2
<1>4. s = at' => s > at /\ pc' = "Asset"  BY <1>2
<1>5. (AssetDone(s))' <=> AssetDone(s)  BY <1>3, <1>4 DEF AssetDone
<1>6. (StringsDone(s))' <=> StringsDone(s)  BY <1>3, <1>4 DEF StringsDone
<1>7. original' = original /\ strings' = strings /\ scripts' = scripts  BY DEF input, maps
<1> QED  BY <1>1, <1>3, <1>5, <1>6, <1>7, SameIncludes DEF Treated, RenamedScript, RenamedString, Lookup

LEMMA AssetTreated == NamesInv /\ RenameAsset => TreatedInv'
<1> SUFFICES ASSUME NamesInv, RenameAsset PROVE TreatedInv'  OBVIOUS
<1>1. /\ IInv /\ TreatedInv /\ ~Reading /\ at <= Len(zone) /\ pc = "Asset" /\ pc' = "Strings"
      /\ input' = input /\ maps' = maps /\ at' = at
  BY DEF NamesInv, RenameAsset, Reading, input, maps
<1>2. /\ at \in DOMAIN zone /\ DOMAIN zone' = DOMAIN zone
      /\ \A s \in DOMAIN zone : s # at => zone'[s] = zone[s]
      /\ zone'[at].asset = RenamedScript(zone[at].asset)
      /\ zone'[at].name = zone[at].name /\ zone'[at].strings = zone[at].strings
      /\ zone'[at].includes = zone[at].includes
  <2>1. zone[at] \in ScriptType /\ at \in DOMAIN zone  BY <1>1, ScriptAt DEF IInv
  <2>2. zone' = [zone EXCEPT ![at].asset = RenamedScript(@)]  BY DEF RenameAsset
  <2> QED  BY <2>1, <2>2 DEF ScriptType
<1>3. ASSUME NEW s \in DOMAIN zone  PROVE Treated(s)'
  <2>1. CASE s # at  BY <1>1, <1>2, <1>3, <2>1, OthersStay
  <2>2. CASE s = at
    <3>1. Treated(at)  BY <1>1, <1>2 DEF TreatedInv
    <3>2. ~(at < at)  BY <1>1, ZoneFacts
    <3>3. ~AssetDone(at) /\ ~StringsDone(at)  BY <1>1, <3>2 DEF AssetDone, StringsDone
    <3>4. (AssetDone(at))' /\ ~(StringsDone(at))' /\ ~(at < at)'
      BY <1>1, <3>2 DEF AssetDone, StringsDone
    <3>5. original' = original /\ strings' = strings /\ scripts' = scripts
      BY <1>1 DEF input, maps
    <3>6. Treated(at)'
      BY <1>1, <1>2, <3>1, <3>2, <3>3, <3>4, <3>5, SameIncludes
      DEF Treated, RenamedScript, RenamedString, Lookup
    <3> QED  BY <1>1, <2>2, <3>6 DEF Treated, AssetDone, StringsDone
  <2> QED  BY <2>1, <2>2
<1> QED  BY <1>1, <1>2, <1>3 DEF TreatedInv, Reading

LEMMA StringsTreated == NamesInv /\ ApplyPrivateStrings => TreatedInv'
<1> SUFFICES ASSUME NamesInv, ApplyPrivateStrings PROVE TreatedInv'  OBVIOUS
<1>1. /\ IInv /\ TreatedInv /\ ~Reading /\ at <= Len(zone) /\ pc = "Strings"
      /\ input' = input /\ maps' = maps /\ pc' \in {"Failed", "Names"} /\ at' = at
  BY DEF NamesInv, IInv, AtInv, ApplyPrivateStrings, Throw, Reading, input, maps
<1>2. CASE pc' = "Failed"  BY <1>2 DEF TreatedInv, Reading
<1>3. CASE pc' = "Names"
  <2> DEFINE list == zone[at].strings
  <2>1. /\ at \in DOMAIN zone /\ DOMAIN zone' = DOMAIN zone
        /\ \A s \in DOMAIN zone : s # at => zone'[s] = zone[s]
        /\ zone'[at].asset = zone[at].asset
        /\ zone'[at].name = zone[at].name /\ zone'[at].includes = zone[at].includes
        /\ zone'[at].strings = [k \in DOMAIN list |->
             IF k <= Len(list) THEN RenamedString(list[k]) ELSE list[k]]
    <3>1. zone[at] \in ScriptType /\ at \in DOMAIN zone  BY <1>1, ScriptAt DEF IInv
    <3>2. zone' = [zone EXCEPT ![at].strings = [k \in DOMAIN list |->
             IF k <= Len(list) THEN RenamedString(list[k]) ELSE list[k]]]
      BY <1>3 DEF ApplyPrivateStrings, Throw
    <3> QED  BY <3>1, <3>2 DEF ScriptType
  <2>2. /\ DOMAIN zone'[at].strings = DOMAIN list
        /\ \A k \in DOMAIN list : zone'[at].strings[k] = RenamedString(list[k])
    <3>1. zone[at].strings \in Seq(TextType)  BY <1>1, ScriptAt DEF IInv, ScriptType
    <3>2. \A k \in DOMAIN list : k <= Len(list)  BY <3>1
    <3> HIDE DEF list
    <3> QED  BY <2>1, <3>2
  <2>3. ASSUME NEW s \in DOMAIN zone  PROVE Treated(s)'
    <3>1. CASE s # at  BY <1>1, <1>3, <2>1, <2>3, <3>1, OthersStay
    <3>2. CASE s = at
      <4>1. Treated(at)  BY <1>1, <2>1 DEF TreatedInv
      <4>2. ~(at < at)  BY <1>1, ZoneFacts
      <4>3. AssetDone(at) /\ ~StringsDone(at)  BY <1>1, <4>2 DEF AssetDone, StringsDone
      <4>4. (AssetDone(at))' /\ (StringsDone(at))' /\ ~(at < at)'
        BY <1>1, <1>3, <4>2 DEF AssetDone, StringsDone
      <4>5. original' = original /\ strings' = strings /\ scripts' = scripts
        BY <1>1 DEF input, maps
      <4>6. Treated(at)'
        BY <1>1, <2>1, <2>2, <4>1, <4>2, <4>3, <4>4, <4>5, SameIncludes
        DEF Treated, RenamedScript, RenamedString, Lookup
      <4> QED  BY <1>1, <3>2, <4>6 DEF Treated, AssetDone, StringsDone
    <3> QED  BY <3>1, <3>2
  <2> QED  BY <1>1, <1>3, <2>1, <2>3 DEF TreatedInv, Reading
<1> QED  BY <1>1, <1>2, <1>3

LEMMA NamesTreated == NamesInv /\ ApplyPrivateScripts => TreatedInv'
<1> SUFFICES ASSUME NamesInv, ApplyPrivateScripts PROVE TreatedInv'  OBVIOUS
<1>1. /\ IInv /\ Origin /\ TreatedInv /\ ~Reading /\ at <= Len(zone) /\ pc = "Names"
      /\ input' = input /\ maps' = maps
  BY DEF NamesInv, IInv, AtInv, ApplyPrivateScripts, Reading, input, maps
<1>2. CASE pc' = "Failed"  BY <1>2 DEF TreatedInv, Reading
<1>3. CASE pc' # "Failed"
  <2>1. zone[at] \in ScriptType /\ at \in DOMAIN zone  BY <1>1, ScriptAt DEF IInv
  <2>2. pc' = "Asset" /\ at' = at + 1  BY <1>3 DEF ApplyPrivateScripts, Throw
  <2>3. /\ DOMAIN zone' = DOMAIN zone
        /\ \A s \in DOMAIN zone : s # at => zone'[s] = zone[s]
        /\ zone'[at].asset = zone[at].asset /\ zone'[at].strings = zone[at].strings
        /\ zone'[at].name = RenamedScript(zone[at].name)
        /\ DOMAIN zone'[at].includes = DOMAIN zone[at].includes
        /\ \A k \in DOMAIN zone[at].includes :
             zone'[at].includes[k] =
               IF zone[at].name.ext \in Client \cup Server
               THEN RenamedScriptExt(zone[at].includes[k], zone[at].name.ext \in Client)
               ELSE zone[at].includes[k]
    <3>1. CASE zone[at].name.ext \notin Client \cup Server
      <4>1. zone' = zone  BY <3>1 DEF ApplyPrivateScripts
      <4>2. RenamedScript(zone[at].name) = zone[at].name  BY <1>1, <3>1, OtherNamesStay
      <4> QED  BY <3>1, <4>1, <4>2
    <3>2. CASE zone[at].name.ext \in Client \cup Server
      <4> DEFINE list == zone[at].includes
                 client == zone[at].name.ext \in Client
                 new == [k \in DOMAIN list |->
                           IF k <= Len(list) THEN RenamedScriptExt(list[k], client) ELSE list[k]]
      <4>1. zone' = [zone EXCEPT ![at].name = InnerName(@), ![at].includes = new]
        BY <1>3, <3>2 DEF ApplyPrivateScripts, Throw
      <4>2. \A k \in DOMAIN list : k <= Len(list)
        <5>1. list \in Seq({t \in TextType : t.ext = ""})  BY <2>1 DEF ScriptType
        <5> HIDE DEF list
        <5>2. DOMAIN list = 1 .. Len(list) /\ Len(list) \in Nat  BY <5>1, Elements
        <5> QED  BY <5>2
      <4>3. new = [k \in DOMAIN list |-> RenamedScriptExt(list[k], client)]  BY <4>2
      <4> HIDE DEF new
      <4>4. /\ DOMAIN zone' = DOMAIN zone
            /\ \A s \in DOMAIN zone : s # at => zone'[s] = zone[s]
            /\ zone'[at].asset = zone[at].asset /\ zone'[at].strings = zone[at].strings
            /\ zone'[at].name = RenamedScript(zone[at].name)
            /\ zone'[at].includes = new
        BY <2>1, <4>1 DEF InnerName, ScriptType
      <4> QED  BY <3>2, <4>3, <4>4
    <3> QED  BY <3>1, <3>2
  <2>4. ASSUME NEW s \in DOMAIN zone  PROVE Treated(s)'
    <3>1. CASE s # at  BY <1>1, <1>3, <2>2, <2>3, <2>4, <3>1, OthersStay
    <3>2. CASE s = at
      <4>1. Treated(at)  BY <1>1, <2>1 DEF TreatedInv
      <4>2. ~(at < at) /\ at < at'  BY <1>1, <2>2, ZoneFacts
      <4>3. AssetDone(at) /\ StringsDone(at)  BY <1>1, <4>2 DEF AssetDone, StringsDone
      <4>4. original' = original /\ strings' = strings /\ scripts' = scripts
        BY <1>1 DEF input, maps
      <4>5. /\ zone[at].name = original[at].name
            /\ DOMAIN zone[at].includes = DOMAIN original[at].includes
            /\ \A k \in DOMAIN zone[at].includes : zone[at].includes[k] = original[at].includes[k]
        BY <4>1, <4>2 DEF Treated
      <4>6. \A k \in DOMAIN zone[at].includes :
              zone'[at].includes[k] =
                IF IsScript(at) THEN NewInclude(at, k) ELSE original[at].includes[k]
        BY <2>3, <4>5 DEF IsScript, NewInclude
      <4>7. \A k \in DOMAIN zone'[at].includes :
              zone'[at].includes[k] =
                IF IsScript(s)' THEN NewInclude(s, k)' ELSE original'[s].includes[k]
        BY <2>3, <3>2, <4>4, <4>6, SameIncludes
      <4> QED
        BY <2>3, <3>2, <4>1, <4>2, <4>3, <4>4, <4>5, <4>7
        DEF Treated, AssetDone, StringsDone, RenamedScript, RenamedString, Lookup
    <3> QED  BY <3>1, <3>2
  <2> QED  BY <1>1, <2>2, <2>3, <2>4 DEF TreatedInv, Reading
<1> QED  BY <1>2, <1>3

LEMMA InitNamesInv == Init => NamesInv
<1> SUFFICES ASSUME Init PROVE NamesInv  OBVIOUS
<1>1. IInv  BY InitIInv
<1>2. Origin  BY DEF Init, Origin
<1>3. TreatedInv  BY DEF Init, TreatedInv, Reading
<1>4. ReadInv
  <2>1. 1 .. row - 1 = {} /\ Reading /\ scripts = <<>> /\ strings = <<>>  BY DEF Init, Reading
  <2> QED  BY <2>1 DEF ReadInv
<1> QED  BY <1>1, <1>2, <1>3, <1>4 DEF NamesInv

LEMMA NextNamesInv == NamesInv /\ [Next]_vars => NamesInv'
<1> SUFFICES ASSUME NamesInv, [Next]_vars PROVE NamesInv'  OBVIOUS
<1>1. IInv' /\ Origin' /\ ReadInv'  BY NextKeeps, OriginKept, ReadInvKept DEF NamesInv
<1>2. TreatedInv'
  <2>1. CASE RenameAsset  BY <2>1, AssetTreated
  <2>2. CASE ApplyPrivateStrings  BY <2>2, StringsTreated
  <2>3. CASE ApplyPrivateScripts  BY <2>3, NamesTreated
  <2>4. CASE OpenFile \/ ReadRow
    <3>1. Reading /\ Reading' /\ UNCHANGED <<original, zone, at>> /\ pc' # "Done"
      BY <2>4 DEF OpenFile, ReadRow, Reading, input
    <3> QED  BY <3>1 DEF NamesInv, TreatedInv
  <2>5. CASE Loaded
    <3>1. Reading /\ at = 1 /\ zone = original /\ pc' = "Asset" /\ UNCHANGED <<original, zone, at>>
      BY <2>5 DEF Loaded, Reading, input, NamesInv, TreatedInv
    <3>2. \A s \in DOMAIN zone : ~(s < 1)  BY ZoneFacts DEF NamesInv
    <3>4. DOMAIN zone = DOMAIN original  BY ZoneFacts DEF NamesInv
    <3>3. \A s \in DOMAIN zone : Treated(s)'
      BY <3>1, <3>2, <3>4 DEF Treated, AssetDone, StringsDone
    <3> QED  BY <3>1, <3>3 DEF TreatedInv, Reading
  <2>6. CASE Finish \/ Terminated \/ UNCHANGED vars
    <3>1. /\ UNCHANGED <<original, zone, at, strings, scripts>>
          /\ pc' = pc \/ (pc = "Asset" /\ pc' = "Done" /\ at > Len(zone))
      BY <2>6 DEF Finish, Terminated, vars, input, maps
    <3>2. \A s \in DOMAIN zone : Treated(s) => Treated(s)'
      BY <3>1, SameIncludes
      DEF Treated, AssetDone, StringsDone, RenamedScript, RenamedString, Lookup
    <3> QED  BY <3>1, <3>2 DEF NamesInv, TreatedInv, Reading
  <2> QED  BY <2>1, <2>2, <2>3, <2>4, <2>5, <2>6 DEF Next
<1> QED  BY <1>1, <1>2 DEF NamesInv

LEMMA NamesInvariance == Spec => []NamesInv
<1> QED  BY InitNamesInv, NextNamesInv, PTL DEF Spec

-----------------------------------------------------------------------------
(* What follows once all have been treated.                                *)

LEMMA AllTreated ==
  ASSUME NamesInv, pc = "Done", NEW s \in DOMAIN zone
  PROVE  /\ zone[s].asset = RenamedScript(original[s].asset)
         /\ zone[s].name = RenamedScript(original[s].name)
         /\ \A k \in DOMAIN zone[s].strings :
              zone[s].strings[k] = RenamedString(original[s].strings[k])
         /\ \A k \in DOMAIN zone[s].includes :
              IsScript(s) => zone[s].includes[k] = NewInclude(s, k)
<1>1. s < at  BY ZoneFacts DEF NamesInv, TreatedInv
<1> QED  BY <1>1 DEF NamesInv, TreatedInv, Treated, Reading, AssetDone, StringsDone

LEMMA NamedBefore ==
  ASSUME IInv, NEW s \in DOMAIN zone
  PROVE  /\ original[s].asset.stem.kind = "named"
         /\ \A k \in DOMAIN zone[s].strings : original[s].strings[k].stem.kind = "named"
         /\ \A k \in DOMAIN original[s].includes : original[s].includes[k].stem.kind = "named"
<1>1. original \in Zones /\ DOMAIN original = DOMAIN zone  BY ZoneFacts DEF IInv, TypeOK
<1> QED  BY <1>1, NewTextsAssumption DEF IInv, Kept, SameLists

\* What the fastfile had where there is something now.
LEMMA TypesBefore ==
  ASSUME NamesInv, pc = "Done", NEW s \in DOMAIN zone
  PROVE  /\ original[s].asset \in TextType /\ original[s].name \in TextType
         /\ \A k \in DOMAIN zone[s].includes :
              /\ k \in DOMAIN original[s].includes
              /\ original[s].includes[k] \in TextType /\ original[s].includes[k].ext = ""
         /\ \A k \in DOMAIN zone[s].strings : original[s].strings[k] \in TextType
<1>1. original[s] \in ScriptType  BY ZoneFacts, Elements DEF NamesInv
<1>2. /\ original[s].asset \in TextType /\ original[s].name \in TextType
      /\ original[s].includes \in Seq({t \in TextType : t.ext = ""})
      /\ original[s].strings \in Seq(TextType)
  BY <1>1 DEF ScriptType
<1>3. /\ \A k \in DOMAIN original[s].includes :
           original[s].includes[k] \in {t \in TextType : t.ext = ""}
      /\ \A k \in DOMAIN original[s].strings : original[s].strings[k] \in TextType
  BY <1>2, Elements
<1>4. DOMAIN zone[s].includes = DOMAIN original[s].includes
  BY DEF NamesInv, TreatedInv, Reading, Treated
<1>5. DOMAIN zone[s].strings = DOMAIN original[s].strings
  BY DEF NamesInv, IInv, Kept, SameLists
<1> QED  BY <1>2, <1>3, <1>4, <1>5

-----------------------------------------------------------------------------
(* Includes.                                                               *)

\* The name an include stands for is one that has no "/" left, and its stem.
LEMMA KeyFacts ==
  ASSUME NEW text \in TextType, NEW client
  PROVE  /\ Key(text, client) \in TextType
         /\ Key(text, client).stem = text.stem
         /\ Key(text, client).ext \in {".gsc", ".csc"}
         /\ CleanPath(Key(text, client)) = Key(text, client)
<1> DEFINE e == IF client THEN ".csc" ELSE ".gsc"
<1>1. e \in Extensions /\ e \in {".gsc", ".csc"}  BY DEF Extensions, Server, Client
<1>2. Key(text, client) = CleanPath(WithExt(text, e))  BY DEF Key
<1> HIDE DEF e
<1>3. /\ WithExt(text, e) \in TextType
      /\ WithExt(text, e).stem = text.stem /\ WithExt(text, e).ext = e
  <2>1. text.size + 4 \in Nat  BY TextFields, FourMore
  <2> QED  BY <1>1, <2>1, TextFields, TextFromFields DEF WithExt
<1> DEFINE long == WithExt(text, e)
<1>4. /\ CleanPath(long) \in TextType /\ CleanPath(long).stem = long.stem
      /\ CleanPath(long).ext = long.ext /\ CleanPath(long).sep # "/"
  <2> HIDE DEF long
  <2>1. long \in TextType  BY <1>3 DEF long
  <2> QED  BY <2>1 DEF CleanPath, TextType, Separators
<1>5. CleanPath(CleanPath(long)) = CleanPath(long)
  <2> HIDE DEF long
  <2> QED  BY <1>4 DEF CleanPath
<1> QED  BY <1>1, <1>2, <1>3, <1>4, <1>5

\* The size of a text survives the loss of its extension.
LEMMA BackAgain ==
  ASSUME NEW text \in TextType, text.sep # "/"
  PROVE  CleanPath(WithExt(WithoutExt(text), text.ext)) = text
<1>1. (text.size - 4) + 4 = text.size
  <2>1. text.size \in Nat  BY TextFields
  <2> HIDE DEF TextType
  <2> QED  BY <2>1
<1>2. text = [stem |-> text.stem, sep |-> text.sep, ext |-> text.ext, size |-> text.size]
  BY DEF TextType
<1>3. WithExt(WithoutExt(text), text.ext)
        = [stem |-> text.stem, sep |-> text.sep, ext |-> text.ext, size |-> text.size]
  BY <1>1 DEF WithExt, WithoutExt
<1> QED  BY <1>2, <1>3 DEF CleanPath

\* The new include of a script stands for what the old one stood for, under its new name.
LEMMA NewIncludeFacts ==
  ASSUME NamesInv, pc = "Done", NEW s \in DOMAIN zone, IsScript(s),
         NEW k \in DOMAIN zone[s].includes
  PROVE  Included(zone[s], zone[s].includes[k])
           = RenamedScript(Included(original[s], original[s].includes[k]))
<1> DEFINE client == original[s].name.ext \in Client
           e == IF client THEN ".csc" ELSE ".gsc"
           text == original[s].includes[k]
           key == Key(text, client)
<1>1. TypeOK /\ Origin  BY DEF NamesInv, IInv
<1>2. text \in TextType  BY TypesBefore
<1>3. zone[s].name.ext = original[s].name.ext
  BY <1>1, AllTreated DEF Origin, RenamedScript, Lookup
<1>4. Included(original[s], text) = key  BY DEF Included, Key
<1>5. zone[s].includes[k] = RenamedScriptExt(text, client)  BY AllTreated DEF NewInclude
<1>6. Included(zone[s], zone[s].includes[k]) = CleanPath(WithExt(RenamedScriptExt(text, client), e))
  BY <1>3, <1>5 DEF Included
<1>7. CleanPath(WithExt(RenamedScriptExt(text, client), e)) = RenamedScript(key)
  <2>1. CASE key \in DOMAIN scripts
    <3>1. /\ scripts[key] \in TextType /\ scripts[key].sep # "/"
          /\ scripts[key].ext = key.ext
      BY <1>1, <2>1 DEF TypeOK, Origin
    <3>2. key.ext = e
      <4>1. WithExt(text, e).ext = e  BY DEF WithExt
      <4>2. key = CleanPath(WithExt(text, e))  BY DEF Key
      <4>3. WithExt(text, e) \in TextType
        <5>1. text.size + 4 \in Nat  BY <1>2, TextFields, FourMore
        <5>2. e \in Extensions  BY DEF Extensions, Server, Client
        <5> HIDE DEF e, text
        <5> QED  BY <1>2, <5>1, <5>2, TextFields, TextFromFields DEF WithExt
      <4> HIDE DEF e, text, key
      <4>4. CleanPath(WithExt(text, e)).ext = WithExt(text, e).ext
        BY <4>3 DEF CleanPath, TextType
      <4> QED  BY <4>1, <4>2, <4>4
    <3>3. RenamedScriptExt(text, client) = WithoutExt(scripts[key])
      BY <2>1 DEF RenamedScriptExt
    <3> HIDE DEF e, key, text, client
    <3> QED  BY <2>1, <3>1, <3>2, <3>3, BackAgain DEF RenamedScript, Lookup
  <2>2. CASE key \notin DOMAIN scripts
    BY <2>2 DEF RenamedScriptExt, RenamedScript, Lookup, Key
  <2> QED  BY <2>1, <2>2
<1> QED  BY <1>4, <1>6, <1>7

-----------------------------------------------------------------------------
(* What is listed.                                                         *)

LEMMA AllRowsRead ==
  ASSUME NamesInv, pc = "Done"
  PROVE  /\ DOMAIN scripts = {CleanPath(csv.rows[n].val) : n \in {m \in DOMAIN csv.rows : ScriptRow(m)}}
         /\ DOMAIN strings = {csv.rows[n].val : n \in {m \in DOMAIN csv.rows : StringRow(m)}}
<1>1. row = Len(csv.rows) + 1  BY DEF NamesInv, ReadInv, Reading
<1>2. Len(csv.rows) \in Nat /\ DOMAIN csv.rows = 1 .. Len(csv.rows)
  BY RowsFacts, Elements DEF NamesInv, IInv
<1>3. 1 .. row - 1 = DOMAIN csv.rows  BY <1>1, <1>2
<1> QED  BY <1>3 DEF NamesInv, ReadInv

\* A script name without "/" is a key exactly when a row that is long enough lists it.
LEMMA ScriptKeys ==
  ASSUME NamesInv, pc = "Done", NEW text \in TextType, CleanPath(text) = text,
         text.ext \in {".gsc", ".gsh", ".csc"}
  PROVE  text \in DOMAIN scripts <=> Listed("script", text)
<1>1. \A n \in DOMAIN csv.rows :
        /\ csv.rows[n].val \in TextType
        /\ CleanPath(csv.rows[n].val).ext = csv.rows[n].val.ext
        /\ CleanPath(csv.rows[n].val).size = csv.rows[n].val.size
  <2>1. \A n \in DOMAIN csv.rows : csv.rows[n] \in RowType
    BY RowsFacts, Elements DEF NamesInv, IInv
  <2> SUFFICES ASSUME NEW n \in DOMAIN csv.rows
               PROVE  /\ csv.rows[n].val \in TextType
                      /\ CleanPath(csv.rows[n].val).ext = csv.rows[n].val.ext
                      /\ CleanPath(csv.rows[n].val).size = csv.rows[n].val.size
    OBVIOUS
  <2>2. csv.rows[n].val \in TextType  BY <2>1 DEF RowType
  <2> QED  BY <2>2 DEF CleanPath, TextType
<1>2. \A n \in DOMAIN csv.rows :
        ScriptRow(n) /\ CleanPath(csv.rows[n].val) = text <=> Lists(n, "script", text)
  BY <1>1 DEF ScriptRow, Lists
<1> QED  BY <1>2, AllRowsRead DEF Listed

\* The keys are names of scripts, and none has a "/" left.
LEMMA KeysAreClean ==
  ASSUME NamesInv, pc = "Done", NEW key \in DOMAIN scripts
  PROVE  Clean(key) /\ key.ext \in {".gsc", ".gsh", ".csc"}
<1>1. PICK n \in DOMAIN csv.rows : ScriptRow(n) /\ key = CleanPath(csv.rows[n].val)
  BY AllRowsRead
<1>2. csv.rows[n] \in RowType  BY RowsFacts, Elements DEF NamesInv, IInv
<1>3. csv.rows[n].val \in TextType  BY <1>2 DEF RowType
<1> QED  BY <1>1, <1>3 DEF ScriptRow, Clean, CleanPath, TextType

\* So an asset that has one is looked up in vain.
LEMMA SlashedStay ==
  ASSUME NamesInv, pc = "Done", NEW text, ~Clean(text)
  PROVE  RenamedScript(text) = text
BY KeysAreClean DEF RenamedScript, Lookup

\* What is made for a row is not what it replaces.
LEMMA Changed ==
  ASSUME NamesInv, NEW text, text.stem.kind = "named"
  PROVE  /\ text \in DOMAIN scripts <=> RenamedScript(text) # text
         /\ text \in DOMAIN strings <=> RenamedString(text) # text
BY DEF NamesInv, Origin, RenamedScript, RenamedString, Lookup

LEMMA ChangedInclude ==
  ASSUME NamesInv, NEW text, text.stem.kind = "named", NEW client
  PROVE  Key(text, client) \in DOMAIN scripts <=> RenamedScriptExt(text, client) # text
<1>1. CASE Key(text, client) \in DOMAIN scripts
  <2>1. RenamedScriptExt(text, client).stem = scripts[Key(text, client)].stem
    BY <1>1 DEF RenamedScriptExt, WithoutExt
  <2>2. scripts[Key(text, client)].stem.kind # "named"  BY <1>1 DEF NamesInv, Origin
  <2> QED  BY <1>1, <2>1, <2>2
<1>2. CASE Key(text, client) \notin DOMAIN scripts  BY <1>2 DEF RenamedScriptExt
<1> QED  BY <1>1, <1>2

\* A script that was called like its asset still is, in whichever of the passes the two are
\* renamed, for every private file and fastfile.
THEOREM ScriptsKeepAssetNames == Spec => []NamesAgree
<1>1. NamesInv => NamesAgree  BY AllTreated DEF NamesAgree
<1> QED  BY <1>1, NamesInvariance, PTL

\* No two assets or strings of a fastfile get one name, and none gets two.
THEOREM NamesStayApart == Spec => []NamesApart
<1>1. NamesInv => NamesApart
  <2> SUFFICES ASSUME NamesInv, pc = "Done", NEW s \in DOMAIN zone, NEW t \in DOMAIN zone
               PROVE  /\ original[s].asset = original[t].asset <=> zone[s].asset = zone[t].asset
                      /\ \A k \in DOMAIN zone[s].strings, m \in DOMAIN zone[t].strings :
                           original[s].strings[k] = original[t].strings[m]
                             <=> zone[s].strings[k] = zone[t].strings[m]
    BY DEF NamesApart
  <2>1. Origin /\ IInv  BY DEF NamesInv
  <2>2. original[s].asset = original[t].asset <=> zone[s].asset = zone[t].asset
    BY <2>1, AllTreated, NamedBefore, ScriptsInjective
  <2>3. ASSUME NEW k \in DOMAIN zone[s].strings, NEW m \in DOMAIN zone[t].strings
        PROVE  original[s].strings[k] = original[t].strings[m]
                 <=> zone[s].strings[k] = zone[t].strings[m]
    BY <2>1, <2>3, AllTreated, NamedBefore, StringsInjective
  <2> QED  BY <2>2, <2>3
<1> QED  BY <1>1, NamesInvariance, PTL

\* Separators apart, a text is listed as it is without them.
LEMMA ListedClean ==
  ASSUME NEW text \in TextType
  PROVE  /\ CleanPath(text) \in TextType /\ CleanPath(CleanPath(text)) = CleanPath(text)
         /\ CleanPath(text).stem = text.stem /\ CleanPath(text).ext = text.ext
         /\ Listed("script", CleanPath(text)) <=> Listed("script", text)
         /\ Clean(text) => CleanPath(text) = text
<1>1. /\ CleanPath(text) \in TextType /\ CleanPath(text).sep # "/"
      /\ CleanPath(text).stem = text.stem /\ CleanPath(text).ext = text.ext
      /\ CleanPath(text).size = text.size
  BY DEF CleanPath, TextType, Separators
<1>2. CleanPath(CleanPath(text)) = CleanPath(text)
  <2> DEFINE clean == CleanPath(text)
  <2>1. clean.sep # "/"  BY <1>1
  <2> HIDE DEF clean
  <2>2. CleanPath(clean) = clean  BY <2>1 DEF CleanPath
  <2> QED  BY <2>2 DEF clean
<1>3. Listed("script", CleanPath(text)) <=> Listed("script", text)
  BY <1>1, <1>2 DEF Listed, Lists
<1> QED  BY <1>1, <1>2, <1>3 DEF Clean, CleanPath

\* Includes that are renamed, with the extension left out, follow the scripts that they name,
\* for the server and for the client; those of a listed script named with "/" lead to it no more.
THEOREM IncludesLead == Spec => []IncludesFollow
<1>1. NamesInv => IncludesFollow
  <2> SUFFICES ASSUME NamesInv, pc = "Done", NEW s \in DOMAIN zone, NEW t \in DOMAIN zone,
                      IsScript(s), NEW k \in DOMAIN zone[s].includes
               PROVE  Leads(zone[s], zone[s].includes[k], zone[t].asset)
                        <=> /\ Leads(original[s], original[s].includes[k], original[t].asset)
                            /\ ~Missed(original[t].asset)
    BY DEF IncludesFollow, IsScript
  <2> DEFINE key == Included(original[s], original[s].includes[k])
             asset == original[t].asset
             clean == CleanPath(asset)
  <2>1. Origin /\ IInv  BY DEF NamesInv
  <2>2. Included(zone[s], zone[s].includes[k]) = RenamedScript(key)  BY NewIncludeFacts
  <2>3. zone[t].asset = RenamedScript(asset)  BY AllTreated
  <2>4. /\ key \in TextType /\ key.stem.kind = "named"
        /\ key.ext \in {".gsc", ".gsh", ".csc"} /\ CleanPath(key) = key
    <3>1. original[s].includes[k] \in TextType /\ original[s].includes[k].stem.kind = "named"
      BY <2>1, TypesBefore, NamedBefore
    <3>2. key = Key(original[s].includes[k], original[s].name.ext \in Client)
      BY DEF Included, Key
    <3> HIDE DEF key
    <3> QED  BY <3>1, <3>2, KeyFacts
  <2>5. asset \in TextType /\ asset.stem.kind = "named"  BY <2>1, TypesBefore, NamedBefore
  <2> SUFFICES RenamedScript(key) = CleanPath(RenamedScript(asset))
                 <=> key = clean /\ ~Missed(asset)
    BY <2>2, <2>3 DEF Leads
  <2> HIDE DEF key, asset, clean
  <2>6. clean.stem.kind = "named"  BY <2>5, ListedClean DEF clean
  <2>7. CASE Clean(asset)
    <3>1. clean = asset /\ ~Missed(asset)  BY <2>5, <2>7, ListedClean DEF clean, Missed
    <3>2. CleanPath(RenamedScript(asset)) = RenamedScript(asset)
      BY <2>1, <2>7 DEF Origin, Clean, CleanPath, RenamedScript, Lookup
    <3> QED  BY <2>1, <2>4, <2>5, <3>1, <3>2, ScriptsInjective
  <2>8. CASE ~Clean(asset)
    <3>1. RenamedScript(asset) = asset  BY <2>8, SlashedStay
    <3>2. Missed(asset) <=> Listed("script", clean)  BY <2>5, <2>8, ListedClean DEF Missed, clean
    <3>3. RenamedScript(key) = clean <=> key = clean /\ key \notin DOMAIN scripts
      BY <2>1, <2>6 DEF Origin, RenamedScript, Lookup
    <3>4. key \in DOMAIN scripts <=> Listed("script", key)  BY <2>4, ScriptKeys
    <3> QED  BY <3>1, <3>2, <3>3, <3>4 DEF clean
  <2> QED  BY <2>7, <2>8
<1> QED  BY <1>1, NamesInvariance, PTL

\* When all have been treated, what a row lists has been replaced everywhere, and nothing else
\* has, however the rows repeat or follow each other.
THEOREM NothingListedStays == Spec => []ListedGone
<1>1. NamesInv => ListedGone
  <2> SUFFICES ASSUME NamesInv, pc = "Done"
               PROVE  /\ StringsGone /\ IncludesGone
                      /\ \A s \in DOMAIN zone : IF Clean(original[s].asset) THEN AssetGone(s)
                                              ELSE zone[s].asset = original[s].asset
    BY DEF ListedGone
  <2>1. IInv  BY DEF NamesInv
  <2>2. StringsGone
    <3> SUFFICES ASSUME NEW s \in DOMAIN zone, NEW k \in DOMAIN zone[s].strings
                 PROVE  original[s].strings[k] # zone[s].strings[k]
                          <=> \E n \in DOMAIN csv.rows :
                                /\ csv.rows[n].val = original[s].strings[k]
                                /\ Lists(n, "string", original[s].strings[k])
      BY DEF StringsGone
    <3> DEFINE text == original[s].strings[k]
    <3>1. text.stem.kind = "named" /\ text \in TextType  BY <2>1, NamedBefore, TypesBefore
    <3>2. zone[s].strings[k] = RenamedString(text)  BY AllTreated
    <3>3. \A n \in DOMAIN csv.rows :
            csv.rows[n].val = text => (Lists(n, "string", text) <=> StringRow(n))
      <4>1. \A n \in DOMAIN csv.rows : codes[n] + 0 = codes[n]
        <5>1. codes \in [1 .. Len(csv.rows) -> CodeSizes] /\ DOMAIN csv.rows = 1 .. Len(csv.rows)
          BY <2>1, RowsFacts, Elements DEF IInv, TypeOK
        <5>2. \A n \in DOMAIN csv.rows : codes[n] \in 0 .. 7  BY <5>1, CodesAssumption
        <5> QED  BY <5>2
      <4> HIDE DEF text
      <4> QED  BY <4>1 DEF Lists, StringRow
    <3> HIDE DEF text
    <3>4. text \in DOMAIN strings <=> \E n \in DOMAIN csv.rows : csv.rows[n].val = text /\ StringRow(n)
      BY AllRowsRead
    <3>5. text \in DOMAIN strings <=> zone[s].strings[k] # text  BY <3>1, <3>2, Changed
    <3> QED  BY <3>3, <3>4, <3>5 DEF text
  <2>3. IncludesGone
    <3> SUFFICES ASSUME NEW s \in DOMAIN zone, IsScript(s), NEW k \in DOMAIN zone[s].includes
                 PROVE  Listed("script", Included(original[s], original[s].includes[k]))
                          <=> zone[s].includes[k] # original[s].includes[k]
      BY DEF IncludesGone, IsScript
    <3> DEFINE text == original[s].includes[k]
               client == original[s].name.ext \in Client
               key == Key(text, client)
    <3>1. text.stem.kind = "named" /\ text \in TextType  BY <2>1, NamedBefore, TypesBefore
    <3>2. Included(original[s], text) = key  BY DEF Included, Key
    <3>3. zone[s].includes[k] = RenamedScriptExt(text, client)  BY AllTreated DEF NewInclude
    <3>4. key \in DOMAIN scripts <=> Listed("script", key)
      <4>1. key \in TextType /\ CleanPath(key) = key /\ key.ext \in {".gsc", ".gsh", ".csc"}
        BY <3>1, KeyFacts
      <4> HIDE DEF key
      <4> QED  BY <4>1, ScriptKeys
    <3>5. key \in DOMAIN scripts <=> RenamedScriptExt(text, client) # text
      <4> HIDE DEF text, client
      <4> QED  BY <3>1, ChangedInclude
    <3> QED  BY <3>2, <3>3, <3>4, <3>5
  <2>4. ASSUME NEW s \in DOMAIN zone, Clean(original[s].asset)  PROVE AssetGone(s)
    <3> DEFINE text == original[s].asset
    <3>1. text.stem.kind = "named" /\ text \in TextType  BY <2>1, NamedBefore, TypesBefore
    <3>2. CleanPath(text) = text  BY <2>4 DEF Clean, CleanPath
    <3>3. zone[s].asset = RenamedScript(text)  BY AllTreated
    <3> HIDE DEF text
    <3>4. text \in DOMAIN scripts <=> zone[s].asset # text  BY <3>1, <3>3, Changed
    <3>5. CASE text.ext \in {".gsc", ".gsh", ".csc"}
      <4>1. text \in DOMAIN scripts <=> Listed("script", text)  BY <3>1, <3>2, <3>5, ScriptKeys
      <4> QED  BY <3>4, <3>5, <4>1 DEF AssetGone, text
    <3>6. CASE text.ext \notin {".gsc", ".gsh", ".csc"}
      <4>1. text \notin DOMAIN scripts  BY <3>6, KeysAreClean
      <4> QED  BY <3>4, <3>6, <4>1 DEF AssetGone, text
    <3> QED  BY <3>5, <3>6
  <2>5. ASSUME NEW s \in DOMAIN zone, ~Clean(original[s].asset)
        PROVE  zone[s].asset = original[s].asset
    BY <2>5, AllTreated, SlashedStay
  <2> QED  BY <2>2, <2>3, <2>4, <2>5
<1> QED  BY <1>1, NamesInvariance, PTL
=============================================================================
