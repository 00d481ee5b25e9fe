------------------------- MODULE PrivateFileProperties -------------------------
(***************************************************************************)
(* What a private file does to the texts of a fastfile, and what it may    *)
(* not do to them.                                                         *)
(***************************************************************************)
EXTENDS PrivateFile

\* The variables keep their types; an include never has an extension.
TypeOK ==
  /\ csv \in Csvs /\ original \in Zones
  /\ codes \in [1 .. Len(csv.rows) -> CodeSizes]
  /\ zone \in Seq(ScriptType) /\ Len(zone) = Len(original)
  /\ pc \in {"File", "Rows", "Asset", "Strings", "Names", "Done", "Refused", "Failed"}
  /\ row \in 1 .. Len(csv.rows) + 1
  /\ \A key \in DOMAIN strings : key \in TextType /\ strings[key] \in TextType
  /\ \A key \in DOMAIN scripts : key \in TextType /\ scripts[key] \in TextType
  /\ \A key \in DOMAIN hashes : key \in TextType /\ hashes[key] \in 1 .. Len(csv.rows)
  /\ at \in 1 .. Len(zone) + 1

(***************************************************************************)
(* At every moment what has been written in place fits: the names of       *)
(* scripts and includes have exactly the size they had (the asset table    *)
(* after them is not moved), and strings are not longer.                   *)
(***************************************************************************)
SizesKept ==
  \A s \in DOMAIN zone :
    /\ zone[s].asset.size = original[s].asset.size
    /\ zone[s].name.size = original[s].name.size
    /\ \A k \in DOMAIN zone[s].includes :
         zone[s].includes[k].size = original[s].includes[k].size
    /\ \A k \in DOMAIN zone[s].strings :
         zone[s].strings[k].size <= original[s].strings[k].size

-----------------------------------------------------------------------------
(* What the private file lists.                                            *)

\* A row lists text and leaves room for a new one.
Lists(n, type, text) ==
  /\ csv.rows[n].type = type
  /\ codes[n] + (IF type = "script" THEN 4 ELSE 0) <= text.size
  /\ CleanPath(csv.rows[n].val) = CleanPath(text)

Listed(type, text) == \E n \in DOMAIN csv.rows : Lists(n, type, text)

Clean(text) == text.sep # "/"

\* An asset that is listed and yet not found, as it is looked up as it is written.
Missed(asset) == ~Clean(asset) /\ Listed("script", asset)

-----------------------------------------------------------------------------
(* The names of scripts, once all have been treated.                       *)

\* The asset that an include of the script s stands for, separators apart.
Included(s, text) ==
  CleanPath(WithExt(text, IF s.name.ext \in Client THEN ".csc" ELSE ".gsc"))

Leads(s, text, asset) == Included(s, text) = CleanPath(asset)

\* An include of a script leads to the scripts of the fastfile that it led to, under their
\* new names, with one exception: to a listed asset named with "/" no include leads any more,
\* as private_file.cpp:158 cleans what an include stands for, and :147 does not clean the asset.
IncludesFollow ==
  pc = "Done" =>
    \A s, t \in DOMAIN zone : original[s].name.ext \in Client \cup Server =>
      \A k \in DOMAIN zone[s].includes :
        Leads(zone[s], zone[s].includes[k], zone[t].asset)
          <=> /\ Leads(original[s], original[s].includes[k], original[t].asset)
              /\ ~Missed(original[t].asset)

\* A script is called what its asset is called, if it was.
NamesAgree ==
  pc = "Done" =>
    \A s \in DOMAIN zone :
      original[s].asset = original[s].name => zone[s].asset = zone[s].name

\* Two texts are the same in the end exactly when they were: no two scripts or strings are
\* confused, and nothing is renamed in one script and not in another.
NamesApart ==
  pc = "Done" =>
    \A s, t \in DOMAIN zone :
      /\ original[s].asset = original[t].asset <=> zone[s].asset = zone[t].asset
      /\ \A k \in DOMAIN zone[s].strings, m \in DOMAIN zone[t].strings :
           original[s].strings[k] = original[t].strings[m]
             <=> zone[s].strings[k] = zone[t].strings[m]

-----------------------------------------------------------------------------
(* Nothing that is listed remains.                                         *)

StringsGone ==
  \A s \in DOMAIN zone : \A k \in DOMAIN zone[s].strings :
    original[s].strings[k] # zone[s].strings[k]
      <=> \E n \in DOMAIN csv.rows :
            csv.rows[n].val = original[s].strings[k] /\ Lists(n, "string", original[s].strings[k])

AssetGone(s) ==
  original[s].asset.ext \in {".gsc", ".gsh", ".csc"} /\ Listed("script", original[s].asset)
    <=> zone[s].asset # original[s].asset

IncludesGone ==
  \A s \in DOMAIN zone : original[s].name.ext \in Client \cup Server =>
    \A k \in DOMAIN zone[s].includes :
      Listed("script", Included(original[s], original[s].includes[k]))
        <=> zone[s].includes[k] # original[s].includes[k]

\* Once done, no string, include or script that the file lists can be read any more,
\* and no other text has changed. Assets named with "/" are the exception: they all stay.
ListedGone ==
  pc = "Done" =>
    /\ StringsGone /\ IncludesGone
    /\ \A s \in DOMAIN zone :
         IF Clean(original[s].asset) THEN AssetGone(s) ELSE zone[s].asset = original[s].asset

-----------------------------------------------------------------------------
(* What a comment says and the code does not do.                           *)

\* private_file.cpp:113-116: an asset "scripts/zm/zm_test_utils.gsc" gets a name of its size.
\* The keys have been cleaned of "/", and the asset that is looked up has not.
SlashedAssetsGone == pc = "Done" => \A s \in DOMAIN zone : AssetGone(s)
=============================================================================
