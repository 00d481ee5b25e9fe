-------------------------- MODULE FastfileRefinement --------------------------
(***************************************************************************)
(* Fastfile implements Repack: the zone is what the input holds until it   *)
(* has been read, and what is saved is what the blocks of the output       *)
(* expand to, walked one after the other from the header on.               *)
(***************************************************************************)
EXTENDS FastfileProperties

\* The data of the blocks of f, as a loader that trusts their sizes finds it.
Decoded(f) ==
  LET end == 2 * (f.length + Page)
      from[p \in 0 .. end] ==
        IF p \notin DOMAIN f.blocks THEN <<>>
        ELSE LET b == f.blocks[p]
             IN  [k \in 1 .. b.uncompressedSize |-> b.data[k - 1]] \o from[After(b, p)]
      bytes == from[HeaderSize]
  IN  [k \in 0 .. Len(bytes) - 1 |-> bytes[k + 1]]

Repacking ==
  INSTANCE Repack WITH
    Zones <- {<<f.zone, f.scripts>> : f \in Files},
    NoZone <- NoFile,
    zone <- IF pc \in Reading THEN file.zone ELSE zone,
    scripts <- file.scripts,
    left <- IF pc \in Reading THEN file.scripts ELSE found,
    saved <- IF disk = NoFile THEN NoFile ELSE Decoded(disk)

(***************************************************************************)
(* Blocks, empty blocks, compression and its change are invisible: what a  *)
(* run saves is the zone it read with the scripts, and nothing else,       *)
(* patched, and the next run starts from exactly that.                     *)
(***************************************************************************)
Implements == Repacking!Spec
=============================================================================
