------------------------------ MODULE MCFastfile ------------------------------
(***************************************************************************)
(* Fastfiles for model checking Fastfile, with the true sizes of the two   *)
(* headers, pages of 64 bytes, and positions that wrap at 800: inputs and  *)
(* most outputs are smaller, but some outputs are not.                     *)
(***************************************************************************)
EXTENDS FastfileRefinement, TLC

Header(compression, size) ==
  [magic |-> TRUE, pcPlatform |-> TRUE, encrypted |-> FALSE,
   compression |-> compression, size |-> size]

\* A block at p that holds n bytes of z from start on.
Block(p, z, start, n, packed, library) ==
  [compressedSize |-> packed, uncompressedSize |-> n, alignedSize |-> Aligned(packed, 4),
   offset |-> p, library |-> library, data |-> [k \in 0 .. n - 1 |-> z[start + k]]]

Zone(n) == [k \in 0 .. n - 1 |-> k % 2]

\* Blocks of 3, 4 and 1 bytes and two empty ones, the second on a page; the script over two.
Paged ==
  LET z == Zone(8)
  IN  [length |-> 788, header |-> Header("zlib", 8), zone |-> z, scripts |-> <<{2, 3}>>,
       blocks |-> (584 :> Block(584, z, 0, 3, 6, "zlib") @@ 608 :> Block(608, z, 3, 0, 0, "zlib")
                   @@ 640 :> Block(640, z, 3, 0, 0, "zlib") @@ 704 :> Block(704, z, 3, 4, 4, "zlib")
                   @@ 724 :> Block(724, z, 7, 0, 0, "zlib") @@ 768 :> Block(768, z, 7, 1, 1, "zlib")),
       starts |-> (584 :> 0 @@ 608 :> 3 @@ 640 :> 3 @@ 704 :> 3 @@ 724 :> 7 @@ 768 :> 7)]

\* Small blocks, all of a zone cut in ones, and two scripts side by side.
Small ==
  LET z == Zone(5)
  IN  [length |-> 684, header |-> Header("uncompressed", 5), zone |-> z,
       scripts |-> <<{1}, {2}>>,
       blocks |-> [p \in {584, 604, 624, 644, 664} |->
                     Block(p, z, (p - 584) \div 20, 1, 1, "none")],
       starts |-> [p \in {584, 604, 624, 644, 664} |-> (p - 584) \div 20]]

\* The same with a larger block behind, which nothing leads to.
Spare ==
  [Small EXCEPT !.length = 708,
                !.blocks = @ @@ 684 :> Block(684, Zone(5), 0, 5, 8, "none"),
                !.starts = @ @@ 684 :> 0]

Empty ==
  [length |-> 584, header |-> Header("lz4", 0), zone |-> <<>>, scripts |-> <<>>,
   blocks |-> <<>>, starts |-> <<>>]

\* What the reader must refuse, each at another point.
Broken ==
  { [Paged EXCEPT !.length = 583], [Paged EXCEPT !.length = 595], [Paged EXCEPT !.length = 760],
    [Paged EXCEPT !.length = 785],
    [Paged EXCEPT !.header.magic = FALSE], [Paged EXCEPT !.header.pcPlatform = FALSE],
    [Paged EXCEPT !.header.encrypted = TRUE], [Paged EXCEPT !.header.compression = "bdelta"],
    [Paged EXCEPT !.header.compression = "unknown"],
    [Paged EXCEPT !.header.compression = "oodle"],
    [Paged EXCEPT !.blocks[704].offset = 640] }

MCFiles == {Paged, Small, Spare, Empty} \cup Broken

\* What FastfileProofs assumes of all files: also the broken ones hold their zones.
ASSUME FilesHoldZones == \A f \in MCFiles : Holds(f)

\* Data of more than three bytes may shrink; any may grow, in small blocks beyond 800.
MCPackedSizes(n) == {n + 40} \cup (IF n > 3 THEN {n - 3} ELSE {})
=============================================================================
