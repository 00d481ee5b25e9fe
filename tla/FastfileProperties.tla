-------------------------- MODULE FastfileProperties --------------------------
(***************************************************************************)
(* What the treatment of a fastfile promises.                              *)
(***************************************************************************)
EXTENDS Fastfile

Reading == {"Header", "Blocks", "Unreadable"}

\* Where the block after the block b at p is.
After(b, p) ==
  IF b.uncompressedSize = 0 THEN Aligned(p + StreamHeader, Page)
  ELSE p + StreamHeader + b.alignedSize

(***************************************************************************)
(* From the first block on, each holds the next part of the zone, until    *)
(* the zone is complete.                                                   *)
(***************************************************************************)
Holds(f) ==
  /\ f.zone \in [0 .. f.header.size - 1 -> Byte]
  /\ f.header.size > 0 => HeaderSize \in DOMAIN f.blocks /\ f.starts[HeaderSize] = 0
  /\ \A p \in DOMAIN f.blocks :
       LET b == f.blocks[p]
           end == f.starts[p] + b.uncompressedSize
           next == After(b, p)
       IN  /\ end <= f.header.size
           /\ DOMAIN b.data = 0 .. b.uncompressedSize - 1
           /\ \A k \in DOMAIN b.data : b.data[k] = f.zone[f.starts[p] + k]
           /\ end < f.header.size => next \in DOMAIN f.blocks /\ f.starts[next] = end

\* A file that holds its zone, and whose blocks are what they say, and where.
Packed(f) ==
  /\ HeaderSize <= f.length /\ Holds(f)
  /\ \A p \in DOMAIN f.blocks :
       LET b == f.blocks[p]
       IN  /\ b.offset = p /\ b.library = Library(f.header.compression)
           /\ p + StreamHeader <= f.length /\ After(b, p) <= f.length
           /\ b.compressedSize <= b.alignedSize

\* Every block but the first follows another and goes on where that ends: there are no spare ones.
Chained(f) ==
  \A p \in DOMAIN f.blocks :
    \/ p = HeaderSize
    \/ \E q \in DOMAIN f.blocks :
         After(f.blocks[q], q) = p /\ f.starts[p] = f.starts[q] + f.blocks[q].uncompressedSize

\* Every variable has its type; the buffer is a file once it has been started.
TypeOK ==
  /\ IsFile(file) /\ target \in Targets
  /\ pc \in Reading \cup {"Scripts", "Compress", "Done", "Failed"}
  /\ {loc, offset, maxBlockSize, remaining, run} \subseteq Nat
  /\ header \in HeaderType /\ header.size = file.header.size
  /\ pc \notin {"Header", "Unreadable"} => zone \in [0 .. header.size - 1 -> Byte]
  /\ found \in Seq(SUBSET (0 .. header.size - 1))
  /\ pc \in {"Compress", "Done"} => IsFile(buffer)
  /\ disk # NoFile => IsFile(disk)

(***************************************************************************)
(* What has been decompressed of a file that holds its zone is the         *)
(* beginning of that zone, whatever empty blocks lie in between.           *)
(***************************************************************************)
ReadsZone ==
  pc = "Blocks" /\ Holds(file) =>
    /\ offset <= header.size
    /\ \A k \in 0 .. offset - 1 : zone[k] = file.zone[k]

\* A file that holds its zone is never refused for its blocks.
ReadsPacked ==
  pc = "Unreadable" => ~Packed(file) \/ ~Accepted(file.header)

\* Positions beyond 32 bits cannot be named.
Wraps(f) == \E p \in DOMAIN f.blocks : p >= Word

(***************************************************************************)
(* The output holds the patched zone: its blocks are where they say, each  *)
(* is followed by the next, none is spare, and together they give every    *)
(* byte, unless the output is too large for 32-bit positions or was not    *)
(* written whole.                                                          *)
(***************************************************************************)
WritesPacked ==
  pc = "Done" /\ disk.length = buffer.length /\ ~Wraps(disk) =>
    Packed(disk) /\ Chained(disk) /\ disk.zone = zone

(***************************************************************************)
(* "used for recompression" (fastfile.cpp:90): no block of the output is   *)
(* larger than the largest of the input, and all but the last are as large *)
(* if the input has no spare blocks, which the reader would not follow.    *)
(***************************************************************************)
BlocksLikeInput ==
  pc \in {"Compress", "Done"} =>
    \A p \in DOMAIN buffer.blocks :
      LET n == buffer.blocks[p].uncompressedSize
      IN  /\ \E q \in DOMAIN file.blocks : n <= file.blocks[q].uncompressedSize
          /\ Holds(file) /\ Chained(file) /\ buffer.starts[p] + n < header.size =>
               \A q \in DOMAIN file.blocks : file.blocks[q].uncompressedSize <= n

(***************************************************************************)
(* Whatever the file says, also one that is refused in the end, the reader *)
(* goes forward with every block and never beyond the file, and every      *)
(* block written takes something from what is left of the zone: the block  *)
(* size found while reading is not 0 when there is something to write.     *)
(***************************************************************************)
LoopsAdvance ==
  [][/\ pc = "Blocks" /\ pc' = pc => loc < loc' /\ loc' <= file.length
     /\ pc = "Compress" /\ pc' = pc => remaining' \in 0 .. remaining - 1]_vars

\* Both loops go forward and end: every run gives an output or an error.
Ends == LoopsAdvance /\ []<>(pc \in {"Done", "Failed", "Unreadable"})

(***************************************************************************)
(* "@return if the file was written" (utils.hpp:128): a run that ends well *)
(* has put all of its output on the disk.                                  *)
(***************************************************************************)
DoneMeansWritten == pc = "Done" => disk.length = buffer.length
=============================================================================
