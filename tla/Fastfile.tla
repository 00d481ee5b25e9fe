------------------------------- MODULE Fastfile -------------------------------
(***************************************************************************)
(* The treatment of a fastfile (fastfile.cpp, and HandleFFFile in          *)
(* main.cpp): its blocks are decompressed one after another into a zone,   *)
(* the scripts found in the zone are obfuscated in place, the zone is cut  *)
(* into blocks again, and the file is written.                             *)
(*                                                                         *)
(* A file is a record: its length; the fields of its header that matter;   *)
(* and its blocks, a function from positions to block headers, each with   *)
(* the data its bytes expand to. Three fields say what was packed, and no  *)
(* program reads them: the zone, where each block starts in it, and the    *)
(* bytes of each script in it, in the order they are found.                *)
(*                                                                         *)
(* Blocks that hold more than the header announces are not part of the     *)
(* files considered: the program writes beyond its zone.                   *)
(***************************************************************************)
EXTENDS Integers, Sequences

CONSTANTS Files,          \* the fastfiles that may be given to the tool
          Byte,           \* the bytes of a zone
          HeaderSize,     \* sizeof(XFileBO3)
          StreamHeader,   \* sizeof(DBStreamHeader)
          Page,           \* the alignment that follows an empty block
          Word,           \* 2^32, the positions a block can say it is at
          Targets,        \* values of --fastfile-compression, "" when not given
          PackedSizes(_), \* the sizes that so many bytes may compress to
          Rooms,          \* how much of an output the disk may take
          MaxRuns,        \* how many times a file goes through the tool
          NoFile          \* nothing has been written

VARIABLES file,         \* the input
          target,       \* --fastfile-compression
          pc,           \* the stage of HandleFFFile
          loc,          \* the reader's position in the input
          offset,       \* how much of the zone has been read
          maxBlockSize, \* FastfileInfo::maxBlockSize
          zone,         \* FastfileInfo::out
          header,       \* FastfileInfo::header
          found,        \* the scripts of the zone not patched yet
          buffer,       \* the output under construction, a file
          remaining,    \* how much of the zone has not been compressed
          disk,         \* the last output written
          run           \* the runs so far, this one included

reader == <<loc, offset, maxBlockSize>>
writer == <<buffer, remaining>>
vars == <<file, target, pc, reader, zone, header, found, writer, disk, run>>

-----------------------------------------------------------------------------
(* Files.                                                                  *)

\* utils::Aligned clears bits; its sizes are powers of two.
Aligned(n, size) == ((n + size - 1) \div size) * size
Least(m, n) == IF m <= n THEN m ELSE n
Latest(m, n) == n
Largest(m, n) == IF m <= n THEN n ELSE m

Supported == {"uncompressed", "zlib", "zlib_hc", "lz4", "lz4_hc"}
Libraries == {"none", "zlib", "lz4"}

\* The library behind a compression: high compression changes only the sizes.
Library(compression) ==
  CASE compression = "uncompressed" -> "none"
    [] compression \in {"zlib", "zlib_hc"} -> "zlib"
    [] compression \in {"lz4", "lz4_hc"} -> "lz4"
    [] OTHER -> "oodle"

Sizes(compression, n) == IF compression = "uncompressed" THEN {n} ELSE PackedSizes(n)

\* Oodle is known but not built in; delta files and unknown ones are refused.
Accepted(h) ==
  h.magic /\ h.pcPlatform /\ ~h.encrypted /\ h.compression \in Supported \cup {"oodle"}

HeaderType ==
  [magic : BOOLEAN, pcPlatform : BOOLEAN, encrypted : BOOLEAN,
   compression : Supported \cup {"oodle", "bdelta", "unknown"}, size : Nat]

IsBlock(b) ==
  /\ {b.compressedSize, b.uncompressedSize, b.alignedSize, b.offset} \subseteq Nat
  /\ b.library \in Libraries
  /\ \E n \in 0 .. b.uncompressedSize : b.data \in [0 .. n - 1 -> Byte]

IsFile(f) ==
  /\ f.length \in Nat /\ f.header \in HeaderType
  /\ DOMAIN f.blocks \subseteq Nat
  /\ \A p \in DOMAIN f.blocks : IsBlock(f.blocks[p])
  /\ f.starts \in [DOMAIN f.blocks -> Nat]
  /\ f.scripts \in Seq(SUBSET (0 .. f.header.size - 1))

ASSUME ByteAssumption == 0 \in Byte
ASSUME FilesAssumption == \A f \in Files : IsFile(f)
ASSUME SizesAssumption ==
  /\ HeaderSize \in Nat /\ HeaderSize % 4 = 0
  /\ StreamHeader \in Nat \ {0} /\ StreamHeader % 4 = 0
  /\ Page \in Nat \ {0} /\ Word \in Nat \ {0}
  /\ \A f \in Files : \A n \in 0 .. f.header.size : PackedSizes(n) \subseteq Nat
ASSUME RunsAssumption == Rooms \subseteq Nat /\ MaxRuns \in Nat

-----------------------------------------------------------------------------
(* Reading the file: DecompressFastfile.                                   *)

Init ==
  /\ file \in Files /\ target \in Targets
  /\ pc = "Header"
  /\ loc = 0 /\ offset = 0 /\ maxBlockSize = 0
  /\ zone = <<>> /\ header = file.header /\ found = <<>>
  /\ buffer = NoFile /\ remaining = 0
  /\ disk = NoFile /\ run = 1

ResizedTooFar(n) == [k \in 0 .. n |-> 0]
Resized(n) == [k \in 0 .. n - 1 |-> 0]

\* An exception in DecompressFastfile.
Reject == pc' = "Unreadable" /\ UNCHANGED <<reader, zone>>

ReadHeader ==
  /\ pc = "Header"
  /\ \/ /\ HeaderSize > file.length \/ ~Accepted(file.header)
        /\ Reject
     \/ /\ HeaderSize <= file.length /\ Accepted(file.header)
        /\ pc' = "Blocks"
        /\ loc' = HeaderSize
        /\ zone' = Resized(header.size)
        /\ UNCHANGED <<offset, maxBlockSize>>
  /\ UNCHANGED <<file, target, header, found, writer, disk, run>>

BlockAfterHeader ==
  /\ loc + StreamHeader <= file.length
  /\ loc \in DOMAIN file.blocks /\ file.blocks[loc].offset = loc - HeaderSize

\* There is a block at the reader's position, and it says so.
BlockHere ==
  /\ loc + StreamHeader <= file.length
  /\ loc \in DOMAIN file.blocks /\ file.blocks[loc].offset = loc

FollowingPeeked(b) ==
  IF b.uncompressedSize = 0 THEN Aligned(loc, Page) ELSE loc + StreamHeader + b.alignedSize

\* Where the reader goes after the block b.
Following(b) ==
  IF b.uncompressedSize = 0 THEN Aligned(loc + StreamHeader, Page)
  ELSE loc + StreamHeader + b.alignedSize

PasteFirst(z, at, data) == [k \in DOMAIN z |-> IF k \in DOMAIN data THEN data[k] ELSE z[k]]
Paste(z, at, data) ==
  [k \in DOMAIN z |-> IF k - at \in DOMAIN data THEN data[k - at] ELSE z[k]]

Legible(b) ==
  /\ Following(b) <= file.length
  /\ b.uncompressedSize > 0 => b.library \in Libraries /\ b.library = Library(header.compression)

(***************************************************************************)
(* An empty block only moves the reader to the next page; the data of any  *)
(* other goes to the zone, where a shorter one leaves zeros.               *)
(***************************************************************************)
DecompressBlock ==
  LET b == file.blocks[loc]
  IN  /\ pc = "Blocks" /\ offset < header.size
      /\ \/ ~BlockHere /\ Reject
         \/ BlockHere /\ ~Legible(b) /\ Reject
         \/ /\ BlockHere /\ Legible(b) /\ pc' = pc
            /\ loc' = Following(b)
            /\ offset' = offset + b.uncompressedSize
            /\ maxBlockSize' = Largest(maxBlockSize, b.uncompressedSize)
            /\ zone' = Paste(zone, offset, b.data)
      /\ UNCHANGED <<file, target, header, found, writer, disk, run>>

-----------------------------------------------------------------------------
(* The scripts: HandleFFFile.                                              *)

\* All are still to be patched, or the search throws (Unterminated of Finder) and none will be.
FindScripts ==
  /\ pc = "Blocks" /\ offset >= header.size
  /\ pc' \in {"Scripts", "Failed"} /\ found' = file.scripts
  /\ UNCHANGED <<file, target, reader, zone, header, writer, disk, run>>

\* A script and its asset name are rewritten in place, or the whole file is given up.
PatchScript ==
  /\ pc = "Scripts" /\ found # <<>>
  /\ \/ pc' = "Failed" /\ UNCHANGED <<zone, found>>
     \/ /\ pc' = pc /\ found' = Tail(found)
        /\ \E image \in [Head(found) -> Byte] :
             zone' = [k \in DOMAIN zone |-> IF k \in Head(found) THEN image[k] ELSE zone[k]]
  /\ UNCHANGED <<file, target, reader, header, writer, disk, run>>

\* The compression may be replaced, and the header starts the output.
StartOutput ==
  /\ pc = "Scripts" /\ found = <<>>
  /\ \/ /\ target \notin Supported \cup {""}
        /\ pc' = "Failed" /\ UNCHANGED <<header, writer>>
     \/ /\ target \in Supported \cup {""}
        /\ header' = IF target = "" THEN header ELSE [header EXCEPT !.compression = target]
        /\ buffer' = [length |-> HeaderSize, header |-> header', blocks |-> <<>>,
                      starts |-> <<>>, zone |-> zone, scripts |-> file.scripts]
        /\ remaining' = header.size
        /\ pc' = "Compress"
  /\ UNCHANGED <<file, target, reader, zone, found, disk, run>>

-----------------------------------------------------------------------------
(* Writing the file: CompressFastfile and WriteFile.                       *)

\* f with item added to its blocks, at p.
Put(f, p, item) == [q \in DOMAIN f \cup {p} |-> IF q = p THEN item ELSE f[q]]

SliceUnmoved(z, at, n) == [k \in 0 .. n - 1 |-> z[k]]
Slice(z, at, n) == [k \in 0 .. n - 1 |-> z[at + k]]

WithoutPadding(length) == length
Padded(length) == Aligned(length, 4)

CompressBlock ==
  LET n == Least(maxBlockSize, remaining)
      start == header.size - remaining
      at == buffer.length
  IN  /\ pc = "Compress" /\ remaining > 0
      /\ \/ pc' = "Failed" /\ UNCHANGED writer
         \/ /\ pc' = pc
            /\ Library(header.compression) \in Libraries
            /\ \E size \in Sizes(header.compression, n) :
                 LET block == [compressedSize |-> size, uncompressedSize |-> n,
                               alignedSize |-> Aligned(size, 4), offset |-> at % Word,
                               library |-> Library(header.compression),
                               data |-> Slice(zone, start, n)]
                 IN  buffer' = [buffer EXCEPT !.blocks = Put(@, at, block),
                                  !.starts = Put(@, at, start),
                                  !.length = Padded(at + StreamHeader + size)]
            /\ remaining' = remaining - n
      /\ UNCHANGED <<file, target, reader, zone, header, found, disk, run>>

\* The file cannot be opened, or what the disk takes of it is written.
WriteFile ==
  /\ pc = "Compress" /\ remaining = 0
  /\ \/ pc' = "Failed" /\ UNCHANGED disk
     \/ /\ pc' = "Done"
        /\ \E room \in Rooms : disk' = [buffer EXCEPT !.length = Least(@, room)]
  /\ UNCHANGED <<file, target, reader, zone, header, found, writer, run>>

\* The user gives the output to the tool again.
Again ==
  /\ pc = "Done" /\ run < MaxRuns
  /\ file' = disk /\ run' = run + 1 /\ pc' = "Header"
  /\ loc' = 0 /\ offset' = 0 /\ maxBlockSize' = 0
  /\ zone' = <<>> /\ header' = disk.header /\ found' = <<>>
  /\ buffer' = NoFile /\ remaining' = 0
  /\ UNCHANGED <<target, disk>>

Terminated ==
  /\ pc \in {"Failed", "Unreadable"} \/ (pc = "Done" /\ run >= MaxRuns)
  /\ UNCHANGED vars

Next ==
  \/ ReadHeader \/ DecompressBlock \/ FindScripts \/ PatchScript \/ StartOutput
  \/ CompressBlock \/ WriteFile \/ Again \/ Terminated

Spec == Init /\ [][Next]_vars /\ WF_vars(Next)
=============================================================================
