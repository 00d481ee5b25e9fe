--------------------------- MODULE FastfileProofs ---------------------------
(***************************************************************************)
(* Proofs about Fastfile for every file, page size, compressor and number  *)
(* of runs: what is read is what was packed, what is written can be read   *)
(* back and gives the patched zone, in blocks as large as those of the     *)
(* input; both loops go forward; and Fastfile implements Repack.           *)
(***************************************************************************)
EXTENDS FastfileRefinement, SequenceTheorems, WellFoundedInduction, TLAPS

-----------------------------------------------------------------------------
(* The inductive invariant.                                                *)

KnownSizes == {f.header.size : f \in Files}

\* A file whose zone has the size of one of the files first given.
Known(f) == IsFile(f) /\ f.header.size \in KnownSizes

TypeInv ==
  /\ Known(file) /\ target \in Targets
  /\ pc \in Reading \cup {"Scripts", "Compress", "Done", "Failed"}
  /\ loc \in Nat /\ offset \in Nat /\ maxBlockSize \in Nat /\ remaining \in Nat /\ run \in Nat
  /\ header \in HeaderType /\ header.size = file.header.size
  /\ pc \in Reading => header = file.header
  /\ pc \notin {"Header", "Unreadable"} => zone \in [0 .. header.size - 1 -> Byte]
  /\ found \in Seq(SUBSET (0 .. header.size - 1))
  /\ disk = NoFile \/ Known(disk)

\* The reader stands at the block that continues what it has read.
ReaderInv ==
  /\ pc = "Blocks" /\ Holds(file) =>
       /\ offset <= header.size
       /\ offset < header.size => loc \in DOMAIN file.blocks /\ file.starts[loc] = offset
       /\ \A k \in 0 .. offset - 1 : zone[k] = file.zone[k]
  /\ pc = "Header" => offset = 0
  /\ pc \in {"Header", "Blocks"} => offset = 0 \/ maxBlockSize > 0
  /\ pc \in {"Scripts", "Compress"} => header.size = 0 \/ maxBlockSize > 0

IsBuffer(f) ==
  /\ f = [length |-> f.length, header |-> f.header, blocks |-> f.blocks,
          starts |-> f.starts, zone |-> f.zone, scripts |-> f.scripts]
  /\ IsFile(f) /\ f.header = header /\ f.zone = zone

\* A block of f at p, when f holds the first total bytes of its zone.
BlockPlaced(f, p, total) ==
  LET b == f.blocks[p]
      end == f.starts[p] + b.uncompressedSize
      next == p + StreamHeader + b.alignedSize
  IN  /\ b.offset = p % Word /\ b.library = Library(f.header.compression)
      /\ b.uncompressedSize > 0 /\ b.compressedSize <= b.alignedSize
      /\ next <= f.length /\ end <= total
      /\ DOMAIN b.data = 0 .. b.uncompressedSize - 1
      /\ \A k \in DOMAIN b.data : b.data[k] = f.zone[f.starts[p] + k]
      /\ end < total => next \in DOMAIN f.blocks /\ f.starts[next] = end
      /\ end = total => next = f.length

\* The blocks written hold the beginning of the zone, one right after the other.
BlocksPlaced(f, total) ==
  /\ HeaderSize <= f.length /\ f.length % 4 = 0
  /\ total = 0 => DOMAIN f.blocks = {} /\ f.length = HeaderSize
  /\ total > 0 => HeaderSize \in DOMAIN f.blocks /\ f.starts[HeaderSize] = 0
  /\ \A p \in DOMAIN f.blocks : BlockPlaced(f, p, total)

WriterInv ==
  /\ pc \in {"Compress", "Done"} =>
       /\ IsBuffer(buffer)
       /\ remaining <= header.size
       /\ BlocksPlaced(buffer, header.size - remaining)
  /\ pc = "Done" =>
       /\ remaining = 0 /\ Known(disk)
       /\ disk.length <= buffer.length /\ disk.header = header /\ disk.zone = zone
       /\ disk.blocks = buffer.blocks /\ disk.starts = buffer.starts

IInv == TypeInv /\ ReaderInv /\ WriterInv /\ ReadsPacked

-----------------------------------------------------------------------------
(* Files and their sizes.                                                  *)

\* Aligning a number moves it forward.
LEMMA AlignedForward ==
  ASSUME NEW n \in Nat, NEW size \in Nat \ {0}
  PROVE  Aligned(n, size) \in Nat /\ n <= Aligned(n, size)
<1> DEFINE m == n + size - 1
<1>1. m \in Nat  OBVIOUS
<1>2. m = size * (m \div size) + (m % size) /\ m % size \in 0 .. size - 1 /\ m \div size \in Nat
  BY <1>1
<1>3. size * (m \div size) = (m \div size) * size  BY <1>2
<1> QED  BY <1>1, <1>2, <1>3 DEF Aligned

\* A header and the padded data after it, from a multiple of 4, end at one.
LEMMA PaddedBlock ==
  ASSUME NEW at \in Nat, at % 4 = 0, NEW size \in Nat
  PROVE  /\ Aligned(size, 4) \in Nat /\ size <= Aligned(size, 4)
         /\ Padded(at + StreamHeader + size) = at + StreamHeader + Aligned(size, 4)
         /\ Padded(at + StreamHeader + size) % 4 = 0
<1>1. StreamHeader \in Nat /\ StreamHeader % 4 = 0  BY SizesAssumption
<1>2. PICK a \in Nat : at = 4 * a  
  <2>1. at = 4 * (at \div 4) /\ at \div 4 \in Nat  OBVIOUS
  <2> QED  BY <2>1
<1>3. PICK s \in Nat : StreamHeader = 4 * s
  <2>1. StreamHeader = 4 * (StreamHeader \div 4) /\ StreamHeader \div 4 \in Nat  BY <1>1
  <2> QED  BY <2>1
<1>4. (4 * a + 4 * s + size + 4 - 1) \div 4 = a + s + ((size + 4 - 1) \div 4)  OBVIOUS
<1> QED  BY <1>2, <1>3, <1>4 DEF Aligned, Padded

\* What the compressor may return is a number.
LEMMA SizesAreNat ==
  ASSUME NEW total \in KnownSizes, NEW n \in 0 .. total, NEW compression
  PROVE  Sizes(compression, n) \subseteq Nat
<1>1. PICK f \in Files : total = f.header.size  BY DEF KnownSizes
<1>2. f.header.size \in Nat  BY FilesAssumption DEF IsFile, HeaderType
<1> QED  BY <1>1, <1>2, SizesAssumption DEF Sizes

\* The fields of a block of a file.
LEMMA BlockFacts ==
  ASSUME NEW f, IsFile(f), NEW p \in DOMAIN f.blocks
  PROVE  /\ p \in Nat /\ f.starts[p] \in Nat
         /\ f.blocks[p].compressedSize \in Nat /\ f.blocks[p].uncompressedSize \in Nat
         /\ f.blocks[p].alignedSize \in Nat /\ f.blocks[p].offset \in Nat
         /\ f.blocks[p].library \in Libraries
         /\ \A k \in DOMAIN f.blocks[p].data : k \in Nat /\ f.blocks[p].data[k] \in Byte
<1>1. IsBlock(f.blocks[p]) /\ p \in Nat /\ f.starts[p] \in Nat  BY DEF IsFile
<1>2. PICK n \in 0 .. f.blocks[p].uncompressedSize : f.blocks[p].data \in [0 .. n - 1 -> Byte]
  BY <1>1 DEF IsBlock
<1> QED  BY <1>1, <1>2 DEF IsBlock

\* A file keeps its type when its length or its zone is replaced.
LEMMA SameFile ==
  ASSUME NEW f, NEW g, IsFile(f), g.length \in Nat, g.header = f.header, g.blocks = f.blocks,
         g.starts = f.starts, g.scripts = f.scripts
  PROVE  IsFile(g)
BY DEF IsFile

\* Data pasted into a zone leaves a zone.
LEMMA PasteZone ==
  ASSUME NEW n \in Nat, NEW z \in [0 .. n - 1 -> Byte], NEW at \in Nat, NEW data,
         \A k \in DOMAIN data : data[k] \in Byte
  PROVE  Paste(z, at, data) \in [0 .. n - 1 -> Byte]
BY DEF Paste

-----------------------------------------------------------------------------
(* Each action preserves the invariant.                                    *)

\* The invariant holds before the file is read.
LEMMA InitIInv ==
  ASSUME Init
  PROVE  IInv
<1>1. Known(file)  BY FilesAssumption DEF Init, Known, KnownSizes
<1>2. file.header \in HeaderType /\ file.header.size \in Nat  BY <1>1 DEF Known, IsFile, HeaderType
<1>3. TypeInv
  <2>1. found \in Seq(SUBSET (0 .. header.size - 1))  BY EmptySeq DEF Init
  <2> QED  BY <1>1, <1>2, <2>1 DEF Init, TypeInv, Reading
<1> QED  BY <1>3 DEF Init, IInv, ReaderInv, WriterInv, ReadsPacked

\* The header starts the zone, or the file is refused for its header.
LEMMA ReadHeaderStep ==
  ASSUME IInv, ReadHeader
  PROVE  IInv'
<1>1. /\ UNCHANGED <<file, target, header, found, buffer, remaining, disk, run>>
      /\ pc = "Header" /\ pc' \in {"Blocks", "Unreadable"}
  BY DEF ReadHeader, Reject, writer
<1>2. header.size \in Nat /\ header = file.header  BY <1>1 DEF IInv, TypeInv, HeaderType, Reading
<1>3. CASE pc' = "Unreadable"
  <2>1. HeaderSize > file.length \/ ~Accepted(file.header)  BY <1>3 DEF ReadHeader
  <2>2. UNCHANGED <<loc, offset, maxBlockSize, zone>>  BY <1>3 DEF ReadHeader, Reject, reader
  <2>3. ReadsPacked'
    <3>1. HeaderSize \in Nat /\ file.length \in Nat
      BY SizesAssumption DEF IInv, TypeInv, Known, IsFile
    <3> QED  BY <1>1, <2>1, <3>1 DEF ReadsPacked, Packed, Holds, After
  <2>4. TypeInv'  BY <1>1, <1>3, <2>2 DEF IInv, TypeInv, Reading, Known, KnownSizes
  <2> QED  BY <1>1, <1>3, <2>3, <2>4 DEF IInv, ReaderInv, WriterInv
<1>4. CASE pc' = "Blocks"
  <2>1. /\ loc' = HeaderSize /\ zone' = Resized(header.size)
        /\ UNCHANGED <<offset, maxBlockSize>>
    BY <1>4 DEF ReadHeader, Reject
  <2>2. zone' \in [0 .. header.size - 1 -> Byte]  BY <2>1, ByteAssumption DEF Resized
  <2>3. offset = 0  BY <1>1 DEF IInv, ReaderInv
  <2>4. TypeInv'
    BY <1>1, <1>2, <1>4, <2>1, <2>2, SizesAssumption
    DEF IInv, TypeInv, Reading, Known, KnownSizes
  <2>5. ReaderInv'
    BY <1>1, <1>2, <1>4, <2>1, <2>3 DEF ReaderInv, Holds
  <2> QED  BY <1>1, <1>4, <2>4, <2>5 DEF IInv, WriterInv, ReadsPacked
<1> QED  BY <1>1, <1>3, <1>4

\* Where the reader goes is where the next block of a packed file is.
LEMMA FollowingNat ==
  ASSUME IInv, pc = "Blocks", BlockHere
  PROVE  /\ Following(file.blocks[loc]) = After(file.blocks[loc], loc)
         /\ Following(file.blocks[loc]) \in Nat
<1> DEFINE b == file.blocks[loc]
<1>1. loc \in Nat /\ b.uncompressedSize \in Nat /\ b.alignedSize \in Nat
  BY BlockFacts DEF IInv, TypeInv, Known, BlockHere
<1>2. StreamHeader \in Nat /\ Page \in Nat \ {0}  BY SizesAssumption
<1>3. Aligned(loc + StreamHeader, Page) \in Nat
  <2>1. loc + StreamHeader \in Nat  BY <1>1, <1>2
  <2> QED  BY <1>2, <2>1, AlignedForward
<1> QED  BY <1>1, <1>2, <1>3 DEF Following, After

\* A block of a packed file is never refused.
LEMMA PackedLegible ==
  ASSUME IInv, pc = "Blocks", offset < header.size, Packed(file)
  PROVE  BlockHere /\ Legible(file.blocks[loc])
<1>1. loc \in DOMAIN file.blocks  BY DEF IInv, ReaderInv, Packed
<1>2. BlockHere  BY <1>1 DEF Packed, BlockHere
<1>3. Following(file.blocks[loc]) <= file.length
  BY <1>1, <1>2, FollowingNat DEF Packed
<1>4. file.blocks[loc].library \in Libraries  BY <1>1, BlockFacts DEF IInv, TypeInv, Known
<1>5. file.blocks[loc].library = Library(header.compression)
  BY <1>1 DEF Packed, IInv, TypeInv, Reading
<1> QED  BY <1>2, <1>3, <1>4, <1>5 DEF Legible

\* The data of a block of a packed file continues what has been read.
LEMMA PasteContinues ==
  ASSUME IInv, pc = "Blocks", offset < header.size, Holds(file),
         NEW b, b = file.blocks[loc]
  PROVE  /\ offset + b.uncompressedSize <= header.size
         /\ \A k \in 0 .. offset + b.uncompressedSize - 1 :
              Paste(zone, offset, b.data)[k] = file.zone[k]
<1>1. loc \in DOMAIN file.blocks /\ file.starts[loc] = offset  BY DEF IInv, ReaderInv
<1>2. offset \in Nat /\ b.uncompressedSize \in Nat /\ header.size \in Nat
  BY <1>1, BlockFacts DEF IInv, TypeInv, Known, HeaderType
<1>3. offset + b.uncompressedSize <= header.size
  BY <1>1, <1>2 DEF Holds, IInv, TypeInv
<1>4. /\ DOMAIN b.data = 0 .. b.uncompressedSize - 1
      /\ \A k \in DOMAIN b.data : b.data[k] = file.zone[offset + k]
  BY <1>1 DEF Holds
<1>5. DOMAIN zone = 0 .. header.size - 1  BY DEF IInv, TypeInv
<1>6. ASSUME NEW k \in 0 .. offset + b.uncompressedSize - 1
      PROVE  Paste(zone, offset, b.data)[k] = file.zone[k]
  <2>1. k \in DOMAIN zone  BY <1>2, <1>3, <1>5
  <2>2. CASE k < offset
    <3>1. k - offset \notin DOMAIN b.data  BY <1>2, <1>4, <2>2
    <3>2. zone[k] = file.zone[k]  BY <1>2, <2>2 DEF IInv, ReaderInv
    <3> QED  BY <2>1, <3>1, <3>2 DEF Paste
  <2>3. CASE k >= offset
    <3>1. k - offset \in DOMAIN b.data /\ offset + (k - offset) = k  BY <1>2, <1>4, <2>3
    <3> QED  BY <1>4, <2>1, <3>1 DEF Paste
  <2> QED  BY <1>2, <2>2, <2>3
<1> QED  BY <1>3, <1>6

\* A block extends what has been read, or the file is refused.
LEMMA DecompressBlockStep ==
  ASSUME IInv, DecompressBlock
  PROVE  IInv'
<1> DEFINE b == file.blocks[loc]
<1>1. /\ UNCHANGED <<file, target, header, found, buffer, remaining, disk, run>>
      /\ pc = "Blocks" /\ offset < header.size
  BY DEF DecompressBlock, writer
<1>2. header.size \in Nat /\ offset \in Nat /\ maxBlockSize \in Nat
  BY DEF IInv, TypeInv, HeaderType
<1>3. CASE Reject /\ ~(BlockHere /\ Legible(b))
  <2>1. pc' = "Unreadable" /\ UNCHANGED <<loc, offset, maxBlockSize, zone>>
    BY <1>3 DEF Reject, reader
  <2>2. ~Packed(file)  BY <1>1, <1>3, PackedLegible
  <2>3. ReadsPacked'  BY <1>1, <2>2 DEF ReadsPacked, Packed, Holds, After
  <2>4. TypeInv'  BY <1>1, <2>1 DEF IInv, TypeInv, Reading, Known, KnownSizes
  <2> QED  BY <2>1, <2>3, <2>4 DEF IInv, ReaderInv, WriterInv
<1>4. CASE /\ BlockHere /\ Legible(b) /\ pc' = pc
           /\ loc' = Following(b)
           /\ offset' = offset + b.uncompressedSize
           /\ maxBlockSize' = Largest(maxBlockSize, b.uncompressedSize)
           /\ zone' = Paste(zone, offset, b.data)
  <2>1. loc \in DOMAIN file.blocks /\ loc' \in Nat /\ loc' = After(b, loc)
    BY <1>1, <1>4, FollowingNat DEF BlockHere
  <2>2. b.uncompressedSize \in Nat /\ \A k \in DOMAIN b.data : b.data[k] \in Byte
    BY <2>1, BlockFacts DEF IInv, TypeInv, Known
  <2>3. zone' \in [0 .. header.size - 1 -> Byte]
    BY <1>1, <1>2, <1>4, <2>2, PasteZone DEF IInv, TypeInv, Reading
  <2>4. /\ offset' \in Nat /\ maxBlockSize' \in Nat
        /\ offset' = 0 \/ maxBlockSize' > 0
    BY <1>1, <1>2, <1>4, <2>2 DEF Largest, IInv, ReaderInv
  <2>5. TypeInv'
    BY <1>1, <1>4, <2>1, <2>3, <2>4 DEF IInv, TypeInv, Reading, Known, KnownSizes
  <2>6. ASSUME Holds(file)
        PROVE  /\ offset' <= header.size
               /\ offset' < header.size => loc' \in DOMAIN file.blocks /\ file.starts[loc'] = offset'
               /\ \A k \in 0 .. offset' - 1 : zone'[k] = file.zone[k]
    <3>1. file.starts[loc] = offset  BY <1>1, <2>6 DEF IInv, ReaderInv
    <3>2. offset' < header.size => loc' \in DOMAIN file.blocks /\ file.starts[loc'] = offset'
      BY <1>4, <2>1, <2>6, <3>1 DEF Holds, IInv, TypeInv
    <3>3. /\ offset + b.uncompressedSize <= header.size
          /\ \A k \in 0 .. offset + b.uncompressedSize - 1 :
               Paste(zone, offset, b.data)[k] = file.zone[k]
      BY <1>1, <2>6, PasteContinues
    <3>4. offset' <= header.size  BY <1>4, <3>3
    <3>5. \A k \in 0 .. offset' - 1 : zone'[k] = file.zone[k]
      <4>1. offset' = offset + b.uncompressedSize /\ zone' = Paste(zone, offset, b.data)  BY <1>4
      <4>2. offset + b.uncompressedSize - 1 = offset' - 1  BY <1>2, <2>2, <4>1
      <4> HIDE DEF b
      <4> QED  BY <3>3, <4>1, <4>2
    <3> QED  BY <3>2, <3>4, <3>5
  <2>7. ReaderInv'
    BY <1>1, <1>4, <2>4, <2>6 DEF ReaderInv, Holds, After
  <2> QED  BY <1>1, <1>4, <2>5, <2>7 DEF IInv, WriterInv, ReadsPacked
<1> QED  BY <1>3, <1>4 DEF DecompressBlock

\* The whole zone has been read: what is kept of the reader is the block size.
LEMMA FindScriptsStep ==
  ASSUME IInv, FindScripts
  PROVE  IInv'
<1>1. /\ UNCHANGED <<file, target, loc, offset, maxBlockSize, zone, header, buffer, remaining, disk, run>>
      /\ pc = "Blocks" /\ pc' \in {"Scripts", "Failed"} /\ found' = file.scripts /\ offset >= header.size
  BY DEF FindScripts, reader, writer
<1>2. header.size \in Nat /\ offset \in Nat /\ header.size = file.header.size
  BY DEF IInv, TypeInv, HeaderType
<1>3. found' \in Seq(SUBSET (0 .. header.size - 1))
  BY <1>1, <1>2 DEF IInv, TypeInv, Known, IsFile
<1>4. TypeInv'  BY <1>1, <1>3 DEF IInv, TypeInv, Reading, Known, KnownSizes
<1>5. ReaderInv'  BY <1>1, <1>2 DEF IInv, ReaderInv
<1> QED  BY <1>1, <1>4, <1>5 DEF IInv, WriterInv, ReadsPacked

\* A script is rewritten in the zone, whose size stays.
LEMMA PatchScriptStep ==
  ASSUME IInv, PatchScript
  PROVE  IInv'
<1>1. /\ UNCHANGED <<file, target, loc, offset, maxBlockSize, header, buffer, remaining, disk, run>>
      /\ pc = "Scripts" /\ found # <<>> /\ pc' \in {"Scripts", "Failed"}
  BY DEF PatchScript, reader, writer
<1>2. found \in Seq(SUBSET (0 .. header.size - 1))  BY DEF IInv, TypeInv
<1>3. zone \in [0 .. header.size - 1 -> Byte]  BY <1>1 DEF IInv, TypeInv
<1>4. zone' \in [0 .. header.size - 1 -> Byte] /\ found' \in Seq(SUBSET (0 .. header.size - 1))
  <2>1. CASE UNCHANGED <<zone, found>>  BY <1>2, <1>3, <2>1
  <2>2. CASE /\ found' = Tail(found)
             /\ \E image \in [Head(found) -> Byte] :
                  zone' = [k \in DOMAIN zone |-> IF k \in Head(found) THEN image[k] ELSE zone[k]]
    <3>1. found' \in Seq(SUBSET (0 .. header.size - 1))  BY <1>1, <1>2, <2>2, HeadTailProperties
    <3>2. zone' \in [0 .. header.size - 1 -> Byte]  BY <1>3, <2>2
    <3> QED  BY <3>1, <3>2
  <2> QED  BY <2>1, <2>2 DEF PatchScript
<1>5. TypeInv'  BY <1>1, <1>4 DEF IInv, TypeInv, Reading, Known, KnownSizes
<1>6. ReaderInv'  BY <1>1 DEF IInv, ReaderInv
<1> QED  BY <1>1, <1>5, <1>6 DEF IInv, WriterInv, ReadsPacked

\* The empty sequence is the function without arguments.
LEMMA NoBlocks == DOMAIN <<>> = {} /\ <<>> \in [{} -> Nat]
<1>1. <<>> \in Seq(Nat) /\ Len(<<>>) = 0  BY EmptySeq
<1>2. DOMAIN <<>> = 1 .. 0  BY <1>1
<1>3. DOMAIN <<>> = {}  BY <1>2
<1>4. <<>> = [i \in 1 .. 0 |-> 0]  BY <1>1
<1> QED  BY <1>3, <1>4

\* The output starts as a file without blocks, with the patched zone to hold.
LEMMA StartOutputStep ==
  ASSUME IInv, StartOutput
  PROVE  IInv'
<1>1. /\ UNCHANGED <<file, target, loc, offset, maxBlockSize, zone, found, disk, run>>
      /\ pc = "Scripts" /\ pc' \in {"Compress", "Failed"}
  BY DEF StartOutput, reader
<1>2. header \in HeaderType /\ header.size \in Nat  BY DEF IInv, TypeInv, HeaderType
<1>3. CASE pc' = "Failed" /\ UNCHANGED <<header, buffer, remaining>>
  <2>1. TypeInv'  BY <1>1, <1>3 DEF IInv, TypeInv, Reading, Known, KnownSizes
  <2> QED  BY <1>1, <1>3, <2>1 DEF IInv, ReaderInv, WriterInv, ReadsPacked
<1>4. CASE /\ target \in Supported \cup {""}
           /\ header' = IF target = "" THEN header ELSE [header EXCEPT !.compression = target]
           /\ buffer' = [length |-> HeaderSize, header |-> header', blocks |-> <<>>,
                         starts |-> <<>>, zone |-> zone, scripts |-> file.scripts]
           /\ remaining' = header.size
           /\ pc' = "Compress"
  <2>0. /\ buffer'.blocks = <<>> /\ buffer'.starts = <<>> /\ buffer'.length = HeaderSize
        /\ remaining' = header.size
    BY <1>4
  <2>1. header' \in HeaderType /\ header'.size = header.size  BY <1>2, <1>4 DEF HeaderType
  <2>2. TypeInv'
    BY <1>1, <1>2, <1>4, <2>1 DEF IInv, TypeInv, Reading, Known, KnownSizes
  <2>3. ReaderInv'  BY <1>1, <1>4, <2>1 DEF IInv, ReaderInv
  <2>4. IsFile(buffer')
    <3>1. DOMAIN buffer'.blocks = {} /\ buffer'.starts \in [{} -> Nat]  BY <2>0, NoBlocks
    <3>2. buffer'.scripts \in Seq(SUBSET (0 .. buffer'.header.size - 1))
      BY <1>4, <2>1 DEF IInv, TypeInv, Known, IsFile
    <3> QED  BY <1>4, <2>1, <3>1, <3>2, SizesAssumption DEF IsFile
  <2>5. IsBuffer(buffer)'  BY <1>1, <1>4, <2>4 DEF IsBuffer
  <2>6. BlocksPlaced(buffer', 0)
    <3>1. DOMAIN buffer'.blocks = {} /\ buffer'.length = HeaderSize  BY <2>0, NoBlocks
    <3> QED  BY <3>1, SizesAssumption DEF BlocksPlaced
  <2>7. remaining' <= header'.size /\ header'.size - remaining' = 0  BY <1>2, <2>0, <2>1
  <2>8. WriterInv'  BY <1>4, <2>5, <2>6, <2>7 DEF WriterInv
  <2> QED  BY <1>4, <2>2, <2>3, <2>8 DEF IInv, ReadsPacked
<1> QED  BY <1>3, <1>4 DEF StartOutput, writer

(***************************************************************************)
(* A block added at the end of a file that holds the beginning of its zone *)
(* leaves a file that holds more of it.                                    *)
(***************************************************************************)
LEMMA BlockAdded ==
  ASSUME NEW f, NEW g, NEW total \in Nat, NEW n \in Nat \ {0}, NEW size \in Nat,
         NEW block, IsFile(f), BlocksPlaced(f, total),
         g.header = f.header, g.zone = f.zone,
         g.blocks = Put(f.blocks, f.length, block),
         g.starts = Put(f.starts, f.length, total),
         g.length = Padded(f.length + StreamHeader + size),
         block = [compressedSize |-> size, uncompressedSize |-> n,
                  alignedSize |-> Aligned(size, 4), offset |-> f.length % Word,
                  library |-> Library(f.header.compression),
                  data |-> Slice(f.zone, total, n)]
  PROVE  BlocksPlaced(g, total + n)
<1> DEFINE at == f.length
<1>1. at \in Nat /\ at % 4 = 0 /\ StreamHeader \in Nat \ {0} /\ HeaderSize \in Nat
  BY SizesAssumption DEF IsFile, BlocksPlaced
<1>2. /\ Aligned(size, 4) \in Nat /\ size <= Aligned(size, 4)
      /\ g.length = at + StreamHeader + Aligned(size, 4) /\ g.length % 4 = 0
  BY <1>1, PaddedBlock
<1>3. /\ DOMAIN g.blocks = DOMAIN f.blocks \cup {at}
      /\ g.blocks[at] = block /\ g.starts[at] = total
  BY DEF Put, IsFile
<1>4. ASSUME NEW p \in DOMAIN f.blocks
      PROVE  /\ p \in Nat /\ p # at
             /\ g.blocks[p] = f.blocks[p] /\ g.starts[p] = f.starts[p]
  <2>1. /\ p \in Nat /\ f.blocks[p].alignedSize \in Nat  BY BlockFacts
  <2>2. p + StreamHeader + f.blocks[p].alignedSize <= at  BY DEF BlocksPlaced, BlockPlaced
  <2>3. p # at  BY <1>1, <2>1, <2>2
  <2> QED  BY <2>1, <2>3 DEF Put, IsFile
<1>5. BlockPlaced(g, at, total + n)
  <2>1. /\ block.compressedSize = size /\ block.uncompressedSize = n
        /\ block.alignedSize = Aligned(size, 4) /\ block.offset = at % Word
        /\ block.library = Library(g.header.compression)
        /\ block.data = [k \in 0 .. n - 1 |-> g.zone[total + k]]
    BY DEF Slice
  <2>2. /\ \A k \in DOMAIN block.data : block.data[k] = g.zone[total + k]
        /\ DOMAIN block.data = 0 .. n - 1
    BY <2>1
  <2>3. at + StreamHeader + block.alignedSize = g.length  BY <1>1, <1>2, <2>1
  <2>4. g.starts[at] + g.blocks[at].uncompressedSize = total + n  BY <1>3, <2>1
  <2>5. ~(total + n < total + n) /\ total + n <= total + n /\ g.length <= g.length /\ n > 0
    BY <1>1, <1>2
  <2> HIDE DEF at
  <2> QED  BY <1>2, <1>3, <2>1, <2>2, <2>3, <2>4, <2>5 DEF BlockPlaced
<1>6. ASSUME NEW p \in DOMAIN f.blocks
      PROVE  BlockPlaced(g, p, total + n)
  <2> DEFINE b == f.blocks[p]
             end == f.starts[p] + b.uncompressedSize
             next == p + StreamHeader + b.alignedSize
  <2>1. /\ g.blocks[p] = b /\ g.starts[p] = f.starts[p]
        /\ end \in Nat /\ next \in Nat
    BY <1>1, <1>4, BlockFacts
  <2>2. /\ b.offset = p % Word /\ b.library = Library(g.header.compression)
        /\ b.uncompressedSize > 0 /\ b.compressedSize <= b.alignedSize
        /\ next <= at /\ end <= total
        /\ DOMAIN b.data = 0 .. b.uncompressedSize - 1
        /\ \A k \in DOMAIN b.data : b.data[k] = g.zone[f.starts[p] + k]
    BY DEF BlocksPlaced, BlockPlaced
  <2>3. next \in DOMAIN g.blocks /\ g.starts[next] = end
    <3>1. CASE end < total
      <4>1. next \in DOMAIN f.blocks /\ f.starts[next] = end  BY <3>1 DEF BlocksPlaced, BlockPlaced
      <4> QED  BY <1>3, <1>4, <4>1
    <3>2. CASE end = total
      <4>1. next = at  BY <3>2 DEF BlocksPlaced, BlockPlaced
      <4> QED  BY <1>3, <3>2, <4>1
    <3> QED  BY <2>1, <2>2, <3>1, <3>2
  <2>4. next <= g.length /\ end < total + n
    <3> HIDE DEF next, end, at
    <3> QED  BY <1>1, <1>2, <2>1, <2>2
  <2>5. ~(end = total + n) /\ end <= total + n
    <3> HIDE DEF next, end
    <3> QED  BY <2>1, <2>4
  <2> QED  BY <2>1, <2>2, <2>3, <2>4, <2>5 DEF BlockPlaced
<1>7. HeaderSize \in DOMAIN g.blocks /\ g.starts[HeaderSize] = 0
  <2>1. CASE total = 0
    <3>1. at = HeaderSize  BY <2>1 DEF BlocksPlaced
    <3> QED  BY <1>3, <2>1, <3>1
  <2>2. CASE total > 0
    <3>1. HeaderSize \in DOMAIN f.blocks /\ f.starts[HeaderSize] = 0  BY <2>2 DEF BlocksPlaced
    <3> QED  BY <1>3, <1>4, <3>1
  <2> QED  BY <2>1, <2>2
<1>8. HeaderSize <= g.length
  <2>1. HeaderSize <= at  BY DEF BlocksPlaced
  <2> HIDE DEF at
  <2> QED  BY <1>1, <1>2, <2>1
<1>9. total + n > 0  OBVIOUS
<1> QED  BY <1>2, <1>3, <1>5, <1>6, <1>7, <1>8, <1>9 DEF BlocksPlaced

\* A file stays a file when a block is added to it.
LEMMA FileWithBlock ==
  ASSUME NEW f, NEW g, NEW at \in Nat, NEW start \in Nat, NEW block, IsFile(f), IsBlock(block),
         g.length \in Nat, g.header = f.header, g.scripts = f.scripts,
         g.blocks = Put(f.blocks, at, block), g.starts = Put(f.starts, at, start)
  PROVE  IsFile(g)
<1>1. /\ DOMAIN g.blocks = DOMAIN f.blocks \cup {at}
      /\ \A p \in DOMAIN g.blocks : g.blocks[p] = block \/ (p \in DOMAIN f.blocks /\ g.blocks[p] = f.blocks[p])
  BY DEF Put
<1>2. g.starts \in [DOMAIN g.blocks -> Nat]  BY <1>1 DEF Put, IsFile
<1>3. \A p \in DOMAIN g.blocks : IsBlock(g.blocks[p])  BY <1>1 DEF IsFile
<1> QED  BY <1>1, <1>2, <1>3 DEF IsFile

\* The next part of the zone becomes a block at the end of the output.
LEMMA CompressBlockStep ==
  ASSUME IInv, CompressBlock
  PROVE  IInv'
<1> DEFINE n == Least(maxBlockSize, remaining)
           start == header.size - remaining
           at == buffer.length
           block(size) ==
             [compressedSize |-> size, uncompressedSize |-> n,
              alignedSize |-> Aligned(size, 4), offset |-> at % Word,
              library |-> Library(header.compression), data |-> Slice(zone, start, n)]
<1>1. /\ UNCHANGED <<file, target, loc, offset, maxBlockSize, zone, header, found, disk, run>>
      /\ pc = "Compress" /\ remaining > 0 /\ pc' \in {"Compress", "Failed"}
  BY DEF CompressBlock, reader
<1>2. /\ header.size \in Nat /\ remaining \in Nat /\ maxBlockSize \in Nat
      /\ remaining <= header.size /\ IsBuffer(buffer)
      /\ BlocksPlaced(buffer, header.size - remaining)
  BY <1>1 DEF IInv, TypeInv, HeaderType, WriterInv
<1>3. n \in Nat \ {0} /\ n <= remaining /\ start \in Nat /\ start + n <= header.size
  <2>1. maxBlockSize > 0  BY <1>1, <1>2 DEF IInv, ReaderInv
  <2>2. n \in Nat \ {0} /\ n <= remaining  BY <1>1, <1>2, <2>1 DEF Least
  <2> HIDE DEF n
  <2> QED  BY <1>2, <2>2
<1>4. CASE pc' = "Failed" /\ UNCHANGED <<buffer, remaining>>
  <2>1. TypeInv'  BY <1>1, <1>4 DEF IInv, TypeInv, Reading, Known, KnownSizes
  <2> QED  BY <1>1, <1>4, <2>1 DEF IInv, ReaderInv, WriterInv, ReadsPacked
<1>5. ASSUME pc' = pc, Library(header.compression) \in Libraries, remaining' = remaining - n,
             NEW size \in Sizes(header.compression, n),
             buffer' = [buffer EXCEPT !.blocks = Put(@, at, block(size)),
                                      !.starts = Put(@, at, start),
                                      !.length = Padded(at + StreamHeader + size)]
      PROVE  IInv'
  <2>1. /\ buffer'.length = Padded(at + StreamHeader + size)
        /\ buffer'.blocks = Put(buffer.blocks, at, block(size))
        /\ buffer'.starts = Put(buffer.starts, at, start)
        /\ buffer'.header = buffer.header /\ buffer'.zone = buffer.zone
        /\ buffer'.scripts = buffer.scripts
        /\ buffer' = [length |-> buffer'.length, header |-> buffer'.header,
                      blocks |-> buffer'.blocks, starts |-> buffer'.starts,
                      zone |-> buffer'.zone, scripts |-> buffer'.scripts]
    <3> HIDE DEF at, block, start
    <3> QED  BY <1>2, <1>5 DEF IsBuffer
  <2>2. size \in Nat
    <3>1. header.size \in KnownSizes  BY DEF IInv, TypeInv, Known
    <3>2. n \in 0 .. header.size
      <4> HIDE DEF n
      <4> QED  BY <1>2, <1>3
    <3> QED  BY <1>5, <3>1, <3>2, SizesAreNat
  <2>3. remaining' \in Nat /\ remaining' <= header.size /\ header.size - remaining' = start + n
    <3> HIDE DEF n
    <3> QED  BY <1>2, <1>3, <1>5
  <2>4. at \in Nat /\ at % 4 = 0 /\ buffer.header = header /\ buffer.zone = zone /\ IsFile(buffer)
    BY <1>2 DEF IsBuffer, IsFile, BlocksPlaced
  <2>5. BlocksPlaced(buffer', start + n)
    <3>1. block(size) = [compressedSize |-> size, uncompressedSize |-> n,
                         alignedSize |-> Aligned(size, 4), offset |-> buffer.length % Word,
                         library |-> Library(buffer.header.compression),
                         data |-> Slice(buffer.zone, start, n)]
      BY <2>4
    <3> HIDE DEF n, start, block
    <3> QED  BY <1>2, <1>3, <2>1, <2>2, <2>4, <3>1, BlockAdded DEF start
  <2>6. IsBlock(block(size))
    <3>1. block(size).data \in [0 .. n - 1 -> Byte]
      <4>1. zone \in [0 .. header.size - 1 -> Byte]  BY <1>1 DEF IInv, TypeInv, Reading
      <4>2. block(size).data = [k \in 0 .. n - 1 |-> zone[start + k]]  BY DEF Slice
      <4> HIDE DEF n, start, block
      <4>3. \A k \in 0 .. n - 1 : start + k \in 0 .. header.size - 1  BY <1>2, <1>3
      <4> QED  BY <4>1, <4>2, <4>3
    <3>2. Aligned(size, 4) \in Nat  BY <2>2, <2>4, PaddedBlock
    <3>3. at % Word \in Nat  BY <2>4, SizesAssumption
    <3>4. /\ block(size).compressedSize = size /\ block(size).uncompressedSize = n
          /\ block(size).alignedSize = Aligned(size, 4) /\ block(size).offset = at % Word
          /\ block(size).library = Library(header.compression)
      OBVIOUS
    <3>5. n \in 0 .. n  BY <1>3
    <3> HIDE DEF n, at, block
    <3> QED  BY <1>3, <1>5, <2>2, <3>1, <3>2, <3>3, <3>4, <3>5 DEF IsBlock
  <2>7. IsFile(buffer')
    <3>1. buffer'.length \in Nat
      <4>1. StreamHeader \in Nat  BY SizesAssumption
      <4>2. Aligned(size, 4) \in Nat /\ buffer'.length = at + StreamHeader + Aligned(size, 4)
        BY <2>1, <2>2, <2>4, PaddedBlock
      <4> HIDE DEF at
      <4> QED  BY <2>4, <4>1, <4>2
    <3> HIDE DEF n, at, block, start
    <3> QED  BY <1>3, <2>1, <2>4, <2>6, <3>1, FileWithBlock
  <2>8. WriterInv'
    <3>1. IsBuffer(buffer)'  BY <1>1, <2>1, <2>4, <2>7 DEF IsBuffer
    <3>2. BlocksPlaced(buffer', header'.size - remaining')  BY <1>1, <2>3, <2>5
    <3> QED  BY <1>1, <1>5, <2>3, <3>1, <3>2 DEF WriterInv
  <2>9. TypeInv'  BY <1>1, <1>5, <2>3 DEF IInv, TypeInv, Reading, Known, KnownSizes
  <2>10. ReaderInv'  BY <1>1, <1>5 DEF IInv, ReaderInv
  <2> QED  BY <1>1, <1>5, <2>8, <2>9, <2>10 DEF IInv, ReadsPacked
<1> QED  BY <1>4, <1>5 DEF CompressBlock, writer

\* The output or the beginning of it goes to the disk.
LEMMA WriteFileStep ==
  ASSUME IInv, WriteFile
  PROVE  IInv'
<1>1. /\ UNCHANGED <<file, target, loc, offset, maxBlockSize, zone, header, found, buffer, remaining, run>>
      /\ pc = "Compress" /\ remaining = 0 /\ pc' \in {"Done", "Failed"}
  BY DEF WriteFile, reader, writer
<1>2. ReaderInv'  BY <1>1 DEF ReaderInv
<1>3. CASE pc' = "Failed" /\ UNCHANGED disk
  <2>1. TypeInv'  BY <1>1, <1>3 DEF IInv, TypeInv, Reading, Known, KnownSizes
  <2> QED  BY <1>1, <1>2, <1>3, <2>1 DEF IInv, WriterInv, ReadsPacked
<1>4. ASSUME pc' = "Done", NEW room \in Rooms,
             disk' = [buffer EXCEPT !.length = Least(@, room)]
      PROVE  IInv'
  <2>1. IsBuffer(buffer)  BY <1>1 DEF IInv, WriterInv
  <2>2. /\ disk'.length = Least(buffer.length, room) /\ disk'.header = header
        /\ disk'.zone = zone /\ disk'.scripts = buffer.scripts
        /\ disk'.blocks = buffer.blocks /\ disk'.starts = buffer.starts
    BY <1>4, <2>1 DEF IsBuffer
  <2>3. disk'.length \in Nat /\ disk'.length <= buffer.length
    <3>1. buffer.length \in Nat /\ room \in Nat  BY <2>1, RunsAssumption DEF IsBuffer, IsFile
    <3> QED  BY <2>2, <3>1 DEF Least
  <2>4. IsFile(disk')
    <3>1. IsFile(buffer) /\ buffer.header = header  BY <2>1 DEF IsBuffer
    <3> QED  BY <2>2, <2>3, <3>1, SameFile
  <2>5. Known(disk')  BY <2>2, <2>4 DEF Known, IInv, TypeInv
  <2>6. TypeInv'  BY <1>1, <1>4, <2>5 DEF IInv, TypeInv, Reading, Known, KnownSizes
  <2>7. WriterInv'
    <3>1. IsBuffer(buffer)'  BY <1>1, <2>1 DEF IsBuffer
    <3>2. Known(disk)'  BY <2>5 DEF Known, KnownSizes
    <3> QED  BY <1>1, <1>4, <2>2, <2>3, <3>1, <3>2 DEF IInv, WriterInv
  <2> QED  BY <1>2, <1>4, <2>6, <2>7 DEF IInv, ReadsPacked
<1> QED  BY <1>3, <1>4 DEF WriteFile

\* The output is an input like any other.
LEMMA AgainStep ==
  ASSUME IInv, Again
  PROVE  IInv'
<1>1. /\ pc = "Done" /\ file' = disk /\ run' = run + 1 /\ pc' = "Header"
      /\ loc' = 0 /\ offset' = 0 /\ maxBlockSize' = 0
      /\ header' = disk.header /\ found' = <<>> /\ remaining' = 0
      /\ UNCHANGED <<target, disk>>
  BY DEF Again
<1>2. Known(disk)  BY <1>1 DEF IInv, WriterInv
<1>3. header' \in HeaderType /\ header' = file'.header  BY <1>1, <1>2 DEF Known, IsFile
<1>4. found' \in Seq(SUBSET (0 .. header'.size - 1))  BY <1>1, EmptySeq
<1>5. TypeInv'  BY <1>1, <1>2, <1>3, <1>4 DEF IInv, TypeInv, Reading, Known, KnownSizes
<1> QED  BY <1>1, <1>5 DEF IInv, ReaderInv, WriterInv, ReadsPacked

\* The invariant holds throughout.
THEOREM Invariance == Spec => []IInv
<1>1. Init => IInv  BY InitIInv
<1>2. IInv /\ [Next]_vars => IInv'
  <2> SUFFICES ASSUME IInv, [Next]_vars
               PROVE  IInv'
    OBVIOUS
  <2>1. CASE ReadHeader  BY <2>1, ReadHeaderStep
  <2>2. CASE DecompressBlock  BY <2>2, DecompressBlockStep
  <2>3. CASE FindScripts  BY <2>3, FindScriptsStep
  <2>4. CASE PatchScript  BY <2>4, PatchScriptStep
  <2>5. CASE StartOutput  BY <2>5, StartOutputStep
  <2>6. CASE CompressBlock  BY <2>6, CompressBlockStep
  <2>7. CASE WriteFile  BY <2>7, WriteFileStep
  <2>8. CASE Again  BY <2>8, AgainStep
  <2>9. CASE Terminated \/ UNCHANGED vars
    <3>1. UNCHANGED <<file, target, pc, loc, offset, maxBlockSize, zone, header, found, buffer, remaining, disk, run>>
      BY <2>9 DEF Terminated, vars, reader, writer
    <3> QED
      BY <3>1 DEF IInv, TypeInv, ReaderInv, WriterInv, ReadsPacked, Known, KnownSizes, Packed,
                  Holds, After, IsBuffer, BlocksPlaced, BlockPlaced, Reading
  <2> QED  BY <2>1, <2>2, <2>3, <2>4, <2>5, <2>6, <2>7, <2>8, <2>9 DEF Next
<1> QED  BY <1>1, <1>2, PTL DEF Spec

-----------------------------------------------------------------------------
(* What the invariant says.                                                *)

(***************************************************************************)
(* The variables of HandleFFFile keep their types: the zone keeps the size *)
(* the header gives, and the output is a file.                             *)
(***************************************************************************)
THEOREM FastfileTypeCorrect == Spec => []TypeOK
<1>1. IInv => TypeOK
  <2> SUFFICES ASSUME IInv
               PROVE  TypeOK
    OBVIOUS
  <2>1. pc \in {"Compress", "Done"} => IsFile(buffer)  BY DEF IInv, WriterInv, IsBuffer
  <2>2. disk # NoFile => IsFile(disk)  BY DEF IInv, TypeInv, Known
  <2> QED  BY <2>1, <2>2 DEF IInv, TypeInv, Known, TypeOK
<1> QED  BY <1>1, Invariance, PTL

(***************************************************************************)
(* DecompressFastfile reads the zone a file holds, in order and without    *)
(* gaps, wherever the empty blocks are.                                    *)
(***************************************************************************)
THEOREM ZoneRead == Spec => []ReadsZone
<1>1. IInv => ReadsZone  BY DEF IInv, ReaderInv, ReadsZone
<1> QED  BY <1>1, Invariance, PTL

(***************************************************************************)
(* DecompressFastfile refuses no file that holds its zone: for its header  *)
(* at most.                                                                *)
(***************************************************************************)
THEOREM PackedRead == Spec => []ReadsPacked
<1>1. IInv => ReadsPacked  BY DEF IInv
<1> QED  BY <1>1, Invariance, PTL

-----------------------------------------------------------------------------
(* Blocks that follow each other.                                          *)

\* What is not empty has a least element.
LEMMA LeastElement ==
  ASSUME NEW S \in SUBSET Nat, S # {}
  PROVE  \E n \in S : \A m \in S : n <= m
<1>1. PICK n \in S : \A m \in S : <<m, n>> \notin OpToRel(<, Nat)
  BY WFMin, NatLessThanWellFounded, Zenon
<1>2. \A m \in S : ~(m < n)
  BY <1>1, Zenon DEF OpToRel
<1> QED  BY <1>2

\* What follows a block is behind it.
LEMMA AfterForward ==
  ASSUME NEW f, IsFile(f), NEW p \in DOMAIN f.blocks
  PROVE  After(f.blocks[p], p) \in Nat /\ p < After(f.blocks[p], p)
<1> DEFINE b == f.blocks[p]
<1>1. p \in Nat /\ b.uncompressedSize \in Nat /\ b.alignedSize \in Nat  BY BlockFacts
<1>2. StreamHeader \in Nat \ {0} /\ Page \in Nat \ {0}  BY SizesAssumption
<1>3. p + StreamHeader \in Nat /\ p < p + StreamHeader  BY <1>1, <1>2
<1>4. /\ Aligned(p + StreamHeader, Page) \in Nat
      /\ p + StreamHeader <= Aligned(p + StreamHeader, Page)
  BY <1>2, <1>3, AlignedForward
<1> HIDE DEF b
<1> QED  BY <1>1, <1>2, <1>3, <1>4 DEF After, b

\* No block lies before the first one.
LEMMA NoneBefore ==
  ASSUME NEW f, IsFile(f), Chained(f), NEW p \in DOMAIN f.blocks
  PROVE  HeaderSize \in DOMAIN f.blocks /\ HeaderSize <= p
<1>1. DOMAIN f.blocks \subseteq Nat  BY DEF IsFile
<1>2. PICK n \in DOMAIN f.blocks : \A m \in DOMAIN f.blocks : n <= m  BY <1>1, LeastElement
<1>3. n = HeaderSize
  <2> SUFFICES ASSUME n # HeaderSize PROVE FALSE  OBVIOUS
  <2>1. PICK q \in DOMAIN f.blocks : After(f.blocks[q], q) = n  BY DEF Chained
  <2>2. q < n  BY <2>1, AfterForward
  <2>3. n <= q /\ n \in Nat /\ q \in Nat  BY <1>1, <1>2
  <2> QED  BY <2>2, <2>3
<1> QED  BY <1>2, <1>3

\* No block lies between a block and the one that follows it.
LEMMA NoneBetween ==
  ASSUME NEW f, IsFile(f), Chained(f), NEW p \in DOMAIN f.blocks, NEW q \in DOMAIN f.blocks, p < q
  PROVE  After(f.blocks[p], p) <= q
<1> DEFINE next(r) == After(f.blocks[r], r)
           inside == {m \in DOMAIN f.blocks : \E r \in DOMAIN f.blocks : r < m /\ m < next(r)}
<1>1. DOMAIN f.blocks \subseteq Nat  BY DEF IsFile
<1>2. \A r \in DOMAIN f.blocks : next(r) \in Nat /\ r < next(r)  BY AfterForward
<1>3. inside = {}
  <2> SUFFICES ASSUME inside # {} PROVE FALSE  OBVIOUS
  <2>1. inside \in SUBSET Nat  BY <1>1
  <2>2. PICK m \in inside : \A k \in inside : m <= k
    <3> HIDE DEF inside
    <3> QED  BY <2>1, LeastElement
  <2>3. PICK r \in DOMAIN f.blocks : r < m /\ m < next(r)  BY <2>2
  <2>4. m \in Nat /\ r \in Nat /\ m \in DOMAIN f.blocks  BY <1>1, <2>2
  <2>5. m # HeaderSize
    <3>1. HeaderSize <= r /\ HeaderSize \in Nat  BY NoneBefore, SizesAssumption
    <3> QED  BY <2>3, <2>4, <3>1
  <2>6. PICK s \in DOMAIN f.blocks : next(s) = m  BY <2>4, <2>5 DEF Chained
  <2> HIDE DEF next
  <2>7. s \in Nat /\ s < m  BY <1>1, <1>2, <2>6
  <2>8. CASE r < s
    <3>1. s < next(r)  BY <1>2, <2>3, <2>4, <2>7
    <3>2. s \in inside  BY <2>8, <3>1
    <3> QED  BY <2>2, <2>4, <2>7, <3>2
  <2>9. CASE s < r
    <3>1. r \in inside  BY <2>3, <2>6, <2>9
    <3> QED  BY <2>2, <2>3, <2>4, <3>1
  <2>10. CASE r = s  BY <2>3, <2>4, <2>6, <2>10
  <2> QED  BY <2>4, <2>7, <2>8, <2>9, <2>10
<1>4. ~(q < next(p))  BY <1>3
<1> HIDE DEF next
<1>5. next(p) \in Nat /\ q \in Nat  BY <1>1, <1>2
<1>6. next(p) <= q  BY <1>4, <1>5
<1> QED  BY <1>6 DEF next

\* Behind the block that completes the zone, blocks are empty.
LEMMA RestIsEmpty ==
  ASSUME NEW f, IsFile(f), Chained(f), Holds(f),
         NEW l \in DOMAIN f.blocks,
         f.starts[l] + f.blocks[l].uncompressedSize >= f.header.size,
         NEW q \in DOMAIN f.blocks, After(f.blocks[l], l) <= q
  PROVE  f.blocks[q].uncompressedSize = 0
<1> DEFINE next(r) == After(f.blocks[r], r)
           size(r) == f.blocks[r].uncompressedSize
           total == f.header.size
           more == {m \in DOMAIN f.blocks : next(l) <= m /\ ~(size(m) = 0 /\ f.starts[m] = total)}
<1>1. DOMAIN f.blocks \subseteq Nat /\ total \in Nat  BY DEF IsFile, HeaderType
<1>2. \A r \in DOMAIN f.blocks : next(r) \in Nat /\ r < next(r)  BY AfterForward
<1>3. \A r \in DOMAIN f.blocks : size(r) \in Nat /\ f.starts[r] \in Nat  BY BlockFacts
<1>4. \A r \in DOMAIN f.blocks : f.starts[r] + size(r) <= total  BY DEF Holds
<1>5. more = {}
  <2> SUFFICES ASSUME more # {} PROVE FALSE  OBVIOUS
  <2>1. more \in SUBSET Nat  BY <1>1
  <2>2. PICK m \in more : \A k \in more : m <= k
    <3> HIDE DEF more
    <3> QED  BY <2>1, LeastElement
  <2>3. m \in DOMAIN f.blocks /\ next(l) <= m /\ ~(size(m) = 0 /\ f.starts[m] = total)  BY <2>2
  <2>4. m # HeaderSize
    <3>1. HeaderSize <= l /\ HeaderSize \in Nat  BY NoneBefore, SizesAssumption
    <3> HIDE DEF next
    <3> QED  BY <1>1, <1>2, <2>3, <3>1
  <2>5. PICK r \in DOMAIN f.blocks : next(r) = m /\ f.starts[m] = f.starts[r] + size(r)
    BY <2>3, <2>4 DEF Chained
  <2>6. f.starts[m] = total
    <3>1. CASE next(l) <= r
      <4>1. r \notin more
        <5> HIDE DEF more, next
        <5> QED  BY <1>1, <1>2, <2>1, <2>2, <2>5
      <4>2. size(r) = 0 /\ f.starts[r] = total  BY <3>1, <4>1
      <4> QED  BY <1>1, <2>5, <4>2
    <3>2. CASE ~(next(l) <= r)
      <4>1. ~(l < r)  BY <3>2, NoneBetween
      <4>2. ~(r < l)
        <5> SUFFICES ASSUME r < l PROVE FALSE  OBVIOUS
        <5>1. next(r) <= l  BY NoneBetween
        <5> HIDE DEF next
        <5> QED  BY <1>1, <1>2, <2>3, <2>5, <5>1
      <4>3. r = l  BY <1>1, <4>1, <4>2
      <4>4. f.starts[l] + size(l) >= total /\ f.starts[l] + size(l) <= total  BY <1>4
      <4> HIDE DEF size
      <4> QED  BY <1>1, <1>3, <2>5, <4>3, <4>4
    <3> QED  BY <3>1, <3>2
  <2>7. size(m) = 0
    <3> HIDE DEF size
    <3> QED  BY <1>1, <1>3, <1>4, <2>3, <2>6
  <2> QED  BY <2>3, <2>6, <2>7
<1>6. q \notin more  BY <1>5
<1> QED  BY <1>6

-----------------------------------------------------------------------------
(* The sizes of blocks, from the input to the output.                      *)

\* A block of f ends at the position at, and with it the first n bytes of the zone.
Behind(f, at, n) ==
  \/ at = HeaderSize /\ n = 0
  \/ \E l \in DOMAIN f.blocks :
       After(f.blocks[l], l) = at /\ f.starts[l] + f.blocks[l].uncompressedSize = n

\* n is the size of a block of f, or 0.
HasSize(f, n) == n = 0 \/ \E q \in DOMAIN f.blocks : f.blocks[q].uncompressedSize = n

\* No block of f before at is larger than n.
NoneLarger(f, at, n) == \A q \in DOMAIN f.blocks : q < at => f.blocks[q].uncompressedSize <= n

\* The largest size so far is that of a block, and when all is read of the largest one.
SizesInv ==
  /\ HasSize(file, maxBlockSize)
  /\ pc = "Blocks" /\ Holds(file) => Behind(file, loc, offset)
  /\ pc = "Blocks" /\ Chained(file) => NoneLarger(file, loc, maxBlockSize)
  /\ pc \in {"Scripts", "Compress", "Done"} /\ Holds(file) /\ Chained(file) =>
       \A q \in DOMAIN file.blocks : file.blocks[q].uncompressedSize <= maxBlockSize

\* A block of f is as large as it may be, or the last.
AsLarge(f, p) ==
  LET n == f.blocks[p].uncompressedSize
  IN  n <= maxBlockSize /\ (f.starts[p] + n < header.size => n = maxBlockSize)

\* The output is made of the scripts of the input, of blocks of the size of its largest.
ResultInv ==
  /\ pc \in {"Compress", "Done"} =>
       /\ found = <<>> /\ buffer.scripts = file.scripts
       /\ \A p \in DOMAIN buffer.blocks : AsLarge(buffer, p)
       /\ Chained(buffer) /\ Behind(buffer, buffer.length, header.size - remaining)
  /\ pc = "Done" => disk.scripts = buffer.scripts

\* Where nothing of it changes, SizesInv is kept.
LEMMA SameSizes ==
  ASSUME SizesInv, file' = file, maxBlockSize' = maxBlockSize, loc' = loc, offset' = offset,
         pc' = "Blocks" => pc = "Blocks",
         pc' \in {"Scripts", "Compress", "Done"} => pc \in {"Scripts", "Compress", "Done"}
  PROVE  SizesInv'
BY DEF SizesInv, HasSize, Behind, NoneLarger, Holds, Chained, After

\* The first block is where the header ends.
LEMMA ReadHeaderSizes ==
  ASSUME IInv, SizesInv, ReadHeader
  PROVE  SizesInv'
<1>1. file' = file /\ maxBlockSize' = maxBlockSize /\ pc = "Header"
  BY DEF ReadHeader, Reject, reader
<1>2. CASE pc' = "Unreadable" /\ UNCHANGED <<loc, offset>>  BY <1>1, <1>2, SameSizes
<1>3. CASE pc' = "Blocks" /\ loc' = HeaderSize /\ offset' = offset
  <2>1. offset' = 0  BY <1>1, <1>3 DEF IInv, ReaderInv
  <2>2. Behind(file, loc', offset')  BY <1>3, <2>1 DEF Behind
  <2>3. ASSUME Chained(file)
        PROVE  NoneLarger(file, loc', maxBlockSize)
    <3>1. IsFile(file) /\ HeaderSize \in Nat /\ DOMAIN file.blocks \subseteq Nat
      BY SizesAssumption DEF IInv, TypeInv, Known, IsFile
    <3>2. \A q \in DOMAIN file.blocks : HeaderSize <= q  BY <2>3, <3>1, NoneBefore
    <3>3. \A q \in DOMAIN file.blocks : ~(q < HeaderSize)  BY <3>1, <3>2
    <3> QED  BY <1>3, <3>3 DEF NoneLarger
  <2> QED
    BY <1>1, <1>3, <2>2, <2>3 DEF SizesInv, HasSize, Behind, NoneLarger, Holds, Chained, After
<1> QED  BY <1>2, <1>3 DEF ReadHeader, Reject, reader

\* The reader goes from a block to the one that follows it.
LEMMA DecompressBlockSizes ==
  ASSUME IInv, SizesInv, DecompressBlock
  PROVE  SizesInv'
<1> DEFINE b == file.blocks[loc]
<1>1. file' = file /\ pc = "Blocks" /\ offset < header.size  BY DEF DecompressBlock
<1>2. CASE pc' = "Unreadable" /\ UNCHANGED <<loc, offset, maxBlockSize>>
  BY <1>1, <1>2, SameSizes
<1>3. CASE /\ BlockHere /\ pc' = pc /\ loc' = Following(b)
           /\ offset' = offset + b.uncompressedSize
           /\ maxBlockSize' = Largest(maxBlockSize, b.uncompressedSize)
  <2>1. loc \in DOMAIN file.blocks /\ loc' = After(b, loc)
    BY <1>1, <1>3, FollowingNat DEF BlockHere
  <2>2. IsFile(file) /\ DOMAIN file.blocks \subseteq Nat /\ maxBlockSize \in Nat
    BY DEF IInv, TypeInv, Known, IsFile
  <2>3. /\ \A q \in DOMAIN file.blocks : file.blocks[q].uncompressedSize \in Nat
        /\ b.uncompressedSize \in Nat
    BY <2>1, <2>2, BlockFacts
  <2> DEFINE size(q) == file.blocks[q].uncompressedSize
  <2>4. /\ maxBlockSize' = maxBlockSize \/ maxBlockSize' = size(loc)
        /\ maxBlockSize <= maxBlockSize' /\ size(loc) <= maxBlockSize' /\ maxBlockSize' \in Nat
    BY <1>3, <2>2, <2>3 DEF Largest
  <2>5. HasSize(file, maxBlockSize')  BY <2>1, <2>4 DEF SizesInv, HasSize
  <2>6. ASSUME Holds(file)
        PROVE  Behind(file, loc', offset')
    <3>1. file.starts[loc] = offset  BY <1>1, <2>6 DEF IInv, ReaderInv
    <3> QED  BY <1>3, <2>1, <3>1 DEF Behind
  <2>7. ASSUME Chained(file), NEW q \in DOMAIN file.blocks, q < loc'
        PROVE  size(q) <= maxBlockSize'
    <3>1. q \in Nat /\ loc \in Nat /\ loc' \in Nat  BY <2>1, <2>2, AfterForward
    <3>2. CASE q < loc
      <4>1. size(q) <= maxBlockSize  BY <1>1, <2>7, <3>2 DEF SizesInv, NoneLarger
      <4> HIDE DEF size
      <4>2. size(q) \in Nat  BY <2>3 DEF size
      <4> QED  BY <2>2, <2>4, <4>1, <4>2
    <3>3. CASE q = loc  BY <2>4, <3>3
    <3>4. CASE loc < q
      <4>1. loc' <= q  BY <2>1, <2>2, <2>7, <3>4, NoneBetween
      <4> QED  BY <2>7, <3>1, <4>1
    <3> QED  BY <3>1, <3>2, <3>3, <3>4
  <2>8. Chained(file) => NoneLarger(file, loc', maxBlockSize')  BY <2>7 DEF NoneLarger
  <2> QED
    BY <1>1, <1>3, <2>5, <2>6, <2>8 DEF SizesInv, HasSize, Behind, NoneLarger, Holds, Chained, After
<1> QED  BY <1>2, <1>3 DEF DecompressBlock, Reject, reader

\* When the zone is complete, what has not been read is empty.
LEMMA FindScriptsSizes ==
  ASSUME IInv, SizesInv, FindScripts
  PROVE  SizesInv'
<1>1. /\ UNCHANGED <<file, maxBlockSize, loc, offset>>
      /\ pc = "Blocks" /\ pc' \in {"Scripts", "Failed"} /\ offset >= header.size
  BY DEF FindScripts, reader
<1>2. /\ IsFile(file) /\ DOMAIN file.blocks \subseteq Nat /\ maxBlockSize \in Nat
      /\ header.size = file.header.size /\ header.size \in Nat /\ loc \in Nat
  BY DEF IInv, TypeInv, Known, IsFile, HeaderType
<1>3. ASSUME Holds(file), Chained(file), NEW q \in DOMAIN file.blocks
      PROVE  file.blocks[q].uncompressedSize <= maxBlockSize
  <2>1. q \in Nat /\ file.blocks[q].uncompressedSize \in Nat /\ file.starts[q] \in Nat
    BY <1>2, BlockFacts
  <2>2. CASE q < loc  BY <1>1, <1>3, <2>2 DEF SizesInv, NoneLarger
  <2>3. CASE ~(q < loc)
    <3>1. file.blocks[q].uncompressedSize = 0
      <4>1. CASE loc = HeaderSize /\ offset = 0
        <5>1. file.starts[q] + file.blocks[q].uncompressedSize <= 0
          BY <1>1, <1>2, <1>3, <4>1 DEF Holds
        <5> QED  BY <2>1, <5>1
      <4>2. ASSUME NEW l \in DOMAIN file.blocks, After(file.blocks[l], l) = loc,
                   file.starts[l] + file.blocks[l].uncompressedSize = offset
            PROVE  file.blocks[q].uncompressedSize = 0
        <5>1. After(file.blocks[l], l) <= q  BY <1>2, <2>1, <2>3, <4>2
        <5>2. file.starts[l] + file.blocks[l].uncompressedSize >= file.header.size
          BY <1>1, <1>2, <4>2
        <5> QED  BY <1>2, <1>3, <5>1, <5>2, RestIsEmpty
      <4> QED  BY <1>1, <1>3, <4>1, <4>2 DEF SizesInv, Behind
    <3> QED  BY <1>2, <3>1
  <2> QED  BY <2>2, <2>3
<1> QED  BY <1>1, <1>3 DEF SizesInv, HasSize, Behind, NoneLarger, Holds, Chained, After

\* A block is written as large as it may be, behind the last one.
LEMMA ChainGrows ==
  ASSUME NEW f, NEW g, NEW total \in Nat, NEW n \in Nat \ {0}, NEW block,
         IsFile(f), BlocksPlaced(f, total), Chained(f), Behind(f, f.length, total),
         g.blocks = Put(f.blocks, f.length, block),
         g.starts = Put(f.starts, f.length, total),
         block.uncompressedSize = n,
         g.length = f.length + StreamHeader + block.alignedSize
  PROVE  /\ Chained(g) /\ Behind(g, g.length, total + n)
         /\ DOMAIN g.blocks = DOMAIN f.blocks \cup {f.length}
         /\ g.blocks[f.length] = block /\ g.starts[f.length] = total
         /\ \A p \in DOMAIN f.blocks :
              g.blocks[p] = f.blocks[p] /\ g.starts[p] = f.starts[p]
<1> DEFINE at == f.length
<1>1. /\ DOMAIN g.blocks = DOMAIN f.blocks \cup {at}
      /\ g.blocks[at] = block /\ g.starts[at] = total
  BY DEF Put, IsFile
<1>2. ASSUME NEW p \in DOMAIN f.blocks
      PROVE  g.blocks[p] = f.blocks[p] /\ g.starts[p] = f.starts[p]
  <2>1. p \in Nat /\ f.blocks[p].alignedSize \in Nat  BY BlockFacts
  <2>2. p + StreamHeader + f.blocks[p].alignedSize <= at  BY DEF BlocksPlaced, BlockPlaced
  <2>3. StreamHeader \in Nat \ {0} /\ at \in Nat  BY SizesAssumption DEF IsFile
  <2>4. p # at  BY <2>1, <2>2, <2>3
  <2> QED  BY <2>4 DEF Put, IsFile
<1>3. Behind(g, g.length, total + n)
  <2>1. After(block, at) = at + StreamHeader + block.alignedSize  BY DEF After
  <2> QED  BY <1>1, <2>1 DEF Behind
<1>4. ASSUME NEW p \in DOMAIN g.blocks, p # HeaderSize
      PROVE  \E q \in DOMAIN g.blocks :
               /\ After(g.blocks[q], q) = p
               /\ g.starts[p] = g.starts[q] + g.blocks[q].uncompressedSize
  <2>1. PICK q \in DOMAIN f.blocks :
               /\ After(f.blocks[q], q) = p
               /\ g.starts[p] = f.starts[q] + f.blocks[q].uncompressedSize
    <3>1. CASE p \in DOMAIN f.blocks  BY <1>2, <1>4, <3>1 DEF Chained
    <3>2. CASE p = at  BY <1>1, <1>4, <3>2 DEF Behind
    <3> QED  BY <1>1, <3>1, <3>2
  <2> QED  BY <1>1, <1>2, <2>1
<1>5. Chained(g)  BY <1>4 DEF Chained
<1> QED  BY <1>1, <1>2, <1>3, <1>5

\* One more block.
LEMMA CompressBlockResult ==
  ASSUME IInv, ResultInv, CompressBlock
  PROVE  ResultInv'
<1> DEFINE n == Least(maxBlockSize, remaining)
           start == header.size - remaining
           at == buffer.length
           block(size) ==
             [compressedSize |-> size, uncompressedSize |-> n,
              alignedSize |-> Aligned(size, 4), offset |-> at % Word,
              library |-> Library(header.compression), data |-> Slice(zone, start, n)]
<1>1. /\ UNCHANGED <<file, maxBlockSize, zone, header, found>>
      /\ pc = "Compress" /\ remaining > 0
  BY DEF CompressBlock, reader
<1>2. /\ header.size \in Nat /\ remaining \in Nat /\ maxBlockSize \in Nat
      /\ remaining <= header.size /\ IsBuffer(buffer)
      /\ BlocksPlaced(buffer, header.size - remaining)
  BY <1>1 DEF IInv, TypeInv, HeaderType, WriterInv
<1>3. /\ n \in Nat \ {0} /\ n <= maxBlockSize /\ n <= remaining
      /\ n = maxBlockSize \/ n = remaining
  <2>1. maxBlockSize > 0  BY <1>1, <1>2 DEF IInv, ReaderInv
  <2> QED  BY <1>1, <1>2, <2>1 DEF Least
<1>4. start \in Nat /\ start + n < header.size => n = maxBlockSize
  <2> HIDE DEF n
  <2> QED  BY <1>2, <1>3
<1>4a. start \in Nat  BY <1>2
<1>5. CASE pc' = "Failed"  BY <1>5 DEF ResultInv
<1>6. ASSUME pc' = pc, remaining' = remaining - n,
             NEW size \in Sizes(header.compression, n),
             buffer' = [buffer EXCEPT !.blocks = Put(@, at, block(size)),
                                      !.starts = Put(@, at, start),
                                      !.length = Padded(at + StreamHeader + size)]
      PROVE  ResultInv'
  <2>1. /\ buffer'.length = Padded(at + StreamHeader + size)
        /\ buffer'.blocks = Put(buffer.blocks, at, block(size))
        /\ buffer'.starts = Put(buffer.starts, at, start)
        /\ buffer'.scripts = buffer.scripts
    <3> HIDE DEF at, block, start
    <3> QED  BY <1>2, <1>6 DEF IsBuffer
  <2>2. size \in Nat
    <3>1. header.size \in KnownSizes  BY DEF IInv, TypeInv, Known
    <3>2. n \in 0 .. header.size
      <4> HIDE DEF n
      <4> QED  BY <1>2, <1>3
    <3> QED  BY <1>6, <3>1, <3>2, SizesAreNat
  <2>3. at \in Nat /\ at % 4 = 0 /\ IsFile(buffer)  BY <1>2 DEF IsBuffer, IsFile, BlocksPlaced
  <2>4. buffer'.length = at + StreamHeader + block(size).alignedSize
    <3>1. block(size).alignedSize = Aligned(size, 4)  OBVIOUS
    <3> HIDE DEF block, at
    <3> QED  BY <2>1, <2>2, <2>3, <3>1, PaddedBlock
  <2>5. block(size).uncompressedSize = n  OBVIOUS
  <2>6. Chained(buffer) /\ Behind(buffer, at, start)  BY <1>1 DEF ResultInv
  <2> HIDE DEF n, start, block
  <2>7. /\ Chained(buffer') /\ Behind(buffer', buffer'.length, start + n)
        /\ DOMAIN buffer'.blocks = DOMAIN buffer.blocks \cup {at}
        /\ buffer'.blocks[at] = block(size) /\ buffer'.starts[at] = start
        /\ \A p \in DOMAIN buffer.blocks :
             buffer'.blocks[p] = buffer.blocks[p] /\ buffer'.starts[p] = buffer.starts[p]
    <3> DEFINE added == block(size)
               f == buffer
               g == buffer'
    <3>1. BlocksPlaced(f, start)  BY <1>2 DEF start
    <3>2. /\ g.blocks = Put(f.blocks, f.length, added) /\ g.starts = Put(f.starts, f.length, start)
          /\ added.uncompressedSize = n /\ g.length = f.length + StreamHeader + added.alignedSize
          /\ IsFile(f) /\ Chained(f) /\ Behind(f, f.length, start)
      BY <2>1, <2>3, <2>4, <2>5, <2>6
    <3> HIDE DEF added, f, g
    <3>3. /\ Chained(g) /\ Behind(g, g.length, start + n)
          /\ DOMAIN g.blocks = DOMAIN f.blocks \cup {f.length}
          /\ g.blocks[f.length] = added /\ g.starts[f.length] = start
          /\ \A p \in DOMAIN f.blocks :
               g.blocks[p] = f.blocks[p] /\ g.starts[p] = f.starts[p]
      BY <1>3, <1>4a, <3>1, <3>2, ChainGrows
    <3> QED  BY <3>3 DEF added, f, g
  <2>8. header'.size - remaining' = start + n
    <3>1. start = header.size - remaining /\ remaining' = remaining - n /\ n \in Nat
      BY <1>3, <1>6 DEF start
    <3>2. header'.size = header.size /\ header.size \in Nat /\ remaining \in Nat  BY <1>1, <1>2
    <3> QED  BY <3>1, <3>2
  <2>9. ASSUME NEW p \in DOMAIN buffer'.blocks
        PROVE  AsLarge(buffer, p)'
    <3>1. CASE p = at  BY <1>1, <1>3, <1>4, <1>4a, <2>5, <2>7, <3>1 DEF AsLarge
    <3>2. CASE p \in DOMAIN buffer.blocks
      <4>1. AsLarge(buffer, p)  BY <1>1, <3>2 DEF ResultInv
      <4> QED  BY <1>1, <2>7, <3>2, <4>1 DEF AsLarge
    <3> QED  BY <2>7, <3>1, <3>2
  <2>10. found' = <<>> /\ buffer'.scripts = file'.scripts  BY <1>1, <2>1 DEF ResultInv
  <2>11. Chained(buffer)' /\ Behind(buffer, buffer.length, header.size - remaining)'
    BY <2>7, <2>8 DEF Chained, Behind, After
  <2> QED  BY <1>1, <1>6, <2>9, <2>10, <2>11 DEF ResultInv
<1> QED  BY <1>5, <1>6 DEF CompressBlock, writer

\* The output starts without blocks.
LEMMA StartOutputResult ==
  ASSUME IInv, StartOutput
  PROVE  ResultInv'
<1>1. /\ UNCHANGED <<file, maxBlockSize, found>>
      /\ found = <<>> /\ pc' \in {"Compress", "Failed"}
  BY DEF StartOutput, reader
<1>2. CASE pc' = "Failed"  BY <1>2 DEF ResultInv
<1>3. CASE /\ header' = IF target = "" THEN header ELSE [header EXCEPT !.compression = target]
           /\ buffer' = [length |-> HeaderSize, header |-> header', blocks |-> <<>>,
                         starts |-> <<>>, zone |-> zone, scripts |-> file.scripts]
           /\ remaining' = header.size /\ pc' = "Compress"
  <2>1. /\ buffer'.blocks = <<>> /\ buffer'.length = HeaderSize
        /\ buffer'.scripts = file.scripts /\ remaining' = header.size
    BY <1>3
  <2>2. DOMAIN buffer'.blocks = {}  BY <2>1, NoBlocks
  <2>3. header'.size = header.size /\ header.size \in Nat  BY <1>3 DEF IInv, TypeInv, HeaderType
  <2>4. Chained(buffer)'  BY <2>2 DEF Chained
  <2>5. Behind(buffer, buffer.length, header.size - remaining)'  BY <2>1, <2>3 DEF Behind
  <2> QED  BY <1>1, <1>3, <2>1, <2>2, <2>4, <2>5 DEF ResultInv
<1> QED  BY <1>2, <1>3 DEF StartOutput, writer

\* The file on the disk is the output, but perhaps for its end.
LEMMA WriteFileResult ==
  ASSUME IInv, ResultInv, WriteFile
  PROVE  ResultInv'
<1>1. /\ UNCHANGED <<file, maxBlockSize, header, found, buffer, remaining>> /\ pc = "Compress"
  BY DEF WriteFile, reader, writer
<1>2. pc' = "Done" => disk'.scripts = buffer'.scripts
  <2>1. IsBuffer(buffer)  BY <1>1 DEF IInv, WriterInv
  <2> QED  BY <1>1, <2>1 DEF WriteFile, IsBuffer
<1> QED  BY <1>1, <1>2 DEF ResultInv, AsLarge, Chained, Behind, After

\* Both invariants hold throughout.
LEMMA SizesInvariance == Spec => [](SizesInv /\ ResultInv)
<1>1. Init => SizesInv /\ ResultInv  BY DEF Init, SizesInv, ResultInv, HasSize
<1>2. IInv /\ SizesInv /\ ResultInv /\ [Next]_vars => SizesInv' /\ ResultInv'
  <2> SUFFICES ASSUME IInv, SizesInv, ResultInv, [Next]_vars
               PROVE  SizesInv' /\ ResultInv'
    OBVIOUS
  <2>1. CASE ReadHeader
    <3>1. pc' \in {"Blocks", "Unreadable"}  BY <2>1 DEF ReadHeader, Reject
    <3> QED  BY <2>1, <3>1, ReadHeaderSizes DEF ResultInv
  <2>2. CASE DecompressBlock
    <3>1. pc' \in {"Blocks", "Unreadable"}  BY <2>2 DEF DecompressBlock, Reject
    <3> QED  BY <2>2, <3>1, DecompressBlockSizes DEF ResultInv
  <2>3. CASE FindScripts
    <3>1. pc' \in {"Scripts", "Failed"}  BY <2>3 DEF FindScripts
    <3> QED  BY <2>3, <3>1, FindScriptsSizes DEF ResultInv
  <2>4. CASE PatchScript
    <3>1. /\ UNCHANGED <<file, maxBlockSize, loc, offset>>
          /\ pc = "Scripts" /\ pc' \in {"Scripts", "Failed"}
      BY <2>4 DEF PatchScript, reader
    <3> QED  BY <3>1, SameSizes DEF ResultInv
  <2>5. CASE StartOutput
    <3>1. /\ UNCHANGED <<file, maxBlockSize, loc, offset>>
          /\ pc = "Scripts" /\ pc' \in {"Compress", "Failed"}
      BY <2>5 DEF StartOutput, reader
    <3> QED  BY <2>5, <3>1, SameSizes, StartOutputResult
  <2>6. CASE CompressBlock
    <3>1. /\ UNCHANGED <<file, maxBlockSize, loc, offset>>
          /\ pc = "Compress" /\ pc' \in {"Compress", "Failed"}
      BY <2>6 DEF CompressBlock, reader
    <3> QED  BY <2>6, <3>1, SameSizes, CompressBlockResult
  <2>7. CASE WriteFile
    <3>1. /\ UNCHANGED <<file, maxBlockSize, loc, offset>>
          /\ pc = "Compress" /\ pc' \in {"Done", "Failed"}
      BY <2>7 DEF WriteFile, reader
    <3> QED  BY <2>7, <3>1, SameSizes, WriteFileResult
  <2>8. CASE Again
    <3>1. pc' = "Header" /\ maxBlockSize' = 0  BY <2>8 DEF Again
    <3> QED  BY <3>1 DEF SizesInv, ResultInv, HasSize
  <2>9. CASE Terminated \/ UNCHANGED vars
    <3>1. UNCHANGED <<file, pc, loc, offset, maxBlockSize, header, found, buffer, remaining, disk>>
      BY <2>9 DEF Terminated, vars, reader, writer
    <3>2. SizesInv'  BY <3>1, SameSizes
    <3>3. ResultInv'  BY <3>1 DEF ResultInv, AsLarge, Chained, Behind, After
    <3> QED  BY <3>2, <3>3
  <2> QED  BY <2>1, <2>2, <2>3, <2>4, <2>5, <2>6, <2>7, <2>8, <2>9 DEF Next
<1> QED  BY <1>1, <1>2, Invariance, PTL DEF Spec

-----------------------------------------------------------------------------
(* What is written.                                                        *)

\* A block of a finished output, and what the format asks of it.
LEMMA DoneBlock ==
  ASSUME IInv, pc = "Done", NEW p \in DOMAIN disk.blocks
  PROVE  LET b == disk.blocks[p]
             end == disk.starts[p] + b.uncompressedSize
             next == After(b, p)
         IN  /\ p \in Nat /\ b.uncompressedSize \in Nat /\ disk.starts[p] \in Nat
             /\ b.offset = p % Word /\ b.library = Library(disk.header.compression)
             /\ p + StreamHeader <= buffer.length /\ next <= buffer.length
             /\ b.compressedSize <= b.alignedSize
             /\ end <= disk.header.size
             /\ DOMAIN b.data = 0 .. b.uncompressedSize - 1
             /\ \A k \in DOMAIN b.data : b.data[k] = disk.zone[disk.starts[p] + k]
             /\ end < disk.header.size => next \in DOMAIN disk.blocks /\ disk.starts[next] = end
             /\ end = disk.header.size => next = buffer.length
<1> DEFINE b == disk.blocks[p]
<1>1. /\ remaining = 0 /\ Known(disk) /\ disk.header = header /\ disk.zone = zone
      /\ disk.blocks = buffer.blocks /\ disk.starts = buffer.starts
      /\ IsBuffer(buffer) /\ BlocksPlaced(buffer, header.size - remaining)
  BY DEF IInv, WriterInv
<1>2. header.size \in Nat /\ header.size - remaining = header.size
  BY <1>1 DEF IInv, TypeInv, HeaderType
<1>3. BlockPlaced(buffer, p, header.size)  BY <1>1, <1>2 DEF BlocksPlaced
<1>4. /\ p \in Nat /\ b.alignedSize \in Nat /\ b.uncompressedSize \in Nat
      /\ disk.starts[p] \in Nat /\ buffer.length \in Nat
  BY <1>1, BlockFacts DEF Known, IsBuffer, IsFile
<1>5. StreamHeader \in Nat  BY SizesAssumption
<1>6. After(b, p) = p + StreamHeader + b.alignedSize
  <2>1. b.uncompressedSize # 0  BY <1>1, <1>3, <1>4 DEF BlockPlaced
  <2> QED  BY <2>1 DEF After
<1>7. p + StreamHeader <= buffer.length
  <2>1. p + StreamHeader + b.alignedSize <= buffer.length  BY <1>1, <1>3 DEF BlockPlaced
  <2> HIDE DEF b
  <2> QED  BY <1>4, <1>5, <2>1
<1> QED  BY <1>1, <1>3, <1>4, <1>6, <1>7 DEF BlockPlaced, IsBuffer

\* A finished output holds the patched zone, wherever its blocks say they are.
LEMMA DoneHolds ==
  ASSUME IInv, pc = "Done"
  PROVE  Holds(disk)
<1>1. /\ remaining = 0 /\ disk.header = header /\ disk.zone = zone
      /\ disk.blocks = buffer.blocks /\ disk.starts = buffer.starts
      /\ BlocksPlaced(buffer, header.size - remaining)
  BY DEF IInv, WriterInv
<1>2. header.size \in Nat /\ header.size - remaining = header.size
  BY <1>1 DEF IInv, TypeInv, HeaderType
<1>3. zone \in [0 .. header.size - 1 -> Byte]  BY DEF IInv, TypeInv, Reading
<1>4. header.size > 0 => HeaderSize \in DOMAIN buffer.blocks /\ buffer.starts[HeaderSize] = 0
  BY <1>1, <1>2 DEF BlocksPlaced
<1> QED  BY <1>1, <1>3, <1>4, DoneBlock DEF Holds

(***************************************************************************)
(* CompressFastfile writes a file that holds the patched zone, for every   *)
(* block size and whatever the compressor makes of each block; it can be   *)
(* read back, by the two theorems before this one.                         *)
(***************************************************************************)
THEOREM OutputPacked == Spec => []WritesPacked
<1>1. ASSUME IInv, ResultInv, pc = "Done", disk.length = buffer.length, ~Wraps(disk)
      PROVE  Packed(disk) /\ Chained(disk) /\ disk.zone = zone
  <2>1. /\ disk.zone = zone /\ disk.blocks = buffer.blocks /\ disk.starts = buffer.starts
        /\ HeaderSize <= buffer.length
    BY <1>1 DEF IInv, WriterInv, BlocksPlaced
  <2>2. Word \in Nat \ {0}  BY SizesAssumption
  <2>3. ASSUME NEW p \in DOMAIN disk.blocks
        PROVE  LET b == disk.blocks[p]
               IN  /\ b.offset = p /\ b.library = Library(disk.header.compression)
                   /\ p + StreamHeader <= disk.length /\ After(b, p) <= disk.length
                   /\ b.compressedSize <= b.alignedSize
    <3>1. p \in Nat  BY <1>1, DoneBlock
    <3>2. p < Word  BY <1>1, <2>2, <3>1 DEF Wraps
    <3>3. p % Word = p  BY <2>2, <3>1, <3>2
    <3> QED  BY <1>1, <3>3, DoneBlock
  <2>4. Chained(disk)  BY <1>1, <2>1 DEF ResultInv, Chained
  <2> QED  BY <1>1, <2>1, <2>3, <2>4, DoneHolds DEF Packed
<1>2. IInv /\ ResultInv => WritesPacked  BY <1>1 DEF WritesPacked
<1> QED  BY <1>2, Invariance, SizesInvariance, PTL

(***************************************************************************)
(* CompressFastfile cuts the zone into blocks of the size of the largest   *)
(* block of the input, the last one excepted, for every layout of blocks.  *)
(***************************************************************************)
THEOREM BlocksAreLikeInput == Spec => []BlocksLikeInput
<1>1. ASSUME IInv, SizesInv, ResultInv, pc \in {"Compress", "Done"},
             NEW p \in DOMAIN buffer.blocks
      PROVE  LET n == buffer.blocks[p].uncompressedSize
             IN  /\ \E q \in DOMAIN file.blocks : n <= file.blocks[q].uncompressedSize
                 /\ Holds(file) /\ Chained(file) /\ buffer.starts[p] + n < header.size =>
                      \A q \in DOMAIN file.blocks : file.blocks[q].uncompressedSize <= n
  <2>1. AsLarge(buffer, p)  BY <1>1 DEF ResultInv
  <2>2. maxBlockSize > 0
    <3>1. /\ BlocksPlaced(buffer, header.size - remaining) /\ IsFile(buffer)
      BY <1>1 DEF IInv, WriterInv, IsBuffer
    <3>2. buffer.blocks[p].uncompressedSize > 0 /\ buffer.blocks[p].uncompressedSize \in Nat
      BY <3>1, BlockFacts DEF BlocksPlaced, BlockPlaced
    <3>3. maxBlockSize \in Nat  BY <1>1 DEF IInv, TypeInv
    <3> QED  BY <2>1, <3>2, <3>3 DEF AsLarge
  <2>3. PICK q \in DOMAIN file.blocks : file.blocks[q].uncompressedSize = maxBlockSize
    BY <1>1, <2>2 DEF SizesInv, HasSize
  <2> QED  BY <1>1, <2>1, <2>3 DEF AsLarge, SizesInv
<1>2. IInv /\ SizesInv /\ ResultInv => BlocksLikeInput  BY <1>1 DEF BlocksLikeInput
<1> QED  BY <1>2, Invariance, SizesInvariance, PTL

-----------------------------------------------------------------------------
(* The loops.                                                              *)

(***************************************************************************)
(* LoopsAdvance: for every file, well formed or not, the loop of           *)
(* DecompressFastfile goes forward inside it and that of CompressFastfile  *)
(* shortens what is left, so neither can turn forever.                     *)
(***************************************************************************)
THEOREM BothLoopsAdvance == Spec => LoopsAdvance
<1>1. ASSUME IInv, Next, pc = "Blocks", pc' = pc
      PROVE  loc < loc' /\ loc' <= file.length
  <2> DEFINE b == file.blocks[loc]
  <2>1. DecompressBlock
    BY <1>1 DEF Next, ReadHeader, Reject, FindScripts, PatchScript, StartOutput, CompressBlock,
       WriteFile, Again, Terminated
  <2>2. BlockHere /\ Legible(b) /\ loc' = Following(b)  BY <1>1, <2>1 DEF DecompressBlock, Reject
  <2>3. loc \in DOMAIN file.blocks /\ IsFile(file)
    BY <1>1, <2>2 DEF BlockHere, IInv, TypeInv, Known
  <2>4. loc' = After(b, loc)  BY <1>1, <2>2, FollowingNat
  <2>5. loc < After(b, loc)  BY <2>3, AfterForward
  <2> QED  BY <2>2, <2>4, <2>5 DEF Legible
<1>2. ASSUME IInv, Next, pc = "Compress", pc' = pc
      PROVE  remaining' \in 0 .. remaining - 1
  <2>1. CompressBlock
    BY <1>2 DEF Next, ReadHeader, Reject, DecompressBlock, FindScripts, PatchScript, StartOutput,
       WriteFile, Again, Terminated
  <2>2. remaining > 0 /\ remaining' = remaining - Least(maxBlockSize, remaining)
    <3>1. /\ remaining > 0
          /\ pc' = "Failed" \/ remaining' = remaining - Least(maxBlockSize, remaining)
      BY <2>1, Zenon DEF CompressBlock
    <3> QED  BY <1>2, <3>1
  <2>3. remaining \in Nat /\ maxBlockSize \in Nat /\ remaining <= header.size /\ header.size \in Nat
    BY <1>2 DEF IInv, TypeInv, HeaderType, WriterInv
  <2>4. maxBlockSize > 0  BY <1>2, <2>2, <2>3 DEF IInv, ReaderInv
  <2> QED  BY <2>2, <2>3, <2>4 DEF Least
<1>3. IInv /\ [Next]_vars =>
        [/\ pc = "Blocks" /\ pc' = pc => loc < loc' /\ loc' <= file.length
         /\ pc = "Compress" /\ pc' = pc => remaining' \in 0 .. remaining - 1]_vars
  BY <1>1, <1>2
<1> QED  BY <1>3, Invariance, PTL DEF Spec, LoopsAdvance

-----------------------------------------------------------------------------
(* What a loader finds in a file.                                          *)

\* g gives, for each position of f, what the blocks from there on expand to.
Follows(f, g) ==
  g = [p \in 0 .. 2 * (f.length + Page) |->
         IF p \notin DOMAIN f.blocks THEN <<>>
         ELSE LET b == f.blocks[p]
              IN  [k \in 1 .. b.uncompressedSize |-> b.data[k - 1]] \o g[After(b, p)]]

\* The zone of f from n on.
Rest(f, n) == [k \in 1 .. f.header.size - n |-> f.zone[n + k - 1]]

\* f holds its zone, within its length, and the block that completes the zone is followed by none.
Loadable(f) ==
  /\ IsFile(f) /\ Holds(f) /\ HeaderSize <= f.length
  /\ f.header.size > 0 \/ DOMAIN f.blocks = {}
  /\ \A p \in DOMAIN f.blocks :
       LET b == f.blocks[p]
       IN  /\ After(b, p) <= f.length
           /\ f.starts[p] + b.uncompressedSize = f.header.size => After(b, p) \notin DOMAIN f.blocks

\* A function on the first n numbers is a sequence of n elements.
LEMMA Listed ==
  ASSUME NEW S, NEW n \in Nat, NEW s \in [1 .. n -> S]
  PROVE  s \in Seq(S) /\ Len(s) = n
BY SeqDef

\* What is before n and what is behind make the rest of the zone.
LEMMA RestSplits ==
  ASSUME NEW f, f.header.size \in Nat, f.zone \in [0 .. f.header.size - 1 -> Byte],
         NEW m \in Nat, NEW n \in Nat, m + n <= f.header.size
  PROVE  Rest(f, m) = [k \in 1 .. n |-> f.zone[m + k - 1]] \o Rest(f, m + n)
<1> DEFINE total == f.header.size
           head == [k \in 1 .. n |-> f.zone[m + k - 1]]
           tail == Rest(f, m + n)
<1>1. total - m \in Nat /\ total - (m + n) \in Nat /\ total - m = n + (total - (m + n))  OBVIOUS
<1>2. ASSUME NEW i \in Nat, i <= total
      PROVE  /\ Rest(f, i) \in Seq(Byte) /\ Len(Rest(f, i)) = total - i
             /\ \A k \in 1 .. total - i : Rest(f, i)[k] = f.zone[i + k - 1]
  <2>1. total - i \in Nat  BY <1>2
  <2>2. \A k \in 1 .. total - i : i + k - 1 \in 0 .. total - 1  BY <1>2
  <2>3. \A k \in 1 .. total - i : f.zone[i + k - 1] \in Byte  BY <2>2
  <2>4. Rest(f, i) = [k \in 1 .. total - i |-> f.zone[i + k - 1]]  BY DEF Rest
  <2> HIDE DEF total
  <2>5. Rest(f, i) \in [1 .. total - i -> Byte]  BY <2>3, <2>4
  <2>6. Rest(f, i) \in Seq(Byte) /\ Len(Rest(f, i)) = total - i  BY <2>1, <2>5, Listed
  <2>7. \A k \in 1 .. total - i : Rest(f, i)[k] = f.zone[i + k - 1]  BY <2>4
  <2> QED  BY <2>6, <2>7
<1>3. /\ head \in Seq(Byte) /\ Len(head) = n
      /\ \A k \in 1 .. n : head[k] = f.zone[m + k - 1]
  <2>1. \A k \in 1 .. n : m + k - 1 \in 0 .. total - 1  OBVIOUS
  <2>2. head \in [1 .. n -> Byte]  BY <2>1
  <2> QED  BY <2>2, SeqDef
<1>4. /\ tail \in Seq(Byte) /\ Len(tail) = total - (m + n)
      /\ \A k \in 1 .. total - (m + n) : tail[k] = f.zone[m + n + k - 1]
  <2>1. m + n \in Nat /\ m + n <= total  OBVIOUS
  <2> QED  BY <1>2, <2>1
<1>5. /\ Rest(f, m) \in Seq(Byte) /\ Len(Rest(f, m)) = total - m
      /\ \A k \in 1 .. total - m : Rest(f, m)[k] = f.zone[m + k - 1]
  <2>1. m <= total  OBVIOUS
  <2> QED  BY <1>2, <2>1
<1> HIDE DEF head, tail
<1>6. /\ head \o tail \in Seq(Byte) /\ Len(head \o tail) = n + (total - (m + n))
      /\ \A k \in 1 .. n + (total - (m + n)) :
           (head \o tail)[k] = IF k <= n THEN head[k] ELSE tail[k - n]
  <2>1. /\ head \o tail \in Seq(Byte) /\ Len(head \o tail) = Len(head) + Len(tail)
        /\ \A k \in 1 .. Len(head) + Len(tail) :
             (head \o tail)[k] = IF k <= Len(head) THEN head[k] ELSE tail[k - Len(head)]
    <3>1. head \in Seq(Byte) /\ tail \in Seq(Byte)  BY <1>3, <1>4
    <3> QED  BY <3>1, ConcatProperties
  <2>2. Len(head) = n /\ Len(tail) = total - (m + n)  BY <1>3, <1>4
  <2> DEFINE whole == head \o tail
             c == total - (m + n)
  <2>3. Len(head) = n /\ Len(tail) = c /\ whole \in Seq(Byte) /\ Len(whole) = Len(head) + Len(tail)
    BY <2>1, <2>2
  <2>4. \A k \in 1 .. Len(head) + Len(tail) :
          whole[k] = IF k <= Len(head) THEN head[k] ELSE tail[k - Len(head)]
    BY <2>1
  <2> HIDE DEF whole, c
  <2>5. Len(whole) = n + c  BY <2>3
  <2>6. \A k \in 1 .. n + c : whole[k] = IF k <= n THEN head[k] ELSE tail[k - n]
    BY <2>3, <2>4, Zenon
  <2> QED  BY <2>3, <2>5, <2>6 DEF whole, c
<1>7. ASSUME NEW k \in 1 .. total - m
      PROVE  Rest(f, m)[k] = (head \o tail)[k]
  <2>1. (head \o tail)[k] = IF k <= n THEN head[k] ELSE tail[k - n]  BY <1>1, <1>6
  <2>2. Rest(f, m)[k] = f.zone[m + k - 1]  BY <1>5
  <2>3. CASE k <= n
    <3>1. k \in 1 .. n  BY <2>3
    <3> QED  BY <1>3, <2>1, <2>2, <3>1
  <2>4. CASE ~(k <= n)
    <3> HIDE DEF total
    <3>1. k - n \in 1 .. total - (m + n) /\ m + n + (k - n) - 1 = m + k - 1
      BY <1>1, <2>4
    <3>2. tail[k - n] = f.zone[m + n + (k - n) - 1]  BY <1>4, <3>1
    <3> QED  BY <2>1, <2>2, <2>4, <3>1, <3>2
  <2> QED  BY <2>3, <2>4
<1>8. Rest(f, m) = head \o tail
  <2>1. Len(Rest(f, m)) = Len(head \o tail)  BY <1>1, <1>5, <1>6
  <2> HIDE DEF total
  <2> QED  BY <1>5, <1>6, <1>7, <2>1, SeqEqual
<1> QED  BY <1>8 DEF head, tail

\* The rests of the zone are such a function.
LEMMA RestsFollow ==
  ASSUME NEW f, Loadable(f), NEW g,
         g = [p \in 0 .. 2 * (f.length + Page) |->
                IF p \in DOMAIN f.blocks THEN Rest(f, f.starts[p]) ELSE <<>>]
  PROVE  Follows(f, g)
<1>1. /\ IsFile(f) /\ f.length \in Nat /\ f.header.size \in Nat
      /\ f.zone \in [0 .. f.header.size - 1 -> Byte] /\ Page \in Nat
  BY SizesAssumption DEF Loadable, IsFile, HeaderType, Holds
<1>2. ASSUME NEW p \in DOMAIN f.blocks, NEW b, b = f.blocks[p]
      PROVE  Rest(f, f.starts[p]) = [k \in 1 .. b.uncompressedSize |-> b.data[k - 1]] \o g[After(b, p)]
  <2> DEFINE n == b.uncompressedSize
             m == f.starts[p]
             next == After(b, p)
  <2>1. n \in Nat /\ m \in Nat  BY <1>1, <1>2, BlockFacts
  <2>2. /\ m + n <= f.header.size /\ DOMAIN b.data = 0 .. n - 1
        /\ \A k \in DOMAIN b.data : b.data[k] = f.zone[m + k]
        /\ m + n < f.header.size => next \in DOMAIN f.blocks /\ f.starts[next] = m + n
        /\ m + n = f.header.size => next \notin DOMAIN f.blocks
        /\ next <= f.length
    BY <1>2 DEF Loadable, Holds
  <2>3. next \in Nat  BY <1>1, <1>2, AfterForward
  <2>4. next \in 0 .. 2 * (f.length + Page)
    <3> HIDE DEF next
    <3> QED  BY <1>1, <2>2, <2>3
  <2>5. g[next] = Rest(f, m + n)
    <3>1. CASE m + n < f.header.size  BY <2>2, <2>4, <3>1
    <3>2. CASE m + n = f.header.size
      <4>1. g[next] = <<>>  BY <2>2, <2>4, <3>2
      <4>2. Rest(f, m + n) = <<>>
        <5>1. 1 .. f.header.size - (m + n) = 1 .. 0
          <6> HIDE DEF m, n
          <6> QED  BY <1>1, <2>1, <3>2
        <5>2. Rest(f, m + n) = [k \in 1 .. 0 |-> f.zone[m + n + k - 1]]  BY <5>1 DEF Rest
        <5>3. [k \in 1 .. 0 |-> f.zone[m + n + k - 1]] = <<>>
          <6>1. Len(<<>>) = 0 /\ DOMAIN <<>> = {}  BY NoBlocks
          <6> QED  BY <6>1
        <5> QED  BY <5>2, <5>3
      <4> QED  BY <4>1, <4>2
    <3>3. m + n < f.header.size \/ m + n = f.header.size
      <4>1. m + n <= f.header.size  BY <2>2
      <4> HIDE DEF m, n
      <4> QED  BY <1>1, <2>1, <4>1
    <3> HIDE DEF next, m, n
    <3> QED  BY <3>1, <3>2, <3>3
  <2>6. [k \in 1 .. n |-> b.data[k - 1]] = [k \in 1 .. n |-> f.zone[m + k - 1]]
    <3>1. ASSUME NEW k \in 1 .. n  PROVE b.data[k - 1] = f.zone[m + k - 1]
      <4> HIDE DEF n, m
      <4>1. k - 1 \in 0 .. n - 1 /\ m + (k - 1) = m + k - 1  BY <2>1
      <4> QED  BY <2>2, <4>1
    <3> HIDE DEF n, m
    <3> QED  BY <3>1
  <2>7. Rest(f, m) = [k \in 1 .. n |-> f.zone[m + k - 1]] \o Rest(f, m + n)
    <3> HIDE DEF m, n
    <3> QED  BY <1>1, <2>1, <2>2, RestSplits
  <2> QED  BY <2>5, <2>6, <2>7
<1>3. [p \in 0 .. 2 * (f.length + Page) |->
         IF p \in DOMAIN f.blocks THEN Rest(f, f.starts[p]) ELSE <<>>]
      = [p \in 0 .. 2 * (f.length + Page) |->
           IF p \notin DOMAIN f.blocks THEN <<>>
           ELSE LET b == f.blocks[p]
                IN  [k \in 1 .. b.uncompressedSize |-> b.data[k - 1]] \o g[After(b, p)]]
  BY <1>2
<1> QED  BY <1>3 DEF Follows

\* There is no other: the last position where two differ would be followed by one where they do.
LEMMA OneFollows ==
  ASSUME NEW f, Loadable(f), NEW g, NEW h, Follows(f, g), Follows(f, h),
         NEW p \in 0 .. 2 * (f.length + Page)
  PROVE  g[p] = h[p]
<1> DEFINE end == 2 * (f.length + Page)
           same(m) == g[end - m] = h[end - m]
           differ == {m \in 0 .. end : ~same(m)}
<1>1. IsFile(f) /\ f.length \in Nat /\ Page \in Nat /\ end \in Nat
  BY SizesAssumption DEF Loadable, IsFile
<1>2. ASSUME NEW q \in 0 .. end
      PROVE  /\ q \notin DOMAIN f.blocks => g[q] = h[q]
             /\ q \in DOMAIN f.blocks /\ g[After(f.blocks[q], q)] = h[After(f.blocks[q], q)] => g[q] = h[q]
  BY <1>2 DEF Follows
<1>3. differ = {}
  <2> SUFFICES ASSUME differ # {} PROVE FALSE  OBVIOUS
  <2>1. PICK m \in differ : \A k \in differ : m <= k
    <3>1. differ \in SUBSET Nat  OBVIOUS
    <3> HIDE DEF differ
    <3> QED  BY <3>1, LeastElement
  <2> HIDE DEF end
  <2> DEFINE q == end - m
             next == After(f.blocks[q], q)
  <2>2. m \in 0 .. end /\ q \in 0 .. end /\ g[q] # h[q]  BY <1>1, <2>1
  <2>3. q \in DOMAIN f.blocks /\ g[next] # h[next]  BY <1>2, <2>2
  <2>4. next \in Nat /\ q < next /\ next <= f.length
    BY <1>1, <2>3, AfterForward DEF Loadable
  <2>5. end - next \in 0 .. end /\ end - (end - next) = next /\ end - next < m
    <3>1. f.length <= end  BY <1>1 DEF end
    <3> HIDE DEF next
    <3> QED  BY <1>1, <2>2, <2>4, <3>1
  <2>6. end - next \in differ  BY <2>3, <2>5
  <2> HIDE DEF next, differ
  <2> QED  BY <1>1, <2>1, <2>2, <2>5, <2>6
<1>4. end - p \in 0 .. end /\ end - (end - p) = p
  <2>1. p \in 0 .. end  OBVIOUS
  <2> HIDE DEF end
  <2> QED  BY <1>1, <2>1
<1>5. same(end - p)  BY <1>3, <1>4
<1> QED  BY <1>4, <1>5

\* A loader finds the zone.
LEMMA DecodedIs ==
  ASSUME NEW f, Loadable(f)
  PROVE  Decoded(f) = f.zone
<1> DEFINE end == 2 * (f.length + Page)
           from == CHOOSE g :
             g = [p \in 0 .. 2 * (f.length + Page) |->
                    IF p \notin DOMAIN f.blocks THEN <<>>
                    ELSE LET b == f.blocks[p]
                         IN  [k \in 1 .. b.uncompressedSize |-> b.data[k - 1]] \o g[After(b, p)]]
           bytes == from[HeaderSize]
           rests == [p \in 0 .. 2 * (f.length + Page) |->
                       IF p \in DOMAIN f.blocks THEN Rest(f, f.starts[p]) ELSE <<>>]
<1>1. Decoded(f) = [k \in 0 .. Len(bytes) - 1 |-> bytes[k + 1]]  BY DEF Decoded
<1>2. Follows(f, rests)
  <2> HIDE DEF rests
  <2> QED  BY RestsFollow DEF rests
<1>3. Follows(f, from)
  <2>1. \E g : Follows(f, g)
    <3> HIDE DEF rests
    <3> QED  BY <1>2
  <2> QED  BY <2>1 DEF Follows
<1>4. /\ IsFile(f) /\ f.header.size \in Nat /\ HeaderSize \in 0 .. 2 * (f.length + Page)
      /\ f.zone \in [0 .. f.header.size - 1 -> Byte]
  <2>1. f.length \in Nat /\ HeaderSize \in Nat /\ HeaderSize <= f.length /\ Page \in Nat
    BY SizesAssumption DEF Loadable, IsFile
  <2> QED  BY <2>1 DEF Loadable, IsFile, HeaderType, Holds
<1>5. bytes = rests[HeaderSize]
  <2> HIDE DEF rests, from
  <2> QED  BY <1>2, <1>3, <1>4, OneFollows
<1>6. bytes = Rest(f, 0)
  <2>1. CASE f.header.size > 0  BY <1>4, <1>5, <2>1 DEF Loadable, Holds
  <2>2. CASE f.header.size = 0
    <3>1. DOMAIN f.blocks = {}  BY <2>2 DEF Loadable
    <3>2. bytes = <<>>
      <4> HIDE DEF bytes
      <4> QED  BY <1>4, <1>5, <3>1
    <3>3. 1 .. f.header.size - 0 = 1 .. 0  BY <2>2
    <3>4. Rest(f, 0) = [k \in 1 .. 0 |-> f.zone[0 + k - 1]]  BY <3>3 DEF Rest
    <3>5. [k \in 1 .. 0 |-> f.zone[0 + k - 1]] = <<>>
      <4>1. Len(<<>>) = 0 /\ DOMAIN <<>> = {}  BY NoBlocks
      <4> QED  BY <4>1
    <3> HIDE DEF bytes
    <3> QED  BY <3>2, <3>4, <3>5
  <2>3. f.header.size > 0 \/ f.header.size = 0  BY <1>4
  <2> HIDE DEF bytes
  <2> QED  BY <2>1, <2>2, <2>3
<1> HIDE DEF bytes
<1>7. /\ Len(Rest(f, 0)) = f.header.size
      /\ \A k \in 0 .. f.header.size - 1 : Rest(f, 0)[k + 1] = f.zone[k]
  <2> DEFINE total == f.header.size
  <2>1. \A k \in 1 .. total : k - 1 \in 0 .. total - 1  BY <1>4
  <2>2. Rest(f, 0) = [k \in 1 .. total |-> f.zone[k - 1]]
    <3>1. total - 0 = total /\ \A k \in 1 .. total : 0 + k - 1 = k - 1  BY <1>4
    <3> QED  BY <3>1 DEF Rest
  <2>3. \A k \in 1 .. total : f.zone[k - 1] \in Byte  BY <1>4, <2>1
  <2>4. Rest(f, 0) \in [1 .. total -> Byte]  BY <2>2, <2>3
  <2>5. \A k \in 0 .. total - 1 : k + 1 \in 1 .. total /\ (k + 1) - 1 = k  BY <1>4
  <2> HIDE DEF total
  <2>6. Len(Rest(f, 0)) = total
    <3>1. total \in Nat  BY <1>4 DEF total
    <3> QED  BY <2>2, <2>4, <3>1, SeqDef
  <2>7. \A k \in 0 .. total - 1 : Rest(f, 0)[k + 1] = f.zone[k]  BY <2>2, <2>5
  <2> QED  BY <2>6, <2>7 DEF total
<1>8. [k \in 0 .. Len(bytes) - 1 |-> bytes[k + 1]] = f.zone
  <2>1. f.zone = [k \in 0 .. f.header.size - 1 |-> f.zone[k]]  BY <1>4
  <2> QED  BY <1>6, <1>7, <2>1
<1> QED  BY <1>1, <1>8 DEF bytes

-----------------------------------------------------------------------------
(* Fastfile implements Repack.                                             *)

\* An output that is on the disk as a whole gives the patched zone.
LEMMA DoneLoadable ==
  ASSUME IInv, pc = "Done", disk.length = buffer.length
  PROVE  Loadable(disk) /\ disk.zone = zone
<1>1. /\ IsFile(disk) /\ disk.header = header /\ disk.zone = zone
      /\ disk.blocks = buffer.blocks /\ IsFile(buffer) /\ remaining = 0
      /\ BlocksPlaced(buffer, header.size - remaining)
  BY DEF IInv, WriterInv, Known, IsBuffer
<1>2. header.size \in Nat /\ header.size - remaining = header.size
  BY <1>1 DEF IInv, TypeInv, HeaderType
<1>3. HeaderSize <= disk.length  BY <1>1 DEF BlocksPlaced
<1>4. disk.header.size > 0 \/ DOMAIN disk.blocks = {}
  <2>1. CASE header.size = 0  BY <1>1, <1>2, <2>1 DEF BlocksPlaced
  <2>2. CASE header.size > 0  BY <1>1, <2>2
  <2> QED  BY <1>2, <2>1, <2>2
<1>5. buffer.length \notin DOMAIN disk.blocks
  <2> SUFFICES ASSUME buffer.length \in DOMAIN disk.blocks PROVE FALSE  OBVIOUS
  <2>1. buffer.length + StreamHeader <= buffer.length  BY DoneBlock
  <2>2. StreamHeader \in Nat \ {0} /\ buffer.length \in Nat  BY <1>1, SizesAssumption DEF IsFile
  <2> QED  BY <2>1, <2>2
<1>6. ASSUME NEW p \in DOMAIN disk.blocks
      PROVE  LET b == disk.blocks[p]
             IN  /\ After(b, p) <= disk.length
                 /\ disk.starts[p] + b.uncompressedSize = disk.header.size =>
                      After(b, p) \notin DOMAIN disk.blocks
  BY <1>5, DoneBlock
<1> QED  BY <1>1, <1>3, <1>4, <1>6, DoneHolds DEF Loadable

\* What is on the disk after a run gives the patched zone.
Saved == pc = "Done" => Loadable(disk) /\ disk.zone = zone

LEMMA WrittenIsSaved == IInv /\ DoneMeansWritten => Saved
BY DoneLoadable DEF DoneMeansWritten, Saved

\* Every input holds its zone: those given at first, and what was written.
LEMMA InputsHold ==
  ASSUME \A f \in Files : Holds(f)
  PROVE  Spec => []Holds(file)
<1>1. Init => Holds(file)  BY DEF Init
<1>2. IInv /\ Holds(file) /\ [Next]_vars => Holds(file)'
  <2> SUFFICES ASSUME IInv, Holds(file), [Next]_vars
               PROVE  Holds(file')
    BY DEF Holds, After
  <2>1. CASE file' = file  BY <2>1
  <2>2. CASE Again  BY <2>2, DoneHolds DEF Again
  <2>3. file' = file \/ Again
    BY DEF Next, vars, ReadHeader, DecompressBlock, FindScripts, PatchScript, StartOutput,
           CompressBlock, WriteFile, Terminated
  <2> QED  BY <2>1, <2>2, <2>3
<1> QED  BY <1>1, <1>2, Invariance, PTL DEF Spec

\* The zone of Repack: that of the input until it has been read.
RepackZone == IF pc \in Reading THEN file.zone ELSE zone
RepackLeft == IF pc \in Reading THEN file.scripts ELSE found
RepackSaved == IF disk = NoFile THEN NoFile ELSE Decoded(disk)

\* A step that leaves the mapped state alone.
Unseen ==
  /\ RepackZone' = RepackZone /\ RepackLeft' = RepackLeft /\ RepackSaved' = RepackSaved
  /\ file'.scripts = file.scripts

\* Reading gives the zone that the input holds.
LEMMA FindScriptsUnseen ==
  ASSUME IInv, Holds(file), FindScripts
  PROVE  Unseen
<1>1. /\ UNCHANGED <<file, zone, disk>> /\ found' = file.scripts
      /\ pc = "Blocks" /\ pc' \in {"Scripts", "Failed"} /\ offset >= header.size
  BY DEF FindScripts
<1>2. /\ offset <= header.size /\ \A k \in 0 .. offset - 1 : zone[k] = file.zone[k]
      /\ zone \in [0 .. header.size - 1 -> Byte] /\ header.size = file.header.size
      /\ offset \in Nat /\ header.size \in Nat
  BY <1>1 DEF IInv, TypeInv, ReaderInv, HeaderType, Reading
<1>3. file.zone \in [0 .. header.size - 1 -> Byte]  BY <1>2 DEF Holds
<1>4. offset = header.size  BY <1>1, <1>2
<1>5. zone = file.zone  BY <1>2, <1>3, <1>4
<1>6. RepackSaved' = RepackSaved  BY <1>1 DEF RepackSaved, Decoded, After
<1> QED  BY <1>1, <1>5, <1>6 DEF Unseen, RepackZone, RepackLeft, Reading

\* A step within one stage of reading or writing.
LEMMA StageUnseen ==
  ASSUME file' = file, disk' = disk,
         \/ pc \in Reading /\ pc' \in Reading
         \/ pc \notin Reading /\ pc' \notin Reading /\ zone' = zone /\ found' = found
  PROVE  Unseen
<1>1. RepackSaved' = RepackSaved  BY DEF RepackSaved, Decoded, After
<1> QED  BY <1>1 DEF Unseen, RepackZone, RepackLeft

\* Each step is one of Repack, or cannot be seen there.
LEMMA RefinedStep ==
  ASSUME ~IsFile(NoFile), \A n \in Nat : NoFile \notin [0 .. n - 1 -> Byte],
         IInv, ResultInv, Holds(file), Saved, Saved', [Next]_vars
  PROVE  [Repacking!Next]_(Repacking!vars)
<1>1. ASSUME Unseen PROVE UNCHANGED Repacking!vars
  BY <1>1 DEF Unseen, RepackZone, RepackLeft, RepackSaved, Repacking!vars
<1>2. CASE ReadHeader
  <2>1. file' = file /\ disk' = disk /\ pc \in Reading /\ pc' \in Reading
    BY <1>2 DEF ReadHeader, Reject, Reading
  <2> QED  BY <1>1, <2>1, StageUnseen
<1>3. CASE DecompressBlock
  <2>1. file' = file /\ disk' = disk /\ pc \in Reading /\ pc' \in Reading
    BY <1>3 DEF DecompressBlock, Reject, Reading
  <2> QED  BY <1>1, <2>1, StageUnseen
<1>4. CASE FindScripts  BY <1>1, <1>4, FindScriptsUnseen
<1>5. CASE PatchScript
  <2>1. file' = file /\ disk' = disk /\ pc = "Scripts" /\ pc' \in {"Scripts", "Failed"} /\ found # <<>>
    BY <1>5 DEF PatchScript
  <2>2. CASE UNCHANGED <<zone, found>>  BY <1>1, <2>1, <2>2, StageUnseen DEF Reading
  <2>3. CASE /\ found' = Tail(found)
             /\ \E image \in [Head(found) -> Byte] :
                  zone' = [k \in DOMAIN zone |-> IF k \in Head(found) THEN image[k] ELSE zone[k]]
    <3>1. RepackSaved' = RepackSaved  BY <2>1 DEF RepackSaved, Decoded, After
    <3>2. Repacking!Patch
      BY <2>1, <2>3, <3>1 DEF Repacking!Patch, Reading, RepackSaved
    <3> QED  BY <3>2 DEF Repacking!Next
  <2> QED  BY <1>5, <2>2, <2>3 DEF PatchScript
<1>6. CASE StartOutput
  <2>1. /\ UNCHANGED <<file, disk, zone, found>> /\ pc \notin Reading /\ pc' \notin Reading
    BY <1>6 DEF StartOutput, Reading
  <2> QED  BY <1>1, <2>1, StageUnseen
<1>7. CASE CompressBlock
  <2>1. /\ UNCHANGED <<file, disk, zone, found>> /\ pc \notin Reading /\ pc' \notin Reading
    BY <1>7 DEF CompressBlock, Reading
  <2> QED  BY <1>1, <2>1, StageUnseen
<1>8. CASE WriteFile
  <2>1. /\ UNCHANGED <<file, zone, found>> /\ pc = "Compress" /\ pc' \in {"Done", "Failed"}
    BY <1>8 DEF WriteFile
  <2>2. CASE pc' = "Failed" /\ disk' = disk  BY <1>1, <2>1, <2>2, StageUnseen DEF Reading
  <2>3. CASE pc' = "Done"
    <3>1. Loadable(disk') /\ disk'.zone = zone'
      BY <2>3 DEF Saved, Loadable, Holds, After
    <3>2. Decoded(disk') = zone  BY <2>1, <3>1, DecodedIs
    <3>3. disk' # NoFile  BY <3>1 DEF Loadable
    <3>4. found = <<>>  BY <2>1 DEF ResultInv
    <3>5. Repacking!Save
      BY <2>1, <2>3, <3>2, <3>3, <3>4 DEF Repacking!Save, Reading
    <3> QED  BY <3>5 DEF Repacking!Next
  <2> QED  BY <1>8, <2>2, <2>3 DEF WriteFile
<1>9. CASE Again
  <2>1. pc = "Done" /\ file' = disk /\ pc' = "Header" /\ disk' = disk  BY <1>9 DEF Again
  <2>2. Loadable(disk) /\ Decoded(disk) = disk.zone /\ disk.zone = zone
    BY <2>1, DecodedIs DEF Saved
  <2>3. disk # NoFile /\ Decoded(disk) # NoFile
    <3>1. disk.header.size \in Nat  BY <2>2 DEF Loadable, IsFile, HeaderType
    <3>2. disk.zone \in [0 .. disk.header.size - 1 -> Byte]  BY <2>2 DEF Loadable, Holds
    <3> QED  BY <2>2, <3>1, <3>2 DEF Loadable
  <2>4. found = <<>> /\ disk.scripts = file.scripts  BY <2>1 DEF ResultInv
  <2>5. RepackSaved' = RepackSaved  BY <2>1 DEF RepackSaved, Decoded, After
  <2>6. Repacking!Reload
    BY <2>1, <2>2, <2>3, <2>4, <2>5 DEF Repacking!Reload, Reading, RepackSaved
  <2> QED  BY <2>6 DEF Repacking!Next
<1>10. CASE Terminated \/ UNCHANGED vars
  <2>1. UNCHANGED <<file, disk, zone, found, pc>>  BY <1>10 DEF Terminated, vars
  <2> QED  BY <1>1, <2>1, StageUnseen
<1> QED  BY <1>2, <1>3, <1>4, <1>5, <1>6, <1>7, <1>8, <1>9, <1>10 DEF Next

(***************************************************************************)
(* HandleFFFile implements Repack, for all files that hold their zones     *)
(* and a disk that takes what is written: blocks, empty blocks, pages and  *)
(* compression are invisible, even where positions go beyond 32 bits, and  *)
(* nothing but the patched scripts changes from run to run. Neither a zone *)
(* nor a file is what stands for none.                                     *)
(***************************************************************************)
THEOREM Implementation ==
  ASSUME \A f \in Files : Holds(f),
         ~IsFile(NoFile), \A n \in Nat : NoFile \notin [0 .. n - 1 -> Byte]
  PROVE  Spec /\ []DoneMeansWritten => Implements
<1>1. Init => Repacking!Init  BY DEF Init, Repacking!Init, Reading
<1>2. IInv /\ ResultInv /\ Holds(file) /\ Saved /\ Saved' /\ [Next]_vars
      => [Repacking!Next]_(Repacking!vars)
  BY RefinedStep
<1>3. Spec => []Holds(file)  BY InputsHold
<1> QED  BY <1>1, <1>2, <1>3, Invariance, SizesInvariance, WrittenIsSaved, PTL
          DEF Spec, Implements, Repacking!Spec
=============================================================================
