-------------------------------- MODULE Finder --------------------------------
(***************************************************************************)
(* The search for scripts in the zone of a fastfile: FindGscInBuffer of    *)
(* gsc_finder.cpp, over the cursor of bytebuffer.hpp. A script lies in a   *)
(* zone as a header of 24 bytes (a pointer of -1, the length, four zeros,  *)
(* a pointer of -1), its name, and its data. Other things in a zone may    *)
(* look like such a header.                                                *)
(*                                                                         *)
(* A zone is its size, and where the bytes are that the search tells       *)
(* apart: the positions where something looks like a header (marks), with  *)
(* the length it gives; those of the zeros (nuls); the zeros that follow   *)
(* the extension of a script (exts); and where the magic number of         *)
(* a script is (magics).                                                   *)
(***************************************************************************)
EXTENDS Integers, Sequences

CONSTANT Zones \* the zones that may be searched

VARIABLES zone,    \* the zone searched
          pc,      \* whether the search goes on
          pointer, \* the cursor of decReader
          results  \* the scripts found

vars == <<zone, pc, pointer, results>>

TreeSize == 24   \* sizeof(ScriptParseTree)
SmallestSize == 8
NameSize == 4    \* an extension

Marks(z) == DOMAIN z.lengths

\* The bytes of headers, extensions and magic numbers are what they have to be: two headers
\* share bytes only of the pointer between them, and a header those of an extension only as its
\* length.
IsZone(z) ==
  /\ z.size \in Nat
  /\ Marks(z) \subseteq 0 .. z.size - TreeSize /\ z.lengths \in [Marks(z) -> Int]
  /\ z.exts \subseteq z.nuls /\ z.nuls \subseteq 0 .. z.size - 1
  /\ \A m \in Marks(z) :
       /\ m + 12 .. m + 15 \subseteq z.nuls
       /\ z.nuls \cap ((m .. m + 7) \cup (m + 16 .. m + 23)) = {}
       /\ \A k \in Marks(z) : m < k => k >= m + 16
  /\ z.magics \subseteq 0 .. z.size - SmallestSize
  /\ \A p \in z.magics : z.nuls \cap (p .. p + 7) = {p + 6}
  /\ \A m \in Marks(z) :
       /\ \A p \in z.magics : p + 8 <= m \/ p >= m + TreeSize
       /\ \A q \in z.exts : q <= m \/ q = m + 12 \/ q - NameSize >= m + TreeSize

ASSUME ZonesAssumption == \A z \in Zones : IsZone(z)

Init ==
  /\ zone \in Zones
  /\ pc = "Search" /\ pointer = 0 /\ results = <<>>

-----------------------------------------------------------------------------

\* ByteBuffer::FindMasked.
Match(m) == m \in Marks(zone) /\ m >= pointer /\ \A k \in Marks(zone) : k >= pointer => m <= k

\* ByteBuffer::ReadString, from p: the zero that it stops after.
EndsString(q, p) == q \in zone.nuls /\ q >= p /\ \A k \in zone.nuls : k >= p => q <= k

ScriptEnd(q, p) == q \in zone.exts /\ q - p >= NameSize

DataSize(m) == zone.lengths[m] + 1

HasAnyName(m, q) == zone.lengths[m] >= SmallestSize
IsCandidate(m, q) ==
  zone.lengths[m] >= SmallestSize /\ ScriptEnd(q, m + TreeSize)

CanReadOneLess(at, size) == at + size <= zone.size + 1
CanRead(at, size) == at + size <= zone.size

HasMagic(at) == at \in zone.magics

NoMatch ==
  /\ pc = "Search" /\ \A m \in Marks(zone) : m < pointer
  /\ pc' = "Done"
  /\ UNCHANGED <<zone, pointer, results>>

\* A match at the end of the zone with no zero behind it: reading its name throws.
Unterminated ==
  /\ pc = "Search"
  /\ \E m \in Marks(zone) : Match(m) /\ \A q \in zone.nuls : q < m + TreeSize
  /\ pc' = "Failed"
  /\ UNCHANGED <<zone, pointer, results>>

AfterBadData(m, q) == q + 1 + SmallestSize
AfterName(m, q) == q + 1

InsideData(m, q) == q + 1 + SmallestSize
AfterData(m, q) == q + 1 + DataSize(m)

\* The name of what was found is skipped, even when it is none.
Reject ==
  /\ pc = "Search"
  /\ \E m \in Marks(zone), q \in zone.nuls :
       /\ Match(m) /\ EndsString(q, m + TreeSize)
       /\ ~IsCandidate(m, q) \/ ~CanRead(q + 1, DataSize(m))
       /\ pointer' = AfterName(m, q)
  /\ UNCHANGED <<zone, pc, results>>

\* So is its data, even when it is no script.
Take ==
  /\ pc = "Search"
  /\ \E m \in Marks(zone), q \in zone.nuls :
       /\ Match(m) /\ EndsString(q, m + TreeSize)
       /\ IsCandidate(m, q) /\ CanRead(q + 1, DataSize(m))
       /\ pointer' = AfterData(m, q)
       /\ results' = IF HasMagic(q + 1)
                     THEN Append(results, [mark |-> m, name |-> m + TreeSize,
                                           obj |-> q + 1, size |-> DataSize(m)])
                     ELSE results
  /\ UNCHANGED <<zone, pc>>

Terminated == pc \in {"Done", "Failed"} /\ UNCHANGED vars

Next == NoMatch \/ Unterminated \/ Reject \/ Take \/ Terminated

Spec == Init /\ [][Next]_vars /\ WF_vars(Next)
=============================================================================
