-------------------------------- MODULE MCFinder --------------------------------
(***************************************************************************)
(* Zones for model checking Finder. Headers and magic numbers have their   *)
(* true sizes; everything between them is as short as possible.            *)
(***************************************************************************)
EXTENDS FinderProperties, FiniteSets

\* The zeros of the header at m: its padding, and the high bytes of a small length.
HeaderNuls(m) == m + 9 .. m + 15

Zone(size, lengths, exts, magics, others) ==
  [size |-> size, lengths |-> lengths, exts |-> exts, magics |-> magics,
   nuls |-> exts \cup others \cup {p + 6 : p \in magics}
             \cup UNION {HeaderNuls(m) : m \in DOMAIN lengths}]

(***************************************************************************)
(* Up to three headers, the second in the first as in a table of pointers, *)
(* or one byte further where the pointer between them is longer by one;    *)
(* names that are there or not, or end in no extension; data that is a     *)
(* script or not, of a size that is too small, the least there is (which   *)
(* just fits behind the third header, or lacks a byte), or such that it    *)
(* holds the other headers.                                                *)
(***************************************************************************)
MCZones ==
  {z \in UNION
     {{Zone(size, lengths, exts, magics, others) :
         size \in {97, 98}, lengths \in [marks -> {7, 8, 52}],
         exts \in SUBSET {31, 47, 88}, magics \in SUBSET {32, 48, 89},
         others \in {{}, {31}}} :
        marks \in SUBSET {3, 19, 60} \cup {{3, 20}}} :
     IsZone(z)}
=============================================================================
