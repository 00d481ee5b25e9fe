--------------------------- MODULE FinderProperties ---------------------------
(***************************************************************************)
(* What the obfuscation of a fastfile relies on: the scripts found are     *)
(* scripts, none lies in another, and none is missed without a reason.     *)
(***************************************************************************)
EXTENDS Finder

ResultType == [mark : Nat, name : Nat, obj : Nat, size : Nat]

\* The variables keep their types.
TypeOK ==
  /\ IsZone(zone) /\ pc \in {"Search", "Done", "Failed"}
  /\ pointer \in 0 .. zone.size
  /\ results \in Seq(ResultType)

Last(result) == result.obj + result.size - 1

(***************************************************************************)
(* Scripts found are obfuscated in place, one after another: each begins,  *)
(* with its header, behind the last byte of those found before it. So      *)
(* renaming or patching one changes no byte of another.                    *)
(***************************************************************************)
ResultsApart ==
  \A i, j \in DOMAIN results : i < j => Last(results[i]) < results[j].mark

\* Each is what the obfuscator accepts: it has the magic number and lies in the zone.
ResultsAreScripts ==
  \A i \in DOMAIN results :
    /\ Last(results[i]) < zone.size
    /\ results[i].obj \in zone.magics
    /\ results[i].obj - 1 \in zone.exts
    /\ \A p \in results[i].name .. results[i].obj - 2 : p \notin zone.nuls

-----------------------------------------------------------------------------

\* The zero behind the mark m.
NameEnd(m) == CHOOSE q \in zone.nuls : EndsString(q, m + TreeSize)
HasName(m) == \E q \in zone.nuls : q >= m + TreeSize

\* Behind m there is a script as the linker writes it.
IsScript(m) ==
  /\ HasName(m) /\ zone.lengths[m] >= SmallestSize
  /\ NameEnd(m) \in zone.exts /\ NameEnd(m) - NameSize >= m + TreeSize
  /\ NameEnd(m) + 1 \in zone.magics
  /\ NameEnd(m) + 1 + zone.lengths[m] < zone.size

\* The bytes that belong to what is behind m, were it a script with a name and data.
Covers(m, p) ==
  /\ m < p /\ HasName(m)
  /\ \/ p <= NameEnd(m)
     \/ /\ NameEnd(m) \in zone.exts
        /\ p <= NameEnd(m) + 1 + zone.lengths[m]

(***************************************************************************)
(* A script is missed only when something before it looks like the header  *)
(* of another, whose name or data would cover it: nothing else is skipped, *)
(* whatever lies between the scripts.                                      *)
(***************************************************************************)
AllFound ==
  pc = "Done" =>
    \A m \in Marks(zone) :
      IsScript(m) /\ (\A k \in Marks(zone) : ~Covers(k, m)) =>
        \E i \in DOMAIN results : results[i].mark = m
=============================================================================
