-------------------------------- MODULE Repack --------------------------------
(***************************************************************************)
(* What HandleFFFile promises of a fastfile, blocks and compression apart: *)
(* a fastfile is a zone; its scripts are patched one by one, nothing else  *)
(* in it changes, and what is saved is the whole of the patched zone.      *)
(***************************************************************************)
EXTENDS Integers, Sequences

CONSTANTS Zones,   \* the zones that may be given, each with its scripts
          Byte,    \* the bytes of a zone
          NoZone   \* nothing has been saved

VARIABLES zone,    \* the zone being worked on
          scripts, \* its scripts, in the order they are found
          left,    \* those that have not been patched
          saved    \* the zone of the last output

vars == <<zone, scripts, left, saved>>

Init == <<zone, scripts>> \in Zones /\ left = scripts /\ saved = NoZone

Patch ==
  /\ left # <<>> /\ left' = Tail(left)
  /\ \E image \in [Head(left) -> Byte] :
       zone' = [k \in DOMAIN zone |-> IF k \in Head(left) THEN image[k] ELSE zone[k]]
  /\ UNCHANGED <<scripts, saved>>

Save == left = <<>> /\ saved' = zone /\ UNCHANGED <<zone, scripts, left>>

\* What was saved is the input of the next run.
Reload ==
  /\ left = <<>> /\ saved # NoZone
  /\ zone' = saved /\ left' = scripts
  /\ UNCHANGED <<scripts, saved>>

Next == Patch \/ Save \/ Reload

Spec == Init /\ [][Next]_vars
=============================================================================
