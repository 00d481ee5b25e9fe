------------------------ MODULE HashReplaceProperties ------------------------
(***************************************************************************)
(* What the replacement of private hashes promises.                        *)
(***************************************************************************)
EXTENDS HashReplace

\* Every variable has its type; the script keeps its length.
TypeOK ==
  /\ IsScript(original)
  /\ DOMAIN hashes \subseteq Texts /\ hashes \in [DOMAIN hashes -> Word]
  /\ left \subseteq DOMAIN hashes
  /\ str \in DOMAIN hashes \cup {NoText}
  /\ script \in [DOMAIN original -> Byte]

\* The bytes of a come before those of b, compared from the first one on.
Before(a, b) ==
  \E p \in DOMAIN a : a[p] < b[p] /\ \A q \in DOMAIN a : q < p => a[q] = b[q]

(***************************************************************************)
(* As long as one entry is treated, every replacement moves the script in  *)
(* one direction of the order of its bytes: up if the value of the entry   *)
(* is above its hash, down if it is below. So no script comes back, though *)
(* the search starts again from 0 and a value may complete another         *)
(* occurrence with the bytes around it.                                    *)
(***************************************************************************)
Progress ==
  [][script' # script =>
       IF Before(HashWord(str), hashes[str]) THEN Before(script, script')
       ELSE Before(script', script)]_vars

(***************************************************************************)
(* The search always ends, and with it the walk of the map, whatever the   *)
(* bytes and the order, unless an entry was given its own hash as value.   *)
(***************************************************************************)
Ends == (\A t \in DOMAIN hashes : hashes[t] # HashWord(t)) => <>Done

\* Two words that can share bytes at a distance d of their first ones.
Overlap(v, w, d) ==
  \A k \in 0 .. Width - 1 : k + d \in 0 .. Width - 1 => v[k + d] = w[k]

Near == -(Width - 1) .. Width - 1

\* No two hashes overlap, and no value overlaps a hash, not even by one byte.
Unmistakable ==
  \A t, u \in DOMAIN hashes : \A d \in Near :
    /\ ~Overlap(hashes[t], HashWord(u), d)
    /\ t # u \/ d # 0 => ~Overlap(HashWord(t), HashWord(u), d)

(***************************************************************************)
(* The bytes of s with the hash of each entry in chosen replaced at its    *)
(* offset, all at once: what GscObfuscator!Replace does.                   *)
(***************************************************************************)
Covers(x, p) == p \in x[2] .. x[2] + Width - 1

Substituted(s, chosen) ==
  [p \in DOMAIN s |->
     IF \E x \in chosen : Covers(x, p)
     THEN LET x == CHOOSE x \in chosen : Covers(x, p) IN hashes[x[1]][p - x[2]]
     ELSE s[p]]

Places(s) == {x \in (DOMAIN hashes) \X (DOMAIN s) : At(s, x[2], HashWord(x[1]))}

(***************************************************************************)
(* If no hash or value can be mistaken for another by some of its bytes,   *)
(* then the result does not depend on the order of the map nor on the      *)
(* searches that start again: it is the script with every occurrence of    *)
(* every hash replaced at once.                                            *)
(***************************************************************************)
AllAtOnce == Done /\ Unmistakable => script = Substituted(original, Places(original))
=============================================================================
