---------------------------- MODULE PrivateHashes ----------------------------
(***************************************************************************)
(* HashReplace with the hashes that the program computes: each entry of a  *)
(* private file is looked for as HashT7 of its text                        *)
(* (gsc_obfuscator.cpp:331).                                               *)
(***************************************************************************)
EXTENDS HashReplaceProperties, Hashes

CONSTANT Stored(_)  \* a hash as the bytes of a uint32_t

ASSUME StoredAssumption ==
  /\ \A t \in Texts : t \in Seq(Char) /\ HashWord(t) = Stored(HashT7(t))
  /\ \A m, n \in 0 .. Mask - 1 : Stored(m) = Stored(n) => m = n

\* Characters the program takes for one: a letter in both cases, both slashes.
SameCharacter(c, d) ==
  \/ c = d
  \/ c \in UpperCase /\ d = c + ToLower
  \/ d \in UpperCase /\ c = d + ToLower
  \/ {c, d} = {Backslash, Slash}

SameText(s, t) == Len(s) = Len(t) /\ \A i \in DOMAIN s : SameCharacter(s[i], t[i])

OneApart(s, t) ==
  Len(s) = Len(t) /\ \E i \in DOMAIN s : \A j \in DOMAIN s : j # i => s[j] = t[j]

(***************************************************************************)
(* Texts have one hash if the program takes their characters for the same, *)
(* and texts that differ in one character only then: such entries of a     *)
(* private file never take each other's occurrences, although hashes are   *)
(* cut to 32 bits and negative characters extended to 64.                  *)
(***************************************************************************)
SameHash ==
  \A s, t \in DOMAIN hashes :
    /\ SameText(s, t) => HashWord(s) = HashWord(t)
    /\ OneApart(s, t) /\ HashWord(s) = HashWord(t) => SameText(s, t)
=============================================================================
