----------------------------- MODULE HashReplace -----------------------------
(***************************************************************************)
(* ApplyPrivateHashes (gsc_obfuscator.cpp:330-342) byte by byte: for each  *)
(* entry of the private file, in whatever order the map is walked, the     *)
(* script is searched from its first byte for the hash of the text, at     *)
(* every offset, and what is found is overwritten by the value of the      *)
(* entry, until nothing is found. GscObfuscator takes all occurrences of   *)
(* an identifier as one step; this module says when that is right.         *)
(*                                                                         *)
(* A word is a function from 0 .. Width - 1 to bytes, a script one from    *)
(* 0 .. n - 1.                                                             *)
(***************************************************************************)
EXTENDS Integers

CONSTANTS Width,         \* sizeof(uint32_t)
          Byte,          \* the values of a byte
          Scripts,       \* the scripts that may be given
          Texts,         \* the texts a private file may list
          PrivateFiles,  \* the maps from texts to values it may give
          HashWord(_),   \* the hash of a text, as it is stored
          NoText         \* no entry of the map is being treated

VARIABLES original,  \* the script as it was given, never written
          hashes,    \* opt.privateFileData.GetHashes()
          left,      \* the entries the walk of the map has not reached
          str,       \* the entry being treated
          script     \* the script

vars == <<original, hashes, left, str, script>>

Word == [0 .. Width - 1 -> Byte]

\* A function on 0 .. n - 1 for some n.
IsScript(s) ==
  /\ s \in [DOMAIN s -> Byte]
  /\ \A p \in DOMAIN s : p \in Nat /\ 0 .. p \subseteq DOMAIN s

ASSUME WidthAssumption == Width \in Nat \ {0}
ASSUME ByteAssumption == Byte \subseteq Nat
ASSUME ScriptAssumption == \A s \in Scripts : IsScript(s)
ASSUME TextAssumption == NoText \notin Texts /\ \A t \in Texts : HashWord(t) \in Word
ASSUME FileAssumption ==
  \A f \in PrivateFiles : DOMAIN f \subseteq Texts /\ f \in [DOMAIN f -> Word]

\* word stands at offset off of the script s.
At(s, off, word) ==
  off \in Nat /\ \A k \in 0 .. Width - 1 : off + k \in DOMAIN s /\ s[off + k] = word[k]

NotTheLast(s, word) == {off \in DOMAIN s : At(s, off, word) /\ off + Width \in DOMAIN s}

\* All offsets at which ByteBuffer::Find would stop.
Occurrences(s, word) == {off \in DOMAIN s : At(s, off, word)}

AllButLast(s, off, word) ==
  [p \in DOMAIN s |-> IF p \in off .. off + Width - 2 THEN word[p - off] ELSE s[p]]
Shifted(s, off, word) ==
  [p \in DOMAIN s |-> IF p \in off + 1 .. off + Width THEN word[p - off - 1] ELSE s[p]]

EightBytes(s, off, word) ==
  [p \in DOMAIN s \cup off .. off + Width |->
     IF p = off + Width THEN 0
     ELSE IF p \in off .. off + Width - 1 THEN word[p - off] ELSE s[p]]

\* s with word written at offset off.
Put(s, off, word) ==
  [p \in DOMAIN s |-> IF p \in off .. off + Width - 1 THEN word[p - off] ELSE s[p]]

-----------------------------------------------------------------------------
Init ==
  /\ original \in Scripts
  /\ hashes \in PrivateFiles
  /\ left = DOMAIN hashes
  /\ str = NoText
  /\ script = original

Visit(t) ==
  /\ str = NoText /\ t \in left
  /\ str' = t /\ left' = left \ {t}
  /\ UNCHANGED <<original, hashes, script>>

\* The first occurrence, as Find starts from 0 again.
ReplaceFound ==
  /\ str # NoText
  /\ \E off \in Occurrences(script, HashWord(str)) :
       /\ \A other \in Occurrences(script, HashWord(str)) : off <= other
       /\ script' = Put(script, off, hashes[str])
  /\ UNCHANGED <<original, hashes, left, str>>

NothingFound ==
  /\ str # NoText /\ Occurrences(script, HashWord(str)) = {}
  /\ str' = NoText
  /\ UNCHANGED <<original, hashes, left, script>>

Done == str = NoText /\ left = {}

Terminated == Done /\ UNCHANGED vars

Next == ReplaceFound \/ NothingFound \/ Terminated \/ \E t \in left : Visit(t)

Spec == Init /\ [][Next]_vars /\ WF_vars(Next)
=============================================================================
