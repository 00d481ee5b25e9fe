---------------------------- MODULE MCHashReplace ----------------------------
(***************************************************************************)
(* Words of two bytes of two bits, hashes of four bits. The texts are made *)
(* of a letter in both cases, the two slashes and a negative character.    *)
(***************************************************************************)
EXTENDS PrivateHashes, SequencesExt, Bitwise

A == 1
MCUpperCase == {A}
a == 3
MCToLower == a - A
MCBackslash == 2
MCSlash == 4
accent == -1

MCChar == {A, a, MCBackslash, MCSlash, accent}

MCByte == 0 .. 3
MCTexts == {<<>>} \cup [1 .. 1 -> MCChar]
                  \cup [1 .. 2 -> {A, a, MCSlash, accent}]

\* A table, so that TLC computes each value once.
XorTable == [m \in 0 .. 255 |-> [n \in 0 .. 255 |-> m ^^ n]]
MCXor(m, n) == XorTable[m][n]

\* As a little-endian processor stores a number.
MCStored(n) == 0 :> n % 4 @@ 1 :> n \div 4

\* Built entry by entry, so that TLC computes each hash once.
HashTable == FoldSet(LAMBDA t, table : t :> MCStored(HashT7(t)) @@ table, <<>>, MCTexts)
MCHashWord(t) == HashTable[t]

\* Scripts shorter than a word, and all those of five bytes.
MCScripts == {[p \in 0 .. -1 |-> 0], [p \in 0 .. 0 |-> 1]} \cup [0 .. 4 -> MCByte]

\* Any order of the texts.
Rank(t) == FoldLeft(LAMBDA n, c : 8 * n + c + 2, 0, t)

(***************************************************************************)
(* One text with every value, its own hash among them; two texts whose     *)
(* hashes (2 and 1) do not overlap, with values that are each other's hash *)
(* (1, 2), that overlap them (5, 8) or do not (3, 13); and all pairs of    *)
(* texts that differ in one character, or that are taken for the same.     *)
(***************************************************************************)
MCPrivateFiles ==
  LET values == {1, 2, 3, 5, 8, 13}
      pairs == {v \in values \X values : v[1] # v[2]}
  IN  {<<a>> :> MCStored(v) : v \in 0 .. 15}
      \cup {<<accent>> :> MCStored(v[1]) @@ <<MCSlash>> :> MCStored(v[2]) : v \in pairs}
      \cup {s :> MCStored(3) @@ t :> MCStored(13) :
               <<s, t>> \in {st \in MCTexts \X MCTexts :
                 /\ Rank(st[1]) < Rank(st[2])
                 /\ OneApart(st[1], st[2]) \/ SameText(st[1], st[2])}}
=============================================================================
