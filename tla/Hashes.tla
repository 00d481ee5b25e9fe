-------------------------------- MODULE Hashes --------------------------------
(***************************************************************************)
(* HashT7, the hash of an identifier (hash_mini.hpp): FNV-1a over the      *)
(* characters in 64 bits, cut to 32 bits at the end. Characters are signed *)
(* numbers, and a text is a sequence of them.                              *)
(***************************************************************************)
EXTENDS Integers, Sequences

CONSTANTS Mask,       \* MASK32 + 1, the number of hashes
          Iv,         \* IV_32_DEFAULT
          Prime,      \* FNV1A_32_T7_PRIME, where the hash starts
          Char,       \* the characters of texts
          UpperCase,  \* the characters A to Z
          ToLower,    \* 'a' - 'A'
          Backslash,
          Slash,
          Xor64(_, _)   \* the operator ^ of two uint64_t

\* The number of values of a uint64_t, which holds two hashes.
Wide == Mask * Mask

OnlyPaths(c) == IF c = Backslash THEN Slash ELSE c

lowerc(c) ==
  IF c \in UpperCase THEN c + ToLower ELSE IF c = Backslash THEN Slash ELSE c

ASSUME HashAssumption == Mask \in Nat \ {0} /\ Iv \in Nat /\ Prime \in 0 .. Wide - 1

\* What is made of a letter or a slash is neither a capital letter nor a backslash.
ASSUME LettersAssumption ==
  /\ UpperCase \subseteq Int /\ ToLower \in Int \ {0} /\ Backslash \in Int /\ Slash \in Int
  /\ {Backslash, Slash} \cap UpperCase = {} /\ Backslash # Slash
  /\ \A c \in UpperCase : c + ToLower \notin UpperCase \cup {Backslash, Slash}

\* A character is one of fewer values than a hash, some of them negative.
ASSUME CharAssumption ==
  \A c \in Char : c \in Int /\ lowerc(c) \in -(Mask \div 2) .. (Mask - 1) \div 2

\* The factor is odd: multiplied by it, modulo a power of two, no two numbers become one.
ASSUME IvAssumption ==
  \A m, n \in 0 .. Mask - 1 : (m * Iv) % Mask = (n * Iv) % Mask => m = n

\* What is xored twice is as before, and the lower halves are xored apart.
ASSUME XorAssumption ==
  \A m, n \in 0 .. Wide - 1 :
    /\ Xor64(m, n) \in 0 .. Wide - 1
    /\ Xor64(m, n) = Xor64(n, m) /\ Xor64(Xor64(m, n), n) = m
    /\ Xor64(m, n) % Mask = Xor64(m % Mask, n % Mask)

\* A char that is negative is extended by ones.
Extended(c) == IF c < 0 THEN Wide + c ELSE c

Hash64A(str, start, iv) ==
  LET hash[n \in 0 .. Len(str)] ==
        IF n = 0 THEN start ELSE (Xor64(hash[n - 1], Extended(lowerc(str[n]))) * iv) % Wide
  IN  hash[Len(str)]

HashT7Pre(str) == Hash64A(str, Prime, Iv) % Mask
HashT7Post(hash) == (hash * Iv) % Mask
HashT7(str) == HashT7Post(HashT7Pre(str))
=============================================================================
