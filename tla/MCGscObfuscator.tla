-------------------------- MODULE MCGscObfuscator --------------------------
(***************************************************************************)
(* Scripts and options for model checking GscObfuscator. Demo is laid out  *)
(* like test/file0.gsc: four functions, an assert, and a dev block with    *)
(* two iprintln of a string. Jumps reach 67 bytes forward and 68 back, as  *)
(* Limits needs.                                                           *)
(***************************************************************************)
EXTENDS GscObfuscatorProperties, TLC

Export(address, name, private, len, params) ==
  [address |-> address, name_space |-> 500, name |-> name, private |-> private,
   len |-> len, params |-> params]

Import(name, dev, method, offsets) ==
  [import_namespace |-> 500, name |-> name, dev |-> dev, method |-> method,
   offsets |-> offsets]

(***************************************************************************)
(* 8 auto, 16 __init__ (assert at 20, its operand at 24), 40               *)
(* on_player_connect (a hash at 44, strings at 52 and 76, iprintln at 64   *)
(* and 88), 100 add (its parameter names at 104 and 112).                  *)
(***************************************************************************)
Demo ==
  [size |-> 124, tablesFit |-> TRUE, textsFit |-> TRUE, devStringsFit |-> 2,
   exports |-> << Export(8, 101, FALSE, 8, <<>>),
                  Export(16, 102, TRUE, 24, <<>>),
                  Export(40, 103, TRUE, 60, <<>>),
                  Export(100, 104, TRUE, 24, <<FALSE, FALSE>>) >>,
   imports |-> << Import(102, FALSE, FALSE, <<10>>),
                  Import(301, TRUE, FALSE, <<22>>),
                  Import(104, FALSE, FALSE, <<46>>),
                  Import(302, TRUE, TRUE, <<58, 82>>) >>,
   devStrings |-> << <<50>>, <<76>> >>,
   words |-> (44 :> 101 @@ 104 :> 401 @@ 112 :> 402),
   live |-> (8 .. 19) \cup (34 .. 43) \cup (98 .. 103) \cup (120 .. 123)]

(***************************************************************************)
(* add comes first in the table, one byte out of reach of the slot at 28,  *)
(* with a vararg parameter; two functions of one name; a name used as a    *)
(* hash in two places; a checksum that no size matches; one dev call by    *)
(* two imports of the same name.                                           *)
(***************************************************************************)
Twins ==
  [Demo EXCEPT
     !.exports = << Export(100, 104, FALSE, 20, <<FALSE, TRUE>>),
                    Export(16, 102, TRUE, 24, <<>>),
                    Export(40, 102, TRUE, 0, <<>>),
                    Export(8, 105, TRUE, 8, <<>>) >>,
     !.imports = << Import(302, TRUE, TRUE, <<82>>),
                    Import(102, FALSE, FALSE, <<10>>),
                    Import(105, FALSE, FALSE, <<36>>),
                    Import(302, TRUE, FALSE, <<22>>),
                    Import(104, FALSE, FALSE, <<46>>) >>,
     !.devStrings = << <<50>> >>,
     !.words = (44 :> 104 @@ 60 :> 104 @@ 64 :> 102 @@ 104 :> 401 @@ 112 :> 402)]

(***************************************************************************)
(* Dev ops at both ends of the image, too close to be killed, two uses of  *)
(* one string, and a function farther than any jump from the slots.        *)
(***************************************************************************)
Edges ==
  [size |-> 200, tablesFit |-> TRUE, textsFit |-> TRUE, devStringsFit |-> 1,
   exports |-> << Export(12, 101, TRUE, 4, <<>>), Export(180, 104, TRUE, 6, <<>>) >>,
   imports |-> << Import(301, TRUE, FALSE, <<0, 190>>), Import(104, FALSE, FALSE, <<18>>) >>,
   devStrings |-> << <<50, 58, 66>> >>,
   words |-> (40 :> 104),
   live |-> (12 .. 39) \cup (80 .. 187)]

(***************************************************************************)
(* Slots at 88, 96 and 104, the well at 80. Function by function, a jump   *)
(* of -72 from the first slot, beyond reach; of -68 from it, as far back   *)
(* as can be; of 64 from the third, as far forward as can be between       *)
(* multiples of 4; and of 68 from the second, one byte too far.            *)
(***************************************************************************)
Limits ==
  [size |-> 200, tablesFit |-> TRUE, textsFit |-> TRUE, devStringsFit |-> 1,
   exports |-> << Export(20, 101, FALSE, 4, <<>>), Export(24, 102, TRUE, 6, <<>>),
                  Export(172, 103, FALSE, 8, <<>>), Export(168, 104, TRUE, 4, <<>>) >>,
   imports |-> << Import(102, FALSE, FALSE, <<22>>), Import(103, FALSE, FALSE, <<30>>) >>,
   devStrings |-> << <<80, 88, 96, 104>> >>,
   words |-> (40 :> 104),
   live |-> (20 .. 35) \cup (168 .. 187)]

\* Scripts that do not fit their own tables: each makes another pass throw.
Broken ==
  { [Demo EXCEPT !.tablesFit = FALSE],
    [Demo EXCEPT !.exports[4].address = 121, !.exports[4].len = 0, !.exports[4].params = <<>>],
    [Demo EXCEPT !.exports[1].params = <<TRUE>>, !.exports[1].address = 118,
                 !.exports[1].len = 0],
    [Demo EXCEPT !.textsFit = FALSE],
    [Demo EXCEPT !.devStringsFit = 1] }

Defaults ==
  [noRemoveLocals |-> FALSE, noRemovePrivateExports |-> FALSE, noDebugKill |-> FALSE,
   noTrampoline |-> FALSE, recomputeCRC |-> FALSE, hashes |-> <<>>]

MCScripts == {Demo, Twins, Edges, Limits} \cup Broken

\* Two hashes, one of them also the name of functions, get new values.
PrivateHashes == (101 :> 901) @@ (104 :> 902)

MCOptions ==
  { Defaults,
    [Defaults EXCEPT !.recomputeCRC = TRUE, !.hashes = PrivateHashes],
    [Defaults EXCEPT !.noRemoveLocals = TRUE, !.noTrampoline = TRUE],
    [Defaults EXCEPT !.noDebugKill = TRUE, !.hashes = PrivateHashes],
    [Defaults EXCEPT !.noRemovePrivateExports = TRUE, !.hashes = PrivateHashes] }
=============================================================================
