--------------------------- MODULE ObfuscatedAgain ---------------------------
(***************************************************************************)
(* A script that is obfuscated, and its result given to the tool again, as *)
(* happens when the output directory lies in the input directory, whose    *)
(* files GetFileRecurseExt lists (main.cpp:222), and the command is run    *)
(* once more.                                                              *)
(***************************************************************************)
EXTENDS GscObfuscatorProperties

CONSTANT MaxRuns  \* how often a script is obfuscated

VARIABLE runs     \* the runs that have begun

(***************************************************************************)
(* The result as the next run reads it. A function that starts with a jump *)
(* declares no parameters; dev imports keep the flag that marks them.      *)
(***************************************************************************)
Reread ==
  [script EXCEPT
     !.exports = [i \in DOMAIN exports |->
        [@[i] EXCEPT !.address = exports[i].address,
                     !.name_space = exports[i].name_space,
                     !.name = exports[i].name,
                     !.params = IF Moved(i) THEN <<>> ELSE @]],
     !.imports = [k \in DOMAIN imports |->
        [@[k] EXCEPT !.import_namespace = imports[k].import_namespace,
                     !.name = imports[k].name,
                     !.offsets = imports[k].offsets]],
     !.devStrings = IF opt.noDebugKill THEN devStrings ELSE <<>>,
     !.words = [w \in {v \in DOMAIN @ : mem[v][1] = "word"} |-> mem[w][2]]]

\* A new obfuscator over the bytes the last one has left.
Again ==
  /\ pc = "Done" /\ runs < MaxRuns
  /\ runs' = runs + 1
  /\ script' = Reread /\ devStrings' = Reread.devStrings
  /\ opt' \in Options
  /\ pc' = "ReadTables" /\ todo' = {}
  /\ exportsMap' = <<>> /\ free' = {} /\ junk' = 0 /\ privateCount' = 0
  /\ UNCHANGED <<mem, exports, imports>>

InitAgain == Init /\ runs = 1

NextAgain == (Next /\ UNCHANGED runs) \/ Again

SpecAgain == InitAgain /\ [][NextAgain]_<<vars, runs>>
=============================================================================
