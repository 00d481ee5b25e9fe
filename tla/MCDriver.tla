-------------------------------- MODULE MCDriver --------------------------------
(***************************************************************************)
(* Command lines and files for model checking Driver. An argument that     *)
(* names a path is one of those of MCPathNamed.                            *)
(***************************************************************************)
EXTENDS DriverProperties, TLC

MCPathNamed(arg) ==
  CASE arg = "in" -> <<"w", "in">>
    [] arg = "other" -> <<"w", "other">>
    [] arg = "in/a.gscc" -> <<"w", "in", "a.gscc">>
    [] arg = "other/a.gscc" -> <<"w", "other", "a.gscc">>
    [] arg = "in/notes.txt" -> <<"w", "in", "notes.txt">>
    [] arg = "link.gscc" -> <<"w", "link.gscc">>
    [] arg = "output" -> <<"w", "output">>
    [] arg = "blocked" -> <<"w", "blocked">>
    [] OTHER -> <<"w", "nothing">>

MCExtension(name) ==
  CASE name \in {"a.gscc", "b.gscc", "link.gscc"} -> ".gscc"
    [] name = "c.cscc" -> ".cscc"
    [] name = "z.ff" -> ".ff"
    [] OTHER -> ".txt"

MCPrivateFiles == [good |-> "loads", short |-> "refused", torn |-> "throws"]

Original(p) == [of |-> p, times |-> 0]
Files(paths) == [p \in paths |-> Original(p)]
NoLinks == <<>>

A == <<"w", "in", "a.gscc">>
B == <<"w", "in", "sub", "b.gscc">>
C == <<"w", "in", "sub", "c.cscc">>
Z == <<"w", "in", "z.ff">>
Notes == <<"w", "in", "notes.txt">>
OtherA == <<"w", "other", "a.gscc">>
Own == <<"w", "output", "link.gscc">>
OtherZ == <<"w", "other", "z.ff">>

Tree == Files({A, B, Z, Notes, OtherA, OtherZ})

Case(args, fs, links) == [args |-> args, disk |-> fs, links |-> links]

\* Commands that are refused, or misread, or that only ask for help.
Commands ==
  {Case(args, Files({A}), NoLinks) :
     args \in { <<>>, <<"-h">>, <<"-h", "-x">>, <<"-x", "-h">>, <<"in", "-o">>,
                <<"-l", "z", "-h">>, <<"-l", "e", "in">>, <<"-o", "-h", "in">>,
                <<"-s", "in">>, <<"-o", "-s", "-p", "good", "in">>, <<"-s", "-o", "-p">>, <<"-l", "z", "-l", "w", "in">>,
                <<"-p", "good", "in">>, <<"-p", "short", "in">>, <<"-p", "torn", "in">>,
                <<"-d", "in", "-r", "-x", "other">>, <<"missing">> }}

\* A directory; files and directories in both orders; one file twice.
Usual ==
  {Case(args, Tree, NoLinks) :
     args \in { <<"in">>, <<"in", "other">>, <<"other/a.gscc", "in", "missing">>,
                <<"in/a.gscc", "in/notes.txt">> }}

\* Outputs among the inputs, in place, and where a file or a directory is in the way.
Tangled ==
  { Case(<<"in", "output">>, Files({A, <<"w", "output", "b.gscc">>}), NoLinks),
    Case(<<"-o", "in", "in">>, Files({A, B}), NoLinks),
    Case(<<"-o", "blocked", "in">>, Files({A, B, <<"w", "blocked">>}), NoLinks),
    Case(<<"in">>, Files({A, B, <<"w", "output", "a.gscc", "notes.txt">>}), NoLinks) }

\* Links to a neighbour, to nothing, and from a file that is named itself, also to its own output.
Linked ==
  { Case(<<"in">>, Files({A, C}), <<"w", "in", "b.gscc">> :> C),
    Case(<<"in">>, Files({A}), <<"w", "in", "b.gscc">> :> C),
    Case(<<"link.gscc">>, Files({A, C}), <<"w", "link.gscc">> :> C),
    Case(<<"link.gscc">>, Files({Own}), <<"w", "link.gscc">> :> Own) }

MCCases == Commands \cup Usual \cup Tangled \cup Linked

\* A link that leads out of the input.
Away == { Case(<<"in">>, Files({A, OtherA}), <<"w", "in", "b.gscc">> :> OtherA) }
AwayCases == MCCases \cup Away

=============================================================================
