--------------------------- MODULE DriverProperties ---------------------------
(***************************************************************************)
(* What Driver guarantees to whoever runs the command.                     *)
(***************************************************************************)
EXTENDS Driver, FiniteSets

Paths == Seq(STRING)
ContentType == [of : Paths, times : Nat]
FileType == [entry : Paths, in : Paths, out : Paths]

\* The variables keep their types; main returns 0 or -1, or does not return.
TypeOK ==
  /\ case \in Cases
  /\ \A p \in DOMAIN disk : p \in Paths /\ disk[p] \in ContentType
  /\ \A p \in DOMAIN before : p \in Paths /\ before[p] \in ContentType
  /\ pc \in {"Arguments", "Checks", "Private", "Inputs", "Exited"}
  /\ next \in 1 .. Len(case.args) + 1
  /\ DOMAIN given \subseteq Flags \cup Valued
  /\ \A o \in DOMAIN given : given[o] \in STRING
  /\ params \in Seq(STRING) /\ understood \in BOOLEAN
  /\ input \in 1 .. Len(params) + 1
  /\ files \subseteq FileType
  /\ \A h \in handled : h.file \in FileType /\ h.saved \in BOOLEAN
  /\ r \in {0, -1} /\ exit \in {0, -1, Aborted}
  /\ run \in 1 .. MaxRuns

-----------------------------------------------------------------------------
(* What a command says, from its arguments as a whole.                     *)

\* Options with values stand at all places from j to before k, and not at j - 1.
InARow(j, k) ==
  /\ \A m \in j .. k - 1 : case.args[m] \in Valued
  /\ j = 1 \/ case.args[j - 1] \notin Valued

\* Of options in a row, every other one is the value of the one before it.
IsValue(k) == \E j \in 1 .. k : InARow(j, k) /\ (k - j) % 2 = 1

\* What the argument at k is.
Role(k) ==
  IF IsValue(k) THEN "value"
  ELSE IF case.args[k] \in Valued THEN "option"
  ELSE IF case.args[k] \in Flags THEN "flag"
  ELSE IF case.args[k] \in Undefined THEN "undefined" ELSE "input"

\* Where the command stops making sense.
Errors ==
  {k \in 1 .. Len(case.args) :
     Role(k) = "undefined" \/ (Role(k) = "option" /\ k = Len(case.args))}

\* The places before any error where the option o is.
Places(o) ==
  {k \in 1 .. Len(case.args) :
     /\ case.args[k] = o /\ Role(k) \in {"flag", "option"}
     /\ \A e \in Errors : k < e}

ValueOf(o) == case.args[1 + CHOOSE k \in Places(o) : \A m \in Places(o) : m <= k]

\* The command asks for something that can be begun.
CanBegin ==
  /\ Errors = {} /\ Places("-h") = {}
  /\ \E k \in 1 .. Len(case.args) : Role(k) = "input"
  /\ Places("-p") # {} => PrivateFiles[ValueOf("-p")] = "loads"

LevelIsValid == Places("-l") # {} => ValueOf("-l") \in LogLevels

(***************************************************************************)
(* Unless the program aborts, the exit code is 0 exactly when help was     *)
(* asked for, or when the command could be begun and no file failed: an    *)
(* error is not forgotten when later files go well.                        *)
(***************************************************************************)
ExitCode ==
  pc = "Exited" /\ exit # Aborted =>
    (exit = 0 <=> /\ LevelIsValid
                  /\ \/ Places("-h") # {}
                     \/ CanBegin /\ \A h \in handled : h.saved)

-----------------------------------------------------------------------------
(* The files.                                                              *)

Inputs == {PathNamed(params[k]) : k \in 1 .. Len(params)}

\* No link leads out of an input that holds it, or out of the output directory.
Straight ==
  \A base \in Inputs \cup {OutDir} : \A p \in DOMAIN case.links :
    IsStrictPrefix(base, p) => IsStrictPrefix(base, case.links[p])

\* The output directory is no part of the inputs, nor they, or what they link to, of it.
Apart ==
  \A base \in Inputs : \A p \in {base, Real(base)} : ~IsPrefix(OutDir, p) /\ ~IsPrefix(p, OutDir)

Reading == pc \in {"Inputs", "Exited"}

\* Only files of the output directory are made or changed, whatever the inputs.
OriginalsKept ==
  Reading /\ Straight =>
    \A p \in DOMAIN disk :
      ~IsStrictPrefix(OutDir, p) => p \in DOMAIN before /\ disk[p] = before[p]

\* Nothing is obfuscated twice, even when the command is given again.
OnceOnly ==
  Reading /\ Straight /\ Apart =>
    \A p \in DOMAIN disk : disk[p].times <= case.disk[disk[p].of].times + 1

(***************************************************************************)
(* One file that fails does not stop the others: when main returns,        *)
(* every file that was under an input when it began has been handled.      *)
(***************************************************************************)
NothingForgotten ==
  pc = "Exited" /\ exit # Aborted /\ LevelIsValid /\ CanBegin =>
    \A base \in Inputs : \A p \in DOMAIN before :
      \/ p = base
      \/ IsStrictPrefix(base, p) /\ Extension(Last(p)) \in Accepted
      => \E h \in handled : h.of = p

\* With 0, what lies at each output was made in this run, of a file that goes there.
SuccessMeansSaved ==
  pc = "Exited" /\ exit = 0 /\ Straight /\ Apart =>
    \A h \in handled :
      /\ h.to \in DOMAIN disk
      /\ \E g \in handled : g.to = h.to /\ disk[h.to] = Obfuscated(before[g.of])

\* The loops end, and with them every run.
Ends == <>(pc = "Exited" /\ run = MaxRuns)

-----------------------------------------------------------------------------
(* What the documentation says and the code does not do.                   *)

\* README.md:18: a file is saved into the output directory. A linked one may not be.
SavedIntoOutput == \A h \in handled : h.saved => IsStrictPrefix(OutDir, h.to)

\* README.md:18: the file that was given is saved. One of two that go to one path is not.
EachSaved ==
  pc = "Exited" /\ exit = 0 /\ Straight /\ Apart =>
    \A h \in handled : disk[h.to] = Obfuscated(before[h.of])
=============================================================================
