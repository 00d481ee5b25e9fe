-------------------------------- MODULE Driver --------------------------------
(***************************************************************************)
(* The program around the obfuscator (main.cpp): the command line, the     *)
(* private file, the inputs one after another, the output of each, and the *)
(* exit code. What happens to one file is in GscObfuscator and Fastfile;   *)
(* here it succeeds, throws what the loop catches, or throws anything else.*)
(*                                                                         *)
(* A path is a sequence of names from a root that holds the inputs and the *)
(* outputs; ".." is a name. Some paths are links to files. A directory     *)
(* exists when there is something in it: those that are made for outputs   *)
(* never written are left out. A file is known by what it was made of and  *)
(* how many times it has been obfuscated.                                  *)
(***************************************************************************)
EXTENDS Integers, SequencesExt

CONSTANTS Cases,         \* command lines, each with the files and links it meets
          PathNamed(_),  \* the path that an argument names
          Extension(_),  \* the extension of a name
          Undefined,     \* arguments that look like options and are none
          PrivateFiles,  \* what loading a private file comes to
          LogLevels,     \* the log levels there are
          MaxRuns        \* how many times the user gives the command

\* Paths without "..".
Plain == Seq(STRING \ {".."})

ASSUME CasesAssumption == \A c \in Cases : c.args \in Seq(STRING)
ASSUME RunsAssumption == MaxRuns \in Nat \ {0}
ASSUME NamesAssumption ==
  /\ PathNamed("output") \in Plain
  /\ \A c \in Cases : \A k \in DOMAIN c.args : PathNamed(c.args[k]) \in Plain

\* The files there are at first; nothing is inside a file.
ASSUME DiskAssumption ==
  \A c \in Cases :
    /\ \A p \in DOMAIN c.disk : p \in Plain \ {<<>>} /\ c.disk[p] = [of |-> p, times |-> 0]
    /\ \A p, q \in DOMAIN c.disk \cup DOMAIN c.links : ~IsStrictPrefix(p, q)

\* A link leads to what is no link, be there a file or not.
ASSUME LinksAssumption ==
  \A c \in Cases : \A p \in DOMAIN c.links :
    /\ p \in Plain \ {<<>>} /\ p \notin DOMAIN c.disk
    /\ c.links[p] \in Plain \ {<<>>} /\ c.links[p] \notin DOMAIN c.links

VARIABLES case,       \* the command line, and the links
          disk,       \* the files there are
          before,     \* the files there were when this run began
          pc,         \* the part of main under way
          next,       \* the argument that ComputeOptions reads next
          given,      \* the options read, with their values
          params,     \* the inputs read
          understood, \* what ComputeOptions returned
          input,      \* the input listed next
          files,      \* the files of the last input listed that are left
          handled,    \* every file given to HandleFile, and whether it was saved
          r,          \* what main is to return
          exit,       \* what it returned
          run         \* the runs so far, this one included

commandLine == <<next, given, params, understood>>
loop == <<input, files, handled, r>>
vars == <<case, disk, before, pc, commandLine, loop, exit, run>>

Flags == {"-h", "-H", "-d", "--no-locals", "--no-private", "-t", "-r"}
Valued == {"-s", "-l", "-p", "-o", "--fastfile-builder", "--fastfile-compression"}
Dashed == Flags \cup Valued \cup Undefined

ASSUME UndefinedAssumption == Undefined \cap (Flags \cup Valued) = {}

Scripts == {".gscc", ".cscc"}
Accepted == Scripts \cup {".ff"}

Aborted == 134 \* an exception that nothing catches

-----------------------------------------------------------------------------
(* Paths.                                                                  *)

\* f with a at x.
Put(f, x, a) == [y \in DOMAIN f \cup {x} |-> IF y = x THEN a ELSE f[y]]

\* The root is its own parent.
Stepped(path, name) == IF name = ".." THEN Front(path) ELSE Append(path, name)

Normal(path) ==
  LET upTo[n \in 0 .. Len(path)] == IF n = 0 THEN <<>> ELSE Stepped(upTo[n - 1], path[n])
  IN  upTo[Len(path)]

\* The file that a path leads to.
Real(path) ==
  LET p == Normal(path) IN IF p \in DOMAIN case.links THEN case.links[p] ELSE p

Entries == DOMAIN disk \cup DOMAIN case.links

IsRegular(path) == Real(path) \in DOMAIN disk
IsDirectory(path) == \E p \in Entries : IsStrictPrefix(Normal(path), p)

\* std::filesystem::relative resolves links first.
Relative(path, base) ==
  LET p == Real(path)
      shared == {n \in 0 .. Len(base) : n <= Len(p) /\ SubSeq(p, 1, n) = SubSeq(base, 1, n)}
      n == CHOOSE m \in shared : \A k \in shared : k <= m
  IN  [k \in 1 .. Len(base) - n |-> ".."] \o SubSeq(p, n + 1, Len(p))

OutDir == PathNamed(IF "-o" \in DOMAIN given THEN given["-o"] ELSE "output")

-----------------------------------------------------------------------------
(* The command line: CliOptions::ComputeOptions.                           *)

Start(files0) ==
  /\ disk = files0 /\ before = files0
  /\ pc = "Arguments"
  /\ next = 1 /\ given = <<>> /\ params = <<>> /\ understood = TRUE
  /\ input = 1 /\ files = {} /\ handled = {} /\ r = 0
  /\ exit = 0

Init == case \in Cases /\ run = 1 /\ Start(case.disk)

Misunderstood == pc' = "Checks" /\ understood' = FALSE /\ UNCHANGED <<next, given, params>>

ReadParam(arg) ==
  /\ arg \notin Dashed
  /\ params' = Append(params, arg) /\ next' = next + 1
  /\ UNCHANGED <<pc, given, understood>>

ReadFlag(arg) ==
  /\ arg \in Flags
  /\ given' = Put(given, arg, arg) /\ next' = next + 1
  /\ UNCHANGED <<pc, params, understood>>

\* The value is the next argument, even when it is an option.
ReadValued(arg) ==
  /\ arg \in Valued
  /\ \/ next = Len(case.args) /\ Misunderstood
     \/ /\ next < Len(case.args)
        /\ given' = Put(given, arg, case.args[next + 1]) /\ next' = next + 2
        /\ UNCHANGED <<pc, params, understood>>

ReadArgument ==
  /\ pc = "Arguments"
  /\ \/ /\ next > Len(case.args) /\ pc' = "Checks" /\ UNCHANGED commandLine
     \/ /\ next <= Len(case.args)
        /\ LET arg == case.args[next]
           IN  \/ ReadParam(arg) \/ ReadFlag(arg) \/ ReadValued(arg)
               \/ arg \in Undefined /\ Misunderstood
  /\ UNCHANGED <<case, disk, before, loop, exit, run>>

-----------------------------------------------------------------------------
(* main, up to its loop.                                                   *)

Exit(code) == pc' = "Exited" /\ exit' = code

BadUsage == ~understood \/ "-h" \in DOMAIN given \/ params = <<>>

\* A log level is looked at first, whatever the rest of the command says.
CheckUsage ==
  /\ pc = "Checks"
  /\ \/ /\ "-l" \in DOMAIN given /\ given["-l"] \notin LogLevels
        /\ Exit(-1)
     \/ /\ "-l" \in DOMAIN given => given["-l"] \in LogLevels
        /\ \/ BadUsage /\ Exit(IF "-h" \in DOMAIN given THEN 0 ELSE -1)
           \/ ~BadUsage /\ pc' = "Private" /\ UNCHANGED exit
  /\ UNCHANGED <<case, disk, before, commandLine, loop, run>>

PrivateFile == IF "-p" \in DOMAIN given THEN PrivateFiles[given["-p"]] ELSE "loads"

LoadPrivateFile ==
  /\ pc = "Private"
  /\ \/ PrivateFile = "loads" /\ pc' = "Inputs" /\ UNCHANGED exit
     \/ PrivateFile = "refused" /\ Exit(-1)
     \/ PrivateFile = "throws" /\ Exit(Aborted)
  /\ UNCHANGED <<case, disk, before, commandLine, loop, run>>

-----------------------------------------------------------------------------
(* The loop of main over the inputs and their files.                       *)

\* A file found under its input, and where it goes.
Listed(base, path) ==
  LET rel == Relative(path, base)
  IN  [entry |-> path, in |-> Normal(base \o rel), out |-> Normal(OutDir \o rel)]

Found(base) ==
  {Listed(base, p) :
     p \in {q \in Entries : IsStrictPrefix(base, q) /\ Extension(Last(q)) \in Accepted}}

InputPath == PathNamed(params[input])

\* One file is taken whatever its name; of a directory, those with the right ones, in any order.
ListInput ==
  /\ pc = "Inputs" /\ files = {} /\ input <= Len(params)
  /\ \/ /\ files' = IF IsRegular(InputPath)
                    THEN {[entry |-> InputPath, in |-> InputPath,
                           out |-> Normal(Append(OutDir, Last(InputPath)))]}
                    ELSE Found(InputPath)
        /\ input' = input + 1
        /\ UNCHANGED <<pc, exit>>
     \/ \* a directory that cannot be walked
        /\ ~IsRegular(InputPath) /\ IsDirectory(InputPath)
        /\ Exit(Aborted)
        /\ UNCHANGED <<input, files>>
  /\ UNCHANGED <<case, disk, before, commandLine, handled, r, run>>

\* A file is where a directory should be.
InTheWay(path) == \E p \in Entries : IsStrictPrefix(p, path)

\* HandleFile gets as far as the content of the file.
Readable(f) ==
  /\ ~InTheWay(f.out)
  /\ Extension(Last(f.in)) \in Accepted
  /\ Real(f.in) \in DOMAIN disk

Writable(f) == ~IsDirectory(Real(f.out)) /\ ~InTheWay(Real(f.out))

Obfuscated(content) == [content EXCEPT !.times = @ + 1]

LastResult(saved) == IF saved THEN 0 ELSE -1
Failures(saved) == IF saved THEN r ELSE r - 1
Result(saved) == IF saved THEN r ELSE -1

LeftUntilError(f, saved) == IF saved THEN files \ {f} ELSE {}
LeftToRetry(f, saved) == IF saved THEN files \ {f} ELSE files
Left(f, saved) == files \ {f}

\* f has been handled, and an exception has been caught unless it was saved.
Over(f, saved) ==
  /\ files' = Left(f, saved)
  /\ handled' = handled \cup {[file |-> f, of |-> Real(f.in), to |-> Real(f.out), saved |-> saved]}
  /\ r' = Result(saved)

SourceOrOutput(f) == IF Real(f.out) \in DOMAIN disk THEN Real(f.out) ELSE Real(f.in)
Source(f) == Real(f.in)

TargetInPlace(f) == Real(f.in)
Target(f) == Real(f.out)

SaveUnchecked(f) ==
  /\ Readable(f) /\ Over(f, TRUE)
  /\ disk' = IF Writable(f) THEN Put(disk, Target(f), Obfuscated(disk[Source(f)])) ELSE disk
  /\ UNCHANGED <<pc, exit>>

Save(f) ==
  /\ Readable(f) /\ Writable(f) /\ Over(f, TRUE)
  /\ disk' = Put(disk, Target(f), Obfuscated(disk[Source(f)]))
  /\ UNCHANGED <<pc, exit>>

HandleFile ==
  /\ pc = "Inputs"
  /\ \E f \in files :
       \/ Save(f)
       \/ Over(f, FALSE) /\ UNCHANGED <<disk, pc, exit>>
       \/ \* not a runtime_error
          /\ Readable(f) /\ Exit(Aborted)
          /\ UNCHANGED <<disk, files, handled, r>>
  /\ UNCHANGED <<case, before, commandLine, input, run>>

Return ==
  /\ pc = "Inputs" /\ files = {} /\ input > Len(params)
  /\ Exit(r)
  /\ UNCHANGED <<case, disk, before, commandLine, loop, run>>

\* The user gives the same command again.
Again ==
  /\ pc = "Exited" /\ run < MaxRuns
  /\ run' = run + 1
  /\ before' = disk /\ pc' = "Arguments"
  /\ next' = 1 /\ given' = <<>> /\ params' = <<>> /\ understood' = TRUE
  /\ input' = 1 /\ files' = {} /\ handled' = {} /\ r' = 0
  /\ exit' = 0
  /\ UNCHANGED <<case, disk>>

Terminated == pc = "Exited" /\ run >= MaxRuns /\ UNCHANGED vars

Next ==
  \/ ReadArgument \/ CheckUsage \/ LoadPrivateFile \/ ListInput \/ HandleFile
  \/ Return \/ Again \/ Terminated

Spec == Init /\ [][Next]_vars /\ WF_vars(Next)
=============================================================================
