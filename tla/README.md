# gsc-obf in TLA+

`gsc-obf` obfuscates compiled Black Ops III scripts (`.gscc`, `.cscc`), alone or
inside a fastfile (`.ff`). It is a sequential program, but one that is hard to
test: eight passes rewrite one byte image in place, each relying on what the
earlier ones left, and on offsets whose alignment and width decide whether the
result still runs. This directory specifies what the result must satisfy, checks
it with TLC on small scripts, and proves most of it with TLAPS for all scripts.
It does the same for what surrounds the obfuscator: the fastfile, the search for
scripts in it, the private file and the program itself.

## Inventory

| Component | Source (`src/src/gsc-obf/`) | State | Operations |
|---|---|---|---|
| Script obfuscator | `gsc_obfuscator.*` | the image, `exportsMap`, `importsMap`, `trampolineFreeLocations`, `junkLocation` | `ReadTables`, the passes of `RunTasks` |
| Fastfile container | `fastfile.*` | `FastfileInfo` (header, `maxBlockSize`, the zone) | `DecompressFastfile`, `CompressFastfile` |
| Script finder | `gsc_finder.*` | a cursor over the zone | `FindGscInBuffer` |
| Private file | `private_file.*` | UID, maps of strings, hashes and scripts | `ReadFile`, `RenamedString`, `RenamedScript`, `RenamedScriptExt` |
| Driver | `main.cpp`, `options.hpp` | options, exit code, files on disk | `HandleFile`, `HandleFFFile`, `HandleGSCFile` |
| Byte buffers | `utils/bytebuffer*.hpp` | pointer, length | reads, `Align`, `Find`, `FindMasked` |
| Compression | `utils/compress_utils.*` | none | wrappers of zlib and LZ4 |
| Hashes | `utils/hash_mini.hpp` | none | `HashT7` |
| Command line | `utils/cli_options.hpp` | options, parameters | `ComputeOptions` |
| Random, logs, utilities | `utils/*` | RNG, log level | helpers |

How they interact: the driver reads a file into memory. A script goes straight to
the obfuscator, which edits the bytes in place. A fastfile is decompressed block
after block into one zone; the finder returns pointers into the zone; the driver
renames the asset and has the obfuscator edit each script in place; the zone is
then compressed again and written. The private file is loaded once and is shared
by all. Any error is an exception; the driver catches it per input file, so
that nothing is written for that file.

Nothing runs concurrently. What is hard is order (a pass reads what another has
rewritten), cached values (entry and size of every export), slots of memory
shared by several owners, alignment and 16-bit displacements, unordered maps, and
exceptions half way through an in-place rewriting. `PROJECT.json` lists these
hazards line by line, with the properties that cover them.

What makes each component correct:

* obfuscator: every export can still be called and linked, code that runs is not
  damaged, names change consistently, checksums are those asked for, no slot has
  two owners, and it ends;
* fastfile: what is written can be read back and gives the patched zone; blocks
  are where they say they are; both loops end;
* finder: it returns exactly the well-formed scripts, never overlapping ones;
* private file: names never collide, fit where they are written, and a script and
  the includes that name it are renamed alike (not so for names with `/`, see below);
* driver: an output is complete or absent, and the exit code says so.

## Plan

The order follows what matters most in the result.

| # | Modules | What | State |
|---|---|---|---|
| 1 | `GscObfuscator`, `GscObfuscatorProperties`, `MCGscObfuscator`, `GscObfuscatorProofs`, `GscObfuscatorResultProofs` | the passes over one script | done |
| 2 | `Fastfile`, `FastfileProperties`, `MCFastfile`, `FastfileProofs` | blocks, zone, output of `HandleFFFile` | done |
| 3 | `Repack`, `FastfileRefinement` | what a fastfile is for, blocks apart; `Fastfile` implements it | done, and proved in `FastfileProofs` |
| 4 | `PrivateFile`, `PrivateFileProperties`, `MCPrivateFile`, `PrivateFileProofs` | the private file, and its texts in the scripts of a fastfile | done |
| 5 | `Finder`, `FinderProperties`, `MCFinder`, `FinderProofs` | the search for scripts in a zone | done |
| 6 | `Driver`, `DriverProperties`, `MCDriver`, `DriverProofs`, `DriverFilesProofs` | command line, inputs, output paths, exit code | done |
| 7 | `Hashes`, `HashReplace`, `HashReplaceProperties`, `PrivateHashes`, `MCHashReplace`, `HashReplaceProofs` | the search and replace of `ApplyPrivateHashes` byte by byte, against the atomic `Replace` of `GscObfuscator`; the hash of an identifier | done |
| 8 | `ObfuscatedAgain`, `MCObfuscatedAgain` | a second obfuscation of an obfuscated script | done |
| 9 | `Linker` | an abstract specification of a script (names, calls and entries, no bytes), implemented by `GscObfuscator` | left out: `EntryPreserved`, `LinkPreserved` and `RedirectedToWell` say the same, and are proved |
| 10 | `FastfileScripts` | `Fastfile` with the results of `Finder` in place of given scripts | left out: the two meet in `ResultsApart` and `ResultsAreScripts`, which are proved of every zone |

## The obfuscator: `GscObfuscator`

One behaviour is one call of `RunTasks` on one script with one set of options.
The bytes are a function `mem` from addresses to cells that say what a byte is
(code as compiled, a byte of an identifier, of a planted opcode, of a jump); the
three tables are kept beside it, as nothing else writes to them.

| Module | Code |
|---|---|
| `mem`, `exports`, `imports`, `devStrings` | the file: code, `T7GSCExport`, `T7GSCImport`, dev string table |
| `exportsMap`, `free`, `junk`, `privateCount` | `exportsMap`, `trampolineFreeLocations`, `junkLocation`, `privateExport` |
| `script`, `opt` | the input and `GscObfOptions`, constant |
| `pc`, `todo` | the pass of `RunTasks` under way and what its loops have not visited |
| `ReadTables` | `ReadTables`, with its three ways to throw |
| `RemoveLocalVariables`, `KillPrivateExport`, `ApplyPrivateTexts`, `ApplyPrivateHash`, `KillDevImport`, `KillDevString`, `CreateTrampoline`, `ComputeChecksum` | one iteration of the loop of the pass with that name |
| `EndPass`, `NextPass` | the order of `RunTasks` and its options |

A pass takes one step for each entry, so that the invariants hold at every
moment and not only between passes, and an exception may come after any step.
Where the code walks an `unordered_map`, the next entry is any that is left;
where it walks a table or a vector, it is the first one. The private exports are
numbered in the order of the walk. `free` is a set, as the code sorts
`trampolineFreeLocations` before it takes slots: `CreateTrampoline` takes the
lowest one in reach. Two passes have no order in the model (`Locals`,
`Checksums`): their iterations touch different bytes and entries.

Properties (`GscObfuscatorProperties`), each with the hazard it is about:

* `EntryPreserved`: at every moment a moved export's address is that of an
  undamaged jump to its function, with a displacement that fits 16 bits.
* `LiveCodeIntact`: no write of any pass touches code that runs outside dev blocks. That the operands of
  dev ops, the opcodes around them and names are no such code is assumed of the compiler (see the assumptions); the
  property is about slots, and the jumps written there later, and about any write that goes beyond these.
* `SlotsExclusive`: free slots, the junk location and trampolines never coincide.
* `TrampolineStable`: a trampoline is never moved, retargeted or damaged later.
* `RedirectedToWell`: all killed calls lead to one location, for every order of the walk.
* `LinkPreserved`: calls link to the same functions through every renaming.
* `IdentifiersConsistent`: a private hash is replaced everywhere or nowhere.
* `ChecksumsFinal`: checksums are those of the final bytes.
* `NoWastedSlot`: no slot in reach is left when a function is.
* `Outcome`: every run ends, and as `Verdict` says: with success only for scripts of which everything the
  passes visit (tables, texts, entries, lists of parameters) fits in them, with an exception only for
  others, however far the passes went.

## A second obfuscation: `ObfuscatedAgain`

When the output directory lies in the input directory, the next run of the same command
finds its own results among the files. `ObfuscatedAgain` adds one action to `GscObfuscator`,
`Again`: the result, as `ReadTables` would read it (`Reread`), becomes the script of a new run,
with options of its own. The image is the same memory; the flags of dev imports are
still set and their offsets now all lead to the junk location.

`LocationsNotShared` says that no two exports start at one place. It holds for one run
(`LocationsNotSharedAtOnce` proves it) and not for two: the killed calls of the first run are killed again at
the one location they share, which is taken apart into slots as often as it is listed.

## The hashes: `HashReplace`, `Hashes`, `PrivateHashes`

`GscObfuscator` replaces an identifier wherever it stands, in one step. The code searches the
image for its bytes, at every offset, replaces what it finds and searches again from 0.
One behaviour of `HashReplace` is that search over one script, for all entries of
one private file. Words are functions of `Width` bytes; `Hashes` computes the hash of a text,
and `PrivateHashes` puts the two together: what is searched for is the hash of the entry's text, stored
as bytes. The operator `^` of C++ is the parameter `Xor64`, a table of the real one in `MCHashReplace`.

| Module | Code |
|---|---|
| `script`, `original` | the bytes under `bb`, now and before |
| `hashes`, `left`, `str` | `GetHashes()`, what the walk of the map has not reached, the entry under way |
| `Occurrences`, `Put` | where `ByteBuffer::Find` would stop; the assignment through the pointer |
| `Visit` | the next entry, any one that is left, as the map is unordered |
| `ReplaceFound`, `NothingFound` | one iteration of the `while`, and its end |
| `HashT7`, `Hash64A`, `lowerc` of `Hashes` | the functions of these names |

Properties (`HashReplaceProperties`, and `SameHash` in `PrivateHashes`):

* `Progress`: all replacements of one entry move the script in one direction of the order
  of its bytes, although a value may complete another occurrence with the
  bytes around it. So the search never comes back to where it was.
* `Ends`: the walk ends, unless an entry has its own hash as value (the
  made-up values of `PrivateFile` are other words; see the assumptions).
* `AllAtOnce`: if no hash or value can be mistaken for another by some of its bytes
  (`Unmistakable`), the result is the script with all occurrences replaced at
  once, whatever the order of the map. This is what `Replace` of `GscObfuscator` does.
* `SameHash`: texts of one length whose characters the program takes for the same (letters in both cases, both
  slashes) have one hash; texts that differ in one character have one hash only then, although
  the hash is cut to its lower half and negative characters are extended.

## The fastfile: `Fastfile`, `Repack`, `FastfileRefinement`

One behaviour is `HandleFFFile` on one fastfile, then again on its output,
up to `MaxRuns` times (the second run is the user's, and is what
shows that the output can be read back). A file is its header, its length and
its blocks, a function from positions to block headers with the data they expand
to. What was packed (`zone`, `starts`, `scripts`) is carried along for the
properties; no action decides anything by it, but `FindScripts`, which takes from it the
result of the finder.

| Module | Code |
|---|---|
| `loc`, `offset`, `maxBlockSize`, `zone`, `header` | the reader, `offset`, and `FastfileInfo` |
| `buffer`, `remaining` | `out`, `remainingSize` of `CompressFastfile` |
| `disk` | the file at the output path |
| `ReadHeader`, `DecompressBlock` | `DecompressFastfile`: the header, and one iteration of its loop, with every exception |
| `FindScripts`, `PatchScript`, `StartOutput` | `HandleFFFile`: the result of the finder, or its exception, one iteration of its loop, the change of compression |
| `CompressBlock` | one iteration of `CompressFastfile`, which may fail |
| `WriteFile` | `WriteFile`, to a disk that may take only the beginning |

A script's new bytes are any bytes, and an obfuscation may fail at any script:
`GscObfuscator` says more, and the two meet in that the obfuscator writes to
nothing but the script it was given.

`Repack` is what a user wants of it: a zone, scripts patched one after another,
the whole zone saved. `FastfileRefinement` maps `Fastfile` to it: the zone of
`Repack` is the one packed in the input until it has been read, and what is
saved is what the blocks of the output expand to, walked by a loader. So
`Implements` says that blocks, pages, compression and its change are invisible.
It is checked with a disk that takes every file; `full_disk` shows what becomes of it otherwise.

Three definitions say what a file is, from the format, with no reader or writer in it: `Holds`
(from the first block on, each holds the next part of the zone, whatever the blocks say of
themselves), `Packed` (the blocks are also what they say, and where) and `Chained` (none is
spare). Other properties (`FastfileProperties`): `ReadsZone` (what has been decompressed
of a file that holds its zone is the beginning of that zone), `ReadsPacked` (a packed file
is never refused for its blocks), `WritesPacked` (the output is packed and chained
and holds the patched zone), `BlocksLikeInput` (no block larger than the largest
of the input, and all but the last as large, if the input has no spare blocks), `Ends` (both
loops end).

## The scripts of a fastfile: `Finder`

One behaviour is `FindGscInBuffer` on one zone. A zone is where the bytes are that the
search tells apart: what looks like the header of a script (`lengths`, a function from
positions to the length each gives), zeros, the zeros behind an extension (`exts`)
and magic numbers. `IsZone` says what follows from the bytes: a header has the zeros
of its padding, two headers overlap only in the pointer between them, and an extension overlaps a header only as
its length.

| Module | Code |
|---|---|
| `pointer`, `results` | the cursor of `decReader`, `results` |
| `Match`, `EndsString` | `FindMasked`, `ReadString` |
| `Reject`, `Take` | one iteration of the loop, up to "not a candidate" or "bad size", or to its end |
| `NoMatch`, `Unterminated` | the end of the loop, and the exception of `ReadString` |

Properties (`FinderProperties`): `ResultsApart` (each script, with its header,
lies behind all those found before, so that patching one changes no other),
`ResultsAreScripts` (each has the magic number and lies in the zone), `AllFound` (a
script is missed only when the name or data of something that looks like a
header before it would cover it).

## The private file: `PrivateFile`

One behaviour reads one private file and treats all scripts of one fastfile with
it. A text is a stem, a separator, an extension and a size, as these are what the
code looks at. What is made up is named by the row it comes from.

| Module | Code |
|---|---|
| `strings`, `scripts`, `hashes` | the maps of `PrivateFile` |
| `codes` | how long `EncodeVal` of each row is, which depends on a random number |
| `zone`, `original` | asset name, script name, includes and strings of each script, now and before |
| `OpenFile`, `ReadRow`, `Loaded` | `ReadFile`: the columns, one iteration of its loop, its end |
| `RenameAsset` | `opt.privateFileData.RenamedScript(obj.name)` of `HandleFFFile` |
| `ApplyPrivateStrings`, `ApplyPrivateScripts` | the passes with these names, which an invalid text may stop half way |

`Throw` is any exception of the obfuscator; the fastfile is given up.

Properties (`PrivateFileProperties`): `SizesKept` (what is written in place has
its room), `IncludesFollow` (an include leads to the scripts that it led to, separators
apart), `NamesAgree` (a script is called as its asset), `NamesApart` (no two texts become
one, none becomes two), `ListedGone` (what is listed and long enough is gone, and
nothing else has changed).

Two of these have an exception, which they state: assets named with `/`, as `test/fastfile0` names them. The
code cleans the keys of `scripts` and what an include stands for, and not the asset that it looks up. So such
an asset always keeps its name (`ListedGone`); if it is listed, its includes are renamed all the
same, and no include leads to it any more (`Missed` in `IncludesFollow`).

## The program: `Driver`

One behaviour is the same command given `MaxRuns` times. Content is not
modelled: obfuscating a file succeeds, throws a `runtime_error`, or throws
something else, and a file is what it was made of and how often it was
obfuscated.

| Module | Code |
|---|---|
| `given`, `params`, `understood` | the options and `params` of `CliOptions`, and what `ComputeOptions` returns |
| `disk`, `case.links` | files and symbolic links |
| `files` | what is left of `paths` for an input |
| `r`, `exit` | `r` of `main`, and the exit code (`Aborted` for an exception that nothing catches) |
| `ReadArgument` | one iteration of `ComputeOptions` |
| `CheckUsage`, `LoadPrivateFile` | the tests of `main` before its loop |
| `ListInput`, `HandleFile`, `Return` | the two loops of `main` and its end |
| `Again` | the user |

`HandleFile` takes the files of a directory in any order, as
`directory_iterator` gives them. `SaveUnchecked` and other operators that no action uses
are the variants that show what the properties can see.

Properties (`DriverProperties`): `ExitCode` (0 exactly when help was asked for, or
all that was found was saved; the meaning of the command is computed from its
arguments as a whole, `Role`), `OriginalsKept` (only files of the output
directory change), `OnceOnly` (no file is obfuscated twice, even by a second
run), `NothingForgotten` (a file that fails does not stop the others),
`SuccessMeansSaved`, `Ends`. `Straight` and `Apart` say where links, the inputs with what they link
to, and the output directory must not lead for some of these; the violated runs show why.

## Runs

| Run | Shows | Result |
|---|---|---|
| `obfuscator` | `TypeOK` and the ten properties of the obfuscator listed above | hold |
| `recomputed_checksums` | a moved export's recomputed checksum can be found from its address | violated |
| `obfuscated_twice` | no two exports start at one place, when the result is obfuscated again | violated |
| `hash_replace` | `TypeOK`, `Progress`, `Ends`, `AllAtOnce`, `SameHash` | hold |
| `fastfile` | `TypeOK`, `ReadsZone`, `ReadsPacked`, `WritesPacked`, `BlocksLikeInput`, `Ends`, `Implements` | hold |
| `full_disk` | a run that ends well has written the whole output | violated |
| `finder` | `TypeOK`, `ResultsApart`, `ResultsAreScripts`, `AllFound` | hold |
| `private_file` | `TypeOK`, `SizesKept`, `IncludesFollow`, `NamesAgree`, `NamesApart`, `ListedGone` | hold |
| `slashed_assets` | exactly the listed assets are renamed, with whichever separator they are named | violated |
| `driver` | `TypeOK`, `ExitCode`, `OriginalsKept`, `OnceOnly`, `NothingForgotten`, `SuccessMeansSaved`, `Ends` | hold |
| `linked_inputs` | whatever is saved lies in the output directory | violated |
| `same_names` | with 0, each file handled is the one at its output | violated |

The six violations are disagreements between the code and its own comments:

* `recomputed_checksums`: `ComputeChecksums` takes the checksum of the code at
  the original entry (`gsc_obfuscator.cpp:407`), after `CreateTrampolines` has
  moved the address of the export to a jump. A decompiler that looks for the size
  as `FindExportSizeByCrc` does finds none from the new address, although
  the comment says the checksum is recomputed so that it can accept the data.
* `obfuscated_twice`: "the loc isn't used, so we can use it as a trampoline"
  (`gsc_obfuscator.cpp:162`). In a script that has been obfuscated it may be used: the
  dev calls all name one location, and each of them frees the slots in it. Two
  exports get the same trampoline, so that one of them runs the other.
* `full_disk`: "@return if the file was written" (`utils.hpp:128`); `WriteFile`
  looks neither at the write nor at the close and returns true.
* `slashed_assets`: the keys of `scripts` have had `/` turned into `\`
  (`private_file.cpp:126`), and `RenamedScript` looks a name up as it is. The
  comment at `private_file.cpp:113` gives `scripts/zm/zm_test_utils.gsc` as an
  asset name, which is to be replaced by one of its size: it is not.
* `linked_inputs`: `std::filesystem::relative` (`utils.cpp:291`) resolves links, so that
  the path of a linked file begins with `..`; appended to `output` it leads out of it, here
  onto the original. "The file will be obfuscated and saved into the directory
  `output`" (`README.md:18`).
* `same_names`: two inputs hold files of one relative path; the output of the
  first is overwritten, and `main` returns 0.

### Bounds

* `MaxJump = 67` in place of 32767, with images of 124 and 200 bytes. Slots and functions lie at
  multiples of 4, and 67 is one less than such a multiple, as 32767 is. `Limits` has jumps at the ends of what
  can be reached, 64 forward and exactly 68 back, and the next ones, 68
  forward (one byte too far) and 72 back; with 32767 this would take images of 64 KB. The `ToInt16` of
  the model wraps at the same limit.
* Nine scripts. `Demo` is laid out like `test/file0.gsc`; `Twins` has two
  functions of one name, parameters, a name used in three places; `Edges` has
  ops too close to the ends and a function out of reach of all slots; `Limits` is about jumps; five
  others make each pass that can throw do so. Five sets of options cover every option both
  ways and every pair that interact (recomputed checksums with trampolines,
  private hashes with and without dev code).
* Fifteen fastfiles: one with blocks of three sizes and empty blocks on and off a page,
  one of small blocks, the same with a larger spare block behind, an empty one, and eleven that the reader must
  refuse, each at another check. The headers have their true sizes, 584 and
  16; a page has 64 bytes in place of 8 MiB; positions wrap at 800 in place of
  2^32: some outputs stay below and are read in the second run, some go beyond
  and are refused in it.
  Bytes are 0 and 1: data is only moved, and a byte in the wrong place is seen
  as soon as its neighbours differ.
* `MaxRuns = 2`: the second run is the first with an input written by the tool.
  What a third would read is again such an output.
* A compressor makes any of two sizes of a block, one larger than the data and one
  smaller, neither aligned, so that all paddings occur.

* Zones of 97 and 98 bytes, as the end of the last script and one more. Up to three headers,
  the second sharing a pointer with the first, or all but a byte of it, lengths of 7, 8 and 52 (too small, least,
  and long enough to hold the other headers), all combinations of names, of
  zeros that end no name of a script, and of magic numbers behind them.
* Six private files and four fastfiles with up to three scripts, assets and includes named with either separator, listed
  and not; codes of 0, 6 and 7
  characters, which with the texts of 2 to 24 bytes is shorter, exact and longer. What
  a fourth script would add is another pair, and the properties are about pairs.
* Words of two bytes of two bits; all scripts of five bytes, in which two words are apart, meet
  or overlap in every way, and two scripts shorter than a word; private files of one text with each
  of the sixteen values, and of two texts with values that overlap the hashes or are
  each other's. A third entry meets the others in pairs. Texts of up to two characters, one
  of them negative, hashed to four bits (`Mask = 16`), and all pairs of them that `SameHash` is about.
* `obfuscated_twice` takes two of the nine scripts, three sets of options, and two runs.
* Twenty-nine command lines: each option kind, each error, inputs that are files,
  directories or missing; outputs among the inputs, in their place, and blocked by a file
  or a directory; links; options in a row, as values of one another. `MaxRuns = 2` as for
  `Fastfile`.

Deadlock is checked in every run: the only states without a step of the program
are the ends, where `Terminated` says so.

### Fairness

All specifications but `SpecAgain` have `WF_vars(Next)`: the program is one thread that waits
for nothing, so it takes its next step. The liveness properties are `Outcome` and
the `Ends` of the fastfile, the driver and the hashes; the loops of `Finder` and
`PrivateFile` run over a list. No action is assumed fair on its own,
so that nothing is promised of choices that belong to data, files or
compressors.

## Assumptions

* A script is one the compiler makes (`WellFormed` in `GscObfuscator`): operands
  of two dev ops do not overlap, the opcodes spoilt around them are not code that
  runs, identifiers lie in the script, apart from each other, and not in dev ops. All
  this says that two instructions share no byte; without it
  "code that runs" has no meaning for a tool that does not decode opcodes. Also, checksums
  cover bytes of the script, and names are hashes, larger than the numbers handed out.
* Checksums have no collisions, and names made up are not names in use. Both are
  32-bit, and the properties are about logic and not about probability.
* Of the hash of a text (`Hashes`): the factor is odd, so that a product with it modulo a power of two
  is that of one number only (`IvAssumption`); an exclusive or is undone by repeating it and works on lower
  halves alone (`XorAssumption`); a character has fewer values than a hash (`CharAssumption`), and letters and
  slashes are different characters (`LettersAssumption`). Different numbers are stored as different
  bytes (`StoredAssumption`).
* An identifier occurs as a whole: no four bytes across two others are its hash.
  `AllAtOnce` says what this takes of hashes and values (`Unmistakable`), for bytes that are
  nothing but hashes and values, and that it is enough.
* The blocks of a fastfile hold no more than the zone it announces. The code does not check
  it and writes beyond its buffer; there is no behaviour to specify.
* zlib and LZ4 give back the data they were given. Their sizes are arbitrary.
* Each text of a script has memory of its own, and what is made up for
  different rows of a private file is different and no name in use, includes among them
  (`NewTextsAssumption`; the row
  number is masked with a random number, and padding comes from a 64-bit hash of
  it). Collisions are a matter of probability.
* Links lead to files, and directories without a file in them do not matter. Paths on the disk have
  no `..` in them, and nothing lies inside a file (`NamesAssumption`, `DiskAssumption`,
  `LinksAssumption`); paths on the command line may be any.
* `IncludesFollow` and `ListedGone` speak of scripts named like scripts (`.gsc`, `.gsh`, `.csc`):
  the code neither looks up nor treats others.
* `Aligned` in `Fastfile` is a division where the code clears bits; all its sizes
  are powers of two.

## Proofs

Eight modules prove, for all values of the constants that satisfy the named
assumptions:

| Theorem | Says |
|---|---|
| `TypeCorrect` | `Spec => []TypeOK` of `GscObfuscator` |
| `EntriesPreserved`, `LiveCodeKept`, `SlotsAreExclusive` | the three safety invariants, for every script, option and width of jumps |
| `TrampolinesStable` | the action property `TrampolineStable` |
| `CallsRedirected`, `SlotsNotWasted`, `ChecksumsAreFinal`, `LinksPreserved`, `IdentifiersAgree` | `RedirectedToWell`, `NoWastedSlot`, `ChecksumsFinal`, `LinkPreserved`, `IdentifiersConsistent`: the result, for every order of the walks |
| `VerdictIsRight` | `Verdict`, the safety of `Outcome`, for every script and set of options |
| `UnmovedChecksumsFound` | a function without a trampoline is found with its size by its recomputed checksum |
| `LocationsNotSharedAtOnce` | `LocationsNotShared` in one run, if the functions had different entries |
| `HashReplaceTypeCorrect` | `Spec => []TypeOK` of `HashReplace` |
| `ReplacementsProgress`, `BeforeIsOrder` | `Progress`, and that its order is strict and transitive |
| `ReplacedAllAtOnce` | `AllAtOnce`, for every script, private file, width and order of the map |
| `HashesOfTexts` | `SameHash`, for every odd factor, number of bits and alphabet, and texts of any length |
| `FastfileTypeCorrect` | `Spec => []TypeOK` of `Fastfile` |
| `ZoneRead`, `PackedRead` | `ReadsZone`, `ReadsPacked`: the reader, for every layout of blocks |
| `OutputPacked`, `BlocksAreLikeInput` | `WritesPacked`, `BlocksLikeInput`: the writer, for every block size and compressor |
| `BothLoopsAdvance` | the action property `LoopsAdvance`, the safety of `Ends` of the fastfile, for every file |
| `Implementation` | `Implements`: `Fastfile` implements `Repack`, when all inputs hold their zones and the disk takes what is written |
| `FinderTypeCorrect` | `Spec => []TypeOK` of `Finder` |
| `ScriptsApart`, `FoundAreScripts` | `ResultsApart`, `ResultsAreScripts`, for every zone |
| `NothingMissed` | `AllFound`, for every zone |
| `PrivateTypeCorrect` | `Spec => []TypeOK` of `PrivateFile` |
| `SizesAreKept` | `SizesKept`, for every private file, fastfile and length of codes |
| `ScriptsKeepAssetNames`, `NamesStayApart` | `NamesAgree`, `NamesApart`, for every private file and fastfile |
| `IncludesLead`, `NothingListedStays` | `IncludesFollow`, `ListedGone`, for every private file and fastfile, with their exception for listed assets named with `/` |
| `TypesAreKept` | `Spec => []TypeOK` of `Driver` |
| `OriginalsAreKept`, `ObfuscatedOnce`, `NothingIsForgotten`, `SuccessIsSaved` | `OriginalsKept`, `OnceOnly`, `NothingForgotten`, `SuccessMeansSaved`, for every disk, links and number of runs |
| `StraightFilesSavedIntoOutput` | `SavedIntoOutput`, unless a link leads out of its directory |
| `FilesOfApartNamesSaved` | `EachSaved`, if no two files handled go to one path |
| `ExitCodeIsRight` | `ExitCode`, for every command line and set of files, and whatever becomes of each |

The argument for the obfuscator. `SlotsExclusive` is not inductive: that a new
slot is not in use follows from where it came from. So `free` carries the op of
each slot, and `IInv` says that an op has slots in `free` only once it has been
visited (`PendingInv`, `FreeInv`), that slots lie inside the operand of their op,
that a moved export sits in a slot which is no longer free (`MovedInv`), and that an export
has not moved before the last pass that moves it (`AddressInv`). Two facts about
numbers carry it: two slots whose bytes meet are one slot of one op (`SlotsApart`,
from `WellFormed`), and a displacement in reach is stored exactly
(`ToInt16Exact`). Then a write of `KillDevByteCodeOp` falls on its own operand and the opcodes
around it, and a write of `CreateTrampoline` on a slot that was free.

The argument for its result (`GscObfuscatorResultProofs`). A pass takes only its own steps until
nothing is left to visit (`Turn`, `PassStep`), and writes only what it is about. So each
property has an invariant with two cases for every entry, visited or not:
`WellInv` (a visited offset leads to the junk location, which never changes once it is
there), `ServedInv` (a visited export that has not moved has no free slot in reach, and slots are
only ever taken), `SumInv` (a visited checksum is that of bytes that the last pass does not
write). `LinkPreserved` needs more: that a new name is not in use. For numbers,
`NumberInv` says that those handed out and the exports still to be numbered
(`Unnumbered`) are together no more than there are exports, so that a number is never a
hash of the script; for hashes, `HashInv` says that
the value of an entry not yet applied is nowhere in the tables. For `IdentifiersConsistent`,
`WordInv` says that there is one set of hashes that have been replaced in all of the code and in all
names that are not numbered; no other pass writes to an identifier (`OthersKeepWords`),
and replacing any set of hashes makes no two identifiers one (`RenamedApart`).

The argument for `Verdict`. A pass throws at the first thing that does not fit. `FitInv` says
that what a pass has visited fits, and all that earlier passes were to visit; so at the end everything
fits that `Completes` asks for (`CompletesIs`), and where a pass throws, the thing it throws at is one that
`Completes` asks for as well (`FailDoesNotFit`): a list of parameters fits exactly if each of its names
does (`ParamsFitAll`).

Four findings come with what they leave standing. A recomputed checksum is found from an address
that has not moved, as sizes and bytes are those it was taken of (`SizeFound`; `NoSumInv` for a function whose
size was not known). A slot lies in an operand, where no function starts
(`TakenIsNoEntry`), so that one run never gives two functions one address. What is handled goes
under the output directory when no link leads out of its own (`IntoOutput`). And what lies at
an output is of a file that goes there, so of its own when no two do (`SuccessMeansSaved`). Of the other two,
`full_disk` is excluded by a hypothesis of `Implementation`, and `ListedGone` and `IncludesFollow` say what becomes of
names written with `\` and of those with `/`.

The argument for the hashes of texts. The hash is cut to its lower half, which is determined
by the lower halves of all that is computed on the way (`LowerHalf`, `LowerFactor`). There, neither an exclusive or nor a
product with the odd factor makes one of two numbers (`LowTurnedApart`), so that two texts whose
hashes differ after one character differ for good as long as the characters that follow are the same. The hash
is a recursive function over the positions of a text; that there is one (`HashesExist`) and what holds of
all its values follow from the least position that would be a counterexample.

The argument for the replacement. Where a word replaces another, the first byte that differs is
a byte of the word (`BeforeCarried`), so the order of two scripts is that of the two words.
For `AllAtOnce` the invariant is that the script is the original with some set `R` of
its places substituted: places lie apart (`PlacesApart`), a value makes no new one
(`NothingNew`), and those not in `R` belong to entries not yet done.

The argument for the fastfile. The reader's invariant (`ReaderInv`) is that for a
packed file it stands at a block that starts in the zone where it stopped; an
empty block moves it and not the zone. The writer's (`WriterInv`) is that the blocks
written so far hold the beginning of the zone, each followed by the next and the last by the end of the
output, which is a multiple of 4; `BlockAdded` shows that one more block keeps it, from
`PaddedBlock`: with headers of multiples of 4, the size a block announces and
the padding really written agree. `IInv` also keeps that `maxBlockSize` is not zero when something is left to
write, so that each block makes progress (`BothLoopsAdvance`; a part of `Ends`, and what the rest of it follows from under fairness).

`BlocksLikeInput` and `Implements` speak of all blocks, and no induction over blocks is to be had. So
their lemmas take the block with the least position, or the latest start, that would contradict
them (`LeastElement`): in a chained file no block lies before the first or between two
that follow each other (`NoneBefore`, `NoneBetween`), and once the zone is complete only empty
blocks are left (`RestIsEmpty`), so that the reader has seen the largest (`SizesInv`). The mapping to
`Repack` decodes a file by a recursive function, `Decoded`; `DecodedIs` gives it a witness, the zone
cut at the starts of the blocks, and shows that there is no other. Then each
step of `Fastfile` is a step of `Repack` or one that it does not see (`RefinedStep`). A disk that
takes only part of a file is excluded by the hypothesis `[]DoneMeansWritten`, which `full_disk` refutes of
the code.

The argument for the finder. Every result ends before the cursor (`Passed`), and
the next match is at the cursor or behind it; that a script ends in the zone is
`CanRead`. The assumption on zones says only what follows from the sizes of
header and magic number. For `AllFound`, `FoundSoFar` says that every script whose header lies before
the cursor has been found or is covered; `Reject` and `Take` move the cursor beyond one
match, and a script that starts between its header and the new cursor is covered by it
(`RejectMissesNothing`, `TakeMissesNothing`).

The argument for the private file. `MapSizes` says that a script name is mapped to one of
its size and a string to one that is not longer; reading a row keeps it
(`ScriptNameFacts`), and so no replacement changes more than it may
(`RenamedScriptFacts`, `RenamedStringFacts`, `RenamedScriptExtFacts`): a script is
replaced by one whose texts are old or renamed (`ScriptReplaced`). An include has no
extension, so that what `RenamedScriptExt` adds before the lookup is what it takes away after it.
For the names, `Origin` says that each value of a map names the row it was made for,
whose text is its key: two keys never share a value (`ScriptsInjective`,
`StringsInjective`). `TreatedInv` says that each script is what it was with its texts replaced, up to
where its treatment has got; a name with none of the known extensions, which the code
does not look up, would not be found (`OtherNamesStay`). Includes are treated alike: an
include with the extension it lacks is renamed as the script of that name is, and no two names are
renamed to one (`ScriptsInjective`), so that the two are equal exactly if they were. An asset with a `/` is
no key (`SlashedStay`): the name it has without the `/` is a key exactly if it is listed (`ListedClean`, `ScriptKeys`),
and then what an include of it stands for has changed, and the asset has not. What a row
was made for has changed, as all that is made up differs from all that was there (`ChangedInclude`).

The argument for the exit code. `Role` says what each argument is from the command as a whole;
the program reads from left to right. `ArgumentsInv` says that the argument read next
has an even number of options in a row before it (`IsRead`, so that it is no value) and
that the options and inputs read are those before it (`ReadUpTo`). At the first error or at
the end this is all of the command (`AllKnown`); then the checks of `main` are right
(`ChecksAreRight`), and the loop keeps `r = 0` only as long as all is saved (`ResultInv`).

The argument for the files of the driver (`DriverFilesProofs`). Everything about paths comes down to
what `Normal` gives, a fold over the names of a path. It is described as a walk: a sequence of
paths of which each comes from the one before by one name; the walk is given for what is folded,
and the first place where another would differ is a contradiction (`NormalOf`, `RelativeIs`). So
an output is under the output directory whenever the input has no link that leads out of
it, and two files under inputs and output apart are different. The invariants: the disk is
a tree whose files were made of original ones (`Tree`), what is listed goes under the output
directory (`FileIs`), only there are files that were obfuscated, once (`OnceInv`), and what the
inputs walked so far hold has been handled or is about to be (`ListedInv`).

Only model-checked, and why:

* That runs end: `Outcome` of the obfuscator and the `Ends` of the fastfile, the driver and the hashes. Liveness under
  fairness is out of the prover's reach. What it rests on is proved: `VerdictIsRight` (how a run may
  end), `BothLoopsAdvance` and `ReplacementsProgress` (no loop comes back to where it was).

## Not modelled

Logs, hashes other than `HashT7` (nothing calls them), the random generator, the parser of CSV, the choice between
equivalent jump opcodes, the libraries behind compression, and helpers that nothing
calls. `GscObfuscator` takes the texts of a private file as one step that throws or does
not; what the step does is in `PrivateFile`. The builder string and the erased
signature of a fastfile's header have no effect on anything else. An exception in
the middle of `ReadFile` of a private file aborts the program, in `Driver`; the
maps half filled are never used.
