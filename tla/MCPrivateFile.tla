----------------------------- MODULE MCPrivateFile -----------------------------
(***************************************************************************)
(* Private files and fastfiles for model checking PrivateFile: names just  *)
(* long enough, exactly as long and too short for what replaces them.      *)
(***************************************************************************)
EXTENDS PrivateFileProperties

Text(name, sep, ext, size) ==
  [stem |-> [kind |-> "named", name |-> name, row |-> 0], sep |-> sep, ext |-> ext, size |-> size]

Row(type, val) == [cells |-> 2, type |-> type, val |-> val]
Csv(rows) == [columns |-> 2, rows |-> rows]

\* Strings of the size of a code, longer and shorter.
Short == Text("short", "none", "", 2)
Middle == Text("middle", "none", "", 6)
Long == Text("long", "none", "", 20)

\* Scripts as they are named in a private file and in a fastfile.
Utils(sep) == Text("utils", sep, ".gsc", 24)
Data(sep) == Text("data", sep, ".gsc", 24)
UtilsClient(sep) == Text("utils", sep, ".csc", 24)
Tiny == Text("tiny", "none", ".gsc", 10)
ClientHeader == Text("header", "\\", ".csh", 20)
Include(text) == WithoutExt(text)

MCCsvs ==
  { [columns |-> 3, rows |-> <<>>],
    Csv(<<Row("string", Short), Row("string", Middle), Row("string", Long), Row("hash", Long)>>),
    Csv(<<Row("script", Utils("/")), Row("script", UtilsClient("/")), Row("script", Data("/"))>>),
    Csv(<<Row("script", Utils("\\")), Row("script", Tiny), Row("script", Utils("/"))>>),
    Csv(<<Row("script", ClientHeader), Row("script", Long), Row("text", Long), Row("string", Long)>>),
    Csv(<<Row("string", Long), [Row("string", Middle) EXCEPT !.cells = 1]>>) }

Script(name, includes, texts) ==
  [asset |-> name, name |-> name, includes |-> includes, strings |-> texts]

\* Scripts that include each other, for the server and for the client.
Server2 ==
  << Script(Utils("\\"), <<Include(Data("\\")), Include(Tiny)>>, <<Short, Long>>),
     Script(Data("\\"), <<Include(Utils("/"))>>, <<Long, Middle>>),
     Script(Tiny, <<>>, <<Middle>>) >>
Both ==
  << Script(Utils("\\"), <<>>, <<Middle>>),
     Script(UtilsClient("\\"), <<Include(Utils("\\"))>>, <<>>),
     Script(ClientHeader, <<Include(UtilsClient("/"))>>, <<>>) >>
Odd ==
  << [Script(Data("\\"), <<Include(Utils("\\"))>>, <<>>) EXCEPT !.name = Long],
     Script(Utils("/"), <<>>, <<Long>>) >>

\* Assets and includes written with "/", as in test/fastfile0; one asset has no separator.
Slashed ==
  << Script(Utils("/"), <<Include(Data("/")), Include(Tiny)>>, <<>>),
     Script(Data("/"), <<Include(Utils("/")), Include(Data("\\"))>>, <<>>),
     Script(Tiny, <<Include(Utils("\\"))>>, <<>>) >>

MCZones == {Server2, Both, Odd, Slashed}
=============================================================================
