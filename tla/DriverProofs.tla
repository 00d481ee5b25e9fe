----------------------------- MODULE DriverProofs -----------------------------
(***************************************************************************)
(* Proofs about Driver: whatever the command line, the files and what      *)
(* becomes of them, the exit code says whether all went well.              *)
(***************************************************************************)
EXTENDS DriverProperties, TLAPS

-----------------------------------------------------------------------------
(* Options in a row.                                                       *)

\* The argument at k is no value, as an even number of options stands in a row before it.
IsRead(k) == \E j \in 1 .. k : InARow(j, k) /\ (k - j) % 2 = 0

LEMMA OneRow ==
  ASSUME NEW k \in Nat, NEW j \in 1 .. k, NEW l \in 1 .. k, InARow(j, k), InARow(l, k)
  PROVE  j = l
<1>1. ASSUME NEW a \in 1 .. k, NEW b \in 1 .. k, InARow(a, k), InARow(b, k)  PROVE ~(a < b)
  <2> SUFFICES ASSUME a < b PROVE FALSE  OBVIOUS
  <2>1. b - 1 \in a .. k - 1 /\ b # 1  OBVIOUS
  <2> QED  BY <1>1, <2>1 DEF InARow
<1>2. ~(j < l) /\ ~(l < j)  BY <1>1
<1> QED  BY <1>2

LEMMA ReadIsNoValue ==
  ASSUME NEW k \in Nat, IsRead(k)  PROVE ~IsValue(k)
<1> SUFFICES ASSUME IsValue(k) PROVE FALSE  OBVIOUS
<1>1. PICK j \in 1 .. k : InARow(j, k) /\ (k - j) % 2 = 0  BY DEF IsRead
<1>2. PICK l \in 1 .. k : InARow(l, k) /\ (k - l) % 2 = 1  BY DEF IsValue
<1>3. j = l  BY <1>1, <1>2, OneRow
<1> QED  BY <1>1, <1>2, <1>3

LEMMA FirstIsRead == IsRead(1)
<1>1. 1 \in 1 .. 1 /\ (1 - 1) % 2 = 0 /\ 1 .. (1 - 1) = {}  OBVIOUS
<1> QED  BY <1>1 DEF IsRead, InARow

LEMMA AfterNoOption ==
  ASSUME NEW k \in Nat \ {0}, case.args[k] \notin Valued  PROVE IsRead(k + 1)
<1>1. k + 1 \in 1 .. k + 1 /\ ((k + 1) - (k + 1)) % 2 = 0  OBVIOUS
<1>2. (k + 1) .. ((k + 1) - 1) = {} /\ (k + 1) - 1 = k  OBVIOUS
<1>3. InARow(k + 1, k + 1)  BY <1>2 DEF InARow
<1> QED  BY <1>1, <1>3 DEF IsRead

LEMMA OneMoreInRow ==
  ASSUME NEW k \in Nat, NEW j \in 1 .. k, InARow(j, k), case.args[k] \in Valued
  PROVE  InARow(j, k + 1)
<1>1. \A m \in j .. (k + 1) - 1 : m = k \/ m \in j .. k - 1  OBVIOUS
<1> QED  BY <1>1 DEF InARow

LEMMA Parity ==
  ASSUME NEW k \in Nat, NEW j \in 1 .. k, (k - j) % 2 = 0
  PROVE  /\ j \in 1 .. k + 1 /\ ((k + 1) - j) % 2 = 1
         /\ j \in 1 .. k + 2 /\ ((k + 2) - j) % 2 = 0
OBVIOUS

LEMMA AfterOption ==
  ASSUME NEW k \in Nat \ {0}, IsRead(k), case.args[k] \in Valued
  PROVE  IsValue(k + 1) /\ IsRead(k + 2)
<1>1. PICK j \in 1 .. k : InARow(j, k) /\ (k - j) % 2 = 0  BY DEF IsRead
<1>2. InARow(j, k + 1)  BY <1>1, OneMoreInRow
<1>3. IsValue(k + 1)  BY <1>1, <1>2, Parity DEF IsValue
<1>4. k + 1 \in Nat \ {0} /\ (k + 1) + 1 = k + 2 /\ j \in 1 .. k + 1  OBVIOUS
<1>5. CASE case.args[k + 1] \in Valued
  <2>1. InARow(j, k + 2)  BY <1>2, <1>4, <1>5, OneMoreInRow
  <2> QED  BY <1>1, <1>3, <2>1, Parity DEF IsRead
<1>6. CASE case.args[k + 1] \notin Valued
  <2>1. IsRead((k + 1) + 1)  BY <1>4, <1>6, AfterNoOption
  <2> QED  BY <1>3, <1>4, <2>1
<1> QED  BY <1>5, <1>6

-----------------------------------------------------------------------------
(* What the arguments before k come to.                                    *)

PlacesBefore(o, k) ==
  {m \in 1 .. k - 1 : case.args[m] = o /\ Role(m) \in {"flag", "option"}}

\* m is the last of some places.
LastOf(m, places) == m \in places /\ \A l \in places : l <= m

ReadUpTo(k) ==
  /\ \A o \in Flags \cup Valued : o \in DOMAIN given <=> PlacesBefore(o, k) # {}
  /\ \A o \in Valued : o \in DOMAIN given =>
       \E m \in PlacesBefore(o, k) :
         LastOf(m, PlacesBefore(o, k)) /\ given[o] = case.args[m + 1]
  /\ params = <<>> <=> \A m \in 1 .. k - 1 : Role(m) # "input"
  /\ \A m \in 1 .. k - 1 : m \notin Errors

ArgumentsInv ==
  pc = "Arguments" =>
    /\ next \in 1 .. Len(case.args) + 1 /\ IsRead(next) /\ ReadUpTo(next)
    /\ understood = TRUE /\ params \in Seq(STRING)

\* The options are known once the first error, or the last argument, has been reached.
Known ==
  /\ understood = (Errors = {})
  /\ \A o \in Flags \cup Valued : o \in DOMAIN given <=> Places(o) # {}
  /\ \A o \in Valued : o \in DOMAIN given => given[o] = ValueOf(o)
  /\ understood => (params = <<>> <=> ~\E k \in 1 .. Len(case.args) : Role(k) = "input")

KnownInv == pc # "Arguments" => Known

\* main goes on only with a command that makes sense.
BegunInv ==
  /\ pc \in {"Private", "Inputs"} => LevelIsValid /\ ~BadUsage
  /\ pc = "Inputs" => CanBegin

\* An error, once met, is not forgotten.
ResultInv ==
  /\ pc \in {"Arguments", "Checks", "Private"} => handled = {} /\ r = 0
  /\ pc = "Inputs" => r \in {0, -1} /\ (r = 0 <=> \A h \in handled : h.saved = TRUE)

SavedInv == \A h \in handled : h.saved \in BOOLEAN

IInv == /\ case \in Cases /\ ArgumentsInv /\ KnownInv /\ BegunInv /\ ResultInv /\ SavedInv
        /\ ExitCode

LEMMA Disjoint ==
  /\ Flags \cap Valued = {} /\ Undefined \cap (Flags \cup Valued) = {}
  /\ "-h" \in Flags /\ "-l" \in Valued /\ "-p" \in Valued
BY UndefinedAssumption DEF Flags, Valued

LEMMA OnePlaceMore ==
  ASSUME NEW k \in Nat \ {0}, NEW o
  PROVE  PlacesBefore(o, k + 1) =
           PlacesBefore(o, k) \cup
             {m \in {k} : case.args[k] = o /\ Role(k) \in {"flag", "option"}}
<1>1. 1 .. (k + 1) - 1 = (1 .. k - 1) \cup {k}  OBVIOUS
<1> QED  BY <1>1 DEF PlacesBefore

\* An argument that is no value is what it looks like.
LEMMA RoleOfRead ==
  ASSUME NEW k \in Nat, IsRead(k)
  PROVE  /\ case.args[k] \in Valued => Role(k) = "option"
         /\ case.args[k] \in Flags => Role(k) = "flag"
         /\ case.args[k] \in Undefined => Role(k) = "undefined"
         /\ case.args[k] \notin Dashed => Role(k) = "input"
BY ReadIsNoValue, Disjoint DEF Role, Dashed

\* All of this is about the arguments, which do not change.
LEMMA SameArguments ==
  ASSUME case' = case
  PROVE  /\ Errors' = Errors
         /\ \A k : (Role(k))' = Role(k) /\ (IsRead(k))' = IsRead(k)
         /\ \A o, k : (PlacesBefore(o, k))' = PlacesBefore(o, k)
         /\ \A o : (Places(o))' = Places(o) /\ (ValueOf(o))' = ValueOf(o)
BY DEF Errors, Role, IsRead, IsValue, InARow, PlacesBefore, Places, ValueOf

LEMMA ReadSame ==
  ASSUME case' = case, NEW k,
         \A o \in Flags \cup Valued : o \in DOMAIN given' <=> PlacesBefore(o, k) # {},
         \A o \in Valued : o \in DOMAIN given' =>
           \E m \in PlacesBefore(o, k) :
             LastOf(m, PlacesBefore(o, k)) /\ given'[o] = case.args[m + 1],
         params' = <<>> <=> \A m \in 1 .. k - 1 : Role(m) # "input",
         \A m \in 1 .. k - 1 : m \notin Errors
  PROVE  ReadUpTo(k)'
<1>1. /\ Errors' = Errors /\ \A m : (Role(m))' = Role(m)
      /\ \A o : (PlacesBefore(o, k))' = PlacesBefore(o, k)
  BY SameArguments
<1> QED  BY <1>1 DEF ReadUpTo, LastOf

-----------------------------------------------------------------------------
(* The steps of ReadArgument.                                              *)

LEMMA ParamRead ==
  ASSUME NEW k \in 1 .. Len(case.args), Len(case.args) \in Nat, IsRead(k), ReadUpTo(k),
         params \in Seq(STRING), case.args[k] \in STRING, case.args[k] \notin Dashed,
         case' = case, given' = given, params' = Append(params, case.args[k])
  PROVE  IsRead(k + 1) /\ ReadUpTo(k + 1)' /\ params' \in Seq(STRING) /\ params' # <<>>
<1>1. k \in Nat \ {0} /\ 1 .. (k + 1) - 1 = (1 .. k - 1) \cup {k}  OBVIOUS
<1>2. Role(k) = "input"  BY <1>1, RoleOfRead
<1>3. k \notin Errors  BY <1>2 DEF Errors
<1>4. \A o : PlacesBefore(o, k + 1) = PlacesBefore(o, k)  BY <1>1, <1>2, OnePlaceMore
<1>5. params' \in Seq(STRING) /\ params' # <<>>  OBVIOUS
<1>6. IsRead(k + 1)  BY <1>1, AfterNoOption DEF Dashed
<1>7. ReadUpTo(k)  OBVIOUS
<1>8. /\ \A o \in Flags \cup Valued : o \in DOMAIN given <=> PlacesBefore(o, k + 1) # {}
      /\ \A o \in Valued : o \in DOMAIN given =>
           \E m \in PlacesBefore(o, k + 1) :
             LastOf(m, PlacesBefore(o, k + 1)) /\ given[o] = case.args[m + 1]
  BY <1>4, <1>7 DEF ReadUpTo
<1>9. /\ ~ \A m \in 1 .. (k + 1) - 1 : Role(m) # "input"
      /\ \A m \in 1 .. (k + 1) - 1 : m \notin Errors
  BY <1>1, <1>2, <1>3, <1>7 DEF ReadUpTo
<1>10. ReadUpTo(k + 1)'
  <2>1. params' = <<>> <=> \A m \in 1 .. (k + 1) - 1 : Role(m) # "input"  BY <1>5, <1>9
  <2> QED  BY <1>8, <1>9, <2>1, ReadSame
<1> QED  BY <1>5, <1>6, <1>10

\* One more option is given; a value it had before is replaced.
LEMMA OptionRead ==
  ASSUME NEW k \in Nat \ {0}, NEW up \in Nat, NEW v, ReadUpTo(k),
         NEW arg, arg = case.args[k], arg \in Valued => v = case.args[k + 1],
         \A o : PlacesBefore(o, up) = PlacesBefore(o, k) \cup {m \in {k} : case.args[k] = o},
         \A m \in 1 .. up - 1 : m \in 1 .. k - 1 \/ (Role(m) # "input" /\ m \notin Errors),
         1 .. k - 1 \subseteq 1 .. up - 1,
         case' = case, params' = params, given' = Put(given, arg, v)
  PROVE  ReadUpTo(up)'
<1>1. \A o \in Flags \cup Valued : o \in DOMAIN given' <=> PlacesBefore(o, up) # {}
  BY DEF ReadUpTo, Put
<1>2. ASSUME NEW o \in Valued, o \in DOMAIN given'
      PROVE  \E m \in PlacesBefore(o, up) :
               LastOf(m, PlacesBefore(o, up)) /\ given'[o] = case.args[m + 1]
  <2>1. CASE o = arg
    <3>1. k \in PlacesBefore(o, up)  BY <2>1
    <3>2. \A l \in PlacesBefore(o, up) : l <= k
      <4>1. \A l \in PlacesBefore(o, k) : l <= k  BY DEF PlacesBefore
      <4> QED  BY <4>1
    <3>3. given'[o] = case.args[k + 1]  BY <1>2, <2>1 DEF Put
    <3> QED  BY <3>1, <3>2, <3>3 DEF LastOf
  <2>2. CASE o # arg
    <3>1. PlacesBefore(o, up) = PlacesBefore(o, k)  BY <2>2
    <3>2. o \in DOMAIN given /\ given'[o] = given[o]  BY <1>2, <2>2 DEF Put
    <3> QED  BY <3>1, <3>2 DEF ReadUpTo
  <2> QED  BY <2>1, <2>2
<1>3. /\ params' = <<>> <=> \A m \in 1 .. up - 1 : Role(m) # "input"
      /\ \A m \in 1 .. up - 1 : m \notin Errors
  BY DEF ReadUpTo
<1> QED  BY <1>1, <1>2, <1>3, ReadSame

LEMMA FlagRead ==
  ASSUME NEW k \in 1 .. Len(case.args), Len(case.args) \in Nat, IsRead(k), ReadUpTo(k),
         case.args[k] \in Flags, case' = case, params' = params,
         given' = Put(given, case.args[k], case.args[k])
  PROVE  IsRead(k + 1) /\ ReadUpTo(k + 1)'
<1>1. /\ k \in Nat \ {0} /\ k + 1 \in Nat /\ 1 .. k - 1 \subseteq 1 .. (k + 1) - 1
      /\ \A m \in 1 .. (k + 1) - 1 : m \in 1 .. k - 1 \/ m = k
  OBVIOUS
<1>2. Role(k) = "flag" /\ case.args[k] \notin Valued  BY <1>1, RoleOfRead, Disjoint
<1>3. k \notin Errors  BY <1>2 DEF Errors
<1>4. \A o : PlacesBefore(o, k + 1) = PlacesBefore(o, k) \cup {m \in {k} : case.args[k] = o}
  BY <1>1, <1>2, OnePlaceMore
<1>5. IsRead(k + 1)  BY <1>1, <1>2, AfterNoOption
<1>6. \A m \in 1 .. (k + 1) - 1 : m \in 1 .. k - 1 \/ (Role(m) # "input" /\ m \notin Errors)
  BY <1>1, <1>2, <1>3
<1> DEFINE up == k + 1
           arg == case.args[k]
<1> HIDE DEF up, arg
<1>7. ReadUpTo(up)'
  BY <1>1, <1>2, <1>4, <1>6, OptionRead DEF up, arg
<1> QED  BY <1>5, <1>7 DEF up

LEMMA ValueRead ==
  ASSUME NEW k \in 1 .. Len(case.args), Len(case.args) \in Nat, IsRead(k), ReadUpTo(k),
         case.args[k] \in Valued, k < Len(case.args), case' = case, params' = params,
         given' = Put(given, case.args[k], case.args[k + 1])
  PROVE  IsRead(k + 2) /\ ReadUpTo(k + 2)'
<1>1. /\ k \in Nat \ {0} /\ k + 1 \in Nat \ {0} /\ k + 2 \in Nat /\ (k + 1) + 1 = k + 2
      /\ 1 .. k - 1 \subseteq 1 .. (k + 2) - 1 /\ k # Len(case.args)
      /\ \A m \in 1 .. (k + 2) - 1 : m \in 1 .. k - 1 \/ m = k \/ m = k + 1
  OBVIOUS
<1>2. Role(k) = "option"  BY <1>1, RoleOfRead
<1>3. Role(k + 1) = "value"  BY <1>1, AfterOption DEF Role
<1>4. k \notin Errors /\ k + 1 \notin Errors  BY <1>1, <1>2, <1>3 DEF Errors
<1>5. \A o : PlacesBefore(o, k + 2) = PlacesBefore(o, k) \cup {m \in {k} : case.args[k] = o}
  <2>1. \A o : PlacesBefore(o, k + 1) = PlacesBefore(o, k) \cup {m \in {k} : case.args[k] = o}
    BY <1>1, <1>2, OnePlaceMore
  <2>2. \A o : PlacesBefore(o, (k + 1) + 1) = PlacesBefore(o, k + 1)
    BY <1>1, <1>3, OnePlaceMore
  <2> QED  BY <1>1, <2>1, <2>2
<1>6. \A m \in 1 .. (k + 2) - 1 : m \in 1 .. k - 1 \/ (Role(m) # "input" /\ m \notin Errors)
  BY <1>1, <1>2, <1>3, <1>4
<1>7. IsRead(k + 2)  BY <1>1, AfterOption
<1> DEFINE up == k + 2
           arg == case.args[k]
           v == case.args[k + 1]
<1> HIDE DEF up, arg, v
<1>8. ReadUpTo(up)'
  BY <1>1, <1>5, <1>6, OptionRead DEF up, arg, v
<1> QED  BY <1>7, <1>8 DEF up

-----------------------------------------------------------------------------
(* The end of ReadArgument.                                                *)

LEMMA LastIsValue ==
  ASSUME NEW o, NEW m, Places(o) \subseteq Nat, LastOf(m, Places(o))
  PROVE  ValueOf(o) = case.args[1 + m]
<1>1. \A l \in Places(o) : (\A h \in Places(o) : h <= l) => l = m  BY DEF LastOf
<1>2. (CHOOSE k \in Places(o) : \A h \in Places(o) : h <= k) = m  BY <1>1 DEF LastOf
<1> QED  BY <1>2 DEF ValueOf

\* When no error is before k, and k is one or the end, the options read are all there are.
LEMMA AllKnown ==
  ASSUME Len(case.args) \in Nat, NEW k \in 1 .. Len(case.args) + 1, ReadUpTo(k),
         NEW u, u = (Errors = {}), k \in Errors \/ (k = Len(case.args) + 1 /\ Errors = {}),
         case' = case, given' = given, params' = params, understood' = u
  PROVE  Known'
<1>1. \A o : Places(o) = PlacesBefore(o, k)
  <2> SUFFICES ASSUME NEW o PROVE Places(o) = PlacesBefore(o, k)  OBVIOUS
  <2>1. ASSUME NEW m \in Places(o)  PROVE m \in PlacesBefore(o, k)
    <3>1. m \in 1 .. k - 1  BY <2>1 DEF Places
    <3> QED  BY <2>1, <3>1 DEF Places, PlacesBefore
  <2>2. ASSUME NEW m \in PlacesBefore(o, k)  PROVE m \in Places(o)
    <3>1. m \in 1 .. k - 1 /\ m \in 1 .. Len(case.args)  BY <2>2 DEF PlacesBefore
    <3>2. \A e \in Errors : e \in 1 .. Len(case.args) /\ e \notin 1 .. k - 1
      BY DEF ReadUpTo, Errors
    <3>3. \A e \in Errors : m < e  BY <3>1, <3>2
    <3> QED  BY <2>2, <3>1, <3>3 DEF Places, PlacesBefore
  <2> QED  BY <2>1, <2>2
<1>2. \A o \in Flags \cup Valued : o \in DOMAIN given <=> Places(o) # {}
  BY <1>1 DEF ReadUpTo
<1>3. ASSUME NEW o \in Valued, o \in DOMAIN given  PROVE given[o] = ValueOf(o)
  <2>1. PICK m \in PlacesBefore(o, k) :
          LastOf(m, PlacesBefore(o, k)) /\ given[o] = case.args[m + 1]
    BY <1>3 DEF ReadUpTo
  <2>2. Places(o) \subseteq Nat  BY DEF Places
  <2>3. m \in Nat /\ 1 + m = m + 1  BY <1>1, <2>1, <2>2
  <2>4. ValueOf(o) = case.args[1 + m]  BY <1>1, <2>1, <2>2, LastIsValue
  <2> QED  BY <2>1, <2>3, <2>4
<1>4. u => (params = <<>> <=> ~\E m \in 1 .. Len(case.args) : Role(m) = "input")
  <2>1. CASE k \in Errors  BY <2>1
  <2>2. CASE k = Len(case.args) + 1
    <3>1. k - 1 = Len(case.args)  BY <2>2
    <3> QED  BY <3>1 DEF ReadUpTo
  <2> QED  BY <2>1, <2>2
<1>5. /\ Errors' = Errors /\ \A m : (Role(m))' = Role(m)
      /\ \A o : (Places(o))' = Places(o) /\ (ValueOf(o))' = ValueOf(o)
  BY SameArguments
<1> QED  BY <1>2, <1>3, <1>4, <1>5 DEF Known

LEMMA ArgsFacts ==
  ASSUME IInv
  PROVE  /\ Len(case.args) \in Nat /\ DOMAIN case.args = 1 .. Len(case.args)
         /\ \A k \in 1 .. Len(case.args) : case.args[k] \in STRING
<1>1. case.args \in Seq(STRING)  BY CasesAssumption DEF IInv
<1> QED  BY <1>1

\* next and what has been read up to it.
LEMMA NextRead ==
  ASSUME NEW k, next' = k, ReadUpTo(k)'  PROVE ReadUpTo(next)'
BY DEF ReadUpTo, PlacesBefore, LastOf

LEMMA NextIsRead ==
  ASSUME NEW k, next' = k, case' = case, IsRead(k)  PROVE IsRead(next)'
BY DEF IsRead, InARow

LEMMA ReadArgumentKeeps == IInv /\ ReadArgument => IInv'
<1> SUFFICES ASSUME IInv, ReadArgument PROVE IInv'  OBVIOUS
<1>1. /\ pc = "Arguments" /\ pc' \in {"Arguments", "Checks"}
      /\ UNCHANGED <<case, handled, r, exit>>
  BY DEF ReadArgument, ReadParam, ReadFlag, ReadValued, Misunderstood, loop
<1>2. Len(case.args) \in Nat /\ \A k \in 1 .. Len(case.args) : case.args[k] \in STRING
  BY ArgsFacts
<1>3. PICK k : k = next  OBVIOUS
<1>4. k \in 1 .. Len(case.args) + 1 /\ k \in Nat \ {0}
  BY <1>1, <1>2, <1>3 DEF IInv, ArgumentsInv
<1>5. IsRead(k) /\ ReadUpTo(k) /\ understood = TRUE /\ params \in Seq(STRING)
  BY <1>1, <1>3 DEF IInv, ArgumentsInv
<1>6. ASSUME pc' = pc, NEW up \in 1 .. Len(case.args) + 1, next' = up, IsRead(up), ReadUpTo(up)',
             understood' = understood, params' \in Seq(STRING)
      PROVE  ArgumentsInv' /\ KnownInv'
  <2>1. ReadUpTo(next)' /\ IsRead(next)'  BY <1>1, <1>6, NextRead, NextIsRead
  <2> QED  BY <1>1, <1>5, <1>6, <2>1 DEF ArgumentsInv, KnownInv
<1>7. ASSUME k = Len(case.args) + 1  PROVE ArgumentsInv' /\ KnownInv'
  <2>1. ~(k <= Len(case.args))  BY <1>2, <1>7
  <2>2. pc' = "Checks" /\ UNCHANGED <<next, given, params, understood>>
    BY <1>3, <2>1 DEF ReadArgument, commandLine
  <2>3. Errors = {}
    <3>1. k - 1 = Len(case.args)  BY <1>2, <1>7
    <3>2. \A m \in 1 .. Len(case.args) : m \notin Errors  BY <1>5, <3>1 DEF ReadUpTo
    <3> QED  BY <3>2 DEF Errors
  <2>4. Known'  BY <1>1, <1>2, <1>4, <1>5, <1>7, <2>2, <2>3, AllKnown
  <2> QED  BY <2>2, <2>4 DEF ArgumentsInv, KnownInv
<1>8. ASSUME k \in 1 .. Len(case.args)  PROVE ArgumentsInv' /\ KnownInv'
  <2> DEFINE arg == case.args[k]
  <2>1. arg \in STRING /\ k <= Len(case.args) /\ ~(k > Len(case.args))  BY <1>2, <1>8
  <2>2. \/ ReadParam(arg) \/ ReadFlag(arg) \/ ReadValued(arg)
        \/ arg \in Undefined /\ Misunderstood
    BY <1>3, <2>1 DEF ReadArgument
  <2>3. ASSUME k \in Errors, Misunderstood  PROVE ArgumentsInv' /\ KnownInv'
    <3>1. Errors # {} /\ UNCHANGED <<given, params>> /\ understood' = FALSE /\ pc' = "Checks"
      BY <2>3 DEF Misunderstood
    <3>2. Known'  BY <1>1, <1>2, <1>4, <1>5, <2>3, <3>1, AllKnown
    <3> QED  BY <3>1, <3>2 DEF ArgumentsInv, KnownInv
  <2>4. CASE ReadParam(arg)
    <3>1. /\ arg \notin Dashed /\ params' = Append(params, arg) /\ next' = k + 1
          /\ UNCHANGED <<pc, given, understood>>
      BY <1>3, <2>4 DEF ReadParam
    <3>2. k + 1 \in 1 .. Len(case.args) + 1  BY <1>2, <1>8
    <3>3. IsRead(k + 1) /\ ReadUpTo(k + 1)' /\ params' \in Seq(STRING)
      BY <1>1, <1>2, <1>5, <1>8, <2>1, <3>1, ParamRead
    <3> DEFINE up == k + 1
    <3> HIDE DEF up
    <3>4. up \in 1 .. Len(case.args) + 1 /\ next' = up /\ IsRead(up) /\ ReadUpTo(up)'
      BY <3>1, <3>2, <3>3 DEF up
    <3> QED  BY <1>6, <3>1, <3>3, <3>4
  <2>5. CASE ReadFlag(arg)
    <3>1. /\ arg \in Flags /\ given' = Put(given, arg, arg) /\ next' = k + 1
          /\ UNCHANGED <<pc, params, understood>>
      BY <1>3, <2>5 DEF ReadFlag
    <3>2. k + 1 \in 1 .. Len(case.args) + 1  BY <1>2, <1>8
    <3>3. IsRead(k + 1) /\ ReadUpTo(k + 1)'
      BY <1>1, <1>2, <1>5, <1>8, <3>1, FlagRead
    <3> DEFINE up == k + 1
    <3> HIDE DEF up
    <3>4. up \in 1 .. Len(case.args) + 1 /\ next' = up /\ IsRead(up) /\ ReadUpTo(up)'
      BY <3>1, <3>2, <3>3 DEF up
    <3> QED  BY <1>5, <1>6, <3>1, <3>4
  <2>6. CASE ReadValued(arg)
    <3>1. CASE k = Len(case.args) /\ Misunderstood
      <4>1. Role(k) = "option"  BY <1>4, <1>5, <2>6, RoleOfRead DEF ReadValued
      <4>2. k \in Errors  BY <1>8, <3>1, <4>1 DEF Errors
      <4> QED  BY <2>3, <3>1, <4>2
    <3>2. CASE ~(k = Len(case.args) /\ Misunderstood)
      <4>1. /\ arg \in Valued /\ k < Len(case.args)
            /\ given' = Put(given, arg, case.args[k + 1]) /\ next' = k + 2
            /\ UNCHANGED <<pc, params, understood>>
        BY <1>3, <2>6, <3>2 DEF ReadValued
      <4>2. k + 2 \in 1 .. Len(case.args) + 1  BY <1>2, <1>8, <4>1
      <4>3. IsRead(k + 2) /\ ReadUpTo(k + 2)'
        BY <1>1, <1>2, <1>5, <1>8, <4>1, ValueRead
      <4> DEFINE up == k + 2
      <4> HIDE DEF up
      <4>4. up \in 1 .. Len(case.args) + 1 /\ next' = up /\ IsRead(up) /\ ReadUpTo(up)'
        BY <4>1, <4>2, <4>3 DEF up
      <4> QED  BY <1>5, <1>6, <4>1, <4>4
    <3> QED  BY <3>1, <3>2
  <2>7. CASE arg \in Undefined /\ Misunderstood
    <3>1. Role(k) = "undefined"  BY <1>4, <1>5, <2>7, RoleOfRead
    <3>2. k \in Errors  BY <1>8, <3>1 DEF Errors
    <3> QED  BY <2>3, <2>7, <3>2
  <2> QED  BY <2>2, <2>4, <2>5, <2>6, <2>7
<1>9. k = Len(case.args) + 1 \/ k \in 1 .. Len(case.args)  BY <1>2, <1>4
<1>10. ArgumentsInv' /\ KnownInv'  BY <1>7, <1>8, <1>9
<1> QED  BY <1>1, <1>10 DEF IInv, BegunInv, ResultInv, SavedInv, ExitCode

-----------------------------------------------------------------------------
(* The other steps.                                                        *)

\* What the checks of main look at is what the command says.
LEMMA ChecksAreRight ==
  ASSUME Known
  PROVE  /\ LevelIsValid <=> ("-l" \in DOMAIN given => given["-l"] \in LogLevels)
         /\ "-h" \in DOMAIN given <=> Places("-h") # {}
         /\ CanBegin <=> ~BadUsage /\ PrivateFile = "loads"
<1>1. /\ "-l" \in DOMAIN given <=> Places("-l") # {}
      /\ "-l" \in DOMAIN given => given["-l"] = ValueOf("-l")
      /\ "-h" \in DOMAIN given <=> Places("-h") # {}
      /\ "-p" \in DOMAIN given <=> Places("-p") # {}
      /\ "-p" \in DOMAIN given => given["-p"] = ValueOf("-p")
  BY Disjoint DEF Known
<1>2. PrivateFile = "loads" <=> (Places("-p") # {} => PrivateFiles[ValueOf("-p")] = "loads")
  BY <1>1 DEF PrivateFile
<1>3. CanBegin <=> ~BadUsage /\ PrivateFile = "loads"
  BY <1>1, <1>2 DEF CanBegin, BadUsage, Known
<1> QED  BY <1>1, <1>3 DEF LevelIsValid

\* As long as the command has been read, what it says does not change.
LEMMA SameCommand ==
  ASSUME UNCHANGED <<case, commandLine>>
  PROVE  /\ Known => Known'
         /\ LevelIsValid' = LevelIsValid /\ CanBegin' = CanBegin /\ BadUsage' = BadUsage
         /\ (Places("-h"))' = Places("-h")
<1>1. UNCHANGED <<case, given, params, understood>>  BY DEF commandLine
<1>2. /\ Errors' = Errors /\ \A k : (Role(k))' = Role(k)
      /\ \A o : (Places(o))' = Places(o) /\ (ValueOf(o))' = ValueOf(o)
  BY <1>1, SameArguments
<1>3. Known => Known'  BY <1>1, <1>2 DEF Known
<1>4. LevelIsValid' = LevelIsValid  BY <1>2 DEF LevelIsValid
<1>5. CanBegin' = CanBegin  BY <1>1, <1>2 DEF CanBegin
<1> QED  BY <1>1, <1>2, <1>3, <1>4, <1>5 DEF BadUsage

LEMMA CheckUsageKeeps == IInv /\ CheckUsage => IInv'
<1> SUFFICES ASSUME IInv, CheckUsage PROVE IInv'  OBVIOUS
<1>1. pc = "Checks" /\ Known /\ handled = {} /\ r = 0
  BY DEF IInv, CheckUsage, KnownInv, ResultInv
<1>2. UNCHANGED <<case, commandLine, handled, r>>  BY DEF CheckUsage, loop
<1>3. /\ pc' \in {"Exited", "Private"}
      /\ pc' = "Exited" => \/ ~LevelIsValid /\ exit' = -1
                           \/ LevelIsValid /\ BadUsage /\ "-h" \in DOMAIN given /\ exit' = 0
                           \/ LevelIsValid /\ BadUsage /\ "-h" \notin DOMAIN given /\ exit' = -1
      /\ pc' = "Private" => LevelIsValid /\ ~BadUsage
  BY <1>1, ChecksAreRight DEF CheckUsage, Exit
<1>4. ExitCode'
  <2>1. CASE pc' = "Private"  BY <2>1 DEF ExitCode
  <2>2. CASE pc' = "Exited"
    BY <1>1, <1>2, <1>3, <2>2, ChecksAreRight, SameCommand DEF ExitCode, Aborted
  <2> QED  BY <1>3, <2>1, <2>2
<1>5. KnownInv' /\ BegunInv'
  BY <1>1, <1>2, <1>3, SameCommand DEF KnownInv, BegunInv
<1> QED  BY <1>1, <1>2, <1>3, <1>4, <1>5 DEF IInv, ArgumentsInv, ResultInv, SavedInv

LEMMA LoadPrivateFileKeeps == IInv /\ LoadPrivateFile => IInv'
<1> SUFFICES ASSUME IInv, LoadPrivateFile PROVE IInv'  OBVIOUS
<1>1. pc = "Private" /\ Known /\ handled = {} /\ r = 0 /\ LevelIsValid /\ ~BadUsage
  BY DEF IInv, LoadPrivateFile, KnownInv, ResultInv, BegunInv
<1>2. UNCHANGED <<case, commandLine, handled, r>>  BY DEF LoadPrivateFile, loop
<1>3. \/ pc' = "Inputs" /\ CanBegin
      \/ pc' = "Exited" /\ exit' = -1 /\ ~CanBegin
      \/ pc' = "Exited" /\ exit' = Aborted
  BY <1>1, ChecksAreRight DEF LoadPrivateFile, Exit
<1>4. Places("-h") = {}  BY <1>1, ChecksAreRight DEF BadUsage
<1>5. ExitCode'
  BY <1>1, <1>2, <1>3, <1>4, SameCommand DEF ExitCode
<1>6. KnownInv' /\ BegunInv'
  BY <1>1, <1>2, <1>3, SameCommand DEF KnownInv, BegunInv
<1> QED  BY <1>1, <1>2, <1>3, <1>5, <1>6 DEF IInv, ArgumentsInv, ResultInv, SavedInv

LEMMA InputsKeep == IInv /\ (ListInput \/ HandleFile \/ Return) => IInv'
<1> SUFFICES ASSUME IInv, ListInput \/ HandleFile \/ Return PROVE IInv'  OBVIOUS
<1>1. pc = "Inputs"  BY DEF ListInput, HandleFile, Return
<1>2. /\ Known /\ LevelIsValid /\ ~BadUsage /\ CanBegin
      /\ r \in {0, -1} /\ (r = 0 <=> \A h \in handled : h.saved = TRUE)
      /\ \A h \in handled : h.saved \in BOOLEAN
  BY <1>1 DEF IInv, KnownInv, BegunInv, ResultInv, SavedInv
<1>3. UNCHANGED <<case, commandLine>>  BY DEF ListInput, HandleFile, Return, commandLine
<1>4. /\ \/ pc' = pc
         \/ pc' = "Exited" /\ exit' = Aborted
         \/ pc' = "Exited" /\ exit' = r /\ UNCHANGED <<handled, r>>
      /\ \/ UNCHANGED <<handled, r>>
         \/ \E new : \/ new.saved = TRUE /\ handled' = handled \cup {new} /\ r' = r
                     \/ new.saved = FALSE /\ handled' = handled \cup {new} /\ r' = -1
  <2>1. CASE ListInput \/ Return  BY <2>1 DEF ListInput, Return, Exit, loop
  <2>2. CASE HandleFile
    <3>1. PICK f \in files :
            \/ Save(f)
            \/ Over(f, FALSE) /\ UNCHANGED <<disk, pc, exit>>
            \/ Readable(f) /\ Exit(Aborted) /\ UNCHANGED <<disk, files, handled, r>>
      BY <2>2 DEF HandleFile
    <3> DEFINE new(b) == [file |-> f, of |-> Real(f.in), to |-> Real(f.out), saved |-> b]
    <3>2. CASE Save(f)
      <4>1. handled' = handled \cup {new(TRUE)} /\ r' = r /\ new(TRUE).saved = TRUE /\ pc' = pc
        BY <3>2 DEF Save, Over, Result
      <4> QED  BY <4>1
    <3>3. CASE Over(f, FALSE) /\ UNCHANGED <<disk, pc, exit>>
      <4>1. handled' = handled \cup {new(FALSE)} /\ r' = -1 /\ new(FALSE).saved = FALSE /\ pc' = pc
        BY <3>3 DEF Over, Result
      <4> QED  BY <4>1
    <3>4. CASE Readable(f) /\ Exit(Aborted) /\ UNCHANGED <<disk, files, handled, r>>
      BY <3>4 DEF Exit
    <3> QED  BY <3>1, <3>2, <3>3, <3>4
  <2> QED  BY <2>1, <2>2
<1>5. /\ r' \in {0, -1} /\ (r' = 0 <=> \A h \in handled' : h.saved = TRUE)
      /\ \A h \in handled' : h.saved \in BOOLEAN
  <2>1. CASE UNCHANGED <<handled, r>>  BY <1>2, <2>1
  <2>2. CASE ~UNCHANGED <<handled, r>>
    <3>1. PICK new : /\ handled' = handled \cup {new}
                     /\ \/ new.saved = TRUE /\ r' = r
                        \/ new.saved = FALSE /\ r' = -1
      BY <1>4, <2>2
    <3>2. \A h \in handled' : h \in handled \/ h = new  BY <3>1
    <3>3. CASE new.saved = TRUE /\ r' = r  BY <1>2, <3>1, <3>3
    <3>4. CASE new.saved = FALSE /\ r' = -1
      <4>1. r' # 0 /\ r' \in {0, -1}  BY <3>4
      <4>2. new \in handled' /\ new.saved # TRUE  BY <3>1, <3>4
      <4> QED  BY <1>2, <3>2, <3>4, <4>1, <4>2
    <3> QED  BY <3>1, <3>3, <3>4
  <2> QED  BY <2>1, <2>2
<1>6. Places("-h") = {}  BY <1>2, ChecksAreRight DEF BadUsage
<1>7. ExitCode'
  BY <1>1, <1>2, <1>3, <1>4, <1>5, <1>6, SameCommand DEF ExitCode
<1>8. KnownInv' /\ BegunInv'
  BY <1>1, <1>2, <1>3, <1>4, SameCommand DEF KnownInv, BegunInv
<1> QED  BY <1>1, <1>3, <1>4, <1>5, <1>7, <1>8 DEF IInv, ArgumentsInv, ResultInv, SavedInv

LEMMA BeginsRead ==
  ASSUME next' = 1, given' = <<>>, params' = <<>>, case' = case
  PROVE  IsRead(next)' /\ ReadUpTo(next)' /\ params' \in Seq(STRING)
<1>1. 1 .. 1 - 1 = {} /\ DOMAIN given' = {}  OBVIOUS
<1>2. \A o : PlacesBefore(o, 1) = {}  BY <1>1 DEF PlacesBefore
<1>3. ReadUpTo(1)'  BY <1>1, <1>2, ReadSame
<1>4. IsRead(next)'  BY FirstIsRead, NextIsRead
<1> QED  BY <1>3, <1>4, NextRead

LEMMA AgainKeeps == IInv /\ Again => IInv'
<1> SUFFICES ASSUME IInv, Again PROVE IInv'  OBVIOUS
<1>1. /\ pc' = "Arguments" /\ next' = 1 /\ given' = <<>> /\ params' = <<>> /\ understood' = TRUE
      /\ handled' = {} /\ r' = 0 /\ case' = case
  BY DEF Again
<1>2. Len(case.args) \in Nat  BY ArgsFacts
<1>3. next' \in 1 .. Len(case'.args) + 1  BY <1>1, <1>2
<1> QED
  BY <1>1, <1>3, BeginsRead
  DEF IInv, ArgumentsInv, KnownInv, BegunInv, ResultInv, SavedInv, ExitCode

LEMMA InitIInv == Init => IInv
<1> SUFFICES ASSUME Init PROVE IInv  OBVIOUS
<1>1. /\ case \in Cases /\ pc = "Arguments" /\ next = 1 /\ given = <<>> /\ params = <<>>
      /\ understood = TRUE /\ handled = {} /\ r = 0
  BY DEF Init, Start
<1>2. case.args \in Seq(STRING)  BY <1>1, CasesAssumption
<1>3. Len(case.args) \in Nat  BY <1>2
<1>4. next \in 1 .. Len(case.args) + 1  BY <1>1, <1>3
<1>5. 1 .. 1 - 1 = {} /\ DOMAIN given = {}  BY <1>1
<1>6. \A o : PlacesBefore(o, 1) = {}  BY <1>5 DEF PlacesBefore
<1>7. ReadUpTo(next)  BY <1>1, <1>5, <1>6 DEF ReadUpTo
<1> QED
  BY <1>1, <1>4, <1>7, FirstIsRead
  DEF IInv, ArgumentsInv, KnownInv, BegunInv, ResultInv, SavedInv, ExitCode

LEMMA NextKeeps == IInv /\ [Next]_vars => IInv'
<1> SUFFICES ASSUME IInv, [Next]_vars PROVE IInv'  OBVIOUS
<1>1. CASE ReadArgument  BY <1>1, ReadArgumentKeeps
<1>2. CASE CheckUsage  BY <1>2, CheckUsageKeeps
<1>3. CASE LoadPrivateFile  BY <1>3, LoadPrivateFileKeeps
<1>4. CASE ListInput \/ HandleFile \/ Return  BY <1>4, InputsKeep
<1>5. CASE Again  BY <1>5, AgainKeeps
<1>6. CASE Terminated \/ UNCHANGED vars
  <2>1. UNCHANGED <<case, pc, next, given, params, understood, handled, r, exit>>
    BY <1>6 DEF Terminated, vars, commandLine, loop
  <2>2. UNCHANGED <<case, commandLine>>  BY <2>1 DEF commandLine
  <2>3. IsRead(next) => IsRead(next)'  BY <2>1 DEF IsRead, InARow
  <2>4. ReadUpTo(next) => ReadUpTo(next)'
    <3>1. /\ Errors' = Errors /\ \A k : (Role(k))' = Role(k)
      BY <2>1, SameArguments
    <3>2. \A o : (PlacesBefore(o, next))' = PlacesBefore(o, next)
      BY <2>1, <3>1 DEF PlacesBefore
    <3> QED  BY <2>1, <3>1, <3>2 DEF ReadUpTo, LastOf
  <2>5. ArgumentsInv'  BY <2>1, <2>3, <2>4 DEF IInv, ArgumentsInv
  <2>6. KnownInv' /\ BegunInv' /\ ExitCode'
    BY <2>1, <2>2, SameCommand DEF IInv, KnownInv, BegunInv, ExitCode
  <2> QED  BY <2>1, <2>5, <2>6 DEF IInv, ResultInv, SavedInv
<1> QED  BY <1>1, <1>2, <1>3, <1>4, <1>5, <1>6 DEF Next

\* For every command line, whatever files it meets and whatever becomes of each of them, unless
\* the program aborts: it exits with 0 exactly when help was asked for, or when the command
\* makes sense and no file failed.
THEOREM ExitCodeIsRight == Spec => []ExitCode
<1>1. IInv => ExitCode  BY DEF IInv
<1> QED  BY <1>1, InitIInv, NextKeeps, PTL DEF Spec
=============================================================================
