--------------------------- MODULE NumbersProofs ---------------------------
(***************************************************************************)
(* Proofs about the numeric casters: for any widths of the types, any      *)
(* rounding steps and anything the lower half of a double may be.          *)
(***************************************************************************)
EXTENDS Numbers, TLAPS

-----------------------------------------------------------------------------
(* Conversions.                                                            *)

LEMMA Widths ==
  /\ ShortTop \in Nat \ {0} /\ IntTop \in Nat \ {0} /\ LongTop \in Nat \ {0}
  /\ FloatTop \in Nat \ {0} /\ DoubleTop \in Nat \ {0}
  /\ 2 * ShortTop <= IntTop /\ 2 * ShortTop <= FloatTop /\ FloatTop <= IntTop
  /\ 2 * IntTop <= DoubleTop /\ DoubleTop < LongTop
BY WidthAssumption

\* Cutting a number gives one of that width, and the same one if it has it.
LEMMA CutWidth ==
  ASSUME NEW n \in Int, NEW top \in Nat \ {0}
  PROVE  /\ Cut(n, top) \in Unsigned(top)
         /\ n \in Unsigned(top) => Cut(n, top) = n
<1> DEFINE m == 2 * top
<1>1. m \in Nat /\ m > 0
  OBVIOUS
<1> HIDE DEF m
<1>2. n % m \in 0..(m - 1)
  BY <1>1
<1>3. n \in 0..(m - 1) => n % m = n
  BY <1>1
<1> QED BY <1>2, <1>3 DEF Cut, Unsigned, m

LEMMA WrapWidth ==
  ASSUME NEW n \in Int, NEW top \in Nat \ {0}
  PROVE  /\ Wrap(n, top) \in Signed(top)
         /\ n \in Signed(top) => Wrap(n, top) = n
<1>1. n + top \in Int
  OBVIOUS
<1>2. Wrap(n, top) = Cut(n + top, top) - top
  BY DEF Wrap, Cut
<1>3. /\ Cut(n + top, top) \in 0..(2 * top - 1)
      /\ n + top \in 0..(2 * top - 1) => Cut(n + top, top) = n + top
  BY <1>1, CutWidth DEF Unsigned
<1> QED BY <1>2, <1>3 DEF Signed

\* A negative number is cut to the upper half.
LEMMA CutNegative ==
  ASSUME NEW top \in Nat \ {0}, NEW n \in Signed(top), n < 0
  PROVE  Cut(n, top) \in top..(2 * top - 1)
<1> DEFINE m == 2 * top
<1>1. m \in Nat /\ m > 0 /\ n + m \in 0..(m - 1) /\ n \in Int
  BY DEF Signed
<1>2. n + m \in top..(m - 1)
  BY DEF Signed
<1> HIDE DEF m
<1>3. n % m = n + m
  BY <1>1
<1> QED BY <1>2, <1>3 DEF Cut, m

\* Rounding gives a whole number, and the same one up to top.
LEMMA RoundedType ==
  ASSUME NEW n \in Int, NEW top \in Nat \ {0}
  PROVE  Rounded(n, top) \in Int /\ (n \in -top..top => Rounded(n, top) = n)
<1> DEFINE size == IF n < 0 THEN -n ELSE n
           fits == {s \in Steps : top * s >= size /\ top * s < 2 * size}
           step == IF fits = {} THEN 1 ELSE CHOOSE s \in fits : TRUE
           down == (size \div step) * step
           rest == size % step
           near == IF 2 * rest < step \/ (2 * rest = step /\ (size \div step) % 2 = 0)
                   THEN down ELSE down + step
<1>1. size \in Nat
  OBVIOUS
<1>2. step \in Nat \ {0}
  <2>1. fits # {} => step \in fits
    OBVIOUS
  <2>2. fits \subseteq Nat \ {0}
    BY WidthAssumption
  <2>3. fits = {} => step = 1
    OBVIOUS
  <2>4. CASE fits = {}
    <3>1. step = 1
      BY <2>3, <2>4
    <3> HIDE DEF step, fits
    <3> QED BY <3>1
  <2>5. CASE fits # {}
    <3>1. step \in fits
      BY <2>1, <2>5
    <3> HIDE DEF step, fits
    <3> QED BY <2>2, <3>1
  <2> QED BY <2>4, <2>5
<1>3. Rounded(n, top) = IF n \in -top..top THEN n ELSE IF n < 0 THEN -near ELSE near
  BY DEF Rounded
<1> HIDE DEF size, step
<1>4. size \div step \in Int
  BY <1>1, <1>2
<1>5. down \in Int
  BY <1>2, <1>4
<1> HIDE DEF down
<1>6. near \in Int
  BY <1>2, <1>5
<1> HIDE DEF near
<1> QED BY <1>3, <1>6

LEMMA NumberType ==
  ASSUME NEW n \in Int
  PROVE  /\ Number(n).num = n /\ Number(n).store \in {"int", "double"}
         /\ Number(n).store = "int" <=> n \in Signed(IntTop)
         /\ Number(n) \in [store : {"bool", "int", "double"}, num : Int]
BY DEF Number, Js

\* A value as the engine has it.
IsValue(v) ==
  /\ v \in [store : {"bool", "int", "double"}, num : Int]
  /\ v.store = "int" => v.num \in Signed(IntTop)
  /\ v.store = "bool" => v.num \in {0, 1}

\* A variable holds whole numbers.
LEMMA HoldsInt ==
  ASSUME NEW T \in Types
  PROVE  Holds(T) \subseteq Int
<1>1. \A top \in Nat : Signed(top) \subseteq Int /\ Unsigned(top) \subseteq Int
  BY DEF Signed, Unsigned
<1>2. CASE T \in {"bool", "float"}
  <2>1. T = "bool" => Holds(T) = {0, 1}
    BY DEF Holds
  <2>2. T = "float" => Holds(T) = Int
    BY DEF Holds
  <2> QED BY <1>2, <2>1, <2>2
<1>3. CASE T \in {"short", "int", "enum", "long", "long long"}
  BY <1>1, <1>3, Widths DEF Holds
<1>4. CASE T \in {"unsigned short", "size_t"}
  BY <1>1, <1>4, Widths DEF Holds
<1> QED BY <1>2, <1>3, <1>4 DEF Types

\* tojs makes a value of every number a variable holds, and the same number of
\* those the caster carries.
LEMMA ToJsType ==
  ASSUME NEW T \in Types, NEW n \in Holds(T)
  PROVE  /\ IsValue(ToJs(T, n))
         /\ n \in Carries(T) => ToJs(T, n).num = n
<1>1. n \in Int
  BY HoldsInt
<1>2. CASE T = "bool"
  BY <1>2 DEF ToJs, Holds, IsValue, Js
<1>3. CASE T \in {"short", "int", "enum", "long"}
  <2>1. Wrap(n, IntTop) \in Signed(IntTop) /\ Wrap(n, IntTop) \in Int
    BY <1>1, Widths, WrapWidth DEF Signed
  <2>2. n \in Carries(T) => n \in Signed(IntTop)
    <3>1. CASE T = "long"
      BY <3>1 DEF Carries
    <3>2. CASE T \in {"int", "enum"}
      BY <3>2 DEF Holds
    <3>3. CASE T = "short"
      BY <3>3, Widths DEF Holds, Signed
    <3> QED BY <1>3, <3>1, <3>2, <3>3
  <2>3. ToJs(T, n) = Js("int", Wrap(n, IntTop))
    BY <1>3 DEF ToJs
  <2> QED BY <1>1, <2>1, <2>2, <2>3, Widths, WrapWidth DEF IsValue, Js
<1>4. CASE T \in {"unsigned short", "size_t"}
  <2>1. ToJs(T, n) = Number(Cut(n, IntTop))
    BY <1>4 DEF ToJs
  <2>2. Cut(n, IntTop) \in Int
    BY <1>1, Widths, CutWidth DEF Unsigned
  <2>3. n \in Carries(T) => n \in Unsigned(IntTop)
    <3>1. CASE T = "size_t"
      BY <3>1 DEF Carries
    <3>2. CASE T = "unsigned short"
      <4>1. n \in Unsigned(ShortTop)
        BY <3>2 DEF Holds
      <4> QED BY <4>1, Widths DEF Unsigned
    <3> QED BY <1>4, <3>1, <3>2
  <2> QED BY <1>1, <2>1, <2>2, <2>3, Widths, CutWidth, NumberType DEF IsValue
<1>5. CASE T = "float"
  BY <1>1, <1>5 DEF ToJs, IsValue, Js
<1>6. CASE T = "long long"
  <2>1. ToJs(T, n) = Js("double", Rounded(n, DoubleTop))
    BY <1>6 DEF ToJs
  <2>2. n \in Carries(T) => n \in -DoubleTop..DoubleTop
    BY <1>6 DEF Carries
  <2> QED BY <1>1, <2>1, <2>2, Widths, RoundedType DEF IsValue, Js
<1> QED BY <1>2, <1>3, <1>4, <1>5, <1>6 DEF Types

\* back makes a number of that type of every value, and the same number of
\* those the caster reads.
LEMMA BackNumber ==
  ASSUME NEW T \in Types, NEW v, IsValue(v), NEW n \in Back(T, v)
  PROVE  /\ n \in Holds(T)
         /\ Reads(T, v) => n = v.num
<1>1. v.num \in Int /\ v.store \in {"bool", "int", "double"}
  BY DEF IsValue
<1>2. ToInt32(v) \subseteq Signed(IntTop)
  <2>1. CASE v.store = "double"
    BY <2>1, WidthAssumption DEF ToInt32
  <2>2. CASE v.store = "int"
    BY <2>2 DEF ToInt32, IsValue
  <2>3. CASE v.store = "bool"
    <3>1. v.num \in {0, 1} /\ ToInt32(v) = {v.num}
      BY <2>3 DEF ToInt32, IsValue
    <3> QED BY <3>1, Widths DEF Signed
  <2> QED BY <1>1, <2>1, <2>2, <2>3
<1>3. Signed(IntTop) \subseteq Int
  BY Widths DEF Signed
<1>4. ToNumber(v) \subseteq Int
  BY <1>1, WidthAssumption DEF ToNumber
<1>5. v.store = "int" => ToInt32(v) = {v.num}
  BY DEF ToInt32
<1>6. v.store # "bool" => ToNumber(v) = {v.num}
  BY DEF ToNumber
<1>7. CASE T = "bool"
  BY <1>1, <1>7 DEF Back, Holds, Reads, ToBoolean, IsValue
<1>8. CASE T \in {"int", "enum"}
  BY <1>2, <1>5, <1>8 DEF Back, Holds, Reads
<1>9. CASE T = "long"
  <2>1. n \in ToInt32(v) /\ (Reads(T, v) => v.store = "int")
    BY <1>9 DEF Back, Reads
  <2>2. Signed(IntTop) \subseteq Holds(T)
    BY <1>9, Widths DEF Holds, Signed
  <2> QED BY <1>2, <1>5, <2>1, <2>2
<1>10. CASE T = "short"
  <2>1. PICK m \in ToInt32(v) : n = Wrap(m, ShortTop)
    BY <1>10 DEF Back
  <2>2. Reads(T, v) => v.store = "int" /\ v.num \in Signed(ShortTop)
    BY <1>10 DEF Reads, Exact, Holds
  <2>3. m \in Int /\ (Reads(T, v) => m = v.num)
    BY <1>2, <1>3, <1>5, <2>1, <2>2
  <2>4. /\ Wrap(m, ShortTop) \in Signed(ShortTop)
        /\ m \in Signed(ShortTop) => Wrap(m, ShortTop) = m
    BY <2>3, Widths, WrapWidth
  <2>5. Holds(T) = Signed(ShortTop)
    BY <1>10 DEF Holds
  <2> QED BY <2>1, <2>2, <2>3, <2>4, <2>5
<1>11. CASE T = "unsigned short"
  <2>1. PICK m \in ToInt32(v) : n = Cut(m, ShortTop)
    BY <1>11 DEF Back
  <2>2. Reads(T, v) => v.store = "int" /\ v.num \in Unsigned(ShortTop)
    BY <1>11 DEF Reads, Exact, Holds
  <2>3. m \in Int /\ (Reads(T, v) => m = v.num)
    BY <1>2, <1>3, <1>5, <2>1, <2>2
  <2>4. /\ Cut(m, ShortTop) \in Unsigned(ShortTop)
        /\ m \in Unsigned(ShortTop) => Cut(m, ShortTop) = m
    BY <2>3, Widths, CutWidth
  <2>5. Holds(T) = Unsigned(ShortTop)
    BY <1>11 DEF Holds
  <2> QED BY <2>1, <2>2, <2>3, <2>4, <2>5
<1>12. CASE T = "size_t"
  <2>1. PICK m \in ToInt32(v) : n = Cut(m, LongTop)
    BY <1>12 DEF Back
  <2>2. Reads(T, v) => v.store = "int" /\ v.num \in Unsigned(LongTop)
    BY <1>12 DEF Reads, Exact, Holds
  <2>3. m \in Int /\ (Reads(T, v) => m = v.num)
    BY <1>2, <1>3, <1>5, <2>1, <2>2
  <2>4. /\ Cut(m, LongTop) \in Unsigned(LongTop)
        /\ m \in Unsigned(LongTop) => Cut(m, LongTop) = m
    BY <2>3, Widths, CutWidth
  <2>5. Holds(T) = Unsigned(LongTop)
    BY <1>12 DEF Holds
  <2> QED BY <2>1, <2>2, <2>3, <2>4, <2>5
<1>13. CASE T = "float"
  <2>1. PICK m \in ToNumber(v) : n = Rounded(m, FloatTop)
    BY <1>13 DEF Back
  <2>2. Reads(T, v) => v.store # "bool" /\ Rounded(v.num, FloatTop) = v.num
    BY <1>13 DEF Reads, Exact
  <2> QED BY <1>4, <1>6, <1>13, <2>1, <2>2, Widths, RoundedType DEF Holds
<1>14. CASE T = "long long"
  <2>1. Holds(T) = Signed(LongTop)
    BY <1>14 DEF Holds
  <2>2. n \in IF ToNumber(v) \subseteq Signed(LongTop) THEN ToNumber(v)
              ELSE Sample \cap Signed(LongTop)
    BY <1>14 DEF Back
  <2>3. Reads(T, v) => v.store # "bool" /\ v.num \in Signed(LongTop)
    BY <1>14, <2>1 DEF Reads, Exact
  <2> QED BY <1>6, <2>1, <2>2, <2>3
<1> QED BY <1>7, <1>8, <1>9, <1>10, <1>11, <1>12, <1>13, <1>14 DEF Types

-----------------------------------------------------------------------------
(* Numbers travel.                                                         *)

LEMMA NumbersInitially == Init => TypeOK /\ NumbersArrive
<1> SUFFICES ASSUME Init PROVE TypeOK /\ NumbersArrive
  OBVIOUS
<1>1. native.num \in Holds(native.type) /\ 0 \in Signed(IntTop)
  BY Widths DEF Init, Holds, Signed
<1>2. native \in [type : Types, num : Int]
  BY DEF Init, Types
<1> QED BY <1>1, <1>2, WidthAssumption DEF Init, TypeOK, NumbersArrive, Js

LEMMA AssignStep ==
  ASSUME TypeOK, NumbersArrive, NEW T \in Types, NEW n \in Sample, Assign(T, n)
  PROVE  TypeOK' /\ NumbersArrive'
<1>1. /\ native' = [type |-> T, num |-> n] /\ nativeFrom' = n
      /\ UNCHANGED <<value, valueFrom, enum, byName, byNumber, given, renamed, fault>>
  BY DEF Assign, tables
<1>2. n \in Int /\ n \in Holds(T)
  BY WidthAssumption DEF Assign, Exact
<1>3. native' \in [type : Types, num : Int] /\ native'.num \in Holds(native'.type)
  BY <1>1, <1>2
<1> QED BY <1>1, <1>2, <1>3 DEF TypeOK, NumbersArrive

LEMMA GetStep ==
  ASSUME TypeOK, NumbersArrive, Get
  PROVE  TypeOK' /\ NumbersArrive'
<1> DEFINE T == native.type
           n == native.num
<1>1. /\ value' = ToJs(T, n)
      /\ valueFrom' = IF n \in Carries(T) THEN nativeFrom ELSE NoNumber
      /\ UNCHANGED <<native, nativeFrom, enum, byName, byNumber, given, renamed, fault>>
  BY DEF Get, tables
<1>2. T \in Types /\ n \in Holds(T)
  BY DEF TypeOK
<1>3. IsValue(value') /\ (n \in Carries(T) => value'.num = n)
  BY <1>1, <1>2, ToJsType
<1>4. TypeOK'
  BY <1>1, <1>3 DEF TypeOK, IsValue
<1>5. NumbersArrive'
  BY <1>1, <1>3 DEF NumbersArrive
<1> QED BY <1>4, <1>5

LEMMA SetStep ==
  ASSUME TypeOK, NumbersArrive, NEW T \in Types, Set(T)
  PROVE  TypeOK' /\ NumbersArrive'
<1>1. PICK n \in Back(T, value) : native' = [type |-> T, num |-> n]
  BY DEF Set
<1>2. /\ nativeFrom' = IF Reads(T, value) THEN valueFrom ELSE NoNumber
      /\ UNCHANGED <<value, valueFrom, enum, byName, byNumber, given, renamed, fault>>
  BY DEF Set, tables
<1>3. IsValue(value)
  BY DEF TypeOK, IsValue
<1>4. n \in Holds(T) /\ (Reads(T, value) => n = value.num)
  BY <1>3, BackNumber
<1>5. n \in Int
  BY <1>4, HoldsInt
<1>6. native' \in [type : Types, num : Int] /\ native'.num \in Holds(native'.type) /\ native'.num = n
  BY <1>1, <1>4, <1>5
<1>7. TypeOK'
  BY <1>2, <1>6 DEF TypeOK
<1>8. NumbersArrive'
  BY <1>2, <1>4, <1>6 DEF NumbersArrive
<1> QED BY <1>7, <1>8

LEMMA ComputeStep ==
  ASSUME TypeOK, NumbersArrive, NEW n \in Sample, Compute(n)
  PROVE  TypeOK' /\ NumbersArrive'
<1>1. /\ value' = Number(n) /\ valueFrom' = n
      /\ UNCHANGED <<native, nativeFrom, enum, byName, byNumber, given, renamed, fault>>
  BY DEF Compute, tables
<1>2. n \in Int
  BY WidthAssumption
<1> QED BY <1>1, <1>2, NumberType DEF TypeOK, NumbersArrive

LEMMA RestoreStep ==
  ASSUME TypeOK, NumbersArrive, Restore
  PROVE  TypeOK' /\ NumbersArrive'
<1>1. /\ value' = [value EXCEPT !.store = IF value.store = "int" THEN "double" ELSE "int"]
      /\ value.store # "bool" /\ value.num \in Signed(IntTop)
      /\ UNCHANGED <<native, nativeFrom, valueFrom, enum, byName, byNumber, given, renamed, fault>>
  BY DEF Restore, tables
<1>2. /\ value'.num = value.num /\ value'.store \in {"int", "double"}
      /\ value' \in [store : {"bool", "int", "double"}, num : Int]
  BY <1>1 DEF TypeOK
<1> QED BY <1>1, <1>2 DEF TypeOK, NumbersArrive

LEMMA EnumeratorStep ==
  ASSUME TypeOK, NumbersArrive, NEW k \in Enumerators, NEW name \in Names, Enumerator(k, name)
  PROVE  TypeOK' /\ NumbersArrive'
<1>1. UNCHANGED numbers /\ enum' = enum
  BY DEF Enumerator
<1>2. Element(k) \in Unsigned(IntTop)
  BY WidthAssumption, Widths, CutWidth DEF Element, Signed
<1>3. CASE UNCHANGED tables /\ fault' = "null"
  BY <1>1, <1>3 DEF numbers, tables, TypeOK, NumbersArrive
<1>4. CASE /\ byName' = [byName EXCEPT ![name] = k]
           /\ byNumber' = [byNumber EXCEPT ![Element(k)] = name]
           /\ given' = given \cup {k}
           /\ renamed' = IF byName[name] \in {NoNumber, k} THEN renamed ELSE renamed \cup {name}
           /\ UNCHANGED fault
  BY <1>1, <1>2, <1>4 DEF numbers, TypeOK, NumbersArrive
<1> QED BY <1>3, <1>4 DEF Enumerator

LEMMA NumbersStep ==
  ASSUME TypeOK, NumbersArrive, [Next]_vars
  PROVE  TypeOK' /\ NumbersArrive'
<1>1. CASE Define
  BY <1>1 DEF Define, numbers, tables, TypeOK, NumbersArrive
<1>2. CASE UNCHANGED vars
  BY <1>2 DEF vars, TypeOK, NumbersArrive
<1> QED BY <1>1, <1>2, AssignStep, GetStep, SetStep, ComputeStep, RestoreStep, EnumeratorStep DEF Next

LEMMA NumbersInvariant == Spec => [](TypeOK /\ NumbersArrive)
BY NumbersInitially, NumbersStep, PTL DEF Spec

\* Every variable holds a number of its type, whatever the casters read.
THEOREM NumbersTypeCorrect == Spec => []TypeOK
BY NumbersInvariant, PTL

\* Every number that went only through casters that carry and read it is the
\* one that was written.
THEOREM NumbersAlwaysArrive == Spec => []NumbersArrive
BY NumbersInvariant, PTL

\* What a caster gives to the script it reads back as the same number.
LEMMA RoundTrip ==
  ASSUME NEW T \in Types, NEW n \in Holds(T), n \in Keeps(T), NEW v, v = ToJs(T, n)
  PROVE  Back(T, v) = {n}
<1>1. n \in Int
  BY HoldsInt
<1>2. n \in Carries(T)
  <2>1. CASE T = "size_t"
    <3>1. n \in 0..(IntTop - 1) /\ Carries(T) = Unsigned(IntTop)
      BY <2>1 DEF Keeps, Carries
    <3> QED BY <3>1, Widths DEF Unsigned
  <2>2. CASE T # "size_t"
    BY <2>2 DEF Keeps
  <2> QED BY <2>1, <2>2
<1>3. v.num = n /\ IsValue(v)
  BY <1>2, ToJsType
<1>4. CASE T = "bool"
  <2>1. v.store = "bool"
    BY <1>4 DEF ToJs, Js
  <2>2. Back(T, v) = ToBoolean(v)
    BY <1>4 DEF Back
  <2> QED BY <1>3, <2>1, <2>2 DEF ToBoolean
<1>5. CASE T \in {"int", "enum", "long"}
  <2>1. v.store = "int"
    BY <1>5 DEF ToJs, Js
  <2>2. Back(T, v) = ToInt32(v)
    BY <1>5 DEF Back
  <2> QED BY <1>3, <2>1, <2>2 DEF ToInt32
<1>6. CASE T = "short"
  <2>1. v.store = "int"
    BY <1>6 DEF ToJs, Js
  <2>2. Back(T, v) = {Wrap(m, ShortTop) : m \in ToInt32(v)}
    BY <1>6 DEF Back
  <2>3. ToInt32(v) = {n}
    BY <1>3, <2>1 DEF ToInt32
  <2>4. n \in Signed(ShortTop)
    BY <1>6 DEF Holds
  <2> QED BY <1>1, <2>2, <2>3, <2>4, Widths, WrapWidth
<1>7. CASE T \in {"unsigned short", "size_t"}
  <2>1. n \in 0..(IntTop - 1)
    <3>1. CASE T = "size_t"
      BY <3>1 DEF Keeps
    <3>2. CASE T = "unsigned short"
      <4>1. n \in Unsigned(ShortTop)
        BY <3>2 DEF Holds
      <4> QED BY <4>1, Widths DEF Unsigned
    <3> QED BY <1>7, <3>1, <3>2
  <2>2. v = Number(Cut(n, IntTop))
    BY <1>7 DEF ToJs
  <2>3. n \in Unsigned(IntTop) /\ n \in Signed(IntTop)
    BY <2>1, Widths DEF Unsigned, Signed
  <2>4. Cut(n, IntTop) = n
    BY <1>1, <2>3, Widths, CutWidth
  <2>5. v.store = "int"
    BY <1>1, <2>2, <2>3, <2>4, NumberType
  <2>6. ToInt32(v) = {n}
    BY <1>3, <2>5 DEF ToInt32
  <2>7. CASE T = "size_t"
    <3>1. Back(T, v) = {Cut(m, LongTop) : m \in ToInt32(v)} /\ n \in Unsigned(LongTop)
      BY <2>7 DEF Back, Holds
    <3> QED BY <1>1, <2>6, <3>1, Widths, CutWidth
  <2>8. CASE T = "unsigned short"
    <3>1. Back(T, v) = {Cut(m, ShortTop) : m \in ToInt32(v)} /\ n \in Unsigned(ShortTop)
      BY <2>8 DEF Back, Holds
    <3> QED BY <1>1, <2>6, <3>1, Widths, CutWidth
  <2> QED BY <1>7, <2>7, <2>8
<1>8. CASE T = "float"
  <2>1. v.store = "double"
    BY <1>8 DEF ToJs, Js
  <2>2. Rounded(n, FloatTop) = n
    BY <1>2, <1>8 DEF Carries, Exact
  <2>3. Back(T, v) = {Rounded(m, FloatTop) : m \in ToNumber(v)}
    BY <1>8 DEF Back
  <2>4. ToNumber(v) = {n}
    BY <1>3, <2>1 DEF ToNumber
  <2> QED BY <2>2, <2>3, <2>4
<1>9. CASE T = "long long"
  <2>1. v.store = "double"
    BY <1>9 DEF ToJs, Js
  <2>2. ToNumber(v) = {n} /\ n \in Signed(LongTop)
    BY <1>3, <1>9, <2>1 DEF ToNumber, Holds
  <2>3. Back(T, v) = IF ToNumber(v) \subseteq Signed(LongTop) THEN ToNumber(v)
                     ELSE Sample \cap Signed(LongTop)
    BY <1>9 DEF Back
  <2> QED BY <2>2, <2>3
<1> QED BY <1>4, <1>5, <1>6, <1>7, <1>8, <1>9 DEF Types

\* obj.x = obj.x changes nothing: of a size_t if it is an int, of a long if it
\* fits one, of a long long if it fits a double, and of the rest always.
THEOREM SelfAssignmentAlwaysIsIdentity == Spec => []SelfAssignmentIsIdentity
<1>1. ASSUME TypeOK, native.num \in Keeps(native.type)
      PROVE  Back(native.type, ToJs(native.type, native.num)) = {native.num}
  BY <1>1, RoundTrip DEF TypeOK
<1> QED BY <1>1, NumbersInvariant, PTL DEF SelfAssignmentIsIdentity

-----------------------------------------------------------------------------
(* What the casters lose.                                                  *)

\* Carries says neither too little nor too much of tojs: but for a long long,
\* which may be so even that a double holds it, the numbers it leaves out come
\* to the script as other numbers.
THEOREM CarriesIsExact ==
  ASSUME NEW T \in Types \ {"long long"}, NEW n, Exact(T, n)
  PROVE  ToJs(T, n).num = n <=> n \in Carries(T)
<1>1. n \in Holds(T) /\ n \in Int /\ T \in Types
  BY HoldsInt DEF Exact
<1>2. n \in Carries(T) => ToJs(T, n).num = n
  BY <1>1, ToJsType
<1>3. CASE T = "long"
  <2>1. ToJs(T, n).num = Wrap(n, IntTop)
    BY <1>3 DEF ToJs, Js
  <2>2. Wrap(n, IntTop) \in Signed(IntTop)
    BY <1>1, Widths, WrapWidth
  <2>3. Carries(T) = Signed(IntTop)
    BY <1>3 DEF Carries
  <2> QED BY <1>2, <2>1, <2>2, <2>3
<1>4. CASE T = "size_t"
  <2>1. ToJs(T, n) = Number(Cut(n, IntTop))
    BY <1>4 DEF ToJs
  <2>2. Cut(n, IntTop) \in Unsigned(IntTop)
    BY <1>1, Widths, CutWidth
  <2>3. Carries(T) = Unsigned(IntTop)
    BY <1>4 DEF Carries
  <2>4. Number(Cut(n, IntTop)).num = Cut(n, IntTop)
    BY DEF Number, Js
  <2> QED BY <1>2, <2>1, <2>2, <2>3, <2>4
<1>5. CASE T \notin {"long", "size_t"}
  <2>1. Carries(T) = {m \in Holds(T) : Exact(T, m)}
    BY <1>5 DEF Carries
  <2> QED BY <1>1, <1>2, <2>1
<1> QED BY <1>3, <1>4, <1>5

\* A long that is no int never survives obj.x = obj.x, whatever the lower half
\* of a double looks like.
THEOREM LongsBeyondIntsAreLost ==
  ASSUME NEW n \in Holds("long")
  PROVE  Back("long", ToJs("long", n)) = {n} <=> n \in Keeps("long")
<1>1. n \in Int
  BY HoldsInt DEF Types
<1>2. Keeps("long") = Signed(IntTop)
  BY DEF Keeps, Carries
<1>3. Back("long", ToJs("long", n)) = {Wrap(n, IntTop)}
  BY DEF Back, ToJs, ToInt32, Js
<1>4. Wrap(n, IntTop) \in Signed(IntTop) /\ (n \in Signed(IntTop) => Wrap(n, IntTop) = n)
  BY <1>1, Widths, WrapWidth
<1> QED BY <1>2, <1>3, <1>4

-----------------------------------------------------------------------------
(* Enumerations.                                                           *)

LEMMA TablesStep ==
  ASSUME TypeOK, TablesAgree, [Next]_vars
  PROVE  TablesAgree'
<1>1. ASSUME UNCHANGED tables
      PROVE  TablesAgree'
  BY <1>1 DEF tables, TablesAgree
<1>2. ASSUME NEW k \in Enumerators, NEW name \in Names, Enumerator(k, name)
      PROVE  TablesAgree'
  <2>1. CASE UNCHANGED tables
    BY <1>1, <2>1
  <2>2. CASE /\ byName' = [byName EXCEPT ![name] = k]
             /\ byNumber' = [byNumber EXCEPT ![Element(k)] = name]
             /\ given' = given \cup {k}
             /\ renamed' = IF byName[name] \in {NoNumber, k} THEN renamed ELSE renamed \cup {name}
    <3>1. k \in Signed(IntTop) /\ k \in Int /\ Element(k) \in Unsigned(IntTop)
      BY WidthAssumption, Widths, CutWidth DEF Element, Signed
    <3>2. k >= 0 => Element(k) = k
      <4>1. k >= 0 => k \in Unsigned(IntTop)
        BY <3>1, Widths DEF Signed, Unsigned
      <4> QED BY <3>1, <4>1, Widths, CutWidth DEF Element
    <3>3. ASSUME NEW j \in given, j >= 0, j # k
          PROVE  Element(k) # j
      <4>1. j \in Signed(IntTop)
        BY WidthAssumption DEF TypeOK
      <4>2. CASE k < 0
        <5>1. Element(k) \in IntTop..(2 * IntTop - 1)
          BY <3>1, <4>2, Widths, CutNegative DEF Element
        <5> QED BY <4>1, <5>1, Widths DEF Signed
      <4>3. CASE k >= 0
        BY <3>2, <3>3, <4>3
      <4> QED BY <3>1, <4>2, <4>3
    <3>4. ASSUME NEW j \in given', j >= 0
          PROVE  byNumber'[j] \in Names /\ (byNumber'[j] \notin renamed' => byName'[byNumber'[j]] = j)
      <4>1. CASE j = k
        <5>1. byNumber'[j] = name
          BY <2>2, <3>1, <3>2, <3>4, <4>1 DEF TypeOK
        <5> QED BY <2>2, <4>1, <5>1 DEF TypeOK
      <4>2. CASE j # k
        <5>1. j \in given /\ byNumber'[j] = byNumber[j] /\ byNumber[j] \in Names
          BY <2>2, <3>3, <3>4, <4>2 DEF TypeOK, TablesAgree
        <5>2. ASSUME byNumber[j] \notin renamed'
              PROVE  byName'[byNumber[j]] = j
          <6>1. byNumber[j] \notin renamed /\ byName[byNumber[j]] = j
            BY <2>2, <3>4, <5>1, <5>2 DEF TablesAgree
          <6>2. byNumber[j] # name
            <7>1. j # NoNumber
              BY <5>1, WidthAssumption DEF TypeOK, Signed
            <7> QED BY <2>2, <4>2, <5>2, <6>1, <7>1
          <6> QED BY <2>2, <5>1, <6>1, <6>2 DEF TypeOK
        <5> QED BY <5>1, <5>2
      <4> QED BY <4>1, <4>2
    <3> QED BY <3>4 DEF TablesAgree
  <2> QED BY <1>2, <2>1, <2>2 DEF Enumerator
<1> QED BY <1>1, <1>2 DEF Next, Set, Assign, Compute, Get, Restore, Define, vars, tables

\* An enumerator that is not negative is found by its number, and its name
\* leads back to it unless another enumerator got it too.
THEOREM EnumeratorsAreAlwaysFound == Spec => []EnumeratorsAreFound
<1>1. Init => TablesAgree
  BY DEF Init, TablesAgree
<1>2. Spec => []TablesAgree
  BY <1>1, TablesStep, NumbersInvariant, PTL DEF Spec
<1>3. ASSUME TypeOK, TablesAgree, native.type = "enum", native.num \in given, native.num >= 0
      PROVE  LET v == ToJs("enum", native.num)
                 name == byNumber[v.num]
             IN  name # NoName /\ (name \notin renamed => byName[name] = v.num)
  <2>1. native.num \in Holds("enum") /\ native.num \in Carries("enum")
    BY <1>3 DEF TypeOK, Carries, Holds, Exact
  <2>2. ToJs("enum", native.num).num = native.num
    BY <2>1, ToJsType DEF Types
  <2>3. /\ byNumber[native.num] \in Names
        /\ byNumber[native.num] \notin renamed => byName[byNumber[native.num]] = native.num
    BY <1>3 DEF TablesAgree
  <2> QED BY <2>2, <2>3, WidthAssumption
<1> QED BY <1>2, <1>3, NumbersInvariant, PTL DEF EnumeratorsAreFound
=============================================================================
