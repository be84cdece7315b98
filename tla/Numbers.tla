------------------------------ MODULE Numbers ------------------------------
(***************************************************************************)
(* Numbers that travel between C++ variables of any type and the script:   *)
(* the casters of details/spde_caster_numeric.hxx, the caster of           *)
(* enumerations in spde_caster.hxx and the script objects of spde_enum.hxx.*)
(*                                                                         *)
(* The engine stores a number as an int or as a double.  The casters read  *)
(* it in the way that suits their type, without asking how it is stored.   *)
(* Only whole numbers are modelled.                                        *)
(***************************************************************************)
EXTENDS Integers

CONSTANTS
  ShortTop, IntTop, LongTop,  \* a type holds -Top .. Top-1, unsigned 0 .. 2*Top-1
  FloatTop, DoubleTop,        \* whole numbers up to Top have a float, a double
  Steps,                      \* powers of two, up to the largest number / FloatTop
  LowWords,                   \* what the lower half of a double may look like
  Sample,                     \* numbers that C++ and script code write (bounds the model)
  Names, Enumerators,         \* of an enumeration
  NoNumber, NoName

Signed(top)   == -top..(top - 1)
Unsigned(top) == 0..(2 * top - 1)

ASSUME WidthAssumption ==
  /\ {ShortTop, IntTop, LongTop, FloatTop, DoubleTop} \subseteq Nat \ {0}
  /\ 2 * ShortTop <= IntTop /\ 2 * ShortTop <= FloatTop /\ FloatTop <= IntTop
  /\ 2 * IntTop <= DoubleTop /\ DoubleTop < LongTop
  /\ Steps \subseteq Nat \ {0}
  /\ LowWords \subseteq Signed(IntTop) /\ Sample \subseteq Int /\ {0, 1} \subseteq Sample
  /\ Enumerators \subseteq Signed(IntTop)
  /\ NoNumber \notin Int /\ NoName \notin Names

VARIABLES
  native,     \* a C++ variable, with the type it has for now
  value,      \* a script variable
  nativeFrom, \* the number that native was written as, wherever that was;
  valueFrom,  \* NoNumber once it went through a caster that does not suit it
  enum,       \* the enumeration was defined
  byName,     \* its object: the number under each name
  byNumber,   \* and the name under each element
  given,      \* the enumerators given so far
  renamed,    \* names given to more than one enumerator
  fault

numbers == <<native, value, nativeFrom, valueFrom>>
tables  == <<byName, byNumber, given, renamed>>
vars == <<native, value, nativeFrom, valueFrom, enum, byName, byNumber, given, renamed, fault>>

-----------------------------------------------------------------------------
(* Conversions.                                                            *)

\* The number of a width with the same bits.
Cut(n, top)  == n % (2 * top)
Wrap(n, top) == ((n + top) % (2 * top)) - top

\* The nearest number if there are top steps from one power of two to the
\* next, to even if there are two: above top the steps grow with the number.
Rounded(n, top) ==
  IF n \in -top..top THEN n
  ELSE LET size == IF n < 0 THEN -n ELSE n
           fits == {s \in Steps : top * s >= size /\ top * s < 2 * size}
           step == IF fits = {} THEN 1 ELSE CHOOSE s \in fits : TRUE
           down == (size \div step) * step
           rest == size % step
           near == IF 2 * rest < step \/ (2 * rest = step /\ (size \div step) % 2 = 0)
                   THEN down ELSE down + step
       IN  IF n < 0 THEN -near ELSE near

Types == {"bool", "short", "unsigned short", "int", "enum", "long", "size_t", "float", "long long"}

Holds(T) ==
  CASE T = "bool" -> {0, 1}
    [] T = "short" -> Signed(ShortTop)
    [] T = "unsigned short" -> Unsigned(ShortTop)
    [] T \in {"int", "enum"} -> Signed(IntTop)
    [] T \in {"long", "long long"} -> Signed(LongTop)
    [] T = "size_t" -> Unsigned(LongTop)
    [] T = "float" -> Int

\* A float holds the numbers that rounding leaves as they are.
Exact(T, n) == n \in Holds(T) /\ (T = "float" => Rounded(n, FloatTop) = n)

Js(store, n) == [store |-> store, num |-> n]

\* What the engine makes of a number: a double only if it fits no int.
\* (Mutant: UINT_TO_JSVAL makes an int of everything.)
NumberAsInt(n) == Js("int", Wrap(n, IntTop))
Number(n) == IF n \in Signed(IntTop) THEN Js("int", n) ELSE Js("double", n)

\* caster<T>::tojs.
\* (Mutant: a long long takes the way of a long.)
ToJsShort(T, n) ==
  CASE T = "bool" -> Js("bool", n)
    [] T \in {"short", "int", "enum", "long", "long long"} -> Js("int", Wrap(n, IntTop))
    [] T \in {"unsigned short", "size_t"} -> Number(Cut(n, IntTop))
    [] T = "float" -> Js("double", n)
ToJs(T, n) ==
  CASE T = "bool" -> Js("bool", n)
    [] T \in {"short", "int", "enum", "long"} -> Js("int", Wrap(n, IntTop))
    [] T \in {"unsigned short", "size_t"} -> Number(Cut(n, IntTop))
    [] T = "float" -> Js("double", n)
    [] T = "long long" -> Js("double", Rounded(n, DoubleTop))

\* toInt32 takes the lower half of the value, whatever is stored there;
\* toBoolean and toNumber of something else make no sense of it.
ToInt32(v)   == IF v.store = "double" THEN LowWords ELSE {v.num}
ToBoolean(v) == IF v.store = "bool" THEN {v.num} ELSE {0, 1}
ToNumber(v)  == IF v.store = "bool" THEN Sample ELSE {v.num}

\* caster<T>::back: what may arrive.  A number that fits no long long may
\* become any.
\* (Mutant: the casts to the short types are missing.)
BackUncast(T, v) ==
  CASE T = "bool" -> ToBoolean(v)
    [] T \in {"int", "enum", "long", "short", "unsigned short"} -> ToInt32(v)
    [] T = "size_t" -> {Cut(n, LongTop) : n \in ToInt32(v)}
    [] T = "float" -> {Rounded(n, FloatTop) : n \in ToNumber(v)}
    [] T = "long long" -> (ToNumber(v) \cup Sample) \cap Signed(LongTop)
Back(T, v) ==
  CASE T = "bool" -> ToBoolean(v)
    [] T \in {"int", "enum", "long"} -> ToInt32(v)
    [] T = "short" -> {Wrap(n, ShortTop) : n \in ToInt32(v)}
    [] T = "unsigned short" -> {Cut(n, ShortTop) : n \in ToInt32(v)}
    [] T = "size_t" -> {Cut(n, LongTop) : n \in ToInt32(v)}
    [] T = "float" -> {Rounded(n, FloatTop) : n \in ToNumber(v)}
    [] T = "long long" -> IF ToNumber(v) \subseteq Signed(LongTop) THEN ToNumber(v)
                          ELSE Sample \cap Signed(LongTop)

-----------------------------------------------------------------------------
(* Numbers travel.                                                         *)

Running == fault = "none"

\* The numbers a caster gives to the script as they are.
Carries(T) ==
  CASE T = "long" -> Signed(IntTop)
    [] T = "size_t" -> Unsigned(IntTop)
    [] T = "long long" -> -DoubleTop..DoubleTop
    [] OTHER -> {n \in Holds(T) : Exact(T, n)}

\* The values it reads as they are.  Most need them stored as ints.
Reads(T, v) ==
  /\ Exact(T, v.num)
  /\ CASE T = "bool" -> v.store = "bool"
       [] T \in {"float", "long long"} -> v.store # "bool"
       [] OTHER -> v.store = "int"

\* C++ code assigns a number to a variable of type T.
Assign(T, n) ==
  /\ Running /\ Exact(T, n)
  /\ native' = [type |-> T, num |-> n] /\ nativeFrom' = n
  /\ UNCHANGED <<value, valueFrom, enum, tables, fault>>

\* The script reads a property or gets a result.
Get ==
  /\ Running
  /\ value' = ToJs(native.type, native.num)
  /\ valueFrom' = IF native.num \in Carries(native.type) THEN nativeFrom ELSE NoNumber
  /\ UNCHANGED <<native, nativeFrom, enum, tables, fault>>

\* The script sets a property of type T, or passes an argument.
Set(T) ==
  /\ Running
  /\ \E n \in Back(T, value) : native' = [type |-> T, num |-> n]
  /\ nativeFrom' = IF Reads(T, value) THEN valueFrom ELSE NoNumber
  /\ UNCHANGED <<value, valueFrom, enum, tables, fault>>

\* The script computes a number; doubles hold it.
Compute(n) ==
  /\ Running /\ Rounded(n, DoubleTop) = n
  /\ value' = Number(n) /\ valueFrom' = n
  /\ UNCHANGED <<native, nativeFrom, enum, tables, fault>>

\* The engine stores the same number the other way.
Restore ==
  /\ Running /\ value.store # "bool" /\ value.num \in Signed(IntTop)
  /\ value' = [value EXCEPT !.store = IF @ = "int" THEN "double" ELSE "int"]
  /\ UNCHANGED <<native, nativeFrom, valueFrom, enum, tables, fault>>

-----------------------------------------------------------------------------
(* An enumeration.                                                         *)

\* The element of an array-like object that stands for a number: its bits.
Element(n) == Cut(n, IntTop)

\* enumeration::define.  It asserts that it is the first.
Define ==
  /\ Running
  /\ \/ ~enum /\ enum' = TRUE /\ UNCHANGED fault
     \/ enum /\ fault' = "assert" /\ UNCHANGED enum
  /\ UNCHANGED <<numbers, tables>>

\* enumeration::enumerator.  The context is the object's own: on an object that
\* define was not called on there is none, whatever other objects of the same
\* enumeration were told.
\* (Mutant: enumerators are numbered in the order they are given.)
EnumeratorInOrder(k, name) ==
  /\ Running
  /\ \/ /\ enum
        /\ byName' = [byName EXCEPT ![name] = k]
        /\ byNumber' = [byNumber EXCEPT ![IF given = {} THEN 0 ELSE 1] = name]
        /\ given' = given \cup {k}
        /\ renamed' = IF byName[name] \in {NoNumber, k} THEN renamed ELSE renamed \cup {name}
        /\ UNCHANGED fault
     \/ fault' = "null" /\ UNCHANGED tables
  /\ UNCHANGED <<numbers, enum>>
Enumerator(k, name) ==
  /\ Running
  /\ \/ /\ enum
        /\ byName' = [byName EXCEPT ![name] = k]
        /\ byNumber' = [byNumber EXCEPT ![Element(k)] = name]
        /\ given' = given \cup {k}
        /\ renamed' = IF byName[name] \in {NoNumber, k} THEN renamed ELSE renamed \cup {name}
        /\ UNCHANGED fault
     \/ fault' = "null" /\ UNCHANGED tables
  /\ UNCHANGED <<numbers, enum>>

Init ==
  /\ native = [type |-> "int", num |-> 0] /\ nativeFrom = 0
  /\ value = Js("int", 0) /\ valueFrom = 0
  /\ enum = FALSE
  /\ byName = [name \in Names |-> NoNumber]
  /\ byNumber = [i \in Unsigned(IntTop) |-> NoName]
  /\ given = {} /\ renamed = {}
  /\ fault = "none"

Next ==
  \/ \E T \in Types : Set(T) \/ \E n \in Sample : Assign(T, n)
  \/ \E n \in Sample : Compute(n)
  \/ Get \/ Restore \/ Define
  \/ \E k \in Enumerators, name \in Names : Enumerator(k, name)

Spec == Init /\ [][Next]_vars

-----------------------------------------------------------------------------
(* Properties.                                                             *)

TypeOK ==
  /\ native \in [type : Types, num : Int] /\ native.num \in Holds(native.type)
  /\ value \in [store : {"bool", "int", "double"}, num : Int]
  /\ value.store = "int" => value.num \in Signed(IntTop)
  /\ value.store = "bool" => value.num \in {0, 1}
  /\ {nativeFrom, valueFrom} \subseteq Int \cup {NoNumber}
  /\ enum \in BOOLEAN
  /\ byName \in [Names -> Enumerators \cup {NoNumber}]
  /\ byNumber \in [Unsigned(IntTop) -> Names \cup {NoName}]
  /\ given \subseteq Enumerators /\ renamed \subseteq Names
  /\ fault \in {"none", "assert", "null"}

\* However often a number crosses, and through variables of whatever types, it
\* is the same, provided each caster on its way carries or reads it.
NumbersArrive ==
  /\ nativeFrom # NoNumber => native.num = nativeFrom
  /\ valueFrom # NoNumber => value.num = valueFrom

\* The numbers that obj.x = obj.x keeps: of a size_t those that are ints, of a
\* long long those that are doubles.
Keeps(T) == IF T = "size_t" THEN 0..(IntTop - 1) ELSE Carries(T)

\* A property that the script assigns to itself does not change.
SelfAssignmentIsIdentity ==
  native.num \in Keeps(native.type)
    => Back(native.type, ToJs(native.type, native.num)) = {native.num}

\* An enumerator that C++ code returns to the script is found in the object
\* of the enumeration, under a name that leads back to it, unless that name
\* was given twice.  It is not if it is negative.
EnumeratorsAreFound ==
  native.type = "enum" /\ native.num \in given /\ native.num >= 0 =>
    LET v == ToJs("enum", native.num)
        name == byNumber[v.num]
    IN  name # NoName /\ (name \notin renamed => byName[name] = v.num)

\* The inductive invariant of the proofs about the enumeration: it says the
\* same of every enumerator, not only of the one C++ code has at hand.
TablesAgree ==
  \A k \in given : k >= 0 =>
    /\ byNumber[k] \in Names
    /\ byNumber[k] \notin renamed => byName[byNumber[k]] = k
=============================================================================
