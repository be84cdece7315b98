--------------------------- MODULE ClassRegistry ---------------------------
(***************************************************************************)
(* The classes of SpeederMonkey: class_info<T>, which names the prototype  *)
(* that wrappers of T get, class_helper<T>, which creates the prototype    *)
(* and the constructor, and method lookup, which ends in an unchecked cast *)
(* of the private slot to lifetime<T>.                                     *)
(*                                                                         *)
(* class_info<T> keeps the prototype as a plain pointer: only the script   *)
(* keeps the object alive, through the constructor in the global object,   *)
(* through instances, or through prototypes that inherit from it.  A       *)
(* constructor and its prototype lead to each other and are one identity.  *)
(***************************************************************************)
EXTENDS FiniteSets, Naturals, TLC

CONSTANTS
  Classes,
  Parent,   \* the class each class is derived from in C++, or Null
  IsA,      \* derived from, in any number of steps, or equal
  Objects,  \* identities of prototypes and wrappers
  Null,
  None,     \* no class_info at all
  MaxTampered \* bound: objects the script has misused at any time

ASSUME RegistryAssumption ==
  /\ Parent \in [Classes -> Classes \cup {Null}]
  /\ IsA \subseteq Classes \X Classes
  /\ \A c \in Classes : <<c, c>> \in IsA
  /\ \A c, d \in Classes : Parent[c] # Null /\ <<Parent[c], d>> \in IsA => <<c, d>> \in IsA
  /\ Null \notin Classes \cup Objects
  /\ None \notin Objects \cup {Null}
  /\ MaxTampered \in Nat

VARIABLES
  info,     \* class_info<T>: None, Null before define, or jsc_proto
  bound,    \* the constructor that the global object has under T's name
  live,     \* objects that exist
  held,     \* objects in variables of the script
  of,       \* the class whose prototype an object is, Null for a wrapper
  link,     \* an object's prototype; Null stands for Object.prototype
  lt,       \* T, for a lifetime<T> in the private slot
  tampered, \* objects the script gave a prototype or a native of another class
  fault

vars == <<info, bound, live, held, of, link, lt, tampered, fault>>

NoFault == [why |-> "none", class |-> Null, object |-> Null, lookup |-> FALSE]
Faults  == [why : {"none", "noclass", "noproto", "dangling", "nullpriv", "confused"},
            class : Classes \cup {Null}, object : Objects \cup {Null}, lookup : BOOLEAN]

Up == fault = NoFault

Crash(why, c, o, l) ==
  /\ fault' = [why |-> why, class |-> c, object |-> o, lookup |-> l]
  /\ UNCHANGED <<info, bound, live, held, of, link, lt, tampered>>

WithPrototypes(l, S) == \A o \in S : l[o] \in S \cup {Null}

\* An object with its prototypes: the smallest such set it is in.
ChainIn(l, o) ==
  {p \in Objects :
     \A S \in SUBSET Objects : o \in S \cup {Null} /\ WithPrototypes(l, S) => p \in S}
Chain(o) == ChainIn(link, o)

Bound == {bound[c] : c \in Classes} \ {Null}

\* What the script can name.
Known == UNION {Chain(o) : o \in held \cup Bound}

\* All prototypes of o are of classes that c is derived from.
Fits(c, o) == \A p \in Chain(o) : of[p] # Null => <<c, of[p]>> \in IsA

Fresh == Objects \ (live \cup {info[c] : c \in Classes})

Tamper(o) ==
  /\ Cardinality(tampered \cup {o}) <= MaxTampered
  /\ tampered' = tampered \cup {o}

\* Uses of class_info<T>::instance()->jsc_proto.
Unregistered(c) == info[c] = None
Dangling(c)     == info[c] \in Objects \ live
Sound(c)        == info[c] \in live

-----------------------------------------------------------------------------
(* Registration, by C++ code.                                              *)

\* inst_wrapper::set(new class_info<T>(...)).
Register(c) ==
  /\ Up /\ Unregistered(c)
  /\ info' = [info EXCEPT ![c] = Null]
  /\ UNCHANGED <<bound, live, held, of, link, lt, tampered, fault>>

\* class_def: JS_InitClass, whose prototype the global's constructor keeps.
\* (Mutant: a class that is defined again keeps its first jsc_proto.)
InitClassOnce(c, p, parent_proto) ==
  /\ p \in Fresh
  /\ info' = [info EXCEPT ![c] = IF @ = Null THEN p ELSE @]
  /\ bound' = [bound EXCEPT ![c] = p]
  /\ live' = live \cup {p}
  /\ of' = [of EXCEPT ![p] = c]
  /\ link' = [link EXCEPT ![p] = parent_proto]
  /\ UNCHANGED <<held, lt, tampered, fault>>
InitClass(c, p, parent_proto) ==
  /\ p \in Fresh
  /\ info' = [info EXCEPT ![c] = p]
  /\ bound' = [bound EXCEPT ![c] = p]
  /\ live' = live \cup {p}
  /\ of' = [of EXCEPT ![p] = c]
  /\ link' = [link EXCEPT ![p] = parent_proto]
  /\ UNCHANGED <<held, lt, tampered, fault>>

\* class_helper<T>::define, on the first or on a later occasion.
Define(c, p) ==
  /\ Up
  /\ IF Unregistered(c) THEN Crash("noclass", c, Null, FALSE) ELSE InitClass(c, p, Null)

\* class_helper<T>::inherits.  A parent without a prototype yet is no error.
Inherits(c, p) ==
  /\ Up /\ Parent[c] # Null
  /\ LET b == Parent[c] IN
       \/ /\ Unregistered(b)
          /\ Crash("noclass", b, Null, FALSE)
       \/ /\ ~Unregistered(b) /\ Unregistered(c)
          /\ Crash("noclass", c, Null, FALSE)
       \/ /\ ~Unregistered(c) /\ Dangling(b)
          /\ Crash("dangling", b, Null, FALSE)
       \/ /\ ~Unregistered(c) /\ (Sound(b) \/ info[b] = Null)
          /\ InitClass(c, p, info[b])

\* property, accessor, method, static_prop, static_func, attach, reproto:
\* on a prototype that exists they add a member (no step).
Configure(c) ==
  /\ Up
  /\ \/ Unregistered(c) /\ Crash("noclass", c, Null, FALSE)
     \/ info[c] = Null /\ Crash("noproto", c, Null, FALSE)
     \/ Dangling(c) /\ Crash("dangling", c, Null, FALSE)

-----------------------------------------------------------------------------
(* Wrappers.                                                               *)

\* (Mutant: the object is gone when it is handed out.)
NewObjectUnrooted(o, proto, native) ==
  /\ o \in Fresh
  /\ held' = held \cup {o}
  /\ of' = [of EXCEPT ![o] = Null]
  /\ link' = [link EXCEPT ![o] = proto]
  /\ lt' = [lt EXCEPT ![o] = native]
  /\ UNCHANGED <<info, bound, live, fault>>
NewObject(o, proto, native) ==
  /\ o \in Fresh
  /\ live' = live \cup {o}
  /\ held' = held \cup {o}
  /\ of' = [of EXCEPT ![o] = Null]
  /\ link' = [link EXCEPT ![o] = proto]
  /\ lt' = [lt EXCEPT ![o] = native]
  /\ UNCHANGED <<info, bound, fault>>

\* A caster's tojs for a T, a T * or a std::shared_ptr<T>.
\* (Mutant: the lifetime is one of the base class.)
WrapAsParent(c, o) ==
  /\ ~Unregistered(c) /\ ~Dangling(c)
  /\ NewObject(o, info[c], IF Parent[c] = Null THEN c ELSE Parent[c])
  /\ UNCHANGED tampered
Wrap(c, o) ==
  \/ /\ Unregistered(c)
     /\ Crash("noclass", c, Null, FALSE)
  \/ /\ Dangling(c)
     /\ Crash("dangling", c, Null, FALSE)
  \/ /\ ~Unregistered(c) /\ ~Dangling(c)
     /\ NewObject(o, info[c], c)
     /\ UNCHANGED tampered

\* C++ code returns an object, or the script calls new T(...): the constructor
\* too takes the prototype from class_info, not from itself.
Return(c, o) == Up /\ Wrap(c, o)

\* T.reproto(q): any object may become the prototype.
Reproto(p, q, o) ==
  /\ Up
  /\ of[p] # Null
  /\ NewObject(o, q, Null)
  /\ UNCHANGED tampered

\* T.attachNew.call(o, ...): any wrapper or prototype gets a native.
Attach(p, o) ==
  /\ Up
  /\ of[p] # Null
  /\ lt' = [lt EXCEPT ![o] = of[p]]
  /\ IF Fits(of[p], o) THEN UNCHANGED tampered ELSE Tamper(o)
  /\ UNCHANGED <<info, bound, live, held, of, link, fault>>

\* o.__proto__ = q, unless that closes a circle.
SetPrototype(o, q) ==
  /\ Up
  /\ o \notin Chain(q) /\ link[o] # q
  /\ link' = [link EXCEPT ![o] = q]
  /\ Tamper(o)
  /\ UNCHANGED <<info, bound, live, held, of, lt, fault>>

\* A method or property of p's class is used on o, found on o's own chain or
\* borrowed (T.prototype.method.call(o)); a T * argument is a borrowed use.
\* Where private slot and class agree nothing changes (no step): to take a
\* derived class's lifetime for the base's is the identity as long as the base
\* is the first part of the object, as in the repository's classes.
Use(p, o) ==
  /\ Up
  /\ of[p] # Null
  /\ \/ /\ lt[o] = Null
        /\ Crash("nullpriv", Null, Null, FALSE)
     \/ /\ lt[o] # Null /\ <<lt[o], of[p]>> \notin IsA
        /\ Crash("confused", of[p], o, p \in Chain(o))

-----------------------------------------------------------------------------
(* References and the collector.                                           *)

Hold(o) ==
  /\ Up /\ o \notin held
  /\ held' = held \cup {o}
  /\ UNCHANGED <<info, bound, live, of, link, lt, tampered, fault>>

Drop(o) ==
  /\ Up
  /\ held' = held \ {o}
  /\ UNCHANGED <<info, bound, live, of, link, lt, tampered, fault>>

\* delete T, or T = something else: the property is neither permanent nor
\* read-only.
Unbind(c) ==
  /\ Up /\ bound[c] # Null
  /\ bound' = [bound EXCEPT ![c] = Null]
  /\ UNCHANGED <<info, live, held, of, link, lt, tampered, fault>>

Collect ==
  /\ Up
  /\ Known # live
  /\ live' = Known
  /\ of' = [o \in Objects |-> IF o \in Known THEN of[o] ELSE Null]
  /\ link' = [o \in Objects |-> IF o \in Known THEN link[o] ELSE Null]
  /\ lt' = [o \in Objects |-> IF o \in Known THEN lt[o] ELSE Null]
  /\ tampered' = tampered \cap Known
  /\ UNCHANGED <<info, bound, held, fault>>

-----------------------------------------------------------------------------
Init ==
  /\ info = [c \in Classes |-> None]
  /\ bound = [c \in Classes |-> Null]
  /\ live = {} /\ held = {} /\ tampered = {}
  /\ of = [o \in Objects |-> Null]
  /\ link = [o \in Objects |-> Null]
  /\ lt = [o \in Objects |-> Null]
  /\ fault = NoFault

Next ==
  \/ \E c \in Classes : Register(c) \/ Configure(c) \/ Unbind(c)
  \/ \E c \in Classes, p \in Objects : Define(c, p) \/ Inherits(c, p) \/ Return(c, p)
  \/ \E p, o \in Known : Attach(p, o) \/ Use(p, o)
  \/ \E p \in Known, q \in Known \cup {Null}, o \in Objects : Reproto(p, q, o)
  \/ \E o \in Known, q \in Known \cup {Null} : SetPrototype(o, q)
  \/ \E o \in Known : Hold(o)
  \/ \E o \in held : Drop(o)
  \/ Collect

Spec == Init /\ [][Next]_vars

-----------------------------------------------------------------------------
\* Types; what the script holds, or misused, exists.
TypeOK ==
  /\ info \in [Classes -> Objects \cup {Null, None}]
  /\ bound \in [Classes -> Objects \cup {Null}]
  /\ live \subseteq Objects /\ held \subseteq live /\ tampered \subseteq live
  /\ of \in [Objects -> Classes \cup {Null}]
  /\ link \in [Objects -> Objects \cup {Null}]
  /\ lt \in [Objects -> Classes \cup {Null}]
  /\ fault \in Faults

\* jsc_proto dangles only after the script took the class's constructor out of
\* the global object; until then every wrapper can be made, in whatever order
\* classes were registered, derived from each other and defined again.
DanglesOnlyUnbound == fault.why = "dangling" => bound[fault.class] = Null

\* A method that is found by ordinary lookup gets a native of its class or of
\* a derived one, unless the script tampered with the object or one of its
\* prototypes; reproto followed by attachNew of a fitting class is safe.
LookupsAreSafe ==
  fault.why = "confused" /\ fault.lookup => tampered \cap Chain(fault.object) # {}
=============================================================================
