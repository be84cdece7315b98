---------------------------- MODULE ObjectBridge ----------------------------
(***************************************************************************)
(* The object bridge of SpeederMonkey: script objects ("wrappers") whose   *)
(* private slot points at a lifetime<T>, the C++ objects ("natives") the   *)
(* lifetimes lead to, and the garbage collector that destroys both.        *)
(*                                                                         *)
(* A wrapper is created by the class constructor, by reproto, by a caster  *)
(* that turns a value, a pointer or a std::shared_ptr into a script value; *)
(* it is destroyed by the collector, whose finalizer (dtor_callback)       *)
(* deletes the lifetime.  Three kinds of lifetime exist: "js" owns the     *)
(* native, "shared" owns a share of it, "cxx" merely points at it.         *)
(***************************************************************************)
EXTENDS Naturals, Sequences, FiniteSets

CONSTANTS
  Natives,    \* identities of C++ objects; each is used for one object
  Wrappers,   \* identities of script objects; reused once finalized
  Slots,      \* C++ variables of type std::shared_ptr<T> (vx_test::sharedGlobal)
  Intrusive,  \* natives of a class derived from intrusive_object<T>
  Linked,     \* natives of a class with a T* field exposed (vx_test::objref)
  Valued,     \* natives of a class with a PersistentRootedValue (parent::data)
  Null,
  MaxDepth    \* bound on the nesting of native calls that re-enter the script

Kinds    == {"js", "cxx", "shared"}
Owning   == {"js", "shared"}
Lifetime == [kind : Kinds, obj : Natives]

ASSUME BridgeAssumption ==
  /\ Intrusive \subseteq Natives
  /\ Linked \subseteq Natives
  /\ Valued \subseteq Natives
  /\ Null \notin Natives \cup Wrappers \cup Lifetime
  /\ MaxDepth \in Nat

VARIABLES
  live,    \* script objects that exist
  held,    \* live ones that the script can reach
  doomed,  \* live ones found unreachable by the collection in progress
  priv,    \* the private slot: a lifetime, or Null
  leaked,  \* lifetimes no private slot refers to any more, never deleted
  stack,   \* native calls in progress, innermost last
  nst,     \* "unborn", "alive" or "dead"
  unique,  \* intrusive_object_base::unique_obj, a persistent root
  data,    \* the PersistentRootedValue field, a persistent root
  objref,  \* the raw pointer field
  slot,    \* what each C++ shared_ptr variable holds
  host,    \* natives that C++ code owns through a plain pointer
  fault    \* how the program crashed, if it did

jsVars  == <<live, held, doomed, priv, leaked, stack>>
cxxVars == <<nst, unique, data, objref, slot, host>>
vars    == <<jsVars, cxxVars, fault>>

Frame   == [self : Wrappers, raw : Natives, via : Kinds]
NoFault == [why |-> "none", via |-> "none"]
Faults  == [why : {"none", "nullpriv", "dangling", "confused", "assert", "noclass"},
            via : Kinds \cup {"none", "raw"}]

TypeOK ==
  /\ live \subseteq Wrappers
  /\ held \subseteq Wrappers
  /\ doomed \subseteq Wrappers
  /\ priv \in [Wrappers -> Lifetime \cup {Null}]
  /\ leaked \subseteq Lifetime
  /\ stack \in Seq(Frame)
  /\ nst \in [Natives -> {"unborn", "alive", "dead"}]
  /\ unique \in [Natives -> Wrappers \cup {Null}]
  /\ data \in [Natives -> Wrappers \cup {Null}]
  /\ objref \in [Natives -> Natives \cup {Null}]
  /\ slot \in [Slots -> Natives \cup {Null}]
  /\ host \subseteq Natives
  /\ fault \in Faults

Init ==
  /\ live = {} /\ held = {} /\ doomed = {}
  /\ priv = [w \in Wrappers |-> Null]
  /\ leaked = {}
  /\ stack = <<>>
  /\ nst = [n \in Natives |-> "unborn"]
  /\ unique = [n \in Natives |-> Null]
  /\ data = [n \in Natives |-> Null]
  /\ objref = [n \in Natives |-> Null]
  /\ slot = [s \in Slots |-> Null]
  /\ host = {}
  /\ fault = NoFault

-----------------------------------------------------------------------------
(* Who keeps what alive.                                                   *)

\* A lifetime that destroys the native, or drops a share of it, when deleted.
Owns(l, n) == l # Null /\ l.kind \in Owning /\ l.obj = n

\* The owning lifetimes and the shared_ptr variables that refer to n.
Holders(n) ==
  {<<"wrapper", w>> : w \in {v \in live : Owns(priv[v], n)}}
    \cup {<<"leaked", l>> : l \in {k \in leaked : Owns(k, n)}}
    \cup {<<"slot", s>> : s \in {t \in Slots : slot[t] = n}}

\* The native that dies when holder h lets go of n, if any.
\* (Mutant: the finalizer deletes the native whoever else holds it.)
DiesIgnoringOthers(n, h) == {n}
Dies(n, h) == IF Holders(n) = {h} THEN {n} ELSE {}

Destroy(dead) ==
  /\ nst' = [n \in Natives |-> IF n \in dead THEN "dead" ELSE nst[n]]
  /\ unique' = [n \in Natives |-> IF n \in dead THEN Null ELSE unique[n]]
  /\ data' = [n \in Natives |-> IF n \in dead THEN Null ELSE data[n]]

\* this and the arguments of a native call are traced through its vp array.
OnStack == {stack[i].self : i \in 1..Len(stack)}

Roots == held \cup OnStack \cup {unique[n] : n \in Natives} \cup {data[n] : n \in Natives}

Garbage == live \ Roots

\* The script runs: no crash, and the collector, which stops it, is idle.
Running == fault = NoFault /\ doomed = {}

Crash(why, via) ==
  /\ fault' = [why |-> why, via |-> via]
  /\ UNCHANGED <<jsVars, cxxVars>>

\* A use of wrapper x that reads its native finds one to read.
Usable(x) == priv[x] # Null /\ nst[priv[x].obj] = "alive"

\* NewObject, then JS_SetPrivate: a new object, returned to the script.
NewWrapper(v, l) ==
  /\ v \in Wrappers \ live
  /\ live' = live \cup {v}
  /\ held' = held \cup {v}
  /\ priv' = [priv EXCEPT ![v] = l]
  /\ UNCHANGED <<doomed, leaked, stack>>

-----------------------------------------------------------------------------
(* Construction from the script.                                           *)

\* JS_SetPrivate deletes nothing: a lifetime that was there is lost.
\* (Mutants: it is deleted; an empty slot counts as a lifetime.)
DisplacedDeleted(w) == {}
DisplacedUnchecked(w) == {priv[w]}
Displaced(w) == {priv[w]} \ {Null}

\* ctor_addon_intrusive: the native roots the wrapper it was built for.
\* (Mutant: the specialization for intrusive classes is not chosen.)
NoAddon(w, n) == unique
Addon(w, n) == IF n \in Intrusive THEN [unique EXCEPT ![n] = w] ELSE unique

\* attach_new_native<lt>(c, w, args), the native built being n.
AttachNewNative(w, n, lt) ==
  /\ nst[n] = "unborn"
  /\ nst' = [nst EXCEPT ![n] = "alive"]
  /\ priv' = [priv EXCEPT ![w] = [kind |-> lt, obj |-> n]]
  /\ leaked' = leaked \cup Displaced(w)
  /\ unique' = Addon(w, n)
  /\ host' = IF lt = "cxx" THEN host \cup {n} ELSE host
  /\ UNCHANGED <<doomed, stack, data, objref, slot, fault>>

\* new T(...): ctor_callback<T>::callback<lt>.
Construct(w, n, lt) ==
  /\ Running
  /\ w \notin live
  /\ live' = live \cup {w}
  /\ held' = held \cup {w}
  /\ AttachNewNative(w, n, lt)

\* T.reproto(proto): an object of the class, its private slot empty.
Reproto(w) ==
  /\ Running
  /\ NewWrapper(w, Null)
  /\ UNCHANGED <<cxxVars, fault>>

\* T.attachNew.call(w, ...), whatever w already carries.
Attach(w, n, lt) ==
  /\ Running
  /\ w \in held
  /\ AttachNewNative(w, n, lt)
  /\ UNCHANGED <<live, held>>

-----------------------------------------------------------------------------
(* Values, pointers and shared pointers returned to the script.            *)

\* micro_caster::tojs: T is returned by value, the wrapper owns a copy.
ReturnCopy(x, n, v) ==
  /\ Running
  /\ x \in held /\ Usable(x)
  /\ priv[x].obj \notin Intrusive
  /\ nst[n] = "unborn"
  /\ n \in Linked <=> priv[x].obj \in Linked
  /\ n \in Valued <=> priv[x].obj \in Valued
  /\ n \notin Intrusive
  /\ NewWrapper(v, [kind |-> "js", obj |-> n])
  /\ nst' = [nst EXCEPT ![n] = "alive"]
  /\ objref' = [objref EXCEPT ![n] = objref[priv[x].obj]]
  /\ data' = [data EXCEPT ![n] = data[priv[x].obj]]
  /\ UNCHANGED <<unique, slot, host, fault>>

\* micro_caster_ptr<T, false>::tojs: the pointer is wrapped, never read.
\* (Mutant: with the lifetime of the by-value caster.)
WrapPointerOwning(n, v) ==
  /\ NewWrapper(v, [kind |-> "js", obj |-> n])
  /\ UNCHANGED <<cxxVars, fault>>
WrapPointer(n, v) ==
  /\ NewWrapper(v, [kind |-> "cxx", obj |-> n])
  /\ UNCHANGED <<cxxVars, fault>>

\* micro_caster_ptr<T, true>::tojs: n's own wrapper, made now if it has none.
\* (Mutant: the wrapper it has is not looked for.)
IdentityForgetful(n, v) ==
  /\ nst[n] = "alive"
  /\ NewWrapper(v, [kind |-> "cxx", obj |-> n])
  /\ unique' = [unique EXCEPT ![n] = v]
  /\ UNCHANGED <<nst, data, objref, slot, host, fault>>
WrapIntrusive(n, v) ==
  \/ /\ nst[n] # "alive"
     /\ Crash("dangling", "raw")
  \/ /\ nst[n] = "alive" /\ unique[n] # Null
     /\ held' = held \cup {unique[n]}
     /\ UNCHANGED <<live, doomed, priv, leaked, stack, cxxVars, fault>>
  \/ /\ nst[n] = "alive" /\ unique[n] = Null
     /\ NewWrapper(v, [kind |-> "cxx", obj |-> n])
     /\ unique' = [unique EXCEPT ![n] = v]
     /\ UNCHANGED <<nst, data, objref, slot, host, fault>>

\* caster<T *>::tojs chooses by the class of T.
Wrap(n, v) == IF n \in Intrusive THEN WrapIntrusive(n, v) ELSE WrapPointer(n, v)

\* passAround<T>(x) for a T that is not intrusive, and for the base class of
\* one that is; parent::itsthis.  caster<T*>::back reads the lifetime only.
PassPlain(x, v) ==
  /\ Running
  /\ x \in held /\ priv[x] # Null
  /\ WrapPointer(priv[x].obj, v)

\* passAround<T>(x) for an intrusive T.
PassIntrusive(x, v) ==
  /\ Running
  /\ x \in held /\ priv[x] # Null
  /\ priv[x].obj \in Intrusive
  /\ WrapIntrusive(priv[x].obj, v)

\* property<T*, &T::objref>: the setter stores the pointer y leads to.
StoredRef(y) == IF y = Null THEN Null ELSE priv[y].obj
SetObjref(x, y) ==
  /\ Running
  /\ x \in held /\ Usable(x) /\ priv[x].obj \in Linked
  /\ y = Null \/ (y \in held /\ priv[y] # Null /\ priv[y].obj \in Linked)
  /\ objref' = [objref EXCEPT ![priv[x].obj] = StoredRef(y)]
  /\ UNCHANGED <<jsVars, nst, unique, data, slot, host, fault>>

\* The getter wraps the stored pointer; nullptr is undefined (no step).
GetObjref(x, v) ==
  /\ Running
  /\ x \in held /\ Usable(x) /\ objref[priv[x].obj] # Null
  /\ Wrap(objref[priv[x].obj], v)

\* property<PersistentRootedValue, &T::data>: y, or a primitive for Null.
SetData(x, y) ==
  /\ Running
  /\ x \in held /\ Usable(x) /\ priv[x].obj \in Valued
  /\ y \in held \cup {Null}
  /\ data' = [data EXCEPT ![priv[x].obj] = y]
  /\ UNCHANGED <<jsVars, nst, unique, objref, slot, host, fault>>

GetData(x) ==
  /\ Running
  /\ x \in held /\ Usable(x) /\ data[priv[x].obj] # Null
  /\ held' = held \cup {data[priv[x].obj]}
  /\ UNCHANGED <<live, doomed, priv, leaked, stack, cxxVars, fault>>

\* A C++ factory returns std::make_shared<T>(): createShared.
CreateShared(n, v) ==
  /\ Running
  /\ nst[n] = "unborn"
  /\ NewWrapper(v, [kind |-> "shared", obj |-> n])
  /\ nst' = [nst EXCEPT ![n] = "alive"]
  /\ UNCHANGED <<unique, data, objref, slot, host, fault>>

\* A shared_ptr variable is assigned: what it held loses a holder.
AssignSlot(s, n) ==
  /\ slot' = [slot EXCEPT ![s] = n]
  /\ Destroy(IF slot[s] \in {Null, n} THEN {} ELSE Dies(slot[s], <<"slot", s>>))
  /\ UNCHANGED <<jsVars, objref, host, fault>>

\* setShared(x) and sharedGlobal = x.  caster<shared_ptr<T>>::back takes any
\* lifetime for a lifetime_shared_std: a "js" one has its shared datablock
\* where the shared_ptr is expected, and either shares it or crashes.
SetShared(s, x) ==
  /\ Running
  /\ x \in held
  /\ \/ priv[x] = Null /\ Crash("nullpriv", "none")
     \/ priv[x] # Null /\ priv[x].kind \in Owning /\ AssignSlot(s, priv[x].obj)
     \/ priv[x] # Null /\ priv[x].kind # "shared" /\ Crash("confused", priv[x].kind)

ClearShared(s) ==
  /\ Running
  /\ slot[s] # Null
  /\ AssignSlot(s, Null)

\* getShared() and the getter of sharedGlobal; nullptr is undefined (no step).
GetShared(s, v) ==
  /\ Running
  /\ slot[s] # Null
  /\ NewWrapper(v, [kind |-> "shared", obj |-> slot[s]])
  /\ UNCHANGED <<cxxVars, fault>>

-----------------------------------------------------------------------------
(* Uses of a wrapper.                                                      *)

\* get_intrusive_object(this) asserts that the wrapper is known.
GetExternalData(x) ==
  /\ Running
  /\ x \in held /\ Usable(x)
  /\ priv[x].obj \in Intrusive /\ unique[priv[x].obj] = Null
  /\ Crash("assert", priv[x].kind)

\* get_intrusive_object_with_init(c, n): init_with_nativeobj takes jsc_def
\* from class_info<JSObject *>, which is never set; else n's wrapper (no step).
LazyInit(n) ==
  /\ Running
  /\ n \in Intrusive /\ nst[n] = "alive" /\ unique[n] = Null
  /\ Crash("noclass", "none")

\* Any accessor, method or reference argument reads lifetime and native.
UseInvalid(x) ==
  /\ Running
  /\ x \in held /\ ~Usable(x)
  /\ IF priv[x] = Null THEN Crash("nullpriv", "none")
                       ELSE Crash("dangling", priv[x].kind)

\* A method takes the native's address, then re-enters the script (call_data).
Enter(x) ==
  /\ Running
  /\ x \in held /\ Usable(x)
  /\ Len(stack) < MaxDepth
  /\ stack' = Append(stack, [self |-> x, raw |-> priv[x].obj, via |-> priv[x].kind])
  /\ UNCHANGED <<live, held, doomed, priv, leaked, cxxVars, fault>>

\* The innermost method uses the address it took, then returns.
Return ==
  /\ Running
  /\ stack # <<>>
  /\ LET top == stack[Len(stack)] IN
       \/ /\ nst[top.raw] = "alive"
          /\ stack' = SubSeq(stack, 1, Len(stack) - 1)
          /\ UNCHANGED <<live, held, doomed, priv, leaked, cxxVars, fault>>
       \/ /\ nst[top.raw] # "alive"
          /\ Crash("dangling", top.via)

\* The script loses its last reference to w.
Drop(w) ==
  /\ Running
  /\ w \in held
  /\ held' = held \ {w}
  /\ UNCHANGED <<live, doomed, priv, leaked, stack, cxxVars, fault>>

-----------------------------------------------------------------------------
(* C++ code that keeps its own objects ("C++ lifetime").                   *)

HostNew(n) ==
  /\ Running
  /\ nst[n] = "unborn"
  /\ nst' = [nst EXCEPT ![n] = "alive"]
  /\ host' = host \cup {n}
  /\ UNCHANGED <<jsVars, unique, data, objref, slot, fault>>

HostReturn(n, v) ==
  /\ Running
  /\ n \in host
  /\ Wrap(n, v)

HostDelete(n) ==
  /\ Running
  /\ n \in host
  /\ host' = host \ {n}
  /\ Destroy({n})
  /\ UNCHANGED <<jsVars, objref, slot, fault>>

-----------------------------------------------------------------------------
(* The collector.  JS_GC marks from the roots, then finalizes what it did  *)
(* not reach, in no particular order; no script runs until it is done.     *)

StartGC ==
  /\ Running
  /\ Garbage # {}
  /\ doomed' = Garbage
  /\ UNCHANGED <<live, held, priv, leaked, stack, cxxVars, fault>>

\* dtor_callback: delete the lifetime, which may destroy the native.
\* (Mutant: jsc_def->finalize was never set.)
FinalizeWithoutDtor(w) ==
  /\ w \in doomed
  /\ live' = live \ {w}
  /\ doomed' = doomed \ {w}
  /\ priv' = [priv EXCEPT ![w] = Null]
  /\ UNCHANGED <<held, leaked, stack, cxxVars, fault>>
Finalize(w) ==
  /\ w \in doomed
  /\ live' = live \ {w}
  /\ doomed' = doomed \ {w}
  /\ priv' = [priv EXCEPT ![w] = Null]
  /\ Destroy(IF priv[w] # Null /\ priv[w].kind \in Owning
               THEN Dies(priv[w].obj, <<"wrapper", w>>) ELSE {})
  /\ UNCHANGED <<held, leaked, stack, objref, slot, host, fault>>

-----------------------------------------------------------------------------
Script ==
  \/ \E w \in Wrappers, n \in Natives, lt \in Kinds : Construct(w, n, lt) \/ Attach(w, n, lt)
  \/ \E w \in Wrappers : Reproto(w) \/ Drop(w) \/ UseInvalid(w) \/ Enter(w) \/ GetExternalData(w)
  \/ \E x \in Wrappers, n \in Natives, v \in Wrappers : ReturnCopy(x, n, v)
  \/ \E x, v \in Wrappers : PassPlain(x, v) \/ PassIntrusive(x, v) \/ GetObjref(x, v)
  \/ \E x \in Wrappers, y \in Wrappers \cup {Null} : SetObjref(x, y) \/ SetData(x, y)
  \/ \E x \in Wrappers : GetData(x)
  \/ \E n \in Natives, v \in Wrappers : CreateShared(n, v)
  \/ \E s \in Slots, x \in Wrappers : SetShared(s, x) \/ GetShared(s, x)
  \/ \E s \in Slots : ClearShared(s)
  \/ Return

HostCode ==
  \E n \in Natives : HostNew(n) \/ HostDelete(n) \/ LazyInit(n) \/ \E v \in Wrappers : HostReturn(n, v)

Collector == StartGC \/ \E w \in Wrappers : Finalize(w)

Next == Script \/ HostCode \/ Collector

Spec == Init /\ [][Next]_vars

\* The collector runs now and then, and finishes what it starts.
GCFairness == WF_vars(StartGC) /\ WF_vars(\E w \in Wrappers : Finalize(w))

FairSpec == Spec /\ GCFairness

-----------------------------------------------------------------------------
(* Safety.                                                                 *)

\* A native that an owning lifetime or a shared_ptr variable refers to, or
\* that C++ code still owns, exists; and C++ code shares with no lifetime.
HeldNativesAlive ==
  \A n \in Natives :
    /\ Holders(n) # {} => nst[n] = "alive"
    /\ n \in host => nst[n] = "alive" /\ Holders(n) = {}

\* While a method runs on a wrapper that owns its native, the native keeps an
\* owner, whatever the script it re-entered did: dropping every reference,
\* collecting, attaching another native to the same wrapper.
CallsKeepTheirNative ==
  \A i \in 1..Len(stack) :
    stack[i].via \in Owning => nst[stack[i].raw] = "alive" /\ Holders(stack[i].raw) # {}

\* A destroyed native is only ever reached through a pointer: a "cxx" wrapper
\* or a T* in C++ code.  "js" and "shared" wrappers never dangle.
OnlyPointersDangle == fault.why = "dangling" => fault.via \in {"cxx", "raw"}

\* n's unique_obj is a wrapper of n.
LeadsBack(n) == priv[unique[n]] # Null /\ priv[unique[n]].obj = n

\* n has an owner that is not the script's: C++ code, a shared_ptr variable, or
\* a wrapper made from a shared_ptr.
OwnedElsewhere(n) ==
  \/ n \in host
  \/ \E s \in Slots : slot[s] = n
  \/ \E w \in live : priv[w] = [kind |-> "shared", obj |-> n]

\* unique_obj leads to a wrapper of this very native, with two exceptions, both
\* made by attachNew on that wrapper.  If the lifetime it displaced owns the
\* native, the native can never be destroyed.  If it was the mere pointer that
\* a caster put there, the native belongs to somebody else, and until that
\* owner lets it go, passing it to the script yields the other native's object.
UniqueLeadsBack ==
  \A n \in Natives : unique[n] # Null =>
    \/ LeadsBack(n)
    \/ \E l \in leaked : Owns(l, n)
    \/ [kind |-> "cxx", obj |-> n] \in leaked /\ OwnedElsewhere(n)

\* w owns the native n, which the script had built for it or for another.
BuiltFor(w, n) == priv[w] = [kind |-> "js", obj |-> n]

\* "an object created in JS would be automatically initialized": an intrusive
\* native built by a constructor or attachNew knows its wrapper, this one and
\* no other, for life.
ScriptBuiltIsInitialized ==
  \A n \in Intrusive : \A w \in live : BuiltFor(w, n) => unique[n] = w

\* assert(wrap.inited()) in get_intrusive_object holds for every object that
\* the script constructed.
AssertionFailsOnlyForWrapped == fault.why = "assert" => fault.via # "js"

\* n roots a wrapper, and a lifetime that this wrapper has, or that attachNew
\* displaced, owns n.
SelfRooted(n) ==
  /\ unique[n] # Null
  /\ Owns(priv[unique[n]], n) \/ \E l \in leaked : Owns(l, n)

\* A native that roots the wrapper that owns it is out of everybody's reach:
\* no collection, no assignment, no attachNew and no embedding code ends it.
SelfRootedNeverDie ==
  [][\A n \in Natives : SelfRooted(n) => nst'[n] = "alive" /\ SelfRooted(n)']_vars

\* n's PersistentRootedValue holds a wrapper, and a lifetime that this wrapper
\* has, or that attachNew displaced, owns n.
Pinned(n) ==
  /\ data[n] # Null
  /\ Owns(priv[data[n]], n) \/ \E l \in leaked : Owns(l, n)

\* A native whose value is the object that owns it outlives everything, finalizers
\* in the middle of a collection included, until the script assigns the value.
PinnedUntilAssigned ==
  [][\A n \in Natives : Pinned(n) =>
       /\ nst'[n] = "alive"
       /\ Pinned(n)' \/ (Running /\ data'[n] # data[n])]_vars

\* unique_obj is set once and then names the same object until the native
\* dies: passing an intrusive object around never changes its identity.
IdentityIsStable ==
  [][\A n \in Natives : unique'[n] # unique[n] =>
       \/ nst'[n] = "alive" /\ unique[n] = Null
       \/ nst[n] = "alive" /\ nst'[n] = "dead"]_vars

\* Every step is a step of Ownership, for the holders of each native.
HolderKind == {"wrapper", "leaked", "slot", "host"}
Owners == [n \in Natives |->
             Holders(n) \cup (IF n \in host THEN {<<"host", n>>} ELSE {})]
Promise == INSTANCE Ownership WITH
  Owner <- HolderKind \X (Wrappers \cup Lifetime \cup Slots \cup Natives),
  st <- nst, owners <- Owners
KeepsPromise == Promise!OwnSpec

-----------------------------------------------------------------------------
(* The inductive invariant of the proofs (module ObjectBridgeProofs).      *)

\* A script object is reachable, condemned or neither, and a private slot is
\* only filled on an object that exists.
Reach ==
  /\ held \subseteq live
  /\ doomed \subseteq live
  /\ held \cap doomed = {}
  /\ \A w \in Wrappers \ live : priv[w] = Null

\* Persistent roots are members of natives that exist, and are never swept.
Rooted ==
  \A n \in Natives :
    /\ unique[n] # Null => nst[n] = "alive" /\ unique[n] \in live \ doomed
    /\ data[n] # Null => nst[n] = "alive" /\ data[n] \in live \ doomed

\* A call's this is never swept, and the lifetime through which the call took
\* its address is still that object's, or was displaced without being deleted.
Framed ==
  \A i \in 1..Len(stack) :
    /\ stack[i].self \in live \ doomed
    /\ stack[i].via \in Owning =>
         \/ Owns(priv[stack[i].self], stack[i].raw)
         \/ \E l \in leaked : Owns(l, stack[i].raw)

\* n has an owning lifetime or a shared_ptr variable.
Owned(n) ==
  \/ \E w \in live : Owns(priv[w], n)
  \/ \E l \in leaked : Owns(l, n)
  \/ \E s \in Slots : slot[s] = n

OwnedAlive == \A n \in Natives : Owned(n) => nst[n] = "alive"
HostAlone  == \A n \in host : nst[n] = "alive" /\ ~Owned(n)

\* Nothing is destroyed late: a native that exists has an owner.
Accounted == \A n \in Natives : nst[n] = "alive" => Owned(n) \/ n \in host

BridgeInv == TypeOK /\ Reach /\ Rooted /\ Framed /\ OwnedAlive /\ HostAlone /\ OnlyPointersDangle

-----------------------------------------------------------------------------
(* Liveness, under the fairness of the collector.                          *)

\* A native whose holders are all unreachable wrappers is destroyed.
Abandoned(n) ==
  /\ Holders(n) # {}
  /\ Holders(n) \subseteq {<<"wrapper", w>> : w \in Garbage}
AbandonedNativesDie ==
  \A n \in Natives : Abandoned(n) ~> (nst[n] = "dead" \/ fault # NoFault)

\* Nothing refers to w but natives that are abandoned themselves.
OutOfReach(w) ==
  /\ w \in live \ (held \cup OnStack)
  /\ \A m \in Natives : w \in {unique[m], data[m]} => Abandoned(m)


-----------------------------------------------------------------------------
(* What the tests and comments expect, and the code does not do.           *)

\* tests/test_intrusive_obj.js: once the script has no reference left to the
\* objects it created and collects, their natives are destroyed.
Forgotten(n) ==
  /\ stack = <<>>
  /\ \E w \in live \ held : priv[w] = [kind |-> "js", obj |-> n]
ForgottenNativesDie ==
  \A n \in Natives : Forgotten(n) ~> (~Forgotten(n) \/ fault # NoFault)

\* tests/lightweight_test.js reads obj.objref.test, several collections after
\* obj.objref was set: the native behind it is still there.
ObjrefIsReadable ==
  \A x \in held :
    Usable(x) /\ priv[x].kind \in Owning /\ objref[priv[x].obj] # Null
      => nst[objref[priv[x].obj]] = "alive"

\* spde_persistent_wrap.hxx: a native built in C++ gets its wrapper on demand.
LazyInitSucceeds == fault.why # "noclass"
=============================================================================
