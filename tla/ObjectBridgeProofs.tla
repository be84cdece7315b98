------------------------- MODULE ObjectBridgeProofs -------------------------
(***************************************************************************)
(* Theorems about ObjectBridge, for any numbers of wrappers, natives,      *)
(* shared_ptr variables and nested calls.                                  *)
(*                                                                         *)
(* BridgeInv is proved inductive action by action.  Four lemmas state what *)
(* the helpers the actions share do to it: a crash, a new wrapper, an      *)
(* attached native, the destruction of natives.                            *)
(***************************************************************************)
EXTENDS ObjectBridge, SequenceTheorems, TLAPS

\* Null is none of the values it stands in for.
LEMMA NullApart ==
  /\ Null \notin Natives
  /\ Null \notin Wrappers
  /\ Null \notin Lifetime
BY BridgeAssumption

\* A private slot that is not empty holds a lifetime of a native.
LEMMA PrivType ==
  ASSUME TypeOK, NEW w \in Wrappers, priv[w] # Null
  PROVE  priv[w] \in Lifetime /\ priv[w].kind \in Kinds /\ priv[w].obj \in Natives
BY DEF TypeOK, Lifetime

\* Every owning lifetime and every shared_ptr variable is among the holders.
LEMMA HolderIn ==
  ASSUME NEW n
  PROVE  /\ \A w \in live : Owns(priv[w], n) => <<"wrapper", w>> \in Holders(n)
         /\ \A l \in leaked : Owns(l, n) => <<"leaked", l>> \in Holders(n)
         /\ \A s \in Slots : slot[s] = n => <<"slot", s>> \in Holders(n)
<1>1. \A w \in live : Owns(priv[w], n) => <<"wrapper", w>> \in Holders(n)
  BY DEF Holders
<1>2. \A l \in leaked : Owns(l, n) => <<"leaked", l>> \in Holders(n)
  BY DEF Holders
<1>3. \A s \in Slots : slot[s] = n => <<"slot", s>> \in Holders(n)
  BY DEF Holders
<1> QED BY <1>1, <1>2, <1>3

\* What it means to be the one holder left.
LEMMA SoleWrapper ==
  ASSUME NEW n, NEW w, Holders(n) = {<<"wrapper", w>>}
  PROVE  /\ \A v \in live : Owns(priv[v], n) => v = w
         /\ \A l \in leaked : ~Owns(l, n)
         /\ \A s \in Slots : slot[s] # n
<1>1. ASSUME NEW v \in live, Owns(priv[v], n) PROVE v = w
  <2>1. <<"wrapper", v>> \in Holders(n)
    BY <1>1, HolderIn
  <2>2. <<"wrapper", v>> = <<"wrapper", w>>
    BY <2>1
  <2> QED BY <2>2
<1>2. ASSUME NEW l \in leaked, Owns(l, n) PROVE FALSE
  <2>1. <<"leaked", l>> \in Holders(n)
    BY <1>2, HolderIn
  <2> QED BY <2>1
<1>3. ASSUME NEW s \in Slots, slot[s] = n PROVE FALSE
  <2>1. <<"slot", s>> \in Holders(n)
    BY <1>3, HolderIn
  <2> QED BY <2>1
<1> QED BY <1>1, <1>2, <1>3

\* A shared_ptr variable that is the only holder: nothing else refers to n.
LEMMA SoleSlot ==
  ASSUME NEW n, NEW s, Holders(n) = {<<"slot", s>>}
  PROVE  /\ \A v \in live : ~Owns(priv[v], n)
         /\ \A l \in leaked : ~Owns(l, n)
         /\ \A t \in Slots : slot[t] = n => t = s
<1>1. ASSUME NEW t \in Slots, slot[t] = n PROVE t = s
  <2>1. <<"slot", t>> \in Holders(n)
    BY <1>1, HolderIn
  <2>2. <<"slot", t>> = <<"slot", s>>
    BY <2>1
  <2> QED BY <2>2
<1>2. ASSUME NEW l \in leaked, Owns(l, n) PROVE FALSE
  <2>1. <<"leaked", l>> \in Holders(n)
    BY <1>2, HolderIn
  <2> QED BY <2>1
<1>3. ASSUME NEW v \in live, Owns(priv[v], n) PROVE FALSE
  <2>1. <<"wrapper", v>> \in Holders(n)
    BY <1>3, HolderIn
  <2> QED BY <2>1
<1> QED BY <1>1, <1>2, <1>3

\* Owned says with quantifiers what Holders collects in a set.
LEMMA OwnedHolders ==
  ASSUME NEW n
  PROVE  Owned(n) <=> Holders(n) # {}
<1>1. Owned(n) => Holders(n) # {}
  BY HolderIn DEF Owned
<1>2. Holders(n) # {} => Owned(n)
  BY DEF Holders, Owned
<1> QED BY <1>1, <1>2

\* A native that dies by letting h go had no holder but h.
LEMMA DeathIsLast ==
  ASSUME NEW n \in Natives, NEW h, NEW m \in Dies(n, h)
  PROVE  m = n /\ Holders(n) = {h}
BY DEF Dies

-----------------------------------------------------------------------------
\* The initial state satisfies the invariant.
LEMMA InitBridgeInv == Init => BridgeInv
<1> SUFFICES ASSUME Init PROVE BridgeInv
  OBVIOUS
<1>1. TypeOK
  BY DEF Init, TypeOK, NoFault, Faults, Frame
<1>2. Reach /\ Rooted /\ OnlyPointersDangle
  BY DEF Init, Reach, Rooted, OnlyPointersDangle, NoFault
<1>3. Framed
  BY DEF Init, Framed
<1>4. OwnedAlive /\ HostAlone
  BY NullApart DEF Init, OwnedAlive, HostAlone, Owned, Owns
<1> QED BY <1>1, <1>2, <1>3, <1>4 DEF BridgeInv

\* A crash changes nothing else, and is no violation unless it dangles.
LEMMA CrashStep ==
  ASSUME BridgeInv, NEW why, NEW via, Crash(why, via),
         [why |-> why, via |-> via] \in Faults,
         why = "dangling" => via \in {"cxx", "raw"}
  PROVE  BridgeInv'
<1>1. TypeOK'
  BY DEF BridgeInv, TypeOK, Crash, jsVars, cxxVars
<1>2. Reach' /\ Rooted' /\ Framed'
  BY DEF BridgeInv, Reach, Rooted, Framed, Owns, Crash, jsVars, cxxVars
<1>3. OwnedAlive' /\ HostAlone'
  BY DEF BridgeInv, OwnedAlive, HostAlone, Owned, Owns, Crash, jsVars, cxxVars
<1>4. OnlyPointersDangle'
  BY DEF OnlyPointersDangle, Crash
<1> QED BY <1>1, <1>2, <1>3, <1>4 DEF BridgeInv

\* A wrapper is added.  Whatever its lifetime owns exists in the new state and
\* is not C++'s; natives may be born in the same step.
LEMMA NewWrapperStep ==
  ASSUME BridgeInv, NEW v, NEW l \in Lifetime \cup {Null}, NewWrapper(v, l),
         doomed = {},
         \A n \in Natives : nst[n] = "alive" => nst'[n] = "alive",
         \A n \in Natives : Owns(l, n) => nst'[n] = "alive" /\ n \notin host,
         UNCHANGED <<slot, host>>
  PROVE  Reach' /\ Framed' /\ OwnedAlive' /\ HostAlone'
<1> USE DEF BridgeInv, NewWrapper
<1>0. /\ v \in Wrappers /\ v \notin live
      /\ \A w \in live : priv'[w] = priv[w]
      /\ priv'[v] = l
  BY DEF TypeOK, Reach
<1>1. Reach'
  BY DEF TypeOK, Reach
<1>2. Framed'
  BY <1>0 DEF Framed, Owns
<1>3. \A n \in Natives : Owned(n)' => Owned(n) \/ Owns(l, n)
  BY <1>0 DEF Owned, Owns
<1>4. OwnedAlive' /\ HostAlone'
  BY <1>3 DEF OwnedAlive, HostAlone, TypeOK
<1> QED BY <1>1, <1>2, <1>4

\* Natives are destroyed, no holder of theirs being left, and no owner added.
LEMMA DestroyStep ==
  ASSUME BridgeInv, NEW dead \in SUBSET Natives, Destroy(dead),
         live \ doomed \subseteq live' \ doomed',
         \A n \in Natives : Owned(n)' => Owned(n) /\ n \notin dead,
         host' = host \ dead
  PROVE  Rooted' /\ OwnedAlive' /\ HostAlone'
<1> USE DEF BridgeInv, Destroy
<1>1. Rooted'
  BY DEF Rooted
<1>2. OwnedAlive' /\ HostAlone'
  BY DEF OwnedAlive, HostAlone, TypeOK
<1> QED BY <1>1, <1>2

\* A native is built and attached to w, an object that exists by then.
LEMMA AttachStep ==
  ASSUME BridgeInv, Running,
         NEW w \in Wrappers, NEW n \in Natives, NEW lt \in Kinds, AttachNewNative(w, n, lt),
         live' = live \cup {w}, held' = held \cup {w}
  PROVE  BridgeInv'
<1> USE DEF BridgeInv, AttachNewNative
<1>1. TypeOK'
  BY DEF TypeOK, Displaced, Addon, Lifetime
<1>2. /\ priv'[w] = [kind |-> lt, obj |-> n]
      /\ \A v \in Wrappers \ {w} : priv'[v] = priv[v]
      /\ doomed = {} /\ doomed' = {}
  BY DEF TypeOK, Running
<1>3. Reach'
  BY <1>2 DEF Reach, TypeOK
<1>4. Rooted'
  BY <1>2 DEF Rooted, TypeOK, Addon
<1>5. Framed'
  <2> SUFFICES ASSUME NEW i \in 1..Len(stack)
               PROVE  /\ stack[i].self \in live' \ doomed'
                      /\ stack[i].via \in Owning =>
                           \/ Owns(priv'[stack[i].self], stack[i].raw)
                           \/ \E l \in leaked' : Owns(l, stack[i].raw)
    BY DEF Framed, Owns
  <2>1. stack[i].self \in live \ doomed /\ stack[i].self \in Wrappers
    BY DEF Framed, TypeOK
  <2>2. ASSUME stack[i].via \in Owning
        PROVE  \/ Owns(priv'[stack[i].self], stack[i].raw)
               \/ \E l \in leaked' : Owns(l, stack[i].raw)
    <3>1. CASE \E l \in leaked : Owns(l, stack[i].raw)
      BY <3>1
    <3>2. CASE Owns(priv[stack[i].self], stack[i].raw) /\ stack[i].self = w
      BY <3>2 DEF Owns, Displaced
    <3>3. CASE Owns(priv[stack[i].self], stack[i].raw) /\ stack[i].self # w
      BY <3>3, <2>1, <1>2
    <3> QED BY <2>2, <3>1, <3>2, <3>3 DEF Framed
  <2> QED BY <2>1, <2>2, <1>2
<1>6. \A m \in Natives \ {n} : Owned(m)' => Owned(m)
  <2> SUFFICES ASSUME NEW m \in Natives \ {n}, Owned(m)' PROVE Owned(m)
    OBVIOUS
  <2>1. CASE \E v \in live' : Owns(priv'[v], m)
    <3>1. PICK v \in live' : Owns(priv'[v], m)
      BY <2>1
    <3>2. v # w
      BY <3>1, <1>2 DEF Owns
    <3> QED BY <3>1, <3>2, <1>2 DEF Owned, TypeOK
  <2>2. CASE \E l \in leaked' : Owns(l, m)
    <3>1. PICK l \in leaked' : Owns(l, m)
      BY <2>2
    <3>2. l \in leaked \/ (l = priv[w] /\ w \in live)
      BY <3>1 DEF Displaced, Owns, Reach
    <3> QED BY <3>1, <3>2 DEF Owned
  <2>3. CASE \E s \in Slots : slot'[s] = m
    BY <2>3 DEF Owned
  <2> QED BY <2>1, <2>2, <2>3 DEF Owned, Owns
<1>7. OwnedAlive'
  BY <1>6 DEF OwnedAlive, TypeOK
<1>8. HostAlone'
  <2> SUFFICES ASSUME NEW m \in host' PROVE nst'[m] = "alive" /\ ~Owned(m)'
    BY DEF HostAlone
  <2>1. CASE m \in host
    BY <2>1, <1>6 DEF HostAlone, TypeOK
  <2>2. CASE m \notin host
    <3>1. m = n /\ lt = "cxx" /\ nst'[m] = "alive"
      BY <2>2 DEF TypeOK
    <3>2. ~Owned(n)
      BY DEF OwnedAlive
    <3>3. \A l \in leaked' : ~Owns(l, n)
      BY <3>2 DEF Owned, Displaced, Owns, Reach
    <3>4. \A v \in live' : ~Owns(priv'[v], n)
      BY <3>1, <3>2, <1>2 DEF Owned, Owns, Owning, TypeOK
    <3> QED BY <3>1, <3>2, <3>3, <3>4 DEF Owned, Owns
  <2> QED BY <2>1, <2>2
<1>9. OnlyPointersDangle'
  BY DEF OnlyPointersDangle
<1> QED BY <1>1, <1>3, <1>4, <1>5, <1>7, <1>8, <1>9

-----------------------------------------------------------------------------
(* One lemma per action, or group of actions alike.                        *)

\* new T(...) and attachNew differ only in whether the wrapper is new.
LEMMA ConstructStep ==
  ASSUME BridgeInv, NEW w \in Wrappers, NEW n \in Natives, NEW lt \in Kinds,
         Construct(w, n, lt) \/ Attach(w, n, lt)
  PROVE  BridgeInv'
<1>1. Running /\ AttachNewNative(w, n, lt) /\ live' = live \cup {w} /\ held' = held \cup {w}
  BY DEF Construct, Attach, BridgeInv, Reach
<1> QED BY <1>1, AttachStep

\* Wrapping a pointer gives nobody a share of the native.
LEMMA WrapPointerStep ==
  ASSUME BridgeInv, Running, NEW n \in Natives, NEW v, WrapPointer(n, v)
  PROVE  BridgeInv'
<1> USE DEF WrapPointer, cxxVars
<1> DEFINE l == [kind |-> "cxx", obj |-> n]
<1>1. l \in Lifetime /\ \A m \in Natives : ~Owns(l, m)
  BY DEF Lifetime, Kinds, Owns, Owning
<1>2. Reach' /\ Framed' /\ OwnedAlive' /\ HostAlone'
  <2> HIDE DEF l
  <2> QED BY <1>1, NewWrapperStep DEF Running, l
<1>3. TypeOK'
  BY <1>1 DEF BridgeInv, TypeOK, NewWrapper
<1>4. Rooted'
  BY DEF BridgeInv, Rooted, NewWrapper
<1>5. OnlyPointersDangle'
  BY DEF BridgeInv, OnlyPointersDangle
<1> QED BY <1>2, <1>3, <1>4, <1>5 DEF BridgeInv

\* The script gets hold of an object that is rooted, and so not condemned.
LEMMA HoldStep ==
  ASSUME BridgeInv, NEW w \in live \ doomed, held' = held \cup {w},
         UNCHANGED <<live, doomed, priv, leaked, stack, cxxVars, fault>>
  PROVE  BridgeInv'
<1> USE DEF BridgeInv, cxxVars
<1>1. TypeOK' /\ Reach' /\ OnlyPointersDangle'
  BY DEF TypeOK, Reach, OnlyPointersDangle
<1>2. Rooted' /\ Framed'
  BY DEF Rooted, Framed, Owns
<1>3. OwnedAlive' /\ HostAlone'
  BY DEF OwnedAlive, HostAlone, Owned, Owns
<1> QED BY <1>1, <1>2, <1>3

\* Wrapping an intrusive native: found dead, found wrapped, or wrapped now.
LEMMA WrapIntrusiveStep ==
  ASSUME BridgeInv, Running, NEW n \in Natives, NEW v, WrapIntrusive(n, v)
  PROVE  BridgeInv'
<1>1. CASE Crash("dangling", "raw")
  BY <1>1, CrashStep DEF Faults
<1>2. CASE /\ nst[n] = "alive" /\ unique[n] # Null
           /\ held' = held \cup {unique[n]}
           /\ UNCHANGED <<live, doomed, priv, leaked, stack, cxxVars, fault>>
  <2>1. unique[n] \in live \ doomed
    BY <1>2 DEF BridgeInv, Rooted
  <2> QED BY <1>2, <2>1, HoldStep
<1>3. CASE /\ nst[n] = "alive" /\ unique[n] = Null
           /\ NewWrapper(v, [kind |-> "cxx", obj |-> n])
           /\ unique' = [unique EXCEPT ![n] = v]
           /\ UNCHANGED <<nst, data, objref, slot, host, fault>>
  <2> USE <1>3
  <2> DEFINE l == [kind |-> "cxx", obj |-> n]
  <2>1. l \in Lifetime /\ \A m \in Natives : ~Owns(l, m)
    BY DEF Lifetime, Kinds, Owns, Owning
  <2>2. Reach' /\ Framed' /\ OwnedAlive' /\ HostAlone'
    <3> HIDE DEF l
    <3> QED BY <2>1, NewWrapperStep DEF Running, l
  <2>3. TypeOK'
    BY <2>1 DEF BridgeInv, TypeOK, NewWrapper
  <2>4. Rooted'
    BY DEF BridgeInv, Rooted, NewWrapper, Running, TypeOK
  <2>5. OnlyPointersDangle'
    BY DEF BridgeInv, OnlyPointersDangle
  <2> QED BY <2>2, <2>3, <2>4, <2>5 DEF BridgeInv
<1> QED BY <1>1, <1>2, <1>3 DEF WrapIntrusive

\* PassPlain, PassIntrusive, GetObjref, HostReturn: a pointer is handed over.
LEMMA PointerStep ==
  ASSUME BridgeInv, NEW v \in Wrappers,
         \/ \E x \in Wrappers : PassPlain(x, v) \/ PassIntrusive(x, v) \/ GetObjref(x, v)
         \/ \E n \in Natives : HostReturn(n, v)
  PROVE  BridgeInv'
<1>1. PICK n \in Natives : Running /\ (WrapPointer(n, v) \/ WrapIntrusive(n, v))
  <2>1. ASSUME NEW x \in Wrappers, PassPlain(x, v) \/ PassIntrusive(x, v)
        PROVE  Running /\ priv[x].obj \in Natives
                 /\ (WrapPointer(priv[x].obj, v) \/ WrapIntrusive(priv[x].obj, v))
    BY <2>1, PrivType DEF PassPlain, PassIntrusive, BridgeInv
  <2>2. ASSUME NEW x \in Wrappers, GetObjref(x, v)
        PROVE  Running /\ objref[priv[x].obj] \in Natives
                 /\ (WrapPointer(objref[priv[x].obj], v) \/ WrapIntrusive(objref[priv[x].obj], v))
    <3>1. priv[x].obj \in Natives
      BY <2>2, PrivType DEF GetObjref, Usable, BridgeInv
    <3> QED BY <2>2, <3>1 DEF GetObjref, Wrap, BridgeInv, TypeOK
  <2>3. ASSUME NEW n \in Natives, HostReturn(n, v)
        PROVE  Running /\ (WrapPointer(n, v) \/ WrapIntrusive(n, v))
    BY <2>3 DEF HostReturn, Wrap
  <2> QED BY <2>1, <2>2, <2>3
<1> QED BY <1>1, WrapPointerStep, WrapIntrusiveStep

\* An object of the class with an empty private slot.
LEMMA ReprotoStep ==
  ASSUME BridgeInv, NEW w, Reproto(w)
  PROVE  BridgeInv'
<1> USE DEF Reproto, cxxVars
<1>1. Reach' /\ Framed' /\ OwnedAlive' /\ HostAlone'
  BY NewWrapperStep DEF Running, Owns
<1>2. TypeOK'
  BY DEF BridgeInv, TypeOK, NewWrapper
<1>3. Rooted' /\ OnlyPointersDangle'
  BY DEF BridgeInv, Rooted, OnlyPointersDangle, NewWrapper
<1> QED BY <1>1, <1>2, <1>3 DEF BridgeInv

\* A native is born with a new wrapper that owns it, as a copy or as a share.
LEMMA BirthStep ==
  ASSUME BridgeInv, NEW n \in Natives, NEW v \in Wrappers,
         CreateShared(n, v) \/ \E x \in Wrappers : ReturnCopy(x, n, v)
  PROVE  BridgeInv'
<1> USE DEF CreateShared, ReturnCopy
<1>1. PICK k \in Owning : NewWrapper(v, [kind |-> k, obj |-> n])
  BY DEF Owning
<1> DEFINE l == [kind |-> k, obj |-> n]
<1>2. /\ Running /\ nst[n] = "unborn"
      /\ nst' = [nst EXCEPT ![n] = "alive"]
      /\ UNCHANGED <<unique, slot, host, fault>>
      /\ l \in Lifetime
  BY DEF Lifetime, Kinds, Owning
<1>3. \A m \in Natives : Owns(l, m) => nst'[m] = "alive" /\ m \notin host
  BY <1>2 DEF Owns, BridgeInv, HostAlone, TypeOK
<1>4. \A m \in Natives : nst[m] = "alive" => nst'[m] = "alive"
  BY <1>2 DEF BridgeInv, TypeOK
<1>5. Reach' /\ Framed' /\ OwnedAlive' /\ HostAlone'
  <2> HIDE DEF l
  <2> QED BY <1>1, <1>2, <1>3, <1>4, NewWrapperStep DEF Running, l
<1>6. /\ objref' \in [Natives -> Natives \cup {Null}]
      /\ data' \in [Natives -> Wrappers \cup {Null}]
      /\ \A m \in Natives : data'[m] = data[m] \/ (m = n /\ \E p \in Natives : data'[m] = data[p])
  <2>1. CASE CreateShared(n, v)
    BY <2>1 DEF BridgeInv, TypeOK
  <2>2. ASSUME NEW x \in Wrappers, ReturnCopy(x, n, v)
        PROVE  <1>6!1 /\ <1>6!2 /\ <1>6!3
    <3>1. priv[x].obj \in Natives
      BY <2>2, PrivType DEF Usable, BridgeInv
    <3> QED BY <2>2, <3>1 DEF BridgeInv, TypeOK
  <2> QED BY <2>1, <2>2
<1>7. TypeOK'
  BY <1>1, <1>2, <1>6 DEF BridgeInv, TypeOK, NewWrapper
<1>8. Rooted'
  BY <1>1, <1>2, <1>4, <1>6 DEF BridgeInv, Rooted, NewWrapper, TypeOK
<1>9. OnlyPointersDangle'
  BY <1>2 DEF BridgeInv, OnlyPointersDangle
<1> QED BY <1>5, <1>7, <1>8, <1>9 DEF BridgeInv

\* Fields of natives: the raw pointer, and the rooted value.
LEMMA FieldStep ==
  ASSUME BridgeInv, NEW x \in Wrappers,
         \E y \in Wrappers \cup {Null} : SetObjref(x, y) \/ SetData(x, y)
  PROVE  BridgeInv'
<1> USE DEF BridgeInv, jsVars
<1>1. UNCHANGED <<jsVars, nst, unique, slot, host, fault>>
  BY DEF SetObjref, SetData
<1>2. /\ objref' \in [Natives -> Natives \cup {Null}]
      /\ data' \in [Natives -> Wrappers \cup {Null}]
      /\ \A n \in Natives : data'[n] # Null =>
           data'[n] = data[n] \/ (nst[n] = "alive" /\ data'[n] \in held)
  <2> PICK y \in Wrappers \cup {Null} : SetObjref(x, y) \/ SetData(x, y)
    OBVIOUS
  <2>1. CASE SetObjref(x, y)
    <3>1. StoredRef(y) \in Natives \cup {Null} /\ data' = data
      BY <2>1, PrivType DEF SetObjref, StoredRef
    <3> QED BY <2>1, <3>1 DEF SetObjref, TypeOK
  <2>2. CASE SetData(x, y)
    BY <2>2 DEF SetData, TypeOK, Usable
  <2> QED BY <2>1, <2>2
<1>3. TypeOK' /\ Reach' /\ OnlyPointersDangle'
  BY <1>1, <1>2 DEF TypeOK, Reach, OnlyPointersDangle
<1>4. Rooted' /\ Framed'
  BY <1>1, <1>2 DEF Rooted, Framed, Reach, Owns
<1>5. OwnedAlive' /\ HostAlone'
  BY <1>1 DEF OwnedAlive, HostAlone, Owned, Owns
<1> QED BY <1>3, <1>4, <1>5

\* Reading a PersistentRootedValue makes its object reachable again.
LEMMA GetDataStep ==
  ASSUME BridgeInv, NEW x \in Wrappers, GetData(x)
  PROVE  BridgeInv'
<1>1. priv[x].obj \in Natives
  BY PrivType DEF GetData, Usable, BridgeInv
<1>2. data[priv[x].obj] \in live \ doomed
  BY <1>1 DEF GetData, BridgeInv, Rooted
<1> QED BY <1>2, HoldStep DEF GetData

\* Assigning a shared_ptr variable: the new target has a holder already.
LEMMA AssignSlotStep ==
  ASSUME BridgeInv, NEW s \in Slots, NEW n \in Natives \cup {Null}, AssignSlot(s, n),
         n # Null => Owned(n)
  PROVE  BridgeInv'
<1> USE DEF BridgeInv, AssignSlot, jsVars
<1> DEFINE dead == IF slot[s] \in {Null, n} THEN {} ELSE Dies(slot[s], <<"slot", s>>)
<1>1. dead \in SUBSET Natives
  BY NullApart DEF TypeOK, Dies
<1>2. \A m \in Natives : Owned(m)' => Owned(m) /\ m \notin dead
  <2> SUFFICES ASSUME NEW m \in Natives, Owned(m)' PROVE Owned(m) /\ m \notin dead
    OBVIOUS
  <2>1. Owned(m)
    BY NullApart DEF Owned, Owns, TypeOK
  <2>2. ASSUME m \in dead PROVE FALSE
    <3>1. m = slot[s] /\ m # n /\ Holders(m) = {<<"slot", s>>}
      BY <2>2, DeathIsLast DEF TypeOK, Dies
    <3>2. /\ \A v \in live : ~Owns(priv[v], m)
          /\ \A l \in leaked : ~Owns(l, m)
          /\ \A t \in Slots : slot[t] = m => t = s
      BY <3>1, SoleSlot
    <3> QED BY <3>1, <3>2 DEF Owned, Owns, TypeOK
  <2> QED BY <2>1, <2>2
<1>3. dead \cap host = {}
  BY NullApart DEF Dies, HostAlone, Owned, TypeOK
<1>4. Rooted' /\ OwnedAlive' /\ HostAlone'
  <2> HIDE DEF dead
  <2>1. Destroy(dead)
    BY DEF dead
  <2> QED BY <1>1, <1>2, <1>3, <2>1, DestroyStep
<1>5. TypeOK'
  BY DEF TypeOK, Destroy
<1>6. Reach' /\ Framed' /\ OnlyPointersDangle'
  BY DEF Reach, Framed, OnlyPointersDangle, Owns
<1> QED BY <1>4, <1>5, <1>6

\* setShared and the assignment of null to a shared_ptr variable.
LEMMA SlotStep ==
  ASSUME BridgeInv, NEW s \in Slots, ClearShared(s) \/ \E x \in Wrappers : SetShared(s, x)
  PROVE  BridgeInv'
<1>1. CASE ClearShared(s)
  BY <1>1, AssignSlotStep DEF ClearShared
<1>2. ASSUME NEW x \in Wrappers, SetShared(s, x) PROVE BridgeInv'
  <2> USE <1>2 DEF SetShared
  <2>1. CASE Crash("nullpriv", "none")
    BY <2>1, CrashStep DEF Faults
  <2>2. CASE priv[x] # Null /\ priv[x].kind \in Owning /\ AssignSlot(s, priv[x].obj)
    <3>1. priv[x].obj \in Natives /\ x \in live
      BY <2>2, PrivType DEF BridgeInv, Reach
    <3>2. Owned(priv[x].obj)
      BY <2>2, <3>1 DEF Owned, Owns
    <3> QED BY <2>2, <3>1, <3>2, AssignSlotStep
  <2>3. CASE priv[x] # Null /\ Crash("confused", priv[x].kind)
    BY <2>3, CrashStep, PrivType DEF Faults, BridgeInv
  <2> QED BY <2>1, <2>2, <2>3
<1> QED BY <1>1, <1>2

\* One more wrapper shares what the variable holds.
LEMMA GetSharedStep ==
  ASSUME BridgeInv, NEW s \in Slots, NEW v, GetShared(s, v)
  PROVE  BridgeInv'
<1> USE DEF GetShared, cxxVars
<1> DEFINE l == [kind |-> "shared", obj |-> slot[s]]
<1>1. l \in Lifetime /\ slot[s] \in Natives
  BY DEF Lifetime, Kinds, BridgeInv, TypeOK
<1>2. \A m \in Natives : Owns(l, m) => nst'[m] = "alive" /\ m \notin host
  BY <1>1 DEF Owns, BridgeInv, OwnedAlive, HostAlone, Owned
<1>3. Reach' /\ Framed' /\ OwnedAlive' /\ HostAlone'
  <2> HIDE DEF l
  <2> QED BY <1>1, <1>2, NewWrapperStep DEF Running, l
<1>4. TypeOK'
  BY <1>1 DEF BridgeInv, TypeOK, NewWrapper
<1>5. Rooted' /\ OnlyPointersDangle'
  BY DEF BridgeInv, Rooted, OnlyPointersDangle, NewWrapper
<1> QED BY <1>3, <1>4, <1>5 DEF BridgeInv

\* An owner's native exists, so a use that finds none came by a pointer.
LEMMA UseStep ==
  ASSUME BridgeInv, NEW x \in Wrappers, UseInvalid(x) \/ GetExternalData(x)
  PROVE  BridgeInv'
<1>1. CASE priv[x] = Null /\ Crash("nullpriv", "none")
  BY <1>1, CrashStep DEF Faults
<1>2. CASE priv[x] # Null /\ UseInvalid(x)
  <2>1. x \in live /\ priv[x].kind \in Kinds /\ priv[x].obj \in Natives
    BY <1>2, PrivType DEF UseInvalid, BridgeInv, Reach
  <2>2. priv[x].kind \notin Owning
    BY <1>2, <2>1 DEF UseInvalid, Usable, BridgeInv, OwnedAlive, Owned, Owns
  <2>3. priv[x].kind = "cxx" /\ Crash("dangling", priv[x].kind)
    BY <1>2, <2>1, <2>2 DEF UseInvalid, Kinds, Owning
  <2> QED BY <2>3, CrashStep DEF Faults, Kinds
<1>3. CASE GetExternalData(x)
  <2>1. priv[x].kind \in Kinds /\ Crash("assert", priv[x].kind)
    BY <1>3, PrivType DEF GetExternalData, Usable, BridgeInv
  <2> QED BY <2>1, CrashStep DEF Faults
<1> QED BY <1>1, <1>2, <1>3 DEF UseInvalid

\* get_intrusive_object_with_init only ever crashes.
LEMMA LazyInitStep ==
  ASSUME BridgeInv, NEW n, LazyInit(n)
  PROVE  BridgeInv'
BY CrashStep DEF LazyInit, Faults

\* A call begins on a native that its wrapper reaches.
LEMMA EnterStep ==
  ASSUME BridgeInv, NEW x \in Wrappers, Enter(x)
  PROVE  BridgeInv'
<1> USE DEF BridgeInv, Enter, cxxVars
<1> DEFINE f == [self |-> x, raw |-> priv[x].obj, via |-> priv[x].kind]
<1>1. f \in Frame /\ priv[x] # Null
  BY PrivType DEF Usable, Frame
<1>2. stack \in Seq(Frame) /\ stack' = Append(stack, f)
  BY DEF TypeOK
<1>3. TypeOK' /\ Reach' /\ Rooted' /\ OnlyPointersDangle'
  <2> HIDE DEF f
  <2> QED BY <1>1, <1>2 DEF TypeOK, Reach, Rooted, OnlyPointersDangle
<1>4. OwnedAlive' /\ HostAlone'
  BY DEF OwnedAlive, HostAlone, Owned, Owns
<1>5. Framed'
  <2> SUFFICES ASSUME NEW i \in 1..Len(stack')
               PROVE  /\ stack'[i].self \in live \ doomed
                      /\ stack'[i].via \in Owning =>
                           \/ Owns(priv[stack'[i].self], stack'[i].raw)
                           \/ \E l \in leaked : Owns(l, stack'[i].raw)
    BY DEF Framed, Owns
  <2>1. CASE i \in 1..Len(stack)
    <3>1. stack'[i] = stack[i]
      BY <1>1, <1>2, <2>1
    <3> QED BY <2>1, <3>1 DEF Framed
  <2>2. CASE i = Len(stack) + 1
    <3>1. stack'[i] = f
      BY <1>1, <1>2, <2>2
    <3>2. x \in live \ doomed
      BY DEF Reach
    <3>3. f.via \in Owning => Owns(priv[f.self], f.raw)
      BY <1>1 DEF Owns
    <3> QED BY <3>1, <3>2, <3>3
  <2>3. i \in 1..Len(stack) \/ i = Len(stack) + 1
    <3>1. Len(stack') = Len(stack) + 1 /\ Len(stack) \in Nat
      BY <1>1, <1>2
    <3> QED BY <3>1
  <2> QED BY <2>1, <2>2, <2>3
<1> QED BY <1>3, <1>4, <1>5

\* Returning from a call made through an owner cannot meet a dead native.
LEMMA ReturnStep ==
  ASSUME BridgeInv, Return
  PROVE  BridgeInv'
<1> DEFINE top == stack[Len(stack)]
<1>1. stack \in Seq(Frame) /\ Len(stack) \in Nat \ {0} /\ top \in Frame
  BY DEF Return, BridgeInv, TypeOK
<1>2. CASE nst[top.raw] # "alive" /\ Crash("dangling", top.via)
  <2>1. top.via \notin Owning
    <3> SUFFICES ASSUME top.via \in Owning PROVE FALSE
      OBVIOUS
    <3>1. /\ top.self \in live
          /\ Owns(priv[top.self], top.raw) \/ \E l \in leaked : Owns(l, top.raw)
      BY <1>1 DEF BridgeInv, Framed
    <3>2. top.raw \in Natives
      BY <1>1 DEF Frame
    <3> QED BY <3>1, <3>2, <1>2 DEF BridgeInv, OwnedAlive, Owned
  <2>2. top.via = "cxx"
    BY <1>1, <2>1 DEF Frame, Kinds, Owning
  <2> QED BY <1>2, <2>2, CrashStep DEF Faults, Kinds
<1>3. CASE /\ stack' = SubSeq(stack, 1, Len(stack) - 1)
           /\ UNCHANGED <<live, held, doomed, priv, leaked, cxxVars, fault>>
  <2> USE <1>3 DEF BridgeInv, cxxVars
  <2>1. /\ stack' \in Seq(Frame) /\ Len(stack') = Len(stack) - 1
        /\ \A i \in 1..Len(stack') : stack'[i] = stack[i] /\ i \in 1..Len(stack)
    <3> HIDE DEF BridgeInv
    <3> DEFINE m == Len(stack) - 1
    <3>1. stack' = SubSeq(stack, 1, m)
      OBVIOUS
    <3>2. m \in Nat /\ \A i \in 1..m : stack[i] \in Frame /\ i \in 1..Len(stack)
      BY <1>1
    <3> HIDE DEF m
    <3>3. /\ stack' \in Seq(Frame)
          /\ Len(stack') = IF 1 <= m THEN m - 1 + 1 ELSE 0
          /\ \A i \in 1..(m - 1 + 1) : stack'[i] = stack[1 + i - 1]
      BY <3>1, <3>2, SubSeqProperties
    <3>4. Len(stack') = m /\ \A i \in 1..m : stack'[i] = stack[i]
      BY <3>2, <3>3
    <3> QED BY <3>2, <3>3, <3>4 DEF m
  <2>2. TypeOK' /\ Reach' /\ Rooted' /\ OnlyPointersDangle'
    BY <2>1 DEF TypeOK, Reach, Rooted, OnlyPointersDangle
  <2>3. OwnedAlive' /\ HostAlone'
    BY DEF OwnedAlive, HostAlone, Owned, Owns
  <2>4. Framed'
    BY <2>1 DEF Framed, Owns
  <2> QED BY <2>2, <2>3, <2>4
<1> QED BY <1>2, <1>3 DEF Return

\* Losing a reference changes nothing but what the script can reach.
LEMMA DropStep ==
  ASSUME BridgeInv, NEW w, Drop(w)
  PROVE  BridgeInv'
<1> USE DEF BridgeInv, Drop, cxxVars
<1>1. TypeOK' /\ Reach' /\ OnlyPointersDangle'
  BY DEF TypeOK, Reach, OnlyPointersDangle
<1>2. Rooted' /\ Framed'
  BY DEF Rooted, Framed, Owns
<1>3. OwnedAlive' /\ HostAlone'
  BY DEF OwnedAlive, HostAlone, Owned, Owns
<1> QED BY <1>1, <1>2, <1>3

\* C++ code builds an object for itself.
LEMMA HostNewStep ==
  ASSUME BridgeInv, NEW n \in Natives, HostNew(n)
  PROVE  BridgeInv'
<1> USE DEF BridgeInv, HostNew, jsVars
<1>1. TypeOK' /\ Reach' /\ OnlyPointersDangle'
  BY DEF TypeOK, Reach, OnlyPointersDangle
<1>2. Rooted' /\ Framed'
  BY DEF Rooted, Framed, Owns, TypeOK
<1>3. ~Owned(n) /\ \A m \in Natives : Owned(m)' <=> Owned(m)
  BY DEF OwnedAlive, Owned, Owns
<1>4. OwnedAlive' /\ HostAlone'
  BY <1>3 DEF OwnedAlive, HostAlone, TypeOK
<1> QED BY <1>1, <1>2, <1>4

\* C++ code deletes an object that no lifetime owns.
LEMMA HostDeleteStep ==
  ASSUME BridgeInv, NEW n \in Natives, HostDelete(n)
  PROVE  BridgeInv'
<1> USE DEF BridgeInv, HostDelete, jsVars
<1>1. \A m \in Natives : Owned(m)' => Owned(m) /\ m \notin {n}
  BY DEF HostAlone, Owned, Owns
<1>2. Rooted' /\ OwnedAlive' /\ HostAlone'
  BY <1>1, DestroyStep
<1>3. TypeOK'
  BY DEF TypeOK, Destroy
<1>4. Reach' /\ Framed' /\ OnlyPointersDangle'
  BY DEF Reach, Framed, OnlyPointersDangle, Owns
<1> QED BY <1>2, <1>3, <1>4

\* The collector condemns nothing that a root refers to.
LEMMA StartGCStep ==
  ASSUME BridgeInv, StartGC
  PROVE  BridgeInv'
<1> USE DEF BridgeInv, StartGC, cxxVars
<1>1. TypeOK' /\ Reach' /\ OnlyPointersDangle'
  BY DEF TypeOK, Reach, OnlyPointersDangle, Garbage, Roots
<1>2. Rooted'
  BY DEF Rooted, Garbage, Roots
<1>3. Framed'
  BY DEF Framed, Owns, Garbage, Roots, OnStack
<1>4. OwnedAlive' /\ HostAlone'
  BY DEF OwnedAlive, HostAlone, Owned, Owns
<1> QED BY <1>1, <1>2, <1>3, <1>4

\* dtor_callback destroys a native only if this was its last holder.
LEMMA FinalizeStep ==
  ASSUME BridgeInv, NEW w \in Wrappers, Finalize(w)
  PROVE  BridgeInv'
<1> USE DEF BridgeInv, Finalize
<1> DEFINE dead == IF priv[w] # Null /\ priv[w].kind \in Owning
                     THEN Dies(priv[w].obj, <<"wrapper", w>>) ELSE {}
<1>1. dead \in SUBSET Natives
  BY PrivType DEF Dies
<1>2. /\ priv'[w] = Null /\ \A v \in Wrappers \ {w} : priv'[v] = priv[v]
      /\ w \in live /\ live' \subseteq live
  BY DEF TypeOK, Reach
<1>3. \A m \in Natives : Owned(m)' => Owned(m) /\ m \notin dead
  <2> SUFFICES ASSUME NEW m \in Natives, Owned(m)' PROVE Owned(m) /\ m \notin dead
    OBVIOUS
  <2>1. \/ \E v \in live \ {w} : Owns(priv[v], m)
        \/ \E l \in leaked : Owns(l, m)
        \/ \E s \in Slots : slot[s] = m
    BY <1>2 DEF Owned, Owns, TypeOK
  <2>2. ASSUME m \in dead PROVE FALSE
    <3>1. Holders(m) = {<<"wrapper", w>>}
      BY <2>2, DeathIsLast, PrivType DEF Dies
    <3> QED BY <2>1, <3>1, SoleWrapper
  <2> QED BY <2>1, <2>2 DEF Owned
<1>4. dead \cap host = {}
  BY <1>2, PrivType DEF Dies, HostAlone, Owned, Owns
<1>5. Rooted' /\ OwnedAlive' /\ HostAlone'
  <2> HIDE DEF dead
  <2>1. Destroy(dead)
    BY DEF dead
  <2> QED BY <1>1, <1>3, <1>4, <2>1, DestroyStep
<1>6. TypeOK'
  BY DEF TypeOK, Destroy
<1>7. Reach' /\ OnlyPointersDangle'
  BY <1>2 DEF Reach, OnlyPointersDangle, TypeOK
<1>8. Framed'
  BY <1>2 DEF Framed, Owns, TypeOK
<1> QED BY <1>5, <1>6, <1>7, <1>8

\* Steps that change no variable.
LEMMA StutterStep ==
  ASSUME BridgeInv, UNCHANGED vars
  PROVE  BridgeInv'
<1> USE DEF BridgeInv, vars, jsVars, cxxVars
<1>1. TypeOK' /\ Reach' /\ OnlyPointersDangle'
  BY DEF TypeOK, Reach, OnlyPointersDangle
<1>2. Rooted' /\ Framed'
  BY DEF Rooted, Framed, Owns
<1>3. OwnedAlive' /\ HostAlone'
  BY DEF OwnedAlive, HostAlone, Owned, Owns
<1> QED BY <1>1, <1>2, <1>3

\* Every step preserves the invariant.
LEMMA BridgeInvStep ==
  ASSUME BridgeInv, [Next]_vars
  PROVE  BridgeInv'
<1>1. CASE Script
  <2>1. ASSUME NEW w \in Wrappers, NEW n \in Natives, NEW lt \in Kinds,
               Construct(w, n, lt) \/ Attach(w, n, lt)
        PROVE  BridgeInv'
    BY <2>1, ConstructStep
  <2>2. ASSUME NEW w \in Wrappers,
               Reproto(w) \/ Drop(w) \/ UseInvalid(w) \/ Enter(w) \/ GetExternalData(w) \/ GetData(w)
        PROVE  BridgeInv'
    BY <2>2, ReprotoStep, DropStep, UseStep, EnterStep, GetDataStep
  <2>3. ASSUME NEW n \in Natives, NEW v \in Wrappers,
               CreateShared(n, v) \/ \E x \in Wrappers : ReturnCopy(x, n, v)
        PROVE  BridgeInv'
    BY <2>3, BirthStep
  <2>4. ASSUME NEW x \in Wrappers, NEW v \in Wrappers,
               PassPlain(x, v) \/ PassIntrusive(x, v) \/ GetObjref(x, v)
        PROVE  BridgeInv'
    BY <2>4, PointerStep
  <2>5. ASSUME NEW x \in Wrappers, NEW y \in Wrappers \cup {Null}, SetObjref(x, y) \/ SetData(x, y)
        PROVE  BridgeInv'
    BY <2>5, FieldStep
  <2>6. ASSUME NEW s \in Slots, NEW x \in Wrappers, SetShared(s, x) \/ GetShared(s, x)
        PROVE  BridgeInv'
    BY <2>6, SlotStep, GetSharedStep
  <2>7. ASSUME NEW s \in Slots, ClearShared(s)
        PROVE  BridgeInv'
    BY <2>7, SlotStep
  <2> QED BY <1>1, <2>1, <2>2, <2>3, <2>4, <2>5, <2>6, <2>7, ReturnStep DEF Script
<1>2. CASE HostCode
  <2>1. ASSUME NEW n \in Natives, HostNew(n) \/ HostDelete(n) \/ LazyInit(n)
        PROVE  BridgeInv'
    BY <2>1, HostNewStep, HostDeleteStep, LazyInitStep
  <2>2. ASSUME NEW n \in Natives, NEW v \in Wrappers, HostReturn(n, v)
        PROVE  BridgeInv'
    BY <2>2, PointerStep
  <2> QED BY <1>2, <2>1, <2>2 DEF HostCode
<1>3. CASE Collector
  BY <1>3, StartGCStep, FinalizeStep DEF Collector
<1>4. CASE UNCHANGED vars
  BY <1>4, StutterStep
<1> QED BY <1>1, <1>2, <1>3, <1>4 DEF Next

\* The inductive invariant holds in every reachable state.
THEOREM BridgeInvariant == Spec => []BridgeInv
<1> QED BY InitBridgeInv, BridgeInvStep, PTL DEF Spec

-----------------------------------------------------------------------------
(* The properties the runs check.                                          *)

\* Every variable keeps its type.
THEOREM TypeCorrect == Spec => []TypeOK
<1>1. BridgeInv => TypeOK
  BY DEF BridgeInv
<1> QED BY <1>1, BridgeInvariant, PTL

\* A native with an owner exists, and C++ code shares with no lifetime.
THEOREM HeldNativesStayAlive == Spec => []HeldNativesAlive
<1>1. BridgeInv => HeldNativesAlive
  BY OwnedHolders DEF BridgeInv, HeldNativesAlive, OwnedAlive, HostAlone
<1> QED BY <1>1, BridgeInvariant, PTL

\* Calls made through an owner keep their native, whatever the script does.
THEOREM CallsAreSafe == Spec => []CallsKeepTheirNative
<1>1. ASSUME BridgeInv PROVE CallsKeepTheirNative
  <2> SUFFICES ASSUME NEW i \in 1..Len(stack), stack[i].via \in Owning
               PROVE  nst[stack[i].raw] = "alive" /\ Holders(stack[i].raw) # {}
    BY DEF CallsKeepTheirNative
  <2>1. stack[i].raw \in Natives
    <3>1. stack \in Seq(Frame)
      BY <1>1 DEF BridgeInv, TypeOK
    <3>2. stack[i] \in Frame
      BY <3>1
    <3> QED BY <3>2 DEF Frame
  <2>2. Owned(stack[i].raw)
    BY <1>1 DEF BridgeInv, Framed, Owned
  <2> QED BY <1>1, <2>1, <2>2, OwnedHolders DEF BridgeInv, OwnedAlive
<1> QED BY <1>1, BridgeInvariant, PTL

\* "js" and "shared" wrappers never dangle.
THEOREM OnlyPointersEverDangle == Spec => []OnlyPointersDangle
<1>1. BridgeInv => OnlyPointersDangle
  BY DEF BridgeInv
<1> QED BY <1>1, BridgeInvariant, PTL

-----------------------------------------------------------------------------
(* What a step can do to lifetimes and owners: eight kinds of step.        *)

\* No lifetime, no owner and no unique_obj changes.
Quiet == UNCHANGED <<live, priv, leaked, nst, unique, slot, host>>

\* A wrapper is added for a native that exists, or for none; if the native is
\* intrusive and had no wrapper, this one becomes its own.
Wraps(v, l) ==
  /\ NewWrapper(v, l)
  /\ l = Null \/ (l \in Lifetime /\ l.kind # "js")
  /\ UNCHANGED <<nst, slot, host>>
  /\ \/ unique' = unique
     \/ /\ l # Null /\ unique[l.obj] = Null /\ nst[l.obj] = "alive" /\ l.obj \in Intrusive
        /\ unique' = [unique EXCEPT ![l.obj] = v]

\* A native is born together with a wrapper that owns it.
Bears(n, v, k) ==
  /\ nst[n] = "unborn" /\ nst' = [nst EXCEPT ![n] = "alive"]
  /\ NewWrapper(v, [kind |-> k, obj |-> n])
  /\ k = "js" => n \notin Intrusive
  /\ UNCHANGED <<unique, slot, host>>

Attaches(w, n, lt) ==
  /\ Running
  /\ AttachNewNative(w, n, lt)
  /\ live' = live \cup {w}

\* What a step can do to wrappers and natives, whichever action it is.
LEMMA StepKinds ==
  ASSUME BridgeInv, [Next]_vars
  PROVE  \/ Quiet
         \/ \E v \in Wrappers, l \in Lifetime \cup {Null} : Wraps(v, l)
         \/ \E n \in Natives, v \in Wrappers, k \in Owning : Bears(n, v, k)
         \/ \E w \in Wrappers, n \in Natives, lt \in Kinds : Attaches(w, n, lt)
         \/ \E s \in Slots, n \in Natives \cup {Null} : AssignSlot(s, n)
         \/ \E w \in Wrappers : Finalize(w)
         \/ \E n \in Natives : HostNew(n) \/ HostDelete(n)
<1> DEFINE Goal == \/ Quiet
                   \/ \E v \in Wrappers, l \in Lifetime \cup {Null} : Wraps(v, l)
                   \/ \E n \in Natives, v \in Wrappers, k \in Owning : Bears(n, v, k)
                   \/ \E w \in Wrappers, n \in Natives, lt \in Kinds : Attaches(w, n, lt)
                   \/ \E s \in Slots, n \in Natives \cup {Null} : AssignSlot(s, n)
                   \/ \E w \in Wrappers : Finalize(w)
                   \/ \E n \in Natives : HostNew(n) \/ HostDelete(n)
<1>a. \A why, via : Crash(why, via) => Quiet
  BY DEF Crash, Quiet, jsVars, cxxVars
<1>b. ASSUME NEW n \in Natives, NEW v \in Wrappers, WrapPointer(n, v) PROVE Goal
  <2> DEFINE l == [kind |-> "cxx", obj |-> n]
  <2>1. l \in Lifetime /\ l.kind # "js" /\ Wraps(v, l)
    BY <1>b DEF WrapPointer, Wraps, Lifetime, Kinds, cxxVars
  <2> HIDE DEF l
  <2> QED BY <2>1
<1>c. ASSUME NEW n \in Natives \cap Intrusive, NEW v \in Wrappers, WrapIntrusive(n, v) PROVE Goal
  <2>1. CASE /\ nst[n] = "alive" /\ unique[n] = Null
             /\ NewWrapper(v, [kind |-> "cxx", obj |-> n])
             /\ unique' = [unique EXCEPT ![n] = v]
             /\ UNCHANGED <<nst, data, objref, slot, host, fault>>
    <3> DEFINE l == [kind |-> "cxx", obj |-> n]
    <3>1. l \in Lifetime /\ l.kind # "js" /\ l # Null /\ l.obj = n
      BY NullApart DEF Lifetime, Kinds
    <3>2. Wraps(v, l)
      BY <2>1, <3>1 DEF Wraps
    <3> HIDE DEF l
    <3> QED BY <3>1, <3>2
  <2>2. CASE UNCHANGED <<live, doomed, priv, leaked, stack, cxxVars, fault>>
    BY <2>2 DEF Quiet, cxxVars
  <2> QED BY <1>a, <1>c, <2>1, <2>2 DEF WrapIntrusive
<1>1. ASSUME NEW w \in Wrappers, NEW n \in Natives, NEW lt \in Kinds,
             Construct(w, n, lt) \/ Attach(w, n, lt)
      PROVE  Goal
  <2>1. Attaches(w, n, lt)
    BY <1>1 DEF Construct, Attach, Attaches, BridgeInv, Reach
  <2> QED BY <2>1
<1>2. ASSUME NEW w \in Wrappers, Reproto(w) PROVE Goal
  <2>1. Wraps(w, Null)
    BY <1>2 DEF Reproto, Wraps, cxxVars
  <2> QED BY <2>1
<1>3. ASSUME NEW w \in Wrappers,
             Drop(w) \/ UseInvalid(w) \/ Enter(w) \/ GetExternalData(w) \/ GetData(w)
      PROVE  Goal
  BY <1>3, <1>a DEF Drop, UseInvalid, Enter, GetExternalData, GetData, Quiet, cxxVars
<1>4. ASSUME NEW n \in Natives, NEW v \in Wrappers,
             CreateShared(n, v) \/ \E x \in Wrappers : ReturnCopy(x, n, v)
      PROVE  Goal
  <2>1. CASE CreateShared(n, v)
    BY <2>1 DEF CreateShared, Bears, Owning
  <2>2. CASE \E x \in Wrappers : ReturnCopy(x, n, v)
    BY <2>2 DEF ReturnCopy, Bears, Owning
  <2> QED BY <1>4, <2>1, <2>2
<1>5. ASSUME NEW x \in Wrappers, NEW v \in Wrappers,
             PassPlain(x, v) \/ PassIntrusive(x, v) \/ GetObjref(x, v)
      PROVE  Goal
  <2>1. priv[x] # Null /\ priv[x].obj \in Natives
    BY <1>5, PrivType DEF PassPlain, PassIntrusive, GetObjref, Usable, BridgeInv
  <2>2. CASE GetObjref(x, v)
    <3>1. objref[priv[x].obj] \in Natives
      BY <2>1, <2>2 DEF GetObjref, BridgeInv, TypeOK
    <3> QED BY <2>2, <3>1, <1>b, <1>c DEF GetObjref, Wrap
  <2> QED BY <1>5, <2>1, <2>2, <1>b, <1>c DEF PassPlain, PassIntrusive
<1>6. ASSUME NEW x \in Wrappers, NEW y \in Wrappers \cup {Null}, SetObjref(x, y) \/ SetData(x, y)
      PROVE  Goal
  BY <1>6 DEF SetObjref, SetData, Quiet, jsVars
<1>7. ASSUME NEW s \in Slots, NEW x \in Wrappers, SetShared(s, x) PROVE Goal
  BY <1>7, <1>a, PrivType DEF SetShared, BridgeInv
<1>8. ASSUME NEW s \in Slots, NEW x \in Wrappers, GetShared(s, x) PROVE Goal
  <2> DEFINE l == [kind |-> "shared", obj |-> slot[s]]
  <2>1. l \in Lifetime /\ l.kind # "js" /\ Wraps(x, l)
    BY <1>8 DEF GetShared, Wraps, Lifetime, Kinds, cxxVars, BridgeInv, TypeOK
  <2> HIDE DEF l
  <2> QED BY <2>1
<1>9. ASSUME NEW s \in Slots, ClearShared(s) PROVE Goal
  BY <1>9 DEF ClearShared
<1>10. ASSUME Return PROVE Goal
  BY <1>10, <1>a DEF Return, Quiet, cxxVars
<1>11. ASSUME NEW n \in Natives, HostNew(n) \/ HostDelete(n) \/ LazyInit(n) PROVE Goal
  BY <1>11, <1>a DEF LazyInit
<1>12. ASSUME NEW n \in Natives, NEW v \in Wrappers, HostReturn(n, v) PROVE Goal
  BY <1>12, <1>b, <1>c DEF HostReturn, Wrap
<1>13. CASE Collector
  BY <1>13 DEF Collector, StartGC, Quiet, cxxVars
<1>14. CASE UNCHANGED vars
  BY <1>14 DEF Quiet, vars, jsVars, cxxVars
<1>15. ASSUME Script PROVE Goal
  <2> HIDE DEF Goal
  <2> QED BY <1>15, <1>1, <1>2, <1>3, <1>4, <1>5, <1>6, <1>7, <1>8, <1>9, <1>10 DEF Script
<1>16. ASSUME HostCode PROVE Goal
  <2> HIDE DEF Goal
  <2> QED BY <1>16, <1>11, <1>12 DEF HostCode
<1> QED BY <1>13, <1>14, <1>15, <1>16 DEF Next

-----------------------------------------------------------------------------
(* Identity of intrusive objects.                                          *)

\* The private slot of an object in use is kept, filled, or displaced.
LEMMA PrivStep ==
  ASSUME BridgeInv, [Next]_vars
  PROVE  /\ leaked \subseteq leaked'
         /\ \A w \in live \ doomed :
              priv'[w] = priv[w] \/ priv[w] = Null \/ priv[w] \in leaked'
<1> USE DEF BridgeInv
<1>1. CASE Quiet
  BY <1>1 DEF Quiet
<1>2. ASSUME NEW v \in Wrappers, NEW l, NewWrapper(v, l)
      PROVE  leaked' = leaked /\ \A w \in live \ doomed : priv'[w] = priv[w]
  BY <1>2 DEF NewWrapper, TypeOK
<1>3. ASSUME NEW w \in Wrappers, NEW n \in Natives, NEW lt \in Kinds, Attaches(w, n, lt)
      PROVE  /\ leaked \subseteq leaked'
             /\ \A v \in live \ doomed :
                  priv'[v] = priv[v] \/ priv[v] = Null \/ priv[v] \in leaked'
  BY <1>3 DEF Attaches, AttachNewNative, Displaced, TypeOK
<1>4. ASSUME NEW s \in Slots, NEW n \in Natives \cup {Null}, AssignSlot(s, n)
      PROVE  leaked' = leaked /\ priv' = priv
  BY <1>4 DEF AssignSlot, jsVars
<1>5. ASSUME NEW w \in Wrappers, Finalize(w)
      PROVE  leaked' = leaked /\ \A v \in live \ doomed : priv'[v] = priv[v]
  BY <1>5 DEF Finalize, TypeOK
<1>6. ASSUME NEW n \in Natives, HostNew(n) \/ HostDelete(n)
      PROVE  leaked' = leaked /\ priv' = priv
  BY <1>6 DEF HostNew, HostDelete, jsVars
<1> QED BY StepKinds, <1>1, <1>2, <1>3, <1>4, <1>5, <1>6 DEF Wraps, Bears

\* unique_obj changes by being set to a new wrapper of the native, or by the
\* death of the native.
LEMMA UniqueStep ==
  ASSUME BridgeInv, [Next]_vars, NEW n \in Natives, unique'[n] # unique[n]
  PROVE  \/ /\ nst'[n] = "alive" /\ unique[n] = Null /\ n \in Intrusive
            /\ priv'[unique'[n]] \in Lifetime /\ priv'[unique'[n]].obj = n
         \/ nst[n] = "alive" /\ nst'[n] = "dead" /\ unique'[n] = Null
<1> DEFINE Goal == \/ /\ nst'[n] = "alive" /\ unique[n] = Null /\ n \in Intrusive
                      /\ priv'[unique'[n]] \in Lifetime /\ priv'[unique'[n]].obj = n
                   \/ nst[n] = "alive" /\ nst'[n] = "dead" /\ unique'[n] = Null
<1>1. ASSUME NEW v \in Wrappers, NEW l \in Lifetime \cup {Null}, Wraps(v, l) PROVE Goal
  <2>1. l # Null /\ unique[l.obj] = Null /\ nst[l.obj] = "alive" /\ l.obj \in Intrusive
          /\ unique' = [unique EXCEPT ![l.obj] = v]
    BY <1>1 DEF Wraps
  <2>2. l.obj = n /\ unique'[n] = v /\ priv'[v] = l
    BY <1>1, <2>1 DEF Wraps, NewWrapper, BridgeInv, TypeOK
  <2> QED BY <1>1, <2>1, <2>2 DEF Wraps
<1>2. ASSUME NEW w \in Wrappers, NEW m \in Natives, NEW lt \in Kinds, Attaches(w, m, lt) PROVE Goal
  <2>1. n = m /\ unique'[n] = w /\ n \in Intrusive
    BY <1>2 DEF Attaches, AttachNewNative, Addon, BridgeInv, TypeOK
  <2>2. priv'[w] = [kind |-> lt, obj |-> n] /\ nst'[n] = "alive" /\ nst[n] = "unborn"
    BY <1>2, <2>1 DEF Attaches, AttachNewNative, BridgeInv, TypeOK
  <2>3. unique[n] = Null
    BY <2>2 DEF BridgeInv, Rooted
  <2> QED BY <2>1, <2>2, <2>3 DEF Lifetime
<1>3. ASSUME NEW dead, Destroy(dead) PROVE Goal
  BY <1>3 DEF Destroy, BridgeInv, Rooted
<1>4. ASSUME Quiet \/ \E m \in Natives, v \in Wrappers, k \in Owning : Bears(m, v, k) PROVE FALSE
  BY <1>4 DEF Quiet, Bears
<1>5. ASSUME \E s \in Slots, m \in Natives \cup {Null} : AssignSlot(s, m) PROVE Goal
  BY <1>5, <1>3 DEF AssignSlot
<1>6. ASSUME \E w \in Wrappers : Finalize(w) PROVE Goal
  BY <1>6, <1>3 DEF Finalize
<1>7. ASSUME NEW m \in Natives, HostNew(m) \/ HostDelete(m) PROVE Goal
  BY <1>7, <1>3 DEF HostNew, HostDelete
<1> HIDE DEF Goal
<1>8. Goal
  BY StepKinds, <1>1, <1>2, <1>4, <1>5, <1>6, <1>7
<1> QED BY <1>8 DEF Goal

\* Only a constructor or attachNew builds an intrusive native for the script,
\* and it tells the native its wrapper.
LEMMA ScriptBuiltStep ==
  ASSUME BridgeInv, [Next]_vars, NEW n \in Intrusive,
         NEW w \in live', priv'[w] = [kind |-> "js", obj |-> n]
  PROVE  (w \in live /\ priv[w] = priv'[w]) \/ unique'[n] = w
<1> USE DEF BridgeInv
<1> DEFINE Goal == (w \in live /\ priv[w] = priv'[w]) \/ unique'[n] = w
<1>0. n \in Natives /\ Null # priv'[w]
  BY BridgeAssumption DEF Lifetime, Kinds
<1>1. ASSUME NEW v \in Wrappers, NEW l \in Lifetime \cup {Null}, Wraps(v, l) PROVE Goal
  BY <1>0, <1>1 DEF Wraps, NewWrapper, TypeOK
<1>2. ASSUME NEW m \in Natives, NEW v \in Wrappers, NEW k \in Owning, Bears(m, v, k) PROVE Goal
  <2>1. CASE w = v
    <3>1. priv'[w] = [kind |-> k, obj |-> m]
      BY <1>2, <2>1 DEF Bears, NewWrapper, TypeOK
    <3>2. k = "js" /\ m = n
      BY <3>1
    <3> QED BY <1>2, <3>2 DEF Bears
  <2>2. CASE w # v
    BY <1>2, <2>2 DEF Bears, NewWrapper, TypeOK
  <2> QED BY <2>1, <2>2
<1>3. ASSUME NEW v \in Wrappers, NEW m \in Natives, NEW lt \in Kinds, Attaches(v, m, lt) PROVE Goal
  <2>1. CASE w = v
    <3>1. priv'[w] = [kind |-> lt, obj |-> m]
      BY <1>3, <2>1 DEF Attaches, AttachNewNative, TypeOK
    <3>2. m = n
      BY <3>1
    <3> QED BY <1>3, <2>1, <3>2 DEF Attaches, AttachNewNative, Addon, TypeOK
  <2>2. CASE w # v
    BY <1>3, <2>2 DEF Attaches, AttachNewNative, TypeOK
  <2> QED BY <2>1, <2>2
<1>4. ASSUME NEW v \in Wrappers, Finalize(v) PROVE Goal
  BY <1>0, <1>4 DEF Finalize, TypeOK
<1>5. CASE live' = live /\ priv' = priv
  BY <1>5
<1> HIDE DEF Goal
<1>6. Goal
  BY StepKinds, <1>1, <1>2, <1>3, <1>4, <1>5
     DEF Quiet, AssignSlot, HostNew, HostDelete, jsVars, Goal
<1> QED BY <1>6 DEF Goal

\* Only an intrusive native has a wrapper of its own; it leads back, or a
\* lifetime of the native was displaced.
UniqueTraced ==
  \A n \in Natives : unique[n] # Null =>
    /\ n \in Intrusive
    /\ LeadsBack(n) \/ \E l \in leaked : l.obj = n

\* What is inductive about identity, on top of BridgeInv.
IdentityInv == UniqueTraced /\ ScriptBuiltIsInitialized

\* Every step preserves the identity of intrusive objects.
LEMMA IdentityInvStep ==
  ASSUME BridgeInv, IdentityInv, [Next]_vars
  PROVE  IdentityInv'
<1>0. BridgeInv'
  BY BridgeInvStep
<1>1. UniqueTraced'
  <2> SUFFICES ASSUME NEW n \in Natives, unique'[n] # Null
               PROVE  /\ n \in Intrusive
                      /\ \/ priv'[unique'[n]] # Null /\ priv'[unique'[n]].obj = n
                         \/ \E l \in leaked' : l.obj = n
    BY DEF UniqueTraced, LeadsBack
  <2>1. CASE unique'[n] # unique[n]
    BY <2>1, UniqueStep, NullApart
  <2>2. CASE unique'[n] = unique[n]
    <3>1. unique[n] \in live \ doomed
      BY <2>2 DEF BridgeInv, Rooted
    <3>2. /\ n \in Intrusive
          /\ \/ priv[unique[n]] # Null /\ priv[unique[n]].obj = n
             \/ \E l \in leaked : l.obj = n
      BY <2>2 DEF IdentityInv, UniqueTraced, LeadsBack
    <3> QED BY <2>2, <3>1, <3>2, PrivStep
  <2> QED BY <2>1, <2>2
<1>2. ScriptBuiltIsInitialized'
  <2> SUFFICES ASSUME NEW n \in Intrusive, NEW w \in live', priv'[w] = [kind |-> "js", obj |-> n]
               PROVE  unique'[n] = w
    BY DEF ScriptBuiltIsInitialized, BuiltFor
  <2>1. n \in Natives /\ w \in Wrappers
    BY <1>0, BridgeAssumption DEF BridgeInv, TypeOK
  <2>2. CASE w \in live /\ priv[w] = priv'[w]
    <3>1. unique[n] = w /\ w # Null
      BY <2>1, <2>2, NullApart DEF IdentityInv, ScriptBuiltIsInitialized, BuiltFor
    <3>2. nst'[n] = "alive"
      <4>1. Owned(n)'
        BY NullApart, <2>1 DEF Owned, Owns, Owning, Lifetime, Kinds
      <4> QED BY <1>0, <2>1, <4>1 DEF BridgeInv, OwnedAlive
    <3> QED BY <2>1, <3>1, <3>2, UniqueStep
  <2> QED BY <2>2, ScriptBuiltStep
<1> QED BY <1>1, <1>2 DEF IdentityInv

\* At the start there is no intrusive object.
LEMMA InitIdentityInv == Init => IdentityInv
BY DEF Init, IdentityInv, UniqueTraced, ScriptBuiltIsInitialized, BuiltFor

\* The wrapper of an intrusive native is its own, in every reachable state
\* (ctor_addon_intrusive and micro_caster_ptr<T, true>::tojs).
THEOREM IdentityInvariant == Spec => []IdentityInv
<1> QED BY InitIdentityInv, IdentityInvStep, BridgeInvariant, PTL DEF Spec

\* The assertion of get_intrusive_object never fails for a "js" wrapper.
THEOREM ScriptBuiltAlwaysInitialized == Spec => []ScriptBuiltIsInitialized
<1>1. IdentityInv => ScriptBuiltIsInitialized
  BY DEF IdentityInv
<1> QED BY <1>1, IdentityInvariant, PTL

\* An intrusive object keeps one identity for as long as it exists.
THEOREM IdentityNeverChanges == Spec => IdentityIsStable
<1>1. ASSUME BridgeInv, [Next]_vars
      PROVE  [\A n \in Natives : unique'[n] # unique[n] =>
                \/ nst'[n] = "alive" /\ unique[n] = Null
                \/ nst[n] = "alive" /\ nst'[n] = "dead"]_vars
  BY <1>1, UniqueStep
<1> QED BY <1>1, BridgeInvariant, PTL DEF Spec, IdentityIsStable

\* Only get_intrusive_object asserts.
LEMMA AssertStep ==
  ASSUME [Next]_vars, fault'.why = "assert"
  PROVE  fault' = fault \/ \E x \in Wrappers : GetExternalData(x)
<1> DEFINE Goal == fault' = fault \/ \E x \in Wrappers : GetExternalData(x)
<1> SUFFICES Goal
  OBVIOUS
<1>1. ASSUME NEW why, why # "assert", NEW via, Crash(why, via) PROVE FALSE
  BY <1>1 DEF Crash
<1>2. ASSUME NEW n, NEW v, WrapPointer(n, v) \/ WrapIntrusive(n, v) PROVE Goal
  BY <1>1, <1>2 DEF WrapPointer, WrapIntrusive, cxxVars
<1>3. ASSUME NEW s, NEW m, AssignSlot(s, m) PROVE Goal
  BY <1>3 DEF AssignSlot
<1>4. CASE \E w \in Wrappers, n \in Natives, lt \in Kinds : Construct(w, n, lt) \/ Attach(w, n, lt)
  BY <1>4 DEF Construct, Attach, AttachNewNative
<1>5. ASSUME NEW w \in Wrappers,
             Reproto(w) \/ Drop(w) \/ UseInvalid(w) \/ Enter(w) \/ GetExternalData(w) \/ GetData(w)
      PROVE  Goal
  BY <1>1, <1>5 DEF Reproto, Drop, UseInvalid, Enter, GetData, cxxVars
<1>6. CASE \/ \E x \in Wrappers, n \in Natives, v \in Wrappers : ReturnCopy(x, n, v)
           \/ \E n \in Natives, v \in Wrappers : CreateShared(n, v)
           \/ \E x \in Wrappers, y \in Wrappers \cup {Null} : SetObjref(x, y) \/ SetData(x, y)
  BY <1>6 DEF ReturnCopy, CreateShared, SetObjref, SetData
<1>7. CASE \E x, v \in Wrappers : PassPlain(x, v) \/ PassIntrusive(x, v) \/ GetObjref(x, v)
  BY <1>2, <1>7 DEF PassPlain, PassIntrusive, GetObjref, Wrap
<1>8. CASE \/ \E s \in Slots, x \in Wrappers : SetShared(s, x) \/ GetShared(s, x)
           \/ \E s \in Slots : ClearShared(s)
  BY <1>1, <1>3, <1>8 DEF SetShared, GetShared, ClearShared, cxxVars
<1>9. CASE Return
  BY <1>1, <1>9 DEF Return, cxxVars
<1>10. CASE HostCode
  BY <1>1, <1>2, <1>10 DEF HostCode, HostNew, HostDelete, HostReturn, Wrap, LazyInit
<1>11. CASE Collector \/ UNCHANGED vars
  BY <1>11 DEF Collector, StartGC, Finalize, vars, cxxVars
<1> HIDE DEF Goal
<1>12. ASSUME Script PROVE Goal
  BY <1>12, <1>4, <1>5, <1>6, <1>7, <1>8, <1>9 DEF Script
<1> QED BY <1>10, <1>11, <1>12 DEF Next

\* assert(wrap.inited()) fails only for natives that came from C++.
THEOREM AssertionsHoldForScriptBuilt == Spec => []AssertionFailsOnlyForWrapped
<1>1. Init => AssertionFailsOnlyForWrapped
  BY DEF Init, AssertionFailsOnlyForWrapped, NoFault
<1>2. ASSUME BridgeInv, IdentityInv, AssertionFailsOnlyForWrapped, [Next]_vars
      PROVE  AssertionFailsOnlyForWrapped'
  <2> SUFFICES ASSUME fault'.why = "assert", fault'.via = "js", NEW x \in Wrappers, GetExternalData(x)
               PROVE  FALSE
    BY <1>2, AssertStep DEF AssertionFailsOnlyForWrapped
  <2> DEFINE n == priv[x].obj
  <2>1. x \in live /\ x # Null
    BY <1>2, NullApart DEF GetExternalData, BridgeInv, Reach
  <2>2. priv[x] \in Lifetime /\ n \in Intrusive /\ unique[n] = Null
    BY <1>2 DEF GetExternalData, Usable, BridgeInv, TypeOK
  <2>3. priv[x].kind = "js"
    BY DEF GetExternalData, Crash
  <2>4. BuiltFor(x, n)
    BY <2>2, <2>3 DEF BuiltFor, Lifetime
  <2> QED BY <1>2, <2>1, <2>2, <2>4 DEF IdentityInv, ScriptBuiltIsInitialized
<1> QED BY <1>1, <1>2, BridgeInvariant, IdentityInvariant, PTL DEF Spec

-----------------------------------------------------------------------------
(* Intrusive objects are never destroyed.                                  *)

\* A self-rooted native exists, and its wrapper is not condemned.
LEMMA SelfRootedHolds ==
  ASSUME BridgeInv, NEW n \in Natives, SelfRooted(n)
  PROVE  nst[n] = "alive" /\ unique[n] \in live \ doomed /\ Owned(n)
BY DEF BridgeInv, Rooted, SelfRooted, Owned

\* What is not condemned is not finalized.
LEMMA LiveStep ==
  ASSUME BridgeInv, [Next]_vars, NEW w \in live \ doomed
  PROVE  w \in live'
<1>1. ASSUME NEW v \in Wrappers, Finalize(v) PROVE w \in live'
  BY <1>1 DEF Finalize
<1>2. ASSUME live \subseteq live' PROVE w \in live'
  BY <1>2
<1> QED BY StepKinds, <1>1, <1>2
     DEF Quiet, Wraps, Bears, NewWrapper, Attaches, AssignSlot, HostNew, HostDelete, jsVars

\* The only step that could end it is the finalizer of the wrapper it roots,
\* which no collection takes.
LEMMA SelfRootedStep ==
  ASSUME BridgeInv, [Next]_vars, NEW n \in Natives, SelfRooted(n)
  PROVE  nst'[n] = "alive" /\ SelfRooted(n)'
<1> DEFINE w == unique[n]
<1>0. BridgeInv'
  BY BridgeInvStep
<1>1. nst[n] = "alive" /\ w \in live \ doomed /\ w # Null
  BY SelfRootedHolds DEF SelfRooted
<1>2. leaked \subseteq leaked' /\ (priv'[w] = priv[w] \/ priv[w] = Null \/ priv[w] \in leaked')
  BY <1>1, PrivStep
<1>3. Owns(priv'[w], n) \/ \E l \in leaked' : Owns(l, n)
  BY <1>2 DEF SelfRooted, Owns
<1>4. w \in live'
  BY <1>1, LiveStep
<1>5. nst'[n] = "alive"
  <2>1. Owned(n)'
    BY <1>3, <1>4 DEF Owned
  <2> QED BY <1>0, <2>1 DEF BridgeInv, OwnedAlive
<1>6. unique'[n] = w
  BY <1>1, <1>5, UniqueStep
<1> QED BY <1>1, <1>3, <1>5, <1>6 DEF SelfRooted

\* A native that roots the wrapper that owns it never dies, whatever script,
\* embedding code and collector do (intrusive_object_base::unique_obj is a
\* member of what it keeps alive).
THEOREM SelfRootedNativesNeverDie == Spec => SelfRootedNeverDie
<1>1. ASSUME BridgeInv, [Next]_vars
      PROVE  [\A n \in Natives : SelfRooted(n) => nst'[n] = "alive" /\ SelfRooted(n)']_vars
  BY <1>1, SelfRootedStep
<1> QED BY <1>1, BridgeInvariant, PTL DEF Spec, SelfRootedNeverDie

\* What a PersistentRootedValue holds changes with its assignment, with the
\* birth of a copy, and with the death of its native.
LEMMA DataStep ==
  ASSUME BridgeInv, [Next]_vars, NEW n \in Natives, data'[n] # data[n]
  PROVE  Running \/ nst'[n] # "alive"
<1> DEFINE Goal == Running \/ nst'[n] # "alive"
<1> SUFFICES Goal
  OBVIOUS
<1>1. ASSUME Script \/ HostCode PROVE Running
  BY <1>1 DEF Script, HostCode, Construct, Attach, Reproto, Drop, UseInvalid, Enter,
     GetExternalData, ReturnCopy, PassPlain, PassIntrusive, GetObjref, SetObjref, SetData,
     GetData, CreateShared, SetShared, GetShared, ClearShared, Return, HostNew, HostDelete,
     LazyInit, HostReturn
<1>2. ASSUME Collector PROVE Goal
  <2>1. PICK w \in Wrappers : Finalize(w)
    BY <1>2 DEF Collector, StartGC, cxxVars
  <2> QED BY <2>1 DEF Finalize, Destroy, BridgeInv, TypeOK
<1>3. CASE UNCHANGED vars
  BY <1>3 DEF vars, cxxVars
<1> HIDE DEF Goal
<1> QED BY <1>1, <1>2, <1>3 DEF Next, Goal

\* As for unique_obj: no finalizer takes the wrapper that the value holds.
LEMMA PinnedStep ==
  ASSUME BridgeInv, [Next]_vars, NEW n \in Natives, Pinned(n)
  PROVE  nst'[n] = "alive" /\ (Pinned(n)' \/ (Running /\ data'[n] # data[n]))
<1> DEFINE w == data[n]
<1>0. BridgeInv'
  BY BridgeInvStep
<1>1. w \in live \ doomed /\ w # Null
  BY DEF Pinned, BridgeInv, Rooted
<1>2. leaked \subseteq leaked' /\ (priv'[w] = priv[w] \/ priv[w] = Null \/ priv[w] \in leaked')
  BY <1>1, PrivStep
<1>3. Owns(priv'[w], n) \/ \E l \in leaked' : Owns(l, n)
  BY <1>2 DEF Pinned, Owns
<1>4. w \in live'
  BY <1>1, LiveStep
<1>5. nst'[n] = "alive"
  <2>1. Owned(n)'
    BY <1>3, <1>4 DEF Owned
  <2> QED BY <1>0, <2>1 DEF BridgeInv, OwnedAlive
<1> QED BY <1>1, <1>3, <1>5, DataStep DEF Pinned

\* A native that its own PersistentRootedValue keeps, through the wrapper that
\* owns it, exists until the script assigns the value.
THEOREM PinnedNativesStay == Spec => PinnedUntilAssigned
<1>1. ASSUME BridgeInv, [Next]_vars
      PROVE  [\A n \in Natives : Pinned(n) =>
                /\ nst'[n] = "alive"
                /\ Pinned(n)' \/ (Running /\ data'[n] # data[n])]_vars
  BY <1>1, PinnedStep
<1> QED BY <1>1, BridgeInvariant, PTL DEF Spec, PinnedUntilAssigned

\* An intrusive object that the script constructs exists from then on, in
\* every behaviour: what tests/test_intrusive_obj.js creates, drops and
\* collects in a loop is never reclaimed.
THEOREM ScriptBuiltIntrusiveLiveForever ==
  ASSUME NEW n \in Intrusive, NEW w \in Wrappers
  PROVE  Spec => [](BuiltFor(w, n) => [](nst[n] = "alive"))
<1>0. n \in Natives
  BY BridgeAssumption
<1>1. BridgeInv /\ IdentityInv /\ BuiltFor(w, n) => SelfRooted(n)
  <2> SUFFICES ASSUME BridgeInv, IdentityInv, BuiltFor(w, n) PROVE SelfRooted(n)
    OBVIOUS
  <2>1. Owns(priv[w], n) /\ w # Null
    BY <1>0, NullApart DEF BuiltFor, Owns, Owning, Lifetime, Kinds
  <2>2. w \in live
    BY <2>1 DEF Owns, BridgeInv, Reach
  <2>3. unique[n] = w
    BY <2>2 DEF IdentityInv, ScriptBuiltIsInitialized
  <2> QED BY <2>1, <2>3 DEF SelfRooted
<1>2. BridgeInv /\ SelfRooted(n) /\ [Next]_vars => SelfRooted(n)'
  BY <1>0, SelfRootedStep
<1>3. BridgeInv /\ SelfRooted(n) => nst[n] = "alive"
  BY <1>0, SelfRootedHolds
<1> QED BY <1>1, <1>2, <1>3, BridgeInvariant, IdentityInvariant, PTL DEF Spec

-----------------------------------------------------------------------------
(* The bridge implements Ownership.                                        *)

\* A native loses its last holder in the step that destroys it: the others
\* keep an owner.
LEMMA DyingStep ==
  ASSUME BridgeInv, Accounted, NEW m \in Natives, NEW h, NEW n \in Natives,
         Holders(m) \ {h} \subseteq Holders(m)', Destroy(Dies(m, h)),
         nst'[n] = "alive", n = m, n \notin host
  PROVE  Owned(n)'
<1>1. nst[n] = "alive" /\ n \notin Dies(m, h)
  BY DEF Destroy, BridgeInv, TypeOK
<1>2. Holders(n) # {} /\ Holders(n) # {h}
  BY <1>1, OwnedHolders DEF Dies, Accounted
<1>3. PICK g \in Holders(n) : g # h
  BY <1>2
<1>4. Holders(n)' # {}
  BY <1>3
<1> QED BY <1>4 DEF Holders, Owned

\* Every step leaves each native that exists with an owner.
LEMMA AccountedStep ==
  ASSUME BridgeInv, Accounted, [Next]_vars
  PROVE  Accounted'
<1> SUFFICES ASSUME NEW n \in Natives, nst'[n] = "alive"
             PROVE  Owned(n)' \/ n \in host'
  BY DEF Accounted
<1> USE DEF BridgeInv
<1> DEFINE Goal == Owned(n)' \/ n \in host'
<1>1. CASE Quiet
  BY <1>1 DEF Quiet, Accounted, Owned, Owns
<1>2. ASSUME NEW v \in Wrappers, NEW l \in Lifetime \cup {Null}, Wraps(v, l) PROVE Goal
  <2>1. Owned(n) => Owned(n)'
    BY <1>2 DEF Wraps, NewWrapper, Owned, Owns, TypeOK, Reach
  <2> QED BY <1>2, <2>1 DEF Wraps, Accounted
<1>3. ASSUME NEW m \in Natives, NEW v \in Wrappers, NEW k \in Owning, Bears(m, v, k) PROVE Goal
  <2>1. Owned(n) => Owned(n)'
    BY <1>3 DEF Bears, NewWrapper, Owned, Owns, TypeOK, Reach
  <2>2. CASE n = m
    <3>1. v \in live' /\ priv'[v] = [kind |-> k, obj |-> n]
      BY <1>3, <2>2 DEF Bears, NewWrapper, TypeOK
    <3>2. Owns(priv'[v], n)
      <4>1. [kind |-> k, obj |-> n] # Null
        BY NullApart DEF Lifetime, Kinds, Owning
      <4> QED BY <3>1, <4>1 DEF Owns
    <3> QED BY <3>1, <3>2 DEF Owned, Owns
  <2>3. CASE n # m
    BY <1>3, <2>1, <2>3 DEF Bears, Accounted, TypeOK
  <2> QED BY <2>2, <2>3
<1>4. ASSUME NEW w \in Wrappers, NEW m \in Natives, NEW lt \in Kinds, Attaches(w, m, lt) PROVE Goal
  <2> USE <1>4 DEF Attaches, AttachNewNative
  <2>1. CASE n = m
    <3>1. CASE lt = "cxx"
      BY <2>1, <3>1
    <3>2. CASE lt \in Owning
      <4>1. w \in live' /\ priv'[w] = [kind |-> lt, obj |-> n]
        BY <2>1 DEF TypeOK
      <4>2. [kind |-> lt, obj |-> n] # Null
        BY NullApart DEF Lifetime
      <4>3. Owns(priv'[w], n)
        BY <3>2, <4>1, <4>2 DEF Owns
      <4> QED BY <4>1, <4>3 DEF Owned, Owns
    <3> QED BY <3>1, <3>2 DEF Kinds, Owning
  <2>2. CASE n # m
    <3>1. nst[n] = "alive"
      BY <2>2 DEF TypeOK
    <3>2. CASE \E v \in live : Owns(priv[v], n)
      <4>1. PICK v \in live : Owns(priv[v], n)
        BY <3>2
      <4>2. CASE v = w
        BY <4>1, <4>2 DEF Owned, Owns, Displaced
      <4>3. CASE v # w
        BY <4>1, <4>3 DEF Owned, Owns, TypeOK
      <4> QED BY <4>2, <4>3
    <3>3. CASE \/ \E l \in leaked : Owns(l, n)
               \/ \E s \in Slots : slot[s] = n
               \/ n \in host
      BY <3>3 DEF Owned, Owns
    <3> QED BY <3>1, <3>2, <3>3 DEF Accounted, Owned
  <2> QED BY <2>1, <2>2
<1>5. ASSUME NEW s \in Slots, NEW m \in Natives \cup {Null}, AssignSlot(s, m) PROVE Goal
  <2> USE <1>5 DEF AssignSlot, jsVars
  <2>1. nst[n] = "alive"
    BY DEF Destroy, TypeOK
  <2>2. CASE n = slot[s] /\ n # m /\ n \notin host
    <3>1. Destroy(Dies(n, <<"slot", s>>))
      BY <2>2, NullApart
    <3>2. Holders(n) \ {<<"slot", s>>} \subseteq Holders(n)'
      BY DEF Holders, Owns, TypeOK
    <3> QED BY <2>2, <3>1, <3>2, DyingStep
  <2>3. CASE n # slot[s] \/ n = m
    BY <2>1, <2>3, NullApart DEF Accounted, Owned, Owns, TypeOK
  <2> QED BY <2>2, <2>3
<1>6. ASSUME NEW w \in Wrappers, Finalize(w) PROVE Goal
  <2> USE <1>6 DEF Finalize
  <2>1. nst[n] = "alive"
    BY DEF Destroy, TypeOK
  <2>2. CASE Owns(priv[w], n) /\ n \notin host
    <3>1. Destroy(Dies(n, <<"wrapper", w>>))
      BY <2>2 DEF Owns
    <3>2. Holders(n) \ {<<"wrapper", w>>} \subseteq Holders(n)'
      BY DEF Holders, Owns, TypeOK
    <3> QED BY <2>2, <3>1, <3>2, DyingStep
  <2>3. CASE ~Owns(priv[w], n)
    BY <2>1, <2>3 DEF Accounted, Owned, Owns, TypeOK
  <2> QED BY <2>2, <2>3
<1>7. ASSUME NEW m \in Natives, HostNew(m) \/ HostDelete(m) PROVE Goal
  <2>1. Owned(n) => Owned(n)'
    BY <1>7 DEF HostNew, HostDelete, jsVars, Owned, Owns
  <2> QED BY <1>7, <2>1 DEF HostNew, HostDelete, Destroy, Accounted, TypeOK
<1> HIDE DEF Goal
<1>8. Goal
  BY StepKinds, <1>1, <1>2, <1>3, <1>4, <1>5, <1>6, <1>7 DEF Goal
<1> QED BY <1>8 DEF Goal

\* A native is born once, and dies of the loss of its only owner.
LEMMA LifeStep ==
  ASSUME BridgeInv, [Next]_vars, NEW n \in Natives, nst'[n] # nst[n]
  PROVE  \/ nst[n] = "unborn" /\ nst'[n] = "alive"
         \/ /\ nst[n] = "alive" /\ nst'[n] = "dead"
            /\ \E o \in HolderKind \X (Wrappers \cup Lifetime \cup Slots \cup Natives) : Owners[n] = {o}
<1> USE DEF BridgeInv
<1> DEFINE Tag == HolderKind \X (Wrappers \cup Lifetime \cup Slots \cup Natives)
           Ends == nst[n] = "alive" /\ nst'[n] = "dead" /\ \E o \in Tag : Owners[n] = {o}
           Goal == (nst[n] = "unborn" /\ nst'[n] = "alive") \/ Ends
<1>1. ASSUME NEW m \in Natives, NEW h \in Tag, Destroy(Dies(m, h)) PROVE Ends
  <2>1. n \in Dies(m, h) /\ nst'[n] = "dead"
    BY <1>1 DEF Destroy, TypeOK
  <2>2. m = n /\ Holders(n) = {h}
    BY <2>1, DeathIsLast
  <2>3. nst[n] = "alive" /\ n \notin host
    BY <2>2, OwnedHolders DEF OwnedAlive, HostAlone
  <2>4. Owners[n] = {h}
    BY <2>2, <2>3 DEF Owners
  <2> QED BY <2>1, <2>3, <2>4
<1>2. ASSUME Destroy({}) PROVE FALSE
  BY <1>2 DEF Destroy, TypeOK
<1>3. ASSUME NEW s \in Slots, NEW m \in Natives \cup {Null}, AssignSlot(s, m) PROVE Goal
  <2>1. <<"slot", s>> \in Tag
    BY DEF HolderKind
  <2>2. slot[s] \in Natives /\ Destroy(Dies(slot[s], <<"slot", s>>))
    BY <1>2, <1>3 DEF AssignSlot, TypeOK
  <2> QED BY <1>1, <2>1, <2>2
<1>4. ASSUME NEW w \in Wrappers, Finalize(w) PROVE Goal
  <2>1. <<"wrapper", w>> \in Tag
    BY DEF HolderKind
  <2>2. priv[w] # Null /\ Destroy(Dies(priv[w].obj, <<"wrapper", w>>))
    BY <1>2, <1>4 DEF Finalize
  <2> QED BY <1>1, <2>1, <2>2, PrivType
<1>5. ASSUME NEW m \in Natives, HostDelete(m) PROVE Goal
  <2>1. m = n /\ nst'[n] = "dead"
    BY <1>5 DEF HostDelete, Destroy, TypeOK
  <2>2. n \in host /\ Holders(n) = {} /\ nst[n] = "alive"
    BY <1>5, <2>1, OwnedHolders DEF HostDelete, HostAlone
  <2>3. Owners[n] = {<<"host", n>>} /\ <<"host", n>> \in Tag
    BY <2>2 DEF Owners, HolderKind
  <2> QED BY <2>1, <2>2, <2>3
<1>6. ASSUME NEW m \in Natives, HostNew(m) PROVE Goal
  BY <1>6 DEF HostNew, TypeOK
<1>7. ASSUME NEW w \in Wrappers, NEW m \in Natives, NEW lt \in Kinds, Attaches(w, m, lt) PROVE Goal
  BY <1>7 DEF Attaches, AttachNewNative, TypeOK
<1>8. ASSUME NEW m \in Natives, NEW v \in Wrappers, NEW k \in Owning, Bears(m, v, k) PROVE Goal
  BY <1>8 DEF Bears, TypeOK
<1>9. ASSUME Quiet \/ \E v \in Wrappers, l \in Lifetime \cup {Null} : Wraps(v, l) PROVE FALSE
  BY <1>9 DEF Quiet, Wraps
<1> HIDE DEF Goal
<1>10. Goal
  BY StepKinds, <1>3, <1>4, <1>5, <1>6, <1>7, <1>8, <1>9
<1> QED BY <1>10 DEF Goal

\* Who owns nothing that exists: the unborn and the dead.
LEMMA NoOwner ==
  ASSUME BridgeInv, NEW n \in Natives, nst[n] # "alive"
  PROVE  Owners[n] = {}
BY OwnedHolders DEF BridgeInv, OwnedAlive, HostAlone, Owners

\* Who owns something: the natives that exist.
LEMMA SomeOwner ==
  ASSUME Accounted, NEW n \in Natives, nst[n] = "alive"
  PROVE  Owners[n] # {}
BY OwnedHolders DEF Accounted, Owners

\* Initial states map to initial states of Ownership.
LEMMA PromiseInit == Init => Promise!OwnInit
<1> SUFFICES ASSUME Init PROVE Promise!OwnInit
  OBVIOUS
<1>1. \A n \in Natives : Owners[n] = {}
  BY InitBridgeInv, NoOwner DEF Init
<1>2. Owners = [n \in Natives |-> {}]
  BY <1>1 DEF Owners
<1> QED BY <1>2 DEF Init, Promise!OwnInit

\* Steps map to steps of Ownership.
LEMMA PromiseStep ==
  ASSUME BridgeInv, Accounted, [Next]_vars, BridgeInv', Accounted'
  PROVE  Promise!OwnNext
<1> SUFFICES ASSUME NEW n \in Natives
             PROVE  \/ Promise!Stays(n) \/ Promise!Birth(n)
                    \/ Promise!Rehome(n) \/ Promise!Death(n)
  BY DEF Promise!OwnNext
<1> USE DEF Promise!Stays, Promise!Birth, Promise!Rehome, Promise!Death
<1>1. /\ nst[n] # "alive" => Owners[n] = {}
      /\ nst[n] = "alive" => Owners[n] # {}
  BY NoOwner, SomeOwner
<1>2. nst'[n] # "alive" => Owners'[n] = {}
  BY OwnedHolders DEF BridgeInv, OwnedAlive, HostAlone, Owners, Owned, Holders
<1>3. nst'[n] = "alive" => Owners'[n] # {}
  <2>1. Owned(n)' => Holders(n)' # {}
    BY DEF Owned, Holders
  <2> QED BY <2>1 DEF Accounted, Owners
<1>4. CASE nst'[n] = nst[n]
  BY <1>1, <1>2, <1>3, <1>4
<1>5. CASE nst'[n] # nst[n]
  BY <1>2, <1>3, <1>5, LifeStep
<1> QED BY <1>4, <1>5

\* Nothing is destroyed late.
THEOREM AlwaysAccounted == Spec => []Accounted
<1>1. Init => Accounted
  BY DEF Init, Accounted
<1> QED BY <1>1, AccountedStep, BridgeInvariant, PTL DEF Spec

\* unique_obj leads back to the native, unless attachNew displaced the lifetime
\* that did: an owning one keeps the native for ever, and beside a pointer the
\* native has an owner that is not the script's.
THEOREM UniqueAlwaysLeadsBack == Spec => []UniqueLeadsBack
<1>1. ASSUME BridgeInv, IdentityInv, Accounted PROVE UniqueLeadsBack
  <2> SUFFICES ASSUME NEW n \in Natives, unique[n] # Null,
                      ~LeadsBack(n), \A l \in leaked : ~Owns(l, n)
               PROVE  [kind |-> "cxx", obj |-> n] \in leaked /\ OwnedElsewhere(n)
    BY DEF UniqueLeadsBack
  <2> USE <1>1 DEF BridgeInv
  <2>1. [kind |-> "cxx", obj |-> n] \in leaked
    <3>1. PICK l \in leaked : l.obj = n
      BY DEF IdentityInv, UniqueTraced
    <3>2. l \in Lifetime /\ l # Null
      BY NullApart DEF TypeOK
    <3>3. l.kind = "cxx"
      BY <3>1, <3>2 DEF Owns, Lifetime, Kinds, Owning
    <3> QED BY <3>1, <3>2, <3>3 DEF Lifetime
  <2>2. Owned(n) \/ n \in host
    BY DEF Rooted, Accounted
  <2>3. ASSUME NEW w \in live, Owns(priv[w], n)
        PROVE  priv[w] = [kind |-> "shared", obj |-> n]
    <3>1. priv[w] \in Lifetime /\ priv[w].obj = n /\ priv[w].kind \in Owning
      BY <2>3 DEF Owns, TypeOK
    <3>2. ASSUME priv[w].kind = "js" PROVE FALSE
      <4>1. BuiltFor(w, n) /\ n \in Intrusive
        BY <3>1, <3>2 DEF BuiltFor, Lifetime, IdentityInv, UniqueTraced
      <4>2. unique[n] = w
        BY <4>1 DEF IdentityInv, ScriptBuiltIsInitialized
      <4> QED BY <2>3, <4>2 DEF LeadsBack, Owns
    <3> QED BY <3>1, <3>2 DEF Lifetime, Owning
  <2> QED BY <2>1, <2>2, <2>3 DEF Owned, OwnedElsewhere
<1> QED BY <1>1, BridgeInvariant, IdentityInvariant, AlwaysAccounted, PTL

\* ObjectBridge implements Ownership: natives are destroyed exactly when their
\* last owner lets go, and only once.
THEOREM BridgeKeepsPromise == Spec => KeepsPromise
<1>1. ASSUME BridgeInv, Accounted, [Next]_vars, BridgeInv', Accounted'
      PROVE  [Promise!OwnNext]_(Promise!OwnVars)
  BY <1>1, PromiseStep
<1> QED BY <1>1, PromiseInit, BridgeInvariant, AlwaysAccounted, PTL
        DEF Spec, KeepsPromise, Promise!OwnSpec

\* So every native of the bridge exists exactly as long as a wrapper's lifetime,
\* a displaced lifetime, a shared_ptr variable or C++ code owns it, no matter
\* what scripts do and when the collector runs.
THEOREM NativesLiveWhileOwned == Spec => [](\A n \in Natives : nst[n] = "alive" <=> Owners[n] # {})
<1>1. Promise!OwnSpec => []Promise!AliveIffOwned
  BY Promise!OwnedLives
<1>2. Promise!AliveIffOwned => \A n \in Natives : nst[n] = "alive" <=> Owners[n] # {}
  BY DEF Promise!AliveIffOwned
<1> QED BY <1>1, <1>2, BridgeKeepsPromise, PTL DEF KeepsPromise

\* And none is destroyed twice, or comes back.
THEOREM NativesDieOnce == Spec => [][\A n \in Natives : nst[n] = "dead" => nst'[n] = "dead"]_vars
<1>1. Promise!OwnSpec => Promise!DeathIsFinal
  BY Promise!DeadStayDead
<1>2. [\A n \in Natives : nst[n] = "dead" => nst'[n] = "dead"]_(Promise!OwnVars)
        => [\A n \in Natives : nst[n] = "dead" => nst'[n] = "dead"]_vars
  BY DEF Promise!OwnVars
<1> QED BY <1>1, <1>2, BridgeKeepsPromise, PTL DEF KeepsPromise, Promise!DeathIsFinal
=============================================================================
