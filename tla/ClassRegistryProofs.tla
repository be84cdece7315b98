------------------------ MODULE ClassRegistryProofs ------------------------
(* Proofs about ClassRegistry, for any classes and any number of objects.  *)
EXTENDS ClassRegistry, TLAPS

USE DEF Up

\* An object is the nearest in its chain.
LEMMA ChainStarts ==
  ASSUME NEW l \in [Objects -> Objects \cup {Null}], NEW o \in Objects
  PROVE  o \in ChainIn(l, o)
BY RegistryAssumption DEF ChainIn

\* A chain is complete: it has the prototype of each of its objects.
LEMMA ChainCloses ==
  ASSUME NEW l \in [Objects -> Objects \cup {Null}], NEW o \in Objects \cup {Null}
  PROVE  ChainIn(l, o) \subseteq Objects /\ WithPrototypes(l, ChainIn(l, o))
<1>1. ChainIn(l, o) \subseteq Objects
  BY DEF ChainIn
<1>2. SUFFICES ASSUME NEW p \in ChainIn(l, o), l[p] # Null
               PROVE  l[p] \in ChainIn(l, o)
  BY <1>1 DEF WithPrototypes
<1>3. l[p] \in Objects
  BY <1>1, <1>2
<1>4. ASSUME NEW S \in SUBSET Objects, o \in S \cup {Null}, WithPrototypes(l, S)
      PROVE  l[p] \in S
  <2>1. p \in S
    BY <1>2, <1>4 DEF ChainIn
  <2> QED
    BY <2>1, <1>2, <1>4 DEF WithPrototypes
<1> QED
  BY <1>1, <1>3, <1>4 DEF ChainIn

\* A chain is the smallest complete set.
LEMMA ChainIsLeast ==
  ASSUME NEW l \in [Objects -> Objects \cup {Null}],
         NEW S \in SUBSET Objects, NEW o \in S \cup {Null}, WithPrototypes(l, S)
  PROVE  ChainIn(l, o) \subseteq S
BY DEF ChainIn

\* A chain changes only through one of its objects.
LEMMA ChainIsLocal ==
  ASSUME NEW l \in [Objects -> Objects \cup {Null}],
         NEW m \in [Objects -> Objects \cup {Null}], NEW o \in Objects,
         \A p \in ChainIn(l, o) : m[p] = l[p]
  PROVE  ChainIn(m, o) = ChainIn(l, o)
<1> DEFINE C == ChainIn(l, o)  D == ChainIn(m, o)
<1>1. C \subseteq Objects /\ D \subseteq Objects /\ o \in C /\ o \in D
  BY ChainStarts, ChainCloses
<1>2. WithPrototypes(l, C) /\ WithPrototypes(m, D)
  BY ChainCloses
<1>3. WithPrototypes(m, C)
  BY <1>1, <1>2 DEF WithPrototypes
<1>4. D \subseteq C
  <2> HIDE DEF C
  <2> QED
    BY <1>1, <1>3, ChainIsLeast
<1>5. WithPrototypes(l, D)
  BY <1>2, <1>4 DEF WithPrototypes
<1>6. C \subseteq D
  <2> HIDE DEF D
  <2> QED
    BY <1>1, <1>5, ChainIsLeast
<1> QED
  BY <1>4, <1>6

\* Object.prototype leads nowhere.
LEMMA ChainEnds ==
  ASSUME NEW l \in [Objects -> Objects \cup {Null}]
  PROVE  ChainIn(l, Null) = {}
<1>1. WithPrototypes(l, {})
  BY DEF WithPrototypes
<1> QED
  BY <1>1 DEF ChainIn

\* Relinking an object leaves the chains without it alone.
LEMMA ChainAvoids ==
  ASSUME NEW l \in [Objects -> Objects \cup {Null}],
         NEW m \in [Objects -> Objects \cup {Null}],
         NEW o \in Objects, NEW x \in Objects,
         \A y \in Objects : y # o => m[y] = l[y],
         o \notin ChainIn(m, x)
  PROVE  ChainIn(m, x) = ChainIn(l, x)
<1>1. \A y \in ChainIn(m, x) : l[y] = m[y]
  BY ChainCloses
<1> QED
  BY <1>1, ChainIsLocal

\* An object leads to itself and to what its prototype leads to.
LEMMA ChainGrows ==
  ASSUME NEW l \in [Objects -> Objects \cup {Null}], NEW o \in Objects
  PROVE  ChainIn(l, o) = {o} \cup ChainIn(l, l[o])
<1> DEFINE S == {o} \cup ChainIn(l, l[o])
<1>1. l[o] \in Objects \cup {Null}
  OBVIOUS
<1>2. ChainIn(l, l[o]) \subseteq Objects /\ WithPrototypes(l, ChainIn(l, l[o]))
  BY <1>1, ChainCloses
<1>3. l[o] \in S \cup {Null}
  BY <1>1, ChainStarts
<1>4. S \subseteq Objects /\ WithPrototypes(l, S) /\ o \in S
  BY <1>2, <1>3 DEF WithPrototypes
<1> HIDE DEF S
<1>5. ChainIn(l, o) \subseteq S
  BY <1>4, ChainIsLeast
<1> DEFINE C == ChainIn(l, o)
<1>6. C \subseteq Objects /\ WithPrototypes(l, C) /\ o \in C
  BY ChainCloses, ChainStarts
<1>7. l[o] \in C \cup {Null}
  BY <1>6 DEF WithPrototypes
<1> HIDE DEF C
<1>8. ChainIn(l, l[o]) \subseteq C
  BY <1>6, <1>7, ChainIsLeast
<1> QED
  BY <1>5, <1>6, <1>8 DEF S, C

-----------------------------------------------------------------------------
\* The global object has only prototypes that class_info has too, and that
\* exist.
Homed == \A c \in Classes : bound[c] # Null => bound[c] = info[c] /\ bound[c] \in live

\* jsc_proto is a prototype of its class, as long as it exists.
Prototyped == \A c \in Classes : info[c] \in live => of[info[c]] = c

\* Who was not tampered with has only prototypes that fit.
Trust(o) ==
  tampered \cap Chain(o) = {} =>
    /\ of[o] # Null => Fits(of[o], o)
    /\ lt[o] # Null => Fits(lt[o], o)

\* No native is left behind by an object that is gone.
Cleared == \A o \in Objects \ live : lt[o] = Null

RegistryInv ==
  /\ TypeOK
  /\ WithPrototypes(link, live)
  /\ Homed
  /\ Prototyped
  /\ Cleared
  /\ \A o \in live : Trust(o)
  /\ DanglesOnlyUnbound
  /\ LookupsAreSafe

\* What exists leads to what exists.
LEMMA ChainsLive ==
  ASSUME RegistryInv, NEW o \in live
  PROVE  Chain(o) \subseteq live /\ o \in Chain(o)
<1>1. link \in [Objects -> Objects \cup {Null}] /\ live \in SUBSET Objects
      /\ WithPrototypes(link, live) /\ o \in Objects
  BY DEF RegistryInv, TypeOK
<1> QED
  BY <1>1, ChainStarts, ChainIsLeast DEF Chain

\* What the script can name exists, leads to what it can name, and is all of
\* what it holds and of what the global object has.
LEMMA KnownLives ==
  ASSUME RegistryInv
  PROVE  /\ Known \subseteq live
         /\ held \subseteq Known /\ Bound \subseteq Known
         /\ \A o \in Known : Chain(o) \subseteq Known
<1>1. held \cup Bound \subseteq live /\ live \subseteq Objects
      /\ link \in [Objects -> Objects \cup {Null}]
  BY DEF RegistryInv, TypeOK, Homed, Bound
<1>2. ASSUME NEW r \in held \cup Bound, NEW o \in Chain(r)
      PROVE  Chain(o) \subseteq Chain(r)
  <2> DEFINE S == Chain(r)
  <2>1. S \in SUBSET Objects /\ WithPrototypes(link, S) /\ o \in S
    BY <1>1, <1>2, ChainCloses DEF Chain
  <2> HIDE DEF S
  <2>2. Chain(o) \subseteq S
    BY <1>1, <2>1, ChainIsLeast DEF Chain
  <2> QED
    BY <2>2 DEF S
<1>3. \A r \in held \cup Bound : Chain(r) \subseteq live /\ r \in Chain(r)
  BY <1>1, ChainsLive
<1> QED
  BY <1>2, <1>3 DEF Known

\* A step that leaves an object's chain alone leaves its trust alone.
LEMMA TrustIsLocal ==
  ASSUME RegistryInv, NEW o \in live,
         link' \in [Objects -> Objects \cup {Null}],
         \A p \in Chain(o) : link'[p] = link[p] /\ of'[p] = of[p],
         tampered \cap Chain(o) \subseteq tampered',
         lt'[o] = lt[o]
  PROVE  Trust(o)' /\ Chain(o)' = Chain(o)
<1>1. link \in [Objects -> Objects \cup {Null}] /\ o \in Objects
  BY DEF RegistryInv, TypeOK
<1>2. Chain(o)' = Chain(o)
  BY <1>1, ChainIsLocal DEF Chain
<1>3. o \in Chain(o) /\ Trust(o)
  BY ChainsLive DEF RegistryInv
<1> QED
  BY <1>2, <1>3 DEF Trust, Fits

\* A new object disturbs nobody, and leads to itself and its prototype's chain.
LEMMA FreshIsAlone ==
  ASSUME RegistryInv, NEW n \in Fresh, NEW q \in live \cup {Null},
         link' = [link EXCEPT ![n] = q], live' = live \cup {n},
         NEW T, of' = [of EXCEPT ![n] = T],
         \A o \in live : lt'[o] = lt[o],
         tampered' = tampered
  PROVE  /\ WithPrototypes(link, live)'
         /\ \A o \in live : Trust(o)' /\ Chain(o)' = Chain(o)
         /\ Chain(n)' = {n} \cup Chain(q)
         /\ Chain(q) \subseteq live
<1>1. /\ link \in [Objects -> Objects \cup {Null}] /\ live \subseteq Objects
      /\ of \in [Objects -> Classes \cup {Null}]
      /\ n \in Objects \ live /\ q \in Objects \cup {Null}
      /\ WithPrototypes(link, live)
  BY DEF RegistryInv, TypeOK, Fresh
<1>2. link' \in [Objects -> Objects \cup {Null}]
      /\ link'[n] = q /\ \A o \in live : link'[o] = link[o] /\ of'[o] = of[o]
  BY <1>1
<1>3. WithPrototypes(link, live)'
  BY <1>1, <1>2 DEF WithPrototypes
<1>4. ASSUME NEW o \in live
      PROVE  Trust(o)' /\ Chain(o)' = Chain(o)
  <2>1. Chain(o) \subseteq live
    BY ChainsLive
  <2> QED
    BY <1>2, <2>1, TrustIsLocal
<1>5. Chain(q) \subseteq live
  BY <1>1, ChainsLive, ChainEnds DEF Chain
<1>6. ChainIn(link', q) = Chain(q)
  BY <1>1, <1>2, <1>4, ChainEnds DEF Chain
<1>7. Chain(n)' = {n} \cup Chain(q)
  BY <1>1, <1>2, <1>6, ChainGrows DEF Chain
<1> QED
  BY <1>3, <1>4, <1>5, <1>7

-----------------------------------------------------------------------------
\* A crash records what is so, and leaves the rest as it was.
LEMMA CrashKeeps ==
  ASSUME RegistryInv, Up, NEW c \in Classes \cup {Null}, NEW o \in Objects \cup {Null},
         NEW l \in BOOLEAN,
         NEW why \in {"noclass", "noproto", "dangling", "nullpriv", "confused"},
         Crash(why, c, o, l),
         why = "dangling" => c \in Classes /\ Dangling(c),
         why = "confused" /\ l => o \in live /\ ~(tampered \cap Chain(o) = {})
  PROVE  RegistryInv'
<1> USE DEF Crash
<1>1. TypeOK' /\ fault'.why = why /\ fault'.class = c /\ fault'.object = o /\ fault'.lookup = l
  BY DEF RegistryInv, TypeOK, Faults
<1>2. WithPrototypes(link, live)' /\ Homed' /\ Prototyped' /\ Cleared'
  BY DEF RegistryInv, WithPrototypes, Homed, Prototyped, Cleared
<1>3. (\A x \in live : Trust(x))' /\ \A x : Chain(x)' = Chain(x)
  BY DEF RegistryInv, Trust, Fits, Chain
<1>4. DanglesOnlyUnbound'
  BY <1>1 DEF RegistryInv, DanglesOnlyUnbound, Homed, Dangling
<1>5. LookupsAreSafe'
  BY <1>1, <1>3 DEF LookupsAreSafe
<1> QED
  BY <1>1, <1>2, <1>3, <1>4, <1>5 DEF RegistryInv

\* As long as the process is up, the properties of crashes ask nothing.
LEMMA UpIsSafe ==
  ASSUME Up, UNCHANGED fault
  PROVE  (DanglesOnlyUnbound /\ LookupsAreSafe)'
BY DEF DanglesOnlyUnbound, LookupsAreSafe, NoFault

\* A class gets a prototype derived from its parent's.
LEMMA InitClassKeeps ==
  ASSUME RegistryInv, Up, NEW c \in Classes, NEW p \in Objects, NEW q \in live \cup {Null},
         InitClass(c, p, q), info[c] # None,
         q # Null => of[q] # Null /\ <<c, of[q]>> \in IsA
                     /\ \A d \in Classes : <<of[q], d>> \in IsA => <<c, d>> \in IsA
  PROVE  RegistryInv'
<1> USE DEF InitClass
<1>1. TypeOK
  BY DEF RegistryInv
<1>2. p \in Fresh /\ p \in Objects /\ p \notin live /\ \A d \in Classes : info[d] # p
  BY DEF Fresh
<1>3. TypeOK'
  BY <1>1 DEF TypeOK
<1>4. /\ WithPrototypes(link, live)'
      /\ \A o \in live : Trust(o)' /\ Chain(o)' = Chain(o)
      /\ Chain(p)' = {p} \cup Chain(q)
      /\ Chain(q) \subseteq live
  BY <1>2, FreshIsAlone
<1>5. Homed'
  BY <1>1 DEF RegistryInv, Homed, TypeOK
<1>6. Prototyped'
  BY <1>1, <1>2 DEF RegistryInv, Prototyped, TypeOK
<1>7. Cleared' /\ lt'[p] = Null
  BY <1>2 DEF RegistryInv, Cleared
<1>8. Trust(p)'
  <2>1. SUFFICES ASSUME (tampered \cap Chain(p))' = {}
                 PROVE  Fits(c, p)'
    BY <1>1, <1>7 DEF Trust, TypeOK
  <2>2. SUFFICES ASSUME NEW x \in Chain(p)', of'[x] # Null
                 PROVE  <<c, of'[x]>> \in IsA
    BY DEF Fits
  <2>3. CASE x = p
    BY <2>3, <1>1, RegistryAssumption DEF TypeOK
  <2>4. CASE x \in Chain(q)
    <3>1. x # p /\ of'[x] = of[x] /\ of[x] \in Classes
      BY <1>1, <1>2, <1>4, <2>2, <2>4 DEF TypeOK
    <3>2. q # Null
      BY <1>1, <2>4, ChainEnds DEF TypeOK, Chain
    <3>3. Fits(of[q], q)
      BY <1>4, <2>1, <3>2 DEF RegistryInv, Trust
    <3> QED
      BY <2>4, <3>1, <3>2, <3>3, <2>2 DEF Fits
  <2> QED
    BY <1>4, <2>2, <2>3, <2>4
<1>9. (\A o \in live : Trust(o))'
  BY <1>4, <1>8
<1> QED
  BY <1>3, <1>4, <1>5, <1>6, <1>7, <1>9, UpIsSafe DEF RegistryInv

\* A wrapper gets the prototype and the native of one class, or any prototype
\* and no native.
LEMMA NewObjectKeeps ==
  ASSUME RegistryInv, Up, NEW o \in Objects, NEW q \in live \cup {Null},
         NEW T \in Classes \cup {Null},
         NewObject(o, q, T), UNCHANGED tampered,
         T # Null => q = Null \/ of[q] = T
  PROVE  RegistryInv'
<1> USE DEF NewObject
<1>1. TypeOK /\ link' = [link EXCEPT ![o] = q] /\ live' = live \cup {o}
  BY DEF RegistryInv
<1>2. o \in Fresh /\ o \notin live /\ \A d \in Classes : info[d] # o
  BY DEF Fresh
<1>3. TypeOK'
  BY <1>1 DEF TypeOK
<1>4. /\ WithPrototypes(link, live)'
      /\ \A x \in live : Trust(x)' /\ Chain(x)' = Chain(x)
      /\ Chain(o)' = {o} \cup Chain(q)
      /\ Chain(q) \subseteq live
  <2>1. \A x \in live : lt'[x] = lt[x]
    BY <1>1, <1>2 DEF TypeOK
  <2>2. of' = [of EXCEPT ![o] = Null] /\ tampered' = tampered
    OBVIOUS
  <2> QED
    BY <1>1, <1>2, <2>1, <2>2, FreshIsAlone
<1>5. Homed'
  BY <1>1 DEF RegistryInv, Homed
<1>6. Prototyped'
  BY <1>1, <1>2 DEF RegistryInv, Prototyped, TypeOK
<1>7. Cleared'
  BY <1>1 DEF RegistryInv, Cleared, TypeOK
<1>8. Trust(o)'
  <2>1. of'[o] = Null /\ lt'[o] = T
    BY <1>1 DEF TypeOK
  <2>2. SUFFICES ASSUME (tampered \cap Chain(o))' = {}, T # Null,
                        NEW x \in Chain(o)', of'[x] # Null
                 PROVE  <<T, of'[x]>> \in IsA
    BY <2>1 DEF Trust, Fits
  <2>3. x \in Chain(q) /\ q # Null
    BY <1>1, <1>4, <2>1, <2>2, ChainEnds DEF TypeOK, Chain
  <2>4. of'[x] = of[x]
    BY <1>1, <1>2, <1>4, <2>3 DEF TypeOK
  <2>5. Fits(of[q], q) /\ of[q] = T
    BY <1>4, <2>2, <2>3 DEF RegistryInv, Trust
  <2> QED
    BY <2>2, <2>3, <2>4, <2>5 DEF Fits
<1>9. (\A x \in live : Trust(x))'
  BY <1>1, <1>4, <1>8
<1> QED
  BY <1>3, <1>4, <1>5, <1>6, <1>7, <1>9, UpIsSafe DEF RegistryInv

\* A native that does not fit marks its object.
LEMMA AttachKeeps ==
  ASSUME RegistryInv, NEW p \in Known, NEW o \in Known, Attach(p, o)
  PROVE  RegistryInv'
<1> USE DEF Attach
<1>1. TypeOK /\ o \in live /\ p \in live /\ o \in Objects /\ of[p] \in Classes
  BY KnownLives DEF RegistryInv, TypeOK
<1>2. TypeOK' /\ tampered \subseteq tampered'
  BY <1>1 DEF TypeOK, Tamper
<1>3. WithPrototypes(link, live)' /\ Homed' /\ Prototyped'
  BY DEF RegistryInv, WithPrototypes, Homed, Prototyped
<1>4. Cleared'
  BY <1>1 DEF RegistryInv, Cleared, TypeOK
<1>5. ASSUME NEW x \in live, x # o
      PROVE  Trust(x)'
  <2>1. lt'[x] = lt[x] /\ link' \in [Objects -> Objects \cup {Null}]
    BY <1>1, <1>5 DEF TypeOK
  <2> QED
    BY <1>2, <2>1, TrustIsLocal
<1>6. Trust(o)'
  <2>1. Chain(o)' = Chain(o) /\ o \in Chain(o)
    BY <1>1, ChainsLive DEF Chain
  <2>2. lt'[o] = of[p] /\ of' = of
    BY <1>1 DEF TypeOK
  <2>3. CASE Fits(of[p], o)
    <3>1. tampered' = tampered /\ Trust(o)
      BY <1>1, <2>3 DEF RegistryInv
    <3> QED
      BY <2>1, <2>2, <2>3, <3>1 DEF Trust, Fits
  <2>4. CASE ~Fits(of[p], o)
    BY <2>1, <2>4 DEF Trust, Tamper
  <2> QED
    BY <2>3, <2>4
<1>7. (\A x \in live : Trust(x))'
  BY <1>5, <1>6
<1> QED
  BY <1>2, <1>3, <1>4, <1>7, UpIsSafe DEF RegistryInv

\* An object with a new prototype is marked, and so are all it is a prototype of.
LEMMA SetPrototypeKeeps ==
  ASSUME RegistryInv, NEW o \in Known, NEW q \in Known \cup {Null}, SetPrototype(o, q)
  PROVE  RegistryInv'
<1> USE DEF SetPrototype
<1>1. TypeOK /\ o \in live /\ q \in live \cup {Null} /\ live \subseteq Objects
  BY KnownLives DEF RegistryInv, TypeOK
<1>2. TypeOK' /\ tampered \subseteq tampered' /\ o \in tampered'
  BY <1>1 DEF TypeOK, Tamper
<1>3. WithPrototypes(link, live)'
  BY <1>1 DEF RegistryInv, WithPrototypes, TypeOK
<1>4. Homed' /\ Prototyped' /\ Cleared'
  BY DEF RegistryInv, Homed, Prototyped, Cleared
<1>5. ASSUME NEW x \in live, (tampered \cap Chain(x))' = {}
      PROVE  Chain(x)' = Chain(x)
  <2>1. o \notin Chain(x)'
    BY <1>2, <1>5
  <2>2. link \in [Objects -> Objects \cup {Null}] /\ link' \in [Objects -> Objects \cup {Null}]
        /\ x \in Objects
    BY <1>1, <1>2 DEF TypeOK
  <2>3. \A y \in Objects : y # o => link'[y] = link[y]
    BY <1>1 DEF TypeOK
  <2> HIDE DEF SetPrototype
  <2> QED
    BY <2>1, <2>2, <2>3, <1>1, ChainAvoids DEF Chain
<1>6. (\A x \in live : Trust(x))'
  <2>1. SUFFICES ASSUME NEW x \in live, (tampered \cap Chain(x))' = {}
                 PROVE  Trust(x)'
    BY DEF Trust
  <2>2. Chain(x)' = Chain(x) /\ tampered \cap Chain(x) = {}
    BY <1>2, <1>5, <2>1
  <2>3. of' = of /\ lt' = lt /\ Trust(x)
    BY DEF RegistryInv
  <2> QED
    BY <2>2, <2>3 DEF Trust, Fits
<1> QED
  BY <1>2, <1>3, <1>4, <1>6, UpIsSafe DEF RegistryInv

\* The collector keeps what the script can name, with its prototypes.
LEMMA CollectKeeps ==
  ASSUME RegistryInv, Collect
  PROVE  RegistryInv'
<1> USE DEF Collect
<1>1. TypeOK /\ live \subseteq Objects
  BY DEF RegistryInv, TypeOK
<1>2. /\ Known \subseteq live
      /\ held \subseteq Known /\ Bound \subseteq Known
      /\ \A o \in Known : Chain(o) \subseteq Known
  BY KnownLives
<1>3. TypeOK'
  BY <1>1, <1>2 DEF TypeOK
<1>4. WithPrototypes(link, live)'
  <2>1. SUFFICES ASSUME NEW o \in Known, link[o] # Null
                 PROVE  link[o] \in Known
    BY <1>1, <1>2 DEF WithPrototypes
  <2>2. o \in Objects /\ link[o] \in Objects /\ link \in [Objects -> Objects \cup {Null}]
    BY <1>1, <1>2, <2>1 DEF TypeOK
  <2>3. link[o] \in Chain(o)
    BY <2>2, ChainGrows, ChainStarts DEF Chain
  <2> QED
    BY <1>2, <2>3
<1>5. Homed'
  BY <1>2 DEF RegistryInv, Homed, Bound
<1>6. Prototyped'
  BY <1>1, <1>2 DEF RegistryInv, Prototyped
<1>7. Cleared'
  BY DEF Cleared
<1>8. (\A x \in live : Trust(x))'
  <2>1. SUFFICES ASSUME NEW x \in Known
                 PROVE  Trust(x)'
    OBVIOUS
  <2>2. x \in live /\ Chain(x) \subseteq Known /\ x \in Chain(x)
    BY <1>2, <2>1, ChainsLive
  <2>3. \A p \in Known : link'[p] = link[p] /\ of'[p] = of[p] /\ lt'[p] = lt[p]
    BY <1>1, <1>2
  <2>4. tampered \cap Chain(x) \subseteq tampered' /\ link' \in [Objects -> Objects \cup {Null}]
    BY <1>3, <2>2 DEF TypeOK
  <2> QED
    BY <2>1, <2>2, <2>3, <2>4, TrustIsLocal
<1> QED
  BY <1>3, <1>4, <1>5, <1>6, <1>7, <1>8, UpIsSafe DEF RegistryInv

\* Before anything is registered.
LEMMA InitHolds ==
  ASSUME Init
  PROVE  RegistryInv
<1> USE DEF Init
<1>1. TypeOK
  BY DEF TypeOK, Faults, NoFault
<1>2. WithPrototypes(link, live) /\ Homed /\ Prototyped /\ Cleared /\ \A o \in live : Trust(o)
  BY DEF WithPrototypes, Homed, Prototyped, Cleared
<1>3. DanglesOnlyUnbound /\ LookupsAreSafe
  BY DEF DanglesOnlyUnbound, LookupsAreSafe, NoFault
<1> QED
  BY <1>1, <1>2, <1>3 DEF RegistryInv

\* Registration: a class gets its class_info, its prototype, its members.
LEMMA RegistrationKeeps ==
  ASSUME RegistryInv, NEW c \in Classes,
         \/ Register(c) \/ Configure(c)
         \/ \E p \in Objects : Define(c, p) \/ Inherits(c, p)
  PROVE  RegistryInv'
<1>1. TypeOK /\ Parent \in [Classes -> Classes \cup {Null}] /\ live \subseteq Objects
      /\ None \notin Objects /\ Null \notin Objects /\ None # Null
  BY RegistryAssumption DEF RegistryInv, TypeOK
<1>2. ASSUME NEW d \in Classes \cup {Null}, Up,
             NEW why \in {"noclass", "noproto", "dangling"}, Crash(why, d, Null, FALSE),
             why = "dangling" => d \in Classes /\ Dangling(d)
      PROVE  RegistryInv'
  BY <1>2, CrashKeeps
<1>3. CASE Register(c)
  <2> USE <1>3 DEF Register
  <2>1. TypeOK'
    BY <1>1 DEF TypeOK
  <2>2. Homed' /\ Prototyped'
    BY <1>1 DEF RegistryInv, TypeOK, Homed, Prototyped, Unregistered
  <2>3. WithPrototypes(link, live)' /\ Cleared'
    BY DEF RegistryInv, WithPrototypes, Cleared
  <2>4. (\A o \in live : Trust(o))'
    BY DEF RegistryInv, Trust, Fits, Chain
  <2> QED
    BY <2>1, <2>2, <2>3, <2>4, UpIsSafe DEF RegistryInv
<1>4. ASSUME NEW p \in Objects, Define(c, p)
      PROVE  RegistryInv'
  <2>1. CASE Unregistered(c)
    BY <1>2, <1>4, <2>1 DEF Define
  <2>2. CASE ~Unregistered(c)
    BY <1>1, <1>4, <2>2, InitClassKeeps DEF Define, Unregistered
  <2> QED
    BY <2>1, <2>2
<1>5. ASSUME NEW p \in Objects, Inherits(c, p)
      PROVE  RegistryInv'
  <2> DEFINE b == Parent[c]
  <2>1. b \in Classes /\ Up
    BY <1>1, <1>5 DEF Inherits
  <2>2. CASE Crash("noclass", b, Null, FALSE) \/ Crash("noclass", c, Null, FALSE)
    BY <1>2, <2>1, <2>2
  <2>3. CASE Dangling(b) /\ Crash("dangling", b, Null, FALSE)
    BY <1>2, <2>1, <2>3
  <2>4. CASE ~Unregistered(c) /\ (Sound(b) \/ info[b] = Null) /\ InitClass(c, p, info[b])
    <3>1. info[b] \in live \cup {Null} /\ info[c] # None
      BY <2>4 DEF Sound, Unregistered
    <3>2. CASE info[b] = Null
      BY <2>1, <2>4, <3>1, <3>2, InitClassKeeps
    <3>3. CASE info[b] # Null
      <4>1. of[info[b]] = b /\ b # Null
        BY <1>1, <2>1, <3>1, <3>3, RegistryAssumption DEF RegistryInv, Prototyped
      <4>2. <<c, b>> \in IsA /\ \A d \in Classes : <<b, d>> \in IsA => <<c, d>> \in IsA
        BY <2>1, <4>1, RegistryAssumption
      <4> QED
        BY <2>1, <2>4, <3>1, <4>1, <4>2, InitClassKeeps
    <3> QED
      BY <3>2, <3>3
  <2> QED
    BY <1>5, <2>2, <2>3, <2>4 DEF Inherits
<1>6. CASE Configure(c)
  BY <1>2, <1>6 DEF Configure
<1> QED
  BY <1>3, <1>4, <1>5, <1>6

\* A wrapper is made, or cannot be.
LEMMA ReturnKeeps ==
  ASSUME RegistryInv, NEW c \in Classes, NEW o \in Objects, Return(c, o)
  PROVE  RegistryInv'
<1>1. TypeOK /\ Up
  BY DEF RegistryInv, Return
<1>2. CASE Unregistered(c) /\ Crash("noclass", c, Null, FALSE)
  BY <1>1, <1>2, CrashKeeps
<1>3. CASE Dangling(c) /\ Crash("dangling", c, Null, FALSE)
  BY <1>1, <1>3, CrashKeeps
<1>4. CASE ~Unregistered(c) /\ ~Dangling(c) /\ NewObject(o, info[c], c) /\ UNCHANGED tampered
  <2>1. info[c] \in live \cup {Null}
    BY <1>1, <1>4 DEF TypeOK, Unregistered, Dangling
  <2>2. info[c] = Null \/ of[info[c]] = c
    BY <2>1 DEF RegistryInv, Prototyped
  <2> QED
    BY <1>1, <1>4, <2>1, <2>2, NewObjectKeeps
<1> QED
  BY <1>2, <1>3, <1>4 DEF Return, Wrap

\* A use of an object as something it is not, found by lookup: the object or
\* one of its prototypes is marked.
LEMMA UseKeeps ==
  ASSUME RegistryInv, NEW p \in Known, NEW o \in Known, Use(p, o)
  PROVE  RegistryInv'
<1>1. TypeOK /\ Up /\ o \in live /\ o \in Objects /\ of[p] \in Classes
  BY KnownLives DEF RegistryInv, TypeOK, Use
<1>2. CASE Crash("nullpriv", Null, Null, FALSE)
  BY <1>1, <1>2, CrashKeeps
<1>3. CASE lt[o] # Null /\ <<lt[o], of[p]>> \notin IsA
           /\ Crash("confused", of[p], o, p \in Chain(o))
  <2>1. ASSUME p \in Chain(o)
        PROVE  ~(tampered \cap Chain(o) = {})
    BY <1>1, <1>3, <2>1 DEF RegistryInv, Trust, Fits, Use
  <2>2. (p \in Chain(o)) \in BOOLEAN
    OBVIOUS
  <2> DEFINE l == p \in Chain(o)
  <2>3. Crash("confused", of[p], o, l) /\ l \in BOOLEAN
    BY <1>3, <2>2
  <2>4. l => ~(tampered \cap Chain(o) = {})
    BY <2>1
  <2> HIDE DEF l
  <2> QED
    BY <1>1, <2>3, <2>4, CrashKeeps
<1> QED
  BY <1>2, <1>3 DEF Use

\* The script takes and gives up references.
LEMMA ReferencesKeep ==
  ASSUME RegistryInv,
         \/ \E o \in Known : Hold(o)
         \/ \E o \in held : Drop(o)
         \/ \E c \in Classes : Unbind(c)
  PROVE  RegistryInv'
<1>1. /\ Up /\ UNCHANGED <<info, live, of, link, lt, tampered, fault>>
      /\ held' \subseteq live
      /\ bound' \in [Classes -> Objects \cup {Null}]
      /\ \A c \in Classes : bound'[c] # Null => bound'[c] = bound[c]
  BY KnownLives DEF RegistryInv, TypeOK, Hold, Drop, Unbind
<1>2. TypeOK' /\ Homed'
  BY <1>1 DEF RegistryInv, TypeOK, Homed
<1>3. WithPrototypes(link, live)' /\ Prototyped' /\ Cleared'
  BY <1>1 DEF RegistryInv, WithPrototypes, Prototyped, Cleared
<1>4. (\A o \in live : Trust(o))'
  BY <1>1 DEF RegistryInv, Trust, Fits, Chain
<1> QED
  BY <1>1, <1>2, <1>3, <1>4, UpIsSafe DEF RegistryInv

\* The inductive invariant of the registry.
THEOREM RegistryInvariant == Spec => []RegistryInv
<1>1. Init => RegistryInv
  BY InitHolds
<1>2. RegistryInv /\ [Next]_vars => RegistryInv'
  <2> SUFFICES ASSUME RegistryInv, [Next]_vars
               PROVE  RegistryInv'
    OBVIOUS
  <2>1. CASE \E c \in Classes : Register(c) \/ Configure(c)
    BY <2>1, RegistrationKeeps
  <2>2. ASSUME NEW c \in Classes, NEW p \in Objects, Define(c, p) \/ Inherits(c, p)
        PROVE  RegistryInv'
    BY <2>2, RegistrationKeeps
  <2>3. ASSUME NEW c \in Classes, NEW p \in Objects, Return(c, p)
        PROVE  RegistryInv'
    BY <2>3, ReturnKeeps
  <2>4. ASSUME NEW p \in Known, NEW o \in Known, Attach(p, o) \/ Use(p, o)
        PROVE  RegistryInv'
    BY <2>4, AttachKeeps, UseKeeps
  <2>5. ASSUME NEW p \in Known, NEW q \in Known \cup {Null}, NEW o \in Objects,
               Reproto(p, q, o)
        PROVE  RegistryInv'
    BY <2>5, NewObjectKeeps, KnownLives DEF Reproto
  <2>6. ASSUME NEW o \in Known, NEW q \in Known \cup {Null}, SetPrototype(o, q)
        PROVE  RegistryInv'
    BY <2>6, SetPrototypeKeeps
  <2>7. CASE \/ \E o \in Known : Hold(o)
             \/ \E o \in held : Drop(o)
             \/ \E c \in Classes : Unbind(c)
    BY <2>7, ReferencesKeep
  <2>8. CASE Collect
    BY <2>8, CollectKeeps
  <2>9. CASE UNCHANGED vars
    BY <2>9 DEF vars, RegistryInv, TypeOK, WithPrototypes, Homed, Prototyped, Cleared,
                Trust, Fits, Chain, DanglesOnlyUnbound, LookupsAreSafe
  <2> QED
    BY <2>1, <2>2, <2>3, <2>4, <2>5, <2>6, <2>7, <2>8, <2>9 DEF Next
<1> QED
  BY <1>1, <1>2, PTL DEF Spec

\* Type correctness of the registry.
THEOREM RegistryTypeCorrect == Spec => []TypeOK
BY RegistryInvariant, PTL DEF RegistryInv

\* However classes are registered, derived and defined again, a prototype that
\* class_info names is collected only after the script unbound the class.
THEOREM PrototypesDangleOnlyUnbound == Spec => []DanglesOnlyUnbound
BY RegistryInvariant, PTL DEF RegistryInv

\* The unchecked cast is safe for every method found by lookup on objects the
\* script did not tamper with, whatever it did to others.
THEOREM OrdinaryLookupsAreSafe == Spec => []LookupsAreSafe
BY RegistryInvariant, PTL DEF RegistryInv

=============================================================================
