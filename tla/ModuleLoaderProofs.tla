------------------------- MODULE ModuleLoaderProofs -------------------------
(***************************************************************************)
(* Proofs about ModuleLoader, for every set of names, directories and      *)
(* sandboxes, every file system and every recursion limit.  The invariant  *)
(* LoaderInv says what each load in progress relies on: it is cached, and  *)
(* was not when it was requested; the search above it has passed over      *)
(* nothing.  Every property below follows from it or from one step.        *)
(***************************************************************************)
EXTENDS ModuleLoader, SequenceTheorems, FiniteSetTheorems, TLAPS

USE LoaderAssumption

-----------------------------------------------------------------------------
(* The three ways the stack changes.                                       *)

\* A load is pushed.
LEMMA PushStack ==
  ASSUME stack \in Seq(Load), NEW l \in Load, stack' = Append(stack, l)
  PROVE  /\ stack' \in Seq(Load) /\ Len(stack') = Len(stack) + 1 /\ stack' # <<>>
         /\ \A i \in 1..Len(stack) : stack'[i] = stack[i]
         /\ stack'[Len(stack) + 1] = l
OBVIOUS

\* The innermost load is replaced.
LEMMA BecomeStack ==
  ASSUME stack \in Seq(Load), stack # <<>>, NEW l \in Load, stack' = Become(l)
  PROVE  /\ stack' \in Seq(Load) /\ Len(stack') = Len(stack) /\ stack' # <<>>
         /\ Len(stack) \in 1..Len(stack)
         /\ \A i \in 1..Len(stack) : i # Len(stack) => stack'[i] = stack[i]
         /\ stack'[Len(stack)] = l
BY DEF Become

\* The innermost load is popped.
LEMMA PopStack ==
  ASSUME stack \in Seq(Load), stack # <<>>, stack' = Pop
  PROVE  /\ stack' \in Seq(Load) /\ Len(stack') = Len(stack) - 1
         /\ \A i \in 1..Len(stack') : i \in 1..Len(stack) /\ i < Len(stack) /\ stack'[i] = stack[i]
<1> DEFINE m == Len(stack) - 1
<1>1. stack' = SubSeq(stack, 1, m)
  BY DEF Pop
<1>2. m \in Nat /\ \A i \in 1..m : stack[i] \in Load /\ i \in 1..Len(stack) /\ i < Len(stack)
  OBVIOUS
<1> HIDE DEF m
<1>3. /\ stack' \in Seq(Load)
      /\ Len(stack') = IF 1 <= m THEN m - 1 + 1 ELSE 0
      /\ \A i \in 1..(m - 1 + 1) : stack'[i] = stack[1 + i - 1]
  BY <1>1, <1>2, SubSeqProperties
<1>4. Len(stack') = m /\ \A i \in 1..m : stack'[i] = stack[i]
  BY <1>2, <1>3
<1> QED BY <1>2, <1>3, <1>4 DEF m

-----------------------------------------------------------------------------
(* The search path of a load.                                              *)

\* The search path is a sequence of directories, at most one longer than the
\* global paths: the directory of the requiring module comes first.
LEMMA SearchPathType ==
  ASSUME TypeOK, NEW n \in Names, NEW p \in Mods \cup {Null}
  PROVE  /\ SearchPath(n, p) \in Seq(Dirs)
         /\ Len(SearchPath(n, p)) <= Len(GlobalPaths) + 1
<1>1. p # Null => DirOf(p) \in Dirs
  BY DEF TypeOK, DirOf, Paths
<1> QED BY <1>1 DEF SearchPath

\* The search path and an extension make a path.
LEMMA CandidateType ==
  ASSUME TypeOK, NEW l \in Load, NEW i \in 1..Len(SearchPath(l.name, l.parent)), NEW e \in Exts
  PROVE  Candidate(l, i, e) \in Paths /\ Real[Candidate(l, i, e)] \in Paths
<1>1. l.name \in Names /\ l.parent \in Mods \cup {Null}
  BY DEF Load
<1>2. SearchPath(l.name, l.parent)[i] \in Dirs
  BY <1>1, SearchPathType
<1>3. Candidate(l, i, e) \in Paths
  BY <1>1, <1>2 DEF Candidate, Paths
<1> QED BY <1>3

\* A search that is not exhausted is at a path.
LEMMA HereType ==
  ASSUME TypeOK, NEW l \in Load, ~Exhausted(l)
  PROVE  Here(l) \in Paths
<1>1. l.name \in Names /\ l.parent \in Mods \cup {Null} /\ l.dir \in Nat \ {0} /\ l.ext \in Exts
  BY DEF Load
<1>2. l.dir \in 1..Len(SearchPath(l.name, l.parent))
  BY <1>1, SearchPathType DEF Exhausted
<1> QED BY <1>1, <1>2, CandidateType DEF Here

\* The innermost load has the type of a load.
LEMMA TopType ==
  ASSUME TypeOK, stack # <<>>
  PROVE  Top \in Load /\ Len(stack) \in 1..Len(stack) /\ Len(stack) \in Nat
BY DEF TypeOK, Top

\* A step that changes neither the files nor the disk keeps what is known.
LEMMA SameSearch ==
  ASSUME file' = file, disk' = disk, NEW l
  PROVE  /\ Exhausted(l)' <=> Exhausted(l)
         /\ Here(l)' = Here(l)
         /\ Missed(l)' <=> Missed(l)
BY DEF Exhausted, Here, Missed, Candidate, SearchPath, DirOf

\* There are two extensions, and they differ.
LEMMA TwoExts == Plain # DotJs /\ Plain \in Exts /\ DotJs \in Exts /\ \A e \in Exts : e = Plain \/ e = DotJs
BY DEF Plain, DotJs, Exts

\* Moving a load to another candidate.
Moved(l, d, e) == [l EXCEPT !.phase = "exists", !.dir = d, !.ext = e]

\* A moved load still loads the same module for the same require.
LEMMA MovedLoad ==
  ASSUME NEW l \in Load, NEW d \in Nat \ {0}, NEW e \in Exts
  PROVE  /\ Moved(l, d, e) \in Load
         /\ Moved(l, d, e).phase = "exists" /\ Moved(l, d, e).dir = d /\ Moved(l, d, e).ext = e
         /\ Moved(l, d, e).mod = l.mod /\ Moved(l, d, e).name = l.name
         /\ Moved(l, d, e).parent = l.parent
BY DEF Load, Moved

\* The next candidate differs from this one in its place only.
LEMMA NextType ==
  ASSUME TypeOK, NEW l \in Load, ~Exhausted(l), NEW next, next = NextCandidate(l)
  PROVE  /\ next \in Load
         /\ next.phase = "exists"
         /\ next.mod = l.mod /\ next.name = l.name /\ next.parent = l.parent
         /\ \/ l.ext = Plain /\ next.ext = DotJs /\ next.dir = l.dir
            \/ l.ext = DotJs /\ next.ext = Plain /\ next.dir = l.dir + 1
         /\ next.dir <= Len(GlobalPaths) + 2
<1>1. l.name \in Names /\ l.parent \in Mods \cup {Null} /\ l.dir \in Nat \ {0} /\ l.ext \in Exts
  BY DEF Load
<1>2. l.dir <= Len(GlobalPaths) + 1
  BY <1>1, SearchPathType DEF Exhausted
<1>3. CASE l.ext = Plain
  <2>1. next = [l EXCEPT !.phase = "exists", !.ext = DotJs]
    BY <1>3 DEF NextCandidate
  <2>2. PICK d : d = l.dir
    OBVIOUS
  <2>3. next = Moved(l, d, DotJs)
    BY <2>1, <2>2 DEF Load, Moved
  <2>4. d \in Nat \ {0} /\ DotJs \in Exts /\ d <= Len(GlobalPaths) + 2
    BY <1>1, <1>2, <2>2, TwoExts
  <2>5. /\ next \in Load
        /\ next.phase = "exists" /\ next.dir = d /\ next.ext = DotJs
        /\ next.mod = l.mod /\ next.name = l.name /\ next.parent = l.parent
    BY <2>3, <2>4, MovedLoad
  <2> QED BY <1>3, <2>2, <2>4, <2>5
<1>4. CASE l.ext = DotJs
  <2>1. PICK d : d = l.dir + 1
    OBVIOUS
  <2>2. next = Moved(l, d, Plain)
    BY <1>4, <2>1, TwoExts DEF NextCandidate, Moved
  <2>3. d \in Nat \ {0} /\ Plain \in Exts /\ d <= Len(GlobalPaths) + 2
    BY <1>1, <1>2, <2>1, TwoExts
  <2>4. /\ next \in Load
        /\ next.phase = "exists" /\ next.dir = d /\ next.ext = Plain
        /\ next.mod = l.mod /\ next.name = l.name /\ next.parent = l.parent
    BY <2>2, <2>3, MovedLoad
  <2> QED BY <1>4, <2>1, <2>3, <2>4
<1> QED BY <1>1, <1>3, <1>4, TwoExts

\* Going on to the next candidate misses nothing if this one is no file.
LEMMA NextMissed ==
  ASSUME TypeOK, NEW l \in Load, ~Exhausted(l), Missed(l), disk[Here(l)] \in {"none", "dir"}
  PROVE  Missed(NextCandidate(l))
<1>1. l.dir \in Nat \ {0} /\ l.ext \in Exts
  BY DEF Load
<1>2. PICK next : next = NextCandidate(l)
  OBVIOUS
<1>3. \/ l.ext = Plain /\ next.ext = DotJs /\ next.dir = l.dir
      \/ l.ext = DotJs /\ next.ext = Plain /\ next.dir = l.dir + 1
  BY <1>2, NextType
<1>4. \A i, e : Candidate(next, i, e) = Candidate(l, i, e)
  BY <1>2, NextType DEF Candidate
<1>5. ASSUME NEW i \in 1..next.dir, NEW e \in Exts, Tried(next, i, e)
      PROVE  disk[Real[Candidate(next, i, e)]] \in {"none", "dir"}
  <2>1. \/ i \in 1..l.dir /\ Tried(l, i, e)
        \/ i = l.dir /\ e = l.ext
    BY <1>1, <1>3, <1>5, TwoExts DEF Tried
  <2> QED BY <1>4, <2>1 DEF Missed, Here
<1> QED BY <1>2, <1>5 DEF Missed

\* A load in another phase is the same search.
InPhase(l, ph) == [l EXCEPT !.phase = ph]

\* A load that only changes its phase has the same candidates and history.
LEMMA InPhaseLoad ==
  ASSUME NEW l \in Load, NEW ph \in {"exists", "stat", "realpath", "read", "run"}
  PROVE  /\ InPhase(l, ph) \in Load
         /\ InPhase(l, ph).phase = ph
         /\ InPhase(l, ph).dir = l.dir /\ InPhase(l, ph).ext = l.ext
         /\ InPhase(l, ph).mod = l.mod /\ InPhase(l, ph).name = l.name
         /\ Exhausted(InPhase(l, ph)) <=> Exhausted(l)
         /\ Here(InPhase(l, ph)) = Here(l)
         /\ Missed(InPhase(l, ph)) <=> Missed(l)
<1>1. /\ InPhase(l, ph) \in Load
      /\ InPhase(l, ph).phase = ph /\ InPhase(l, ph).dir = l.dir
      /\ InPhase(l, ph).mod = l.mod /\ InPhase(l, ph).name = l.name
      /\ InPhase(l, ph).parent = l.parent /\ InPhase(l, ph).ext = l.ext
  BY DEF Load, InPhase
<1> QED BY <1>1 DEF Exhausted, Here, Missed, Candidate, Tried

\* The same, for the step from realpath to read.
Found(l, path) == [l EXCEPT !.phase = "read", !.found = path]

\* So has one that records the file it found.
LEMMA FoundLoad ==
  ASSUME NEW l \in Load, NEW path \in Paths
  PROVE  /\ Found(l, path) \in Load
         /\ Found(l, path).phase = "read"
         /\ Found(l, path).dir = l.dir /\ Found(l, path).ext = l.ext
         /\ Found(l, path).found = path
         /\ Found(l, path).mod = l.mod /\ Found(l, path).name = l.name
         /\ Exhausted(Found(l, path)) <=> Exhausted(l)
         /\ Here(Found(l, path)) = Here(l)
         /\ Missed(Found(l, path)) <=> Missed(l)
<1>1. /\ Found(l, path) \in Load
      /\ Found(l, path).phase = "read" /\ Found(l, path).dir = l.dir
      /\ Found(l, path).found = path
      /\ Found(l, path).mod = l.mod /\ Found(l, path).name = l.name
      /\ Found(l, path).parent = l.parent /\ Found(l, path).ext = l.ext
  BY DEF Load, Found
<1> QED BY <1>1 DEF Exhausted, Here, Missed, Candidate, Tried

-----------------------------------------------------------------------------
(* Each step preserves the invariant.                                      *)

\* The innermost search goes on, knowing of l what Sought says.
LEMMA AdvanceStep ==
  ASSUME LoaderInv, Searching, NEW l \in Load, Advance(l),
         l.mod = Top.mod, l.name = Top.name, l.phase # "run",
         l.dir <= Len(GlobalPaths) + 2,
         l.phase \in {"stat", "realpath", "read"} => ~Exhausted(l),
         l.phase = "read" => l.found = Here(l),
         ~disturbed =>
           /\ Missed(l)
           /\ l.phase = "stat" => disk[Here(l)] # "none"
           /\ l.phase \in {"realpath", "read"} => disk[Here(l)] \in {"file", "unreadable"}
  PROVE  LoaderInv'
<1> USE DEF LoaderInv
<1>1. /\ stack' \in Seq(Load) /\ Len(stack') = Len(stack) /\ stack' # <<>>
      /\ Len(stack) \in 1..Len(stack)
      /\ \A i \in 1..Len(stack) : i # Len(stack) => stack'[i] = stack[i]
      /\ stack'[Len(stack)] = l
  BY BecomeStack DEF Advance, Searching, TypeOK
<1>2. \A i \in 1..Len(stack) : stack'[i].mod = stack[i].mod /\ stack'[i].name = stack[i].name
  BY <1>1 DEF Top
<1>3. TypeOK'
  BY <1>1 DEF TypeOK, Advance
<1>4. Nested'
  BY <1>1 DEF Nested
<1>5. Counted' /\ SandboxStaysOut'
  BY DEF Counted, SandboxStaysOut, Advance
<1>6. Placed'
  BY <1>1, <1>2 DEF Placed, Advance, Searching, Top
<1>7. CyclesEnd'
  BY <1>1, <1>2 DEF CyclesEnd
<1>8. Sought'
  <2>1. file' = file /\ disk' = disk /\ disturbed' = disturbed
    BY DEF Advance
  <2>2. Top' = l
    BY <1>1 DEF Top
  <2>3. /\ Exhausted(l)' <=> Exhausted(l)
        /\ Here(l)' = Here(l)
        /\ Missed(l)' <=> Missed(l)
    BY <2>1, SameSearch
  <2> QED BY <2>1, <2>2, <2>3 DEF Sought, Exhausted, Here, Missed
<1>9. ReadsWhatItFound'
  BY DEF ReadsWhatItFound, Advance, Searching
<1> QED BY <1>3, <1>4, <1>5, <1>6, <1>7, <1>8, <1>9

\* The innermost load is over.
LEMMA PopStep ==
  ASSUME LoaderInv, stack # <<>>, fault = "none", stack' = Pop,
         UNCHANGED <<disk, cache, file, evals, used, disturbed, fault>>
  PROVE  LoaderInv'
<1> USE DEF LoaderInv
<1>1. /\ stack' \in Seq(Load) /\ Len(stack') = Len(stack) - 1
      /\ \A i \in 1..Len(stack') : i \in 1..Len(stack) /\ i < Len(stack) /\ stack'[i] = stack[i]
  BY PopStack DEF TypeOK
<1>2. TypeOK'
  BY <1>1 DEF TypeOK
<1>3. Nested' /\ Counted' /\ SandboxStaysOut' /\ ReadsWhatItFound'
  BY <1>1 DEF Nested, Counted, SandboxStaysOut, ReadsWhatItFound
<1>4. Placed'
  BY <1>1 DEF Placed
<1>5. CyclesEnd'
  BY <1>1 DEF CyclesEnd
<1>6. Sought'
  <2>1. stack' # <<>> => Len(stack') \in 1..Len(stack')
    BY <1>1
  <2> QED BY <1>1, <2>1 DEF Sought, Top, Nested
<1> QED BY <1>2, <1>3, <1>4, <1>5, <1>6

\* fs.existsSync: a candidate that does not exist joins the missed ones.
LEMMA ExistsStep ==
  ASSUME LoaderInv, Exists
  PROVE  LoaderInv'
<1> USE DEF LoaderInv
<1>1. Searching /\ ~Exhausted(Top) /\ Top \in Load /\ Top.dir <= Len(GlobalPaths) + 2
  BY TopType DEF Exists, Searching, Top, TypeOK
<1>2. ~disturbed => Missed(Top)
  BY <1>1 DEF Sought, Searching
<1>3. CASE disk[Here(Top)] = "none" /\ Advance(NextCandidate(Top))
  <2>1. PICK next : next = NextCandidate(Top)
    OBVIOUS
  <2>2. /\ next \in Load /\ next.phase = "exists" /\ next.mod = Top.mod /\ next.name = Top.name
        /\ next.dir <= Len(GlobalPaths) + 2
    BY <1>1, <2>1, NextType
  <2>3. ~disturbed => Missed(next)
    BY <1>1, <1>2, <1>3, <2>1, NextMissed
  <2> QED BY <1>1, <1>3, <2>1, <2>2, <2>3, AdvanceStep
<1>4. CASE disk[Here(Top)] # "none" /\ Advance(InPhase(Top, "stat"))
  <2>1. PICK next : next = InPhase(Top, "stat")
    OBVIOUS
  <2>2. /\ next \in Load /\ next.phase = "stat" /\ next.mod = Top.mod /\ next.name = Top.name
        /\ next.dir = Top.dir /\ ~Exhausted(next) /\ Here(next) = Here(Top)
        /\ Missed(next) <=> Missed(Top)
    BY <1>1, <2>1, InPhaseLoad
  <2> QED BY <1>1, <1>2, <1>4, <2>1, <2>2, AdvanceStep
<1> QED BY <1>3, <1>4 DEF Exists, InPhase

\* fs.statSync: so does one that is a directory.
LEMMA StatStep ==
  ASSUME LoaderInv, Stat
  PROVE  LoaderInv'
<1> USE DEF LoaderInv
<1>1. Searching /\ Top.phase = "stat" /\ Top \in Load /\ Top.dir <= Len(GlobalPaths) + 2
  BY TopType DEF Stat, Searching, Top, TypeOK
<1>2. ~Exhausted(Top) /\ (~disturbed => Missed(Top) /\ disk[Here(Top)] # "none")
  BY <1>1 DEF Sought, Searching
<1>3. CASE disk[Here(Top)] \in {"dir", "none"} /\ Advance(NextCandidate(Top))
  <2>1. PICK next : next = NextCandidate(Top)
    OBVIOUS
  <2>2. /\ next \in Load /\ next.phase = "exists" /\ next.mod = Top.mod /\ next.name = Top.name
        /\ next.dir <= Len(GlobalPaths) + 2
    BY <1>1, <1>2, <2>1, NextType
  <2>3. ~disturbed => Missed(next)
    BY <1>1, <1>2, <1>3, <2>1, NextMissed
  <2> QED BY <1>1, <1>3, <2>1, <2>2, <2>3, AdvanceStep
<1>4. CASE disk[Here(Top)] # "dir" /\ Advance(InPhase(Top, "realpath"))
  <2>1. PICK next : next = InPhase(Top, "realpath")
    OBVIOUS
  <2>2. /\ next \in Load /\ next.phase = "realpath" /\ next.mod = Top.mod /\ next.name = Top.name
        /\ next.dir = Top.dir /\ ~Exhausted(next) /\ Here(next) = Here(Top)
        /\ Missed(next) <=> Missed(Top)
    BY <1>1, <1>2, <2>1, InPhaseLoad
  <2>3. ~disturbed => disk[Here(Top)] \in {"file", "unreadable"}
    BY <1>1, <1>2, <1>4, HereType DEF TypeOK, FileKinds
  <2> QED BY <1>1, <1>2, <1>4, <2>1, <2>2, <2>3, AdvanceStep
<1> QED BY <1>3, <1>4 DEF Stat, InPhase

\* fs.realpathSync: the candidate becomes the file to read.
LEMMA RealpathStep ==
  ASSUME LoaderInv, Realpath
  PROVE  LoaderInv'
<1> USE DEF LoaderInv
<1>1. Searching /\ Top.phase = "realpath" /\ Top \in Load /\ Top.dir <= Len(GlobalPaths) + 2
  BY TopType DEF Realpath, Searching, Top, TypeOK
<1>2. /\ ~Exhausted(Top)
      /\ ~disturbed => Missed(Top) /\ disk[Here(Top)] \in {"file", "unreadable"}
  BY <1>1 DEF Sought, Searching
<1>3. CASE disk[Here(Top)] = "none" /\ Advance(NextCandidate(Top))
  <2>1. PICK next : next = NextCandidate(Top)
    OBVIOUS
  <2>2. /\ next \in Load /\ next.phase = "exists" /\ next.mod = Top.mod /\ next.name = Top.name
        /\ next.dir <= Len(GlobalPaths) + 2
    BY <1>1, <1>2, <2>1, NextType
  <2>3. disturbed
    BY <1>2, <1>3
  <2> QED BY <1>1, <1>3, <2>1, <2>2, <2>3, AdvanceStep
<1>4. CASE Advance(Found(Top, Here(Top)))
  <2>1. PICK next : next = Found(Top, Here(Top))
    OBVIOUS
  <2>2. /\ next \in Load /\ next.phase = "read" /\ next.mod = Top.mod /\ next.name = Top.name
        /\ next.dir = Top.dir /\ next.found = Here(Top) /\ ~Exhausted(next) /\ Here(next) = Here(Top)
        /\ Missed(next) <=> Missed(Top)
    BY <1>1, <1>2, <2>1, HereType, FoundLoad
  <2> QED BY <1>1, <1>2, <1>4, <2>1, <2>2, AdvanceStep
<1> QED BY <1>3, <1>4 DEF Realpath, Found

\* A sandbox is cached under its own name, a shared module under the one asked
\* for, which was free; nothing else is cached anew.
LEMMA EvaluateCaches ==
  ASSUME LoaderInv, NEW m \in Mods, NEW n \in Names, NEW path \in Paths \cup {Null},
         m \in Names => m = n /\ cache[n] = Null,
         Evaluate(m, n, path)
  PROVE  /\ cache' \in [Names -> Mods \cup {Null}]
         /\ file' \in [Mods -> Paths \cup {Null}]
         /\ evals' \in [Names -> Nat]
         /\ Counted' /\ SandboxStaysOut'
         /\ \A k \in Names : evals[k] = 1 => evals'[k] = 1
         /\ m \in Names => evals'[m] = 1
<1> USE DEF LoaderInv, TypeOK, Counted, SandboxStaysOut, Evaluate, AddCached
<1>1. CASE m \in Sandboxes
  <2>1. cache' = [cache EXCEPT ![App] = m] /\ file' = file /\ evals' = evals
    BY <1>1
  <2>2. m # Null /\ m \in Mods /\ App \in Names
    BY <1>1 DEF Mods
  <2>3. /\ cache' \in [Names -> Mods \cup {Null}]
        /\ \A k \in Names : k # App => cache'[k] = cache[k]
        /\ cache'[App] = m
    BY <2>1, <2>2
  <2>4. m \notin Names
    BY <1>1
  <2>5. Counted' /\ SandboxStaysOut'
    BY <2>1, <2>2, <2>3
  <2>6. file \in [Mods -> Paths \cup {Null}] /\ evals \in [Names -> Nat]
    OBVIOUS
  <2> HIDE DEF Counted, SandboxStaysOut, LoaderInv, TypeOK, Evaluate
  <2>7. /\ file' \in [Mods -> Paths \cup {Null}] /\ evals' \in [Names -> Nat]
        /\ \A k \in Names : evals[k] = 1 => evals'[k] = 1
    BY <2>1, <2>6
  <2> QED BY <2>3, <2>4, <2>5, <2>7
<1>2. CASE m \in Names
  <2>1. /\ m \notin Sandboxes /\ m # Null /\ m = n /\ evals[m] = 0
    BY <1>2
  <2>2. /\ cache' = [cache EXCEPT ![m] = m] /\ file' = [file EXCEPT ![m] = path]
        /\ evals' = [evals EXCEPT ![m] = 1]
    BY <2>1
  <2> QED BY <1>2, <2>1, <2>2
<1> QED BY <1>1, <1>2 DEF Mods

\* fs.readFileSync: the module is cached and its evaluation begins.
LEMMA ReadStep ==
  ASSUME LoaderInv, Read
  PROVE  LoaderInv'
<1> USE DEF LoaderInv
<1>1. /\ Searching /\ Top.phase = "read" /\ Top \in Load
      /\ Len(stack) \in 1..Len(stack) /\ stack # <<>>
      /\ Top.mod \in Mods /\ Top.name \in Names
  BY TopType DEF Read, Searching, Load
<1>2. CASE disk[Top.found] # "file" /\ fault' = "read"
           /\ UNCHANGED <<cache, file, evals, stack, disk, used, disturbed>>
  <2>1. TypeOK' /\ Nested' /\ Counted' /\ Placed' /\ CyclesEnd' /\ SandboxStaysOut'
    BY <1>2 DEF TypeOK, Nested, Counted, Placed, CyclesEnd, SandboxStaysOut
  <2>2. Top' = Top
    BY <1>2 DEF Top
  <2>3. Sought'
    <3>1. /\ Exhausted(Top)' <=> Exhausted(Top)
          /\ Here(Top)' = Here(Top)
          /\ Missed(Top)' <=> Missed(Top)
      BY <1>2, <2>2 DEF Exhausted, Here, Missed, Candidate, SearchPath, DirOf
    <3> QED BY <1>2, <2>2, <3>1 DEF Sought
  <2>4. ReadsWhatItFound'
    BY <1>1, <1>2, <2>2 DEF Sought, ReadsWhatItFound
  <2> QED BY <2>1, <2>3, <2>4
<1>3. CASE /\ Evaluate(Top.mod, Top.name, Top.found)
           /\ stack' = Become(InPhase(Top, "run"))
           /\ UNCHANGED <<fault, disk, used, disturbed>>
  <2>1. Top.mod \in Names => Top.mod = Top.name /\ cache[Top.name] = Null
    BY <1>1 DEF Placed, Top
  <2>2. Top.found \in Paths \cup {Null}
    BY <1>1 DEF Load
  <2>3. /\ cache' \in [Names -> Mods \cup {Null}]
        /\ file' \in [Mods -> Paths \cup {Null}]
        /\ evals' \in [Names -> Nat]
        /\ Counted' /\ SandboxStaysOut'
        /\ \A k \in Names : evals[k] = 1 => evals'[k] = 1
        /\ Top.mod \in Names => evals'[Top.mod] = 1
    BY <1>1, <1>3, <2>1, <2>2, EvaluateCaches
  <2>4. PICK l : l = InPhase(Top, "run")
    OBVIOUS
  <2>5. l \in Load /\ l.phase = "run" /\ l.mod = Top.mod /\ l.name = Top.name /\ l.dir = Top.dir
    BY <1>1, <2>4, InPhaseLoad
  <2>6. /\ stack' \in Seq(Load) /\ Len(stack') = Len(stack) /\ stack' # <<>>
        /\ \A i \in 1..Len(stack) : i # Len(stack) => stack'[i] = stack[i]
        /\ stack'[Len(stack)] = l
    BY <1>1, <1>3, <2>4, <2>5, BecomeStack DEF TypeOK
  <2>7. \A i \in 1..Len(stack) :
          stack'[i].mod = stack[i].mod /\ stack'[i].name = stack[i].name /\ stack'[i].dir = stack[i].dir
    BY <2>5, <2>6 DEF Top
  <2>8. \A i \in 1..Len(stack) : stack'[i].phase = "run" /\ (i # Len(stack) => stack[i].phase = "run")
    BY <2>5, <2>6 DEF Nested, TypeOK
  <2>9. TypeOK'
    BY <1>3, <2>3, <2>6, <2>7 DEF TypeOK
  <2>10. Nested' /\ Sought'
    BY <1>1, <2>6, <2>8 DEF Nested, Sought, Top
  <2>11. Placed'
    <3> SUFFICES ASSUME NEW i \in 1..Len(stack), stack[i].mod \in Names
                 PROVE  stack[i].name = stack[i].mod /\ evals'[stack[i].mod] = 1
      BY <2>6, <2>7, <2>8 DEF Placed
    <3>1. stack[i].name = stack[i].mod
      BY DEF Placed
    <3>2. CASE i = Len(stack)
      BY <2>3, <3>1, <3>2 DEF Top
    <3>3. CASE i # Len(stack)
      <4>1. evals[stack[i].mod] = 1
        BY <2>8, <3>3 DEF Placed
      <4> QED BY <2>3, <3>1, <4>1
    <3> QED BY <3>2, <3>3
  <2>12. CyclesEnd' /\ ReadsWhatItFound'
    BY <1>1, <1>3, <2>6, <2>7 DEF CyclesEnd, ReadsWhatItFound, Searching
  <2> QED BY <2>3, <2>9, <2>10, <2>11, <2>12
<1> QED BY <1>2, <1>3 DEF Read, InPhase

\* A new load of n into m may begin only where none of m is in progress.
LEMMA FreshLoad ==
  ASSUME LoaderInv, Running, NEW n \in Names, cache[n] = Null,
         NEW i \in 1..Len(stack), stack[i].mod = n
  PROVE  FALSE
<1>1. stack[i].phase = "run"
  BY DEF LoaderInv, Nested, Running, Top, TypeOK
<1>2. evals[n] = 1
  BY <1>1 DEF LoaderInv, Placed
<1> QED BY <1>2 DEF LoaderInv, Counted

\* A new load is a load, at the first candidate.
LEMMA NewLoadType ==
  ASSUME NEW m \in Mods, NEW n \in Names, NEW p \in Mods \cup {Null},
         NEW ph \in {"exists", "stat", "realpath", "read", "run"}
  PROVE  /\ NewLoad(m, n, p, ph) \in Load
         /\ NewLoad(m, n, p, ph).mod = m /\ NewLoad(m, n, p, ph).name = n
         /\ NewLoad(m, n, p, ph).phase = ph
         /\ NewLoad(m, n, p, ph).dir = 1 /\ NewLoad(m, n, p, ph).ext = Plain
BY TwoExts DEF NewLoad, Load

\* require: a shared module that is being loaded is cached or not required.
LEMMA RequireStep ==
  ASSUME LoaderInv, NEW p \in Mods, NEW m \in Mods, NEW n \in Names, Require(p, m, n)
  PROVE  LoaderInv'
<1> USE DEF LoaderInv
<1> DEFINE q == IF m \in Sandboxes THEN m ELSE p
<1>1. PICK l : l = NewLoad(m, n, q, "exists")
  OBVIOUS
<1>2. /\ l \in Load /\ l.mod = m /\ l.name = n /\ l.phase = "exists"
      /\ l.dir = 1 /\ l.ext = Plain
  BY <1>1, NewLoadType
<1>3. /\ Running /\ cache[n] = Null /\ (m \in Names => m = n)
      /\ stack' = Append(stack, l) /\ used' \subseteq Sandboxes
      /\ UNCHANGED <<disk, cache, file, evals, fault>> /\ disturbed' = FALSE
  BY <1>1 DEF Require, Requirer, TypeOK
<1>4. /\ stack' \in Seq(Load) /\ Len(stack') = Len(stack) + 1 /\ stack' # <<>>
      /\ \A i \in 1..Len(stack) : stack'[i] = stack[i]
      /\ stack'[Len(stack) + 1] = l
      /\ Len(stack) \in Nat
  BY <1>2, <1>3, PushStack DEF TypeOK
<1>5. TypeOK'
  <2>1. \A i \in 1..Len(stack') : stack'[i].dir <= Len(GlobalPaths) + 2
    <3>1. l.dir <= Len(GlobalPaths) + 2
      BY <1>2
    <3>2. \A i \in 1..Len(stack) : stack'[i].dir <= Len(GlobalPaths) + 2
      BY <1>4 DEF TypeOK
    <3>3. \A i \in 1..Len(stack') : i \in 1..Len(stack) \/ i = Len(stack) + 1
      BY <1>4
    <3> HIDE DEF LoaderInv
    <3> QED BY <1>4, <3>1, <3>2, <3>3
  <2> QED BY <1>3, <1>4, <2>1 DEF TypeOK
<1>6. \A i \in 1..Len(stack) : stack[i].phase = "run"
  BY <1>3, <1>4 DEF Nested, Running, Top
<1>7. Nested' /\ Counted' /\ SandboxStaysOut' /\ ReadsWhatItFound'
  BY <1>3, <1>4, <1>6 DEF Nested, Counted, SandboxStaysOut, ReadsWhatItFound, Running
<1>8. Placed'
  <2> SUFFICES ASSUME NEW i \in 1..Len(stack'), stack'[i].mod \in Names
               PROVE  /\ stack'[i].name = stack'[i].mod
                      /\ stack'[i].phase = "run" => evals[stack'[i].mod] = 1
                      /\ stack'[i].phase # "run" => cache[stack'[i].mod] = Null
    BY <1>3 DEF Placed
  <2>1. CASE i \in 1..Len(stack)
    BY <1>4, <2>1 DEF Placed
  <2>2. CASE i = Len(stack) + 1
    BY <1>2, <1>3, <1>4, <2>2
  <2>3. i \in 1..Len(stack) \/ i = Len(stack) + 1
    BY <1>4
  <2> QED BY <2>1, <2>2, <2>3
<1>9. CyclesEnd'
  <2>1. m \in Names => \A i \in 1..Len(stack) : stack[i].mod # m
    BY <1>3, FreshLoad
  <2>2. \A i \in 1..Len(stack') : i \in 1..Len(stack) \/ i = Len(stack) + 1
    BY <1>4
  <2>3. CyclesEnd
    OBVIOUS
  <2> HIDE DEF LoaderInv
  <2> QED BY <1>2, <1>4, <2>1, <2>2, <2>3 DEF CyclesEnd
<1>10. Sought'
  <2>1. Top' = l
    BY <1>4 DEF Top
  <2>2. Missed(l)'
    BY <1>2, TwoExts DEF Missed, Tried
  <2>3. Missed(Top)'
    BY <2>1, <2>2 DEF Missed, Tried, Candidate, SearchPath, DirOf
  <2> QED BY <1>2, <2>1, <2>3 DEF Sought
<1> QED BY <1>5, <1>7, <1>8, <1>9, <1>10

\* require_source: cached, then evaluated, with no search.
LEMMA RequireSourceStep ==
  ASSUME LoaderInv, NEW p \in Mods, NEW m \in Mods, NEW n \in Names, RequireSource(p, m, n)
  PROVE  LoaderInv'
<1> USE DEF LoaderInv
<1>1. PICK l : l = NewLoad(m, n, Null, "run")
  OBVIOUS
<1>2. /\ l \in Load /\ l.mod = m /\ l.name = n /\ l.phase = "run" /\ l.dir = 1
  BY <1>1, NewLoadType
<1>3. /\ Running /\ cache[n] = Null /\ (m \in Names => m = n) /\ Evaluate(m, n, Null)
      /\ stack' = Append(stack, l) /\ used' \subseteq Sandboxes
      /\ UNCHANGED <<disk, disturbed, fault>>
  BY <1>1 DEF RequireSource, Requirer, TypeOK
<1>4. /\ stack' \in Seq(Load) /\ Len(stack') = Len(stack) + 1 /\ stack' # <<>>
      /\ \A i \in 1..Len(stack) : stack'[i] = stack[i]
      /\ stack'[Len(stack) + 1] = l
      /\ Len(stack) \in Nat
  BY <1>2, <1>3, PushStack DEF TypeOK
<1>5. /\ cache' \in [Names -> Mods \cup {Null}]
      /\ file' \in [Mods -> Paths \cup {Null}]
      /\ evals' \in [Names -> Nat]
      /\ Counted' /\ SandboxStaysOut'
      /\ \A k \in Names : evals[k] = 1 => evals'[k] = 1
      /\ m \in Names => evals'[m] = 1
  BY <1>3, EvaluateCaches
<1>6. TypeOK'
  <2>1. \A i \in 1..Len(stack') : stack'[i].dir <= Len(GlobalPaths) + 2
    <3>1. l.dir <= Len(GlobalPaths) + 2
      BY <1>2
    <3>2. \A i \in 1..Len(stack) : stack'[i].dir <= Len(GlobalPaths) + 2
      BY <1>4 DEF TypeOK
    <3>3. \A i \in 1..Len(stack') : i \in 1..Len(stack) \/ i = Len(stack) + 1
      BY <1>4
    <3> HIDE DEF LoaderInv
    <3> QED BY <1>4, <3>1, <3>2, <3>3
  <2> QED BY <1>3, <1>4, <1>5, <2>1 DEF TypeOK
<1>7. \A i \in 1..Len(stack) : stack[i].phase = "run"
  BY <1>3, <1>4 DEF Nested, Running, Top
<1>8. Nested' /\ Sought' /\ ReadsWhatItFound'
  <2>1. Nested'
    BY <1>4, <1>7 DEF Nested
  <2>2. Sought'
    BY <1>2, <1>4 DEF Sought, Top
  <2>3. ReadsWhatItFound'
    BY <1>3 DEF ReadsWhatItFound, Running
  <2> QED BY <2>1, <2>2, <2>3
<1>9. Placed'
  <2>1. ASSUME NEW i \in 1..Len(stack'), stack'[i].mod \in Names
        PROVE  /\ stack'[i].name = stack'[i].mod
               /\ stack'[i].phase = "run"
               /\ evals'[stack'[i].mod] = 1
    <3>1. CASE i \in 1..Len(stack)
      BY <1>4, <1>5, <1>7, <2>1, <3>1 DEF Placed
    <3>2. CASE i = Len(stack) + 1
      BY <1>2, <1>3, <1>4, <1>5, <2>1, <3>2
    <3> QED BY <1>4, <2>1, <3>1, <3>2
  <2> QED BY <2>1 DEF Placed
<1>10. CyclesEnd'
  <2>1. m \in Names => \A i \in 1..Len(stack) : stack[i].mod # m
    BY <1>3, FreshLoad
  <2>2. \A i \in 1..Len(stack') : i \in 1..Len(stack) \/ i = Len(stack) + 1
    BY <1>4
  <2>3. CyclesEnd
    OBVIOUS
  <2> HIDE DEF LoaderInv
  <2>4. SUFFICES ASSUME NEW i \in 1..Len(stack'), NEW j \in 1..Len(stack'),
                        stack'[i].mod = stack'[j].mod, stack'[i].mod \in Names
                 PROVE  i = j
    BY DEF CyclesEnd
  <2>5. CASE i \in 1..Len(stack) /\ j \in 1..Len(stack)
    BY <1>4, <2>3, <2>4, <2>5 DEF CyclesEnd
  <2>6. CASE i = Len(stack) + 1 /\ j = Len(stack) + 1
    BY <2>6
  <2>7. CASE i \in 1..Len(stack) /\ j = Len(stack) + 1
    BY <1>2, <1>4, <2>1, <2>4, <2>7
  <2>8. CASE i = Len(stack) + 1 /\ j \in 1..Len(stack)
    BY <1>2, <1>4, <2>1, <2>4, <2>8
  <2> QED BY <2>2, <2>5, <2>6, <2>7, <2>8
<1> QED BY <1>5, <1>6, <1>8, <1>9, <1>10

\* runner.run: nothing is cached; the sandbox's module has no other load.
LEMMA RunStep ==
  ASSUME LoaderInv, NEW s \in Sandboxes, Run(s)
  PROVE  LoaderInv'
<1> USE DEF LoaderInv
<1>1. PICK l : l = NewLoad(s, App, Null, "run")
  OBVIOUS
<1>2. /\ l \in Load /\ l.mod = s /\ l.phase = "run" /\ l.dir = 1 /\ s \notin Names
  <2>1. s \in Mods /\ App \in Names /\ s \notin Names /\ Null \in Mods \cup {Null}
    BY DEF Mods
  <2> HIDE DEF LoaderInv
  <2> QED BY <1>1, <2>1, NewLoadType
<1>3. /\ Running /\ stack' = Append(stack, l) /\ used' \subseteq Sandboxes
      /\ UNCHANGED <<disk, cache, file, evals, disturbed, fault>>
  BY <1>1 DEF Run, TypeOK
<1>4. /\ stack' \in Seq(Load) /\ Len(stack') = Len(stack) + 1 /\ stack' # <<>>
      /\ \A i \in 1..Len(stack) : stack'[i] = stack[i]
      /\ stack'[Len(stack) + 1] = l
      /\ Len(stack) \in Nat
  BY <1>2, <1>3, PushStack DEF TypeOK
<1>5. TypeOK'
  <2>1. \A i \in 1..Len(stack') : stack'[i].dir <= Len(GlobalPaths) + 2
    <3>1. l.dir <= Len(GlobalPaths) + 2
      BY <1>2
    <3>2. \A i \in 1..Len(stack) : stack'[i].dir <= Len(GlobalPaths) + 2
      BY <1>4 DEF TypeOK
    <3>3. \A i \in 1..Len(stack') : i \in 1..Len(stack) \/ i = Len(stack) + 1
      BY <1>4
    <3> HIDE DEF LoaderInv
    <3> QED BY <1>4, <3>1, <3>2, <3>3
  <2> QED BY <1>3, <1>4, <2>1 DEF TypeOK
<1>6. \A i \in 1..Len(stack) : stack[i].phase = "run"
  BY <1>3, <1>4 DEF Nested, Running, Top
<1>7. Nested' /\ Sought' /\ ReadsWhatItFound' /\ Counted' /\ SandboxStaysOut'
  BY <1>2, <1>3, <1>4, <1>6
  DEF Nested, Sought, Top, ReadsWhatItFound, Running, Counted, SandboxStaysOut
<1>8. Placed'
  BY <1>2, <1>3, <1>4 DEF Placed
<1>9. CyclesEnd'
  BY <1>2, <1>4 DEF CyclesEnd
<1> QED BY <1>5, <1>7, <1>8, <1>9

\* Other programs only disturb the innermost search.
LEMMA OtherProgramStep ==
  ASSUME LoaderInv, NEW p \in Volatile, NEW k \in FileKinds, OtherProgram(p, k)
  PROVE  LoaderInv'
<1> USE DEF LoaderInv, OtherProgram
<1>1. TypeOK' /\ Nested' /\ Counted' /\ Placed' /\ CyclesEnd' /\ SandboxStaysOut' /\ ReadsWhatItFound'
  BY DEF TypeOK, Nested, Counted, Placed, CyclesEnd, SandboxStaysOut, ReadsWhatItFound
<1>2. Sought'
  <2>1. Top' = Top /\ (Exhausted(Top)' <=> Exhausted(Top)) /\ Here(Top)' = Here(Top)
    BY DEF Top, Exhausted, Here, Candidate, SearchPath, DirOf
  <2> QED BY <2>1 DEF Sought
<1> QED BY <1>1, <1>2

\* Every step preserves the invariant.
LEMMA LoaderStep == LoaderInv /\ [Next]_vars => LoaderInv'
<1> SUFFICES ASSUME LoaderInv, [Next]_vars PROVE LoaderInv'
  OBVIOUS
<1>1. CASE Exists
  BY <1>1, ExistsStep
<1>2. CASE Stat
  BY <1>2, StatStep
<1>3. CASE Realpath
  BY <1>3, RealpathStep
<1>4. CASE NotFound
  BY <1>4, PopStep DEF NotFound, Searching
<1>5. CASE Read
  BY <1>5, ReadStep
<1>6. CASE Done
  BY <1>6, PopStep DEF Done, Running
<1>7. ASSUME NEW p \in Mods, NEW m \in Mods, NEW n \in Names, Require(p, m, n)
      PROVE  LoaderInv'
  BY <1>7, RequireStep
<1>8. ASSUME NEW p \in Mods, NEW m \in Mods, NEW n \in Names, RequireSource(p, m, n)
      PROVE  LoaderInv'
  BY <1>8, RequireSourceStep
<1>9. ASSUME NEW s \in Sandboxes, Run(s)
      PROVE  LoaderInv'
  BY <1>9, RunStep
<1>10. ASSUME NEW p \in Volatile, NEW k \in FileKinds, OtherProgram(p, k)
       PROVE  LoaderInv'
  BY <1>10, OtherProgramStep
<1>11. CASE UNCHANGED vars
  <2>1. UNCHANGED <<disk, cache, file, evals, used, stack, disturbed, fault>>
    BY <1>11 DEF vars
  <2>2. TypeOK' /\ Nested' /\ Counted' /\ Placed' /\ CyclesEnd' /\ SandboxStaysOut'
    BY <2>1 DEF LoaderInv, TypeOK, Nested, Counted, Placed, CyclesEnd, SandboxStaysOut
  <2>3. Sought' /\ ReadsWhatItFound'
    <3>1. Top' = Top
      BY <2>1 DEF Top
    <3>2. /\ Exhausted(Top)' <=> Exhausted(Top)
          /\ Here(Top)' = Here(Top)
          /\ Missed(Top)' <=> Missed(Top)
      BY <2>1, <3>1 DEF Exhausted, Here, Missed, Candidate, SearchPath, DirOf
    <3> QED BY <2>1, <3>1, <3>2 DEF LoaderInv, Sought, ReadsWhatItFound
  <2> QED BY <2>2, <2>3 DEF LoaderInv
<1> QED BY <1>1, <1>2, <1>3, <1>4, <1>5, <1>6, <1>7, <1>8, <1>9, <1>10, <1>11
        DEF Next, Loader, Code

\* The initial state satisfies it.
LEMMA LoaderInit == Init => LoaderInv
<1> SUFFICES ASSUME Init PROVE LoaderInv
  OBVIOUS
<1>1. PICK l : l = NewLoad(Main, Main, Null, "exists")
  OBVIOUS
<1>2. /\ l \in Load /\ l.mod = Main /\ l.name = Main /\ l.phase = "exists"
      /\ l.dir = 1 /\ l.ext = Plain
  BY <1>1, NewLoadType DEF Mods
<1>3. stack = <<l>> /\ Len(stack) = 1 /\ stack[1] = l /\ Top = l
  BY <1>1 DEF Init, Top
<1>4. TypeOK
  <2>1. cache \in [Names -> Mods \cup {Null}]
    BY DEF Init, Mods
  <2>2. stack \in Seq(Load) /\ \A i \in 1..Len(stack) : stack[i].dir <= Len(GlobalPaths) + 2
    BY <1>2, <1>3
  <2> QED BY <2>1, <2>2 DEF Init, TypeOK, FileKinds
<1>5. Nested /\ Counted /\ CyclesEnd /\ ReadsWhatItFound
  BY <1>3 DEF Init, Nested, Counted, CyclesEnd, ReadsWhatItFound
<1>6. SandboxStaysOut
  BY DEF Init, SandboxStaysOut, Mods
<1>7. Placed
  BY <1>2, <1>3 DEF Init, Placed
<1>8. Sought
  BY <1>2, <1>3, TwoExts DEF Sought, Missed, Tried
<1> QED BY <1>4, <1>5, <1>6, <1>7, <1>8 DEF LoaderInv

-----------------------------------------------------------------------------
(* The theorems.                                                           *)

\* The inductive invariant holds in every reachable state.
THEOREM LoaderInvariant == Spec => []LoaderInv
<1>1. Init => LoaderInv
  BY LoaderInit
<1>2. LoaderInv /\ [Next]_vars => LoaderInv'
  BY LoaderStep
<1> QED BY <1>1, <1>2, PTL DEF Spec

\* TypeOK: the loader's state has its type, and no search runs off its path.
THEOREM LoaderTypeCorrect == Spec => []TypeOK
<1> QED BY LoaderInvariant, PTL DEF LoaderInv

\* No shared module is evaluated a second time (_load_js_source), whatever the
\* names, however loads nest, and whatever throws.
THEOREM ModulesAreEvaluatedOnce == Spec => []EvaluatedOnce
<1>1. LoaderInv => EvaluatedOnce
  BY DEF LoaderInv, Counted, EvaluatedOnce
<1> QED BY <1>1, LoaderInvariant, PTL

\* Modules that require each other in a circle never load one of them inside
\* its own load.
THEOREM RequireCyclesEnd == Spec => []CyclesEnd
<1>1. LoaderInv => CyclesEnd
  BY DEF LoaderInv
<1> QED BY <1>1, LoaderInvariant, PTL

\* Only under the name App does the cache ever lead into a sandbox.
THEOREM SandboxesStayOut == Spec => []SandboxStaysOut
<1>1. LoaderInv => SandboxStaysOut
  BY DEF LoaderInv
<1> QED BY <1>1, LoaderInvariant, PTL

\* Every search finds the first candidate that is a file, on any file system
\* that stays as it is while the search lasts.
THEOREM SearchesAreOrderly == Spec => []FirstMatchWins
<1>1. LoaderInv => FirstMatchWins
  BY DEF LoaderInv, Sought, FirstMatchWins, Searching
<1> QED BY <1>1, LoaderInvariant, PTL

\* A read can only fail for want of permission, or because another program
\* changed the file system during the search.
THEOREM ReadsAreSafe == Spec => []ReadsWhatItFound
<1>1. LoaderInv => ReadsWhatItFound
  BY DEF LoaderInv
<1> QED BY <1>1, LoaderInvariant, PTL

\* No step replaces a name's answer, App's excepted.
LEMMA AnswersStep ==
  ASSUME LoaderInv, [Next]_vars, NEW n \in Names \ {App}, cache[n] # Null
  PROVE  cache'[n] = cache[n]
<1>1. ASSUME NEW m \in Mods, NEW k \in Names, NEW path, cache[k] = Null \/ m \in Sandboxes,
             Evaluate(m, k, path)
      PROVE  cache'[n] = cache[n]
  BY <1>1 DEF Evaluate, AddCached, LoaderInv, TypeOK
<1>2. CASE Read
  <2>1. Searching /\ Top \in Load /\ Len(stack) \in 1..Len(stack) /\ Top.phase # "run"
    BY <1>2, TopType DEF Read, LoaderInv, Searching
  <2>2. Top.mod \in Mods /\ Top.name \in Names
    BY <2>1 DEF Load
  <2>3. cache[Top.name] = Null \/ Top.mod \in Sandboxes
    BY <2>1, <2>2 DEF LoaderInv, Placed, Top, Mods
  <2> QED BY <1>1, <1>2, <2>2, <2>3 DEF Read
<1>3. ASSUME NEW p \in Mods, NEW m \in Mods, NEW k \in Names, RequireSource(p, m, k)
      PROVE  cache'[n] = cache[n]
  BY <1>1, <1>3 DEF RequireSource, Requirer
<1> QED BY <1>2, <1>3
        DEF Next, Loader, Code, Exists, Stat, Realpath, Advance, NotFound, Require, Run, Done,
            OtherProgram, vars

\* The cache is never changed where it has an answer, App excepted.
THEOREM CachedAnswersAreFinal == Spec => AnswersAreFinal
<1>1. LoaderInv /\ [Next]_vars => [\A n \in Names \ {App} : cache[n] # Null => cache'[n] = cache[n]]_vars
  BY AnswersStep
<1> QED BY <1>1, LoaderInvariant, PTL DEF Spec, AnswersAreFinal

-----------------------------------------------------------------------------
(* Searches and loads are bounded.                                         *)

\* What a load has asked so far is between its candidate and the next.
LEMMA ProgressRange ==
  ASSUME NEW l \in Load
  PROVE  /\ Progress(l) \in Nat /\ Progress(l) <= 8 * l.dir + 7
         /\ l.ext = Plain  => Progress(l) >= 8 * l.dir /\ Progress(l) <= 8 * l.dir + 3
         /\ l.ext = DotJs  => Progress(l) >= 8 * l.dir + 4
<1>1. l.dir \in Nat /\ l.ext \in Exts
  BY DEF Load
<1>2. PICK q \in 0..3 : Progress(l) = 8 * l.dir + (IF l.ext = DotJs THEN 4 ELSE 0) + q
  <2> DEFINE q == CASE l.phase = "exists" -> 0 [] l.phase = "stat" -> 1
                    [] l.phase = "realpath" -> 2 [] OTHER -> 3
  <2>1. q \in 0..3
    OBVIOUS
  <2>2. Progress(l) = 8 * l.dir + (IF l.ext = DotJs THEN 4 ELSE 0) + q
    BY DEF Progress
  <2> HIDE DEF q
  <2> QED BY <2>1, <2>2
<1>3. CASE l.ext = Plain
  <2>1. PICK d \in Nat : d = l.dir
    BY <1>1
  <2>2. l.ext # DotJs /\ Progress(l) = 8 * d + q
    <3>1. l.ext # DotJs
      BY <1>3, TwoExts
    <3>2. (IF l.ext = DotJs THEN 4 ELSE 0) = 0
      BY <3>1
    <3> QED BY <1>2, <2>1, <3>1, <3>2
  <2>3. 8 * d + q \in Nat /\ 8 * d + q >= 8 * d /\ 8 * d + q <= 8 * d + 3 /\ 8 * d + q <= 8 * d + 7
    BY <2>1
  <2> QED BY <2>1, <2>2, <2>3
<1>4. CASE l.ext = DotJs
  <2>1. PICK d \in Nat : d = l.dir
    BY <1>1
  <2>2. l.ext # Plain /\ Progress(l) = 8 * d + 4 + q
    <3>1. l.ext # Plain
      BY <1>4, TwoExts
    <3>2. (IF l.ext = DotJs THEN 4 ELSE 0) = 4
      BY <1>4
    <3> QED BY <1>2, <2>1, <3>1, <3>2
  <2>3. 8 * d + 4 + q \in Nat /\ 8 * d + 4 + q >= 8 * d + 4 /\ 8 * d + 4 + q <= 8 * d + 7
    BY <2>1
  <2> QED BY <2>1, <2>2, <2>3
<1> QED BY <1>1, <1>3, <1>4, TwoExts

\* Every system call of a search brings it further along its path.
LEMMA SearchMoves ==
  ASSUME LoaderInv, Exists \/ Stat \/ Realpath
  PROVE  \E l \in Load :
           /\ Advance(l) /\ l.mod = Top.mod /\ l.name = Top.name /\ l.dir <= Len(GlobalPaths) + 2
           /\ Progress(Top) < Progress(l)
<1> DEFINE Goal == \E l \in Load :
                     /\ Advance(l) /\ l.mod = Top.mod /\ l.name = Top.name /\ l.dir <= Len(GlobalPaths) + 2
                     /\ Progress(Top) < Progress(l)
<1> SUFFICES Goal
  OBVIOUS
<1>1. Searching /\ Top \in Load /\ Top.dir <= Len(GlobalPaths) + 2
  BY TopType DEF LoaderInv, Exists, Stat, Realpath, Searching, TypeOK, Top
<1>2. ~Exhausted(Top)
  BY <1>1 DEF LoaderInv, Sought, Exists, Stat, Realpath, Searching
<1>3. Top.dir \in Nat /\ Top.ext \in Exts
  BY <1>1 DEF Load
<1>4. CASE Advance(NextCandidate(Top))
  <2>1. PICK l : l = NextCandidate(Top)
    OBVIOUS
  <2>2. /\ l \in Load /\ l.mod = Top.mod /\ l.name = Top.name /\ l.dir <= Len(GlobalPaths) + 2
        /\ \/ Top.ext = Plain /\ l.ext = DotJs /\ l.dir = Top.dir
           \/ Top.ext = DotJs /\ l.ext = Plain /\ l.dir = Top.dir + 1
    BY <1>1, <1>2, <2>1, NextType DEF LoaderInv
  <2>3. Progress(Top) < Progress(l)
    <3>1. PICK d \in Nat, a \in Nat, b \in Nat : d = Top.dir /\ a = Progress(Top) /\ b = Progress(l)
      BY <1>1, <1>3, <2>2, ProgressRange
    <3>2. a <= 8 * d + 7 /\ (Top.ext = Plain => a <= 8 * d + 3)
      BY <1>1, <3>1, ProgressRange
    <3>3. CASE Top.ext = Plain /\ l.ext = DotJs /\ l.dir = d
      <4>1. b >= 8 * d + 4
        BY <2>2, <3>1, <3>3, ProgressRange
      <4> QED BY <3>1, <3>2, <3>3, <4>1
    <3>4. CASE Top.ext = DotJs /\ l.ext = Plain /\ l.dir = d + 1
      <4>1. b >= 8 * (d + 1)
        BY <2>2, <3>1, <3>4, ProgressRange
      <4> QED BY <3>1, <3>2, <4>1
    <3> QED BY <2>2, <3>1, <3>3, <3>4
  <2> QED BY <1>4, <2>1, <2>2, <2>3
<1>5. ASSUME NEW ph \in {"stat", "realpath"}, Advance(InPhase(Top, ph)),
             Top.phase = "exists" \/ (Top.phase = "stat" /\ ph = "realpath")
      PROVE  Goal
  <2>1. PICK l : l = InPhase(Top, ph)
    OBVIOUS
  <2>2. l \in Load /\ l.mod = Top.mod /\ l.name = Top.name /\ l.phase = ph /\ l.dir = Top.dir /\ l.ext = Top.ext
    BY <1>1, <2>1, InPhaseLoad
  <2>3. Progress(Top) < Progress(l)
    BY <1>3, <1>5, <2>2 DEF Progress
  <2> QED BY <1>1, <1>5, <2>1, <2>2, <2>3
<1>6. CASE Advance(Found(Top, Here(Top))) /\ Top.phase = "realpath"
  <2>1. PICK l : l = Found(Top, Here(Top))
    OBVIOUS
  <2>2. l \in Load /\ l.mod = Top.mod /\ l.name = Top.name /\ l.phase = "read" /\ l.dir = Top.dir /\ l.ext = Top.ext
    BY <1>1, <1>2, <2>1, HereType, FoundLoad DEF LoaderInv
  <2>3. Progress(Top) < Progress(l)
    BY <1>3, <1>6, <2>2 DEF Progress
  <2> QED BY <1>1, <1>6, <2>1, <2>2, <2>3
<1> HIDE DEF Goal
<1> QED BY <1>4, <1>5, <1>6 DEF Exists, Stat, Realpath, InPhase, Found

\* A search comes to an end after at most 8 * (Len(GlobalPaths) + 3) system
\* calls, whatever other programs do to the files meanwhile (resolve_filename
\* and try_file never go back).
THEOREM SearchesAdvance == Spec => SearchAdvances
<1>1. ASSUME LoaderInv, [Next]_vars, Searching, stack' # stack
      PROVE  \/ Len(stack') < Len(stack)
             \/ Top'.phase = "run"
             \/ /\ Len(stack') = Len(stack) /\ Top'.mod = Top.mod
                /\ Progress(Top) < Progress(Top')
                /\ Progress(Top') < 8 * (Len(GlobalPaths) + 3)
  <2>1. stack \in Seq(Load) /\ stack # <<>> /\ Top.phase # "run" /\ Top \in Load
    BY <1>1, TopType DEF LoaderInv, TypeOK, Searching
  <2>2. CASE Exists \/ Stat \/ Realpath
    <3>1. PICK l \in Load : /\ Advance(l) /\ l.mod = Top.mod /\ l.dir <= Len(GlobalPaths) + 2
                            /\ Progress(Top) < Progress(l)
      BY <1>1, <2>2, SearchMoves
    <3>2. Len(stack') = Len(stack) /\ Top' = l
      BY <2>1, <3>1, BecomeStack DEF Advance, Top
    <3>3. l.dir \in Nat /\ Len(GlobalPaths) \in Nat
      BY DEF Load
    <3>4. Progress(l) < 8 * (Len(GlobalPaths) + 3)
      BY <3>1, <3>3, ProgressRange
    <3> QED BY <3>1, <3>2, <3>4
  <2>3. CASE NotFound
    BY <2>1, <2>3, PopStack DEF NotFound
  <2>4. CASE Read
    <3>1. stack' = Become(InPhase(Top, "run"))
      BY <1>1, <2>4 DEF Read, InPhase
    <3>2. PICK l : l = InPhase(Top, "run")
      OBVIOUS
    <3>3. l \in Load /\ l.phase = "run"
      BY <2>1, <3>2, InPhaseLoad
    <3> QED BY <2>1, <3>1, <3>2, <3>3, BecomeStack DEF Top
  <2>5. CASE Code \/ (\E p \in Volatile, k \in FileKinds : OtherProgram(p, k)) \/ UNCHANGED vars
    BY <1>1, <2>1, <2>5
       DEF Code, Require, RequireSource, Requirer, Run, Done, Running, OtherProgram, vars
  <2> QED BY <1>1, <2>2, <2>3, <2>4, <2>5 DEF Next, Loader
<1>2. LoaderInv /\ [Next]_vars =>
        [Searching /\ stack' # stack =>
           \/ Len(stack') < Len(stack)
           \/ Top'.phase = "run"
           \/ /\ Len(stack') = Len(stack) /\ Top'.mod = Top.mod
              /\ Progress(Top) < Progress(Top')
              /\ Progress(Top') < 8 * (Len(GlobalPaths) + 3)]_vars
  BY <1>1
<1> QED BY <1>2, LoaderInvariant, PTL DEF Spec, SearchAdvances

\* Built-in names are cached from the start, so no load is for one of them.
BuiltinsApart ==
  /\ \A b \in Builtins : cache[b] # Null
  /\ \A i \in 1..Len(stack) : stack[i].mod \notin Builtins

\* require answers a built-in name from the cache.
LEMMA BuiltinsStep ==
  ASSUME LoaderInv, BuiltinsApart, [Next]_vars
  PROVE  BuiltinsApart'
<1> DEFINE Apart == \A i \in 1..Len(stack) : stack[i].mod \notin Builtins
<1>1. stack \in Seq(Load) /\ Apart
  BY DEF LoaderInv, TypeOK, BuiltinsApart
<1>2. \A b \in Builtins : cache'[b] # Null
  BY AnswersStep DEF BuiltinsApart
<1>3. ASSUME NEW l \in Load, stack' = Append(stack, l), l.mod \notin Builtins PROVE Apart'
  <2>1. \A i \in 1..Len(stack') : i \in 1..Len(stack) \/ i = Len(stack) + 1
    BY <1>1, <1>3, PushStack
  <2> QED BY <1>1, <1>3, <2>1, PushStack
<1>4. ASSUME stack # <<>>, stack' = Pop PROVE Apart'
  BY <1>1, <1>4, PopStack
<1>5. ASSUME stack # <<>>, NEW l \in Load, stack' = Become(l), l.mod = Top.mod PROVE Apart'
  <2>1. /\ Len(stack') = Len(stack) /\ Len(stack) \in 1..Len(stack) /\ stack'[Len(stack)] = l
        /\ \A i \in 1..Len(stack) : i # Len(stack) => stack'[i] = stack[i]
    BY <1>1, <1>5, BecomeStack
  <2> QED BY <1>1, <1>5, <2>1 DEF Top
<1>6. ASSUME Exists \/ Stat \/ Realpath PROVE Apart'
  BY <1>5, <1>6, SearchMoves DEF Advance, Exists, Stat, Realpath, Searching
<1>7. ASSUME Read PROVE Apart'
  <2>1. PICK l : l = InPhase(Top, "run")
    OBVIOUS
  <2>2. stack # <<>> /\ Top \in Load
    BY <1>7, TopType DEF Read, Searching, LoaderInv
  <2>3. l \in Load /\ l.mod = Top.mod
    BY <2>1, <2>2, InPhaseLoad
  <2>4. stack' = Become(l) \/ stack' = stack
    BY <1>7, <2>1 DEF Read, InPhase
  <2> QED BY <1>1, <1>5, <2>2, <2>3, <2>4
<1>8. ASSUME NEW p \in Mods, NEW m \in Mods, NEW n \in Names, Require(p, m, n) \/ RequireSource(p, m, n)
      PROVE  Apart'
  <2>1. m \notin Builtins
    BY <1>8 DEF Require, RequireSource, Requirer, BuiltinsApart, Mods
  <2>2. PICK q \in Mods \cup {Null}, ph \in {"exists", "run"} : stack' = Append(stack, NewLoad(m, n, q, ph))
    BY <1>8 DEF Require, RequireSource
  <2>3. PICK l : l = NewLoad(m, n, q, ph)
    OBVIOUS
  <2>4. l \in Load /\ l.mod = m
    BY <1>8, <2>3, NewLoadType
  <2> QED BY <1>3, <2>1, <2>2, <2>3, <2>4
<1>9. ASSUME NEW s \in Sandboxes, Run(s) PROVE Apart'
  <2>1. s \in Mods \ Builtins /\ stack' = Append(stack, NewLoad(s, App, Null, "run"))
    BY <1>9 DEF Run, Mods
  <2> QED BY <1>3, <2>1, NewLoadType
<1>10. ASSUME NotFound \/ Done PROVE Apart'
  BY <1>4, <1>10 DEF NotFound, Done, Searching, Running
<1>11. ASSUME (\E p \in Volatile, k \in FileKinds : OtherProgram(p, k)) \/ UNCHANGED vars PROVE Apart'
  BY <1>1, <1>11 DEF OtherProgram, vars
<1>12. Apart'
  <2> HIDE DEF Apart
  <2> QED BY <1>6, <1>7, <1>8, <1>9, <1>10, <1>11 DEF Next, Loader, Code
<1> QED BY <1>2, <1>12 DEF BuiltinsApart

\* The invariant holds from the start: Main is no built-in name.
THEOREM BuiltinsStayApart == Spec => []BuiltinsApart
<1>1. Init => BuiltinsApart
  <2> SUFFICES ASSUME Init PROVE BuiltinsApart
    OBVIOUS
  <2>1. PICK l : l = NewLoad(Main, Main, Null, "exists")
    OBVIOUS
  <2>2. l.mod = Main /\ stack = <<l>>
    BY <2>1 DEF NewLoad, Init
  <2> QED BY <2>2 DEF Init, BuiltinsApart, Mods
<1>2. LoaderInv /\ BuiltinsApart /\ [Next]_vars => BuiltinsApart'
  BY BuiltinsStep
<1> QED BY <1>1, <1>2, LoaderInvariant, PTL DEF Spec

\* No step caches a name that is searched for but the one that ends the search.
LEMMA UncachedStep ==
  ASSUME LoaderInv, StillUncached, [Next]_vars
  PROVE  StillUncached'
<1>1. stack \in Seq(Load)
  BY DEF LoaderInv, TypeOK
<1>2. SUFFICES ASSUME stack' # <<>>, Top'.phase # "run" PROVE cache'[Top'.name] = Null
  BY DEF StillUncached
<1>3. CASE Exists \/ Stat \/ Realpath
  <2>1. PICK l \in Load : Advance(l) /\ l.name = Top.name
    BY <1>3, SearchMoves
  <2>2. stack # <<>> /\ Top.phase # "run"
    BY <1>3 DEF Exists, Stat, Realpath, Searching
  <2>3. Top' = l
    BY <1>1, <2>1, <2>2, BecomeStack DEF Advance, Top
  <2> QED BY <2>1, <2>2, <2>3 DEF Advance, StillUncached
<1>4. CASE Read
  <2>1. stack # <<>> /\ Top \in Load /\ Top.phase # "run"
    BY <1>4, TopType DEF LoaderInv, Read, Searching
  <2>2. CASE stack' = Become(InPhase(Top, "run"))
    <3>1. PICK l : l = InPhase(Top, "run")
      OBVIOUS
    <3>2. l \in Load /\ l.phase = "run"
      BY <2>1, <3>1, InPhaseLoad
    <3>3. Top' = l
      BY <1>1, <2>1, <2>2, <3>1, <3>2, BecomeStack DEF Top
    <3> QED BY <1>2, <3>2, <3>3
  <2>3. CASE UNCHANGED <<stack, cache>>
    BY <2>1, <2>3 DEF StillUncached, Top
  <2> QED BY <1>4, <2>2, <2>3 DEF Read, InPhase
<1>5. CASE NotFound \/ Done
  <2>1. stack # <<>> /\ stack' = Pop
    BY <1>5 DEF NotFound, Done, Searching, Running
  <2>2. Len(stack') \in 1..Len(stack') /\ Len(stack') \in 1..Len(stack) /\ Len(stack') < Len(stack)
    <3>1. stack' \in Seq(Load) /\ Len(stack') = Len(stack) - 1
      BY <1>1, <2>1, PopStack
    <3> QED BY <1>1, <1>2, <3>1
  <2>3. Top' = stack[Len(stack')]
    BY <1>1, <2>1, <2>2, PopStack DEF Top
  <2> QED BY <1>2, <2>2, <2>3 DEF LoaderInv, Nested
<1>6. ASSUME NEW p \in Mods, NEW m \in Mods, NEW n \in Names, Require(p, m, n)
      PROVE  cache'[Top'.name] = Null
  <2>1. PICK l : l = NewLoad(m, n, IF m \in Sandboxes THEN m ELSE p, "exists")
    OBVIOUS
  <2>2. l \in Load /\ l.name = n
    BY <2>1, NewLoadType
  <2>3. Top' = l
    BY <1>1, <1>6, <2>1, <2>2, PushStack DEF Require, Top
  <2> QED BY <1>6, <2>2, <2>3 DEF Require, Requirer
<1>7. ASSUME NEW l \in Load, l.phase = "run", stack' = Append(stack, l) PROVE FALSE
  <2>1. Top' = l
    BY <1>1, <1>7, PushStack DEF Top
  <2> QED BY <1>2, <1>7, <2>1
<1>8. ASSUME NEW p \in Mods, NEW m \in Mods, NEW n \in Names, RequireSource(p, m, n)
      PROVE  FALSE
  <2>1. PICK l : l = NewLoad(m, n, Null, "run")
    OBVIOUS
  <2>2. l \in Load /\ l.phase = "run"
    BY <2>1, NewLoadType
  <2> QED BY <1>7, <1>8, <2>1, <2>2 DEF RequireSource
<1>9. ASSUME NEW s \in Sandboxes, Run(s) PROVE FALSE
  <2>1. PICK l : l = NewLoad(s, App, Null, "run")
    OBVIOUS
  <2>2. l \in Load /\ l.phase = "run"
    BY <2>1, NewLoadType, LoaderAssumption DEF Mods
  <2> QED BY <1>7, <1>9, <2>1, <2>2 DEF Run
<1>10. CASE (\E p \in Volatile, k \in FileKinds : OtherProgram(p, k)) \/ UNCHANGED vars
  BY <1>2, <1>10 DEF OtherProgram, vars, StillUncached, Top
<1> QED BY <1>3, <1>4, <1>5, <1>6, <1>8, <1>9, <1>10 DEF Next, Loader, Code

\* A name is not in the cache while it is searched for and read, whatever else is
\* being loaded: the looks at the cache in _load_js_module and _load_js_source
\* never find what require did not.
THEOREM SearchedNamesAreUncached == Spec => []StillUncached
<1>1. Init => StillUncached
  <2> SUFFICES ASSUME Init PROVE StillUncached
    OBVIOUS
  <2>1. PICK l : l = NewLoad(Main, Main, Null, "exists")
    OBVIOUS
  <2>2. l.name = Main /\ Top = l
    BY <2>1 DEF NewLoad, Init, Top
  <2> QED BY <2>2, LoaderAssumption DEF Init, StillUncached
<1>2. LoaderInv /\ StillUncached /\ [Next]_vars => StillUncached'
  BY UncachedStep
<1> QED BY <1>1, <1>2, LoaderInvariant, PTL DEF Spec

\* The loads in progress that are for shared modules.
SharedLoads == {i \in 1..Len(stack) : stack[i].mod \in Names}

\* They are for different names that are not built in: pigeonhole.
LEMMA SharedLoadsCount ==
  ASSUME LoaderInv, BuiltinsApart, IsFiniteSet(Names)
  PROVE  Cardinality(SharedLoads) <= Cardinality(Names \ Builtins)
<1> DEFINE f == [i \in SharedLoads |-> stack[i].mod]
<1>1. f \in [SharedLoads -> Names \ Builtins]
  BY DEF SharedLoads, BuiltinsApart
<1>2. \A i, j \in SharedLoads : f[i] = f[j] => i = j
  BY DEF SharedLoads, LoaderInv, CyclesEnd
<1>3. f \in Injection(SharedLoads, Names \ Builtins)
  BY <1>1, <1>2 DEF Injection, IsInjective
<1>4. IsFiniteSet(Names \ Builtins)
  BY FS_Difference
<1> QED BY <1>3, <1>4, FS_Injection

\* require needs no more stack than there are names to load, however the
\* modules require each other (the cache is filled before the evaluation).
THEOREM LoadsNestBounded ==
  ASSUME IsFiniteSet(Names)
  PROVE  Spec => []NestingIsBounded
<1>1. LoaderInv /\ BuiltinsApart => NestingIsBounded
  BY SharedLoadsCount DEF NestingIsBounded, SharedLoads
<1> QED BY <1>1, LoaderInvariant, BuiltinsStayApart, PTL

\* So a program without sandboxes never exceeds an engine's recursion limit
\* that is as large as the number of its modules.
THEOREM StackIsBounded ==
  ASSUME IsFiniteSet(Names), Sandboxes = {}
  PROVE  Spec => [](Len(stack) <= Cardinality(Names \ Builtins))
<1>1. LoaderInv /\ BuiltinsApart => Len(stack) <= Cardinality(Names \ Builtins)
  <2> SUFFICES ASSUME LoaderInv, BuiltinsApart
               PROVE  Len(stack) <= Cardinality(Names \ Builtins)
    OBVIOUS
  <2>1. stack \in Seq(Load) /\ Len(stack) \in Nat
    BY DEF LoaderInv, TypeOK
  <2>2. \A i \in 1..Len(stack) : stack[i].mod \in Names
    <3>1. ASSUME NEW i \in 1..Len(stack) PROVE stack[i].mod \in Mods
      <4>1. stack[i] \in Load
        BY <2>1
      <4> QED BY <4>1 DEF Load
    <3> QED BY <3>1 DEF Mods
  <2>3. SharedLoads = 1..Len(stack)
    BY <2>2 DEF SharedLoads
  <2>4. Cardinality(1..Len(stack)) = Len(stack)
    <3>1. PICK n \in Nat : n = Len(stack)
      BY <2>1
    <3>2. Cardinality(1..n) = IF 1 > n THEN 0 ELSE n - 1 + 1
      BY FS_Interval
    <3> QED BY <3>1, <3>2
  <2> QED BY <2>3, <2>4, SharedLoadsCount
<1> QED BY <1>1, LoaderInvariant, BuiltinsStayApart, PTL

-----------------------------------------------------------------------------
(* The loader implements ModuleLife.                                       *)

StatusMap == [n \in Names |-> Status(n)]

\* The status of a module that takes no part in a step that fills the cache.
Answered(n) == IF Status(n) = "absent" /\ cache'[n] # Null THEN "ready" ELSE Status(n)

\* Nobody is sought while code runs, and the name sought is the innermost one.
LEMMA QuietWhenRunning ==
  ASSUME stack = <<>> \/ Top.phase = "run" \/ Top.mod \notin Names
  PROVE  \A n \in Names : Status(n) # "sought"
BY DEF Status

\* A search in progress is visible in the status of its module, and the module
\* has no answer yet.
LEMMA SoughtStatus ==
  ASSUME LoaderInv, Searching, Top.mod \in Names
  PROVE  Status(Top.mod) = "sought" /\ cache[Top.mod] = Null
<1>1. Len(stack) \in 1..Len(stack)
  BY TopType DEF Searching, LoaderInv
<1> QED BY <1>1 DEF Status, Searching, LoaderInv, Placed, Top

\* So is the evaluation of the innermost module, which has one.
LEMMA RunningStatus ==
  ASSUME LoaderInv, Running, Top.mod \in Names
  PROVE  Status(Top.mod) = "running" /\ cache[Top.mod] # Null
<1>1. Len(stack) \in 1..Len(stack)
  BY TopType DEF Running, LoaderInv
<1>2. evals[Top.mod] = 1
  BY <1>1 DEF LoaderInv, Placed, Top, Running
<1> QED BY <1>1, <1>2 DEF Status, InProgress, Running, LoaderInv, Counted, Top

\* A module that may be required has neither an answer nor a load.
LEMMA AbsentStatus ==
  ASSUME LoaderInv, Running, NEW n \in Names, cache[n] = Null
  PROVE  Status(n) = "absent"
<1>1. ~InProgress(n)
  BY FreshLoad DEF InProgress
<1> QED BY <1>1 DEF Status, Running

\* The innermost search goes on, or its source is run; no other module notices.
LEMMA BecomeStatus ==
  ASSUME LoaderInv, Searching, NEW l \in Load, l.mod = Top.mod, stack' = Become(l),
         NEW n \in Names, cache'[n] = cache[n] \/ cache'[n] # Null
  PROVE  /\ n # Top.mod => Status(n)' = Answered(n)
         /\ n = Top.mod => Status(n)' = IF l.phase = "run" THEN "running" ELSE "sought"
<1>1. /\ Len(stack') = Len(stack) /\ stack' # <<>> /\ stack # <<>>
      /\ Len(stack) \in 1..Len(stack)
      /\ \A i \in 1..Len(stack) : i # Len(stack) => stack'[i] = stack[i]
      /\ stack'[Len(stack)] = l
  BY BecomeStack DEF Searching, LoaderInv, TypeOK
<1>2. Top' = l
  BY <1>1 DEF Top
<1>3. InProgress(n)' <=> InProgress(n)
  BY <1>1 DEF InProgress, Top
<1>4. n = Top.mod => InProgress(n)
  BY <1>1 DEF InProgress, Top
<1> QED BY <1>1, <1>2, <1>3, <1>4 DEF Status, Answered

\* The innermost load ends; no other module notices.
LEMMA PopStatus ==
  ASSUME LoaderInv, stack # <<>>, stack' = Pop, cache' = cache, NEW n \in Names
  PROVE  /\ n # Top.mod => Status(n)' = Status(n)
         /\ n = Top.mod => Status(n)' = IF cache[n] # Null THEN "ready" ELSE "absent"
<1>1. /\ stack' \in Seq(Load) /\ Len(stack') = Len(stack) - 1
      /\ \A i \in 1..Len(stack') : i \in 1..Len(stack) /\ i < Len(stack) /\ stack'[i] = stack[i]
      /\ Len(stack) \in 1..Len(stack) /\ Len(stack) \in Nat
  BY PopStack, TopType DEF LoaderInv, TypeOK
<1>2. stack' # <<>> => Top'.phase = "run"
  <2>1. ASSUME stack' # <<>> PROVE Len(stack') \in 1..Len(stack')
    BY <1>1, <2>1
  <2> QED BY <1>1, <2>1 DEF Top, LoaderInv, Nested
<1>3. n # Top.mod => (InProgress(n)' <=> InProgress(n))
  <2>1. ASSUME NEW i \in 1..Len(stack), stack[i].mod = n, n # Top.mod
        PROVE  i \in 1..Len(stack') /\ stack'[i].mod = n
    BY <1>1, <2>1 DEF Top
  <2> QED BY <1>1, <2>1 DEF InProgress
<1>4. n = Top.mod => ~InProgress(n)'
  <2>1. ASSUME NEW i \in 1..Len(stack'), stack'[i].mod = n, n = Top.mod
        PROVE  FALSE
    <3>1. i \in 1..Len(stack) /\ i < Len(stack) /\ stack[i].mod = n /\ stack[Len(stack)].mod = n
      BY <1>1, <2>1 DEF Top
    <3> QED BY <1>1, <3>1 DEF LoaderInv, CyclesEnd
  <2> QED BY <2>1 DEF InProgress
<1> QED BY <1>2, <1>3, <1>4 DEF Status

\* A load begins; no other module notices.
LEMMA PushStatus ==
  ASSUME LoaderInv, Running, NEW l \in Load, stack' = Append(stack, l),
         NEW n \in Names, cache'[n] = cache[n] \/ cache'[n] # Null
  PROVE  /\ n # l.mod => Status(n)' = Answered(n)
         /\ n = l.mod => Status(n)' = IF l.phase = "run" THEN "running" ELSE "sought"
<1>1. /\ Len(stack') = Len(stack) + 1 /\ stack' # <<>>
      /\ \A i \in 1..Len(stack) : stack'[i] = stack[i]
      /\ stack'[Len(stack) + 1] = l
      /\ Len(stack) \in Nat
  BY PushStack DEF LoaderInv, TypeOK
<1>2. Top' = l
  BY <1>1 DEF Top
<1>3. \A i \in 1..Len(stack') : i \in 1..Len(stack) \/ i = Len(stack) + 1
  BY <1>1
<1>4. n # l.mod => (InProgress(n)' <=> InProgress(n))
  BY <1>1, <1>3 DEF InProgress
<1>5. n = l.mod => InProgress(n)'
  <2>1. Len(stack) + 1 \in 1..Len(stack')
    BY <1>1
  <2> QED BY <1>1, <2>1 DEF InProgress
<1> QED BY <1>1, <1>2, <1>4, <1>5 DEF Status, Answered, Running

\* A search that stays one is a stutter.
LEMMA AdvanceLife ==
  ASSUME LoaderInv, Searching, NEW l \in Load, l.mod = Top.mod, l.phase # "run", Advance(l)
  PROVE  UNCHANGED <<StatusMap, cache>>
<1>1. stack' = Become(l) /\ cache' = cache
  BY DEF Advance
<1>2. ASSUME NEW n \in Names PROVE Status(n)' = Status(n)
  <2>1. Answered(n) = Status(n)
    BY <1>1 DEF Answered, Status
  <2>2. n # Top.mod => Status(n)' = Status(n)
    BY <1>1, <2>1, BecomeStatus
  <2>3. n = Top.mod => Status(n)' = "sought" /\ Status(n) = "sought"
    BY <1>1, BecomeStatus, SoughtStatus
  <2> QED BY <2>2, <2>3
<1> QED BY <1>1, <1>2 DEF StatusMap

\* The pointwise form of a step of ModuleLife that concerns module m.
LEMMA MapStep ==
  ASSUME NEW m \in Names, NEW x, Status(m)' = x,
         \A n \in Names : n # m => Status(n)' = Status(n)
  PROVE  StatusMap' = [StatusMap EXCEPT ![m] = x]
BY DEF StatusMap

\* Evaluate fills the cache for one name; a sandbox takes the name App.
LEMMA LendLife ==
  ASSUME LoaderInv, NEW s \in Sandboxes, cache' = [cache EXCEPT ![App] = s],
         \A n \in Names : Status(n)' = Answered(n), \A n \in Names : Status(n) # "sought"
  PROVE  Life!Lend(s)
<1>1. s # Null /\ App \in Names /\ cache'[App] # Null /\ \A n \in Names : n # App => cache'[n] = cache[n]
  BY DEF LoaderInv, TypeOK, Mods
<1>2. \A n \in Names : n # App => Status(n)' = Status(n)
  BY <1>1 DEF Answered, Status
<1>3. Life!Quiet
  BY DEF Life!Quiet
<1>4. CASE Status(App) = "absent"
  <2>1. Status(App)' = "ready"
    BY <1>1, <1>4 DEF Answered
  <2>2. Life!Becomes(App, "absent", "ready")
    BY <1>1, <1>2, <1>4, <2>1, MapStep DEF Life!Becomes, StatusMap
  <2> QED BY <1>3, <2>2 DEF Life!Lend
<1>5. CASE Status(App) # "absent"
  <2>1. StatusMap' = StatusMap
    BY <1>1, <1>2, <1>5 DEF Answered, StatusMap
  <2> QED BY <1>1, <1>3, <1>5, <2>1 DEF Life!Lend, StatusMap
<1> QED BY <1>4, <1>5

\* The steps of the search.
LEMMA SearchLife ==
  ASSUME LoaderInv, Exists \/ Stat \/ Realpath
  PROVE  UNCHANGED <<StatusMap, cache>>
<1>1. Searching /\ Top \in Load
  BY TopType DEF LoaderInv, Exists, Stat, Realpath, Searching
<1>2. Top.phase \in {"exists", "stat", "realpath"} /\ ~Exhausted(Top)
  BY <1>1 DEF LoaderInv, Sought, Exists, Stat, Realpath, Searching
<1>3. CASE Advance(NextCandidate(Top))
  <2>1. PICK l : l = NextCandidate(Top)
    OBVIOUS
  <2>2. l \in Load /\ l.mod = Top.mod /\ l.phase = "exists"
    BY <1>1, <1>2, <2>1, NextType DEF LoaderInv
  <2> QED BY <1>1, <1>3, <2>1, <2>2, AdvanceLife
<1>4. ASSUME NEW ph \in {"stat", "realpath"}, Advance(InPhase(Top, ph))
      PROVE  UNCHANGED <<StatusMap, cache>>
  <2>1. PICK l : l = InPhase(Top, ph)
    OBVIOUS
  <2>2. l \in Load /\ l.mod = Top.mod /\ l.phase # "run"
    BY <1>1, <2>1, InPhaseLoad
  <2> QED BY <1>1, <1>4, <2>1, <2>2, AdvanceLife
<1>5. CASE Advance(Found(Top, Here(Top)))
  <2>1. PICK l : l = Found(Top, Here(Top))
    OBVIOUS
  <2>2. l \in Load /\ l.mod = Top.mod /\ l.phase # "run"
    BY <1>1, <1>2, <2>1, HereType, FoundLoad DEF LoaderInv
  <2> QED BY <1>1, <1>5, <2>1, <2>2, AdvanceLife
<1> QED BY <1>3, <1>4, <1>5 DEF Exists, Stat, Realpath, InPhase, Found

\* A search that found nothing gives its name up; a sandbox's has none.
LEMMA NotFoundLife ==
  ASSUME LoaderInv, NotFound
  PROVE  (\E n \in Names : Life!GiveUp(n)) \/ UNCHANGED <<StatusMap, cache>>
<1>1. Searching /\ stack # <<>> /\ stack' = Pop /\ cache' = cache
  BY DEF NotFound, Searching
<1>2. \A n \in Names : n # Top.mod => Status(n)' = Status(n)
  BY <1>1, PopStatus
<1>3. CASE Top.mod \in Names
  <2>1. PICK m \in Names : m = Top.mod
    BY <1>3
  <2>2. Status(m) = "sought" /\ Status(m)' = "absent"
    BY <1>1, <1>3, <2>1, SoughtStatus, PopStatus
  <2>3. StatusMap' = [StatusMap EXCEPT ![m] = "absent"]
    BY <1>2, <2>1, <2>2 DEF StatusMap
  <2>4. Life!GiveUp(m)
    BY <1>1, <2>1, <2>2, <2>3 DEF Life!GiveUp, Life!Becomes, StatusMap
  <2> QED BY <2>4
<1>4. CASE Top.mod \notin Names
  BY <1>1, <1>2, <1>4 DEF StatusMap
<1> QED BY <1>3, <1>4

\* An evaluation that ends leaves its module ready.
LEMMA DoneLife ==
  ASSUME LoaderInv, Done
  PROVE  (\E n \in Names : Life!End(n)) \/ UNCHANGED <<StatusMap, cache>>
<1>1. Running /\ stack # <<>> /\ stack' = Pop /\ cache' = cache /\ Top.phase = "run"
  BY DEF Done, Running
<1>2. \A n \in Names : n # Top.mod => Status(n)' = Status(n)
  BY <1>1, PopStatus
<1>3. CASE Top.mod \in Names
  <2>1. PICK m \in Names : m = Top.mod
    BY <1>3
  <2>2. Status(m) = "running" /\ Status(m)' = "ready"
    BY <1>1, <1>3, <2>1, RunningStatus, PopStatus
  <2>3. \A n \in Names : Status(n) # "sought"
    BY <1>1, QuietWhenRunning
  <2>4. StatusMap' = [StatusMap EXCEPT ![m] = "ready"]
    BY <1>2, <2>1, <2>2 DEF StatusMap
  <2>5. Life!End(m)
    BY <1>1, <2>1, <2>2, <2>3, <2>4 DEF Life!End, Life!Becomes, Life!Quiet, StatusMap
  <2> QED BY <2>5
<1>4. CASE Top.mod \notin Names
  BY <1>1, <1>2, <1>4 DEF StatusMap
<1> QED BY <1>3, <1>4

\* The source found is evaluated: its module runs, or a sandbox takes App.
LEMMA ReadLife ==
  ASSUME LoaderInv, Read
  PROVE  \/ \E n \in Names : Life!Begin(n)
         \/ \E s \in Sandboxes : Life!Lend(s)
         \/ UNCHANGED <<StatusMap, cache>>
<1>1. Searching /\ Top \in Load /\ Top.mod \in Mods
  BY TopType DEF LoaderInv, Read, Searching, Load
<1>2. CASE UNCHANGED <<cache, stack>>
  BY <1>2 DEF StatusMap, Status, InProgress, Top
<1>3. CASE Evaluate(Top.mod, Top.name, Top.found) /\ stack' = Become(InPhase(Top, "run"))
  <2>1. PICK l : l = InPhase(Top, "run")
    OBVIOUS
  <2>2. l \in Load /\ l.mod = Top.mod /\ l.phase = "run" /\ stack' = Become(l)
    BY <1>1, <1>3, <2>1, InPhaseLoad
  <2>3. CASE Top.mod \in Names
    <3>1. PICK m \in Names : m = Top.mod
      BY <2>3
    <3>2. Status(m) = "sought" /\ cache[m] = Null /\ Top.name = m
      BY <1>1, <2>3, <3>1, SoughtStatus, TopType DEF LoaderInv, Placed, Top, Searching
    <3>3. cache' = [cache EXCEPT ![m] = m] /\ m # Null
      <4>1. m \notin Sandboxes /\ m # Null
        BY DEF Mods
      <4> QED BY <1>3, <3>1, <3>2, <4>1 DEF Evaluate, AddCached
    <3>4. \A n \in Names : n # m => cache'[n] = cache[n]
      BY <3>3 DEF LoaderInv, TypeOK
    <3>5. cache'[m] # Null
      BY <3>3 DEF LoaderInv, TypeOK
    <3>6. \A n \in Names : n # m => Status(n)' = Status(n)
      BY <1>1, <2>2, <3>1, <3>4, BecomeStatus DEF Answered, Status
    <3>7. Status(m)' = "running"
      BY <1>1, <2>2, <3>1, <3>5, BecomeStatus
    <3>8. StatusMap' = [StatusMap EXCEPT ![m] = "running"]
      BY <3>6, <3>7 DEF StatusMap
    <3>9. Life!Begin(m)
      BY <3>2, <3>3, <3>8 DEF Life!Begin, Life!Becomes, StatusMap
    <3> QED BY <3>9
  <2>4. CASE Top.mod \in Sandboxes
    <3>1. PICK s \in Sandboxes : s = Top.mod
      BY <2>4
    <3>2. cache' = [cache EXCEPT ![App] = s] /\ s # Null /\ Top.mod \notin Names
      BY <1>3, <3>1 DEF Evaluate, AddCached, Mods
    <3>3. \A n \in Names : cache'[n] = cache[n] \/ cache'[n] # Null
      BY <3>2 DEF LoaderInv, TypeOK
    <3>4. \A n \in Names : Status(n)' = Answered(n)
      BY <1>1, <2>2, <3>2, <3>3, BecomeStatus
    <3>5. \A n \in Names : Status(n) # "sought"
      BY <3>2, QuietWhenRunning
    <3>6. Life!Lend(s)
      BY <3>2, <3>4, <3>5, LendLife
    <3> QED BY <3>6
  <2> QED BY <1>1, <2>3, <2>4 DEF Mods
<1> QED BY <1>2, <1>3 DEF Read, InPhase

\* A require begins a search, in a sandbox for a module without a name.
LEMMA RequireLife ==
  ASSUME LoaderInv, NEW p \in Mods, NEW m \in Mods, NEW k \in Names, Require(p, m, k)
  PROVE  (\E n \in Names : Life!Seek(n)) \/ UNCHANGED <<StatusMap, cache>>
<1> DEFINE q == IF m \in Sandboxes THEN m ELSE p
<1>1. PICK l : l = NewLoad(m, k, q, "exists")
  OBVIOUS
<1>2. l \in Load /\ l.mod = m /\ l.phase = "exists"
  BY <1>1, NewLoadType
<1>3. /\ Running /\ Top.phase = "run" /\ cache[k] = Null /\ (m \in Names => m = k)
      /\ stack' = Append(stack, l) /\ cache' = cache
  BY <1>1 DEF Require, Requirer, Running
<1>4. \A n \in Names : n # m => Status(n)' = Status(n)
  BY <1>2, <1>3, PushStatus DEF Answered, Status
<1>5. CASE m \in Names
  <2>1. Status(m) = "absent" /\ Status(m)' = "sought"
    BY <1>2, <1>3, <1>5, AbsentStatus, PushStatus
  <2>2. \A n \in Names : Status(n) # "sought"
    BY <1>3, QuietWhenRunning
  <2>3. StatusMap' = [StatusMap EXCEPT ![m] = "sought"]
    BY <1>4, <1>5, <2>1 DEF StatusMap
  <2>4. Life!Seek(m)
    BY <1>3, <1>5, <2>1, <2>2, <2>3 DEF Life!Seek, Life!Becomes, Life!Quiet, StatusMap
  <2> QED BY <1>5, <2>4
<1>6. CASE m \notin Names
  BY <1>3, <1>4, <1>6 DEF StatusMap
<1> QED BY <1>5, <1>6

\* require_source runs a module that was not sought, or lets a sandbox take App.
LEMMA RequireSourceLife ==
  ASSUME LoaderInv, NEW p \in Mods, NEW m \in Mods, NEW k \in Names, RequireSource(p, m, k)
  PROVE  (\E n \in Names : Life!Begin(n)) \/ (\E s \in Sandboxes : Life!Lend(s))
<1>1. PICK l : l = NewLoad(m, k, Null, "run")
  OBVIOUS
<1>2. l \in Load /\ l.mod = m /\ l.phase = "run"
  BY <1>1, NewLoadType
<1>3. /\ Running /\ Top.phase = "run" /\ cache[k] = Null /\ (m \in Names => m = k)
      /\ stack' = Append(stack, l) /\ Evaluate(m, k, Null)
  BY <1>1 DEF RequireSource, Requirer, Running
<1>4. \A n \in Names : Status(n) # "sought"
  BY <1>3, QuietWhenRunning
<1>5. CASE m \in Names
  <2>1. cache' = [cache EXCEPT ![m] = m] /\ m # Null /\ cache[m] = Null
    BY <1>3, <1>5 DEF Evaluate, AddCached
  <2>2. cache'[m] # Null /\ \A n \in Names : n # m => cache'[n] = cache[n]
    BY <1>5, <2>1 DEF LoaderInv, TypeOK
  <2>3. \A n \in Names : n # m => Status(n)' = Status(n)
    BY <1>2, <1>3, <2>2, PushStatus DEF Answered, Status
  <2>4. Status(m) = "absent" /\ Status(m)' = "running"
    BY <1>2, <1>3, <1>5, <2>1, <2>2, AbsentStatus, PushStatus
  <2>5. StatusMap' = [StatusMap EXCEPT ![m] = "running"]
    BY <1>5, <2>3, <2>4 DEF StatusMap
  <2>6. Life!Begin(m)
    BY <1>4, <1>5, <2>1, <2>4, <2>5 DEF Life!Begin, Life!Becomes, Life!Quiet, StatusMap
  <2> QED BY <1>5, <2>6
<1>6. CASE m \in Sandboxes
  <2>1. cache' = [cache EXCEPT ![App] = m] /\ m # Null /\ m \notin Names
    BY <1>3, <1>6 DEF Evaluate, AddCached, Mods
  <2>2. \A n \in Names : cache'[n] = cache[n] \/ cache'[n] # Null
    BY <2>1 DEF LoaderInv, TypeOK
  <2>3. \A n \in Names : Status(n)' = Answered(n)
    BY <1>2, <1>3, <2>1, <2>2, PushStatus
  <2>4. Life!Lend(m)
    BY <1>4, <1>6, <2>1, <2>3, LendLife
  <2> QED BY <1>6, <2>4
<1> QED BY <1>5, <1>6 DEF Mods

\* A sandbox's program has no name that anybody could ask for.
LEMMA RunLife ==
  ASSUME LoaderInv, NEW s \in Sandboxes, Run(s)
  PROVE  UNCHANGED <<StatusMap, cache>>
<1>1. PICK l : l = NewLoad(s, App, Null, "run")
  OBVIOUS
<1>2. l \in Load /\ l.mod = s /\ s \notin Names
  <2>1. s \in Mods /\ s \notin Names /\ App \in Names
    BY LoaderAssumption DEF Mods
  <2> QED BY <1>1, <2>1, NewLoadType
<1>3. Running /\ stack' = Append(stack, l) /\ cache' = cache
  BY <1>1 DEF Run
<1>4. \A n \in Names : Status(n)' = Status(n)
  BY <1>2, <1>3, PushStatus DEF Answered, Status
<1> QED BY <1>3, <1>4 DEF StatusMap

\* Every step of the loader is a step of ModuleLife, or none.
LEMMA LifeStep == LoaderInv /\ [Next]_vars => [Life!LifeNext]_(Life!LifeVars)
<1> SUFFICES ASSUME LoaderInv, [Next]_vars
             PROVE  Life!LifeNext \/ UNCHANGED <<StatusMap, cache>>
  BY DEF Life!LifeVars, StatusMap
<1>1. CASE Exists \/ Stat \/ Realpath
  BY <1>1, SearchLife
<1>2. CASE NotFound
  BY <1>2, NotFoundLife DEF Life!LifeNext
<1>3. CASE Read
  BY <1>3, ReadLife DEF Life!LifeNext
<1>4. CASE Done
  BY <1>4, DoneLife DEF Life!LifeNext
<1>5. ASSUME NEW p \in Mods, NEW m \in Mods, NEW n \in Names, Require(p, m, n)
      PROVE  Life!LifeNext \/ UNCHANGED <<StatusMap, cache>>
  BY <1>5, RequireLife DEF Life!LifeNext
<1>6. ASSUME NEW p \in Mods, NEW m \in Mods, NEW n \in Names, RequireSource(p, m, n)
      PROVE  Life!LifeNext
  BY <1>6, RequireSourceLife DEF Life!LifeNext
<1>7. ASSUME NEW s \in Sandboxes, Run(s)
      PROVE  UNCHANGED <<StatusMap, cache>>
  BY <1>7, RunLife
<1>8. ASSUME UNCHANGED <<stack, cache>>
      PROVE  UNCHANGED <<StatusMap, cache>>
  BY <1>8 DEF StatusMap, Status, InProgress, Top
<1> QED BY <1>1, <1>2, <1>3, <1>4, <1>5, <1>6, <1>7, <1>8
        DEF Next, Loader, Code, OtherProgram, vars

\* Main is sought when the program starts, and nothing else is going on.
LEMMA LifeInitially == Init => Life!LifeInit
<1> SUFFICES ASSUME Init PROVE Life!LifeInit
  OBVIOUS
<1>1. PICK l : l = NewLoad(Main, Main, Null, "exists")
  OBVIOUS
<1>2. l \in Load /\ l.mod = Main /\ l.phase = "exists"
  BY <1>1, NewLoadType DEF Mods
<1>3. stack = <<l>> /\ Len(stack) = 1 /\ stack # <<>> /\ Top = l
  BY <1>1 DEF Init, Top
<1>4. \A n \in Names : Status(n) = IF n = Main THEN "sought"
                                   ELSE IF n \in Builtins THEN "ready" ELSE "absent"
  <2>1. \A n \in Names : n # Main => ~InProgress(n)
    BY <1>2, <1>3 DEF InProgress
  <2>2. \A n \in Names : cache[n] = IF n \in Builtins THEN n ELSE Null
    BY DEF Init
  <2>3. \A n \in Names : n # Null
    BY DEF Mods
  <2>4. \A n \in Names : n = Main => Status(n) = "sought"
    BY <1>2, <1>3 DEF Status
  <2>5. \A n \in Names : n # Main => Status(n) = IF cache[n] # Null THEN "ready" ELSE "absent"
    BY <1>2, <1>3, <2>1 DEF Status
  <2> QED BY <2>2, <2>3, <2>4, <2>5
<1> QED BY <1>4 DEF Life!LifeInit, Init

\* The loader implements ModuleLife: sought, given up or run once, and from
\* then on the answer, with no search interrupted.
THEOREM LoaderKeepsLife == Spec => KeepsLife
<1>1. LoaderInv /\ [Next]_vars => [Life!LifeNext]_(Life!LifeVars)
  BY LifeStep
<1> QED BY <1>1, LifeInitially, LoaderInvariant, PTL DEF Spec, KeepsLife, Life!LifeSpec

\* The loader's state is an orderly one of ModuleLife.
LEMMA LoaderIsOrderly == Spec => []Life!LifeInv
<1>1. App \in Names /\ Main \in Names \ Builtins /\ Null \notin Names \cup Sandboxes
  BY DEF Mods
<1>2. Life!LifeSpec => []Life!LifeInv
  BY <1>1, Life!LifeIsOrderly
<1> QED BY <1>2, LoaderKeepsLife, PTL DEF KeepsLife

\* A require is answered from the moment the source begins to run, so modules
\* in a circle get each other unfinished rather than not at all; and before
\* that moment nobody is answered, sandboxes aside.
THEOREM AnswersBeginWithTheRun ==
  Spec => [](\A n \in Names : cache[n] # Null <=> Status(n) \in {"running", "ready"})
<1>1. Life!LifeInv => \A n \in Names : cache[n] # Null <=> Status(n) \in {"running", "ready"}
  BY DEF Life!LifeInv, Life!AnswersWhileRunning
<1> QED BY <1>1, LoaderIsOrderly, PTL

\* Whoever requires a name gets the module of that name, never another one's:
\* the cache is never filled under a wrong key, however loads nest.
THEOREM NamesKeepTheirModules ==
  Spec => [](\A n \in Names : cache[n] \in {n, Null} \/ (n = App /\ cache[n] \in Sandboxes))
<1>1. Life!LifeInv =>
        \A n \in Names : cache[n] \in {n, Null} \/ (n = App /\ cache[n] \in Sandboxes)
  BY DEF Life!LifeInv, Life!OwnAnswers
<1> QED BY <1>1, LoaderIsOrderly, PTL

\* A module that ran is never searched for or run again, whatever it threw and
\* whoever requires it.
THEOREM ModulesLiveOnce ==
  Spec => [][\A n \in Names : Status(n) \in {"running", "ready"} =>
               Status(n)' = "ready" \/ Status(n)' = Status(n)]_vars
<1>1. Life!LifeSpec => Life!RunsOnce
  <2>1. App \in Names /\ Main \in Names \ Builtins /\ Null \notin Names \cup Sandboxes
    BY DEF Mods
  <2> QED BY <2>1, Life!LivesOnce
<1>2. [\A n \in Names : StatusMap[n] \in {"running", "ready"} =>
         StatusMap'[n] = "ready" \/ StatusMap'[n] = StatusMap[n]]_<<StatusMap, cache>>
      => [\A n \in Names : Status(n) \in {"running", "ready"} =>
            Status(n)' = "ready" \/ Status(n)' = Status(n)]_vars
  <2> SUFFICES ASSUME NEW n \in Names,
                      \/ \A m \in Names : StatusMap[m] \in {"running", "ready"} =>
                           StatusMap'[m] = "ready" \/ StatusMap'[m] = StatusMap[m]
                      \/ StatusMap' = StatusMap,
                      Status(n) \in {"running", "ready"}
               PROVE  Status(n)' = "ready" \/ Status(n)' = Status(n)
    OBVIOUS
  <2>1. StatusMap[n] = Status(n) /\ StatusMap'[n] = Status(n)'
    BY DEF StatusMap
  <2> HIDE DEF StatusMap
  <2> QED BY <2>1
<1> QED BY <1>1, <1>2, LoaderKeepsLife, PTL DEF KeepsLife, Life!RunsOnce, Life!LifeVars, StatusMap
=============================================================================
