---------------------------- MODULE ModuleLoader ----------------------------
(***************************************************************************)
(* The module system: lib/node_module.js, the file functions of            *)
(* native/node_native_fs.hxx it searches with, and the sandboxes that      *)
(* lib/runner.js evaluates programs in.                                    *)
(*                                                                         *)
(* require(n) looks n up in one cache, keyed by the name as written, then  *)
(* searches the directory of the requiring module and the global paths,    *)
(* reads the file, caches the module and evaluates it; the evaluation may  *)
(* require other modules, so loads nest and the call stack is explicit.    *)
(* A sandbox has a module of its own for every load, always cached under   *)
(* the name App.  Other programs may change the file system at any point.  *)
(* A cached name is answered without any change of state: no action.       *)
(* Neither is the blacklist of sandboxes one: its name is a built-in, and  *)
(* they are answered undefined instead of the cached module.               *)
(***************************************************************************)
EXTENDS Naturals, Sequences, FiniteSets

CONSTANTS
  Names,          \* module names as written in a require
  Builtins,       \* names cached at startup: os, fs, util, path
  App,            \* "JSRunnerApp", the name of every sandbox's module
  Main,           \* process.argv[1]
  Absolute,       \* names that start with a slash
  Slashed,        \* names that end with one
  Dirs, Root, Cwd,
  GlobalPaths,    \* node_module.globalPaths, a sequence of directories
  Real,           \* realpath: where a path leads through symbolic links
  FirstDisk,      \* the file system at startup
  Volatile,       \* the paths other programs change
  Sandboxes,      \* identities of runner contexts and their modules
  RecursionLimit, \* of the script engine
  Null

Plain == ""
DotJs == ".js"
Exts  == {Plain, DotJs}
Paths == [dir : Dirs, base : Names, ext : Exts]
Mods  == Names \cup Sandboxes   \* a shared module is identified by its name

FileKinds == {"none", "file", "dir", "unreadable"}

ASSUME LoaderAssumption ==
  /\ Builtins \subseteq Names
  /\ App \in Names \ Builtins /\ Main \in Names \ Builtins
  /\ Absolute \subseteq Names /\ Slashed \subseteq Names
  /\ Root \in Dirs /\ Cwd \in Dirs /\ GlobalPaths \in Seq(Dirs)
  /\ Real \in [Paths -> Paths]
  /\ FirstDisk \in [Paths -> FileKinds] /\ Volatile \subseteq Paths
  /\ Names \cap Sandboxes = {} /\ Null \notin Mods \cup Paths
  /\ RecursionLimit \in Nat \ {0}

VARIABLES
  disk,      \* what each real path is
  cache,     \* _cache
  file,      \* __filename of each module, Null for ''
  evals,     \* how often the source of each shared module was evaluated
  used,      \* sandboxes made so far
  stack,     \* loads in progress, innermost last
  disturbed, \* another program wrote to the disk during the innermost search
  fault      \* the process crashed

vars == <<disk, cache, file, evals, used, stack, disturbed, fault>>

\* One load: mod is to be filled for a require(name) written in module parent;
\* (dir, ext) is the candidate the search is at, found the file to read.
Load == [mod : Mods, name : Names, parent : Mods \cup {Null},
         phase : {"exists", "stat", "realpath", "read", "run"},
         dir : Nat \ {0}, ext : Exts, found : Paths \cup {Null}]

\* A search starts at the first directory.  (Mutant: at none.)
NewLoadBeforeFirst(m, n, p, phase) ==
  [mod |-> m, name |-> n, parent |-> p, phase |-> phase,
   dir |-> 0, ext |-> DotJs, found |-> Null]
NewLoad(m, n, p, phase) ==
  [mod |-> m, name |-> n, parent |-> p, phase |-> phase,
   dir |-> 1, ext |-> Plain, found |-> Null]

Top == stack[Len(stack)]
Pop == SubSeq(stack, 1, Len(stack) - 1)
Become(l) == [stack EXCEPT ![Len(stack)] = l]

-----------------------------------------------------------------------------
(* The search: resolve_filename and try_file.                              *)

\* path.dirname(''), a sandbox's or a source module's, is '.'.
DirOf(m) == IF file[m] = Null THEN Cwd ELSE file[m].dir

SearchPath(n, parent) ==
  IF n \in Absolute THEN <<Root>>
  ELSE (IF parent = Null THEN <<>> ELSE <<DirOf(parent)>>) \o GlobalPaths

Exhausted(l) == l.name \in Slashed \/ l.dir > Len(SearchPath(l.name, l.parent))

Candidate(l, i, e) == [dir |-> SearchPath(l.name, l.parent)[i], base |-> l.name, ext |-> e]
Here(l) == Real[Candidate(l, l.dir, l.ext)]

\* (Mutants: name.js is not tried; the search stays where it is.)
WithoutJs(l) == [l EXCEPT !.phase = "exists", !.dir = @ + 1]
StayPut(l)   == [l EXCEPT !.phase = "exists"]
NextCandidate(l) ==
  IF l.ext = Plain THEN [l EXCEPT !.phase = "exists", !.ext = DotJs]
  ELSE [l EXCEPT !.phase = "exists", !.dir = @ + 1, !.ext = Plain]

Searching == fault = "none" /\ stack # <<>> /\ Top.phase # "run"

Advance(l) ==
  /\ stack' = Become(l)
  /\ UNCHANGED <<disk, cache, file, evals, used, disturbed, fault>>

\* fs.existsSync is access(F_OK).
Exists ==
  /\ Searching /\ Top.phase = "exists" /\ ~Exhausted(Top)
  /\ Advance(IF disk[Here(Top)] = "none" THEN NextCandidate(Top)
             ELSE [Top EXCEPT !.phase = "stat"])

\* fs.statSync does not look whether stat failed: its buffer then holds anything.
\* (Mutant: nobody asks whether it is a directory.)
StatAnything ==
  /\ Searching /\ Top.phase = "stat"
  /\ Advance([Top EXCEPT !.phase = "realpath"])
Stat ==
  /\ Searching /\ Top.phase = "stat"
  /\ \/ disk[Here(Top)] \in {"dir", "none"} /\ Advance(NextCandidate(Top))
     \/ disk[Here(Top)] # "dir" /\ Advance([Top EXCEPT !.phase = "realpath"])

\* Neither does fs.realpathSync; after a failure its buffer may be empty.
Realpath ==
  /\ Searching /\ Top.phase = "realpath"
  /\ \/ disk[Here(Top)] = "none" /\ Advance(NextCandidate(Top))
     \/ Advance([Top EXCEPT !.phase = "read", !.found = Here(Top)])

\* No candidate left: require returns undefined.
NotFound ==
  /\ Searching /\ Top.phase = "exists" /\ Exhausted(Top)
  /\ stack' = Pop
  /\ UNCHANGED <<disk, cache, file, evals, used, disturbed, fault>>

-----------------------------------------------------------------------------
(* Evaluation.                                                             *)

\* add_cached: a sandbox's module goes by the name its constructor was given.
\* (Mutant: by the name that was asked for.)
AddCachedAsked(m, n) == [cache EXCEPT ![n] = m]
AddCached(m, n) == [cache EXCEPT ![IF m \in Sandboxes THEN App ELSE n] = m]

\* _load_js_source up to the start of the evaluation.
\* (Mutant: the module is cached once it has been evaluated.)
EvaluateUncached(m, n, path) ==
  /\ file' = IF m \in Sandboxes THEN file ELSE [file EXCEPT ![m] = path]
  /\ evals' = IF m \in Sandboxes THEN evals ELSE [evals EXCEPT ![m] = @ + 1]
  /\ UNCHANGED cache
Evaluate(m, n, path) ==
  /\ cache' = AddCached(m, n)
  /\ file' = IF m \in Sandboxes THEN file ELSE [file EXCEPT ![m] = path]
  /\ evals' = IF m \in Sandboxes THEN evals ELSE [evals EXCEPT ![m] = @ + 1]

\* fs.readFileSync does not look whether fopen failed; of a directory it reads
\* nothing or asks for more memory than there is.  Before and after the read the
\* cache is looked at once more; the name is not there, because nothing nests in
\* a search (StillUncached), so that the two returns are not steps of the model.
Read ==
  /\ Searching /\ Top.phase = "read"
  /\ \/ /\ disk[Top.found] \in {"file", "dir"}
        /\ Evaluate(Top.mod, Top.name, Top.found)
        /\ stack' = Become([Top EXCEPT !.phase = "run"])
        /\ UNCHANGED fault
     \/ /\ disk[Top.found] # "file"
        /\ fault' = "read"
        /\ UNCHANGED <<cache, file, evals, stack>>
  /\ UNCHANGED <<disk, used, disturbed>>

Running == fault = "none" /\ stack # <<>> /\ Top.phase = "run"

\* Code of any module evaluated so far may run: it left functions behind.
\* A shared module is filled in place, a sandbox's require makes a sandbox.
Requirer(p, m, n) ==
  /\ Running /\ Len(stack) < RecursionLimit
  /\ cache[n] = Null
  /\ \/ p \in Names /\ evals[p] > 0 /\ m = n /\ UNCHANGED used
     \/ p \in used /\ m \in Sandboxes \ used /\ used' = used \cup {m}

\* module.require(n) in module p; in a sandbox the new module asks for itself.
\* The case of util and path is not there: they are cached from the start.
\* At the engine's recursion limit it throws instead (no step).
Require(p, m, n) ==
  /\ Requirer(p, m, n)
  /\ stack' = Append(stack, NewLoad(m, n, IF m \in Sandboxes THEN m ELSE p, "exists"))
  /\ disturbed' = FALSE
  /\ UNCHANGED <<disk, cache, file, evals, fault>>

\* module.require_source(n, source): there is no file.
RequireSource(p, m, n) ==
  /\ Requirer(p, m, n)
  /\ Evaluate(m, n, Null)
  /\ stack' = Append(stack, NewLoad(m, n, Null, "run"))
  /\ UNCHANGED <<disk, disturbed, fault>>

\* runner.run(source, context), the context new or any other, even one that is
\* being run: its module is not cached, unless a load within it has that done.
Run(s) ==
  /\ Running /\ Len(stack) < RecursionLimit
  /\ used' = used \cup {s}
  /\ stack' = Append(stack, NewLoad(s, App, Null, "run"))
  /\ UNCHANGED <<disk, cache, file, evals, disturbed, fault>>

\* The evaluation ends, or throws, which its requirer may catch or pass on.
\* Either way the module stays cached with what it has exported by then.
\* (Mutant: a module that throws is forgotten.)
DoneForgetting ==
  /\ Running
  /\ stack' = Pop
  /\ \/ UNCHANGED cache
     \/ cache' = [cache EXCEPT ![Top.name] = Null]
  /\ UNCHANGED <<disk, file, evals, used, disturbed, fault>>
Done ==
  /\ Running
  /\ stack' = Pop
  /\ UNCHANGED <<disk, cache, file, evals, used, disturbed, fault>>

-----------------------------------------------------------------------------
(* The file system belongs to everybody.                                   *)

OtherProgram(p, k) ==
  /\ fault = "none" /\ stack # <<>>
  /\ disk[p] # k
  /\ disk' = [disk EXCEPT ![p] = k]
  /\ disturbed' = TRUE
  /\ UNCHANGED <<cache, file, evals, used, stack, fault>>

\* init_native and init_internal have run; resolver_general loads Main.
Init ==
  /\ disk = FirstDisk
  /\ cache = [n \in Names |-> IF n \in Builtins THEN n ELSE Null]
  /\ file = [m \in Mods |-> Null]
  /\ evals = [n \in Names |-> 0]
  /\ used = {}
  /\ stack = <<NewLoad(Main, Main, Null, "exists")>>
  /\ disturbed = FALSE
  /\ fault = "none"

Loader == Exists \/ Stat \/ Realpath \/ NotFound \/ Read

Code ==
  \/ \E p, m \in Mods, n \in Names : Require(p, m, n) \/ RequireSource(p, m, n)
  \/ \E s \in Sandboxes : Run(s)
  \/ Done

Next == Loader \/ Code \/ \E p \in Volatile, k \in FileKinds : OtherProgram(p, k)

Spec == Init /\ [][Next]_vars

\* The loader is plain code and goes on; no module's code runs forever.
FairSpec ==
  /\ Spec
  /\ WF_vars(Loader)
  /\ \A d \in 1..RecursionLimit : SF_vars(Len(stack) = d /\ Done)

-----------------------------------------------------------------------------
(* Properties.                                                             *)

TypeOK ==
  /\ disk \in [Paths -> FileKinds]
  /\ cache \in [Names -> Mods \cup {Null}]
  /\ file \in [Mods -> Paths \cup {Null}]
  /\ evals \in [Names -> Nat]
  /\ used \subseteq Sandboxes
  /\ stack \in Seq(Load)
  /\ \A i \in 1..Len(stack) : stack[i].dir <= Len(GlobalPaths) + 2
  /\ disturbed \in BOOLEAN
  /\ fault \in {"none", "read"}

\* A shared module's source is evaluated once, whoever requires it, however
\* loads nest, and even if the evaluation throws.
EvaluatedOnce == \A n \in Names : evals[n] <= 1

\* Modules that require each other do not recurse: no shared module is loaded
\* while it is being loaded.
CyclesEnd ==
  \A i, j \in 1..Len(stack) :
    stack[i].mod = stack[j].mod /\ stack[i].mod \in Names => i = j

\* The stack that loads of shared modules need does not depend on what the
\* modules require: they nest no deeper than there are names to load.
NestingIsBounded ==
  Cardinality({i \in 1..Len(stack) : stack[i].mod \in Names}) <= Cardinality(Names \ Builtins)

\* What a sandbox evaluates never becomes the answer to a shared require,
\* except for the one name that all sandboxes go by.
SandboxStaysOut == \A n \in Names \ {App} : cache[n] \notin Sandboxes

\* Once a require for a name has been answered with a module, every later one
\* is answered with the same module.
AnswersAreFinal ==
  [][\A n \in Names \ {App} : cache[n] # Null => cache'[n] = cache[n]]_vars

\* The search l has left candidate (i, e) behind.
Tried(l, i, e) == i < l.dir \/ (i = l.dir /\ l.ext = DotJs /\ e = Plain)

Missed(l) ==
  \A i \in 1..l.dir, e \in Exts :
    Tried(l, i, e) => disk[Real[Candidate(l, i, e)]] \in {"none", "dir"}

\* The file found is the first candidate that is a file, unless another
\* program interferes; require returns undefined only if there is none.
FirstMatchWins ==
  Searching /\ ~disturbed =>
    /\ Missed(Top)
    /\ Top.phase \in {"realpath", "read"} => disk[Here(Top)] \in {"file", "unreadable"}
    /\ Top.phase = "read" => Top.found = Here(Top)

\* How far a search has come: the candidates it has left behind, and how many
\* system calls it has made about the present one.
Progress(l) ==
  8 * l.dir + (IF l.ext = DotJs THEN 4 ELSE 0)
    + (CASE l.phase = "exists" -> 0 [] l.phase = "stat" -> 1
         [] l.phase = "realpath" -> 2 [] OTHER -> 3)

\* A search asks no question twice and has a last question, whatever other
\* programs do to the files meanwhile: every system call brings it further,
\* up to the end of the search path, or ends it.
SearchAdvances ==
  [][Searching /\ stack' # stack =>
       \/ Len(stack') < Len(stack)
       \/ Top'.phase = "run"
       \/ /\ Len(stack') = Len(stack) /\ Top'.mod = Top.mod
          /\ Progress(Top) < Progress(Top')
          /\ Progress(Top') < 8 * (Len(GlobalPaths) + 3)]_vars

\* The process dies reading a module only if it may not read the file, or
\* another program interfered since the search for it began.
ReadsWhatItFound ==
  fault = "read" => disturbed \/ disk[Top.found] = "unreadable"

\* The program ends: no search goes on forever, no load waits for itself.
MainEnds == <>(stack = <<>> \/ fault # "none")
-----------------------------------------------------------------------------
(* The abstract specification.                                             *)

InProgress(n) == \E i \in 1..Len(stack) : stack[i].mod = n

Status(n) ==
  IF stack # <<>> /\ Top.mod = n /\ Top.phase # "run" THEN "sought"
  ELSE IF InProgress(n) THEN "running"
  ELSE IF cache[n] # Null THEN "ready" ELSE "absent"

Life == INSTANCE ModuleLife WITH status <- [n \in Names |-> Status(n)], answer <- cache

\* Stack, search and file system, nesting, exceptions and sandboxes together
\* leave every name with the simple life of ModuleLife.
KeepsLife == Life!LifeSpec

-----------------------------------------------------------------------------
(* The inductive invariant of the proofs (module ModuleLoaderProofs).      *)

\* Only the innermost load is still searching; all others wait for it.
Nested == \A i \in 1..Len(stack) : i < Len(stack) => stack[i].phase = "run"

\* A shared module whose evaluation began was cached before that.
Counted == \A n \in Names : evals[n] <= 1 /\ (evals[n] = 1 => cache[n] # Null)

\* A shared module is cached from the start of its evaluation, not earlier.
Placed ==
  \A i \in 1..Len(stack) : stack[i].mod \in Names =>
    /\ stack[i].name = stack[i].mod
    /\ stack[i].phase = "run" => evals[stack[i].mod] = 1
    /\ stack[i].phase # "run" => cache[stack[i].mod] = Null

\* A name that is searched for, and then read and evaluated, is not cached: the
\* later looks at the cache find what the require found.
StillUncached == stack # <<>> /\ Top.phase # "run" => cache[Top.name] = Null

\* What the search knows about its candidates.
Sought ==
  stack # <<>> /\ Top.phase # "run" =>
    /\ Top.phase \in {"stat", "realpath", "read"} => ~Exhausted(Top)
    /\ Top.phase = "read" => Top.found = Here(Top)
    /\ ~disturbed =>
         /\ Missed(Top)
         /\ Top.phase = "stat" => disk[Here(Top)] # "none"
         /\ Top.phase \in {"realpath", "read"} => disk[Here(Top)] \in {"file", "unreadable"}

LoaderInv ==
  TypeOK /\ Nested /\ Counted /\ Placed /\ CyclesEnd /\ SandboxStaysOut /\ Sought /\ ReadsWhatItFound
=============================================================================
