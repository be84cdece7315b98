----------------------------- MODULE ModuleLife -----------------------------
(***************************************************************************)
(* What the module system promises about shared modules, with no stack, no *)
(* search path and no files: a name is sought, and either given up, to be  *)
(* sought again one day, or run, once and for all; from the moment it runs *)
(* the name answers with its own module.  A search is not interrupted.     *)
(* Sandboxes answer to the one name App, and to no other.                  *)
(***************************************************************************)
EXTENDS TLAPS

CONSTANTS Names, Builtins, App, Main, Sandboxes, Null

VARIABLES status, answer

LifeVars == <<status, answer>>

LifeInit ==
  /\ status = [n \in Names |-> IF n = Main THEN "sought"
                               ELSE IF n \in Builtins THEN "ready" ELSE "absent"]
  /\ answer = [n \in Names |-> IF n \in Builtins THEN n ELSE Null]

Quiet == \A n \in Names : status[n] # "sought"

Becomes(n, from, to) == status[n] = from /\ status' = [status EXCEPT ![n] = to]

Seek(n) == Quiet /\ Becomes(n, "absent", "sought") /\ UNCHANGED answer

GiveUp(n) == Becomes(n, "sought", "absent") /\ UNCHANGED answer

\* A module whose source is at hand need not be sought.
Begin(n) ==
  /\ Becomes(n, "sought", "running") \/ (Quiet /\ Becomes(n, "absent", "running"))
  /\ answer[n] = Null /\ answer' = [answer EXCEPT ![n] = n]

End(n) == Quiet /\ Becomes(n, "running", "ready") /\ UNCHANGED answer

Lend(s) ==
  /\ Quiet
  /\ answer' = [answer EXCEPT ![App] = s]
  /\ Becomes(App, "absent", "ready") \/ (status[App] # "absent" /\ UNCHANGED status)

LifeNext ==
  \/ \E n \in Names : Seek(n) \/ GiveUp(n) \/ Begin(n) \/ End(n)
  \/ \E s \in Sandboxes : Lend(s)

LifeSpec == LifeInit /\ [][LifeNext]_LifeVars

-----------------------------------------------------------------------------
(* What follows from the promise alone.                                    *)

\* A name answers with a module from the moment its source begins to run: who
\* requires it meanwhile gets the unfinished module.
AnswersWhileRunning ==
  \A n \in Names : answer[n] # Null <=> status[n] \in {"running", "ready"}

\* Nothing is sought while something else is.
OneSearch ==
  \A m, n \in Names : status[m] = "sought" /\ status[n] = "sought" => m = n

\* A name answers with its own module and no other one.
OwnAnswers ==
  \A n \in Names : answer[n] \in {n, Null} \/ (n = App /\ answer[n] \in Sandboxes)

LifeInv ==
  /\ status \in [Names -> {"absent", "sought", "running", "ready"}]
  /\ answer \in [Names -> Names \cup Sandboxes \cup {Null}]
  /\ AnswersWhileRunning /\ OneSearch /\ OwnAnswers

\* What ran is not run again, and not forgotten.
RunsOnce ==
  [][\A n \in Names : status[n] \in {"running", "ready"} =>
       status'[n] = "ready" \/ status'[n] = status[n]]_LifeVars

\* Every step keeps all of it.
LEMMA LifeInvStep ==
  ASSUME App \in Names, Null \notin Names \cup Sandboxes, LifeInv, [LifeNext]_LifeVars
  PROVE  LifeInv'
<1> USE DEF LifeInv, AnswersWhileRunning, OneSearch, OwnAnswers, Becomes, Quiet
<1>1. ASSUME NEW n \in Names, Seek(n) PROVE LifeInv'
  BY <1>1 DEF Seek
<1>2. ASSUME NEW n \in Names, GiveUp(n) PROVE LifeInv'
  BY <1>2 DEF GiveUp
<1>3. ASSUME NEW n \in Names, Begin(n) PROVE LifeInv'
  BY <1>3 DEF Begin
<1>4. ASSUME NEW n \in Names, End(n) PROVE LifeInv'
  BY <1>4 DEF End
<1>5. ASSUME NEW s \in Sandboxes, Lend(s) PROVE LifeInv'
  BY <1>5 DEF Lend
<1>6. CASE UNCHANGED LifeVars
  BY <1>6 DEF LifeVars
<1> QED BY <1>1, <1>2, <1>3, <1>4, <1>5, <1>6 DEF LifeNext

\* One search at a time; an answer, the name's own module, from the start of
\* the evaluation on.
THEOREM LifeIsOrderly ==
  ASSUME App \in Names, Main \in Names \ Builtins, Null \notin Names \cup Sandboxes
  PROVE  LifeSpec => []LifeInv
<1>1. LifeInit => LifeInv
  BY DEF LifeInit, LifeInv, AnswersWhileRunning, OneSearch, OwnAnswers
<1> QED BY <1>1, LifeInvStep, PTL DEF LifeSpec

\* A source that began to run is never sought or run again.
THEOREM LivesOnce ==
  ASSUME App \in Names, Main \in Names \ Builtins, Null \notin Names \cup Sandboxes
  PROVE  LifeSpec => RunsOnce
<1>1. LifeInv /\ [LifeNext]_LifeVars =>
        [\A n \in Names : status[n] \in {"running", "ready"} =>
           status'[n] = "ready" \/ status'[n] = status[n]]_LifeVars
  BY DEF LifeInv, LifeNext, Seek, GiveUp, Begin, End, Lend, Becomes, Quiet
<1> QED BY <1>1, LifeIsOrderly, PTL DEF LifeSpec, RunsOnce
=============================================================================
