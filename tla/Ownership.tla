----------------------------- MODULE Ownership -----------------------------
(***************************************************************************)
(* What lifetimes promise about a native object, with no script, no        *)
(* collector and no wrappers: it is built once, with an owner; owners come *)
(* and go while at least one remains; it is destroyed in the very step     *)
(* that takes its last owner away, and never comes back.                   *)
(***************************************************************************)
EXTENDS TLAPS

CONSTANTS Natives, Owner

VARIABLES st, owners

OwnVars == <<st, owners>>

OwnInit ==
  /\ st = [n \in Natives |-> "unborn"]
  /\ owners = [n \in Natives |-> {}]

Stays(n) == st'[n] = st[n] /\ owners'[n] = owners[n]

\* The native is built and somebody owns it.
Birth(n) ==
  /\ st[n] = "unborn" /\ st'[n] = "alive"
  /\ owners'[n] # {}

\* Somebody joins, leaves or passes its share on, and an owner remains.
Rehome(n) ==
  /\ st[n] = "alive" /\ st'[n] = "alive"
  /\ owners[n] # {} /\ owners'[n] # {}

\* The one owner left lets go.
Death(n) ==
  /\ st[n] = "alive" /\ st'[n] = "dead"
  /\ \E o \in Owner : owners[n] = {o}
  /\ owners'[n] = {}

OwnNext == \A n \in Natives : Stays(n) \/ Birth(n) \/ Rehome(n) \/ Death(n)

OwnSpec == OwnInit /\ [][OwnNext]_OwnVars

-----------------------------------------------------------------------------
(* What follows from the promise alone, for whoever keeps it.              *)

\* To exist and to be owned are the same.
AliveIffOwned == \A n \in Natives : st[n] = "alive" <=> owners[n] # {}

\* What was destroyed stays so.
DeathIsFinal == [][\A n \in Natives : st[n] = "dead" => st'[n] = "dead"]_OwnVars

\* A native exists exactly as long as somebody owns it: deleting a lifetime is
\* neither too early nor too late (spde_vivalavida.hxx).
THEOREM OwnedLives == OwnSpec => []AliveIffOwned
<1>1. OwnInit => AliveIffOwned
  BY DEF OwnInit, AliveIffOwned
<1>2. AliveIffOwned /\ [OwnNext]_OwnVars => AliveIffOwned'
  BY DEF AliveIffOwned, OwnNext, OwnVars, Stays, Birth, Rehome, Death
<1> QED BY <1>1, <1>2, PTL DEF OwnSpec

\* No native is destroyed and then used for another object, or twice.
THEOREM DeadStayDead == OwnSpec => DeathIsFinal
<1>1. [OwnNext]_OwnVars => [\A n \in Natives : st[n] = "dead" => st'[n] = "dead"]_OwnVars
  BY DEF OwnNext, Stays, Birth, Rehome, Death
<1> QED BY <1>1, PTL DEF OwnSpec, DeathIsFinal
=============================================================================
