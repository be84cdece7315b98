--------------------------- MODULE MCObjectBridge ---------------------------
(* Instances of ObjectBridge for TLC.                                      *)
EXTENDS ObjectBridge, TLC

CONSTANTS w1, w2, w3, n1, n2, s1

\* Every action takes wrappers and natives from their sets by quantification,
\* and a configuration gives all natives the same class features, so that the
\* identities are interchangeable.
Symmetry == Permutations(Wrappers) \cup Permutations(Natives)

\* Programs in which C++ code owns nothing: every native is built by the
\* script with a "js" or "shared" lifetime.
ScriptOnlySpec == Init /\ [][Next /\ host' = {}]_vars
FairScriptOnlySpec == ScriptOnlySpec /\ GCFairness
=============================================================================
