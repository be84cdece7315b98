----------------------------- MODULE MCNumbers -----------------------------
(* Numbers at a scale TLC can enumerate: a short has two bits, an int four, *)
(* a long six; floats are exact up to 4, doubles up to 16.                 *)
EXTENDS Numbers

\* Around every limit of a type, and the enumerators.
MCSample == {-9, -1, 0, 1, 3, 5, 8, 17, 31}

MCSteps == {2, 4, 8, 16}

MCLowWords == {0, -8}

MCEnumerators == {-1, 1}
=============================================================================
