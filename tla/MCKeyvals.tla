----------------------------- MODULE MCKeyvals -----------------------------
(* Instances of Keyvals.                                                   *)
EXTENDS Keyvals, TLC

CONSTANTS a, b, self, none

AllComms == {a, b, self}
(* The number 1 is a predefined keyval, as in Open MPI.                    *)
OnePredefined == {1}
Interchangeable == Permutations({a, b})
=============================================================================
