------------------------ MODULE MCConstitutionalLog ------------------------
(* Model checking of ConstitutionalLog: the callers are interchangeable.    *)
EXTENDS ConstitutionalLog, TLC

CallerSymmetry == Permutations(Callers)
============================================================================
