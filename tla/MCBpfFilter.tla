----------------------------- MODULE MCBpfFilter -----------------------------
(* Small instances of BpfFilter for TLC. *)
EXTENDS BpfFilter, TLC

CONSTANTS t1, t2, x, y

MCMatchSets == {NoMatches,
                [e \in Exes |-> IF e = x THEN "redirect" ELSE "none"],
                [e \in Exes |-> IF e = x THEN "bypass" ELSE "redirect"]}
TaskSymmetry == Permutations(Tasks)
=============================================================================
