-------------------------- MODULE MCUpdateService --------------------------
(* Model-checking instance of UpdateService: a facts-like section, a       *)
(* protected one and progress; texts a and b state one subject, c is free. *)
EXTENDS UpdateService, TLC

CONSTANTS t1, t2, facts, decisions, progress, a, b, c, goal

OneSubject == (a :> goal) @@ (b :> goal)
ByPrefix == (decisions :> 1) @@ (facts :> 2) @@ (progress :> 3)
FactsAndProgress == (facts :> 1) @@ (progress :> 2)
Turns == 1..MaxTurns

Symmetry == Permutations({t1, t2})
=============================================================================
