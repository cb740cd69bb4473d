----------------------------- MODULE MCStepRun -----------------------------
(* Model-checking instances of StepRun.                                    *)
EXTENDS StepRun, TLC

Symmetry == Permutations(Worker) \cup Permutations(Client)

OneRetry == 1 :> "retry"
NoStepLimit == [s \in Step |-> 0]
=============================================================================
