------------------------------ MODULE MCDriver ------------------------------
(* Step 1 is planned anew when it fails, steps 2 and 3 are the targets of  *)
(* one group: 2 has the default strategy, 3 is let go.                     *)
EXTENDS Driver
ReplanThenGroup == [s \in Step |-> IF s = 1 THEN "replan"
                                   ELSE IF s = 2 THEN "retry" ELSE "continue"]
NoStepLimit == [s \in Step |-> 0]
=============================================================================
