---------------------------- MODULE PlanOutcome ----------------------------
(***************************************************************************)
(* The decisions the runtime takes on a plan: how often a step may be      *)
(* tried, where the session goes after a step was verified, whether the    *)
(* plan as a whole goes on, failed or is done, and which step the session  *)
(* driver runs next.                                                       *)
(*                                                                         *)
(*   pkg/harness/runtime/budgets.go, loop.go, plan_outcome.go,             *)
(*   session_driver.go                                                     *)
(*                                                                         *)
(* Steps are numbered in plan order.  A plan has at most one group of      *)
(* fan-out steps, the targets of one program node: execution/aggregate.go. *)
(***************************************************************************)
EXTENDS SessionState

CONSTANTS Fanout,              \* the steps that carry the aggregate id
          Strategy,            \* Strategy[s]: normalised on_fail.strategy
          StepMaxRetries,      \* StepMaxRetries[s]: on_fail.max_retries
          MaxRetriesPerStep    \* LoopBudgets.MaxRetriesPerStep

OnFail == {"retry", "continue", "abort", "replan", "reinspect"}

ASSUME StepAssumption == Step \subseteq Nat
ASSUME FanoutAssumption == Fanout \subseteq Step
ASSUME OnFailAssumption ==
    /\ Strategy \in [Step -> OnFail]
    /\ StepMaxRetries \in [Step -> Nat]
    /\ MaxRetriesPerStep \in Nat

StepStatus == {"pending", "running", "blocked", "completed", "failed"}

StepSpec == [status : StepStatus, attempt : Nat]

NewStep == [status |-> "pending", attempt |-> 0]

Plan == [Step -> StepSpec]

(* The first try plus the retries; the step's own limit only tightens the  *)
(* budget, except that a budget of 0 leaves the step's limit in force.     *)
allowedAttempts(s) ==
    1 + IF StepMaxRetries[s] > 0
           /\ (MaxRetriesPerStep = 0 \/ StepMaxRetries[s] < MaxRetriesPerStep)
        THEN StepMaxRetries[s] ELSE MaxRetriesPerStep

ensureStepRetryBudget(s, spec) == spec.attempt < allowedAttempts(s)

unsettled == {"pending", "running", "blocked"}

(* The status of the fan-out group.                                        *)
aggregateStatus(p) ==
    IF \E s \in Fanout : p[s].status \in unsettled THEN "pending"
    ELSE IF \A s \in Fanout : p[s].status # "failed" THEN "completed"
    ELSE IF \E s \in Fanout : p[s].status = "completed" THEN "partial_failed"
    ELSE "failed"

exhausted(p, s) == p[s].status = "failed" /\ p[s].attempt >= allowedAttempts(s)

aggregateExhaustedAsFailed(p) == \A s \in Fanout : exhausted(p, s)

(* Variant: a target that was let go keeps the group from being judged.    *)
aggregateVerificationStrict(p) == \A s \in Fanout : p[s].status = "completed"

(* The group is judged as a whole once no target will be tried again.      *)
aggregateVerificationReady(p) ==
    \A s \in Fanout : p[s].status = "completed" \/ exhausted(p, s)

(* The plan outcome: a failed step with on_fail=abort fails the plan; one  *)
(* with on_fail=continue is let go once its attempts are used up, unless   *)
(* it is the whole of a fan-out group that failed; every other failed step *)
(* keeps the plan going.                                                   *)
planExecutionOutcomeForSpec(p) ==
    LET failed   == {s \in Step : p[s].status = "failed"}
        letGo    == {s \in failed : Strategy[s] = "continue" /\ exhausted(p, s)}
        aborting == \E s \in failed : Strategy[s] = "abort"
        groupFailed == letGo \cap Fanout # {} /\ aggregateStatus(p) = "failed"
        pending  == \E s \in Step : p[s].status \in unsettled
        recoverable == \/ \E s \in failed \ letGo : Strategy[s] # "abort"
                       \/ groupFailed /\ ~aggregateExhaustedAsFailed(p)
    IN  IF aborting \/ (groupFailed /\ aggregateExhaustedAsFailed(p)) THEN "fail"
        ELSE IF pending \/ recoverable THEN "continue" ELSE "done"

planStatusForSpec(p) ==
    CASE planExecutionOutcomeForSpec(p) = "fail"     -> "failed"
      [] planExecutionOutcomeForSpec(p) = "continue" -> "active"
      [] OTHER                                       -> "completed"

transitionForPlanOutcome(outcome) ==
    CASE outcome = "fail"     -> "failed"
      [] outcome = "continue" -> "plan"
      [] OTHER                -> "complete"

(* Variant: the strategy's name is taken for the phase.                    *)
onFailTransitionByName(s, spec) == Strategy[s]

(* The phase a failed verification leads to.                               *)
onFailTransition(s, spec) ==
    LET retry == spec.attempt < allowedAttempts(s)
    IN  CASE Strategy[s] = "abort"     -> "failed"
          [] Strategy[s] = "replan"    -> "plan"
          [] Strategy[s] = "reinspect" -> IF retry THEN "prepare" ELSE "failed"
          [] Strategy[s] = "continue"  -> IF retry THEN "recover" ELSE "plan"
          [] OTHER                     -> IF retry THEN "recover" ELSE "failed"

(* nextTransitionAfterVerification, then reconcileTransitionWithPlan: a    *)
(* verified step, or one that is let go, is weighed against the whole plan *)
(* p with the step's new status in it.                                     *)
nextTransition(p, s, spec, verified) ==
    IF \/ verified
       \/ Strategy[s] = "continue" /\ spec.attempt >= allowedAttempts(s)
    THEN transitionForPlanOutcome(
             planExecutionOutcomeForSpec([p EXCEPT ![s] = spec]))
    ELSE onFailTransition(s, spec)

----------------------------------------------------------------------------
(* Step selection of the session driver.                                   *)

(* Variant: a step that was let go is still tried.                         *)
executableStepLetGo(p, s) ==
    /\ s \in Step
    /\ \/ p[s].status \in {"pending", "running"}
       \/ p[s].status = "failed" /\ Strategy[s] \notin {"replan", "abort"}

executableStep(p, s) ==
    /\ s \in Step
    /\ \/ p[s].status \in {"pending", "running"}
       \/ /\ p[s].status = "failed"
          /\ Strategy[s] \notin {"replan", "abort"}
          /\ Strategy[s] = "continue" => p[s].attempt < allowedAttempts(s)

first(S) == {s \in S : \A r \in S : s <= r}

pinnedStepForSession(st, p) ==
    IF executableStep(p, st.inFlight) THEN {st.inFlight}
    ELSE {s \in {st.current} : executableStep(p, s)}

(* firstFailedPlanStep: the first failed step that was not let go.         *)
firstFailed(p) == first({s \in Step : p[s].status = "failed"
                                      /\ ~(Strategy[s] = "continue" /\ exhausted(p, s))})

firstPending(p) == first({s \in Step : p[s].status = "pending"})

(* The step to run, as a set of at most one element, when none is pinned:  *)
(* the first pending one, else the first failed one that may run again.    *)
firstStep(p) == IF firstPending(p) # {} THEN firstPending(p)
                ELSE {s \in firstFailed(p) : Strategy[s] \notin {"replan", "abort"}}

NeedsPlanning(p) ==
    /\ firstPending(p) = {}
    /\ \E s \in firstFailed(p) : Strategy[s] = "replan"

(* The step in flight, else the current one, else the next one.            *)
selectNextStepForSession(st, p) ==
    IF pinnedStepForSession(st, p) # {} THEN pinnedStepForSession(st, p)
    ELSE firstStep(p)
=============================================================================
