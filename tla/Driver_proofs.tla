---------------------------- MODULE Driver_proofs ----------------------------
(***************************************************************************)
(* Proofs about Driver, for any plan, fan-out group, strategies, budgets,  *)
(* planners, bounds and ways to name steps: types, dense revisions, the    *)
(* bound on tool calls; that a session completes only with its plan and    *)
(* after the verdict on its group; and that no call ends in a dead end.    *)
(***************************************************************************)
EXTENDS Driver, FiniteSetTheorems, TLAPS

----------------------------------------------------------------------------
(* The inductive invariant: types, the plan store and the driver's frame.  *)

(* n plans are stored, in the order of their revisions.                    *)
Dense(ps, n) ==
    /\ n \in 0..MaxPlans
    /\ \A p \in PlanId : ps[p].rev = IF p <= n THEN p ELSE 0

RevisionRead(pl, n) ==
    \A a \in Planner : pl[a].pc = "write" => pl[a].rev \in 1..(n + 1)

Choosing == {"select", "step", "tool", "persist", "round", "launch", "gather"}
Chosen == Choosing \ {"select"}
InRound == {"round", "launch", "gather"}

(* What the driver's call c refers to, with n plans stored.                *)
Frame(c, n) ==
    /\ c \in Call
    /\ c.seen.plan \in 0..n /\ c.next.plan \in 0..n
    /\ c.pc \in Choosing => c.latest \in 1..n
    /\ c.pc \in Chosen => c.plan \in 1..n /\ c.step \in Step
    /\ c.pc \in InRound => \E m \in Fanout : c.group[m] # "out"

PlanningSet == [Planner -> [pc : {"idle", "check", "read", "write"}, rev : Nat]]
Reason == {"none", "over", "no_step", "no_plan", "exhausted", "backoff", "crash"}

(* The types, but for the plan written last, which no action looks at.     *)
Typed ==
    /\ session \in SessionRecord
    /\ session.plan # NoPlan => session.plan \in Stored
    /\ plans \in [PlanId -> PlanRecord]
    /\ planning \in PlanningSet
    /\ d \in Call
    /\ last \in Reason
    /\ invoked \in [PlanId -> [Step -> Nat]]
    /\ judged \in [PlanId -> {"no", "yes", "denied"}]
    /\ crashes \in 0..MaxCrashes

TypeInv ==
    /\ Typed
    /\ planning["driver"].pc # "idle" => d.pc = "plan"
    /\ \E n \in 0..MaxPlans :
         /\ Dense(plans, n)
         /\ RevisionRead(planning, n)
         /\ session.plan \in 0..n
         /\ Frame(d, n)

----------------------------------------------------------------------------
(* The inductive invariant: attempts.                                      *)

(* An attempt is stored only with a verdict, and within the budget.        *)
StepGood(s, spec) ==
    /\ spec.status \in {"pending", "completed", "failed"}
    /\ spec.status = "pending" => spec.attempt = 0
    /\ spec.attempt <= allowedAttempts(s)

(* The driver's copy of the step and the stored one.                       *)
CopyGood(c, ps) ==
    /\ c.pc = "step" =>
         /\ c.spec.attempt = ps[c.plan].steps[c.step].attempt
         /\ c.spec.status = ps[c.plan].steps[c.step].status
    /\ c.pc \in {"tool", "persist"} =>
         /\ c.spec.attempt = ps[c.plan].steps[c.step].attempt + 1
         /\ c.spec.attempt <= allowedAttempts(c.step)
    /\ c.pc = "persist" => c.spec.status \in {"completed", "failed"}
    /\ c.pc \in InRound =>
         \A m \in Fanout : c.group[m] # "out" =>
             ps[c.latest].steps[m].attempt < allowedAttempts(m)

(* What a turn had used up when it began is still used up, and more of it  *)
(* when the next one begins.                                               *)
Behind(m, ps) ==
    /\ \A p \in m.stored : ps[p].rev # 0
    /\ \A p \in PlanId, s \in Step : m.attempts[p][s] <= ps[p].steps[s].attempt

Ahead(m, ps) ==
    \/ \E p \in PlanId \ m.stored : ps[p].rev # 0
    \/ \E p \in PlanId, s \in Step : m.attempts[p][s] < ps[p].steps[s].attempt

MarkGood(c, ps) ==
    \A m \in c.mark : Behind(m, ps) /\ (c.pc = "loop" => Ahead(m, ps))

(* The tool was called for step s of plan p, its attempt is not stored yet.*)
Owed(c, p, s) ==
    \/ c.pc = "persist" /\ p = c.plan /\ s = c.step
    \/ /\ c.pc = "gather" /\ p = c.latest
       /\ s \in Fanout /\ c.group[s] \in {"ok", "failed"}

CallsCounted(inv, ps, c, k) ==
    \A p \in PlanId, s \in Step :
        inv[p][s] <= ps[p].steps[s].attempt + k + (IF Owed(c, p, s) THEN 1 ELSE 0)

AttemptInv ==
    /\ TypeInv
    /\ \A p \in PlanId, s \in Step : StepGood(s, plans[p].steps[s])
    /\ \A p \in PlanId : plans[p].rev = 0 => plans[p].steps = FreshSteps
    /\ CopyGood(d, plans)
    /\ CallsCounted(invoked, plans, d, crashes)
    /\ MarkGood(d, plans)

----------------------------------------------------------------------------
(* The inductive invariant: outcomes.                                      *)

Outcome(steps) == planExecutionOutcomeForSpec(steps)
Ready(steps) == aggregateVerificationReady(steps)

StatusGood(ps) ==
    \A p \in PlanId : ps[p].status = planStatusForSpec(ps[p].steps)

After(c, ps) == [ps[c.plan].steps EXCEPT ![c.step] = c.spec]

Judging == AggregateScope /\ Fanout # {}

(* The judged plan has a step with the id of the one that ran.             *)
Placed(c) == FreshIds => c.plan = c.judged

(* The steps an outcome was judged on.                                     *)
Weighed(c, ps) == IF Placed(c) THEN [ps[c.judged].steps EXCEPT ![c.step] = c.spec]
                  ELSE ps[c.judged].steps

(* An outcome that is about to be written was judged on a plan that is at  *)
(* least as new as its own, and by the group's verdict if it settles it.   *)
OutcomeGood(c, ps, js, n) ==
    c.pc = "persist" =>
      /\ c.judged \in 1..n /\ c.plan <= c.judged
      /\ c.next.current = stepId(c.plan, c.step)
      /\ c.next.phase = "complete" => Outcome(Weighed(c, ps)) = "done"
      /\ Judging /\ Ready(ps[c.judged].steps) => js[c.judged] # "no"
      /\ Judging /\ Placed(c) /\ c.step \in Fanout /\ Ready(Weighed(c, ps))
           => c.group[c.step] = "ok"

(* The judged steps with step s of plan w in the place of its namesake.    *)
InPlace(ps, j, w, s) == [ps[j].steps EXCEPT ![s] = ps[w].steps[s]]

(* A complete session has its plan completed and its group judged, or was  *)
(* completed by a step of another plan in the place of its namesake.       *)
CompleteGood(st, c, ps, js, w, n) ==
    st.phase = "complete" =>
      /\ c.judged \in 1..n
      /\ \/ /\ ps[c.judged].status = "completed"
            /\ Judging => js[c.judged] # "no"
         \/ /\ ~FreshIds /\ w \in 1..n /\ w # c.judged /\ st.current[2] \in Step
            /\ planStatusForSpec(InPlace(ps, c.judged, w, st.current[2])) = "completed"
            /\ Judging => \/ js[c.judged] # "no"
                          \/ st.current[2] \in Fanout /\ js[w] = "yes"

OutcomeInv ==
    /\ AttemptInv
    /\ StatusGood(plans)
    /\ isTerminalPhase(session.phase) => d.pc = "idle"
    /\ \E n \in 0..MaxPlans :
         /\ Dense(plans, n)
         /\ OutcomeGood(d, plans, judged, n)
         /\ CompleteGood(session, d, plans, judged, wrote, n)
         /\ ~isTerminalPhase(session.phase) /\ Judging /\ n > 0 /\ Ready(plans[n].steps)
              => judged[n] # "no"

----------------------------------------------------------------------------
(* The inductive invariant: a session that is not over has a step to run.  *)

(* A step that is to be tried again and has no attempt left.               *)
Stuck(s, spec) ==
    /\ spec.status = "failed" /\ spec.attempt >= allowedAttempts(s)
    /\ Strategy[s] \in {"retry", "reinspect"}

(* A round has left a target that way.                                     *)
Stranded(ps) ==
    /\ MaxConcurrency > 1
    /\ \E p \in PlanId, s \in Fanout : ps[p].rev # 0 /\ Stuck(s, ps[p].steps[s])

(* No failed step ends the plan, and one is to be tried, tried again or    *)
(* planned anew.                                                           *)
Workable(p) ==
    /\ \A s \in Step : p[s].status = "failed" => Strategy[s] # "abort"
    /\ \E s \in Step : \/ p[s].status = "pending"
                       \/ /\ p[s].status = "failed"
                          /\ ~(Strategy[s] = "continue" /\ exhausted(p, s))

ContinueGood(c, ps) ==
    /\ c.pc = "select" => Workable(ps[c.latest].steps)
    /\ c.pc = "step" => c.spec.attempt < allowedAttempts(c.step) \/ Stranded(ps)
    /\ c.pc \in InRound => MaxConcurrency > 1
    /\ c.pc = "persist" /\ ~isTerminalPhase(c.next.phase) =>
         /\ ~Stuck(c.step, c.spec)
         /\ c.plan = c.judged => Workable(After(c, ps))

(* A call that gave up for want of a step did so on a stranded target.     *)
GaveUp(why, c, ps) ==
    /\ why # "no_step"
    /\ why = "exhausted" => c.pc = "idle" /\ Stranded(ps)

(* Only a target of a group that runs in rounds is ever stuck.             *)
Going(st, ps, n) ==
    ~isTerminalPhase(st.phase) =>
      /\ n > 0 => Workable(ps[n].steps)
      /\ \A p \in PlanId, s \in Step :
           Stuck(s, ps[p].steps[s]) => s \in Fanout /\ MaxConcurrency > 1

JudgedOn(c, n) == c.pc = "persist" => c.judged \in 1..n /\ c.plan <= c.judged

ContinueInv ==
    /\ AttemptInv
    /\ GaveUp(last, d, plans)
    /\ isTerminalPhase(session.phase) => d.pc = "idle"
    /\ ContinueGood(d, plans)
    /\ \E n \in 0..MaxPlans : /\ Dense(plans, n)
                              /\ JudgedOn(d, n) /\ Going(session, plans, n)

----------------------------------------------------------------------------
(* Facts about the definitions of Driver and PlanOutcome.                  *)

LEMMA LeastStep ==
    ASSUME NEW S \in SUBSET Nat, S # {}
    PROVE  first(S) # {}
  <1>1. PICK x \in S : \A y \in S : ~(<<y, x>> \in OpToRel(<, Nat))
    BY NatLessThanWellFounded, WFMin
  <1>2. \A y \in S : ~(y < x)
    BY <1>1 DEF OpToRel
  <1>3. \A y \in S : x <= y
    BY <1>2
  <1> QED BY <1>3 DEF first

(* A finite set of numbers that is not empty has a greatest element: a     *)
(* least set without one would have a smaller such set in it.              *)
LEMMA GreatestOfFinite ==
    ASSUME NEW S \in SUBSET Nat, IsFiniteSet(S), S # {}
    PROVE  \E m \in S : \A r \in S : r <= m
  <1> DEFINE Without == {U \in FiniteSubsetsOf(S) :
                           U # {} /\ ~ \E m \in U : \A r \in U : r <= m}
  <1>1. SUFFICES ASSUME Without # {} PROVE FALSE
    <2>1. S \in FiniteSubsetsOf(S)
      BY DEF FiniteSubsetsOf
    <2> QED BY <1>1, <2>1
  <1>2. PICK U \in Without : \A V \in Without : ~(<<V, U>> \in StrictSubsetOrdering(S))
    <2>1. Without \subseteq FiniteSubsetsOf(S)
      OBVIOUS
    <2> HIDE DEF Without
    <2> QED BY <1>1, <2>1, FS_StrictSubsetOrderingWellFounded, WFMin
  <1>3. /\ U \subseteq S /\ IsFiniteSet(U) /\ U # {}
        /\ ~ \E m \in U : \A r \in U : r <= m
    BY DEF FiniteSubsetsOf
  <1>4. PICK x \in U : TRUE
    BY <1>3
  <1> DEFINE V == U \ {x}
  <1>5. V \subseteq S /\ IsFiniteSet(V) /\ V # U
    BY <1>3, <1>4, FS_RemoveElement
  <1>6. <<V, U>> \in StrictSubsetOrdering(S)
    BY <1>3, <1>5 DEF StrictSubsetOrdering, FiniteSubsetsOf
  <1>7. V \notin Without
    BY <1>2, <1>6
  <1>8. V = {} \/ \E m \in V : \A r \in V : r <= m
    BY <1>5, <1>7 DEF FiniteSubsetsOf
  <1>9. CASE V = {}
    BY <1>3, <1>4, <1>9
  <1>10. CASE \E m \in V : \A r \in V : r <= m
    <2>1. PICK m \in V : \A r \in V : r <= m
      BY <1>10
    <2>2. x \in Nat /\ m \in Nat /\ m \in U /\ U \subseteq Nat
      BY <1>3, <1>4
    <2>3. \A r \in U : r = x \/ r <= m
      BY <2>1
    <2>4. CASE x <= m
      BY <1>3, <2>2, <2>3, <2>4
    <2>5. CASE m <= x
      BY <1>3, <1>4, <2>2, <2>3, <2>5
    <2> QED BY <2>2, <2>4, <2>5
  <1> QED BY <1>8, <1>9, <1>10

LEMMA AllowedAttempts ==
    \A s \in Step : allowedAttempts(s) \in Nat /\ allowedAttempts(s) >= 1
  BY OnFailAssumption DEF allowedAttempts

LEMMA OutcomeKinds ==
    ASSUME NEW steps
    PROVE  /\ Outcome(steps) \in {"fail", "continue", "done"}
           /\ planStatusForSpec(steps) \in {"active", "completed", "failed"}
           /\ Outcome(steps) = "done" <=> planStatusForSpec(steps) = "completed"
           /\ transitionForPlanOutcome(Outcome(steps)) \in {"plan", "complete", "failed"}
           /\ Outcome(steps) = "done"
                <=> transitionForPlanOutcome(Outcome(steps)) = "complete"
           /\ Outcome(steps) = "continue"
                <=> transitionForPlanOutcome(Outcome(steps)) = "plan"
  <1>1. Outcome(steps) \in {"fail", "continue", "done"}
    BY Zenon DEF Outcome, planExecutionOutcomeForSpec
  <1>2. CASE Outcome(steps) = "fail"
    BY <1>2, Zenon DEF Outcome, planStatusForSpec, transitionForPlanOutcome
  <1>3. CASE Outcome(steps) = "continue"
    BY <1>3, Zenon DEF Outcome, planStatusForSpec, transitionForPlanOutcome
  <1>4. CASE Outcome(steps) = "done"
    BY <1>4, Zenon DEF Outcome, planStatusForSpec, transitionForPlanOutcome
  <1> QED BY <1>1, <1>2, <1>3, <1>4

(* The outcome and the verdict's time depend on status and attempt alone.  *)
Alike(p, q) == \A s \in Step : p[s].status = q[s].status /\ p[s].attempt = q[s].attempt

LEMMA AlikeExhausted ==
    ASSUME NEW p, NEW q, Alike(p, q)
    PROVE  \A s \in Step : exhausted(p, s) <=> exhausted(q, s)
  BY Zenon DEF Alike, exhausted

LEMMA AlikeOutcome ==
    ASSUME NEW p, NEW q, Alike(p, q)
    PROVE  Outcome(p) = Outcome(q) /\ (Ready(p) <=> Ready(q))
           /\ planStatusForSpec(p) = planStatusForSpec(q)
  <1> DEFINE failed(r) == {s \in Step : r[s].status = "failed"}
             letGo(r) == {s \in failed(r) : Strategy[s] = "continue" /\ exhausted(r, s)}
             aborting(r) == \E s \in failed(r) : Strategy[s] = "abort"
             groupFailed(r) == letGo(r) \cap Fanout # {} /\ aggregateStatus(r) = "failed"
             pending(r) == \E s \in Step : r[s].status \in unsettled
             recoverable(r) == \/ \E s \in failed(r) \ letGo(r) : Strategy[s] # "abort"
                               \/ groupFailed(r) /\ ~aggregateExhaustedAsFailed(r)
             result(r) == IF aborting(r) \/ (groupFailed(r) /\ aggregateExhaustedAsFailed(r))
                          THEN "fail"
                          ELSE IF pending(r) \/ recoverable(r) THEN "continue" ELSE "done"
  <1>1. Outcome(p) = result(p) /\ Outcome(q) = result(q)
    BY DEF Outcome, planExecutionOutcomeForSpec
  <1>2. failed(p) = failed(q)
    BY Zenon DEF Alike
  <1>3. letGo(p) = letGo(q)
    <2> HIDE DEF failed
    <2> QED BY <1>2, AlikeExhausted, Zenon DEF failed
  <1>4. aggregateStatus(p) = aggregateStatus(q)
    <2>1. \A s \in Fanout : p[s].status = q[s].status
      BY FanoutAssumption DEF Alike
    <2> QED BY <2>1, Zenon DEF aggregateStatus
  <1>5. aggregateExhaustedAsFailed(p) <=> aggregateExhaustedAsFailed(q)
    BY AlikeExhausted, FanoutAssumption DEF aggregateExhaustedAsFailed
  <1>6. pending(p) <=> pending(q)
    BY DEF Alike
  <1>7. Ready(p) <=> Ready(q)
    <2>1. \A s \in Fanout : p[s].status = q[s].status
      BY FanoutAssumption DEF Alike
    <2> QED BY <2>1, AlikeExhausted, FanoutAssumption DEF Ready, aggregateVerificationReady
  <1>8. result(p) = result(q)
    <2> HIDE DEF failed, letGo, pending
    <2> QED BY <1>2, <1>3, <1>4, <1>5, <1>6, Zenon
  <1>9. planStatusForSpec(p) = planStatusForSpec(q)
    BY <1>1, <1>8, Zenon DEF planStatusForSpec, Outcome
  <1> QED BY <1>1, <1>7, <1>8, <1>9

(* A plan that is done has its group settled.                              *)
LEMMA DoneIsReady ==
    ASSUME NEW p, Outcome(p) = "done", \A s \in Step : p[s].status \in StepStatus
    PROVE  Ready(p)
  <1>1. SUFFICES ASSUME NEW s \in Fanout, p[s].status # "completed"
                 PROVE  exhausted(p, s)
    BY DEF Ready, aggregateVerificationReady
  <1>2. s \in Step
    BY FanoutAssumption
  <1>3. p[s].status \notin unsettled
    BY <1>2 DEF Outcome, planExecutionOutcomeForSpec
  <1>4. p[s].status = "failed"
    BY <1>1, <1>2, <1>3 DEF unsettled, StepStatus
  <1> QED BY <1>2, <1>4 DEF Outcome, planExecutionOutcomeForSpec

LEMMA FailPhases ==
    ASSUME NEW s \in Step, NEW spec
    PROVE  /\ onFailTransition(s, spec) \in {"recover", "prepare", "plan", "failed"}
           /\ onFailTransition(s, spec) # "failed" =>
                \/ Strategy[s] = "replan"
                \/ Strategy[s] # "abort" /\ spec.attempt < allowedAttempts(s)
                \/ Strategy[s] = "continue"
  <1>1. Strategy[s] \in OnFail
    BY OnFailAssumption
  <1>2. CASE Strategy[s] = "abort"
    BY <1>2, Zenon DEF onFailTransition
  <1>3. CASE Strategy[s] = "replan"
    BY <1>3, Zenon DEF onFailTransition
  <1>4. CASE Strategy[s] = "reinspect"
    BY <1>4, Zenon DEF onFailTransition
  <1>5. CASE Strategy[s] = "continue"
    BY <1>5, Zenon DEF onFailTransition
  <1>6. CASE Strategy[s] = "retry"
    BY <1>6, Zenon DEF onFailTransition
  <1> QED BY <1>1, <1>2, <1>3, <1>4, <1>5, <1>6 DEF OnFail

----------------------------------------------------------------------------
(* The plan store.                                                         *)

LEMMA StoredFacts ==
    ASSUME NEW n \in 0..MaxPlans, Dense(plans, n)
    PROVE  /\ Stored = 1..n /\ Cardinality(Stored) = n
           /\ n > 0 => /\ LatestBySession = {n}
                       /\ (CHOOSE p \in LatestBySession : TRUE) = n
           /\ n = 0 => LatestBySession = {}
           /\ latestRevision = n
           /\ Stored = PlanId <=> n = MaxPlans
  <1>0. MaxPlans \in Nat /\ n \in Nat /\ n <= MaxPlans
    BY DriverAssumption
  <1>1. Stored = 1..n
    BY <1>0 DEF Stored, PlanId, Dense
  <1>2. Cardinality(1..n) = n
    BY <1>0, FS_Interval
  <1>3. \A p \in 1..n : plans[p].rev = p
    BY <1>0 DEF Dense, PlanId
  <1>4. ASSUME n > 0 PROVE LatestBySession = {n}
    BY <1>0, <1>1, <1>3, <1>4 DEF LatestBySession
  <1>5. ASSUME n = 0 PROVE LatestBySession = {}
    BY <1>0, <1>1, <1>5 DEF LatestBySession
  <1>6. latestRevision = n
    <2>1. CASE n = 0
      BY <1>1, <2>1 DEF latestRevision
    <2>2. CASE n > 0
      <3>1. (CHOOSE p \in LatestBySession : TRUE) = n
        BY <1>4, <2>2
      <3>2. Stored # {} /\ n \in 1..n
        BY <1>0, <1>1, <2>2
      <3>3. latestRevision = plans[n].rev
        BY <3>1, <3>2, Zenon DEF latestRevision
      <3> QED BY <1>3, <3>2, <3>3
    <2> QED BY <1>0, <2>1, <2>2
  <1>7. Stored = PlanId <=> n = MaxPlans
    BY <1>0, <1>1 DEF PlanId
  <1>8. n > 0 => (CHOOSE p \in LatestBySession : TRUE) = n
    BY <1>4
  <1> QED BY <1>1, <1>2, <1>4, <1>5, <1>6, <1>7, <1>8

LEMMA DenseUnique ==
    ASSUME NEW n \in 0..MaxPlans, NEW m \in 0..MaxPlans,
           Dense(plans, n), Dense(plans, m)
    PROVE  n = m
  <1>1. Stored = 1..n /\ Stored = 1..m
    BY StoredFacts
  <1>2. n \in Nat /\ m \in Nat
    BY DriverAssumption
  <1> QED BY <1>1, <1>2

(* Plans with the same revisions.                                          *)
SameRevisions(ps, qs) == \A p \in PlanId : qs[p].rev = ps[p].rev

LEMMA DenseKept ==
    ASSUME NEW ps, NEW qs, NEW n, Dense(ps, n), SameRevisions(ps, qs)
    PROVE  Dense(qs, n)
  BY DEF Dense, SameRevisions

LEMMA FreshTyped ==
    /\ FreshSteps \in [Step -> DriverStep]
    /\ AbsentPlan \in PlanRecord
    /\ NewSession \in SessionRecord /\ NewSession.plan = NoPlan
    /\ NoId \in StepId
  <1>1. FreshSteps \in [Step -> DriverStep]
    BY DEF FreshSteps, DriverStep, StepStatus
  <1>2. AbsentPlan \in PlanRecord
    BY <1>1 DEF AbsentPlan, PlanRecord
  <1>3. NewSession \in SessionRecord /\ NewSession.plan = NoPlan
    BY DEF NewSession, SessionRecord, StepId, PlanRef
  <1> QED BY <1>1, <1>2, <1>3 DEF StepId

LEMMA StepIds ==
    \A p \in PlanId, s \in Step : stepId(p, s) \in StepId
  BY DEF StepId

LEMMA NoCallTyped ==
    /\ NoCall \in Call /\ NoCall.mark = {}
    /\ NoCall.pc = "idle" /\ NoCall.seen.plan = NoPlan /\ NoCall.next.plan = NoPlan
    /\ NoCall.latest = NoPlan /\ NoCall.plan = NoPlan
  <1>1. FreshSteps[CHOOSE s \in Step : TRUE] \in DriverStep
    <2>1. (CHOOSE s \in Step : TRUE) \in Step
      BY DriverAssumption
    <2> QED BY <2>1, FreshTyped
  <1>2. [s \in Step |-> "out"] \in [Step -> Member]
    BY DEF Member
  <1> DEFINE sp == FreshSteps[CHOOSE s \in Step : TRUE]
             gr == [s \in Step |-> "out"]
  <1>3. sp \in DriverStep /\ gr \in [Step -> Member]
    BY <1>1, <1>2
  <1>4. NoCall = [pc |-> "idle", then |-> "select", seen |-> NewSession,
           latest |-> NoPlan, plan |-> NoPlan, step |-> NoStep,
           spec |-> sp, next |-> NewSession,
           group |-> gr, judged |-> NoPlan, mark |-> {}]
    BY Zenon DEF NoCall
  <1> HIDE DEF sp, gr
  <1> QED BY <1>3, <1>4, FreshTyped DEF Call, PlanRef

----------------------------------------------------------------------------
(* The plan store after an outcome was written.                            *)

Merged(p, outcomes) ==
    [s \in Step |-> IF s \in DOMAIN outcomes THEN outcomes[s] ELSE plans[p].steps[s]]

LEMMA PlanUpdatedForm ==
    ASSUME NEW p \in PlanId, NEW outcomes, plans \in [PlanId -> PlanRecord],
           \A s \in Step \cap DOMAIN outcomes : outcomes[s] \in DriverStep
    PROVE  LET ps == planUpdated(p, outcomes) IN
           /\ Merged(p, outcomes) \in [Step -> DriverStep]
           /\ ps \in [PlanId -> PlanRecord]
           /\ SameRevisions(plans, ps)
           /\ ps[p].steps = Merged(p, outcomes)
           /\ ps[p].status = planStatusForSpec(Merged(p, outcomes))
           /\ \A q \in PlanId \ {p} : ps[q] = plans[q]
  <1> DEFINE steps == Merged(p, outcomes)
             status == planStatusForSpec(steps)
  <1>1. steps \in [Step -> DriverStep]
    BY DEF Merged, PlanRecord
  <1>2. status \in {"active", "completed", "failed"}
    BY OutcomeKinds
  <1>3. planUpdated(p, outcomes) = [plans EXCEPT ![p].steps = steps, ![p].status = status]
    BY DEF planUpdated, Merged
  <1> HIDE DEF steps, status
  <1>4. PICK r \in PlanRecord : r = plans[p]
    OBVIOUS
  <1> DEFINE r2 == [r EXCEPT !.steps = steps, !.status = status]
  <1>5. /\ r2 \in PlanRecord /\ r2.rev = r.rev
        /\ r2.steps = steps /\ r2.status = status
    BY <1>1, <1>2 DEF PlanRecord
  <1> HIDE DEF r2
  <1>6. planUpdated(p, outcomes) = [plans EXCEPT ![p] = r2]
    BY <1>3, <1>4 DEF r2
  <1>7. /\ planUpdated(p, outcomes) \in [PlanId -> PlanRecord]
        /\ planUpdated(p, outcomes)[p] = r2
        /\ \A q \in PlanId \ {p} : planUpdated(p, outcomes)[q] = plans[q]
    BY <1>5, <1>6
  <1>8. SameRevisions(plans, planUpdated(p, outcomes))
    BY <1>4, <1>5, <1>7 DEF SameRevisions
  <1> QED BY <1>1, <1>5, <1>7, <1>8 DEF steps, status

----------------------------------------------------------------------------
(* Types.                                                                  *)

LEMMA TypeFacts ==
    ASSUME TypeInv
    PROVE  \E n \in 0..MaxPlans :
             /\ n \in Nat /\ MaxPlans \in Nat
             /\ Dense(plans, n) /\ RevisionRead(planning, n)
             /\ session \in SessionRecord /\ session.plan \in 0..n
             /\ Frame(d, n) /\ d \in Call
             /\ plans \in [PlanId -> PlanRecord]
             /\ planning \in PlanningSet
             /\ 1..n \subseteq PlanId /\ 0..n \subseteq PlanRef
             /\ Stored = 1..n /\ Cardinality(Stored) = n
             /\ latestRevision = n
             /\ invoked \in [PlanId -> [Step -> Nat]]
             /\ judged \in [PlanId -> {"no", "yes", "denied"}]
             /\ crashes \in 0..MaxCrashes /\ last \in Reason
  <1>1. PICK n \in 0..MaxPlans : /\ Dense(plans, n) /\ RevisionRead(planning, n)
                                 /\ session.plan \in 0..n /\ Frame(d, n)
    BY DEF TypeInv
  <1>2. n \in Nat /\ MaxPlans \in Nat /\ 1..n \subseteq PlanId /\ 0..n \subseteq PlanRef
    BY DriverAssumption DEF PlanId, PlanRef, NoPlan
  <1>3. Stored = 1..n /\ Cardinality(Stored) = n /\ latestRevision = n
    BY <1>1, StoredFacts
  <1> QED BY <1>1, <1>2, <1>3 DEF TypeInv, Typed

LEMMA TypeFrom ==
    ASSUME NEW n \in 0..MaxPlans,
           Dense(plans', n), RevisionRead(planning', n),
           session' \in SessionRecord, session'.plan \in 0..n,
           Frame(d', n),
           plans' \in [PlanId -> PlanRecord],
           planning' \in PlanningSet,
           planning'["driver"].pc # "idle" => d'.pc = "plan",
           invoked' \in [PlanId -> [Step -> Nat]],
           judged' \in [PlanId -> {"no", "yes", "denied"}],
           crashes' \in 0..MaxCrashes, last' \in Reason
    PROVE  TypeInv'
  <1>1. Stored' = 1..n
    BY DriverAssumption DEF Stored, PlanId, Dense
  <1>2. session'.plan # NoPlan => session'.plan \in Stored'
    BY <1>1 DEF NoPlan
  <1>3. d' \in Call
    BY DEF Frame
  <1>4. Typed'
    BY <1>2, <1>3 DEF Typed
  <1> QED BY <1>4 DEF TypeInv

(* What an action leaves alone.                                            *)
LEMMA PlanningKept ==
    ASSUME TypeInv, UNCHANGED planning, d.pc # "plan" \/ d'.pc = "plan"
    PROVE  planning'["driver"].pc # "idle" => d'.pc = "plan"
  BY DEF TypeInv

LEMMA SetPlanningForm ==
    ASSUME planning \in PlanningSet, NEW a \in Planner,
           NEW pc \in {"idle", "check", "read", "write"}, NEW rev \in Nat,
           SetPlanning(a, [pc |-> pc, rev |-> rev])
    PROVE  /\ planning' \in PlanningSet
           /\ planning'[a].pc = pc /\ planning'[a].rev = rev
           /\ \A b \in Planner \ {a} : planning'[b] = planning[b]
  BY DEF SetPlanning, PlanningSet

(* A call that is over, or back at the top of the loop, refers to nothing. *)
Bare(c, pc, p, mark) ==
    /\ c \in Call /\ c.pc = pc /\ c.judged = p /\ c.mark = mark
    /\ c.seen.plan = 0 /\ c.next.plan = 0

LEMMA BareFrame ==
    ASSUME NEW c, NEW pc \in {"idle", "loop"}, NEW p, NEW mark, NEW n \in Nat,
           Bare(c, pc, p, mark)
    PROVE  Frame(c, n)
  BY DEF Bare, Frame, Choosing, Chosen, InRound

LEMMA ReturnForm ==
    ASSUME d \in Call, NEW why, Return(why)
    PROVE  Bare(d', "idle", d.judged, {}) /\ last' = why
  BY NoCallTyped DEF Return, Bare, Call, NoPlan

LEMMA ContinueForm ==
    ASSUME d \in Call, NEW st, NEW p \in PlanRef, Continue(st, p)
    PROVE  IF isTerminalPhase(st.phase)
           THEN Bare(d', "idle", p, {}) /\ last' = "over"
           ELSE Bare(d', "loop", p, d.mark) /\ last' = last
  <1>1. CASE isTerminalPhase(st.phase)
    BY <1>1, NoCallTyped DEF Continue, Bare, Call, NoPlan
  <1>2. CASE ~isTerminalPhase(st.phase)
    BY <1>2, NoCallTyped DEF Continue, Bare, Call, NoPlan
  <1> QED BY <1>1, <1>2

----------------------------------------------------------------------------
(* Planning: types.                                                        *)

LEMMA PlanningEndsForm ==
    ASSUME TypeInv, NEW a \in Planner, PlanningEnds(a)
    PROVE  /\ planning' \in PlanningSet
           /\ planning'[a].pc = "idle"
           /\ \A b \in Planner \ {a} : planning'[b] = planning[b]
           /\ \A n \in Nat : RevisionRead(planning, n) => RevisionRead(planning', n)
  <1>1. planning \in PlanningSet
    BY TypeFacts
  <1>2. /\ planning' \in PlanningSet
        /\ planning'[a].pc = "idle"
        /\ \A b \in Planner \ {a} : planning'[b] = planning[b]
    BY <1>1, SetPlanningForm DEF PlanningEnds
  <1> QED BY <1>2 DEF RevisionRead

LEMMA DriverIsPlanner == "driver" \in Planner /\ Client \subseteq Planner
  BY DEF Planner

LEMMA PlanningFailsType ==
    ASSUME TypeInv, NEW a \in Planner, planning[a].pc # "idle", PlanningFails(a)
    PROVE  TypeInv'
  <1>1. PICK n \in 0..MaxPlans :
             /\ n \in Nat
             /\ Dense(plans, n) /\ RevisionRead(planning, n)
             /\ session \in SessionRecord /\ session.plan \in 0..n
             /\ Frame(d, n) /\ d \in Call
             /\ plans \in [PlanId -> PlanRecord]
             /\ invoked \in [PlanId -> [Step -> Nat]]
             /\ judged \in [PlanId -> {"no", "yes", "denied"}]
             /\ crashes \in 0..MaxCrashes /\ last \in Reason
    BY TypeFacts
  <1>2. UNCHANGED <<session, plans, invoked, judged, crashes>> /\ PlanningEnds(a)
    BY DEF PlanningFails
  <1>3. /\ planning' \in PlanningSet /\ RevisionRead(planning', n)
        /\ planning'[a].pc = "idle"
        /\ \A b \in Planner \ {a} : planning'[b] = planning[b]
    BY <1>1, <1>2, PlanningEndsForm
  <1>4. CASE a = "driver"
    <2>1. Return("no_plan")
      BY <1>4 DEF PlanningFails
    <2>2. Bare(d', "idle", d.judged, {}) /\ last' = "no_plan"
      BY <1>1, <2>1, ReturnForm
    <2>3. Frame(d', n)
      BY <1>1, <2>2, BareFrame
    <2> QED BY <1>1, <1>2, <1>3, <1>4, <2>2, <2>3, TypeFrom DEF Reason
  <1>5. CASE a # "driver"
    <2>1. UNCHANGED <<d, last>>
      BY <1>5 DEF PlanningFails
    <2>2. planning'["driver"] = planning["driver"]
      BY <1>3, <1>5, DriverIsPlanner
    <2>3. planning'["driver"].pc # "idle" => d'.pc = "plan"
      BY <2>1, <2>2 DEF TypeInv
    <2> QED BY <1>1, <1>2, <1>3, <2>1, <2>3, TypeFrom
  <1> QED BY <1>4, <1>5

(* The step of a planning call that writes nothing but its own frame.      *)
LEMMA PlanningStepType ==
    ASSUME TypeInv, NEW a \in Planner,
           a = "driver" => d.pc = "plan",
           NEW pc \in {"check", "read", "write"}, NEW rev \in Nat,
           pc = "write" => rev = latestRevision + 1,
           SetPlanning(a, [pc |-> pc, rev |-> rev]),
           UNCHANGED <<session, plans, d, last, invoked, judged, crashes>>
    PROVE  TypeInv'
  <1>1. PICK n \in 0..MaxPlans :
             /\ n \in Nat /\ latestRevision = n
             /\ Dense(plans, n) /\ RevisionRead(planning, n)
             /\ session \in SessionRecord /\ session.plan \in 0..n
             /\ Frame(d, n)
             /\ plans \in [PlanId -> PlanRecord]
             /\ planning \in PlanningSet
             /\ invoked \in [PlanId -> [Step -> Nat]]
             /\ judged \in [PlanId -> {"no", "yes", "denied"}]
             /\ crashes \in 0..MaxCrashes /\ last \in Reason
    BY TypeFacts
  <1>2. /\ planning' \in PlanningSet
        /\ planning'[a].pc = pc /\ planning'[a].rev = rev
        /\ \A b \in Planner \ {a} : planning'[b] = planning[b]
    BY <1>1, SetPlanningForm
  <1>3. RevisionRead(planning', n)
    BY <1>1, <1>2 DEF RevisionRead
  <1>4. planning'["driver"].pc # "idle" => d'.pc = "plan"
    BY <1>2, DriverIsPlanner DEF TypeInv
  <1> QED BY <1>1, <1>2, <1>3, <1>4, TypeFrom

LEMMA CreatePlanType ==
    ASSUME TypeInv, NEW c \in Client, CreatePlan(c)
    PROVE  TypeInv'
  <1>1. c \in Planner /\ c # "driver" /\ 0 \in Nat
    BY DriverAssumption DEF Planner
  <1>2. SetPlanning(c, [pc |-> "check", rev |-> 0])
    BY DEF CreatePlan
  <1>3. UNCHANGED <<session, plans, d, last, invoked, judged, crashes>>
    BY DEF CreatePlan
  <1> QED BY <1>1, <1>2, <1>3, PlanningStepType

LEMMA BudgetType ==
    ASSUME TypeInv, NEW a \in Planner, ensurePlanRevisionBudget(a)
    PROVE  TypeInv'
  <1>1. a = "driver" => d.pc = "plan"
    BY DEF ensurePlanRevisionBudget, TypeInv
  <1>2. SetPlanning(a, [pc |-> "read", rev |-> 0]) /\ 0 \in Nat
    BY DEF ensurePlanRevisionBudget
  <1>3. UNCHANGED <<session, plans, d, last, invoked, judged, crashes>>
    BY DEF ensurePlanRevisionBudget
  <1> QED BY <1>1, <1>2, <1>3, PlanningStepType

LEMMA ReadRevisionType ==
    ASSUME TypeInv, NEW a \in Planner, ReadRevision(a)
    PROVE  TypeInv'
  <1> DEFINE rev == latestRevision + 1
  <1>1. rev \in Nat
    BY TypeFacts
  <1>2. a = "driver" => d.pc = "plan"
    BY DEF ReadRevision, TypeInv
  <1>3. SetPlanning(a, [pc |-> "write", rev |-> rev])
    BY DEF ReadRevision
  <1>4. UNCHANGED <<session, plans, d, last, invoked, judged, crashes>>
    BY DEF ReadRevision
  <1>5. rev = latestRevision + 1
    OBVIOUS
  <1> HIDE DEF rev
  <1> QED BY <1>1, <1>2, <1>3, <1>4, <1>5, PlanningStepType

SameFrame(c, e) ==
    /\ c.seen = e.seen /\ c.next = e.next /\ c.plan = e.plan /\ c.step = e.step
    /\ c.spec = e.spec /\ c.group = e.group /\ c.judged = e.judged
    /\ c.mark = e.mark

LEMMA InsertForm ==
    ASSUME TypeInv, NEW a \in Planner, InsertPlan(a)
    PROVE  \E n \in 0..MaxPlans :
             /\ n + 1 \in 1..MaxPlans
             /\ Dense(plans, n) /\ Dense(plans', n + 1)
             /\ Frame(d, n) /\ session.plan \in 0..n /\ RevisionRead(planning, n)
             /\ plans' \in [PlanId -> PlanRecord]
             /\ \A p \in PlanId \ {n + 1} : plans'[p] = plans[p]
             /\ plans'[n + 1].steps = plans[n + 1].steps
             /\ plans'[n + 1].status = plans[n + 1].status
             /\ plans[n + 1].rev = 0
             /\ IF a # "driver" THEN d' = d
                ELSE /\ d.pc = "plan" /\ d' \in Call /\ SameFrame(d, d')
                     /\ \/ d'.pc = "loop"
                        \/ d'.pc = "select" /\ d'.latest = n + 1
  <1>1. PICK n \in 0..MaxPlans :
             /\ n \in Nat /\ MaxPlans \in Nat
             /\ Dense(plans, n) /\ RevisionRead(planning, n) /\ Frame(d, n)
             /\ session.plan \in 0..n
             /\ d \in Call /\ plans \in [PlanId -> PlanRecord]
             /\ planning \in PlanningSet
             /\ Stored = 1..n /\ Cardinality(Stored) = n
    BY TypeFacts
  <1> DEFINE p == n + 1
             v == planning[a].rev
  <1>2. /\ p \in PlanId /\ AcceptsRevision(v) /\ planning[a].pc = "write"
        /\ plans' = [plans EXCEPT ![p].rev = v]
        /\ d' = IF a # "driver" THEN d
                ELSE IF d.then = "loop" THEN [d EXCEPT !.pc = "loop"]
                ELSE [d EXCEPT !.pc = "select", !.latest = p]
    BY <1>1 DEF InsertPlan
  <1>3. v \in 1..(n + 1)
    BY <1>1, <1>2 DEF RevisionRead
  <1>4. \A q \in 1..n : plans[q].rev = q
    BY <1>1 DEF Dense, PlanId
  <1>5. v = p
    BY <1>1, <1>2, <1>3, <1>4 DEF AcceptsRevision
  <1>6. plans[p].rev = 0
    BY <1>1, <1>2 DEF Dense, PlanId
  <1>7. p \in Nat /\ p \in 1..MaxPlans
    BY <1>1, <1>2 DEF PlanId
  <1>8. PICK r \in PlanRecord : r = plans[p]
    BY <1>1, <1>2
  <1> DEFINE r2 == [r EXCEPT !.rev = v]
  <1>9. r2 \in PlanRecord /\ r2.rev = v /\ r2.steps = r.steps /\ r2.status = r.status
    BY <1>5, <1>7 DEF PlanRecord
  <1>10. plans' = [plans EXCEPT ![p] = r2]
    BY <1>2, <1>8
  <1> HIDE DEF r2
  <1>11. /\ plans' \in [PlanId -> PlanRecord] /\ plans'[p] = r2
         /\ \A q \in PlanId \ {p} : plans'[q] = plans[q]
    BY <1>1, <1>2, <1>9, <1>10
  <1>12. Dense(plans', n + 1)
    <2>1. \A q \in PlanId : plans'[q].rev = IF q <= n + 1 THEN q ELSE 0
      BY <1>1, <1>5, <1>7, <1>9, <1>11 DEF Dense, PlanId
    <2> QED BY <1>1, <1>7, <2>1 DEF Dense
  <1>13. a = "driver" => d.pc = "plan"
    BY <1>2 DEF TypeInv
  <1>14. p \in PlanRef
    BY <1>2 DEF PlanRef
  <1>15. IF a # "driver" THEN d' = d
         ELSE /\ d.pc = "plan" /\ d' \in Call /\ SameFrame(d, d')
              /\ \/ d'.pc = "loop"
                 \/ d'.pc = "select" /\ d'.latest = p
    <2> HIDE DEF p
    <2>1. CASE a # "driver"
      BY <1>2, <2>1
    <2>2. CASE a = "driver" /\ d.then = "loop"
      BY <1>1, <1>2, <1>13, <2>2 DEF Call, SameFrame
    <2>3. CASE a = "driver" /\ d.then # "loop"
      BY <1>1, <1>2, <1>13, <1>14, <2>3 DEF Call, SameFrame
    <2> QED BY <2>1, <2>2, <2>3
  <1> QED BY <1>1, <1>6, <1>7, <1>8, <1>9, <1>11, <1>12, <1>15

(* A frame stays valid when a plan is added.                               *)
LEMMA FrameGrows ==
    ASSUME NEW c, NEW n \in Nat, Frame(c, n)
    PROVE  Frame(c, n + 1)
  BY DEF Frame

LEMMA InsertPlanType ==
    ASSUME TypeInv, NEW a \in Planner, InsertPlan(a)
    PROVE  TypeInv'
  <1>1. PICK n \in 0..MaxPlans :
             /\ n + 1 \in 1..MaxPlans
             /\ Dense(plans', n + 1)
             /\ Frame(d, n) /\ session.plan \in 0..n /\ RevisionRead(planning, n)
             /\ plans' \in [PlanId -> PlanRecord]
             /\ IF a # "driver" THEN d' = d
                ELSE /\ d.pc = "plan" /\ d' \in Call /\ SameFrame(d, d')
                     /\ \/ d'.pc = "loop"
                        \/ d'.pc = "select" /\ d'.latest = n + 1
    BY InsertForm
  <1>2. /\ session \in SessionRecord
        /\ invoked \in [PlanId -> [Step -> Nat]]
        /\ judged \in [PlanId -> {"no", "yes", "denied"}]
        /\ crashes \in 0..MaxCrashes /\ last \in Reason
    BY TypeFacts
  <1>3. UNCHANGED <<session, last, invoked, judged, crashes>> /\ PlanningEnds(a)
    BY DEF InsertPlan
  <1>4. n \in Nat /\ n + 1 \in Nat /\ n + 1 \in 0..MaxPlans
    BY <1>1, DriverAssumption
  <1>5. /\ planning' \in PlanningSet /\ RevisionRead(planning', n)
        /\ planning'[a].pc = "idle"
        /\ \A b \in Planner \ {a} : planning'[b] = planning[b]
    BY <1>1, <1>3, <1>4, PlanningEndsForm
  <1>6. RevisionRead(planning', n + 1)
    BY <1>4, <1>5 DEF RevisionRead
  <1>7. Frame(d, n + 1)
    BY <1>1, <1>4, FrameGrows
  <1>8. session'.plan \in 0..(n + 1)
    BY <1>1, <1>3, <1>4
  <1>9. CASE a # "driver"
    <2>1. planning'["driver"].pc # "idle" => d'.pc = "plan"
      BY <1>1, <1>5, <1>9, DriverIsPlanner DEF TypeInv
    <2>2. Frame(d', n + 1)
      BY <1>1, <1>7, <1>9
    <2> QED BY <1>1, <1>2, <1>3, <1>4, <1>5, <1>6, <1>8, <2>1, <2>2, TypeFrom
  <1>10. CASE a = "driver"
    <2>1. Frame(d', n + 1)
      <3>1. n + 1 \in 1..(n + 1)
        BY <1>4
      <3> QED BY <1>1, <1>7, <1>10, <3>1 DEF Frame, SameFrame, Choosing, Chosen, InRound
    <2> QED BY <1>1, <1>2, <1>3, <1>4, <1>5, <1>6, <1>8, <1>10, <2>1, TypeFrom
  <1> QED BY <1>9, <1>10

----------------------------------------------------------------------------
(* The loop and step selection: types.                                     *)

LEMMA StartRunForm ==
    ASSUME TypeInv, StartRun
    PROVE  /\ session' \in SessionRecord /\ session'.plan = session.plan
           /\ d.pc = "idle" /\ ~isTerminalPhase(session.phase)
           /\ session'.phase \in {session.phase, "recover"}
           /\ Bare(d', "loop", NoPlan, {}) /\ last' = "none"
           /\ UNCHANGED <<plans, planning, invoked, judged, crashes>>
  <1>1. session \in SessionRecord
    BY TypeFacts
  <1>2. session' \in SessionRecord /\ session'.plan = session.plan
        /\ session'.phase \in {session.phase, "recover"}
    BY <1>1 DEF StartRun, SessionRecord
  <1>3. Bare(d', "loop", NoPlan, {})
    <2>1. d' = [NoCall EXCEPT !.pc = "loop"] /\ NoCall.judged = NoPlan
      BY DEF StartRun, NoCall
    <2> QED BY <2>1, NoCallTyped DEF Bare, Call, NoPlan
  <1> QED BY <1>2, <1>3 DEF StartRun

LEMMA StartRunType ==
    ASSUME TypeInv, StartRun
    PROVE  TypeInv'
  <1>1. PICK n \in 0..MaxPlans :
             /\ n \in Nat /\ session.plan \in 0..n
             /\ Dense(plans, n) /\ RevisionRead(planning, n)
             /\ plans \in [PlanId -> PlanRecord] /\ planning \in PlanningSet
             /\ invoked \in [PlanId -> [Step -> Nat]]
             /\ judged \in [PlanId -> {"no", "yes", "denied"}]
             /\ crashes \in 0..MaxCrashes
    BY TypeFacts
  <1>2. /\ session' \in SessionRecord /\ session'.plan = session.plan
        /\ Bare(d', "loop", NoPlan, {}) /\ last' = "none" /\ d.pc = "idle"
        /\ UNCHANGED <<plans, planning, invoked, judged, crashes>>
    BY StartRunForm
  <1>3. Frame(d', n)
    BY <1>1, <1>2, BareFrame
  <1>4. planning'["driver"].pc # "idle" => d'.pc = "plan"
    BY <1>2 DEF TypeInv
  <1> QED BY <1>1, <1>2, <1>3, <1>4, TypeFrom DEF Reason

LEMMA SpentTyped ==
    ASSUME plans \in [PlanId -> PlanRecord]
    PROVE  /\ Spent \in Budget
           /\ Spent.stored = Stored
           /\ \A p \in PlanId, s \in Step :
                Spent.attempts[p][s] = plans[p].steps[s].attempt
  <1> DEFINE att == [p \in PlanId |-> [s \in Step |-> plans[p].steps[s].attempt]]
  <1>1. att \in [PlanId -> [Step -> Nat]]
    BY DEF PlanRecord, DriverStep
  <1>2. Stored \in SUBSET PlanId
    BY DEF Stored
  <1>3. Spent = [stored |-> Stored, attempts |-> att]
    BY Zenon DEF Spent
  <1>4. \A p \in PlanId, s \in Step : att[p][s] = plans[p].steps[s].attempt
    OBVIOUS
  <1> HIDE DEF att
  <1> QED BY <1>1, <1>2, <1>3, <1>4 DEF Budget

LEMMA LoopForm ==
    ASSUME TypeInv, Loop
    PROVE  /\ d.pc = "loop" /\ d' \in Call /\ d'.seen = session /\ d'.mark = {Spent}
           /\ d'.next = d.next /\ d'.judged = d.judged
           /\ \/ /\ d'.pc = "plan" /\ Stored = {}
                 /\ SetPlanning("driver", [pc |-> "check", rev |-> 0])
              \/ /\ d'.pc = "select" /\ d'.latest \in LatestBySession
                 /\ UNCHANGED planning
           /\ UNCHANGED <<session, plans, last, invoked, judged, crashes>>
  <1>1. d \in Call /\ session \in SessionRecord /\ {Spent} \in SUBSET Budget
    BY TypeFacts, SpentTyped
  <1> DEFINE mk == {Spent}
  <1>2. mk \in SUBSET Budget
    BY <1>1
  <1>3. CASE Stored = {} /\ SetPlanning("driver", [pc |-> "check", rev |-> 0])
             /\ d' = [d EXCEPT !.pc = "plan", !.then = "select", !.seen = session,
                               !.mark = mk]
    <2> HIDE DEF mk
    <2>1. /\ d' \in Call /\ d'.seen = session /\ d'.mark = mk
          /\ d'.next = d.next /\ d'.judged = d.judged /\ d'.pc = "plan"
      BY <1>1, <1>2, <1>3 DEF Call
    <2> QED BY <1>3, <2>1 DEF Loop, mk
  <1>4. ASSUME NEW p \in LatestBySession, UNCHANGED planning,
               d' = [d EXCEPT !.pc = "select", !.seen = session, !.latest = p,
                              !.mark = mk]
        PROVE  /\ d' \in Call /\ d'.seen = session /\ d'.mark = mk
               /\ d'.next = d.next /\ d'.judged = d.judged /\ d'.pc = "select"
               /\ d'.latest = p
    <2> HIDE DEF mk
    <2>1. p \in PlanRef
      BY DEF LatestBySession, Stored, PlanRef
    <2> QED BY <1>1, <1>2, <1>4, <2>1 DEF Call
  <1> QED BY <1>3, <1>4 DEF Loop

LEMMA LoopType ==
    ASSUME TypeInv, Loop
    PROVE  TypeInv'
  <1>1. PICK n \in 0..MaxPlans :
             /\ n \in Nat
             /\ Dense(plans, n) /\ RevisionRead(planning, n)
             /\ session \in SessionRecord /\ session.plan \in 0..n
             /\ Frame(d, n) /\ Stored = 1..n
             /\ plans \in [PlanId -> PlanRecord] /\ planning \in PlanningSet
             /\ invoked \in [PlanId -> [Step -> Nat]]
             /\ judged \in [PlanId -> {"no", "yes", "denied"}]
             /\ crashes \in 0..MaxCrashes /\ last \in Reason
    BY TypeFacts
  <1>2. /\ d.pc = "loop" /\ d' \in Call /\ d'.seen = session /\ d'.next = d.next
        /\ UNCHANGED <<session, plans, last, invoked, judged, crashes>>
    BY LoopForm
  <1>3. CASE d'.pc = "plan" /\ SetPlanning("driver", [pc |-> "check", rev |-> 0])
    <2>1. Frame(d', n)
      BY <1>1, <1>2, <1>3 DEF Frame, Choosing, Chosen, InRound
    <2>2. /\ planning' \in PlanningSet
          /\ planning'["driver"].pc = "check"
          /\ \A b \in Planner \ {"driver"} : planning'[b] = planning[b]
      BY <1>1, <1>3, SetPlanningForm, DriverIsPlanner
    <2>3. RevisionRead(planning', n)
      BY <1>1, <2>2 DEF RevisionRead
    <2> QED BY <1>1, <1>2, <1>3, <2>1, <2>2, <2>3, TypeFrom
  <1>4. CASE d'.pc = "select" /\ d'.latest \in LatestBySession /\ UNCHANGED planning
    <2>1. d'.latest \in 1..n
      BY <1>1, <1>4 DEF LatestBySession
    <2>2. Frame(d', n)
      BY <1>1, <1>2, <1>4, <2>1 DEF Frame, Choosing, Chosen, InRound
    <2>3. planning'["driver"].pc # "idle" => d'.pc = "plan"
      BY <1>2, <1>4 DEF TypeInv
    <2> QED BY <1>1, <1>2, <1>4, <2>2, <2>3, TypeFrom
  <1> QED BY <1>3, <1>4, LoopForm

(* A selected step is one the driver may run, of the latest plan or the    *)
(* pinned one.                                                             *)
LEMMA SelectedFacts ==
    ASSUME TypeInv, NEW n \in Nat, Frame(d, n), d.pc = "select",
           NEW ps \in SelectedStep
    PROVE  /\ ps[1] \in 1..n /\ ps[2] \in Step
           /\ \/ executableStep(plans[ps[1]].steps, ps[2])
              \/ ps[1] = d.latest /\ ps[2] \in firstStep(plans[d.latest].steps)
  <1>1. d.latest \in 1..n /\ d.seen.plan \in 0..n
    BY DEF Frame, Choosing
  <1>2. CASE PinnedStep # {}
    <2> DEFINE pinned == pinnedPlanForSession(d.seen)
               p  == IF pinned = NoPlan THEN d.latest ELSE pinned
               st == [inFlight |-> findPlanStepByID(p, d.seen.inFlight),
                      current  |-> findPlanStepByID(p, d.seen.current)]
    <2>1. PinnedStep = {<<p, s>> : s \in pinnedStepForSession(st, plans[p].steps)}
      BY Zenon DEF PinnedStep
    <2>2. ps \in PinnedStep
      BY <1>2 DEF SelectedStep
    <2>3. PICK s \in pinnedStepForSession(st, plans[p].steps) : ps = <<p, s>>
      BY <2>1, <2>2, Zenon
    <2>4. p \in 1..n
      BY <1>1 DEF pinnedPlanForSession, NoPlan
    <2> HIDE DEF p, st
    <2>5. executableStep(plans[p].steps, s)
      BY <2>3, Zenon DEF pinnedStepForSession
    <2>6. s \in Step
      BY <2>5 DEF executableStep
    <2> QED BY <2>3, <2>4, <2>5, <2>6
  <1>3. CASE PinnedStep = {}
    <2>1. PICK s \in firstStep(plans[d.latest].steps) : ps = <<d.latest, s>>
      BY <1>3 DEF SelectedStep
    <2>2. s \in Step
      BY <2>1 DEF firstStep, firstPending, firstFailed, first
    <2> QED BY <1>1, <2>1, <2>2
  <1> QED BY <1>2, <1>3

InGroup(round) == [m \in Step |-> IF m \in round THEN "todo" ELSE "out"]

LEMMA SelectForm ==
    ASSUME TypeInv, Select
    PROVE  /\ d.pc = "select" /\ d' \in Call
           /\ UNCHANGED <<session, plans, invoked, judged, crashes>>
           /\ \/ \E ps \in SelectedStep :
                   LET round == fanoutRoundForSelection(ps[1], ps[2]) IN
                   /\ d'.seen = d.seen /\ d'.next = d.next /\ d'.latest = d.latest
                   /\ d'.mark = d.mark /\ d'.judged = d.judged
                   /\ d'.plan = ps[1] /\ d'.step = ps[2]
                   /\ d'.spec = plans[ps[1]].steps[ps[2]]
                   /\ d'.group = InGroup(round)
                   /\ \/ d'.pc = "round" /\ round # {}
                      \/ d'.pc = "step"
                   /\ UNCHANGED <<planning, last>>
              \/ /\ SelectedStep = {} /\ NeedsPlanning(plans[d.latest].steps)
                 /\ d'.pc = "plan" /\ d'.seen = d.seen /\ d'.next = d.next
                 /\ d'.mark = d.mark /\ d'.judged = d.judged
                 /\ SetPlanning("driver", [pc |-> "check", rev |-> 0])
                 /\ UNCHANGED last
              \/ /\ SelectedStep = {} /\ ~NeedsPlanning(plans[d.latest].steps)
                 /\ Bare(d', "idle", d.judged, {}) /\ last' = "no_step"
                 /\ UNCHANGED planning
  <1>1. PICK n \in 0..MaxPlans : /\ n \in Nat /\ Frame(d, n) /\ d \in Call
                                 /\ plans \in [PlanId -> PlanRecord]
                                 /\ 1..n \subseteq PlanId
    BY TypeFacts
  <1>2. d.pc = "select" /\ UNCHANGED <<session, plans, invoked, judged, crashes>>
    BY DEF Select
  <1>3. ASSUME NEW ps \in SelectedStep,
               LET round == fanoutRoundForSelection(ps[1], ps[2]) IN
               d' = [d EXCEPT !.plan = ps[1], !.step = ps[2],
                              !.spec = plans[ps[1]].steps[ps[2]],
                              !.group = [m \in Step |-> IF m \in round THEN "todo"
                                                        ELSE "out"],
                              !.pc = IF Cardinality(round) > 1 THEN "round"
                                     ELSE "step"],
               UNCHANGED <<planning, last>>
        PROVE  LET round == fanoutRoundForSelection(ps[1], ps[2]) IN
               /\ d' \in Call
               /\ d'.seen = d.seen /\ d'.next = d.next /\ d'.latest = d.latest
               /\ d'.mark = d.mark /\ d'.judged = d.judged
               /\ d'.plan = ps[1] /\ d'.step = ps[2]
               /\ d'.spec = plans[ps[1]].steps[ps[2]]
               /\ d'.group = InGroup(round)
               /\ \/ d'.pc = "round" /\ round # {}
                  \/ d'.pc = "step"
    <2> DEFINE round == fanoutRoundForSelection(ps[1], ps[2])
               gr == InGroup(round)
               sp == plans[ps[1]].steps[ps[2]]
               pc == IF Cardinality(round) > 1 THEN "round" ELSE "step"
    <2>1. ps[1] \in 1..n /\ ps[2] \in Step
      BY <1>1, <1>2, SelectedFacts
    <2>2. sp \in DriverStep /\ ps[1] \in PlanRef /\ gr \in [Step -> Member]
      BY <1>1, <2>1 DEF PlanRecord, PlanRef, Member, InGroup
    <2>3. d' = [d EXCEPT !.plan = ps[1], !.step = ps[2], !.spec = sp,
                         !.group = gr, !.pc = pc]
      BY <1>3 DEF InGroup
    <2>4. pc \in {"round", "step"} /\ (pc = "round" => round # {})
      <3>1. Cardinality({}) = 0
        BY FS_EmptySet
      <3> HIDE DEF round
      <3> QED BY <3>1
    <2> HIDE DEF gr, sp, pc, round
    <2>5. /\ d' \in Call
          /\ d'.seen = d.seen /\ d'.next = d.next /\ d'.latest = d.latest
          /\ d'.mark = d.mark /\ d'.judged = d.judged
          /\ d'.plan = ps[1] /\ d'.step = ps[2]
          /\ d'.spec = sp /\ d'.group = gr /\ d'.pc = pc
      BY <1>1, <2>1, <2>2, <2>3, <2>4 DEF Call
    <2> QED BY <2>4, <2>5 DEF gr, sp, round
  <1>4. ASSUME d' = [d EXCEPT !.pc = "plan", !.then = "loop"]
        PROVE  /\ d' \in Call /\ d'.pc = "plan" /\ d'.seen = d.seen /\ d'.next = d.next
               /\ d'.mark = d.mark /\ d'.judged = d.judged
    BY <1>1, <1>4 DEF Call
  <1>5. ASSUME Return("no_step")
        PROVE  Bare(d', "idle", d.judged, {}) /\ last' = "no_step" /\ d' \in Call
    BY <1>1, <1>5, ReturnForm DEF Bare
  <1>6. CASE \E ps \in SelectedStep :
               LET round == fanoutRoundForSelection(ps[1], ps[2]) IN
               /\ d' = [d EXCEPT !.plan = ps[1], !.step = ps[2],
                                 !.spec = plans[ps[1]].steps[ps[2]],
                                 !.group = [m \in Step |-> IF m \in round THEN "todo"
                                                           ELSE "out"],
                                 !.pc = IF Cardinality(round) > 1 THEN "round"
                                        ELSE "step"]
               /\ UNCHANGED <<planning, last>>
    BY <1>2, <1>3, <1>6, Zenon
  <1>7. CASE /\ SelectedStep = {}
             /\ IF NeedsPlanning(plans[d.latest].steps)
                THEN /\ d' = [d EXCEPT !.pc = "plan", !.then = "loop"]
                     /\ SetPlanning("driver", [pc |-> "check", rev |-> 0])
                     /\ UNCHANGED last
                ELSE Return("no_step") /\ UNCHANGED planning
    BY <1>2, <1>4, <1>5, <1>7, Zenon
  <1> QED BY <1>6, <1>7, Zenon DEF Select

LEMMA SelectType ==
    ASSUME TypeInv, Select
    PROVE  TypeInv'
  <1>1. PICK n \in 0..MaxPlans :
             /\ n \in Nat
             /\ Dense(plans, n) /\ RevisionRead(planning, n)
             /\ session \in SessionRecord /\ session.plan \in 0..n
             /\ Frame(d, n)
             /\ plans \in [PlanId -> PlanRecord] /\ planning \in PlanningSet
             /\ invoked \in [PlanId -> [Step -> Nat]]
             /\ judged \in [PlanId -> {"no", "yes", "denied"}]
             /\ crashes \in 0..MaxCrashes /\ last \in Reason
    BY TypeFacts
  <1>2. /\ d.pc = "select" /\ d' \in Call
        /\ UNCHANGED <<session, plans, invoked, judged, crashes>>
    BY SelectForm
  <1>3. ASSUME NEW ps \in SelectedStep,
               d'.seen = d.seen, d'.next = d.next, d'.latest = d.latest,
               d'.plan = ps[1], d'.step = ps[2],
               d'.group = InGroup(fanoutRoundForSelection(ps[1], ps[2])),
               \/ d'.pc = "round" /\ fanoutRoundForSelection(ps[1], ps[2]) # {}
               \/ d'.pc = "step",
               UNCHANGED <<planning, last>>
        PROVE  TypeInv'
    <2>1. ps[1] \in 1..n /\ ps[2] \in Step
      BY <1>1, <1>2, SelectedFacts
    <2>2. fanoutRoundForSelection(ps[1], ps[2]) \subseteq Fanout
      BY DEF fanoutRoundForSelection
    <2>3. d'.pc = "round" => \E m \in Fanout : d'.group[m] # "out"
      BY <1>3, <2>2, FanoutAssumption DEF InGroup
    <2>4. Frame(d', n)
      BY <1>1, <1>2, <1>3, <2>1, <2>3 DEF Frame, Choosing, Chosen, InRound
    <2>5. planning'["driver"].pc # "idle" => d'.pc = "plan"
      BY <1>2, <1>3 DEF TypeInv
    <2> QED BY <1>1, <1>2, <1>3, <2>4, <2>5, TypeFrom
  <1>4. ASSUME d'.pc = "plan", d'.seen = d.seen, d'.next = d.next,
               SetPlanning("driver", [pc |-> "check", rev |-> 0]),
               UNCHANGED last
        PROVE  TypeInv'
    <2>1. Frame(d', n)
      BY <1>1, <1>2, <1>4 DEF Frame, Choosing, Chosen, InRound
    <2>2. /\ planning' \in PlanningSet
          /\ planning'["driver"].pc = "check"
          /\ \A b \in Planner \ {"driver"} : planning'[b] = planning[b]
      BY <1>1, <1>4, SetPlanningForm, DriverIsPlanner
    <2>3. RevisionRead(planning', n)
      BY <1>1, <2>2 DEF RevisionRead
    <2> QED BY <1>1, <1>2, <1>4, <2>1, <2>2, <2>3, TypeFrom
  <1>5. ASSUME Bare(d', "idle", d.judged, {}), last' = "no_step", UNCHANGED planning
        PROVE  TypeInv'
    <2>1. Frame(d', n)
      BY <1>1, <1>5, BareFrame
    <2>2. planning'["driver"].pc # "idle" => d'.pc = "plan"
      BY <1>2, <1>5 DEF TypeInv
    <2> QED BY <1>1, <1>2, <1>5, <2>1, <2>2, TypeFrom DEF Reason
  <1> QED BY <1>3, <1>4, <1>5, SelectForm, Zenon

----------------------------------------------------------------------------
(* One step alone: types.                                                  *)

LEMMA TriedForm ==
    ASSUME NEW spec \in DriverStep
    PROVE  /\ tried(spec) \in DriverStep
           /\ tried(spec).attempt = spec.attempt + 1
           /\ [tried(spec) EXCEPT !.status = "failed"] \in DriverStep
           /\ [tried(spec) EXCEPT !.status = "failed"].attempt = spec.attempt + 1
           /\ [tried(spec) EXCEPT !.status = "failed"].status = "failed"
  <1>1. /\ tried(spec) \in DriverStep /\ tried(spec).attempt = spec.attempt + 1
    <2> DEFINE v == spec.attempt + 1
    <2>1. v \in Nat
      BY DEF DriverStep
    <2>2. tried(spec) = [spec EXCEPT !.attempt = v, !.status = "running"]
      BY DEF tried
    <2> HIDE DEF v
    <2>3. /\ [spec EXCEPT !.attempt = v, !.status = "running"] \in DriverStep
          /\ [spec EXCEPT !.attempt = v, !.status = "running"].attempt = v
      BY <2>1 DEF DriverStep, StepStatus
    <2> QED BY <2>2, <2>3 DEF v
  <1>2. /\ [tried(spec) EXCEPT !.status = "failed"] \in DriverStep
        /\ [tried(spec) EXCEPT !.status = "failed"].attempt = spec.attempt + 1
        /\ [tried(spec) EXCEPT !.status = "failed"].status = "failed"
    <2>1. PICK r \in DriverStep : r = tried(spec)
      BY <1>1
    <2>2. /\ [r EXCEPT !.status = "failed"] \in DriverStep
          /\ [r EXCEPT !.status = "failed"].attempt = r.attempt
          /\ [r EXCEPT !.status = "failed"].status = "failed"
      BY DEF DriverStep, StepStatus
    <2> QED BY <1>1, <2>1, <2>2
  <1> QED BY <1>1, <1>2

LEMMA StepRefusedType ==
    ASSUME TypeInv, StepRefused
    PROVE  /\ TypeInv'
           /\ d.pc = "step" /\ Bare(d', "idle", d.judged, {})
           /\ last' = IF d.spec.attempt < allowedAttempts(d.step) THEN "backoff"
                      ELSE "exhausted"
  <1>1. PICK n \in 0..MaxPlans :
             /\ n \in Nat
             /\ Dense(plans, n) /\ RevisionRead(planning, n)
             /\ session \in SessionRecord /\ session.plan \in 0..n
             /\ d \in Call
             /\ plans \in [PlanId -> PlanRecord] /\ planning \in PlanningSet
             /\ invoked \in [PlanId -> [Step -> Nat]]
             /\ judged \in [PlanId -> {"no", "yes", "denied"}]
             /\ crashes \in 0..MaxCrashes
    BY TypeFacts
  <1>2. /\ d.pc = "step" /\ UNCHANGED <<session, plans, planning, invoked, judged, crashes>>
        /\ Return(IF d.spec.attempt < allowedAttempts(d.step) THEN "backoff"
                  ELSE "exhausted")
    BY DEF StepRefused
  <1>3. /\ Bare(d', "idle", d.judged, {})
        /\ last' = IF d.spec.attempt < allowedAttempts(d.step) THEN "backoff"
                   ELSE "exhausted"
    BY <1>1, <1>2, ReturnForm
  <1>4. Frame(d', n)
    BY <1>1, <1>3, BareFrame
  <1>5. planning'["driver"].pc # "idle" => d'.pc = "plan"
    BY <1>2 DEF TypeInv
  <1>6. last' \in Reason
    BY <1>3 DEF Reason
  <1> QED BY <1>1, <1>2, <1>3, <1>4, <1>5, <1>6, TypeFrom

DeniedSpec(c) == [tried(c.spec) EXCEPT !.status = "failed"]

LEMMA StepDeniedForm ==
    ASSUME TypeInv, StepDenied
    PROVE  /\ d.pc = "step" /\ d.spec.attempt < allowedAttempts(d.step)
           /\ DeniedSpec(d) \in DriverStep
           /\ DeniedSpec(d).attempt = d.spec.attempt + 1
           /\ DeniedSpec(d).status = "failed"
           /\ plans' \in [PlanId -> PlanRecord] /\ SameRevisions(plans, plans')
           /\ plans'[d.plan].steps = [plans[d.plan].steps EXCEPT ![d.step] = DeniedSpec(d)]
           /\ plans'[d.plan].status = planStatusForSpec(plans'[d.plan].steps)
           /\ \A q \in PlanId \ {d.plan} : plans'[q] = plans[q]
           /\ session' \in SessionRecord /\ session'.plan = d.plan
           /\ session'.phase = "failed"
           /\ judged' \in [PlanId -> {"no", "yes", "denied"}]
           /\ Bare(d', "idle", d.judged, {}) /\ last' = "over"
           /\ UNCHANGED <<planning, invoked, crashes>>
  <1>1. PICK n \in 0..MaxPlans : /\ n \in Nat /\ Frame(d, n) /\ d \in Call
                                 /\ plans \in [PlanId -> PlanRecord]
                                 /\ 1..n \subseteq PlanId
                                 /\ judged \in [PlanId -> {"no", "yes", "denied"}]
    BY TypeFacts
  <1>2. d.pc = "step" /\ d.spec.attempt < allowedAttempts(d.step)
    BY DEF StepDenied, StepAdmitted
  <1>3. d.plan \in PlanId /\ d.step \in Step
    BY <1>1, <1>2 DEF Frame, Choosing, Chosen
  <1> DEFINE spec == DeniedSpec(d)
             out == [s \in {d.step} |-> spec]
  <1>4. d.spec \in DriverStep
    BY <1>1 DEF Call
  <1>5. spec \in DriverStep /\ spec.attempt = d.spec.attempt + 1 /\ spec.status = "failed"
    BY <1>4, TriedForm DEF DeniedSpec
  <1>6. plans' = planUpdated(d.plan, out)
    BY DEF StepDenied, DeniedSpec
  <1> HIDE DEF spec
  <1>7. \A s \in Step \cap DOMAIN out : out[s] \in DriverStep
    BY <1>5
  <1>8. Merged(d.plan, out) = [plans[d.plan].steps EXCEPT ![d.step] = spec]
    BY <1>1, <1>3 DEF Merged, PlanRecord
  <1> HIDE DEF out
  <1>9. /\ plans' \in [PlanId -> PlanRecord] /\ SameRevisions(plans, plans')
        /\ plans'[d.plan].steps = [plans[d.plan].steps EXCEPT ![d.step] = spec]
        /\ plans'[d.plan].status = planStatusForSpec(plans'[d.plan].steps)
        /\ \A q \in PlanId \ {d.plan} : plans'[q] = plans[q]
    BY <1>1, <1>3, <1>6, <1>7, <1>8, PlanUpdatedForm
  <1>10. /\ session' \in SessionRecord /\ session'.plan = d.plan
         /\ session'.phase = "failed"
    <2> DEFINE id == stepId(d.plan, d.step)
    <2>1. id \in StepId /\ NoId \in StepId /\ d.seen \in SessionRecord /\ d.plan \in PlanRef
      BY <1>1, <1>3, StepIds, FreshTyped DEF Call
    <2>2. session' = [d.seen EXCEPT !.phase = "failed", !.exec = "idle",
                                    !.current = id, !.inFlight = NoId, !.plan = d.plan]
      BY DEF StepDenied
    <2> HIDE DEF id
    <2>3. PICK r \in SessionRecord : r = d.seen
      BY <2>1
    <2> QED BY <2>1, <2>2, <2>3 DEF SessionRecord
  <1>11. judged' \in [PlanId -> {"no", "yes", "denied"}]
    BY <1>1 DEF StepDenied
  <1>12. Bare(d', "idle", d.judged, {}) /\ last' = "over"
    BY <1>1, ReturnForm DEF StepDenied
  <1>13. UNCHANGED <<planning, invoked, crashes>>
    BY DEF StepDenied
  <1> QED BY <1>2, <1>5, <1>9, <1>10, <1>11, <1>12, <1>13 DEF spec

LEMMA StepDeniedType ==
    ASSUME TypeInv, StepDenied
    PROVE  TypeInv'
  <1>1. PICK n \in 0..MaxPlans :
             /\ n \in Nat /\ Frame(d, n)
             /\ Dense(plans, n) /\ RevisionRead(planning, n)
             /\ planning \in PlanningSet
             /\ invoked \in [PlanId -> [Step -> Nat]]
             /\ crashes \in 0..MaxCrashes
    BY TypeFacts
  <1>2. /\ d.pc = "step"
        /\ plans' \in [PlanId -> PlanRecord] /\ SameRevisions(plans, plans')
        /\ session' \in SessionRecord /\ session'.plan = d.plan
        /\ judged' \in [PlanId -> {"no", "yes", "denied"}]
        /\ Bare(d', "idle", d.judged, {}) /\ last' = "over"
        /\ UNCHANGED <<planning, invoked, crashes>>
    BY StepDeniedForm
  <1>3. session'.plan \in 0..n
    BY <1>1, <1>2 DEF Frame, Choosing, Chosen
  <1>4. Frame(d', n)
    BY <1>1, <1>2, BareFrame
  <1>5. planning'["driver"].pc # "idle" => d'.pc = "plan"
    BY <1>2 DEF TypeInv
  <1>6. Dense(plans', n)
    BY <1>1, <1>2, DenseKept
  <1> QED BY <1>1, <1>2, <1>3, <1>4, <1>5, <1>6, TypeFrom DEF Reason

(* markSessionInFlight keeps the phase and names a stored plan.            *)
LEMMA MarkedForm ==
    ASSUME TypeInv, NEW id \in StepId, NEW n \in 0..MaxPlans, Dense(plans, n), n > 0
    PROVE  /\ markedInFlight(id) \in SessionRecord
           /\ markedInFlight(id).phase = session.phase
           /\ markedInFlight(id).plan \in 0..n
  <1>1. session \in SessionRecord /\ n \in Nat /\ 0..n \subseteq PlanRef
    BY TypeFacts, DriverAssumption DEF PlanRef, PlanId, NoPlan
  <1>2. session.plan \in 0..n
    BY DenseUnique DEF TypeInv
  <1>3. (CHOOSE p \in LatestBySession : TRUE) = n
    BY StoredFacts
  <1> DEFINE ref == stepRefForSession(id)
  <1>4. ref \in 0..n
    <2>1. ref \in {pinnedPlanForSession(session), n, session.plan}
      BY <1>3, Zenon DEF stepRefForSession
    <2>2. pinnedPlanForSession(session) \in {session.plan, 0}
      BY DEF pinnedPlanForSession, NoPlan
    <2> QED BY <1>1, <1>2, <2>1, <2>2
  <1>5. markedInFlight(id) = [session EXCEPT !.exec = "in_flight", !.inFlight = id, !.plan = ref]
    BY DEF markedInFlight
  <1> HIDE DEF ref
  <1> QED BY <1>1, <1>4, <1>5 DEF SessionRecord

LEMMA StepAllowedForm ==
    ASSUME TypeInv, StepAllowed
    PROVE  /\ d.pc = "step" /\ d.spec.attempt < allowedAttempts(d.step)
           /\ d' \in Call /\ d'.pc = "tool" /\ d'.spec = tried(d.spec)
           /\ d'.seen = d.seen /\ d'.next = d.next /\ d'.latest = d.latest
           /\ d'.plan = d.plan /\ d'.step = d.step /\ d'.mark = d.mark
           /\ d'.judged = d.judged
           /\ session' = markedInFlight(stepId(d.plan, d.step))
           /\ UNCHANGED <<plans, planning, last, invoked, judged, crashes>>
  <1>1. d \in Call
    BY TypeFacts
  <1> DEFINE sp == tried(d.spec)
  <1>2. sp \in DriverStep
    BY <1>1, TriedForm DEF Call
  <1>3. d' = [d EXCEPT !.pc = "tool", !.spec = sp]
    BY DEF StepAllowed
  <1> HIDE DEF sp
  <1>4. /\ d' \in Call /\ d'.pc = "tool" /\ d'.spec = sp
        /\ d'.seen = d.seen /\ d'.next = d.next /\ d'.latest = d.latest
        /\ d'.plan = d.plan /\ d'.step = d.step /\ d'.mark = d.mark
        /\ d'.judged = d.judged
    BY <1>1, <1>2, <1>3 DEF Call
  <1> QED BY <1>4 DEF StepAllowed, StepAdmitted, sp

LEMMA StepAllowedType ==
    ASSUME TypeInv, StepAllowed
    PROVE  TypeInv'
  <1>1. PICK n \in 0..MaxPlans :
             /\ n \in Nat /\ Frame(d, n)
             /\ Dense(plans, n) /\ RevisionRead(planning, n)
             /\ plans \in [PlanId -> PlanRecord] /\ planning \in PlanningSet
             /\ 1..n \subseteq PlanId
             /\ invoked \in [PlanId -> [Step -> Nat]]
             /\ judged \in [PlanId -> {"no", "yes", "denied"}]
             /\ crashes \in 0..MaxCrashes /\ last \in Reason
    BY TypeFacts
  <1>2. /\ d.pc = "step" /\ d' \in Call /\ d'.pc = "tool"
        /\ d'.seen = d.seen /\ d'.next = d.next /\ d'.latest = d.latest
        /\ d'.plan = d.plan /\ d'.step = d.step
        /\ session' = markedInFlight(stepId(d.plan, d.step))
        /\ UNCHANGED <<plans, planning, last, invoked, judged, crashes>>
    BY StepAllowedForm
  <1>3. d.plan \in 1..n /\ d.step \in Step /\ d.plan \in PlanId
    BY <1>1, <1>2 DEF Frame, Choosing, Chosen
  <1>4. stepId(d.plan, d.step) \in StepId /\ n > 0
    BY <1>1, <1>3, StepIds
  <1>5. session' \in SessionRecord /\ session'.plan \in 0..n
    BY <1>1, <1>2, <1>4, MarkedForm
  <1>6. Frame(d', n)
    BY <1>1, <1>2 DEF Frame, Choosing, Chosen, InRound
  <1>7. planning'["driver"].pc # "idle" => d'.pc = "plan"
    BY <1>2 DEF TypeInv
  <1> QED BY <1>1, <1>2, <1>5, <1>6, <1>7, TypeFrom

(* The latest plan, number n, with the outcome in it if the step is its.   *)
Replaced(n, spec) ==
    IF FreshIds => n = d.plan THEN [plans[n].steps EXCEPT ![d.step] = spec]
    ELSE plans[n].steps

LEMMA KnownStep ==
    ASSUME NEW p \in PlanId, NEW n \in PlanId, NEW s \in Step
    PROVE  findPlanStepByID(n, stepId(p, s)) # NoStep <=> (FreshIds => n = p)
  <1>1. CASE FreshIds
    <2>1. stepId(p, s) = <<p, s>> /\ <<p, s>> # <<0, 0>>
      BY <1>1, DriverAssumption DEF stepId, PlanId
    <2> QED BY <1>1, <2>1, NoStepAssumption DEF findPlanStepByID, NoId
  <1>2. CASE ~FreshIds
    <2>1. stepId(p, s) = <<1, s>> /\ <<1, s>> # <<0, 0>>
      BY <1>2, DriverAssumption DEF stepId, PlanId
    <2> QED BY <1>2, <2>1, NoStepAssumption DEF findPlanStepByID, NoId
  <1> QED BY <1>1, <1>2

LEMMA ReplacedAlike ==
    ASSUME plans \in [PlanId -> PlanRecord], NEW n \in PlanId, d.step \in Step,
           NEW x \in DriverStep, NEW y \in DriverStep,
           x.status = y.status, x.attempt = y.attempt
    PROVE  Alike(Replaced(n, x), Replaced(n, y))
  BY DEF Alike, Replaced, PlanRecord

(* One more tool call for step s of plan p.                                *)
LEMMA OneMoreCall ==
    ASSUME NEW f \in [PlanId -> [Step -> Nat]], NEW p \in PlanId, NEW s \in Step
    PROVE  LET g == [f EXCEPT ![p][s] = @ + 1] IN
           /\ g \in [PlanId -> [Step -> Nat]]
           /\ \A q \in PlanId, r \in Step :
                g[q][r] <= f[q][r] + IF q = p /\ r = s THEN 1 ELSE 0
  <1> DEFINE v == f[p][s] + 1
             g == [f EXCEPT ![p][s] = v]
  <1>1. v \in Nat /\ \A q \in PlanId, r \in Step : f[q][r] \in Nat
    OBVIOUS
  <1> HIDE DEF v
  <1>2. g \in [PlanId -> [Step -> Nat]]
    BY <1>1
  <1>3. \A q \in PlanId, r \in Step : g[q][r] = IF q = p /\ r = s THEN v ELSE f[q][r]
    OBVIOUS
  <1> HIDE DEF g
  <1>4. \A q \in PlanId, r \in Step :
          g[q][r] <= f[q][r] + IF q = p /\ r = s THEN 1 ELSE 0
    BY <1>1, <1>3 DEF v
  <1> QED BY <1>2, <1>4 DEF g, v

RetryPhase == {"plan", "recover", "prepare", "failed"}

(* What the tool call and its verification leave in the driver's frame:    *)
(* the step's own outcome and the session to write, weighed against the    *)
(* latest plan.                                                            *)
ToolOutcome(c, e, n) ==
    LET settled == \/ e.spec.status = "completed"
                   \/ /\ Strategy[c.step] = "continue"
                      /\ e.spec.attempt >= allowedAttempts(c.step)
    IN  /\ settled =>
             e.next.phase = transitionForPlanOutcome(Outcome(Replaced(n, e.spec)))
        /\ ~settled =>
             /\ e.next.phase \in RetryPhase
             /\ e.next.phase # "failed" =>
                  \/ Strategy[c.step] = "replan"
                  \/ /\ Strategy[c.step] # "abort"
                     /\ e.spec.attempt < allowedAttempts(c.step)
        /\ (c.step \in Fanout /\ AggregateScope /\ Ready(Replaced(n, e.spec)))
             => e.group[c.step] = "ok"

LEMMA RunToolForm ==
    ASSUME TypeInv, NEW raw \in BOOLEAN, NEW verdict \in BOOLEAN, RunTool(raw, verdict),
           NEW n \in 0..MaxPlans, Dense(plans, n), n > 0
    PROVE  /\ d.pc = "tool" /\ d' \in Call /\ d'.pc = "persist"
           /\ d'.seen = d.seen /\ d'.latest = d.latest /\ d'.judged = n
           /\ d'.plan = d.plan /\ d'.step = d.step /\ d'.mark = d.mark
           /\ d'.spec.attempt = d.spec.attempt
           /\ d'.spec.status \in {"completed", "failed"}
           /\ d'.next.plan = session.plan
           /\ d'.next.current = stepId(d.plan, d.step)
           /\ ToolOutcome(d, d', n)
           /\ invoked' \in [PlanId -> [Step -> Nat]]
           /\ \A p \in PlanId, s \in Step :
                invoked'[p][s] <= invoked[p][s] + IF p = d.plan /\ s = d.step THEN 1 ELSE 0
           /\ UNCHANGED <<session, plans, planning, last, judged, crashes>>
  <1>1. PICK k \in 0..MaxPlans :
             /\ Dense(plans, k) /\ Frame(d, k) /\ d \in Call /\ session \in SessionRecord
             /\ plans \in [PlanId -> PlanRecord] /\ 1..k \subseteq PlanId
             /\ invoked \in [PlanId -> [Step -> Nat]]
             /\ k \in Nat
    BY TypeFacts
  <1>2. k = n
    BY <1>1, DenseUnique
  <1>3. d.pc = "tool"
    BY DEF RunTool
  <1>4. /\ d.plan \in PlanId /\ d.step \in Step /\ n \in PlanId /\ n \in PlanRef
        /\ d.spec \in DriverStep /\ stepId(d.plan, d.step) \in StepId
    BY <1>1, <1>2, <1>3, StepIds DEF Frame, Choosing, Chosen, Call, PlanRef
  <1> DEFINE latest == CHOOSE p \in LatestBySession : TRUE
             known == findPlanStepByID(latest, stepId(d.plan, d.step)) # NoStep
             replaced(spec) == IF known THEN [plans[latest].steps EXCEPT ![d.step] = spec]
                               ELSE plans[latest].steps
             whole == d.step \in Fanout /\ AggregateScope
             rawSpec == withVerdict(d.step, d.spec, raw, "")
             ready == aggregateVerificationReady(replaced(rawSpec))
             verified == IF ~whole THEN verdict ELSE raw /\ (ready => verdict)
             spec == withVerdict(d.step, d.spec, verified, "")
             settled == verified \/ (Strategy[d.step] = "continue"
                                     /\ spec.attempt >= allowedAttempts(d.step))
             next == IF settled
                     THEN transitionForPlanOutcome(planExecutionOutcomeForSpec(replaced(spec)))
                     ELSE onFailTransition(d.step, spec)
             final == withVerdict(d.step, spec, verified, next)
             st == [session EXCEPT !.phase = next, !.exec = "idle",
                                   !.current = stepId(d.plan, d.step),
                                   !.inFlight = NoId]
             flag == IF whole /\ ready THEN "ok" ELSE "out"
  <1>6. /\ invoked' = [invoked EXCEPT ![d.plan][d.step] = @ + 1]
        /\ d' = [d EXCEPT !.pc = "persist", !.judged = latest, !.spec = final,
                          !.next = st, !.group[d.step] = flag]
        /\ UNCHANGED <<session, plans, planning, last, judged, crashes>>
    BY DEF RunTool
  <1>5. latest = n
    BY StoredFacts
  <1> HIDE DEF latest
  <1>7. verified \in BOOLEAN /\ whole \in BOOLEAN /\ ready \in BOOLEAN
    BY DriverAssumption DEF aggregateVerificationReady
  <1>8. \A x : replaced(x) = Replaced(n, x)
    <2>1. known <=> (FreshIds => n = d.plan)
      BY <1>4, <1>5, KnownStep
    <2> HIDE DEF known
    <2> QED BY <1>5, <2>1 DEF Replaced
  <1>9. /\ rawSpec \in DriverStep /\ rawSpec.attempt = d.spec.attempt
        /\ rawSpec.status = IF raw THEN "completed" ELSE "failed"
    <2> DEFINE t == IF raw THEN "completed" ELSE "failed"
               w == "" \in {"recover", "prepare"} /\ d.step \in Backoff
    <2>1. t \in StepStatus /\ w \in BOOLEAN
      BY DEF StepStatus
    <2>2. rawSpec = [d.spec EXCEPT !.status = t, !.wait = w]
      BY DEF withVerdict
    <2>3. t = IF raw THEN "completed" ELSE "failed"
      OBVIOUS
    <2> HIDE DEF t, w, rawSpec
    <2>4. PICK r \in DriverStep : r = d.spec
      BY <1>4
    <2>5. rawSpec \in DriverStep /\ rawSpec.attempt = r.attempt /\ rawSpec.status = t
      BY <2>1, <2>2, <2>4 DEF DriverStep
    <2> QED BY <1>4, <2>3, <2>4, <2>5
  <1>10. /\ spec \in DriverStep /\ spec.attempt = d.spec.attempt
         /\ spec.status = IF verified THEN "completed" ELSE "failed"
    <2> HIDE DEF verified
    <2> DEFINE t == IF verified THEN "completed" ELSE "failed"
               w == "" \in {"recover", "prepare"} /\ d.step \in Backoff
    <2>1. t \in StepStatus /\ w \in BOOLEAN
      BY DEF StepStatus
    <2>2. spec = [d.spec EXCEPT !.status = t, !.wait = w]
      BY DEF withVerdict
    <2>3. t = IF verified THEN "completed" ELSE "failed"
      OBVIOUS
    <2> HIDE DEF t, w, spec
    <2>4. PICK r \in DriverStep : r = d.spec
      BY <1>4
    <2>5. spec \in DriverStep /\ spec.attempt = r.attempt /\ spec.status = t
      BY <2>1, <2>2, <2>4 DEF DriverStep
    <2> QED BY <1>4, <2>3, <2>4, <2>5
  <1>11. /\ final \in DriverStep /\ final.attempt = d.spec.attempt
         /\ final.status = IF verified THEN "completed" ELSE "failed"
    <2> HIDE DEF verified, spec, next
    <2> DEFINE t == IF verified THEN "completed" ELSE "failed"
               w == next \in {"recover", "prepare"} /\ d.step \in Backoff
    <2>1. t \in StepStatus /\ w \in BOOLEAN
      BY DEF StepStatus
    <2>2. final = [spec EXCEPT !.status = t, !.wait = w]
      BY DEF withVerdict
    <2>3. t = IF verified THEN "completed" ELSE "failed"
      OBVIOUS
    <2> HIDE DEF t, w, final
    <2>4. PICK r \in DriverStep : r = spec
      BY <1>10
    <2>5. final \in DriverStep /\ final.attempt = r.attempt /\ final.status = t
      BY <2>1, <2>2, <2>4 DEF DriverStep
    <2> QED BY <1>10, <2>3, <2>4, <2>5
  <1>12. /\ settled => next = transitionForPlanOutcome(Outcome(Replaced(n, spec)))
         /\ ~settled => next = onFailTransition(d.step, spec)
    BY <1>8, Zenon DEF Outcome
  <1>13. /\ Ready(Replaced(n, rawSpec)) <=> ready
    BY <1>8, Zenon DEF Ready
  <1> HIDE DEF known, replaced, ready, rawSpec, spec, final, settled, next
  <1>14. next \in {"plan", "complete", "failed", "recover", "prepare"}
    BY <1>4, <1>12, OutcomeKinds, FailPhases
  <1>15. /\ st \in SessionRecord /\ st.phase = next /\ st.plan = session.plan
         /\ st.current = stepId(d.plan, d.step)
    BY <1>1, <1>4, <1>14, FreshTyped DEF SessionRecord
  <1>16. flag \in Member /\ (flag = "ok" <=> whole /\ ready)
    BY DEF Member
  <1> HIDE DEF st, flag
  <1>17. /\ d' \in Call /\ d'.pc = "persist"
         /\ d'.seen = d.seen /\ d'.latest = d.latest /\ d'.judged = n
         /\ d'.plan = d.plan /\ d'.step = d.step /\ d'.mark = d.mark
         /\ d'.spec = final /\ d'.next = st /\ d'.group[d.step] = flag
    <2> DEFINE gr == [d.group EXCEPT ![d.step] = flag]
    <2>1. gr \in [Step -> Member] /\ gr[d.step] = flag
      BY <1>1, <1>4, <1>16 DEF Call
    <2>2. d' = [d EXCEPT !.pc = "persist", !.judged = n, !.spec = final,
                         !.next = st, !.group = gr]
      BY <1>1, <1>5, <1>6 DEF Call
    <2> HIDE DEF gr
    <2> QED BY <1>1, <1>4, <1>11, <1>15, <2>1, <2>2 DEF Call
  <1>18. settled <=> \/ final.status = "completed"
                     \/ /\ Strategy[d.step] = "continue"
                        /\ final.attempt >= allowedAttempts(d.step)
    BY <1>7, <1>10, <1>11 DEF settled
  <1>19. Alike(Replaced(n, spec), Replaced(n, final))
    BY <1>1, <1>4, <1>10, <1>11, ReplacedAlike
  <1>20. settled => st.phase = transitionForPlanOutcome(Outcome(Replaced(n, final)))
    BY <1>12, <1>15, <1>19, AlikeOutcome
  <1>21. ASSUME ~settled
         PROVE  /\ st.phase \in RetryPhase
                /\ st.phase # "failed" =>
                     \/ Strategy[d.step] = "replan"
                     \/ /\ Strategy[d.step] # "abort"
                        /\ final.attempt < allowedAttempts(d.step)
    <2>1. st.phase = onFailTransition(d.step, spec)
      BY <1>12, <1>15, <1>21
    <2>2. Strategy[d.step] = "continue" => final.attempt < allowedAttempts(d.step)
      <3>1. allowedAttempts(d.step) \in Nat /\ final.attempt \in Nat
        BY <1>4, <1>11, AllowedAttempts DEF DriverStep
      <3> HIDE DEF verified
      <3> QED BY <1>18, <1>21, <3>1
    <2> QED BY <1>4, <1>10, <1>11, <2>1, <2>2, FailPhases DEF RetryPhase
  <1>22. ASSUME d.step \in Fanout, AggregateScope, Ready(Replaced(n, final))
         PROVE  flag = "ok"
    <2>1. SUFFICES ASSUME ~ready PROVE FALSE
      BY <1>16, <1>22
    <2>2. verified = raw
      BY <1>22, <2>1 DEF whole
    <2>3. Alike(Replaced(n, final), Replaced(n, rawSpec))
      <3>1. final.status = rawSpec.status /\ final.attempt = rawSpec.attempt
        BY <1>9, <1>11, <2>2
      <3> QED BY <1>1, <1>4, <1>9, <1>11, <3>1, ReplacedAlike
    <2> QED BY <1>13, <1>22, <2>1, <2>3, AlikeOutcome
  <1>23. ToolOutcome(d, d', n)
    BY <1>17, <1>18, <1>20, <1>21, <1>22 DEF ToolOutcome
  <1>24. /\ invoked' \in [PlanId -> [Step -> Nat]]
         /\ \A p \in PlanId, s \in Step :
              invoked'[p][s] <= invoked[p][s] + IF p = d.plan /\ s = d.step THEN 1 ELSE 0
    BY <1>1, <1>4, <1>6, OneMoreCall
  <1>25. d'.spec.status \in {"completed", "failed"}
    <2> HIDE DEF verified
    <2> QED BY <1>11, <1>17
  <1> QED BY <1>3, <1>6, <1>11, <1>15, <1>17, <1>23, <1>24, <1>25

LEMMA RunToolType ==
    ASSUME TypeInv, NEW raw \in BOOLEAN, NEW verdict \in BOOLEAN, RunTool(raw, verdict)
    PROVE  TypeInv'
  <1>1. PICK n \in 0..MaxPlans :
             /\ n \in Nat /\ Frame(d, n)
             /\ Dense(plans, n) /\ RevisionRead(planning, n)
             /\ session \in SessionRecord /\ session.plan \in 0..n
             /\ plans \in [PlanId -> PlanRecord] /\ planning \in PlanningSet
             /\ judged \in [PlanId -> {"no", "yes", "denied"}]
             /\ crashes \in 0..MaxCrashes /\ last \in Reason
    BY TypeFacts
  <1>2. d.pc = "tool"
    BY DEF RunTool
  <1>3. n > 0
    BY <1>1, <1>2 DEF Frame, Choosing, Chosen
  <1>4. /\ d' \in Call /\ d'.pc = "persist"
        /\ d'.seen = d.seen /\ d'.latest = d.latest
        /\ d'.plan = d.plan /\ d'.step = d.step
        /\ d'.next.plan = session.plan
        /\ invoked' \in [PlanId -> [Step -> Nat]]
        /\ UNCHANGED <<session, plans, planning, last, judged, crashes>>
    BY <1>1, <1>3, RunToolForm
  <1>5. Frame(d', n)
    BY <1>1, <1>2, <1>4 DEF Frame, Choosing, Chosen, InRound
  <1>6. planning'["driver"].pc # "idle" => d'.pc = "plan"
    BY <1>2, <1>4 DEF TypeInv
  <1> QED BY <1>1, <1>4, <1>5, <1>6, TypeFrom

LEMMA PersistStepForm ==
    ASSUME TypeInv, PersistStep
    PROVE  /\ d.pc = "persist"
           /\ plans' \in [PlanId -> PlanRecord] /\ SameRevisions(plans, plans')
           /\ plans'[d.plan].steps = After(d, plans)
           /\ plans'[d.plan].status = planStatusForSpec(After(d, plans))
           /\ \A q \in PlanId \ {d.plan} : plans'[q] = plans[q]
           /\ session' = d.next /\ d.next \in SessionRecord
           /\ judged' \in [PlanId -> {"no", "yes", "denied"}]
           /\ \A q \in PlanId \ {d.plan} : judged'[q] = judged[q]
           /\ d.step \notin Fanout => judged' = judged
           /\ d.step \in Fanout /\ d.group[d.step] = "ok" => judged'[d.plan] = "yes"
           /\ wrote' = d.plan
           /\ IF isTerminalPhase(session'.phase)
              THEN Bare(d', "idle", d.judged, {}) /\ last' = "over"
              ELSE Bare(d', "loop", d.judged, d.mark) /\ last' = last
           /\ UNCHANGED <<planning, invoked, crashes>>
  <1>1. PICK n \in 0..MaxPlans : /\ n \in Nat /\ Frame(d, n) /\ d \in Call
                                 /\ plans \in [PlanId -> PlanRecord]
                                 /\ 1..n \subseteq PlanId
                                 /\ judged \in [PlanId -> {"no", "yes", "denied"}]
    BY TypeFacts
  <1>2. /\ d.pc = "persist" /\ session' = d.next /\ wrote' = d.plan
        /\ UNCHANGED <<planning, invoked, crashes>>
    BY DEF PersistStep
  <1>3. /\ d.plan \in PlanId /\ d.step \in Step /\ d.spec \in DriverStep
        /\ d.next \in SessionRecord /\ d.judged \in PlanRef
    BY <1>1, <1>2 DEF Frame, Choosing, Chosen, Call
  <1> DEFINE out == [s \in {d.step} |-> d.spec]
  <1>4. plans' = planUpdated(d.plan, out)
    BY DEF PersistStep
  <1>5. \A s \in Step \cap DOMAIN out : out[s] \in DriverStep
    BY <1>3
  <1>6. Merged(d.plan, out) = After(d, plans)
    BY <1>1, <1>3 DEF Merged, After, PlanRecord
  <1> HIDE DEF out
  <1>7. /\ plans' \in [PlanId -> PlanRecord] /\ SameRevisions(plans, plans')
        /\ plans'[d.plan].steps = After(d, plans)
        /\ plans'[d.plan].status = planStatusForSpec(After(d, plans))
        /\ \A q \in PlanId \ {d.plan} : plans'[q] = plans[q]
    BY <1>1, <1>3, <1>4, <1>5, <1>6, PlanUpdatedForm
  <1>8. /\ judged' \in [PlanId -> {"no", "yes", "denied"}]
        /\ \A q \in PlanId \ {d.plan} : judged'[q] = judged[q]
        /\ d.step \notin Fanout => judged' = judged
        /\ d.step \in Fanout /\ d.group[d.step] = "ok" => judged'[d.plan] = "yes"
    BY <1>1, <1>3 DEF PersistStep
  <1>9. IF isTerminalPhase(session'.phase)
        THEN Bare(d', "idle", d.judged, {}) /\ last' = "over"
        ELSE Bare(d', "loop", d.judged, d.mark) /\ last' = last
    BY <1>1, <1>2, <1>3, ContinueForm DEF PersistStep
  <1> QED BY <1>2, <1>3, <1>7, <1>8, <1>9

LEMMA PersistStepType ==
    ASSUME TypeInv, PersistStep
    PROVE  TypeInv'
  <1>1. PICK n \in 0..MaxPlans :
             /\ n \in Nat /\ Frame(d, n)
             /\ Dense(plans, n) /\ RevisionRead(planning, n)
             /\ planning \in PlanningSet
             /\ invoked \in [PlanId -> [Step -> Nat]]
             /\ crashes \in 0..MaxCrashes /\ last \in Reason
    BY TypeFacts
  <1>2. /\ d.pc = "persist"
        /\ plans' \in [PlanId -> PlanRecord] /\ SameRevisions(plans, plans')
        /\ session' \in SessionRecord /\ session' = d.next
        /\ judged' \in [PlanId -> {"no", "yes", "denied"}]
        /\ IF isTerminalPhase(session'.phase)
           THEN Bare(d', "idle", d.judged, {}) /\ last' = "over"
           ELSE Bare(d', "loop", d.judged, d.mark) /\ last' = last
        /\ UNCHANGED <<planning, invoked, crashes>>
    BY PersistStepForm
  <1>3. session'.plan \in 0..n
    BY <1>1, <1>2 DEF Frame
  <1>4. Frame(d', n) /\ last' \in Reason
    BY <1>1, <1>2, BareFrame DEF Reason
  <1>5. planning'["driver"].pc # "idle" => d'.pc = "plan"
    BY <1>2 DEF TypeInv
  <1>6. Dense(plans', n)
    BY <1>1, <1>2, DenseKept
  <1> QED BY <1>1, <1>2, <1>3, <1>4, <1>5, <1>6, TypeFrom

----------------------------------------------------------------------------
(* A fan-out round: types.                                                 *)

SameRound(c, e) == \A m \in Fanout : e.group[m] # "out" <=> c.group[m] # "out"

LEMMA PrepareRoundForm ==
    ASSUME TypeInv, PrepareRound
    PROVE  /\ d.pc = "round" /\ d' \in Call /\ d'.pc = "launch"
           /\ d'.seen = d.seen /\ d'.next = d.next /\ d'.latest = d.latest
           /\ d'.plan = d.plan /\ d'.step = d.step /\ d'.mark = d.mark
           /\ d'.judged = d.judged /\ SameRound(d, d')
           /\ session' = markedInFlight(stepId(d.plan, d.step))
           /\ UNCHANGED <<plans, planning, last, invoked, judged, crashes>>
  <1>1. d \in Call
    BY TypeFacts
  <1>2. PICK denied \in SUBSET Round :
             d' = [d EXCEPT !.pc = "launch",
                            !.group = [m \in Step |-> IF m \in denied THEN "deny"
                                                      ELSE d.group[m]]]
    BY DEF PrepareRound
  <1> DEFINE gr == [m \in Step |-> IF m \in denied THEN "deny" ELSE d.group[m]]
  <1>3. gr \in [Step -> Member]
    BY <1>1 DEF Call, Member
  <1>4. \A m \in Fanout : gr[m] # "out" <=> d.group[m] # "out"
    BY FanoutAssumption DEF Round
  <1>5. d' = [d EXCEPT !.pc = "launch", !.group = gr]
    BY <1>2
  <1> HIDE DEF gr
  <1>6. /\ d' \in Call /\ d'.pc = "launch" /\ d'.group = gr
        /\ d'.seen = d.seen /\ d'.next = d.next /\ d'.latest = d.latest
        /\ d'.plan = d.plan /\ d'.step = d.step /\ d'.mark = d.mark
        /\ d'.judged = d.judged
    BY <1>1, <1>3, <1>5 DEF Call
  <1>7. SameRound(d, d')
    BY <1>4, <1>6 DEF SameRound
  <1> QED BY <1>6, <1>7 DEF PrepareRound

LEMMA PrepareRoundType ==
    ASSUME TypeInv, PrepareRound
    PROVE  TypeInv'
  <1>1. PICK n \in 0..MaxPlans :
             /\ n \in Nat /\ Frame(d, n)
             /\ Dense(plans, n) /\ RevisionRead(planning, n)
             /\ plans \in [PlanId -> PlanRecord] /\ planning \in PlanningSet
             /\ 1..n \subseteq PlanId
             /\ invoked \in [PlanId -> [Step -> Nat]]
             /\ judged \in [PlanId -> {"no", "yes", "denied"}]
             /\ crashes \in 0..MaxCrashes /\ last \in Reason
    BY TypeFacts
  <1>2. /\ d.pc = "round" /\ d' \in Call /\ d'.pc = "launch"
        /\ d'.seen = d.seen /\ d'.next = d.next /\ d'.latest = d.latest
        /\ d'.plan = d.plan /\ d'.step = d.step /\ SameRound(d, d')
        /\ session' = markedInFlight(stepId(d.plan, d.step))
        /\ UNCHANGED <<plans, planning, last, invoked, judged, crashes>>
    BY PrepareRoundForm
  <1>3. d.plan \in 1..n /\ d.step \in Step /\ d.plan \in PlanId
    BY <1>1, <1>2 DEF Frame, Choosing, Chosen
  <1>4. stepId(d.plan, d.step) \in StepId /\ n > 0
    BY <1>1, <1>3, StepIds
  <1>5. session' \in SessionRecord /\ session'.plan \in 0..n
    BY <1>1, <1>2, <1>4, MarkedForm
  <1>6. Frame(d', n)
    BY <1>1, <1>2 DEF Frame, Choosing, Chosen, InRound, SameRound
  <1>7. planning'["driver"].pc # "idle" => d'.pc = "plan"
    BY <1>2 DEF TypeInv
  <1> QED BY <1>1, <1>2, <1>5, <1>6, <1>7, TypeFrom

LEMMA RunRoundForm ==
    ASSUME TypeInv, RunRound
    PROVE  /\ d.pc = "launch" /\ d' \in Call /\ d'.pc = "gather"
           /\ d'.seen = d.seen /\ d'.next = d.next /\ d'.latest = d.latest
           /\ d'.plan = d.plan /\ d'.step = d.step /\ d'.mark = d.mark
           /\ d'.judged = d.judged /\ SameRound(d, d')
           /\ invoked' \in [PlanId -> [Step -> Nat]]
           /\ \A p \in PlanId, s \in Step :
                invoked'[p][s] <= invoked[p][s] + IF Owed(d', p, s) THEN 1 ELSE 0
           /\ UNCHANGED <<session, plans, planning, last, judged, crashes>>
  <1>1. PICK n \in 0..MaxPlans : /\ n \in Nat /\ Frame(d, n) /\ d \in Call
                                 /\ 1..n \subseteq PlanId
                                 /\ invoked \in [PlanId -> [Step -> Nat]]
    BY TypeFacts
  <1> DEFINE run == {m \in Round : d.group[m] = "todo"}
  <1>2. d.pc = "launch" /\ UNCHANGED <<session, plans, planning, last, judged, crashes>>
    BY DEF RunRound
  <1>3. d.latest \in PlanId
    BY <1>1, <1>2 DEF Frame, Choosing
  <1>4. PICK ok \in SUBSET run :
          d' = [d EXCEPT !.pc = "gather",
                         !.group = [m \in Step |-> IF m \in ok THEN "ok"
                                                   ELSE IF m \in run THEN "failed"
                                                   ELSE d.group[m]]]
    BY DEF RunRound
  <1> DEFINE gr == [m \in Step |-> IF m \in ok THEN "ok"
                                   ELSE IF m \in run THEN "failed" ELSE d.group[m]]
  <1>5. gr \in [Step -> Member]
    BY <1>1 DEF Call, Member
  <1>6. \A m \in Fanout : gr[m] # "out" <=> d.group[m] # "out"
    BY FanoutAssumption DEF Round
  <1>7. \A m \in run : m \in Fanout /\ gr[m] \in {"ok", "failed"}
    BY FanoutAssumption DEF Round
  <1>8. d' = [d EXCEPT !.pc = "gather", !.group = gr]
    BY <1>4
  <1>9. invoked' = [invoked EXCEPT ![d.latest] =
                      [m \in Step |-> IF m \in run THEN @[m] + 1 ELSE @[m]]]
    BY DEF RunRound
  <1> HIDE DEF gr, run
  <1>10. /\ d' \in Call /\ d'.pc = "gather" /\ d'.group = gr
         /\ d'.seen = d.seen /\ d'.next = d.next /\ d'.latest = d.latest
         /\ d'.plan = d.plan /\ d'.step = d.step /\ d'.mark = d.mark
         /\ d'.judged = d.judged
    BY <1>1, <1>5, <1>8 DEF Call
  <1>11. SameRound(d, d')
    BY <1>6, <1>10 DEF SameRound
  <1>12. /\ invoked' \in [PlanId -> [Step -> Nat]]
         /\ \A p \in PlanId, s \in Step :
              invoked'[p][s] <= invoked[p][s] + IF Owed(d', p, s) THEN 1 ELSE 0
    <2> DEFINE row == [m \in Step |-> IF m \in run THEN invoked[d.latest][m] + 1
                                      ELSE invoked[d.latest][m]]
    <2>1. row \in [Step -> Nat] /\ \A p \in PlanId, s \in Step : invoked[p][s] \in Nat
      BY <1>1, <1>3
    <2>2. invoked' = [invoked EXCEPT ![d.latest] = row]
      BY <1>9
    <2>3. \A s \in Step : row[s] <= invoked[d.latest][s] + IF s \in run THEN 1 ELSE 0
      BY <1>3, <2>1
    <2> HIDE DEF row
    <2>4. invoked' \in [PlanId -> [Step -> Nat]]
      BY <1>1, <1>3, <2>1, <2>2
    <2>5. \A s \in run : Owed(d', d.latest, s)
      BY <1>7, <1>10 DEF Owed
    <2>6. \A p \in PlanId, s \in Step : invoked'[p][s] = IF p = d.latest THEN row[s]
                                                         ELSE invoked[p][s]
      BY <1>1, <1>3, <2>2
    <2>7. ASSUME NEW p \in PlanId, NEW s \in Step
          PROVE  invoked'[p][s] <= invoked[p][s] + IF Owed(d', p, s) THEN 1 ELSE 0
      <3>1. CASE p = d.latest /\ s \in run
        BY <2>1, <2>3, <2>5, <2>6, <3>1
      <3>2. CASE p = d.latest /\ s \notin run
        BY <2>1, <2>3, <2>6, <3>2
      <3>3. CASE p # d.latest
        BY <2>1, <2>6, <3>3
      <3> QED BY <3>1, <3>2, <3>3
    <2> QED BY <2>4, <2>7
  <1> QED BY <1>2, <1>10, <1>11, <1>12

LEMMA RunRoundType ==
    ASSUME TypeInv, RunRound
    PROVE  TypeInv'
  <1>1. PICK n \in 0..MaxPlans :
             /\ n \in Nat /\ Frame(d, n)
             /\ Dense(plans, n) /\ RevisionRead(planning, n)
             /\ session \in SessionRecord /\ session.plan \in 0..n
             /\ plans \in [PlanId -> PlanRecord] /\ planning \in PlanningSet
             /\ judged \in [PlanId -> {"no", "yes", "denied"}]
             /\ crashes \in 0..MaxCrashes /\ last \in Reason
    BY TypeFacts
  <1>2. /\ d.pc = "launch" /\ d' \in Call /\ d'.pc = "gather"
        /\ d'.seen = d.seen /\ d'.next = d.next /\ d'.latest = d.latest
        /\ d'.plan = d.plan /\ d'.step = d.step /\ SameRound(d, d')
        /\ invoked' \in [PlanId -> [Step -> Nat]]
        /\ UNCHANGED <<session, plans, planning, last, judged, crashes>>
    BY RunRoundForm
  <1>3. Frame(d', n)
    BY <1>1, <1>2 DEF Frame, Choosing, Chosen, InRound, SameRound
  <1>4. planning'["driver"].pc # "idle" => d'.pc = "plan"
    BY <1>2 DEF TypeInv
  <1> QED BY <1>1, <1>2, <1>3, <1>4, TypeFrom

(* An attempt was made and judged.                                         *)
Counted(o, spec) ==
    /\ o \in DriverStep /\ o.attempt = spec.attempt + 1
    /\ o.status \in {"completed", "failed"}

LEMMA MemberForm ==
    ASSUME plans \in [PlanId -> PlanRecord], d.latest \in PlanId, NEW m \in Step,
           NEW b \in BOOLEAN
    PROVE  Counted(memberOutcome(m, b), plans[d.latest].steps[m])
  <1> DEFINE spec == tried(plans[d.latest].steps[m])
             outcome == [spec EXCEPT !.status = IF b THEN "completed" ELSE "failed"]
             next == IF b \/ d.group[m] = "deny" THEN "" ELSE onFailTransition(m, outcome)
             t == IF b THEN "completed" ELSE "failed"
             w == next \in {"recover", "prepare"} /\ m \in Backoff
  <1>1. PICK r \in DriverStep : r = plans[d.latest].steps[m]
    BY DEF PlanRecord
  <1>2. spec \in DriverStep /\ spec.attempt = r.attempt + 1
    BY <1>1, TriedForm
  <1>3. t \in {"completed", "failed"} /\ w \in BOOLEAN
    OBVIOUS
  <1>4. memberOutcome(m, b) = [spec EXCEPT !.status = t, !.wait = w]
    BY DEF memberOutcome, withVerdict
  <1> HIDE DEF spec, outcome, next, t, w
  <1>5. PICK sp \in DriverStep : sp = spec
    BY <1>2
  <1>6. /\ memberOutcome(m, b) \in DriverStep /\ memberOutcome(m, b).attempt = sp.attempt
        /\ memberOutcome(m, b).status = t
    <2> DEFINE mo == memberOutcome(m, b)
    <2>1. mo = [sp EXCEPT !.status = t, !.wait = w]
      BY <1>4, <1>5
    <2> HIDE DEF mo
    <2>2. mo \in DriverStep /\ mo.attempt = sp.attempt /\ mo.status = t
      BY <1>3, <2>1 DEF DriverStep, StepStatus
    <2> QED BY <2>2 DEF mo
  <1> QED BY <1>1, <1>2, <1>3, <1>5, <1>6 DEF Counted

LEMMA RoundIsFinite ==
    /\ Round \subseteq Nat /\ Round \subseteq Step /\ IsFiniteSet(Round)
    /\ \A m \in Fanout : d.group[m] # "out" <=> m \in Round
  <1>1. Round \subseteq Step
    BY FanoutAssumption DEF Round
  <1>2. IsFiniteSet(Round)
    BY <1>1, DriverAssumption, FS_Subset
  <1> QED BY <1>1, <1>2, StepAssumption DEF Round

(* The latest plan of the call after the round.                            *)
RoundForm ==
    LET post == plans'[d.latest].steps IN
    /\ post \in [Step -> DriverStep]
    /\ \A s \in Step : IF s \in Round THEN Counted(post[s], plans[d.latest].steps[s])
                       ELSE post[s] = plans[d.latest].steps[s]
    /\ plans'[d.latest].status = planStatusForSpec(post)
    /\ \A q \in PlanId \ {d.latest} : plans'[q] = plans[q]
    /\ session'.phase = transitionForPlanOutcome(Outcome(post))
    /\ AggregateScope /\ Ready(post) => judged'[d.latest] # "no"
    /\ \A q \in PlanId \ {d.latest} : judged'[q] = judged[q]

LEMMA PersistRoundForm ==
    ASSUME TypeInv, NEW verdict \in BOOLEAN, PersistRound(verdict)
    PROVE  /\ d.pc = "gather" /\ Round # {}
           /\ plans' \in [PlanId -> PlanRecord] /\ SameRevisions(plans, plans')
           /\ RoundForm
           /\ session' \in SessionRecord /\ session'.plan = d.seen.plan
           /\ judged' \in [PlanId -> {"no", "yes", "denied"}]
           /\ IF isTerminalPhase(session'.phase)
              THEN Bare(d', "idle", d.latest, {}) /\ last' = "over"
              ELSE Bare(d', "loop", d.latest, d.mark) /\ last' = last
           /\ UNCHANGED <<planning, invoked, crashes>>
  <1>1. PICK n \in 0..MaxPlans : /\ n \in Nat /\ Frame(d, n) /\ d \in Call
                                 /\ plans \in [PlanId -> PlanRecord]
                                 /\ 1..n \subseteq PlanId
                                 /\ judged \in [PlanId -> {"no", "yes", "denied"}]
    BY TypeFacts
  <1> DEFINE alone == [m \in Round |-> memberOutcome(m, d.group[m] = "ok")]
             denied == \A m \in Round : d.group[m] = "deny"
             ready == /\ AggregateScope
                      /\ ~denied
                      /\ aggregateVerificationReady(replacePlanSteps(alone))
             outcomes == finalizeFanoutAggregateOutcome(alone, ready, verdict)
             next == transitionForPlanOutcome(planExecutionOutcomeForSpec(replacePlanSteps(outcomes)))
             anchor == CHOOSE m \in Round : \A r \in Round : r <= m
             st == [rebaseFanoutWorkingState EXCEPT !.phase = next,
                                                    !.current = stepId(d.latest, anchor)]
             flag == IF denied THEN "denied" ELSE IF ready THEN "yes" ELSE "no"
  <1>2. /\ d.pc = "gather"
        /\ plans' = planUpdated(d.latest, outcomes)
        /\ session' = st
        /\ judged' = [judged EXCEPT ![d.latest] = flag]
        /\ Continue(st, d.latest)
        /\ UNCHANGED <<planning, invoked, crashes>>
    BY DEF PersistRound
  <1>3. d.latest \in PlanId /\ d.latest \in PlanRef /\ Round # {}
    BY <1>1, <1>2, RoundIsFinite DEF Frame, Choosing, InRound, PlanRef
  <1>4. Round \subseteq Step
    BY RoundIsFinite
  <1>5. ASSUME NEW m \in Round
        PROVE  Counted(alone[m], plans[d.latest].steps[m])
    <2>1. m \in Step /\ (d.group[m] = "ok") \in BOOLEAN
      BY <1>4
    <2>2. Counted(memberOutcome(m, d.group[m] = "ok"), plans[d.latest].steps[m])
      BY <1>1, <1>3, <2>1, MemberForm, Zenon
    <2> QED BY <2>2
  <1> HIDE DEF alone
  <1>6. /\ DOMAIN alone = Round
        /\ alone = [m \in Round |-> alone[m]]
    BY DEF alone
  <1>7. /\ outcomes = [m \in Round |-> outcomes[m]]
        /\ \A m \in Round : Counted(outcomes[m], plans[d.latest].steps[m])
        /\ ~ready => outcomes = alone
    <2> DEFINE ran == {m \in Round : d.group[m] \in {"ok", "failed"}}
               lastRun == CHOOSE m \in ran : \A r \in ran : r <= m
               mo == memberOutcome(lastRun, d.group[lastRun] = "ok" /\ verdict)
    <2>1. outcomes = IF ~ready THEN alone ELSE [alone EXCEPT ![lastRun] = mo]
      BY DEF finalizeFanoutAggregateOutcome
    <2>2. lastRun \in Round => Counted(mo, plans[d.latest].steps[lastRun])
      <3> HIDE DEF lastRun
      <3>1. ASSUME lastRun \in Round PROVE Counted(mo, plans[d.latest].steps[lastRun])
        <4>1. lastRun \in Step /\ (d.group[lastRun] = "ok" /\ verdict) \in BOOLEAN
          BY <1>4, <3>1
        <4> QED BY <1>1, <1>3, <4>1, MemberForm, Zenon
      <3> QED BY <3>1
    <2> HIDE DEF ready, outcomes, lastRun, mo
    <2>3. CASE ~ready
      BY <1>5, <1>6, <2>1, <2>3
    <2>4. CASE ready
      <3>1. outcomes = [alone EXCEPT ![lastRun] = mo]
        BY <2>1, <2>4
      <3>2. /\ outcomes = [m \in Round |-> outcomes[m]]
            /\ \A m \in Round : outcomes[m] = IF m = lastRun THEN mo ELSE alone[m]
        BY <1>6, <3>1
      <3> QED BY <1>5, <2>2, <2>4, <3>2
    <2> QED BY <2>3, <2>4
  <1>8. DOMAIN outcomes = Round
    <2> HIDE DEF outcomes
    <2> QED BY <1>7
  <1>9. flag \in {"no", "yes", "denied"} /\ (flag = "no" => ~ready)
    <2> HIDE DEF denied, ready
    <2> QED OBVIOUS
  <1>10. AggregateScope /\ flag = "no"
           => ~aggregateVerificationReady(replacePlanSteps(alone)) /\ ~ready
    BY Zenon
  <1> HIDE DEF outcomes, ready
  <1>11. Merged(d.latest, outcomes) = replacePlanSteps(outcomes)
    BY <1>8 DEF Merged, replacePlanSteps
  <1>12. \A s \in Step \cap DOMAIN outcomes : outcomes[s] \in DriverStep
    BY <1>7, <1>8 DEF Counted
  <1>13. /\ plans' \in [PlanId -> PlanRecord] /\ SameRevisions(plans, plans')
         /\ plans'[d.latest].steps = replacePlanSteps(outcomes)
         /\ replacePlanSteps(outcomes) \in [Step -> DriverStep]
         /\ plans'[d.latest].status = planStatusForSpec(replacePlanSteps(outcomes))
         /\ \A q \in PlanId \ {d.latest} : plans'[q] = plans[q]
    BY <1>1, <1>2, <1>3, <1>11, <1>12, PlanUpdatedForm
  <1>14. \A s \in Step : IF s \in Round
                         THEN Counted(replacePlanSteps(outcomes)[s], plans[d.latest].steps[s])
                         ELSE replacePlanSteps(outcomes)[s] = plans[d.latest].steps[s]
    BY <1>7 DEF replacePlanSteps
  <1>15. next = transitionForPlanOutcome(Outcome(replacePlanSteps(outcomes)))
         /\ next \in {"plan", "complete", "failed"}
    BY OutcomeKinds DEF Outcome
  <1> HIDE DEF next
  <1>16. /\ st \in SessionRecord /\ st.plan = d.seen.plan /\ st.phase = next
    <2>1. anchor \in Round
      BY <1>3, RoundIsFinite, GreatestOfFinite
    <2> DEFINE id == stepId(d.latest, anchor)
    <2>2. id \in StepId /\ NoId \in StepId
      <3> HIDE DEF anchor
      <3> QED BY <1>3, <1>4, <2>1, StepIds, FreshTyped
    <2> HIDE DEF id, anchor
    <2>3. PICK s0 \in SessionRecord : s0 = d.seen
      BY <1>1 DEF Call
    <2> DEFINE s1 == [s0 EXCEPT !.exec = "idle", !.inFlight = NoId]
    <2>4. s1 \in SessionRecord /\ s1.plan = s0.plan
      BY <2>2 DEF SessionRecord
    <2>5. st = [s1 EXCEPT !.phase = next, !.current = id]
      BY <2>3 DEF rebaseFanoutWorkingState, id
    <2> HIDE DEF s1
    <2> DEFINE s2 == [s1 EXCEPT !.phase = next, !.current = id]
    <2>6. s2 \in SessionRecord /\ s2.plan = s1.plan /\ s2.phase = next
      BY <1>15, <2>2, <2>4 DEF SessionRecord
    <2> QED BY <2>3, <2>4, <2>5, <2>6
  <1> HIDE DEF st
  <1>17. /\ judged' \in [PlanId -> {"no", "yes", "denied"}]
         /\ judged'[d.latest] = flag
         /\ \A q \in PlanId \ {d.latest} : judged'[q] = judged[q]
    <2> HIDE DEF flag
    <2> QED BY <1>1, <1>2, <1>3, <1>9
  <1>18. AggregateScope /\ Ready(replacePlanSteps(outcomes)) => flag # "no"
    <2>1. SUFFICES ASSUME AggregateScope, flag = "no", Ready(replacePlanSteps(outcomes))
                   PROVE  FALSE
      BY Zenon
    <2>2. ~ready /\ ~aggregateVerificationReady(replacePlanSteps(alone))
      BY <1>10, <2>1, Zenon
    <2>3. outcomes = alone
      BY <1>7, <2>2, Zenon
    <2> QED BY <2>1, <2>2, <2>3, Zenon DEF Ready
  <1>19. RoundForm
    BY <1>2, <1>13, <1>14, <1>15, <1>16, <1>17, <1>18 DEF RoundForm
  <1>20. IF isTerminalPhase(session'.phase)
         THEN Bare(d', "idle", d.latest, {}) /\ last' = "over"
         ELSE Bare(d', "loop", d.latest, d.mark) /\ last' = last
    BY <1>1, <1>2, <1>3, ContinueForm
  <1> QED BY <1>2, <1>3, <1>13, <1>16, <1>17, <1>19, <1>20

LEMMA PersistRoundType ==
    ASSUME TypeInv, NEW verdict \in BOOLEAN, PersistRound(verdict)
    PROVE  TypeInv'
  <1>1. PICK n \in 0..MaxPlans :
             /\ n \in Nat /\ Frame(d, n)
             /\ Dense(plans, n) /\ RevisionRead(planning, n)
             /\ planning \in PlanningSet
             /\ invoked \in [PlanId -> [Step -> Nat]]
             /\ crashes \in 0..MaxCrashes /\ last \in Reason
    BY TypeFacts
  <1>2. /\ d.pc = "gather"
        /\ plans' \in [PlanId -> PlanRecord] /\ SameRevisions(plans, plans')
        /\ session' \in SessionRecord /\ session'.plan = d.seen.plan
        /\ judged' \in [PlanId -> {"no", "yes", "denied"}]
        /\ IF isTerminalPhase(session'.phase)
           THEN Bare(d', "idle", d.latest, {}) /\ last' = "over"
           ELSE Bare(d', "loop", d.latest, d.mark) /\ last' = last
        /\ UNCHANGED <<planning, invoked, crashes>>
    BY PersistRoundForm
  <1>3. session'.plan \in 0..n
    BY <1>1, <1>2 DEF Frame
  <1>4. Frame(d', n) /\ last' \in Reason
    BY <1>1, <1>2, BareFrame DEF Reason
  <1>5. planning'["driver"].pc # "idle" => d'.pc = "plan"
    BY <1>2 DEF TypeInv
  <1>6. Dense(plans', n)
    BY <1>1, <1>2, DenseKept
  <1> QED BY <1>1, <1>2, <1>3, <1>4, <1>5, <1>6, TypeFrom

----------------------------------------------------------------------------
(* The environment: types.                                                 *)

LEMMA CrashForm ==
    ASSUME TypeInv, Crash
    PROVE  /\ TypeInv'
           /\ d.pc \in {"tool", "persist", "launch", "gather"}
           /\ Bare(d', "idle", d.judged, {}) /\ last' = "crash"
           /\ crashes' = crashes + 1 /\ crashes \in Nat
           /\ UNCHANGED <<session, plans, planning, invoked, judged>>
  <1>1. PICK n \in 0..MaxPlans :
             /\ n \in Nat /\ d \in Call
             /\ Dense(plans, n) /\ RevisionRead(planning, n)
             /\ session \in SessionRecord /\ session.plan \in 0..n
             /\ plans \in [PlanId -> PlanRecord] /\ planning \in PlanningSet
             /\ invoked \in [PlanId -> [Step -> Nat]]
             /\ judged \in [PlanId -> {"no", "yes", "denied"}]
             /\ crashes \in 0..MaxCrashes
    BY TypeFacts
  <1>2. /\ d.pc \in {"tool", "persist", "launch", "gather"}
        /\ crashes < MaxCrashes /\ crashes' = crashes + 1 /\ Return("crash")
        /\ UNCHANGED <<session, plans, planning, invoked, judged>>
    BY DEF Crash
  <1>3. Bare(d', "idle", d.judged, {}) /\ last' = "crash"
    BY <1>1, <1>2, ReturnForm
  <1>4. Frame(d', n)
    BY <1>1, <1>3, BareFrame
  <1>5. planning'["driver"].pc # "idle" => d'.pc = "plan"
    BY <1>2 DEF TypeInv
  <1>6. crashes' \in 0..MaxCrashes /\ crashes \in Nat
    BY <1>1, <1>2, DriverAssumption
  <1>7. TypeInv'
    BY <1>1, <1>2, <1>3, <1>4, <1>5, <1>6, TypeFrom DEF Reason
  <1> QED BY <1>2, <1>3, <1>6, <1>7

LEMMA BackoffForm ==
    ASSUME TypeInv, NEW p \in Stored, NEW s \in Step, BackoffElapses(p, s)
    PROVE  /\ TypeInv'
           /\ plans' \in [PlanId -> PlanRecord] /\ SameRevisions(plans, plans')
           /\ p \in PlanId /\ plans[p].rev # 0
           /\ \A q \in PlanId : /\ plans'[q].status = plans[q].status
                                /\ Alike(plans[q].steps, plans'[q].steps)
           /\ \A q \in PlanId \ {p} : plans'[q] = plans[q]
           /\ UNCHANGED <<session, planning, d, last, invoked, judged, crashes>>
  <1>1. PICK n \in 0..MaxPlans :
             /\ n \in Nat /\ Frame(d, n)
             /\ Dense(plans, n) /\ RevisionRead(planning, n)
             /\ session \in SessionRecord /\ session.plan \in 0..n
             /\ plans \in [PlanId -> PlanRecord] /\ planning \in PlanningSet
             /\ invoked \in [PlanId -> [Step -> Nat]]
             /\ judged \in [PlanId -> {"no", "yes", "denied"}]
             /\ crashes \in 0..MaxCrashes /\ last \in Reason
    BY TypeFacts
  <1>2. /\ plans' = [plans EXCEPT ![p].steps[s].wait = FALSE]
        /\ UNCHANGED <<session, planning, d, last, invoked, judged, crashes>>
        /\ p \in PlanId /\ plans[p].rev # 0
    BY DEF BackoffElapses, Stored
  <1>3. PICK r \in PlanRecord : r = plans[p]
    BY <1>1, <1>2
  <1>4. PICK sp \in DriverStep : sp = r.steps[s]
    BY <1>3 DEF PlanRecord
  <1> DEFINE sp2 == [sp EXCEPT !.wait = FALSE]
             steps2 == [r.steps EXCEPT ![s] = sp2]
             r2 == [r EXCEPT !.steps = steps2]
  <1>5. sp2 \in DriverStep /\ sp2.status = sp.status /\ sp2.attempt = sp.attempt
    BY DEF DriverStep
  <1>6. plans' = [plans EXCEPT ![p] = r2]
    BY <1>2, <1>3, <1>4
  <1> HIDE DEF sp2
  <1>7. steps2 \in [Step -> DriverStep] /\ Alike(r.steps, steps2)
    BY <1>3, <1>4, <1>5 DEF PlanRecord, Alike
  <1> HIDE DEF steps2
  <1>8. r2 \in PlanRecord /\ r2.rev = r.rev /\ r2.status = r.status /\ r2.steps = steps2
    BY <1>7 DEF PlanRecord
  <1> HIDE DEF r2
  <1>9. /\ plans' \in [PlanId -> PlanRecord] /\ plans'[p] = r2
        /\ \A q \in PlanId \ {p} : plans'[q] = plans[q]
    BY <1>1, <1>2, <1>6, <1>8
  <1>10. \A q \in PlanId : /\ plans'[q].status = plans[q].status
                           /\ Alike(plans[q].steps, plans'[q].steps)
    <2>1. \A x : Alike(x, x)
      BY DEF Alike
    <2> QED BY <1>3, <1>7, <1>8, <1>9, <2>1
  <1>11. SameRevisions(plans, plans')
    BY <1>3, <1>8, <1>9 DEF SameRevisions
  <1>12. Dense(plans', n)
    BY <1>1, <1>11, DenseKept
  <1>13. planning'["driver"].pc # "idle" => d'.pc = "plan"
    BY <1>2 DEF TypeInv
  <1>14. TypeInv'
    BY <1>1, <1>2, <1>9, <1>12, <1>13, TypeFrom
  <1> QED BY <1>2, <1>9, <1>10, <1>11, <1>14

----------------------------------------------------------------------------
(* Type correctness and dense revisions.                                   *)

(* A step of planning that changes nothing but the planner's frame.        *)
PlanningStep ==
    /\ \/ \E c \in Client : CreatePlan(c)
       \/ \E a \in Planner : ensurePlanRevisionBudget(a) \/ ReadRevision(a)
    /\ UNCHANGED <<session, plans, d, last, invoked, judged, wrote, crashes>>

PlanningFailure == \E a \in Planner : planning[a].pc # "idle" /\ PlanningFails(a)

LEMMA NextCases ==
    ASSUME Next
    PROVE  \/ PlanningStep \/ PlanningFailure \/ \E a \in Planner : InsertPlan(a)
           \/ StartRun \/ Loop \/ Select
           \/ StepRefused \/ StepDenied \/ StepAllowed
           \/ \E raw, verdict \in BOOLEAN : RunTool(raw, verdict)
           \/ PersistStep \/ PrepareRound \/ RunRound
           \/ \E verdict \in BOOLEAN : PersistRound(verdict)
           \/ Crash \/ \E p \in Stored, s \in Step : BackoffElapses(p, s)
  <1>1. ASSUME NEW a \in Planner, PlannerFails(a) \/ RevisionBudgetExceeded(a) \/ InsertRefused(a)
        PROVE  PlanningFailure
    BY <1>1 DEF PlannerFails, RevisionBudgetExceeded, InsertRefused, PlanningFailure
  <1>2. ASSUME NEW a \in Planner, ensurePlanRevisionBudget(a) \/ ReadRevision(a)
        PROVE  PlanningStep
    <2>1. UNCHANGED <<session, plans, d, last, invoked, judged, wrote, crashes>>
      BY <1>2, Zenon DEF ensurePlanRevisionBudget, ReadRevision
    <2> QED BY <1>2, <2>1, Zenon DEF PlanningStep
  <1>3. ASSUME NEW c \in Client, CreatePlan(c) PROVE PlanningStep
    <2>1. UNCHANGED <<session, plans, d, last, invoked, judged, wrote, crashes>>
      BY <1>3 DEF CreatePlan
    <2> QED BY <1>3, <2>1, Zenon DEF PlanningStep
  <1> QED BY <1>1, <1>2, <1>3, DriverIsPlanner, Zenon DEF Next, Drive

LEMMA TypeInit ==
    ASSUME Init
    PROVE  TypeInv
  <1>1. 0 \in 0..MaxPlans /\ 0 \in 0..MaxCrashes /\ 0 \in Nat
    BY DriverAssumption
  <1>2. plans \in [PlanId -> PlanRecord] /\ Dense(plans, 0)
    <2>1. \A p \in PlanId : plans[p] = AbsentPlan
      BY DEF Init
    <2>2. plans \in [PlanId -> PlanRecord]
      BY FreshTyped DEF Init
    <2>3. AbsentPlan.rev = 0
      BY DEF AbsentPlan
    <2> QED BY <1>1, <2>1, <2>2, <2>3, DriverAssumption DEF Dense, PlanId
  <1>3. /\ planning \in PlanningSet /\ \A a \in Planner : planning[a].pc = "idle"
    BY DEF Init, PlanningSet
  <1>4. RevisionRead(planning, 0)
    BY <1>3 DEF RevisionRead
  <1>5. d = NoCall /\ Frame(d, 0)
    <2>1. d = NoCall
      BY DEF Init
    <2> QED BY <2>1, NoCallTyped DEF Frame, Choosing, Chosen, InRound, NoPlan
  <1>6. session = NewSession /\ session \in SessionRecord /\ session.plan = 0
    BY FreshTyped DEF Init, NoPlan
  <1>7. invoked \in [PlanId -> [Step -> Nat]]
    BY DEF Init
  <1>8. judged \in [PlanId -> {"no", "yes", "denied"}]
    BY DEF Init
  <1>9. crashes \in 0..MaxCrashes /\ last \in Reason
    BY <1>1 DEF Init, Reason
  <1>10. Typed
    BY <1>2, <1>3, <1>5, <1>6, <1>7, <1>8, <1>9, NoCallTyped DEF Typed, NoPlan
  <1>11. planning["driver"].pc # "idle" => d.pc = "plan"
    BY <1>3, DriverIsPlanner
  <1>12. session.plan \in 0..0
    BY <1>6
  <1> QED BY <1>1, <1>2, <1>4, <1>5, <1>10, <1>11, <1>12 DEF TypeInv

LEMMA TypeStep ==
    ASSUME TypeInv, [Next]_vars
    PROVE  TypeInv'
  <1>1. CASE PlanningStep
    BY <1>1, CreatePlanType, BudgetType, ReadRevisionType DEF PlanningStep
  <1>2. CASE PlanningFailure
    BY <1>2, PlanningFailsType DEF PlanningFailure
  <1>3. CASE \E a \in Planner : InsertPlan(a)
    BY <1>3, InsertPlanType
  <1>4. CASE StartRun
    BY <1>4, StartRunType
  <1>5. CASE Loop
    BY <1>5, LoopType
  <1>6. CASE Select
    BY <1>6, SelectType
  <1>7. CASE StepRefused \/ StepDenied \/ StepAllowed
    BY <1>7, StepRefusedType, StepDeniedType, StepAllowedType
  <1>8. CASE \E raw, verdict \in BOOLEAN : RunTool(raw, verdict)
    BY <1>8, RunToolType, Zenon
  <1>9. CASE PersistStep
    BY <1>9, PersistStepType
  <1>10. CASE PrepareRound \/ RunRound
    BY <1>10, PrepareRoundType, RunRoundType
  <1>11. CASE \E verdict \in BOOLEAN : PersistRound(verdict)
    BY <1>11, PersistRoundType, Zenon
  <1>12. CASE Crash
    BY <1>12, CrashForm
  <1>13. CASE \E p \in Stored, s \in Step : BackoffElapses(p, s)
    BY <1>13, BackoffForm
  <1>14. CASE UNCHANGED vars
    BY <1>14 DEF vars, TypeInv, Typed, Stored
  <1> QED
    BY <1>1, <1>2, <1>3, <1>4, <1>5, <1>6, <1>7, <1>8, <1>9, <1>10, <1>11, <1>12,
       <1>13, <1>14, NextCases, Zenon

LEMMA TypeAlways == Spec => []TypeInv
  BY TypeInit, TypeStep, PTL DEF Spec

LEMMA WroteTyped ==
    ASSUME TypeInv, wrote \in PlanRef, [Next]_vars
    PROVE  wrote' \in PlanRef
  <1>1. CASE StepDenied \/ PersistStep
    <2>1. d.pc \in Chosen /\ wrote' = d.plan
      BY <1>1 DEF StepDenied, StepAdmitted, PersistStep, Chosen, Choosing
    <2> QED BY <2>1, TypeFacts DEF Call
  <1>2. CASE \E verdict \in BOOLEAN : PersistRound(verdict)
    <2>1. wrote' = d.latest
      BY <1>2 DEF PersistRound
    <2> QED BY <2>1, TypeFacts DEF Call
  <1>4. CASE PlanningStep \/ PlanningFailure
    BY <1>4, Zenon DEF PlanningStep, PlanningFailure, PlanningFails
  <1>5. CASE \E a \in Planner : InsertPlan(a)
    BY <1>5, Zenon DEF InsertPlan
  <1>6. CASE \/ StartRun \/ Loop \/ Select \/ StepRefused \/ StepAllowed
             \/ PrepareRound \/ RunRound \/ Crash
    BY <1>6, Zenon DEF StartRun, Loop, Select, StepRefused, StepAllowed, PrepareRound,
                       RunRound, Crash
  <1>7. CASE \E raw, verdict \in BOOLEAN : RunTool(raw, verdict)
    <2>1. PICK raw, verdict \in BOOLEAN : RunTool(raw, verdict)
      BY <1>7
    <2>2. wrote' = wrote
      BY <2>1 DEF RunTool
    <2> QED BY <2>2
  <1>8. CASE \E p \in Stored, s \in Step : BackoffElapses(p, s)
    BY <1>8, Zenon DEF BackoffElapses
  <1>9. CASE UNCHANGED vars
    BY <1>9 DEF vars
  <1> QED BY <1>1, <1>2, <1>4, <1>5, <1>6, <1>7, <1>8, <1>9, NextCases, Zenon

(* Every variable keeps its type, and a plan reference of the session      *)
(* names a stored plan (plan_identity.go:45).                              *)
THEOREM TypeCorrect == Spec => []TypeOK
  <1>1. TypeInv /\ wrote \in PlanRef => TypeOK
    BY DEF TypeInv, Typed, TypeOK, PlanningSet, Reason
  <1>2. Init => wrote \in PlanRef
    BY DEF Init, PlanRef
  <1>3. TypeInv /\ wrote \in PlanRef /\ [Next]_vars => (wrote \in PlanRef)'
    BY WroteTyped
  <1> QED BY <1>1, <1>2, <1>3, TypeAlways, PTL DEF Spec

(* However many planners read a revision before they insert, the revisions *)
(* of a session are 1, 2, ... without gap or duplicate                     *)
(* (planrepo/repo.go:27).                                                  *)
THEOREM RevisionsAreDense == Spec => []RevisionsDense
  <1>1. TypeInv => RevisionsDense
    <2>1. SUFFICES ASSUME TypeInv PROVE RevisionsDense
      OBVIOUS
    <2>2. PICK n \in 0..MaxPlans : /\ n \in Nat /\ Dense(plans, n) /\ MaxPlans \in Nat
                                   /\ Stored = 1..n /\ Cardinality(Stored) = n
      BY <2>1, TypeFacts
    <2>3. \A p \in Stored : plans[p].rev = p
      BY <2>2 DEF Dense, PlanId
    <2> QED BY <2>2, <2>3 DEF RevisionsDense
  <1> QED BY <1>1, TypeAlways, PTL

----------------------------------------------------------------------------
(* Attempts.                                                               *)

LEMMA QuietCopy ==
    ASSUME NEW c, NEW ps, c.pc \in {"idle", "loop", "plan", "select"}
    PROVE  CopyGood(c, ps) /\ \A p, s : ~Owed(c, p, s)
  BY DEF CopyGood, Owed, InRound

LEMMA AttemptQuiet ==
    ASSUME AttemptInv, TypeInv', UNCHANGED <<plans, invoked, crashes>>,
           d.pc \notin {"persist", "gather"},
           d'.pc \in {"idle", "loop", "plan", "select"}, MarkGood(d', plans)
    PROVE  AttemptInv'
  <1>1. CopyGood(d', plans) /\ \A p, s : ~Owed(d', p, s)
    BY QuietCopy
  <1>2. \A p, s : ~Owed(d, p, s)
    BY DEF Owed
  <1>3. CallsCounted(invoked, plans, d', crashes)
    BY <1>1, <1>2 DEF AttemptInv, CallsCounted
  <1> QED BY <1>1, <1>3 DEF AttemptInv

(* Nothing that was used up is given back.                                 *)
Grows(ps, qs) ==
    \A p \in PlanId : /\ ps[p].rev # 0 => qs[p].rev # 0
                      /\ \A s \in Step : ps[p].steps[s].attempt <= qs[p].steps[s].attempt

LEMMA AttemptTypes ==
    ASSUME NEW ps \in [PlanId -> PlanRecord]
    PROVE  \A p \in PlanId, s \in Step : ps[p].steps[s].attempt \in Nat
  BY DEF PlanRecord, DriverStep

LEMMA MarkKept ==
    ASSUME NEW ps \in [PlanId -> PlanRecord], NEW qs \in [PlanId -> PlanRecord],
           Grows(ps, qs), NEW m \in Budget
    PROVE  /\ Behind(m, ps) => Behind(m, qs)
           /\ Ahead(m, ps) => Ahead(m, qs)
  <1>1. \A p \in PlanId, s \in Step : /\ m.attempts[p][s] \in Nat
                                      /\ ps[p].steps[s].attempt \in Nat
                                      /\ qs[p].steps[s].attempt \in Nat
    BY AttemptTypes DEF Budget
  <1>2. m.stored \subseteq PlanId
    BY DEF Budget
  <1>3. \A x, y, z \in Nat : (x <= y /\ y <= z => x <= z) /\ (x < y /\ y <= z => x < z)
    OBVIOUS
  <1>4. ASSUME Behind(m, ps) PROVE Behind(m, qs)
    BY <1>1, <1>2, <1>3, <1>4 DEF Behind, Grows
  <1>5. ASSUME Ahead(m, ps) PROVE Ahead(m, qs)
    BY <1>1, <1>2, <1>3, <1>5 DEF Ahead, Grows
  <1> QED BY <1>4, <1>5

(* Attempts of the steps W of plan p are written: every tool call that was *)
(* not accounted for is now.                                               *)
LEMMA AttemptWrite ==
    ASSUME AttemptInv, TypeInv', UNCHANGED <<invoked, crashes>>,
           plans' \in [PlanId -> PlanRecord], SameRevisions(plans, plans'),
           NEW p \in PlanId, plans[p].rev # 0, NEW W \in SUBSET Step, W # {},
           \A s \in W : /\ Counted(plans'[p].steps[s], plans[p].steps[s])
                        /\ plans[p].steps[s].attempt < allowedAttempts(s),
           \A s \in Step \ W : plans'[p].steps[s] = plans[p].steps[s],
           \A q \in PlanId \ {p} : plans'[q] = plans[q],
           \A q \in PlanId, s \in Step : Owed(d, q, s) => q = p /\ s \in W,
           d'.pc \in {"idle", "loop"}, d'.mark \in {{}, d.mark}
    PROVE  AttemptInv'
  <1>1. plans \in [PlanId -> PlanRecord] /\ d \in Call /\ crashes \in 0..MaxCrashes
        /\ invoked \in [PlanId -> [Step -> Nat]]
    BY TypeFacts DEF AttemptInv
  <1>2. \A q \in PlanId, s \in Step :
          /\ plans[q].steps[s].attempt \in Nat /\ plans'[q].steps[s].attempt \in Nat
          /\ invoked[q][s] \in Nat /\ allowedAttempts(s) \in Nat
    BY <1>1, AttemptTypes, AllowedAttempts
  <1>3. \A q \in PlanId, s \in Step : StepGood(s, plans'[q].steps[s])
    <2>1. \A s \in W : StepGood(s, plans'[p].steps[s])
      <3>1. SUFFICES ASSUME NEW s \in W PROVE StepGood(s, plans'[p].steps[s])
        OBVIOUS
      <3>2. plans'[p].steps[s].attempt <= allowedAttempts(s)
        <4>1. \A x, y, z \in Nat : x = y + 1 /\ y < z => x <= z
          OBVIOUS
        <4> QED BY <1>2, <4>1 DEF Counted
      <3> QED BY <3>2 DEF StepGood, Counted
    <2> QED BY <2>1 DEF AttemptInv
  <1>4. \A q \in PlanId : plans'[q].rev = 0 => plans'[q].steps = FreshSteps
    BY DEF AttemptInv, SameRevisions
  <1>5. CopyGood(d', plans') /\ \A q, s : ~Owed(d', q, s)
    BY QuietCopy
  <1>6. CallsCounted(invoked, plans', d', crashes)
    <2>1. SUFFICES ASSUME NEW q \in PlanId, NEW s \in Step
                   PROVE  invoked[q][s] <= plans'[q].steps[s].attempt + crashes
      BY <1>1, <1>2, <1>5, DriverAssumption DEF CallsCounted
    <2>2. invoked[q][s] <= plans[q].steps[s].attempt + crashes
                             + (IF Owed(d, q, s) THEN 1 ELSE 0)
      BY DEF AttemptInv, CallsCounted
    <2>3. crashes \in Nat
      BY <1>1, DriverAssumption
    <2>4. CASE q = p /\ s \in W
      <3>1. plans'[q].steps[s].attempt = plans[q].steps[s].attempt + 1
        BY <2>4 DEF Counted
      <3> QED BY <1>2, <2>2, <2>3, <3>1
    <2>5. CASE ~(q = p /\ s \in W)
      <3>1. plans'[q].steps[s] = plans[q].steps[s] /\ ~Owed(d, q, s)
        BY <2>5
      <3> QED BY <1>2, <2>2, <2>3, <3>1
    <2> QED BY <2>4, <2>5
  <1>7. MarkGood(d', plans')
    <2>1. SUFFICES ASSUME NEW m \in d'.mark PROVE Behind(m, plans') /\ Ahead(m, plans')
      BY DEF MarkGood
    <2>2. m \in d.mark /\ m \in Budget /\ Behind(m, plans)
      BY <1>1, <2>1 DEF AttemptInv, MarkGood, Call
    <2>3. Grows(plans, plans')
      <3>1. \A s \in W : plans[p].steps[s].attempt <= plans'[p].steps[s].attempt
        BY <1>2 DEF Counted
      <3>2. \A s \in Step \ W : plans[p].steps[s].attempt <= plans'[p].steps[s].attempt
        BY <1>2
      <3>3. \A q \in PlanId \ {p}, s \in Step :
              plans[q].steps[s].attempt <= plans'[q].steps[s].attempt
        BY <1>2
      <3> QED BY <3>1, <3>2, <3>3 DEF Grows, SameRevisions
    <2>4. PICK s \in W : TRUE
      OBVIOUS
    <2>5. m.attempts[p][s] < plans'[p].steps[s].attempt
      <3>1. /\ m.attempts[p][s] \in Nat
            /\ m.attempts[p][s] <= plans[p].steps[s].attempt
            /\ plans'[p].steps[s].attempt = plans[p].steps[s].attempt + 1
        BY <2>2, <2>4 DEF Budget, Behind, Counted
      <3> QED BY <1>2, <2>4, <3>1
    <2> QED BY <1>1, <2>2, <2>3, <2>4, <2>5, MarkKept DEF Ahead
  <1> QED BY <1>3, <1>4, <1>5, <1>6, <1>7 DEF AttemptInv

LEMMA NoMark ==
    ASSUME NEW pc, NEW p, NEW ps, NEW c, Bare(c, pc, p, {})
    PROVE  MarkGood(c, ps)
  BY DEF Bare, MarkGood

LEMMA AttemptInit ==
    ASSUME Init
    PROVE  AttemptInv
  <1>1. TypeInv
    BY TypeInit
  <1>2. \A p \in PlanId : plans[p].steps = FreshSteps
    BY DEF Init, AbsentPlan
  <1>3. \A s \in Step : /\ FreshSteps[s].status = "pending" /\ FreshSteps[s].attempt = 0
    BY DEF FreshSteps
  <1>4. \A p \in PlanId, s \in Step : StepGood(s, plans[p].steps[s])
    <2>1. SUFFICES ASSUME NEW p \in PlanId, NEW s \in Step
                   PROVE  StepGood(s, plans[p].steps[s])
      OBVIOUS
    <2>2. 0 <= allowedAttempts(s)
      BY AllowedAttempts
    <2>3. plans[p].steps[s].status = "pending" /\ plans[p].steps[s].attempt = 0
      BY <1>2, <1>3
    <2> QED BY <2>2, <2>3 DEF StepGood
  <1>5. d.pc = "idle" /\ d.mark = {}
    BY NoCallTyped DEF Init
  <1>6. CopyGood(d, plans) /\ \A p, s : ~Owed(d, p, s)
    BY <1>5, QuietCopy
  <1>7. CallsCounted(invoked, plans, d, crashes)
    <2>1. \A p \in PlanId, s \in Step : /\ invoked[p][s] = 0 /\ crashes = 0
                                        /\ plans[p].steps[s].attempt = 0
      <3>1. \A p \in PlanId, s \in Step : invoked[p][s] = 0 /\ crashes = 0
        BY DEF Init
      <3> QED BY <1>2, <1>3, <3>1
    <2> QED BY <1>6, <2>1 DEF CallsCounted
  <1>8. MarkGood(d, plans)
    BY <1>5 DEF MarkGood
  <1> QED BY <1>1, <1>2, <1>4, <1>6, <1>7, <1>8 DEF AttemptInv

LEMMA AttemptInsert ==
    ASSUME AttemptInv, TypeInv', NEW a \in Planner, InsertPlan(a)
    PROVE  AttemptInv'
  <1>0. plans \in [PlanId -> PlanRecord] /\ d \in Call
    BY TypeFacts DEF AttemptInv
  <1>1. PICK n \in 0..MaxPlans :
             /\ n + 1 \in 1..MaxPlans
             /\ Dense(plans, n) /\ Dense(plans', n + 1) /\ Frame(d, n)
             /\ plans' \in [PlanId -> PlanRecord]
             /\ \A p \in PlanId \ {n + 1} : plans'[p] = plans[p]
             /\ plans'[n + 1].steps = plans[n + 1].steps
             /\ plans[n + 1].rev = 0
             /\ IF a # "driver" THEN d' = d
                ELSE /\ d.pc = "plan" /\ d' \in Call /\ SameFrame(d, d')
                     /\ \/ d'.pc = "loop"
                        \/ d'.pc = "select" /\ d'.latest = n + 1
    BY InsertForm DEF AttemptInv
  <1>2. UNCHANGED <<invoked, crashes>>
    BY DEF InsertPlan
  <1>3. \A p \in PlanId : plans'[p].steps = plans[p].steps
    BY <1>1
  <1>4. /\ n \in Nat /\ n + 1 \in PlanId /\ plans'[n + 1].rev # 0
    BY <1>1, DriverAssumption DEF PlanId, Dense
  <1>5. Grows(plans, plans')
    BY <1>0, <1>1, <1>3, <1>4, AttemptTypes DEF Grows
  <1>6. \A p \in PlanId : plans'[p].rev = 0 => plans'[p].steps = FreshSteps
    BY <1>1, <1>3, <1>4 DEF AttemptInv
  <1>7. CopyGood(d', plans') /\ CallsCounted(invoked, plans', d', crashes)
    <2>1. CASE a # "driver"
      <3>1. d' = d
        BY <1>1, <2>1
      <3>2. CallsCounted(invoked, plans', d', crashes)
        BY <1>3, <3>1 DEF AttemptInv, CallsCounted
      <3>3. /\ d.pc \in Chosen => d.plan \in PlanId
            /\ d.pc \in Choosing => d.latest \in PlanId
        BY <1>0, <1>1, <1>4, DriverAssumption DEF Frame, PlanId
      <3>4. CopyGood(d', plans')
        BY <1>3, <3>1, <3>3 DEF AttemptInv, CopyGood, Choosing, Chosen, InRound
      <3> QED BY <3>2, <3>4
    <2>2. CASE a = "driver"
      <3>1. d.pc = "plan" /\ d'.pc \in {"loop", "select"}
        BY <1>1, <2>2
      <3>2. CopyGood(d', plans') /\ \A p, s : ~Owed(d', p, s) /\ ~Owed(d, p, s)
        BY <3>1, QuietCopy
      <3> QED BY <1>3, <3>2 DEF AttemptInv, CallsCounted
    <2> QED BY <2>1, <2>2
  <1>8. MarkGood(d', plans')
    <2>1. SUFFICES ASSUME NEW m \in d'.mark
                   PROVE  Behind(m, plans') /\ (d'.pc = "loop" => Ahead(m, plans'))
      BY DEF MarkGood
    <2>2. d'.mark = d.mark
      BY <1>1 DEF SameFrame
    <2>3. m \in Budget /\ Behind(m, plans) /\ (d.pc = "loop" => Ahead(m, plans))
      BY <1>0, <2>1, <2>2 DEF Call, AttemptInv, MarkGood
    <2>4. Behind(m, plans') /\ (d.pc = "loop" => Ahead(m, plans'))
      BY <1>0, <1>1, <1>5, <2>3, MarkKept
    <2>5. CASE a # "driver"
      BY <1>1, <2>4, <2>5
    <2>6. CASE a = "driver"
      <3>1. n + 1 \notin m.stored
        BY <1>1, <2>3 DEF Behind
      <3> QED BY <1>4, <2>4, <3>1 DEF Ahead
    <2> QED BY <2>5, <2>6
  <1>9. \A p \in PlanId, s \in Step : StepGood(s, plans'[p].steps[s])
    BY <1>3 DEF AttemptInv
  <1> QED BY <1>2, <1>6, <1>7, <1>8, <1>9 DEF AttemptInv

LEMMA AttemptLoop ==
    ASSUME AttemptInv, TypeInv', Loop
    PROVE  AttemptInv'
  <1>1. plans \in [PlanId -> PlanRecord]
    BY TypeFacts DEF AttemptInv
  <1>2. /\ d.pc = "loop" /\ d'.mark = {Spent} /\ d'.pc \in {"plan", "select"}
        /\ UNCHANGED <<plans, invoked, crashes>>
    BY LoopForm DEF AttemptInv
  <1>3. Behind(Spent, plans)
    <2>1. \A p \in Stored : plans[p].rev # 0
      BY DEF Stored
    <2>2. \A p \in PlanId, s \in Step : plans[p].steps[s].attempt <= plans[p].steps[s].attempt
      BY <1>1, AttemptTypes
    <2> QED BY <1>1, <2>1, <2>2, SpentTyped DEF Behind
  <1>4. MarkGood(d', plans)
    BY <1>2, <1>3 DEF MarkGood
  <1> QED BY <1>2, <1>4, AttemptQuiet

(* The members of a round have an attempt left.                            *)
LEMMA AttemptSelect ==
    ASSUME AttemptInv, TypeInv', Select
    PROVE  AttemptInv'
  <1>1. PICK n \in 0..MaxPlans : /\ n \in Nat /\ Frame(d, n) /\ 1..n \subseteq PlanId
                                 /\ plans \in [PlanId -> PlanRecord]
    BY TypeFacts DEF AttemptInv
  <1>2. TypeInv
    BY DEF AttemptInv
  <1>3. d.pc = "select" /\ UNCHANGED <<plans, invoked, crashes>>
    BY <1>2, SelectForm
  <1>4. d.latest \in PlanId
    BY <1>1, <1>3 DEF Frame, Choosing
  <1>5. CASE d'.pc \in {"idle", "plan"}
    <2>1. d'.mark \in {{}, d.mark}
      BY <1>2, <1>5, SelectForm DEF Bare
    <2>2. MarkGood(d', plans)
      BY <1>5, <2>1 DEF MarkGood, AttemptInv
    <2> QED BY <1>3, <1>5, <2>2, AttemptQuiet
  <1>6. CASE d'.pc \notin {"idle", "plan"}
    <2>1. PICK ps \in SelectedStep :
             /\ d'.latest = d.latest /\ d'.mark = d.mark
             /\ d'.plan = ps[1] /\ d'.step = ps[2]
             /\ d'.spec = plans[ps[1]].steps[ps[2]]
             /\ d'.group = InGroup(fanoutRoundForSelection(ps[1], ps[2]))
             /\ d'.pc \in {"round", "step"}
      BY <1>2, <1>6, SelectForm DEF Bare
    <2>2. \A m \in Fanout : d'.group[m] # "out" =>
             fanoutStepRunnable(m, plans[d.latest].steps[m])
      BY <2>1, FanoutAssumption DEF InGroup, fanoutRoundForSelection
    <2>3. ASSUME NEW m \in Fanout, fanoutStepRunnable(m, plans[d.latest].steps[m])
          PROVE  plans[d.latest].steps[m].attempt < allowedAttempts(m)
      <3>1. m \in Step
        BY FanoutAssumption
      <3>2. StepGood(m, plans[d.latest].steps[m])
        BY <1>4, <3>1 DEF AttemptInv
      <3>3. 0 < allowedAttempts(m)
        BY <3>1, AllowedAttempts
      <3> QED BY <2>3, <3>2, <3>3 DEF StepGood, fanoutStepRunnable
    <2>4. CopyGood(d', plans)
      BY <2>1, <2>2, <2>3 DEF CopyGood, InRound
    <2>5. \A p, s : ~Owed(d', p, s) /\ ~Owed(d, p, s)
      BY <1>3, <2>1 DEF Owed
    <2>6. CallsCounted(invoked, plans, d', crashes)
      BY <2>5 DEF AttemptInv, CallsCounted
    <2>7. MarkGood(d', plans)
      BY <2>1 DEF AttemptInv, MarkGood
    <2> QED BY <1>3, <2>4, <2>6, <2>7 DEF AttemptInv
  <1> QED BY <1>5, <1>6

LEMMA AttemptDenied ==
    ASSUME AttemptInv, TypeInv', StepDenied
    PROVE  AttemptInv'
  <1>0. TypeInv
    BY DEF AttemptInv
  <1>1. PICK n \in 0..MaxPlans : /\ n \in Nat /\ MaxPlans \in Nat /\ Frame(d, n) /\ 1..n \subseteq PlanId
                                 /\ Dense(plans, n) /\ plans \in [PlanId -> PlanRecord]
    BY <1>0, TypeFacts
  <1>2. /\ d.pc = "step" /\ d.spec.attempt < allowedAttempts(d.step)
        /\ DeniedSpec(d) \in DriverStep
        /\ DeniedSpec(d).attempt = d.spec.attempt + 1
        /\ DeniedSpec(d).status = "failed"
        /\ plans' \in [PlanId -> PlanRecord] /\ SameRevisions(plans, plans')
        /\ plans'[d.plan].steps = [plans[d.plan].steps EXCEPT ![d.step] = DeniedSpec(d)]
        /\ \A q \in PlanId \ {d.plan} : plans'[q] = plans[q]
        /\ d'.pc = "idle" /\ d'.mark = {}
        /\ UNCHANGED <<invoked, crashes>>
    BY <1>0, StepDeniedForm DEF Bare
  <1>3. d.plan \in 1..n /\ d.step \in Step
    BY <1>1, <1>2 DEF Frame, Chosen, Choosing
  <1>4. d.plan \in PlanId /\ plans[d.plan].rev # 0
    BY <1>1, <1>3 DEF Dense
  <1>5. d.spec.attempt = plans[d.plan].steps[d.step].attempt
    BY <1>2 DEF AttemptInv, CopyGood
  <1>6. plans[d.plan].steps \in [Step -> DriverStep]
    BY <1>1, <1>4 DEF PlanRecord
  <1>7. /\ plans'[d.plan].steps[d.step] = DeniedSpec(d)
        /\ \A s \in Step \ {d.step} : plans'[d.plan].steps[s] = plans[d.plan].steps[s]
    BY <1>2, <1>3, <1>6
  <1>8. Counted(plans'[d.plan].steps[d.step], plans[d.plan].steps[d.step])
    BY <1>2, <1>5, <1>7 DEF Counted
  <1>9. \A p \in PlanId, s \in Step : ~Owed(d, p, s)
    BY <1>2 DEF Owed
  <1> DEFINE W == {d.step}
  <1>10. W \in SUBSET Step /\ W # {}
         /\ \A s \in W : /\ Counted(plans'[d.plan].steps[s], plans[d.plan].steps[s])
                         /\ plans[d.plan].steps[s].attempt < allowedAttempts(s)
    BY <1>2, <1>3, <1>5, <1>8
  <1>11. \A s \in Step \ W : plans'[d.plan].steps[s] = plans[d.plan].steps[s]
    BY <1>7
  <1> HIDE DEF W
  <1> QED BY <1>2, <1>4, <1>9, <1>10, <1>11, AttemptWrite

LEMMA AttemptPersist ==
    ASSUME AttemptInv, TypeInv', PersistStep
    PROVE  AttemptInv'
  <1>0. TypeInv
    BY DEF AttemptInv
  <1>1. PICK n \in 0..MaxPlans : /\ n \in Nat /\ MaxPlans \in Nat /\ Frame(d, n) /\ 1..n \subseteq PlanId
                                 /\ Dense(plans, n) /\ plans \in [PlanId -> PlanRecord]
                                 /\ d \in Call
    BY <1>0, TypeFacts
  <1>2. /\ d.pc = "persist"
        /\ plans' \in [PlanId -> PlanRecord] /\ SameRevisions(plans, plans')
        /\ plans'[d.plan].steps = After(d, plans)
        /\ \A q \in PlanId \ {d.plan} : plans'[q] = plans[q]
        /\ d'.pc \in {"idle", "loop"} /\ d'.mark \in {{}, d.mark}
        /\ UNCHANGED <<invoked, crashes>>
    <2>1. d'.pc \in {"idle", "loop"} /\ d'.mark \in {{}, d.mark}
      BY <1>0, PersistStepForm DEF Bare
    <2> QED BY <1>0, <2>1, PersistStepForm
  <1>3. d.plan \in 1..n /\ d.step \in Step
    BY <1>1, <1>2 DEF Frame, Chosen, Choosing
  <1>4. d.plan \in PlanId /\ plans[d.plan].rev # 0
    BY <1>1, <1>3 DEF Dense
  <1>5. /\ d.spec.attempt = plans[d.plan].steps[d.step].attempt + 1
        /\ d.spec.attempt <= allowedAttempts(d.step)
        /\ d.spec.status \in {"completed", "failed"}
        /\ d.spec \in DriverStep
    BY <1>1, <1>2 DEF AttemptInv, CopyGood, Call
  <1>6. plans[d.plan].steps \in [Step -> DriverStep]
    BY <1>1, <1>4 DEF PlanRecord
  <1>7. /\ plans'[d.plan].steps[d.step] = d.spec
        /\ \A s \in Step \ {d.step} : plans'[d.plan].steps[s] = plans[d.plan].steps[s]
    BY <1>2, <1>3, <1>6 DEF After
  <1>8. Counted(plans'[d.plan].steps[d.step], plans[d.plan].steps[d.step])
    BY <1>5, <1>7 DEF Counted
  <1>9. \A p \in PlanId, s \in Step : Owed(d, p, s) => p = d.plan /\ s = d.step
    BY <1>2 DEF Owed
  <1>10. plans[d.plan].steps[d.step].attempt < allowedAttempts(d.step)
    <2>1. \A x, y \in Nat : x + 1 <= y => x < y
      OBVIOUS
    <2>2. plans[d.plan].steps[d.step].attempt \in Nat /\ allowedAttempts(d.step) \in Nat
      BY <1>1, <1>3, <1>4, AttemptTypes, AllowedAttempts
    <2>3. plans[d.plan].steps[d.step].attempt + 1 <= allowedAttempts(d.step)
      BY <1>5
    <2> QED BY <2>1, <2>2, <2>3
  <1> DEFINE W == {d.step}
  <1>11. W \in SUBSET Step /\ W # {}
         /\ \A s \in W : /\ Counted(plans'[d.plan].steps[s], plans[d.plan].steps[s])
                         /\ plans[d.plan].steps[s].attempt < allowedAttempts(s)
    BY <1>3, <1>8, <1>10
  <1>12. /\ \A s \in Step \ W : plans'[d.plan].steps[s] = plans[d.plan].steps[s]
         /\ \A p \in PlanId, s \in Step : Owed(d, p, s) => p = d.plan /\ s \in W
    BY <1>7, <1>9
  <1> HIDE DEF W
  <1> QED BY <1>2, <1>4, <1>11, <1>12, AttemptWrite

LEMMA AttemptRound ==
    ASSUME AttemptInv, TypeInv', NEW verdict \in BOOLEAN, PersistRound(verdict)
    PROVE  AttemptInv'
  <1>0. TypeInv
    BY DEF AttemptInv
  <1>1. PICK n \in 0..MaxPlans : /\ n \in Nat /\ MaxPlans \in Nat /\ Frame(d, n) /\ 1..n \subseteq PlanId
                                 /\ Dense(plans, n) /\ plans \in [PlanId -> PlanRecord]
    BY <1>0, TypeFacts
  <1>2. /\ d.pc = "gather" /\ Round # {}
        /\ plans' \in [PlanId -> PlanRecord] /\ SameRevisions(plans, plans')
        /\ RoundForm
        /\ d'.pc \in {"idle", "loop"} /\ d'.mark \in {{}, d.mark}
        /\ UNCHANGED <<invoked, crashes>>
    <2>1. d'.pc \in {"idle", "loop"} /\ d'.mark \in {{}, d.mark}
      BY <1>0, PersistRoundForm, Zenon DEF Bare
    <2> QED BY <1>0, <2>1, PersistRoundForm, Zenon
  <1>3. d.latest \in 1..n
    BY <1>1, <1>2 DEF Frame, Choosing
  <1>4. d.latest \in PlanId /\ plans[d.latest].rev # 0
    BY <1>1, <1>3 DEF Dense
  <1>5. /\ \A s \in Round : Counted(plans'[d.latest].steps[s], plans[d.latest].steps[s])
        /\ \A s \in Step \ Round : plans'[d.latest].steps[s] = plans[d.latest].steps[s]
        /\ \A q \in PlanId \ {d.latest} : plans'[q] = plans[q]
    BY <1>2, RoundIsFinite DEF RoundForm
  <1>6. \A s \in Round : plans[d.latest].steps[s].attempt < allowedAttempts(s)
    BY <1>2, RoundIsFinite DEF AttemptInv, CopyGood, InRound, Round
  <1>7. \A p \in PlanId, s \in Step : Owed(d, p, s) => p = d.latest /\ s \in Round
    BY <1>2 DEF Owed, Round
  <1>8. Round \in SUBSET Step
    BY RoundIsFinite
  <1> QED BY <1>2, <1>4, <1>5, <1>6, <1>7, <1>8, AttemptWrite

LEMMA AttemptAllowed ==
    ASSUME AttemptInv, TypeInv', StepAllowed
    PROVE  AttemptInv'
  <1>0. TypeInv
    BY DEF AttemptInv
  <1>1. d \in Call /\ plans \in [PlanId -> PlanRecord]
    BY <1>0, TypeFacts
  <1>2. /\ d.pc = "step" /\ d.spec.attempt < allowedAttempts(d.step)
        /\ d'.pc = "tool" /\ d'.spec = tried(d.spec)
        /\ d'.plan = d.plan /\ d'.step = d.step /\ d'.mark = d.mark
        /\ UNCHANGED <<plans, invoked, crashes>>
    BY <1>0, StepAllowedForm
  <1>3. d.spec \in DriverStep /\ d.spec.attempt \in Nat
    BY <1>1 DEF Call, DriverStep
  <1>4. d'.spec.attempt = d.spec.attempt + 1
    BY <1>2, <1>3, TriedForm
  <1>5. d.step \in Step
    BY <1>0, <1>2, TypeFacts DEF Frame, Chosen, Choosing
  <1>6. d.spec.attempt + 1 <= allowedAttempts(d.step)
    BY <1>2, <1>3, <1>5, AllowedAttempts
  <1>7. CopyGood(d', plans)
    BY <1>2, <1>4, <1>6 DEF AttemptInv, CopyGood, InRound
  <1>8. \A p, s : ~Owed(d', p, s) /\ ~Owed(d, p, s)
    BY <1>2 DEF Owed
  <1>9. CallsCounted(invoked, plans, d', crashes)
    BY <1>8 DEF AttemptInv, CallsCounted
  <1>10. MarkGood(d', plans)
    BY <1>2 DEF AttemptInv, MarkGood
  <1> QED BY <1>2, <1>7, <1>9, <1>10 DEF AttemptInv

(* A tool call that is owed is one more than was accounted for.            *)
LEMMA OneMoreOwed ==
    ASSUME AttemptInv, invoked' \in [PlanId -> [Step -> Nat]],
           UNCHANGED <<plans, crashes>>,
           \A p \in PlanId, s \in Step : ~Owed(d, p, s),
           \A p \in PlanId, s \in Step :
             invoked'[p][s] <= invoked[p][s] + IF Owed(d', p, s) THEN 1 ELSE 0
    PROVE  CallsCounted(invoked', plans, d', crashes)
  <1>1. /\ invoked \in [PlanId -> [Step -> Nat]] /\ plans \in [PlanId -> PlanRecord]
        /\ crashes \in Nat
    BY TypeFacts, DriverAssumption DEF AttemptInv
  <1>2. SUFFICES ASSUME NEW p \in PlanId, NEW s \in Step
                 PROVE  invoked'[p][s] <= plans[p].steps[s].attempt + crashes
                                            + (IF Owed(d', p, s) THEN 1 ELSE 0)
    BY DEF CallsCounted
  <1>3. invoked[p][s] <= plans[p].steps[s].attempt + crashes
    BY <1>1, AttemptTypes DEF AttemptInv, CallsCounted
  <1>4. /\ invoked[p][s] \in Nat /\ invoked'[p][s] \in Nat
        /\ plans[p].steps[s].attempt \in Nat
    BY <1>1, AttemptTypes
  <1>5. CASE Owed(d', p, s)
    BY <1>1, <1>3, <1>4, <1>5
  <1>6. CASE ~Owed(d', p, s)
    BY <1>1, <1>3, <1>4, <1>6
  <1> QED BY <1>5, <1>6

LEMMA AttemptTool ==
    ASSUME AttemptInv, TypeInv', NEW raw \in BOOLEAN, NEW verdict \in BOOLEAN,
           RunTool(raw, verdict)
    PROVE  AttemptInv'
  <1>0. TypeInv
    BY DEF AttemptInv
  <1>1. d.pc = "tool"
    BY DEF RunTool
  <1>2. PICK n \in 0..MaxPlans : /\ n \in Nat /\ Dense(plans, n) /\ Frame(d, n)
    BY <1>0, TypeFacts
  <1>3. d.plan \in 1..n /\ n > 0
    BY <1>1, <1>2 DEF Frame, Chosen, Choosing
  <1>4. /\ d'.pc = "persist"
        /\ d'.plan = d.plan /\ d'.step = d.step /\ d'.mark = d.mark
        /\ d'.spec.attempt = d.spec.attempt
        /\ d'.spec.status \in {"completed", "failed"}
        /\ invoked' \in [PlanId -> [Step -> Nat]]
        /\ \A p \in PlanId, s \in Step :
             invoked'[p][s] <= invoked[p][s] + IF p = d.plan /\ s = d.step THEN 1 ELSE 0
        /\ UNCHANGED <<plans, crashes>>
    BY <1>0, <1>2, <1>3, RunToolForm, Zenon
  <1>5. CopyGood(d', plans)
    BY <1>1, <1>4 DEF AttemptInv, CopyGood, InRound
  <1>6. /\ \A p \in PlanId, s \in Step : ~Owed(d, p, s)
        /\ \A p \in PlanId, s \in Step : Owed(d', p, s) <=> (p = d.plan /\ s = d.step)
    BY <1>1, <1>4 DEF Owed
  <1>7. CallsCounted(invoked', plans, d', crashes)
    <2>1. \A p \in PlanId, s \in Step :
             invoked'[p][s] <= invoked[p][s] + IF Owed(d', p, s) THEN 1 ELSE 0
      BY <1>4, <1>6
    <2> QED BY <1>4, <1>6, <2>1, OneMoreOwed
  <1>8. MarkGood(d', plans)
    BY <1>4 DEF AttemptInv, MarkGood
  <1> QED BY <1>4, <1>5, <1>7, <1>8 DEF AttemptInv

LEMMA AttemptInRound ==
    ASSUME AttemptInv, TypeInv', PrepareRound \/ RunRound
    PROVE  AttemptInv'
  <1>0. TypeInv
    BY DEF AttemptInv
  <1>1. /\ d.pc \in {"round", "launch"} /\ d'.pc \in {"launch", "gather"}
        /\ d'.latest = d.latest /\ d'.mark = d.mark /\ SameRound(d, d')
        /\ UNCHANGED <<plans, crashes>>
    BY <1>0, PrepareRoundForm, RunRoundForm
  <1>2. CopyGood(d', plans)
    BY <1>1 DEF AttemptInv, CopyGood, InRound, SameRound
  <1>3. \A p \in PlanId, s \in Step : ~Owed(d, p, s)
    BY <1>1 DEF Owed
  <1>4. CASE PrepareRound
    <2>1. invoked' = invoked /\ \A p \in PlanId, s \in Step : ~Owed(d', p, s)
      BY <1>0, <1>4, PrepareRoundForm DEF Owed
    <2>2. CallsCounted(invoked, plans, d', crashes)
      BY <1>3, <2>1 DEF AttemptInv, CallsCounted
    <2>3. MarkGood(d', plans)
      BY <1>1 DEF AttemptInv, MarkGood
    <2> QED BY <1>1, <1>2, <2>1, <2>2, <2>3 DEF AttemptInv
  <1>5. CASE RunRound
    <2>1. CallsCounted(invoked', plans, d', crashes)
      BY <1>0, <1>1, <1>3, <1>5, RunRoundForm, OneMoreOwed
    <2>2. MarkGood(d', plans)
      BY <1>1 DEF AttemptInv, MarkGood
    <2> QED BY <1>1, <1>2, <2>1, <2>2 DEF AttemptInv
  <1> QED BY <1>4, <1>5

LEMMA AttemptCrash ==
    ASSUME AttemptInv, Crash
    PROVE  AttemptInv'
  <1>0. TypeInv
    BY DEF AttemptInv
  <1>1. /\ TypeInv' /\ Bare(d', "idle", d.judged, {})
        /\ crashes' = crashes + 1 /\ crashes \in Nat
        /\ UNCHANGED <<plans, invoked>>
    BY <1>0, CrashForm
  <1>2. d'.pc = "idle"
    BY <1>1 DEF Bare
  <1>3. CopyGood(d', plans) /\ \A p, s : ~Owed(d', p, s)
    BY <1>2, QuietCopy
  <1>4. CallsCounted(invoked, plans, d', crashes')
    <2>1. SUFFICES ASSUME NEW p \in PlanId, NEW s \in Step
                   PROVE  invoked[p][s] <= plans[p].steps[s].attempt + (crashes + 1)
      <3>1. plans \in [PlanId -> PlanRecord]
        BY <1>0, TypeFacts
      <3> QED BY <1>1, <1>3, <2>1, <3>1, AttemptTypes DEF CallsCounted
    <2>2. invoked[p][s] <= plans[p].steps[s].attempt + crashes
                             + (IF Owed(d, p, s) THEN 1 ELSE 0)
      BY DEF AttemptInv, CallsCounted
    <2>3. invoked[p][s] \in Nat /\ plans[p].steps[s].attempt \in Nat
      BY <1>0, TypeFacts, AttemptTypes
    <2>4. CASE Owed(d, p, s)
      BY <1>1, <2>2, <2>3, <2>4
    <2>5. CASE ~Owed(d, p, s)
      BY <1>1, <2>2, <2>3, <2>5
    <2> QED BY <2>4, <2>5
  <1>5. MarkGood(d', plans)
    BY <1>1, NoMark
  <1> QED BY <1>1, <1>3, <1>4, <1>5 DEF AttemptInv

LEMMA AttemptBackoff ==
    ASSUME AttemptInv, NEW p \in Stored, NEW s \in Step, BackoffElapses(p, s)
    PROVE  AttemptInv'
  <1>0. TypeInv
    BY DEF AttemptInv
  <1>1. /\ TypeInv'
        /\ plans' \in [PlanId -> PlanRecord] /\ SameRevisions(plans, plans')
        /\ p \in PlanId /\ plans[p].rev # 0
        /\ \A q \in PlanId : Alike(plans[q].steps, plans'[q].steps)
        /\ \A q \in PlanId \ {p} : plans'[q] = plans[q]
        /\ UNCHANGED <<d, invoked, crashes>>
    BY <1>0, BackoffForm
  <1>2. PICK n \in 0..MaxPlans : /\ n \in Nat /\ Frame(d, n) /\ 1..n \subseteq PlanId
                                 /\ d \in Call /\ plans \in [PlanId -> PlanRecord]
    BY <1>0, TypeFacts
  <1>3. \A q \in PlanId, r \in Step :
          /\ plans'[q].steps[r].attempt = plans[q].steps[r].attempt
          /\ plans'[q].steps[r].status = plans[q].steps[r].status
    BY <1>1 DEF Alike
  <1>4. \A q \in PlanId, r \in Step : StepGood(r, plans'[q].steps[r])
    BY <1>3 DEF AttemptInv, StepGood
  <1>5. \A q \in PlanId : plans'[q].rev = 0 => plans'[q].steps = FreshSteps
    BY <1>1 DEF AttemptInv, SameRevisions
  <1>6. CopyGood(d', plans')
    <2>1. /\ d.pc \in Chosen => d.plan \in PlanId /\ d.step \in Step
          /\ d.pc \in Choosing => d.latest \in PlanId
      BY <1>2 DEF Frame
    <2> QED BY <1>1, <1>3, <2>1, FanoutAssumption
            DEF AttemptInv, CopyGood, Choosing, Chosen, InRound
  <1>7. CallsCounted(invoked, plans', d', crashes)
    BY <1>1, <1>3 DEF AttemptInv, CallsCounted
  <1>8. MarkGood(d', plans')
    <2>1. Grows(plans, plans')
      BY <1>1, <1>2, <1>3, AttemptTypes DEF Grows, SameRevisions
    <2>2. d'.mark = d.mark /\ d'.pc = d.pc /\ d.mark \subseteq Budget
      BY <1>1, <1>2 DEF Call
    <2>3. \A m \in d.mark : Behind(m, plans') /\ (d.pc = "loop" => Ahead(m, plans'))
      BY <1>1, <1>2, <2>1, <2>2, MarkKept DEF AttemptInv, MarkGood
    <2> QED BY <2>2, <2>3 DEF MarkGood
  <1> QED BY <1>1, <1>4, <1>5, <1>6, <1>7, <1>8 DEF AttemptInv

(* What the actions that end or begin a call, or only plan, leave alone.   *)
LEMMA AttemptIdle ==
    ASSUME AttemptInv, TypeInv', PlanningStep \/ PlanningFailure \/ StartRun \/ StepRefused
    PROVE  AttemptInv'
  <1>0. TypeInv /\ d \in Call
    BY TypeFacts DEF AttemptInv
  <1>1. CASE PlanningStep
    BY <1>1 DEF PlanningStep, AttemptInv
  <1>2. CASE PlanningFailure
    <2>1. PICK a \in Planner : planning[a].pc # "idle" /\ PlanningFails(a)
      BY <1>2 DEF PlanningFailure
    <2>2. UNCHANGED <<plans, invoked, crashes>>
      BY <2>1 DEF PlanningFails
    <2>3. CASE a = "driver"
      <3>1. d.pc = "plan"
        BY <1>0, <2>1, <2>3 DEF TypeInv
      <3>2. Bare(d', "idle", d.judged, {})
        BY <1>0, <2>1, <2>3, ReturnForm DEF PlanningFails
      <3>3. MarkGood(d', plans) /\ d'.pc = "idle"
        BY <3>2, NoMark DEF Bare
      <3> QED BY <2>2, <3>1, <3>3, AttemptQuiet
    <2>4. CASE a # "driver"
      <3>1. d' = d
        BY <2>1, <2>4 DEF PlanningFails
      <3> QED BY <2>2, <3>1 DEF AttemptInv
    <2> QED BY <2>3, <2>4
  <1>3. CASE StartRun
    <2>1. /\ d.pc = "idle" /\ Bare(d', "loop", NoPlan, {})
          /\ UNCHANGED <<plans, invoked, crashes>>
      BY <1>0, <1>3, StartRunForm
    <2>2. MarkGood(d', plans) /\ d'.pc = "loop"
      BY <2>1, NoMark DEF Bare
    <2> QED BY <2>1, <2>2, AttemptQuiet
  <1>4. CASE StepRefused
    <2>1. d.pc = "step" /\ Bare(d', "idle", d.judged, {})
      BY <1>0, <1>4, StepRefusedType
    <2>2. UNCHANGED <<plans, invoked, crashes>>
      BY <1>4 DEF StepRefused
    <2>3. MarkGood(d', plans) /\ d'.pc = "idle"
      BY <2>1, NoMark DEF Bare
    <2> QED BY <2>1, <2>2, <2>3, AttemptQuiet
  <1> QED BY <1>1, <1>2, <1>3, <1>4

LEMMA AttemptStep ==
    ASSUME AttemptInv, [Next]_vars
    PROVE  AttemptInv'
  <1>0. TypeInv'
    BY TypeStep DEF AttemptInv
  <1>1. CASE PlanningStep \/ PlanningFailure \/ StartRun \/ StepRefused
    BY <1>0, <1>1, AttemptIdle
  <1>2. CASE \E a \in Planner : InsertPlan(a)
    BY <1>0, <1>2, AttemptInsert
  <1>3. CASE Loop
    BY <1>0, <1>3, AttemptLoop
  <1>4. CASE Select
    BY <1>0, <1>4, AttemptSelect
  <1>5. CASE StepDenied
    BY <1>0, <1>5, AttemptDenied
  <1>6. CASE StepAllowed
    BY <1>0, <1>6, AttemptAllowed
  <1>7. CASE \E raw, verdict \in BOOLEAN : RunTool(raw, verdict)
    BY <1>0, <1>7, AttemptTool, Zenon
  <1>8. CASE PersistStep
    BY <1>0, <1>8, AttemptPersist
  <1>9. CASE PrepareRound \/ RunRound
    BY <1>0, <1>9, AttemptInRound
  <1>10. CASE \E verdict \in BOOLEAN : PersistRound(verdict)
    BY <1>0, <1>10, AttemptRound, Zenon
  <1>11. CASE Crash
    BY <1>11, AttemptCrash
  <1>12. CASE \E p \in Stored, s \in Step : BackoffElapses(p, s)
    BY <1>12, AttemptBackoff
  <1>13. CASE UNCHANGED vars
    BY <1>0, <1>13 DEF vars, AttemptInv
  <1> QED
    BY <1>1, <1>2, <1>3, <1>4, <1>5, <1>6, <1>7, <1>8, <1>9, <1>10, <1>11, <1>12,
       <1>13, NextCases, Zenon

LEMMA AttemptAlways == Spec => []AttemptInv
  BY AttemptInit, AttemptStep, PTL DEF Spec

(* Whatever the plan, the group, the strategies and the budgets, a step's  *)
(* tool is called at most as often as its retry budget allows, and once    *)
(* more for every run that died before its attempt was stored              *)
(* (runner.go:296, fanout_scheduler.go:309).                               *)
THEOREM ToolCallsAreBounded == Spec => []ToolCallsBounded
  <1>1. AttemptInv => ToolCallsBounded
    <2>1. SUFFICES ASSUME AttemptInv, NEW p \in PlanId, NEW s \in Step
                   PROVE  invoked[p][s] <= allowedAttempts(s) + crashes
      BY DEF ToolCallsBounded
    <2>2. invoked[p][s] <= plans[p].steps[s].attempt + crashes
                             + (IF Owed(d, p, s) THEN 1 ELSE 0)
      BY <2>1 DEF AttemptInv, CallsCounted
    <2>3. /\ invoked[p][s] \in Nat /\ plans[p].steps[s].attempt \in Nat
          /\ allowedAttempts(s) \in Nat /\ crashes \in Nat
      <3>1. /\ invoked \in [PlanId -> [Step -> Nat]] /\ plans \in [PlanId -> PlanRecord]
            /\ crashes \in 0..MaxCrashes
        BY <2>1, TypeFacts DEF AttemptInv
      <3> QED BY <2>1, <3>1, AttemptTypes, AllowedAttempts, DriverAssumption
    <2>4. CASE Owed(d, p, s)
      <3>1. CASE d.pc = "persist"
        <4>1. /\ p = d.plan /\ s = d.step
              /\ d.spec.attempt = plans[p].steps[s].attempt + 1
              /\ d.spec.attempt <= allowedAttempts(s)
          BY <2>1, <2>4, <3>1 DEF Owed, AttemptInv, CopyGood
        <4>2. plans[p].steps[s].attempt + 1 <= allowedAttempts(s)
          BY <4>1
        <4> QED BY <2>2, <2>3, <2>4, <4>2
      <3>2. CASE d.pc # "persist"
        <4>1. plans[p].steps[s].attempt < allowedAttempts(s)
          BY <2>1, <2>4, <3>2 DEF Owed, AttemptInv, CopyGood, InRound
        <4> QED BY <2>2, <2>3, <2>4, <4>1
      <3> QED BY <3>1, <3>2
    <2>5. CASE ~Owed(d, p, s)
      <3>1. plans[p].steps[s].attempt <= allowedAttempts(s)
        BY <2>1 DEF AttemptInv, StepGood
      <3> QED BY <2>2, <2>3, <2>5, <3>1
    <2> QED BY <2>4, <2>5
  <1> QED BY <1>1, AttemptAlways, PTL

(* Every turn of the driver's loop uses up an attempt or a revision, and   *)
(* none is ever given back, whoever plans beside it: a call has no more    *)
(* turns than its budgets allow (session_driver.go:32).                    *)
THEOREM TurnsMakeProgress == Spec => []TurnsProgress
  <1>1. AttemptInv => TurnsProgress
    <2>1. SUFFICES ASSUME AttemptInv, d.pc = "loop", NEW m \in d.mark
                   PROVE  /\ m # Spent
                          /\ m.stored \subseteq Stored
                          /\ \A p \in PlanId, s \in Step :
                               m.attempts[p][s] <= plans[p].steps[s].attempt
      BY DEF TurnsProgress
    <2>2. Behind(m, plans) /\ Ahead(m, plans)
      BY <2>1 DEF AttemptInv, MarkGood
    <2>3. m \in Budget /\ plans \in [PlanId -> PlanRecord]
      BY <2>1, TypeFacts DEF AttemptInv, Call
    <2>4. m.stored \subseteq PlanId
      BY <2>3 DEF Budget
    <2>5. m.stored \subseteq Stored
      BY <2>2, <2>4 DEF Behind, Stored
    <2>6. m # Spent
      <3>1. SUFFICES ASSUME m = Spent PROVE FALSE
        OBVIOUS
      <3>2. m.stored = Stored
            /\ \A p \in PlanId, s \in Step : m.attempts[p][s] = plans[p].steps[s].attempt
        BY <2>3, <3>1, SpentTyped
      <3>3. \A p \in PlanId : plans[p].rev # 0 => p \in m.stored
        BY <3>2 DEF Stored
      <3>4. \A p \in PlanId, s \in Step : ~(m.attempts[p][s] < plans[p].steps[s].attempt)
        <4>1. \A x \in Nat : ~(x < x)
          OBVIOUS
        <4> QED BY <2>3, <3>2, <4>1, AttemptTypes
      <3> QED BY <2>2, <3>3, <3>4 DEF Ahead
    <2> QED BY <2>2, <2>5, <2>6 DEF Behind
  <1> QED BY <1>1, AttemptAlways, PTL

----------------------------------------------------------------------------
(* Outcomes.                                                               *)

(* The group of the latest plan, number n, is judged if it is settled.     *)
LatestJudged(st, ps, js, n) ==
    ~isTerminalPhase(st.phase) /\ Judging /\ n > 0 /\ Ready(ps[n].steps)
      => js[n] # "no"

LEMMA ReadyOfGroup ==
    ASSUME NEW p, NEW q, \A s \in Fanout : p[s] = q[s]
    PROVE  Ready(p) <=> Ready(q)
  BY DEF Ready, aggregateVerificationReady, exhausted

LEMMA FreshOutcome ==
    /\ Outcome(FreshSteps) = "continue"
    /\ planStatusForSpec(FreshSteps) = "active"
    /\ Fanout # {} => ~Ready(FreshSteps)
  <1>1. \A s \in Step : FreshSteps[s].status = "pending"
    BY DEF FreshSteps
  <1>2. \E s \in Step : FreshSteps[s].status \in unsettled
    BY <1>1, DriverAssumption DEF unsettled
  <1>3. {s \in Step : FreshSteps[s].status = "failed"} = {}
    BY <1>1
  <1>4. Outcome(FreshSteps) = "continue"
    BY <1>2, <1>3, Zenon DEF Outcome, planExecutionOutcomeForSpec
  <1>5. planStatusForSpec(FreshSteps) = "active"
    BY <1>4, Zenon DEF Outcome, planStatusForSpec
  <1>6. Fanout # {} => ~Ready(FreshSteps)
    BY <1>1, FanoutAssumption DEF Ready, aggregateVerificationReady, exhausted
  <1> QED BY <1>4, <1>5, <1>6

LEMMA OutcomeFacts ==
    ASSUME OutcomeInv
    PROVE  \E n \in 0..MaxPlans :
             /\ n \in Nat /\ MaxPlans \in Nat /\ 1..n \subseteq PlanId
             /\ Dense(plans, n) /\ Frame(d, n)
             /\ d \in Call /\ session \in SessionRecord
             /\ plans \in [PlanId -> PlanRecord]
             /\ judged \in [PlanId -> {"no", "yes", "denied"}]
             /\ OutcomeGood(d, plans, judged, n)
             /\ CompleteGood(session, d, plans, judged, wrote, n)
             /\ LatestJudged(session, plans, judged, n)
  <1>1. PICK n \in 0..MaxPlans :
             /\ Dense(plans, n)
             /\ OutcomeGood(d, plans, judged, n)
             /\ CompleteGood(session, d, plans, judged, wrote, n)
             /\ LatestJudged(session, plans, judged, n)
    BY DEF OutcomeInv, LatestJudged
  <1>2. PICK m \in 0..MaxPlans :
             /\ m \in Nat /\ MaxPlans \in Nat /\ 1..m \subseteq PlanId
             /\ Dense(plans, m) /\ Frame(d, m)
             /\ d \in Call /\ session \in SessionRecord
             /\ plans \in [PlanId -> PlanRecord]
             /\ judged \in [PlanId -> {"no", "yes", "denied"}]
    BY TypeFacts DEF OutcomeInv, AttemptInv
  <1>3. n = m
    BY <1>1, <1>2, DenseUnique
  <1> QED BY <1>1, <1>2, <1>3

LEMMA OutcomeFrom ==
    ASSUME AttemptInv', StatusGood(plans'),
           isTerminalPhase(session'.phase) => d'.pc = "idle",
           NEW n \in 0..MaxPlans, Dense(plans', n),
           OutcomeGood(d', plans', judged', n),
           CompleteGood(session', d', plans', judged', wrote', n),
           LatestJudged(session', plans', judged', n)
    PROVE  OutcomeInv'
  BY DEF OutcomeInv, LatestJudged

LEMMA OutcomeInit ==
    ASSUME Init
    PROVE  OutcomeInv
  <1>1. AttemptInv
    BY AttemptInit
  <1>2. \A p \in PlanId : plans[p].steps = FreshSteps /\ plans[p].status = "active"
    BY DEF Init, AbsentPlan
  <1>3. StatusGood(plans)
    BY <1>2, FreshOutcome DEF StatusGood
  <1>4. d.pc = "idle" /\ session.phase = "received"
    BY NoCallTyped DEF Init, NewSession
  <1>5. ~isTerminalPhase(session.phase) /\ session.phase # "complete"
    BY <1>4 DEF isTerminalPhase, TerminalPhase
  <1>6. PICK n \in 0..MaxPlans : Dense(plans, n) /\ n \in Nat /\ 1..n \subseteq PlanId
    BY <1>1, TypeFacts DEF AttemptInv
  <1>7. OutcomeGood(d, plans, judged, n) /\ CompleteGood(session, d, plans, judged, wrote, n)
    BY <1>4, <1>5 DEF OutcomeGood, CompleteGood
  <1>8. Judging /\ n > 0 => ~Ready(plans[n].steps)
    BY <1>2, <1>6, FreshOutcome DEF Judging
  <1> QED BY <1>1, <1>3, <1>4, <1>6, <1>7, <1>8 DEF OutcomeInv

(* A step of a session that is not over, or that changes neither session   *)
(* nor call.                                                               *)
LEMMA OutcomeQuiet ==
    ASSUME OutcomeInv, AttemptInv', UNCHANGED <<plans, judged>>,
           \/ UNCHANGED <<session, d, wrote>>
           \/ /\ ~isTerminalPhase(session.phase) /\ ~isTerminalPhase(session'.phase)
              /\ d'.pc # "persist"
    PROVE  OutcomeInv'
  <1>1. PICK n \in 0..MaxPlans :
             /\ Dense(plans, n)
             /\ OutcomeGood(d, plans, judged, n)
             /\ CompleteGood(session, d, plans, judged, wrote, n)
             /\ LatestJudged(session, plans, judged, n)
    BY OutcomeFacts
  <1>2. CASE UNCHANGED <<session, d, wrote>>
    BY <1>1, <1>2, OutcomeFrom DEF OutcomeInv
  <1>3. CASE /\ ~isTerminalPhase(session.phase) /\ ~isTerminalPhase(session'.phase)
             /\ d'.pc # "persist"
    <2>1. session'.phase # "complete"
      BY <1>3 DEF isTerminalPhase, TerminalPhase
    <2>2. OutcomeGood(d', plans, judged, n) /\ CompleteGood(session', d', plans, judged, wrote', n)
      BY <1>3, <2>1 DEF OutcomeGood, CompleteGood
    <2>3. LatestJudged(session', plans, judged, n)
      BY <1>1, <1>3 DEF LatestJudged
    <2> QED BY <1>1, <1>3, <2>2, <2>3, OutcomeFrom DEF OutcomeInv
  <1> QED BY <1>2, <1>3

LEMMA OutcomeQuietSteps ==
    ASSUME OutcomeInv, AttemptInv',
           \/ PlanningStep \/ PlanningFailure \/ StartRun \/ Loop \/ Select
           \/ StepRefused \/ StepAllowed \/ PrepareRound \/ RunRound \/ Crash
    PROVE  OutcomeInv'
  <1>0. PICK n \in 0..MaxPlans :
             /\ n \in Nat /\ Dense(plans, n) /\ Frame(d, n) /\ d \in Call
             /\ 1..n \subseteq PlanId
    BY OutcomeFacts
  <1>1. TypeInv /\ (d.pc # "idle" => ~isTerminalPhase(session.phase))
    BY DEF OutcomeInv, AttemptInv
  <1>2. CASE PlanningStep
    BY <1>2, OutcomeQuiet DEF PlanningStep
  <1>3. CASE PlanningFailure
    <2>1. PICK a \in Planner : planning[a].pc # "idle" /\ PlanningFails(a)
      BY <1>3 DEF PlanningFailure
    <2>2. UNCHANGED <<session, plans, judged>>
      BY <2>1 DEF PlanningFails
    <2>3. CASE a = "driver"
      <3>1. d.pc = "plan"
        BY <1>1, <2>1, <2>3 DEF TypeInv
      <3>2. d'.pc = "idle"
        BY <1>0, <2>1, <2>3, ReturnForm DEF PlanningFails, Bare
      <3> QED BY <1>1, <2>2, <3>1, <3>2, OutcomeQuiet
    <2>4. CASE a # "driver"
      BY <2>1, <2>2, <2>4, OutcomeQuiet DEF PlanningFails
    <2> QED BY <2>3, <2>4
  <1>4. CASE StartRun
    <2>1. /\ ~isTerminalPhase(session.phase) /\ session'.phase \in {session.phase, "recover"}
          /\ d'.pc = "loop" /\ UNCHANGED <<plans, judged>>
      BY <1>1, <1>4, StartRunForm DEF Bare
    <2>2. ~isTerminalPhase(session'.phase)
      BY <2>1 DEF isTerminalPhase, TerminalPhase
    <2> QED BY <2>1, <2>2, OutcomeQuiet
  <1>5. CASE Loop
    <2>1. d.pc = "loop" /\ d'.pc \in {"plan", "select"} /\ UNCHANGED <<session, plans, judged>>
      BY <1>1, <1>5, LoopForm
    <2> QED BY <1>1, <2>1, OutcomeQuiet
  <1>6. CASE Select
    <2>1. /\ d.pc = "select" /\ d'.pc \in {"round", "step", "plan", "idle"}
          /\ UNCHANGED <<session, plans, judged>>
      BY <1>1, <1>6, SelectForm DEF Bare
    <2> QED BY <1>1, <2>1, OutcomeQuiet
  <1>7. CASE StepRefused
    <2>1. d.pc = "step" /\ d'.pc = "idle"
      BY <1>1, <1>7, StepRefusedType DEF Bare
    <2>2. UNCHANGED <<session, plans, judged>>
      BY <1>7 DEF StepRefused
    <2> QED BY <1>1, <2>1, <2>2, OutcomeQuiet
  <1>8. CASE StepAllowed \/ PrepareRound
    <2>1. /\ d.pc \in {"step", "round"} /\ d'.pc \in {"tool", "launch"}
          /\ session' = markedInFlight(stepId(d.plan, d.step))
          /\ UNCHANGED <<plans, judged>>
      BY <1>1, <1>8, StepAllowedForm, PrepareRoundForm
    <2>2. d.plan \in 1..n /\ d.step \in Step
      BY <1>0, <2>1 DEF Frame, Chosen, Choosing
    <2>3. n > 0 /\ d.plan \in PlanId
      BY <1>0, <2>2
    <2>4. stepId(d.plan, d.step) \in StepId
      BY <2>2, <2>3, StepIds
    <2>5. session'.phase = session.phase
      BY <1>0, <1>1, <2>1, <2>3, <2>4, MarkedForm
    <2> QED BY <1>1, <2>1, <2>5, OutcomeQuiet
  <1>9. CASE RunRound
    <2>1. d.pc = "launch" /\ d'.pc = "gather" /\ UNCHANGED <<session, plans, judged>>
      BY <1>1, <1>9, RunRoundForm
    <2> QED BY <1>1, <2>1, OutcomeQuiet
  <1>10. CASE Crash
    <2>1. /\ d.pc \in {"tool", "persist", "launch", "gather"} /\ d'.pc = "idle"
          /\ UNCHANGED <<session, plans, judged>>
      BY <1>1, <1>10, CrashForm DEF Bare
    <2> QED BY <1>1, <2>1, OutcomeQuiet
  <1> QED BY <1>2, <1>3, <1>4, <1>5, <1>6, <1>7, <1>8, <1>9, <1>10

(* A new plan is not settled yet.                                          *)
LEMMA OutcomeInsert ==
    ASSUME OutcomeInv, AttemptInv', NEW a \in Planner, InsertPlan(a)
    PROVE  OutcomeInv'
  <1>0. TypeInv
    BY DEF OutcomeInv, AttemptInv
  <1>1. PICK m \in 0..MaxPlans :
             /\ m + 1 \in 1..MaxPlans /\ m \in Nat /\ 1..m \subseteq PlanId
             /\ Dense(plans, m) /\ Frame(d, m)
             /\ OutcomeGood(d, plans, judged, m)
             /\ CompleteGood(session, d, plans, judged, wrote, m)
             /\ Dense(plans', m + 1)
             /\ \A p \in PlanId \ {m + 1} : plans'[p] = plans[p]
             /\ plans'[m + 1].steps = plans[m + 1].steps
             /\ plans'[m + 1].status = plans[m + 1].status
             /\ plans[m + 1].rev = 0
             /\ IF a # "driver" THEN d' = d
                ELSE d.pc = "plan" /\ d'.pc \in {"loop", "select"}
    <2>1. PICK m \in 0..MaxPlans :
             /\ m + 1 \in 1..MaxPlans
             /\ Dense(plans, m)
             /\ Dense(plans', m + 1)
             /\ \A p \in PlanId \ {m + 1} : plans'[p] = plans[p]
             /\ plans'[m + 1].steps = plans[m + 1].steps
             /\ plans'[m + 1].status = plans[m + 1].status
             /\ plans[m + 1].rev = 0
             /\ IF a # "driver" THEN d' = d
                ELSE d.pc = "plan" /\ d'.pc \in {"loop", "select"}
      BY <1>0, InsertForm
    <2>2. PICK n \in 0..MaxPlans :
             /\ n \in Nat /\ 1..n \subseteq PlanId
             /\ Dense(plans, n) /\ Frame(d, n)
             /\ OutcomeGood(d, plans, judged, n)
             /\ CompleteGood(session, d, plans, judged, wrote, n)
      BY OutcomeFacts
    <2>3. n = m
      BY <2>1, <2>2, DenseUnique
    <2> QED BY <2>1, <2>2, <2>3
  <1>2. UNCHANGED <<session, judged, wrote>>
    BY DEF InsertPlan
  <1>3. \A p \in PlanId : plans'[p].steps = plans[p].steps /\ plans'[p].status = plans[p].status
    BY <1>1
  <1>4. StatusGood(plans')
    BY <1>3 DEF OutcomeInv, StatusGood
  <1>5. m + 1 \in PlanId /\ plans'[m + 1].steps = FreshSteps
    BY <1>1, DriverAssumption DEF PlanId, OutcomeInv, AttemptInv
  <1>6. LatestJudged(session', plans', judged', m + 1)
    BY <1>5, FreshOutcome DEF LatestJudged, Judging
  <1>7. 1..m \subseteq 1..(m + 1) /\ m + 1 \in 0..MaxPlans
    BY <1>1, DriverAssumption
  <1>8. CASE a # "driver"
    <2>1. d' = d
      BY <1>1, <1>8
    <2>2. d.pc = "persist" => d.plan \in PlanId /\ d.judged \in PlanId
      BY <1>1 DEF OutcomeGood, Frame, Chosen, Choosing
    <2>3. d.pc = "persist" => Weighed(d, plans') = Weighed(d, plans)
      BY <1>3, <2>2 DEF Weighed
    <2>4. OutcomeGood(d', plans', judged', m + 1)
      BY <1>1, <1>2, <1>3, <1>7, <2>1, <2>2, <2>3 DEF OutcomeGood
    <2>5. CompleteGood(session', d', plans', judged', wrote', m + 1)
      <3>1. \A j \in 1..m, w \in 1..m, s \in Step :
              InPlace(plans', j, w, s) = InPlace(plans, j, w, s)
        BY <1>1, <1>3 DEF InPlace
      <3>2. \A j \in 1..m : j \in PlanId /\ j \in 1..(m + 1)
        BY <1>1, <1>7
      <3> QED BY <1>1, <1>2, <1>3, <2>1, <3>1, <3>2 DEF CompleteGood
    <2> QED BY <1>1, <1>2, <1>4, <1>6, <1>7, <2>1, <2>4, <2>5, OutcomeFrom DEF OutcomeInv
  <1>9. CASE a = "driver"
    <2>1. d.pc = "plan" /\ d'.pc \in {"loop", "select"}
      BY <1>1, <1>9
    <2>2. ~isTerminalPhase(session'.phase)
      BY <1>2, <2>1 DEF OutcomeInv
    <2>3. session'.phase # "complete"
      BY <2>2 DEF isTerminalPhase, TerminalPhase
    <2>4. OutcomeGood(d', plans', judged', m + 1) /\ CompleteGood(session', d', plans', judged', wrote', m + 1)
      BY <2>1, <2>3 DEF OutcomeGood, CompleteGood
    <2> QED BY <1>1, <1>4, <1>6, <1>7, <2>2, <2>4, OutcomeFrom
  <1> QED BY <1>8, <1>9

LEMMA OutcomeBackoff ==
    ASSUME OutcomeInv, AttemptInv', NEW p \in Stored, NEW s \in Step, BackoffElapses(p, s)
    PROVE  OutcomeInv'
  <1>0. TypeInv
    BY DEF OutcomeInv, AttemptInv
  <1>1. /\ plans' \in [PlanId -> PlanRecord] /\ SameRevisions(plans, plans')
        /\ \A q \in PlanId : /\ plans'[q].status = plans[q].status
                             /\ Alike(plans[q].steps, plans'[q].steps)
        /\ UNCHANGED <<session, d, judged, wrote>>
    BY <1>0, BackoffForm DEF BackoffElapses
  <1>2. PICK n \in 0..MaxPlans :
             /\ n \in Nat /\ 1..n \subseteq PlanId
             /\ Dense(plans, n) /\ Frame(d, n) /\ plans \in [PlanId -> PlanRecord]
             /\ OutcomeGood(d, plans, judged, n)
             /\ CompleteGood(session, d, plans, judged, wrote, n)
             /\ LatestJudged(session, plans, judged, n)
    BY OutcomeFacts
  <1>3. Dense(plans', n)
    BY <1>1, <1>2, DenseKept
  <1>4. \A q \in PlanId : /\ Outcome(plans'[q].steps) = Outcome(plans[q].steps)
                          /\ Ready(plans'[q].steps) <=> Ready(plans[q].steps)
                          /\ planStatusForSpec(plans'[q].steps) = planStatusForSpec(plans[q].steps)
    BY <1>1, AlikeOutcome
  <1>5. StatusGood(plans')
    BY <1>1, <1>4 DEF OutcomeInv, StatusGood
  <1>6. ASSUME d.pc = "persist"
        PROVE  /\ d.judged \in PlanId
               /\ Outcome(Weighed(d, plans')) = Outcome(Weighed(d, plans))
               /\ Ready(Weighed(d, plans')) <=> Ready(Weighed(d, plans))
    <2>1. d.judged \in PlanId /\ d.step \in Step
      BY <1>2, <1>6 DEF OutcomeGood, Frame, Chosen, Choosing
    <2>2. /\ plans[d.judged].steps \in [Step -> DriverStep]
          /\ plans'[d.judged].steps \in [Step -> DriverStep]
      BY <1>1, <1>2, <2>1 DEF PlanRecord
    <2>3. Alike(plans[d.judged].steps, plans'[d.judged].steps)
      BY <1>1, <2>1
    <2>4. Alike(Weighed(d, plans), Weighed(d, plans'))
      BY <2>1, <2>2, <2>3 DEF Alike, Weighed
    <2> QED BY <2>1, <2>4, AlikeOutcome
  <1>7. OutcomeGood(d, plans', judged, n)
    BY <1>2, <1>4, <1>6 DEF OutcomeGood
  <1>8. CompleteGood(session, d, plans', judged, wrote, n)
    <2>1. ASSUME NEW j \in 1..n, NEW w \in 1..n, NEW r \in Step
          PROVE  planStatusForSpec(InPlace(plans', j, w, r))
                   = planStatusForSpec(InPlace(plans, j, w, r))
      <3>1. j \in PlanId /\ w \in PlanId
        BY <1>2
      <3>2. /\ plans[j].steps \in [Step -> DriverStep] /\ plans'[j].steps \in [Step -> DriverStep]
            /\ Alike(plans[j].steps, plans'[j].steps) /\ Alike(plans[w].steps, plans'[w].steps)
        BY <1>1, <1>2, <3>1 DEF PlanRecord
      <3>3. Alike(InPlace(plans, j, w, r), InPlace(plans', j, w, r))
        BY <3>2 DEF Alike, InPlace
      <3> QED BY <3>3, AlikeOutcome
    <2>2. \A j \in 1..n : plans'[j].status = plans[j].status
      BY <1>1, <1>2
    <2> QED BY <1>2, <2>1, <2>2 DEF CompleteGood
  <1>9. LatestJudged(session, plans', judged, n)
    <2>1. n > 0 => n \in PlanId
      BY <1>2
    <2> QED BY <1>2, <1>4, <2>1 DEF LatestJudged
  <1> QED BY <1>1, <1>3, <1>5, <1>7, <1>8, <1>9, OutcomeFrom DEF OutcomeInv

LEMMA OutcomeDenied ==
    ASSUME OutcomeInv, AttemptInv', StepDenied
    PROVE  OutcomeInv'
  <1>0. TypeInv
    BY DEF OutcomeInv, AttemptInv
  <1>1. /\ d.pc = "step" /\ SameRevisions(plans, plans')
        /\ plans'[d.plan].status = planStatusForSpec(plans'[d.plan].steps)
        /\ \A q \in PlanId \ {d.plan} : plans'[q] = plans[q]
        /\ session'.phase = "failed" /\ d'.pc = "idle"
    BY <1>0, StepDeniedForm DEF Bare
  <1>2. PICK n \in 0..MaxPlans : Dense(plans, n)
    BY OutcomeFacts
  <1>3. Dense(plans', n)
    BY <1>1, <1>2, DenseKept
  <1>4. StatusGood(plans')
    BY <1>1 DEF OutcomeInv, StatusGood
  <1>5. /\ OutcomeGood(d', plans', judged', n)
        /\ CompleteGood(session', d', plans', judged', wrote', n)
        /\ LatestJudged(session', plans', judged', n)
    BY <1>1 DEF OutcomeGood, CompleteGood, LatestJudged, isTerminalPhase, TerminalPhase
  <1> QED BY <1>1, <1>3, <1>4, <1>5, OutcomeFrom

(* The outcome is weighed on the latest plan, with the step's own outcome  *)
(* in it if the step is one of that plan.                                  *)
LEMMA OutcomeTool ==
    ASSUME OutcomeInv, AttemptInv', NEW raw \in BOOLEAN, NEW verdict \in BOOLEAN,
           RunTool(raw, verdict)
    PROVE  OutcomeInv'
  <1>0. TypeInv
    BY DEF OutcomeInv, AttemptInv
  <1>1. d.pc = "tool"
    BY DEF RunTool
  <1>2. PICK n \in 0..MaxPlans :
             /\ n \in Nat /\ 1..n \subseteq PlanId
             /\ Dense(plans, n) /\ Frame(d, n) /\ plans \in [PlanId -> PlanRecord]
             /\ LatestJudged(session, plans, judged, n)
    BY OutcomeFacts
  <1>3. d.plan \in 1..n /\ d.step \in Step /\ n > 0 /\ n \in 1..n
    BY <1>1, <1>2 DEF Frame, Chosen, Choosing
  <1>4. /\ d'.pc = "persist" /\ d'.judged = n
        /\ d'.plan = d.plan /\ d'.step = d.step
        /\ d'.next.current = stepId(d.plan, d.step)
        /\ ToolOutcome(d, d', n)
        /\ UNCHANGED <<session, plans, judged>>
    BY <1>0, <1>2, <1>3, RunToolForm, Zenon
  <1>5. ~isTerminalPhase(session.phase) /\ session.phase # "complete"
    BY <1>1 DEF OutcomeInv, isTerminalPhase, TerminalPhase
  <1>6. Replaced(n, d'.spec) = Weighed(d', plans)
    BY <1>4 DEF Replaced, Weighed, Placed
  <1>8. d'.next.phase = "complete" => Outcome(Weighed(d', plans)) = "done"
    <2>1. \/ d'.next.phase = transitionForPlanOutcome(Outcome(Weighed(d', plans)))
          \/ d'.next.phase \in RetryPhase
      BY <1>4, <1>6, Zenon DEF ToolOutcome
    <2> QED BY <2>1, OutcomeKinds DEF RetryPhase
  <1>9. Judging /\ Ready(plans[n].steps) => judged[n] # "no"
    BY <1>2, <1>3, <1>5 DEF LatestJudged
  <1>10. Judging /\ d'.step \in Fanout /\ Ready(Weighed(d', plans))
           => d'.group[d'.step] = "ok"
    BY <1>4, <1>6, Zenon DEF ToolOutcome, Judging
  <1>11. OutcomeGood(d', plans, judged, n)
    <2>1. d'.judged \in 1..n /\ d'.plan <= d'.judged
      BY <1>2, <1>3, <1>4
    <2>2. d'.next.current = stepId(d'.plan, d'.step)
      BY <1>4
    <2>3. Judging /\ Ready(plans[d'.judged].steps) => judged[d'.judged] # "no"
      BY <1>4, <1>9
    <2> QED BY <1>8, <1>10, <2>1, <2>2, <2>3, Zenon DEF OutcomeGood
  <1>12. CompleteGood(session', d', plans', judged', wrote', n)
    BY <1>4, <1>5 DEF CompleteGood
  <1>13. StatusGood(plans') /\ LatestJudged(session', plans', judged', n) /\ Dense(plans', n)
    BY <1>2, <1>4 DEF OutcomeInv
  <1> QED BY <1>4, <1>5, <1>11, <1>12, <1>13, OutcomeFrom

LEMMA OutcomePersist ==
    ASSUME OutcomeInv, AttemptInv', PersistStep
    PROVE  OutcomeInv'
  <1>0. TypeInv
    BY DEF OutcomeInv, AttemptInv
  <1>1. PICK n \in 0..MaxPlans :
             /\ n \in Nat /\ 1..n \subseteq PlanId
             /\ Dense(plans, n) /\ Frame(d, n) /\ plans \in [PlanId -> PlanRecord]
             /\ d \in Call
             /\ OutcomeGood(d, plans, judged, n)
             /\ LatestJudged(session, plans, judged, n)
    BY OutcomeFacts
  <1>2. /\ d.pc = "persist"
        /\ plans' \in [PlanId -> PlanRecord] /\ SameRevisions(plans, plans')
        /\ plans'[d.plan].steps = After(d, plans)
        /\ plans'[d.plan].status = planStatusForSpec(After(d, plans))
        /\ \A q \in PlanId \ {d.plan} : plans'[q] = plans[q]
        /\ session' = d.next
        /\ \A q \in PlanId \ {d.plan} : judged'[q] = judged[q]
        /\ d.step \notin Fanout => judged' = judged
        /\ d.step \in Fanout /\ d.group[d.step] = "ok" => judged'[d.plan] = "yes"
        /\ wrote' = d.plan
    BY <1>0, PersistStepForm
  <1>3. /\ d'.judged = d.judged
        /\ isTerminalPhase(session'.phase) => d'.pc = "idle"
        /\ d'.pc \in {"idle", "loop"}
    BY <1>0, PersistStepForm DEF Bare
  <1>4. /\ d.plan \in 1..n /\ d.step \in Step
        /\ d.judged \in 1..n /\ d.plan <= d.judged
        /\ d.plan \in PlanId /\ d.judged \in PlanId
    BY <1>1, <1>2 DEF OutcomeGood, Frame, Chosen, Choosing
  <1>5. ~isTerminalPhase(session.phase)
    BY <1>2 DEF OutcomeInv
  <1>6. StatusGood(plans')
    BY <1>2 DEF OutcomeInv, StatusGood
  <1>7. Dense(plans', n)
    BY <1>1, <1>2, DenseKept
  <1>8. d.plan = d.judged => Placed(d) /\ Weighed(d, plans) = After(d, plans)
    BY DEF Placed, Weighed, After
  <1>9. Judging /\ Ready(plans'[d.judged].steps) => judged'[d.judged] # "no"
    <2>1. SUFFICES ASSUME Judging, Ready(plans'[d.judged].steps)
                   PROVE  judged'[d.judged] # "no"
      OBVIOUS
    <2>2. CASE d.plan # d.judged
      <3>1. plans'[d.judged].steps = plans[d.judged].steps /\ judged'[d.judged] = judged[d.judged]
        BY <1>2, <1>4, <2>2
      <3> QED BY <1>1, <1>2, <2>1, <3>1 DEF OutcomeGood
    <2>3. CASE d.plan = d.judged /\ d.step \in Fanout
      <3>1. Ready(After(d, plans))
        BY <1>2, <2>1, <2>3
      <3>2. d.group[d.step] = "ok"
        BY <1>1, <1>2, <1>8, <2>1, <2>3, <3>1 DEF OutcomeGood
      <3> QED BY <1>2, <2>3, <3>2
    <2>4. CASE d.plan = d.judged /\ d.step \notin Fanout
      <3>1. plans[d.plan].steps \in [Step -> DriverStep]
        BY <1>1, <1>4 DEF PlanRecord
      <3>2. \A s \in Fanout : After(d, plans)[s] = plans[d.plan].steps[s]
        BY <2>4, <3>1, FanoutAssumption DEF After
      <3>3. Ready(plans[d.plan].steps)
        BY <1>2, <2>1, <2>4, <3>2, ReadyOfGroup
      <3>4. judged' = judged
        BY <1>2, <2>4
      <3> QED BY <1>1, <1>2, <2>1, <2>4, <3>3, <3>4 DEF OutcomeGood
    <2> QED BY <2>2, <2>3, <2>4
  <1>10. CompleteGood(session', d', plans', judged', wrote', n)
    <2>1. SUFFICES ASSUME session'.phase = "complete"
                   PROVE  CompleteGood(session', d', plans', judged', wrote', n)
      BY DEF CompleteGood
    <2>2. Outcome(Weighed(d, plans)) = "done"
      BY <1>1, <1>2, <2>1 DEF OutcomeGood
    <2>3. planStatusForSpec(Weighed(d, plans)) = "completed"
      BY <2>2, OutcomeKinds
    <2>4. /\ plans[d.judged].steps \in [Step -> DriverStep] /\ d.spec \in DriverStep
          /\ plans[d.plan].steps \in [Step -> DriverStep]
      BY <1>1, <1>4 DEF PlanRecord, Call
    <2>5. Weighed(d, plans) \in [Step -> DriverStep]
      BY <1>4, <2>4 DEF Weighed
    <2>6. Ready(Weighed(d, plans))
      BY <2>2, <2>5, DoneIsReady DEF DriverStep
    <2>7. CASE d.plan = d.judged \/ FreshIds
      <3>1. plans'[d.judged].steps = Weighed(d, plans)
        BY <1>2, <1>4, <1>8, <2>7 DEF Weighed, Placed
      <3>2. plans'[d.judged].status = "completed"
        BY <1>4, <1>6, <2>3, <3>1 DEF StatusGood
      <3>3. Judging => judged'[d.judged] # "no"
        BY <1>9, <2>6, <3>1
      <3> QED BY <1>3, <1>4, <3>2, <3>3 DEF CompleteGood
    <2>8. CASE d.plan # d.judged /\ ~FreshIds
      <3>1. session'.current = <<1, d.step>>
        BY <1>1, <1>2, <2>8 DEF OutcomeGood, stepId
      <3>2. session'.current[2] = d.step
        BY <3>1
      <3>3. InPlace(plans', d.judged, d.plan, d.step) = Weighed(d, plans)
        <4>1. plans'[d.judged].steps = plans[d.judged].steps
          BY <1>2, <1>4, <2>8
        <4>2. plans'[d.plan].steps[d.step] = d.spec
          BY <1>2, <1>4, <2>4 DEF After
        <4> QED BY <2>8, <4>1, <4>2 DEF InPlace, Weighed, Placed
      <3>4. ASSUME Judging
            PROVE  \/ judged'[d.judged] # "no"
                   \/ d.step \in Fanout /\ judged'[d.plan] = "yes"
        <4>1. CASE d.step \in Fanout
          <5>1. d.group[d.step] = "ok"
            BY <1>1, <1>2, <2>6, <2>8, <3>4, <4>1 DEF OutcomeGood, Placed
          <5> QED BY <1>2, <4>1, <5>1
        <4>2. CASE d.step \notin Fanout
          <5>1. \A s \in Fanout : Weighed(d, plans)[s] = plans[d.judged].steps[s]
            BY <2>4, <4>2, FanoutAssumption DEF Weighed
          <5>2. Ready(plans[d.judged].steps)
            BY <2>6, <5>1, ReadyOfGroup
          <5>3. judged[d.judged] # "no" /\ judged' = judged
            BY <1>1, <1>2, <3>4, <4>2, <5>2 DEF OutcomeGood
          <5> QED BY <5>3
        <4> QED BY <4>1, <4>2
      <3> QED BY <1>2, <1>3, <1>4, <2>3, <2>8, <3>2, <3>3, <3>4 DEF CompleteGood
    <2> QED BY <2>7, <2>8
  <1>11. LatestJudged(session', plans', judged', n)
    <2>1. SUFFICES ASSUME Judging, n > 0, Ready(plans'[n].steps)
                   PROVE  judged'[n] # "no"
      BY DEF LatestJudged
    <2>2. n \in PlanId
      BY <1>1, <2>1
    <2>3. CASE d.plan = n
      <3>1. d.judged = n
        BY <1>1, <1>4, <2>3
      <3> QED BY <1>9, <2>1, <3>1
    <2>4. CASE d.plan # n
      <3>1. plans'[n] = plans[n] /\ judged'[n] = judged[n]
        BY <1>2, <2>2, <2>4
      <3> QED BY <1>1, <1>5, <2>1, <3>1 DEF LatestJudged
    <2> QED BY <2>3, <2>4
  <1>12. OutcomeGood(d', plans', judged', n)
    BY <1>3 DEF OutcomeGood
  <1> QED BY <1>3, <1>6, <1>7, <1>10, <1>11, <1>12, OutcomeFrom

LEMMA OutcomeRound ==
    ASSUME OutcomeInv, AttemptInv', NEW verdict \in BOOLEAN, PersistRound(verdict)
    PROVE  OutcomeInv'
  <1>0. TypeInv
    BY DEF OutcomeInv, AttemptInv
  <1>1. PICK n \in 0..MaxPlans :
             /\ n \in Nat /\ 1..n \subseteq PlanId
             /\ Dense(plans, n) /\ Frame(d, n)
             /\ LatestJudged(session, plans, judged, n)
    BY OutcomeFacts
  <1>2. /\ d.pc = "gather" /\ SameRevisions(plans, plans')
        /\ RoundForm
        /\ d'.judged = d.latest
        /\ isTerminalPhase(session'.phase) => d'.pc = "idle"
        /\ d'.pc \in {"idle", "loop"}
    BY <1>0, PersistRoundForm, Zenon DEF Bare
  <1>3. d.latest \in 1..n /\ d.latest \in PlanId
    BY <1>1, <1>2 DEF Frame, Choosing
  <1>4. ~isTerminalPhase(session.phase)
    BY <1>2 DEF OutcomeInv
  <1> DEFINE post == plans'[d.latest].steps
  <1>5. /\ post \in [Step -> DriverStep]
        /\ plans'[d.latest].status = planStatusForSpec(post)
        /\ \A q \in PlanId \ {d.latest} : plans'[q] = plans[q]
        /\ session'.phase = transitionForPlanOutcome(Outcome(post))
        /\ AggregateScope /\ Ready(post) => judged'[d.latest] # "no"
        /\ \A q \in PlanId \ {d.latest} : judged'[q] = judged[q]
    BY <1>2, Zenon DEF RoundForm
  <1> HIDE DEF post
  <1>6. StatusGood(plans')
    BY <1>5 DEF OutcomeInv, StatusGood, post
  <1>7. Dense(plans', n)
    BY <1>1, <1>2, DenseKept
  <1>8. CompleteGood(session', d', plans', judged', wrote', n)
    <2>1. SUFFICES ASSUME session'.phase = "complete"
                   PROVE  /\ plans'[d.latest].status = "completed"
                          /\ Judging => judged'[d.latest] # "no"
      BY <1>2, <1>3 DEF CompleteGood
    <2>2. Outcome(post) = "done" /\ planStatusForSpec(post) = "completed"
      BY <1>5, <2>1, OutcomeKinds
    <2>3. \A s \in Step : post[s].status \in StepStatus
      BY <1>5 DEF DriverStep
    <2>4. Ready(post)
      BY <2>2, <2>3, DoneIsReady
    <2> QED BY <1>5, <2>2, <2>4 DEF Judging
  <1>9. LatestJudged(session', plans', judged', n)
    <2>1. SUFFICES ASSUME Judging, n > 0, Ready(plans'[n].steps)
                   PROVE  judged'[n] # "no"
      BY DEF LatestJudged
    <2>2. n \in PlanId
      BY <1>1, <2>1
    <2>3. CASE d.latest = n
      BY <1>5, <2>1, <2>3 DEF Judging, post
    <2>4. CASE d.latest # n
      <3>1. plans'[n] = plans[n] /\ judged'[n] = judged[n]
        BY <1>5, <2>2, <2>4
      <3> QED BY <1>1, <1>4, <2>1, <3>1 DEF LatestJudged
    <2> QED BY <2>3, <2>4
  <1>10. OutcomeGood(d', plans', judged', n)
    BY <1>2 DEF OutcomeGood
  <1> QED BY <1>2, <1>6, <1>7, <1>8, <1>9, <1>10, OutcomeFrom

LEMMA OutcomeStep ==
    ASSUME OutcomeInv, [Next]_vars
    PROVE  OutcomeInv'
  <1>0. AttemptInv'
    BY AttemptStep DEF OutcomeInv
  <1>1. CASE \/ PlanningStep \/ PlanningFailure \/ StartRun \/ Loop \/ Select
             \/ StepRefused \/ StepAllowed \/ PrepareRound \/ RunRound \/ Crash
    BY <1>0, <1>1, OutcomeQuietSteps
  <1>2. CASE \E a \in Planner : InsertPlan(a)
    BY <1>0, <1>2, OutcomeInsert
  <1>3. CASE StepDenied
    BY <1>0, <1>3, OutcomeDenied
  <1>4. CASE \E raw, verdict \in BOOLEAN : RunTool(raw, verdict)
    BY <1>0, <1>4, OutcomeTool, Zenon
  <1>5. CASE PersistStep
    BY <1>0, <1>5, OutcomePersist
  <1>6. CASE \E verdict \in BOOLEAN : PersistRound(verdict)
    BY <1>0, <1>6, OutcomeRound, Zenon
  <1>7. CASE \E p \in Stored, s \in Step : BackoffElapses(p, s)
    BY <1>0, <1>7, OutcomeBackoff
  <1>8. CASE UNCHANGED vars
    BY <1>0, <1>8, OutcomeQuiet DEF vars
  <1> QED BY <1>1, <1>2, <1>3, <1>4, <1>5, <1>6, <1>7, <1>8, NextCases, Zenon

LEMMA OutcomeAlways == Spec => []OutcomeInv
  BY OutcomeInit, OutcomeStep, PTL DEF Spec

(* A session is complete only with its plan: the verdict, formed on a copy *)
(* before the transaction, is the status that the plan is stored with,     *)
(* whoever plans in between (plan_outcome.go:160,                          *)
(* fanout_scheduler.go:459).  Only a step of an older plan, with an id     *)
(* that the latest plan has too, completes a session whose plan is not: it *)
(* was judged in the place of its namesake.                                *)
THEOREM CompleteWithItsPlan == Spec => []CompletePlan
  <1>1. OutcomeInv => CompletePlan
    BY OutcomeFacts DEF CompletePlan, CompleteGood, InPlace, judgedInPlace
  <1> QED BY <1>1, OutcomeAlways, PTL

(* A group that is verified as a whole was judged after its last target    *)
(* settled, or had its last targets denied, when its session completes     *)
(* (program_verify_runtime.go:49, fanout_scheduler.go:712); a target of an *)
(* older plan that stands in for its namesake was judged with that group.  *)
THEOREM GroupsAreJudged == Spec => []AggregateJudged
  <1>1. OutcomeInv => AggregateJudged
    BY OutcomeFacts DEF AggregateJudged, CompleteGood, Judging
  <1> QED BY <1>1, OutcomeAlways, PTL

----------------------------------------------------------------------------
(* No dead end.                                                            *)

(* What it means that a plan goes on.                                      *)
LEMMA ContinueMeans ==
    ASSUME NEW p, Outcome(p) = "continue",
           \A s \in Step : p[s].status \in {"pending", "completed", "failed"}
    PROVE  Workable(p)
  <1> DEFINE failed == {s \in Step : p[s].status = "failed"}
             letGo == {s \in failed : Strategy[s] = "continue" /\ exhausted(p, s)}
             aborting == \E s \in failed : Strategy[s] = "abort"
             groupFailed == letGo \cap Fanout # {} /\ aggregateStatus(p) = "failed"
             pending == \E s \in Step : p[s].status \in unsettled
             recoverable == \/ \E s \in failed \ letGo : Strategy[s] # "abort"
                            \/ groupFailed /\ ~aggregateExhaustedAsFailed(p)
  <1>1. Outcome(p) = IF aborting \/ (groupFailed /\ aggregateExhaustedAsFailed(p)) THEN "fail"
                     ELSE IF pending \/ recoverable THEN "continue" ELSE "done"
    BY DEF Outcome, planExecutionOutcomeForSpec
  <1>2. /\ ~aborting /\ ~(groupFailed /\ aggregateExhaustedAsFailed(p))
        /\ pending \/ recoverable
    <2> HIDE DEF aborting, groupFailed, pending, recoverable
    <2> QED BY <1>1
  <1>3. \A s \in Step : p[s].status = "failed" => Strategy[s] # "abort"
    BY <1>2
  <1>5. \E s \in Step : \/ p[s].status = "pending"
                        \/ /\ p[s].status = "failed"
                           /\ ~(Strategy[s] = "continue" /\ exhausted(p, s))
    <2>1. CASE pending
      BY <2>1 DEF unsettled
    <2>2. CASE \E s \in failed \ letGo : Strategy[s] # "abort"
      BY <2>2
    <2>3. CASE groupFailed /\ ~aggregateExhaustedAsFailed(p)
      <3>1. PICK s \in Fanout : ~exhausted(p, s)
        BY <2>3 DEF aggregateExhaustedAsFailed
      <3>2. aggregateStatus(p) = "failed"
        BY <2>3
      <3>3. s \in Step /\ p[s].status # "completed"
        BY <3>2, FanoutAssumption DEF aggregateStatus
      <3> QED BY <3>1, <3>3
    <2> QED BY <1>2, <2>1, <2>2, <2>3
  <1> QED BY <1>3, <1>5 DEF Workable

(* A plan that goes on has a step to run or asks for a new plan.           *)
LEMMA ContinueRuns ==
    ASSUME NEW p, Workable(p)
    PROVE  firstStep(p) # {} \/ NeedsPlanning(p)
  <1> DEFINE P == {s \in Step : p[s].status = "pending"}
             F == {s \in Step : p[s].status = "failed"
                                /\ ~(Strategy[s] = "continue" /\ exhausted(p, s))}
  <1>1. P \in SUBSET Nat /\ F \in SUBSET Nat
    BY StepAssumption
  <1>2. CASE P # {}
    <2>1. first(P) # {}
      <3> HIDE DEF P
      <3> QED BY <1>1, <1>2, LeastStep
    <2> QED BY <2>1 DEF firstStep, firstPending
  <1>3. CASE P = {}
    <2>1. F # {}
      BY <1>3 DEF Workable
    <2>2. first(F) # {} /\ first(F) \subseteq F
      <3> HIDE DEF F
      <3> QED BY <1>1, <2>1, LeastStep DEF first
    <2>3. PICK s \in first(F) : s \in F
      BY <2>2
    <2>4. firstFailed(p) = first(F) /\ firstPending(p) = first(P)
      BY DEF firstFailed, firstPending
    <2>5. firstPending(p) = {}
      BY <1>3, <2>4 DEF first
    <2>6. s \in firstFailed(p) /\ Strategy[s] # "abort"
      BY <2>3, <2>4 DEF Workable
    <2>7. CASE Strategy[s] = "replan"
      BY <2>5, <2>6, <2>7 DEF NeedsPlanning
    <2>8. CASE Strategy[s] # "replan"
      BY <2>5, <2>6, <2>8 DEF firstStep
    <2> QED BY <2>7, <2>8
  <1> QED BY <1>2, <1>3

(* A failed step that may be tried again, or asks for a new plan, keeps    *)
(* the plan going.                                                         *)
LEMMA StillContinues ==
    ASSUME NEW p \in [Step -> DriverStep], Workable(p),
           NEW t \in Step, NEW spec \in DriverStep, spec.status = "failed",
           \/ Strategy[t] = "replan"
           \/ Strategy[t] # "abort" /\ spec.attempt < allowedAttempts(t)
    PROVE  Workable([p EXCEPT ![t] = spec])
  <1> DEFINE q == [p EXCEPT ![t] = spec]
  <1>1. q[t] = spec /\ \A s \in Step \ {t} : q[s] = p[s]
    OBVIOUS
  <1> HIDE DEF q
  <1>2. ~exhausted(q, t) \/ Strategy[t] = "replan"
    BY <1>1, AllowedAttempts DEF exhausted, DriverStep
  <1>3. \A s \in Step : q[s].status = "failed" => Strategy[s] # "abort"
    BY <1>1 DEF Workable
  <1>4. q[t].status = "failed" /\ ~(Strategy[t] = "continue" /\ exhausted(q, t))
    BY <1>1, <1>2
  <1>5. Workable(q)
    BY <1>3, <1>4 DEF Workable
  <1> QED BY <1>5 DEF q

LEMMA AlikeWorkable ==
    ASSUME NEW p, NEW q, Alike(p, q)
    PROVE  Workable(p) <=> Workable(q)
  BY AlikeExhausted, Zenon DEF Workable, Alike

LEMMA FreshWorkable == Workable(FreshSteps)
  <1>1. \A s \in Step : FreshSteps[s].status = "pending"
    BY DEF FreshSteps
  <1> QED BY <1>1, DriverAssumption DEF Workable

LEMMA GaveUpKept ==
    ASSUME GaveUp(last, d, plans), NEW c, NEW ps,
           \/ last' \in {"over", "none", "no_plan", "backoff", "crash"}
           \/ last' = last /\ d.pc # "idle"
    PROVE  GaveUp(last', c, ps)
  BY DEF GaveUp

LEMMA StoredStatus ==
    ASSUME AttemptInv, NEW p \in PlanId
    PROVE  \A s \in Step : plans[p].steps[s].status \in {"pending", "completed", "failed"}
  BY DEF AttemptInv, StepGood

LEMMA ContinueFacts ==
    ASSUME ContinueInv
    PROVE  \E n \in 0..MaxPlans :
             /\ n \in Nat /\ MaxPlans \in Nat /\ 1..n \subseteq PlanId
             /\ Dense(plans, n) /\ Frame(d, n)
             /\ d \in Call /\ plans \in [PlanId -> PlanRecord]
             /\ JudgedOn(d, n) /\ Going(session, plans, n)
  <1>1. PICK n \in 0..MaxPlans : /\ Dense(plans, n)
                                 /\ JudgedOn(d, n) /\ Going(session, plans, n)
    BY DEF ContinueInv
  <1>2. PICK m \in 0..MaxPlans :
             /\ m \in Nat /\ MaxPlans \in Nat /\ 1..m \subseteq PlanId
             /\ Dense(plans, m) /\ Frame(d, m)
             /\ d \in Call /\ plans \in [PlanId -> PlanRecord]
    BY TypeFacts DEF ContinueInv, AttemptInv
  <1>3. n = m
    BY <1>1, <1>2, DenseUnique
  <1> QED BY <1>1, <1>2, <1>3

LEMMA ContinueFrom ==
    ASSUME AttemptInv', GaveUp(last', d', plans'),
           isTerminalPhase(session'.phase) => d'.pc = "idle",
           ContinueGood(d', plans'),
           NEW n \in 0..MaxPlans, Dense(plans', n),
           JudgedOn(d', n), Going(session', plans', n)
    PROVE  ContinueInv'
  BY DEF ContinueInv

LEMMA ContinueInit ==
    ASSUME Init
    PROVE  ContinueInv
  <1>1. AttemptInv
    BY AttemptInit
  <1>2. \A p \in PlanId : plans[p].steps = FreshSteps
    BY DEF Init, AbsentPlan
  <1>3. \A p \in PlanId, s \in Step : ~Stuck(s, plans[p].steps[s])
    <2>1. \A s \in Step : FreshSteps[s].status = "pending"
      BY DEF FreshSteps
    <2> QED BY <1>2, <2>1 DEF Stuck
  <1>4. d.pc = "idle" /\ last = "none"
    BY NoCallTyped DEF Init
  <1>5. PICK n \in 0..MaxPlans : Dense(plans, n) /\ n \in Nat /\ 1..n \subseteq PlanId
    BY <1>1, TypeFacts DEF AttemptInv
  <1>6. n > 0 => Workable(plans[n].steps)
    BY <1>2, <1>5, FreshWorkable
  <1>7. ContinueGood(d, plans) /\ GaveUp(last, d, plans)
    BY <1>4 DEF ContinueGood, InRound, GaveUp
  <1> QED BY <1>1, <1>3, <1>4, <1>5, <1>6, <1>7 DEF ContinueInv, Going, JudgedOn

(* A step that leaves the plans as they are.                               *)
LEMMA ContinueQuiet ==
    ASSUME ContinueInv, AttemptInv', UNCHANGED plans,
           GaveUp(last', d', plans),
           \/ UNCHANGED <<session, d>>
           \/ /\ ~isTerminalPhase(session.phase) /\ ~isTerminalPhase(session'.phase)
              /\ d'.pc # "persist" /\ ContinueGood(d', plans)
    PROVE  ContinueInv'
  <1>1. PICK n \in 0..MaxPlans : /\ Dense(plans, n)
                                 /\ JudgedOn(d, n) /\ Going(session, plans, n)
    BY ContinueFacts
  <1>3. CASE UNCHANGED <<session, d>>
    BY <1>1, <1>3, ContinueFrom DEF ContinueInv
  <1>4. CASE /\ ~isTerminalPhase(session.phase) /\ ~isTerminalPhase(session'.phase)
             /\ d'.pc # "persist" /\ ContinueGood(d', plans)
    <2>1. JudgedOn(d', n) /\ Going(session', plans, n)
      BY <1>1, <1>4 DEF JudgedOn, Going
    <2> QED BY <1>1, <1>4, <2>1, ContinueFrom
  <1> QED BY <1>3, <1>4

LEMMA QuietContinue ==
    ASSUME NEW c, NEW ps, c.pc \in {"idle", "loop", "plan", "tool"}
    PROVE  ContinueGood(c, ps)
  BY DEF ContinueGood, InRound

LEMMA ContinueQuietSteps ==
    ASSUME ContinueInv, AttemptInv',
           \/ PlanningStep \/ PlanningFailure \/ StartRun \/ Loop
           \/ StepRefused \/ StepAllowed \/ PrepareRound \/ RunRound \/ Crash
    PROVE  ContinueInv'
  <1>0. PICK n \in 0..MaxPlans :
             /\ n \in Nat /\ Dense(plans, n) /\ Frame(d, n) /\ d \in Call
             /\ 1..n \subseteq PlanId /\ Going(session, plans, n)
    BY ContinueFacts
  <1>1. /\ TypeInv /\ (d.pc # "idle" => ~isTerminalPhase(session.phase))
        /\ GaveUp(last, d, plans)
    BY DEF ContinueInv, AttemptInv
  <1>2. CASE PlanningStep
    BY <1>1, <1>2, ContinueQuiet DEF PlanningStep
  <1>3. CASE PlanningFailure
    <2>1. PICK a \in Planner : planning[a].pc # "idle" /\ PlanningFails(a)
      BY <1>3 DEF PlanningFailure
    <2>2. UNCHANGED <<session, plans>>
      BY <2>1 DEF PlanningFails
    <2>3. CASE a = "driver"
      <3>1. d.pc = "plan"
        BY <1>1, <2>1, <2>3 DEF TypeInv
      <3>2. d'.pc = "idle" /\ last' = "no_plan"
        BY <1>0, <2>1, <2>3, ReturnForm DEF PlanningFails, Bare
      <3>3. ContinueGood(d', plans)
        BY <3>2, QuietContinue
      <3>4. GaveUp(last', d', plans)
        BY <1>1, <3>2, GaveUpKept
      <3> QED BY <1>1, <2>2, <3>1, <3>2, <3>3, <3>4, ContinueQuiet
    <2>4. CASE a # "driver"
      BY <1>1, <2>1, <2>2, <2>4, ContinueQuiet DEF PlanningFails
    <2> QED BY <2>3, <2>4
  <1>4. CASE StartRun
    <2>1. /\ ~isTerminalPhase(session.phase) /\ session'.phase \in {session.phase, "recover"}
          /\ d'.pc = "loop" /\ last' = "none" /\ UNCHANGED plans
      BY <1>1, <1>4, StartRunForm DEF Bare
    <2>2. ~isTerminalPhase(session'.phase)
      BY <2>1 DEF isTerminalPhase, TerminalPhase
    <2>3. ContinueGood(d', plans)
      BY <2>1, QuietContinue
    <2>4. GaveUp(last', d', plans)
      BY <1>1, <2>1, GaveUpKept
    <2> QED BY <2>1, <2>2, <2>3, <2>4, ContinueQuiet
  <1>5. CASE Loop
    <2>1. /\ d.pc = "loop" /\ d'.pc \in {"plan", "select"} /\ UNCHANGED <<session, plans, last>>
          /\ d'.pc = "select" => d'.latest \in LatestBySession
      BY <1>1, <1>5, LoopForm
    <2>2. d'.pc = "select" => n > 0 /\ d'.latest = n
      BY <1>0, <2>1, StoredFacts
    <2>3. ContinueGood(d', plans)
      BY <1>0, <1>1, <2>1, <2>2 DEF ContinueGood, Going, InRound
    <2>4. GaveUp(last', d', plans)
      BY <1>1, <2>1, GaveUpKept
    <2> QED BY <1>1, <2>1, <2>3, <2>4, ContinueQuiet
  <1>6. CASE StepRefused
    <2>1. /\ d.pc = "step" /\ d'.pc = "idle"
          /\ last' = IF d.spec.attempt < allowedAttempts(d.step) THEN "backoff"
                     ELSE "exhausted"
      BY <1>1, <1>6, StepRefusedType DEF Bare
    <2>2. GaveUp(last', d', plans)
      BY <2>1 DEF ContinueInv, ContinueGood, GaveUp
    <2>3. UNCHANGED <<session, plans>>
      BY <1>6 DEF StepRefused
    <2>4. ContinueGood(d', plans)
      BY <2>1, QuietContinue
    <2> QED BY <1>1, <2>1, <2>2, <2>3, <2>4, ContinueQuiet
  <1>7. CASE StepAllowed \/ PrepareRound
    <2>1. /\ \/ d.pc = "step" /\ d'.pc = "tool"
             \/ d.pc = "round" /\ d'.pc = "launch"
          /\ session' = markedInFlight(stepId(d.plan, d.step))
          /\ UNCHANGED <<plans, last>>
      BY <1>1, <1>7, StepAllowedForm, PrepareRoundForm
    <2>2. d.plan \in 1..n /\ d.step \in Step
      BY <1>0, <2>1 DEF Frame, Chosen, Choosing
    <2>3. n > 0 /\ d.plan \in PlanId
      BY <1>0, <2>2
    <2>4. stepId(d.plan, d.step) \in StepId
      BY <2>2, <2>3, StepIds
    <2>5. session'.phase = session.phase
      BY <1>0, <1>1, <2>1, <2>3, <2>4, MarkedForm
    <2>6. ContinueGood(d', plans)
      BY <2>1 DEF ContinueInv, ContinueGood, InRound
    <2>7. d.pc # "idle" /\ d'.pc # "persist"
      BY <2>1
    <2>8. GaveUp(last', d', plans)
      BY <1>1, <2>1, GaveUpKept
    <2> QED BY <1>1, <2>1, <2>5, <2>6, <2>7, <2>8, ContinueQuiet
  <1>8. CASE RunRound
    <2>1. d.pc = "launch" /\ d'.pc = "gather" /\ UNCHANGED <<session, plans, last>>
      BY <1>1, <1>8, RunRoundForm
    <2>2. ContinueGood(d', plans)
      BY <2>1 DEF ContinueInv, ContinueGood, InRound
    <2>3. GaveUp(last', d', plans)
      BY <1>1, <2>1, GaveUpKept
    <2> QED BY <1>1, <2>1, <2>2, <2>3, ContinueQuiet
  <1>9. CASE Crash
    <2>1. /\ d.pc \in {"tool", "persist", "launch", "gather"} /\ d'.pc = "idle"
          /\ last' = "crash" /\ UNCHANGED <<session, plans>>
      BY <1>1, <1>9, CrashForm DEF Bare
    <2>2. ContinueGood(d', plans)
      BY <2>1, QuietContinue
    <2>3. GaveUp(last', d', plans)
      BY <1>1, <2>1, GaveUpKept
    <2> QED BY <1>1, <2>1, <2>2, <2>3, ContinueQuiet
  <1> QED BY <1>2, <1>3, <1>4, <1>5, <1>6, <1>7, <1>8, <1>9

(* The step a driver selects has an attempt left, and there is one.        *)
LEMMA ContinueSelect ==
    ASSUME ContinueInv, AttemptInv', Select
    PROVE  ContinueInv'
  <1>0. PICK n \in 0..MaxPlans :
             /\ n \in Nat /\ Frame(d, n) /\ 1..n \subseteq PlanId
             /\ Dense(plans, n) /\ Going(session, plans, n)
    BY ContinueFacts
  <1>1. TypeInv /\ AttemptInv /\ GaveUp(last, d, plans)
    BY DEF ContinueInv, AttemptInv
  <1>2. d.pc = "select" /\ UNCHANGED <<session, plans>>
    BY <1>1, SelectForm
  <1>3. /\ ~isTerminalPhase(session.phase) /\ d.latest \in PlanId
        /\ Workable(plans[d.latest].steps)
    BY <1>0, <1>2 DEF ContinueInv, ContinueGood, Frame, Choosing
  <1>4. CASE d'.pc = "idle"
    <2>1. SelectedStep = {} /\ ~NeedsPlanning(plans[d.latest].steps)
      BY <1>1, <1>4, SelectForm
    <2>2. firstStep(plans[d.latest].steps) = {}
      BY <2>1 DEF SelectedStep
    <2> QED BY <1>3, <2>1, <2>2, ContinueRuns
  <1>5. CASE d'.pc = "plan"
    <2>1. last' = last
      BY <1>1, <1>5, SelectForm DEF Bare
    <2>2. ContinueGood(d', plans)
      BY <1>5, QuietContinue
    <2>3. GaveUp(last', d', plans)
      BY <1>1, <1>2, <2>1, GaveUpKept
    <2> QED BY <1>2, <1>3, <1>5, <2>1, <2>2, <2>3, ContinueQuiet
  <1>6. CASE d'.pc \notin {"idle", "plan"}
    <2>1. PICK ps \in SelectedStep :
             /\ d'.plan = ps[1] /\ d'.step = ps[2]
             /\ d'.spec = plans[ps[1]].steps[ps[2]]
             /\ \/ d'.pc = "round" /\ fanoutRoundForSelection(ps[1], ps[2]) # {}
                \/ d'.pc = "step"
             /\ last' = last
      BY <1>1, <1>6, SelectForm DEF Bare
    <2>2. d'.pc = "round" => MaxConcurrency > 1
      BY <2>1 DEF fanoutRoundForSelection
    <2> DEFINE p == ps[1]
               s == ps[2]
               spec == plans[p].steps[s]
    <2>3. /\ p \in 1..n /\ s \in Step
          /\ \/ executableStep(plans[p].steps, s)
             \/ p = d.latest /\ s \in firstStep(plans[d.latest].steps)
      BY <1>0, <1>1, <1>2, SelectedFacts
    <2>4. d'.step = s /\ d'.spec = plans[p].steps[s] /\ p \in PlanId
      BY <1>0, <2>1, <2>3
    <2> HIDE DEF p, s
    <2>5. /\ StepGood(s, plans[p].steps[s])
          /\ Stuck(s, plans[p].steps[s]) => Stranded(plans)
          /\ plans[p].steps[s].attempt \in Nat /\ allowedAttempts(s) \in Nat
          /\ allowedAttempts(s) >= 1 /\ Strategy[s] \in OnFail
      <3>1. plans \in [PlanId -> PlanRecord]
        BY <1>1, TypeFacts
      <3>2. /\ StepGood(s, plans[p].steps[s])
            /\ Stuck(s, plans[p].steps[s]) => s \in Fanout /\ MaxConcurrency > 1
        BY <1>0, <1>1, <1>3, <2>3, <2>4 DEF AttemptInv, Going
      <3>3. plans[p].rev # 0
        BY <1>0, <2>3, <2>4 DEF Dense
      <3>4. Stuck(s, plans[p].steps[s]) => Stranded(plans)
        BY <2>4, <3>2, <3>3 DEF Stranded
      <3> QED BY <2>3, <2>4, <3>1, <3>2, <3>4, AttemptTypes, AllowedAttempts, OnFailAssumption
    <2>6. \/ plans[p].steps[s].status = "pending"
          \/ /\ plans[p].steps[s].status = "failed"
             /\ Strategy[s] \notin {"replan", "abort"}
             /\ Strategy[s] = "continue" => plans[p].steps[s].attempt < allowedAttempts(s)
      <3>1. CASE executableStep(plans[p].steps, s)
        BY <2>5, <3>1 DEF executableStep, StepGood
      <3>2. CASE p = d.latest /\ s \in firstStep(plans[d.latest].steps)
        <4>1. \/ s \in firstPending(plans[p].steps)
              \/ s \in firstFailed(plans[p].steps) /\ Strategy[s] \notin {"replan", "abort"}
          BY <3>2 DEF firstStep
        <4>2. CASE s \in firstPending(plans[p].steps)
          BY <4>2 DEF firstPending, first
        <4>3. CASE s \in firstFailed(plans[p].steps) /\ Strategy[s] \notin {"replan", "abort"}
          BY <2>5, <4>3 DEF firstFailed, first, exhausted
        <4> QED BY <4>1, <4>2, <4>3
      <3> QED BY <2>3, <3>1, <3>2
    <2>7. plans[p].steps[s].attempt < allowedAttempts(s) \/ Stranded(plans)
      <3>1. CASE plans[p].steps[s].status = "pending"
        BY <2>5, <3>1 DEF StepGood
      <3>2. CASE plans[p].steps[s].status = "failed" /\ Strategy[s] = "continue"
        BY <2>6, <3>2
      <3>3. CASE plans[p].steps[s].status = "failed" /\ Strategy[s] # "continue"
        BY <2>5, <2>6, <3>3 DEF Stuck, OnFail
      <3> QED BY <2>6, <3>1, <3>2, <3>3
    <2>8. ContinueGood(d', plans)
      BY <2>1, <2>2, <2>4, <2>7 DEF ContinueGood, InRound
    <2>9. GaveUp(last', d', plans)
      BY <1>1, <1>2, <2>1, GaveUpKept
    <2> QED BY <1>2, <1>3, <2>1, <2>8, <2>9, ContinueQuiet
  <1>7. QED BY <1>4, <1>5, <1>6

LEMMA ContinueInsert ==
    ASSUME ContinueInv, AttemptInv', NEW a \in Planner, InsertPlan(a)
    PROVE  ContinueInv'
  <1>0. TypeInv
    BY DEF ContinueInv, AttemptInv
  <1>1. PICK m \in 0..MaxPlans :
             /\ m + 1 \in 1..MaxPlans /\ m \in Nat /\ 1..m \subseteq PlanId
             /\ Frame(d, m) /\ JudgedOn(d, m) /\ Going(session, plans, m)
             /\ Dense(plans', m + 1)
             /\ \A p \in PlanId \ {m + 1} : plans'[p] = plans[p]
             /\ plans'[m + 1].steps = plans[m + 1].steps
             /\ plans[m + 1].rev = 0
             /\ IF a # "driver" THEN d' = d
                ELSE /\ d.pc = "plan"
                     /\ \/ d'.pc = "loop"
                        \/ d'.pc = "select" /\ d'.latest = m + 1
    <2>1. PICK m \in 0..MaxPlans :
             /\ m + 1 \in 1..MaxPlans
             /\ Dense(plans, m)
             /\ Dense(plans', m + 1)
             /\ \A p \in PlanId \ {m + 1} : plans'[p] = plans[p]
             /\ plans'[m + 1].steps = plans[m + 1].steps
             /\ plans[m + 1].rev = 0
             /\ IF a # "driver" THEN d' = d
                ELSE /\ d.pc = "plan"
                     /\ \/ d'.pc = "loop"
                        \/ d'.pc = "select" /\ d'.latest = m + 1
      BY <1>0, InsertForm
    <2>2. PICK n \in 0..MaxPlans :
             /\ n \in Nat /\ 1..n \subseteq PlanId
             /\ Dense(plans, n) /\ Frame(d, n)
             /\ JudgedOn(d, n) /\ Going(session, plans, n)
      BY ContinueFacts
    <2>3. n = m
      BY <2>1, <2>2, DenseUnique
    <2> QED BY <2>1, <2>2, <2>3
  <1>2. UNCHANGED <<session, last>>
    BY DEF InsertPlan
  <1>3. \A p \in PlanId : plans'[p].steps = plans[p].steps
    BY <1>1
  <1>4. m + 1 \in PlanId /\ plans'[m + 1].steps = FreshSteps
    BY <1>1, DriverAssumption DEF PlanId, ContinueInv, AttemptInv
  <1>5. Going(session', plans', m + 1)
    BY <1>1, <1>2, <1>3, <1>4, FreshWorkable DEF Going
  <1>6. m + 1 \in 0..MaxPlans
    BY <1>1, DriverAssumption
  <1>9. Stranded(plans) => Stranded(plans')
    <2>1. \A p \in PlanId : plans[p].rev # 0 => plans'[p].rev # 0
      BY <1>1
    <2> QED BY <1>3, <2>1 DEF Stranded
  <1>10. GaveUp(last', d', plans')
    BY <1>1, <1>2, <1>9 DEF ContinueInv, GaveUp
  <1>7. CASE a # "driver"
    <2>1. d' = d
      BY <1>1, <1>7
    <2>2. /\ d.pc = "persist" => d.plan \in PlanId
          /\ d.pc = "select" => d.latest \in PlanId
      BY <1>1 DEF Frame, Chosen, Choosing
    <2>3. d.pc = "persist" => After(d, plans') = After(d, plans)
      BY <1>3, <2>2 DEF After
    <2>4. ContinueGood(d', plans')
      BY <1>3, <1>9, <2>1, <2>2, <2>3 DEF ContinueInv, ContinueGood
    <2>5. JudgedOn(d', m + 1)
      BY <1>1, <2>1 DEF JudgedOn
    <2> QED BY <1>1, <1>2, <1>5, <1>6, <1>10, <2>1, <2>4, <2>5, ContinueFrom DEF ContinueInv
  <1>8. CASE a = "driver"
    <2>1. /\ d.pc = "plan" /\ d'.pc \in {"loop", "select"}
          /\ d'.pc = "select" => d'.latest = m + 1
      BY <1>1, <1>8
    <2>2. ~isTerminalPhase(session'.phase)
      BY <1>2, <2>1 DEF ContinueInv
    <2>3. ContinueGood(d', plans') /\ JudgedOn(d', m + 1)
      BY <1>4, <2>1, FreshWorkable DEF ContinueGood, JudgedOn, InRound
    <2> QED BY <1>1, <1>5, <1>6, <1>10, <2>2, <2>3, ContinueFrom
  <1> QED BY <1>7, <1>8

LEMMA ContinueBackoff ==
    ASSUME ContinueInv, AttemptInv', NEW p \in Stored, NEW s \in Step, BackoffElapses(p, s)
    PROVE  ContinueInv'
  <1>0. TypeInv
    BY DEF ContinueInv, AttemptInv
  <1>1. /\ plans' \in [PlanId -> PlanRecord] /\ SameRevisions(plans, plans')
        /\ \A q \in PlanId : Alike(plans[q].steps, plans'[q].steps)
        /\ UNCHANGED <<session, d, last>>
    BY <1>0, BackoffForm
  <1>2. PICK n \in 0..MaxPlans :
             /\ n \in Nat /\ 1..n \subseteq PlanId
             /\ Dense(plans, n) /\ Frame(d, n) /\ plans \in [PlanId -> PlanRecord]
             /\ JudgedOn(d, n) /\ Going(session, plans, n)
    BY ContinueFacts
  <1>3. Dense(plans', n)
    BY <1>1, <1>2, DenseKept
  <1>4. \A q \in PlanId : Workable(plans'[q].steps) <=> Workable(plans[q].steps)
    BY <1>1, AlikeWorkable
  <1>5. \A q \in PlanId, r \in Step :
           Stuck(r, plans'[q].steps[r]) <=> Stuck(r, plans[q].steps[r])
    BY <1>1 DEF Stuck, Alike
  <1>6. Going(session', plans', n)
    <2>1. n > 0 => n \in PlanId
      BY <1>2
    <2> QED BY <1>1, <1>2, <1>4, <1>5, <2>1 DEF Going
  <1>7. ASSUME d.pc = "persist"
        PROVE  Workable(After(d, plans')) <=> Workable(After(d, plans))
    <2>1. d.plan \in PlanId /\ d.step \in Step
      BY <1>2, <1>7 DEF Frame, Chosen, Choosing
    <2>2. plans[d.plan].steps \in [Step -> DriverStep] /\ plans'[d.plan].steps \in [Step -> DriverStep]
      BY <1>1, <1>2, <2>1 DEF PlanRecord
    <2>3. Alike(plans[d.plan].steps, plans'[d.plan].steps)
      BY <1>1, <2>1
    <2>4. Alike(After(d, plans), After(d, plans'))
      BY <2>1, <2>2, <2>3 DEF Alike, After
    <2> QED BY <2>4, AlikeWorkable
  <1>8. d.pc = "select" => d.latest \in PlanId
    BY <1>2 DEF Frame, Choosing
  <1>11. Stranded(plans) => Stranded(plans')
    BY <1>1, <1>5, FanoutAssumption DEF Stranded, SameRevisions
  <1>9. ContinueGood(d, plans')
    BY <1>4, <1>7, <1>8, <1>11 DEF ContinueInv, ContinueGood
  <1>10. GaveUp(last', d', plans')
    BY <1>1, <1>11 DEF ContinueInv, GaveUp
  <1> QED BY <1>1, <1>2, <1>3, <1>6, <1>9, <1>10, ContinueFrom DEF ContinueInv

LEMMA ContinueDenied ==
    ASSUME ContinueInv, AttemptInv', StepDenied
    PROVE  ContinueInv'
  <1>0. TypeInv /\ GaveUp(last, d, plans)
    BY DEF ContinueInv, AttemptInv
  <1>1. /\ SameRevisions(plans, plans')
        /\ session'.phase = "failed" /\ d'.pc = "idle" /\ last' = "over"
    BY <1>0, StepDeniedForm DEF Bare
  <1>2. PICK n \in 0..MaxPlans : Dense(plans, n)
    BY ContinueFacts
  <1>3. Dense(plans', n)
    BY <1>1, <1>2, DenseKept
  <1>4. Going(session', plans', n)
    BY <1>1 DEF Going, isTerminalPhase, TerminalPhase
  <1>5. JudgedOn(d', n) /\ ContinueGood(d', plans')
    BY <1>1, QuietContinue DEF JudgedOn
  <1>6. GaveUp(last', d', plans')
    BY <1>0, <1>1, GaveUpKept
  <1> QED BY <1>1, <1>3, <1>4, <1>5, <1>6, ContinueFrom

LEMMA ContinueTool ==
    ASSUME ContinueInv, AttemptInv',
           NEW raw \in BOOLEAN, NEW verdict \in BOOLEAN, RunTool(raw, verdict)
    PROVE  ContinueInv'
  <1>0. TypeInv /\ AttemptInv /\ GaveUp(last, d, plans)
    BY DEF ContinueInv, AttemptInv
  <1>1. d.pc = "tool"
    BY DEF RunTool
  <1>2. PICK n \in 0..MaxPlans :
             /\ n \in Nat /\ 1..n \subseteq PlanId
             /\ Dense(plans, n) /\ Frame(d, n) /\ plans \in [PlanId -> PlanRecord]
             /\ Going(session, plans, n)
    BY ContinueFacts
  <1>3. d.plan \in 1..n /\ d.step \in Step /\ n > 0 /\ n \in PlanId
    BY <1>1, <1>2 DEF Frame, Chosen, Choosing
  <1>4. /\ d' \in Call /\ d'.pc = "persist" /\ d'.judged = n
        /\ d'.plan = d.plan /\ d'.step = d.step
        /\ d'.spec.status \in {"completed", "failed"}
        /\ ToolOutcome(d, d', n)
        /\ UNCHANGED <<session, plans, last>>
    BY <1>0, <1>2, <1>3, RunToolForm, Zenon
  <1>5. ~isTerminalPhase(session.phase)
    BY <1>1 DEF ContinueInv
  <1>6. /\ Workable(plans[n].steps)
        /\ plans[n].steps \in [Step -> DriverStep] /\ d'.spec \in DriverStep
    BY <1>2, <1>3, <1>4, <1>5 DEF Going, PlanRecord, Call
  <1> DEFINE settled == \/ d'.spec.status = "completed"
                        \/ /\ Strategy[d.step] = "continue"
                           /\ d'.spec.attempt >= allowedAttempts(d.step)
             retried == \/ Strategy[d.step] = "replan"
                        \/ /\ Strategy[d.step] # "abort"
                           /\ d'.spec.attempt < allowedAttempts(d.step)
  <1>7. /\ settled => d'.next.phase = transitionForPlanOutcome(Outcome(Replaced(n, d'.spec)))
        /\ ~settled /\ d'.next.phase # "failed" => retried
    BY <1>4, Zenon DEF ToolOutcome
  <1>8. ASSUME ~isTerminalPhase(d'.next.phase)
        PROVE  /\ ~Stuck(d.step, d'.spec)
               /\ d.plan = n => Workable(After(d', plans))
    <2>1. d'.next.phase \notin {"complete", "failed"}
      BY <1>8 DEF isTerminalPhase, TerminalPhase
    <2>2. d.plan = n => /\ Replaced(n, d'.spec) = After(d', plans)
                        /\ After(d', plans) = [plans[n].steps EXCEPT ![d.step] = d'.spec]
      BY <1>4 DEF Replaced, After
    <2>3. CASE settled
      <3>1. Outcome(Replaced(n, d'.spec)) = "continue"
        BY <1>7, <2>1, <2>3, OutcomeKinds
      <3>2. ~Stuck(d.step, d'.spec)
        BY <2>3 DEF Stuck
      <3>3. ASSUME d.plan = n PROVE Workable(After(d', plans))
        <4>1. \A s \in Step : plans[n].steps[s].status \in {"pending", "completed", "failed"}
          BY <1>0, <1>3, StoredStatus
        <4>2. \A s \in Step : After(d', plans)[s].status \in {"pending", "completed", "failed"}
          BY <1>4, <1>6, <2>2, <3>3, <4>1
        <4> QED BY <2>2, <3>1, <3>3, <4>2, ContinueMeans
      <3> QED BY <3>2, <3>3
    <2>4. CASE ~settled
      <3>1. d'.spec.status = "failed" /\ retried
        BY <1>4, <1>7, <2>1, <2>4
      <3>2. ~Stuck(d.step, d'.spec)
        <4>1. d'.spec.attempt \in Nat /\ allowedAttempts(d.step) \in Nat
          BY <1>3, <1>6, AllowedAttempts DEF DriverStep
        <4> QED BY <3>1, <4>1 DEF Stuck
      <3>3. Workable([plans[n].steps EXCEPT ![d.step] = d'.spec])
        BY <1>3, <1>6, <3>1, StillContinues
      <3> QED BY <2>2, <3>2, <3>3
    <2> QED BY <2>3, <2>4
  <1>9. ContinueGood(d', plans')
    BY <1>4, <1>8 DEF ContinueGood, InRound
  <1>10. JudgedOn(d', n)
    BY <1>2, <1>3, <1>4 DEF JudgedOn
  <1>11. Dense(plans', n) /\ Going(session', plans', n) /\ GaveUp(last', d', plans')
    BY <1>0, <1>1, <1>2, <1>4, GaveUpKept
  <1> QED BY <1>4, <1>5, <1>9, <1>10, <1>11, ContinueFrom

LEMMA ContinuePersist ==
    ASSUME ContinueInv, AttemptInv', PersistStep
    PROVE  ContinueInv'
  <1>0. TypeInv /\ GaveUp(last, d, plans)
    BY DEF ContinueInv, AttemptInv
  <1>1. PICK n \in 0..MaxPlans :
             /\ n \in Nat /\ 1..n \subseteq PlanId
             /\ Dense(plans, n) /\ Frame(d, n) /\ plans \in [PlanId -> PlanRecord]
             /\ JudgedOn(d, n) /\ Going(session, plans, n)
    BY ContinueFacts
  <1>2. /\ d.pc = "persist" /\ SameRevisions(plans, plans')
        /\ plans'[d.plan].steps = After(d, plans)
        /\ \A q \in PlanId \ {d.plan} : plans'[q] = plans[q]
        /\ session' = d.next
    BY <1>0, PersistStepForm
  <1>3. /\ isTerminalPhase(session'.phase) => d'.pc = "idle"
        /\ d'.pc \in {"idle", "loop"} /\ last' \in {"over", last}
    BY <1>0, PersistStepForm DEF Bare
  <1>4. /\ d.plan \in 1..n /\ d.step \in Step /\ d.plan \in PlanId
        /\ d.judged \in 1..n /\ d.plan <= d.judged
    BY <1>1, <1>2 DEF JudgedOn, Frame, Chosen, Choosing
  <1>5. ~isTerminalPhase(session.phase)
    BY <1>2 DEF ContinueInv
  <1>6. Dense(plans', n)
    BY <1>1, <1>2, DenseKept
  <1>7. Going(session', plans', n)
    <2>1. SUFFICES ASSUME ~isTerminalPhase(session'.phase)
                   PROVE  /\ n > 0 => Workable(plans'[n].steps)
                          /\ \A p \in PlanId, s \in Step :
                               Stuck(s, plans'[p].steps[s]) => s \in Fanout /\ MaxConcurrency > 1
      BY DEF Going
    <2>2. /\ ~Stuck(d.step, d.spec)
          /\ d.plan = d.judged => Workable(After(d, plans))
      BY <1>2, <2>1 DEF ContinueInv, ContinueGood
    <2>3. ASSUME n > 0 PROVE Workable(plans'[n].steps)
      <3>1. CASE d.plan = n
        <4>1. d.judged = n
          BY <1>1, <1>4, <3>1
        <4> QED BY <1>2, <2>2, <3>1, <4>1
      <3>2. CASE d.plan # n
        <4>1. plans'[n] = plans[n]
          BY <1>1, <1>2, <2>3, <3>2
        <4> QED BY <1>1, <1>5, <2>3, <4>1 DEF Going
      <3> QED BY <3>1, <3>2
    <2>4. ASSUME NEW p \in PlanId, NEW s \in Step
          PROVE  Stuck(s, plans'[p].steps[s]) => s \in Fanout /\ MaxConcurrency > 1
      <3>1. Stuck(s, plans[p].steps[s]) => s \in Fanout /\ MaxConcurrency > 1
        BY <1>1, <1>5 DEF Going
      <3>2. plans[d.plan].steps \in [Step -> DriverStep]
        BY <1>1, <1>4 DEF PlanRecord
      <3>3. CASE p = d.plan /\ s = d.step
        <4>1. plans'[p].steps[s] = d.spec
          BY <1>2, <1>4, <3>2, <3>3 DEF After
        <4> QED BY <2>2, <3>3, <4>1
      <3>4. CASE ~(p = d.plan /\ s = d.step)
        <4>1. plans'[p].steps[s] = plans[p].steps[s]
          BY <1>2, <1>4, <3>2, <3>4 DEF After
        <4> QED BY <3>1, <4>1
      <3> QED BY <3>3, <3>4
    <2> QED BY <2>3, <2>4
  <1>8. JudgedOn(d', n) /\ ContinueGood(d', plans')
    BY <1>3, QuietContinue DEF JudgedOn
  <1>9. GaveUp(last', d', plans')
    <2>1. last' = "over" \/ (last' = last /\ d.pc # "idle")
      BY <1>2, <1>3
    <2> QED BY <1>0, <2>1 DEF GaveUp
  <1> QED BY <1>3, <1>6, <1>7, <1>8, <1>9, ContinueFrom

LEMMA ContinueRound ==
    ASSUME ContinueInv, AttemptInv', NEW verdict \in BOOLEAN, PersistRound(verdict)
    PROVE  ContinueInv'
  <1>0. TypeInv /\ GaveUp(last, d, plans)
    BY DEF ContinueInv, AttemptInv
  <1>1. PICK n \in 0..MaxPlans :
             /\ n \in Nat /\ 1..n \subseteq PlanId
             /\ Dense(plans, n) /\ Frame(d, n)
             /\ Going(session, plans, n)
    BY ContinueFacts
  <1>2. /\ d.pc = "gather" /\ SameRevisions(plans, plans') /\ RoundForm
        /\ isTerminalPhase(session'.phase) => d'.pc = "idle"
        /\ d'.pc \in {"idle", "loop"} /\ last' \in {"over", last}
    BY <1>0, PersistRoundForm, Zenon DEF Bare
  <1>3. d.latest \in 1..n /\ d.latest \in PlanId
    BY <1>1, <1>2 DEF Frame, Choosing
  <1>4. ~isTerminalPhase(session.phase) /\ MaxConcurrency > 1
    BY <1>2 DEF ContinueInv, ContinueGood, InRound
  <1>5. /\ \A s \in Step \ Round : plans'[d.latest].steps[s] = plans[d.latest].steps[s]
        /\ \A q \in PlanId \ {d.latest} : plans'[q] = plans[q]
        /\ session'.phase = transitionForPlanOutcome(Outcome(plans'[d.latest].steps))
    BY <1>2 DEF RoundForm
  <1>6. Dense(plans', n)
    BY <1>1, <1>2, DenseKept
  <1>7. \A s \in Round : s \in Fanout
    BY DEF Round
  <1>8. Going(session', plans', n)
    <2>1. SUFFICES ASSUME ~isTerminalPhase(session'.phase)
                   PROVE  /\ n > 0 => Workable(plans'[n].steps)
                          /\ \A p \in PlanId, s \in Step :
                               Stuck(s, plans'[p].steps[s]) => s \in Fanout /\ MaxConcurrency > 1
      BY DEF Going
    <2>2. session'.phase \notin {"complete", "failed"}
      BY <2>1 DEF isTerminalPhase, TerminalPhase
    <2>3. Workable(plans'[d.latest].steps)
      <3>1. Outcome(plans'[d.latest].steps) = "continue"
        BY <1>5, <2>2, OutcomeKinds
      <3>2. \A s \in Step :
              plans'[d.latest].steps[s].status \in {"pending", "completed", "failed"}
        BY <1>3 DEF AttemptInv, StepGood
      <3> QED BY <3>1, <3>2, ContinueMeans
    <2>4. ASSUME n > 0 PROVE Workable(plans'[n].steps)
      <3>1. CASE d.latest = n
        BY <2>3, <3>1
      <3>2. CASE d.latest # n
        <4>1. plans'[n] = plans[n]
          BY <1>1, <1>5, <2>4, <3>2
        <4> QED BY <1>1, <1>4, <2>4, <4>1 DEF Going
      <3> QED BY <3>1, <3>2
    <2>5. ASSUME NEW p \in PlanId, NEW s \in Step
          PROVE  Stuck(s, plans'[p].steps[s]) => s \in Fanout /\ MaxConcurrency > 1
      <3>1. Stuck(s, plans[p].steps[s]) => s \in Fanout /\ MaxConcurrency > 1
        BY <1>1, <1>4 DEF Going
      <3>2. CASE s \in Round
        BY <1>4, <1>7, <3>2
      <3>3. CASE s \notin Round
        <4>1. plans'[p].steps[s] = plans[p].steps[s]
          BY <1>5, <3>3
        <4> QED BY <3>1, <4>1
      <3> QED BY <3>2, <3>3
    <2> QED BY <2>4, <2>5
  <1>9. JudgedOn(d', n) /\ ContinueGood(d', plans')
    BY <1>2, QuietContinue DEF JudgedOn
  <1>10. GaveUp(last', d', plans')
    <2>1. last' = "over" \/ (last' = last /\ d.pc # "idle")
      BY <1>2
    <2> QED BY <1>0, <2>1 DEF GaveUp
  <1> QED BY <1>2, <1>6, <1>8, <1>9, <1>10, ContinueFrom

LEMMA ContinueStep ==
    ASSUME ContinueInv, [Next]_vars
    PROVE  ContinueInv'
  <1>0. AttemptInv'
    BY AttemptStep DEF ContinueInv
  <1>1. CASE \/ PlanningStep \/ PlanningFailure \/ StartRun \/ Loop
             \/ StepRefused \/ StepAllowed \/ PrepareRound \/ RunRound \/ Crash
    BY <1>0, <1>1, ContinueQuietSteps
  <1>2. CASE \E a \in Planner : InsertPlan(a)
    BY <1>0, <1>2, ContinueInsert
  <1>3. CASE Select
    BY <1>0, <1>3, ContinueSelect
  <1>4. CASE StepDenied
    BY <1>0, <1>4, ContinueDenied
  <1>5. CASE \E raw, verdict \in BOOLEAN : RunTool(raw, verdict)
    BY <1>0, <1>5, ContinueTool, Zenon
  <1>6. CASE PersistStep
    BY <1>0, <1>6, ContinuePersist
  <1>7. CASE \E verdict \in BOOLEAN : PersistRound(verdict)
    BY <1>0, <1>7, ContinueRound, Zenon
  <1>8. CASE \E p \in Stored, s \in Step : BackoffElapses(p, s)
    BY <1>0, <1>8, ContinueBackoff
  <1>9. CASE UNCHANGED vars
    BY <1>0, <1>9, ContinueQuiet DEF vars, ContinueInv
  <1> QED BY <1>1, <1>2, <1>3, <1>4, <1>5, <1>6, <1>7, <1>8, <1>9, NextCases, Zenon

(* Whatever the strategies of the steps and of a group, the driver gives   *)
(* up on a session that is not over for want of a step it may run          *)
(* (session_driver.go:101, budgets.go:38) in one case only: a target that  *)
(* is to be retried or reinspected has used up its attempts in a           *)
(* concurrent round.                                                       *)
THEOREM NoCallIsStuck == Spec => []NoDeadEnd
  <1>1. Spec => []ContinueInv
    BY ContinueInit, ContinueStep, PTL DEF Spec
  <1>2. ContinueInv => NoDeadEnd
    BY DEF ContinueInv, GaveUp, Stranded, Stuck, NoDeadEnd, Stored, exhausted
  <1> QED BY <1>1, <1>2, PTL
=============================================================================
