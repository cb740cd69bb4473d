------------------------------- MODULE Driver -------------------------------
(***************************************************************************)
(* The session driver and the fan-out scheduler: one process that holds    *)
(* the session's lease reads the session and its latest plan, makes a plan *)
(* when there is none or a step asks for a new one, selects a step, and    *)
(* runs it alone or, with the other targets of its node, as a concurrent   *)
(* round, until the session is over.  Clients create plans beside it.      *)
(*                                                                         *)
(*   pkg/harness/runtime/session_driver.go, fanout_scheduler.go,           *)
(*   planning.go, plan_identity.go, program_verify_runtime.go, budgets.go  *)
(*   pkg/harness/plan/store.go, internal/postgres/planrepo                 *)
(*                                                                         *)
(* The driver is the only writer of the session and of the steps of a      *)
(* plan: SessionLease has the lease behind that, StepRun approvals and     *)
(* aborts.  What a run persists is one transaction, lost as a whole when   *)
(* the process dies or its lease is gone.                                  *)
(***************************************************************************)
EXTENDS PlanOutcome, FiniteSets

CONSTANTS
    Client,             \* processes that create plans
    AggregateScope,     \* TRUE: the group's verify scope is the aggregate
    MaxConcurrency,     \* aggregate_max_concurrency
    Backoff,            \* the steps with on_fail.backoff_ms > 0
    Policy,             \* decisions the policy evaluator may give
    MaxPlanRevisions,   \* LoopBudgets.MaxPlanRevisions
    FreshIds,           \* TRUE: no step id appears in two plans
    MaxPlans,           \* bound: plans stored, further ones are refused
    MaxCrashes          \* bound

ASSUME DriverAssumption ==
    /\ IsFiniteSet(Step) /\ Step # {}
    /\ "driver" \notin Client
    /\ Policy \subseteq {"allow", "deny"}
    /\ Backoff \subseteq Step
    /\ {AggregateScope, FreshIds} \subseteq BOOLEAN
    /\ MaxPlanRevisions \in Nat \ {0}
    /\ {MaxConcurrency, MaxPlans, MaxCrashes} \subseteq Nat

VARIABLES
    session,    \* the session record
    plans,      \* plans[p]: the plan stored p-th
    planning,   \* planning[a]: the plan a is creating
    d,          \* the driver's call
    last,       \* why the driver's last call ended
    invoked,    \* invoked[p][s]: tool calls made for step s of plan p
    judged,     \* judged[p]: whether the group was judged at its last change
    wrote,      \* the plan whose step was stored last
    crashes

vars == <<session, plans, planning, d, last, invoked, judged, wrote, crashes>>

NoPlan == 0
NoId == <<0, 0>>
PlanId == 1..MaxPlans
PlanRef == PlanId \cup {NoPlan}

(* A step's id.  The ids of a compiled program are made from those of its  *)
(* nodes and targets, so that the next plan has them again; a planner that *)
(* names its steps itself may draw fresh ones.                             *)
stepId(p, s) == IF FreshIds THEN <<p, s>> ELSE <<1, s>>
StepId == {NoId} \cup {stepId(p, s) : p \in PlanId, s \in Step}

(* findPlanStepByID: the step of plan p with the id, NoStep for none.      *)
findPlanStepByID(p, id) ==
    IF id # NoId /\ (FreshIds => id[1] = p) THEN id[2] ELSE NoStep

SessionRecord == [phase : {"received", "prepare", "plan", "recover",
                           "complete", "failed"},
                  exec : {"idle", "in_flight"},
                  current : StepId, inFlight : StepId,
                  plan : PlanRef]           \* the metadata's plan reference

(* wait: retry_not_before is in the future.                                *)
DriverStep == [status : StepStatus, attempt : Nat, wait : BOOLEAN]
FreshSteps == [s \in Step |-> [status |-> "pending", attempt |-> 0,
                               wait |-> FALSE]]

(* rev 0: no such plan.                                                    *)
PlanRecord == [rev : Nat, status : {"active", "completed", "failed"},
               steps : [Step -> DriverStep]]
AbsentPlan == [rev |-> 0, status |-> "active", steps |-> FreshSteps]

Planner == Client \cup {"driver"}

(* What the turns of the loop use up: revisions and attempts.              *)
Budget == [stored : SUBSET PlanId, attempts : [PlanId -> [Step -> Nat]]]

Member == {"out", "todo", "deny", "ok", "failed"}

Call == [pc : {"idle", "loop", "plan", "select", "step", "tool",
               "persist", "round", "launch", "gather"},
         then : {"select", "loop"},  \* where planning returns to
         seen : SessionRecord,       \* the session as the loop read it
         latest : PlanRef,           \* the latest plan then
         plan : PlanRef, step : Step \cup {NoStep},  \* the step selected
         spec : DriverStep,          \* and its outcome
         next : SessionRecord,       \* the session record to write
         group : [Step -> Member],   \* the fan-out round
         judged : PlanRef,           \* the plan the outcome was judged on
         mark : SUBSET Budget]       \* what was used up at the last turn

NewSession == [phase |-> "received", exec |-> "idle", current |-> NoId,
               inFlight |-> NoId, plan |-> NoPlan]

NoCall == [pc |-> "idle", then |-> "select", seen |-> NewSession,
           latest |-> NoPlan, plan |-> NoPlan, step |-> NoStep,
           spec |-> FreshSteps[CHOOSE s \in Step : TRUE], next |-> NewSession,
           group |-> [s \in Step |-> "out"], judged |-> NoPlan,
           mark |-> {}]

Init ==
    /\ session = NewSession
    /\ plans = [p \in PlanId |-> AbsentPlan]
    /\ planning = [a \in Planner |-> [pc |-> "idle", rev |-> 0]]
    /\ d = NoCall
    /\ last = "none"
    /\ invoked = [p \in PlanId |-> [s \in Step |-> 0]]
    /\ judged = [p \in PlanId |-> "no"]
    /\ wrote = NoPlan
    /\ crashes = 0

(* The call ends, for the reason why.                                      *)
Return(why) == /\ d' = [NoCall EXCEPT !.judged = d.judged]
               /\ last' = why

----------------------------------------------------------------------------
(* The plan store and plan creation.                                       *)

Stored == {p \in PlanId : plans[p].rev # 0}

LatestBySession == {p \in Stored : \A q \in Stored : plans[q].rev <= plans[p].rev}

latestRevision == IF Stored = {} THEN 0
                  ELSE plans[CHOOSE p \in LatestBySession : TRUE].rev

Spent == [stored |-> Stored,
          attempts |-> [p \in PlanId |-> [s \in Step |-> plans[p].steps[s].attempt]]]

SetPlanning(a, call) == planning' = [planning EXCEPT ![a] = call]

PlanningEnds(a) == SetPlanning(a, [pc |-> "idle", rev |-> 0])

PlanningFails(a) ==
    /\ PlanningEnds(a)
    /\ IF a = "driver" THEN Return("no_plan") ELSE UNCHANGED <<d, last>>
    /\ UNCHANGED <<session, plans, invoked, judged, wrote, crashes>>

(* CreatePlan or CreatePlanFromPlanner of a client.                        *)
CreatePlan(c) ==
    /\ planning[c].pc = "idle"
    /\ Stored # PlanId
    /\ SetPlanning(c, [pc |-> "check", rev |-> 0])
    /\ UNCHANGED <<session, plans, d, last, invoked, judged, wrote, crashes>>

(* The planner has no step to offer, or fails.                             *)
PlannerFails(a) == planning[a].pc = "check" /\ PlanningFails(a)

ensurePlanRevisionBudget(a) ==
    /\ planning[a].pc = "check"
    /\ latestRevision < MaxPlanRevisions
    /\ SetPlanning(a, [pc |-> "read", rev |-> 0])
    /\ UNCHANGED <<session, plans, d, last, invoked, judged, wrote, crashes>>

RevisionBudgetExceeded(a) ==
    /\ planning[a].pc = "check"
    /\ latestRevision >= MaxPlanRevisions
    /\ PlanningFails(a)

(* Create reads the latest revision a second time, then inserts.           *)
ReadRevision(a) ==
    /\ planning[a].pc = "read"
    /\ SetPlanning(a, [pc |-> "write", rev |-> latestRevision + 1])
    /\ UNCHANGED <<session, plans, d, last, invoked, judged, wrote, crashes>>

(* Variant: the in-memory store has no unique index.                       *)
AcceptsRevisionAlways(rev) == TRUE

(* The unique index on (session_id, revision).                             *)
AcceptsRevision(rev) == \A p \in Stored : plans[p].rev # rev

InsertPlan(a) ==
    LET p == Cardinality(Stored) + 1 IN
    /\ planning[a].pc = "write"
    /\ p \in PlanId /\ AcceptsRevision(planning[a].rev)
    /\ plans' = [plans EXCEPT ![p].rev = planning[a].rev]
    /\ PlanningEnds(a)
    /\ d' = IF a # "driver" THEN d
            ELSE IF d.then = "loop" THEN [d EXCEPT !.pc = "loop"]
            ELSE [d EXCEPT !.pc = "select", !.latest = p]
    /\ UNCHANGED <<session, last, invoked, judged, wrote, crashes>>

InsertRefused(a) ==
    /\ planning[a].pc = "write"
    /\ ~AcceptsRevision(planning[a].rev) \/ Stored = PlanId
    /\ PlanningFails(a)

----------------------------------------------------------------------------
(* The loop of runSession.                                                 *)

(* A worker claims the session and runs it; one that was in flight when    *)
(* its process died is recovered first (normalizeSessionForRecovery).      *)
StartRun ==
    LET found == session.exec = "in_flight" IN
    /\ d.pc = "idle"
    /\ ~isTerminalPhase(session.phase)
    /\ session' = [session EXCEPT
                     !.exec = "idle",
                     !.phase = IF found THEN "recover" ELSE @,
                     !.current = IF found /\ @ = NoId THEN session.inFlight ELSE @]
    /\ d' = [NoCall EXCEPT !.pc = "loop"]
    /\ last' = "none"
    /\ UNCHANGED <<plans, planning, invoked, judged, wrote, crashes>>

(* Read the session and its latest plan; make one if there is none.        *)
Loop ==
    /\ d.pc = "loop"
    /\ \/ /\ Stored = {}
          /\ d' = [d EXCEPT !.pc = "plan", !.then = "select", !.seen = session,
                            !.mark = {Spent}]
          /\ SetPlanning("driver", [pc |-> "check", rev |-> 0])
       \/ \E p \in LatestBySession :
          /\ d' = [d EXCEPT !.pc = "select", !.seen = session, !.latest = p,
                            !.mark = {Spent}]
          /\ UNCHANGED planning
    /\ UNCHANGED <<session, plans, last, invoked, judged, wrote, crashes>>

(* pinnedPlanForSession: the plan the session's metadata names, for a      *)
(* session that has a step.                                                *)
pinnedPlanForSession(st) ==
    IF (st.inFlight # NoId \/ st.current # NoId) /\ st.plan # NoPlan
    THEN st.plan ELSE NoPlan

(* The steps pinned by the session, in its pinned plan or else the latest. *)
PinnedStep ==
    LET pinned == pinnedPlanForSession(d.seen)
        p  == IF pinned = NoPlan THEN d.latest ELSE pinned
        st == [inFlight |-> findPlanStepByID(p, d.seen.inFlight),
               current  |-> findPlanStepByID(p, d.seen.current)]
    IN  {<<p, s>> : s \in pinnedStepForSession(st, plans[p].steps)}

SelectedStep ==
    IF PinnedStep # {} THEN PinnedStep
    ELSE {<<d.latest, s>> : s \in firstStep(plans[d.latest].steps)}

fanoutStepRunnable(s, spec) ==
    \/ spec.status = "pending"
    \/ /\ spec.status = "failed" /\ spec.attempt < allowedAttempts(s)
       /\ ~spec.wait

(* The members of the selected step's group that can run now, looked up in *)
(* the latest plan.                                                        *)
fanoutRoundForSelection(p, s) ==
    IF s \in Fanout /\ MaxConcurrency > 1 /\ (FreshIds => p = d.latest)
    THEN {m \in Fanout : fanoutStepRunnable(m, plans[d.latest].steps[m])}
    ELSE {}

Select ==
    /\ d.pc = "select"
    /\ \/ \E ps \in SelectedStep :
          LET round == fanoutRoundForSelection(ps[1], ps[2]) IN
          /\ d' = [d EXCEPT !.plan = ps[1], !.step = ps[2],
                            !.spec = plans[ps[1]].steps[ps[2]],
                            !.group = [m \in Step |-> IF m \in round THEN "todo"
                                                      ELSE "out"],
                            !.pc = IF Cardinality(round) > 1 THEN "round"
                                   ELSE "step"]
          /\ UNCHANGED <<planning, last>>
       \/ /\ SelectedStep = {}
          /\ IF NeedsPlanning(plans[d.latest].steps)
             THEN /\ d' = [d EXCEPT !.pc = "plan", !.then = "loop"]
                  /\ SetPlanning("driver", [pc |-> "check", rev |-> 0])
                  /\ UNCHANGED last
             ELSE Return("no_step") /\ UNCHANGED planning
    /\ UNCHANGED <<session, plans, invoked, judged, wrote, crashes>>

----------------------------------------------------------------------------
(* One step alone: runStepWithDecision.                                    *)

tried(spec) == [spec EXCEPT !.attempt = @ + 1, !.status = "running"]

(* The step's record with its verdict; a retry that is allowed waits.      *)
withVerdict(s, spec, verified, next) ==
    [spec EXCEPT !.status = IF verified THEN "completed" ELSE "failed",
                 !.wait = next \in {"recover", "prepare"} /\ s \in Backoff]

(* Variant: the plan keeps its status.                                     *)
planUpdatedStepsOnly(p, outcomes) ==
    LET steps == [s \in Step |-> IF s \in DOMAIN outcomes THEN outcomes[s]
                                 ELSE plans[p].steps[s]]
    IN  [plans EXCEPT ![p].steps = steps]

(* The plan with the outcomes of some steps in it, and its status.         *)
planUpdated(p, outcomes) ==
    LET steps == [s \in Step |-> IF s \in DOMAIN outcomes THEN outcomes[s]
                                 ELSE plans[p].steps[s]]
    IN  [plans EXCEPT ![p].steps = steps, ![p].status = planStatusForSpec(steps)]

(* The retry budget and the backoff are checked before the policy.         *)
StepAdmitted == /\ d.pc = "step"
                /\ d.spec.attempt < allowedAttempts(d.step)
                /\ ~d.spec.wait

StepRefused ==
    /\ d.pc = "step" /\ ~StepAdmitted
    /\ Return(IF d.spec.attempt < allowedAttempts(d.step) THEN "backoff"
              ELSE "exhausted")
    /\ UNCHANGED <<session, plans, planning, invoked, judged, wrote, crashes>>

StepDenied ==
    /\ StepAdmitted
    /\ "deny" \in Policy
    /\ plans' = planUpdated(d.plan, [s \in {d.step} |-> [tried(d.spec) EXCEPT !.status = "failed"]])
    /\ session' = [d.seen EXCEPT !.phase = "failed", !.exec = "idle",
                                 !.current = stepId(d.plan, d.step),
                                 !.inFlight = NoId, !.plan = d.plan]
    /\ judged' = IF d.step \in Fanout THEN [judged EXCEPT ![d.plan] = "no"]
                 ELSE judged
    /\ wrote' = d.plan
    /\ Return("over")
    /\ UNCHANGED <<planning, invoked, crashes>>

(* stepRefForSession: the plan named for a step id is the pinned one when  *)
(* it has such a step, else the latest.                                    *)
stepRefForSession(id) ==
    LET pinned == pinnedPlanForSession(session)
        latest == CHOOSE p \in LatestBySession : TRUE
    IN  IF pinned # NoPlan /\ findPlanStepByID(pinned, id) # NoStep THEN pinned
        ELSE IF findPlanStepByID(latest, id) # NoStep THEN latest
        ELSE session.plan

markedInFlight(id) ==
    [session EXCEPT !.exec = "in_flight", !.inFlight = id,
                    !.plan = stepRefForSession(id)]

StepAllowed ==
    /\ StepAdmitted
    /\ "allow" \in Policy
    /\ session' = markedInFlight(stepId(d.plan, d.step))
    /\ d' = [d EXCEPT !.pc = "tool", !.spec = tried(@)]
    /\ UNCHANGED <<plans, planning, last, invoked, judged, wrote, crashes>>

(* The tool is called and the result verified.  A step whose group is      *)
(* verified as a whole counts as its tool call did until the group is      *)
(* ready, and is then given the group's verdict.  The outcome is weighed   *)
(* against the plan that is the latest now.                                *)
RunTool(raw, verdict) ==
    LET latest == CHOOSE p \in LatestBySession : TRUE
        known  == findPlanStepByID(latest, stepId(d.plan, d.step)) # NoStep
        replaced(spec) == IF known THEN [plans[latest].steps EXCEPT ![d.step] = spec]
                          ELSE plans[latest].steps
        whole  == d.step \in Fanout /\ AggregateScope
        ready  == aggregateVerificationReady(replaced(withVerdict(d.step, d.spec, raw, "")))
        verified == IF ~whole THEN verdict ELSE raw /\ (ready => verdict)
        spec   == withVerdict(d.step, d.spec, verified, "")
        settled == verified \/ (Strategy[d.step] = "continue"
                                /\ spec.attempt >= allowedAttempts(d.step))
        next   == IF settled
                  THEN transitionForPlanOutcome(planExecutionOutcomeForSpec(replaced(spec)))
                  ELSE onFailTransition(d.step, spec)
    IN  /\ d.pc = "tool"
        /\ invoked' = [invoked EXCEPT ![d.plan][d.step] = @ + 1]
        /\ d' = [d EXCEPT !.pc = "persist", !.judged = latest,
                          !.spec = withVerdict(d.step, spec, verified, next),
                          !.next = [session EXCEPT !.phase = next, !.exec = "idle",
                                                   !.current = stepId(d.plan, d.step),
                                                   !.inFlight = NoId],
                          !.group[d.step] = IF whole /\ ready THEN "ok" ELSE "out"]
        /\ UNCHANGED <<session, plans, planning, last, judged, wrote, crashes>>

(* The call goes on, with the outcome judged on plan p, unless the session *)
(* is over.                                                                *)
Continue(st, p) ==
    IF isTerminalPhase(st.phase)
    THEN d' = [NoCall EXCEPT !.judged = p] /\ last' = "over"
    ELSE d' = [NoCall EXCEPT !.pc = "loop", !.judged = p, !.mark = d.mark] /\ UNCHANGED last

PersistStep ==
    /\ d.pc = "persist"
    /\ plans' = planUpdated(d.plan, [s \in {d.step} |-> d.spec])
    /\ session' = d.next
    /\ judged' = IF d.step \in Fanout
                 THEN [judged EXCEPT ![d.plan] =
                         IF d.group[d.step] = "ok" THEN "yes" ELSE "no"]
                 ELSE judged
    /\ wrote' = d.plan
    /\ Continue(d.next, d.judged)
    /\ UNCHANGED <<planning, invoked, crashes>>

----------------------------------------------------------------------------
(* A fan-out round.                                                        *)

Round == {m \in Fanout : d.group[m] # "out"}

(* runFanoutRound up to the launch: every member's policy decision, then   *)
(* the anchor is marked in flight.                                         *)
PrepareRound ==
    /\ d.pc = "round"
    /\ \E denied \in SUBSET Round :
         /\ denied # {} => "deny" \in Policy
         /\ denied # Round => "allow" \in Policy
         /\ d' = [d EXCEPT !.pc = "launch",
                           !.group = [m \in Step |-> IF m \in denied THEN "deny"
                                                     ELSE d.group[m]]]
    /\ session' = markedInFlight(stepId(d.plan, d.step))
    /\ UNCHANGED <<plans, planning, last, invoked, judged, wrote, crashes>>

(* executeFanoutPreparedSteps: the members run on their own, at most       *)
(* MaxConcurrency at a time, and share nothing; the round goes on when     *)
(* the last one is done.  A member's own verification is a verdict of its  *)
(* own.                                                                    *)
RunRound ==
    LET run == {m \in Round : d.group[m] = "todo"} IN
    /\ d.pc = "launch"
    /\ \E ok \in SUBSET run :
         d' = [d EXCEPT !.pc = "gather",
                        !.group = [m \in Step |-> IF m \in ok THEN "ok"
                                                  ELSE IF m \in run THEN "failed"
                                                  ELSE d.group[m]]]
    /\ invoked' = [invoked EXCEPT ![d.latest] =
                      [m \in Step |-> IF m \in run THEN @[m] + 1 ELSE @[m]]]
    /\ UNCHANGED <<session, plans, planning, last, judged, wrote, crashes>>

(* Variant: the attempt of a round is not counted.                         *)
memberOutcomeUncounted(m, verified) ==
    LET spec == [plans[d.latest].steps[m] EXCEPT !.status = "running"]
        outcome == [spec EXCEPT !.status = IF verified THEN "completed" ELSE "failed"]
    IN  withVerdict(m, spec, verified,
                    IF verified \/ d.group[m] = "deny" THEN ""
                    ELSE onFailTransition(m, outcome))

(* finalizeFanoutDenyOutcome, ...VerifiedOutcome, ...AggregatePendingOutcome.*)
memberOutcome(m, verified) ==
    LET spec == tried(plans[d.latest].steps[m])
        outcome == [spec EXCEPT !.status = IF verified THEN "completed" ELSE "failed"]
    IN  withVerdict(m, spec, verified,
                    IF verified \/ d.group[m] = "deny" THEN ""
                    ELSE onFailTransition(m, outcome))

replacePlanSteps(outcomes) ==
    [s \in Step |-> IF s \in Round THEN outcomes[s] ELSE plans[d.latest].steps[s]]

(* Once the group is ready, the verdict on it goes to the last member      *)
(* whose tool ran; nobody else's outcome depends on it.                    *)
finalizeFanoutAggregateOutcome(alone, ready, verdict) ==
    LET ran     == {m \in Round : d.group[m] \in {"ok", "failed"}}
        lastRun == CHOOSE m \in ran : \A r \in ran : r <= m
    IN  IF ~ready THEN alone
        ELSE [alone EXCEPT ![lastRun] =
                memberOutcome(lastRun, d.group[lastRun] = "ok" /\ verdict)]

(* The session as the loop read it, its plan reference included; only the  *)
(* version and the lease are taken from the record marked in flight.       *)
rebaseFanoutWorkingState == [d.seen EXCEPT !.exec = "idle", !.inFlight = NoId]

(* persistFanoutRound: verdict is what the verifier says of the group.     *)
(* The session follows the plan's outcome alone.                           *)
PersistRound(verdict) ==
    LET alone  == [m \in Round |-> memberOutcome(m, d.group[m] = "ok")]
        denied == \A m \in Round : d.group[m] = "deny"
        ready  == /\ AggregateScope
                  /\ ~denied
                  /\ aggregateVerificationReady(replacePlanSteps(alone))
        outcomes == finalizeFanoutAggregateOutcome(alone, ready, verdict)
        next   == transitionForPlanOutcome(planExecutionOutcomeForSpec(replacePlanSteps(outcomes)))
        anchor == CHOOSE m \in Round : \A r \in Round : r <= m
        st     == [rebaseFanoutWorkingState EXCEPT !.phase = next,
                                                   !.current = stepId(d.latest, anchor)]
    IN  /\ d.pc = "gather"
        /\ plans' = planUpdated(d.latest, outcomes)
        /\ session' = st
        /\ judged' = [judged EXCEPT ![d.latest] =
                         IF denied THEN "denied" ELSE IF ready THEN "yes" ELSE "no"]
        /\ wrote' = d.latest
        /\ Continue(st, d.latest)
        /\ UNCHANGED <<planning, invoked, crashes>>

----------------------------------------------------------------------------
(* The environment.                                                        *)

(* The process dies, or its lease is gone when it persists.  Before the    *)
(* session is marked in flight there is nothing to lose: a call that dies  *)
(* there leaves the stores as they were.                                   *)
Crash ==
    /\ d.pc \in {"tool", "persist", "launch", "gather"}
    /\ crashes < MaxCrashes
    /\ crashes' = crashes + 1
    /\ Return("crash")
    /\ UNCHANGED <<session, plans, planning, invoked, judged, wrote>>

BackoffElapses(p, s) ==
    /\ plans[p].steps[s].wait
    /\ plans' = [plans EXCEPT ![p].steps[s].wait = FALSE]
    /\ UNCHANGED <<session, planning, d, last, invoked, judged, wrote, crashes>>

(* One step of the driver's call.                                          *)
Drive ==
    \/ Loop \/ Select
    \/ PlannerFails("driver") \/ ensurePlanRevisionBudget("driver")
    \/ RevisionBudgetExceeded("driver") \/ ReadRevision("driver")
    \/ InsertPlan("driver") \/ InsertRefused("driver")
    \/ StepRefused \/ StepDenied \/ StepAllowed
    \/ \E raw, verdict \in BOOLEAN : RunTool(raw, verdict)
    \/ PersistStep
    \/ PrepareRound \/ RunRound
    \/ \E verdict \in BOOLEAN : PersistRound(verdict)

Next ==
    \/ StartRun \/ Drive \/ Crash
    \/ \E p \in Stored, s \in Step : BackoffElapses(p, s)
    \/ \E c \in Client :
         \/ CreatePlan(c) \/ PlannerFails(c) \/ ensurePlanRevisionBudget(c)
         \/ RevisionBudgetExceeded(c) \/ ReadRevision(c) \/ InsertPlan(c)
         \/ InsertRefused(c)

Spec == Init /\ [][Next]_vars

----------------------------------------------------------------------------
(* Properties.                                                             *)

(* Type invariant; in particular a plan reference always names a stored    *)
(* plan and a pinned step is looked up in one (plan_identity.go:45).       *)
TypeOK ==
    /\ session \in SessionRecord
    /\ session.plan # NoPlan => session.plan \in Stored
    /\ plans \in [PlanId -> PlanRecord]
    /\ planning \in [Planner -> [pc : {"idle", "check", "read", "write"}, rev : Nat]]
    /\ d \in Call
    /\ last \in {"none", "over", "no_step", "no_plan", "exhausted", "backoff", "crash"}
    /\ invoked \in [PlanId -> [Step -> Nat]]
    /\ judged \in [PlanId -> {"no", "yes", "denied"}]
    /\ wrote \in PlanRef
    /\ crashes \in 0..MaxCrashes

(* The steps of the plan the outcome was judged on, with the step that ran *)
(* last in the place of the one with its id (reconcileTransitionWithPlan). *)
judgedInPlace ==
    [plans[d.judged].steps EXCEPT
        ![session.current[2]] = plans[wrote].steps[session.current[2]]]

(* A session is complete only when the plan its outcome was judged on is   *)
(* stored as completed: the verdict is formed before the transaction that  *)
(* writes the plan, on another copy of it (plan_outcome.go:160,            *)
(* fanout_scheduler.go:459, runner.go:699).  The exception is a step of an *)
(* older plan whose id the latest plan has too: it is judged in the place  *)
(* of its namesake, which stays as it was.                                 *)
CompletePlan ==
    session.phase = "complete" =>
        \/ plans[d.judged].status = "completed"
        \/ /\ ~FreshIds /\ wrote # d.judged
           /\ planStatusForSpec(judgedInPlace) = "completed"

(* A group verified as a whole was verified after its last target settled, *)
(* whichever way each target ran: no session completes on an aggregate     *)
(* that was never judged or judged too early (program_verify_runtime.go:49,*)
(* fanout_scheduler.go:712).  A last round whose targets were all denied   *)
(* is the one way around the verdict (fanout_scheduler.go:449); a target   *)
(* of an older plan may be judged together with its namesake's group.      *)
AggregateJudged ==
    (session.phase = "complete" /\ AggregateScope /\ Fanout # {}) =>
        \/ judged[d.judged] # "no"
        \/ /\ ~FreshIds /\ wrote # d.judged
           /\ session.current[2] \in Fanout /\ judged[wrote] = "yes"

(* A step's tool is called at most as often as its retry budget allows,    *)
(* once more for every run that died before its attempt was stored.        *)
(* Attempts are counted on the driver's copy of the step and stored after  *)
(* the tool call (runner.go:296, fanout_scheduler.go:309).                 *)
ToolCallsBounded ==
    \A p \in PlanId, s \in Step : invoked[p][s] <= allowedAttempts(s) + crashes

(* The revisions of a session are 1, 2, ... without a gap or a duplicate,  *)
(* whoever plans at the same time: the number is taken from a read made    *)
(* before the insert (planrepo/repo.go:27).                                *)
RevisionsDense == {plans[p].rev : p \in Stored} = 1..Cardinality(Stored)

(* A driver that gives up leaves a session that is over, that waits for a  *)
(* backoff, or that could not be planned: it never finds a session that is *)
(* not over with no step it may run (session_driver.go:101, budgets.go:38).*)
(* The exception is a target that has used up its attempts in a concurrent *)
(* round and is neither let go nor planned anew, as with the default       *)
(* strategy: the round leaves the session open, and every further run is   *)
(* refused with ErrStepRetryBudgetExceeded.                                *)
NoDeadEnd ==
    /\ last # "no_step"
    /\ last = "exhausted" =>
          /\ MaxConcurrency > 1
          /\ \E p \in Stored, s \in Fanout :
                Strategy[s] \in {"retry", "reinspect"} /\ exhausted(plans[p].steps, s)

(* Every turn of the driver's loop uses up an attempt or a revision before *)
(* the next one starts, and none is given back, so that a call ends: both  *)
(* are bounded, and nothing else stops the loop (session_driver.go:32).    *)
TurnsProgress ==
    d.pc = "loop" =>
        \A m \in d.mark :
            /\ m # Spent
            /\ m.stored \subseteq Stored
            /\ \A p \in PlanId, s \in Step :
                 m.attempts[p][s] <= plans[p].steps[s].attempt
=============================================================================
