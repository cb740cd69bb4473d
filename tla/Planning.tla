------------------------------ MODULE Planning ------------------------------
(***************************************************************************)
(* From a planner or a program to the tool calls of one session.           *)
(*                                                                         *)
(*   pkg/harness/runtime/planning.go           CreatePlanFromPlanner       *)
(*   pkg/harness/runtime/compaction.go         context summaries           *)
(*   pkg/harness/runtime/capability_freeze.go  frozen capability views     *)
(*   pkg/harness/runtime/program_binding_resolution.go                     *)
(*   pkg/harness/capability, pkg/harness/tool  freezer, resolver, registry *)
(*   internal/postgres/{planning,capability,context,execution}repo         *)
(*                                                                         *)
(* Planners (each call of CreatePlanFromPlanner is one), a client that     *)
(* submits programs, a runner that runs the steps of the latest plan and   *)
(* the owner of the tool registry work side by side.  Which step the       *)
(* driver takes next, leases, approvals, budgets and plan revisions are    *)
(* the subject of Driver, StepRun and SessionLease.                        *)
(***************************************************************************)
EXTENDS ProgramCompile

CONSTANTS Planner,      \* calls of CreatePlanFromPlanner
          Version,      \* the numbered versions of the tool
          Def,          \* what a version's definition may say
          NoDef,        \* no definition was resolved
          Workloads,    \* the environments of a session, see Workload
          PlannedSteps, \* what PlanNext may return: a step or a program
          MaxAttempts   \* tries of a step

ASSUME VersionAssumption == Version \subseteq Nat \ {0}
ASSUME BoundAssumption ==
    MaxAttempts \in Nat \ {0}

VARIABLES
    todo,       \* what is still to happen in the session's environment
    registry,   \* the tool's versions, Registry.tools
    plans,      \* stored plans, in revision order
    snapshots,  \* stored capability snapshots
    records,    \* planning records by planning id
    summaries,  \* stored context summaries, numbered by sequence
    actions,    \* stored action records
    p,          \* the planners' calls
    r,          \* the runner's step
    refused,    \* programs that were not compiled, and why
    now

vars == <<todo, registry, plans, snapshots, records, summaries, actions, p, r,
          refused, now>>

Registry == [Version -> [reg : {"absent", "enabled", "disabled"}, def : Def]]

(* A session's environment: the registry it finds, the planners and the    *)
(* programs it is given, the effective max_steps of a planning, whether    *)
(* the unit of work is a transaction or the default MemoryUnitOfWork,      *)
(* which undoes nothing, and bounds on the changes of the registry, the    *)
(* faults and the passing of time.                                         *)
ASSUME WorkloadAssumption ==
    \A w \in Workloads : /\ w.registry \in Registry
                         /\ w.planners \subseteq Planner
                         /\ {w.changes, w.faults, w.ticks, w.maxSteps} \subseteq Nat
                         /\ w.planners # {} => w.maxSteps > 0
                         /\ w.atomic \in BOOLEAN
                         /\ IsSequence(w.programs)
                         /\ \A i \in DOMAIN w.programs : /\ w.programs[i].path \in Path
                                                         /\ IsProgram(w.programs[i].program)
                         /\ DOMAIN w = {"registry", "planners", "programs", "maxSteps",
                                        "atomic", "changes", "faults", "ticks"}
ASSUME PlannedAssumption ==
    \A s \in PlannedSteps : /\ s.attached \in BOOLEAN
                            /\ s.attached => IsProgram(s.program)
ASSUME ViewAssumption == NoView \notin Planner

EmptyView == [id |-> NoView, entries |-> {}]
NoRecord == [status |-> "none", plan |-> 0, view |-> NoView, summary |-> 0]
NoCall == [pc |-> "idle", view |-> EmptyView, steps |-> <<>>, summary |-> 0, prev |-> 0,
           at |-> 0, plan |-> 0]
NoRun == [pc |-> "idle", plan |-> 0, step |-> 0, bound |-> <<>>, last |-> "none",
          version |-> 0, def |-> NoDef, ok |-> FALSE, artifact |-> FALSE, at |-> 0]

Init ==
    /\ todo \in Workloads
    /\ registry = todo.registry
    /\ plans = <<>> /\ snapshots = {} /\ summaries = <<>> /\ actions = <<>>
    /\ records = [c \in Planner |-> NoRecord]
    /\ p = [c \in Planner |-> NoCall]
    /\ r = NoRun
    /\ refused = {}
    /\ now = 0
-----------------------------------------------------------------------------
(* The tool registry.                                                      *)
Register(v, def, reg) ==
    /\ todo.changes > 0
    /\ registry[v] # [reg |-> reg, def |-> def]
    /\ registry' = [registry EXCEPT ![v] = [reg |-> reg, def |-> def]]
    /\ todo' = [todo EXCEPT !.changes = @ - 1]
    /\ UNCHANGED <<plans, snapshots, records, summaries, actions, p, r,
                   refused, now>>

registered == {v \in Version : registry[v].reg # "absent"}

(* The version a request names, or the highest one there is.               *)
registryResolve(version) ==
    IF version # 0 THEN registered \cap {version}
    ELSE {v \in registered : \A o \in registered : o <= v}

(* What the resolver answers: an error, or the version and its definition. *)
resolve(version) ==
    IF registryResolve(version) = {} THEN [err |-> "not_found", version |-> 0, def |-> NoDef]
    ELSE LET v == CHOOSE x \in registryResolve(version) : TRUE
         IN IF registry[v].reg = "disabled" THEN [err |-> "disabled", version |-> 0, def |-> NoDef]
            ELSE [err |-> "none", version |-> v, def |-> registry[v].def]

Freeze(c) ==
    [id |-> c, entries |-> {[version |-> v, def |-> registry[v].def] :
                            v \in {x \in Version : registry[x].reg = "enabled"}}]
-----------------------------------------------------------------------------
(* Context summaries.  Variant: within a millisecond any order will do.    *)
listedBeforeByTime(i, j) ==
    \/ summaries[i].at < summaries[j].at
    \/ summaries[i].at = summaries[j].at /\ j <= i

(* List orders them by time and, within a millisecond, by sequence.        *)
listedBefore(i, j) ==
    \/ summaries[i].at < summaries[j].at
    \/ summaries[i].at = summaries[j].at /\ i <= j

latestContextSummary ==
    IF summaries = <<>> THEN 0
    ELSE CHOOSE i \in DOMAIN summaries : \A j \in DOMAIN summaries : listedBefore(j, i)

(* The planner's context is assembled and the latest summary attached.     *)
AssembleContext(c) ==
    /\ p[c].pc = "context"
    /\ p' = [p EXCEPT ![c].pc = "compact", ![c].prev = latestContextSummary]
    /\ UNCHANGED <<todo, registry, plans, snapshots, records, summaries, actions, r,
                   refused, now>>

afterContext(call) == IF call.view = EmptyView THEN "freeze"
                      ELSE IF Len(call.steps) = todo.maxSteps THEN "create" ELSE "next"

(* The compactor makes a summary or none.  A store stamps what it is given *)
(* with the time before it locks or inserts.                               *)
CompactContext(c) ==
    /\ p[c].pc = "compact"
    /\ \/ p' = [p EXCEPT ![c].pc = afterContext(p[c])]
       \/ p' = [p EXCEPT ![c].pc = "store", ![c].at = now]
    /\ UNCHANGED <<todo, registry, plans, snapshots, records, summaries, actions, r,
                   refused, now>>

(* The summary is stored by itself and given its sequence number.          *)
persistContextSummary(c) ==
    /\ p[c].pc = "store"
    /\ summaries' = Append(summaries, [prev |-> p[c].prev, own |-> p[c].summary,
                                       at |-> p[c].at])
    /\ p' = [p EXCEPT ![c].pc = afterContext(p[c]), ![c].summary = Len(summaries')]
    /\ UNCHANGED <<todo, registry, plans, snapshots, records, actions, r,
                   refused, now>>
-----------------------------------------------------------------------------
(* CreatePlanFromPlanner.                                                  *)
StartPlanning(c) ==
    /\ c \in todo.planners /\ p[c].pc = "idle"
    /\ p' = [p EXCEPT ![c].pc = "context"]
    /\ UNCHANGED <<todo, registry, plans, snapshots, records, summaries, actions, r,
                   refused, now>>

FreezeCapabilityView(c) ==
    /\ p[c].pc = "freeze"
    /\ p' = [p EXCEPT ![c].pc = "next", ![c].view = Freeze(c)]
    /\ UNCHANGED <<todo, registry, plans, snapshots, records, summaries, actions, r,
                   refused, now>>

(* The planner returns a step, which is pinned to the view, or it has none *)
(* left and the steps so far make the plan.                                *)
PlanNext(c) ==
    /\ p[c].pc = "next"
    /\ \/ \E s \in PlannedSteps : p' = [p EXCEPT ![c].pc = "context", ![c].steps = Append(@, s)]
       \/ /\ p[c].steps # <<>>
          /\ p' = [p EXCEPT ![c].pc = "create"]
    /\ UNCHANGED <<todo, registry, plans, snapshots, records, summaries, actions, r,
                   refused, now>>

(* A planned step stands for itself or has a program attached.             *)
expandProgramStep(step, view) ==
    IF step.attached THEN compile(step.program, "attached", view)
    ELSE [err |-> "none",
          steps |-> <<pinStepToCapabilityView(stepFromProgramNode(step.node, NoTarget, 0), view)>>]

normalizePlanSteps(steps, view) ==
    LET expanded == [i \in DOMAIN steps |-> expandProgramStep(steps[i], view)]
    IN [err |-> IF \A i \in DOMAIN expanded : expanded[i].err = "none" THEN "none" ELSE "refused",
        steps |-> FlattenSeq([i \in DOMAIN expanded |-> expanded[i].steps])]

snapshot(scope, viewID, version, def) ==
    [scope |-> scope, view |-> viewID, version |-> version, def |-> def]

planSnapshots(view) == {snapshot("plan", view.id, e.version, e.def) : e \in view.entries}

planningRecord(call, status, planID) ==
    [status |-> status, plan |-> planID, view |-> call.view.id, summary |-> call.summary]

plannedPlan(c) ==
    [by |-> c, view |-> p[c].view, steps |-> normalizePlanSteps(p[c].steps, p[c].view).steps,
     path |-> "planner", program |-> NoId]

compiles(c) == normalizePlanSteps(p[c].steps, p[c].view).err = "none"

(* The plan, the snapshots of its view, the record of the planning and the *)
(* event are written in one transaction.                                   *)
createPlanWithCapabilityView(c) ==
    /\ todo.atomic
    /\ p[c].pc = "create" /\ compiles(c)
    /\ plans' = Append(plans, plannedPlan(c))
    /\ snapshots' = snapshots \cup planSnapshots(p[c].view)
    /\ records' = [records EXCEPT ![c] = planningRecord(p[c], "completed", Len(plans'))]
    /\ p' = [p EXCEPT ![c].pc = "created"]
    /\ UNCHANGED <<todo, registry, summaries, actions, r, refused, now>>

(* With the MemoryUnitOfWork they are written one after the other, in full *)
(* view of the others: the plan,                                           *)
createPlanInMemory(c) ==
    /\ ~ todo.atomic
    /\ p[c].pc = "create" /\ compiles(c)
    /\ plans' = Append(plans, plannedPlan(c))
    /\ p' = [p EXCEPT ![c].pc = "snapshots", ![c].plan = Len(plans')]
    /\ UNCHANGED <<todo, registry, snapshots, records, summaries, actions, r, refused, now>>

(* Variant: a snapshot that cannot be stored is passed over.               *)
persistCapabilityViewBestEffort(c) ==
    /\ p[c].pc = "snapshots"
    /\ \E stored \in SUBSET planSnapshots(p[c].view) : snapshots' = snapshots \cup stored
    /\ p' = [p EXCEPT ![c].pc = "record"]
    /\ UNCHANGED <<todo, registry, plans, records, summaries, actions, r, refused, now>>

(* the snapshots,                                                          *)
persistCapabilityViewInStore(c) ==
    /\ p[c].pc = "snapshots"
    /\ LET left == planSnapshots(p[c].view) \ snapshots
       IN \/ /\ \E s \in left : snapshots' = snapshots \cup {s}
             /\ UNCHANGED p
          \/ /\ left = {}
             /\ p' = [p EXCEPT ![c].pc = "record"]
             /\ UNCHANGED snapshots
    /\ UNCHANGED <<todo, registry, plans, records, summaries, actions, r, refused, now>>

(* the record                                                              *)
createPlanningRecord(c) ==
    /\ p[c].pc = "record"
    /\ records' = [records EXCEPT ![c] = planningRecord(p[c], "completed", p[c].plan)]
    /\ p' = [p EXCEPT ![c].pc = "event"]
    /\ UNCHANGED <<todo, registry, plans, snapshots, summaries, actions, r, refused, now>>

(* and the event.                                                          *)
emitPlanGenerated(c) ==
    /\ p[c].pc = "event"
    /\ p' = [p EXCEPT ![c].pc = "created"]
    /\ UNCHANGED <<todo, registry, plans, snapshots, records, summaries, actions, r,
                   refused, now>>

(* The plan is not made: the compiler refuses, or a write fails.           *)
CreateFails(c) ==
    /\ p[c].pc \in {"create", "snapshots", "record", "event"}
    /\ \/ /\ p[c].pc = "create" /\ ~ compiles(c)
          /\ UNCHANGED todo
       \/ /\ todo.faults > 0
          /\ todo' = [todo EXCEPT !.faults = @ - 1]
    /\ p' = [p EXCEPT ![c].pc = "failed"]
    /\ UNCHANGED <<registry, plans, snapshots, records, summaries, actions, r,
                   refused, now>>

(* Anything before that may fail too: the session, its budget, the task,   *)
(* the compactor, the summaries, the freezer, the planner's first step.    *)
PlanningFails(c) ==
    /\ p[c].pc \in {"context", "compact", "store", "freeze", "next"}
    /\ p[c].pc = "next" => p[c].steps = <<>>
    /\ todo.faults > 0
    /\ todo' = [todo EXCEPT !.faults = @ - 1]
    /\ p' = [p EXCEPT ![c].pc = "failed"]
    /\ UNCHANGED <<registry, plans, snapshots, records, summaries, actions, r,
                   refused, now>>

(* The failure is recorded on its own; that write may fail as well.        *)
joinPlanningPersistenceError(c) ==
    /\ p[c].pc = "failed"
    /\ p' = [p EXCEPT ![c].pc = "done"]
    /\ \/ /\ records' = [records EXCEPT ![c] = planningRecord(p[c], "failed", 0)]
          /\ UNCHANGED todo
       \/ /\ todo.faults > 0
          /\ todo' = [todo EXCEPT !.faults = @ - 1]
          /\ UNCHANGED records
    /\ UNCHANGED <<registry, plans, snapshots, summaries, actions, r,
                   refused, now>>

(* The process that plans ends.                                            *)
PlannerCrash(c) ==
    /\ p[c].pc \notin {"idle", "created", "done"}
    /\ todo.faults > 0
    /\ todo' = [todo EXCEPT !.faults = @ - 1]
    /\ p' = [p EXCEPT ![c] = [NoCall EXCEPT !.pc = "done"]]
    /\ UNCHANGED <<registry, plans, snapshots, records, summaries, actions, r,
                   refused, now>>

(* CreatePlanFromProgram, and CreatePlan with an attached program.         *)
CreatePlanFromProgram ==
    /\ todo.programs # <<>>
    /\ LET input == Head(todo.programs)
           made == compile(input.program, input.path, EmptyView)
       IN /\ IF made.err = "none"
             THEN /\ plans' = Append(plans, [by |-> NoView, view |-> EmptyView, steps |-> made.steps,
                                             path |-> input.path, program |-> input.program])
                  /\ UNCHANGED refused
             ELSE /\ refused' = refused \cup {[input |-> input, err |-> made.err]}
                  /\ UNCHANGED plans
    /\ todo' = [todo EXCEPT !.programs = Tail(@)]
    /\ UNCHANGED <<registry, snapshots, records, summaries, actions, p, r,
                   now>>
-----------------------------------------------------------------------------
(* Output references.  The runs of a node are found by its id in all the   *)
(* session's records; a run on the step's own target is preferred, a run   *)
(* on another one put last, and of those the one that finished last taken. *)
(* Which of several that finished in the same millisecond is open: the     *)
(* action ids are random.                                                  *)
programOutputRefMatchesStep(a, ref) == a.node = ref

(* Variant: the step's target does not count.                              *)
scoreAnyTarget(step, a) == 0

score(step, a) ==
    IF step.target = NoTarget \/ a.target = NoTarget THEN 0
    ELSE IF a.target = step.target THEN 10 ELSE -5

preferred(step, found) ==
    {i \in found : \A j \in found :
        \/ score(step, actions[j]) < score(step, actions[i])
        \/ score(step, actions[j]) = score(step, actions[i]) /\ actions[j].at <= actions[i].at}

listActionRecords(ref) == {i \in DOMAIN actions : programOutputRefMatchesStep(actions[i], ref)}

findProgramOutputAction(step, ref) == preferred(step, listActionRecords(ref))

(* The artifact of an action, if it left one, has the action's metadata    *)
(* and the time at which it finished.                                      *)
programOutputRefMatchesArtifact(a, ref) == a.artifact /\ a.node = ref

listArtifactRecords(ref) == {i \in DOMAIN actions : programOutputRefMatchesArtifact(actions[i], ref)}

resolveProgramArtifactHandle(step, ref) == preferred(step, listArtifactRecords(ref))

(* "output_ref" asks for the whole structured result of a run, "text" for  *)
(* a text, bytes or a path in it, which the result may not have.           *)
resolveProgramOutputRef(step, b) ==
    IF b.kind = "artifact" THEN resolveProgramArtifactHandle(step, b.ref)
    ELSE findProgramOutputAction(step, b.ref)

outputMissing(b) == b.kind = "text"

(* The materializer writes a file and may fail; 0 stands for the file,     *)
(* which needs no earlier run.                                             *)
materializeProgramAttachment == {0}

materializeFails(b) == b.kind = "materialize"

resolveProgramBindingValue(step, b) ==
    IF b.kind = "materialize" THEN materializeProgramAttachment ELSE resolveProgramOutputRef(step, b)
-----------------------------------------------------------------------------
(* The runner.                                                             *)
Step(run) == plans[run.plan].steps[run.step]

(* The first step that is pending, or a failed one that may be tried again.*)
runnable(steps) ==
    {k \in DOMAIN steps :
        \/ steps[k].status = "pending" /\ \A j \in 1 .. k - 1 : steps[j].status # "pending"
        \/ steps[k].status = "failed" /\ steps[k].onFail = "retry" /\ steps[k].attempt < MaxAttempts}

SelectStep ==
    /\ r.pc = "idle"
    /\ plans # <<>>
    /\ \E k \in runnable(Last(plans).steps) :
          r' = [NoRun EXCEPT !.pc = "resolve", !.plan = Len(plans), !.step = k]
    /\ UNCHANGED <<todo, registry, plans, snapshots, records, summaries, actions, p,
                   refused, now>>

(* A step that carries a program is refused, and so is one whose bindings  *)
(* cannot be given a value; nothing of it is stored.                       *)
ResolveBindings ==
    /\ r.pc = "resolve"
    /\ LET binds == Step(r).binds
       IN \/ /\ Step(r).program
             /\ r' = [r EXCEPT !.pc = "idle", !.last = "not_compiled"]
          \/ /\ ~ Step(r).program
             /\ \E i \in DOMAIN binds : resolveProgramBindingValue(Step(r), binds[i]) = {}
             /\ r' = [r EXCEPT !.pc = "idle", !.last = "unbound"]
          \/ /\ ~ Step(r).program
             /\ \E i \in DOMAIN binds : outputMissing(binds[i]) \/ materializeFails(binds[i])
             /\ r' = [r EXCEPT !.pc = "idle", !.last = "no_value"]
          \/ /\ ~ Step(r).program
             /\ \E bound \in [DOMAIN binds -> 0 .. Len(actions)] :
                   /\ \A i \in DOMAIN binds :
                         bound[i] \in resolveProgramBindingValue(Step(r), binds[i])
                   /\ r' = [r EXCEPT !.pc = "invoke", !.bound = bound]
    /\ UNCHANGED <<todo, registry, plans, snapshots, records, summaries, actions, p,
                   refused, now>>

(* The snapshot a pinned step must be run with.                            *)
listPlanSnapshots(viewID) == {s \in snapshots : s.scope = "plan" /\ s.view = viewID}

frozenCapabilityEntryForStep(step) ==
    {s \in listPlanSnapshots(step.view) : step.version # 0 => s.version = step.version}

(* Variant: only the version is compared.                                  *)
validateFrozenCapabilityVersion(frozen, res) == frozen.version = res.version

validateFrozenCapabilityResolution(frozen, res) ==
    frozen.version = res.version /\ frozen.def = res.def

resolveCapability(step) ==
    LET frozen == frozenCapabilityEntryForStep(step)
        failed == [err |-> "drift", version |-> 0, def |-> NoDef]
    IN IF step.view = NoView THEN resolve(step.version)
       ELSE IF frozen = {} THEN failed
       ELSE LET f == CHOOSE x \in frozen : TRUE
                res == resolve(f.version)
            IN IF res.err = "none" /\ ~ validateFrozenCapabilityResolution(f, res) THEN failed
               ELSE res

settleStep(status) ==
    plans' = [plans EXCEPT ![r.plan].steps[r.step].status = status,
                           ![r.plan].steps[r.step].attempt = @ + 1]

(* The policy denies the step: it has failed and there is no action.  In a *)
(* round with other targets the session goes on; alone it fails.  A write  *)
(* that fails leaves nothing, or without transactions the failed step.     *)
DenyStep ==
    /\ r.pc = "invoke"
    /\ \/ /\ settleStep("failed")
          /\ \E pc \in {"over"} \cup (IF Step(r).target = NoTarget THEN {} ELSE {"idle"}) :
                r' = [NoRun EXCEPT !.pc = pc]
          /\ UNCHANGED todo
       \/ /\ todo.faults > 0
          /\ todo' = [todo EXCEPT !.faults = @ - 1]
          /\ r' = NoRun
          /\ UNCHANGED plans \/ (~ todo.atomic /\ settleStep("failed"))
    /\ UNCHANGED <<registry, snapshots, records, summaries, actions, p, refused, now>>

(* The tool is called, unless its capability cannot be resolved; either    *)
(* way the action is finished.  A result with data, metadata or an error   *)
(* becomes an artifact.                                                    *)
InvokeTool ==
    /\ r.pc = "invoke"
    /\ LET res == resolveCapability(Step(r))
       IN \E ok \in (IF res.err = "none" THEN BOOLEAN ELSE {FALSE}),
             artifact \in (IF res.err = "none" THEN BOOLEAN ELSE {TRUE}) :
             r' = [r EXCEPT !.pc = "persist", !.version = res.version, !.def = res.def,
                            !.ok = ok, !.artifact = artifact, !.at = now, !.last = res.err]
    /\ UNCHANGED <<todo, registry, plans, snapshots, records, summaries, actions, p,
                   refused, now>>

(* What the verification of the step may say.  Without checks it always    *)
(* succeeds; in aggregate scope the action's own success is needed, and    *)
(* the checks count only for the group.                                    *)
verdicts(step, ok) ==
    IF step.scope = "aggregate"
    THEN (IF ok /\ step.aggregateVerify THEN BOOLEAN ELSE {ok})
    ELSE (IF step.verify THEN BOOLEAN ELSE {TRUE})

actionRecord(run) ==
    [plan |-> run.plan, step |-> run.step, node |-> Step(run).node, target |-> Step(run).target,
     version |-> run.version, def |-> run.def, bound |-> run.bound, artifact |-> run.artifact,
     at |-> run.at]

verifyStep ==
    \E verified \in verdicts(Step(r), r.ok) :
        settleStep(IF verified THEN "completed" ELSE "failed")

(* Step, action, artifact and snapshot are written in one transaction.     *)
PersistStep ==
    /\ r.pc = "persist"
    /\ verifyStep
    /\ actions' = Append(actions, actionRecord(r))
    /\ snapshots' = IF r.def = NoDef THEN snapshots
                    ELSE snapshots \cup {snapshot("action", Step(r).view, r.version, r.def)}
    /\ r' = NoRun
    /\ UNCHANGED <<todo, registry, records, summaries, p, refused, now>>

(* A write fails.  Without transactions the step is settled by then, and   *)
(* the action may be there, with its artifact or without.                  *)
PersistFails ==
    /\ r.pc = "persist"
    /\ todo.faults > 0
    /\ todo' = [todo EXCEPT !.faults = @ - 1]
    /\ \/ UNCHANGED <<plans, actions>>
       \/ /\ ~ todo.atomic
          /\ verifyStep
          /\ \/ UNCHANGED actions
             \/ \E stored \in {FALSE, r.artifact} :
                   actions' = Append(actions, [actionRecord(r) EXCEPT !.artifact = stored])
    /\ r' = NoRun
    /\ UNCHANGED <<registry, snapshots, records, summaries, p, refused, now>>

Tick ==
    /\ todo.ticks > 0
    /\ todo' = [todo EXCEPT !.ticks = @ - 1]
    /\ now' = now + 1
    /\ UNCHANGED <<registry, plans, snapshots, records, summaries, actions, p, r,
                   refused>>

Next ==
    \/ \E v \in Version, def \in Def, reg \in {"enabled", "disabled"} : Register(v, def, reg)
    \/ \E c \in Planner :
          \/ StartPlanning(c) \/ AssembleContext(c) \/ CompactContext(c)
          \/ persistContextSummary(c) \/ FreezeCapabilityView(c) \/ PlanNext(c)
          \/ createPlanWithCapabilityView(c) \/ createPlanInMemory(c)
          \/ persistCapabilityViewInStore(c) \/ createPlanningRecord(c) \/ emitPlanGenerated(c)
          \/ CreateFails(c) \/ PlanningFails(c) \/ joinPlanningPersistenceError(c)
          \/ PlannerCrash(c)
    \/ CreatePlanFromProgram
    \/ SelectStep \/ ResolveBindings \/ DenyStep \/ InvokeTool \/ PersistStep \/ PersistFails
    \/ Tick

Spec == Init /\ [][Next]_vars
-----------------------------------------------------------------------------
(* Properties.                                                             *)

(* A compiled program has its nodes in dependency order, and on the        *)
(* runtime path each node as early as its place in the program allows; it  *)
(* is refused for a cycle only if it has one, and never accepted with one, *)
(* also when a dependency is listed twice (program.go:84,                  *)
(* program_compile.go:105).                                                *)
CompiledInOrder ==
    /\ \A x \in refused : x.err = "cycle" => Cyclic(x.input.program)
    /\ \A i \in DOMAIN plans : plans[i].path # "planner" =>
          LET program == plans[i].program
              steps == plans[i].steps
              After(a, b) == \A j \in StepsOf(steps, a), k \in StepsOf(steps, b) : j > k
          IN /\ ~ Cyclic(program)
             /\ \A n \in Ids(program) : \A d \in ToSet(nodesByID(program, n).deps) : After(n, d)
             /\ plans[i].path = "runtime" =>
                   \A n, m \in Ids(program) :
                       nodeOrder(program, n) < nodeOrder(program, m) /\ After(n, m) =>
                           \E d \in ToSet(nodesByID(program, n).deps) :
                               d = m \/ After(d, m)

(* Nothing of a node is lost on the way: it has one step per target, and   *)
(* its verification is on each of them or on the group as a whole          *)
(* (program_verify_scope.go:35).                                           *)
NodesKept ==
    \A i \in DOMAIN plans : plans[i].path # "planner" =>
        \A n \in Ids(plans[i].program) :
            LET node == nodesByID(plans[i].program, n)
                steps == {plans[i].steps[k] : k \in StepsOf(plans[i].steps, n)}
                targets == ToSet(targetsForProgramNode(node, plans[i].path))
            IN /\ {s.target : s \in steps} = IF targets = {} THEN {NoTarget} ELSE targets
               /\ node.verify => \A s \in steps : s.verify # s.aggregateVerify
               /\ \A s \in steps : s.aggregateVerify =>
                      Cardinality(StepsOf(plans[i].steps, n)) > 1

(* A step planned against a frozen view runs with the version, the type,   *)
(* the risk level and the metadata that were frozen (a definition here;    *)
(* schemas and handler are not frozen, freezer.go:31) or not at all,       *)
(* whatever was registered in between and also when the plan is run while  *)
(* its snapshots are still being written (docs/RUNTIME.md:404,             *)
(* capability_freeze.go:269).                                              *)
PinnedToolRuns ==
    \A i \in DOMAIN actions :
        LET view == plans[actions[i].plan].view
        IN view # EmptyView /\ actions[i].def # NoDef =>
             [version |-> actions[i].version, def |-> actions[i].def] \in view.entries

(* A planning that succeeded is recorded as completed.  What is recorded   *)
(* as completed has one plan, pinned to the recorded view, whose snapshots *)
(* are all there, also while and after parts of it fail.  With             *)
(* transactions no plan is there without its record; the MemoryUnitOfWork  *)
(* leaves what was written before a failure (capability_freeze.go:109,     *)
(* persistence/memory.go:13).                                              *)
PlanHasItsRecord ==
    \A c \in Planner :
        LET made == {i \in DOMAIN plans : plans[i].by = c}
            completed == records[c].status = "completed"
        IN /\ p[c].pc = "created" => completed
           /\ completed => /\ made = {records[c].plan}
                           /\ \A i \in made :
                                 /\ planSnapshots(plans[i].view) \subseteq snapshots
                                 /\ \A k \in DOMAIN plans[i].steps :
                                        plans[i].steps[k].view = records[c].view
           /\ todo.atomic /\ made # {} => completed

(* The summaries of a session are listed in the order in which they        *)
(* replace each other, however many plannings stamp and store them at the  *)
(* same time: a summary comes after the one it supersedes, and that one is *)
(* the last of its own planning or comes after it (compaction.go:77,       *)
(* contextsummary/store.go:84, contextrepo/repo.go:78).                    *)
SummariesFollow ==
    \A i \in DOMAIN summaries :
        LET prev == summaries[i].prev
            own == summaries[i].own
        IN /\ prev # 0 => prev < i /\ listedBefore(prev, i)
           /\ own # 0 => prev # 0 /\ listedBefore(own, prev)

Ancestor(program, n, m) ==
    \E S \in SUBSET Ids(program) :
        /\ n \in S /\ m \in S /\ n # m
        /\ \A x \in S \ {m} : \E d \in S \ {x} : Listed(nodesByID(program, x), d) > 0

(* The runs of a step, or those with an artifact if the binding wants one. *)
RunsFor(b, plan, k) ==
    {j \in DOMAIN actions : /\ actions[j].plan = plan /\ actions[j].step = k
                            /\ b.kind = "artifact" => actions[j].artifact}

(* A step bound to a node it depends on finds a run of it when its turn    *)
(* comes.  The exception is a node none of whose steps left what the       *)
(* binding wants although all have been settled: it has no run at all only *)
(* if it failed, denied by the policy (runner.go:302,                      *)
(* fanout_scheduler.go:317), or if its writes failed without a             *)
(* transaction.  When the node has such a run on the step's target in the  *)
(* step's own plan, the run it is given is on that target and ended no     *)
(* earlier than the last of these (program_binding_resolution.go:195).     *)
BoundToOwnRun ==
    /\ r.last = "unbound" /\ plans[r.plan].path # "planner" =>
          \E i \in DOMAIN Step(r).binds :
              LET b == Step(r).binds[i]
                  steps == plans[r.plan].steps
              IN Ancestor(plans[r.plan].program, Step(r).node, b.ref) =>
                    \A k \in StepsOf(steps, b.ref) :
                        /\ steps[k].status # "pending"
                        /\ RunsFor(b, r.plan, k) = {}
                        /\ b.kind = "artifact" \/ steps[k].status = "failed" \/ ~ todo.atomic
    /\ r.pc = "invoke" =>
          \A i \in DOMAIN r.bound : r.bound[i] # 0 =>
              LET b == Step(r).binds[i]
                  given == actions[r.bound[i]]
                  own == {j \in DOMAIN actions :
                            /\ actions[j].node = b.ref /\ actions[j].target = Step(r).target
                            /\ j \in RunsFor(b, r.plan, actions[j].step)}
              IN \A j \in own : /\ actions[j].at <= given.at
                                 /\ Step(r).target \in {NoTarget, given.target}

(* The steps of an attached program can be run.                            *)
AttachedProgramsRun == r.last # "not_compiled"
=============================================================================
