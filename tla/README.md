# A TLA+ verification of the harness-core runtime kernel

harness-core is a Go library that runs agent *sessions*: a session carries a
task and a plan, the runtime executes the plan step by step through tools,
asks a policy (and, if needed, a person) before each step, records every
outcome, and survives the death of the process that was running it, because
several worker processes share one store and take sessions over from each
other by lease.

The development consists of these files.

| file | what it is |
| --- | --- |
| `SessionState.tla` | the persisted session record and the predicates every component evaluates on it |
| `LeaseContract.tla` | abstract specification: what leases promise, with no store, version or caller in it |
| `SessionLease.tla` | the session store, lease coordination and every leased or direct session write, read by read and write by write |
| `PlanOutcome.tla` | decisions on a plan: attempts, on-fail strategies, fan-out groups, plan outcome, next step |
| `StepRun.tla` | one session's steps with approvals, aborts, leases, crashes and both units of work (extends `PlanOutcome`) |
| `Driver.tla` | the session driver, the fan-out scheduler, the plan store and replanning (extends `PlanOutcome`) |
| `WorkerLoop.tla` | the worker helper: its loop, the heartbeat goroutine, cancellation, back-off, crash and restart |
| `BlockedRuntime.tla` | blocked runtimes: create, answer, resume, abort against runs, leases and aborts |
| `PtyManager.tla` | the PTY sessions of the shell module, attachments and PTY verifiers |
| `Interactive.tla` | runtime handles and interactive control on top of `PtyManager` |
| `ProgramCompile.tla` | how an execution program becomes the steps of a plan |
| `Planning.tla` | planners, compaction, frozen capabilities and output bindings, from plan to tool call (extends `ProgramCompile`) |
| `SessionLease_proofs.tla`, `WorkerLoop_proofs.tla`, `StepRun_proofs.tla`, `Driver_proofs.tla`, `BlockedRuntime_proofs.tla`, `Interactive_proofs.tla`, `Planning_proofs.tla` | inductive invariants and theorems, checked by TLAPS |
| `ProgramCompile_proofs.tla` | lemmas on the compilers that `Planning_proofs` rests on |
| `MC*.tla`, `*.cfg` | instances for TLC |
| `PROJECT.json` | components, runs, mutants, line map to the source, findings, hazards, theorems |

Operators keep the name of the Go function they model (`requireSessionLease`,
`mergeSessionUpdate`, `fanoutRoundForSelection`...); actions carry the
name of the service or store operation in upper case (`RenewLease`,
`MarkSessionInFlight`, `AbortSession`...). An operator introduced by a comment
that starts with "Variant:" is a plausible wrong version of the operator below
it. No specification uses a variant: it is there to show which property notices
the mistake.

## 1. Inventory

Paths are relative to `src/`; `R/` is `pkg/harness/runtime/`.

**Session store and leases** (`pkg/harness/session/store.go`,
`internal/postgres/sessionrepo/repo.go`, `R/coordination.go`). State: one record
per session: phase, execution state, current and in-flight step, pending
approval, lease id and expiry, version. Operations: Create, Get, Update (compare
and swap on the version), ClaimNext (runnable or recoverable), RenewLease,
ReleaseLease. The record is the only thing all processes share, so every
cross-process guarantee rests on the compare-and-swap. Correct when a session
has at most one lease, a lease is replaced only after it lapsed, and no write
moves a lease it did not read.

**Session writes and recovery** (`R/session_update.go`, `R/recovery.go`). No state
of its own. `persistSessionUpdate` writes once for a direct caller and, for a
claimed one, runs a loop of at most four turns: read, check the lease, merge the
caller's record onto the fresh one, compare-and-swap. `markSessionInFlight`,
`markSessionInterrupted`, `recoverSession` and
`normalizeSessionForRecovery` are built on it. Hard: everything between the read
and the write; the clock is read once for all turns. Correct when a call that
was overtaken by a reclaim changes nothing.

**Step runner** (`R/runner.go`, `R/loop.go`). `runStepWithDecision`: guards,
policy decision, mark in flight, tool call, verification, transition, and one
group of writes to plan, task, session, attempt, action, verification and
approval stores. Hard: the guards are evaluated once, at the start; the tool call
may take as long as it likes; a crash or a lost lease may come anywhere. Correct
when the stores agree with each other at the end of every call and a finished
session stays finished.

**Approvals** (`R/approval_flow.go`, `pkg/harness/approval/store.go`). State: a
record per request (pending, approved, rejected, consumed), the reply, a
version. Operations: request (from the runner), RespondApproval, resume, reuse of
an *always* answer, consumption by the finished run, rejection by an abort. Hard:
answer, resume, abort and lease traffic in any order. Correct when a rejected
approval never runs the tool, a *once* answer is used once and the session waits
for exactly the approval that is pending.

**Abort** (`R/abort.go`, `R/rollback.go`). Ends the session, its task, its active
step, its approval and blocked attempt, and takes the lease away.

**Plan outcome, budgets, step selection** (`R/plan_outcome.go`, `R/budgets.go`,
`R/session_driver.go`). Decisions on the plan and the loop that drives claimed
sessions: read session and plan, plan if needed, choose a step, run it, go on.
Correct when a session completes only with nothing left to run, and the loop
ends.

**Fan-out scheduler** (`R/fanout_scheduler.go`, `R/program_verify_runtime.go`).
The targets of one program node are steps of a group; a round runs those that
may run together, at most `aggregate_max_concurrency` at a time, and writes their
outcomes at once. Hard: a group may be worked off in rounds and single steps
mixed, with retries and back-off per target, and a verification of the whole
group must come after its last target.

**Planning and plan store** (`R/planning.go`, `R/plan_identity.go`,
`pkg/harness/plan/store.go`, `internal/postgres/planrepo`). Plans by revision,
a budget on revisions, a planning record. Hard: several planners at once; a
session pinned to one plan while another becomes the latest.

**Programs and bindings** (`R/program*.go`, `R/program_binding_resolution.go`).
Compilation of a dependency graph to ordered steps, one per target; references
of a step to the output of an earlier one. Hard: duplicate dependencies, two
compilers with different queues, several runs of one node, several targets.

**Capability freeze** (`R/capability_freeze.go`, `pkg/harness/capability`,
`pkg/harness/tool`). The tools a planner saw are stored with the plan; a step is
checked against them when it runs. Hard: registrations between the two.

**Context and compaction** (`R/compaction.go`, `pkg/harness/contextsummary`). A chain
of summaries per session, extended before planning and on request.

**Unit of work** (`pkg/harness/persistence`, `internal/postgres/txrunner.go`).
`Runner.Within` groups the writes of a call: a database transaction with
Postgres, a plain function call with the in-memory default.

**Runtime handles and interactive control** (`R/runtime_handles.go`,
`R/interactive_control.go`). A handle per external runtime (active, closed,
invalidated); start, view, write, close, reopen; recovery invalidates the
active ones. Hard: the external runtime and the record of it change in separate
steps. Correct when neither outlives the other unnoticed.

**Shell module and PTY manager** (`modules/shell/pty_*.go`). A process, a terminal,
two goroutines and a buffer per PTY session; attachments stream output and
input; verifiers poll. Hard: exit, close, reads and attachments race.

**Blocked runtimes** (`R/blocked_runtime_*.go`). A caller blocks a session on an
outside condition; others answer, resume or abort it. State: a record per
blocked runtime in process memory, its id in the session's metadata. Hard: two
stores without a transaction, and runs in progress that know nothing of it.

**Worker** (`pkg/harness/worker/worker.go`). Claim, heartbeat goroutine, run or
recover, release, back off. Hard: the heartbeat, the run and its cancellation
race. Correct when a session whose worker died is finished by another.

**Replay and read models**, **audit, metrics and observability**, **verifiers and
policies**, **adapters and commands**: no state that a guard of the kernel reads
after the fact, or pure I/O. The kernel sees verifiers and policies as a
nondeterministic verdict or decision.

How they interact: a worker process calls the service in-process; processes
meet only in the stores. Operators reach the service through an adapter and do
not hold a lease. The heartbeat runs beside the call it protects, in the same
process. The hazards this produces are listed, each at its line and with the
properties aimed at it, under `hazards` in `PROJECT.json`.

## 2. SessionLease: the store and the writes it fences

| state | code |
| --- | --- |
| `sessions` | the sessions table / map |
| `handles` | the runtime handle store |
| `held[w]` | the session and lease id a worker process was given |
| `calls[a]` | the stack frame of the service call actor `a` is in: arguments, `fence` (the lease id given to `persistSessionUpdate`), `at` (its clock reading), `tries`, `next` (the record it computed) |
| `now`, `issued` | the clock; how many lease ids were drawn |

One step of the model is one store operation: the mutex of the memory store and
the single SQL statement of the Postgres repository make these atomic, and
nothing larger is. `MarkSessionInFlight` is followed by `Load` (the read in
`updateRecoveryState`), `Reload` (one turn of `updateSessionWithRetry`) and `Cas`
(`Store.Update`); `RecoverSession` by `NormalizePeek`, `Normalize` and the same
loop; `StartInteractive` by `CreateRuntimeHandle`. Claims, heartbeats, releases,
session creation, crashes and the clock interleave freely with all of them. A
clock reading may be up to `MaxDelay` ticks old when it is used. The start
states are records an earlier process can have left behind: none, fresh, aborted
and interrupted in mid-step.

`Durable` chooses the Postgres store (its claim condition, and handle writes that
commit with the session write) or the memory store (a wider claim predicate,
handle writes that stay).

Properties: `LeaseFencing` (a write persisted under a lease is accepted only
while that lease is on the session), `DirectWritesYield` (while a lease is active
a write is accepted only from its holder, or from a recovery that writes under
that very lease: `normalizeSessionForRecovery` adopts the lease it finds, whether
its caller came with an older lease or with none), `WritesKeepLease` (no accepted write
carries an outdated lease or expiry), `ReconcileAtomic` (handles are invalidated
only with the session taken out of flight), `LeaseContractHolds` (refinement of
`LeaseContract` by hiding everything but lease id, expiry, ids drawn and time).

## 3. StepRun: steps, approvals and aborts

One session, with its plan, task, approvals and the attempts blocked on them;
workers, direct callers and operators. A call goes through `begin` (read, guards,
decision), `mark` and its write, `invoke` (the tool), `verify` and `persist`. The
writes of a call are a list of stores in the order of the code; `Transactional`
makes them one step (Postgres), otherwise each is a step of its own that stays
when a later one is refused, which is what `MemoryUnitOfWork` does. A leased
session write is one step here because `SessionLease` shows what its loop
amounts to; that it may run out of attempts is part of `PersistRefused`.

A recovery is two steps, as in the code: `RecoverSession` checks the lease of its
caller (`R/recovery.go:83`), and `Normalize`, any time later, reads the session and
its open approval anew, without a check, and writes under the lease it finds
(`R/recovery.go:180-248`). `MarkSessionInterrupted` reads under the lease and writes
a record merged over what happened since (`R/recovery.go:57-65,250-291`).

`uses`, `recorded` and `strayed` are history variables: tool calls made on the
strength of an approval, runs recorded as finished under it, and whether a
session write was accepted that the lease check of its caller does not cover
(`Strays`): a recovery under a lease it found and was not called with, or an
interruption mark merged over a record whose approval was answered after the
mark had read it.

Properties: `TerminalAgreement` (a terminal session has the matching task, no
step in flight, no approval outstanding) and `ApprovalAgreement` (session, approval
and attempt stores agree on what is waited for), both until a write strays;
`TerminalIsFinal` (a terminal phase is left in two ways only, by the interruption
mark of the lease holder and by a stray write); `RejectedNeverRuns` and
`OnceRecordedOnce` (two runs on one approval given once: at most one is recorded).
Stray writes do break `ApprovalAgreement` and `TerminalIsFinal` in `step_workers` when
the exception is taken out; for `TerminalAgreement` the story that needs it is longer
than the bounds of that run, and the exception comes from the proof.

Abstractions: the reuse scope of an *always* answer is the step; the policy may
give any decision of `Policy`; the verdict on a tool result is any Boolean;
artifacts, metrics and audit events are left out.

## 4. WorkerLoop: the processes that drive sessions

| state | code |
| --- | --- |
| `sessions` | the session store; the version plays no part here |
| `left[s]` | how many steps of the plan were not run yet |
| `workers[w]` | the stack frame of `RunLoop` in process `w`: where it is, the claimed session, whether its context has ended (`done`), whether the heartbeat has cancelled the run (`lost`), the state of the heartbeat goroutine (`hb`), the waits |
| `faults` | how many crashes, shutdowns and slips happened, together at most `MaxFaults` |

`Claim` is one turn of `claim()`; `Recover`, `Drive`, `Mark`, `Tool` and `Finish` are the
run, one service call each (`SessionLease` has their inner loops and `StepRun`
their inner writes); `Join` is `renewCancel` and `wg.Wait`; `Release` has a context
of its own, as in the code; `After` and `sleepContext` are the waits of `RunLoop`.
`Heartbeat` and `RenewLease` are the goroutine beside the run. A step ends in
success or failure as the tool pleases; approvals and blocked sessions are left
to `StepRun`, the choice of the step to `Driver`.

Time is relative: `expires`, `renewIn` and `wait` count the ticks left, which keeps
the state space finite without a bound on time. A lease id is the number of the
worker that drew it: a process has one lease at a time, and a restarted one
remembers none. A `Tick` lets time pass only when no renewal is due; `LateTick`
and `StoreError` are the *slips*, a process that was paused past its renewal and
a store call that fails.

Properties: `ExclusiveRuns` (without slips, two workers whose contexts are alive
are never in a run of one session), `LeaseReturned` (however a run ended, its
lease is given back), `NoRunAfterContextEnds`, and three liveness properties:
`EverySessionFinishes`, `JoinReturns` (`RunOnce` does not hang on its heartbeat) and
`StopsWhenTold`.

## 5. Driver: plans, rounds and the loop

| state | code |
| --- | --- |
| `session` | the session record as far as the driver reads it, with the plan reference in its metadata |
| `plans[p]` | the plan store: revision, status, step status, attempt, back-off |
| `planning[a]` | a call of CreatePlan: its budget check, its read of the revision, its insert are separate |
| `d` | the driver's call: the plan and step it chose, its copy of the step, the round (`group`) |
| `last` | why the previous call of the driver returned |
| `wrote` | history: the plan whose step was stored last |
| `invoked`, `judged` | history: tool calls made; for each plan whether its group was verified after its last change (`yes`), was last changed by a round whose targets were all denied (`denied`), or neither (`no`) |

`StartRun` is a fresh call (the worker claims again), `Drive` the turns of
`driveClaimedSession` and everything it calls, `PrepareRound`, `RunRound` and
`PersistRound` a concurrent round. Members of a round share nothing while they run
(each has its own copy of the step, the results go to separate slots), so the
round goes on in one step when the last is done; which of them were called and
which failed is free. A crash loses the call and what it has not persisted.
`FreshIds` says whether every plan has step ids of its own; `BackoffElapses` is the clock.

The run has `FreshIds = FALSE`: compiled ids are a function of program, node and target
(`R/program.go:224`), and `R/recovery_test.go:121` uses one id in two plans. The targets
of one node are compiled with one strategy; a planner that writes the `aggregate_*`
metadata itself may mix them, and the run's group has a target with the default
*retry* and one with *continue*, so that both are reached.

Properties: `CompletePlan` (a session is complete only with the plan its outcome was
judged on; the exception is a step whose id a newer plan has too, which is weighed in
the place of its namesake, `judgedInPlace`), `AggregateJudged` (no session completes on a
group that was never verified or verified too early, with the same exception; a last
round of denials is the one way around the verdict, see section 11),
`ToolCallsBounded` (the retry budget bounds tool calls, up to one per crash),
`RevisionsDense`, `NoDeadEnd` (the driver never returns with "no runnable step" on a
session that is not over, and with an exhausted budget only when a concurrent round
used up the attempts of a target whose strategy is to retry or reinspect),
`TurnsProgress` (every turn of the loop uses an attempt or a
revision: `d.mark` remembers the stored plans and attempts when a turn began, and
the next turn must find more. As both are bounded the loop ends, which makes
termination a safety property that needs no fairness).

## 6. BlockedRuntime

`session` is the session record with one field more, `blocked`, for the metadata key
that holds the id; `records` is the record store; `calls` and `runs` are the calls and the
runs in progress, `held` the leases. The session write and the record write of
Create, Resume and Abort are separate steps, either may be refused, and the
rollback of the first when the second fails is a step that may itself be refused
(`stranded`). A run is `RunStep` (guards), `markSessionInFlight` (read) and
`MarkWritesSession`, `ReadAgain` and `FinishRun`; `markSessionInterrupted` and
`InterruptWritesSession` can come at any time. The write of a direct call is refused
when the session changed after its read; that of a leased call is merged over what
happened since and accepted (`persistSessionUpdateAt`), which is how a block gets lost.

Properties: `BlockedIsListed` (within one process, a session that stays blocked is found
by the reads, so that someone can answer it) and `ResolvedOnce` (one caller frees the session, and no
old copy of it blocks it again). `done` counts Resume and Abort calls that
succeeded.

## 7. PtyManager and Interactive: runtimes and their handles

`sessions[p]` is a PTY session: the process, what it printed, what the capture
goroutine has put in the buffer, whether the terminal is open, and the fields of
the Go struct. `attachments` are the output and input goroutines of an attachment,
`checks` verifier calls in progress. The n-th byte printed is the number n, so that
order, loss and duplication show. `Interactive` adds the session that owns the
handles (`st`), the handle store and the service calls, each in the steps its
controller calls and store writes make, beside a lease holder, an abort and a
recovery. `RecoverHandles` asks for no lease, since `normalizeSessionForRecovery`
checks none. A run's tool starts its PTY in `InvokeTool`, outside of every
transaction; `PersistRuntimeHandles` stores the handle later, under the lease and
with the run's other writes, or is refused, and then nothing closes the PTY
(`leaked`). `Ends` are the directions an attachment may stream, `MaxCalls` and `MaxRuns`
bound the calls and the tool runs.

Properties: `AttachedOutputInOrder`, `VerdictsMatchTheProcess`, `NoOrphanRuntime` (no
started runtime without a call in progress or a handle that names it, but for the PTY of a
tool whose run was refused at its end) and `EndedHandlesStay`.

## 8. ProgramCompile and Planning: from a planner to a tool call

`ProgramCompile` has the two compilers as operators: validation, both forms of
Kahn's algorithm, target expansion, verify scopes, bindings. The order is a recursive
function of the number of nodes taken so far. `Planning` runs them in a
session: `registry` (tools), `plans`, `snapshots`, `records` (of plannings), `summaries`,
`actions` (of runs), planners' calls `p`, the runner's step `r`. `todo` is what is
still to happen in the session's environment; the start states range over the
workloads of `MCPlanning`, so that one run has all of them.

A workload is `atomic` or not. With transactions `createPlanWithCapabilityView` writes plan,
snapshots, planning record and event in one step or not at all. The in-memory unit
of work writes them one by one (`createPlanInMemory`, `persistCapabilityViewInStore`,
`createPlanningRecord`, `emitPlanGenerated`); each may fail and leaves what was written
before, and so may the record of the failure (`joinPlanningPersistenceError`).
`AssembleContext` looks up the latest summary, `CompactContext` takes the time stamp and
`persistContextSummary` the sequence number, in that order and in separate steps as both
stores do. A run leaves an artifact only when its result has something to keep
(`R/runner.go:440`), and a step that is denied settles without an action (`DenyStep`).

Properties: `CompiledInOrder` and `NodesKept` (against reference definitions that do
not use the algorithm); `PinnedToolRuns`, on the fields the freezer keeps (version, type,
risk level, metadata); `PlanHasItsRecord` (a planning that succeeded is recorded, what is
recorded as completed has one plan and all snapshots, and with transactions no plan
is without its record); `SummariesFollow` (a summary is listed after the one it
supersedes, which is the last of its own planning or is listed after that);
`BoundToOwnRun` (a binding to a node the step depends on, directly or not, finds a run,
unless every step of that node has settled and left nothing the binding asks for; when
the node has run on the step's own target in the step's plan, the run found is on that
target and no older than the last of these).

Left out: literal inputs, the files of materialised attachments, what a summary or an
artifact says. Leases, approvals and revision numbers belong to the other modules.

## 9. Runs

| run | instance | distinct states | shows |
| --- | --- | --- | --- |
| `lease_mixed` | Postgres, one worker, one direct caller, one handle | 1,300,000 | fencing of both kinds of caller, handle atomicity, the lease contract |
| `step_workers` | Postgres, two workers, an operator, one step with a retry | 745,000 | agreement of the stores and finality, until a write strays |
| `step_direct` | in-memory unit of work, two direct callers, an operator | 2,970,000 | an approval given once is recorded once, a rejected one never runs |
| `worker_fleet` | Postgres, two workers, one session of up to two steps, any two faults | 304,000 | exclusive runs; leases returned; nobody hangs; a session is finished whoever dies |
| `driver_rounds` | three steps (one that replans, a group of two, one to retry and one to let go), two plans with the same ids, a client, a crash | 938,000 | completion, group verdicts, budgets, dense revisions, progress |
| `blocked_races` | two callers, a worker, two blocked runtimes, one failing write | 2,620,000 | a blocked session is found, freed, and freed once |
| `interactive_pty` | Postgres, two clients, two PTYs, an attachment (input, or both directions), a verifier, one handle, one tool run | 4,030,000 | who owns a runtime, ends are final, output in order |
| `planning_programs` | some 1,500 workloads: all graphs of three nodes over nine dependency lists on both paths, pipelines over two targets, two planners, with and without transactions | 1,300,000 | compiled plans, pinned tools, bindings, planning records |
| `lease_caller_fencing`, `step_direct_abort`, `blocked_overwritten`, `planning_attached` | | | the disagreements of section 11 |

**Bounds.** `MaxTime` with `LeaseTTL` 1 lets a lease be granted, lapse, be taken over
and, in `lease_mixed`, lapse again; `MaxLease` 2 gives a first holder and
one that reclaims, the pair every fencing argument is about. `MaxVersion` stops
new calls and heartbeats, not calls in progress; its value leaves room for the
longest story a run is about (claim, mark, lose, reclaim, recover; ask,
answer, resume, mark, finish twice; block, answer, resume, block again).
`MaxApproval` 2 allows an answered approval
to be followed by a second request. In `step_direct` one approval is enough: the
race is for that one, and `MaxVersion` 4 lets both resume and write: with the
in-memory unit of work every write is a step of its own. `MaxAttempts` of the session write has the code's value 4.

In `worker_fleet` `LeaseTTL` 2 and `RenewInterval` 1 are the smallest pair with a
renewal before the lease is over; two faults kill a worker and the one that took
over from it, or shut one down while its heartbeat fails; the error wait backs off
from 1 to 2. In `driver_rounds` two plans are the first and the one a replan makes,
with `MaxPlanRevisions` 2 so that the budget is reached; one retry per step makes a
first failure, a back-off and an exhausted budget. In `interactive_pty` two bytes of
output with a read limit of one give a cut read, and a text that ends at the
second byte; two calls from outside are the two that race, with one tool run beside
them. In `planning_programs`
a step has two tries, so that a node has a failed and a successful run on each
target, and two ticks give runs in the same and in different milliseconds; two faults
without transactions are a failed write and a failed record of the failure.

The memory store and larger fleets are not in the runs of `SessionLease` and
`WorkerLoop`: the theorems of section 10 are about both stores and any number of
workers.

**Deadlock** is checked in `worker_fleet` and in the runs of `BlockedRuntime`, where
`Quiet` stands for having nothing to do: a call or a run in progress can always go
on. It is not checked in the others: with their bounds every behaviour ends, and the
code has no state in which somebody must be able to move (a session may be left
idle, and one that is over stays).

**Fairness** is assumed in `WorkerLoop` only. Weak fairness of a worker's steps and of
its heartbeat: goroutines are scheduled, and tools return (a tool that never does
would hold its session for ever, by design). Weak fairness of `Tick`, since time
passes, and of `Restart`, since the process supervisor starts a dead worker
again. Strong fairness of `sleepContext`: when the timer and the end of the context
are both ready Go's `select` picks at random, so it does not miss the context for
ever. Crashes, shutdowns and slips are never forced, and a bounded number of them
happens at any moment. No fairness is put on the outcome of a step.

**Symmetry** is used on workers, clients, callers, PTY ids and blocked runtime ids,
which are only compared. Sessions, steps and plans are numbers because the code
orders them. No run with a liveness property uses it.

## 10. Proofs

TLC shows a property on the instance of a run; the theorems below show it for every value
of the constants, with any number of sessions, workers, callers, steps, plans, programs
and PTYs and any value of the bounds. Each property of a passing run that is not a liveness
property is stated by one theorem, the exceptions it names included. Every proof has the same shape: an inductive invariant
that implies the property, one lemma per action (or group of actions) that preserves it,
and a last step in temporal logic. The invariants named here are defined at the head of
their modules.

The assumptions on constants (`ASSUME`, in the module that declares them) only type the
parameters and keep names apart. Some theorems have a hypothesis of their own:

| hypothesis | theorems | what it stands for, and what fails without it |
| --- | --- | --- |
| `Durable` / `Postgres` | `HandlesGoWithTheSession`, `NothingRunsAfterTheContext`, `RuntimesAreOwned`, `EndedHandlesAreFinal` | the Postgres store. The memory store undoes no handle write, ignores an ended context and overwrites an existing handle id |
| `RenewInterval < LeaseTTL` | `RunsAreExclusive` | the default of `New`, which checks nothing: otherwise a lease lapses before its first renewal |
| `Transactional`, `Client = {}` | `TerminalSessionsAgree`, `StoresAgreeOnApprovals`, `TerminalPhasesAreFinal` | the Postgres runner, and runs made by workers under a lease. The in-memory unit of work keeps half of a refused call; a direct run overtakes an abort (`step_direct_abort`). Each of the three also ends with the first stray write, as its property says |

The theorems on the driver, on plannings and on bindings have none.

**SessionLease_proofs**: `TypeCorrect`, `LeaseFenced` (`LeaseFencing`),
`DirectWritesYieldAlways`, `WritesKeepLeaseAlways`, `ImplementsLeaseContract`,
`HandlesGoWithTheSession` (`ReconcileAtomic`). None of the safety invariants is inductive:
each speaks about the moment a write is about to be accepted and says nothing about how the
call got there. The strengthening `LeaseInv` adds to the types (1) that an absent session
carries no lease and (2) for every call at its write, `CallOK`: the record it wants to
write is at most one version ahead of the store, and *if it is exactly one ahead*, the
record in the store is still the one the lease was checked on, so its lease and expiry are
those in the call's record, the fence is that lease, or, for a direct call, no lease was
active when it was read. Every action that touches a record adds one to its version
(`Versioned`, lemma `Frame`), which turns a call that was exactly one ahead into one that
will be refused; that is why a lease check made arbitrarily long ago still holds when the
compare-and-swap succeeds. The clock only moves forward, so a lapsed lease stays lapsed.
`FenceInv` adds for `DirectWritesYield` that every call but a recovery writes under the lease
it was called with.
The refinement maps claims to grants, heartbeats to extensions, releases to give-ups, and
every session write to a stutter, the last by `WritesKeepLease`. For the handles
`RecoveryInv` adds that a recovery that is going to reconcile wants to write a record that
is out of flight.

**WorkerLoop_proofs**: `TypeCorrect`, `RunsAreExclusive`, `LeasesAreReturned`,
`NothingRunsAfterTheContext`. `ExclusiveRuns` says nothing about why a second worker cannot
claim. `ExclusiveInv` adds that a run whose context is alive is *guarded*: the session
carries the worker's own lease, unexpired, the heartbeat is beating and has not cancelled
the run, and, while the heartbeat waits, more time is left on the lease than until the next
renewal. A claim takes only sessions without an active lease, so it leaves every guarded run
alone (`Yields`); a renewal or a release touches only the worker's own lease; a `Tick`
shortens lease and wait together and cannot happen while a renewal is due. `ReturnInv` says
that, as long as nothing crashed and no store call failed, an active lease names a worker
that is about that very session, which a worker between two sessions is not.

**StepRun_proofs**: `TypeCorrect`, `RejectedApprovalsNeverRun`, `OnceIsRecordedOnce`,
`TerminalSessionsAgree`, `StoresAgreeOnApprovals`, `TerminalPhasesAreFinal`. `ApprovalInv`
ties a call to the approval it read: a run that rests on one read it as approved, a response
read it as pending, and while the version is the one read the record is unchanged; a use
was granted, and a recorded run under *once* has consumed it. That is enough with both units
of work and any callers. `AgreementInv` is about the other stores, and is invariant until
`strayed` (`AgreementUnlessStrayed`): a lease is held by one worker, and only a recovery goes on
under a lease other than the one it was called with (`LeaseInv`, `WorkerCall`); a worker's call
*that is under its own lease while that lease is on the session* (`Own`), interruption marks
apart, finds the session as it was when the call decided, not terminal and waiting for nothing
but what the call itself resumed (`LeasedCall`); an operator's call whose version is still the session's does too
(`OperatorCall`). Whoever changes the session for others either takes the lease away (abort,
a new claim) or adds to the version, so that a call of which neither is true is refused as
a whole. With this, each transaction writes stores that agree.

**Driver_proofs**: `TypeCorrect`, `RevisionsAreDense`, `ToolCallsAreBounded`,
`TurnsMakeProgress`, `CompleteWithItsPlan`, `GroupsAreJudged`, `NoCallIsStuck`. `TypeInv` has the
plans stored at 1 to n with revisions 1 to n (`Dense`), and no planner's read beyond the next.
`AttemptInv` compares what is stored, what the driver copied and what it called: an attempt is
stored only with a verdict and within the budget (`StepGood`), the copy of a step that runs is
one attempt ahead (`CopyGood`), calls exceed the stored attempts by the crashes and by the one
call whose attempt is still to be stored (`CallsCounted`), and the stores are ahead of every
earlier mark when a turn begins (`MarkGood`). `OutcomeInv` adds that an outcome about to be written
was weighed on a plan at least as new as its own, with the step in the place of its namesake if
that plan has one (`Placed`, `Weighed`), and that the group's verdict comes with the step that
settles the group. A complete session then has its plan completed and its group judged, or was
completed by a step of another plan in the place of its namesake (`CompleteGood`, `InPlace`).
`ContinueInv` says that the latest plan of a session that is not over is `Workable`: it has a
step to try, to try again or to plan anew, which the choice of the next step finds. A step may be
`Stuck`, with no attempt left and a strategy that wants one, only as a target of a group that
runs in rounds; a call that gave up met such a target (`Stranded`).

**BlockedRuntime_proofs**: `TypeCorrect`, `BlockedSessionsAreListed`,
`BlockedRuntimesAreResolvedOnce`. `BlockedInv` says who may be doing what with an id: a Create
owns its id until the record is there (`Creating`); a Resume or Abort read a session that was
blocked on its id and, while the version is unchanged, still is (`Resolving`); while a session
is blocked on an id nobody has freed it, and of those that try one at a time gets past the
session write (`OneResolver`); a blocked session has a record, a Create in progress or a
rollback that was refused and reported (`Recorded`). What a mark or an interruption is about to
write is never a blocked session, whatever it read (`RunFrame`), and the merge keeps it so:
such a write frees a session and never blocks one.

**Interactive_proofs**: `AttachmentsDeliverInOrder`, `VerifiersAreRight`, `RuntimesAreOwned`,
`EndedHandlesAreFinal`. `PtyInv` has buffers that only grow, attachments
that have delivered exactly the bytes between their first and their next offset, and verdicts
that rest on what can no longer change (the text in the buffer, the exit code). An update in
progress read a handle that had not ended and, while the version is the one read, has not
(`UpdateOK`). With Postgres a running PTY has an `Owner`: a call or run that has still to store
its handle, a stored handle, or `leaked`. The action property is a conjunct of what each step
is shown to do (`ChangesAllowed`), from versions that only go up (`HandlesForward`). The first two
theorems hold with either store.

**Planning_proofs** and **ProgramCompile_proofs**: `ProgramsCompileInOrder`,
`ProgramsKeepTheirNodes`, `PinnedStepsRunTheirTool`, `PlansHaveTheirRecord`, `SummariesAreChained`,
`BindingsFindTheirRun`, without a hypothesis, for every program and workload. That Kahn's
algorithm computes a topological order is induction over data, for which the library's
theorems have an operator as parameter. The proofs do without it: the set of numbers at
which a claim fails is a subset of Nat, and if it is not empty it has a least element, where
the recursion is unfolded once (`LeastElement` and `NatInductionOnSets`, from the
well-foundedness of `<`). `KahnInv` is the loop invariant of the algorithm, for both queues:
the in-degree of a node is the number of its listed dependencies not taken yet, counted as
often as they are listed, what is taken is in dependency order and, on the runtime path, as
early as possible (`Greedy`). If the queue runs dry with nodes left, these form a cycle; the
reference `Cyclic` does not mention the algorithm. `CompiledOrder`, `CompiledNodes` and
`AncestorsFirst` carry the order through target expansion to the steps of a plan. `PlanningInv`
then says of each stored plan that it is a planner's, pinned to the planner's view, or
compiled from its program, and that its steps are settled in turn. `RecordOK` says for each
point of a planning's call what has been written by then, with and without transactions.
`SummaryOK` and `CallOK` keep stamps and sequence numbers apart: summaries are ordered by stamp
and, within one, by number (`EarlierIn`); that one of them is listed last follows from the
well-foundedness of `<`, used on the stamps and then on the numbers (`LatestListed`). An
ancestor of a step has been settled when the step's turn comes; if that has left no run the
binding can use it was denied, kept no artifact or lost its action for want of a transaction
(`ActionsOK`, `NothingLeft`).

**What stays with TLC.** Liveness: `EverySessionFinishes`, `JoinReturns` and `StopsWhenTold`, as
fairness and ENABLED are beyond the prover. And the four runs that show a disagreement, where
a counterexample is the point.


## 11. Where the code and its documents disagree

1. `lease_caller_fencing`. `docs/RUNTIME.md` says that stale holders cannot keep
   mutating state after a reclaim, recovery APIs included.
   `normalizeSessionForRecovery` persists under the lease it finds on the record,
   so a recovery that lost its lease after its first check writes under the new
   holder's lease; so does a direct `RecoverSession` that passed its check before the
   session was claimed, where `docs/RUNTIME.md:182-192` gives an active holder exclusive
   recovery authority. Such a write may clear an approval asked for meanwhile, or take a
   complete session back to the recover phase. (`LeaseFencing` holds because it speaks
   of the lease the write was made under; `DirectWritesYield`, `TerminalAgreement`,
   `ApprovalAgreement` and `TerminalIsFinal` name the case as their exception.)
2. `step_direct_abort`. `docs/EVENTS.md` calls an aborted task terminal. A direct
   run that decided before the abort marks the session in flight afterwards and
   stores its own outcome over the aborted task; with a lease the same write is
   refused (`TerminalIsFinal` in `step_workers`).
3. `blocked_overwritten`. `docs/API.md` says a blocked session is non-runnable until
   resume or abort clears it. A run that began before the block marks the session
   in flight and leaves it idle.
4. `planning_attached`. `docs/API.md` offers `AttachProgram` with `CreatePlan`. The steps
   an attached program is compiled to inherit the metadata that holds the program,
   and every step that carries it is refused with `ErrProgramStepNotCompiled`.

### Observations without a run of their own

Steps and sessions.

* Two direct resumes of one approval both call the tool before either records
  (`docs/POLICY.md:95`: *once* allows exactly one resumed execution; `R/runner.go:397`).
  Only one is recorded (`OnceRecordedOnce`).
* The in-memory unit of work undoes nothing (`persistence/memory.go:13`), so a refused
  session write leaves the task write in place; `TerminalAgreement` fails with
  `Transactional = FALSE`. For the same reason an answer whose session write
  conflicts with a release leaves the approval answered and the session waiting.
* An interruption mark that is merged over a rejection that came after its read gives the
  session the rejected approval back, and it waits for something nobody can answer (an
  exception of `ApprovalAgreement`).
* `RunLoop` looks at its context only when it is about to wait, and the in-memory unit
  of work ignores it, so a worker with work to do runs further sessions on an ended
  context (`NoRunAfterContextEnds` with `Durable = FALSE`). With Postgres the claim fails.
* A late `markSessionInterrupted` moves a terminal session back to the recover phase
  (`R/recovery.go:57`): with a lease on the session its holder's (an exception of
  `TerminalIsFinal`), otherwise anybody's. A leased write gives up after four attempts
  against a heartbeat and the run's result is lost. A lease shorter than a millisecond is cut to 0
  (`R/coordination.go:123`). Claims go to the oldest session, so one whose runs keep
  failing holds up the younger ones (`session/store.go:106`).
* When the context of `RunLoop` ends the heartbeat stops at once, while a tool that ignores
  the context goes on; `ExclusiveRuns` excludes such workers, and what is kept is that
  their late result is refused (`LeaseFencing`). `New` does not compare the renewal interval
  with the lease; with an interval as long as the lease `ExclusiveRuns` fails.
* A step without checks completes even when its tool failed or its capability drifted
  (`verify/registry.go:64`; `docs/RUNTIME.md:405` says execution must fail cleanly).

Driver and plans.

* `program_depends_on` is written (`R/program_compile.go:180`) and never read: a dependent
  step may run while a fan-out target before it still has a retry due (`docs/API.md:367`).
* A target with on-fail "retry", the default, or "reinspect" whose last attempt is used up in
  a concurrent round leaves the session in phase plan; each further call returns
  `ErrStepRetryBudgetExceeded` (the exception of `NoDeadEnd`, which `driver_rounds`
  reaches). `docs/PROTOCOL.md:198` keeps a session in recover only while budget remains,
  and `docs/EMBEDDER_VNEXT.md:165-168` describes the exhausted targets of "continue" only.
  A denial in a round does not fail the session, the same denial of a single step does.
* The budget check and the read of the revision in CreatePlan are separate; the memory
  plan store reads before it locks and gives two planners the same number
  (`pkg/harness/plan/store.go:30`). Postgres refuses one of them (`RevisionsDense`).
* In a round the verdict on the group is formed with the last target that was called
  (`R/fanout_scheduler.go:449`). A last round whose targets are all denied forms none, and
  the session may complete on a group that resolved unverified (`docs/API.md:377`:
  verification "when the group resolves"). It takes three targets or more, so `driver_rounds`
  does not show it; the proof of `GroupsAreJudged` needs the case, hence `denied`.
* With step ids reused between plans `stepRefForSession` prefers the plan the session was
  pinned to over the latest, while the outcome is weighed on the latest with the step put in
  the place of its namesake (`R/plan_outcome.go:160-167`). The session may then complete
  while the newer plan's step is still pending (the exception of `CompletePlan`).
* A fan-out round restores the plan reference from before it was marked in flight; an
  outcome is judged on the latest plan and written to the run's own. Back-off is
  computed on one clock reading and tested against another.

Blocked runtimes.

* The records live in process memory whatever the session store is (`R/options.go:84`;
  `docs/API.md:278` calls them durable), outside the transaction. After a restart, or in a
  second process, a blocked session has no record: `BlockedIsListed` is about one process.
* A late answer overwrites a resumed record; two answers both succeed. An AbortSession
  that loses its compare-and-swap leaves the record aborted and the session blocked. A
  leased run may put the id of a resolved runtime back into the metadata, and a leased
  mark that read the session before a block drops both the block and its id.
  AbortBlockedRuntime leaves the session runnable. CreateBlockedRuntime does not look
  at the lease.

Handles and PTYs.

* A direct change of a handle passes its lease check, a worker claims, and the change is
  applied (`docs/RUNTIME.md:251`); the version protects only a handle that changed in
  between. A stale or direct recovery likewise invalidates the handles of the lease
  holder. StartInteractive has no lease check at all, and beside an abort
  leaves an active handle in an aborted session.
* Abort, invalidation and CloseRuntimeHandle do not stop the PTY; a PTY started by a tool
  runs on, named by nothing, when the run's writes are refused (`R/runner.go:592-615`; the
  exception of `NoOrphanRuntime`); closed sessions never leave the manager's map.
* With the memory store a supplied id that exists is overwritten, ended or not; with
  Postgres an upsert of an existing id always fails inside a transaction.
* The reason "pty session exited" cannot occur (`modules/shell/pty_manager.go:414`). An
  attachment and `pty_stream_contains` stop at the first read after the end even when that
  read was cut. Write and Reopen store a next offset of 0.

Programs, planning and tools.

* A node on one target with verify scope "aggregate" keeps its checks, but the runner
  replaces their verdict by the success of the action (`R/runner.go:503`).
* After replanning from several targets to fewer a binding may pick the previous plan's
  run: runs are matched by node id over all plans, and within a millisecond by a random
  id. A reference to a node that is no ancestor is compiled and fails when it runs,
  which leaves the session where it is.
* A target denied in a round leaves no action, and a run whose result is empty no artifact
  (`R/fanout_scheduler.go:317`, `R/runner.go:440`): a binding to it is unbound, or is given
  an earlier plan's run.
* A step without a target may, within a millisecond, be given an earlier plan's run of a
  node on some target. A binding to the step's own node is unbound on its first run and
  bound to the failed try on the second.
* An unchanged tool is refused as drifted when its metadata holds an empty map or, read
  back from Postgres, an integer (`R/capability_freeze.go:282`). The view of an empty
  registry is never stored, so its steps fail with `ErrCapabilityViewNotFound`.
  `compareVersion` is not transitive on mixed versions.
* In memory a planning whose snapshot or record write fails keeps its plan while its record
  says "failed", and one whose event and whose record of the failure both fail reports an
  error and stays recorded as completed. `R/planning_records_test.go:230` expects a plan
  without a record when there is no Runner at all.
* Compactions that run at the same time fork the chain of summaries, and as the stamp is
  taken before the number a summary may supersede one with a lower number than its own
  planning's last; by the order in which they are listed it does not (`SummariesFollow`).
* A retried materialisation leaves its files. Step ids collide when a node id contains "__".

## 12. Not modelled, and why

* **Replay and read models**, **audit, metrics and observability**: written, never read back
  by a guard. **Adapters and commands**: decoding and transport. **Verifiers and policies**
  other than the PTY verifiers: pure functions of their input, so a nondeterministic
  verdict covers them.
* The code paths for a nil Runner (hand-written rollback of task, plan and approval): the
  options always set a Runner.
* Inside the database: its transactions are taken as atomic and isolated.
* What artifacts hold (that there is one, or none, is in `Planning`), output trimming, the pipe-mode executor, the worker's callbacks.

## 13. Plan

Every part with state of its own is modelled, and every safety and action property is a
theorem. What would add to the development:

1. Abstract specifications beside `LeaseContract`: of an approval (asked, answered, spent once)
   for `StepRun` and of a blocked runtime (blocked, listed, freed once) for `BlockedRuntime`,
   with the refinements proved from the invariants of section 10.
2. A second, larger group in `Driver` (three targets), so that a run shows the round of
   denials of section 11.
3. The in-memory unit of work, which `step_direct` and parts of `planning_programs` use: what is
   left of `TerminalAgreement` and `ApprovalAgreement` with it, as properties of their own.
4. The reads of `R/service_reads.go` other than those of blocked runtimes, if a guard comes
   to depend on them.
