------------------------------ MODULE StepRun ------------------------------
(***************************************************************************)
(* Execution of the steps of one session: policy decision, approval, mark  *)
(* in flight, tool call, verification and the writes that record the       *)
(* outcome in the session, plan, task, attempt and approval stores, while  *)
(* operators answer approvals and abort the session and workers claim,     *)
(* renew, lose and release its lease.                                      *)
(*                                                                         *)
(*   pkg/harness/runtime/runner.go, approval_flow.go, abort.go,            *)
(*   recovery.go, pkg/harness/approval/store.go                            *)
(*                                                                         *)
(* A call reads, decides, calls out and writes in separate steps.  What it *)
(* writes is grouped by Runner.Within: with the Postgres runner the writes *)
(* of a call are one transaction; with the in-memory unit of work, the     *)
(* default of Options, each store write takes effect on its own and stays  *)
(* when a later one is refused.  A leased session write is one step here:  *)
(* SessionLease has the read-check-merge-retry loop behind it.             *)
(***************************************************************************)
EXTENDS PlanOutcome, Sequences

CONSTANTS
    Worker,          \* processes that run the session under a lease
    Client,          \* processes that run it directly
    Operator,        \* processes that answer approvals and abort
    Policy,          \* decisions the policy evaluator may give
    LeaseTTL,
    MaxTotalRuntime, \* LoopBudgets.MaxTotalRuntimeMS, 0 = unlimited
    Transactional,   \* TRUE: Postgres runner, FALSE: in-memory unit of work
    MaxTime,         \* bound: ticks
    MaxLease,        \* bound: leases granted
    MaxApproval,     \* bound: approval requests
    MaxVersion       \* bound: session version above which no call starts

ASSUME ActorAssumption ==
    /\ Worker \cap Client = {}
    /\ Operator \cap (Worker \cup Client) = {}
ASSUME PolicyAssumption == Policy \subseteq {"allow", "ask", "deny"}
ASSUME BoundAssumption ==
    /\ {MaxTotalRuntime, MaxTime, MaxLease, MaxApproval, MaxVersion} \subseteq Nat
    /\ LeaseTTL \in Nat \ {0}
    /\ Transactional \in BOOLEAN

Runner == Worker \cup Client
Actor == Runner \cup Operator
ApprovalId == 1..MaxApproval
NoApprovalId == 0

VARIABLES
    session, plan, task, approvals,
    attempts,   \* attempts[i]: the attempt blocked on approval i
    now, issued,
    held,       \* held[w]: the lease worker w was given
    calls,      \* calls[a]: the call actor a is in
    uses,       \* uses[i]: tool calls made on the strength of approval i
    recorded,   \* recorded[i]: runs recorded as finished under approval i
    strayed     \* history: a session write was accepted that the lease check
                \* of its caller did not cover (Strays)

vars == <<session, plan, task, approvals, attempts, now, issued, held, calls,
          uses, recorded, strayed>>
stores == <<session, plan, task, approvals, attempts>>

TaskStatus == {"open", "completed", "failed", "aborted"}
AttemptStatus == {"none", "blocked", "completed", "failed"}
Reply == {"none", "once", "always", "reject"}

Approval == [status : {"none", "pending", "approved", "rejected", "consumed"},
             reply : Reply, version : Nat, step : Step \cup {NoStep},
             spec : StepSpec]

NoApproval == [status |-> "none", reply |-> "none", version |-> 0,
               step |-> NoStep, spec |-> NewStep]

(* The stores a call writes, in the order it writes them.                  *)
Store == {"approval", "attempt", "plan", "task", "session"}

Op == {"none", "run", "mark", "ask", "deny", "finish", "recover", "interrupt",
       "respond", "abort"}

(* pc: begin = about to read the session and decide, mark = about to mark  *)
(* it in flight, invoke = about to call the tool, verify = the tool        *)
(* returned, normalize = recoverSession passed its check, persist =        *)
(* writing todo.                                                           *)
Call == [op : Op,
         pc : {"idle", "begin", "mark", "invoke", "verify", "normalize", "persist"},
         lease : Nat,         \* the lease handed to persistSessionUpdate
         step : Step \cup {NoStep}, spec : StepSpec,  \* the caller's copy
         appr : ApprovalId \cup {NoApprovalId},       \* activeApproval
         copy : Approval,                             \* and the copy of it
         forced : BOOLEAN,                            \* forcedDecision # nil
         reuse : BOOLEAN,                             \* reuseBlockedAttempt
         next : State,        \* the session record to write
         todo : Seq(Store)]

NoCall == [op |-> "none", pc |-> "idle", lease |-> NoLease, step |-> NoStep,
           spec |-> NewStep, appr |-> NoApprovalId, copy |-> NoApproval,
           forced |-> FALSE, reuse |-> FALSE, next |-> Absent, todo |-> <<>>]

Init ==
    /\ session = Created(1)
    /\ plan = [s \in Step |-> NewStep]
    /\ task = "open"
    /\ approvals = [i \in ApprovalId |-> NoApproval]
    /\ attempts = [i \in ApprovalId |-> "none"]
    /\ now = 1
    /\ issued = 0
    /\ held = [w \in Worker |-> NoLease]
    /\ calls = [a \in Actor |-> NoCall]
    /\ uses = [i \in ApprovalId |-> 0]
    /\ recorded = [i \in ApprovalId |-> 0]
    /\ strayed = FALSE

Return(a) == calls' = [calls EXCEPT ![a] = NoCall]

----------------------------------------------------------------------------
(* Leases; SessionLease has the details.                                   *)

Tick == /\ now < MaxTime
        /\ now' = now + 1
        /\ UNCHANGED <<stores, issued, held, calls, uses, recorded, strayed>>

Claimable(mode) == IF Transactional THEN claimCondition(session, mode, now)
                                    ELSE claimableState(session, mode, now)

Claim(w, mode) ==
    /\ held[w] = NoLease /\ calls[w] = NoCall
    /\ issued < MaxLease
    /\ Claimable(mode)
    /\ session' = withLease(session, issued + 1, now + LeaseTTL)
    /\ held' = [held EXCEPT ![w] = issued + 1]
    /\ issued' = issued + 1
    /\ UNCHANGED <<plan, task, approvals, attempts, now, calls, uses, recorded,
                   strayed>>

RenewLease(w) ==
    /\ session.version < MaxVersion
    /\ leaseHeldAt(session, held[w], now)
    /\ session' = withLease(session, held[w], now + LeaseTTL)
    /\ UNCHANGED <<plan, task, approvals, attempts, now, issued, held, calls,
                   uses, recorded, strayed>>

ReleaseLease(w) ==
    /\ held[w] # NoLease /\ calls[w] = NoCall
    /\ session' = IF leaseHeldAt(session, held[w], now)
                  THEN withLease(session, NoLease, 0)
                  ELSE session
    /\ held' = [held EXCEPT ![w] = NoLease]
    /\ UNCHANGED <<plan, task, approvals, attempts, now, issued, calls,
                   uses, recorded, strayed>>

(* A process dies between two steps of a call; in-memory stores would die  *)
(* with it.                                                                *)
Crash(a) ==
    /\ Transactional
    /\ calls[a] # NoCall \/ (a \in Worker /\ held[a] # NoLease)
    /\ Return(a)
    /\ held' = IF a \in Worker THEN [held EXCEPT ![a] = NoLease] ELSE held
    /\ UNCHANGED <<stores, now, issued, uses, recorded, strayed>>

----------------------------------------------------------------------------
(* Running a step: runStepWithDecision.                                    *)

LeaseOf(a) == IF a \in Worker THEN held[a] ELSE NoLease

CanCall(a) ==
    /\ calls[a] = NoCall
    /\ session.version < MaxVersion
    /\ a \in Worker => held[a] # NoLease

Set(a, c) == calls' = [calls EXCEPT ![a] = c]

(* The driver picks a step of the plan it read (a worker), or the caller   *)
(* names one (RunStep).                                                    *)
RunStep(a, s) ==
    /\ CanCall(a)
    /\ a \in Worker => /\ requireSessionLease(session, LeaseOf(a), now)
                       /\ ~isTerminalPhase(session.phase)
                       /\ session.exec # "blocked"
                       /\ session.pending = NoApprovalId
                       /\ s \in selectNextStepForSession(session, plan)
    /\ Set(a, [NoCall EXCEPT !.op = "run", !.pc = "begin", !.lease = LeaseOf(a),
                             !.step = s, !.spec = plan[s]])
    /\ UNCHANGED <<stores, now, issued, held, uses, recorded, strayed>>

(* Variant: the approval is resumed whatever its status.                   *)
ResumeUnresolved(a) ==
    LET i == session.pending IN
    /\ CanCall(a)
    /\ requireSessionLease(session, LeaseOf(a), now)
    /\ i # NoApprovalId
    /\ Set(a, [NoCall EXCEPT !.op = "run", !.pc = "begin", !.lease = LeaseOf(a),
                             !.step = approvals[i].step,
                             !.spec = approvals[i].spec, !.appr = i,
                             !.copy = approvals[i], !.forced = TRUE])
    /\ UNCHANGED <<stores, now, issued, held, uses, recorded, strayed>>

(* resumePendingApprovalWithLease: the step and the decision come from the *)
(* approved record.                                                        *)
ResumePendingApproval(a) ==
    LET i == session.pending IN
    /\ CanCall(a)
    /\ requireSessionLease(session, LeaseOf(a), now)
    /\ i # NoApprovalId
    /\ approvals[i].status = "approved"
    /\ Set(a, [NoCall EXCEPT !.op = "run", !.pc = "begin", !.lease = LeaseOf(a),
                             !.step = approvals[i].step,
                             !.spec = approvals[i].spec, !.appr = i,
                             !.copy = approvals[i], !.forced = TRUE])
    /\ UNCHANGED <<stores, now, issued, held, uses, recorded, strayed>>

(* The guards every run passes before it does anything.                    *)
Admitted(c) ==
    /\ requireSessionLease(session, c.lease, now)
    /\ ~isTerminalPhase(session.phase)
    /\ session.exec # "blocked"
    /\ session.pending # NoApprovalId => session.pending = c.appr
    /\ ensureRuntimeBudget(session, MaxTotalRuntime, now)
    /\ ensureStepRetryBudget(c.step, c.spec)

(* The session advanced to the execute phase.                              *)
Advanced(c) ==
    [session EXCEPT !.phase = "execute",
                    !.current = IF session.phase = "execute" THEN @ ELSE c.step]

(* findReusableApprovalDecision: the approvals that answer an ask.         *)
Reusable(s) == {i \in ApprovalId : /\ approvals[i].status = "approved"
                                   /\ approvals[i].reply = "always"
                                   /\ approvals[i].step = s}

Decide(c, d) ==
    LET st == Advanced(c)
        tried == [c.spec EXCEPT !.attempt = @ + 1, !.status = "running"]
        reuse == /\ c.appr # NoApprovalId /\ session.pending = c.appr
                 /\ attempts[c.appr] = "blocked"
    IN  CASE d = "ask" /\ Reusable(c.step) = {} ->
               [c EXCEPT !.op = "ask", !.pc = "persist",
                         !.spec.status = "blocked",
                         !.next = [st EXCEPT !.exec = "awaiting_approval",
                                             !.pending = NoApprovalId,
                                             !.current = c.step],
                         !.todo = <<"approval", "plan", "task", "session", "attempt">>]
          [] d = "deny" ->
               [c EXCEPT !.op = "deny", !.pc = "persist",
                         !.spec = [tried EXCEPT !.status = "failed"],
                         !.next = [st EXCEPT !.phase = "failed", !.exec = "idle",
                                             !.current = c.step, !.inFlight = NoStep],
                         !.todo = <<"plan", "task", "session">>]
          [] d = "ask" /\ Reusable(c.step) # {} ->
               LET i == CHOOSE i \in Reusable(c.step) : i \in first(Reusable(c.step))
               IN  [c EXCEPT !.pc = "mark", !.spec = tried, !.appr = i,
                             !.copy = approvals[i]]
          [] OTHER ->
               [c EXCEPT !.pc = "mark", !.spec = tried, !.reuse = reuse]

(* Read the session, pass the guards, decide.  The call ends when a guard  *)
(* refuses it or the policy evaluator fails.                               *)
Begin(a) ==
    LET c == calls[a] IN
    /\ c.pc = "begin"
    /\ \/ /\ Admitted(c)
          /\ \E d \in IF c.forced THEN {"allow"} ELSE Policy : Set(a, Decide(c, d))
       \/ (~Admitted(c) \/ ~c.forced) /\ Return(a)
    /\ UNCHANGED <<stores, now, issued, held, uses, recorded, strayed>>

(* markSessionInFlight up to its session write.                            *)
Mark(a) ==
    LET c == calls[a] IN
    /\ c.pc = "mark"
    /\ \/ /\ requireSessionLease(session, c.lease, now)
          /\ ensureRuntimeBudget(session, MaxTotalRuntime, now)
          /\ Set(a, [c EXCEPT
                !.op = "mark", !.pc = "persist",
                !.next = [session EXCEPT
                            !.started = IF @ = 0 THEN now ELSE @,
                            !.exec = "in_flight", !.inFlight = c.step],
                !.todo = <<"session">>])
       \/ ~( /\ requireSessionLease(session, c.lease, now)
             /\ ensureRuntimeBudget(session, MaxTotalRuntime, now)) /\ Return(a)
    /\ UNCHANGED <<stores, now, issued, held, uses, recorded, strayed>>

(* The session is read again and the tool is called.                       *)
Invoke(a) ==
    LET c == calls[a] IN
    /\ c.pc = "invoke"
    /\ Set(a, [c EXCEPT !.pc = "verify", !.next = session])
    /\ uses' = IF c.appr = NoApprovalId THEN uses
               ELSE [uses EXCEPT ![c.appr] = @ + 1]
    /\ UNCHANGED <<stores, now, issued, held, recorded, strayed>>

(* Variant: the finished run forgets to clear PendingApprovalID.           *)
FinishedKeepingPending(c, spec, verified) ==
    [c.next EXCEPT !.phase = nextTransition(plan, c.step, spec, verified),
                   !.current = c.step, !.exec = "idle", !.inFlight = NoStep]

(* The session record a finished run wants to write.                       *)
Finished(c, spec, verified) ==
    [c.next EXCEPT !.phase = nextTransition(plan, c.step, spec, verified),
                   !.current = c.step, !.exec = "idle", !.inFlight = NoStep,
                   !.pending = IF @ = c.appr THEN NoApprovalId ELSE @]

(* The result is verified and weighed against the plan; the call ends with *)
(* the session still in flight when the plan cannot be read.               *)
Verify(a) ==
    LET c == calls[a] IN
    /\ c.pc = "verify"
    /\ \/ \E verified \in BOOLEAN :
            LET spec == [c.spec EXCEPT !.status = IF verified THEN "completed"
                                                              ELSE "failed"]
            IN  Set(a, [c EXCEPT
                  !.op = "finish", !.pc = "persist", !.spec = spec,
                  !.next = Finished(c, spec, verified),
                  !.todo = <<"plan", "task", "session", "attempt">>
                           \o IF c.appr = NoApprovalId THEN <<>>
                                                       ELSE <<"approval">>])
       \/ Return(a)
    /\ UNCHANGED <<stores, now, issued, held, uses, recorded, strayed>>

(* recoverSession up to normalizeSessionForRecovery, for a session without *)
(* a pending approval; one whose approval was granted is resumed first,    *)
(* which is ResumePendingApproval followed by this.  The runSession at the *)
(* end is RunStep.                                                         *)
RecoverSession(a) ==
    /\ CanCall(a)
    /\ requireSessionLease(session, LeaseOf(a), now)
    /\ ~isTerminalPhase(session.phase)
    /\ session.pending = NoApprovalId
    /\ Set(a, [NoCall EXCEPT !.op = "recover", !.pc = "normalize",
                             !.lease = LeaseOf(a)])
    /\ UNCHANGED <<stores, now, issued, held, uses, recorded, strayed>>

(* normalizeSessionForRecovery up to its write.  The session is read again *)
(* and nothing is checked: the write goes out under the lease found on the *)
(* record, which need not be the caller's.                                 *)
Normalize(a) ==
    LET c == calls[a] IN
    /\ c.pc = "normalize"
    /\ \/ /\ session.exec \in {"in_flight", "interrupted"}
          /\ Set(a, [c EXCEPT
                !.pc = "persist", !.lease = session.lease,
                !.next = [session EXCEPT
                            !.exec = "idle",
                            !.phase = IF isTerminalPhase(@) THEN @ ELSE "recover",
                            !.current = IF @ = NoStep THEN session.inFlight ELSE @],
                !.todo = <<"session">>])
       \/ session.exec \notin {"in_flight", "interrupted"} /\ Return(a)
    /\ UNCHANGED <<stores, now, issued, held, uses, recorded, strayed>>

(* markSessionInterrupted up to its write: the caller gives the run up,    *)
(* whatever the session is doing.                                          *)
MarkSessionInterrupted(a) ==
    /\ CanCall(a)
    /\ requireSessionLease(session, LeaseOf(a), now)
    /\ Set(a, [NoCall EXCEPT
          !.op = "interrupt", !.pc = "persist", !.lease = LeaseOf(a),
          !.next = [session EXCEPT !.exec = "interrupted", !.interrupted = TRUE,
                                   !.phase = "recover"],
          !.todo = <<"session">>])
    /\ UNCHANGED <<stores, now, issued, held, uses, recorded, strayed>>

----------------------------------------------------------------------------
(* Operators.                                                              *)

(* RespondApproval up to its writes; the lease is not looked at.           *)
RespondApproval(o, reply) ==
    LET i == session.pending
        rec == approvals[i] IN
    /\ CanCall(o)
    /\ i # NoApprovalId
    /\ rec.status = "pending"
    /\ Set(o, [NoCall EXCEPT
          !.op = "respond", !.pc = "persist", !.step = rec.step, !.appr = i,
          !.spec = [rec.spec EXCEPT !.status = "failed"],
          !.copy = [rec EXCEPT !.reply = reply],
          !.next = IF reply = "reject"
                   THEN [session EXCEPT !.phase = "failed", !.current = rec.step,
                                        !.pending = NoApprovalId,
                                        !.exec = "idle", !.inFlight = NoStep]
                   ELSE [session EXCEPT !.exec = "idle"],
          !.todo = IF reply = "reject"
                   THEN <<"approval", "attempt", "plan", "task", "session">>
                   ELSE <<"approval", "session">>])
    /\ UNCHANGED <<stores, now, issued, held, uses, recorded, strayed>>

(* AbortSession up to its writes; it takes the lease away.                 *)
AbortSession(o) ==
    /\ CanCall(o)
    /\ ~isTerminalPhase(session.phase)
    /\ LET step == IF session.current # NoStep THEN session.current
                                               ELSE session.inFlight
       IN  Set(o, [NoCall EXCEPT
             !.op = "abort", !.pc = "persist", !.step = step,
             !.appr = session.pending,
             !.next = [session EXCEPT !.phase = "aborted", !.current = step,
                                      !.exec = "idle", !.inFlight = NoStep,
                                      !.pending = NoApprovalId,
                                      !.lease = NoLease, !.expires = 0],
             !.todo = IF session.pending # NoApprovalId
                      THEN <<"approval", "plan", "attempt", "task", "session">>
                      ELSE <<"plan", "task", "session">>])
    /\ UNCHANGED <<stores, now, issued, held, uses, recorded, strayed>>

----------------------------------------------------------------------------
(* The writes.                                                             *)

(* Variant: the final write does not check the lease again.                *)
SessionAcceptsUnchecked(c) ==
    c.lease # NoLease \/ c.next.version = session.version

(* persistSessionUpdate: a leased write needs its lease and is re-based on *)
(* the current record, any other write needs the version it was read at.   *)
SessionAccepts(c) ==
    IF c.lease # NoLease THEN requireSessionLease(session, c.lease, now)
                         ELSE c.next.version = session.version

(* Variant: the approval is updated without its version check.             *)
ApprovalAcceptsAny(c) ==
    c.op = "ask" => \E i \in ApprovalId : approvals[i] = NoApproval

(* approval.Store.Update; an abort reads the record it updates.            *)
ApprovalAccepts(c) ==
    CASE c.op = "ask"   -> \E i \in ApprovalId : approvals[i] = NoApproval
      [] c.op = "abort" -> TRUE
      [] OTHER          -> approvals[c.appr].version = c.copy.version

(* The id CreatePending gave, or is about to give, an ask.                 *)
AskId(c) ==
    IF c.appr # NoApprovalId THEN c.appr
    ELSE CHOOSE i \in ApprovalId :
            i \in first({j \in ApprovalId : approvals[j] = NoApproval})

SessionAfter(c) ==
    LET desired == IF c.op = "ask" THEN [c.next EXCEPT !.pending = AskId(c)]
                                   ELSE c.next
    IN  stored(session,
               IF c.lease # NoLease
               THEN mergeSessionUpdate(session, desired, c.lease)
               ELSE [desired EXCEPT !.version = @ + 1])

ApprovalAfter(c) ==
    CASE c.op = "finish"  ->
           [c.copy EXCEPT !.version = @ + 1,
                          !.status = IF c.copy.reply = "once" THEN "consumed"
                                                              ELSE "approved"]
      [] c.op = "respond" ->
           [c.copy EXCEPT !.version = @ + 1,
                          !.status = IF c.copy.reply = "reject" THEN "rejected"
                                                                ELSE "approved"]
      [] c.op = "abort"   ->
           [approvals[c.appr] EXCEPT
              !.version = @ + 1, !.spec.status = "failed",
              !.reply = IF approvals[c.appr].status = "pending" THEN "reject" ELSE @,
              !.status = CASE @ = "pending"  -> "rejected"
                           [] @ = "approved" -> "consumed"
                           [] OTHER          -> @]
      [] OTHER            ->
           [status |-> "pending", reply |-> "none", version |-> 1,
            step |-> c.step, spec |-> c.spec]

(* abortPendingApprovalInStore puts the approval's copy of the step into   *)
(* the plan, abortActiveStepInLatestPlanStore the plan's own.              *)
PlanAfter(c) ==
    IF c.step = NoStep THEN plan
    ELSE [plan EXCEPT ![c.step] =
            CASE c.op = "abort" /\ c.appr # NoApprovalId ->
                   [approvals[c.appr].spec EXCEPT !.status = "failed"]
              [] c.op = "abort" /\ c.appr = NoApprovalId ->
                   [@ EXCEPT !.status = "failed"]
              [] OTHER -> c.spec]

(* Variant: the phase is stored as the task's status.                      *)
TaskAfterUnmapped(c) ==
    IF isTerminalPhase(c.next.phase) THEN c.next.phase ELSE task

(* Variant: a failed session leaves its task open.                         *)
TaskAfterWithoutFailure(c) ==
    CASE c.next.phase = "complete" -> "completed"
      [] c.next.phase = "aborted"  -> "aborted"
      [] OTHER                     -> task

(* updateTaskForTerminalInStore                                            *)
TaskAfter(c) ==
    CASE c.next.phase = "complete" -> "completed"
      [] c.next.phase = "failed"   -> "failed"
      [] c.next.phase = "aborted"  -> "aborted"
      [] OTHER                     -> task

AttemptsAfter(c) ==
    CASE c.op = "ask" -> [attempts EXCEPT ![AskId(c)] = "blocked"]
      [] c.op = "finish" /\ c.reuse ->
           [attempts EXCEPT ![c.appr] = c.spec.status]
      [] c.op \in {"respond", "abort"} /\ attempts[c.appr] = "blocked" ->
           [attempts EXCEPT ![c.appr] = "failed"]
      [] OTHER -> attempts

(* The stores written by the next step of a call's write phase.            *)
Writes(c) == IF Transactional THEN {c.todo[k] : k \in DOMAIN c.todo}
                              ELSE {Head(c.todo)}

Accepts(c) ==
    /\ "session" \in Writes(c) => SessionAccepts(c)
    /\ "approval" \in Writes(c) => ApprovalAccepts(c)

(* What a call goes on with once the writes of this step are done.         *)
Continuation(c) ==
    IF ~Transactional /\ Len(c.todo) > 1
    THEN [c EXCEPT !.todo = Tail(@),
                   !.appr = IF c.op = "ask" THEN AskId(c) ELSE @]
    ELSE IF c.op = "mark"
         THEN [c EXCEPT !.op = "run", !.pc = "invoke", !.todo = <<>>]
    ELSE NoCall

(* The session writes the caller's lease check does not cover: a recovery  *)
(* under a lease it found and was not called with, and an interruption     *)
(* mark merged over a record whose approval was answered after the mark    *)
(* read it.                                                                *)
Strays(a, c) ==
    /\ "session" \in Writes(c)
    /\ \/ c.op = "recover" /\ c.lease # LeaseOf(a)
       \/ c.op = "interrupt" /\ c.next.pending # session.pending

Persist(a) ==
    LET c == calls[a]
        W == Writes(c) IN
    /\ c.pc = "persist"
    /\ Accepts(c)
    /\ session'   = IF "session" \in W THEN SessionAfter(c) ELSE session
    /\ plan'      = IF "plan" \in W THEN PlanAfter(c) ELSE plan
    /\ task'      = IF "task" \in W THEN TaskAfter(c) ELSE task
    /\ attempts'  = IF "attempt" \in W THEN AttemptsAfter(c) ELSE attempts
    /\ approvals' = IF "approval" \in W
                    THEN [approvals EXCEPT ![AskId(c)] = ApprovalAfter(c)]
                    ELSE approvals
    /\ recorded' = IF c.op = "finish" /\ "approval" \in W
                   THEN [recorded EXCEPT ![c.appr] = @ + 1] ELSE recorded
    /\ strayed' = (strayed \/ Strays(a, c))
    /\ Set(a, Continuation(c))
    /\ UNCHANGED <<now, issued, held, uses>>

(* The call fails: a write is refused, the database reports an error, or a *)
(* leased session write ran out of attempts against heartbeats.  Nothing   *)
(* is undone here; a transaction wrote nothing.                            *)
PersistRefused(a) ==
    LET c == calls[a] IN
    /\ c.pc = "persist"
    /\ \/ ~Accepts(c) \/ Transactional
       \/ "session" \in Writes(c) /\ c.lease # NoLease
    /\ Return(a)
    /\ UNCHANGED <<stores, now, issued, held, uses, recorded, strayed>>

CallStep(a) == \/ Begin(a) \/ Mark(a) \/ Invoke(a) \/ Verify(a)
               \/ Normalize(a) \/ Persist(a) \/ PersistRefused(a)

Next ==
    \/ Tick
    \/ \E w \in Worker : \/ \E mode \in ClaimMode : Claim(w, mode)
                         \/ RenewLease(w) \/ ReleaseLease(w)
    \/ \E a \in Runner : \/ \E s \in Step : RunStep(a, s)
                         \/ ResumePendingApproval(a) \/ RecoverSession(a)
                         \/ MarkSessionInterrupted(a)
    \/ \E o \in Operator :
         \/ \E r \in {"once", "always", "reject"} : RespondApproval(o, r)
         \/ AbortSession(o)
    \/ \E a \in Actor : CallStep(a) \/ Crash(a)

Spec == Init /\ [][Next]_vars

----------------------------------------------------------------------------
(* Properties.                                                             *)

(* Every variable keeps its type.                                          *)
TypeOK ==
    /\ session \in State
    /\ plan \in Plan
    /\ task \in TaskStatus
    /\ approvals \in [ApprovalId -> Approval]
    /\ attempts \in [ApprovalId -> AttemptStatus]
    /\ now \in Nat /\ issued \in Nat
    /\ held \in [Worker -> Nat]
    /\ calls \in [Actor -> Call]
    /\ uses \in [ApprovalId -> Nat]
    /\ recorded \in [ApprovalId -> Nat]
    /\ strayed \in BOOLEAN

(* One logical runtime step updates session, task and plan together: a     *)
(* session in a terminal phase has its task in the matching status, no     *)
(* step in flight and no approval outstanding.  Nothing is said once a     *)
(* write strayed: the recovery of a worker that lost its lease can put a   *)
(* record it read before back over the outcome of the new holder.          *)
TerminalAgreement ==
    isTerminalPhase(session.phase) /\ ~strayed =>
        /\ task = CASE session.phase = "complete" -> "completed"
                    [] session.phase = "failed"   -> "failed"
                    [] OTHER                      -> "aborted"
        /\ session.exec = "idle"
        /\ session.inFlight = NoStep
        /\ session.pending = NoApprovalId

(* Session, approval and attempt stores agree on what is being waited for: *)
(* a session that waits has a pending approval, one with a pending         *)
(* approval waits or was marked interrupted, an approval or attempt that   *)
(* is open belongs to it, and a resolved one is gone from it; as long as   *)
(* no write strayed: such a write takes a pending approval away from the   *)
(* session, or gives it a rejected one back.                               *)
ApprovalAgreement ==
    LET p == session.pending
        waits == p # NoApprovalId /\ approvals[p].status = "pending" IN
    ~strayed =>
        /\ p # NoApprovalId => approvals[p].status \in {"pending", "approved"}
        /\ session.exec = "awaiting_approval" => waits
        /\ waits => session.exec \in {"awaiting_approval", "interrupted"}
        /\ \A i \in ApprovalId :
             approvals[i].status = "pending" \/ attempts[i] = "blocked" => i = p

(* A session that reached a terminal phase stays there, whatever runs,     *)
(* responses and aborts are still under way on it.  The code has two ways  *)
(* out: its lease holder may mark it interrupted, and a write may stray.   *)
TerminalIsFinal ==
    [][isTerminalPhase(session.phase) =>
          \/ session'.phase = session.phase
          \/ session'.phase = "recover" /\ session'.exec = "interrupted"
          \/ strayed']_vars

(* However many callers resume it, at most one run is ever recorded under  *)
(* an approval given once.                                                 *)
OnceRecordedOnce ==
    \A i \in ApprovalId : approvals[i].reply = "once" => recorded[i] <= 1

(* A rejected approval, by its operator or by an abort, never lets the     *)
(* tool run.                                                               *)
RejectedNeverRuns ==
    \A i \in ApprovalId : approvals[i].status = "rejected" => uses[i] = 0

=============================================================================
