---------------------------- MODULE WorkerLoop ----------------------------
(***************************************************************************)
(* The worker helper: RunLoop and RunOnce, with the heartbeat goroutine    *)
(* beside the run it protects, cancellation, cleanup, back-off, and the    *)
(* death and restart of worker processes.                                  *)
(*                                                                         *)
(*   pkg/harness/worker/worker.go, on the service calls of                 *)
(*   pkg/harness/runtime/coordination.go, recovery.go, session_driver.go   *)
(*                                                                         *)
(* A service call is one step here: SessionLease has its inner loop.  Time *)
(* is relative: expires, renewIn and wait count the ticks that are left,   *)
(* and a lease id is the number of the worker that drew it, because a      *)
(* process holds one lease at a time.  Versions play no part.              *)
(***************************************************************************)
EXTENDS SessionState, Integers, Sequences

CONSTANTS
    Session,            \* session ids, oldest first
    Worker,             \* worker processes, numbered from 1
    LeaseTTL, RenewInterval,
    IdleWait, MaxIdleWait, ErrorWait, MaxErrorWait, BackoffFactor,
    Durable,            \* TRUE: Postgres, whose calls fail on an ended context
    MaxSteps,           \* bound: steps a session still has to run
    MaxFaults           \* bound: crashes, shutdowns, late heartbeats and
                        \*        failed store calls together

ASSUME SessionAssumption == Session \subseteq Nat \ {0}
ASSUME WorkerAssumption == Worker \subseteq Nat \ {0}
ASSUME IntervalAssumption ==
    /\ {LeaseTTL, RenewInterval, IdleWait, MaxIdleWait, ErrorWait,
        MaxErrorWait, BackoffFactor} \subseteq Nat \ {0}
    /\ IdleWait <= MaxIdleWait /\ ErrorWait <= MaxErrorWait
ASSUME BoundAssumption ==
    /\ {MaxSteps, MaxFaults} \subseteq Nat
    /\ Durable \in BOOLEAN

NoSession == 0

VARIABLES
    sessions,   \* the session store
    left,       \* left[s]: steps of the plan that were not run yet
    workers,    \* workers[w]: the stack frame of RunLoop in process w
    faults      \* what has gone wrong so far

vars == <<sessions, left, workers, faults>>

(* pc: loop = top of RunLoop, claim = in claim(), recover, drive, mark,    *)
(* tool, finish = in the run, join = waiting for the heartbeat, release,   *)
(* after = RunOnce returned.                                               *)
Pc == {"loop", "claim", "recover", "drive", "mark", "tool", "finish", "join",
       "release", "after", "sleep", "stopped", "down"}
Running == {"recover", "drive", "mark", "tool", "finish"}

Process ==
    [pc : Pc, mode : Nat,
     s : Session \cup {NoSession},                \* the claimed session
     done : BOOLEAN,                              \* ctx.Done() of RunLoop
     late : BOOLEAN,                              \* ctx was done when RunOnce began
     out : {"ok", "error", "nowork"},             \* what RunOnce returns
     hb : {"off", "wait", "renew"},               \* the heartbeat goroutine
     lost : BOOLEAN,                              \* it has cancelled the run
     renewIn : Nat, wait : Nat, nextIdle : Nat, nextError : Nat]

Started == [pc |-> "loop", mode |-> 1, s |-> NoSession, done |-> FALSE,
            late |-> FALSE, out |-> "ok", hb |-> "off", lost |-> FALSE,
            renewIn |-> 0, wait |-> 0, nextIdle |-> IdleWait,
            nextError |-> ErrorWait]

Init ==
    /\ left \in [Session -> 1..MaxSteps]
    /\ sessions = [s \in Session |-> Created(1)]
    /\ workers = [w \in Worker |-> Started]
    /\ faults = [crashes |-> 0, shutdowns |-> 0, slips |-> 0]

Set(w, p) == workers' = [workers EXCEPT ![w] = p]

(* The calling context of the run, and of the calls around it, has ended.  *)
Cancelled(p) == p.done \/ p.lost

(* Variant: only a lost lease stops the calls of a run.                    *)
RefusedWhenLost(p) == Durable /\ p.lost

(* With Postgres a unit of work cannot begin on an ended context.          *)
Refused(p) == Durable /\ Cancelled(p)

Holds(w) == requireSessionLease(sessions[workers[w].s], w, 0)

----------------------------------------------------------------------------
(* RunOnce.                                                                *)

StartOnce(w) ==
    LET p == workers[w] IN
    /\ p.pc = "loop"
    /\ Set(w, [p EXCEPT !.pc = "claim", !.late = p.done])
    /\ UNCHANGED <<sessions, left, faults>>

(* Variant: only runnable sessions are claimed.                            *)
claimModesRunnable == <<"runnable">>

(* The default of Options.ClaimModes.                                      *)
claimModes == <<"runnable", "recoverable">>

Claimable(s, mode) == IF Durable THEN claimCondition(sessions[s], mode, 0)
                                 ELSE claimableState(sessions[s], mode, 0)

(* claim(): the modes are tried in order; a claimed session starts the     *)
(* heartbeat and the run.                                                  *)
Claim(w) ==
    LET p == workers[w]
        found == {s \in Session : Claimable(s, claimModes[p.mode])}
    IN
    /\ p.pc = "claim"
    /\ \/ /\ Refused(p)
          /\ Set(w, [p EXCEPT !.pc = "after", !.out = "error"])
          /\ UNCHANGED sessions
       \/ /\ ~Refused(p) /\ p.mode > Len(claimModes)
          /\ Set(w, [p EXCEPT !.pc = "after", !.out = "nowork"])
          /\ UNCHANGED sessions
       \/ /\ ~Refused(p) /\ p.mode <= Len(claimModes) /\ found = {}
          /\ Set(w, [p EXCEPT !.mode = @ + 1])
          /\ UNCHANGED sessions
       \/ /\ ~Refused(p) /\ p.mode <= Len(claimModes)
          /\ \E s \in found :
               /\ \A r \in found : s <= r
               /\ sessions' = [sessions EXCEPT ![s].lease = w,
                                               ![s].expires = LeaseTTL]
               /\ Set(w, [p EXCEPT !.s = s, !.mode = 1, !.hb = "wait",
                    !.lost = FALSE, !.renewIn = RenewInterval,
                    !.pc = IF claimModes[p.mode] = "runnable" THEN "drive"
                                                              ELSE "recover"])
    /\ UNCHANGED <<left, faults>>

(* Variant: phase and execution state swapped.                             *)
RecoveredSwapped(st) == [st EXCEPT !.exec = "recover", !.phase = "idle"]

(* normalizeSessionForRecovery on a session claimed as recoverable.        *)
Recovered(st) == [st EXCEPT !.exec = "idle", !.phase = "recover"]

(* RecoverClaimedSession up to the session driver.                         *)
Recover(w) ==
    LET p == workers[w] IN
    /\ p.pc = "recover"
    /\ \/ /\ Holds(w) /\ isTerminalPhase(sessions[p.s].phase)
          /\ Set(w, [p EXCEPT !.pc = "join"])
          /\ UNCHANGED sessions
       \/ /\ Holds(w) /\ ~isTerminalPhase(sessions[p.s].phase) /\ ~Refused(p)
          /\ sessions' = [sessions EXCEPT ![p.s] = Recovered(@)]
          /\ Set(w, [p EXCEPT !.pc = "drive"])
       \/ /\ ~Holds(w) \/ (~isTerminalPhase(sessions[p.s].phase) /\ Refused(p))
          /\ Set(w, [p EXCEPT !.pc = "join", !.out = "error"])
          /\ UNCHANGED sessions
    /\ UNCHANGED <<left, faults>>

(* The top of the session driver's loop.                                   *)
Drive(w) ==
    LET p == workers[w] IN
    /\ p.pc = "drive"
    /\ Set(w, IF ~Holds(w) THEN [p EXCEPT !.pc = "join", !.out = "error"]
              ELSE IF isTerminalPhase(sessions[p.s].phase)
                   THEN [p EXCEPT !.pc = "join"]
              ELSE [p EXCEPT !.pc = "mark"])
    /\ UNCHANGED <<sessions, left, faults>>

Mark(w) ==
    LET p == workers[w] IN
    /\ p.pc = "mark"
    /\ \/ /\ Holds(w) /\ ~Refused(p)
          /\ sessions' = [sessions EXCEPT ![p.s].exec = "in_flight"]
          /\ Set(w, [p EXCEPT !.pc = "tool"])
       \/ /\ ~Holds(w) \/ Refused(p)
          /\ Set(w, [p EXCEPT !.pc = "join", !.out = "error"])
          /\ UNCHANGED sessions
    /\ UNCHANGED <<left, faults>>

(* The tool returns; it need not notice a cancellation.                    *)
Tool(w) ==
    /\ workers[w].pc = "tool"
    /\ Set(w, [workers[w] EXCEPT !.pc = "finish"])
    /\ UNCHANGED <<sessions, left, faults>>

(* The outcome of the step is recorded and the driver goes on, or the      *)
(* session has reached a terminal phase.                                   *)
Finish(w) ==
    LET p == workers[w] IN
    /\ p.pc = "finish"
    /\ \/ /\ Holds(w) /\ ~Refused(p)
          /\ \E ok \in BOOLEAN :
               LET phase == IF ~ok THEN "failed"
                            ELSE IF left[p.s] = 1 THEN "complete" ELSE "plan"
               IN  /\ sessions' = [sessions EXCEPT ![p.s].exec = "idle",
                                                   ![p.s].phase = phase]
                   /\ left' = [left EXCEPT ![p.s] = @ - 1]
                   /\ Set(w, [p EXCEPT !.pc = IF isTerminalPhase(phase)
                                              THEN "join" ELSE "drive"])
       \/ /\ ~Holds(w) \/ Refused(p)
          /\ Set(w, [p EXCEPT !.pc = "join", !.out = "error"])
          /\ UNCHANGED <<sessions, left>>
    /\ UNCHANGED faults

(* renewCancel, wg.Wait and the renewal error: the goroutine has ended.    *)
Join(w) ==
    LET p == workers[w] IN
    /\ p.pc = "join"
    /\ p.hb = "off"
    /\ Set(w, [p EXCEPT !.pc = "release",
                        !.out = IF p.lost THEN "error" ELSE @])
    /\ UNCHANGED <<sessions, left, faults>>

(* Variant: the lease is released on the context of the run.               *)
ReleaseCancelled(w) ==
    LET p == workers[w] IN
    /\ p.pc = "release"
    /\ sessions' = IF Holds(w) /\ ~Refused(p)
                   THEN [sessions EXCEPT ![p.s].lease = NoLease, ![p.s].expires = 0]
                   ELSE sessions
    /\ Set(w, [p EXCEPT !.pc = "after", !.s = NoSession, !.lost = FALSE,
                        !.out = IF Holds(w) THEN @ ELSE "error"])
    /\ UNCHANGED <<left, faults>>

(* The release has a context of its own, which outlives the run's.         *)
Release(w) ==
    LET p == workers[w] IN
    /\ p.pc = "release"
    /\ sessions' = IF Holds(w)
                   THEN [sessions EXCEPT ![p.s].lease = NoLease, ![p.s].expires = 0]
                   ELSE sessions
    /\ Set(w, [p EXCEPT !.pc = "after", !.s = NoSession, !.lost = FALSE,
                        !.out = IF Holds(w) THEN @ ELSE "error"])
    /\ UNCHANGED <<left, faults>>

----------------------------------------------------------------------------
(* RunLoop.                                                                *)

backoffWait(current, max) ==
    IF current >= max THEN max
    ELSE IF current * BackoffFactor > max THEN max ELSE current * BackoffFactor

(* The waits after an iteration; a productive one starts the next at once. *)
(* What RunOnce returned is dropped.                                       *)
After(w) ==
    LET p == [workers[w] EXCEPT !.out = "ok", !.late = FALSE, !.mode = 1] IN
    /\ workers[w].pc = "after"
    /\ Set(w,
         CASE workers[w].out = "error" ->
                [p EXCEPT !.pc = "sleep", !.wait = p.nextError,
                          !.nextError = backoffWait(@, MaxErrorWait),
                          !.nextIdle = IdleWait]
           [] workers[w].out = "nowork" ->
                [p EXCEPT !.pc = "sleep", !.wait = p.nextIdle,
                          !.nextIdle = backoffWait(@, MaxIdleWait),
                          !.nextError = ErrorWait]
           [] OTHER ->
                [p EXCEPT !.pc = "loop", !.nextIdle = IdleWait,
                          !.nextError = ErrorWait])
    /\ UNCHANGED <<sessions, left, faults>>

(* Variant: the wait does not listen to the context.                       *)
sleepUninterrupted(w) == FALSE

(* sleepContext: the context has ended, or the timer has fired.  When both *)
(* have, Go picks one at random.                                           *)
sleepContext(w) ==
    LET p == workers[w] IN
    /\ p.pc = "sleep" /\ p.done
    /\ Set(w, [p EXCEPT !.pc = "stopped", !.wait = 0])
    /\ UNCHANGED <<sessions, left, faults>>

WakeUp(w) ==
    LET p == workers[w] IN
    /\ p.pc = "sleep" /\ p.wait = 0
    /\ Set(w, [p EXCEPT !.pc = "loop"])
    /\ UNCHANGED <<sessions, left, faults>>

WorkerStep(w) ==
    \/ StartOnce(w) \/ Claim(w) \/ Recover(w) \/ Drive(w) \/ Mark(w) \/ Tool(w)
    \/ Finish(w) \/ Join(w) \/ Release(w) \/ After(w)
    \/ sleepContext(w) \/ WakeUp(w)

----------------------------------------------------------------------------
(* The heartbeat goroutine.                                                *)

(* Variant: the end of the run does not end the heartbeat.                 *)
RenewEndedWithContext(p) == Cancelled(p)

(* renewCtx ends with RunLoop's context, with the run, or when the run is  *)
(* cancelled.                                                              *)
RenewEnded(p) == Cancelled(p) \/ p.pc = "join"

(* The select of the goroutine: the ticker, or the end of its context.     *)
Heartbeat(w) ==
    LET p == workers[w] IN
    /\ p.hb = "wait"
    /\ \/ p.renewIn = 0 /\ Set(w, [p EXCEPT !.hb = "renew"])
       \/ RenewEnded(p) /\ Set(w, [p EXCEPT !.hb = "off", !.renewIn = 0])
    /\ UNCHANGED <<sessions, left, faults>>

(* RenewSessionLease and what follows from its result: a failure cancels   *)
(* the run unless the renewal itself was cancelled.                        *)
RenewLease(w) ==
    LET p == workers[w] IN
    /\ p.hb = "renew"
    /\ \/ /\ Holds(w) /\ ~(Durable /\ RenewEnded(p))
          /\ sessions' = [sessions EXCEPT ![p.s].expires = LeaseTTL]
          /\ Set(w, [p EXCEPT !.hb = "wait", !.renewIn = RenewInterval])
       \/ /\ ~Holds(w) \/ (Durable /\ RenewEnded(p))
          /\ Set(w, [p EXCEPT !.hb = "off", !.renewIn = 0,
                              !.lost = @ \/ ~RenewEnded(p)])
          /\ UNCHANGED sessions
    /\ UNCHANGED <<left, faults>>

HeartbeatStep(w) == Heartbeat(w) \/ RenewLease(w)

----------------------------------------------------------------------------
(* Time and faults.                                                        *)

Less(n) == IF n = 0 THEN 0 ELSE n - 1

Elapse ==
    /\ sessions' = [s \in Session |-> [sessions[s] EXCEPT !.expires = Less(@)]]
    /\ workers' = [w \in Worker |-> [workers[w] EXCEPT
                     !.renewIn = Less(@), !.wait = Less(@)]]
    /\ UNCHANGED left

(* A renewal that is due is made before time goes on.                      *)
OnTime == \A w \in Worker :
            /\ workers[w].hb = "wait" => workers[w].renewIn > 0
            /\ workers[w].hb # "renew"

Tick == OnTime /\ Elapse /\ UNCHANGED faults

MoreFaults == faults.crashes + faults.shutdowns + faults.slips < MaxFaults

Slip == /\ MoreFaults
        /\ faults' = [faults EXCEPT !.slips = @ + 1]

(* A pause of a process: its renewal comes too late.                       *)
LateTick == ~OnTime /\ Slip /\ Elapse

(* A store call fails for reasons of its own.                              *)
StoreError(w) ==
    LET p == workers[w] IN
    /\ Slip
    /\ \/ p.pc = "claim" /\ Set(w, [p EXCEPT !.pc = "after", !.out = "error"])
       \/ /\ p.pc \in {"recover", "mark", "finish"}
          /\ Set(w, [p EXCEPT !.pc = "join", !.out = "error"])
       \/ /\ p.pc = "release"
          /\ Set(w, [p EXCEPT !.pc = "after", !.out = "error", !.s = NoSession,
                              !.lost = FALSE])
       \/ /\ p.hb = "renew"
          /\ Set(w, [p EXCEPT !.hb = "off", !.renewIn = 0,
                              !.lost = @ \/ ~RenewEnded(p)])
    /\ UNCHANGED <<sessions, left>>

(* The caller of RunLoop cancels its context.                              *)
Shutdown(w) ==
    /\ workers[w].pc \notin {"stopped", "down"} /\ ~workers[w].done
    /\ MoreFaults
    /\ faults' = [faults EXCEPT !.shutdowns = @ + 1]
    /\ Set(w, [workers[w] EXCEPT !.done = TRUE])
    /\ UNCHANGED <<sessions, left>>

(* The process dies with its heartbeat; only the store remains.            *)
Crash(w) ==
    /\ workers[w].pc \notin {"stopped", "down"}
    /\ Durable
    /\ MoreFaults
    /\ faults' = [faults EXCEPT !.crashes = @ + 1]
    /\ Set(w, [Started EXCEPT !.pc = "down"])
    /\ UNCHANGED <<sessions, left>>

Restart(w) ==
    /\ workers[w].pc \in {"stopped", "down"}
    /\ Set(w, Started)
    /\ UNCHANGED <<sessions, left, faults>>

Next ==
    \/ Tick \/ LateTick
    \/ \E w \in Worker : \/ WorkerStep(w) \/ HeartbeatStep(w) \/ StoreError(w)
                         \/ Shutdown(w) \/ Crash(w) \/ Restart(w)

(* Goroutines are scheduled, tools return, time goes on and a worker that  *)
(* is down is started again; crashes, slips and shutdowns need not happen. *)
(* The random choice of a select does not miss an ended context forever.   *)
Fairness ==
    /\ WF_vars(Tick)
    /\ \A w \in Worker : /\ WF_vars(WorkerStep(w))
                         /\ WF_vars(HeartbeatStep(w))
                         /\ SF_vars(sleepContext(w))
                         /\ WF_vars(Restart(w))

Spec == Init /\ [][Next]_vars /\ Fairness

----------------------------------------------------------------------------
(* Properties.                                                             *)

(* Every variable keeps its type.                                          *)
TypeOK ==
    /\ sessions \in [Session -> State]
    /\ left \in [Session -> Int]
    /\ workers \in [Worker -> Process]
    /\ faults \in [crashes : Nat, shutdowns : Nat, slips : Nat]

(* As long as heartbeats are on time and succeed, two workers are never    *)
(* inside a run of the same session, whichever processes died before.      *)
ExclusiveRuns ==
    faults.slips = 0 =>
        \A v, w \in Worker :
            /\ workers[v].pc \in Running /\ workers[w].pc \in Running
            /\ workers[v].s = workers[w].s
            /\ ~workers[v].done /\ ~workers[w].done
            => v = w

(* RunOnce gives its session back whatever ended the run: with no crash    *)
(* and no failing store, a worker that is between two sessions or has      *)
(* stopped leaves no lease of its own behind.                              *)
LeaseReturned ==
    faults.slips = 0 /\ faults.crashes = 0 =>
        \A w \in Worker, s \in Session :
            workers[w].s = NoSession => ~leaseHeldAt(sessions[s], w, 0)

(* The comment on RunLoop, "until the context ends": an iteration begun on *)
(* an ended context runs nothing.  RunLoop does not look at its context    *)
(* after a productive iteration; the claim on Postgres refuses it.         *)
NoRunAfterContextEnds ==
    \A w \in Worker : workers[w].late => workers[w].s = NoSession

(* Whatever workers die, pause, fail or are shut down in the meantime,     *)
(* every session is eventually run to a terminal phase.                    *)
EverySessionFinishes ==
    \A s \in Session : <>[](isTerminalPhase(sessions[s].phase))

(* RunOnce never hangs on its heartbeat: no worker waits for it for ever.  *)
JoinReturns ==
    \A w \in Worker : []<>(workers[w].pc # "join")

(* A worker whose context was cancelled does not go on for ever: it stops, *)
(* and only a new process has a context that has not ended.                *)
StopsWhenTold ==
    \A w \in Worker : []<>(~workers[w].done \/ workers[w].pc = "stopped")
=============================================================================
