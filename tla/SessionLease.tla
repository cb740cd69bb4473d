---------------------------- MODULE SessionLease ----------------------------
(***************************************************************************)
(* Session leases and the session writes they fence.                       *)
(*                                                                         *)
(* Workers claim a session, heartbeat the lease, run service calls under   *)
(* it and release it; direct callers use the same calls without a lease.   *)
(* A call is not atomic: it reads the session, checks the lease, computes  *)
(* the next record and writes it with a compare-and-swap on the version,   *)
(* and every other actor may run in between.  A leased write that loses    *)
(* the race is re-based on the fresher record and tried again.             *)
(*                                                                         *)
(*   pkg/harness/session/store.go, internal/postgres/sessionrepo/repo.go   *)
(*   pkg/harness/runtime/coordination.go, session_update.go, recovery.go   *)
(*   pkg/harness/runtime/interactive_control.go (StartInteractive)         *)
(***************************************************************************)
EXTENDS SessionState, FiniteSets

CONSTANTS
    Session,          \* session ids, ordered like the strings they stand for
    Worker,           \* processes that claim sessions
    Client,           \* processes that call the direct (unclaimed) APIs
    Handle,           \* runtime handle ids
    LeaseTTL,         \* lease duration in ticks
    MaxTotalRuntime,  \* LoopBudgets.MaxTotalRuntimeMS, 0 = unlimited
    MaxAttempts,      \* maxSessionUpdateAttempts
    Durable,          \* TRUE: Postgres and its transactional runner
    MaxDelay,         \* bound: age of a clock reading when it is used
    MaxTime,          \* bound: ticks
    MaxLease,         \* bound: leases ever granted
    MaxVersion        \* bound: version above which no call is started

ASSUME SessionAssumption  == Session \subseteq Nat \ {0}
ASSUME WorkerAssumption   == Worker \cap Client = {}
ASSUME LeaseTTLAssumption == LeaseTTL \in Nat \ {0}
ASSUME BoundAssumption ==
    /\ {MaxTotalRuntime, MaxDelay, MaxTime, MaxLease, MaxVersion} \subseteq Nat
    /\ MaxAttempts \in Nat \ {0}
    /\ Durable \in BOOLEAN

Actor == Worker \cup Client
NoSession == 0

VARIABLES
    sessions,   \* the session store
    now,        \* the clock
    issued,     \* lease ids drawn so far (uuids: never drawn twice)
    held,       \* held[w]: the claim worker w believes it has
    calls,      \* calls[a]: the service call actor a is in
    handles     \* the runtime handle store

vars == <<sessions, now, issued, held, calls, handles>>

NoHold == [s |-> NoSession, lease |-> NoLease]

NoCall == [op |-> "none", pc |-> "idle", s |-> NoSession, lease |-> NoLease,
           fence |-> NoLease, at |-> 0, step |-> NoStep, tries |-> 0,
           reconcile |-> FALSE, next |-> Absent]

Op == {"none", "in_flight", "interrupted", "recover", "open"}

(* pc: load/reload = about to read the session, cas = about to write the   *)
(* record in next, peek/norm = the two reads of a recovery, open = about   *)
(* to persist a started interactive runtime.                               *)
Pc == {"idle", "load", "reload", "cas", "peek", "norm", "open"}

Call == [op : Op, pc : Pc, s : Session \cup {NoSession}, lease : Nat,
         fence : Nat,         \* the lease handed to persistSessionUpdate
         at : Nat,            \* the clock reading the call works with
         step : Step \cup {NoStep}, tries : Nat, reconcile : BOOLEAN,
         next : State]        \* the record the call wants to write

HandleRec == [s : Session \cup {NoSession},
              status : {"none", "active", "invalidated"}]

(* Every handler reads the clock once and uses the reading a little later. *)
ReadClock == {t \in 1..now : now <= t + MaxDelay}

Exists(s) == sessions[s].version > 0

(***************************************************************************)
(* The states a process can find in the store when it starts: records left *)
(* behind by earlier runs, with no lease on them.                          *)
(***************************************************************************)
Persisted ==
    {Absent} \cup
    {[Created(1) EXCEPT !.phase = p] : p \in {"received", "aborted"}}
    \cup
    {[Created(1) EXCEPT !.phase = "recover", !.exec = "interrupted",
                        !.interrupted = TRUE, !.inFlight = st, !.current = st,
                        !.started = 1] : st \in Step}

Init ==
    /\ sessions \in [Session -> Persisted]
    /\ now = 1
    /\ issued = 0
    /\ held = [w \in Worker |-> NoHold]
    /\ calls = [a \in Actor |-> NoCall]
    /\ handles = [h \in Handle |-> [s |-> NoSession, status |-> "none"]]

Tick ==
    /\ now < MaxTime
    /\ now' = now + 1
    /\ UNCHANGED <<sessions, issued, held, calls, handles>>

CreateSession(s) ==
    /\ ~Exists(s)
    /\ sessions' = [sessions EXCEPT ![s] = Created(now)]
    /\ UNCHANGED <<now, issued, held, calls, handles>>

----------------------------------------------------------------------------
(* Lease coordination: each store operation is one critical section (the   *)
(* memory store's mutex) or one SQL statement.                             *)

Claimable(s, mode, t) ==
    IF Durable THEN claimCondition(sessions[s], mode, t)
               ELSE claimableState(sessions[s], mode, t)

Before(s1, s2) ==
    \/ sessions[s1].created < sessions[s2].created
    \/ sessions[s1].created = sessions[s2].created /\ s1 < s2

(* claimSession -> ClaimNext: the oldest claimable session gets a fresh    *)
(* lease.                                                                  *)
Claim(w, mode) ==
    /\ held[w] = NoHold /\ calls[w] = NoCall
    /\ issued < MaxLease
    /\ \E t \in ReadClock, s \in Session :
         /\ Claimable(s, mode, t)
         /\ \A r \in Session : Claimable(r, mode, t) => r = s \/ Before(s, r)
         /\ sessions' = [sessions EXCEPT
                           ![s] = withLease(@, issued + 1, t + LeaseTTL)]
         /\ held' = [held EXCEPT ![w] = [s |-> s, lease |-> issued + 1]]
    /\ issued' = issued + 1
    /\ UNCHANGED <<now, calls, handles>>

(* The heartbeat; it runs beside the worker's current call.                *)
RenewLease(w) ==
    /\ held[w] # NoHold
    /\ sessions[held[w].s].version < MaxVersion
    /\ \E t \in ReadClock :
         /\ leaseHeldAt(sessions[held[w].s], held[w].lease, t)
         /\ sessions' = [sessions EXCEPT
                ![held[w].s] = withLease(@, held[w].lease, t + LeaseTTL)]
    /\ UNCHANGED <<now, issued, held, calls, handles>>

(* The worker hands the session back; a lease it no longer holds is left   *)
(* alone (ErrSessionLeaseNotHeld).                                         *)
ReleaseLease(w) ==
    /\ held[w] # NoHold /\ calls[w] = NoCall
    /\ \E t \in ReadClock :
         sessions' = IF leaseHeldAt(sessions[held[w].s], held[w].lease, t)
                     THEN [sessions EXCEPT ![held[w].s] = withLease(@, NoLease, 0)]
                     ELSE sessions
    /\ held' = [held EXCEPT ![w] = NoHold]
    /\ UNCHANGED <<now, issued, calls, handles>>

(* A process dies: its call and its claim are forgotten, the store stays.  *)
Crash(a) ==
    /\ calls[a] # NoCall \/ (a \in Worker /\ held[a] # NoHold)
    /\ calls' = [calls EXCEPT ![a] = NoCall]
    /\ held' = IF a \in Worker THEN [held EXCEPT ![a] = NoHold] ELSE held
    /\ UNCHANGED <<sessions, now, issued, handles>>

----------------------------------------------------------------------------
(* Service calls.  A worker calls the claimed API with the lease it was    *)
(* given, a client the direct one.                                         *)

LeaseOf(a) == IF a \in Worker THEN held[a].lease ELSE NoLease

Target(a) == IF a \in Worker THEN {held[a].s} \ {NoSession} ELSE Session

CanCall(a, s) ==
    /\ calls[a] = NoCall
    /\ s \in Target(a)
    /\ Exists(s)
    /\ sessions[s].version < MaxVersion

Start(a, op, pc, s, t, step) ==
    /\ calls' = [calls EXCEPT ![a] =
                   [NoCall EXCEPT !.op = op, !.pc = pc, !.s = s,
                                  !.lease = LeaseOf(a), !.fence = LeaseOf(a),
                                  !.at = t, !.step = step]]
    /\ UNCHANGED <<sessions, now, issued, held, handles>>

Return(a) == calls' = [calls EXCEPT ![a] = NoCall]

(* markSessionInFlight up to updateRecoveryState                           *)
MarkSessionInFlight(a, s, step) ==
    /\ CanCall(a, s)
    /\ \E t \in ReadClock :
         /\ requireSessionLease(sessions[s], LeaseOf(a), t)
         /\ ensureRuntimeBudget(sessions[s], MaxTotalRuntime, t)
         /\ Start(a, "in_flight", "load", s, t, step)

MarkSessionInterrupted(a, s) ==
    /\ CanCall(a, s)
    /\ \E t \in ReadClock : Start(a, "interrupted", "load", s, t, NoStep)

(* Variant: the execution state is also stored as the phase.               *)
MutateMisplacedPhase(c, st) ==
    IF c.op = "in_flight"
    THEN [st EXCEPT !.started = IF @ = 0 THEN c.at ELSE @,
                    !.exec = "in_flight", !.inFlight = c.step]
    ELSE [st EXCEPT !.exec = "interrupted", !.interrupted = TRUE,
                    !.phase = "interrupted"]

(* The change markSessionInFlight and markSessionInterrupted make.         *)
Mutate(c, st) ==
    IF c.op = "in_flight"
    THEN [st EXCEPT !.started = IF @ = 0 THEN c.at ELSE @,
                    !.exec = "in_flight", !.inFlight = c.step]
    ELSE [st EXCEPT !.exec = "interrupted", !.interrupted = TRUE,
                    !.phase = "recover"]

(* Variant: the record is read without the lease check.                    *)
LoadUnchecked(a) ==
    LET c == calls[a]
        st == sessions[c.s] IN
    /\ c.pc = "load"
    /\ \E t \in ReadClock :
         calls' = [calls EXCEPT ![a] = [c EXCEPT
             !.pc = IF c.fence = NoLease THEN "cas" ELSE "reload",
             !.next = IF c.fence = NoLease
                      THEN [Mutate(c, st) EXCEPT !.version = @ + 1]
                      ELSE Mutate(c, st),
             !.at = t]]
    /\ UNCHANGED <<sessions, now, issued, held, handles>>

(* updateRecoveryState: read, check the lease, compute the next record.    *)
(* persistSessionUpdateAt then writes it straight away for a direct call   *)
(* and re-reads first for a claimed one.                                   *)
Load(a) ==
    LET c == calls[a]
        st == sessions[c.s] IN
    /\ c.pc = "load"
    /\ \E t, u \in ReadClock :
         \/ /\ t <= u
            /\ requireSessionLease(st, c.lease, t)
            /\ calls' = [calls EXCEPT ![a] = [c EXCEPT
                 !.pc = IF c.fence = NoLease THEN "cas" ELSE "reload",
                 !.next = IF c.fence = NoLease
                          THEN [Mutate(c, st) EXCEPT !.version = @ + 1]
                          ELSE Mutate(c, st),
                 !.at = IF c.fence = NoLease THEN t ELSE u]]
         \/ ~requireSessionLease(st, c.lease, t) /\ Return(a)
    /\ UNCHANGED <<sessions, now, issued, held, handles>>

(* Variant: the retry re-bases the write without checking the lease again. *)
ReloadUnchecked(a) ==
    LET c == calls[a]
        st == sessions[c.s] IN
    /\ c.pc = "reload"
    /\ calls' = [calls EXCEPT ![a] = [c EXCEPT
                   !.pc = "cas", !.next = mergeSessionUpdate(st, c.next, c.fence)]]
    /\ UNCHANGED <<sessions, now, issued, held, handles>>

(* One turn of updateSessionWithRetry: read, check the lease at the time   *)
(* the loop was entered, merge.                                            *)
Reload(a) ==
    LET c == calls[a]
        st == sessions[c.s] IN
    /\ c.pc = "reload"
    /\ \/ /\ requireSessionLease(st, c.fence, c.at)
          /\ calls' = [calls EXCEPT ![a] = [c EXCEPT
                         !.pc = "cas",
                         !.next = mergeSessionUpdate(st, c.next, c.fence)]]
       \/ ~requireSessionLease(st, c.fence, c.at) /\ Return(a)
    /\ UNCHANGED <<sessions, now, issued, held, handles>>

(* reconcileActiveRuntimeHandlesInStore                                    *)
Reconciled(s) ==
    [h \in Handle |-> IF handles[h] = [s |-> s, status |-> "active"]
                      THEN [handles[h] EXCEPT !.status = "invalidated"]
                      ELSE handles[h]]

(* Variant: the write is accepted whatever version it was computed from.   *)
CasUnversioned(a) ==
    LET c == calls[a] IN
    /\ c.pc = "cas"
    /\ sessions' = [sessions EXCEPT ![c.s] = [stored(@, c.next) EXCEPT !.version = sessions[c.s].version + 1]]
    /\ handles' = IF c.reconcile /\ Durable THEN Reconciled(c.s) ELSE handles
    /\ Return(a)
    /\ UNCHANGED <<now, issued, held>>

(* Store.Update.  A transaction commits here, with the handles the         *)
(* recovery invalidated.  A conflict ends a direct call; a claimed one     *)
(* tries again while attempts are left.                                    *)
Cas(a) ==
    LET c == calls[a] IN
    /\ c.pc = "cas"
    /\ \/ /\ c.next.version = sessions[c.s].version + 1
          /\ sessions' = [sessions EXCEPT ![c.s] = stored(@, c.next)]
          /\ handles' = IF c.reconcile /\ Durable THEN Reconciled(c.s)
                                                  ELSE handles
          /\ Return(a)
       \/ /\ c.next.version # sessions[c.s].version + 1
          /\ IF c.fence # NoLease /\ c.tries + 1 < MaxAttempts
             THEN calls' = [calls EXCEPT ![a] = [c EXCEPT !.pc = "reload",
                                                          !.tries = @ + 1]]
             ELSE Return(a)
          /\ UNCHANGED <<sessions, handles>>
    /\ UNCHANGED <<now, issued, held>>

(* recoverSession up to normalizeSessionForRecovery, for a session with no *)
(* pending approval; a terminal session is returned as it is.              *)
RecoverSession(a, s) ==
    /\ CanCall(a, s)
    /\ ~isTerminalPhase(sessions[s].phase)
    /\ sessions[s].pending = 0
    /\ \E t \in ReadClock :
         /\ requireSessionLease(sessions[s], LeaseOf(a), t)
         /\ Start(a, "recover", "peek", s, t, NoStep)

(* The read before the transaction decides whether handles are reconciled. *)
NormalizePeek(a) ==
    LET c == calls[a]
        st == sessions[c.s] IN
    /\ c.pc = "peek"
    /\ calls' = [calls EXCEPT ![a] = [c EXCEPT
                   !.pc = "norm",
                   !.reconcile = \/ st.exec \in {"in_flight", "interrupted"}
                                 \/ st.phase = "recover"]]
    /\ UNCHANGED <<sessions, now, issued, held, handles>>

Normalized(st) ==
    IF st.exec \notin {"in_flight", "interrupted"} THEN st
    ELSE [st EXCEPT !.exec = "idle",
                    !.phase = IF isTerminalPhase(@) THEN @ ELSE "recover",
                    !.current = IF @ = NoStep THEN st.inFlight ELSE @]

(* Variant: the handles are reconciled outside the transaction.            *)
NormalizeHandlesFirst(a) ==
    LET c == calls[a]
        st == sessions[c.s]
        next == Normalized(st) IN
    /\ c.pc = "norm"
    /\ handles' = IF c.reconcile THEN Reconciled(c.s) ELSE handles
    /\ \E t \in ReadClock :
         IF next = st THEN Return(a)
         ELSE calls' = [calls EXCEPT ![a] = [c EXCEPT
                 !.fence = st.lease,
                 !.pc = IF st.lease = NoLease THEN "cas" ELSE "reload",
                 !.next = IF st.lease = NoLease
                          THEN [next EXCEPT !.version = @ + 1] ELSE next,
                 !.at = t]]
    /\ UNCHANGED <<sessions, now, issued, held>>

(* normalizeSessionForRecovery: read again, reconcile the handles, write   *)
(* the idle record under the lease found on the record just read.          *)
Normalize(a) ==
    LET c == calls[a]
        st == sessions[c.s]
        next == Normalized(st) IN
    /\ c.pc = "norm"
    /\ handles' = IF c.reconcile /\ (~Durable \/ next = st)
                  THEN Reconciled(c.s) ELSE handles
    /\ \E t \in ReadClock :
         IF next = st THEN Return(a)
         ELSE calls' = [calls EXCEPT ![a] = [c EXCEPT
                 !.fence = st.lease,
                 !.pc = IF st.lease = NoLease THEN "cas" ELSE "reload",
                 !.next = IF st.lease = NoLease
                          THEN [next EXCEPT !.version = @ + 1] ELSE next,
                 !.at = t]]
    /\ UNCHANGED <<sessions, now, issued, held>>

(* StartInteractive: the session is checked, the runtime is started, then  *)
(* its handle is persisted; neither part looks at the lease.               *)
StartInteractive(c, s) ==
    /\ CanCall(c, s)
    /\ ~isTerminalPhase(sessions[s].phase)
    /\ \E t \in ReadClock : Start(c, "open", "open", s, t, NoStep)

CreateRuntimeHandle(a) ==
    LET c == calls[a] IN
    /\ c.pc = "open"
    /\ \E h \in Handle :
         /\ handles[h].status = "none"
         /\ handles' = [handles EXCEPT ![h] = [s |-> c.s, status |-> "active"]]
    /\ Return(a)
    /\ UNCHANGED <<sessions, now, issued, held>>

CallStep(a) == \/ Load(a) \/ Reload(a) \/ Cas(a)
               \/ NormalizePeek(a) \/ Normalize(a) \/ CreateRuntimeHandle(a)

CallStart(a) ==
    \E s \in Session :
      \/ \E st \in Step : MarkSessionInFlight(a, s, st)
      \/ MarkSessionInterrupted(a, s)
      \/ RecoverSession(a, s)

Next ==
    \/ Tick
    \/ \E s \in Session : CreateSession(s)
    \/ \E w \in Worker : \/ \E mode \in ClaimMode : Claim(w, mode)
                         \/ RenewLease(w) \/ ReleaseLease(w)
    \/ \E a \in Actor : CallStart(a) \/ CallStep(a) \/ Crash(a)
    \/ \E c \in Client, s \in Session : StartInteractive(c, s)

Spec == Init /\ [][Next]_vars

----------------------------------------------------------------------------
(* Properties.                                                             *)

(* Every variable keeps its type.                                          *)
TypeOK ==
    /\ sessions \in [Session -> State]
    /\ now \in Nat \ {0}
    /\ issued \in Nat
    /\ held \in [Worker -> [s : Session \cup {NoSession}, lease : Nat]]
    /\ calls \in [Actor -> Call]
    /\ handles \in [Handle -> HandleRec]

(* The write actor a is about to make will be accepted by the store.       *)
Landing(a) ==
    /\ calls[a].pc = "cas"
    /\ calls[a].next.version = sessions[calls[a].s].version + 1

(* A write persisted under a lease is only ever accepted while that lease  *)
(* is still the one on the session: whatever happened between the lease    *)
(* check of updateSessionWithRetry and Store.Update, a reclaim in between  *)
(* makes the compare-and-swap fail.                                        *)
LeaseFencing ==
    \A a \in Actor :
        Landing(a) /\ calls[a].fence # NoLease
            => sessions[calls[a].s].lease = calls[a].fence

(* While a lease is active on a session no direct caller and no earlier    *)
(* holder gets a write accepted: a claim that slips in after               *)
(* requireSessionLease wins.  The one exception the code makes is a        *)
(* recovery, which writes under the lease normalizeSessionForRecovery      *)
(* found on the record, whoever holds it and with whatever lease, or none, *)
(* RecoverSession was called.                                              *)
DirectWritesYield ==
    \A a \in Actor :
        LET st == sessions[calls[a].s] IN
        Landing(a) /\ leaseActiveAt(st, now)
            => \/ calls[a].lease = st.lease
               \/ calls[a].op = "recover" /\ calls[a].fence = st.lease

(* No session write moves a lease: whatever a call read before a claim, a  *)
(* heartbeat or a release, the record it gets accepted carries the lease   *)
(* id and the expiry that are on the session at that moment.               *)
WritesKeepLease ==
    \A a \in Actor :
        Landing(a) => /\ calls[a].next.lease = sessions[calls[a].s].lease
                      /\ calls[a].next.expires = sessions[calls[a].s].expires

(* With the transactional runner, recovery invalidates a runtime handle    *)
(* only together with taking the session out of flight: a recovery whose   *)
(* session write is refused leaves the handles alone.                      *)
ReconcileAtomic ==
    [][\A h \in Handle :
          handles[h].status = "active" /\ handles'[h].status = "invalidated"
            => sessions'[handles[h].s].exec \notin {"in_flight", "interrupted"}]_vars

(* The store as the lease contract sees it.                                *)
Contract == INSTANCE LeaseContract
    WITH lease   <- [s \in Session |-> sessions[s].lease],
         expires <- [s \in Session |-> sessions[s].expires],
         granted <- issued

(* The session store, with all its concurrent read-check-write calls,      *)
(* implements the lease contract: leases are granted under fresh ids to    *)
(* free sessions only, run at most LeaseTTL past the present, and leave    *)
(* the session by being given up or replaced.                              *)
LeaseContractHolds == Contract!Spec

(* docs/RUNTIME.md on the claimed recovery APIs: a write of a call issued  *)
(* under a lease is only accepted while that lease is on the session.      *)
CallerLeaseFencing ==
    \A a \in Actor :
        Landing(a) /\ calls[a].lease # NoLease
            => sessions[calls[a].s].lease = calls[a].lease
=============================================================================
