--------------------------- MODULE BlockedRuntime ---------------------------
(***************************************************************************)
(* Generic blocked runtimes: a caller blocks a session on a confirmation,  *)
(* an external or an interactive condition, others answer, resume or abort *)
(* it or abort the whole session, while runs of the session (direct or     *)
(* under a lease) start, are marked in flight and record their outcome.    *)
(*                                                                         *)
(*   pkg/harness/runtime/blocked_runtime_lifecycle.go,                     *)
(*   blocked_runtime_state.go, service_reads.go, abort.go, rollback.go,    *)
(*   pkg/harness/execution/blocked_runtime_store.go                        *)
(*                                                                         *)
(* The id of the current blocked runtime lives in the session's metadata:  *)
(* it is a field of the session record here and goes where the record      *)
(* goes.  Records live in the in-memory store whatever the session store   *)
(* is, so a session write and a record write are separate steps.  A record *)
(* write may fail (another BlockedRuntimeStore may be configured).         *)
(*                                                                         *)
(* A session write is made from a record read before.  A direct one is     *)
(* refused by its version check when the session changed in between; one   *)
(* under a lease is not: the record is merged over what the session has    *)
(* become, which the merge reads and writes in one step, since a conflict  *)
(* there only makes it read again.  Approvals are in StepRun.              *)
(***************************************************************************)
EXTENDS SessionState

CONSTANTS Caller, Worker, Runtime,  \* Runtime: ids drawn by Create
          NoRuntime,
          MaxVersion, MaxLease, MaxFaults  \* bounds

ASSUME RuntimeAssumption == NoRuntime \notin Runtime
ASSUME RunnersAssumption == Caller \cap Worker = {}

VARIABLES session, records, calls,
          runs,     \* runs[a]: the run of actor a in progress
          held,     \* held[w]: the lease worker w was given
          issued, faults,
          done,     \* done[r]: Resume and Abort calls that succeeded on r
          stranded  \* ids whose Create or Resume could not be rolled back

vars == <<session, records, calls, runs, held, issued, faults, done, stranded>>

Now == 1

Resolved == {"resumed", "aborted"}
Answered == {"approved", "rejected", "confirmed"}

NoCall == [op |-> "none", pc |-> "idle", r |-> NoRuntime, rec |-> "none",
           before |-> "none", version |-> 0]
NoRun == [pc |-> "idle", lease |-> NoLease, copy |-> "none"]

Actor == Caller \cup Worker

(* A new session, with the metadata key _kernel_blocked_runtime_id unset.  *)
NewSession == [f \in DOMAIN Created(Now) \cup {"blocked"} |->
                 IF f = "blocked" THEN NoRuntime ELSE Created(Now)[f]]

Init ==
    /\ session = NewSession
    /\ records = [r \in Runtime |-> "none"]
    /\ calls = [c \in Caller |-> NoCall]
    /\ runs = [a \in Actor |-> NoRun]
    /\ held = [w \in Worker |-> NoLease]
    /\ issued = 0
    /\ faults = 0
    /\ done = [r \in Runtime |-> 0]
    /\ stranded = {}

Set(c, call) == calls' = [calls EXCEPT ![c] = call]
Return(c) == Set(c, NoCall)

-----------------------------------------------------------------------------
(* blocked_runtime_state.go                                                *)

currentBlockedRuntimeID(st) == st.blocked
hasCurrentBlockedRuntime(st) == currentBlockedRuntimeID(st) # NoRuntime
setCurrentBlockedRuntime(st, r) == [st EXCEPT !.blocked = r]

validateBlockedRuntimeSessionState(st) ==
    /\ ~isTerminalPhase(st.phase)
    /\ st.pending = 0
    /\ ~hasCurrentBlockedRuntime(st)
    /\ st.exec # "blocked"

requireCurrentBlockedRuntime(st, r) ==
    currentBlockedRuntimeID(st) = r /\ st.exec = "blocked"

(* Variant: the session store takes a write whatever version it follows.   *)
AcceptsAny(next) == TRUE

(* persistSessionUpdate without a lease: the store compares versions.      *)
Accepts(next) == next.version = session.version + 1

Update(next) == session' = [next EXCEPT !.version = session.version + 1]

-----------------------------------------------------------------------------
(* The reads: GetBlockedRuntime(sessionID) and GetBlockedRuntimeByID.  The *)
(* generic part: the session has no pending approval in this module.       *)

blockedRuntimeFromStateAndGenericRecord(st, r) ==
    IF requireCurrentBlockedRuntime(st, r) /\ records[r] # "none"
    THEN r ELSE NoRuntime

getBlockedRuntimeRecord ==
    IF hasCurrentBlockedRuntime(session)
    THEN blockedRuntimeFromStateAndGenericRecord(
             session, currentBlockedRuntimeID(session))
    ELSE NoRuntime

(* listBlockedRuntimeRecords: sessions with an id or a pending approval;   *)
(* one whose record is missing is skipped.                                 *)
listBlockedRuntimeRecords ==
    {getBlockedRuntimeRecord} \ {NoRuntime}

-----------------------------------------------------------------------------
(* CreateBlockedRuntime: read and validate; write the session; create the  *)
(* record; when that fails write the old session record back.              *)

Unused == {r \in Runtime : records[r] = "none" /\ session.blocked # r
                           /\ \A c \in Caller : calls[c].r # r
                           /\ r \notin stranded}

CreateBlockedRuntime(c) ==
    /\ calls[c] = NoCall
    /\ session.version < MaxVersion
    /\ validateBlockedRuntimeSessionState(session)
    /\ \E r \in Unused :
         Set(c, [op |-> "create", pc |-> "session", r |-> r, rec |-> "pending",
                 before |-> session, version |-> session.version])
    /\ UNCHANGED <<session, records, runs, held, issued, faults, done, stranded>>

(* The session half of Create: blocked on r, whoever holds the lease.      *)
CreateWritesSession(c) ==
    /\ calls[c].op = "create" /\ calls[c].pc = "session"
    /\ LET next == [setCurrentBlockedRuntime(calls[c].before, calls[c].r)
                      EXCEPT !.exec = "blocked", !.version = @ + 1]
       IN  IF Accepts(next)
           THEN /\ Update(next)
                /\ Set(c, [calls[c] EXCEPT !.pc = "record",
                                           !.version = session'.version])
           ELSE UNCHANGED session /\ Return(c)
    /\ UNCHANGED <<records, runs, held, issued, faults, done, stranded>>

(* MemoryBlockedRuntimeStore.Create and Update put the caller's copy.      *)
PutRecord(c) ==
    /\ calls[c].pc = "record"
    /\ records' = [records EXCEPT ![calls[c].r] = calls[c].rec]
    /\ done' = IF calls[c].op = "resolve"
               THEN [done EXCEPT ![calls[c].r] = @ + 1] ELSE done
    /\ Set(c, IF calls[c].op = "abort" THEN [calls[c] EXCEPT !.pc = "session"]
              ELSE NoCall)
    /\ UNCHANGED <<session, runs, held, issued, faults, stranded>>

(* A record write that fails: Create and Resume go on to the rollback,     *)
(* Respond and AbortSession return the error with nothing written.         *)
RecordFails(c) ==
    /\ calls[c].pc = "record"
    /\ faults < MaxFaults
    /\ faults' = faults + 1
    /\ IF calls[c].op \in {"create", "resolve"}
       THEN Set(c, [calls[c] EXCEPT !.pc = "rollback"])
       ELSE Return(c)
    /\ UNCHANGED <<session, records, runs, held, issued, done, stranded>>

(* Variant: the failed record write is returned without a rollback.        *)
rollbackNothing(c) ==
    /\ calls[c].pc = "rollback"
    /\ Return(c)
    /\ UNCHANGED <<session, records, runs, held, issued, faults, done, stranded>>

(* rollbackSessionState: the record read before, at the version written.   *)
(* Its own failure is joined to the error the caller gets.                 *)
rollbackSessionState(c) ==
    /\ calls[c].pc = "rollback"
    /\ LET next == [calls[c].before EXCEPT !.version = calls[c].version + 1]
       IN  IF Accepts(next)
           THEN Update(next) /\ UNCHANGED stranded
           ELSE /\ stranded' = stranded \cup {calls[c].r}
                /\ UNCHANGED session
    /\ Return(c)
    /\ UNCHANGED <<records, runs, held, issued, faults, done>>

(* RespondBlockedRuntime reads record and session, and writes the record   *)
(* only: the session stays blocked until it is resumed.                    *)
RespondBlockedRuntime(c) ==
    /\ calls[c] = NoCall
    /\ \E r \in Runtime, status \in Answered :
         /\ records[r] = "pending"
         /\ requireCurrentBlockedRuntime(session, r)
         /\ Set(c, [NoCall EXCEPT !.op = "respond", !.pc = "record",
                                  !.r = r, !.rec = status])
    /\ UNCHANGED <<session, records, runs, held, issued, faults, done, stranded>>

(* ResumeBlockedRuntime and AbortBlockedRuntime: read and check, then free *)
(* the session, then the record.                                           *)
resolveBlockedRuntimeState(c) ==
    /\ calls[c] = NoCall
    /\ session.version < MaxVersion
    /\ \E r \in Runtime, status \in Resolved :
         /\ records[r] \notin Resolved \cup {"none"}
         /\ requireCurrentBlockedRuntime(session, r)
         /\ Set(c, [op |-> "resolve", pc |-> "session", r |-> r,
                    rec |-> status, before |-> session,
                    version |-> session.version])
    /\ UNCHANGED <<session, records, runs, held, issued, faults, done, stranded>>

(* The session half of Resume and Abort: idle again, id removed.           *)
ResolveWritesSession(c) ==
    /\ calls[c].op = "resolve" /\ calls[c].pc = "session"
    /\ LET next == [setCurrentBlockedRuntime(calls[c].before, NoRuntime)
                      EXCEPT !.exec = "idle", !.version = @ + 1]
       IN  IF Accepts(next)
           THEN /\ Update(next)
                /\ Set(c, [calls[c] EXCEPT !.pc = "record",
                                           !.version = session'.version])
           ELSE UNCHANGED session /\ Return(c)
    /\ UNCHANGED <<records, runs, held, issued, faults, done, stranded>>

(* AbortSession: the current blocked runtime's record first (an error when *)
(* it is missing, nothing when it is aborted already), the session last.   *)
AbortSession(c) ==
    /\ calls[c] = NoCall
    /\ ~isTerminalPhase(session.phase)
    /\ LET r == currentBlockedRuntimeID(session)
           call == [NoCall EXCEPT !.op = "abort", !.r = r, !.rec = "aborted",
                                  !.before = session]
       IN  IF r = NoRuntime
           THEN Set(c, [call EXCEPT !.pc = "session"])
           ELSE /\ records[r] # "none"
                /\ Set(c, [call EXCEPT !.pc = IF records[r] = "aborted"
                                              THEN "session" ELSE "record"])
    /\ UNCHANGED <<session, records, runs, held, issued, faults, done, stranded>>

(* Variant: the abort leaves the execution state of the session alone.     *)
abortedKeepingExecution(st) ==
    [setCurrentBlockedRuntime(st, NoRuntime)
       EXCEPT !.phase = "aborted", !.inFlight = NoStep,
              !.pending = 0, !.lease = NoLease, !.expires = 0,
              !.version = @ + 1]

(* The session record an abort writes.                                     *)
aborted(st) ==
    [setCurrentBlockedRuntime(st, NoRuntime)
       EXCEPT !.phase = "aborted", !.exec = "idle", !.inFlight = NoStep,
              !.pending = 0, !.lease = NoLease, !.expires = 0,
              !.version = @ + 1]

AbortWritesSession(c) ==
    /\ calls[c].op = "abort" /\ calls[c].pc = "session"
    /\ IF Accepts(aborted(calls[c].before))
       THEN Update(aborted(calls[c].before)) ELSE UNCHANGED session
    /\ Return(c)
    /\ UNCHANGED <<records, runs, held, issued, faults, done, stranded>>

-----------------------------------------------------------------------------
(* Runs of the session; StepRun has the steps in between.                  *)

Claim(w) ==
    /\ held[w] = NoLease /\ issued < MaxLease
    /\ session.version < MaxVersion
    /\ \E mode \in ClaimMode : claimableState(session, mode, Now)
    /\ issued' = issued + 1
    /\ held' = [held EXCEPT ![w] = issued + 1]
    /\ session' = withLease(session, issued + 1, Now + 1)
    /\ UNCHANGED <<records, calls, runs, faults, done, stranded>>

Renew(w) ==
    /\ session.version < MaxVersion
    /\ leaseHeldAt(session, held[w], Now)
    /\ session' = withLease(session, held[w], Now + 1)
    /\ UNCHANGED <<records, calls, runs, held, issued, faults, done, stranded>>

(* The lease runs out, or is released by a worker that is not in a run.    *)
LeaseEnds(w) ==
    /\ leaseHeldAt(session, held[w], Now)
    /\ \/ session' = [session EXCEPT !.expires = Now] /\ UNCHANGED held
       \/ /\ runs[w] = NoRun
          /\ session.version < MaxVersion
          /\ session' = withLease(session, NoLease, 0)
          /\ held' = [held EXCEPT ![w] = NoLease]
    /\ UNCHANGED <<records, calls, runs, issued, faults, done, stranded>>

LeaseOf(a) == IF a \in Worker THEN held[a] ELSE NoLease

(* A run reads the session and refuses a blocked one.                      *)
RunStep(a) ==
    /\ runs[a] = NoRun
    /\ session.version < MaxVersion
    /\ IF a \in Worker THEN held[a] # NoLease ELSE calls[a] = NoCall
    /\ requireSessionLease(session, LeaseOf(a), Now)
    /\ ~isTerminalPhase(session.phase)
    /\ session.exec # "blocked"
    /\ runs' = [runs EXCEPT ![a] = [pc |-> "mark", lease |-> LeaseOf(a),
                                    copy |-> "none"]]
    /\ UNCHANGED <<session, records, calls, held, issued, faults, done, stranded>>

(* The record a run wants: merged into a fresh read under its lease, else  *)
(* written if nobody wrote since it was read.                              *)
Persistable(a, desired) ==
    IF runs[a].lease # NoLease
    THEN requireSessionLease(session, runs[a].lease, Now)
    ELSE Accepts([desired EXCEPT !.version = @ + 1])

persistSessionUpdateAt(a, desired) ==
    IF ~Persistable(a, desired) THEN UNCHANGED session
    ELSE IF runs[a].lease # NoLease
    THEN session' = mergeSessionUpdate(session, desired, runs[a].lease)
    ELSE Update(desired)

(* markSessionInFlight reads the session again and checks the lease and    *)
(* the budget, not the execution state.                                    *)
markSessionInFlight(a) ==
    /\ runs[a].pc = "mark"
    /\ runs' = IF requireSessionLease(session, runs[a].lease, Now)
               THEN [runs EXCEPT ![a] =
                       [@ EXCEPT !.pc = "marking",
                                 !.copy = [session EXCEPT !.exec = "in_flight"]]]
               ELSE [runs EXCEPT ![a] = NoRun]
    /\ UNCHANGED <<session, records, calls, held, issued, faults, done, stranded>>

(* The mark is written, over a block made since the read if there is a     *)
(* lease; a run whose mark is refused ends.                                *)
MarkWritesSession(a) ==
    /\ runs[a].pc = "marking"
    /\ persistSessionUpdateAt(a, runs[a].copy)
    /\ runs' = IF Persistable(a, runs[a].copy)
               THEN [runs EXCEPT ![a].pc = "read"]
               ELSE [runs EXCEPT ![a] = NoRun]
    /\ UNCHANGED <<records, calls, held, issued, faults, done, stranded>>

(* The copy the run works on until its outcome is written, whatever the    *)
(* session has become since it was marked.                                 *)
ReadAgain(a) ==
    /\ runs[a].pc = "read"
    /\ runs' = [runs EXCEPT ![a] = [@ EXCEPT !.pc = "finish",
                                             !.copy = session]]
    /\ UNCHANGED <<session, records, calls, held, issued, faults, done, stranded>>

(* The run's outcome.                                                      *)
FinishRun(a, phase) ==
    /\ runs[a].pc = "finish"
    /\ persistSessionUpdateAt(a, [runs[a].copy EXCEPT !.exec = "idle",
                                                      !.phase = phase])
    /\ runs' = [runs EXCEPT ![a] = NoRun]
    /\ UNCHANGED <<records, calls, held, issued, faults, done, stranded>>

(* markSessionInterrupted, which looks at neither phase nor state.         *)
markSessionInterrupted(a) ==
    /\ runs[a].pc = "finish"
    /\ requireSessionLease(session, runs[a].lease, Now)
    /\ runs' = [runs EXCEPT ![a] =
                   [@ EXCEPT !.pc = "interrupting",
                             !.copy = [session EXCEPT !.exec = "interrupted",
                                                      !.phase = "recover",
                                                      !.interrupted = TRUE]]]
    /\ UNCHANGED <<session, records, calls, held, issued, faults, done, stranded>>

InterruptWritesSession(a) ==
    /\ runs[a].pc = "interrupting"
    /\ persistSessionUpdateAt(a, runs[a].copy)
    /\ runs' = [runs EXCEPT ![a] = NoRun]
    /\ UNCHANGED <<records, calls, held, issued, faults, done, stranded>>

(* Nothing is left to do: the version bound is reached or the session is   *)
(* over, and no call is in progress.                                       *)
Quiet == /\ \A c \in Caller : calls[c] = NoCall
         /\ \A a \in Actor : runs[a] = NoRun
         /\ UNCHANGED vars

Next ==
    \/ \E c \in Caller :
         \/ runs[c] = NoRun /\ CreateBlockedRuntime(c)
         \/ CreateWritesSession(c)
         \/ PutRecord(c) \/ RecordFails(c) \/ rollbackSessionState(c)
         \/ runs[c] = NoRun /\ RespondBlockedRuntime(c)
         \/ runs[c] = NoRun /\ resolveBlockedRuntimeState(c)
         \/ ResolveWritesSession(c)
         \/ runs[c] = NoRun /\ AbortSession(c)
         \/ AbortWritesSession(c)
    \/ \E w \in Worker : Claim(w) \/ Renew(w) \/ LeaseEnds(w)
    \/ \E a \in Actor :
         \/ RunStep(a) \/ markSessionInFlight(a) \/ MarkWritesSession(a)
         \/ ReadAgain(a)
         \/ \E phase \in {"plan", "complete"} : FinishRun(a, phase)
         \/ markSessionInterrupted(a) \/ InterruptWritesSession(a)
    \/ Quiet

Spec == Init /\ [][Next]_vars

-----------------------------------------------------------------------------
(* The session record has the shape of the store's, and a session is       *)
(* blocked only together with the id that can unblock it.                  *)
TypeOK ==
    /\ [f \in DOMAIN Created(Now) |-> session[f]] \in State
    /\ session.blocked \in Runtime \cup {NoRuntime}
    /\ session.exec = "blocked" => hasCurrentBlockedRuntime(session)
    /\ records \in [Runtime -> {"none", "pending"} \cup Answered \cup Resolved]
    /\ done \in [Runtime -> Nat]

(* A session that stays blocked is one the reads report: once Create has   *)
(* returned, GetBlockedRuntime, the list and the lookup by id find the     *)
(* record, so that somebody can answer it and AbortSession gets through.   *)
(* There are two exceptions: a rollback that was itself refused, which the *)
(* caller is told; and, outside this model of one process, a restart or a  *)
(* second process, which start with an empty in-memory record store.       *)
BlockedIsListed ==
    \/ session.exec # "blocked"
    \/ session.blocked \in stranded
    \/ \E c \in Caller : calls[c].op = "create" /\ calls[c].r = session.blocked
    \/ listBlockedRuntimeRecords = {session.blocked}

(* Of all callers that resume or abort a blocked runtime at the same time  *)
(* at most one succeeds, and then for good: no write of an older copy of   *)
(* the session (a run's outcome, a rollback) blocks the session again on   *)
(* it.  A run that still carries its id may put the id back, never the     *)
(* state.                                                                  *)
ResolvedOnce ==
    \A r \in Runtime :
        /\ done[r] <= 1
        /\ done[r] = 1 => ~requireCurrentBlockedRuntime(session, r)

(* docs/API.md: a generic blocked runtime makes the session non-runnable   *)
(* until resume or abort clears it.  Only those calls, and an abort of the *)
(* session, end the blocked state.                                         *)
NonRunnableUntilResolved ==
    [][ session.exec = "blocked" /\ session'.exec # "blocked"
          => \/ session'.phase = "aborted"
             \/ \E c \in Caller : calls[c].op \in {"create", "resolve"}
                                  /\ calls'[c] # calls[c] ]_vars
=============================================================================
