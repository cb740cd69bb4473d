----------------------------- MODULE Interactive -----------------------------
(***************************************************************************)
(* Runtime handles and the interactive control plane of                    *)
(* pkg/harness/runtime, on top of the PTY manager of modules/shell that    *)
(* the PTYInteractiveController drives.  A service call is a client that   *)
(* walks through the separate reads, controller calls and writes the code  *)
(* makes; between any two of them other clients, the worker that holds the *)
(* session's lease, an abort or the process itself may act.                *)
(*                                                                         *)
(* Abstractions.  One session owns every handle.  Metadata is what the     *)
(* guards and the projection read: the next offset, the closed flag and    *)
(* the last operation.  A lease whose time is up has expires = Now.        *)
(* Operations with no effect on the state (failed reads, refused           *)
(* arguments) are left out.                                                *)
(***************************************************************************)
EXTENDS PtyManager, SessionState

CONSTANTS Client, Handle,
          Postgres,      \* TRUE: the Postgres store, FALSE: the memory store
          MaxHandleVersion, MaxLease,
          MaxCalls,      \* calls on the service and the PTY manager
          MaxRuns        \* runs of a tool that answers with a handle

VARIABLES st,        \* the session record that owns the handles
          handles,   \* RuntimeHandleStore
          calls,     \* service calls and tool runs in progress
          leaked,    \* PTYs of tools whose run could not store the handle
          made,      \* number of calls begun so far
          ran        \* number of tools run so far

vars == <<ptyVars, st, handles, calls, leaked, made, ran>>

Now == 1

Ended == {"closed", "invalidated"}

NoHandle == [status |-> "none", version |-> 0, pty |-> "none", offset |-> 0,
             closed |-> FALSE, op |-> "none"]

NoObservation == [offset |-> 0, closed |-> FALSE]

Idle == [op |-> "none", pc |-> "idle", h |-> "none", lease |-> NoLease,
         seen |-> NoHandle, pty |-> "none", obs |-> NoObservation]

Init ==
    /\ PtyInit
    /\ st = Created(Now)
    /\ handles = [h \in Handle |-> NoHandle]
    /\ calls = [c \in Client |-> Idle]
    /\ leaked = {}
    /\ made = 0
    /\ ran = 0

Set(c, call) == calls' = [calls EXCEPT ![c] = call]
Return(c) == Set(c, Idle)

-----------------------------------------------------------------------------
(* RuntimeHandleStore.                                                     *)

(* isRuntimeHandleActive: "" counts as active; stores never keep "".       *)
isRuntimeHandleActive(r) == r.status = "active"

(* MemoryRuntimeHandleStore.Create replaces a record with the same id.     *)
MemoryCreate(h, rec) == [handles EXCEPT ![h] = [rec EXCEPT !.version = 1]]

(* RuntimeHandleRepo.Create fails on the primary key.                      *)
PostgresCreate(h, rec) ==
    IF handles[h].status = "none"
    THEN [handles EXCEPT ![h] = [rec EXCEPT !.version = 1]]
    ELSE handles

CreateFails(h) == Postgres /\ handles[h].status # "none"

Create(h, rec) == IF Postgres THEN PostgresCreate(h, rec)
                  ELSE MemoryCreate(h, rec)

(* Variant: Update without the comparison of versions.                     *)
UpdateUnversioned(h, rec) == [handles EXCEPT ![h] = rec]

(* Update of both stores: the record must still have the version the new   *)
(* one follows, else ErrRuntimeHandleVersionConflict.                      *)
Update(h, rec) ==
    IF rec.version = handles[h].version + 1
    THEN [handles EXCEPT ![h] = rec]
    ELSE handles

(* upsertRuntimeHandle: Create, and on an error Get and Update.  Inside a  *)
(* Postgres transaction the failed insert makes Get fail too, so the whole *)
(* write of the run is refused.                                            *)
upsertRuntimeHandle(h, rec) == Create(h, rec)

(* reconcileActiveRuntimeHandlesInStore                                    *)
reconcileActiveRuntimeHandles ==
    [h \in Handle |->
        IF isRuntimeHandleActive(handles[h])
        THEN [handles[h] EXCEPT !.status = "invalidated", !.version = @ + 1]
        ELSE handles[h]]

-----------------------------------------------------------------------------
(* mutateRuntimeHandle: read and check, then Update.  The lease is checked *)
(* with the read; at the write only the version is.                        *)

(* The observation and the last operation are keys of the metadata; the    *)
(* offset and the closed flag are always written, other keys are kept.     *)
ApplyInteractiveRuntimeMetadata(r, op, obs) ==
    [r EXCEPT !.op = op, !.offset = obs.offset, !.closed = obs.closed]

(* The record an operation stores.                                         *)
mutated(r, op, obs) ==
    [ApplyInteractiveRuntimeMetadata(r, op, obs) EXCEPT
              !.version = @ + 1,
              !.status = IF op = "close" THEN "closed"
                         ELSE IF op = "invalidate" THEN "invalidated"
                         ELSE "active"]

MutateAllowed(h, l) ==
    /\ handles[h].status # "none"
    /\ requireSessionLease(st, l, Now)
    /\ isRuntimeHandleActive(handles[h])
    /\ handles[h].version < MaxHandleVersion

(* UpdateRuntimeHandle, CloseRuntimeHandle, InvalidateRuntimeHandle and    *)
(* their Claimed forms (lease l # NoLease).                                *)
MutateRuntimeHandle(c, h, op, l) ==
    /\ calls[c].pc = "idle"
    /\ MutateAllowed(h, l)
    /\ Set(c, [Idle EXCEPT !.op = op, !.pc = "update", !.h = h, !.lease = l,
                           !.seen = handles[h],
                           !.obs.offset = handles[h].offset])
    /\ UNCHANGED <<ptyVars, st, handles, leaked>>

mutateRuntimeHandle(c) ==
    /\ calls[c].pc = "update"
    /\ LET k == calls[c]
       IN  handles' = Update(k.h, mutated(k.seen, k.op, k.obs))
    /\ Return(c)
    /\ UNCHANGED <<ptyVars, st, leaked>>

-----------------------------------------------------------------------------
(* StartInteractive.                                                       *)

StartInteractive(c, h) ==
    /\ calls[c].pc = "idle"
    /\ ~isTerminalPhase(st.phase)
    /\ Set(c, [Idle EXCEPT !.op = "start", !.pc = "start", !.h = h])
    /\ UNCHANGED <<ptyVars, st, handles, leaked>>

(* PTYInteractiveController.StartInteractive                               *)
ControllerStart(c) ==
    /\ calls[c].pc = "start"
    /\ \/ /\ Return(c)
          /\ UNCHANGED sessions
       \/ \E p \in Pty :
             /\ ~Known(p)
             /\ sessions' = [sessions EXCEPT ![p] = Started]
             /\ Set(c, [calls[c] EXCEPT !.pc = "create", !.pty = p])
    /\ UNCHANGED <<attachments, checks, doomed, st, handles, leaked>>

(* Variant: a runtime whose handle cannot be stored is left running.       *)
createRuntimeHandleKeepingRuntime(c) ==
    /\ calls[c].pc = "create"
    /\ LET k   == calls[c]
           rec == [NoHandle EXCEPT !.status = "active", !.pty = k.pty]
       IN  \/ /\ ~CreateFails(k.h)
              /\ handles' = Create(k.h, rec)
           \/ UNCHANGED handles
    /\ Return(c)
    /\ UNCHANGED <<ptyVars, st, leaked>>

(* createRuntimeHandleWithAudit; when it fails the runtime is closed again. *)
createRuntimeHandle(c) ==
    /\ calls[c].pc = "create"
    /\ LET k   == calls[c]
           rec == [NoHandle EXCEPT !.status = "active", !.pty = k.pty]
       IN  \/ /\ ~CreateFails(k.h)
              /\ handles' = Create(k.h, rec)
              /\ UNCHANGED <<sessions, attachments>>
           \/ /\ attachments' = Detached({k.pty})
              /\ sessions' = [sessions EXCEPT ![k.pty] = Closed(@)]
              /\ UNCHANGED handles
    /\ Return(c)
    /\ UNCHANGED <<checks, doomed, st, leaked>>

-----------------------------------------------------------------------------
(* Reopen, view, write and close of an interactive runtime.                *)

(* requireActiveInteractiveHandle                                          *)
requireActiveInteractiveHandle(c, h, op) ==
    /\ calls[c].pc = "idle"
    /\ isRuntimeHandleActive(handles[h])
    /\ Set(c, [Idle EXCEPT !.op = op, !.pc = op, !.h = h,
                           !.pty = handles[h].pty])
    /\ UNCHANGED <<ptyVars, st, handles, leaked>>

(* What the controller reports always has a status, so that it replaces    *)
(* the observation stored before, also by an offset of 0.                  *)
mergeInteractiveObservation(base, next) == next

(* interactiveObservationFromInspect: Inspect reports no offset.           *)
interactiveObservationFromInspect(s) == [offset |-> 0,
                                         closed |-> Inspect(s).closed]

ControllerReopen(c) ==
    /\ calls[c].pc = "reopen"
    /\ Set(c, [calls[c] EXCEPT !.pc = "persist",
                  !.obs = mergeInteractiveObservation(@,
                             interactiveObservationFromInspect(sessions[calls[c].pty]))])
    /\ UNCHANGED <<ptyVars, st, handles, leaked>>

ControllerView(c, offset) ==
    /\ calls[c].pc = "view"
    /\ LET r == Read(sessions[calls[c].pty], offset, 0)
       IN  Set(c, [calls[c] EXCEPT !.pc = "persist",
                      !.obs = mergeInteractiveObservation(@,
                                 [offset |-> r.next, closed |-> r.closed])])
    /\ UNCHANGED <<ptyVars, st, handles, leaked>>

(* Manager.Write, then Manager.Inspect.                                    *)
ControllerWrite(c) ==
    /\ calls[c].pc = "write"
    /\ \E out \in WriteOutcomes(sessions[calls[c].pty]) :
          IF out = "error" THEN Return(c)
          ELSE Set(c, [calls[c] EXCEPT !.pc = "reopen"])
    /\ UNCHANGED <<ptyVars, st, handles, leaked>>

(* Manager.Close: the attachments first, then the process.                 *)
ControllerClose(c) ==
    /\ calls[c].pc = "close"
    /\ attachments' = Detached({calls[c].pty})
    /\ Set(c, [calls[c] EXCEPT !.pc = "kill"])
    /\ UNCHANGED <<sessions, checks, doomed, st, handles, leaked>>

ControllerKill(c) ==
    /\ calls[c].pc = "kill"
    /\ sessions' = [sessions EXCEPT ![calls[c].pty] = Closed(@)]
    /\ Set(c, [calls[c] EXCEPT !.pc = "persist",
                               !.obs = [offset |-> 0, closed |-> TRUE]])
    /\ UNCHANGED <<attachments, checks, doomed, st, handles, leaked>>

(* persistInteractiveRuntimeState and the end of CloseInteractive: both go *)
(* through the direct (unclaimed) handle operations.                       *)
persistInteractiveRuntimeState(c) ==
    /\ calls[c].pc = "persist"
    /\ IF MutateAllowed(calls[c].h, NoLease)
       THEN Set(c, [calls[c] EXCEPT
               !.pc = "update", !.seen = handles[calls[c].h],
               !.op = IF calls[c].obs.closed THEN "close" ELSE @])
       ELSE Return(c)
    /\ UNCHANGED <<ptyVars, st, handles, leaked>>

-----------------------------------------------------------------------------
(* The rest of the runtime, as far as handles and leases see it.           *)

(* Another worker's claim; SessionLease models it in full.                 *)
ClaimSession ==
    /\ ~isTerminalPhase(st.phase)
    /\ ~leaseActiveAt(st, Now)
    /\ st.version <= MaxLease
    /\ st' = [st EXCEPT !.lease = st.version, !.expires = Now + 1,
                        !.version = @ + 1]
    /\ UNCHANGED <<ptyVars, handles, calls, leaked>>

LeaseEnds ==
    /\ leaseActiveAt(st, Now)
    /\ st' = [st EXCEPT !.expires = Now]
    /\ UNCHANGED <<ptyVars, handles, calls, leaked>>

(* AbortSession ends every lease and invalidates the active handles.       *)
AbortSession ==
    /\ ~isTerminalPhase(st.phase)
    /\ st' = [st EXCEPT !.phase = "aborted", !.lease = NoLease,
                        !.expires = 0]
    /\ handles' = reconcileActiveRuntimeHandles
    /\ UNCHANGED <<ptyVars, calls, leaked>>

(* normalizeSessionForRecovery reconciles the handles in its transaction.  *)
(* It checks no lease: whoever passed the earlier check of recoverSession, *)
(* a worker whose lease has ended since or a direct caller, gets here.     *)
RecoverHandles ==
    /\ \E h \in Handle : isRuntimeHandleActive(handles[h])
    /\ handles' = reconcileActiveRuntimeHandles
    /\ UNCHANGED <<ptyVars, st, calls, leaked>>

-----------------------------------------------------------------------------
(* A run of a step whose tool, shell.exec in mode pty, answers with a      *)
(* runtime handle.  Only leased runs are modelled: a direct run stores its *)
(* handle in the same way and checks no lease.                             *)

(* runtimeHandleFromValue: the record made of the runtime_handle a tool    *)
(* result carries; it is active and has no version yet.                    *)
runtimeHandleFromValue(p) == [NoHandle EXCEPT !.status = "active", !.pty = p]

(* invokeAction: the tool starts its PTY outside of every transaction.     *)
(* The id of the handle is the id of the PTY; a tool that answers about a  *)
(* PTY it started before names the same handle.                            *)
InvokeTool(c, h, p) ==
    /\ calls[c].pc = "idle"
    /\ leaseActiveAt(st, Now)
    /\ ~isTerminalPhase(st.phase)
    /\ \/ ~Known(p) /\ handles[h].status = "none"
       \/ handles[h].pty = p
    /\ sessions' = [sessions EXCEPT ![p] = IF Known(p) THEN @ ELSE Started]
    /\ Set(c, [Idle EXCEPT !.op = "run", !.pc = "store", !.h = h, !.pty = p,
                           !.lease = st.lease])
    /\ UNCHANGED <<attachments, checks, doomed, st, handles, leaked>>

(* persistRuntimeHandlesInRepos, in the transaction that ends the run.  It *)
(* is refused when the lease is gone or any of its writes fails, and       *)
(* nothing then closes the PTY.                                            *)
PersistRuntimeHandles(c) ==
    /\ calls[c].pc = "store"
    /\ LET k == calls[c]
       IN  \/ /\ requireSessionLease(st, k.lease, Now)
              /\ ~CreateFails(k.h)
              /\ handles' = upsertRuntimeHandle(k.h, runtimeHandleFromValue(k.pty))
              /\ UNCHANGED leaked
           \/ /\ leaked' = leaked \cup ({k.pty} \ {handles[h].pty : h \in Handle})
              /\ UNCHANGED handles
    /\ Return(c)
    /\ UNCHANGED <<ptyVars, st>>

ClientCall(c) ==
    \E h \in Handle :
       \/ StartInteractive(c, h)
       \/ \E op \in {"reopen", "view", "write", "close"} :
             requireActiveInteractiveHandle(c, h, op)
       \/ \E op \in {"update", "close", "invalidate"},
             l \in {NoLease, st.lease} : MutateRuntimeHandle(c, h, op, l)

ClientStep(c) ==
    \/ ControllerStart(c) \/ createRuntimeHandle(c)
    \/ ControllerReopen(c)
    \/ \E offset \in 0..1 : ControllerView(c, offset)
    \/ ControllerWrite(c)
    \/ ControllerClose(c) \/ ControllerKill(c)
    \/ persistInteractiveRuntimeState(c)
    \/ mutateRuntimeHandle(c)
    \/ PersistRuntimeHandles(c)

Call ==
    /\ made < MaxCalls
    /\ made' = made + 1
    /\ \/ PtyCall /\ UNCHANGED <<st, handles, calls, leaked>>
       \/ \E c \in Client : ClientCall(c)
    /\ UNCHANGED ran

ToolRun ==
    /\ ran < MaxRuns
    /\ ran' = ran + 1
    /\ \E c \in Client, h \in Handle, p \in Pty : InvokeTool(c, h, p)
    /\ UNCHANGED made

Next ==
    \/ Call
    \/ ToolRun
    \/ /\ UNCHANGED <<made, ran>>
       /\ \/ PtyStep /\ UNCHANGED <<st, handles, calls, leaked>>
          \/ \E c \in Client : ClientStep(c)
          \/ ClaimSession \/ LeaseEnds \/ AbortSession \/ RecoverHandles

Spec == Init /\ [][Next]_vars

-----------------------------------------------------------------------------
(* Properties.                                                             *)

(* A PTY that runs belongs to a call or a run in progress or is named by a *)
(* stored handle, also when StartInteractive could not store its handle:   *)
(* the runtime is then closed.  The one exception is the PTY of a tool     *)
(* whose run was refused at its end.                                       *)
NoOrphanRuntime ==
    \A p \in Pty :
        sessions[p].state = "running" =>
            \/ \E c \in Client : calls[c].pc \in {"create", "store"}
                                 /\ calls[c].pty = p
            \/ \E h \in Handle : handles[h].pty = p
            \/ p \in leaked

(* RUNTIME.md: closed and invalidated handles are terminal facts.  With    *)
(* the Postgres store nothing ever changes one again: not a call that read *)
(* it before it ended, not a run that persists its id a second time.       *)
EndedHandlesStay ==
    [][\A h \in Handle :
          handles[h].status \in Ended => handles'[h] = handles[h]]_vars
=============================================================================
