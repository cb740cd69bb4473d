---------------------------- MODULE SessionState ----------------------------
(***************************************************************************)
(* The persisted session record of pkg/harness/session and the predicates  *)
(* every component of the runtime evaluates on it: terminal phases,        *)
(* recoverable and claimable states, lease activity, the lease check of    *)
(* the service APIs, the runtime budget and the merge that a leased write  *)
(* performs on top of a fresher record.                                    *)
(*                                                                         *)
(* Abstractions.  Titles, goals, summaries, audit payloads and timestamps  *)
(* that no guard reads (LastHeartbeatAt, UpdatedAt, LeaseClaimedAt) are    *)
(* left out.  Lease ids are the naturals in the order the ids are drawn,   *)
(* 0 being Go's "".  InterruptedAt is only ever compared with 0, so it is  *)
(* a Boolean.  Time is counted in ticks and starts at 1: a timestamp of 0  *)
(* means "not set", as in the code.                                        *)
(***************************************************************************)
EXTENDS Naturals

CONSTANTS Step,     \* step ids of the session's plan
          NoStep    \* Go's "" for a step id

ASSUME NoStepAssumption == NoStep \notin Step

Phase == {"received", "prepare", "plan", "execute", "verify", "recover",
          "complete", "failed", "aborted"}

TerminalPhase == {"complete", "failed", "aborted"}

ExecutionState == {"idle", "in_flight", "interrupted", "awaiting_approval",
                   "blocked"}

ClaimMode == {"runnable", "recoverable"}

NoLease == 0

State == [phase       : Phase,
          exec        : ExecutionState,
          current     : Step \cup {NoStep},
          inFlight    : Step \cup {NoStep},
          interrupted : BOOLEAN,
          pending     : Nat,          \* PendingApprovalID, 0 when ""
          lease       : Nat,
          expires     : Nat,
          started     : Nat,          \* RuntimeStartedAt
          version     : Nat,
          created     : Nat]

(* A session id that was never created: version 0 exists in no store.      *)
Absent == [phase |-> "received", exec |-> "idle", current |-> NoStep,
           inFlight |-> NoStep, interrupted |-> FALSE, pending |-> 0,
           lease |-> NoLease, expires |-> 0, started |-> 0, version |-> 0,
           created |-> 0]

(* session.MemoryStore.Create                                              *)
Created(t) == [Absent EXCEPT !.version = 1, !.created = t]

isTerminalPhase(p) == p \in TerminalPhase

IsRecoverableState(st) ==
    \/ st.exec \in {"in_flight", "interrupted"}
    \/ /\ st.exec = "idle"
       /\ st.phase = "recover"
       /\ st.interrupted \/ st.inFlight # NoStep

leaseActiveAt(st, t) == st.lease # NoLease /\ st.expires > t

leaseHeldAt(st, l, t) == l # NoLease /\ st.lease = l /\ leaseActiveAt(st, t)

(* The claim predicate of the in-memory store.                             *)
claimableState(st, mode, t) ==
    /\ st.version > 0
    /\ ~leaseActiveAt(st, t)
    /\ st.exec \notin {"awaiting_approval", "blocked"}
    /\ IF mode = "runnable"
       THEN st.exec = "idle" /\ ~isTerminalPhase(st.phase)
       ELSE IsRecoverableState(st)

(* Variant: the claim query without its lease condition.                   *)
claimConditionIgnoringLease(st, mode, t) ==
    /\ st.version > 0
    /\ ~isTerminalPhase(st.phase)
    /\ IF mode = "runnable"
       THEN st.exec = "idle"
       ELSE st.exec \in {"in_flight", "interrupted"}

(* The claim predicate of the Postgres store, which is narrower in         *)
(* recoverable mode: terminal phases and normalised sessions are skipped.  *)
claimCondition(st, mode, t) ==
    /\ st.version > 0
    /\ ~isTerminalPhase(st.phase)
    /\ IF mode = "runnable"
       THEN st.exec = "idle"
       ELSE st.exec \in {"in_flight", "interrupted"}
    /\ st.lease = NoLease \/ st.expires <= t

(* The lease check of the service APIs: a direct caller (l = NoLease) is   *)
(* refused while any lease is active, a claimed caller needs its own.      *)
requireSessionLease(st, l, t) ==
    IF l = NoLease
    THEN ~leaseActiveAt(st, t)
    ELSE st.lease = l /\ st.expires > t

ensureRuntimeBudget(st, max, t) ==
    \/ max = 0
    \/ st.started = 0
    \/ t <= st.started + max

(* Variant: the lease fields of the caller's older copy win.               *)
mergeSessionUpdateKeepingDesiredLease(cur, desired, l) ==
    [desired EXCEPT !.version = cur.version + 1,
                    !.created = cur.created,
                    !.started = IF @ = 0 THEN cur.started ELSE @]

(* A leased write re-based on the current record: the caller's fields win, *)
(* version, creation time and the lease come from the current record.      *)
mergeSessionUpdate(cur, desired, l) ==
    LET sameLease == cur.lease # NoLease /\ (l = NoLease \/ cur.lease = l)
    IN  [desired EXCEPT
            !.version = cur.version + 1,
            !.created = cur.created,
            !.started = IF @ = 0 THEN cur.started ELSE @,
            !.lease   = IF sameLease THEN cur.lease ELSE @,
            !.expires = IF sameLease THEN cur.expires ELSE @]

(* What the store keeps of an accepted update.                             *)
stored(cur, next) ==
    [next EXCEPT !.created = IF @ = 0 THEN cur.created ELSE @,
                 !.started = IF @ = 0 THEN cur.started ELSE @]

(* The write of the lease primitives: lease id, expiry and one version on. *)
withLease(st, l, e) ==
    [st EXCEPT !.lease = l, !.expires = e, !.version = @ + 1]
=============================================================================
