------------------------ MODULE SessionLease_proofs ------------------------
(***************************************************************************)
(* Proofs about SessionLease, for every set of sessions, workers, clients  *)
(* and handles and every bound.                                            *)
(***************************************************************************)
EXTENDS SessionLease, TLAPS

USE DEF NoLease, NoSession

(* A created session and an absent one are session records.                *)
LEMMA CreatedType ==
    ASSUME NEW t \in Nat
    PROVE  Absent \in State /\ Created(t) \in State
BY NoStepAssumption DEF Absent, Created, State, Phase, ExecutionState

(* What mergeSessionUpdate returns: a record one version ahead of the      *)
(* current one, with its lease when the write is made under that lease.    *)
LEMMA MergeFacts ==
    ASSUME NEW cur \in State, NEW desired \in State, NEW l \in Nat
    PROVE  /\ mergeSessionUpdate(cur, desired, l) \in State
           /\ mergeSessionUpdate(cur, desired, l).version = cur.version + 1
           /\ l # 0 /\ cur.lease = l
                => /\ mergeSessionUpdate(cur, desired, l).lease = cur.lease
                   /\ mergeSessionUpdate(cur, desired, l).expires = cur.expires
<1> DEFINE same == cur.lease # 0 /\ (l = 0 \/ cur.lease = l)
           sa == IF desired.started = 0 THEN cur.started ELSE desired.started
           le == IF same THEN cur.lease ELSE desired.lease
           ex == IF same THEN cur.expires ELSE desired.expires
           ve == cur.version + 1
           rec == [desired EXCEPT !.version = ve, !.created = cur.created,
                                  !.started = sa, !.lease = le, !.expires = ex]
<1>1. mergeSessionUpdate(cur, desired, l) = rec
  BY DEF mergeSessionUpdate, State
<1>2. /\ sa \in Nat /\ le \in Nat /\ ex \in Nat /\ ve \in Nat
      /\ cur.created \in Nat
  BY DEF State
<1>3. l # 0 /\ cur.lease = l => le = cur.lease /\ ex = cur.expires
  OBVIOUS
<1> HIDE DEF sa, le, ex, ve
<1>4. rec \in State /\ rec.version = ve /\ rec.lease = le /\ rec.expires = ex
  BY <1>2 DEF State
<1> QED BY <1>1, <1>3, <1>4 DEF ve

(* What the store makes of an accepted record.                             *)
LEMMA StoredFacts ==
    ASSUME NEW cur \in State, NEW next \in State
    PROVE  /\ stored(cur, next) \in State
           /\ stored(cur, next).version = next.version
           /\ stored(cur, next).lease = next.lease
           /\ stored(cur, next).expires = next.expires
BY DEF stored, State

(* The changes the marking calls and a recovery make to a record.          *)
LEMMA MutateFacts ==
    ASSUME NEW c \in Call, NEW st \in State
    PROVE  /\ Mutate(c, st) \in State
           /\ Mutate(c, st).version = st.version
           /\ Mutate(c, st).lease = st.lease
           /\ Mutate(c, st).expires = st.expires
BY DEF Mutate, State, Call, Phase, ExecutionState

LEMMA NormalizedFacts ==
    ASSUME NEW st \in State
    PROVE  /\ Normalized(st) \in State
           /\ Normalized(st).version = st.version
           /\ Normalized(st).lease = st.lease
           /\ Normalized(st).expires = st.expires
<1>1. CASE st.exec \notin {"in_flight", "interrupted"}
  BY <1>1 DEF Normalized
<1>2. CASE st.exec \in {"in_flight", "interrupted"}
  <2> DEFINE p == IF isTerminalPhase(st.phase) THEN st.phase ELSE "recover"
             cur == IF st.current = NoStep THEN st.inFlight ELSE st.current
             r == [st EXCEPT !.exec = "idle", !.phase = p, !.current = cur]
  <2>1. p \in Phase /\ cur \in Step \cup {NoStep}
    BY DEF State, Phase
  <2>2. Normalized(st) = r
    BY <1>2 DEF Normalized
  <2> HIDE DEF p, cur
  <2>3. r \in State
    BY <2>1 DEF State, ExecutionState
  <2>4. r.version = st.version /\ r.lease = st.lease /\ r.expires = st.expires
    BY DEF State
  <2> QED BY <2>2, <2>3, <2>4
<1> QED BY <1>1, <1>2

(* A record with its version moved by one is still a record.               *)
LEMMA BumpFacts ==
    ASSUME NEW st \in State
    PROVE  /\ [st EXCEPT !.version = @ + 1] \in State
           /\ [st EXCEPT !.version = @ + 1].version = st.version + 1
           /\ [st EXCEPT !.version = @ + 1].lease = st.lease
           /\ [st EXCEPT !.version = @ + 1].expires = st.expires
BY DEF State

----------------------------------------------------------------------------
(* Type correctness.                                                       *)

(* A running call and a held lease are about a session.                    *)
Targets == /\ \A a \in Actor : calls[a].pc # "idle" => calls[a].s \in Session
           /\ \A w \in Worker : held[w] # NoHold => held[w].s \in Session

TypeInv == TypeOK /\ Targets

LEMMA TypeInit == Init => TypeInv
<1> SUFFICES ASSUME Init PROVE TypeInv
  OBVIOUS
<1>1. sessions \in [Session -> State]
  <2>1. Persisted \subseteq State
    <3>1. Created(1) \in State
      BY CreatedType
    <3>2. \A p \in {"received", "aborted"} : [Created(1) EXCEPT !.phase = p] \in State
      BY <3>1 DEF State, Phase
    <3>3. ASSUME NEW st \in Step
          PROVE  [Created(1) EXCEPT !.phase = "recover", !.exec = "interrupted",
                                    !.interrupted = TRUE, !.inFlight = st,
                                    !.current = st, !.started = 1] \in State
      <4>1. PICK r \in State : r = Created(1)
        BY <3>1
      <4>2. [r EXCEPT !.phase = "recover", !.exec = "interrupted",
                      !.interrupted = TRUE, !.inFlight = st,
                      !.current = st, !.started = 1] \in State
        BY DEF State, Phase, ExecutionState
      <4> QED BY <4>1, <4>2
    <3> QED BY <3>2, <3>3, CreatedType DEF Persisted
  <2> QED BY <2>1 DEF Init
<1>2. NoCall \in Call
  BY CreatedType, NoStepAssumption DEF NoCall, Call, Op, Pc
<1>3. calls \in [Actor -> Call]
  BY <1>2 DEF Init
<1>4. handles \in [Handle -> HandleRec]
  BY DEF Init, HandleRec
<1>5. held \in [Worker -> [s : Session \cup {NoSession}, lease : Nat]]
  BY DEF Init, NoHold
<1>6. Targets
  BY DEF Targets, Init, NoCall
<1> QED BY <1>1, <1>3, <1>4, <1>5, <1>6 DEF TypeInv, TypeOK, Init

(* The write of the lease primitives.                                      *)
LEMMA WithLeaseFacts ==
    ASSUME NEW st \in State, NEW l \in Nat, NEW e \in Nat
    PROVE  /\ withLease(st, l, e) \in State
           /\ withLease(st, l, e).version = st.version + 1
           /\ withLease(st, l, e).lease = l
           /\ withLease(st, l, e).expires = e
<1> DEFINE v == st.version + 1
<1>1. v \in Nat /\ withLease(st, l, e) = [st EXCEPT !.lease = l, !.expires = e, !.version = v]
  BY DEF withLease, State
<1> HIDE DEF v
<1>2. [st EXCEPT !.lease = l, !.expires = e, !.version = v] \in State
  BY <1>1 DEF State
<1>3. LET r == [st EXCEPT !.lease = l, !.expires = e, !.version = v]
      IN  r.version = v /\ r.lease = l /\ r.expires = e
  BY DEF State
<1> QED BY <1>1, <1>2, <1>3 DEF v

(* A call record that a step of the call moved on.                         *)
LEMMA StartType ==
    ASSUME NEW a \in Actor, NEW op \in Op, NEW pc \in Pc, NEW s \in Session,
           NEW t \in Nat, NEW step \in Step \cup {NoStep}, TypeInv, Start(a, op, pc, s, t, step)
    PROVE  TypeInv'
<1>1. LeaseOf(a) \in Nat
  BY DEF LeaseOf, TypeInv, TypeOK
<1>2. NoCall \in Call
  BY CreatedType, NoStepAssumption DEF NoCall, Call, Op, Pc
<1> DEFINE l == LeaseOf(a)
           c == [NoCall EXCEPT !.op = op, !.pc = pc, !.s = s, !.lease = l,
                               !.fence = l, !.at = t, !.step = step]
<1>3. c \in Call /\ c.s = s
  <2> HIDE DEF l
  <2> l \in Nat BY <1>1 DEF l
  <2> QED BY <1>2 DEF Call
<1>4. calls' = [calls EXCEPT ![a] = c]
  BY DEF Start
<1> HIDE DEF c
<1>5. calls' \in [Actor -> Call]
  BY <1>3, <1>4 DEF TypeInv, TypeOK
<1>6. Targets'
  BY <1>3, <1>4 DEF TypeInv, TypeOK, Targets, Start
<1> QED BY <1>5, <1>6 DEF TypeInv, TypeOK, Start

(* A step of a call that writes nothing but its own record keeps TypeInv.  *)
LEMMA CallRecordType ==
    ASSUME TypeInv, NEW a \in Actor, NEW c \in Call,
           c.pc # "idle" => c.s \in Session,
           calls' = [calls EXCEPT ![a] = c],
           sessions' \in [Session -> State],
           handles' \in [Handle -> HandleRec],
           UNCHANGED <<now, issued, held>>
    PROVE  TypeInv'
BY DEF TypeInv, TypeOK, Targets

LEMMA NoCallType == NoCall \in Call /\ NoCall.pc = "idle"
BY CreatedType, NoStepAssumption DEF NoCall, Call, Op, Pc

(* The step of a call that moves its program counter and its record.       *)
LEMMA MovedType ==
    ASSUME NEW c \in Call, NEW pc \in Pc, NEW st \in State, NEW t \in Nat,
           NEW f \in Nat, NEW n \in Nat, NEW b \in BOOLEAN
    PROVE  /\ [c EXCEPT !.pc = pc, !.next = st, !.at = t] \in Call
           /\ [c EXCEPT !.pc = pc, !.next = st] \in Call
           /\ [c EXCEPT !.pc = pc, !.tries = n] \in Call
           /\ [c EXCEPT !.pc = pc, !.reconcile = b] \in Call
           /\ [c EXCEPT !.fence = f, !.pc = pc, !.next = st, !.at = t] \in Call
BY DEF Call

LEMMA LoadType ==
    ASSUME TypeInv, NEW a \in Actor, Load(a)
    PROVE  TypeInv'
<1> DEFINE c == calls[a]
           st == sessions[c.s]
<1>1. c \in Call /\ c.s \in Session /\ st \in State /\ c.pc = "load"
  BY DEF TypeInv, TypeOK, Targets, Load
<1>2. UNCHANGED <<sessions, now, issued, held, handles>>
  BY DEF Load
<1>3. CASE Return(a)
  BY <1>2, <1>3, NoCallType, CallRecordType DEF Return, TypeInv, TypeOK
<1>4. CASE ~Return(a)
  <2>1. PICK t \in ReadClock, u \in ReadClock :
          calls' = [calls EXCEPT ![a] = [c EXCEPT
             !.pc = IF c.fence = NoLease THEN "cas" ELSE "reload",
             !.next = IF c.fence = NoLease
                      THEN [Mutate(c, st) EXCEPT !.version = @ + 1]
                      ELSE Mutate(c, st),
             !.at = IF c.fence = NoLease THEN t ELSE u]]
    BY <1>4 DEF Load
  <2> DEFINE pc == IF c.fence = NoLease THEN "cas" ELSE "reload"
             nx == IF c.fence = NoLease
                   THEN [Mutate(c, st) EXCEPT !.version = @ + 1]
                   ELSE Mutate(c, st)
             at == IF c.fence = NoLease THEN t ELSE u
  <2>2. pc \in Pc /\ at \in Nat
    BY DEF Pc, ReadClock
  <2>3. nx \in State
    BY <1>1, MutateFacts, BumpFacts
  <2>4. calls' = [calls EXCEPT ![a] = [c EXCEPT !.pc = pc, !.next = nx, !.at = at]]
    BY <2>1
  <2> HIDE DEF pc, nx, at
  <2>5. [c EXCEPT !.pc = pc, !.next = nx, !.at = at] \in Call
    BY <1>1, <2>2, <2>3, MovedType
  <2>6. [c EXCEPT !.pc = pc, !.next = nx, !.at = at].s = c.s
    BY <1>1 DEF Call
  <2> HIDE DEF c
  <2> QED BY <1>1, <1>2, <2>4, <2>5, <2>6, CallRecordType DEF TypeInv, TypeOK
<1> QED BY <1>3, <1>4

LEMMA ReloadType ==
    ASSUME TypeInv, NEW a \in Actor, Reload(a)
    PROVE  TypeInv'
<1> DEFINE c == calls[a]
           st == sessions[c.s]
           nx == mergeSessionUpdate(st, c.next, c.fence)
<1>1. /\ c \in Call /\ c.s \in Session /\ st \in State /\ c.next \in State
      /\ c.fence \in Nat
  BY DEF TypeInv, TypeOK, Targets, Reload, Call
<1>2. UNCHANGED <<sessions, now, issued, held, handles>>
  BY DEF Reload
<1>3. CASE Return(a)
  BY <1>2, <1>3, NoCallType, CallRecordType DEF Return, TypeInv, TypeOK
<1>4. CASE ~Return(a)
  <2>1. calls' = [calls EXCEPT ![a] = [c EXCEPT !.pc = "cas", !.next = nx]]
    BY <1>4 DEF Reload
  <2>2. nx \in State
    BY <1>1, MergeFacts
  <2> HIDE DEF nx
  <2>3. [c EXCEPT !.pc = "cas", !.next = nx] \in Call
    BY <1>1, <2>2 DEF Call, Pc
  <2>4. [c EXCEPT !.pc = "cas", !.next = nx].s = c.s
    BY <1>1 DEF Call
  <2> HIDE DEF c
  <2> QED BY <1>1, <1>2, <2>1, <2>3, <2>4, CallRecordType DEF TypeInv, TypeOK
<1> QED BY <1>3, <1>4

LEMMA ReconciledType ==
    ASSUME TypeInv, NEW s \in Session
    PROVE  Reconciled(s) \in [Handle -> HandleRec]
BY DEF TypeInv, TypeOK, Reconciled, HandleRec

LEMMA CasType ==
    ASSUME TypeInv, NEW a \in Actor, Cas(a)
    PROVE  TypeInv'
<1> DEFINE c == calls[a]
<1>1. /\ c \in Call /\ c.s \in Session /\ sessions[c.s] \in State
      /\ c.next \in State /\ c.tries \in Nat
  BY DEF TypeInv, TypeOK, Targets, Cas, Call
<1>2. UNCHANGED <<now, issued, held>>
  BY DEF Cas
<1>3. sessions' \in [Session -> State]
  BY <1>1, StoredFacts DEF Cas, TypeInv, TypeOK
<1>4. handles' \in [Handle -> HandleRec]
  BY <1>1, ReconciledType DEF Cas, TypeInv, TypeOK
<1>5. CASE Return(a)
  BY <1>2, <1>3, <1>4, <1>5, NoCallType, CallRecordType DEF Return
<1>6. CASE ~Return(a)
  <2>1. calls' = [calls EXCEPT ![a] = [c EXCEPT !.pc = "reload", !.tries = c.tries + 1]]
    BY <1>6, <1>1 DEF Cas, Call
  <2> DEFINE n == c.tries + 1
  <2>2. n \in Nat
    BY <1>1
  <2> HIDE DEF n
  <2>3. /\ [c EXCEPT !.pc = "reload", !.tries = n] \in Call
        /\ [c EXCEPT !.pc = "reload", !.tries = n].s = c.s
    BY <1>1, <2>2 DEF Call, Pc
  <2> HIDE DEF c
  <2> QED BY <1>1, <1>2, <1>3, <1>4, <2>1, <2>3, CallRecordType DEF n
<1> QED BY <1>5, <1>6

LEMMA NormalizePeekType ==
    ASSUME TypeInv, NEW a \in Actor, NormalizePeek(a)
    PROVE  TypeInv'
<1> DEFINE c == calls[a]
           b == \/ sessions[c.s].exec \in {"in_flight", "interrupted"}
                \/ sessions[c.s].phase = "recover"
<1>1. c \in Call /\ c.s \in Session /\ b \in BOOLEAN
  BY DEF TypeInv, TypeOK, Targets, NormalizePeek
<1>2. calls' = [calls EXCEPT ![a] = [c EXCEPT !.pc = "norm", !.reconcile = b]]
  BY DEF NormalizePeek
<1> HIDE DEF b
<1>3. /\ [c EXCEPT !.pc = "norm", !.reconcile = b] \in Call
      /\ [c EXCEPT !.pc = "norm", !.reconcile = b].s = c.s
  BY <1>1 DEF Call, Pc
<1> HIDE DEF c
<1> QED BY <1>1, <1>2, <1>3, CallRecordType DEF TypeInv, TypeOK, NormalizePeek

LEMMA NormalizeType ==
    ASSUME TypeInv, NEW a \in Actor, Normalize(a)
    PROVE  TypeInv'
<1> DEFINE c == calls[a]
           st == sessions[c.s]
           next == Normalized(st)
           pc == IF st.lease = NoLease THEN "cas" ELSE "reload"
           nx == IF st.lease = NoLease THEN [next EXCEPT !.version = @ + 1]
                                       ELSE next
<1>1. c \in Call /\ c.s \in Session /\ st \in State
  BY DEF TypeInv, TypeOK, Targets, Normalize
<1>2. sessions' \in [Session -> State] /\ UNCHANGED <<now, issued, held>>
  BY DEF Normalize, TypeInv, TypeOK
<1>3. handles' \in [Handle -> HandleRec]
  BY <1>1, ReconciledType DEF Normalize, TypeInv, TypeOK
<1>4. CASE Return(a)
  BY <1>2, <1>3, <1>4, NoCallType, CallRecordType DEF Return
<1>5. CASE ~Return(a)
  <2>1. PICK t \in ReadClock :
          calls' = [calls EXCEPT ![a] = [c EXCEPT
                      !.fence = st.lease, !.pc = pc, !.next = nx, !.at = t]]
    BY <1>5 DEF Normalize
  <2>2. nx \in State /\ pc \in Pc /\ t \in Nat /\ st.lease \in Nat
    BY <1>1, NormalizedFacts, BumpFacts DEF Pc, ReadClock, State
  <2> DEFINE f == st.lease
  <2> HIDE DEF nx, pc, f
  <2>3. /\ [c EXCEPT !.fence = f, !.pc = pc, !.next = nx, !.at = t] \in Call
        /\ [c EXCEPT !.fence = f, !.pc = pc, !.next = nx, !.at = t].s = c.s
    BY <1>1, <2>2 DEF Call, f
  <2> HIDE DEF c
  <2> QED BY <1>1, <1>2, <1>3, <2>1, <2>3, CallRecordType DEF f
<1> QED BY <1>4, <1>5

LEMMA CreateRuntimeHandleType ==
    ASSUME TypeInv, NEW a \in Actor, CreateRuntimeHandle(a)
    PROVE  TypeInv'
<1>1. calls[a].s \in Session
  BY DEF TypeInv, TypeOK, Targets, CreateRuntimeHandle
<1>2. handles' \in [Handle -> HandleRec]
  BY <1>1 DEF TypeInv, TypeOK, CreateRuntimeHandle, HandleRec
<1> QED BY <1>2, NoCallType, CallRecordType
        DEF CreateRuntimeHandle, Return, TypeInv, TypeOK

(* Claiming, renewing and releasing write one session record.              *)
LEMMA ClaimType ==
    ASSUME TypeInv, NEW w \in Worker, NEW mode, Claim(w, mode)
    PROVE  TypeInv'
<1>1. PICK t \in ReadClock, s \in Session :
        /\ sessions' = [sessions EXCEPT ![s] = withLease(@, issued + 1, t + LeaseTTL)]
        /\ held' = [held EXCEPT ![w] = [s |-> s, lease |-> issued + 1]]
  BY DEF Claim
<1>2. issued + 1 \in Nat /\ t + LeaseTTL \in Nat /\ sessions[s] \in State
  BY LeaseTTLAssumption DEF ReadClock, TypeInv, TypeOK
<1>3. sessions' \in [Session -> State]
  BY <1>1, <1>2, WithLeaseFacts DEF TypeInv, TypeOK
<1>4. /\ held' \in [Worker -> [s : Session \cup {NoSession}, lease : Nat]]
      /\ \A v \in Worker : held'[v] # NoHold => held'[v].s \in Session
  BY <1>1, <1>2 DEF TypeInv, TypeOK, Targets
<1> QED BY <1>2, <1>3, <1>4 DEF Claim, TypeInv, TypeOK, Targets

LEMMA RenewLeaseType ==
    ASSUME TypeInv, NEW w \in Worker, RenewLease(w)
    PROVE  TypeInv'
<1>1. PICK t \in ReadClock :
        sessions' = [sessions EXCEPT
                       ![held[w].s] = withLease(@, held[w].lease, t + LeaseTTL)]
  BY DEF RenewLease
<1>2. /\ held[w].s \in Session /\ held[w].lease \in Nat
      /\ t + LeaseTTL \in Nat /\ sessions[held[w].s] \in State
  BY LeaseTTLAssumption DEF RenewLease, ReadClock, TypeInv, TypeOK, Targets
<1>3. sessions' \in [Session -> State]
  BY <1>1, <1>2, WithLeaseFacts DEF TypeInv, TypeOK
<1> QED BY <1>3 DEF RenewLease, TypeInv, TypeOK, Targets

LEMMA ReleaseLeaseType ==
    ASSUME TypeInv, NEW w \in Worker, ReleaseLease(w)
    PROVE  TypeInv'
<1>1. held[w].s \in Session /\ sessions[held[w].s] \in State
  BY DEF ReleaseLease, TypeInv, TypeOK, Targets
<1>2. sessions' \in [Session -> State]
  BY <1>1, WithLeaseFacts DEF ReleaseLease, TypeInv, TypeOK
<1>3. /\ held' \in [Worker -> [s : Session \cup {NoSession}, lease : Nat]]
      /\ \A v \in Worker : held'[v] # NoHold => held'[v].s \in Session
  BY DEF ReleaseLease, NoHold, TypeInv, TypeOK, Targets
<1> QED BY <1>2, <1>3 DEF ReleaseLease, TypeInv, TypeOK, Targets

LEMMA CrashType ==
    ASSUME TypeInv, NEW a \in Actor, Crash(a)
    PROVE  TypeInv'
<1>1. /\ held' \in [Worker -> [s : Session \cup {NoSession}, lease : Nat]]
      /\ \A v \in Worker : held'[v] # NoHold => held'[v].s \in Session
  BY DEF Crash, NoHold, TypeInv, TypeOK, Targets
<1>2. /\ calls' \in [Actor -> Call]
      /\ \A b \in Actor : calls'[b].pc # "idle" => calls'[b].s \in Session
  BY NoCallType DEF Crash, TypeInv, TypeOK, Targets
<1> QED BY <1>1, <1>2 DEF Crash, TypeInv, TypeOK, Targets

(* Every call is started through Start.                                    *)
LEMMA CallStartForm ==
    ASSUME NEW a \in Actor,
           CallStart(a) \/ \E s \in Session : StartInteractive(a, s)
    PROVE  \E op \in Op, pc \in {"load", "peek", "open"}, s \in Session,
              t \in ReadClock, step \in Step \cup {NoStep} :
             /\ Start(a, op, pc, s, t, step)
             /\ pc = "peek" => op = "recover"
<1>1. \A s \in Session, st \in Step : MarkSessionInFlight(a, s, st) =>
        \E t \in ReadClock : Start(a, "in_flight", "load", s, t, st)
  BY DEF MarkSessionInFlight
<1>2. \A s \in Session : MarkSessionInterrupted(a, s) =>
        \E t \in ReadClock : Start(a, "interrupted", "load", s, t, NoStep)
  BY DEF MarkSessionInterrupted
<1>3. \A s \in Session : RecoverSession(a, s) =>
        \E t \in ReadClock : Start(a, "recover", "peek", s, t, NoStep)
  BY DEF RecoverSession
<1>4. \A s \in Session : StartInteractive(a, s) =>
        \E t \in ReadClock : Start(a, "open", "open", s, t, NoStep)
  BY DEF StartInteractive
<1> QED BY <1>1, <1>2, <1>3, <1>4, Zenon DEF CallStart, Op

LEMMA CallStartType ==
    ASSUME TypeInv, NEW a \in Actor,
           CallStart(a) \/ \E s \in Session : StartInteractive(a, s)
    PROVE  TypeInv'
<1>1. PICK op \in Op, pc \in {"load", "peek", "open"}, s \in Session,
           t \in ReadClock, step \in Step \cup {NoStep} :
        Start(a, op, pc, s, t, step)
  BY CallStartForm
<1>2. pc \in Pc /\ t \in Nat
  BY DEF Pc, ReadClock
<1> QED BY <1>1, <1>2, StartType

LEMMA TypeStep == TypeInv /\ [Next]_vars => TypeInv'
<1> SUFFICES ASSUME TypeInv, [Next]_vars PROVE TypeInv'
  OBVIOUS
<1>1. CASE Tick
  BY <1>1 DEF Tick, TypeInv, TypeOK, Targets
<1>2. ASSUME NEW s \in Session, CreateSession(s) PROVE TypeInv'
  <2>1. Created(now) \in State
    BY CreatedType DEF TypeInv, TypeOK
  <2> QED BY <1>2, <2>1 DEF CreateSession, TypeInv, TypeOK, Targets
<1>3. ASSUME NEW w \in Worker,
             \/ \E mode \in ClaimMode : Claim(w, mode)
             \/ RenewLease(w) \/ ReleaseLease(w)
      PROVE  TypeInv'
  BY <1>3, ClaimType, RenewLeaseType, ReleaseLeaseType
<1>4. ASSUME NEW a \in Actor,
             \/ CallStart(a) \/ Crash(a)
             \/ \E s \in Session : StartInteractive(a, s)
      PROVE  TypeInv'
  BY <1>4, CallStartType, CrashType
<1>5. ASSUME NEW a \in Actor, CallStep(a) PROVE TypeInv'
  BY <1>5, LoadType, ReloadType, CasType, NormalizePeekType, NormalizeType,
     CreateRuntimeHandleType DEF CallStep
<1>6. CASE UNCHANGED vars
  BY <1>6 DEF vars, TypeInv, TypeOK, Targets
<1>7. Client \subseteq Actor
  BY DEF Actor
<1> QED BY <1>1, <1>2, <1>3, <1>4, <1>5, <1>6, <1>7, Zenon DEF Next

(* Every reachable state is well typed: the session store, the clock, the  *)
(* claims, the calls in progress and the handle store.                     *)
THEOREM TypeCorrect == Spec => []TypeOK
<1>1. Spec => []TypeInv
  BY TypeInit, TypeStep, PTL DEF Spec
<1>2. TypeInv => TypeOK
  BY DEF TypeInv
<1> QED BY <1>1, <1>2, PTL

----------------------------------------------------------------------------
(* Fencing.                                                                *)

(* What is known of a call wherever it stands.  The compare-and-swap makes *)
(* it inductive: a record about to be written can only be accepted while   *)
(* the stored record is the one its lease was checked on.                  *)
CallOK(a) ==
    LET c == calls[a]
        st == sessions[c.s] IN
    /\ c.pc = "load" => c.fence = c.lease
    /\ c.pc = "reload" => c.fence # NoLease
    /\ c.pc = "cas" =>
         /\ c.next.version <= st.version + 1
         /\ c.next.version = st.version + 1 =>
              /\ c.next.lease = st.lease /\ c.next.expires = st.expires
              /\ c.fence # NoLease => st.lease = c.fence
              /\ c.fence = NoLease => ~leaseActiveAt(st, now)

(* A session that was never created carries no lease.                      *)
AbsentFree ==
    \A s \in Session : sessions[s].version = 0
        => sessions[s].lease = NoLease /\ sessions[s].expires = 0

LeaseInv == TypeInv /\ AbsentFree /\ \A a \in Actor : CallOK(a)

(* The records found in the store at start carry no lease.                 *)
LEMMA PersistedFree == \A r \in Persisted : r.lease = 0 /\ r.expires = 0
<1>1. Created(1) \in State /\ Created(1).lease = 0 /\ Created(1).expires = 0
  BY CreatedType DEF Created, Absent
<1>2. \A p \in {"received", "aborted"} :
        LET r == [Created(1) EXCEPT !.phase = p] IN r.lease = 0 /\ r.expires = 0
  BY <1>1 DEF State
<1>3. \A st \in Step :
        LET r == [Created(1) EXCEPT !.phase = "recover", !.exec = "interrupted",
                             !.interrupted = TRUE, !.inFlight = st,
                             !.current = st, !.started = 1]
        IN  r.lease = 0 /\ r.expires = 0
  BY <1>1 DEF State
<1>4. Absent.lease = 0 /\ Absent.expires = 0
  BY DEF Absent
<1> QED BY <1>2, <1>3, <1>4, Zenon DEF Persisted

LEMMA LeaseInit == Init => LeaseInv
<1> SUFFICES ASSUME Init PROVE LeaseInv
  OBVIOUS
<1>1. TypeInv
  BY TypeInit
<1>2. \A s \in Session : sessions[s].lease = 0 /\ sessions[s].expires = 0
  BY PersistedFree DEF Init
<1>3. AbsentFree
  BY <1>2 DEF AbsentFree, Init
<1>4. \A a \in Actor : CallOK(a)
  BY DEF CallOK, Init, NoCall
<1> QED BY <1>1, <1>3, <1>4 DEF LeaseInv

(* Every step leaves a session record alone or moves its version by one.   *)
Versioned ==
    \A s \in Session : \/ sessions'[s] = sessions[s]
                       \/ sessions'[s].version = sessions[s].version + 1

(* Such a step keeps what is known of every call it does not touch, and    *)
(* of the sessions that do not exist.                                      *)
LEMMA Frame ==
    ASSUME LeaseInv, TypeInv', Versioned, now' >= now
    PROVE  /\ AbsentFree'
           /\ \A b \in Actor : calls'[b] = calls[b] => CallOK(b)'
<1>1. AbsentFree'
  BY DEF AbsentFree, Versioned, LeaseInv, TypeInv, TypeOK, State
<1>2. ASSUME NEW b \in Actor, calls'[b] = calls[b] PROVE CallOK(b)'
  <2> DEFINE c == calls[b]
  <2>1. CallOK(b)
    BY DEF LeaseInv
  <2>2. CASE c.pc # "cas"
    BY <1>2, <2>1, <2>2 DEF CallOK
  <2>3. CASE c.pc = "cas"
    <3>1. c.s \in Session /\ c.next \in State
      BY <2>3 DEF LeaseInv, TypeInv, TypeOK, Targets, Call
    <3>2. sessions[c.s] \in State /\ sessions'[c.s] \in State
      BY <3>1 DEF LeaseInv, TypeInv, TypeOK
    <3>3. /\ sessions[c.s].version \in Nat /\ c.next.version \in Nat
          /\ sessions[c.s].expires \in Nat
          /\ now \in Nat /\ now' \in Nat
      BY <3>1, <3>2 DEF State, LeaseInv, TypeInv, TypeOK
    <3>4. CASE sessions'[c.s] = sessions[c.s]
      BY <1>2, <2>1, <2>3, <3>3, <3>4 DEF CallOK, leaseActiveAt
    <3>5. CASE sessions'[c.s].version = sessions[c.s].version + 1
      BY <1>2, <2>1, <2>3, <3>3, <3>5 DEF CallOK
    <3> QED BY <3>1, <3>4, <3>5 DEF Versioned
  <2> QED BY <2>2, <2>3
<1> QED BY <1>1, <1>2

(* A call that returned or that just started is in order.                  *)
LEMMA QuietCallOK ==
    ASSUME NEW a \in Actor, calls'[a].pc \notin {"load", "reload", "cas"}
    PROVE  CallOK(a)'
BY DEF CallOK

(* The step of one call: the others are framed.                            *)
LEMMA OwnStep ==
    ASSUME LeaseInv, TypeInv', Versioned, now' = now, NEW a \in Actor, NEW c,
           calls' = [calls EXCEPT ![a] = c], CallOK(a)'
    PROVE  LeaseInv'
<1>1. now' >= now
  BY DEF LeaseInv, TypeInv, TypeOK
<1>2. \A b \in Actor : b # a => calls'[b] = calls[b]
  BY DEF LeaseInv, TypeInv, TypeOK
<1> QED BY <1>1, <1>2, Frame DEF LeaseInv

LEMMA ReturnStep ==
    ASSUME LeaseInv, TypeInv', Versioned, now' = now, NEW a \in Actor, Return(a)
    PROVE  LeaseInv'
<1>1. calls'[a] = NoCall
  BY DEF Return, LeaseInv, TypeInv, TypeOK
<1>2. CallOK(a)'
  BY <1>1, NoCallType, QuietCallOK
<1> QED BY <1>2, OwnStep DEF Return

LEMMA LoadInv ==
    ASSUME LeaseInv, TypeInv', NEW a \in Actor, Load(a)
    PROVE  LeaseInv'
<1> DEFINE c == calls[a]
           st == sessions[c.s]
<1>1. /\ c \in Call /\ c.s \in Session /\ st \in State /\ c.pc = "load"
      /\ c.fence = c.lease
  BY DEF LeaseInv, TypeInv, TypeOK, Targets, Load, CallOK
<1>2. Versioned /\ now' = now /\ sessions' = sessions
  BY DEF Load, Versioned
<1>3. CASE Return(a)
  BY <1>2, <1>3, ReturnStep
<1>4. CASE ~Return(a)
  <2>1. PICK t \in ReadClock, u \in ReadClock :
          /\ requireSessionLease(st, c.lease, t)
          /\ calls' = [calls EXCEPT ![a] = [c EXCEPT
             !.pc = IF c.fence = NoLease THEN "cas" ELSE "reload",
             !.next = IF c.fence = NoLease
                      THEN [Mutate(c, st) EXCEPT !.version = @ + 1]
                      ELSE Mutate(c, st),
             !.at = IF c.fence = NoLease THEN t ELSE u]]
    BY <1>4 DEF Load
  <2> DEFINE m == Mutate(c, st)
             d == [c EXCEPT
             !.pc = IF c.fence = NoLease THEN "cas" ELSE "reload",
             !.next = IF c.fence = NoLease
                      THEN [m EXCEPT !.version = @ + 1]
                      ELSE m,
             !.at = IF c.fence = NoLease THEN t ELSE u]
  <2>2. calls'[a] = d
    BY <2>1 DEF LeaseInv, TypeInv, TypeOK
  <2>3. /\ m \in State /\ m.version = st.version /\ m.lease = st.lease
        /\ m.expires = st.expires
    BY <1>1, MutateFacts
  <2> HIDE DEF m
  <2>4. CASE c.fence # 0
    <3>1. d.pc = "reload" /\ d.fence = c.fence
      BY <1>1, <2>4 DEF Call
    <3> QED BY <2>2, <2>4, <3>1, <2>1, <1>2, OwnStep DEF CallOK, m
  <2>5. CASE c.fence = 0
    <3>1. d.pc = "cas" /\ d.fence = 0 /\ d.s = c.s
      BY <1>1, <2>5 DEF Call
    <3>2. d.next = [m EXCEPT !.version = @ + 1]
      BY <1>1, <2>5 DEF Call
    <3>3. /\ d.next.version = st.version + 1 /\ d.next.lease = st.lease
          /\ d.next.expires = st.expires
      BY <2>3, <3>2, BumpFacts
    <3>4. ~leaseActiveAt(st, now)
      <4>1. t \in Nat /\ t <= now /\ now \in Nat
        BY DEF ReadClock, LeaseInv, TypeInv, TypeOK
      <4>2. st.expires \in Nat
        BY <1>1 DEF State
      <4> QED BY <1>1, <2>1, <2>5, <4>1, <4>2
              DEF requireSessionLease, leaseActiveAt
    <3>5. st.version + 1 \in Nat
      BY <1>1 DEF State
    <3>6. CallOK(a)'
      <4> HIDE DEF d
      <4> QED BY <1>2, <2>2, <3>1, <3>3, <3>4, <3>5 DEF CallOK
    <3> QED BY <2>1, <1>2, <3>6, OwnStep
  <2> QED BY <2>4, <2>5
<1> QED BY <1>3, <1>4

LEMMA ReloadInv ==
    ASSUME LeaseInv, TypeInv', NEW a \in Actor, Reload(a)
    PROVE  LeaseInv'
<1> DEFINE c == calls[a]
           st == sessions[c.s]
           nx == mergeSessionUpdate(st, c.next, c.fence)
           d == [c EXCEPT !.pc = "cas", !.next = nx]
<1>1. /\ c \in Call /\ c.s \in Session /\ st \in State /\ c.next \in State
      /\ c.fence \in Nat /\ c.fence # 0
  BY DEF LeaseInv, TypeInv, TypeOK, Targets, Reload, CallOK, Call
<1>2. Versioned /\ now' = now /\ sessions' = sessions
  BY DEF Reload, Versioned
<1>3. CASE Return(a)
  BY <1>2, <1>3, ReturnStep
<1>4. CASE ~Return(a)
  <2>1. requireSessionLease(st, c.fence, c.at) /\ calls' = [calls EXCEPT ![a] = d]
    BY <1>4 DEF Reload
  <2>2. st.lease = c.fence
    BY <1>1, <2>1 DEF requireSessionLease
  <2>3. /\ nx.version = st.version + 1 /\ nx.lease = st.lease
        /\ nx.expires = st.expires
    BY <1>1, <2>2, MergeFacts
  <2> HIDE DEF nx
  <2>4. d.pc = "cas" /\ d.fence = c.fence /\ d.s = c.s /\ d.next = nx
    BY <1>1 DEF Call
  <2>5. calls'[a] = d
    BY <2>1 DEF LeaseInv, TypeInv, TypeOK
  <2>6. st.version + 1 \in Nat
    BY <1>1 DEF State
  <2>7. CallOK(a)'
    <3> HIDE DEF d
    <3> QED BY <1>1, <1>2, <2>2, <2>3, <2>4, <2>5, <2>6 DEF CallOK
  <2> QED BY <1>2, <2>1, <2>7, OwnStep
<1> QED BY <1>3, <1>4

(* An accepted write moves the version by one and keeps the lease.         *)
LEMMA CasMoves ==
    ASSUME LeaseInv, NEW a \in Actor, Cas(a)
    PROVE  /\ Versioned
           /\ \A s \in Session : /\ sessions'[s].lease = sessions[s].lease
                                 /\ sessions'[s].expires = sessions[s].expires
<1> DEFINE c == calls[a]
<1>1. c.s \in Session /\ sessions[c.s] \in State /\ c.next \in State
  BY DEF LeaseInv, TypeInv, TypeOK, Targets, Cas, Call
<1>2. CASE sessions' = sessions
  BY <1>2 DEF Versioned
<1>3. CASE /\ c.next.version = sessions[c.s].version + 1
           /\ sessions' = [sessions EXCEPT ![c.s] = stored(@, c.next)]
  <2>1. /\ stored(sessions[c.s], c.next).version = sessions[c.s].version + 1
        /\ stored(sessions[c.s], c.next).lease = c.next.lease
        /\ stored(sessions[c.s], c.next).expires = c.next.expires
    BY <1>1, <1>3, StoredFacts
  <2>2. c.next.lease = sessions[c.s].lease /\ c.next.expires = sessions[c.s].expires
    BY <1>3 DEF LeaseInv, CallOK, Cas
  <2> QED BY <1>3, <2>1, <2>2 DEF Versioned, LeaseInv, TypeInv, TypeOK
<1> QED BY <1>2, <1>3 DEF Cas

LEMMA CasInv ==
    ASSUME LeaseInv, TypeInv', NEW a \in Actor, Cas(a)
    PROVE  LeaseInv'
<1>1. Versioned /\ now' = now
  BY CasMoves DEF Cas
<1>2. CASE Return(a)
  BY <1>1, <1>2, ReturnStep
<1>3. CASE ~Return(a)
  <2> DEFINE d == [calls[a] EXCEPT !.pc = "reload", !.tries = @ + 1]
  <2>1. calls[a].fence # 0 /\ calls' = [calls EXCEPT ![a] = d]
    BY <1>3 DEF Cas
  <2>2. calls[a] \in Call /\ calls'[a] = d
    BY <2>1 DEF LeaseInv, TypeInv, TypeOK
  <2>3. d.pc = "reload" /\ d.fence = calls[a].fence
    BY <2>2 DEF Call
  <2>4. CallOK(a)'
    BY <2>1, <2>2, <2>3 DEF CallOK
  <2> QED BY <1>1, <2>1, <2>4, OwnStep
<1> QED BY <1>2, <1>3

LEMMA NormalizeInv ==
    ASSUME LeaseInv, TypeInv', NEW a \in Actor, Normalize(a)
    PROVE  LeaseInv'
<1> DEFINE c == calls[a]
           st == sessions[c.s]
           next == Normalized(st)
<1>1. c \in Call /\ c.s \in Session /\ st \in State
  BY DEF LeaseInv, TypeInv, TypeOK, Targets, Normalize
<1>2. Versioned /\ now' = now /\ sessions' = sessions
  BY DEF Normalize, Versioned
<1>3. CASE Return(a)
  BY <1>2, <1>3, ReturnStep
<1>4. CASE ~Return(a)
  <2>1. PICK t \in ReadClock :
          calls' = [calls EXCEPT ![a] = [c EXCEPT
                 !.fence = st.lease,
                 !.pc = IF st.lease = NoLease THEN "cas" ELSE "reload",
                 !.next = IF st.lease = NoLease
                          THEN [next EXCEPT !.version = @ + 1] ELSE next,
                 !.at = t]]
    BY <1>4 DEF Normalize
  <2> DEFINE l == st.lease
             d == [c EXCEPT
                 !.fence = l,
                 !.pc = IF l = NoLease THEN "cas" ELSE "reload",
                 !.next = IF l = NoLease
                          THEN [next EXCEPT !.version = @ + 1] ELSE next,
                 !.at = t]
  <2>2. calls'[a] = d
    BY <2>1 DEF LeaseInv, TypeInv, TypeOK
  <2>3. /\ next \in State /\ next.version = st.version
        /\ next.lease = l /\ next.expires = st.expires
    BY <1>1, NormalizedFacts
  <2> HIDE DEF next
  <2>4. CASE l # 0
    <3>1. d.pc = "reload" /\ d.fence = l
      BY <1>1, <2>4 DEF Call
    <3>2. CallOK(a)'
      <4> HIDE DEF d
      <4> QED BY <2>2, <2>4, <3>1 DEF CallOK
    <3> QED BY <1>2, <2>1, <3>2, OwnStep DEF next
  <2>5. CASE l = 0
    <3>1. d.pc = "cas" /\ d.fence = 0 /\ d.s = c.s
      BY <1>1, <2>5 DEF Call
    <3>2. d.next = [next EXCEPT !.version = @ + 1]
      BY <1>1, <2>5 DEF Call
    <3>3. /\ d.next.version = st.version + 1 /\ d.next.lease = 0
          /\ d.next.expires = st.expires
      BY <2>3, <2>5, <3>2, BumpFacts
    <3>4. st.version + 1 \in Nat
      BY <1>1 DEF State
    <3>5. CallOK(a)'
      <4> HIDE DEF d
      <4> QED BY <1>2, <2>2, <2>5, <3>1, <3>3, <3>4 DEF CallOK, leaseActiveAt
    <3> QED BY <1>2, <2>1, <3>5, OwnStep DEF next
  <2> QED BY <2>4, <2>5
<1> QED BY <1>3, <1>4

(* The fence of a call that starts is the caller's lease.                  *)
LEMMA CallStartInv ==
    ASSUME LeaseInv, TypeInv', NEW a \in Actor,
           CallStart(a) \/ \E s \in Session : StartInteractive(a, s)
    PROVE  LeaseInv'
<1>1. PICK op \in Op, pc \in {"load", "peek", "open"}, s \in Session,
           t \in ReadClock, step \in Step \cup {NoStep} :
        Start(a, op, pc, s, t, step)
  BY CallStartForm
<1> DEFINE l == LeaseOf(a)
           d == [NoCall EXCEPT !.op = op, !.pc = pc, !.s = s, !.lease = l,
                               !.fence = l, !.at = t, !.step = step]
<1>2. /\ calls' = [calls EXCEPT ![a] = d] /\ sessions' = sessions /\ now' = now
  BY <1>1 DEF Start
<1>3. calls'[a] = d
  BY <1>2 DEF LeaseInv, TypeInv, TypeOK
<1> HIDE DEF l
<1>4. d.pc = pc /\ d.lease = l /\ d.fence = l
  BY DEF NoCall
<1>5. CallOK(a)'
  <2> HIDE DEF d
  <2> QED BY <1>1, <1>3, <1>4 DEF CallOK
<1> QED BY <1>2, <1>5, OwnStep DEF Versioned

(* Granting, extending and giving up a lease move the record's version.    *)
LEMMA LeaseOps ==
    ASSUME LeaseInv, NEW w \in Worker,
           \/ \E mode \in ClaimMode : Claim(w, mode)
           \/ RenewLease(w) \/ ReleaseLease(w)
    PROVE  Versioned /\ now' = now /\ calls' = calls
<1>1. \A s \in Session : sessions[s] \in State
  BY DEF LeaseInv, TypeInv, TypeOK
<1>2. ASSUME NEW mode \in ClaimMode, Claim(w, mode)
      PROVE  Versioned /\ now' = now /\ calls' = calls
  <2>1. PICK s \in Session, l \in Nat, e \in Nat :
          sessions' = [sessions EXCEPT ![s] = withLease(@, l, e)]
    <3>1. PICK t \in ReadClock, s \in Session :
            sessions' = [sessions EXCEPT ![s] = withLease(@, issued + 1, t + LeaseTTL)]
      BY <1>2 DEF Claim
    <3>2. issued + 1 \in Nat /\ t + LeaseTTL \in Nat
      BY LeaseTTLAssumption DEF ReadClock, LeaseInv, TypeInv, TypeOK
    <3> QED BY <3>1, <3>2
  <2>2. PICK st \in State : st = sessions[s]
    BY <1>1
  <2>3. withLease(st, l, e).version = st.version + 1
    BY WithLeaseFacts
  <2> QED BY <1>2, <2>1, <2>2, <2>3 DEF Claim, Versioned, LeaseInv, TypeInv, TypeOK
<1>3. CASE RenewLease(w)
  <2>1. PICK s \in Session, l \in Nat : s = held[w].s /\ l = held[w].lease
    BY <1>3 DEF RenewLease, LeaseInv, TypeInv, TypeOK, Targets
  <2>2. PICK e \in Nat : sessions' = [sessions EXCEPT ![s] = withLease(@, l, e)]
    <3>1. \A t \in ReadClock : t + LeaseTTL \in Nat
      BY LeaseTTLAssumption DEF ReadClock, LeaseInv, TypeInv, TypeOK
    <3> QED BY <1>3, <2>1, <3>1 DEF RenewLease
  <2>3. PICK st \in State : st = sessions[s]
    BY <1>1
  <2>4. withLease(st, l, e).version = st.version + 1
    BY WithLeaseFacts
  <2> QED BY <1>3, <2>2, <2>3, <2>4 DEF RenewLease, Versioned, LeaseInv, TypeInv, TypeOK
<1>4. CASE ReleaseLease(w)
  <2>1. held[w].s \in Session
    BY <1>4 DEF ReleaseLease, LeaseInv, TypeInv, TypeOK, Targets
  <2>2. PICK st \in State : st = sessions[held[w].s]
    BY <1>1, <2>1
  <2>3. withLease(st, 0, 0).version = st.version + 1
    BY WithLeaseFacts
  <2> QED BY <1>4, <2>2, <2>3 DEF ReleaseLease, Versioned, LeaseInv, TypeInv, TypeOK
<1> QED BY <1>2, <1>3, <1>4

LEMMA LeaseStep == LeaseInv /\ [Next]_vars => LeaseInv'
<1> SUFFICES ASSUME LeaseInv, [Next]_vars PROVE LeaseInv'
  OBVIOUS
<1>1. TypeInv'
  BY TypeStep DEF LeaseInv
<1>2. ASSUME Versioned, now' >= now, calls' = calls PROVE LeaseInv'
  BY <1>1, <1>2, Frame DEF LeaseInv
<1>3. now >= now
  BY DEF LeaseInv, TypeInv, TypeOK
<1>4. CASE Tick
  <2>1. now' >= now
    BY <1>4 DEF Tick, LeaseInv, TypeInv, TypeOK
  <2> QED BY <1>2, <1>4, <2>1 DEF Tick, Versioned
<1>5. ASSUME NEW s \in Session, CreateSession(s) PROVE LeaseInv'
  <2>1. sessions[s].version \in Nat
    BY DEF LeaseInv, TypeInv, TypeOK, State
  <2>2. Created(now).version = sessions[s].version + 1
    BY <1>5, <2>1 DEF CreateSession, Exists, Created, Absent
  <2> QED BY <1>2, <1>3, <1>5, <2>2
          DEF CreateSession, Versioned, LeaseInv, TypeInv, TypeOK
<1>6. ASSUME NEW w \in Worker,
             \/ \E mode \in ClaimMode : Claim(w, mode)
             \/ RenewLease(w) \/ ReleaseLease(w)
      PROVE  LeaseInv'
  BY <1>2, <1>3, <1>6, LeaseOps
<1>7. ASSUME NEW a \in Actor,
             CallStart(a) \/ \E s \in Session : StartInteractive(a, s)
      PROVE  LeaseInv'
  BY <1>1, <1>7, CallStartInv
<1>8. ASSUME NEW a \in Actor, Crash(a) PROVE LeaseInv'
  BY <1>1, <1>8, ReturnStep DEF Crash, Return, Versioned
<1>9. ASSUME NEW a \in Actor, CallStep(a) PROVE LeaseInv'
  <2>1. CASE NormalizePeek(a)
    <3> DEFINE d == [calls[a] EXCEPT !.pc = "norm",
                 !.reconcile = \/ sessions[calls[a].s].exec \in {"in_flight", "interrupted"}
                               \/ sessions[calls[a].s].phase = "recover"]
    <3>1. calls' = [calls EXCEPT ![a] = d] /\ sessions' = sessions /\ now' = now
      BY <2>1 DEF NormalizePeek
    <3>2. calls'[a] = d /\ calls[a] \in Call
      BY <3>1 DEF LeaseInv, TypeInv, TypeOK
    <3>3. d.pc = "norm"
      BY <3>2 DEF Call
    <3>4. CallOK(a)'
      BY <3>2, <3>3, QuietCallOK
    <3> HIDE DEF d
    <3> QED BY <1>1, <3>1, <3>4, OwnStep DEF Versioned
  <2>2. CASE CreateRuntimeHandle(a)
    BY <1>1, <2>2, ReturnStep DEF CreateRuntimeHandle, Versioned
  <2> QED BY <1>1, <1>9, <2>1, <2>2, LoadInv, ReloadInv, CasInv, NormalizeInv
          DEF CallStep
<1>10. CASE UNCHANGED vars
  BY <1>2, <1>3, <1>10 DEF vars, Versioned
<1>11. Client \subseteq Actor
  BY DEF Actor
<1> QED BY <1>4, <1>5, <1>6, <1>7, <1>8, <1>9, <1>10, <1>11, Zenon DEF Next

LEMMA LeaseInvariant == Spec => []LeaseInv
BY LeaseInit, LeaseStep, PTL DEF Spec

(* A write persisted under a lease is only accepted while that lease is on *)
(* the session: Store.Update refuses whoever was overtaken by a reclaim.   *)
THEOREM LeaseFenced == Spec => []LeaseFencing
<1>1. LeaseInv => LeaseFencing
  BY DEF LeaseInv, CallOK, LeaseFencing, Landing
<1> QED BY <1>1, LeaseInvariant, PTL

(* Only a recovery writes under a lease other than its caller's.           *)
FenceOK(c) ==
    /\ c.fence = c.lease \/ c.op = "recover"
    /\ c.pc \in {"peek", "norm"} => c.op = "recover"

FenceInv == TypeInv /\ \A a \in Actor : FenceOK(calls[a])

LEMMA FenceFrame ==
    ASSUME FenceInv, TypeInv', NEW a \in Actor, NEW d,
           calls' = [calls EXCEPT ![a] = d], FenceOK(d)
    PROVE  FenceInv'
<1>1. calls \in [Actor -> Call]
  BY DEF FenceInv, TypeInv, TypeOK
<1>2. \A b \in Actor : calls'[b] = d \/ calls'[b] = calls[b]
  BY <1>1
<1>3. \A b \in Actor : FenceOK(calls'[b])
  BY <1>2, Zenon DEF FenceInv
<1> QED BY <1>3 DEF FenceInv

(* A step that only moves the call on keeps the lease it was made with.    *)
LEMMA FenceMove ==
    ASSUME FenceInv, TypeInv', NEW a \in Actor, NEW d,
           calls' = [calls EXCEPT ![a] = d],
           d.op = calls[a].op, d.lease = calls[a].lease,
           \/ d.fence = calls[a].fence
           \/ calls[a].pc = "norm",
           d.pc \in {"peek", "norm"} => calls[a].pc = "peek"
    PROVE  FenceInv'
<1>1. FenceOK(calls[a])
  BY DEF FenceInv
<1>2. FenceOK(d)
  BY <1>1 DEF FenceOK
<1> QED BY <1>2, FenceFrame

LEMMA FenceReturn ==
    ASSUME FenceInv, TypeInv', NEW a \in Actor, Return(a)
    PROVE  FenceInv'
<1>1. FenceOK(NoCall)
  BY DEF FenceOK, NoCall
<1> QED BY <1>1, FenceFrame DEF Return

LEMMA FenceStart ==
    ASSUME FenceInv, TypeInv', NEW a \in Actor,
           CallStart(a) \/ \E s \in Session : StartInteractive(a, s)
    PROVE  FenceInv'
<1>1. PICK op \in Op, pc \in {"load", "peek", "open"}, s \in Session,
           t \in ReadClock, step \in Step \cup {NoStep} :
        Start(a, op, pc, s, t, step) /\ (pc = "peek" => op = "recover")
  BY CallStartForm
<1> DEFINE d == [NoCall EXCEPT !.op = op, !.pc = pc, !.s = s,
                               !.lease = LeaseOf(a), !.fence = LeaseOf(a),
                               !.at = t, !.step = step]
<1>2. calls' = [calls EXCEPT ![a] = d]
  BY <1>1 DEF Start
<1>3. d.fence = d.lease /\ d.pc = pc /\ d.op = op
  BY DEF NoCall
<1> HIDE DEF d
<1>4. FenceOK(d)
  BY <1>1, <1>3 DEF FenceOK
<1> QED BY <1>2, <1>4, FenceFrame

LEMMA FenceCallStep ==
    ASSUME FenceInv, TypeInv', NEW a \in Actor, CallStep(a)
    PROVE  FenceInv'
<1> DEFINE c == calls[a]
<1>1. c \in Call
  BY DEF FenceInv, TypeInv, TypeOK
<1>2. CASE Return(a)
  BY <1>2, FenceReturn
<1>3. CASE Load(a) /\ ~Return(a)
  <2>1. PICK n, u : calls' = [calls EXCEPT ![a] = [c EXCEPT
                 !.pc = IF c.fence = NoLease THEN "cas" ELSE "reload",
                 !.next = n, !.at = u]]
    BY <1>3 DEF Load
  <2> DEFINE p == IF c.fence = NoLease THEN "cas" ELSE "reload"
             d == [c EXCEPT !.pc = p, !.next = n, !.at = u]
  <2>2. p \notin {"peek", "norm"} /\ calls' = [calls EXCEPT ![a] = d]
    BY <2>1
  <2> HIDE DEF p
  <2>3. d.op = c.op /\ d.lease = c.lease /\ d.fence = c.fence /\ d.pc = p
    BY <1>1 DEF Call
  <2> HIDE DEF d
  <2> QED BY <2>2, <2>3, FenceMove
<1>4. CASE Reload(a) /\ ~Return(a)
  <2>1. PICK n : calls' = [calls EXCEPT ![a] = [c EXCEPT !.pc = "cas", !.next = n]]
    BY <1>4 DEF Reload
  <2> DEFINE d == [c EXCEPT !.pc = "cas", !.next = n]
  <2>2. calls' = [calls EXCEPT ![a] = d]
    BY <2>1
  <2>3. d.op = c.op /\ d.lease = c.lease /\ d.fence = c.fence /\ d.pc = "cas"
    BY <1>1 DEF Call
  <2> HIDE DEF d
  <2> QED BY <2>2, <2>3, FenceMove
<1>5. CASE Cas(a) /\ ~Return(a)
  <2> DEFINE d == [c EXCEPT !.pc = "reload", !.tries = @ + 1]
  <2>1. calls' = [calls EXCEPT ![a] = d]
    BY <1>5 DEF Cas
  <2>2. d.op = c.op /\ d.lease = c.lease /\ d.fence = c.fence /\ d.pc = "reload"
    BY <1>1 DEF Call
  <2> HIDE DEF d
  <2> QED BY <2>1, <2>2, FenceMove
<1>6. CASE NormalizePeek(a) /\ ~Return(a)
  <2>1. PICK r : calls' = [calls EXCEPT ![a] = [c EXCEPT !.pc = "norm", !.reconcile = r]]
    BY <1>6 DEF NormalizePeek
  <2> DEFINE d == [c EXCEPT !.pc = "norm", !.reconcile = r]
  <2>2. calls' = [calls EXCEPT ![a] = d] /\ c.pc = "peek"
    BY <1>6, <2>1 DEF NormalizePeek
  <2>3. d.op = c.op /\ d.lease = c.lease /\ d.fence = c.fence
    BY <1>1 DEF Call
  <2> HIDE DEF d
  <2> QED BY <2>2, <2>3, FenceMove
<1>7. CASE Normalize(a) /\ ~Return(a)
  <2>1. PICK l, n, t : calls' = [calls EXCEPT ![a] = [c EXCEPT
                 !.fence = l, !.pc = IF l = NoLease THEN "cas" ELSE "reload",
                 !.next = n, !.at = t]]
    BY <1>7 DEF Normalize
  <2> DEFINE p == IF l = NoLease THEN "cas" ELSE "reload"
             d == [c EXCEPT !.fence = l, !.pc = p, !.next = n, !.at = t]
  <2>2. /\ p \notin {"peek", "norm"} /\ calls' = [calls EXCEPT ![a] = d]
        /\ c.pc = "norm"
    BY <1>7, <2>1 DEF Normalize
  <2> HIDE DEF p
  <2>3. d.op = c.op /\ d.lease = c.lease /\ d.pc = p
    BY <1>1 DEF Call
  <2> HIDE DEF d
  <2> QED BY <2>2, <2>3, FenceMove
<1>8. CreateRuntimeHandle(a) => Return(a)
  BY DEF CreateRuntimeHandle
<1> QED BY <1>2, <1>3, <1>4, <1>5, <1>6, <1>7, <1>8 DEF CallStep

LEMMA FenceInvariant == Spec => []FenceInv
<1>1. Init => FenceInv
  <2>1. FenceOK(NoCall)
    BY DEF FenceOK, NoCall
  <2> QED BY <2>1, TypeInit DEF FenceInv, Init
<1>2. FenceInv /\ [Next]_vars => FenceInv'
  <2> SUFFICES ASSUME FenceInv, [Next]_vars PROVE FenceInv'
    OBVIOUS
  <2>1. TypeInv'
    BY TypeStep DEF FenceInv
  <2>2. ASSUME calls' = calls PROVE FenceInv'
    BY <2>1, <2>2 DEF FenceInv
  <2>3. ASSUME NEW a \in Actor, Crash(a) PROVE FenceInv'
    BY <2>1, <2>3, FenceReturn DEF Crash, Return
  <2>4. Client \subseteq Actor
    BY DEF Actor
  <2> QED BY <2>1, <2>2, <2>3, <2>4, FenceStart, FenceCallStep
          DEF Next, vars, Tick, CreateSession, Claim, RenewLease, ReleaseLease
<1> QED BY <1>1, <1>2, PTL DEF Spec

(* While a lease is active, the only writes accepted are its holder's and  *)
(* those of recoveries that took the lease they found.                     *)
THEOREM DirectWritesYieldAlways == Spec => []DirectWritesYield
<1>1. LeaseInv /\ FenceInv => DirectWritesYield
  <2> SUFFICES ASSUME LeaseInv, FenceInv, NEW a \in Actor, Landing(a),
                      leaseActiveAt(sessions[calls[a].s], now)
               PROVE  \/ calls[a].lease = sessions[calls[a].s].lease
                      \/ /\ calls[a].op = "recover"
                         /\ calls[a].fence = sessions[calls[a].s].lease
    BY DEF DirectWritesYield
  <2>1. CallOK(a) /\ FenceOK(calls[a])
    BY DEF LeaseInv, FenceInv
  <2> QED BY <2>1 DEF CallOK, FenceOK, Landing
<1> QED BY <1>1, LeaseInvariant, FenceInvariant, PTL

(* No accepted write moves a lease, however old the copy it started from.  *)
THEOREM WritesKeepLeaseAlways == Spec => []WritesKeepLease
<1>1. LeaseInv => WritesKeepLease
  BY DEF LeaseInv, CallOK, WritesKeepLease, Landing
<1> QED BY <1>1, LeaseInvariant, PTL

----------------------------------------------------------------------------
(* Refinement of the lease contract.                                       *)

(* A step that leaves every lease, the clock and the ids alone is a        *)
(* stuttering step of the contract.                                        *)
LEMMA ContractStutter ==
    ASSUME \A s \in Session : /\ sessions'[s].lease = sessions[s].lease
                             /\ sessions'[s].expires = sessions[s].expires,
           UNCHANGED <<now, issued>>
    PROVE  UNCHANGED Contract!vars
BY DEF Contract!vars

LEMMA ContractInit == Init => Contract!Init
<1> SUFFICES ASSUME Init PROVE Contract!Init
  OBVIOUS
<1>1. \A s \in Session : sessions[s].lease = 0 /\ sessions[s].expires = 0
  BY PersistedFree DEF Init
<1> QED BY <1>1 DEF Contract!Init, Init

(* The step of the store as a step of the contract, one lease written.     *)
LEMMA ContractClaim ==
    ASSUME LeaseInv, NEW w \in Worker, NEW mode, Claim(w, mode)
    PROVE  \E s \in Session : Contract!Grant(s)
<1>1. PICK t \in ReadClock, s \in Session :
        /\ Claimable(s, mode, t)
        /\ sessions' = [sessions EXCEPT ![s] = withLease(@, issued + 1, t + LeaseTTL)]
  BY DEF Claim
<1>2. t \in Nat /\ t <= now /\ now \in Nat /\ issued \in Nat /\ LeaseTTL \in Nat
  BY LeaseTTLAssumption DEF ReadClock, LeaseInv, TypeInv, TypeOK
<1>3. /\ sessions \in [Session -> State] /\ sessions[s] \in State
      /\ sessions[s].expires \in Nat
  BY DEF LeaseInv, TypeInv, TypeOK, State
<1>4. sessions[s].lease = 0 \/ sessions[s].expires <= now
  BY <1>1, <1>2, <1>3
     DEF Claimable, claimCondition, claimableState, leaseActiveAt
<1> DEFINE i == issued + 1
           e == t + LeaseTTL
<1>5. e \in 0..(now + LeaseTTL)
  BY <1>2
<1>6. sessions' = [sessions EXCEPT ![s] = withLease(sessions[s], i, e)]
  BY <1>1
<1>7. withLease(sessions[s], i, e).lease = i /\ withLease(sessions[s], i, e).expires = e
  <2>1. i \in Nat /\ e \in Nat
    BY <1>2
  <2> HIDE DEF i, e
  <2> QED BY <1>3, <2>1, WithLeaseFacts
<1> HIDE DEF i, e
<1>8. /\ [r \in Session |-> sessions'[r].lease]
           = [[r \in Session |-> sessions[r].lease] EXCEPT ![s] = i]
      /\ [r \in Session |-> sessions'[r].expires]
           = [[r \in Session |-> sessions[r].expires] EXCEPT ![s] = e]
  BY <1>3, <1>6, <1>7
<1>9. Contract!Grant(s)
  BY <1>4, <1>5, <1>8 DEF Contract!Grant, Contract!Free, Claim, i
<1> QED BY <1>9

LEMMA ContractRenew ==
    ASSUME LeaseInv, NEW w \in Worker, RenewLease(w)
    PROVE  \E s \in Session : Contract!Extend(s)
<1>0. PICK s \in Session, l \in Nat : s = held[w].s /\ l = held[w].lease
  BY DEF RenewLease, LeaseInv, TypeInv, TypeOK, Targets
<1>1. PICK t \in ReadClock :
        /\ leaseHeldAt(sessions[s], l, t)
        /\ sessions' = [sessions EXCEPT ![s] = withLease(@, l, t + LeaseTTL)]
  BY <1>0 DEF RenewLease
<1>2. t \in Nat /\ t <= now /\ now \in Nat /\ LeaseTTL \in Nat
  BY LeaseTTLAssumption DEF ReadClock, LeaseInv, TypeInv, TypeOK
<1>3. sessions \in [Session -> State] /\ sessions[s] \in State
  BY DEF LeaseInv, TypeInv, TypeOK
<1>4. sessions[s].lease = l /\ l # 0
  BY <1>1 DEF leaseHeldAt
<1> DEFINE e == t + LeaseTTL
<1>5. e \in Nat /\ e \in 0..(now + LeaseTTL)
  BY <1>2
<1>6. sessions' = [sessions EXCEPT ![s] = withLease(sessions[s], l, e)]
  BY <1>1
<1> HIDE DEF e
<1>7. withLease(sessions[s], l, e).lease = l /\ withLease(sessions[s], l, e).expires = e
  BY <1>3, <1>5, WithLeaseFacts
<1>8. /\ [r \in Session |-> sessions'[r].lease] = [r \in Session |-> sessions[r].lease]
      /\ [r \in Session |-> sessions'[r].expires]
           = [[r \in Session |-> sessions[r].expires] EXCEPT ![s] = e]
  BY <1>3, <1>4, <1>6, <1>7
<1>9. Contract!Extend(s)
  BY <1>3, <1>4, <1>5, <1>8 DEF Contract!Extend, RenewLease
<1> QED BY <1>9

LEMMA ContractRelease ==
    ASSUME LeaseInv, NEW w \in Worker, ReleaseLease(w)
    PROVE  UNCHANGED Contract!vars \/ \E s \in Session : Contract!GiveUp(s)
<1>0. PICK s \in Session : s = held[w].s
  BY DEF ReleaseLease, LeaseInv, TypeInv, TypeOK, Targets
<1>1. CASE sessions' = sessions
  BY <1>1, ContractStutter DEF ReleaseLease
<1>2. CASE sessions' # sessions
  <2>1. PICK t \in ReadClock :
          /\ leaseHeldAt(sessions[s], held[w].lease, t)
          /\ sessions' = [sessions EXCEPT ![s] = withLease(@, 0, 0)]
    BY <1>0, <1>2 DEF ReleaseLease
  <2>2. sessions \in [Session -> State] /\ sessions[s] \in State
    BY DEF LeaseInv, TypeInv, TypeOK
  <2>3. sessions[s].lease # 0
    BY <2>1 DEF leaseHeldAt
  <2>4. sessions' = [sessions EXCEPT ![s] = withLease(sessions[s], 0, 0)]
    BY <2>1
  <2>5. withLease(sessions[s], 0, 0).lease = 0 /\ withLease(sessions[s], 0, 0).expires = 0
    BY <2>2, WithLeaseFacts
  <2>6. /\ [r \in Session |-> sessions'[r].lease]
             = [[r \in Session |-> sessions[r].lease] EXCEPT ![s] = 0]
        /\ [r \in Session |-> sessions'[r].expires]
             = [[r \in Session |-> sessions[r].expires] EXCEPT ![s] = 0]
    BY <2>2, <2>4, <2>5
  <2>7. Contract!GiveUp(s)
    BY <2>2, <2>3, <2>6 DEF Contract!GiveUp, ReleaseLease
  <2> QED BY <2>7
<1> QED BY <1>1, <1>2

LEMMA ContractStep == LeaseInv /\ [Next]_vars => [Contract!Next]_Contract!vars
<1> SUFFICES ASSUME LeaseInv, [Next]_vars PROVE [Contract!Next]_Contract!vars
  OBVIOUS
<1>1. CASE Tick
  BY <1>1 DEF Tick, Contract!Next, Contract!Tick
<1>2. ASSUME sessions' = sessions, UNCHANGED <<now, issued>>
      PROVE  UNCHANGED Contract!vars
  BY <1>2, ContractStutter
<1>3. ASSUME NEW s \in Session, CreateSession(s) PROVE UNCHANGED Contract!vars
  <2>1. sessions[s].version = 0
    BY <1>3 DEF CreateSession, Exists, LeaseInv, TypeInv, TypeOK, State
  <2>2. sessions[s].lease = 0 /\ sessions[s].expires = 0
    BY <2>1 DEF LeaseInv, AbsentFree
  <2>3. Created(now).lease = 0 /\ Created(now).expires = 0
    BY DEF Created, Absent
  <2> QED BY <1>3, <2>2, <2>3, ContractStutter
          DEF CreateSession, LeaseInv, TypeInv, TypeOK
<1>4. ASSUME NEW w \in Worker,
             \/ \E mode \in ClaimMode : Claim(w, mode)
             \/ RenewLease(w) \/ ReleaseLease(w)
      PROVE  [Contract!Next]_Contract!vars
  BY <1>4, ContractClaim, ContractRenew, ContractRelease, Zenon DEF Contract!Next
<1>5. ASSUME NEW a \in Actor,
             CallStart(a) \/ \E s \in Session : StartInteractive(a, s)
      PROVE  UNCHANGED Contract!vars
  BY <1>2, <1>5, CallStartForm DEF Start
<1>6. ASSUME NEW a \in Actor, Crash(a) PROVE UNCHANGED Contract!vars
  BY <1>2, <1>6 DEF Crash
<1>7. ASSUME NEW a \in Actor, CallStep(a) PROVE UNCHANGED Contract!vars
  <2>1. CASE Cas(a)
    BY <2>1, CasMoves, ContractStutter DEF Cas
  <2>2. CASE ~Cas(a)
    BY <1>2, <1>7, <2>2
       DEF CallStep, Load, Reload, NormalizePeek, Normalize, CreateRuntimeHandle
  <2> QED BY <2>1, <2>2
<1>8. CASE UNCHANGED vars
  BY <1>2, <1>8 DEF vars
<1>9. Client \subseteq Actor
  BY DEF Actor
<1> QED BY <1>1, <1>3, <1>4, <1>5, <1>6, <1>7, <1>8, <1>9, Zenon DEF Next

(* The session store with all its concurrent callers implements the lease  *)
(* contract, for any number of sessions, workers and clients.              *)
THEOREM ImplementsLeaseContract == Spec => LeaseContractHolds
<1>1. Init => Contract!Init
  BY ContractInit
<1> QED BY <1>1, ContractStep, LeaseInvariant, PTL
        DEF Spec, LeaseContractHolds, Contract!Spec

----------------------------------------------------------------------------
(* Recovery: handles go with the session.                                  *)

InFlight == {"in_flight", "interrupted"}

(* A recovery that will reconcile handles wants to write a record that is  *)
(* out of flight; a call that only marks the session reconciles nothing.   *)
RecoveryOK(c) ==
    c.reconcile => /\ c.pc # "load"
                   /\ c.pc \in {"reload", "cas"} => c.next.exec \notin InFlight

RecoveryInv == TypeInv /\ \A a \in Actor : RecoveryOK(calls[a])

(* What the operations on a record do to its execution state.              *)
LEMMA ExecFacts ==
    ASSUME NEW cur \in State, NEW next \in State, NEW l \in Nat
    PROVE  /\ mergeSessionUpdate(cur, next, l).exec = next.exec
           /\ stored(cur, next).exec = next.exec
           /\ [next EXCEPT !.version = @ + 1].exec = next.exec
           /\ Normalized(next).exec \notin InFlight
           /\ Normalized(next) = next => next.exec \notin InFlight
<1>1. mergeSessionUpdate(cur, next, l).exec = next.exec
  BY DEF mergeSessionUpdate, State
<1>2. stored(cur, next).exec = next.exec /\ [next EXCEPT !.version = @ + 1].exec = next.exec
  BY DEF stored, State
<1>3. Normalized(next).exec \notin InFlight
  BY DEF Normalized, State, InFlight
<1> QED BY <1>1, <1>2, <1>3

LEMMA NoCallRecovery == RecoveryOK(NoCall)
BY DEF RecoveryOK, NoCall

(* Only the record of the actor that steps can go wrong.                   *)
LEMMA RecoveryFrame ==
    ASSUME RecoveryInv, TypeInv', NEW a \in Actor, NEW d,
           calls' = [calls EXCEPT ![a] = d], RecoveryOK(d)
    PROVE  RecoveryInv'
<1>1. calls \in [Actor -> Call]
  BY DEF RecoveryInv, TypeInv, TypeOK
<1>2. \A b \in Actor : calls'[b] = IF b = a THEN d ELSE calls[b]
  BY <1>1
<1>3. \A b \in Actor : RecoveryOK(calls'[b])
  BY <1>2, Zenon DEF RecoveryInv
<1> QED BY <1>3 DEF RecoveryInv

LEMMA LoadRecovery ==
    ASSUME RecoveryInv, TypeInv', NEW a \in Actor, Load(a)
    PROVE  RecoveryInv'
<1> DEFINE c == calls[a]
           st == sessions[c.s]
<1>1. c \in Call /\ RecoveryOK(c) /\ c.pc = "load"
  BY DEF RecoveryInv, TypeInv, TypeOK, Load
<1>2. ~c.reconcile
  BY <1>1 DEF RecoveryOK
<1>3. CASE Return(a)
  BY <1>3, NoCallRecovery, RecoveryFrame DEF Return
<1>4. ASSUME NEW p, NEW n, NEW t,
             calls' = [calls EXCEPT ![a] = [c EXCEPT !.pc = p, !.next = n, !.at = t]]
      PROVE  RecoveryInv'
  <2> DEFINE d == [c EXCEPT !.pc = p, !.next = n, !.at = t]
  <2>1. d.reconcile = c.reconcile
    BY <1>1 DEF Call
  <2>2. RecoveryOK(d)
    <3> HIDE DEF d
    <3> QED BY <1>2, <2>1 DEF RecoveryOK
  <2> HIDE DEF d
  <2> QED BY <1>4, <2>2, RecoveryFrame DEF d
<1> QED BY <1>3, <1>4 DEF Load

LEMMA ReloadRecovery ==
    ASSUME RecoveryInv, TypeInv', NEW a \in Actor, Reload(a)
    PROVE  RecoveryInv'
<1> DEFINE c == calls[a]
           st == sessions[c.s]
           m == mergeSessionUpdate(st, c.next, c.fence)
           d == [c EXCEPT !.pc = "cas", !.next = m]
<1>1. /\ c \in Call /\ RecoveryOK(c) /\ c.pc = "reload"
      /\ st \in State /\ c.next \in State /\ c.fence \in Nat
  BY DEF RecoveryInv, TypeInv, TypeOK, Targets, Reload, Call
<1>2. m.exec = c.next.exec
  BY <1>1, ExecFacts
<1>3. Return(a) \/ calls' = [calls EXCEPT ![a] = d]
  BY DEF Reload
<1> HIDE DEF m
<1>4. d.reconcile = c.reconcile /\ d.pc = "cas" /\ d.next = m
  BY <1>1 DEF Call
<1>5. RecoveryOK(d)
  <2> HIDE DEF d
  <2> QED BY <1>1, <1>2, <1>4 DEF RecoveryOK
<1> HIDE DEF d
<1>6. CASE Return(a)
  BY <1>6, NoCallRecovery, RecoveryFrame DEF Return
<1>7. CASE calls' = [calls EXCEPT ![a] = d]
  BY <1>5, <1>7, RecoveryFrame
<1> QED BY <1>3, <1>6, <1>7

LEMMA CasRecovery ==
    ASSUME RecoveryInv, TypeInv', NEW a \in Actor, Cas(a)
    PROVE  RecoveryInv'
<1> DEFINE c == calls[a]
           d == [c EXCEPT !.pc = "reload", !.tries = @ + 1]
<1>1. c \in Call /\ RecoveryOK(c) /\ c.pc = "cas"
  BY DEF RecoveryInv, TypeInv, TypeOK, Cas
<1>2. Return(a) \/ calls' = [calls EXCEPT ![a] = d]
  BY DEF Cas
<1>3. d.reconcile = c.reconcile /\ d.pc = "reload" /\ d.next = c.next
  BY <1>1 DEF Call
<1>4. RecoveryOK(d)
  <2> HIDE DEF d
  <2> QED BY <1>1, <1>3 DEF RecoveryOK
<1> HIDE DEF d
<1>5. CASE Return(a)
  BY <1>5, NoCallRecovery, RecoveryFrame DEF Return
<1>6. CASE calls' = [calls EXCEPT ![a] = d]
  BY <1>4, <1>6, RecoveryFrame
<1> QED BY <1>2, <1>5, <1>6

LEMMA NormalizeRecovery ==
    ASSUME RecoveryInv, TypeInv', NEW a \in Actor, Normalize(a)
    PROVE  RecoveryInv'
<1> DEFINE c == calls[a]
           st == sessions[c.s]
           next == Normalized(st)
           bumped == [next EXCEPT !.version = @ + 1]
<1>1. c \in Call /\ st \in State
  BY DEF RecoveryInv, TypeInv, TypeOK, Targets, Normalize
<1>2. next \in State
  BY <1>1, NormalizedFacts
<1>3. next.exec \notin InFlight
  BY <1>1, ExecFacts
<1>4. bumped.exec \notin InFlight
  <2> HIDE DEF next
  <2> QED BY <1>2, <1>3, ExecFacts
<1>5. CASE Return(a)
  BY <1>5, NoCallRecovery, RecoveryFrame DEF Return
<1>6. CASE ~Return(a)
  <2>1. PICK t \in ReadClock :
          calls' = [calls EXCEPT ![a] = [c EXCEPT
                 !.fence = st.lease,
                 !.pc = IF st.lease = NoLease THEN "cas" ELSE "reload",
                 !.next = IF st.lease = NoLease THEN bumped ELSE next,
                 !.at = t]]
    BY <1>6 DEF Normalize
  <2> HIDE DEF next, bumped
  <2> DEFINE l == st.lease
             p == IF l = NoLease THEN "cas" ELSE "reload"
             n == IF l = NoLease THEN bumped ELSE next
             d == [c EXCEPT !.fence = l, !.pc = p, !.next = n, !.at = t]
  <2>2. calls' = [calls EXCEPT ![a] = d]
    BY <2>1
  <2>3. p # "load" /\ n.exec \notin InFlight
    BY <1>3, <1>4
  <2> HIDE DEF l, p, n
  <2>4. d.pc = p /\ d.next = n
    BY <1>1 DEF Call
  <2> HIDE DEF d
  <2>5. RecoveryOK(d)
    BY <2>3, <2>4 DEF RecoveryOK
  <2> QED BY <2>2, <2>5, RecoveryFrame
<1> QED BY <1>5, <1>6

LEMMA OtherRecovery ==
    ASSUME RecoveryInv, TypeInv', NEW a \in Actor,
           \/ CallStart(a) \/ \E s \in Session : StartInteractive(a, s)
           \/ Crash(a) \/ NormalizePeek(a) \/ CreateRuntimeHandle(a)
    PROVE  RecoveryInv'
<1>1. CASE CallStart(a) \/ \E s \in Session : StartInteractive(a, s)
  <2>1. PICK op \in Op, pc \in {"load", "peek", "open"}, s \in Session,
             t \in ReadClock, step \in Step \cup {NoStep} :
          Start(a, op, pc, s, t, step)
    BY <1>1, CallStartForm
  <2> DEFINE d == [NoCall EXCEPT !.op = op, !.pc = pc, !.s = s,
                                 !.lease = LeaseOf(a), !.fence = LeaseOf(a),
                                 !.at = t, !.step = step]
  <2>2. calls' = [calls EXCEPT ![a] = d]
    BY <2>1 DEF Start
  <2>3. d.reconcile = FALSE
    BY DEF NoCall
  <2> HIDE DEF d
  <2>4. RecoveryOK(d)
    BY <2>3 DEF RecoveryOK
  <2> QED BY <2>2, <2>4, RecoveryFrame
<1>2. CASE NormalizePeek(a)
  <2> DEFINE st == sessions[calls[a].s]
             r == st.exec \in {"in_flight", "interrupted"} \/ st.phase = "recover"
             d == [calls[a] EXCEPT !.pc = "norm", !.reconcile = r]
  <2>1. calls' = [calls EXCEPT ![a] = d]
    BY <1>2 DEF NormalizePeek
  <2>2. d.pc = "norm"
    BY DEF RecoveryInv, TypeInv, TypeOK, Call
  <2> HIDE DEF d
  <2>3. RecoveryOK(d)
    BY <2>2 DEF RecoveryOK
  <2> QED BY <2>1, <2>3, RecoveryFrame
<1>3. CASE Crash(a) \/ CreateRuntimeHandle(a)
  BY <1>3, NoCallRecovery, RecoveryFrame DEF Crash, CreateRuntimeHandle, Return
<1> QED BY <1>1, <1>2, <1>3

LEMMA RecoveryStep == RecoveryInv /\ [Next]_vars => RecoveryInv'
<1> SUFFICES ASSUME RecoveryInv, [Next]_vars PROVE RecoveryInv'
  OBVIOUS
<1>1. TypeInv'
  BY TypeStep DEF RecoveryInv
<1>2. CASE calls' = calls
  BY <1>1, <1>2, Zenon DEF RecoveryInv
<1>3. ASSUME NEW s \in Session, CreateSession(s) PROVE calls' = calls
  BY <1>3 DEF CreateSession
<1>4. ASSUME NEW w \in Worker,
             \/ \E mode \in ClaimMode : Claim(w, mode)
             \/ RenewLease(w) \/ ReleaseLease(w)
      PROVE  calls' = calls
  BY <1>4 DEF Claim, RenewLease, ReleaseLease
<1>5. CASE Tick \/ UNCHANGED vars
  BY <1>2, <1>5 DEF Tick, vars
<1>6. ASSUME NEW a \in Actor,
             \/ CallStart(a) \/ \E s \in Session : StartInteractive(a, s)
             \/ CallStep(a) \/ Crash(a)
      PROVE  RecoveryInv'
  BY <1>1, <1>6, LoadRecovery, ReloadRecovery, CasRecovery, NormalizeRecovery,
     OtherRecovery DEF CallStep
<1>7. Client \subseteq Actor
  BY DEF Actor
<1> QED BY <1>2, <1>3, <1>4, <1>5, <1>6, <1>7, Zenon DEF Next

(* The handles a step invalidates belong to the session it reconciles, and *)
(* that session is out of flight once the step is done.                    *)
HandlesFollow ==
    \A h \in Handle :
       handles[h].status = "active" /\ handles'[h].status = "invalidated"
         => sessions'[handles[h].s].exec \notin InFlight

LEMMA ReconciledOnly ==
    ASSUME TypeInv, NEW s \in Session, handles' = Reconciled(s),
           sessions'[s].exec \notin InFlight
    PROVE  HandlesFollow
<1> SUFFICES ASSUME NEW h \in Handle,
                    handles[h].status = "active",
                    handles'[h].status = "invalidated"
             PROVE  sessions'[handles[h].s].exec \notin InFlight
  BY DEF HandlesFollow
<1>1. handles'[h] # handles[h]
  OBVIOUS
<1>2. handles[h] = [s |-> s, status |-> "active"]
  BY <1>1, Zenon DEF Reconciled
<1> QED BY <1>2

LEMMA HandlesStill ==
    ASSUME handles' = handles
    PROVE  HandlesFollow
BY DEF HandlesFollow

LEMMA CasHandles ==
    ASSUME Durable, RecoveryInv, NEW a \in Actor, Cas(a)
    PROVE  HandlesFollow
<1> DEFINE c == calls[a]
<1>1. /\ c \in Call /\ RecoveryOK(c) /\ c.pc = "cas" /\ c.s \in Session
      /\ sessions[c.s] \in State /\ c.next \in State
  BY DEF RecoveryInv, TypeInv, TypeOK, Targets, Cas, Call
<1>2. CASE handles' = handles
  BY <1>2, HandlesStill
<1>3. CASE handles' # handles
  <2>1. /\ c.reconcile /\ handles' = Reconciled(c.s)
        /\ sessions' = [sessions EXCEPT ![c.s] = stored(@, c.next)]
    BY <1>3, Zenon DEF Cas
  <2>2. c.next.exec \notin InFlight
    BY <1>1, <2>1 DEF RecoveryOK
  <2>3. sessions'[c.s] = stored(sessions[c.s], c.next)
    BY <1>1, <2>1 DEF RecoveryInv, TypeInv, TypeOK
  <2>4. sessions'[c.s].exec \notin InFlight
    BY <1>1, <2>2, <2>3, ExecFacts
  <2> QED BY <1>1, <2>1, <2>4, ReconciledOnly DEF RecoveryInv
<1> QED BY <1>2, <1>3

LEMMA NormalizeHandles ==
    ASSUME Durable, RecoveryInv, NEW a \in Actor, Normalize(a)
    PROVE  HandlesFollow
<1> DEFINE c == calls[a]
<1>1. c.s \in Session /\ sessions[c.s] \in State
  BY DEF RecoveryInv, TypeInv, TypeOK, Targets, Normalize
<1>2. CASE handles' = handles
  BY <1>2, HandlesStill
<1>3. CASE handles' # handles
  <2>1. /\ handles' = Reconciled(c.s) /\ Normalized(sessions[c.s]) = sessions[c.s]
        /\ sessions' = sessions
    BY <1>3, Zenon DEF Normalize
  <2>2. sessions'[c.s].exec \notin InFlight
    BY <1>1, <2>1, ExecFacts
  <2> QED BY <1>1, <2>1, <2>2, ReconciledOnly DEF RecoveryInv
<1> QED BY <1>2, <1>3

(* With the transactional runner a handle is only ever invalidated by the  *)
(* step that takes its session out of flight, or that found it so: the     *)
(* handles of a recovery whose session write is refused stay active.       *)
THEOREM HandlesGoWithTheSession ==
    ASSUME Durable PROVE Spec => ReconcileAtomic
<1>1. Init => RecoveryInv
  <2> SUFFICES ASSUME Init PROVE RecoveryInv
    OBVIOUS
  <2>1. \A a \in Actor : calls[a] = NoCall
    BY DEF Init
  <2> QED BY <2>1, TypeInit, NoCallRecovery DEF RecoveryInv
<1>2. RecoveryInv /\ [Next]_vars => HandlesFollow
  <2> SUFFICES ASSUME RecoveryInv, [Next]_vars PROVE HandlesFollow
    OBVIOUS
  <2>1. CASE handles' = handles
    BY <2>1, HandlesStill
  <2>2. ASSUME NEW s \in Session, CreateSession(s) PROVE handles' = handles
    BY <2>2 DEF CreateSession
  <2>3. ASSUME NEW w \in Worker,
               \/ \E mode \in ClaimMode : Claim(w, mode)
               \/ RenewLease(w) \/ ReleaseLease(w)
        PROVE  handles' = handles
    BY <2>3 DEF Claim, RenewLease, ReleaseLease
  <2>4. CASE Tick \/ UNCHANGED vars
    BY <2>1, <2>4 DEF Tick, vars
  <2>5. ASSUME NEW a \in Actor,
               CallStart(a) \/ \E s \in Session : StartInteractive(a, s)
        PROVE  handles' = handles
    BY <2>5, CallStartForm DEF Start
  <2>6. ASSUME NEW a \in Actor, CreateRuntimeHandle(a) PROVE HandlesFollow
    BY <2>6 DEF CreateRuntimeHandle, HandlesFollow, RecoveryInv, TypeInv, TypeOK
  <2>7. ASSUME NEW a \in Actor, CallStep(a) \/ Crash(a) PROVE HandlesFollow
    <3>1. CASE Load(a) \/ Reload(a) \/ NormalizePeek(a) \/ Crash(a)
      BY <2>1, <3>1 DEF Load, Reload, NormalizePeek, Crash
    <3> QED BY <2>6, <2>7, <3>1, CasHandles, NormalizeHandles DEF CallStep
  <2>8. Client \subseteq Actor
    BY DEF Actor
  <2> QED BY <2>1, <2>2, <2>3, <2>4, <2>5, <2>7, <2>8, Zenon DEF Next
<1>3. Spec => []RecoveryInv
  BY <1>1, RecoveryStep, PTL DEF Spec
<1>4. Spec => [][HandlesFollow]_vars
  BY <1>2, <1>3, PTL DEF Spec
<1> QED BY <1>4, PTL DEF ReconcileAtomic, HandlesFollow, InFlight
=============================================================================
