----------------------- MODULE BlockedRuntime_proofs -----------------------
(***************************************************************************)
(* Proofs about BlockedRuntime, for any callers, workers and runtime ids   *)
(* and any number of versions, leases and failing record writes: types, a  *)
(* blocked session is one the reads report, and a blocked runtime is       *)
(* resolved once.                                                          *)
(***************************************************************************)
EXTENDS BlockedRuntime, TLAPS

----------------------------------------------------------------------------
(* The inductive invariant.                                                *)

(* The record of a session with the id of its blocked runtime.             *)
BState == [phase : Phase, exec : ExecutionState, current : Step \cup {NoStep},
           inFlight : Step \cup {NoStep}, interrupted : BOOLEAN, pending : Nat,
           lease : Nat, expires : Nat, started : Nat, version : Nat,
           created : Nat, blocked : Runtime \cup {NoRuntime}]

Status == {"none", "pending"} \cup Answered \cup Resolved

Call == [op : {"none", "create", "respond", "resolve", "abort"},
         pc : {"idle", "session", "record", "rollback"},
         r : Runtime \cup {NoRuntime}, rec : Status,
         before : BState \cup {"none"}, version : Nat]

Run == [pc : {"idle", "mark", "marking", "read", "finish", "interrupting"},
        lease : Nat, copy : BState \cup {"none"}]

(* A run between a read of the session and its write: what the mark and    *)
(* the interruption are about to write is not a blocked session, whatever  *)
(* they read.                                                              *)
Marking == {"marking", "interrupting"}

RunFrame(k) ==
    /\ k.pc \in Marking \cup {"finish"} => k.copy \in BState
    /\ k.pc \in Marking => k.copy.exec # "blocked"

Types ==
    /\ session \in BState
    /\ records \in [Runtime -> Status]
    /\ calls \in [Caller -> Call]
    /\ runs \in [Actor -> Run]
    /\ held \in [Worker -> Nat]
    /\ issued \in Nat
    /\ done \in [Runtime -> Nat]

(* The stack frames of calls and runs have the values their pc needs.      *)
Frames ==
    /\ \A c \in Caller :
         /\ calls[c].pc = "record" => calls[c].r \in Runtime /\ calls[c].rec # "none"
         /\ calls[c].pc = "rollback" => calls[c].op \in {"create", "resolve"}
         /\ calls[c].op \in {"create", "resolve", "abort"}
              => calls[c].before \in BState /\ calls[c].rec # "none"
    /\ \A a \in Actor : RunFrame(runs[a])

(* A Create in progress owns its id: there is no record, nobody else works *)
(* on the id and the session is not blocked on it before it is written.    *)
Creating ==
    \A c \in Caller : calls[c].op = "create" =>
        /\ calls[c].r \in Runtime
        /\ calls[c].before.exec # "blocked"
        /\ records[calls[c].r] = "none"
        /\ \A d \in Caller \ {c} : calls[d].r # calls[c].r
        /\ calls[c].pc = "session" => ~requireCurrentBlockedRuntime(session, calls[c].r)

(* A Resume or Abort in progress read a session that was blocked on its    *)
(* id; if the session has not been written since, it still is.             *)
Resolving ==
    \A c \in Caller : calls[c].op = "resolve" =>
        /\ calls[c].r \in Runtime
        /\ requireCurrentBlockedRuntime(calls[c].before, calls[c].r)
        /\ records[calls[c].r] # "none"
        /\ calls[c].pc = "session" =>
             /\ calls[c].before.version <= session.version
             /\ calls[c].before.version = session.version
                  => requireCurrentBlockedRuntime(session, calls[c].r)

(* Caller c has freed the session of r and has not written the record yet. *)
Past(c, r) == /\ calls[c].op = "resolve" /\ calls[c].r = r
              /\ calls[c].pc \in {"record", "rollback"}

(* While a session is blocked on r nobody has freed it; of those who free  *)
(* it one at a time gets past the session.                                 *)
OneResolver ==
    \A r \in Runtime :
        /\ done[r] <= 1
        /\ done[r] > 0 => records[r] # "none"
        /\ requireCurrentBlockedRuntime(session, r)
             => done[r] = 0 /\ \A c \in Caller : ~Past(c, r)
        /\ \A c \in Caller : Past(c, r) => done[r] = 0
        /\ \A c, d \in Caller : Past(c, r) /\ Past(d, r) => c = d

(* A blocked session has an id, and its record unless its Create is still  *)
(* in progress or could not be undone.                                     *)
Recorded ==
    session.exec = "blocked" =>
        /\ session.blocked \in Runtime
        /\ \/ session.blocked \in stranded
           \/ \E c \in Caller : calls[c].op = "create" /\ calls[c].r = session.blocked
           \/ records[session.blocked] # "none"

BlockedInv == Types /\ Frames /\ Creating /\ Resolving /\ OneResolver /\ Recorded

----------------------------------------------------------------------------
(* The values the calls compute.                                           *)

LEMMA NoCallType == NoCall \in Call
BY DEF NoCall, Call, Status

LEMMA NoRunType == NoRun \in Run /\ NoRun.pc = "idle"
BY DEF NoRun, Run, NoLease

LEMMA CreatedType == Created(Now) \in State /\ Created(Now).exec = "idle"
<1>1. Absent \in State /\ Absent.exec = "idle"
  BY NoStepAssumption DEF Absent, State, Phase, ExecutionState, NoLease
<1>2. PICK a \in State : a = Absent
  BY <1>1
<1>3. [a EXCEPT !.version = 1, !.created = 1] \in State
      /\ [a EXCEPT !.version = 1, !.created = 1].exec = a.exec
  BY DEF State
<1> QED BY <1>1, <1>2, <1>3 DEF Created, Now

LEMMA NewSessionFacts == NewSession \in BState /\ NewSession.exec = "idle"
<1>1. PICK st \in State : st = Created(Now) /\ st.exec = "idle"
  BY CreatedType
<1> DEFINE s == [phase |-> st.phase, exec |-> st.exec, current |-> st.current,
                 inFlight |-> st.inFlight, interrupted |-> st.interrupted,
                 pending |-> st.pending, lease |-> st.lease, expires |-> st.expires,
                 started |-> st.started, version |-> st.version,
                 created |-> st.created, blocked |-> NoRuntime]
<1>2. NewSession = [f \in DOMAIN st \cup {"blocked"} |->
                      IF f = "blocked" THEN NoRuntime ELSE st[f]]
  BY <1>1 DEF NewSession
<1>3. DOMAIN st = {"phase", "exec", "current", "inFlight", "interrupted", "pending",
                   "lease", "expires", "started", "version", "created"}
  BY DEF State
<1>4. NewSession = s
  BY <1>2, <1>3
<1>5. s \in BState
  BY DEF BState, State
<1> QED BY <1>1, <1>4, <1>5

(* The session as Create, Resume and AbortBlockedRuntime want it.          *)
Wanted(st, r, e) ==
    [setCurrentBlockedRuntime(st, r) EXCEPT !.exec = e, !.version = @ + 1]

LEMMA WantedFacts ==
    ASSUME NEW st \in BState, NEW r \in Runtime \cup {NoRuntime}, NEW e \in ExecutionState
    PROVE  /\ Wanted(st, r, e) \in BState
           /\ Wanted(st, r, e).exec = e /\ Wanted(st, r, e).blocked = r
           /\ Wanted(st, r, e).version = st.version + 1
<1> DEFINE v == st.version + 1
           n == [st EXCEPT !.blocked = r, !.exec = e, !.version = v]
<1>1. v \in Nat
  BY DEF BState
<1>2. Wanted(st, r, e) = n
  BY DEF Wanted, setCurrentBlockedRuntime, BState
<1> HIDE DEF v
<1>3. n \in BState /\ n.exec = e /\ n.blocked = r /\ n.version = v
  BY <1>1 DEF BState
<1> QED BY <1>2, <1>3 DEF v

LEMMA AbortedFacts ==
    ASSUME NEW st \in BState
    PROVE  aborted(st) \in BState /\ aborted(st).exec = "idle"
<1> DEFINE v == st.version + 1
           n == [st EXCEPT !.blocked = NoRuntime, !.phase = "aborted", !.exec = "idle",
                           !.inFlight = NoStep, !.pending = 0, !.lease = 0,
                           !.expires = 0, !.version = v]
<1>1. v \in Nat
  BY DEF BState
<1>2. aborted(st) = n
  BY DEF aborted, setCurrentBlockedRuntime, BState, NoLease
<1> HIDE DEF v
<1>3. n \in BState /\ n.exec = "idle"
  BY <1>1 DEF BState, Phase, ExecutionState
<1> QED BY <1>2, <1>3

LEMMA VersionFacts ==
    ASSUME NEW st \in BState, NEW v \in Nat
    PROVE  LET n == [st EXCEPT !.version = v]
           IN  /\ n \in BState /\ n.version = v
               /\ n.exec = st.exec /\ n.blocked = st.blocked
BY DEF BState

(* An accepted write is one version on.                                    *)
LEMMA UpdateFacts ==
    ASSUME Types, NEW next \in BState, Update(next)
    PROVE  /\ session' \in BState /\ session'.version = session.version + 1
           /\ session'.exec = next.exec /\ session'.blocked = next.blocked
<1>1. session.version + 1 \in Nat
  BY DEF Types, BState
<1> QED BY <1>1, VersionFacts DEF Update

LEMMA LeaseWriteFacts ==
    ASSUME NEW st \in BState, NEW l \in Nat, NEW e \in Nat
    PROVE  /\ withLease(st, l, e) \in BState
           /\ withLease(st, l, e).version = st.version + 1
           /\ withLease(st, l, e).exec = st.exec
           /\ withLease(st, l, e).blocked = st.blocked
<1> DEFINE v == st.version + 1
           n == [st EXCEPT !.lease = l, !.expires = e, !.version = v]
<1>1. v \in Nat /\ withLease(st, l, e) = n
  BY DEF withLease, BState
<1> HIDE DEF v
<1>2. n \in BState /\ n.version = v /\ n.exec = st.exec /\ n.blocked = st.blocked
  BY <1>1 DEF BState
<1> QED BY <1>1, <1>2 DEF v

(* mergeSessionUpdate takes everything a run wants but version and lease.  *)
LEMMA MergeFacts ==
    ASSUME NEW cur \in BState, NEW desired \in BState, NEW l \in Nat
    PROVE  /\ mergeSessionUpdate(cur, desired, l) \in BState
           /\ mergeSessionUpdate(cur, desired, l).version = cur.version + 1
           /\ mergeSessionUpdate(cur, desired, l).exec = desired.exec
<1> DEFINE same == cur.lease # NoLease /\ (l = NoLease \/ cur.lease = l)
           sa == IF desired.started = 0 THEN cur.started ELSE desired.started
           le == IF same THEN cur.lease ELSE desired.lease
           ex == IF same THEN cur.expires ELSE desired.expires
           ve == cur.version + 1
           rec == [desired EXCEPT !.version = ve, !.created = cur.created,
                                  !.started = sa, !.lease = le, !.expires = ex]
<1>1. mergeSessionUpdate(cur, desired, l) = rec
  BY DEF mergeSessionUpdate, BState
<1>2. /\ sa \in Nat /\ le \in Nat /\ ex \in Nat /\ ve \in Nat
      /\ cur.created \in Nat
  BY DEF BState
<1> HIDE DEF sa, le, ex, ve
<1>3. rec \in BState /\ rec.version = ve /\ rec.exec = desired.exec
  BY <1>2 DEF BState
<1> QED BY <1>1, <1>3 DEF ve

----------------------------------------------------------------------------
(* Session writes that block nobody.                                       *)

(* The session moves a version on, or keeps what concerns blocking, and is *)
(* blocked afterwards only if it was, and on the same id.                  *)
Gentle ==
    /\ session' \in BState
    /\ \/ session'.version > session.version
       \/ /\ session'.version = session.version
          /\ session'.exec = session.exec /\ session'.blocked = session.blocked
    /\ session'.exec = "blocked"
         => session.exec = "blocked" /\ session'.blocked = session.blocked

LEMMA UnchangedGentle == ASSUME Types, session' = session PROVE Gentle
BY DEF Types, Gentle

LEMMA UpdateGentle ==
    ASSUME Types, NEW next \in BState, next.exec # "blocked", Update(next) PROVE Gentle
<1>1. session.version \in Nat
  BY DEF Types, BState
<1> QED BY <1>1, UpdateFacts DEF Gentle

LEMMA GentleKeeps ==
    ASSUME BlockedInv, Gentle, NEW r, requireCurrentBlockedRuntime(session', r)
    PROVE  requireCurrentBlockedRuntime(session, r)
BY DEF Gentle, requireCurrentBlockedRuntime, currentBlockedRuntimeID

(* What a gentle write leaves of the promise a resolving call relies on.   *)
LEMMA GentleResolving ==
    ASSUME BlockedInv, Gentle, NEW st \in BState, NEW r,
           st.version <= session.version,
           st.version = session.version => requireCurrentBlockedRuntime(session, r)
    PROVE  /\ st.version <= session'.version
           /\ st.version = session'.version => requireCurrentBlockedRuntime(session', r)
<1>1. st.version \in Nat /\ session.version \in Nat /\ session'.version \in Nat
  BY DEF BlockedInv, Types, Gentle, BState
<1> QED BY <1>1 DEF Gentle, requireCurrentBlockedRuntime, currentBlockedRuntimeID

LEMMA GentleStep ==
    ASSUME BlockedInv, Gentle, UNCHANGED <<records, calls, done, stranded>>,
           runs' \in [Actor -> Run], held' \in [Worker -> Nat], issued' \in Nat,
           \A a \in Actor : RunFrame(runs'[a])
    PROVE  BlockedInv'
<1>1. Types'
  BY DEF BlockedInv, Types, Gentle
<1>2. Frames'
  BY DEF BlockedInv, Frames
<1>3. Creating'
  BY GentleKeeps DEF BlockedInv, Creating
<1>4. Resolving'
  <2> SUFFICES ASSUME NEW c \in Caller, calls[c].op = "resolve", calls[c].pc = "session"
               PROVE  /\ calls[c].before.version <= session'.version
                      /\ calls[c].before.version = session'.version
                           => requireCurrentBlockedRuntime(session', calls[c].r)
    BY DEF BlockedInv, Resolving
  <2>1. calls[c].before \in BState
    BY DEF BlockedInv, Frames
  <2> QED BY <2>1, GentleResolving DEF BlockedInv, Resolving
<1>5. OneResolver'
  BY GentleKeeps DEF BlockedInv, OneResolver, Past
<1>6. Recorded'
  BY DEF BlockedInv, Recorded, Gentle
<1> QED BY <1>1, <1>2, <1>3, <1>4, <1>5, <1>6 DEF BlockedInv

(* A run of the session ends, or a stack frame of it changes.              *)
LEMMA RunMoves ==
    ASSUME BlockedInv, NEW a \in Actor, NEW k \in Run, RunFrame(k),
           runs' = [runs EXCEPT ![a] = k]
    PROVE  /\ runs' \in [Actor -> Run]
           /\ \A b \in Actor : RunFrame(runs'[b])
BY DEF BlockedInv, Types, Frames

LEMMA LeaseSteps ==
    ASSUME BlockedInv, NEW w \in Worker, Claim(w) \/ Renew(w) \/ LeaseEnds(w)
    PROVE  BlockedInv'
<1>1. /\ session \in BState /\ held \in [Worker -> Nat] /\ issued \in Nat
      /\ Now + 1 \in Nat /\ Now \in Nat /\ NoLease \in Nat /\ 0 \in Nat
      /\ session.version \in Nat
  BY DEF BlockedInv, Types, Now, NoLease, BState
<1>2. /\ UNCHANGED <<records, calls, done, stranded, runs>>
      /\ held' \in [Worker -> Nat] /\ issued' \in Nat
  BY <1>1 DEF Claim, Renew, LeaseEnds
<1>3. Gentle
  <2>1. ASSUME NEW l \in Nat, NEW e \in Nat, session' = withLease(session, l, e)
        PROVE  Gentle
    <3>1. /\ session' \in BState /\ session'.version = session.version + 1
          /\ session'.exec = session.exec /\ session'.blocked = session.blocked
      BY <1>1, <2>1, LeaseWriteFacts
    <3> QED BY <1>1, <3>1 DEF Gentle
  <2>2. ASSUME session' = [session EXCEPT !.expires = Now]
        PROVE  Gentle
    BY <1>1, <2>2 DEF Gentle, BState
  <2>3. CASE Claim(w)
    <3>1. issued + 1 \in Nat /\ session' = withLease(session, issued + 1, Now + 1)
      BY <1>1, <2>3 DEF Claim
    <3> QED BY <1>1, <2>1, <3>1
  <2>4. CASE Renew(w)
    <3>1. held[w] \in Nat /\ session' = withLease(session, held[w], Now + 1)
      BY <1>1, <2>4 DEF Renew
    <3> QED BY <1>1, <2>1, <3>1
  <2>5. CASE LeaseEnds(w)
    <3>1. \/ session' = [session EXCEPT !.expires = Now]
          \/ session' = withLease(session, NoLease, 0)
      BY <2>5 DEF LeaseEnds
    <3> QED BY <1>1, <2>1, <2>2, <3>1
  <2> QED BY <2>3, <2>4, <2>5
<1> QED BY <1>2, <1>3, GentleStep DEF BlockedInv, Types, Frames

(* A run writes a record that is not blocked, under its lease or not, or   *)
(* is refused.                                                             *)
LEMMA PersistGentle ==
    ASSUME Types, NEW a \in Actor, NEW desired \in BState, desired.exec # "blocked",
           persistSessionUpdateAt(a, desired)
    PROVE  Gentle
<1>1. runs[a].lease \in Nat /\ session \in BState /\ session.version \in Nat
  BY DEF Types, Run, BState
<1>2. CASE session' = mergeSessionUpdate(session, desired, runs[a].lease)
  <2>1. /\ session' \in BState /\ session'.version = session.version + 1
        /\ session'.exec # "blocked"
    BY <1>1, <1>2, MergeFacts
  <2> QED BY <1>1, <2>1 DEF Gentle
<1> QED BY <1>2, UnchangedGentle, UpdateGentle DEF persistSessionUpdateAt

LEMMA RunSteps ==
    ASSUME BlockedInv, NEW a \in Actor,
           \/ RunStep(a) \/ markSessionInFlight(a) \/ MarkWritesSession(a)
           \/ ReadAgain(a)
           \/ \E phase \in {"plan", "complete"} : FinishRun(a, phase)
           \/ markSessionInterrupted(a) \/ InterruptWritesSession(a)
    PROVE  BlockedInv'
<1>1. /\ session \in BState /\ runs[a] \in Run
      /\ LeaseOf(a) \in Nat /\ Types
  BY DEF BlockedInv, Types, LeaseOf, NoLease
<1>2. UNCHANGED <<records, calls, done, stranded, held, issued>>
  BY DEF RunStep, markSessionInFlight, MarkWritesSession, ReadAgain, FinishRun,
         markSessionInterrupted, InterruptWritesSession
<1>3. /\ runs' \in [Actor -> Run]
      /\ \A b \in Actor : RunFrame(runs'[b])
  <2>1. CASE runs' = [runs EXCEPT ![a] = NoRun]
    <3>1. RunFrame(NoRun)
      BY NoRunType DEF RunFrame, Marking
    <3> QED BY <2>1, <3>1, RunMoves, NoRunType
  <2>2. CASE RunStep(a)
    <3> DEFINE k == [pc |-> "mark", lease |-> LeaseOf(a), copy |-> "none"]
    <3>1. k \in Run /\ RunFrame(k) /\ runs' = [runs EXCEPT ![a] = k]
      BY <1>1, <2>2 DEF RunStep, Run, RunFrame, Marking
    <3> QED BY <3>1, RunMoves
  <2>3. CASE runs' = [runs EXCEPT ![a].pc = "read"]
    <3> DEFINE k == [runs[a] EXCEPT !.pc = "read"]
    <3>1. k \in Run /\ k.pc = "read"
      BY <1>1 DEF Run
    <3>2. runs' = [runs EXCEPT ![a] = k]
      BY <2>3
    <3> HIDE DEF k
    <3>3. RunFrame(k)
      BY <3>1 DEF RunFrame, Marking
    <3> QED BY <3>1, <3>2, <3>3, RunMoves
  <2>4. ASSUME NEW p \in {"marking", "finish", "interrupting"}, NEW st \in BState,
               p \in Marking => st.exec # "blocked",
               runs' = [runs EXCEPT ![a] = [@ EXCEPT !.pc = p, !.copy = st]]
        PROVE  /\ runs' \in [Actor -> Run]
               /\ \A b \in Actor : RunFrame(runs'[b])
    <3> DEFINE k == [runs[a] EXCEPT !.pc = p, !.copy = st]
    <3>1. k \in Run /\ k.pc = p /\ k.copy = st
      BY <1>1 DEF Run
    <3>2. runs' = [runs EXCEPT ![a] = k]
      BY <2>4
    <3> HIDE DEF k
    <3>3. RunFrame(k)
      BY <2>4, <3>1 DEF RunFrame
    <3> QED BY <3>1, <3>2, <3>3, RunMoves
  <2>5. CASE ReadAgain(a)
    BY <1>1, <2>4, <2>5 DEF ReadAgain, Marking
  <2>6. CASE markSessionInFlight(a)
    <3> DEFINE st == [session EXCEPT !.exec = "in_flight"]
    <3>1. st \in BState /\ st.exec # "blocked"
      BY <1>1 DEF BState, ExecutionState
    <3>2. \/ runs' = [runs EXCEPT ![a] = [@ EXCEPT !.pc = "marking", !.copy = st]]
          \/ runs' = [runs EXCEPT ![a] = NoRun]
      BY <2>6 DEF markSessionInFlight
    <3> HIDE DEF st
    <3> QED BY <2>1, <2>4, <3>1, <3>2
  <2>7. CASE markSessionInterrupted(a)
    <3> DEFINE st == [session EXCEPT !.exec = "interrupted", !.phase = "recover",
                                     !.interrupted = TRUE]
    <3>1. st \in BState /\ st.exec # "blocked"
      BY <1>1 DEF BState, ExecutionState, Phase
    <3>2. runs' = [runs EXCEPT ![a] = [@ EXCEPT !.pc = "interrupting", !.copy = st]]
      BY <2>7 DEF markSessionInterrupted
    <3> HIDE DEF st
    <3> QED BY <2>4, <3>1, <3>2
  <2> QED BY <2>1, <2>2, <2>3, <2>5, <2>6, <2>7
          DEF MarkWritesSession, FinishRun, InterruptWritesSession
<1>4. Gentle
  <2>1. CASE RunStep(a) \/ markSessionInFlight(a) \/ ReadAgain(a) \/ markSessionInterrupted(a)
    BY <1>1, <2>1, UnchangedGentle
       DEF RunStep, markSessionInFlight, ReadAgain, markSessionInterrupted
  <2>2. CASE MarkWritesSession(a) \/ InterruptWritesSession(a)
    <3>1. runs[a].copy \in BState /\ runs[a].copy.exec # "blocked"
      BY <2>2 DEF MarkWritesSession, InterruptWritesSession, BlockedInv, Frames,
                  RunFrame, Marking
    <3> QED BY <1>1, <2>2, <3>1, PersistGentle DEF MarkWritesSession, InterruptWritesSession
  <2>3. ASSUME NEW phase \in {"plan", "complete"}, FinishRun(a, phase) PROVE Gentle
    <3> DEFINE next == [runs[a].copy EXCEPT !.exec = "idle", !.phase = phase]
    <3>1. runs[a].copy \in BState
      BY <2>3 DEF FinishRun, BlockedInv, Frames, RunFrame
    <3>2. next \in BState /\ next.exec # "blocked"
      BY <3>1 DEF BState, ExecutionState, Phase
    <3>3. persistSessionUpdateAt(a, next)
      BY <2>3 DEF FinishRun
    <3> HIDE DEF next
    <3> QED BY <1>1, <3>2, <3>3, PersistGentle
  <2> QED BY <2>1, <2>2, <2>3
<1> QED BY <1>2, <1>3, <1>4, GentleStep DEF BlockedInv, Types

----------------------------------------------------------------------------
(* The calls.                                                              *)

(* Only call c changes, and becomes k.                                     *)
Becomes(c, k) ==
    /\ calls' \in [Caller -> Call]
    /\ calls'[c] = k
    /\ \A d \in Caller \ {c} : calls'[d] = calls[d]

LEMMA SetBecomes ==
    ASSUME BlockedInv, NEW c \in Caller, NEW k \in Call, Set(c, k)
    PROVE  Becomes(c, k)
BY DEF BlockedInv, Types, Set, Becomes

(* A call starts: nothing but its stack frame changes.                     *)
LEMMA StartStep ==
    ASSUME BlockedInv, NEW c \in Caller, NEW k \in Call, Becomes(c, k),
           UNCHANGED <<session, records, runs, held, issued, done, stranded>>,
           calls[c] = NoCall,
           k.pc = "record" => k.r \in Runtime /\ k.rec # "none",
           k.pc # "rollback",
           k.op \in {"create", "resolve", "abort"} => k.before \in BState /\ k.rec # "none",
           k.op = "create" => /\ k.r \in Runtime /\ k.before.exec # "blocked"
                              /\ session.exec # "blocked"
                              /\ records[k.r] = "none"
                              /\ \A d \in Caller : calls[d].r # k.r,
           k.op # "create" => k.r = NoRuntime \/ records[k.r] # "none",
           k.op = "resolve" => /\ k.r \in Runtime /\ k.pc = "session"
                               /\ k.before = session
                               /\ requireCurrentBlockedRuntime(session, k.r)
    PROVE  BlockedInv'
<1>1. Types' /\ Frames'
  BY DEF BlockedInv, Types, Frames, Becomes
<1>2. Creating'
  <2> SUFFICES ASSUME NEW d \in Caller, calls'[d].op = "create"
               PROVE  /\ calls'[d].r \in Runtime
                      /\ calls'[d].before.exec # "blocked"
                      /\ records[calls'[d].r] = "none"
                      /\ \A e \in Caller \ {d} : calls'[e].r # calls'[d].r
                      /\ calls'[d].pc = "session"
                           => ~requireCurrentBlockedRuntime(session, calls'[d].r)
    BY DEF Creating
  <2>1. CASE d = c
    BY <2>1 DEF Becomes, requireCurrentBlockedRuntime
  <2>2. CASE d # c
    <3>1. /\ calls'[d] = calls[d] /\ calls[d].r \in Runtime
          /\ records[calls[d].r] = "none" /\ calls[d].r # NoRuntime
      BY <2>2, RuntimeAssumption DEF Becomes, BlockedInv, Creating
    <3>2. k.r # calls[d].r
      BY <3>1
    <3> QED BY <2>2, <3>1, <3>2 DEF Becomes, BlockedInv, Creating
  <2> QED BY <2>1, <2>2
<1>3. Resolving'
  <2>1. session.version <= session.version
    BY DEF BlockedInv, Types, BState
  <2>2. k.op = "resolve" => records[k.r] # "none"
    BY RuntimeAssumption
  <2> QED BY <2>1, <2>2 DEF BlockedInv, Resolving, Becomes
<1>4. OneResolver'
  <2>1. \A d \in Caller, r \in Runtime : Past(d, r)' => Past(d, r)
    BY DEF Past, Becomes
  <2> QED BY <2>1 DEF BlockedInv, OneResolver
<1>5. Recorded'
  <2>1. \A d \in Caller : calls[d].op = "create" => calls'[d] = calls[d]
    BY DEF Becomes, NoCall
  <2> QED BY <2>1 DEF BlockedInv, Recorded
<1> QED BY <1>1, <1>2, <1>3, <1>4, <1>5 DEF BlockedInv

LEMMA StartSteps ==
    ASSUME BlockedInv, NEW c \in Caller,
           \/ CreateBlockedRuntime(c) \/ RespondBlockedRuntime(c)
           \/ resolveBlockedRuntimeState(c) \/ AbortSession(c)
    PROVE  BlockedInv'
<1>1. /\ UNCHANGED <<session, records, runs, held, issued, done, stranded>>
      /\ calls[c] = NoCall
  BY DEF CreateBlockedRuntime, RespondBlockedRuntime, resolveBlockedRuntimeState,
         AbortSession
<1>2. session \in BState /\ session.version \in Nat /\ records \in [Runtime -> Status]
  BY DEF BlockedInv, Types, BState
<1>3. CASE CreateBlockedRuntime(c)
  <2>1. PICK r \in Unused :
          Set(c, [op |-> "create", pc |-> "session", r |-> r, rec |-> "pending",
                  before |-> session, version |-> session.version])
    BY <1>3 DEF CreateBlockedRuntime
  <2> DEFINE k == [op |-> "create", pc |-> "session", r |-> r, rec |-> "pending",
                   before |-> session, version |-> session.version]
  <2>2. /\ r \in Runtime /\ records[r] = "none"
        /\ \A d \in Caller : calls[d].r # r
    BY <2>1 DEF Unused
  <2>3. session.exec # "blocked"
    BY <1>3 DEF CreateBlockedRuntime, validateBlockedRuntimeSessionState
  <2>4. k \in Call
    BY <1>2, <2>2 DEF Call, Status
  <2>5. Becomes(c, k)
    BY <2>1, <2>4, SetBecomes
  <2> QED BY <1>1, <1>2, <2>2, <2>3, <2>4, <2>5, StartStep
<1>4. CASE RespondBlockedRuntime(c)
  <2>1. PICK r \in Runtime, status \in Answered :
          /\ records[r] = "pending"
          /\ Set(c, [NoCall EXCEPT !.op = "respond", !.pc = "record",
                                   !.r = r, !.rec = status])
    BY <1>4 DEF RespondBlockedRuntime
  <2> DEFINE k == [NoCall EXCEPT !.op = "respond", !.pc = "record",
                                 !.r = r, !.rec = status]
  <2>2. /\ k \in Call /\ k.op = "respond" /\ k.pc = "record" /\ k.r = r
        /\ k.rec = status /\ status # "none"
    BY NoCallType DEF Call, Status, Answered
  <2>3. Becomes(c, k)
    BY <2>1, <2>2, SetBecomes
  <2> HIDE DEF k
  <2> QED BY <1>1, <2>1, <2>2, <2>3, StartStep
<1>5. CASE resolveBlockedRuntimeState(c)
  <2>1. PICK r \in Runtime, status \in Resolved :
          /\ records[r] \notin Resolved \cup {"none"}
          /\ requireCurrentBlockedRuntime(session, r)
          /\ Set(c, [op |-> "resolve", pc |-> "session", r |-> r,
                     rec |-> status, before |-> session,
                     version |-> session.version])
    BY <1>5 DEF resolveBlockedRuntimeState
  <2> DEFINE k == [op |-> "resolve", pc |-> "session", r |-> r, rec |-> status,
                   before |-> session, version |-> session.version]
  <2>2. k \in Call /\ status # "none"
    BY <1>2 DEF Call, Status, Resolved
  <2>3. Becomes(c, k)
    BY <2>1, <2>2, SetBecomes
  <2> QED BY <1>1, <1>2, <2>1, <2>2, <2>3, StartStep
<1>6. CASE AbortSession(c)
  <2> DEFINE r == currentBlockedRuntimeID(session)
             k == [NoCall EXCEPT !.op = "abort", !.r = r, !.rec = "aborted",
                                 !.before = session]
  <2>1. r \in Runtime \cup {NoRuntime}
    BY <1>2 DEF currentBlockedRuntimeID, BState
  <2>2. /\ k \in Call /\ k.op = "abort" /\ k.r = r /\ k.rec = "aborted"
        /\ k.before = session
    <3> HIDE DEF r
    <3> QED BY <1>2, <2>1, NoCallType DEF Call, Status, Resolved
  <2>3. PICK p \in {"session", "record"} :
          /\ Set(c, [k EXCEPT !.pc = p])
          /\ p = "record" => r # NoRuntime
          /\ r = NoRuntime \/ records[r] # "none"
    BY <1>6 DEF AbortSession
  <2> DEFINE n == [k EXCEPT !.pc = p]
  <2> HIDE DEF k, r
  <2>4. /\ n \in Call /\ n.op = "abort" /\ n.r = r /\ n.rec = "aborted"
        /\ n.before = session /\ n.pc = p
    BY <2>2 DEF Call
  <2>5. Becomes(c, n)
    BY <2>3, <2>4, SetBecomes
  <2> HIDE DEF n
  <2> QED BY <1>1, <1>2, <2>1, <2>3, <2>4, <2>5, StartStep
<1> QED BY <1>3, <1>4, <1>5, <1>6

(* A call ends and has written no record; the session was left alone or    *)
(* written gently.                                                         *)
LEMMA EndStep ==
    ASSUME BlockedInv, NEW c \in Caller, Return(c), Gentle,
           UNCHANGED <<records, runs, held, issued, done>>,
           stranded \subseteq stranded',
           calls[c].op = "create" =>
             \/ ~requireCurrentBlockedRuntime(session', calls[c].r)
             \/ calls[c].r \in stranded'
    PROVE  BlockedInv'
<1>1. /\ Becomes(c, NoCall) /\ NoCall.op = "none" /\ NoCall.pc = "idle"
      /\ NoCall.r = NoRuntime
  BY NoCallType, SetBecomes DEF Return, NoCall
<1>2. Types' /\ Frames'
  BY <1>1 DEF BlockedInv, Types, Frames, Becomes, Gentle
<1>3. Creating'
  BY <1>1, RuntimeAssumption, GentleKeeps DEF BlockedInv, Creating, Becomes
<1>4. Resolving'
  <2> SUFFICES ASSUME NEW d \in Caller, calls'[d].op = "resolve"
               PROVE  /\ calls'[d].r \in Runtime
                      /\ requireCurrentBlockedRuntime(calls'[d].before, calls'[d].r)
                      /\ records[calls'[d].r] # "none"
                      /\ calls'[d].pc = "session" =>
                           /\ calls'[d].before.version <= session'.version
                           /\ calls'[d].before.version = session'.version
                                => requireCurrentBlockedRuntime(session', calls'[d].r)
    BY DEF Resolving
  <2>1. calls'[d] = calls[d] /\ calls[d].before \in BState
    BY <1>1 DEF Becomes, BlockedInv, Frames
  <2> QED BY <2>1, GentleResolving DEF BlockedInv, Resolving
<1>5. OneResolver'
  <2>1. \A d \in Caller, r \in Runtime : Past(d, r)' => Past(d, r)
    BY <1>1 DEF Past, Becomes
  <2> QED BY <2>1, GentleKeeps DEF BlockedInv, OneResolver
<1>6. Recorded'
  <2> SUFFICES ASSUME session'.exec = "blocked"
               PROVE  /\ session'.blocked \in Runtime
                      /\ \/ session'.blocked \in stranded'
                         \/ \E d \in Caller : calls'[d].op = "create"
                                              /\ calls'[d].r = session'.blocked
                         \/ records[session'.blocked] # "none"
    BY DEF Recorded
  <2>1. session.exec = "blocked" /\ session'.blocked = session.blocked
    BY DEF Gentle
  <2>2. CASE \E d \in Caller : calls[d].op = "create" /\ calls[d].r = session.blocked
    <3>1. PICK d \in Caller : calls[d].op = "create" /\ calls[d].r = session.blocked
      BY <2>2
    <3>2. CASE d = c
      BY <2>1, <3>1, <3>2
         DEF requireCurrentBlockedRuntime, currentBlockedRuntimeID, BlockedInv, Recorded
    <3>3. CASE d # c
      BY <1>1, <2>1, <3>1, <3>3 DEF Becomes, BlockedInv, Recorded
    <3> QED BY <3>2, <3>3
  <2> QED BY <2>1, <2>2 DEF BlockedInv, Recorded
<1> QED BY <1>2, <1>3, <1>4, <1>5, <1>6 DEF BlockedInv

LEMMA AbortWritesStep ==
    ASSUME BlockedInv, NEW c \in Caller, AbortWritesSession(c) PROVE BlockedInv'
<1>1. calls[c].op = "abort" /\ calls[c].before \in BState /\ Types
  BY DEF AbortWritesSession, BlockedInv, Frames
<1>2. Gentle
  BY <1>1, AbortedFacts, UpdateGentle, UnchangedGentle DEF AbortWritesSession
<1> QED BY <1>1, <1>2, EndStep DEF AbortWritesSession

LEMMA RecordFailsStep ==
    ASSUME BlockedInv, NEW c \in Caller, RecordFails(c) PROVE BlockedInv'
<1>1. UNCHANGED <<session, records, runs, held, issued, done, stranded>>
  BY DEF RecordFails
<1>2. CASE calls[c].op \notin {"create", "resolve"}
  <2>1. Gentle
    BY <1>1, UnchangedGentle DEF BlockedInv
  <2> QED BY <1>1, <1>2, <2>1, EndStep DEF RecordFails
<1>3. CASE calls[c].op \in {"create", "resolve"}
  <2> DEFINE q == calls[c]
             k == [q EXCEPT !.pc = "rollback"]
  <2>1. q \in Call /\ q.pc = "record" /\ Set(c, k)
    BY <1>3 DEF RecordFails, BlockedInv, Types
  <2>2. /\ k \in Call /\ k.pc = "rollback" /\ k.op = q.op /\ k.r = q.r
        /\ k.before = q.before /\ k.rec = q.rec
    BY <2>1 DEF Call
  <2>3. Becomes(c, k)
    BY <2>1, <2>2, SetBecomes
  <2>4. \A d \in Caller : /\ calls'[d].op = calls[d].op /\ calls'[d].r = calls[d].r
                          /\ calls'[d].before = calls[d].before
                          /\ calls'[d].rec = calls[d].rec
                          /\ calls'[d].pc = "session" => calls[d].pc = "session"
                          /\ calls'[d].pc = "record" => calls'[d] = calls[d]
                          /\ \A r \in Runtime : Past(d, r)' <=> Past(d, r)
    <3>1. q = calls[c]
      OBVIOUS
    <3> HIDE DEF k, q
    <3> QED BY <2>1, <2>2, <2>3, <3>1 DEF Becomes, Past
  <2> HIDE DEF k, q
  <2>5. Types'
    BY <1>1, <2>3 DEF BlockedInv, Types, Becomes
  <2>6. Frames'
    BY <1>1, <1>3, <2>2, <2>3, <2>4 DEF BlockedInv, Frames, Becomes, q
  <2>7. Creating'
    BY <1>1, <2>4 DEF BlockedInv, Creating
  <2>8. Resolving'
    BY <1>1, <2>4 DEF BlockedInv, Resolving
  <2>9. OneResolver'
    BY <1>1, <2>4 DEF BlockedInv, OneResolver
  <2>10. Recorded'
    BY <1>1, <2>4 DEF BlockedInv, Recorded
  <2> QED BY <2>5, <2>6, <2>7, <2>8, <2>9, <2>10 DEF BlockedInv
<1> QED BY <1>2, <1>3

(* A call has written the session: its frame goes on to the record.        *)
LEMMA ToRecord ==
    ASSUME BlockedInv, NEW c \in Caller, session' \in BState,
           Set(c, [calls[c] EXCEPT !.pc = "record", !.version = session'.version])
    PROVE  \E k \in Call : /\ Becomes(c, k) /\ k.pc = "record" /\ k.op = calls[c].op
                           /\ k.r = calls[c].r /\ k.rec = calls[c].rec
                           /\ k.before = calls[c].before
<1> DEFINE q == calls[c]
           v == session'.version
           k == [q EXCEPT !.pc = "record", !.version = v]
<1>1. q \in Call /\ v \in Nat
  BY DEF BlockedInv, Types, BState
<1> HIDE DEF v
<1>2. /\ k \in Call /\ k.pc = "record" /\ k.op = q.op /\ k.r = q.r
      /\ k.rec = q.rec /\ k.before = q.before
  BY <1>1 DEF Call
<1>3. Becomes(c, k)
  BY <1>2, SetBecomes DEF v
<1> HIDE DEF k
<1> QED BY <1>2, <1>3

(* Nobody who read the session before it was written relies on it.         *)
LEMMA Overtaken ==
    ASSUME BlockedInv, session' \in BState, session'.version = session.version + 1,
           NEW d \in Caller, calls[d].op = "resolve", calls[d].pc = "session"
    PROVE  /\ calls[d].before.version <= session'.version
           /\ calls[d].before.version # session'.version
<1>1. /\ calls[d].before.version \in Nat /\ session.version \in Nat
      /\ calls[d].before.version <= session.version
  BY DEF BlockedInv, Frames, Resolving, Types, BState
<1> QED BY <1>1

LEMMA CreateWritesStep ==
    ASSUME BlockedInv, NEW c \in Caller, CreateWritesSession(c) PROVE BlockedInv'
<1> DEFINE q == calls[c]
           next == [setCurrentBlockedRuntime(q.before, q.r) EXCEPT
                      !.exec = "blocked", !.version = @ + 1]
<1>1. /\ q.op = "create" /\ q.pc = "session" /\ q.before \in BState /\ q.r \in Runtime
      /\ q \in Call /\ records[q.r] = "none"
      /\ \A d \in Caller \ {c} : calls[d].r # q.r
      /\ ~requireCurrentBlockedRuntime(session, q.r)
  BY DEF CreateWritesSession, BlockedInv, Frames, Creating, Types
<1>2. UNCHANGED <<records, runs, held, issued, done, stranded>>
  BY DEF CreateWritesSession
<1>3. CASE ~Accepts(next)
  <2>1. session' = session /\ Return(c)
    BY <1>3 DEF CreateWritesSession
  <2>2. Gentle
    BY <2>1, UnchangedGentle DEF BlockedInv
  <2> QED BY <1>1, <1>2, <2>1, <2>2, EndStep
<1>4. CASE Accepts(next)
  <2>1. /\ Update(next)
        /\ Set(c, [q EXCEPT !.pc = "record", !.version = session'.version])
    BY <1>4 DEF CreateWritesSession
  <2>2. next \in BState /\ next.exec = "blocked" /\ next.blocked = q.r
    <3>1. "blocked" \in ExecutionState
      BY DEF ExecutionState
    <3>2. next = Wanted(q.before, q.r, "blocked")
      BY DEF Wanted
    <3> HIDE DEF next, q
    <3> QED BY <1>1, <3>1, <3>2, WantedFacts
  <2> HIDE DEF next
  <2>3. /\ session' \in BState /\ session'.version = session.version + 1
        /\ session'.exec = "blocked" /\ session'.blocked = q.r
    BY <2>1, <2>2, UpdateFacts DEF BlockedInv
  <2>4. PICK k \in Call :
          /\ Becomes(c, k) /\ k.pc = "record" /\ k.op = "create" /\ k.r = q.r
          /\ k.rec = q.rec /\ k.before = q.before
    BY <1>1, <2>1, <2>3, ToRecord
  <2>5. q = calls[c] /\ q.rec # "none"
    BY <1>1 DEF BlockedInv, Frames
  <2> HIDE DEF q
  <2>6. Types' /\ Frames'
    BY <1>1, <1>2, <2>3, <2>4, <2>5 DEF BlockedInv, Types, Frames, Becomes
  <2>7. Creating'
    BY <1>1, <1>2, <2>3, <2>4, <2>5
       DEF BlockedInv, Creating, Becomes, requireCurrentBlockedRuntime, currentBlockedRuntimeID
  <2>8. Resolving'
    BY <1>2, <2>3, <2>4, Overtaken DEF BlockedInv, Resolving, Becomes
  <2>9. OneResolver'
    <3>1. \A d \in Caller, r \in Runtime :
            /\ Past(d, r)' => Past(d, r)
            /\ ~Past(d, q.r)
      BY <1>1, <2>4, <2>5 DEF Past, Becomes
    <3>2. done[q.r] = 0 /\ done \in [Runtime -> Nat]
      BY <1>1 DEF BlockedInv, OneResolver, Types
    <3>3. \A r \in Runtime : requireCurrentBlockedRuntime(session', r) => r = q.r
      BY <2>3 DEF requireCurrentBlockedRuntime, currentBlockedRuntimeID
    <3> QED BY <1>2, <3>1, <3>2, <3>3 DEF BlockedInv, OneResolver
  <2>10. Recorded'
    BY <1>1, <2>3, <2>4 DEF Recorded, Becomes
  <2> QED BY <2>6, <2>7, <2>8, <2>9, <2>10 DEF BlockedInv
<1> QED BY <1>3, <1>4

LEMMA ResolveWritesStep ==
    ASSUME BlockedInv, NEW c \in Caller, ResolveWritesSession(c) PROVE BlockedInv'
<1> DEFINE q == calls[c]
           next == [setCurrentBlockedRuntime(q.before, NoRuntime) EXCEPT
                      !.exec = "idle", !.version = @ + 1]
<1>1. /\ q.op = "resolve" /\ q.pc = "session" /\ q.before \in BState /\ q.r \in Runtime
      /\ q \in Call /\ records[q.r] # "none"
      /\ requireCurrentBlockedRuntime(q.before, q.r)
      /\ q.before.version = session.version => requireCurrentBlockedRuntime(session, q.r)
  BY DEF ResolveWritesSession, BlockedInv, Frames, Resolving, Types
<1>2. UNCHANGED <<records, runs, held, issued, done, stranded>>
  BY DEF ResolveWritesSession
<1>3. CASE ~Accepts(next)
  <2>1. session' = session /\ Return(c)
    BY <1>3 DEF ResolveWritesSession
  <2>2. Gentle
    BY <2>1, UnchangedGentle DEF BlockedInv
  <2> QED BY <1>1, <1>2, <2>1, <2>2, EndStep
<1>4. CASE Accepts(next)
  <2>1. /\ Update(next)
        /\ Set(c, [q EXCEPT !.pc = "record", !.version = session'.version])
    BY <1>4 DEF ResolveWritesSession
  <2>2. /\ next \in BState /\ next.exec = "idle"
        /\ next.version = q.before.version + 1
    <3>1. "idle" \in ExecutionState /\ NoRuntime \in Runtime \cup {NoRuntime}
      BY DEF ExecutionState
    <3>2. next = Wanted(q.before, NoRuntime, "idle")
      BY DEF Wanted
    <3>3. q.before \in BState
      BY <1>1
    <3> HIDE DEF next, q
    <3>4. next \in BState
      BY <3>1, <3>2, <3>3, WantedFacts
    <3>5. next.exec = "idle"
      BY <3>1, <3>2, <3>3, WantedFacts
    <3>6. next.version = q.before.version + 1
      <4>1. PICK st \in BState : st = q.before
        BY <3>3
      <4>2. Wanted(st, NoRuntime, "idle").version = st.version + 1
        BY <3>1, WantedFacts, Zenon
      <4> QED BY <3>2, <4>1, <4>2
    <3> QED BY <3>4, <3>5, <3>6
  <2>3. requireCurrentBlockedRuntime(session, q.r)
    <3>1. q.before.version \in Nat /\ session.version \in Nat
      BY <1>1 DEF BlockedInv, Types, BState
    <3> QED BY <1>1, <1>4, <2>2, <3>1 DEF Accepts
  <2> HIDE DEF next
  <2>4. /\ session' \in BState /\ session'.version = session.version + 1
        /\ session'.exec = "idle"
    BY <2>1, <2>2, UpdateFacts DEF BlockedInv
  <2>5. PICK k \in Call :
          /\ Becomes(c, k) /\ k.pc = "record" /\ k.op = "resolve" /\ k.r = q.r
          /\ k.rec = q.rec /\ k.before = q.before
    BY <1>1, <2>1, <2>4, ToRecord
  <2>6. q = calls[c] /\ q.rec # "none"
    BY <1>1 DEF BlockedInv, Frames
  <2> HIDE DEF q
  <2>7. Types' /\ Frames'
    BY <1>1, <1>2, <2>4, <2>5, <2>6 DEF BlockedInv, Types, Frames, Becomes
  <2>8. Creating'
    BY <1>1, <1>2, <2>4, <2>5, <2>6
       DEF BlockedInv, Creating, Becomes, requireCurrentBlockedRuntime
  <2>9. Resolving'
    BY <1>1, <1>2, <2>4, <2>5, Overtaken DEF BlockedInv, Resolving, Becomes
  <2>10. OneResolver'
    <3>1. \A d \in Caller, r \in Runtime : Past(d, r)' => Past(d, r) \/ (d = c /\ r = q.r)
      BY <1>1, <2>5 DEF Past, Becomes
    <3>2. done[q.r] = 0 /\ \A d \in Caller : ~Past(d, q.r)
      BY <1>1, <2>3 DEF BlockedInv, OneResolver
    <3>3. \A r \in Runtime : ~requireCurrentBlockedRuntime(session', r)
      BY <2>4 DEF requireCurrentBlockedRuntime
    <3> QED BY <1>2, <3>1, <3>2, <3>3 DEF BlockedInv, OneResolver
  <2>11. Recorded'
    BY <2>4 DEF Recorded
  <2> QED BY <2>7, <2>8, <2>9, <2>10, <2>11 DEF BlockedInv
<1> QED BY <1>3, <1>4

LEMMA PutRecordStep ==
    ASSUME BlockedInv, NEW c \in Caller, PutRecord(c) PROVE BlockedInv'
<1> DEFINE q == calls[c]
<1>1. /\ q \in Call /\ q.pc = "record" /\ q.r \in Runtime /\ q.rec \in Status
      /\ q.rec # "none" /\ records \in [Runtime -> Status] /\ done \in [Runtime -> Nat]
  BY DEF PutRecord, BlockedInv, Frames, Types, Call
<1>2. /\ UNCHANGED <<session, runs, held, issued, stranded>>
      /\ records' = [records EXCEPT ![q.r] = q.rec]
      /\ done' = IF q.op = "resolve" THEN [done EXCEPT ![q.r] = @ + 1] ELSE done
  BY DEF PutRecord
<1>3. PICK k \in Call :
        /\ Becomes(c, k)
        /\ k = NoCall \/ k.op = "abort"
        /\ k.op = "abort" => q.op = "abort" /\ k.before = q.before /\ k.rec = q.rec
        /\ k.pc \in {"idle", "session"} /\ k.r \in {q.r, NoRuntime}
  <2>1. CASE q.op = "abort"
    <3> DEFINE k == [q EXCEPT !.pc = "session"]
    <3>1. /\ k \in Call /\ k.op = "abort" /\ k.before = q.before /\ k.pc = "session"
          /\ k.r = q.r /\ k.rec = q.rec
      BY <1>1, <2>1 DEF Call
    <3>2. Becomes(c, k)
      BY <2>1, <3>1, SetBecomes DEF PutRecord
    <3> HIDE DEF k
    <3> QED BY <2>1, <3>1, <3>2
  <2>2. CASE q.op # "abort"
    <3>1. Becomes(c, NoCall) /\ NoCall.op = "none" /\ NoCall.pc = "idle"
          /\ NoCall.r = NoRuntime
      BY <2>2, NoCallType, SetBecomes DEF PutRecord, NoCall
    <3> QED BY <3>1, NoCallType
  <2> QED BY <2>1, <2>2
<1>4. /\ NoCall.op = "none" /\ NoCall.pc = "idle" /\ NoCall.r = NoRuntime
      /\ q = calls[c]
  BY DEF NoCall
<1> HIDE DEF q
<1>5. Types' /\ Frames'
  BY <1>1, <1>2, <1>3, <1>4 DEF BlockedInv, Types, Frames, Becomes
<1>6. Creating'
  <2> SUFFICES ASSUME NEW d \in Caller, calls'[d].op = "create"
               PROVE  /\ calls'[d].r \in Runtime
                      /\ calls'[d].before.exec # "blocked"
                      /\ records'[calls'[d].r] = "none"
                      /\ \A e \in Caller \ {d} : calls'[e].r # calls'[d].r
                      /\ calls'[d].pc = "session"
                           => ~requireCurrentBlockedRuntime(session', calls'[d].r)
    BY DEF Creating
  <2>1. d # c /\ calls'[d] = calls[d]
    BY <1>3, <1>4 DEF Becomes
  <2>2. calls[d].r # q.r /\ calls[d].r \in Runtime
    BY <1>4, <2>1 DEF BlockedInv, Creating
  <2> QED BY <1>1, <1>2, <1>3, <2>1, <2>2, RuntimeAssumption DEF BlockedInv, Creating, Becomes
<1>7. \A r \in Runtime : records[r] # "none" => records'[r] # "none"
  BY <1>1, <1>2
<1>8. Resolving'
  BY <1>2, <1>3, <1>4, <1>7 DEF BlockedInv, Resolving, Becomes
<1>9. OneResolver'
  <2>1. \A d \in Caller, r \in Runtime :
          Past(d, r)' => Past(d, r) /\ d # c
    BY <1>3, <1>4 DEF Past, Becomes
  <2>2. CASE q.op # "resolve"
    BY <1>2, <1>7, <2>1, <2>2 DEF BlockedInv, OneResolver
  <2>3. CASE q.op = "resolve"
    <3>1. Past(c, q.r)
      BY <1>1, <1>4, <2>3 DEF Past
    <3>2. done[q.r] = 0 /\ ~requireCurrentBlockedRuntime(session, q.r)
          /\ \A d \in Caller : Past(d, q.r) => d = c
      BY <1>1, <3>1 DEF BlockedInv, OneResolver
    <3>3. done'[q.r] = 1 /\ records'[q.r] # "none"
          /\ \A r \in Runtime \ {q.r} : done'[r] = done[r]
      BY <1>1, <1>2, <2>3, <3>2
    <3> QED BY <1>2, <1>7, <2>1, <3>2, <3>3 DEF BlockedInv, OneResolver
  <2> QED BY <2>2, <2>3
<1>10. Recorded'
  <2> SUFFICES ASSUME session.exec = "blocked"
               PROVE  /\ session.blocked \in Runtime
                      /\ \/ session.blocked \in stranded
                         \/ \E d \in Caller : calls'[d].op = "create"
                                              /\ calls'[d].r = session.blocked
                         \/ records'[session.blocked] # "none"
    BY <1>2 DEF Recorded
  <2>1. \A d \in Caller \ {c} : calls'[d] = calls[d]
    BY <1>3 DEF Becomes
  <2>2. records'[q.r] # "none"
    BY <1>1, <1>2
  <2> QED BY <1>4, <1>7, <2>1, <2>2 DEF BlockedInv, Recorded
<1> QED BY <1>5, <1>6, <1>8, <1>9, <1>10 DEF BlockedInv

LEMMA RollbackStep ==
    ASSUME BlockedInv, NEW c \in Caller, rollbackSessionState(c) PROVE BlockedInv'
<1> DEFINE q == calls[c]
           v == q.version + 1
           next == [q.before EXCEPT !.version = v]
<1>1. /\ q.pc = "rollback" /\ q.op \in {"create", "resolve"} /\ q.before \in BState
      /\ q.r \in Runtime /\ q \in Call /\ v \in Nat
  BY DEF rollbackSessionState, BlockedInv, Frames, Creating, Resolving, Types, Call
<1>2. UNCHANGED <<records, runs, held, issued, done>> /\ Return(c)
  BY DEF rollbackSessionState
<1>3. CASE ~Accepts(next)
  <2>1. session' = session /\ stranded' = stranded \cup {q.r}
    BY <1>3 DEF rollbackSessionState
  <2>2. Gentle
    BY <2>1, UnchangedGentle DEF BlockedInv
  <2> QED BY <1>1, <1>2, <2>1, <2>2, EndStep
<1>4. CASE Accepts(next)
  <2>1. Update(next) /\ stranded' = stranded
    BY <1>4 DEF rollbackSessionState
  <2>2. /\ next \in BState /\ next.exec = q.before.exec
        /\ next.blocked = q.before.blocked
    BY <1>1, VersionFacts
  <2> HIDE DEF next
  <2>3. CASE q.op = "create"
    <3>1. next.exec # "blocked"
      BY <2>2, <2>3 DEF BlockedInv, Creating
    <3>2. Gentle
      BY <2>1, <2>2, <3>1, UpdateGentle DEF BlockedInv
    <3>3. session'.exec # "blocked"
      BY <2>1, <2>2, <3>1, UpdateFacts DEF BlockedInv
    <3> QED BY <1>2, <2>1, <3>2, <3>3, EndStep DEF requireCurrentBlockedRuntime
  <2>4. CASE q.op = "resolve"
    <3>1. /\ session' \in BState /\ session'.version = session.version + 1
          /\ session'.exec = "blocked" /\ session'.blocked = q.r
      <4>1. q.before.exec = "blocked" /\ q.before.blocked = q.r
        BY <2>4 DEF BlockedInv, Resolving, requireCurrentBlockedRuntime,
                    currentBlockedRuntimeID
      <4> QED BY <2>1, <2>2, <4>1, UpdateFacts DEF BlockedInv
    <3>2. /\ Becomes(c, NoCall) /\ NoCall.op = "none" /\ NoCall.pc = "idle"
          /\ NoCall.r = NoRuntime
      BY <1>2, NoCallType, SetBecomes DEF Return, NoCall
    <3>3. q = calls[c] /\ Past(c, q.r) /\ records[q.r] # "none"
      BY <1>1, <2>4 DEF Past, BlockedInv, Resolving
    <3> HIDE DEF q
    <3>4. Types' /\ Frames'
      BY <1>2, <3>1, <3>2 DEF BlockedInv, Types, Frames, Becomes
    <3>5. Creating'
      BY <1>1, <1>2, <3>1, <3>2, <3>3, RuntimeAssumption
         DEF BlockedInv, Creating, Becomes, requireCurrentBlockedRuntime,
             currentBlockedRuntimeID
    <3>6. Resolving'
      BY <1>2, <3>1, <3>2, Overtaken DEF BlockedInv, Resolving, Becomes
    <3>7. OneResolver'
      <4>1. done[q.r] = 0 /\ \A d \in Caller : Past(d, q.r) => d = c
        BY <1>1, <3>3 DEF BlockedInv, OneResolver
      <4>2. \A d \in Caller, r \in Runtime : Past(d, r)' => Past(d, r) /\ d # c
        BY <3>2 DEF Past, Becomes
      <4>3. \A r \in Runtime : requireCurrentBlockedRuntime(session', r) => r = q.r
        BY <3>1 DEF requireCurrentBlockedRuntime, currentBlockedRuntimeID
      <4> QED BY <1>2, <4>1, <4>2, <4>3 DEF BlockedInv, OneResolver
    <3>8. Recorded'
      BY <1>1, <1>2, <3>1, <3>3 DEF Recorded
    <3> QED BY <3>4, <3>5, <3>6, <3>7, <3>8 DEF BlockedInv
  <2> QED BY <1>1, <2>3, <2>4
<1> QED BY <1>3, <1>4

----------------------------------------------------------------------------
(* Every step, and the theorems.                                           *)

LEMMA BlockedInit == Init => BlockedInv
<1> SUFFICES ASSUME Init PROVE BlockedInv
  OBVIOUS
<1>1. session \in BState /\ session.exec = "idle"
  BY NewSessionFacts DEF Init
<1>2. Types
  BY <1>1, NoCallType, NoRunType DEF Init, Types, Status, NoLease
<1>3. \A c \in Caller : calls[c].op = "none" /\ calls[c].pc = "idle"
  BY DEF Init, NoCall
<1>4. Frames
  BY <1>3, NoRunType DEF Init, Frames, RunFrame, Marking
<1>5. Creating /\ Resolving
  BY <1>3 DEF Creating, Resolving
<1>6. OneResolver
  BY <1>1, <1>3 DEF Init, OneResolver, Past, requireCurrentBlockedRuntime
<1>7. Recorded
  BY <1>1 DEF Recorded
<1> QED BY <1>2, <1>4, <1>5, <1>6, <1>7 DEF BlockedInv

LEMMA BlockedStep == BlockedInv /\ [Next]_vars => BlockedInv'
<1> SUFFICES ASSUME BlockedInv, [Next]_vars PROVE BlockedInv'
  OBVIOUS
<1>1. CASE UNCHANGED vars
  BY <1>1 DEF vars, BlockedInv, Types, Frames, Creating, Resolving, OneResolver,
              Recorded, Past
<1>2. ASSUME NEW c \in Caller,
             \/ CreateBlockedRuntime(c) \/ RespondBlockedRuntime(c)
             \/ resolveBlockedRuntimeState(c) \/ AbortSession(c)
      PROVE  BlockedInv'
  BY <1>2, StartSteps
<1>3. ASSUME NEW c \in Caller,
             \/ CreateWritesSession(c) \/ PutRecord(c) \/ RecordFails(c)
             \/ rollbackSessionState(c) \/ ResolveWritesSession(c) \/ AbortWritesSession(c)
      PROVE  BlockedInv'
  BY <1>3, CreateWritesStep, PutRecordStep, RecordFailsStep, RollbackStep,
     ResolveWritesStep, AbortWritesStep
<1>4. ASSUME NEW w \in Worker, Claim(w) \/ Renew(w) \/ LeaseEnds(w) PROVE BlockedInv'
  BY <1>4, LeaseSteps
<1>5. ASSUME NEW a \in Actor,
             \/ RunStep(a) \/ markSessionInFlight(a) \/ MarkWritesSession(a)
             \/ ReadAgain(a)
             \/ \E phase \in {"plan", "complete"} : FinishRun(a, phase)
             \/ markSessionInterrupted(a) \/ InterruptWritesSession(a)
      PROVE  BlockedInv'
  BY <1>5, RunSteps
<1> QED BY <1>1, <1>2, <1>3, <1>4, <1>5 DEF Next, Quiet

(* Through every Create, answer, Resume, Abort, rollback, run and lease    *)
(* the session record keeps the shape of the store's, and a session is     *)
(* blocked only together with the id that can unblock it.                  *)
THEOREM TypeCorrect == Spec => []TypeOK
<1>1. BlockedInv => TypeOK
  <2> SUFFICES ASSUME BlockedInv PROVE TypeOK
    OBVIOUS
  <2>1. [f \in DOMAIN Created(Now) |-> session[f]] \in State
    <3>1. DOMAIN Created(Now) = {"phase", "exec", "current", "inFlight", "interrupted",
             "pending", "lease", "expires", "started", "version", "created"}
      BY CreatedType DEF State
    <3> DEFINE n == [phase |-> session.phase, exec |-> session.exec,
                     current |-> session.current, inFlight |-> session.inFlight,
                     interrupted |-> session.interrupted, pending |-> session.pending,
                     lease |-> session.lease, expires |-> session.expires,
                     started |-> session.started, version |-> session.version,
                     created |-> session.created]
    <3>2. [f \in DOMAIN Created(Now) |-> session[f]] = n
      BY <3>1
    <3>3. n \in State
      BY DEF BlockedInv, Types, BState, State
    <3> QED BY <3>2, <3>3
  <2>2. session.blocked \in Runtime \cup {NoRuntime}
    BY DEF BlockedInv, Types, BState
  <2>3. session.exec = "blocked" => hasCurrentBlockedRuntime(session)
    BY RuntimeAssumption DEF BlockedInv, Recorded, hasCurrentBlockedRuntime,
                             currentBlockedRuntimeID
  <2> QED BY <2>1, <2>2, <2>3 DEF TypeOK, BlockedInv, Types, Status
<1> QED BY <1>1, BlockedInit, BlockedStep, PTL DEF Spec

(* blocked_runtime_lifecycle.go and service_reads.go: whatever callers,    *)
(* runs and failing record writes interleave, a session that stays blocked *)
(* is found by GetBlockedRuntime and the list, except while its Create is  *)
(* in progress or after a rollback that was refused and reported.          *)
THEOREM BlockedSessionsAreListed == Spec => []BlockedIsListed
<1>1. BlockedInv => BlockedIsListed
  BY RuntimeAssumption
     DEF BlockedInv, Recorded, BlockedIsListed, listBlockedRuntimeRecords,
         getBlockedRuntimeRecord, hasCurrentBlockedRuntime, currentBlockedRuntimeID,
         blockedRuntimeFromStateAndGenericRecord, requireCurrentBlockedRuntime
<1> QED BY <1>1, BlockedInit, BlockedStep, PTL DEF Spec

(* ResumeBlockedRuntime and AbortBlockedRuntime: of any number of callers  *)
(* that resolve the same blocked runtime at the same time at most one      *)
(* succeeds, and no later write of an older copy of the session, a         *)
(* rollback included, blocks the session on it again.                      *)
THEOREM BlockedRuntimesAreResolvedOnce == Spec => []ResolvedOnce
<1>1. BlockedInv => ResolvedOnce
  BY DEF BlockedInv, OneResolver, ResolvedOnce
<1> QED BY <1>1, BlockedInit, BlockedStep, PTL DEF Spec
============================================================================
