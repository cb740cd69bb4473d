------------------------ MODULE WorkerLoop_proofs ------------------------
(***************************************************************************)
(* Proofs about WorkerLoop: types, and that heartbeats made on time keep   *)
(* every run exclusive, for any fleet, any sessions and any intervals with *)
(* RenewInterval < LeaseTTL.                                               *)
(***************************************************************************)
EXTENDS WorkerLoop, TLAPS

(* A process that is in a run, or winding one up, is about a session, and  *)
(* a heartbeat beats only beside a run.                                    *)
Targets ==
    \A w \in Worker :
        /\ workers[w].pc \in Running \cup {"join", "release"} => workers[w].s \in Session
        /\ workers[w].hb # "off" => workers[w].pc \in Running \cup {"join"}

TypeInv == TypeOK /\ Targets

(* The lease of a running worker outlives the wait for its next renewal.   *)
Guarded(w) ==
    LET p == workers[w]
        st == sessions[p.s] IN
    /\ st.lease = w /\ st.expires > 0
    /\ ~p.lost
    /\ p.hb # "off"
    /\ p.hb = "wait" => st.expires > p.renewIn

(* Heartbeats were on time so far, and are made before the lease is over.  *)
Timely == faults.slips = 0 /\ RenewInterval < LeaseTTL

ExclusiveInv ==
    /\ TypeInv
    /\ Timely =>
         \A w \in Worker : workers[w].pc \in Running /\ ~workers[w].done => Guarded(w)

----------------------------------------------------------------------------
(* Types.                                                                  *)

LEMMA StartedType == Started \in Process /\ [Started EXCEPT !.pc = "down"] \in Process
BY IntervalAssumption DEF Started, Process, Pc

LEMMA CreatedType ==
    ASSUME NEW t \in Nat PROVE Absent \in State /\ Created(t) \in State
<1>1. Absent \in State
  BY NoStepAssumption DEF Absent, State, Phase, ExecutionState, NoLease
<1>2. PICK a \in State : a = Absent
  BY <1>1
<1>3. [a EXCEPT !.version = 1, !.created = t] \in State
  BY DEF State
<1> QED BY <1>1, <1>2, <1>3 DEF Created

LEMMA TypeInit == Init => TypeInv
<1> SUFFICES ASSUME Init PROVE TypeInv
  OBVIOUS
<1>1. sessions \in [Session -> State]
  BY CreatedType DEF Init
<1>2. workers \in [Worker -> Process]
  BY StartedType DEF Init
<1>3. left \in [Session -> Int] /\ faults \in [crashes : Nat, shutdowns : Nat, slips : Nat]
  BY BoundAssumption DEF Init
<1>4. Targets
  BY DEF Init, Targets, Started, Running
<1> QED BY <1>1, <1>2, <1>3, <1>4 DEF TypeInv, TypeOK

(* A step of one process that leaves it a well-typed stack frame.          *)
LEMMA FrameType ==
    ASSUME TypeInv, NEW w \in Worker, NEW p \in Process,
           p.pc \in Running \cup {"join", "release"} => p.s \in Session,
           p.hb # "off" => p.pc \in Running \cup {"join"},
           workers' = [workers EXCEPT ![w] = p],
           sessions' \in [Session -> State],
           left' \in [Session -> Int],
           faults' \in [crashes : Nat, shutdowns : Nat, slips : Nat]
    PROVE  TypeInv'
BY DEF TypeInv, TypeOK, Targets

(* A lease is put on a session or taken off.                               *)
LEMMA LeaseWriteStep ==
    ASSUME sessions \in [Session -> State], NEW s \in Session,
           NEW l \in Nat, NEW e \in Nat,
           sessions' = [sessions EXCEPT ![s].lease = l, ![s].expires = e]
    PROVE  /\ sessions' \in [Session -> State]
           /\ sessions'[s].lease = l /\ sessions'[s].expires = e
           /\ \A r \in Session \ {s} : sessions'[r] = sessions[r]
<1> DEFINE st == [sessions[s] EXCEPT !.lease = l, !.expires = e]
<1>1. st \in State /\ st.lease = l /\ st.expires = e
  BY DEF State
<1>2. sessions' = [sessions EXCEPT ![s] = st]
  OBVIOUS
<1> HIDE DEF st
<1> QED BY <1>1, <1>2

(* The lease of a session is extended.                                     *)
LEMMA LeaseExtendStep ==
    ASSUME sessions \in [Session -> State], NEW s \in Session, NEW e \in Nat,
           sessions' = [sessions EXCEPT ![s].expires = e]
    PROVE  /\ sessions' \in [Session -> State]
           /\ sessions'[s].lease = sessions[s].lease /\ sessions'[s].expires = e
           /\ \A r \in Session \ {s} : sessions'[r] = sessions[r]
<1> DEFINE st == [sessions[s] EXCEPT !.expires = e]
<1>1. st \in State /\ st.lease = sessions[s].lease /\ st.expires = e
  BY DEF State
<1>2. sessions' = [sessions EXCEPT ![s] = st]
  OBVIOUS
<1> HIDE DEF st
<1> QED BY <1>1, <1>2

----------------------------------------------------------------------------
(* Exclusive runs.                                                         *)

(* Worker w leaves every lease that others hold as it is.                  *)
Yields(w) ==
    \A s \in Session :
        sessions[s].lease # NoLease /\ sessions[s].lease # w /\ sessions[s].expires > 0
            => /\ sessions'[s].lease = sessions[s].lease
               /\ sessions'[s].expires = sessions[s].expires

(* A step of one worker that yields to the others and keeps its own run    *)
(* guarded keeps all runs guarded.                                         *)
LEMMA OneWorker ==
    ASSUME ExclusiveInv, TypeInv', NEW w \in Worker, NEW p \in Process,
           workers' = [workers EXCEPT ![w] = p],
           Yields(w), faults'.slips = faults.slips,
           Timely /\ p.pc \in Running /\ ~p.done => Guarded(w)'
    PROVE  ExclusiveInv'
<1> SUFFICES ASSUME Timely, NEW v \in Worker,
                    workers'[v].pc \in Running, ~workers'[v].done
             PROVE  Guarded(v)'
  BY DEF ExclusiveInv, Timely
<1>1. CASE v = w
  BY <1>1 DEF ExclusiveInv, TypeInv, TypeOK
<1>2. CASE v # w
  <2>1. workers'[v] = workers[v]
    BY <1>2 DEF ExclusiveInv, TypeInv, TypeOK
  <2>2. Guarded(v) /\ workers[v].s \in Session
    BY <2>1 DEF ExclusiveInv, TypeInv, Targets
  <2>3. v # NoLease
    BY WorkerAssumption DEF NoLease
  <2>4. /\ sessions'[workers[v].s].lease = sessions[workers[v].s].lease
        /\ sessions'[workers[v].s].expires = sessions[workers[v].s].expires
    BY <1>2, <2>2, <2>3 DEF Yields, Guarded
  <2> QED BY <2>1, <2>2, <2>4 DEF Guarded
<1> QED BY <1>1, <1>2

(* No lease changes.                                                       *)
LeasesKept ==
    \A s \in Session : /\ sessions'[s].lease = sessions[s].lease
                       /\ sessions'[s].expires = sessions[s].expires

(* Progress of a session is written without touching a lease.              *)
LEMMA ProgressKeepsLease ==
    ASSUME sessions \in [Session -> State], NEW s \in Session,
           NEW x \in ExecutionState, NEW ph \in Phase,
           \/ sessions' = sessions
           \/ sessions' = [sessions EXCEPT ![s].exec = x]
           \/ sessions' = [sessions EXCEPT ![s].exec = x, ![s].phase = ph]
    PROVE  sessions' \in [Session -> State] /\ LeasesKept
<1>1. sessions' \in [Session -> State]
  <2>1. CASE sessions' = sessions
    BY <2>1
  <2>2. CASE sessions' = [sessions EXCEPT ![s].exec = x]
    BY <2>2 DEF State
  <2>3. CASE sessions' = [sessions EXCEPT ![s].exec = x, ![s].phase = ph]
    <3>1. PICK st \in State : st = sessions[s]
      OBVIOUS
    <3>2. [st EXCEPT !.exec = x, !.phase = ph] \in State
      BY DEF State
    <3>3. sessions' = [sessions EXCEPT ![s] = [st EXCEPT !.exec = x, !.phase = ph]]
      BY <2>3, <3>1
    <3> QED BY <3>2, <3>3
  <2> QED BY <2>1, <2>2, <2>3
<1>2. LeasesKept
  BY DEF LeasesKept, State
<1> QED BY <1>1, <1>2

(* A step of one worker that changes no lease and only moves within its    *)
(* run, or out of it.                                                      *)
LEMMA RunStep ==
    ASSUME ExclusiveInv, NEW w \in Worker, NEW p \in Process,
           workers' = [workers EXCEPT ![w] = p],
           sessions' \in [Session -> State], LeasesKept,
           left' \in [Session -> Int],
           faults' \in [crashes : Nat, shutdowns : Nat, slips : Nat],
           faults'.slips = faults.slips,
           p.pc \in Running \cup {"join", "release"} => p.s \in Session,
           p.hb # "off" => p.pc \in Running \cup {"join"},
           p.pc \in Running /\ ~p.done =>
             /\ workers[w].pc \in Running /\ ~workers[w].done
             /\ p.s = workers[w].s /\ p.lost = workers[w].lost
             /\ p.hb = workers[w].hb /\ p.renewIn = workers[w].renewIn
    PROVE  ExclusiveInv'
<1>1. TypeInv'
  BY FrameType DEF ExclusiveInv
<1>2. Yields(w)
  BY DEF Yields, LeasesKept
<1>3. workers'[w] = p
  BY DEF ExclusiveInv, TypeInv, TypeOK
<1>4. Timely /\ p.pc \in Running /\ ~p.done => Guarded(w)'
  <2> SUFFICES ASSUME Timely, p.pc \in Running, ~p.done PROVE Guarded(w)'
    OBVIOUS
  <2>1. Guarded(w) /\ p.s = workers[w].s /\ p.s \in Session
    BY DEF ExclusiveInv
  <2>2. /\ sessions'[p.s].lease = sessions[p.s].lease
        /\ sessions'[p.s].expires = sessions[p.s].expires
    BY <2>1 DEF LeasesKept
  <2> QED BY <1>3, <2>1, <2>2 DEF Guarded
<1> QED BY <1>1, <1>2, <1>4, OneWorker

(* The same when the store is left alone.                                  *)
LEMMA StoreKept ==
    ASSUME ExclusiveInv, NEW w \in Worker, NEW p \in Process,
           workers' = [workers EXCEPT ![w] = p], sessions' = sessions,
           left' \in [Session -> Int],
           faults' \in [crashes : Nat, shutdowns : Nat, slips : Nat],
           faults'.slips = faults.slips,
           p.pc \in Running \cup {"join", "release"} => p.s \in Session,
           p.hb # "off" => p.pc \in Running \cup {"join"},
           p.pc \in Running /\ ~p.done =>
             /\ workers[w].pc \in Running /\ ~workers[w].done
             /\ p.s = workers[w].s /\ p.lost = workers[w].lost
             /\ p.hb = workers[w].hb /\ p.renewIn = workers[w].renewIn
    PROVE  ExclusiveInv'
<1>1. LeasesKept /\ sessions' \in [Session -> State]
  BY DEF LeasesKept, ExclusiveInv, TypeInv, TypeOK
<1> QED BY <1>1, RunStep

LEMMA ExclusiveInit == Init => ExclusiveInv
BY TypeInit DEF ExclusiveInv, Init, Started, Running

LEMMA StartOnceStep ==
    ASSUME ExclusiveInv, NEW w \in Worker, StartOnce(w) PROVE ExclusiveInv'
<1> DEFINE q == workers[w]
           p == [q EXCEPT !.pc = "claim", !.late = q.done]
<1>1. q \in Process /\ q.hb = "off"
  BY DEF ExclusiveInv, TypeInv, TypeOK, Targets, Running, StartOnce
<1>2. p \in Process /\ p.pc = "claim" /\ p.hb = q.hb /\ p.s = q.s
  BY <1>1 DEF Process, Pc
<1>3. /\ workers' = [workers EXCEPT ![w] = p]
      /\ UNCHANGED <<sessions, left, faults>>
  BY DEF StartOnce, Set
<1> HIDE DEF p, q
<1> QED BY <1>1, <1>2, <1>3, StoreKept DEF Running, ExclusiveInv, TypeInv, TypeOK

LEMMA ToolStep ==
    ASSUME ExclusiveInv, NEW w \in Worker, Tool(w) PROVE ExclusiveInv'
<1> DEFINE q == workers[w]
           p == [q EXCEPT !.pc = "finish"]
<1>1. q \in Process /\ q.s \in Session /\ q.pc = "tool"
  BY DEF ExclusiveInv, TypeInv, TypeOK, Targets, Tool, Running
<1>2. /\ p \in Process /\ p.pc = "finish" /\ p.pc \in Running /\ p.hb = q.hb /\ p.s = q.s
      /\ p.done = q.done /\ p.lost = q.lost /\ p.renewIn = q.renewIn
  BY <1>1 DEF Process, Pc, Running
<1>3. /\ workers' = [workers EXCEPT ![w] = p]
      /\ UNCHANGED <<sessions, left, faults>>
  BY DEF Tool, Set
<1>4. q.pc \in Running
  BY <1>1 DEF Running
<1>5. q = workers[w]
  OBVIOUS
<1> HIDE DEF p, q
<1> QED BY <1>1, <1>2, <1>3, <1>4, <1>5, StoreKept DEF ExclusiveInv, TypeInv, TypeOK

LEMMA DriveStep ==
    ASSUME ExclusiveInv, NEW w \in Worker, Drive(w) PROVE ExclusiveInv'
<1> DEFINE q == workers[w]
<1>1. q \in Process /\ q.s \in Session /\ q.pc = "drive" /\ q.pc \in Running
  BY DEF ExclusiveInv, TypeInv, TypeOK, Targets, Drive, Running
<1>2. PICK p : /\ workers' = [workers EXCEPT ![w] = p]
               /\ \/ p = [q EXCEPT !.pc = "join", !.out = "error"]
                  \/ p = [q EXCEPT !.pc = "join"]
                  \/ p = [q EXCEPT !.pc = "mark"]
  BY DEF Drive, Set
<1>3. /\ p \in Process /\ p.pc \in Running \cup {"join"} /\ p.hb = q.hb /\ p.s = q.s
      /\ p.done = q.done /\ p.lost = q.lost /\ p.renewIn = q.renewIn
  BY <1>1, <1>2 DEF Process, Pc, Running
<1>4. UNCHANGED <<sessions, left, faults>>
  BY DEF Drive
<1>5. q = workers[w]
  OBVIOUS
<1> HIDE DEF q
<1> QED BY <1>1, <1>2, <1>3, <1>4, <1>5, StoreKept DEF ExclusiveInv, TypeInv, TypeOK

LEMMA JoinStep ==
    ASSUME ExclusiveInv, NEW w \in Worker, Join(w) PROVE ExclusiveInv'
<1> DEFINE q == workers[w]
<1>1. q \in Process /\ q.s \in Session /\ q.hb = "off"
  BY DEF ExclusiveInv, TypeInv, TypeOK, Targets, Join, Running
<1>2. PICK o \in {"ok", "error", "nowork"} :
        workers' = [workers EXCEPT ![w] = [q EXCEPT !.pc = "release", !.out = o]]
  BY <1>1 DEF Join, Set, Process
<1> DEFINE p == [q EXCEPT !.pc = "release", !.out = o]
<1>3. p \in Process /\ p.pc = "release" /\ p.s = q.s /\ p.hb = "off"
  BY <1>1 DEF Process, Pc
<1>4. UNCHANGED <<sessions, left, faults>>
  BY DEF Join
<1>5. workers' = [workers EXCEPT ![w] = p]
  BY <1>2
<1> HIDE DEF p, q
<1> QED BY <1>1, <1>3, <1>4, <1>5, StoreKept DEF Running, ExclusiveInv, TypeInv, TypeOK

LEMMA AfterStep ==
    ASSUME ExclusiveInv, NEW w \in Worker, After(w) PROVE ExclusiveInv'
<1> DEFINE q == workers[w]
           r == [q EXCEPT !.out = "ok", !.late = FALSE, !.mode = 1]
           bi == backoffWait(r.nextIdle, MaxIdleWait)
           be == backoffWait(r.nextError, MaxErrorWait)
<1>1. q \in Process /\ q.hb = "off"
  BY DEF ExclusiveInv, TypeInv, TypeOK, Targets, Running, After
<1>2. r \in Process /\ r.hb = q.hb /\ r.s = q.s
  BY <1>1 DEF Process
<1>3. PICK p : /\ workers' = [workers EXCEPT ![w] = p]
               /\ \/ p = [r EXCEPT !.pc = "sleep", !.wait = r.nextError,
                                   !.nextError = be, !.nextIdle = IdleWait]
                  \/ p = [r EXCEPT !.pc = "sleep", !.wait = r.nextIdle,
                                   !.nextIdle = bi, !.nextError = ErrorWait]
                  \/ p = [r EXCEPT !.pc = "loop",
                                   !.nextIdle = IdleWait, !.nextError = ErrorWait]
  BY DEF After, Set
<1> HIDE DEF r
<1>4. /\ be \in Nat /\ bi \in Nat
      /\ IdleWait \in Nat /\ ErrorWait \in Nat
  BY <1>2, IntervalAssumption DEF backoffWait, Process
<1> HIDE DEF bi, be
<1>5. p \in Process /\ p.pc \in {"sleep", "loop"} /\ p.hb = r.hb /\ p.s = r.s
  <2>1. CASE p = [r EXCEPT !.pc = "sleep", !.wait = r.nextError,
                           !.nextError = be, !.nextIdle = IdleWait]
    BY <1>2, <1>4, <2>1 DEF Process, Pc
  <2>2. CASE p = [r EXCEPT !.pc = "sleep", !.wait = r.nextIdle,
                           !.nextIdle = bi, !.nextError = ErrorWait]
    BY <1>2, <1>4, <2>2 DEF Process, Pc
  <2>3. CASE p = [r EXCEPT !.pc = "loop",
                           !.nextIdle = IdleWait, !.nextError = ErrorWait]
    BY <1>2, <1>4, <2>3 DEF Process, Pc
  <2> QED BY <1>3, <2>1, <2>2, <2>3
<1>6. UNCHANGED <<sessions, left, faults>>
  BY DEF After
<1> HIDE DEF q
<1> QED BY <1>1, <1>2, <1>3, <1>5, <1>6, StoreKept
        DEF Running, ExclusiveInv, TypeInv, TypeOK

LEMMA sleepContextStep ==
    ASSUME ExclusiveInv, NEW w \in Worker, sleepContext(w) PROVE ExclusiveInv'
<1> DEFINE q == workers[w]
           p == [q EXCEPT !.pc = "stopped", !.wait = 0]
<1>1. q \in Process /\ q.hb = "off"
  BY DEF ExclusiveInv, TypeInv, TypeOK, Targets, Running, sleepContext
<1>2. p \in Process /\ p.pc = "stopped" /\ p.hb = q.hb /\ p.s = q.s
  BY <1>1 DEF Process, Pc
<1>3. /\ workers' = [workers EXCEPT ![w] = p]
      /\ UNCHANGED <<sessions, left, faults>>
  BY DEF sleepContext, Set
<1> HIDE DEF p, q
<1> QED BY <1>1, <1>2, <1>3, StoreKept DEF Running, ExclusiveInv, TypeInv, TypeOK

LEMMA WakeUpStep ==
    ASSUME ExclusiveInv, NEW w \in Worker, WakeUp(w) PROVE ExclusiveInv'
<1> DEFINE q == workers[w]
           p == [q EXCEPT !.pc = "loop"]
<1>1. q \in Process /\ q.hb = "off"
  BY DEF ExclusiveInv, TypeInv, TypeOK, Targets, Running, WakeUp
<1>2. p \in Process /\ p.pc = "loop" /\ p.hb = q.hb /\ p.s = q.s
  BY <1>1 DEF Process, Pc
<1>3. /\ workers' = [workers EXCEPT ![w] = p]
      /\ UNCHANGED <<sessions, left, faults>>
  BY DEF WakeUp, Set
<1> HIDE DEF p, q
<1> QED BY <1>1, <1>2, <1>3, StoreKept DEF Running, ExclusiveInv, TypeInv, TypeOK

LEMMA RecoverStep ==
    ASSUME ExclusiveInv, NEW w \in Worker, Recover(w) PROVE ExclusiveInv'
<1> DEFINE q == workers[w]
<1>1. q \in Process /\ q.s \in Session /\ q.pc \in Running
  BY DEF ExclusiveInv, TypeInv, TypeOK, Targets, Recover, Running
<1>2. PICK p : /\ workers' = [workers EXCEPT ![w] = p]
               /\ \/ p = [q EXCEPT !.pc = "join", !.out = "error"]
                  \/ p = [q EXCEPT !.pc = "join"]
                  \/ p = [q EXCEPT !.pc = "drive"]
  BY DEF Recover, Set
<1>3. /\ p \in Process /\ p.pc \in Running \cup {"join"} /\ p.hb = q.hb /\ p.s = q.s
      /\ p.done = q.done /\ p.lost = q.lost /\ p.renewIn = q.renewIn
  BY <1>1, <1>2 DEF Process, Pc, Running
<1>4. UNCHANGED <<left, faults>>
  BY DEF Recover
<1>5. sessions' = sessions
        \/ sessions' = [sessions EXCEPT ![q.s].exec = "idle", ![q.s].phase = "recover"]
  BY DEF Recover, Recovered, ExclusiveInv, TypeInv, TypeOK
<1>6. sessions' \in [Session -> State] /\ LeasesKept
  <2>1. sessions \in [Session -> State]
    BY DEF ExclusiveInv, TypeInv, TypeOK
  <2>2. "idle" \in ExecutionState /\ "recover" \in Phase
    BY DEF ExecutionState, Phase
  <2>3. PICK s \in Session : s = q.s
    BY <1>1
  <2> HIDE DEF q
  <2> QED BY <1>5, <2>1, <2>2, <2>3, ProgressKeepsLease
<1>7. q = workers[w]
  OBVIOUS
<1> HIDE DEF q
<1> QED BY <1>1, <1>2, <1>3, <1>4, <1>6, <1>7, RunStep DEF ExclusiveInv, TypeInv, TypeOK

LEMMA MarkStep ==
    ASSUME ExclusiveInv, NEW w \in Worker, Mark(w) PROVE ExclusiveInv'
<1> DEFINE q == workers[w]
<1>1. q \in Process /\ q.s \in Session /\ q.pc \in Running
  BY DEF ExclusiveInv, TypeInv, TypeOK, Targets, Mark, Running
<1>2. PICK p : /\ workers' = [workers EXCEPT ![w] = p]
               /\ \/ p = [q EXCEPT !.pc = "join", !.out = "error"]
                  \/ p = [q EXCEPT !.pc = "tool"]
  BY DEF Mark, Set
<1>3. /\ p \in Process /\ p.pc \in Running \cup {"join"} /\ p.hb = q.hb /\ p.s = q.s
      /\ p.done = q.done /\ p.lost = q.lost /\ p.renewIn = q.renewIn
  BY <1>1, <1>2 DEF Process, Pc, Running
<1>4. UNCHANGED <<left, faults>>
  BY DEF Mark
<1>5. sessions' = sessions \/ sessions' = [sessions EXCEPT ![q.s].exec = "in_flight"]
  BY DEF Mark
<1>6. sessions' \in [Session -> State] /\ LeasesKept
  <2>1. sessions \in [Session -> State]
    BY DEF ExclusiveInv, TypeInv, TypeOK
  <2>2. "in_flight" \in ExecutionState /\ "plan" \in Phase
    BY DEF ExecutionState, Phase
  <2>3. PICK s \in Session : s = q.s
    BY <1>1
  <2> HIDE DEF q
  <2> QED BY <1>5, <2>1, <2>2, <2>3, ProgressKeepsLease
<1>7. q = workers[w]
  OBVIOUS
<1> HIDE DEF q
<1> QED BY <1>1, <1>2, <1>3, <1>4, <1>6, <1>7, RunStep DEF ExclusiveInv, TypeInv, TypeOK

LEMMA FinishStep ==
    ASSUME ExclusiveInv, NEW w \in Worker, Finish(w) PROVE ExclusiveInv'
<1> DEFINE q == workers[w]
<1>1. q \in Process /\ q.s \in Session /\ q.pc \in Running
  BY DEF ExclusiveInv, TypeInv, TypeOK, Targets, Finish, Running
<1>2. PICK p : /\ workers' = [workers EXCEPT ![w] = p]
               /\ \/ p = [q EXCEPT !.pc = "join", !.out = "error"]
                  \/ p = [q EXCEPT !.pc = "join"]
                  \/ p = [q EXCEPT !.pc = "drive"]
  <2>1. CASE ~Holds(w) \/ Refused(q)
    BY <2>1 DEF Finish, Set
  <2>2. CASE Holds(w) /\ ~Refused(q)
    <3>1. PICK ok \in BOOLEAN :
            LET phase == IF ~ok THEN "failed"
                         ELSE IF left[q.s] = 1 THEN "complete" ELSE "plan"
            IN  workers' = [workers EXCEPT ![w] = [q EXCEPT !.pc =
                              IF isTerminalPhase(phase) THEN "join" ELSE "drive"]]
      BY <2>2 DEF Finish, Set
    <3> QED BY <3>1
  <2> QED BY <2>1, <2>2
<1>3. /\ p \in Process /\ p.pc \in Running \cup {"join"} /\ p.hb = q.hb /\ p.s = q.s
      /\ p.done = q.done /\ p.lost = q.lost /\ p.renewIn = q.renewIn
  BY <1>1, <1>2 DEF Process, Pc, Running
<1>4. /\ UNCHANGED faults
      /\ left' = left \/ left' = [left EXCEPT ![q.s] = @ - 1]
  BY DEF Finish
<1>5. PICK ph \in Phase :
        \/ sessions' = sessions
        \/ sessions' = [sessions EXCEPT ![q.s].exec = "idle", ![q.s].phase = ph]
  <2>1. {"failed", "complete", "plan"} \subseteq Phase
    BY DEF Phase
  <2>2. CASE ~Holds(w) \/ Refused(q)
    BY <2>1, <2>2 DEF Finish
  <2>3. CASE Holds(w) /\ ~Refused(q)
    BY <2>1, <2>3 DEF Finish
  <2> QED BY <2>2, <2>3
<1>6. sessions' \in [Session -> State] /\ LeasesKept
  <2>1. sessions \in [Session -> State] /\ "idle" \in ExecutionState
    BY DEF ExclusiveInv, TypeInv, TypeOK, ExecutionState
  <2>2. PICK s \in Session : s = q.s
    BY <1>1
  <2> HIDE DEF q
  <2> QED BY <1>5, <2>1, <2>2, ProgressKeepsLease
<1>7. left' \in [Session -> Int]
  BY <1>1, <1>4 DEF ExclusiveInv, TypeInv, TypeOK
<1>8. q = workers[w]
  OBVIOUS
<1> HIDE DEF q
<1> QED BY <1>1, <1>2, <1>3, <1>4, <1>6, <1>7, <1>8, RunStep DEF ExclusiveInv, TypeInv, TypeOK

LEMMA ShutdownStep ==
    ASSUME ExclusiveInv, NEW w \in Worker, Shutdown(w) PROVE ExclusiveInv'
<1> DEFINE q == workers[w]
           p == [q EXCEPT !.done = TRUE]
<1>1. /\ q \in Process /\ (q.hb # "off" => q.pc \in Running \cup {"join"})
      /\ q.pc \in Running \cup {"join", "release"} => q.s \in Session
  BY DEF ExclusiveInv, TypeInv, TypeOK, Targets
<1>2. p \in Process /\ p.pc = q.pc /\ p.hb = q.hb /\ p.s = q.s /\ p.done
  BY <1>1 DEF Process
<1>3. /\ workers' = [workers EXCEPT ![w] = p]
      /\ UNCHANGED <<sessions, left>>
  BY DEF Shutdown, Set
<1>4. /\ faults' \in [crashes : Nat, shutdowns : Nat, slips : Nat]
      /\ faults'.slips = faults.slips
  BY DEF Shutdown, ExclusiveInv, TypeInv, TypeOK
<1> HIDE DEF p, q
<1> QED BY <1>1, <1>2, <1>3, <1>4, StoreKept DEF ExclusiveInv, TypeInv, TypeOK

LEMMA CrashStep ==
    ASSUME ExclusiveInv, NEW w \in Worker, Crash(w) PROVE ExclusiveInv'
<1> DEFINE p == [Started EXCEPT !.pc = "down"]
<1>1. p \in Process /\ p.pc = "down" /\ p.hb = "off"
  BY StartedType DEF Started
<1>2. /\ workers' = [workers EXCEPT ![w] = p]
      /\ UNCHANGED <<sessions, left>>
  BY DEF Crash, Set
<1>3. /\ faults' \in [crashes : Nat, shutdowns : Nat, slips : Nat]
      /\ faults'.slips = faults.slips
  BY DEF Crash, ExclusiveInv, TypeInv, TypeOK
<1> HIDE DEF p
<1> QED BY <1>1, <1>2, <1>3, StoreKept DEF Running, ExclusiveInv, TypeInv, TypeOK

LEMMA RestartStep ==
    ASSUME ExclusiveInv, NEW w \in Worker, Restart(w) PROVE ExclusiveInv'
<1> DEFINE p == Started
<1>1. p \in Process /\ p.pc = "loop" /\ p.hb = "off"
  BY StartedType DEF Started
<1>2. /\ workers' = [workers EXCEPT ![w] = p]
      /\ UNCHANGED <<sessions, left, faults>>
  BY DEF Restart, Set
<1> HIDE DEF p
<1> QED BY <1>1, <1>2, StoreKept DEF Running, ExclusiveInv, TypeInv, TypeOK

(* A step that counts a slip has only its types to keep.                   *)
LEMMA SlipStep ==
    ASSUME ExclusiveInv, TypeInv', Slip PROVE ExclusiveInv'
<1>1. faults'.slips # 0
  BY DEF Slip, ExclusiveInv, TypeInv, TypeOK
<1> QED BY <1>1 DEF ExclusiveInv, Timely

LEMMA StoreErrorStep ==
    ASSUME ExclusiveInv, NEW w \in Worker, StoreError(w) PROVE ExclusiveInv'
<1> DEFINE q == workers[w]
<1>1. /\ q \in Process /\ (q.hb # "off" => q.pc \in Running \cup {"join"})
      /\ q.pc \in Running \cup {"join", "release"} => q.s \in Session
  BY DEF ExclusiveInv, TypeInv, TypeOK, Targets
<1>2. Slip /\ UNCHANGED <<sessions, left>>
  BY DEF StoreError
<1>3. faults' \in [crashes : Nat, shutdowns : Nat, slips : Nat]
  BY <1>2 DEF Slip, ExclusiveInv, TypeInv, TypeOK
<1>4. PICK p : /\ workers' = [workers EXCEPT ![w] = p]
               /\ \/ /\ q.pc = "claim"
                     /\ p = [q EXCEPT !.pc = "after", !.out = "error"]
                  \/ /\ q.pc \in {"recover", "mark", "finish"}
                     /\ p = [q EXCEPT !.pc = "join", !.out = "error"]
                  \/ /\ q.pc = "release"
                     /\ p = [q EXCEPT !.pc = "after", !.out = "error",
                                      !.s = NoSession, !.lost = FALSE]
                  \/ /\ q.hb = "renew"
                     /\ p = [q EXCEPT !.hb = "off", !.renewIn = 0,
                                      !.lost = q.lost \/ ~RenewEnded(q)]
  BY DEF StoreError, Set
<1>5. PICK b \in BOOLEAN : b = (q.lost \/ ~RenewEnded(q))
  OBVIOUS
<1>6. /\ p \in Process
      /\ p.pc \in Running \cup {"join", "release"} => p.s \in Session
      /\ p.hb # "off" => p.pc \in Running \cup {"join"}
  <2>1. CASE /\ q.pc = "claim"
             /\ p = [q EXCEPT !.pc = "after", !.out = "error"]
    BY <1>1, <2>1 DEF Process, Pc, Running
  <2>2. CASE /\ q.pc \in {"recover", "mark", "finish"}
             /\ p = [q EXCEPT !.pc = "join", !.out = "error"]
    BY <1>1, <2>2 DEF Process, Pc, Running
  <2>3. CASE /\ q.pc = "release"
             /\ p = [q EXCEPT !.pc = "after", !.out = "error",
                              !.s = NoSession, !.lost = FALSE]
    BY <1>1, <2>3 DEF Process, Pc, Running
  <2>4. CASE p = [q EXCEPT !.hb = "off", !.renewIn = 0, !.lost = b]
    BY <1>1, <2>4 DEF Process
  <2> QED BY <1>4, <1>5, <2>1, <2>2, <2>3, <2>4
<1>7. TypeInv'
  BY <1>2, <1>3, <1>4, <1>6, FrameType DEF ExclusiveInv, TypeInv, TypeOK
<1> QED BY <1>2, <1>7, SlipStep

LEMMA ClaimStep ==
    ASSUME ExclusiveInv, NEW w \in Worker, Claim(w) PROVE ExclusiveInv'
<1> DEFINE q == workers[w]
<1>1. q \in Process /\ q.hb = "off" /\ q.mode \in Nat
  BY DEF ExclusiveInv, TypeInv, TypeOK, Targets, Running, Claim, Process
<1>2. UNCHANGED <<left, faults>>
  BY DEF Claim
<1>3. \/ /\ sessions' = sessions
         /\ \/ workers' = [workers EXCEPT ![w] = [q EXCEPT !.pc = "after", !.out = "error"]]
            \/ workers' = [workers EXCEPT ![w] = [q EXCEPT !.pc = "after", !.out = "nowork"]]
            \/ workers' = [workers EXCEPT ![w] = [q EXCEPT !.mode = q.mode + 1]]
      \/ \E s \in Session, c \in {"drive", "recover"} :
           /\ Claimable(s, claimModes[q.mode])
           /\ sessions' = [sessions EXCEPT ![s].lease = w, ![s].expires = LeaseTTL]
           /\ workers' = [workers EXCEPT ![w] = [q EXCEPT !.s = s, !.mode = 1,
                !.hb = "wait", !.lost = FALSE, !.renewIn = RenewInterval, !.pc = c]]
  BY DEF Claim, Set
<1>4. CASE /\ sessions' = sessions
           /\ \/ workers' = [workers EXCEPT ![w] = [q EXCEPT !.pc = "after", !.out = "error"]]
              \/ workers' = [workers EXCEPT ![w] = [q EXCEPT !.pc = "after", !.out = "nowork"]]
              \/ workers' = [workers EXCEPT ![w] = [q EXCEPT !.mode = q.mode + 1]]
  <2>1. PICK m \in Nat : m = q.mode + 1
    BY <1>1
  <2>2. PICK p : /\ workers' = [workers EXCEPT ![w] = p]
                 /\ \/ p = [q EXCEPT !.pc = "after", !.out = "error"]
                    \/ p = [q EXCEPT !.pc = "after", !.out = "nowork"]
                    \/ p = [q EXCEPT !.mode = m]
    BY <1>4, <2>1
  <2>3. q.pc = "claim"
    BY DEF Claim
  <2>4. p \in Process /\ p.pc \in {"after", "claim"} /\ p.hb = "off"
    BY <1>1, <2>2, <2>3 DEF Process, Pc
  <2> HIDE DEF q
  <2> QED BY <1>2, <1>4, <2>2, <2>4, StoreKept DEF Running, ExclusiveInv, TypeInv, TypeOK
<1>5. CASE \E s \in Session, c \in {"drive", "recover"} :
           /\ Claimable(s, claimModes[q.mode])
           /\ sessions' = [sessions EXCEPT ![s].lease = w, ![s].expires = LeaseTTL]
           /\ workers' = [workers EXCEPT ![w] = [q EXCEPT !.s = s, !.mode = 1,
                !.hb = "wait", !.lost = FALSE, !.renewIn = RenewInterval, !.pc = c]]
  <2>1. PICK s \in Session, c \in {"drive", "recover"} :
           /\ Claimable(s, claimModes[q.mode])
           /\ sessions' = [sessions EXCEPT ![s].lease = w, ![s].expires = LeaseTTL]
           /\ workers' = [workers EXCEPT ![w] = [q EXCEPT !.s = s, !.mode = 1,
                !.hb = "wait", !.lost = FALSE, !.renewIn = RenewInterval, !.pc = c]]
    BY <1>5
  <2> DEFINE p == [q EXCEPT !.s = s, !.mode = 1, !.hb = "wait", !.lost = FALSE,
                            !.renewIn = RenewInterval, !.pc = c]
  <2>2. /\ RenewInterval \in Nat /\ LeaseTTL \in Nat \ {0} /\ w \in Nat
        /\ sessions \in [Session -> State]
    BY IntervalAssumption, WorkerAssumption DEF ExclusiveInv, TypeInv, TypeOK
  <2>3. /\ p \in Process /\ p.pc \in Running /\ p.s = s /\ ~p.lost
        /\ p.hb = "wait" /\ p.renewIn = RenewInterval
    BY <1>1, <2>2 DEF Process, Pc, Running
  <2>4. /\ sessions' \in [Session -> State]
        /\ sessions'[s].lease = w /\ sessions'[s].expires = LeaseTTL
        /\ \A r \in Session \ {s} : sessions'[r] = sessions[r]
    BY <2>1, <2>2, LeaseWriteStep
  <2>5. sessions[s].lease = NoLease \/ sessions[s].expires <= 0
    BY <2>1, <2>2 DEF Claimable, claimCondition, claimableState, leaseActiveAt, State
  <2>6. Yields(w)
    BY <2>2, <2>4, <2>5 DEF Yields, State
  <2>7. workers' = [workers EXCEPT ![w] = p]
    BY <2>1
  <2> HIDE DEF p, q
  <2>8. TypeInv'
    BY <1>2, <2>3, <2>4, <2>7, FrameType DEF ExclusiveInv, TypeInv, TypeOK
  <2>9. Timely => Guarded(w)'
    <3>1. workers'[w] = p
      BY <2>7 DEF ExclusiveInv, TypeInv, TypeOK
    <3> QED BY <2>2, <2>3, <2>4, <3>1 DEF Timely, Guarded
  <2> QED BY <1>2, <2>3, <2>6, <2>7, <2>8, <2>9, OneWorker
<1> QED BY <1>3, <1>4, <1>5

LEMMA ReleaseStep ==
    ASSUME ExclusiveInv, NEW w \in Worker, Release(w) PROVE ExclusiveInv'
<1> DEFINE q == workers[w]
<1>1. q \in Process /\ q.s \in Session /\ q.hb = "off"
  BY DEF ExclusiveInv, TypeInv, TypeOK, Targets, Running, Release
<1>2. UNCHANGED <<left, faults>>
  BY DEF Release
<1>3. PICK o \in {"ok", "error", "nowork"} :
        workers' = [workers EXCEPT ![w] = [q EXCEPT !.pc = "after", !.s = NoSession,
                                                    !.lost = FALSE, !.out = o]]
  BY <1>1 DEF Release, Set, Process
<1> DEFINE p == [q EXCEPT !.pc = "after", !.s = NoSession, !.lost = FALSE, !.out = o]
<1>4. p \in Process /\ p.pc = "after" /\ p.hb = "off"
  BY <1>1 DEF Process, Pc
<1>5. PICK s \in Session : s = q.s
  BY <1>1
<1>6. /\ sessions \in [Session -> State] /\ w # NoLease /\ w \in Nat /\ NoLease \in Nat
  BY WorkerAssumption DEF ExclusiveInv, TypeInv, TypeOK, NoLease
<1>7. sessions' \in [Session -> State] /\ Yields(w)
  <2>1. CASE ~Holds(w)
    BY <1>6, <2>1 DEF Release, Yields
  <2>2. CASE Holds(w)
    <3>1. sessions[s].lease = w
      BY <1>5, <1>6, <2>2 DEF Holds, requireSessionLease
    <3>2. sessions' = [sessions EXCEPT ![s].lease = NoLease, ![s].expires = 0]
      BY <1>5, <2>2 DEF Release
    <3>3. /\ sessions' \in [Session -> State]
          /\ \A r \in Session \ {s} : sessions'[r] = sessions[r]
      BY <1>6, <3>2, LeaseWriteStep
    <3> QED BY <3>1, <3>3 DEF Yields
  <2> QED BY <2>1, <2>2
<1>8. workers' = [workers EXCEPT ![w] = p]
  BY <1>3
<1> HIDE DEF p, q
<1>9. TypeInv'
  BY <1>2, <1>4, <1>7, <1>8, FrameType DEF Running, ExclusiveInv, TypeInv, TypeOK
<1> QED BY <1>2, <1>4, <1>7, <1>8, <1>9, OneWorker DEF Running

(* Nothing ends the heartbeat of a guarded run.                            *)
LEMMA GuardedRenews ==
    ASSUME NEW w \in Worker, Guarded(w), workers[w].pc \in Running, ~workers[w].done
    PROVE  Holds(w) /\ ~RenewEnded(workers[w])
BY WorkerAssumption
   DEF Guarded, Holds, requireSessionLease, NoLease, RenewEnded, Cancelled, Running

LEMMA HeartbeatStepKept ==
    ASSUME ExclusiveInv, NEW w \in Worker, Heartbeat(w) PROVE ExclusiveInv'
<1> DEFINE q == workers[w]
<1>1. q \in Process /\ q.s \in Session /\ q.pc \in Running \cup {"join"}
  BY DEF ExclusiveInv, TypeInv, TypeOK, Targets, Heartbeat
<1>2. UNCHANGED <<sessions, left, faults>>
  BY DEF Heartbeat
<1>3. PICK h \in {"renew", "off"}, n \in Nat :
        /\ workers' = [workers EXCEPT ![w] = [q EXCEPT !.hb = h, !.renewIn = n]]
        /\ h = "off" => RenewEnded(q)
  <2>1. CASE q.renewIn = 0 /\ Set(w, [q EXCEPT !.hb = "renew"])
    <3>1. [q EXCEPT !.hb = "renew"] = [q EXCEPT !.hb = "renew", !.renewIn = 0]
      BY <1>1, <2>1 DEF Process
    <3> QED BY <2>1, <3>1 DEF Set
  <2>2. CASE RenewEnded(q) /\ Set(w, [q EXCEPT !.hb = "off", !.renewIn = 0])
    BY <2>2 DEF Set
  <2> QED BY <2>1, <2>2 DEF Heartbeat
<1> DEFINE p == [q EXCEPT !.hb = h, !.renewIn = n]
<1>4. /\ p \in Process /\ p.pc = q.pc /\ p.hb = h /\ p.s = q.s
      /\ p.done = q.done /\ p.lost = q.lost
  BY <1>1 DEF Process
<1>5. workers' = [workers EXCEPT ![w] = p] /\ q = workers[w]
  BY <1>3
<1> HIDE DEF p, q
<1>6. TypeInv' /\ Yields(w)
  BY <1>1, <1>2, <1>4, <1>5, FrameType DEF Yields, ExclusiveInv, TypeInv, TypeOK
<1>7. Timely /\ p.pc \in Running /\ ~p.done => Guarded(w)'
  <2> SUFFICES ASSUME Timely, p.pc \in Running, ~p.done PROVE Guarded(w)'
    OBVIOUS
  <2>1. Guarded(w)
    BY <1>4, <1>5 DEF ExclusiveInv
  <2>2. h = "renew"
    BY <1>3, <1>4, <1>5, <2>1, GuardedRenews
  <2>3. workers'[w] = p
    BY <1>5 DEF ExclusiveInv, TypeInv, TypeOK
  <2> QED BY <1>2, <1>4, <1>5, <2>1, <2>2, <2>3 DEF Guarded
<1> QED BY <1>2, <1>4, <1>5, <1>6, <1>7, OneWorker

LEMMA RenewLeaseStep ==
    ASSUME ExclusiveInv, NEW w \in Worker, RenewLease(w) PROVE ExclusiveInv'
<1> DEFINE q == workers[w]
<1>1. /\ q \in Process /\ q.s \in Session /\ q.pc \in Running \cup {"join"}
      /\ sessions \in [Session -> State]
  BY DEF ExclusiveInv, TypeInv, TypeOK, Targets, RenewLease
<1>2. UNCHANGED <<left, faults>>
  BY DEF RenewLease
<1>3. CASE Holds(w) /\ ~(Durable /\ RenewEnded(q))
  <2> DEFINE p == [q EXCEPT !.hb = "wait", !.renewIn = RenewInterval]
  <2>1. /\ workers' = [workers EXCEPT ![w] = p]
        /\ sessions' = [sessions EXCEPT ![q.s].expires = LeaseTTL]
    BY <1>3 DEF RenewLease, Set
  <2>2. RenewInterval \in Nat /\ LeaseTTL \in Nat \ {0} /\ w # NoLease /\ w \in Nat
    BY IntervalAssumption, WorkerAssumption DEF NoLease
  <2>3. /\ p \in Process /\ p.pc = q.pc /\ p.hb = "wait" /\ p.s = q.s
        /\ p.done = q.done /\ p.lost = q.lost /\ p.renewIn = RenewInterval
    BY <1>1, <2>2 DEF Process
  <2>4. PICK s \in Session : s = q.s
    BY <1>1
  <2>5. sessions[s].lease = w
    BY <1>3, <2>2, <2>4 DEF Holds, requireSessionLease
  <2>6. /\ sessions' \in [Session -> State]
        /\ sessions'[s].lease = w /\ sessions'[s].expires = LeaseTTL
        /\ \A r \in Session \ {s} : sessions'[r] = sessions[r]
    <3>1. sessions' = [sessions EXCEPT ![s].expires = LeaseTTL]
      BY <2>1, <2>4
    <3>2. LeaseTTL \in Nat
      BY <2>2
    <3> HIDE DEF q
    <3> QED BY <1>1, <2>5, <3>1, <3>2, LeaseExtendStep
  <2>7. Yields(w)
    BY <2>5, <2>6 DEF Yields
  <2>8. q = workers[w]
    OBVIOUS
  <2> HIDE DEF p, q
  <2>9. TypeInv'
    BY <1>1, <1>2, <2>1, <2>3, <2>6, FrameType DEF ExclusiveInv, TypeInv, TypeOK
  <2>10. Timely /\ p.pc \in Running /\ ~p.done => Guarded(w)'
    <3> SUFFICES ASSUME Timely, p.pc \in Running, ~p.done PROVE Guarded(w)'
      OBVIOUS
    <3>1. ~p.lost
      BY <2>3, <2>8 DEF ExclusiveInv, Guarded
    <3>2. workers'[w] = p
      BY <2>1 DEF ExclusiveInv, TypeInv, TypeOK
    <3> QED BY <2>2, <2>3, <2>4, <2>6, <3>1, <3>2 DEF Guarded, Timely
  <2> QED BY <1>2, <2>1, <2>3, <2>7, <2>9, <2>10, OneWorker
<1>4. CASE ~(Holds(w) /\ ~(Durable /\ RenewEnded(q)))
  <2>1. PICK b \in BOOLEAN :
          workers' = [workers EXCEPT ![w] =
                        [q EXCEPT !.hb = "off", !.renewIn = 0, !.lost = b]]
    BY <1>4 DEF RenewLease, Set
  <2> DEFINE p == [q EXCEPT !.hb = "off", !.renewIn = 0, !.lost = b]
  <2>2. p \in Process /\ p.pc = q.pc /\ p.hb = "off" /\ p.s = q.s /\ p.done = q.done
    BY <1>1 DEF Process
  <2>3. workers' = [workers EXCEPT ![w] = p] /\ sessions' = sessions /\ q = workers[w]
    BY <1>4, <2>1 DEF RenewLease
  <2> HIDE DEF p, q
  <2>4. TypeInv' /\ Yields(w)
    BY <1>1, <1>2, <2>2, <2>3, FrameType DEF Yields, ExclusiveInv, TypeInv, TypeOK
  <2>5. ~(Timely /\ p.pc \in Running /\ ~p.done)
    BY <1>4, <2>2, <2>3, GuardedRenews DEF ExclusiveInv
  <2> QED BY <1>2, <2>2, <2>3, <2>4, <2>5, OneWorker
<1> QED BY <1>3, <1>4

(* What the passing of a tick does to the records that count time.         *)
LEMMA ElapseEffect ==
    ASSUME TypeInv, Elapse
    PROVE  /\ \A s \in Session :
                /\ sessions'[s] \in State
                /\ sessions'[s].lease = sessions[s].lease
                /\ sessions'[s].expires = Less(sessions[s].expires)
           /\ \A w \in Worker :
                /\ workers'[w] \in Process
                /\ workers'[w].pc = workers[w].pc /\ workers'[w].s = workers[w].s
                /\ workers'[w].done = workers[w].done
                /\ workers'[w].lost = workers[w].lost
                /\ workers'[w].hb = workers[w].hb
                /\ workers'[w].renewIn = Less(workers[w].renewIn)
<1>1. ASSUME NEW s \in Session
      PROVE  /\ sessions'[s] \in State
             /\ sessions'[s].lease = sessions[s].lease
             /\ sessions'[s].expires = Less(sessions[s].expires)
  <2>1. sessions[s] \in State
    BY DEF TypeInv, TypeOK
  <2>2. PICK e \in Nat : e = Less(sessions[s].expires)
    BY <2>1 DEF State, Less
  <2>3. sessions'[s] = [sessions[s] EXCEPT !.expires = e]
    BY <2>2 DEF Elapse
  <2> QED BY <2>1, <2>2, <2>3 DEF State
<1>2. ASSUME NEW w \in Worker
      PROVE  /\ workers'[w] \in Process
             /\ workers'[w].pc = workers[w].pc /\ workers'[w].s = workers[w].s
             /\ workers'[w].done = workers[w].done
             /\ workers'[w].lost = workers[w].lost
             /\ workers'[w].hb = workers[w].hb
             /\ workers'[w].renewIn = Less(workers[w].renewIn)
  <2>1. workers[w] \in Process
    BY DEF TypeInv, TypeOK
  <2>2. PICK n \in Nat, m \in Nat :
          n = Less(workers[w].renewIn) /\ m = Less(workers[w].wait)
    BY <2>1 DEF Process, Less
  <2>3. workers'[w] = [workers[w] EXCEPT !.renewIn = n, !.wait = m]
    BY <2>2 DEF Elapse
  <2> QED BY <2>1, <2>2, <2>3 DEF Process
<1> QED BY <1>1, <1>2

(* Types survive the passing of time.                                      *)
LEMMA ElapseType ==
    ASSUME TypeInv, Elapse, faults' \in [crashes : Nat, shutdowns : Nat, slips : Nat]
    PROVE  TypeInv'
<1>1. /\ sessions' \in [Session -> State] /\ workers' \in [Worker -> Process]
      /\ left' = left
  BY ElapseEffect DEF Elapse
<1>2. Targets'
  BY ElapseEffect DEF Targets, TypeInv
<1> QED BY <1>1, <1>2 DEF TypeInv, TypeOK

LEMMA LateTickStep ==
    ASSUME ExclusiveInv, LateTick PROVE ExclusiveInv'
<1>1. faults' \in [crashes : Nat, shutdowns : Nat, slips : Nat]
  BY DEF LateTick, Slip, ExclusiveInv, TypeInv, TypeOK
<1> QED BY <1>1, ElapseType, SlipStep DEF LateTick, ExclusiveInv

LEMMA TickStep ==
    ASSUME ExclusiveInv, Tick PROVE ExclusiveInv'
<1>1. TypeInv'
  BY ElapseType DEF Tick, ExclusiveInv, TypeInv, TypeOK
<1>2. ASSUME Timely, NEW w \in Worker, workers'[w].pc \in Running, ~workers'[w].done
      PROVE  Guarded(w)'
  <2> DEFINE e == sessions[workers[w].s].expires
             n == workers[w].renewIn
  <2>1. /\ workers'[w].pc = workers[w].pc /\ workers'[w].s = workers[w].s
        /\ workers'[w].done = workers[w].done /\ workers'[w].lost = workers[w].lost
        /\ workers'[w].hb = workers[w].hb /\ workers'[w].renewIn = Less(n)
    BY ElapseEffect DEF Tick, ExclusiveInv
  <2>2. workers[w].s \in Session /\ Guarded(w)
    BY <1>2, <2>1 DEF ExclusiveInv, TypeInv, Targets
  <2>3. /\ sessions'[workers[w].s].lease = sessions[workers[w].s].lease
        /\ sessions'[workers[w].s].expires = Less(e)
    BY <2>2, ElapseEffect DEF Tick, ExclusiveInv
  <2>4. workers[w].hb \in {"off", "wait", "renew"} /\ n \in Nat /\ e \in Nat
    BY <2>2 DEF ExclusiveInv, TypeInv, TypeOK, Process, State
  <2>5. workers[w].hb = "wait" /\ n > 0 /\ e > n
    BY <2>2, <2>4 DEF Tick, OnTime, Guarded
  <2>6. Less(e) > Less(n) /\ Less(e) > 0
    BY <2>4, <2>5 DEF Less
  <2> HIDE DEF e, n
  <2> QED BY <2>1, <2>2, <2>3, <2>5, <2>6 DEF Guarded
<1> QED BY <1>1, <1>2 DEF ExclusiveInv, Timely, Tick

----------------------------------------------------------------------------
(* Every step, and the theorems.                                           *)

LEMMA WorkerStepKept ==
    ASSUME ExclusiveInv, NEW w \in Worker, WorkerStep(w) PROVE ExclusiveInv'
BY StartOnceStep, ClaimStep, RecoverStep, DriveStep, MarkStep, ToolStep, FinishStep,
   JoinStep, ReleaseStep, AfterStep, sleepContextStep, WakeUpStep DEF WorkerStep

LEMMA ExclusiveStep == ExclusiveInv /\ [Next]_vars => ExclusiveInv'
<1> SUFFICES ASSUME ExclusiveInv, [Next]_vars PROVE ExclusiveInv'
  OBVIOUS
<1>1. CASE UNCHANGED vars
  BY <1>1 DEF vars, ExclusiveInv, TypeInv, TypeOK, Targets, Timely, Guarded
<1>2. CASE Tick
  BY <1>2, TickStep
<1>3. CASE LateTick
  BY <1>3, LateTickStep
<1>4. ASSUME NEW w \in Worker, WorkerStep(w) PROVE ExclusiveInv'
  BY <1>4, WorkerStepKept
<1>5. ASSUME NEW w \in Worker, HeartbeatStep(w) PROVE ExclusiveInv'
  BY <1>5, HeartbeatStepKept, RenewLeaseStep DEF HeartbeatStep
<1>6. ASSUME NEW w \in Worker, StoreError(w) \/ Shutdown(w) \/ Crash(w) \/ Restart(w)
      PROVE  ExclusiveInv'
  BY <1>6, StoreErrorStep, ShutdownStep, CrashStep, RestartStep
<1> QED BY <1>1, <1>2, <1>3, <1>4, <1>5, <1>6 DEF Next

----------------------------------------------------------------------------
(* Leases given back, and runs on an ended context.                        *)

InSession == Running \cup {"join", "release"}

(* A process is about a session only while it runs it or winds it up; an   *)
(* iteration that began late has an ended context.                         *)
Between ==
    \A w \in Worker : /\ workers[w].s # NoSession => workers[w].pc \in InSession
                      /\ workers[w].late => workers[w].done

(* Nothing has failed that could strand a lease.                           *)
Unbroken == faults.slips = 0 /\ faults.crashes = 0

(* An active lease names the worker that is about the session.             *)
LeaseIsAbout ==
    \A w \in Worker, s \in Session :
        sessions[s].lease = w /\ sessions[s].expires > 0 => workers[w].s = s

ReturnInv ==
    /\ Between
    /\ Unbroken => LeaseIsAbout
    /\ Durable => NoRunAfterContextEnds

LEMMA ReturnInit == Init => ReturnInv
<1> SUFFICES ASSUME Init PROVE ReturnInv
  OBVIOUS
<1>1. Between /\ NoRunAfterContextEnds
  BY DEF Init, Between, NoRunAfterContextEnds, Started
<1>2. LeaseIsAbout
  <2>1. \A s \in Session : sessions[s].expires = 0
    BY DEF Init, Created, Absent
  <2> QED BY <2>1 DEF LeaseIsAbout
<1> QED BY <1>1, <1>2 DEF ReturnInv

(* Only the stack frame of worker w changes.                               *)
OnlyMoves(w) == \A v \in Worker \ {w} : workers'[v] = workers[v]

LEMMA SetMoves ==
    ASSUME TypeInv, NEW w \in Worker, NEW p, Set(w, p)
    PROVE  workers'[w] = p /\ OnlyMoves(w)
BY DEF Set, OnlyMoves, TypeInv, TypeOK

(* What a step of worker w has to respect.                                 *)
LEMMA ReturnFrame ==
    ASSUME TypeInv, ReturnInv, NEW w \in Worker, NEW p,
           workers'[w] = p, OnlyMoves(w),
           p.s # NoSession => p.pc \in InSession,
           p.late => p.done,
           Durable /\ p.late => p.s = NoSession,
           Unbroken' =>
             /\ Unbroken
             /\ \A s \in Session, v \in Worker :
                  sessions'[s].lease = v /\ sessions'[s].expires > 0 =>
                    IF v = w THEN p.s = s
                             ELSE sessions[s].lease = v /\ sessions[s].expires > 0
    PROVE  ReturnInv'
<1>1. /\ workers'[w] = p
      /\ \A v \in Worker \ {w} : workers'[v] = workers[v]
  BY DEF OnlyMoves
<1>2. Between'
  BY <1>1 DEF ReturnInv, Between
<1>3. Durable => NoRunAfterContextEnds'
  BY <1>1 DEF ReturnInv, NoRunAfterContextEnds
<1>4. Unbroken' => LeaseIsAbout'
  BY <1>1 DEF ReturnInv, LeaseIsAbout
<1> QED BY <1>2, <1>3, <1>4 DEF ReturnInv

(* A step inside an iteration that changes no lease and neither the        *)
(* session nor the context the iteration is about.                         *)
LEMMA SameIteration ==
    ASSUME TypeInv, ReturnInv, NEW w \in Worker, NEW p,
           workers'[w] = p, OnlyMoves(w), LeasesKept, faults' = faults,
           p.s = workers[w].s, p.late = workers[w].late, p.done = workers[w].done,
           workers[w].pc \in InSession => p.pc \in InSession
    PROVE  ReturnInv'
<1>1. /\ p.s # NoSession => p.pc \in InSession
      /\ p.late => p.done
      /\ Durable /\ p.late => p.s = NoSession
  BY DEF ReturnInv, Between, NoRunAfterContextEnds
<1>2. Unbroken' =>
        /\ Unbroken
        /\ \A s \in Session, v \in Worker :
             sessions'[s].lease = v /\ sessions'[s].expires > 0 =>
               IF v = w THEN p.s = s
                        ELSE sessions[s].lease = v /\ sessions[s].expires > 0
  BY DEF ReturnInv, Unbroken, LeaseIsAbout, LeasesKept
<1> HIDE DEF LeasesKept
<1> QED BY <1>1, <1>2, ReturnFrame

LEMMA RunReturn ==
    ASSUME TypeInv, ReturnInv, NEW w \in Worker,
           \/ Recover(w) \/ Drive(w) \/ Mark(w) \/ Tool(w) \/ Finish(w) \/ Join(w)
    PROVE  ReturnInv'
<1> DEFINE q == workers[w]
<1>1. q \in Process /\ q.s \in Session
  BY DEF TypeInv, TypeOK, Targets, Recover, Drive, Mark, Tool, Finish, Join, Running
<1> DEFINE p == workers'[w]
<1>2. OnlyMoves(w)
  BY SetMoves DEF Recover, Drive, Mark, Tool, Finish, Join
<1>3. p.pc \in InSession /\ p.s = q.s /\ p.late = q.late /\ p.done = q.done
  <2>1. ASSUME NEW c \in InSession, NEW o, \/ p = [q EXCEPT !.pc = c]
                                           \/ p = [q EXCEPT !.pc = c, !.out = o]
        PROVE  p.pc \in InSession /\ p.s = q.s /\ p.late = q.late /\ p.done = q.done
    BY <1>1, <2>1 DEF Process
  <2>2. {"join", "drive", "mark", "tool", "finish", "release"} \subseteq InSession
    BY DEF InSession, Running
  <2>3. CASE Recover(w)
    <3>1. \/ p = [q EXCEPT !.pc = "join"] \/ p = [q EXCEPT !.pc = "drive"]
          \/ p = [q EXCEPT !.pc = "join", !.out = "error"]
      BY <2>3, SetMoves DEF Recover
    <3> QED BY <2>1, <2>2, <3>1
  <2>4. CASE Drive(w)
    <3>1. \/ p = [q EXCEPT !.pc = "join"] \/ p = [q EXCEPT !.pc = "mark"]
          \/ p = [q EXCEPT !.pc = "join", !.out = "error"]
      BY <2>4, SetMoves DEF Drive
    <3> QED BY <2>1, <2>2, <3>1
  <2>5. CASE Mark(w)
    <3>1. p = [q EXCEPT !.pc = "tool"] \/ p = [q EXCEPT !.pc = "join", !.out = "error"]
      BY <2>5, SetMoves DEF Mark
    <3> QED BY <2>1, <2>2, <3>1
  <2>6. CASE Tool(w)
    <3>1. p = [q EXCEPT !.pc = "finish"]
      BY <2>6, SetMoves DEF Tool
    <3> QED BY <2>1, <2>2, <3>1
  <2>7. CASE Finish(w)
    <3>1. \/ \E c \in {"join", "drive"} : p = [q EXCEPT !.pc = c]
          \/ p = [q EXCEPT !.pc = "join", !.out = "error"]
      <4>1. CASE ~Holds(w) \/ Refused(q)
        BY <2>7, <4>1, SetMoves DEF Finish
      <4>2. CASE Holds(w) /\ ~Refused(q)
        <5>1. PICK ok \in BOOLEAN :
                LET phase == IF ~ok THEN "failed"
                             ELSE IF left[q.s] = 1 THEN "complete" ELSE "plan"
                IN  Set(w, [q EXCEPT !.pc = IF isTerminalPhase(phase) THEN "join" ELSE "drive"])
          BY <2>7, <4>2 DEF Finish
        <5> QED BY <5>1, SetMoves
      <4> QED BY <4>1, <4>2
    <3> QED BY <2>1, <2>2, <3>1
  <2>8. CASE Join(w)
    <3>1. p = [q EXCEPT !.pc = "release", !.out = IF q.lost THEN "error" ELSE q.out]
      BY <2>8, SetMoves DEF Join
    <3> QED BY <2>1, <2>2, <3>1
  <2> QED BY <2>3, <2>4, <2>5, <2>6, <2>7, <2>8
<1>4. faults' = faults
  BY DEF Recover, Drive, Mark, Tool, Finish, Join
<1>5. PICK x \in ExecutionState, ph \in Phase :
        \/ sessions' = sessions
        \/ sessions' = [sessions EXCEPT ![q.s].exec = x]
        \/ sessions' = [sessions EXCEPT ![q.s].exec = x, ![q.s].phase = ph]
  <2>1. /\ {"failed", "complete", "plan", "recover"} \subseteq Phase
        /\ {"idle", "in_flight"} \subseteq ExecutionState
    BY DEF Phase, ExecutionState
  <2>2. CASE Recover(w)
    <3>1. sessions' = sessions
            \/ sessions' = [sessions EXCEPT ![q.s].exec = "idle", ![q.s].phase = "recover"]
      BY <2>2 DEF Recover, Recovered, TypeInv, TypeOK
    <3> QED BY <2>1, <3>1
  <2>3. CASE Finish(w)
    <3>1. CASE ~Holds(w) \/ Refused(q)
      BY <2>1, <2>3, <3>1 DEF Finish
    <3>2. CASE Holds(w) /\ ~Refused(q)
      BY <2>1, <2>3, <3>2 DEF Finish
    <3> QED BY <3>1, <3>2
  <2>4. CASE Drive(w) \/ Mark(w) \/ Tool(w) \/ Join(w)
    BY <2>1, <2>4 DEF Drive, Mark, Tool, Join
  <2> QED BY <2>2, <2>3, <2>4
<1>6. LeasesKept
  <2>1. PICK s \in Session : s = q.s
    BY <1>1
  <2>2. sessions \in [Session -> State]
    BY DEF TypeInv, TypeOK
  <2> HIDE DEF q
  <2> QED BY <1>5, <2>1, <2>2, ProgressKeepsLease
<1> QED BY <1>2, <1>3, <1>4, <1>6, SameIteration

(* The steps of an iteration that is about no session.                     *)
LEMMA IdleReturn ==
    ASSUME TypeInv, ReturnInv, NEW w \in Worker,
           StartOnce(w) \/ After(w) \/ sleepContext(w) \/ WakeUp(w) \/ Restart(w)
    PROVE  ReturnInv'
<1> DEFINE q == workers[w]
<1>1. q \in Process /\ q.s = NoSession
  BY DEF TypeInv, TypeOK, ReturnInv, Between, InSession, Running,
         StartOnce, After, sleepContext, WakeUp, Restart
<1> DEFINE p == workers'[w]
<1>2. OnlyMoves(w) /\ p.s = NoSession /\ (p.late => p.done)
  <2>1. CASE StartOnce(w)
    <3>1. OnlyMoves(w) /\ p = [q EXCEPT !.pc = "claim", !.late = q.done]
      BY <2>1, SetMoves DEF StartOnce
    <3> QED BY <1>1, <3>1 DEF Process
  <2>2. CASE After(w)
    <3> DEFINE r == [q EXCEPT !.out = "ok", !.late = FALSE, !.mode = 1]
               bi == backoffWait(r.nextIdle, MaxIdleWait)
               be == backoffWait(r.nextError, MaxErrorWait)
    <3>1. r \in Process /\ r.s = NoSession /\ ~r.late
      BY <1>1 DEF Process
    <3>2. /\ OnlyMoves(w)
          /\ \/ p = [r EXCEPT !.pc = "sleep", !.wait = r.nextError,
                              !.nextError = be, !.nextIdle = IdleWait]
             \/ p = [r EXCEPT !.pc = "sleep", !.wait = r.nextIdle,
                              !.nextIdle = bi, !.nextError = ErrorWait]
             \/ p = [r EXCEPT !.pc = "loop",
                              !.nextIdle = IdleWait, !.nextError = ErrorWait]
      <4>1. PICK n : /\ Set(w, n)
                     /\ \/ n = [r EXCEPT !.pc = "sleep", !.wait = r.nextError,
                                         !.nextError = be, !.nextIdle = IdleWait]
                        \/ n = [r EXCEPT !.pc = "sleep", !.wait = r.nextIdle,
                                         !.nextIdle = bi, !.nextError = ErrorWait]
                        \/ n = [r EXCEPT !.pc = "loop",
                                         !.nextIdle = IdleWait, !.nextError = ErrorWait]
        BY <2>2 DEF After
      <4>2. p = n /\ OnlyMoves(w)
        BY <4>1, SetMoves
      <4> QED BY <4>1, <4>2
    <3> HIDE DEF r, bi, be
    <3> QED BY <3>1, <3>2 DEF Process
  <2>3. CASE sleepContext(w)
    <3>1. OnlyMoves(w) /\ p = [q EXCEPT !.pc = "stopped", !.wait = 0] /\ q.done
      BY <2>3, SetMoves DEF sleepContext
    <3> QED BY <1>1, <3>1 DEF Process
  <2>4. CASE WakeUp(w)
    <3>1. OnlyMoves(w) /\ p = [q EXCEPT !.pc = "loop"]
      BY <2>4, SetMoves DEF WakeUp
    <3>2. q.late => q.done
      BY DEF ReturnInv, Between
    <3> QED BY <1>1, <3>1, <3>2 DEF Process
  <2>5. CASE Restart(w)
    <3>1. OnlyMoves(w) /\ p = Started
      BY <2>5, SetMoves DEF Restart
    <3> QED BY <3>1 DEF Started
  <2> QED BY <2>1, <2>2, <2>3, <2>4, <2>5
<1>3. sessions' = sessions /\ faults' = faults
  BY DEF StartOnce, After, sleepContext, WakeUp, Restart
<1>4. Unbroken' =>
        /\ Unbroken
        /\ \A s \in Session, v \in Worker :
             sessions'[s].lease = v /\ sessions'[s].expires > 0 =>
               IF v = w THEN p.s = s
                        ELSE sessions[s].lease = v /\ sessions[s].expires > 0
  BY <1>1, <1>2, <1>3 DEF ReturnInv, Unbroken, LeaseIsAbout
<1> HIDE DEF q
<1> QED BY <1>2, <1>4, ReturnFrame

LEMMA ClaimReturn ==
    ASSUME TypeInv, ReturnInv, NEW w \in Worker, Claim(w) PROVE ReturnInv'
<1> DEFINE q == workers[w]
<1>1. q \in Process /\ q.s = NoSession /\ q.mode \in Nat
  BY DEF TypeInv, TypeOK, ReturnInv, Between, InSession, Running, Claim, Process
<1>2. faults' = faults
  BY DEF Claim
<1>3. CASE /\ sessions' = sessions
           /\ \/ Set(w, [q EXCEPT !.pc = "after", !.out = "error"])
              \/ Set(w, [q EXCEPT !.pc = "after", !.out = "nowork"])
              \/ Set(w, [q EXCEPT !.mode = @ + 1])
  <2> DEFINE p == workers'[w]
  <2>1. OnlyMoves(w) /\ p.s = q.s /\ p.late = q.late /\ p.done = q.done
    <3>1. PICK m : m = q.mode + 1
      OBVIOUS
    <3>2. /\ OnlyMoves(w)
          /\ \/ p = [q EXCEPT !.pc = "after", !.out = "error"]
             \/ p = [q EXCEPT !.pc = "after", !.out = "nowork"]
             \/ p = [q EXCEPT !.mode = m]
      BY <1>3, <3>1, SetMoves
    <3> QED BY <1>1, <3>2 DEF Process
  <2>2. LeasesKept /\ q.pc = "claim"
    BY <1>3 DEF LeasesKept, Claim
  <2> QED BY <1>2, <2>1, <2>2, SameIteration DEF InSession, Running
<1>4. CASE \E s \in Session, c \in {"drive", "recover"} :
             /\ ~Refused(q)
             /\ Claimable(s, claimModes[q.mode])
             /\ sessions' = [sessions EXCEPT ![s].lease = w, ![s].expires = LeaseTTL]
             /\ Set(w, [q EXCEPT !.s = s, !.mode = 1, !.hb = "wait", !.lost = FALSE,
                                 !.renewIn = RenewInterval, !.pc = c])
  <2>1. PICK s \in Session, c \in {"drive", "recover"} :
             /\ ~Refused(q)
             /\ sessions' = [sessions EXCEPT ![s].lease = w, ![s].expires = LeaseTTL]
             /\ workers' = [workers EXCEPT ![w] = [q EXCEPT !.s = s, !.mode = 1,
                  !.hb = "wait", !.lost = FALSE, !.renewIn = RenewInterval, !.pc = c]]
    BY <1>4 DEF Set
  <2> DEFINE p == [q EXCEPT !.s = s, !.mode = 1, !.hb = "wait", !.lost = FALSE,
                            !.renewIn = RenewInterval, !.pc = c]
  <2>2. p.s = s /\ p.pc \in InSession /\ p.late = q.late /\ p.done = q.done
    BY <1>1, <2>1 DEF Process, InSession, Running
  <2>3. (p.late => p.done) /\ (Durable /\ p.late => p.s = NoSession)
    BY <2>1, <2>2 DEF ReturnInv, Between, Refused, Cancelled
  <2>4. /\ sessions'[s].lease = w
        /\ \A r \in Session \ {s} : sessions'[r] = sessions[r]
    <3>1. /\ sessions \in [Session -> State] /\ w \in Nat /\ LeaseTTL \in Nat
      BY WorkerAssumption, IntervalAssumption DEF TypeInv, TypeOK
    <3> QED BY <2>1, <3>1, LeaseWriteStep
  <2>5. Unbroken' =>
        /\ Unbroken
        /\ \A r \in Session, v \in Worker :
             sessions'[r].lease = v /\ sessions'[r].expires > 0 =>
               IF v = w THEN p.s = r
                        ELSE sessions[r].lease = v /\ sessions[r].expires > 0
    BY <1>1, <1>2, <2>2, <2>4, SessionAssumption
       DEF ReturnInv, Unbroken, LeaseIsAbout, NoSession
  <2>6. workers'[w] = p /\ OnlyMoves(w)
    BY <2>1, SetMoves DEF Set
  <2> HIDE DEF p, q
  <2> QED BY <2>2, <2>3, <2>5, <2>6, ReturnFrame
<1> QED BY <1>3, <1>4 DEF Claim

LEMMA ReleaseReturn ==
    ASSUME TypeInv, ReturnInv, NEW w \in Worker, Release(w) PROVE ReturnInv'
<1> DEFINE q == workers[w]
<1>1. q \in Process /\ q.s \in Session
  BY DEF TypeInv, TypeOK, Targets, Running, Release
<1>2. faults' = faults
  BY DEF Release
<1>3. PICK o : workers' = [workers EXCEPT ![w] = [q EXCEPT !.pc = "after", !.s = NoSession,
                                                           !.lost = FALSE, !.out = o]]
  BY DEF Release, Set
<1> DEFINE p == [q EXCEPT !.pc = "after", !.s = NoSession, !.lost = FALSE, !.out = o]
<1>4. p.s = NoSession /\ p.late = q.late /\ p.done = q.done
  BY <1>1 DEF Process
<1>5. PICK s \in Session : s = q.s
  BY <1>1
<1>6. sessions \in [Session -> State] /\ w # NoLease /\ NoLease \in Nat
  BY WorkerAssumption DEF TypeInv, TypeOK, NoLease
<1>7. /\ ~(sessions'[s].lease = w /\ sessions'[s].expires > 0)
      /\ sessions'[s] = sessions[s] \/ sessions'[s].expires = 0
      /\ \A r \in Session \ {s} : sessions'[r] = sessions[r]
  <2>1. CASE ~Holds(w)
    BY <1>5, <1>6, <2>1 DEF Release, Holds, requireSessionLease
  <2>2. CASE Holds(w)
    <3>1. sessions' = [sessions EXCEPT ![s].lease = NoLease, ![s].expires = 0]
      BY <1>5, <2>2 DEF Release
    <3> QED BY <1>6, <3>1, LeaseWriteStep
  <2> QED BY <2>1, <2>2
<1>8. Unbroken' =>
        /\ Unbroken
        /\ \A r \in Session, v \in Worker :
             sessions'[r].lease = v /\ sessions'[r].expires > 0 =>
               IF v = w THEN p.s = r
                        ELSE sessions[r].lease = v /\ sessions[r].expires > 0
  BY <1>2, <1>5, <1>7 DEF ReturnInv, Unbroken, LeaseIsAbout
<1>9. p.late => p.done
  BY <1>4 DEF ReturnInv, Between
<1>10. workers'[w] = p /\ OnlyMoves(w)
  BY <1>3, SetMoves DEF Set
<1> HIDE DEF p, q
<1> QED BY <1>4, <1>8, <1>9, <1>10, ReturnFrame

LEMMA HeartbeatReturn ==
    ASSUME TypeInv, ReturnInv, NEW w \in Worker, HeartbeatStep(w) PROVE ReturnInv'
<1> DEFINE q == workers[w]
<1>1. q \in Process /\ q.s \in Session
  BY DEF TypeInv, TypeOK, Targets, HeartbeatStep, Heartbeat, RenewLease
<1> DEFINE p == workers'[w]
<1>2. /\ OnlyMoves(w)
      /\ p.pc = q.pc /\ p.s = q.s /\ p.late = q.late /\ p.done = q.done
  <2>1. /\ OnlyMoves(w)
        /\ \/ p = [q EXCEPT !.hb = "renew"]
           \/ p = [q EXCEPT !.hb = "off", !.renewIn = 0]
           \/ p = [q EXCEPT !.hb = "wait", !.renewIn = RenewInterval]
           \/ p = [q EXCEPT !.hb = "off", !.renewIn = 0, !.lost = q.lost \/ ~RenewEnded(q)]
    BY SetMoves DEF HeartbeatStep, Heartbeat, RenewLease
  <2> QED BY <1>1, <2>1 DEF Process
<1>3. faults' = faults
  BY DEF HeartbeatStep, Heartbeat, RenewLease
<1>4. CASE sessions' = sessions
  <2>1. LeasesKept
    BY <1>4 DEF LeasesKept
  <2> QED BY <1>2, <1>3, <2>1, SameIteration
<1>5. CASE Holds(w) /\ sessions' = [sessions EXCEPT ![q.s].expires = LeaseTTL]
  <2>1. PICK s \in Session : s = q.s
    BY <1>1
  <2>2. /\ sessions'[s].lease = sessions[s].lease
        /\ \A r \in Session \ {s} : sessions'[r] = sessions[r]
    <3>1. /\ sessions \in [Session -> State] /\ LeaseTTL \in Nat
          /\ sessions' = [sessions EXCEPT ![s].expires = LeaseTTL]
      BY <1>5, <2>1, IntervalAssumption DEF TypeInv, TypeOK
    <3> HIDE DEF q
    <3> QED BY <3>1, LeaseExtendStep
  <2>3. sessions[s].lease = w /\ sessions[s].expires > 0
    BY <1>5, <2>1, WorkerAssumption DEF Holds, requireSessionLease, NoLease
  <2>4. Unbroken' =>
        /\ Unbroken
        /\ \A r \in Session, v \in Worker :
             sessions'[r].lease = v /\ sessions'[r].expires > 0 =>
               IF v = w THEN p.s = r
                        ELSE sessions[r].lease = v /\ sessions[r].expires > 0
    BY <1>2, <1>3, <2>1, <2>2, <2>3 DEF ReturnInv, Unbroken, LeaseIsAbout
  <2>5. /\ p.s # NoSession => p.pc \in InSession
        /\ p.late => p.done
        /\ Durable /\ p.late => p.s = NoSession
    BY <1>2 DEF ReturnInv, Between, NoRunAfterContextEnds
  <2> HIDE DEF q
  <2> QED BY <1>2, <2>4, <2>5, ReturnFrame
<1> QED BY <1>4, <1>5 DEF HeartbeatStep, Heartbeat, RenewLease

(* A shutdown ends a context; a crash or a failed store call is a fault    *)
(* after which nothing is promised of leases.                              *)
LEMMA FaultReturn ==
    ASSUME TypeInv, ReturnInv, NEW w \in Worker, Shutdown(w) \/ Crash(w) \/ StoreError(w)
    PROVE  ReturnInv'
<1> DEFINE q == workers[w]
<1>1. q \in Process /\ faults \in [crashes : Nat, shutdowns : Nat, slips : Nat]
  BY DEF TypeInv, TypeOK
<1>2. CASE Shutdown(w)
  <2> DEFINE p == workers'[w]
  <2>1. OnlyMoves(w) /\ p.pc = q.pc /\ p.s = q.s /\ p.late = q.late /\ p.done
    <3>1. OnlyMoves(w) /\ p = [q EXCEPT !.done = TRUE]
      BY <1>2, SetMoves DEF Shutdown
    <3> QED BY <1>1, <3>1 DEF Process
  <2>2. sessions' = sessions /\ (Unbroken' => Unbroken)
    BY <1>1, <1>2 DEF Shutdown, Unbroken
  <2>3. /\ p.s # NoSession => p.pc \in InSession
        /\ Durable /\ p.late => p.s = NoSession
    BY <2>1 DEF ReturnInv, Between, NoRunAfterContextEnds
  <2>4. \A s \in Session, v \in Worker :
           Unbroken /\ sessions'[s].lease = v /\ sessions'[s].expires > 0 =>
               IF v = w THEN p.s = s
                        ELSE sessions[s].lease = v /\ sessions[s].expires > 0
    BY <2>1, <2>2 DEF ReturnInv, LeaseIsAbout
  <2> HIDE DEF q
  <2> QED BY <2>1, <2>2, <2>3, <2>4, ReturnFrame
<1>3. CASE Crash(w)
  <2>1. ~Unbroken'
    BY <1>1, <1>3 DEF Crash, Unbroken
  <2> DEFINE p == workers'[w]
  <2>2. OnlyMoves(w) /\ p.s = NoSession /\ ~p.late
    BY <1>3, SetMoves DEF Crash, Started
  <2> QED BY <2>1, <2>2, ReturnFrame
<1>4. CASE StoreError(w)
  <2>1. ~Unbroken'
    BY <1>1, <1>4 DEF StoreError, Slip, Unbroken
  <2> DEFINE p == workers'[w]
  <2>2. /\ OnlyMoves(w) /\ p.late = q.late /\ p.done = q.done
        /\ \/ p.s = NoSession
           \/ p.s = q.s /\ (p.pc = q.pc \/ p.pc \in InSession)
           \/ p.s = q.s /\ q.pc = "claim"
    <3>1. /\ OnlyMoves(w)
          /\ \/ q.pc = "claim" /\ p = [q EXCEPT !.pc = "after", !.out = "error"]
             \/ p = [q EXCEPT !.pc = "join", !.out = "error"]
             \/ p = [q EXCEPT !.pc = "after", !.out = "error", !.s = NoSession,
                              !.lost = FALSE]
             \/ p = [q EXCEPT !.hb = "off", !.renewIn = 0,
                              !.lost = q.lost \/ ~RenewEnded(q)]
      BY <1>4, SetMoves DEF StoreError
    <3> QED BY <1>1, <3>1 DEF Process, InSession
  <2>3. /\ p.s # NoSession => p.pc \in InSession
        /\ p.late => p.done
        /\ Durable /\ p.late => p.s = NoSession
    BY <2>2 DEF ReturnInv, Between, NoRunAfterContextEnds, InSession, Running
  <2> HIDE DEF q
  <2> QED BY <2>1, <2>2, <2>3, ReturnFrame
<1> QED BY <1>2, <1>3, <1>4

LEMMA ElapseReturn ==
    ASSUME TypeInv, ReturnInv, Tick \/ LateTick PROVE ReturnInv'
<1>1. Elapse /\ (Unbroken' => Unbroken)
  BY DEF Tick, LateTick, Slip, Unbroken, TypeInv, TypeOK
<1>2. \A w \in Worker : workers'[w].late = workers[w].late
  BY <1>1 DEF Elapse, TypeInv, TypeOK, Process
<1>3. Between' /\ (Durable => NoRunAfterContextEnds')
  BY <1>1, <1>2, ElapseEffect DEF ReturnInv, Between, NoRunAfterContextEnds
<1>4. Unbroken' => LeaseIsAbout'
  <2> SUFFICES ASSUME Unbroken, NEW w \in Worker, NEW s \in Session,
                      sessions'[s].lease = w, sessions'[s].expires > 0
               PROVE  workers'[w].s = s
    BY <1>1 DEF LeaseIsAbout
  <2>1. sessions[s].lease = w /\ sessions[s].expires > 0
    <3>1. sessions[s].expires \in Nat
      BY DEF TypeInv, TypeOK, State
    <3>2. sessions'[s].lease = sessions[s].lease /\ sessions'[s].expires = Less(sessions[s].expires)
      BY <1>1, ElapseEffect
    <3> QED BY <3>1, <3>2 DEF Less
  <2> QED BY <1>1, <2>1, ElapseEffect DEF ReturnInv, LeaseIsAbout
<1> QED BY <1>3, <1>4 DEF ReturnInv

LEMMA ReturnStep == TypeInv /\ ReturnInv /\ [Next]_vars => ReturnInv'
<1> SUFFICES ASSUME TypeInv, ReturnInv, [Next]_vars PROVE ReturnInv'
  OBVIOUS
<1>1. CASE UNCHANGED vars
  BY <1>1 DEF vars, ReturnInv, Between, Unbroken, LeaseIsAbout, NoRunAfterContextEnds
<1>2. CASE Tick \/ LateTick
  BY <1>2, ElapseReturn
<1>3. ASSUME NEW w \in Worker, WorkerStep(w) PROVE ReturnInv'
  BY <1>3, RunReturn, IdleReturn, ClaimReturn, ReleaseReturn DEF WorkerStep
<1>4. ASSUME NEW w \in Worker, HeartbeatStep(w) PROVE ReturnInv'
  BY <1>4, HeartbeatReturn
<1>5. ASSUME NEW w \in Worker, StoreError(w) \/ Shutdown(w) \/ Crash(w) \/ Restart(w)
      PROVE  ReturnInv'
  BY <1>5, FaultReturn, IdleReturn
<1> QED BY <1>1, <1>2, <1>3, <1>4, <1>5 DEF Next

----------------------------------------------------------------------------
(* The theorems.                                                           *)

(* Two guarded runs of one session hold the same lease, which names one    *)
(* worker.                                                                 *)
LEMMA GuardedExclusive ==
    ExclusiveInv /\ RenewInterval < LeaseTTL => ExclusiveRuns
BY DEF ExclusiveInv, ExclusiveRuns, Timely, Guarded

(* Through every claim, run, crash, slip and restart the store and the     *)
(* stack frames of the workers keep their types.                           *)
THEOREM TypeCorrect == Spec => []TypeOK
<1>1. ExclusiveInv => TypeOK
  BY DEF ExclusiveInv, TypeInv
<1> QED BY <1>1, ExclusiveInit, ExclusiveStep, PTL DEF Spec

(* worker.go, the heartbeat beside the run: for any number of workers and  *)
(* sessions and any renewal interval below the lease time, workers whose   *)
(* heartbeats are on time and succeed never run the same session at once,  *)
(* however many processes crash, restart or are shut down around them.     *)
THEOREM RunsAreExclusive ==
    ASSUME RenewInterval < LeaseTTL PROVE Spec => []ExclusiveRuns
<1>1. ExclusiveInv => ExclusiveRuns
  BY GuardedExclusive
<1> QED BY <1>1, ExclusiveInit, ExclusiveStep, PTL DEF Spec

(* worker.go, RunOnce: "release" is reached on every way out of a run, on  *)
(* a context of its own.  For any fleet, with no crash and no failing      *)
(* store, a worker between two sessions, asleep or stopped holds no lease, *)
(* also when it was shut down in the middle of a run.                      *)
THEOREM LeasesAreReturned == Spec => []LeaseReturned
<1>1. TypeInv /\ ReturnInv => LeaseReturned
  <2> SUFFICES ASSUME TypeInv, ReturnInv, Unbroken, NEW w \in Worker, NEW s \in Session,
                      workers[w].s = NoSession, leaseHeldAt(sessions[s], w, 0)
               PROVE  FALSE
    BY DEF LeaseReturned, Unbroken
  <2>1. workers[w].s = s
    BY DEF ReturnInv, LeaseIsAbout, leaseHeldAt, leaseActiveAt
  <2> QED BY <2>1, SessionAssumption DEF NoSession
<1>2. ExclusiveInv => TypeInv
  BY DEF ExclusiveInv
<1> QED BY <1>1, <1>2, ExclusiveInit, ExclusiveStep, ReturnInit, ReturnStep, PTL DEF Spec

(* worker.go, RunLoop "until the context ends": on Postgres an iteration   *)
(* that begins on an ended context claims and runs nothing, because the    *)
(* store refuses the claim.                                                *)
THEOREM NothingRunsAfterTheContext ==
    ASSUME Durable PROVE Spec => []NoRunAfterContextEnds
<1>1. ReturnInv => NoRunAfterContextEnds
  BY DEF ReturnInv
<1>2. ExclusiveInv => TypeInv
  BY DEF ExclusiveInv
<1> QED BY <1>1, <1>2, ExclusiveInit, ExclusiveStep, ReturnInit, ReturnStep, PTL DEF Spec
=============================================================================
