---------------------------- MODULE StepRun_proofs ----------------------------
(***************************************************************************)
(* Proofs about StepRun, for any plan, workers, clients, operators, policy *)
(* and bounds: types, that a rejected approval never lets the tool run and *)
(* that an approval given once is recorded once, with either unit of work; *)
(* and, when every write of a call is one transaction and all runs are     *)
(* leased, that the stores agree and that a terminal phase is left in two  *)
(* ways only, until a write strays.                                        *)
(***************************************************************************)
EXTENDS StepRun, SequenceTheorems, WellFoundedInduction, TLAPS

USE DEF NoLease, NoApprovalId

----------------------------------------------------------------------------
(* The inductive invariant: types and the frames of the calls.             *)

AnyApproval == ApprovalId \cup {0}

Has(todo, x) == \E k \in DOMAIN todo : todo[k] = x

AskTodo == <<"approval", "plan", "task", "session", "attempt">>

(* What a call that is writing has in its frame: only these operations     *)
(* write approvals, and all but an ask that starts know which one.         *)
TodoOK(c) ==
    /\ c.todo # <<>>
    /\ c.op \in {"mark", "ask", "deny", "finish", "recover", "interrupt", "respond",
                 "abort"}
    /\ Has(c.todo, "approval") => c.op \in {"ask", "finish", "respond", "abort"}
    /\ c.op = "ask" => \/ c.appr = 0 /\ c.todo = AskTodo
                       \/ c.appr # 0 /\ ~Has(c.todo, "approval")
    /\ c.op \in {"finish", "abort"} /\ Has(c.todo, "approval") => c.appr # 0
    /\ c.op = "mark" => c.todo = <<"session">>
    /\ c.op = "finish" => c.spec.status \in {"completed", "failed"}
    /\ c.op = "respond" => c.appr # 0

Frame(c) ==
    /\ c \in Call
    /\ c.next.pending \in AnyApproval
    /\ c.pc = "begin" => (c.forced <=> c.appr # 0)
    /\ c.pc \in {"begin", "mark", "invoke", "verify"} => c.op = "run"
    /\ c.pc = "normalize" => c.op = "recover"
    /\ c.pc = "persist" => TodoOK(c)
    /\ c.pc = "idle" => c.op = "none"

TypeInv ==
    /\ TypeOK
    /\ session.pending \in AnyApproval
    /\ \A a \in Actor : Frame(calls[a])

----------------------------------------------------------------------------
(* The inductive invariant: approvals, with either unit of work.           *)

Granted == {"approved", "consumed"}

(* A run that rests on an approval read it as approved, a response read it *)
(* as pending; a record whose version is still the one read is unchanged.  *)
ApprovalRead(c, as) ==
    /\ c.op \in {"run", "mark", "finish"} /\ c.appr # 0 =>
         /\ as[c.appr].status \in Granted
         /\ c.copy.status = "approved"
         /\ c.copy.version <= as[c.appr].version
         /\ c.copy.version = as[c.appr].version => as[c.appr] = c.copy
    /\ c.op = "respond" =>
         /\ c.copy.status = "pending"
         /\ c.copy.reply # "none"
         /\ c.copy.version <= as[c.appr].version
         /\ c.copy.version = as[c.appr].version => as[c.appr].status = "pending"

(* An approval is used and recorded only after it was granted, and one     *)
(* given once is spent by the record.                                      *)
ApprovalUse(r, used, done) ==
    /\ used > 0 \/ done > 0 => r.status \in Granted
    /\ r.reply = "once" => done <= 1 /\ (done = 1 => r.status = "consumed")

ApprovalInv ==
    /\ \A a \in Actor : ApprovalRead(calls[a], approvals)
    /\ \A i \in ApprovalId : ApprovalUse(approvals[i], uses[i], recorded[i])

----------------------------------------------------------------------------
(* The inductive invariant: transactions and leased runs.                  *)

Leased == {"run", "mark", "ask", "deny", "finish", "recover", "interrupt"}

FinishTodo(i) == IF i = 0 THEN <<"plan", "task", "session", "attempt">>
                          ELSE <<"plan", "task", "session", "attempt", "approval">>

RespondTodo(reply) == IF reply = "reject"
                      THEN <<"approval", "attempt", "plan", "task", "session">>
                      ELSE <<"approval", "session">>

AbortTodo(i) == IF i # 0 THEN <<"approval", "plan", "attempt", "task", "session">>
                         ELSE <<"plan", "task", "session">>

(* What a leased call writes, in one transaction.                          *)
LeasedFrame(c) ==
    /\ c.op \in Leased
    /\ c.reuse => c.appr # 0
    /\ c.op \in {"ask", "deny", "recover", "interrupt"} => c.appr = 0
    /\ c.op = "mark" => c.next.exec = "in_flight"
    /\ c.op = "ask" => /\ c.next.exec = "awaiting_approval" /\ c.next.phase = "execute"
                       /\ c.todo = AskTodo
    /\ c.op \in {"deny", "finish"} => c.next.exec = "idle" /\ c.next.inFlight = NoStep
    /\ c.op = "deny" => c.next.phase = "failed" /\ c.todo = <<"plan", "task", "session">>
    /\ c.op = "finish" => c.todo = FinishTodo(c.appr)
    /\ c.op = "recover" /\ c.pc = "persist" =>
         c.next.exec = "idle" /\ c.todo = <<"session">>
    /\ c.op = "interrupt" => /\ c.next.exec = "interrupted" /\ c.next.phase = "recover"
                             /\ c.todo = <<"session">>

(* A worker's call k, made under the lease h it was given; only a recovery *)
(* goes on under a lease it found.                                         *)
WorkerCall(k, h) ==
    k.op # "none" => /\ LeasedFrame(k) /\ h # 0
                     /\ k.lease = h \/ (k.op = "recover" /\ k.pc = "persist")

(* A lease is held by one worker.                                          *)
LeaseInv ==
    /\ session.lease <= issued
    /\ \A w \in Worker : held[w] <= issued /\ WorkerCall(calls[w], held[w])
    /\ \A v, w \in Worker : v # w /\ held[v] # 0 => held[v] # held[w]

(* TerminalAgreement of the session s and the task status t.               *)
TerminalGood(s, t) ==
    isTerminalPhase(s.phase) =>
        /\ s.phase = "complete" => t = "completed"
        /\ s.phase = "failed" => t = "failed"
        /\ s.phase = "aborted" => t = "aborted"
        /\ s.exec = "idle" /\ s.inFlight = NoStep /\ s.pending = 0

(* ApprovalAgreement of s with the approvals as and the attempts at.       *)
ApprovalGood(s, as, at) ==
    /\ s.pending # 0 => as[s.pending].status \in {"pending", "approved"}
    /\ s.exec = "awaiting_approval" => s.pending # 0 /\ as[s.pending].status = "pending"
    /\ s.pending # 0 /\ as[s.pending].status = "pending"
         => s.exec \in {"awaiting_approval", "interrupted"}
    /\ \A i \in ApprovalId : as[i].status = "pending" \/ at[i] = "blocked" => i = s.pending

(* The session s, approvals as and attempts at as a call finds them while  *)
(* the session carries its lease: nobody else changed what it decided on.  *)
LeasedCall(c, s, as, at) ==
    /\ ~isTerminalPhase(s.phase)
    /\ s.pending # 0 => s.pending = c.appr /\ as[s.pending].status = "approved"
    /\ c.op \in {"ask", "deny", "recover"} => s.pending = 0
    /\ c.op \in {"deny", "recover", "finish"} => c.next.pending = 0
    /\ c.pc \in {"mark", "invoke", "verify", "persist"} /\ c.appr # 0 /\ at[c.appr] = "blocked"
         => c.reuse
    /\ c.pc = "verify" \/ c.op = "mark"
         => ~isTerminalPhase(c.next.phase) /\ c.next.pending = s.pending
    /\ c.op = "recover" /\ c.pc = "persist" => c.next.phase = "recover"

(* The call k of a worker that was given the lease h and still has the     *)
(* session s: it is under that lease, and more than an interruption mark.  *)
Own(k, h, s) == k.op \notin {"none", "interrupt"} /\ k.lease = h /\ s.lease = h

(* An operator's call whose version is still that of the session s.        *)
OperatorCall(c, s) ==
    /\ c.op \in {"respond", "abort"} /\ c.lease = 0
    /\ c.next.version <= s.version
    /\ c.next.version = s.version => ~isTerminalPhase(s.phase) /\ c.appr = s.pending
    /\ c.next.exec = "idle"
    /\ c.op = "respond" =>
         /\ c.next.version = s.version => c.next.lease = s.lease
         /\ c.todo = RespondTodo(c.copy.reply)
         /\ c.copy.reply = "reject" =>
              c.next.phase = "failed" /\ c.next.inFlight = NoStep /\ c.next.pending = 0
         /\ c.copy.reply # "reject" =>
              ~isTerminalPhase(c.next.phase) /\ c.next.pending = c.appr
    /\ c.op = "abort" =>
         /\ c.next.phase = "aborted" /\ c.next.inFlight = NoStep
         /\ c.next.pending = 0 /\ c.next.lease = 0
         /\ c.todo = AbortTodo(c.appr)

AgreementInv ==
    /\ LeaseInv
    /\ TerminalGood(session, task)
    /\ ApprovalGood(session, approvals, attempts)
    /\ \A w \in Worker : Own(calls[w], held[w], session)
         => LeasedCall(calls[w], session, approvals, attempts)
    /\ \A o \in Operator : calls[o].op # "none" => OperatorCall(calls[o], session)

----------------------------------------------------------------------------
(* The operators the calls are built from.                                 *)

LEMMA CreatedFacts ==
    /\ Absent \in State /\ Absent.pending = 0
    /\ Created(1) \in State /\ Created(1).pending = 0 /\ Created(1).phase = "received"
    /\ Created(1).exec = "idle" /\ Created(1).lease = 0 /\ Created(1).version = 1
<1>1. Absent \in State /\ Absent.pending = 0 /\ Absent.phase = "received"
      /\ Absent.exec = "idle" /\ Absent.lease = 0
  BY NoStepAssumption DEF Absent, State, Phase, ExecutionState
<1>2. PICK a \in State : a = Absent
  BY <1>1
<1> DEFINE c == [a EXCEPT !.version = 1, !.created = 1]
<1>3. c \in State /\ c.pending = a.pending /\ c.phase = a.phase /\ c.exec = a.exec
      /\ c.lease = a.lease /\ c.version = 1
  BY DEF State
<1>4. Created(1) = c
  BY <1>2 DEF Created
<1> HIDE DEF c
<1> QED BY <1>1, <1>2, <1>3, <1>4

LEMMA WithLeaseFacts ==
    ASSUME NEW s \in State, NEW l \in Nat, NEW e \in Nat
    PROVE  LET r == withLease(s, l, e) IN
           /\ r \in State /\ r.version = s.version + 1 /\ r.lease = l /\ r.expires = e
           /\ r.phase = s.phase /\ r.exec = s.exec /\ r.inFlight = s.inFlight
           /\ r.pending = s.pending
<1> DEFINE v == s.version + 1
           r == [s EXCEPT !.lease = l, !.expires = e, !.version = v]
<1>1. v \in Nat /\ withLease(s, l, e) = r
  BY DEF withLease, State
<1> HIDE DEF v
<1>2. r \in State /\ r.version = v /\ r.lease = l /\ r.expires = e
      /\ r.phase = s.phase /\ r.exec = s.exec /\ r.inFlight = s.inFlight
      /\ r.pending = s.pending
  BY <1>1 DEF State
<1> HIDE DEF r
<1> QED BY <1>1, <1>2 DEF v

LEMMA MergeFacts ==
    ASSUME NEW s \in State, NEW d \in State, NEW l \in Nat
    PROVE  LET r == mergeSessionUpdate(s, d, l) IN
           /\ r \in State /\ r.version = s.version + 1
           /\ l # 0 /\ s.lease = l => r.lease = l
           /\ r.phase = d.phase /\ r.exec = d.exec /\ r.inFlight = d.inFlight
           /\ r.pending = d.pending
<1> DEFINE same == s.lease # 0 /\ (l = 0 \/ s.lease = l)
           sa == IF d.started = 0 THEN s.started ELSE d.started
           le == IF same THEN s.lease ELSE d.lease
           ex == IF same THEN s.expires ELSE d.expires
           ve == s.version + 1
           r == [d EXCEPT !.version = ve, !.created = s.created, !.started = sa,
                          !.lease = le, !.expires = ex]
<1>1. mergeSessionUpdate(s, d, l) = r
  BY DEF mergeSessionUpdate, State
<1>2. sa \in Nat /\ le \in Nat /\ ex \in Nat /\ ve \in Nat /\ s.created \in Nat
  BY DEF State
<1>3. l # 0 /\ s.lease = l => le = l
  OBVIOUS
<1> HIDE DEF sa, le, ex, ve
<1>4. r \in State /\ r.version = ve /\ r.lease = le /\ r.phase = d.phase
      /\ r.exec = d.exec /\ r.inFlight = d.inFlight /\ r.pending = d.pending
  BY <1>2 DEF State
<1> HIDE DEF r
<1> QED BY <1>1, <1>3, <1>4 DEF ve

LEMMA StoredFacts ==
    ASSUME NEW s \in State, NEW d \in State
    PROVE  LET r == stored(s, d) IN
           /\ r \in State /\ r.version = d.version /\ r.lease = d.lease
           /\ r.phase = d.phase /\ r.exec = d.exec /\ r.inFlight = d.inFlight
           /\ r.pending = d.pending
BY DEF stored, State

LEMMA LeastExists ==
    ASSUME NEW S \in SUBSET Nat, S # {}
    PROVE  \E m \in S : m \in first(S)
<1>1. IsWellFoundedOn(OpToRel(<, Nat), Nat)
  BY NatLessThanWellFounded
<1>2. PICK m \in S : \A y \in S : ~(<<y, m>> \in OpToRel(<, Nat))
  BY <1>1, WFMin
<1>3. \A y \in S : ~(y < m)
  BY <1>2 DEF OpToRel
<1>4. \A y \in S : m <= y
  BY <1>3
<1> QED BY <1>4 DEF first

(* The number CreatePending draws is free.                                 *)
LEMMA AskIdFacts ==
    ASSUME NEW c \in Call, c.appr # 0 \/ \E i \in ApprovalId : approvals[i] = NoApproval
    PROVE  /\ AskId(c) \in ApprovalId
           /\ c.appr # 0 => AskId(c) = c.appr
           /\ c.appr = 0 => approvals[AskId(c)] = NoApproval
<1>1. CASE c.appr # 0
  BY <1>1 DEF AskId, Call
<1>2. CASE c.appr = 0
  <2> DEFINE S == {j \in ApprovalId : approvals[j] = NoApproval}
  <2>1. S \in SUBSET Nat /\ S # {}
    BY <1>2 DEF ApprovalId
  <2>2. \E m \in S : m \in first(S)
    BY <2>1, LeastExists
  <2>3. \E m \in ApprovalId : m \in first(S)
    BY <2>2
  <2>4. AskId(c) = CHOOSE i \in ApprovalId : i \in first(S)
    BY <1>2 DEF AskId
  <2>5. AskId(c) \in ApprovalId /\ AskId(c) \in first(S)
    BY <2>3, <2>4
  <2>6. AskId(c) \in S
    BY <2>5 DEF first
  <2> QED BY <1>2, <2>6
<1> QED BY <1>1, <1>2

LEMMA ReusableFacts ==
    ASSUME NEW s, Reusable(s) # {}
    PROVE  (CHOOSE i \in Reusable(s) : i \in first(Reusable(s))) \in Reusable(s)
<1>1. Reusable(s) \in SUBSET Nat
  BY DEF Reusable, ApprovalId
<1>2. \E m \in Reusable(s) : m \in first(Reusable(s))
  BY <1>1, LeastExists
<1> QED BY <1>2

LEMMA TransitionType ==
    ASSUME NEW p, NEW s, NEW spec, NEW verified
    PROVE  nextTransition(p, s, spec, verified) \in Phase
<1>1. \A o : transitionForPlanOutcome(o) \in Phase
  BY DEF transitionForPlanOutcome, Phase
<1>2. onFailTransition(s, spec) \in Phase
  BY DEF onFailTransition, Phase
<1> QED BY <1>1, <1>2 DEF nextTransition

LEMMA NoCallFacts ==
    /\ NoCall \in Call /\ NoCall.op = "none" /\ NoCall.pc = "idle" /\ NoCall.lease = 0
    /\ NoCall.appr = 0 /\ NoCall.copy = NoApproval /\ NoCall.reuse = FALSE
    /\ NoCall.forced = FALSE /\ NoCall.next = Absent /\ NoCall.todo = <<>>
    /\ Frame(NoCall)
<1>1. NewStep \in StepSpec
  BY DEF NewStep, StepSpec, StepStatus
<1>2. NoApproval \in Approval
  BY <1>1 DEF NoApproval, Approval, Reply
<1>3. <<>> \in Seq(Store)
  OBVIOUS
<1>4. NoCall \in Call
  BY <1>1, <1>2, <1>3, CreatedFacts DEF NoCall, Call, Op
<1>5. /\ NoCall.op = "none" /\ NoCall.pc = "idle" /\ NoCall.lease = 0
      /\ NoCall.appr = 0 /\ NoCall.copy = NoApproval /\ NoCall.reuse = FALSE
      /\ NoCall.forced = FALSE /\ NoCall.next = Absent /\ NoCall.todo = <<>>
  BY DEF NoCall
<1>6. Frame(NoCall)
  BY <1>4, <1>5, CreatedFacts DEF Frame, AnyApproval
<1> QED BY <1>4, <1>5, <1>6

----------------------------------------------------------------------------
(* The calls the operations start and move on to.                          *)

LEMMA TypeFacts ==
    ASSUME TypeInv
    PROVE  /\ session \in State /\ plan \in Plan /\ task \in TaskStatus
           /\ approvals \in [ApprovalId -> Approval]
           /\ attempts \in [ApprovalId -> AttemptStatus]
           /\ now \in Nat /\ issued \in Nat /\ held \in [Worker -> Nat]
           /\ calls \in [Actor -> Call] /\ uses \in [ApprovalId -> Nat]
           /\ recorded \in [ApprovalId -> Nat] /\ strayed \in BOOLEAN
           /\ session.pending \in AnyApproval
           /\ \A a \in Actor : Frame(calls[a])
BY DEF TypeInv, TypeOK

LEMMA AdvancedFacts ==
    ASSUME TypeInv, NEW c \in Call
    PROVE  /\ Advanced(c) \in State /\ Advanced(c).phase = "execute"
           /\ Advanced(c).pending = session.pending /\ Advanced(c).exec = session.exec
           /\ c.step \in Step \cup {NoStep}
<1> DEFINE cur == IF session.phase = "execute" THEN session.current ELSE c.step
<1>1. session \in State /\ c.step \in Step \cup {NoStep}
  BY TypeFacts DEF Call
<1>2. cur \in Step \cup {NoStep}
  BY <1>1 DEF State
<1>3. Advanced(c) = [session EXCEPT !.phase = "execute", !.current = cur]
  BY DEF Advanced
<1> HIDE DEF cur
<1> QED BY <1>1, <1>2, <1>3 DEF State, Phase

(* The decisions of a run on the policy's answer.                          *)
AskForm(c, k) ==
    /\ k.op = "ask" /\ k.pc = "persist" /\ k.appr = 0 /\ k.todo = AskTodo
    /\ k.next.exec = "awaiting_approval" /\ k.next.phase = "execute"
    /\ c.appr = 0 /\ k.reuse = c.reuse

DenyForm(c, k) ==
    /\ k.op = "deny" /\ k.pc = "persist" /\ k.appr = 0
    /\ k.todo = <<"plan", "task", "session">>
    /\ k.next.phase = "failed" /\ k.next.exec = "idle" /\ k.next.inFlight = NoStep
    /\ k.next.pending = session.pending
    /\ c.appr = 0 /\ k.reuse = c.reuse

ReuseForm(c, k) ==
    /\ k.op = "run" /\ k.pc = "mark" /\ k.appr \in ApprovalId
    /\ approvals[k.appr].status = "approved" /\ k.copy = approvals[k.appr]
    /\ c.appr = 0 /\ k.reuse = c.reuse

AllowForm(c, k) ==
    /\ k.op = "run" /\ k.pc = "mark" /\ k.appr = c.appr /\ k.copy = c.copy
    /\ k.reuse = (c.appr # 0 /\ session.pending = c.appr /\ attempts[c.appr] = "blocked")

LEMMA DecideForms ==
    ASSUME TypeInv, NEW c, Frame(c), c.pc = "begin", NEW d \in {"allow", "ask", "deny"},
           c.forced => d = "allow"
    PROVE  /\ Frame(Decide(c, d)) /\ Decide(c, d).lease = c.lease
           /\ \/ AskForm(c, Decide(c, d)) \/ DenyForm(c, Decide(c, d))
              \/ ReuseForm(c, Decide(c, d)) \/ AllowForm(c, Decide(c, d))
<1> DEFINE st == Advanced(c)
           sp == [c.spec EXCEPT !.attempt = @ + 1, !.status = "running"]
           reuse == /\ c.appr # NoApprovalId /\ session.pending = c.appr
                    /\ attempts[c.appr] = "blocked"
           an == [st EXCEPT !.exec = "awaiting_approval", !.pending = NoApprovalId,
                            !.current = c.step]
           ka == [c EXCEPT !.op = "ask", !.pc = "persist", !.spec.status = "blocked",
                           !.next = an, !.todo = AskTodo]
           dn == [st EXCEPT !.phase = "failed", !.exec = "idle", !.current = c.step,
                            !.inFlight = NoStep]
           df == [sp EXCEPT !.status = "failed"]
           kd == [c EXCEPT !.op = "deny", !.pc = "persist", !.spec = df,
                           !.next = dn, !.todo = <<"plan", "task", "session">>]
           i  == CHOOSE i \in Reusable(c.step) : i \in first(Reusable(c.step))
           kr == [c EXCEPT !.pc = "mark", !.spec = sp, !.appr = i, !.copy = approvals[i]]
           kk == [c EXCEPT !.pc = "mark", !.spec = sp, !.reuse = reuse]
<1>0. c \in Call /\ c.next.pending \in AnyApproval /\ c.op = "run" /\ (c.forced <=> c.appr # 0)
  BY DEF Frame
<1>1. /\ c.spec \in StepSpec /\ c.step \in Step \cup {NoStep} /\ c.lease \in Nat
      /\ c.appr \in AnyApproval /\ c.copy \in Approval /\ c.next \in State
  BY <1>0 DEF Call, AnyApproval
<1>2. sp \in StepSpec
  <2> DEFINE v == c.spec.attempt + 1
  <2>1. v \in Nat
    BY <1>1 DEF StepSpec
  <2>2. sp = [c.spec EXCEPT !.attempt = v, !.status = "running"]
    OBVIOUS
  <2> HIDE DEF v
  <2> QED BY <1>1, <2>1, <2>2 DEF StepSpec, StepStatus
<1>3. st \in State /\ st.phase = "execute" /\ st.pending = session.pending
      /\ session.pending \in AnyApproval
  BY <1>0, AdvancedFacts, TypeFacts
<1> HIDE DEF st, sp, reuse
<1>4. CASE d = "ask" /\ Reusable(c.step) = {}
  <2>1. Decide(c, d) = ka
    <3>1. Decide(c, d) =
            [c EXCEPT !.op = "ask", !.pc = "persist", !.spec.status = "blocked",
                      !.next = [Advanced(c) EXCEPT !.exec = "awaiting_approval",
                                                   !.pending = NoApprovalId,
                                                   !.current = c.step],
                      !.todo = <<"approval", "plan", "task", "session", "attempt">>]
      BY <1>4, Zenon DEF Decide
    <3> QED BY <3>1 DEF AskTodo, st
  <2>2. an \in State /\ an.exec = "awaiting_approval" /\ an.phase = "execute" /\ an.pending = 0
    BY <1>1, <1>3 DEF State, ExecutionState
  <2>3. [c.spec EXCEPT !.status = "blocked"] \in StepSpec
    BY <1>1 DEF StepSpec, StepStatus
  <2>4. AskTodo \in Seq(Store) /\ AskTodo # <<>>
    BY DEF AskTodo, Store
  <2> HIDE DEF an
  <2>5. ka \in Call /\ ka.op = "ask" /\ ka.pc = "persist" /\ ka.appr = c.appr
        /\ ka.todo = AskTodo /\ ka.next = an /\ ka.lease = c.lease /\ ka.reuse = c.reuse
    BY <1>0, <2>2, <2>3, <2>4 DEF Call, Op
  <2>6. c.appr = 0
    BY <1>0, <1>4
  <2> HIDE DEF ka
  <2>7. TodoOK(ka)
    BY <2>4, <2>5, <2>6 DEF TodoOK
  <2>8. Frame(ka)
    BY <2>2, <2>5, <2>7 DEF Frame, AnyApproval
  <2> QED BY <2>1, <2>2, <2>5, <2>6, <2>8 DEF AskForm
<1>5. CASE d = "deny"
  <2>1. Decide(c, d) = kd
    BY <1>5, Zenon DEF Decide, st, sp
  <2>2. dn \in State /\ dn.exec = "idle" /\ dn.phase = "failed" /\ dn.inFlight = NoStep
        /\ dn.pending = st.pending
    BY <1>1, <1>3 DEF State, ExecutionState, Phase
  <2>3. df \in StepSpec
    BY <1>2 DEF StepSpec, StepStatus
  <2>4. <<"plan", "task", "session">> \in Seq(Store) /\ <<"plan", "task", "session">> # <<>>
        /\ ~Has(<<"plan", "task", "session">>, "approval")
    BY DEF Store, Has
  <2> HIDE DEF dn, df
  <2>5. kd \in Call /\ kd.op = "deny" /\ kd.pc = "persist" /\ kd.appr = c.appr
        /\ kd.todo = <<"plan", "task", "session">> /\ kd.next = dn /\ kd.lease = c.lease
        /\ kd.reuse = c.reuse
    BY <1>0, <2>2, <2>3, <2>4 DEF Call, Op
  <2>6. c.appr = 0
    BY <1>0, <1>5
  <2> HIDE DEF kd
  <2>7. TodoOK(kd)
    BY <2>4, <2>5, <2>6 DEF TodoOK
  <2>8. Frame(kd)
    BY <1>3, <2>2, <2>5, <2>7 DEF Frame
  <2> QED BY <1>3, <2>1, <2>2, <2>5, <2>6, <2>8 DEF DenyForm
<1>6. CASE d = "ask" /\ Reusable(c.step) # {}
  <2>1. Decide(c, d) = kr
    BY <1>6, Zenon DEF Decide, sp
  <2>2. i \in Reusable(c.step)
    BY <1>6, ReusableFacts
  <2> HIDE DEF i
  <2>3. i \in ApprovalId /\ approvals[i].status = "approved" /\ approvals[i] \in Approval
    BY <2>2, TypeFacts DEF Reusable
  <2>4. kr \in Call /\ kr.op = "run" /\ kr.pc = "mark" /\ kr.appr = i /\ kr.copy = approvals[i]
        /\ kr.lease = c.lease /\ kr.reuse = c.reuse /\ kr.next = c.next
    BY <1>0, <1>2, <2>3 DEF Call
  <2>5. c.appr = 0
    BY <1>0, <1>6
  <2> HIDE DEF kr
  <2>6. Frame(kr)
    BY <1>0, <2>4 DEF Frame
  <2> QED BY <2>1, <2>3, <2>4, <2>5, <2>6 DEF ReuseForm
<1>7. CASE d = "allow"
  <2>1. Decide(c, d) = kk
    BY <1>7, Zenon DEF Decide, sp, reuse
  <2>2. reuse \in BOOLEAN
    BY DEF reuse
  <2>3. kk \in Call /\ kk.op = "run" /\ kk.pc = "mark" /\ kk.appr = c.appr /\ kk.copy = c.copy
        /\ kk.lease = c.lease /\ kk.reuse = reuse /\ kk.next = c.next
    BY <1>0, <1>2, <2>2 DEF Call
  <2> HIDE DEF kk
  <2>4. Frame(kk)
    BY <1>0, <2>3 DEF Frame
  <2> QED BY <2>1, <2>3, <2>4 DEF AllowForm, reuse
<1> QED BY <1>4, <1>5, <1>6, <1>7

RunForm(a, k) ==
    /\ k.op = "run" /\ k.pc = "begin" /\ k.lease = LeaseOf(a) /\ k.appr = 0
    /\ k.reuse = FALSE

LEMMA RunStepForm ==
    ASSUME TypeInv, NEW a \in Actor, NEW s \in Step, RunStep(a, s)
    PROVE  \E k : Set(a, k) /\ Frame(k) /\ RunForm(a, k)
<1> DEFINE k == [NoCall EXCEPT !.op = "run", !.pc = "begin", !.lease = LeaseOf(a),
                               !.step = s, !.spec = plan[s]]
<1>1. LeaseOf(a) \in Nat
  BY TypeFacts DEF LeaseOf
<1>2. PICK n \in Call : n = NoCall
  BY NoCallFacts
<1>3. plan[s] \in StepSpec
  BY TypeFacts DEF Plan
<1>4. k \in Call /\ k.op = "run" /\ k.pc = "begin" /\ k.lease = LeaseOf(a) /\ k.appr = n.appr
      /\ k.reuse = n.reuse /\ k.forced = n.forced /\ k.next = n.next
  BY <1>1, <1>2, <1>3 DEF Call, Op
<1>5. Set(a, k)
  BY DEF RunStep
<1> HIDE DEF k
<1>6. Frame(k) /\ RunForm(a, k)
  BY <1>2, <1>4, NoCallFacts, CreatedFacts DEF Frame, RunForm, AnyApproval
<1> QED BY <1>5, <1>6

ResumeForm(a, k) ==
    /\ k.op = "run" /\ k.pc = "begin" /\ k.lease = LeaseOf(a)
    /\ k.appr = session.pending /\ k.appr \in ApprovalId
    /\ approvals[k.appr].status = "approved" /\ k.copy = approvals[k.appr]
    /\ k.reuse = FALSE

LEMMA ResumePendingApprovalForm ==
    ASSUME TypeInv, NEW a \in Actor, ResumePendingApproval(a)
    PROVE  \E k : Set(a, k) /\ Frame(k) /\ ResumeForm(a, k)
<1> DEFINE i == session.pending
           k == [NoCall EXCEPT !.op = "run", !.pc = "begin", !.lease = LeaseOf(a),
                             !.step = approvals[i].step,
                             !.spec = approvals[i].spec, !.appr = i,
                             !.copy = approvals[i], !.forced = TRUE]
<1>1. LeaseOf(a) \in Nat
  BY TypeFacts DEF LeaseOf
<1>2. PICK n \in Call : n = NoCall
  BY NoCallFacts
<1>3. i \in ApprovalId /\ approvals[i] \in Approval /\ approvals[i].status = "approved"
  BY TypeFacts DEF ResumePendingApproval, AnyApproval
<1>4. approvals[i].step \in Step \cup {NoStep} /\ approvals[i].spec \in StepSpec
  BY <1>3 DEF Approval
<1>5. Set(a, k)
  BY DEF ResumePendingApproval
<1>6. i = session.pending
  OBVIOUS
<1> HIDE DEF i
<1>7. k \in Call /\ k.op = "run" /\ k.pc = "begin" /\ k.lease = LeaseOf(a) /\ k.appr = i
      /\ k.copy = approvals[i] /\ k.reuse = n.reuse /\ k.forced = TRUE /\ k.next = n.next
  BY <1>1, <1>2, <1>3, <1>4 DEF Call, Op
<1> HIDE DEF k
<1>8. i # 0
  BY <1>6 DEF ResumePendingApproval
<1>9. Frame(k)
  BY <1>2, <1>7, <1>8, NoCallFacts, CreatedFacts DEF Frame, AnyApproval
<1>10. ResumeForm(a, k)
  BY <1>2, <1>3, <1>6, <1>7, NoCallFacts DEF ResumeForm
<1> QED BY <1>5, <1>9, <1>10

MarkForm(c, k) ==
    /\ k.op = "mark" /\ k.pc = "persist" /\ k.lease = c.lease /\ k.appr = c.appr
    /\ k.copy = c.copy /\ k.reuse = c.reuse /\ k.todo = <<"session">>
    /\ k.next.phase = session.phase /\ k.next.pending = session.pending
    /\ k.next.exec = "in_flight"

LEMMA MarkForms ==
    ASSUME TypeInv, NEW a \in Actor, Mark(a)
    PROVE  \/ \E k : Set(a, k) /\ Frame(k) /\ MarkForm(calls[a], k)
                     /\ requireSessionLease(session, calls[a].lease, now)
           \/ Return(a)
<1> DEFINE c == calls[a]
           st == IF session.started = 0 THEN now ELSE session.started
           nx == [session EXCEPT !.started = st, !.exec = "in_flight", !.inFlight = c.step]
           k == [c EXCEPT !.op = "mark", !.pc = "persist", !.next = nx, !.todo = <<"session">>]
<1>1. c \in Call /\ c.step \in Step \cup {NoStep} /\ Frame(c) /\ c.pc = "mark"
  BY TypeFacts DEF Frame, Call, Mark
<1>2. session \in State /\ st \in Nat /\ session.pending \in AnyApproval
  BY TypeFacts DEF State
<1>3. CASE Set(a, k) /\ requireSessionLease(session, c.lease, now)
  <2> HIDE DEF st
  <2>1. nx \in State /\ nx.phase = session.phase /\ nx.pending = session.pending
        /\ nx.exec = "in_flight"
    BY <1>1, <1>2 DEF State, ExecutionState
  <2> HIDE DEF nx
  <2>2. <<"session">> \in Seq(Store) /\ <<"session">> # <<>> /\ ~Has(<<"session">>, "approval")
    BY DEF Store, Has
  <2>3. k \in Call /\ k.op = "mark" /\ k.pc = "persist" /\ k.lease = c.lease /\ k.appr = c.appr
        /\ k.copy = c.copy /\ k.reuse = c.reuse /\ k.todo = <<"session">> /\ k.next = nx
    BY <1>1, <2>1, <2>2 DEF Call, Op
  <2> HIDE DEF k
  <2>4. TodoOK(k)
    BY <2>2, <2>3 DEF TodoOK
  <2>5. Frame(k)
    BY <1>2, <2>1, <2>3, <2>4 DEF Frame
  <2>6. MarkForm(c, k)
    BY <2>1, <2>3 DEF MarkForm
  <2> QED BY <1>3, <2>5, <2>6
<1>4. (Set(a, k) /\ requireSessionLease(session, c.lease, now)) \/ Return(a)
  BY DEF Mark
<1> QED BY <1>3, <1>4

InvokeForm(c, k) ==
    /\ k.op = "run" /\ k.pc = "verify" /\ k.lease = c.lease /\ k.appr = c.appr
    /\ k.copy = c.copy /\ k.reuse = c.reuse /\ k.next = session

LEMMA InvokeForms ==
    ASSUME TypeInv, NEW a \in Actor, Invoke(a)
    PROVE  \E k : Set(a, k) /\ Frame(k) /\ InvokeForm(calls[a], k)
<1> DEFINE c == calls[a]
           k == [c EXCEPT !.pc = "verify", !.next = session]
<1>1. c \in Call /\ Frame(c) /\ c.pc = "invoke" /\ c.op = "run" /\ Set(a, k)
  BY TypeFacts DEF Frame, Invoke
<1>2. session \in State /\ session.pending \in AnyApproval
  BY TypeFacts
<1>3. k \in Call /\ k.op = "run" /\ k.pc = "verify" /\ k.lease = c.lease /\ k.appr = c.appr
      /\ k.copy = c.copy /\ k.reuse = c.reuse /\ k.next = session
  BY <1>1, <1>2 DEF Call
<1> HIDE DEF k
<1>4. Frame(k) /\ InvokeForm(c, k)
  BY <1>2, <1>3 DEF Frame, InvokeForm
<1> QED BY <1>1, <1>4

VerifyForm(c, k) ==
    /\ k.op = "finish" /\ k.pc = "persist" /\ k.lease = c.lease /\ k.appr = c.appr
    /\ k.copy = c.copy /\ k.reuse = c.reuse /\ k.todo = FinishTodo(c.appr)
    /\ k.next.exec = "idle" /\ k.next.inFlight = NoStep
    /\ k.next.pending = IF c.next.pending = c.appr THEN 0 ELSE c.next.pending
    /\ k.spec.status \in {"completed", "failed"}

LEMMA VerifyForms ==
    ASSUME TypeInv, NEW a \in Actor, Verify(a)
    PROVE  \/ \E k : Set(a, k) /\ Frame(k) /\ VerifyForm(calls[a], k)
           \/ Return(a)
<1> DEFINE c == calls[a]
           sp(v) == [c.spec EXCEPT !.status = IF v THEN "completed" ELSE "failed"]
           todo == <<"plan", "task", "session", "attempt">>
                     \o IF c.appr = NoApprovalId THEN <<>> ELSE <<"approval">>
           k(v) == [c EXCEPT !.op = "finish", !.pc = "persist", !.spec = sp(v),
                             !.next = Finished(c, sp(v), v), !.todo = todo]
<1>1. c \in Call /\ Frame(c) /\ c.pc = "verify" /\ c.next.pending \in AnyApproval
  BY TypeFacts DEF Frame, Verify
<1>2. c.spec \in StepSpec /\ c.step \in Step \cup {NoStep} /\ c.next \in State
      /\ c.appr \in AnyApproval
  BY <1>1 DEF Call, AnyApproval
<1>3. ASSUME NEW v \in BOOLEAN, Set(a, k(v))
      PROVE  \E kk : Set(a, kk) /\ Frame(kk) /\ VerifyForm(calls[a], kk)
  <2> DEFINE st == IF v THEN "completed" ELSE "failed"
             s == sp(v)
             ph == nextTransition(plan, c.step, s, v)
             pe == IF c.next.pending = c.appr THEN 0 ELSE c.next.pending
             nx == [c.next EXCEPT !.phase = ph, !.current = c.step, !.exec = "idle",
                                  !.inFlight = NoStep, !.pending = pe]
  <2>1. st \in {"completed", "failed"} /\ s = [c.spec EXCEPT !.status = st]
    OBVIOUS
  <2> HIDE DEF st
  <2>2. s \in StepSpec /\ s.status \in {"completed", "failed"}
    BY <1>2, <2>1 DEF StepSpec, StepStatus
  <2> HIDE DEF s
  <2>3. ph \in Phase /\ pe \in AnyApproval
    BY <1>1, TransitionType DEF AnyApproval
  <2>4. Finished(c, s, v) = nx
    BY DEF Finished
  <2> HIDE DEF ph, pe
  <2>5. nx \in State /\ nx.exec = "idle" /\ nx.inFlight = NoStep /\ nx.pending = pe
    <3>1. pe \in Nat
      BY <2>3 DEF AnyApproval, ApprovalId
    <3> QED BY <1>2, <2>3, <3>1 DEF State, ExecutionState
  <2>6. todo = FinishTodo(c.appr) /\ FinishTodo(c.appr) \in Seq(Store)
        /\ FinishTodo(c.appr) # <<>> /\ (Has(FinishTodo(c.appr), "approval") => c.appr # 0)
    <3>1. CASE c.appr = 0
      <4> DEFINE t == <<"plan", "task", "session", "attempt">>
      <4>1. t \in Seq(Store) /\ t # <<>> /\ ~Has(t, "approval")
        BY DEF Store, Has
      <4>2. t \o <<>> = t
        BY <4>1, ConcatEmptySeq
      <4> HIDE DEF t
      <4> QED BY <3>1, <4>1, <4>2 DEF FinishTodo, t
    <3>2. CASE c.appr # 0
      <4> DEFINE t == <<"plan", "task", "session", "attempt">>
      <4>1. t \in Seq(Store) /\ Len(t) = 4 /\ t[1] = "plan" /\ t[2] = "task"
            /\ t[3] = "session" /\ t[4] = "attempt"
        BY DEF Store
      <4>2. "approval" \in Store
        BY DEF Store
      <4> HIDE DEF t
      <4> DEFINE u == <<"approval">>
                 w == <<"plan", "task", "session", "attempt", "approval">>
      <4>3. u \in Seq(Store) /\ Len(u) = 1 /\ u[1] = "approval"
        BY <4>2
      <4>4. w \in Seq(Store) /\ Len(w) = 5 /\ w[1] = "plan" /\ w[2] = "task"
            /\ w[3] = "session" /\ w[4] = "attempt" /\ w[5] = "approval"
        BY DEF Store
      <4> HIDE DEF u, w
      <4>5. t \o u \in Seq(Store) /\ Len(t \o u) = 5
            /\ \A j \in 1..5 : (t \o u)[j] = IF j <= 4 THEN t[j] ELSE u[j - 4]
        <5>1. /\ t \o u \in Seq(Store) /\ Len(t \o u) = Len(t) + Len(u)
              /\ \A j \in 1..Len(t) + Len(u) :
                   (t \o u)[j] = IF j <= Len(t) THEN t[j] ELSE u[j - Len(t)]
          BY <4>1, <4>3, ConcatProperties, Zenon
        <5>2. Len(t) + Len(u) = 5 /\ Len(t) = 4
          BY <4>1, <4>3
        <5> QED BY <5>1, <5>2, Zenon
      <4>6. \A j \in 1..5 : (t \o u)[j] = w[j]
        BY <4>1, <4>3, <4>4, <4>5
      <4>7. t \o u = w
        BY <4>4, <4>5, <4>6, SeqEqual
      <4>8. t \o <<"approval">> = FinishTodo(c.appr)
        BY <3>2, <4>7 DEF FinishTodo, u, w
      <4> QED BY <3>2, <4>8 DEF FinishTodo, Store, t
    <3> QED BY <3>1, <3>2
  <2> HIDE DEF nx, todo
  <2> DEFINE m == [c EXCEPT !.op = "finish", !.pc = "persist", !.spec = s,
                            !.next = nx, !.todo = FinishTodo(c.appr)]
  <2>7. k(v) = m
    BY <2>4, <2>6 DEF s
  <2>8. m \in Call /\ m.op = "finish" /\ m.pc = "persist" /\ m.lease = c.lease
        /\ m.appr = c.appr /\ m.copy = c.copy /\ m.reuse = c.reuse
        /\ m.todo = FinishTodo(c.appr) /\ m.next = nx /\ m.spec = s
    BY <1>1, <2>2, <2>5, <2>6 DEF Call, Op
  <2>9. Set(a, m)
    BY <1>3, <2>7
  <2> HIDE DEF m, k
  <2>10. TodoOK(m)
    BY <2>2, <2>6, <2>8 DEF TodoOK
  <2>11. Frame(m)
    BY <2>3, <2>5, <2>8, <2>10 DEF Frame
  <2>12. VerifyForm(c, m)
    BY <2>2, <2>5, <2>8 DEF VerifyForm, pe
  <2> QED BY <2>9, <2>11, <2>12
<1>4. (\E v \in BOOLEAN : Set(a, k(v))) \/ Return(a)
  BY DEF Verify
<1> QED BY <1>3, <1>4

RecoverForm(a, k) ==
    /\ k.op = "recover" /\ k.pc = "normalize" /\ k.lease = LeaseOf(a) /\ k.appr = 0
    /\ k.reuse = FALSE /\ k.next.pending = 0

LEMMA RecoverSessionForm ==
    ASSUME TypeInv, NEW a \in Actor, RecoverSession(a)
    PROVE  \E k : Set(a, k) /\ Frame(k) /\ RecoverForm(a, k)
<1> DEFINE k == [NoCall EXCEPT !.op = "recover", !.pc = "normalize", !.lease = LeaseOf(a)]
<1>1. Set(a, k)
  BY DEF RecoverSession
<1>2. LeaseOf(a) \in Nat
  BY TypeFacts DEF LeaseOf
<1>3. PICK n \in Call : n = NoCall
  BY NoCallFacts
<1>4. k \in Call /\ k.op = "recover" /\ k.pc = "normalize" /\ k.lease = LeaseOf(a)
      /\ k.appr = n.appr /\ k.reuse = n.reuse /\ k.next = n.next
  BY <1>2, <1>3 DEF Call, Op
<1> HIDE DEF k
<1>5. Frame(k) /\ RecoverForm(a, k)
  BY <1>3, <1>4, NoCallFacts, CreatedFacts DEF Frame, RecoverForm, AnyApproval
<1> QED BY <1>1, <1>5

(* The lease of the write is the one found on the session.                 *)
NormalizeForm(c, k) ==
    /\ k.op = "recover" /\ k.pc = "persist" /\ k.lease = session.lease /\ k.appr = c.appr
    /\ k.reuse = c.reuse /\ k.todo = <<"session">>
    /\ k.next.exec = "idle" /\ k.next.pending = session.pending
    /\ ~isTerminalPhase(session.phase) => k.next.phase = "recover"

LEMMA NormalizeForms ==
    ASSUME TypeInv, NEW a \in Actor, Normalize(a)
    PROVE  \/ \E k : Set(a, k) /\ Frame(k) /\ NormalizeForm(calls[a], k)
           \/ Return(a)
<1> DEFINE c == calls[a]
           cur == IF session.current = NoStep THEN session.inFlight ELSE session.current
           ph == IF isTerminalPhase(session.phase) THEN session.phase ELSE "recover"
           nx == [session EXCEPT !.exec = "idle", !.phase = ph, !.current = cur]
           k == [c EXCEPT !.pc = "persist", !.lease = session.lease, !.next = nx,
                          !.todo = <<"session">>]
<1>1. Set(a, k) \/ Return(a)
  BY DEF Normalize
<1>2. session \in State /\ session.pending \in AnyApproval
  BY TypeFacts
<1>3. cur \in Step \cup {NoStep} /\ session.lease \in Nat /\ ph \in Phase
      /\ (~isTerminalPhase(session.phase) => ph = "recover")
  BY <1>2 DEF State, Phase
<1> HIDE DEF cur, ph
<1>4. nx \in State /\ nx.exec = "idle" /\ nx.phase = ph /\ nx.pending = session.pending
  BY <1>2, <1>3 DEF State, ExecutionState
<1> HIDE DEF nx
<1>5. <<"session">> \in Seq(Store) /\ <<"session">> # <<>> /\ ~Has(<<"session">>, "approval")
  BY DEF Store, Has
<1>6. c \in Call /\ c.op = "recover"
  BY TypeFacts DEF Normalize, Frame
<1>7. k \in Call /\ k.op = "recover" /\ k.pc = "persist" /\ k.lease = session.lease
      /\ k.appr = c.appr /\ k.reuse = c.reuse /\ k.todo = <<"session">> /\ k.next = nx
  BY <1>3, <1>4, <1>5, <1>6 DEF Call
<1> HIDE DEF k
<1>8. TodoOK(k)
  BY <1>5, <1>7 DEF TodoOK
<1>9. Frame(k) /\ NormalizeForm(c, k)
  BY <1>2, <1>3, <1>4, <1>7, <1>8 DEF Frame, NormalizeForm
<1> QED BY <1>1, <1>9

InterruptForm(a, k) ==
    /\ k.op = "interrupt" /\ k.pc = "persist" /\ k.lease = LeaseOf(a) /\ k.appr = 0
    /\ k.reuse = FALSE /\ k.todo = <<"session">>
    /\ k.next.exec = "interrupted" /\ k.next.phase = "recover"

LEMMA MarkSessionInterruptedForm ==
    ASSUME TypeInv, NEW a \in Actor, MarkSessionInterrupted(a)
    PROVE  \E k : Set(a, k) /\ Frame(k) /\ InterruptForm(a, k)
<1> DEFINE nx == [session EXCEPT !.exec = "interrupted", !.interrupted = TRUE,
                                 !.phase = "recover"]
           k == [NoCall EXCEPT !.op = "interrupt", !.pc = "persist", !.lease = LeaseOf(a),
                               !.next = nx, !.todo = <<"session">>]
<1>1. Set(a, k)
  BY DEF MarkSessionInterrupted
<1>2. session \in State /\ session.pending \in AnyApproval /\ LeaseOf(a) \in Nat
  BY TypeFacts DEF LeaseOf
<1>3. nx \in State /\ nx.exec = "interrupted" /\ nx.phase = "recover"
      /\ nx.pending = session.pending
  BY <1>2 DEF State, Phase, ExecutionState
<1> HIDE DEF nx
<1>4. <<"session">> \in Seq(Store) /\ <<"session">> # <<>> /\ ~Has(<<"session">>, "approval")
  BY DEF Store, Has
<1>5. PICK n \in Call : n = NoCall
  BY NoCallFacts
<1>6. k \in Call /\ k.op = "interrupt" /\ k.pc = "persist" /\ k.lease = LeaseOf(a)
      /\ k.appr = n.appr /\ k.reuse = n.reuse /\ k.todo = <<"session">> /\ k.next = nx
  BY <1>2, <1>3, <1>4, <1>5 DEF Call, Op
<1> HIDE DEF k
<1>7. TodoOK(k)
  BY <1>4, <1>6 DEF TodoOK
<1>8. Frame(k) /\ InterruptForm(a, k)
  BY <1>2, <1>3, <1>5, <1>6, <1>7, NoCallFacts DEF Frame, InterruptForm
<1> QED BY <1>1, <1>8

RespondForm(k) ==
    /\ k.op = "respond" /\ k.pc = "persist" /\ k.lease = 0
    /\ k.appr = session.pending /\ k.appr \in ApprovalId
    /\ approvals[k.appr].status = "pending"
    /\ k.copy.status = "pending" /\ k.copy.version = approvals[k.appr].version
    /\ k.copy.reply # "none" /\ k.todo = RespondTodo(k.copy.reply)
    /\ k.next.version = session.version /\ k.next.exec = "idle"
    /\ k.next.lease = session.lease
    /\ k.copy.reply = "reject" =>
         k.next.phase = "failed" /\ k.next.inFlight = NoStep /\ k.next.pending = 0
    /\ k.copy.reply # "reject" =>
         k.next.phase = session.phase /\ k.next.pending = session.pending

LEMMA RespondApprovalForm ==
    ASSUME TypeInv, NEW o \in Actor, NEW reply \in {"once", "always", "reject"},
           RespondApproval(o, reply)
    PROVE  \E k : Set(o, k) /\ Frame(k) /\ RespondForm(k)
<1> DEFINE i == session.pending
           rec == approvals[i]
           sp == [rec.spec EXCEPT !.status = "failed"]
           cp == [rec EXCEPT !.reply = reply]
           nr == [session EXCEPT !.phase = "failed", !.current = rec.step,
                                 !.pending = NoApprovalId, !.exec = "idle",
                                 !.inFlight = NoStep]
           na == [session EXCEPT !.exec = "idle"]
           nx == IF reply = "reject" THEN nr ELSE na
           k == [NoCall EXCEPT !.op = "respond", !.pc = "persist", !.step = rec.step,
                               !.appr = i, !.spec = sp, !.copy = cp, !.next = nx,
                               !.todo = RespondTodo(reply)]
<1>1. Set(o, k)
  BY DEF RespondApproval, RespondTodo
<1>2. i \in ApprovalId /\ i # 0 /\ rec \in Approval /\ rec.status = "pending"
      /\ session \in State
  BY TypeFacts DEF RespondApproval, AnyApproval
<1> HIDE DEF rec
<1>3. rec.step \in Step \cup {NoStep} /\ rec.spec \in StepSpec
  BY <1>2 DEF Approval
<1>4. sp \in StepSpec /\ cp \in Approval /\ cp.reply = reply /\ cp.status = rec.status
      /\ cp.version = rec.version
  BY <1>2, <1>3 DEF Approval, Reply, StepSpec, StepStatus
<1>5. /\ nr \in State /\ nr.phase = "failed" /\ nr.inFlight = NoStep /\ nr.pending = 0
      /\ nr.exec = "idle" /\ nr.version = session.version /\ nr.lease = session.lease
  BY <1>2, <1>3 DEF State, Phase, ExecutionState
<1>6. /\ na \in State /\ na.phase = session.phase /\ na.pending = i
      /\ na.exec = "idle" /\ na.version = session.version /\ na.lease = session.lease
  BY <1>2 DEF State, ExecutionState
<1>0. i = session.pending
  OBVIOUS
<1> HIDE DEF sp, cp, nr, na, i
<1>7. nx \in State /\ nx.exec = "idle" /\ nx.version = session.version
      /\ nx.lease = session.lease
      /\ nx.pending \in AnyApproval
      /\ (reply = "reject" => nx = nr) /\ (reply # "reject" => nx = na)
  BY <1>2, <1>5, <1>6 DEF AnyApproval
<1> HIDE DEF nx
<1>8. RespondTodo(reply) \in Seq(Store) /\ RespondTodo(reply) # <<>>
  <2>1. CASE reply = "reject"
    BY <2>1 DEF RespondTodo, Store
  <2>2. CASE reply # "reject"
    BY <2>2 DEF RespondTodo, Store
  <2> QED BY <2>1, <2>2
<1>9. PICK n \in Call : n = NoCall
  BY NoCallFacts
<1>10. k \in Call /\ k.op = "respond" /\ k.pc = "persist" /\ k.lease = n.lease
       /\ k.appr = i /\ k.copy = cp /\ k.todo = RespondTodo(reply) /\ k.next = nx
  BY <1>2, <1>3, <1>4, <1>7, <1>8, <1>9 DEF Call, Op
<1> HIDE DEF k
<1>11. TodoOK(k)
  BY <1>2, <1>8, <1>10 DEF TodoOK
<1>12. Frame(k)
  BY <1>7, <1>10, <1>11 DEF Frame
<1>13. /\ k.op = "respond" /\ k.pc = "persist" /\ k.lease = 0
       /\ k.appr = session.pending /\ k.appr \in ApprovalId
       /\ approvals[k.appr].status = "pending"
       /\ k.copy.status = "pending" /\ k.copy.version = approvals[k.appr].version
  BY <1>0, <1>2, <1>4, <1>9, <1>10, NoCallFacts DEF rec
<1>14. k.copy.reply # "none" /\ k.copy.reply = reply
  BY <1>4, <1>10
<1>15. RespondForm(k)
  BY <1>0, <1>5, <1>6, <1>7, <1>10, <1>13, <1>14 DEF RespondForm
<1> QED BY <1>1, <1>12, <1>15

AbortForm(k) ==
    /\ k.op = "abort" /\ k.pc = "persist" /\ k.lease = 0
    /\ k.appr = session.pending /\ k.todo = AbortTodo(k.appr)
    /\ k.next.version = session.version /\ k.next.phase = "aborted"
    /\ k.next.exec = "idle" /\ k.next.inFlight = NoStep /\ k.next.pending = 0
    /\ k.next.lease = 0

LEMMA AbortSessionForm ==
    ASSUME TypeInv, NEW o \in Actor, AbortSession(o)
    PROVE  \E k : Set(o, k) /\ Frame(k) /\ AbortForm(k)
<1> DEFINE i == session.pending
           step == IF session.current # NoStep THEN session.current ELSE session.inFlight
           nx == [session EXCEPT !.phase = "aborted", !.current = step, !.exec = "idle",
                                 !.inFlight = NoStep, !.pending = NoApprovalId,
                                 !.lease = NoLease, !.expires = 0]
           k == [NoCall EXCEPT !.op = "abort", !.pc = "persist", !.step = step,
                               !.appr = i, !.next = nx, !.todo = AbortTodo(i)]
<1>1. Set(o, k)
  BY DEF AbortSession, AbortTodo
<1>2. session \in State /\ i \in AnyApproval /\ i = session.pending
  BY TypeFacts
<1>3. step \in Step \cup {NoStep}
  BY <1>2 DEF State
<1> HIDE DEF step, i
<1>4. nx \in State /\ nx.phase = "aborted" /\ nx.exec = "idle" /\ nx.inFlight = NoStep
      /\ nx.pending = 0 /\ nx.lease = 0 /\ nx.version = session.version
  BY <1>2, <1>3 DEF State, Phase, ExecutionState
<1> HIDE DEF nx
<1>5. AbortTodo(i) \in Seq(Store) /\ AbortTodo(i) # <<>>
      /\ (Has(AbortTodo(i), "approval") => i # 0)
  <2>1. CASE i = 0
    BY <2>1 DEF AbortTodo, Store, Has
  <2>2. CASE i # 0
    BY <2>2 DEF AbortTodo, Store
  <2> QED BY <2>1, <2>2
<1>6. PICK n \in Call : n = NoCall
  BY NoCallFacts
<1>7. k \in Call /\ k.op = "abort" /\ k.pc = "persist" /\ k.lease = n.lease
      /\ k.appr = i /\ k.todo = AbortTodo(i) /\ k.next = nx
  BY <1>2, <1>3, <1>4, <1>5, <1>6 DEF Call, Op, AnyApproval
<1> HIDE DEF k
<1>8. TodoOK(k)
  BY <1>5, <1>7 DEF TodoOK
<1>9. Frame(k)
  BY <1>4, <1>7, <1>8 DEF Frame, AnyApproval
<1>10. AbortForm(k)
  BY <1>2, <1>4, <1>6, <1>7, NoCallFacts DEF AbortForm
<1> QED BY <1>1, <1>9, <1>10

----------------------------------------------------------------------------
(* The writes.                                                             *)

LEMMA WritesFacts ==
    ASSUME NEW c, Frame(c), c.pc = "persist"
    PROVE  /\ \A x \in Writes(c) : Has(c.todo, x)
           /\ Transactional => \A x : Has(c.todo, x) => x \in Writes(c)
           /\ c.op = "ask" => /\ c.appr = 0 <=> "approval" \in Writes(c)
                              /\ c.appr = 0 => c.todo = AskTodo
<1>1. TodoOK(c) /\ c.todo \in Seq(Store) /\ c.todo # <<>>
  BY DEF Frame, Call, TodoOK
<1>2. Len(c.todo) \in Nat \ {0} /\ DOMAIN c.todo = 1..Len(c.todo)
  BY <1>1, EmptySeq, LenProperties
<1>3. Head(c.todo) = c.todo[1] /\ 1 \in DOMAIN c.todo
  BY <1>1, <1>2
<1>4. \A x \in Writes(c) : Has(c.todo, x)
  BY <1>3 DEF Writes, Has
<1>5. Transactional => \A x : Has(c.todo, x) => x \in Writes(c)
  BY DEF Writes, Has
<1>6. ASSUME c.op = "ask"
      PROVE  (c.appr = 0 <=> "approval" \in Writes(c)) /\ (c.appr = 0 => c.todo = AskTodo)
  <2>1. CASE c.appr = 0
    <3>1. c.todo = AskTodo
      BY <1>1, <1>6, <2>1 DEF TodoOK
    <3>2. c.todo[1] = "approval"
      BY <3>1 DEF AskTodo
    <3> QED BY <1>3, <2>1, <3>1, <3>2 DEF Writes
  <2>2. CASE c.appr # 0
    BY <1>1, <1>4, <1>6, <2>2 DEF TodoOK
  <2> QED BY <2>1, <2>2
<1> QED BY <1>4, <1>5, <1>6

(* An ask knows the approval it writes, or draws a free number.            *)
LEMMA AskReady ==
    ASSUME TypeInv, NEW a \in Actor, Persist(a), calls[a].op = "ask"
    PROVE  LET c == calls[a] IN
           /\ AskId(c) \in ApprovalId
           /\ c.appr # 0 => AskId(c) = c.appr
           /\ c.appr = 0 => approvals[AskId(c)] = NoApproval
<1> DEFINE c == calls[a]
<1>1. Frame(c) /\ c \in Call /\ c.pc = "persist"
  BY TypeFacts DEF Persist, Frame
<1>2. c.appr = 0 => ApprovalAccepts(c)
  BY <1>1, WritesFacts DEF Persist, Accepts
<1>3. c.appr = 0 => \E i \in ApprovalId : approvals[i] = NoApproval
  BY <1>2, Zenon DEF ApprovalAccepts
<1> QED BY <1>1, <1>3, AskIdFacts

SessionWrite(c, s) ==
    /\ s \in State /\ s.pending \in AnyApproval
    /\ s.version = session.version + 1
    /\ s.phase = c.next.phase /\ s.exec = c.next.exec /\ s.inFlight = c.next.inFlight
    /\ s.pending = IF c.op = "ask" THEN AskId(c) ELSE c.next.pending
    /\ c.lease # 0 => leaseHeldAt(session, c.lease, now) /\ s.lease = c.lease
    /\ c.lease = 0 => c.next.version = session.version /\ s.lease = c.next.lease

LEMMA SessionWrites ==
    ASSUME TypeInv, NEW a \in Actor, Persist(a), "session" \in Writes(calls[a])
    PROVE  SessionWrite(calls[a], session')
<1> DEFINE c == calls[a]
           d == IF c.op = "ask" THEN [c.next EXCEPT !.pending = AskId(c)] ELSE c.next
<1>1. Frame(c) /\ c \in Call /\ c.pc = "persist" /\ c.next.pending \in AnyApproval
  BY TypeFacts DEF Persist, Frame
<1>2. c.next \in State /\ c.lease \in Nat /\ session \in State
  BY <1>1, TypeFacts DEF Call
<1>3. c.op = "ask" => AskId(c) \in ApprovalId
  BY AskReady
<1>4. /\ d \in State /\ d.phase = c.next.phase /\ d.exec = c.next.exec
      /\ d.inFlight = c.next.inFlight /\ d.version = c.next.version
      /\ d.lease = c.next.lease
      /\ d.pending = IF c.op = "ask" THEN AskId(c) ELSE c.next.pending
  <2>1. CASE c.op = "ask"
    <3>1. AskId(c) \in Nat
      BY <1>3, <2>1 DEF ApprovalId
    <3> QED BY <1>2, <2>1, <3>1 DEF State
  <2>2. CASE c.op # "ask"
    BY <1>2, <2>2
  <2> QED BY <2>1, <2>2
<1> HIDE DEF d
<1>5. d.pending \in AnyApproval
  BY <1>1, <1>3, <1>4 DEF AnyApproval
<1>6. session' = SessionAfter(c) /\ SessionAccepts(c)
  BY DEF Persist, Accepts
<1>7. CASE c.lease # 0
  <2> DEFINE m == mergeSessionUpdate(session, d, c.lease)
  <2>1. leaseHeldAt(session, c.lease, now) /\ session.lease = c.lease
    BY <1>6, <1>7 DEF SessionAccepts, requireSessionLease, leaseHeldAt, leaseActiveAt
  <2>2. session' = stored(session, m)
    BY <1>6, <1>7 DEF SessionAfter, d
  <2>3. m \in State /\ m.version = session.version + 1 /\ m.lease = c.lease
        /\ m.phase = d.phase /\ m.exec = d.exec /\ m.inFlight = d.inFlight
        /\ m.pending = d.pending
    BY <1>2, <1>4, <1>7, <2>1, MergeFacts
  <2> HIDE DEF m
  <2> QED BY <1>2, <1>4, <1>5, <1>7, <2>1, <2>2, <2>3, StoredFacts DEF SessionWrite
<1>8. CASE c.lease = 0
  <2> DEFINE v == d.version + 1
             m == [d EXCEPT !.version = v]
  <2>1. c.next.version = session.version
    BY <1>6, <1>8 DEF SessionAccepts
  <2>2. session' = stored(session, m)
    BY <1>6, <1>8 DEF SessionAfter, d
  <2>3. v \in Nat /\ v = session.version + 1
    BY <1>4, <2>1 DEF State
  <2> HIDE DEF v
  <2>4. m \in State /\ m.version = v /\ m.lease = d.lease
        /\ m.phase = d.phase /\ m.exec = d.exec /\ m.inFlight = d.inFlight
        /\ m.pending = d.pending
    BY <1>4, <2>3 DEF State
  <2> HIDE DEF m
  <2> QED BY <1>2, <1>4, <1>5, <1>8, <2>1, <2>2, <2>3, <2>4, StoredFacts DEF SessionWrite
<1> QED BY <1>7, <1>8

(* What the call c makes of the approval j, r the record it writes.        *)
ApprovalWrite(c, j, r) ==
    /\ j \in ApprovalId /\ r \in Approval
    /\ c.op \in {"ask", "finish", "respond", "abort"}
    /\ c.op = "ask" => /\ c.appr = 0 /\ approvals[j].version = 0 /\ r.version = 1
                       /\ approvals[j].status = "none"
                       /\ r.status = "pending" /\ r.reply = "none"
    /\ c.op # "ask" => c.appr = j /\ r.version = approvals[j].version + 1
    /\ c.op \in {"finish", "respond"} =>
         approvals[j].version = c.copy.version /\ r.reply = c.copy.reply
    /\ c.op = "finish" => r.status = IF r.reply = "once" THEN "consumed" ELSE "approved"
    /\ c.op = "respond" => r.status = IF r.reply = "reject" THEN "rejected" ELSE "approved"
    /\ c.op = "abort" =>
         /\ approvals[j].status = "pending" => r.status = "rejected" /\ r.reply = "reject"
         /\ approvals[j].status = "approved" => r.status = "consumed"
         /\ approvals[j].status \notin {"pending", "approved"} => r.status = approvals[j].status
         /\ approvals[j].status # "pending" => r.reply = approvals[j].reply

LEMMA ApprovalWrites ==
    ASSUME TypeInv, NEW a \in Actor, Persist(a), "approval" \in Writes(calls[a])
    PROVE  /\ ApprovalWrite(calls[a], AskId(calls[a]), ApprovalAfter(calls[a]))
           /\ approvals' = [approvals EXCEPT ![AskId(calls[a])] = ApprovalAfter(calls[a])]
<1> DEFINE c == calls[a]
           j == AskId(c)
           r == ApprovalAfter(c)
<1>1. /\ Frame(c) /\ c \in Call /\ c.pc = "persist" /\ TodoOK(c) /\ Has(c.todo, "approval")
      /\ approvals \in [ApprovalId -> Approval]
  BY TypeFacts, WritesFacts DEF Persist, Frame
<1>2. c.op \in {"ask", "finish", "respond", "abort"} /\ (c.op # "ask" => c.appr # 0)
  BY <1>1 DEF TodoOK
<1>3. /\ j \in ApprovalId
      /\ c.op # "ask" => j = c.appr
      /\ c.op = "ask" => c.appr = 0 /\ approvals[j] = NoApproval
  <2>1. CASE c.op = "ask"
    BY <1>1, <2>1, AskReady, WritesFacts
  <2>2. CASE c.op # "ask"
    BY <1>1, <1>2, <2>2, AskIdFacts
  <2> QED BY <2>1, <2>2
<1>4. approvals' = [approvals EXCEPT ![j] = r]
  BY DEF Persist
<1>5. ApprovalAccepts(c)
  BY DEF Persist, Accepts
<1>6. c.copy \in Approval /\ c.step \in Step \cup {NoStep} /\ c.spec \in StepSpec
  BY <1>1 DEF Call
<1> HIDE DEF j, c
<1>7. CASE c.op = "ask"
  <2>1. r = [status |-> "pending", reply |-> "none", version |-> 1,
             step |-> c.step, spec |-> c.spec]
    BY <1>7, Zenon DEF ApprovalAfter
  <2>2. r \in Approval /\ r.status = "pending" /\ r.reply = "none" /\ r.version = 1
    BY <1>6, <2>1 DEF Approval, Reply
  <2>3. approvals[j].version = 0 /\ approvals[j].status = "none"
    BY <1>3, <1>7 DEF NoApproval
  <2> QED BY <1>3, <1>4, <1>7, <2>2, <2>3 DEF ApprovalWrite, j, c
<1>8. CASE c.op \in {"finish", "respond"}
  <2> DEFINE v == c.copy.version + 1
             f == IF c.copy.reply = "once" THEN "consumed" ELSE "approved"
             g == IF c.copy.reply = "reject" THEN "rejected" ELSE "approved"
             st == IF c.op = "finish" THEN f ELSE g
             m == [c.copy EXCEPT !.version = v, !.status = st]
  <2>1. approvals[j].version = c.copy.version
    BY <1>3, <1>5, <1>8, Zenon DEF ApprovalAccepts
  <2>2. r = m
    <3>1. CASE c.op = "finish"
      <4>1. r = [c.copy EXCEPT !.version = @ + 1, !.status = f]
        BY <3>1, Zenon DEF ApprovalAfter
      <4> QED BY <3>1, <4>1
    <3>2. CASE c.op = "respond"
      <4>1. r = [c.copy EXCEPT !.version = @ + 1, !.status = g]
        BY <3>2, Zenon DEF ApprovalAfter
      <4> QED BY <3>2, <4>1
    <3> QED BY <1>8, <3>1, <3>2
  <2>3. v \in Nat /\ st \in {"consumed", "approved", "rejected"}
    BY <1>6 DEF Approval
  <2>4. (c.op = "finish" => st = f) /\ (c.op = "respond" => st = g)
    OBVIOUS
  <2> HIDE DEF v, st
  <2>5. m \in Approval /\ m.version = v /\ m.status = st /\ m.reply = c.copy.reply
    BY <1>6, <2>3 DEF Approval
  <2>6. v = approvals[j].version + 1
    BY <2>1 DEF v
  <2> HIDE DEF m, r
  <2> QED BY <1>3, <1>4, <1>8, <2>1, <2>2, <2>4, <2>5, <2>6 DEF ApprovalWrite, j, c, r
<1>9. CASE c.op = "abort"
  <2> DEFINE o == approvals[j]
             v == o.version + 1
             rp == IF o.status = "pending" THEN "reject" ELSE o.reply
             st == CASE o.status = "pending"  -> "rejected"
                     [] o.status = "approved" -> "consumed"
                     [] OTHER                 -> o.status
             sp == [o.spec EXCEPT !.status = "failed"]
             m == [o EXCEPT !.version = v, !.spec = sp, !.reply = rp, !.status = st]
  <2>1. o \in Approval /\ o.spec \in StepSpec
    BY <1>1, <1>3 DEF Approval
  <2>2. r = [o EXCEPT !.version = @ + 1, !.spec.status = "failed", !.reply = rp,
                      !.status = st]
    <3>1. r = [approvals[c.appr] EXCEPT
                !.version = @ + 1, !.spec.status = "failed",
                !.reply = IF approvals[c.appr].status = "pending" THEN "reject" ELSE @,
                !.status = CASE @ = "pending"  -> "rejected"
                             [] @ = "approved" -> "consumed"
                             [] OTHER          -> @]
      BY <1>9, Zenon DEF ApprovalAfter
    <3>2. c.appr = j
      BY <1>3, <1>9
    <3> QED BY <3>1, <3>2, Zenon
  <2>3. /\ o.status = "pending" => st = "rejected"
        /\ o.status = "approved" => st = "consumed"
        /\ o.status \notin {"pending", "approved"} => st = o.status
    BY Zenon
  <2> HIDE DEF st
  <2>4. st \in {"none", "pending", "approved", "rejected", "consumed"} /\ rp \in Reply
        /\ v \in Nat
    BY <2>1, <2>3 DEF Approval, Reply
  <2>5. sp \in StepSpec
    BY <2>1 DEF StepSpec, StepStatus
  <2>6. r = m
    BY <2>1, <2>2
  <2> HIDE DEF sp, rp, v
  <2>7. m \in Approval /\ m.version = v /\ m.status = st /\ m.reply = rp
    BY <2>1, <2>4, <2>5 DEF Approval
  <2> HIDE DEF m, r
  <2>8. v = approvals[j].version + 1 /\ (o.status = "pending" => rp = "reject")
        /\ (o.status # "pending" => rp = o.reply)
    BY DEF v, rp
  <2> QED BY <1>3, <1>4, <1>9, <2>3, <2>6, <2>7, <2>8 DEF ApprovalWrite, j, c, r
<1> QED BY <1>2, <1>7, <1>8, <1>9 DEF c

TaskWrite(c, t) ==
    /\ c.next.phase = "complete" => t = "completed"
    /\ c.next.phase = "failed" => t = "failed"
    /\ c.next.phase = "aborted" => t = "aborted"
    /\ ~isTerminalPhase(c.next.phase) => t = task

LEMMA TaskWrites ==
    ASSUME NEW c
    PROVE  TaskWrite(c, TaskAfter(c)) /\ TaskAfter(c) \in TaskStatus \cup {task}
<1>1. CASE c.next.phase = "complete"
  <2>1. TaskAfter(c) = "completed"
    BY <1>1, Zenon DEF TaskAfter
  <2> QED BY <1>1, <2>1 DEF TaskWrite, TaskStatus, isTerminalPhase, TerminalPhase
<1>2. CASE c.next.phase = "failed"
  <2>1. TaskAfter(c) = "failed"
    BY <1>2, Zenon DEF TaskAfter
  <2> QED BY <1>2, <2>1 DEF TaskWrite, TaskStatus, isTerminalPhase, TerminalPhase
<1>3. CASE c.next.phase = "aborted"
  <2>1. TaskAfter(c) = "aborted"
    BY <1>3, Zenon DEF TaskAfter
  <2> QED BY <1>3, <2>1 DEF TaskWrite, TaskStatus, isTerminalPhase, TerminalPhase
<1>4. CASE c.next.phase \notin {"complete", "failed", "aborted"}
  <2>1. TaskAfter(c) = task
    BY <1>4, Zenon DEF TaskAfter
  <2> QED BY <1>4, <2>1 DEF TaskWrite
<1> QED BY <1>1, <1>2, <1>3, <1>4

LEMMA PlanWrites ==
    ASSUME TypeInv, NEW c \in Call
    PROVE  PlanAfter(c) \in Plan
<1>1. plan \in [Step -> StepSpec] /\ approvals \in [ApprovalId -> Approval]
  BY TypeFacts DEF Plan
<1>2. c.spec \in StepSpec /\ c.step \in Step \cup {NoStep} /\ c.appr \in AnyApproval
  BY DEF Call, AnyApproval
<1>3. CASE c.step = NoStep
  BY <1>1, <1>3 DEF PlanAfter, Plan
<1>4. CASE c.step # NoStep
  <2> DEFINE x == CASE c.op = "abort" /\ c.appr # NoApprovalId ->
                         [approvals[c.appr].spec EXCEPT !.status = "failed"]
                    [] c.op = "abort" /\ c.appr = NoApprovalId ->
                         [plan[c.step] EXCEPT !.status = "failed"]
                    [] OTHER -> c.spec
  <2>1. c.step \in Step
    BY <1>2, <1>4
  <2>2. PlanAfter(c) = [plan EXCEPT ![c.step] = x]
    BY <1>4, Zenon DEF PlanAfter
  <2>3. CASE c.op = "abort" /\ c.appr # 0
    <3>1. x = [approvals[c.appr].spec EXCEPT !.status = "failed"]
      BY <2>3, Zenon
    <3> HIDE DEF x
    <3>2. approvals[c.appr] \in Approval
      BY <1>1, <1>2, <2>3 DEF AnyApproval
    <3>3. approvals[c.appr].spec \in StepSpec
      BY <3>2 DEF Approval
    <3>4. x \in StepSpec
      BY <3>1, <3>3 DEF StepSpec, StepStatus
    <3> QED BY <1>1, <2>2, <3>4 DEF Plan
  <2>4. CASE c.op = "abort" /\ c.appr = 0
    <3>1. x = [plan[c.step] EXCEPT !.status = "failed"]
      BY <2>4, Zenon
    <3> HIDE DEF x
    <3>2. plan[c.step] \in StepSpec
      BY <1>1, <2>1
    <3>3. x \in StepSpec
      BY <3>1, <3>2 DEF StepSpec, StepStatus
    <3> QED BY <1>1, <2>2, <3>3 DEF Plan
  <2>5. CASE c.op # "abort"
    <3>1. x = c.spec
      BY <2>5, Zenon
    <3> HIDE DEF x
    <3> QED BY <1>1, <1>2, <2>2, <3>1 DEF Plan
  <2> QED BY <2>3, <2>4, <2>5
<1> QED BY <1>3, <1>4

AttemptsWrite(c, at) ==
    /\ c.op = "ask" => at = [attempts EXCEPT ![AskId(c)] = "blocked"]
    /\ c.op = "finish" /\ c.reuse => at = [attempts EXCEPT ![c.appr] = c.spec.status]
    /\ c.op = "finish" /\ ~c.reuse => at = attempts
    /\ c.op \in {"respond", "abort"} =>
         at = IF attempts[c.appr] = "blocked" THEN [attempts EXCEPT ![c.appr] = "failed"]
                                              ELSE attempts
    /\ c.op \notin {"ask", "finish", "respond", "abort"} => at = attempts

LEMMA AttemptsWrites ==
    ASSUME TypeInv, NEW c, Frame(c), c.pc = "persist"
    PROVE  /\ AttemptsWrite(c, AttemptsAfter(c))
           /\ AttemptsAfter(c) \in [ApprovalId -> AttemptStatus]
<1>1. attempts \in [ApprovalId -> AttemptStatus] /\ c \in Call /\ TodoOK(c)
  BY TypeFacts DEF Frame
<1>2. c.reuse \in BOOLEAN
  BY <1>1 DEF Call
<1>3. CASE c.op = "ask"
  <2>1. AttemptsAfter(c) = [attempts EXCEPT ![AskId(c)] = "blocked"]
    BY <1>3, Zenon DEF AttemptsAfter
  <2> QED BY <1>1, <1>3, <2>1 DEF AttemptsWrite, AttemptStatus
<1>4. CASE c.op = "finish" /\ c.reuse
  <2>1. AttemptsAfter(c) = [attempts EXCEPT ![c.appr] = c.spec.status]
    BY <1>4, Zenon DEF AttemptsAfter
  <2>2. c.spec.status \in AttemptStatus
    BY <1>1, <1>4 DEF TodoOK, AttemptStatus
  <2> QED BY <1>1, <1>4, <2>1, <2>2 DEF AttemptsWrite
<1>5. CASE c.op = "finish" /\ ~c.reuse
  <2>1. AttemptsAfter(c) = attempts
    BY <1>5, Zenon DEF AttemptsAfter
  <2> QED BY <1>1, <1>5, <2>1 DEF AttemptsWrite
<1>6. CASE c.op \in {"respond", "abort"} /\ attempts[c.appr] = "blocked"
  <2>1. AttemptsAfter(c) = [attempts EXCEPT ![c.appr] = "failed"]
    BY <1>6, Zenon DEF AttemptsAfter
  <2> QED BY <1>1, <1>6, <2>1 DEF AttemptsWrite, AttemptStatus
<1>7. CASE c.op \in {"respond", "abort"} /\ attempts[c.appr] # "blocked"
  <2>1. AttemptsAfter(c) = attempts
    BY <1>7, Zenon DEF AttemptsAfter
  <2> QED BY <1>1, <1>7, <2>1 DEF AttemptsWrite
<1>8. CASE c.op \notin {"ask", "finish", "respond", "abort"}
  <2>1. AttemptsAfter(c) = attempts
    BY <1>8, Zenon DEF AttemptsAfter
  <2> QED BY <1>1, <1>8, <2>1 DEF AttemptsWrite
<1> QED BY <1>2, <1>3, <1>4, <1>5, <1>6, <1>7, <1>8

(* What a call goes on with: the rest of its writes, the tool call after a *)
(* mark, or nothing.                                                       *)
RestForm(c, k) ==
    /\ ~Transactional
    /\ k.op = c.op /\ k.pc = c.pc /\ k.lease = c.lease /\ k.copy = c.copy
    /\ k.reuse = c.reuse /\ k.next = c.next
    /\ k.appr = IF c.op = "ask" THEN AskId(c) ELSE c.appr

MarkedForm(c, k) ==
    /\ c.op = "mark" /\ k.op = "run" /\ k.pc = "invoke" /\ k.lease = c.lease
    /\ k.appr = c.appr /\ k.copy = c.copy /\ k.reuse = c.reuse

LEMMA ContinuationForms ==
    ASSUME TypeInv, NEW a \in Actor, Persist(a)
    PROVE  LET k == Continuation(calls[a]) IN
           /\ Set(a, k) /\ Frame(k)
           /\ k = NoCall \/ RestForm(calls[a], k) \/ MarkedForm(calls[a], k)
<1> DEFINE c == calls[a]
           k == Continuation(c)
<1>1. Frame(c) /\ c \in Call /\ c.pc = "persist" /\ TodoOK(c) /\ c.todo \in Seq(Store)
      /\ c.todo # <<>> /\ c.next.pending \in AnyApproval
  BY TypeFacts DEF Persist, Frame, TodoOK, Call
<1>2. Set(a, k)
  BY DEF Persist
<1>3. c.op = "ask" => AskId(c) \in ApprovalId
  BY AskReady
<1>4. CASE ~Transactional /\ Len(c.todo) > 1
  <2> DEFINE t == Tail(c.todo)
             i == IF c.op = "ask" THEN AskId(c) ELSE c.appr
             m == [c EXCEPT !.todo = t, !.appr = i]
  <2>1. k = m
    BY <1>1, <1>4 DEF Continuation
  <2>2. /\ t \in Seq(Store) /\ Len(t) = Len(c.todo) - 1
        /\ \A n \in 1..Len(t) : t[n] = c.todo[n + 1]
    BY <1>1, HeadTailProperties
  <2>3. Len(c.todo) \in Nat /\ Len(t) \in Nat /\ DOMAIN c.todo = 1..Len(c.todo)
        /\ DOMAIN t = 1..Len(t)
    BY <1>1, <2>2, LenProperties
  <2>4. t # <<>>
    BY <1>4, <2>2, <2>3
  <2>5. Has(t, "approval") => Has(c.todo, "approval")
    <3>1. \A n \in 1..Len(t) : n + 1 \in 1..Len(c.todo)
      BY <2>2, <2>3
    <3> QED BY <2>2, <2>3, <3>1 DEF Has
  <2>6. c.todo = AskTodo => ~Has(t, "approval")
    <3>1. AskTodo = <<"approval", "plan", "task", "session", "attempt">>
      BY DEF AskTodo
    <3>2. ASSUME c.todo = AskTodo PROVE \A n \in 1..4 : c.todo[n + 1] # "approval"
      BY <3>1, <3>2
    <3>3. ASSUME c.todo = AskTodo PROVE Len(t) = 4
      <4>1. Len(AskTodo) = 5
        BY <3>1
      <4> QED BY <2>2, <3>3, <4>1
    <3> QED BY <2>2, <2>3, <3>2, <3>3 DEF Has
  <2>7. i \in AnyApproval
    BY <1>1, <1>3 DEF AnyApproval, Call
  <2> HIDE DEF t
  <2>8. c.op = "ask" => i # 0 /\ ~Has(t, "approval")
    BY <1>1, <1>3, <2>5, <2>6 DEF TodoOK, ApprovalId
  <2>9. c.op # "ask" => i = c.appr
    OBVIOUS
  <2>10. c.op # "mark"
    <3>1. c.op = "mark" => c.todo = <<"session">>
      BY <1>1 DEF TodoOK
    <3>2. Len(<<"session">>) = 1 /\ ~(1 > 1)
      OBVIOUS
    <3> QED BY <1>4, <3>1, <3>2, Zenon
  <2>11. (c.op = "ask" => i = AskId(c)) /\ (c.op # "ask" => i = c.appr)
    OBVIOUS
  <2> HIDE DEF i
  <2>12. m \in Call /\ m.op = c.op /\ m.pc = c.pc /\ m.lease = c.lease /\ m.copy = c.copy
         /\ m.reuse = c.reuse /\ m.next = c.next /\ m.appr = i /\ m.todo = t /\ m.spec = c.spec
         /\ m.forced = c.forced
    BY <1>1, <2>2, <2>7 DEF Call, AnyApproval
  <2> HIDE DEF m
  <2>13. TodoOK(m)
    BY <1>1, <2>4, <2>5, <2>8, <2>9, <2>10, <2>12 DEF TodoOK
  <2>14. Frame(m)
    BY <1>1, <2>12, <2>13 DEF Frame
  <2>15. RestForm(c, m)
    BY <1>4, <2>11, <2>12 DEF RestForm
  <2> QED BY <1>2, <2>1, <2>14, <2>15
<1>5. CASE ~(~Transactional /\ Len(c.todo) > 1) /\ c.op = "mark"
  <2> DEFINE m == [c EXCEPT !.op = "run", !.pc = "invoke", !.todo = <<>>]
  <2>1. k = m
    BY <1>5 DEF Continuation
  <2>0. PICK e \in Seq(Store) : e = <<>>
    BY EmptySeq
  <2>2. m \in Call /\ m.op = "run" /\ m.pc = "invoke" /\ m.lease = c.lease /\ m.copy = c.copy
        /\ m.reuse = c.reuse /\ m.next = c.next /\ m.appr = c.appr
    BY <1>1, <2>0 DEF Call, Op
  <2> HIDE DEF m
  <2>3. Frame(m)
    BY <1>1, <2>2 DEF Frame
  <2> QED BY <1>2, <1>5, <2>1, <2>2, <2>3 DEF MarkedForm
<1>6. CASE ~(~Transactional /\ Len(c.todo) > 1) /\ c.op # "mark"
  <2>1. k = NoCall
    BY <1>6 DEF Continuation
  <2> QED BY <1>2, <2>1, NoCallFacts
<1> QED BY <1>4, <1>5, <1>6

----------------------------------------------------------------------------
(* Types.                                                                  *)

LEMMA CallMoves ==
    ASSUME TypeInv, NEW a \in Actor, NEW k, Set(a, k), Frame(k)
    PROVE  /\ calls' \in [Actor -> Call]
           /\ \A b \in Actor : calls'[b] = IF b = a THEN k ELSE calls[b]
           /\ \A b \in Actor : Frame(calls'[b])
<1>1. calls \in [Actor -> Call] /\ \A b \in Actor : Frame(calls[b])
  BY TypeFacts
<1>2. k \in Call /\ calls' = [calls EXCEPT ![a] = k]
  BY DEF Frame, Set
<1> QED BY <1>1, <1>2

LEMMA CallMovesType ==
    ASSUME TypeInv, NEW a \in Actor, NEW k, Set(a, k), Frame(k),
           held' \in [Worker -> Nat], uses' \in [ApprovalId -> Nat],
           UNCHANGED <<stores, now, issued, recorded, strayed>>
    PROVE  TypeInv'
<1>1. calls' \in [Actor -> Call] /\ \A b \in Actor : Frame(calls'[b])
  BY CallMoves, Zenon
<1> QED BY <1>1, TypeFacts DEF TypeInv, TypeOK, stores

LEMMA ReturnIsSet ==
    ASSUME NEW a, Return(a)
    PROVE  Set(a, NoCall) /\ Frame(NoCall)
BY NoCallFacts DEF Return, Set

LEMMA InitType ==
    ASSUME Init
    PROVE  TypeInv
<1>1. NewStep \in StepSpec /\ NoApproval \in Approval
  <2>1. NewStep \in StepSpec
    BY DEF NewStep, StepSpec, StepStatus
  <2> QED BY <2>1 DEF NoApproval, Approval, Reply
<1>2. TypeOK
  BY <1>1, NoCallFacts, CreatedFacts DEF Init, TypeOK, Plan, TaskStatus, AttemptStatus
<1>3. session.pending \in AnyApproval
  BY CreatedFacts DEF Init, AnyApproval
<1>4. \A a \in Actor : Frame(calls[a])
  BY NoCallFacts DEF Init
<1> QED BY <1>2, <1>3, <1>4 DEF TypeInv

LEMMA RunnerIsActor ==
    /\ Worker \subseteq Actor /\ Operator \subseteq Actor /\ Runner \subseteq Actor
BY DEF Actor, Runner

LEMMA LeaseStepType ==
    ASSUME TypeInv, NEW w \in Worker,
           (\E mode \in ClaimMode : Claim(w, mode)) \/ RenewLease(w) \/ ReleaseLease(w)
    PROVE  /\ TypeInv'
           /\ UNCHANGED <<plan, task, approvals, attempts, now, calls, uses, recorded, strayed>>
           /\ session'.phase = session.phase /\ session'.exec = session.exec
           /\ session'.inFlight = session.inFlight /\ session'.pending = session.pending
           /\ session' = session \/ session'.version = session.version + 1
<1>1. LeaseTTL \in Nat /\ now \in Nat /\ issued \in Nat /\ held \in [Worker -> Nat]
      /\ session \in State
  BY TypeFacts, BoundAssumption
<1>2. issued + 1 \in Nat /\ now + LeaseTTL \in Nat /\ held[w] \in Nat /\ 0 \in Nat
  BY <1>1
<1>3. UNCHANGED <<plan, task, approvals, attempts, now, calls, uses, recorded, strayed>>
  BY DEF Claim, RenewLease, ReleaseLease
<1>4. held' \in [Worker -> Nat] /\ issued' \in Nat
  BY <1>1, <1>2 DEF Claim, RenewLease, ReleaseLease
<1>5. \/ \E l, e \in Nat : session' = withLease(session, l, e)
      \/ session' = session
  BY <1>2 DEF Claim, RenewLease, ReleaseLease
<1>6. /\ session' \in State
      /\ session'.phase = session.phase /\ session'.exec = session.exec
      /\ session'.inFlight = session.inFlight /\ session'.pending = session.pending
      /\ session' = session \/ session'.version = session.version + 1
  <2>1. CASE session' = session
    BY <1>1, <2>1
  <2>2. ASSUME NEW l \in Nat, NEW e \in Nat, session' = withLease(session, l, e)
        PROVE  /\ session' \in State /\ session'.version = session.version + 1
               /\ session'.phase = session.phase /\ session'.exec = session.exec
               /\ session'.inFlight = session.inFlight /\ session'.pending = session.pending
    <3> DEFINE r == withLease(session, l, e)
    <3>1. /\ r \in State /\ r.version = session.version + 1
          /\ r.phase = session.phase /\ r.exec = session.exec
          /\ r.inFlight = session.inFlight /\ r.pending = session.pending
      BY <1>1, WithLeaseFacts
    <3>2. session' = r
      BY <2>2
    <3> HIDE DEF r
    <3> QED BY <3>1, <3>2, Zenon
  <2> QED BY <1>5, <2>1, <2>2
<1>7. \A b \in Actor : Frame(calls'[b])
  BY <1>3, TypeFacts
<1> QED BY <1>3, <1>4, <1>6, <1>7, TypeFacts DEF TypeInv, TypeOK

LEMMA PersistType ==
    ASSUME TypeInv, NEW a \in Actor, Persist(a)
    PROVE  TypeInv'
<1> DEFINE c == calls[a]
<1>1. Frame(c) /\ c \in Call /\ c.pc = "persist"
  BY TypeFacts DEF Persist, Frame
<1>2. session' \in State /\ session'.pending \in AnyApproval
  BY SessionWrites, TypeFacts DEF Persist, SessionWrite
<1>3. plan' \in Plan
  BY <1>1, PlanWrites, TypeFacts DEF Persist
<1>4. task' \in TaskStatus
  BY TaskWrites, TypeFacts DEF Persist
<1>5. attempts' \in [ApprovalId -> AttemptStatus]
  BY <1>1, AttemptsWrites, TypeFacts DEF Persist
<1>6. approvals' \in [ApprovalId -> Approval]
  <2>1. CASE "approval" \in Writes(c)
    BY <2>1, ApprovalWrites, TypeFacts DEF ApprovalWrite
  <2>2. CASE "approval" \notin Writes(c)
    BY <2>2, TypeFacts DEF Persist
  <2> QED BY <2>1, <2>2
<1>7. recorded' \in [ApprovalId -> Nat]
  <2>1. CASE c.op = "finish" /\ "approval" \in Writes(c)
    <3>1. c.appr \in ApprovalId
      BY <2>1, ApprovalWrites DEF ApprovalWrite
    <3>2. recorded[c.appr] + 1 \in Nat
      BY <3>1, TypeFacts
    <3> QED BY <2>1, <3>1, <3>2, TypeFacts DEF Persist
  <2>2. CASE ~(c.op = "finish" /\ "approval" \in Writes(c))
    BY <2>2, TypeFacts DEF Persist
  <2> QED BY <2>1, <2>2
<1>8. calls' \in [Actor -> Call] /\ \A b \in Actor : Frame(calls'[b])
  BY ContinuationForms, CallMoves
<1>9. UNCHANGED <<now, issued, held, uses>> /\ strayed' \in BOOLEAN
  BY DEF Persist
<1> QED BY <1>2, <1>3, <1>4, <1>5, <1>6, <1>7, <1>8, <1>9, TypeFacts DEF TypeInv, TypeOK

LEMMA BeginForms ==
    ASSUME TypeInv, NEW a \in Actor, Begin(a)
    PROVE  LET c == calls[a] IN
           \/ \E k : /\ Set(a, k) /\ Frame(k) /\ k.lease = c.lease /\ Admitted(c)
                     /\ AskForm(c, k) \/ DenyForm(c, k) \/ ReuseForm(c, k) \/ AllowForm(c, k)
           \/ Return(a)
<1> DEFINE c == calls[a]
<1>1. Frame(c) /\ c.pc = "begin"
  BY TypeFacts DEF Begin
<1>2. ASSUME NEW d \in IF c.forced THEN {"allow"} ELSE Policy, Set(a, Decide(c, d)),
             Admitted(c)
      PROVE  \E k : /\ Set(a, k) /\ Frame(k) /\ k.lease = c.lease /\ Admitted(c)
                    /\ AskForm(c, k) \/ DenyForm(c, k) \/ ReuseForm(c, k) \/ AllowForm(c, k)
  <2>1. d \in {"allow", "ask", "deny"} /\ (c.forced => d = "allow")
    BY PolicyAssumption
  <2>2. /\ Frame(Decide(c, d)) /\ Decide(c, d).lease = c.lease
        /\ \/ AskForm(c, Decide(c, d)) \/ DenyForm(c, Decide(c, d))
           \/ ReuseForm(c, Decide(c, d)) \/ AllowForm(c, Decide(c, d))
    BY <1>1, <2>1, DecideForms
  <2> QED BY <1>2, <2>2
<1>3. \/ /\ Admitted(c)
         /\ \E d \in IF c.forced THEN {"allow"} ELSE Policy : Set(a, Decide(c, d))
      \/ Return(a)
  BY DEF Begin
<1> QED BY <1>2, <1>3

LEMMA TypeStep ==
    ASSUME TypeInv, [Next]_vars
    PROVE  TypeInv'
<1>0. held \in [Worker -> Nat] /\ uses \in [ApprovalId -> Nat]
  BY TypeFacts
<1>1. ASSUME NEW a \in Actor, NEW k, Set(a, k), Frame(k),
             UNCHANGED <<stores, now, issued, held, uses, recorded, strayed>>
      PROVE  TypeInv'
  BY <1>0, <1>1, CallMovesType
<1>2. CASE Tick
  <2>1. now' \in Nat /\ UNCHANGED <<stores, issued, held, calls, uses, recorded, strayed>>
    BY <1>2, TypeFacts DEF Tick
  <2> QED BY <2>1, TypeFacts DEF TypeInv, TypeOK, stores
<1>3. ASSUME NEW w \in Worker,
             (\E mode \in ClaimMode : Claim(w, mode)) \/ RenewLease(w) \/ ReleaseLease(w)
      PROVE  TypeInv'
  BY <1>3, LeaseStepType
<1>4. ASSUME NEW a \in Runner, RecoverSession(a) \/ MarkSessionInterrupted(a)
      PROVE  TypeInv'
  <2>1. \E k : Set(a, k) /\ Frame(k)
    BY <1>4, RunnerIsActor, RecoverSessionForm, MarkSessionInterruptedForm
  <2> QED BY <1>1, <1>4, <2>1, RunnerIsActor DEF RecoverSession, MarkSessionInterrupted
<1>5. ASSUME NEW a \in Runner, NEW s \in Step, RunStep(a, s)
      PROVE  TypeInv'
  <2>1. \E k : Set(a, k) /\ Frame(k)
    BY <1>5, RunnerIsActor, RunStepForm
  <2> QED BY <1>1, <1>5, <2>1, RunnerIsActor DEF RunStep
<1>6. ASSUME NEW a \in Runner, ResumePendingApproval(a)
      PROVE  TypeInv'
  <2>1. \E k : Set(a, k) /\ Frame(k)
    BY <1>6, RunnerIsActor, ResumePendingApprovalForm
  <2> QED BY <1>1, <1>6, <2>1, RunnerIsActor DEF ResumePendingApproval
<1>7. ASSUME NEW o \in Operator, NEW r \in {"once", "always", "reject"}, RespondApproval(o, r)
      PROVE  TypeInv'
  <2>1. \E k : Set(o, k) /\ Frame(k)
    BY <1>7, RunnerIsActor, RespondApprovalForm
  <2> QED BY <1>1, <1>7, <2>1, RunnerIsActor DEF RespondApproval
<1>8. ASSUME NEW o \in Operator, AbortSession(o)
      PROVE  TypeInv'
  <2>1. \E k : Set(o, k) /\ Frame(k)
    BY <1>8, RunnerIsActor, AbortSessionForm
  <2> QED BY <1>1, <1>8, <2>1, RunnerIsActor DEF AbortSession
<1>9. ASSUME NEW a \in Actor,
             Begin(a) \/ Mark(a) \/ Verify(a) \/ Normalize(a) \/ PersistRefused(a)
      PROVE  TypeInv'
  <2>1. \E k : Set(a, k) /\ Frame(k)
    <3>1. CASE Begin(a)
      BY <3>1, BeginForms, ReturnIsSet
    <3>2. CASE Mark(a)
      BY <3>2, MarkForms, ReturnIsSet
    <3>3. CASE Verify(a)
      BY <3>3, VerifyForms, ReturnIsSet
    <3>4. CASE PersistRefused(a)
      BY <3>4, ReturnIsSet DEF PersistRefused
    <3>5. CASE Normalize(a)
      BY <3>5, NormalizeForms, ReturnIsSet
    <3> QED BY <1>9, <3>1, <3>2, <3>3, <3>4, <3>5
  <2> QED BY <1>1, <1>9, <2>1 DEF Begin, Mark, Verify, Normalize, PersistRefused
<1>10. ASSUME NEW a \in Actor, Invoke(a)
       PROVE  TypeInv'
  <2>1. \E k : Set(a, k) /\ Frame(k)
    BY <1>10, InvokeForms
  <2>2. uses' \in [ApprovalId -> Nat]
    <3>1. calls[a] \in Call /\ calls[a].appr \in ApprovalId \cup {0}
      BY TypeFacts DEF Call
    <3> DEFINE i == calls[a].appr
               n == uses[i] + 1
    <3>2. CASE i = 0
      BY <1>0, <1>10, <3>2 DEF Invoke
    <3>3. CASE i # 0
      <4>1. n \in Nat
        BY <1>0, <3>1, <3>3
      <4>2. uses' = [uses EXCEPT ![i] = n]
        BY <1>10, <3>3 DEF Invoke
      <4> HIDE DEF n, i
      <4> QED BY <1>0, <4>1, <4>2
    <3> QED BY <3>2, <3>3
  <2> QED BY <1>0, <1>10, <2>1, <2>2, CallMovesType DEF Invoke
<1>11. ASSUME NEW a \in Actor, Persist(a)
       PROVE  TypeInv'
  BY <1>11, PersistType
<1>12. ASSUME NEW a \in Actor, Crash(a)
       PROVE  TypeInv'
  <2>1. Set(a, NoCall) /\ Frame(NoCall)
    BY <1>12, ReturnIsSet DEF Crash
  <2>2. held' \in [Worker -> Nat]
    BY <1>0, <1>12 DEF Crash
  <2> QED BY <1>0, <1>12, <2>1, <2>2, CallMovesType DEF Crash
<1>13. CASE UNCHANGED vars
  BY <1>13, TypeFacts DEF vars, TypeInv, TypeOK
<1> QED
  BY <1>2, <1>3, <1>4, <1>5, <1>6, <1>7, <1>8, <1>9, <1>10, <1>11, <1>12, <1>13
  DEF Next, CallStep

LEMMA TypeInvariance == Spec => []TypeInv
<1>1. Init => TypeInv
  BY InitType
<1>2. TypeInv /\ [Next]_vars => TypeInv'
  BY TypeStep
<1> QED BY <1>1, <1>2, PTL DEF Spec

(* The stores and the frames of the calls keep their types: what a call    *)
(* writes is a record of the store it writes to, with either unit of work. *)
THEOREM TypeCorrect == Spec => []TypeOK
<1>1. TypeInv => TypeOK
  BY DEF TypeInv
<1> QED BY <1>1, TypeInvariance, PTL

----------------------------------------------------------------------------
(* Approvals: what a call read and what became of it.                      *)

LEMMA ReadOfNoApproval ==
    ASSUME NEW k, NEW as, k.op \notin {"run", "mark", "finish", "respond"}
    PROVE  ApprovalRead(k, as)
BY DEF ApprovalRead

LEMMA ReadOfNoRun ==
    ASSUME NEW k, NEW as, k.appr = 0, k.op # "respond"
    PROVE  ApprovalRead(k, as)
BY DEF ApprovalRead

(* A call that goes on with the approval it has.                           *)
LEMMA ReadKept ==
    ASSUME NEW c, NEW k, NEW as, ApprovalRead(c, as), k.appr = c.appr, k.copy = c.copy,
           \/ c.op \in {"run", "mark", "finish"} /\ k.op \in {"run", "mark", "finish"}
           \/ k.op = c.op
    PROVE  ApprovalRead(k, as)
BY DEF ApprovalRead

LEMMA ReadAsApproved ==
    ASSUME TypeInv, NEW k, k.op = "run", k.appr \in ApprovalId,
           approvals[k.appr].status = "approved", k.copy = approvals[k.appr]
    PROVE  ApprovalRead(k, approvals)
<1>1. approvals[k.appr] \in Approval
  BY TypeFacts
<1>2. approvals[k.appr].version \in Nat
  BY <1>1 DEF Approval
<1> QED BY <1>2 DEF ApprovalRead, Granted

(* A write of an approval raises its version and does not take back a      *)
(* grant, so what other calls read of it stays true or is out of date.     *)
LEMMA ReadStays ==
    ASSUME NEW as \in [ApprovalId -> Approval], NEW j \in ApprovalId, NEW r \in Approval,
           r.version > as[j].version, as[j].status \in Granted => r.status \in Granted,
           NEW c, Frame(c), ApprovalRead(c, as)
    PROVE  ApprovalRead(c, [as EXCEPT ![j] = r])
<1> DEFINE bs == [as EXCEPT ![j] = r]
<1>1. c \in Call /\ c.appr \in ApprovalId \cup {0} /\ c.copy \in Approval
  BY DEF Frame, Call
<1>2. c.op = "respond" => c.appr # 0
  BY <1>1 DEF Frame, TodoOK, Call
<1>3. \A i \in ApprovalId : as[i] \in Approval /\ as[i].version \in Nat
  BY DEF Approval
<1>4. r.version \in Nat /\ c.copy.version \in Nat
  BY <1>1 DEF Approval
<1>5. CASE c.appr = j
  <2>1. bs[c.appr] = r /\ as[c.appr] = as[j]
    BY <1>5
  <2> HIDE DEF bs
  <2>2. c.copy.version <= as[j].version =>
          c.copy.version <= r.version /\ c.copy.version # r.version
    <3>1. \A x, y, z \in Nat : z > y /\ x <= y => x <= z /\ x # z
      OBVIOUS
    <3>2. PICK x \in Nat, y \in Nat, z \in Nat :
            x = c.copy.version /\ y = as[j].version /\ z = r.version
      BY <1>3, <1>4
    <3>3. z > y
      BY <3>2
    <3> QED BY <3>1, <3>2, <3>3, Zenon
  <2>3. ApprovalRead(c, bs)
    BY <2>1, <2>2 DEF ApprovalRead
  <2> QED BY <2>3 DEF bs
<1>6. CASE c.appr # j
  <2>1. c.appr # 0 => bs[c.appr] = as[c.appr]
    BY <1>1, <1>6
  <2> HIDE DEF bs
  <2>2. ApprovalRead(c, bs)
    BY <1>2, <2>1 DEF ApprovalRead
  <2> QED BY <2>2 DEF bs
<1> QED BY <1>5, <1>6

(* Every step that only moves a call on leaves it with a true reading.     *)
LEMMA MovesRead ==
    ASSUME TypeInv, ApprovalInv, NEW a \in Actor, NEW k, Set(a, k), Frame(k),
           ApprovalRead(k, approvals)
    PROVE  \A b \in Actor : ApprovalRead(calls'[b], approvals)
<1>1. \A b \in Actor : calls'[b] = IF b = a THEN k ELSE calls[b]
  BY CallMoves
<1> QED BY <1>1 DEF ApprovalInv

LEMMA CallStartsRead ==
    ASSUME TypeInv, ApprovalInv, NEW a \in Actor,
           \/ \E s \in Step : RunStep(a, s)
           \/ ResumePendingApproval(a) \/ RecoverSession(a) \/ MarkSessionInterrupted(a)
           \/ \E r \in {"once", "always", "reject"} : RespondApproval(a, r)
           \/ AbortSession(a) \/ Begin(a) \/ Mark(a) \/ Invoke(a) \/ Verify(a)
           \/ Normalize(a) \/ PersistRefused(a) \/ Crash(a)
    PROVE  \A b \in Actor : ApprovalRead(calls'[b], approvals)
<1> DEFINE c == calls[a]
<1>0. ApprovalRead(c, approvals) /\ Frame(c)
  BY TypeFacts DEF ApprovalInv
<1> SUFFICES \E k : Set(a, k) /\ Frame(k) /\ ApprovalRead(k, approvals)
  BY MovesRead
<1>1. ASSUME NEW s \in Step, RunStep(a, s)
      PROVE  \E k : Set(a, k) /\ Frame(k) /\ ApprovalRead(k, approvals)
  <2>1. PICK k : Set(a, k) /\ Frame(k) /\ RunForm(a, k)
    BY <1>1, RunStepForm
  <2>2. ApprovalRead(k, approvals)
    BY <2>1, ReadOfNoRun DEF RunForm
  <2> QED BY <2>1, <2>2
<1>2. CASE ResumePendingApproval(a)
  <2>1. PICK k : Set(a, k) /\ Frame(k) /\ ResumeForm(a, k)
    BY <1>2, ResumePendingApprovalForm
  <2>2. ApprovalRead(k, approvals)
    BY <2>1, ReadAsApproved DEF ResumeForm
  <2> QED BY <2>1, <2>2
<1>3. CASE RecoverSession(a)
  <2>1. PICK k : Set(a, k) /\ Frame(k) /\ RecoverForm(a, k)
    BY <1>3, RecoverSessionForm
  <2>2. ApprovalRead(k, approvals)
    BY <2>1, ReadOfNoApproval DEF RecoverForm
  <2> QED BY <2>1, <2>2
<1>4. ASSUME NEW r \in {"once", "always", "reject"}, RespondApproval(a, r)
      PROVE  \E k : Set(a, k) /\ Frame(k) /\ ApprovalRead(k, approvals)
  <2>1. PICK k : Set(a, k) /\ Frame(k) /\ RespondForm(k)
    BY <1>4, RespondApprovalForm
  <2>2. approvals[k.appr].version \in Nat
    <3>1. approvals[k.appr] \in Approval
      BY <2>1, TypeFacts DEF RespondForm
    <3> QED BY <3>1 DEF Approval
  <2>3. ApprovalRead(k, approvals)
    BY <2>1, <2>2 DEF RespondForm, ApprovalRead
  <2> QED BY <2>1, <2>3
<1>5. CASE AbortSession(a)
  <2>1. PICK k : Set(a, k) /\ Frame(k) /\ AbortForm(k)
    BY <1>5, AbortSessionForm
  <2>2. ApprovalRead(k, approvals)
    BY <2>1, ReadOfNoApproval DEF AbortForm
  <2> QED BY <2>1, <2>2
<1>6. CASE Return(a)
  <2>1. Set(a, NoCall) /\ Frame(NoCall) /\ NoCall.op = "none"
    BY <1>6, ReturnIsSet, NoCallFacts
  <2>2. ApprovalRead(NoCall, approvals)
    BY <2>1, ReadOfNoApproval
  <2> QED BY <2>1, <2>2
<1>7. CASE Begin(a)
  <2>1. ASSUME NEW k, Set(a, k), Frame(k),
               AskForm(c, k) \/ DenyForm(c, k) \/ ReuseForm(c, k) \/ AllowForm(c, k)
        PROVE  ApprovalRead(k, approvals)
    <3>1. CASE AskForm(c, k) \/ DenyForm(c, k)
      BY <3>1, ReadOfNoApproval DEF AskForm, DenyForm
    <3>2. CASE ReuseForm(c, k)
      BY <3>2, ReadAsApproved DEF ReuseForm
    <3>3. CASE AllowForm(c, k)
      <4>1. c.op = "run"
        BY <1>0, <1>7 DEF Begin, Frame
      <4> QED BY <1>0, <3>3, <4>1, ReadKept DEF AllowForm
    <3> QED BY <2>1, <3>1, <3>2, <3>3
  <2> QED BY <1>6, <1>7, <2>1, BeginForms
<1>8. CASE Mark(a)
  <2>1. ASSUME NEW k, MarkForm(c, k) PROVE ApprovalRead(k, approvals)
    <3>1. c.op = "run"
      BY <1>0, <1>8 DEF Mark, Frame
    <3> QED BY <1>0, <2>1, <3>1, ReadKept DEF MarkForm
  <2> QED BY <1>6, <1>8, <2>1, MarkForms
<1>9. CASE Invoke(a)
  <2>1. ASSUME NEW k, InvokeForm(c, k) PROVE ApprovalRead(k, approvals)
    <3>1. c.op = "run"
      BY <1>0, <1>9 DEF Invoke, Frame
    <3> QED BY <1>0, <2>1, <3>1, ReadKept DEF InvokeForm
  <2> QED BY <1>9, <2>1, InvokeForms
<1>10. CASE Verify(a)
  <2>1. ASSUME NEW k, VerifyForm(c, k) PROVE ApprovalRead(k, approvals)
    <3>1. c.op = "run"
      BY <1>0, <1>10 DEF Verify, Frame
    <3> QED BY <1>0, <2>1, <3>1, ReadKept DEF VerifyForm
  <2> QED BY <1>6, <1>10, <2>1, VerifyForms
<1>11. CASE Normalize(a)
  <2>1. ASSUME NEW k, NormalizeForm(c, k) PROVE ApprovalRead(k, approvals)
    BY <2>1, ReadOfNoApproval DEF NormalizeForm
  <2> QED BY <1>6, <1>11, <2>1, NormalizeForms
<1>12. CASE MarkSessionInterrupted(a)
  <2>1. PICK k : Set(a, k) /\ Frame(k) /\ InterruptForm(a, k)
    BY <1>12, MarkSessionInterruptedForm
  <2>2. ApprovalRead(k, approvals)
    BY <2>1, ReadOfNoApproval DEF InterruptForm
  <2> QED BY <2>1, <2>2
<1> QED BY <1>1, <1>2, <1>3, <1>4, <1>5, <1>6, <1>7, <1>8, <1>9, <1>10, <1>11, <1>12
        DEF PersistRefused, Crash

(* The write of an approval by a call that read it truly: a grant stays a  *)
(* grant, and the counts of its uses and records stay within it.           *)
LEMMA ApprovalWriteKeeps ==
    ASSUME TypeInv, ApprovalInv, NEW c \in Call, ApprovalRead(c, approvals), NEW j, NEW r,
           ApprovalWrite(c, j, r)
    PROVE  /\ r.version > approvals[j].version
           /\ approvals[j].status \in Granted => r.status \in Granted
           /\ ApprovalUse(r, uses[j], IF c.op = "finish" THEN recorded[j] + 1 ELSE recorded[j])
<1>1. j \in ApprovalId /\ r \in Approval /\ approvals[j] \in Approval
      /\ uses[j] \in Nat /\ recorded[j] \in Nat
  BY TypeFacts DEF ApprovalWrite
<1>2. approvals[j].version \in Nat
  BY <1>1 DEF Approval
<1>3. r.version > approvals[j].version
  <2>1. CASE c.op = "ask"
    BY <2>1 DEF ApprovalWrite
  <2>2. CASE c.op # "ask"
    BY <1>2, <2>2 DEF ApprovalWrite
  <2> QED BY <2>1, <2>2
<1>4. ApprovalUse(approvals[j], uses[j], recorded[j])
  BY <1>1 DEF ApprovalInv
<1>5. CASE c.op = "ask"
  <2>1. approvals[j].status = "none" /\ r.reply = "none"
    BY <1>5 DEF ApprovalWrite
  <2>2. uses[j] = 0 /\ recorded[j] = 0
    BY <1>1, <1>4, <2>1 DEF ApprovalUse, Granted
  <2> QED BY <1>3, <1>5, <2>1, <2>2 DEF ApprovalUse, Granted
<1>6. CASE c.op = "finish"
  <2>1. approvals[j] = c.copy /\ approvals[j].status = "approved"
    BY <1>1, <1>6 DEF ApprovalWrite, ApprovalRead, ApprovalId
  <2>2. r.status \in Granted /\ r.reply = approvals[j].reply
        /\ (r.reply = "once" => r.status = "consumed")
    BY <1>6, <2>1 DEF ApprovalWrite, Granted
  <2>3. r.reply = "once" => recorded[j] = 0
    BY <1>1, <1>4, <2>1, <2>2 DEF ApprovalUse
  <2> QED BY <1>1, <1>3, <1>6, <2>2, <2>3 DEF ApprovalUse
<1>7. CASE c.op = "respond"
  <2>1. approvals[j].status = "pending"
    BY <1>1, <1>7 DEF ApprovalWrite, ApprovalRead
  <2>2. uses[j] = 0 /\ recorded[j] = 0
    BY <1>1, <1>4, <2>1 DEF ApprovalUse, Granted
  <2> QED BY <1>3, <1>7, <2>1, <2>2 DEF ApprovalUse, Granted
<1>8. CASE c.op = "abort"
  <2>1. CASE approvals[j].status = "pending"
    <3>1. r.reply = "reject"
      BY <1>8, <2>1 DEF ApprovalWrite
    <3>2. uses[j] = 0 /\ recorded[j] = 0
      BY <1>1, <1>4, <2>1 DEF ApprovalUse, Granted
    <3> QED BY <1>3, <1>8, <2>1, <3>1, <3>2 DEF ApprovalUse, Granted
  <2>2. CASE approvals[j].status # "pending"
    <3>1. /\ r.reply = approvals[j].reply
          /\ approvals[j].status \in Granted => r.status \in Granted
          /\ approvals[j].status = "consumed" => r.status = "consumed"
      BY <1>8, <2>2 DEF ApprovalWrite, Granted
    <3> QED BY <1>3, <1>4, <1>8, <3>1 DEF ApprovalUse
  <2> QED BY <2>1, <2>2
<1> QED BY <1>5, <1>6, <1>7, <1>8 DEF ApprovalWrite

LEMMA PersistApproval ==
    ASSUME TypeInv, ApprovalInv, NEW a \in Actor, Persist(a)
    PROVE  ApprovalInv'
<1> DEFINE c == calls[a]
           k == Continuation(c)
<1>1. Frame(c) /\ c \in Call /\ ApprovalRead(c, approvals) /\ uses' = uses
      /\ approvals \in [ApprovalId -> Approval] /\ recorded \in [ApprovalId -> Nat]
  BY TypeFacts DEF Persist, Frame, ApprovalInv
<1>2. \A b \in Actor : calls'[b] = IF b = a THEN k ELSE calls[b]
  BY ContinuationForms, CallMoves
<1>3. (\A b \in Actor : ApprovalRead(calls[b], approvals')) =>
        \A b \in Actor : ApprovalRead(calls'[b], approvals')
  <2> SUFFICES ASSUME ApprovalRead(c, approvals')
               PROVE  ApprovalRead(k, approvals')
    BY <1>2
  <2>1. CASE k = NoCall
    BY <2>1, NoCallFacts, ReadOfNoApproval
  <2>2. CASE RestForm(c, k) /\ c.op = "ask"
    BY <2>2, ReadOfNoApproval DEF RestForm
  <2>3. CASE RestForm(c, k) /\ c.op # "ask"
    BY <2>3, ReadKept DEF RestForm
  <2>4. CASE MarkedForm(c, k)
    BY <2>4, ReadKept DEF MarkedForm
  <2> HIDE DEF k
  <2> QED BY <2>1, <2>2, <2>3, <2>4, ContinuationForms DEF k
<1>4. CASE "approval" \in Writes(c)
  <2> DEFINE j == AskId(c)
             r == ApprovalAfter(c)
  <2>1. ApprovalWrite(c, j, r) /\ approvals' = [approvals EXCEPT ![j] = r]
    BY <1>4, ApprovalWrites
  <2> HIDE DEF j, r
  <2>2. j \in ApprovalId /\ r \in Approval /\ (c.op = "finish" => c.appr = j)
    BY <2>1 DEF ApprovalWrite
  <2>3. /\ r.version > approvals[j].version
        /\ approvals[j].status \in Granted => r.status \in Granted
        /\ ApprovalUse(r, uses[j], IF c.op = "finish" THEN recorded[j] + 1 ELSE recorded[j])
    BY <1>1, <2>1, ApprovalWriteKeeps
  <2>4. ASSUME NEW b \in Actor PROVE ApprovalRead(calls[b], approvals')
    <3>1. Frame(calls[b]) /\ ApprovalRead(calls[b], approvals)
      BY TypeFacts DEF ApprovalInv
    <3> QED BY <1>1, <2>1, <2>2, <2>3, <3>1, ReadStays
  <2>5. recorded' = IF c.op = "finish" THEN [recorded EXCEPT ![j] = @ + 1] ELSE recorded
    BY <1>4, <2>2 DEF Persist
  <2>6. \A i \in ApprovalId : ApprovalUse(approvals'[i], uses'[i], recorded'[i])
    <3> TAKE i \in ApprovalId
    <3>1. CASE i = j
      <4>1. approvals'[i] = r /\ uses'[i] = uses[j]
            /\ recorded'[i] = IF c.op = "finish" THEN recorded[j] + 1 ELSE recorded[j]
        BY <1>1, <2>1, <2>2, <2>5, <3>1
      <4> QED BY <2>3, <4>1
    <3>2. CASE i # j
      <4>1. approvals'[i] = approvals[i] /\ uses'[i] = uses[i] /\ recorded'[i] = recorded[i]
        BY <1>1, <2>1, <2>2, <2>5, <3>2
      <4> QED BY <4>1 DEF ApprovalInv
    <3> QED BY <3>1, <3>2
  <2> QED BY <1>3, <2>4, <2>6 DEF ApprovalInv
<1>5. CASE "approval" \notin Writes(c)
  <2>1. approvals' = approvals /\ recorded' = recorded
    BY <1>5 DEF Persist
  <2> QED BY <1>1, <1>3, <2>1 DEF ApprovalInv
<1> QED BY <1>4, <1>5

LEMMA InvokeApproval ==
    ASSUME TypeInv, ApprovalInv, NEW a \in Actor, Invoke(a)
    PROVE  ApprovalInv'
<1> DEFINE c == calls[a]
           i == c.appr
<1>1. approvals' = approvals /\ recorded' = recorded
  BY DEF Invoke, stores
<1>2. \A b \in Actor : ApprovalRead(calls'[b], approvals)
  BY CallStartsRead
<1>3. c \in Call /\ Frame(c) /\ i \in ApprovalId \cup {0} /\ c.op = "run"
      /\ uses \in [ApprovalId -> Nat]
  BY TypeFacts DEF Call, Frame, Invoke
<1>4. i # 0 => approvals[i].status \in Granted
  BY <1>3 DEF ApprovalInv, ApprovalRead
<1>5. \A j \in ApprovalId : /\ i = 0 \/ j # i => uses'[j] = uses[j]
                            /\ j = i => i # 0
  BY <1>3 DEF Invoke, ApprovalId
<1>6. \A j \in ApprovalId : ApprovalUse(approvals[j], uses'[j], recorded[j])
  BY <1>4, <1>5 DEF ApprovalInv, ApprovalUse
<1> QED BY <1>1, <1>2, <1>6 DEF ApprovalInv

LEMMA ApprovalStep ==
    ASSUME TypeInv, ApprovalInv, [Next]_vars
    PROVE  ApprovalInv'
<1>1. ASSUME UNCHANGED <<approvals, calls, uses, recorded>>
      PROVE  ApprovalInv'
  BY <1>1 DEF ApprovalInv
<1>2. ASSUME NEW a \in Actor,
             \/ \E s \in Step : RunStep(a, s)
             \/ ResumePendingApproval(a) \/ RecoverSession(a) \/ MarkSessionInterrupted(a)
             \/ \E r \in {"once", "always", "reject"} : RespondApproval(a, r)
             \/ AbortSession(a) \/ Begin(a) \/ Mark(a) \/ Verify(a)
             \/ Normalize(a) \/ PersistRefused(a) \/ Crash(a)
      PROVE  ApprovalInv'
  <2>1. UNCHANGED <<approvals, uses, recorded>>
    BY <1>2 DEF RunStep, ResumePendingApproval, RecoverSession, MarkSessionInterrupted,
                RespondApproval, AbortSession, Begin, Mark, Verify, Normalize, PersistRefused,
                Crash, stores
  <2>2. \A b \in Actor : ApprovalRead(calls'[b], approvals)
    BY <1>2, CallStartsRead
  <2> QED BY <2>1, <2>2 DEF ApprovalInv
<1>3. ASSUME NEW w \in Worker,
             (\E mode \in ClaimMode : Claim(w, mode)) \/ RenewLease(w) \/ ReleaseLease(w)
      PROVE  ApprovalInv'
  BY <1>1, <1>3, LeaseStepType
<1>4. CASE Tick
  BY <1>1, <1>4 DEF Tick, stores
<1>5. CASE UNCHANGED vars
  BY <1>1, <1>5 DEF vars
<1> QED
  BY <1>2, <1>3, <1>4, <1>5, PersistApproval, InvokeApproval, RunnerIsActor
  DEF Next, CallStep

LEMMA InitApproval ==
    ASSUME Init
    PROVE  ApprovalInv
<1>1. \A a \in Actor : ApprovalRead(calls[a], approvals)
  BY NoCallFacts, ReadOfNoApproval DEF Init
<1>2. \A i \in ApprovalId : ApprovalUse(approvals[i], uses[i], recorded[i])
  BY DEF Init, ApprovalUse, NoApproval
<1> QED BY <1>1, <1>2 DEF ApprovalInv

LEMMA ApprovalInvariance == Spec => [](TypeInv /\ ApprovalInv)
<1>1. Init => TypeInv /\ ApprovalInv
  BY InitType, InitApproval
<1>2. TypeInv /\ ApprovalInv /\ [Next]_vars => (TypeInv /\ ApprovalInv)'
  BY TypeStep, ApprovalStep
<1> QED BY <1>1, <1>2, PTL DEF Spec

(* RespondApproval and AbortSession race with the calls that use an        *)
(* approval, in any order and with either unit of work: the tool has never *)
(* run on an approval that ends up rejected.                               *)
THEOREM RejectedApprovalsNeverRun == Spec => []RejectedNeverRuns
<1>1. TypeInv /\ ApprovalInv => RejectedNeverRuns
  <2> SUFFICES ASSUME TypeInv, ApprovalInv, NEW i \in ApprovalId,
                      approvals[i].status = "rejected"
               PROVE  uses[i] = 0
    BY DEF RejectedNeverRuns
  <2>1. uses[i] \in Nat
    BY TypeFacts
  <2> QED BY <2>1 DEF ApprovalInv, ApprovalUse, Granted
<1> QED BY <1>1, ApprovalInvariance, PTL

(* However many callers resumed it before it was spent, the version check  *)
(* of approval.Store.Update lets only one of them record its run under an  *)
(* approval given once.                                                    *)
THEOREM OnceIsRecordedOnce == Spec => []OnceRecordedOnce
<1>1. ApprovalInv => OnceRecordedOnce
  BY DEF ApprovalInv, ApprovalUse, OnceRecordedOnce
<1> QED BY <1>1, ApprovalInvariance, PTL

----------------------------------------------------------------------------
(* The agreement of the stores: calls that move on.                        *)

LEMMA WorkerMoves ==
    ASSUME TypeInv, AgreementInv, NEW w \in Worker, NEW k, Set(w, k), Frame(k),
           UNCHANGED <<session, task, approvals, attempts, issued, held>>,
           WorkerCall(k, held[w]),
           Own(k, held[w], session) => LeasedCall(k, session, approvals, attempts)
    PROVE  AgreementInv'
<1>1. \A b \in Actor : calls'[b] = IF b = w THEN k ELSE calls[b]
  BY RunnerIsActor, CallMoves
<1>2. \A v \in Worker : calls'[v] = IF v = w THEN k ELSE calls[v]
  BY <1>1, RunnerIsActor
<1>3. \A o \in Operator : calls'[o] = calls[o]
  BY <1>1, RunnerIsActor, ActorAssumption
<1>4. LeaseInv'
  BY <1>2 DEF AgreementInv, LeaseInv
<1>5. \A v \in Worker : Own(calls'[v], held[v], session)
        => LeasedCall(calls'[v], session, approvals, attempts)
  BY <1>2 DEF AgreementInv
<1>6. \A o \in Operator : calls'[o].op # "none" => OperatorCall(calls'[o], session)
  BY <1>3 DEF AgreementInv
<1> QED BY <1>4, <1>5, <1>6 DEF AgreementInv

LEMMA OperatorMoves ==
    ASSUME TypeInv, AgreementInv, NEW o \in Operator, NEW k, Set(o, k), Frame(k),
           UNCHANGED <<session, task, approvals, attempts, issued, held>>,
           k.op # "none" => OperatorCall(k, session)
    PROVE  AgreementInv'
<1>1. \A b \in Actor : calls'[b] = IF b = o THEN k ELSE calls[b]
  BY RunnerIsActor, CallMoves
<1>2. \A v \in Worker : calls'[v] = calls[v]
  BY <1>1, RunnerIsActor, ActorAssumption
<1>3. \A p \in Operator : calls'[p] = IF p = o THEN k ELSE calls[p]
  BY <1>1, RunnerIsActor
<1>4. LeaseInv'
  BY <1>2 DEF AgreementInv, LeaseInv
<1>5. \A v \in Worker : Own(calls'[v], held[v], session)
        => LeasedCall(calls'[v], session, approvals, attempts)
  BY <1>2 DEF AgreementInv
<1>6. \A p \in Operator : calls'[p].op # "none" => OperatorCall(calls'[p], session)
  BY <1>3 DEF AgreementInv
<1> QED BY <1>4, <1>5, <1>6 DEF AgreementInv

LEMMA TerminalHasNoPending ==
    ASSUME AgreementInv, session.pending # 0
    PROVE  ~isTerminalPhase(session.phase)
BY DEF AgreementInv, TerminalGood

LEMMA RunStepAgreement ==
    ASSUME TypeInv, AgreementInv, NEW w \in Worker, NEW s \in Step, RunStep(w, s)
    PROVE  AgreementInv'
<1>1. PICK k : Set(w, k) /\ Frame(k) /\ RunForm(w, k)
  BY RunStepForm, RunnerIsActor
<1>2. held[w] # 0 /\ LeaseOf(w) = held[w] /\ ~isTerminalPhase(session.phase)
      /\ session.pending = 0
  BY DEF RunStep, CanCall, LeaseOf
<1>3. WorkerCall(k, held[w])
  <2>1. LeasedFrame(k)
    BY <1>1 DEF RunForm, LeasedFrame, Leased
  <2>2. k.lease = held[w] /\ held[w] # 0
    BY <1>1, <1>2 DEF RunForm
  <2> QED BY <2>1, <2>2, Zenon DEF WorkerCall
<1>4. LeasedCall(k, session, approvals, attempts)
  BY <1>1, <1>2 DEF RunForm, LeasedCall
<1> QED BY <1>1, <1>3, <1>4, WorkerMoves DEF RunStep, stores

LEMMA ResumeAgreement ==
    ASSUME TypeInv, AgreementInv, NEW w \in Worker, ResumePendingApproval(w)
    PROVE  AgreementInv'
<1>1. PICK k : Set(w, k) /\ Frame(k) /\ ResumeForm(w, k)
  BY ResumePendingApprovalForm, RunnerIsActor
<1>2. held[w] # 0 /\ LeaseOf(w) = held[w] /\ session.pending # 0
  BY DEF ResumePendingApproval, CanCall, LeaseOf
<1>3. ~isTerminalPhase(session.phase)
  BY <1>2, TerminalHasNoPending
<1>4. WorkerCall(k, held[w])
  <2>1. LeasedFrame(k)
    BY <1>1 DEF ResumeForm, LeasedFrame, Leased
  <2>2. k.lease = held[w] /\ held[w] # 0
    BY <1>1, <1>2 DEF ResumeForm
  <2> QED BY <2>1, <2>2, Zenon DEF WorkerCall
<1>5. LeasedCall(k, session, approvals, attempts)
  BY <1>1, <1>3 DEF ResumeForm, LeasedCall
<1> QED BY <1>1, <1>4, <1>5, WorkerMoves DEF ResumePendingApproval, stores

LEMMA RecoverAgreement ==
    ASSUME TypeInv, AgreementInv, NEW w \in Worker, RecoverSession(w)
    PROVE  AgreementInv'
<1>1. PICK k : Set(w, k) /\ Frame(k) /\ RecoverForm(w, k)
  BY RecoverSessionForm, RunnerIsActor
<1>2. held[w] # 0 /\ LeaseOf(w) = held[w] /\ ~isTerminalPhase(session.phase)
      /\ session.pending = 0
  BY DEF RecoverSession, CanCall, LeaseOf
<1>3. WorkerCall(k, held[w])
  <2>1. LeasedFrame(k)
    BY <1>1 DEF RecoverForm, LeasedFrame, Leased
  <2>2. k.lease = held[w] /\ held[w] # 0
    BY <1>1, <1>2 DEF RecoverForm
  <2> QED BY <2>1, <2>2, Zenon DEF WorkerCall
<1>4. LeasedCall(k, session, approvals, attempts)
  BY <1>1, <1>2 DEF RecoverForm, LeasedCall
<1> QED BY <1>1, <1>3, <1>4, WorkerMoves DEF RecoverSession, stores

LEMMA InterruptAgreement ==
    ASSUME TypeInv, AgreementInv, NEW w \in Worker, MarkSessionInterrupted(w)
    PROVE  AgreementInv'
<1>1. PICK k : Set(w, k) /\ Frame(k) /\ InterruptForm(w, k)
  BY MarkSessionInterruptedForm, RunnerIsActor
<1>2. held[w] # 0 /\ LeaseOf(w) = held[w]
  BY DEF MarkSessionInterrupted, CanCall, LeaseOf
<1>3. WorkerCall(k, held[w])
  BY <1>1, <1>2 DEF InterruptForm, WorkerCall, LeasedFrame, Leased
<1>4. ~Own(k, held[w], session)
  BY <1>1 DEF InterruptForm, Own
<1> QED BY <1>1, <1>3, <1>4, WorkerMoves DEF MarkSessionInterrupted, stores

LEMMA RespondAgreement ==
    ASSUME TypeInv, AgreementInv, NEW o \in Operator, NEW r \in {"once", "always", "reject"},
           RespondApproval(o, r)
    PROVE  AgreementInv'
<1>1. PICK k : Set(o, k) /\ Frame(k) /\ RespondForm(k)
  BY RespondApprovalForm, RunnerIsActor
<1>2. session.pending # 0 /\ session.version \in Nat
  BY TypeFacts DEF RespondApproval, State
<1>3. ~isTerminalPhase(session.phase)
  BY <1>2, TerminalHasNoPending
<1>4. OperatorCall(k, session)
  BY <1>1, <1>2, <1>3 DEF RespondForm, OperatorCall
<1> QED BY <1>1, <1>4, OperatorMoves DEF RespondApproval, stores

LEMMA AbortAgreement ==
    ASSUME TypeInv, AgreementInv, NEW o \in Operator, AbortSession(o)
    PROVE  AgreementInv'
<1>1. PICK k : Set(o, k) /\ Frame(k) /\ AbortForm(k)
  BY AbortSessionForm, RunnerIsActor
<1>2. ~isTerminalPhase(session.phase) /\ session.version \in Nat
  BY TypeFacts DEF AbortSession, State
<1>3. OperatorCall(k, session)
  BY <1>1, <1>2 DEF AbortForm, OperatorCall
<1> QED BY <1>1, <1>3, OperatorMoves DEF AbortSession, stores

LEMMA ReturnAgreement ==
    ASSUME TypeInv, AgreementInv, NEW a \in Worker \cup Operator, Return(a),
           UNCHANGED <<session, task, approvals, attempts, issued, held>>
    PROVE  AgreementInv'
<1>1. Set(a, NoCall) /\ Frame(NoCall) /\ NoCall.op = "none"
  BY ReturnIsSet, NoCallFacts
<1>2. \A h : WorkerCall(NoCall, h) /\ ~Own(NoCall, h, session)
  BY <1>1 DEF WorkerCall, Own
<1>3. CASE a \in Worker
  BY <1>1, <1>2, <1>3, WorkerMoves
<1>4. CASE a \in Operator
  BY <1>1, <1>4, OperatorMoves
<1> QED BY <1>3, <1>4

(* Only workers are in a run.                                              *)
LEMMA RunsAreWorkers ==
    ASSUME TypeInv, AgreementInv, NEW a \in Worker \cup Operator,
           calls[a].pc \in {"begin", "mark", "invoke", "verify", "normalize"}
    PROVE  a \in Worker /\ calls[a].op \in {"run", "recover"}
           /\ (calls[a].pc # "normalize" => calls[a].op = "run")
<1>1. Frame(calls[a])
  BY TypeFacts, RunnerIsActor
<1>2. /\ calls[a].op \in {"run", "recover"}
      /\ calls[a].pc # "normalize" => calls[a].op = "run"
  BY <1>1 DEF Frame
<1>3. a \notin Operator
  BY <1>2 DEF AgreementInv, OperatorCall
<1> QED BY <1>2, <1>3

LEMMA MarkAgreement ==
    ASSUME TypeInv, AgreementInv, NEW a \in Worker \cup Operator, Mark(a)
    PROVE  AgreementInv'
<1> DEFINE c == calls[a]
<1>0. a \in Worker /\ c.op = "run" /\ c.pc = "mark"
  BY RunsAreWorkers DEF Mark
<1>1. WorkerCall(c, held[a]) /\ c.lease = held[a]
      /\ (c.lease = session.lease => LeasedCall(c, session, approvals, attempts))
  BY <1>0 DEF AgreementInv, LeaseInv, WorkerCall, Own
<1>2. UNCHANGED <<session, task, approvals, attempts, issued, held>>
  BY DEF Mark, stores
<1>3. ASSUME NEW k, Set(a, k), Frame(k), MarkForm(c, k)
      PROVE  AgreementInv'
  <2>1. WorkerCall(k, held[a])
    BY <1>0, <1>1, <1>3 DEF MarkForm, WorkerCall, LeasedFrame, Leased
  <2>2. Own(k, held[a], session) => LeasedCall(k, session, approvals, attempts)
    BY <1>0, <1>1, <1>3 DEF MarkForm, LeasedCall, Own
  <2> QED BY <1>0, <1>2, <1>3, <2>1, <2>2, WorkerMoves
<1>4. CASE Return(a)
  BY <1>2, <1>4, ReturnAgreement
<1> QED BY <1>3, <1>4, MarkForms, RunnerIsActor

LEMMA InvokeAgreement ==
    ASSUME TypeInv, AgreementInv, NEW a \in Worker \cup Operator, Invoke(a)
    PROVE  AgreementInv'
<1> DEFINE c == calls[a]
<1>0. a \in Worker /\ c.op = "run" /\ c.pc = "invoke"
  BY RunsAreWorkers DEF Invoke
<1>1. WorkerCall(c, held[a]) /\ c.lease = held[a]
      /\ (c.lease = session.lease => LeasedCall(c, session, approvals, attempts))
  BY <1>0 DEF AgreementInv, LeaseInv, WorkerCall, Own
<1>2. UNCHANGED <<session, task, approvals, attempts, issued, held>>
  BY DEF Invoke, stores
<1>3. PICK k : Set(a, k) /\ Frame(k) /\ InvokeForm(c, k)
  BY InvokeForms, RunnerIsActor
<1>4. WorkerCall(k, held[a])
  BY <1>0, <1>1, <1>3 DEF InvokeForm, WorkerCall, LeasedFrame, Leased
<1>5. Own(k, held[a], session) => LeasedCall(k, session, approvals, attempts)
  BY <1>0, <1>1, <1>3 DEF InvokeForm, LeasedCall, Own
<1> QED BY <1>0, <1>2, <1>3, <1>4, <1>5, WorkerMoves

LEMMA VerifyAgreement ==
    ASSUME TypeInv, AgreementInv, NEW a \in Worker \cup Operator, Verify(a)
    PROVE  AgreementInv'
<1> DEFINE c == calls[a]
<1>0. a \in Worker /\ c.op = "run" /\ c.pc = "verify"
  BY RunsAreWorkers DEF Verify
<1>1. WorkerCall(c, held[a]) /\ c.lease = held[a]
      /\ (c.lease = session.lease => LeasedCall(c, session, approvals, attempts))
  BY <1>0 DEF AgreementInv, LeaseInv, WorkerCall, Own
<1>2. UNCHANGED <<session, task, approvals, attempts, issued, held>>
  BY DEF Verify, stores
<1>3. ASSUME NEW k, Set(a, k), Frame(k), VerifyForm(c, k)
      PROVE  AgreementInv'
  <2>1. WorkerCall(k, held[a])
    BY <1>0, <1>1, <1>3 DEF VerifyForm, WorkerCall, LeasedFrame, Leased
  <2>2. Own(k, held[a], session) => LeasedCall(k, session, approvals, attempts)
    BY <1>0, <1>1, <1>3 DEF VerifyForm, LeasedCall, Own
  <2> QED BY <1>0, <1>2, <1>3, <2>1, <2>2, WorkerMoves
<1>4. CASE Return(a)
  BY <1>2, <1>4, ReturnAgreement
<1> QED BY <1>3, <1>4, VerifyForms, RunnerIsActor

LEMMA BeginAgreement ==
    ASSUME TypeInv, AgreementInv, NEW a \in Worker \cup Operator, Begin(a)
    PROVE  AgreementInv'
<1> DEFINE c == calls[a]
<1>0. a \in Worker /\ c.op = "run" /\ c.pc = "begin"
  BY RunsAreWorkers DEF Begin
<1>1. WorkerCall(c, held[a]) /\ c.lease = held[a]
      /\ (c.lease = session.lease => LeasedCall(c, session, approvals, attempts))
  BY <1>0 DEF AgreementInv, LeaseInv, WorkerCall, Own
<1>2. UNCHANGED <<session, task, approvals, attempts, issued, held>>
  BY DEF Begin, stores
<1>3. ASSUME NEW k, Set(a, k), Frame(k), k.lease = c.lease, Admitted(c),
             AskForm(c, k) \/ DenyForm(c, k) \/ ReuseForm(c, k) \/ AllowForm(c, k)
      PROVE  AgreementInv'
  <2>1. session.pending # 0 => session.pending = c.appr
    BY <1>3 DEF Admitted
  <2>2. ApprovalGood(session, approvals, attempts)
    BY DEF AgreementInv
  <2>3. CASE AskForm(c, k) \/ DenyForm(c, k)
    <3>1. WorkerCall(k, held[a])
      BY <1>0, <1>1, <1>3, <2>3 DEF AskForm, DenyForm, WorkerCall, LeasedFrame, Leased
    <3>2. Own(k, held[a], session) => LeasedCall(k, session, approvals, attempts)
      BY <1>1, <1>3, <2>1, <2>3 DEF AskForm, DenyForm, LeasedCall, Own
    <3> QED BY <1>0, <1>2, <1>3, <3>1, <3>2, WorkerMoves
  <2>4. CASE ReuseForm(c, k)
    <3>1. WorkerCall(k, held[a])
      BY <1>0, <1>1, <1>3, <2>4 DEF ReuseForm, WorkerCall, LeasedFrame, Leased, ApprovalId
    <3>2. attempts[k.appr] # "blocked"
      BY <2>1, <2>2, <2>4 DEF ReuseForm, ApprovalGood, ApprovalId
    <3>3. Own(k, held[a], session) => LeasedCall(k, session, approvals, attempts)
      BY <1>1, <1>3, <2>1, <2>4, <3>2 DEF ReuseForm, LeasedCall, Own
    <3> QED BY <1>0, <1>2, <1>3, <3>1, <3>3, WorkerMoves
  <2>5. CASE AllowForm(c, k)
    <3>1. k.reuse => k.appr # 0
      BY <2>5 DEF AllowForm
    <3>2. WorkerCall(k, held[a])
      BY <1>0, <1>1, <1>3, <2>5, <3>1 DEF AllowForm, WorkerCall, LeasedFrame, Leased
    <3>3. c.appr \in ApprovalId \cup {0}
      BY TypeFacts, RunnerIsActor DEF Frame, Call
    <3>4. k.appr # 0 /\ attempts[k.appr] = "blocked" => k.reuse
      BY <2>2, <2>5, <3>3 DEF AllowForm, ApprovalGood
    <3>5. Own(k, held[a], session) => LeasedCall(k, session, approvals, attempts)
      BY <1>0, <1>1, <1>3, <2>5, <3>4 DEF AllowForm, LeasedCall, Own
    <3> QED BY <1>0, <1>2, <1>3, <3>2, <3>5, WorkerMoves
  <2> QED BY <1>3, <2>3, <2>4, <2>5
<1>4. CASE Return(a)
  BY <1>2, <1>4, ReturnAgreement
<1> QED BY <1>3, <1>4, BeginForms, RunnerIsActor

(* A recovery that still has its lease finds the session as it left it.    *)
LEMMA NormalizeAgreement ==
    ASSUME TypeInv, AgreementInv, NEW a \in Worker \cup Operator, Normalize(a)
    PROVE  AgreementInv'
<1> DEFINE c == calls[a]
<1>0. a \in Worker /\ c.pc = "normalize" /\ c.op = "recover"
  BY RunsAreWorkers, TypeFacts, RunnerIsActor DEF Normalize, Frame
<1>1. WorkerCall(c, held[a]) /\ c.lease = held[a]
      /\ (c.lease = session.lease => LeasedCall(c, session, approvals, attempts))
  BY <1>0 DEF AgreementInv, LeaseInv, WorkerCall, Own
<1>2. UNCHANGED <<session, task, approvals, attempts, issued, held>>
  BY DEF Normalize, stores
<1>3. ASSUME NEW k, Set(a, k), Frame(k), NormalizeForm(c, k)
      PROVE  AgreementInv'
  <2>1. WorkerCall(k, held[a])
    BY <1>0, <1>1, <1>3 DEF NormalizeForm, WorkerCall, LeasedFrame, Leased
  <2>2. Own(k, held[a], session) => LeasedCall(k, session, approvals, attempts)
    BY <1>0, <1>1, <1>3 DEF NormalizeForm, LeasedCall, LeasedFrame, WorkerCall, Own
  <2> QED BY <1>0, <1>2, <1>3, <2>1, <2>2, WorkerMoves
<1>4. CASE Return(a)
  BY <1>2, <1>4, ReturnAgreement
<1> QED BY <1>3, <1>4, NormalizeForms, RunnerIsActor

----------------------------------------------------------------------------
(* The agreement of the stores: leases.                                    *)

(* An operator's call that read an earlier session is out of date.         *)
LEMMA OperatorCallStays ==
    ASSUME NEW s \in State, NEW t \in State, t.version = s.version + 1, NEW c \in Call,
           OperatorCall(c, s)
    PROVE  OperatorCall(c, t)
<1>1. c.next.version \in Nat /\ s.version \in Nat /\ t.version \in Nat
  BY DEF Call, State
<1>2. c.next.version <= s.version
  BY DEF OperatorCall
<1>3. c.next.version <= t.version /\ c.next.version # t.version
  <2>1. \A x, y, z \in Nat : z = y + 1 /\ x <= y => x <= z /\ x # z
    OBVIOUS
  <2>2. PICK x \in Nat, y \in Nat, z \in Nat :
          x = c.next.version /\ y = s.version /\ z = t.version
    BY <1>1
  <2>3. z = y + 1
    BY <2>2
  <2> QED BY <1>2, <2>1, <2>2, <2>3, Zenon
<1> QED BY <1>3 DEF OperatorCall

LEMMA OperatorCallsStay ==
    ASSUME TypeInv, AgreementInv, session' \in State,
           session' = session \/ session'.version = session.version + 1
    PROVE  \A o \in Operator : calls[o].op # "none" => OperatorCall(calls[o], session')
<1> SUFFICES ASSUME NEW o \in Operator, calls[o].op # "none"
             PROVE  OperatorCall(calls[o], session')
  OBVIOUS
<1>1. OperatorCall(calls[o], session) /\ calls[o] \in Call /\ session \in State
  BY TypeFacts, RunnerIsActor DEF AgreementInv
<1>2. CASE session' = session
  BY <1>1, <1>2
<1>3. CASE session'.version = session.version + 1
  BY <1>1, <1>3, OperatorCallStays
<1> QED BY <1>2, <1>3

(* A lease step changes nothing of the session but its lease and version.  *)
LEMMA LeaseMoves ==
    ASSUME TypeInv, AgreementInv, LeaseInv', session' \in State,
           UNCHANGED <<task, approvals, attempts, calls>>,
           session'.phase = session.phase, session'.exec = session.exec,
           session'.inFlight = session.inFlight, session'.pending = session.pending,
           session' = session \/ session'.version = session.version + 1,
           \A w \in Worker : Own(calls[w], held'[w], session') => Own(calls[w], held[w], session)
    PROVE  AgreementInv'
<1>1. TerminalGood(session', task)
  BY DEF AgreementInv, TerminalGood
<1>2. ApprovalGood(session', approvals, attempts)
  BY DEF AgreementInv, ApprovalGood
<1>3. \A w \in Worker : Own(calls[w], held'[w], session')
        => LeasedCall(calls[w], session', approvals, attempts)
  BY DEF AgreementInv, LeasedCall
<1>4. \A o \in Operator : calls[o].op # "none" => OperatorCall(calls[o], session')
  BY OperatorCallsStay
<1> QED BY <1>1, <1>2, <1>3, <1>4 DEF AgreementInv

LEMMA ClaimAgreement ==
    ASSUME TypeInv, AgreementInv, NEW w \in Worker, NEW mode \in ClaimMode, Claim(w, mode)
    PROVE  AgreementInv'
<1> DEFINE n == issued + 1
<1>1. /\ session' \in State
      /\ UNCHANGED <<plan, task, approvals, attempts, now, calls, uses, recorded, strayed>>
      /\ session'.phase = session.phase /\ session'.exec = session.exec
      /\ session'.inFlight = session.inFlight /\ session'.pending = session.pending
      /\ session' = session \/ session'.version = session.version + 1
  BY LeaseStepType DEF TypeInv, TypeOK
<1>2. /\ session \in State /\ now \in Nat /\ issued \in Nat /\ LeaseTTL \in Nat
      /\ held \in [Worker -> Nat] /\ n \in Nat
  BY TypeFacts, BoundAssumption
<1>3. session'.lease = n
  <2>1. session' = withLease(session, n, now + LeaseTTL) /\ now + LeaseTTL \in Nat
    BY <1>2 DEF Claim
  <2> HIDE DEF n
  <2> QED BY <1>2, <2>1, WithLeaseFacts
<1>4. held' = [held EXCEPT ![w] = n] /\ issued' = n /\ calls[w] = NoCall
  BY DEF Claim
<1>5. \A v \in Worker : held[v] <= issued /\ held[v] < n /\ WorkerCall(calls[v], held[v])
  BY <1>2 DEF AgreementInv, LeaseInv
<1>6. LeaseInv'
  <2>1. session'.lease <= issued'
    BY <1>2, <1>3, <1>4
  <2>2. \A v \in Worker : held'[v] = IF v = w THEN n ELSE held[v]
    BY <1>2, <1>4
  <2>3. \A v \in Worker : held'[v] <= issued'
    BY <1>2, <1>4, <1>5, <2>2
  <2>4. \A h : WorkerCall(NoCall, h)
    BY NoCallFacts DEF WorkerCall
  <2>5. \A v \in Worker : WorkerCall(calls'[v], held'[v])
    BY <1>1, <1>4, <1>5, <2>2, <2>4
  <2>6. \A v \in Worker : held[v] # n
    BY <1>2, <1>5
  <2>7. \A u, v \in Worker : u # v /\ held[u] # 0 => held[u] # held[v]
    BY DEF AgreementInv, LeaseInv
  <2> HIDE DEF n
  <2>8. \A u, v \in Worker : u # v /\ held'[u] # 0 => held'[u] # held'[v]
    BY <2>2, <2>6, <2>7
  <2> QED BY <2>1, <2>3, <2>5, <2>8 DEF LeaseInv
<1>7. \A v \in Worker : Own(calls[v], held'[v], session') => Own(calls[v], held[v], session)
  <2>1. \A v \in Worker : v # w => held'[v] = held[v] /\ held[v] # n
    BY <1>2, <1>4, <1>5
  <2>2. calls[w].op = "none"
    BY <1>4, NoCallFacts
  <2> QED BY <1>3, <2>1, <2>2 DEF Own
<1> QED BY <1>1, <1>6, <1>7, LeaseMoves

LEMMA RenewAgreement ==
    ASSUME TypeInv, AgreementInv, NEW w \in Worker, RenewLease(w)
    PROVE  AgreementInv'
<1>1. /\ session' \in State
      /\ UNCHANGED <<plan, task, approvals, attempts, now, calls, uses, recorded, strayed>>
      /\ session'.phase = session.phase /\ session'.exec = session.exec
      /\ session'.inFlight = session.inFlight /\ session'.pending = session.pending
      /\ session' = session \/ session'.version = session.version + 1
  BY LeaseStepType DEF TypeInv, TypeOK
<1>2. /\ session \in State /\ now \in Nat /\ LeaseTTL \in Nat /\ held[w] \in Nat
      /\ now + LeaseTTL \in Nat
  BY TypeFacts, BoundAssumption
<1>3. session'.lease = session.lease
  <2>1. session.lease = held[w] /\ session' = withLease(session, held[w], now + LeaseTTL)
    BY DEF RenewLease, leaseHeldAt
  <2> QED BY <1>2, <2>1, WithLeaseFacts
<1>4. UNCHANGED <<issued, held>>
  BY DEF RenewLease
<1>5. LeaseInv'
  BY <1>1, <1>3, <1>4 DEF AgreementInv, LeaseInv
<1>6. \A v \in Worker : Own(calls[v], held'[v], session') => Own(calls[v], held[v], session)
  BY <1>3, <1>4 DEF Own
<1> QED BY <1>1, <1>5, <1>6, LeaseMoves

LEMMA ReleaseAgreement ==
    ASSUME TypeInv, AgreementInv, NEW w \in Worker, ReleaseLease(w)
    PROVE  AgreementInv'
<1>1. /\ session' \in State
      /\ UNCHANGED <<plan, task, approvals, attempts, now, calls, uses, recorded, strayed>>
      /\ session'.phase = session.phase /\ session'.exec = session.exec
      /\ session'.inFlight = session.inFlight /\ session'.pending = session.pending
      /\ session' = session \/ session'.version = session.version + 1
  BY LeaseStepType DEF TypeInv, TypeOK
<1>2. session \in State /\ held \in [Worker -> Nat] /\ issued \in Nat
  BY TypeFacts
<1>3. session'.lease \in {0, session.lease}
  <2>1. session' = session \/ session' = withLease(session, 0, 0)
    BY DEF ReleaseLease
  <2>2. withLease(session, 0, 0).lease = 0
    BY <1>2, WithLeaseFacts
  <2> QED BY <2>1, <2>2
<1>4. held' = [held EXCEPT ![w] = 0] /\ issued' = issued /\ calls[w] = NoCall
  BY DEF ReleaseLease
<1>5. \A v \in Worker : held'[v] = IF v = w THEN 0 ELSE held[v]
  BY <1>2, <1>4
<1>6. LeaseInv'
  <2>1. session'.lease <= issued'
    BY <1>2, <1>3, <1>4 DEF AgreementInv, LeaseInv
  <2>2. \A h : WorkerCall(NoCall, h)
    BY NoCallFacts DEF WorkerCall
  <2>3. \A v \in Worker : held'[v] <= issued' /\ WorkerCall(calls'[v], held'[v])
    BY <1>1, <1>2, <1>4, <1>5, <2>2 DEF AgreementInv, LeaseInv
  <2>4. \A u, v \in Worker : u # v /\ held'[u] # 0 => held'[u] # held'[v]
    BY <1>5 DEF AgreementInv, LeaseInv
  <2> QED BY <2>1, <2>3, <2>4 DEF LeaseInv
<1>7. \A v \in Worker : Own(calls[v], held'[v], session') => Own(calls[v], held[v], session)
  <2>1. \A v \in Worker : calls[v].op # "none" => v # w /\ held[v] # 0
    BY <1>4, NoCallFacts DEF AgreementInv, LeaseInv, WorkerCall
  <2> QED BY <1>3, <1>5, <2>1 DEF Own
<1> QED BY <1>1, <1>6, <1>7, LeaseMoves

LEMMA CrashAgreement ==
    ASSUME TypeInv, AgreementInv, NEW a \in Worker \cup Operator, Crash(a)
    PROVE  AgreementInv'
<1>1. UNCHANGED <<session, task, approvals, attempts, issued>> /\ Return(a)
  BY DEF Crash, stores
<1>2. CASE held' = held
  BY <1>1, <1>2, ReturnAgreement
<1>3. CASE a \in Worker
  <2>1. held \in [Worker -> Nat] /\ held' = [held EXCEPT ![a] = 0] /\ issued \in Nat
    BY <1>3, TypeFacts DEF Crash
  <2>2. \A v \in Worker : held'[v] = IF v = a THEN 0 ELSE held[v]
    BY <2>1
  <2>3. Set(a, NoCall) /\ Frame(NoCall) /\ NoCall.op = "none"
    BY <1>1, ReturnIsSet, NoCallFacts
  <2>4. \A b \in Actor : calls'[b] = IF b = a THEN NoCall ELSE calls[b]
    BY <1>3, <2>3, CallMoves, RunnerIsActor
  <2>5. \A h : WorkerCall(NoCall, h)
    BY <2>3 DEF WorkerCall
  <2>6. LeaseInv'
    <3>1. \A v \in Worker : held'[v] <= issued' /\ WorkerCall(calls'[v], held'[v])
      BY <1>1, <2>1, <2>2, <2>4, <2>5, RunnerIsActor DEF AgreementInv, LeaseInv
    <3>2. \A u, v \in Worker : u # v /\ held'[u] # 0 => held'[u] # held'[v]
      BY <2>2 DEF AgreementInv, LeaseInv
    <3> QED BY <1>1, <3>1, <3>2 DEF AgreementInv, LeaseInv
  <2>7. \A v \in Worker : Own(calls'[v], held'[v], session)
          => LeasedCall(calls'[v], session, approvals, attempts)
    BY <2>2, <2>3, <2>4, RunnerIsActor DEF AgreementInv, Own
  <2>8. \A o \in Operator : calls'[o].op # "none" => OperatorCall(calls'[o], session)
    BY <2>3, <2>4, RunnerIsActor DEF AgreementInv
  <2> QED BY <1>1, <2>6, <2>7, <2>8 DEF AgreementInv
<1> QED BY <1>2, <1>3 DEF Crash

----------------------------------------------------------------------------
(* The agreement of the stores: transactions.                              *)

LEMMA TodoFacts ==
    /\ Has(<<"session">>, "session") /\ ~Has(<<"session">>, "approval")
    /\ ~Has(<<"session">>, "task") /\ ~Has(<<"session">>, "attempt")
    /\ Has(AskTodo, "session") /\ Has(AskTodo, "approval") /\ Has(AskTodo, "attempt")
    /\ Has(<<"plan", "task", "session">>, "session") /\ Has(<<"plan", "task", "session">>, "task")
    /\ ~Has(<<"plan", "task", "session">>, "approval")
    /\ ~Has(<<"plan", "task", "session">>, "attempt")
    /\ \A i : /\ Has(FinishTodo(i), "session") /\ Has(FinishTodo(i), "task")
              /\ Has(FinishTodo(i), "attempt")
              /\ Has(FinishTodo(i), "approval") <=> i # 0
<1>1. /\ Has(<<"session">>, "session") /\ ~Has(<<"session">>, "approval")
      /\ ~Has(<<"session">>, "task") /\ ~Has(<<"session">>, "attempt")
  BY DEF Has
<1>2. Has(AskTodo, "session") /\ Has(AskTodo, "approval") /\ Has(AskTodo, "attempt")
  BY DEF Has, AskTodo
<1>3. LET t == <<"plan", "task", "session">>
      IN  Has(t, "session") /\ Has(t, "task") /\ ~Has(t, "approval") /\ ~Has(t, "attempt")
  BY DEF Has
<1>4. LET t == <<"plan", "task", "session", "attempt">>
      IN  Has(t, "session") /\ Has(t, "task") /\ ~Has(t, "approval") /\ Has(t, "attempt")
  BY DEF Has
<1>5. LET t == <<"plan", "task", "session", "attempt", "approval">>
      IN  Has(t, "session") /\ Has(t, "task") /\ Has(t, "approval") /\ Has(t, "attempt")
  BY DEF Has
<1>6. \A i : /\ Has(FinishTodo(i), "session") /\ Has(FinishTodo(i), "task")
             /\ Has(FinishTodo(i), "attempt")
             /\ Has(FinishTodo(i), "approval") <=> i # 0
  BY <1>4, <1>5 DEF FinishTodo
<1> QED BY <1>1, <1>2, <1>3, <1>6

LEMMA OperatorTodoFacts ==
    /\ \A r : /\ Has(RespondTodo(r), "session") /\ Has(RespondTodo(r), "approval")
              /\ Has(RespondTodo(r), "task") <=> r = "reject"
              /\ Has(RespondTodo(r), "attempt") <=> r = "reject"
    /\ \A i : /\ Has(AbortTodo(i), "session") /\ Has(AbortTodo(i), "task")
              /\ Has(AbortTodo(i), "approval") <=> i # 0
              /\ Has(AbortTodo(i), "attempt") <=> i # 0
<1>1. LET t == <<"approval", "attempt", "plan", "task", "session">>
      IN  Has(t, "session") /\ Has(t, "task") /\ Has(t, "approval") /\ Has(t, "attempt")
  BY DEF Has
<1>2. LET t == <<"approval", "session">>
      IN  Has(t, "session") /\ ~Has(t, "task") /\ Has(t, "approval") /\ ~Has(t, "attempt")
  BY DEF Has
<1>3. LET t == <<"approval", "plan", "attempt", "task", "session">>
      IN  Has(t, "session") /\ Has(t, "task") /\ Has(t, "approval") /\ Has(t, "attempt")
  BY DEF Has
<1>4. LET t == <<"plan", "task", "session">>
      IN  Has(t, "session") /\ Has(t, "task") /\ ~Has(t, "approval") /\ ~Has(t, "attempt")
  BY DEF Has
<1>5. \A r : /\ Has(RespondTodo(r), "session") /\ Has(RespondTodo(r), "approval")
             /\ Has(RespondTodo(r), "task") <=> r = "reject"
             /\ Has(RespondTodo(r), "attempt") <=> r = "reject"
  BY <1>1, <1>2 DEF RespondTodo
<1>6. \A i : /\ Has(AbortTodo(i), "session") /\ Has(AbortTodo(i), "task")
             /\ Has(AbortTodo(i), "approval") <=> i # 0
             /\ Has(AbortTodo(i), "attempt") <=> i # 0
  BY <1>3, <1>4 DEF AbortTodo
<1> QED BY <1>5, <1>6

(* A transaction writes all the stores of the call.                        *)
LEMMA TransactionWrites ==
    ASSUME TypeInv, Transactional, NEW a \in Actor, Persist(a)
    PROVE  LET c == calls[a] IN
           /\ Frame(c) /\ c \in Call /\ c.pc = "persist" /\ c.op # "none"
           /\ c.op \in Leased \cup {"respond", "abort"}
           /\ \A x : x \in Writes(c) <=> Has(c.todo, x)
           /\ c.op = "mark" => c.todo = <<"session">>
           /\ c.op # "mark" => Continuation(c) = NoCall
           /\ c.op = "mark" => MarkedForm(c, Continuation(c))
<1> DEFINE c == calls[a]
<1>1. Frame(c) /\ c \in Call /\ c.pc = "persist" /\ TodoOK(c)
  BY TypeFacts DEF Persist, Frame
<1>2. \A x : x \in Writes(c) <=> Has(c.todo, x)
  BY <1>1, WritesFacts
<1>3. c.op \in {"mark", "ask", "deny", "finish", "recover", "interrupt", "respond", "abort"}
      /\ (c.op = "mark" => c.todo = <<"session">>)
  BY <1>1 DEF TodoOK
<1>4. c.op # "mark" => Continuation(c) = NoCall
  BY DEF Continuation
<1>5. c.op = "mark" => MarkedForm(c, Continuation(c))
  <2>1. c.op = "mark" => Continuation(c).op = "run"
    BY <1>1 DEF Continuation, Call
  <2>2. NoCall.op # "run"
    BY NoCallFacts
  <2> QED BY <2>1, <2>2, ContinuationForms DEF RestForm
<1> QED BY <1>1, <1>2, <1>3, <1>4, <1>5 DEF Leased

LEMMA WorkerPersists ==
    ASSUME TypeInv, AgreementInv, Transactional, NEW w \in Worker, Persist(w),
           SessionWrite(calls[w], session'), calls[w].lease = held[w],
           TerminalGood(session', task'), ApprovalGood(session', approvals', attempts'),
           calls[w].op = "mark" =>
             LeasedCall(Continuation(calls[w]), session', approvals', attempts')
    PROVE  AgreementInv'
<1> DEFINE c == calls[w]
           k == Continuation(c)
<1>1. UNCHANGED <<issued, held>>
  BY DEF Persist
<1>2. c.op # "none" /\ c \in Call
  BY TransactionWrites, RunnerIsActor
<1>3. LeasedFrame(c) /\ c.lease = held[w] /\ held[w] # 0 /\ held[w] <= issued
  BY <1>2 DEF AgreementInv, LeaseInv, WorkerCall
<1>4. session' \in State /\ session'.version = session.version + 1
      /\ session'.lease = held[w]
  BY <1>3 DEF SessionWrite
<1>5. Set(w, k) /\ Frame(k)
  BY ContinuationForms, RunnerIsActor
<1>6. \A b \in Actor : calls'[b] = IF b = w THEN k ELSE calls[b]
  BY <1>5, CallMoves, RunnerIsActor
<1>7. (c.op # "mark" => k.op = "none") /\ (c.op = "mark" => MarkedForm(c, k))
  BY TransactionWrites, RunnerIsActor, NoCallFacts
<1> HIDE DEF k
<1>8. WorkerCall(k, held[w])
  <2>1. c.op = "mark" => LeasedFrame(k)
    BY <1>3, <1>7 DEF MarkedForm, LeasedFrame, Leased
  <2>2. k.op # "none" => c.op = "mark" /\ k.lease = held[w] /\ held[w] # 0
    BY <1>3, <1>7 DEF MarkedForm
  <2> QED BY <2>1, <2>2, Zenon DEF WorkerCall
<1>9. LeaseInv'
  <2>1. \A v \in Worker : held'[v] <= issued' /\ WorkerCall(calls'[v], held'[v])
    BY <1>1, <1>6, <1>8, RunnerIsActor DEF AgreementInv, LeaseInv
  <2> QED BY <1>1, <1>3, <1>4, <2>1 DEF AgreementInv, LeaseInv
<1>10. \A v \in Worker : Own(calls'[v], held'[v], session')
         => LeasedCall(calls'[v], session', approvals', attempts')
  <2> TAKE v \in Worker
  <2>1. CASE v = w
    BY <1>6, <1>7, <2>1, RunnerIsActor DEF k, Own
  <2>2. CASE v # w
    <3>1. held'[v] # held[w]
      BY <1>1, <1>3, <2>2 DEF AgreementInv, LeaseInv
    <3> QED BY <1>4, <3>1 DEF Own
  <2> QED BY <2>1, <2>2
<1>11. \A o \in Operator : calls'[o].op # "none" => OperatorCall(calls'[o], session')
  <2>1. \A o \in Operator : calls'[o] = calls[o]
    BY <1>6, RunnerIsActor, ActorAssumption
  <2> QED BY <1>4, <2>1, OperatorCallsStay
<1> QED BY <1>9, <1>10, <1>11 DEF AgreementInv

LEMMA OperatorPersists ==
    ASSUME TypeInv, AgreementInv, Transactional, NEW o \in Operator, Persist(o),
           SessionWrite(calls[o], session'),
           TerminalGood(session', task'), ApprovalGood(session', approvals', attempts'),
           session'.lease <= issued,
           \A w \in Worker : ~Own(calls[w], held[w], session')
    PROVE  AgreementInv'
<1> DEFINE c == calls[o]
           k == Continuation(c)
<1>1. UNCHANGED <<issued, held>>
  BY DEF Persist
<1>2. c.op # "none"
  BY TransactionWrites, RunnerIsActor
<1>3. c.op # "mark"
  BY <1>2 DEF AgreementInv, OperatorCall
<1>4. session' \in State /\ session'.version = session.version + 1
  BY DEF SessionWrite
<1>5. Set(o, k) /\ Frame(k) /\ k.op = "none"
  BY <1>3, ContinuationForms, TransactionWrites, RunnerIsActor, NoCallFacts
<1> HIDE DEF k
<1>6. \A b \in Actor : calls'[b] = IF b = o THEN k ELSE calls[b]
  BY <1>5, CallMoves, RunnerIsActor
<1>7. \A w \in Worker : calls'[w] = calls[w]
  BY <1>6, RunnerIsActor, ActorAssumption
<1>8. LeaseInv'
  BY <1>1, <1>7 DEF AgreementInv, LeaseInv
<1>9. \A w \in Worker : Own(calls'[w], held'[w], session')
        => LeasedCall(calls'[w], session', approvals', attempts')
  BY <1>1, <1>7
<1>10. \A p \in Operator : calls'[p].op # "none" => OperatorCall(calls'[p], session')
  BY <1>4, <1>5, <1>6, RunnerIsActor, OperatorCallsStay
<1> QED BY <1>8, <1>9, <1>10 DEF AgreementInv

(* The mark writes the session alone; the run goes on under its lease.     *)
LEMMA MarkPersists ==
    ASSUME TypeInv, AgreementInv, Transactional, NEW w \in Worker, Persist(w),
           calls[w].op = "mark", SessionWrite(calls[w], session'), calls[w].lease = held[w],
           LeasedCall(calls[w], session, approvals, attempts), LeasedFrame(calls[w])
    PROVE  AgreementInv' /\ ~isTerminalPhase(session.phase)
<1> DEFINE c == calls[w]
           k == Continuation(c)
<1>1. /\ \A x : x \in Writes(c) <=> Has(c.todo, x)
      /\ c.todo = <<"session">> /\ c.pc = "persist" /\ MarkedForm(c, k)
  BY TransactionWrites, RunnerIsActor
<1>2. UNCHANGED <<approvals, attempts, task>>
  BY <1>1, TodoFacts DEF Persist
<1>3. /\ session'.phase = c.next.phase /\ session'.exec = "in_flight"
      /\ session'.pending = session.pending /\ ~isTerminalPhase(c.next.phase)
      /\ session.pending # 0 => session.pending = c.appr
                                /\ approvals[session.pending].status = "approved"
      /\ ~isTerminalPhase(session.phase)
      /\ c.appr # 0 /\ attempts[c.appr] = "blocked" => c.reuse
  BY <1>1 DEF SessionWrite, LeasedCall, LeasedFrame
<1> HIDE DEF k
<1>4. TerminalGood(session', task')
  BY <1>3 DEF TerminalGood
<1>5. ApprovalGood(session', approvals', attempts')
  BY <1>2, <1>3 DEF ApprovalGood, AgreementInv
<1>6. LeasedCall(k, session', approvals', attempts')
  BY <1>1, <1>2, <1>3 DEF MarkedForm, LeasedCall
<1> QED BY <1>3, <1>4, <1>5, <1>6, WorkerPersists DEF k

LEMMA AskPersists ==
    ASSUME TypeInv, AgreementInv, Transactional, NEW w \in Worker, Persist(w),
           calls[w].op = "ask", SessionWrite(calls[w], session'), calls[w].lease = held[w],
           LeasedCall(calls[w], session, approvals, attempts), LeasedFrame(calls[w])
    PROVE  AgreementInv' /\ ~isTerminalPhase(session.phase)
<1> DEFINE c == calls[w]
           j == AskId(c)
           r == ApprovalAfter(c)
<1>1. /\ \A x : x \in Writes(c) <=> Has(c.todo, x)
      /\ c.todo = AskTodo /\ c.pc = "persist" /\ Frame(c)
  BY TransactionWrites, RunnerIsActor DEF LeasedFrame
<1>2. ApprovalWrite(c, j, r) /\ approvals' = [approvals EXCEPT ![j] = r]
  BY <1>1, TodoFacts, ApprovalWrites, RunnerIsActor
<1>3. attempts' = [attempts EXCEPT ![j] = "blocked"]
  <2>1. attempts' = AttemptsAfter(c)
    BY <1>1, TodoFacts DEF Persist
  <2> QED BY <1>1, <2>1, AttemptsWrites DEF AttemptsWrite
<1> HIDE DEF r
<1>4. j \in ApprovalId /\ j # 0 /\ r.status = "pending"
  BY <1>2 DEF ApprovalWrite, ApprovalId
<1>5. /\ session'.phase = "execute" /\ session'.exec = "awaiting_approval"
      /\ session'.pending = j /\ session.pending = 0
      /\ ~isTerminalPhase(session.phase)
  BY DEF SessionWrite, LeasedCall, LeasedFrame
<1> HIDE DEF j
<1>6. TerminalGood(session', task')
  BY <1>5 DEF TerminalGood, isTerminalPhase, TerminalPhase
<1>7. approvals \in [ApprovalId -> Approval] /\ attempts \in [ApprovalId -> AttemptStatus]
  BY TypeFacts
<1>8. approvals'[j] = r
      /\ \A i \in ApprovalId : i # j => approvals'[i] = approvals[i] /\ attempts'[i] = attempts[i]
  BY <1>2, <1>3, <1>4, <1>7
<1>9. \A i \in ApprovalId : ~(approvals[i].status = "pending" \/ attempts[i] = "blocked")
  BY <1>5 DEF AgreementInv, ApprovalGood, ApprovalId
<1>10. ApprovalGood(session', approvals', attempts')
  BY <1>4, <1>5, <1>8, <1>9 DEF ApprovalGood
<1> QED BY <1>5, <1>6, <1>10, WorkerPersists

(* Denials and recoveries change neither approvals nor attempts.           *)
LEMMA DenyPersists ==
    ASSUME TypeInv, AgreementInv, Transactional, NEW w \in Worker, Persist(w),
           calls[w].op \in {"deny", "recover"}, calls[w].pc = "persist", SessionWrite(calls[w], session'), calls[w].lease = held[w],
           LeasedCall(calls[w], session, approvals, attempts), LeasedFrame(calls[w])
    PROVE  AgreementInv' /\ ~isTerminalPhase(session.phase)
<1> DEFINE c == calls[w]
<1>1. /\ \A x : x \in Writes(c) <=> Has(c.todo, x)
      /\ c.todo = IF c.op = "deny" THEN <<"plan", "task", "session">> ELSE <<"session">>
      /\ c.op = "deny" => "task" \in Writes(c)
  BY TransactionWrites, RunnerIsActor, TodoFacts DEF LeasedFrame
<1>2. UNCHANGED <<approvals, attempts>>
  BY <1>1, TodoFacts DEF Persist
<1>3. /\ session'.phase = c.next.phase /\ session'.exec = "idle"
      /\ session'.inFlight = c.next.inFlight
      /\ session'.pending = 0 /\ session.pending = 0 /\ ~isTerminalPhase(session.phase)
      /\ c.op = "deny" => c.next.phase = "failed" /\ c.next.inFlight = NoStep
      /\ c.op = "recover" => c.next.phase = "recover"
  BY DEF SessionWrite, LeasedCall, LeasedFrame
<1>4. TerminalGood(session', task')
  <2>1. CASE c.op = "deny"
    <3>1. task' = "failed"
      BY <1>1, <1>3, <2>1, TaskWrites DEF Persist, TaskWrite
    <3> QED BY <1>3, <2>1, <3>1 DEF TerminalGood
  <2>2. CASE c.op = "recover"
    BY <1>3, <2>2 DEF TerminalGood, isTerminalPhase, TerminalPhase
  <2> QED BY <2>1, <2>2
<1>5. ApprovalGood(session', approvals', attempts')
  BY <1>2, <1>3 DEF ApprovalGood, AgreementInv
<1> QED BY <1>3, <1>4, <1>5, WorkerPersists

LEMMA FinishPersists ==
    ASSUME TypeInv, AgreementInv, Transactional, NEW w \in Worker, Persist(w),
           calls[w].op = "finish", SessionWrite(calls[w], session'), calls[w].lease = held[w],
           LeasedCall(calls[w], session, approvals, attempts), LeasedFrame(calls[w])
    PROVE  AgreementInv' /\ ~isTerminalPhase(session.phase)
<1> DEFINE c == calls[w]
           i == c.appr
<1>1. /\ \A x : x \in Writes(c) <=> Has(c.todo, x)
      /\ c.todo = FinishTodo(i) /\ c.pc = "persist" /\ Frame(c) /\ TodoOK(c)
  BY TransactionWrites, RunnerIsActor DEF LeasedFrame, Frame
<1>2. /\ session'.phase = c.next.phase /\ session'.exec = "idle"
      /\ session'.inFlight = NoStep /\ session'.pending = 0
      /\ session.pending # 0 => session.pending = i
      /\ ~isTerminalPhase(session.phase)
      /\ c.reuse => i # 0
      /\ i # 0 /\ attempts[i] = "blocked" => c.reuse
  BY <1>1 DEF SessionWrite, LeasedCall, LeasedFrame
<1>3. TaskWrite(c, task')
  BY <1>1, TodoFacts, TaskWrites DEF Persist
<1>4. TerminalGood(session', task')
  BY <1>2, <1>3 DEF TerminalGood, TaskWrite
<1>5. approvals \in [ApprovalId -> Approval] /\ attempts \in [ApprovalId -> AttemptStatus]
      /\ i \in ApprovalId \cup {0}
  BY <1>1, TypeFacts DEF Frame, Call
<1>6. \A n \in ApprovalId : n # i =>
        /\ approvals[n].status # "pending" /\ attempts[n] # "blocked"
  BY <1>2 DEF AgreementInv, ApprovalGood, ApprovalId
<1>7. \A n \in ApprovalId : approvals'[n].status # "pending"
  <2>1. CASE i = 0
    <3>1. approvals' = approvals
      BY <1>1, <2>1, TodoFacts DEF Persist
    <3> QED BY <1>6, <2>1, <3>1 DEF ApprovalId
  <2>2. CASE i # 0
    <3> DEFINE j == AskId(c)
               r == ApprovalAfter(c)
    <3>1. ApprovalWrite(c, j, r) /\ approvals' = [approvals EXCEPT ![j] = r]
      BY <1>1, <2>2, TodoFacts, ApprovalWrites, RunnerIsActor
    <3> HIDE DEF j, r
    <3>2. j = i /\ r.status # "pending"
      BY <3>1 DEF ApprovalWrite
    <3> QED BY <1>5, <1>6, <3>1, <3>2
  <2> QED BY <2>1, <2>2
<1>8. \A n \in ApprovalId : attempts'[n] # "blocked"
  <2>1. attempts' = AttemptsAfter(c)
    BY <1>1, TodoFacts DEF Persist
  <2>2. c.spec.status # "blocked"
    BY <1>1 DEF TodoOK
  <2>3. CASE c.reuse
    <3>1. attempts' = [attempts EXCEPT ![i] = c.spec.status]
      BY <1>1, <2>1, <2>3, AttemptsWrites DEF AttemptsWrite
    <3> QED BY <1>5, <1>6, <2>2, <3>1
  <2>4. CASE ~c.reuse
    <3>1. attempts' = attempts
      BY <1>1, <2>1, <2>4, AttemptsWrites DEF AttemptsWrite
    <3> QED BY <1>2, <1>5, <1>6, <2>4, <3>1 DEF ApprovalId
  <2> QED BY <2>3, <2>4
<1>9. ApprovalGood(session', approvals', attempts')
  BY <1>2, <1>7, <1>8 DEF ApprovalGood
<1> QED BY <1>2, <1>4, <1>9, WorkerPersists

(* An interruption mark whose copy of the pending approval is current      *)
(* leaves the approvals and attempts with the session.                     *)
LEMMA InterruptPersists ==
    ASSUME TypeInv, AgreementInv, Transactional, NEW w \in Worker, Persist(w),
           calls[w].op = "interrupt", SessionWrite(calls[w], session'),
           calls[w].lease = held[w], LeasedFrame(calls[w]),
           calls[w].next.pending = session.pending
    PROVE  AgreementInv' /\ session'.phase = "recover" /\ session'.exec = "interrupted"
<1> DEFINE c == calls[w]
<1>1. (\A x : x \in Writes(c) <=> Has(c.todo, x)) /\ c.todo = <<"session">>
  BY TransactionWrites, RunnerIsActor DEF LeasedFrame
<1>2. UNCHANGED <<approvals, attempts>>
  BY <1>1, TodoFacts DEF Persist
<1>3. session'.phase = "recover" /\ session'.exec = "interrupted"
      /\ session'.pending = session.pending
  BY DEF SessionWrite, LeasedFrame
<1>4. TerminalGood(session', task')
  BY <1>3 DEF TerminalGood, isTerminalPhase, TerminalPhase
<1>5. ApprovalGood(session', approvals', attempts')
  BY <1>2, <1>3 DEF ApprovalGood, AgreementInv
<1> QED BY <1>3, <1>4, <1>5, WorkerPersists

LEMMA WorkerPersistAgreement ==
    ASSUME TypeInv, AgreementInv, Transactional, NEW w \in Worker, Persist(w), ~strayed'
    PROVE  /\ AgreementInv'
           /\ \/ ~isTerminalPhase(session.phase)
              \/ session'.phase = "recover" /\ session'.exec = "interrupted"
<1> DEFINE c == calls[w]
<1>1. /\ \A x : x \in Writes(c) <=> Has(c.todo, x)
      /\ c.op # "none" /\ (c.op = "mark" => c.todo = <<"session">>)
      /\ c.pc = "persist" /\ Frame(c)
  BY TransactionWrites, RunnerIsActor
<1>2. WorkerCall(c, held[w])
  BY DEF AgreementInv, LeaseInv
<1>3. LeasedFrame(c) /\ held[w] # 0 /\ c.op # "run"
  BY <1>1, <1>2 DEF WorkerCall, Frame, TodoOK
<1>4. c.op \in {"mark", "ask", "deny", "finish", "recover", "interrupt"}
  BY <1>3 DEF LeasedFrame, Leased
<1>5. Has(c.todo, "session")
  BY <1>1, <1>3, <1>4, TodoFacts DEF LeasedFrame
<1>6. SessionWrite(c, session')
  BY <1>1, <1>5, SessionWrites, RunnerIsActor
<1>7. ~Strays(w, c)
  BY DEF Persist
<1>8. c.lease = held[w] /\ (c.op = "interrupt" => c.next.pending = session.pending)
  BY <1>1, <1>2, <1>5, <1>7 DEF WorkerCall, Strays, LeaseOf
<1>9. session.lease = held[w]
  BY <1>3, <1>6, <1>8 DEF SessionWrite, leaseHeldAt
<1>10. c.op # "interrupt" => LeasedCall(c, session, approvals, attempts)
  BY <1>1, <1>8, <1>9 DEF AgreementInv, Own
<1> QED BY <1>1, <1>3, <1>4, <1>6, <1>8, <1>10, MarkPersists, AskPersists, DenyPersists,
           FinishPersists, InterruptPersists

(* The session an operator writes is still the one it read, so it is not   *)
(* terminal and the approval is the one it waits for.                      *)
LEMMA OperatorWrite ==
    ASSUME TypeInv, AgreementInv, Transactional, NEW o \in Operator, Persist(o)
    PROVE  LET c == calls[o] IN
           /\ OperatorCall(c, session) /\ SessionWrite(c, session')
           /\ Frame(c) /\ c.pc = "persist"
           /\ \A x : x \in Writes(c) <=> Has(c.todo, x)
           /\ c.appr = session.pending /\ ~isTerminalPhase(session.phase)
           /\ session'.phase = c.next.phase /\ session'.exec = "idle"
           /\ session'.inFlight = c.next.inFlight /\ session'.pending = c.next.pending
           /\ session'.lease = c.next.lease
           /\ c.op = "respond" => c.next.lease = session.lease
<1> DEFINE c == calls[o]
<1>1. /\ \A x : x \in Writes(c) <=> Has(c.todo, x)
      /\ c.op # "none" /\ c.pc = "persist" /\ Frame(c)
  BY TransactionWrites, RunnerIsActor
<1>2. OperatorCall(c, session)
  BY <1>1 DEF AgreementInv
<1>3. Has(c.todo, "session")
  BY <1>2, OperatorTodoFacts DEF OperatorCall
<1>4. SessionWrite(c, session')
  BY <1>1, <1>3, SessionWrites, RunnerIsActor
<1>5. c.next.version = session.version /\ c.op # "ask" /\ c.lease = 0
  BY <1>2, <1>4 DEF SessionWrite, OperatorCall
<1> QED BY <1>1, <1>2, <1>4, <1>5 DEF SessionWrite, OperatorCall

LEMMA RespondPersists ==
    ASSUME TypeInv, ApprovalInv, AgreementInv, Transactional, NEW o \in Operator, Persist(o),
           calls[o].op = "respond"
    PROVE  AgreementInv'
<1> DEFINE c == calls[o]
           j == AskId(c)
           r == ApprovalAfter(c)
<1>1. /\ OperatorCall(c, session) /\ SessionWrite(c, session')
      /\ Frame(c) /\ c.pc = "persist"
      /\ \A x : x \in Writes(c) <=> Has(c.todo, x)
      /\ c.appr = session.pending /\ ~isTerminalPhase(session.phase)
      /\ session'.phase = c.next.phase /\ session'.exec = "idle"
      /\ session'.inFlight = c.next.inFlight /\ session'.pending = c.next.pending
      /\ session'.lease = session.lease
  BY OperatorWrite
<1>2. c.todo = RespondTodo(c.copy.reply)
  BY <1>1 DEF OperatorCall
<1>3. ApprovalWrite(c, j, r) /\ approvals' = [approvals EXCEPT ![j] = r]
  BY <1>1, <1>2, OperatorTodoFacts, ApprovalWrites, RunnerIsActor
<1> HIDE DEF j, r
<1>4. /\ j \in ApprovalId /\ j # 0 /\ j = session.pending /\ r.reply = c.copy.reply
      /\ approvals[j].version = c.copy.version
      /\ r.status = IF c.copy.reply = "reject" THEN "rejected" ELSE "approved"
  BY <1>1, <1>3 DEF ApprovalWrite, ApprovalId
<1>5. approvals[j].status = "pending"
  BY <1>1, <1>4, RunnerIsActor DEF ApprovalInv, ApprovalRead
<1>6. approvals \in [ApprovalId -> Approval] /\ attempts \in [ApprovalId -> AttemptStatus]
  BY TypeFacts
<1>7. approvals'[j] = r /\ \A i \in ApprovalId : i # j => approvals'[i] = approvals[i]
  BY <1>3, <1>4, <1>6
<1>8. \A i \in ApprovalId : i # j => approvals[i].status # "pending" /\ attempts[i] # "blocked"
  BY <1>4 DEF AgreementInv, ApprovalGood
<1>9. \A w \in Worker : ~Own(calls[w], held[w], session')
  BY <1>1, <1>4, <1>5 DEF AgreementInv, LeasedCall, Own
<1>10. session'.lease <= issued
  BY <1>1 DEF AgreementInv, LeaseInv
<1>11. CASE c.copy.reply = "reject"
  <2>1. /\ c.next.phase = "failed" /\ c.next.inFlight = NoStep /\ c.next.pending = 0
        /\ "task" \in Writes(c) /\ "attempt" \in Writes(c)
    BY <1>1, <1>2, <1>11, OperatorTodoFacts DEF OperatorCall
  <2>2. task' = "failed"
    BY <2>1, TaskWrites DEF Persist, TaskWrite
  <2>3. attempts' = IF attempts[c.appr] = "blocked" THEN [attempts EXCEPT ![c.appr] = "failed"]
                                                    ELSE attempts
    <3>1. attempts' = AttemptsAfter(c)
      BY <2>1 DEF Persist
    <3> QED BY <1>1, <3>1, AttemptsWrites DEF AttemptsWrite
  <2>4. \A i \in ApprovalId : attempts'[i] # "blocked"
    BY <1>1, <1>4, <1>6, <1>8, <2>3
  <2>5. TerminalGood(session', task')
    BY <1>1, <2>1, <2>2 DEF TerminalGood
  <2>6. ApprovalGood(session', approvals', attempts')
    BY <1>1, <1>4, <1>7, <1>8, <1>11, <2>1, <2>4 DEF ApprovalGood
  <2> QED BY <1>1, <1>9, <1>10, <2>5, <2>6, OperatorPersists
<1>12. CASE c.copy.reply # "reject"
  <2>1. ~isTerminalPhase(c.next.phase) /\ c.next.pending = j /\ "attempt" \notin Writes(c)
    BY <1>1, <1>2, <1>4, <1>12, OperatorTodoFacts DEF OperatorCall
  <2>2. attempts' = attempts
    BY <2>1 DEF Persist
  <2>3. TerminalGood(session', task')
    BY <1>1, <2>1 DEF TerminalGood
  <2>4. ApprovalGood(session', approvals', attempts')
    BY <1>1, <1>4, <1>7, <1>8, <1>12, <2>1, <2>2 DEF ApprovalGood
  <2> QED BY <1>1, <1>9, <1>10, <2>3, <2>4, OperatorPersists
<1> QED BY <1>11, <1>12

LEMMA AbortPersists ==
    ASSUME TypeInv, AgreementInv, Transactional, NEW o \in Operator, Persist(o),
           calls[o].op = "abort"
    PROVE  AgreementInv'
<1> DEFINE c == calls[o]
           i == c.appr
<1>1. /\ OperatorCall(c, session) /\ SessionWrite(c, session')
      /\ Frame(c) /\ c.pc = "persist"
      /\ \A x : x \in Writes(c) <=> Has(c.todo, x)
      /\ i = session.pending /\ ~isTerminalPhase(session.phase)
      /\ session'.phase = c.next.phase /\ session'.exec = "idle"
      /\ session'.inFlight = c.next.inFlight /\ session'.pending = c.next.pending
      /\ session'.lease = c.next.lease
  BY OperatorWrite
<1>2. /\ c.todo = AbortTodo(i) /\ c.next.phase = "aborted" /\ c.next.inFlight = NoStep
      /\ c.next.pending = 0 /\ c.next.lease = 0
  BY <1>1 DEF OperatorCall
<1>3. task' = "aborted"
  BY <1>1, <1>2, OperatorTodoFacts, TaskWrites DEF Persist, TaskWrite
<1>4. TerminalGood(session', task')
  BY <1>1, <1>2, <1>3 DEF TerminalGood
<1>5. approvals \in [ApprovalId -> Approval] /\ attempts \in [ApprovalId -> AttemptStatus]
      /\ i \in ApprovalId \cup {0} /\ issued \in Nat
  BY <1>1, TypeFacts DEF Frame, Call
<1>6. \A n \in ApprovalId : n # i => approvals[n].status # "pending" /\ attempts[n] # "blocked"
  BY <1>1 DEF AgreementInv, ApprovalGood
<1>7. \A n \in ApprovalId : approvals'[n].status # "pending" /\ attempts'[n] # "blocked"
  <2>1. CASE i = 0
    <3>1. UNCHANGED <<approvals, attempts>>
      BY <1>1, <1>2, <2>1, OperatorTodoFacts DEF Persist
    <3> QED BY <1>6, <2>1, <3>1 DEF ApprovalId
  <2>2. CASE i # 0
    <3> DEFINE j == AskId(c)
               r == ApprovalAfter(c)
    <3>1. "approval" \in Writes(c) /\ "attempt" \in Writes(c)
      BY <1>1, <1>2, <2>2, OperatorTodoFacts
    <3>2. ApprovalWrite(c, j, r) /\ approvals' = [approvals EXCEPT ![j] = r]
      BY <3>1, ApprovalWrites, RunnerIsActor
    <3> HIDE DEF j, r
    <3>3. j = i /\ r.status # "pending"
      BY <3>2 DEF ApprovalWrite
    <3>4. attempts' = IF attempts[i] = "blocked" THEN [attempts EXCEPT ![i] = "failed"]
                                                 ELSE attempts
      <4>1. attempts' = AttemptsAfter(c)
        BY <3>1 DEF Persist
      <4> QED BY <1>1, <4>1, AttemptsWrites DEF AttemptsWrite
    <3> QED BY <1>5, <1>6, <3>2, <3>3, <3>4
  <2> QED BY <2>1, <2>2
<1>8. ApprovalGood(session', approvals', attempts')
  BY <1>1, <1>2, <1>7 DEF ApprovalGood
<1>9. session'.lease <= issued
      /\ \A w \in Worker : ~Own(calls[w], held[w], session')
  BY <1>1, <1>2, <1>5 DEF AgreementInv, LeaseInv, WorkerCall, Own
<1> QED BY <1>1, <1>4, <1>8, <1>9, OperatorPersists

LEMMA InitAgreement ==
    ASSUME Init
    PROVE  AgreementInv
<1>1. \A a \in Actor : calls[a].op = "none"
  BY NoCallFacts DEF Init
<1>2. session.lease = 0 /\ issued = 0 /\ session.pending = 0 /\ session.exec = "idle"
      /\ session.phase = "received" /\ \A w \in Worker : held[w] = 0
  BY CreatedFacts DEF Init
<1>3. LeaseInv
  BY <1>1, <1>2, RunnerIsActor DEF LeaseInv, WorkerCall
<1>4. TerminalGood(session, task)
  BY <1>2 DEF TerminalGood, isTerminalPhase, TerminalPhase
<1>5. ApprovalGood(session, approvals, attempts)
  BY <1>2 DEF Init, ApprovalGood, NoApproval
<1> QED BY <1>1, <1>3, <1>4, <1>5, RunnerIsActor DEF AgreementInv, Own

LEMMA AgreementStep ==
    ASSUME TypeInv, ApprovalInv, AgreementInv, Transactional, Client = {}, [Next]_vars,
           ~strayed'
    PROVE  AgreementInv'
<1>0. Actor = Worker \cup Operator /\ Runner = Worker
  BY DEF Actor, Runner
<1>1. CASE Tick
  BY <1>1 DEF Tick, stores, AgreementInv, LeaseInv
<1>2. CASE UNCHANGED vars
  BY <1>2 DEF vars, AgreementInv, LeaseInv
<1>3. ASSUME NEW a \in Worker \cup Operator, Persist(a)
      PROVE  AgreementInv'
  <2>1. CASE a \in Worker
    BY <1>3, <2>1, WorkerPersistAgreement
  <2>2. CASE a \in Operator
    <3>1. calls[a].op \in {"respond", "abort"}
      BY <1>3, <2>2, OperatorWrite DEF OperatorCall
    <3> QED BY <1>3, <2>2, <3>1, RespondPersists, AbortPersists
  <2> QED BY <2>1, <2>2
<1>4. ASSUME NEW a \in Worker \cup Operator, PersistRefused(a)
      PROVE  AgreementInv'
  BY <1>4, ReturnAgreement DEF PersistRefused, stores
<1>5. ASSUME NEW a \in Actor, CallStep(a) \/ Crash(a)
      PROVE  AgreementInv'
  BY <1>0, <1>3, <1>4, <1>5, BeginAgreement, MarkAgreement, InvokeAgreement,
     VerifyAgreement, NormalizeAgreement, CrashAgreement DEF CallStep
<1>6. ASSUME NEW a \in Runner,
             \/ \E s \in Step : RunStep(a, s)
             \/ ResumePendingApproval(a) \/ RecoverSession(a) \/ MarkSessionInterrupted(a)
      PROVE  AgreementInv'
  BY <1>0, <1>6, RunStepAgreement, ResumeAgreement, RecoverAgreement, InterruptAgreement
<1>7. ASSUME NEW w \in Worker,
             \/ \E mode \in ClaimMode : Claim(w, mode)
             \/ RenewLease(w) \/ ReleaseLease(w)
      PROVE  AgreementInv'
  BY <1>7, ClaimAgreement, RenewAgreement, ReleaseAgreement
<1>8. ASSUME NEW o \in Operator,
             \/ \E r \in {"once", "always", "reject"} : RespondApproval(o, r)
             \/ AbortSession(o)
      PROVE  AgreementInv'
  BY <1>8, RespondAgreement, AbortAgreement
<1> QED BY <1>1, <1>2, <1>5, <1>6, <1>7, <1>8 DEF Next

LEMMA StrayedStays ==
    ASSUME TypeInv, [Next]_vars, ~strayed'
    PROVE  ~strayed
<1>1. ASSUME NEW w \in Worker,
             (\E mode \in ClaimMode : Claim(w, mode)) \/ RenewLease(w) \/ ReleaseLease(w)
      PROVE  strayed' = strayed
  BY <1>1 DEF Claim, RenewLease, ReleaseLease
<1>2. ASSUME NEW a \in Actor, Persist(a)
      PROVE  ~strayed
  BY <1>2 DEF Persist
<1>3. CASE strayed' = strayed
  BY <1>3
<1> QED
  BY <1>1, <1>2, <1>3
  DEF Next, vars, CallStep, Tick, RecoverSession, MarkSessionInterrupted, RunStep,
      ResumePendingApproval, RespondApproval, AbortSession, Begin, Mark, Invoke, Verify,
      Normalize, PersistRefused, Crash

(* Until a write strays, the stores agree.                                 *)
AgreementUnlessStrayed == ~strayed => AgreementInv

LEMMA AgreementInvariance ==
    ASSUME Transactional, Client = {}
    PROVE  Spec => [](TypeInv /\ ApprovalInv /\ AgreementUnlessStrayed)
<1>1. Init => TypeInv /\ ApprovalInv /\ AgreementUnlessStrayed
  BY InitType, InitApproval, InitAgreement DEF AgreementUnlessStrayed
<1>2. TypeInv /\ ApprovalInv /\ AgreementUnlessStrayed /\ [Next]_vars
        => (TypeInv /\ ApprovalInv /\ AgreementUnlessStrayed)'
  BY TypeStep, ApprovalStep, AgreementStep, StrayedStays DEF AgreementUnlessStrayed
<1> QED BY <1>1, <1>2, PTL DEF Spec

(* With transactions, and all runs made by workers under a lease: a        *)
(* session that ended completed, failed or aborted has its task in the     *)
(* matching status, nothing in flight and no approval outstanding, however *)
(* workers, operators and crashes interleave, unless a recovery wrote      *)
(* under a lease it was not called with or an interruption mark over a     *)
(* record whose approval was answered meanwhile.                           *)
THEOREM TerminalSessionsAgree ==
    ASSUME Transactional, Client = {}
    PROVE  Spec => []TerminalAgreement
<1>1. AgreementUnlessStrayed => TerminalAgreement
  <2> SUFFICES ASSUME TerminalGood(session, task), isTerminalPhase(session.phase)
               PROVE  /\ task = CASE session.phase = "complete" -> "completed"
                                  [] session.phase = "failed"   -> "failed"
                                  [] OTHER                      -> "aborted"
                      /\ session.exec = "idle"
                      /\ session.inFlight = NoStep
                      /\ session.pending = NoApprovalId
    BY DEF AgreementInv, AgreementUnlessStrayed, TerminalAgreement
  <2>1. session.phase \in {"complete", "failed", "aborted"}
    BY DEF isTerminalPhase, TerminalPhase
  <2>2. session.exec = "idle" /\ session.inFlight = NoStep /\ session.pending = 0
    BY DEF TerminalGood
  <2>3. /\ session.phase = "complete" => task = "completed"
        /\ session.phase = "failed" => task = "failed"
        /\ session.phase = "aborted" => task = "aborted"
    BY DEF TerminalGood
  <2>4. task = CASE session.phase = "complete" -> "completed"
                 [] session.phase = "failed"   -> "failed"
                 [] OTHER                      -> "aborted"
    BY <2>1, <2>3, Zenon
  <2> QED BY <2>2, <2>4
<1> QED BY <1>1, AgreementInvariance, PTL

(* Under the same conditions the session, approval and attempt stores      *)
(* agree on what is being waited for until a write strays: no approval or  *)
(* blocked attempt is left behind that no session points to, and none is   *)
(* resolved that a session still waits for.                                *)
THEOREM StoresAgreeOnApprovals ==
    ASSUME Transactional, Client = {}
    PROVE  Spec => []ApprovalAgreement
<1>1. AgreementUnlessStrayed => ApprovalAgreement
  BY DEF AgreementInv, AgreementUnlessStrayed, ApprovalGood, ApprovalAgreement
<1> QED BY <1>1, AgreementInvariance, PTL

(* Under the same conditions a session that ended stays as it ended: no    *)
(* run, response or abort still under way when it ends can move it; only   *)
(* its lease holder can, by marking it interrupted, and a stray write.     *)
THEOREM TerminalPhasesAreFinal ==
    ASSUME Transactional, Client = {}
    PROVE  Spec => TerminalIsFinal
<1> DEFINE Stays == isTerminalPhase(session.phase) =>
                      \/ session'.phase = session.phase
                      \/ session'.phase = "recover" /\ session'.exec = "interrupted"
                      \/ strayed'
<1>1. TypeInv /\ ApprovalInv /\ AgreementUnlessStrayed /\ [Next]_vars => [Stays]_vars
  <2> SUFFICES ASSUME TypeInv, AgreementUnlessStrayed, Next, isTerminalPhase(session.phase),
                      ~strayed'
               PROVE  \/ session'.phase = session.phase
                      \/ session'.phase = "recover" /\ session'.exec = "interrupted"
    OBVIOUS
  <2>0. Actor = Worker \cup Operator
    BY DEF Actor, Runner
  <2>1. AgreementInv
    BY StrayedStays DEF AgreementUnlessStrayed
  <2>2. ASSUME NEW a \in Actor, Persist(a)
        PROVE  session'.phase = "recover" /\ session'.exec = "interrupted"
    <3>1. CASE a \in Worker
      BY <2>1, <2>2, <3>1, WorkerPersistAgreement
    <3>2. CASE a \in Operator
      BY <2>1, <2>2, <3>2, OperatorWrite
    <3> QED BY <2>0, <3>1, <3>2
  <2>3. ASSUME NEW w \in Worker,
               (\E mode \in ClaimMode : Claim(w, mode)) \/ RenewLease(w) \/ ReleaseLease(w)
        PROVE  session'.phase = session.phase
    BY <2>3, LeaseStepType
  <2>4. CASE session' = session
    BY <2>4
  <2> QED
    BY <2>2, <2>3, <2>4
    DEF Next, CallStep, Tick, RecoverSession, MarkSessionInterrupted, RunStep,
        ResumePendingApproval, RespondApproval, AbortSession, Begin, Mark, Invoke, Verify,
        Normalize, PersistRefused, Crash, stores
<1> QED BY <1>1, AgreementInvariance, PTL DEF Spec, TerminalIsFinal
=============================================================================
