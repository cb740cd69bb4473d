-------------------------- MODULE Planning_proofs --------------------------
(***************************************************************************)
(* Proofs about Planning: for every program, planner, tool registry and    *)
(* environment of a session.                                               *)
(***************************************************************************)
EXTENDS Planning, ProgramCompile_proofs

WorkFields == {"registry", "planners", "programs", "maxSteps", "atomic", "changes", "faults",
               "ticks"}
PlanFields == {"by", "view", "steps", "path", "program"}
CallFields == {"pc", "view", "steps", "summary", "prev", "at", "plan"}
RunFields == {"pc", "plan", "step", "bound", "last", "version", "def", "ok", "artifact", "at"}

(* The programs still to come can be compiled or refused.                  *)
WorkOK(w) ==
    /\ DOMAIN w = WorkFields /\ w.atomic \in BOOLEAN
    /\ IsSequence(w.programs)
    /\ \A i \in DOMAIN w.programs : w.programs[i].path \in Path /\ IsProgram(w.programs[i].program)

(* Steps are run in the order of the plan.                                 *)
InTurn(steps) ==
    \A j, k \in DOMAIN steps : j < k /\ steps[k].status # "pending" => steps[j].status # "pending"

(* A stored plan is a planner's, pinned to the planner's view, or a        *)
(* compiled program.                                                       *)
PlanOK(q) ==
    /\ DOMAIN q = PlanFields
    /\ IsSequence(q.steps)
    /\ \A k \in DOMAIN q.steps : DOMAIN q.steps[k] = StepFields /\ q.steps[k].view = q.view.id
    /\ q.by \in Planner \cup {NoView}
    /\ q.by \in Planner => q.path = "planner" /\ q.view.id = q.by
    /\ q.by = NoView => q.view = EmptyView /\ CompiledFrom(q.program, q.path, q.steps)
    /\ InTurn(q.steps)

PlansOK(qs) == IsSequence(qs) /\ \A i \in DOMAIN qs : PlanOK(qs[i])

ViewOK(view) == \A e \in view.entries : e = [version |-> e.version, def |-> e.def]

(* listedBefore, for given summaries.                                      *)
EarlierIn(sums, i, j) ==
    \/ sums[i].at < sums[j].at
    \/ sums[i].at = sums[j].at /\ i <= j

(* The steps of a call before anything of its plan is written.             *)
Early == {"idle", "context", "compact", "store", "freeze", "next", "create"}
Writing == {"snapshots", "record"}
CallPcs == Early \cup Writing \cup {"event", "created", "failed", "done"}

(* A call of CreatePlanFromPlanner: its view is its own, the summary it    *)
(* will supersede is its last one or is listed after it, and is no younger *)
(* than the time it has read.                                              *)
CallOK(c, q, sums, t) ==
    /\ DOMAIN q = CallFields /\ q.pc \in CallPcs
    /\ q.steps \in Seq(PlannedSteps)
    /\ q.summary \in 0 .. Len(sums) /\ q.prev \in 0 .. Len(sums)
    /\ q.at \in Nat /\ q.at <= t
    /\ q.pc \in {"compact", "store"} /\ q.summary # 0 =>
          q.prev # 0 /\ EarlierIn(sums, q.summary, q.prev)
    /\ q.pc = "store" /\ q.prev # 0 => sums[q.prev].at <= q.at
    /\ ViewOK(q.view)
    /\ q.view = EmptyView \/ q.view.id = c
    /\ q.pc \in {"next", "create"} \cup Writing => q.view.id = c

CallsOK(calls, sums, t) ==
    DOMAIN calls = Planner /\ \A c \in Planner : CallOK(c, calls[c], sums, t)

MadeBy(c, qs) == {i \in DOMAIN qs : qs[i].by = c}

(* The plan of a planning and its record, at each point of its call.       *)
RecordOK(c, rec, qs, call, snaps, atomic) ==
    /\ \A i, j \in MadeBy(c, qs) : i = j
    /\ rec.status = "completed" =>
          /\ MadeBy(c, qs) = {rec.plan} /\ rec.view = c
          /\ \A i \in MadeBy(c, qs) : planSnapshots(qs[i].view) \subseteq snaps
    /\ call.pc \in Early => MadeBy(c, qs) = {}
    /\ call.pc \in Writing => MadeBy(c, qs) = {call.plan} /\ qs[call.plan].view = call.view
    /\ call.pc = "record" => planSnapshots(call.view) \subseteq snaps
    /\ call.pc \in {"event", "created"} => rec.status = "completed"
    /\ atomic => /\ MadeBy(c, qs) # {} => rec.status = "completed"
                 /\ call.pc \notin Writing \cup {"event"}
                 /\ call.pc = "failed" => MadeBy(c, qs) = {}

RecordsOK(recs, qs, calls, snaps, atomic) ==
    /\ DOMAIN recs = Planner
    /\ \A c \in Planner : RecordOK(c, recs[c], qs, calls[c], snaps, atomic)

(* The plan snapshots are of the stored plans' views.                      *)
SnapshotsOK(snaps, qs) ==
    \A s \in snaps : s.scope = "plan" =>
        \E i \in DOMAIN qs : /\ qs[i].by \in Planner /\ s.view = qs[i].by
                             /\ [version |-> s.version, def |-> s.def] \in qs[i].view.entries

(* SummariesFollow, for given summaries.                                   *)
SummaryOK(sums, i) ==
    /\ sums[i].prev \in 0 .. i - 1 /\ sums[i].own \in 0 .. i - 1
    /\ sums[i].prev # 0 => EarlierIn(sums, sums[i].prev, i)
    /\ sums[i].own # 0 => sums[i].prev # 0 /\ EarlierIn(sums, sums[i].own, sums[i].prev)

SummariesOK(sums, t) ==
    /\ IsSequence(sums) /\ t \in Nat
    /\ \A i \in DOMAIN sums : sums[i].at \in Nat /\ sums[i].at <= t
    /\ \A i \in DOMAIN sums : SummaryOK(sums, i)

Pinned(view, version, def) ==
    view # EmptyView /\ def # NoDef => [version |-> version, def |-> def] \in view.entries

(* An action is of a step.  A step that is settled without one was denied, *)
(* or its action was lost for want of a transaction.                       *)
ActionsOK(acts, qs, t, atomic) ==
    /\ IsSequence(acts)
    /\ \A i \in DOMAIN acts :
          /\ acts[i].at \in Nat /\ acts[i].at <= t /\ acts[i].artifact \in BOOLEAN
          /\ acts[i].plan \in DOMAIN qs /\ acts[i].step \in DOMAIN qs[acts[i].plan].steps
          /\ acts[i].node = qs[acts[i].plan].steps[acts[i].step].node
          /\ Pinned(qs[acts[i].plan].view, acts[i].version, acts[i].def)
    /\ \A i \in DOMAIN qs : \A k \in DOMAIN qs[i].steps :
          qs[i].steps[k].status # "pending" =>
              \/ qs[i].steps[k].status = "failed" \/ ~ atomic
              \/ \E a \in DOMAIN acts : acts[a].plan = i /\ acts[a].step = k

Running == {"resolve", "invoke", "persist"}

(* The step being run: its predecessors have been settled, it runs with    *)
(* what its view holds.                                                    *)
RunOK(run, qs, t) ==
    /\ DOMAIN run = RunFields /\ run.artifact \in BOOLEAN
    /\ run.at \in Nat /\ run.at <= t
    /\ run.pc \in Running \/ run.last # "none" =>
          run.plan \in DOMAIN qs /\ run.step \in DOMAIN qs[run.plan].steps
    /\ run.pc \in Running =>
          /\ run.last # "unbound"
          /\ \A j \in DOMAIN qs[run.plan].steps :
                j < run.step => qs[run.plan].steps[j].status # "pending"
    /\ run.pc = "persist" => Pinned(qs[run.plan].view, run.version, run.def)

Runs(acts, b, plan, k) ==
    {j \in DOMAIN acts : /\ acts[j].plan = plan /\ acts[j].step = k
                         /\ b.kind = "artifact" => acts[j].artifact}

(* The steps of the node a binding names have left nothing for it.         *)
NothingLeft(acts, b, plan, steps, atomic) ==
    \A k \in StepsOf(steps, b.ref) :
        /\ steps[k].status # "pending"
        /\ Runs(acts, b, plan, k) = {}
        /\ b.kind = "artifact" \/ steps[k].status = "failed" \/ ~ atomic

(* BoundToOwnRun, for a given state.                                       *)
BoundOK(run, qs, acts, atomic) ==
    LET step == qs[run.plan].steps[run.step]
    IN /\ run.last = "unbound" /\ qs[run.plan].path # "planner" =>
             \E i \in DOMAIN step.binds :
                 Ancestor(qs[run.plan].program, step.node, step.binds[i].ref) =>
                     NothingLeft(acts, step.binds[i], run.plan, qs[run.plan].steps, atomic)
       /\ run.pc = "invoke" =>
             \A i \in DOMAIN run.bound : run.bound[i] # 0 =>
                 \A j \in DOMAIN acts :
                     /\ acts[j].node = step.binds[i].ref /\ acts[j].target = step.target
                     /\ j \in Runs(acts, step.binds[i], run.plan, acts[j].step)
                     => /\ acts[j].at <= acts[run.bound[i]].at
                        /\ step.target \in {NoTarget, acts[run.bound[i]].target}

RefusedOK(xs) == \A x \in xs : x.err = "cycle" => Cyclic(x.input.program)

PlanningInv ==
    /\ WorkOK(todo)
    /\ PlansOK(plans)
    /\ CallsOK(p, summaries, now)
    /\ RecordsOK(records, plans, p, snapshots, todo.atomic)
    /\ SnapshotsOK(snapshots, plans)
    /\ SummariesOK(summaries, now)
    /\ ActionsOK(actions, plans, now, todo.atomic)
    /\ RunOK(r, plans, now)
    /\ BoundOK(r, plans, actions, todo.atomic)
    /\ RefusedOK(refused)

----------------------------------------------------------------------------
(* Sequences.                                                              *)

LEMMA AppendIsSequence ==
    ASSUME NEW s, IsSequence(s), NEW x
    PROVE  /\ IsSequence(Append(s, x)) /\ Len(Append(s, x)) = Len(s) + 1
           /\ Len(s) \in Nat /\ DOMAIN s = 1 .. Len(s)
           /\ DOMAIN Append(s, x) = 1 .. Len(s) + 1
           /\ DOMAIN Append(s, x) = DOMAIN s \cup {Len(s) + 1}
           /\ Len(s) + 1 \notin DOMAIN s
           /\ \A i \in DOMAIN s : Append(s, x)[i] = s[i]
           /\ Append(s, x)[Len(s) + 1] = x
<1> DEFINE X == ToSet(s) \cup {x}
           a == Append(s, x)
<1>1. Len(s) \in Nat /\ DOMAIN s = 1 .. Len(s) /\ s \in Seq(X)
  <2>1. ToSet(s) \subseteq X
    OBVIOUS
  <2> HIDE DEF X
  <2> QED BY <2>1, SequenceFacts
<1>2. x \in X
  OBVIOUS
<1> HIDE DEF X
<1>3. /\ a \in Seq(X) /\ Len(a) = Len(s) + 1 /\ DOMAIN a = 1 .. Len(s) + 1
      /\ \A i \in 1 .. Len(s) : a[i] = s[i]
      /\ a[Len(s) + 1] = x
  BY <1>1, <1>2
<1> HIDE DEF a
<1>4. a = [i \in 1 .. Len(a) |-> a[i]] /\ Len(a) \in Nat
  BY <1>3
<1>5. IsSequence(a)
  BY <1>4, SequenceIntro
<1>6. DOMAIN a = DOMAIN s \cup {Len(s) + 1} /\ Len(s) + 1 \notin DOMAIN s
  BY <1>1, <1>3
<1> QED BY <1>1, <1>3, <1>5, <1>6 DEF a

LEMMA TailIsSequence ==
    ASSUME NEW s, IsSequence(s), s # <<>>
    PROVE  /\ IsSequence(Tail(s))
           /\ \A i \in DOMAIN Tail(s) : \E j \in DOMAIN s : Tail(s)[i] = s[j]
           /\ 1 \in DOMAIN s /\ Head(s) = s[1]
<1> DEFINE X == ToSet(s)
           a == Tail(s)
<1>1. Len(s) \in Nat /\ DOMAIN s = 1 .. Len(s) /\ s \in Seq(X)
  BY SequenceFacts DEF IsSequence
<1> HIDE DEF X
<1>2. /\ a \in Seq(X) /\ Len(s) # 0
      /\ \A i \in DOMAIN a : i + 1 \in DOMAIN s /\ a[i] = s[i + 1]
      /\ Head(s) = s[1]
  BY <1>1
<1> HIDE DEF a
<1>3. a = [i \in 1 .. Len(a) |-> a[i]] /\ Len(a) \in Nat
  BY <1>2
<1>4. IsSequence(a)
  BY <1>3, SequenceIntro
<1>5. 1 \in DOMAIN s
  BY <1>1, <1>2
<1> QED BY <1>2, <1>4, <1>5 DEF a

LEMMA ExceptIsSequence ==
    ASSUME NEW s, IsSequence(s), NEW i \in DOMAIN s, NEW x
    PROVE  LET e == [s EXCEPT ![i] = x]
           IN  /\ IsSequence(e) /\ DOMAIN e = DOMAIN s /\ e[i] = x
               /\ \A j \in DOMAIN s : j # i => e[j] = s[j]
<1> DEFINE e == [s EXCEPT ![i] = x]
<1>1. Len(s) \in Nat /\ DOMAIN s = 1 .. Len(s)
  BY SequenceFacts
<1>2. DOMAIN e = DOMAIN s /\ e[i] = x /\ \A j \in DOMAIN s : j # i => e[j] = s[j]
  OBVIOUS
<1>3. e = [j \in 1 .. Len(s) |-> e[j]]
  BY <1>1
<1> HIDE DEF e
<1>4. IsSequence(e)
  BY <1>1, <1>3, SequenceIntro
<1> QED BY <1>2, <1>4 DEF e

LEMMA EmptySequence ==
    IsSequence(<<>>) /\ DOMAIN <<>> = {} /\ Len(<<>>) = 0
BY DEF IsSequence

----------------------------------------------------------------------------
(* The steps of a planner's plan.                                          *)

NewStep(s, viewID) == DOMAIN s = StepFields /\ s.view = viewID /\ s.status = "pending"

LEMMA CompiledSteps ==
    ASSUME NEW program, NEW path, NEW steps, CompiledFrom(program, path, steps)
    PROVE  IsSequence(steps) /\ \A k \in DOMAIN steps : DOMAIN steps[k] = StepFields
<1>1. IsSequence(steps) /\ \E order, blk : Arranged(program, path, steps, order, blk)
  BY Zenon DEF CompiledFrom
<1>2. PICK order, blk : Arranged(program, path, steps, order, blk)
  BY <1>1
<1>3. \A k \in DOMAIN steps : StepOf(steps[k], nodesByID(program, order[blk[k]]), path)
  BY <1>2, Zenon DEF Arranged
<1>4. \A k \in DOMAIN steps : DOMAIN steps[k] = StepFields
  BY <1>3, Zenon DEF StepOf
<1> QED BY <1>1, <1>4

LEMMA ExpandedSteps ==
    ASSUME NEW step \in PlannedSteps, NEW view, expandProgramStep(step, view).err = "none"
    PROVE  LET steps == expandProgramStep(step, view).steps
           IN  IsSequence(steps) /\ \A k \in DOMAIN steps : NewStep(steps[k], view.id)
<1> DEFINE steps == expandProgramStep(step, view).steps
<1>1. step.attached \in BOOLEAN /\ (step.attached => IsProgram(step.program))
  BY PlannedAssumption
<1>2. CASE step.attached
  <2> DEFINE made == compile(step.program, "attached", view)
  <2>1. expandProgramStep(step, view) = made
    BY <1>2 DEF expandProgramStep
  <2>2. "attached" \in Path /\ IsProgram(step.program)
    BY <1>1, <1>2 DEF Path
  <2> HIDE DEF made
  <2>3. made.err = "none" =>
           /\ CompiledFrom(step.program, "attached", made.steps)
           /\ \A k \in DOMAIN made.steps :
                 /\ made.steps[k].status = "pending"
                 /\ made.steps[k].view = IF "attached" = "runtime" THEN NoView ELSE view.id
    BY <2>2, CompileFacts DEF made
  <2>4. steps = made.steps /\ made.err = "none"
    BY <2>1
  <2>5. /\ CompiledFrom(step.program, "attached", steps)
        /\ \A k \in DOMAIN steps : steps[k].status = "pending" /\ steps[k].view = view.id
    BY <2>3, <2>4
  <2> HIDE DEF steps
  <2> QED BY <2>5, CompiledSteps DEF NewStep, steps
<1>3. CASE ~ step.attached
  <2> DEFINE a == stepFromProgramNode(step.node, NoTarget, 0)
             b == pinStepToCapabilityView(a, view)
  <2>1. steps = <<b>>
    BY <1>3 DEF expandProgramStep
  <2>2. DOMAIN a = StepFields /\ a.status = "pending"
    <3>1. StepIs(a, step.node, NoTarget, 0, NoView)
      BY StepForm
    <3> HIDE DEF a
    <3> QED BY <3>1, Zenon DEF StepIs
  <2> HIDE DEF a
  <2>3. DOMAIN b = StepFields /\ b.view = view.id /\ b.status = "pending"
    BY <2>2, PinForm
  <2> HIDE DEF b, steps
  <2>4. steps = [i \in 1 .. 1 |-> steps[i]] /\ DOMAIN steps = {1} /\ steps[1] = b
    BY <2>1
  <2>5. IsSequence(steps)
    BY <2>4, SequenceIntro
  <2> QED BY <2>3, <2>4, <2>5 DEF NewStep, steps
<1> QED BY <1>1, <1>2, <1>3

LEMMA NormalizedSteps ==
    ASSUME NEW planned \in Seq(PlannedSteps), NEW view,
           normalizePlanSteps(planned, view).err = "none"
    PROVE  LET steps == normalizePlanSteps(planned, view).steps
           IN  IsSequence(steps) /\ \A k \in DOMAIN steps : NewStep(steps[k], view.id)
<1> DEFINE expanded == [i \in DOMAIN planned |-> expandProgramStep(planned[i], view)]
           B == [i \in DOMAIN expanded |-> expanded[i].steps]
           err == IF \A i \in DOMAIN expanded : expanded[i].err = "none" THEN "none" ELSE "refused"
           n == Len(planned)
           steps == FlattenSeq(B)
<1>1. normalizePlanSteps(planned, view) = [err |-> err, steps |-> steps]
  BY Zenon DEF normalizePlanSteps
<1>2. n \in Nat /\ DOMAIN planned = 1 .. n /\ \A i \in 1 .. n : planned[i] \in PlannedSteps
  OBVIOUS
<1>3. DOMAIN expanded = 1 .. n /\ \A i \in 1 .. n : expanded[i] = expandProgramStep(planned[i], view)
  BY <1>2
<1> HIDE DEF expanded
<1>4. \A i \in 1 .. n : expanded[i].err = "none"
  <2>1. err = "none"
    <3> HIDE DEF err, steps
    <3> QED BY <1>1
  <2> QED BY <1>3, <2>1
<1>5. DOMAIN B = 1 .. n /\ \A i \in 1 .. n : B[i] = expanded[i].steps
  BY <1>3
<1>6. ASSUME NEW i \in 1 .. n
      PROVE  IsSequence(B[i]) /\ \A k \in DOMAIN B[i] : NewStep(B[i][k], view.id)
  <2>1. B[i] = expandProgramStep(planned[i], view).steps
    BY <1>3, <1>5
  <2>2. planned[i] \in PlannedSteps /\ expandProgramStep(planned[i], view).err = "none"
    BY <1>2, <1>3, <1>4
  <2> HIDE DEF B
  <2> QED BY <2>1, <2>2, ExpandedSteps
<1>7. IsSequence(B) /\ Len(B) = n
  <2>1. B = [i \in 1 .. n |-> B[i]]
    BY <1>3
  <2> HIDE DEF B
  <2> QED BY <1>2, <2>1, SequenceIntro
<1> HIDE DEF B
<1>8. IsSequence(steps) /\ \E blk, pos : Blocks(B, n, steps, blk, pos)
  BY <1>5, <1>6, <1>7, FlattenBlocks
<1> HIDE DEF steps
<1>9. PICK blk, pos : Blocks(B, n, steps, blk, pos)
  BY <1>8
<1>10. ASSUME NEW k \in DOMAIN steps PROVE NewStep(steps[k], view.id)
  <2>1. k \in 1 .. Len(steps)
    BY <1>8, SequenceFacts
  <2>2. /\ blk[k] \in 1 .. n /\ pos[k] \in 1 .. Len(B[blk[k]])
        /\ steps[k] = B[blk[k]][pos[k]]
    <3> HIDE DEF n
    <3> QED BY <1>9, <2>1 DEF Blocks
  <2>3. IsSequence(B[blk[k]])
    BY <1>6, <2>2
  <2>4. pos[k] \in DOMAIN B[blk[k]]
    BY <2>2, <2>3, SequenceFacts
  <2> QED BY <1>6, <2>2, <2>4
<1>11. normalizePlanSteps(planned, view).steps = steps
  <2> HIDE DEF err
  <2> QED BY <1>1
<1> QED BY <1>8, <1>10, <1>11

----------------------------------------------------------------------------
(* Choices among records.                                                  *)

LEMMA ListedForm == \A i, j : listedBefore(i, j) <=> EarlierIn(summaries, i, j)
BY DEF listedBefore, EarlierIn

(* There is a latest summary: every other one is listed before it.         *)
LEMMA LatestListed ==
    ASSUME SummariesOK(summaries, now)
    PROVE  /\ Len(summaries) \in Nat /\ DOMAIN summaries = 1 .. Len(summaries)
           /\ latestContextSummary \in 0 .. Len(summaries)
           /\ \A j \in DOMAIN summaries :
                 latestContextSummary # 0 /\ EarlierIn(summaries, j, latestContextSummary)
<1>1. /\ Len(summaries) \in Nat /\ DOMAIN summaries = 1 .. Len(summaries)
      /\ summaries \in Seq(ToSet(summaries)) /\ now \in Nat
  BY SequenceFacts DEF SummariesOK, IsSequence
<1> DEFINE X == ToSet(summaries)
           n == Len(summaries)
<1> HIDE DEF X
<1>2. summaries = <<>> <=> n = 0
  BY <1>1 DEF X
<1>3. CASE n = 0
  BY <1>1, <1>2, <1>3 DEF latestContextSummary
<1>4. CASE n # 0
  <2>1. \A i \in 1 .. n : summaries[i].at \in Nat /\ summaries[i].at <= now
    BY <1>1 DEF SummariesOK
  <2>2. PICK b \in 1 .. n : \A j \in 1 .. n : summaries[j].at <= summaries[b].at
    <3> DEFINE T == {now - summaries[i].at : i \in 1 .. n}
    <3>1. T \in SUBSET Nat /\ now - summaries[1].at \in T
      BY <1>1, <1>4, <2>1
    <3>2. PICK x \in T : \A y \in T : x <= y
      BY <3>1, LeastElement
    <3>3. PICK b \in 1 .. n : x = now - summaries[b].at
      BY <3>2
    <3>4. ASSUME NEW j \in 1 .. n PROVE summaries[j].at <= summaries[b].at
      <4>1. now - summaries[b].at <= now - summaries[j].at
        BY <3>2, <3>3
      <4> QED BY <1>1, <2>1, <4>1
    <3> QED BY <3>4
  <2>3. PICK i \in 1 .. n : /\ summaries[i].at = summaries[b].at
                            /\ \A j \in 1 .. n : summaries[j].at = summaries[b].at => j <= i
    <3> DEFINE U == {n - i : i \in {j \in 1 .. n : summaries[j].at = summaries[b].at}}
    <3>1. U \in SUBSET Nat /\ n - b \in U
      BY <1>1
    <3>2. PICK x \in U : \A y \in U : x <= y
      BY <3>1, LeastElement
    <3>3. PICK i \in 1 .. n : summaries[i].at = summaries[b].at /\ x = n - i
      BY <3>2
    <3>4. ASSUME NEW j \in 1 .. n, summaries[j].at = summaries[b].at PROVE j <= i
      <4>1. n - i <= n - j
        BY <3>2, <3>3, <3>4
      <4> HIDE DEF n
      <4> QED BY <1>1, <4>1 DEF n
    <3> QED BY <3>3, <3>4
  <2>4. \A j \in 1 .. n : listedBefore(j, i)
    <3> TAKE j \in 1 .. n
    <3>1. summaries[j].at <= summaries[i].at /\ summaries[j].at \in Nat /\ summaries[i].at \in Nat
      BY <2>1, <2>2, <2>3
    <3>2. CASE summaries[j].at = summaries[i].at
      BY <2>3, <3>2 DEF listedBefore
    <3>3. CASE summaries[j].at # summaries[i].at
      BY <3>1, <3>3 DEF listedBefore
    <3> QED BY <3>2, <3>3
  <2> DEFINE latest == CHOOSE l \in 1 .. n : \A j \in 1 .. n : listedBefore(j, l)
  <2>5. latestContextSummary = latest
    BY <1>1, <1>2, <1>4 DEF latestContextSummary
  <2>6. latest \in 1 .. n /\ \A j \in 1 .. n : listedBefore(j, latest)
    BY <2>4, Zenon
  <2> HIDE DEF latest
  <2>7. \A j \in 1 .. n : EarlierIn(summaries, j, latest)
    BY <2>6, ListedForm
  <2>8. latest \in 0 .. n /\ latest # 0
    BY <1>1, <2>6
  <2> QED BY <1>1, <2>5, <2>7, <2>8
<1> QED BY <1>1, <1>3, <1>4

LEMMA ScoreType == \A step, a : score(step, a) \in {0, 10, -5}
BY DEF score

(* Of some runs, one is preferred.                                         *)
LEMMA PreferredExists ==
    ASSUME NEW step, NEW found, found # {}, NEW t \in Nat,
           \A i \in found : actions[i].at \in Nat /\ actions[i].at <= t
    PROVE  preferred(step, found) # {}
<1> DEFINE sc(i) == score(step, actions[i])
<1>1. \A i \in found : sc(i) \in {0, 10, -5}
  BY ScoreType
<1> HIDE DEF sc
<1>2. PICK b \in found : \A i \in found : sc(i) <= sc(b)
  <2>1. CASE \E i \in found : sc(i) = 10
    BY <1>1, <2>1
  <2>2. CASE ~ (\E i \in found : sc(i) = 10) /\ \E i \in found : sc(i) = 0
    BY <1>1, <2>2
  <2>3. CASE ~ (\E i \in found : sc(i) = 10) /\ ~ (\E i \in found : sc(i) = 0)
    BY <1>1, <2>3
  <2> QED BY <2>1, <2>2, <2>3
<1> DEFINE T == {t - actions[i].at : i \in {j \in found : sc(j) = sc(b)}}
<1>3. T \in SUBSET Nat /\ t - actions[b].at \in T
  <2>1. \A i \in found : t - actions[i].at \in Nat
    OBVIOUS
  <2> QED BY <2>1
<1>4. PICK x \in T : \A y \in T : x <= y
  BY <1>3, LeastElement
<1>5. PICK i \in {j \in found : sc(j) = sc(b)} : x = t - actions[i].at
  BY <1>4
<1>6. ASSUME NEW j \in found
      PROVE  sc(j) < sc(i) \/ (sc(j) = sc(i) /\ actions[j].at <= actions[i].at)
  <2>1. sc(j) <= sc(i) /\ sc(j) \in {0, 10, -5} /\ sc(i) \in {0, 10, -5}
    BY <1>1, <1>2, <1>5
  <2>2. CASE sc(j) = sc(i)
    <3>1. t - actions[j].at \in T
      BY <1>5, <2>2
    <3>2. t - actions[i].at <= t - actions[j].at
      BY <1>4, <1>5, <3>1
    <3>3. actions[i].at \in Nat /\ actions[j].at \in Nat
      BY <1>5
    <3> QED BY <2>2, <3>2, <3>3
  <2>3. CASE sc(j) # sc(i)
    BY <2>1, <2>3
  <2> QED BY <2>2, <2>3
<1>7. i \in preferred(step, found)
  BY <1>5, <1>6 DEF preferred, sc
<1> QED BY <1>7

----------------------------------------------------------------------------
(* What the parts of the invariant need from each other.                   *)

(* A summary is stored, or time passes.                                    *)
LEMMA CallWider ==
    ASSUME NEW calls, NEW sums, NEW t \in Nat, CallsOK(calls, sums, t), IsSequence(sums),
           NEW new, NEW u \in Nat, t <= u, Len(new) \in Nat, Len(sums) <= Len(new),
           \A i \in DOMAIN sums : new[i] = sums[i]
    PROVE  CallsOK(calls, new, u)
<1>1. Len(sums) \in Nat /\ DOMAIN sums = 1 .. Len(sums)
  BY SequenceFacts
<1> SUFFICES ASSUME NEW c \in Planner PROVE CallOK(c, calls[c], new, u)
  BY DEF CallsOK
<1> DEFINE q == calls[c]
<1>2. CallOK(c, q, sums, t)
  BY DEF CallsOK
<1> HIDE DEF q
<1>3. \A x \in 0 .. Len(sums) : x \in 0 .. Len(new) /\ (x # 0 => x \in DOMAIN sums)
  BY <1>1
<1>4. \A i, j \in DOMAIN sums : EarlierIn(sums, i, j) => EarlierIn(new, i, j)
  BY DEF EarlierIn
<1>5. q.at \in Nat /\ q.at <= u
  BY <1>2 DEF CallOK
<1>6. q.summary \in 0 .. Len(new) /\ q.prev \in 0 .. Len(new)
  BY <1>2, <1>3 DEF CallOK
<1>7. q.pc \in {"compact", "store"} /\ q.summary # 0 =>
          q.prev # 0 /\ EarlierIn(new, q.summary, q.prev)
  BY <1>2, <1>3, <1>4 DEF CallOK
<1>8. q.pc = "store" /\ q.prev # 0 => new[q.prev].at <= q.at
  BY <1>2, <1>3 DEF CallOK
<1>9. CallOK(c, q, new, u)
  BY <1>2, <1>5, <1>6, <1>7, <1>8 DEF CallOK
<1> QED BY <1>9 DEF q

(* A call takes a step of its own.                                         *)
LEMMA CallStep ==
    ASSUME NEW calls, NEW sums, NEW t, CallsOK(calls, sums, t),
           NEW recs, NEW qs, NEW snaps, NEW atomic, RecordsOK(recs, qs, calls, snaps, atomic),
           NEW c \in Planner, NEW q, CallOK(c, q, sums, t),
           RecordOK(c, recs[c], qs, q, snaps, atomic),
           NEW new, new = [calls EXCEPT ![c] = q]
    PROVE  CallsOK(new, sums, t) /\ RecordsOK(recs, qs, new, snaps, atomic)
<1>1. DOMAIN calls = Planner /\ \A b \in Planner : CallOK(b, calls[b], sums, t)
  BY DEF CallsOK
<1>2. DOMAIN new = Planner /\ new[c] = q /\ \A b \in Planner : b # c => new[b] = calls[b]
  BY <1>1
<1>3. CallsOK(new, sums, t)
  BY <1>1, <1>2 DEF CallsOK
<1>4. /\ DOMAIN recs = Planner
      /\ \A b \in Planner : RecordOK(b, recs[b], qs, calls[b], snaps, atomic)
  BY DEF RecordsOK
<1>5. ASSUME NEW b \in Planner PROVE RecordOK(b, recs[b], qs, new[b], snaps, atomic)
  <2>1. CASE b = c
    BY <1>2, <2>1
  <2>2. CASE b # c
    BY <1>2, <1>4, <2>2
  <2> QED BY <2>1, <2>2
<1> QED BY <1>3, <1>4, <1>5 DEF RecordsOK

(* A call that has not written anything goes on, and any call may fail.    *)
LEMMA RecordMoves ==
    ASSUME NEW c, NEW rec, NEW qs, NEW call, NEW snaps, NEW atomic,
           RecordOK(c, rec, qs, call, snaps, atomic), call.pc \in CallPcs,
           NEW q, q.pc \in Early \cup {"failed", "done"},
           q.pc \in Early => call.pc \in Early,
           q.pc = "failed" => call.pc \notin {"created", "done"}
    PROVE  RecordOK(c, rec, qs, q, snaps, atomic)
<1>1. q.pc \notin Writing /\ q.pc \notin {"record", "event", "created"}
  BY DEF Early, Writing
<1>2. q.pc \in Early => MadeBy(c, qs) = {}
  BY DEF RecordOK
<1>3. ASSUME atomic, q.pc = "failed" PROVE MadeBy(c, qs) = {}
  <2>1. call.pc \in Early \cup {"failed"}
    BY <1>3 DEF RecordOK, CallPcs
  <2> QED BY <1>3, <2>1 DEF RecordOK
<1> QED BY <1>1, <1>2, <1>3 DEF RecordOK

(* A record stays right when plans of others and snapshots are added, and  *)
(* steps are settled.                                                      *)
LEMMA RecordWider ==
    ASSUME NEW c, NEW rec, NEW qs, NEW call, NEW snaps, NEW atomic,
           RecordOK(c, rec, qs, call, snaps, atomic),
           NEW new, MadeBy(c, new) = MadeBy(c, qs),
           \A i \in MadeBy(c, qs) : new[i].view = qs[i].view,
           NEW more, snaps \subseteq more
    PROVE  RecordOK(c, rec, new, call, more, atomic)
<1>1. rec.status = "completed" =>
         /\ MadeBy(c, new) = {rec.plan} /\ rec.view = c
         /\ \A i \in MadeBy(c, new) : planSnapshots(new[i].view) \subseteq more
  <2> SUFFICES ASSUME rec.status = "completed", NEW i \in MadeBy(c, qs)
               PROVE  planSnapshots(new[i].view) \subseteq more
    BY DEF RecordOK
  <2>1. planSnapshots(qs[i].view) \subseteq snaps /\ new[i].view = qs[i].view
    BY DEF RecordOK
  <2> QED BY <2>1
<1>2. call.pc \in Writing => MadeBy(c, new) = {call.plan} /\ new[call.plan].view = call.view
  <2> SUFFICES ASSUME call.pc \in Writing
               PROVE  MadeBy(c, new) = {call.plan} /\ new[call.plan].view = call.view
    OBVIOUS
  <2>1. MadeBy(c, qs) = {call.plan} /\ qs[call.plan].view = call.view
    BY DEF RecordOK
  <2> QED BY <2>1
<1>3. call.pc = "record" => planSnapshots(call.view) \subseteq more
  BY DEF RecordOK
<1> QED BY <1>1, <1>2, <1>3 DEF RecordOK

(* No step of a plan has run.                                              *)
Unrun(q) == \A k \in DOMAIN q.steps : q.steps[k].status = "pending"

(* The plan q is the newest of new, the others are those of qs.            *)
Added(qs, q, new) ==
    /\ DOMAIN new = DOMAIN qs \cup {Len(new)} /\ Len(new) \notin DOMAIN qs
    /\ new[Len(new)] = q
    /\ \A i \in DOMAIN qs : new[i] = qs[i]

(* A plan is added; the calls and the records of planners follow.          *)
LEMMA PlanAdded ==
    ASSUME NEW qs, NEW q, PlansOK(qs), PlanOK(q), Unrun(q),
           NEW acts, NEW run, NEW t, NEW atomic, ActionsOK(acts, qs, t, atomic),
           RunOK(run, qs, t), BoundOK(run, qs, acts, atomic), NEW new, new = Append(qs, q)
    PROVE  /\ PlansOK(new) /\ ActionsOK(acts, new, t, atomic) /\ RunOK(run, new, t)
           /\ BoundOK(run, new, acts, atomic)
           /\ Added(qs, q, new)
<1>1. IsSequence(qs)
  BY DEF PlansOK
<1> DEFINE n == Len(new)
<1>2. /\ IsSequence(new) /\ DOMAIN new = DOMAIN qs \cup {n} /\ n \notin DOMAIN qs
      /\ \A i \in DOMAIN qs : new[i] = qs[i]
      /\ new[n] = q
  BY <1>1, AppendIsSequence
<1> HIDE DEF n
<1>3. PlansOK(new)
  BY <1>2 DEF PlansOK
<1>4. ActionsOK(acts, new, t, atomic)
  <2>1. /\ IsSequence(acts)
        /\ \A i \in DOMAIN acts :
              /\ acts[i].at \in Nat /\ acts[i].at <= t /\ acts[i].artifact \in BOOLEAN
              /\ acts[i].plan \in DOMAIN qs /\ acts[i].step \in DOMAIN qs[acts[i].plan].steps
              /\ acts[i].node = qs[acts[i].plan].steps[acts[i].step].node
              /\ Pinned(qs[acts[i].plan].view, acts[i].version, acts[i].def)
    BY DEF ActionsOK
  <2>2. \A i \in DOMAIN acts : acts[i].plan \in DOMAIN new /\ new[acts[i].plan] = qs[acts[i].plan]
    BY <1>2, <2>1
  <2>3. \A i \in DOMAIN acts :
              /\ acts[i].at \in Nat /\ acts[i].at <= t /\ acts[i].artifact \in BOOLEAN
              /\ acts[i].plan \in DOMAIN new /\ acts[i].step \in DOMAIN new[acts[i].plan].steps
              /\ acts[i].node = new[acts[i].plan].steps[acts[i].step].node
              /\ Pinned(new[acts[i].plan].view, acts[i].version, acts[i].def)
    <3> TAKE i \in DOMAIN acts
    <3> QED BY <2>1, <2>2
  <2>4. ASSUME NEW i \in DOMAIN new, NEW k \in DOMAIN new[i].steps,
               new[i].steps[k].status # "pending"
        PROVE  \/ new[i].steps[k].status = "failed" \/ ~ atomic
               \/ \E a \in DOMAIN acts : acts[a].plan = i /\ acts[a].step = k
    <3>1. i \in DOMAIN qs
      BY <1>2, <2>4 DEF Unrun
    <3>2. new[i] = qs[i]
      BY <1>2, <3>1
    <3> QED BY <2>4, <3>1, <3>2 DEF ActionsOK
  <2> QED BY <2>1, <2>3, <2>4 DEF ActionsOK
<1>5. run.pc \in Running \/ run.last # "none" =>
          run.plan \in DOMAIN new /\ new[run.plan] = qs[run.plan]
  BY <1>2 DEF RunOK
<1>6. RunOK(run, new, t)
  <2>1. CASE run.pc \in Running \/ run.last # "none"
    BY <1>5, <2>1 DEF RunOK, Running
  <2>2. CASE run.pc \notin Running /\ run.last = "none"
    BY <2>2 DEF RunOK, Running
  <2> QED BY <2>1, <2>2
<1>7. BoundOK(run, new, acts, atomic)
  <2>1. CASE run.pc \in Running \/ run.last # "none"
    BY <1>5, <2>1 DEF BoundOK
  <2>2. CASE run.pc \notin Running /\ run.last = "none"
    BY <2>2 DEF BoundOK, Running
  <2> QED BY <2>1, <2>2
<1> QED BY <1>2, <1>3, <1>4, <1>6, <1>7 DEF n, Added

(* The snapshots are of views of the plans, also when plans are added.     *)
LEMMA SnapshotsStay ==
    ASSUME NEW snaps, NEW qs, SnapshotsOK(snaps, qs), NEW new,
           \A i \in DOMAIN qs : /\ i \in DOMAIN new
                                /\ new[i].by = qs[i].by /\ new[i].view = qs[i].view
    PROVE  SnapshotsOK(snaps, new)
<1> SUFFICES ASSUME NEW s \in snaps, s.scope = "plan"
             PROVE  \E i \in DOMAIN new :
                       /\ new[i].by \in Planner /\ s.view = new[i].by
                       /\ [version |-> s.version, def |-> s.def] \in new[i].view.entries
  BY DEF SnapshotsOK
<1>1. PICK i \in DOMAIN qs : /\ qs[i].by \in Planner /\ s.view = qs[i].by
                             /\ [version |-> s.version, def |-> s.def] \in qs[i].view.entries
  BY DEF SnapshotsOK
<1> QED BY <1>1

(* The plan of a program.                                                  *)
LEMMA ProgramPlanAdded ==
    ASSUME NEW qs, NEW new, NEW q, NEW recs, NEW calls, NEW snaps, NEW atomic,
           RecordsOK(recs, qs, calls, snaps, atomic), SnapshotsOK(snaps, qs),
           q.by = NoView, Added(qs, q, new)
    PROVE  RecordsOK(recs, new, calls, snaps, atomic) /\ SnapshotsOK(snaps, new)
<1> DEFINE n == Len(new)
<1>1. /\ DOMAIN new = DOMAIN qs \cup {n} /\ n \notin DOMAIN qs /\ new[n].by \notin Planner
      /\ \A i \in DOMAIN qs : new[i] = qs[i]
  BY ViewAssumption DEF Added
<1> HIDE DEF n
<1>2. ASSUME NEW c \in Planner PROVE RecordOK(c, recs[c], new, calls[c], snaps, atomic)
  <2>1. MadeBy(c, new) = MadeBy(c, qs) /\ \A i \in MadeBy(c, qs) : new[i].view = qs[i].view
    BY <1>1 DEF MadeBy
  <2>2. RecordOK(c, recs[c], qs, calls[c], snaps, atomic)
    BY DEF RecordsOK
  <2> QED BY <2>1, <2>2, RecordWider
<1>3. SnapshotsOK(snaps, new)
  BY <1>1, SnapshotsStay
<1> QED BY <1>2, <1>3 DEF RecordsOK

(* Only one call, and only its record, changes.                            *)
OnlyCall(c, calls, after) ==
    DOMAIN after = Planner /\ \A b \in Planner : b # c => after[b] = calls[b]

(* Snapshots of a plan's own view are added.                               *)
LEMMA SnapshotsAdded ==
    ASSUME NEW snaps, NEW qs, SnapshotsOK(snaps, qs), NEW i \in DOMAIN qs, qs[i].by \in Planner,
           qs[i].view.id = qs[i].by, ViewOK(qs[i].view),
           NEW more, more \subseteq snaps \cup planSnapshots(qs[i].view)
    PROVE  SnapshotsOK(more, qs)
<1> SUFFICES ASSUME NEW s \in more, s.scope = "plan"
             PROVE  \E j \in DOMAIN qs :
                       /\ qs[j].by \in Planner /\ s.view = qs[j].by
                       /\ [version |-> s.version, def |-> s.def] \in qs[j].view.entries
  BY DEF SnapshotsOK
<1>1. CASE s \in snaps
  BY <1>1 DEF SnapshotsOK
<1>2. CASE s \in planSnapshots(qs[i].view)
  <2>1. PICK e \in qs[i].view.entries : s = snapshot("plan", qs[i].view.id, e.version, e.def)
    BY <1>2 DEF planSnapshots
  <2>2. s.view = qs[i].by /\ [version |-> s.version, def |-> s.def] = e
    BY <2>1 DEF snapshot, ViewOK
  <2> QED BY <2>1, <2>2
<1> QED BY <1>1, <1>2

----------------------------------------------------------------------------
(* The steps of a planner.                                                 *)

LEMMA WorkUnchanged ==
    ASSUME WorkOK(todo),
           \/ UNCHANGED todo
           \/ todo' = [todo EXCEPT !.faults = @ - 1]
           \/ todo' = [todo EXCEPT !.changes = @ - 1]
           \/ todo' = [todo EXCEPT !.ticks = @ - 1]
    PROVE  WorkOK(todo') /\ todo'.atomic = todo.atomic
<1>1. CASE UNCHANGED todo
  BY <1>1
<1>2. CASE todo' = [todo EXCEPT !.faults = @ - 1]
  BY <1>2 DEF WorkOK, WorkFields
<1>3. CASE todo' = [todo EXCEPT !.changes = @ - 1]
  BY <1>3 DEF WorkOK, WorkFields
<1>4. CASE todo' = [todo EXCEPT !.ticks = @ - 1]
  BY <1>4 DEF WorkOK, WorkFields
<1> QED BY <1>1, <1>2, <1>3, <1>4

LEMMA CallOf ==
    ASSUME PlanningInv, NEW c \in Planner
    PROVE  /\ DOMAIN p = Planner /\ CallOK(c, p[c], summaries, now)
           /\ RecordOK(c, records[c], plans, p[c], snapshots, todo.atomic)
           /\ SummariesOK(summaries, now) /\ IsSequence(summaries) /\ now \in Nat
           /\ Len(summaries) \in Nat /\ DOMAIN summaries = 1 .. Len(summaries)
<1>1. /\ CallsOK(p, summaries, now) /\ SummariesOK(summaries, now)
      /\ RecordsOK(records, plans, p, snapshots, todo.atomic)
  BY DEF PlanningInv
<1>2. IsSequence(summaries) /\ now \in Nat
  BY <1>1 DEF SummariesOK
<1>3. Len(summaries) \in Nat /\ DOMAIN summaries = 1 .. Len(summaries)
  BY <1>2, SequenceFacts
<1> QED BY <1>1, <1>2, <1>3 DEF CallsOK, RecordsOK

(* The plans and the records stay as they are.                             *)
LEMMA PlannerMoves ==
    ASSUME PlanningInv, NEW c \in Planner, NEW q, p' = [p EXCEPT ![c] = q],
           CallOK(c, q, summaries, now),
           RecordOK(c, records[c], plans, q, snapshots, todo.atomic),
           WorkOK(todo'), todo'.atomic = todo.atomic,
           UNCHANGED <<plans, snapshots, records, summaries, actions, r, refused, now>>
    PROVE  PlanningInv'
<1>1. CallsOK(p, summaries, now) /\ RecordsOK(records, plans, p, snapshots, todo.atomic)
  BY DEF PlanningInv
<1>2. CallsOK(p', summaries, now) /\ RecordsOK(records, plans, p', snapshots, todo.atomic)
  BY <1>1, CallStep
<1> QED BY <1>2 DEF PlanningInv

(* The same before anything is written, or when the call fails.            *)
LEMMA EarlyMoves ==
    ASSUME PlanningInv, NEW c \in Planner, NEW q, p' = [p EXCEPT ![c] = q],
           CallOK(c, q, summaries, now),
           q.pc \in Early \cup {"failed", "done"}, q.pc \in Early => p[c].pc \in Early,
           q.pc = "failed" => p[c].pc \notin {"created", "done"},
           WorkOK(todo'), todo'.atomic = todo.atomic,
           UNCHANGED <<plans, snapshots, records, summaries, actions, r, refused, now>>
    PROVE  PlanningInv'
<1>1. CallOK(c, p[c], summaries, now) /\ RecordOK(c, records[c], plans, p[c], snapshots, todo.atomic)
  BY CallOf
<1>2. p[c].pc \in CallPcs
  BY <1>1 DEF CallOK
<1>3. RecordOK(c, records[c], plans, q, snapshots, todo.atomic)
  BY <1>1, <1>2, RecordMoves
<1> QED BY <1>3, PlannerMoves

(* The program counter of a call moves.                                    *)
LEMMA PcMoves ==
    ASSUME NEW c, NEW q, NEW sums, NEW t, CallOK(c, q, sums, t), NEW pc \in CallPcs,
           pc \notin {"compact", "store"}, pc \in {"next", "create"} \cup Writing => q.view.id = c
    PROVE  CallOK(c, [q EXCEPT !.pc = pc], sums, t) /\ [q EXCEPT !.pc = pc].pc = pc
<1> DEFINE e == [q EXCEPT !.pc = pc]
<1>1. /\ DOMAIN e = CallFields /\ e.pc = pc /\ e.view = q.view /\ e.steps = q.steps
      /\ e.summary = q.summary /\ e.prev = q.prev /\ e.at = q.at /\ e.plan = q.plan
  BY DEF CallOK, CallFields
<1> HIDE DEF e
<1>2. CallOK(c, e, sums, t)
  BY <1>1 DEF CallOK
<1> QED BY <1>1, <1>2 DEF e

LEMMA StartPlanningKeeps ==
    ASSUME PlanningInv, NEW c \in Planner, StartPlanning(c)
    PROVE  PlanningInv'
<1> DEFINE q == [p[c] EXCEPT !.pc = "context"]
<1>1. DOMAIN p = Planner /\ CallOK(c, p[c], summaries, now)
  BY CallOf
<1>2. CallOK(c, q, summaries, now) /\ q.pc = "context"
  BY <1>1, PcMoves DEF CallPcs, Early, Writing
<1>3. p' = [p EXCEPT ![c] = q] /\ p[c].pc = "idle"
  BY <1>1 DEF StartPlanning
<1>4. WorkOK(todo') /\ todo'.atomic = todo.atomic
  BY DEF StartPlanning, PlanningInv
<1> HIDE DEF q
<1> QED BY <1>2, <1>3, <1>4, EarlyMoves DEF StartPlanning, Early

LEMMA AssembleContextKeeps ==
    ASSUME PlanningInv, NEW c \in Planner, AssembleContext(c)
    PROVE  PlanningInv'
<1> DEFINE n == Len(summaries)
           latest == latestContextSummary
           q == [p[c] EXCEPT !.pc = "compact", !.prev = latest]
<1>1. /\ DOMAIN p = Planner /\ CallOK(c, p[c], summaries, now) /\ n \in Nat
      /\ DOMAIN summaries = 1 .. n /\ SummariesOK(summaries, now)
  BY CallOf
<1>2. /\ latest \in 0 .. n
      /\ \A j \in DOMAIN summaries : latest # 0 /\ EarlierIn(summaries, j, latest)
  BY <1>1, LatestListed
<1> HIDE DEF latest
<1>3. p' = [p EXCEPT ![c] = q] /\ p[c].pc = "context"
  BY <1>1 DEF AssembleContext, latest
<1>4. /\ DOMAIN q = CallFields /\ q.pc = "compact" /\ q.view = p[c].view /\ q.steps = p[c].steps
      /\ q.summary = p[c].summary /\ q.prev = latest /\ q.at = p[c].at /\ q.plan = p[c].plan
  BY <1>1 DEF CallOK, CallFields
<1> HIDE DEF q, n
<1>5. q.summary \in 0 .. n /\ (q.summary # 0 => q.summary \in DOMAIN summaries)
  <2>1. p[c].summary \in 0 .. n
    BY <1>1 DEF CallOK, n
  <2> QED BY <1>1, <1>4, <2>1
<1>6. q.summary # 0 => q.prev # 0 /\ EarlierIn(summaries, q.summary, q.prev)
  BY <1>2, <1>4, <1>5
<1>7. CallOK(c, q, summaries, now)
  <2>1. q.pc \in CallPcs /\ q.pc # "store" /\ q.pc \notin {"next", "create"} \cup Writing
    BY <1>4 DEF CallPcs, Early, Writing
  <2> QED BY <1>1, <1>2, <1>4, <1>5, <1>6, <2>1 DEF CallOK, n
<1>8. WorkOK(todo') /\ todo'.atomic = todo.atomic
  BY DEF AssembleContext, PlanningInv
<1> QED BY <1>3, <1>4, <1>7, <1>8, EarlyMoves DEF AssembleContext, Early

LEMMA AfterContext ==
    ASSUME NEW c, NEW sums, NEW t, CallOK(c, p[c], sums, t)
    PROVE  /\ afterContext(p[c]) \in {"freeze", "create", "next"}
           /\ afterContext(p[c]) \in {"create", "next"} => p[c].view.id = c
BY DEF afterContext, CallOK

LEMMA CompactContextKeeps ==
    ASSUME PlanningInv, NEW c \in Planner, CompactContext(c)
    PROVE  PlanningInv'
<1> DEFINE pc == afterContext(p[c])
<1>1. DOMAIN p = Planner /\ CallOK(c, p[c], summaries, now) /\ SummariesOK(summaries, now)
  BY CallOf
<1>2. pc \in {"freeze", "create", "next"} /\ (pc \in {"create", "next"} => p[c].view.id = c)
  BY <1>1, AfterContext
<1>3. /\ WorkOK(todo') /\ todo'.atomic = todo.atomic /\ p[c].pc = "compact"
      /\ UNCHANGED <<plans, snapshots, records, summaries, actions, r, refused, now>>
  BY DEF CompactContext, PlanningInv
<1> HIDE DEF pc
<1>4. ASSUME p' = [p EXCEPT ![c].pc = pc] PROVE PlanningInv'
  <2> DEFINE q == [p[c] EXCEPT !.pc = pc]
  <2>1. CallOK(c, q, summaries, now) /\ q.pc = pc
    <3>1. pc \in CallPcs /\ pc \notin {"compact", "store"} /\ pc \notin Writing
      BY <1>2 DEF CallPcs, Early, Writing
    <3> QED BY <1>1, <1>2, <3>1, PcMoves
  <2>2. p' = [p EXCEPT ![c] = q]
    BY <1>1, <1>4
  <2> HIDE DEF q
  <2>3. q.pc \in Early /\ p[c].pc \in Early /\ q.pc # "failed"
    BY <1>2, <1>3, <2>1 DEF Early
  <2> QED BY <1>3, <2>1, <2>2, <2>3, EarlyMoves
<1>5. ASSUME p' = [p EXCEPT ![c].pc = "store", ![c].at = now] PROVE PlanningInv'
  <2> DEFINE q == [p[c] EXCEPT !.pc = "store", !.at = now]
  <2>1. p' = [p EXCEPT ![c] = q]
    BY <1>1, <1>5
  <2>2. /\ DOMAIN q = CallFields /\ q.pc = "store" /\ q.view = p[c].view /\ q.steps = p[c].steps
        /\ q.summary = p[c].summary /\ q.prev = p[c].prev /\ q.at = now /\ q.plan = p[c].plan
    BY <1>1 DEF CallOK, CallFields
  <2> HIDE DEF q
  <2>3. q.prev # 0 => summaries[q.prev].at <= q.at
    <3>1. q.prev \in 0 .. Len(summaries)
      BY <1>1, <2>2 DEF CallOK
    <3>2. q.prev # 0 => q.prev \in DOMAIN summaries
      BY <3>1, CallOf
    <3> QED BY <1>1, <2>2, <3>2 DEF SummariesOK
  <2>4. q.summary # 0 => q.prev # 0 /\ EarlierIn(summaries, q.summary, q.prev)
    BY <1>1, <1>3, <2>2 DEF CallOK
  <2>5. now \in Nat /\ now <= now /\ q.pc \in CallPcs /\ q.pc \notin {"next", "create"} \cup Writing
    BY <1>1, <2>2 DEF SummariesOK, CallPcs, Early, Writing
  <2>6. CallOK(c, q, summaries, now)
    BY <1>1, <2>2, <2>3, <2>4, <2>5 DEF CallOK
  <2>7. q.pc \in Early /\ p[c].pc \in Early /\ q.pc # "failed"
    BY <1>3, <2>2 DEF Early
  <2> QED BY <1>3, <2>1, <2>6, <2>7, EarlyMoves
<1> QED BY <1>4, <1>5 DEF CompactContext, pc

LEMMA LaterIn ==
    ASSUME NEW sums, NEW i, NEW j, sums[i].at \in Nat, sums[j].at \in Nat,
           sums[i].at <= sums[j].at, i <= j
    PROVE  EarlierIn(sums, i, j)
BY DEF EarlierIn

(* A summary gets its number: it supersedes what its call has read.        *)
LEMMA SummaryAdded ==
    ASSUME NEW sums, NEW t, SummariesOK(sums, t), NEW c, NEW q, CallOK(c, q, sums, t), q.pc = "store",
           NEW new, new = Append(sums, [prev |-> q.prev, own |-> q.summary, at |-> q.at])
    PROVE  /\ SummariesOK(new, t) /\ Len(new) = Len(sums) + 1 /\ Len(sums) \in Nat
           /\ \A i \in DOMAIN sums : new[i] = sums[i]
<1> DEFINE n == Len(sums)
           s == [prev |-> q.prev, own |-> q.summary, at |-> q.at]
<1>1. IsSequence(sums) /\ t \in Nat /\ new = Append(sums, s)
  BY DEF SummariesOK
<1> HIDE DEF s
<1>2. /\ IsSequence(new) /\ Len(new) = n + 1 /\ n \in Nat
      /\ DOMAIN sums = 1 .. n /\ DOMAIN new = 1 .. n + 1
      /\ \A i \in 1 .. n : new[i] = sums[i]
      /\ new[n + 1] = s
  BY <1>1, AppendIsSequence
<1> HIDE DEF n
<1>3. /\ q.prev \in 0 .. n /\ q.summary \in 0 .. n /\ q.at \in Nat /\ q.at <= t
      /\ q.summary # 0 => q.prev # 0 /\ EarlierIn(sums, q.summary, q.prev)
      /\ q.prev # 0 => sums[q.prev].at <= q.at
  BY DEF CallOK, n
<1>4. \A i \in 1 .. n + 1 : i \in 1 .. n \/ i = n + 1
  BY <1>2
<1>5. \A i \in 1 .. n : sums[i].at \in Nat /\ sums[i].at <= t
  BY <1>2 DEF SummariesOK
<1>6. \A i \in 1 .. n + 1 : new[i].at \in Nat /\ new[i].at <= t
  BY <1>2, <1>3, <1>4, <1>5
<1>7. \A i, j \in 1 .. n : EarlierIn(sums, i, j) => EarlierIn(new, i, j)
  BY <1>2 DEF EarlierIn
<1>8. ASSUME NEW i \in 1 .. n PROVE SummaryOK(new, i)
  <2>1. SummaryOK(sums, i) /\ new[i] = sums[i]
    BY <1>2 DEF SummariesOK
  <2>2. \A x \in 0 .. i - 1 : x # 0 => x \in 1 .. n
    BY <1>2
  <2>3. sums[i].prev \in 0 .. i - 1 /\ sums[i].own \in 0 .. i - 1
    BY <2>1 DEF SummaryOK
  <2> QED BY <1>7, <2>1, <2>2, <2>3 DEF SummaryOK
<1>9. SummaryOK(new, n + 1)
  <2>1. new[n + 1].prev = q.prev /\ new[n + 1].own = q.summary /\ new[n + 1].at = q.at
    BY <1>2 DEF s
  <2>2. \A x \in 0 .. n : x \in 0 .. (n + 1) - 1 /\ (x # 0 => x \in 1 .. n)
    BY <1>2
  <2>3. q.prev # 0 => EarlierIn(new, q.prev, n + 1)
    <3> SUFFICES ASSUME q.prev # 0 PROVE EarlierIn(new, q.prev, n + 1)
      OBVIOUS
    <3>1. q.prev \in 1 .. n /\ new[q.prev] = sums[q.prev]
      BY <1>2, <1>3, <2>2
    <3>2. /\ new[q.prev].at \in Nat /\ new[n + 1].at \in Nat
          /\ new[q.prev].at <= new[n + 1].at /\ q.prev <= n + 1
      BY <1>2, <1>3, <1>5, <2>1, <3>1
    <3> QED BY <3>2, LaterIn, Zenon
  <2>4. q.summary # 0 => q.prev # 0 /\ EarlierIn(new, q.summary, q.prev)
    BY <1>3, <1>7, <2>2
  <2> QED BY <1>3, <2>1, <2>2, <2>3, <2>4 DEF SummaryOK
<1>10. \A i \in 1 .. n + 1 : SummaryOK(new, i)
  BY <1>4, <1>8, <1>9
<1> QED BY <1>1, <1>2, <1>6, <1>10 DEF SummariesOK, n

LEMMA PersistSummaryKeeps ==
    ASSUME PlanningInv, NEW c \in Planner, persistContextSummary(c)
    PROVE  PlanningInv'
<1> DEFINE pc == afterContext(p[c])
           n == Len(summaries)
           s == [prev |-> p[c].prev, own |-> p[c].summary, at |-> p[c].at]
           q == [p[c] EXCEPT !.pc = pc, !.summary = Len(summaries')]
<1>1. /\ DOMAIN p = Planner /\ CallOK(c, p[c], summaries, now) /\ SummariesOK(summaries, now)
      /\ RecordOK(c, records[c], plans, p[c], snapshots, todo.atomic)
      /\ IsSequence(summaries) /\ now \in Nat
  BY CallOf
<1>2. pc \in {"freeze", "create", "next"} /\ (pc \in {"create", "next"} => p[c].view.id = c)
  BY <1>1, AfterContext
<1> HIDE DEF pc
<1>3. /\ p[c].pc = "store" /\ summaries' = Append(summaries, s) /\ p' = [p EXCEPT ![c] = q]
      /\ UNCHANGED <<todo, plans, snapshots, records, actions, r, refused, now>>
  BY <1>1 DEF persistContextSummary, pc
<1> HIDE DEF s
<1>5. /\ SummariesOK(summaries', now) /\ Len(summaries') = n + 1 /\ n \in Nat
      /\ \A i \in DOMAIN summaries : summaries'[i] = summaries[i]
  <2> HIDE DEF q, n
  <2> DEFINE call == p[c]
             new == summaries'
  <2>1. /\ SummariesOK(summaries, now) /\ CallOK(c, call, summaries, now) /\ call.pc = "store"
        /\ new = Append(summaries, [prev |-> call.prev, own |-> call.summary, at |-> call.at])
    BY <1>1, <1>3 DEF s
  <2> HIDE DEF call, new
  <2>2. /\ SummariesOK(new, now) /\ Len(new) = Len(summaries) + 1
        /\ Len(summaries) \in Nat
        /\ \A i \in DOMAIN summaries : new[i] = summaries[i]
    BY <2>1, SummaryAdded, ZenonT(60)
  <2> QED BY <2>2 DEF n, new
<1> HIDE DEF n
<1>6. CallsOK(p, summaries', now)
  <2>1. /\ CallsOK(p, summaries, now) /\ Len(summaries') \in Nat
        /\ Len(summaries) <= Len(summaries') /\ now <= now
    BY <1>1, <1>5 DEF PlanningInv, n
  <2> QED BY <1>1, <1>5, <2>1, CallWider
<1>7. /\ DOMAIN q = CallFields /\ q.pc = pc /\ q.view = p[c].view /\ q.steps = p[c].steps
      /\ q.summary = n + 1 /\ q.prev = p[c].prev /\ q.at = p[c].at /\ q.plan = p[c].plan
  BY <1>1, <1>5 DEF CallOK, CallFields
<1> HIDE DEF q
<1>8. CallOK(c, q, summaries', now)
  <2>1. CallOK(c, p[c], summaries', now)
    BY <1>6 DEF CallsOK
  <2>2. q.summary \in 0 .. Len(summaries')
    BY <1>5, <1>7
  <2>3. q.pc \in CallPcs /\ q.pc \notin {"compact", "store"} /\ q.pc \notin Writing
    BY <1>2, <1>7 DEF CallPcs, Early, Writing
  <2> QED BY <1>2, <1>7, <2>1, <2>2, <2>3 DEF CallOK
<1>9. RecordOK(c, records[c], plans, q, snapshots, todo.atomic)
  <2>1. p[c].pc \in CallPcs /\ p[c].pc \in Early /\ q.pc \in Early /\ q.pc # "failed"
    BY <1>2, <1>3, <1>7 DEF CallPcs, Early
  <2> QED BY <1>1, <2>1, RecordMoves
<1>10. RecordsOK(records, plans, p, snapshots, todo.atomic)
  BY DEF PlanningInv
<1>11. CallsOK(p', summaries', now) /\ RecordsOK(records, plans, p', snapshots, todo.atomic)
  BY <1>3, <1>6, <1>8, <1>9, <1>10, CallStep
<1> QED BY <1>3, <1>5, <1>11 DEF PlanningInv

LEMMA FreezeKeeps ==
    ASSUME PlanningInv, NEW c \in Planner, FreezeCapabilityView(c)
    PROVE  PlanningInv'
<1> DEFINE view == Freeze(c)
           q == [p[c] EXCEPT !.pc = "next", !.view = view]
<1>1. DOMAIN p = Planner /\ CallOK(c, p[c], summaries, now)
  BY CallOf
<1>2. view.id = c /\ ViewOK(view)
  BY DEF Freeze, ViewOK
<1> HIDE DEF view
<1>3. p' = [p EXCEPT ![c] = q] /\ p[c].pc = "freeze"
  BY <1>1 DEF FreezeCapabilityView, view
<1>4. /\ DOMAIN q = CallFields /\ q.pc = "next" /\ q.view = view /\ q.steps = p[c].steps
      /\ q.summary = p[c].summary /\ q.prev = p[c].prev /\ q.at = p[c].at /\ q.plan = p[c].plan
  BY <1>1 DEF CallOK, CallFields
<1> HIDE DEF q
<1>5. CallOK(c, q, summaries, now)
  <2>1. q.pc \in CallPcs /\ q.pc \notin {"compact", "store"}
    BY <1>4 DEF CallPcs, Early
  <2> QED BY <1>1, <1>2, <1>4, <2>1 DEF CallOK
<1>6. WorkOK(todo') /\ todo'.atomic = todo.atomic
  BY DEF FreezeCapabilityView, PlanningInv
<1>7. q.pc \in Early /\ p[c].pc \in Early /\ q.pc # "failed"
  BY <1>3, <1>4 DEF Early
<1> QED BY <1>3, <1>5, <1>6, <1>7, EarlyMoves DEF FreezeCapabilityView

LEMMA PlanNextKeeps ==
    ASSUME PlanningInv, NEW c \in Planner, PlanNext(c)
    PROVE  PlanningInv'
<1>1. DOMAIN p = Planner /\ CallOK(c, p[c], summaries, now)
  BY CallOf
<1>2. /\ WorkOK(todo') /\ todo'.atomic = todo.atomic /\ p[c].pc = "next"
      /\ UNCHANGED <<plans, snapshots, records, summaries, actions, r, refused, now>>
  BY DEF PlanNext, PlanningInv
<1>3. p[c].view.id = c
  BY <1>1, <1>2 DEF CallOK
<1>4. ASSUME NEW s \in PlannedSteps, p' = [p EXCEPT ![c].pc = "context", ![c].steps = Append(@, s)]
      PROVE  PlanningInv'
  <2> DEFINE q == [p[c] EXCEPT !.pc = "context", !.steps = Append(p[c].steps, s)]
  <2>1. p' = [p EXCEPT ![c] = q]
    BY <1>1, <1>4 DEF CallOK, CallFields
  <2>2. /\ DOMAIN q = CallFields /\ q.pc = "context" /\ q.view = p[c].view
        /\ q.steps = Append(p[c].steps, s) /\ q.at = p[c].at /\ q.plan = p[c].plan
        /\ q.summary = p[c].summary /\ q.prev = p[c].prev
    BY <1>1 DEF CallOK, CallFields
  <2> HIDE DEF q
  <2>3. q.steps \in Seq(PlannedSteps)
    BY <1>1, <2>2 DEF CallOK
  <2>4. CallOK(c, q, summaries, now)
    <3>1. q.pc \in CallPcs /\ q.pc \notin {"compact", "store"}
      BY <2>2 DEF CallPcs, Early
    <3> QED BY <1>1, <1>3, <2>2, <2>3, <3>1 DEF CallOK
  <2>5. q.pc \in Early /\ p[c].pc \in Early /\ q.pc # "failed"
    BY <1>2, <2>2 DEF Early
  <2> QED BY <1>2, <2>1, <2>4, <2>5, EarlyMoves
<1>5. ASSUME p' = [p EXCEPT ![c].pc = "create"] PROVE PlanningInv'
  <2> DEFINE q == [p[c] EXCEPT !.pc = "create"]
  <2>1. p' = [p EXCEPT ![c] = q]
    BY <1>1, <1>5
  <2>2. CallOK(c, q, summaries, now) /\ q.pc = "create"
    BY <1>1, <1>3, PcMoves DEF CallPcs, Early
  <2> HIDE DEF q
  <2>3. q.pc \in Early /\ p[c].pc \in Early /\ q.pc # "failed"
    BY <1>2, <2>2 DEF Early
  <2> QED BY <1>2, <2>1, <2>2, <2>3, EarlyMoves
<1> QED BY <1>4, <1>5 DEF PlanNext

(* A call that fails; in memory it may have written something by then.     *)
LEMMA PlanningFailsKeeps ==
    ASSUME PlanningInv, NEW c \in Planner, PlanningFails(c) \/ CreateFails(c)
    PROVE  PlanningInv'
<1> DEFINE q == [p[c] EXCEPT !.pc = "failed"]
<1>1. DOMAIN p = Planner /\ CallOK(c, p[c], summaries, now)
  BY CallOf
<1>2. CallOK(c, q, summaries, now) /\ q.pc = "failed"
  BY <1>1, PcMoves DEF CallPcs, Writing
<1>3. /\ p' = [p EXCEPT ![c] = q] /\ p[c].pc \notin {"created", "done"}
      /\ UNCHANGED <<plans, snapshots, records, summaries, actions, r, refused, now>>
  BY <1>1 DEF PlanningFails, CreateFails
<1>4. \/ UNCHANGED todo
      \/ todo' = [todo EXCEPT !.faults = @ - 1]
  BY DEF PlanningFails, CreateFails
<1>5. WorkOK(todo') /\ todo'.atomic = todo.atomic
  BY <1>4, WorkUnchanged DEF PlanningInv
<1> HIDE DEF q
<1>6. q.pc \notin Early
  BY <1>2 DEF Early
<1> QED BY <1>2, <1>3, <1>5, <1>6, EarlyMoves

LEMMA PlannerCrashKeeps ==
    ASSUME PlanningInv, NEW c \in Planner, PlannerCrash(c)
    PROVE  PlanningInv'
<1> DEFINE q == [NoCall EXCEPT !.pc = "done"]
<1>1. Len(summaries) \in Nat /\ now \in Nat
  BY CallOf
<1>2. /\ DOMAIN q = CallFields /\ q.pc = "done" /\ q.view = EmptyView /\ q.steps = <<>>
      /\ q.summary = 0 /\ q.prev = 0 /\ q.at = 0
  BY DEF NoCall, CallFields
<1>3. p' = [p EXCEPT ![c] = q]
  BY DEF PlannerCrash
<1> HIDE DEF q
<1>4. CallOK(c, q, summaries, now)
  <2>1. ViewOK(EmptyView) /\ <<>> \in Seq(PlannedSteps)
    BY DEF ViewOK, EmptyView
  <2>2. q.pc \in CallPcs /\ q.pc \notin {"next", "create"} \cup Writing /\ 0 <= now
    BY <1>1, <1>2 DEF CallPcs, Writing
  <2> QED BY <1>1, <1>2, <2>1, <2>2 DEF CallOK
<1>5. WorkOK(todo') /\ todo'.atomic = todo.atomic
  BY WorkUnchanged DEF PlanningInv, PlannerCrash
<1>6. q.pc \notin Early /\ q.pc # "failed"
  BY <1>2 DEF Early
<1> QED BY <1>2, <1>3, <1>4, <1>5, <1>6, EarlyMoves DEF PlannerCrash

(* A call writes its record or snapshots.                                  *)
LEMMA PlannerWrites ==
    ASSUME PlanningInv, NEW c \in Planner, NEW q, p'[c] = q, OnlyCall(c, p, p'),
           CallOK(c, q, summaries, now), OnlyCall(c, records, records'),
           snapshots \subseteq snapshots', SnapshotsOK(snapshots', plans),
           RecordOK(c, records'[c], plans, q, snapshots', todo.atomic),
           WorkOK(todo'), todo'.atomic = todo.atomic,
           UNCHANGED <<plans, summaries, actions, r, refused, now>>
    PROVE  PlanningInv'
<1>1. /\ CallsOK(p, summaries, now) /\ RecordsOK(records, plans, p, snapshots, todo.atomic)
  BY DEF PlanningInv
<1>2. p'[c] = q /\ DOMAIN p' = Planner /\ \A b \in Planner : b # c => p'[b] = p[b]
  BY DEF OnlyCall
<1>3. CallsOK(p', summaries, now)
  BY <1>1, <1>2 DEF CallsOK
<1>4. ASSUME NEW b \in Planner
      PROVE  RecordOK(b, records'[b], plans, p'[b], snapshots', todo.atomic)
  <2>1. CASE b = c
    BY <1>2, <2>1
  <2>2. CASE b # c
    <3>1. records'[b] = records[b] /\ p'[b] = p[b]
      BY <1>2, <2>2 DEF OnlyCall
    <3>2. RecordOK(b, records[b], plans, p[b], snapshots, todo.atomic)
      BY <1>1 DEF RecordsOK
    <3> QED BY <3>1, <3>2, RecordWider
  <2> QED BY <2>1, <2>2
<1>5. RecordsOK(records', plans, p', snapshots', todo.atomic)
  BY <1>4 DEF RecordsOK, OnlyCall
<1> QED BY <1>3, <1>5 DEF PlanningInv

(* A failed planning is recorded, or not even that.                        *)
LEMMA JoinKeeps ==
    ASSUME PlanningInv, NEW c \in Planner, joinPlanningPersistenceError(c)
    PROVE  PlanningInv'
<1> DEFINE q == [p[c] EXCEPT !.pc = "done"]
<1>1. /\ DOMAIN p = Planner /\ CallOK(c, p[c], summaries, now)
      /\ RecordOK(c, records[c], plans, p[c], snapshots, todo.atomic)
  BY CallOf
<1>2. CallOK(c, q, summaries, now) /\ q.pc = "done"
  BY <1>1, PcMoves DEF CallPcs, Writing
<1>3. p' = [p EXCEPT ![c] = q] /\ p[c].pc = "failed"
  BY <1>1 DEF joinPlanningPersistenceError
<1> HIDE DEF q
<1>4. \/ UNCHANGED todo
      \/ todo' = [todo EXCEPT !.faults = @ - 1]
  BY DEF joinPlanningPersistenceError
<1>5. WorkOK(todo') /\ todo'.atomic = todo.atomic
  BY <1>4, WorkUnchanged DEF PlanningInv
<1>6. UNCHANGED <<plans, snapshots, summaries, actions, r, refused, now>>
  BY DEF joinPlanningPersistenceError
<1>7. q.pc \notin Early /\ q.pc \notin Writing \cup {"failed", "record", "event", "created"}
  BY <1>2 DEF Early, Writing
<1>8. CASE UNCHANGED records
  BY <1>2, <1>3, <1>5, <1>6, <1>7, <1>8, EarlyMoves
<1>9. CASE records' = [records EXCEPT ![c] = planningRecord(p[c], "failed", 0)]
  <2> DEFINE rec == planningRecord(p[c], "failed", 0)
  <2>1. rec.status = "failed"
    BY DEF planningRecord
  <2> HIDE DEF rec
  <2>2. DOMAIN records = Planner
    BY DEF PlanningInv, RecordsOK
  <2>3. OnlyCall(c, records, records') /\ records'[c] = rec
    BY <1>9, <2>2 DEF rec, OnlyCall
  <2>4. RecordOK(c, rec, plans, q, snapshots, todo.atomic)
    <3>1. todo.atomic => MadeBy(c, plans) = {}
      BY <1>1, <1>3 DEF RecordOK
    <3>2. \A i, j \in MadeBy(c, plans) : i = j
      BY <1>1 DEF RecordOK
    <3>3. rec.status # "completed"
      BY <2>1
    <3> QED BY <1>7, <3>1, <3>2, <3>3 DEF RecordOK
  <2>5. SnapshotsOK(snapshots, plans)
    BY DEF PlanningInv
  <2>6. p'[c] = q /\ OnlyCall(c, p, p')
    BY <1>1, <1>3 DEF OnlyCall
  <2> QED BY <1>2, <1>5, <1>6, <2>3, <2>4, <2>5, <2>6, PlannerWrites
<1> QED BY <1>8, <1>9 DEF joinPlanningPersistenceError

(* The plan a call has worked out.                                         *)
LEMMA PlannedPlanOK ==
    ASSUME NEW c \in Planner, CallOK(c, p[c], summaries, now), p[c].pc = "create", compiles(c)
    PROVE  /\ PlanOK(plannedPlan(c)) /\ Unrun(plannedPlan(c))
           /\ plannedPlan(c).by = c /\ plannedPlan(c).view = p[c].view
           /\ p[c].view.id = c /\ ViewOK(p[c].view)
<1> DEFINE made == normalizePlanSteps(p[c].steps, p[c].view)
           plan == plannedPlan(c)
<1>1. /\ p[c].steps \in Seq(PlannedSteps) /\ p[c].view.id = c /\ ViewOK(p[c].view)
  BY DEF CallOK
<1>2. /\ IsSequence(made.steps)
      /\ \A k \in DOMAIN made.steps : NewStep(made.steps[k], p[c].view.id)
  BY <1>1, NormalizedSteps DEF compiles
<1>3. /\ DOMAIN plan = PlanFields /\ plan.by = c /\ plan.view = p[c].view
      /\ plan.steps = made.steps /\ plan.path = "planner"
  <2> HIDE DEF made
  <2> QED BY DEF PlanFields, plannedPlan, made
<1> HIDE DEF made, plan
<1>4. \A k \in DOMAIN plan.steps : /\ DOMAIN plan.steps[k] = StepFields
                                   /\ plan.steps[k].view = plan.view.id
                                   /\ plan.steps[k].status = "pending"
  BY <1>2, <1>3 DEF NewStep
<1>5. InTurn(plan.steps)
  BY <1>4 DEF InTurn
<1>6. plan.by # NoView
  BY <1>3, ViewAssumption
<1>7. PlanOK(plan) /\ Unrun(plan)
  BY <1>1, <1>2, <1>3, <1>4, <1>5, <1>6 DEF PlanOK, Unrun
<1> QED BY <1>1, <1>3, <1>7 DEF plan

(* A plan is stored, with its snapshots and its record or before them.     *)
LEMMA PlanCreated ==
    ASSUME PlanningInv, NEW c \in Planner, p[c].pc = "create", compiles(c),
           plans' = Append(plans, plannedPlan(c)),
           NEW q, p' = [p EXCEPT ![c] = q], CallOK(c, q, summaries, now),
           OnlyCall(c, records, records'),
           snapshots \subseteq snapshots',
           snapshots' \subseteq snapshots \cup planSnapshots(p[c].view),
           MadeBy(c, plans') = {Len(plans')} /\ plans'[Len(plans')] = plannedPlan(c) =>
               RecordOK(c, records'[c], plans', q, snapshots', todo.atomic),
           UNCHANGED <<todo, summaries, actions, r, refused, now>>
    PROVE  PlanningInv'
<1> DEFINE plan == plannedPlan(c)
           n == Len(plans')
<1>1. DOMAIN p = Planner /\ CallOK(c, p[c], summaries, now)
  BY CallOf
<1>2. /\ PlanOK(plan) /\ Unrun(plan) /\ plan.by = c /\ plan.view = p[c].view
      /\ p[c].view.id = c /\ ViewOK(p[c].view)
  BY <1>1, PlannedPlanOK
<1>3. /\ PlansOK(plans) /\ RecordsOK(records, plans, p, snapshots, todo.atomic)
      /\ SnapshotsOK(snapshots, plans) /\ ActionsOK(actions, plans, now, todo.atomic)
      /\ RunOK(r, plans, now) /\ BoundOK(r, plans, actions, todo.atomic)
      /\ CallsOK(p, summaries, now)
  BY DEF PlanningInv
<1> HIDE DEF plan
<1>4. plans' = Append(plans, plan)
  BY DEF plan
<1>5. /\ PlansOK(plans') /\ ActionsOK(actions, plans', now, todo.atomic)
      /\ RunOK(r, plans', now) /\ BoundOK(r, plans', actions, todo.atomic)
      /\ Added(plans, plan, plans')
  BY <1>2, <1>3, <1>4, PlanAdded, Zenon
<1>6. n \in DOMAIN plans' /\ plans'[n] = plan
  BY <1>5 DEF Added
<1>7. p'[c] = q /\ OnlyCall(c, p, p')
  BY <1>1 DEF OnlyCall
<1>8. /\ DOMAIN plans' = DOMAIN plans \cup {n} /\ n \notin DOMAIN plans
      /\ \A i \in DOMAIN plans : plans'[i] = plans[i]
      /\ MadeBy(c, plans') = {n} /\ plans'[n] = plan =>
            RecordOK(c, records'[c], plans', q, snapshots', todo.atomic)
  BY <1>5 DEF Added, plan
<1> HIDE DEF n
<1>9. MadeBy(c, plans') = {n}
  <2>1. MadeBy(c, plans) = {}
    <3>1. p[c].pc \in Early
      BY DEF Early
    <3> QED BY <1>3, <3>1 DEF RecordsOK, RecordOK
  <2>2. ASSUME NEW i \in DOMAIN plans PROVE plans'[i].by # c
    <3>1. i \notin MadeBy(c, plans) /\ plans'[i] = plans[i]
      BY <1>8, <2>1
    <3> QED BY <3>1 DEF MadeBy
  <2>3. plans'[n].by = c
    BY <1>2, <1>6
  <2> QED BY <1>8, <2>2, <2>3 DEF MadeBy
<1>10. RecordsOK(records', plans', p', snapshots', todo.atomic)
  <2> SUFFICES ASSUME NEW b \in Planner
               PROVE  RecordOK(b, records'[b], plans', p'[b], snapshots', todo.atomic)
    BY DEF RecordsOK, OnlyCall
  <2>1. CASE b = c
    BY <1>6, <1>7, <1>8, <1>9, <2>1
  <2>2. CASE b # c
    <3>1. /\ MadeBy(b, plans') = MadeBy(b, plans)
          /\ \A i \in MadeBy(b, plans) : plans'[i].view = plans[i].view
      BY <1>2, <1>6, <1>8, <2>2 DEF MadeBy
    <3>2. RecordOK(b, records[b], plans, p[b], snapshots, todo.atomic)
      BY <1>3 DEF RecordsOK
    <3>3. records'[b] = records[b] /\ p'[b] = p[b]
      BY <1>7, <2>2 DEF OnlyCall
    <3> QED BY <3>1, <3>2, <3>3, RecordWider
  <2> QED BY <2>1, <2>2
<1>11. SnapshotsOK(snapshots', plans')
  <2>1. SnapshotsOK(snapshots, plans')
    BY <1>3, <1>8, SnapshotsStay
  <2>2. /\ plans'[n].by \in Planner /\ plans'[n].view = p[c].view
        /\ plans'[n].view.id = plans'[n].by /\ ViewOK(plans'[n].view)
    BY <1>2, <1>6
  <2>3. snapshots' \subseteq snapshots \cup planSnapshots(plans'[n].view)
    BY <2>2
  <2> QED BY <1>6, <2>1, <2>2, <2>3, SnapshotsAdded
<1>12. CallsOK(p', summaries, now)
  BY <1>1, <1>3, <1>7 DEF CallsOK, OnlyCall
<1> QED BY <1>5, <1>10, <1>11, <1>12 DEF PlanningInv

(* In one transaction.                                                     *)
LEMMA CreatePlanKeeps ==
    ASSUME PlanningInv, NEW c \in Planner, createPlanWithCapabilityView(c)
    PROVE  PlanningInv'
<1> DEFINE n == Len(plans')
           rec == planningRecord(p[c], "completed", n)
           q == [p[c] EXCEPT !.pc = "created"]
<1>1. DOMAIN p = Planner /\ CallOK(c, p[c], summaries, now)
  BY CallOf
<1>2. /\ p[c].pc = "create" /\ compiles(c)
      /\ plans' = Append(plans, plannedPlan(c))
      /\ snapshots' = snapshots \cup planSnapshots(p[c].view)
      /\ records' = [records EXCEPT ![c] = rec]
      /\ p' = [p EXCEPT ![c] = q]
      /\ UNCHANGED <<todo, summaries, actions, r, refused, now>>
  BY <1>1 DEF createPlanWithCapabilityView
<1>3. plannedPlan(c).view = p[c].view /\ p[c].view.id = c
  BY <1>1, <1>2, PlannedPlanOK
<1>4. rec.status = "completed" /\ rec.plan = n /\ rec.view = c
  <2> HIDE DEF n
  <2> QED BY <1>3 DEF planningRecord
<1>5. CallOK(c, q, summaries, now) /\ q.pc = "created"
  BY <1>1, PcMoves DEF CallPcs, Writing
<1>6. OnlyCall(c, records, records') /\ records'[c] = rec
  <2>1. DOMAIN records = Planner
    BY DEF PlanningInv, RecordsOK
  <2> HIDE DEF rec
  <2> QED BY <1>2, <2>1 DEF OnlyCall
<1> HIDE DEF rec, q, n
<1>7. ASSUME MadeBy(c, plans') = {n}, plans'[n] = plannedPlan(c)
      PROVE  RecordOK(c, rec, plans', q, snapshots', todo.atomic)
  <2>1. planSnapshots(plans'[n].view) \subseteq snapshots'
    BY <1>2, <1>3, <1>7
  <2>2. q.pc \notin Early /\ q.pc \notin Writing \cup {"record", "event", "failed"}
    BY <1>5 DEF Early, Writing
  <2> QED BY <1>4, <1>7, <2>1, <2>2 DEF RecordOK
<1>8. /\ snapshots \subseteq snapshots'
      /\ snapshots' \subseteq snapshots \cup planSnapshots(p[c].view)
  BY <1>2
<1>9. MadeBy(c, plans') = {Len(plans')} /\ plans'[Len(plans')] = plannedPlan(c) =>
         RecordOK(c, records'[c], plans', q, snapshots', todo.atomic)
  BY <1>6, <1>7 DEF n
<1> QED BY <1>2, <1>5, <1>6, <1>8, <1>9, PlanCreated

(* Before its snapshots and its record.                                    *)
LEMMA CreatePlanInMemoryKeeps ==
    ASSUME PlanningInv, NEW c \in Planner, createPlanInMemory(c)
    PROVE  PlanningInv'
<1> DEFINE n == Len(plans')
           q == [p[c] EXCEPT !.pc = "snapshots", !.plan = n]
<1>1. /\ DOMAIN p = Planner /\ CallOK(c, p[c], summaries, now)
      /\ RecordOK(c, records[c], plans, p[c], snapshots, todo.atomic)
  BY CallOf
<1>2. /\ p[c].pc = "create" /\ compiles(c) /\ ~ todo.atomic
      /\ plans' = Append(plans, plannedPlan(c))
      /\ p' = [p EXCEPT ![c] = q]
      /\ UNCHANGED <<todo, snapshots, records, summaries, actions, r, refused, now>>
  BY <1>1 DEF createPlanInMemory
<1>3. plannedPlan(c).view = p[c].view /\ p[c].view.id = c
  BY <1>1, <1>2, PlannedPlanOK
<1> HIDE DEF n
<1>4. /\ DOMAIN q = CallFields /\ q.pc = "snapshots" /\ q.view = p[c].view /\ q.steps = p[c].steps
      /\ q.summary = p[c].summary /\ q.prev = p[c].prev /\ q.at = p[c].at /\ q.plan = n
  BY <1>1 DEF CallOK, CallFields
<1> HIDE DEF q
<1>5. CallOK(c, q, summaries, now)
  <2>1. q.pc \in CallPcs /\ q.pc \notin {"compact", "store"}
    BY <1>4 DEF CallPcs, Writing
  <2> QED BY <1>1, <1>3, <1>4, <2>1 DEF CallOK
<1>6. OnlyCall(c, records, records') /\ records'[c] = records[c]
  BY <1>2 DEF PlanningInv, RecordsOK, OnlyCall
<1>7. ASSUME MadeBy(c, plans') = {n}, plans'[n] = plannedPlan(c)
      PROVE  RecordOK(c, records[c], plans', q, snapshots', todo.atomic)
  <2>1. records[c].status # "completed"
    <3>1. MadeBy(c, plans) = {}
      BY <1>1, <1>2 DEF RecordOK, Early
    <3> QED BY <1>1, <3>1 DEF RecordOK
  <2>2. q.pc \notin Early /\ q.pc \notin {"record", "event", "created"}
    BY <1>4 DEF Early
  <2>3. MadeBy(c, plans') = {q.plan} /\ plans'[q.plan].view = q.view
    BY <1>3, <1>4, <1>7
  <2> QED BY <1>2, <2>1, <2>2, <2>3 DEF RecordOK
<1>8. /\ snapshots \subseteq snapshots'
      /\ snapshots' \subseteq snapshots \cup planSnapshots(p[c].view)
  BY <1>2
<1>9. MadeBy(c, plans') = {Len(plans')} /\ plans'[Len(plans')] = plannedPlan(c) =>
         RecordOK(c, records'[c], plans', q, snapshots', todo.atomic)
  BY <1>6, <1>7 DEF n
<1> QED BY <1>2, <1>5, <1>6, <1>8, <1>9, PlanCreated

(* The plan a call is still writing the rest of.                           *)
LEMMA PlanBeingWritten ==
    ASSUME PlanningInv, NEW c \in Planner, p[c].pc \in Writing
    PROVE  /\ MadeBy(c, plans) = {p[c].plan} /\ p[c].plan \in DOMAIN plans
           /\ plans[p[c].plan].by = c /\ plans[p[c].plan].view = p[c].view
           /\ p[c].view.id = c /\ ViewOK(p[c].view) /\ ~ todo.atomic
<1>1. /\ CallOK(c, p[c], summaries, now)
      /\ RecordOK(c, records[c], plans, p[c], snapshots, todo.atomic)
  BY CallOf
<1>2. MadeBy(c, plans) = {p[c].plan} /\ plans[p[c].plan].view = p[c].view /\ ~ todo.atomic
  BY <1>1 DEF RecordOK
<1>3. p[c].plan \in DOMAIN plans /\ plans[p[c].plan].by = c
  <2>1. p[c].plan \in MadeBy(c, plans)
    BY <1>2
  <2> QED BY <2>1 DEF MadeBy
<1> QED BY <1>1, <1>2, <1>3 DEF CallOK

LEMMA PersistViewKeeps ==
    ASSUME PlanningInv, NEW c \in Planner, persistCapabilityViewInStore(c)
    PROVE  PlanningInv'
<1> DEFINE all == planSnapshots(p[c].view)
           q == [p[c] EXCEPT !.pc = "record"]
<1>1. /\ DOMAIN p = Planner /\ CallOK(c, p[c], summaries, now)
      /\ RecordOK(c, records[c], plans, p[c], snapshots, todo.atomic)
  BY CallOf
<1>2. /\ p[c].pc = "snapshots"
      /\ UNCHANGED <<todo, plans, records, summaries, actions, r, refused, now>>
  BY DEF persistCapabilityViewInStore
<1>3. /\ MadeBy(c, plans) = {p[c].plan} /\ p[c].plan \in DOMAIN plans
      /\ plans[p[c].plan].by = c /\ plans[p[c].plan].view = p[c].view
      /\ p[c].view.id = c /\ ViewOK(p[c].view) /\ ~ todo.atomic
  BY <1>2, PlanBeingWritten DEF Writing
<1>4. /\ OnlyCall(c, records, records') /\ SnapshotsOK(snapshots, plans)
      /\ WorkOK(todo') /\ todo'.atomic = todo.atomic
  BY <1>2 DEF PlanningInv, RecordsOK, OnlyCall
<1>5. ASSUME NEW s \in all \ snapshots, snapshots' = snapshots \cup {s}, UNCHANGED p
      PROVE  PlanningInv'
  <2>1. snapshots \subseteq snapshots' /\ snapshots' \subseteq snapshots \cup all
    BY <1>5
  <2>2. SnapshotsOK(snapshots', plans)
    BY <1>3, <1>4, <2>1, SnapshotsAdded
  <2>3. RecordOK(c, records'[c], plans, p[c], snapshots', todo.atomic)
    BY <1>1, <1>2, <2>1, RecordWider
  <2>4. p'[c] = p[c] /\ OnlyCall(c, p, p')
    BY <1>1, <1>5 DEF OnlyCall
  <2> QED BY <1>1, <1>2, <1>4, <2>1, <2>2, <2>3, <2>4, PlannerWrites
<1>6. ASSUME all \subseteq snapshots, p' = [p EXCEPT ![c].pc = "record"], UNCHANGED snapshots
      PROVE  PlanningInv'
  <2>1. p' = [p EXCEPT ![c] = q]
    BY <1>1, <1>6
  <2>2. CallOK(c, q, summaries, now) /\ q.pc = "record"
    BY <1>1, <1>3, PcMoves DEF CallPcs, Writing
  <2>3. q.view = p[c].view /\ q.plan = p[c].plan
    BY <1>1 DEF CallOK, CallFields
  <2> HIDE DEF q
  <2>4. RecordOK(c, records[c], plans, q, snapshots, todo.atomic)
    <3>1. q.pc \notin Early /\ q.pc \notin {"event", "created"}
      BY <2>2 DEF Early
    <3>2. p[c].pc \in Writing
      BY <1>2 DEF Writing
    <3> QED BY <1>1, <1>3, <1>6, <2>2, <2>3, <3>1, <3>2 DEF RecordOK
  <2> QED BY <1>2, <1>4, <1>6, <2>1, <2>2, <2>4, PlannerMoves
<1>7. \/ \E s \in all \ snapshots : snapshots' = snapshots \cup {s} /\ UNCHANGED p
      \/ all \subseteq snapshots /\ p' = [p EXCEPT ![c].pc = "record"] /\ UNCHANGED snapshots
  <2> HIDE DEF all
  <2> QED BY DEF persistCapabilityViewInStore, all
<1> QED BY <1>5, <1>6, <1>7

LEMMA CreateRecordKeeps ==
    ASSUME PlanningInv, NEW c \in Planner, createPlanningRecord(c)
    PROVE  PlanningInv'
<1> DEFINE rec == planningRecord(p[c], "completed", p[c].plan)
           q == [p[c] EXCEPT !.pc = "event"]
<1>1. /\ DOMAIN p = Planner /\ CallOK(c, p[c], summaries, now)
      /\ RecordOK(c, records[c], plans, p[c], snapshots, todo.atomic)
  BY CallOf
<1>2. /\ p[c].pc = "record" /\ p' = [p EXCEPT ![c] = q] /\ records' = [records EXCEPT ![c] = rec]
      /\ UNCHANGED <<todo, plans, snapshots, summaries, actions, r, refused, now>>
  BY <1>1 DEF createPlanningRecord
<1>3. /\ MadeBy(c, plans) = {p[c].plan} /\ plans[p[c].plan].view = p[c].view
      /\ p[c].view.id = c /\ ~ todo.atomic
  BY <1>2, PlanBeingWritten DEF Writing
<1>4. rec.status = "completed" /\ rec.plan = p[c].plan /\ rec.view = c
  BY <1>3 DEF planningRecord
<1>5. CallOK(c, q, summaries, now) /\ q.pc = "event"
  BY <1>1, PcMoves DEF CallPcs, Writing
<1>6. OnlyCall(c, records, records') /\ records'[c] = rec
  <2>1. DOMAIN records = Planner
    BY DEF PlanningInv, RecordsOK
  <2> HIDE DEF rec
  <2> QED BY <1>2, <2>1 DEF OnlyCall
<1> HIDE DEF rec, q
<1>7. RecordOK(c, rec, plans, q, snapshots, todo.atomic)
  <2>1. planSnapshots(p[c].view) \subseteq snapshots
    BY <1>1, <1>2 DEF RecordOK
  <2>2. q.pc \notin Early /\ q.pc \notin Writing \cup {"record"}
    BY <1>5 DEF Early, Writing
  <2> QED BY <1>3, <1>4, <1>5, <2>1, <2>2 DEF RecordOK
<1>8. SnapshotsOK(snapshots, plans) /\ WorkOK(todo') /\ todo'.atomic = todo.atomic
  BY <1>2 DEF PlanningInv
<1>9. p'[c] = q /\ OnlyCall(c, p, p')
  BY <1>1, <1>2 DEF OnlyCall
<1> QED BY <1>2, <1>5, <1>6, <1>7, <1>8, <1>9, PlannerWrites

LEMMA EmitKeeps ==
    ASSUME PlanningInv, NEW c \in Planner, emitPlanGenerated(c)
    PROVE  PlanningInv'
<1> DEFINE q == [p[c] EXCEPT !.pc = "created"]
<1>1. /\ DOMAIN p = Planner /\ CallOK(c, p[c], summaries, now)
      /\ RecordOK(c, records[c], plans, p[c], snapshots, todo.atomic)
  BY CallOf
<1>2. /\ p[c].pc = "event" /\ p' = [p EXCEPT ![c] = q]
      /\ UNCHANGED <<todo, plans, snapshots, records, summaries, actions, r, refused, now>>
  BY <1>1 DEF emitPlanGenerated
<1>3. CallOK(c, q, summaries, now) /\ q.pc = "created"
  BY <1>1, PcMoves DEF CallPcs, Writing
<1> HIDE DEF q
<1>4. RecordOK(c, records[c], plans, q, snapshots, todo.atomic)
  <2>1. q.pc \notin Early /\ q.pc \notin Writing \cup {"record", "event", "failed"}
    BY <1>3 DEF Early, Writing
  <2> QED BY <1>1, <1>2, <2>1 DEF RecordOK
<1>5. WorkOK(todo') /\ todo'.atomic = todo.atomic
  BY <1>2 DEF PlanningInv
<1> QED BY <1>2, <1>3, <1>4, <1>5, PlannerMoves

(* A program is compiled or refused.                                       *)
LEMMA ProgramKeeps ==
    ASSUME PlanningInv, CreatePlanFromProgram
    PROVE  PlanningInv'
<1> DEFINE input == Head(todo.programs)
           made == compile(input.program, input.path, EmptyView)
           plan == [by |-> NoView, view |-> EmptyView, steps |-> made.steps,
                    path |-> input.path, program |-> input.program]
<1>1. /\ todo.programs # <<>> /\ todo' = [todo EXCEPT !.programs = Tail(@)]
      /\ UNCHANGED <<registry, snapshots, records, summaries, actions, p, r, now>>
      /\ IF made.err = "none" THEN plans' = Append(plans, plan) /\ UNCHANGED refused
         ELSE refused' = refused \cup {[input |-> input, err |-> made.err]} /\ UNCHANGED plans
  BY DEF CreatePlanFromProgram
<1>2. WorkOK(todo)
  BY DEF PlanningInv
<1>3. /\ IsSequence(Tail(todo.programs))
      /\ \A i \in DOMAIN Tail(todo.programs) : \E j \in DOMAIN todo.programs :
            Tail(todo.programs)[i] = todo.programs[j]
      /\ 1 \in DOMAIN todo.programs /\ input = todo.programs[1]
  BY <1>1, <1>2, TailIsSequence DEF WorkOK
<1>4. input.path \in Path /\ IsProgram(input.program)
  BY <1>2, <1>3 DEF WorkOK
<1>5. WorkOK(todo') /\ todo'.atomic = todo.atomic
  <2>1. /\ DOMAIN todo' = WorkFields /\ todo'.programs = Tail(todo.programs)
        /\ todo'.atomic = todo.atomic
    BY <1>1, <1>2 DEF WorkOK, WorkFields
  <2>2. \A i \in DOMAIN Tail(todo.programs) :
           /\ Tail(todo.programs)[i].path \in Path
           /\ IsProgram(Tail(todo.programs)[i].program)
    BY <1>2, <1>3 DEF WorkOK
  <2> QED BY <1>2, <1>3, <2>1, <2>2 DEF WorkOK
<1> HIDE DEF input
<1>6. /\ made.err = "cycle" => Cyclic(input.program)
      /\ made.err = "none" =>
            /\ CompiledFrom(input.program, input.path, made.steps)
            /\ \A k \in DOMAIN made.steps :
                  /\ made.steps[k].status = "pending"
                  /\ made.steps[k].view = IF input.path = "runtime" THEN NoView ELSE EmptyView.id
  BY <1>4, CompileFacts
<1> HIDE DEF made
<1>7. CASE made.err = "none"
  <2>1. plans' = Append(plans, plan) /\ UNCHANGED refused
    BY <1>1, <1>7
  <2>2. /\ DOMAIN plan = PlanFields /\ plan.by = NoView /\ plan.view = EmptyView
        /\ plan.steps = made.steps /\ plan.path = input.path /\ plan.program = input.program
    BY DEF PlanFields
  <2> HIDE DEF plan
  <2>3. PlanOK(plan) /\ Unrun(plan)
    <3>1. CompiledFrom(plan.program, plan.path, plan.steps)
      BY <1>6, <1>7, <2>2
    <3>2. IsSequence(plan.steps) /\ \A k \in DOMAIN plan.steps : DOMAIN plan.steps[k] = StepFields
      BY <3>1, CompiledSteps
    <3>3. \A k \in DOMAIN plan.steps :
             plan.steps[k].view = plan.view.id /\ plan.steps[k].status = "pending"
      BY <1>6, <1>7, <2>2 DEF EmptyView
    <3>4. InTurn(plan.steps)
      BY <3>3 DEF InTurn
    <3>5. plan.by \notin Planner
      BY <2>2, ViewAssumption
    <3> QED BY <2>2, <3>1, <3>2, <3>3, <3>4, <3>5 DEF PlanOK, Unrun
  <2>4. /\ PlansOK(plans) /\ RecordsOK(records, plans, p, snapshots, todo.atomic)
        /\ SnapshotsOK(snapshots, plans) /\ ActionsOK(actions, plans, now, todo.atomic)
        /\ RunOK(r, plans, now) /\ BoundOK(r, plans, actions, todo.atomic)
    BY DEF PlanningInv
  <2>5. /\ PlansOK(plans') /\ ActionsOK(actions, plans', now, todo.atomic)
        /\ RunOK(r, plans', now) /\ BoundOK(r, plans', actions, todo.atomic)
        /\ Added(plans, plan, plans')
    BY <2>1, <2>3, <2>4, PlanAdded, Zenon
  <2>6. /\ RecordsOK(records, plans', p, snapshots, todo.atomic)
        /\ SnapshotsOK(snapshots, plans')
    BY <2>2, <2>4, <2>5, ProgramPlanAdded, Zenon
  <2> QED BY <1>1, <1>5, <2>1, <2>5, <2>6 DEF PlanningInv
<1>8. CASE made.err # "none"
  <2>1. refused' = refused \cup {[input |-> input, err |-> made.err]} /\ UNCHANGED plans
    BY <1>1, <1>8
  <2>2. RefusedOK(refused')
    <3>1. RefusedOK(refused)
      BY DEF PlanningInv
    <3> QED BY <1>6, <2>1, <3>1 DEF RefusedOK
  <2> QED BY <1>1, <1>5, <2>1, <2>2 DEF PlanningInv
<1> QED BY <1>7, <1>8

----------------------------------------------------------------------------
(* The registry and the clock.                                             *)

LEMMA RegisterKeeps ==
    ASSUME PlanningInv, NEW v \in Version, NEW def \in Def, NEW reg, Register(v, def, reg)
    PROVE  PlanningInv'
<1>1. WorkOK(todo') /\ todo'.atomic = todo.atomic
  BY WorkUnchanged DEF Register, PlanningInv
<1> QED BY <1>1 DEF Register, PlanningInv

LEMMA TickKeeps ==
    ASSUME PlanningInv, Tick
    PROVE  PlanningInv'
<1>1. WorkOK(todo') /\ todo'.atomic = todo.atomic
  BY WorkUnchanged DEF Tick, PlanningInv
<1>2. /\ SummariesOK(summaries, now) /\ ActionsOK(actions, plans, now, todo.atomic)
      /\ RunOK(r, plans, now) /\ CallsOK(p, summaries, now)
      /\ now' = now + 1 /\ now \in Nat
  BY DEF Tick, PlanningInv, SummariesOK
<1>3. now' \in Nat /\ \A x \in Nat : x <= now => x <= now'
  BY <1>2
<1>4. SummariesOK(summaries, now')
  BY <1>2, <1>3 DEF SummariesOK
<1>5. ActionsOK(actions, plans, now', todo.atomic)
  <2>1. \A i \in DOMAIN actions : actions[i].at \in Nat /\ actions[i].at <= now'
    BY <1>2, <1>3 DEF ActionsOK
  <2> QED BY <1>2, <2>1 DEF ActionsOK
<1>6. RunOK(r, plans, now')
  <2>1. r.at \in Nat /\ r.at <= now'
    BY <1>2, <1>3 DEF RunOK
  <2> QED BY <1>2, <2>1 DEF RunOK
<1>7. CallsOK(p, summaries, now')
  <2>1. /\ IsSequence(summaries) /\ Len(summaries) \in Nat /\ Len(summaries) <= Len(summaries)
        /\ now <= now'
    BY <1>2, SequenceFacts DEF SummariesOK
  <2> QED BY <1>2, <1>3, <2>1, CallWider
<1> QED BY <1>1, <1>4, <1>5, <1>6, <1>7 DEF Tick, PlanningInv

----------------------------------------------------------------------------
(* The runner.                                                             *)

LEMMA RunnerMoves ==
    ASSUME PlanningInv, RunOK(r', plans, now), BoundOK(r', plans, actions, todo.atomic),
           WorkOK(todo'), todo'.atomic = todo.atomic,
           UNCHANGED <<plans, snapshots, records, summaries, actions, p, refused, now>>
    PROVE  PlanningInv'
BY DEF PlanningInv

LEMMA NoRunForm ==
    /\ DOMAIN NoRun = RunFields /\ NoRun.pc = "idle" /\ NoRun.last = "none" /\ NoRun.at = 0
    /\ NoRun.artifact \in BOOLEAN
BY DEF NoRun, RunFields

(* The runner has nothing to do, or the session is over.                   *)
LEMMA NoRunOK ==
    ASSUME NEW qs, NEW acts, NEW t \in Nat, NEW atomic,
           NEW run, run = NoRun \/ \E pc \in {"idle", "over"} : run = [NoRun EXCEPT !.pc = pc]
    PROVE  RunOK(run, qs, t) /\ BoundOK(run, qs, acts, atomic)
<1>1. /\ DOMAIN run = RunFields /\ run.pc \in {"idle", "over"} /\ run.last = "none" /\ run.at = 0
      /\ run.artifact \in BOOLEAN
  BY NoRunForm DEF RunFields
<1>2. run.pc \notin Running /\ run.pc \notin {"persist", "invoke"}
  BY <1>1 DEF Running
<1> QED BY <1>1, <1>2 DEF RunOK, BoundOK

LEMMA SelectStepKeeps ==
    ASSUME PlanningInv, SelectStep
    PROVE  PlanningInv'
<1> DEFINE n == Len(plans)
<1>1. PICK k \in runnable(Last(plans).steps) :
         r' = [NoRun EXCEPT !.pc = "resolve", !.plan = Len(plans), !.step = k]
  BY DEF SelectStep
<1>2. /\ plans # <<>> /\ UNCHANGED <<todo, plans, snapshots, records, summaries, actions, p,
                                     refused, now>>
  BY DEF SelectStep
<1>3. PlansOK(plans) /\ WorkOK(todo) /\ now \in Nat
  BY DEF PlanningInv, SummariesOK
<1>4. n \in DOMAIN plans /\ Last(plans) = plans[n]
  <2>1. IsSequence(plans)
    BY <1>3 DEF PlansOK
  <2>2. n \in Nat /\ DOMAIN plans = 1 .. n /\ plans \in Seq(ToSet(plans))
    BY <2>1, SequenceFacts DEF IsSequence
  <2> DEFINE X == ToSet(plans)
  <2> HIDE DEF X
  <2>3. n # 0
    BY <1>2, <2>2 DEF X
  <2> QED BY <2>2, <2>3 DEF Last
<1> DEFINE steps == plans[n].steps
<1>5. PlanOK(plans[n])
  BY <1>3, <1>4 DEF PlansOK
<1>6. /\ IsSequence(steps) /\ InTurn(steps) /\ Len(steps) \in Nat /\ DOMAIN steps = 1 .. Len(steps)
  BY <1>5, SequenceFacts DEF PlanOK
<1>7. /\ DOMAIN r' = RunFields /\ r'.pc = "resolve" /\ r'.plan = n /\ r'.step = k
      /\ r'.last = "none" /\ r'.at = 0 /\ r'.artifact \in BOOLEAN
  BY <1>1, NoRunForm DEF RunFields
<1> HIDE DEF n
<1>8. /\ k \in DOMAIN steps
      /\ \/ steps[k].status = "pending" /\ \A j \in 1 .. k - 1 : steps[j].status # "pending"
         \/ steps[k].status = "failed"
  BY <1>1, <1>4 DEF runnable
<1>9. ASSUME NEW j \in DOMAIN steps, j < k PROVE steps[j].status # "pending"
  <2>1. j \in 1 .. k - 1
    BY <1>6, <1>8, <1>9
  <2>2. CASE steps[k].status = "failed"
    BY <1>6, <1>8, <1>9, <2>2 DEF InTurn
  <2> QED BY <1>8, <2>1, <2>2
<1>10. RunOK(r', plans, now)
  BY <1>3, <1>4, <1>7, <1>8, <1>9 DEF RunOK
<1>11. BoundOK(r', plans, actions, todo.atomic)
  BY <1>7 DEF BoundOK
<1> QED BY <1>2, <1>3, <1>10, <1>11, RunnerMoves

(* The step to be run, and its plan.                                       *)
LEMMA StepToRun ==
    ASSUME PlanningInv, r.pc \in Running
    PROVE  /\ PlansOK(plans) /\ RunOK(r, plans, now)
           /\ r.plan \in DOMAIN plans /\ r.step \in DOMAIN plans[r.plan].steps
           /\ PlanOK(plans[r.plan]) /\ r.last # "unbound"
           /\ \A j \in DOMAIN plans[r.plan].steps :
                j < r.step => plans[r.plan].steps[j].status # "pending"
<1>1. PlansOK(plans) /\ RunOK(r, plans, now)
  BY DEF PlanningInv
<1>2. r.plan \in DOMAIN plans /\ r.step \in DOMAIN plans[r.plan].steps
  BY <1>1 DEF RunOK
<1> QED BY <1>1, <1>2 DEF RunOK, PlansOK

(* The runs of a node that a binding may be given.                         *)
FoundRuns(acts, b) ==
    {i \in DOMAIN acts : acts[i].node = b.ref /\ (b.kind = "artifact" => acts[i].artifact)}

LEMMA BindingValue ==
    ASSUME NEW step, NEW b
    PROVE  /\ resolveProgramBindingValue(step, b) \in {{0}, preferred(step, FoundRuns(actions, b))}
           /\ b.kind # "materialize" =>
                 resolveProgramBindingValue(step, b) = preferred(step, FoundRuns(actions, b))
<1>1. b.kind = "artifact" => listArtifactRecords(b.ref) = FoundRuns(actions, b)
  BY DEF listArtifactRecords, programOutputRefMatchesArtifact, FoundRuns
<1>2. b.kind # "artifact" => listActionRecords(b.ref) = FoundRuns(actions, b)
  BY DEF listActionRecords, programOutputRefMatchesStep, FoundRuns
<1>3. resolveProgramOutputRef(step, b) = preferred(step, FoundRuns(actions, b))
  BY <1>1, <1>2 DEF resolveProgramOutputRef, resolveProgramArtifactHandle, findProgramOutputAction
<1>4. resolveProgramBindingValue(step, b) =
         IF b.kind = "materialize" THEN {0} ELSE preferred(step, FoundRuns(actions, b))
  BY <1>3 DEF resolveProgramBindingValue, materializeProgramAttachment
<1> QED BY <1>4

(* A binding to an ancestor that has no value: the ancestor's steps have   *)
(* been settled and left nothing.                                          *)
LEMMA AncestorLeftNothing ==
    ASSUME PlanningInv, r.pc \in Running, plans[r.plan].path # "planner", NEW b,
           Ancestor(plans[r.plan].program, Step(r).node, b.ref),
           resolveProgramBindingValue(Step(r), b) = {}
    PROVE  NothingLeft(actions, b, r.plan, plans[r.plan].steps, todo.atomic)
<1> DEFINE steps == plans[r.plan].steps
           program == plans[r.plan].program
<1>1. /\ r.plan \in DOMAIN plans /\ r.step \in DOMAIN steps /\ PlanOK(plans[r.plan])
      /\ \A j \in DOMAIN steps : j < r.step => steps[j].status # "pending"
  BY StepToRun
<1>2. CompiledFrom(program, plans[r.plan].path, steps)
  BY <1>1 DEF PlanOK
<1>3. PICK S \in SUBSET Ids(program) :
        /\ Step(r).node \in S /\ b.ref \in S /\ Step(r).node # b.ref
        /\ \A x \in S \ {b.ref} : \E d \in S \ {x} : Listed(nodesByID(program, x), d) > 0
  BY DEF Ancestor
<1>4. Step(r) = steps[r.step]
  BY DEF Step
<1>5. \A j \in StepsOf(steps, b.ref) : j \in DOMAIN steps /\ j < r.step
  <2> HIDE DEF steps, program
  <2>1. steps[r.step].node \in S /\ steps[r.step].node # b.ref
    BY <1>3, <1>4
  <2> QED BY <1>1, <1>2, <1>3, <2>1, AncestorsFirst
<1>6. ActionsOK(actions, plans, now, todo.atomic) /\ now \in Nat
  BY DEF PlanningInv, SummariesOK
<1>7. FoundRuns(actions, b) = {}
  <2> SUFFICES ASSUME FoundRuns(actions, b) # {} PROVE FALSE
    OBVIOUS
  <2> DEFINE found == FoundRuns(actions, b)
  <2>1. \A i \in found : actions[i].at \in Nat /\ actions[i].at <= now
    BY <1>6 DEF ActionsOK, FoundRuns
  <2> HIDE DEF found
  <2>2. preferred(Step(r), found) # {}
    BY <1>6, <2>1, PreferredExists DEF found
  <2> QED BY <2>2, BindingValue DEF found
<1> SUFFICES ASSUME NEW k \in StepsOf(steps, b.ref)
             PROVE  /\ steps[k].status # "pending"
                    /\ Runs(actions, b, r.plan, k) = {}
                    /\ b.kind = "artifact" \/ steps[k].status = "failed" \/ ~ todo.atomic
  BY DEF NothingLeft
<1>8. k \in DOMAIN steps /\ steps[k].status # "pending" /\ steps[k].node = b.ref
  BY <1>1, <1>5 DEF StepsOf
<1>9. \A a \in DOMAIN actions : actions[a].plan = r.plan /\ actions[a].step = k =>
         actions[a].node = b.ref
  BY <1>6, <1>8 DEF ActionsOK
<1>10. Runs(actions, b, r.plan, k) = {}
  BY <1>7, <1>9 DEF Runs, FoundRuns
<1>11. ASSUME b.kind # "artifact" PROVE steps[k].status = "failed" \/ ~ todo.atomic
  <2>1. ~ \E a \in DOMAIN actions : actions[a].plan = r.plan /\ actions[a].step = k
    BY <1>10, <1>11 DEF Runs
  <2> QED BY <1>1, <1>6, <1>8, <2>1 DEF ActionsOK
<1> QED BY <1>8, <1>10, <1>11

(* What a binding is given is as good as any run on the step's own target. *)
LEMMA GivenRun ==
    ASSUME NEW step, NEW b, NEW g \in resolveProgramBindingValue(step, b), g # 0,
           NEW j \in FoundRuns(actions, b), actions[j].target = step.target
    PROVE  /\ actions[j].at <= actions[g].at
           /\ step.target \in {NoTarget, actions[g].target}
<1> DEFINE found == FoundRuns(actions, b)
<1>1. resolveProgramBindingValue(step, b) \in {{0}, preferred(step, found)}
  BY BindingValue
<1>2. j \in found
  OBVIOUS
<1> HIDE DEF found
<1>3. g \in preferred(step, found)
  BY <1>1
<1>4. \/ score(step, actions[j]) < score(step, actions[g])
      \/ score(step, actions[j]) = score(step, actions[g]) /\ actions[j].at <= actions[g].at
  BY <1>2, <1>3 DEF preferred
<1>5. CASE step.target = NoTarget
  <2>1. score(step, actions[j]) = 0 /\ score(step, actions[g]) = 0
    BY <1>5 DEF score
  <2> QED BY <1>4, <1>5, <2>1
<1>6. CASE step.target # NoTarget
  <2>1. score(step, actions[j]) = 10
    BY <1>6 DEF score
  <2>2. score(step, actions[g]) \in {0, 10, -5}
    BY ScoreType
  <2>3. score(step, actions[g]) = 10 /\ actions[j].at <= actions[g].at
    BY <1>4, <2>1, <2>2
  <2>4. actions[g].target = step.target
    BY <2>3 DEF score
  <2> QED BY <2>3, <2>4
<1> QED BY <1>5, <1>6

LEMMA ResolveBindingsKeeps ==
    ASSUME PlanningInv, ResolveBindings
    PROVE  PlanningInv'
<1> DEFINE step == Step(r)
           binds == step.binds
<1>1. /\ r.pc = "resolve"
      /\ UNCHANGED <<todo, plans, snapshots, records, summaries, actions, p, refused, now>>
  BY DEF ResolveBindings
<1>2. /\ RunOK(r, plans, now) /\ r.last # "unbound"
      /\ r.plan \in DOMAIN plans /\ r.step \in DOMAIN plans[r.plan].steps
      /\ \A j \in DOMAIN plans[r.plan].steps :
                j < r.step => plans[r.plan].steps[j].status # "pending"
  BY <1>1, StepToRun DEF Running
<1>3. DOMAIN r = RunFields /\ r.at \in Nat /\ r.at <= now /\ r.artifact \in BOOLEAN
  BY <1>2 DEF RunOK
<1>4. WorkOK(todo') /\ todo'.atomic = todo.atomic
  BY <1>1 DEF PlanningInv
<1>5. ASSUME NEW last, r' = [r EXCEPT !.pc = "idle", !.last = last]
      PROVE  RunOK(r', plans, now)
  <2>1. /\ DOMAIN r' = RunFields /\ r'.at = r.at /\ r'.pc = "idle"
        /\ r'.plan = r.plan /\ r'.step = r.step /\ r'.artifact = r.artifact
    BY <1>3, <1>5 DEF RunFields
  <2>2. r'.pc \notin Running /\ r'.pc # "persist"
    BY <2>1 DEF Running
  <2> QED BY <1>2, <1>3, <2>1, <2>2 DEF RunOK
<1>6. ASSUME NEW last, last # "unbound", r' = [r EXCEPT !.pc = "idle", !.last = last]
      PROVE  BoundOK(r', plans, actions, todo.atomic)
  <2>1. r'.pc = "idle" /\ r'.last = last
    BY <1>3, <1>6 DEF RunFields
  <2> QED BY <1>6, <2>1 DEF BoundOK
<1>7. ASSUME r' = [r EXCEPT !.pc = "idle", !.last = "unbound"],
             NEW i \in DOMAIN binds, resolveProgramBindingValue(step, binds[i]) = {}
      PROVE  BoundOK(r', plans, actions, todo.atomic)
  <2>1. r'.pc = "idle" /\ r'.plan = r.plan /\ r'.step = r.step
    BY <1>3, <1>7 DEF RunFields
  <2>2. r.pc \in Running
    BY <1>1 DEF Running
  <2>3. plans[r.plan].path # "planner" =>
           (Ancestor(plans[r.plan].program, step.node, binds[i].ref) =>
               NothingLeft(actions, binds[i], r.plan, plans[r.plan].steps, todo.atomic))
    BY <1>7, <2>2, AncestorLeftNothing
  <2>4. plans[r.plan].steps[r.step] = step
    BY DEF Step
  <2> HIDE DEF step
  <2> QED BY <2>1, <2>3, <2>4 DEF BoundOK
<1>8. ASSUME NEW bound \in [DOMAIN binds -> 0 .. Len(actions)],
             \A i \in DOMAIN binds : bound[i] \in resolveProgramBindingValue(step, binds[i]),
             r' = [r EXCEPT !.pc = "invoke", !.bound = bound]
      PROVE  RunOK(r', plans, now) /\ BoundOK(r', plans, actions, todo.atomic)
  <2>1. /\ DOMAIN r' = RunFields /\ r'.at = r.at /\ r'.pc = "invoke" /\ r'.last = r.last
        /\ r'.plan = r.plan /\ r'.step = r.step /\ r'.bound = bound /\ r'.artifact = r.artifact
    BY <1>3, <1>8 DEF RunFields
  <2>2. RunOK(r', plans, now)
    BY <1>2, <1>3, <2>1 DEF RunOK
  <2>3. plans[r.plan].steps[r.step] = step
    BY DEF Step
  <2> HIDE DEF step
  <2>4. ASSUME NEW i \in DOMAIN bound, bound[i] # 0, NEW j \in DOMAIN actions,
               actions[j].node = step.binds[i].ref, actions[j].target = step.target,
               j \in Runs(actions, step.binds[i], r.plan, actions[j].step)
        PROVE  /\ actions[j].at <= actions[bound[i]].at
               /\ step.target \in {NoTarget, actions[bound[i]].target}
    <3>1. i \in DOMAIN binds /\ bound[i] \in resolveProgramBindingValue(step, binds[i])
      BY <1>8, <2>4
    <3>2. j \in FoundRuns(actions, binds[i])
      BY <2>4 DEF Runs, FoundRuns
    <3> QED BY <2>4, <3>1, <3>2, GivenRun
  <2>5. BoundOK(r', plans, actions, todo.atomic)
    BY <1>2, <2>1, <2>3, <2>4 DEF BoundOK
  <2> QED BY <2>2, <2>5
<1>9. RunOK(r', plans, now) /\ BoundOK(r', plans, actions, todo.atomic)
  <2> HIDE DEF step
  <2> QED BY <1>5, <1>6, <1>7, <1>8 DEF ResolveBindings, step
<1> QED BY <1>1, <1>4, <1>9, RunnerMoves

LEMMA ResolveForm ==
    ASSUME NEW v
    PROVE  /\ resolve(v).err \in {"none", "not_found", "disabled"}
           /\ resolve(v).err # "none" => resolve(v).def = NoDef
<1> DEFINE x == CHOOSE y \in registryResolve(v) : TRUE
           absent == [err |-> "not_found", version |-> 0, def |-> NoDef]
           disabled == [err |-> "disabled", version |-> 0, def |-> NoDef]
           found == [err |-> "none", version |-> x, def |-> registry[x].def]
<1>1. resolve(v) \in {absent, disabled, found}
  <2> HIDE DEF absent, disabled, found
  <2> QED BY Zenon DEF resolve, absent, disabled, found
<1> HIDE DEF x
<1> QED BY <1>1

(* A pinned step is run with a stored snapshot of its view, or not at all. *)
LEMMA CapabilityFacts ==
    ASSUME NEW step
    PROVE  LET res == resolveCapability(step)
           IN  /\ res.err # "unbound"
               /\ step.view # NoView /\ res.def # NoDef =>
                     \E f \in frozenCapabilityEntryForStep(step) :
                         f.version = res.version /\ f.def = res.def
<1> DEFINE frozen == frozenCapabilityEntryForStep(step)
           failed == [err |-> "drift", version |-> 0, def |-> NoDef]
           f == CHOOSE x \in frozen : TRUE
           res == resolve(f.version)
<1>1. resolveCapability(step) =
        IF step.view = NoView THEN resolve(step.version)
        ELSE IF frozen = {} THEN failed
        ELSE IF res.err = "none" /\ ~ validateFrozenCapabilityResolution(f, res) THEN failed
        ELSE res
  BY Zenon DEF resolveCapability
<1>2. failed.err = "drift" /\ failed.def = NoDef
  OBVIOUS
<1>3. /\ resolve(step.version).err # "unbound" /\ res.err # "unbound"
      /\ res.err # "none" => res.def = NoDef
  BY ResolveForm
<1>4. frozen # {} => f \in frozen
  OBVIOUS
<1>5. validateFrozenCapabilityResolution(f, res) => f.version = res.version /\ f.def = res.def
  BY Zenon DEF validateFrozenCapabilityResolution
<1> HIDE DEF frozen, failed, f, res
<1>6. resolveCapability(step).err # "unbound"
  BY <1>1, <1>2, <1>3
<1>7. ASSUME step.view # NoView, resolveCapability(step).def # NoDef
      PROVE  \E g \in frozen : /\ g.version = resolveCapability(step).version
                               /\ g.def = resolveCapability(step).def
  <2>1. frozen # {} /\ resolveCapability(step) = res
    BY <1>1, <1>2, <1>7
  <2>2. validateFrozenCapabilityResolution(f, res)
    BY <1>1, <1>2, <1>3, <1>7, <2>1
  <2> QED BY <1>4, <1>5, <2>1, <2>2
<1> QED BY <1>6, <1>7 DEF frozen

LEMMA InvokeToolKeeps ==
    ASSUME PlanningInv, InvokeTool
    PROVE  PlanningInv'
<1> DEFINE step == Step(r)
           res == resolveCapability(step)
           view == plans[r.plan].view
<1>1. /\ r.pc = "invoke"
      /\ UNCHANGED <<todo, plans, snapshots, records, summaries, actions, p, refused, now>>
  BY DEF InvokeTool
<1>2. PICK ok \in BOOLEAN, artifact \in BOOLEAN :
         r' = [r EXCEPT !.pc = "persist", !.version = res.version, !.def = res.def,
                        !.ok = ok, !.artifact = artifact, !.at = now, !.last = res.err]
  <2> HIDE DEF res
  <2> QED BY DEF InvokeTool, res
<1>3. /\ RunOK(r, plans, now) /\ PlansOK(plans) /\ PlanOK(plans[r.plan])
      /\ r.plan \in DOMAIN plans /\ r.step \in DOMAIN plans[r.plan].steps
      /\ \A j \in DOMAIN plans[r.plan].steps :
                j < r.step => plans[r.plan].steps[j].status # "pending"
  BY <1>1, StepToRun DEF Running
<1>4. /\ res.err # "unbound"
      /\ step.view # NoView /\ res.def # NoDef =>
            \E f \in frozenCapabilityEntryForStep(step) :
                f.version = res.version /\ f.def = res.def
  BY CapabilityFacts
<1> HIDE DEF res
<1>5. /\ DOMAIN r' = RunFields /\ r'.pc = "persist" /\ r'.plan = r.plan /\ r'.step = r.step
      /\ r'.version = res.version /\ r'.def = res.def /\ r'.at = now /\ r'.last = res.err
      /\ r'.artifact \in BOOLEAN
  BY <1>2, <1>3 DEF RunOK, RunFields
<1>6. Pinned(view, res.version, res.def)
  <2> SUFFICES ASSUME view # EmptyView, res.def # NoDef
               PROVE  [version |-> res.version, def |-> res.def] \in view.entries
    BY DEF Pinned
  <2> DEFINE c == plans[r.plan].by
  <2>1. c \in Planner /\ view.id = c
    BY <1>3 DEF PlanOK
  <2>2. step.view = c
    BY <1>3, <2>1 DEF PlanOK, Step
  <2>3. PICK f \in frozenCapabilityEntryForStep(step) : f.version = res.version /\ f.def = res.def
    BY <1>4, <2>1, <2>2, ViewAssumption
  <2>4. f \in snapshots /\ f.scope = "plan" /\ f.view = c
    BY <2>2, <2>3 DEF frozenCapabilityEntryForStep, listPlanSnapshots
  <2>5. SnapshotsOK(snapshots, plans)
    BY DEF PlanningInv
  <2>6. PICK i \in DOMAIN plans :
           /\ f.view = plans[i].by
           /\ [version |-> f.version, def |-> f.def] \in plans[i].view.entries
    BY <2>4, <2>5 DEF SnapshotsOK
  <2>7. i \in MadeBy(c, plans) /\ r.plan \in MadeBy(c, plans)
    BY <1>3, <2>4, <2>6 DEF MadeBy
  <2>8. i = r.plan
    <3>1. \A a, b \in MadeBy(c, plans) : a = b
      BY <2>1 DEF PlanningInv, RecordsOK, RecordOK
    <3> HIDE DEF c
    <3> QED BY <2>7, <3>1
  <2> QED BY <2>3, <2>6, <2>8
<1>7. now \in Nat /\ WorkOK(todo') /\ todo'.atomic = todo.atomic
  BY <1>1 DEF PlanningInv, SummariesOK
<1>8. RunOK(r', plans, now)
  BY <1>3, <1>4, <1>5, <1>6, <1>7 DEF RunOK
<1>9. BoundOK(r', plans, actions, todo.atomic)
  BY <1>4, <1>5 DEF BoundOK
<1> QED BY <1>1, <1>7, <1>8, <1>9, RunnerMoves

(* The step k of the plan i is written as st.                              *)
Written(qs, i, k, st) ==
    [qs EXCEPT ![i] = [qs[i] EXCEPT !.steps = [qs[i].steps EXCEPT ![k] = st]]]

(* Nothing else changes than the statuses of steps, and only one is set.   *)
SameBut(qs, new, i, k) ==
    /\ DOMAIN new = DOMAIN qs
    /\ \A j \in DOMAIN qs :
          /\ new[j].by = qs[j].by /\ new[j].view = qs[j].view
          /\ DOMAIN new[j].steps = DOMAIN qs[j].steps
          /\ \A l \in DOMAIN qs[j].steps :
                /\ new[j].steps[l].node = qs[j].steps[l].node
                /\ j # i \/ l # k => new[j].steps[l].status = qs[j].steps[l].status

LEMMA StepWritten ==
    ASSUME NEW qs, PlansOK(qs), NEW i \in DOMAIN qs, NEW k \in DOMAIN qs[i].steps, NEW st,
           DOMAIN st = StepFields, st.node = qs[i].steps[k].node,
           st.target = qs[i].steps[k].target, st.verify = qs[i].steps[k].verify,
           st.aggregateVerify = qs[i].steps[k].aggregateVerify,
           st.view = qs[i].steps[k].view, st.status # "pending",
           \A j \in DOMAIN qs[i].steps : j < k => qs[i].steps[j].status # "pending"
    PROVE  PlansOK(Written(qs, i, k, st)) /\ SameBut(qs, Written(qs, i, k, st), i, k)
<1> DEFINE old == qs[i].steps
           steps == [old EXCEPT ![k] = st]
           plan == [qs[i] EXCEPT !.steps = steps]
           new == [qs EXCEPT ![i] = plan]
<1>1. IsSequence(qs) /\ PlanOK(qs[i])
  BY DEF PlansOK
<1>2. IsSequence(old)
  BY <1>1 DEF PlanOK
<1>3. /\ IsSequence(steps) /\ DOMAIN steps = DOMAIN old /\ steps[k] = st
      /\ \A j \in DOMAIN old : j # k => steps[j] = old[j]
  BY <1>2, ExceptIsSequence
<1> HIDE DEF steps
<1>4. /\ DOMAIN plan = PlanFields /\ plan.by = qs[i].by /\ plan.view = qs[i].view
      /\ plan.steps = steps /\ plan.path = qs[i].path /\ plan.program = qs[i].program
  BY <1>1 DEF PlanOK, PlanFields
<1> HIDE DEF plan
<1>5. /\ IsSequence(new) /\ DOMAIN new = DOMAIN qs /\ new[i] = plan
      /\ \A j \in DOMAIN qs : j # i => new[j] = qs[j]
  BY <1>1, ExceptIsSequence
<1>6. Written(qs, i, k, st) = new
  BY DEF Written, plan, steps
<1> HIDE DEF new
<1>7. \A l \in DOMAIN old :
         /\ DOMAIN old[l] = StepFields => DOMAIN steps[l] = StepFields
         /\ steps[l].node = old[l].node /\ steps[l].target = old[l].target
         /\ steps[l].verify = old[l].verify
         /\ steps[l].aggregateVerify = old[l].aggregateVerify
         /\ steps[l].view = old[l].view
  <2> TAKE l \in DOMAIN old
  <2>1. CASE l = k
    BY <1>3, <2>1
  <2>2. CASE l # k
    BY <1>3, <2>2
  <2> QED BY <2>1, <2>2
<1>8. InTurn(steps)
  <2> SUFFICES ASSUME NEW j \in DOMAIN old, NEW l \in DOMAIN old, j < l,
                      steps[l].status # "pending"
               PROVE  steps[j].status # "pending"
    BY <1>3 DEF InTurn
  <2>1. CASE j = k
    BY <1>3, <2>1
  <2>2. CASE j # k /\ l = k
    BY <1>3, <2>2
  <2>3. CASE j # k /\ l # k
    <3>1. old[l].status # "pending" /\ steps[j] = old[j]
      BY <1>3, <2>3
    <3>2. InTurn(old)
      BY <1>1 DEF PlanOK
    <3> QED BY <3>1, <3>2 DEF InTurn
  <2> QED BY <2>1, <2>2, <2>3
<1>9. PlanOK(plan)
  <2>1. /\ \A l \in DOMAIN old : DOMAIN old[l] = StepFields /\ old[l].view = qs[i].view.id
        /\ qs[i].by \in Planner \cup {NoView}
        /\ qs[i].by \in Planner => qs[i].path = "planner" /\ qs[i].view.id = qs[i].by
        /\ qs[i].by = NoView =>
              qs[i].view = EmptyView /\ CompiledFrom(qs[i].program, qs[i].path, old)
    BY <1>1 DEF PlanOK
  <2>2. qs[i].by = NoView => CompiledFrom(qs[i].program, qs[i].path, steps)
    BY <1>3, <1>7, <2>1, CompiledKept
  <2>3. \A l \in DOMAIN steps : DOMAIN steps[l] = StepFields /\ steps[l].view = plan.view.id
    BY <1>3, <1>4, <1>7, <2>1
  <2> QED BY <1>3, <1>4, <1>8, <2>1, <2>2, <2>3 DEF PlanOK
<1>10. PlansOK(new)
  <2>1. \A j \in DOMAIN qs : PlanOK(qs[j])
    BY DEF PlansOK
  <2> QED BY <1>5, <1>9, <2>1 DEF PlansOK
<1>11. SameBut(qs, new, i, k)
  <2> SUFFICES ASSUME NEW j \in DOMAIN qs
               PROVE  /\ new[j].by = qs[j].by /\ new[j].view = qs[j].view
                      /\ DOMAIN new[j].steps = DOMAIN qs[j].steps
                      /\ \A l \in DOMAIN qs[j].steps :
                            /\ new[j].steps[l].node = qs[j].steps[l].node
                            /\ j # i \/ l # k => new[j].steps[l].status = qs[j].steps[l].status
    BY <1>5 DEF SameBut
  <2>1. CASE j = i
    <3>1. new[j] = plan
      BY <1>5, <2>1
    <3> QED BY <1>3, <1>4, <1>7, <2>1, <3>1
  <2>2. CASE j # i
    BY <1>5, <2>2
  <2> QED BY <2>1, <2>2
<1> QED BY <1>6, <1>10, <1>11

(* The record of a run of the step k of the plan i.                        *)
ActionOf(act, qs, i, k, t) ==
    /\ act.at \in Nat /\ act.at <= t /\ act.artifact \in BOOLEAN
    /\ act.plan = i /\ act.step = k /\ act.node = qs[i].steps[k].node
    /\ Pinned(qs[i].view, act.version, act.def)

(* The step is settled, with a record of the run or without.               *)
LEMMA ActionsKept ==
    ASSUME NEW acts, NEW qs, NEW t, NEW atomic, ActionsOK(acts, qs, t, atomic),
           NEW i \in DOMAIN qs, NEW k \in DOMAIN qs[i].steps, NEW new, SameBut(qs, new, i, k),
           NEW more, IsSequence(more),
           \A a \in DOMAIN acts : a \in DOMAIN more /\ more[a] = acts[a],
           \A a \in DOMAIN more : a \in DOMAIN acts \/ ActionOf(more[a], qs, i, k, t),
           \/ new[i].steps[k].status = "failed" \/ ~ atomic
           \/ \E a \in DOMAIN more : ActionOf(more[a], qs, i, k, t)
    PROVE  ActionsOK(more, new, t, atomic)
<1>1. /\ DOMAIN new = DOMAIN qs
      /\ \A j \in DOMAIN qs :
          /\ new[j].view = qs[j].view
          /\ DOMAIN new[j].steps = DOMAIN qs[j].steps
          /\ \A l \in DOMAIN qs[j].steps :
                /\ new[j].steps[l].node = qs[j].steps[l].node
                /\ j # i \/ l # k => new[j].steps[l].status = qs[j].steps[l].status
  BY DEF SameBut
<1>2. ASSUME NEW a \in DOMAIN more
      PROVE  /\ more[a].at \in Nat /\ more[a].at <= t /\ more[a].artifact \in BOOLEAN
             /\ more[a].plan \in DOMAIN new /\ more[a].step \in DOMAIN new[more[a].plan].steps
             /\ more[a].node = new[more[a].plan].steps[more[a].step].node
             /\ Pinned(new[more[a].plan].view, more[a].version, more[a].def)
  <2>1. CASE a \in DOMAIN acts
    <3>1. more[a] = acts[a]
      BY <2>1
    <3>2. /\ acts[a].at \in Nat /\ acts[a].at <= t /\ acts[a].artifact \in BOOLEAN
          /\ acts[a].plan \in DOMAIN qs /\ acts[a].step \in DOMAIN qs[acts[a].plan].steps
          /\ acts[a].node = qs[acts[a].plan].steps[acts[a].step].node
          /\ Pinned(qs[acts[a].plan].view, acts[a].version, acts[a].def)
      BY <2>1 DEF ActionsOK
    <3> QED BY <1>1, <3>1, <3>2
  <2>2. CASE ActionOf(more[a], qs, i, k, t)
    BY <1>1, <2>2 DEF ActionOf
  <2> QED BY <2>1, <2>2
<1>3. ASSUME NEW j \in DOMAIN new, NEW l \in DOMAIN new[j].steps,
             new[j].steps[l].status # "pending"
      PROVE  \/ new[j].steps[l].status = "failed" \/ ~ atomic
             \/ \E a \in DOMAIN more : more[a].plan = j /\ more[a].step = l
  <2>1. CASE j = i /\ l = k
    BY <2>1 DEF ActionOf
  <2>2. CASE j # i \/ l # k
    <3>1. /\ j \in DOMAIN qs /\ l \in DOMAIN qs[j].steps
          /\ new[j].steps[l].status = qs[j].steps[l].status
      BY <1>1, <2>2
    <3>2. \/ qs[j].steps[l].status = "failed" \/ ~ atomic
          \/ \E a \in DOMAIN acts : acts[a].plan = j /\ acts[a].step = l
      BY <1>3, <3>1 DEF ActionsOK
    <3> QED BY <3>1, <3>2
  <2> QED BY <2>1, <2>2
<1> QED BY <1>2, <1>3 DEF ActionsOK

LEMMA WrittenForm ==
    ASSUME NEW qs, NEW i \in DOMAIN qs, "steps" \in DOMAIN qs[i], NEW k \in DOMAIN qs[i].steps,
           DOMAIN qs[i].steps[k] = StepFields, NEW status
    PROVE  [qs EXCEPT ![i].steps[k].status = status, ![i].steps[k].attempt = @ + 1] =
           Written(qs, i, k, [qs[i].steps[k] EXCEPT !.status = status,
                                                    !.attempt = qs[i].steps[k].attempt + 1])
BY DEF Written, StepFields

(* The step that is run is settled, and the runner is done with it.        *)
LEMMA StepSettled ==
    ASSUME PlanningInv, r.pc \in Running, NEW status \in {"completed", "failed"},
           settleStep(status), IsSequence(actions'),
           \A a \in DOMAIN actions : a \in DOMAIN actions' /\ actions'[a] = actions[a],
           \A a \in DOMAIN actions' :
               a \in DOMAIN actions \/ ActionOf(actions'[a], plans, r.plan, r.step, now),
           \/ status = "failed" \/ ~ todo.atomic
           \/ \E a \in DOMAIN actions' : ActionOf(actions'[a], plans, r.plan, r.step, now),
           snapshots \subseteq snapshots', \A s \in snapshots' : s.scope = "plan" => s \in snapshots,
           r' = NoRun \/ \E pc \in {"idle", "over"} : r' = [NoRun EXCEPT !.pc = pc],
           WorkOK(todo'), todo'.atomic = todo.atomic,
           UNCHANGED <<records, summaries, p, refused, now>>
    PROVE  PlanningInv'
<1> DEFINE i == r.plan
           k == r.step
           old == plans[i].steps[k]
           st == [old EXCEPT !.status = status, !.attempt = old.attempt + 1]
<1>1. /\ PlansOK(plans) /\ i \in DOMAIN plans /\ k \in DOMAIN plans[i].steps
      /\ PlanOK(plans[i])
      /\ \A j \in DOMAIN plans[i].steps : j < k => plans[i].steps[j].status # "pending"
  BY StepToRun
<1>2. DOMAIN old = StepFields /\ "steps" \in DOMAIN plans[i]
  BY <1>1 DEF PlanOK, PlanFields
<1>3. plans' = Written(plans, i, k, st)
  <2>1. plans' = [plans EXCEPT ![i].steps[k].status = status, ![i].steps[k].attempt = @ + 1]
    BY DEF settleStep
  <2> HIDE DEF i, k
  <2>2. [plans EXCEPT ![i].steps[k].status = status, ![i].steps[k].attempt = @ + 1] =
           Written(plans, i, k, [plans[i].steps[k] EXCEPT !.status = status,
                                        !.attempt = plans[i].steps[k].attempt + 1])
    BY <1>1, <1>2, WrittenForm
  <2> QED BY <2>1, <2>2
<1>4. /\ DOMAIN st = StepFields /\ st.node = old.node /\ st.target = old.target
      /\ st.verify = old.verify /\ st.aggregateVerify = old.aggregateVerify
      /\ st.view = old.view /\ st.status = status /\ status # "pending"
  BY <1>2 DEF StepFields
<1> HIDE DEF st
<1>5. PlansOK(plans') /\ SameBut(plans, plans', i, k) /\ plans'[i].steps[k].status = status
  <2>1. PlansOK(plans') /\ SameBut(plans, plans', i, k)
    BY <1>1, <1>3, <1>4, StepWritten
  <2>2. plans'[i].steps[k] = st
    <3> HIDE DEF i, k
    <3> QED BY <1>1, <1>2, <1>3 DEF Written
  <2> QED BY <1>4, <2>1, <2>2
<1>6. \A j \in DOMAIN plans : /\ j \in DOMAIN plans'
                              /\ plans'[j].by = plans[j].by /\ plans'[j].view = plans[j].view
  BY <1>5 DEF SameBut
<1>7. /\ RecordsOK(records, plans, p, snapshots, todo.atomic) /\ SnapshotsOK(snapshots, plans)
      /\ ActionsOK(actions, plans, now, todo.atomic) /\ now \in Nat
  BY DEF PlanningInv, SummariesOK
<1> HIDE DEF i, k
<1>8. RecordsOK(records, plans', p, snapshots', todo.atomic)
  <2> SUFFICES ASSUME NEW c \in Planner
               PROVE  RecordOK(c, records[c], plans', p[c], snapshots', todo.atomic)
    BY <1>7 DEF RecordsOK
  <2>1. /\ MadeBy(c, plans') = MadeBy(c, plans)
        /\ \A j \in MadeBy(c, plans) : plans'[j].view = plans[j].view
    BY <1>5, <1>6 DEF MadeBy, SameBut
  <2>2. RecordOK(c, records[c], plans, p[c], snapshots, todo.atomic)
    BY <1>7 DEF RecordsOK
  <2> QED BY <2>1, <2>2, RecordWider
<1>9. SnapshotsOK(snapshots', plans')
  <2>1. SnapshotsOK(snapshots, plans')
    BY <1>6, <1>7, SnapshotsStay
  <2> QED BY <2>1 DEF SnapshotsOK
<1>10. ActionsOK(actions', plans', now, todo.atomic)
  <2>1. /\ \A a \in DOMAIN actions' :
              a \in DOMAIN actions \/ ActionOf(actions'[a], plans, i, k, now)
        /\ \/ plans'[i].steps[k].status = "failed" \/ ~ todo.atomic
           \/ \E a \in DOMAIN actions' : ActionOf(actions'[a], plans, i, k, now)
    BY <1>5 DEF i, k
  <2>2. i \in DOMAIN plans /\ k \in DOMAIN plans[i].steps
    BY <1>1
  <2> QED BY <1>5, <1>7, <2>1, <2>2, ActionsKept
<1>11. RunOK(r', plans', now) /\ BoundOK(r', plans', actions', todo.atomic)
  BY <1>7, NoRunOK
<1> QED BY <1>5, <1>8, <1>9, <1>10, <1>11 DEF PlanningInv

(* The record of the run.                                                  *)
LEMMA ActionAdded ==
    ASSUME PlanningInv, r.pc = "persist", NEW act, act.artifact \in BOOLEAN,
           act.plan = r.plan, act.step = r.step, act.node = Step(r).node,
           act.version = r.version, act.def = r.def, act.at = r.at,
           actions' = Append(actions, act)
    PROVE  /\ IsSequence(actions')
           /\ \A a \in DOMAIN actions : a \in DOMAIN actions' /\ actions'[a] = actions[a]
           /\ \A a \in DOMAIN actions' :
                 a \in DOMAIN actions \/ ActionOf(actions'[a], plans, r.plan, r.step, now)
           /\ \E a \in DOMAIN actions' : ActionOf(actions'[a], plans, r.plan, r.step, now)
<1> DEFINE n == Len(actions) + 1
<1>1. IsSequence(actions)
  BY DEF PlanningInv, ActionsOK
<1>2. /\ IsSequence(actions') /\ DOMAIN actions' = DOMAIN actions \cup {n}
      /\ \A a \in DOMAIN actions : actions'[a] = actions[a]
      /\ actions'[n] = act
  BY <1>1, AppendIsSequence
<1> HIDE DEF n
<1>3. ActionOf(act, plans, r.plan, r.step, now)
  <2>1. RunOK(r, plans, now)
    BY DEF PlanningInv
  <2>2. r.at \in Nat /\ r.at <= now /\ Pinned(plans[r.plan].view, r.version, r.def)
    BY <2>1 DEF RunOK
  <2> QED BY <2>2 DEF ActionOf, Step
<1> QED BY <1>2, <1>3

(* What the verdict makes of the step.                                     *)
LEMMA Verified ==
    ASSUME verifyStep
    PROVE  \E status \in {"completed", "failed"} : settleStep(status)
<1>1. PICK verified : settleStep(IF verified THEN "completed" ELSE "failed")
  BY DEF verifyStep
<1>2. (IF verified THEN "completed" ELSE "failed") \in {"completed", "failed"}
  OBVIOUS
<1> QED BY <1>1, <1>2

LEMMA ActionRecordForm ==
    LET act == actionRecord(r)
    IN  /\ act.plan = r.plan /\ act.step = r.step /\ act.node = Step(r).node
        /\ act.version = r.version /\ act.def = r.def /\ act.at = r.at
        /\ act.artifact = r.artifact
        /\ \A stored :
              LET other == [act EXCEPT !.artifact = stored]
              IN  /\ other.plan = r.plan /\ other.step = r.step /\ other.node = Step(r).node
                  /\ other.version = r.version /\ other.def = r.def /\ other.at = r.at
                  /\ other.artifact = stored
BY DEF actionRecord

LEMMA PersistStepKeeps ==
    ASSUME PlanningInv, PersistStep
    PROVE  PlanningInv'
<1> DEFINE snap == snapshot("action", Step(r).view, r.version, r.def)
           act == actionRecord(r)
<1>1. /\ r.pc = "persist" /\ verifyStep /\ r' = NoRun /\ actions' = Append(actions, act)
      /\ snapshots' \in {snapshots, snapshots \cup {snap}}
      /\ UNCHANGED <<todo, registry, records, summaries, p, refused, now>>
  BY DEF PersistStep
<1>2. PICK status \in {"completed", "failed"} : settleStep(status)
  BY <1>1, Verified
<1>3. r.pc \in Running /\ RunOK(r, plans, now) /\ WorkOK(todo') /\ todo'.atomic = todo.atomic
  BY <1>1 DEF Running, PlanningInv
<1>4. /\ act.plan = r.plan /\ act.step = r.step /\ act.node = Step(r).node
      /\ act.version = r.version /\ act.def = r.def /\ act.at = r.at
      /\ act.artifact \in BOOLEAN
  BY <1>3, ActionRecordForm DEF RunOK
<1> HIDE DEF act
<1>5. /\ IsSequence(actions')
      /\ \A a \in DOMAIN actions : a \in DOMAIN actions' /\ actions'[a] = actions[a]
      /\ \A a \in DOMAIN actions' :
            a \in DOMAIN actions \/ ActionOf(actions'[a], plans, r.plan, r.step, now)
      /\ \E a \in DOMAIN actions' : ActionOf(actions'[a], plans, r.plan, r.step, now)
  BY <1>1, <1>4, ActionAdded
<1>6. snap.scope = "action"
  BY DEF snapshot
<1> HIDE DEF snap
<1>7. snapshots \subseteq snapshots' /\ \A s \in snapshots' : s.scope = "plan" => s \in snapshots
  BY <1>1, <1>6
<1> QED BY <1>1, <1>2, <1>3, <1>5, <1>7, StepSettled

LEMMA PersistFailsKeeps ==
    ASSUME PlanningInv, PersistFails
    PROVE  PlanningInv'
<1>1. /\ r.pc = "persist" /\ r' = NoRun
      /\ UNCHANGED <<registry, snapshots, records, summaries, p, refused, now>>
  BY DEF PersistFails
<1>2. WorkOK(todo') /\ todo'.atomic = todo.atomic /\ now \in Nat
  BY WorkUnchanged DEF PersistFails, PlanningInv, SummariesOK
<1>3. r.pc \in Running /\ RunOK(r, plans, now)
  BY <1>1 DEF Running, PlanningInv
<1>4. snapshots \subseteq snapshots' /\ \A s \in snapshots' : s.scope = "plan" => s \in snapshots
  BY <1>1
<1>5. CASE UNCHANGED <<plans, actions>>
  <2>1. RunOK(r', plans, now) /\ BoundOK(r', plans, actions, todo.atomic)
    BY <1>1, <1>2, NoRunOK
  <2> QED BY <1>1, <1>2, <1>5, <2>1, RunnerMoves
<1>6. ASSUME ~ todo.atomic, verifyStep, UNCHANGED actions PROVE PlanningInv'
  <2>1. PICK status \in {"completed", "failed"} : settleStep(status)
    BY <1>6, Verified
  <2>2. IsSequence(actions')
    BY <1>6 DEF PlanningInv, ActionsOK
  <2> QED BY <1>1, <1>2, <1>3, <1>4, <1>6, <2>1, <2>2, StepSettled
<1>7. ASSUME ~ todo.atomic, verifyStep, NEW stored \in {FALSE, r.artifact},
             actions' = Append(actions, [actionRecord(r) EXCEPT !.artifact = stored])
      PROVE  PlanningInv'
  <2> DEFINE act == [actionRecord(r) EXCEPT !.artifact = stored]
  <2>1. PICK status \in {"completed", "failed"} : settleStep(status)
    BY <1>7, Verified
  <2>2. stored \in BOOLEAN
    <3>1. r.artifact \in BOOLEAN
      BY <1>3 DEF RunOK
    <3> QED BY <1>7, <3>1
  <2>3. /\ act.plan = r.plan /\ act.step = r.step /\ act.node = Step(r).node
        /\ act.version = r.version /\ act.def = r.def /\ act.at = r.at
        /\ act.artifact \in BOOLEAN
    BY <2>2, ActionRecordForm
  <2> HIDE DEF act
  <2>4. actions' = Append(actions, act)
    BY <1>7 DEF act
  <2>5. /\ IsSequence(actions')
        /\ \A a \in DOMAIN actions : a \in DOMAIN actions' /\ actions'[a] = actions[a]
        /\ \A a \in DOMAIN actions' :
              a \in DOMAIN actions \/ ActionOf(actions'[a], plans, r.plan, r.step, now)
    BY <1>1, <2>3, <2>4, ActionAdded
  <2> QED BY <1>1, <1>2, <1>3, <1>4, <1>7, <2>1, <2>5, StepSettled
<1>8. \/ UNCHANGED <<plans, actions>>
      \/ /\ ~ todo.atomic /\ verifyStep
         /\ \/ UNCHANGED actions
            \/ \E stored \in {FALSE, r.artifact} :
                  actions' = Append(actions, [actionRecord(r) EXCEPT !.artifact = stored])
  BY DEF PersistFails
<1> QED BY <1>5, <1>6, <1>7, <1>8

LEMMA DenyStepKeeps ==
    ASSUME PlanningInv, DenyStep
    PROVE  PlanningInv'
<1>1. /\ r.pc = "invoke"
      /\ UNCHANGED <<registry, snapshots, records, summaries, actions, p, refused, now>>
  BY DEF DenyStep
<1>2. r.pc \in Running
  BY <1>1 DEF Running
<1>3. \/ UNCHANGED todo
      \/ todo' = [todo EXCEPT !.faults = @ - 1]
  BY DEF DenyStep
<1>4. WorkOK(todo') /\ todo'.atomic = todo.atomic /\ now \in Nat
  BY <1>3, WorkUnchanged DEF PlanningInv, SummariesOK
<1>5. ASSUME settleStep("failed"), NEW pc \in {"idle", "over"}, r' = [NoRun EXCEPT !.pc = pc]
      PROVE  PlanningInv'
  <2>1. IsSequence(actions')
    BY <1>1 DEF PlanningInv, ActionsOK
  <2>2. snapshots \subseteq snapshots' /\ \A s \in snapshots' : s.scope = "plan" => s \in snapshots
    BY <1>1
  <2>3. \A a \in DOMAIN actions : a \in DOMAIN actions' /\ actions'[a] = actions[a]
    BY <1>1
  <2>4. /\ \A a \in DOMAIN actions' :
              a \in DOMAIN actions \/ ActionOf(actions'[a], plans, r.plan, r.step, now)
        /\ "failed" \in {"completed", "failed"}
    BY <1>1
  <2>5. r' = NoRun \/ \E x \in {"idle", "over"} : r' = [NoRun EXCEPT !.pc = x]
    BY <1>5
  <2> QED BY <1>1, <1>2, <1>4, <1>5, <2>1, <2>2, <2>3, <2>4, <2>5, StepSettled
<1>6. ASSUME r' = NoRun, UNCHANGED plans PROVE PlanningInv'
  <2>1. RunOK(r', plans, now) /\ BoundOK(r', plans, actions, todo.atomic)
    BY <1>4, <1>6, NoRunOK
  <2> QED BY <1>1, <1>4, <1>6, <2>1, RunnerMoves
<1>7. \/ settleStep("failed") /\ \E pc \in {"idle", "over"} : r' = [NoRun EXCEPT !.pc = pc]
      \/ r' = NoRun /\ UNCHANGED plans
  <2>1. NoRun = [NoRun EXCEPT !.pc = "idle"]
    <3>1. NoRun.pc = "idle" /\ NoRun = [f \in DOMAIN NoRun |-> NoRun[f]]
      BY DEF NoRun
    <3> QED BY <3>1
  <2>2. \/ settleStep("failed") /\ \E pc \in {"idle", "over"} : r' = [NoRun EXCEPT !.pc = pc]
        \/ r' = NoRun /\ (UNCHANGED plans \/ settleStep("failed"))
    BY DEF DenyStep
  <2> QED BY <2>1, <2>2
<1> QED BY <1>5, <1>6, <1>7

----------------------------------------------------------------------------
(* The invariant.                                                          *)

LEMMA PlanningInit == Init => PlanningInv
<1> SUFFICES ASSUME Init PROVE PlanningInv
  OBVIOUS
<1>1. /\ todo \in Workloads /\ plans = <<>> /\ snapshots = {} /\ summaries = <<>>
      /\ actions = <<>> /\ records = [c \in Planner |-> NoRecord]
      /\ p = [c \in Planner |-> NoCall] /\ r = NoRun /\ refused = {} /\ now = 0
  BY DEF Init
<1>2. WorkOK(todo)
  BY <1>1, WorkloadAssumption DEF WorkOK, WorkFields
<1>3. PlansOK(plans)
  BY <1>1, EmptySequence DEF PlansOK
<1>4. CallsOK(p, summaries, now)
  <2>1. /\ DOMAIN NoCall = CallFields /\ NoCall.pc = "idle" /\ NoCall.view = EmptyView
        /\ NoCall.steps = <<>> /\ NoCall.summary = 0 /\ NoCall.prev = 0 /\ NoCall.at = 0
    BY DEF NoCall, CallFields
  <2>2. ViewOK(EmptyView) /\ <<>> \in Seq(PlannedSteps) /\ Len(<<>>) = 0
    BY DEF ViewOK, EmptyView
  <2>3. NoCall.pc \in CallPcs /\ NoCall.pc \notin {"next", "create"} \cup Writing
    BY <2>1 DEF CallPcs, Early, Writing
  <2>4. \A c : CallOK(c, NoCall, <<>>, 0)
    BY <2>1, <2>2, <2>3 DEF CallOK
  <2>5. DOMAIN p = Planner /\ \A c \in Planner : p[c] = NoCall
    BY <1>1
  <2> QED BY <1>1, <2>4, <2>5 DEF CallsOK
<1>5. RecordsOK(records, plans, p, snapshots, todo.atomic)
  <2>1. \A c : MadeBy(c, plans) = {}
    BY <1>1, EmptySequence DEF MadeBy
  <2>2. DOMAIN records = Planner /\ \A c \in Planner : records[c].status = "none"
    BY <1>1 DEF NoRecord
  <2>3. \A c \in Planner : p[c].pc = "idle"
    BY <1>1 DEF NoCall
  <2>4. \A c \in Planner : RecordOK(c, records[c], plans, p[c], snapshots, todo.atomic)
    BY <2>1, <2>2, <2>3 DEF RecordOK, Writing
  <2> QED BY <2>2, <2>4 DEF RecordsOK
<1>6. SnapshotsOK(snapshots, plans)
  BY <1>1, EmptySequence DEF SnapshotsOK
<1>7. SummariesOK(summaries, now)
  BY <1>1, EmptySequence DEF SummariesOK
<1>8. ActionsOK(actions, plans, now, todo.atomic)
  BY <1>1, EmptySequence DEF ActionsOK
<1>9. RunOK(r, plans, now) /\ BoundOK(r, plans, actions, todo.atomic)
  BY <1>1, NoRunOK
<1>10. RefusedOK(refused)
  BY <1>1 DEF RefusedOK
<1> QED BY <1>2, <1>3, <1>4, <1>5, <1>6, <1>7, <1>8, <1>9, <1>10 DEF PlanningInv

LEMMA PlanningStep == PlanningInv /\ [Next]_vars => PlanningInv'
<1> SUFFICES ASSUME PlanningInv, [Next]_vars PROVE PlanningInv'
  OBVIOUS
<1>1. ASSUME NEW c \in Planner,
             \/ StartPlanning(c) \/ AssembleContext(c) \/ CompactContext(c)
             \/ persistContextSummary(c) \/ FreezeCapabilityView(c) \/ PlanNext(c)
      PROVE  PlanningInv'
  BY <1>1, StartPlanningKeeps, AssembleContextKeeps, CompactContextKeeps, PersistSummaryKeeps,
     FreezeKeeps, PlanNextKeeps
<1>2. ASSUME NEW c \in Planner,
             \/ createPlanWithCapabilityView(c) \/ createPlanInMemory(c)
             \/ persistCapabilityViewInStore(c) \/ createPlanningRecord(c)
             \/ emitPlanGenerated(c)
      PROVE  PlanningInv'
  BY <1>2, CreatePlanKeeps, CreatePlanInMemoryKeeps, PersistViewKeeps, CreateRecordKeeps,
     EmitKeeps
<1>3. ASSUME NEW c \in Planner,
             \/ CreateFails(c) \/ PlanningFails(c) \/ joinPlanningPersistenceError(c)
             \/ PlannerCrash(c)
      PROVE  PlanningInv'
  BY <1>3, PlanningFailsKeeps, JoinKeeps, PlannerCrashKeeps
<1>4. ASSUME NEW v \in Version, NEW def \in Def, NEW reg \in {"enabled", "disabled"},
             Register(v, def, reg)
      PROVE  PlanningInv'
  BY <1>4, RegisterKeeps
<1>5. CASE CreatePlanFromProgram \/ Tick
  BY <1>5, ProgramKeeps, TickKeeps
<1>6. CASE \/ SelectStep \/ ResolveBindings \/ DenyStep \/ InvokeTool
           \/ PersistStep \/ PersistFails
  BY <1>6, SelectStepKeeps, ResolveBindingsKeeps, DenyStepKeeps, InvokeToolKeeps,
     PersistStepKeeps, PersistFailsKeeps
<1>7. CASE UNCHANGED vars
  BY <1>7 DEF vars, PlanningInv
<1> QED BY <1>1, <1>2, <1>3, <1>4, <1>5, <1>6, <1>7 DEF Next

LEMMA PlanningInvariant == Spec => []PlanningInv
BY PlanningInit, PlanningStep, PTL DEF Spec

----------------------------------------------------------------------------
(* Results.                                                                *)

(* Every program that is compiled has its steps in dependency order, on    *)
(* the runtime path in the earliest such order; a program is refused for a *)
(* cycle only if it has one and never accepted with one (program.go:84,    *)
(* program_compile.go:105).                                                *)
THEOREM ProgramsCompileInOrder == Spec => []CompiledInOrder
<1>1. PlanningInv => CompiledInOrder
  <2> SUFFICES ASSUME PlanningInv PROVE CompiledInOrder
    OBVIOUS
  <2>1. \A x \in refused : x.err = "cycle" => Cyclic(x.input.program)
    BY DEF PlanningInv, RefusedOK
  <2>2. ASSUME NEW i \in DOMAIN plans, plans[i].path # "planner"
        PROVE  CompiledFrom(plans[i].program, plans[i].path, plans[i].steps)
    BY <2>2 DEF PlanningInv, PlansOK, PlanOK
  <2>3. ASSUME NEW i \in DOMAIN plans, plans[i].path # "planner"
        PROVE  LET program == plans[i].program
                   steps == plans[i].steps
               IN  /\ ~ Cyclic(program)
                   /\ \A n \in Ids(program) : \A d \in ToSet(nodesByID(program, n).deps) :
                         After(steps, n, d)
                   /\ plans[i].path = "runtime" =>
                         \A n, m \in Ids(program) :
                             nodeOrder(program, n) < nodeOrder(program, m) /\ After(steps, n, m) =>
                                 \E d \in ToSet(nodesByID(program, n).deps) :
                                     d = m \/ After(steps, d, m)
    BY <2>2, <2>3, CompiledOrder
  <2> QED BY <2>1, <2>3, Zenon DEF CompiledInOrder, After
<1> QED BY <1>1, PlanningInvariant, PTL

(* No target and no verification of a node is lost on its way to the plan  *)
(* (program_verify_scope.go:35).                                           *)
THEOREM ProgramsKeepTheirNodes == Spec => []NodesKept
<1>1. PlanningInv => NodesKept
  <2> SUFFICES ASSUME PlanningInv, NEW i \in DOMAIN plans, plans[i].path # "planner",
                      NEW n \in Ids(plans[i].program)
               PROVE  LET node == nodesByID(plans[i].program, n)
                          steps == {plans[i].steps[k] : k \in StepsOf(plans[i].steps, n)}
                          targets == ToSet(targetsForProgramNode(node, plans[i].path))
                      IN /\ {s.target : s \in steps} = IF targets = {} THEN {NoTarget} ELSE targets
                         /\ node.verify => \A s \in steps : s.verify # s.aggregateVerify
                         /\ \A s \in steps : s.aggregateVerify =>
                                Cardinality(StepsOf(plans[i].steps, n)) > 1
    BY Zenon DEF NodesKept
  <2>1. CompiledFrom(plans[i].program, plans[i].path, plans[i].steps)
    BY DEF PlanningInv, PlansOK, PlanOK
  <2> QED BY <2>1, CompiledNodes, Zenon DEF TargetSet
<1> QED BY <1>1, PlanningInvariant, PTL

(* A step that was planned against a frozen view runs with a definition of *)
(* that view or not at all (capability_freeze.go:269).                     *)
THEOREM PinnedStepsRunTheirTool == Spec => []PinnedToolRuns
<1>1. PlanningInv => PinnedToolRuns
  BY DEF PlanningInv, ActionsOK, Pinned, PinnedToolRuns
<1> QED BY <1>1, PlanningInvariant, PTL

(* A planning that is recorded as completed has one plan, with all the     *)
(* snapshots of its view, and one that succeeded is so recorded, whatever  *)
(* fails or crashes and whoever else plans, also without transactions;     *)
(* with them a plan is never there without its record                      *)
(* (capability_freeze.go:109, persistence/memory.go:13).                   *)
THEOREM PlansHaveTheirRecord == Spec => []PlanHasItsRecord
<1>1. PlanningInv => PlanHasItsRecord
  <2> SUFFICES ASSUME PlanningInv, NEW c \in Planner
               PROVE  /\ p[c].pc = "created" => records[c].status = "completed"
                      /\ records[c].status = "completed" =>
                            /\ MadeBy(c, plans) = {records[c].plan}
                            /\ \A i \in MadeBy(c, plans) :
                                  /\ planSnapshots(plans[i].view) \subseteq snapshots
                                  /\ \A k \in DOMAIN plans[i].steps :
                                        plans[i].steps[k].view = records[c].view
                      /\ todo.atomic /\ MadeBy(c, plans) # {} => records[c].status = "completed"
    BY Zenon DEF PlanHasItsRecord, MadeBy
  <2>1. RecordOK(c, records[c], plans, p[c], snapshots, todo.atomic) /\ PlansOK(plans)
    BY DEF PlanningInv, RecordsOK
  <2>2. /\ p[c].pc = "created" => records[c].status = "completed"
        /\ todo.atomic /\ MadeBy(c, plans) # {} => records[c].status = "completed"
    BY <2>1 DEF RecordOK
  <2>3. ASSUME records[c].status = "completed"
        PROVE  /\ MadeBy(c, plans) = {records[c].plan} /\ records[c].view = c
               /\ \A i \in MadeBy(c, plans) : planSnapshots(plans[i].view) \subseteq snapshots
    BY <2>1, <2>3 DEF RecordOK
  <2>4. ASSUME NEW i \in MadeBy(c, plans), NEW k \in DOMAIN plans[i].steps
        PROVE  plans[i].steps[k].view = c
    <3>1. i \in DOMAIN plans /\ plans[i].by = c /\ PlanOK(plans[i])
      BY <2>1 DEF MadeBy, PlansOK
    <3> QED BY <3>1 DEF PlanOK
  <2> QED BY <2>2, <2>3, <2>4
<1> QED BY <1>1, PlanningInvariant, PTL

(* A summary is listed after the one it supersedes, and that one is the    *)
(* last of its own planning or listed after it, although plannings stamp   *)
(* and number their summaries in two steps that may overlap                *)
(* (compaction.go:77, contextrepo/repo.go:22, contextsummary/store.go:51). *)
THEOREM SummariesAreChained == Spec => []SummariesFollow
<1>1. PlanningInv => SummariesFollow
  <2> SUFFICES ASSUME PlanningInv, NEW i \in DOMAIN summaries
               PROVE  LET prev == summaries[i].prev
                          own == summaries[i].own
                      IN  /\ prev # 0 => prev < i /\ listedBefore(prev, i)
                          /\ own # 0 => prev # 0 /\ listedBefore(own, prev)
    BY DEF SummariesFollow
  <2>1. SummaryOK(summaries, i) /\ IsSequence(summaries)
    BY DEF PlanningInv, SummariesOK
  <2>2. i \in Nat
    BY <2>1, SequenceFacts
  <2>3. summaries[i].prev < i
    BY <2>1, <2>2 DEF SummaryOK
  <2> QED BY <2>1, <2>3, ListedForm DEF SummaryOK
<1> QED BY <1>1, PlanningInvariant, PTL

(* A binding to a node the step depends on is refused only if all the      *)
(* node's steps have been settled without leaving what it asks for, which  *)
(* with transactions takes a denied step or a result without an artifact;  *)
(* and a run it is given is at least as late as the last one on the step's *)
(* own target in the step's plan, and on that target if there is one       *)
(* (program_binding_resolution.go:195).                                    *)
THEOREM BindingsFindTheirRun == Spec => []BoundToOwnRun
<1>1. PlanningInv => BoundToOwnRun
  <2> SUFFICES ASSUME PlanningInv PROVE BoundToOwnRun
    OBVIOUS
  <2>1. BoundOK(r, plans, actions, todo.atomic)
    BY DEF PlanningInv
  <2>2. \A b, plan, k : RunsFor(b, plan, k) = Runs(actions, b, plan, k)
    BY Zenon DEF RunsFor, Runs
  <2> DEFINE step == plans[r.plan].steps[r.step]
  <2>3. Step(r) = step
    BY DEF Step
  <2>4. r.last = "unbound" /\ plans[r.plan].path # "planner" =>
           \E i \in DOMAIN step.binds :
               Ancestor(plans[r.plan].program, step.node, step.binds[i].ref) =>
                   NothingLeft(actions, step.binds[i], r.plan, plans[r.plan].steps, todo.atomic)
    BY <2>1, Zenon DEF BoundOK
  <2>5. r.pc = "invoke" =>
           \A i \in DOMAIN r.bound : r.bound[i] # 0 =>
               \A j \in DOMAIN actions :
                   /\ actions[j].node = step.binds[i].ref /\ actions[j].target = step.target
                   /\ j \in Runs(actions, step.binds[i], r.plan, actions[j].step)
                   => /\ actions[j].at <= actions[r.bound[i]].at
                      /\ step.target \in {NoTarget, actions[r.bound[i]].target}
    BY <2>1, Zenon DEF BoundOK
  <2> HIDE DEF step
  <2>6. r.last = "unbound" /\ plans[r.plan].path # "planner" =>
          \E i \in DOMAIN step.binds :
              LET b == step.binds[i]
                  steps == plans[r.plan].steps
              IN Ancestor(plans[r.plan].program, step.node, b.ref) =>
                    \A k \in StepsOf(steps, b.ref) :
                        /\ steps[k].status # "pending"
                        /\ RunsFor(b, r.plan, k) = {}
                        /\ b.kind = "artifact" \/ steps[k].status = "failed" \/ ~ todo.atomic
    BY <2>2, <2>4, Zenon DEF NothingLeft
  <2>7. r.pc = "invoke" =>
          \A i \in DOMAIN r.bound : r.bound[i] # 0 =>
              LET b == step.binds[i]
                  given == actions[r.bound[i]]
                  own == {j \in DOMAIN actions :
                            /\ actions[j].node = b.ref /\ actions[j].target = step.target
                            /\ j \in RunsFor(b, r.plan, actions[j].step)}
              IN \A j \in own : /\ actions[j].at <= given.at
                                 /\ step.target \in {NoTarget, given.target}
    BY <2>2, <2>5, Zenon
  <2> QED BY <2>3, <2>6, <2>7, Zenon DEF BoundToOwnRun
<1> QED BY <1>1, PlanningInvariant, PTL
=============================================================================
