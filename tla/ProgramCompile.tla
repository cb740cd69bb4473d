--------------------------- MODULE ProgramCompile ---------------------------
(***************************************************************************)
(* How an execution program becomes the steps of a plan.                   *)
(*                                                                         *)
(*   pkg/harness/runtime/program.go          CreatePlanFromProgram         *)
(*   pkg/harness/runtime/program_compile.go  programs attached to a step   *)
(*   program_fanout.go, program_verify_scope.go, program_binding_compile.go*)
(*                                                                         *)
(* Nodes are visited in dependency order (Kahn's algorithm) on two paths:  *)
(* "runtime" keeps the ready nodes sorted by their place in the program,   *)
(* "attached" takes them first in, first out.  A node becomes one step per *)
(* target.  A program is a record                                          *)
(*   nodes : a sequence of [id, deps (a sequence of ids), mode, targets,   *)
(*           partial (on_partial_failure = continue), onFail, verify,      *)
(*           scope, binds (a sequence of [kind, ref]), version]            *)
(*   entry : the ids of entry_nodes                                        *)
(***************************************************************************)
EXTENDS Integers, Sequences, FiniteSets, SequencesExt

CONSTANTS NoId,        \* an empty node id
          NoTarget,    \* the target of a step that has none
          NoView,      \* the empty capability view id
          Resolved     \* the targets the TargetResolver finds

Path == {"runtime", "attached"}

IsSequence(s) == s \in Seq(ToSet(s))

(* What a program must be to be compiled at all.                           *)
IsProgram(program) ==
    /\ IsSequence(program.nodes)
    /\ \A i \in DOMAIN program.nodes : /\ IsSequence(program.nodes[i].deps)
                                       /\ IsSequence(program.nodes[i].targets)
                                       /\ program.nodes[i].verify \in BOOLEAN

ASSUME ResolvedAssumption == IsSequence(Resolved)

Ids(program) == {program.nodes[i].id : i \in DOMAIN program.nodes}

nodeOrder(program, id) == CHOOSE i \in DOMAIN program.nodes : program.nodes[i].id = id

nodesByID(program, id) == program.nodes[nodeOrder(program, id)]

(* How often a node names another one: a dependency listed twice is        *)
(* counted, and later released, twice.                                     *)
Listed(node, dep) == Cardinality({i \in DOMAIN node.deps : node.deps[i] = dep})

malformed(program, path) ==
    \/ NoId \in Ids(program)
    \/ \E i, j \in DOMAIN program.nodes : i < j /\ program.nodes[i].id = program.nodes[j].id
    \/ path = "runtime" /\ ~ program.entry \subseteq Ids(program)
    \/ \E id \in Ids(program) : ~ ToSet(nodesByID(program, id).deps) \subseteq Ids(program)

(* The nodes of S in the order of the program.                             *)
InOrder(program, S) ==
    FlattenSeq([i \in DOMAIN program.nodes |->
                  IF program.nodes[i].id \in S THEN <<program.nodes[i].id>> ELSE <<>>])

(* The order in which ready nodes are taken: as they come, or sorted by    *)
(* their place in the program.                                             *)
queued(program, path, ready) ==
    IF path = "attached" THEN ready
    ELSE FlattenSeq([i \in DOMAIN program.nodes |->
            LET id == program.nodes[i].id
            IN [k \in 1 .. Cardinality({j \in DOMAIN ready : ready[j] = id}) |-> id]])

start(program) ==
    LET indegree == [id \in Ids(program) |-> Len(nodesByID(program, id).deps)]
    IN [indegree |-> indegree, out |-> <<>>,
        ready |-> InOrder(program, {id \in Ids(program) : indegree[id] = 0})]

(* Variant: a node is released by the first of its dependencies.           *)
visitReleasingEarly(program, path, s) ==
    LET id == Head(s.ready)
        dependents == {n \in Ids(program) : Listed(nodesByID(program, n), id) > 0}
    IN [indegree |-> s.indegree, out |-> Append(s.out, id),
        ready |-> queued(program, path, Tail(s.ready) \o InOrder(program, dependents))]

visit(program, path, s) ==
    LET id == Head(s.ready)
        dependents == {n \in Ids(program) : Listed(nodesByID(program, n), id) > 0}
        left == [n \in Ids(program) |-> s.indegree[n] - Listed(nodesByID(program, n), id)]
    IN [indegree |-> left, out |-> Append(s.out, id),
        ready |-> queued(program, path,
                         Tail(s.ready) \o InOrder(program, {n \in dependents : left[n] = 0}))]

orderedProgramNodes(program, path) ==
    LET kahn[k \in 0 .. Len(program.nodes)] ==
            IF k = 0 THEN start(program)
            ELSE IF kahn[k - 1].ready = <<>> THEN kahn[k - 1]
            ELSE visit(program, path, kahn[k - 1])
    IN kahn[Len(program.nodes)].out
-----------------------------------------------------------------------------
(* Targets.  Only the runtime path can ask the resolver for them.          *)
targetsForProgramNode(node, path) ==
    IF node.mode = "all" THEN (IF path = "runtime" THEN Resolved ELSE <<>>) ELSE node.targets

targetingSupported(node, path) ==
    node.mode \in {"all", "explicit"} => targetsForProgramNode(node, path) # <<>>

(* The scope in which a node's verification is judged.                     *)
compiledProgramVerifyScope(node, total) ==
    CASE total > 1 /\ node.scope \in {"", "target"}      -> "target"
      [] total > 1 /\ node.scope \in {"step", "aggregate"} -> "aggregate"
      [] total <= 1 /\ node.scope = ""                     -> "step"
      [] OTHER                                             -> node.scope

(* Variant: the step of a group of one is left to the group's verdict.     *)
compileProgramNodeVerifySpecAnyCount(node, total) ==
    node.verify /\ compiledProgramVerifyScope(node, total) # "aggregate"

(* Whether a step carries the verification itself, and whether it carries  *)
(* it for its group.                                                       *)
compileProgramNodeVerifySpec(node, total) ==
    node.verify /\ ~ (total > 1 /\ compiledProgramVerifyScope(node, total) = "aggregate")

applyProgramVerifyMetadata(node, total) ==
    node.verify /\ total > 1 /\ compiledProgramVerifyScope(node, total) = "aggregate"

(* The node's own strategy; the node of an attached program that has none  *)
(* takes its parent's.                                                     *)
compileProgramNodeOnFail(node, total) ==
    IF total > 1 /\ node.partial THEN "continue" ELSE node.onFail

(* Literals and inline attachments become arguments; the others wait for   *)
(* the run of the step.                                                    *)
deferredKinds == {"output_ref", "text", "artifact", "materialize"}

bindingSupported(b) == b.kind \in {"literal", "inline"} \cup deferredKinds

applyCompiledProgramBindings(binds) == SelectSeq(binds, LAMBDA b : b.kind \in deferredKinds)

(* The last entry of the frozen view is the tool's highest version.        *)
findFrozenCapabilityEntry(view, version) ==
    {e \in view.entries : IF version # 0 THEN e.version = version
                          ELSE \A o \in view.entries : o.version <= e.version}

pinStepToCapabilityView(step, view) ==
    LET found == findFrozenCapabilityEntry(view, step.version)
    IN [step EXCEPT !.view = view.id,
                    !.version = IF found # {} THEN (CHOOSE e \in found : TRUE).version ELSE @]

(* The step of a node on one target, or on none.                           *)
stepFromProgramNode(node, target, total) ==
    [node |-> node.id, target |-> target, total |-> total,
     version |-> node.version, view |-> NoView,
     verify |-> compileProgramNodeVerifySpec(node, total),
     aggregateVerify |-> applyProgramVerifyMetadata(node, total),
     scope |-> compiledProgramVerifyScope(node, total),
     onFail |-> compileProgramNodeOnFail(node, total),
     binds |-> applyCompiledProgramBindings(node.binds),
     program |-> FALSE, status |-> "pending", attempt |-> 0]

expandProgramNodeSteps(node) ==
    LET targets == targetsForProgramNode(node, "runtime")
    IN IF targets = <<>> THEN <<stepFromProgramNode(node, NoTarget, 0)>>
       ELSE [i \in DOMAIN targets |-> stepFromProgramNode(node, targets[i], Len(targets))]

(* The step of an attached program is pinned like its parent and is given  *)
(* the parent's metadata, the program included.                            *)
compileAttachedProgramNodeStep(node, view, target, total) ==
    pinStepToCapabilityView([stepFromProgramNode(node, target, total) EXCEPT !.program = TRUE], view)

compileAttachedProgramNodeSteps(node, view) ==
    LET targets == targetsForProgramNode(node, "attached")
    IN IF targets = <<>> THEN <<compileAttachedProgramNodeStep(node, view, NoTarget, 0)>>
       ELSE [i \in DOMAIN targets |->
                compileAttachedProgramNodeStep(node, view, targets[i], Len(targets))]

(* The steps of a program, or why it has none.                             *)
compile(program, path, view) ==
    LET order == IF malformed(program, path) THEN <<>> ELSE orderedProgramNodes(program, path)
        nodes == [i \in DOMAIN order |-> nodesByID(program, order[i])]
        unsupported == \E i \in DOMAIN nodes : \/ ~ targetingSupported(nodes[i], path)
                                               \/ \E j \in DOMAIN nodes[i].binds :
                                                      ~ bindingSupported(nodes[i].binds[j])
        cycle == Len(order) # Len(program.nodes)
    IN [err |-> IF malformed(program, path) THEN "malformed"
                ELSE IF path = "attached" /\ cycle THEN "cycle"
                ELSE IF path = "attached" /\ program.nodes = <<>> THEN "malformed"
                ELSE IF unsupported THEN "unsupported"
                ELSE IF cycle THEN "cycle"
                ELSE "none",
        steps |-> FlattenSeq([i \in DOMAIN nodes |->
                                IF path = "runtime" THEN expandProgramNodeSteps(nodes[i])
                                ELSE compileAttachedProgramNodeSteps(nodes[i], view)])]
-----------------------------------------------------------------------------
(* What a program means: the reference the compiler is held against.       *)
Cyclic(program) ==
    \E S \in (SUBSET Ids(program)) \ {{}} :
        \A n \in S : \E d \in S : Listed(nodesByID(program, n), d) > 0

StepsOf(steps, id) == {k \in DOMAIN steps : steps[k].node = id}
=============================================================================
