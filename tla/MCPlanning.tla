----------------------------- MODULE MCPlanning -----------------------------
(* Model-checking instances of Planning.                                   *)
EXTENDS Planning

(* A node with these dependencies and the default of everything else.      *)
N(id, deps) == [id |-> id, deps |-> deps, mode |-> "none", targets |-> <<>>,
                partial |-> FALSE, onFail |-> "abort", verify |-> FALSE, scope |-> "",
                binds |-> <<>>, version |-> 0]
P(nodes) == [nodes |-> nodes, entry |-> {}]
Ref(kind, id) == [kind |-> kind, ref |-> id]

(* Every graph of three nodes whose dependencies are one of these, the     *)
(* same one twice, itself and one that does not exist among them.          *)
DepLists == {<<>>, <<1>>, <<2>>, <<3>>, <<1, 1>>, <<2, 1>>, <<3, 2>>, <<2, 2, 3>>, <<4>>}
Graphs == {P(<<N(1, a), N(2, b), N(3, c)>>) : a \in DepLists, b \in DepLists, c \in DepLists}

On(node, mode, targets) == [node EXCEPT !.mode = mode, !.targets = targets]
Bound(node, binds) == [node EXCEPT !.binds = binds]
Verified(node, scope) == [node EXCEPT !.verify = TRUE, !.scope = scope]

(* Programs the compiler judges by more than their order.                  *)
Malformed == {P(<<N(NoId, <<>>)>>), P(<<N(1, <<>>), N(1, <<>>)>>),
              [P(<<N(1, <<>>)>>) EXCEPT !.entry = {4}], P(<<>>),
              P(<<On(N(1, <<>>), "explicit", <<>>)>>), P(<<On(N(1, <<>>), "all", <<>>)>>),
              P(<<Bound(N(1, <<>>), <<Ref("unknown", NoId)>>)>>)}
Scoped == {P(<<On(Verified(N(1, <<>>), s), "explicit", t)>>) :
              s \in {"", "step", "target", "aggregate"}, t \in {<<"a">>, <<"a", "b">>}}

(* A node on two targets, and one on the same targets bound to its output. *)
Producer == On([N(1, <<>>) EXCEPT !.onFail = "retry", !.partial = FALSE], "explicit", <<"a", "b">>)
Pipeline(kind) == P(<<On(Bound(N(2, <<1>>), <<Ref(kind, 1)>>), "explicit", <<"a", "b">>), Producer>>)
Narrow(kind) == P(<<On(Bound(N(2, <<1>>), <<Ref(kind, 1)>>), "explicit", <<"a">>),
                    On(N(1, <<>>), "explicit", <<"a", "b">>)>>)
Continued == P(<<[Producer EXCEPT !.partial = TRUE],
                 Bound(N(2, <<>>), <<Ref("output_ref", 3)>>), N(3, <<>>)>>)
Attached == P(<<Bound(Verified(N(1, <<>>), "aggregate"), <<Ref("literal", NoId), Ref("materialize", NoId)>>),
                Bound(N(2, <<1>>), <<Ref("text", 1)>>)>>)

(* Environments: a program that runs on an unchanging registry, one that   *)
(* is only compiled and fails for want of the tool, and planners at work   *)
(* while versions come, change and go.                                     *)
Absent == [reg |-> "absent", def |-> "d1"]
Enabled == [reg |-> "enabled", def |-> "d1"]
Empty == [v \in Version |-> Absent]
OneVersion == [Empty EXCEPT ![1] = Enabled]
Given(planners, maxSteps, path, programs, tools, changes, faults, ticks) ==
    [planners |-> planners, maxSteps |-> maxSteps, registry |-> tools, changes |-> changes, faults |-> faults,
     ticks |-> ticks, atomic |-> TRUE,
     programs |-> [i \in DOMAIN programs |-> [path |-> path, program |-> programs[i]]]]

InMemory(work) == [work EXCEPT !.atomic = FALSE]

AllWorkloads ==
    {Given({}, 0, path, <<g>>, Empty, 0, 0, 0) : path \in Path, g \in Graphs \cup Malformed \cup Scoped}
      \cup {Given({}, 0, "runtime", <<Pipeline("output_ref")>>, OneVersion, 0, 1, 2),
            Given({}, 0, "runtime", <<Pipeline("artifact")>>, OneVersion, 0, 1, 1),
            Given({}, 0, "runtime", <<Narrow("output_ref"), Narrow("artifact")>>, OneVersion, 0, 0, 1),
            Given({}, 0, "runtime", <<Continued>>, OneVersion, 0, 1, 1),
            Given({}, 0, "runtime", <<Attached>>, OneVersion, 1, 1, 0),
            Given({}, 0, "attached", <<Attached>>, OneVersion, 0, 0, 0),
            Given(Planner, 1, "runtime", <<>>, Empty, 0, 0, 1),
            Given({"p1"}, 2, "runtime", <<>>, OneVersion, 1, 1, 0),
            InMemory(Given({"p1"}, 1, "runtime", <<>>, OneVersion, 1, 2, 0)),
            InMemory(Given({}, 0, "runtime", <<Pipeline("artifact")>>, OneVersion, 0, 1, 0))}

Discovered == <<"a", "b">>

Plain(version, verify) == [attached |-> FALSE,
                           node |-> [N(5, <<>>) EXCEPT !.version = version, !.verify = verify,
                                                       !.onFail = "retry"]]
Steps == {Plain(0, FALSE), Plain(1, TRUE), [attached |-> TRUE, program |-> P(<<N(1, <<>>)>>)],
          [attached |-> TRUE, program |-> P(<<N(1, <<1>>)>>)]}
=============================================================================
