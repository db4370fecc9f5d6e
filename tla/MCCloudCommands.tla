---------------------------- MODULE MCCloudCommands ----------------------------
(***************************************************************************)
(* Values of the constants of CloudCommands for TLC: two runs, and plans   *)
(* that stop, go on, jump forward, jump back and pass steps over.          *)
(***************************************************************************)
EXTENDS CloudCommands

CONSTANTS r1, r2

Kind(id, kind, verb, thing, on_failure) ==
    [id |-> id, kind |-> kind, verb |-> verb, thing |-> thing, on_failure |-> on_failure]

MCPlans == {
    <<>>,
    << Kind("a", "call", "delete", "pod", "stop"),
       Kind("b", "manifest", "apply", "pod", "stop"),
       Kind("c", "call", "restart", "deployment", "continue") >>,
    << Kind("a", "call", "patch", "deployment", "c"),
       Kind("b", "unknown", "read", "autoscaler", "continue"),
       Kind("c", "call", "delete", "autoscaler", "a") >> }

Touched(r) == {Script(r)[i].thing : i \in DOMAIN Script(r)}

\* The pairs of tools that have a thing in common, each once; one of them is a plan.
Pairs ==
    {<<"memory", "memory">>, <<"memory", "rollback">>, <<"autoscaler", "autoscaler">>,
     <<"aws_quick_wins", "azure_quick_wins">>, <<"drift", "drift">>}
    \union ({"memory", "rollback", "autoscaler", "drift"} \X {"runbook"})

\* The runs meet, only what they touch may be absent at first, and quick wins and
\* patches find what their diagnosis found.
Bounds ==
    /\ <<tool[r1], tool[r2]>> \in Pairs
    /\ Touched(r1) \intersect Touched(r2) # {}
    /\ \A o \in Things :
          last[o] = "nobody" /\ cloud[o] = "absent" =>
              o \in (Touched(r1) \intersect Touched(r2))
                        \intersect {"pod", "autoscaler"}
================================================================================
