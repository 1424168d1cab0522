---------------------------- MODULE MCLifecycle -----------------------------
(* Lifecycle on small instances *)
EXTENDS Lifecycle
Remote(continuous, maxRetries, functions, maxCalls, maxFaults) ==
    [remote |-> TRUE, continuous |-> continuous, maxRetries |-> maxRetries, colls |-> {"a"},
     calls |-> functions, maxCalls |-> maxCalls, maxFaults |-> maxFaults]
Local(colls, functions, maxCalls, maxFaults) ==
    [remote |-> FALSE, continuous |-> FALSE, maxRetries |-> 0, colls |-> colls,
     calls |-> functions, maxCalls |-> maxCalls, maxFaults |-> maxFaults]
StartAndStop == {"start", "stop"}
(* What clients do at any point, with one fault. *)
ManyCalls == {Remote(TRUE, 1, AllCalls, 2, 1), Remote(FALSE, 1, AllCalls, 2, 1), Remote(FALSE, 0, AllCalls, 3, 1),
              Local({"a", "b"}, StartAndStop, 2, 1)}
(* What happens when a second fault follows the first: one-shot replications. *)
ManyFaults == {Remote(FALSE, 1, {"start"}, 1, 2), Local({"a"}, {"start"}, 1, 2)}
SomeModes == ManyCalls \cup ManyFaults
=============================================================================
