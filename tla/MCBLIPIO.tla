------------------------------ MODULE MCBLIPIO ------------------------------
(* BLIPIO on small instances *)
EXTENDS BLIPIO
Request(from, size, urgent, type, response) ==
    [from |-> from, size |-> size, urgent |-> urgent, reply |-> type # "none",
     type |-> IF type = "none" THEN "RES" ELSE type, response |-> response]
(* A long request with a long reply, an urgent one in the other direction  *)
(* that overtakes the reply, and one that nobody answers.                  *)
SomeRequests == {Request("A", 3, FALSE, "RES", 5), Request("B", 1, TRUE, "ERR", 1),
                 Request("A", 1, FALSE, "none", 1)}
(* Long replies in both directions, for requests of the same number: with  *)
(* AckThreshold = 1, MaxUnacked = 2 and no faults NoStall is violated.     *)
BothWays == {Request("A", 1, FALSE, "RES", 7), Request("B", 1, FALSE, "RES", 7)}
=============================================================================
