--------------------------- MODULE AddressBuckets ---------------------------
(***************************************************************************)
(* What RateLimiter promises: each client address has one token bucket of  *)
(* Burst tokens, refilled at Rate, that is never forgotten.  A request is  *)
(* served for one token of the bucket of its own address.                  *)
(***************************************************************************)
EXTENDS Integers

CONSTANTS Address, Rate, Burst

VARIABLES
    budget,     \* tokens left to each address
    served      \* requests served to each address, modulo 2: serving is a step

Init ==
    /\ budget = [c \in Address |-> Burst]
    /\ served = [c \in Address |-> 0]

Refilled(n) == IF n + Rate < Burst THEN n + Rate ELSE Burst

Serve(c) ==
    /\ budget[c] > 0
    /\ budget' = [budget EXCEPT ![c] = @ - 1]
    /\ served' = [served EXCEPT ![c] = 1 - @]

Refill ==
    /\ budget' = [c \in Address |-> Refilled(budget[c])]
    /\ UNCHANGED served

Next == Refill \/ \E c \in Address : Serve(c)

Spec == Init /\ [][Next]_<<budget, served>>
=============================================================================
