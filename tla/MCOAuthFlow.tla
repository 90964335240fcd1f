---------------------------- MODULE MCOAuthFlow ----------------------------
(* TLC instance of OAuthFlow. *)
EXTENDS OAuthFlow, TLC

CONSTANTS u1, u2, u3, m1

\* u1 and u2 are loopback URIs that differ in the port; u3 is another URI.
Places == [u \in Redirect |-> IF u \in {u1, u2} THEN "loopback" ELSE NotLoopback]

\* The document of the metadata client, where there is one, lists u1.
Documents == [c \in Documented |-> {u1}]

Symmetry == Permutations(Browser) \cup Permutations(Flow) \cup Permutations(Code)
            \cup Permutations(Request) \cup Permutations(Verifier)
            \cup Permutations(Dynamic)
=============================================================================
