------------------------------ MODULE MCServer ------------------------------
(* Two requests, one of them audited, and a CA that may be made twice.     *)
EXTENDS Server

CONSTANTS r1, r2

MCRequests == {r1, r2}
MCKindsOf == [r \in MCRequests |-> IF r = r1 THEN Logged ELSE {"refused", "plain"}]

=============================================================================
