---------------------------- MODULE RefreshFamily ----------------------------
(***************************************************************************)
(* What the session service promises about a refresh-token family, with no *)
(* documents, transactions or markers in it: a family is one right to a    *)
(* session.  The right is a token in somebody's hands or a claim that is   *)
(* being turned into the next token; it can be lost at any time and a lost *)
(* right never comes back.                                                 *)
(***************************************************************************)
CONSTANT Family

VARIABLE right

Right == {"unborn", "token", "claim", "lost"}

Init == right = [f \in Family |-> "unborn"]

Login(f) == /\ right[f] = "unborn"
            /\ right' = [right EXCEPT ![f] = "token"]

Claim(f) == /\ right[f] = "token"
            /\ right' = [right EXCEPT ![f] = "claim"]

Renew(f) == /\ right[f] = "claim"
            /\ right' = [right EXCEPT ![f] = "token"]

\* A revocation, an expiry or a crash; revokeAll takes several at once.
Lose(F) == /\ \A f \in F : right[f] \in {"token", "claim"}
           /\ right' = [f \in Family |-> IF f \in F THEN "lost" ELSE right[f]]

Next == \/ \E f \in Family : Login(f) \/ Claim(f) \/ Renew(f)
        \/ \E F \in SUBSET Family : Lose(F)

Spec == Init /\ [][Next]_right
=============================================================================
