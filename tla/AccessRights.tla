---------------------------- MODULE AccessRights ----------------------------
(***************************************************************************)
(* What the access-grants component promises about the right of a user to  *)
(* an asset: it is asked for, decided once, and ends.  Nobody holds a right *)
(* that was not asked for, and nobody asks for a right already held.       *)
(***************************************************************************)
CONSTANTS Users, Assets

VARIABLE right

Pairs == Users \X Assets

Init == right = [p \in Pairs |-> "none"]

Ask(p) == right[p] = "none" /\ right' = [right EXCEPT ![p] = "asked"]

\* Approved: the right is held.  Denied or withdrawn: it is not.
Decide(p) ==
    /\ right[p] = "asked"
    /\ \E outcome \in {"held", "none"} : right' = [right EXCEPT ![p] = outcome]

\* Rights end by revocation, one at a time, or with time, any number at once.
End(ps) ==
    /\ \A p \in ps : right[p] = "held"
    /\ right' = [p \in Pairs |-> IF p \in ps THEN "none" ELSE right[p]]

Next ==
    \/ \E p \in Pairs : Ask(p) \/ Decide(p)
    \/ \E ps \in SUBSET Pairs : End(ps)

Spec == Init /\ [][Next]_right
=============================================================================
