--------------------------- MODULE ResourceBudget ---------------------------
(***************************************************************************)
(* What a KResourceLimit promises of one resource: amounts are taken from  *)
(* a budget only while they fit, and given back.  An owner may announce    *)
(* beforehand that it is about to give something back (the hint of         *)
(* KResourceLimit::Release), which makes nothing available yet.            *)
(***************************************************************************)
EXTENDS Naturals

VARIABLES used,    \* what has been taken
          limit    \* the budget

Take(v) == /\ v > 0 /\ used + v <= limit
           /\ used' = used + v

Give(v) == /\ v > 0 /\ v <= used
           /\ used' = used - v

(* The budget may be changed to anything that covers what is in use.       *)
SetLimit(l) == /\ used <= l
               /\ limit' = l /\ UNCHANGED used

Init == used = 0 /\ limit \in Nat
Next == \/ UNCHANGED limit /\ \E v \in 1 .. limit : Take(v) \/ Give(v)
        \/ SetLimit(limit')
Spec == Init /\ [][Next]_<<used, limit>>
=============================================================================
