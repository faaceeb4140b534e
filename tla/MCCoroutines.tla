------------------------------- MODULE MCCoroutines -------------------------------
(* Three coroutines, as in the demo, that suspend up to four times each: A    *)
(* also after B and C have ended.                                            *)
EXTENDS Coroutines

CONSTANTS A, B, C

MCOrder == <<A, B, C>>
MCKinds == {"greenlets", "threads"}
MCSuspensions == {p \in [{A, B, C} -> 0..4] : p[B] <= 3 /\ p[C] <= 2}

MCFallback == {"threads"}
MCDemo == {[c \in {A, B, C} |-> IF c = B THEN 3 ELSE 2]}
================================================================================
