---------------------------- MODULE PriorityQueue ----------------------------
(***************************************************************************)
(* What min_queue.h promises: a collection of items, of which the caller   *)
(* sees and removes a minimal one.  Among equal items any may come first,  *)
(* but a new one does not take the place of the one already at the head.   *)
(***************************************************************************)
CONSTANTS
    Items,     \* what the caller may put in
    Greater,   \* the pairs for which the compare function returns non-zero
    NULL       \* what minq_peek returns when there is nothing

VARIABLES
    content,   \* the items put in and not yet removed
    head       \* what minq_peek returns

IsMinimal(x, S) == x \in S /\ \A y \in S : <<x, y>> \notin Greater

Init ==
    /\ content = {}
    /\ head = NULL

(* minq_push *)
Insert(x) ==
    /\ x \notin content
    /\ content' = content \cup {x}
    /\ head' = IF content = {} \/ <<head, x>> \in Greater THEN x ELSE head

(* minq_pop *)
Remove ==
    /\ content # {}
    /\ content' = content \ {head}
    /\ IF content' = {} THEN head' = NULL
       ELSE \E x \in content' : IsMinimal(x, content') /\ head' = x

(* minq_del *)
Forget ==
    /\ content' = {}
    /\ head' = NULL

Next == (\E x \in Items : Insert(x)) \/ Remove \/ Forget

Spec == Init /\ [][Next]_<<content, head>>
============================================================================
