------------------------------ MODULE MinQueue ------------------------------
(***************************************************************************)
(* The binary heap of the link simulator (min_queue.c), one turn of its    *)
(* loops at a time.  An item is the pointer the caller hands over; the     *)
(* caller never pushes a pointer that is still in the queue.               *)
(*                                                                         *)
(* A malloc or realloc that fails changes nothing and is a stuttering      *)
(* step, as are a pop of an empty queue and the three readers.             *)
(***************************************************************************)
EXTENDS Integers, FiniteSets

CONSTANTS
    Items,            \* the pointers the caller may push
    Greater,          \* <<a, b>> is in it iff cmp(a, b) returns non-zero
    SlotsPerMalloc,   \* SLOTS_PER_MALLOC (20)
    NULL              \* no pointer, and the content of a slot never written

ASSUME SlotsAssumption == SlotsPerMalloc \in Nat \ {0}
ASSUME ItemsAssumption == NULL \notin Items

(* Expiration dates are compared: a strict order, in which two items may    *)
(* stand at the same place.                                                 *)
ASSUME GreaterAssumption ==
    \A a, b, c \in Items :
        /\ <<a, b>> \in Greater => <<b, a>> \notin Greater
        /\ <<a, b>> \notin Greater /\ <<b, c>> \notin Greater => <<a, c>> \notin Greater

VARIABLES
    e,       \* the array, indexed from 0 as in C
    size,    \* its slots in use
    alloc,   \* its slots allocated
    call,    \* the function that is running; "none" when there is no queue
    i,       \* push: the insertion point; pop: the current node
    v        \* push: the new item

heapVars == <<e, size, alloc>>
vars     == <<heapVars, call, i, v>>

Array(n) == [0 .. n - 1 -> Items \cup {NULL}]

TypeOK ==
    /\ size \in Nat /\ alloc \in Nat /\ size <= alloc
    /\ e \in Array(alloc)
    /\ call \in {"none", "idle", "push", "pop"}
    /\ i \in Nat /\ (i < size \/ i = 0) /\ (call \in {"none", "idle"} => i = 0)
    /\ IF call = "push" THEN v \in Items /\ i < size ELSE v = NULL

Init ==
    /\ e \in Array(0)
    /\ size = 0 /\ alloc = 0
    /\ call = "none"
    /\ i = 0 /\ v = NULL

----------------------------------------------------------------------------
cmp(a, b) == <<a, b>> \in Greater

LCHILD(x) == 2 * x
RCHILD(x) == 2 * x + 1

Mutant_ParentRoundedUp(x) == (x + 1) \div 2

PARENT(x) == x \div 2

(* The root is its own left child, so it has one child, at 1.               *)
Mutant_FirstChild(x) == IF LCHILD(x) >= size THEN 0 ELSE LCHILD(x)

has_child(x) ==
    IF LCHILD(x) >= size THEN 0
    ELSE IF RCHILD(x) < size /\ cmp(e[LCHILD(x)], e[RCHILD(x)]) THEN RCHILD(x)
    ELSE LCHILD(x)

minq_size  == size
minq_empty == size = 0
minq_peek  == IF minq_empty THEN NULL ELSE e[0]

----------------------------------------------------------------------------
minq_new ==
    /\ call = "none"
    /\ call' = "idle"
    /\ size' = 0
    /\ alloc' = SlotsPerMalloc
    /\ e' = [k \in 0 .. SlotsPerMalloc - 1 |-> NULL]
    /\ UNCHANGED <<i, v>>

(* The items left are not freed. *)
minq_del ==
    /\ call = "idle"
    /\ call' = "none"
    /\ size' = 0
    /\ alloc' = 0
    /\ e' \in Array(0)
    /\ UNCHANGED <<i, v>>

(* The room for one more item: realloc keeps what the array holds.          *)
Mutant_NeverGrows == UNCHANGED <<e, alloc>>

Mutant_LosesTheArray ==
    /\ alloc' = IF size = alloc THEN size + SlotsPerMalloc ELSE alloc
    /\ e' = [k \in 0 .. alloc' - 1 |-> IF size < alloc THEN e[k] ELSE NULL]

Reserve ==
    /\ alloc' = IF size = alloc THEN size + SlotsPerMalloc ELSE alloc
    /\ e' = [k \in 0 .. alloc' - 1 |-> IF k < alloc THEN e[k] ELSE NULL]

Held == {e[k] : k \in 0 .. size - 1}

BeginPush(x) ==
    /\ call = "idle"
    /\ x \notin Held
    /\ Reserve
    /\ size' = size + 1
    /\ i' = size
    /\ v' = x
    /\ call' = "push"

Mutant_StopsBelowTheRoot == i > 1 /\ cmp(e[PARENT(i)], v)

Rises == i # 0 /\ cmp(e[PARENT(i)], v)

SiftUp ==
    /\ call = "push" /\ Rises
    /\ e' = [e EXCEPT ![i] = e[PARENT(i)]]
    /\ i' = PARENT(i)
    /\ UNCHANGED <<size, alloc, call, v>>

EndPush ==
    /\ call = "push" /\ ~Rises
    /\ e' = [e EXCEPT ![i] = v]
    /\ call' = "idle"
    /\ i' = 0 /\ v' = NULL
    /\ UNCHANGED <<size, alloc>>

(* The last entry takes the place of the root. *)
BeginPop ==
    /\ call = "idle" /\ ~minq_empty
    /\ size' = size - 1
    /\ e' = [e EXCEPT ![0] = e[size - 1]]
    /\ i' = 0
    /\ call' = "pop"
    /\ UNCHANGED <<alloc, v>>

Sinks == has_child(i) # 0 /\ cmp(e[i], e[has_child(i)])

SiftDown ==
    /\ call = "pop" /\ Sinks
    /\ e' = [e EXCEPT ![i] = e[has_child(i)], ![has_child(i)] = e[i]]
    /\ i' = has_child(i)
    /\ UNCHANGED <<size, alloc, call, v>>

EndPop ==
    /\ call = "pop" /\ ~Sinks
    /\ call' = "idle"
    /\ i' = 0
    /\ UNCHANGED <<heapVars, v>>

Next ==
    \/ minq_new
    \/ minq_del
    \/ \E x \in Items : BeginPush(x)
    \/ SiftUp
    \/ EndPush
    \/ BeginPop
    \/ SiftDown
    \/ EndPop

Spec == Init /\ [][Next]_vars

(* A function called runs to its end. *)
FairSpec == Spec /\ WF_vars(SiftUp \/ EndPush) /\ WF_vars(SiftDown \/ EndPop)

----------------------------------------------------------------------------
(* The queue as its caller sees it, at each step of a call. *)

(* The array with the new item at its insertion point. *)
Node(k) == IF call = "push" /\ k = i THEN v ELSE e[k]

(* What the call under way will leave at the root. *)
FutureRoot ==
    IF size = 0 THEN NULL
    ELSE IF call = "push" /\ (i = 0 \/ cmp(e[0], v)) THEN v
    ELSE IF call = "pop" /\ i = 0 /\ Sinks THEN e[has_child(0)]
    ELSE e[0]

Queue == INSTANCE PriorityQueue
            WITH content <- {Node(k) : k \in 0 .. size - 1}, head <- FutureRoot

----------------------------------------------------------------------------
(* The inductive invariant behind the properties below. *)
Filled == \A k \in 0 .. size - 1 : Node(k) \in Items

Apart == \A k, l \in 0 .. size - 1 : Node(k) = Node(l) => k = l

(* The only place where the order may fail is the node on its way. *)
OnItsWay(k) == \/ call = "push" /\ k = i
               \/ call = "pop" /\ PARENT(k) = i

OrderedElsewhere ==
    \A k \in 1 .. size - 1 : OnItsWay(k) \/ ~cmp(Node(PARENT(k)), Node(k))

(* The children of that node are in order with its parent. *)
OrderedAcross ==
    call \in {"push", "pop"} /\ i # 0 =>
        \A k \in 1 .. size - 1 : PARENT(k) = i => ~cmp(Node(PARENT(i)), Node(k))

IndInv ==
    /\ TypeOK
    /\ call = "none" => size = 0
    /\ Filled
    /\ Apart
    /\ OrderedElsewhere
    /\ OrderedAcross

----------------------------------------------------------------------------
(* "Invariant to be maintained: A node in the tree is always < than its     *)
(* child nodes" (l. 39-41 of min_queue.c), up to equal items, and outside   *)
(* the calls.                                                               *)
HeapOrder ==
    call = "idle" => \A k \in 1 .. size - 1 : ~cmp(e[PARENT(k)], e[k])

(* "The root is the minimal node" (l. 41): what minq_peek returns is behind *)
(* no other item of the queue.                                              *)
RootIsMinimal ==
    call = "idle" => \A k \in 0 .. size - 1 : ~cmp(minq_peek, e[k])

(* The functions of min_queue.c do what min_queue.h says of them: no item   *)
(* is lost, doubled or made up, and the head is a minimal one.              *)
IsPriorityQueue == Queue!Spec

(* Each call comes to its end. *)
CallsReturn == call \in {"push", "pop"} ~> call = "idle"
============================================================================
