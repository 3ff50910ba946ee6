--------------------------- MODULE MinQueueProofs ---------------------------
(***************************************************************************)
(* The heap of min_queue.c is a priority queue, whatever the items, their  *)
(* order and SLOTS_PER_MALLOC.                                             *)
(***************************************************************************)
EXTENDS MinQueue, TLAPS, WellFoundedInduction

----------------------------------------------------------------------------
(* The tree. *)

(* The parent of a node stands strictly above it, and only the root is the  *)
(* parent of one node.                                                      *)
LEMMA ParentOfNode ==
    \A k \in Nat : k # 0 =>
        /\ PARENT(k) \in Nat /\ PARENT(k) < k
        /\ k = LCHILD(PARENT(k)) \/ k = RCHILD(PARENT(k))
        /\ PARENT(k) = 0 <=> k = 1
  BY DEF PARENT, LCHILD, RCHILD

LEMMA ParentOfChild ==
    \A x \in Nat : /\ x # 0 => PARENT(LCHILD(x)) = x
                   /\ PARENT(RCHILD(x)) = x
  BY DEF PARENT, LCHILD, RCHILD

LEMMA CmpAsymmetric ==
    ASSUME NEW a \in Items, NEW b \in Items, cmp(a, b)
    PROVE  ~cmp(b, a)
  BY GreaterAssumption DEF cmp

LEMMA CmpTransitive ==
    ASSUME NEW a \in Items, NEW b \in Items, NEW c \in Items, ~cmp(a, b), ~cmp(b, c)
    PROVE  ~cmp(a, c)
  BY GreaterAssumption DEF cmp

LEMMA CmpIrreflexive ==
    ASSUME NEW a \in Items
    PROVE  ~cmp(a, a)
  BY CmpAsymmetric

(* A set of node numbers has a least one. *)
LEMMA LeastNode ==
    ASSUME NEW T, T \subseteq Nat, T # {}
    PROVE  \E x \in T : \A y \in T : x <= y
<1>1. PICK x \in T : \A y \in T : <<y, x>> \notin OpToRel(<, Nat)
  BY NatLessThanWellFounded, WFMin
<1>2. \A y \in T : ~ (y < x)
  BY <1>1, Zenon DEF OpToRel
<1> QED
  BY <1>2

(* In a tree in order below node r, the node r is a minimal one: the least  *)
(* node that is smaller than r would have a parent that is smaller too.     *)
LEMMA RootOfOrderedTree ==
    ASSUME NEW n \in Nat, NEW r \in {0, 1}, r < n,
           NEW t, \A k \in r .. n - 1 : t[k] \in Items,
           \A k \in r + 1 .. n - 1 : ~cmp(t[PARENT(k)], t[k])
    PROVE  \A k \in r .. n - 1 : ~cmp(t[r], t[k])
<1> DEFINE Smaller == {k \in r .. n - 1 : cmp(t[r], t[k])}
<1> SUFFICES ASSUME Smaller # {} PROVE FALSE
  OBVIOUS
<1>1. Smaller \subseteq Nat
  OBVIOUS
<1>2. PICK k \in Smaller : \A l \in Smaller : k <= l
  BY <1>1, LeastNode
<1>3. /\ k \in r .. n - 1 /\ cmp(t[r], t[k]) /\ t[k] \in Items /\ t[r] \in Items
  OBVIOUS
<1>4. k # r
  BY <1>3, CmpIrreflexive
<1>5. k \in r + 1 .. n - 1 /\ k \in Nat /\ k # 0
  BY <1>3, <1>4
<1>6. PARENT(k) \in r .. n - 1 /\ PARENT(k) < k
  BY <1>5, ParentOfNode
<1>7. ~cmp(t[r], t[PARENT(k)])
  BY <1>2, <1>6
<1>8. ~cmp(t[PARENT(k)], t[k])
  BY <1>5
<1>9. t[PARENT(k)] \in Items
  BY <1>6
<1> QED
  BY <1>3, <1>7, <1>8, <1>9, CmpTransitive

----------------------------------------------------------------------------
(* The inductive invariant, one lemma per step. *)

LEMMA InitIndInv == Init => IndInv
  BY SlotsAssumption DEF Init, IndInv, TypeOK, Filled, Apart, OrderedElsewhere, OrderedAcross, Array

(* What a realloc keeps. *)
LEMMA ReserveKeeps ==
    ASSUME TypeOK, Reserve
    PROVE  /\ alloc' \in Nat /\ size < alloc' /\ alloc <= alloc'
           /\ e' \in Array(alloc')
           /\ \A k \in 0 .. size - 1 : e'[k] = e[k]
<1>1. alloc' \in Nat /\ size < alloc' /\ alloc <= alloc'
  BY SlotsAssumption DEF TypeOK, Reserve
<1>2. PICK n \in Nat : n = alloc'
  BY <1>1
<1>3. e' = [k \in 0 .. n - 1 |-> IF k < alloc THEN e[k] ELSE NULL]
  BY <1>2 DEF Reserve
<1>4. size \in Nat /\ alloc \in Nat /\ size <= alloc /\ size < n /\ alloc <= n
  BY <1>1, <1>2 DEF TypeOK
<1>5. \A k \in 0 .. alloc - 1 : e[k] \in Items \cup {NULL}
  BY DEF TypeOK, Array
<1>6. ASSUME NEW k \in 0 .. n - 1
      PROVE  /\ k < alloc => e'[k] = e[k]
             /\ e'[k] \in Items \cup {NULL}
  <2>1. CASE k < alloc
    <3>1. k \in 0 .. alloc - 1
      BY <1>4, <2>1
    <3> QED
      BY <1>3, <1>5, <2>1, <3>1
  <2>2. CASE ~ (k < alloc)
    BY <1>3, <2>2
  <2> QED
    BY <2>1, <2>2
<1>7. e' \in [0 .. n - 1 -> Items \cup {NULL}]
  BY <1>3, <1>6
<1>8. ASSUME NEW k \in 0 .. size - 1
      PROVE  e'[k] = e[k]
  <2>1. k \in 0 .. n - 1 /\ k < alloc
    BY <1>4
  <2> QED
    BY <1>6, <2>1
<1> QED
  BY <1>1, <1>2, <1>7, <1>8 DEF Array

LEMMA NewKeeps == IndInv /\ minq_new => IndInv'
  BY SlotsAssumption
  DEF IndInv, minq_new, TypeOK, Filled, Apart, OrderedElsewhere, OrderedAcross, Array

LEMMA DelKeeps == IndInv /\ minq_del => IndInv'
  BY DEF IndInv, minq_del, TypeOK, Filled, Apart, OrderedElsewhere, OrderedAcross, Array

LEMMA BeginPushKeeps ==
    ASSUME IndInv, NEW x \in Items, BeginPush(x)
    PROVE  /\ IndInv'
           /\ \A k \in 0 .. size - 1 : Node(k)' = Node(k)
           /\ \A k : k = size => Node(k)' = x
<1>1. /\ TypeOK /\ call = "idle" /\ size' = size + 1 /\ i' = size /\ v' = x /\ call' = "push"
      /\ size \in Nat /\ i' # 0 <=> size # 0
  BY DEF IndInv, BeginPush, TypeOK
<1>2. /\ alloc' \in Nat /\ size < alloc' /\ e' \in Array(alloc')
      /\ \A k \in 0 .. size - 1 : e'[k] = e[k]
  BY <1>1, ReserveKeeps DEF BeginPush
<1>3. TypeOK'
  BY <1>1, <1>2 DEF TypeOK
<1>4. /\ \A k \in 0 .. size - 1 : Node(k)' = Node(k)
      /\ \A k : k = size => Node(k)' = x
  BY <1>1, <1>2 DEF Node
<1>5. Filled'
  BY <1>1, <1>4 DEF Filled, IndInv
<1>6. Apart'
  <2>1. \A k \in 0 .. size - 1 : Node(k) # x
    BY <1>1 DEF BeginPush, Held, Node
  <2> QED
    BY <1>1, <1>4, <2>1 DEF Apart, IndInv
<1>7. OrderedElsewhere'
  <2> SUFFICES ASSUME NEW k \in 1 .. size' - 1, k # size
               PROVE  ~cmp(Node(PARENT(k))', Node(k)')
    BY <1>1 DEF OrderedElsewhere, OnItsWay, cmp
  <2>1. k \in 1 .. size - 1 /\ PARENT(k) \in 0 .. size - 1
    BY <1>1, ParentOfNode
  <2>2. ~cmp(Node(PARENT(k)), Node(k))
    BY <1>1, <2>1 DEF IndInv, OrderedElsewhere, OnItsWay
  <2>3. Node(PARENT(k))' = Node(PARENT(k)) /\ Node(k)' = Node(k)
    BY <1>4, <2>1
  <2> QED
    BY <2>2, <2>3
<1>8. OrderedAcross'
  <2> SUFFICES ASSUME NEW k \in 1 .. size' - 1, PARENT(k) = size
               PROVE  FALSE
    BY <1>1 DEF OrderedAcross
  <2> QED
    BY <1>1, ParentOfNode
<1> QED
  BY <1>1, <1>3, <1>4, <1>5, <1>6, <1>7, <1>8 DEF IndInv

LEMMA SiftUpKeeps ==
    ASSUME IndInv, SiftUp
    PROVE  /\ IndInv'
           /\ \A k \in 0 .. size - 1 :
                 Node(k)' = IF k = i THEN Node(PARENT(i))
                            ELSE IF k = PARENT(i) THEN v
                            ELSE Node(k)
<1>0. PICK p : p = PARENT(i)
  OBVIOUS
<1>1. /\ call = "push" /\ i # 0 /\ cmp(e[p], v)
      /\ e' = [e EXCEPT ![i] = e[p]] /\ i' = p
      /\ size' = size /\ alloc' = alloc /\ call' = "push" /\ v' = v
  BY <1>0 DEF SiftUp, Rises
<1>2. /\ size \in Nat /\ alloc \in Nat /\ size <= alloc /\ e \in Array(alloc)
      /\ i \in 1 .. size - 1 /\ v \in Items
  BY <1>1 DEF IndInv, TypeOK
<1>3. p \in 0 .. size - 1 /\ p < i
  BY <1>0, <1>2, ParentOfNode
<1>4. \A k \in 0 .. size - 1 : e'[k] = IF k = i THEN e[p] ELSE e[k]
  BY <1>1, <1>2 DEF Array
<1>5. Node(i) = v /\ Node(p) = e[p]
  BY <1>1, <1>3 DEF Node
<1>6. \A k \in 0 .. size - 1 :
          Node(k)' = IF k = i THEN Node(p) ELSE IF k = p THEN v ELSE Node(k)
  BY <1>1, <1>3, <1>4, <1>5 DEF Node
<1>7. \A k \in 0 .. size - 1 : Node(k) \in Items
  BY DEF IndInv, Filled
<1>8. cmp(Node(p), v)
  BY <1>1, <1>5
<1>9. TypeOK'
  <2>1. e[p] \in Items \cup {NULL}
    BY <1>2, <1>3 DEF Array
  <2>2. e' \in Array(alloc)
    BY <1>1, <1>2, <2>1 DEF Array
  <2> QED
    BY <1>1, <1>2, <1>3, <2>2 DEF TypeOK
<1>10. Filled'
  BY <1>1, <1>2, <1>3, <1>6, <1>7 DEF Filled
<1>11. Apart'
  <2> SUFFICES ASSUME NEW k \in 0 .. size - 1, NEW l \in 0 .. size - 1, Node(k)' = Node(l)'
               PROVE  k = l
    BY <1>1 DEF Apart
  <2>1. \A m, n \in 0 .. size - 1 : Node(m) = Node(n) => m = n
    BY DEF IndInv, Apart
  <2> QED
    BY <1>2, <1>3, <1>5, <1>6, <2>1
(* The parent moved down is smaller than the subtree it moves to, and       *)
(* greater than the item that takes its place.                              *)
<1>12. OrderedElsewhere'
  <2> SUFFICES ASSUME NEW k \in 1 .. size - 1, k # p
               PROVE  ~cmp(Node(PARENT(k))', Node(k)')
    BY <1>1 DEF OrderedElsewhere, OnItsWay, cmp
  <2>1. k \in 0 .. size - 1 /\ PARENT(k) \in 0 .. size - 1 /\ PARENT(k) # k
    BY <1>2, ParentOfNode
  <2>2. k # i => ~cmp(Node(PARENT(k)), Node(k))
    BY <1>1 DEF IndInv, OrderedElsewhere, OnItsWay
  <2>3. CASE k = i
    <3>1. Node(k)' = Node(p) /\ Node(PARENT(k))' = v
      BY <1>0, <1>3, <1>6, <2>1, <2>3
    <3> QED
      BY <1>3, <1>7, <1>8, <1>2, <3>1, CmpAsymmetric
  <2>4. CASE k # i /\ PARENT(k) = i
    <3>1. Node(k)' = Node(k) /\ Node(PARENT(k))' = Node(p)
      BY <1>2, <1>6, <2>1, <2>4
    <3>2. ~cmp(Node(p), Node(k))
      BY <1>0, <1>1, <2>4 DEF IndInv, OrderedAcross
    <3> QED
      BY <3>1, <3>2
  <2>5. CASE k # i /\ PARENT(k) = p
    <3>1. Node(k)' = Node(k) /\ Node(PARENT(k))' = v
      BY <1>3, <1>6, <2>1, <2>5
    <3>2. ~cmp(Node(p), Node(k)) /\ ~cmp(v, Node(p))
      BY <1>2, <1>3, <1>7, <1>8, <2>2, <2>5, CmpAsymmetric
    <3> QED
      BY <1>2, <1>3, <1>7, <2>1, <3>1, <3>2, CmpTransitive
  <2>6. CASE k # i /\ PARENT(k) # i /\ PARENT(k) # p
    <3>1. Node(k)' = Node(k) /\ Node(PARENT(k))' = Node(PARENT(k))
      BY <1>6, <2>1, <2>6
    <3> QED
      BY <2>2, <2>6, <3>1
  <2> QED
    BY <2>3, <2>4, <2>5, <2>6
<1>13. OrderedAcross'
  <2> SUFFICES ASSUME p # 0, NEW k \in 1 .. size - 1, PARENT(k) = p
               PROVE  ~cmp(Node(PARENT(p))', Node(k)')
    BY <1>1 DEF OrderedAcross, cmp
  <2> DEFINE g == PARENT(p)
  <2>1. g \in 0 .. size - 1 /\ g < p /\ k \in 0 .. size - 1 /\ p < k
    BY <1>2, <1>3, ParentOfNode
  <2>2. Node(g)' = Node(g)
    BY <1>2, <1>3, <1>6, <2>1
  <2>3. ~cmp(Node(g), Node(p))
    BY <1>1, <1>2, <1>3 DEF IndInv, OrderedElsewhere, OnItsWay
  <2>4. CASE k = i
    BY <1>6, <2>1, <2>2, <2>3, <2>4
  <2>5. CASE k # i
    <3>1. Node(k)' = Node(k)
      BY <1>6, <2>1, <2>5
    <3>2. ~cmp(Node(p), Node(k))
      BY <1>1, <2>5 DEF IndInv, OrderedElsewhere, OnItsWay
    <3> QED
      BY <1>3, <1>7, <2>1, <2>2, <2>3, <3>1, <3>2, CmpTransitive
  <2> QED
    BY <2>4, <2>5
<1> QED
  BY <1>0, <1>1, <1>6, <1>9, <1>10, <1>11, <1>12, <1>13 DEF IndInv

LEMMA EndPushKeeps ==
    ASSUME IndInv, EndPush
    PROVE  /\ IndInv'
           /\ \A k \in 0 .. size - 1 : Node(k)' = Node(k)
           /\ \A k \in 1 .. size - 1 : ~cmp(Node(PARENT(k)), Node(k))
<1>1. /\ call = "push" /\ ~ (i # 0 /\ cmp(e[PARENT(i)], v))
      /\ e' = [e EXCEPT ![i] = v] /\ i' = 0
      /\ size' = size /\ alloc' = alloc /\ call' = "idle" /\ v' = NULL
  BY DEF EndPush, Rises
<1>2. /\ size \in Nat /\ alloc \in Nat /\ size <= alloc /\ e \in Array(alloc)
      /\ i \in 0 .. size - 1 /\ v \in Items
  BY <1>1 DEF IndInv, TypeOK
<1>3. \A k \in 0 .. size - 1 : Node(k)' = Node(k)
  BY <1>1, <1>2 DEF Node, Array
<1>4. \A k \in 1 .. size - 1 : ~cmp(Node(PARENT(k)), Node(k))
  <2> SUFFICES ASSUME NEW k \in 1 .. size - 1
               PROVE  ~cmp(Node(PARENT(k)), Node(k))
    OBVIOUS
  <2>1. CASE k = i
    <3>1. PARENT(i) # i
      BY <1>2, <2>1, ParentOfNode
    <3> QED
      BY <1>1, <2>1, <3>1 DEF Node
  <2>2. CASE k # i
    BY <1>1, <2>2 DEF IndInv, OrderedElsewhere, OnItsWay
  <2> QED
    BY <2>1, <2>2
<1>5. TypeOK'
  <2>1. e' \in Array(alloc)
    BY <1>1, <1>2 DEF Array
  <2> QED
    BY <1>1, <1>2, <2>1 DEF TypeOK
<1>6. Filled' /\ Apart'
  BY <1>1, <1>3 DEF IndInv, Filled, Apart
<1>7. OrderedElsewhere'
  <2> SUFFICES ASSUME NEW k \in 1 .. size - 1
               PROVE  ~cmp(Node(PARENT(k))', Node(k)')
    BY <1>1 DEF OrderedElsewhere, cmp
  <2>1. k \in 0 .. size - 1 /\ PARENT(k) \in 0 .. size - 1
    BY <1>2, ParentOfNode
  <2> QED
    BY <1>3, <1>4, <2>1
<1> QED
  BY <1>1, <1>3, <1>4, <1>5, <1>6, <1>7 DEF IndInv, OrderedAcross

LEMMA BeginPopKeeps ==
    ASSUME IndInv, BeginPop
    PROVE  /\ IndInv'
           /\ \A k \in 1 .. size - 2 : Node(k)' = Node(k)
           /\ size > 1 => \A k : k = 0 => Node(k)' = Node(size - 1)
<1>1. /\ call = "idle" /\ size # 0 /\ size' = size - 1
      /\ e' = [e EXCEPT ![0] = e[size - 1]] /\ i' = 0 /\ call' = "pop"
      /\ alloc' = alloc /\ v' = v
  BY DEF BeginPop, minq_empty
<1>2. /\ size \in Nat /\ alloc \in Nat /\ size <= alloc /\ e \in Array(alloc) /\ v = NULL
  BY <1>1 DEF IndInv, TypeOK
<1>3. \A k \in 0 .. size - 1 : Node(k) = e[k] /\ e[k] \in Items
  BY <1>1 DEF Node, IndInv, Filled
<1>4. /\ \A k : k = 0 => Node(k)' = e[size - 1]
      /\ \A k \in 1 .. size - 2 : Node(k)' = e[k]
  BY <1>1, <1>2 DEF Node, Array
<1>5. TypeOK'
  <2>1. e[size - 1] \in Items
    BY <1>1, <1>2, <1>3
  <2>2. e' \in Array(alloc)
    BY <1>1, <1>2, <2>1 DEF Array
  <2>3. size - 1 \in Nat /\ size - 1 <= alloc
    BY <1>1, <1>2
  <2> QED
    BY <1>1, <1>2, <2>2, <2>3 DEF TypeOK
<1>6. Filled'
  <2> SUFFICES ASSUME NEW k \in 0 .. size - 2
               PROVE  Node(k)' \in Items
    BY <1>1, <1>2 DEF Filled
  <2> QED
    BY <1>2, <1>3, <1>4
<1>7. Apart'
  <2> SUFFICES ASSUME NEW k \in 0 .. size - 2, NEW l \in 0 .. size - 2, Node(k)' = Node(l)'
               PROVE  k = l
    BY <1>1, <1>2 DEF Apart
  <2>1. \A m, n \in 0 .. size - 1 : e[m] = e[n] => m = n
    BY <1>3 DEF IndInv, Apart
  <2>2. \A m \in 0 .. size - 2 : Node(m)' = IF m = 0 THEN e[size - 1] ELSE e[m]
    BY <1>2, <1>4
  <2> QED
    BY <1>2, <2>1, <2>2
<1>8. OrderedElsewhere'
  <2> SUFFICES ASSUME NEW k \in 1 .. size - 2, PARENT(k) # 0
               PROVE  ~cmp(Node(PARENT(k))', Node(k)')
    BY <1>1, <1>2 DEF OrderedElsewhere, OnItsWay, cmp
  <2>1. PARENT(k) \in 1 .. size - 2 /\ k \in 1 .. size - 1
    BY <1>2, ParentOfNode
  <2>2. Node(PARENT(k))' = e[PARENT(k)] /\ Node(k)' = e[k]
    BY <1>4, <2>1
  <2>3. ~cmp(Node(PARENT(k)), Node(k))
    BY <1>1, <2>1 DEF IndInv, OrderedElsewhere, OnItsWay
  <2> QED
    BY <1>1, <2>2, <2>3 DEF Node
<1> QED
  BY <1>1, <1>2, <1>3, <1>4, <1>5, <1>6, <1>7, <1>8 DEF IndInv, OrderedAcross

(* What has_child finds: a minimal child, or nothing below x to sink to.    *)
LEMMA MinimalChild ==
    ASSUME size \in Nat, NEW x \in Nat, x < size \/ x = 0,
           \A k \in 0 .. size - 1 : e[k] \in Items
    PROVE  /\ has_child(x) # 0 =>
                  /\ has_child(x) \in 1 .. size - 1
                  /\ PARENT(has_child(x)) = x
                  /\ \A k \in 1 .. size - 1 : PARENT(k) = x => ~cmp(e[has_child(x)], e[k])
           /\ has_child(x) = 0 =>
                  \A k \in 1 .. size - 1 : PARENT(k) = x => ~cmp(e[x], e[k])
<1> DEFINE l == 2 * x
           r == 2 * x + 1
<1>1. l \in Nat /\ r \in Nat /\ l < r /\ (l = 0 <=> x = 0)
  OBVIOUS
<1>2. ASSUME NEW k \in 1 .. size - 1, PARENT(k) = x
      PROVE  k = l \/ k = r
  BY <1>2, ParentOfNode DEF LCHILD, RCHILD
<1>3. (x # 0 => PARENT(l) = x) /\ PARENT(r) = x
  BY ParentOfChild DEF LCHILD, RCHILD
<1>4. CASE l >= size
  <2>1. has_child(x) = 0
    BY <1>4 DEF has_child, LCHILD
  <2>2. \A k \in 1 .. size - 1 : PARENT(k) # x
    BY <1>1, <1>2, <1>4
  <2> QED
    BY <2>1, <2>2
<1>5. CASE l < size /\ r < size /\ cmp(e[l], e[r])
  <2>1. has_child(x) = r
    BY <1>1, <1>5 DEF has_child, LCHILD, RCHILD
  <2>2. e[l] \in Items /\ e[r] \in Items
    BY <1>1, <1>5
  <2>3. ~cmp(e[r], e[l]) /\ ~cmp(e[r], e[r])
    BY <1>5, <2>2, CmpAsymmetric, CmpIrreflexive
  <2> QED
    BY <1>1, <1>2, <1>3, <1>5, <2>1, <2>3
<1>6. CASE l < size /\ ~ (r < size /\ cmp(e[l], e[r]))
  <2>1. has_child(x) = l
    BY <1>1, <1>6 DEF has_child, LCHILD, RCHILD
  <2>2. e[l] \in Items
    BY <1>1, <1>6
  <2>3. ~cmp(e[l], e[l])
    BY <2>2, CmpIrreflexive
  <2>4. \A k \in 1 .. size - 1 : PARENT(k) = x => ~cmp(e[l], e[k])
    BY <1>1, <1>2, <1>6, <2>3
  <2> QED
    BY <1>1, <1>3, <1>6, <2>1, <2>4
<1> QED
  BY <1>1, <1>4, <1>5, <1>6

(* A node that does not sink is in order with its children. *)
LEMMA SettledNode ==
    ASSUME size \in Nat, i \in Nat, i < size \/ i = 0, ~Sinks,
           \A k \in 0 .. size - 1 : e[k] \in Items
    PROVE  \A k \in 1 .. size - 1 : PARENT(k) = i => ~cmp(e[i], e[k])
<1> SUFFICES ASSUME NEW k \in 1 .. size - 1, PARENT(k) = i
             PROVE  ~cmp(e[i], e[k])
  OBVIOUS
<1>1. i \in 0 .. size - 1 /\ k \in 0 .. size - 1
  OBVIOUS
<1>2. CASE has_child(i) = 0
  BY <1>2, MinimalChild
<1>3. CASE has_child(i) # 0
  <2>1. has_child(i) \in 0 .. size - 1 /\ ~cmp(e[has_child(i)], e[k])
    BY <1>3, MinimalChild
  <2>2. ~cmp(e[i], e[has_child(i)])
    BY <1>3 DEF Sinks
  <2>3. e[i] \in Items /\ e[has_child(i)] \in Items /\ e[k] \in Items
    BY <1>1, <2>1
  <2> QED
    BY <2>1, <2>2, <2>3, CmpTransitive
<1> QED
  BY <1>2, <1>3

LEMMA SiftDownKeeps ==
    ASSUME IndInv, SiftDown
    PROVE  /\ IndInv'
           /\ i' \in 1 .. size - 1 /\ PARENT(i') = i /\ i \in 0 .. size - 1
           /\ \A k \in 0 .. size - 1 :
                 e'[k] = IF k = i THEN e[i'] ELSE IF k = i' THEN e[i] ELSE e[k]
           /\ \A k \in 0 .. size - 1 : Node(k) = e[k] /\ Node(k)' = e'[k]
<1>1. PICK c : c = has_child(i)
  OBVIOUS
<1>2. /\ call = "pop" /\ c # 0 /\ cmp(e[i], e[c])
      /\ e' = [e EXCEPT ![i] = e[c], ![c] = e[i]] /\ i' = c
      /\ size' = size /\ alloc' = alloc /\ call' = "pop" /\ v' = v
  BY <1>1 DEF SiftDown, Sinks
<1>3. /\ size \in Nat /\ alloc \in Nat /\ size <= alloc /\ e \in Array(alloc) /\ v = NULL
      /\ i \in Nat /\ (i < size \/ i = 0)
  BY <1>2 DEF IndInv, TypeOK
<1>4. \A k \in 0 .. size - 1 : Node(k) = e[k] /\ e[k] \in Items
  BY <1>2 DEF Node, IndInv, Filled
<1>5. /\ c \in 1 .. size - 1 /\ PARENT(c) = i
      /\ \A k \in 1 .. size - 1 : PARENT(k) = i => ~cmp(e[c], e[k])
  BY <1>1, <1>2, <1>3, <1>4, MinimalChild
<1>6. i \in 0 .. size - 1 /\ i < c
  BY <1>3, <1>5, ParentOfNode
<1>7. \A k \in 0 .. size - 1 :
          e'[k] = IF k = i THEN e[c] ELSE IF k = c THEN e[i] ELSE e[k]
  BY <1>2, <1>3, <1>6 DEF Array
<1>8. \A k \in 0 .. size - 1 : Node(k)' = e'[k]
  BY <1>2 DEF Node
<1>9. e[i] \in Items /\ e[c] \in Items
  BY <1>4, <1>5, <1>6
<1>10. TypeOK'
  <2>1. e' \in Array(alloc)
    BY <1>2, <1>3, <1>9 DEF Array
  <2> QED
    BY <1>2, <1>3, <1>5, <2>1 DEF TypeOK
<1>11. Filled'
  <2> SUFFICES ASSUME NEW k \in 0 .. size - 1
               PROVE  Node(k)' \in Items
    BY <1>2 DEF Filled
  <2>1. e[k] \in Items /\ Node(k)' = e'[k]
    BY <1>4, <1>8
  <2> QED
    BY <1>7, <1>9, <2>1
<1>12. Apart'
  <2> SUFFICES ASSUME NEW k \in 0 .. size - 1, NEW l \in 0 .. size - 1, Node(k)' = Node(l)'
               PROVE  k = l
    BY <1>2 DEF Apart
  <2>1. \A m, n \in 0 .. size - 1 : e[m] = e[n] => m = n
    BY <1>4 DEF IndInv, Apart
  <2>2. c \in 0 .. size - 1
    BY <1>5
  <2>3. e'[k] = e'[l]
    BY <1>8
  <2> QED
    BY <1>6, <1>7, <2>1, <2>2, <2>3
<1>13. OrderedElsewhere'
  <2> SUFFICES ASSUME NEW k \in 1 .. size - 1, PARENT(k) # c
               PROVE  ~cmp(e'[PARENT(k)], e'[k])
    <3>1. \A k \in 1 .. size - 1 : k \in 0 .. size - 1 /\ PARENT(k) \in 0 .. size - 1
      BY <1>3, ParentOfNode
    <3> QED
      BY <1>2, <1>8, <3>1 DEF OrderedElsewhere, OnItsWay, cmp
  <2>1. k \in 0 .. size - 1 /\ PARENT(k) \in 0 .. size - 1 /\ PARENT(k) # k
    BY <1>3, ParentOfNode
  <2>2. PARENT(k) # i => ~cmp(e[PARENT(k)], e[k])
    BY <1>2, <1>4, <2>1 DEF IndInv, OrderedElsewhere, OnItsWay
  <2>3. CASE k = c
    <3>1. e'[k] = e[i] /\ e'[PARENT(k)] = e[c]
      BY <1>5, <1>6, <1>7, <2>1, <2>3
    <3> QED
      BY <1>2, <1>9, <3>1, CmpAsymmetric
  <2>4. CASE k # c /\ PARENT(k) = i
    <3>1. e'[k] = e[k] /\ e'[PARENT(k)] = e[c]
      BY <1>6, <1>7, <2>1, <2>4
    <3> QED
      BY <1>5, <2>4, <3>1
  <2>5. CASE k = i
    <3>1. i # 0 /\ e'[k] = e[c] /\ e'[PARENT(k)] = e[PARENT(k)]
      BY <1>7, <2>1, <2>5
    <3>2. ~cmp(e[PARENT(i)], e[c])
      BY <1>2, <1>4, <1>5, <2>1, <2>5, <3>1 DEF IndInv, OrderedAcross
    <3> QED
      BY <2>5, <3>1, <3>2
  <2>6. CASE k # c /\ k # i /\ PARENT(k) # i
    <3>1. e'[k] = e[k] /\ e'[PARENT(k)] = e[PARENT(k)]
      BY <1>7, <2>1, <2>6
    <3> QED
      BY <2>2, <2>6, <3>1
  <2> QED
    BY <2>3, <2>4, <2>5, <2>6
<1>14. OrderedAcross'
  <2> SUFFICES ASSUME NEW k \in 1 .. size - 1, PARENT(k) = c
               PROVE  ~cmp(e'[i], e'[k])
    <3>1. \A k \in 1 .. size - 1 : k \in 0 .. size - 1
      OBVIOUS
    <3>2. PARENT(c) = i /\ i \in 0 .. size - 1
      BY <1>5, <1>6
    <3>3. OrderedAcross' <=> \A k \in 1 .. size - 1 : PARENT(k) = c => ~cmp(Node(PARENT(c))', Node(k)')
      BY <1>2 DEF OrderedAcross, cmp
    <3> QED
      BY <1>8, <3>1, <3>2, <3>3
  <2>1. k \in 0 .. size - 1 /\ c < k
    BY <1>3, ParentOfNode
  <2>2. e'[i] = e[c] /\ e'[k] = e[k]
    BY <1>5, <1>6, <1>7, <2>1
  <2>3. ~cmp(Node(PARENT(k)), Node(k))
    BY <1>2, <1>6 DEF IndInv, OrderedElsewhere, OnItsWay
  <2> QED
    BY <1>4, <1>5, <2>1, <2>2, <2>3
<1> QED
  BY <1>2, <1>4, <1>5, <1>6, <1>7, <1>8, <1>10, <1>11, <1>12, <1>13, <1>14 DEF IndInv

LEMMA EndPopKeeps ==
    ASSUME IndInv, EndPop
    PROVE  /\ IndInv'
           /\ \A k \in 0 .. size - 1 : Node(k)' = Node(k)
<1>1. /\ call = "pop" /\ ~Sinks /\ call' = "idle" /\ i' = 0
      /\ size' = size /\ alloc' = alloc /\ e' = e /\ v' = v
  BY DEF EndPop, heapVars
<1>2. size \in Nat /\ i \in Nat /\ (i < size \/ i = 0) /\ v = NULL
  BY <1>1 DEF IndInv, TypeOK
<1>3. \A k : Node(k) = e[k] /\ Node(k)' = e[k]
  BY <1>1 DEF Node
<1>4. TypeOK'
  BY <1>1 DEF IndInv, TypeOK
<1>5. Filled' /\ Apart'
  BY <1>1, <1>3 DEF IndInv, Filled, Apart
<1>6. OrderedElsewhere'
  <2> SUFFICES ASSUME NEW k \in 1 .. size - 1
               PROVE  ~cmp(e[PARENT(k)], e[k])
    BY <1>1, <1>3 DEF OrderedElsewhere, cmp
  <2>1. CASE PARENT(k) = i
    BY <1>1, <1>2, <1>3, <2>1, SettledNode DEF IndInv, Filled
  <2>2. CASE PARENT(k) # i
    BY <1>1, <1>3, <2>2 DEF IndInv, OrderedElsewhere, OnItsWay
  <2> QED
    BY <2>1, <2>2
<1> QED
  BY <1>1, <1>3, <1>4, <1>5, <1>6 DEF IndInv, OrderedAcross

LEMMA NextKeeps == IndInv /\ [Next]_vars => IndInv'
<1> SUFFICES ASSUME IndInv, [Next]_vars PROVE IndInv'
  OBVIOUS
<1>1. CASE minq_new
  BY <1>1, NewKeeps
<1>2. CASE minq_del
  BY <1>2, DelKeeps
<1>3. ASSUME NEW x \in Items, BeginPush(x) PROVE IndInv'
  BY <1>3, BeginPushKeeps
<1>4. CASE SiftUp
  BY <1>4, SiftUpKeeps
<1>5. CASE EndPush
  BY <1>5, EndPushKeeps
<1>6. CASE BeginPop
  BY <1>6, BeginPopKeeps
<1>7. CASE SiftDown
  BY <1>7, SiftDownKeeps
<1>8. CASE EndPop
  BY <1>8, EndPopKeeps
<1>9. CASE UNCHANGED vars
  BY <1>9 DEF vars, heapVars, IndInv, TypeOK, Filled, Apart, OrderedElsewhere,
              OrderedAcross, OnItsWay, Node, cmp, PARENT
<1> QED
  BY <1>1, <1>2, <1>3, <1>4, <1>5, <1>6, <1>7, <1>8, <1>9 DEF Next

(* The invariant of min_queue.c, at each turn of its loops. *)
THEOREM HeapInvariant == Spec => []IndInv
  BY InitIndInv, NextKeeps, PTL DEF Spec

(* The array never holds more items than it has slots, and the insertion    *)
(* point is always inside.                                                  *)
THEOREM HeapTyped == Spec => []TypeOK
<1>1. IndInv => TypeOK
  BY DEF IndInv
<1> QED
  BY <1>1, HeapInvariant, PTL

(* Outside the calls, no node is greater than one of its children.          *)
THEOREM HeapOrdered == Spec => []HeapOrder
<1>1. IndInv => HeapOrder
  <2> SUFFICES ASSUME IndInv, call = "idle", NEW k \in 1 .. size - 1
               PROVE  ~cmp(e[PARENT(k)], e[k])
    BY DEF HeapOrder
  <2> QED
    BY DEF IndInv, OrderedElsewhere, OnItsWay, Node
<1> QED
  BY <1>1, HeapInvariant, PTL

(* What minq_peek returns is behind no other item. *)
THEOREM PeekIsMinimal == Spec => []RootIsMinimal
<1>1. IndInv => RootIsMinimal
  <2> SUFFICES ASSUME IndInv, call = "idle", NEW k \in 0 .. size - 1
               PROVE  ~cmp(minq_peek, e[k])
    BY DEF RootIsMinimal
  <2>1. size \in Nat /\ 0 < size
    BY DEF IndInv, TypeOK
  <2>2. \A n \in 0 .. size - 1 : e[n] \in Items
    BY DEF IndInv, Filled, Node
  <2>3. \A n \in 0 + 1 .. size - 1 : ~cmp(e[PARENT(n)], e[n])
    BY DEF IndInv, OrderedElsewhere, OnItsWay, Node
  <2>4. ~cmp(e[0], e[k])
    BY <2>1, <2>2, <2>3, RootOfOrderedTree
  <2> QED
    BY <2>1, <2>4 DEF minq_peek, minq_empty
<1> QED
  BY <1>1, HeapInvariant, PTL

----------------------------------------------------------------------------
(* The heap implements the priority queue: a push takes effect when it      *)
(* begins, a pop too, and the turns of their loops show nothing.            *)

Content == {Node(k) : k \in 0 .. size - 1}

LEMMA InitRefines == Init => Queue!Init
  BY DEF Init, Queue!Init, FutureRoot

LEMMA EmptiedRefines ==
    ASSUME IndInv, minq_new \/ minq_del
    PROVE  Queue!Forget
<1>1. size' = 0
  BY DEF minq_new, minq_del
<1> QED
  BY <1>1 DEF Queue!Forget, FutureRoot

LEMMA BeginPushRefines ==
    ASSUME IndInv, NEW x \in Items, BeginPush(x)
    PROVE  Queue!Insert(x)
<1>1. /\ call = "idle" /\ size' = size + 1 /\ i' = size /\ v' = x /\ call' = "push"
      /\ size \in Nat
  BY DEF IndInv, BeginPush, TypeOK
<1>2. /\ \A k \in 0 .. size - 1 : Node(k)' = Node(k)
      /\ \A k : k = size => Node(k)' = x
  BY BeginPushKeeps
<1>3. x \notin Content
  BY <1>1 DEF BeginPush, Held, Content, Node
<1>4. Content' = Content \cup {x}
  <2>1. Content' = {Node(k)' : k \in 0 .. size}
    BY <1>1 DEF Content
  <2>2. \A k \in 0 .. size : k \in 0 .. size - 1 \/ k = size
    BY <1>1
  <2>3. size \in 0 .. size /\ \A k \in 0 .. size - 1 : k \in 0 .. size
    BY <1>1
  <2>4. ASSUME NEW y \in Content' PROVE y \in Content \cup {x}
    BY <1>2, <2>1, <2>2 DEF Content
  <2>5. ASSUME NEW y \in Content \cup {x} PROVE y \in Content'
    BY <1>2, <2>1, <2>3 DEF Content
  <2> QED
    BY <2>4, <2>5
<1>5. size = 0 <=> Content = {}
  BY <1>1 DEF Content
<1>6. FutureRoot' = IF Content = {} \/ <<FutureRoot, x>> \in Greater THEN x ELSE FutureRoot
  <2>1. CASE size = 0
    BY <1>1, <1>5, <2>1 DEF FutureRoot
  <2>2. CASE size # 0
    <3>1. FutureRoot = e[0]
      BY <1>1, <2>2 DEF FutureRoot
    <3>2. e'[0] = e[0]
      <4>1. e'[0] = Node(0)' /\ Node(0) = e[0] /\ 0 \in 0 .. size - 1
        BY <1>1, <2>2 DEF Node
      <4> QED
        BY <1>2, <4>1
    <3>3. FutureRoot' = IF cmp(e'[0], x) THEN x ELSE e'[0]
      BY <1>1, <2>2 DEF FutureRoot, cmp
    <3> QED
      BY <1>5, <2>2, <3>1, <3>2, <3>3 DEF cmp
  <2> QED
    BY <2>1, <2>2
<1> QED
  BY <1>3, <1>4, <1>6 DEF Queue!Insert, Content

LEMMA SiftUpRefines ==
    ASSUME IndInv, SiftUp
    PROVE  Content' = Content /\ FutureRoot' = FutureRoot
<1>1. PICK p : p = PARENT(i)
  OBVIOUS
<1>2. /\ call = "push" /\ i # 0 /\ cmp(e[p], v)
      /\ e' = [e EXCEPT ![i] = e[p]] /\ i' = p
      /\ size' = size /\ alloc' = alloc /\ call' = "push" /\ v' = v
  BY <1>1 DEF SiftUp, Rises
<1>3. size \in Nat /\ i \in 1 .. size - 1 /\ size <= alloc /\ alloc \in Nat /\ e \in Array(alloc)
  BY <1>2 DEF IndInv, TypeOK
<1>4. p \in 0 .. size - 1 /\ p < i
  BY <1>1, <1>3, ParentOfNode
<1>5. Node(i) = v /\ i \in 0 .. size - 1
  BY <1>2, <1>3 DEF Node
<1>6. \A k \in 0 .. size - 1 :
          Node(k)' = IF k = i THEN Node(p) ELSE IF k = p THEN Node(i) ELSE Node(k)
  BY <1>1, <1>5, SiftUpKeeps
<1>7. Content' = {Node(k)' : k \in 0 .. size - 1}
  BY <1>2 DEF Content
<1>8. Content' = Content
  <2>1. ASSUME NEW y \in Content' PROVE y \in Content
    BY <1>4, <1>5, <1>6, <1>7 DEF Content
  <2>2. ASSUME NEW y \in Content PROVE y \in Content'
    <3>1. PICK k \in 0 .. size - 1 : y = Node(k)
      BY DEF Content
    <3>2. \E m \in 0 .. size - 1 : Node(m)' = y
      <4>1. CASE k = i
        BY <1>4, <1>6, <3>1, <4>1
      <4>2. CASE k = p
        BY <1>5, <1>6, <3>1, <4>2
      <4>3. CASE k # i /\ k # p
        BY <1>6, <3>1, <4>3
      <4> QED
        BY <4>1, <4>2, <4>3
    <3> QED
      BY <1>7, <3>2
  <2> QED
    BY <2>1, <2>2
<1>9. FutureRoot' = FutureRoot
  <2>1. e'[0] = e[0]
    BY <1>2, <1>3 DEF Array
  <2>2. size # 0
    BY <1>3
  <2>3. FutureRoot = IF cmp(e[0], v) THEN v ELSE e[0]
    BY <1>2, <2>2 DEF FutureRoot
  <2>4. FutureRoot' = IF p = 0 \/ cmp(e[0], v) THEN v ELSE e[0]
    BY <1>2, <2>1, <2>2 DEF FutureRoot, cmp
  <2> QED
    BY <1>2, <2>3, <2>4
<1> QED
  BY <1>8, <1>9

LEMMA EndPushRefines ==
    ASSUME IndInv, EndPush
    PROVE  Content' = Content /\ FutureRoot' = FutureRoot
<1>1. /\ call = "push" /\ e' = [e EXCEPT ![i] = v] /\ i' = 0
      /\ size' = size /\ call' = "idle"
  BY DEF EndPush
<1>2. size \in Nat /\ i \in 0 .. size - 1 /\ size <= alloc /\ alloc \in Nat /\ e \in Array(alloc)
  BY <1>1 DEF IndInv, TypeOK
<1>3. /\ \A k \in 0 .. size - 1 : Node(k)' = Node(k)
      /\ \A k \in 1 .. size - 1 : ~cmp(Node(PARENT(k)), Node(k))
  BY EndPushKeeps
<1>4. Content' = Content
  BY <1>1, <1>3 DEF Content
<1>5. FutureRoot' = e'[0]
  BY <1>1, <1>2 DEF FutureRoot
<1>6. CASE i = 0
  BY <1>1, <1>2, <1>4, <1>5, <1>6 DEF FutureRoot, Array
<1>7. CASE i # 0
  <2> DEFINE t == [k \in 0 .. size - 1 |-> Node(k)]
  <2>1. \A k \in 0 .. size - 1 : t[k] = Node(k) /\ t[k] \in Items
    BY DEF IndInv, Filled
  <2>2. \A k \in 1 .. size - 1 : k \in 0 .. size - 1 /\ PARENT(k) \in 0 .. size - 1
    BY <1>2, ParentOfNode
  <2>3. \A k \in 0 + 1 .. size - 1 : ~cmp(t[PARENT(k)], t[k])
    BY <1>3, <2>1, <2>2
  <2>4. ~cmp(t[0], t[i])
    <3> HIDE DEF t
    <3>1. 0 < size
      BY <1>2
    <3> QED
      BY <1>2, <2>1, <2>3, <3>1, RootOfOrderedTree
  <2>5. t[0] = e[0] /\ t[i] = v
    BY <1>1, <1>2, <1>7 DEF Node
  <2>6. e'[0] = e[0]
    BY <1>1, <1>2, <1>7 DEF Array
  <2>7. FutureRoot = e[0]
    <3> HIDE DEF t
    <3> QED
      BY <1>1, <1>2, <1>7, <2>4, <2>5 DEF FutureRoot
  <2> QED
    BY <1>4, <1>5, <2>6, <2>7
<1> QED
  BY <1>6, <1>7

(* The next root is the old last entry or the child of the root: both are   *)
(* behind no item left, since node 1 was the root of all the others.        *)
LEMMA BeginPopRefines ==
    ASSUME IndInv, BeginPop
    PROVE  Queue!Remove
<1>1. /\ call = "idle" /\ size # 0 /\ size' = size - 1 /\ i' = 0 /\ call' = "pop"
      /\ size \in Nat /\ size <= alloc /\ alloc \in Nat /\ e \in Array(alloc)
      /\ e' = [e EXCEPT ![0] = e[size - 1]]
  BY DEF BeginPop, minq_empty, IndInv, TypeOK
<1>2. \A k \in 0 .. size - 1 : Node(k) = e[k] /\ e[k] \in Items
  BY <1>1 DEF Node, IndInv, Filled
<1>3. \A k, l \in 0 .. size - 1 : e[k] = e[l] => k = l
  BY <1>2 DEF IndInv, Apart
<1>4. FutureRoot = e[0] /\ e[0] \in Content
  <2>1. 0 \in 0 .. size - 1
    BY <1>1
  <2> QED
    BY <1>1, <1>2, <2>1 DEF FutureRoot, Content
<1>5. \A k : Node(k)' = e'[k]
  BY <1>1 DEF Node
<1>6. \A k \in 0 .. size - 2 : e'[k] = IF k = 0 THEN e[size - 1] ELSE e[k]
  BY <1>1 DEF Array
<1>7. Content' = {e'[k] : k \in 0 .. size - 2}
  <2>1. Content' = {e'[k] : k \in 0 .. (size - 1) - 1}
    BY <1>1, <1>5 DEF Content
  <2>2. (size - 1) - 1 = size - 2
    BY <1>1
  <2> QED
    BY <2>1, <2>2
<1>8. Content = {e[k] : k \in 0 .. size - 1}
  BY <1>2 DEF Content
<1>9. Content' = Content \ {e[0]}
  <2>1. ASSUME NEW y \in Content' PROVE y \in Content \ {e[0]}
    <3>1. PICK k \in 0 .. size - 2 : y = e'[k]
      BY <1>7
    <3>2. k \in 0 .. size - 1 /\ 0 \in 0 .. size - 1 /\ size - 1 \in 0 .. size - 1 /\ size - 1 # 0
      BY <1>1
    <3> QED
      BY <1>3, <1>6, <1>8, <3>1, <3>2
  <2>2. ASSUME NEW y \in Content \ {e[0]} PROVE y \in Content'
    <3>1. PICK k \in 0 .. size - 1 : y = e[k] /\ k # 0
      BY <1>8
    <3>2. CASE k = size - 1
      <4>1. 0 \in 0 .. size - 2 /\ e'[0] = y
        BY <1>1, <1>6, <3>1, <3>2
      <4> QED
        BY <1>7, <4>1
    <3>3. CASE k # size - 1
      <4>1. k \in 0 .. size - 2 /\ e'[k] = y
        BY <1>1, <1>6, <3>1, <3>3
      <4> QED
        BY <1>7, <4>1
    <3> QED
      BY <3>2, <3>3
  <2> QED
    BY <2>1, <2>2
<1>10. CASE size = 1
  <2>1. Content' = {} /\ FutureRoot' = NULL
    BY <1>1, <1>7, <1>10 DEF FutureRoot
  <2> QED
    BY <1>4, <1>9, <2>1 DEF Queue!Remove, Content
<1>11. CASE size > 1
  <2>1. 0 \in 0 .. size - 2 /\ 1 \in 0 .. size - 1 /\ size - 1 \in 1 .. size - 1
    BY <1>1, <1>11
  <2>2. Content' # {}
    BY <1>7, <2>1
  <2>3. \A k \in 1 .. size - 1 : ~cmp(e[1], e[k])
    <3>1. \A n \in 1 + 1 .. size - 1 : ~cmp(e[PARENT(n)], e[n])
      BY <1>1 DEF IndInv, OrderedElsewhere, OnItsWay, Node
    <3>2. \A n \in 1 .. size - 1 : e[n] \in Items
      BY <1>2
    <3> QED
      BY <1>1, <1>11, <3>1, <3>2, RootOfOrderedTree
  <2>4. \A y \in Content' : \E k \in 1 .. size - 1 : y = e[k]
    <3> SUFFICES ASSUME NEW k \in 0 .. size - 2
                 PROVE  \E n \in 1 .. size - 1 : e'[k] = e[n]
      BY <1>7
    <3>1. CASE k = 0
      BY <1>6, <2>1, <3>1
    <3>2. CASE k # 0
      <4>1. k \in 1 .. size - 1
        BY <1>1, <3>2
      <4> QED
        BY <1>6, <3>2, <4>1
    <3> QED
      BY <3>1, <3>2
  <2>5. e'[0] = e[size - 1] /\ e[size - 1] \in Items /\ e[1] \in Items
    BY <1>2, <1>6, <2>1
  <2>6. (has_child(0))' = IF size > 2 /\ cmp(e[size - 1], e[1]) THEN 1 ELSE 0
    <3>1. size - 1 > 0 /\ (1 < size - 1 <=> size > 2)
      BY <1>1, <1>11
    <3>2. size > 2 => e'[1] = e[1]
      BY <1>1, <1>6
    <3>3. (has_child(0))' = IF 0 >= size - 1 THEN 0
                            ELSE IF 1 < size - 1 /\ cmp(e'[0], e'[1]) THEN 1 ELSE 0
      BY <1>1 DEF has_child, LCHILD, RCHILD, cmp
    <3>4. (has_child(0))' = IF size > 2 /\ cmp(e'[0], e'[1]) THEN 1 ELSE 0
      BY <1>1, <3>1, <3>3
    <3>5. CASE size > 2
      BY <2>5, <3>2, <3>4, <3>5
    <3>6. CASE ~ (size > 2)
      BY <3>4, <3>6
    <3> QED
      BY <3>5, <3>6
  <2>7. CASE size > 2 /\ cmp(e[size - 1], e[1])
    <3>1. (has_child(0))' = 1 /\ e'[1] = e[1] /\ 1 \in 0 .. size - 2
      BY <1>1, <1>6, <2>6, <2>7
    <3>2. FutureRoot' = e[1]
      <4>1. Sinks'
        BY <1>1, <2>5, <2>7, <3>1 DEF Sinks, cmp
      <4> QED
        BY <1>1, <1>11, <3>1, <4>1 DEF FutureRoot
    <3>3. e[1] \in Content'
      BY <1>7, <3>1
    <3>4. \A y \in Content' : <<e[1], y>> \notin Greater
      BY <2>3, <2>4 DEF cmp
    <3> QED
      BY <1>4, <1>9, <2>2, <3>2, <3>3, <3>4 DEF Queue!Remove, Queue!IsMinimal, Content
  <2>8. CASE ~ (size > 2 /\ cmp(e[size - 1], e[1]))
    <3>1. FutureRoot' = e[size - 1]
      <4>1. ~Sinks'
        BY <1>1, <2>6, <2>8 DEF Sinks
      <4> QED
        BY <1>1, <1>11, <2>5, <4>1 DEF FutureRoot
    <3>2. e[size - 1] \in Content'
      BY <1>7, <2>1, <2>5
    <3>3. \A k \in 1 .. size - 1 : ~cmp(e[size - 1], e[k])
      <4> SUFFICES ASSUME NEW k \in 1 .. size - 1
                   PROVE  ~cmp(e[size - 1], e[k])
        OBVIOUS
      <4>1. e[k] \in Items
        BY <1>2
      <4>2. CASE size > 2
        BY <2>3, <2>5, <2>8, <4>1, <4>2, CmpTransitive
      <4>3. CASE ~ (size > 2)
        <5>1. k = size - 1
          BY <1>1, <1>11, <4>3
        <5> QED
          BY <2>5, <5>1, CmpIrreflexive
      <4> QED
        BY <4>2, <4>3
    <3>4. \A y \in Content' : <<e[size - 1], y>> \notin Greater
      BY <2>4, <3>3 DEF cmp
    <3> QED
      BY <1>4, <1>9, <2>2, <3>1, <3>2, <3>4 DEF Queue!Remove, Queue!IsMinimal, Content
  <2> QED
    BY <2>7, <2>8
<1> QED
  BY <1>1, <1>10, <1>11

LEMMA SiftDownRefines ==
    ASSUME IndInv, SiftDown
    PROVE  Content' = Content /\ FutureRoot' = FutureRoot
<1>1. PICK c : c = i'
  OBVIOUS
<1>2. /\ call = "pop" /\ Sinks /\ size' = size /\ call' = "pop" /\ has_child(i) = c
      /\ size \in Nat /\ i \in Nat
  BY <1>1 DEF SiftDown, IndInv, TypeOK
<1>3. /\ c \in 1 .. size - 1 /\ PARENT(c) = i /\ i \in 0 .. size - 1
      /\ \A k \in 0 .. size - 1 :
            e'[k] = IF k = i THEN e[c] ELSE IF k = c THEN e[i] ELSE e[k]
      /\ \A k \in 0 .. size - 1 : Node(k) = e[k] /\ Node(k)' = e'[k]
  BY <1>1, SiftDownKeeps
<1>4. c \in 0 .. size - 1 /\ c # i /\ c # 0 /\ 0 \in 0 .. size - 1 /\ size # 0
  BY <1>2, <1>3, ParentOfNode
<1>5. Content = {e[k] : k \in 0 .. size - 1} /\ Content' = {e'[k] : k \in 0 .. size - 1}
  BY <1>2, <1>3 DEF Content
<1>6. Content' = Content
  <2>1. ASSUME NEW y \in Content' PROVE y \in Content
    BY <1>3, <1>4, <1>5
  <2>2. ASSUME NEW y \in Content PROVE y \in Content'
    <3>1. PICK k \in 0 .. size - 1 : y = e[k]
      BY <1>5
    <3>2. \E m \in 0 .. size - 1 : e'[m] = y
      <4>1. CASE k = i
        BY <1>3, <1>4, <3>1, <4>1
      <4>2. CASE k = c
        BY <1>3, <1>4, <3>1, <4>2
      <4>3. CASE k # i /\ k # c
        BY <1>3, <3>1, <4>3
      <4> QED
        BY <4>1, <4>2, <4>3
    <3> QED
      BY <1>5, <3>2
  <2> QED
    BY <2>1, <2>2
<1>7. FutureRoot' = e'[0]
  BY <1>1, <1>2, <1>4 DEF FutureRoot
<1>8. CASE i = 0
  BY <1>2, <1>3, <1>4, <1>6, <1>7, <1>8 DEF FutureRoot
<1>9. CASE i # 0
  BY <1>2, <1>3, <1>4, <1>6, <1>7, <1>9 DEF FutureRoot
<1> QED
  BY <1>8, <1>9

LEMMA EndPopRefines ==
    ASSUME IndInv, EndPop
    PROVE  Content' = Content /\ FutureRoot' = FutureRoot
<1>1. /\ call = "pop" /\ ~Sinks /\ call' = "idle" /\ size' = size /\ e' = e
  BY DEF EndPop, heapVars
<1>2. Content' = Content
  BY <1>1, EndPopKeeps DEF Content
<1> QED
  BY <1>1, <1>2 DEF FutureRoot

(* The functions of min_queue.c keep the promises of min_queue.h, whatever  *)
(* the items, their order and SLOTS_PER_MALLOC: no item is lost, doubled or *)
(* made up, and the one that leaves is a minimal one.                       *)
THEOREM HeapIsPriorityQueue == Spec => IsPriorityQueue
<1>1. Init => Queue!Init
  BY InitRefines
<1>2. IndInv /\ [Next]_vars => [Queue!Next]_<<Content, FutureRoot>>
  <2> SUFFICES ASSUME IndInv, [Next]_vars
               PROVE  [Queue!Next]_<<Content, FutureRoot>>
    OBVIOUS
  <2>1. CASE minq_new \/ minq_del
    BY <2>1, EmptiedRefines DEF Queue!Next
  <2>2. ASSUME NEW x \in Items, BeginPush(x) PROVE Queue!Next
    BY <2>2, BeginPushRefines DEF Queue!Next
  <2>3. CASE SiftUp
    BY <2>3, SiftUpRefines
  <2>4. CASE EndPush
    BY <2>4, EndPushRefines
  <2>5. CASE BeginPop
    BY <2>5, BeginPopRefines DEF Queue!Next
  <2>6. CASE SiftDown
    BY <2>6, SiftDownRefines
  <2>7. CASE EndPop
    BY <2>7, EndPopRefines
  <2>8. CASE UNCHANGED vars
    BY <2>8 DEF vars, heapVars, Content, FutureRoot, Node, cmp, Sinks, has_child, LCHILD, RCHILD
  <2> QED
    BY <2>1, <2>2, <2>3, <2>4, <2>5, <2>6, <2>7, <2>8 DEF Next
<1>3. Spec => Init /\ [][Next]_vars /\ []IndInv
  BY HeapInvariant DEF Spec
<1> QED
  BY <1>1, <1>2, <1>3, PTL DEF IsPriorityQueue, Queue!Spec, Content
============================================================================
