---------------------------- MODULE BpMapProofs ----------------------------
(***************************************************************************)
(* Proofs about the breakpoint map, for any number of breakpoints: while   *)
(* breakpoints are set the tree is a red-black tree, and it stands for the *)
(* set of the addresses, also while they are deleted afterwards.           *)
(***************************************************************************)
EXTENDS BpMap, FiniteSetTheorems, NaturalsInduction, WellFoundedInduction, TLAPS

-----------------------------------------------------------------------------
(* Induction. *)

LEMMA SetInduction ==
  ASSUME NEW T, 0 \in T, \A n \in Nat : n \in T => n + 1 \in T PROVE Nat \subseteq T
<1> DEFINE R == OpToRel(<, Nat)
           S == Nat \ T
<1> SUFFICES ASSUME S # {} PROVE FALSE
  OBVIOUS
<1>1. IsWellFoundedOn(R, Nat)
  BY NatLessThanWellFounded
<1>2. \A x, y \in Nat : <<x, y>> \in R <=> x < y
  BY DEF OpToRel
<1> HIDE DEF R
<1>3. PICK m \in S : \A y \in S : ~(<<y, m>> \in R)
  BY <1>1, WFMin
<1>4. m # 0 /\ m - 1 \in Nat
  BY <1>3
<1>5. m - 1 \in S
  BY <1>3, <1>4
<1>6. <<m - 1, m>> \in R
  BY <1>2, <1>3, <1>4
<1> QED
  BY <1>3, <1>5, <1>6

\* Induction along a way.
LEMMA StepInduction ==
  ASSUME NEW T, 0 \in T, \A k \in 0 .. MaxNode - 1 : k \in T => k + 1 \in T
  PROVE  \A k \in 0 .. MaxNode : k \in T
<1> DEFINE S == {k \in Nat : k <= MaxNode => k \in T}
<1>1. 0 \in S /\ \A k \in Nat : k \in S => k + 1 \in S
  BY BpMapAssumption
<1> HIDE DEF S
<1>2. Nat \subseteq S
  BY <1>1, SetInduction
<1> QED
  BY <1>2, BpMapAssumption DEF S

-----------------------------------------------------------------------------
(* The heap. *)

Field == {"data", "color", "left", "right", "parent"}
Link  == {"left", "right", "parent"}
Node  == [data : Addr, color : {RED, BLACK}, left : Ptr, right : Ptr, parent : Ptr]
Heap  == UNION {[L -> Node] : L \in SUBSET (1 .. MaxNode)}
Tree  == [root : Ptr, node : Heap, undef : {FALSE}]

Values(f) == IF f = "data" THEN Addr ELSE IF f = "color" THEN {RED, BLACK} ELSE Ptr

LEMMA TreeFacts ==
  ASSUME NEW t \in Tree
  PROVE  /\ t.root \in Ptr /\ t.undef = FALSE
         /\ Live(t) \subseteq 1 .. MaxNode /\ NULL \notin Live(t)
         /\ t.node \in [Live(t) -> Node]
<1>1. t.root \in Ptr /\ t.node \in Heap /\ t.undef = FALSE
  BY DEF Tree
<1>2. PICK L \in SUBSET (1 .. MaxNode) : t.node \in [L -> Node]
  BY <1>1 DEF Heap
<1>3. DOMAIN t.node = L
  BY <1>2
<1>4. 0 \notin 1 .. MaxNode
  BY BpMapAssumption
<1> QED
  BY <1>1, <1>2, <1>3, <1>4 DEF Live, NULL

LEMMA MakeTree ==
  ASSUME NEW r \in Ptr, NEW L \in SUBSET (1 .. MaxNode), NEW g \in [L -> Node]
  PROVE  [root |-> r, node |-> g, undef |-> FALSE] \in Tree
BY DEF Tree, Heap

LEMMA GetType ==
  ASSUME NEW t \in Tree, NEW n \in Live(t), NEW f \in Field PROVE Get(t, n, f) \in Values(f)
<1>1. t.node[n] \in Node
  BY TreeFacts
<1>2. CASE f = "data"
  BY <1>1, <1>2 DEF Node, Get, Values
<1>3. CASE f = "color"
  BY <1>1, <1>3 DEF Node, Get, Values
<1>4. CASE f = "left"
  BY <1>1, <1>4 DEF Node, Get, Values
<1>5. CASE f = "right"
  BY <1>1, <1>5 DEF Node, Get, Values
<1>6. CASE f = "parent"
  BY <1>1, <1>6 DEF Node, Get, Values
<1> QED
  BY <1>2, <1>3, <1>4, <1>5, <1>6 DEF Field

LEMMA PutGet ==
  ASSUME NEW t \in Tree, NEW n \in Live(t), NEW f \in Field, NEW v \in Values(f)
  PROVE  LET u == Put(t, n, f, v)
         IN  /\ u \in Tree /\ Live(u) = Live(t) /\ u.root = t.root
             /\ \A m : \A e \in Field : Get(u, m, e) = IF m = n /\ e = f THEN v ELSE Get(t, m, e)
<1> DEFINE u == Put(t, n, f, v)
           r == [t.node[n] EXCEPT ![f] = v]
           g == [t.node EXCEPT ![n] = r]
<1>1. t.node[n] \in Node /\ t.node \in [Live(t) -> Node] /\ Live(t) \subseteq 1 .. MaxNode
  BY TreeFacts
<1>2. r \in Node /\ \A e \in Field : r[e] = IF e = f THEN v ELSE t.node[n][e]
  <2>1. CASE f = "data"
    BY <1>1, <2>1 DEF Node, Field, Values
  <2>2. CASE f = "color"
    BY <1>1, <2>2 DEF Node, Field, Values
  <2>3. CASE f = "left"
    BY <1>1, <2>3 DEF Node, Field, Values
  <2>4. CASE f = "right"
    BY <1>1, <2>4 DEF Node, Field, Values
  <2>5. CASE f = "parent"
    BY <1>1, <2>5 DEF Node, Field, Values
  <2> QED
    BY <2>1, <2>2, <2>3, <2>4, <2>5 DEF Field
<1>3. u = [t EXCEPT !.node = g]
  BY DEF Put
<1> HIDE DEF r
<1>4. g \in [Live(t) -> Node] /\ \A m \in Live(t) : g[m] = IF m = n THEN r ELSE t.node[m]
  BY <1>1, <1>2
<1> HIDE DEF g, u
<1>5. u = [root |-> t.root, node |-> g, undef |-> FALSE]
  BY <1>3 DEF Tree
<1>6. u \in Tree /\ u.root = t.root /\ u.node = g
  BY <1>1, <1>4, <1>5, MakeTree, TreeFacts
<1>7. Live(u) = Live(t)
  BY <1>4, <1>6 DEF Live
<1>8. ASSUME NEW m, NEW e \in Field PROVE Get(u, m, e) = IF m = n /\ e = f THEN v ELSE Get(t, m, e)
  BY <1>2, <1>4, <1>6, <1>7 DEF Get
<1> QED
  BY <1>6, <1>7, <1>8 DEF u

\* An assignment to *root.
LEMMA RootGet ==
  ASSUME NEW t \in Tree, NEW r \in Ptr
  PROVE  LET u == [t EXCEPT !.root = r]
         IN  /\ u \in Tree /\ Live(u) = Live(t) /\ u.root = r /\ u.node = t.node
             /\ \A m : \A e \in Field : Get(u, m, e) = Get(t, m, e)
<1> DEFINE u == [t EXCEPT !.root = r]
<1>0. u = [t EXCEPT !.root = r]
  OBVIOUS
<1> HIDE DEF u
<1>1. u = [root |-> r, node |-> t.node, undef |-> FALSE]
  BY <1>0 DEF Tree
<1>2. u \in Tree /\ u.root = r /\ u.node = t.node
  BY <1>1, MakeTree, TreeFacts
<1> QED
  BY <1>2 DEF u, Live, Get

-----------------------------------------------------------------------------
(* Ways. *)

Along(at, next, r, n) == at = [k \in 0 .. n |-> IF k = 0 THEN r ELSE next[at[k - 1]]]

LEMMA FollowsExist ==
  ASSUME NEW next, NEW r PROVE \A n \in Nat : \E at : Along(at, next, r, n)
<1> DEFINE T == {n \in Nat : \E at : Along(at, next, r, n)}
<1>1. 0 \in T
  <2> DEFINE f == [k \in 0 .. 0 |-> r]
  <2>1. Along(f, next, r, 0)
    BY DEF Along
  <2> QED
    BY <2>1
<1>2. ASSUME NEW n \in Nat, n \in T PROVE n + 1 \in T
  <2>1. PICK at : Along(at, next, r, n)
    BY <1>2
  <2> DEFINE f == [k \in 0 .. n + 1 |-> IF k = n + 1 THEN next[at[n]] ELSE at[k]]
  <2>2. \A k \in 0 .. n : at[k] = IF k = 0 THEN r ELSE next[at[k - 1]]
    BY <2>1 DEF Along
  <2>3. \A k \in 0 .. n + 1 : f[k] = IF k = 0 THEN r ELSE next[f[k - 1]]
    BY <2>2
  <2>4. Along(f, next, r, n + 1)
    BY <2>3 DEF Along
  <2> QED
    BY <2>4
<1> HIDE DEF T
<1>3. Nat \subseteq T
  BY <1>1, <1>2, SetInduction
<1> QED
  BY <1>3 DEF T

\* A way starts at r and goes from node to node along the links.
LEMMA FollowFacts ==
  ASSUME NEW next, NEW r
  PROVE  LET at == Follow(next, r)
         IN  /\ at = [k \in 0 .. MaxNode |-> at[k]] /\ at[0] = r
             /\ \A k \in 0 .. MaxNode - 1 : at[k + 1] = next[at[k]]
<1> DEFINE P(at) == at = [k \in 0 .. MaxNode |-> IF k = 0 THEN r ELSE next[at[k - 1]]]
<1>0. MaxNode \in Nat
  BY BpMapAssumption
<1>1. PICK f : P(f)
  <2>1. \E f : Along(f, next, r, MaxNode)
    BY <1>0, FollowsExist
  <2> QED
    BY <2>1 DEF Along
<1>2. PICK at : P(at) /\ Follow(next, r) = at
  BY <1>1 DEF Follow
<1>3. at = [k \in 0 .. MaxNode |-> at[k]]
  BY <1>2
<1>4. \A k \in 0 .. MaxNode : at[k] = IF k = 0 THEN r ELSE next[at[k - 1]]
  BY <1>2
<1>5. at[0] = r /\ \A k \in 0 .. MaxNode - 1 : at[k + 1] = next[at[k]]
  BY <1>4, BpMapAssumption
<1> QED
  BY <1>2, <1>3, <1>5

Sides == {"left", "right"}

\* Two ways along links that agree are one.
LEMMA FollowSame ==
  ASSUME NEW next, NEW other, NEW r, NEW S, r \in S,
         \A n \in S : next[n] = other[n] /\ next[n] \in S
  PROVE  Follow(next, r) = Follow(other, r)
<1> DEFINE at == Follow(next, r)
           to == Follow(other, r)
           T  == {k \in 0 .. MaxNode : at[k] = to[k] /\ at[k] \in S}
<1>1. /\ at = [k \in 0 .. MaxNode |-> at[k]] /\ at[0] = r
      /\ \A k \in 0 .. MaxNode - 1 : at[k + 1] = next[at[k]]
  BY FollowFacts
<1>2. /\ to = [k \in 0 .. MaxNode |-> to[k]] /\ to[0] = r
      /\ \A k \in 0 .. MaxNode - 1 : to[k + 1] = other[to[k]]
  BY FollowFacts
<1> HIDE DEF at, to
<1>3. 0 \in T
  BY <1>1, <1>2, BpMapAssumption
<1>4. ASSUME NEW k \in 0 .. MaxNode - 1, k \in T PROVE k + 1 \in T
  <2>1. at[k + 1] = next[at[k]] /\ to[k + 1] = other[to[k]]
    BY <1>1, <1>2
  <2>2. next[at[k]] = other[at[k]] /\ next[at[k]] \in S /\ at[k] = to[k]
    BY <1>4
  <2> QED
    BY <2>1, <2>2, BpMapAssumption
<1> HIDE DEF T
<1>5. \A k \in 0 .. MaxNode : k \in T
  BY <1>3, <1>4, StepInduction
<1>6. \A k \in 0 .. MaxNode : at[k] = to[k]
  BY <1>5 DEF T
<1>7. [k \in 0 .. MaxNode |-> at[k]] = [k \in 0 .. MaxNode |-> to[k]]
  BY <1>6
<1> QED
  BY <1>1, <1>2, <1>7 DEF at, to

LEMMA SideFacts ==
  ASSUME NEW t \in Tree, NEW n \in Live(t), NEW a \in Int
  PROVE  /\ Side(t, n, a) \in Sides /\ Get(t, n, "data") \in Int
         /\ Side(t, n, a) = "left" => a < Get(t, n, "data")
         /\ Side(t, n, a) = "right" => a >= Get(t, n, "data")
         /\ Side(t, n, a) = IF a < Get(t, n, "data") THEN "left" ELSE "right"
<1>1. Get(t, n, "data") \in Addr
  BY GetType DEF Field, Values
<1>2. Get(t, n, "data") = t.node[n].data
  BY DEF Get
<1>3. Get(t, n, "data") \in Int
  BY <1>1, BpMapAssumption
<1>4. Side(t, n, a) = IF a < Get(t, n, "data") THEN "left" ELSE "right"
  BY <1>2 DEF Side
<1>5. Side(t, n, a) \in Sides
  BY <1>4 DEF Sides
<1>6. ~(a < Get(t, n, "data")) => a >= Get(t, n, "data")
  BY <1>3
<1> QED
  BY <1>3, <1>4, <1>5, <1>6

LEMMA TowardFacts ==
  ASSUME NEW t \in Tree, NEW a \in Int, NEW n \in Ptr
  PROVE  /\ n \notin Live(t) => Toward(t, a)[n] = n
         /\ n \in Live(t) /\ Get(t, n, "data") = a => Toward(t, a)[n] = n
         /\ n \in Live(t) /\ Get(t, n, "data") # a => Toward(t, a)[n] = Get(t, n, Side(t, n, a))
BY DEF Toward, Get

LEMMA WayFacts ==
  ASSUME NEW t \in Tree, NEW r, NEW a
  PROVE  LET at == Way(t, r, a)
         IN  /\ at = [k \in 0 .. MaxNode |-> at[k]] /\ at[0] = r /\ End(t, r, a) = at[MaxNode]
             /\ \A k \in 0 .. MaxNode - 1 : at[k + 1] = Toward(t, a)[at[k]]
BY FollowFacts DEF Way, End

-----------------------------------------------------------------------------
(* The shape of the tree. *)

\* D[n] is the set of the nodes of the subtree n: every live node is below the
\* root, once.
Split(t, D, n) ==
  LET l == Get(t, n, "left")  r == Get(t, n, "right")
  IN  /\ l \in Live(t) \cup {NULL} /\ r \in Live(t) \cup {NULL}
      /\ D[n] = {n} \cup D[l] \cup D[r]
      /\ n \notin D[l] /\ n \notin D[r] /\ D[l] \cap D[r] = {}

Span(t, D) ==
  /\ D \in [Ptr -> SUBSET Live(t)] /\ D[NULL] = {}
  /\ t.root \in Live(t) \cup {NULL} /\ D[t.root] = Live(t)
  /\ \A n \in Live(t) : Split(t, D, n)

LEMMA SideSplit ==
  ASSUME NEW t, NEW D, NEW n, NEW s \in Sides
  PROVE  Split(t, D, n) <=>
           LET l == Get(t, n, s)  r == Get(t, n, Other(s))
           IN  /\ l \in Live(t) \cup {NULL} /\ r \in Live(t) \cup {NULL}
               /\ D[n] = {n} \cup D[l] \cup D[r]
               /\ n \notin D[l] /\ n \notin D[r] /\ D[l] \cap D[r] = {}
<1>1. CASE s = "left"
  BY <1>1 DEF Split, Other
<1>2. CASE s = "right"
  <2>1. Other(s) = "left"
    BY <1>2 DEF Other
  <2> QED
    BY <1>2, <2>1 DEF Split
<1> QED
  BY <1>1, <1>2 DEF Sides

LEMMA OtherFacts ==
  ASSUME NEW s \in Sides
  PROVE  /\ Other(s) \in Sides /\ Other(Other(s)) = s /\ Other(s) # s
         /\ \A e \in Sides : e = s \/ e = Other(s)
BY DEF Sides, Other

LEMMA SideField ==
  /\ Sides \subseteq Field /\ "parent" \in Field /\ "data" \in Field /\ "color" \in Field
  /\ "parent" \notin Sides /\ "data" \notin Sides /\ "color" \notin Sides
  /\ \A s \in Sides : Values(s) = Ptr
  /\ Values("parent") = Ptr /\ Values("color") = {RED, BLACK} /\ Values("data") = Addr
BY DEF Sides, Field, Values

LEMMA LivePtr == ASSUME NEW t \in Tree PROVE Live(t) \cup {NULL} \subseteq Ptr /\ NULL \notin Live(t)
<1>1. Live(t) \subseteq 1 .. MaxNode /\ NULL \notin Live(t)
  BY TreeFacts
<1>2. 1 .. MaxNode \subseteq 0 .. MaxNode /\ 0 \in 0 .. MaxNode
  BY BpMapAssumption
<1> QED
  BY <1>1, <1>2 DEF Ptr, NULL

LEMMA SpanAt ==
  ASSUME NEW t \in Tree, NEW D, Span(t, D), NEW n \in Live(t), NEW s \in Sides
  PROVE  LET l == Get(t, n, s)  r == Get(t, n, Other(s))
         IN  /\ l \in Live(t) \cup {NULL} /\ r \in Live(t) \cup {NULL}
             /\ D[n] = {n} \cup D[l] \cup D[r]
             /\ n \notin D[l] /\ n \notin D[r] /\ D[l] \cap D[r] = {}
BY SideSplit DEF Span

LEMMA SpanFacts ==
  ASSUME NEW t \in Tree, NEW D, Span(t, D)
  PROVE  /\ D \in [Ptr -> SUBSET Live(t)] /\ D[NULL] = {}
         /\ t.root \in Live(t) \cup {NULL} /\ D[t.root] = Live(t)
         /\ \A n \in Live(t) : n \in D[n] /\ D[n] \subseteq Live(t)
         /\ \A n \in Live(t) \cup {NULL} : D[n] \subseteq Live(t)
<1>1. \A n \in Live(t) : n \in D[n]
  BY SpanAt DEF Sides
<1>2. D \in [Ptr -> SUBSET Live(t)] /\ D[NULL] = {} /\ t.root \in Live(t) \cup {NULL} /\ D[t.root] = Live(t)
  BY DEF Span
<1>3. \A n \in Live(t) \cup {NULL} : D[n] \subseteq Live(t)
  BY <1>2, LivePtr
<1> QED
  BY <1>1, <1>2, <1>3

LEMMA Sizes ==
  ASSUME NEW t \in Tree, NEW D, Span(t, D)
  PROVE  /\ IsFiniteSet(Live(t)) /\ Cardinality(Live(t)) \in Nat /\ Cardinality(Live(t)) <= MaxNode
         /\ \A n \in Live(t) \cup {NULL} :
              IsFiniteSet(D[n]) /\ Cardinality(D[n]) \in Nat /\ Cardinality(D[n]) <= MaxNode
         /\ \A n \in Live(t), s \in Sides : Cardinality(D[Get(t, n, s)]) < Cardinality(D[n])
<1>1. MaxNode \in Nat /\ IsFiniteSet(1 .. MaxNode) /\ Cardinality(1 .. MaxNode) = MaxNode
  BY BpMapAssumption, FS_Interval
<1>2. ASSUME NEW S \in SUBSET (1 .. MaxNode)
      PROVE  IsFiniteSet(S) /\ Cardinality(S) \in Nat /\ Cardinality(S) <= MaxNode
  <2>1. IsFiniteSet(S) /\ Cardinality(S) <= MaxNode
    BY <1>1, FS_Subset
  <2> QED
    BY <2>1, FS_CardinalityType
<1>3. Live(t) \in SUBSET (1 .. MaxNode) /\ \A n \in Live(t) \cup {NULL} : D[n] \in SUBSET (1 .. MaxNode)
  BY TreeFacts, SpanFacts
<1>4. ASSUME NEW n \in Live(t), NEW s \in Sides
      PROVE  Cardinality(D[Get(t, n, s)]) < Cardinality(D[n])
  <2> DEFINE c == Get(t, n, s)
  <2>1. c \in Live(t) \cup {NULL} /\ n \in D[n] /\ D[c] \subseteq D[n] \ {n}
    BY SpanAt
  <2>2. IsFiniteSet(D[n]) /\ Cardinality(D[n]) \in Nat
    BY <1>2, <1>3
  <2>3. IsFiniteSet(D[n] \ {n}) /\ Cardinality(D[n] \ {n}) = Cardinality(D[n]) - 1
    BY <2>1, <2>2, FS_RemoveElement
  <2>4. Cardinality(D[c]) <= Cardinality(D[n] \ {n})
    BY <2>1, <2>3, FS_Subset
  <2>5. Cardinality(D[c]) \in Nat
    BY <1>2, <1>3, <2>1
  <2> QED
    BY <2>2, <2>3, <2>4, <2>5
<1> QED
  BY <1>2, <1>3, <1>4

\* What holds for a node as soon as it holds for its children holds everywhere.
LEMMA TreeInduction ==
  ASSUME NEW t \in Tree, NEW D, Span(t, D), NEW T,
         \A n \in Live(t) : (\A s \in Sides : Get(t, n, s) \in Live(t) => Get(t, n, s) \in T) => n \in T
  PROVE  Live(t) \subseteq T
<1> DEFINE S == {k \in Nat : \A n \in Live(t) : Cardinality(D[n]) <= k => n \in T}
<1>1. \A n \in Live(t) : Cardinality(D[n]) \in Nat
  BY Sizes
<1>2. ASSUME NEW n \in Live(t), NEW k \in Nat, Cardinality(D[n]) <= k,
             \A m \in Live(t) : Cardinality(D[m]) < k => m \in T
      PROVE  n \in T
  <2>1. ASSUME NEW s \in Sides, Get(t, n, s) \in Live(t) PROVE Get(t, n, s) \in T
    <3>1. Cardinality(D[Get(t, n, s)]) < Cardinality(D[n])
      BY Sizes
    <3> QED
      BY <1>1, <1>2, <2>1, <3>1
  <2> QED
    BY <2>1
<1>3. 0 \in S
  <2>1. \A m \in Live(t) : Cardinality(D[m]) < 0 => m \in T
    BY <1>1
  <2> QED
    BY <1>2, <2>1
<1>4. ASSUME NEW k \in Nat, k \in S PROVE k + 1 \in S
  <2>1. \A m \in Live(t) : Cardinality(D[m]) < k + 1 => m \in T
    BY <1>1, <1>4
  <2> QED
    BY <1>2, <2>1
<1> HIDE DEF S
<1>5. Nat \subseteq S
  BY <1>3, <1>4, SetInduction
<1> QED
  BY <1>1, <1>5 DEF S

LEMMA Closed ==
  ASSUME NEW t \in Tree, NEW D, Span(t, D), NEW n \in Live(t), NEW m \in D[n]
  PROVE  m \in Live(t) /\ D[m] \subseteq D[n]
<1> DEFINE T == {q \in Live(t) : \A j \in D[q] : D[j] \subseteq D[q]}
<1>1. ASSUME NEW q \in Live(t), \A s \in Sides : Get(t, q, s) \in Live(t) => Get(t, q, s) \in T
      PROVE  q \in T
  <2> SUFFICES ASSUME NEW j \in D[q] PROVE D[j] \subseteq D[q]
    OBVIOUS
  <2>1. CASE j = q
    BY <2>1
  <2>2. ASSUME NEW s \in Sides, j \in D[Get(t, q, s)] PROVE D[j] \subseteq D[q]
    <3> DEFINE c == Get(t, q, s)
    <3>1. c \in Live(t) /\ D[c] \subseteq D[q]
      BY <2>2, SpanAt, SpanFacts
    <3>2. D[j] \subseteq D[c]
      BY <1>1, <2>2, <3>1
    <3> QED
      BY <3>1, <3>2
  <2>3. j = q \/ j \in D[Get(t, q, "left")] \/ j \in D[Get(t, q, "right")]
    BY DEF Span, Split
  <2> QED
    BY <2>1, <2>2, <2>3 DEF Sides
<1> HIDE DEF T
<1>2. Live(t) \subseteq T
  BY <1>1, TreeInduction
<1> QED
  BY <1>2, SpanFacts DEF T

\* A node has one parent, and is one of its children only.
LEMMA OneParent ==
  ASSUME NEW t \in Tree, NEW D, Span(t, D), NEW p \in Live(t), NEW q \in Live(t),
         NEW s \in Sides, NEW e \in Sides,
         Get(t, p, s) = Get(t, q, e), Get(t, p, s) \in Live(t)
  PROVE  p = q /\ s = e
<1> DEFINE c == Get(t, p, s)
           T == {n \in Live(t) : p \in D[n] /\ q \in D[n] => p = q}
<1>0. c \in D[c] /\ c \in D[p] /\ c \in D[q] /\ p \notin D[c] /\ q \notin D[c]
  BY SpanFacts, SpanAt
<1>1. ASSUME NEW n \in Live(t), \A d \in Sides : Get(t, n, d) \in Live(t) => Get(t, n, d) \in T
      PROVE  n \in T
  <2> SUFFICES ASSUME p \in D[n], q \in D[n], p # q PROVE FALSE
    OBVIOUS
  <2> DEFINE l == Get(t, n, "left")
             r == Get(t, n, "right")
  <2>1. /\ D[n] = {n} \cup D[l] \cup D[r] /\ D[l] \cap D[r] = {}
        /\ l \in Live(t) \cup {NULL} /\ r \in Live(t) \cup {NULL}
    BY DEF Span, Split
  <2>2. ASSUME NEW i \in {l, r}, NEW m \in D[i] PROVE i \in Live(t) /\ D[m] \subseteq D[i]
    BY <2>1, <2>2, SpanFacts, Closed
  <2>3. ASSUME NEW u \in {p, q}, u = n, NEW w \in {p, q}, NEW i \in {l, r}, w \in D[i], c \in {l, r} PROVE FALSE
    <3>1. c \in D[i]
      BY <1>0, <2>2, <2>3
    <3>2. c = i
      BY <1>0, <2>1, <2>3, <3>1
    <3> QED
      BY <1>0, <2>3, <3>2
  <2>4. p = n \/ q = n => c \in {l, r}
    BY DEF Sides
  <2>5. p # n
    BY <2>1, <2>3, <2>4
  <2>6. q # n
    BY <2>1, <2>3, <2>4
  <2>7. ASSUME NEW i \in {l, r}, p \in D[i], q \in D[i] PROVE FALSE
    BY <1>1, <2>2, <2>7 DEF Sides
  <2>8. ASSUME NEW i \in {l, r}, NEW j \in {l, r}, p \in D[i], q \in D[j], D[i] \cap D[j] = {} PROVE FALSE
    BY <1>0, <2>2, <2>8
  <2> QED
    BY <2>1, <2>5, <2>6, <2>7, <2>8
<1> HIDE DEF T
<1>2. Live(t) \subseteq T
  BY <1>1, TreeInduction
<1>3. p = q
  BY <1>2, SpanFacts DEF T
<1>4. s = e
  BY <1>0, <1>3, SpanAt, OtherFacts
<1> QED
  BY <1>3, <1>4

\* The parent of a node below n is below n.
LEMMA Up ==
  ASSUME NEW t \in Tree, NEW D, Span(t, D), NEW n \in Live(t), NEW p \in Live(t), NEW s \in Sides,
         Get(t, p, s) \in D[n], Get(t, p, s) # n
  PROVE  p \in D[n]
<1> DEFINE c == Get(t, p, s)
           T == {q \in Live(t) : c \in D[q] /\ c # q => p \in D[q]}
<1>0. c \in Live(t)
  BY SpanFacts
<1>1. ASSUME NEW q \in Live(t), \A e \in Sides : Get(t, q, e) \in Live(t) => Get(t, q, e) \in T
      PROVE  q \in T
  <2> SUFFICES ASSUME c \in D[q], c # q PROVE p \in D[q]
    OBVIOUS
  <2>1. PICK e \in Sides : c \in D[Get(t, q, e)]
    BY SpanAt DEF Sides, Other
  <2>2. Get(t, q, e) \in Live(t) /\ D[Get(t, q, e)] \subseteq D[q] /\ q \in D[q]
    BY <2>1, SpanAt, SpanFacts
  <2>3. CASE c = Get(t, q, e)
    BY <1>0, <2>2, <2>3, OneParent
  <2>4. CASE c # Get(t, q, e)
    BY <1>1, <2>1, <2>2, <2>4
  <2> QED
    BY <2>3, <2>4
<1> HIDE DEF T
<1>2. Live(t) \subseteq T
  BY <1>1, TreeInduction
<1> QED
  BY <1>2 DEF T

\* Every node but the root is the child of some node.
LEMMA HasParent ==
  ASSUME NEW t \in Tree, NEW D, Span(t, D), NEW n \in Live(t), NEW m \in D[n], m # n
  PROVE  \E p \in D[n], s \in Sides : p \in Live(t) /\ Get(t, p, s) = m
<1> DEFINE T == {q \in Live(t) : m \in D[q] /\ m # q => \E p \in D[q], s \in Sides : p \in Live(t) /\ Get(t, p, s) = m}
<1>1. ASSUME NEW q \in Live(t), \A e \in Sides : Get(t, q, e) \in Live(t) => Get(t, q, e) \in T
      PROVE  q \in T
  <2> SUFFICES ASSUME m \in D[q], m # q
               PROVE  \E p \in D[q], s \in Sides : p \in Live(t) /\ Get(t, p, s) = m
    OBVIOUS
  <2>1. PICK e \in Sides : m \in D[Get(t, q, e)]
    BY SpanAt DEF Sides, Other
  <2>2. Get(t, q, e) \in Live(t) /\ D[Get(t, q, e)] \subseteq D[q] /\ q \in D[q]
    BY <2>1, SpanAt, SpanFacts
  <2>3. CASE m = Get(t, q, e)
    BY <2>2, <2>3
  <2>4. CASE m # Get(t, q, e)
    BY <1>1, <2>1, <2>2, <2>4
  <2> QED
    BY <2>3, <2>4
<1> HIDE DEF T
<1>2. Live(t) \subseteq T
  BY <1>1, TreeInduction
<1> QED
  BY <1>2 DEF T

-----------------------------------------------------------------------------
(* Search. *)

Key(t, n) == Get(t, n, "data")
Before(s, x, y) == IF s = "left" THEN x < y ELSE y < x

\* The keys on side s of node n are on side s of its key.
Order(t, D, n) == \A s \in Sides : \A m \in D[Get(t, n, s)] : Before(s, Key(t, m), Key(t, n))
Sorted(t, D) == \A n \in Live(t) : Order(t, D, n)

LEMMA KeyType == ASSUME NEW t \in Tree, NEW n \in Live(t) PROVE Key(t, n) \in Addr /\ Key(t, n) \in Int
BY GetType, SideField, BpMapAssumption DEF Key

LEMMA SideBefore ==
  ASSUME NEW t \in Tree, NEW n \in Live(t), NEW a \in Int, Key(t, n) # a
  PROVE  Side(t, n, a) \in Sides /\ \A s \in Sides : Before(s, a, Key(t, n)) <=> s = Side(t, n, a)
<1>1. Key(t, n) \in Int /\ Side(t, n, a) = IF a < Key(t, n) THEN "left" ELSE "right"
  BY SideFacts DEF Key
<1>2. CASE a < Key(t, n)
  BY <1>1, <1>2 DEF Before, Sides
<1>3. CASE Key(t, n) < a
  <2>1. ~(a < Key(t, n))
    BY <1>1, <1>3
  <2> QED
    BY <1>1, <1>3, <2>1 DEF Before, Sides
<1> QED
  BY <1>1, <1>2, <1>3

\* From a node the way goes on to a child, unless it ends there.
LEMMA WayStep ==
  ASSUME NEW t \in Tree, NEW D, Span(t, D), NEW r \in Live(t) \cup {NULL}, NEW a \in Int,
         NEW k \in 0 .. MaxNode - 1, Way(t, r, a)[k] \in Live(t) \cup {NULL}
  PROVE  LET m == Way(t, r, a)[k]  j == Way(t, r, a)[k + 1]
         IN  /\ j \in Live(t) \cup {NULL}
             /\ m = NULL => j = m
             /\ m \in Live(t) /\ Key(t, m) = a => j = m
             /\ m \in Live(t) /\ Key(t, m) # a => j = Get(t, m, Side(t, m, a)) /\ Side(t, m, a) \in Sides
<1> DEFINE m == Way(t, r, a)[k]
           j == Way(t, r, a)[k + 1]
<1>1. j = Toward(t, a)[m]
  BY WayFacts
<1>2. m \in Ptr /\ NULL \notin Live(t)
  BY LivePtr
<1> HIDE DEF m, j
<1>3. /\ m \notin Live(t) => j = m
      /\ m \in Live(t) /\ Key(t, m) = a => j = m
      /\ m \in Live(t) /\ Key(t, m) # a => j = Get(t, m, Side(t, m, a))
  BY <1>1, <1>2, TowardFacts DEF Key
<1>4. m \in Live(t) => Side(t, m, a) \in Sides
  BY SideFacts
<1>5. m \in Live(t) \cup {NULL}
  BY DEF m
<1>6. m \in Live(t) => Get(t, m, Side(t, m, a)) \in Live(t) \cup {NULL}
  BY <1>4, SpanAt
<1> QED
  BY <1>2, <1>3, <1>4, <1>5, <1>6 DEF m, j

\* The way to a stays in the subtree, every node that holds a is below each of
\* its nodes, and it comes to its end.
LEMMA Search ==
  ASSUME NEW t \in Tree, NEW D, Span(t, D), NEW r \in Live(t) \cup {NULL}, NEW a \in Int,
         \A n \in D[r] : Order(t, D, n)
  PROVE  /\ \A k \in 0 .. MaxNode : Way(t, r, a)[k] \in D[r] \cup {NULL}
         /\ End(t, r, a) \in D[r] \cup {NULL}
         /\ End(t, r, a) # NULL => Key(t, End(t, r, a)) = a
         /\ \A m \in D[r] : Key(t, m) = a => m = End(t, r, a)
         /\ \A k \in 0 .. MaxNode : \A m \in D[r] : Key(t, m) = a => m \in D[Way(t, r, a)[k]]
<1> DEFINE at == Way(t, r, a)
           P(k) == /\ at[k] \in D[r] \cup {NULL}
                   /\ at[k] # NULL /\ Key(t, at[k]) # a => Cardinality(D[at[k]]) <= MaxNode - k
                   /\ \A m \in D[r] : Key(t, m) = a => m \in D[at[k]]
           T == {k \in 0 .. MaxNode : P(k)}
<1>0. at[0] = r /\ End(t, r, a) = at[MaxNode]
  BY WayFacts
<1>1. NULL \notin Live(t) /\ MaxNode \in Nat /\ D[r] \subseteq Live(t) /\ (r # NULL => r \in D[r]) /\ D[NULL] = {}
  BY LivePtr, BpMapAssumption, SpanFacts
<1>2. 0 \in T
  <2>1. P(0)
    BY <1>0, <1>1, Sizes
  <2> QED
    BY <1>1, <2>1
<1>3. ASSUME NEW k \in 0 .. MaxNode - 1, k \in T PROVE k + 1 \in T
  <2> DEFINE m == at[k]
             j == at[k + 1]
  <2>0. P(k)
    BY <1>3
  <2>1. m \in Live(t) \cup {NULL} /\ k + 1 \in 0 .. MaxNode
    BY <1>1, <2>0
  <2>2. /\ j \in Live(t) \cup {NULL}
        /\ m = NULL => j = m
        /\ m \in Live(t) /\ Key(t, m) = a => j = m
        /\ m \in Live(t) /\ Key(t, m) # a => j = Get(t, m, Side(t, m, a)) /\ Side(t, m, a) \in Sides
    BY <2>1, WayStep
  <2>3. CASE j = m
    <3>1. j # NULL => Key(t, j) = a
      <4> SUFFICES ASSUME j \in Live(t), Key(t, j) # a PROVE FALSE
        BY <2>2
      <4>1. j = Get(t, j, Side(t, j, a)) /\ Side(t, j, a) \in Sides
        BY <2>2, <2>3
      <4> QED
        BY <4>1, SpanAt, SpanFacts
    <3>2. P(k + 1)
      BY <2>0, <2>3, <3>1
    <3> QED
      BY <2>1, <3>2
  <2>4. CASE j # m
    <3> DEFINE s == Side(t, m, a)
    <3>1. m \in Live(t) /\ Key(t, m) # a /\ j = Get(t, m, s) /\ s \in Sides /\ m \in D[r]
      BY <2>0, <2>1, <2>2, <2>4
    <3>2. D[j] \subseteq D[r] /\ (j # NULL => j \in D[j])
      <4>1. D[m] \subseteq D[r]
        BY <3>1, <1>1, Closed
      <4> QED
        BY <2>2, <3>1, <4>1, SpanAt, SpanFacts
    <3>3. Cardinality(D[j]) <= MaxNode - (k + 1)
      <4>1. Cardinality(D[j]) < Cardinality(D[m])
        BY <3>1, Sizes
      <4>2. Cardinality(D[j]) \in Nat /\ Cardinality(D[m]) \in Nat
        BY <2>1, <2>2, Sizes
      <4>3. Cardinality(D[m]) <= MaxNode - k
        BY <1>1, <2>0, <3>1
      <4> QED
        BY <1>1, <4>1, <4>2, <4>3
    <3>4. ASSUME NEW i \in D[r], Key(t, i) = a PROVE i \in D[j]
      <4>1. i \in D[m] /\ i # m
        BY <2>0, <3>1, <3>4
      <4>2. PICK e \in Sides : i \in D[Get(t, m, e)]
        BY <3>1, <4>1, SpanAt DEF Sides, Other
      <4>3. Before(e, a, Key(t, m))
        BY <3>1, <3>4, <4>2 DEF Order
      <4>4. e = s
        BY <3>1, <4>3, SideBefore
      <4> QED
        BY <3>1, <4>2, <4>4
    <3>5. P(k + 1)
      BY <3>2, <3>3, <3>4
    <3> QED
      BY <2>1, <3>5
  <2> QED
    BY <2>3, <2>4
<1> HIDE DEF T
<1>4. \A k \in 0 .. MaxNode : k \in T
  BY <1>2, <1>3, StepInduction
<1>5. \A k \in 0 .. MaxNode : P(k)
  BY <1>4 DEF T
<1>6. P(MaxNode)
  BY <1>1, <1>5
<1> DEFINE v == at[MaxNode]
<1>7. v \in D[r] \cup {NULL} /\ (v # NULL => Key(t, v) = a)
  <2> SUFFICES ASSUME v # NULL, Key(t, v) # a PROVE FALSE
    BY <1>6
  <2>1. v \in Live(t) /\ v \in D[v]
    BY <1>1, <1>6, SpanFacts
  <2>2. Cardinality(D[v]) <= 0 /\ Cardinality(D[v]) \in Nat /\ IsFiniteSet(D[v])
    BY <1>1, <1>6, <2>1, Sizes
  <2>3. Cardinality(D[v]) = 0
    BY <2>2
  <2> QED
    BY <2>1, <2>2, <2>3, FS_EmptySet
<1>8. ASSUME NEW m \in D[r], Key(t, m) = a PROVE m = v
  <2>1. m \in D[v] /\ v # NULL /\ v \in D[r] /\ v \in Live(t) /\ Key(t, v) = a
    BY <1>1, <1>6, <1>7, <1>8
  <2> SUFFICES ASSUME m # v PROVE FALSE
    OBVIOUS
  <2>2. PICK e \in Sides : m \in D[Get(t, v, e)]
    BY <2>1, SpanAt DEF Sides, Other
  <2>3. Before(e, a, a) /\ a \in Int
    BY <1>8, <2>1, <2>2 DEF Order
  <2> QED
    BY <2>3 DEF Before
<1> QED
  BY <1>0, <1>5, <1>7, <1>8

LEMMA HoldsKey ==
  ASSUME NEW t \in Tree, NEW n, NEW a
  PROVE  Holds(t, n, a) <=> n \in Live(t) /\ Key(t, n) = a
BY DEF Holds, Key, Get

\* findNode finds an address exactly when some node holds it.
LEMMA FindsKeys ==
  ASSUME NEW t \in Tree, NEW D, Span(t, D), Sorted(t, D), NEW a \in Addr
  PROVE  findNode(t, a) <=> \E n \in Live(t) : Key(t, n) = a
<1>1. D[t.root] = Live(t) /\ t.root \in Live(t) \cup {NULL} /\ a \in Int /\ NULL \notin Live(t)
  BY SpanFacts, BpMapAssumption, LivePtr
<1>2. \A n \in D[t.root] : Order(t, D, n)
  BY <1>1 DEF Sorted
<1>3. /\ End(t, t.root, a) \in Live(t) \cup {NULL}
      /\ End(t, t.root, a) # NULL => Key(t, End(t, t.root, a)) = a
      /\ \A m \in Live(t) : Key(t, m) = a => m = End(t, t.root, a)
  BY <1>1, <1>2, Search
<1> QED
  BY <1>1, <1>3, HoldsKey DEF findNode

\* The way to a goes to the side of a node on which a is.
LEMMA WayOrder ==
  ASSUME NEW t \in Tree, NEW D, Span(t, D), NEW r \in Live(t) \cup {NULL}, NEW a \in Int,
         \A n \in D[r] : Order(t, D, n),
         NEW k \in 0 .. MaxNode, NEW n \in D[r], NEW s \in Sides, Way(t, r, a)[k] \in D[Get(t, n, s)]
  PROVE  Before(s, a, Key(t, n))
<1> DEFINE at == Way(t, r, a)
           T == {j \in 0 .. MaxNode : at[j] \in D[Get(t, n, s)] => Before(s, a, Key(t, n))}
<1>0. /\ at[0] = r /\ n \in Live(t) /\ MaxNode \in Nat /\ NULL \notin Live(t) /\ r \in Live(t)
      /\ D[Get(t, n, s)] \subseteq Live(t) /\ Get(t, n, s) \in Live(t) \cup {NULL}
      /\ \A j \in 0 .. MaxNode : at[j] \in Live(t) \cup {NULL}
  <2>1. n \in Live(t) /\ r \in Live(t) /\ NULL \notin Live(t) /\ D[r] \subseteq Live(t)
    BY SpanFacts, LivePtr
  <2>2. Get(t, n, s) \in Live(t) \cup {NULL} /\ D[Get(t, n, s)] \subseteq Live(t)
    BY <2>1, SpanAt, SpanFacts
  <2>3. \A j \in 0 .. MaxNode : at[j] \in D[r] \cup {NULL}
    BY Search
  <2>4. at[0] = r /\ MaxNode \in Nat
    BY WayFacts, BpMapAssumption
  <2> HIDE DEF at
  <2> QED
    BY <2>1, <2>2, <2>3, <2>4
<1>1. 0 \in T
  <2> SUFFICES ASSUME r \in D[Get(t, n, s)] PROVE FALSE
    BY <1>0
  <2>1. Get(t, n, s) \in Live(t) /\ D[r] \subseteq D[Get(t, n, s)]
    BY <1>0, SpanFacts, Closed
  <2> QED
    BY <1>0, <2>1, SpanAt
<1>2. ASSUME NEW j \in 0 .. MaxNode - 1, j \in T PROVE j + 1 \in T
  <2> DEFINE m == at[j]
             c == at[j + 1]
  <2>0. j + 1 \in 0 .. MaxNode /\ j \in 0 .. MaxNode
    BY <1>0
  <2> SUFFICES ASSUME c \in D[Get(t, n, s)] PROVE Before(s, a, Key(t, n))
    BY <2>0
  <2>1. /\ c \in Live(t) \cup {NULL}
        /\ m = NULL => c = m
        /\ m \in Live(t) /\ Key(t, m) = a => c = m
        /\ m \in Live(t) /\ Key(t, m) # a => c = Get(t, m, Side(t, m, a)) /\ Side(t, m, a) \in Sides
    BY <1>0, <2>0, WayStep
  <2>2. CASE m = c
    BY <1>2, <2>2
  <2>3. CASE m # c
    <3>1. m \in Live(t) /\ Key(t, m) # a /\ c = Get(t, m, Side(t, m, a)) /\ Side(t, m, a) \in Sides
      BY <1>0, <2>0, <2>1, <2>3
    <3>2. c \in Live(t)
      BY <1>0
    <3>3. CASE c = Get(t, n, s)
      <4>0. Get(t, m, Side(t, m, a)) = Get(t, n, s) /\ Get(t, m, Side(t, m, a)) \in Live(t)
        BY <3>1, <3>2, <3>3
      <4>1. m = n /\ s = Side(t, m, a)
        BY <1>0, <3>1, <4>0, OneParent
      <4> QED
        BY <3>1, <4>1, SideBefore
    <3>4. CASE c # Get(t, n, s)
      <4>1. Get(t, n, s) \in Live(t)
        BY <1>0, SpanFacts
      <4>2. m \in D[Get(t, n, s)]
        BY <3>1, <3>4, <4>1, Up
      <4> QED
        BY <1>2, <4>2
    <3> QED
      BY <3>3, <3>4
  <2> QED
    BY <2>2, <2>3
<1> HIDE DEF T
<1>3. \A j \in 0 .. MaxNode : j \in T
  BY <1>1, <1>2, StepInduction
<1> QED
  BY <1>3 DEF T

\* What leads to a node on the way is a node of the way, and its parent.
LEMMA AboveFacts ==
  ASSUME NEW t \in Tree, NEW D, Span(t, D), NEW r \in Live(t) \cup {NULL}, NEW a \in Int,
         \A n \in D[r] : Order(t, D, n), NEW n, NEW m \in Above(t, r, a, n)
  PROVE  /\ m \in D[r] /\ m \in Live(t) /\ Key(t, m) # a /\ Side(t, m, a) \in Sides
         /\ Get(t, m, Side(t, m, a)) = n
         /\ \E k \in 0 .. MaxNode : Way(t, r, a)[k] = m
<1> DEFINE at == Way(t, r, a)
<1>0. MaxNode \in Nat /\ NULL \notin Live(t) /\ D[r] \subseteq Live(t) /\ \A j \in 0 .. MaxNode : at[j] \in D[r] \cup {NULL}
  BY SpanFacts, BpMapAssumption, LivePtr, Search
<1>1. PICK j \in 1 .. MaxNode : m = at[j - 1] /\ at[j] = n /\ at[j - 1] # n
  BY DEF Above
<1> DEFINE k == j - 1
<1>2. k \in 0 .. MaxNode - 1 /\ k + 1 = j /\ k \in 0 .. MaxNode
  BY <1>0
<1> HIDE DEF k
<1>3. m = at[k] /\ at[k + 1] = n /\ m # n
  BY <1>1, <1>2 DEF k
<1>4. m \in D[r] \cup {NULL}
  BY <1>0, <1>2, <1>3
<1>5. /\ m = NULL => n = m
      /\ m \in Live(t) /\ Key(t, m) = a => n = m
      /\ m \in Live(t) /\ Key(t, m) # a => n = Get(t, m, Side(t, m, a)) /\ Side(t, m, a) \in Sides
  BY <1>0, <1>2, <1>3, <1>4, WayStep
<1> QED
  BY <1>0, <1>2, <1>3, <1>4, <1>5

LEMMA HolderExists ==
  ASSUME NEW t \in Tree, NEW r, NEW a, NEW k \in 0 .. MaxNode, Way(t, r, a)[k] # r
  PROVE  Holder(t, r, a, Way(t, r, a)[k]) \in Above(t, r, a, Way(t, r, a)[k])
<1> DEFINE at == Way(t, r, a)
           n == at[k]
           T == {j \in 0 .. MaxNode : at[j] = n => Above(t, r, a, n) # {}}
<1>0. at[0] = r /\ MaxNode \in Nat
  BY WayFacts, BpMapAssumption
<1>1. 0 \in T
  BY <1>0
<1>2. ASSUME NEW j \in 0 .. MaxNode - 1, j \in T PROVE j + 1 \in T
  <2>0. j + 1 \in 1 .. MaxNode /\ j + 1 \in 0 .. MaxNode /\ (j + 1) - 1 = j
    BY <1>0
  <2> SUFFICES ASSUME at[j + 1] = n PROVE Above(t, r, a, n) # {}
    BY <2>0
  <2>1. CASE at[j] = n
    BY <1>2, <2>1
  <2>2. CASE at[j] # n
    <3>1. at[(j + 1) - 1] \in Above(t, r, a, n)
      BY <2>0, <2>2 DEF Above
    <3> QED
      BY <3>1
  <2> QED
    BY <2>1, <2>2
<1> HIDE DEF T
<1>3. \A j \in 0 .. MaxNode : j \in T
  BY <1>1, <1>2, StepInduction
<1>4. Above(t, r, a, n) # {}
  BY <1>3 DEF T
<1> QED
  BY <1>4 DEF Holder

-----------------------------------------------------------------------------
(* Insertion into the search tree. *)

\* The parent pointers are right.
Parents(t) ==
  /\ t.root # NULL => Get(t, t.root, "parent") = NULL
  /\ \A n \in Live(t), s \in Sides : Get(t, n, s) # NULL => Get(t, Get(t, n, s), "parent") = n

LEMMA NewRecord ==
  ASSUME NEW a \in Addr
  PROVE  /\ createNode(a) \in Node
         /\ \A e \in Field : createNode(a)[e] = IF e = "data" THEN a ELSE IF e = "color" THEN RED ELSE NULL
<1>1. NULL \in Ptr
  BY BpMapAssumption DEF Ptr, NULL
<1>2. createNode(a) \in Node
  BY <1>1 DEF createNode, Node
<1>3. \A e \in Field : createNode(a)[e] = IF e = "data" THEN a ELSE IF e = "color" THEN RED ELSE NULL
  BY DEF createNode, Field
<1> QED
  BY <1>2, <1>3

LEMMA MallocGet ==
  ASSUME NEW t \in Tree, NEW pt \in (1 .. MaxNode) \ Live(t), NEW a \in Addr
  PROVE  LET u == Malloc(t, pt, a)
         IN  /\ u \in Tree /\ Live(u) = Live(t) \cup {pt} /\ u.root = t.root
             /\ \A m : \A e \in Field : Get(u, m, e) =
                  IF m # pt THEN Get(t, m, e)
                  ELSE IF e = "data" THEN a ELSE IF e = "color" THEN RED ELSE NULL
<1> DEFINE u == Malloc(t, pt, a)
           g == [m \in Live(t) \cup {pt} |-> IF m = pt THEN createNode(a) ELSE t.node[m]]
<1>1. t.node \in [Live(t) -> Node] /\ Live(t) \subseteq 1 .. MaxNode
  BY TreeFacts
<1>2. u = [t EXCEPT !.node = g]
  BY DEF Malloc
<1>3. g \in [Live(t) \cup {pt} -> Node] /\ \A m \in Live(t) \cup {pt} : g[m] = IF m = pt THEN createNode(a) ELSE t.node[m]
  BY <1>1, NewRecord
<1> HIDE DEF g, u
<1>4. u = [root |-> t.root, node |-> g, undef |-> FALSE]
  BY <1>2 DEF Tree
<1>5. u \in Tree /\ u.root = t.root /\ u.node = g
  <2>1. Live(t) \cup {pt} \in SUBSET (1 .. MaxNode) /\ t.root \in Ptr
    BY <1>1, TreeFacts
  <2>2. [root |-> t.root, node |-> g, undef |-> FALSE] \in Tree
    BY <1>3, <2>1, MakeTree
  <2> QED
    BY <1>4, <2>2
<1>6. Live(u) = Live(t) \cup {pt}
  BY <1>3, <1>5 DEF Live
<1>7. ASSUME NEW m, NEW e \in Field
      PROVE Get(u, m, e) = IF m # pt THEN Get(t, m, e)
                  ELSE IF e = "data" THEN a ELSE IF e = "color" THEN RED ELSE NULL
  <2>1. CASE m = pt
    BY <1>3, <1>5, <1>6, <2>1, NewRecord DEF Get
  <2>2. CASE m # pt
    BY <1>3, <1>5, <1>6, <2>2 DEF Get
  <2> QED
    BY <2>1, <2>2
<1> QED
  BY <1>5, <1>6, <1>7 DEF u

\* The search does not see a node that is not linked.
LEMMA MallocWay ==
  ASSUME NEW t \in Tree, NEW D, Span(t, D), NEW r \in Live(t) \cup {NULL}, NEW a \in Addr,
         NEW pt \in (1 .. MaxNode) \ Live(t)
  PROVE  Way(Malloc(t, pt, a), r, a) = Way(t, r, a)
<1> DEFINE u == Malloc(t, pt, a)
           S == Live(t) \cup {NULL}
<1>1. /\ u \in Tree /\ Live(u) = Live(t) \cup {pt}
      /\ \A m \in S : \A e \in Field : Get(u, m, e) = Get(t, m, e)
  <2>1. pt \notin S
    BY BpMapAssumption DEF NULL
  <2> QED
    BY <2>1, MallocGet
<1> HIDE DEF u
<1>2. a \in Int /\ S \subseteq Ptr /\ NULL \notin Live(t) /\ pt # NULL
  BY BpMapAssumption, LivePtr DEF NULL
<1>3. ASSUME NEW n \in S PROVE Toward(u, a)[n] = Toward(t, a)[n] /\ Toward(u, a)[n] \in S
  <2>1. CASE n = NULL
    <3>1. n \notin Live(u) /\ n \notin Live(t) /\ n \in Ptr
      BY <1>1, <1>2, <2>1
    <3> QED
      BY <1>1, <1>2, <3>1, TowardFacts
  <2>2. CASE n \in Live(t)
    <3>0. n \in Live(u) /\ n \in Ptr
      BY <1>1, <1>2, <2>2
    <3>1. Get(u, n, "data") = Get(t, n, "data") /\ Side(u, n, a) = Side(t, n, a)
      <4>1. Get(u, n, "data") = Get(t, n, "data")
        BY <1>1, SideField
      <4>2. /\ Side(t, n, a) = IF a < Get(t, n, "data") THEN "left" ELSE "right"
            /\ Side(u, n, a) = IF a < Get(u, n, "data") THEN "left" ELSE "right"
        BY <1>1, <1>2, <2>2, <3>0, SideFacts
      <4> QED
        BY <4>1, <4>2
    <3>2. CASE Get(t, n, "data") = a
      BY <1>1, <1>2, <2>2, <3>0, <3>1, <3>2, TowardFacts
    <3>3. CASE Get(t, n, "data") # a
      <4>1. Toward(t, a)[n] = Get(t, n, Side(t, n, a)) /\ Toward(u, a)[n] = Get(u, n, Side(u, n, a))
        BY <1>1, <1>2, <2>2, <3>0, <3>1, <3>3, TowardFacts
      <4>2. Side(t, n, a) \in Sides /\ Side(t, n, a) \in Field
        BY <1>2, <2>2, SideFacts, SideField
      <4>3. Get(t, n, Side(t, n, a)) \in S
        BY <2>2, <4>2, SpanAt
      <4> QED
        BY <1>1, <3>1, <4>1, <4>2, <4>3
    <3> QED
      BY <3>2, <3>3
  <2> QED
    BY <2>1, <2>2
<1>4. r \in S
  OBVIOUS
<1> HIDE DEF S
<1>5. Follow(Toward(u, a), r) = Follow(Toward(t, a), r)
  <2>1. \A n \in S : Toward(u, a)[n] = Toward(t, a)[n] /\ Toward(u, a)[n] \in S
    BY <1>3
  <2> QED
    BY <1>4, <2>1, FollowSame
<1> QED
  BY <1>5 DEF Way, u

\* insertBST finds every parent pointer on its way right.
LEMMA SameParents ==
  ASSUME NEW t \in Tree, NEW D, Span(t, D), Sorted(t, D), Parents(t), NEW a \in Addr,
         NEW pt \in (1 .. MaxNode) \ Live(t)
  PROVE  LET w == Malloc(t, pt, a)
             above(n) == Above(w, w.root, a, n)
         IN  w = [w EXCEPT !.node = [n \in Live(w) |->
                    IF above(n) # {} THEN [w.node[n] EXCEPT !.parent = Holder(w, w.root, a, n)]
                                     ELSE w.node[n]]]
<1> DEFINE w == Malloc(t, pt, a)
           r == t.root
           up(n) == Holder(w, w.root, a, n)
           g == [n \in Live(w) |-> IF Above(w, w.root, a, n) # {} THEN [w.node[n] EXCEPT !.parent = up(n)]
                                                                  ELSE w.node[n]]
<1>1. /\ w \in Tree /\ Live(w) = Live(t) \cup {pt} /\ w.root = r
      /\ \A m : \A e \in Field : m # pt => Get(w, m, e) = Get(t, m, e)
  BY MallocGet
<1>2. /\ r \in Live(t) \cup {NULL} /\ D[r] = Live(t) /\ NULL \notin Live(t) /\ a \in Int
      /\ \A n \in D[r] : Order(t, D, n)
  BY SpanFacts, LivePtr, BpMapAssumption DEF Sorted
<1>3. \A n : Above(w, w.root, a, n) = Above(t, r, a, n)
  BY <1>1, <1>2, MallocWay DEF Above
<1> HIDE DEF w
<1>4. ASSUME NEW n \in Live(w), Above(w, w.root, a, n) # {} PROVE up(n) = Get(w, n, "parent")
  <2> DEFINE m == up(n)
  <2>1. m \in Above(t, r, a, n)
    BY <1>3, <1>4 DEF Holder
  <2> HIDE DEF m
  <2>2. m \in Live(t) /\ Side(t, m, a) \in Sides /\ Get(t, m, Side(t, m, a)) = n
    BY <1>2, <2>1, AboveFacts
  <2>3. n \in Live(t) \cup {NULL}
    BY <2>2, SpanAt
  <2>4. n # pt /\ n # NULL
    BY <1>1, <1>2, <2>3, LivePtr
  <2>5. Get(t, n, "parent") = m
    BY <2>2, <2>4 DEF Parents
  <2> QED
    BY <1>1, <2>4, <2>5, SideField DEF m
<1>5. ASSUME NEW n \in Live(w) PROVE g[n] = w.node[n]
  <2>1. CASE Above(w, w.root, a, n) # {}
    <3>1. w.node[n] \in Node /\ up(n) = w.node[n].parent
      BY <1>1, <1>4, <2>1, TreeFacts DEF Get
    <3> HIDE DEF up
    <3>2. [w.node[n] EXCEPT !.parent = up(n)] = w.node[n]
      BY <3>1 DEF Node
    <3> QED
      BY <2>1, <3>2
  <2>2. CASE Above(w, w.root, a, n) = {}
    BY <2>2
  <2> QED
    BY <2>1, <2>2
<1>6. g = w.node
  <2>1. w.node = [n \in Live(w) |-> w.node[n]]
    BY <1>1, TreeFacts
  <2>2. g = [n \in Live(w) |-> g[n]]
    OBVIOUS
  <2> HIDE DEF g
  <2> QED
    BY <1>5, <2>1, <2>2
<1> HIDE DEF g
<1>7. w = [w EXCEPT !.node = g]
  BY <1>1, <1>6 DEF Tree
<1> QED
  BY <1>7 DEF g, w

\* The new node is a leaf where the search for its address ended.
LEMMA Inserted ==
  ASSUME NEW t \in Tree, NEW D, Span(t, D), Sorted(t, D), Parents(t), NEW a \in Addr,
         NEW pt \in (1 .. MaxNode) \ Live(t), t.root # NULL, \A n \in Live(t) : Key(t, n) # a
  PROVE  LET u == insertBST(Malloc(t, pt, a), pt, a)
         IN  /\ u \in Tree /\ Live(u) = Live(t) \cup {pt} /\ u.root = t.root
             /\ \E last \in Live(t), s \in Sides :
                  /\ Get(t, last, s) = NULL /\ Before(s, a, Key(t, last))
                  /\ \A n \in Live(t), e \in Sides : last \in D[Get(t, n, e)] => Before(e, a, Key(t, n))
                  /\ \A m : \A e \in Field : Get(u, m, e) =
                       IF m = pt THEN IF e = "data" THEN a ELSE IF e = "color" THEN RED
                                      ELSE IF e = "parent" THEN last ELSE NULL
                       ELSE IF m = last /\ e = s THEN pt ELSE Get(t, m, e)
<1> DEFINE w == Malloc(t, pt, a)
           u == insertBST(w, pt, a)
           r == t.root
           last == Holder(t, r, a, NULL)
           s == Side(t, last, a)
<1>1. /\ w \in Tree /\ Live(w) = Live(t) \cup {pt} /\ w.root = r
      /\ \A m : \A e \in Field : Get(w, m, e) =
                  IF m # pt THEN Get(t, m, e)
                  ELSE IF e = "data" THEN a ELSE IF e = "color" THEN RED ELSE NULL
  BY MallocGet
<1>2. /\ r \in Live(t) \cup {NULL} /\ D[r] = Live(t) /\ NULL \notin Live(t) /\ a \in Int
      /\ \A n \in D[r] : Order(t, D, n)
  BY SpanFacts, LivePtr, BpMapAssumption DEF Sorted
<1>3. Way(w, r, a) = Way(t, r, a)
  BY <1>2, MallocWay
<1>4. End(t, r, a) = NULL
  BY <1>2, Search
<1>5. Holder(w, r, a, NULL) = last /\ End(w, r, a) = NULL
  BY <1>3, <1>4 DEF Holder, Above, End
<1>6. last \in Above(t, r, a, NULL)
  <2>1. Way(t, r, a)[MaxNode] = NULL /\ MaxNode \in 0 .. MaxNode
    BY <1>4, BpMapAssumption DEF End
  <2> QED
    BY <2>1, HolderExists
<1>7. /\ last \in Live(t) /\ Key(t, last) # a /\ s \in Sides /\ Get(t, last, s) = NULL
      /\ \E k \in 0 .. MaxNode : Way(t, r, a)[k] = last
  <2> HIDE DEF last
  <2> QED
    BY <1>2, <1>6, AboveFacts
<1> HIDE DEF last
<1>8. Before(s, a, Key(t, last))
  BY <1>2, <1>7, SideBefore
<1>9. ASSUME NEW n \in Live(t), NEW e \in Sides, last \in D[Get(t, n, e)] PROVE Before(e, a, Key(t, n))
  BY <1>2, <1>7, <1>9, WayOrder
<1>10. Side(w, last, a) = s
  <2>1. last \in Live(w) /\ Get(w, last, "data") = Get(t, last, "data")
    BY <1>1, <1>7, SideField
  <2> QED
    BY <1>1, <1>2, <1>7, <2>1, SideFacts
<1> HIDE DEF w, s
<1>11. u = Put(Put(w, last, s, pt), pt, "parent", last)
  <2>1. ~Astray(w, NULL, a) /\ ~Holds(w, NULL, a)
    <3>1. NULL \notin Live(w)
      BY <1>1, LivePtr
    <3> QED
      BY <3>1 DEF Astray, Holds
  <2>2. w = [w EXCEPT !.node = [n \in Live(w) |->
                    IF Above(w, w.root, a, n) # {} THEN [w.node[n] EXCEPT !.parent = Holder(w, w.root, a, n)]
                                     ELSE w.node[n]]]
    BY SameParents DEF w
  <2> QED
    BY <1>1, <1>5, <1>10, <2>1, <2>2 DEF insertBST
<1> DEFINE v == Put(w, last, s, pt)
<1>12. pt \in Ptr /\ last \in Ptr /\ pt \in Live(w) /\ last \in Live(w) /\ pt # last
  BY <1>1, <1>7, LivePtr
<1>13. /\ v \in Tree /\ Live(v) = Live(w) /\ v.root = r
       /\ \A m : \A e \in Field : Get(v, m, e) = IF m = last /\ e = s THEN pt ELSE Get(w, m, e)
  BY <1>1, <1>7, <1>12, PutGet, SideField
<1> HIDE DEF v
<1>14. /\ u \in Tree /\ Live(u) = Live(w) /\ u.root = r
       /\ \A m : \A e \in Field : Get(u, m, e) = IF m = pt /\ e = "parent" THEN last ELSE Get(v, m, e)
  <2>1. u = Put(v, pt, "parent", last)
    BY <1>11 DEF v
  <2>2. pt \in Live(v) /\ "parent" \in Field /\ last \in Values("parent")
    BY <1>12, <1>13, SideField
  <2> HIDE DEF u
  <2> QED
    BY <1>13, <2>1, <2>2, PutGet
<1> HIDE DEF u
<1>15. ASSUME NEW m, NEW e \in Field
       PROVE  Get(u, m, e) =
                       IF m = pt THEN IF e = "data" THEN a ELSE IF e = "color" THEN RED
                                      ELSE IF e = "parent" THEN last ELSE NULL
                       ELSE IF m = last /\ e = s THEN pt ELSE Get(t, m, e)
  BY <1>1, <1>12, <1>13, <1>14 DEF Field
<1>16. u \in Tree /\ Live(u) = Live(t) \cup {pt} /\ u.root = t.root
  BY <1>1, <1>14
<1> QED
  BY <1>7, <1>8, <1>9, <1>15, <1>16 DEF u, w

\* h[n] is the number of black nodes below n on every way down; a red node has
\* no red child but q.
Weight(t, n) == IF IsRed(t, n) THEN 0 ELSE 1
Heights(t, h) ==
  /\ h \in [Ptr -> Nat] /\ h[NULL] = 0
  /\ \A n \in Live(t), s \in Sides : h[n] = h[Get(t, n, s)] + Weight(t, Get(t, n, s))
Reds(t, q) ==
  /\ IsRed(t, t.root) => t.root = q
  /\ \A n \in Live(t), s \in Sides : IsRed(t, n) /\ IsRed(t, Get(t, n, s)) => Get(t, n, s) = q

Balanced(t, D, h, q) ==
  t \in Tree /\ Span(t, D) /\ Sorted(t, D) /\ Parents(t) /\ Heights(t, h) /\ Reds(t, q)

LEMMA NullBlack == ASSUME NEW t \in Tree PROVE ~IsRed(t, NULL)
BY LivePtr DEF IsRed

LEMMA ColorFacts ==
  /\ RED # BLACK
  /\ \A t \in Tree : \A n \in Live(t) : Get(t, n, "color") \in {RED, BLACK}
BY GetType, SideField DEF RED, BLACK

LEMMA InsertedSpan ==
  ASSUME NEW t \in Tree, NEW D, Span(t, D), NEW u \in Tree, NEW pt \in (1 .. MaxNode) \ Live(t),
         NEW last \in Live(t), NEW s \in Sides, Get(t, last, s) = NULL,
         Live(u) = Live(t) \cup {pt}, u.root = t.root,
         \A m \in Live(t), e \in Sides : Get(u, m, e) = IF m = last /\ e = s THEN pt ELSE Get(t, m, e),
         \A e \in Sides : Get(u, pt, e) = NULL
  PROVE  Span(u, [n \in Ptr |-> IF n = pt THEN {pt} ELSE IF last \in D[n] THEN D[n] \cup {pt} ELSE D[n]])
<1> DEFINE E == [n \in Ptr |-> IF n = pt THEN {pt} ELSE IF last \in D[n] THEN D[n] \cup {pt} ELSE D[n]]
<1>0. Live(u) \cup {NULL} \subseteq Ptr /\ NULL \notin Live(u) /\ pt \in Live(u) /\ pt # NULL /\ NULL \in Ptr
  BY LivePtr
<1>1. /\ D \in [Ptr -> SUBSET Live(t)] /\ D[NULL] = {} /\ t.root \in Live(t) \cup {NULL} /\ D[t.root] = Live(t)
  BY SpanFacts
<1>2. E \in [Ptr -> SUBSET Live(u)]
  BY <1>0, <1>1
<1>3. E[pt] = {pt} /\ E[NULL] = {} /\ \A n \in Live(t) \cup {NULL} : E[n] = IF last \in D[n] THEN D[n] \cup {pt} ELSE D[n]
  BY <1>0, <1>1
<1> HIDE DEF E
<1>4. u.root \in Live(u) \cup {NULL} /\ E[u.root] = Live(u)
  BY <1>1, <1>3
<1>5. Split(u, E, pt)
  <2>1. Get(u, pt, "left") = NULL /\ Get(u, pt, "right") = NULL
    BY DEF Sides
  <2> QED
    BY <1>3, <2>1 DEF Split
<1>6. ASSUME NEW n \in Live(t) PROVE Split(u, E, n)
  <2> DEFINE o == Other(s)
             l == Get(t, n, s)
             r == Get(t, n, o)
  <2>1. o \in Sides /\ o # s
    BY OtherFacts
  <2>2. /\ l \in Live(t) \cup {NULL} /\ r \in Live(t) \cup {NULL} /\ D[n] = {n} \cup D[l] \cup D[r]
        /\ n \notin D[l] /\ n \notin D[r] /\ D[l] \cap D[r] = {}
    BY SpanAt
  <2>3. Get(u, n, o) = r /\ Get(u, n, s) = IF n = last THEN pt ELSE l
    BY <2>1
  <2>4. n # pt /\ pt \notin D[l] /\ pt \notin D[r] /\ pt \notin D[n] /\ n \in Live(u) /\ r \in Live(u) \cup {NULL}
    BY <1>1, <2>2, SpanFacts
  <2>5. CASE n = last
    <3>1. l = NULL /\ D[l] = {} /\ last \in D[n] /\ last \notin D[r]
      BY <1>1, <2>2, <2>5
    <3>2. E[n] = D[n] \cup {pt} /\ E[r] = D[r] /\ Get(u, n, s) = pt
      BY <1>3, <2>2, <2>3, <2>5, <3>1
    <3> HIDE DEF o, l, r
    <3>3. /\ Get(u, n, s) \in Live(u) \cup {NULL} /\ Get(u, n, o) \in Live(u) \cup {NULL}
          /\ E[n] = {n} \cup E[Get(u, n, s)] \cup E[Get(u, n, o)]
          /\ n \notin E[Get(u, n, s)] /\ n \notin E[Get(u, n, o)] /\ E[Get(u, n, s)] \cap E[Get(u, n, o)] = {}
      BY <1>0, <1>3, <2>2, <2>3, <2>4, <3>1, <3>2
    <3> QED
      BY <3>3, SideSplit DEF o
  <2>6. CASE n # last
    <3>1. Get(u, n, s) = l /\ l \in Live(u) \cup {NULL}
      BY <2>2, <2>3, <2>6
    <3>2. /\ E[n] = IF last \in D[n] THEN D[n] \cup {pt} ELSE D[n]
          /\ E[l] = IF last \in D[l] THEN D[l] \cup {pt} ELSE D[l]
          /\ E[r] = IF last \in D[r] THEN D[r] \cup {pt} ELSE D[r]
      BY <1>3, <2>2
    <3> HIDE DEF o, l, r
    <3>3. /\ E[n] = {n} \cup E[l] \cup E[r] /\ n \notin E[l] /\ n \notin E[r] /\ E[l] \cap E[r] = {}
      BY <2>2, <2>4, <2>6, <3>2
    <3> QED
      BY <2>3, <2>4, <3>1, <3>3, SideSplit DEF o
  <2> QED
    BY <2>5, <2>6
<1> QED
  BY <1>2, <1>3, <1>4, <1>5, <1>6 DEF Span, E

\* insertBST leaves a balanced tree but for the new node, which is red.
LEMMA InsertBalanced ==
  ASSUME NEW t, NEW D, NEW h, Balanced(t, D, h, NULL), NEW a \in Addr,
         NEW pt \in (1 .. MaxNode) \ Live(t), \A n \in Live(t) : Key(t, n) # a
  PROVE  LET u == insertBST(Malloc(t, pt, a), pt, a)
         IN  /\ \E E, g : Balanced(u, E, g, pt)
             /\ Live(u) = Live(t) \cup {pt} /\ Key(u, pt) = a /\ \A n \in Live(t) : Key(u, n) = Key(t, n)
<1> DEFINE w == Malloc(t, pt, a)
           u == insertBST(w, pt, a)
           g == [h EXCEPT ![pt] = 1]
<1>0. t \in Tree /\ Span(t, D) /\ Sorted(t, D) /\ Parents(t) /\ Heights(t, h) /\ Reds(t, NULL)
  BY DEF Balanced
<1>1. pt # NULL /\ pt \in Ptr /\ NULL \notin Live(t) /\ Live(t) \subseteq Ptr /\ NULL \in Ptr
  BY <1>0, LivePtr, BpMapAssumption DEF NULL, Ptr
<1>2. h \in [Ptr -> Nat] /\ h[NULL] = 0
  BY <1>0 DEF Heights
<1>3. g \in [Ptr -> Nat] /\ g[NULL] = 0 /\ g[pt] = 1 /\ \A n \in Ptr : n # pt => g[n] = h[n]
  BY <1>1, <1>2
<1> HIDE DEF g
<1>4. CASE t.root = NULL
  <2>1. Live(t) = {}
    BY <1>0, <1>4, SpanFacts
  <2>2. /\ w \in Tree /\ Live(w) = {pt} /\ w.root = NULL
        /\ \A e \in Field : Get(w, pt, e) = IF e = "data" THEN a ELSE IF e = "color" THEN RED ELSE NULL
    BY <1>0, <1>4, <2>1, MallocGet
  <2> HIDE DEF w
  <2>3. u = [w EXCEPT !.root = pt]
    BY <2>2 DEF insertBST
  <2>4. /\ u \in Tree /\ Live(u) = {pt} /\ u.root = pt
        /\ \A e \in Field : Get(u, pt, e) = IF e = "data" THEN a ELSE IF e = "color" THEN RED ELSE NULL
    BY <1>1, <2>2, <2>3, RootGet
  <2> HIDE DEF u
  <2>5. /\ Get(u, pt, "data") = a /\ Get(u, pt, "color") = RED /\ Get(u, pt, "left") = NULL
        /\ Get(u, pt, "right") = NULL /\ Get(u, pt, "parent") = NULL
    BY <2>4 DEF Field
  <2> DEFINE E == [n \in Ptr |-> IF n = pt THEN {pt} ELSE {}]
  <2>6. E \in [Ptr -> SUBSET Live(u)] /\ E[pt] = {pt} /\ E[NULL] = {}
    BY <1>1, <2>4
  <2> HIDE DEF E
  <2>7. Span(u, E)
    BY <2>4, <2>5, <2>6 DEF Span, Split
  <2>8. Sorted(u, E)
    BY <2>4, <2>5, <2>6 DEF Sorted, Order, Sides
  <2>9. Parents(u)
    BY <2>4, <2>5 DEF Parents, Sides
  <2>10. Heights(u, g)
    <3>1. ~IsRed(u, NULL)
      BY <2>4, NullBlack
    <3> QED
      BY <1>3, <2>4, <2>5, <3>1 DEF Heights, Sides, Weight
  <2>11. Reds(u, pt)
    <3>1. ~IsRed(u, NULL)
      BY <2>4, NullBlack
    <3> QED
      BY <2>4, <2>5, <3>1 DEF Reds, Sides
  <2>12. Balanced(u, E, g, pt)
    BY <2>4, <2>7, <2>8, <2>9, <2>10, <2>11 DEF Balanced
  <2> QED
    BY <2>1, <2>4, <2>5, <2>12 DEF u, w, Key
<1>5. CASE t.root # NULL
  <2>1. /\ u \in Tree /\ Live(u) = Live(t) \cup {pt} /\ u.root = t.root
        /\ \E last \in Live(t), s \in Sides :
                  /\ Get(t, last, s) = NULL /\ Before(s, a, Key(t, last))
                  /\ \A n \in Live(t), e \in Sides : last \in D[Get(t, n, e)] => Before(e, a, Key(t, n))
                  /\ \A m : \A e \in Field : Get(u, m, e) =
                       IF m = pt THEN IF e = "data" THEN a ELSE IF e = "color" THEN RED
                                      ELSE IF e = "parent" THEN last ELSE NULL
                       ELSE IF m = last /\ e = s THEN pt ELSE Get(t, m, e)
    BY <1>0, <1>5, Inserted
  <2> HIDE DEF u
  <2>2. PICK last \in Live(t), s \in Sides :
                  /\ Get(t, last, s) = NULL /\ Before(s, a, Key(t, last))
                  /\ \A n \in Live(t), e \in Sides : last \in D[Get(t, n, e)] => Before(e, a, Key(t, n))
                  /\ \A m : \A e \in Field : Get(u, m, e) =
                       IF m = pt THEN IF e = "data" THEN a ELSE IF e = "color" THEN RED
                                      ELSE IF e = "parent" THEN last ELSE NULL
                       ELSE IF m = last /\ e = s THEN pt ELSE Get(t, m, e)
    BY <2>1
  <2>3. /\ Key(u, pt) = a /\ Get(u, pt, "color") = RED /\ Get(u, pt, "parent") = last
        /\ \A e \in Sides : Get(u, pt, e) = NULL
    BY <2>2, SideField DEF Key, Sides
  <2>4. /\ \A m : m # pt => Key(u, m) = Key(t, m) /\ Get(u, m, "color") = Get(t, m, "color")
                            /\ Get(u, m, "parent") = Get(t, m, "parent")
    BY <2>2, SideField DEF Key
  <2>5. \A m : \A e \in Sides : m # pt => Get(u, m, e) = IF m = last /\ e = s THEN pt ELSE Get(t, m, e)
    BY <2>2, SideField
  <2>6. \A m \in Live(t) : m # pt
    OBVIOUS
  <2>7. \A m \in Live(t), e \in Sides : Get(t, m, e) \in Live(t) \cup {NULL} /\ Get(t, m, e) # pt
    BY <1>0, <1>1, SpanAt
  <2> DEFINE E == [n \in Ptr |-> IF n = pt THEN {pt} ELSE IF last \in D[n] THEN D[n] \cup {pt} ELSE D[n]]
  <2>8. Span(u, E)
    BY <1>0, <2>1, <2>2, <2>3, <2>5, InsertedSpan
  <2>9. E[pt] = {pt} /\ E[NULL] = {} /\ \A n \in Live(t) \cup {NULL} : E[n] = IF last \in D[n] THEN D[n] \cup {pt} ELSE D[n]
    BY <1>0, <1>1, SpanFacts
  <2> HIDE DEF E
  <2>10. Sorted(u, E)
    <3> SUFFICES ASSUME NEW n \in Live(t), NEW e \in Sides, NEW m \in E[Get(u, n, e)]
                 PROVE  Before(e, Key(u, m), Key(u, n))
      BY <2>1, <2>3, <2>9 DEF Sorted, Order
    <3>1. Key(u, n) = Key(t, n)
      BY <2>4, <2>6
    <3>2. CASE n = last /\ e = s
      BY <2>2, <2>3, <2>5, <2>6, <2>9, <3>1, <3>2
    <3>3. CASE ~(n = last /\ e = s)
      <4>1. Get(u, n, e) = Get(t, n, e)
        BY <2>5, <2>6, <3>3
      <4>2. CASE m = pt
        <5>1. last \in D[Get(t, n, e)]
          <6>1. D[Get(t, n, e)] \subseteq Live(t)
            BY <1>0, <2>7, SpanFacts
          <6> QED
            BY <2>7, <2>9, <4>1, <4>2, <6>1
        <5> QED
          BY <2>2, <2>3, <3>1, <4>2, <5>1
      <4>3. CASE m # pt
        <5>1. m \in D[Get(t, n, e)]
          BY <2>7, <2>9, <4>1, <4>3
        <5> QED
          BY <1>0, <2>4, <3>1, <4>3, <5>1 DEF Sorted, Order
      <4> QED
        BY <4>2, <4>3
    <3> QED
      BY <3>2, <3>3
  <2>11. Parents(u)
    <3>1. Get(u, u.root, "parent") = NULL
      BY <1>0, <1>5, <2>1, <2>4, <2>6, SpanFacts DEF Parents
    <3>2. ASSUME NEW n \in Live(u), NEW e \in Sides, Get(u, n, e) # NULL
          PROVE  Get(u, Get(u, n, e), "parent") = n
      <4>1. n # pt /\ n \in Live(t)
        BY <2>1, <2>3, <3>2
      <4>2. CASE n = last /\ e = s
        BY <2>3, <2>5, <4>1, <4>2
      <4>3. CASE ~(n = last /\ e = s)
        <5>1. Get(u, n, e) = Get(t, n, e) /\ Get(t, n, e) # pt
          BY <2>5, <2>7, <4>1, <4>3
        <5> QED
          BY <1>0, <2>4, <3>2, <4>1, <5>1 DEF Parents
      <4> QED
        BY <4>2, <4>3
    <3> QED
      BY <3>1, <3>2 DEF Parents
  <2>12. /\ ~IsRed(u, NULL) /\ ~IsRed(t, NULL) /\ IsRed(u, pt)
         /\ \A m : m # pt => (IsRed(u, m) <=> IsRed(t, m))
    <3>1. ~IsRed(u, NULL) /\ ~IsRed(t, NULL)
      BY <1>0, <2>1, NullBlack
    <3> QED
      BY <2>1, <2>3, <2>4, <3>1 DEF IsRed
  <2>13. Heights(u, g)
    <3>1. ASSUME NEW n \in Live(u), NEW e \in Sides
          PROVE  g[n] = g[Get(u, n, e)] + Weight(u, Get(u, n, e))
      <4>1. CASE n = pt
        BY <1>3, <2>3, <2>12, <4>1 DEF Weight
      <4>2. CASE n = last /\ e = s
        <5>1. h[n] = 1
          BY <1>0, <1>2, <2>2, <2>12, <4>2 DEF Heights, Weight
        <5>2. Get(u, n, e) = pt /\ g[n] = 1
          BY <1>1, <1>3, <2>5, <2>6, <4>2, <5>1
        <5>3. Weight(u, pt) = 0
          BY <2>12 DEF Weight
        <5> QED
          BY <1>3, <5>2, <5>3
      <4>3. CASE n # pt /\ ~(n = last /\ e = s)
        <5>1. n \in Live(t) /\ Get(u, n, e) = Get(t, n, e)
          BY <2>1, <2>5, <4>3
        <5>2. Get(t, n, e) # pt /\ Get(t, n, e) \in Ptr /\ n \in Ptr
          BY <1>1, <2>7, <5>1
        <5>3. h[n] = h[Get(t, n, e)] + Weight(t, Get(t, n, e))
          BY <1>0, <5>1 DEF Heights
        <5>4. Weight(u, Get(t, n, e)) = Weight(t, Get(t, n, e))
          BY <2>12, <5>2 DEF Weight
        <5> QED
          BY <1>3, <4>3, <5>1, <5>2, <5>3, <5>4
      <4> QED
        BY <4>1, <4>2, <4>3
    <3> QED
      BY <1>3, <3>1 DEF Heights
  <2>14. Reds(u, pt)
    <3>1. ~IsRed(u, u.root)
      <4>1. u.root = t.root /\ t.root # pt
        BY <1>0, <1>5, <2>1, <2>6, SpanFacts
      <4>2. ~IsRed(t, t.root)
        BY <1>0, <1>5 DEF Reds
      <4> QED
        BY <2>12, <4>1, <4>2
    <3>2. ASSUME NEW n \in Live(u), NEW e \in Sides, IsRed(u, n), IsRed(u, Get(u, n, e))
          PROVE  Get(u, n, e) = pt
      <4>1. n # pt /\ n \in Live(t)
        BY <2>1, <2>3, <2>12, <3>2
      <4> SUFFICES ASSUME ~(n = last /\ e = s) PROVE FALSE
        BY <2>5, <4>1
      <4>2. Get(u, n, e) = Get(t, n, e) /\ Get(t, n, e) # pt
        BY <2>5, <2>7, <4>1
      <4>3. Get(t, n, e) = NULL
        BY <1>0, <2>12, <3>2, <4>1, <4>2 DEF Reds
      <4> QED
        BY <2>12, <3>2, <4>2, <4>3
    <3> QED
      BY <3>1, <3>2 DEF Reds
  <2>15. Balanced(u, E, g, pt)
    BY <2>1, <2>8, <2>10, <2>11, <2>13, <2>14 DEF Balanced
  <2> QED
    BY <2>1, <2>3, <2>4, <2>6, <2>15 DEF u, w
<1> QED
  BY <1>4, <1>5

-----------------------------------------------------------------------------
(* Rotation. *)

LEMMA ParentOf ==
  ASSUME NEW t \in Tree, NEW D, Span(t, D), Parents(t), NEW x \in Live(t)
  PROVE  LET p == Get(t, x, "parent")
         IN  /\ x = t.root => p = NULL
             /\ x # t.root => p \in Live(t) /\ p # x /\ \E e \in Sides : Get(t, p, e) = x
<1>1. CASE x = t.root
  BY <1>1, LivePtr DEF Parents
<1>2. CASE x # t.root
  <2>1. t.root \in Live(t) /\ x \in D[t.root] /\ NULL \notin Live(t)
    BY SpanFacts, LivePtr
  <2>2. PICK p \in D[t.root], e \in Sides : p \in Live(t) /\ Get(t, p, e) = x
    BY <1>2, <2>1, HasParent
  <2>3. Get(t, x, "parent") = p
    BY <2>1, <2>2 DEF Parents
  <2>4. p # x
    BY <2>2, SpanAt, SpanFacts
  <2> QED
    BY <1>2, <2>2, <2>3, <2>4
<1> QED
  BY <1>1, <1>2

LEMMA PutLink ==
  ASSUME NEW t, NEW n, NEW f, NEW v, t \in Tree, n \in Live(t), f \in Link, v \in Ptr
  PROVE  LET u == Put(t, n, f, v)
         IN  /\ u \in Tree /\ Live(u) = Live(t) /\ u.root = t.root
             /\ \A m : \A e \in Field : Get(u, m, e) = IF m = n /\ e = f THEN v ELSE Get(t, m, e)
<1>1. f \in Field /\ v \in Values(f)
  BY DEF Link, Field, Values
<1> QED
  BY <1>1, PutGet

LEMMA RotateFields ==
  ASSUME NEW t \in Tree, NEW D, Span(t, D), Parents(t), NEW x \in Live(t), NEW s \in Sides,
         Get(t, x, Other(s)) \in Live(t)
  PROVE  LET u == rotate(t, x, s)
             y == Get(t, x, Other(s))
             c == Get(t, y, s)
         IN  /\ u \in Tree /\ Live(u) = Live(t) /\ u.root = IF t.root = x THEN y ELSE t.root
             /\ \A n : Key(u, n) = Key(t, n) /\ Get(u, n, "color") = Get(t, n, "color")
             /\ \A n \in Live(t), e \in Sides : Get(u, n, e) =
                  IF n = x /\ e = Other(s) THEN c ELSE IF n = y /\ e = s THEN x
                  ELSE IF Get(t, n, e) = x THEN y ELSE Get(t, n, e)
             /\ \A n \in Live(t) : Get(u, n, "parent") =
                  IF n = x THEN y ELSE IF n = y THEN Get(t, x, "parent")
                  ELSE IF n = c THEN x ELSE Get(t, n, "parent")
<1> DEFINE o  == Other(s)
           y  == Get(t, x, o)
           c  == Get(t, y, s)
           p  == Get(t, x, "parent")
           t1 == Put(t, x, o, c)
           t2 == IF c # NULL THEN Put(t1, c, "parent", x) ELSE t1
           t3 == Put(t2, y, "parent", Get(t2, x, "parent"))
           q  == Get(t3, x, "parent")
           t4 == IF q = NULL THEN [t3 EXCEPT !.root = y]
                 ELSE IF x = Get(t3, q, "left") THEN Put(t3, q, "left", y) ELSE Put(t3, q, "right", y)
           t5 == Put(t4, y, s, x)
           t6 == Put(t5, x, "parent", y)
<1>0. rotate(t, x, s) = t6
  BY DEF rotate
<1>1. o \in Sides /\ o # s /\ y \in Live(t) /\ c \in Live(t) \cup {NULL} /\ Live(t) \cup {NULL} \subseteq Ptr /\ NULL \notin Live(t)
  BY OtherFacts, SpanAt, LivePtr
<1>2. x # y /\ x # c /\ y # c
  <2>1. x \in D[x] /\ y \in D[y] /\ x \notin D[y] /\ D[c] \subseteq D[y] /\ y \notin D[c] /\ (c # NULL => c \in D[c])
    BY <1>1, SpanAt, SpanFacts
  <2> QED
    BY <1>1, <2>1
<1>3. /\ x = t.root => p = NULL
      /\ x # t.root => p \in Live(t) /\ p # x /\ \E e \in Sides : Get(t, p, e) = x
  BY ParentOf
<1>4. p # NULL => x # t.root /\ p # y
  <2> SUFFICES ASSUME p = y, p # NULL PROVE FALSE
    BY <1>3
  <2>1. PICK e \in Sides : Get(t, y, e) = x
    BY <1>3
  <2>2. x \in D[y] /\ x \notin D[y]
    BY <1>1, <2>1, SpanAt, SpanFacts
  <2> QED
    BY <2>2
<1>5. /\ Sides \subseteq Field /\ "parent" \in Field /\ "data" \in Field /\ "color" \in Field
      /\ "parent" \notin Sides /\ "data" \notin Sides /\ "color" \notin Sides
      /\ Values("parent") = Ptr /\ \A e \in Sides : Values(e) = Ptr
  BY SideField
<1>6. p \in Ptr /\ x \in Ptr /\ y \in Ptr /\ c \in Ptr /\ s \in Link /\ o \in Link /\ "parent" \in Link /\ Sides \subseteq Link
  BY <1>1, <1>3 DEF Sides, Link
<1> HIDE DEF o, y, c, p
<1>7. /\ t1 \in Tree /\ Live(t1) = Live(t) /\ t1.root = t.root
      /\ \A m : \A e \in Field : Get(t1, m, e) = IF m = x /\ e = o THEN c ELSE Get(t, m, e)
  BY <1>6, PutLink
<1> HIDE DEF t1
<1>8. /\ t2 \in Tree /\ Live(t2) = Live(t) /\ t2.root = t.root
      /\ \A m : \A e \in Field : m \in Live(t) => Get(t2, m, e) = IF m = c /\ e = "parent" THEN x ELSE Get(t1, m, e)
  <2>1. CASE c = NULL
    BY <1>1, <1>7, <2>1
  <2>2. CASE c # NULL
    <3>1. c \in Live(t1) /\ t2 = Put(t1, c, "parent", x) /\ t1 \in Tree
      BY <1>1, <1>7, <2>2
    <3> HIDE DEF t2
    <3>2. /\ t2 \in Tree /\ Live(t2) = Live(t1) /\ t2.root = t1.root
          /\ \A m : \A e \in Field : Get(t2, m, e) = IF m = c /\ e = "parent" THEN x ELSE Get(t1, m, e)
      BY <1>6, <3>1, PutLink
    <3> QED
      BY <1>7, <3>2
  <2> QED
    BY <2>1, <2>2
<1> HIDE DEF t2
<1>9. Get(t2, x, "parent") = p
  BY <1>2, <1>1, <1>5, <1>7, <1>8 DEF p
<1>10. /\ t3 \in Tree /\ Live(t3) = Live(t) /\ t3.root = t.root
       /\ \A m : \A e \in Field : Get(t3, m, e) = IF m = y /\ e = "parent" THEN p ELSE Get(t2, m, e)
  <2>1. t2 \in Tree /\ y \in Live(t2) /\ t3 = Put(t2, y, "parent", p)
    BY <1>1, <1>8, <1>9
  <2> HIDE DEF t3
  <2>2. /\ t3 \in Tree /\ Live(t3) = Live(t2) /\ t3.root = t2.root
        /\ \A m : \A e \in Field : Get(t3, m, e) = IF m = y /\ e = "parent" THEN p ELSE Get(t2, m, e)
    BY <1>6, <2>1, PutLink
  <2> QED
    BY <1>8, <2>2
<1> HIDE DEF t3
<1>11. q = p
  BY <1>2, <1>5, <1>9, <1>10
<1> HIDE DEF q
<1>12. \A n \in Live(t), e \in Sides : n # x => Get(t3, n, e) = Get(t, n, e)
  BY <1>5, <1>7, <1>8, <1>10
<1>13. /\ t4 \in Tree /\ Live(t4) = Live(t) /\ t4.root = IF t.root = x THEN y ELSE t.root
       /\ \A m \in Live(t) : \A e \in Field : Get(t4, m, e) =
            IF m # x /\ e \in Sides /\ Get(t, m, e) = x THEN y ELSE Get(t3, m, e)
  <2>1. CASE p = NULL
    <3>1. t.root = x
      BY <1>1, <1>3, <2>1
    <3>2. t4 = [t3 EXCEPT !.root = y]
      BY <1>11, <2>1
    <3> HIDE DEF t4
    <3>3. /\ t4 \in Tree /\ Live(t4) = Live(t) /\ t4.root = y
          /\ \A m : \A e \in Field : Get(t4, m, e) = Get(t3, m, e)
      BY <1>6, <1>10, <3>2, RootGet
    <3>4. ASSUME NEW m \in Live(t), NEW e \in Sides PROVE Get(t, m, e) # x
      BY <1>1, <2>1, <3>4 DEF Parents, p
    <3> QED
      BY <3>1, <3>3, <3>4
  <2>2. CASE p # NULL
    <3>1. p \in Live(t) /\ p # x /\ p # y /\ t.root # x
      BY <1>3, <1>4, <2>2
    <3>2. PICK f \in Sides : Get(t, p, f) = x
      BY <1>3, <3>1
    <3>3. \A m \in Live(t), e \in Sides : Get(t, m, e) = x <=> m = p /\ e = f
      BY <3>1, <3>2, OneParent
    <3>4. t4 = Put(t3, p, f, y)
      <4>1. x = Get(t3, p, "left") <=> f = "left"
        BY <1>12, <3>1, <3>2, <3>3 DEF Sides
      <4> QED
        BY <1>11, <2>2, <4>1 DEF Sides
    <3> HIDE DEF t4
    <3>5. /\ t4 \in Tree /\ Live(t4) = Live(t) /\ t4.root = t.root
          /\ \A m : \A e \in Field : Get(t4, m, e) = IF m = p /\ e = f THEN y ELSE Get(t3, m, e)
      <4>1. t3 \in Tree /\ p \in Live(t3) /\ f \in Link
        BY <1>6, <1>10, <3>1
      <4>2. /\ t4 \in Tree /\ Live(t4) = Live(t3) /\ t4.root = t3.root
            /\ \A m : \A e \in Field : Get(t4, m, e) = IF m = p /\ e = f THEN y ELSE Get(t3, m, e)
        BY <1>6, <3>4, <4>1, PutLink
      <4> QED
        BY <1>10, <4>2
    <3> QED
      BY <1>5, <3>1, <3>3, <3>5
  <2> QED
    BY <2>1, <2>2
<1> HIDE DEF t4
<1>14. /\ t5 \in Tree /\ Live(t5) = Live(t) /\ t5.root = IF t.root = x THEN y ELSE t.root
       /\ \A m : \A e \in Field : Get(t5, m, e) = IF m = y /\ e = s THEN x ELSE Get(t4, m, e)
  <2>1. t4 \in Tree /\ y \in Live(t4)
    BY <1>1, <1>13
  <2>2. /\ t5 \in Tree /\ Live(t5) = Live(t4) /\ t5.root = t4.root
        /\ \A m : \A e \in Field : Get(t5, m, e) = IF m = y /\ e = s THEN x ELSE Get(t4, m, e)
    BY <1>6, <2>1, PutLink
  <2> HIDE DEF t5
  <2> QED
    BY <1>13, <2>2
<1> HIDE DEF t5
<1>15. /\ t6 \in Tree /\ Live(t6) = Live(t) /\ t6.root = IF t.root = x THEN y ELSE t.root
       /\ \A m : \A e \in Field : Get(t6, m, e) = IF m = x /\ e = "parent" THEN y ELSE Get(t5, m, e)
  <2>1. t5 \in Tree /\ x \in Live(t5)
    BY <1>1, <1>14
  <2>2. /\ t6 \in Tree /\ Live(t6) = Live(t5) /\ t6.root = t5.root
        /\ \A m : \A e \in Field : Get(t6, m, e) = IF m = x /\ e = "parent" THEN y ELSE Get(t5, m, e)
    BY <1>6, <2>1, PutLink
  <2> HIDE DEF t6
  <2> QED
    BY <1>14, <2>2
<1> HIDE DEF t6
<1>16. ASSUME NEW n \in Live(t), NEW e \in {"data", "color"} PROVE Get(t6, n, e) = Get(t, n, e)
  <2>1. e \in Field /\ e \notin Sides /\ e # "parent" /\ e # s /\ e # o
    BY <1>1, <1>5
  <2> QED
    BY <1>7, <1>8, <1>10, <1>13, <1>14, <1>15, <2>1
<1>17. ASSUME NEW n, NEW e PROVE n \notin Live(t) => Get(t6, n, e) = Get(t, n, e)
  BY <1>15 DEF Get
<1>18. ASSUME NEW n \in Live(t), NEW e \in Sides
       PROVE  Get(t6, n, e) = IF n = x /\ e = o THEN c ELSE IF n = y /\ e = s THEN x
                              ELSE IF Get(t, n, e) = x THEN y ELSE Get(t, n, e)
  <2>1. e \in Field /\ e # "parent"
    BY <1>5
  <2>2. Get(t6, n, e) = IF n = y /\ e = s THEN x ELSE IF n # x /\ Get(t, n, e) = x THEN y ELSE Get(t3, n, e)
    BY <1>13, <1>14, <1>15, <2>1
  <2>3. Get(t3, n, e) = IF n = x /\ e = o THEN c ELSE Get(t, n, e)
    BY <1>7, <1>8, <1>10, <2>1
  <2>4. Get(t, x, e) # x
    BY SpanAt, SpanFacts
  <2> QED
    BY <1>2, <2>2, <2>3, <2>4
<1>19. ASSUME NEW n \in Live(t)
       PROVE  Get(t6, n, "parent") = IF n = x THEN y ELSE IF n = y THEN p
                                     ELSE IF n = c THEN x ELSE Get(t, n, "parent")
  <2>1. "parent" # s /\ "parent" # o
    BY <1>1, <1>5
  <2>2. Get(t6, n, "parent") = IF n = x THEN y ELSE Get(t3, n, "parent")
    BY <1>5, <1>13, <1>14, <1>15, <2>1
  <2>3. Get(t3, n, "parent") = IF n = y THEN p ELSE IF n = c THEN x ELSE Get(t, n, "parent")
    BY <1>5, <1>7, <1>8, <1>10, <2>1
  <2> QED
    BY <2>2, <2>3
<1>20. \A n : Key(t6, n) = Key(t, n) /\ Get(t6, n, "color") = Get(t, n, "color")
  BY <1>16, <1>17 DEF Key
<1> QED
  BY <1>0, <1>15, <1>18, <1>19, <1>20 DEF o, y, c, p

LEMMA BeforeFacts ==
  /\ \A s \in Sides : \A a, b \in Int : Before(Other(s), a, b) <=> Before(s, b, a)
  /\ \A s \in Sides : \A a, b, c \in Int : Before(s, a, b) /\ Before(s, b, c) => Before(s, a, c)
BY DEF Sides, Before, Other

\* The subtrees after a rotation in which x goes down to side s.
Rotated(t, D, x, s) ==
  LET y == Get(t, x, Other(s))
  IN  [n \in Ptr |-> IF n = y THEN D[x]
                     ELSE IF n = x THEN {x} \cup D[Get(t, x, s)] \cup D[Get(t, y, s)] ELSE D[n]]

LEMMA RotateShape ==
  ASSUME NEW t \in Tree, NEW D, Span(t, D), Sorted(t, D), Parents(t), NEW x \in Live(t), NEW s \in Sides,
         Get(t, x, Other(s)) \in Live(t)
  PROVE  LET u == rotate(t, x, s)
             E == Rotated(t, D, x, s)
         IN  Span(u, E) /\ Sorted(u, E) /\ Parents(u)
<1> DEFINE o == Other(s)
           u == rotate(t, x, s)
           y == Get(t, x, o)
           c == Get(t, y, s)
           b == Get(t, x, s)
           d == Get(t, y, o)
           E == Rotated(t, D, x, s)
<1>1. /\ u \in Tree /\ Live(u) = Live(t) /\ u.root = IF t.root = x THEN y ELSE t.root
      /\ \A n : Key(u, n) = Key(t, n)
      /\ \A n \in Live(t), e \in Sides : Get(u, n, e) =
                  IF n = x /\ e = o THEN c ELSE IF n = y /\ e = s THEN x
                  ELSE IF Get(t, n, e) = x THEN y ELSE Get(t, n, e)
      /\ \A n \in Live(t) : Get(u, n, "parent") =
                  IF n = x THEN y ELSE IF n = y THEN Get(t, x, "parent")
                  ELSE IF n = c THEN x ELSE Get(t, n, "parent")
  BY RotateFields
<1> HIDE DEF u
<1>2. o \in Sides /\ o # s /\ \A e \in Sides : e = s \/ e = o
  BY OtherFacts
<1>3. y \in Live(t) /\ Live(t) \cup {NULL} \subseteq Ptr /\ NULL \notin Live(t)
  BY LivePtr
<1>4. /\ b \in Live(t) \cup {NULL} /\ D[x] = {x} \cup D[b] \cup D[y]
      /\ x \notin D[b] /\ x \notin D[y] /\ D[b] \cap D[y] = {}
  BY SpanAt
<1>5. /\ c \in Live(t) \cup {NULL} /\ d \in Live(t) \cup {NULL} /\ D[y] = {y} \cup D[c] \cup D[d]
      /\ y \notin D[c] /\ y \notin D[d] /\ D[c] \cap D[d] = {}
  BY <1>3, SpanAt
<1>6. D \in [Ptr -> SUBSET Live(t)] /\ D[NULL] = {} /\ \A n \in Live(t) : n \in D[n]
  BY SpanFacts
<1>7. \A n \in Live(t), e \in Sides : Get(t, n, e) = y <=> n = x /\ e = o
  BY <1>2, <1>3, OneParent
<1>8. c # NULL => \A n \in Live(t), e \in Sides : Get(t, n, e) = c <=> n = y /\ e = s
  BY <1>3, <1>5, OneParent
<1>9. x # y /\ b # x /\ b # y /\ c # x /\ c # y /\ d # x /\ d # y
  BY <1>3, <1>4, <1>5, <1>6
<1>10. /\ E \in [Ptr -> SUBSET Live(t)] /\ E[NULL] = {} /\ E[y] = D[x] /\ E[x] = {x} \cup D[b] \cup D[c]
       /\ \A n \in Ptr : n # x /\ n # y => E[n] = D[n]
  BY <1>3, <1>4, <1>5, <1>6, <1>9 DEF Rotated
<1>11. Get(u, x, s) = b /\ Get(u, x, o) = c /\ Get(u, y, s) = x /\ Get(u, y, o) = d
  BY <1>1, <1>2, <1>3, <1>9
<1>12. ASSUME NEW n \in Live(t), n # x, n # y, NEW e \in Sides
       PROVE  /\ Get(u, n, e) = IF Get(t, n, e) = x THEN y ELSE Get(t, n, e)
              /\ Get(t, n, e) \in Live(t) \cup {NULL} /\ Get(u, n, e) \in Live(t) \cup {NULL}
              /\ E[Get(u, n, e)] = D[Get(t, n, e)]
  <2>1. Get(u, n, e) = IF Get(t, n, e) = x THEN y ELSE Get(t, n, e)
    BY <1>1, <1>12
  <2>2. Get(t, n, e) # y
    BY <1>7, <1>12
  <2>3. Get(t, n, e) \in Live(t) \cup {NULL}
    BY SpanAt
  <2> QED
    BY <1>3, <1>10, <2>1, <2>2, <2>3
<1> HIDE DEF E, o, y, b, c, d
<1>13. Span(u, E)
  <2>1. u.root \in Live(u) \cup {NULL} /\ E[u.root] = Live(u)
    <3>1. t.root # y
      <4>1. Get(t, y, "parent") = x
        BY <1>2, <1>3 DEF Parents, y
      <4> QED
        BY <1>3, <4>1 DEF Parents
    <3>2. t.root \in Live(t) \cup {NULL} /\ D[t.root] = Live(t)
      BY SpanFacts
    <3> QED
      BY <1>1, <1>3, <1>10, <3>1, <3>2
  <2>2. ASSUME NEW n \in Live(t) PROVE Split(u, E, n)
    <3>1. CASE n = x
      <4>1. E[b] = D[b] /\ E[c] = D[c]
        BY <1>3, <1>4, <1>5, <1>9, <1>10
      <4>2. /\ E[x] = {x} \cup E[b] \cup E[c] /\ x \notin E[b] /\ x \notin E[c] /\ E[b] \cap E[c] = {}
        BY <1>4, <1>5, <1>10, <4>1
      <4>3. b \in Live(u) \cup {NULL} /\ c \in Live(u) \cup {NULL}
        BY <1>1, <1>4, <1>5
      <4> QED
        BY <1>11, <3>1, <4>2, <4>3, SideSplit DEF o
    <3>2. CASE n = y
      <4>1. E[d] = D[d]
        BY <1>3, <1>5, <1>9, <1>10
      <4>2. /\ E[y] = {y} \cup E[x] \cup E[d] /\ y \notin E[x] /\ y \notin E[d] /\ E[x] \cap E[d] = {}
        <5>1. y \in D[y] /\ y \notin D[b]
          BY <1>4, <1>5
        <5> QED
          BY <1>4, <1>5, <1>9, <1>10, <4>1, <5>1
      <4>3. d \in Live(u) \cup {NULL} /\ x \in Live(u) \cup {NULL}
        BY <1>1, <1>5
      <4> QED
        BY <1>11, <3>2, <4>2, <4>3, SideSplit DEF o
    <3>3. CASE n # x /\ n # y
      <4> DEFINE l == Get(t, n, "left")
                 r == Get(t, n, "right")
      <4>1. D[n] = {n} \cup D[l] \cup D[r] /\ n \notin D[l] /\ n \notin D[r] /\ D[l] \cap D[r] = {}
        BY DEF Span, Split
      <4>2. /\ E[Get(u, n, "left")] = D[l] /\ E[Get(u, n, "right")] = D[r]
            /\ Get(u, n, "left") \in Live(u) \cup {NULL} /\ Get(u, n, "right") \in Live(u) \cup {NULL}
        BY <1>1, <1>12, <3>3 DEF Sides
      <4>3. E[n] = D[n]
        BY <1>3, <1>10, <3>3
      <4> QED
        BY <4>1, <4>2, <4>3 DEF Split
    <3> QED
      BY <3>1, <3>2, <3>3
  <2> QED
    BY <1>1, <1>10, <2>1, <2>2 DEF Span
<1>14. Sorted(u, E)
  <2> SUFFICES ASSUME NEW n \in Live(t), NEW e \in Sides, NEW m \in E[Get(u, n, e)]
               PROVE  Before(e, Key(t, m), Key(t, n))
    BY <1>1 DEF Sorted, Order
  <2>1. \A q \in Live(t), f \in Sides : \A j \in D[Get(t, q, f)] : Before(f, Key(t, j), Key(t, q))
    BY DEF Sorted, Order
  <2>2. E[Get(u, n, e)] \subseteq Live(t) /\ m \in Live(t)
    <3>1. Get(u, n, e) \in Ptr
      BY <1>1, <1>3, <1>13, SpanAt
    <3> QED
      BY <1>10, <3>1
  <2>3. Key(t, m) \in Int /\ Key(t, n) \in Int /\ Key(t, x) \in Int /\ Key(t, y) \in Int
    BY <1>3, <2>2, KeyType
  <2>4. Before(s, Key(t, x), Key(t, y))
    <3>1. Before(o, Key(t, y), Key(t, x))
      BY <1>2, <1>3, <1>6, <2>1 DEF y
    <3> QED
      BY <2>3, <3>1, BeforeFacts DEF o
  <2>5. CASE n = x /\ e = s
    <3>1. m \in D[b]
      BY <1>3, <1>4, <1>9, <1>10, <1>11, <2>5
    <3> QED
      BY <2>1, <2>5, <3>1 DEF b
  <2>6. CASE n = x /\ e = o
    <3>1. m \in D[y]
      BY <1>3, <1>5, <1>9, <1>10, <1>11, <2>6
    <3> QED
      BY <2>1, <2>6, <3>1 DEF y
  <2>7. CASE n = y /\ e = s
    <3>1. m = x \/ m \in D[b] \/ m \in D[c]
      BY <1>10, <1>11, <2>7
    <3>2. m \in D[b] => Before(s, Key(t, m), Key(t, x))
      BY <2>1 DEF b
    <3>3. m \in D[c] => Before(s, Key(t, m), Key(t, y))
      BY <1>3, <2>1 DEF c
    <3> QED
      BY <2>3, <2>4, <2>7, <3>1, <3>2, <3>3, BeforeFacts
  <2>8. CASE n = y /\ e = o
    <3>1. m \in D[d]
      BY <1>3, <1>5, <1>9, <1>10, <1>11, <2>8
    <3> QED
      BY <1>3, <2>1, <2>8, <3>1 DEF d
  <2>9. CASE n # x /\ n # y
    BY <1>12, <2>1, <2>9
  <2> QED
    BY <1>2, <2>5, <2>6, <2>7, <2>8, <2>9
<1>15. Parents(u)
  <2>0. /\ t.root # NULL => Get(t, t.root, "parent") = NULL
        /\ \A n \in Live(t), f \in Sides : Get(t, n, f) # NULL => Get(t, Get(t, n, f), "parent") = n
    BY DEF Parents
  <2>1. Get(t, y, "parent") = x /\ (c # NULL => Get(t, c, "parent") = y)
    BY <1>2, <1>3, <2>0 DEF c, y
  <2>2. u.root # NULL => Get(u, u.root, "parent") = NULL
    <3>1. CASE t.root = x
      <4>1. Get(t, x, "parent") = NULL
        BY <1>3, <2>0, <3>1
      <4> QED
        BY <1>1, <1>3, <1>9, <3>1, <4>1
    <3>2. CASE t.root # x /\ t.root # NULL
      <4>1. t.root \in Live(t) /\ t.root # y /\ t.root # c
        BY <1>3, <2>0, <2>1, <3>2, SpanFacts
      <4> QED
        BY <1>1, <2>0, <3>2, <4>1
    <3> QED
      BY <1>1, <3>1, <3>2
  <2>3. ASSUME NEW n \in Live(t), NEW e \in Sides, Get(u, n, e) # NULL
        PROVE  Get(u, Get(u, n, e), "parent") = n
    <3>1. CASE n = x /\ e = o
      BY <1>1, <1>5, <1>9, <1>11, <2>3, <3>1
    <3>2. CASE n = y /\ e = s
      BY <1>1, <1>11, <3>2
    <3>3. CASE ~(n = x /\ e = o) /\ ~(n = y /\ e = s)
      <4> DEFINE k == Get(t, n, e)
      <4>1. Get(u, n, e) = IF k = x THEN y ELSE k
        BY <1>1, <3>3
      <4>2. CASE k = x
        BY <1>1, <1>3, <1>9, <2>0, <4>1, <4>2
      <4>3. CASE k # x
        <5>1. k # NULL /\ k # y /\ k # c /\ k \in Live(t)
          BY <1>7, <1>8, <2>3, <3>3, <4>1, <4>3, SpanAt
        <5> QED
          BY <1>1, <2>0, <4>1, <4>3, <5>1
      <4> QED
        BY <4>2, <4>3
    <3> QED
      BY <3>1, <3>2, <3>3
  <2> QED
    BY <1>1, <2>2, <2>3 DEF Parents
<1> QED
  BY <1>13, <1>14, <1>15 DEF u, E

-----------------------------------------------------------------------------
(* Rebalancing. *)

\* What a step of the rebalancing keeps.
SameKeys(t, u) == Live(u) = Live(t) /\ \A n : Key(u, n) = Key(t, n)

LEMMA PutColor ==
  ASSUME NEW t \in Tree, NEW n \in Live(t), NEW v \in {RED, BLACK}
  PROVE  LET u == Put(t, n, "color", v)
         IN  /\ u \in Tree /\ u.root = t.root /\ SameKeys(t, u)
             /\ \A m : \A e \in Sides \cup {"parent"} : Get(u, m, e) = Get(t, m, e)
             /\ \A m : Get(u, m, "color") = IF m = n THEN v ELSE Get(t, m, "color")
             /\ \A m : IsRed(u, m) <=> IF m = n THEN v = RED ELSE IsRed(t, m)
             /\ Parents(t) => Parents(u)
             /\ \A D : Span(t, D) => Span(u, D)
             /\ \A D : Sorted(t, D) => Sorted(u, D)
<1> DEFINE u == Put(t, n, "color", v)
<1>1. "color" \in Field /\ v \in Values("color")
  BY SideField
<1>2. /\ u \in Tree /\ Live(u) = Live(t) /\ u.root = t.root
      /\ \A m : \A e \in Field : Get(u, m, e) = IF m = n /\ e = "color" THEN v ELSE Get(t, m, e)
  BY <1>1, PutGet
<1> HIDE DEF u
<1>3. \A m : \A e \in Sides \cup {"parent"} : Get(u, m, e) = Get(t, m, e)
  BY <1>2, SideField
<1>4. \A m : Key(u, m) = Key(t, m)
  BY <1>2, SideField DEF Key
<1>5. \A m : Get(u, m, "color") = IF m = n THEN v ELSE Get(t, m, "color")
  BY <1>2, SideField
<1>6. \A m : IsRed(u, m) <=> IF m = n THEN v = RED ELSE IsRed(t, m)
  BY <1>2, <1>5 DEF IsRed
<1>7. Parents(t) => Parents(u)
  BY <1>2, <1>3 DEF Parents
<1>8. \A D : Span(t, D) => Span(u, D)
  BY <1>2, <1>3 DEF Span, Split, Sides
<1>9. \A D : Sorted(t, D) => Sorted(u, D)
  BY <1>2, <1>3, <1>4 DEF Sorted, Order
<1> QED
  BY <1>2, <1>3, <1>4, <1>5, <1>6, <1>7, <1>8, <1>9 DEF u, SameKeys

\* The outer rotation removes the red pair p, q.
LEMMA RaiseBalances ==
  ASSUME NEW t, NEW D, NEW h, NEW q, Balanced(t, D, h, q), q \in Live(t),
         NEW p \in Live(t), NEW g \in Live(t), NEW s \in Sides,
         Get(t, g, s) = p, Get(t, p, s) = q, IsRed(t, p), ~IsRed(t, g), ~IsRed(t, Get(t, g, Other(s)))
  PROVE  LET u == Raise(t, p, g, s)
         IN  (\E E : Balanced(u, E, h, p)) /\ SameKeys(t, u) /\ ~IsRed(u, p)
<1> DEFINE o == Other(s)
           c == Get(t, p, o)
           k == Get(t, g, o)
           t1 == rotate(t, g, o)
           t2 == Put(t1, p, "color", Get(t1, g, "color"))
           u == Put(t2, g, "color", Get(t1, p, "color"))
           E == Rotated(t, D, g, o)
<1>0. t \in Tree /\ Span(t, D) /\ Sorted(t, D) /\ Parents(t) /\ Heights(t, h) /\ Reds(t, q)
  BY DEF Balanced
<1>1. Raise(t, p, g, s) = u
  BY DEF Raise
<1>2. o \in Sides /\ Other(o) = s /\ o # s /\ \A e \in Sides : e = s \/ e = o
  BY OtherFacts
<1>3. /\ t1 \in Tree /\ Live(t1) = Live(t) /\ t1.root = IF t.root = g THEN p ELSE t.root
      /\ \A n : Key(t1, n) = Key(t, n) /\ Get(t1, n, "color") = Get(t, n, "color")
      /\ \A n \in Live(t), e \in Sides : Get(t1, n, e) =
                  IF n = g /\ e = s THEN c ELSE IF n = p /\ e = o THEN g
                  ELSE IF Get(t, n, e) = g THEN p ELSE Get(t, n, e)
  BY <1>0, <1>2, RotateFields
<1>4. Span(t1, E) /\ Sorted(t1, E) /\ Parents(t1)
  BY <1>0, <1>2, RotateShape
<1> HIDE DEF t1, E
<1>5. Get(t1, g, "color") = BLACK /\ Get(t1, p, "color") = RED
  BY <1>0, <1>3, ColorFacts DEF IsRed
<1>6. /\ t2 \in Tree /\ t2.root = t1.root /\ SameKeys(t1, t2)
      /\ \A m : \A e \in Sides \cup {"parent"} : Get(t2, m, e) = Get(t1, m, e)
      /\ \A m : IsRed(t2, m) <=> IF m = p THEN BLACK = RED ELSE IsRed(t1, m)
      /\ Parents(t2) /\ Span(t2, E) /\ Sorted(t2, E)
  <2>1. p \in Live(t1) /\ BLACK \in {RED, BLACK} /\ t2 = Put(t1, p, "color", BLACK)
    BY <1>3, <1>5
  <2> HIDE DEF t2
  <2> QED
    BY <1>3, <1>4, <2>1, PutColor
<1> HIDE DEF t2
<1>7. /\ u \in Tree /\ u.root = t2.root /\ SameKeys(t2, u)
      /\ \A m : \A e \in Sides \cup {"parent"} : Get(u, m, e) = Get(t2, m, e)
      /\ \A m : IsRed(u, m) <=> IF m = g THEN RED = RED ELSE IsRed(t2, m)
      /\ Parents(u) /\ Span(u, E) /\ Sorted(u, E)
  <2>1. g \in Live(t2) /\ RED \in {RED, BLACK} /\ u = Put(t2, g, "color", RED)
    BY <1>3, <1>5, <1>6 DEF SameKeys
  <2> HIDE DEF u
  <2> QED
    BY <1>6, <2>1, PutColor
<1> HIDE DEF u
<1>8. SameKeys(t, u)
  BY <1>3, <1>6, <1>7 DEF SameKeys
<1>9. NULL \notin Live(t) /\ p # g /\ q # p /\ q # g /\ c # p /\ c # g /\ c # q /\ k # g /\ k # p
  <2>1. /\ k \in Live(t) \cup {NULL} /\ c \in Live(t) \cup {NULL} /\ NULL \notin Live(t)
        /\ g \notin D[p] /\ g \notin D[k] /\ D[p] \cap D[k] = {}
        /\ D[q] \subseteq D[p] /\ D[c] \subseteq D[p] /\ p \notin D[q] /\ p \notin D[c] /\ D[q] \cap D[c] = {}
    BY <1>0, <1>2, SpanAt, LivePtr
  <2>2. \A n \in Live(t) : n \in D[n]
    BY <1>0, SpanFacts
  <2> QED
    BY <2>1, <2>2
<1>10. ~IsRed(u, p) /\ IsRed(u, g) /\ \A m : m # p /\ m # g => (IsRed(u, m) <=> IsRed(t, m))
  <2>1. \A m : IsRed(t1, m) <=> IsRed(t, m)
    BY <1>3 DEF IsRed
  <2> QED
    BY <1>6, <1>7, <1>9, <2>1, ColorFacts
<1>11. \A n \in Live(t), e \in Sides : Get(u, n, e) =
                  IF n = g /\ e = s THEN c ELSE IF n = p /\ e = o THEN g
                  ELSE IF Get(t, n, e) = g THEN p ELSE Get(t, n, e)
  BY <1>3, <1>6, <1>7
<1>12. /\ \A n \in Live(t), e \in Sides : Get(t, n, e) = p => n = g /\ e = s
       /\ \A n \in Live(t), e \in Sides : Get(t, n, e) = q => n = p /\ e = s
  BY <1>0, OneParent
<1>13. /\ h \in [Ptr -> Nat] /\ h[NULL] = 0
       /\ \A n \in Live(t), e \in Sides : h[n] = h[Get(t, n, e)] + Weight(t, Get(t, n, e))
  BY <1>0 DEF Heights
<1>14. /\ Weight(u, p) = 1 /\ Weight(u, g) = 0 /\ Weight(t, p) = 0 /\ Weight(t, g) = 1
       /\ \A m : m # p /\ m # g => Weight(u, m) = Weight(t, m)
  BY <1>10 DEF Weight
<1>15. h[g] \in Nat /\ h[p] \in Nat /\ h[g] = h[p]
  <2>1. h[g] \in Nat /\ h[p] \in Nat
    BY <1>0, <1>13, LivePtr
  <2>2. h[g] = h[p] + 0
    BY <1>13, <1>14
  <2> QED
    BY <2>1, <2>2
<1>16. Heights(u, h)
  <2>1. ASSUME NEW n \in Live(t), NEW e \in Sides PROVE h[n] = h[Get(u, n, e)] + Weight(u, Get(u, n, e))
    <3>0. h[n] = h[Get(t, n, e)] + Weight(t, Get(t, n, e))
      BY <1>13
    <3>1. CASE n = g /\ e = s
      <4>1. h[p] = h[c] + Weight(t, c)
        BY <1>2, <1>13
      <4> QED
        BY <1>9, <1>11, <1>14, <1>15, <3>1, <4>1
    <3>2. CASE n = p /\ e = o
      <4>1. Get(u, n, e) = g
        BY <1>9, <1>11, <3>2
      <4> QED
        BY <1>14, <1>15, <3>2, <4>1
    <3>3. CASE ~(n = g /\ e = s) /\ ~(n = p /\ e = o) /\ Get(t, n, e) = g
      <4>1. Get(u, n, e) = p
        BY <1>11, <3>3
      <4> QED
        BY <1>14, <1>15, <3>0, <3>3, <4>1
    <3>4. CASE ~(n = g /\ e = s) /\ ~(n = p /\ e = o) /\ Get(t, n, e) # g
      <4>1. Get(u, n, e) = Get(t, n, e) /\ Get(t, n, e) # p
        BY <1>11, <1>12, <3>4
      <4> QED
        BY <1>14, <3>0, <3>4, <4>1
    <3> QED
      BY <3>1, <3>2, <3>3, <3>4
  <2> QED
    BY <1>8, <1>13, <2>1 DEF Heights, SameKeys
<1>17. Reds(u, p)
  <2>0. /\ IsRed(t, t.root) => t.root = q
        /\ \A n \in Live(t), e \in Sides : IsRed(t, n) /\ IsRed(t, Get(t, n, e)) => Get(t, n, e) = q
    BY <1>0 DEF Reds
  <2>1. ~IsRed(u, u.root)
    <3>1. u.root = IF t.root = g THEN p ELSE t.root
      BY <1>3, <1>6, <1>7
    <3>2. t.root # p /\ t.root # q
      BY <1>0, <1>9 DEF Parents
    <3> QED
      BY <1>10, <2>0, <3>1, <3>2
  <2>2. ASSUME NEW n \in Live(t), NEW e \in Sides, IsRed(u, n), IsRed(u, Get(u, n, e))
        PROVE  FALSE
    <3>0. n # p
      BY <1>10, <2>2
    <3>1. CASE n = g /\ e = s
      <4>1. IsRed(t, c)
        BY <1>9, <1>10, <1>11, <2>2, <3>1
      <4> QED
        BY <1>2, <1>9, <2>0, <4>1
    <3>2. CASE n = g /\ e = o
      <4>1. Get(u, n, e) = k
        BY <1>2, <1>9, <1>11, <3>2
      <4> QED
        BY <1>9, <1>10, <2>2, <4>1
    <3>3. CASE n # g
      <4>1. Get(t, n, e) # p /\ Get(t, n, e) # q
        BY <1>12, <3>0, <3>3
      <4>2. Get(u, n, e) = Get(t, n, e) /\ Get(t, n, e) # g
        BY <1>10, <1>11, <2>2, <3>0, <3>3
      <4> QED
        BY <1>10, <2>0, <2>2, <3>0, <3>3, <4>1, <4>2
    <3> QED
      BY <1>2, <3>1, <3>2, <3>3
  <2> QED
    BY <1>8, <2>1, <2>2 DEF Reds, SameKeys
<1>18. Balanced(u, E, h, p)
  BY <1>7, <1>16, <1>17 DEF Balanced
<1> QED
  BY <1>1, <1>8, <1>10, <1>18

\* The inner rotation turns an inner red pair into an outer one.
LEMMA InnerBalances ==
  ASSUME NEW t, NEW D, NEW h, NEW q, Balanced(t, D, h, q), q \in Live(t),
         NEW p \in Live(t), NEW g \in Live(t), NEW s \in Sides,
         Get(t, g, s) = p, Get(t, p, Other(s)) = q, IsRed(t, p), IsRed(t, q)
  PROVE  LET u == rotate(t, p, s)
         IN  /\ \E E : Balanced(u, E, h, p)
             /\ SameKeys(t, u) /\ Get(u, p, "parent") = q /\ Get(u, q, s) = p /\ Get(u, g, s) = q
             /\ Get(u, g, Other(s)) = Get(t, g, Other(s))
             /\ \A n : IsRed(u, n) <=> IsRed(t, n)
<1> DEFINE o == Other(s)
           c == Get(t, q, s)
           k == Get(t, g, o)
           b == Get(t, p, s)
           u == rotate(t, p, s)
           E == Rotated(t, D, p, s)
<1>0. t \in Tree /\ Span(t, D) /\ Sorted(t, D) /\ Parents(t) /\ Heights(t, h) /\ Reds(t, q)
  BY DEF Balanced
<1>2. o \in Sides /\ Other(o) = s /\ o # s /\ \A e \in Sides : e = s \/ e = o
  BY OtherFacts
<1>3. /\ u \in Tree /\ Live(u) = Live(t) /\ u.root = IF t.root = p THEN q ELSE t.root
      /\ \A n : Key(u, n) = Key(t, n) /\ Get(u, n, "color") = Get(t, n, "color")
      /\ \A n \in Live(t), e \in Sides : Get(u, n, e) =
                  IF n = p /\ e = o THEN c ELSE IF n = q /\ e = s THEN p
                  ELSE IF Get(t, n, e) = p THEN q ELSE Get(t, n, e)
      /\ Get(u, p, "parent") = q
  BY <1>0, <1>2, RotateFields
<1>4. Span(u, E) /\ Sorted(u, E) /\ Parents(u)
  BY <1>0, <1>2, RotateShape
<1> HIDE DEF u, E
<1>5. \A m : IsRed(u, m) <=> IsRed(t, m)
  BY <1>3 DEF IsRed
<1>6. \A m : Weight(u, m) = Weight(t, m)
  BY <1>5 DEF Weight
<1>7. SameKeys(t, u)
  BY <1>3 DEF SameKeys
<1>9. NULL \notin Live(t) /\ p # g /\ q # p /\ q # g /\ c # p /\ c # q /\ b # q /\ b # p /\ k # p
  <2>1. /\ k \in Live(t) \cup {NULL} /\ c \in Live(t) \cup {NULL} /\ b \in Live(t) \cup {NULL} /\ NULL \notin Live(t)
        /\ g \notin D[p] /\ g \notin D[k] /\ D[p] \cap D[k] = {}
        /\ D[q] \subseteq D[p] /\ p \notin D[q] /\ p \notin D[b] /\ D[q] \cap D[b] = {}
        /\ D[c] \subseteq D[q] /\ q \notin D[c]
    BY <1>0, <1>2, SpanAt, LivePtr
  <2>2. \A n \in Live(t) : n \in D[n]
    BY <1>0, SpanFacts
  <2> QED
    BY <2>1, <2>2
<1>12. /\ \A n \in Live(t), e \in Sides : Get(t, n, e) = p => n = g /\ e = s
       /\ \A n \in Live(t), e \in Sides : Get(t, n, e) = q => n = p /\ e = o
  BY <1>0, <1>2, OneParent
<1>13. /\ h \in [Ptr -> Nat] /\ h[NULL] = 0
       /\ \A n \in Live(t), e \in Sides : h[n] = h[Get(t, n, e)] + Weight(t, Get(t, n, e))
  BY <1>0 DEF Heights
<1>14. Weight(t, p) = 0 /\ Weight(t, q) = 0
  BY DEF Weight
<1>15. h[q] \in Nat /\ h[p] \in Nat /\ h[q] = h[p]
  <2>1. h[q] \in Nat /\ h[p] \in Nat
    BY <1>0, <1>13, LivePtr
  <2>2. h[p] = h[q] + 0
    BY <1>2, <1>13, <1>14
  <2> QED
    BY <2>1, <2>2
<1>16. Heights(u, h)
  <2>1. ASSUME NEW n \in Live(t), NEW e \in Sides PROVE h[n] = h[Get(u, n, e)] + Weight(t, Get(u, n, e))
    <3>0. h[n] = h[Get(t, n, e)] + Weight(t, Get(t, n, e))
      BY <1>13
    <3>1. CASE n = p /\ e = o
      <4>1. h[q] = h[c] + Weight(t, c)
        BY <1>13
      <4> QED
        BY <1>3, <1>15, <3>1, <4>1
    <3>2. CASE n = q /\ e = s
      <4>1. Get(u, n, e) = p
        BY <1>3, <1>9, <3>2
      <4> QED
        BY <1>14, <1>15, <3>2, <4>1
    <3>3. CASE ~(n = p /\ e = o) /\ ~(n = q /\ e = s)
      BY <1>3, <1>14, <1>15, <3>0, <3>3
    <3> QED
      BY <3>1, <3>2, <3>3
  <2> QED
    BY <1>3, <1>6, <1>13, <2>1 DEF Heights
<1>17. Reds(u, p)
  <2>0. /\ IsRed(t, t.root) => t.root = q
        /\ \A n \in Live(t), e \in Sides : IsRed(t, n) /\ IsRed(t, Get(t, n, e)) => Get(t, n, e) = q
    BY <1>0 DEF Reds
  <2>1. ~IsRed(u, u.root)
    <3>1. t.root # p /\ t.root # q
      <4>1. Get(t, p, "parent") = g /\ Get(t, q, "parent") = p
        BY <1>0, <1>2, <1>9 DEF Parents
      <4> QED
        BY <1>0, <1>9, <4>1 DEF Parents
    <3> QED
      BY <1>3, <1>5, <2>0, <3>1
  <2>2. ASSUME NEW n \in Live(t), NEW e \in Sides, IsRed(t, n), IsRed(t, Get(u, n, e))
        PROVE  Get(u, n, e) = p
    <3>1. CASE n = p /\ e = o
      <4>1. IsRed(t, c)
        BY <1>3, <2>2, <3>1
      <4> QED
        BY <1>9, <2>0, <4>1
    <3>2. CASE n = q /\ e = s
      BY <1>3, <1>9, <3>2
    <3>3. CASE ~(n = p /\ e = o) /\ ~(n = q /\ e = s) /\ Get(t, n, e) = p
      <4>1. n = g
        BY <1>12, <3>3
      <4>2. IsRed(t, g) /\ IsRed(t, Get(t, g, s))
        BY <2>2, <4>1
      <4> QED
        BY <1>9, <2>0, <4>2
    <3>4. CASE ~(n = p /\ e = o) /\ ~(n = q /\ e = s) /\ Get(t, n, e) # p
      <4>1. Get(u, n, e) = Get(t, n, e)
        BY <1>3, <3>4
      <4>2. Get(t, n, e) = q
        BY <2>0, <2>2, <4>1
      <4> QED
        BY <1>12, <3>4, <4>2
    <3> QED
      BY <3>1, <3>2, <3>3, <3>4
  <2> QED
    BY <1>3, <1>5, <2>1, <2>2 DEF Reds
<1>18. Balanced(u, E, h, p)
  BY <1>3, <1>4, <1>16, <1>17 DEF Balanced
<1>19. Get(u, q, s) = p /\ Get(u, g, s) = q /\ Get(u, g, o) = k
  BY <1>2, <1>3, <1>9
<1> QED
  BY <1>3, <1>5, <1>7, <1>18, <1>19 DEF u

\* Recolouring moves the red pair two levels up.
LEMMA RecolorBalances ==
  ASSUME NEW t, NEW D, NEW h, NEW q, Balanced(t, D, h, q),
         NEW p \in Live(t), NEW g \in Live(t), NEW s \in Sides, NEW f \in Sides,
         Get(t, g, s) = p, Get(t, p, f) = q, q \in Live(t), ~IsRed(t, g),
         IsRed(t, p), IsRed(t, Get(t, g, Other(s)))
  PROVE  LET u == Recolor(t, p, g, Get(t, g, Other(s)))
         IN  (\E i : Balanced(u, D, i, g)) /\ SameKeys(t, u) /\ u.root = t.root
<1> DEFINE o == Other(s)
           k == Get(t, g, o)
           t1 == Put(t, g, "color", RED)
           t2 == Put(t1, p, "color", BLACK)
           u == Put(t2, k, "color", BLACK)
           i == [h EXCEPT ![g] = h[g] + 1]
<1>0. t \in Tree /\ Span(t, D) /\ Sorted(t, D) /\ Parents(t) /\ Heights(t, h) /\ Reds(t, q)
  BY DEF Balanced
<1>1. Recolor(t, p, g, k) = u
  BY DEF Recolor
<1>2. o \in Sides /\ Other(o) = s /\ o # s /\ (\A e \in Sides : e = s \/ e = o) /\ k \in Live(t)
  BY OtherFacts DEF IsRed
<1>3. /\ t1 \in Tree /\ t1.root = t.root /\ SameKeys(t, t1)
      /\ \A m : \A e \in Sides \cup {"parent"} : Get(t1, m, e) = Get(t, m, e)
      /\ \A m : IsRed(t1, m) <=> IF m = g THEN RED = RED ELSE IsRed(t, m)
      /\ Parents(t1) /\ Span(t1, D) /\ Sorted(t1, D)
  BY <1>0, PutColor
<1> HIDE DEF t1, k
<1>4. /\ t2 \in Tree /\ t2.root = t1.root /\ SameKeys(t1, t2)
      /\ \A m : \A e \in Sides \cup {"parent"} : Get(t2, m, e) = Get(t1, m, e)
      /\ \A m : IsRed(t2, m) <=> IF m = p THEN BLACK = RED ELSE IsRed(t1, m)
      /\ Parents(t2) /\ Span(t2, D) /\ Sorted(t2, D)
  <2>1. p \in Live(t1) /\ BLACK \in {RED, BLACK}
    BY <1>3 DEF SameKeys
  <2> QED
    BY <1>3, <2>1, PutColor
<1> HIDE DEF t2
<1>5. /\ u \in Tree /\ u.root = t2.root /\ SameKeys(t2, u)
      /\ \A m : \A e \in Sides \cup {"parent"} : Get(u, m, e) = Get(t2, m, e)
      /\ \A m : IsRed(u, m) <=> IF m = k THEN BLACK = RED ELSE IsRed(t2, m)
      /\ Parents(u) /\ Span(u, D) /\ Sorted(u, D)
  <2>1. k \in Live(t2) /\ BLACK \in {RED, BLACK}
    BY <1>2, <1>3, <1>4 DEF SameKeys
  <2> QED
    BY <1>4, <2>1, PutColor
<1> HIDE DEF u
<1>6. SameKeys(t, u) /\ u.root = t.root /\ \A m : \A e \in Sides : Get(u, m, e) = Get(t, m, e)
  BY <1>3, <1>4, <1>5 DEF SameKeys
<1>7. NULL \notin Live(t) /\ p # g /\ k # g /\ k # p /\ q # p /\ q # g /\ q # k
  <2>1. /\ NULL \notin Live(t) /\ g \notin D[p] /\ g \notin D[k] /\ D[p] \cap D[k] = {}
        /\ D[q] \subseteq D[p] /\ p \notin D[q]
    BY <1>0, <1>2, SpanAt, LivePtr DEF k
  <2>2. \A n \in Live(t) : n \in D[n]
    BY <1>0, SpanFacts
  <2> QED
    BY <1>2, <2>1, <2>2
<1>8. ~IsRed(u, p) /\ ~IsRed(u, k) /\ IsRed(u, g) /\ \A m : m # p /\ m # g /\ m # k => (IsRed(u, m) <=> IsRed(t, m))
  BY <1>3, <1>4, <1>5, <1>7, ColorFacts
<1>9. /\ \A n \in Live(t), e \in Sides : Get(t, n, e) = p => n = g /\ e = s
      /\ \A n \in Live(t), e \in Sides : Get(t, n, e) = k => n = g /\ e = o
      /\ \A n \in Live(t), e \in Sides : Get(t, n, e) = q => n = p
  BY <1>0, <1>2, OneParent DEF k
<1>10. /\ h \in [Ptr -> Nat] /\ h[NULL] = 0
       /\ \A n \in Live(t), e \in Sides : h[n] = h[Get(t, n, e)] + Weight(t, Get(t, n, e))
  BY <1>0 DEF Heights
<1>11. /\ Weight(u, p) = 1 /\ Weight(u, k) = 1 /\ Weight(u, g) = 0
       /\ Weight(t, p) = 0 /\ Weight(t, k) = 0 /\ Weight(t, g) = 1
       /\ \A m : m # p /\ m # g /\ m # k => Weight(u, m) = Weight(t, m)
  BY <1>8 DEF Weight, k
<1>12. i \in [Ptr -> Nat] /\ i[NULL] = 0 /\ i[g] = h[g] + 1 /\ \A m \in Ptr : m # g => i[m] = h[m]
  BY <1>0, <1>7, <1>10, LivePtr
<1> HIDE DEF i
<1>13. Heights(u, i)
  <2>1. ASSUME NEW n \in Live(t), NEW e \in Sides PROVE i[n] = i[Get(t, n, e)] + Weight(u, Get(t, n, e))
    <3>0. h[n] = h[Get(t, n, e)] + Weight(t, Get(t, n, e))
      BY <1>10
    <3>1. Get(t, n, e) \in Ptr /\ n \in Ptr /\ h[n] \in Nat /\ h[Get(t, n, e)] \in Nat
      BY <1>0, <1>10, SpanAt, LivePtr
    <3>2. CASE n = g
      <4>1. Get(t, n, e) \in {p, k}
        BY <1>2, <3>2 DEF k
      <4> QED
        BY <1>7, <1>11, <1>12, <3>0, <3>1, <3>2, <4>1
    <3>3. CASE n # g /\ Get(t, n, e) = g
      <4>1. i[n] = h[n] /\ h[n] = h[g] + 1 /\ h[g] \in Nat
        BY <1>11, <1>12, <3>0, <3>1, <3>3
      <4> QED
        BY <1>11, <1>12, <3>3, <4>1
    <3>4. CASE n # g /\ Get(t, n, e) # g
      <4>1. Get(t, n, e) # p /\ Get(t, n, e) # k
        BY <1>9, <3>4
      <4> QED
        BY <1>11, <1>12, <3>0, <3>1, <3>4, <4>1
    <3> QED
      BY <3>2, <3>3, <3>4
  <2> QED
    BY <1>6, <1>12, <2>1 DEF Heights, SameKeys
<1>14. Reds(u, g)
  <2>0. /\ IsRed(t, t.root) => t.root = q
        /\ \A n \in Live(t), e \in Sides : IsRed(t, n) /\ IsRed(t, Get(t, n, e)) => Get(t, n, e) = q
    BY <1>0 DEF Reds
  <2>1. IsRed(u, t.root) => t.root = g
    <3>1. t.root # q
      BY <1>0, <1>7 DEF Parents
    <3> QED
      BY <1>8, <2>0, <3>1
  <2>2. ASSUME NEW n \in Live(t), NEW e \in Sides, IsRed(u, n), IsRed(u, Get(t, n, e))
        PROVE  Get(t, n, e) = g
    <3> SUFFICES ASSUME Get(t, n, e) # g PROVE FALSE
      OBVIOUS
    <3>1. Get(t, n, e) # p /\ Get(t, n, e) # k /\ n # p /\ n # k
      BY <1>8, <2>2
    <3>2. n # g
      BY <1>2, <3>1 DEF k
    <3>3. IsRed(t, n) /\ IsRed(t, Get(t, n, e))
      BY <1>8, <2>2, <3>1, <3>2
    <3> QED
      BY <1>9, <2>0, <3>1, <3>3
  <2> QED
    BY <1>6, <2>1, <2>2 DEF Reds, SameKeys
<1>15. Balanced(u, D, i, g)
  BY <1>5, <1>13, <1>14 DEF Balanced
<1> QED
  BY <1>1, <1>6, <1>15 DEF k

\* While the loop of fixViolation goes on, the node it has come to and its parent
\* are red, and there is a grandparent, which is black.
LEMMA RedPair ==
  ASSUME NEW t, NEW D, NEW h, NEW q, Balanced(t, D, h, q), q \in Live(t), Looping(t, q)
  PROVE  LET p == Get(t, q, "parent")
             g == Get(t, p, "parent")
             s == IF p = Get(t, g, "left") THEN "left" ELSE "right"
         IN  /\ p \in Live(t) /\ g \in Live(t) /\ s \in Sides /\ Get(t, g, s) = p
             /\ Get(t, p, s) = q \/ Get(t, p, Other(s)) = q
             /\ IsRed(t, q) /\ IsRed(t, p) /\ ~IsRed(t, g)
<1> DEFINE p == Get(t, q, "parent")
           g == Get(t, p, "parent")
           s == IF p = Get(t, g, "left") THEN "left" ELSE "right"
<1>0. t \in Tree /\ Span(t, D) /\ Parents(t) /\ Reds(t, q)
  BY DEF Balanced
<1>1. q # t.root /\ IsRed(t, q) /\ IsRed(t, p)
  BY DEF Looping
<1>2. p \in Live(t) /\ p # q /\ \E e \in Sides : Get(t, p, e) = q
  BY <1>0, <1>1, ParentOf
<1> HIDE DEF p
<1>3. IsRed(t, p)
  BY <1>1 DEF p
<1>4. p # t.root
  BY <1>0, <1>2, <1>3 DEF Reds
<1>5. g \in Live(t) /\ \E e \in Sides : Get(t, g, e) = p
  BY <1>0, <1>2, <1>4, ParentOf
<1> HIDE DEF g
<1>6. s \in Sides /\ Get(t, g, s) = p
  BY <1>5 DEF Sides
<1> HIDE DEF s
<1>7. ~IsRed(t, g)
  BY <1>0, <1>2, <1>3, <1>5, <1>6 DEF Reds
<1>8. Get(t, p, s) = q \/ Get(t, p, Other(s)) = q
  BY <1>2, <1>6, OtherFacts
<1> QED
  BY <1>1, <1>2, <1>3, <1>5, <1>6, <1>7, <1>8 DEF p, g, s

LEMMA RoundBalances ==
  ASSUME NEW t, NEW D, NEW h, NEW q, Balanced(t, D, h, q), q \in Live(t), Looping(t, q)
  PROVE  LET f == FixRound(t, q)
         IN  /\ f.pt \in Live(t) /\ SameKeys(t, f.tree)
             /\ \E E, i : /\ Balanced(f.tree, E, i, f.pt)
                          /\ Looping(f.tree, f.pt) => Cardinality(E[f.pt]) > Cardinality(D[q])
<1> DEFINE p == Get(t, q, "parent")
           g == Get(t, p, "parent")
           s == IF p = Get(t, g, "left") THEN "left" ELSE "right"
           o == Other(s)
           k == Get(t, g, o)
           f == FixRound(t, q)
<1>0. t \in Tree /\ Span(t, D)
  BY DEF Balanced
<1>1. /\ p \in Live(t) /\ g \in Live(t) /\ s \in Sides /\ Get(t, g, s) = p
      /\ Get(t, p, s) = q \/ Get(t, p, o) = q
      /\ IsRed(t, q) /\ IsRed(t, p) /\ ~IsRed(t, g)
  BY RedPair
<1>2. k \in Live(t) \cup {NULL}
  BY <1>0, <1>1, SpanAt
<1>3. /\ IsRed(t, k) => f = [tree |-> Recolor(t, p, g, k), pt |-> g]
      /\ ~IsRed(t, k) /\ q = Get(t, p, o) =>
           f = [tree |-> Raise(rotate(t, p, s), Get(rotate(t, p, s), p, "parent"), g, s),
                pt |-> Get(rotate(t, p, s), p, "parent")]
      /\ ~IsRed(t, k) /\ q # Get(t, p, o) => f = [tree |-> Raise(t, p, g, s), pt |-> p]
  BY <1>1, <1>2 DEF FixRound
<1> HIDE DEF p, g, s, k, f
<1>4. ASSUME NEW u, NEW n, u \in Tree, SameKeys(t, u), n \in Live(t), ~IsRed(u, n) PROVE ~Looping(u, n)
  BY <1>4 DEF Looping
<1>5. CASE IsRed(t, k)
  <2> DEFINE u == Recolor(t, p, g, k)
  <2>1. \E e \in Sides : Get(t, p, e) = q
    BY <1>1, OtherFacts
  <2>2. (\E i : Balanced(u, D, i, g)) /\ SameKeys(t, u)
    BY <1>1, <1>5, <2>1, RecolorBalances DEF k
  <2>3. Cardinality(D[g]) > Cardinality(D[q])
    <3>1. Cardinality(D[q]) < Cardinality(D[p]) /\ Cardinality(D[p]) < Cardinality(D[g])
      BY <1>0, <1>1, <2>1, Sizes
    <3>2. Cardinality(D[q]) \in Nat /\ Cardinality(D[p]) \in Nat /\ Cardinality(D[g]) \in Nat
      BY <1>0, <1>1, Sizes
    <3> QED
      BY <3>1, <3>2
  <2> HIDE DEF u
  <2>4. f.tree = u /\ f.pt = g
    BY <1>3, <1>5 DEF u
  <2> QED
    BY <1>1, <2>2, <2>3, <2>4 DEF f
<1>6. CASE ~IsRed(t, k) /\ q = Get(t, p, o)
  <2> DEFINE w == rotate(t, p, s)
             u == Raise(w, q, g, s)
  <2>1. /\ \E E : Balanced(w, E, h, p)
        /\ SameKeys(t, w) /\ Get(w, p, "parent") = q /\ Get(w, q, s) = p /\ Get(w, g, s) = q
        /\ Get(w, g, Other(s)) = k /\ \A n : IsRed(w, n) <=> IsRed(t, n)
    BY <1>1, <1>6, InnerBalances DEF k
  <2>2. f.tree = u /\ f.pt = q
    BY <1>3, <1>6, <2>1
  <2> HIDE DEF w
  <2>3. q \in Live(w) /\ p \in Live(w) /\ g \in Live(w) /\ IsRed(w, q) /\ ~IsRed(w, g) /\ ~IsRed(w, k)
    BY <1>1, <1>6, <2>1 DEF SameKeys
  <2>4. (\E E : Balanced(u, E, h, q)) /\ SameKeys(w, u) /\ ~IsRed(u, q)
    BY <1>1, <2>1, <2>3, RaiseBalances
  <2> HIDE DEF u
  <2>5. SameKeys(t, u) /\ u \in Tree
    BY <2>1, <2>4 DEF SameKeys, Balanced
  <2>6. ~Looping(u, q)
    BY <1>4, <2>4, <2>5
  <2> QED
    BY <2>2, <2>4, <2>5, <2>6 DEF f
<1>7. CASE ~IsRed(t, k) /\ q # Get(t, p, o)
  <2> DEFINE u == Raise(t, p, g, s)
  <2>1. (\E E : Balanced(u, E, h, p)) /\ SameKeys(t, u) /\ ~IsRed(u, p)
    BY <1>1, <1>7, RaiseBalances DEF k
  <2> HIDE DEF u
  <2>2. f.tree = u /\ f.pt = p
    BY <1>3, <1>7 DEF u
  <2>3. ~Looping(u, p)
    BY <1>1, <1>4, <2>1 DEF Balanced
  <2> QED
    BY <1>1, <2>1, <2>2, <2>3 DEF f
<1> QED
  BY <1>5, <1>6, <1>7

LEMMA StepBalances ==
  ASSUME NEW f, NEW D, NEW h, Balanced(f.tree, D, h, f.pt), f.pt \in Live(f.tree)
  PROVE  /\ ~Looping(f.tree, f.pt) => FixStep(f) = f
         /\ Looping(f.tree, f.pt) => FixStep(f) = FixRound(f.tree, f.pt)
<1> DEFINE t == f.tree
           p == Get(t, f.pt, "parent")
<1>1. f.pt # t.root => p \in Live(t)
  BY ParentOf DEF Balanced
<1>2. ~Lost(t, f.pt)
  BY <1>1 DEF Lost
<1> QED
  BY <1>2 DEF FixStep

LEMMA RoundsExist ==
  ASSUME NEW t, NEW q
  PROVE  LET at == Rounds(t, q)
         IN  at[0] = [tree |-> t, pt |-> q] /\ \A k \in 0 .. MaxNode - 1 : at[k + 1] = FixStep(at[k])
<1> DEFINE z == [tree |-> t, pt |-> q]
           P(at, n) == at = [k \in 0 .. n |-> IF k = 0 THEN z ELSE FixStep(at[k - 1])]
           T == {n \in Nat : \E at : P(at, n)}
<1> HIDE DEF z
<1>1. 0 \in T
  <2> DEFINE f == [k \in 0 .. 0 |-> z]
  <2>1. P(f, 0)
    OBVIOUS
  <2> HIDE DEF f
  <2>2. \E at : P(at, 0)
    BY <2>1
  <2> QED
    BY <2>2
<1>2. ASSUME NEW n \in Nat, n \in T PROVE n + 1 \in T
  <2>1. PICK at : P(at, n)
    BY <1>2
  <2> DEFINE f == [k \in 0 .. n + 1 |-> IF k = n + 1 THEN FixStep(at[n]) ELSE at[k]]
  <2>2. \A k \in 0 .. n : at[k] = IF k = 0 THEN z ELSE FixStep(at[k - 1])
    BY <2>1
  <2>3. \A k \in 0 .. n + 1 : f[k] = IF k = 0 THEN z ELSE FixStep(f[k - 1])
    BY <2>2
  <2>4. P(f, n + 1)
    BY <2>3
  <2> HIDE DEF f
  <2>5. \E to : P(to, n + 1)
    BY <2>4
  <2> QED
    BY <2>5
<1> HIDE DEF T
<1>3. Nat \subseteq T
  BY <1>1, <1>2, SetInduction
<1>4. \E f : P(f, MaxNode)
  BY <1>3, BpMapAssumption DEF T
<1>5. PICK at : P(at, MaxNode) /\ Rounds(t, q) = at
  BY <1>4 DEF Rounds, z
<1>6. \A k \in 0 .. MaxNode : at[k] = IF k = 0 THEN z ELSE FixStep(at[k - 1])
  BY <1>5
<1>7. at[0] = z /\ \A k \in 0 .. MaxNode - 1 : at[k + 1] = FixStep(at[k])
  BY <1>6, BpMapAssumption
<1> QED
  BY <1>5, <1>7 DEF z

\* Every round but the last brings the loop to a larger subtree, so that it ends.
LEMMA RoundsBalance ==
  ASSUME NEW t, NEW D, NEW h, NEW q, Balanced(t, D, h, q), q \in Live(t)
  PROVE  LET f == Rounds(t, q)[MaxNode]
         IN  /\ f.pt \in Live(t) /\ SameKeys(t, f.tree) /\ \E E, i : Balanced(f.tree, E, i, f.pt)
             /\ ~Looping(f.tree, f.pt)
<1> DEFINE at == Rounds(t, q)
           Q(f, k) == \E E, i : /\ Balanced(f.tree, E, i, f.pt)
                                /\ Looping(f.tree, f.pt) => Cardinality(E[f.pt]) > k
           P(k) == at[k].pt \in Live(t) /\ SameKeys(t, at[k].tree) /\ Q(at[k], k)
           T == {k \in 0 .. MaxNode : P(k)}
<1>0. MaxNode \in Nat
  BY BpMapAssumption
<1>1. at[0] = [tree |-> t, pt |-> q] /\ \A k \in 0 .. MaxNode - 1 : at[k + 1] = FixStep(at[k])
  BY RoundsExist
<1> HIDE DEF at
<1>2. 0 \in T
  <2>1. t \in Tree /\ Span(t, D)
    BY DEF Balanced
  <2>2. q \in D[q] /\ IsFiniteSet(D[q]) /\ Cardinality(D[q]) \in Nat
    BY <2>1, SpanFacts, Sizes
  <2>3. Cardinality(D[q]) > 0
    BY <2>2, FS_EmptySet
  <2>4. at[0].tree = t /\ at[0].pt = q
    BY <1>1
  <2>5. SameKeys(t, t)
    BY DEF SameKeys
  <2> QED
    BY <1>0, <2>3, <2>4, <2>5
<1>3. ASSUME NEW k \in 0 .. MaxNode - 1, k \in T PROVE k + 1 \in T
  <2> DEFINE f == at[k]
             e == at[k + 1]
  <2>0. k + 1 \in 0 .. MaxNode /\ e = FixStep(f) /\ P(k) /\ f.pt \in Live(f.tree)
    BY <1>0, <1>1, <1>3 DEF SameKeys
  <2>1. PICK E, i : /\ Balanced(f.tree, E, i, f.pt)
                    /\ Looping(f.tree, f.pt) => Cardinality(E[f.pt]) > k
    BY <2>0
  <2> HIDE DEF f, e
  <2>2. CASE ~Looping(f.tree, f.pt)
    <3>1. e = f
      BY <2>0, <2>1, <2>2, StepBalances
    <3>2. Q(e, k + 1)
      BY <2>1, <2>2, <3>1
    <3> HIDE DEF Q
    <3> QED
      BY <2>0, <3>1, <3>2 DEF e, f
  <2>3. CASE Looping(f.tree, f.pt)
    <3>1. e = FixRound(f.tree, f.pt)
      BY <2>0, <2>1, <2>3, StepBalances
    <3>2. /\ e.pt \in Live(f.tree) /\ SameKeys(f.tree, e.tree)
          /\ \E F, j : /\ Balanced(e.tree, F, j, e.pt)
                       /\ Looping(e.tree, e.pt) => Cardinality(F[e.pt]) > Cardinality(E[f.pt])
      BY <2>0, <2>1, <2>3, <3>1, RoundBalances
    <3>3. e.pt \in Live(t) /\ SameKeys(t, e.tree)
      BY <2>0, <3>2 DEF SameKeys, f
    <3>4. Q(e, k + 1)
      <4>1. PICK F, j : /\ Balanced(e.tree, F, j, e.pt)
                        /\ Looping(e.tree, e.pt) => Cardinality(F[e.pt]) > Cardinality(E[f.pt])
        BY <3>2
      <4>2. Cardinality(E[f.pt]) > k /\ Cardinality(E[f.pt]) \in Nat
        BY <2>0, <2>1, <2>3, Sizes DEF Balanced
      <4>3. Cardinality(F[e.pt]) \in Nat
        BY <3>2, <4>1, Sizes DEF Balanced, SameKeys
      <4>4. Looping(e.tree, e.pt) => Cardinality(F[e.pt]) > k + 1
        BY <4>1, <4>2, <4>3
      <4> QED
        BY <4>1, <4>4
    <3> HIDE DEF Q
    <3> QED
      BY <2>0, <3>3, <3>4 DEF e
  <2> QED
    BY <2>2, <2>3
<1> HIDE DEF T
<1>4. \A k \in 0 .. MaxNode : k \in T
  BY <1>2, <1>3, StepInduction
<1>5. P(MaxNode)
  BY <1>0, <1>4 DEF T
<1> DEFINE f == at[MaxNode]
<1>6. PICK E, i : /\ Balanced(f.tree, E, i, f.pt)
                  /\ Looping(f.tree, f.pt) => Cardinality(E[f.pt]) > MaxNode
  BY <1>5
<1>7. f.pt \in Live(f.tree)
  BY <1>5 DEF SameKeys
<1>8. Cardinality(E[f.pt]) \in Nat /\ Cardinality(E[f.pt]) <= MaxNode
  BY <1>6, <1>7, Sizes DEF Balanced
<1>9. ~Looping(f.tree, f.pt)
  BY <1>0, <1>6, <1>8
<1> QED
  BY <1>5, <1>6, <1>9 DEF at

\* fixViolation makes a red-black tree of it.
LEMMA FixBalances ==
  ASSUME NEW t, NEW D, NEW h, NEW q, Balanced(t, D, h, q), q \in Live(t)
  PROVE  LET u == fixViolation(t, q)
         IN  (\E E, i : Balanced(u, E, i, NULL)) /\ SameKeys(t, u)
<1> DEFINE f == Rounds(t, q)[MaxNode]
           w == f.tree
           n == f.pt
           u == Put(w, w.root, "color", BLACK)
<1>1. n \in Live(t) /\ SameKeys(t, w) /\ (\E E, i : Balanced(w, E, i, n)) /\ ~Looping(w, n)
  BY RoundsBalance
<1>2. fixViolation(t, q) = u
  BY <1>1 DEF fixViolation
<1> HIDE DEF f
<1>3. PICK E, i : Balanced(w, E, i, n)
  BY <1>1
<1>4. w \in Tree /\ Span(w, E) /\ Sorted(w, E) /\ Parents(w) /\ Heights(w, i) /\ Reds(w, n)
  BY <1>3 DEF Balanced
<1> HIDE DEF w, n
<1>5. w.root \in Live(w) /\ NULL \notin Live(w)
  <2>1. w.root \in Live(w) \cup {NULL} /\ E[w.root] = Live(w) /\ E[NULL] = {}
    BY <1>4, SpanFacts
  <2> QED
    BY <1>1, <1>4, <2>1, LivePtr DEF SameKeys
<1>6. /\ u \in Tree /\ u.root = w.root /\ SameKeys(w, u)
      /\ \A m : \A e \in Sides : Get(u, m, e) = Get(w, m, e)
      /\ \A m : IsRed(u, m) <=> IF m = w.root THEN BLACK = RED ELSE IsRed(w, m)
      /\ Parents(u) /\ Span(u, E) /\ Sorted(u, E)
  <2>1. BLACK \in {RED, BLACK}
    OBVIOUS
  <2> QED
    BY <1>4, <1>5, <2>1, PutColor
<1> HIDE DEF u
<1>7. \A m \in Live(w), e \in Sides : Get(w, m, e) # w.root
  BY <1>4, <1>5 DEF Parents
<1>8. Heights(u, i)
  <2>1. \A m : m # w.root => Weight(u, m) = Weight(w, m)
    BY <1>6 DEF Weight
  <2> QED
    BY <1>4, <1>6, <1>7, <2>1 DEF Heights, SameKeys
<1>9. Reds(u, NULL)
  <2>1. ~IsRed(u, u.root)
    BY <1>6, ColorFacts
  <2>2. ASSUME NEW m \in Live(u), NEW e \in Sides, IsRed(u, m), IsRed(u, Get(u, m, e)) PROVE FALSE
    <3>1. m \in Live(w) /\ IsRed(w, m) /\ IsRed(w, Get(w, m, e)) /\ Get(w, m, e) # w.root
      BY <1>6, <1>7, <2>2, ColorFacts DEF SameKeys
    <3>2. Get(w, m, e) = n
      BY <1>4, <3>1 DEF Reds
    <3>3. n \in Live(w) /\ n # NULL
      BY <1>5, <3>1, <3>2 DEF IsRed
    <3>4. Get(w, n, "parent") = m
      BY <1>4, <3>1, <3>2, <3>3 DEF Parents
    <3>5. Looping(w, n)
      BY <3>1, <3>2, <3>4, ColorFacts DEF Looping, IsRed
    <3> QED
      BY <1>1, <3>5 DEF w, n
  <2> QED
    BY <2>1, <2>2 DEF Reds
<1>10. Balanced(u, E, i, NULL) /\ SameKeys(t, u)
  BY <1>1, <1>6, <1>8, <1>9 DEF Balanced, SameKeys, w
<1> QED
  BY <1>2, <1>10 DEF u, w

-----------------------------------------------------------------------------
(* insertNode. *)

Keys(t) == {Key(t, n) : n \in Live(t)}

LEMMA DistinctKeys ==
  ASSUME NEW t \in Tree, NEW D, Span(t, D), Sorted(t, D)
  PROVE  \A m, n \in Live(t) : Key(t, m) = Key(t, n) => m = n
<1> TAKE m, n \in Live(t)
<1>1. D[t.root] = Live(t) /\ t.root \in Live(t) \cup {NULL} /\ Key(t, n) \in Int
  BY SpanFacts, KeyType
<1>2. \A i \in D[t.root] : Order(t, D, i)
  BY <1>1 DEF Sorted
<1>3. \A i \in Live(t) : Key(t, i) = Key(t, n) => i = End(t, t.root, Key(t, n))
  BY <1>1, <1>2, Search
<1> QED
  BY <1>3

\* There is a free node as long as some address is not in the tree.
LEMMA FreeNode ==
  ASSUME NEW t \in Tree, NEW D, Span(t, D), Sorted(t, D), NEW a \in Addr, a \notin Keys(t)
  PROVE  NewNode(t, a) \in (1 .. MaxNode) \ Live(t)
<1> DEFINE free == (1 .. MaxNode) \ Live(t)
           S == Addr \ {a}
           f == [n \in Live(t) |-> Key(t, n)]
<1>1. free # {}
  <2> SUFFICES ASSUME free = {} PROVE FALSE
    OBVIOUS
  <2>1. Live(t) = 1 .. MaxNode
    BY TreeFacts
  <2>2. IsFiniteSet(Live(t)) /\ Cardinality(Live(t)) = MaxNode /\ MaxNode \in Nat
    BY <2>1, FS_Interval, BpMapAssumption
  <2>3. IsFiniteSet(S) /\ Cardinality(S) = Cardinality(Addr) - 1 /\ Cardinality(Addr) \in Nat
    BY BpMapAssumption, FS_RemoveElement, FS_CardinalityType
  <2>4. Cardinality(S) < Cardinality(Live(t))
    BY <2>2, <2>3, BpMapAssumption
  <2>5. f \in [Live(t) -> S]
    BY KeyType DEF Keys
  <2>6. \E x, y \in Live(t) : x # y /\ f[x] = f[y]
    <3> HIDE DEF f, S
    <3> QED
      BY <2>2, <2>3, <2>4, <2>5, FS_PigeonHole
  <2> QED
    BY <2>6, DistinctKeys
<1>2. NewNode(t, a) = IF a \in free THEN a ELSE CHOOSE n \in free : TRUE
  BY DEF NewNode
<1> HIDE DEF free
<1> QED
  BY <1>1, <1>2 DEF free

\* insertNode adds the address, and keeps the red-black tree one.
LEMMA InsertKeeps ==
  ASSUME NEW t, NEW D, NEW h, Balanced(t, D, h, NULL), NEW a \in Addr, a \notin Keys(t)
  PROVE  LET u == insertNode(t, a)
         IN  (\E E, i : Balanced(u, E, i, NULL)) /\ Keys(u) = Keys(t) \cup {a}
<1> DEFINE pt == NewNode(t, a)
           w == insertBST(Malloc(t, pt, a), pt, a)
           u == fixViolation(w, pt)
<1>0. insertNode(t, a) = u
  BY DEF insertNode
<1>1. pt \in (1 .. MaxNode) \ Live(t)
  BY FreeNode DEF Balanced
<1> HIDE DEF pt
<1>2. /\ \E E, i : Balanced(w, E, i, pt)
      /\ Live(w) = Live(t) \cup {pt} /\ Key(w, pt) = a /\ \A n \in Live(t) : Key(w, n) = Key(t, n)
  BY <1>1, InsertBalanced DEF Keys
<1> HIDE DEF w
<1>3. (\E E, i : Balanced(u, E, i, NULL)) /\ SameKeys(w, u)
  BY <1>2, FixBalances
<1> HIDE DEF u
<1>4. Keys(u) = Keys(t) \cup {a}
  BY <1>2, <1>3 DEF Keys, SameKeys
<1> QED
  BY <1>0, <1>3, <1>4

-----------------------------------------------------------------------------
(* The black nodes on a way. *)

LEMMA BlacksCount ==
  ASSUME NEW t, NEW D, NEW h, Balanced(t, D, h, NULL), NEW n \in Live(t)
  PROVE  /\ Blacks(t, n) \in 0 .. MaxNode /\ h[n] \in Nat /\ h[t.root] \in Nat
         /\ Blacks(t, n) + h[n] = h[t.root] + 1
<1> DEFINE a == Key(t, n)
           at == Way(t, t.root, a)
           S(k) == {at[j] : j \in 0 .. k}
           B(k) == {m \in S(k) : Get(t, m, "color") = BLACK}
           P(k) == /\ at[k] \in Live(t) /\ (\A j \in 0 .. k : at[k] \in D[at[j]])
                   /\ IsFiniteSet(B(k)) /\ Cardinality(B(k)) \in Nat
                   /\ Cardinality(B(k)) + h[at[k]] = h[t.root] + 1
           T == {k \in 0 .. MaxNode : P(k)}
<1>0. t \in Tree /\ Span(t, D) /\ Sorted(t, D) /\ Heights(t, h) /\ Reds(t, NULL)
  BY DEF Balanced
<1>1. MaxNode \in Nat /\ a \in Int /\ NULL \notin Live(t) /\ Live(t) \subseteq Ptr
  BY <1>0, BpMapAssumption, KeyType, LivePtr
<1>2. D[t.root] = Live(t) /\ t.root \in Live(t) /\ \A i \in D[t.root] : Order(t, D, i)
  BY <1>0, SpanFacts DEF Sorted
<1>3. h \in [Ptr -> Nat] /\ \A m \in Live(t), e \in Sides : h[m] = h[Get(t, m, e)] + Weight(t, Get(t, m, e))
  BY <1>0 DEF Heights
<1>4. \A m \in Live(t) : Get(t, m, "color") = BLACK <=> ~IsRed(t, m)
  BY <1>0, ColorFacts DEF IsRed
<1>5. at[0] = t.root
  BY <1>0, WayFacts
<1>6. \A k \in 0 .. MaxNode : n \in D[at[k]]
  BY <1>0, <1>1, <1>2, Search
<1>7. n = at[MaxNode]
  <2>1. End(t, t.root, a) = at[MaxNode]
    BY <1>0, WayFacts
  <2>2. n = End(t, t.root, a)
    BY <1>0, <1>1, <1>2, Search
  <2> QED
    BY <2>1, <2>2
<1>8. \A k \in 0 .. MaxNode : at[k] \in Live(t)
  <2>1. \A k \in 0 .. MaxNode : at[k] \in D[t.root] \cup {NULL}
    BY <1>0, <1>1, <1>2, Search
  <2> QED
    BY <1>0, <1>2, <1>6, <2>1, SpanFacts
<1>9. ASSUME NEW k \in 0 .. MaxNode - 1
      PROVE  \/ at[k + 1] = at[k]
             \/ \E e \in Sides : at[k + 1] = Get(t, at[k], e)
  <2>1. at[k] \in Live(t) /\ t.root \in Live(t) \cup {NULL}
    BY <1>1, <1>2, <1>8
  <2> DEFINE m == at[k]
             j == at[k + 1]
  <2>2. /\ m \in Live(t) /\ Key(t, m) = a => j = m
        /\ m \in Live(t) /\ Key(t, m) # a => j = Get(t, m, Side(t, m, a)) /\ Side(t, m, a) \in Sides
    BY <1>0, <1>1, <2>1, WayStep
  <2> HIDE DEF m, j
  <2>3. j = m \/ \E e \in Sides : j = Get(t, m, e)
    <3>1. m \in Live(t)
      BY <2>1 DEF m
    <3> QED
      BY <2>2, <3>1
  <2> QED
    BY <2>3 DEF m, j
<1>10. Blacks(t, n) = Cardinality(B(MaxNode))
  <2>1. t.node[n].data = a
    BY DEF Key, Get
  <2> QED
    BY <2>1 DEF Blacks, Met
<1> HIDE DEF at
<1>11. 0 \in T
  <2>1. at[0] \in D[at[0]]
    BY <1>0, <1>2, <1>5, SpanFacts
  <2>2. B(0) = {t.root}
    <3>1. ~IsRed(t, t.root)
      BY <1>0, <1>1, <1>2 DEF Reds
    <3> QED
      BY <1>2, <1>4, <1>5, <3>1
  <2>3. IsFiniteSet({t.root}) /\ Cardinality({t.root}) = 1
    BY FS_Singleton
  <2>4. h[t.root] \in Nat
    BY <1>1, <1>2, <1>3
  <2> HIDE DEF B
  <2>5. P(0)
    BY <1>2, <1>5, <2>1, <2>2, <2>3, <2>4
  <2> QED
    BY <1>1, <2>5
<1>12. ASSUME NEW k \in 0 .. MaxNode - 1, k \in T PROVE k + 1 \in T
  <2>0. k + 1 \in 0 .. MaxNode /\ k \in Nat
    BY <1>1
  <2>1. S(k + 1) = S(k) \cup {at[k + 1]}
    <3>1. 0 .. k + 1 = (0 .. k) \cup {k + 1}
      BY <2>0
    <3> QED
      BY <3>1
  <2>2. P(k)
    BY <1>12
  <2>3. CASE at[k + 1] = at[k]
    <3>1. at[k + 1] \in S(k)
      BY <2>0, <2>3
    <3>2. S(k + 1) = S(k)
      BY <2>1, <3>1
    <3>3. \A j \in 0 .. k + 1 : at[k + 1] \in D[at[j]]
      <4>1. \A j \in 0 .. k + 1 : j = k + 1 \/ j \in 0 .. k
        BY <2>0
      <4> QED
        BY <2>0, <2>2, <2>3, <4>1
    <3>4. B(k + 1) = B(k)
      BY <3>2
    <3> HIDE DEF B
    <3>5. P(k + 1)
      BY <2>2, <2>3, <3>3, <3>4
    <3> QED
      BY <2>0, <3>5
  <2>4. CASE at[k + 1] # at[k]
    <3> DEFINE m == at[k]
               c == at[k + 1]
    <3>1. PICK e \in Sides : c = Get(t, m, e)
      BY <1>9, <2>4
    <3>2. c \in Live(t) /\ m \in Live(t)
      BY <1>8, <2>0, <2>2
    <3>3. m \notin D[c] /\ c \in D[m] /\ c \in D[c]
      BY <1>0, <3>1, <3>2, SpanAt, SpanFacts
    <3>4. c \notin S(k)
      BY <2>2, <3>3
    <3>5. \A j \in 0 .. k + 1 : c \in D[at[j]]
      <4>1. ASSUME NEW j \in 0 .. k PROVE c \in D[at[j]]
        <5>1. at[j] \in Live(t)
          <6>1. j \in 0 .. MaxNode
            BY <1>1
          <6> QED
            BY <1>8, <6>1
        <5>2. D[m] \subseteq D[at[j]]
          BY <1>0, <2>2, <5>1, Closed
        <5> QED
          BY <3>3, <5>2
      <4>2. \A j \in 0 .. k + 1 : j = k + 1 \/ j \in 0 .. k
        BY <2>0
      <4> QED
        BY <3>3, <4>1, <4>2
    <3>6. h[c] \in Nat /\ h[m] \in Nat /\ h[t.root] \in Nat /\ h[m] = h[c] + Weight(t, c)
      BY <1>1, <1>2, <1>3, <3>1, <3>2
    <3>7. CASE IsRed(t, c)
      <4>1. B(k + 1) = B(k)
        BY <1>4, <2>1, <3>2, <3>7
      <4>2. h[c] = h[m]
        BY <3>6, <3>7 DEF Weight
      <4> HIDE DEF B
      <4>3. P(k + 1)
        BY <2>2, <3>2, <3>5, <4>1, <4>2
      <4> QED
        BY <2>0, <4>3
    <3>8. CASE ~IsRed(t, c)
      <4>1. B(k + 1) = B(k) \cup {c} /\ c \notin B(k)
        BY <1>4, <2>1, <3>2, <3>4, <3>8
      <4>2. h[m] = h[c] + 1
        BY <3>6, <3>8 DEF Weight
      <4> HIDE DEF B
      <4>3. IsFiniteSet(B(k + 1)) /\ Cardinality(B(k + 1)) = Cardinality(B(k)) + 1
        BY <2>2, <4>1, FS_AddElement
      <4>4. P(k + 1)
        BY <2>2, <3>2, <3>5, <3>6, <4>2, <4>3
      <4> QED
        BY <2>0, <4>4
    <3> QED
      BY <3>7, <3>8
  <2> QED
    BY <2>3, <2>4
<1> HIDE DEF T
<1>13. \A k \in 0 .. MaxNode : k \in T
  BY <1>11, <1>12, StepInduction
<1>14. P(MaxNode)
  BY <1>1, <1>13 DEF T
<1>15. B(MaxNode) \subseteq Live(t)
  BY <1>8
<1>16. Cardinality(B(MaxNode)) <= MaxNode
  <2>1. IsFiniteSet(Live(t)) /\ Cardinality(Live(t)) <= MaxNode /\ Cardinality(Live(t)) \in Nat
    BY <1>0, Sizes
  <2>2. Cardinality(B(MaxNode)) <= Cardinality(Live(t))
    BY <1>15, <2>1, FS_Subset
  <2> QED
    BY <1>1, <1>14, <2>1, <2>2
<1> HIDE DEF B
<1> QED
  BY <1>1, <1>2, <1>3, <1>7, <1>10, <1>14, <1>16

-----------------------------------------------------------------------------
(* deleteNode. *)

LEMMA FreeGet ==
  ASSUME NEW t \in Tree, NEW c
  PROVE  LET u == Free(t, c)
         IN  /\ u \in Tree /\ Live(u) = Live(t) \ {c} /\ u.root = t.root
             /\ \A m \in Live(u) : \A e \in Field : Get(u, m, e) = Get(t, m, e)
<1> DEFINE u == Free(t, c)
           g == [m \in Live(t) \ {c} |-> t.node[m]]
<1>1. t.node \in [Live(t) -> Node] /\ Live(t) \subseteq 1 .. MaxNode /\ t.root \in Ptr
  BY TreeFacts
<1>2. u = [t EXCEPT !.node = g]
  BY DEF Free
<1>3. g \in [Live(t) \ {c} -> Node] /\ \A m \in Live(t) \ {c} : g[m] = t.node[m]
  BY <1>1
<1> HIDE DEF g, u
<1>4. u = [root |-> t.root, node |-> g, undef |-> FALSE]
  BY <1>2 DEF Tree
<1>5. u \in Tree /\ u.root = t.root /\ u.node = g
  <2>1. Live(t) \ {c} \in SUBSET (1 .. MaxNode)
    BY <1>1
  <2>2. [root |-> t.root, node |-> g, undef |-> FALSE] \in Tree
    BY <1>1, <1>3, <2>1, MakeTree
  <2> QED
    BY <1>4, <2>2
<1>6. Live(u) = Live(t) \ {c}
  BY <1>3, <1>5 DEF Live
<1>7. \A m \in Live(u) : \A e \in Field : Get(u, m, e) = Get(t, m, e)
  BY <1>3, <1>5, <1>6 DEF Get
<1> QED
  BY <1>5, <1>6, <1>7 DEF u

LEMMA CopyGet ==
  ASSUME NEW t \in Tree, NEW v \in Live(t), NEW c \in Live(t)
  PROVE  LET u == [t EXCEPT !.node[v] = t.node[c]]
         IN  /\ u \in Tree /\ Live(u) = Live(t) /\ u.root = t.root
             /\ \A m : \A e \in Field : Get(u, m, e) = IF m = v THEN Get(t, c, e) ELSE Get(t, m, e)
<1> DEFINE u == [t EXCEPT !.node[v] = t.node[c]]
           g == [t.node EXCEPT ![v] = t.node[c]]
<1>1. t.node \in [Live(t) -> Node] /\ Live(t) \subseteq 1 .. MaxNode /\ t.root \in Ptr
  BY TreeFacts
<1>2. u = [t EXCEPT !.node = g]
  OBVIOUS
<1>3. g \in [Live(t) -> Node] /\ \A m \in Live(t) : g[m] = IF m = v THEN t.node[c] ELSE t.node[m]
  BY <1>1
<1> HIDE DEF g, u
<1>4. u = [root |-> t.root, node |-> g, undef |-> FALSE]
  BY <1>2 DEF Tree
<1>5. u \in Tree /\ u.root = t.root /\ u.node = g
  <2>1. [root |-> t.root, node |-> g, undef |-> FALSE] \in Tree
    BY <1>1, <1>3, MakeTree
  <2> QED
    BY <1>4, <2>1
<1>6. Live(u) = Live(t)
  BY <1>3, <1>5 DEF Live
<1>7. \A m : \A e \in Field : Get(u, m, e) = IF m = v THEN Get(t, c, e) ELSE Get(t, m, e)
  BY <1>3, <1>5, <1>6 DEF Get
<1> QED
  BY <1>5, <1>6, <1>7 DEF u

\* The order of the keys when node v is left out.
SortedBut(t, D, v) ==
  \A n \in Live(t) \ {v}, e \in Sides : \A m \in D[Get(t, n, e)] \ {v} : Before(e, Key(t, m), Key(t, n))
KeysBut(t, v) == {Key(t, n) : n \in Live(t) \ {v}}

\* What is left of a subtree without node c.
Without(D, c) == [n \in Ptr |-> D[n] \ {c}]

LEMMA WithoutSpan ==
  ASSUME NEW t \in Tree, NEW D, Span(t, D), NEW u \in Tree, NEW c \in Live(t), Live(u) = Live(t) \ {c},
         u.root \in Live(u) \cup {NULL}, D[u.root] \ {c} = Live(u),
         \A n \in Live(u) :
           LET l == Get(u, n, "left")  r == Get(u, n, "right")
           IN  /\ l \in Live(u) \cup {NULL} /\ r \in Live(u) \cup {NULL}
               /\ D[n] \ {c} = {n} \cup (D[l] \ {c}) \cup (D[r] \ {c})
               /\ n \notin D[l] /\ n \notin D[r] /\ (D[l] \ {c}) \cap (D[r] \ {c}) = {}
  PROVE  Span(u, Without(D, c))
<1> DEFINE E == Without(D, c)
<1>1. D \in [Ptr -> SUBSET Live(t)] /\ D[NULL] = {} /\ NULL \in Ptr /\ Live(u) \subseteq Ptr
  BY SpanFacts, LivePtr
<1>2. E \in [Ptr -> SUBSET Live(u)] /\ \A n \in Live(u) \cup {NULL} : E[n] = D[n] \ {c}
  BY <1>1 DEF Without
<1> HIDE DEF E
<1>3. ASSUME NEW n \in Live(u) PROVE Split(u, E, n)
  BY <1>2 DEF Split
<1> QED
  BY <1>1, <1>2, <1>3 DEF Span, E

\* A node with one child takes the place of that child.
LEMMA UnlinkChild ==
  ASSUME NEW t \in Tree, NEW D, Span(t, D), NEW v \in Live(t), NEW s \in Sides,
         Get(t, v, s) \in Live(t), Get(t, v, Other(s)) = NULL, NEW up, NEW side,
         NEW calls, Get(t, v, s) \notin calls
  PROVE  LET u == Unlink(t, v, up, side, calls)
         IN  /\ u \in Tree /\ Keys(u) = KeysBut(t, v)
             /\ \E E : Span(u, E) /\ (SortedBut(t, D, v) => Sorted(u, E))
<1> DEFINE c == Get(t, v, s)
           u == Unlink(t, v, up, side, calls)
           w == [t EXCEPT !.node[v] = t.node[c]]
           E == Without(D, c)
           L == Live(t) \ {c}
           of(n) == IF n = v THEN c ELSE n
<1>0. NULL \notin Live(t) /\ \A n \in Live(t) : n \in D[n]
  BY LivePtr, SpanFacts
<1>1. u = Free(w, c)
  <2>1. c = IF Get(t, v, "left") # NULL THEN Get(t, v, "left") ELSE Get(t, v, "right")
    BY <1>0 DEF Sides, Other
  <2> QED
    BY <1>0, <2>1 DEF Unlink
<1> HIDE DEF u
<1>2. /\ w \in Tree /\ Live(w) = Live(t) /\ w.root = t.root
      /\ \A m : \A e \in Field : Get(w, m, e) = IF m = v THEN Get(t, c, e) ELSE Get(t, m, e)
  BY CopyGet
<1> HIDE DEF w
<1>3. /\ u \in Tree /\ Live(u) = L /\ u.root = t.root
      /\ \A m \in L : \A e \in Field : Get(u, m, e) = Get(w, m, e)
  BY <1>1, <1>2, FreeGet
<1>4. \A m \in L : \A e \in Field : Get(u, m, e) = Get(t, of(m), e)
  BY <1>2, <1>3
<1>5. \A m \in L : Key(u, m) = Key(t, of(m)) /\ \A e \in Sides : Get(u, m, e) = Get(t, of(m), e)
  BY <1>4, SideField DEF Key
<1>6. c # v /\ v \notin D[c] /\ D[v] = {v} \cup D[c] /\ c \in D[c] /\ c \in Live(t)
  BY <1>0, SpanAt, SpanFacts
<1>7. \A n \in Live(t), e \in Sides : Get(t, n, e) = c => n = v
  BY OneParent
<1> HIDE DEF c
<1>8. Keys(u) = KeysBut(t, v)
  <2>1. ASSUME NEW n \in Live(t) \ {v} PROVE Key(t, n) \in Keys(u)
    <3>1. CASE n = c
      BY <1>3, <1>5, <1>6, <3>1 DEF Keys
    <3>2. CASE n # c
      <4>1. n \in L /\ of(n) = n
        BY <2>1, <3>2
      <4> QED
        BY <1>3, <1>5, <4>1 DEF Keys
    <3> QED
      BY <3>1, <3>2
  <2>2. ASSUME NEW n \in L PROVE Key(u, n) \in KeysBut(t, v)
    BY <1>5, <1>6 DEF KeysBut
  <2> QED
    BY <1>3, <2>1, <2>2 DEF Keys, KeysBut
<1>9. ASSUME NEW n \in L, NEW e \in Sides
      PROVE  /\ Get(t, of(n), e) \in L \cup {NULL} /\ of(n) \in Live(t) /\ of(n) # v
             /\ n # v => of(n) = n
  <2>1. of(n) \in Live(t) /\ of(n) # v /\ (n # v => of(n) = n)
    BY <1>6, <1>9
  <2>2. Get(t, of(n), e) \in Live(t) \cup {NULL}
    BY <2>1, SpanAt
  <2> QED
    BY <1>7, <2>1, <2>2
<1> HIDE DEF L
<1>10. ASSUME NEW n \in L
       PROVE  LET l == Get(u, n, "left")  r == Get(u, n, "right")
              IN  /\ l \in Live(u) \cup {NULL} /\ r \in Live(u) \cup {NULL}
                  /\ D[n] \ {c} = {n} \cup (D[l] \ {c}) \cup (D[r] \ {c})
                  /\ n \notin D[l] /\ n \notin D[r] /\ (D[l] \ {c}) \cap (D[r] \ {c}) = {}
  <2> DEFINE l == Get(t, of(n), "left")
             r == Get(t, of(n), "right")
  <2>1. Get(u, n, "left") = l /\ Get(u, n, "right") = r /\ l \in Live(u) \cup {NULL} /\ r \in Live(u) \cup {NULL}
    BY <1>3, <1>5, <1>9, <1>10 DEF Sides
  <2>2. /\ D[of(n)] = {of(n)} \cup D[l] \cup D[r] /\ of(n) \notin D[l] /\ of(n) \notin D[r]
        /\ D[l] \cap D[r] = {}
    BY <1>9 DEF Span, Split, Sides
  <2>3. CASE n = v
    <3>1. of(n) = c /\ D[n] = {n} \cup {c} \cup D[l] \cup D[r] /\ n \notin D[l] /\ n \notin D[r] /\ n # c
      BY <1>6, <2>2, <2>3
    <3> HIDE DEF l, r
    <3> QED
      BY <2>1, <2>2, <3>1
  <2>4. CASE n # v
    <3>1. of(n) = n /\ n # c
      BY <1>9, <1>10, <2>4 DEF L
    <3> HIDE DEF l, r
    <3> QED
      BY <2>1, <2>2, <3>1
  <2> QED
    BY <2>3, <2>4
<1>11. Span(u, E)
  <2>1. t.root \in L \cup {NULL} /\ D[t.root] \ {c} = L
    <3>1. t.root \in Live(t) \cup {NULL} /\ D[t.root] = Live(t)
      BY SpanFacts
    <3> QED
      BY <1>6, <3>1 DEF L
  <2> QED
    BY <1>3, <1>6, <1>10, <2>1, WithoutSpan DEF L
<1>12. ASSUME SortedBut(t, D, v) PROVE Sorted(u, E)
  <2> SUFFICES ASSUME NEW n \in L, NEW e \in Sides, NEW m \in E[Get(u, n, e)]
               PROVE  Before(e, Key(u, m), Key(u, n))
    BY <1>3 DEF Sorted, Order
  <2> DEFINE b == Get(t, of(n), e)
  <2>1. Get(u, n, e) = b /\ b \in L \cup {NULL} /\ of(n) \in Live(t) \ {v}
    BY <1>5, <1>9
  <2>2. D[b] \subseteq Live(t) /\ E[b] = D[b] \ {c} /\ (b # NULL => b \in Live(t)) /\ D[NULL] = {}
    <3>1. b \in Live(t) \cup {NULL} /\ b \in Ptr
      BY <1>3, <2>1, LivePtr DEF L
    <3> QED
      BY <3>1, SpanFacts DEF Without
  <2>3. m \in D[b] /\ m # c /\ m \in L
    BY <2>1, <2>2 DEF L
  <2>4. of(m) \in D[b] /\ of(m) # v
    <3>1. CASE m = v
      <4>1. D[v] \subseteq D[b]
        BY <2>2, <2>3, <3>1, Closed
      <4> QED
        BY <1>6, <3>1, <4>1
    <3>2. CASE m # v
      BY <2>3, <3>2
    <3> QED
      BY <3>1, <3>2
  <2>5. Before(e, Key(t, of(m)), Key(t, of(n)))
    BY <1>12, <2>1, <2>4 DEF SortedBut
  <2> QED
    BY <1>5, <2>3, <2>5
<1> QED
  BY <1>3, <1>8, <1>11, <1>12 DEF u

\* A leaf goes, and the pointer to it becomes NULL.
LEMMA UnlinkLeaf ==
  ASSUME NEW t \in Tree, NEW D, Span(t, D), NEW v \in Live(t), \A s \in Sides : Get(t, v, s) = NULL,
         NEW up, NEW side, NEW calls,
         \/ v = t.root /\ up = NULL
         \/ up \in Live(t) /\ side \in Sides /\ Get(t, up, side) = v
  PROVE  LET u == Unlink(t, v, up, side, calls)
         IN  /\ u \in Tree /\ Keys(u) = KeysBut(t, v)
             /\ \E E : Span(u, E) /\ (SortedBut(t, D, v) => Sorted(u, E))
<1> DEFINE u == Unlink(t, v, up, side, calls)
           w == IF up = NULL THEN [t EXCEPT !.root = NULL] ELSE Put(t, up, side, NULL)
           E == Without(D, v)
           L == Live(t) \ {v}
<1>0. NULL \notin Live(t) /\ NULL \in Ptr /\ D[NULL] = {} /\ \A n \in Live(t) : n \in D[n] /\ D[n] \subseteq Live(t)
  BY LivePtr, SpanFacts
<1>1. u = Free(w, v)
  BY DEF Unlink, Sides
<1> HIDE DEF u
<1>2. D[v] = {v}
  BY <1>0 DEF Span, Split, Sides
<1>3. \A n \in Live(t), e \in Sides : Get(t, n, e) = v => up \in Live(t) /\ n = up /\ e = side /\ v # t.root
  <2> SUFFICES ASSUME NEW n \in Live(t), NEW e \in Sides, Get(t, n, e) = v
               PROVE  up \in Live(t) /\ n = up /\ e = side /\ v # t.root
    OBVIOUS
  <2>1. v # t.root
    <3> SUFFICES ASSUME v = t.root PROVE FALSE
      OBVIOUS
    <3>1. n = v
      BY <1>2, SpanFacts
    <3> QED
      BY <1>0, <3>1
  <2> QED
    BY <2>1, OneParent
<1>4. up \in Live(t) => v # t.root /\ side \in Sides /\ Get(t, up, side) = v
  BY <1>0, <1>3
<1>5. /\ w \in Tree /\ Live(w) = Live(t) /\ w.root = IF t.root = v THEN NULL ELSE t.root
      /\ \A m \in Live(t) : \A e \in Sides \cup {"data"} :
            Get(w, m, e) = IF e \in Sides /\ Get(t, m, e) = v THEN NULL ELSE Get(t, m, e)
  <2>1. CASE up = NULL
    <3>1. v = t.root /\ w = [t EXCEPT !.root = NULL]
      BY <1>0, <2>1
    <3> HIDE DEF w
    <3>2. /\ w \in Tree /\ Live(w) = Live(t) /\ w.root = NULL
          /\ \A m : \A e \in Field : Get(w, m, e) = Get(t, m, e)
      BY <1>0, <3>1, RootGet
    <3> QED
      BY <1>3, <3>1, <3>2, SideField
  <2>2. CASE up # NULL
    <3>1. up \in Live(t) /\ w = Put(t, up, side, NULL) /\ v # t.root /\ side \in Sides /\ Get(t, up, side) = v
      BY <1>4, <2>2
    <3> HIDE DEF w
    <3>2. side \in Link
      BY <3>1 DEF Sides, Link
    <3>3. /\ w \in Tree /\ Live(w) = Live(t) /\ w.root = t.root
          /\ \A m : \A e \in Field : Get(w, m, e) = IF m = up /\ e = side THEN NULL ELSE Get(t, m, e)
      BY <1>0, <3>1, <3>2, PutLink
    <3>4. ASSUME NEW m \in Live(t), NEW e \in Sides \cup {"data"}
          PROVE  Get(w, m, e) = IF e \in Sides /\ Get(t, m, e) = v THEN NULL ELSE Get(t, m, e)
      <4>1. e \in Field /\ "data" \notin Sides
        BY SideField
      <4> QED
        BY <1>3, <3>1, <3>3, <4>1
    <3> QED
      BY <3>1, <3>3, <3>4
  <2> QED
    BY <2>1, <2>2
<1> HIDE DEF w
<1>6. /\ u \in Tree /\ Live(u) = L /\ u.root = IF t.root = v THEN NULL ELSE t.root
      /\ \A m \in L : \A e \in Field : Get(u, m, e) = Get(w, m, e)
  BY <1>1, <1>5, FreeGet
<1>7. \A m \in L, e \in Sides : Get(u, m, e) = IF Get(t, m, e) = v THEN NULL ELSE Get(t, m, e)
  BY <1>5, <1>6, SideField
<1>8. \A m \in L : Key(u, m) = Key(t, m)
  BY <1>5, <1>6, SideField DEF Key
<1>9. Keys(u) = KeysBut(t, v)
  BY <1>6, <1>8 DEF Keys, KeysBut
<1>10. \A n \in L, e \in Sides :
         Get(t, n, e) \in Live(t) \cup {NULL} /\ D[Get(u, n, e)] \ {v} = D[Get(t, n, e)] \ {v}
  BY <1>0, <1>2, <1>7, SpanAt
<1>11. ASSUME NEW n \in L
       PROVE  LET l == Get(u, n, "left")  r == Get(u, n, "right")
              IN  /\ l \in Live(u) \cup {NULL} /\ r \in Live(u) \cup {NULL}
                  /\ D[n] \ {v} = {n} \cup (D[l] \ {v}) \cup (D[r] \ {v})
                  /\ n \notin D[l] /\ n \notin D[r] /\ (D[l] \ {v}) \cap (D[r] \ {v}) = {}
  <2> DEFINE l == Get(t, n, "left")
             r == Get(t, n, "right")
             x == Get(u, n, "left")
             y == Get(u, n, "right")
  <2>1. D[x] \ {v} = D[l] \ {v} /\ D[y] \ {v} = D[r] \ {v} /\ x \in Live(u) \cup {NULL} /\ y \in Live(u) \cup {NULL}
    BY <1>6, <1>7, <1>10 DEF Sides
  <2>2. D[n] = {n} \cup D[l] \cup D[r] /\ n \notin D[l] /\ n \notin D[r] /\ D[l] \cap D[r] = {} /\ n # v
    BY DEF Span, Split
  <2> HIDE DEF l, r, x, y
  <2>3. /\ D[n] \ {v} = {n} \cup (D[x] \ {v}) \cup (D[y] \ {v})
        /\ n \notin D[x] /\ n \notin D[y] /\ (D[x] \ {v}) \cap (D[y] \ {v}) = {}
    BY <2>1, <2>2
  <2> QED
    BY <2>1, <2>3 DEF x, y
<1>12. Span(u, E)
  <2>1. u.root \in Live(u) \cup {NULL} /\ D[u.root] \ {v} = Live(u)
    BY <1>0, <1>2, <1>6, SpanFacts
  <2> QED
    BY <1>6, <1>11, <2>1, WithoutSpan
<1>13. ASSUME SortedBut(t, D, v) PROVE Sorted(u, E)
  <2> SUFFICES ASSUME NEW n \in L, NEW e \in Sides, NEW m \in E[Get(u, n, e)]
               PROVE  Before(e, Key(u, m), Key(u, n))
    BY <1>6 DEF Sorted, Order
  <2>1. Get(u, n, e) \in L \cup {NULL} /\ Get(u, n, e) \in Ptr
    BY <1>6, <1>7, <1>10, <1>0, LivePtr
  <2>2. E[Get(u, n, e)] = D[Get(u, n, e)] \ {v}
    BY <2>1 DEF Without
  <2>3. m \in D[Get(t, n, e)] /\ m # v /\ m \in Live(t)
    <3>1. D[Get(t, n, e)] \subseteq Live(t)
      BY <1>0, <1>10
    <3> QED
      BY <1>10, <2>2, <3>1
  <2> QED
    BY <1>8, <1>13, <2>3 DEF SortedBut
<1> QED
  BY <1>6, <1>9, <1>12, <1>13 DEF u

LEMMA UnlinkKeeps ==
  ASSUME NEW t \in Tree, NEW D, Span(t, D), NEW v \in Live(t), \E s \in Sides : Get(t, v, s) = NULL,
         NEW up, NEW side,
         \/ v = t.root /\ up = NULL
         \/ up \in Live(t) /\ side \in Sides /\ Get(t, up, side) = v,
         NEW calls, \A s \in Sides : Get(t, v, s) \notin calls \ {NULL}, SortedBut(t, D, v)
  PROVE  LET u == Unlink(t, v, up, side, calls)
         IN  u \in Tree /\ Keys(u) = KeysBut(t, v) /\ \E E : Span(u, E) /\ Sorted(u, E)
<1>1. PICK s \in Sides : Get(t, v, s) = NULL
  OBVIOUS
<1>2. Other(s) \in Sides /\ Other(Other(s)) = s /\ \A e \in Sides : e = s \/ e = Other(s)
  BY OtherFacts
<1>3. Get(t, v, Other(s)) \in Live(t) \cup {NULL}
  BY <1>2, SpanAt
<1>4. CASE Get(t, v, Other(s)) = NULL
  <2>1. \A e \in Sides : Get(t, v, e) = NULL
    BY <1>1, <1>2, <1>4
  <2> QED
    BY <2>1, UnlinkLeaf
<1>5. CASE Get(t, v, Other(s)) \in Live(t)
  <2>1. Get(t, v, Other(s)) \notin calls
    BY <1>2, <1>5, LivePtr
  <2> QED
    BY <1>1, <1>2, <1>5, <2>1, UnlinkChild
<1> QED
  BY <1>3, <1>4, <1>5

\* Remove takes out the node that holds a.
LEMMA RemoveKeeps ==
  ASSUME NEW t \in Tree, NEW D, Span(t, D), NEW r \in Live(t), NEW a \in Int,
         \A n \in D[r] : Order(t, D, n),
         NEW v \in D[r], Key(t, v) = a, \E s \in Sides : Get(t, v, s) = NULL,
         NEW up, NEW side,
         \/ r = t.root /\ up = NULL
         \/ up \in Live(t) /\ side \in Sides /\ Get(t, up, side) = r,
         NEW calls, calls \cap D[r] = {}, SortedBut(t, D, v)
  PROVE  LET u == Remove(t, r, a, up, side, calls)
         IN  u \in Tree /\ Keys(u) = KeysBut(t, v) /\ \E E : Span(u, E) /\ Sorted(u, E)
<1> DEFINE m == Holder(t, r, a, v)
           all == calls \cup Met(t, r, a)
<1>0. \A s \in Sides : Get(t, v, s) \notin all \ {NULL}
  <2> SUFFICES ASSUME NEW s \in Sides, Get(t, v, s) # NULL, Get(t, v, s) \in all PROVE FALSE
    OBVIOUS
  <2> DEFINE c == Get(t, v, s)
  <2>1. v \in Live(t) /\ v \in D[v]
    BY SpanFacts
  <2>2. c \in Live(t) /\ c \in D[c] /\ D[c] \subseteq D[v] /\ v \notin D[c] /\ D[v] \subseteq D[r]
    BY <2>1, SpanAt, SpanFacts, Closed
  <2>3. c \notin calls
    BY <2>2
  <2>4. \A k \in 0 .. MaxNode : v \in D[Way(t, r, a)[k]]
    BY Search
  <2> QED
    BY <2>2, <2>3, <2>4 DEF Met
<1> HIDE DEF all
<1>1. End(t, r, a) = v /\ v \in Live(t)
  <2>1. v = End(t, r, a)
    BY Search
  <2> QED
    BY <2>1, SpanFacts
<1>2. CASE v = r
  <2>1. Remove(t, r, a, up, side, calls) = Unlink(t, v, up, side, all)
    BY <1>1, <1>2 DEF Remove, all
  <2> QED
    <3>1. \/ v = t.root /\ up = NULL
          \/ up \in Live(t) /\ side \in Sides /\ Get(t, up, side) = v
      BY <1>2
    <3> QED
      BY <1>0, <1>1, <2>1, <3>1, UnlinkKeeps
<1>3. CASE v # r
  <2>1. Remove(t, r, a, up, side, calls) = Unlink(t, v, m, Side(t, m, a), all)
    BY <1>1, <1>3 DEF Remove, all
  <2>2. m \in Above(t, r, a, v)
    <3>1. Way(t, r, a)[MaxNode] = v /\ MaxNode \in 0 .. MaxNode
      BY <1>1, BpMapAssumption DEF End
    <3> QED
      BY <1>3, <3>1, HolderExists
  <2> HIDE DEF m
  <2>3. m \in Live(t) /\ Side(t, m, a) \in Sides /\ Get(t, m, Side(t, m, a)) = v
    BY <2>2, AboveFacts
  <2> QED
    BY <1>0, <1>1, <2>1, <2>3, UnlinkKeeps
<1> QED
  BY <1>2, <1>3

\* minValueNode goes down to the smallest key, whose node has no left child.
LEMMA Minimum ==
  ASSUME NEW t \in Tree, NEW D, Span(t, D), NEW r \in Live(t), \A n \in D[r] : Order(t, D, n)
  PROVE  LET w == minValueNode(t, r)
         IN  /\ w \in D[r] /\ Get(t, w, "left") = NULL
             /\ \A i \in D[r] : i # w => Key(t, w) < Key(t, i)
<1> DEFINE next == [n \in Ptr |-> IF Get(t, n, "left") = NULL THEN n ELSE t.node[n].left]
           at == Follow(next, r)
           P(k) == /\ at[k] \in D[r]
                   /\ Get(t, at[k], "left") # NULL => Cardinality(D[at[k]]) <= MaxNode - k
                   /\ \A i \in D[r] : i \in D[at[k]] \/ Key(t, at[k]) < Key(t, i)
           T == {k \in 0 .. MaxNode : P(k)}
<1>0. MaxNode \in Nat /\ D[r] \subseteq Live(t) /\ r \in D[r] /\ NULL \notin Live(t) /\ Live(t) \subseteq Ptr /\ D[NULL] = {}
  BY BpMapAssumption, SpanFacts, LivePtr
<1>1. at[0] = r /\ \A k \in 0 .. MaxNode - 1 : at[k + 1] = next[at[k]]
  BY FollowFacts
<1>2. \A n \in Live(t) : next[n] = IF Get(t, n, "left") = NULL THEN n ELSE Get(t, n, "left")
  BY <1>0 DEF Get
<1>3. minValueNode(t, r) = at[MaxNode]
  BY DEF minValueNode
<1>4. "left" \in Sides /\ "right" \in Sides
  BY DEF Sides
<1>5. \A n \in D[r] : \A i \in D[Get(t, n, "left")] : Key(t, i) < Key(t, n)
  BY <1>4 DEF Order, Before
<1>6. \A n \in D[r] : \A i \in D[Get(t, n, "right")] : Key(t, n) < Key(t, i)
  BY <1>4 DEF Order, Before
<1>7. \A n \in Live(t) : Key(t, n) \in Int
  BY KeyType
<1>8. \A n \in Live(t) : D[n] = {n} \cup D[Get(t, n, "left")] \cup D[Get(t, n, "right")]
  BY DEF Span, Split
<1> HIDE DEF next, at
<1>9. 0 \in T
  <2>1. Cardinality(D[r]) <= MaxNode
    BY Sizes
  <2>2. P(0)
    BY <1>0, <1>1, <2>1
  <2> QED
    BY <1>0, <2>2
<1>10. ASSUME NEW k \in 0 .. MaxNode - 1, k \in T PROVE k + 1 \in T
  <2> DEFINE m == at[k]
             c == at[k + 1]
  <2>0. k + 1 \in 0 .. MaxNode /\ P(k)
    BY <1>0, <1>10
  <2>1. m \in Live(t) /\ c = IF Get(t, m, "left") = NULL THEN m ELSE Get(t, m, "left")
    BY <1>0, <1>1, <1>2, <2>0
  <2>2. CASE Get(t, m, "left") = NULL
    <3>1. P(k + 1)
      BY <2>0, <2>1, <2>2
    <3> QED
      BY <2>0, <3>1
  <2>3. CASE Get(t, m, "left") # NULL
    <3>1. c = Get(t, m, "left") /\ c \in Live(t) /\ m \in D[r]
      BY <1>4, <2>0, <2>1, <2>3, SpanAt
    <3>2. D[m] \subseteq D[r] /\ c \in D[c] /\ D[c] \subseteq D[m]
      <4>1. c \in D[c] /\ D[c] \subseteq D[m]
        BY <1>8, <2>1, <3>1, SpanFacts
      <4> QED
        BY <3>1, <4>1, Closed
    <3>3. Cardinality(D[c]) <= MaxNode - (k + 1)
      <4>1. Cardinality(D[c]) < Cardinality(D[m])
        BY <1>4, <2>1, <3>1, Sizes
      <4>2. Cardinality(D[c]) \in Nat /\ Cardinality(D[m]) \in Nat
        BY <2>1, <3>1, Sizes
      <4>3. Cardinality(D[m]) <= MaxNode - k
        BY <2>0, <2>3
      <4> QED
        BY <1>0, <4>1, <4>2, <4>3
    <3>4. Key(t, c) < Key(t, m) /\ Key(t, c) \in Int /\ Key(t, m) \in Int
      BY <1>5, <1>7, <2>1, <3>1, <3>2
    <3>5. ASSUME NEW i \in D[r] PROVE i \in D[c] \/ Key(t, c) < Key(t, i)
      <4>1. Key(t, i) \in Int
        BY <1>0, <1>7
      <4>2. i \in D[m] \/ Key(t, m) < Key(t, i)
        BY <2>0
      <4>3. i \in D[m] => i = m \/ i \in D[c] \/ Key(t, m) < Key(t, i)
        BY <1>6, <1>8, <2>1, <3>1
      <4> QED
        BY <3>4, <4>1, <4>2, <4>3
    <3>6. P(k + 1)
      BY <3>2, <3>3, <3>5
    <3> QED
      BY <2>0, <3>6
  <2> QED
    BY <2>2, <2>3
<1> HIDE DEF T
<1>11. \A k \in 0 .. MaxNode : k \in T
  BY <1>9, <1>10, StepInduction
<1>12. P(MaxNode)
  BY <1>0, <1>11 DEF T
<1> DEFINE w == at[MaxNode]
<1>13. w \in Live(t) /\ w \in D[w]
  BY <1>0, <1>12, SpanFacts
<1>14. Get(t, w, "left") = NULL
  <2> SUFFICES ASSUME Get(t, w, "left") # NULL PROVE FALSE
    OBVIOUS
  <2>1. Cardinality(D[w]) <= 0 /\ Cardinality(D[w]) \in Nat /\ IsFiniteSet(D[w])
    BY <1>0, <1>12, <1>13, Sizes
  <2>2. Cardinality(D[w]) = 0
    BY <2>1
  <2> QED
    BY <1>13, <2>1, <2>2, FS_EmptySet
<1>15. \A i \in D[w] : i # w => Key(t, w) < Key(t, i)
  BY <1>0, <1>6, <1>8, <1>12, <1>13, <1>14
<1> QED
  BY <1>3, <1>12, <1>14, <1>15

LEMMA PutKey ==
  ASSUME NEW t \in Tree, NEW D, Span(t, D), NEW n \in Live(t), NEW m \in Addr
  PROVE  LET u == Put(t, n, "data", m)
         IN  /\ u \in Tree /\ Live(u) = Live(t) /\ u.root = t.root /\ Span(u, D)
             /\ \A i : Key(u, i) = IF i = n THEN m ELSE Key(t, i)
             /\ \A i : \A e \in Sides : Get(u, i, e) = Get(t, i, e)
<1> DEFINE u == Put(t, n, "data", m)
<1>1. "data" \in Field /\ m \in Values("data")
  BY SideField
<1>2. /\ u \in Tree /\ Live(u) = Live(t) /\ u.root = t.root
      /\ \A i : \A e \in Field : Get(u, i, e) = IF i = n /\ e = "data" THEN m ELSE Get(t, i, e)
  BY <1>1, PutGet
<1> HIDE DEF u
<1>3. \A i : \A e \in Sides : Get(u, i, e) = Get(t, i, e)
  BY <1>2, SideField
<1>4. \A i : Key(u, i) = IF i = n THEN m ELSE Key(t, i)
  BY <1>2, SideField DEF Key
<1>5. Span(u, D)
  BY <1>2, <1>3 DEF Span, Split, Sides
<1> QED
  BY <1>2, <1>3, <1>4, <1>5 DEF u

State(t, r, a, up, side, calls) ==
  [tree |-> t, r |-> r, a |-> a, up |-> up, side |-> side, calls |-> calls]

LEMMA PassesExist ==
  ASSUME NEW t, NEW a
  PROVE  LET at == Passes(t, a)
         IN  /\ at[0] = State(t, t.root, a, NULL, "none", {})
             /\ \A k \in 0 .. MaxNode - 1 : at[k + 1] = Pass(at[k])
<1> DEFINE z == State(t, t.root, a, NULL, "none", {})
           P(at, n) == at = [k \in 0 .. n |-> IF k = 0 THEN z ELSE Pass(at[k - 1])]
           T == {n \in Nat : \E at : P(at, n)}
<1> HIDE DEF z
<1>1. 0 \in T
  <2> DEFINE f == [k \in 0 .. 0 |-> z]
  <2>1. P(f, 0)
    OBVIOUS
  <2> HIDE DEF f
  <2>2. \E at : P(at, 0)
    BY <2>1
  <2> QED
    BY <2>2
<1>2. ASSUME NEW n \in Nat, n \in T PROVE n + 1 \in T
  <2>1. PICK at : P(at, n)
    BY <1>2
  <2> DEFINE f == [k \in 0 .. n + 1 |-> IF k = n + 1 THEN Pass(at[n]) ELSE at[k]]
  <2>2. \A k \in 0 .. n : at[k] = IF k = 0 THEN z ELSE Pass(at[k - 1])
    BY <2>1
  <2>3. \A k \in 0 .. n + 1 : f[k] = IF k = 0 THEN z ELSE Pass(f[k - 1])
    BY <2>2
  <2>4. P(f, n + 1)
    BY <2>3
  <2> HIDE DEF f
  <2>5. \E to : P(to, n + 1)
    BY <2>4
  <2> QED
    BY <2>5
<1> HIDE DEF T
<1>3. Nat \subseteq T
  BY <1>1, <1>2, SetInduction
<1>4. \E f : P(f, MaxNode)
  BY <1>3, BpMapAssumption DEF T
<1>5. PICK at : P(at, MaxNode) /\ Passes(t, a) = at
  BY <1>4 DEF Passes, z, State
<1>6. \A k \in 0 .. MaxNode : at[k] = IF k = 0 THEN z ELSE Pass(at[k - 1])
  BY <1>5
<1>7. at[0] = z /\ \A k \in 0 .. MaxNode - 1 : at[k + 1] = Pass(at[k])
  BY <1>6, BpMapAssumption
<1> QED
  BY <1>5, <1>7 DEF z

\* The node that holds a has at most one child and is removed.
LEMMA PassRemoves ==
  ASSUME NEW t \in Tree, NEW r, NEW a, NEW up, NEW side, NEW calls, NEW v,
         v = End(t, r, a), Holds(t, v, a), \E s \in Sides : Get(t, v, s) = NULL
  PROVE  Pass(State(t, r, a, up, side, calls)) =
           State(Remove(t, r, a, up, side, calls), NULL, a, up, side, calls)
<1> DEFINE f == State(t, r, a, up, side, calls)
           Done(u) == [f EXCEPT !.tree = u, !.r = NULL]
<1>1. f.tree = t /\ f.r = r /\ f.a = a /\ f.up = up /\ f.side = side /\ f.calls = calls
  BY DEF State
<1>0. f \in [tree : {t}, r : {r}, a : {a}, up : {up}, side : {side}, calls : {calls}]
  BY DEF State
<1> HIDE DEF f
<1>2. ASSUME NEW u PROVE Done(u) = State(u, NULL, a, up, side, calls)
  <2> DEFINE d == Done(u)
  <2>1. d \in [tree : {u}, r : {NULL}, a : {a}, up : {up}, side : {side}, calls : {calls}]
    BY <1>0
  <2> HIDE DEF d
  <2>2. d = [tree |-> u, r |-> NULL, a |-> a, up |-> up, side |-> side, calls |-> calls]
    BY <2>1
  <2> QED
    BY <2>2 DEF d, State
<1>3. v # NULL
  BY LivePtr DEF Holds
<1>4. Get(t, v, "left") = NULL \/ Get(t, v, "right") = NULL
  BY DEF Sides
<1>5. Pass(f) = Done(Remove(t, r, a, up, side, calls))
  BY <1>1, <1>3, <1>4 DEF Pass
<1> QED
  BY <1>2, <1>5 DEF f

\* It has two, takes over the data of its successor, and that one is to be removed.
LEMMA PassCopies ==
  ASSUME NEW t \in Tree, NEW r, NEW a, NEW up, NEW side, NEW calls, NEW v, NEW w,
         v = End(t, r, a), Holds(t, v, a), \A s \in Sides : Get(t, v, s) # NULL,
         w = minValueNode(t, Get(t, v, "right")), w \in Live(t), Get(t, w, "left") = NULL
  PROVE  Pass(State(t, r, a, up, side, calls)) =
           State(Put(t, v, "data", Key(t, w)), Get(t, v, "right"), Key(t, w), v, "right",
                 calls \cup Met(t, r, a))
<1> DEFINE f == State(t, r, a, up, side, calls)
<1>1. f.tree = t /\ f.r = r /\ f.a = a /\ f.calls = calls
  BY DEF State
<1> HIDE DEF f
<1>2. v # NULL
  BY LivePtr DEF Holds
<1>3. Get(t, v, "left") # NULL /\ Get(t, v, "right") # NULL
  BY DEF Sides
<1>4. Pass(f) = [tree |-> Put(t, v, "data", Get(t, w, "data")), r |-> Get(t, v, "right"),
                 a |-> Get(t, w, "data"), up |-> v, side |-> "right", calls |-> calls \cup Met(t, r, a)]
  BY <1>1, <1>2, <1>3 DEF Pass
<1> QED
  BY <1>4 DEF f, State, Key

\* With nothing left to delete, a pass changes nothing.
LEMMA PassDone ==
  ASSUME NEW t \in Tree, NEW a, NEW up, NEW side, NEW calls
  PROVE  Pass(State(t, NULL, a, up, side, calls)) = State(t, NULL, a, up, side, calls)
<1> DEFINE f == State(t, NULL, a, up, side, calls)
           T == {k \in 0 .. MaxNode : Way(t, NULL, a)[k] = NULL}
<1>1. NULL \notin Live(t) /\ NULL \in Ptr
  BY LivePtr
<1>2. Toward(t, a)[NULL] = NULL
  BY <1>1 DEF Toward
<1>3. 0 \in T /\ \A k \in 0 .. MaxNode - 1 : k \in T => k + 1 \in T
  BY <1>2, WayFacts, BpMapAssumption
<1> HIDE DEF T
<1>4. \A k \in 0 .. MaxNode : k \in T
  BY <1>3, StepInduction
<1>5. End(t, NULL, a) = NULL
  BY <1>4, BpMapAssumption DEF T, End
<1>6. ~Holds(t, NULL, a)
  BY <1>1 DEF Holds
<1>7. f \in [tree : {t}, r : {NULL}, a : {a}, up : {up}, side : {side}, calls : {calls}]
  BY DEF State
<1> HIDE DEF f
<1>8. f.tree = t /\ f.r = NULL /\ f.a = a /\ [f EXCEPT !.tree = t, !.r = NULL] = f
  BY <1>7
<1>9. Pass(f) = f
  BY <1>5, <1>6, <1>8 DEF Pass
<1> QED
  BY <1>9 DEF f

\* A pass that removes is the last one.
LEMMA PassesEnd ==
  ASSUME NEW t, NEW a, NEW j \in 0 .. MaxNode, NEW u \in Tree, NEW b, NEW up, NEW side, NEW calls,
         Passes(t, a)[j] = State(u, NULL, b, up, side, calls)
  PROVE  deleteNode(t, a) = u
<1> DEFINE at == Passes(t, a)
           T == {k \in 0 .. MaxNode : k >= j => at[k] = at[j]}
<1>1. \A k \in 0 .. MaxNode - 1 : at[k + 1] = Pass(at[k])
  BY PassesExist
<1>2. Pass(at[j]) = at[j]
  BY PassDone
<1> HIDE DEF at
<1>3. 0 \in T
  BY BpMapAssumption
<1>4. ASSUME NEW k \in 0 .. MaxNode - 1, k \in T PROVE k + 1 \in T
  BY <1>1, <1>2, <1>4, BpMapAssumption
<1> HIDE DEF T
<1>5. \A k \in 0 .. MaxNode : k \in T
  BY <1>3, <1>4, StepInduction
<1>6. at[MaxNode] = State(u, NULL, b, up, side, calls)
  BY <1>5, BpMapAssumption DEF T, at
<1>7. at[MaxNode].tree = u /\ at[MaxNode].r = NULL
  BY <1>6 DEF State
<1> QED
  BY <1>7 DEF deleteNode, at

\* deleteNode takes the address out, and keeps the search tree one.
LEMMA DeleteKeeps ==
  ASSUME NEW t \in Tree, NEW D, Span(t, D), Sorted(t, D), NEW a \in Addr, a \in Keys(t)
  PROVE  LET u == deleteNode(t, a)
         IN  u \in Tree /\ Keys(u) = Keys(t) \ {a} /\ \E E : Span(u, E) /\ Sorted(u, E)
<1> DEFINE n == End(t, t.root, a)
           l == Get(t, n, "left")
           r == Get(t, n, "right")
           u == deleteNode(t, a)
           at == Passes(t, a)
<1>0. a \in Int /\ D[t.root] = Live(t) /\ t.root \in Live(t) \cup {NULL} /\ NULL \notin Live(t) /\ "left" \in Sides /\ "right" \in Sides
  BY BpMapAssumption, SpanFacts, LivePtr DEF Sides
<1>1. \A i \in Live(t) : Order(t, D, i)
  BY DEF Sorted
<1>2. n \in Live(t) /\ Key(t, n) = a
  <2>1. \A i \in Live(t) : Key(t, i) = a => i = n
    BY <1>0, <1>1, Search
  <2> QED
    BY <2>1 DEF Keys
<1>3. t.root \in Live(t)
  BY <1>0, <1>2, SpanFacts
<1>4. ~Astray(t, n, a) /\ Holds(t, n, a) /\ n # NULL
  BY <1>0, <1>2, HoldsKey DEF Astray
<1>5. Keys(t) \ {a} = KeysBut(t, n)
  BY <1>2, DistinctKeys DEF Keys, KeysBut
<1>6. l \in Live(t) \cup {NULL} /\ r \in Live(t) \cup {NULL}
  BY <1>0, <1>2, SpanAt
<1> HIDE DEF n
<1>7. \A i \in Live(t), e \in Sides : \A j \in D[Get(t, i, e)] : Before(e, Key(t, j), Key(t, i))
  BY <1>1 DEF Order
<1>8. /\ at[0] = State(t, t.root, a, NULL, "none", {})
      /\ \A k \in 0 .. MaxNode - 1 : at[k + 1] = Pass(at[k])
      /\ MaxNode \in Nat /\ 0 \in 0 .. MaxNode - 1 /\ at[1] = Pass(at[0]) /\ 1 \in 0 .. MaxNode
  <2>1. /\ at[0] = State(t, t.root, a, NULL, "none", {})
        /\ \A k \in 0 .. MaxNode - 1 : at[k + 1] = Pass(at[k])
    BY PassesExist
  <2>2. MaxNode \in Nat /\ n \in 1 .. MaxNode
    BY <1>2, BpMapAssumption, TreeFacts
  <2> HIDE DEF at
  <2>3. MaxNode \in Nat /\ 0 \in 0 .. MaxNode - 1 /\ 1 \in 0 .. MaxNode /\ 0 + 1 = 1
    BY <2>2
  <2> QED
    BY <2>1, <2>3
<1> HIDE DEF at, u
<1>9. CASE l = NULL \/ r = NULL
  <2> DEFINE none == {}
             nil == "none"
             z == Remove(t, t.root, a, NULL, nil, none)
  <2>0. none \cap D[t.root] = {}
    OBVIOUS
  <2>1. at[0] = State(t, t.root, a, NULL, nil, none)
    BY <1>8
  <2> HIDE DEF none, nil
  <2>2. SortedBut(t, D, n)
    BY <1>7 DEF SortedBut
  <2>3. \E s \in Sides : Get(t, n, s) = NULL
    BY <1>0, <1>9
  <2>4. z \in Tree /\ Keys(z) = KeysBut(t, n) /\ \E E : Span(z, E) /\ Sorted(z, E)
    <3>1. n \in D[t.root] /\ \A i \in D[t.root] : Order(t, D, i)
      BY <1>0, <1>1, <1>2
    <3> QED
      BY <1>0, <1>2, <1>3, <2>0, <2>2, <2>3, <3>1, RemoveKeeps
  <2>5. at[1] = State(z, NULL, a, NULL, nil, none)
    <3>1. at[1] = Pass(at[0]) /\ n = End(t, t.root, a) /\ Holds(t, n, a)
      BY <1>4, <1>8 DEF n
    <3>2. Pass(State(t, t.root, a, NULL, nil, none)) = State(z, NULL, a, NULL, nil, none)
      BY <2>3, <3>1, PassRemoves
    <3> QED
      BY <2>1, <3>1, <3>2
  <2> HIDE DEF z
  <2>6. u = z
    <3>1. 1 \in 0 .. MaxNode
      BY <1>8
    <3> QED
      BY <2>4, <2>5, <3>1, PassesEnd DEF at, u
  <2> QED
    BY <1>5, <2>4, <2>6 DEF u
<1>10. CASE l # NULL /\ r # NULL
  <2> DEFINE min == minValueNode(t, r)
             m == Key(t, min)
             w == Put(t, n, "data", m)
             calls == Met(t, t.root, a)
             z == Remove(w, r, m, n, "right", calls)
  <2>1. l \in Live(t) /\ r \in Live(t) /\ n \notin D[r] /\ D[r] \subseteq D[n] /\ D[r] \subseteq Live(t)
    BY <1>0, <1>2, <1>6, <1>10, SpanAt, SpanFacts
  <2>2. /\ min \in D[r] /\ Get(t, min, "left") = NULL
        /\ \A i \in D[r] : i # min => m < Key(t, i)
    <3>1. \A i \in D[r] : Order(t, D, i)
      BY <1>1, <2>1
    <3> QED
      BY <2>1, <3>1, Minimum
  <2>3. min \in Live(t) /\ m \in Addr /\ m \in Int /\ min # n
    BY <2>1, <2>2, KeyType
  <2>4. at[1] = State(w, r, m, n, "right", calls)
    <3>1. \A s \in Sides : Get(t, n, s) # NULL
      BY <1>10 DEF Sides
    <3>2. Pass(State(t, t.root, a, NULL, "none", {})) = State(w, r, m, n, "right", {} \cup calls)
      BY <1>4, <2>2, <2>3, <3>1, PassCopies DEF n
    <3>3. {} \cup calls = calls
      OBVIOUS
    <3>4. at[1] = Pass(State(t, t.root, a, NULL, "none", {}))
      BY <1>8
    <3> QED
      BY <3>2, <3>3, <3>4
  <2> HIDE DEF min, m, calls
  <2>5. /\ w \in Tree /\ Live(w) = Live(t) /\ w.root = t.root /\ Span(w, D)
        /\ \A i : Key(w, i) = IF i = n THEN m ELSE Key(t, i)
        /\ \A i : \A e \in Sides : Get(w, i, e) = Get(t, i, e)
    BY <1>2, <2>3, PutKey
  <2> HIDE DEF w
  <2>6. \A i \in D[r] : Order(w, D, i)
    <3> SUFFICES ASSUME NEW i \in D[r], NEW e \in Sides, NEW j \in D[Get(t, i, e)]
                 PROVE  Before(e, Key(w, j), Key(w, i))
      BY <2>5 DEF Order
    <3>1. i \in Live(t) /\ i # n
      BY <2>1
    <3>2. j # n
      <4>1. D[Get(t, i, e)] \subseteq D[i] /\ D[i] \subseteq D[r]
        BY <2>1, <3>1, SpanAt, Closed
      <4> QED
        BY <2>1, <4>1
    <3> QED
      BY <1>7, <2>5, <3>1, <3>2
  <2>7. SortedBut(w, D, min)
    <3> SUFFICES ASSUME NEW i \in Live(t) \ {min}, NEW e \in Sides, NEW j \in D[Get(t, i, e)] \ {min}
                 PROVE  Before(e, Key(w, j), Key(w, i))
      BY <2>5 DEF SortedBut
    <3>1. Before(e, Key(t, j), Key(t, i))
      BY <1>7
    <3>2. D[Get(t, i, e)] \subseteq Live(t) /\ Get(t, i, e) \in Live(t) \cup {NULL} /\ Get(t, i, e) # NULL
      <4>1. Get(t, i, e) \in Live(t) \cup {NULL}
        BY SpanAt
      <4> QED
        BY <4>1, SpanFacts
    <3>3. Key(t, i) \in Int /\ Key(t, j) \in Int /\ Key(t, n) \in Int
      BY <1>2, <3>2, KeyType
    <3>4. CASE i = n
      <4>1. j # n
        BY <1>2, <3>4, SpanAt
      <4>2. CASE e = "right"
        BY <2>2, <2>5, <3>4, <4>1, <4>2 DEF Before
      <4>3. CASE e = "left"
        <5>1. Key(t, j) < Key(t, n)
          BY <3>1, <3>4, <4>3 DEF Before
        <5>2. Key(t, n) < m
          BY <1>0, <1>2, <1>7, <2>2 DEF Before, m
        <5>3. Key(t, j) < m
          BY <2>3, <3>3, <5>1, <5>2
        <5> QED
          BY <2>5, <3>4, <4>1, <4>3, <5>3 DEF Before
      <4> QED
        BY <4>2, <4>3 DEF Sides
    <3>5. CASE j = n /\ i # n
      <4>1. D[n] \subseteq D[Get(t, i, e)]
        BY <3>2, <3>5, Closed
      <4>2. min \in D[Get(t, i, e)]
        BY <2>1, <2>2, <4>1
      <4>3. Before(e, m, Key(t, i))
        BY <1>7, <4>2 DEF m
      <4> QED
        BY <2>5, <3>5, <4>3
    <3>6. CASE i # n /\ j # n
      BY <2>5, <3>1, <3>6
    <3> QED
      BY <3>4, <3>5, <3>6
  <2>8. KeysBut(w, min) = KeysBut(t, n)
    <3>1. ASSUME NEW i \in Live(t) \ {min} PROVE Key(w, i) \in KeysBut(t, n)
      BY <2>3, <2>5 DEF KeysBut, m
    <3>2. ASSUME NEW i \in Live(t) \ {n} PROVE Key(t, i) \in KeysBut(w, min)
      <4>1. CASE i = min
        BY <1>2, <2>3, <2>5, <4>1 DEF KeysBut, m
      <4>2. CASE i # min
        BY <2>5, <3>2, <4>2 DEF KeysBut
      <4> QED
        BY <4>1, <4>2
    <3> QED
      BY <2>5, <3>1, <3>2 DEF KeysBut
  <2>9. Key(w, min) = m /\ Get(w, min, "left") = NULL /\ Get(w, n, "right") = r
    BY <1>0, <2>2, <2>3, <2>5 DEF m
  <2>10. calls \cap D[r] = {}
    <3>1. ASSUME NEW k \in 0 .. MaxNode, Way(t, t.root, a)[k] \in D[r] PROVE FALSE
      <4>1. n \in D[Way(t, t.root, a)[k]]
        BY <1>0, <1>1, <1>2, Search
      <4>2. D[Way(t, t.root, a)[k]] \subseteq D[r]
        BY <2>1, <3>1, Closed
      <4> QED
        BY <2>1, <4>1, <4>2
    <3> QED
      BY <3>1 DEF calls, Met
  <2>11. z \in Tree /\ Keys(z) = KeysBut(w, min) /\ \E E : Span(z, E) /\ Sorted(z, E)
    BY <1>0, <1>2, <2>1, <2>2, <2>3, <2>5, <2>6, <2>7, <2>9, <2>10, RemoveKeeps
  <2>12. 2 \in 0 .. MaxNode /\ at[2] = Pass(at[1])
    <3>1. n \in 1 .. MaxNode /\ min \in 1 .. MaxNode
      BY <1>2, <2>3, TreeFacts
    <3>2. MaxNode # 1
      BY <2>3, <3>1
    <3>3. MaxNode \in Nat /\ 1 \in 0 .. MaxNode
      BY <1>8
    <3>4. 1 \in 0 .. MaxNode - 1 /\ 2 \in 0 .. MaxNode /\ 1 + 1 = 2
      BY <3>2, <3>3
    <3> QED
      BY <1>8, <3>4
  <2>13. at[2] = State(z, NULL, m, n, "right", calls)
    <3>1. End(w, r, m) = min
      BY <2>1, <2>2, <2>3, <2>5, <2>6, <2>9, Search
    <3>2. Holds(w, min, m) /\ \E s \in Sides : Get(w, min, s) = NULL
      BY <1>0, <2>3, <2>5, <2>9, HoldsKey
    <3> QED
      BY <2>4, <2>5, <2>12, <3>1, <3>2, PassRemoves
  <2> HIDE DEF z
  <2>14. u = z
    BY <2>11, <2>12, <2>13, PassesEnd DEF at, u
  <2> QED
    BY <1>5, <2>8, <2>11, <2>14 DEF u
<1> QED
  BY <1>6, <1>9, <1>10

-----------------------------------------------------------------------------
(* The theorems. *)

\* The inductive invariant: the tree is a search tree, and before the first
\* deletion also a red-black tree with the right parent pointers.
SearchTree == tree \in Tree /\ \E D : Span(tree, D) /\ Sorted(tree, D)
RedBlackTree == \E D, h : Balanced(tree, D, h, NULL)
Inv == SearchTree /\ (~deleted => RedBlackTree) /\ deleted \in BOOLEAN

LEMMA BalancedSearchTree == RedBlackTree => SearchTree
BY DEF RedBlackTree, SearchTree, Balanced

\* findNode finds exactly the keys of the tree.
LEMMA FoundKeys == SearchTree => Found = Keys(tree)
<1> SUFFICES ASSUME SearchTree PROVE Found = Keys(tree)
  OBVIOUS
<1>1. \A a \in Addr : findNode(tree, a) <=> a \in Keys(tree)
  BY FindsKeys DEF SearchTree, Keys
<1>2. Keys(tree) \subseteq Addr
  BY KeyType DEF SearchTree, Keys
<1> QED
  BY <1>1, <1>2 DEF Found

LEMMA InitBalanced == tree = Empty => RedBlackTree /\ Keys(tree) = {}
<1> SUFFICES ASSUME tree = Empty PROVE RedBlackTree /\ Keys(tree) = {}
  OBVIOUS
<1>1. NULL \in Ptr
  BY BpMapAssumption DEF Ptr, NULL
<1>2. tree.root = NULL /\ tree.node = <<>> /\ tree.undef = FALSE
  BY DEF Empty
<1>3. Live(tree) = {}
  BY <1>2 DEF Live
<1>4. tree \in Tree
  <2>1. <<>> \in [{} -> Node]
    OBVIOUS
  <2>2. [root |-> NULL, node |-> <<>>, undef |-> FALSE] \in Tree
    BY <1>1, <2>1, MakeTree
  <2> QED
    BY <2>2 DEF Empty
<1> DEFINE D == [n \in Ptr |-> {}]
           h == [n \in Ptr |-> 0]
<1>5. Span(tree, D)
  BY <1>1, <1>2, <1>3 DEF Span
<1>6. Sorted(tree, D) /\ Parents(tree) /\ Heights(tree, h) /\ Reds(tree, NULL)
  BY <1>1, <1>2, <1>3 DEF Sorted, Parents, Heights, Reds
<1>7. Balanced(tree, D, h, NULL)
  BY <1>4, <1>5, <1>6 DEF Balanced
<1> QED
  BY <1>3, <1>7 DEF RedBlackTree, Keys

LEMMA InsertStep ==
  ASSUME Inv, ~deleted, NEW a \in Addr, Insert(a)
  PROVE  Inv' /\ Found' = Found \cup {a} /\ request' = <<"set", a>>
<1>1. RedBlackTree /\ SearchTree
  BY DEF Inv
<1>2. a \notin Keys(tree)
  BY <1>1, FindsKeys DEF Insert, SearchTree, Keys
<1>3. PICK D, h : Balanced(tree, D, h, NULL)
  BY <1>1 DEF RedBlackTree
<1>4. (\E E, i : Balanced(tree', E, i, NULL)) /\ Keys(tree') = Keys(tree) \cup {a}
  BY <1>2, <1>3, InsertKeeps DEF Insert
<1>5. RedBlackTree' /\ SearchTree'
  BY <1>4 DEF RedBlackTree, SearchTree, Balanced
<1>6. Found = Keys(tree) /\ Found' = Keys(tree')
  <2>1. Found = Keys(tree)
    BY <1>1, FoundKeys
  <2>2. \A b \in Addr : findNode(tree', b) <=> b \in Keys(tree')
    BY <1>5, FindsKeys DEF SearchTree, Keys
  <2>3. Keys(tree') \subseteq Addr
    BY <1>5, KeyType DEF SearchTree, Keys
  <2> QED
    BY <2>1, <2>2, <2>3 DEF Found
<1> QED
  BY <1>4, <1>5, <1>6 DEF Inv, Insert

LEMMA DeleteStep ==
  ASSUME Inv, NEW a \in Addr, Delete(a)
  PROVE  Inv' /\ Found' = Found \ {a} /\ request' = <<"del", a>>
<1>1. SearchTree
  BY DEF Inv
<1>2. a \in Keys(tree)
  BY <1>1, FindsKeys DEF Delete, SearchTree, Keys
<1>3. tree' \in Tree /\ Keys(tree') = Keys(tree) \ {a} /\ \E E : Span(tree', E) /\ Sorted(tree', E)
  BY <1>1, <1>2, DeleteKeeps DEF Delete, SearchTree
<1>4. SearchTree'
  BY <1>3 DEF SearchTree
<1>5. Found = Keys(tree) /\ Found' = Keys(tree')
  <2>1. Found = Keys(tree)
    BY <1>1, FoundKeys
  <2>2. \A b \in Addr : findNode(tree', b) <=> b \in Keys(tree')
    BY <1>3, FindsKeys DEF Keys
  <2>3. Keys(tree') \subseteq Addr
    BY <1>3, KeyType DEF Keys
  <2> QED
    BY <2>1, <2>2, <2>3 DEF Found
<1> QED
  BY <1>3, <1>4, <1>5 DEF Inv, Delete

LEMMA InitInv == Init => Inv /\ Found = {}
<1> SUFFICES ASSUME Init PROVE Inv /\ Found = {}
  OBVIOUS
<1>1. RedBlackTree /\ Keys(tree) = {}
  BY InitBalanced DEF Init
<1> QED
  BY <1>1, BalancedSearchTree, FoundKeys DEF Init, Inv

LEMMA NextInv == Inv /\ [PhasedNext]_vars => Inv'
<1>1. ASSUME Inv, UNCHANGED vars PROVE Inv'
  BY <1>1 DEF vars, Inv, SearchTree, RedBlackTree
<1> QED
  BY <1>1, InsertStep, DeleteStep DEF PhasedNext

LEMMA PhasedInv == PhasedSpec => []Inv
<1>1. Init => Inv
  BY InitInv
<1> QED
  BY <1>1, NextInv, PTL DEF PhasedSpec

LEMMA BalancedRedBlack == Inv => RedBlack
<1> SUFFICES ASSUME Inv, ~deleted
             PROVE  /\ ~tree.undef
                    /\ tree.root # NULL => /\ tree.node[tree.root].color = BLACK
                                           /\ tree.node[tree.root].parent = NULL
                    /\ \E b \in 0 .. MaxNode :
                         \A n \in Live(tree) :
                           NULL \in {tree.node[n].left, tree.node[n].right} => Blacks(tree, n) = b
                    /\ \A n \in Live(tree) : \A c \in {tree.node[n].left, tree.node[n].right} \ {NULL} :
                         /\ tree.node[c].parent = n
                         /\ tree.node[n].color = RED => tree.node[c].color = BLACK
  BY DEF RedBlack
<1>1. PICK D, h : Balanced(tree, D, h, NULL)
  BY DEF Inv, RedBlackTree
<1>2. tree \in Tree /\ Span(tree, D) /\ Parents(tree) /\ Heights(tree, h) /\ Reds(tree, NULL)
  BY <1>1 DEF Balanced
<1>3. /\ tree.undef = FALSE /\ NULL \notin Live(tree) /\ tree.root \in Live(tree) \cup {NULL}
      /\ MaxNode \in Nat
  BY <1>2, TreeFacts, SpanFacts, BpMapAssumption
<1>4. /\ \A n \in Live(tree) : tree.node[n].color = Get(tree, n, "color") /\ tree.node[n].parent = Get(tree, n, "parent")
      /\ \A n \in Live(tree) : tree.node[n].left = Get(tree, n, "left") /\ tree.node[n].right = Get(tree, n, "right")
  BY DEF Get
<1>5. \A n \in Live(tree) : tree.node[n].color = BLACK <=> ~IsRed(tree, n)
  BY <1>2, <1>4, ColorFacts DEF IsRed
<1>6. ASSUME tree.root # NULL
      PROVE  tree.node[tree.root].color = BLACK /\ tree.node[tree.root].parent = NULL
  BY <1>2, <1>3, <1>4, <1>5, <1>6 DEF Reds, Parents
<1>7. \E b \in 0 .. MaxNode : \A n \in Live(tree) :
        NULL \in {tree.node[n].left, tree.node[n].right} => Blacks(tree, n) = b
  <2> DEFINE S == {n \in Live(tree) : NULL \in {tree.node[n].left, tree.node[n].right}}
  <2>1. ASSUME NEW n \in S PROVE Blacks(tree, n) \in 0 .. MaxNode /\ Blacks(tree, n) = h[tree.root]
    <3>1. PICK e \in Sides : Get(tree, n, e) = NULL
      BY <1>4 DEF Sides
    <3>2. h[n] = 1
      BY <1>2, <3>1, NullBlack DEF Heights, Weight
    <3>3. /\ Blacks(tree, n) \in 0 .. MaxNode /\ h[tree.root] \in Nat
          /\ Blacks(tree, n) + h[n] = h[tree.root] + 1
      BY <1>1, BlacksCount
    <3> QED
      BY <1>3, <3>2, <3>3
  <2>2. CASE S = {}
    BY <1>3, <2>2
  <2>3. CASE S # {}
    BY <2>1, <2>3
  <2> QED
    BY <2>2, <2>3
<1>8. ASSUME NEW n \in Live(tree), NEW c \in {tree.node[n].left, tree.node[n].right} \ {NULL}
      PROVE  tree.node[c].parent = n /\ (tree.node[n].color = RED => tree.node[c].color = BLACK)
  <2>1. PICK e \in Sides : Get(tree, n, e) = c
    BY <1>4, <1>8 DEF Sides
  <2>2. c \in Live(tree)
    BY <1>2, <1>8, <2>1, SpanAt
  <2>3. Get(tree, c, "parent") = n
    BY <1>2, <1>8, <2>1 DEF Parents
  <2>4. ~(IsRed(tree, n) /\ IsRed(tree, c))
    BY <1>2, <1>8, <2>1 DEF Reds
  <2> QED
    BY <1>4, <1>5, <2>2, <2>3, <2>4, ColorFacts
<1> QED
  BY <1>3, <1>6, <1>7, <1>8

\* While breakpoints are only set, insertNode keeps a red-black tree whose parent
\* pointers are right: the root is black, a red node has black children, and all
\* ways down to a missing child have the same number of black nodes. Nothing is asked
\* of what happens once one has been deleted.
THEOREM RedBlackAlways == Spec => []RedBlack
<1> DEFINE Grown == deleted \in BOOLEAN /\ (~deleted => Inv)
<1>1. Init => Grown
  BY InitInv DEF Init
<1>2. Grown /\ [Next]_vars => Grown'
  <2> SUFFICES ASSUME Grown, [Next]_vars PROVE Grown'
    OBVIOUS
  <2>1. CASE UNCHANGED vars
    BY <2>1 DEF vars, Inv, SearchTree, RedBlackTree
  <2>2. ASSUME NEW a \in Addr, Insert(a) PROVE Grown'
    <3>1. CASE ~deleted
      BY <2>2, <3>1, InsertStep DEF Inv
    <3>2. CASE deleted
      BY <2>2, <3>2 DEF Insert
    <3> QED
      BY <3>1, <3>2
  <2>3. ASSUME NEW a \in Addr, Delete(a) PROVE Grown'
    BY <2>3 DEF Delete
  <2> QED
    BY <2>1, <2>2, <2>3 DEF Next
<1>3. Grown => RedBlack
  BY BalancedRedBlack DEF RedBlack
<1> QED
  BY <1>1, <1>2, <1>3, PTL DEF Spec

\* insertNode and deleteNode implement the set of breakpoints: the one adds the
\* address and the other removes it, and findNode finds exactly the members.
THEOREM MapImplementsSet == PhasedSpec => ImplementsBreakpoints
<1>1. Init => Dict!Init
  BY InitInv DEF Dict!Init, Init
<1>2. Inv /\ [PhasedNext]_vars => [Dict!Next]_<<Found, request>>
  <2> SUFFICES ASSUME Inv, [PhasedNext]_vars PROVE [Dict!Next]_<<Found, request>>
    OBVIOUS
  <2>1. ASSUME UNCHANGED vars PROVE UNCHANGED <<Found, request>>
    BY <2>1 DEF vars, Found
  <2>2. ASSUME NEW a \in Addr, ~deleted, Insert(a) PROVE Dict!Set(a)
    BY <2>2, InsertStep DEF Dict!Set
  <2>3. ASSUME NEW a \in Addr, Delete(a) PROVE Dict!Del(a)
    BY <2>3, DeleteStep DEF Dict!Del
  <2> QED
    BY <2>1, <2>2, <2>3 DEF PhasedNext, Dict!Next
<1> QED
  BY <1>1, <1>2, PhasedInv, PTL DEF PhasedSpec, ImplementsBreakpoints, Dict!Spec
=============================================================================
