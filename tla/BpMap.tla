------------------------------- MODULE BpMap -------------------------------
(***************************************************************************)
(* The breakpoint map of tools/map.c: a search tree of heap nodes with     *)
(* parent pointers and colours, rebalanced by insertNode but not by        *)
(* deleteNode.                                                             *)
(*                                                                         *)
(* A tree is its root pointer and the fields of its live nodes; NULL is 0. *)
(* A call that follows NULL or the address of a freed node, or that never  *)
(* ends, leaves the program undefined: the tree Undef.                     *)
(***************************************************************************)
EXTENDS Integers, FiniteSets

CONSTANTS Addr,     \* breakpoint addresses
          MaxNode   \* nodes malloc can hand out

\* malloc does not fail (createNode does not ask).
ASSUME BpMapAssumption ==
  Addr \subseteq Int /\ IsFiniteSet(Addr) /\ MaxNode \in Nat /\ Cardinality(Addr) <= MaxNode

NULL  == 0
Ptr   == 0 .. MaxNode
RED   == "red"
BLACK == "black"

VARIABLES tree,     \* *root and the heap
          request,  \* the debugger's last request
          deleted   \* some breakpoint has been deleted

vars == <<tree, request, deleted>>

Empty == [root |-> NULL, node |-> <<>>, undef |-> FALSE]
Undef == [Empty EXCEPT !.undef = TRUE]

Live(t) == DOMAIN t.node

\* n->f, and the tree after n->f = v.
Get(t, n, f)    == IF n \in Live(t) THEN t.node[n][f] ELSE NULL
Put(t, n, f, v) == IF n \in Live(t) THEN [t EXCEPT !.node[n][f] = v] ELSE Undef

-----------------------------------------------------------------------------
(* Search. *)

\* The nodes met on the way along the links `next' from node r; a way ends at a
\* node that is its own successor, unless it goes round a cycle.
Follow(next, r) == LET at[k \in 0 .. MaxNode] == IF k = 0 THEN r ELSE next[at[k - 1]] IN at

\* The side of n on which address a is looked for.
Side(t, n, a) == IF a < t.node[n].data THEN "left" ELSE "right"

\* The way to address a, and its end: the node that holds a, or NULL.
Toward(t, a) == [n \in Ptr |-> IF n \notin Live(t) \/ t.node[n].data = a
                               THEN n ELSE t.node[n][Side(t, n, a)]]
Way(t, r, a) == Follow(Toward(t, a), r)
End(t, r, a) == Way(t, r, a)[MaxNode]

Holds(t, n, a) == n \in Live(t) /\ t.node[n].data = a
Astray(t, n, a) == n # NULL /\ ~Holds(t, n, a)

\* The nodes whose link leads to n on the way from r to a.
Above(t, r, a, n) ==
  LET at == Way(t, r, a)
  IN  {at[k - 1] : k \in {j \in 1 .. MaxNode : at[j] = n /\ at[j - 1] # n}}
Holder(t, r, a, n) == CHOOSE m \in Above(t, r, a, n) : TRUE

\* findNode returns a node: the address is a breakpoint.
findNode(t, a) == Holds(t, End(t, t.root, a), a)

-----------------------------------------------------------------------------
(* Insertion. *)

Other(s) == IF s = "left" THEN "right" ELSE "left"

\* Mutant: the subtree that changes sides keeps its old parent.
rotate_parent(t, x, s) ==
  LET o  == Other(s)
      y  == Get(t, x, o)
      c  == Get(t, y, s)
      t1 == Put(t, x, o, c)
      t3 == Put(t1, y, "parent", Get(t1, x, "parent"))
      p  == Get(t3, x, "parent")
      t4 == IF p = NULL THEN [t3 EXCEPT !.root = y]
            ELSE IF x = Get(t3, p, "left") THEN Put(t3, p, "left", y)
                                           ELSE Put(t3, p, "right", y)
      t5 == Put(t4, y, s, x)
  IN  Put(t5, x, "parent", y)

\* rotateLeft and rotateRight: x goes down to side s, assignment by assignment.
rotate(t, x, s) ==
  LET o  == Other(s)
      y  == Get(t, x, o)
      c  == Get(t, y, s)
      t1 == Put(t, x, o, c)
      t2 == IF c # NULL THEN Put(t1, c, "parent", x) ELSE t1
      t3 == Put(t2, y, "parent", Get(t2, x, "parent"))
      p  == Get(t3, x, "parent")
      t4 == IF p = NULL THEN [t3 EXCEPT !.root = y]
            ELSE IF x = Get(t3, p, "left") THEN Put(t3, p, "left", y)
                                           ELSE Put(t3, p, "right", y)
      t5 == Put(t4, y, s, x)
  IN  Put(t5, x, "parent", y)

IsRed(t, n) == n \in Live(t) /\ Get(t, n, "color") = RED

\* The loop of fixViolation: its condition, whether that can be evaluated, and one
\* round.
Looping(t, pt) == pt # t.root /\ IsRed(t, pt) /\ IsRed(t, Get(t, pt, "parent"))

Lost(t, pt) ==
  pt # t.root /\ (IsRed(t, pt) \/ pt \notin Live(t)) /\ Get(t, pt, "parent") \notin Live(t)

Recolor(t, p, g, u) ==
  Put(Put(Put(t, g, "color", RED), p, "color", BLACK), u, "color", BLACK)

\* The outer rotation, after which parent and grandparent exchange their colours.
Raise(t, p, g, s) ==
  LET t1 == rotate(t, g, Other(s))
      c  == Get(t1, p, "color")
  IN  Put(Put(t1, p, "color", Get(t1, g, "color")), g, "color", c)

FixRound(t, pt) ==
  LET p == Get(t, pt, "parent")
      g == Get(t, p, "parent")
      s == IF p = Get(t, g, "left") THEN "left" ELSE "right"
      u == Get(t, g, Other(s))
      t1 == rotate(t, p, s)
      Known == g \in Live(t) /\ u \in Live(t) \cup {NULL}
  IN  CASE ~Known -> [tree |-> Undef, pt |-> pt]
        [] Known /\ IsRed(t, u) -> [tree |-> Recolor(t, p, g, u), pt |-> g]
        [] Known /\ ~IsRed(t, u) /\ pt = Get(t, p, Other(s)) ->
             [tree |-> Raise(t1, Get(t1, p, "parent"), g, s), pt |-> Get(t1, p, "parent")]
        [] OTHER -> [tree |-> Raise(t, p, g, s), pt |-> p]

FixStep(f) == CASE Looping(f.tree, f.pt) -> FixRound(f.tree, f.pt)
                [] Lost(f.tree, f.pt)    -> [f EXCEPT !.tree = Undef]
                [] OTHER                 -> f

Rounds(t, pt) ==
  LET at[k \in 0 .. MaxNode] == IF k = 0 THEN [tree |-> t, pt |-> pt] ELSE FixStep(at[k - 1])
  IN  at

fixViolation(t, pt) ==
  LET f == Rounds(t, pt)[MaxNode]
  IN  IF Looping(f.tree, f.pt) THEN Undef ELSE Put(f.tree, f.tree.root, "color", BLACK)

createNode(a) == [data |-> a, color |-> RED, left |-> NULL, right |-> NULL, parent |-> NULL]

\* insertBST rewrites the parent pointers on its way; an address that is already
\* there leaves the new node unlinked.
insertBST(t, pt, a) ==
  LET above(n) == Above(t, t.root, a, n)
      end  == End(t, t.root, a)
      last == Holder(t, t.root, a, NULL)
      t1   == [t EXCEPT !.node = [n \in Live(t) |->
                 IF above(n) # {} THEN [t.node[n] EXCEPT !.parent = Holder(t, t.root, a, n)]
                                  ELSE t.node[n]]]
  IN  CASE t.root = NULL -> [t EXCEPT !.root = pt]
        [] t.root # NULL /\ Astray(t, end, a) -> Undef
        [] t.root # NULL /\ Holds(t, end, a)  -> t1
        [] OTHER -> Put(Put(t1, last, Side(t, last, a), pt), pt, "parent", last)

\* malloc returns any free node; which one it is only names it.
NewNode(t, a) == LET free == (1 .. MaxNode) \ Live(t)
                 IN  IF a \in free THEN a ELSE CHOOSE n \in free : TRUE

Malloc(t, n, a) == [t EXCEPT !.node = [m \in Live(t) \cup {n} |->
                                         IF m = n THEN createNode(a) ELSE t.node[m]]]

insertNode(t, a) ==
  LET pt == NewNode(t, a) IN fixViolation(insertBST(Malloc(t, pt, a), pt, a), pt)

-----------------------------------------------------------------------------
(* Deletion. *)

Free(t, n) == [t EXCEPT !.node = [m \in Live(t) \ {n} |-> t.node[m]]]

\* The nodes on the way to address a: deleteNodeBST is called on each of them.
Met(t, r, a) == {Way(t, r, a)[k] : k \in 0 .. MaxNode}

\* Node v, reached from the pointer `side' of node `holder' (from *root if that
\* is NULL), goes: a leaf is freed, otherwise the only child is copied into it,
\* parent pointer included, and freed. The calls that come back write to their
\* nodes, so none of these may be the child.
Unlink(t, v, holder, side, calls) ==
  LET c == IF Get(t, v, "left") # NULL THEN Get(t, v, "left") ELSE Get(t, v, "right")
  IN  CASE c = NULL ->
             Free(IF holder = NULL THEN [t EXCEPT !.root = NULL] ELSE Put(t, holder, side, NULL), v)
        [] c \in calls \ {NULL} -> Undef
        [] OTHER -> Free([t EXCEPT !.node[v] = t.node[c]], c)

\* deleteNodeBST finds a in the subtree r that hangs from `side' of node `up', in a
\* node with at most one child.
Remove(t, r, a, up, side, calls) ==
  LET v == End(t, r, a)
      m == Holder(t, r, a, v)
  IN  IF v = r THEN Unlink(t, v, up, side, calls \cup Met(t, r, a))
               ELSE Unlink(t, v, m, Side(t, m, a), calls \cup Met(t, r, a))

minValueNode(t, r) ==
  Follow([n \in Ptr |-> IF Get(t, n, "left") = NULL THEN n ELSE t.node[n].left], r)[MaxNode]

\* Mutant: the in-order successor is copied up but not deleted.
deleteNode_keep(t, a) ==
  LET n == End(t, t.root, a)
      r == Get(t, n, "right")
  IN  IF ~Holds(t, n, a) THEN t
      ELSE IF Get(t, n, "left") = NULL \/ r = NULL THEN Remove(t, t.root, a, NULL, "none", {})
      ELSE Put(t, n, "data", t.node[minValueNode(t, r)].data)

\* deleteNodeBST down to the node that holds a: with two children this takes over
\* the data of its successor w, which is deleted from the right subtree. The
\* subtree r = NULL has nothing left to delete.
Pass(f) ==
  LET t == f.tree
      v == End(t, f.r, f.a)
      r == Get(t, v, "right")
      w == minValueNode(t, r)
      d == Get(t, w, "data")
      Two   == Get(t, v, "left") # NULL /\ r # NULL
      Hit   == Holds(t, v, f.a)
      Ends  == w \in Live(t) /\ Get(t, w, "left") = NULL
      Done(u) == [f EXCEPT !.tree = u, !.r = NULL]
  IN  CASE v = NULL     -> Done(t)
        [] Hit /\ ~Two -> Done(Remove(t, f.r, f.a, f.up, f.side, f.calls))
        [] Hit /\ Two /\ Ends ->
             [tree |-> Put(t, v, "data", d), r |-> r, a |-> d, up |-> v, side |-> "right",
              calls |-> f.calls \cup Met(t, f.r, f.a)]
        [] OTHER -> Done(Undef)

Passes(t, a) ==
  LET z == [tree |-> t, r |-> t.root, a |-> a, up |-> NULL, side |-> "none", calls |-> {}]
      at[k \in 0 .. MaxNode] == IF k = 0 THEN z ELSE Pass(at[k - 1])
  IN  at

deleteNode(t, a) ==
  LET f == Passes(t, a)[MaxNode] IN IF f.r = NULL THEN f.tree ELSE Undef

-----------------------------------------------------------------------------
Found == {a \in Addr : findNode(tree, a)}

Init == tree = Empty /\ request = <<>> /\ deleted = FALSE

\* srv_set_bp; the debugger sets a breakpoint once.
Insert(a) == /\ ~findNode(tree, a)
             /\ tree' = insertNode(tree, a)
             /\ request' = <<"set", a>>
             /\ UNCHANGED deleted

\* srv_del_bp, which looks the breakpoint up first.
Delete(a) == /\ findNode(tree, a)
             /\ tree' = deleteNode(tree, a)
             /\ request' = <<"del", a>>
             /\ deleted' = TRUE

Next == ~tree.undef /\ \E a \in Addr : Insert(a) \/ Delete(a)
Spec == Init /\ [][Next]_vars

\* Breakpoints are set, and then deleted for good.
PhasedNext == ~tree.undef /\ \E a \in Addr : (~deleted /\ Insert(a)) \/ Delete(a)
PhasedSpec == Init /\ [][PhasedNext]_vars

-----------------------------------------------------------------------------
\* The map is the set of breakpoints: insertNode adds the address and
\* deleteNode removes it, and neither makes findNode miss or invent another.
Dict == INSTANCE Breakpoints WITH bps <- Found
ImplementsBreakpoints == Dict!Spec

\* The black nodes on the way from the root down to n.
Blacks(t, n) ==
  Cardinality({m \in Met(t, t.root, t.node[n].data) : Get(t, m, "color") = BLACK})

\* While breakpoints are only set, the tree is a red-black tree whose parent
\* pointers are right, so that the next fixViolation finds its way (map.c).
RedBlack ==
  ~deleted =>
    /\ ~tree.undef
    /\ tree.root # NULL => /\ tree.node[tree.root].color = BLACK
                           /\ tree.node[tree.root].parent = NULL
    /\ \E b \in 0 .. MaxNode :
         \A n \in Live(tree) :
           NULL \in {tree.node[n].left, tree.node[n].right} => Blacks(tree, n) = b
    /\ \A n \in Live(tree) : \A c \in {tree.node[n].left, tree.node[n].right} \ {NULL} :
         /\ tree.node[c].parent = n
         /\ tree.node[n].color = RED => tree.node[c].color = BLACK
=============================================================================
