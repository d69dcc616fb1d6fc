-------------------------------- MODULE Splay --------------------------------
(***************************************************************************)
(* The splay tree of splay.cc.  A tree is <<>> or <<node>>; a node stores  *)
(* subtree_size, which the reuse distances are read from.                  *)
(*                                                                         *)
(* Keys are positive: key 0 marks the node on the stack of Splay at which  *)
(* the walks along the parent pointers end, so such a walk repairs the     *)
(* sizes of the whole chain it starts in.                                  *)
(***************************************************************************)
EXTENDS Integers, Sequences, FiniteSets

Size(t) == IF t = <<>> THEN 0 ELSE t[1].subtree_size

\* mutant: the right subtree is forgotten
Node_m(key, l, r) ==
    <<[key |-> key, subtree_size |-> 1 + Size(l), left |-> l, right |-> r]>>
\* A node whose size is computed from those of its children.
Node(key, l, r) ==
    <<[key |-> key, subtree_size |-> 1 + Size(l) + Size(r), left |-> l, right |-> r]>>

NewNode(key) == Node(key, <<>>, <<>>)

RightRotate(t) ==
    LET root == t[1]
        left == root.left[1]
    IN  Node(left.key, left.left, Node(root.key, left.right, root.right))

LeftRotate(t) ==
    LET root == t[1]
        right == root.right[1]
    IN  Node(right.key, Node(root.key, root.left, right.left), right.right)

\* Splay takes the tree apart top-down.  ltree is the chain of nodes smaller
\* than key, each with its left subtree, linked by right; rtree the chain of
\* larger ones, each with its right subtree, linked by left.
Link(chain, side, key, sub) == Append(chain, [side |-> side, key |-> key, sub |-> sub])
Joined(e, rest) ==
    IF e.side = "left" THEN Node(e.key, e.sub, rest) ELSE Node(e.key, rest, e.sub)
Chain(links, end) ==
    LET n == Len(links)
        from[k \in 0..n] == IF k = 0 THEN end ELSE Joined(links[n - k + 1], from[k - 1])
    IN  from[n]

Assemble(s) ==
    LET root == s.root[1]
    IN  Node(root.key, Chain(s.ltree, root.left), Chain(s.rtree, root.right))

\* Down to one side, from the root that the rotation left.
GoLeft(s, root) ==
    IF root.left = <<>> THEN [s EXCEPT !.root = <<root>>]
    ELSE [s EXCEPT !.root = root.left, !.rtree = Link(@, "right", root.key, root.right)]
GoRight(s, root) ==
    IF root.right = <<>> THEN [s EXCEPT !.root = <<root>>]
    ELSE [s EXCEPT !.root = root.right, !.ltree = Link(@, "left", root.key, root.left)]

\* One turn of the loop.  Where the code breaks, the next turn changes nothing.
Turn(key, s) ==
    LET root == s.root[1]
    IN  CASE key < root.key /\ root.left # <<>> ->
               GoLeft(s, IF key < root.left[1].key THEN RightRotate(s.root)[1] ELSE root)
          [] key > root.key /\ root.right # <<>> ->
               GoRight(s, IF key > root.right[1].key THEN LeftRotate(s.root)[1] ELSE root)
          [] OTHER -> s

\* The loop ends within as many turns as the tree has nodes.
SplayLoop(key, t) ==
    LET after[k \in 0..Size(t)] ==
            IF k = 0 THEN [root |-> t, ltree |-> <<>>, rtree |-> <<>>] ELSE Turn(key, after[k - 1])
    IN  after[Size(t)]

SplayTo(key, t) == IF t = <<>> THEN <<>> ELSE Assemble(SplayLoop(key, t))

\* Insert above the splayed root, whose size loses the subtree taken from it.
Above(key, root) ==
    CASE key < root.key ->
           <<[key |-> key, subtree_size |-> root.subtree_size + 1, left |-> root.left,
              right |-> <<[root EXCEPT !.left = <<>>,
                                       !.subtree_size = @ - Size(root.left)]>>]>>
      [] key > root.key ->
           <<[key |-> key, subtree_size |-> root.subtree_size + 1, right |-> root.right,
              left |-> <<[root EXCEPT !.right = <<>>,
                                      !.subtree_size = @ - Size(root.right)]>>]>>
      [] OTHER -> <<root>>

Insert(key, t) == IF t = <<>> THEN NewNode(key) ELSE Above(key, SplayTo(key, t)[1])

\* Unlink the splayed root: the largest node on its left takes its place.
Topped(top, right) == Node(top.key, top.left, right)
Unlinked(root) ==
    IF root.left = <<>> THEN root.right
    ELSE Topped(SplayTo(root.key, root.left)[1], root.right)

WithoutRoot(key, s) == IF s[1].key # key THEN s ELSE Unlinked(s[1])
Delete(key, t) == IF t = <<>> THEN <<>> ELSE WithoutRoot(key, SplayTo(key, t))

\* Delete and Insert in one; the node of previousKey, if there is one, is used
\* again for newKey.
Update(previousKey, newKey, t) == Insert(newKey, Delete(previousKey, t))

\* ComputeDistance: the number of keys above key, 0 if key is not in the tree.
AtRoot(key, s) == s # <<>> /\ s[1].key = key
SizeAbove(key, s) == IF AtRoot(key, s) THEN Size(s[1].right) ELSE 0
DistanceIn(key, t) == SizeAbove(key, SplayTo(key, t))

-----------------------------------------------------------------------------
(* What the tree stands for.                                               *)

Below(S, k) == {x \in S : x < k}
Over(S, k) == {x \in S : x > k}
\* The root of a tree for the keys S, and its two subtrees with theirs.
Rooted(t, S) ==
    IF t = <<>> THEN S = {} ELSE t[1].key \in S /\ t[1].subtree_size = Cardinality(S)
Halves(t, S) ==
    IF t = <<>> THEN {} ELSE {<<t[1].left, Below(S, t[1].key)>>, <<t[1].right, Over(S, t[1].key)>>}
Level(t, S, d) ==
    LET at[e \in 0..d] == IF e = 0 THEN {<<t, S>>} ELSE UNION {Halves(x[1], x[2]) : x \in at[e - 1]}
    IN  at[d]
\* t is a search tree with the keys S, every stored subtree_size right.
Holds(t, S) == \A d \in 0..Cardinality(S) : \A x \in Level(t, S, d) : Rooted(x[1], x[2])
=============================================================================
