----------------------------- MODULE StateTree -----------------------------
(***************************************************************************)
(* The state commitment of store/smt.go: a sparse Merkle tree whose inner  *)
(* nodes are the common prefixes of their leaves.  The node table maps a   *)
(* key, a sequence of bits, to a node; a leaf has no children.             *)
(*                                                                         *)
(* A batch of operations is executed from left to right.  After each       *)
(* operation the hashes are recomputed upwards only as far as the next     *)
(* operation allows: the walk to it starts from the node that was reached, *)
(* which is then in memory only.  Whether the root that results is the one *)
(* of the contents is the property worth checking.                         *)
(*                                                                         *)
(* A hash is the tuple of what is hashed, so that no two inputs collide.   *)
(* A key's bytes, with the padding count that makes bit strings of any     *)
(* length distinct, are left as the bit string they stand for.             *)
(***************************************************************************)
EXTENDS Integers, Sequences, SequencesExt, FiniteSets

CONSTANT KeyBits    \* MaxKeyBitLength

ASSUME KeyBitsAssumption == KeyBits \in Nat /\ KeyBits > 1

MinKey == [i \in 1..KeyBits |-> 0]

MaxKey == [i \in 1..KeyBits |-> 1]

RootKey == [i \in 1..KeyBits |-> IF i = 1 THEN 0 ELSE 1]

\* The keys validateTarget refuses: no state key hashes to them.
ReservedKeys == {MinKey, MaxKey, RootKey}

NoChild == <<>>

Leaf(key, value) == [key |-> key, value |-> value, left |-> NoChild, right |-> NoChild]

HashOf(left, right) == <<left.key, left.value, right.key, right.value>>

Lcp(a, b) == LongestCommonPrefix({a, b})

\* key.cmp(k2) <= 0, where only the first bits of key, as many as k2 has, count.
AtMost(key, k2) == LET n == Len(Lcp(key, k2)) IN n = Len(k2) \/ key[n + 1] < k2[n + 1]

\* The root covers every key although its own key is a full one.
PrefixOf(node) == IF node.key = RootKey THEN <<>> ELSE node.key

WithHash(nodes, parent) == [parent EXCEPT !.value = HashOf(nodes[parent.left], nodes[parent.right])]

Put(nodes, node) == [k \in DOMAIN nodes \cup {node.key} |-> IF k = node.key THEN node ELSE nodes[k]]

\* initializeTree
EmptyTree ==
  LET ends == Put(Put(<<>>, Leaf(MinKey, <<"min">>)), Leaf(MaxKey, <<"max">>))
  IN  Put(ends, WithHash(ends, [key |-> RootKey, value |-> <<>>, left |-> MinKey, right |-> MaxKey]))

RootOf(nodes) == nodes[RootKey].value

----------------------------------------------------------------------------
(* Walking down.  At least one step is taken; the walk goes on while the     *)
(* node reached is a proper prefix of the target.                            *)

ChildTowards(node, key) == IF key[Len(Lcp(key, PrefixOf(node))) + 1] = 0 THEN node.left ELSE node.right

Traverse(nodes, start, key) ==
  LET walk[i \in 0..KeyBits] ==
        IF i = 0 THEN <<start>>
        ELSE LET w == walk[i - 1] IN
             IF i > 1 /\ ~IsStrictPrefix(Last(w).key, key) THEN w
             ELSE Append(w, nodes[ChildTowards(Last(w), key)])
  IN  walk[KeyBits]

Descend(st, key) ==
  LET w == Traverse(st.nodes, st.current, key)
  IN  [st EXCEPT !.traversed = @ \o Front(w), !.current = Last(w)]

----------------------------------------------------------------------------
(* One operation, after the walk                                             *)

ReplaceChild(node, old, new) ==
  IF node.left = old THEN [node EXCEPT !.left = new] ELSE [node EXCEPT !.right = new]

SetNode(st, op) ==
  LET gcp == Lcp(op.key, st.current.key)
      siblings == IF op.key[Len(gcp) + 1] = 0 THEN <<op.key, st.current.key>> ELSE <<st.current.key, op.key>>
      newParent == [key |-> gcp, value |-> <<>>, left |-> siblings[1], right |-> siblings[2]]
      oldParent == ReplaceChild(Last(st.traversed), st.current.key, gcp)
  IN  [st EXCEPT !.nodes = Put(@, Leaf(op.key, op.value)),
                 !.traversed = IF gcp = op.key THEN @ ELSE Front(@) \o <<oldParent, newParent>>]

DeleteNode(st, op) ==
  LET n == Len(st.traversed)
      parent == st.traversed[n]
      sibling == IF parent.left = op.key THEN parent.right ELSE parent.left
      grandparent == ReplaceChild(st.traversed[n - 1], parent.key, sibling)
  IN  IF st.current.key # op.key THEN st
      ELSE [st EXCEPT !.nodes = [k \in DOMAIN @ \ {parent.key, op.key} |-> @[k]],
                      !.traversed = Append(SubSeq(@, 1, n - 2), grandparent)]

\* Wrong: an operation on the other side of the tree postpones the hash too.
PostponeAlways(key, parent) == TRUE

\* Does the walk to the next operation start at this parent, or below its right child?
Postpone(key, parent) == AtMost(key, parent.right)

(* Hash upwards until the next operation lies at or left of a right child: its *)
(* walk starts there.                                                          *)
RehashStep(st, next) ==
  LET parent == Last(st.traversed)
      up == [st EXCEPT !.traversed = Front(@), !.current = parent]
      hashed == WithHash(st.nodes, parent)
  IN  IF st.stopped \/ st.traversed = <<>> THEN st
      ELSE IF next # <<>> /\ Postpone(next[1].key, parent) THEN [up EXCEPT !.stopped = TRUE]
      ELSE [up EXCEPT !.nodes = Put(@, hashed), !.current = hashed]

Rehash(st, next) == FoldLeft(LAMBDA s, n : RehashStep(s, next), st, st.traversed)

\* Commit: ops is a set of [key, value], with the value <<>> for a deletion.
SmtCommit(nodes, ops) ==
  LET sorted == [i \in 1..Cardinality(ops) |->
                   CHOOSE o \in ops : Cardinality({p \in ops : p # o /\ AtMost(p.key, o.key)}) = i - 1]
      Execute(st, i) ==
        LET op == sorted[i]
            at == Descend([st EXCEPT !.stopped = FALSE], op.key)
        IN  Rehash(IF op.value = <<>> THEN DeleteNode(at, op) ELSE SetNode(at, op),
                   SubSeq(sorted, i + 1, Len(sorted)))
      start == [nodes |-> nodes, traversed |-> <<>>, current |-> nodes[RootKey], stopped |-> FALSE]
  IN  FoldLeftDomain(Execute, start, sorted).nodes

----------------------------------------------------------------------------
(* Proofs: the leaf the walk ends in and the siblings up to the root           *)

GetMerkleProof(nodes, key) ==
  LET w == Traverse(nodes, nodes[RootKey], key)
      n == Len(w)
      sibling(i) == IF w[i].left = w[i + 1].key THEN [node |-> nodes[w[i].right], left |-> FALSE]
                                                ELSE [node |-> nodes[w[i].left], left |-> TRUE]
  IN  <<[node |-> w[n], left |-> FALSE]>> \o [i \in 1..(n - 1) |-> sibling(n - i)]

\* Wrong: any leaf of that key will do.
LeafHoldsAnything(leaf, value) == TRUE

LeafHolds(leaf, value) == leaf.value = value

(* The verifier rebuilds the path from the proof, compares the root, and walks *)
(* down its own tree to the key.                                               *)
VerifyProof(key, value, membership, root, proof) ==
  LET Up(acc, p) ==
        LET l == IF p.left THEN p.node ELSE acc.top
            r == IF p.left THEN acc.top ELSE p.node
            parent == [key |-> Lcp(l.key, r.key), value |-> HashOf(l, r), left |-> l.key, right |-> r.key]
        IN  [top |-> parent, nodes |-> Put(acc.nodes, parent)]
      leaf == Head(proof).node
      built == FoldLeft(Up, [top |-> leaf, nodes |-> Put(<<>>, leaf)], Tail(proof))
      exists == Last(Traverse(built.nodes, built.top, key)).key = key
  IN  /\ Len(proof) >= 2
      /\ built.top.value = root
      /\ exists = membership
      /\ membership => LeafHolds(leaf, value)
=============================================================================
