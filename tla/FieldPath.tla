------------------------------ MODULE FieldPath ------------------------------
(***************************************************************************)
(* haste_core::fieldpath: the paths of the fields that an entity delta     *)
(* names.  Each one is written as an operation on the path before it; the  *)
(* operation is a code of a huffman tree, which both sides build from the  *)
(* same weights.  A path is seven bytes and the index of the last one in   *)
(* use; the first path is counted from a component of -1.                  *)
(***************************************************************************)
EXTENDS Integers, Sequences, SequencesExt

\* FieldPath::default
NewFieldPath ==
  [data |-> [i \in 0..6 |-> IF i = 0 THEN 255 ELSE 0], last |-> 0, finished |-> FALSE]

\* Mutant of inc_at: the sum is not cut to a byte.
inc_at_wide(fp, i, v) == [fp EXCEPT !.data[i] = @ + v]

inc_at(fp, i, v) == [fp EXCEPT !.data[i] = (@ + v) % 256]

inc_last(fp, v) == inc_at(fp, fp.last, v)

push(fp, v) == [fp EXCEPT !.last = @ + 1, !.data[fp.last + 1] = v % 256]

\* Mutant of pop: one component too many for a pop to the root.
pop_past(fp, n) ==
  [fp EXCEPT !.last = @ - n,
             !.data = [i \in 0..6 |-> IF i >= fp.last - n /\ i > 0 /\ i <= fp.last THEN 0 ELSE @[i]]]

pop(fp, n) ==
  [fp EXCEPT !.last = @ - n,
             !.data = [i \in 0..6 |-> IF i > fp.last - n /\ i <= fp.last THEN 0 ELSE @[i]]]

\* The components of a path, as Entity::parse goes through them.
Components(fp) == [i \in 1..fp.last + 1 |-> fp.data[i - 1]]

------------------------------------------------------------------------------
(* The operations.                                                         *)

\* A number that an operation reads, in the range of what it is read with,
\* and what is added to it.
Source(min, max, add) == [min |-> min, max |-> max, add |-> add]
MaxInt        == 2147483647
Const(k)      == Source(0, 0, k)
ubit64(n, k)  == Source(0, 2 ^ n - 1, k)
ubitvar(k)    == Source(0, MaxInt, k)
varint32(k)   == Source(-MaxInt, MaxInt, k)

\* An operation pops, increments, then pushes: it pops no component, "one",
\* "all" but the first, or a number it reads; it increments the "last" one, the
\* "penultimate" one or "any"; `pushes` is how many it pushes, Many if it reads it.
Many == -1
Op(weight, pops, at, by, pushes, push_) ==
  [weight |-> weight, pops |-> pops, at |-> at, by |-> by, pushes |-> pushes, push |-> push_]

Plus(weight, by)                 == Op(weight, "none", "last", by, 0, Const(0))
Push(weight, by, pushes, push_)  == Op(weight, "none", "last", by, pushes, push_)
Pop(weight, pops, by)            == Op(weight, pops, "last", by, 0, Const(0))
NonTopo(weight, pops, by)        == Op(weight, pops, "any", by, 0, Const(0))

FIELDOP_DESCRIPTORS ==
  << Plus(36271, Const(1)), Plus(10334, Const(2)), Plus(1375, Const(3)), Plus(646, Const(4)),
     Plus(4128, ubitvar(5)),
     \* PushOne
     Push(35, Const(0), 1, Const(0)),             Push(3, Const(0), 1, ubitvar(0)),
     Push(521, Const(1), 1, Const(0)),            Push(2942, Const(1), 1, ubitvar(0)),
     Push(560, ubitvar(0), 1, Const(0)),          Push(471, ubitvar(2), 1, ubitvar(1)),
     Push(10530, ubit64(3, 2), 1, ubit64(3, 1)),  Push(251, ubit64(4, 2), 1, ubit64(4, 1)),
     \* PushTwo and PushThree, LeftDeltaZero, One and N, plain and packed
     Push(1, Const(0), 2, ubitvar(0)),            Push(1, Const(0), 2, ubit64(5, 0)),
     Push(1, Const(0), 3, ubitvar(0)),            Push(1, Const(0), 3, ubit64(5, 0)),
     Push(1, Const(1), 2, ubitvar(0)),            Push(1, Const(1), 2, ubit64(5, 0)),
     Push(1, Const(1), 3, ubitvar(0)),            Push(1, Const(1), 3, ubit64(5, 0)),
     Push(1, ubitvar(2), 2, ubitvar(0)),          Push(1, ubitvar(2), 2, ubit64(5, 0)),
     Push(1, ubitvar(2), 3, ubitvar(0)),          Push(1, ubitvar(2), 3, ubit64(5, 0)),
     \* PushN, with the last and with any component incremented
     Push(1, ubitvar(0), Many, ubitvar(0)),
     Op(310, "none", "any", varint32(1), Many, ubitvar(0)),
     Pop(2, "one", Const(1)),                     Pop(1, "one", ubitvar(1)),
     Pop(1837, "all", Const(1)),                  Pop(149, "all", ubitvar(1)),
     Pop(300, "all", ubit64(3, 1)),               Pop(634, "all", ubit64(6, 1)),
     Pop(1, "n", Const(1)),                       Pop(1, "n", varint32(0)),
     NonTopo(1, "n", varint32(0)),                NonTopo(76, "none", varint32(0)),
     Op(271, "none", "penultimate", Const(1), 0, Const(0)),
     NonTopo(99, "none", ubit64(4, -7)),
     Op(25474, "none", "finish", Const(0), 0, Const(0)) >>

FieldOps == DOMAIN FIELDOP_DESCRIPTORS
field_path_encode_finish == Len(FIELDOP_DESCRIPTORS)

inc_flagged(fp, c) == IF c.flag THEN inc_at(fp, c.at, c.by) ELSE fp

\* What an operation does with the numbers that follow it: how many to pop, what
\* to add where (`any` has the flagged components only), and what to push.
Popped(op, fp, args) ==
  pop(fp, CASE op.pops = "none" -> 0
            [] op.pops = "one"  -> 1
            [] op.pops = "all"  -> fp.last
            [] op.pops = "n"    -> args.pop)

Incremented(op, fp, args) ==
  CASE op.at = "last"        -> inc_last(fp, args.inc + op.by.add)
    [] op.at = "penultimate" -> inc_at(fp, fp.last - 1, 1)
    [] op.at = "any"         ->
         FoldLeft(inc_flagged, fp,
                  [k \in 1..fp.last + 1 |->
                     LET i == k - 1
                     IN IF i \in DOMAIN args.any
                        THEN [flag |-> TRUE, at |-> i, by |-> args.any[i] + op.by.add]
                        ELSE [flag |-> FALSE]])
    [] op.at = "finish"      -> [fp EXCEPT !.finished = TRUE]

Pushed(op, fp, args) == FoldLeft(push, fp, [k \in DOMAIN args.push |-> args.push[k] + op.push.add])

ApplyFieldOp(fp, n, args) ==
  LET op == FIELDOP_DESCRIPTORS[n]
  IN Pushed(op, Incremented(op, Popped(op, fp, args), args), args)

------------------------------------------------------------------------------
(* The huffman tree.  A node is its number: the operations come first, then *)
(* the branches in the order they are made.                                *)

\* Which of two nodes the binary heap pops first.
Before(weight, a, b) == weight[a] < weight[b] \/ (weight[a] = weight[b] /\ a > b)

\* The node that is popped, and the tree after one turn of the loop.
Smallest(heap, weight) == CHOOSE a \in heap : \A b \in heap \ {a} : Before(weight, a, b)

Join(t, n) ==
  LET left  == Smallest(t.heap, t.weight)
      right == Smallest(t.heap \ {left}, t.weight)
  IN [heap |-> (t.heap \ {left, right}) \cup {n},
      weight |-> Append(t.weight, t.weight[left] + t.weight[right]),
      children |-> Append(t.children, [left |-> left, right |-> right])]

\* What is left in the heap is the root; `leaves` tells leaves from branches.
Hierarchy(t, leaves) ==
  [leaves |-> leaves, children |-> t.children, root |-> CHOOSE n \in t.heap : TRUE]

build_fieldop_hierarchy ==
  LET leaves == Len(FIELDOP_DESCRIPTORS)
  IN Hierarchy(FoldLeft(Join,
                        [heap |-> FieldOps,
                         weight |-> [n \in FieldOps |-> FIELDOP_DESCRIPTORS[n].weight],
                         children |-> <<>>],
                        [k \in 1..leaves - 1 |-> leaves + k]),
               leaves)

Children(h, n) == h.children[n - h.leaves]

\* flatten_branch appends the branches below a branch, then the branch itself.
flatten_branch(h) ==
  LET order[n \in 1..h.leaves + Len(h.children)] ==
        IF n <= h.leaves THEN <<>>
        ELSE order[Children(h, n).left] \o order[Children(h, n).right] \o <<n>>
  IN order[h.root]

\* A branch below another one is named by its place in that order.
flatten_child(h, order, n) ==
  IF n <= h.leaves THEN [leaf |-> TRUE, at |-> n]
  ELSE [leaf |-> FALSE, at |-> SelectInSeq(order, LAMBDA m : m = n)]

FlatRoot(order) == Len(order)

FlatTree(h, order) ==
  [nodes |-> [k \in DOMAIN order |->
                [left |-> flatten_child(h, order, Children(h, order[k]).left),
                 right |-> flatten_child(h, order, Children(h, order[k]).right)]],
   root  |-> FlatRoot(order)]

FIELDOP_TREE == FlatTree(build_fieldop_hierarchy, flatten_branch(build_fieldop_hierarchy))

\* The loop of read_field_paths over the bits of one operation.
ReadFieldOp(bits) ==
  FoldLeft(LAMBDA child, bit :
             IF child.leaf THEN child
             ELSE LET node == FIELDOP_TREE.nodes[child.at]
                  IN IF bit THEN node.right ELSE node.left,
           [leaf |-> FALSE, at |-> FIELDOP_TREE.root], bits)
==============================================================================
