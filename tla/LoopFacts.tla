------------------------------- MODULE LoopFacts ------------------------------
(***************************************************************************)
(* A loop is a fold.  The loops of this project are FoldLefts of an        *)
(* operator, and a theorem cannot have the operator for a parameter that   *)
(* the provers then take a value for; a module can.  An instance of this   *)
(* one for each loop body says that the fold has a sequence of states, the *)
(* next of which is the body applied to the one before it.                 *)
(***************************************************************************)
EXTENDS Integers, TLAPS

LOCAL INSTANCE WellFoundedInduction

CONSTANT Body(_, _)

\* The last of a set of indexes.
Last(s) == CHOOSE x \in s : \A y \in s : x >= y

\* What is folded of the elements with an index in s, for every s: a FoldLeft by its
\* definition.
Iterates(iter, base, seq, D) ==
  iter = [s \in SUBSET D |->
            IF s = {} THEN base ELSE Body(iter[s \ {Last(s)}], seq[Last(s)])]

\* The loop over a sequence from a base.
Loop(base, seq) == (CHOOSE iter : Iterates(iter, base, seq, DOMAIN seq))[DOMAIN seq]

\* h[n] is what the loop has after n turns.
Turns(h, base, seq, n) ==
  /\ h[0] = base
  /\ \A i \in 1..n : h[i] = Body(h[i - 1], seq[i])

\* Induction over the numbers, of a set of them.
LEMMA NatSetInduction ==
  ASSUME NEW S, 0 \in S, \A n \in Nat : n \in S => n + 1 \in S
  PROVE  \A n \in Nat : n \in S
<1> DEFINE R == OpToRel(<, Nat)
           T == Nat \ S
<1> SUFFICES ASSUME T # {} PROVE FALSE  OBVIOUS
<1>1. IsWellFoundedOn(R, Nat)  BY NatLessThanWellFounded
<1> HIDE DEF R
<1>2. T \subseteq Nat  OBVIOUS
<1>3. PICK x \in T : \A y \in T : ~ (<<y, x>> \in R)
  <2> HIDE DEF T
  <2> QED  BY <1>1, <1>2, WFMin
<1>4. x \in Nat /\ x # 0  OBVIOUS
<1>5. x - 1 \in Nat /\ x - 1 + 1 = x /\ x - 1 < x  BY <1>4
<1>6. x - 1 \in T  BY <1>5
<1>7. <<x - 1, x>> \in R  BY <1>4, <1>5 DEF R, OpToRel
<1> QED  BY <1>3, <1>6, <1>7

\* The largest of a set of indexes that has the last one.
LEMMA MaxIs ==
  ASSUME NEW n \in Nat, NEW s \in SUBSET (1..n), n \in s
  PROVE  Last(s) = n
<1>1. n \in s /\ \A y \in s : n >= y  OBVIOUS
<1>2. \A x \in s : (\A y \in s : x >= y) => x = n  OBVIOUS
<1>3. Last(s) = CHOOSE x \in s : \A y \in s : x >= y  BY DEF Last
<1> QED  BY <1>1, <1>2, <1>3

\* The recursion of FoldLeft has a solution.
LEMMA IteratesExists ==
  ASSUME NEW base, NEW seq
  PROVE  \A n \in Nat : \E iter : Iterates(iter, base, seq, 1..n)
<1> DEFINE S == {n \in Nat : \E iter : Iterates(iter, base, seq, 1..n)}
<1>1. 0 \in S
  <2>1. 1..0 = {}  OBVIOUS
  <2>2. Iterates([s \in SUBSET {} |-> base], base, seq, {})  BY DEF Iterates
  <2> QED  BY <2>1, <2>2
<1>2. ASSUME NEW n \in Nat, n \in S PROVE n + 1 \in S
  <2>1. PICK f : Iterates(f, base, seq, 1..n)  BY <1>2
  <2> DEFINE m == n + 1
             g == [s \in SUBSET (1..m) |-> IF m \in s THEN Body(f[s \ {m}], seq[m]) ELSE f[s]]
  <2>2. m \in Nat /\ n \in Nat /\ m \notin 1..n /\ 1..n \subseteq 1..m /\ 1..m = (1..n) \cup {m}  OBVIOUS
  <2>3. ASSUME NEW s \in SUBSET (1..m)
        PROVE  g[s] = IF s = {} THEN base ELSE Body(g[s \ {Last(s)}], seq[Last(s)])
    <3>1. CASE m \in s
      <4>1. Last(s) = m  BY <2>2, <3>1, MaxIs
      <4>2. s \ {m} \in SUBSET (1..m) /\ m \notin s \ {m}  BY <2>2
      <4>3. g[s \ {m}] = f[s \ {m}]  BY <4>2
      <4> QED  BY <3>1, <4>1, <4>3
    <3>2. CASE m \notin s
      <4>1. s \in SUBSET (1..n)  BY <2>2, <3>2
      <4>2. f[s] = IF s = {} THEN base ELSE Body(f[s \ {Last(s)}], seq[Last(s)])  BY <2>1, <4>1 DEF Iterates
      <4>3. s \ {Last(s)} \in SUBSET (1..m) /\ m \notin s \ {Last(s)}  BY <3>2
      <4>4. g[s] = f[s] /\ g[s \ {Last(s)}] = f[s \ {Last(s)}]  BY <3>2, <4>3
      <4> QED  BY <4>2, <4>4
    <3> QED  BY <3>1, <3>2
  <2>4. Iterates(g, base, seq, 1..m)
    <3>1. g = [s \in SUBSET (1..m) |-> g[s]]  OBVIOUS
    <3> HIDE DEF g, m
    <3> QED  BY <2>3, <3>1 DEF Iterates
  <2> QED  BY <2>4
<1> HIDE DEF S
<1>3. \A n \in Nat : n \in S  BY <1>1, <1>2, NatSetInduction
<1> QED  BY <1>3 DEF S

\* A loop over a sequence takes its elements one after another.
THEOREM LoopTurns ==
  ASSUME NEW base, NEW seq, NEW n \in Nat, DOMAIN seq = 1..n
  PROVE  \E h : Turns(h, base, seq, n) /\ Loop(base, seq) = h[n]
<1> DEFINE iter == CHOOSE iter : Iterates(iter, base, seq, 1..n)
           h == [i \in 0..n |-> iter[1..i]]
<1>1. Iterates(iter, base, seq, 1..n)  BY IteratesExists
<1>2. Loop(base, seq) = iter[1..n]  BY DEF Loop
<1> HIDE DEF iter
<1>3. \A s \in SUBSET (1..n) :
        iter[s] = IF s = {} THEN base ELSE Body(iter[s \ {Last(s)}], seq[Last(s)])
  BY <1>1 DEF Iterates
<1>4. h[0] = base
  <2>1. 1..0 = {} /\ 0 \in 0..n  OBVIOUS
  <2> QED  BY <1>3, <2>1
<1>5. ASSUME NEW i \in 1..n PROVE h[i] = Body(h[i - 1], seq[i])
  <2> DEFINE s == 1..i
  <2>1. s \in SUBSET (1..n) /\ i \in s /\ s # {} /\ s \in SUBSET (1..i) /\ i \in Nat  OBVIOUS
  <2>2. Last(s) = i  BY <2>1, MaxIs
  <2>3. s \ {i} = 1..(i - 1)  OBVIOUS
  <2>4. iter[s] = Body(iter[s \ {i}], seq[i])  BY <1>3, <2>1, <2>2
  <2>5. i \in 0..n /\ i - 1 \in 0..n  OBVIOUS
  <2>6. h[i] = iter[s] /\ h[i - 1] = iter[1..(i - 1)]  BY <2>5
  <2> QED  BY <2>3, <2>4, <2>6
<1>6. h[n] = iter[1..n]  OBVIOUS
<1> QED  BY <1>2, <1>4, <1>5, <1>6 DEF Turns
\* A loop over nothing is its base.
THEOREM LoopEmpty ==
  ASSUME NEW base, NEW seq, DOMAIN seq = 1..0
  PROVE  Loop(base, seq) = base
<1>1. PICK h : Turns(h, base, seq, 0) /\ Loop(base, seq) = h[0]
  <2>1. 0 \in Nat  OBVIOUS
  <2> QED  BY <2>1, LoopTurns
<1> QED  BY <1>1 DEF Turns

\* A loop over one more element takes one more turn.
THEOREM LoopOneMore ==
  ASSUME NEW base, NEW n \in Nat, NEW head, DOMAIN head = 1..n,
         NEW seq, DOMAIN seq = 1..n + 1, \A i \in 1..n : seq[i] = head[i]
  PROVE  Loop(base, seq) = Body(Loop(base, head), seq[n + 1])
<1>1. PICK g : Turns(g, base, head, n) /\ Loop(base, head) = g[n]  BY LoopTurns
<1>2. PICK h : Turns(h, base, seq, n + 1) /\ Loop(base, seq) = h[n + 1]
  <2>1. n + 1 \in Nat  OBVIOUS
  <2> QED  BY <2>1, LoopTurns
<1> DEFINE S == {i \in Nat : i <= n => h[i] = g[i]}
<1>3. 0 \in S  BY <1>1, <1>2 DEF Turns
<1>4. ASSUME NEW i \in Nat, i \in S PROVE i + 1 \in S
  <2> SUFFICES ASSUME i + 1 <= n PROVE h[i + 1] = g[i + 1]  OBVIOUS
  <2>1. h[i] = g[i] /\ i + 1 \in 1..n /\ i + 1 \in 1..n + 1 /\ (i + 1) - 1 = i  BY <1>4
  <2>2. h[i + 1] = Body(h[i], seq[i + 1])  BY <1>2, <2>1 DEF Turns
  <2>3. g[i + 1] = Body(g[i], head[i + 1])  BY <1>1, <2>1 DEF Turns
  <2> QED  BY <2>1, <2>2, <2>3
<1> HIDE DEF S
<1>5. n \in S  BY <1>3, <1>4, NatSetInduction
<1>6. h[n] = g[n]  BY <1>5 DEF S
<1>7. n + 1 \in 1..n + 1 /\ (n + 1) - 1 = n  OBVIOUS
<1>8. h[n + 1] = Body(h[n], seq[n + 1])  BY <1>2, <1>7 DEF Turns
<1> QED  BY <1>1, <1>2, <1>6, <1>8
===============================================================================
