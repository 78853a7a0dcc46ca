--------------------------- MODULE AsyncStreamsProofs --------------------------
(***************************************************************************)
(* Proofs about AsyncStreams: for every capacity of the channel, every set *)
(* of header and body sizes and every number of commands and of dropped    *)
(* futures, its type, that what the visitor gets is what was sent, that    *)
(* every byte is in one place, and where a run ends.                       *)
(*                                                                         *)
(* The argument is that of a place.  While a run goes on, the bytes in the *)
(* buffer behind its offset, then those in the channel, then those not yet *)
(* sent, are the recording from a place on (Continues), and the place is   *)
(* where the commands handled say it is (At).  A step that reads moves     *)
(* both by the same size; a step that moves bytes between the three moves  *)
(* none past another.                                                      *)
(***************************************************************************)
EXTENDS AsyncStreams, SequenceTheorems, WellFoundedInduction, TLAPS

------------------------------------------------------------------------------
(* Induction, without an operator for the formula that it is about: by a   *)
(* set of numbers.                                                         *)

\* A set with zero and, with each number, its successor has all numbers: otherwise
\* there is a least one that it has not.
LEMMA NatSetInduction ==
  ASSUME NEW S, 0 \in S, \A n \in Nat : n \in S => n + 1 \in S
  PROVE  \A n \in Nat : n \in S
<1> DEFINE R == OpToRel(<, Nat)
           T == Nat \ S
<1> SUFFICES ASSUME T # {} PROVE FALSE  OBVIOUS
<1>1. IsWellFoundedOn(R, Nat)  BY NatLessThanWellFounded
<1> HIDE DEF R
<1>2. T \subseteq Nat  OBVIOUS
<1>3. PICK x \in T : \A y \in T : ~ (<<y, x>> \in R)
  <2> HIDE DEF T
  <2> QED  BY <1>1, <1>2, WFMin
<1>4. x \in Nat /\ x # 0  OBVIOUS
<1>5. x - 1 \in Nat /\ x - 1 + 1 = x /\ x - 1 < x  BY <1>4
<1>6. x - 1 \in T  BY <1>5
<1>7. <<x - 1, x>> \in R  BY <1>4, <1>5 DEF R, OpToRel
<1> QED  BY <1>3, <1>6, <1>7

------------------------------------------------------------------------------
(* FlattenSeq.                                                             *)

\* The parts of FlattenSeq(s), by how many elements are in them.
Flattens(f, s, n) == f = [i \in 1..n |-> IF i = 1 THEN s[i] ELSE f[i - 1] \o s[i]]

\* The recursion of FlattenSeq has a solution of every length.
LEMMA FlattensExists ==
  ASSUME NEW s
  PROVE  \A n \in Nat : \E f : Flattens(f, s, n)
<1> DEFINE S == {n \in Nat : \E f : Flattens(f, s, n)}
<1>1. 0 \in S
  <2>1. Flattens([i \in 1..0 |-> 0], s, 0)  BY DEF Flattens
  <2> QED  BY <2>1
<1>2. ASSUME NEW n \in Nat, n \in S PROVE n + 1 \in S
  <2>1. PICK f : Flattens(f, s, n)  BY <1>2
  <2> DEFINE g == [i \in 1..n + 1 |-> IF i = 1 THEN s[i]
                                       ELSE IF i = n + 1 THEN f[n] \o s[i] ELSE f[i]]
  <2>2. ASSUME NEW i \in 1..n + 1 PROVE g[i] = IF i = 1 THEN s[i] ELSE g[i - 1] \o s[i]
    <3>1. CASE i = 1  BY <3>1
    <3>2. CASE i # 1
      <4>1. i \in 2..n + 1 /\ i - 1 \in 1..n /\ i - 1 \in 1..n + 1 /\ i - 1 # n + 1  BY <3>2
      <4>2. \A j \in 1..n : f[j] = IF j = 1 THEN s[j] ELSE f[j - 1] \o s[j]  BY <2>1 DEF Flattens
      <4>3. g[i - 1] = f[i - 1]  BY <4>1, <4>2
      <4>4. g[i] = IF i = n + 1 THEN f[n] \o s[i] ELSE f[i]  BY <3>2
      <4>5. i = n + 1 => i - 1 = n  BY <4>1
      <4>6. i # n + 1 => i \in 1..n  BY <4>1
      <4> QED  BY <3>2, <4>1, <4>2, <4>3, <4>4, <4>5, <4>6
    <3> QED  BY <3>1, <3>2
  <2>3. Flattens(g, s, n + 1)
    <3>1. DOMAIN g = 1..n + 1 /\ g = [i \in 1..n + 1 |-> g[i]]  OBVIOUS
    <3> HIDE DEF g
    <3> QED  BY <2>2, <3>1 DEF Flattens
  <2> QED  BY <2>3
<1> HIDE DEF S
<1>3. \A n \in Nat : n \in S  BY <1>1, <1>2, NatSetInduction
<1> QED  BY <1>3 DEF S

\* Its last part is the one before it and the last element.
LEMMA FlattensNext ==
  ASSUME NEW f, NEW s, NEW n \in Nat \ {0}, Flattens(f, s, n + 1)
  PROVE  f[n + 1] = f[n] \o s[n + 1]
<1> DEFINE m == n + 1
<1>1. m \in 1..m /\ m # 1 /\ m - 1 = n  OBVIOUS
<1>2. \A i \in 1..m : i # 1 => f[i] = f[i - 1] \o s[i]  BY DEF Flattens
<1> HIDE DEF m
<1>3. f[m] = f[m - 1] \o s[m]  BY <1>1, <1>2
<1>4. f[m] = f[n] \o s[m]  BY <1>1, <1>3
<1> QED  BY <1>4 DEF m

\* FlattenSeq is the last part of the solution that it chooses.
LEMMA FlattenParts ==
  ASSUME NEW s, Len(s) \in Nat, Len(s) # 0
  PROVE  \E f : Flattens(f, s, Len(s)) /\ FlattenSeq(s) = f[Len(s)]
<1> DEFINE f == CHOOSE f : Flattens(f, s, Len(s))
<1>1. \E g : Flattens(g, s, Len(s))  BY FlattensExists
<1>2. Flattens(f, s, Len(s))  BY <1>1
<1>3. FlattenSeq(s) = f[Len(s)]  BY DEF FlattenSeq, Flattens
<1> QED  BY <1>2, <1>3

\* What is flattened is a sequence of what the elements are sequences of.
LEMMA FlattenType ==
  ASSUME NEW B, NEW s \in Seq(Seq(B))
  PROVE  FlattenSeq(s) \in Seq(B)
<1>1. CASE s = <<>>
  BY <1>1, EmptySeq DEF FlattenSeq
<1>2. CASE s # <<>>
  <2>1. Len(s) \in Nat \ {0}  BY <1>2, EmptySeq
  <2>2. PICK f : Flattens(f, s, Len(s)) /\ FlattenSeq(s) = f[Len(s)]  BY <2>1, FlattenParts
  <2> DEFINE S == {n \in Nat : n \in 1..Len(s) => f[n] \in Seq(B)}
  <2>3. 0 \in S  OBVIOUS
  <2>4. ASSUME NEW n \in Nat, n \in S PROVE n + 1 \in S
    <3> SUFFICES ASSUME n + 1 \in 1..Len(s) PROVE f[n + 1] \in Seq(B)  OBVIOUS
    <3>1. f[n + 1] = IF n + 1 = 1 THEN s[n + 1] ELSE f[n] \o s[n + 1]
      <4>1. n + 1 - 1 = n  OBVIOUS
      <4>2. \A i \in 1..Len(s) : f[i] = IF i = 1 THEN s[i] ELSE f[i - 1] \o s[i]
        BY <2>2 DEF Flattens
      <4> HIDE DEF S
      <4> QED  BY <4>1, <4>2
    <3>2. s[n + 1] \in Seq(B)  BY ElementOfSeq
    <3>3. n + 1 # 1 => n \in 1..Len(s)  BY <2>1
    <3>4. n + 1 # 1 => f[n] \in Seq(B)  BY <2>4, <3>3
    <3> HIDE DEF S
    <3> QED  BY <3>1, <3>2, <3>4, ConcatProperties
  <2> HIDE DEF S
  <2>5. \A n \in Nat : n \in S  BY <2>3, <2>4, NatSetInduction
  <2> QED  BY <2>1, <2>2, <2>5 DEF S
<1> QED  BY <1>1, <1>2

\* To flatten one more element is to append what is in it.
LEMMA FlattenAppend ==
  ASSUME NEW B, NEW s \in Seq(Seq(B)), NEW x \in Seq(B)
  PROVE  FlattenSeq(Append(s, x)) = FlattenSeq(s) \o x
<1> DEFINE t == Append(s, x)
           N == Len(s)
<1>1. /\ t \in Seq(Seq(B)) /\ N \in Nat /\ Len(t) = N + 1 /\ N + 1 # 0
      /\ \A i \in 1..N : t[i] = s[i]
      /\ t[N + 1] = x
  BY AppendProperties, LenProperties
<1> HIDE DEF t
<1>2. PICK g : Flattens(g, t, N + 1) /\ FlattenSeq(t) = g[N + 1]
  BY SMTT(60), <1>1, FlattenParts
<1>3. \A i \in 1..N + 1 : g[i] = IF i = 1 THEN t[i] ELSE g[i - 1] \o t[i]
  BY <1>2 DEF Flattens
<1>4. CASE s = <<>>
  <2>1. N = 0  BY <1>4
  <2>2. g[1] = t[1]  BY <1>1, <1>3, <2>1
  <2>3. FlattenSeq(s) = <<>>  BY <1>4 DEF FlattenSeq
  <2>4. <<>> \o x = x  BY ConcatEmptySeq
  <2> QED  BY <1>1, <1>2, <2>1, <2>2, <2>3, <2>4 DEF t
<1>5. CASE s # <<>>
  <2>1. N \in Nat \ {0}  BY <1>1, <1>5, EmptySeq
  <2>2. PICK f : Flattens(f, s, N) /\ FlattenSeq(s) = f[N]  BY <2>1, FlattenParts
  <2>3. \A i \in 1..N : f[i] = IF i = 1 THEN s[i] ELSE f[i - 1] \o s[i]  BY <2>2 DEF Flattens
  <2> DEFINE S == {n \in Nat : n \in 1..N => f[n] = g[n]}
  <2>4. 0 \in S  OBVIOUS
  <2>5. ASSUME NEW n \in Nat, n \in S PROVE n + 1 \in S
    <3> SUFFICES ASSUME n + 1 \in 1..N PROVE f[n + 1] = g[n + 1]  OBVIOUS
    <3>1. n + 1 - 1 = n /\ n + 1 \in 1..N + 1 /\ (n + 1 # 1 => n \in 1..N)  BY <2>1
    <3>2. n + 1 # 1 => f[n] = g[n]  BY <2>5, <3>1
    <3>3. t[n + 1] = s[n + 1]  BY <1>1
    <3> HIDE DEF S
    <3>4. f[n + 1] = IF n + 1 = 1 THEN s[n + 1] ELSE f[n] \o s[n + 1]  BY <2>3, <3>1
    <3>5. g[n + 1] = IF n + 1 = 1 THEN t[n + 1] ELSE g[n] \o t[n + 1]  BY <1>3, <3>1
    <3> QED  BY <3>2, <3>3, <3>4, <3>5
  <2> HIDE DEF S
  <2>6. \A n \in Nat : n \in S  BY <2>4, <2>5, NatSetInduction
  <2>7. f[N] = g[N]  BY <2>1, <2>6 DEF S
  <2>8. g[N + 1] = g[N] \o t[N + 1]  BY <1>2, <2>1, FlattensNext
  <2> QED  BY <1>1, <1>2, <2>2, <2>7, <2>8 DEF t
<1> QED  BY <1>4, <1>5

\* Concatenation of bytes may be bracketed as one likes.
LEMMA Assoc == \A p, q, r \in Seq(Byte) : (p \o q) \o r = p \o (q \o r)
BY ConcatAssociative

\* To flatten a concatenation is to concatenate what is flattened.
LEMMA FlattenConcat ==
  ASSUME NEW s \in Seq(Seq(Byte)), NEW t \in Seq(Seq(Byte))
  PROVE  FlattenSeq(s \o t) = FlattenSeq(s) \o FlattenSeq(t)
<1> DEFINE S == {n \in Nat : \A u \in Seq(Seq(Byte)) :
                    Len(u) = n => FlattenSeq(s \o u) = FlattenSeq(s) \o FlattenSeq(u)}
<1>1. FlattenSeq(<<>>) = <<>>  BY DEF FlattenSeq
<1>2. 0 \in S
  <2> SUFFICES ASSUME NEW u \in Seq(Seq(Byte)), Len(u) = 0
               PROVE  FlattenSeq(s \o u) = FlattenSeq(s) \o FlattenSeq(u)
    OBVIOUS
  <2>1. u = <<>>  BY EmptySeq
  <2>2. s \o <<>> = s  BY ConcatEmptySeq
  <2>3. FlattenSeq(s) \o <<>> = FlattenSeq(s)  BY FlattenType, ConcatEmptySeq
  <2> QED  BY <1>1, <2>1, <2>2, <2>3
<1>3. ASSUME NEW n \in Nat, n \in S PROVE n + 1 \in S
  <2> SUFFICES ASSUME NEW u \in Seq(Seq(Byte)), Len(u) = n + 1
               PROVE  FlattenSeq(s \o u) = FlattenSeq(s) \o FlattenSeq(u)
    OBVIOUS
  <2>1. u # <<>>  BY EmptySeq
  <2>2. PICK v \in Seq(Seq(Byte)), x \in Seq(Byte) : u = Append(v, x)  BY <2>1, SequenceEmptyOrAppend
  <2>3. Len(v) = n  BY <2>2, AppendProperties, LenProperties
  <2>4. FlattenSeq(s \o v) = FlattenSeq(s) \o FlattenSeq(v)  BY <1>3, <2>3
  <2> HIDE DEF S
  <2>5. s \o v \in Seq(Seq(Byte))  BY ConcatProperties
  <2>6. s \o u = Append(s \o v, x)
    <3>1. u = v \o <<x>> /\ Append(s \o v, x) = (s \o v) \o <<x>>
      BY <2>2, <2>5, AppendIsConcat
    <3>2. <<x>> \in Seq(Seq(Byte))  OBVIOUS
    <3> QED  BY <3>1, <3>2, ConcatAssociative
  <2>7. FlattenSeq(s \o u) = FlattenSeq(s \o v) \o x  BY <2>5, <2>6, FlattenAppend
  <2>8. FlattenSeq(u) = FlattenSeq(v) \o x  BY <2>2, FlattenAppend
  <2>9. FlattenSeq(s) \in Seq(Byte) /\ FlattenSeq(v) \in Seq(Byte)  BY FlattenType
  <2>10. (FlattenSeq(s) \o FlattenSeq(v)) \o x = FlattenSeq(s) \o (FlattenSeq(v) \o x)
    BY <2>9, Assoc, Zenon
  <2> QED  BY <2>4, <2>7, <2>8, <2>10
<1> HIDE DEF S
<1>4. \A n \in Nat : n \in S  BY <1>2, <1>3, NatSetInduction
<1>5. Len(t) \in Nat  BY LenProperties
<1> QED  BY <1>4, <1>5 DEF S

\* One element first.
LEMMA FlattenHead ==
  ASSUME NEW s \in Seq(Seq(Byte)), NEW x \in Seq(Byte)
  PROVE  FlattenSeq(<<x>> \o s) = x \o FlattenSeq(s) /\ FlattenSeq(<<x>>) = x
<1>1. <<x>> \in Seq(Seq(Byte)) /\ <<>> \in Seq(Seq(Byte)) /\ Append(<<>>, x) = <<x>>
  OBVIOUS
<1>2. FlattenSeq(<<>>) = <<>>  BY DEF FlattenSeq
<1>3. FlattenSeq(Append(<<>>, x)) = FlattenSeq(<<>>) \o x  BY <1>1, FlattenAppend
<1>4. FlattenSeq(<<x>>) = x  BY <1>1, <1>2, <1>3, ConcatEmptySeq
<1>5. FlattenSeq(<<x>> \o s) = FlattenSeq(<<x>>) \o FlattenSeq(s)  BY <1>1, FlattenConcat
<1> QED  BY <1>4, <1>5

------------------------------------------------------------------------------
(* Reading from the front of what is left.                                 *)

\* A part of a sequence has elements of the sequence.
LEMMA SliceType ==
  ASSUME NEW B, NEW c \in Seq(B), NEW o \in Nat, NEW n \in Nat, o <= n, n <= Len(c)
  PROVE  SubSeq(c, o + 1, n) \in Seq(B) /\ Len(SubSeq(c, o + 1, n)) = n - o
<1> DEFINE x == SubSeq(c, o + 1, n)
<1>1. Len(c) \in Nat  BY LenProperties
<1>2. \A i \in 1..Len(c) : c[i] \in B  BY ElementOfSeq
<1>3. \A i \in o + 1..n : c[i] \in B  BY <1>1, <1>2
<1>4. o + 1 \in Int /\ n \in Int  OBVIOUS
<1>5. x \in Seq(B) /\ Len(x) = IF o + 1 <= n THEN n - (o + 1) + 1 ELSE 0
  BY <1>3, <1>4, SubSeqProperties
<1> HIDE DEF x
<1>6. Len(x) = n - o  BY <1>5
<1> QED  BY <1>5, <1>6 DEF x

\* The elements of c after o, up to n.
LEMMA Slice ==
  ASSUME NEW c \in Seq(Byte), NEW o \in Nat, NEW n \in Nat, o <= n, n <= Len(c)
  PROVE  /\ SubSeq(c, o + 1, n) \in Seq(Byte)
         /\ Len(SubSeq(c, o + 1, n)) = n - o
         /\ \A i \in 1..n - o : SubSeq(c, o + 1, n)[i] = c[o + i]
<1> DEFINE x == SubSeq(c, o + 1, n)
<1>1. Len(c) \in Nat  BY LenProperties
<1>2. \A i \in 1..Len(c) : c[i] \in Byte  BY ElementOfSeq
<1>3. \A i \in o + 1..n : c[i] \in Byte  BY <1>1, <1>2
<1>4. o + 1 \in Int /\ n \in Int  OBVIOUS
<1>5. /\ x \in Seq(Byte) /\ Len(x) = IF o + 1 <= n THEN n - (o + 1) + 1 ELSE 0
      /\ \A i \in 1..n - (o + 1) + 1 : x[i] = c[(o + 1) + i - 1]
  BY <1>3, <1>4, SubSeqProperties
<1> HIDE DEF x
<1>6. Len(x) = n - o  BY <1>5
<1>7. n - (o + 1) + 1 = n - o /\ \A i \in 1..n - o : (o + 1) + i - 1 = o + i  OBVIOUS
<1>8. \A i \in 1..n - o : x[i] = c[o + i]  BY <1>5, <1>7
<1> QED  BY <1>5, <1>6, <1>8 DEF x

\* Which elements a concatenation has.
LEMMA Joined ==
  ASSUME NEW x \in Seq(Byte), NEW y \in Seq(Byte)
  PROVE  /\ x \o y \in Seq(Byte) /\ Len(x) \in Nat /\ Len(y) \in Nat
         /\ Len(x \o y) = Len(x) + Len(y)
         /\ \A i \in 1..Len(x) : (x \o y)[i] = x[i]
         /\ \A i \in 1..Len(y) : (x \o y)[Len(x) + i] = y[i]
<1>1. Len(x) \in Nat /\ Len(y) \in Nat  BY LenProperties
<1>2. /\ x \o y \in Seq(Byte) /\ Len(x \o y) = Len(x) + Len(y)
      /\ \A i \in 1..Len(x) + Len(y) :
           (x \o y)[i] = IF i <= Len(x) THEN x[i] ELSE y[i - Len(x)]
  BY ConcatProperties
<1>3. \A i \in 1..Len(x) : i \in 1..Len(x) + Len(y) /\ i <= Len(x)  BY <1>1
<1>4. \A i \in 1..Len(y) : /\ Len(x) + i \in 1..Len(x) + Len(y)
                           /\ ~(Len(x) + i <= Len(x)) /\ Len(x) + i - Len(x) = i
  BY <1>1
<1>5. \A i \in 1..Len(x) : (x \o y)[i] = x[i]  BY <1>2, <1>3
<1>6. \A i \in 1..Len(y) : (x \o y)[Len(x) + i] = y[i]  BY <1>2, <1>4
<1> QED  BY <1>1, <1>2, <1>5, <1>6

\* A concatenation is the sequence with its elements.
LEMMA JoinedIs ==
  ASSUME NEW x \in Seq(Byte), NEW y \in Seq(Byte), NEW z \in Seq(Byte),
         Len(z) = Len(x) + Len(y),
         \A i \in 1..Len(x) : z[i] = x[i],
         \A i \in 1..Len(y) : z[Len(x) + i] = y[i]
  PROVE  x \o y = z
<1> DEFINE u == x \o y
<1>1. /\ u \in Seq(Byte) /\ Len(x) \in Nat /\ Len(y) \in Nat
      /\ Len(u) = Len(x) + Len(y)
      /\ \A i \in 1..Len(x) : u[i] = x[i]
      /\ \A i \in 1..Len(y) : u[Len(x) + i] = y[i]
  BY Joined
<1> HIDE DEF u
<1>2. ASSUME NEW i \in 1..Len(u) PROVE u[i] = z[i]
  <2>1. CASE i <= Len(x)
    <3>1. i \in 1..Len(x)  BY <1>1, <2>1
    <3> QED  BY <1>1, <3>1
  <2>2. CASE ~(i <= Len(x))
    <3>1. i - Len(x) \in 1..Len(y) /\ Len(x) + (i - Len(x)) = i  BY <1>1, <2>2
    <3>2. u[Len(x) + (i - Len(x))] = z[Len(x) + (i - Len(x))]  BY <1>1, <3>1
    <3> QED  BY <3>1, <3>2
  <2> QED  BY <2>1, <2>2
<1>3. u = z  BY <1>1, <1>2, SeqEqual
<1> QED  BY <1>3 DEF u

\* A buffer that is read up to o, and the bytes behind it, are what the whole has from
\* a place on.
Continues(buffer, o, behind, whole, place) ==
  /\ buffer \in Seq(Byte) /\ behind \in Seq(Byte) /\ whole \in Seq(Byte)
  /\ o \in 0..Len(buffer) /\ place \in 0..Len(whole)
  /\ SubSeq(buffer, o + 1, Len(buffer)) \o behind = SubSeq(whole, place + 1, Len(whole))

\* A part of a sequence.
Cut(s, from, to) == SubSeq(s, from + 1, to)

\* Then as many more bytes of the buffer are the next of the whole, and it goes on
\* from there.
LEMMA Taken ==
  ASSUME NEW c, NEW o, NEW y, NEW w, NEW a, Continues(c, o, y, w, a),
         NEW m \in o..Len(c), NEW n, n = a + (m - o)
  PROVE  /\ Continues(c, m, y, w, n)
         /\ Cut(c, o, m) = Cut(w, a, n)
<1> /\ c \in Seq(Byte) /\ y \in Seq(Byte) /\ w \in Seq(Byte)
    /\ o \in 0..Len(c) /\ a \in 0..Len(w)
    /\ SubSeq(c, o + 1, Len(c)) \o y = SubSeq(w, a + 1, Len(w))
  BY DEF Continues
<1> DEFINE k == m - o
<1>0. k \in Nat /\ o + k = m /\ a + k = n /\ o + k <= Len(c)  BY LenProperties
<1> HIDE DEF k
<1> DEFINE x  == SubSeq(c, o + 1, Len(c))
           z  == SubSeq(w, a + 1, Len(w))
           x2 == SubSeq(c, o + k + 1, Len(c))
           z2 == SubSeq(w, a + k + 1, Len(w))
           x1 == SubSeq(c, o + 1, o + k)
           z1 == SubSeq(w, a + 1, a + k)
<1>1. /\ Len(c) \in Nat /\ Len(w) \in Nat /\ Len(y) \in Nat
      /\ o \in Nat /\ a \in Nat /\ o <= Len(c) /\ a <= Len(w) /\ o + k \in Nat /\ a + k \in Nat
      /\ k \in Nat /\ o + k <= Len(c)
  BY <1>0, LenProperties
<1>2. /\ x \in Seq(Byte) /\ Len(x) = Len(c) - o
      /\ \A i \in 1..Len(c) - o : x[i] = c[o + i]
  BY <1>1, Slice
<1>3. /\ z \in Seq(Byte) /\ Len(z) = Len(w) - a
      /\ \A i \in 1..Len(w) - a : z[i] = w[a + i]
  BY <1>1, Slice
<1>4. /\ x2 \in Seq(Byte) /\ Len(x2) = Len(c) - (o + k)
      /\ \A i \in 1..Len(c) - (o + k) : x2[i] = c[o + k + i]
  BY <1>1, Slice
<1>5. x \o y = z  OBVIOUS
<1>6. /\ Len(x \o y) = Len(x) + Len(y)
      /\ \A i \in 1..Len(x) : (x \o y)[i] = x[i]
      /\ \A i \in 1..Len(y) : (x \o y)[Len(x) + i] = y[i]
  BY <1>2, Joined
<1>7. Len(z) = Len(x) + Len(y)  BY <1>5, <1>6
<1>8. \A i \in 1..Len(x) : z[i] = x[i]  BY <1>5, <1>6
<1>9. \A i \in 1..Len(y) : z[Len(x) + i] = y[i]  BY <1>5, <1>6
<1> HIDE DEF x, z, x2
<1>10. a + k <= Len(w) /\ Len(c) - o + Len(y) = Len(w) - a
  <2>1. Len(c) - o + Len(y) = Len(w) - a  BY <1>2, <1>3, <1>7
  <2>2. k <= Len(c) - o  BY <1>1
  <2> QED  BY <1>1, <2>1, <2>2
<1>11. \A j \in 1..Len(c) - o : c[o + j] = w[a + j]
  <2> TAKE j \in 1..Len(c) - o
  <2>1. j \in 1..Len(x) /\ j \in 1..Len(w) - a  BY <1>1, <1>2, <1>10
  <2> QED  BY <1>2, <1>3, <1>8, <2>1
<1>12. \A j \in 1..Len(y) : y[j] = w[a + (Len(c) - o + j)]
  <2> TAKE j \in 1..Len(y)
  <2>1. Len(c) - o + j \in 1..Len(w) - a  BY <1>1, <1>10
  <2>2. z[Len(c) - o + j] = w[a + (Len(c) - o + j)]  BY <1>3, <2>1
  <2>3. z[Len(c) - o + j] = y[j]  BY <1>2, <1>9
  <2> QED  BY <2>2, <2>3
<1>13. /\ z2 \in Seq(Byte) /\ Len(z2) = Len(w) - (a + k)
       /\ \A i \in 1..Len(w) - (a + k) : z2[i] = w[a + k + i]
  BY SMTT(60), <1>1, <1>10, Slice
<1> HIDE DEF z2
<1>14. x2 \o y = z2
  <2>1. Len(z2) = Len(x2) + Len(y)
    <3>1. Len(x2) = Len(c) - (o + k) /\ Len(z2) = Len(w) - (a + k)  BY <1>4, <1>13
    <3> QED  BY <1>1, <1>10, <3>1
  <2>2. ASSUME NEW i \in 1..Len(x2) PROVE z2[i] = x2[i]
    <3>1. /\ i \in 1..Len(w) - (a + k) /\ i \in 1..Len(c) - (o + k)
          /\ k + i \in 1..Len(c) - o /\ o + k + i = o + (k + i) /\ a + k + i = a + (k + i)
      BY <1>1, <1>4, <1>10
    <3>2. z2[i] = w[a + (k + i)]  BY <1>13, <3>1
    <3>3. x2[i] = c[o + (k + i)]  BY <1>4, <3>1
    <3> QED  BY <1>11, <3>1, <3>2, <3>3
  <2>3. ASSUME NEW i \in 1..Len(y) PROVE z2[Len(x2) + i] = y[i]
    <3>1. /\ Len(x2) + i \in 1..Len(w) - (a + k)
          /\ a + k + (Len(x2) + i) = a + (Len(c) - o + i)
      BY <1>1, <1>4, <1>10
    <3>2. z2[Len(x2) + i] = w[a + k + (Len(x2) + i)]  BY <1>13, <3>1
    <3> QED  BY <1>12, <3>1, <3>2
  <2> QED  BY <1>4, <1>13, <2>1, <2>2, <2>3, JoinedIs
<1>15. x1 = z1
  <2>1. /\ x1 \in Seq(Byte) /\ Len(x1) = o + k - o
        /\ \A i \in 1..o + k - o : x1[i] = c[o + i]
    BY <1>1, Slice
  <2>2. /\ z1 \in Seq(Byte) /\ Len(z1) = a + k - a
        /\ \A i \in 1..a + k - a : z1[i] = w[a + i]
    BY <1>1, <1>10, Slice
  <2> HIDE DEF x1, z1
  <2>3. o + k - o = k /\ a + k - a = k  BY <1>1
  <2>4. ASSUME NEW i \in 1..Len(x1) PROVE x1[i] = z1[i]
    <3>1. Len(x1) = k  BY <2>1, <2>3
    <3>2. i \in 1..k  BY <3>1
    <3>3. i \in 1..Len(c) - o  BY <1>1, <3>2
    <3> QED  BY <1>11, <2>1, <2>2, <2>3, <3>2, <3>3
  <2>5. Len(x1) = Len(z1)  BY <2>1, <2>2, <2>3
  <2> QED  BY <2>1, <2>2, <2>4, <2>5, SeqEqual
<1>16. o + k \in 0..Len(c) /\ a + k \in 0..Len(w)  BY <1>1, <1>10
<1>17. Continues(c, o + k, y, w, a + k)  BY <1>14, <1>16 DEF Continues, x2, z2
<1>18. Cut(c, o, m) = Cut(w, a, n)  BY <1>0, <1>15 DEF Cut
<1> QED  BY <1>0, <1>17, <1>18

\* The next byte.
LEMMA NextByte ==
  ASSUME NEW c, NEW o, NEW y, NEW w, NEW a, Continues(c, o, y, w, a), o < Len(c)
  PROVE  c[o + 1] = w[a + 1] /\ a + 1 <= Len(w)
<1>0. /\ c \in Seq(Byte) /\ w \in Seq(Byte) /\ o \in 0..Len(c) /\ a \in 0..Len(w)
  BY DEF Continues
<1> DEFINE m == o + 1
           n == a + 1
<1>1. /\ m \in o..Len(c) /\ n = a + (m - o) /\ Len(c) \in Nat /\ Len(w) \in Nat
      /\ m <= Len(c)
  BY <1>0, LenProperties
<1>2. Continues(c, m, y, w, n) /\ Cut(c, o, m) = Cut(w, a, n)
  <2> HIDE DEF m, n
  <2> QED  BY <1>1, Taken
<1>3. n <= Len(w) /\ o \in Nat /\ a \in Nat /\ m \in Nat /\ n \in Nat /\ o <= m /\ a <= n
  <2>1. n \in 0..Len(w)
    <3> HIDE DEF n, m
    <3> QED  BY <1>2 DEF Continues
  <2> QED  BY <1>0, <1>1, <2>1
<1>4. 1 \in 1..m - o /\ 1 \in 1..n - a  BY <1>0
<1> HIDE DEF m, n
<1>5. \A i \in 1..m - o : Cut(c, o, m)[i] = c[o + i]  BY <1>0, <1>1, <1>3, Slice DEF Cut
<1>6. \A i \in 1..n - a : Cut(w, a, n)[i] = w[a + i]  BY <1>0, <1>1, <1>3, Slice DEF Cut
<1>7. Cut(c, o, m)[1] = c[o + 1]  BY <1>4, <1>5
<1>8. Cut(w, a, n)[1] = w[a + 1]  BY <1>4, <1>6
<1>9. c[o + 1] = w[a + 1]  BY <1>2, <1>7, <1>8, Zenon
<1> QED  BY <1>3, <1>9 DEF n

\* When the buffer is read, the next byte is the first of those behind it.
LEMMA NextBehind ==
  ASSUME NEW c, NEW y, NEW w, NEW a, Continues(c, Len(c), y, w, a)
  PROVE  y = SubSeq(w, a + 1, Len(w))
<1>1. SubSeq(c, Len(c) + 1, Len(c)) \o y = SubSeq(w, a + 1, Len(w)) /\ y \in Seq(Byte)
  BY DEF Continues
<1>2. Len(c) \in Nat  BY LenProperties DEF Continues
<1>3. SubSeq(c, Len(c) + 1, Len(c)) = <<>>  BY <1>2, SubSeqEmpty
<1>4. <<>> \o y = y  BY <1>1, ConcatEmptySeq
<1> QED  BY <1>1, <1>3, <1>4

------------------------------------------------------------------------------
(* The recording, as bytes.                                                *)

\* Bytes of the recording that is sent.
RecByte == {b \in Byte : b.part # "file" => b.of \in 1..Len(recording)}

\* What the sender means to send of a command, and where the command begins in it.
WholeCommand(i) == Header(i) \o Body(i)
StartOfCommand(i) == Len(FileHeader) + Len(Commands(0, i - 1))

\* A recording is a sequence of at most MaxCommands sizes, of headers as its format has
\* them.
LEMMA RecordingFacts ==
  ASSUME recording \in Recordings
  PROVE  /\ Len(recording) \in Nat /\ Len(recording) <= MaxCommands
         /\ DOMAIN recording = 1..Len(recording)
         /\ \A i \in 1..Len(recording) :
              /\ recording[i].header \in Nat \ {0} /\ recording[i].body \in Nat
              /\ recording[i].header \in IF DemoFormat THEN VarintHeaders
                                                       ELSE {BROADCAST_CMD_HEADER_SIZE}
<1> DEFINE Command == [header : IF DemoFormat THEN VarintHeaders ELSE {BROADCAST_CMD_HEADER_SIZE},
                       body : BodySizes]
<1>1. PICK n \in 0..MaxCommands : recording \in [1..n -> Command]
  BY DEF Recordings, BoundedSeq, SeqOf
<1>2. /\ Len(recording) = n /\ n \in Nat /\ n <= MaxCommands
      /\ DOMAIN recording = 1..Len(recording)
  BY <1>1, PacketAssumption
<1>3. \A i \in 1..Len(recording) : recording[i] \in Command  BY <1>1, <1>2
<1>4. \A c \in Command : /\ c.header \in Nat \ {0} /\ c.body \in Nat
                         /\ c.header \in IF DemoFormat THEN VarintHeaders
                                                       ELSE {BROADCAST_CMD_HEADER_SIZE}
  BY PacketAssumption
<1> HIDE DEF Command
<1> QED  BY <1>2, <1>3, <1>4

\* A part has the size it is said to have, and its bytes are numbered.
LEMMA PartFacts ==
  ASSUME NEW i \in 0..MaxCommands, NEW part \in {"file", "header", "body"}, NEW size \in Nat
  PROVE  /\ Part(i, part, size) \in Seq(Byte) /\ Len(Part(i, part, size)) = size
         /\ \A k \in 1..size : Part(i, part, size)[k] = [of |-> i, part |-> part, at |-> k]
<1>1. \A k \in 1..size : [of |-> i, part |-> part, at |-> k] \in Byte  BY DEF Byte
<1>2. Part(i, part, size) \in [1..size -> Byte]  BY <1>1 DEF Part
<1>3. Part(i, part, size) \in Seq(Byte)  BY <1>2
<1>4. Len(Part(i, part, size)) = size  BY <1>2
<1> QED  BY <1>3, <1>4 DEF Part

\* A command is its header, whose first byte says so, and its body.
LEMMA CommandFacts ==
  ASSUME recording \in Recordings, NEW i \in 1..Len(recording)
  PROVE  /\ Header(i) \in Seq(Byte) /\ Len(Header(i)) = recording[i].header
         /\ Body(i) \in Seq(Byte) /\ Len(Body(i)) = recording[i].body
         /\ \A k \in 1..recording[i].header : Header(i)[k] = [of |-> i, part |-> "header", at |-> k]
         /\ \A k \in 1..recording[i].body : Body(i)[k] = [of |-> i, part |-> "body", at |-> k]
         /\ WholeCommand(i) \in Seq(Byte)
         /\ Len(WholeCommand(i)) = recording[i].header + recording[i].body
         /\ recording[i].header \in Nat \ {0} /\ recording[i].body \in Nat
<1>1. recording[i].header \in Nat \ {0} /\ recording[i].body \in Nat /\ i \in 0..MaxCommands
  BY RecordingFacts, PacketAssumption
<1>2. /\ Header(i) \in Seq(Byte) /\ Len(Header(i)) = recording[i].header
      /\ \A k \in 1..recording[i].header : Header(i)[k] = [of |-> i, part |-> "header", at |-> k]
  BY <1>1, PartFacts DEF Header
<1>3. /\ Body(i) \in Seq(Byte) /\ Len(Body(i)) = recording[i].body
      /\ \A k \in 1..recording[i].body : Body(i)[k] = [of |-> i, part |-> "body", at |-> k]
  BY <1>1, PartFacts DEF Body
<1>4. WholeCommand(i) \in Seq(Byte) /\ Len(WholeCommand(i)) = recording[i].header + recording[i].body
  BY <1>2, <1>3, Joined DEF WholeCommand
<1> QED  BY <1>1, <1>2, <1>3, <1>4

\* Only a demo file has a header of its own.
LEMMA FileHeaderFacts ==
  /\ FileHeader \in Seq(Byte)
  /\ Len(FileHeader) = IF DemoFormat THEN DEMO_HEADER_SIZE ELSE 0
<1>1. 0 \in 0..MaxCommands /\ DEMO_HEADER_SIZE \in Nat  BY PacketAssumption
<1>2. /\ Part(0, "file", DEMO_HEADER_SIZE) \in Seq(Byte)
      /\ Len(Part(0, "file", DEMO_HEADER_SIZE)) = DEMO_HEADER_SIZE
  BY <1>1, PartFacts
<1> QED  BY <1>2, EmptySeq DEF FileHeader

\* The commands between two as a sequence of sequences.
Pieces(from, to) == [k \in 1..(to - from) |-> WholeCommand(from + k)]

\* The commands between two are their pieces, flattened.
LEMMA PiecesFacts ==
  ASSUME recording \in Recordings,
         NEW from \in 0..Len(recording), NEW to \in from..Len(recording)
  PROVE  /\ Pieces(from, to) \in Seq(Seq(Byte)) /\ Len(Pieces(from, to)) = to - from
         /\ Commands(from, to) = FlattenSeq(Pieces(from, to))
         /\ Commands(from, to) \in Seq(Byte) /\ Len(Commands(from, to)) \in Nat
<1>1. Len(recording) \in Nat  BY RecordingFacts
<1>2. \A k \in 1..to - from : from + k \in 1..Len(recording)  BY <1>1
<1>3. \A k \in 1..to - from : WholeCommand(from + k) \in Seq(Byte)  BY <1>2, CommandFacts
<1>4. to - from \in Nat  BY <1>1
<1>5. Pieces(from, to) \in [1..to - from -> Seq(Byte)]  BY <1>3 DEF Pieces
<1> DEFINE B == Seq(Byte)
           n == to - from
<1>6. Pieces(from, to) \in Seq(B) /\ Len(Pieces(from, to)) = n
  <2> HIDE DEF B, n
  <2> QED  BY <1>4, <1>5 DEF B, n
<1>7. Commands(from, to) = FlattenSeq(Pieces(from, to))  BY DEF Commands, Pieces, WholeCommand
<1>8. Commands(from, to) \in Seq(Byte)  BY <1>6, <1>7, FlattenType
<1> QED  BY <1>6, <1>7, <1>8, LenProperties

\* One more command.
LEMMA NextCommand ==
  ASSUME recording \in Recordings, NEW i \in 1..Len(recording)
  PROVE  Commands(0, i) = Commands(0, i - 1) \o WholeCommand(i)
<1> DEFINE p == Pieces(0, i - 1)
           q == Pieces(0, i)
           x == WholeCommand(i)
<1>1. Len(recording) \in Nat  BY RecordingFacts
<1>2. i - 1 \in 0..Len(recording) /\ i \in 0..Len(recording) /\ 0 \in 0..Len(recording)
  BY <1>1
<1>3. i - 1 \in 0..Len(recording) /\ i \in 0..Len(recording) /\ i - 1 - 0 = i - 1 /\ i - 0 = i
  BY <1>1
<1>4. p \in Seq(Seq(Byte)) /\ Len(p) = i - 1 /\ Commands(0, i - 1) = FlattenSeq(p)
  BY <1>2, <1>3, PiecesFacts
<1>5. q \in Seq(Seq(Byte)) /\ Len(q) = i /\ Commands(0, i) = FlattenSeq(q)
  BY <1>2, <1>3, PiecesFacts
<1>6. x \in Seq(Byte)  BY CommandFacts
<1>7. \A k \in 1..i - 1 : p[k] = WholeCommand(k)  BY DEF Pieces
<1>8. \A k \in 1..i : q[k] = WholeCommand(k)  BY DEF Pieces
<1> HIDE DEF p, q
<1>9. q = Append(p, x)
  <2> DEFINE r == Append(p, x)
  <2>1. /\ r \in Seq(Seq(Byte)) /\ Len(r) = i - 1 + 1
        /\ \A k \in 1..i - 1 : r[k] = p[k]
        /\ r[i - 1 + 1] = x
    BY <1>4, <1>6, AppendProperties
  <2> HIDE DEF r
  <2>2. i - 1 + 1 = i  OBVIOUS
  <2>3. Len(r) = Len(q)  BY <1>5, <2>1, <2>2
  <2>4. ASSUME NEW k \in 1..Len(r) PROVE r[k] = q[k]
    <3>1. k \in 1..i  BY <2>1, <2>2
    <3>2. CASE k = i  BY <1>8, <2>1, <2>2, <3>1, <3>2
    <3>3. CASE k # i
      <4>1. k \in 1..i - 1  BY <3>1, <3>3
      <4> QED  BY <1>7, <1>8, <2>1, <3>1, <4>1
    <3> QED  BY <3>2, <3>3
  <2>5. r = q  BY <1>5, <2>1, <2>3, <2>4, SeqEqual
  <2> QED  BY <2>5 DEF r
<1>10. FlattenSeq(q) = FlattenSeq(p) \o x  BY <1>4, <1>6, <1>9, FlattenAppend
<1> QED  BY <1>4, <1>5, <1>10

\* The commands up to one, and those after it.
LEMMA CommandsSplit ==
  ASSUME recording \in Recordings, NEW i \in 0..Len(recording), NEW N \in i..Len(recording)
  PROVE  Commands(0, N) = Commands(0, i) \o Commands(i, N)
<1> DEFINE p == Pieces(0, i)
           q == Pieces(i, N)
           r == Pieces(0, N)
<1>1. N \in Nat  BY RecordingFacts
<1>2. /\ 0 \in 0..Len(recording) /\ i \in 0..Len(recording) /\ N \in i..Len(recording)
      /\ i \in 0..N /\ N \in 0..Len(recording) /\ i - 0 = i /\ N - 0 = N
  BY RecordingFacts
<1>3. p \in Seq(Seq(Byte)) /\ Len(p) = i /\ Commands(0, i) = FlattenSeq(p)
  BY <1>2, PiecesFacts
<1>4. q \in Seq(Seq(Byte)) /\ Len(q) = N - i /\ Commands(i, N) = FlattenSeq(q)
  BY <1>2, PiecesFacts
<1>5. r \in Seq(Seq(Byte)) /\ Len(r) = N /\ Commands(0, N) = FlattenSeq(r)
  BY <1>2, PiecesFacts
<1>6. \A k \in 1..i : p[k] = WholeCommand(k)  BY DEF Pieces
<1>7. \A k \in 1..N - i : q[k] = WholeCommand(i + k)  BY DEF Pieces
<1>8. \A k \in 1..N : r[k] = WholeCommand(k)  BY DEF Pieces
<1> HIDE DEF p, q, r
<1>9. p \o q = r
  <2> DEFINE u == p \o q
  <2>1. /\ u \in Seq(Seq(Byte)) /\ Len(u) = i + (N - i)
        /\ \A k \in 1..i + (N - i) : u[k] = IF k <= i THEN p[k] ELSE q[k - i]
    <3> DEFINE B == Seq(Byte)
    <3>1. p \in Seq(B) /\ q \in Seq(B)  BY <1>3, <1>4
    <3> HIDE DEF B
    <3>2. /\ u \in Seq(B) /\ Len(u) = Len(p) + Len(q)
          /\ \A k \in 1..Len(p) + Len(q) : u[k] = IF k <= Len(p) THEN p[k] ELSE q[k - Len(p)]
      BY <3>1, ConcatProperties
    <3> QED  BY <1>3, <1>4, <3>2 DEF B
  <2> HIDE DEF u
  <2>2. i + (N - i) = N  BY <1>1, <1>2
  <2>3. ASSUME NEW k \in 1..Len(u) PROVE u[k] = r[k]
    <3>1. k \in 1..N /\ r[k] = WholeCommand(k)  BY <1>8, <2>1, <2>2
    <3>2. CASE k <= i
      <4>1. k \in 1..i  BY <3>1, <3>2
      <4> QED  BY <1>6, <2>1, <2>2, <3>1, <3>2, <4>1
    <3>3. CASE ~(k <= i)
      <4>1. k - i \in 1..N - i /\ i + (k - i) = k  BY <1>1, <1>2, <3>1, <3>3
      <4>2. q[k - i] = WholeCommand(i + (k - i))  BY <1>7, <4>1
      <4> QED  BY <2>1, <2>2, <3>1, <3>3, <4>1, <4>2
    <3> QED  BY <3>2, <3>3
  <2>4. Len(u) = Len(r)  BY <1>5, <2>1, <2>2
  <2>5. u = r  BY <1>5, <2>1, <2>3, <2>4, SeqEqual
  <2> QED  BY <2>5 DEF u
<1>10. FlattenSeq(p \o q) = FlattenSeq(p) \o FlattenSeq(q)  BY <1>3, <1>4, FlattenConcat
<1> QED  BY <1>3, <1>4, <1>5, <1>9, <1>10

\* There are no bytes before the first command.
LEMMA NoCommands ==
  ASSUME recording \in Recordings
  PROVE  Commands(0, 0) = <<>>
<1>1. Len(recording) \in Nat  BY RecordingFacts
<1>2. 0 \in 0..Len(recording) /\ 0 \in 0..0 /\ 0 - 0 = 0  BY <1>1
<1>3. Len(Pieces(0, 0)) = 0 /\ Commands(0, 0) = FlattenSeq(Pieces(0, 0))
      /\ Pieces(0, 0) \in Seq(Seq(Byte))
  BY <1>1, <1>2, PiecesFacts
<1>4. Pieces(0, 0) = <<>>  BY <1>3, EmptySeq
<1> QED  BY <1>3, <1>4, EmptySeq DEF FlattenSeq

\* The file header, and then the commands, one after the other.
LEMMA ArrivedFacts ==
  ASSUME recording \in Recordings
  PROVE  /\ Arrived \in Seq(Byte) /\ Len(Arrived) \in Nat
         /\ StartOfCommand(1) = Len(FileHeader) /\ Len(FileHeader) \in Nat
         /\ Len(FileHeader) <= Len(Arrived)
         /\ SubSeq(Arrived, 1, Len(FileHeader)) = FileHeader
         /\ StartOfCommand(Len(recording) + 1) = Len(Arrived)
<1> DEFINE N == Len(recording)
           f == FileHeader
           c == Commands(0, N)
           w == f \o c
<1>1. N \in Nat  BY RecordingFacts
<1>2. 0 \in 0..N /\ N \in 0..N /\ 0 \in 0..0 /\ N - 0 = N /\ N + 1 - 1 = N /\ 1 - 1 = 0
  BY <1>1
<1>3. c \in Seq(Byte) /\ Len(c) \in Nat  BY <1>2, PiecesFacts
<1>4. Len(Commands(0, 0)) = 0  BY NoCommands, EmptySeq
<1>5. f \in Seq(Byte)  BY FileHeaderFacts
<1>6. /\ w \in Seq(Byte) /\ Len(f) \in Nat /\ Len(w) = Len(f) + Len(c)
      /\ \A i \in 1..Len(f) : w[i] = f[i]
  BY <1>3, <1>5, Joined
<1>7. Arrived = w  BY DEF Arrived
<1>8. StartOfCommand(1) = Len(f)  BY <1>2, <1>4, <1>6 DEF StartOfCommand
<1>9. StartOfCommand(N + 1) = Len(f) + Len(c)  BY <1>2 DEF StartOfCommand
<1> HIDE DEF f, c, w
<1>10. SubSeq(w, 1, Len(f)) = f
  <2> DEFINE x == SubSeq(w, 0 + 1, Len(f))
  <2>1. 0 \in Nat /\ 0 <= Len(f) /\ Len(f) <= Len(w) /\ Len(f) - 0 = Len(f)  BY <1>3, <1>6
  <2>2. /\ x \in Seq(Byte) /\ Len(x) = Len(f)
        /\ \A i \in 1..Len(f) : x[i] = w[0 + i]
    BY <1>6, <2>1, Slice
  <2>3. \A i \in 1..Len(f) : 0 + i = i  OBVIOUS
  <2>4. 0 + 1 = 1  OBVIOUS
  <2>5. x = SubSeq(w, 1, Len(f))  BY <2>4
  <2> HIDE DEF x
  <2>6. \A i \in 1..Len(x) : x[i] = f[i]  BY <1>6, <2>2, <2>3
  <2>7. x = f  BY <1>5, <2>2, <2>6, SeqEqual
  <2> QED  BY <2>5, <2>7
<1>11. Len(f) <= Len(w)  BY <1>3, <1>6
<1> QED  BY <1>3, <1>6, <1>7, <1>8, <1>9, <1>10, <1>11 DEF f

\* Where a command is, what its bytes are there, and that it ends where the next one
\* begins.
LEMMA Layout ==
  ASSUME recording \in Recordings, NEW i \in 1..Len(recording)
  PROVE  LET s == StartOfCommand(i)
             h == recording[i].header
             b == recording[i].body
         IN /\ s \in Nat /\ h \in Nat \ {0} /\ b \in Nat
            /\ s + h + b <= Len(Arrived) /\ StartOfCommand(i + 1) = s + h + b
            /\ \A k \in 1..h : Arrived[s + k] = [of |-> i, part |-> "header", at |-> k]
            /\ \A k \in 1..b : Arrived[s + h + k] = [of |-> i, part |-> "body", at |-> k]
            /\ SubSeq(Arrived, s + 1, s + h) = Header(i)
            /\ SubSeq(Arrived, s + h + 1, s + h + b) = Body(i)
<1> DEFINE N == Len(recording)
           f == FileHeader
           d == Header(i)
           e == Body(i)
           x == WholeCommand(i)
           p == Commands(0, i - 1)
           q == Commands(0, i)
           t == Commands(i, N)
           c == Commands(0, N)
           w == Arrived
           s == StartOfCommand(i)
           h == recording[i].header
           b == recording[i].body
<1>1. N \in Nat  BY RecordingFacts
<1>2. /\ i \in 0..N /\ i - 1 \in 0..N /\ 0 \in 0..N /\ i \in 0..N /\ N \in i..N /\ N \in 0..N
      /\ i - 1 \in 0..N /\ i + 1 - 1 = i
  BY <1>1
<1>3. /\ d \in Seq(Byte) /\ Len(d) = h /\ e \in Seq(Byte) /\ Len(e) = b
      /\ \A k \in 1..h : d[k] = [of |-> i, part |-> "header", at |-> k]
      /\ \A k \in 1..b : e[k] = [of |-> i, part |-> "body", at |-> k]
      /\ x \in Seq(Byte) /\ Len(x) = h + b /\ h \in Nat \ {0} /\ b \in Nat
  BY CommandFacts
<1>4. p \in Seq(Byte) /\ q \in Seq(Byte) /\ t \in Seq(Byte) /\ c \in Seq(Byte) /\ f \in Seq(Byte)
  BY <1>2, PiecesFacts, FileHeaderFacts
<1>5. q = p \o x  BY NextCommand
<1>6. c = q \o t  BY <1>2, CommandsSplit
<1>7. w = f \o c  BY DEF Arrived
<1>8. x = d \o e  BY DEF WholeCommand
<1>9. s = Len(f) + Len(p) /\ StartOfCommand(i + 1) = Len(f) + Len(q)
  BY <1>2 DEF StartOfCommand
<1>10. w \in Seq(Byte) /\ Len(w) \in Nat  BY ArrivedFacts
<1> HIDE DEF N, f, d, e, x, p, q, t, c, w, s, h, b
<1>11. /\ Len(q) = Len(p) + Len(x) /\ Len(p) \in Nat /\ Len(x) \in Nat
       /\ \A k \in 1..Len(x) : q[Len(p) + k] = x[k]
  <2>1. /\ Len(p \o x) = Len(p) + Len(x) /\ Len(p) \in Nat /\ Len(x) \in Nat
        /\ \A k \in 1..Len(x) : (p \o x)[Len(p) + k] = x[k]
    BY ZenonT(60), <1>3, <1>4, Joined
  <2> QED  BY <1>5, <2>1
<1>12. /\ Len(c) = Len(q) + Len(t) /\ Len(q) \in Nat /\ Len(t) \in Nat
       /\ \A k \in 1..Len(q) : c[k] = q[k]
  BY <1>4, <1>6, Joined
<1>13. /\ Len(w) = Len(f) + Len(c) /\ Len(f) \in Nat /\ Len(c) \in Nat
       /\ \A k \in 1..Len(c) : w[Len(f) + k] = c[k]
  BY <1>4, <1>7, Joined
<1>14. /\ \A k \in 1..Len(d) : x[k] = d[k]
       /\ \A k \in 1..Len(e) : x[Len(d) + k] = e[k]
  BY SMTT(60), <1>3, <1>8, Joined
<1>15. /\ s \in Nat /\ s + h + b <= Len(w) /\ StartOfCommand(i + 1) = s + h + b
  BY SMTT(60), <1>3, <1>9, <1>11, <1>12, <1>13
<1>16. \A k \in 1..h + b : w[s + k] = x[k]
  <2> TAKE k \in 1..h + b
  <2>1. /\ Len(p) + k \in 1..Len(c) /\ Len(p) + k \in 1..Len(q) /\ k \in 1..Len(x)
        /\ Len(f) + (Len(p) + k) = s + k
    BY SMTT(60), <1>3, <1>9, <1>11, <1>12, <1>13
  <2> QED  BY <1>11, <1>12, <1>13, <2>1
<1>17. \A k \in 1..h : w[s + k] = d[k]
  <2> TAKE k \in 1..h
  <2>1. k \in 1..h + b  BY <1>3
  <2> QED  BY <1>3, <1>14, <1>16, <2>1
<1>18. \A k \in 1..b : w[s + h + k] = e[k]
  <2> TAKE k \in 1..b
  <2>1. h + k \in 1..h + b /\ s + (h + k) = s + h + k  BY <1>3, <1>15
  <2>2. w[s + (h + k)] = x[h + k]  BY <1>16, <2>1
  <2> QED  BY <1>3, <1>14, <2>1, <2>2
<1>19. SubSeq(w, s + 1, s + h) = d
  <2> DEFINE m == s + h
             z == SubSeq(w, s + 1, m)
  <2>1. s \in Nat /\ m \in Nat /\ s <= m /\ m <= Len(w) /\ m - s = h  BY <1>3, <1>15, <1>10
  <2> HIDE DEF m
  <2>2. z \in Seq(Byte) /\ Len(z) = m - s /\ \A k \in 1..m - s : z[k] = w[s + k]
    BY <1>10, <2>1, Slice
  <2> HIDE DEF z
  <2>3. Len(z) = h /\ \A k \in 1..Len(z) : z[k] = d[k]  BY <1>17, <2>1, <2>2
  <2>4. z = d  BY <1>3, <2>2, <2>3, SeqEqual
  <2> QED  BY <2>4 DEF z, m
<1>20. SubSeq(w, s + h + 1, s + h + b) = e
  <2> DEFINE g == s + h
             m == g + b
             z == SubSeq(w, g + 1, m)
  <2>1. g \in Nat /\ m \in Nat /\ g <= m /\ m <= Len(w) /\ m - g = b  BY <1>3, <1>15, <1>10
  <2>2. \A k \in 1..b : w[g + k] = e[k]  BY <1>18
  <2> HIDE DEF g, m
  <2>3. z \in Seq(Byte) /\ Len(z) = m - g /\ \A k \in 1..m - g : z[k] = w[g + k]
    BY <1>10, <2>1, Slice
  <2> HIDE DEF z
  <2>4. Len(z) = b /\ \A k \in 1..Len(z) : z[k] = e[k]  BY <2>1, <2>2, <2>3
  <2>5. z = e  BY <1>3, <2>3, <2>4, SeqEqual
  <2> QED  BY <2>5 DEF z, g, m
<1> QED  BY <1>3, <1>15, <1>17, <1>18, <1>19, <1>20 DEF w, s, h, b, d, e

\* Commands begin in their order.
LEMMA StartsGrow ==
  ASSUME recording \in Recordings,
         NEW i \in 1..Len(recording) + 1, NEW j \in i..Len(recording) + 1
  PROVE  /\ StartOfCommand(i) \in Nat /\ StartOfCommand(j) \in Nat
         /\ StartOfCommand(i) <= StartOfCommand(j)
         /\ StartOfCommand(i) <= Len(Arrived)
<1> DEFINE N == Len(recording)
<1>1. N \in Nat /\ Len(FileHeader) \in Nat  BY RecordingFacts, ArrivedFacts
<1>2. ASSUME NEW k \in 1..N + 1, NEW l \in k..N + 1
      PROVE  /\ StartOfCommand(k) \in Nat /\ StartOfCommand(l) \in Nat
             /\ StartOfCommand(k) <= StartOfCommand(l)
  <2>1. /\ k - 1 \in 0..N /\ l - 1 \in k - 1..N /\ l - 1 \in 0..N /\ 0 \in 0..N
        /\ k - 1 \in 0..N
    BY <1>1
  <2> DEFINE u == Commands(0, k - 1)
             v == Commands(k - 1, l - 1)
  <2>2. u \in Seq(Byte) /\ v \in Seq(Byte)  BY <2>1, PiecesFacts
  <2>3. Commands(0, l - 1) = u \o v  BY <2>1, CommandsSplit
  <2>4. Len(u \o v) = Len(u) + Len(v) /\ Len(u) \in Nat /\ Len(v) \in Nat  BY <2>2, Joined
  <2> HIDE DEF u, v
  <2>5. StartOfCommand(k) = Len(FileHeader) + Len(u)  BY DEF StartOfCommand, u
  <2>6. StartOfCommand(l) = Len(FileHeader) + (Len(u) + Len(v))  BY <2>3, <2>4 DEF StartOfCommand
  <2> QED  BY <1>1, <2>4, <2>5, <2>6
<1>3. i \in 1..N + 1 /\ j \in i..N + 1 /\ N + 1 \in i..N + 1  BY <1>1
<1>4. StartOfCommand(N + 1) = Len(Arrived)  BY ArrivedFacts
<1>5. StartOfCommand(i) <= StartOfCommand(N + 1)  BY <1>2, <1>3
<1> QED  BY <1>2, <1>3, <1>4, <1>5

------------------------------------------------------------------------------
(* The type invariant.                                                     *)

Chunk   == Seq(RecByte)
Chunks  == Seq(Chunk)
Handled == Seq([of : 1..Len(recording), body : Chunk])

\* Buffers hold bytes of the recording, a command in hand is one of its commands, the
\* file header is read before any of them, and a read_exact wants no more than what
\* its buffer has not.
TypeInv ==
  /\ stream \in Streams /\ recording \in Recordings
  /\ unsent \in Chunk /\ current \in Chunk /\ channel \in Chunks /\ Len(channel) <= Capacity
  /\ handled \in Handled
  /\ offset \in 0..Len(current) /\ cmd \in 0..Len(recording) /\ drops \in 0..MaxDrops
  /\ closed \in BOOLEAN /\ header_skipped \in BOOLEAN /\ torn \in BOOLEAN
  /\ pc \in {"header", "body", "done"} /\ outcome \in {"running", "ok", "error"}
  /\ pc = "done" <=> outcome # "running"
  /\ pc = "header" => cmd = 0
  /\ pc = "body" => cmd # 0
  /\ ~header_skipped => DemoFormat /\ cmd = 0 /\ handled = <<>>
  /\ OverAsyncRead => offset = 0
  /\ OverAsyncRead /\ pc # "done" => Left >= 0
  /\ stream = "PacketChannelBroadcastStream" => ~torn

\* What is said of the recording stays what it is.
LEMMA RecordingStays ==
  ASSUME UNCHANGED <<stream, recording>>
  PROVE  /\ RecByte' = RecByte /\ Recordings' = Recordings
         /\ Chunk' = Chunk /\ Chunks' = Chunks /\ Handled' = Handled
         /\ DemoFormat' = DemoFormat /\ OverAsyncRead' = OverAsyncRead
         /\ FileHeader' = FileHeader /\ Arrived' = Arrived
         /\ \A i : Header(i)' = Header(i) /\ Body(i)' = Body(i)
         /\ \A i : StartOfCommand(i)' = StartOfCommand(i)
<1>1. DemoFormat' = DemoFormat /\ OverAsyncRead' = OverAsyncRead  BY DEF DemoFormat, OverAsyncRead
<1>2. RecByte' = RecByte  BY DEF RecByte
<1>3. Recordings' = Recordings  BY DEF Recordings, DemoFormat
<1>4. FileHeader' = FileHeader  BY DEF FileHeader, DemoFormat
<1>5. \A i : Header(i)' = Header(i) /\ Body(i)' = Body(i)  BY DEF Header, Body
<1>6. \A i, j : Commands(i, j)' = Commands(i, j)  BY DEF Commands, Header, Body
<1>7. Arrived' = Arrived
  <2>1. Len(recording)' = Len(recording)  OBVIOUS
  <2>2. Commands(0, Len(recording))' = Commands(0, Len(recording))  BY DEF Commands, Header, Body
  <2> QED  BY <1>4, <2>2 DEF Arrived
<1>8. \A i : StartOfCommand(i)' = StartOfCommand(i)  BY <1>4 DEF StartOfCommand, Commands, Header, Body
<1>9. Chunk' = Chunk  BY <1>2 DEF Chunk
<1>10. Chunks' = Chunks  BY <1>9 DEF Chunks
<1>11. Handled' = Handled  BY <1>9 DEF Handled
<1> QED  BY <1>1, <1>2, <1>3, <1>4, <1>5, <1>7, <1>8, <1>9, <1>10, <1>11

\* No step changes what is sent or which stream reads it.
LEMMA SameRecording ==
  ASSUME [Next]_vars
  PROVE  UNCHANGED <<stream, recording>>
<1> USE DEF sourceVars, streamVars
<1>1. CASE Sender  BY <1>1 DEF Sender, Send, Close
<1>2. CASE ReadsDemoPackets
  BY <1>2 DEF ReadsDemoPackets, EnsureRecv, EnsureExhausted, skip_header_if_needed,
              read_cmd_header, read_cmd, RecvSome, RecvNone
<1>3. CASE ReadsBroadcastPackets
  BY <1>3 DEF ReadsBroadcastPackets, NextPacket, SourceExhausted, NextHeader, ReadBody,
              RecvSome, RecvNone
<1>4. CASE ReadsAsyncRead
  BY <1>4 DEF ReadsAsyncRead, ReadExact, ReadExactFails, start_reading, read_cmd_header_async,
              read_cmd_async, PollRead, RecvNone
<1>5. CASE Drop  BY <1>5 DEF Drop
<1>6. CASE UNCHANGED vars  BY <1>6 DEF vars
<1> QED  BY <1>1, <1>2, <1>3, <1>4, <1>5, <1>6 DEF Next, Parser

\* Bytes of the recording are bytes, and one that starts a header says whose.
LEMMA RecByteFacts ==
  /\ RecByte \subseteq Byte
  /\ \A b \in RecByte : StartsHeader(b) => b.of \in 1..Len(recording)
BY DEF RecByte, StartsHeader

\* What the type invariant says of sequences, where only bytes matter.
LEMMA ByteSeqs ==
  ASSUME TypeInv
  PROVE  /\ unsent \in Seq(Byte) /\ current \in Seq(Byte) /\ channel \in Seq(Seq(Byte))
         /\ Len(unsent) \in Nat /\ Len(current) \in Nat /\ Len(channel) \in Nat
         /\ Len(handled) \in Nat /\ Len(recording) \in Nat
<1>1. unsent \in Seq(RecByte) /\ current \in Seq(RecByte) /\ channel \in Seq(Seq(RecByte))
  BY DEF TypeInv, Chunk, Chunks
<1>2. Seq(RecByte) \subseteq Seq(Byte)
  <2>1. ASSUME NEW s \in Seq(RecByte) PROVE s \in Seq(Byte)  BY RecByteFacts, SeqMonotonic
  <2> QED  BY <2>1
<1>3. channel \in Seq(Seq(Byte))
  <2> DEFINE R == Seq(RecByte)
             S == Seq(Byte)
  <2>1. channel \in Seq(R) /\ R \subseteq S  BY <1>1, <1>2
  <2> HIDE DEF R, S
  <2>2. channel \in Seq(S)  BY <2>1, SeqMonotonic
  <2> QED  BY <2>2 DEF S
<1>4. Len(unsent) \in Nat /\ Len(current) \in Nat /\ Len(channel) \in Nat
  BY <1>1, LenProperties
<1>5. Len(handled) \in Nat  BY LenProperties DEF TypeInv, Handled
<1>6. Len(recording) \in Nat  BY RecordingFacts DEF TypeInv
<1> QED  BY <1>1, <1>2, <1>3, <1>4, <1>5, <1>6

\* A chunk that is received, and the channel without it.
LEMMA ChannelFacts ==
  ASSUME TypeInv, channel # <<>>
  PROVE  /\ Head(channel) \in Chunk /\ Head(channel) \in Seq(Byte)
         /\ Tail(channel) \in Chunks /\ Tail(channel) \in Seq(Seq(Byte))
         /\ Len(Tail(channel)) <= Capacity /\ Len(Tail(channel)) + 1 = Len(channel)
         /\ channel = <<Head(channel)>> \o Tail(channel)
         /\ \A i \in 1..Len(Tail(channel)) : Tail(channel)[i] = channel[i + 1]
         /\ Head(channel) = channel[1]
<1> DEFINE R == Chunk
           S == Seq(Byte)
<1>1. channel \in Seq(R) /\ channel \in Seq(S) /\ Len(channel) <= Capacity /\ Capacity \in Nat
  BY ByteSeqs, PacketAssumption DEF TypeInv, Chunks
<1> HIDE DEF R, S
<1>2. Head(channel) \in R /\ Tail(channel) \in Seq(R) /\ Len(Tail(channel)) = Len(channel) - 1
      /\ \A i \in 1..Len(Tail(channel)) : Tail(channel)[i] = channel[i + 1]
  BY <1>1, HeadTailProperties
<1>3. Head(channel) \in S /\ Tail(channel) \in Seq(S)  BY <1>1, HeadTailProperties
<1>4. Len(channel) \in Nat \ {0}  BY <1>1, EmptySeq
<1>5. Len(Tail(channel)) <= Capacity /\ Len(Tail(channel)) + 1 = Len(channel)
  BY <1>1, <1>2, <1>4
<1>6. Head(channel) = channel[1]  BY <1>1, <1>4
<1>7. channel = <<Head(channel)>> \o Tail(channel)
  <2>1. 1 \in 1..Len(channel) /\ Len(channel) \in 1..Len(channel)  BY <1>4
  <2>2. SubSeq(channel, 1, Len(channel)) = <<channel[1]>> \o SubSeq(channel, 1 + 1, Len(channel))
    BY <1>1, <2>1, SubSeqRecursiveFirst
  <2>3. SubSeq(channel, 1, Len(channel)) = channel  BY <1>1, SubSeqFull
  <2>4. Tail(channel) = SubSeq(channel, 2, Len(channel))  BY <1>1, TailIsSubSeq
  <2>5. 1 + 1 = 2  OBVIOUS
  <2> QED  BY <1>6, <2>2, <2>3, <2>4, <2>5
<1> QED  BY <1>2, <1>3, <1>5, <1>6, <1>7 DEF R, S, Chunks

\* The constructors begin with commands of the recording in the buffer, or with nothing.
LEMMA InitType == Init => TypeInv
<1> SUFFICES ASSUME Init PROVE TypeInv  OBVIOUS
<1> DEFINE N == Len(recording)
<1>1. PICK initial \in 0..N :
         /\ stream # "PacketChannelBroadcastStream" => initial = 0
         /\ current = Commands(0, initial)
         /\ unsent = FileHeader \o Commands(initial, N)
  BY DEF Init
<1>2. recording \in Recordings /\ stream \in Streams  BY DEF Init
<1>3. N \in Nat /\ N <= MaxCommands  BY <1>2, RecordingFacts
<1>4. ASSUME NEW i \in 1..N PROVE WholeCommand(i) \in Seq(RecByte)
  <2> DEFINE h == Header(i)
             d == Body(i)
             x == h \o d
  <2>1. /\ h \in Seq(Byte) /\ d \in Seq(Byte)
        /\ \A k \in 1..Len(h) : h[k].of = i
        /\ \A k \in 1..Len(d) : d[k].of = i
    <3>1. /\ h \in Seq(Byte) /\ Len(h) = recording[i].header
          /\ d \in Seq(Byte) /\ Len(d) = recording[i].body
          /\ \A k \in 1..recording[i].header : h[k] = [of |-> i, part |-> "header", at |-> k]
          /\ \A k \in 1..recording[i].body : d[k] = [of |-> i, part |-> "body", at |-> k]
      BY <1>2, CommandFacts
    <3>2. ASSUME NEW k \in 1..Len(h) PROVE h[k].of = i
      <4>1. h[k] = [of |-> i, part |-> "header", at |-> k]  BY <3>1
      <4> QED  BY <4>1
    <3>3. ASSUME NEW k \in 1..Len(d) PROVE d[k].of = i
      <4>1. d[k] = [of |-> i, part |-> "body", at |-> k]  BY <3>1
      <4> QED  BY <4>1
    <3> QED  BY <3>1, <3>2, <3>3
  <2>2. x = WholeCommand(i)  BY DEF WholeCommand
  <2> HIDE DEF h, d
  <2>3. h \in Seq(RecByte)
    <3>1. Len(h) \in Nat /\ h \in [1..Len(h) -> Byte]  BY <2>1, LenProperties
    <3>2. \A k \in 1..Len(h) : h[k] \in RecByte  BY <2>1, <3>1 DEF RecByte
    <3> QED  BY <3>1, <3>2
  <2>4. d \in Seq(RecByte)
    <3>1. Len(d) \in Nat /\ d \in [1..Len(d) -> Byte]  BY <2>1, LenProperties
    <3>2. \A k \in 1..Len(d) : d[k] \in RecByte  BY <2>1, <3>1 DEF RecByte
    <3> QED  BY <3>1, <3>2
  <2> QED  BY <2>2, <2>3, <2>4, ConcatProperties
<1>5. ASSUME NEW from \in 0..N, NEW to \in from..N PROVE Commands(from, to) \in Seq(RecByte)
  <2> DEFINE R == Seq(RecByte)
  <2>1. \A k \in 1..to - from : from + k \in 1..N  BY <1>3
  <2>2. \A k \in 1..to - from : WholeCommand(from + k) \in R  BY <1>4, <2>1
  <2>3. to - from \in Nat  BY <1>3
  <2>4. Pieces(from, to) \in [1..to - from -> R]  BY <2>2 DEF Pieces
  <2> HIDE DEF R
  <2>5. Pieces(from, to) \in Seq(R)  BY <2>3, <2>4
  <2>6. Commands(from, to) = FlattenSeq(Pieces(from, to))  BY <1>2, PiecesFacts
  <2>7. Pieces(from, to) \in Seq(Seq(RecByte))  BY <2>5 DEF R
  <2> QED  BY <2>6, <2>7, FlattenType
<1>6. FileHeader \in Seq(RecByte)
  <2> DEFINE f == Part(0, "file", DEMO_HEADER_SIZE)
  <2>1. 0 \in 0..MaxCommands /\ DEMO_HEADER_SIZE \in Nat  BY PacketAssumption
  <2>2. /\ f \in Seq(Byte) /\ Len(f) = DEMO_HEADER_SIZE
        /\ \A k \in 1..DEMO_HEADER_SIZE : f[k].part = "file"
    <3>1. /\ f \in Seq(Byte) /\ Len(f) = DEMO_HEADER_SIZE
          /\ \A k \in 1..DEMO_HEADER_SIZE : f[k] = [of |-> 0, part |-> "file", at |-> k]
      BY <2>1, PartFacts
    <3> HIDE DEF f
    <3> QED  BY <3>1
  <2> HIDE DEF f
  <2>3. f \in [1..DEMO_HEADER_SIZE -> Byte]  BY <2>2, LenProperties
  <2>4. \A k \in 1..DEMO_HEADER_SIZE : f[k] \in RecByte  BY <2>2, <2>3 DEF RecByte
  <2>5. f \in Seq(RecByte)  BY <2>1, <2>3, <2>4
  <2> QED  BY <2>5, EmptySeq DEF FileHeader, f
<1>7. current \in Seq(RecByte) /\ unsent \in Seq(RecByte)
  <2>1. 0 \in 0..N /\ initial \in 0..N /\ N \in initial..N  BY <1>3
  <2>2. Commands(0, initial) \in Seq(RecByte) /\ Commands(initial, N) \in Seq(RecByte)
    BY <1>5, <2>1
  <2> QED  BY <1>1, <1>6, <2>2, ConcatProperties
<1>8. channel \in Seq(Seq(RecByte)) /\ Len(channel) <= Capacity
  BY EmptySeq, PacketAssumption DEF Init
<1>9. offset \in 0..Len(current)  BY <1>7, LenProperties DEF Init
<1>10. handled \in Handled  BY EmptySeq DEF Init, Handled
<1>11. cmd \in 0..Len(recording) /\ drops \in 0..MaxDrops  BY <1>3, DropsAssumption DEF Init
<1>12. OverAsyncRead => Left >= 0
  <2> SUFFICES ASSUME OverAsyncRead PROVE Left >= 0  OBVIOUS
  <2>1. initial = 0  BY <1>1 DEF OverAsyncRead
  <2>2. current = <<>>  BY <1>1, <1>2, <2>1, NoCommands
  <2>3. Len(current) = 0  BY <2>2
  <2>4. pc = "header" /\ header_skipped = ~DemoFormat  BY DEF Init
  <2>5. CASE stream = "AsyncDemoFile"
    <3>1. DemoFormat  BY <2>5 DEF DemoFormat
    <3>2. ~header_skipped  BY <2>4, <3>1
    <3>3. Left = DEMO_HEADER_SIZE - 0  BY <2>3, <2>4, <3>2 DEF Left
    <3> QED  BY <3>3, PacketAssumption
  <2>6. CASE stream = "AsyncBroadcastStream"
    <3>1. ~DemoFormat  BY <2>6 DEF DemoFormat
    <3>2. header_skipped  BY <2>4, <3>1
    <3>3. Left = BROADCAST_CMD_HEADER_SIZE - 0  BY <2>3, <2>4, <2>6, <3>2 DEF Left, HeaderLeft
    <3> QED  BY <3>3, PacketAssumption
  <2> QED  BY <2>5, <2>6 DEF OverAsyncRead
<1>13. /\ closed = FALSE /\ header_skipped = ~DemoFormat /\ torn = FALSE
       /\ pc = "header" /\ outcome = "running" /\ cmd = 0 /\ offset = 0 /\ handled = <<>>
  BY DEF Init
<1>14. header_skipped \in BOOLEAN  BY <1>13 DEF DemoFormat
<1> QED  BY <1>2, <1>7, <1>8, <1>9, <1>10, <1>11, <1>12, <1>13, <1>14 DEF TypeInv, Chunk, Chunks, Handled

\* Reads of the file header, a header or a body that a read_exact has not ended.
LEMMA LeftFacts ==
  ASSUME TypeInv, OverAsyncRead
  PROVE  /\ Left \in Int
         /\ pc = "body" => Left = recording[cmd].body - Len(current)
         /\ pc # "body" /\ ~header_skipped => Left = DEMO_HEADER_SIZE - Len(current)
         /\ pc # "body" /\ header_skipped => Left = HeaderLeft
         /\ HeaderLeft \in Int
         /\ pc # "done" => Left >= 0
         /\ Left > 0 => Room \in 1..Left
         /\ Len(current) \in Nat
         /\ current # <<>> => current[1] \in RecByte /\ current[1] \in Byte /\ Len(current) > 0
<1>1. Len(current) \in Nat  BY ByteSeqs
<1>2. current # <<>> => current[1] \in RecByte /\ current[1] \in Byte /\ Len(current) > 0
  <2> SUFFICES ASSUME current # <<>> PROVE current[1] \in RecByte /\ Len(current) > 0
    BY RecByteFacts
  <2>1. current \in Seq(RecByte)  BY DEF TypeInv, Chunk
  <2>2. Len(current) \in Nat \ {0}  BY <2>1, EmptySeq
  <2> QED  BY <2>1, <2>2, ElementOfSeq
<1>3. HeaderLeft \in Int
  <2>1. current # <<>> /\ StartsHeader(current[1]) => recording[current[1].of].header \in Int
    BY <1>2, RecByteFacts, RecordingFacts DEF TypeInv
  <2> QED  BY <1>1, <2>1, PacketAssumption DEF HeaderLeft
<1>4. pc = "body" => recording[cmd].body \in Nat
  BY RecordingFacts DEF TypeInv
<1>5. /\ pc = "body" => Left = recording[cmd].body - Len(current)
      /\ pc # "body" /\ ~header_skipped => Left = DEMO_HEADER_SIZE - Len(current)
      /\ pc # "body" /\ header_skipped => Left = HeaderLeft
  BY DEF Left
<1>6. DEMO_HEADER_SIZE \in Nat /\ header_skipped \in BOOLEAN  BY PacketAssumption DEF TypeInv
<1>7. Left \in Int  BY <1>1, <1>3, <1>4, <1>5, <1>6
<1>8. pc # "done" => Left >= 0  BY DEF TypeInv
<1>9. Left > 0 => Room \in 1..Left  BY <1>7 DEF Room
<1> QED  BY <1>1, <1>2, <1>3, <1>5, <1>7, <1>8, <1>9

\* A read_exact that gets k bytes more wants k less.
LEMMA LessIsLeft ==
  ASSUME TypeInv, OverAsyncRead, Reading, NEW h \in Chunk, NEW k \in Nat, k <= Len(h), k <= Room,
         current' = current \o SubSeq(h, 1, k),
         UNCHANGED <<stream, recording, pc, cmd, header_skipped>>
  PROVE  /\ current' \in Chunk /\ Len(current') = Len(current) + k
         /\ Left' >= 0
<1> DEFINE x == SubSeq(h, 1, k)
<1>1. /\ Len(h) \in Nat /\ current \in Seq(RecByte) /\ h \in Seq(RecByte)
      /\ Len(current) \in Nat
  BY LenProperties DEF TypeInv, Chunk
<1>2. x \in Seq(RecByte) /\ Len(x) = k
  <2>1. 0 \in Nat /\ 0 <= k /\ k - 0 = k /\ 0 + 1 = 1  OBVIOUS
  <2>2. SubSeq(h, 0 + 1, k) \in Seq(RecByte) /\ Len(SubSeq(h, 0 + 1, k)) = k - 0
    BY <1>1, <2>1, SliceType
  <2> QED  BY <2>1, <2>2
<1>3. current' = current \o x  OBVIOUS
<1> HIDE DEF x
<1>4. /\ current' \in Seq(RecByte) /\ Len(current') = Len(current) + k
      /\ \A i \in 1..Len(current) + k : current'[i] = IF i <= Len(current) THEN current[i]
                                                      ELSE x[i - Len(current)]
  BY <1>1, <1>2, <1>3, ConcatProperties
<1>5. Left > 0 /\ pc # "done"  BY DEF Reading
<1>6. Room \in 1..Left /\ Left \in Int  BY <1>5, LeftFacts
<1>7. Left' >= 0
  <2>1. CASE pc = "body"
    <3>1. Left = recording[cmd].body - Len(current)  BY <2>1, LeftFacts
    <3>2. Left' = recording[cmd].body - (Len(current) + k)  BY <1>4, <2>1 DEF Left
    <3>3. recording[cmd].body \in Nat  BY <2>1, RecordingFacts DEF TypeInv
    <3> QED  BY <1>1, <1>6, <3>1, <3>2, <3>3
  <2>2. CASE pc # "body" /\ ~header_skipped
    <3>1. Left = DEMO_HEADER_SIZE - Len(current)  BY <2>2, LeftFacts
    <3>2. Left' = DEMO_HEADER_SIZE - (Len(current) + k)  BY <1>4, <2>2 DEF Left
    <3> QED  BY <1>1, <1>6, <3>1, <3>2, PacketAssumption
  <2>3. CASE pc # "body" /\ header_skipped /\ stream = "AsyncBroadcastStream"
    <3>1. Left = BROADCAST_CMD_HEADER_SIZE - Len(current)  BY <2>3, LeftFacts DEF HeaderLeft
    <3>2. Left' = BROADCAST_CMD_HEADER_SIZE - (Len(current) + k)
      BY <1>4, <2>3 DEF Left, HeaderLeft
    <3> QED  BY <1>1, <1>6, <3>1, <3>2, PacketAssumption
  <2>4. CASE pc # "body" /\ header_skipped /\ stream = "AsyncDemoFile"
    <3>1. Left = HeaderLeft /\ Left' = HeaderLeft'  BY <2>4, LeftFacts DEF Left
    <3>2. pc = "header" /\ Room = 1  BY <1>5, <2>4 DEF Room, TypeInv
    <3>3. k = 0 \/ k = 1  BY <3>2
    <3>4. CASE k = 0
      <4>1. current' = current
        <5>1. Len(current') = Len(current)  BY <1>1, <1>4, <3>4
        <5>2. \A i \in 1..Len(current') : current'[i] = current[i]  BY <1>1, <1>4, <5>1
        <5> QED  BY <1>1, <1>4, <5>1, <5>2, SeqEqual
      <4>2. HeaderLeft' = HeaderLeft  BY <4>1 DEF HeaderLeft
      <4> QED  BY <1>5, <3>1, <4>2, <1>6
    <3>5. CASE k = 1 /\ current = <<>>
      <4>1. Len(current) = 0 /\ Len(current') = 1  BY <1>1, <1>4, <3>5
      <4>2. current'[1] \in RecByte  BY <1>4, <4>1, ElementOfSeq
      <4>3. current' # <<>>  BY <4>1
      <4>4. StartsHeader(current'[1]) => recording[current'[1].of].header \in Nat \ {0}
        BY <4>2, RecByteFacts, RecordingFacts DEF TypeInv
      <4>5. HeaderLeft' = IF StartsHeader(current'[1]) THEN recording[current'[1].of].header - 1 ELSE 0
        BY <2>4, <4>1, <4>3 DEF HeaderLeft, StartsHeader
      <4>6. CASE StartsHeader(current'[1])
        <5> DEFINE n == recording[current'[1].of].header
        <5>1. n \in Nat \ {0} /\ HeaderLeft' = n - 1  BY <4>4, <4>5, <4>6
        <5> HIDE DEF n
        <5> QED  BY <3>1, <5>1
      <4>7. CASE ~StartsHeader(current'[1])
        <5>1. HeaderLeft' = 0  BY <4>5, <4>7
        <5> QED  BY <3>1, <5>1
      <4> QED  BY <4>6, <4>7
    <3>6. CASE k = 1 /\ current # <<>>
      <4>1. current[1] \in RecByte /\ Len(current) > 0  BY <3>6, LeftFacts
      <4>2. current'[1] = current[1] /\ Len(current') = Len(current) + 1 /\ current' # <<>>
        BY <1>1, <1>4, <3>6, <4>1
      <4>3. StartsHeader(current[1])  BY <1>5, <2>4, <3>1, <3>6 DEF HeaderLeft
      <4>4. recording[current[1].of].header \in Nat
        BY <4>1, <4>3, RecByteFacts, RecordingFacts DEF TypeInv
      <4>5. HeaderLeft = recording[current[1].of].header - Len(current)
        BY <2>4, <3>6, <4>3 DEF HeaderLeft
      <4>6. HeaderLeft' = recording[current[1].of].header - (Len(current) + 1)
        BY <2>4, <4>2, <4>3 DEF HeaderLeft, StartsHeader
      <4> QED  BY <1>1, <1>5, <3>1, <4>4, <4>5, <4>6
    <3> QED  BY <3>3, <3>4, <3>5, <3>6
  <2> QED  BY <2>1, <2>2, <2>3, <2>4 DEF OverAsyncRead, TypeInv
<1> QED  BY <1>4, <1>7 DEF Chunk

\* What the parser does with a header, a body or an error leaves it well-formed.
Parsing ==
  /\ handled \in Handled
  /\ cmd \in 0..Len(recording)
  /\ pc \in {"header", "body", "done"} /\ outcome \in {"running", "ok", "error"}
  /\ pc = "done" <=> outcome # "running"
  /\ pc = "header" => cmd = 0
  /\ pc = "body" => cmd # 0

\* run_internal keeps itself well-formed with every header, body and error.
LEMMA ParsingType ==
  ASSUME TypeInv, UNCHANGED <<stream, recording>>
  PROVE  /\ \A b \in RecByte : pc = "header" /\ GotHeader(b) =>
              /\ Parsing' /\ handled' = handled
              /\ StartsHeader(b) => pc' = "body" /\ cmd' = b.of /\ outcome' = outcome
              /\ ~StartsHeader(b) => pc' = "done" /\ outcome' = "error" /\ cmd' = cmd
         /\ \A x \in Chunk : pc = "body" /\ GotBody(x) => Parsing'
         /\ pc # "done" /\ (Returns("ok") \/ Returns("error")) => Parsing'
         /\ UNCHANGED parserVars => Parsing'
<1>1. Handled' = Handled /\ Len(recording)' = Len(recording)  BY RecordingStays
<1>2. Len(recording) \in Nat  BY ByteSeqs
<1>3. Parsing  BY DEF TypeInv, Parsing
<1>4. ASSUME NEW b \in RecByte, pc = "header", GotHeader(b)
      PROVE  /\ Parsing' /\ handled' = handled
             /\ StartsHeader(b) => pc' = "body" /\ cmd' = b.of /\ outcome' = outcome
             /\ ~StartsHeader(b) => pc' = "done" /\ outcome' = "error" /\ cmd' = cmd
  <2>1. CASE StartsHeader(b)
    <3>1. b.of \in 1..Len(recording)  BY <2>1, RecByteFacts
    <3> QED  BY <1>1, <1>2, <1>3, <1>4, <2>1, <3>1 DEF Parsing, GotHeader
  <2>2. CASE ~StartsHeader(b)
    BY <1>1, <1>2, <1>3, <1>4, <2>2 DEF Parsing, GotHeader, Returns
  <2> QED  BY <2>1, <2>2
<1>5. ASSUME NEW x \in Chunk, pc = "body", GotBody(x) PROVE Parsing'
  <2> DEFINE c == [of |-> cmd, body |-> x]
  <2>1. c \in [of : 1..Len(recording), body : Chunk]  BY <1>2, <1>3, <1>5 DEF Parsing
  <2>2. handled' = Append(handled, c)  BY <1>5 DEF GotBody
  <2> HIDE DEF c
  <2>3. handled' \in Handled  BY <1>3, <2>1, <2>2, AppendProperties DEF Handled, Parsing
  <2>4. pc' = "header" /\ cmd' = 0 /\ outcome' = outcome  BY <1>5 DEF GotBody
  <2> QED  BY <1>1, <1>2, <1>3, <1>5, <2>3, <2>4 DEF Parsing
<1>6. pc # "done" /\ (Returns("ok") \/ Returns("error")) => Parsing'
  BY <1>1, <1>3 DEF Parsing, Returns
<1>7. UNCHANGED parserVars => Parsing'
  BY <1>1, <1>3 DEF Parsing, parserVars
<1> QED  BY <1>4, <1>5, <1>6, <1>7

\* A read from a buffer stays in it.
LEMMA SlicesAreChunks ==
  ASSUME NEW c \in Chunk, NEW o \in 0..Len(c), NEW n \in o..Len(c)
  PROVE  SubSeq(c, o + 1, n) \in Chunk
<1>1. c \in Seq(RecByte)  BY DEF Chunk
<1>2. Len(c) \in Nat  BY <1>1, LenProperties
<1>3. o \in Nat /\ n \in Nat /\ o <= n /\ n <= Len(c)  BY <1>2
<1>4. SubSeq(c, o + 1, n) \in Seq(RecByte)  BY <1>1, <1>3, SliceType
<1> QED  BY <1>4 DEF Chunk

\* What is sent is a piece of what is not yet sent.
LEMMA SendType ==
  ASSUME TypeInv, Sender
  PROVE  TypeInv'
<1>1. UNCHANGED <<stream, recording>>  BY DEF Sender, Send, Close
<1>2. /\ Recordings' = Recordings /\ Chunk' = Chunk /\ Chunks' = Chunks /\ Handled' = Handled
      /\ DemoFormat' = DemoFormat /\ OverAsyncRead' = OverAsyncRead
  BY <1>1, RecordingStays
<1>3. UNCHANGED <<current, offset, header_skipped, pc, cmd, handled, outcome, drops, torn>>
  BY DEF Sender, streamVars, parserVars, callerVars
<1>4. Left' = Left  BY <1>1, <1>3 DEF Left, HeaderLeft
<1>5. unsent' \in Chunk /\ channel' \in Chunks /\ Len(channel') <= Capacity /\ closed' \in BOOLEAN
  <2>1. CASE Close  BY <2>1 DEF Close, TypeInv
  <2>2. ASSUME NEW n \in 0..Len(unsent), Send(n)
        PROVE  unsent' \in Chunk /\ channel' \in Chunks /\ Len(channel') <= Capacity
               /\ closed' \in BOOLEAN
    <3> DEFINE x == SubSeq(unsent, 1, n)
               y == SubSeq(unsent, n + 1, Len(unsent))
    <3>1. unsent \in Chunk /\ channel \in Chunks /\ Len(unsent) \in Nat /\ Len(channel) \in Nat
      BY ByteSeqs DEF TypeInv
    <3>2. /\ 0 \in 0..Len(unsent) /\ n \in 0..Len(unsent) /\ Len(unsent) \in n..Len(unsent)
          /\ 0 + 1 = 1
      BY <3>1
    <3>3. SubSeq(unsent, 0 + 1, n) \in Chunk /\ y \in Chunk  BY <3>1, <3>2, SlicesAreChunks
    <3>4. x \in Chunk  BY <3>2, <3>3
    <3>5. channel' = Append(channel, x) /\ unsent' = y /\ Len(channel) < Capacity /\ closed' = closed
      BY <2>2 DEF Send
    <3> HIDE DEF x, y
    <3>6. channel' \in Seq(Chunk) /\ Len(channel') = Len(channel) + 1
      BY <3>1, <3>4, <3>5, AppendProperties DEF Chunks
    <3> QED  BY <3>1, <3>3, <3>5, <3>6, PacketAssumption DEF Chunks, TypeInv
  <2> QED  BY <2>1, <2>2 DEF Sender
<1> QED  BY <1>1, <1>2, <1>3, <1>4, <1>5 DEF TypeInv

\* A dropped future leaves a buffer that is well-formed, and takes its own with it.
LEMMA DropType ==
  ASSUME TypeInv, Drop
  PROVE  TypeInv'
<1>1. UNCHANGED <<stream, recording, unsent, channel, closed, offset, header_skipped, handled, outcome>>
  BY DEF Drop, sourceVars
<1>2. /\ Recordings' = Recordings /\ Chunk' = Chunk /\ Chunks' = Chunks /\ Handled' = Handled
      /\ DemoFormat' = DemoFormat /\ OverAsyncRead' = OverAsyncRead
  BY <1>1, RecordingStays
<1>3. pc # "done"
  BY DEF Drop, Waiting, EnsuringBytes, EnsuringData, Reading
<1>4. /\ pc' = "header" /\ cmd' = 0 /\ drops' \in 0..MaxDrops
      /\ current' = IF OverAsyncRead THEN <<>> ELSE current
  BY DropsAssumption DEF Drop, TypeInv
<1>5. stream = "PacketChannelBroadcastStream" => pc = "header" /\ BytesOfFuture = <<>>
  BY DEF Drop, Waiting, EnsuringData, BytesOfFuture, OverAsyncRead
<1>6. torn' \in BOOLEAN /\ (stream = "PacketChannelBroadcastStream" => ~torn')
  BY <1>5 DEF Drop, TypeInv
<1>7. current' \in Chunk /\ offset \in 0..Len(current')
  <2>1. OverAsyncRead => current' = <<>> /\ offset = 0  BY <1>4 DEF TypeInv
  <2>2. ~OverAsyncRead => current' = current  BY <1>4
  <2>3. <<>> \in Chunk /\ Len(<<>>) = 0  BY EmptySeq DEF Chunk
  <2> QED  BY <2>1, <2>2, <2>3 DEF TypeInv
<1>8. OverAsyncRead => Left' >= 0
  <2> SUFFICES ASSUME OverAsyncRead PROVE Left' >= 0  OBVIOUS
  <2>1. Len(current') = 0 /\ current' = <<>>  BY <1>4
  <2>2. CASE ~header_skipped
    <3>1. Left' = DEMO_HEADER_SIZE - 0  BY <1>1, <1>4, <2>1, <2>2 DEF Left
    <3> QED  BY <3>1, PacketAssumption
  <2>3. CASE header_skipped
    <3>1. Left' = IF stream = "AsyncBroadcastStream" THEN BROADCAST_CMD_HEADER_SIZE - 0 ELSE 1
      BY <1>1, <1>4, <2>1, <2>3 DEF Left, HeaderLeft
    <3> QED  BY <3>1, PacketAssumption
  <2> QED  BY <2>2, <2>3
<1>9. pc' = "done" <=> outcome' # "running"  BY <1>1, <1>3, <1>4 DEF TypeInv
<1>10. cmd' \in 0..Len(recording)  BY <1>4, ByteSeqs
<1> QED  BY <1>1, <1>2, <1>4, <1>6, <1>7, <1>8, <1>9, <1>10 DEF TypeInv

\* ensure_bytes, skip_header_if_needed, read_cmd_header and read_cmd stay in the buffer: a
\* header that starts has no more bytes than the fifteen that were waited for.
LEMMA DemoPacketsType ==
  ASSUME TypeInv, ReadsDemoPackets, UNCHANGED callerVars
  PROVE  TypeInv'
<1> USE DEF streamVars, sourceVars
<1>1. stream = "PacketChannelDemoStream" /\ ~OverAsyncRead /\ DemoFormat
  BY DEF ReadsDemoPackets, OverAsyncRead, DemoFormat
<1>2. UNCHANGED <<stream, recording, unsent, closed, drops, torn>>
  BY DEF ReadsDemoPackets, EnsureRecv, EnsureExhausted, skip_header_if_needed,
         read_cmd_header, read_cmd, RecvSome, RecvNone, callerVars
<1>3. /\ Recordings' = Recordings /\ Chunk' = Chunk /\ Chunks' = Chunks /\ Handled' = Handled
      /\ DemoFormat' = DemoFormat /\ OverAsyncRead' = OverAsyncRead
  BY <1>2, RecordingStays
<1>4. /\ Len(current) \in Nat /\ offset \in 0..Len(current) /\ current \in Chunk /\ current \in Seq(RecByte)
      /\ Len(recording) \in Nat
  BY ByteSeqs DEF TypeInv, Chunk
<1>5. SUFFICES /\ current' \in Chunk /\ channel' \in Chunks /\ Len(channel') <= Capacity
               /\ offset' \in 0..Len(current') /\ header_skipped' \in BOOLEAN
               /\ Parsing' /\ (~header_skipped' => cmd' = 0 /\ handled' = <<>>)
  BY <1>1, <1>2, <1>3 DEF TypeInv, Parsing
<1>6. CASE EnsureRecv
  <2>1. channel # <<>> /\ channel' = Tail(channel)  BY <1>6 DEF EnsureRecv, RecvSome
  <2>2. /\ Head(channel) \in Chunk /\ channel' \in Chunks /\ Len(channel') <= Capacity
    BY <2>1, ChannelFacts
  <2>3. SubSeq(current, offset + 1, Len(current)) \in Chunk  BY <1>4, SlicesAreChunks
  <2>4. current' = SubSeq(current, offset + 1, Len(current)) \o Head(channel)
    BY <1>6 DEF EnsureRecv, AppendChunk
  <2>5. current' \in Chunk  BY <2>2, <2>3, <2>4, ConcatProperties DEF Chunk
  <2>6. offset' = 0 /\ UNCHANGED <<header_skipped, parserVars>>  BY <1>6 DEF EnsureRecv
  <2>7. offset' \in 0..Len(current')  BY <2>5, <2>6, LenProperties DEF Chunk
  <2>8. Parsing'  BY <1>2, <2>6, ParsingType
  <2> QED  BY <2>2, <2>5, <2>6, <2>7, <2>8 DEF TypeInv, parserVars
<1>7. CASE EnsureExhausted
  <2>1. pc # "done" /\ (Returns("ok") \/ Returns("error"))
    BY <1>7 DEF EnsureExhausted, EnsuringBytes, OnHeaderError, OnBodyError
  <2>2. UNCHANGED <<current, offset, header_skipped, channel>>
    BY <1>7 DEF EnsureExhausted, RecvNone
  <2>3. UNCHANGED <<cmd, handled>>  BY <2>1 DEF Returns
  <2>4. Parsing'  BY <1>2, <2>1, ParsingType
  <2> QED  BY <1>4, <2>2, <2>3, <2>4 DEF TypeInv
<1>8. CASE skip_header_if_needed
  <2>1. /\ UNCHANGED <<current, channel, parserVars>> /\ header_skipped' = TRUE
        /\ offset' = offset + DEMO_HEADER_SIZE
        /\ Len(current) - offset >= DEMO_HEADER_SIZE
    BY <1>8 DEF skip_header_if_needed, Wanted, remaining
  <2>2. offset' \in 0..Len(current')  BY <1>4, <2>1, PacketAssumption
  <2>3. Parsing'  BY <1>2, <2>1, ParsingType
  <2> QED  BY <1>4, <2>1, <2>2, <2>3 DEF TypeInv
<1>9. CASE read_cmd_header
  <2> DEFINE first == current[offset + 1]
  <2>1. /\ pc = "header" /\ header_skipped /\ GotHeader(first)
        /\ UNCHANGED <<current, channel, header_skipped>>
        /\ offset' = offset + (IF StartsHeader(first) THEN recording[first.of].header ELSE 1)
        /\ Len(current) - offset >= MAX_HEADER
    BY <1>9 DEF read_cmd_header, Wanted, remaining
  <2>2. offset + 1 \in 1..Len(current)  BY <1>4, <2>1, DemoStreamAssumption
  <2>3. first \in RecByte  BY <1>4, <2>2, ElementOfSeq
  <2> HIDE DEF first
  <2>4. offset' \in 0..Len(current')
    <3>1. CASE StartsHeader(first)
      <4> DEFINE h == recording[first.of].header
      <4>1. h \in Nat /\ h \in VarintHeaders
        BY <1>1, <2>3, <3>1, RecByteFacts, RecordingFacts DEF TypeInv
      <4>2. offset' = offset + h  BY <2>1, <3>1
      <4> HIDE DEF h
      <4>3. h <= MAX_HEADER  BY <4>1, DemoStreamAssumption
      <4> QED  BY <1>4, <2>1, <4>1, <4>2, <4>3, DemoStreamAssumption
    <3>2. CASE ~StartsHeader(first)  BY <1>4, <2>1, <2>2, <3>2
    <3> QED  BY <3>1, <3>2
  <2>5. Parsing'  BY <1>2, <2>1, <2>3, ParsingType
  <2> QED  BY <1>4, <2>1, <2>4, <2>5 DEF TypeInv
<1>10. CASE read_cmd
  <2> DEFINE size == recording[cmd].body
  <2>1. /\ pc = "body" /\ GotBody(SubSeq(current, offset + 1, offset + size))
        /\ UNCHANGED <<current, channel, header_skipped>>
        /\ offset' = offset + size /\ Len(current) - offset >= size
    BY <1>10 DEF read_cmd, BodyEnd, Wanted, remaining
  <2>2. size \in Nat  BY <2>1, RecordingFacts DEF TypeInv
  <2> HIDE DEF size
  <2>3. offset + size \in offset..Len(current)  BY <1>4, <2>1, <2>2
  <2>4. SubSeq(current, offset + 1, offset + size) \in Chunk  BY <1>4, <2>3, SlicesAreChunks
  <2>5. Parsing'  BY <1>2, <2>1, <2>4, ParsingType
  <2>6. offset' \in 0..Len(current')  BY <1>4, <2>1, <2>2, <2>3
  <2> QED  BY <1>4, <2>1, <2>5, <2>6 DEF TypeInv
<1> QED  BY <1>6, <1>7, <1>8, <1>9, <1>10 DEF ReadsDemoPackets

\* A header from a buffer, or the end of it.
LEMMA ReadHeaderAtType ==
  ASSUME TypeInv, pc = "header", UNCHANGED <<stream, recording>>, NEW c \in Chunk, NEW o \in 0..Len(c),
         ReadHeaderAt(c, o)
  PROVE  Parsing' /\ offset' \in 0..Len(c) /\ handled' = handled
<1>1. c \in Seq(RecByte) /\ Len(c) \in Nat /\ BROADCAST_CMD_HEADER_SIZE \in Nat \ {0}
  BY LenProperties, PacketAssumption DEF Chunk
<1>2. CASE HasBytes(c, o, BROADCAST_CMD_HEADER_SIZE)
  <2>1. GotHeader(c[o + 1]) /\ offset' = o + BROADCAST_CMD_HEADER_SIZE
        /\ o + BROADCAST_CMD_HEADER_SIZE <= Len(c)
    BY <1>2 DEF ReadHeaderAt, HasBytes
  <2>2. o + 1 \in 1..Len(c)  BY <1>1, <2>1
  <2>3. c[o + 1] \in RecByte  BY <1>1, <2>2, ElementOfSeq
  <2>4. Parsing' /\ handled' = handled  BY <2>1, <2>3, ParsingType
  <2> QED  BY <1>1, <2>1, <2>4
<1>3. CASE ~HasBytes(c, o, BROADCAST_CMD_HEADER_SIZE)
  <2>1. Returns("ok") /\ offset' = o  BY <1>3 DEF ReadHeaderAt, OnHeaderError
  <2>2. Parsing'  BY <2>1, ParsingType
  <2> QED  BY <2>1, <2>2 DEF Returns
<1> QED  BY <1>2, <1>3

\* A packet replaces the one before it, and is read from its start.
LEMMA BroadcastPacketsType ==
  ASSUME TypeInv, ReadsBroadcastPackets, UNCHANGED callerVars
  PROVE  TypeInv'
<1> USE DEF sourceVars
<1>1. /\ stream = "PacketChannelBroadcastStream" /\ ~OverAsyncRead /\ ~DemoFormat
      /\ header_skipped /\ header_skipped' = header_skipped
  BY DEF ReadsBroadcastPackets, OverAsyncRead, DemoFormat, TypeInv
<1>2. UNCHANGED <<stream, recording, unsent, closed, drops, torn>>
  BY DEF ReadsBroadcastPackets, NextPacket, SourceExhausted, NextHeader, ReadBody,
         RecvSome, RecvNone, callerVars
<1>3. /\ Recordings' = Recordings /\ Chunk' = Chunk /\ Chunks' = Chunks /\ Handled' = Handled
      /\ DemoFormat' = DemoFormat /\ OverAsyncRead' = OverAsyncRead
  BY <1>2, RecordingStays
<1>4. /\ Len(current) \in Nat /\ offset \in 0..Len(current) /\ current \in Chunk /\ channel \in Chunks
      /\ Len(channel) <= Capacity
  BY ByteSeqs DEF TypeInv
<1>5. SUFFICES /\ current' \in Chunk /\ channel' \in Chunks /\ Len(channel') <= Capacity
               /\ offset' \in 0..Len(current') /\ Parsing'
  BY <1>1, <1>2, <1>3 DEF TypeInv, Parsing
<1>6. CASE NextPacket
  <2>1. channel # <<>> /\ channel' = Tail(channel) /\ current' = Head(channel) /\ pc = "header"
        /\ ReadHeaderAt(Head(channel), 0)
    BY <1>6 DEF NextPacket, RecvSome, EnsuringData, StartOf
  <2>2. Head(channel) \in Chunk /\ channel' \in Chunks /\ Len(channel') <= Capacity
    BY <2>1, ChannelFacts
  <2>3. 0 \in 0..Len(Head(channel))  BY <2>2, LenProperties DEF Chunk
  <2>4. Parsing' /\ offset' \in 0..Len(Head(channel))
    BY <1>2, <2>1, <2>2, <2>3, ReadHeaderAtType
  <2> QED  BY <2>1, <2>2, <2>4
<1>7. CASE SourceExhausted
  <2>1. pc = "header" /\ Returns("ok") /\ UNCHANGED <<current, offset, channel>>
    BY <1>7 DEF SourceExhausted, EnsuringData, RecvNone, OnHeaderError
  <2>2. Parsing'  BY <1>2, <2>1, ParsingType
  <2> QED  BY <1>4, <2>1, <2>2
<1>8. CASE NextHeader
  <2>1. pc = "header" /\ ReadHeaderAt(current, offset) /\ UNCHANGED <<current, channel>>
    BY <1>8 DEF NextHeader
  <2>2. Parsing' /\ offset' \in 0..Len(current)  BY <1>2, <1>4, <2>1, ReadHeaderAtType
  <2> QED  BY <1>4, <2>1, <2>2
<1>9. CASE ReadBody
  <2> DEFINE size == recording[cmd].body
  <2>1. pc = "body" /\ UNCHANGED <<current, channel>>  BY <1>9 DEF ReadBody
  <2>2. size \in Nat  BY <2>1, RecordingFacts DEF TypeInv
  <2>3. CASE HasBytes(current, offset, size)
    <3>1. /\ GotBody(SubSeq(current, offset + 1, offset + size))
          /\ offset' = offset + size /\ offset + size <= Len(current)
      BY <1>9, <2>3 DEF ReadBody, HasBytes
    <3> HIDE DEF size
    <3>2. offset + size \in offset..Len(current)  BY <1>4, <2>2, <3>1
    <3>3. SubSeq(current, offset + 1, offset + size) \in Chunk  BY <1>4, <3>2, SlicesAreChunks
    <3>4. Parsing'  BY <1>2, <2>1, <3>1, <3>3, ParsingType
    <3> QED  BY <1>4, <2>1, <2>2, <3>1, <3>4
  <2>4. CASE ~HasBytes(current, offset, size)
    <3>1. Returns("error") /\ offset' = offset  BY <1>9, <2>4 DEF ReadBody, OnBodyError
    <3>2. Parsing'  BY <1>2, <2>1, <3>1, ParsingType
    <3> QED  BY <1>4, <2>1, <3>1, <3>2
  <2> QED  BY <2>3, <2>4
<1> QED  BY <1>6, <1>7, <1>8, <1>9 DEF ReadsBroadcastPackets

\* What a poll takes is the beginning of what is in the channel.
LEMMA PollFacts ==
  ASSUME TypeInv, NEW n \in Nat \ {0}, PollRead(n), NEW k,
         k = IF n < Len(Head(channel)) THEN n ELSE Len(Head(channel))
  PROVE  /\ channel # <<>> /\ Head(channel) \in Chunk
         /\ k \in Nat /\ k <= Len(Head(channel)) /\ k <= n
         /\ SubSeq(Head(channel), 1, k) \in Seq(Byte)
         /\ channel' \in Chunks /\ Len(channel') <= Capacity
         /\ SubSeq(Head(channel), 1, k) \o FlattenSeq(channel') = FlattenSeq(channel)
<1> DEFINE h == Head(channel)
           t == Tail(channel)
           x == SubSeq(h, 1, k)
           y == SubSeq(h, n + 1, Len(h))
           R == Chunk
<1>1. channel # <<>>  BY DEF PollRead
<1>2. /\ h \in R /\ h \in Seq(Byte) /\ t \in Seq(R) /\ t \in Seq(Seq(Byte))
      /\ Len(t) <= Capacity /\ Len(t) + 1 = Len(channel) /\ channel = <<h>> \o t
      /\ Len(t) \in Nat
  BY <1>1, ChannelFacts, LenProperties DEF Chunks
<1>3. Len(h) \in Nat  BY <1>2, LenProperties
<1>4. Len(channel) <= Capacity /\ Capacity \in Nat  BY PacketAssumption DEF TypeInv
<1>5. channel' = IF n < Len(h) THEN <<y>> \o t ELSE t  BY DEF PollRead
<1>6. FlattenSeq(channel) = h \o FlattenSeq(t)
  <2> HIDE DEF h, t
  <2> QED  BY <1>2, FlattenHead
<1>7. k \in Nat /\ k <= Len(h) /\ k <= n
  <2> HIDE DEF h
  <2> QED  BY <1>3 DEF h
<1>8. x \in Seq(Byte)
  <2>1. 0 \in Nat /\ 0 <= k /\ 0 + 1 = 1  BY <1>7
  <2>2. SubSeq(h, 0 + 1, k) \in Seq(Byte)  BY <1>2, <1>7, <2>1, SliceType
  <2> QED  BY <2>1, <2>2
<1>9. CASE n < Len(h)
  <2>1. y \in R
    <3>1. n \in 0..Len(h) /\ Len(h) \in n..Len(h)  BY <1>3, <1>9
    <3> HIDE DEF h
    <3> QED  BY <1>2, <3>1, SlicesAreChunks
  <2>2. y \in Seq(Byte)
    <3>1. n \in Nat /\ n <= Len(h) /\ Len(h) <= Len(h)  BY <1>3, <1>9
    <3> HIDE DEF h
    <3> QED  BY <1>2, <1>3, <3>1, SliceType
  <2>3. x \o y = h
    <3>1. k = n  BY <1>9
    <3>2. /\ 1 \in 1..Len(h) + 1 /\ n \in 1 - 1..Len(h) /\ Len(h) \in n..Len(h)  BY <1>3, <1>9
    <3> HIDE DEF h
    <3>3. SubSeq(h, 1, n) \o SubSeq(h, n + 1, Len(h)) = SubSeq(h, 1, Len(h))
      BY <1>2, <3>2, ConcatAdjacentSubSeq
    <3>4. SubSeq(h, 1, Len(h)) = h  BY <1>2, SubSeqFull
    <3> QED  BY <3>1, <3>3, <3>4
  <2>4. channel' = <<y>> \o t  BY <1>5, <1>9
  <2>5. <<y>> \in Seq(R) /\ Len(<<y>>) = 1
    <3> HIDE DEF y, R
    <3> QED  BY <2>1
  <2> HIDE DEF h, t, x, y, R
  <2>6. channel' \in Seq(R) /\ Len(channel') = 1 + Len(t)  BY <1>2, <2>4, <2>5, ConcatProperties
  <2>7. FlattenSeq(channel') = y \o FlattenSeq(t)  BY <1>2, <2>2, <2>4, FlattenHead
  <2>8. FlattenSeq(t) \in Seq(Byte)  BY <1>2, FlattenType
  <2>9. x \o (y \o FlattenSeq(t)) = (x \o y) \o FlattenSeq(t)
    BY <1>8, <2>2, <2>8, Assoc, Zenon
  <2>10. x \o FlattenSeq(channel') = FlattenSeq(channel)  BY <1>6, <2>3, <2>7, <2>9
  <2>11. Len(channel') <= Capacity  BY <1>2, <1>4, <2>6
  <2> QED  BY <1>1, <1>2, <1>7, <1>8, <2>6, <2>10, <2>11 DEF h, t, x, R, Chunks
<1>10. CASE ~(n < Len(h))
  <2>1. k = Len(h) /\ channel' = t  BY <1>5, <1>10
  <2>2. x = h
    <3>1. SubSeq(h, 1, Len(h)) = h
      <4> HIDE DEF h
      <4> QED  BY <1>2, SubSeqFull
    <3> QED  BY <2>1, <3>1
  <2> HIDE DEF h, t, x, R
  <2> QED  BY <1>1, <1>2, <1>6, <1>7, <1>8, <2>1, <2>2 DEF h, t, x, R, Chunks
<1> QED  BY <1>9, <1>10

\* A read_exact takes no more than it wants, also where each byte of a varint says whether
\* one more is wanted.
LEMMA AsyncReadType ==
  ASSUME TypeInv, ReadsAsyncRead, UNCHANGED callerVars
  PROVE  TypeInv'
<1> USE DEF sourceVars
<1>1. OverAsyncRead /\ stream # "PacketChannelBroadcastStream" /\ offset = 0
  BY DEF ReadsAsyncRead, OverAsyncRead, TypeInv
<1>2. UNCHANGED <<stream, recording, unsent, closed, drops, torn, offset>>
  BY DEF ReadsAsyncRead, ReadExact, ReadExactFails, start_reading, read_cmd_header_async,
         read_cmd_async, PollRead, RecvNone, callerVars
<1>3. /\ Recordings' = Recordings /\ Chunk' = Chunk /\ Chunks' = Chunks /\ Handled' = Handled
      /\ DemoFormat' = DemoFormat /\ OverAsyncRead' = OverAsyncRead
  BY <1>2, RecordingStays
<1>4. /\ Len(current) \in Nat /\ current \in Chunk /\ channel \in Chunks
      /\ Len(channel) <= Capacity
  BY ByteSeqs DEF TypeInv
<1>5. <<>> \in Chunk /\ Len(<<>>) = 0  BY EmptySeq DEF Chunk
<1>6. ASSUME current' \in Chunk PROVE offset' \in 0..Len(current')
  BY <1>1, <1>2, <1>6, LenProperties DEF Chunk
<1>7. SUFFICES /\ current' \in Chunk /\ channel' \in Chunks /\ Len(channel') <= Capacity
               /\ header_skipped' \in BOOLEAN /\ (~header_skipped' => cmd' = 0 /\ handled' = <<>>)
               /\ Parsing' /\ (pc' # "done" => Left' >= 0)
               /\ (~header_skipped' => DemoFormat)
  BY <1>1, <1>2, <1>3, <1>6 DEF TypeInv, Parsing
<1>8. CASE ReadExact
  <2> DEFINE h == Head(channel)
             k == IF Room < Len(h) THEN Room ELSE Len(h)
  <2>1. /\ Reading /\ PollRead(Room) /\ UNCHANGED <<header_skipped, pc, cmd, handled, outcome>>
        /\ current' = current \o SubSeq(h, 1, k)
    BY <1>8 DEF ReadExact, parserVars
  <2>2. Room \in Nat \ {0}  BY <1>1, <2>1, LeftFacts DEF Reading
  <2>3. /\ h \in Chunk /\ k \in Nat /\ k <= Len(h) /\ k <= Room
        /\ channel' \in Chunks /\ Len(channel') <= Capacity
    BY <2>1, <2>2, PollFacts
  <2> HIDE DEF h, k
  <2>4. current' \in Chunk /\ Left' >= 0  BY <1>1, <1>2, <2>1, <2>3, LessIsLeft
  <2>5. Parsing'  BY <1>2, <2>1, ParsingType DEF parserVars
  <2> QED  BY <2>1, <2>3, <2>4, <2>5 DEF TypeInv
<1>9. CASE ReadExactFails
  <2>1. /\ pc # "done" /\ (Returns("ok") \/ Returns("error"))
        /\ current' = <<>> /\ UNCHANGED <<header_skipped, channel>>
    BY <1>9 DEF ReadExactFails, Reading, RecvNone, OnHeaderError, OnBodyError
  <2>2. pc # "done"  BY <1>9 DEF ReadExactFails, Reading
  <2>3. Parsing'  BY <1>2, <2>1, <2>2, ParsingType
  <2>4. pc' = "done" /\ UNCHANGED <<cmd, handled>>  BY <2>1 DEF Returns
  <2> QED  BY <1>4, <1>5, <2>1, <2>3, <2>4 DEF TypeInv
<1>10. CASE start_reading
  <2>1. /\ UNCHANGED <<channel, pc, cmd, handled, outcome>> /\ pc = "header" /\ header_skipped' = TRUE
        /\ current' = <<>>
    BY <1>10 DEF start_reading, parserVars
  <2>2. Parsing'  BY <1>2, <2>1, ParsingType DEF parserVars
  <2>3. Left' = HeaderLeft'  BY <2>1 DEF Left
  <2>4. HeaderLeft' = IF stream = "AsyncBroadcastStream" THEN BROADCAST_CMD_HEADER_SIZE - 0 ELSE 1
    BY <1>2, <2>1 DEF HeaderLeft
  <2>5. Left' >= 0  BY <2>3, <2>4, PacketAssumption
  <2> QED  BY <1>4, <1>5, <2>1, <2>2, <2>5 DEF TypeInv
<1>11. CASE read_cmd_header_async
  <2>1. /\ UNCHANGED <<channel, header_skipped>> /\ pc = "header" /\ header_skipped /\ Left = 0
        /\ current' = <<>> /\ GotHeader(current[1])
    BY <1>11 DEF read_cmd_header_async
  <2>2. current # <<>>
    <3> SUFFICES ASSUME current = <<>> PROVE FALSE  OBVIOUS
    <3>1. HeaderLeft = IF stream = "AsyncBroadcastStream" THEN BROADCAST_CMD_HEADER_SIZE - 0 ELSE 1
      BY DEF HeaderLeft
    <3> QED  BY <1>1, <2>1, <3>1, LeftFacts, PacketAssumption
  <2>3. current[1] \in RecByte  BY <1>1, <2>2, LeftFacts
  <2>4. Parsing' /\ (pc' # "done" => pc' = "body" /\ cmd' \in 1..Len(recording))
    BY <1>2, <2>1, <2>3, ParsingType, RecByteFacts
  <2>5. pc' # "done" => Left' >= 0
    <3> SUFFICES ASSUME pc' # "done" PROVE Left' >= 0  OBVIOUS
    <3>1. Left' = recording[cmd'].body - 0  BY <1>2, <2>1, <2>4 DEF Left
    <3>2. recording[cmd'].body \in Nat  BY <2>4, RecordingFacts DEF TypeInv
    <3> QED  BY <3>1, <3>2
  <2> QED  BY <1>4, <1>5, <2>1, <2>4, <2>5 DEF TypeInv
<1>12. CASE read_cmd_async
  <2>1. /\ UNCHANGED <<channel, header_skipped>> /\ pc = "body" /\ current' = <<>> /\ GotBody(current)
        /\ pc' = "header"
    BY <1>12 DEF read_cmd_async, GotBody
  <2>2. Parsing'  BY <1>2, <1>4, <2>1, ParsingType
  <2>3. header_skipped  BY <2>1 DEF TypeInv
  <2>4. Left' = HeaderLeft'  BY <2>1, <2>3 DEF Left
  <2>5. HeaderLeft' = IF stream = "AsyncBroadcastStream" THEN BROADCAST_CMD_HEADER_SIZE - 0 ELSE 1
    BY <1>2, <2>1 DEF HeaderLeft
  <2>6. Left' >= 0  BY <2>4, <2>5, PacketAssumption
  <2> QED  BY <1>4, <1>5, <2>1, <2>2, <2>3, <2>6 DEF TypeInv
<1> QED  BY <1>8, <1>9, <1>10, <1>11, <1>12 DEF ReadsAsyncRead

\* Every step keeps the type invariant.
LEMMA TypeStep == TypeInv /\ [Next]_vars => TypeInv'
<1> SUFFICES ASSUME TypeInv, [Next]_vars PROVE TypeInv'  OBVIOUS
<1>1. CASE Sender  BY <1>1, SendType
<1>2. CASE Parser
  BY <1>2, DemoPacketsType, BroadcastPacketsType, AsyncReadType DEF Parser
<1>3. CASE Drop  BY <1>3, DropType
<1>4. CASE UNCHANGED vars
  BY <1>4 DEF vars, sourceVars, streamVars, parserVars, callerVars, TypeInv, Recordings, DemoFormat,
              OverAsyncRead, Handled, Chunks, Chunk, RecByte, Left, HeaderLeft, StartsHeader
<1> QED  BY <1>1, <1>2, <1>3, <1>4 DEF Next

\* So it always holds.
LEMMA TypeInvariant == Spec => []TypeInv
BY InitType, TypeStep, PTL DEF Spec

\* The reader is inside its buffer, the channel within its capacity, and the run where
\* run_internal can be, for every one of the four AsyncDemoStream implementors, every
\* recording, every cut of it and every sequence of dropped futures.
THEOREM TypeCorrect == Spec => []TypeOK
<1>1. TypeInv => TypeOK
  <2> SUFFICES ASSUME TypeInv PROVE TypeOK  OBVIOUS
  <2>1. Range(current) \subseteq Byte  BY ByteSeqs, RangeOfSeq
  <2>2. cmd \in 0..MaxCommands  BY RecordingFacts, PacketAssumption DEF TypeInv
  <2> QED  BY <2>1, <2>2 DEF TypeOK, TypeInv
<1> QED  BY <1>1, TypeInvariant, PTL

------------------------------------------------------------------------------
(* What is read is what was sent.                                          *)

\* How far in the recording the parser is, what its stream has of the rest, and what
\* is still on its way.
At     == IF ~header_skipped THEN 0
          ELSE StartOfCommand(Len(handled) + 1) + IF cmd = 0 THEN 0 ELSE recording[cmd].header
Behind == FlattenSeq(channel) \o unsent

\* The commands handled are the first of the recording, and the one in hand is the next.
Handling ==
  /\ Len(handled) <= Len(recording)
  /\ \A i \in 1..Len(handled) : handled[i] = [of |-> i, body |-> Body(i)]
  /\ cmd # 0 => cmd = Len(handled) + 1

\* As long as the run goes on, what is not read is the rest of the recording.
SentInv ==
  ~torn =>
    /\ Handling
    /\ outcome = "running" => Continues(current, offset, Behind, Arrived, At)

\* The place is in the recording: at the file header, at the start of a command, or
\* behind the header of the command in hand.
LEMMA AtFacts ==
  ASSUME TypeInv, SentInv, ~torn
  PROVE  /\ At \in 0..Len(Arrived) /\ Len(Arrived) \in Nat /\ Arrived \in Seq(Byte)
         /\ Len(handled) \in Nat /\ Len(handled) + 1 \in 1..Len(recording) + 1
         /\ StartOfCommand(Len(handled) + 1) \in Nat
         /\ header_skipped /\ cmd = 0 => At = StartOfCommand(Len(handled) + 1)
         /\ cmd # 0 => /\ header_skipped /\ cmd = Len(handled) + 1 /\ cmd \in 1..Len(recording)
                       /\ At = StartOfCommand(cmd) + recording[cmd].header
<1> DEFINE n == Len(handled)
           N == Len(recording)
           s == StartOfCommand(n + 1)
<1>1. recording \in Recordings /\ cmd \in 0..N /\ header_skipped \in BOOLEAN  BY DEF TypeInv
<1>2. n \in Nat /\ N \in Nat /\ n <= N  BY ByteSeqs DEF SentInv, Handling
<1>3. n + 1 \in 1..N + 1 /\ n + 1 \in n + 1..N + 1  BY <1>2
<1>4. s \in Nat /\ s <= Len(Arrived)  BY <1>1, <1>3, StartsGrow
<1>5. Len(Arrived) \in Nat /\ Arrived \in Seq(Byte)  BY <1>1, ArrivedFacts
<1>6. cmd # 0 => header_skipped /\ cmd = n + 1  BY DEF TypeInv, SentInv, Handling
<1>7. CASE ~header_skipped
  BY <1>3, <1>4, <1>5, <1>6, <1>7, <1>2 DEF At
<1>8. CASE header_skipped /\ cmd = 0
  <2>1. At = s  BY <1>4, <1>8 DEF At
  <2> HIDE DEF s
  <2> QED  BY <1>2, <1>3, <1>4, <1>5, <1>8, <2>1 DEF s
<1>9. CASE cmd # 0
  <2>1. cmd = n + 1 /\ cmd \in 1..N /\ header_skipped  BY <1>1, <1>2, <1>6, <1>9
  <2>2. At = StartOfCommand(cmd) + recording[cmd].header  BY <1>9, <2>1 DEF At
  <2> DEFINE h == recording[cmd].header
             b == recording[cmd].body
             t == StartOfCommand(cmd)
  <2>3. t \in Nat /\ h \in Nat \ {0} /\ b \in Nat /\ t + h + b <= Len(Arrived)
    BY <1>1, <2>1, Layout
  <2> HIDE DEF h, b, t
  <2>4. t + h \in 0..Len(Arrived)  BY <1>5, <2>3
  <2> QED  BY <1>2, <1>3, <1>4, <1>5, <1>9, <2>1, <2>2, <2>4 DEF t, h
<1> QED  BY <1>7, <1>8, <1>9

\* At a command's start, a byte is the first of the next command's header.
LEMMA HeaderComes ==
  ASSUME TypeInv, SentInv, ~torn, pc = "header", header_skipped,
         NEW c, NEW o, NEW y, Continues(c, o, y, Arrived, At), o < Len(c),
         NEW i, i = Len(handled) + 1
  PROVE  /\ i \in 1..Len(recording) /\ At = StartOfCommand(i)
         /\ c[o + 1] = [of |-> i, part |-> "header", at |-> 1]
<1> DEFINE N == Len(recording)
           w == Arrived
           a == At
<1>1. /\ a \in 0..Len(w) /\ i \in 1..N + 1 /\ Len(w) \in Nat /\ a = StartOfCommand(i)
  BY AtFacts DEF TypeInv
<1>2. N \in Nat /\ recording \in Recordings  BY ByteSeqs DEF TypeInv
<1>5. c[o + 1] = w[a + 1] /\ a + 1 <= Len(w)  BY NextByte
<1> HIDE DEF a, w, N
<1>7. i \in 1..N
  <2> SUFFICES ASSUME i = N + 1 PROVE FALSE  BY <1>1, <1>2
  <2>1. StartOfCommand(N + 1) = Len(w)  BY <1>2, ArrivedFacts DEF N, w
  <2> QED  BY <1>1, <1>5, <2>1
<1>8. w[a + 1] = [of |-> i, part |-> "header", at |-> 1]
  <2>1. /\ recording[i].header \in Nat \ {0}
        /\ \A k \in 1..recording[i].header :
             w[StartOfCommand(i) + k] = [of |-> i, part |-> "header", at |-> k]
    BY <1>2, <1>7, Layout DEF N, w
  <2>2. 1 \in 1..recording[i].header  BY <2>1
  <2> QED  BY <1>1, <2>1, <2>2
<1> QED  BY <1>1, <1>5, <1>7, <1>8 DEF N, a

\* The header is read as that of the next command.
LEMMA HeaderSent ==
  ASSUME TypeInv, SentInv, ~torn, pc = "header", header_skipped,
         UNCHANGED <<stream, recording, header_skipped>>,
         NEW c, NEW o, NEW y, Continues(c, o, y, Arrived, At), o < Len(c),
         GotHeader(c[o + 1]),
         NEW i, i = Len(handled) + 1
  PROVE  /\ StartsHeader(c[o + 1]) /\ c[o + 1].of = i /\ i \in 1..Len(recording)
         /\ pc' = "body" /\ cmd' = i /\ UNCHANGED <<handled, outcome>>
         /\ Handling' /\ At' = At + recording[i].header
         /\ o + recording[i].header <= Len(c)
              => Continues(c, o + recording[i].header, y, Arrived, At)'
<1> DEFINE h == recording[i].header
<1>1. /\ i \in 1..Len(recording) /\ At = StartOfCommand(i)
      /\ c[o + 1] = [of |-> i, part |-> "header", at |-> 1]
  BY HeaderComes
<1>2. StartsHeader(c[o + 1]) /\ c[o + 1].of = i  BY <1>1 DEF StartsHeader
<1>3. pc' = "body" /\ cmd' = i /\ UNCHANGED <<handled, outcome>>  BY <1>2 DEF GotHeader
<1>4. recording \in Recordings /\ Len(recording) \in Nat  BY ByteSeqs DEF TypeInv
<1>5. h \in Nat  BY <1>1, <1>4, RecordingFacts
<1>6. Arrived' = Arrived /\ StartOfCommand(i)' = StartOfCommand(i)
  BY RecordingStays
<1>7. At' = At + h
  <2>1. i # 0  BY <1>1, <1>4
  <2>2. (Len(handled) + 1)' = i  BY <1>3
  <2>3. StartOfCommand(Len(handled) + 1)' = StartOfCommand(i)
    BY <1>6, <2>2 DEF StartOfCommand
  <2>4. At' = StartOfCommand(Len(handled) + 1)' + recording'[cmd'].header  BY <1>3, <2>1 DEF At
  <2> QED  BY <1>1, <1>3, <2>3, <2>4
<1>8. o + h <= Len(c) => Continues(c, o + h, y, Arrived, At + h)
  <2> SUFFICES ASSUME o + h <= Len(c) PROVE Continues(c, o + h, y, Arrived, At + h)  OBVIOUS
  <2> DEFINE m == o + h
             n == At + h
  <2>1. m \in o..Len(c) /\ n = At + (m - o)
    <3> HIDE DEF h
    <3> QED  BY <1>5, AtFacts, LenProperties DEF Continues
  <2> HIDE DEF m, n
  <2>2. Continues(c, m, y, Arrived, n)  BY <2>1, Taken
  <2> QED  BY <2>2 DEF m, n
<1>9. o + h <= Len(c) => Continues(c, o + h, y, Arrived, At)'  BY <1>3, <1>6, <1>7, <1>8 DEF Continues
<1>10. Handling'
  <2>1. \A j : Body(j)' = Body(j)  BY RecordingStays
  <2>2. Handling  BY DEF SentInv
  <2> QED  BY <1>3, <2>1, <2>2 DEF Handling
<1> QED  BY <1>1, <1>2, <1>3, <1>7, <1>9, <1>10

\* The body is read as that of the command in hand.
LEMMA BodySent ==
  ASSUME TypeInv, SentInv, ~torn, pc = "body",
         UNCHANGED <<stream, recording, header_skipped>>,
         NEW c, NEW o, NEW y, Continues(c, o, y, Arrived, At),
         NEW m, m = o + recording[cmd].body, m <= Len(c),
         GotBody(Cut(c, o, m))
  PROVE  /\ Handling' /\ UNCHANGED outcome /\ cmd' = 0
         /\ Continues(c, m, y, Arrived, At)'
<1> DEFINE b == recording[cmd].body
           h == recording[cmd].header
           n == At + b
           s == StartOfCommand(cmd)
<1>1. /\ cmd \in 1..Len(recording) /\ cmd = Len(handled) + 1 /\ Len(handled) \in Nat
      /\ At = s + h /\ recording \in Recordings /\ Len(recording) \in Nat /\ header_skipped
  BY AtFacts, ByteSeqs DEF TypeInv
<1>2. /\ s \in Nat /\ h \in Nat \ {0} /\ b \in Nat /\ StartOfCommand(cmd + 1) = s + h + b
      /\ SubSeq(Arrived, s + h + 1, s + h + b) = Body(cmd)
  BY <1>1, Layout
<1>3. m \in o..Len(c) /\ n = At + (m - o)
  <2>1. m = o + b  OBVIOUS
  <2> HIDE DEF b, h, s
  <2> QED  BY SMTT(60), <1>1, <1>2, <2>1, LenProperties DEF Continues
<1>4. Continues(c, m, y, Arrived, n) /\ Cut(c, o, m) = Cut(Arrived, At, n)
  <2> HIDE DEF n
  <2>1. Continues(c, m, y, Arrived, n)  BY <1>3, Taken
  <2>2. Cut(c, o, m) = Cut(Arrived, At, n)  BY <1>3, Taken
  <2> QED  BY <2>1, <2>2
<1>5. Cut(Arrived, At, n) = Body(cmd)
  <2>1. Cut(Arrived, At, n) = SubSeq(Arrived, s + h + 1, s + h + b)  BY <1>1 DEF Cut
  <2> QED  BY <1>2, <2>1
<1> DEFINE x == [of |-> cmd, body |-> Body(cmd)]
<1>6. handled' = Append(handled, x) /\ cmd' = 0 /\ outcome' = outcome
  BY <1>4, <1>5 DEF GotBody
<1>7. /\ Len(handled') = Len(handled) + 1
      /\ \A i \in 1..Len(handled) : handled'[i] = handled[i]
      /\ handled'[Len(handled) + 1] = x
  <2>1. x \in [of : 1..Len(recording), body : {Body(cmd)} \cup Chunk]  BY <1>1
  <2> DEFINE S == [of : 1..Len(recording), body : {Body(cmd)} \cup Chunk]
             T == [of : 1..Len(recording), body : Chunk]
  <2>2. handled \in Seq(T) /\ T \subseteq S  BY DEF TypeInv, Handled
  <2> HIDE DEF S, T, x
  <2>3. handled \in Seq(S)  BY <2>2, SeqMonotonic
  <2>4. x \in S  BY <2>1 DEF S
  <2> QED  BY <1>6, <2>3, <2>4, AppendProperties
<1>8. \A j : Body(j)' = Body(j)  BY RecordingStays
<1>9. Handling'
  <2>1. \A i \in 1..Len(handled) : handled[i] = [of |-> i, body |-> Body(i)]
    BY DEF SentInv, Handling
  <2>2. Len(handled') <= Len(recording)  BY <1>1, <1>7
  <2>3. ASSUME NEW i \in 1..Len(handled') PROVE handled'[i] = [of |-> i, body |-> Body(i)]
    <3>1. CASE i = cmd  BY <1>1, <1>7, <3>1
    <3>2. CASE i # cmd
      <4>1. i \in 1..Len(handled)  BY <1>1, <1>7, <3>2
      <4> QED  BY <1>7, <2>1, <4>1
    <3> QED  BY <3>1, <3>2
  <2> QED  BY <1>6, <1>8, <2>2, <2>3 DEF Handling
<1>10. At' = n
  <2> DEFINE i == Len(handled') + 1
  <2>1. i = cmd + 1  BY <1>1, <1>7
  <2>2. At' = StartOfCommand(Len(handled) + 1)' + 0  BY <1>1, <1>6 DEF At
  <2>3. \A j : StartOfCommand(j)' = StartOfCommand(j)  BY RecordingStays
  <2>4. StartOfCommand(Len(handled) + 1)' = StartOfCommand(cmd + 1)
    BY <2>1, <2>3 DEF StartOfCommand
  <2>5. StartOfCommand(cmd + 1) = n /\ n \in Nat
    <3>1. StartOfCommand(cmd + 1) = s + h + b /\ s \in Nat /\ h \in Nat /\ b \in Nat /\ n = s + h + b
      BY <1>1, <1>2
    <3> HIDE DEF s, h, b, n
    <3> QED  BY <3>1
  <2>6. At' = StartOfCommand(cmd + 1) + 0  BY <2>2, <2>4
  <2> HIDE DEF n, s, h, b, i
  <2> QED  BY <2>5, <2>6
<1>11. Continues(c, m, y, Arrived, At)'
  <2>1. Arrived' = Arrived  BY RecordingStays
  <2> HIDE DEF n
  <2> QED  BY <1>4, <1>10, <2>1 DEF Continues
<1> QED  BY <1>6, <1>9, <1>11

\* Past the file header begins the first command.
LEMMA FileHeaderSent ==
  ASSUME TypeInv, SentInv, ~torn, ~header_skipped, header_skipped',
         UNCHANGED <<stream, recording, parserVars>>,
         NEW c, NEW o, NEW y, Continues(c, o, y, Arrived, At),
         NEW m, m = o + DEMO_HEADER_SIZE, m <= Len(c)
  PROVE  Handling' /\ Continues(c, m, y, Arrived, At)'
<1> DEFINE n == At + DEMO_HEADER_SIZE
<1>1. /\ DemoFormat /\ cmd = 0 /\ handled = <<>> /\ recording \in Recordings
      /\ DEMO_HEADER_SIZE \in Nat
  BY PacketAssumption DEF TypeInv
<1>2. m \in o..Len(c) /\ n = At + (m - o)
  BY <1>1, AtFacts, LenProperties DEF Continues
<1>3. Continues(c, m, y, Arrived, n)
  <2> HIDE DEF n
  <2> QED  BY <1>2, Taken
<1>4. At = 0  BY DEF At
<1>5. StartOfCommand(1) = DEMO_HEADER_SIZE  BY <1>1, ArrivedFacts, FileHeaderFacts
<1>6. UNCHANGED <<handled, cmd, outcome>>  BY DEF parserVars
<1>7. At' = n
  <2>1. Len(handled') + 1 = 1  BY <1>1, <1>6
  <2>2. \A j : StartOfCommand(j)' = StartOfCommand(j)  BY RecordingStays
  <2>3. StartOfCommand(Len(handled) + 1)' = StartOfCommand(1)
    BY <2>1, <2>2 DEF StartOfCommand
  <2>4. At' = StartOfCommand(Len(handled) + 1)' + 0  BY <1>1, <1>6 DEF At
  <2> QED  BY <1>1, <1>4, <1>5, <2>3, <2>4
<1>8. Handling'
  <2>1. \A j : Body(j)' = Body(j)  BY RecordingStays
  <2>2. Handling  BY DEF SentInv
  <2> QED  BY <1>6, <2>1, <2>2 DEF Handling
<1>9. Continues(c, m, y, Arrived, At)'
  <2>1. Arrived' = Arrived  BY RecordingStays
  <2> HIDE DEF n
  <2> QED  BY <1>3, <1>7, <2>1 DEF Continues
<1> QED  BY <1>8, <1>9

\* A chunk moves from what is behind to the end of the buffer.
LEMMA ChunkJoins ==
  ASSUME NEW c, NEW o, NEW x \in Seq(Byte), NEW z \in Seq(Byte), NEW w, NEW a,
         Continues(c, o, x \o z, w, a)
  PROVE  /\ Continues(SubSeq(c, o + 1, Len(c)) \o x, 0, z, w, a)
         /\ o = Len(c) => Continues(x, 0, z, w, a)
         /\ o = 0 => Continues(c \o x, 0, z, w, a)
<1> DEFINE d == SubSeq(c, o + 1, Len(c))
           e == d \o x
           v == SubSeq(w, a + 1, Len(w))
<1>1. /\ c \in Seq(Byte) /\ w \in Seq(Byte) /\ o \in 0..Len(c) /\ a \in 0..Len(w)
      /\ d \o (x \o z) = v
  BY DEF Continues
<1>2. Len(c) \in Nat  BY <1>1, LenProperties
<1>3. d \in Seq(Byte)
  <2>1. o \in Nat /\ Len(c) \in Nat /\ o <= Len(c) /\ Len(c) <= Len(c)  BY <1>1, <1>2
  <2> QED  BY <1>1, <2>1, SliceType
<1>4. o = Len(c) => d = <<>>  BY <1>2, SubSeqEmpty
<1>5. o = 0 => d = c
  <2>1. 0 + 1 = 1  OBVIOUS
  <2> QED  BY <1>1, <2>1, SubSeqFull
<1> HIDE DEF d, v
<1>6. e \in Seq(Byte) /\ <<>> \o x = x  BY <1>3, ConcatProperties, ConcatEmptySeq
<1>7. e \o z = v  BY <1>1, <1>3, Assoc, Zenon
<1> HIDE DEF e
<1>8. SubSeq(e, 0 + 1, Len(e)) = e /\ Len(e) \in Nat
  <2>1. 0 + 1 = 1  OBVIOUS
  <2> QED  BY <1>6, <2>1, SubSeqFull, LenProperties
<1>9. Continues(e, 0, z, w, a)
  <2>1. 0 \in 0..Len(e)  BY <1>8
  <2>2. SubSeq(e, 0 + 1, Len(e)) \o z = SubSeq(w, a + 1, Len(w))  BY <1>7, <1>8 DEF v
  <2> QED  BY <1>1, <1>6, <2>1, <2>2 DEF Continues
<1>10. o = Len(c) => e = x  BY <1>4, <1>6 DEF e
<1>11. o = 0 => e = c \o x  BY <1>5 DEF e
<1> QED  BY <1>9, <1>10, <1>11 DEF e, d

\* A buffer that is read may be left.
LEMMA Emptied ==
  ASSUME NEW c, NEW y, NEW w, NEW a, Continues(c, Len(c), y, w, a)
  PROVE  Continues(<<>>, 0, y, w, a)
<1>1. y = SubSeq(w, a + 1, Len(w))  BY NextBehind
<1>2. y \in Seq(Byte) /\ w \in Seq(Byte) /\ a \in 0..Len(w)  BY DEF Continues
<1>3. <<>> \in Seq(Byte) /\ Len(<<>>) = 0  BY EmptySeq
<1>4. SubSeq(<<>>, 0 + 1, Len(<<>>)) = <<>>  BY <1>3, SubSeqEmpty
<1>5. <<>> \o y = y  BY <1>2, ConcatEmptySeq
<1>6. 0 \in 0..Len(<<>>)  BY <1>3
<1> QED  BY <1>1, <1>2, <1>3, <1>4, <1>5, <1>6 DEF Continues

\* What a received chunk leaves behind it.
LEMMA ReceivedFrom ==
  ASSUME TypeInv, channel # <<>>, channel' = Tail(channel), unsent' = unsent
  PROVE  Behind = Head(channel) \o Behind' /\ Behind' \in Seq(Byte)
<1> DEFINE h == Head(channel)
           t == Tail(channel)
<1>1. h \in Seq(Byte) /\ t \in Seq(Seq(Byte)) /\ channel = <<h>> \o t  BY ChannelFacts
<1>2. unsent \in Seq(Byte)  BY ByteSeqs
<1> HIDE DEF h, t
<1>3. FlattenSeq(channel) = h \o FlattenSeq(t)  BY <1>1, FlattenHead
<1>4. FlattenSeq(t) \in Seq(Byte)  BY <1>1, FlattenType
<1>5. (h \o FlattenSeq(t)) \o unsent = h \o (FlattenSeq(t) \o unsent)
  BY <1>1, <1>2, <1>4, Assoc, Zenon
<1>6. Behind' = FlattenSeq(t) \o unsent  BY DEF Behind, t
<1>7. Behind' \in Seq(Byte)  BY <1>2, <1>4, <1>6, ConcatProperties
<1> QED  BY <1>3, <1>5, <1>6, <1>7 DEF Behind, h

\* When the parser does nothing, or ends.
LEMMA HandlingStays ==
  ASSUME TypeInv, SentInv, ~torn, UNCHANGED <<stream, recording, cmd, handled>>
  PROVE  Handling' /\ (header_skipped' = header_skipped => At' = At)
<1>1. \A j : Body(j)' = Body(j)  BY RecordingStays
<1>2. Handling  BY DEF SentInv
<1>3. Handling'  BY <1>1, <1>2 DEF Handling
<1>4. StartOfCommand(Len(handled) + 1)' = StartOfCommand(Len(handled) + 1)
  BY RecordingStays DEF StartOfCommand
<1>5. header_skipped' = header_skipped => At' = At  BY <1>4 DEF At
<1> QED  BY <1>3, <1>5

\* The commands a stream is made with and those to be sent are the recording.
LEMMA InitSent == Init => SentInv
<1> SUFFICES ASSUME Init PROVE SentInv  OBVIOUS
<1> DEFINE N == Len(recording)
<1>1. PICK initial \in 0..N :
         /\ stream # "PacketChannelBroadcastStream" => initial = 0
         /\ current = Commands(0, initial)
         /\ unsent = FileHeader \o Commands(initial, N)
  BY DEF Init
<1>2. /\ recording \in Recordings /\ stream \in Streams /\ channel = <<>> /\ offset = 0
      /\ header_skipped = ~DemoFormat /\ cmd = 0 /\ handled = <<>> /\ Len(handled) = 0
  BY DEF Init
<1>3. N \in Nat  BY <1>2, RecordingFacts
<1>4. 0 \in 0..N /\ initial \in 0..N /\ N \in initial..N /\ N \in 0..N  BY <1>3
<1> DEFINE f == FileHeader
           p == Commands(0, initial)
           q == Commands(initial, N)
           w == Commands(0, N)
<1>5. p \in Seq(Byte) /\ q \in Seq(Byte) /\ w \in Seq(Byte) /\ f \in Seq(Byte) /\ w = p \o q
  <2>1. w = p \o q  BY <1>2, <1>4, CommandsSplit
  <2>2. p \in Seq(Byte) /\ q \in Seq(Byte) /\ w \in Seq(Byte)  BY <1>2, <1>4, PiecesFacts
  <2> QED  BY <2>1, <2>2, FileHeaderFacts
<1>6. p = <<>> \/ f = <<>>
  <2>1. initial = 0 => p = <<>>  BY <1>2, NoCommands
  <2>2. stream = "PacketChannelBroadcastStream" => f = <<>>  BY DEF FileHeader, DemoFormat
  <2> QED  BY <1>1, <2>1, <2>2
<1>7. Handling  BY <1>2, <1>3 DEF Handling
<1>8. At = 0
  <2>1. CASE ~header_skipped  BY <2>1 DEF At
  <2>2. CASE header_skipped
    <3>1. ~DemoFormat  BY <1>2, <2>2
    <3>2. Len(FileHeader) = 0  BY <3>1, FileHeaderFacts
    <3>3. Len(handled) + 1 = 1  BY <1>2
    <3>4. At = StartOfCommand(1) + 0  BY <1>2, <2>2, <3>3 DEF At
    <3> QED  BY <1>2, <3>2, <3>4, ArrivedFacts
  <2> QED  BY <2>1, <2>2
<1>9. Arrived \in Seq(Byte) /\ Len(Arrived) \in Nat /\ Arrived = f \o w
  BY <1>2, ArrivedFacts DEF Arrived
<1>10. Behind = f \o q
  <2>1. FlattenSeq(channel) = <<>>  BY <1>2, EmptySeq DEF FlattenSeq
  <2>2. f \o q \in Seq(Byte)  BY <1>5, ConcatProperties
  <2>3. <<>> \o (f \o q) = f \o q  BY <2>2, ConcatEmptySeq
  <2> QED  BY <1>1, <2>1, <2>3 DEF Behind
<1> HIDE DEF f, p, q, w
<1>11. f \o q \in Seq(Byte)  BY <1>5, ConcatProperties
<1>12. p \o (f \o q) = f \o w
  <2>1. CASE p = <<>>
    <3>1. w = q  BY <1>5, <2>1, ConcatEmptySeq
    <3> QED  BY <1>11, <2>1, <3>1, ConcatEmptySeq
  <2>2. CASE f = <<>>
    <3>1. f \o q = q /\ f \o w = w  BY <1>5, <2>2, ConcatEmptySeq
    <3> QED  BY <1>5, <3>1
  <2> QED  BY <1>6, <2>1, <2>2
<1>13. Continues(current, offset, Behind, Arrived, At)
  <2>1. current = p  BY <1>1 DEF p
  <2>2. 0 + 1 = 1 /\ 0 \in 0..Len(p) /\ 0 \in 0..Len(Arrived)
    BY <1>5, <1>9, LenProperties
  <2>3. SubSeq(p, 1, Len(p)) = p  BY <1>5, SubSeqFull
  <2>4. SubSeq(Arrived, 1, Len(Arrived)) = Arrived  BY <1>9, SubSeqFull
  <2>5. SubSeq(p, 0 + 1, Len(p)) \o (f \o q) = SubSeq(Arrived, 0 + 1, Len(Arrived))
    BY <1>9, <1>12, <2>2, <2>3, <2>4
  <2> QED  BY <1>2, <1>5, <1>8, <1>9, <1>10, <1>11, <2>1, <2>2, <2>5 DEF Continues
<1> QED  BY <1>7, <1>13 DEF SentInv

\* What the sender sends was behind the buffer, and is.
LEMMA SenderSent ==
  ASSUME TypeInv, SentInv, Sender
  PROVE  SentInv'
<1>1. /\ UNCHANGED <<stream, recording>>
      /\ UNCHANGED <<current, offset, header_skipped, pc, cmd, handled, outcome, torn>>
  BY DEF Sender, Send, Close, streamVars, parserVars, callerVars
<1>2. Behind' = Behind
  <2>1. CASE Close  BY <2>1 DEF Close, Behind
  <2>2. ASSUME NEW n \in 0..Len(unsent), Send(n) PROVE Behind' = Behind
    <3> DEFINE x == SubSeq(unsent, 1, n)
               y == SubSeq(unsent, n + 1, Len(unsent))
               g == FlattenSeq(channel)
    <3>1. /\ unsent \in Seq(Byte) /\ channel \in Seq(Seq(Byte)) /\ Len(unsent) \in Nat
      BY ByteSeqs
    <3>2. channel' = Append(channel, x) /\ unsent' = y  BY <2>2 DEF Send
    <3>3. x \in Seq(Byte) /\ y \in Seq(Byte)
      <4>1. /\ 0 \in Nat /\ n \in Nat /\ 0 <= n /\ n <= Len(unsent) /\ Len(unsent) <= Len(unsent)
            /\ 0 + 1 = 1
        BY <3>1
      <4>2. SubSeq(unsent, 0 + 1, n) \in Seq(Byte)  BY <3>1, <4>1, SliceType
      <4>3. y \in Seq(Byte)  BY <3>1, <4>1, SliceType
      <4> QED  BY <4>1, <4>2, <4>3
    <3>4. x \o y = unsent
      <4>1. 1 \in 1..Len(unsent) + 1 /\ n \in 1 - 1..Len(unsent) /\ Len(unsent) \in n..Len(unsent)
        BY <3>1
      <4>2. x \o y = SubSeq(unsent, 1, Len(unsent))  BY <3>1, <4>1, ConcatAdjacentSubSeq
      <4>3. SubSeq(unsent, 1, Len(unsent)) = unsent  BY <3>1, SubSeqFull
      <4> QED  BY <4>2, <4>3
    <3> HIDE DEF x, y
    <3>5. FlattenSeq(channel') = g \o x  BY <3>1, <3>2, <3>3, FlattenAppend
    <3>6. g \in Seq(Byte)  BY <3>1, FlattenType
    <3>7. (g \o x) \o y = g \o (x \o y)
      <4> HIDE DEF g
      <4> QED  BY <3>3, <3>6, Assoc, Zenon
    <3> QED  BY <3>2, <3>4, <3>5, <3>7 DEF Behind
  <2> QED  BY <2>1, <2>2 DEF Sender
<1>3. ~torn => Handling' /\ At' = At  BY <1>1, HandlingStays
<1>4. Arrived' = Arrived  BY <1>1, RecordingStays
<1> QED  BY <1>1, <1>2, <1>3, <1>4 DEF SentInv, Continues

\* A future that is dropped where it holds nothing leaves all in its place.
LEMMA DropSent ==
  ASSUME TypeInv, SentInv, Drop
  PROVE  SentInv'
<1> SUFFICES ASSUME ~torn' PROVE SentInv'  BY DEF SentInv
<1>1. ~torn /\ pc # "body" /\ BytesOfFuture = <<>>  BY DEF Drop, TypeInv
<1>2. pc # "done"  BY DEF Drop, Waiting, EnsuringBytes, EnsuringData, Reading
<1>3. cmd = 0 /\ cmd' = 0  BY <1>1, <1>2 DEF Drop, TypeInv
<1>4. current' = current  BY <1>1 DEF Drop, BytesOfFuture
<1>5. UNCHANGED <<stream, recording, unsent, channel, offset, header_skipped, handled, outcome, cmd>>
  BY <1>3 DEF Drop, sourceVars
<1>6. Handling' /\ At' = At  BY <1>1, <1>5, HandlingStays
<1>7. Arrived' = Arrived  BY <1>5, RecordingStays
<1>8. Behind' = Behind  BY <1>5 DEF Behind
<1> QED  BY <1>1, <1>4, <1>5, <1>6, <1>7, <1>8 DEF SentInv, Continues

\* PacketChannelDemoStream: chunks are joined to what is not read, and reads take from the
\* front.
LEMMA DemoPacketsSent ==
  ASSUME TypeInv, SentInv, ReadsDemoPackets, UNCHANGED callerVars
  PROVE  SentInv'
<1> USE DEF sourceVars, streamVars
<1>1. UNCHANGED <<stream, recording, unsent, torn>>
  BY DEF ReadsDemoPackets, EnsureRecv, EnsureExhausted, skip_header_if_needed,
         read_cmd_header, read_cmd, RecvSome, RecvNone, callerVars
<1> SUFFICES ASSUME ~torn PROVE SentInv'  BY <1>1 DEF SentInv
<1>2. outcome = "running" => Continues(current, offset, Behind, Arrived, At)  BY DEF SentInv
<1>3. pc # "done" => outcome = "running"  BY DEF TypeInv
<1>4. Arrived' = Arrived  BY <1>1, RecordingStays
<1>5. CASE EnsureRecv
  <2>1. /\ channel # <<>> /\ channel' = Tail(channel) /\ pc # "done" /\ offset' = 0
        /\ UNCHANGED <<header_skipped, pc, cmd, handled, outcome>>
        /\ current' = SubSeq(current, offset + 1, Len(current)) \o Head(channel)
    BY <1>5 DEF EnsureRecv, EnsuringBytes, RecvSome, AppendChunk, parserVars
  <2>2. Behind = Head(channel) \o Behind' /\ Behind' \in Seq(Byte)  BY <1>1, <2>1, ReceivedFrom
  <2>3. Handling' /\ At' = At  BY <1>1, <2>1, HandlingStays
  <2>4. Continues(current, offset, Head(channel) \o Behind', Arrived, At)
    BY <1>2, <1>3, <2>1, <2>2
  <2>5. Head(channel) \in Seq(Byte)  BY <2>1, ChannelFacts
  <2> DEFINE z == Behind'
             x == Head(channel)
             d == current'
             e == offset'
  <2>6. Continues(d, e, z, Arrived, At)
    <3>1. d = SubSeq(current, offset + 1, Len(current)) \o x /\ e = 0  BY <2>1
    <3>2. x \in Seq(Byte) /\ z \in Seq(Byte)  BY <2>2, <2>5
    <3>3. Continues(current, offset, x \o z, Arrived, At)  BY <2>4
    <3> HIDE DEF z, x, d, e
    <3> QED  BY <3>1, <3>2, <3>3, ChunkJoins
  <2> QED  BY <1>4, <2>3, <2>6 DEF SentInv, Continues
<1>6. CASE EnsureExhausted
  <2>1. UNCHANGED <<cmd, handled>> /\ outcome' # "running"
    BY <1>6 DEF EnsureExhausted, Returns, OnHeaderError, OnBodyError
  <2>2. Handling'  BY <1>1, <2>1, HandlingStays
  <2> QED  BY <2>1, <2>2 DEF SentInv
<1>7. CASE skip_header_if_needed
  <2>1. /\ pc = "header" /\ ~header_skipped /\ header_skipped' = TRUE
        /\ UNCHANGED <<current, channel, parserVars>>
        /\ offset' = offset + DEMO_HEADER_SIZE /\ Len(current) - offset >= DEMO_HEADER_SIZE
    BY <1>7 DEF skip_header_if_needed, remaining, Wanted
  <2>2. offset' <= Len(current)
    BY <2>1, ByteSeqs, PacketAssumption DEF TypeInv
  <2> DEFINE m == offset'
             y == Behind
  <2>3. Behind' = y  BY <1>1, <2>1 DEF Behind
  <2>4. Handling' /\ Continues(current, m, y, Arrived', At')
    <3>1. m = offset + DEMO_HEADER_SIZE /\ m <= Len(current)  BY <2>1, <2>2
    <3>2. Continues(current, offset, y, Arrived, At)  BY <1>2, <1>3, <2>1
    <3> DEFINE c == current
               o == offset
    <3>3. m = o + DEMO_HEADER_SIZE /\ m <= Len(c) /\ Continues(c, o, y, Arrived, At)
      BY <3>1, <3>2
    <3> HIDE DEF m, y, c, o
    <3>4. Handling' /\ Continues(c, m, y, Arrived', At')
      BY <1>1, <2>1, <3>3, FileHeaderSent DEF Continues
    <3> QED  BY <3>4 DEF c
  <2> QED  BY <2>1, <2>3, <2>4 DEF SentInv, Continues
<1>8. CASE read_cmd_header
  <2> DEFINE first == current[offset + 1]
             i == Len(handled) + 1
  <2>1. /\ pc = "header" /\ header_skipped /\ GotHeader(first)
        /\ UNCHANGED <<current, channel, header_skipped>>
        /\ offset' = offset + (IF StartsHeader(first) THEN recording[first.of].header ELSE 1)
        /\ Len(current) - offset >= MAX_HEADER
    BY <1>8 DEF read_cmd_header, Wanted, remaining
  <2>2. offset < Len(current)
    BY <2>1, ByteSeqs, DemoStreamAssumption DEF TypeInv
  <2>3. Continues(current, offset, Behind, Arrived, At)  BY <1>2, <1>3, <2>1
  <2>4. /\ StartsHeader(first) /\ first.of = i /\ i \in 1..Len(recording) /\ Handling'
        /\ offset + recording[i].header <= Len(current)
             => Continues(current, offset + recording[i].header, Behind, Arrived', At')
    BY ZenonT(60), <1>1, <2>1, <2>2, <2>3, HeaderSent DEF Continues
  <2>5. offset' = offset + recording[i].header  BY <2>1, <2>4
  <2>6. offset' <= Len(current)
    <3>1. TypeInv'  BY <1>8, DemoPacketsType
    <3> QED  BY <2>1, <3>1 DEF TypeInv
  <2>7. Behind' = Behind  BY <1>1, <2>1 DEF Behind
  <2>8. Continues(current, offset', Behind, Arrived', At')  BY <2>4, <2>5, <2>6
  <2> QED  BY <2>1, <2>4, <2>7, <2>8 DEF SentInv, Continues
<1>9. CASE read_cmd
  <2> DEFINE size == recording[cmd].body
             m == offset + size
  <2>1. /\ pc = "body" /\ GotBody(Cut(current, offset, m))
        /\ UNCHANGED <<current, channel, header_skipped>>
        /\ offset' = m /\ Len(current) - offset >= size
    BY <1>9 DEF read_cmd, BodyEnd, Wanted, remaining, Cut
  <2>2. size \in Nat  BY <2>1, RecordingFacts DEF TypeInv
  <2>3. m <= Len(current)
    <3> HIDE DEF size
    <3> QED  BY <2>1, <2>2, ByteSeqs DEF TypeInv
  <2>4. Continues(current, offset, Behind, Arrived, At)  BY <1>2, <1>3, <2>1
  <2>5. Behind' = Behind  BY <1>1, <2>1 DEF Behind
  <2>6. Handling' /\ Continues(current, m, Behind, Arrived', At')
    <3> DEFINE c == current
               o == offset
               y == Behind
    <3>1. m = o + recording[cmd].body /\ m <= Len(c) /\ Continues(c, o, y, Arrived, At)
          /\ GotBody(Cut(c, o, m))
      BY <2>1, <2>3, <2>4
    <3> HIDE DEF m, y, c, o, size
    <3>2. Handling' /\ Continues(c, m, y, Arrived', At')
      BY <1>1, <2>1, <3>1, BodySent DEF Continues
    <3> QED  BY <3>2 DEF c, y
  <2> QED  BY <2>1, <2>5, <2>6 DEF SentInv, Continues
<1> QED  BY <1>5, <1>6, <1>7, <1>8, <1>9 DEF ReadsDemoPackets

\* PacketChannelBroadcastStream: a packet is taken when the one before it is all read.
LEMMA BroadcastPacketsSent ==
  ASSUME TypeInv, SentInv, ReadsBroadcastPackets, UNCHANGED callerVars
  PROVE  SentInv'
<1> USE DEF sourceVars
<1>1. UNCHANGED <<stream, recording, unsent, torn, header_skipped>> /\ header_skipped
  BY DEF ReadsBroadcastPackets, NextPacket, SourceExhausted, NextHeader, ReadBody,
         RecvSome, RecvNone, callerVars, TypeInv, DemoFormat
<1> SUFFICES ASSUME ~torn PROVE SentInv'  BY <1>1 DEF SentInv
<1>2. outcome = "running" => Continues(current, offset, Behind, Arrived, At)  BY DEF SentInv
<1>3. pc # "done" => outcome = "running"  BY DEF TypeInv
<1>4. Arrived' = Arrived  BY <1>1, RecordingStays
\* Where a header is read from a buffer that goes on as the recording does.
<1>5. ASSUME pc = "header", NEW c, NEW o, NEW y, Continues(c, o, y, Arrived, At),
             ReadHeaderAt(c, o), Behind' = y, current' = c
      PROVE  SentInv'
  <2> DEFINE h == BROADCAST_CMD_HEADER_SIZE
             i == Len(handled) + 1
  <2>1. CASE HasBytes(c, o, h)
    <3>1. GotHeader(c[o + 1]) /\ offset' = o + h /\ o + h <= Len(c)
      BY <1>5, <2>1 DEF ReadHeaderAt, HasBytes
    <3>2. o < Len(c)
      BY <1>5, <3>1, LenProperties, PacketAssumption DEF Continues
    <3>3. /\ i \in 1..Len(recording) /\ Handling'
          /\ o + recording[i].header <= Len(c)
               => Continues(c, o + recording[i].header, y, Arrived', At')
      BY ZenonT(60), <1>1, <1>5, <3>1, <3>2, HeaderSent DEF Continues
    <3>4. recording[i].header = h
      <4>1. ~DemoFormat  BY DEF ReadsBroadcastPackets, DemoFormat
      <4>2. recording[i].header \in {h}  BY <3>3, <4>1, RecordingFacts DEF TypeInv
      <4> QED  BY <4>2
    <3>5. Continues(c, offset', y, Arrived', At')  BY <3>1, <3>3, <3>4
    <3> QED  BY <1>5, <3>3, <3>5 DEF SentInv, Continues
  <2>2. CASE ~HasBytes(c, o, h)
    <3>1. UNCHANGED <<cmd, handled>> /\ outcome' = "ok"
      BY <1>5, <2>2 DEF ReadHeaderAt, Returns, OnHeaderError
    <3>2. Handling'  BY <1>1, <3>1, HandlingStays
    <3> QED  BY <3>1, <3>2 DEF SentInv
  <2> QED  BY <2>1, <2>2
<1>6. CASE NextPacket
  <2>1. /\ channel # <<>> /\ channel' = Tail(channel) /\ pc = "header" /\ offset >= Len(current)
        /\ current' = Head(channel) /\ ReadHeaderAt(Head(channel), 0)
    BY <1>6 DEF NextPacket, RecvSome, EnsuringData, StartOf, Exhausted
  <2>2. Behind = Head(channel) \o Behind' /\ Behind' \in Seq(Byte)  BY <1>1, <2>1, ReceivedFrom
  <2>3. Head(channel) \in Seq(Byte)  BY <2>1, ChannelFacts
  <2> DEFINE z == Behind'
             x == Head(channel)
             o == offset
             c == current
  <2>4. Continues(c, o, x \o z, Arrived, At)  BY <1>2, <1>3, <2>1, <2>2
  <2>5. o = Len(c)  BY <2>1, ByteSeqs DEF TypeInv
  <2>6. Continues(x, 0, z, Arrived, At)
    <3>1. x \in Seq(Byte) /\ z \in Seq(Byte)  BY <2>2, <2>3
    <3> HIDE DEF z, x, c, o
    <3> QED  BY <2>4, <2>5, <3>1, ChunkJoins
  <2>7. ReadHeaderAt(x, 0) /\ Behind' = z /\ current' = x  BY <2>1
  <2> HIDE DEF z, x, c, o
  <2> QED  BY <1>5, <2>1, <2>6, <2>7
<1>7. CASE SourceExhausted
  <2>1. UNCHANGED <<cmd, handled>> /\ outcome' = "ok"
    BY <1>7 DEF SourceExhausted, Returns, OnHeaderError
  <2>2. Handling'  BY <1>1, <2>1, HandlingStays
  <2> QED  BY <2>1, <2>2 DEF SentInv
<1>8. CASE NextHeader
  <2>1. pc = "header" /\ ReadHeaderAt(current, offset) /\ UNCHANGED <<current, channel>>
    BY <1>8 DEF NextHeader
  <2>2. Continues(current, offset, Behind, Arrived, At)  BY <1>2, <1>3, <2>1
  <2>3. Behind' = Behind  BY <1>1, <2>1 DEF Behind
  <2> QED  BY <1>5, <2>1, <2>2, <2>3
<1>9. CASE ReadBody
  <2> DEFINE size == recording[cmd].body
             m == offset + size
  <2>1. pc = "body" /\ UNCHANGED <<current, channel>>  BY <1>9 DEF ReadBody
  <2>2. CASE HasBytes(current, offset, size)
    <3>1. GotBody(Cut(current, offset, m)) /\ offset' = m /\ m <= Len(current)
      BY <1>9, <2>2 DEF ReadBody, HasBytes, Cut
    <3>2. Continues(current, offset, Behind, Arrived, At)  BY <1>2, <1>3, <2>1
    <3>3. Behind' = Behind  BY <1>1, <2>1 DEF Behind
    <3>4. Handling' /\ Continues(current, m, Behind, Arrived', At')
      <4> DEFINE c == current
                 o == offset
                 y == Behind
      <4>1. m = o + recording[cmd].body /\ m <= Len(c) /\ Continues(c, o, y, Arrived, At)
            /\ GotBody(Cut(c, o, m))
        BY <3>1, <3>2
      <4> HIDE DEF m, y, c, o, size
      <4>2. Handling' /\ Continues(c, m, y, Arrived', At')
        BY <1>1, <2>1, <4>1, BodySent DEF Continues
      <4> QED  BY <4>2 DEF c, y
    <3> QED  BY <2>1, <3>1, <3>3, <3>4 DEF SentInv, Continues
  <2>3. CASE ~HasBytes(current, offset, size)
    <3>1. UNCHANGED <<cmd, handled>> /\ outcome' = "error"
      BY <1>9, <2>3 DEF ReadBody, Returns, OnBodyError
    <3>2. Handling'  BY <1>1, <3>1, HandlingStays
    <3> QED  BY <3>1, <3>2 DEF SentInv
  <2> QED  BY <2>2, <2>3
<1> QED  BY <1>6, <1>7, <1>8, <1>9 DEF ReadsBroadcastPackets

\* Chunks of the recording are sequences of bytes.
LEMMA ChunksAreByteSeqs == Chunks \subseteq Seq(Seq(Byte))
<1> SUFFICES ASSUME NEW s \in Chunks PROVE s \in Seq(Seq(Byte))  OBVIOUS
<1> DEFINE R == Seq(RecByte)
           S == Seq(Byte)
<1>1. ASSUME NEW x \in R PROVE x \in S  BY RecByteFacts, SeqMonotonic
<1>2. s \in Seq(R) /\ R \subseteq S  BY <1>1 DEF Chunks, Chunk
<1> HIDE DEF R, S
<1>3. s \in Seq(S)  BY <1>2, SeqMonotonic
<1> QED  BY <1>3 DEF S

\* AsyncDemoFile and AsyncBroadcastStream: a buffer is used when it is as long as the part
\* of the recording it is for.
LEMMA AsyncReadSent ==
  ASSUME TypeInv, SentInv, ReadsAsyncRead, UNCHANGED callerVars
  PROVE  SentInv'
<1> USE DEF sourceVars
<1>1. UNCHANGED <<stream, recording, unsent, torn, offset>> /\ offset = 0 /\ OverAsyncRead
  BY DEF ReadsAsyncRead, ReadExact, ReadExactFails, start_reading, read_cmd_header_async,
         read_cmd_async, PollRead, RecvNone, callerVars, TypeInv
<1> SUFFICES ASSUME ~torn PROVE SentInv'  BY <1>1 DEF SentInv
<1>2. outcome = "running" => Continues(current, 0, Behind, Arrived, At)  BY <1>1 DEF SentInv
<1>3. pc # "done" => outcome = "running"  BY DEF TypeInv
<1>4. Arrived' = Arrived  BY <1>1, RecordingStays
\* Where the buffer is used, and left.
<1>5. ASSUME current' = <<>>, Handling', Behind' = Behind,
             outcome' = "running" => Continues(current, Len(current), Behind, Arrived', At')
      PROVE  SentInv'
  <2>1. outcome' = "running" => Continues(<<>>, 0, Behind, Arrived', At')
    <3> DEFINE c == current
               y == Behind
               w == Arrived'
               a == At'
    <3>1. outcome' = "running" => Continues(c, Len(c), y, w, a)  BY <1>5
    <3> HIDE DEF c, y, w, a
    <3>2. outcome' = "running" => Continues(<<>>, 0, y, w, a)  BY <3>1, Emptied
    <3> QED  BY <3>2 DEF y, w, a
  <2> QED  BY <1>1, <1>5, <2>1 DEF SentInv, Continues
<1>6. CASE ReadExact
  <2> DEFINE h == Head(channel)
             k == IF Room < Len(h) THEN Room ELSE Len(h)
             x == SubSeq(h, 1, k)
  <2>1. /\ Reading /\ PollRead(Room) /\ UNCHANGED <<header_skipped, pc, cmd, handled, outcome>>
        /\ current' = current \o x
    BY <1>6 DEF ReadExact, parserVars
  <2>2. Room \in Nat \ {0}  BY <1>1, <2>1, LeftFacts DEF Reading
  <2>3. x \in Seq(Byte) /\ channel' \in Chunks /\ x \o FlattenSeq(channel') = FlattenSeq(channel)
    BY <2>1, <2>2, PollFacts
  <2>4. channel' \in Seq(Seq(Byte))  BY <2>3, ChunksAreByteSeqs
  <2>5. channel' \in Seq(Seq(Byte)) /\ unsent \in Seq(Byte)  BY <2>4, ByteSeqs
  <2> DEFINE z == Behind'
  <2>6. z \in Seq(Byte) /\ Behind = x \o z
    <3> DEFINE g == FlattenSeq(channel')
    <3>1. g \in Seq(Byte)  BY <2>5, FlattenType
    <3>2. z = g \o unsent  BY <1>1 DEF Behind
    <3> HIDE DEF x, z, g
    <3>3. z \in Seq(Byte)  BY <2>5, <3>1, <3>2, ConcatProperties
    <3>4. (x \o g) \o unsent = x \o (g \o unsent)  BY <2>3, <2>5, <3>1, Assoc, Zenon
    <3> QED  BY <2>3, <3>2, <3>3, <3>4 DEF Behind, g
  <2>7. Continues(current, 0, x \o z, Arrived, At)  BY <1>2, <1>3, <2>1, <2>6 DEF Reading
  <2>8. Continues(current \o x, 0, z, Arrived, At)
    <3> DEFINE c == current
    <3>1. Continues(c, 0, x \o z, Arrived, At)  BY <2>7
    <3> HIDE DEF x, z, c
    <3>2. Continues(c \o x, 0, z, Arrived, At)  BY <2>3, <2>6, <3>1, ChunkJoins
    <3> QED  BY <3>2 DEF c
  <2>9. Handling' /\ At' = At  BY <1>1, <2>1, HandlingStays
  <2> HIDE DEF x
  <2> QED  BY <1>1, <1>4, <2>1, <2>8, <2>9 DEF SentInv, Continues
<1>7. CASE ReadExactFails
  <2>1. UNCHANGED <<cmd, handled>> /\ outcome' # "running"
    BY <1>7 DEF ReadExactFails, Returns, OnHeaderError, OnBodyError
  <2>2. Handling'  BY <1>1, <2>1, HandlingStays
  <2> QED  BY <2>1, <2>2 DEF SentInv
<1>8. CASE start_reading
  <2>1. /\ pc = "header" /\ ~header_skipped /\ header_skipped' = TRUE /\ Left = 0
        /\ UNCHANGED <<channel, parserVars>> /\ current' = <<>>
    BY <1>8 DEF start_reading
  <2>2. Len(current) = 0 + DEMO_HEADER_SIZE
    <3>1. Left = DEMO_HEADER_SIZE - Len(current) /\ Len(current) \in Nat
      BY <1>1, <2>1, LeftFacts
    <3> QED  BY <2>1, <3>1, PacketAssumption
  <2>3. Behind' = Behind  BY <1>1, <2>1 DEF Behind
  <2>4. Handling' /\ Continues(current, Len(current), Behind, Arrived', At')
    <3> DEFINE c == current
               y == Behind
               m == Len(current)
               o == 0
    <3>1. m = o + DEMO_HEADER_SIZE /\ m <= Len(c) /\ Continues(c, o, y, Arrived, At)
      BY <1>2, <1>3, <2>1, <2>2, ByteSeqs
    <3> HIDE DEF m, y, c, o
    <3>2. Handling' /\ Continues(c, m, y, Arrived', At')
      BY <1>1, <2>1, <3>1, FileHeaderSent DEF Continues
    <3> QED  BY <3>2 DEF c, m, y
  <2> QED  BY <1>5, <2>1, <2>3, <2>4
<1>9. CASE read_cmd_header_async
  <2> DEFINE i == Len(handled) + 1
  <2>1. /\ pc = "header" /\ header_skipped /\ Left = 0 /\ GotHeader(current[1])
        /\ UNCHANGED <<channel, header_skipped>> /\ current' = <<>>
    BY <1>9 DEF read_cmd_header_async
  <2>2. Left = HeaderLeft /\ Len(current) \in Nat  BY <1>1, <2>1, LeftFacts
  <2>3. current # <<>>
    <3> SUFFICES ASSUME current = <<>> PROVE FALSE  OBVIOUS
    <3>1. HeaderLeft = IF stream = "AsyncBroadcastStream" THEN BROADCAST_CMD_HEADER_SIZE - 0 ELSE 1
      BY DEF HeaderLeft
    <3> QED  BY <2>1, <2>2, <3>1, PacketAssumption
  <2>4. 0 < Len(current) /\ 0 + 1 = 1  BY <1>1, <2>3, LeftFacts
  <2>5. Continues(current, 0, Behind, Arrived, At)  BY <1>2, <1>3, <2>1
  <2>6. /\ StartsHeader(current[1]) /\ current[1].of = i /\ i \in 1..Len(recording) /\ Handling'
        /\ 0 + recording[i].header <= Len(current)
             => Continues(current, 0 + recording[i].header, Behind, Arrived', At')
    <3> DEFINE c == current
               o == 0
               y == Behind
    <3>1. o < Len(c) /\ Continues(c, o, y, Arrived, At) /\ GotHeader(c[o + 1])
          /\ c[o + 1] = current[1]
      BY <2>1, <2>4, <2>5
    <3> HIDE DEF c, o, y
    <3>2. /\ StartsHeader(c[o + 1]) /\ c[o + 1].of = i /\ i \in 1..Len(recording) /\ Handling'
          /\ o + recording[i].header <= Len(c)
             => Continues(c, o + recording[i].header, y, Arrived', At')
      BY ZenonT(60), <1>1, <2>1, <3>1, HeaderSent DEF Continues
    <3> QED  BY <3>1, <3>2 DEF c, o, y
  <2>7. recording[i].header \in Nat \ {0}
    BY <2>6, RecordingFacts DEF TypeInv
  <2>8. recording[i].header = Len(current)
    <3>1. CASE stream = "AsyncBroadcastStream"
      <4>1. recording[i].header \in {BROADCAST_CMD_HEADER_SIZE}
        BY <2>6, <3>1, RecordingFacts DEF TypeInv, DemoFormat
      <4>2. HeaderLeft = BROADCAST_CMD_HEADER_SIZE - Len(current)  BY <3>1 DEF HeaderLeft
      <4> QED  BY <2>1, <2>2, <4>1, <4>2, PacketAssumption
    <3>2. CASE stream # "AsyncBroadcastStream"
      <4>1. HeaderLeft = recording[i].header - Len(current)  BY <2>3, <2>6, <3>2 DEF HeaderLeft
      <4> DEFINE h == recording[i].header
                 l == Len(current)
      <4>2. h - l = 0 /\ h \in Nat /\ l \in Nat  BY <2>1, <2>2, <2>7, <4>1
      <4> HIDE DEF h, l
      <4>3. h = l  BY <4>2
      <4> QED  BY <4>3 DEF h, l
    <3> QED  BY <3>1, <3>2
  <2>9. Continues(current, Len(current), Behind, Arrived', At')
    BY <2>2, <2>6, <2>7, <2>8
  <2>10. Behind' = Behind  BY <1>1, <2>1 DEF Behind
  <2> QED  BY <1>5, <2>1, <2>6, <2>9, <2>10
<1>10. CASE read_cmd_async
  <2>1. /\ pc = "body" /\ Left = 0 /\ GotBody(current)
        /\ UNCHANGED <<channel, header_skipped>> /\ current' = <<>>
    BY <1>10 DEF read_cmd_async
  <2>2. Len(current) = 0 + recording[cmd].body /\ current \in Seq(Byte)
    <3>1. Left = recording[cmd].body - Len(current) /\ Len(current) \in Nat
      BY <1>1, <2>1, LeftFacts
    <3>2. recording[cmd].body \in Nat  BY <2>1, RecordingFacts DEF TypeInv
    <3> DEFINE b == recording[cmd].body
               l == Len(current)
    <3>3. b - l = 0 /\ b \in Nat /\ l \in Nat  BY <2>1, <3>1, <3>2
    <3> HIDE DEF b, l
    <3>4. l = 0 + b  BY <3>3
    <3> QED  BY <3>4, ByteSeqs DEF b, l
  <2>3. Cut(current, 0, Len(current)) = current
    <3>1. 0 + 1 = 1  OBVIOUS
    <3> QED  BY <2>2, <3>1, SubSeqFull DEF Cut
  <2>4. Behind' = Behind  BY <1>1, <2>1 DEF Behind
  <2>5. Handling' /\ Continues(current, Len(current), Behind, Arrived', At')
    <3> DEFINE c == current
               o == 0
               y == Behind
               m == Len(current)
    <3>1. m = o + recording[cmd].body /\ m <= Len(c) /\ Continues(c, o, y, Arrived, At)
          /\ GotBody(Cut(c, o, m))
      BY <1>2, <1>3, <2>1, <2>2, <2>3, LenProperties
    <3> HIDE DEF m, y, c, o
    <3>2. Handling' /\ Continues(c, m, y, Arrived', At')
      BY <1>1, <2>1, <3>1, BodySent DEF Continues
    <3> QED  BY <3>2 DEF c, y, m
  <2> QED  BY <1>5, <2>1, <2>4, <2>5
<1> QED  BY <1>6, <1>7, <1>8, <1>9, <1>10 DEF ReadsAsyncRead

\* Every step keeps the place and what comes from there on together.
LEMMA SentStep == TypeInv /\ SentInv /\ [Next]_vars => SentInv'
<1> SUFFICES ASSUME TypeInv, SentInv, [Next]_vars PROVE SentInv'  OBVIOUS
<1>1. CASE Sender  BY <1>1, SenderSent
<1>2. CASE Parser
  BY <1>2, DemoPacketsSent, BroadcastPacketsSent, AsyncReadSent DEF Parser
<1>3. CASE Drop  BY <1>3, DropSent
<1>4. CASE UNCHANGED vars
  <2>1. /\ UNCHANGED <<stream, recording, unsent, channel, cmd, handled>>
        /\ UNCHANGED <<current, offset, header_skipped, outcome, torn>>
    BY <1>4 DEF vars, sourceVars, streamVars, parserVars, callerVars
  <2>2. ~torn => Handling' /\ At' = At  BY <2>1, HandlingStays
  <2>3. Arrived' = Arrived  BY <2>1, RecordingStays
  <2>4. Behind' = Behind  BY <2>1 DEF Behind
  <2> QED  BY <2>1, <2>2, <2>3, <2>4 DEF SentInv, Continues
<1> QED  BY <1>1, <1>2, <1>3, <1>4 DEF Next

\* So they always are.
LEMMA SentInvariant == Spec => [](TypeInv /\ SentInv)
<1>1. Init => TypeInv /\ SentInv  BY InitType, InitSent
<1>2. TypeInv /\ SentInv /\ [Next]_vars => (TypeInv /\ SentInv)'  BY TypeStep, SentStep
<1> QED  BY <1>1, <1>2, PTL DEF Spec

\* However the recording is cut into chunks, and wherever the future of run_to_end is
\* dropped and made anew but inside a command, the visitor of AsyncStreamingParser gets
\* the commands in order, each with its own body, over every one of the four streams.
THEOREM SentCorrect == Spec => []AsSent
<1>1. TypeInv /\ SentInv => AsSent
  <2> SUFFICES ASSUME TypeInv, SentInv, ~torn
               PROVE  handled = [i \in 1..Len(handled) |-> [of |-> i, body |-> Body(i)]]
    BY DEF AsSent
  <2> DEFINE f == [i \in 1..Len(handled) |-> [of |-> i, body |-> Body(i)]]
  <2>1. \A i \in 1..Len(handled) : handled[i] = [of |-> i, body |-> Body(i)]
    BY DEF SentInv, Handling
  <2>2. handled = [i \in 1..Len(handled) |-> handled[i]]  BY DEF TypeInv, Handled
  <2> QED  BY <2>1, <2>2
<1> QED  BY <1>1, SentInvariant, PTL

------------------------------------------------------------------------------
(* Every byte is in one place.                                             *)

\* A concatenation begins with its first part.
LEMMA PrefixIs ==
  ASSUME NEW x \in Seq(Byte), NEW y \in Seq(Byte)
  PROVE  SubSeq(x \o y, 1, Len(x)) = x
<1> DEFINE w == x \o y
           z == SubSeq(w, 0 + 1, Len(x))
<1>1. /\ w \in Seq(Byte) /\ Len(x) \in Nat /\ Len(y) \in Nat /\ Len(w) = Len(x) + Len(y)
      /\ \A i \in 1..Len(x) : w[i] = x[i]
  BY Joined
<1> HIDE DEF w
<1>2. 0 \in Nat /\ 0 <= Len(x) /\ Len(x) <= Len(w) /\ Len(x) - 0 = Len(x)  BY <1>1
<1>3. z \in Seq(Byte) /\ Len(z) = Len(x) - 0 /\ \A i \in 1..Len(x) - 0 : z[i] = w[0 + i]
  BY <1>1, <1>2, Slice
<1>4. z = SubSeq(w, 1, Len(x))
  <2>1. 0 + 1 = 1  OBVIOUS
  <2> QED  BY <2>1
<1> HIDE DEF z
<1>5. \A i \in 1..Len(z) : z[i] = x[i]
  <2>1. \A i \in 1..Len(x) : 0 + i = i  BY <1>1
  <2> QED  BY <1>1, <1>2, <1>3, <2>1
<1>6. z = x  BY <1>2, <1>3, <1>5, SeqEqual
<1> QED  BY <1>4, <1>6 DEF w

\* What comes before a command.
LEMMA BeforeCommand ==
  ASSUME recording \in Recordings, NEW i \in 0..Len(recording)
  PROVE  /\ Commands(0, i) \in Seq(Byte)
         /\ SubSeq(Arrived, 1, StartOfCommand(i + 1)) = FileHeader \o Commands(0, i)
<1> DEFINE N == Len(recording)
           f == FileHeader
           p == Commands(0, i)
           q == Commands(i, N)
           x == f \o p
<1>1. N \in Nat  BY RecordingFacts
<1>2. 0 \in 0..N /\ i \in 0..N /\ N \in i..N /\ i + 1 - 1 = i  BY <1>1
<1>3. p \in Seq(Byte) /\ q \in Seq(Byte) /\ f \in Seq(Byte)  BY <1>2, PiecesFacts, FileHeaderFacts
<1>4. Commands(0, N) = p \o q  BY <1>2, CommandsSplit
<1>5. Arrived = f \o (p \o q)  BY <1>4 DEF Arrived
<1>6. StartOfCommand(i + 1) = Len(f) + Len(p)  BY <1>2 DEF StartOfCommand
<1> HIDE DEF f, p, q
<1>7. x \in Seq(Byte) /\ Len(x) = Len(f) + Len(p)  BY <1>3, Joined
<1>8. f \o (p \o q) = x \o q
  <2>1. (f \o p) \o q = f \o (p \o q)  BY <1>3, Assoc, Zenon
  <2> QED  BY <2>1
<1> HIDE DEF x
<1>9. SubSeq(x \o q, 1, Len(x)) = x  BY <1>3, <1>7, PrefixIs
<1> QED  BY <1>3, <1>5, <1>6, <1>7, <1>8, <1>9 DEF x, f, p

\* The commands handled are the first ones of the recording.
LEMMA HandledBytes ==
  ASSUME TypeInv, Handling
  PROVE  FlattenSeq([k \in DOMAIN handled |-> Header(handled[k].of) \o handled[k].body])
           = Commands(0, Len(handled))
<1> DEFINE n == Len(handled)
<1>1. n \in Nat /\ Len(recording) \in Nat /\ n <= Len(recording) /\ recording \in Recordings
  BY ByteSeqs DEF Handling, TypeInv
<1>2. DOMAIN handled = 1..n  BY DEF TypeInv, Handled
<1>3. \A k \in 1..n : Header(handled[k].of) \o handled[k].body = WholeCommand(k)
  <2> TAKE k \in 1..n
  <2>1. handled[k] = [of |-> k, body |-> Body(k)]  BY DEF Handling
  <2> QED  BY <2>1 DEF WholeCommand
<1>4. \A k \in 1..n - 0 : 0 + k = k  BY <1>1
<1>5. n - 0 = n  BY <1>1
<1>6. Pieces(0, n) = [k \in 1..n |-> WholeCommand(k)]  BY <1>4, <1>5 DEF Pieces
<1>7. [k \in DOMAIN handled |-> Header(handled[k].of) \o handled[k].body] = Pieces(0, n)
  BY <1>2, <1>3, <1>6
<1>8. 0 \in 0..Len(recording) /\ n \in 0..Len(recording)  BY <1>1
<1>9. Commands(0, n) = FlattenSeq(Pieces(0, n))  BY <1>1, <1>8, PiecesFacts
<1> QED  BY <1>7, <1>9

\* What is read is what comes before the place in the recording.
LEMMA ReadBytes ==
  ASSUME TypeInv, SentInv, ~torn
  PROVE  SubSeq(Arrived, 1, At)
           = ((IF DemoFormat /\ header_skipped THEN FileHeader ELSE <<>>)
              \o FlattenSeq([k \in DOMAIN handled |-> Header(handled[k].of) \o handled[k].body]))
             \o IF cmd # 0 THEN Header(cmd) ELSE <<>>
<1> DEFINE n == Len(handled)
           f == IF DemoFormat /\ header_skipped THEN FileHeader ELSE <<>>
           p == FlattenSeq([k \in DOMAIN handled |-> Header(handled[k].of) \o handled[k].body])
           e == IF cmd # 0 THEN Header(cmd) ELSE <<>>
           q == Commands(0, n)
           s == StartOfCommand(n + 1)
<1>1. /\ n \in Nat /\ Len(recording) \in Nat /\ n \in 0..Len(recording)
      /\ recording \in Recordings /\ header_skipped \in BOOLEAN
      /\ Arrived \in Seq(Byte) /\ Len(Arrived) \in Nat /\ At \in 0..Len(Arrived) /\ s \in Nat
  BY ByteSeqs, AtFacts DEF SentInv, Handling, TypeInv
<1>2. p = q  BY HandledBytes DEF SentInv
<1>3. q \in Seq(Byte) /\ SubSeq(Arrived, 1, s) = FileHeader \o q  BY <1>1, BeforeCommand
<1>4. CASE ~header_skipped
  <2>1. n = 0 /\ cmd = 0 /\ f = <<>> /\ e = <<>> /\ At = 0  BY <1>4 DEF TypeInv, At
  <2>2. q = <<>>  BY <1>1, <2>1, NoCommands
  <2>3. SubSeq(Arrived, 1, 0) = <<>>  BY SubSeqEmpty
  <2>4. (<<>> \o <<>>) \o <<>> = <<>>
    <3>1. <<>> \in Seq(Byte)  BY EmptySeq
    <3> QED  BY <3>1, ConcatEmptySeq
  <2> HIDE DEF p, q, f, e
  <2>5. SubSeq(Arrived, 1, At) = (f \o p) \o e  BY <1>2, <2>1, <2>2, <2>3, <2>4
  <2> QED  BY <2>5 DEF f, p, e
<1>5. CASE header_skipped
  <2>1. f = FileHeader
    <3>1. DemoFormat \/ FileHeader = <<>>  BY DEF FileHeader
    <3> QED  BY <1>5, <3>1
  <2>2. f \o q \in Seq(Byte) /\ SubSeq(Arrived, 1, s) = f \o q
    BY <1>3, <2>1, FileHeaderFacts, ConcatProperties
  <2>3. CASE cmd = 0
    <3>1. e = <<>> /\ At = s  BY <1>5, <2>3, AtFacts
    <3> HIDE DEF p, q, f, e, s
    <3>2. (f \o q) \o <<>> = f \o q  BY <2>2, ConcatEmptySeq
    <3>3. SubSeq(Arrived, 1, At) = (f \o p) \o e  BY <1>2, <2>2, <3>1, <3>2
    <3> QED  BY <3>3 DEF f, p, e
  <2>4. CASE cmd # 0
    <3> DEFINE h == recording[cmd].header
    <3>1. /\ cmd = n + 1 /\ cmd \in 1..Len(recording) /\ At = StartOfCommand(cmd) + h
      BY <2>4, AtFacts
    <3>2. s = StartOfCommand(cmd)  BY <3>1
    <3>3. SubSeq(Arrived, s + 1, s + h) = Header(cmd) /\ h \in Nat \ {0}
      BY <1>1, <3>1, <3>2, Layout
    <3>4. e = Header(cmd)  BY <2>4
    <3> HIDE DEF p, q, f, e, s, h
    <3> DEFINE m == s + h
    <3>5. 1 \in 1..Len(Arrived) + 1 /\ s \in 1 - 1..Len(Arrived) /\ m \in s..Len(Arrived) /\ At = m
      <4>1. At = m  BY <3>1, <3>2
      <4>2. m \in Nat /\ s <= m /\ s \in Nat  BY <1>1, <3>3
      <4>3. m <= Len(Arrived) /\ Len(Arrived) \in Nat
        <5> HIDE DEF m
        <5> QED  BY <1>1, <4>1
      <4> HIDE DEF m
      <4> QED  BY <4>1, <4>2, <4>3
    <3>6. SubSeq(Arrived, s + 1, m) = e  BY <3>3, <3>4
    <3> HIDE DEF m
    <3>7. SubSeq(Arrived, 1, s) \o SubSeq(Arrived, s + 1, m) = SubSeq(Arrived, 1, m)
      BY <1>1, <3>5, ConcatAdjacentSubSeq
    <3>8. SubSeq(Arrived, 1, At) = (f \o p) \o e  BY <1>2, <2>2, <3>5, <3>6, <3>7
    <3> QED  BY <3>8 DEF f, p, e
  <2> QED  BY <2>3, <2>4
<1> QED  BY <1>1, <1>4, <1>5

\* Every byte of the recording is in one place, as long as the run goes on: read as
\* what it is, in the stream's buffer behind its offset, in the channel or with the
\* sender.  No resize of the buffer, no copy into it and no future dropped between two
\* commands loses one or makes one up.
THEOREM BytesCorrect == Spec => []BytesAccountedFor
<1>1. TypeInv /\ SentInv => BytesAccountedFor
  <2> SUFFICES ASSUME TypeInv, SentInv, outcome = "running", ~torn
               PROVE  BytesAccountedFor
    BY DEF BytesAccountedFor
  <2> DEFINE f == IF DemoFormat /\ header_skipped THEN FileHeader ELSE <<>>
             p == FlattenSeq([k \in DOMAIN handled |-> Header(handled[k].of) \o handled[k].body])
             e == IF cmd # 0 THEN Header(cmd) ELSE <<>>
             c == SubSeq(current, offset + 1, Len(current))
             g == FlattenSeq(channel)
             u == unsent
             w == FileHeader \o Commands(0, Len(recording))
             read == (f \o p) \o e
             rest == (c \o g) \o u
  <2>1. SubSeq(Arrived, 1, At) = read  BY ReadBytes
  <2>2. c \o (g \o u) = SubSeq(Arrived, At + 1, Len(Arrived))
    BY DEF SentInv, Continues, Behind
  <2>3. /\ Arrived \in Seq(Byte) /\ Len(Arrived) \in Nat /\ At \in 0..Len(Arrived)
    BY AtFacts
  <2>4. /\ c \in Seq(Byte) /\ g \in Seq(Byte) /\ u \in Seq(Byte)
    <3>1. /\ current \in Seq(Byte) /\ channel \in Seq(Seq(Byte)) /\ u \in Seq(Byte)
          /\ offset \in Nat /\ Len(current) \in Nat /\ offset <= Len(current)
          /\ Len(current) <= Len(current)
      BY ByteSeqs DEF TypeInv
    <3> QED  BY <3>1, SliceType, FlattenType
  <2>5. Arrived = w  BY DEF Arrived
  <2> HIDE DEF c, g, u, read, w
  <2>6. (c \o g) \o u = c \o (g \o u)  BY <2>4, Assoc, Zenon
  <2>7. rest = SubSeq(Arrived, At + 1, Len(Arrived))  BY <2>2, <2>6
  <2>8. SubSeq(Arrived, 1, At) \o SubSeq(Arrived, At + 1, Len(Arrived)) = SubSeq(Arrived, 1, Len(Arrived))
    <3>1. 1 \in 1..Len(Arrived) + 1 /\ At \in 1 - 1..Len(Arrived) /\ Len(Arrived) \in At..Len(Arrived)
      BY <2>3
    <3> QED  BY <2>3, <3>1, ConcatAdjacentSubSeq
  <2>9. SubSeq(Arrived, 1, Len(Arrived)) = Arrived  BY <2>3, SubSeqFull
  <2> HIDE DEF rest
  <2>10. read \o rest = w  BY <2>1, <2>5, <2>7, <2>8, <2>9
  <2> QED  BY <2>10 DEF BytesAccountedFor, read, rest, f, p, e, c, g, u, w
<1> QED  BY <1>1, SentInvariant, PTL

------------------------------------------------------------------------------
(* Where a run ends.                                                       *)

\* Packets of a broadcast, and what the sender has left, begin with a command.
CutInv ==
  stream = "PacketChannelBroadcastStream" =>
    /\ \A n \in 1..Len(channel) : channel[n] # <<>> /\ StartsHeader(channel[n][1])
    /\ unsent # <<>> => StartsHeader(unsent[1])

\* Behind a buffer that is read comes the next byte of the recording.
LEMMA FirstBehind ==
  ASSUME NEW c, NEW y, NEW w, NEW a, Continues(c, Len(c), y, w, a)
  PROVE  /\ y # <<>> <=> a < Len(w)
         /\ y # <<>> => y[1] = w[a + 1]
<1>1. y = SubSeq(w, a + 1, Len(w))  BY NextBehind
<1>2. y \in Seq(Byte) /\ w \in Seq(Byte) /\ a \in 0..Len(w)  BY DEF Continues
<1>3. Len(w) \in Nat  BY <1>2, LenProperties
<1>4. a \in Nat /\ a <= Len(w) /\ Len(w) <= Len(w)  BY <1>2, <1>3
<1>5. /\ Len(y) = Len(w) - a
      /\ \A i \in 1..Len(w) - a : y[i] = w[a + i]
  BY <1>1, <1>2, <1>3, <1>4, Slice
<1>6. y # <<>> <=> Len(y) # 0  BY <1>2, EmptySeq
<1>7. y # <<>> <=> a < Len(w)  BY <1>3, <1>4, <1>5, <1>6
<1>8. a < Len(w) => 1 \in 1..Len(w) - a  BY <1>3, <1>4
<1> QED  BY <1>5, <1>7, <1>8

\* When what comes behind the buffer begins with a command, a part of one that begins
\* in the buffer is all in it.
LEMMA WholeAhead ==
  ASSUME NEW c, NEW o, NEW y, NEW w, NEW a, Continues(c, o, y, w, a),
         y # <<>> => StartsHeader(y[1]),
         NEW size \in Nat, a + size <= Len(w),
         NEW k, k = Len(c) - o, k < size => ~StartsHeader(w[a + k + 1])
  PROVE  o + size <= Len(c)
<1>1. /\ o \in Nat /\ Len(c) \in Nat /\ o <= Len(c) /\ a \in Nat /\ Len(w) \in Nat
  BY LenProperties DEF Continues
<1> SUFFICES ASSUME k < size PROVE FALSE  BY <1>1
<1> DEFINE m == Len(c)
           n == a + k
<1>2. m \in o..Len(c) /\ n = a + (m - o) /\ n < Len(w)  BY <1>1
<1>3. Continues(c, m, y, w, n)
  <2> HIDE DEF m, n
  <2> QED  BY <1>2, Taken
<1> HIDE DEF n
<1>4. y # <<>> /\ y[1] = w[n + 1]  BY <1>2, <1>3, FirstBehind
<1> QED  BY <1>4 DEF n

\* In a broadcast what is behind the buffer begins with a command.
LEMMA BehindStarts ==
  ASSUME NEW q \in Seq(Seq(Byte)), NEW u \in Seq(Byte),
         \A n \in 1..Len(q) : q[n] # <<>> /\ StartsHeader(q[n][1]),
         u # <<>> => StartsHeader(u[1]),
         NEW y, y = FlattenSeq(q) \o u, y # <<>>
  PROVE  StartsHeader(y[1])
<1>1. CASE q = <<>>
  <2>1. FlattenSeq(q) = <<>>  BY <1>1, EmptySeq DEF FlattenSeq
  <2>2. y = u  BY <2>1, ConcatEmptySeq
  <2> QED  BY <2>2
<1>2. CASE q # <<>>
  <2> DEFINE h == Head(q)
             t == Tail(q)
             S == Seq(Byte)
  <2>1. h \in S /\ t \in Seq(S) /\ Len(q) \in Nat \ {0} /\ h = q[1] /\ q = <<h>> \o t
    <3>1. q \in Seq(S)  OBVIOUS
    <3> HIDE DEF S
    <3>2. h \in S /\ t \in Seq(S) /\ Len(q) \in Nat \ {0} /\ h = q[1]
      BY <1>2, <3>1, HeadTailProperties, EmptySeq
    <3>3. q = <<h>> \o t
      <4>1. 1 \in 1..Len(q) /\ Len(q) \in 1..Len(q)  BY <3>2
      <4>2. SubSeq(q, 1, Len(q)) = <<q[1]>> \o SubSeq(q, 1 + 1, Len(q))
        BY <3>1, <4>1, SubSeqRecursiveFirst
      <4>3. SubSeq(q, 1, Len(q)) = q  BY <3>1, SubSeqFull
      <4>4. t = SubSeq(q, 2, Len(q))  BY <1>2, <3>1, TailIsSubSeq
      <4>5. 1 + 1 = 2  OBVIOUS
      <4> QED  BY <3>2, <4>2, <4>3, <4>4, <4>5
    <3> QED  BY <3>2, <3>3
  <2>2. h # <<>> /\ StartsHeader(h[1])
    <3>1. 1 \in 1..Len(q)  BY <2>1
    <3> QED  BY <2>1, <3>1
  <2> DEFINE g == FlattenSeq(t)
             x == h \o g
  <2> HIDE DEF h, t
  <2>3. FlattenSeq(q) = x  BY <2>1, FlattenHead
  <2>4. g \in Seq(Byte)  BY <2>1, FlattenType
  <2> HIDE DEF g
  <2>5. x \in Seq(Byte) /\ Len(h) \in Nat /\ Len(g) \in Nat /\ Len(x) = Len(h) + Len(g)
        /\ \A i \in 1..Len(h) : x[i] = h[i]
    BY <2>1, <2>4, Joined
  <2>6. 1 \in 1..Len(h)  BY <2>1, <2>2, <2>5, EmptySeq
  <2>7. 1 \in 1..Len(x) /\ x[1] = h[1]  BY <2>5, <2>6
  <2> HIDE DEF x
  <2>8. \A i \in 1..Len(x) : (x \o u)[i] = x[i]  BY <2>5, Joined
  <2> QED  BY <2>2, <2>3, <2>7, <2>8
<1> QED  BY <1>1, <1>2

\* The first packet begins with a command, wherever the initial one ended.
LEMMA InitCut == Init => CutInv
<1> SUFFICES ASSUME Init, stream = "PacketChannelBroadcastStream", unsent # <<>>
             PROVE  StartsHeader(unsent[1])
  <2>1. Init => Len(channel) = 0  BY DEF Init
  <2> QED  BY <2>1 DEF CutInv
<1> DEFINE N == Len(recording)
<1>1. PICK initial \in 0..N :
         current = Commands(0, initial) /\ unsent = FileHeader \o Commands(initial, N)
  BY DEF Init
<1>2. /\ recording \in Recordings /\ offset = 0 /\ channel = <<>> /\ ~DemoFormat /\ header_skipped
      /\ cmd = 0 /\ handled = <<>> /\ Len(handled) = 0 /\ outcome = "running" /\ ~torn
  BY DEF Init, DemoFormat
<1>3. N \in Nat /\ initial \in 0..N /\ initial + 1 - 1 = initial  BY <1>2, RecordingFacts
<1>4. TypeInv /\ SentInv  BY InitType, InitSent
<1>5. Continues(current, 0, Behind, Arrived, At)  BY <1>2, <1>4 DEF SentInv
<1>6. Behind = unsent
  <2>1. FlattenSeq(channel) = <<>>  BY <1>2, EmptySeq DEF FlattenSeq
  <2>2. unsent \in Seq(Byte)  BY <1>4, ByteSeqs
  <2> QED  BY <2>1, <2>2, ConcatEmptySeq DEF Behind
<1>7. Len(FileHeader) = 0  BY <1>2, FileHeaderFacts
<1>8. Len(current) = StartOfCommand(initial + 1) /\ Len(current) \in Nat
  <2>1. Len(current) \in Nat  BY <1>4, ByteSeqs
  <2> QED  BY <1>1, <1>3, <1>7, <2>1 DEF StartOfCommand
<1>9. At = 0
  <2>1. At = StartOfCommand(1) + 0
    <3>1. Len(handled) + 1 = 1  BY <1>2
    <3> QED  BY <1>2, <3>1 DEF At
  <2> QED  BY <1>2, <1>7, <2>1, ArrivedFacts
<1> DEFINE c == current
           m == Len(current)
           y == Behind
           w == Arrived
<1>10. Continues(c, m, y, w, m)
  <2>1. Continues(c, 0, y, w, 0) /\ m \in 0..Len(c) /\ m = 0 + (m - 0)  BY <1>5, <1>8, <1>9
  <2> HIDE DEF c, m, y, w
  <2> QED  BY <2>1, Taken
<1>11. m < Len(w) /\ unsent[1] = w[m + 1]
  <2>1. m = Len(c) /\ y # <<>> /\ y = unsent  BY <1>6
  <2> HIDE DEF c, m, y, w
  <2> QED  BY <1>10, <2>1, FirstBehind
<1>12. initial # N
  <2>1. StartOfCommand(N + 1) = Len(w)  BY <1>2, ArrivedFacts
  <2> QED  BY <1>8, <1>11, <2>1
<1> DEFINE i == initial + 1
<1>13. i \in 1..N  BY <1>3, <1>12
<1>14. /\ recording[i].header \in Nat \ {0}
       /\ \A k \in 1..recording[i].header :
            w[StartOfCommand(i) + k] = [of |-> i, part |-> "header", at |-> k]
  BY <1>2, <1>13, Layout
<1>15. w[m + 1] = [of |-> i, part |-> "header", at |-> 1]
  <2>1. 1 \in 1..recording[i].header  BY <1>14
  <2> QED  BY <1>8, <1>14, <2>1
<1> QED  BY <1>11, <1>15 DEF StartsHeader

\* Response bodies are not empty and are cut where a command begins.
LEMMA CutStep ==
  ASSUME ~EmptyPackets, TypeInv, CutInv, [Next]_vars
  PROVE  CutInv'
<1> USE DEF sourceVars
<1>1. stream' = stream  BY SameRecording
<1> SUFFICES ASSUME stream = "PacketChannelBroadcastStream"
             PROVE  /\ \A n \in 1..Len(channel') : channel'[n] # <<>> /\ StartsHeader(channel'[n][1])
                    /\ unsent' # <<>> => StartsHeader(unsent'[1])
  BY <1>1 DEF CutInv
<1>2. /\ \A n \in 1..Len(channel) : channel[n] # <<>> /\ StartsHeader(channel[n][1])
      /\ unsent # <<>> => StartsHeader(unsent[1])
      /\ ~OverAsyncRead /\ ~DemoFormat
  BY DEF CutInv, OverAsyncRead, DemoFormat
<1>3. CASE UNCHANGED <<unsent, channel>>  BY <1>2, <1>3
<1>4. ASSUME NEW n \in 0..Len(unsent), Send(n)
      PROVE  /\ \A j \in 1..Len(channel') : channel'[j] # <<>> /\ StartsHeader(channel'[j][1])
             /\ unsent' # <<>> => StartsHeader(unsent'[1])
  <2> DEFINE x == SubSeq(unsent, 1, n)
             y == SubSeq(unsent, n + 1, Len(unsent))
  <2>1. /\ n # 0 /\ (n < Len(unsent) => StartsHeader(unsent[n + 1]))
        /\ channel' = Append(channel, x) /\ unsent' = y
    BY <1>2, <1>4 DEF Send
  <2>2. unsent \in Seq(Byte) /\ channel \in Seq(Seq(Byte)) /\ Len(unsent) \in Nat
        /\ Len(channel) \in Nat
    BY ByteSeqs
  <2>3. x \in Seq(Byte) /\ x # <<>> /\ x[1] = unsent[1]
    <3> DEFINE z == SubSeq(unsent, 0 + 1, n)
    <3>1. 0 \in Nat /\ n \in Nat /\ 0 <= n /\ n <= Len(unsent) /\ 0 + 1 = 1 /\ 1 \in 1..n - 0
      BY <2>1, <2>2
    <3>2. z \in Seq(Byte) /\ Len(z) = n - 0 /\ \A i \in 1..n - 0 : z[i] = unsent[0 + i]
      BY <2>2, <3>1, Slice
    <3>3. z = x  BY <3>1
    <3> HIDE DEF x, z
    <3>4. z[1] = unsent[1] /\ Len(z) # 0  BY <3>1, <3>2
    <3> QED  BY <3>2, <3>3, <3>4, EmptySeq
  <2>4. unsent # <<>>
    <3>1. Len(unsent) # 0  BY <2>1, <2>2
    <3> QED  BY <3>1, EmptySeq
  <2>5. y # <<>> => y[1] = unsent[n + 1] /\ n < Len(unsent)
    <3>1. n \in Nat /\ Len(unsent) <= Len(unsent) /\ n <= Len(unsent)  BY <2>2
    <3>2. /\ y \in Seq(Byte) /\ Len(y) = Len(unsent) - n
          /\ \A i \in 1..Len(unsent) - n : y[i] = unsent[n + i]
      BY <2>2, <3>1, Slice
    <3> HIDE DEF y
    <3>3. y # <<>> => Len(y) # 0  BY <3>2, EmptySeq
    <3>4. y # <<>> => 1 \in 1..Len(unsent) - n  BY <2>2, <3>1, <3>2, <3>3
    <3> QED  BY <2>2, <3>1, <3>2, <3>3, <3>4
  <2> HIDE DEF x, y
  <2>6. \A j \in 1..Len(channel') : channel'[j] # <<>> /\ StartsHeader(channel'[j][1])
    <3> DEFINE S == Seq(Byte)
               r == Append(channel, x)
    <3>1. channel \in Seq(S) /\ x \in S  BY <2>2, <2>3
    <3> HIDE DEF S
    <3>2. /\ Len(r) = Len(channel) + 1 /\ \A j \in 1..Len(channel) : r[j] = channel[j]
          /\ r[Len(channel) + 1] = x
      BY <3>1, AppendProperties
    <3> HIDE DEF r
    <3>3. ASSUME NEW j \in 1..Len(r) PROVE r[j] # <<>> /\ StartsHeader(r[j][1])
      <4>1. CASE j = Len(channel) + 1  BY <1>2, <2>3, <2>4, <3>2, <4>1
      <4>2. CASE j # Len(channel) + 1
        <5>1. j \in 1..Len(channel)  BY <2>2, <3>2, <4>2
        <5> QED  BY <1>2, <3>2, <5>1
      <4> QED  BY <4>1, <4>2
    <3>4. channel' = r  BY <2>1 DEF r
    <3> QED  BY <3>3, <3>4
  <2> QED  BY <2>1, <2>5, <2>6
<1>5. CASE channel # <<>> /\ channel' = Tail(channel) /\ unsent' = unsent
  <2>1. /\ Len(channel') + 1 = Len(channel)
        /\ \A i \in 1..Len(channel') : channel'[i] = channel[i + 1]
    BY <1>5, ChannelFacts
  <2>2. Len(channel) \in Nat /\ Len(channel') \in Nat
    <3>1. channel' \in Seq(Seq(Byte))  BY <1>5, ChannelFacts
    <3> QED  BY <3>1, ByteSeqs, LenProperties
  <2>3. ASSUME NEW j \in 1..Len(channel')
        PROVE  channel'[j] # <<>> /\ StartsHeader(channel'[j][1])
    <3>1. j + 1 \in 1..Len(channel)  BY <2>1, <2>2
    <3> QED  BY <1>2, <2>1, <3>1
  <2> QED  BY <1>2, <1>5, <2>3
<1>6. CASE Sender
  <2>1. CASE Close  BY <1>3, <2>1 DEF Close
  <2> QED  BY <1>4, <1>6, <2>1 DEF Sender
<1>7. CASE Parser
  <2>1. ReadsBroadcastPackets  BY <1>2, <1>7 DEF Parser, ReadsDemoPackets, ReadsAsyncRead
  <2> QED  BY <1>3, <1>5, <2>1 DEF ReadsBroadcastPackets, NextPacket, SourceExhausted, NextHeader,
                                   ReadBody, RecvSome, RecvNone
<1>8. CASE Drop  BY <1>3, <1>8 DEF Drop
<1>9. CASE UNCHANGED vars  BY <1>3, <1>9 DEF vars
<1> QED  BY <1>6, <1>7, <1>8, <1>9 DEF Next

\* The stream has less than it needs of the next command.
Short ==
  LET left == Len(current) - offset
      i    == Len(handled) + 1
  IN IF ~header_skipped THEN left < DEMO_HEADER_SIZE
     ELSE i <= Len(recording) =>
            \/ left < (IF cmd = 0 THEN recording[i].header ELSE 0) + recording[i].body
            \/ stream = "PacketChannelDemoStream" /\ cmd = 0 /\ left < MAX_HEADER

\* Then every command that has arrived is handled.
LEMMA ShortIsEnd ==
  ASSUME TypeInv, SentInv, ~torn, outcome = "running", channel = <<>>, Short,
         NEW i \in 1..Len(recording), HasArrived(i)
  PROVE  i \in 1..Len(handled)
<1> DEFINE n == Len(handled)
           N == Len(recording)
           left == Len(current) - offset
           len == Len(Arrived)
<1>1. /\ n \in Nat /\ N \in Nat /\ n + 1 \in 1..N + 1 /\ recording \in Recordings
      /\ At \in 0..len /\ len \in Nat /\ Len(unsent) \in Nat /\ Len(current) \in Nat
      /\ offset \in 0..Len(current)
  BY AtFacts, ByteSeqs DEF TypeInv
<1>2. left \in Nat /\ ArrivedLength = At + left
  <2> DEFINE c == current
             m == Len(current)
             a == At + left
  <2>1. Continues(c, offset, Behind, Arrived, At)  BY DEF SentInv
  <2>2. m \in offset..Len(c) /\ a = At + (m - offset) /\ left \in Nat  BY <1>1
  <2>3. Continues(c, m, Behind, Arrived, a)
    <3> HIDE DEF c, m, a, left
    <3> QED  BY <2>1, <2>2, Taken
  <2>4. Behind = unsent
    <3>1. FlattenSeq(channel) = <<>>  BY EmptySeq DEF FlattenSeq
    <3>2. unsent \in Seq(Byte)  BY ByteSeqs
    <3> QED  BY <3>1, <3>2, ConcatEmptySeq DEF Behind
  <2>5. Len(unsent) = len - a
    <3>1. m = Len(c)  OBVIOUS
    <3> HIDE DEF c, m, a
    <3>2. unsent = SubSeq(Arrived, a + 1, Len(Arrived))  BY <2>3, <2>4, <3>1, NextBehind
    <3>3. Arrived \in Seq(Byte) /\ a \in 0..Len(Arrived)  BY <2>3 DEF Continues
    <3>4. a \in Nat /\ a <= Len(Arrived) /\ Len(Arrived) \in Nat /\ Len(Arrived) <= Len(Arrived)
      BY <1>1, <3>3
    <3> QED  BY <3>2, <3>3, <3>4, SliceType
  <2>6. ArrivedLength = len - Len(unsent)  BY DEF ArrivedLength
  <2> QED  BY <1>1, <2>2, <2>5, <2>6
<1>3. /\ ArrivedLength >= StartOfCommand(i + 1)
      /\ stream = "PacketChannelDemoStream" => ArrivedLength >= StartOfCommand(i) + MAX_HEADER
  <2>1. i + 1 - 1 = i  BY <1>1
  <2> QED  BY <2>1 DEF HasArrived, StartOfCommand
<1>4. ASSUME NEW j \in 1..N + 1, NEW k \in j..N + 1
      PROVE  StartOfCommand(j) \in Nat /\ StartOfCommand(k) \in Nat
             /\ StartOfCommand(j) <= StartOfCommand(k)
  BY <1>1, StartsGrow
<1> SUFFICES ASSUME i > n PROVE FALSE  BY <1>1
<1> HIDE DEF left, len, N, n
<1>5. CASE ~header_skipped
  <2>1. At = 0 /\ DemoFormat  BY <1>5 DEF At, TypeInv
  <2>2. left < DEMO_HEADER_SIZE  BY <1>5 DEF Short, left
  <2>3. StartOfCommand(1) = DEMO_HEADER_SIZE  BY <1>1, <2>1, ArrivedFacts, FileHeaderFacts
  <2>4. 1 \in 1..N + 1 /\ i + 1 \in 1..N + 1  BY <1>1 DEF N
  <2>5. StartOfCommand(1) <= StartOfCommand(i + 1) /\ StartOfCommand(i + 1) \in Nat  BY <1>4, <2>4
  <2> QED  BY <1>2, <1>3, <2>1, <2>2, <2>3, <2>5, PacketAssumption
<1>6. CASE header_skipped
  <2> DEFINE s == StartOfCommand(n + 1)
             h == recording[n + 1].header
             b == recording[n + 1].body
             e == StartOfCommand(n + 2)
  <2>1. n + 1 \in 1..N /\ n + 1 <= N /\ n + 1 + 1 = n + 2 /\ i \in n + 1..N + 1 /\ i + 1 \in n + 2..N + 1
        /\ n + 2 \in 1..N + 1 /\ n + 1 \in 1..N + 1
    BY <1>1 DEF N
  <2>2. s \in Nat /\ h \in Nat \ {0} /\ b \in Nat /\ e = s + h + b
    BY <1>1, <2>1, Layout DEF N
  <2>3. s <= StartOfCommand(i) /\ StartOfCommand(i) \in Nat
        /\ e <= StartOfCommand(i + 1) /\ StartOfCommand(i + 1) \in Nat
    BY <1>4, <2>1
  <2>4. At = s + IF cmd = 0 THEN 0 ELSE h
    <3>1. cmd = 0 => At = s  BY <1>6, AtFacts DEF n
    <3>2. cmd # 0 => At = s + h  BY AtFacts DEF n
    <3> QED  BY <2>2, <3>1, <3>2
  <2>5. \/ left < (IF cmd = 0 THEN h ELSE 0) + b
        \/ stream = "PacketChannelDemoStream" /\ cmd = 0 /\ left < MAX_HEADER
    BY <1>6, <2>1 DEF Short, left, n, N
  <2> HIDE DEF s, h, b, e
  <2>6. CASE left < (IF cmd = 0 THEN h ELSE 0) + b
    BY <1>2, <1>3, <2>2, <2>3, <2>4, <2>6
  <2>7. CASE stream = "PacketChannelDemoStream" /\ cmd = 0 /\ left < MAX_HEADER
    BY <1>2, <1>3, <2>2, <2>3, <2>4, <2>7, DemoStreamAssumption
  <2> QED  BY <2>5, <2>6, <2>7
<1> QED  BY <1>1, <1>5, <1>6 DEF TypeInv

\* What a step that ends a run finds and gives.
EndsHere ==
  /\ channel = <<>> /\ closed /\ Short
  /\ UNCHANGED <<stream, recording, unsent, channel, closed, cmd, handled>>
  /\ IF stream = "AsyncDemoFile" THEN outcome' = "error" ELSE (outcome' = "error") = (cmd # 0)

\* PacketChannelDemoStream: a run ends in ensure_bytes and nowhere else, since what it
\* reads as a header is one.
LEMMA DemoPacketsEnd ==
  ASSUME TypeInv, SentInv, ~torn, ReadsDemoPackets, outcome' # outcome
  PROVE  EndsHere
<1>1. stream = "PacketChannelDemoStream"  BY DEF ReadsDemoPackets
<1>2. ~EnsureRecv /\ ~skip_header_if_needed  BY DEF EnsureRecv, skip_header_if_needed, parserVars
<1>3. ~read_cmd  BY DEF read_cmd, GotBody
<1>4. ~read_cmd_header
  <2> SUFFICES ASSUME read_cmd_header PROVE FALSE  OBVIOUS
  <2>1. /\ pc = "header" /\ header_skipped /\ GotHeader(current[offset + 1])
        /\ UNCHANGED <<stream, recording, header_skipped>>
        /\ Len(current) - offset >= MAX_HEADER
    BY DEF read_cmd_header, Wanted, remaining, sourceVars
  <2>2. offset < Len(current)
    BY <2>1, ByteSeqs, DemoStreamAssumption DEF TypeInv
  <2>3. Continues(current, offset, Behind, Arrived, At)  BY <2>1 DEF SentInv, TypeInv
  <2> QED  BY <2>1, <2>2, <2>3, HeaderSent
<1>5. EnsureExhausted  BY <1>2, <1>3, <1>4 DEF ReadsDemoPackets
<1>6. /\ channel = <<>> /\ closed /\ pc # "done" /\ Len(current) - offset < Wanted
      /\ UNCHANGED <<stream, recording, unsent, channel, closed, cmd, handled>>
      /\ outcome' = IF pc = "body" THEN "error" ELSE "ok"
  BY <1>5 DEF EnsureExhausted, EnsuringBytes, RecvNone, Returns, OnBodyError, OnHeaderError, remaining
<1>7. Short
  <2>1. CASE pc = "body"
    <3>1. /\ cmd # 0 /\ header_skipped /\ cmd = Len(handled) + 1 /\ cmd \in 1..Len(recording)
      BY <2>1, AtFacts DEF TypeInv
    <3>2. recording[cmd].body \in Nat  BY <3>1, RecordingFacts DEF TypeInv
    <3>3. Len(current) - offset < recording[cmd].body  BY <1>6, <2>1 DEF Wanted
    <3>4. Len(current) - offset < 0 + recording[cmd].body  BY <3>2, <3>3
    <3> QED  BY <3>1, <3>4 DEF Short
  <2>2. CASE pc # "body"
    <3>1. cmd = 0  BY <1>6, <2>2 DEF TypeInv
    <3>2. Wanted = IF header_skipped THEN MAX_HEADER ELSE DEMO_HEADER_SIZE  BY <2>2 DEF Wanted
    <3> QED  BY <1>1, <1>6, <3>1, <3>2 DEF Short
  <2> QED  BY <2>1, <2>2
<1>8. (outcome' = "error") = (cmd # 0)  BY <1>6 DEF TypeInv
<1> QED  BY <1>1, <1>6, <1>7, <1>8 DEF EndsHere

\* A header that begins in a packet is all in it.
LEMMA HeaderWhole ==
  ASSUME TypeInv, SentInv, ~torn, pc = "header", header_skipped, ~DemoFormat,
         NEW c, NEW o, NEW y, Continues(c, o, y, Arrived, At), o < Len(c),
         y # <<>> => StartsHeader(y[1])
  PROVE  HasBytes(c, o, BROADCAST_CMD_HEADER_SIZE)
<1> DEFINE i == Len(handled) + 1
           s == StartOfCommand(i)
           size == BROADCAST_CMD_HEADER_SIZE
           k == Len(c) - o
<1>1. i \in 1..Len(recording) /\ At = s  BY HeaderComes
<1>2. recording \in Recordings  BY DEF TypeInv
<1>3. recording[i].header = size /\ size \in Nat \ {0}
  <2>1. recording[i].header \in {size}  BY <1>1, <1>2, RecordingFacts
  <2> QED  BY <2>1, PacketAssumption
<1>4. /\ s \in Nat /\ Len(Arrived) \in Nat /\ recording[i].body \in Nat
      /\ s + recording[i].header + recording[i].body <= Len(Arrived)
      /\ \A j \in 1..recording[i].header : Arrived[s + j] = [of |-> i, part |-> "header", at |-> j]
  BY <1>1, <1>2, Layout, ArrivedFacts
<1>5. At + size <= Len(Arrived)  BY <1>1, <1>3, <1>4
<1>6. o \in Nat /\ Len(c) \in Nat  BY LenProperties DEF Continues
<1>7. k < size => ~StartsHeader(Arrived[At + k + 1])
  <2> SUFFICES ASSUME k < size PROVE ~StartsHeader(Arrived[At + k + 1])  OBVIOUS
  <2>1. k + 1 \in 1..recording[i].header /\ k + 1 # 1  BY <1>3, <1>6
  <2>2. At + k + 1 = s + (k + 1)  BY <1>1, <1>4, <1>6
  <2>3. Arrived[s + (k + 1)] = [of |-> i, part |-> "header", at |-> k + 1]  BY <1>4, <2>1
  <2> QED  BY <2>1, <2>2, <2>3 DEF StartsHeader
<1> HIDE DEF size, s, i
<1>8. size \in Nat  BY <1>3
<1>9. o + size <= Len(c)  BY <1>5, <1>7, <1>8, WholeAhead
<1> QED  BY <1>9 DEF HasBytes, size

\* And so is the body after it.
LEMMA BodyWhole ==
  ASSUME TypeInv, SentInv, ~torn, pc = "body",
         NEW c, NEW o, NEW y, Continues(c, o, y, Arrived, At),
         y # <<>> => StartsHeader(y[1])
  PROVE  HasBytes(c, o, recording[cmd].body)
<1> DEFINE s == StartOfCommand(cmd)
           h == recording[cmd].header
           size == recording[cmd].body
           k == Len(c) - o
<1>1. recording \in Recordings /\ cmd \in 1..Len(recording) /\ At = s + h
  BY AtFacts DEF TypeInv
<1>2. /\ s \in Nat /\ h \in Nat \ {0} /\ size \in Nat /\ Len(Arrived) \in Nat
      /\ s + h + size <= Len(Arrived)
      /\ \A j \in 1..size : Arrived[s + h + j] = [of |-> cmd, part |-> "body", at |-> j]
  BY <1>1, Layout, ArrivedFacts
<1>3. o \in Nat /\ Len(c) \in Nat /\ o <= Len(c)  BY LenProperties DEF Continues
<1> HIDE DEF size, s, h
<1>4. k < size => ~StartsHeader(Arrived[At + k + 1])
  <2> SUFFICES ASSUME k < size PROVE ~StartsHeader(Arrived[At + k + 1])  OBVIOUS
  <2>1. k + 1 \in 1..size  BY <1>2, <1>3
  <2>2. At + k + 1 = s + h + (k + 1)  BY <1>1, <1>2, <1>3
  <2>3. Arrived[s + h + (k + 1)] = [of |-> cmd, part |-> "body", at |-> k + 1]  BY <1>2, <2>1
  <2> QED  BY <2>2, <2>3 DEF StartsHeader
<1>5. At + size <= Len(Arrived)  BY <1>1, <1>2
<1>6. o + size <= Len(c)  BY <1>2, <1>4, <1>5, WholeAhead
<1> QED  BY <1>6 DEF HasBytes, size

\* PacketChannelBroadcastStream: a run ends where there is no packet left; no header and
\* no body is cut off in one.
LEMMA BroadcastPacketsEnd ==
  ASSUME TypeInv, SentInv, CutInv, CutInv', ~torn, ReadsBroadcastPackets, outcome' # outcome
  PROVE  EndsHere
<1> USE DEF sourceVars
<1>1. /\ stream = "PacketChannelBroadcastStream" /\ ~DemoFormat /\ header_skipped
      /\ UNCHANGED <<stream, recording, header_skipped, unsent>>
  BY DEF ReadsBroadcastPackets, NextPacket, SourceExhausted, NextHeader, ReadBody,
         RecvSome, RecvNone, TypeInv, DemoFormat
<1>2. pc # "done" => Continues(current, offset, Behind, Arrived, At)  BY DEF SentInv, TypeInv
<1>3. unsent \in Seq(Byte) /\ channel \in Seq(Seq(Byte))  BY ByteSeqs
\* A header that is there is read, and the run goes on.
<1>4. ASSUME pc = "header", NEW c, NEW o, NEW y, Continues(c, o, y, Arrived, At), o < Len(c),
             y # <<>> => StartsHeader(y[1]), ReadHeaderAt(c, o)
      PROVE  FALSE
  <2>1. HasBytes(c, o, BROADCAST_CMD_HEADER_SIZE)  BY <1>1, <1>4, HeaderWhole
  <2>2. GotHeader(c[o + 1])  BY <1>4, <2>1 DEF ReadHeaderAt
  <2>3. outcome' = outcome  BY <1>1, <1>4, <2>2, HeaderSent
  <2> QED  BY <2>3
<1>5. Behind # <<>> => StartsHeader(Behind[1])
  <2> DEFINE q == channel
             u == unsent
             y == Behind
  <2>1. /\ \A n \in 1..Len(q) : q[n] # <<>> /\ StartsHeader(q[n][1])
        /\ u # <<>> => StartsHeader(u[1])
    BY <1>1 DEF CutInv
  <2>2. q \in Seq(Seq(Byte)) /\ u \in Seq(Byte) /\ y = FlattenSeq(q) \o u  BY <1>3 DEF Behind
  <2> HIDE DEF q, u, y
  <2>3. y # <<>> => StartsHeader(y[1])  BY <2>1, <2>2, BehindStarts
  <2> QED  BY <2>3 DEF y
<1>6. ~NextPacket
  <2> SUFFICES ASSUME NextPacket PROVE FALSE  OBVIOUS
  <2>1. /\ channel # <<>> /\ channel' = Tail(channel) /\ pc = "header" /\ offset >= Len(current)
        /\ ReadHeaderAt(Head(channel), 0)
    BY DEF NextPacket, RecvSome, EnsuringData, StartOf, Exhausted
  <2>2. Behind = Head(channel) \o Behind' /\ Behind' \in Seq(Byte)  BY <1>1, <2>1, ReceivedFrom
  <2>3. Head(channel) \in Seq(Byte) /\ channel' \in Seq(Seq(Byte)) /\ Head(channel) = channel[1]
    BY <2>1, ChannelFacts
  <2> DEFINE z == Behind'
             x == Head(channel)
             o == offset
             c == current
             q == channel'
             u == unsent
  <2>4. Continues(c, o, x \o z, Arrived, At)  BY <1>2, <2>1, <2>2
  <2>5. o = Len(c)  BY <2>1, ByteSeqs DEF TypeInv
  <2>6. Continues(x, 0, z, Arrived, At)
    <3>1. x \in Seq(Byte) /\ z \in Seq(Byte)  BY <2>2, <2>3
    <3> HIDE DEF z, x, c, o
    <3> QED  BY <2>4, <2>5, <3>1, ChunkJoins
  <2>7. 0 < Len(x)
    <3>1. Len(channel) \in Nat /\ Len(channel) # 0  BY <1>3, <2>1, EmptySeq, LenProperties
    <3>2. 1 \in 1..Len(channel)  BY <3>1
    <3>3. x # <<>>  BY <1>1, <2>3, <3>2 DEF CutInv
    <3>4. Len(x) \in Nat /\ Len(x) # 0
      <4> HIDE DEF x
      <4> QED  BY <2>3, <3>3, EmptySeq, LenProperties DEF x
    <3> QED  BY <3>4
  <2>8. z # <<>> => StartsHeader(z[1])
    <3>1. /\ \A n \in 1..Len(q) : q[n] # <<>> /\ StartsHeader(q[n][1])
          /\ u # <<>> => StartsHeader(u[1])
      BY <1>1 DEF CutInv
    <3>2. q \in Seq(Seq(Byte)) /\ u \in Seq(Byte) /\ z = FlattenSeq(q) \o u
      BY <1>1, <1>3, <2>3 DEF Behind
    <3> HIDE DEF q, u, z
    <3> QED  BY <3>1, <3>2, BehindStarts
  <2>9. ReadHeaderAt(x, 0)  BY <2>1
  <2> HIDE DEF z, x, c, o, q, u
  <2> QED  BY <1>4, <2>1, <2>6, <2>7, <2>8, <2>9
<1>7. ~NextHeader
  <2> SUFFICES ASSUME NextHeader PROVE FALSE  OBVIOUS
  <2>1. pc = "header" /\ ReadHeaderAt(current, offset) /\ ~(offset >= Len(current))
    BY DEF NextHeader, Exhausted
  <2>2. offset < Len(current)  BY <2>1, ByteSeqs DEF TypeInv
  <2> QED  BY <1>2, <1>4, <1>5, <2>1, <2>2
<1>8. ~ReadBody
  <2> SUFFICES ASSUME ReadBody PROVE FALSE  OBVIOUS
  <2>1. pc = "body"  BY DEF ReadBody
  <2>2. HasBytes(current, offset, recording[cmd].body)  BY <1>2, <1>5, <2>1, BodyWhole
  <2> QED  BY <2>2 DEF ReadBody, GotBody
<1>9. SourceExhausted  BY <1>6, <1>7, <1>8 DEF ReadsBroadcastPackets
<1>10. /\ pc = "header" /\ channel = <<>> /\ closed /\ offset >= Len(current)
       /\ UNCHANGED <<stream, recording, unsent, channel, closed, cmd, handled>> /\ outcome' = "ok"
  BY <1>9 DEF SourceExhausted, EnsuringData, Exhausted, RecvNone, Returns, OnHeaderError
<1>11. cmd = 0  BY <1>10 DEF TypeInv
<1>12. Short
  <2> DEFINE i == Len(handled) + 1
  <2> SUFFICES ASSUME i <= Len(recording)
               PROVE  Len(current) - offset < recording[i].header + recording[i].body
    BY <1>1, <1>11 DEF Short
  <2>1. i \in 1..Len(recording)  BY ByteSeqs
  <2>2. recording[i].header \in Nat \ {0} /\ recording[i].body \in Nat
    BY <2>1, RecordingFacts DEF TypeInv
  <2>3. Len(current) - offset = 0  BY <1>10, ByteSeqs DEF TypeInv
  <2> HIDE DEF i
  <2> QED  BY <2>2, <2>3
<1> QED  BY <1>1, <1>10, <1>11, <1>12 DEF EndsHere

\* AsyncDemoFile and AsyncBroadcastStream: a run ends in a read_exact that is short.
LEMMA AsyncReadEnd ==
  ASSUME TypeInv, SentInv, ~torn, ReadsAsyncRead, outcome' # outcome
  PROVE  EndsHere
<1> USE DEF sourceVars
<1>1. OverAsyncRead /\ offset = 0 /\ stream # "PacketChannelDemoStream"
  BY DEF ReadsAsyncRead, TypeInv, OverAsyncRead
<1>2. pc # "done" => Continues(current, offset, Behind, Arrived, At)  BY DEF SentInv, TypeInv
<1>3. ~ReadExact /\ ~start_reading /\ ~read_cmd_async
  BY DEF ReadExact, start_reading, read_cmd_async, GotBody, parserVars
<1>4. ~read_cmd_header_async
  <2> SUFFICES ASSUME read_cmd_header_async PROVE FALSE  OBVIOUS
  <2>1. /\ pc = "header" /\ header_skipped /\ Left = 0 /\ GotHeader(current[1])
        /\ UNCHANGED <<stream, recording, header_skipped>>
    BY DEF read_cmd_header_async
  <2>2. Left = HeaderLeft  BY <1>1, <2>1, LeftFacts
  <2>3. current # <<>>
    <3> SUFFICES ASSUME current = <<>> PROVE FALSE  OBVIOUS
    <3>1. HeaderLeft = IF stream = "AsyncBroadcastStream" THEN BROADCAST_CMD_HEADER_SIZE - 0 ELSE 1
      BY DEF HeaderLeft
    <3> QED  BY <2>1, <2>2, <3>1, PacketAssumption
  <2>4. offset < Len(current) /\ offset + 1 = 1  BY <1>1, <2>3, LeftFacts
  <2>5. GotHeader(current[offset + 1])  BY <2>1, <2>4
  <2>6. outcome' = outcome  BY <1>2, <2>1, <2>4, <2>5, HeaderSent
  <2> QED  BY <2>6
<1>5. ReadExactFails  BY <1>3, <1>4 DEF ReadsAsyncRead
<1>6. /\ pc # "done" /\ Left > 0 /\ channel = <<>> /\ closed
      /\ UNCHANGED <<stream, recording, unsent, channel, closed, cmd, handled>>
      /\ outcome' = IF ~header_skipped \/ pc = "body" \/ stream = "AsyncDemoFile" THEN "error" ELSE "ok"
  BY <1>5 DEF ReadExactFails, Reading, RecvNone, Returns, OnBodyError, OnHeaderError, EndOfHeader
<1>7. IF stream = "AsyncDemoFile" THEN outcome' = "error" ELSE (outcome' = "error") = (cmd # 0)
  <2>1. stream # "AsyncDemoFile" => header_skipped
    BY <1>1 DEF TypeInv, OverAsyncRead, DemoFormat
  <2>2. (pc = "body") = (cmd # 0)  BY <1>6 DEF TypeInv
  <2> QED  BY <1>6, <2>1, <2>2
<1>8. Short
  <2> DEFINE i == Len(handled) + 1
             l == Len(current)
  <2>1. l \in Nat /\ Len(current) - offset = l  BY <1>1, LeftFacts
  <2>2. CASE pc = "body"
    <3>1. cmd # 0 /\ header_skipped /\ cmd = i /\ cmd \in 1..Len(recording)
      BY <2>2, AtFacts DEF TypeInv
    <3> DEFINE b == recording[i].body
    <3>2. b \in Nat  BY <3>1, RecordingFacts DEF TypeInv
    <3>3. b - l > 0  BY <1>1, <1>6, <2>2, <3>1, LeftFacts
    <3> HIDE DEF l, b
    <3>4. l < 0 + b  BY <2>1, <3>2, <3>3
    <3> QED  BY <2>1, <3>1, <3>4 DEF Short, b
  <2>3. CASE pc # "body" /\ ~header_skipped
    <3>1. DEMO_HEADER_SIZE - l > 0  BY <1>1, <1>6, <2>3, LeftFacts
    <3> HIDE DEF l
    <3>2. l < DEMO_HEADER_SIZE  BY <2>1, <3>1, PacketAssumption
    <3> QED  BY <2>1, <2>3, <3>2 DEF Short
  <2>4. CASE pc # "body" /\ header_skipped
    <3>1. pc = "header" /\ cmd = 0 /\ HeaderLeft > 0  BY <1>1, <1>6, <2>4, LeftFacts DEF TypeInv
    <3> SUFFICES ASSUME i <= Len(recording)
                 PROVE  Len(current) - offset < recording[i].header + recording[i].body
      BY <2>4, <3>1 DEF Short
    <3> DEFINE h == recording[i].header
               b == recording[i].body
    <3>2. i \in 1..Len(recording)  BY ByteSeqs
    <3>3. /\ h \in Nat \ {0} /\ b \in Nat
          /\ h \in IF DemoFormat THEN VarintHeaders ELSE {BROADCAST_CMD_HEADER_SIZE}
      BY <3>2, RecordingFacts DEF TypeInv
    <3>4. l < h
      <4>1. CASE stream = "AsyncBroadcastStream"
        <5>1. h = BROADCAST_CMD_HEADER_SIZE  BY <3>3, <4>1 DEF DemoFormat
        <5>2. BROADCAST_CMD_HEADER_SIZE - l > 0  BY <3>1, <4>1 DEF HeaderLeft
        <5> HIDE DEF l, h
        <5> QED  BY <2>1, <3>3, <5>1, <5>2
      <4>2. CASE stream # "AsyncBroadcastStream" /\ current = <<>>
        <5>1. l = 0  BY <4>2
        <5> HIDE DEF l, h
        <5> QED  BY <3>3, <5>1
      <4>3. CASE stream # "AsyncBroadcastStream" /\ current # <<>>
        <5>1. offset < Len(current) /\ offset + 1 = 1  BY <1>1, <4>3, LeftFacts
        <5>2. current[1] = [of |-> i, part |-> "header", at |-> 1]
          <6>1. current[offset + 1] = [of |-> i, part |-> "header", at |-> 1]
            BY <1>2, <2>4, <3>1, <5>1, HeaderComes
          <6> QED  BY <5>1, <6>1
        <5>3. HeaderLeft = h - l  BY <4>3, <5>2 DEF HeaderLeft, StartsHeader
        <5> HIDE DEF l, h
        <5> QED  BY <2>1, <3>1, <3>3, <5>3
      <4> QED  BY <4>1, <4>2, <4>3
    <3> HIDE DEF l, h, b
    <3>5. l < h + b  BY <2>1, <3>3, <3>4
    <3> QED  BY <2>1, <3>5 DEF h, b
  <2> QED  BY <2>2, <2>3, <2>4 DEF TypeInv
<1> QED  BY <1>6, <1>7, <1>8 DEF EndsHere

\* A run that is over stays over, and one that ends does it at the end.
LEMMA EndStep ==
  ASSUME ~EmptyPackets, TypeInv, SentInv, CutInv, EndIsTheEnd, [Next]_vars
  PROVE  EndIsTheEnd'
<1> SUFFICES ASSUME outcome' # "running", ~torn'
             PROVE  EndIsTheEnd'
  BY DEF EndIsTheEnd
<1>1. ~torn
  BY DEF Next, Sender, Parser, Drop, callerVars, vars, TypeInv
<1>2. UNCHANGED <<stream, recording>>  BY SameRecording
<1>3. ASSUME UNCHANGED unsent, NEW i PROVE HasArrived(i)' = HasArrived(i)
  BY <1>2, <1>3 DEF HasArrived, ArrivedLength, Arrived, FileHeader, DemoFormat, Commands, Header, Body
<1>4. CASE outcome # "running"
  <2>1. pc = "done" /\ closed  BY <1>1, <1>4 DEF TypeInv, EndIsTheEnd
  <2>2. ~Sender  BY <2>1 DEF Sender, Send, Close
  <2>3. ~Drop
    BY <2>1 DEF Drop, Waiting, EnsuringBytes, EnsuringData, Reading
  <2>4. ~ReadsDemoPackets
    BY <2>1 DEF ReadsDemoPackets, EnsureRecv, EnsureExhausted, skip_header_if_needed,
                read_cmd_header, read_cmd, EnsuringBytes
  <2>5. ~ReadsBroadcastPackets
    BY <2>1 DEF ReadsBroadcastPackets, NextPacket, SourceExhausted, NextHeader, ReadBody,
                EnsuringData
  <2>6. ~ReadsAsyncRead
    BY <2>1 DEF ReadsAsyncRead, ReadExact, ReadExactFails, start_reading, read_cmd_header_async,
                read_cmd_async, Reading
  <2>7. UNCHANGED vars  BY <2>2, <2>3, <2>4, <2>5, <2>6 DEF Next, Parser
  <2>8. UNCHANGED <<stream, unsent, recording, channel, closed, cmd, handled, outcome, torn>>
    BY <2>7 DEF vars, sourceVars, parserVars, callerVars
  <2>9. /\ closed /\ channel = <<>>
        /\ \A i \in DOMAIN recording : HasArrived(i) => i \in DOMAIN handled
        /\ IF stream = "AsyncDemoFile" THEN outcome = "error"
           ELSE (outcome = "error") = (cmd # 0)
    BY <1>1, <1>4 DEF EndIsTheEnd
  <2> QED  BY <1>3, <2>8, <2>9 DEF EndIsTheEnd
<1>5. CASE outcome = "running"
  <2>1. outcome' # outcome  BY <1>5
  <2>2. Parser
    <3>1. ~Sender /\ ~Drop  BY <2>1 DEF Sender, Drop, parserVars
    <3>2. ~UNCHANGED vars  BY <2>1 DEF vars, parserVars
    <3> QED  BY <3>1, <3>2 DEF Next
  <2>3. CutInv'  BY CutStep
  <2>4. EndsHere
    BY <1>1, <2>1, <2>2, <2>3, DemoPacketsEnd, BroadcastPacketsEnd, AsyncReadEnd DEF Parser
  <2>5. DOMAIN recording = 1..Len(recording) /\ DOMAIN handled = 1..Len(handled)
    <3>1. DOMAIN recording = 1..Len(recording)  BY RecordingFacts DEF TypeInv
    <3> QED  BY <3>1 DEF TypeInv, Handled
  <2>6. \A i \in DOMAIN recording : HasArrived(i) => i \in DOMAIN handled
    BY <1>1, <1>5, <2>4, <2>5, ShortIsEnd DEF EndsHere
  <2>7. (\A i \in DOMAIN recording : HasArrived(i) => i \in DOMAIN handled)'
    BY <1>3, <2>4, <2>6 DEF EndsHere
  <2> QED  BY <2>4, <2>7 DEF EndIsTheEnd, EndsHere
<1> QED  BY <1>4, <1>5

\* A run of AsyncStreamingParser over one of the four streams ends only when its sender
\* has closed it and nothing is left in the channel, and has then handed the visitor
\* every command that arrived.  It is Ok where no body was cut off and only there; but
\* over an async demo file it is never Ok, the end of file coming to it in a varint.
\* (A broadcast must not have empty response bodies: such a one ends a run before its
\* time.)
THEOREM EndCorrect ==
  ASSUME ~EmptyPackets
  PROVE  Spec => []EndIsTheEnd
<1> DEFINE EndInv == TypeInv /\ SentInv /\ CutInv /\ EndIsTheEnd
<1>1. Init => EndInv
  <2>1. Init => EndIsTheEnd  BY DEF Init, EndIsTheEnd
  <2> QED  BY <2>1, InitType, InitSent, InitCut
<1>2. EndInv /\ [Next]_vars => EndInv'
  <2> SUFFICES ASSUME EndInv, [Next]_vars PROVE EndInv'  OBVIOUS
  <2> QED  BY TypeStep, SentStep, CutStep, EndStep
<1>3. EndInv => EndIsTheEnd  OBVIOUS
<1> QED  BY <1>1, <1>2, <1>3, PTL DEF Spec
==============================================================================
