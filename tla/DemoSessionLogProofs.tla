-------------------------- MODULE DemoSessionLogProofs -------------------------
(***************************************************************************)
(* What a visitor is shown by the calls of a session, for recordings and   *)
(* sessions of any size.  It is compared over whole calls, so the log and  *)
(* what is recorded are both built up a command at a time: Only and        *)
(* RecordedVisits are folds, and have a lemma for one element more.        *)
(*                                                                         *)
(* Writes is what a handler adds to a log; ToldInv says that the recorder  *)
(* keeps of a command the changes its entries tell of.  A command that is  *)
(* handled where the Context tracks the game therefore writes what is      *)
(* recorded of it; Going carries that through a run to the end, SegmentLog *)
(* through a segment, and VisitedInv says it between the calls.            *)
(***************************************************************************)
EXTENDS DemoSessionProofs

------------------------------------------------------------------------------
(* Logs.                                                                   *)

PickLoop == INSTANCE LoopFacts WITH Body <- Pick
ReelLoop == INSTANCE LoopFacts WITH Body <- AddRecorded

\* What picking from a log starts with, and comes to.
PickFrom(kinds, commands) == [log |-> <<>>, kinds |-> kinds, commands |-> commands]
Picking(log, kinds, commands) == FoldLeft(Pick, PickFrom(kinds, commands), log)

\* From nothing nothing is picked.
LEMMA PickingEmpty ==
  ASSUME NEW K, NEW C PROVE Picking(<<>>, K, C) = PickFrom(K, C)
<1> DEFINE b == PickFrom(K, C)
           s == <<>>
<1>1. DOMAIN s = 1..0  OBVIOUS
<1> HIDE DEF b, s
<1>2. PickLoop!Loop(b, s) = b  BY <1>1, PickLoop!LoopEmpty
<1>3. FoldLeft(Pick, b, s) = b
  BY <1>2 DEF PickLoop!Loop, PickLoop!Iterates, PickLoop!Last, FoldLeft, MapThenFoldSet, Max
<1> QED  BY <1>3 DEF b, s, Picking

\* One more callback is picked, or not.
LEMMA PickingOneMore ==
  ASSUME NEW S, NEW s \in Seq(S), NEW v \in S, NEW K, NEW C
  PROVE  Picking(Append(s, v), K, C) = Pick(Picking(s, K, C), v)
<1> DEFINE b == PickFrom(K, C)
           t == Append(s, v)
           n == Len(s)
<1>1. /\ n \in Nat /\ DOMAIN s = 1..n /\ DOMAIN t = 1..n + 1
      /\ \A i \in 1..n : t[i] = s[i]
      /\ t[n + 1] = v
  OBVIOUS
<1> HIDE DEF b, t, n
<1>2. PickLoop!Loop(b, t) = Pick(PickLoop!Loop(b, s), t[n + 1])  BY <1>1, PickLoop!LoopOneMore
<1>3. FoldLeft(Pick, b, s) = PickLoop!Loop(b, s)
  BY DEF PickLoop!Loop, PickLoop!Iterates, PickLoop!Last, FoldLeft, MapThenFoldSet, Max
<1>4. FoldLeft(Pick, b, t) = PickLoop!Loop(b, t)
  BY DEF PickLoop!Loop, PickLoop!Iterates, PickLoop!Last, FoldLeft, MapThenFoldSet, Max
<1> QED  BY <1>1, <1>2, <1>3, <1>4 DEF b, t, Picking

\* A sequence that is not empty is one element longer than another.
LEMMA SeqSplit ==
  ASSUME NEW S, NEW n \in Nat, NEW s \in Seq(S), Len(s) = n + 1
  PROVE  \E t \in Seq(S), v \in S : s = Append(t, v) /\ Len(t) = n
<1> DEFINE t == [i \in 1..n |-> s[i]]
           v == s[n + 1]
<1>1. t \in Seq(S) /\ Len(t) = n /\ v \in S
  <2>1. \A i \in 1..n : s[i] \in S  OBVIOUS
  <2>2. t \in Seq(S)  BY <2>1, IsASeq
  <2>3. Len(t) = n  OBVIOUS
  <2>4. v \in S  OBVIOUS
  <2> QED  BY <2>2, <2>3, <2>4
<1>2. Append(t, v) \in Seq(S) /\ Len(Append(t, v)) = n + 1
      /\ \A i \in 1..n + 1 : Append(t, v)[i] = s[i]
  <2>1. \A i \in 1..n : t[i] = s[i]  OBVIOUS
  <2> HIDE DEF t
  <2> QED  BY <1>1, <2>1
<1>3. Append(t, v) = s  BY <1>2, SeqEqual
<1> HIDE DEF t, v
<1> QED  BY <1>1, <1>3

\* Induction over sequences, of a set of them.
LEMMA SeqSetInduction ==
  ASSUME NEW S, NEW G, <<>> \in G, \A t \in Seq(S) : \A v \in S : t \in G => Append(t, v) \in G
  PROVE  \A s \in Seq(S) : s \in G
<1> DEFINE T == {n \in Nat : \A s \in Seq(S) : Len(s) = n => s \in G}
<1>1. 0 \in T
  <2>1. \A s \in Seq(S) : Len(s) = 0 => s = <<>>  OBVIOUS
  <2> QED  BY <2>1
<1>2. ASSUME NEW n \in Nat, n \in T PROVE n + 1 \in T
  <2> SUFFICES ASSUME NEW s \in Seq(S), Len(s) = n + 1 PROVE s \in G  OBVIOUS
  <2>1. PICK t \in Seq(S), v \in S : s = Append(t, v) /\ Len(t) = n  BY SeqSplit
  <2>2. t \in G  BY <1>2, <2>1
  <2> QED  BY <2>1, <2>2
<1> HIDE DEF T
<1>3. \A n \in Nat : n \in T  BY <1>1, <1>2, NatSetInduction
<1>4. ASSUME NEW s \in Seq(S) PROVE s \in G
  <2>1. Len(s) \in Nat  OBVIOUS
  <2> QED  BY <1>3, <2>1 DEF T
<1> QED  BY <1>4

\* One turn of the loop, on the state written out.
LEMMA PickIs ==
  ASSUME NEW a, NEW K, NEW C, NEW v, NEW s, s = [log |-> a, kinds |-> K, commands |-> C]
  PROVE  Pick(s, v) = [log |-> IF v.kind \in K /\ v.at \in C THEN Append(a, v) ELSE a,
                       kinds |-> K, commands |-> C]
<1>1. s.log = a /\ s.kinds = K /\ s.commands = C  OBVIOUS
<1>2. ASSUME NEW x PROVE [s EXCEPT !.log = x] = [log |-> x, kinds |-> K, commands |-> C]  OBVIOUS
<1> DEFINE x == Append(a, v)
<1>3. [s EXCEPT !.log = Append(@, v)] = [s EXCEPT !.log = x]  BY <1>1
<1>4. Pick(s, v) = IF v.kind \in K /\ v.at \in C THEN [s EXCEPT !.log = x] ELSE s
  BY <1>1, <1>3 DEF Pick
<1> HIDE DEF x
<1>5. [s EXCEPT !.log = x] = [log |-> x, kinds |-> K, commands |-> C]  BY <1>2
<1>6. CASE v.kind \in K /\ v.at \in C
  <2>1. Pick(s, v) = [log |-> x, kinds |-> K, commands |-> C]  BY <1>4, <1>5, <1>6
  <2> QED  BY <1>6, <2>1 DEF x
<1>7. CASE ~(v.kind \in K /\ v.at \in C)
  <2>1. Pick(s, v) = s  BY <1>4, <1>7
  <2> QED  BY <1>7, <2>1
<1> QED  BY <1>6, <1>7

\* Only the log of the state changes.
LEMMA PickingIs ==
  ASSUME NEW S, NEW K, NEW C
  PROVE  \A s \in Seq(S) :
           /\ Picking(s, K, C) = [log |-> Only(s, K, C), kinds |-> K, commands |-> C]
           /\ Only(s, K, C) \in Seq(S)
<1> DEFINE G == {s \in Seq(S) : \E a \in Seq(S) :
                                  Picking(s, K, C) = [log |-> a, kinds |-> K, commands |-> C]}
<1>1. <<>> \in G
  <2>1. <<>> \in Seq(S)  OBVIOUS
  <2>2. Picking(<<>>, K, C) = [log |-> <<>>, kinds |-> K, commands |-> C]
    BY PickingEmpty DEF PickFrom
  <2> QED  BY <2>1, <2>2
<1>2. ASSUME NEW t \in Seq(S), NEW v \in S, t \in G PROVE Append(t, v) \in G
  <2>1. PICK a \in Seq(S) : Picking(t, K, C) = [log |-> a, kinds |-> K, commands |-> C]  BY <1>2
  <2>2. Picking(Append(t, v), K, C) = Pick([log |-> a, kinds |-> K, commands |-> C], v)
    BY <2>1, PickingOneMore
  <2>3. Append(a, v) \in Seq(S) /\ Append(t, v) \in Seq(S)  OBVIOUS
  <2> DEFINE b == IF v.kind \in K /\ v.at \in C THEN Append(a, v) ELSE a
  <2>4. Pick([log |-> a, kinds |-> K, commands |-> C], v) = [log |-> b, kinds |-> K, commands |-> C]
    BY PickIs
  <2>5. b \in Seq(S)  BY <2>3
  <2> QED  BY <2>2, <2>3, <2>4, <2>5
<1> HIDE DEF G
<1>3. \A s \in Seq(S) : s \in G  BY <1>1, <1>2, SeqSetInduction
<1>4. \A s : Only(s, K, C) = Picking(s, K, C).log  BY DEF Only, Picking, PickFrom
<1>5. ASSUME NEW s \in Seq(S)
      PROVE  /\ Picking(s, K, C) = [log |-> Only(s, K, C), kinds |-> K, commands |-> C]
             /\ Only(s, K, C) \in Seq(S)
  <2>1. PICK a \in Seq(S) : Picking(s, K, C) = [log |-> a, kinds |-> K, commands |-> C]
    BY <1>3 DEF G
  <2>2. Only(s, K, C) = a  BY <1>4, <2>1
  <2> QED  BY <2>1, <2>2
<1> QED  BY <1>5

\* What is picked from a log that is one callback longer.
LEMMA OnlyOneMore ==
  ASSUME NEW S, NEW s \in Seq(S), NEW v \in S, NEW K, NEW C
  PROVE  Only(Append(s, v), K, C) =
           IF v.kind \in K /\ v.at \in C THEN Append(Only(s, K, C), v) ELSE Only(s, K, C)
<1> DEFINE t == Append(s, v)
           a == Only(s, K, C)
           b == Only(t, K, C)
<1>1. t \in Seq(S)  OBVIOUS
<1>2. Picking(s, K, C) = [log |-> a, kinds |-> K, commands |-> C]  BY PickingIs
<1>4. Picking(t, K, C) = Pick(Picking(s, K, C), v)  BY PickingOneMore
<1> HIDE DEF t
<1>3. Picking(t, K, C) = [log |-> b, kinds |-> K, commands |-> C]  BY <1>1, PickingIs
<1> HIDE DEF a, b
<1>5. [log |-> b, kinds |-> K, commands |-> C] = Pick([log |-> a, kinds |-> K, commands |-> C], v)
  BY <1>2, <1>3, <1>4
<1> DEFINE d == IF v.kind \in K /\ v.at \in C THEN Append(a, v) ELSE a
<1>6. Pick([log |-> a, kinds |-> K, commands |-> C], v) = [log |-> d, kinds |-> K, commands |-> C]
  BY PickIs
<1> HIDE DEF d
<1>7. b = d  BY <1>5, <1>6
<1> QED  BY <1>7 DEF a, b, d, t

\* What is picked from two logs, one after the other.
LEMMA OnlyConcat ==
  ASSUME NEW S, NEW s \in Seq(S), NEW K, NEW C
  PROVE  \A t \in Seq(S) : Only(s \o t, K, C) = Only(s, K, C) \o Only(t, K, C)
<1> DEFINE G == {t \in Seq(S) : Only(s \o t, K, C) = Only(s, K, C) \o Only(t, K, C)}
<1>1. Only(s, K, C) \in Seq(S)  BY PickingIs
<1>2. <<>> \in G
  <2>1. Only(<<>>, K, C) = <<>>  BY PickingEmpty DEF Only, Picking, PickFrom
  <2> DEFINE z == s \o <<>>
             a == Only(s, K, C)
             e == Only(<<>>, K, C)
  <2>2. z = s /\ a \o <<>> = a  BY <1>1, ConcatEmptySeq
  <2>3. Only(z, K, C) = a \o e
    <3> HIDE DEF z, a, e
    <3>1. Only(z, K, C) = Only(s, K, C)  BY <2>2
    <3>2. e = <<>>  BY <2>1 DEF e
    <3> QED  BY <2>2, <3>1, <3>2 DEF a
  <2>4. <<>> \in Seq(S)  OBVIOUS
  <2> QED  BY <2>3, <2>4
<1>3. ASSUME NEW t \in Seq(S), NEW v \in S, t \in G PROVE Append(t, v) \in G
  <2> DEFINE a == Only(s, K, C)
             b == Only(t, K, C)
             st == s \o t
             tv == Append(t, v)
  <2>1. a \in Seq(S) /\ b \in Seq(S) /\ st \in Seq(S) /\ tv \in Seq(S)  BY <1>1, PickingIs
  <2>2. s \o Append(t, v) = Append(s \o t, v)  OBVIOUS
  <2>3. Only(st, K, C) = a \o b  BY <1>3
  <2>4. Only(Append(st, v), K, C) =
          IF v.kind \in K /\ v.at \in C THEN Append(Only(st, K, C), v) ELSE Only(st, K, C)
    <3> HIDE DEF st
    <3> QED  BY <2>1, OnlyOneMore
  <2>5. Only(tv, K, C) = IF v.kind \in K /\ v.at \in C THEN Append(b, v) ELSE b
    BY OnlyOneMore
  <2>6. s \o tv = Append(st, v)  BY <2>2
  <2> HIDE DEF a, b, st, tv
  <2>7. a \o Append(b, v) = Append(a \o b, v)  BY <2>1
  <2>8. Only(s \o tv, K, C) = a \o Only(tv, K, C)
    <3>1. CASE v.kind \in K /\ v.at \in C  BY <2>3, <2>4, <2>5, <2>6, <2>7, <3>1
    <3>2. CASE ~(v.kind \in K /\ v.at \in C)  BY <2>3, <2>4, <2>5, <2>6, <3>2
    <3> QED  BY <3>1, <3>2
  <2>9. tv \in G  BY <2>1, <2>8 DEF a
  <2> QED  BY <2>9 DEF tv
<1> HIDE DEF G
<1>4. \A t \in Seq(S) : t \in G  BY <1>2, <1>3, SeqSetInduction
<1> QED  BY <1>4 DEF G

\* A log all of which is picked.
LEMMA OnlyAll ==
  ASSUME NEW S, NEW K, NEW C, \A v \in S : v.kind \in K /\ v.at \in C
  PROVE  \A s \in Seq(S) : Only(s, K, C) = s
<1> DEFINE G == {s \in Seq(S) : Only(s, K, C) = s}
<1>1. <<>> \in G
  <2>1. Only(<<>>, K, C) = <<>>  BY PickingEmpty DEF Only, Picking, PickFrom
  <2> QED  BY <2>1
<1>2. ASSUME NEW t \in Seq(S), NEW v \in S, t \in G PROVE Append(t, v) \in G
  <2>1. Only(Append(t, v), K, C) = Append(Only(t, K, C), v)  BY OnlyOneMore
  <2> QED  BY <1>2, <2>1
<1> HIDE DEF G
<1>3. \A s \in Seq(S) : s \in G  BY <1>1, <1>2, SeqSetInduction
<1> QED  BY <1>3 DEF G

\* A log of which nothing is.
LEMMA OnlyNone ==
  ASSUME NEW S, NEW K, NEW C, \A v \in S : ~(v.kind \in K /\ v.at \in C)
  PROVE  \A s \in Seq(S) : Only(s, K, C) = <<>>
<1> DEFINE G == {s \in Seq(S) : Only(s, K, C) = <<>>}
<1>1. <<>> \in G
  <2>1. Only(<<>>, K, C) = <<>>  BY PickingEmpty DEF Only, Picking, PickFrom
  <2> QED  BY <2>1
<1>2. ASSUME NEW t \in Seq(S), NEW v \in S, t \in G PROVE Append(t, v) \in G
  <2>1. Only(Append(t, v), K, C) = Only(t, K, C)  BY OnlyOneMore
  <2>2. Append(t, v) \in Seq(S)  OBVIOUS
  <2> QED  BY <1>2, <2>1, <2>2
<1> HIDE DEF G
<1>3. \A s \in Seq(S) : s \in G  BY <1>1, <1>2, SeqSetInduction
<1> QED  BY <1>3 DEF G

------------------------------------------------------------------------------
(* What a visitor is to see.                                               *)

\* The callbacks of a command: of itself, of its messages, of its entity changes, and of the
\* end of a tick.
CallbackAt(k, kind) == [at |-> k, kind |-> kind, index |-> 0, entity |-> NoEntity]
Shown(k, e)         == [at |-> k, kind |-> e.kind, index |-> e.index, entity |-> e.entity]
EventsAt(k)         == [n \in DOMAIN game[k].events |-> Shown(k, game[k].events[n])]
MessagesAt(k)       == [n \in DOMAIN demo[k].messages |-> CallbackAt(k, demo[k].messages[n].msg)]
InsideAt(k)         == MessagesAt(k) \o EventsAt(k)
EndAt(k)            == IF TickAt(k - 1) # TickAt(k) THEN <<CallbackAt(k, "TickEnd")>> ELSE <<>>

\* Callbacks at some of the commands, and those of entities.
VisitedIn(C) == {v \in Visited : v.at \in C}
Changed      == {v \in Visited : v.kind \in Deltas}

\* A sequence of some elements is one of more.
LEMMA SeqOfMore ==
  ASSUME NEW A, NEW B, A \subseteq B, NEW s \in Seq(A) PROVE s \in Seq(B)
<1> DEFINE n == Len(s)
<1>1. n \in Nat /\ s = [i \in 1..n |-> s[i]] /\ \A i \in 1..n : s[i] \in B  OBVIOUS
<1> HIDE DEF n
<1>2. [i \in 1..n |-> s[i]] \in Seq(B)  BY <1>1, IsASeq
<1> QED  BY <1>1, <1>2

\* The types of the callbacks.
LEMMA CallbackFacts ==
  ASSUME RecordingInv, NEW k \in 1..Len(demo)
  PROVE  /\ \A kind \in Callbacks : CallbackAt(k, kind) \in VisitedIn({k})
         /\ \A e \in Events : Shown(k, e) \in VisitedIn({k}) \cap Changed
<1>1. k \in Nat  BY DEF RecordingInv, Recorded
<1>2. ASSUME NEW kind \in Callbacks PROVE CallbackAt(k, kind) \in VisitedIn({k})
  BY <1>1, IndexFacts DEF CallbackAt, VisitedIn, Visited
<1>3. ASSUME NEW e \in Events PROVE Shown(k, e) \in VisitedIn({k}) \cap Changed
  <2>1. e.kind \in Deltas /\ e.kind \in Callbacks /\ e.index \in Nat /\ e.entity \in Entity
    BY IndexFacts DEF Events, Deltas, Callbacks
  <2> QED  BY <1>1, <2>1 DEF Shown, VisitedIn, Visited, Changed
<1> QED  BY <1>2, <1>3

\* The callbacks of the entity changes of a command.
LEMMA EventsAtFacts ==
  ASSUME RecordingInv, NEW k \in 1..Len(demo)
  PROVE  /\ EventsAt(k) \in Seq(VisitedIn({k}) \cap Changed)
         /\ Len(EventsAt(k)) = Len(game[k].events) /\ DOMAIN EventsAt(k) = DOMAIN game[k].events
         /\ EndAt(k) \in Seq(VisitedIn({k}))
         /\ <<CallbackAt(k, "Cmd")>> \in Seq(VisitedIn({k}))
<1> DEFINE s == game[k].events
           n == Len(s)
<1>1. s \in Seq(Events)
  <2>1. game[k] \in Games
    <3>1. game \in Seq(Games) /\ k \in 1..Len(game)  BY DEF RecordingInv, Recorded
    <3> QED  BY <3>1, ElementOfSeq
  <2> QED  BY <2>1 DEF Games
<1>2. n \in Nat /\ DOMAIN s = 1..n /\ \A i \in 1..n : s[i] \in Events  BY <1>1
<1>3. EventsAt(k) = [i \in 1..n |-> Shown(k, s[i])]  BY <1>2 DEF EventsAt
<1> HIDE DEF s, n
<1>4. \A i \in 1..n : Shown(k, s[i]) \in VisitedIn({k}) \cap Changed  BY <1>2, CallbackFacts
<1>5. [i \in 1..n |-> Shown(k, s[i])] \in Seq(VisitedIn({k}) \cap Changed)  BY <1>2, <1>4, IsASeq
<1>6. EventsAt(k) \in Seq(VisitedIn({k}) \cap Changed)  BY <1>3, <1>5
<1>7. DOMAIN EventsAt(k) = 1..n  BY <1>3
<1>8. Len(EventsAt(k)) = n  BY <1>2, <1>6, <1>7
<1>9. CallbackAt(k, "Cmd") \in VisitedIn({k}) /\ CallbackAt(k, "TickEnd") \in VisitedIn({k})
  <2>1. "Cmd" \in Callbacks /\ "TickEnd" \in Callbacks  BY DEF Callbacks
  <2> QED  BY <2>1, CallbackFacts
<1> DEFINE x == CallbackAt(k, "Cmd")
           y == CallbackAt(k, "TickEnd")
           S == VisitedIn({k})
<1>10. EndAt(k) = <<y>> \/ EndAt(k) = <<>>  BY DEF EndAt
<1>11. <<x>> \in Seq(S) /\ EndAt(k) \in Seq(S)
  <2> HIDE DEF x, y, S
  <2>1. x \in S /\ y \in S  BY <1>9 DEF x, y, S
  <2>2. <<x>> \in Seq(S) /\ <<y>> \in Seq(S) /\ <<>> \in Seq(S)  BY <2>1
  <2> QED  BY <1>10, <2>2
<1> QED  BY <1>2, <1>6, <1>7, <1>8, <1>11 DEF s, n

\* The callbacks of the messages of a command.
LEMMA MessagesAtFacts ==
  ASSUME RecordingInv, NEW k \in 1..Len(demo)
  PROVE  /\ MessagesAt(k) \in Seq(VisitedIn({k}))
         /\ MessagesAt(k) \in Seq({v \in VisitedIn({k}) : v.kind \in Svcs})
<1> DEFINE s == demo[k].messages
           n == Len(s)
           S == VisitedIn({k})
           T == {v \in S : v.kind \in Svcs}
<1>1. s \in Seq(Messages)  BY CommandFacts DEF Commands
<1>2. n \in Nat /\ DOMAIN s = 1..n /\ \A i \in 1..n : s[i] \in Messages  BY <1>1
<1>3. MessagesAt(k) = [i \in 1..n |-> CallbackAt(k, s[i].msg)]  BY <1>2 DEF MessagesAt
<1> HIDE DEF s, n
<1>4. ASSUME NEW i \in 1..n PROVE CallbackAt(k, s[i].msg) \in T
  <2>1. s[i].msg \in Svcs /\ s[i].msg \in Callbacks  BY <1>2, SvcFacts
  <2>2. CallbackAt(k, s[i].msg) \in S  BY <2>1, CallbackFacts
  <2>3. CallbackAt(k, s[i].msg).kind = s[i].msg  BY DEF CallbackAt
  <2> QED  BY <2>1, <2>2, <2>3
<1> HIDE DEF T
<1>5. [i \in 1..n |-> CallbackAt(k, s[i].msg)] \in Seq(T)  BY <1>2, <1>4, IsASeq
<1>6. MessagesAt(k) \in Seq(T)  BY <1>3, <1>5
<1>7. T \subseteq S  BY DEF T
<1>8. MessagesAt(k) \in Seq(S)  BY <1>6, <1>7, SeqOfMore
<1> QED  BY <1>6, <1>8 DEF T

\* What is recorded of a command, in these terms.
LEMMA RecordedAtIs ==
  ASSUME RecordingInv, NEW k \in 1..Len(demo)
  PROVE  /\ RecordedAt(k) = (<<CallbackAt(k, "Cmd")>> \o InsideAt(k)) \o EndAt(k)
         /\ RecordedAt(k) \in Seq(VisitedIn({k})) /\ InsideAt(k) \in Seq(VisitedIn({k}))
<1>1. k \in Nat /\ k # 0 /\ (k - 1 = 0 <=> k = 1)  BY DEF RecordingInv, Recorded
<1>2. TickAt(k) = demo[k].tick /\ TickAt(k - 1) = IF k = 1 THEN -1 ELSE demo[k - 1].tick
  BY <1>1 DEF TickAt
<1>3. RecordedAt(k) = ((<<CallbackAt(k, "Cmd")>> \o MessagesAt(k)) \o EventsAt(k)) \o EndAt(k)
  BY Zenon, <1>2 DEF RecordedAt, CallbackAt, MessagesAt, EventsAt, Shown, EndAt
<1> DEFINE a == <<CallbackAt(k, "Cmd")>>
           m == MessagesAt(k)
           b == EventsAt(k)
           c == EndAt(k)
           S == VisitedIn({k})
<1>4. a \in Seq(S) /\ m \in Seq(S) /\ b \in Seq(S) /\ c \in Seq(S)
  <2>1. VisitedIn({k}) \cap Changed \subseteq VisitedIn({k})  OBVIOUS
  <2> QED  BY <2>1, EventsAtFacts, MessagesAtFacts, SeqOfMore
<1> HIDE DEF a, m, b, c, S
<1>5. m \o b \in Seq(S)  BY <1>4
<1>6. (a \o m) \o b = a \o (m \o b)  BY SMTT(60), <1>4, ConcatAssociative
<1>7. (a \o (m \o b)) \o c \in Seq(S)  BY <1>4, <1>5
<1>8. RecordedAt(k) = (a \o (m \o b)) \o c  BY <1>3, <1>6 DEF a, m, b, c
<1> QED  BY <1>5, <1>7, <1>8 DEF InsideAt, a, m, b, c, S

\* The commands after x up to y, as the loop of RecordedVisits takes them.
After(x, y) == [n \in 1..(y - x) |-> x + n]

\* Nothing is recorded of no commands.
LEMMA VisitsEmpty ==
  ASSUME NEW x \in Nat PROVE RecordedVisits(x, x) = <<>>
<1> DEFINE s == After(x, x)
           b == <<>>
<1>1. DOMAIN s = 1..0
  <2>1. x - x = 0  OBVIOUS
  <2> QED  BY <2>1 DEF After
<1> HIDE DEF s, b
<1>2. ReelLoop!Loop(b, s) = b  BY <1>1, ReelLoop!LoopEmpty
<1>3. FoldLeft(AddRecorded, b, s) = b
  BY <1>2 DEF ReelLoop!Loop, ReelLoop!Iterates, ReelLoop!Last, FoldLeft, MapThenFoldSet, Max
<1> QED  BY <1>3 DEF b, s, After, RecordedVisits

\* And of one command more, what is recorded of it.
LEMMA VisitsOneMore ==
  ASSUME NEW x \in Nat, NEW y \in Nat, x < y
  PROVE  RecordedVisits(x, y) = RecordedVisits(x, y - 1) \o RecordedAt(y)
<1> DEFINE s == After(x, y - 1)
           t == After(x, y)
           b == <<>>
           n == y - 1 - x
<1>1. n \in Nat /\ DOMAIN s = 1..n /\ DOMAIN t = 1..n + 1
      /\ (\A i \in 1..n : t[i] = s[i]) /\ t[n + 1] = y
  <2>1. n \in Nat /\ y - x = n + 1 /\ n + 1 \in 1..n + 1 /\ x + (n + 1) = y  OBVIOUS
  <2>2. s = [i \in 1..n |-> x + i] /\ t = [i \in 1..(y - x) |-> x + i]  BY DEF After
  <2> HIDE DEF n, s, t
  <2> QED  BY <2>1, <2>2
<1> HIDE DEF s, b, t, n
<1>2. ReelLoop!Loop(b, t) = AddRecorded(ReelLoop!Loop(b, s), t[n + 1])  BY <1>1, ReelLoop!LoopOneMore
<1>3. FoldLeft(AddRecorded, b, s) = ReelLoop!Loop(b, s)
  BY DEF ReelLoop!Loop, ReelLoop!Iterates, ReelLoop!Last, FoldLeft, MapThenFoldSet, Max
<1>4. FoldLeft(AddRecorded, b, t) = ReelLoop!Loop(b, t)
  BY DEF ReelLoop!Loop, ReelLoop!Iterates, ReelLoop!Last, FoldLeft, MapThenFoldSet, Max
<1>5. FoldLeft(AddRecorded, b, t) = FoldLeft(AddRecorded, b, s) \o RecordedAt(y)
  BY <1>1, <1>2, <1>3, <1>4 DEF AddRecorded
<1>6. RecordedVisits(x, y) = FoldLeft(AddRecorded, b, t)  BY DEF b, t, After, RecordedVisits
<1>7. RecordedVisits(x, y - 1) = FoldLeft(AddRecorded, b, s)  BY DEF b, s, After, RecordedVisits
<1> QED  BY <1>5, <1>6, <1>7

\* What is recorded of some commands are callbacks at those.
LEMMA VisitsFacts ==
  ASSUME RecordingInv, NEW x \in 0..Len(demo)
  PROVE  \A y \in x..Len(demo) : RecordedVisits(x, y) \in Seq(VisitedIn(x + 1..y))
<1> DEFINE N == Len(demo)
           S == {y \in Nat : y \in x..N => RecordedVisits(x, y) \in Seq(VisitedIn(x + 1..y))}
<1>1. N \in Nat  BY DEF RecordingInv, Recorded
<1> HIDE DEF N
<1>2. x \in Nat /\ x \in 0..N  BY <1>1 DEF N
<1>3. x \in S
  <2> DEFINE r == RecordedVisits(x, x)
             T == VisitedIn(x + 1..x)
  <2>1. r = <<>>  BY <1>2, VisitsEmpty
  <2>2. r \in Seq(T)
    <3> HIDE DEF r, T
    <3> QED  BY <2>1
  <2> QED  BY <1>2, <2>2
<1>4. ASSUME NEW y \in x + 1..N, y - 1 \in S PROVE y \in S
  <2>1. y \in Nat /\ y - 1 \in x..N /\ x < y /\ y \in 1..N /\ y \in 1..Len(demo)  BY <1>1, <1>2 DEF N
  <2> DEFINE a == RecordedVisits(x, y - 1)
             b == RecordedAt(y)
             T == VisitedIn(x + 1..y)
  <2>2. a \in Seq(VisitedIn(x + 1..y - 1))  BY <1>4, <2>1
  <2>3. b \in Seq(VisitedIn({y}))  BY <2>1, RecordedAtIs
  <2>4. VisitedIn(x + 1..y - 1) \subseteq T /\ VisitedIn({y}) \subseteq T
    <3>1. x + 1..y - 1 \subseteq x + 1..y /\ {y} \subseteq x + 1..y  BY <1>2, <2>1
    <3> QED  BY <3>1 DEF VisitedIn
  <2>5. RecordedVisits(x, y) = a \o b  BY <1>2, <2>1, VisitsOneMore
  <2>6. a \in Seq(T) /\ b \in Seq(T)
    <3> HIDE DEF a, b, T
    <3> QED  BY <2>2, <2>3, <2>4, SeqOfMore
  <2>7. a \o b \in Seq(T)
    <3> HIDE DEF a, b, T
    <3> QED  BY <2>6
  <2> QED  BY <2>1, <2>5, <2>7
<1> HIDE DEF S
<1>5. \A y \in x..N : y \in S  BY <1>1, <1>2, <1>3, <1>4, UpInduction
<1>6. ASSUME NEW y \in x..Len(demo) PROVE RecordedVisits(x, y) \in Seq(VisitedIn(x + 1..y))
  <2>1. y \in x..N /\ y \in S  BY <1>5 DEF N
  <2> QED  BY <2>1 DEF S
<1> QED  BY <1>6

\* Recorded are those of some commands, then those of the commands after them.
LEMMA VisitsSplit ==
  ASSUME RecordingInv, NEW x \in 0..Len(demo), NEW y \in x..Len(demo)
  PROVE  \A z \in y..Len(demo) : RecordedVisits(x, z) = RecordedVisits(x, y) \o RecordedVisits(y, z)
<1> DEFINE N == Len(demo)
           a == RecordedVisits(x, y)
           S == {z \in Nat : z \in y..N => RecordedVisits(x, z) = a \o RecordedVisits(y, z)}
<1>1. N \in Nat  BY DEF RecordingInv, Recorded
<1>2. a \in Seq(Visited)
  <2>1. a \in Seq(VisitedIn(x + 1..y))  BY VisitsFacts
  <2>2. VisitedIn(x + 1..y) \subseteq Visited  BY DEF VisitedIn
  <2> HIDE DEF a
  <2> QED  BY <2>1, <2>2, SeqOfMore
<1>3. \A z \in y..N : RecordedVisits(y, z) \in Seq(Visited)
  <2> SUFFICES ASSUME NEW z \in y..N PROVE RecordedVisits(y, z) \in Seq(Visited)  OBVIOUS
  <2>1. y \in 0..Len(demo) /\ z \in y..Len(demo)  BY <1>1
  <2>2. RecordedVisits(y, z) \in Seq(VisitedIn(y + 1..z))  BY <2>1, VisitsFacts
  <2>3. VisitedIn(y + 1..z) \subseteq Visited  BY DEF VisitedIn
  <2> QED  BY <2>2, <2>3, SeqOfMore
<1>4. \A z \in 1..N : RecordedAt(z) \in Seq(Visited)
  <2>1. \A z : VisitedIn({z}) \subseteq Visited  BY DEF VisitedIn
  <2> QED  BY <2>1, RecordedAtIs, SeqOfMore
<1> HIDE DEF N, a
<1>5. x \in Nat /\ y \in Nat /\ x <= y /\ y <= N  BY <1>1 DEF N
<1>6. y \in S
  <2>1. RecordedVisits(y, y) = <<>>  BY <1>5, VisitsEmpty
  <2>2. a \o <<>> = a  BY <1>2, ConcatEmptySeq
  <2>3. RecordedVisits(x, y) = a  BY DEF a
  <2> QED  BY <1>5, <2>1, <2>2, <2>3
<1>7. ASSUME NEW z \in y + 1..N, z - 1 \in S PROVE z \in S
  <2>1. z \in Nat /\ z - 1 \in y..N /\ x < z /\ y < z /\ z \in 1..N  BY <1>1, <1>5
  <2> DEFINE b == RecordedVisits(y, z - 1)
             c == RecordedAt(z)
  <2>2. RecordedVisits(x, z - 1) = a \o b  BY <1>7, <2>1
  <2>3. RecordedVisits(x, z) = RecordedVisits(x, z - 1) \o c  BY <1>5, <2>1, VisitsOneMore
  <2>4. RecordedVisits(y, z) = b \o c  BY <1>5, <2>1, VisitsOneMore
  <2>5. b \in Seq(Visited) /\ c \in Seq(Visited)  BY <1>3, <1>4, <2>1
  <2> HIDE DEF b, c
  <2>6. (a \o b) \o c = a \o (b \o c)  BY SMTT(60), <1>2, <2>5, ConcatAssociative
  <2> QED  BY <2>1, <2>2, <2>3, <2>4, <2>6
<1> HIDE DEF S
<1>8. \A z \in y..N : z \in S  BY <1>1, <1>5, <1>6, <1>7, UpInduction
<1> QED  BY <1>8 DEF S, a, N

\* Of the visits of a whole recording, those of a segment of it.
LEMMA VisitsOfSegment ==
  ASSUME RecordingInv, NEW x \in 0..Len(demo), NEW y \in x..Len(demo)
  PROVE  Only(RecordedVisits(0, Len(demo)), Callbacks, x + 1..y) = RecordedVisits(x, y)
<1> DEFINE N == Len(demo)
           C == x + 1..y
           a == RecordedVisits(0, x)
           b == RecordedVisits(x, y)
           c == RecordedVisits(y, N)
           all == RecordedVisits(0, N)
           xy == RecordedVisits(0, y)
<1>1. N \in Nat  BY DEF RecordingInv, Recorded
<1>2. x \in Nat /\ y \in Nat /\ 0 \in 0..N /\ x \in 0..N /\ y \in x..N /\ y \in 0..N /\ N \in 0..N
      /\ N \in y..N
  BY <1>1
<1>3. all = xy \o c  BY <1>2, VisitsSplit
<1>4. xy = a \o b  BY <1>2, VisitsSplit
<1>5. /\ a \in Seq(VisitedIn(0 + 1..x)) /\ b \in Seq(VisitedIn(C)) /\ c \in Seq(VisitedIn(y + 1..N))
      /\ xy \in Seq(VisitedIn(0 + 1..y))
  BY <1>2, VisitsFacts
<1>6. \A D : VisitedIn(D) \subseteq Visited  BY DEF VisitedIn
<1>7. a \in Seq(Visited) /\ b \in Seq(Visited) /\ c \in Seq(Visited) /\ xy \in Seq(Visited)
  <2> HIDE DEF a, b, c, xy, C
  <2>1. a \in Seq(Visited)  BY <1>5, <1>6, SeqOfMore
  <2>2. b \in Seq(Visited)  BY <1>5, <1>6, SeqOfMore
  <2>3. c \in Seq(Visited)  BY <1>5, <1>6, SeqOfMore
  <2>4. xy \in Seq(Visited)  BY <1>5, <1>6, SeqOfMore
  <2> QED  BY <2>1, <2>2, <2>3, <2>4
<1>8. \A v \in VisitedIn(0 + 1..x) : ~(v.kind \in Callbacks /\ v.at \in C)  BY <1>2 DEF VisitedIn
<1>9. \A v \in VisitedIn(y + 1..N) : ~(v.kind \in Callbacks /\ v.at \in C)  BY <1>2 DEF VisitedIn
<1>10. \A v \in VisitedIn(C) : v.kind \in Callbacks /\ v.at \in C  BY DEF VisitedIn, Visited
<1> HIDE DEF a, b, c, xy, all, C, N
<1>11. Only(a, Callbacks, C) = <<>>
  <2> DEFINE S == VisitedIn(0 + 1..x)
  <2> HIDE DEF S
  <2>1. a \in Seq(S) /\ \A v \in S : ~(v.kind \in Callbacks /\ v.at \in C)  BY <1>5, <1>8 DEF S
  <2> QED  BY <2>1, OnlyNone
<1>12. Only(c, Callbacks, C) = <<>>
  <2> DEFINE S == VisitedIn(y + 1..N)
  <2> HIDE DEF S
  <2>1. c \in Seq(S) /\ \A v \in S : ~(v.kind \in Callbacks /\ v.at \in C)  BY <1>5, <1>9 DEF S
  <2> QED  BY <2>1, OnlyNone
<1>13. Only(b, Callbacks, C) = b
  <2> DEFINE S == VisitedIn(C)
  <2> HIDE DEF S
  <2>1. b \in Seq(S) /\ \A v \in S : v.kind \in Callbacks /\ v.at \in C  BY <1>5, <1>10 DEF S
  <2> QED  BY <2>1, OnlyAll
<1> DEFINE ab == a \o b
           abc == ab \o c
<1>14. ab \in Seq(Visited)  BY <1>7
<1> DEFINE K == Callbacks
           oa == Only(a, K, C)
           ob == Only(b, K, C)
           oc == Only(c, K, C)
<1> HIDE DEF K
<1>15. Only(ab, K, C) = oa \o ob  BY SMTT(60), <1>7, OnlyConcat
<1> HIDE DEF ab
<1>16. Only(abc, K, C) = Only(ab, K, C) \o oc
  <2>1. \A t \in Seq(Visited) : Only(ab \o t, K, C) = Only(ab, K, C) \o Only(t, K, C)
    BY <1>14, OnlyConcat
  <2> QED  BY <1>7, <2>1
<1>17. oa = <<>> /\ ob = b /\ oc = <<>>  BY <1>11, <1>12, <1>13 DEF K
<1> HIDE DEF oa, ob, oc
<1>18. oa \o ob = b /\ b \o oc = b  BY <1>7, <1>17, ConcatEmptySeq
<1>20. all = abc  BY <1>3, <1>4 DEF ab
<1> HIDE DEF abc
<1>19. Only(all, Callbacks, C) = b  BY <1>15, <1>16, <1>18, <1>20 DEF K
<1> QED  BY <1>19 DEF all, b, C, N

------------------------------------------------------------------------------
(* What handlers add to a log.                                             *)

\* A log that broke off is short of a longer one too.
LEMMA PrefixOfMore ==
  ASSUME NEW S, NEW s \in Seq(S), NEW t \in Seq(S), NEW u \in Seq(S), IsStrictPrefix(s, t)
  PROVE  IsStrictPrefix(s, t \o u)
<1> DEFINE n == Len(s)
           tu == t \o u
<1>1. n \in Nat /\ Len(t) \in Nat /\ Len(u) \in Nat /\ n <= Len(t) /\ s # t
      /\ SubSeq(s, 1, n) = SubSeq(t, 1, n)
  BY DEF IsStrictPrefix, IsPrefix
<1>2. tu \in Seq(S) /\ Len(tu) = Len(t) + Len(u)  BY ConcatProperties
<1>3. SubSeq(tu, 1, n) = SubSeq(t, 1, n)
  <2>1. CASE n = 0
    <3>1. n < 1 /\ 1 \in Int /\ n \in Int  BY <2>1
    <3> HIDE DEF n, tu
    <3> QED  BY <3>1, SubSeqEmpty
  <2>2. CASE n # 0
    <3>1. 1 \in 1..Len(t) /\ n \in 1..Len(t)  BY <1>1, <2>2
    <3> HIDE DEF n
    <3> QED  BY <3>1, SubSeqOfConcat1
  <2> QED  BY <2>1, <2>2
<1>4. s # tu
  <2> SUFFICES ASSUME s = tu PROVE FALSE  OBVIOUS
  <2>1. Len(u) = 0  BY <1>1, <1>2
  <2>2. u = <<>>  BY <2>1
  <2>3. t \o u = t  BY <2>2, ConcatEmptySeq
  <2> QED  BY <1>1, <2>3
<1>5. IsPrefix(s, tu)
  <2> HIDE DEF tu
  <2> QED  BY <1>1, <1>2, <1>3 DEF IsPrefix
<1> QED  BY <1>4, <1>5 DEF IsStrictPrefix

\* A log is short of one with more.
LEMMA PrefixOfLonger ==
  ASSUME NEW S, NEW t \in Seq(S), NEW v \in S
  PROVE  IsStrictPrefix(t, t \o <<v>>)
<1> DEFINE n == Len(t)
           u == t \o <<v>>
<1>1. n \in Nat /\ u \in Seq(S) /\ Len(u) = n + 1 /\ t # u
  <2>1. <<v>> \in Seq(S) /\ Len(<<v>>) = 1  OBVIOUS
  <2>2. u \in Seq(S) /\ Len(u) = n + 1  BY <2>1, ConcatProperties
  <2> QED  BY <2>2
<1>2. SubSeq(u, 1, n) = SubSeq(t, 1, n)
  <2>1. CASE n = 0
    <3>1. n < 1 /\ 1 \in Int /\ n \in Int  BY <2>1
    <3> HIDE DEF n, u
    <3> QED  BY <3>1, SubSeqEmpty
  <2>2. CASE n # 0
    <3>1. 1 \in 1..Len(t) /\ n \in 1..Len(t) /\ <<v>> \in Seq(S)  BY <1>1, <2>2
    <3> HIDE DEF n
    <3> QED  BY <3>1, SubSeqOfConcat1
  <2> QED  BY <2>1, <2>2
<1>3. IsPrefix(t, u)
  <2> HIDE DEF u
  <2> QED  BY <1>1, <1>2 DEF IsPrefix
<1> QED  BY <1>1, <1>3 DEF IsStrictPrefix

\* From p to q a visitor that collects has seen a, or what a callback that failed broke off;
\* and one that does not collect nothing.
Writes(p, q, a) ==
  /\ ~p.collecting => q.log = p.log
  /\ p.collecting /\ q.result = "ok" => q.log = p.log \o a
  /\ p.collecting /\ q.result # "ok" => IsStrictPrefix(q.log, p.log \o a)

\* Nothing is seen where the log stays.
LEMMA WritesNothing ==
  ASSUME NEW p \in Parsers, NEW q, q.result = "ok", q.log = p.log
  PROVE  Writes(p, q, <<>>)
<1>1. p.log \in Seq(Visited)  BY DEF Parsers
<1>2. p.log \o <<>> = p.log  BY <1>1, ConcatEmptySeq
<1> QED  BY <1>2 DEF Writes

\* Two handlers, the second of which does nothing if the first failed.
LEMMA WritesTransitive ==
  ASSUME NEW p \in Parsers, NEW q \in Parsers, NEW r \in Parsers, q.collecting = p.collecting,
         NEW a \in Seq(Visited), NEW b \in Seq(Visited), Writes(p, q, a),
         q.result = "ok" => Writes(q, r, b), q.result = "error" => r = q
  PROVE  Writes(p, r, a \o b)
<1> DEFINE x == p.log
           y == q.log
           z == r.log
<1>1. x \in Seq(Visited) /\ y \in Seq(Visited) /\ z \in Seq(Visited)
      /\ q.result \in {"ok", "error"}
  BY DEF Parsers
<1>2. (x \o a) \o b = x \o (a \o b) /\ x \o a \in Seq(Visited)
  <2> HIDE DEF x
  <2>1. (x \o a) \o b = x \o (a \o b)  BY SMTT(60), <1>1, ConcatAssociative
  <2>2. x \o a \in Seq(Visited)  BY <1>1
  <2> QED  BY <2>1, <2>2
<1>3. CASE ~p.collecting
  <2>1. y = x  BY <1>3 DEF Writes
  <2>2. z = y  BY <1>1, <1>3 DEF Writes
  <2> QED  BY <1>3, <2>1, <2>2 DEF Writes
<1>4. CASE p.collecting /\ q.result = "ok"
  <2>1. y = x \o a  BY <1>4 DEF Writes
  <2>2. y \o b = x \o (a \o b)
    <3> HIDE DEF x, y
    <3> QED  BY <1>2, <2>1
  <2>3. /\ r.result = "ok" => z = y \o b
        /\ r.result # "ok" => IsStrictPrefix(z, y \o b)
    BY <1>4 DEF Writes
  <2> QED  BY <1>4, <2>2, <2>3 DEF Writes
<1>5. CASE p.collecting /\ q.result = "error"
  <2>1. IsStrictPrefix(y, x \o a) /\ r = q /\ z = y  BY <1>5 DEF Writes
  <2>2. IsStrictPrefix(y, (x \o a) \o b)
    <3> HIDE DEF x, y, z
    <3> QED  BY <1>1, <1>2, <2>1, PrefixOfMore
  <2>3. IsStrictPrefix(y, x \o (a \o b))
    <3> HIDE DEF x, y, z
    <3> QED  BY <1>2, <2>2
  <2> QED  BY <1>5, <2>1, <2>3 DEF Writes
<1> QED  BY <1>1, <1>3, <1>4, <1>5

\* A callback.
LEMMA VisitWrites ==
  ASSUME NEW p \in Parsers, p.result = "ok", NEW kind \in Callbacks, NEW index \in Nat,
         NEW entity \in Entity, NEW q, q = Visit(p, kind, index, entity),
         NEW v, v = [at |-> p.pos, kind |-> kind, index |-> index, entity |-> entity]
  PROVE  Writes(p, q, <<v>>) /\ v \in Visited
<1> DEFINE x == p.log
<1>1. x \in Seq(Visited) /\ v \in Visited  BY DEF Parsers, Visited
<1>2. CASE p.fails = [at |-> p.pos, kind |-> kind]
  <2>1. q = [p EXCEPT !.result = "error"]  BY <1>2 DEF Visit, Bail
  <2>2. q.log = x /\ q.result = "error"  BY <2>1 DEF Parsers
  <2>3. IsStrictPrefix(x, x \o <<v>>)
    <3> HIDE DEF x
    <3> QED  BY <1>1, PrefixOfLonger
  <2> QED  BY <1>1, <2>2, <2>3 DEF Writes
<1>3. CASE p.fails # [at |-> p.pos, kind |-> kind] /\ p.collecting
  <2>1. q = [p EXCEPT !.log = Append(p.log, v)]  BY <1>3 DEF Visit
  <2>2. q.log = Append(x, v) /\ q.result = "ok"  BY <2>1 DEF Parsers
  <2>3. Append(x, v) = x \o <<v>>
    <3> HIDE DEF x
    <3> QED  BY <1>1
  <2> QED  BY <1>1, <1>3, <2>2, <2>3 DEF Writes
<1>4. CASE p.fails # [at |-> p.pos, kind |-> kind] /\ ~p.collecting
  <2>1. q = p  BY <1>4 DEF Visit
  <2> QED  BY <1>1, <1>4, <2>1 DEF Writes
<1> QED  BY <1>2, <1>3, <1>4

\* The callback of a command, and that of the end of a tick.
LEMMA OnCmdWrites ==
  ASSUME NEW p \in Parsers, p.result = "ok", NEW q, q = on_cmd(p)
  PROVE  Writes(p, q, <<CallbackAt(p.pos, "Cmd")>>) /\ CallbackAt(p.pos, "Cmd") \in Visited
<1> DEFINE k == "Cmd"
           n == 0
           v == [at |-> p.pos, kind |-> k, index |-> n, entity |-> NoEntity]
<1>1. k \in Callbacks /\ n \in Nat /\ NoEntity \in Entity  BY IndexFacts DEF Callbacks
<1>2. q = Visit(p, k, n, NoEntity)  BY DEF on_cmd
<1>3. v = CallbackAt(p.pos, "Cmd")  BY DEF CallbackAt
<1> HIDE DEF k, n
<1>4. v = [at |-> p.pos, kind |-> k, index |-> n, entity |-> NoEntity]  OBVIOUS
<1> HIDE DEF v
<1>5. Writes(p, q, <<v>>) /\ v \in Visited  BY <1>1, <1>2, <1>4, VisitWrites
<1> QED  BY <1>3, <1>5

\* The callback of a message, and then what the match of it shows.
LEMMA MessageWrites ==
  ASSUME NEW p \in Parsers, p.result = "ok", NEW m \in Messages, NEW q, q = HandleMessage(p, m),
         NEW b \in Seq(Visited),
         \A r \in Parsers : /\ r.result = "ok" /\ r.ctx = p.ctx /\ Same(p, r)
                           /\ q = MatchMessage(r, m)
                           => Writes(r, q, b)
  PROVE  Writes(p, q, <<CallbackAt(p.pos, m.msg)>> \o b) /\ CallbackAt(p.pos, m.msg) \in Visited
<1> DEFINE k == m.msg
           n == 0
           v == [at |-> p.pos, kind |-> k, index |-> n, entity |-> NoEntity]
<1>1. k \in Callbacks /\ n \in Nat /\ NoEntity \in Entity  BY IndexFacts, SvcFacts
<1>2. PICK r \in Parsers : /\ r = on_packet(p, m) /\ q = MatchMessage(r, m) /\ Handles(p, r)
                          /\ r.ctx = p.ctx /\ (r.result = "error" => q = r)
  BY MessageIs
<1>3. r = Visit(p, k, n, NoEntity)  BY <1>2 DEF on_packet
<1>4. v = CallbackAt(p.pos, m.msg)  BY DEF CallbackAt
<1> HIDE DEF k, n
<1>5. v = [at |-> p.pos, kind |-> k, index |-> n, entity |-> NoEntity]  OBVIOUS
<1> HIDE DEF v
<1>6. Writes(p, r, <<v>>) /\ v \in Visited  BY <1>1, <1>3, <1>5, VisitWrites
<1>7. Same(p, r) /\ r.collecting = p.collecting  BY <1>2 DEF Handles, Same
<1>8. r.result = "ok" => Writes(r, q, b)  BY <1>2, <1>7
<1>9. q \in Parsers  BY <1>2, MatchFacts DEF Handles
<1>10. <<v>> \in Seq(Visited)  BY <1>6
<1>11. Writes(p, q, <<v>> \o b)  BY <1>2, <1>6, <1>7, <1>8, <1>9, <1>10, WritesTransitive
<1> QED  BY <1>4, <1>6, <1>11

\* The end of a tick is seen after the command that ends it.
LEMMA TickEndWrites ==
  ASSUME NEW p \in Parsers, p.result = "ok", NEW k, p.pos = k, p.ctx.tick = TickAt(k),
         p.ctx.prev_tick = TickAt(k - 1), NEW q, q = TickEnded(p)
  PROVE  Writes(p, q, EndAt(k))
<1> DEFINE d == "TickEnd"
           n == 0
           v == [at |-> p.pos, kind |-> d, index |-> n, entity |-> NoEntity]
<1>1. d \in Callbacks /\ n \in Nat /\ NoEntity \in Entity  BY IndexFacts DEF Callbacks
<1>3. v = CallbackAt(k, "TickEnd")  BY DEF CallbackAt
<1>2. CASE TickAt(k - 1) # TickAt(k)
  <2>1. q = Visit(p, d, n, NoEntity)  BY <1>2 DEF on_tick_end, TickEnded
  <2> HIDE DEF d, n
  <2>2. v = [at |-> p.pos, kind |-> d, index |-> n, entity |-> NoEntity]  OBVIOUS
  <2> HIDE DEF v
  <2>3. Writes(p, q, <<v>>)  BY <1>1, <2>1, <2>2, VisitWrites
  <2> QED  BY <1>2, <1>3, <2>3 DEF EndAt
<1>4. CASE TickAt(k - 1) = TickAt(k)
  <2>1. q = p  BY <1>4 DEF TickEnded
  <2> QED  BY <1>4, <2>1, WritesNothing DEF EndAt
<1> QED  BY <1>2, <1>4

\* The messages and commands that show nothing.
LEMMA TableLog ==
  ASSUME NEW p \in Parsers, NEW m \in TableMessages \cup InfoMessages, NEW q, q = MatchMessage(p, m)
  PROVE  q.log = p.log
<1>1. ASSUME NEW c PROVE [p EXCEPT !.ctx = c].log = p.log  BY DEF Parsers
<1>2. Bail(p).log = p.log  BY DEF Bail, Parsers
<1>3. CASE m.msg = "SvcCreateStringTable"
  BY <1>1, <1>3 DEF MatchMessage, handle_svc_create_string_table
<1>4. CASE m.msg = "SvcUpdateStringTable"
  BY <1>1, <1>2, <1>4 DEF MatchMessage, handle_svc_update_string_table
<1>5. CASE m.msg = "SvcServerInfo"
  <2>1. q = p \/ q = [p EXCEPT !.ctx.full_packet_interval = DEFAULT_FULL_PACKET_INTERVAL * m.ratio]
    BY <1>5 DEF MatchMessage
  <2> QED  BY <2>1 DEF Parsers
<1> QED  BY <1>3, <1>4, <1>5 DEF TableMessages, InfoMessages

\* So do the snapshot of a full packet,
LEMMA SnapshotLog ==
  ASSUME NEW p \in Parsers, NEW tables, NEW q, q = handle_cmd_string_tables(p, tables)
  PROVE  q.log = p.log
<1>1. ASSUME NEW c PROVE [p EXCEPT !.ctx = c].log = p.log /\ Bail([p EXCEPT !.ctx = c]).log = p.log
  BY DEF Parsers, Bail
<1> QED  BY <1>1 DEF handle_cmd_string_tables

\* the classes and the send tables,
LEMMA ClassLog ==
  ASSUME NEW p \in Parsers,
         NEW q, q = handle_class_info(p) \/ q = [p EXCEPT !.ctx.serializers = TRUE]
  PROVE  q.log = p.log
<1>1. ASSUME NEW c PROVE [p EXCEPT !.ctx = c].log = p.log  BY DEF Parsers
<1>2. CASE q = handle_class_info(p)  BY <1>1, <1>2 DEF handle_class_info
<1>3. CASE q = [p EXCEPT !.ctx.serializers = TRUE]  BY <1>3 DEF Parsers
<1> QED  BY <1>2, <1>3

\* and what goes on around the commands.
LEMMA OutsideLog ==
  ASSUME NEW p \in Parsers, NEW q,
         \/ \E k : q = ReadHeader(p, k)
         \/ q = UnreadHeader(p) \/ q = Collected(p) \/ q = Restarted(p)
         \/ \E c : q = ClearFor(p, c)
  PROVE  q.log = p.log
<1>1. ASSUME NEW k, q = ReadHeader(p, k) PROVE q.log = p.log  BY <1>1 DEF ReadHeader, Parsers
<1>2. CASE q = UnreadHeader(p)  BY <1>2 DEF UnreadHeader, Parsers
<1>3. CASE q = Collected(p)  BY <1>3 DEF Collected, CollectedAs, Parsers
<1>4. CASE q = Restarted(p)  BY <1>4 DEF Restarted, Parsers
<1>5. ASSUME NEW c, q = ClearFor(p, c) PROVE q.log = p.log  BY <1>5 DEF ClearFor, Parsers
<1> QED  BY <1>1, <1>2, <1>3, <1>4, <1>5

\* The entity that an entry shows.
EntityOf(c, e) ==
  CASE e.delta = "CREATE" -> Created(c, e)
    [] e.delta = "UPDATE" -> [c.entities[e.index] EXCEPT !.state = e.state]
    [] OTHER              -> c.entities[e.index]

\* An entry shows its entity, as it is then; or, gone, as it was.
LEMMA EntryWrites ==
  ASSUME NEW p \in Parsers, p.result = "ok", NEW e \in Entries,
         e.delta = "CREATE" \/ e.index \in DOMAIN p.ctx.entities, NEW q, q = HandleEntry(p, e),
         NEW v, v = [at |-> p.pos, kind |-> e.delta, index |-> e.index, entity |-> EntityOf(p.ctx, e)]
  PROVE  Writes(p, q, <<v>>) /\ v \in Visited
<1> DEFINE x == EntityOf(p.ctx, e)
           n == e.index
           d == e.delta
<1>1. p.ctx \in Contexts  BY DEF Parsers
<1>2. n \in Nat /\ d \in Callbacks  BY IndexFacts DEF Entries, Callbacks, Deltas
<1>3. p.ctx.entities \in Partial(Indexes, Entity)  BY <1>1 DEF Contexts
<1>4. n \in DOMAIN p.ctx.entities => p.ctx.entities[n] \in Entity  BY <1>3, PartialFacts
<1>5. x \in Entity
  <2>1. CASE d = "CREATE"  BY <1>1, <2>1, AfterCreateFacts DEF EntityOf
  <2>2. CASE d = "UPDATE"  BY <1>4, <2>2 DEF EntityOf, Entity, Entries
  <2>3. CASE d \in {"DELETE", "LEAVE"}  BY <1>4, <2>3 DEF EntityOf
  <2> QED  BY <2>1, <2>2, <2>3 DEF Entries
<1>6. \E y : q = Visit([p EXCEPT !.ctx = y], d, n, x) /\ y \in Contexts
             /\ y.tick = p.ctx.tick /\ y.prev_tick = p.ctx.prev_tick
  <2>1. CASE d = "CREATE"
    <3> DEFINE y == AfterCreate(p.ctx, e)
    <3>1. y \in Contexts /\ y.tick = p.ctx.tick /\ y.prev_tick = p.ctx.prev_tick
      BY <1>1, AfterCreateFacts
    <3>2. q = handle_create(p, e) /\ x = Created(p.ctx, e)  BY <2>1 DEF HandleEntry, EntityOf
    <3>3. (DOMAIN p.ctx.entities \ {e.index}) \cup {e.index} = DOMAIN p.ctx.entities \cup {e.index}
      OBVIOUS
    <3>4. handle_create(p, e) = Visit([p EXCEPT !.ctx = y], "CREATE", e.index, Created(p.ctx, e))
      BY <1>1, <3>3 DEF handle_create, AfterCreate, Created, Cached, Parsers, Contexts
    <3> QED  BY <2>1, <3>1, <3>2, <3>4
  <2>2. CASE d = "UPDATE"
    <3> DEFINE y == AfterUpdate(p.ctx, e)
               z == [p.ctx.entities[e.index] EXCEPT !.state = e.state]
               r == [p EXCEPT !.ctx = y]
    <3>1. y \in Contexts /\ y.tick = p.ctx.tick /\ y.prev_tick = p.ctx.prev_tick
      BY <1>1, AfterUpdateFacts
    <3>2. q = handle_update(p, e) /\ x = z /\ e.index \in DOMAIN p.ctx.entities
      BY <2>2 DEF HandleEntry, EntityOf
    <3>3. p.ctx.entities = [i \in DOMAIN p.ctx.entities |-> p.ctx.entities[i]]
      BY <1>3, PartialFacts
    <3>4. [p EXCEPT !.ctx.entities[e.index] = z] = r
      <4>1. [p.ctx.entities EXCEPT ![e.index] = z]
              = [i \in DOMAIN p.ctx.entities |-> IF i = e.index THEN z ELSE p.ctx.entities[i]]
        BY <3>2, <3>3
      <4>2. y = [p.ctx EXCEPT !.entities = [p.ctx.entities EXCEPT ![e.index] = z]]
        BY <4>1 DEF AfterUpdate
      <4> QED  BY <1>1, <4>2 DEF Parsers, Contexts
    <3>5. q = Visit(r, "UPDATE", e.index, z)  BY <3>2, <3>4 DEF handle_update
    <3> QED  BY <2>2, <3>1, <3>2, <3>5
  <2>3. CASE d \in {"DELETE", "LEAVE"}
    <3> DEFINE y == AfterGone(p.ctx, e)
    <3>1. y \in Contexts /\ y.tick = p.ctx.tick /\ y.prev_tick = p.ctx.prev_tick
      BY <1>1, AfterUpdateFacts
    <3>2. q = handle_gone(p, e) /\ x = p.ctx.entities[e.index] /\ e.index \in DOMAIN p.ctx.entities
      BY <2>3 DEF HandleEntry, EntityOf
    <3>3. [p EXCEPT !.ctx.entities = Restrict(@, DOMAIN @ \ {e.index})] = [p EXCEPT !.ctx = y]
      BY <1>1 DEF Parsers, Contexts, AfterGone, Restrict
    <3>4. q = Visit([p EXCEPT !.ctx = y], d, n, x)  BY <3>2, <3>3 DEF handle_gone
    <3> QED  BY <3>1, <3>4
  <2> QED  BY <2>1, <2>2, <2>3 DEF Entries
<1>7. PICK y : q = Visit([p EXCEPT !.ctx = y], d, n, x) /\ y \in Contexts
               /\ y.tick = p.ctx.tick /\ y.prev_tick = p.ctx.prev_tick
  BY <1>6
<1> DEFINE r == [p EXCEPT !.ctx = y]
<1>8. r \in Parsers /\ r.result = "ok" /\ r.log = p.log /\ r.pos = p.pos /\ r.collecting = p.collecting
  BY <1>7 DEF Parsers
<1>9. v = [at |-> r.pos, kind |-> d, index |-> n, entity |-> x]  BY <1>8
<1>10. q = Visit(r, d, n, x)  BY <1>7
<1> HIDE DEF r, x, n, d
<1>11. Writes(r, q, <<v>>) /\ v \in Visited  BY <1>2, <1>5, <1>8, <1>9, <1>10, VisitWrites
<1> QED  BY <1>8, <1>11 DEF Writes

\* An entry that is no CREATE of an entity that is not there is ignored.
LEMMA EntryIgnored ==
  ASSUME NEW p, NEW e \in Entries, e.delta # "CREATE", e.index \notin DOMAIN p.ctx.entities
  PROVE  HandleEntry(p, e) = p
BY DEF HandleEntry, handle_update, handle_gone, Entries

\* The recorder keeps the changes of the entities that a command tells of, in its order:
\* what an entry is to show, where the game was at g before and is at h after it.
EntityTold(g, e, h) ==
  IF e.delta \in {"DELETE", "LEAVE"} THEN g.entities[e.index] ELSE h.entities[e.index]
Tale(g, e, h) == [kind |-> e.delta, index |-> e.index, entity |-> EntityTold(g, e, h)]
Tales(g, s, h) == [n \in DOMAIN s |-> Tale(g, s[n], h)]
Told(g, c, h) ==
  h.events = IF c.messages[1].msg = "SvcPacketEntities" THEN Tales(g, c.messages[1].entries, h)
             ELSE <<>>

ToldInv == \A k \in 5..Len(demo) : Told(game[k - 1], demo[k], game[k])

\* Entity data of one entry is that entry.
LEMMA OneEntry ==
  ASSUME NEW p, NEW s, DOMAIN s = 1..1, NEW q, q = AllEntries(p, s)
  PROVE  q = HandleEntry(p, s[1])
<1> DEFINE k == 1
<1>1. DOMAIN s = 1..k /\ k \in Nat  OBVIOUS
<1> HIDE DEF k
<1>2. PICK h : /\ h[0] = p /\ q = h[k]
               /\ \A i \in 1..k : h[i] = HandleEntry(h[i - 1], s[i])
  BY <1>1, EntryTurns
<1>3. 1 \in 1..k /\ 1 - 1 = 0  BY DEF k
<1>4. h[1] = HandleEntry(h[0], s[1])  BY <1>2, <1>3
<1> QED  BY <1>2, <1>4 DEF k

\* A CREATE that restates every field.
Restating(e) == e \in Entries /\ e.delta = "CREATE" /\ e.base # Missing

\* What such a CREATE shows, whatever the context.
Restated(k, e) ==
  [at |-> k, kind |-> e.delta, index |-> e.index, entity |-> [base |-> e.base, state |-> e.state]]

LEMMA RestatingWrites ==
  ASSUME NEW p \in Parsers, NEW e, Restating(e), p.result = "ok", NEW q, q = HandleEntry(p, e)
  PROVE  Writes(p, q, <<Restated(p.pos, e)>>) /\ Restated(p.pos, e) \in Visited
<1> DEFINE v == Restated(p.pos, e)
<1>1. e \in Entries /\ e.delta = "CREATE"  BY DEF Restating
<1>2. EntityOf(p.ctx, e) = [base |-> e.base, state |-> e.state]
  BY DEF Restating, EntityOf, Created
<1>3. v = [at |-> p.pos, kind |-> e.delta, index |-> e.index, entity |-> EntityOf(p.ctx, e)]
  BY <1>2 DEF Restated
<1> HIDE DEF v
<1>4. Writes(p, q, <<v>>) /\ v \in Visited  BY <1>1, <1>3, EntryWrites
<1> QED  BY <1>4 DEF v

\* From p to r the first n of some callbacks were seen.
HasWritten(p, r, b, n) == r \in Parsers /\ Same(p, r) /\ Writes(p, r, SubSeq(b, 1, n))

\* CREATEs that restate every field, one after another.
LEMMA RestatedWrites ==
  ASSUME NEW p \in Parsers, p.result = "ok",
         NEW entries \in Seq(Entries), \A n \in 1..Len(entries) : Restating(entries[n]),
         NEW b \in Seq(Visited), Len(b) = Len(entries),
         \A n \in 1..Len(entries) : b[n] = Restated(p.pos, entries[n]),
         NEW q, q = AllEntries(p, entries)
  PROVE  Writes(p, q, b)
<1> DEFINE N == Len(entries)
<1>1. N \in Nat /\ DOMAIN entries = 1..N /\ DOMAIN b = 1..N  OBVIOUS
<1>2. PICK h : /\ h[0] = p /\ q = h[N]
               /\ \A i \in 1..N : h[i] = HandleEntry(h[i - 1], entries[i])
  <2> HIDE DEF N
  <2> QED  BY <1>1, EntryTurns
<1> DEFINE S == {n \in Nat : n \in 0..N => HasWritten(p, h[n], b, n)}
<1>3. 0 \in S
  <2>1. SubSeq(b, 1, 0) = <<>>  BY SubSeqEmpty
  <2>2. Writes(p, p, <<>>)  BY WritesNothing
  <2> QED  BY <1>2, <2>1, <2>2 DEF HasWritten, Same
<1>4. ASSUME NEW n \in 0 + 1..N, n - 1 \in S PROVE n \in S
  <2> DEFINE x == h[n - 1]
             y == h[n]
             e == entries[n]
             a == SubSeq(b, 1, n - 1)
             v == b[n]
  <2>1. n \in 1..N /\ n - 1 \in 0..N /\ n \in Nat /\ n \in 1..Len(entries)  BY <1>1
  <2>2. x \in Parsers /\ Same(p, x) /\ Writes(p, x, a)  BY <1>4, <2>1 DEF HasWritten
  <2>3. y = HandleEntry(x, e)  BY <1>2, <2>1
  <2>4. Restating(e) /\ v = Restated(p.pos, e) /\ e \in Entries
    BY <2>1, ElementOfSeq
  <2>5. a \in Seq(Visited) /\ v \in Visited
    <3>1. \A i \in 1..n - 1 : b[i] \in Visited  BY <1>1, <2>1, ElementOfSeq
    <3>2. v \in Visited  BY <1>1, <2>1, ElementOfSeq
    <3>3. 1 \in Int /\ n - 1 \in Int  BY <2>1
    <3>4. SubSeq(b, 1, n - 1) \in Seq(Visited)  BY <3>1, <3>3, SubSeqProperties
    <3> QED  BY <3>2, <3>4
  <2>6. SubSeq(b, 1, n) = a \o <<v>>
    <3>1. 1 \in 1..Len(b) /\ n \in 1..Len(b)  BY <1>1, <2>1
    <3> QED  BY <3>1, SubSeqRecursiveSecond
  <2> HIDE DEF x, y, e, a, v
  <2>7. y \in Parsers /\ Same(x, y) /\ (x.result = "error" => y = x)
    BY <2>2, <2>3, <2>4, EntryFacts
  <2>8. x.result = "ok" => Writes(x, y, <<v>>)
    <3> SUFFICES ASSUME x.result = "ok" PROVE Writes(x, y, <<v>>)  OBVIOUS
    <3>1. x.pos = p.pos  BY <2>2 DEF Same
    <3> QED  BY <2>2, <2>3, <2>4, <3>1, RestatingWrites
  <2>9. <<v>> \in Seq(Visited)  BY <2>5
  <2> DEFINE w == <<v>>
  <2> HIDE DEF w
  <2>10. w \in Seq(Visited) /\ (x.result = "ok" => Writes(x, y, w))  BY <2>8, <2>9 DEF w
  <2>11. x.collecting = p.collecting  BY <2>2 DEF Same
  <2>12. Writes(p, y, a \o w)  BY <2>2, <2>5, <2>7, <2>10, <2>11, WritesTransitive
  <2>13. Same(p, y)  BY <2>2, <2>7, SameTransitive
  <2> QED  BY <2>1, <2>6, <2>7, <2>12, <2>13 DEF HasWritten, w, y
<1> HIDE DEF S
<1>5. \A n \in 0..N : n \in S  BY <1>1, <1>3, <1>4, UpInduction
<1>6. HasWritten(p, h[N], b, N)  BY <1>1, <1>5 DEF S
<1>7. SubSeq(b, 1, N) = b  BY SubSeqFull
<1> QED  BY <1>2, <1>6, <1>7 DEF HasWritten

------------------------------------------------------------------------------
(* What a command shows.                                                   *)

\* The events of a game are shown one by one.
LEMMA EventAt ==
  ASSUME RecordingInv, NEW k \in 1..Len(demo), NEW n \in 1..Len(game[k].events)
  PROVE  /\ EventsAt(k)[n] = Shown(k, game[k].events[n])
         /\ EventsAt(k)[n] \in Visited
<1> DEFINE s == game[k].events
<1>1. s \in Seq(Events)
  <2>1. game \in Seq(Games) /\ k \in 1..Len(game)  BY DEF RecordingInv, Recorded
  <2>2. game[k] \in Games  BY <2>1, ElementOfSeq
  <2> QED  BY <2>2 DEF Games
<1>2. n \in DOMAIN s /\ s[n] \in Events  BY <1>1
<1>3. EventsAt(k)[n] = Shown(k, s[n])  BY <1>2 DEF EventsAt
<1> HIDE DEF s
<1>4. Shown(k, s[n]) \in VisitedIn({k}) \cap Changed  BY <1>2, CallbackFacts
<1>5. Shown(k, s[n]) \in Visited  BY <1>4 DEF VisitedIn
<1> QED  BY <1>3, <1>5 DEF s

\* A game with no events shows none.
LEMMA NoEvents ==
  ASSUME RecordingInv, NEW k \in 1..Len(demo), game[k].events = <<>>
  PROVE  EventsAt(k) = <<>>
<1>1. EventsAt(k) \in Seq(VisitedIn({k}) \cap Changed) /\ Len(EventsAt(k)) = 0
  <2>1. Len(EventsAt(k)) = Len(game[k].events)  BY EventsAtFacts
  <2>2. Len(game[k].events) = 0  OBVIOUS
  <2> QED  BY <2>1, <2>2, EventsAtFacts
<1> DEFINE s == EventsAt(k)
           S == VisitedIn({k}) \cap Changed
<1>2. s \in Seq(S) /\ Len(s) = 0  BY <1>1
<1> HIDE DEF s, S
<1>3. s = <<>>  BY <1>2
<1> QED  BY <1>3 DEF s

\* A sequence is as long as its domain.
LEMMA LenIs ==
  ASSUME NEW S, NEW s \in Seq(S), NEW n \in Nat, DOMAIN s = 1..n PROVE Len(s) = n
OBVIOUS

\* What is told of a command of the body: no event, the one of its entry, or those of all
\* entities.
LEMMA ToldFacts ==
  ASSUME RecordingInv, ToldInv, NEW k \in 5..Len(demo)
  PROVE  LET m == demo[k].messages[1]
             s == m.entries
         IN /\ m \in TableMessages => EventsAt(k) = <<>>
            /\ m \in EntityMessages =>
                 /\ Len(EventsAt(k)) = Len(s)
                 /\ \A n \in 1..Len(s) :
                      /\ EventsAt(k)[n] \in Visited
                      /\ EventsAt(k)[n] = Shown(k, Tale(game[k - 1], s[n], game[k]))
<1> DEFINE g == game[k - 1]
           h == game[k]
           m == demo[k].messages[1]
           s == m.entries
<1>1. k \in 1..Len(demo) /\ h \in Games  BY BodyFacts
<1>2. Told(g, demo[k], h)  BY DEF ToldInv
<1>3. ASSUME m \in TableMessages PROVE EventsAt(k) = <<>>
  <2>1. m.msg # "SvcPacketEntities"  BY <1>3 DEF TableMessages
  <2>2. h.events = <<>>  BY <1>2, <2>1 DEF Told
  <2> QED  BY <1>1, <2>2, NoEvents
<1>4. ASSUME m \in EntityMessages
      PROVE  /\ Len(EventsAt(k)) = Len(s)
             /\ \A n \in 1..Len(s) :
                  /\ EventsAt(k)[n] \in Visited
                  /\ EventsAt(k)[n] = Shown(k, Tale(g, s[n], h))
  <2>1. m.msg = "SvcPacketEntities" /\ s \in Seq(Entries)  BY <1>4 DEF EntityMessages
  <2>2. h.events = Tales(g, s, h)  BY <1>2, <2>1 DEF Told
  <2> DEFINE N == Len(s)
             e == h.events
  <2>3. N \in Nat /\ DOMAIN s = 1..N  BY <2>1
  <2>4. e \in Seq(Events)  BY <1>1 DEF Games
  <2>5. Len(e) = N
    <3>1. DOMAIN e = DOMAIN s  BY <2>2 DEF Tales
    <3> HIDE DEF e, N, s
    <3> QED  BY <2>3, <2>4, <3>1, LenIs
  <2>6. Len(EventsAt(k)) = N
    <3>1. Len(EventsAt(k)) = Len(game[k].events)  BY <1>1, EventsAtFacts
    <3> QED  BY <2>5, <3>1
  <2>7. ASSUME NEW n \in 1..N
        PROVE  /\ EventsAt(k)[n] \in Visited
               /\ EventsAt(k)[n] = Shown(k, Tale(g, s[n], h))
    <3>1. n \in 1..Len(game[k].events)  BY <2>5, <2>7
    <3>2. EventsAt(k)[n] = Shown(k, game[k].events[n]) /\ EventsAt(k)[n] \in Visited
      BY <1>1, <3>1, EventAt
    <3>3. n \in DOMAIN s  BY <2>3, <2>7
    <3>4. e[n] = Tale(g, s[n], h)
      <4> HIDE DEF e, g, s, N
      <4> QED  BY <2>2, <3>3 DEF Tales, e
    <3> QED  BY <3>2, <3>4
  <2> QED  BY <2>6, <2>7
<1> QED  BY <1>3, <1>4

\* The callbacks of a packet of one message.
LEMMA OneMessageAt ==
  ASSUME NEW k, NEW m, demo[k].messages = <<m>>
  PROVE  InsideAt(k) = <<CallbackAt(k, m.msg)>> \o EventsAt(k)
<1> DEFINE s == demo[k].messages
<1>1. DOMAIN s = 1..1 /\ s[1] = m
  <2> HIDE DEF s
  <2> QED  BY DEF s
<1>2. MessagesAt(k) = [n \in DOMAIN s |-> CallbackAt(k, s[n].msg)]  BY DEF MessagesAt
<1> HIDE DEF s
<1>3. MessagesAt(k) = [n \in 1..1 |-> CallbackAt(k, m.msg)]  BY <1>1, <1>2
<1>4. [n \in 1..1 |-> CallbackAt(k, m.msg)] = <<CallbackAt(k, m.msg)>>  OBVIOUS
<1> QED  BY <1>3, <1>4 DEF InsideAt

\* A full packet shows every entity, whatever the context was.
LEMMA FullPacketWrites ==
  ASSUME RecordingInv, ToldInv, NEW k \in 5..Len(demo), IsFullPacket(k),
         NEW p \in Parsers, Decodes(p), DOMAIN p.ctx.string_tables = Tables, p.pos = k,
         NEW q, q = handle_cmd_full_packet(p, demo[k], TRUE)
  PROVE  Writes(p, q, InsideAt(k))
<1> DEFINE c == demo[k]
           g == game[k - 1]
           h == game[k]
           m == c.messages[1]
           s == c.messages
           r == handle_cmd_string_tables(p, c.tables)
           d == AfterSnapshot(p.ctx, g.tables)
           f == m.entries
           b == EventsAt(k)
<1>0. /\ g \in Games /\ Change(g, c, h) /\ c \in Commands /\ c.cmd = "DemFullPacket"
      /\ k \in 1..Len(demo)
  BY BodyFacts DEF IsFullPacket
<1>1. /\ s = <<m>> /\ c.tables = g.tables /\ m \in EntityMessages
      /\ Restates(f, g.entities) /\ h.entities = g.entities
  BY <1>0 DEF Change
<1>2. c.tables \in Partial(Tables, Versions) /\ p.ctx \in Contexts  BY <1>0 DEF Commands, Parsers
<1>3. Handles(p, r) /\ r.result = "ok" /\ r.ctx = d
  BY <1>1, <1>2, SnapshotFacts DEF Decodes
<1>4. r.log = p.log  BY SnapshotLog
<1>5. SameSetup(p.ctx, d)  BY <1>0, <1>2, SnapshotTracks
<1>6. q = handle_cmd_packet(r, s)  BY <1>3 DEF handle_cmd_full_packet
<1> HIDE DEF d
<1>7. r \in Parsers /\ Decodes(r) /\ r.pos = k /\ r.collecting = p.collecting
  BY <1>3, <1>5 DEF Handles, Same, Decodes, SameSetup
<1>8. q = HandleMessage(r, m)
  <2>1. DOMAIN s = 1..1 /\ s[1] = m
    <3> HIDE DEF m, s
    <3> QED  BY <1>1
  <2> HIDE DEF r, m, s
  <2>2. q = HandleMessage(r, s[1])  BY <1>6, <2>1, OneMessage
  <2> QED  BY <2>1, <2>2
<1>9. f \in Seq(Entries) /\ DOMAIN f = 1..Len(f)  BY <1>1 DEF EntityMessages
<1>10. /\ Len(b) = Len(f)
       /\ \A n \in 1..Len(f) : b[n] \in Visited /\ b[n] = Shown(k, Tale(g, f[n], h))
  BY <1>1, ToldFacts
<1>11. b \in Seq(Visited)
  <2>1. b \in Seq(VisitedIn({k}) \cap Changed)  BY <1>0, EventsAtFacts
  <2>2. VisitedIn({k}) \cap Changed \subseteq Visited  BY DEF Changed
  <2> HIDE DEF b
  <2> QED  BY <2>1, <2>2, SeqOfMore
<1>12. ASSUME NEW n \in 1..Len(f)
       PROVE  Restating(f[n]) /\ b[n] = Restated(k, f[n])
  <2> DEFINE e == f[n]
             x == g.entities[e.index]
  <2>1. e \in Entries /\ e.delta = "CREATE" /\ e.index \in DOMAIN g.entities
        /\ e.base = x.base /\ e.state = x.state
    BY Zenon, <1>1, <1>9, <1>12, ElementOfSeq DEF Restates
  <2>2. x \in Entity
    <3>1. g.entities \in Partial(Indexes, Entity)  BY <1>0 DEF Games
    <3> DEFINE E == g.entities
               i == e.index
    <3>2. E \in Partial(Indexes, Entity) /\ i \in DOMAIN E  BY <2>1, <3>1
    <3> HIDE DEF E, i
    <3>3. E[i] \in Entity  BY <3>2, PartialFacts
    <3> QED  BY <3>3 DEF E, i
  <2>3. b[n] = [at |-> k, kind |-> e.delta, index |-> e.index, entity |-> x]
    <3>1. b[n] = Shown(k, Tale(g, e, h))  BY <1>10, <1>12
    <3>2. EntityTold(g, e, h) = x
      <4>1. h.entities = g.entities  BY <1>1
      <4> HIDE DEF g, h
      <4>2. e.delta = "CREATE"  BY <2>1
      <4> HIDE DEF e
      <4> QED  BY <4>1, <4>2 DEF EntityTold, x
    <3> HIDE DEF e, x, b, g, h
    <3> QED  BY <3>1, <3>2 DEF Shown, Tale
  <2> HIDE DEF e, x, b
  <2>4. e.base # Missing  BY <2>1, <2>2, IndexFacts DEF Entity, Versions
  <2>5. x = [base |-> e.base, state |-> e.state]  BY <2>1, <2>2 DEF Entity
  <2>6. b[n] = Restated(k, e)  BY <2>3, <2>5 DEF Restated
  <2> QED  BY <1>7, <2>1, <2>4, <2>6 DEF Restating, e
<1>a. InsideAt(k) = <<CallbackAt(k, m.msg)>> \o b  BY <1>1, OneMessageAt
<1> HIDE DEF b, r, g, h, c, s
<1>b. m \in Messages /\ m \in EntityMessages  BY <1>1 DEF Messages
<1> HIDE DEF f
<1>13. ASSUME NEW z \in Parsers, z.result = "ok", z.ctx = r.ctx, Same(r, z), q = MatchMessage(z, m)
       PROVE  Writes(z, q, b)
  <2>1. Decodes(z) /\ z.pos = k  BY <1>7, <1>13 DEF Decodes, Same
  <2>2. q = AllEntries(z, m.entries)  BY <1>b, <1>13, <2>1, EntityMessageFacts DEF Decodes
  <2>3. q = AllEntries(z, f)  BY <2>2 DEF f
  <2> HIDE DEF m
  <2>4. \A n \in 1..Len(f) : Restating(f[n])  BY <1>12
  <2>5. \A n \in 1..Len(f) : b[n] = Restated(z.pos, f[n])  BY <1>12, <2>1
  <2>6. Len(b) = Len(f)  BY <1>10
  <2> QED  BY <1>9, <1>11, <1>13, <2>1, <2>3, <2>4, <2>5, <2>6, RestatedWrites
<1> HIDE DEF m
<1>14. r.result = "ok" /\ r.pos = k  BY <1>3, <1>7
<1>15. Writes(r, q, <<CallbackAt(r.pos, m.msg)>> \o b)
  BY <1>7, <1>8, <1>11, <1>13, <1>14, <1>b, MessageWrites
<1> QED  BY <1>4, <1>7, <1>14, <1>15, <1>a DEF Writes

\* The entity that an entry shows is the one that the game has then.
LEMMA EntityOfIs ==
  ASSUME NEW c, NEW e \in Entries, NEW g, NEW h, Tracks(c, g), EntityChange(g, e, h)
  PROVE  /\ EntityOf(c, e) = EntityTold(g, e, h)
         /\ e.delta = "CREATE" \/ e.index \in DOMAIN c.entities
<1>1. c.entities = g.entities /\ c.instance_baseline = Baseline(g) /\ Cache(c, g)  BY DEF Tracks
<1>2. Cached(c) = Baseline(g)  BY <1>1 DEF Cached, Cache
<1>3. \/ /\ e.delta = "CREATE" /\ e.base = Missing
         /\ h.entities = [i \in DOMAIN g.entities \cup {e.index} |->
                            IF i = e.index THEN [base |-> Baseline(g), state |-> e.state]
                            ELSE g.entities[i]]
      \/ /\ e.delta = "UPDATE" /\ e.index \in DOMAIN g.entities
         /\ h.entities = [i \in DOMAIN g.entities |->
                            IF i = e.index THEN [g.entities[i] EXCEPT !.state = e.state]
                            ELSE g.entities[i]]
      \/ e.delta \in {"DELETE", "LEAVE"} /\ e.index \in DOMAIN g.entities
  BY DEF EntityChange
<1>4. CASE e.delta = "CREATE"
  <2>1. EntityOf(c, e) = [base |-> Baseline(g), state |-> e.state]
    BY <1>2, <1>3, <1>4 DEF EntityOf, Created
  <2>2. h.entities[e.index] = [base |-> Baseline(g), state |-> e.state]
    BY <1>3, <1>4
  <2> QED  BY <1>4, <2>1, <2>2 DEF EntityTold
<1>5. CASE e.delta = "UPDATE"
  <2>1. EntityOf(c, e) = [g.entities[e.index] EXCEPT !.state = e.state]
    BY <1>1, <1>5 DEF EntityOf
  <2>2. h.entities[e.index] = [g.entities[e.index] EXCEPT !.state = e.state]
        /\ e.index \in DOMAIN g.entities
    BY <1>3, <1>5
  <2> QED  BY <1>1, <1>5, <2>1, <2>2 DEF EntityTold
<1>6. CASE e.delta \in {"DELETE", "LEAVE"}
  <2>1. EntityOf(c, e) = g.entities[e.index]  BY <1>1, <1>6 DEF EntityOf
  <2> QED  BY <1>1, <1>3, <1>6, <2>1 DEF EntityTold
<1> QED  BY <1>4, <1>5, <1>6 DEF Entries

\* A sequence of one element is that one.
LEMMA OneIs ==
  ASSUME NEW S, NEW s \in Seq(S), Len(s) = 1 PROVE s = <<s[1]>>
<1> DEFINE t == <<s[1]>>
<1>1. s[1] \in S /\ t \in Seq(S) /\ Len(t) = 1 /\ t[1] = s[1]  OBVIOUS
<1> HIDE DEF t
<1>2. \A i \in 1..Len(s) : s[i] = t[i]  BY <1>1
<1>3. s = t  BY <1>1, <1>2, SeqEqual
<1> QED  BY <1>3 DEF t

\* A message shows what changed, if the context is that of the game before it.
LEMMA MatchWrites ==
  ASSUME RecordingInv, ToldInv, NEW k \in 5..Len(demo), ~IsFullPacket(k),
         NEW p \in Parsers, Decodes(p), DOMAIN p.ctx.string_tables = Tables, p.pos = k,
         Tracks(p.ctx, game[k - 1]), NEW m, m = demo[k].messages[1],
         NEW q, q = MatchMessage(p, m)
  PROVE  Writes(p, q, EventsAt(k))
<1> DEFINE c == demo[k]
           g == game[k - 1]
           h == game[k]
           s == c.messages
           b == EventsAt(k)
           e == m.entries[1]
<1>0. /\ g \in Games /\ Change(g, c, h) /\ c \in Commands /\ c.cmd # "DemFullPacket"
      /\ k \in 1..Len(demo)
  BY BodyFacts DEF IsFullPacket
<1>1. /\ s = <<m>>
      /\ \/ m \in TableMessages
         \/ m \in EntityMessages /\ m.entries = <<e>> /\ e \in Entries /\ EntityChange(g, e, h)
  BY <1>0 DEF Change
<1>2. q = MatchMessage(p, m)  OBVIOUS
<1>3. /\ m \in TableMessages => b = <<>>
      /\ m \in EntityMessages =>
           /\ Len(b) = Len(m.entries)
           /\ \A n \in 1..Len(m.entries) :
                b[n] \in Visited /\ b[n] = Shown(k, Tale(g, m.entries[n], h))
  BY ToldFacts
<1>4. CASE m \in TableMessages
  <2>1. m.table \in DOMAIN p.ctx.string_tables  BY <1>4 DEF TableMessages
  <2>2. q.result = "ok"  BY <1>2, <1>4, <2>1, TableFacts DEF Decodes
  <2>3. q.log = p.log  BY <1>2, <1>4, TableLog
  <2>4. Writes(p, q, <<>>)  BY <2>2, <2>3, WritesNothing
  <2> QED  BY <1>3, <1>4, <2>4
<1>5. CASE m \in EntityMessages /\ m.entries = <<e>> /\ e \in Entries /\ EntityChange(g, e, h)
  <2> DEFINE f == m.entries
             v == b[1]
             u == [at |-> p.pos, kind |-> e.delta, index |-> e.index, entity |-> EntityOf(p.ctx, e)]
  <2>1. DOMAIN f = 1..1 /\ f[1] = e /\ Len(f) = 1
    <3> HIDE DEF e, f
    <3> QED  BY <1>5 DEF f
  <2>2. q = HandleEntry(p, e)
    <3>1. q = AllEntries(p, f)  BY <1>2, <1>5, EntityMessageFacts DEF Decodes
    <3> HIDE DEF e, f
    <3>2. q = HandleEntry(p, f[1])  BY <2>1, <3>1, OneEntry
    <3> QED  BY <2>1, <3>2
  <2>3. b \in Seq(VisitedIn({k}) \cap Changed)  BY <1>0, EventsAtFacts
  <2>4. Len(b) = 1 /\ v \in Visited /\ v = Shown(k, Tale(g, e, h))
    <3>1. Len(b) = Len(f)  BY <1>3, <1>5
    <3>2. 1 \in 1..Len(f)  BY <2>1
    <3>3. b[1] \in Visited /\ b[1] = Shown(k, Tale(g, f[1], h))  BY <1>3, <1>5, <3>2
    <3> QED  BY <2>1, <3>1, <3>3
  <2>5. b = <<v>>
    <3> HIDE DEF b
    <3> QED  BY <2>3, <2>4, OneIs DEF v
  <2>6. EntityOf(p.ctx, e) = EntityTold(g, e, h)
        /\ (e.delta = "CREATE" \/ e.index \in DOMAIN p.ctx.entities)
    <3>1. Tracks(p.ctx, g) /\ e \in Entries /\ EntityChange(g, e, h)  BY <1>5
    <3> HIDE DEF g, e, h
    <3> QED  BY <3>1, EntityOfIs
  <2>7. v = u
    <3> HIDE DEF g, e, h, v
    <3> QED  BY <2>4, <2>6 DEF Shown, Tale
  <2>8. Writes(p, q, <<u>>)
    <3>1. e \in Entries /\ p.result = "ok"  BY <1>5 DEF Decodes
    <3> HIDE DEF e, u
    <3>2. u = [at |-> p.pos, kind |-> e.delta, index |-> e.index, entity |-> EntityOf(p.ctx, e)]
      BY DEF u
    <3> QED  BY <2>2, <2>6, <3>1, <3>2, EntryWrites
  <2> HIDE DEF b, u, v
  <2>9. Writes(p, q, b)  BY <2>5, <2>7, <2>8
  <2> QED  BY <2>9 DEF b
<1> QED  BY <1>1, <1>4, <1>5

\* A packet of it shows the message, too.
LEMMA PacketWrites ==
  ASSUME RecordingInv, ToldInv, NEW k \in 5..Len(demo), ~IsFullPacket(k),
         NEW p \in Parsers, Decodes(p), DOMAIN p.ctx.string_tables = Tables, p.pos = k,
         Tracks(p.ctx, game[k - 1]),
         NEW q, q = handle_cmd_packet(p, demo[k].messages)
  PROVE  Writes(p, q, InsideAt(k))
<1> DEFINE c == demo[k]
           s == c.messages
           m == s[1]
           b == EventsAt(k)
<1>0. Change(game[k - 1], c, game[k]) /\ c.cmd # "DemFullPacket" /\ k \in 1..Len(demo)
  BY BodyFacts DEF IsFullPacket
<1>1. s = <<m>> /\ m \in Messages  BY <1>0 DEF Change, Messages
<1>2. q = HandleMessage(p, m)
  <2>1. DOMAIN s = 1..1 /\ s[1] = m
    <3> HIDE DEF s
    <3> QED  BY <1>1
  <2>2. q = handle_cmd_packet(p, s)  OBVIOUS
  <2> HIDE DEF m, s
  <2>3. q = HandleMessage(p, s[1])  BY <2>1, <2>2, OneMessage
  <2> QED  BY <2>1, <2>3
<1>3. b \in Seq(Visited)
  <2>1. b \in Seq(VisitedIn({k}) \cap Changed)  BY <1>0, EventsAtFacts
  <2>2. VisitedIn({k}) \cap Changed \subseteq Visited  BY DEF Changed
  <2> HIDE DEF b
  <2> QED  BY <2>1, <2>2, SeqOfMore
<1>4. InsideAt(k) = <<CallbackAt(k, m.msg)>> \o b  BY <1>1, OneMessageAt
<1>5. ASSUME NEW z \in Parsers, z.result = "ok", z.ctx = p.ctx, Same(p, z), q = MatchMessage(z, m)
      PROVE  Writes(z, q, b)
  <2>1. Decodes(z) /\ z.pos = k  BY <1>5 DEF Decodes, Same
  <2>2. Tracks(z.ctx, game[k - 1]) /\ DOMAIN z.ctx.string_tables = Tables  BY <1>5
  <2>3. m = demo[k].messages[1]  OBVIOUS
  <2> HIDE DEF m
  <2> QED  BY <1>5, <2>1, <2>2, <2>3, MatchWrites
<1> HIDE DEF m, b
<1>6. p.result = "ok"  BY DEF Decodes
<1>7. Writes(p, q, <<CallbackAt(p.pos, m.msg)>> \o b)
  BY <1>1, <1>2, <1>3, <1>5, <1>6, MessageWrites
<1> QED  BY <1>4, <1>7

\* A message without entities shows itself, if it does not fail.
LEMMA PlainWrites ==
  ASSUME NEW p \in Parsers, p.result = "ok", NEW m \in TableMessages \cup InfoMessages,
         m \in TableMessages => m.msg = "SvcCreateStringTable",
         NEW q, q = HandleMessage(p, m), NEW v, v = CallbackAt(p.pos, m.msg)
  PROVE  /\ Writes(p, q, <<v>>) /\ v \in Visited
         /\ q \in Parsers /\ q.pos = p.pos /\ q.collecting = p.collecting
<1> DEFINE b == <<>>
<1>1. m \in Messages /\ b \in Seq(Visited)  BY DEF Messages
<1>2. ASSUME NEW z \in Parsers, z.result = "ok", q = MatchMessage(z, m)
      PROVE  Writes(z, q, b)
  <2>1. q.result = "ok"  BY <1>2, TableFacts, InfoFacts
  <2>2. q.log = z.log  BY <1>2, TableLog
  <2> QED  BY <1>2, <2>1, <2>2, WritesNothing
<1> HIDE DEF b
<1>3. Writes(p, q, <<v>> \o b) /\ v \in Visited  BY <1>1, <1>2, MessageWrites
<1>4. <<v>> \o b = <<v>>
  <2>1. <<v>> \in Seq(Visited)  BY <1>3
  <2> QED  BY <2>1, ConcatEmptySeq DEF b
<1>5. Handles(p, q)  BY <1>1, MessageFacts
<1> QED  BY <1>3, <1>4, <1>5 DEF Handles, Same

\* A sequence of three, put together.
LEMMA ThreeOf ==
  ASSUME NEW S, NEW u \in S, NEW v \in S, NEW w \in S, NEW f, f = [n \in 1..3 |-> f[n]],
         f[1] = u, f[2] = v, f[3] = w
  PROVE  f = (<<u>> \o <<v>>) \o <<w>>
<1> DEFINE x == <<u>>
           y == <<v>>
           z == <<w>>
           xy == x \o y
           xyz == xy \o z
<1>1. /\ x \in Seq(S) /\ Len(x) = 1 /\ x[1] = u
      /\ y \in Seq(S) /\ Len(y) = 1 /\ y[1] = v
      /\ z \in Seq(S) /\ Len(z) = 1 /\ z[1] = w
  OBVIOUS
<1> HIDE DEF x, y, z
<1>2. xy \in Seq(S) /\ Len(xy) = 2 /\ xy[1] = u /\ xy[2] = v
  <2>0. /\ xy \in Seq(S) /\ Len(xy) = Len(x) + Len(y)
        /\ \A i \in 1..Len(x) + Len(y) :
             xy[i] = IF i <= Len(x) THEN x[i] ELSE y[i - Len(x)]
    BY Zenon, <1>1, ConcatProperties
  <2> HIDE DEF xy
  <2>1. /\ xy \in Seq(S) /\ Len(xy) = 2
        /\ \A i \in 1..2 : xy[i] = IF i <= 1 THEN x[i] ELSE y[i - 1]
    BY <1>1, <2>0
  <2>2. xy[1] = x[1]  BY <2>1
  <2>3. xy[2] = y[2 - 1]  BY <2>1
  <2> QED  BY <1>1, <2>1, <2>2, <2>3
<1> HIDE DEF xy
<1>3. xyz \in Seq(S) /\ Len(xyz) = 3 /\ xyz[1] = u /\ xyz[2] = v /\ xyz[3] = w
  <2>0. /\ xyz \in Seq(S) /\ Len(xyz) = Len(xy) + Len(z)
        /\ \A i \in 1..Len(xy) + Len(z) :
             xyz[i] = IF i <= Len(xy) THEN xy[i] ELSE z[i - Len(xy)]
    BY Zenon, <1>1, <1>2, ConcatProperties
  <2> HIDE DEF xyz
  <2>1. /\ xyz \in Seq(S) /\ Len(xyz) = 3
        /\ \A i \in 1..3 : xyz[i] = IF i <= 2 THEN xy[i] ELSE z[i - 2]
    BY <1>1, <1>2, <2>0
  <2>2. xyz[1] = xy[1] /\ xyz[2] = xy[2]  BY <2>1
  <2>3. xyz[3] = z[3 - 2]  BY <2>1
  <2> QED  BY <1>1, <1>2, <2>1, <2>2, <2>3
<1> HIDE DEF xyz
<1>4. f \in Seq(S) /\ Len(f) = 3
  <2>1. \A n \in 1..3 : f[n] \in S  OBVIOUS
  <2>2. DOMAIN f = 1..3  OBVIOUS
  <2>3. f \in Seq(S)  BY <2>1, IsASeq
  <2> QED  BY <2>2, <2>3
<1>5. \A n \in 1..Len(f) : f[n] = xyz[n]  BY <1>3, <1>4
<1>6. f = xyz  BY <1>3, <1>4, <1>5, SeqEqual
<1> QED  BY <1>6 DEF x, y, z, xy, xyz

\* The first command of the signon part shows its three messages.
LEMMA SetupWrites ==
  ASSUME NEW p \in Parsers, p.result = "ok", NEW k, p.pos = k, NEW s,
         s = << [msg |-> "SvcServerInfo", ratio |-> TickRatio],
                CreateStringTable("userinfo"),
                CreateStringTable(INSTANCE_BASELINE_TABLE_NAME) >>,
         NEW q, q = handle_cmd_packet(p, s)
  PROVE  Writes(p, q, [n \in DOMAIN s |-> CallbackAt(k, s[n].msg)])
<1> DEFINE a == [msg |-> "SvcServerInfo", ratio |-> TickRatio]
           d == CreateStringTable("userinfo")
           e == CreateStringTable(INSTANCE_BASELINE_TABLE_NAME)
           x == HandleMessage(p, a)
           y == HandleMessage(x, d)
           u == CallbackAt(k, a.msg)
           v == CallbackAt(k, d.msg)
           w == CallbackAt(k, e.msg)
<1>1. a \in InfoMessages /\ d \in TableMessages /\ e \in TableMessages
  BY DemoAssumption DEF InfoMessages, TableMessages, CreateStringTable, Tables, Versions
<1>2. d.msg = "SvcCreateStringTable" /\ e.msg = "SvcCreateStringTable" /\ a \notin TableMessages
  BY DEF CreateStringTable, TableMessages
<1>3. DOMAIN s = 1..3 /\ s[1] = a /\ s[2] = d /\ s[3] = e
  <2>1. s = <<a, d, e>>  OBVIOUS
  <2> HIDE DEF a, d, e
  <2> QED  BY <2>1
<1> HIDE DEF a, d, e
<1>4. q = HandleMessage(y, e)
  <2>1. q = HandleMessage(HandleMessage(HandleMessage(p, s[1]), s[2]), s[3])
    BY <1>3, ThreeMessages
  <2> QED  BY <1>3, <2>1
<1>5. Writes(p, x, <<u>>) /\ u \in Visited /\ x \in Parsers /\ x.pos = k /\ x.collecting = p.collecting
  <2>1. x = HandleMessage(p, a) /\ u = CallbackAt(p.pos, a.msg)  OBVIOUS
  <2> HIDE DEF x, u
  <2> QED  BY <1>1, <1>2, <2>1, PlainWrites
<1>6. (x.result = "error" => y = x) /\ (y.result = "error" => q = y)
  <2>1. x.result = "error" => y = x  BY LeftOut
  <2> HIDE DEF x, y
  <2> QED  BY <1>4, <2>1, LeftOut
<1>7. ASSUME x.result = "ok"
      PROVE  Writes(x, y, <<v>>)
  <2>1. y = HandleMessage(x, d)  OBVIOUS
  <2> HIDE DEF x, y
  <2>2. v = CallbackAt(x.pos, d.msg)  BY <1>5
  <2> HIDE DEF v
  <2> QED  BY <1>1, <1>2, <1>5, <1>7, <2>1, <2>2, PlainWrites
<1>8. v \in Visited /\ w \in Visited
  <2>1. d.msg \in Callbacks /\ e.msg \in Callbacks  BY <1>2 DEF Callbacks, Svcs
  <2>2. k \in Nat  BY DEF Parsers
  <2> QED  BY <2>1, <2>2, IndexFacts DEF CallbackAt, Visited
<1>9. y \in Parsers /\ y.pos = k /\ y.collecting = p.collecting
  <2>1. y = HandleMessage(x, d)  OBVIOUS
  <2> HIDE DEF x, y
  <2>2. Handles(x, y)  BY <1>1, <1>5, <2>1, MessageFacts DEF Messages
  <2> QED  BY <1>5, <2>2 DEF Handles, Same
<1> HIDE DEF x
<1>10. ASSUME y.result = "ok"
       PROVE  Writes(y, q, <<w>>)
  <2> HIDE DEF y
  <2>2. w = CallbackAt(y.pos, e.msg)  BY <1>9
  <2> HIDE DEF w
  <2> QED  BY <1>1, <1>2, <1>4, <1>9, <1>10, <2>2, PlainWrites
<1>11. q \in Parsers
  <2> HIDE DEF y
  <2> QED  BY <1>1, <1>4, <1>9, MessageFacts DEF Handles, Messages
<1>c. [n \in DOMAIN s |-> CallbackAt(k, s[n].msg)] = (<<u>> \o <<v>>) \o <<w>>
  <2> DEFINE f == [n \in DOMAIN s |-> CallbackAt(k, s[n].msg)]
  <2>1. DOMAIN f = 1..3 /\ f[1] = u /\ f[2] = v /\ f[3] = w  BY <1>3
  <2>2. f = [n \in 1..3 |-> f[n]]  BY <2>1
  <2> HIDE DEF f, u, v, w
  <2>3. u \in Visited /\ v \in Visited /\ w \in Visited  BY <1>5, <1>8
  <2>4. f = (<<u>> \o <<v>>) \o <<w>>  BY <2>1, <2>2, <2>3, ThreeOf
  <2> QED  BY <2>4 DEF f
<1> HIDE DEF y, u, v, w
<1>12. Writes(p, y, <<u>> \o <<v>>)
  <2>1. <<u>> \in Seq(Visited) /\ <<v>> \in Seq(Visited)  BY <1>5, <1>8
  <2> QED  BY <1>5, <1>6, <1>7, <1>9, <2>1, WritesTransitive
<1>13. Writes(p, q, (<<u>> \o <<v>>) \o <<w>>)
  <2> DEFINE uv == <<u>> \o <<v>>
  <2>1. uv \in Seq(Visited) /\ <<w>> \in Seq(Visited)  BY <1>5, <1>8
  <2>2. Writes(p, y, uv)  BY <1>12
  <2> HIDE DEF uv
  <2>3. Writes(p, q, uv \o <<w>>)  BY <1>6, <1>9, <1>10, <1>11, <2>1, <2>2, WritesTransitive
  <2> QED  BY <2>3 DEF uv
<1> QED  BY <1>13, <1>c

\* A command without messages or changes has nothing to show.
LEMMA NothingInside ==
  ASSUME NEW k, demo[k].messages = <<>>, EventsAt(k) = <<>>
  PROVE  InsideAt(k) = <<>>
<1> DEFINE s == demo[k].messages
           f == [n \in DOMAIN s |-> CallbackAt(k, s[n].msg)]
<1>1. DOMAIN s = {}  OBVIOUS
<1>2. MessagesAt(k) = f  BY DEF MessagesAt
<1>3. f = <<>>
  <2> HIDE DEF s
  <2> QED  BY <1>1
<1> QED  BY <1>2, <1>3 DEF InsideAt

\* The signon part shows its messages, and changes nothing.
LEMMA SignonWrites ==
  ASSUME RecordingInv, NEW k \in 1..4, NEW p \in Parsers, p.result = "ok", p.pos = k,
         Ready(p.ctx, k - 1), NEW r, r = on_cmd(p), r.result = "ok",
         NEW q, q = handle_cmd(p, demo[k])
  PROVE  Writes(r, q, InsideAt(k))
<1> DEFINE c == demo[k]
           B == INSTANCE_BASELINE_TABLE_NAME
<1>1. /\ demo[k] = Signon[k] /\ game[k] = NewGame /\ k \in 1..Len(demo) /\ c \in Commands
  <2>1. demo[k] = Signon[k] /\ game[k] = NewGame /\ Len(demo) \in Nat /\ 4 <= Len(demo)
    BY DemoAssumption DEF RecordingInv, Recorded
  <2>2. k \in 1..Len(demo)  BY <2>1
  <2> QED  BY <2>1, <2>2, CommandFacts
<1>2. r \in Parsers /\ r.ctx = p.ctx /\ r.pos = k  BY OnCmdFacts DEF Same
<1>3. EventsAt(k) = <<>>
  <2>1. game[k].events = <<>>  BY <1>1 DEF NewGame
  <2> QED  BY <1>1, <2>1, NoEvents
<1>4. k = 1 \/ k = 2 \/ k = 3 \/ k = 4  OBVIOUS
<1>5. CASE k = 1
  <2> DEFINE s == << [msg |-> "SvcServerInfo", ratio |-> TickRatio],
                     CreateStringTable("userinfo"), CreateStringTable(B) >>
             f == [n \in DOMAIN s |-> CallbackAt(k, s[n].msg)]
  <2>1. c.cmd = "DemSignonPacket" /\ c.messages = s  BY <1>1, <1>5 DEF Signon, Command
  <2>2. q = handle_cmd_packet(r, s)  BY <2>1 DEF handle_cmd
  <2>3. Writes(r, q, f)
    <3>1. s = << [msg |-> "SvcServerInfo", ratio |-> TickRatio],
                 CreateStringTable("userinfo"),
                 CreateStringTable(INSTANCE_BASELINE_TABLE_NAME) >>
      OBVIOUS
    <3> HIDE DEF s
    <3> QED  BY <1>2, <2>2, <3>1, SetupWrites
  <2>4. MessagesAt(k) = f
    <3> HIDE DEF s
    <3> QED  BY <2>1 DEF MessagesAt
  <2>5. MessagesAt(k) \in Seq(VisitedIn({k}))  BY <1>1, MessagesAtFacts
  <2> HIDE DEF f
  <2>6. InsideAt(k) = f  BY <1>3, <2>4, <2>5, ConcatEmptySeq DEF InsideAt
  <2> QED  BY <2>3, <2>6
<1>6. ASSUME c.messages = <<>>, q.result = "ok", q.log = r.log
      PROVE  Writes(r, q, InsideAt(k))
  <2>1. Writes(r, q, <<>>)  BY <1>2, <1>6, WritesNothing
  <2>2. InsideAt(k) = <<>>  BY <1>3, <1>6, NothingInside
  <2> QED  BY <2>1, <2>2
<1>7. CASE k = 2
  <2>1. c.cmd = "DemSendTables" /\ c.messages = <<>>  BY <1>1, <1>7 DEF Signon, Command
  <2>2. q = [r EXCEPT !.ctx.serializers = TRUE]  BY <2>1 DEF handle_cmd
  <2>3. q.log = r.log  BY <1>2, <2>2, ClassLog
  <2>4. q.result = r.result  BY <1>2, <2>2, SendTablesFacts
  <2> QED  BY <1>6, <2>1, <2>3, <2>4
<1>8. CASE k = 3
  <2>1. c.cmd = "DemClassInfo" /\ c.messages = <<>>  BY <1>1, <1>8 DEF Signon, Command
  <2>2. q = handle_class_info(r)  BY <2>1 DEF handle_cmd
  <2>3. q.log = r.log  BY <1>2, <2>2, ClassLog
  <2>4. q.result = r.result  BY <1>2, <2>2, ClassInfoFacts
  <2> QED  BY <1>6, <2>1, <2>3, <2>4
<1>9. CASE k = 4
  <2>1. c.cmd = "DemSyncTick" /\ c.messages = <<>>  BY <1>1, <1>9 DEF Signon, Command
  <2>2. q = r  BY <2>1 DEF handle_cmd
  <2> QED  BY <1>6, <2>1, <2>2
<1> QED  BY <1>4, <1>5, <1>7, <1>8, <1>9

\* The context is such that command k shows what it should.
Shows(c, k) == Follows(c, k - 1) \/ (k >= 5 /\ IsFullPacket(k))

\* A command whose callback did not fail.
LEMMA HandledWrites ==
  ASSUME RecordingInv, ToldInv, NEW k \in 1..Len(demo),
         NEW p \in Parsers, p.result = "ok", p.pos = k, k >= 5 => ~p.skip_entity_packets,
         Ready(p.ctx, k - 1), Shows(p.ctx, k),
         NEW r, r = on_cmd(p), r.result = "ok",
         NEW q, q = handle_cmd(p, demo[k])
  PROVE  Writes(r, q, InsideAt(k))
<1>0. Len(demo) \in Nat /\ (k \in 1..4 \/ k \in 5..Len(demo))
  <2>1. Len(demo) \in Nat  BY DemoAssumption DEF RecordingInv, Recorded
  <2> QED  BY <2>1
<1>1. CASE k \in 1..4  BY <1>1, SignonWrites
<1>2. CASE k \in 5..Len(demo)
  <2> DEFINE c == demo[k]
             j == k - 1
  <2>1. /\ k \in Nat /\ j \in Nat /\ j # 0 /\ j >= 4 /\ k >= 5
        /\ c \in Commands /\ c.cmd \in {"DemPacket", "DemFullPacket"}
    BY <1>2, BodyFacts
  <2>2. r \in Parsers /\ Same(p, r) /\ r.ctx = p.ctx  BY OnCmdFacts
  <2>3. Ready(p.ctx, j)  OBVIOUS
  <2>4. Decodes(r) /\ DOMAIN r.ctx.string_tables = Tables /\ r.pos = k
    <3> HIDE DEF j
    <3> QED  BY <2>1, <2>2, <2>3, ReadyFacts DEF Decodes, Same
  <2>5. CASE c.cmd = "DemFullPacket"
    <3>1. q = handle_cmd_full_packet(r, c, TRUE)  BY <2>5 DEF handle_cmd
    <3>2. IsFullPacket(k)  BY <2>5 DEF IsFullPacket
    <3> QED  BY <1>2, <2>2, <2>4, <3>1, <3>2, FullPacketWrites
  <2>6. CASE c.cmd = "DemPacket"
    <3>1. q = handle_cmd_packet(r, c.messages)  BY <2>6 DEF handle_cmd
    <3>2. ~IsFullPacket(k)  BY <2>6 DEF IsFullPacket
    <3>3. Tracks(r.ctx, game[k - 1])  BY <2>1, <2>2, <3>2 DEF Shows, Follows
    <3> QED  BY <1>2, <2>2, <2>4, <3>1, <3>2, <3>3, PacketWrites
  <2> QED  BY <2>1, <2>5, <2>6
<1> QED  BY <1>0, <1>1, <1>2

\* Any command is seen with its changes and the end of its tick.
LEMMA CommandWrites ==
  ASSUME RecordingInv, ToldInv, NEW k \in 1..Len(demo),
         NEW p \in Parsers, p.result = "ok", p.pos = k, k >= 5 => ~p.skip_entity_packets,
         Ready(p.ctx, k - 1), Shows(p.ctx, k),
         p.ctx.tick = TickAt(k), p.ctx.prev_tick = TickAt(k - 1),
         NEW q, q = TickEnded(handle_cmd(p, demo[k]))
  PROVE  Writes(p, q, RecordedAt(k))
<1> DEFINE r == on_cmd(p)
           s == handle_cmd(p, demo[k])
           a == <<CallbackAt(k, "Cmd")>>
           b == InsideAt(k)
           d == EndAt(k)
<1>1. r \in Parsers /\ Same(p, r) /\ Handles(p, r)
  <2>1. r \in Parsers /\ Same(p, r) /\ r.ctx = p.ctx /\ Holds(p, r)  BY OnCmdFacts
  <2> QED  BY <2>1 DEF Handles
<1>2. Writes(p, r, a)
  <2>1. Writes(p, r, <<CallbackAt(p.pos, "Cmd")>>)  BY OnCmdWrites
  <2> QED  BY <2>1
<1>3. s \in Parsers /\ Same(p, s)  BY CommandFacts, HandleCmdFacts DEF Handles
<1>4. r.result = "error" => s = r  BY DEF handle_cmd
<1>5. r.result = "ok" => Writes(r, s, b)
  <2> SUFFICES ASSUME r.result = "ok" PROVE Writes(r, s, b)  OBVIOUS
  <2> HIDE DEF r, s
  <2>1. r = on_cmd(p) /\ s = handle_cmd(p, demo[k])  BY DEF r, s
  <2> QED  BY <2>1, HandledWrites
<1>6. q \in Parsers /\ Same(s, q) /\ (s.result = "error" => q = s)
  <2> HIDE DEF s
  <2>1. q = TickEnded(s)  BY DEF s
  <2> QED  BY <1>3, <2>1, TickEndedFacts DEF Handles
<1>7. s.result = "ok" => Writes(s, q, d)
  <2> SUFFICES ASSUME s.result = "ok" PROVE Writes(s, q, d)  OBVIOUS
  <2> HIDE DEF s
  <2>1. q = TickEnded(s)  BY DEF s
  <2>2. s.pos = k /\ s.ctx.tick = TickAt(k) /\ s.ctx.prev_tick = TickAt(k - 1)  BY <1>3 DEF Same
  <2> QED  BY <1>3, <2>1, <2>2, TickEndWrites
<1>8. a \in Seq(Visited) /\ b \in Seq(Visited) /\ d \in Seq(Visited)
  <2>1. a \in Seq(VisitedIn({k})) /\ b \in Seq(VisitedIn({k})) /\ d \in Seq(VisitedIn({k}))
    BY EventsAtFacts, RecordedAtIs
  <2>2. VisitedIn({k}) \subseteq Visited  BY DEF VisitedIn
  <2> HIDE DEF a, b, d
  <2> QED  BY <2>1, <2>2, SeqOfMore
<1>9. RecordedAt(k) = (a \o b) \o d  BY RecordedAtIs
<1> DEFINE ab == a \o b
<1> HIDE DEF a, b, d, r, s
<1>10. ab \in Seq(Visited)  BY <1>8
<1>11. r.collecting = p.collecting /\ s.collecting = p.collecting  BY <1>1, <1>3 DEF Same
<1>12. Writes(p, s, ab)  BY <1>1, <1>2, <1>3, <1>4, <1>5, <1>8, <1>11, WritesTransitive
<1> HIDE DEF ab
<1>13. Writes(p, q, ab \o d)
  BY <1>3, <1>6, <1>7, <1>8, <1>10, <1>11, <1>12, WritesTransitive
<1> QED  BY <1>9, <1>13 DEF ab

------------------------------------------------------------------------------
(* What a command shows of a context that is not what it should be.        *)

\* From p to q a visitor that collects has seen changes of entities, whichever.
Adds(p, q) ==
  p.collecting /\ q.result = "ok" => \E a \in Seq(Changed) : q.log = p.log \o a

\* Changes are callbacks.
LEMMA ChangedFacts == Changed \subseteq Visited /\ \A s \in Seq(Changed) : s \in Seq(Visited)
<1>1. Changed \subseteq Visited  BY DEF Changed
<1> QED  BY <1>1, SeqOfMore

\* Where the log stays it has seen none.
LEMMA AddsNothing ==
  ASSUME NEW p \in Parsers, NEW q, q.log = p.log PROVE Adds(p, q)
<1>1. p.log \in Seq(Visited)  BY DEF Parsers
<1>2. p.log \o <<>> = p.log  BY <1>1, ConcatEmptySeq
<1>3. <<>> \in Seq(Changed)  OBVIOUS
<1> QED  BY <1>2, <1>3 DEF Adds

\* One handler after another.
LEMMA AddsTransitive ==
  ASSUME NEW p \in Parsers, NEW q \in Parsers, NEW r \in Parsers, q.collecting = p.collecting,
         Adds(p, q), Adds(q, r), q.result = "error" => r = q
  PROVE  Adds(p, r)
<1> SUFFICES ASSUME p.collecting, r.result = "ok" PROVE \E a \in Seq(Changed) : r.log = p.log \o a
  BY DEF Adds
<1>1. q.result = "ok" /\ q.collecting  BY DEF Parsers
<1>2. PICK a \in Seq(Changed) : q.log = p.log \o a  BY <1>1 DEF Adds
<1>3. PICK b \in Seq(Changed) : r.log = q.log \o b  BY <1>1 DEF Adds
<1> DEFINE x == p.log
<1>4. x \in Seq(Visited) /\ a \in Seq(Visited) /\ b \in Seq(Visited)  BY ChangedFacts DEF Parsers
<1>5. r.log = (x \o a) \o b  BY <1>2, <1>3
<1> HIDE DEF x
<1>6. (x \o a) \o b = x \o (a \o b)  BY SMTT(60), <1>4, ConcatAssociative
<1>7. a \o b \in Seq(Changed)  OBVIOUS
<1> QED  BY <1>5, <1>6, <1>7 DEF x

\* An entry.
LEMMA EntryAdds ==
  ASSUME NEW p \in Parsers, NEW e \in Entries, NEW q, q = HandleEntry(p, e)
  PROVE  Adds(p, q)
<1>1. CASE p.result # "ok"
  <2>1. p.result = "error"  BY <1>1 DEF Parsers
  <2>2. q = p  BY <2>1, EntryFacts
  <2> QED  BY <2>2, AddsNothing
<1>2. CASE e.delta # "CREATE" /\ e.index \notin DOMAIN p.ctx.entities
  <2>1. HandleEntry(p, e) = p  BY <1>2, EntryIgnored
  <2> QED  BY <2>1, AddsNothing
<1>3. CASE p.result = "ok" /\ (e.delta = "CREATE" \/ e.index \in DOMAIN p.ctx.entities)
  <2> DEFINE v == [at |-> p.pos, kind |-> e.delta, index |-> e.index, entity |-> EntityOf(p.ctx, e)]
  <2>1. v.kind = e.delta /\ e.delta \in Deltas  BY DEF Entries, Deltas
  <2>2. v = [at |-> p.pos, kind |-> e.delta, index |-> e.index, entity |-> EntityOf(p.ctx, e)]
    OBVIOUS
  <2> HIDE DEF v
  <2>3. Writes(p, q, <<v>>) /\ v \in Visited  BY <1>3, <2>2, EntryWrites
  <2>4. v \in Changed  BY <2>1, <2>3 DEF Changed
  <2>5. <<v>> \in Seq(Changed)  BY <2>4
  <2> QED  BY <2>3, <2>5 DEF Writes, Adds
<1> QED  BY <1>1, <1>2, <1>3

\* From p to r entity changes were seen at most.
HasAdded(p, r) == Handles(p, r) /\ Adds(p, r)

\* Entries, one after another.
LEMMA EntriesAdd ==
  ASSUME NEW p \in Parsers, NEW entries \in Seq(Entries), NEW q, q = AllEntries(p, entries)
  PROVE  Adds(p, q)
<1> DEFINE N == Len(entries)
<1>1. N \in Nat /\ DOMAIN entries = 1..N  OBVIOUS
<1>2. PICK h : /\ h[0] = p /\ q = h[N]
               /\ \A i \in 1..N : h[i] = HandleEntry(h[i - 1], entries[i])
  <2> HIDE DEF N
  <2> QED  BY SMTT(60), <1>1, EntryTurns
<1> DEFINE S == {n \in Nat : n \in 0..N => HasAdded(p, h[n])}
<1>3. 0 \in S
  <2>1. HasAdded(p, p)  BY HandlesItself, AddsNothing DEF HasAdded
  <2> QED  BY <1>2, <2>1
<1>4. ASSUME NEW n \in 0 + 1..N, n - 1 \in S PROVE n \in S
  <2> DEFINE x == h[n - 1]
             y == h[n]
             e == entries[n]
  <2>1. n \in 1..N /\ n - 1 \in 0..N /\ n \in Nat  BY <1>1
  <2>2. HasAdded(p, x)  BY <1>4, <2>1
  <2>3. y = HandleEntry(x, e)  BY <1>2, <2>1
  <2>4. e \in Entries  BY <1>1, <2>1, ElementOfSeq
  <2> HIDE DEF x, y, e
  <2>5. x \in Parsers /\ Handles(p, x) /\ Adds(p, x) /\ x.collecting = p.collecting
    BY <2>2 DEF HasAdded, Handles, Same
  <2>6. Handles(x, y)  BY <2>3, <2>4, <2>5, EntryFacts DEF Handles
  <2>7. Adds(x, y)  BY <2>3, <2>4, <2>5, EntryAdds
  <2>8. Handles(p, y)  BY <2>5, <2>6, HandlesTransitive
  <2>9. y \in Parsers /\ (x.result = "error" => y = x)  BY <2>6 DEF Handles
  <2>10. Adds(p, y)  BY <2>5, <2>7, <2>9, AddsTransitive
  <2>11. HasAdded(p, y)  BY <2>8, <2>10 DEF HasAdded
  <2> QED  BY <2>1, <2>11 DEF y
<1> HIDE DEF S
<1>5. \A n \in 0..N : n \in S  BY <1>1, <1>3, <1>4, UpInduction
<1>6. HasAdded(p, h[N])  BY <1>1, <1>5 DEF S
<1> QED  BY <1>2, <1>6 DEF HasAdded

\* What the match of a message shows.
LEMMA MatchAdds ==
  ASSUME NEW p \in Parsers, p.result = "ok", NEW m \in Messages, NEW q, q = MatchMessage(p, m)
  PROVE  Adds(p, q)
<1>1. CASE m \in TableMessages \cup InfoMessages
  <2>1. q.log = p.log  BY <1>1, TableLog
  <2> QED  BY <2>1, AddsNothing
<1>2. CASE m \in EntityMessages
  <2>1. m.msg = "SvcPacketEntities" /\ m.entries \in Seq(Entries)  BY <1>2 DEF EntityMessages
  <2>2. CASE p.skip_entity_packets
    <3>1. q = p  BY <1>2, <2>2, EntityMessageFacts
    <3> QED  BY <3>1, AddsNothing
  <2>3. CASE ~p.skip_entity_packets /\ p.ctx.entity_classes /\ p.ctx.serializers
    <3>1. q = AllEntries(p, m.entries)  BY <1>2, <2>3, EntityMessageFacts
    <3> QED  BY <2>1, <3>1, EntriesAdd
  <2>4. CASE ~p.skip_entity_packets /\ ~(p.ctx.entity_classes /\ p.ctx.serializers)
    <3>1. q = Bail(p)  BY <2>1, <2>4 DEF MatchMessage, handle_svc_packet_entities
    <3>2. q.log = p.log  BY <3>1 DEF Bail, Parsers
    <3> QED  BY <3>2, AddsNothing
  <2> QED  BY <2>2, <2>3, <2>4
<1> QED  BY <1>1, <1>2 DEF Messages

\* CommandsOf leaves the entity changes out, and takes logs apart.
LEMMA CommandsOfFacts ==
  /\ \A s \in Seq(Visited) : CommandsOf(s) \in Seq(Visited)
  /\ \A s, t \in Seq(Visited) : CommandsOf(s \o t) = CommandsOf(s) \o CommandsOf(t)
  /\ \A s \in Seq(Changed) : CommandsOf(s) = <<>>
  /\ \A k \in DOMAIN demo : \A s \in Seq({v \in VisitedIn({k}) : v.kind \in Svcs}) : CommandsOf(s) = s
<1> DEFINE K == Callbacks \ Deltas
           C == DOMAIN demo
<1>1. \A s : CommandsOf(s) = Only(s, K, C)  BY DEF CommandsOf
<1>2. \A v \in Changed : ~(v.kind \in K /\ v.at \in C)  BY DEF Changed
<1>3. ASSUME NEW k \in C, NEW v \in {v \in VisitedIn({k}) : v.kind \in Svcs}
      PROVE  v.kind \in K /\ v.at \in C
  <2>1. v.kind \in Svcs /\ v.at = k  BY DEF VisitedIn
  <2> QED  BY <2>1 DEF Svcs, Deltas, Callbacks
<1> HIDE DEF K, C
<1>4. \A s \in Seq(Visited) : Only(s, K, C) \in Seq(Visited)  BY PickingIs
<1>5. \A s, t \in Seq(Visited) : Only(s \o t, K, C) = Only(s, K, C) \o Only(t, K, C)  BY OnlyConcat
<1>6. \A s \in Seq(Changed) : Only(s, K, C) = <<>>  BY <1>2, OnlyNone
<1>7. ASSUME NEW k \in C
      PROVE  \A s \in Seq({v \in VisitedIn({k}) : v.kind \in Svcs}) : Only(s, K, C) = s
  <2> DEFINE S == {v \in VisitedIn({k}) : v.kind \in Svcs}
  <2>1. \A v \in S : v.kind \in K /\ v.at \in C  BY <1>3
  <2> HIDE DEF S
  <2>2. \A s \in Seq(S) : Only(s, K, C) = s  BY <2>1, OnlyAll
  <2> QED  BY <2>2 DEF S
<1> QED  BY <1>1, <1>4, <1>5, <1>6, <1>7 DEF C

\* From p to q a visitor that collects has seen a, and changes of entities, whichever.
Sees(p, q, a) ==
  p.collecting /\ q.result = "ok" =>
    \E e \in Seq(Visited) : q.log = p.log \o e /\ CommandsOf(e) = a

\* Changes alone, and what is known in full.
LEMMA AddsSees ==
  ASSUME NEW p, NEW q, Adds(p, q) PROVE Sees(p, q, <<>>)
<1> SUFFICES ASSUME p.collecting, q.result = "ok"
             PROVE  \E e \in Seq(Visited) : q.log = p.log \o e /\ CommandsOf(e) = <<>>
  BY DEF Sees
<1>1. PICK e \in Seq(Changed) : q.log = p.log \o e  BY DEF Adds
<1>2. e \in Seq(Visited) /\ CommandsOf(e) = <<>>  BY ChangedFacts, CommandsOfFacts
<1> QED  BY <1>1, <1>2

LEMMA WritesSees ==
  ASSUME NEW p, NEW q, NEW a \in Seq(Visited), Writes(p, q, a) PROVE Sees(p, q, CommandsOf(a))
BY DEF Writes, Sees

\* One handler after another.
LEMMA SeesTransitive ==
  ASSUME NEW p \in Parsers, NEW q \in Parsers, NEW r \in Parsers, q.collecting = p.collecting,
         NEW a, NEW b, Sees(p, q, a), Sees(q, r, b), q.result = "error" => r = q
  PROVE  Sees(p, r, a \o b)
<1> SUFFICES ASSUME p.collecting, r.result = "ok"
             PROVE  \E e \in Seq(Visited) : r.log = p.log \o e /\ CommandsOf(e) = a \o b
  BY DEF Sees
<1>1. q.result = "ok" /\ q.collecting  BY DEF Parsers
<1>2. PICK d \in Seq(Visited) : q.log = p.log \o d /\ CommandsOf(d) = a  BY <1>1 DEF Sees
<1>3. PICK e \in Seq(Visited) : r.log = q.log \o e /\ CommandsOf(e) = b  BY <1>1 DEF Sees
<1> DEFINE x == p.log
<1>4. x \in Seq(Visited)  BY DEF Parsers
<1>5. r.log = (x \o d) \o e  BY <1>2, <1>3
<1> HIDE DEF x
<1>6. (x \o d) \o e = x \o (d \o e)  BY SMTT(60), <1>4, ConcatAssociative
<1>7. d \o e \in Seq(Visited)  OBVIOUS
<1>8. CommandsOf(d \o e) = CommandsOf(d) \o CommandsOf(e)  BY CommandsOfFacts
<1> QED  BY <1>2, <1>3, <1>5, <1>6, <1>7, <1>8 DEF x

\* A message shows itself, and what it changes.
LEMMA MessageSees ==
  ASSUME RecordingInv, NEW k \in 1..Len(demo), NEW p \in Parsers, p.pos = k, NEW m \in Messages,
         NEW q, q = HandleMessage(p, m), NEW v, v = CallbackAt(k, m.msg)
  PROVE  Sees(p, q, <<v>>) /\ v \in Visited
<1>0. v \in {u \in VisitedIn({k}) : u.kind \in Svcs} /\ v \in Visited /\ k \in DOMAIN demo
  <2>1. m.msg \in Svcs /\ v \in VisitedIn({k})  BY SvcFacts, CallbackFacts
  <2>2. v.kind = m.msg  BY DEF CallbackAt
  <2>3. k \in DOMAIN demo  BY DEF RecordingInv, Recorded
  <2> QED  BY <2>1, <2>2, <2>3 DEF VisitedIn
<1>1. CASE p.result # "ok"
  <2>1. p.result = "error"  BY <1>1 DEF Parsers
  <2>2. q = p  BY <2>1, LeftOut
  <2> QED  BY <1>0, <1>1, <2>2 DEF Sees
<1>2. CASE p.result = "ok"
  <2> DEFINE kind == m.msg
             n == 0
  <2>1. kind \in Callbacks /\ n \in Nat /\ NoEntity \in Entity  BY IndexFacts, SvcFacts
  <2>2. PICK r \in Parsers : /\ r = on_packet(p, m) /\ q = MatchMessage(r, m) /\ Handles(p, r)
                             /\ (r.result = "error" => q = r)
    BY <1>2, MessageIs
  <2>3. r = Visit(p, kind, n, NoEntity)  BY <2>2 DEF on_packet
  <2>4. v = [at |-> p.pos, kind |-> kind, index |-> n, entity |-> NoEntity]  BY DEF CallbackAt
  <2> HIDE DEF kind, n
  <2>5. Writes(p, r, <<v>>)  BY <1>2, <2>1, <2>3, <2>4, VisitWrites
  <2>6. <<v>> \in Seq(Visited) /\ CommandsOf(<<v>>) = <<v>>
    <3> DEFINE S == {u \in VisitedIn({k}) : u.kind \in Svcs}
               s == <<v>>
    <3>1. s \in Seq(S) /\ s \in Seq(Visited)
      <4> HIDE DEF S
      <4>1. v \in S  BY <1>0 DEF S
      <4> QED  BY <1>0, <4>1
    <3> HIDE DEF s
    <3>2. CommandsOf(s) = s  BY <1>0, <3>1, CommandsOfFacts
    <3> QED  BY <3>1, <3>2 DEF s
  <2>7. Sees(p, r, <<v>>)
    <3> DEFINE s == <<v>>
    <3>1. s \in Seq(Visited) /\ CommandsOf(s) = s /\ Writes(p, r, s)  BY <2>5, <2>6
    <3> HIDE DEF s
    <3>2. Sees(p, r, CommandsOf(s))  BY <3>1, WritesSees
    <3>3. Sees(p, r, s)  BY <3>1, <3>2
    <3> QED  BY <3>3 DEF s
  <2>8. Sees(r, q, <<>>)
    <3>1. CASE r.result = "ok"  BY <2>2, <3>1, MatchAdds, AddsSees
    <3>2. CASE r.result # "ok"
      <4>1. q = r  BY <2>2, <3>2 DEF Parsers
      <4> QED  BY <3>2, <4>1 DEF Sees
    <3> QED  BY <3>1, <3>2
  <2>9. q \in Parsers /\ r.collecting = p.collecting  BY <2>2, MatchFacts DEF Handles, Same
  <2>10. Sees(p, q, <<v>> \o <<>>)  BY <2>2, <2>7, <2>8, <2>9, SeesTransitive
  <2>11. <<v>> \o <<>> = <<v>>
    <3> DEFINE s == <<v>>
    <3>1. s \in Seq(Visited)  BY <2>6
    <3> HIDE DEF s
    <3>2. s \o <<>> = s  BY <3>1, ConcatEmptySeq
    <3> QED  BY <3>2 DEF s
  <2>12. Sees(p, q, <<v>>)  BY <2>10, <2>11
  <2> QED  BY <1>0, <2>12
<1> QED  BY <1>1, <1>2

\* The callbacks of some of a packet's messages.
Announced(k, messages, n) == [i \in 1..n |-> CallbackAt(k, messages[i].msg)]

LEMMA AnnouncedFacts ==
  ASSUME RecordingInv, NEW k \in 1..Len(demo), NEW messages \in Seq(Messages)
  PROVE  /\ Announced(k, messages, 0) = <<>>
         /\ \A n \in 1..Len(messages) :
              Announced(k, messages, n) =
                Announced(k, messages, n - 1) \o <<CallbackAt(k, messages[n].msg)>>
<1>1. Announced(k, messages, 0) = <<>>
  <2> DEFINE s == Announced(k, messages, 0)
  <2>1. s = [i \in 1..0 |-> CallbackAt(k, messages[i].msg)]  BY DEF Announced
  <2>2. 1..0 = {}  OBVIOUS
  <2> QED  BY <2>1, <2>2
<1>2. ASSUME NEW n \in 1..Len(messages)
      PROVE  Announced(k, messages, n) =
               Announced(k, messages, n - 1) \o <<CallbackAt(k, messages[n].msg)>>
  <2> DEFINE j == n - 1
             s == Announced(k, messages, n)
             t == Announced(k, messages, j)
             v == CallbackAt(k, messages[n].msg)
             w == <<v>>
             At(i) == CallbackAt(k, messages[i].msg)
  <2>1. n \in Nat /\ j \in Nat /\ n = j + 1 /\ n \in 1..n /\ Len(messages) \in Nat  OBVIOUS
  <2>2. ASSUME NEW i \in 1..n PROVE At(i) \in Visited
    <3>1. i \in 1..Len(messages)  BY <2>1
    <3>2. messages[i] \in Messages  BY <3>1, ElementOfSeq
    <3>3. CallbackAt(k, messages[i].msg) \in VisitedIn({k})  BY <3>2, SvcFacts, CallbackFacts
    <3> QED  BY <3>3 DEF VisitedIn
  <2>3. s = [i \in 1..n |-> At(i)] /\ t = [i \in 1..j |-> At(i)] /\ v = At(n)  BY DEF Announced
  <2> HIDE DEF s, t, v, j, At
  <2>4. \A i \in 1..j : i \in 1..n  BY <2>1
  <2>5. s \in Seq(Visited) /\ t \in Seq(Visited)
    <3>1. [i \in 1..n |-> At(i)] \in Seq(Visited)  BY <2>1, <2>2, IsASeq
    <3>2. [i \in 1..j |-> At(i)] \in Seq(Visited)  BY <2>1, <2>2, <2>4, IsASeq
    <3> QED  BY <2>3, <3>1, <3>2
  <2>6. Len(s) = n /\ Len(t) = j
    <3>1. DOMAIN s = 1..n /\ DOMAIN t = 1..j  BY <2>3
    <3> QED  BY <2>1, <2>5, <3>1
  <2>7. w \in Seq(Visited) /\ Len(w) = 1 /\ w[1] = v
    <3>1. v \in Visited  BY <2>1, <2>2, <2>3
    <3> QED  BY <3>1
  <2> HIDE DEF w
  <2> DEFINE u == t \o w
  <2>8. /\ u \in Seq(Visited) /\ Len(u) = j + 1
        /\ \A i \in 1..j + 1 : u[i] = IF i <= j THEN t[i] ELSE w[i - j]
    <3>1. /\ u \in Seq(Visited) /\ Len(u) = Len(t) + Len(w)
          /\ \A i \in 1..Len(t) + Len(w) : u[i] = IF i <= Len(t) THEN t[i] ELSE w[i - Len(t)]
      BY Zenon, <2>5, <2>7, ConcatProperties
    <3> HIDE DEF u
    <3> QED  BY <2>6, <2>7, <3>1
  <2> HIDE DEF u
  <2>9. ASSUME NEW i \in 1..n PROVE s[i] = u[i]
    <3>1. i \in 1..j + 1  BY <2>1
    <3>2. CASE i <= j
      <4>1. i \in 1..j  BY <2>1, <3>2
      <4>2. t[i] = At(i) /\ s[i] = At(i)  BY <2>3, <4>1
      <4> QED  BY <2>8, <3>1, <3>2, <4>2
    <3>3. CASE ~(i <= j)
      <4>1. i = n /\ i - j = 1  BY <2>1, <3>3
      <4>2. u[i] = w[i - j]  BY <2>8, <3>1, <3>3
      <4>3. s[n] = At(n)  BY <2>1, <2>3
      <4> QED  BY <2>3, <2>7, <4>1, <4>2, <4>3
    <3> QED  BY <3>2, <3>3
  <2>10. s = u
    <3>1. Len(s) = Len(u) /\ \A i \in 1..Len(s) : s[i] = u[i]  BY <2>1, <2>6, <2>8, <2>9
    <3> QED  BY <2>5, <2>8, <3>1, SeqEqual
  <2> QED  BY <2>10 DEF s, t, u, v, w, j
<1> QED  BY <1>1, <1>2

\* From p to r the callbacks a were seen, and changes of entities.
HasSeen(p, r, a) == Handles(p, r) /\ Sees(p, r, a)

\* A packet shows its messages.
LEMMA PacketSees ==
  ASSUME RecordingInv, NEW k \in 1..Len(demo), NEW p \in Parsers, p.pos = k,
         NEW messages \in Seq(Messages), NEW q, q = handle_cmd_packet(p, messages)
  PROVE  Sees(p, q, [i \in DOMAIN messages |-> CallbackAt(k, messages[i].msg)])
<1> DEFINE N == Len(messages)
           W(n) == Announced(k, messages, n)
<1>1. N \in Nat /\ DOMAIN messages = 1..N  OBVIOUS
<1>2. PICK h : /\ h[0] = p /\ q = h[N]
               /\ \A i \in 1..N : h[i] = HandleMessage(h[i - 1], messages[i])
  <2> HIDE DEF N
  <2> QED  BY <1>1, MessageTurns
<1>w. W(0) = <<>> /\ \A n \in 1..N : W(n) = W(n - 1) \o <<CallbackAt(k, messages[n].msg)>>
  BY AnnouncedFacts
<1> DEFINE S == {n \in Nat : n \in 0..N => HasSeen(p, h[n], W(n))}
<1>3. 0 \in S
  <2>1. Adds(p, p)  BY AddsNothing
  <2>2. HasSeen(p, p, <<>>)  BY <2>1, HandlesItself, AddsSees DEF HasSeen
  <2> HIDE DEF W
  <2> QED  BY <1>2, <1>w, <2>2
<1>4. ASSUME NEW n \in 0 + 1..N, n - 1 \in S PROVE n \in S
  <2> DEFINE x == h[n - 1]
             y == h[n]
             e == messages[n]
             v == CallbackAt(k, e.msg)
             a == W(n - 1)
             b == W(n)
  <2>1. n \in 1..N /\ n - 1 \in 0..N /\ n \in Nat  BY <1>1
  <2>2. HasSeen(p, x, a)  BY <1>4, <2>1
  <2>3. y = HandleMessage(x, e)  BY <1>2, <2>1
  <2>4. e \in Messages  BY <1>1, <2>1, ElementOfSeq
  <2>v. b = a \o <<v>>  BY <1>w, <2>1
  <2> HIDE DEF x, y, e, a, b
  <2>5. x \in Parsers /\ Handles(p, x) /\ Sees(p, x, a) /\ x.collecting = p.collecting /\ x.pos = k
    BY <2>2 DEF HasSeen, Handles, Same
  <2>6. Handles(x, y)  BY <2>3, <2>4, <2>5, MessageFacts
  <2>7. Sees(x, y, <<v>>)
    <3>1. v = CallbackAt(k, e.msg)  OBVIOUS
    <3> HIDE DEF v
    <3> QED  BY <2>3, <2>4, <2>5, <3>1, MessageSees
  <2> HIDE DEF v
  <2>8. Handles(p, y)  BY <2>5, <2>6, HandlesTransitive
  <2>9. y \in Parsers /\ (x.result = "error" => y = x)  BY <2>6 DEF Handles
  <2>10. Sees(p, y, a \o <<v>>)  BY <2>5, <2>7, <2>9, SeesTransitive
  <2>11. HasSeen(p, y, b)  BY <2>8, <2>10, <2>v DEF HasSeen
  <2> QED  BY <2>1, <2>11 DEF y, b
<1> HIDE DEF S
<1>5. \A n \in 0..N : n \in S  BY <1>1, <1>3, <1>4, UpInduction
<1>6. HasSeen(p, h[N], W(N))  BY <1>1, <1>5 DEF S
<1>7. W(N) = [i \in DOMAIN messages |-> CallbackAt(k, messages[i].msg)]  BY <1>1 DEF Announced
<1>8. Sees(p, q, W(N))  BY <1>2, <1>6 DEF HasSeen
<1> QED  BY <1>7, <1>8

\* Any command shows its messages, behind its own callback.
LEMMA HandledSees ==
  ASSUME RecordingInv, NEW k \in 1..Len(demo), NEW p \in Parsers, p.pos = k,
         NEW r, r = on_cmd(p), r.result = "ok", NEW q, q = handle_cmd(p, demo[k])
  PROVE  Sees(r, q, MessagesAt(k))
<1> DEFINE c == demo[k]
           s == c.messages
<1>1. r \in Parsers /\ r.pos = k  BY OnCmdFacts DEF Same
<1>2. c \in Commands /\ s \in Seq(Messages) /\ c.tables \in Partial(Tables, Versions)
  BY CommandFacts DEF Commands
<1>3. MessagesAt(k) = [i \in DOMAIN s |-> CallbackAt(k, s[i].msg)]  BY DEF MessagesAt
<1>4. CASE c.cmd \in {"DemPacket", "DemSignonPacket"}
  <2>1. q = handle_cmd_packet(r, s)  BY <1>4 DEF handle_cmd
  <2> HIDE DEF c, s
  <2>2. Sees(r, q, [i \in DOMAIN s |-> CallbackAt(k, s[i].msg)])  BY <1>1, <1>2, <2>1, PacketSees
  <2> QED  BY <1>3, <2>2
<1>5. CASE c.cmd = "DemFullPacket"
  <2> DEFINE x == handle_cmd_string_tables(r, c.tables)
             a == [i \in DOMAIN s |-> CallbackAt(k, s[i].msg)]
  <2>1. q = IF x.result = "error" THEN x ELSE handle_cmd_packet(x, s)
    BY <1>5 DEF handle_cmd, handle_cmd_full_packet
  <2>2. x \in Parsers /\ x.collecting = r.collecting /\ x.pos = k
    BY <1>1, <1>2, SnapshotFacts DEF Handles, Same
  <2>3. x.log = r.log  BY <1>1, SnapshotLog
  <2> HIDE DEF x, c, s
  <2>4. CASE x.result # "ok"
    <3>1. q = x  BY <2>1, <2>2, <2>4 DEF Parsers
    <3> QED  BY <2>4, <3>1 DEF Sees
  <2>5. CASE x.result = "ok"
    <3>1. q = handle_cmd_packet(x, s)  BY <2>1, <2>5
    <3>2. Sees(x, q, a)  BY <1>2, <2>2, <3>1, PacketSees
    <3>3. Sees(r, q, a)  BY <2>2, <2>3, <3>2 DEF Sees
    <3> QED  BY <1>3, <3>3
  <2> QED  BY <2>4, <2>5
<1>6. CASE c.cmd \notin {"DemPacket", "DemSignonPacket", "DemFullPacket"}
  <2>1. s = <<>> /\ c.cmd \in {"DemSendTables", "DemClassInfo", "DemSyncTick"}
    <3>0. Len(demo) \in Nat  BY DemoAssumption DEF RecordingInv, Recorded
    <3>1. k \in 1..4
      <4>1. k \in 5..Len(demo) => c.cmd \in {"DemPacket", "DemFullPacket"}  BY BodyFacts
      <4> QED  BY <1>6, <3>0, <4>1
    <3>2. demo[k] = Signon[k]  BY <3>1 DEF RecordingInv, Recorded
    <3>3. k = 1 \/ k = 2 \/ k = 3 \/ k = 4  BY <3>1
    <3> QED  BY <1>6, <3>2, <3>3 DEF Signon, Command
  <2>2. MessagesAt(k) = <<>>
    <3>1. DOMAIN s = {}  BY <2>1
    <3> HIDE DEF s
    <3> QED  BY <1>3, <3>1
  <2>3. q.log = r.log
    <3>1. c.cmd = "DemSendTables" => q = [r EXCEPT !.ctx.serializers = TRUE]  BY DEF handle_cmd
    <3>2. c.cmd = "DemClassInfo" => q = handle_class_info(r)  BY DEF handle_cmd
    <3>3. c.cmd = "DemSyncTick" => q = r  BY DEF handle_cmd
    <3> HIDE DEF c
    <3> QED  BY <1>1, <2>1, <3>1, <3>2, <3>3, ClassLog
  <2> QED  BY <1>1, <2>2, <2>3, AddsNothing, AddsSees
<1> QED  BY <1>4, <1>5, <1>6

\* Whatever the context, a command, its messages and the end of its tick are seen.
LEMMA CommandSeen ==
  ASSUME RecordingInv, NEW k \in 1..Len(demo),
         NEW p \in Parsers, p.result = "ok", p.pos = k, p.collecting,
         p.ctx.tick = TickAt(k), p.ctx.prev_tick = TickAt(k - 1),
         NEW q, q = TickEnded(handle_cmd(p, demo[k])), q.result = "ok"
  PROVE  CommandsOf(q.log) = CommandsOf(p.log) \o CommandsOf(RecordedAt(k))
<1> DEFINE r == on_cmd(p)
           s == handle_cmd(p, demo[k])
           a == <<CallbackAt(k, "Cmd")>>
           m == MessagesAt(k)
           b == EventsAt(k)
           d == EndAt(k)
           x == p.log
           Ca == CommandsOf(a)
           Cd == CommandsOf(d)
<1>0. demo[k] \in Commands /\ k \in DOMAIN demo  BY CommandFacts DEF RecordingInv, Recorded
<1>1. r \in Parsers /\ Same(p, r)  BY OnCmdFacts
<1>2. Writes(p, r, a)
  <2>1. Writes(p, r, <<CallbackAt(p.pos, "Cmd")>>)  BY OnCmdWrites
  <2> QED  BY <2>1
<1>3. s \in Parsers /\ Same(p, s)  BY <1>0, HandleCmdFacts DEF Handles
<1>4. r.result = "error" => s = r  BY DEF handle_cmd
<1>5. q \in Parsers /\ Same(s, q) /\ (s.result = "error" => q = s)
  <2> HIDE DEF s
  <2>1. q = TickEnded(s)  BY DEF s
  <2> QED  BY <1>3, <2>1, TickEndedFacts DEF Handles
<1>6. s.result = "ok" /\ r.result = "ok"
  <2> HIDE DEF s, r
  <2>1. s.result = "ok"  BY <1>3, <1>5 DEF Parsers
  <2>2. r.result = "ok"  BY <1>1, <1>4, <2>1 DEF Parsers
  <2> QED  BY <2>1, <2>2
<1>7. Writes(s, q, d)
  <2> HIDE DEF s
  <2>1. q = TickEnded(s)  BY DEF s
  <2>2. s.pos = k /\ s.ctx.tick = TickAt(k) /\ s.ctx.prev_tick = TickAt(k - 1)  BY <1>3 DEF Same
  <2> QED  BY <1>3, <1>6, <2>1, <2>2, TickEndWrites
<1>8. Sees(r, s, m)  BY <1>6, HandledSees
<1>9. RecordedAt(k) = (a \o (m \o b)) \o d  BY RecordedAtIs DEF InsideAt
<1>10. /\ a \in Seq(Visited) /\ m \in Seq(Visited) /\ b \in Seq(Changed) /\ b \in Seq(Visited)
       /\ d \in Seq(Visited) /\ x \in Seq(Visited)
  <2>1. a \in Seq(VisitedIn({k})) /\ b \in Seq(VisitedIn({k}) \cap Changed) /\ d \in Seq(VisitedIn({k}))
    BY EventsAtFacts
  <2>2. m \in Seq(VisitedIn({k}))  BY MessagesAtFacts
  <2>3. VisitedIn({k}) \subseteq Visited /\ VisitedIn({k}) \cap Changed \subseteq Changed
    BY DEF VisitedIn
  <2>4. x \in Seq(Visited)  BY DEF Parsers
  <2> HIDE DEF a, b, d, m, x
  <2>5. a \in Seq(Visited)  BY <2>1, <2>3, SeqOfMore
  <2>6. b \in Seq(Changed)  BY <2>1, <2>3, SeqOfMore
  <2>7. d \in Seq(Visited)  BY <2>1, <2>3, SeqOfMore
  <2>8. m \in Seq(Visited)  BY <2>2, <2>3, SeqOfMore
  <2>9. b \in Seq(Visited)  BY <2>6, ChangedFacts
  <2> QED  BY <2>4, <2>5, <2>6, <2>7, <2>8, <2>9
<1>11. CommandsOf(m) = m  BY <1>0, MessagesAtFacts, CommandsOfFacts
<1>12. q.collecting = s.collecting /\ s.collecting = r.collecting /\ r.collecting = p.collecting
  BY <1>1, <1>3, <1>5 DEF Same
<1> HIDE DEF a, b, d, m, r, s
<1>13. Sees(p, r, Ca) /\ Sees(s, q, Cd)  BY <1>2, <1>7, <1>10, WritesSees
<1>14. Sees(p, s, Ca \o m)
  <2>1. r \in Parsers /\ s \in Parsers /\ r.collecting = p.collecting  BY <1>1, <1>3, <1>12
  <2> QED  BY Zenon, <1>4, <1>8, <1>13, <2>1, SeesTransitive
<1> DEFINE Cam == Ca \o m
<1> HIDE DEF Ca, Cd
<1>15. Sees(p, q, Cam \o Cd)
  <2>1. Sees(p, s, Cam)  BY <1>14
  <2> HIDE DEF Cam
  <2>2. s \in Parsers /\ q \in Parsers /\ s.collecting = p.collecting  BY <1>3, <1>5, <1>12
  <2>3. s.result = "error" => q = s  BY <1>5
  <2> QED  BY Zenon, <1>13, <2>1, <2>2, <2>3, SeesTransitive
<1>16. PICK e \in Seq(Visited) : q.log = x \o e /\ CommandsOf(e) = Cam \o Cd  BY <1>15 DEF Sees
<1> HIDE DEF x
<1>17. CommandsOf(q.log) = CommandsOf(x) \o CommandsOf(e)
  <2>1. x \in Seq(Visited) /\ e \in Seq(Visited)  BY <1>10
  <2>2. CommandsOf(x \o e) = CommandsOf(x) \o CommandsOf(e)  BY <2>1, CommandsOfFacts
  <2> QED  BY <1>16, <2>2
<1>18. CommandsOf(RecordedAt(k)) = Cam \o Cd
  <2> DEFINE mb == m \o b
             amb == a \o mb
  <2>1. mb \in Seq(Visited)  BY <1>10
  <2>2. CommandsOf(mb) = m
    <3>1. CommandsOf(mb) = CommandsOf(m) \o CommandsOf(b)  BY <1>10, CommandsOfFacts
    <3>2. CommandsOf(b) = <<>>  BY <1>10, CommandsOfFacts
    <3>3. m \o <<>> = m  BY <1>10, ConcatEmptySeq
    <3> QED  BY <1>11, <3>1, <3>2, <3>3
  <2> HIDE DEF mb
  <2>3. amb \in Seq(Visited)  BY <1>10, <2>1
  <2>4. CommandsOf(amb) = Cam  BY <1>10, <2>1, <2>2, CommandsOfFacts DEF Ca
  <2>5. RecordedAt(k) = amb \o d  BY <1>9 DEF mb
  <2> HIDE DEF amb
  <2>6. CommandsOf(amb \o d) = CommandsOf(amb) \o CommandsOf(d)  BY <1>10, <2>3, CommandsOfFacts
  <2> QED  BY <2>4, <2>5, <2>6 DEF Cd
<1> QED  BY <1>16, <1>17, <1>18 DEF x

------------------------------------------------------------------------------
(* Runs, and what they show.                                               *)

\* A turn of a run to the end: the next command is read and handled, behind a clearing of
\* the entities or not.
Handled(p, q, k) ==
  \E r, x : /\ r = ReadHeader(p, k) /\ (x = r \/ x = ClearFor(r, demo[k]))
            /\ q = TickEnded(handle_cmd(x, demo[k]))

\* What such a turn shows: all of the command if the context is as it should be, and at
\* least the command itself and the end of its tick.
VisitsCommand(p, q, k) ==
  /\ q \in Parsers /\ q.pos = k /\ q.ctx.tick = TickAt(k)
  /\ q.collecting = p.collecting /\ ~q.skip_entity_packets
  /\ ToldInv /\ ~BaselineMayChange /\ Reached(p.ctx, k - 1) => Writes(p, q, RecordedAt(k))
  /\ p.collecting /\ q.result = "ok" =>
       CommandsOf(q.log) = CommandsOf(p.log) \o CommandsOf(RecordedAt(k))

\* Two parsers that have seen the same, and the turns that follow.
LEMMA SameLogWrites ==
  ASSUME NEW p, NEW x, x.log = p.log, x.collecting = p.collecting, NEW q, NEW a, Writes(x, q, a)
  PROVE  Writes(p, q, a)
BY DEF Writes

\* A command that is read, its entities cleared if they are, is ready to be handled.
LEMMA ReadAndCleared ==
  ASSUME RecordingInv, NEW k \in 1..Len(demo),
         NEW p \in Parsers, p.result = "ok", ~p.skip_entity_packets,
         NEW r, r = ReadHeader(p, k), NEW x, x = r \/ x = ClearFor(r, demo[k])
  PROVE  /\ x \in Parsers /\ x.result = "ok" /\ x.pos = k /\ ~x.skip_entity_packets
         /\ x.log = p.log /\ x.collecting = p.collecting
         /\ x.ctx.tick = TickAt(k) /\ x.ctx.prev_tick = p.ctx.tick
         /\ Ready(p.ctx, k - 1) => Ready(x.ctx, k - 1)
         /\ Ready(p.ctx, k - 1) /\ Follows(p.ctx, k - 1) => Shows(x.ctx, k)
<1>1. /\ r \in Parsers /\ r.pos = k /\ r.result = p.result
      /\ r.skip_entity_packets = p.skip_entity_packets /\ r.collecting = p.collecting
      /\ r.ctx.tick = TickAt(k) /\ r.ctx.prev_tick = p.ctx.tick /\ Retimed(p.ctx, r.ctx)
  BY ReadingFacts
<1>2. r.log = p.log  BY OutsideLog
<1> DEFINE j == k - 1
           c == p.ctx
           d == r.ctx
           e == x.ctx
<1>3. (Ready(c, j) => Ready(d, j)) /\ (Follows(c, j) => Follows(d, j))
  <2>1. Retimed(c, d)  BY <1>1
  <2> HIDE DEF c, d, j
  <2> QED  BY <2>1, RetimedFacts
<1>4. CASE x = r
  <2>1. e = d  BY <1>4
  <2> QED  BY <1>1, <1>2, <1>3, <1>4, <2>1 DEF Shows
<1>5. CASE x # r
  <2>1. x = ClearFor(r, demo[k])  BY <1>5
  <2>2. /\ x \in Parsers /\ Same(r, x) /\ x.result = r.result
        /\ e = IF demo[k].cmd = "DemFullPacket" THEN Emptied(d) ELSE d
    BY ZenonT(60), <1>1, <2>1, ClearFacts
  <2>3. x.log = r.log  BY <1>1, <2>1, OutsideLog
  <2>4. IsFullPacket(k)  BY <1>5, <2>1 DEF ClearFor, IsFullPacket
  <2>5. k >= 5
    <3>1. k \notin 1..4  BY <2>4, SignonFacts DEF RecordingInv, Recorded, IsFullPacket
    <3> QED  BY <3>1, DemoAssumption DEF RecordingInv, Recorded
  <2>6. Shows(e, k)  BY <2>4, <2>5 DEF Shows
  <2>7. Ready(d, j) => Ready(e, j)
    <3>1. d \in Contexts  BY <1>1 DEF Parsers
    <3>2. e = Emptied(d)  BY <2>2, <2>4 DEF IsFullPacket
    <3> HIDE DEF d, e, j
    <3>3. SameSetup(d, e)  BY <3>1, <3>2 DEF Emptied, Contexts, SameSetup
    <3> QED  BY <3>3 DEF Ready, SameSetup
  <2> QED  BY <1>1, <1>2, <1>3, <2>2, <2>3, <2>6, <2>7 DEF Same
<1> QED  BY <1>4, <1>5

\* A turn of a run to the end shows what it should.
LEMMA HandledVisits ==
  ASSUME RecordingInv, NEW k \in 1..Len(demo),
         NEW p \in Parsers, p.result = "ok", ~p.skip_entity_packets, p.ctx.tick = TickAt(k - 1),
         NEW q, Handled(p, q, k)
  PROVE  VisitsCommand(p, q, k)
<1>1. PICK r, x : /\ r = ReadHeader(p, k) /\ (x = r \/ x = ClearFor(r, demo[k]))
                  /\ q = TickEnded(handle_cmd(x, demo[k]))
  BY DEF Handled
<1>2. /\ x \in Parsers /\ x.result = "ok" /\ x.pos = k /\ ~x.skip_entity_packets
      /\ x.log = p.log /\ x.collecting = p.collecting
      /\ x.ctx.tick = TickAt(k) /\ x.ctx.prev_tick = TickAt(k - 1)
      /\ Ready(p.ctx, k - 1) => Ready(x.ctx, k - 1)
      /\ Ready(p.ctx, k - 1) /\ Follows(p.ctx, k - 1) => Shows(x.ctx, k)
  BY <1>1, ReadAndCleared
<1>3. Handles(x, q)
  <2> DEFINE y == handle_cmd(x, demo[k])
  <2>1. demo[k] \in Commands  BY CommandFacts
  <2>2. Handles(x, y)  BY <1>2, <2>1, HandleCmdFacts
  <2>3. q = TickEnded(y)  BY <1>1
  <2> HIDE DEF y
  <2>4. Handles(y, q)  BY <2>2, <2>3, TickEndedFacts DEF Handles
  <2> QED  BY <2>2, <2>4, HandlesTransitive
<1>4. /\ q \in Parsers /\ q.pos = k /\ q.ctx.tick = TickAt(k)
      /\ q.collecting = p.collecting /\ ~q.skip_entity_packets
  BY <1>2, <1>3 DEF Handles, Same
<1>5. q = TickEnded(handle_cmd(x, demo[k]))  BY <1>1
<1>6. ASSUME ToldInv, ~BaselineMayChange, Reached(p.ctx, k - 1) PROVE Writes(p, q, RecordedAt(k))
  <2>1. Ready(p.ctx, k - 1) /\ Follows(p.ctx, k - 1)
    <3> DEFINE j == k - 1
    <3>1. Reached(p.ctx, j)  BY <1>6
    <3> HIDE DEF j
    <3>2. Ready(p.ctx, j) /\ Follows(p.ctx, j)  BY <1>6, <3>1 DEF Reached
    <3> QED  BY <3>2 DEF j
  <2>2. Writes(x, q, RecordedAt(k))  BY <1>2, <1>5, <1>6, <2>1, CommandWrites
  <2> QED  BY <1>2, <2>2, SameLogWrites
<1>7. ASSUME p.collecting, q.result = "ok"
      PROVE  CommandsOf(q.log) = CommandsOf(p.log) \o CommandsOf(RecordedAt(k))
  <2>1. x.collecting  BY <1>2, <1>7
  <2>2. CommandsOf(q.log) = CommandsOf(x.log) \o CommandsOf(RecordedAt(k))
    BY <1>2, <1>5, <1>7, <2>1, CommandSeen
  <2> QED  BY <1>2, <2>2
<1> QED  BY <1>4, <1>6, <1>7 DEF VisitsCommand

\* g[k] is the parser behind command k of a run from p to the end, which is left at q.
ToTheEnd(g, p, q) ==
  /\ g[p.pos] = Restarted(p) /\ q = g[Len(demo)]
  /\ \A k \in p.pos + 1..Len(demo) :
       /\ g[k - 1].result = "error" => g[k] = g[k - 1]
       /\ g[k - 1].result = "ok" => Handled(g[k - 1], g[k], k)

\* run_to_end handles every command.
LEMMA EndTurnHandles ==
  ASSUME RecordingInv, NEW s \in LoopStates, s.l \in EndLocals, s.flow # "Break",
         s.p.result = "ok", NEW k \in 1..Len(demo), NEW t, t = RunCommand(s, k)
  PROVE  t \in LoopStates /\ t.l \in EndLocals /\ t.flow # "Break" /\ Handled(s.p, t.p, k)
<1>1. PICK r, u, h : Turn(s, k, t, r, u, h)  BY RunTurn
<1>2. /\ r = ReadHeader(s.p, k)
      /\ u \in LoopStates /\ u.p = r /\ u.l = s.l /\ h = Handler(u, demo[k])
      /\ t \in LoopStates /\ t.l = h.l /\ t.flow = h.flow
      /\ h.flow = "Handle" => t.p = TickEnded(handle_cmd(h.p, demo[k]))
  BY <1>1 DEF Turn
<1>3. h.p = r /\ h.l = s.l /\ h.flow = "Handle"
  <2>1. u.l.run = "run_to_end"  BY <1>2 DEF EndLocals
  <2>2. h = [u EXCEPT !.flow = "Handle"]  BY <1>2, <2>1 DEF Handler
  <2> QED  BY <1>2, <2>2 DEF LoopStates
<1>4. t.p = TickEnded(handle_cmd(r, demo[k]))  BY <1>2, <1>3
<1> QED  BY <1>2, <1>3, <1>4 DEF Handled

\* run_to_end goes on to the end, unless a callback fails.
LEMMA EndRunIs ==
  ASSUME RecordingInv, NEW p \in Parsers, p.pos \in 0..Len(demo),
         NEW l \in EndLocals, NEW q, q = run_seekable(p, l)
  PROVE  \E g : ToTheEnd(g, p, q)
<1> DEFINE N == Len(demo)
           a == p.pos
           Good(s) == s \in LoopStates /\ s.l \in EndLocals /\ s.flow # "Break"
<1>1. N \in Nat /\ a \in Nat /\ a <= N  BY DemoAssumption DEF RecordingInv, Recorded
<1>2. PICK h : /\ h[a] = Started(p, l) /\ q = h[N].p
               /\ \A k \in a + 1..N : h[k] = RunCommand(h[k - 1], k)
  BY <1>1, RunSeekable
<1> DEFINE S == {k \in Nat : Good(h[k])}
<1>3. a \in S /\ h[a].p = Restarted(p)
  <2> DEFINE s == Started(p, l)
  <2>1. s \in LoopStates /\ s.flow = "Handle" /\ s.l = l /\ s.p = Restarted(p)
    BY StartedFacts
  <2> HIDE DEF s
  <2>2. Good(s)  BY <2>1
  <2>3. h[a] = s  BY <1>2 DEF s
  <2> QED  BY <1>1, <2>1, <2>2, <2>3
<1>4. ASSUME NEW k \in a + 1..N, Good(h[k - 1])
      PROVE  /\ Good(h[k])
             /\ h[k - 1].p.result = "error" => h[k].p = h[k - 1].p
             /\ h[k - 1].p.result = "ok" => Handled(h[k - 1].p, h[k].p, k)
  <2>1. k \in 1..N  BY <1>1
  <2> DEFINE s == h[k - 1]
             t == h[k]
  <2>2. t = RunCommand(s, k) /\ Good(s)  BY <1>2, <1>4
  <2> HIDE DEF s, t, a
  <2>3. s.p.result \in {"ok", "error"}  BY <2>2 DEF LoopStates, Parsers
  <2>4. CASE s.p.result = "error"
    <3>1. t = s  BY <2>2, <2>4 DEF RunCommand
    <3> QED  BY <2>2, <2>4, <3>1 DEF s, t
  <2>5. CASE s.p.result = "ok"
    <3>1. t \in LoopStates /\ t.l \in EndLocals /\ t.flow # "Break" /\ Handled(s.p, t.p, k)
      BY <2>1, <2>2, <2>5, EndTurnHandles
    <3> QED  BY <2>5, <3>1 DEF s, t
  <2> QED  BY <2>3, <2>4, <2>5
<1>5. \A k \in a + 1..N : k - 1 \in S => k \in S
  <2> SUFFICES ASSUME NEW k \in a + 1..N, k - 1 \in S PROVE k \in S  OBVIOUS
  <2>1. Good(h[k - 1]) /\ k \in Nat  BY <1>1
  <2> HIDE DEF Good
  <2> QED  BY <1>4, <2>1
<1>6. \A k \in a..N : k \in S
  <2> HIDE DEF S, a, N
  <2> QED  BY <1>1, <1>3, <1>5, UpInduction
<1> DEFINE g == [k \in a..N |-> h[k].p]
<1>7. g[a] = Restarted(p) /\ q = g[N]
  <2>1. a \in a..N /\ N \in a..N  BY <1>1
  <2> QED  BY <1>2, <1>3, <2>1
<1>8. ASSUME NEW k \in a + 1..N
      PROVE  /\ g[k - 1].result = "error" => g[k] = g[k - 1]
             /\ g[k - 1].result = "ok" => Handled(g[k - 1], g[k], k)
  <2>1. k \in a..N /\ k - 1 \in a..N  BY <1>1
  <2>2. Good(h[k - 1])  BY <1>6, <2>1
  <2>3. g[k] = h[k].p /\ g[k - 1] = h[k - 1].p  BY <2>1
  <2> HIDE DEF g, Good
  <2> QED  BY <1>4, <2>2, <2>3
<1> HIDE DEF g
<1>9. ToTheEnd(g, p, q)  BY <1>7, <1>8 DEF ToTheEnd
<1> QED  BY <1>9

\* So do the two runs of the stream's parser.
LEMMA AsyncRunToTheEnd ==
  ASSUME RecordingInv, NEW p \in Parsers, p.pos \in 0..Len(demo), ~p.skip_entity_packets,
         NEW clears \in BOOLEAN, NEW q, q = run_internal(p, clears)
  PROVE  \E g : ToTheEnd(g, p, q)
<1> DEFINE N == Len(demo)
           a == p.pos
           b == AsyncStarted(p, clears)
           Good(s) == s \in AsyncStates /\ ~s.p.skip_entity_packets
<1>1. N \in Nat /\ a \in Nat /\ a <= N  BY DemoAssumption DEF RecordingInv, Recorded
<1>2. PICK h : /\ h[a] = b /\ q = h[N].p
               /\ \A k \in a + 1..N : h[k] = AsyncCommand(h[k - 1], k)
  BY <1>1, RunInternal
<1> DEFINE S == {k \in Nat : Good(h[k])}
<1>3. a \in S /\ h[a].p = Restarted(p)
  <2>1. b \in AsyncStates /\ ~b.p.skip_entity_packets /\ b.p = Restarted(p)
    BY DEF AsyncStarted, AsyncStates, Restarted, Parsers
  <2> HIDE DEF b
  <2>2. Good(b)  BY <2>1
  <2> QED  BY <1>1, <1>2, <2>1, <2>2
<1>4. ASSUME NEW k \in a + 1..N, Good(h[k - 1])
      PROVE  /\ Good(h[k])
             /\ h[k - 1].p.result = "error" => h[k].p = h[k - 1].p
             /\ h[k - 1].p.result = "ok" => Handled(h[k - 1].p, h[k].p, k)
  <2>1. k \in 1..N  BY <1>1
  <2> DEFINE s == h[k - 1]
             t == h[k]
  <2>2. t = AsyncCommand(s, k) /\ Good(s)  BY <1>2, <1>4
  <2> HIDE DEF s, t, a
  <2>3. s.p.result \in {"ok", "error"}  BY <2>2 DEF AsyncStates, Parsers
  <2>4. CASE s.p.result = "error"
    <3>1. t = s  BY <2>2, <2>4 DEF AsyncCommand
    <3> QED  BY <2>2, <2>4, <3>1 DEF s, t
  <2>5. CASE s.p.result = "ok"
    <3>1. PICK r \in Parsers, x \in Parsers :
            /\ r = ReadHeader(s.p, k)
            /\ x = IF s.reset_on_full_packet THEN ClearFor(r, demo[k]) ELSE r
            /\ ~x.skip_entity_packets /\ t \in AsyncStates
            /\ t.p = TickEnded(handle_cmd(x, demo[k])) /\ Handles(x, t.p)
      BY <2>1, <2>2, <2>5, AsyncCommandFacts
    <3>2. Handled(s.p, t.p, k)
      <4>1. x = r \/ x = ClearFor(r, demo[k])  BY <3>1
      <4> QED  BY <3>1, <4>1 DEF Handled
    <3>3. Good(t)  BY <3>1 DEF Handles, Same
    <3> QED  BY <2>5, <3>2, <3>3 DEF s, t
  <2> QED  BY <2>3, <2>4, <2>5
<1>5. \A k \in a + 1..N : k - 1 \in S => k \in S
  <2> SUFFICES ASSUME NEW k \in a + 1..N, k - 1 \in S PROVE k \in S  OBVIOUS
  <2>1. Good(h[k - 1]) /\ k \in Nat  BY <1>1
  <2> HIDE DEF Good
  <2> QED  BY <1>4, <2>1
<1>6. \A k \in a..N : k \in S
  <2> HIDE DEF S, a, N
  <2> QED  BY <1>1, <1>3, <1>5, UpInduction
<1> DEFINE g == [k \in a..N |-> h[k].p]
<1>7. g[a] = Restarted(p) /\ q = g[N]
  <2>1. a \in a..N /\ N \in a..N  BY <1>1
  <2> QED  BY <1>2, <1>3, <2>1
<1>8. ASSUME NEW k \in a + 1..N
      PROVE  /\ g[k - 1].result = "error" => g[k] = g[k - 1]
             /\ g[k - 1].result = "ok" => Handled(g[k - 1], g[k], k)
  <2>1. k \in a..N /\ k - 1 \in a..N  BY <1>1
  <2>2. Good(h[k - 1])  BY <1>6, <2>1
  <2>3. g[k] = h[k].p /\ g[k - 1] = h[k - 1].p  BY <2>1
  <2> HIDE DEF g, Good
  <2> QED  BY <1>4, <2>2, <2>3
<1> HIDE DEF g
<1>9. ToTheEnd(g, p, q)  BY <1>7, <1>8 DEF ToTheEnd
<1> QED  BY <1>9

\* And such a turn brings the context to the next command.
LEMMA HandledReaches ==
  ASSUME RecordingInv, NEW k \in 1..Len(demo),
         NEW p \in Parsers, p.result = "ok", ~p.skip_entity_packets, Reached(p.ctx, k - 1),
         NEW q, Handled(p, q, k), q.result = "ok"
  PROVE  Reached(q.ctx, k)
<1>1. PICK r, x : /\ r = ReadHeader(p, k) /\ (x = r \/ x = ClearFor(r, demo[k]))
                  /\ q = TickEnded(handle_cmd(x, demo[k]))
  BY DEF Handled
<1> DEFINE c == p.ctx
<1>2. /\ r \in Parsers /\ r.pos = k /\ r.result = p.result
      /\ r.skip_entity_packets = p.skip_entity_packets
      /\ r.ctx.tick = TickAt(k) /\ Retimed(c, r.ctx)
  BY <1>1, ReadingFacts
<1>3. Live(r, k) /\ ~r.skip_entity_packets /\ Reached(c, k - 1)  BY <1>2 DEF Live
<1>4. ~Failed(q)  BY DEF Failed
<1> HIDE DEF c
<1>5. CASE x = r
  <2>1. q = TickEnded(handle_cmd(r, demo[k]))  BY <1>1, <1>5
  <2> QED  BY <1>2, <1>3, <1>4, <2>1, NextReached
<1>6. CASE x = ClearFor(r, demo[k])
  <2>1. q = TickEnded(handle_cmd(x, demo[k]))  BY <1>1
  <2> QED  BY <1>2, <1>3, <1>4, <1>6, <2>1, ClearedFacts
<1> QED  BY <1>1, <1>5, <1>6

\* What a run from p to the end has shown behind command k, x being the parser there: if the
\* context was that of the recording, what is recorded, as far as the run went; and
\* otherwise the commands and the ends of the ticks.
Going(p, x, k) ==
  /\ x \in Parsers /\ ~x.skip_entity_packets /\ x.collecting = p.collecting
  /\ x.ctx.tick = TickAt(x.pos) /\ (x.result = "ok" => x.pos = k)
  /\ ToldInv /\ ~BaselineMayChange /\ Reached(p.ctx, p.pos) =>
       Writes(p, x, RecordedVisits(p.pos, k)) /\ (x.result = "ok" => Reached(x.ctx, k))
  /\ p.collecting /\ x.result = "ok" =>
       CommandsOf(x.log) = CommandsOf(RecordedVisits(p.pos, k))

\* What is recorded of some commands and of one more.
LEMMA NextVisits ==
  ASSUME RecordingInv, NEW a \in 0..Len(demo), NEW k \in a + 1..Len(demo)
  PROVE  /\ RecordedVisits(a, k) = RecordedVisits(a, k - 1) \o RecordedAt(k)
         /\ RecordedVisits(a, k - 1) \in Seq(Visited) /\ RecordedAt(k) \in Seq(Visited)
         /\ CommandsOf(RecordedVisits(a, k)) =
              CommandsOf(RecordedVisits(a, k - 1)) \o CommandsOf(RecordedAt(k))
<1> DEFINE j == k - 1
           N == Len(demo)
<1>0. N \in Nat  BY DemoAssumption DEF RecordingInv, Recorded
<1>1. a \in Nat /\ k \in Nat /\ a < k /\ j \in a..N /\ k \in 1..N  BY <1>0
<1>2. RecordedVisits(a, k) = RecordedVisits(a, k - 1) \o RecordedAt(k)  BY <1>1, VisitsOneMore
<1>3. RecordedVisits(a, j) \in Seq(Visited)
  <2> DEFINE D == a + 1..j
  <2> HIDE DEF N, j
  <2>1. \A y \in a..N : RecordedVisits(a, y) \in Seq(VisitedIn(a + 1..y))
    BY VisitsFacts DEF N
  <2>2. RecordedVisits(a, j) \in Seq(VisitedIn(D))  BY <1>1, <2>1
  <2> HIDE DEF D
  <2>3. VisitedIn(D) \subseteq Visited  BY DEF VisitedIn
  <2> QED  BY <2>2, <2>3, SeqOfMore
<1>4. RecordedAt(k) \in Seq(Visited)
  <2>1. RecordedAt(k) \in Seq(VisitedIn({k}))  BY <1>1, RecordedAtIs
  <2>2. VisitedIn({k}) \subseteq Visited  BY DEF VisitedIn
  <2> QED  BY <2>1, <2>2, SeqOfMore
<1> DEFINE s == RecordedVisits(a, j)
           t == RecordedAt(k)
           K == Callbacks \ Deltas
           C == DOMAIN demo
<1>5. s \in Seq(Visited) /\ t \in Seq(Visited)  BY <1>3, <1>4
<1>6. \A l : CommandsOf(l) = Only(l, K, C)  BY DEF CommandsOf
<1> HIDE DEF s, t, K, C
<1>7. Only(s \o t, K, C) = Only(s, K, C) \o Only(t, K, C)  BY <1>5, OnlyConcat
<1>8. CommandsOf(s \o t) = CommandsOf(s) \o CommandsOf(t)  BY <1>6, <1>7
<1> QED  BY <1>2, <1>3, <1>4, <1>8 DEF s, t, j

\* One turn more.
LEMMA GoingOn ==
  ASSUME RecordingInv, NEW p \in Parsers, p.pos \in 0..Len(demo), NEW k \in p.pos + 1..Len(demo),
         NEW x, Going(p, x, k - 1), NEW y,
         x.result = "error" => y = x, x.result = "ok" => Handled(x, y, k)
  PROVE  Going(p, y, k)
<1> DEFINE a == p.pos
           j == k - 1
           u == RecordedVisits(a, j)
           v == RecordedAt(k)
           w == RecordedVisits(a, k)
           W == ToldInv /\ ~BaselineMayChange /\ Reached(p.ctx, p.pos)
<1>0. k \in 1..Len(demo)  BY DemoAssumption DEF RecordingInv, Recorded
<1>1. /\ w = u \o v /\ u \in Seq(Visited) /\ v \in Seq(Visited)
      /\ CommandsOf(w) = CommandsOf(u) \o CommandsOf(v)
  BY NextVisits
<1>2. /\ x \in Parsers /\ ~x.skip_entity_packets /\ x.collecting = p.collecting
      /\ x.ctx.tick = TickAt(x.pos) /\ (x.result = "ok" => x.pos = j)
      /\ W => Writes(p, x, u) /\ (x.result = "ok" => Reached(x.ctx, j))
      /\ p.collecting /\ x.result = "ok" => CommandsOf(x.log) = CommandsOf(u)
  BY DEF Going
<1>3. x.result \in {"ok", "error"}  BY <1>2 DEF Parsers
<1> HIDE DEF u, v, w
<1>4. CASE x.result = "error"
  <2>1. y = x /\ y.result # "ok"  BY <1>4
  <2>2. W => Writes(p, y, w)
    <3> SUFFICES ASSUME W PROVE Writes(p, y, w)  OBVIOUS
    <3>1. Writes(p, x, u)  BY <1>2
    <3> HIDE DEF W
    <3>2. Writes(p, y, u \o v)  BY <1>1, <1>2, <1>4, <2>1, <3>1, WritesTransitive
    <3> QED  BY <1>1, <3>2
  <2> HIDE DEF W
  <2> QED  BY <1>2, <2>1, <2>2 DEF Going, w, W
<1>5. CASE x.result = "ok"
  <2>1. Handled(x, y, k)  BY <1>5
  <2>2. x.ctx.tick = TickAt(j)  BY <1>2, <1>5
  <2> HIDE DEF j
  <2>2a. VisitsCommand(x, y, k)  BY <1>0, <1>2, <1>5, <2>1, <2>2, HandledVisits DEF j
  <2>3. /\ y \in Parsers /\ y.pos = k /\ y.ctx.tick = TickAt(k)
        /\ y.collecting = x.collecting /\ ~y.skip_entity_packets
        /\ ToldInv /\ ~BaselineMayChange /\ Reached(x.ctx, j) => Writes(x, y, v)
        /\ x.collecting /\ y.result = "ok" => CommandsOf(y.log) = CommandsOf(x.log) \o CommandsOf(v)
    BY Zenon, <2>2a DEF VisitsCommand, v, j
  <2>4. W => Writes(p, y, w) /\ (y.result = "ok" => Reached(y.ctx, k))
    <3> SUFFICES ASSUME W PROVE Writes(p, y, w) /\ (y.result = "ok" => Reached(y.ctx, k))  OBVIOUS
    <3>1. Writes(p, x, u) /\ Reached(x.ctx, j) /\ Writes(x, y, v)  BY <1>2, <1>5, <2>3
    <3> HIDE DEF W
    <3>2. Writes(p, y, u \o v)  BY <1>1, <1>2, <1>5, <2>3, <3>1, WritesTransitive
    <3>3. y.result = "ok" => Reached(y.ctx, k)
      <4>1. Reached(x.ctx, k - 1)  BY <3>1 DEF j
      <4> QED  BY <1>0, <1>2, <1>5, <2>1, <4>1, HandledReaches
    <3> QED  BY <1>1, <3>2, <3>3
  <2>5. p.collecting /\ y.result = "ok" => CommandsOf(y.log) = CommandsOf(w)
    BY <1>1, <1>2, <1>5, <2>3
  <2> HIDE DEF W
  <2> QED  BY <1>2, <2>3, <2>4, <2>5 DEF Going, w, W
<1> QED  BY <1>3, <1>4, <1>5

\* A run to the end shows what is recorded of the rest of the recording.
LEMMA EndVisits ==
  ASSUME RecordingInv, NEW p \in Parsers, p.pos \in 0..Len(demo), ~p.skip_entity_packets,
         p.ctx.tick = TickAt(p.pos), p.log = <<>>, NEW q, NEW g, ToTheEnd(g, p, q)
  PROVE  Going(p, q, Len(demo))
<1> DEFINE N == Len(demo)
           a == p.pos
           b == Restarted(p)
           S == {k \in Nat : Going(p, g[k], k)}
<1>1. N \in Nat /\ a \in Nat /\ a <= N  BY DemoAssumption DEF RecordingInv, Recorded
<1>2. /\ g[a] = b /\ q = g[N]
      /\ \A k \in a + 1..N :
           /\ g[k - 1].result = "error" => g[k] = g[k - 1]
           /\ g[k - 1].result = "ok" => Handled(g[k - 1], g[k], k)
  BY DEF ToTheEnd
<1>3. a \in S
  <2>1. /\ b \in Parsers /\ ~b.skip_entity_packets /\ b.collecting = p.collecting
        /\ b.ctx = p.ctx /\ b.pos = a /\ b.result = "ok" /\ b.log = p.log
    BY DEF Restarted, Parsers
  <2>2. RecordedVisits(a, a) = <<>>  BY <1>1, VisitsEmpty
  <2>3. Writes(p, b, <<>>)  BY <2>1, WritesNothing
  <2> HIDE DEF b
  <2>4. Going(p, b, a)  BY <2>1, <2>2, <2>3 DEF Going
  <2> QED  BY <1>1, <1>2, <2>4
<1>4. ASSUME NEW k \in a + 1..N, k - 1 \in S PROVE k \in S
  <2>1. k \in Nat  BY <1>1
  <2> DEFINE x == g[k - 1]
             y == g[k]
  <2>2. Going(p, x, k - 1)  BY <1>4
  <2>3. (x.result = "error" => y = x) /\ (x.result = "ok" => Handled(x, y, k))  BY <1>2
  <2> HIDE DEF x, y
  <2>4. Going(p, y, k)  BY <2>2, <2>3, GoingOn
  <2> QED  BY <2>1, <2>4 DEF y
<1> HIDE DEF S, a, N
<1>5. \A k \in a..N : k \in S  BY <1>1, <1>3, <1>4, UpInduction
<1>6. N \in S  BY <1>1, <1>5
<1>7. Going(p, g[N], N)  BY <1>6 DEF S
<1> QED  BY <1>2, <1>7 DEF N

\* The tick of the context is that of the position, wherever a turn of any run leaves it.
LEMMA TurnTicks ==
  ASSUME RecordingInv, NEW s \in LoopStates, s.flow # "Break", s.p.result = "ok",
         NEW k \in 1..Len(demo), s.p.ctx.tick = TickAt(k - 1), NEW t, t = RunCommand(s, k)
  PROVE  /\ t \in LoopStates /\ t.p.ctx.tick = TickAt(t.p.pos)
         /\ t.flow # "Break" => t.p.pos = k
<1> DEFINE c == demo[k]
<1>1. PICK r, u, h : Turn(s, k, t, r, u, h)  BY RunTurn
<1>2. /\ r \in Parsers /\ r.result = "ok" /\ r.pos = k
      /\ r.ctx.tick = TickAt(k) /\ r.ctx.prev_tick = TickAt(k - 1)
      /\ u \in LoopStates /\ u.p = r /\ h \in LoopStates /\ h = Handler(u, c)
      /\ t \in LoopStates /\ t.flow = h.flow
      /\ h.flow = "Break" => t.p = UnreadHeader(h.p)
      /\ h.flow = "Handle" => t.p = TickEnded(handle_cmd(h.p, c))
      /\ h.flow \in {"Skip", "Ignore"} => t.p = h.p
  BY <1>1 DEF Turn
<1>3. c \in Commands  BY CommandFacts
<1> HIDE DEF c
<1>4. Stays(r, h.p) /\ (h.flow = "Handle" => h.p.result = "ok")  BY <1>2, <1>3, HandlerFacts
<1> DEFINE y == h.p
           x == t.p
<1>5. /\ y \in Parsers /\ y.pos = k /\ y.ctx.tick = TickAt(k) /\ y.ctx.prev_tick = TickAt(k - 1)
  BY <1>2, <1>4 DEF Stays
<1>6. h.flow \in Flows  BY <1>2 DEF LoopStates
<1>7. CASE h.flow = "Break"
  <2>1. x = UnreadHeader(y)  BY <1>2, <1>7
  <2> HIDE DEF x, y
  <2>2. y.pos >= 1  BY <1>5, DemoAssumption DEF RecordingInv, Recorded
  <2>3. x.pos = y.pos - 1 /\ x.ctx.tick = y.ctx.prev_tick  BY <1>5, <2>1, <2>2, UnreadingFacts
  <2>4. x.ctx.tick = TickAt(x.pos)  BY <1>5, <2>3
  <2> QED  BY <1>2, <1>7, <2>4 DEF x
<1>8. CASE h.flow = "Handle"
  <2> DEFINE z == handle_cmd(y, c)
  <2>1. x = TickEnded(z) /\ y.result = "ok"  BY <1>2, <1>4, <1>8
  <2> HIDE DEF x, y
  <2>2. Handles(y, z)  BY <1>3, <1>5, <2>1, HandleCmdFacts
  <2> HIDE DEF z
  <2>3. Handles(z, x)  BY <2>1, <2>2, TickEndedFacts DEF Handles
  <2>4. x.pos = k /\ x.ctx.tick = TickAt(k)  BY <1>5, <2>2, <2>3 DEF Handles, Same
  <2> QED  BY <1>2, <2>4 DEF x
<1>9. CASE h.flow \in {"Skip", "Ignore"}
  <2>1. x = y  BY <1>2, <1>9
  <2> QED  BY <1>2, <1>5, <2>1
<1> QED  BY <1>6, <1>7, <1>8, <1>9 DEF Flows

\* So any run leaves it.
LEMMA RunTicks ==
  ASSUME RecordingInv, NEW p \in Parsers, p.pos \in 0..Len(demo), p.ctx.tick = TickAt(p.pos),
         NEW l \in EndLocals \cup SeekLocals \cup SegmentLocals, NEW q, q = run_seekable(p, l)
  PROVE  q.ctx.tick = TickAt(q.pos)
<1> DEFINE N == Len(demo)
           a == p.pos
           Good(k, s) == /\ s \in LoopStates /\ s.p.ctx.tick = TickAt(s.p.pos)
                         /\ s.flow # "Break" /\ s.p.result = "ok" => s.p.pos = k
<1>1. N \in Nat /\ a \in Nat /\ a <= N  BY DemoAssumption DEF RecordingInv, Recorded
<1>2. PICK h : /\ h[a] = Started(p, l) /\ q = h[N].p
               /\ \A k \in a + 1..N : h[k] = RunCommand(h[k - 1], k)
  BY <1>1, RunSeekable
<1> DEFINE S == {k \in Nat : Good(k, h[k])}
<1>3. a \in S
  <2> DEFINE s == Started(p, l)
  <2>1. s \in LoopStates /\ s.p.pos = p.pos /\ s.p.ctx = p.ctx
    BY StartedFacts
  <2> HIDE DEF s
  <2>2. Good(a, s)  BY <2>1
  <2>3. h[a] = s  BY <1>2 DEF s
  <2> QED  BY <1>1, <2>2, <2>3
<1>4. ASSUME NEW k \in a + 1..N, k - 1 \in S PROVE k \in S
  <2>1. k \in Nat /\ k \in 1..N  BY <1>1
  <2> DEFINE s == h[k - 1]
             t == h[k]
             j == k - 1
  <2>2. t = RunCommand(s, k) /\ Good(j, s)  BY <1>2, <1>4
  <2>3. s.p.result \in {"ok", "error"}  BY <2>2 DEF LoopStates, Parsers
  <2> HIDE DEF s, t, a
  <2>4. CASE s.flow = "Break" \/ s.p.result = "error"
    <3>1. t = s  BY <2>2, <2>4 DEF RunCommand
    <3>2. Good(k, t)  BY <2>2, <2>4, <3>1
    <3> QED  BY <2>1, <3>2 DEF t
  <2>5. CASE s.flow # "Break" /\ s.p.result = "ok"
    <3>1. s.p.ctx.tick = TickAt(k - 1)  BY <2>2, <2>5
    <3>2. /\ t \in LoopStates /\ t.p.ctx.tick = TickAt(t.p.pos)
          /\ t.flow # "Break" => t.p.pos = k
      BY <2>1, <2>2, <2>5, <3>1, TurnTicks
    <3>3. Good(k, t)  BY <3>2
    <3> QED  BY <2>1, <3>3 DEF t
  <2> QED  BY <2>3, <2>4, <2>5
<1> HIDE DEF S, a, N
<1>5. \A k \in a..N : k \in S  BY <1>1, <1>3, <1>4, UpInduction
<1>6. N \in S  BY <1>1, <1>5
<1> DEFINE s == h[N]
<1>7. Good(N, s)  BY <1>6 DEF S
<1>8. q = s.p  BY <1>2
<1> HIDE DEF s
<1> QED  BY <1>7, <1>8


------------------------------------------------------------------------------
(* What a segment shows.                                                   *)

\* What a run of the segment of full packet o has shown, b telling whether it collects:
\* nothing of what is before the segment, and what is recorded of it so far.
SegmentLog(p, b, o) ==
  p.result = "ok" =>
    /\ p.collecting <=> b
    /\ ~b => p.log = <<>>
    /\ b => SegmentStart(o) \in 0..p.pos /\ p.log = RecordedVisits(SegmentStart(o), p.pos)

\* A command that is handled as the recorder meant it.
LEMMA MeantCommand ==
  ASSUME RecordingInv, ToldInv, NEW k \in 1..Len(demo),
         NEW p \in Parsers, p.result = "ok", p.pos = k, k >= 5 => ~p.skip_entity_packets,
         Ready(p.ctx, k - 1), Shows(p.ctx, k),
         p.ctx.tick = TickAt(k), p.ctx.prev_tick = TickAt(k - 1),
         NEW q, q = TickEnded(handle_cmd(p, demo[k]))
  PROVE  Writes(p, q, RecordedAt(k)) /\ q.collecting = p.collecting /\ q.pos = k
<1>1. Writes(p, q, RecordedAt(k))  BY CommandWrites
<1>2. Handles(p, q)
  <2> DEFINE y == handle_cmd(p, demo[k])
  <2>1. demo[k] \in Commands  BY CommandFacts
  <2>2. Handles(p, y)  BY <2>1, HandleCmdFacts
  <2>3. q = TickEnded(y)  OBVIOUS
  <2> HIDE DEF y
  <2>4. Handles(y, q)  BY <2>2, <2>3, TickEndedFacts DEF Handles
  <2> QED  BY <2>2, <2>4, HandlesTransitive
<1> QED  BY <1>1, <1>2 DEF Handles, Same

\* A command of the segment, or one before it, of which the visitor is told.
LEMMA SegmentLogGoes ==
  ASSUME RecordingInv, NEW k \in 1..Len(demo), NEW o,
         NEW p, p.result = "ok", p.pos = k - 1, NEW b, SegmentLog(p, b, o),
         NEW x, x.log = p.log, x.collecting = p.collecting,
         NEW q, Writes(x, q, RecordedAt(k)), q.collecting = x.collecting, q.pos = k
  PROVE  SegmentLog(q, b, o)
<1> DEFINE a == SegmentStart(o)
           j == k - 1
<1>0. k \in Nat /\ j \in Nat  BY DemoAssumption DEF RecordingInv, Recorded
<1> SUFFICES ASSUME q.result = "ok"
             PROVE  /\ q.collecting <=> b
                    /\ ~b => q.log = <<>>
                    /\ b => a \in 0..k /\ q.log = RecordedVisits(a, k)
  BY DEF SegmentLog
<1>1. /\ p.collecting <=> b
      /\ ~b => p.log = <<>>
      /\ b => a \in 0..j /\ p.log = RecordedVisits(a, j)
  BY DEF SegmentLog
<1>2. (~x.collecting => q.log = x.log) /\ (x.collecting => q.log = x.log \o RecordedAt(k))
  BY DEF Writes
<1>3. b => a \in Nat /\ a < k /\ a \in 0..k
  <2> HIDE DEF a
  <2> QED  BY <1>0, <1>1
<1>4. b => RecordedVisits(a, k) = RecordedVisits(a, k - 1) \o RecordedAt(k)
  <2> SUFFICES ASSUME b PROVE RecordedVisits(a, k) = RecordedVisits(a, k - 1) \o RecordedAt(k)
    OBVIOUS
  <2> HIDE DEF a
  <2> QED  BY <1>0, <1>3, VisitsOneMore
<1> HIDE DEF a
<1> QED  BY <1>1, <1>2, <1>3, <1>4 DEF j

\* The full packet that the segment begins with.
LEMMA SegmentLogBegins ==
  ASSUME RecordingInv, NEW k \in 1..Len(demo), NEW o, o # 0, FullPackets[o + 1] = k,
         NEW x, x.log = <<>>, x.collecting,
         NEW q, Writes(x, q, RecordedAt(k)), q.collecting = x.collecting, q.pos = k, NEW b, b
  PROVE  SegmentLog(q, b, o)
<1> DEFINE j == k - 1
           v == RecordedAt(k)
<1>0. k \in Nat /\ j \in Nat /\ j < k /\ j \in 0..k  BY DemoAssumption DEF RecordingInv, Recorded
<1>1. SegmentStart(o) = j  BY DEF SegmentStart
<1>2. RecordedVisits(j, k) = RecordedVisits(j, k - 1) \o v  BY <1>0, VisitsOneMore
<1>3. RecordedVisits(j, j) = <<>>  BY <1>0, VisitsEmpty
<1>4. v \in Seq(Visited)
  <2>1. RecordedAt(k) \in Seq(VisitedIn({k}))  BY RecordedAtIs
  <2>2. VisitedIn({k}) \subseteq Visited  BY DEF VisitedIn
  <2> QED  BY <2>1, <2>2, SeqOfMore
<1>5. q.result = "ok" => q.log = <<>> \o v  BY DEF Writes
<1> HIDE DEF v
<1>6. RecordedVisits(j, k) = <<>> \o v  BY <1>2, <1>3
<1> HIDE DEF j
<1> QED  BY <1>0, <1>1, <1>5, <1>6 DEF SegmentLog

\* A header that is read, or read and unread, shows nothing.
LEMMA SegmentLogStays ==
  ASSUME RecordingInv, NEW k \in 1..Len(demo), NEW o,
         NEW p, p.result = "ok", p.pos = k - 1, NEW b, SegmentLog(p, b, o),
         NEW q, q.log = p.log, q.collecting = p.collecting,
         q.pos = k - 1 \/ (q.pos = k /\ ~b)
  PROVE  SegmentLog(q, b, o)
<1>1. CASE q.pos = k - 1  BY <1>1 DEF SegmentLog
<1>2. CASE ~b  BY <1>2 DEF SegmentLog
<1> QED  BY <1>1, <1>2

\* One turn of a segment shows what it should.
LEMMA SegmentTurnShows ==
  ASSUME RecordingInv, ToldInv, ~BaselineMayChange,
         NEW o \in Nat, NEW s \in LoopStates, s.l \in SegmentLocals, s.l.ordinal = o,
         NEW k \in 1..Len(demo), Segmenting(s, k - 1, o), NEW b, b = s.l.collecting,
         SegmentLog(s.p, b, o), NEW t, t = RunCommand(s, k), NEW d, d = t.l.collecting
  PROVE  SegmentLog(t.p, d, o) /\ (t.flow = "Break" => d)
<1>1. s.flow # "Break" /\ s.p.result = "ok" /\ s.p.pos = k - 1 /\ s.p.ctx.tick = TickAt(k - 1)
  BY Zenon DEF Segmenting, Live
<1> DEFINE n == s.l.fp_seen
<1>2. PICK r : SegmentMove(s, k, t, r, n, b, o)  BY <1>1, SegmentMoves
<1>3. /\ r \in Parsers /\ r.result = "ok" /\ r.pos = k
      /\ r.log = s.p.log /\ r.collecting = s.p.collecting
      /\ r.skip_entity_packets = s.p.skip_entity_packets
      /\ r.ctx.tick = TickAt(k) /\ r.ctx.prev_tick = TickAt(k - 1) /\ Retimed(s.p.ctx, r.ctx)
  BY <1>1, <1>2 DEF SegmentMove
<1>4. /\ Ready(r.ctx, k - 1) /\ (r.skip_entity_packets <=> ~b)
      /\ k <= 5 \/ b => Follows(r.ctx, k - 1)
  BY <1>3, SegmentReads
<1>5. /\ Seen(n, k - 1) /\ n <= o + 1 /\ (b <=> (o = 0 \/ n = o + 1))
      /\ n \in Nat /\ Len(FullPackets) \in Nat
  <2> DEFINE j == k - 1
  <2>1. Segmenting(s, j, o)  OBVIOUS
  <2> HIDE DEF j
  <2>2. Seen(n, j) /\ n <= o + 1 /\ (b <=> (o = 0 \/ n = o + 1))  BY <2>1 DEF Segmenting
  <2> QED  BY <2>2, FullPacketsAre DEF Seen, j
<1>6. IsFullPacket(k) => FullPackets[n + 1] = k  BY <1>5, SeenNext
<1>7. /\ k \in 1..3 \/ k \in 4..Len(demo)
      /\ IsFullPacket(k) => k >= 5 /\ k >= 1
  <2>1. k \notin 1..4 \/ ~IsFullPacket(k)
    BY SignonFacts DEF RecordingInv, Recorded, IsFullPacket
  <2> QED  BY <2>1, WarmUpCommands, DemoAssumption DEF RecordingInv, Recorded
<1>8. k \in Nat /\ (k \in 1..3 => k <= 5)  BY DemoAssumption DEF RecordingInv, Recorded
<1> DEFINE p == s.p
           q == t.p
<1>9. p.result = "ok" /\ p.pos = k - 1 /\ SegmentLog(p, b, o) /\ r.log = p.log
      /\ r.collecting = p.collecting
  BY <1>1, <1>3
<1>10. CASE ~IsFullPacket(k) /\ (b \/ k \in 1..3)
  <2>1. q = TickEnded(handle_cmd(r, demo[k])) /\ t.l.collecting = b /\ t.flow = "Handle"
    BY <1>2, <1>10 DEF SegmentMove
  <2> HIDE DEF p, q, n
  <2>2. Shows(r.ctx, k)  BY <1>4, <1>8, <1>10 DEF Shows
  <2>3. k >= 5 => ~r.skip_entity_packets  BY <1>4, <1>8, <1>10
  <2>4. Writes(r, q, RecordedAt(k)) /\ q.collecting = r.collecting /\ q.pos = k
    BY <1>3, <1>4, <2>1, <2>2, <2>3, MeantCommand
  <2>5. SegmentLog(q, b, o)  BY <1>9, <2>4, SegmentLogGoes
  <2> QED  BY <2>1, <2>5 DEF q
<1>11. CASE ~IsFullPacket(k) /\ ~b /\ k \in 4..Len(demo)
  <2>1. q = r /\ t.l.collecting = b /\ t.flow = "Skip"  BY <1>2, <1>11 DEF SegmentMove
  <2> HIDE DEF p, q, n
  <2>2. SegmentLog(q, b, o)  BY <1>3, <1>9, <1>11, <2>1, SegmentLogStays
  <2> QED  BY <2>1, <2>2 DEF q
<1>12. CASE IsFullPacket(k) /\ n < o
  <2>1. q = r /\ t.l.collecting = b /\ t.flow = "Skip"  BY <1>2, <1>12 DEF SegmentMove
  <2>2. ~b  BY <1>5, <1>12
  <2> HIDE DEF p, q, n
  <2>3. SegmentLog(q, b, o)  BY <1>3, <1>9, <2>1, <2>2, SegmentLogStays
  <2> QED  BY <2>1, <2>3 DEF q
<1>13. CASE IsFullPacket(k) /\ n = o
  <2> DEFINE y == Collected(r)
  <2>1. /\ y = Collected(r) /\ q = TickEnded(handle_cmd(y, demo[k])) /\ t.l.collecting
        /\ t.flow = "Handle"
    BY <1>2, <1>13 DEF SegmentMove
  <2>2. FullPackets[o + 1] = k /\ (b <=> o = 0)  BY <1>5, <1>6, <1>13
  <2> HIDE DEF p, q, n, y
  <2>3. /\ y \in Parsers /\ Stays(r, y) /\ y.ctx = r.ctx /\ y.result = r.result
        /\ y.collecting /\ ~y.skip_entity_packets
    BY <1>3, <2>1, CollectedFacts
  <2>4. y.log = r.log  BY <1>3, <2>1, OutsideLog
  <2>5. y.pos = k  BY <1>3, <2>3 DEF Stays
  <2>6. Shows(y.ctx, k)  BY <1>7, <1>13 DEF Shows
  <2>7. Writes(y, q, RecordedAt(k)) /\ q.collecting = y.collecting /\ q.pos = k
    <3>1. y.result = "ok" /\ Ready(y.ctx, k - 1) /\ (k >= 5 => ~y.skip_entity_packets)
      BY <1>3, <1>4, <2>3
    <3>2. y.ctx.tick = TickAt(k) /\ y.ctx.prev_tick = TickAt(k - 1)  BY <1>3, <2>3
    <3>3. y \in Parsers /\ y.result = "ok" /\ y.pos = k  BY <2>3, <2>5, <3>1
    <3>4. q = TickEnded(handle_cmd(y, demo[k]))  BY <2>1
    <3>5. Ready(y.ctx, k - 1)  BY <3>1
    <3>6. k >= 5 => ~y.skip_entity_packets  BY <3>1
    <3> QED  BY <2>6, <3>2, <3>3, <3>4, <3>5, <3>6, MeantCommand
  <2>8. CASE o = 0
    <3>1. b /\ p.collecting  BY <1>9, <2>2, <2>8 DEF SegmentLog
    <3>2. y.log = p.log /\ y.collecting = p.collecting
      BY <1>9, <2>3, <2>4, <3>1 DEF Parsers
    <3>3. SegmentLog(q, b, o)  BY <1>9, <2>7, <3>2, SegmentLogGoes
    <3> QED  BY <2>1, <3>1, <3>3 DEF SegmentLog, q
  <2>9. CASE o # 0
    <3>1. y.log = <<>>  BY <1>9, <2>2, <2>4, <2>9 DEF SegmentLog
    <3>2. d  BY <2>1
    <3>3. SegmentLog(q, d, o)  BY <2>2, <2>3, <2>7, <2>9, <3>1, <3>2, SegmentLogBegins
    <3> QED  BY <3>2, <3>3 DEF q
  <2> QED  BY <2>1, <2>8, <2>9
<1>14. CASE IsFullPacket(k) /\ n > o
  <2>1. q = UnreadHeader(r) /\ t.l.collecting = b  BY <1>2, <1>14 DEF SegmentMove
  <2>1a. b  BY <1>5, <1>14
  <2> HIDE DEF p, q, n
  <2>2. q.pos = k - 1 /\ q.collecting = r.collecting  BY <1>3, <1>7, <1>14, <2>1, UnreadHeaderFacts
  <2>3. q.log = r.log  BY <1>3, <2>1, OutsideLog
  <2>4. SegmentLog(q, b, o)  BY <1>9, <2>2, <2>3, SegmentLogStays
  <2> QED  BY <2>1, <2>1a, <2>4 DEF q
<1>15. n < o \/ n = o \/ n > o  BY <1>5
<1> QED  BY <1>7, <1>10, <1>11, <1>12, <1>13, <1>14, <1>15

\* A segment that is there shows what is recorded of it.
LEMMA SegmentShows ==
  ASSUME RecordingInv, ToldInv, ~BaselineMayChange, NEW o \in Nat, o < Len(FullPackets),
         NEW p \in Parsers, p.pos = 0, Reached(p.ctx, 0), p.skip_entity_packets <=> o # 0,
         p.log = <<>>, p.collecting <=> o = 0,
         NEW l, l = SegmentStartLocals(o), NEW q, q = run_seekable(p, l), q.result = "ok"
  PROVE  /\ q.log = RecordedVisits(SegmentStart(o), SegmentEnd(o))
         /\ SegmentStart(o) \in 0..SegmentEnd(o)
<1> DEFINE N == Len(demo)
           Good(k, s) == /\ s \in LoopStates /\ s.l \in SegmentLocals /\ s.l.ordinal = o
                         /\ \/ Segmenting(s, k, o) \/ Failed(s.p)
                            \/ s.flow = "Break" /\ Segmented(s.p, o)
                         /\ SegmentLog(s.p, s.l.collecting, o)
                         /\ s.flow = "Break" => s.l.collecting
<1>1. N \in Nat /\ 0 \in 0..N  BY DemoAssumption DEF RecordingInv, Recorded
<1>2. PICK h : /\ h[p.pos] = Started(p, l) /\ q = h[N].p
               /\ \A k \in p.pos + 1..N : h[k] = RunCommand(h[k - 1], k)
  BY <1>1, RunSeekable
<1>2a. /\ h[0] = Started(p, l)
       /\ \A k \in 0 + 1..N : h[k] = RunCommand(h[k - 1], k)
  BY <1>2
<1>2b. l \in SegmentLocals /\ l.ordinal = o /\ l.fp_seen = 0 /\ (l.collecting <=> o = 0)
  BY DEF SegmentLocals, SegmentStartLocals
<1> DEFINE S == {k \in Nat : Good(k, h[k])}
<1>3. 0 \in S
  <2> DEFINE s == Started(p, l)
             b == l.collecting
  <2>1. /\ s \in LoopStates /\ s.flow = "Handle" /\ s.l = l
        /\ s.p.pos = p.pos /\ s.p.fails = p.fails /\ s.p.ctx = p.ctx /\ s.p.result = "ok"
        /\ s.p.skip_entity_packets = p.skip_entity_packets
    BY <1>2b, StartedFacts
  <2>1a. s.p.log = <<>> /\ s.p.collecting = p.collecting
    BY DEF Started, Parsers
  <2> HIDE DEF s
  <2>2. s.p \in Parsers  BY <2>1 DEF LoopStates
  <2>3. Live(s.p, 0)  BY <2>1, <2>2 DEF Live
  <2>4. Segmenting(s, 0, o)
    <3>1. Seen(0, 0)  BY SeenEnds
    <3>2. s.l.collecting <=> (o = 0 \/ s.l.fp_seen = o + 1)  BY <1>2b, <2>1
    <3>3. s.p.skip_entity_packets <=> ~s.l.collecting  BY <1>2b, <2>1
    <3> QED  BY <1>2b, <2>1, <2>3, <3>1, <3>2, <3>3 DEF Segmenting, Reached
  <2>4a. SegmentLog(s.p, b, o)
    <3>1. s.p.collecting <=> b  BY <1>2b, <2>1a
    <3>2. b => SegmentStart(o) = 0  BY <1>2b DEF SegmentStart
    <3>3. RecordedVisits(0, 0) = <<>>  BY VisitsEmpty
    <3>4. s.p.pos = 0 /\ 0 \in 0..0  BY <2>1
    <3> HIDE DEF b
    <3> QED  BY <2>1a, <3>1, <3>2, <3>3, <3>4 DEF SegmentLog
  <2>5. Good(0, s)  BY <1>2b, <2>1, <2>4, <2>4a
  <2>6. h[0] = s  BY <1>2a DEF s
  <2> QED  BY <2>5, <2>6
<1>4. ASSUME NEW k \in 0 + 1..N, k - 1 \in S PROVE k \in S
  <2>1. k \in Nat /\ k \in 1..N  BY <1>1
  <2> DEFINE s == h[k - 1]
             t == h[k]
             j == k - 1
  <2>2. t = RunCommand(s, k) /\ Good(j, s)  BY <1>2a, <1>4
  <2> HIDE DEF s, t
  <2>3. CASE s.flow = "Break" \/ s.p.result # "ok"
    <3>1. s.flow = "Break" \/ s.p.result = "error"  BY <2>2, <2>3 DEF LoopStates, Parsers
    <3>2. t = s  BY <2>2, <3>1 DEF RunCommand
    <3> HIDE DEF j
    <3>3. ~Segmenting(s, j, o)  BY <2>3 DEF Segmenting, Live
    <3>4. Good(k, t)  BY <2>2, <3>2, <3>3
    <3> QED  BY <2>1, <3>4 DEF t
  <2>4. CASE s.flow # "Break" /\ s.p.result = "ok"
    <3>1. Segmenting(s, k - 1, o)  BY <2>2, <2>4 DEF Failed
    <3> DEFINE b == s.l.collecting
               d == t.l.collecting
    <3>1a. SegmentLog(s.p, b, o)  BY <2>2
    <3> HIDE DEF j
    <3>2. /\ s \in LoopStates /\ s.l \in SegmentLocals /\ s.l.ordinal = o
          /\ t = RunCommand(s, k)
      BY <2>2
    <3>3. b = s.l.collecting /\ d = t.l.collecting  OBVIOUS
    <3> HIDE DEF b, d
    <3>4. SegmentTurned(s, t, k, o)  BY <2>1, <3>1, <3>2, SegmentTurn
    <3>5. SegmentLog(t.p, d, o) /\ (t.flow = "Break" => d)
      BY <2>1, <3>1, <3>1a, <3>2, <3>3, SegmentTurnShows
    <3>6. Good(k, t)  BY <3>4, <3>5 DEF SegmentTurned, d
    <3> QED  BY <2>1, <3>6 DEF t
  <2> QED  BY <2>3, <2>4
<1> HIDE DEF S, N
<1>4a. 0 \in Nat /\ N \in Nat  BY <1>1
<1>5. \A k \in 0..N : k \in S  BY <1>3, <1>4, <1>4a, UpInduction
<1>6. N \in S  BY <1>1, <1>5
<1>7. Good(N, h[N])  BY <1>6 DEF S
<1> DEFINE s == h[N]
<1>8. q = s.p /\ Good(N, s)  BY <1>2, <1>7
<1> HIDE DEF s
<1>9. s.l.collecting /\ q.pos = SegmentEnd(o)
  <2>1. CASE s.flow = "Break"  BY <1>8, <2>1 DEF Segmented, Segmenting, Live, Failed
  <2>2. CASE s.flow # "Break"
    <3> DEFINE n == s.l.fp_seen
               F == Len(FullPackets)
    <3>1. Segmenting(s, N, o)  BY <1>8, <2>2 DEF Failed
    <3>2. Seen(n, N) /\ q.pos = N  BY <1>8, <3>1 DEF Segmenting, Live
    <3>3. n = F /\ F \in Nat  BY <3>2, SeenEnds, FullPacketsAre DEF N
    <3>4. n <= o + 1 /\ (s.l.collecting <=> (o = 0 \/ n = o + 1))  BY <3>1 DEF Segmenting
    <3> HIDE DEF n
    <3>5. o + 1 >= F /\ n = o + 1  BY <3>3, <3>4
    <3>6. SegmentEnd(o) = N  BY <3>5 DEF SegmentEnd, N
    <3> QED  BY <3>2, <3>4, <3>5, <3>6
  <2> QED  BY <2>1, <2>2
<1> QED  BY <1>8, <1>9 DEF SegmentLog

------------------------------------------------------------------------------
(* The recorder keeps what it tells of.                                    *)

\* What is told after a step.
LEMMA ToldAfter ==
  ToldInv' <=> \A k \in 5..Len(demo') : Told(game'[k - 1], demo'[k], game'[k])
BY Zenon DEF ToldInv, Told, Tales, Tale, EntityTold

\* One more command, of whose changes the game tells.
LEMMA RecordTold ==
  ASSUME RecordingInv, ToldInv, NEW c, NEW h, Record(c, h), Told(Now, c, h) PROVE ToldInv'
<1> DEFINE N == Len(demo)
           M == N + 1
<1>1. /\ N \in Nat /\ M \in Nat /\ N \in 1..N /\ M - 1 = N /\ 5..M \subseteq 5..N \cup {M}
      /\ demo \in Seq(Commands) /\ game \in Seq(Games) /\ Len(game) = N
  BY DemoAssumption DEF RecordingInv, Recorded
<1>2. /\ Len(demo') = M /\ demo'[M] = c
      /\ \A k \in 1..N : demo'[k] = demo[k]
  BY <1>1, AppendProperties DEF Record
<1>3. /\ game'[M] = h
      /\ \A k \in 1..N : game'[k] = game[k]
  BY <1>1, AppendProperties DEF Record
<1>4. Now = game[N]  BY <1>1 DEF Now, Last
<1> HIDE DEF M
<1>5. ASSUME NEW k \in 5..M PROVE Told(game'[k - 1], demo'[k], game'[k])
  <2>1. CASE k = M  BY <1>1, <1>2, <1>3, <1>4, <2>1
  <2>2. CASE k \in 5..N
    <3>1. k \in 1..N /\ k - 1 \in 1..N  BY <1>1, <2>2
    <3>2. Told(game[k - 1], demo[k], game[k])  BY <2>2 DEF ToldInv
    <3> QED  BY <1>2, <1>3, <3>1, <3>2
  <2> QED  BY <1>1, <2>1, <2>2
<1> QED  BY <1>2, <1>5, ToldAfter

\* A packet of one message.
LEMMA PacketTold ==
  ASSUME RecordingInv, ToldInv, NEW m, NEW h, Packet(m, h),
         h.events = IF m.msg = "SvcPacketEntities" THEN Tales(Now, m.entries, h) ELSE <<>>
  PROVE  ToldInv'
<1>1. PICK tick \in NextTicks : Record(Command("DemPacket", tick, <<m>>, <<>>), h)  BY DEF Packet
<1> DEFINE c == Command("DemPacket", tick, <<m>>, <<>>)
<1>2. c.messages[1] = m  BY DEF Command
<1>3. Record(c, h)  BY <1>1
<1> HIDE DEF c
<1>4. Told(Now, c, h)  BY <1>2 DEF Told
<1> QED  BY <1>3, <1>4, RecordTold

\* A packet of one entry.
LEMMA EntityPacketTold ==
  ASSUME RecordingInv, ToldInv, NEW d, NEW i, NEW b, NEW s, NEW g, "events" \in DOMAIN g,
         EntityPacket(d, i, b, s, g)
  PROVE  ToldInv'
<1> DEFINE e == [delta |-> d, index |-> i, base |-> b, state |-> s]
           x == [kind |-> d, index |-> i,
                 entity |-> IF d \in {"DELETE", "LEAVE"} THEN Now.entities[i] ELSE g.entities[i]]
           y == <<x>>
           z == <<e>>
           h == [g EXCEPT !.events = y]
           m == [msg |-> "SvcPacketEntities", entries |-> z]
<1>1. Packet(m, h)  BY DEF EntityPacket
<1>2. m.msg = "SvcPacketEntities" /\ m.entries = z  OBVIOUS
<1>3. DOMAIN z = 1..1 /\ z[1] = e /\ y = [n \in 1..1 |-> x]  OBVIOUS
<1>4. e.delta = d /\ e.index = i  OBVIOUS
<1> HIDE DEF y, z, m, e
<1>5. h.events = y /\ h.entities = g.entities  OBVIOUS
<1> HIDE DEF h
<1>6. Tale(Now, e, h) = x  BY <1>4, <1>5 DEF Tale, EntityTold
<1> HIDE DEF x
<1>7. Tales(Now, z, h) = [n \in 1..1 |-> Tale(Now, z[n], h)]  BY <1>3 DEF Tales
<1>8. \A n \in 1..1 : Tale(Now, z[n], h) = x  BY <1>3, <1>6
<1>9. Tales(Now, z, h) = y  BY <1>3, <1>7, <1>8
<1> QED  BY <1>1, <1>2, <1>5, <1>9, PacketTold

\* A full packet.
LEMMA FullPacketTold == ASSUME RecordingInv, ToldInv, RecordFullPacket PROVE ToldInv'
<1> DEFINE live == SetToSeq(DOMAIN Now.entities)
           creates == [n \in DOMAIN live |->
                        [delta |-> "CREATE", index |-> live[n],
                         base |-> Now.entities[live[n]].base, state |-> Now.entities[live[n]].state]]
           m == [msg |-> "SvcPacketEntities", entries |-> creates]
           ev == [n \in DOMAIN live |->
                   [kind |-> "CREATE", index |-> live[n], entity |-> Now.entities[live[n]]]]
           h == [Now EXCEPT !.events = ev]
<1>1. PICK tick \in NextTicks : Record(Command("DemFullPacket", tick, <<m>>, Now.tables), h)
  BY DEF RecordFullPacket
<1> DEFINE c == Command("DemFullPacket", tick, <<m>>, Now.tables)
<1>2. Now \in Games  BY NowFacts
<1>3. c.messages[1] = m /\ m.msg = "SvcPacketEntities" /\ m.entries = creates  BY DEF Command
<1>4. Record(c, h)  BY <1>1
<1> HIDE DEF c, m, live
<1>5. DOMAIN creates = DOMAIN live  OBVIOUS
<1>6. ASSUME NEW n \in DOMAIN live
      PROVE  creates[n].delta = "CREATE" /\ creates[n].index = live[n]
  BY <1>6
<1> HIDE DEF creates, ev
<1>7. h.events = ev /\ h.entities = Now.entities  BY <1>2 DEF Games
<1> HIDE DEF h
<1>8. ASSUME NEW n \in DOMAIN live
      PROVE  Tale(Now, creates[n], h) = [kind |-> "CREATE", index |-> live[n], entity |-> Now.entities[live[n]]]
  BY <1>6, <1>7, <1>8 DEF Tale, EntityTold
<1>9. Tales(Now, creates, h) = ev  BY <1>5, <1>8 DEF Tales, ev
<1>10. Told(Now, c, h)  BY <1>3, <1>7, <1>9 DEF Told
<1> QED  BY <1>4, <1>10, RecordTold

\* An update of a string table tells of nothing.
LEMMA TableTold ==
  ASSUME RecordingInv, ToldInv, NEW t \in Tables, RecordTableUpdate(t) PROVE ToldInv'
<1> DEFINE m == [msg |-> "SvcUpdateStringTable", table |-> t, version |-> Now.tables[t] + 1]
           h == [Now EXCEPT !.tables[t] = @ + 1, !.events = <<>>]
<1>1. Packet(m, h)  BY DEF RecordTableUpdate
<1>2. m.msg # "SvcPacketEntities"  OBVIOUS
<1>3. h.events = <<>>
  <2>1. Now \in Games  BY NowFacts
  <2> QED  BY <2>1 DEF Games
<1> HIDE DEF m, h
<1> QED  BY <1>1, <1>2, <1>3, PacketTold

\* Whatever is recorded, the game tells of it.
RecordStep ==
  \/ RecordFullPacket
  \/ \E i \in Indexes : RecordCreate(i) \/ RecordUpdate(i) \/ RecordGone(i)
  \/ \E t \in Tables : RecordTableUpdate(t)

LEMMA RecordStepTold == ASSUME RecordingInv, ToldInv, RecordStep PROVE ToldInv'
<1>1. Now \in Games  BY NowFacts
<1>2. CASE RecordFullPacket  BY <1>2, FullPacketTold
<1>3. ASSUME NEW t \in Tables, RecordTableUpdate(t) PROVE ToldInv'  BY <1>3, TableTold
<1>4. ASSUME NEW i \in Indexes, RecordCreate(i) PROVE ToldInv'
  <2>1. PICK f : EntityPacket("CREATE", i, Missing, 0, [Now EXCEPT !.entities = f])
    BY <1>1, <1>4 DEF RecordCreate, Games
  <2> DEFINE g == [Now EXCEPT !.entities = f]
  <2>2. "events" \in DOMAIN g  BY <1>1 DEF Games
  <2>3. EntityPacket("CREATE", i, Missing, 0, g)  BY <2>1
  <2> HIDE DEF g
  <2> QED  BY <2>2, <2>3, EntityPacketTold
<1>5. ASSUME NEW i \in Indexes, RecordUpdate(i) PROVE ToldInv'
  <2> DEFINE g == [Now EXCEPT !.entities[i].state = @ + 1]
             s == Now.entities[i].state + 1
  <2>2. "events" \in DOMAIN g  BY <1>1 DEF Games
  <2>3. EntityPacket("UPDATE", i, Missing, s, g)  BY <1>5 DEF RecordUpdate
  <2> HIDE DEF g, s
  <2> QED  BY <2>2, <2>3, EntityPacketTold
<1>6. ASSUME NEW i \in Indexes, RecordGone(i) PROVE ToldInv'
  <2> DEFINE g == [Now EXCEPT !.entities = Restrict(@, DOMAIN @ \ {i})]
  <2>2. "events" \in DOMAIN g  BY <1>1 DEF Games
  <2>3. PICK delta \in {"DELETE", "LEAVE"} : EntityPacket(delta, i, Missing, 0, g)
    BY <1>6 DEF RecordGone
  <2> HIDE DEF g
  <2> QED  BY <2>2, <2>3, EntityPacketTold
<1> QED  BY <1>2, <1>3, <1>4, <1>5, <1>6 DEF RecordStep

\* Nothing is told of the signon part, and a call leaves the recording.
LEMMA ToldInit == ASSUME Init PROVE ToldInv
<1>1. Len(demo) = 4  BY SignonFacts DEF Init
<1> QED  BY <1>1 DEF ToldInv
LEMMA ToldStays == ASSUME demo' = demo, game' = game, ToldInv PROVE ToldInv'
BY ToldAfter DEF ToldInv

------------------------------------------------------------------------------
(* What the calls of a session show.                                       *)

\* What is recorded of the commands, and where the segments are, a call leaves as it is.
LEMMA VisitsStay ==
  ASSUME demo' = demo, game' = game, NEW a, NEW b
  PROVE  RecordedVisits(a, b)' = RecordedVisits(a, b)
BY SMT DEF RecordedVisits, AddRecorded, RecordedAt, NoEntity, FoldLeft, MapThenFoldSet
LEMMA CommandsStay ==
  ASSUME demo' = demo, NEW l PROVE CommandsOf(l)' = CommandsOf(l)
BY DEF CommandsOf
LEMMA SegmentStays ==
  ASSUME demo' = demo, NEW o
  PROVE  SegmentStart(o)' = SegmentStart(o) /\ SegmentEnd(o)' = SegmentEnd(o)
<1>1. FullPackets' = FullPackets  BY SMT DEF FullPackets, ScanCommand
<1> QED  BY <1>1 DEF SegmentStart, SegmentEnd

\* Log l, which ends with result r, is what a run to the end from command a must show of v,
\* what is recorded from there; w tells whether the state at a was a whole one.
ShowsRest(l, r, w, v) ==
  /\ ~w => (r = "ok" => CommandsOf(l) = CommandsOf(v))
  /\ w /\ r = "error" => IsStrictPrefix(l, v)
  /\ w /\ r # "error" => l = v

\* The property after a call, in these terms.
LEMMA RestAfter ==
  ASSUME demo' = demo, game' = game, NEW name, call'.name = name, NEW m, call'.muted = m,
         NEW w, call'.was_whole = w, NEW a, call'.from = a, NEW l, parser'.log = l,
         NEW r, parser'.result = r, NEW n, n = Len(demo), NEW v, v = RecordedVisits(a, n),
         name \in {"run_to_end"} \cup AsyncCalls /\ ~m => ShowsRest(l, r, w, v)
  PROVE  RestIsVisited'
<1>1. RecordedVisits(a, n)' = v  BY VisitsStay
<1>2. RecordedVisits(call.from, Len(demo))' = v
  <2>1. call'.from = a /\ Len(demo)' = n  OBVIOUS
  <2>2. RecordedVisits(call.from, Len(demo))' = RecordedVisits(a, n)'  BY <2>1
  <2> QED  BY <1>1, <2>2
<1>3. CommandsOf(v)' = CommandsOf(v) /\ CommandsOf(l)' = CommandsOf(l)  BY CommandsStay
<1>4. CommandsOf(parser.log)' = CommandsOf(l)  BY <1>3 DEF CommandsOf
<1>5. CommandsOf(RecordedVisits(call.from, Len(demo)))' = CommandsOf(v)
  BY <1>2, <1>3 DEF CommandsOf
<1>6. AsyncCalls' = AsyncCalls  BY DEF AsyncCalls
<1> QED  BY <1>2, <1>4, <1>5, <1>6 DEF RestIsVisited, ShowsRest

\* What run_to_end on a new parser shows.
WholeLog   == run_to_end(NewParser).log
WholeShown == WholeLog = RecordedVisits(0, Len(demo))

\* It shows all that is recorded.
LEMMA WholeIsShown == ASSUME RecordingInv, ToldInv, ~BaselineMayChange PROVE WholeShown
<1> DEFINE p == NewParser
           l == [run |-> "run_to_end"]
           q == run_to_end(p)
           N == Len(demo)
           v == RecordedVisits(0, N)
<1>1. /\ p \in Parsers /\ p.pos = 0 /\ ~p.skip_entity_packets /\ p.fails = NoFailure
      /\ p.ctx = NewContext /\ p.log = <<>> /\ p.collecting
  BY NewParserFacts DEF NewParser
<1>2. q = run_seekable(p, l) /\ l \in EndLocals  BY DEF run_to_end, EndLocals
<1>3. Reached(p.ctx, p.pos) /\ p.ctx.tick = TickAt(p.pos)
  <2>1. Reached(NewContext, 0)  BY DEF NewContext, Reached, TickAt, Ready, Follows, Fresh
  <2> QED  BY <1>1, <2>1 DEF Reached
<1>4. N \in Nat /\ p.pos \in 0..N  BY <1>1, DemoAssumption DEF RecordingInv, Recorded
<1>5. v \in Seq(Visited)
  <2>1. \A y \in 0..N : RecordedVisits(0, y) \in Seq(VisitedIn(0 + 1..y))  BY <1>4, VisitsFacts
  <2>2. v \in Seq(VisitedIn(0 + 1..N))  BY <1>4, <2>1
  <2> DEFINE D == 0 + 1..N
  <2> HIDE DEF D, v
  <2>3. v \in Seq(VisitedIn(D))  BY <2>2 DEF D
  <2>4. VisitedIn(D) \subseteq Visited  BY DEF VisitedIn
  <2> QED  BY <2>3, <2>4, SeqOfMore
<1> HIDE DEF p, q, l
<1>6. \E g : ToTheEnd(g, p, q)  BY <1>1, <1>2, <1>4, EndRunIs
<1>7. Going(p, q, N)  BY <1>1, <1>3, <1>4, <1>6, EndVisits
<1>8. Writes(p, q, v)  BY <1>1, <1>3, <1>7 DEF Going
<1>9. q.result = "ok"
  <2>1. q \in Parsers /\ q.fails = p.fails
        /\ ((Live(q, Len(demo)) /\ Reached(q.ctx, Len(demo))) \/ Failed(q))
    BY <1>1, <1>2, <1>3, <1>4, EndRun
  <2>2. q.fails.at = 0  BY <1>1, <2>1 DEF NoFailure
  <2> QED  BY <2>1, <2>2 DEF Live, Failed
<1> HIDE DEF v
<1>10. q.log = v  BY <1>1, <1>5, <1>8, <1>9 DEF Writes
<1> QED  BY <1>10 DEF WholeShown, WholeLog, v, q, p

\* The other property after a call, in these terms.
LEMMA SegmentsAfter ==
  ASSUME demo' = demo, game' = game, WholeShown, WholeShown',
         NEW name, call'.name = name, NEW o, call'.arg = o,
         NEW l, parser'.log = l, NEW a, a = SegmentStart(o), NEW b, b = SegmentEnd(o),
         name = "run_full_packet" /\ call'.whole /\ (call'.muted => o > 0) =>
           l = Only(WholeLog, Callbacks, a + 1..b)
  PROVE  SegmentsReproduceParse'
<1> DEFINE z == 0
           n == Len(demo)
<1>1. WholeLog' = WholeLog
  <2>1. WholeLog' = RecordedVisits(z, Len(demo))' /\ WholeLog = RecordedVisits(z, n)
    BY DEF WholeShown
  <2>2. RecordedVisits(z, Len(demo))' = RecordedVisits(z, n)
    BY SMT DEF RecordedVisits, AddRecorded, RecordedAt, NoEntity, FoldLeft, MapThenFoldSet
  <2> QED  BY <2>1, <2>2
<1>2. SegmentStart(o)' = a /\ SegmentEnd(o)' = b  BY SegmentStays
<1>3. SegmentStart(call.arg)' = a /\ SegmentEnd(call.arg)' = b
  BY <1>2 DEF SegmentStart, SegmentEnd
<1>4. run_to_end(NewParser).log' = WholeLog  BY <1>1 DEF WholeLog
<1>5. Callbacks' = Callbacks  BY DEF Callbacks
<1>6. SegmentsReproduceParse' <=>
        (call'.name = "run_full_packet" /\ call'.whole /\ (call'.muted => call'.arg > 0) =>
           parser'.log = Only(WholeLog', Callbacks, SegmentStart(call.arg)' + 1..SegmentEnd(call.arg)'))
  BY <1>5 DEF SegmentsReproduceParse, WholeLog
<1> QED  BY <1>1, <1>3, <1>6

\* The session, and what its last call has shown.
VisitedInv ==
  /\ ReachedInv /\ ToldInv
  /\ parser.ctx.tick = TickAt(parser.pos)
  /\ RestIsVisited /\ SegmentsReproduceParse

\* A whole recording is shown after a step too.
LEMMA WholeNext ==
  ASSUME ~BaselineMayChange PROVE RecordingInv' /\ ToldInv' => WholeShown'
<1>1. RecordingInv /\ ToldInv => WholeShown  BY WholeIsShown
<1> QED  BY <1>1, PTL

\* The tick of the context after a call.
LEMMA TickAfter ==
  ASSUME demo' = demo, NEW t, parser'.ctx.tick = t, NEW k, parser'.pos = k, t = TickAt(k)
  PROVE  (parser.ctx.tick = TickAt(parser.pos))'
BY DEF TickAt

\* A call that shows what it should keeps all of it.
LEMMA CallShows ==
  ASSUME VisitedInv, ~BaselineMayChange, ReachedInv', NEW name, NEW o, NEW p \in Parsers,
         Calls(name, o, p), p.ctx.tick = TickAt(p.pos),
         NEW v, v = RecordedVisits(parser.pos, Len(demo)),
         name \in {"run_to_end"} \cup AsyncCalls /\ parser.collecting =>
           ShowsRest(p.log, p.result, call.whole, v),
         NEW a, a = SegmentStart(o), NEW b, b = SegmentEnd(o),
         name = "run_full_packet" /\ p.result = "ok" /\ o < Len(FullPackets)
           /\ (~parser.collecting => o > 0) =>
           a \in 0..b /\ b \in 0..Len(demo) /\ p.log = RecordedVisits(a, b)
  PROVE  VisitedInv'
<1>1. /\ parser' = [p EXCEPT !.fails = NoFailure]
      /\ call'.name = name /\ call'.arg = o /\ call'.from = parser.pos
      /\ call'.was_whole = call.whole /\ call'.muted = ~parser.collecting
      /\ call'.whole => p.result = "ok" /\ (name = "run_full_packet" => o < Len(FullPackets))
      /\ demo' = demo /\ game' = game
  BY DEF Calls
<1>2. /\ parser'.log = p.log /\ parser'.result = p.result
      /\ parser'.ctx = p.ctx /\ parser'.pos = p.pos
  BY <1>1 DEF Parsers
<1>3. RecordingInv /\ RecordingInv' /\ ToldInv  BY DEF VisitedInv, ReachedInv, SessionInv
<1>4. ToldInv'  BY <1>1, <1>3, ToldStays
<1>5. WholeShown /\ WholeShown'  BY <1>3, <1>4, WholeIsShown, WholeNext
<1>6. (parser.ctx.tick = TickAt(parser.pos))'
  <2> DEFINE t == p.ctx.tick
             k == p.pos
  <2>1. parser'.ctx.tick = t /\ parser'.pos = k /\ t = TickAt(k)  BY <1>2
  <2> HIDE DEF t, k
  <2> QED  BY <1>1, <2>1, TickAfter
<1>7. RestIsVisited'
  <2> DEFINE m == ~parser.collecting
             w == call.whole
             f == parser.pos
             l == p.log
             r == p.result
             n == Len(demo)
  <2>1. /\ call'.muted = m /\ call'.was_whole = w /\ call'.from = f
        /\ parser'.log = l /\ parser'.result = r /\ n = Len(demo) /\ v = RecordedVisits(f, n)
    BY <1>1, <1>2
  <2>2. name \in {"run_to_end"} \cup AsyncCalls /\ ~m => ShowsRest(l, r, w, v)  OBVIOUS
  <2> HIDE DEF m, w, f, l, r, n
  <2> QED  BY <1>1, <2>1, <2>2, RestAfter
<1>8. SegmentsReproduceParse'
  <2> DEFINE l == p.log
             n == Len(demo)
  <2>1. parser'.log = l  BY <1>2
  <2>2. name = "run_full_packet" /\ call'.whole /\ (call'.muted => o > 0) =>
          l = Only(WholeLog, Callbacks, a + 1..b)
    <3> SUFFICES ASSUME name = "run_full_packet", call'.whole, call'.muted => o > 0
                 PROVE  l = Only(WholeLog, Callbacks, a + 1..b)
      OBVIOUS
    <3>1. a \in 0..b /\ b \in 0..n /\ l = RecordedVisits(a, b)  BY <1>1
    <3>2. n \in Nat  BY <1>3, DemoAssumption DEF RecordingInv, Recorded
    <3> HIDE DEF l, n
    <3>3. a \in 0..n /\ b \in a..n  BY <3>1, <3>2
    <3>4. a \in 0..Len(demo) /\ b \in a..Len(demo)  BY <3>3 DEF n
    <3>5. Only(RecordedVisits(0, Len(demo)), Callbacks, a + 1..b) = RecordedVisits(a, b)
      BY <1>3, <3>4, VisitsOfSegment
    <3> QED  BY <1>5, <3>1, <3>5 DEF WholeShown
  <2> HIDE DEF l
  <2> QED  BY <1>1, <1>5, <2>1, <2>2, SegmentsAfter
<1> QED  BY <1>4, <1>6, <1>7, <1>8 DEF VisitedInv

\* A run to the end, of either parser.
LEMMA EndShows ==
  ASSUME VisitedInv, ~BaselineMayChange, ReachedInv', NEW f \in Failures,
         NEW name, name \notin RewindCalls, NEW o, NEW p, p = Idle(f), NEW q, Calls(name, o, q),
         \E g : ToTheEnd(g, p, q)
  PROVE  VisitedInv'
<1> DEFINE N == Len(demo)
           v == RecordedVisits(parser.pos, Len(demo))
<1>1. /\ RecordingInv /\ ToldInv /\ p \in Parsers /\ p.pos \in 0..N /\ ~p.skip_entity_packets
      /\ call.whole => Reached(p.ctx, p.pos)
  BY CallBegins DEF VisitedInv
<1>2. /\ p.pos = parser.pos /\ p.ctx = parser.ctx /\ p.collecting = parser.collecting
      /\ p.log = <<>>
  BY IdleFacts DEF VisitedInv, ReachedInv
<1>3. p.ctx.tick = TickAt(p.pos)  BY <1>2 DEF VisitedInv
<1>4. v \in Seq(Visited)
  <2> DEFINE a == p.pos
             D == a + 1..N
  <2>1. \A y \in a..N : RecordedVisits(a, y) \in Seq(VisitedIn(a + 1..y))  BY <1>1, VisitsFacts
  <2>2. N \in a..N  BY <1>1, DemoAssumption DEF RecordingInv, Recorded
  <2>3. v \in Seq(VisitedIn(D))  BY <1>2, <2>1, <2>2
  <2> HIDE DEF D, v
  <2>4. VisitedIn(D) \subseteq Visited  BY DEF VisitedIn
  <2> QED  BY <2>3, <2>4, SeqOfMore
<1>5. Going(p, q, N)  BY <1>1, <1>2, <1>3, EndVisits
<1>6. /\ q \in Parsers /\ q.ctx.tick = TickAt(q.pos)
      /\ call.whole => Writes(p, q, v)
      /\ p.collecting /\ q.result = "ok" => CommandsOf(q.log) = CommandsOf(v)
  BY <1>1, <1>2, <1>5 DEF Going
<1>7. v = RecordedVisits(parser.pos, Len(demo))  OBVIOUS
<1> HIDE DEF v
<1>8. parser.collecting => ShowsRest(q.log, q.result, call.whole, v)
  BY <1>2, <1>4, <1>6 DEF Writes, ShowsRest, Parsers
<1> DEFINE a == SegmentStart(o)
           b == SegmentEnd(o)
<1>9. a = SegmentStart(o) /\ b = SegmentEnd(o) /\ name # "run_full_packet"  BY DEF RewindCalls
<1> HIDE DEF a, b
<1> QED  BY <1>6, <1>7, <1>8, <1>9, CallShows

\* A call that rewinds, and is not one of a segment.
LEMMA RewindShows ==
  ASSUME VisitedInv, ~BaselineMayChange, ReachedInv',
         NEW name \in RewindCalls, name # "run_full_packet", NEW o, NEW q \in Parsers,
         Calls(name, o, q), q.ctx.tick = TickAt(q.pos)
  PROVE  VisitedInv'
<1> DEFINE a == SegmentStart(o)
           b == SegmentEnd(o)
           v == RecordedVisits(parser.pos, Len(demo))
<1>1. a = SegmentStart(o) /\ b = SegmentEnd(o) /\ v = RecordedVisits(parser.pos, Len(demo))
  OBVIOUS
<1>2. name \notin {"run_to_end"} \cup AsyncCalls  BY DEF RewindCalls, AsyncCalls
<1> HIDE DEF a, b, v
<1> QED  BY <1>1, <1>2, CallShows

\* run_to_tick.
LEMMA TickShows ==
  ASSUME VisitedInv, ~BaselineMayChange, ReachedInv', NEW f \in Failures, NEW T \in Ticks,
         RunToTick(T, f)
  PROVE  VisitedInv'
<1> DEFINE i == Idle(f)
           r == reset(i)
           l == [run |-> "run_to_tick", target_tick |-> T, first_sync_tick |-> FALSE,
                 last_full_packet |-> FALSE]
           q == run_to_tick(i, T)
           name == "run_to_tick"
<1>1. RecordingInv /\ i \in Parsers /\ i.fails = f /\ ~i.skip_entity_packets
  BY CallBegins DEF VisitedInv
<1>2. q = run_seekable(r, l) /\ r = reset(i)  BY DEF run_to_tick
<1>3. Calls(name, T, q) /\ name \in RewindCalls /\ name # "run_full_packet"
  BY DEF RunToTick, RewindCalls
<1>4. T \in Int /\ T <= demo[Len(demo)].tick /\ Len(demo) >= 5
  <2>1. FullPackets # <<>>  BY <1>3 DEF Calls
  <2>2. Len(demo) >= 5  BY <1>1, <2>1, LastFullPacket
  <2>3. T <= demo[Len(demo)].tick  BY DEF RunToTick, Last
  <2> QED  BY <2>2, <2>3, DemoAssumption DEF Ticks
<1>5. /\ l = [run |-> "run_to_tick", target_tick |-> T, first_sync_tick |-> FALSE,
              last_full_packet |-> FALSE]
      /\ l \in SeekLocals
  BY <1>4 DEF SeekLocals
<1> HIDE DEF i, r, l, q, name
<1>6. /\ r \in Parsers /\ r.pos = 0 /\ Reached(r.ctx, 0) /\ ~r.skip_entity_packets
  BY <1>1, <1>2, RewindReaches
<1>7. q \in Parsers  BY <1>1, <1>2, <1>4, <1>5, <1>6, SeekRun
<1>8. r.pos \in 0..Len(demo) /\ r.ctx.tick = TickAt(r.pos)
  BY <1>1, <1>6, DemoAssumption DEF Reached, RecordingInv, Recorded
<1>9. q.ctx.tick = TickAt(q.pos)  BY <1>1, <1>2, <1>5, <1>6, <1>8, RunTicks
<1> QED  BY <1>3, <1>7, <1>9, RewindShows

\* scan_full_packet_ticks.
LEMMA ScanShows ==
  ASSUME VisitedInv, ~BaselineMayChange, ReachedInv', Scan PROVE VisitedInv'
<1> DEFINE f == NoFailure
           i == Idle(f)
           r == reset(i)
           q == Restarted(r)
           name == "scan_full_packet_ticks"
           n == 0
<1>0. f \in Failures  BY DEF Failures
<1>1. i \in Parsers
  <2> HIDE DEF f
  <2> QED  BY <1>0, CallBegins DEF VisitedInv
<1>2. r = reset(i) /\ q = Restarted(r)  OBVIOUS
<1>3. Calls(name, n, q) /\ name \in RewindCalls /\ name # "run_full_packet"
  BY DEF Scan, scan_full_packet_ticks, Restarted, RewindCalls
<1> HIDE DEF f, i, r, q, name
<1>4. r \in Parsers /\ r.pos = 0 /\ Reached(r.ctx, 0)  BY <1>1, <1>2, RewindReaches
<1>5. q \in Parsers /\ q.ctx = r.ctx /\ q.pos = r.pos  BY <1>2, <1>4 DEF Restarted, Parsers
<1>6. q.ctx.tick = TickAt(q.pos)  BY <1>4, <1>5 DEF Reached
<1> HIDE DEF n
<1> QED  BY <1>3, <1>5, <1>6, RewindShows

\* run_full_packet.
LEMMA SegmentCallShows ==
  ASSUME VisitedInv, ~BaselineMayChange, ReachedInv', NEW f \in Failures, NEW o \in Ordinals,
         RunFullPacket(o, f)
  PROVE  VisitedInv'
<1> DEFINE i == Idle(f)
           r == reset(i)
           w == Warming(r, o)
           l == SegmentStartLocals(o)
           x == run_seekable(w, l)
           q == Ended(x)
           name == "run_full_packet"
           a == SegmentStart(o)
           b == SegmentEnd(o)
           v == RecordedVisits(parser.pos, Len(demo))
<1>1. RecordingInv /\ ToldInv /\ i \in Parsers /\ i.fails = f /\ ~i.skip_entity_packets
  BY CallBegins DEF VisitedInv
<1>1a. i.log = <<>> /\ i.collecting = parser.collecting
  BY IdleFacts DEF VisitedInv, ReachedInv
<1>2. /\ r = reset(i) /\ w = Warming(r, o) /\ l = SegmentStartLocals(o)
      /\ x = run_seekable(w, l) /\ q = Ended(x)
      /\ a = SegmentStart(o) /\ b = SegmentEnd(o) /\ v = RecordedVisits(parser.pos, Len(demo))
  OBVIOUS
<1>3. /\ Calls(name, o, q) /\ name \notin {"run_to_end"} \cup AsyncCalls
  BY SegmentRun DEF RunFullPacket, AsyncCalls
<1>4. o \in Nat /\ l \in SegmentLocals
  BY DemoAssumption DEF Ordinals, SegmentLocals, SegmentStartLocals
<1> HIDE DEF i, r, w, l, x, q, name, a, b, v
<1>5. r \in Parsers /\ r.pos = 0 /\ Reached(r.ctx, 0)  BY <1>1, <1>2, RewindReaches
<1>6. r.log = i.log /\ r.collecting = i.collecting  BY <1>1, <1>2, ResetFacts
<1>7. /\ w \in Parsers /\ w.pos = r.pos /\ w.ctx = r.ctx /\ w.log = r.log
      /\ w.skip_entity_packets = (o # 0)
  BY ZenonT(60), <1>2, <1>5, WarmingFacts
<1>7a. (o # 0 => ~w.collecting) /\ (o = 0 => w.collecting = r.collecting)
  <2>1. w = Warming(r, o) /\ r \in Parsers  BY <1>2, <1>5
  <2> QED  BY <2>1 DEF Warming, Parsers
<1>8. /\ w.pos = 0 /\ Reached(w.ctx, 0) /\ w.log = <<>>
      /\ w.pos \in 0..Len(demo) /\ w.ctx.tick = TickAt(w.pos)
  BY <1>1, <1>1a, <1>5, <1>6, <1>7, DemoAssumption DEF Reached, RecordingInv, Recorded
<1>9. w.skip_entity_packets <=> o # 0  BY <1>7
<1>10. x \in Parsers /\ (Segmented(x, o) \/ Failed(x))
  BY <1>1, <1>2, <1>4, <1>7, <1>8, <1>9, SegmentLoop
<1>11. /\ q \in Parsers /\ q.pos = x.pos /\ q.ctx = x.ctx /\ q.result = x.result
       /\ q.log = x.log
  BY <1>2, <1>10, EndedFacts
<1>12. x.ctx.tick = TickAt(x.pos)  BY <1>1, <1>2, <1>4, <1>7, <1>8, RunTicks
<1>13. q.ctx.tick = TickAt(q.pos)  BY <1>11, <1>12
<1>14. ASSUME q.result = "ok", o < Len(FullPackets), ~parser.collecting => o > 0
       PROVE  a \in 0..b /\ b \in 0..Len(demo) /\ q.log = RecordedVisits(a, b)
  <2>1. w.collecting <=> o = 0
    <3>1. i.collecting \in BOOLEAN  BY <1>1 DEF Parsers
    <3> QED  BY <1>1a, <1>4, <1>6, <1>7a, <1>14, <3>1
  <2>2. x.result = "ok"  BY <1>11, <1>14
  <2>3. x.log = RecordedVisits(SegmentStart(o), SegmentEnd(o)) /\ SegmentStart(o) \in 0..SegmentEnd(o)
    BY <1>1, <1>2, <1>4, <1>7, <1>8, <1>9, <1>14, <2>1, <2>2, SegmentShows
  <2>4. x.pos = b  BY <1>2, <1>10, <2>2 DEF Segmented, Live, Failed
  <2>5. b \in 0..Len(demo)
    <3> DEFINE F == Len(FullPackets)
               N == Len(demo)
    <3>1. F \in Nat /\ N \in Nat /\ \A u \in 1..F : FullPackets[u] \in 1..N
      BY <1>1, FullPacketsAre
    <3>2. b = IF o + 1 >= F THEN N ELSE FullPackets[o + 2] - 1  BY <1>2 DEF SegmentEnd
    <3> HIDE DEF F, N
    <3>3. CASE o + 1 >= F  BY <3>1, <3>2, <3>3 DEF N
    <3>4. CASE ~(o + 1 >= F)
      <4>1. o + 2 \in 1..F  BY <1>4, <3>1, <3>4
      <4>2. FullPackets[o + 2] \in 1..N  BY <3>1, <4>1
      <4> QED  BY <3>1, <3>2, <3>4, <4>2 DEF N
    <3> QED  BY <3>3, <3>4
  <2> QED  BY <1>2, <1>11, <2>3, <2>5
<1> QED  BY <1>2, <1>3, <1>11, <1>13, <1>14, CallShows

\* A session begins with nothing shown, and nothing called.
LEMMA VisitedInit == ASSUME Init PROVE VisitedInv
<1>1. ReachedInv /\ ToldInv  BY ReachedInit, ToldInit
<1>2. call.name = "none" /\ parser.pos = 0 /\ parser.ctx.tick = -1
  BY DEF Init, NewParser, NewContext
<1>3. RestIsVisited /\ SegmentsReproduceParse
  BY <1>2 DEF RestIsVisited, SegmentsReproduceParse, AsyncCalls
<1> QED  BY <1>1, <1>2, <1>3 DEF VisitedInv, TickAt

\* Nor has anything been while the recording goes on.
LEMMA RecordVisited ==
  ASSUME VisitedInv, RecordStep, ReachedInv' PROVE VisitedInv'
<1>1. RecordingInv /\ ToldInv /\ ReachedInv  BY DEF VisitedInv, ReachedInv, SessionInv
<1>2. ToldInv'  BY <1>1, RecordStepTold
<1>3. call.name = "none" /\ call' = call /\ parser' = parser
  <2>1. \A c, h : Recording /\ Record(c, h) => call.name = "none" /\ call' = call /\ parser' = parser
    BY DEF Recording, Record
  <2>2. CASE RecordFullPacket
    <3>1. Recording /\ \E c, h : Record(c, h)  BY <2>2 DEF RecordFullPacket
    <3> QED  BY <2>1, <3>1
  <2>3. ASSUME NEW m, NEW h, Packet(m, h) PROVE Recording /\ \E c, g : Record(c, g)
    BY <2>3 DEF Packet
  <2>4. CASE \E m, h : Packet(m, h)  BY <2>1, <2>3, <2>4
  <2>5. ASSUME NEW i \in Indexes, RecordCreate(i) \/ RecordUpdate(i) \/ RecordGone(i)
        PROVE  \E m, h : Packet(m, h)
    BY <2>5 DEF RecordCreate, RecordUpdate, RecordGone, EntityPacket
  <2>6. ASSUME NEW u \in Tables, RecordTableUpdate(u) PROVE \E m, h : Packet(m, h)
    BY <2>6 DEF RecordTableUpdate
  <2> QED  BY <2>2, <2>4, <2>5, <2>6 DEF RecordStep
<1>4. parser.pos = 0 /\ parser.ctx.tick = -1  BY <1>1, <1>3 DEF ReachedInv, NewParser, NewContext
<1>5. (parser.ctx.tick = TickAt(parser.pos))'  BY <1>3, <1>4 DEF TickAt
<1>6. RestIsVisited' /\ SegmentsReproduceParse'
  BY <1>3 DEF RestIsVisited, SegmentsReproduceParse, AsyncCalls
<1> QED  BY <1>2, <1>5, <1>6 DEF VisitedInv

\* A step that changes nothing.
LEMMA IdleVisited ==
  ASSUME VisitedInv, ~BaselineMayChange, UNCHANGED vars, ReachedInv' PROVE VisitedInv'
<1>1. demo' = demo /\ game' = game /\ parser' = parser /\ call' = call  BY DEF vars
<1>2. RecordingInv /\ RecordingInv' /\ ToldInv  BY DEF VisitedInv, ReachedInv, SessionInv
<1>3. ToldInv'  BY <1>1, <1>2, ToldStays
<1>4. WholeShown /\ WholeShown'  BY <1>2, <1>3, WholeIsShown, WholeNext
<1> DEFINE t == parser.ctx.tick
           k == parser.pos
           name == call.name
           m == call.muted
           w == call.was_whole
           o == call.arg
           f == call.from
           l == parser.log
           r == parser.result
           n == Len(demo)
           v == RecordedVisits(call.from, Len(demo))
           a == SegmentStart(call.arg)
           b == SegmentEnd(call.arg)
<1>5. /\ t = TickAt(k) /\ parser'.ctx.tick = t /\ parser'.pos = k /\ call'.name = name
      /\ call'.muted = m /\ call'.was_whole = w /\ call'.arg = o /\ call'.from = f
      /\ parser'.log = l /\ parser'.result = r /\ n = Len(demo) /\ v = RecordedVisits(f, n)
      /\ a = SegmentStart(o) /\ b = SegmentEnd(o) /\ call'.whole = call.whole
  BY <1>1 DEF VisitedInv
<1>6. name \in {"run_to_end"} \cup AsyncCalls /\ ~m => ShowsRest(l, r, w, v)
  <2> HIDE DEF v
  <2> QED  BY DEF VisitedInv, RestIsVisited, ShowsRest, v
<1>7. name = "run_full_packet" /\ call.whole /\ (m => o > 0) =>
        l = Only(WholeLog, Callbacks, a + 1..b)
  BY DEF VisitedInv, SegmentsReproduceParse, WholeLog
<1> HIDE DEF t, k, name, m, w, o, f, l, r, n, v, a, b
<1>8. (parser.ctx.tick = TickAt(parser.pos))'  BY <1>1, <1>5, TickAfter
<1>9. RestIsVisited'  BY <1>1, <1>5, <1>6, RestAfter
<1>10. SegmentsReproduceParse'  BY <1>1, <1>4, <1>5, <1>7, SegmentsAfter
<1> QED  BY <1>3, <1>8, <1>9, <1>10 DEF VisitedInv

\* Every recorded command and every call keeps it.
LEMMA VisitedNext ==
  ASSUME ~BaselineMayChange, VisitedInv, [Next]_vars PROVE VisitedInv'
<1>1. ReachedInv /\ ReachedInv'
  <2>1. ReachedInv  BY DEF VisitedInv
  <2> QED  BY <2>1, ReachedNext
<1>2. CASE UNCHANGED vars  BY <1>1, <1>2, IdleVisited
<1>3. CASE RecordStep  BY <1>1, <1>3, RecordVisited
<1>4. CASE Scan  BY <1>1, <1>4, ScanShows
<1>5. RecordingInv  BY <1>1 DEF ReachedInv, SessionInv
<1>6. ASSUME NEW f \in Failures, RunToEnd(f) PROVE VisitedInv'
  <2> DEFINE p == Idle(f)
             q == run_to_end(p)
             l == [run |-> "run_to_end"]
             name == "run_to_end"
             o == 0
  <2>1. q = run_seekable(p, l) /\ l \in EndLocals /\ p = Idle(f)  BY DEF run_to_end, EndLocals
  <2>2. Calls(name, o, q) /\ name \notin RewindCalls  BY <1>6 DEF RunToEnd, RewindCalls
  <2>3. p \in Parsers /\ p.pos \in 0..Len(demo)  BY <1>1, CallBegins
  <2> HIDE DEF p, q, l, name, o
  <2>4. \E g : ToTheEnd(g, p, q)  BY <1>5, <2>1, <2>3, EndRunIs
  <2> QED  BY <1>1, <2>1, <2>2, <2>4, EndShows
<1>7. ASSUME NEW f \in Failures, NEW clears \in BOOLEAN, NEW name \in AsyncCalls,
             Calls(name, 0, run_internal(Idle(f), clears))
      PROVE  VisitedInv'
  <2> DEFINE p == Idle(f)
             q == run_internal(p, clears)
             o == 0
  <2>1. q = run_internal(p, clears) /\ p = Idle(f) /\ Calls(name, o, q)  BY <1>7
  <2>2. name \notin RewindCalls  BY DEF RewindCalls, AsyncCalls
  <2>3. p \in Parsers /\ p.pos \in 0..Len(demo) /\ ~p.skip_entity_packets  BY <1>1, CallBegins
  <2> HIDE DEF p, q, o
  <2>4. \E g : ToTheEnd(g, p, q)  BY <1>5, <2>1, <2>3, AsyncRunToTheEnd
  <2> QED  BY <1>1, <2>1, <2>2, <2>4, EndShows
<1>8. ASSUME NEW f \in Failures, NEW tick \in Ticks, RunToTick(tick, f) PROVE VisitedInv'
  BY <1>1, <1>8, TickShows
<1>9. ASSUME NEW f \in Failures, NEW o \in Ordinals, RunFullPacket(o, f) PROVE VisitedInv'
  BY <1>1, <1>9, SegmentCallShows
<1>10. ASSUME NEW f \in Failures, AsyncRunToEnd(f) PROVE VisitedInv'
  <2> DEFINE name == "async_run_to_end"
             clears == FALSE
  <2>1. name \in AsyncCalls /\ clears \in BOOLEAN /\ Calls(name, 0, run_internal(Idle(f), clears))
    BY <1>10 DEF AsyncCalls, AsyncRunToEnd, async_run_to_end
  <2> HIDE DEF name, clears
  <2> QED  BY <1>7, <2>1
<1>11. ASSUME NEW f \in Failures, RunToEndFinalState(f) PROVE VisitedInv'
  <2> DEFINE name == "run_to_end_final_state"
             clears == TRUE
  <2>1. name \in AsyncCalls /\ clears \in BOOLEAN /\ Calls(name, 0, run_internal(Idle(f), clears))
    BY <1>11 DEF AsyncCalls, RunToEndFinalState, run_to_end_final_state
  <2> HIDE DEF name, clears
  <2> QED  BY <1>7, <2>1
<1> QED  BY <1>2, <1>3, <1>4, <1>6, <1>8, <1>9, <1>10, <1>11 DEF Next, RecordStep

\* If the recording does not rewrite a baseline, what a visitor has been shown is what was
\* recorded, in every session.
THEOREM VisitedCorrect == ASSUME ~BaselineMayChange PROVE Spec => []VisitedInv
<1>1. Init => VisitedInv  BY VisitedInit
<1>2. VisitedInv /\ [Next]_vars => VisitedInv'  BY VisitedNext
<1> QED  BY <1>1, <1>2, PTL DEF Spec

\* A run to the end of either parser, whatever was called before it, shows a visitor that
\* collects every command, every change of an entity and every end of a tick of the rest of
\* the recording, in order and once; up to where a callback fails; and after a call that
\* failed it misses no command and no end of a tick.
THEOREM RestCorrect == ASSUME ~BaselineMayChange PROVE Spec => []RestIsVisited
<1>1. VisitedInv => RestIsVisited  BY DEF VisitedInv
<1> QED  BY <1>1, VisitedCorrect, PTL

\* What the segments of run_full_packet show, one after another, is what a single parse
\* from end to end shows, as the documentation of run_full_packet has it.
THEOREM SegmentsCorrect == ASSUME ~BaselineMayChange PROVE Spec => []SegmentsReproduceParse
<1>1. VisitedInv => SegmentsReproduceParse  BY DEF VisitedInv
<1> QED  BY <1>1, VisitedCorrect, PTL
================================================================================
