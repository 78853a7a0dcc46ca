---------------------------- MODULE BroadcastProofs ----------------------------
(***************************************************************************)
(* Theorems about the two sides of a broadcast, for every value of their   *)
(* constants: of BroadcastHttp the types, the patience of the 404 retries, *)
(* and the refinement of BroadcastFeed; of BroadcastBuffer that the buffer *)
(* and the place in it stay what they should, for packets of any size and  *)
(* any number of them, when the host polls at the end of the buffer.       *)
(***************************************************************************)
EXTENDS BroadcastHttp, BroadcastBuffer, SequenceTheorems, TLAPS

\* Products of the retry counter and the interval, as the provers need them.
LEMMA IntervalProduct ==
  ASSUME NEW n \in Nat, NEW k \in Nat
  PROVE  /\ n * k \in Nat
         /\ (n + 1) * k = n * k + k
         /\ \A m \in Nat : n <= m => n * k <= m * k
<1>1. n * k \in Nat /\ (n + 1) * k = n * k + k
  OBVIOUS
<1>2. ASSUME NEW m \in Nat, n <= m PROVE n * k <= m * k
  <2>1. /\ m - n \in Nat /\ m = n + (m - n)
    BY <1>2
  <2>2. m * k = n * k + (m - n) * k
    BY <2>1
  <2>3. (m - n) * k \in Nat
    BY <2>1
  <2> QED BY <1>1, <2>2, <2>3
<1> QED BY <1>1, <1>2

LEMMA LimitsAreNat ==
  /\ MAX_DELTAFRAME_RETRIES * KeyframeInterval \in Nat
  /\ RequestLimit \in Nat \ {0}
BY BroadcastAssumption DEF RequestLimit

\* FetchAfter is a legal value of fetch_in.
LEMMA FetchAfterType ==
  ASSUME TypeOK
  PROVE  FetchAfter \in -1..KeyframeInterval
BY BroadcastAssumption DEF TypeOK, FetchAfter

\* What the head of the delta loop may leave behind.
LEMMA DeltaLoopType ==
  ASSUME TypeOK,
         NEW retries \in 0..MAX_DELTAFRAME_RETRIES,
         NEW in \in -1..KeyframeInterval,
         NEW catching_up \in BOOLEAN,
         DeltaLoop(retries, in, catching_up)
  PROVE  /\ num_retries' = retries /\ fetch_in' = in
         /\ catchup' \in BOOLEAN
         /\ phase' \in {"request", "pace"}
         /\ attempt' = 0 /\ delay' \in Nat /\ wake' = 0 /\ age' = 0
         /\ requests' \in 0..(RequestLimit + 1)
<1>1. CASE /\ ~catching_up /\ in >= 0
           /\ catchup' = FALSE
           /\ phase' = "pace"
           /\ attempt' = 0 /\ delay' = 0 /\ wake' = 0 /\ age' = 0
           /\ UNCHANGED requests
  BY <1>1 DEF DeltaLoop, TypeOK
<1>2. CASE /\ catching_up \/ in < 0
           /\ catchup' = TRUE
           /\ BeginGet
           /\ CountRequest
  BY <1>2, BroadcastAssumption, LimitsAreNat DEF DeltaLoop, TypeOK, BeginGet, CountRequest, Least
<1> QED BY <1>1, <1>2 DEF DeltaLoop

\* Every state the stream reaches is well typed, for every value of the constants
\* (broadcasthttp.rs: the StreamState machine and the locals of its futures).
THEOREM TypeCorrect == Spec => []TypeOK
<1> USE BroadcastAssumption, LimitsAreNat
<1>1. Init => TypeOK
  BY DEF Init, TypeOK, RequestLimit
<1>2. TypeOK /\ [Next]_vars => TypeOK'
  <2> SUFFICES ASSUME TypeOK, [Next]_vars PROVE TypeOK'
    OBVIOUS
  <2>0. FetchAfter \in -1..KeyframeInterval
    BY FetchAfterType
  <2> USE DEF TypeOK, EndCall, BeginGet, CountRequest, Least, http, frames
  <2>1. CASE StartStreaming
    BY <2>1 DEF StartStreaming
  <2>2. CASE NextPacket
    <3>1. CASE stream_state = "Deltaframes" /\ DeltaLoop(num_retries, fetch_in, catchup)
      BY <2>2, <3>1, DeltaLoopType DEF NextPacket
    <3>2. CASE stream_state # "Deltaframes"
      BY SMTT(60), <2>2, <3>2 DEF NextPacket
    <3> QED BY <2>2, <3>1, <3>2 DEF NextPacket
  <2>3. CASE PaceOver
    BY <2>3 DEF PaceOver
  <2>4. CASE BackoffOver
    BY <2>4 DEF BackoffOver
  <2>5. CASE TransientFailure
    BY <2>5 DEF TransientFailure
  <2>6. CASE SyncAnswered
    BY <2>6 DEF SyncAnswered, GetReturns
  <2>7. CASE StartAnswered
    <3>1. [kind |-> "start", fragment |-> SignupFragment] \in Packets
      BY DEF Packets
    <3> QED BY <2>7, <3>1 DEF StartAnswered, ReturnPacket
  <2>8. CASE FullframeAnswered
    <3>1. [kind |-> "full", fragment |-> stream_fragment] \in Packets
      BY <2>8 DEF Packets, FullframeAnswered
    <3> QED BY <2>8, <3>1 DEF FullframeAnswered, ReturnPacket
  <2>9. CASE DeltaAnswered
    BY <2>0, <2>9 DEF DeltaAnswered, ReturnPacket, Packets
  <2>10. CASE DeltaNotFound
    <3>1. DeltaLoop(num_retries + 1, FetchAfter, FALSE)
      BY <2>10 DEF DeltaNotFound
    <3>2. num_retries + 1 \in 0..MAX_DELTAFRAME_RETRIES
      BY <2>10 DEF DeltaNotFound
    <3>3. missing' \in -1..(MAX_DELTAFRAME_RETRIES * KeyframeInterval)
      BY <2>10 DEF DeltaNotFound
    <3> HIDE DEF TypeOK
    <3>4. /\ num_retries' = num_retries + 1 /\ fetch_in' = FetchAfter
          /\ catchup' \in BOOLEAN
          /\ phase' \in {"request", "pace"}
          /\ attempt' = 0 /\ delay' \in Nat /\ wake' = 0 /\ age' = 0
          /\ requests' \in 0..(RequestLimit + 1)
      BY <2>0, <3>1, <3>2, DeltaLoopType
    <3> QED BY <2>0, <2>10, <3>2, <3>3, <3>4 DEF DeltaNotFound, TypeOK
  <2>11. CASE StreamFailed
    BY <2>11 DEF StreamFailed
  <2>12. CASE Cancel
    BY <2>12 DEF Cancel
  <2>13. CASE Tick
    BY <2>13 DEF Tick
  <2>14. CASE UNCHANGED vars
    BY <2>14 DEF vars
  <2> QED
    BY <2>1, <2>2, <2>3, <2>4, <2>5, <2>6, <2>7, <2>8, <2>9, <2>10, <2>11, <2>12, <2>13,
       <2>14 DEF Next, Answered
<1> QED
  BY <1>1, <1>2, PTL DEF Spec

------------------------------------------------------------------------------
(***************************************************************************)
(* The patience of handle_deltaframes.  The clock of a missing fragment    *)
(* runs ahead of its count of misses: what has passed since the first miss *)
(* and what is left until fetch_after add up to one interval per miss.     *)
(***************************************************************************)
Counted ==
  num_retries > 0 <=> missing # -1

Waited ==
  num_retries > 0 =>
    /\ fetch_in >= 0 => missing + fetch_in >= num_retries * KeyframeInterval
    /\ fetch_in < 0 => missing >= num_retries * KeyframeInterval

\* Only a passed fetch_after switches a retrying stream to catching up.
NoEarlyCatchup ==
  num_retries > 0 /\ catchup => fetch_in = -1

\* A retry in flight left in time, and its answer will find `age` more on the clock.
InFlight ==
  stream_state = "Deltaframes" /\ phase \in {"request", "backoff"} /\ num_retries > 0
    => missing >= Least(num_retries * KeyframeInterval + age,
                        MAX_DELTAFRAME_RETRIES * KeyframeInterval)

\* There are misses only among the deltas, and only deltas are paced.
OnlyDeltasRetry ==
  /\ num_retries > 0 => stream_state \in {"Deltaframes", "Stop"}
  /\ phase = "pace" => stream_state = "Deltaframes"
  /\ stream_state = "Stop" => phase = "idle"

Patience == Counted /\ Waited /\ NoEarlyCatchup /\ InFlight /\ OnlyDeltasRetry

LEMMA PatienceInit == Init => Patience
BY DEF Init, Patience, Counted, Waited, NoEarlyCatchup, InFlight, OnlyDeltasRetry

\* A request for a delta begins: only after the misses so far were waited out.
LEMMA DeltaLoopPatience ==
  ASSUME TypeOK,
         NEW retries \in 0..MAX_DELTAFRAME_RETRIES,
         NEW in \in -1..KeyframeInterval,
         NEW catching_up \in BOOLEAN,
         DeltaLoop(retries, in, catching_up),
         retries > 0 /\ catching_up => in = -1
  PROVE  /\ num_retries' = retries /\ fetch_in' = in
         /\ phase' \in {"request", "pace"} /\ age' = 0
         /\ phase' = "request" /\ retries > 0 => in = -1
         /\ retries > 0 /\ catchup' => in = -1
<1>1. CASE /\ ~catching_up /\ in >= 0
           /\ catchup' = FALSE
           /\ phase' = "pace"
           /\ attempt' = 0 /\ delay' = 0 /\ wake' = 0 /\ age' = 0
           /\ UNCHANGED requests
  BY <1>1 DEF DeltaLoop
<1>2. CASE /\ catching_up \/ in < 0
           /\ catchup' = TRUE
           /\ BeginGet
           /\ CountRequest
  <2>1. retries > 0 => in = -1
    BY <1>2
  <2> QED BY <1>2, <2>1 DEF DeltaLoop, BeginGet
<1> QED BY <1>1, <1>2 DEF DeltaLoop

LEMMA PatienceStep == TypeOK /\ TypeOK' /\ Patience /\ [Next]_vars => Patience'
<1> SUFFICES ASSUME TypeOK, TypeOK', Patience, [Next]_vars PROVE Patience'
  OBVIOUS
<1> DEFINE Due == num_retries * KeyframeInterval
           Limit == MAX_DELTAFRAME_RETRIES * KeyframeInterval
<1>1. /\ KeyframeInterval \in Nat /\ MAX_DELTAFRAME_RETRIES \in Nat \ {0}
      /\ num_retries \in 0..MAX_DELTAFRAME_RETRIES /\ num_retries' \in 0..MAX_DELTAFRAME_RETRIES
      /\ fetch_in \in -1..KeyframeInterval /\ fetch_in' \in -1..KeyframeInterval
      /\ age \in 0..(KeyframeInterval + 1) /\ age' \in 0..(KeyframeInterval + 1)
      /\ missing \in -1..Limit /\ missing' \in -1..Limit
      /\ catchup \in BOOLEAN /\ catchup' \in BOOLEAN
  BY BroadcastAssumption DEF TypeOK
<1>2. /\ Due \in Nat /\ Limit \in Nat /\ Due <= Limit
      /\ num_retries = 0 => Due = 0
      /\ (num_retries + 1) * KeyframeInterval = Due + KeyframeInterval
      /\ num_retries < MAX_DELTAFRAME_RETRIES => Due + KeyframeInterval <= Limit
      /\ KeyframeInterval <= Limit
  <2>1. /\ Due \in Nat /\ Limit \in Nat /\ Due <= Limit
        /\ (num_retries + 1) * KeyframeInterval = Due + KeyframeInterval
    BY <1>1, IntervalProduct
  <2>2. num_retries < MAX_DELTAFRAME_RETRIES => (num_retries + 1) * KeyframeInterval <= Limit
    <3>1. num_retries + 1 \in Nat /\ MAX_DELTAFRAME_RETRIES \in Nat
      BY <1>1
    <3> QED BY <1>1, <3>1, IntervalProduct
  <2>3. 1 * KeyframeInterval <= Limit /\ 1 * KeyframeInterval = KeyframeInterval
    BY <1>1, IntervalProduct
  <2>4. num_retries = 0 => Due = 0
    BY <1>1
  <2> QED BY <2>1, <2>2, <2>3, <2>4
<1>3. FetchAfter \in -1..KeyframeInterval
  BY FetchAfterType
<1> HIDE DEF Due, Limit
<1> USE DEF Counted, Waited, NoEarlyCatchup, InFlight, OnlyDeltasRetry, Least
<1>4. CASE num_retries' = num_retries /\ fetch_in' = fetch_in /\ catchup' = catchup
           /\ missing' = missing /\ stream_state' = stream_state
           /\ phase' = "idle"
  BY <1>4, <1>1, <1>2 DEF Patience, Due, Limit
<1>5. CASE StartStreaming
  BY <1>5, <1>1, <1>2 DEF Patience, StartStreaming, BeginGet, frames, Due, Limit
<1>6. CASE NextPacket
  <2>1. CASE stream_state = "Deltaframes" /\ DeltaLoop(num_retries, fetch_in, catchup)
    <3>1. /\ num_retries' = num_retries /\ fetch_in' = fetch_in
          /\ phase' \in {"request", "pace"} /\ age' = 0
          /\ phase' = "request" /\ num_retries > 0 => fetch_in = -1
          /\ num_retries > 0 /\ catchup' => fetch_in = -1
      BY <1>1, <2>1, DeltaLoopPatience DEF Patience
    <3>2. missing' = missing /\ stream_state' = stream_state
      BY <1>6 DEF NextPacket
    <3> QED BY <1>1, <1>2, <2>1, <3>1, <3>2 DEF Patience, Due, Limit
  <2>2. CASE stream_state # "Deltaframes"
    BY <1>6, <2>2, <1>1, <1>2 DEF Patience, NextPacket, BeginGet, frames, Due, Limit
  <2> QED BY <1>6, <2>1, <2>2 DEF NextPacket
<1>7. CASE PaceOver
  BY <1>7, <1>1, <1>2 DEF Patience, PaceOver, BeginGet, frames, Due, Limit
<1>8. CASE BackoffOver
  BY <1>8, <1>1, <1>2 DEF Patience, BackoffOver, frames, Due, Limit
<1>9. CASE TransientFailure
  BY <1>9, <1>1, <1>2 DEF Patience, TransientFailure, frames, Due, Limit
<1>10. CASE SyncAnswered
  BY <1>10, <1>1, <1>2 DEF Patience, SyncAnswered, EndCall, frames, Due, Limit
<1>11. CASE StartAnswered
  BY <1>11, <1>1, <1>2 DEF Patience, StartAnswered, ReturnPacket, EndCall, frames, Due, Limit
<1>12. CASE FullframeAnswered
  BY <1>12, <1>1, <1>2 DEF Patience, FullframeAnswered, ReturnPacket, EndCall, Due, Limit
<1>13. CASE DeltaAnswered
  BY <1>13, <1>1, <1>2 DEF Patience, DeltaAnswered, ReturnPacket, EndCall, Due, Limit
<1>14. CASE DeltaNotFound
  <2>1. /\ stream_state = "Deltaframes" /\ stream_state' = "Deltaframes"
        /\ phase = "request" /\ num_retries < MAX_DELTAFRAME_RETRIES
        /\ missing' = IF missing = -1 THEN Least(age, Limit) ELSE missing
        /\ DeltaLoop(num_retries + 1, FetchAfter, FALSE)
    BY <1>14 DEF DeltaNotFound, GetReturns, Limit
  <2>2. num_retries + 1 \in 0..MAX_DELTAFRAME_RETRIES
    BY <1>1, <2>1
  <2>3. /\ num_retries' = num_retries + 1 /\ fetch_in' = FetchAfter
        /\ phase' \in {"request", "pace"} /\ age' = 0
        /\ phase' = "request" => FetchAfter = -1
        /\ catchup' => FetchAfter = -1
    <3>1. num_retries + 1 > 0
      BY <1>1
    <3>2. num_retries + 1 > 0 /\ FALSE => FetchAfter = -1
      OBVIOUS
    <3> HIDE DEF Counted, Waited, NoEarlyCatchup, InFlight, OnlyDeltasRetry, Least
    <3>3. /\ num_retries' = num_retries + 1 /\ fetch_in' = FetchAfter
          /\ phase' \in {"request", "pace"} /\ age' = 0
          /\ phase' = "request" /\ num_retries + 1 > 0 => FetchAfter = -1
          /\ num_retries + 1 > 0 /\ catchup' => FetchAfter = -1
      BY <1>3, <2>1, <2>2, <3>2, DeltaLoopPatience
    <3> QED BY <3>1, <3>3
  <2>4. missing' # -1
    BY <1>1, <1>2, <2>1
  <2>5. /\ FetchAfter >= 0 => missing' + FetchAfter >= Due + KeyframeInterval
        /\ FetchAfter < 0 => missing' >= Due + KeyframeInterval
    <3>1. missing' >= Least(Due + age, Limit)
      BY <1>1, <1>2, <2>1 DEF Patience, Due, Limit
    <3>2. Least(Due + age, Limit) \in Nat
      BY <1>1, <1>2
    <3>3. FetchAfter >= 0 => FetchAfter = KeyframeInterval - age
      BY <1>1 DEF FetchAfter
    <3>4. FetchAfter < 0 => age = KeyframeInterval + 1
      BY <1>1 DEF FetchAfter
    <3> QED BY <1>1, <1>2, <1>3, <2>1, <3>1, <3>2, <3>3, <3>4
  <2>6. num_retries' * KeyframeInterval = Due + KeyframeInterval
    BY <1>2, <2>3
  <2> QED BY <1>1, <1>2, <1>3, <2>1, <2>3, <2>4, <2>5, <2>6 DEF Patience, Limit
<1>15. CASE StreamFailed
  BY <1>15, <1>1, <1>2 DEF Patience, StreamFailed, EndCall, frames, Due, Limit
<1>16. CASE Cancel
  BY <1>16, <1>4 DEF Cancel, EndCall, frames
<1>17. CASE Tick
  BY <1>17, <1>1, <1>2 DEF Patience, Tick, Due, Limit
<1>18. CASE UNCHANGED vars
  BY <1>18, <1>1, <1>2 DEF Patience, vars, Due, Limit
<1> QED
  BY <1>5, <1>6, <1>7, <1>8, <1>9, <1>10, <1>11, <1>12, <1>13, <1>14, <1>15, <1>16, <1>17,
     <1>18 DEF Next, Answered

LEMMA PatienceInvariant == Spec => []Patience
<1>1. Init => Patience
  BY PatienceInit
<1>2. TypeOK /\ TypeOK' /\ Patience /\ [Next]_vars => Patience'
  BY PatienceStep
<1> QED BY <1>1, <1>2, TypeCorrect, PTL DEF Spec

\* The n-th retry of a missing delta goes out no earlier than n keyframe intervals
\* after its first miss, whatever was retried or dropped in between
\* (handle_deltaframes, broadcasthttp.rs:332).
THEOREM PolledAtIntervals == Spec => []PolledOncePerInterval
<1>1. TypeOK /\ Patience => PolledOncePerInterval
  <2> SUFFICES ASSUME TypeOK, Patience,
                      stream_state = "Deltaframes", phase \in {"request", "backoff"},
                      num_retries > 0
               PROVE  missing >= num_retries * KeyframeInterval
    BY DEF PolledOncePerInterval
  <2> DEFINE Due == num_retries * KeyframeInterval
             Limit == MAX_DELTAFRAME_RETRIES * KeyframeInterval
  <2>1. /\ num_retries \in Nat /\ KeyframeInterval \in Nat /\ MAX_DELTAFRAME_RETRIES \in Nat
        /\ num_retries <= MAX_DELTAFRAME_RETRIES
        /\ age \in Nat /\ missing \in Int
    BY BroadcastAssumption, LimitsAreNat DEF TypeOK
  <2>2. Due \in Nat /\ Limit \in Nat /\ Due <= Limit
    BY <2>1, IntervalProduct
  <2>3. missing >= Least(Due + age, Limit)
    BY DEF Patience, InFlight
  <2> HIDE DEF Due, Limit
  <2>4. missing >= Due
    BY <2>1, <2>2, <2>3 DEF Least
  <2> QED BY <2>4 DEF Due
<1> QED BY <1>1, TypeCorrect, PatienceInvariant, PTL

\* None ends the deltas only after the fragment was missing for
\* MAX_DELTAFRAME_RETRIES keyframe intervals (next_packet, broadcasthttp.rs:438).
THEOREM GivesUpAfterAllIntervals == Spec => GivesUpOnlyWhenGone
<1>1. TypeOK /\ PolledOncePerInterval /\ [Next]_vars
        => [stream_state = "Deltaframes" /\ stream_state' = "Stop" /\ returned' = "none"
              => missing >= MAX_DELTAFRAME_RETRIES * KeyframeInterval]_vars
  <2> SUFFICES ASSUME TypeOK, PolledOncePerInterval, Next,
                      stream_state = "Deltaframes", stream_state' = "Stop",
                      returned' = "none"
               PROVE  missing >= MAX_DELTAFRAME_RETRIES * KeyframeInterval
    OBVIOUS
  <2>1. StreamFailed
    BY DEF Next, Answered, StartStreaming, NextPacket, PaceOver, BackoffOver, TransientFailure,
           SyncAnswered, StartAnswered, FullframeAnswered, DeltaAnswered, DeltaNotFound, Cancel,
           Tick
  <2>2. phase = "request" /\ num_retries >= MAX_DELTAFRAME_RETRIES
    BY <2>1 DEF StreamFailed, GetReturns, EndCall, Answers
  <2>3. num_retries = MAX_DELTAFRAME_RETRIES /\ num_retries > 0
    BY <2>2, BroadcastAssumption DEF TypeOK
  <2> QED BY <2>2, <2>3 DEF PolledOncePerInterval
<1> QED BY <1>1, TypeCorrect, PolledAtIntervals, PTL DEF Spec, GivesUpOnlyWhenGone

------------------------------------------------------------------------------
(***************************************************************************)
(* The budget of a call.  Its requests are those of the misses before, at  *)
(* most one more than the attempts allowed for each, and those of the get  *)
(* that runs, one for each attempt.                                        *)
(***************************************************************************)
PerMiss == MAX_TRANSIENT_RETRIES + 1

Charged ==
  /\ phase = "idle" => requests = 0
  /\ phase = "pace" => requests <= num_retries * PerMiss
  /\ phase = "request" => requests <= num_retries * PerMiss + attempt + 1
  /\ phase = "backoff" => requests <= num_retries * PerMiss + attempt

\* One request more adds one to what they are bounded by.
LEMMA OneMore ==
  ASSUME NEW sent \in Nat, NEW charged \in Nat, NEW tries \in Nat,
         sent <= charged + tries
  PROVE  \A now \in Nat : now <= sent + 1 => now <= charged + tries + 1
OBVIOUS

\* The head of the loop charges nothing if it waits, and one request if it does not.
LEMMA DeltaLoopCharge ==
  ASSUME TypeOK,
         NEW retries \in 0..MAX_DELTAFRAME_RETRIES,
         NEW in \in -1..KeyframeInterval,
         NEW catching_up \in BOOLEAN,
         DeltaLoop(retries, in, catching_up),
         requests <= retries * PerMiss
  PROVE  Charged'
<1>0. /\ requests \in Nat /\ RequestLimit \in Nat
      /\ num_retries' = retries /\ PerMiss' = PerMiss
  BY LimitsAreNat DEF TypeOK, DeltaLoop, PerMiss
<1>1. CASE phase' = "pace" /\ UNCHANGED requests
  BY <1>0, <1>1 DEF Charged
<1>2. CASE BeginGet /\ CountRequest
  <2>1. phase' = "request" /\ attempt' = 0 /\ requests' <= requests + 1
    BY <1>0, <1>2 DEF BeginGet, CountRequest, Least
  <2>2. retries * PerMiss \in Nat /\ requests' \in Nat
    BY <1>0, <1>2, BroadcastAssumption, IntervalProduct DEF PerMiss, CountRequest, Least
  <2> QED BY <1>0, <2>1, <2>2 DEF Charged
<1> QED BY <1>1, <1>2 DEF DeltaLoop

LEMMA ChargedStep == TypeOK /\ Charged /\ [Next]_vars => Charged'
<1> SUFFICES ASSUME TypeOK, Charged, [Next]_vars PROVE Charged'
  OBVIOUS
<1>1. /\ num_retries \in 0..MAX_DELTAFRAME_RETRIES /\ attempt \in 0..MAX_TRANSIENT_RETRIES
      /\ requests \in Nat /\ RequestLimit \in Nat /\ PerMiss \in Nat /\ PerMiss' = PerMiss
      /\ MAX_TRANSIENT_RETRIES \in Nat /\ MAX_DELTAFRAME_RETRIES \in Nat
      /\ fetch_in \in -1..KeyframeInterval /\ catchup \in BOOLEAN
  BY BroadcastAssumption, LimitsAreNat DEF TypeOK, PerMiss
<1>2. /\ num_retries * PerMiss \in Nat
      /\ (num_retries + 1) * PerMiss = num_retries * PerMiss + PerMiss
  BY <1>1, IntervalProduct
<1>3. CASE StartStreaming \/ (NextPacket /\ stream_state # "Deltaframes")
  <2>1. CASE requests' = 1 /\ phase' = "request" /\ attempt' = 0 /\ UNCHANGED num_retries
    BY <1>1, <1>2, <2>1 DEF Charged
  <2>2. CASE phase' = "idle" /\ requests' = requests /\ phase = "idle"
    BY <2>2 DEF Charged
  <2> QED BY <1>3, <2>1, <2>2 DEF StartStreaming, NextPacket, BeginGet, frames
<1>4. CASE NextPacket /\ stream_state = "Deltaframes"
  <2>1. DeltaLoop(num_retries, fetch_in, catchup) /\ phase = "idle"
    BY <1>4 DEF NextPacket
  <2>2. requests <= num_retries * PerMiss
    BY <1>1, <1>2, <2>1 DEF Charged
  <2> QED BY <1>1, <2>1, <2>2, DeltaLoopCharge
<1>5. CASE PaceOver \/ BackoffOver
  <2>1. /\ phase' = "request" /\ requests' <= requests + 1 /\ requests' \in Nat
        /\ num_retries' = num_retries
    BY <1>1, <1>5 DEF PaceOver, BackoffOver, BeginGet, CountRequest, Least, frames
  <2>2. requests <= num_retries * PerMiss + attempt'
    BY <1>1, <1>2, <1>5 DEF PaceOver, BackoffOver, BeginGet, Charged, http
  <2>3. attempt' \in Nat
    BY <1>1, <1>5 DEF PaceOver, BackoffOver, BeginGet, http
  <2>4. num_retries' * PerMiss' = num_retries * PerMiss
    BY <1>1, <2>1
  <2>5. requests' <= num_retries * PerMiss + attempt' + 1
    BY <1>1, <1>2, <2>1, <2>2, <2>3, OneMore
  <2> QED BY <2>1, <2>4, <2>5 DEF Charged
<1>6. CASE TransientFailure
  BY <1>1, <1>2, <1>6 DEF TransientFailure, Charged, frames
<1>7. CASE DeltaNotFound
  <2> DEFINE missed == num_retries + 1
  <2>1. DeltaLoop(missed, FetchAfter, FALSE)
    BY <1>7 DEF DeltaNotFound
  <2>2. missed \in 0..MAX_DELTAFRAME_RETRIES
    BY <1>1, <1>7 DEF DeltaNotFound
  <2>3. phase = "request"
    BY <1>7 DEF DeltaNotFound, GetReturns
  <2>4. requests <= num_retries * PerMiss + PerMiss
    BY <1>1, <1>2, <2>3 DEF Charged, PerMiss
  <2>5. requests <= missed * PerMiss
    BY <1>2, <2>4
  <2>6. FetchAfter \in -1..KeyframeInterval /\ FALSE \in BOOLEAN
    BY FetchAfterType
  <2> HIDE DEF missed
  <2> QED BY <2>1, <2>2, <2>5, <2>6, DeltaLoopCharge
<1>8. CASE phase' = "idle" /\ requests' = 0
  BY <1>8 DEF Charged
<1>9. CASE UNCHANGED <<phase, requests, num_retries, attempt>>
  BY <1>1, <1>9 DEF Charged
<1>10. SyncAnswered \/ StartAnswered \/ FullframeAnswered \/ DeltaAnswered \/ StreamFailed \/ Cancel
         => phase' = "idle" /\ requests' = 0
  BY DEF SyncAnswered, StartAnswered, FullframeAnswered, DeltaAnswered, StreamFailed, Cancel,
         EndCall, ReturnPacket
<1>11. Tick \/ UNCHANGED vars => UNCHANGED <<phase, requests, num_retries, attempt>>
  BY DEF Tick, vars
<1> QED
  BY <1>3, <1>4, <1>5, <1>6, <1>7, <1>8, <1>9, <1>10, <1>11 DEF Next, Answered

\* One call of next_packet sends the relay no more requests than the retries of both
\* loops allow together (BroadcasHttpClient::get, broadcasthttp.rs:184, in
\* handle_deltaframes, broadcasthttp.rs:332).
THEOREM WithinBudget == Spec => []RequestBudget
<1>1. Init => Charged
  BY DEF Init, Charged
<1>2. TypeOK /\ Charged /\ [Next]_vars => Charged'
  BY ChargedStep
<1>3. TypeOK /\ Charged => RequestBudget
  <2> SUFFICES ASSUME TypeOK, Charged PROVE requests <= RequestLimit
    BY DEF RequestBudget
  <2>1. /\ num_retries \in Nat /\ num_retries <= MAX_DELTAFRAME_RETRIES
        /\ attempt \in Nat /\ attempt + 1 <= PerMiss /\ PerMiss \in Nat /\ requests \in Nat
        /\ MAX_DELTAFRAME_RETRIES \in Nat
        /\ phase \in {"idle", "request", "backoff", "pace"}
    BY BroadcastAssumption, LimitsAreNat DEF TypeOK, PerMiss
  <2>2. /\ num_retries * PerMiss \in Nat
        /\ num_retries * PerMiss <= MAX_DELTAFRAME_RETRIES * PerMiss
        /\ MAX_DELTAFRAME_RETRIES * PerMiss \in Nat
        /\ (MAX_DELTAFRAME_RETRIES + 1) * PerMiss = MAX_DELTAFRAME_RETRIES * PerMiss + PerMiss
    BY <2>1, IntervalProduct
  <2>3. requests <= num_retries * PerMiss + PerMiss
    BY <2>1, <2>2 DEF Charged
  <2>4. requests <= (MAX_DELTAFRAME_RETRIES + 1) * PerMiss
    BY <2>1, <2>2, <2>3
  <2> QED BY <2>4 DEF RequestLimit, PerMiss
<1> QED BY <1>1, <1>2, <1>3, TypeCorrect, PTL DEF Spec

------------------------------------------------------------------------------
(***************************************************************************)
(* The refinement of BroadcastFeed: how many packets were handed over      *)
(* decides the state of the stream, and the fragment it is at.             *)
(***************************************************************************)
Position ==
  /\ stream_state = "Unopened" <=> sync_fragment = -1
  /\ stream_state = "Unopened" => delivered = <<>>
  /\ stream_state = "Start" => delivered = <<>> /\ stream_fragment = sync_fragment
  /\ stream_state = "Fullframe" => Len(delivered) = 1 /\ stream_fragment = sync_fragment
  /\ stream_state = "Deltaframes" =>
       Len(delivered) >= 2 /\ stream_fragment = sync_fragment + Len(delivered) - 2
  /\ stream_state = "Stop" => phase = "idle"

LEMMA PositionStep == TypeOK /\ Position /\ [Next]_vars => Position'
<1> SUFFICES ASSUME TypeOK, Position, [Next]_vars PROVE Position'
  OBVIOUS
<1>0. /\ delivered \in Seq(Packets) /\ Len(delivered) \in Nat
      /\ -1 \notin SyncFragments
      /\ sync_fragment \in Int
  BY BroadcastAssumption DEF TypeOK
<1>1. ASSUME NEW packet
      PROVE  Len(Append(delivered, packet)) = Len(delivered) + 1
  BY <1>0
<1>2. Len(<<>>) = 0
  OBVIOUS
<1> USE DEF EndCall, ReturnPacket
<1>3. CASE SyncAnswered
  BY <1>0, <1>3 DEF SyncAnswered, Position
<1>4. CASE StartAnswered
  BY <1>0, <1>1, <1>2, <1>4 DEF StartAnswered, Position
<1>5. CASE FullframeAnswered
  <2>1. /\ stream_state = "Fullframe" /\ stream_state' = "Deltaframes" /\ phase' = "idle"
        /\ delivered' = Append(delivered, [kind |-> "full", fragment |-> stream_fragment])
        /\ UNCHANGED <<sync_fragment, stream_fragment>>
    BY <1>5 DEF FullframeAnswered
  <2>2. Len(delivered) = 1 /\ stream_fragment = sync_fragment /\ sync_fragment # -1
    BY <2>1 DEF Position
  <2>3. Len(delivered') = 2
    BY <1>1, <2>1, <2>2
  <2> QED BY <1>0, <2>1, <2>2, <2>3 DEF Position
<1>6. CASE DeltaAnswered
  BY <1>0, <1>1, <1>6 DEF DeltaAnswered, Position
<1>7. CASE StreamFailed
  BY <1>7 DEF StreamFailed, Position
<1>8. CASE /\ UNCHANGED <<stream_state, sync_fragment, stream_fragment, delivered>>
           /\ stream_state = "Stop" => phase' = phase
  BY <1>8 DEF Position
<1>9. CASE StartStreaming \/ NextPacket \/ PaceOver \/ BackoffOver \/ TransientFailure
           \/ DeltaNotFound \/ Cancel \/ Tick \/ UNCHANGED vars
  <2>1. UNCHANGED <<stream_state, sync_fragment, stream_fragment, delivered>>
    BY <1>9 DEF StartStreaming, NextPacket, PaceOver, BackoffOver, TransientFailure,
                DeltaNotFound, Cancel, Tick, vars
  <2>2. stream_state = "Stop" => phase' = phase
    BY <1>9 DEF StartStreaming, NextPacket, PaceOver, BackoffOver, TransientFailure,
                DeltaNotFound, Cancel, Tick, vars, Position, http
  <2> QED BY <1>8, <2>1, <2>2
<1> QED
  BY <1>3, <1>4, <1>5, <1>6, <1>7, <1>9 DEF Next, Answered

LEMMA PositionInvariant == Spec => []Position
<1>1. Init => Position
  BY DEF Init, Position
<1>2. TypeOK /\ Position /\ [Next]_vars => Position'
  BY PositionStep
<1> QED BY <1>1, <1>2, TypeCorrect, PTL DEF Spec

\* The stream implements the feed: signup, full frame, then every delta once and in
\* order, and nothing after the stop, for every relay and every dropped call.
THEOREM ImplementsFeed == Spec => FeedSpec
<1>1. Init => Feed!Init
  BY DEF Init, Feed!Init
<1>2. TypeOK /\ Position /\ [Next]_vars => [Feed!Next]_(Feed!feedVars)
  <2> SUFFICES ASSUME TypeOK, Position, [Next]_vars
               PROVE  Feed!Next \/ UNCHANGED Feed!feedVars
    OBVIOUS
  <2>0. /\ delivered \in Seq(Packets) /\ Len(delivered) \in Nat /\ sync_fragment \in Int
        /\ stream_fragment \in Int
    BY BroadcastAssumption DEF TypeOK
  <2> USE DEF Feed!Next, Feed!feedVars
  <2>1. CASE SyncAnswered
    BY <2>1 DEF SyncAnswered, EndCall, Feed!Open
  <2>2. CASE StartAnswered
    <3>1. Len(delivered) + 1 = 1
      BY <2>2 DEF StartAnswered, Position
    <3>2. Feed!PacketAt(sync_fragment, Len(delivered) + 1)
            = [kind |-> "start", fragment |-> SignupFragment]
      BY <3>1 DEF Feed!PacketAt, Feed!StartPacket
    <3>3. Feed!Deliver
      BY <2>2, <3>2 DEF StartAnswered, ReturnPacket, EndCall, Feed!Deliver
    <3> QED BY <3>3
  <2>3. CASE FullframeAnswered
    <3>0. stream_state = "Fullframe"
      BY <2>3 DEF FullframeAnswered
    <3>1. Len(delivered) = 1 /\ stream_fragment = sync_fragment
      BY <3>0 DEF Position
    <3>2. Feed!PacketAt(sync_fragment, Len(delivered) + 1)
            = [kind |-> "full", fragment |-> stream_fragment]
      BY <3>1 DEF Feed!PacketAt, Feed!FullPacket
    <3>3. /\ stream_state' = "Deltaframes" /\ UNCHANGED sync_fragment
          /\ delivered' = Append(delivered, [kind |-> "full", fragment |-> stream_fragment])
      BY <2>3 DEF FullframeAnswered, ReturnPacket
    <3>4. Feed!Deliver
      BY <3>0, <3>2, <3>3 DEF Feed!Deliver
    <3> QED BY <3>4
  <2>4. CASE DeltaAnswered
    <3>1. /\ Len(delivered) >= 2
          /\ stream_fragment = sync_fragment + Len(delivered) - 2
      BY <2>4 DEF DeltaAnswered, Position
    <3>2. /\ Len(delivered) + 1 # 1 /\ Len(delivered) + 1 # 2
          /\ stream_fragment = sync_fragment + (Len(delivered) + 1) - 3
      BY <2>0, <3>1
    <3>3. Feed!PacketAt(sync_fragment, Len(delivered) + 1)
            = [kind |-> "delta", fragment |-> stream_fragment]
      BY <3>2 DEF Feed!PacketAt, Feed!DeltaPacket
    <3>4. Feed!Deliver
      BY <2>4, <3>3 DEF DeltaAnswered, ReturnPacket, EndCall, Feed!Deliver
    <3> QED BY <3>4
  <2>5. CASE StreamFailed
    BY <2>5 DEF StreamFailed, EndCall, Feed!Stop
  <2>6. CASE StartStreaming \/ NextPacket \/ PaceOver \/ BackoffOver \/ TransientFailure
             \/ DeltaNotFound \/ Cancel \/ Tick \/ UNCHANGED vars
    BY <2>6 DEF StartStreaming, NextPacket, PaceOver, BackoffOver, TransientFailure,
                DeltaNotFound, Cancel, Tick, vars
  <2> QED BY <2>1, <2>2, <2>3, <2>4, <2>5, <2>6 DEF Next, Answered
<1> QED
  BY <1>1, <1>2, TypeCorrect, PositionInvariant, PTL DEF Spec, FeedSpec, Feed!Spec

------------------------------------------------------------------------------
(* The buffer.  None of its properties is inductive: a body that is        *)
(* written says nothing of the header read before it.  PlaceInv does, by   *)
(* naming the place of the stream: after `at` commands of those that       *)
(* follow command `start`.  What comes there is the command due, unless    *)
(* the stream went astray.                                                 *)

Place(start, at) ==
  /\ start \in 0..received /\ at \in 0..(received - start)
  /\ stream_buffer = Units(start, received)
  /\ seekable => start = 0
  /\ IF cmd_header = None THEN position = 2 * at
     ELSE at < received - start /\ position = 2 * at + 1
  /\ InHand => cmd_header = start + at + 1
  /\ cmd_header # Astray => due = start + at + 1

PlaceInv ==
  /\ seekable \in BOOLEAN
  /\ received \in 0..MaxReceived /\ due \in 1..received + 1
  /\ total_ticks \in {None, -1} \cup 1..MaxReceived
  /\ \E start, at \in Nat : Place(start, at)

------------------------------------------------------------------------------
\* Halves of the positions, as the provers need them.
LEMMA Halves ==
  ASSUME NEW n \in Nat
  PROVE  /\ (2 * n) % 2 = 0 /\ (2 * n + 1) % 2 = 1 /\ (2 * n + 2) % 2 = 0
         /\ (2 * n + 1 + 1) \div 2 = n + 1 /\ (2 * n + 2) \div 2 = n + 1
OBVIOUS

LEMMA OddOrEven ==
  ASSUME NEW u \in Nat \ {0}
  PROVE  \E n \in Nat : u = 2 * n + 1 \/ u = 2 * n + 2
<1>1. CASE u % 2 = 1
  <2>1. u = 2 * (u \div 2) + 1 /\ u \div 2 \in Nat
    BY <1>1
  <2> QED BY <2>1
<1>2. CASE u % 2 = 0
  <2>1. u = 2 * (u \div 2 - 1) + 2 /\ u \div 2 - 1 \in Nat
    BY <1>2
  <2> QED BY <2>1
<1> QED BY <1>1, <1>2

\* What the units of a stretch of commands are.
LEMMA UnitsAre ==
  ASSUME NEW from \in Nat, NEW to \in Nat, from <= to, to <= MaxReceived
  PROVE  /\ Units(from, to) \in Seq(Unit)
         /\ Len(Units(from, to)) = 2 * (to - from)
         /\ \A n \in Nat : n < to - from =>
              /\ Units(from, to)[2 * n + 1] = Header(from + n + 1)
              /\ Units(from, to)[2 * n + 2] = Body(from + n + 1)
<1>1. ASSUME NEW n \in Nat, n < to - from
      PROVE  /\ Units(from, to)[2 * n + 1] = Header(from + n + 1)
             /\ Units(from, to)[2 * n + 2] = Body(from + n + 1)
             /\ Header(from + n + 1) \in Unit /\ Body(from + n + 1) \in Unit
  <2>1. 2 * n + 1 \in 1..(2 * (to - from)) /\ 2 * n + 2 \in 1..(2 * (to - from))
    BY <1>1
  <2>2. /\ Units(from, to)[2 * n + 1] = Header(from + (2 * n + 1 + 1) \div 2)
        /\ Units(from, to)[2 * n + 2] = Body(from + (2 * n + 2) \div 2)
    BY <2>1, Halves DEF Units
  <2>3. from + n + 1 \in 1..MaxReceived
    BY <1>1, BufferAssumption
  <2> QED BY <2>2, <2>3, Halves DEF Header, Body, Unit
<1>2. 2 * (to - from) \in Nat
  OBVIOUS
<1>3. ASSUME NEW u \in 1..(2 * (to - from)) PROVE Units(from, to)[u] \in Unit
  <2>1. PICK n \in Nat : u = 2 * n + 1 \/ u = 2 * n + 2
    <3>1. u \in Nat \ {0}
      OBVIOUS
    <3> QED BY <3>1, OddOrEven
  <2>2. n < to - from
    BY <2>1
  <2> QED BY <1>1, <2>1, <2>2
<1>4. Units(from, to) = [u \in 1..(2 * (to - from)) |-> Units(from, to)[u]]
  BY DEF Units
<1>5. Units(from, to) \in [1..(2 * (to - from)) -> Unit]
  BY <1>3, <1>4
<1> HIDE DEF Units
<1>6. Units(from, to) \in Seq(Unit) /\ Len(Units(from, to)) = 2 * (to - from)
  BY <1>2, <1>5
<1> QED BY <1>1, <1>6

\* A packet written at the end continues the stretch.
LEMMA UnitsJoin ==
  ASSUME NEW from \in Nat, NEW mid \in Nat, NEW to \in Nat,
         from <= mid, mid <= to, to <= MaxReceived
  PROVE  Units(from, mid) \o Units(mid, to) = Units(from, to)
<1> DEFINE left == Units(from, mid)
           right == Units(mid, to)
           all == Units(from, to)
<1>1. /\ left \in Seq(Unit) /\ Len(left) = 2 * (mid - from)
      /\ \A n \in Nat : n < mid - from =>
           left[2 * n + 1] = Header(from + n + 1) /\ left[2 * n + 2] = Body(from + n + 1)
  <2>1. mid <= MaxReceived
    BY BufferAssumption
  <2> QED BY <2>1, UnitsAre
<1>2. /\ right \in Seq(Unit) /\ Len(right) = 2 * (to - mid)
      /\ \A n \in Nat : n < to - mid =>
           right[2 * n + 1] = Header(mid + n + 1) /\ right[2 * n + 2] = Body(mid + n + 1)
  BY UnitsAre
<1>3. /\ all \in Seq(Unit) /\ Len(all) = 2 * (to - from)
      /\ \A n \in Nat : n < to - from =>
           all[2 * n + 1] = Header(from + n + 1) /\ all[2 * n + 2] = Body(from + n + 1)
  <2>1. from <= to
    OBVIOUS
  <2> QED BY <2>1, UnitsAre
<1> HIDE DEF left, right, all
<1>4. left \o right \in Seq(Unit) /\ Len(left \o right) = Len(all)
  BY <1>1, <1>2, <1>3
<1>5. ASSUME NEW u \in 1..Len(all) PROVE (left \o right)[u] = all[u]
  <2>1. PICK n \in Nat : u = 2 * n + 1 \/ u = 2 * n + 2
    <3>1. u \in Nat \ {0}
      BY <1>3
    <3> QED BY <3>1, OddOrEven
  <2>2. n < to - from
    BY <1>3, <2>1
  <2>3. CASE n < mid - from
    <3>1. u \in 1..Len(left)
      BY <1>1, <2>1, <2>3
    <3>2. (left \o right)[u] = left[u]
      BY <1>1, <1>2, <3>1
    <3> QED BY <1>1, <1>3, <2>1, <2>2, <2>3, <3>2
  <2>4. CASE n >= mid - from
    <3>1. PICK k \in Nat : n = k + (mid - from)
      BY <2>4
    <3>2. k < to - mid /\ mid + k + 1 = from + n + 1
      BY <2>2, <3>1
    <3>3. u > Len(left) /\ u <= Len(left) + Len(right)
      BY <1>1, <1>2, <1>3, <2>1, <2>4
    <3>4. (left \o right)[u] = right[u - Len(left)]
      BY SMTT(60), <1>1, <1>2, <3>3
    <3>5. CASE u = 2 * n + 1
      <4>1. u - Len(left) = 2 * k + 1
        BY <1>1, <3>1, <3>5
      <4>2. right[2 * k + 1] = Header(mid + k + 1)
        BY <1>2, <3>2
      <4>3. all[u] = Header(from + n + 1)
        BY <1>3, <2>2, <3>5
      <4> QED BY <3>2, <3>4, <4>1, <4>2, <4>3
    <3>6. CASE u = 2 * n + 2
      <4>1. u - Len(left) = 2 * k + 2
        BY <1>1, <3>1, <3>6
      <4>2. right[2 * k + 2] = Body(mid + k + 1)
        BY <1>2, <3>2
      <4>3. all[u] = Body(from + n + 1)
        BY <1>3, <2>2, <3>6
      <4> QED BY <3>2, <3>4, <4>1, <4>2, <4>3
    <3> QED BY <2>1, <3>5, <3>6
  <2>5. n < mid - from \/ n >= mid - from
    BY <2>1
  <2> QED BY <2>3, <2>4, <2>5
<1>6. left \o right = all
  BY <1>3, <1>4, <1>5, SeqEqual
<1> QED BY <1>6 DEF left, right, all

------------------------------------------------------------------------------
\* What is in the buffer, where the stream is, and what comes next there.
LEMMA AtPlace ==
  ASSUME PlaceInv, NEW start \in Nat, NEW at \in Nat, Place(start, at)
  PROVE  /\ received \in Nat /\ received <= MaxReceived /\ start <= received
         /\ at <= received - start
         /\ stream_buffer \in Seq(Unit) /\ Len(stream_buffer) = 2 * (received - start)
         /\ \A n \in Nat : n < received - start =>
              /\ stream_buffer[2 * n + 1] = Header(start + n + 1)
              /\ stream_buffer[2 * n + 2] = Body(start + n + 1)
<1>1. /\ received \in Nat /\ received <= MaxReceived /\ start <= received
      /\ at <= received - start /\ stream_buffer = Units(start, received)
  BY BufferAssumption DEF PlaceInv, Place
<1> QED BY <1>1, UnitsAre

\* scan_for_last_tick finds the last command, if the stream is not past it.
LEMMA ScanFinds ==
  ASSUME PlaceInv, NEW start \in Nat, NEW at \in Nat, Place(start, at), cmd_header = None
  PROVE  ScanForLastTick = IF at = received - start THEN -1 ELSE received
<1>1. /\ received \in Nat /\ start <= received /\ at <= received - start
      /\ Len(stream_buffer) = 2 * (received - start) /\ position = 2 * at
      /\ \A n \in Nat : n < received - start =>
           /\ stream_buffer[2 * n + 1] = Header(start + n + 1)
           /\ stream_buffer[2 * n + 2] = Body(start + n + 1)
  BY AtPlace DEF Place
<1>2. CASE at = received - start
  <2>1. Headers(position) = {}
    BY <1>1, <1>2 DEF Headers
  <2> QED BY <1>2, <2>1 DEF ScanForLastTick
<1>3. CASE at # received - start
  <2> DEFINE final == received - start - 1
             last == 2 * final + 1
  <2>1. final \in Nat /\ final < received - start /\ start + final + 1 = received
    BY <1>1, <1>3
  <2>2. stream_buffer[last] = Header(received) /\ stream_buffer[2 * final + 2].part = "body"
    <3> HIDE DEF final
    <3>1. /\ stream_buffer[2 * final + 1] = Header(start + final + 1)
          /\ stream_buffer[2 * final + 2] = Body(start + final + 1)
      BY <1>1, <2>1
    <3>2. stream_buffer[2 * final + 2].part = "body"
      BY <3>1 DEF Body
    <3> QED BY <2>1, <3>1, <3>2
  <2>3. last \in position + 1..Len(stream_buffer) /\ Len(stream_buffer) = 2 * final + 2
    BY <1>1, <1>3
  <2> HIDE DEF final, last
  <2>4. last \in Headers(position)
    BY <2>2, <2>3 DEF Headers, Header
  <2>5. ASSUME NEW u \in Headers(position) PROVE u <= last
    <3>1. u \in position + 1..Len(stream_buffer) /\ stream_buffer[u].part = "header"
      BY DEF Headers
    <3>2. u # 2 * final + 2
      BY <2>2, <3>1
    <3> QED BY <1>1, <2>1, <2>3, <3>1, <3>2 DEF last
  <2>6. ASSUME NEW u \in Headers(position), \A v \in Headers(position) : v <= u
        PROVE  u = last
    <3>1. u <= last /\ last <= u
      BY <2>4, <2>5, <2>6
    <3> QED BY <1>1, <2>3, <3>1 DEF Headers
  <2>7. (CHOOSE u \in Headers(position) : \A v \in Headers(position) : v <= u) = last
    BY <2>4, <2>5, <2>6
  <2>8. ScanForLastTick = stream_buffer[last].cmd
    BY <2>4, <2>7 DEF ScanForLastTick
  <2> QED BY <1>3, <2>2, <2>8 DEF Header
<1> QED BY <1>2, <1>3

------------------------------------------------------------------------------
LEMMA PlaceInit == BufferInit => PlaceInv
<1> SUFFICES ASSUME BufferInit PROVE PlaceInv
  OBVIOUS
<1>1. Units(0, 0) = <<>>
  BY DEF Units
<1>2. Place(0, 0)
  BY <1>1 DEF BufferInit, Place, InHand
<1> QED BY <1>2, BufferAssumption DEF BufferInit, PlaceInv

LEMMA PlaceStep == AppendOnly /\ PlaceInv /\ [BufferNext]_bufferVars => PlaceInv'
<1> SUFFICES ASSUME AppendOnly, PlaceInv, [BufferNext]_bufferVars PROVE PlaceInv'
  OBVIOUS
<1>1. PICK start \in Nat, at \in Nat : Place(start, at)
  BY DEF PlaceInv
<1>2. /\ received \in Nat /\ received <= MaxReceived /\ start <= received
      /\ at <= received - start /\ stream_buffer = Units(start, received)
      /\ stream_buffer \in Seq(Unit) /\ Len(stream_buffer) = 2 * (received - start)
      /\ \A n \in Nat : n < received - start =>
           /\ stream_buffer[2 * n + 1] = Header(start + n + 1)
           /\ stream_buffer[2 * n + 2] = Body(start + n + 1)
  BY <1>1, AtPlace DEF Place
<1>3. ASSUME NEW k \in PacketSizes, BufferNextPacket(k) PROVE PlaceInv'
  <2>1. k \in Nat /\ received + k \in Nat /\ received' = received + k
        /\ received + k <= MaxReceived /\ cmd_header = None /\ cmd_header' = None
    BY <1>2, <1>3, BufferAssumption DEF BufferNextPacket
  <2>2. position = 2 * at /\ position = Len(stream_buffer) /\ at = received - start
    BY <1>1, <1>2, <1>3, <2>1 DEF BufferNextPacket, is_at_eof, Place
  <2>3. CASE seekable
    <3> DEFINE packet == Units(received, received + k)
    <3>1. start = 0 /\ stream_buffer = Units(0, received)
      BY <1>1, <1>2, <2>3 DEF Place
    <3>2. packet \in Seq(Unit) /\ Len(packet) = 2 * k
      BY <1>2, <2>1, UnitsAre
    <3>3. stream_buffer \o packet = Units(0, received + k)
      <4>1. /\ 0 \in Nat /\ 0 <= received /\ received <= received + k
            /\ received \in Nat /\ received + k \in Nat /\ received + k <= MaxReceived
        BY <1>2, <2>1
      <4> QED BY <3>1, <4>1, UnitsJoin
    <3> HIDE DEF packet
    <3>4. /\ stream_buffer' = SubSeq(stream_buffer, 1, position) \o packet
                 \o SubSeq(stream_buffer, position + Len(packet) + 1, Len(stream_buffer))
          /\ position' = position + Len(packet)
          /\ total_ticks' = None /\ due' = received + k + 1
      BY <1>3, <2>3 DEF BufferNextPacket, WriteAll, packet
    <3>5. SubSeq(stream_buffer, 1, position) = stream_buffer
      BY <1>2, <2>2
    <3>6. SubSeq(stream_buffer, position + Len(packet) + 1, Len(stream_buffer)) = <<>>
      BY <1>2, <2>2, <2>1, <3>2
    <3>7. (stream_buffer \o packet) \o <<>> = stream_buffer \o packet
      BY <1>2, <3>2
    <3>8. stream_buffer' = Units(0, received')
      BY <2>1, <3>3, <3>4, <3>5, <3>6, <3>7
    <3>9. position' = 2 * (received + k)
      BY <1>2, <2>1, <2>2, <3>1, <3>2, <3>4
    <3>10. PICK now \in Nat : now = received + k
      BY <2>1
    <3>11. Place(0, now)'
      <4>1. due' = 0 + now + 1 /\ seekable' = seekable
        BY <1>3, <3>4, <3>10 DEF BufferNextPacket
      <4>2. 0 \in 0..received' /\ now \in 0..(received' - 0)
        BY <2>1, <3>10
      <4> QED BY <2>1, <3>8, <3>9, <3>10, <4>1, <4>2 DEF Place, InHand
    <3>12. due' \in 1..received' + 1 /\ received' \in 0..MaxReceived /\ seekable' \in BOOLEAN
      BY <1>2, <1>3, <2>1, <3>4, BufferAssumption DEF PlaceInv, BufferNextPacket
    <3> QED BY <3>4, <3>11, <3>12 DEF PlaceInv
  <2>4. CASE ~seekable
    <3>1. /\ stream_buffer' = Units(received, received + k) /\ position' = 0
          /\ UNCHANGED <<seekable, total_ticks, due>>
      BY <1>3, <2>4 DEF BufferNextPacket, Replace
    <3>2. due = received + 1
      BY <1>1, <1>2, <2>1, <2>2, <2>4 DEF Place, None, Astray
    <3>3. PICK old \in Nat : old = received
      BY <1>2
    <3>4. Place(old, 0)'
      BY <1>2, <2>1, <2>4, <3>1, <3>2, <3>3 DEF Place, InHand
    <3>5. due' \in 1..received' + 1 /\ received' \in 0..MaxReceived
      BY <1>2, <2>1, <3>1, BufferAssumption DEF PlaceInv
    <3> QED BY <3>1, <3>4, <3>5 DEF PlaceInv
  <2> QED BY <2>3, <2>4
<1>4. CASE read_cmd_header
  <2>1. cmd_header = None /\ position = 2 * at /\ at < received - start
    BY <1>1, <1>2, <1>4 DEF read_cmd_header, is_at_eof, Place
  <2>2. stream_buffer[position + 1] = Header(start + at + 1)
    BY <1>2, <2>1
  <2>3. start + at + 1 \notin {None, Astray} /\ None # Astray
    BY DEF None, Astray
  <2>4. cmd_header' \in {Astray, start + at + 1} /\ position' = 2 * at + 1
    BY <1>4, <2>1, <2>2 DEF read_cmd_header, Header
  <2>5. Place(start, at)'
    BY <1>1, <1>4, <2>1, <2>3, <2>4 DEF read_cmd_header, Place, InHand
  <2> QED BY <1>4, <2>5 DEF read_cmd_header, PlaceInv
<1>5. CASE read_cmd
  <2>1. InHand /\ cmd_header # None /\ cmd_header # Astray /\ None # Astray
    BY <1>5 DEF read_cmd, InHand, None, Astray
  <2>2. position = 2 * at + 1 /\ at < received - start /\ due = start + at + 1
    BY <1>1, <2>1 DEF Place
  <2>3. Place(start, at + 1)'
    BY <1>1, <1>2, <1>5, <2>1, <2>2 DEF read_cmd, Place, InHand
  <2>4. due' \in 1..received + 1
    BY <1>2, <1>5, <2>2 DEF read_cmd
  <2> QED BY <1>5, <2>3, <2>4 DEF read_cmd, PlaceInv
<1>6. CASE unread_cmd_header
  <2>1. InHand /\ cmd_header # None /\ cmd_header # Astray /\ None # Astray
    BY <1>6 DEF unread_cmd_header, InHand, None, Astray
  <2>2. position = 2 * at + 1 /\ at < received - start /\ due = start + at + 1
    BY <1>1, <2>1 DEF Place
  <2>3. Place(start, at)'
    BY <1>1, <1>6, <2>1, <2>2 DEF unread_cmd_header, Place, InHand
  <2> QED BY <1>6, <2>3 DEF unread_cmd_header, PlaceInv
<1>7. CASE seek
  <2>1. PICK n \in 0..(Len(stream_buffer) \div 2) : position' = 2 * n /\ due' = n + 1
    BY <1>7 DEF seek
  <2>2. n \in Nat /\ n <= received - start /\ start = 0 /\ seekable
    BY <1>1, <1>2, <1>7, <2>1 DEF seek, Place
  <2>3. Place(start, n)'
    BY <1>1, <1>2, <1>7, <2>1, <2>2 DEF seek, Place, InHand
  <2>4. due' \in 1..received + 1
    BY <1>2, <2>1, <2>2
  <2> QED BY <1>7, <2>3, <2>4 DEF seek, PlaceInv
<1>8. CASE AskTotalTicks
  <2>1. cmd_header = None /\ UNCHANGED <<seekable, stream_buffer, received, due>> /\ None # Astray
    BY <1>8 DEF AskTotalTicks, None, Astray
  <2>2. CASE total_ticks # None
    <3>1. UNCHANGED bufferVars
      BY <1>8, <2>2 DEF AskTotalTicks, bufferVars
    <3>2. Place(start, at)'
      BY <1>1, <3>1 DEF bufferVars, Place, InHand
    <3> QED BY <3>1, <3>2 DEF bufferVars, PlaceInv
  <2>3. CASE ScanEnds
    <3>1. total_ticks' \in {None, -1} \cup 1..MaxReceived
      <4>1. ScanForLastTick \in {-1} \cup 1..MaxReceived
        BY <1>1, <1>2, <2>1, ScanFinds, BufferAssumption
      <4> QED BY <2>3, <4>1 DEF ScanEnds
    <3>2. Place(start, at)'
      BY <1>1, <2>1, <2>3 DEF ScanEnds, Place, InHand
    <3> QED BY <2>1, <2>3, <3>1, <3>2 DEF ScanEnds, PlaceInv
  <2>4. CASE ScanFails
    <3>1. position' \in 1..Len(stream_buffer) /\ stream_buffer[position'].part = "header"
      <4>1. position \in Nat
        BY <1>1, <1>2, <2>1 DEF Place
      <4> QED BY <1>2, <2>4, <4>1 DEF ScanFails, UnknownAhead, Headers
    <3>2. PICK n \in Nat : position' = 2 * n + 1 \/ position' = 2 * n + 2
      <4>1. position' \in Nat \ {0}
        BY <3>1
      <4> QED BY <4>1, OddOrEven
    <3>3. n < received - start
      BY <1>2, <3>1, <3>2
    <3>4. position' = 2 * n + 1
      <4>1. stream_buffer[2 * n + 2] = Body(start + n + 1)
        BY <1>2, <3>3
      <4>2. stream_buffer[2 * n + 2].part # "header"
        BY <4>1 DEF Body
      <4>3. position' # 2 * n + 2
        BY <3>1, <4>2
      <4> QED BY <3>2, <4>3
    <3>5. cmd_header' = Astray
      BY <2>4 DEF ScanFails
    <3>6. Place(start, n)'
      BY <1>1, <1>2, <2>1, <3>3, <3>4, <3>5 DEF Place, InHand
    <3> QED BY <2>1, <2>4, <3>6 DEF ScanFails, PlaceInv
  <2> QED BY <1>8, <2>2, <2>3, <2>4 DEF AskTotalTicks
<1>9. CASE UNCHANGED bufferVars
  <2>1. Place(start, at)'
    BY <1>1, <1>9 DEF bufferVars, Place, InHand
  <2> QED BY <1>9, <2>1 DEF bufferVars, PlaceInv
<1> QED BY <1>3, <1>4, <1>5, <1>6, <1>7, <1>8, <1>9 DEF BufferNext

\* The stream is always at a place: what it holds, where it is in it and which header is
\* in hand belong together (BroadcastHttp, broadcasthttp.rs:258).
THEOREM PlaceInvariant == ASSUME AppendOnly PROVE BufferSpec => []PlaceInv
BY PlaceInit, PlaceStep, PTL DEF BufferSpec

------------------------------------------------------------------------------
\* The stream is between a header and its body exactly when a header is read and its
\* body is not (read_cmd_header, broadcasthttp.rs:486, and read_cmd, broadcasthttp.rs:498).
THEOREM BufferTypeCorrect == ASSUME AppendOnly PROVE BufferSpec => []BufferTypeOK
<1>1. PlaceInv => BufferTypeOK
  <2> SUFFICES ASSUME PlaceInv PROVE BufferTypeOK
    OBVIOUS
  <2>1. PICK start \in Nat, at \in Nat : Place(start, at)
    BY DEF PlaceInv
  <2>2. /\ received \in Nat /\ received <= MaxReceived /\ start <= received
        /\ at <= received - start
        /\ stream_buffer \in Seq(Unit) /\ Len(stream_buffer) = 2 * (received - start)
    BY <2>1, AtPlace
  <2>3. CASE cmd_header = None
    <3>1. position = 2 * at
      BY <2>1, <2>3 DEF Place
    <3>2. position \in 0..Len(stream_buffer) /\ position % 2 = 0
      BY <2>2, <3>1, Halves
    <3> QED BY <2>2, <2>3, <3>2 DEF BufferTypeOK, PlaceInv
  <2>4. CASE cmd_header # None
    <3>1. position = 2 * at + 1 /\ at < received - start
      BY <2>1, <2>4 DEF Place
    <3>2. position \in 0..Len(stream_buffer) /\ position % 2 = 1
      BY <2>2, <3>1, Halves
    <3>3. cmd_header \in {None, Astray} \cup 1..MaxReceived
      <4>1. cmd_header \in {None, Astray} \/ cmd_header = start + at + 1
        BY <2>1 DEF Place, InHand
      <4>2. start + at + 1 \in 1..MaxReceived
        BY <2>2, <3>1, BufferAssumption
      <4> QED BY <4>1, <4>2
    <3> QED BY <2>2, <2>4, <3>2, <3>3 DEF BufferTypeOK, PlaceInv
  <2> QED BY <2>3, <2>4
<1> QED BY <1>1, PlaceInvariant, PTL

\* A body is read for the header that announces it, wherever the stream was moved and
\* whatever packets came in between (read_cmd, broadcasthttp.rs:498).
THEOREM BodiesFollow == ASSUME AppendOnly PROVE BufferSpec => []BodyFollowsHeader
<1>1. PlaceInv => BodyFollowsHeader
  <2> SUFFICES ASSUME PlaceInv, InHand
               PROVE  ~is_at_eof /\ stream_buffer[position + 1] = Body(cmd_header)
    BY DEF BodyFollowsHeader
  <2>1. PICK start \in Nat, at \in Nat : Place(start, at)
    BY DEF PlaceInv
  <2>2. position = 2 * at + 1 /\ at < received - start /\ cmd_header = start + at + 1
    BY <2>1 DEF Place, InHand
  <2>3. /\ received \in Nat /\ start <= received
        /\ Len(stream_buffer) = 2 * (received - start)
        /\ stream_buffer[2 * at + 2] = Body(start + at + 1)
    BY <2>1, <2>2, AtPlace
  <2>4. position + 1 = 2 * at + 2 /\ ~is_at_eof
    BY <2>2, <2>3 DEF is_at_eof
  <2> QED BY <2>2, <2>3, <2>4
<1> QED BY <1>1, PlaceInvariant, PTL

\* The buffer of start_streaming_and_buffer is all that was received, in order
\* (BroadcastHttp::next_packet, broadcasthttp.rs:425).
THEOREM KeepsAll == ASSUME AppendOnly PROVE BufferSpec => []BufferKeepsAll
<1>1. PlaceInv => BufferKeepsAll
  BY DEF PlaceInv, Place, BufferKeepsAll
<1> QED BY <1>1, PlaceInvariant, PTL

\* A host is given the commands in order and once each from where it sought last,
\* though a packet replaces the one before, headers are unread and the stream is scanned
\* for the last tick in between (next_packet, broadcasthttp.rs:412; scan_for_last_tick,
\* demostream.rs:91).
THEOREM SkipsNothing == ASSUME AppendOnly PROVE BufferSpec => []NothingSkipped
<1>1. PlaceInv => NothingSkipped
  <2> SUFFICES ASSUME PlaceInv PROVE NothingSkipped
    OBVIOUS
  <2>1. PICK start \in Nat, at \in Nat : Place(start, at)
    BY DEF PlaceInv
  <2>2. /\ received \in Nat /\ start <= received /\ at <= received - start
        /\ Len(stream_buffer) = 2 * (received - start)
        /\ \A n \in Nat : n < received - start => stream_buffer[2 * n + 1] = Header(start + n + 1)
    BY <2>1, AtPlace DEF Place
  <2>3. InHand => cmd_header = due
    BY <2>1 DEF Place, InHand
  <2>4. ASSUME cmd_header = None
        PROVE  IF is_at_eof THEN due = received + 1 ELSE stream_buffer[position + 1] = Header(due)
    <3>1. position = 2 * at /\ due = start + at + 1
      BY <2>1, <2>4 DEF Place, None, Astray
    <3>2. CASE at = received - start
      BY <2>2, <3>1, <3>2 DEF is_at_eof
    <3>3. CASE at < received - start
      <4>1. ~is_at_eof
        BY <2>2, <3>1, <3>3 DEF is_at_eof
      <4>2. stream_buffer[2 * at + 1] = Header(start + at + 1)
        BY <2>2, <3>3
      <4> QED BY <3>1, <4>1, <4>2
    <3> QED BY <2>2, <3>2, <3>3
  <2> QED BY <2>3, <2>4 DEF NothingSkipped
<1> QED BY <1>1, PlaceInvariant, PTL

------------------------------------------------------------------------------
TicksInv == TotalTicksIsLast /\ (~seekable => total_ticks = None)

\* The cached last tick is the last command's at all times, wherever it is asked for
\* with commands ahead (total_ticks, broadcasthttp.rs:617).
THEOREM TicksCorrect == ASSUME AppendOnly, AskAhead PROVE BufferSpec => []TotalTicksIsLast
<1>1. BufferInit => TicksInv
  BY DEF BufferInit, TicksInv, TotalTicksIsLast
<1>2. PlaceInv /\ TicksInv /\ [BufferNext]_bufferVars => TicksInv'
  <2> SUFFICES ASSUME PlaceInv, TicksInv, [BufferNext]_bufferVars PROVE TicksInv'
    OBVIOUS
  <2>1. CASE AskTotalTicks /\ ScanEnds
    <3>1. PICK start \in Nat, at \in Nat : Place(start, at)
      BY DEF PlaceInv
    <3>2. /\ seekable /\ cmd_header = None /\ start = 0 /\ position = 2 * at
          /\ at <= received /\ received \in Nat
          /\ Len(stream_buffer) = 2 * received
      BY <2>1, <3>1, AtPlace DEF AskTotalTicks, Place
    <3>3. ScanForLastTick = IF at = received - start THEN -1 ELSE received
      BY <3>1, <3>2, ScanFinds
    <3>4. at < received \/ received = 0
      BY <2>1, <3>2 DEF AskTotalTicks, is_at_eof
    <3>5. ScanForLastTick = IF received = 0 THEN -1 ELSE received
      BY <3>2, <3>3, <3>4
    <3>6. total_ticks' = ScanForLastTick /\ UNCHANGED <<received, seekable>>
      BY <2>1 DEF AskTotalTicks, ScanEnds
    <3> QED BY <3>2, <3>5, <3>6 DEF TicksInv, TotalTicksIsLast
  <2>2. CASE \E k \in PacketSizes : BufferNextPacket(k)
    BY <2>2 DEF BufferNextPacket, TicksInv, TotalTicksIsLast
  <2>3. CASE UNCHANGED <<total_ticks, received, seekable>>
    BY <2>3 DEF TicksInv, TotalTicksIsLast
  <2> QED BY <2>1, <2>2, <2>3
          DEF BufferNext, read_cmd_header, read_cmd, unread_cmd_header, seek, AskTotalTicks,
              ScanFails, bufferVars
<1> QED BY <1>1, <1>2, PlaceInvariant, PTL DEF BufferSpec, TicksInv
================================================================================
