---------------------------- MODULE BroadcastHttp ----------------------------
(***************************************************************************)
(* haste_broadcast: the http client with its transient retries             *)
(* (BroadcasHttpClient::get), and the stream on top of it                  *)
(* (BroadcastHttp::start_streaming and next_packet), against a relay that  *)
(* answers anything at any time and a caller that may drop the future of a *)
(* call while it waits.                                                    *)
(*                                                                         *)
(* Time is kept as countdowns.  The code's fetch_after is an instant;      *)
(* fetch_in is how far ahead of now it lies, with -1 for "in the past",    *)
(* which is all that elapsed() and duration_since() tell apart.            *)
(***************************************************************************)
EXTENDS Integers, Sequences

CONSTANTS
  MAX_DELTAFRAME_RETRIES,         \* 404s forgiven per delta fragment
  MAX_TRANSIENT_RETRIES,          \* repeats of one request in BroadcasHttpClient::get
  TRANSIENT_RETRY_INITIAL_DELAY,  \* first backoff
  TRANSIENT_RETRY_MAX_DELAY,      \* cap of the doubling backoff
  KeyframeInterval,               \* sync_response.keyframe_interval
  SyncFragments,                  \* the fragments that /sync may name
  SignupFragment,                 \* sync_response.signup_fragment
  LastFragment,                   \* bound: the relay has no fragment after it
  MaxCancels                      \* bound: how often the caller drops a call

ASSUME BroadcastAssumption ==
  /\ MAX_DELTAFRAME_RETRIES \in Nat \ {0}
  /\ MAX_TRANSIENT_RETRIES \in Nat
  /\ TRANSIENT_RETRY_INITIAL_DELAY \in Nat
  /\ TRANSIENT_RETRY_MAX_DELAY \in Nat
  /\ KeyframeInterval \in Nat
  /\ SyncFragments \subseteq Nat
  /\ SignupFragment \in Nat
  /\ LastFragment \in Nat
  /\ MaxCancels \in Nat

VARIABLES
  \* the BroadcastHttp value; stream_state is "Unopened" until it exists
  stream_state, sync_fragment, stream_fragment,
  num_retries, fetch_in, catchup,   \* the fields of StreamState::Deltaframes
  \* the call in progress: where its future waits, and its locals
  phase,            \* "idle", "request", "backoff" (in get) or "pace" (handle_deltaframes)
  attempt, delay,   \* locals of get
  wake,             \* what is left of the backoff sleep
  age,              \* time since `start` of handle_deltaframes, up to KeyframeInterval + 1
  \* what the caller sees
  returned,         \* outcome of the last call, "pending" while it runs
  delivered,        \* every packet returned so far
  \* history
  missing,          \* time since the first 404'd request for this fragment began, -1 if none
  requests,         \* requests sent by the call in progress
  cancels           \* calls dropped so far

http   == <<attempt, delay, wake>>
frames == <<num_retries, fetch_in, catchup>>
vars   == <<stream_state, sync_fragment, stream_fragment, num_retries, fetch_in,
            catchup, phase, attempt, delay, wake, age, returned, delivered,
            missing, requests, cancels>>

Feed == INSTANCE BroadcastFeed WITH
  opened <- stream_state # "Unopened", first <- sync_fragment,
  packets <- delivered, stopped <- stream_state = "Stop"

Least(a, b) == IF a <= b THEN a ELSE b

\* What one execution of a request comes to.  "server_error" stands for every
\* failure is_transient accepts (5xx, connection and body errors),
\* "client_error" for the ones it rejects, other than 404.
Answers == {"ok", "not_found", "server_error", "client_error"}
is_transient(answer) == answer = "server_error"

\* The relay can only serve what exists; it may fail to at any time.
Serves(answer, fragment) == answer = "ok" => fragment <= LastFragment

------------------------------------------------------------------------------
Init ==
  /\ stream_state = "Unopened" /\ sync_fragment = -1 /\ stream_fragment = -1
  /\ num_retries = 0 /\ fetch_in = -1 /\ catchup = TRUE
  /\ phase = "idle" /\ attempt = 0 /\ delay = 0 /\ wake = 0 /\ age = 0
  /\ returned = "unit" /\ delivered = <<>>
  /\ missing = -1 /\ requests = 0 /\ cancels = 0

\* BroadcasHttpClient::get up to its first await.
BeginGet ==
  /\ phase' = "request"
  /\ attempt' = 0 /\ delay' = TRANSIENT_RETRY_INITIAL_DELAY /\ wake' = 0
  /\ age' = 0

\* What one call may send: every delta miss, each repeated on transient failures.
RequestLimit == (MAX_DELTAFRAME_RETRIES + 1) * (MAX_TRANSIENT_RETRIES + 1)

\* History: one more request of this call, counted up to one over the limit.
CountRequest == requests' = Least(requests + 1, RequestLimit + 1)

\* The call is over (or dropped): its locals are gone.
EndCall(outcome) ==
  /\ phase' = "idle" /\ attempt' = 0 /\ delay' = 0 /\ wake' = 0 /\ age' = 0
  /\ requests' = 0
  /\ returned' = outcome

\* The head of the loop of handle_deltaframes, for the given Deltaframes fields:
\* wait out fetch_after unless catching up or it has passed.
DeltaLoop(retries, in, catching_up) ==
  /\ num_retries' = retries /\ fetch_in' = in
  /\ \/ /\ ~catching_up /\ in >= 0
        /\ catchup' = FALSE
        /\ phase' = "pace"
        /\ attempt' = 0 /\ delay' = 0 /\ wake' = 0 /\ age' = 0
        /\ UNCHANGED requests
     \/ /\ catching_up \/ in < 0
        /\ catchup' = TRUE
        /\ BeginGet
        /\ CountRequest

StartStreaming ==
  /\ phase = "idle" /\ stream_state = "Unopened"
  /\ BeginGet
  /\ returned' = "pending" /\ requests' = 1
  /\ UNCHANGED <<stream_state, sync_fragment, stream_fragment, frames, delivered,
                 missing, cancels>>

\* next_packet up to its first await.
NextPacket ==
  /\ phase = "idle"
  /\ \/ /\ stream_state = "Stop"
        /\ returned' = "none"
        /\ UNCHANGED <<phase, http, age, frames, requests>>
     \/ /\ stream_state \in {"Start", "Fullframe"}
        /\ BeginGet
        /\ returned' = "pending" /\ requests' = 1
        /\ UNCHANGED frames
     \/ /\ stream_state = "Deltaframes"
        /\ DeltaLoop(num_retries, fetch_in, catchup)
        /\ returned' = "pending"
  /\ UNCHANGED <<stream_state, sync_fragment, stream_fragment, delivered, missing, cancels>>

\* The pacing sleep of handle_deltaframes ends: straight to the request.
PaceOver ==
  /\ phase = "pace" /\ fetch_in <= 0
  /\ BeginGet
  /\ CountRequest
  /\ UNCHANGED <<stream_state, sync_fragment, stream_fragment, frames, returned,
                 delivered, missing, cancels>>

------------------------------------------------------------------------------
\* Mutant: the attempts are never counted.
TransientFailureUncounted ==
  /\ phase = "request" /\ attempt < MAX_TRANSIENT_RETRIES
  /\ phase' = "backoff"
  /\ wake' = delay
  /\ delay' = Least(delay * 2, TRANSIENT_RETRY_MAX_DELAY)
  /\ UNCHANGED <<stream_state, sync_fragment, stream_fragment, frames, attempt, age, returned,
                 delivered, missing, requests, cancels>>

\* get: a transient failure with attempts left goes to sleep before the repeat.
TransientFailure ==
  /\ phase = "request" /\ attempt < MAX_TRANSIENT_RETRIES
  /\ phase' = "backoff"
  /\ attempt' = attempt + 1
  /\ wake' = delay
  /\ delay' = Least(delay * 2, TRANSIENT_RETRY_MAX_DELAY)
  /\ UNCHANGED <<stream_state, sync_fragment, stream_fragment, frames, age, returned,
                 delivered, missing, requests, cancels>>

BackoffOver ==
  /\ phase = "backoff" /\ wake = 0
  /\ phase' = "request"
  /\ CountRequest
  /\ UNCHANGED <<stream_state, sync_fragment, stream_fragment, frames, http, age,
                 returned, delivered, missing, cancels>>

\* get returns this answer to its caller.
GetReturns(answer) ==
  /\ phase = "request"
  /\ is_transient(answer) => attempt >= MAX_TRANSIENT_RETRIES

\* start_streaming: Self is built on the answer to /sync; any error is the caller's.
SyncAnswered ==
  /\ stream_state = "Unopened"
  /\ \/ \E fragment \in SyncFragments :
          /\ GetReturns("ok")
          /\ stream_state' = "Start"
          /\ sync_fragment' = fragment /\ stream_fragment' = fragment
          /\ EndCall("unit")
     \/ \E answer \in Answers \ {"ok"} :
          /\ GetReturns(answer)
          /\ EndCall("error")
          /\ UNCHANGED <<stream_state, sync_fragment, stream_fragment>>
  /\ UNCHANGED <<frames, delivered, missing, cancels>>

\* next_packet on Ok: the packet is handed over.
ReturnPacket(packet) ==
  /\ delivered' = Append(delivered, packet)
  /\ EndCall("packet")

StartAnswered ==
  /\ stream_state = "Start" /\ GetReturns("ok")
  /\ stream_state' = "Fullframe"
  /\ ReturnPacket([kind |-> "start", fragment |-> SignupFragment])
  /\ UNCHANGED <<sync_fragment, stream_fragment, frames, missing, cancels>>

\* Mutant: the full frame counts as the first delta of its fragment.
FullframeAnsweredAdvances ==
  /\ stream_state = "Fullframe" /\ GetReturns("ok") /\ Serves("ok", stream_fragment)
  /\ stream_state' = "Deltaframes"
  /\ num_retries' = 0 /\ fetch_in' = 0 /\ catchup' = TRUE
  /\ stream_fragment' = stream_fragment + 1
  /\ ReturnPacket([kind |-> "full", fragment |-> stream_fragment])
  /\ UNCHANGED <<sync_fragment, missing, cancels>>

\* stream_fragment stays: the delta of the full frame's fragment comes next.
FullframeAnswered ==
  /\ stream_state = "Fullframe" /\ GetReturns("ok") /\ Serves("ok", stream_fragment)
  /\ stream_state' = "Deltaframes"
  /\ num_retries' = 0 /\ fetch_in' = 0 /\ catchup' = TRUE
  /\ ReturnPacket([kind |-> "full", fragment |-> stream_fragment])
  /\ UNCHANGED <<sync_fragment, stream_fragment, missing, cancels>>

\* Mutant: fetch_after is set to now.
FetchAfterNow == 0

\* start + keyframe_interval, seen from now.
FetchAfter == IF age <= KeyframeInterval THEN KeyframeInterval - age ELSE -1

\* Mutant: a delivered fragment leaves the retries of the next one spent.
DeltaAnsweredKeepsRetries ==
  /\ stream_state = "Deltaframes" /\ GetReturns("ok") /\ Serves("ok", stream_fragment)
  /\ stream_fragment' = stream_fragment + 1
  /\ fetch_in' = FetchAfter
  /\ missing' = -1
  /\ ReturnPacket([kind |-> "delta", fragment |-> stream_fragment])
  /\ UNCHANGED <<stream_state, sync_fragment, num_retries, catchup, cancels>>

DeltaAnswered ==
  /\ stream_state = "Deltaframes" /\ GetReturns("ok") /\ Serves("ok", stream_fragment)
  /\ stream_fragment' = stream_fragment + 1
  /\ num_retries' = 0 /\ fetch_in' = FetchAfter
  /\ missing' = -1
  /\ ReturnPacket([kind |-> "delta", fragment |-> stream_fragment])
  /\ UNCHANGED <<stream_state, sync_fragment, catchup, cancels>>

\* Mutant: a 404 is not counted.
DeltaNotFoundUncounted ==
  /\ stream_state = "Deltaframes" /\ GetReturns("not_found")
  /\ DeltaLoop(num_retries, FetchAfter, FALSE)
  /\ missing' = IF missing = -1
                THEN Least(age, MAX_DELTAFRAME_RETRIES * KeyframeInterval)
                ELSE missing
  /\ UNCHANGED <<stream_state, sync_fragment, stream_fragment, returned, delivered, cancels>>

\* Mutant: a 404 is retried without end.
DeltaNotFoundUnlimited ==
  /\ stream_state = "Deltaframes" /\ GetReturns("not_found")
  /\ DeltaLoop(num_retries + 1, FetchAfter, FALSE)
  /\ missing' = IF missing = -1
                THEN Least(age, MAX_DELTAFRAME_RETRIES * KeyframeInterval)
                ELSE missing
  /\ UNCHANGED <<stream_state, sync_fragment, stream_fragment, returned, delivered, cancels>>

\* A 404 with retries left: note when to ask again, and go round the loop.
DeltaNotFound ==
  /\ stream_state = "Deltaframes" /\ GetReturns("not_found")
  /\ num_retries < MAX_DELTAFRAME_RETRIES
  /\ DeltaLoop(num_retries + 1, FetchAfter, FALSE)
  /\ missing' = IF missing = -1
                THEN Least(age, MAX_DELTAFRAME_RETRIES * KeyframeInterval)
                ELSE missing
  /\ UNCHANGED <<stream_state, sync_fragment, stream_fragment, returned, delivered, cancels>>

\* next_packet on Err: the stream stops; a 404 becomes None, the rest is surfaced.
StreamFailed ==
  /\ stream_state \in {"Start", "Fullframe", "Deltaframes"}
  /\ \E answer \in Answers \ {"ok"} :
       /\ GetReturns(answer)
       /\ stream_state = "Deltaframes" /\ answer = "not_found"
            => num_retries >= MAX_DELTAFRAME_RETRIES
       /\ EndCall(IF answer = "not_found" THEN "none" ELSE "error")
  /\ stream_state' = "Stop"
  /\ UNCHANGED <<sync_fragment, stream_fragment, frames, delivered, missing, cancels>>

------------------------------------------------------------------------------
\* The caller drops the future of its call at an await: locals are lost, the
\* fields of BroadcastHttp are not.
Cancel ==
  /\ phase # "idle" /\ cancels < MaxCancels
  /\ EndCall("dropped")
  /\ cancels' = cancels + 1
  /\ UNCHANGED <<stream_state, sync_fragment, stream_fragment, frames, delivered, missing>>

\* One unit of time passes.
Tick ==
  /\ wake' = IF wake > 0 THEN wake - 1 ELSE 0
  /\ age' = IF phase = "request" \/ phase = "backoff"
            THEN Least(age + 1, KeyframeInterval + 1) ELSE age
  /\ fetch_in' = IF fetch_in >= 0 THEN fetch_in - 1 ELSE -1
  /\ missing' = IF missing = -1 THEN -1
                ELSE Least(missing + 1, MAX_DELTAFRAME_RETRIES * KeyframeInterval)
  /\ UNCHANGED <<stream_state, sync_fragment, stream_fragment, num_retries, catchup, phase,
                 attempt, delay, returned, delivered, requests, cancels>>

Answered ==
  \/ TransientFailure \/ SyncAnswered \/ StartAnswered \/ FullframeAnswered
  \/ DeltaAnswered \/ DeltaNotFound \/ StreamFailed

Next ==
  \/ StartStreaming \/ NextPacket \/ PaceOver \/ BackoffOver
  \/ Answered \/ Cancel \/ Tick

Spec == Init /\ [][Next]_vars

\* Every request comes to some answer, time passes, the runtime polls a woken
\* task, and the caller keeps asking for packets.
Fairness ==
  /\ WF_vars(Answered) /\ WF_vars(Tick)
  /\ WF_vars(BackoffOver) /\ WF_vars(PaceOver) /\ WF_vars(NextPacket)

FairSpec == Spec /\ Fairness

------------------------------------------------------------------------------
Packets == [kind : {"start", "full", "delta"}, fragment : Nat]

\* The stream is always in one of the states the code names, its counters
\* within their limits and its timers within theirs.
TypeOK ==
  /\ stream_state \in {"Unopened", "Start", "Fullframe", "Deltaframes", "Stop"}
  /\ sync_fragment \in SyncFragments \cup {-1}
  /\ stream_fragment \in IF stream_state = "Unopened" THEN {-1} ELSE Nat
  /\ num_retries \in 0..MAX_DELTAFRAME_RETRIES
  /\ fetch_in \in -1..KeyframeInterval
  /\ catchup \in BOOLEAN
  /\ phase \in {"idle", "request", "backoff", "pace"}
  /\ attempt \in 0..MAX_TRANSIENT_RETRIES
  /\ delay \in Nat /\ wake \in Nat
  /\ age \in 0..(KeyframeInterval + 1)
  /\ returned \in {"unit", "pending", "packet", "none", "error", "dropped"}
  /\ delivered \in Seq(Packets)
  /\ missing \in -1..(MAX_DELTAFRAME_RETRIES * KeyframeInterval)
  /\ requests \in 0..(RequestLimit + 1)
  /\ cancels \in 0..MaxCancels

\* What the caller is handed is what BroadcastFeed promises: no fragment is
\* skipped or repeated, whatever was retried, timed out or dropped on the way.
FeedSpec == Feed!Spec

\* A request for a delta that was already missing num_retries times goes out
\* only when that many keyframe intervals have passed since the first miss: the
\* relay is polled once per interval, also when calls are dropped in between.
PolledOncePerInterval ==
  stream_state = "Deltaframes" /\ phase \in {"request", "backoff"} /\ num_retries > 0
    => missing >= num_retries * KeyframeInterval

\* The deltas are declared over (None) only after the fragment was missing for
\* MAX_DELTAFRAME_RETRIES keyframe intervals, never on the misses of an earlier one.
GivesUpOnlyWhenGone ==
  [][stream_state = "Deltaframes" /\ stream_state' = "Stop" /\ returned' = "none"
       => missing >= MAX_DELTAFRAME_RETRIES * KeyframeInterval]_vars

\* One call sends the relay at most this many requests, through both retry loops.
RequestBudget == requests <= RequestLimit

\* A caller that keeps asking reaches the end of a broadcast that has one: no
\* chain of retries, pauses and dropped calls goes on for ever.
StreamEnds == stream_state = "Start" ~> stream_state = "Stop"
==============================================================================
