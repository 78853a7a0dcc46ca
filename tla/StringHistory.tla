----------------------------- MODULE StringHistory -----------------------------
(***************************************************************************)
(* The key history of StringTable::parse_update.  A key may be written as  *)
(* a reference into the keys of the message so far, and counts positions   *)
(* in a list that drops its oldest key when it is full.  The code keeps a  *)
(* ring and never moves a key.  `list` is what the references mean.        *)
(***************************************************************************)
EXTENDS Integers, Sequences

CONSTANTS HISTORY_SIZE, Keys, NoKey

ASSUME HistoryAssumption == HISTORY_SIZE \in Nat \ {0} /\ NoKey \notin Keys

VARIABLES
  history,               \* StringTable.history, which outlives a message
  history_delta_index,   \* keys of this message so far, a local of parse_update
  list                   \* the list the references count in

historyVars == <<history, history_delta_index, list>>

EmptyRing == [n \in 0..(HISTORY_SIZE - 1) |-> NoKey]

HistoryInit ==
  /\ history = EmptyRing
  /\ history_delta_index = 0
  /\ list = <<>>

\* Mutant of HistoryIndex: the oldest key is taken to be in the first slot.
HistoryIndexUnshifted(ref) == ref % HISTORY_SIZE

HistoryIndex(ref) ==
  LET history_delta_zero == IF history_delta_index > HISTORY_SIZE
                            THEN history_delta_index % HISTORY_SIZE ELSE 0
  IN (history_delta_zero + ref) % HISTORY_SIZE

\* Mutant of HistoryBegin: the counter is kept with the ring.
HistoryBeginOn == list' = <<>> /\ UNCHANGED <<history, history_delta_index>>

\* A new message: the counter is a local, the ring is not cleared.
HistoryBegin == history_delta_index' = 0 /\ list' = <<>> /\ UNCHANGED history

\* A new table has a new ring.
HistoryReset == history' = EmptyRing /\ history_delta_index' = 0 /\ list' = <<>>

\* The key written is entered in the list, the key read in the ring.
HistoryAdd(written, read) ==
  /\ history' = [history EXCEPT ![history_delta_index % HISTORY_SIZE] = read]
  /\ history_delta_index' = history_delta_index + 1
  /\ list' = Append(IF Len(list) = HISTORY_SIZE THEN Tail(list) ELSE list, written)

\* A reference to any key that the list still has finds that key in the ring.
RingIsList == \A n \in 1..Len(list) : history[HistoryIndex(n - 1)] = list[n]
==============================================================================
