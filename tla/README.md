# haste, modelled in TLA+

haste reads Source 2 demos (Deadlock, Dota 2): recorded files, and live
broadcasts that a relay serves over HTTP. This directory models the parts of it
whose correctness depends on an order of events: retries and pauses against a
relay, a buffer that is written and read through one cursor, a parser that is
stopped, rewound, and started in the middle of a recording, commands that
arrive in pieces, tables and entities that are changed by differences, and bits
that two readers must agree on. `PROJECT.json` lists the runs, the mutants, the
lines every definition stands for, the findings and the hazards.

    tlc -workers 2 -config MCBroadcastHttp.cfg MCBroadcastHttp.tla
    tlapm BroadcastProofs.tla
    tlapm FileStreamProofs.tla
    tlapm EntityProofs.tla
    tlapm StringTablesProofs.tla
    tlapm AsyncStreamsProofs.tla
    tlapm LoopFacts.tla
    tlapm DemoSessionProofs.tla
    tlapm DemoSessionLogProofs.tla

## The system

| component | state | operations | what makes it correct |
|---|---|---|---|
| broadcast http client, `haste_broadcast/src/broadcasthttp.rs` | locals of one `get`: attempt, delay | `get` with exponential backoff; `get_sync`, `get_start`, `get_fragment` | transient failures repeated a bounded number of times, 4xx handed back at once |
| broadcast stream, same file | `stream_state` with `num_retries`, `fetch_after`, `catchup`; `stream_fragment` | `start_streaming`, `next_packet` (`handle_start`, `handle_fullframe`, `handle_deltaframes`) | packets in order, none lost or repeated; the relay asked at the right pace; the end noticed, and only then |
| broadcast buffer, same file and `demostream.rs` | `StreamBuffer::Last` or `Seekable`, `total_ticks` | what `next_packet` stores, `read_cmd_header`, `read_cmd`, `skip_cmd`, `seek`, `total_ticks` | what was received can be read, once and in order, or again after a seek |
| demo and broadcast files, `demofile.rs`, `broadcastfile.rs` | reader position, cached file info or last tick | the same stream operations, `file_info`, `total_ticks`, `is_at_eof` | a position is always at a command, also after a question that fails; a file that is cut off is not taken for one that ends |
| parser, `haste_core/src/parser.rs` | stream, `Context`, `skip_entity_packets`, visitor | `run_to_end`, `run_to_tick`, `scan_full_packet_ticks`, `run_full_packet` | wherever a call stops, state is the game's there; a visitor sees what happened, once |
| async parser, same file | the same without seeking | `run_to_end`, `run_to_end_final_state` | the same over a stream that arrives in pieces |
| async streams: `packet_channel_demo_stream.rs`, `packet_channel_broadcast_stream.rs`, `async_demofile.rs`, `async_broadcast_stream.rs` | bytes received and not yet read; over an `AsyncRead` none, but for those of the read in progress | `ensure_bytes` or `read_exact`, `start_reading`, `read_cmd_header`, `read_cmd` | packet boundaries do not show; the end is where the bytes end; a run that is dropped and called again goes on where it was |
| entity container, `entities.rs` | live entities, decoded class baselines, skipped indexes | create, update, delete, leave | an update reaches the entity its index means |
| string tables, `stringtables.rs`, instance baseline, `instancebaseline.rs` | tables of items, key history, baseline bytes | `parse_update`, `do_full_update`, `update` | the baseline of a class is what the table says |
| field paths, decoders, serializers, bit reader | per-message locals; tables built once | read paths, decode or skip a field | the paths are those that were written; skipping consumes what decoding consumes; a field has the key its name gives |
| `haste_vartype` | tokens ahead | parse a C++ type expression | what is read is what was written, and nothing else is taken for a type |

The host owns everything and calls it from one task. In a live broadcast it
alternates: `next_packet` puts a packet in the buffer (awaiting the relay), then
a parser reads commands out of the buffer until it is empty. The parser calls the
stream through `DemoStream`, changes `Context` through string tables, instance
baseline and entity container, and reports to the host through `Visitor`
callbacks. Nothing is shared between threads; concurrency is between the host,
which may drop the future of `next_packet` at any await, the relay, and the clock.

What is hard here: two retry loops, one in the other, over state that survives a
dropped call; an instant taken before a request of unknown length; one cursor for
a writer and a reader; state of a parser that some calls keep and others drop; a
seek that decides by arithmetic on ticks which snapshot to trust; a segment that
must reproduce a parse it did not make; errors that leave a reader, a flag or a
visitor where the next call finds it.

## Modules

**BroadcastFeed** is the abstract promise of `next_packet`: the signup packet,
the full frame of the fragment that `/sync` named, then the deltas from that
fragment on, none skipped, none twice; a stopped stream stays stopped.

**BroadcastHttp** is the stream itself. A call of `next_packet` is spread over
the points where its future waits: `request` (in `get_once`), `backoff` (the
sleep in `get`) and `pace` (the sleep in `handle_deltaframes`); what runs between
two awaits is one action. `NextPacket` and `StartStreaming` begin a call; the
`...Answered` actions, `DeltaNotFound`, `TransientFailure` and `StreamFailed` are
an answer and everything the code does with it up to the next await or return;
`Cancel` drops the future, which forgets the locals (`attempt`, `delay`, `start`)
and keeps the fields. Instants are countdowns that `Tick` lowers: `fetch_in` is
`fetch_after` seen from now, -1 for "passed". `missing` and `requests` are history
variables. The relay is free to answer anything to any request, except that it
does not serve fragments after `LastFragment`.

**BroadcastBuffer** is the same type seen as a `DemoStream`. The buffer is a
sequence of units, header or body of a numbered command, and the position counts
units. `BufferNextPacket` stores what `BroadcastHttp` delivers; the other actions are
the stream operations. `seekable` is which constructor was called. `AppendOnly` and
`AskAhead` say what the host does: poll only with the stream at its end, ask
for `total_ticks` only with commands ahead. `Unknown` are commands of a kind the
client does not know: at one `read_cmd_header` and the scan of `total_ticks` fail behind
its first byte (`Astray`) and stay there, and a seek leads out. `due` is the command
that comes next where the host has left off, or behind the packet that was appended.

**DemoParser** holds the handlers and public calls of `Parser` as operators on
one record, the parser: position, `Context`, flags, and the visitor's log. A call
is a fold of the handlers over the commands, since nothing else runs meanwhile.
The visitor's log has its four callbacks, `on_cmd`, `on_packet` (one for each type of
message, told before the message is handled), `on_entity` and `on_tick_end`, and
it may fail in any of them (`fails`), which ends a call where it stands.
Entities have one class and two fields, one that a CREATE may leave to the class
baseline and one that deltas carry; that is enough to tell a stale baseline, a
stale entity and a missing one from the right one. String tables are versions.

**DemoSession** makes a recording, command by command, and then makes calls on
one parser, in any order. The recorder is the only thing that is not code of the
repository; what it may write is stated in the module's head, from what the
parser takes for granted. `game` keeps what the parser should find.

**CommandStream** is what a parser takes a seekable stream for: a sequence of
commands and a place in it. **FileStream** is the demo file and the broadcast
file, which have the same operations on a reader's position, under the three
loops of `Parser` that call them and with `total_ticks` asked in between. A file
is a layout, where every command starts and how long its parts are; it may be cut
off anywhere, hold a command that is not known, or have no file info. `FailsAt` is
where an error leaves the reader, `Wander` a run that begins in the middle of a
command. The refinement maps a position to the number of commands behind it.

**PacketSource** is the other end of a stream that is read while it arrives: a
bounded channel, and a sender that may cut a recording anywhere and stop
anywhere; for the streams over an `AsyncRead` the chunks are what one `poll_read`
may return. A byte is a record that says whose byte it is. **AsyncRun** is the
loop of `AsyncStreamingParser::run_internal`, what it does with a header, a body or
an error; `handled` is what the visitor got. **PacketChannelDemoStream**,
**PacketChannelBroadcastStream** and **AsyncReadStreams** are the four streams
under it. A future waits in `recv` or `poll_read`, so `ensure_bytes` is two actions
(`EnsureRecv`, `EnsureExhausted`) that may be taken again and again, and so is
`read_exact`; what runs on bytes that are there is one action. **AsyncStreams**
composes them and lets the caller drop the future of a run at any wait (`Drop`):
the stream keeps its fields, and what a `read_exact` had taken, or that a header
was read, is gone (`torn`).

**EntityContainer** is the container of both parsers under
`handle_svc_packet_entities`, with the classes that the visitor does not want. An
entry of the entity data has no length of its own: `in_step` is false once one
was read with another serializer than it was written with. `game` is the
sender's; `Create`, `Update`, `Gone` and `FullPacket` change it and call the
handler of the entry. `MayReuse` allows a CREATE of another class at an index that
was not freed.

**StringHistory** is the key history of `parse_update`, with `list`, the shifting
list that the references are written for; **StringTables** extends it with the
instance baseline table, entry by entry, and with `InstanceBaseline`. A user datum
is behind a reference (`cells`), because table and baseline share it: an update
writes through it, a full update replaces it. `Refresh` is the update of the baseline:
it passes over keys that are not UTF-8 (`NoText`), and stops at one that is text but
no class's (`Unreadable`), with an error at a text that is no number and a panic at a
number out of range, having refreshed whatever the hash map gave it before. After
the error the caller may go on or reset.

**AsyncStreamingParser** has the same handlers as DemoParser, which the source
writes out a second time (`async_handle_...`), and the two runs of
`AsyncStreamingParser`. They cannot seek, so a run is one fold over the recording;
DemoSession calls both, each on a parser of its own, and asks of them what it asks
of `run_to_end`.

**FieldPath** is the table of operations on paths, one row each, with one operator
that applies a row (`ApplyFieldOp`: pop, increment, push, in this order, with the
byte arithmetic of `inc_at` and `push`), the huffman tree, and the array into
which it is flattened. **VarType** is the type parser on sequences of tokens, with
`Written`, the way a type is written. **FieldDecoder** is what every decoder does to the position
of a reader, in `decode` and again in `skip_bits`; the bits are a stream of
which only the flags matter. **SerializerFields** is a field of a serializer and
what both readers ask of it, its decoder and what is below it.
**FlattenedSerializers** makes the serializers from
the send tables: metadata by the type as `VarType` reads it, the fields below arrays, pointers and structs,
fields that serializers share, and the beginnings of keys. A key is the sequence
of what is hashed, so two keys are equal when the code hashes the same parts: names,
or bytes. `Entity::parse` hashes an index as one byte, its value (`IndexPart`);
`fkey_from_path` hashes the texts it is given, of a number the bytes of its digits
(`hash_bytes`).
**EntityFields** composes them: a sender, which is not in the repository, names
fields with any operation that leads from one path to the next, then two readers
take the delta from the same bits, `Entity::parse` and `skip_entity_fields`. `latest`
is the delta that sent a field last, and `GameName` the texts by which the game names
it; `KeyOfName` is the key that Entity::parse should give that name. The
serializer of the entity is a constant of it, so that the theorems hold for every
one; the MC module gives it the serializer that FlattenedSerializers makes.

The `...Proofs` modules hold the proofs; the `MC` modules instantiate the others.

## Runs

| run | configuration | shows |
|---|---|---|
| `broadcast` | `MCBroadcastHttp.cfg` | `FeedSpec` (refinement of BroadcastFeed), `PolledOncePerInterval`, `RequestBudget`, `GivesUpOnlyWhenGone`, `TypeOK`, and under fairness `StreamEnds` |
| `buffer` | `MCBroadcastBuffer.cfg` | `BufferKeepsAll`, `BodyFollowsHeader`, `TotalTicksIsLast`, `NothingSkipped` for a host with the two habits, over either buffer, with a command it does not know |
| `buffer_seeks` | `MCBroadcastBufferSeeks.cfg` | finding: a poll after a seek overwrites the buffer |
| `demo` | `MCDemoSession.cfg` | `StateIsRecorded`, `StopsWhereAsked`, `RestIsVisited`, `SegmentsReproduceParse`, with visitors that fail and ordinals out of range |
| `demo_baseline` | `MCDemoSessionBaseline.cfg` | finding: a rewritten instance baseline makes segments differ from the whole parse |
| `file_streams` | `MCFileStream.cfg` | `IsCommandStream` (refinement of CommandStream), `GivenAsRecorded`, `EndIsTheFiles`, `TicksAreLast` for whole, cut, damaged and unfinished files |
| `async_streams` | `MCAsyncStreams.cfg` | `AsSent`, `BytesAccountedFor`, `EndIsTheEnd`, and under fairness `NothingWaits`, for the four streams and runs that are dropped |
| `packet_demo_tail` | `MCAsyncStreamsTail.cfg` | finding: whole commands in the last fourteen bytes are dropped |
| `entities` | `MCEntityContainer.cfg` | `InStep`, `TrackedIsCurrent`, `NothingStale`, `VisitorSeesGame` |
| `string_tables` | `MCStringTables.cfg` | `RingIsList`, `ItemsAreSent`, `BaselineIsTable` |
| `entity_fields` | `MCEntityFields.cfg` | `PathsAreSent`, `SkipKeepsUp`, `SlotsAreKept`, `EntityIsSent`, and in `FieldsTypeOK` that no operation leaves the seven bytes; `TypesAreRead`, `CodesAreRead` and `FieldsAreFound`, assumptions that TLC evaluates |
| `entity_struct_array` | `MCEntityFieldsStructArray.cfg` | finding: a member of a struct in a fixed array is keyed by its position instead of its name |

Every property of a passing run has a mutant, a bug of a plausible kind in a
mapped definition (the operators marked "Mutant" next to their originals), that
breaks it under the same configuration.

**Bounds.** Broadcasts: two 404 retries and two transient retries instead of five
and ten, which is the least with a first, a middle and a last miss; an interval
of two time units, so that a request can be shorter, as long, or longer; two
dropped calls; fragments 0 to 2 with two starting points. `age` and
`missing` stop counting where nothing compares them any more. The theorems do not
depend on any of these. Buffers: packets of one to three commands, twelve
commands in all, the eighth of them unknown, for each of the two buffers. Demos: full packets at most
three ticks apart (an interval of one at twice the default rate, slack one), a
body of six commands, so that a seek may jump over none, one or several full
packets and may stop inside, before or after one; two calls, so that each is made
on a fresh parser and on what any other call left. A visitor fails, or an ordinal is
out of range, in recordings of up to four body commands (`MaxTroubled`), which
have a full packet before and after a failure. The finding run needs two
entities and two baseline versions. Files: three commands, one of which may be
unknown, bodies that are empty or not, every length at which a file may be cut,
and three calls, so that one finds what an error left and another what that one
left. Async streams: a file header of four bytes and a
wait of three for headers of one or three, in place of 16, 15 and 3 to 15: the
file header is longer than the wait, a header may be shorter or as long, and a
short command with its successor still is shorter than the wait; chunks of every
size from one to all that is left; two commands (three in the finding run), a
channel of two, and two dropped runs (`MaxDrops`), so that one may be dropped after
another was. Entities: two indexes, three
classes of which two are tracked, two fields of two values; that a message may
have any number of entries needs no bound, since an entry is a step. String
tables: a history of two keys and messages of up to four entries, so that it
fills and wraps once around; two items, four keys (two of classes, one that is no
text and one that is no class's) of which two each share what a reference copies,
and three references per item, enough for those that table, baseline and a full
update hold at once. What a reference holds that neither table nor baseline has is
left out of the states that TLC tells apart (`MCView`): it is written before it is
looked at again. Entity fields: a class with fields of
every decoder, every special type, a field of an embedded struct, arrays in arrays
down to seven components, and indexes at both ends of a byte; two deltas of
three fields in all, since an operation depends on two neighbouring paths only and
a value on where the last one ended. All forty operations occur. Types are read from their text: all texts of
up to five tokens and all types of up to two suffixes, in one another and behind
one another (`TypesAreRead`); the fields have pointers, templates, arrays with a
number and with a name for their length, and an array of a template. The bits that
follow repeat with a period of three or five, so that the flags of one value, and
of the next, take every combination; a varint has one or two bytes and a string
none or one, told apart by one flag.

**Fairness.** `BroadcastHttp!Fairness` is used for `StreamEnds` only. Every request
comes to some answer (an HTTP client has timeouts), time passes, a task whose
timer has fired is polled by the runtime, and the host keeps calling
`next_packet`. Which answer comes is not constrained. The caller may drop only
finitely many calls (`MaxCancels`): one that drops each of them never gets on.
The async run (`FairSpec`) assumes of the parser's task what a runtime does for
every task, that it is polled when its receiver is ready; of the sender nothing
is assumed, it may stop for ever without closing the channel.

Deadlock is not checked in the buffer, demo, file, async and entity field runs,
where a bounded recording, or a bounded number of calls, comes to its end. In the broadcast run time can always pass,
and entities and tables can always change.

More places where the code differs from what its comments or its names let one
expect have no run of their own, because a definition or a constant already
shows them:

- `total_ticks` asked where `next_packet` leaves the stream is -1, and the -1 is
  cached (`AskAhead = FALSE` in `MCBroadcastBuffer.cfg` refutes `TotalTicksIsLast`).
- An index that goes from an untracked class to a tracked one without being freed
  stays in `skipped_serializers`, and its updates are skipped for ever (`MayReuse =
  TRUE` in `MCEntityContainer.cfg` refutes `TrackedIsCurrent`).
- Below the top level the key of a field has its `var_name` but not its
  `send_node` (`ElementKey`), so two members of a nested serializer that differ
  only there would share a slot; at the top level the two are told apart
  (`NewField`).
- `Entity::parse` hashes an index as a number, `add_u64_to_hash(0, i)`
  (`entities.rs:249`), `fkey_from_path` hashes the bytes of the texts it is given: of
  `["m_angRecoil", "0"]` it makes the key of element 48, and no path of texts is that
  of element 0. `entities.rs:240` says "field_key construction logic needs to match what
  `fkey_from_path` does", and `entities.rs:246` that hashing the index simplifies things
  "when "user" builds a key that has numbers" (`FoundByPath`, in place of the
  properties of `MCEntityFields.cfg`, is refuted; `EntityIsSent` takes the number).
- `get_serializer_field` goes down a dynamic array by index, where `FieldAt` takes
  the only child; it finds no element but the first.
- A 404 for `/start` or `/full` ends the stream with `None` at once, although the
  comment at `broadcasthttp.rs:441` says "tried hard, coudn't fetch" of every such
  end (`StreamFailed`; only deltas are retried).
- An empty response body is an incomplete header, hence the end of the run with
  `Ok` while packets are still to come (`EmptyPackets = TRUE` in
  `MCAsyncStreams.cfg` refutes `EndIsTheEnd`).
- A run over an `AsyncDemoFile` never returns `Ok`: the end of the file comes to it
  as a `ReadVarintError`, which `run_internal` does not take for the end
  (`EndOfHeader`, and the last conjunct of `EndIsTheEnd`).
- `run_full_packet` leaves the visitor muted after a segment that failed or an
  ordinal past the last full packet; the first segment, run with that visitor,
  misses the signon part (`muted` in `SegmentsReproduceParse`).
- `DemoFile::file_info` moves the reader and does not move it back where it fails;
  the offset 0 of a recording that was not finished is the file's stamp, and a run
  after it may return `Ok` with nothing handled (`file_info`, `Wander`, and
  "unfinished" in CommandStream).
- `haste_vartype` returns what it has at a closing token and leaves the caller to
  look further; nobody does, so `a]b` is read as `a` (`WithSuffixes`, and the `next`
  of `TypesAreRead`). `visit_template` and its callers are `unreachable!()` for
  shapes that the parser reads (`Visitable`).
- The comment in `InstanceBaseline::by_id` says "the cell is only mutated through
  `update`"; `StringTable::parse_update` writes through it (`ReadEntry`).

## What is proved

`BroadcastProofs.tla`, of BroadcastHttp, for every value of the constants that
`BroadcastAssumption` allows (natural numbers, at least one 404 retry; fragments
are naturals because the code asserts it of the signup fragment and the relay
counts from zero):

- `TypeCorrect`: `Spec => []TypeOK`. Inductive as it stands, with lemmas on
  `FetchAfter` and on the two ways through `DeltaLoop`.
- `PolledAtIntervals`: `Spec => []PolledOncePerInterval`. Not inductive: that a
  request goes out late enough depends on the time left in `fetch_in`, on the
  time since the request began (`age`) and on the retries counted, in every
  phase. The invariant `Patience` relates them: what has been missed so far plus
  what is still to be waited covers one interval per miss. It holds over dropped
  calls because `fetch_in` survives them.
- `GivesUpAfterAllIntervals`: `Spec => GivesUpOnlyWhenGone`, from the same
  invariant at the step that stops the stream.
- `ImplementsFeed`: `Spec => FeedSpec`. The refinement needs that
  `stream_fragment` is determined by the number of packets delivered (`Position`).
- `WithinBudget`: `Spec => []RequestBudget`. `Charged` says phase by phase what may
  have been sent: the attempts of a whole `get` for every 404 counted, and those of
  the one that runs. 404s counted in calls that were dropped only make room.

The same module, of BroadcastBuffer, for packets of any size and any number of them
(`BufferAssumption`), under `AppendOnly`, without which TLC refutes the first:

- `KeepsAll`, `BodiesFollow`, `SkipsNothing` and `BufferTypeCorrect`: the
  properties of the run `buffer`; `TicksCorrect`: `[]TotalTicksIsLast`, under
  `AskAhead` as well. `PlaceInv` names the place of the stream: the buffer is the
  commands after `start`, `at` of them are behind, and a header in hand is that of
  the next. `UnitsJoin` is why a write at the end continues the buffer, `ScanFinds`
  what a scan from a place comes to.

`FileStreamProofs.tla`, for any files whose commands follow one another
(`FilesAssumption`) and any number of calls:

- `TypeCorrect`, `GivenCorrect`, `EndCorrect`, `TicksCorrect`: the properties of the
  run `file_streams`. `GivenInv` says that a running call has given all from where
  it began and that all given lies behind the stream, `EndInv` that what lies behind a
  run or a scan was whole as far as it read it.
- `RefinesCommandStream`: `Spec => IsCommandStream`, from the same invariants, with
  one lemma on `PlaceOf`: starts are distinct, so a position has one place.

`EntityProofs.tla`, of EntityContainer, for any sets of indexes, classes, fields and values,
any choice of tracked classes and any baseline (`EntityAssumption`: tracked
classes are classes, and `Absent` is none of the values a map holds, as
`Option::None` is none of them):

- `TypeCorrect`: `Spec => []TypeOK`.
- `AlwaysInStep`, `AlwaysCurrent`, `NeverStale`, `VisitorIsTold`: the properties of
  the run `entities`, each under `~MayReuse`, without which TLC
  refutes them. None is inductive alone: that an update finds the
  right serializer needs that `skipped_serializers` has exactly the untracked
  indexes and `entities` exactly the tracked ones, that an entity created from a
  cached baseline is right needs that the cache is still the baseline. `IInv` says
  these of every index (`Agrees`) and of every class; there is a lemma per action.

The same module, of EntityFields, for any serializer, any set of paths of one to
seven bytes, any bits, and any number of deltas and fields (`FieldsAssumption`).
Three facts are hypotheses, because they are about recursive definitions or about
data from outside; each theorem names those it needs:

- `CodesAreRead`: the flattened tree leads from the code of each operation to it.
  It depends on no constant, so that TLC decides it, once (`TreeAssumption` of the
  MC module).
- `FieldsAreFound`: the paths that are sent lead to fields with a decoder. A
  sender that does otherwise gets `FieldNotFound`. TLC evaluates it for the
  serializer of the runs (`PathsAssumption`).
- `NamesTellApart`: where two paths part, the fields they go on to are told apart,
  by a part of their keys at the top level and by their names below a field that is
  no array; it says nothing of indexes, of what lies below, or of hashes. TLC
  evaluates it for the serializer of the runs (`NamesAssumption`).

What is proved from them:

- `SkippingIsDecoding`, from none: for every decoder, bit count and set of encode flags, and
  from every position of every stream, `skip_bits` ends where `decode` does and
  returns the distance. One lemma for each way of reading, and one for each of the
  wrappers (components of a vector, flags before them).
- `SameField`, from none: the loops by which the two readers go down a path find
  the same field, in any serializer.
- `PathsCorrect`: `[]PathsAreSent`, from `CodesAreRead`. That a path is right follows
  only from the path before it: `PathsInv` says that the path in use `Holds` the sender's
  last one, as many components and each of them modulo 256. `EncodingLeads` shows that every operation, with the
  numbers the sender writes for a step from p to q, makes a path that holds p into
  one that holds q; it goes through the pop, the increment of one or of any
  components, and the pushes of each kind of operation (`AllOps`: the forty are
  such). The first path, -1 cut to 255, is a path like the others then.
- `FieldsTypeCorrect` and `SkipCorrect`: `[]FieldsTypeOK` and `[]SkipKeepsUp`, from
  `CodesAreRead` and `FieldsAreFound`. Along the values of a delta the two readers
  are at one position (`ReadersInv`, by `SkippingIsDecoding` and `SameField` at
  each turn).
- `SlotsCorrect`: `[]SlotsAreKept`, from all three. `SlotsInv` says that the entity has
  exactly the keys of the fields sent so far, each with the delta that sent it last.
  That no two paths have one key (`KeysApart`) is argued along their descents
  (`Descends`): behind the part of the top level a key has one part for each component
  (`KeyAlong`), an index or a name, so that as long as the paths are one the next parts
  tell the next components apart. That the slot is the one of the
  field's name, `EntityIsSent`, depends on the serializers that are made of the types,
  and is checked only.

`StringTablesProofs.tla`, for tables and messages of any length and a history of any
size of at least one (`HistoryAssumption`, `TableAssumption`; `NoTableAssumption`: a
table is not `None`):

- `ReferencesResolve`: `Spec => []RingIsList`. `HistoryInv` places the n-th key of
  the list at slot (keys of the message - length of the list + n - 1) modulo the
  size. A new key takes the slot of the one that leaves, and no other, which is
  `RemainderDistinct`; the code's index, which takes a remainder twice, is that
  slot by `RemainderShift`. Both are proved from the definition of division.
- `TypeCorrect`, `ItemsCorrect`, `BaselineCorrect`: `TypeOK`, `ItemsAreSent` and
  `BaselineIsTable` of the run `string_tables`. `ItemsInv` adds that no two items
  share a reference, that a class has a baseline only if its key is in the table,
  and that between messages, with no key in the table that stops the update, it is
  the item's own reference. A reference taken anew
  must be in nobody's hands, so it has to be shown that there is one: table and
  baseline hold at most two for each item (`HeldIsSmall`, by cardinality).

`AsyncStreamsProofs.tla`, for all four streams over any channel capacity, any sets
of header and body sizes, any number of commands and of dropped futures
(`PacketAssumption`, `DemoStreamAssumption`, `DropsAssumption`: a header has at least
one byte, and what `read_cmd_header` waits for is at least a header):

- `TypeCorrect`: `Spec => []TypeOK`. `TypeInv` adds what keeps the offset in the
  buffer: what is behind it is what `ensure_bytes` asked for, a run over an
  `AsyncRead` has no offset, and a `read_exact` never has more than it wants.
- `SentCorrect` and `BytesCorrect`: `[]AsSent` and `[]BytesAccountedFor`. Neither is
  inductive: which body comes next depends on where in the recording the buffer
  begins, and no variable says so. `SentInv` gives it a place: buffer behind the
  offset, channel and unsent bytes, in this order, are the recording from `At` on
  (`Continues`), and `At` is where the commands handled and the header in hand say.
  A read moves offset and place by the same size (`HeaderSent`, `BodySent`);
  a chunk that moves from sender to channel to buffer moves past no other (`ChunkJoins`). A drop
  between two commands forgets nothing; one inside a command makes `torn` true, and
  of what follows neither the code nor the theorem promises anything.
- `EndCorrect`: `[]EndIsTheEnd`, from `SentInv` at the step that ends a run: what is
  buffered is shorter than what is wanted, so that no whole command is left
  (`ShortIsEnd`). Over broadcast packets it needs `CutInv`, that packets begin with a
  command. It is stated for `~EmptyPackets`: with an empty response body TLC
  refutes the property (see above).
- What is read is a concatenation of sequences, as many as there are commands.
  `FlattenSeq` of such a thing is a recursive definition, and what is proved of it (of
  one more chunk in `FlattenAppend`, of two sequences in `FlattenConcat`, of the first
  chunk in `FlattenHead`) is by induction over the natural numbers, for a set of
  numbers instead of a formula (`NatSetInduction`).

`DemoSessionProofs.tla`, for recordings of any length, any numbers of entities,
versions and calls, any rate and interval of full packets that `DemoAssumption`
allows, and a visitor that may fail in any callback:

- `SessionCorrect` and `TypeCorrect`: `Spec => []TypeOK`. An entity in the parser is
  made of what the commands hold, so its type rests on the recording's. `Recorded`
  (every command changes the game as it says), `BaselineFirst` (a class has a
  baseline before its first entity) and `Timed` (ticks do not decrease, full packets
  are at most their spacing apart) are invariants of the recorder. There is a lemma
  per handler, for both parsers.
- `StopsCorrect`: `Spec => []StopsWhereAsked`, with no further assumption. A run fails
  at the command and with the callback the visitor does, and not elsewhere; a seek
  ends behind the last command of its target's tick, also if it jumped; a segment
  ends where the full packet after its own begins.
- `StateCorrect`: `ASSUME ~BaselineMayChange PROVE Spec => []StateIsRecorded`. With
  `BaselineMayChange` TLC refutes it, which is the run `demo_baseline`. The `ReachedInv`
  of `ReachedCorrect` is what makes both inductive. After a call
  that ended whole the `Context` is that of a parse from the start (`Reached`): the tick,
  what the signon commands set (`Ready`), and tables, entities and baseline of the
  `game` there (`Tracks`), with a decoded baseline that is that of the class or
  missing (`Cache`).
- Inside `run_to_tick` the `Context` may lag. `Seeking` says of each turn that it either
  tracks the game and the target is within one spacing (`Caught`), or is `Warm` (no
  entities, a baseline that may be used) with the target further than
  one spacing from the last full packet (`Coming`). Full packets are no further apart
  than that, so one more lies before the target, and the arithmetic by which the
  code decides to skip never skips the last one. That is the case a test on one demo
  does not reach: a target exactly one spacing, or one tick more, past a snapshot.
- Inside `run_full_packet` `Segmenting` relates the full packets counted to those in
  the recording (`Seen`): what is handled before the segment's own is only what makes the
  `Context` `Warm`, and the segment's full packet makes it track the game (the first
  segment does from the start).
- A loop over commands is a `FoldLeft`. Its theorems in the library take an operator
  as a parameter, which no backend can use, but a module may have one:
  `LoopFacts.tla` has the loop body as a CONSTANT operator and proves that a fold is a
  sequence of states, each the body applied to the one before; both modules here, and
  EntityProofs, INSTANCE it for every loop. Induction along the sequence is over a set of
  numbers (`NatSetInduction`).

`DemoSessionLogProofs.tla` goes on from there, with what the visitor sees:

- `VisitedCorrect`, and from it `RestCorrect` (`[]RestIsVisited`) and `SegmentsCorrect`
  (`[]SegmentsReproduceParse`), under `~BaselineMayChange`. What a visitor sees is
  compared over whole calls, so it is built up the same way: `RecordedVisits` (what
  the recorder says of some commands) and `Only` (the part of a log that is asked for)
  are folds, and have a lemma for one element more (`LoopOneMore`) from the same
  module. `Writes` says what a handler adds to the log: all of it, or a strict
  prefix if the visitor fails, or nothing if it does not collect. `ToldInv` is the
  recorder's side: the changes kept for a command are what its entries say, the
  entity taken before a DELETE and after anything else. A command that is handled
  where the `Context` tracks the game therefore writes what is recorded of it.
- `Going` carries that through a run to the end. After a call that failed the
  `Context` may be any, so of the log only the commands and the ends of ticks are
  claimed. `SegmentLog` carries it through `run_full_packet`: the visitor is not
  called until the segment's own full packet, and from there each command writes
  what is recorded; after a failed call too, since that full packet restores the
  `Context`. `WholeShown` is the other side of `SegmentsReproduceParse`, a parse by a
  new parser, whose commands of the segment are the same ones.

Only model-checked:

- `StreamEnds` and `NothingWaits`: liveness under fairness is beyond the prover.
- `CodesAreRead`, `EntityIsSent` and `TypesAreRead`: the huffman tree, the types and
  the serializers that are made of them are recursive definitions, for which the
  prover has no backend. TLC evaluates the tree completely, the other two
  on the serializer and the types of the run.
- The findings: a violated property has a counterexample and no proof.

## Not modelled

Byte layouts, protobuf, compression, JSON and header encodings; the values of
floats and the construction of quantized ones; the bits of the numbers that path
operations read; collisions of hashes;
the HTTP client itself (`httpclient.rs`, a trait). A broadcast packet is taken to
hold whole commands. A file may be cut off or have commands that are not known,
and a visitor may fail; a command that decodes to something its recorder did not
mean is not modelled, since then anything may follow. An index out of range in the
update of a baseline panics, and what the host does with a parser whose thread
unwound is its own matter; the model lets it go on as after an error. DemoParser takes the keys of the
instance baseline table to be class ids. The string tables and entities are those a sender that
follows the format makes: dense indexes, keys that are distinct and do not
change, an UPDATE only of what exists. Two limits that the source states itself are
preconditions: a seek target is not past the last tick (`run_to_tick`, first
lines), and tick rates are whole multiples of thirty (the comment at the
constants names 30 and 60).

## Plan

Done: the broadcast stream, its buffer and their proofs; both parsers on
recordings with failing visitors; the four async streams with dropped runs; the
file streams with their proofs; the entity container and its proofs; string
tables and instance baseline with their proofs; the async streams and the parsers'
sessions and visitors with their proofs; field paths, serializers, types, and
skipping against decoding, with the proofs of the two readers. Left, in this order:

1. The bit reader's integers: ubitvar, ubitvarfp and varints at their width, with
   the numbers of path operations read from bits.
2. `QuantizedFloat::new` on the integers it computes (bit count, encode flags; the
   halving and doubling of the range), versions of serializers, entity classes.
3. `get_serializer_field` and the other lookups by path or key.
