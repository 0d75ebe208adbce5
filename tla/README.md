# A formal model of AeroFrame

TLA+ specifications of the AeroFrame packet library (`src/`), the TLC runs that check them on
small instances, and proofs, checked by TLAPS, of what holds for every instance.

The library is passive: no threads, no callbacks, no clock, no I/O of its own. A caller
constructs an object and calls it; each call runs to its end. What makes the code hard to get
right is therefore not concurrency but *sequences*: which calls came before, what state they left,
which pointers they kept, and how a packet that turns out to be bad has been acted on already.
Every module below lets the calls come in any order with any arguments of its small sets.

## 1. Inventory

| Component (source under `src/src`) | State | Operations | What makes it correct |
|---|---|---|---|
| `AeroParser` (`aeroframe.cpp`) | one instance of each component below | `parse`, thirteen chunk handlers | the verdict tells what was done; telemetry reaches the session it is for |
| `PriorityQueue` (`queue.cpp`) | four vectors of messages, a counter | enqueue, dequeue, promote, demote, expire_old, reprioritize | a message leaves by one dequeue or for its age, order by urgency, 32-bit ages |
| `FragmentReassembler` (`fragment.cpp`) | map of heap fragments, linked list of retransmit requests with raw pointers | push, request, process, discard, completeness | one owner per fragment, no request outlives its fragment |
| `ProtocolEngine` (`protocol.cpp`) | handshake state, capability table with two views, context | messages of six kinds, declare, negotiate, sequence numbers | the state is backed by data, the views agree |
| `RoutingTable` (`routing.cpp`) | hash map of routes | add, remove, update_metric, age_routes, lookup | a route lives for its ttl, a lookup finds the cheapest |
| `SessionManager` (`session.cpp`) | hash map of owned sessions with telemetry buffers | open, close, append, moves, destruction | one owner per session, telemetry as appended |
| `IngestPipeline` | owns ten of the loaders and stores, and counters | `process_packet` over sections, `load_config`, `reset` | result, parts and buffer agree after a bad section |
| Loaders: `SchemaRegistry`, `DeviceRegistry`, `FilterEngine`, `TransformPipeline`, `AlertEngine`, `ConfigParser`, `DispatchRouter`, `BinaryArchive`, `BinaryValidator` | tables filled from a byte stream | load, lookup, evaluate, clear | what a stream refused midway leaves behind |
| Stores: `RecordBuffer`, `EventLog`, `MetricStore`, `StateStore`, `SessionStore`, `RateLimiter`, `TimeSyncEngine`, `PipelineScheduler` | capped or pruned collections, clocks of 32 bits | insert, evict, read, prune | order and counts after eviction, windows |
| Algorithms: `XorCipher`, `compress`/`compression`, `CodecDispatch`, `ChecksumChain`, `TelemetryDecoder`, `PacketBuilder`, `FieldMapper` | none, or a key or table | encode, decode, compute | what a codec leaves of its input, rooms and limits, a changed byte is noticed, inputs that match a key decrypt |
| `main.cpp`, `tools/`, `fuzz/` | none | command line, generators, test drivers | pure I/O |

Components interact by calls alone. `AeroParser::parse` scans a packet's payload into chunks
and calls one component per chunk; no component calls back or calls a sibling. `IngestPipeline`
does the same one level down.

About three quarters of the C++ lines are families of numbered helper functions
(`static uint32_t state_store_hash_17(...)`) behind the classes' own code. They differ in a
constant, and none keeps state. Each family is one operator with the number as an argument
(`state_store_hash(n, data)`), and what it promises is stated as an `ASSUME` of the MC module,
which TLC evaluates over bounded inputs.

## 2. Modules

| Module | Models | Theorems in |
|---|---|---|
| `PriorityPool` | the promise of the queue: a pool of messages with a level each, which leave it delivered or expired | |
| `PriorityQueue` | `queue.cpp` | `PriorityQueue_proofs` |
| `FragmentReassembler` | `fragment.cpp` | `FragmentReassembler_proofs` |
| `ProtocolEngine` | `protocol.cpp` | `PeerTables_proofs` |
| `RoutingTable` | `routing.cpp` | `PeerTables_proofs` |
| `SessionBook` | the promise of the managers: a book of telemetry per manager | |
| `SessionManager` | `session.cpp` | `SessionManager_proofs` |
| `AeroParser` | `aeroframe.cpp`, composed of the five components by `INSTANCE` | `AeroParser_proofs` |
| `RecordStream` | what a load function sees of a byte stream, the maps and queues it fills | `RecordStream_proofs` |
| `Words` | 32-bit words as sets of bits, division, records of fields | `Algorithms_proofs` |
| `RecordBuffer`, `RateLimiter`, `StateStore`, `SessionStore`, `PipelineScheduler`, `MetricStore` | the stores | `Stores_proofs` |
| `EventLog`, `TimeSync` | the log and the clock | `Stores_proofs`; the arithmetic of the clock in `Algorithms_proofs` |
| `ConfigParser`, `Registries` (`schema_registry.cpp`, `device_registry.cpp`), `FilterEngine`, `TransformPipeline`, `AlertEngine`, `BinaryValidator` | the loaders | `Stores_proofs`; the fields, conditions and stages in `Algorithms_proofs` |
| `LookupTables` | `dispatch_router.cpp`, `binary_archive.cpp`, `field_mapper.cpp` | `Stores_proofs`; the mappings in `Algorithms_proofs` |
| `CodecDispatch` | `codec_dispatch.cpp`, `compress.cpp`, `compression.cpp` | `Algorithms_proofs` |
| `XorCipher`, `TelemetryDecoder` | `cipher.cpp`, `telemetry_decoder.cpp` | `Stores_proofs`; the cipher's words in `Algorithms_proofs` |
| `PacketBuilder` | `packet_builder.cpp`, `checksum_chain.cpp` | `Stores_proofs`; the checksums in `Algorithms_proofs` |
| `IngestPipeline` | `ingest_pipeline.cpp`, composed of ten of the modules above by `EXTENDS` | `Stores_proofs` |
| `MC...` | small instances; `MCStores` and `MCIngest` of many modules at once | |

Conventions. A variable has the name of the member it stands for (`total_messages` is
`total_messages_`), an action that of its function. A call the code refuses before it changes
anything is no step, except where a property needs it (`HandleRefused`, and every chunk of the
parser). Variables whose comment says *history* record what happened and guard no action, with
one exception each that is named a bound. `X_Y` is `X` with a plausible mistake; no behaviour
uses it, the mutation runs put it in the place of `X` to see that the properties notice.

**PriorityQueue.** `queues[l]` is the vector of a level, `live` the payload copies on the heap.
A payload is the number of the enqueue call that copied it, which is also how order is observed.
`promote` and `demote` are translated with the `remove_if` that erases *every* message of the
id (`WithoutId`) and pushes one back. `reprioritize` visits levels from the bottom, so a lifted
message is visited again one level up (`LiftLevel` is applied once a level); the reset of its
count is what stops it there. `expire_old` subtracts on `TIME_WRAP` values. Three variables are
history: `births` remembers the true time of an enqueue, on a clock that does not wrap, `delivered`
the copies that dequeue gave out, `expired` those that an expiry deleted. They are what the
refinement of `PriorityPool` judges. The pool holds what is in the levels; a message leaves it only by a
delivery, from the highest level present, or by an expiry that takes what is too old and leaves only
what is young enough or has outlived a turn of the clock. A message that a promotion dropped, or that a dequeue took
from a lower level or left in the queue, would be a step that the pool does not have.

**FragmentReassembler.** `memory` is the heap: a fragment or `Free` per address, and an address
may be handed out again. `acks` is the linked list, `tail` and `count` the two members that must
agree with it. `process_retransmit` reads through `fragment_ptr`. Where that fragment is alive the
model follows the code (`ResendLive`); where it was freed the read is undefined and the
model allows whatever fields it may read, and whatever `push_fragment` then does with them
(`ResendDead`), or nothing (`ResendNothing`). `push_fragment` is called there with the data
of the fragment it is about to free, so the new payload is any of the same length, also for a live
fragment. `expire_retransmit_queue` reads and changes nothing and is no action; `assemble_message` is
a read of what `IsMessageComplete` says. Two variables are history and describe the callers:
`careful` as long as none pushed over a fragment, or requested one, that a waiting request points to;
`steady` as long as every push announced the total its message has.

**ProtocolEngine.** One array has two views: entries in order of declaration below
`capability_count`, and by the message also an entry at its own id. `HandleCapabilityDeclare` does
not check the count, so a thirteenth one writes past the array, over the members that follow.
That step is modelled and sets `overrun`: the members it may hit take any value of their types,
and most properties stop claiming anything. `context_valid` is the member of the
engine, not the one of the context with the same name, and this is the whole of
`DataAnsweredBare`: the message sets the one, the Data message tests the other.

**RoutingTable.** `Scan` is the loop of `lookup` over the hash map, whose order is an argument;
`Lookup` allows every order. Metrics are sums modulo `METRIC_WRAP`, the search starts below `METRIC_WRAP - 1`. The result
has no `next_hop` beyond 0 for a route without hops. `history` counts a route's agings.

**SessionManager.** `sessions[m]` is the map of a manager that exists; a cell of `heap` is a
session with its buffer. `deletes` stays `TRUE` as long as every `delete` frees an allocated cell.

**AeroParser.** The phases of `parse` are steps: the header checks, one turn of the scan loop per
chunk, the dispatch of one chunk per step, the comparison of the CRC. Handlers call the actions of the
component modules themselves, so their guards and effects are those of section 2. A packet is
what parse tells apart: size, magic, announced length, chunks, whether the payload ends in the middle
of a chunk, whether the CRC matches. Decoding yields bytes or `Undecodable`. Chunks for the ingest
pipeline, the schema registry and the validator, too short chunks and unknown types change none of
the modelled components and are `Other`. Plaintexts and decompressed payloads fit the handlers'
buffers.

**Streams.** Every loader has one shape: check a header, read the announced number of records, give
up at the first one whose bytes are not all there. `RecordStream` models the stream by what the loop
can tell: does the header pass, how many records are announced, which are whole, do more bytes
follow. A loader's module says what it does with `Taken(s)`, the records before the loop ends, and
`Whole(s)`, the answer. This is where the loaders differ: `ConfigParser`, `BinaryArchive`,
`TransformPipeline`, `FieldMapper`, `BinaryValidator` and the codec table and checksum chain replace what they have as soon
as the header passes; `FilterEngine`, `AlertEngine`, `EventLog` and `PipelineScheduler` append;
the maps (`StateStore`, `SessionStore`, `RateLimiter`, `DeviceRegistry`, `DispatchRouter`)
overwrite by id; only `SchemaRegistry` is all or nothing. Three loops ask for more bytes than their records
have (`slack`). Loops that ask for fewer read up to two bytes behind the stream; the next check
refuses such a record whatever was read, and the model refuses it at once.

**Stores.** `RecordBuffer` is a vector and a read position: a push into a full buffer erases the
entry at the read position and sets it back to 0, so records popped before are popped again, with
the empty payload that the move left behind. `delivered` (history) holds the sequence numbers of
the payloads really given out. `RateLimiter` keeps the deque of stamps; `admitted`, `clock` and
`steady` are history: what was admitted since the last configuration, and whether the caller's
clock ever stepped back. `StateStore.pruned`, `SessionStore.declared`, `MetricStore.recorded` and
the scheduler's `enqueued` and `settled` are history too. `PipelineScheduler` sorts with `std::sort`,
which may leave equal priorities in any order: `Orders` is the set of them and `RunUntil` chooses.

**Algorithms.** Bytes are numbers, 32-bit words are sets of bit positions (`Words`), so `^`, shifts and sums that
wrap are exact and no number leaves TLC's integers. A codec that fails returns `{}`, one that succeeds
the set of its output. What the code computes in doubles is a set of results in thousandths (`Stored`): a
quotient cut towards 0, and where it is whole also its neighbour. Reads
behind the derived words of a key (`Encrypt`) take any byte.

**IngestPipeline.** A packet is a number of announced sections; each step of `HandleSection` is one turn of the
loop of `process_packet` (which always ends, since every turn handles a section or gives the rest up), with `process_section` and the push into the record buffer inside.
`CutShort` is either of its two breaks, `ReturnPacket` the end. A section is its type and the
stream in it. `process_section` calls the actions of the parts' own modules, so a section that is refused
midway leaves in the part what that part's loader leaves. `history` is the list of all sections handed on with the
answer, `since` its length at the last `reset`.

## 3. Runs

| Run | Expect | Shows |
|---|---|---|
| `queue` | pass | With ids not used twice at once: count equals the sum over the levels, dequeue serves the most urgent level and its oldest arrival, expiry goes by true age, promotion counts are bounded by the level, and the queue implements `PriorityPool`: a message leaves it delivered from the highest level or expired for its age, once, and in no other way |
| `queue_duplicates` | violation of `CountMatchesLevels` | Two waiting messages of one id: promote loses one and still counts it |
| `fragments` | pass | Ownership, the list, the discipline of callers under which no request dangles, and how long a complete message stays complete: until it is discarded for careful callers who announce one total per message, and for the others until its lowest fragment announces a larger total |
| `fragments_dangling` | violation of `NoDanglingAck` | A fragment is pushed again while a request points at it |
| `protocol` | pass | The two views; every active entry was declared with these very values, none mixes two declarations; `WaitingCapabilities` and `Negotiating` have their evidence (nothing is said of `Established`); bare answers |
| `protocol_negotiation` | violation of `NegotiationEstablishes` | The tests expect Established after negotiation |
| `protocol_listing` | violation of `DeclaredIsListed` | The direct store overwrites another capability's entry |
| `routing` | pass | Life of a route, the cheapest route in every iteration order |
| `sessions` | pass | One owner per session through moves and destructions, and `SessionBook` implemented |
| `parser` | pass | Telemetry is the replay of the dispatched chunks (those of packets refused for their CRC included), verdicts tell effects, no queued payload is lost or freed twice |
| `stores` | pass | The latest snapshot is lost by pruning alone; byte counts follow metadata; rate windows hold on a clock that does not step back; a payload is popped once and in order; a stage settles once, most urgent first; what codecs leave of their input (delta all but the first byte, varint whole words, turned round), what a group of literals decodes to, that decoders agree and stay inside their room; chains ending in Adler's checksum notice a changed byte; ciphers of one key decrypt inputs that match it in length; arithmetic at its ends |
| `ingest` | pass | The buffer holds the newest accepted sections; the parts follow from the sections since the last reset, refused ones included; statistics cover every sample; the verdict accounts for every announced section |

Every property of a passing run has a mutant of the code that breaks it.

Bounds, and why they suffice:

- `queue`: three ids, two places, three enqueues, priorities 1 and 4 (4 is out of range and is
  put on the top level), a clock of four ticks that wraps at three. Two messages on a level and one
  to replace them are enough for order and eviction; the clock passes its wrap between an enqueue
  and an expiry; initial counts 0 and 65535 put the 16-bit wrap one promotion away.
- `queue_duplicates`: two ids, three places.
- `fragments`: two messages, fragment ids 0 to 2 of which 2 is over the limit, totals 1 to 3 of
  which 3 is, three addresses, two requests. A request, a replacement that reuses the address and a
  second request to the same fragment fit; a complete message of one fragment can be pushed again with
  a total of two.
- `protocol`: a table of three, ids 0, 2 and 3, so an id out of range, a table that is filled, gaps
  between the views and the overrun all occur; two versions, so entries of different declarations
  could be mixed. There is one value of the flags: with two of both the run does not end in minutes.
  Flags travel through the same assignments as versions, and the theorem `TableIsHonest` is for all sets of both.
- `routing`: three ids for two places, two destinations, ttl 0, 1, 2, up to three agings, metrics
  modulo 4 with steps 1 and 3, so metrics reach the bound no lookup finds and wrap past it.
- `sessions`: two managers, two ids, four cells, so both maps may be full, and all three move cases.
- `parser`: up to four chunks over packets of up to two, every kind of chunk, both CRC outcomes and
  cut payloads; ids 1 and 65537 are equal in 16 bits. `QUEUE_MAX_MESSAGES` is 2, so the queue fills.

- `stores`: a behaviour is that of one component (`part`), chosen at the start, so the components do
  not multiply. Capacities of two or three, so every collection overflows; times 0 to 4 around
  windows of 1 and 2, so stamps fall inside, at the edge of and outside a window; counts modulo 4 and clocks
  modulo 16 wrap; keys shorter and longer than the inputs, of whole and of broken words; the validator's
  rules of every kind, at and off their bounds; streams of up to two records, refused at either.
  Codecs are tried on every sequence of up to four of six bytes, which hold both kinds of run
  tags, a continued varint and the BCD limits; groups of literals are these padded to eight. `MAX_ADMITTED`, `MAX_PUSHED`, `MAX_METADATA` and the arguments of
  the `...Next` operators bound histories.
- `ingest`: three sections over two packets and loads, of about twenty kinds that cover every section
  type, whole, refused in the middle and refused at the header; a buffer of two, a log of three, so
  both overflow; a reset may come between any two packets.

Symmetry is used over ids, messages, cells, managers and destinations, which the code compares for equality
alone. No run turns the deadlock check off.

Fairness: none is assumed anywhere, and no liveness is stated. The library runs nothing by itself; whether a call comes is
up to the caller. A call is one step of a model, or the turns of a loop over a number of
sections or chunks that only falls: that it returns follows from the shape of the loop, and a property would repeat it.

## 4. Theorems

All proofs are for arbitrary constants under the `ASSUME`s of the modules, which type the constants,
say that `Null` and `Free` differ from what they stand in for, and that no capacity is 0 where the
code's is not. The bytes of keys and inputs are at most 255, an offset of the clock is less than its wrap, and the numbers of
records stay within 31 bits where words are made of them (`ProbeAssumption`). TLC evaluates each of them on a run. `AeroParser` grants its components what they assume of their
constants (`ComponentConstants`), and `IngestPipeline` that a section for a part is a stream of that part's records
(`IngestAssumption`). Nothing more is assumed: counts, sequences and histories have any length, and the bounds of
section 3 are parameters here.

- **PriorityQueue** (`TypeCorrect`, `PayloadOwnership`, `CopiesCounted`, `MessagesCounted`, `PromotionsBounded`,
  `MostUrgentOldest`, `ExpiryIsByTrueAge`, `RefinesPool`). `QueueInv` says what the five other properties have in
  common: the messages of a level have its urgency, no two messages anywhere share a payload copy (nor an id, where callers
  do not use one twice), those never moved stand in the order of their calls, what a message says of its time and its
  promotions fits the call that brought it, and the copies the levels hold are among the allocated ones, which
  are counted. What the operations do comes down to three facts about vectors that keep all
  this: leaving messages out, adding messages that are nowhere else, marking more of them as moved. The
  order of delivery needs the invariant for the messages that were not moved; the expiry needs that
  subtraction modulo the wrap gives the true age. The refinement showed that the arms of a `CASE` in
  `PriorityPool` overlapped: a message that is not lifted, in a step that lifts others, had two levels to choose from, of
  which TLC took the first. For the refinement each operation that removes a message says where it went: the delivered
  one stood on the highest level present (`Sound`), and those an expiry took or left are judged by the age that the pool computes
  from its own clock.
- **FragmentReassembler** (`TypeCorrect`, `MapOwnsHeap`, `ListStaysSound`, `CarefulIsSafe`, `CompletionStays`). The four
  invariants are proved together with a strengthening: while callers
  have been careful, no two requests point at one fragment, and what they point at is alive. `CarefulCallersAreSafe` is
  not inductive alone: `discard_message` clears the first request only, and only the strengthening says that
  there is no second. `CompletionStays` is about a step: what is stored of a message only grows, or all of it goes, and
  while `careful` and `steady` hold, all that is stored of a message announces one total.
- **ProtocolEngine** (`ProtocolTypeCorrect`, `ViewsAgree`, `TableIsHonest`, `HandshakeIsBacked`,
  `DataIsAnsweredBare`). The strengthening: after an overrun every slot is active, and
  the flag Data messages test was never set. The last is what proves the action property. `ViewsAgree` says which slots may be
  active, and nothing of what was declared and then overwritten; `HandshakeIsBacked` speaks of the states
  `WaitingCapabilities` and `Negotiating` without an overrun.
- **RoutingTable** (`TypeCorrect`, `LifeIsExact`, `CheapestIsFound`). `TypeOK` with `ActiveWhileAlive` is inductive. The
  lookup is a loop: its best so far is the cheapest of the routes it has passed, in any order.
- **SessionManager** (`TypeCorrect`, `OwnershipIsUnique`, `KeepsTheBook`). `TypeOK` with
  `OwnedByOneManager` is inductive, and under it each action is a step of `SessionBook` or a
  stutter: the refinement needs unique ownership, since otherwise closing one session would
  change another's page.
- **AeroParser** (`VerdictIsTrue`, `TelemetryReplayed`, `OwnsPayloads`, `TypeCorrect`). `ParserInv` has three parts. `Progress`
  relates phase, scanned chunks and acted chunks: `acted` is the prefix of the packet's chunks before `next`, and empty outside of
  the dispatch. `Components` is the inductive invariants of the five components; each handler is an action of one of them, so the lemma that
  this action keeps this invariant is taken from the component's own proofs, instantiated as the component is. `TelemetryIsReplay` then
  needs unique ownership of the one manager: a chunk for one session must not reach the buffer of another.
- **RecordBuffer** (`BufferTypeCorrect`, `DeliveryInOrder`). `DeliveredOnceInOrder` speaks of history
  alone; the invariant ties it to the vector: sequence numbers grow along `records` and are below
  `next_seq`, a payload still there is younger than all delivered ones, and payloads before the read
  position are empty. The step that needs all of it is the push into a full buffer, which moves the
  read position back over entries that were popped.
- **RateLimiter** (`LimitTypeCorrect`, `WindowIsHonoured`). While a key's clock is steady, the deque is the
  tail of what was admitted, everything admitted before that tail is older than the window of the latest call, and no
  window of admitted events holds more than `max_events`. A loader configures several keys in one
  step; the proof treats it as starting some keys over.
- **Other stores** (`LatestIsFound`, `BytesFollow`, `StagesSettle`, `StatsCover`, `RecentWindows`). `StateStore` and `SessionStore` are
  inductive with their types; that a byte count follows its metadata is arithmetic modulo the wrap. For the scheduler the invariant
  also says that settled stages come in runs that rise, each in order of urgency, and the proof takes any bijection for what the sort leaves. For the metrics,
  `Covers` says of one metric that its window is the tail of what was recorded and that count, least, greatest and last value are those of all of it;
  whatever window is asked for then holds the newest sample and none that is too old.
- **The stores together** (`StoresTypes`, `OthersInvariant`, `StoresAreComponents`). A behaviour of `MCStores` is one of each
  of its components, which stutters while another one steps; so what is proved of a store alone holds of their composition. `OtherStores`
  is the invariant of all the components that have no theorem of their own: types, and what their state is derived from. Three of its parts
  are more than types: the packets built are prefixes of what is gathered (`BuilderInv`), every copy of a cipher has the key of
  the one it came from (`CipherInv`), alerts are numbered without a gap. The bounds that `StoresNext` hands
  to the `...Next` operators are the run's, and so are the inputs of the cipher (`SomeInputs`); constants and the bytes tried are any.
- **Arithmetic at its ends** (`NumbersKeepLaws`). A corrected time is held at 0 below and wraps above, and the times that do not wrap keep their
  order; what is read of a record lies inside it, although its size may have lost the end of a field beyond 16 bits; of equal, less
  and greater one condition holds, and each is the opposite of its negation; stages and mappings change the fields they name
  and no others. What goes through doubles is a set of results, and each law is about all of them.
- **Codecs** (`DeltaLosesFirst` and `VarintTurnsWords`, together `WhatCodecsLeave`; `RleDecodersAgree`, `ExpansionsStayInside`; the
  lemmas `LiteralsReturn` and `GroupDecodes`). None of these says that a codec inverts: delta loses the first byte, varint turns words round and
  drops what is less than a word, and of run-length and LZSS inputs the code has decoders only.
  A decoder is a loop over bytes with a state, and each proof names what the state says of the bytes read so far. For delta the running sums are
  the bytes whose differences they add. For varint a group of bytes adds its seven bits each to the word, five groups at most, and the
  words follow one another. For the run-length decoders one state machine goes byte by byte and one function tag by tag:
  from every tag on, both yield the same (`Agrees`), by induction from the end of the input. No decoder writes more than its room, and one
  that succeeds in a small room gives the same in a larger one.
- **Checksums** (`ChainsDetectChanges`). A chain verifies what it sealed: its stamps are words whose four bytes come back
  (`TurnedWord`). One changed byte changes the sum `a` of Adler by less than the modulus, so the stamp differs, whatever the
  other checksum of the chain says. This is why the chains tried end in Adler's: for the modulus 255 of Fletcher's the bytes 0 and 255 are the same.
- **Cipher** (`CiphersAgree`). An exclusive or undoes itself, and up to the length of the key the derived words are the bytes of the key; so any
  copy of the key decrypts inputs of whole words up to the key's length, or of less than a word. Of others nothing is said.
- **Bytes, keys and packets in `MCStores`** (`BytesKeepLaws`, `KeysDecrypt`, `PacketsStayPrefixes`) put these together with the invariants of `MCStores`: whatever bytes a behaviour tries,
  however ciphers were copied and packets built.
- **IngestPipeline** (`IngestTypes`, `VerdictCounts`, `BufferHolds`, `PartsFollowHistory`, `IngestStats`). `PacketInv`: inside a packet, as many
  entries at the end of the history as were handled are this packet's, and once it was cut short there is an error and too few were accepted;
  the verdict follows. The buffer and the read position, which stays at the front, follow the accepted entries one
  push at a time. Every loader keeps its types on any stream (`PartTypes`). For the parts that `reset` clears, each definition
  of `PartsFollowSections` is a function of the recent history, and one more section changes the function as its loader changes the part: for the filters
  that `Acceptable` distributes over concatenation, for the log that appending one by one to the newest events leaves the newest of all.

What the model's loops and folds compute for sequences of every length needs induction over data. No induction theorem
of the library can be used, since they take operators as parameters; `RecordStream_proofs` runs it over the least member of
a set of numbers instead (`LeastNatural`, `SetInduction`), and derives from it once what the proofs share: what a loop
yields (`Iterates`), what is kept of a sequence and at which places (`KeptRecursion`, `KeptPlaces`, `KeptOfBoth`), flattened
sequences, the newest entries, greatest elements, counting and remainders. Loops are written as recursive functions in the
modules that are proved about, `std::remove_if` and its like as `Kept`, and a loop that carries a state over a sequence as `Loop`, whose
argument is a function and not an operator: every backend can apply it.

Model-checked only:

- What the `ASSUME`s of `MCStores` and `MCIngest` say of the families of numbered helpers: multiplication modulo the width of a word is a fold
  over the bits of a word, and no proof about it was tried. No theorem uses them.
- The four properties that the code violates, which are theorems of nothing.

## 5. Where code, comments and tests disagree

Shown by runs: the four violations of section 3. `protocol_negotiation` and `protocol_listing` are against
tests and comments of the repository; `queue_duplicates` and `fragments_dangling` are defects its comments describe.

Seen while modelling, without a run of their own:

- `expire_retransmit_queue` changes nothing, though the README lists timeouts and
  `FRAGMENT_TIMEOUT_MS` is defined.
- `ProtocolMessageType::Control` is refused by `handle_message`; `test_protocol.cpp:100-106` sends it.
- `request_retransmit` of a fragment that is not stored returns false; `test_fragment.cpp:64` and
  `:77` make such calls.
- `age_routes` keeps dead routes in the table (and `route_count`, and the capacity);
  `test_routing.cpp:56-63` expects a count of 0.
- A Heartbeat establishes a connection from any state, Closed included.
- The comment at `aeroframe.cpp:265` lists an action 1 for dequeue; the switch has none.
- The comment at `protocol.cpp:92-95` and `:120-129` says that a Data message is answered with the
  context of a declaration. It never is: `DataIsAnsweredBare`.
- The comment at `queue.cpp:83-96` says that promotion counts may wrap. A message that starts at 0
  has at most 3: `PromotionsBoundedByLevel`.

- `read_u32` of a condition's mask (`filter_engine.cpp:46`) reads a fifteenth byte where 14 are asked for
  and passed over: a mask ends in the first byte of what follows it.
- `XorCipher::encrypt` takes the derived words by position without looking at their number: an input
  longer than the key is encrypted with what lies behind them. `CopiedKeysDecrypt` therefore speaks of inputs up to the key's
  length, in whole words.
- `LzssTest.TruncatedLiteral` (`test_compress.cpp:140-149`) expects that an LZSS input is refused which ends among the literals
  its control byte announces. The loop over a control byte ends with the input (`compress.cpp:56`) and the call succeeds; so
  does the model, and `ByteLaws` speaks of full groups of eight only.
- `encode` and `decode` of `CodecDispatch` are named as a pair and are not inverse: see `CodecsLeave`.
- `process_packet` asks for 6 bytes and reads a time stamp at 4 (`ingest_pipeline.cpp:68-72`): for lengths 6 and 7 it reads up to
  two bytes past the end. No section fits behind such a header, so the time is not used, and the model leaves it out.
- `StateStore::get_latest` finds nothing after its snapshot was pruned, though older ids may have been
  saved again with later times.
- `IngestPipeline::reset` keeps schemas, devices, metrics, the codec table, the telemetry counts and the
  buffer.
- `EventLog::parse_log_stream` and the telemetry decoder read a byte or two behind a record that is too short, and refuse it then.

## 6. Not modelled, and why

- Printing, argument handling, generators and test drivers (`main.cpp`, `tools/`, `fuzz/`): pure I/O.
- The polynomial of the CRC inside the parser's phases: parse tells a CRC that matches from one that does not.
- Members that nothing reads: `total_priority_moves_`, the drift of `TimeSyncEngine`, `sum_sq` of the
  statistics, the priority of a filter rule.
- The room of the output buffer that callers hand to the cipher, and the numbers inside telemetry
  records other than the readings of power rails.
- Inside `AeroParser`, the effects of the three chunks that go to the ingest pipeline, the schema
  registry and the validator. They touch no other component, and the modules of these three model them on
  their own; composing them would multiply the parser's states without an interaction to check.
- A transform whose result does not fit a 32-bit number: the conversion of such a double is undefined, and `StageResults` gives the
  results that fit.
- Allocation failure.

What could follow: packets of `PacketBuilder` read by `AeroParser`; theorems about the hashes of the numbered helpers.
