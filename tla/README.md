# StreamGrid: a TLA+ model of the runtime

StreamGrid carries positions of aircraft and vessels from radio feeds to
browsers: decoders turn Beast (ADS-B) and NMEA (AIS) streams into tables of
entities, a pipeline samples the tables ten times a second into one binary
frame, the edge server fans each frame out to its clients, and a worker in the
browser writes the frames into a shared buffer that a renderer draws from.
This directory holds TLA+ modules of that program, model-checking
configurations for TLC, and proofs for TLAPS.

## Inventory

| Component | Source | State | Operations | What is hard about it | Status |
|---|---|---|---|---|---|
| Edge fan-out | `edge/server.go` | registry `clients` (a `sync.Map`) and `clientCount`; per client a bounded channel, viewport, `lastSent` | accept, store, count, read pump (subscribe, unsubscribe, close), write pump, clean-up, `BroadcastFrameFiltered`, `Stop` | one broadcaster, two goroutines per WebSocket client, one per WebTransport client, all interleaved; full channels; dead peers; a filter that remembers what it sent | modelled |
| Pipeline | `edge/pipeline.go` | feeds, frame buffer, tick number | `Start`, `broadcastTick`, `collectStates` | several decoders written by their feeds while the tick prunes and copies them; fallback to synthetic data; entity cap and 16-bit count | modelled |
| AIS decoder | `applications/ais/decoder.go` | vessel table, fragment sets | `FeedLine`, ten message types, `PruneStale`, `GetActiveVessels` | fragments lost, repeated, interleaved; static and dynamic data in any order; jumps | modelled |
| ADS-B tracker | `applications/adsb/decoder.go`, `cpr_local.go` | aircraft table with CPR slots | identification, airborne and surface position, velocity, `PruneStale` | even/odd pairs in time windows; local decoding next to the last position; validation against it; two critical sections per message | modelled (latitude) |
| Beast framing | `applications/adsb/decoder.go` | byte buffer | `Feed`, `unescape`, `findConsumed` | a stream cut anywhere; a buffer that outlives its session | modelled |
| Feed connectors | `applications/{adsb,ais}/feed.go` | connection, session goroutine | `Connect`, `runSession` | cancellation at any point, reconnects, a goroutine per session | modelled |
| Transport worker, client | `web/src/transport-worker.ts`, `client.ts` | socket, shared buffer, connection flag | connect, disconnect, destroy, `processFrame`, `getFrameInfo` | two threads on one buffer without a lock; messages still on their way; workers terminated anywhere | modelled |
| Generator | `generator/generator.go` | synthetic entities, their sequence number | `TickInto`, encode | wrapping and clamping; 16-bit count | partly |
| Protocol codec | `protocol/src/lib.rs` | - | `decode_frame` | casts over raw memory | left out |
| Spatial grid | `compute/src/lib.rs` | cells | insert, query, clear | borders of cells and of the globe | modelled |
| Record and replay | `benchmarks/replay/replay.go` | file | record, play | a recording cut short; timing with a slow consumer | modelled |
| CPR arithmetic and CRC | `applications/adsb/*.go` | - | zones, checksum | floats, a negative reference | partly (latitude zones) |
| Renderer, map page, generator server, edge command, benchmarks | `web/src/renderer.ts`, `web/index.html`, `generator/cmd`, `edge/cmd`, `benchmarks` | - | drawing, presentation, a load tool, wiring, measuring | - | left out |

Data flows in one direction. A feed connector owns a TCP connection and calls
its decoder (`FeedLine`, `Feed`) in its own goroutine. The pipeline's goroutine
shares each decoder's table with that goroutine under the decoder's mutex, and
is the only caller of `BroadcastFrame`. The edge server's handlers share the
registry and each client's channel, viewport and `lastSent` with it. Browser
side, the worker shares a `SharedArrayBuffer` with the page's main thread and
talks to it in messages.

What makes each component correct:

- fan-out: each client gets an in-order, duplicate-free sub-sequence of the
  frames; a subscription governs all later frames; delta filtering never hides
  a change from a client that lost nothing; no client can stop or delay the
  broadcast; clients that are gone leave; the count tells the truth;
- pipeline: every active entity is in the frame, and the count says so; an
  update changes its sequence number; synthetic data never replaces live data;
  silent entities leave;
- decoders: a message is decoded from the bytes or fragments sent for it,
  however they are cut; a position that is accepted is where the entity is; an
  entity that moves legally is never frozen, one no longer heard of disappears;
- connectors: a cancelled connector ends, an interrupted one reconnects and
  leaves no connection behind;
- browser: the sequence number in the shared buffer fences the words of the header
  written before it; the state the client reports is that of the socket it uses;
- recordings: what is played back is a prefix of what was recorded, whole and,
  but for the truncation of one quotient, never early; a query of the index misses
  nothing.

`PROJECT.json` lists every hazard at its line, with the properties that cover
it or the reason why none does.

## Modules

| Module | Models | Contents |
|---|---|---|
| `EdgeServer` | `edge/server.go` | state, handler, read pump, broadcaster, properties |
| `LossyFeed` | - | the abstract feed one client sees; `EdgeServer` implements it |
| `MC_EdgeServer` | - | frames and viewports for TLC |
| `EdgeServerProofs` | - | theorems about `EdgeServer`: types, count, order, panics; that it implements `LossyFeed`; subscriptions and delta filtering |
| `Pipeline` | `edge/pipeline.go`, the decoders' `PruneStale` and samplers, `EncodeFrameInto` | feeds, clock, the tick in its steps, properties |
| `MC_Pipeline` | - | an aircraft and a vessel, a generator |
| `PipelineProofs` | - | theorems about `Pipeline` |
| `AisFragments` | `FeedLine`'s fragment sets, `applications/ais/decoder.go` | state and operators |
| `AisTracker` | the vessel table, message types and sanity checks of the same file | state and operators |
| `AisDecoder` | the two together | composition, properties |
| `MC_AisDecoder` | - | a ship, a base station, two long messages |
| `AisDecoderProofs` | - | theorems about `AisDecoder` and the two it composes |
| `AdsbTracker` | the aircraft table, CPR latitude and validation, `applications/adsb/decoder.go`, `cpr_local.go` | state, codes, the two critical sections, properties |
| `MC_AdsbTracker` | - | a northern and a southern route |
| `AdsbTrackerProofs` | - | arithmetic of compact positions, theorems about `AdsbTracker` |
| `BeastFraming` | `Feed`, `unescape`, `findConsumed` of the same file | operators, the loops as recursive functions |
| `FeedConnector` | `applications/adsb/feed.go`, `applications/ais/feed.go` | state and operators |
| `BeastFeed` | a receiver, a connector and the framing behind it | composition, properties |
| `MC_BeastFeed` | - | four kinds of frames |
| `BeastFeedProofs` | - | what framing does with a stream; theorems about `BeastFeed` and `FeedConnector` |
| `WebClient` | `web/src/client.ts`, `web/src/transport-worker.ts` | main thread, workers, shared header, properties |
| `MC_WebClient` | - | - |
| `WebClientProofs` | - | theorems about `WebClient` |
| `SpatialGrid` | `compute/src/lib.rs` | operators |
| `Replay` | `benchmarks/replay/replay.go`, ticks and frames of `generator/generator.go` | generator, recorder, player, properties |
| `MC_Replay` | - | a small globe, boxes |
| `ReplayProofs` | - | cells and boxes of `SpatialGrid`; theorems about `Replay` |
| `Recursion` | - | lemmas for induction over lengths and for recursive functions |

`LossyFeed` is implemented by `EdgeServer` (refinement mapping in
`ImplementsFeed`); `AisDecoder`, `BeastFeed` and `Replay` EXTEND the parts they
compose. Definitions
marked "fault" are plausible mistakes: each replaces the definition it stands
next to when the properties themselves are put to the test, and no
specification uses them.

### EdgeServer and the code

A connection `c` stands for its client id, which the code draws from an atomic
counter and never reuses. Its handler goroutine is at `hpc[c]`:

| `hpc[c]` | WebSocket (`handleWebSocketClient`) | WebTransport (`handleWebTransportSession`) |
|---|---|---|
| idle, upgraded | before and after the upgrade (302-309) | (416-424) |
| stored | after `clients.Store` (344) | after `clients.Store` (448) |
| opening | - | counted, before `OpenUniStreamSync` (459) |
| pumping | waiting at `range client.frameCh` (398) | waiting for a frame (468) |
| writing | in `WriteMessage` (400) | in `stream.Write` |
| cleanup, deleted, uncounted | the deferred function (347-353) | the same |
| gone | returned | returned |

The read pump (356-394) is at `rpc[c]`; `"ended"` means that it has closed the
channel, which it does in the same breath as returning. `link[c]` is what the
server's stack knows of the peer. The broadcaster is at `bpc`: `ranging`
between two callbacks of `clients.Range`, `loaded` at the start of a callback
for `cur`, `recording` before the second critical section (208-218), `sending`
before the `select` (155-161 or 220-224), `panicked` after a send on a closed
channel. Every lock section, channel operation and atomic step is an action of
its own; a stretch of code that touches nothing shared is joined to the step
before it.

`Range` is modelled by what `sync.Map` guarantees and no more: no key twice, all
keys present throughout, others perhaps.

A frame is its broadcast number with a set of records (entity, position,
sequence number), or one that does not parse; a viewport is a set of positions,
a bounding box's effect. `enq`, `lost`, `view`, `cfgTick` and `born` are history
variables: no action's guard reads them. What the write pump does to a
frame on the wire, certificates, static files and log lines are left out.

### Pipeline and the code

The pipeline's goroutine is at `pc`: waiting in the `select` of `Start`
(134-142), in the loop over the feeds (179-193, `at` names the feed), about to
encode and broadcast, or stopped. Pruning and sampling one feed are two steps,
because they take the decoder's mutex one after the other; `Hear` - a decoder
that writes its table - and the clock run at any time between them. An entry
keeps its age and whether it has a position; `steady`, which no guard reads,
holds the entities active since the tick began. `Capped` cuts the list at `MaxEntities` feed after feed, and
within a feed in any order, since the tables are Go maps. The sequence number
and the entity count are reduced by `SeqModulus` and `CountModulus`, 2^32 and
65536 in the code.

Two feeds that hear the same vessel put two records of one entity id into the
frame; the model does the same and tells them apart by their feed.

### AisDecoder and the code

A sentence is a message and its number in it; that it is lost or fails its
checksum is that `FeedFragment` does not happen for it. A set of `fragments` is the
list of payloads the code holds, and what it decodes to depends on the list: its
first sentence gives type, sender and ship type, and a wrong continuation may
make it too short. `FeedSingle` is any message of one sentence. Message types
that treat the table alike share an operator: 1-3 and 18, 5 and part B of 24, 4
and 11. A position is the cell of its longitude along a parallel; latitude goes
through the same check and brings nothing new. `posAge` and `seen` are the
times since `LastPosTime` and `LastSeen`, capped where the code stops telling
them apart. The parallel goes round the globe: its first and last cells are
neighbours across the 180th meridian. `truth`, `honest` and `intact` are history variables: where each
ship is, whether the table's position was true when accepted, and how much of a
message has arrived undisturbed.

`decodeSARPosition` calls its speed field knots (line 579) and divides it by
ten all the same; speeds of aircraft are not checked and the model gives
them no meaning.

### AdsbTracker and the code

An entry of the table keeps whether it has a position, its latitude, the times
since `LastPosTime` and `LastSeen`, and the two CPR slots with their ages.
`Receive` is `decodeModeSLong` up to the end of its first critical section,
`Decode` the position decoder behind the second; between them `Prune` may run,
and `hand` is the message on its way. The clock stands still meanwhile:
microseconds against seconds.

The circle has `EvenZones` zones of `EvenWidth` cells or `OddZones` of `OddWidth`,
and a frame's code says where in its zone the aircraft is; `LocalDecode` and
`GlobalDecode` are the code's formulas in whole numbers, `GoMod` is Go's
`math.Mod` with its sign. Frames on the ground have zones a quarter as wide and
share the slots. `NL` is the number of longitude zones, by which a pair that
straddles a band is refused. `MaxDist` is the limit of `validatePosition`, with
its drop at a minute. Longitudes need zones whose number depends on the latitude
and are left out; so are altitude, speed and identification, which no position
depends on: they are messages of kind "other". `truth`, `grounded`, `honest` and the
encoding noted in a slot are history.

### BeastFraming, FeedConnector, BeastFeed and the code

`Scan` is the loop of `Feed`: it looks for an escape byte that another byte follows,
takes the type's length, un-escapes and passes on, or waits, or steps one byte ahead.
Time stamp and signal level are left out and payloads are a byte or two long,
so that a frame begins, ends or is cut next to an escape within few steps. Types
`1`, `2` and `4`, which are framed and dropped, are `Short`. `Escaped`, `Unescape` and
`Scan` are recursive functions, one round of the code's loops in each step. `decoded`
has an entry for each call of `decodeModeSLong`, 0 when the checksum fails.

`Connect` of a connector is at `pc`: at the top of its loop, dialling, backing off
after a failure, reading, waiting after a session, or done. `open` and `watchers`
hold the connections that are open and the goroutines that wait for the context,
by session. In `BeastFeed` a receiver sends frames, `Read` takes any number of
bytes that have arrived and feeds them to the decoder, and a session ends
anywhere; the decoder's buffer survives it. `heard` is all that was ever read:
`ChunkingIsInvisible` compares with what one call of `Feed` makes of it.

Two properties have exceptions, both named in the module. A frame that arrives
behind the stump of one cut off, or behind one of an unknown type, waits in the
buffer until enough bytes have come to tell the stump from a frame; and one
whose first byte completes an escape left by the session before is lost.

### WebClient and the code

The main thread's actions are the calls of `StreamGridClient` and its message
handler; a worker handles one event at a time: a message of the main thread,
`onopen`, `onclose`, the end of a WebTransport stream, a frame. Messages are
queued in order in each direction. The stores of a frame are steps of their own:
the plain ones may become visible in any order, the atomic store of the sequence
number comes last, and `getFrameInfo` loads four words in four steps: sequence number,
count, and the low and the high half of the time stamp. Each word is represented by
the worker and the frame it was written from. A connection whose constructor throws
(`StartFails`) is closed before it was ever open. `terminate`
stops a worker's event loop and drops its messages; a script that is storing a
frame may go on for a while (`dying`). Entity data, statistics, the assembly of
frames from a WebTransport stream and error messages are left out.

### SpatialGrid, Replay and the code

`Replay` takes the synthetic path from end to end. `BeginRecord` is a tick of
`RecordToFile` up to the record's header: the generator moves each entity by one of
`Steps`, wraps and clamps, and the frame is made; `EndRecord` writes the frame.
`Crash` leaves any beginning of the file behind. The player reads record after
record; with timing, it waits until the quotient of elapsed time and speed, and
`TimePasses` at any point makes its consumer slow, and the consumer may refuse any
frame, which ends the playing. What `onFrame` does is the caller's business, and
no code of the repository joins the player to the index: the model assumes a consumer
that rebuilds the index from each frame, so that the index's operations run on what
the generator can produce. `decode_frame`, with its checks of length, magic number
and alignment, is not part of it. A globe of 8 by 4 units in cells of 2 has every kind of border, and one of the boxes
reaches the seam at 180 degrees.

The player does not subtract the elapsed time of the first record, so the gap
between the first two frames is too long by it; `NeverAhead` claims one direction
only. It allows one unit of the clock, because the quotient is cut down to whole
nanoseconds: at speed 2 a frame may come half a unit early in the instance.

### Runs

| Run | Instance | Shows |
|---|---|---|
| `registry` | one WebSocket and one WebTransport client, channels of 2, 3 broadcasts | count and registry, completeness of a broadcast, order, who can panic it, refinement of `LossyFeed` |
| `filter` | one WebSocket client, two entities, two viewports, three frames (one malformed), 3 broadcasts | subscriptions take effect, delta filtering is right as long as nothing is dropped |
| `live` | one WebSocket client, 3 broadcasts, fairness | a dead client is reaped, a queue moves |
| `stuck` | one WebTransport client whose write never ends, 4 broadcasts, fairness | a broadcast ends all the same |
| `tick` | an aircraft and a vessel on two feeds, a generator, a cap of 1, fairness | frames are complete up to the cap, counted right and freshly numbered; silent entities leave; a cancelled pipeline stops |
| `feed` | one ship with right and wrong positions and three speeds on a closed parallel, one base station, two messages with one sequence id, fairness of the clock | assembly recovers from loss and mixing, sanity checks believe the truth, keep a tanker's speed legal and get over a wrong position |
| `fix` | one aircraft that flies, lands and takes off across a zone border, north | accepted positions are true, one frame suffices after a fix, pruning never takes the entry in hand |
| `beast` | three frames of four kinds, two sessions, any chunks | framing does not depend on chunks, nothing twice or out of order, nothing whole is lost, the buffer is bounded, cancellation ends everything |
| `web` | two workers, two events: frames or calls of disconnect | the release fence word by word, the flag against the socket, disconnecting closes |
| `replay` | two entities, three records, speeds 1 and 2 and no timing | a recording cut anywhere, timing, the index |
| `panic`, `south` | the smallest instance each needs | where the code departs from what its comments say (below) |

Bounds. `MaxTicks` bounds broadcasts. A client reads the channel, the filter and
the registry only through its own entry, and clients meet only in the set
`clients`, in `visited` and in `cur`, so two clients of different kinds show
every interaction of two, and a third adds no new kind of step. With
channels of 2 and three broadcasts two frames are queued together behind one that
is being written, a channel fills up, overflows, is drained and filled again; where
order is not the question (`filter`, `live`, `stuck`) a capacity of 1 makes
overflow frequent. Filtering needs
three broadcasts: one to fill the map, one that differs, one after a change of
subscription.

In `Pipeline` a `SeqModulus` of 2 wraps every other tick. `MaxAge` is one step of
the clock instead of 60 s: an age is only compared with it, and saturates one step
later. A cap of 1 with two feeds is reached and exceeded. In `AisDecoder`,
`MaxPending` 3 admits a set with a foreign sentence in every place; four
cells with a jump limit of one separate "near" from "far", and ships move at most
one cell in a step, the 0.33 degrees in five minutes that the code's limit allows a
ship. `GapLimit` 2 and `SeenLimit` 1 keep the order of the five minutes and the
60 seconds, so that a vessel can outlive its position and the reverse.

In `AdsbTracker` a step of the clock is about 12 s: a pair must come within one
step (`PairLimit`), a minute is five steps (`ShortGap`, `SeenLimit`), and `Rate`,
`Creep` and `Jump` keep the code's order, so that the limit first grows and then
drops. Five even and four odd zones of 16 and 20 cells have the border the route
crosses, and surface zones of 4 and 5. In `BeastFeed` three frames are a stump, a
frame behind it and one behind that; `Backlog` bounds what is on the wire at 6
bytes when a frame is sent, more than any frame of the instance. In `WebClient` two workers are one
after the other or both at once. Of frames and calls of disconnect there
are two together: for the fence two frames are an old one and one stored during the
reads, in one worker or in two, and a disconnect writes nothing into the buffer; for
the flag one frame is enough, which keeps a worker busy or makes it outlive its
termination. In
`Replay` three records are a first, a second and one cut off; one entity moves and one
stands still.

Fairness. A goroutine that can run runs: weak fairness of each handler's steps,
of `ReadErr` (the runtime's poller delivers the error), of `WriteErr` (for a
WebSocket the 5 s deadline fires; a WebTransport write has no deadline and fails
only on a dead session) and of the broadcaster. No fairness is assumed of
peers: they need not disconnect, subscribe or accept a write (`WriteOK`), nor
of `Upgrade` or `StartBroadcast`. `sync.Map.Range` visits finitely many keys, so the
broadcaster as a whole is one fairness condition. In `Pipeline` time passes, the
ticker fires and a tick that runs goes on (weak fairness); leaving on
cancellation is strongly fair, because `select` picks at random among ready
cases and cannot prefer the ticker for ever. In `AisDecoder` only the clock is
fair: no ship has to report, and `GlitchOvercome` speaks of those that do. In
`BeastFeed` a dial that is cancelled returns, timers fire and goroutines run; the
receiver need not send, and its end of the connection need not close. In
`WebClient` the browser runs the workers' event loops and a socket told to
close closes.

### What the runs found

- `panic`: the read pump closes `frameCh` of a client that is still
  registered; a broadcast that reaches it before the handler has deleted it
  panics on the send, `default` or not, and the process ends. The peer need not have
  gone: one that is connected and slow misses the write deadline of 5 s, the handler
  removes it and closes the connection, which ends the read pump, and a broadcast
  that had it from its `Range` before panics as well. `OnlyLeavingClientsPanic` shows
  that nothing else leads there.
- `south`: `decodeCPRLocal` adds `math.Mod(ref, width)`, which is negative for a
  negative reference, to the floor of the quotient. South of the equator (and,
  for the longitude, west of Greenwich) the local decode is one whole zone off.
  `validatePosition` rejects that after a short gap, so that one frame does not
  suffice; after a longer one the wrong position is accepted. On the northern
  half `OneFrameSuffices` holds (`fix`).

Departures no run keeps to itself; a property of a passing run marks the
border of each.

- `lastSent` is filled in before the send that a full channel drops (server.go:214):
  an entity whose sequence number stays is then never sent again to that client.
  `LastSentUnlessLossy` and `CaughtUp` show that this is the only way for the
  map to be wrong.
- A WebTransport handler waiting for a frame does not notice that its session is
  dead (server.go:468), so an idle server counts it for ever. `WebSocketReaped`
  shows that a WebSocket client does leave.
- The count in a frame's header is the low 16 bits of the number of records
  (generator.go:441): with 65536 entities, which `MaxEntities` permits, it is 0.
  `CompleteFrames` has the count right below the modulus (`Counted`).
- Each record gets the tick's number, changed or not (pipeline.go:183), so the delta
  filter of the edge server has nothing to skip among live entities. That it
  hides no update is `Renumbered`.
- AIS longitudes are subtracted as numbers (ais/decoder.go:224): a ship that
  crosses the 180th meridian looks as if it had jumped 360 degrees and stays
  where it was for five minutes. Elsewhere `TruthAccepted` holds.
- The jump limit of an aircraft falls from 15 degrees to 0.83 when a minute has
  passed since its last position (cpr_local.go:83; its comment takes 0.25 degrees
  per minute for degrees per second): one that other messages keep alive and that
  has flown further is frozen. `AcceptedIsTrue` and `OneFrameSuffices` speak of those
  within the limit and within half a zone.
- The global decode of a surface pair takes the northern quarter without asking
  where the receiver is, and slots mix airborne and surface codes
  (decoder.go:529): a first fix on the ground of the southern half, or at take-off
  or landing, may be wrong. `AcceptedIsTrue` excepts both.
- Over WebTransport `disconnect()` closes nothing, and a session that fails is
  never reported as disconnected (transport-worker.ts:153, 214). `FlagSettles` and
  `DisconnectCloses` speak of WebSocket.
- A second `connect()` without `destroy()` leaves a worker running that writes the
  same buffer (client.ts:120). `ReleaseFence` and `FlagSettles` except it.
- A frame stored while `getFrameInfo` loads the header leaves the count and the two
  halves of the time stamp from different frames (client.ts:98-102): the reader does
  not look at the sequence number again. A stamp of the old low and the new high half
  is of no frame. `ReleaseFence` speaks of each word alone.
- An entity at exactly 180 degrees east is filed under the west end of the next row
  of the index, where queries of that end find it as well (lib.rs:62).
  `IndexFinds` excepts it.

### Proofs

Each theorem holds for every value of the constants that satisfies the named
ASSUMEs of its module, and TLC evaluates those in every run. The proofs have one
shape: an inductive invariant stronger than the property, one lemma per action,
and a last step that puts them together. All of the invariants but those that
only give types were checked by TLC on the instances of the runs as well.

**`EdgeServerProofs`**, for every set of connections, frames and viewports, every
channel capacity and number of broadcasts:

- `TypeCorrect`: `Spec => []TypeOK`, with the capacity of the channels;
- `CountInvariant`, `CountCorrect`: the set form of the registry invariant
  (`clients` is the set of connections between `Store` and `Delete`, the count
  the cardinality of those between the two `Add`s) is inductive, and
  `CountMatchesRegistry` follows by cardinalities of subsets of a finite set;
- `OrderInvariant`, `DeliveredInOrder`: `OrderInv` orders the three stages a frame
  passes (written, taken, queued, enqueued) and says that nothing is enqueued
  yet for a client still to be visited. It is inductive together with `TypeOK`;
  the action property follows because a write writes what was taken;
- `PanicNeedsLeavingClient`: a channel that is closed is that of a WebSocket client
  whose link is no longer up; and a link the server has closed is that of a handler
  that is done, whose client by `CountInv` is out of the registry.

The same module shows `FeedImplemented`, the refinement. The mapping takes what was
accepted for a client, what is queued and what is in flight to the variables of
`LossyFeed`; each of the server's steps is an offer, a drop, a take, a delivery or
the end of one client's feed, and a stutter for all the others. `OrderInv` supplies
that what is enqueued is new.

Its last part is about filtering. `FilterInv` adds to the two properties
`SubscriptionHonoured` and `LastSentUnlessLossy` what a callback of the broadcaster
carries between its two critical sections: a frame filtered after the last change
of the subscription obeys it (`OutInv`), what is left of a frame is a part of the
frame, and the map says nothing else of an entity than what is about to be sent
(`EnteredInv`). `CaughtInv` says of each client already visited, and of
the one at hand, that it has or will get what its viewport asks for.

**`PipelineProofs`**: `FramesComplete`. Between two steps of a tick decoders
write and the clock may move, so the invariant speaks of the entities
active since the tick began: they are active still, and from the moment their feed has
been visited they are in the list. Numbers of the list are the tick's, those of
the last frame an earlier tick's, which takes a `SeqModulus` above 1.
`TypeCorrect` needs that the list is finite, because the header counts it.

**`AisDecoderProofs`**: `MessagesAssemble` and `FirstSentenceFirst` for any messages,
fragment counts and sequence ids: while a message arrives undisturbed, its set is
exactly what has arrived of it. `TruthIsAccepted`: a true position as old as `d`
steps is at most `d` cells from the ship, the shorter way round (`TruthInv`); the
gap limit keeps `d` within the jump limit (`MotionAssumption`, 0.33 degrees
in five minutes). `CargoStaysSlow` is an action property by cases over the message
types.

**`AdsbTrackerProofs`**: half of the module is arithmetic of compact positions, for
any zones and widths. `LocalDecodeCorrect`: the local decode finds a latitude from
a reference less than half a zone away, if the reference is not negative.
`GlobalDecodeCorrect`: an even and an odd code of two places close to each other
give back the zone of each. From these:

- `OneFrameIsEnough`, for a route of the northern half. The hypothesis
  `Route \subseteq Nat` is the one the run `south` shows to be needed;
- `AcceptedPositionsAreTrue`, for a northern quarter, one even zone more than odd
  ones (60 and 59) and `PairsAreClose`: within the 10 s that the code allows a pair,
  an aircraft in the air moves by less than half of what an even and an odd zone
  differ by (0.05 degrees), one on the ground by less than a quarter of that.
  `SlotsInv` carries how far an aircraft can be from where a code in the table
  was sent. When the local decode of an aircraft with a position is refused as
  implausible, the global one is at most as far away and differs by whole zones, so
  it is the truth as well;
- `DecodesIntoTable`: the entry a message in hand is for was just marked as seen.

**`WebClientProofs`**: `FlagTellsTruth`. While answers are on their way the flag lags
behind, so the invariant is about the last word: the last answer in the queue, or
the flag if there is none, tells whether the socket is open. The property came
out stronger than it was first stated: that no request is on its way to the
worker need not be demanded, and `FlagSettles` no longer does. `FenceHolds`: while
no two workers run, no word of the header is behind the sequence number
(`Fenced`, `Flushed`), and what a reader has seen is never taken back (`Kept`). That
is all the code gives: the words need not be from one frame, and a time stamp can be
put together from the halves of two ("What the runs found").

**`Recursion`**: the library's induction theorems take an operator, which the provers
cannot instantiate. Its well-foundedness of `<` on the naturals is a fact about sets,
though, and from it follow the two forms of induction used here: a set
that is not empty has an element of least measure (`LeastByMeasure`; a proof takes
the shortest counterexample), and a function that looks at one smaller argument
exists and obeys its equation (`LoopExists`), which is what a loop of the code needs.

**`ReplayProofs`**: `PlaysTheRecording`, `PlayingNeverAhead`, and `TypeCorrect`, which
says that wrapping and clamping keep entities on the globe: a step is at most a
turn. `QueriesFind`: `IndexedFiles` says where the fold over a frame's records files
each of them, `CellIsUnique` that a cell's number is that of one row and one column,
and `TouchedCells` that a box's query visits the cell of every place in it and
none that is a cell or more away.

**`BeastFeedProofs`**, for every set of frame types and lengths, every stream and every
cut. Its first half knows nothing of sessions: escaping and un-escaping, one
round of Feed's loop, then the loop. The lemma the rest stands on is `ScanCat`: what
is made of two chunks, one after the other, is what is made of both
at once. A candidate that is a frame stays the same one with more bytes
behind it, and `StumpStays`: one of `2 * MinLen` bytes that holds no frame never
becomes one, because its data have ended. `BothInStream` says that the messages decoded lie in the
stream one behind the other.

`CoreInv` joins these to the sessions: the decoder's state is what `Scan` makes of
`heard` (`Fed`), frames end where they are noted to end, and each number is in the
stream at the places of its frame only, in order (`NumbersInv`). Types and
`ChunksDoNotMatter` follow at once; `BufferIsBounded` because what `Scan` leaves is
a candidate that waits; `FramesInOrder` because a message that passes the check holds the
number of its frame, and numbers rise along the stream.

`NoFrameIsLost` needs to know what Feed takes for a frame's start. `LostInv` says that
every frame is at its place in the stream (`PlacedInv`) and that what was read before it
is `Clean`: either nothing that begins there can reach into the frame, or a session
was cut before, or a type came that Feed does not know, and the bytes there end in an
even number of escape bytes, so that none of them waits for a second half. Then the frame's own escape byte ends the data of any
stump (`DataStops`), Feed comes to it (`ReachClean`, `ReachEven`) and decodes it,
unless the stump still waits, and then all of the frame is in the buffer. The exception,
`spoiled`, is the frame before which a session was cut with an odd number (`SpoiledInv`).
TLC had found the two cases of `InEscape`; the invariant shows that there is no third.

`ConnectionsAreClosed` is about the connector alone: the only connection ever open is that
of the session being read, and the goroutine that closes it on cancellation is there.
`OpenIsWatched` is inductive as it stands; what the run `beast` adds is that cancellation
is then carried out (`CancelEnds`).

Assumptions. Those of `EdgeServer`: finitely many connections, a positive capacity,
viewports that are sets of positions, records of one entity in one frame agree
on the sequence number - all but the last as the code gives them; that one is
due to the pipeline, which stamps all records of a tick alike. Of the others, most
give a constant its type or keep a marker ("no entry", "no set", "nothing in hand")
from being a value. Those that say something of the world are `MotionAssumption`
(above), `FramingAssumption` (an escape byte is no frame's type, and no frame is longer
than a Mode-S long message), `PatternAssumption` (a receiver's frames are as long as
their type says, and no two long messages are alike: each holds its number, which is
how the model tells them apart), the bound on `Steps`, finitely many entities and boxes on
the globe in `Replay`, and the hypotheses of the two theorems of
`AdsbTracker`.

Only model-checked is what needs fairness, which is out of the prover's reach:
`WebSocketReaped`, `QueueMoves`, `BroadcastCompletes`, `SilentLeave`, `CancelStops`,
`GlitchOvercome`, `CancelEnds`, `DisconnectCloses`. All invariants of the passing
runs, their action properties and the refinement of `LossyFeed` (which states no
fairness) are proved. Of the properties of the runs that end in a violation,
`BroadcastNeverPanics` is false of the code and no theorem, and `OneFrameSuffices`
is one for routes of the northern half.

## Plan

The modules of the plan are written, and every safety property the runs check is
proved. What would extend the model: longitudes of compact positions, with zones whose
number depends on the latitude; the fields of an aircraft or vessel that no
decision depends on, and the race on `Category`; the renderer's unfenced reads.

## Not modelled

- Longitudes of CPR, the CRC, six-bit armour and every other decoding of bits:
  floating point and bit arithmetic over ranges no checker can enumerate. Models
  take a right checksum for a right frame.
- The renderer and the map page: drawing. The renderer reads the shared entities
  without the sequence number and may draw a mixture of two frames; nothing
  in it claims otherwise.
- The generator's TCP server, its stdout and benchmark modes, the edge command
  and the benchmarks: wiring and measuring.
- The unsafe views of `protocol/src/lib.rs`, motion models, TLS, static files,
  logging and statistics.


## Checking

    tlc -workers 2 -config EdgeServer_registry.cfg MC_EdgeServer
    tlc -workers 2 -config Pipeline_tick.cfg MC_Pipeline
    tlc -workers 2 -config AisDecoder_feed.cfg MC_AisDecoder
    tlc -workers 2 -config AdsbTracker_fix.cfg MC_AdsbTracker
    tlc -workers 2 -config BeastFeed_beast.cfg MC_BeastFeed
    tlc -workers 2 -config WebClient_web.cfg MC_WebClient
    tlc -workers 2 -config Replay_replay.cfg MC_Replay
    tlapm EdgeServerProofs.tla
    tlapm PipelineProofs.tla
    tlapm AisDecoderProofs.tla
    tlapm AdsbTrackerProofs.tla
    tlapm WebClientProofs.tla
    tlapm ReplayProofs.tla
    tlapm Recursion.tla
    tlapm BeastFeedProofs.tla
