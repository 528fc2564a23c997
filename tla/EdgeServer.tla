----------------------------- MODULE EdgeServer -----------------------------
(***************************************************************************)
(* The edge server's fan-out (edge/server.go).  One broadcaster, the       *)
(* pipeline's tick, ranges over a registry of clients and tries to put the *)
(* current frame, filtered for the client, into the client's bounded       *)
(* channel.  Each connection has a handler goroutine (hpc) that registers  *)
(* the client, drains its channel onto the wire and removes the client     *)
(* again in steps others interleave with.  A WebSocket connection also has *)
(* a read pump (rpc): it serves subscribe and unsubscribe messages, and    *)
(* closes the channel when reading fails.  WebTransport has no read pump.  *)
(*                                                                         *)
(* A frame is abstracted to its broadcast number and its entity records, a *)
(* viewport to the positions inside its box.  Connection ids come from an  *)
(* atomic counter (server.go:336): a connection stands for its own id.     *)
(***************************************************************************)
EXTENDS Integers, Sequences, FiniteSets

CONSTANTS
  Conns,            \* every connection the server ever accepts
  WebSockets,       \* those that arrive on /ws; the others arrive on /wt
  Entities,         \* entity ids
  Positions,        \* positions an entity record can carry
  Viewports,        \* viewports a client may subscribe to: sets of positions
  Frames,           \* frames the broadcaster may be handed
  MaxBufferFrames,  \* capacity of a client's channel
  MaxTicks,         \* bound: number of broadcasts
  NoViewport,       \* client.viewport = nil
  NoMap             \* client.lastSent = nil

\* No entry of a lastSent map; no record of an entity enqueued yet.
Absent == -1

Record == [id : Entities, pos : Positions, seq : Nat]
SeqMap == [Entities -> Nat \cup {Absent}]
Frame  == [valid : BOOLEAN, recs : SUBSET Record]

ASSUME ConnsAssumption == IsFiniteSet(Conns) /\ WebSockets \subseteq Conns

ASSUME SizeAssumption == MaxBufferFrames \in Nat \ {0} /\ MaxTicks \in Nat

ASSUME ViewportAssumption ==
  /\ \A v \in Viewports : v \subseteq Positions
  /\ NoViewport \notin Viewports
  /\ NoMap \notin SeqMap

\* Records of one entity inside one frame carry one sequence number: the
\* pipeline stamps every record of a tick (pipeline.go:174-202).
\* A frame that does not parse has no records.
ASSUME FrameAssumption ==
  /\ Frames \subseteq Frame
  /\ \A f \in Frames : ~f.valid => f.recs = {}
  /\ \A f \in Frames : \A r, s \in f.recs : r.id = s.id => r.seq = s.seq

VARIABLES
  clients,      \* keys of the Server.clients map
  clientCount,  \* Server.clientCount
  stopped,      \* Stop has been called
  link,         \* the transport of a connection: up, down, or closed by us
  hpc,          \* where the connection's handler goroutine is
  rpc,          \* where its read pump is; "ended" means frameCh is closed
  chan,         \* client.frameCh
  viewport,     \* client.viewport
  lastSent,     \* client.lastSent
  taken,        \* broadcast number of the last frame the write pump took
  wrote,        \* broadcast number of the last frame it wrote
  bpc,          \* where the broadcaster is
  tick,         \* number of broadcasts begun
  frame,        \* the frame being broadcast
  startSet,     \* keys of the map when the current Range began
  visited,      \* keys the current Range has yielded
  cur,          \* the client the Range callback is at
  out,          \* the frame the callback is about to send to it
  enq,          \* history: number of the last frame enqueued for a client
  lost,         \* history: number of the last frame dropped for a client
  view,         \* history: per entity, the seq last enqueued for a client
  cfgTick,      \* history: tick at the last subscribe or unsubscribe
  born          \* history: tick at which client.lastSent was made

registry == <<clients, clientCount>>
pumps    == <<taken, wrote>>
filters  == <<viewport, lastSent, cfgTick, born>>
range    == <<tick, frame, startSet, visited, cur>>
sent     == <<enq, lost, view>>

\* What a step of a connection leaves alone, and what the broadcaster does.
beyondConn  == <<stopped, bpc, range, out, sent>>
beyondRange == <<registry, stopped, link, hpc, rpc, pumps, cfgTick, born, viewport>>

vars == <<beyondConn, registry, link, hpc, rpc, chan, pumps, filters>>

EmptyMap == [e \in Entities |-> Absent]
NoOut    == [tick |-> 0, full |-> FALSE, recs |-> {}]

\* A panic of the broadcaster takes the process down with it.
Alive == bpc # "panicked"

Init ==
  /\ clients = {} /\ clientCount = 0 /\ stopped = FALSE
  /\ link = [c \in Conns |-> "up"]
  /\ hpc = [c \in Conns |-> "idle"]
  /\ rpc = [c \in Conns |-> "none"]
  /\ chan = [c \in Conns |-> <<>>]
  /\ viewport = [c \in Conns |-> NoViewport]
  /\ lastSent = [c \in Conns |-> NoMap]
  /\ taken = [c \in Conns |-> 0] /\ wrote = [c \in Conns |-> 0]
  /\ bpc = "idle" /\ tick = 0
  /\ frame = [valid |-> FALSE, recs |-> {}]
  /\ startSet = {} /\ visited = {}
  /\ cur \in Conns  \* no client yet: any value
  /\ out = NoOut
  /\ enq = [c \in Conns |-> 0] /\ lost = [c \in Conns |-> 0]
  /\ view = [c \in Conns |-> EmptyMap]
  /\ cfgTick = [c \in Conns |-> 0] /\ born = [c \in Conns |-> 0]

-----------------------------------------------------------------------------
(* The handler goroutine of a connection.                                  *)

Goto(c, from, to) == hpc[c] = from /\ hpc' = [hpc EXCEPT ![c] = to]

\* The HTTP handler accepts the upgrade.
Upgrade(c) ==
  /\ ~stopped /\ Goto(c, "idle", "upgraded")
  /\ UNCHANGED <<registry, link, rpc, chan, pumps, filters, beyondConn>>

\* clients.Store(id, client).
StoreClient(c) ==
  /\ Goto(c, "upgraded", "stored")
  /\ clients' = clients \cup {c}
  /\ UNCHANGED <<clientCount, link, rpc, chan, pumps, filters, beyondConn>>

\* clientCount.Add(1); a WebSocket handler then starts its read pump.
CountUp(c) ==
  /\ clientCount' = clientCount + 1
  /\ IF c \in WebSockets
     THEN Goto(c, "stored", "pumping") /\ rpc' = [rpc EXCEPT ![c] = "reading"]
     ELSE Goto(c, "stored", "opening") /\ UNCHANGED rpc
  /\ UNCHANGED <<clients, link, chan, pumps, filters, beyondConn>>

\* session.OpenUniStream: the frame stream opens, or the handler returns.
OpenStream(c) ==
  /\ Goto(c, "opening", "pumping") \/ Goto(c, "opening", "cleanup")
  /\ UNCHANGED <<registry, link, rpc, chan, pumps, filters, beyondConn>>

\* Fault: the write pump takes the newest frame of its channel first.
TakeNewest(c) ==
  /\ chan[c] # <<>> /\ Goto(c, "pumping", "writing")
  /\ taken' = [taken EXCEPT ![c] = chan[c][Len(chan[c])].tick]
  /\ chan' = [chan EXCEPT ![c] = SubSeq(@, 1, Len(@) - 1)]
  /\ UNCHANGED <<registry, link, rpc, wrote, filters, beyondConn>>

\* The write pump receives a frame; its slot is free before it is written.
TakeFrame(c) ==
  /\ chan[c] # <<>> /\ Goto(c, "pumping", "writing")
  /\ taken' = [taken EXCEPT ![c] = Head(chan[c]).tick]
  /\ chan' = [chan EXCEPT ![c] = Tail(@)]
  /\ UNCHANGED <<registry, link, rpc, wrote, filters, beyondConn>>

\* The write succeeds; on a dead link it may, into a buffer of the stack's.
WriteOK(c) ==
  /\ Goto(c, "writing", "pumping")
  /\ wrote' = [wrote EXCEPT ![c] = taken[c]]
  /\ UNCHANGED <<registry, link, rpc, chan, taken, filters, beyondConn>>

\* A write fails on a dead link and, over a WebSocket, when its deadline of
\* 5 s passes.  A WebTransport stream has no deadline.
WriteFailsOnDeadLink(c) == link[c] # "up"  \* fault: no deadline
WriteFails(c) == c \in WebSockets \/ link[c] # "up"

WriteErr(c) ==
  /\ WriteFails(c) /\ Goto(c, "writing", "cleanup")
  /\ UNCHANGED <<registry, link, rpc, chan, pumps, filters, beyondConn>>

\* The read pump has closed frameCh.
NeverClosed(c) == FALSE  \* fault: it returns without closing it
Closed(c) == rpc[c] = "ended"

\* The loop over frameCh ends: the channel is closed and drained.
PumpEnd(c) ==
  /\ Closed(c) /\ chan[c] = <<>> /\ Goto(c, "pumping", "cleanup")
  /\ UNCHANGED <<registry, link, rpc, chan, pumps, filters, beyondConn>>

\* Fault: the cleanup forgets the counter.
DeleteClientOnly(c) ==
  /\ Goto(c, "cleanup", "uncounted")
  /\ clients' = clients \ {c}
  /\ UNCHANGED <<clientCount, link, rpc, chan, pumps, filters, beyondConn>>

\* The deferred cleanup: clients.Delete(id), ...
DeleteClient(c) ==
  /\ Goto(c, "cleanup", "deleted")
  /\ clients' = clients \ {c}
  /\ UNCHANGED <<clientCount, link, rpc, chan, pumps, filters, beyondConn>>

\* ... clientCount.Add(-1), ...
CountDown(c) ==
  /\ Goto(c, "deleted", "uncounted")
  /\ clientCount' = clientCount - 1
  /\ UNCHANGED <<clients, link, rpc, chan, pumps, filters, beyondConn>>

\* ... and closing the connection and client.done, which nobody waits on.
CloseConn(c) ==
  /\ Goto(c, "uncounted", "gone")
  /\ link' = [link EXCEPT ![c] = "closed"]
  /\ UNCHANGED <<registry, rpc, chan, pumps, filters, beyondConn>>

Handler(c) ==
  \/ StoreClient(c) \/ CountUp(c) \/ OpenStream(c) \/ TakeFrame(c)
  \/ PumpEnd(c) \/ DeleteClient(c) \/ CountDown(c) \/ CloseConn(c)

-----------------------------------------------------------------------------
(* The read pump of a WebSocket connection, and the environment.           *)

ReadTimesOut(c) == TRUE  \* fault: a read deadline for clients that say nothing
ReadFails(c) == link[c] # "up"

\* ReadMessage fails, because the peer is gone or the handler has closed the
\* connection: close(client.frameCh) and return.
ReadErr(c) ==
  /\ rpc[c] = "reading" /\ ReadFails(c)
  /\ rpc' = [rpc EXCEPT ![c] = "ended"]
  /\ UNCHANGED <<registry, link, hpc, chan, pumps, filters, beyondConn>>

\* A message is read; it may have arrived before the peer went away.
Receive(c) ==
  /\ rpc[c] = "reading" /\ link[c] # "closed"
  /\ cfgTick' = [cfgTick EXCEPT ![c] = tick]
  /\ UNCHANGED <<registry, link, hpc, rpc, chan, pumps, beyondConn>>

\* A subscribe keeps the lastSent map the client has.
Subscribe(c, v) ==
  /\ Receive(c)
  /\ viewport' = [viewport EXCEPT ![c] = v]
  /\ IF lastSent[c] # NoMap THEN UNCHANGED <<lastSent, born>>
     ELSE /\ lastSent' = [lastSent EXCEPT ![c] = EmptyMap]
          /\ born' = [born EXCEPT ![c] = tick]

KeepMap(map) == map  \* fault: an unsubscribe leaves the map alone
Unsubscribed(map) == NoMap

Unsubscribe(c) ==
  /\ Receive(c)
  /\ viewport' = [viewport EXCEPT ![c] = NoViewport]
  /\ lastSent' = [lastSent EXCEPT ![c] = Unsubscribed(@)]
  /\ UNCHANGED born

\* The peer of a connection goes away, and the server's stack learns of it.
Disconnect(c) ==
  /\ hpc[c] # "idle" /\ link[c] = "up"
  /\ link' = [link EXCEPT ![c] = "down"]
  /\ UNCHANGED <<registry, hpc, rpc, chan, pumps, filters, beyondConn>>

\* Stop: both listeners close, and the WebTransport sessions with them;
\* net/http does not close hijacked WebSocket connections.
Stop ==
  /\ ~stopped /\ stopped' = TRUE
  /\ link' = [c \in Conns |->
                IF c \notin WebSockets /\ hpc[c] # "idle" /\ link[c] = "up"
                THEN "down" ELSE link[c]]
  /\ UNCHANGED <<registry, hpc, rpc, chan, pumps, filters, bpc, range, out, sent>>

-----------------------------------------------------------------------------
(* The broadcaster: BroadcastFrameFiltered, called by one goroutine.       *)

\* A call begins with a frame; Range starts over the registry.
StartBroadcast ==
  /\ bpc = "idle" /\ tick < MaxTicks
  /\ bpc' = "ranging" /\ tick' = tick + 1 /\ frame' \in Frames
  /\ startSet' = clients /\ visited' = {}
  /\ UNCHANGED <<cur, out, chan, lastSent, sent, beyondRange>>

Unvisited == clients \ visited

\* Range yields a key that is in the map now.  A client stored after the Range
\* began may or may not be yielded.
Visit(c) ==
  /\ bpc = "ranging" /\ c \in Unvisited
  /\ bpc' = "loaded" /\ cur' = c /\ visited' = visited \cup {c}
  /\ UNCHANGED <<tick, frame, startSet, out, chan, lastSent, sent, beyondRange>>

\* Where the callback leaves the broadcaster: it returns true.
StopRange == "idle"  \* fault: it returns false
Continue == "ranging"

\* Fault: a record passes only if its sequence number has grown.
MatchedNewer(f, vp, map) ==
  {r \in f.recs : (vp # NoViewport => r.pos \in vp)
                  /\ (map # NoMap => map[r.id] < r.seq)}

\* The records a client with this viewport and this map is sent.
Matched(f, vp, map) ==
  {r \in f.recs : (vp # NoViewport => r.pos \in vp)
                  /\ (map # NoMap => map[r.id] # r.seq)}

\* The callback reads viewport and lastSent under client.mu and filters with
\* what it read: subscribe and unsubscribe replace a map, they do not change
\* it.  The pump always sets both fields or neither.
Filter ==
  LET vp   == viewport[cur]
      map  == lastSent[cur]
      recs == Matched(frame, vp, map)
  IN
  /\ bpc = "loaded"
  /\ IF vp = NoViewport /\ map = NoMap
     THEN /\ bpc' = "sending"
          /\ out' = [tick |-> tick, full |-> TRUE, recs |-> frame.recs]
     ELSE IF ~frame.valid \/ recs = {}
     THEN bpc' = Continue /\ out' = NoOut
     ELSE /\ bpc' = IF map # NoMap THEN "recording" ELSE "sending"
          /\ out' = [tick |-> tick, full |-> FALSE, recs |-> recs]
  /\ UNCHANGED <<range, chan, lastSent, sent, beyondRange>>

\* The map with the records of f entered in it.
Enter(map, f) ==
  [e \in Entities |->
     IF \E r \in f.recs : r.id = e
     THEN (CHOOSE r \in f.recs : r.id = e).seq ELSE map[e]]

Everything == frame  \* fault: records outside the viewport are entered too
Recorded == out

\* The callback locks client.mu again and enters what it is about to send
\* into whatever map the client has by now, if it still has one.
RecordSent ==
  /\ bpc = "recording" /\ bpc' = "sending"
  /\ lastSent' = IF lastSent[cur] = NoMap THEN lastSent
                 ELSE [lastSent EXCEPT ![cur] = Enter(@, Recorded)]
  /\ UNCHANGED <<range, out, chan, sent, beyondRange>>

Unbounded(c) == TRUE  \* fault: the buffer grows
HasRoom(c) == Len(chan[c]) < MaxBufferFrames

\* The three ways select { case client.frameCh <- out: default: } can go.
\* Sending on a closed channel panics, default or not.
SendPanic ==
  /\ bpc = "sending" /\ Closed(cur) /\ bpc' = "panicked"
  /\ UNCHANGED <<range, out, chan, lastSent, sent, beyondRange>>

SendFrame ==
  /\ bpc = "sending" /\ ~Closed(cur) /\ HasRoom(cur)
  /\ bpc' = Continue /\ out' = NoOut
  /\ chan' = [chan EXCEPT ![cur] = Append(@, out)]
  /\ enq' = [enq EXCEPT ![cur] = tick]
  /\ view' = [view EXCEPT ![cur] = Enter(@, out)]
  /\ UNCHANGED <<range, lost, lastSent, beyondRange>>

DropNever == FALSE  \* fault: no default case, the send blocks

\* Fault: the oldest queued frame makes room for the new one.
DropOldest ==
  /\ bpc = "sending" /\ ~Closed(cur) /\ ~HasRoom(cur)
  /\ bpc' = Continue /\ out' = NoOut
  /\ chan' = [chan EXCEPT ![cur] = Append(Tail(@), out)]
  /\ enq' = [enq EXCEPT ![cur] = tick]
  /\ UNCHANGED <<range, lost, view, lastSent, beyondRange>>

DropFrame ==
  /\ bpc = "sending" /\ ~Closed(cur) /\ ~HasRoom(cur)
  /\ bpc' = Continue /\ out' = NoOut
  /\ lost' = [lost EXCEPT ![cur] = tick]
  /\ UNCHANGED <<range, enq, view, chan, lastSent, beyondRange>>

\* Range returns: it has yielded every key that was there all along.
FinishBroadcast ==
  /\ bpc = "ranging" /\ startSet \cap clients \subseteq visited
  /\ bpc' = "idle"
  /\ UNCHANGED <<range, out, chan, lastSent, sent, beyondRange>>

Broadcaster ==
  \/ \E c \in Conns : Visit(c)
  \/ Filter \/ RecordSent \/ SendPanic \/ SendFrame \/ DropFrame
  \/ FinishBroadcast

-----------------------------------------------------------------------------
Next ==
  /\ Alive
  /\ \/ \E c \in Conns : \/ Upgrade(c) \/ Handler(c)
                         \/ WriteOK(c) \/ WriteErr(c)
                         \/ ReadErr(c) \/ Unsubscribe(c) \/ Disconnect(c)
                         \/ \E v \in Viewports : Subscribe(c, v)
     \/ StartBroadcast \/ Broadcaster \/ Stop

Spec == Init /\ [][Next]_vars

\* Goroutines that can run do run, and a write that does not return does fail
\* in the end where WriteFails says so.  Nothing obliges a peer to take a
\* frame, to come, go or subscribe, or the pipeline to have a frame.
Fairness ==
  /\ \A c \in Conns : /\ WF_vars(Alive /\ Handler(c))
                      /\ WF_vars(Alive /\ ReadErr(c))
                      /\ WF_vars(Alive /\ WriteErr(c))
  /\ WF_vars(Alive /\ Broadcaster)

FairSpec == Spec /\ Fairness

-----------------------------------------------------------------------------
(* Properties.                                                             *)

OutFrame == [tick : Nat, full : BOOLEAN, recs : SUBSET Record]

HandlerStates == {"idle", "upgraded", "stored", "opening", "pumping",
                  "writing", "cleanup", "deleted", "uncounted", "gone"}

\* Where a connection is in the registry, and where it is counted.
Registered == {"stored", "opening", "pumping", "writing", "cleanup"}
Counted    == {"opening", "pumping", "writing", "cleanup", "deleted"}

\* Every variable has the shape the Go types give it, and no channel holds
\* more than its capacity.
TypeOK ==
  /\ clients \subseteq Conns /\ clientCount \in Int /\ stopped \in BOOLEAN
  /\ link \in [Conns -> {"up", "down", "closed"}]
  /\ hpc \in [Conns -> HandlerStates]
  /\ rpc \in [Conns -> {"none", "reading", "ended"}]
  /\ chan \in [Conns -> Seq(OutFrame)]
  /\ \A c \in Conns : Len(chan[c]) <= MaxBufferFrames
  /\ viewport \in [Conns -> Viewports \cup {NoViewport}]
  /\ lastSent \in [Conns -> SeqMap \cup {NoMap}]
  /\ taken \in [Conns -> Nat] /\ wrote \in [Conns -> Nat]
  /\ bpc \in {"idle", "ranging", "loaded", "recording", "sending", "panicked"}
  /\ tick \in Nat /\ frame \in Frame
  /\ startSet \subseteq Conns /\ visited \subseteq Conns /\ cur \in Conns
  /\ out \in OutFrame
  /\ enq \in [Conns -> Nat] /\ lost \in [Conns -> Nat]
  /\ view \in [Conns -> SeqMap]
  /\ cfgTick \in [Conns -> Nat] /\ born \in [Conns -> Nat]

\* The count /health reports differs from the size of the registry exactly by
\* the handlers that are between the two steps of registering or of removing
\* a client (server.go:344-350).
CountMatchesRegistry ==
  clientCount = Cardinality(clients)
                - Cardinality({c \in Conns : hpc[c] = "stored"})
                + Cardinality({c \in Conns : hpc[c] = "deleted"})

\* The frames on their way to c: those in its channel are increasing, newer
\* than the one its write pump holds, which it has not written before, and no
\* newer than the last enqueued; a broadcast has not yet enqueued anything for
\* a client it has still to visit.
OrderConn(c) ==
  /\ wrote[c] <= taken[c] /\ (hpc[c] = "writing" => wrote[c] < taken[c])
  /\ \A i, j \in 1 .. Len(chan[c]) : i < j => chan[c][i].tick < chan[c][j].tick
  /\ \A i \in 1 .. Len(chan[c]) :
       taken[c] < chan[c][i].tick /\ chan[c][i].tick <= enq[c]
  /\ taken[c] <= enq[c] /\ enq[c] <= tick
  /\ bpc # "idle" /\ c \notin visited => enq[c] < tick

\* The Range callback is about to offer its client a frame newer than any.
OrderRange ==
  /\ bpc \in {"loaded", "recording", "sending"} =>
       cur \in visited /\ enq[cur] < tick
  /\ bpc \in {"recording", "sending"} => out.tick = tick

\* The frames on their way to one client are in broadcast order, each at most
\* once.
OrderInv == (\A c \in Conns : OrderConn(c)) /\ OrderRange

\* A write that succeeds hands the client a frame newer than any it has: none
\* comes again, none comes late.
Delivers(c) == hpc[c] = "writing" /\ hpc'[c] = "pumping"

DeliveryInOrder ==
  [][\A c \in Conns :
       Delivers(c) \/ wrote'[c] # wrote[c] => wrote'[c] > wrote[c]]_vars

\* A subscription governs every broadcast begun after it: such a frame holds
\* only records inside the client's present viewport, and after an unsubscribe
\* it is the whole frame again.  Only the one broadcast that was under way
\* when the message was read may still use the old viewport.
SubscriptionHonoured ==
  \A c \in Conns : \A i \in 1 .. Len(chan[c]) :
    LET f == chan[c][i] IN
    f.tick > cfgTick[c] =>
      IF viewport[c] = NoViewport THEN f.full
      ELSE ~f.full /\ \A r \in f.recs : r.pos \in viewport[c]

\* A frame has been dropped for c since its lastSent map was made.
Lossy(c) == lost[c] >= born[c] /\ lost[c] > 0

\* "Delta tracking: entity_id -> last sequence sent" (server.go:102): as long as no
\* frame has been dropped for it, a subscribed client has been sent what its
\* lastSent map says, or is about to be, through every race of subscribe,
\* unsubscribe and broadcast.  The code makes the entry before it tries the
\* channel, so that a dropped frame leaves it wrong.
LastSentUnlessLossy ==
  \A c \in Conns : ~Lossy(c) => \A e \in Entities :
    lastSent[c] # NoMap /\ lastSent[c][e] # Absent =>
      \/ view[c][e] = lastSent[c][e]
      \/ /\ bpc \in {"sending", "panicked"} /\ cur = c
         /\ \E r \in out.recs : r.id = e /\ r.seq = lastSent[c][e]

\* A broadcast reaches every client that was connected throughout and did not
\* change its subscription meanwhile: an unfiltered client was sent the frame
\* or lost it to a full channel; a subscribed one has, unless it lost a frame,
\* the current sequence number of every entity in its viewport.
CaughtUp ==
  \A c \in startSet \cap clients :
    bpc = "idle" /\ cfgTick[c] < tick =>
      IF viewport[c] = NoViewport THEN tick \in {enq[c], lost[c]}
      ELSE frame.valid /\ ~Lossy(c) =>
             \A r \in frame.recs :
               r.pos \in viewport[c] => view[c][r.id] = r.seq

\* "Sends a frame to all connected clients" (server.go:129, 134): a broadcast
\* survives clients that come and go.  The code sends on a channel that the
\* client's read pump may have closed.
BroadcastNeverPanics == bpc # "panicked"

\* The panic takes a WebSocket client, in one of two cases: its peer has gone,
\* or the peer is still there but too slow.  The slow one missed the write
\* deadline (server.go:398-403), its handler has removed it and closed the
\* connection, and the broadcaster still had it from the Range.  No client
\* that is registered over a connection that is up, and no WebTransport client,
\* brings the broadcaster down.
OnlyLeavingClientsPanic ==
  bpc = "panicked" =>
    /\ cur \in WebSockets
    /\ link[cur] = "down" \/ (link[cur] = "closed" /\ cur \notin clients)

\* A broadcast ends, however slow or stuck its clients are.
BroadcastCompletes == bpc # "idle" ~> bpc \in {"idle", "panicked"}

\* A WebSocket client whose peer has gone leaves the registry, even when there
\* is nothing to send to it.  A WebTransport client does not: its handler waits
\* for a frame and for nothing else.
WebSocketReaped ==
  \A c \in WebSockets :
    link[c] = "down" /\ hpc[c] # "idle" ~> hpc[c] = "gone" \/ ~Alive

\* No frame stays queued for a WebSocket client: it is written, or the write
\* deadline ends the connection.
QueueMoves ==
  \A c \in WebSockets :
    chan[c] # <<>> ~> chan[c] = <<>> \/ hpc[c] = "gone" \/ ~Alive

-----------------------------------------------------------------------------
(***************************************************************************)
(* The abstract feed: what is in flight to a client is the frame its write *)
(* pump holds, followed by its channel.                                    *)
(***************************************************************************)

Ticks(s) == [i \in 1 .. Len(s) |-> s[i].tick]

InFlight(c) ==
  (IF hpc[c] = "writing" THEN <<taken[c]>> ELSE <<>>) \o Ticks(chan[c])

Ending == {"cleanup", "deleted", "uncounted", "gone"}

Feed == INSTANCE LossyFeed WITH
          Clients   <- Conns,
          Capacity  <- MaxBufferFrames + 1,
          published <- tick,
          offered   <- enq,
          inflight  <- [c \in Conns |-> InFlight(c)],
          received  <- wrote,
          over      <- [c \in Conns |-> hpc[c] \in Ending]

\* Every client sees an in-order, gap-free delivery of what was accepted for
\* it, whatever the goroutines and the other clients do.
ImplementsFeed == Feed!FeedSpec

=============================================================================
