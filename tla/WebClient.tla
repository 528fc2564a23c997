------------------------------ MODULE WebClient ------------------------------
(***************************************************************************)
(* The browser client (web/src/client.ts), its transport workers           *)
(* (web/src/transport-worker.ts) and the buffer they share: the workers    *)
(* write frames into it, the main thread reads its header, and the two     *)
(* sides exchange messages.                                                *)
(*                                                                         *)
(* Of the buffer the model keeps the header: the sequence number, the      *)
(* count and the time stamp, whose low and high halves are stored and      *)
(* loaded one by one.  Each of these is represented by the frame it was    *)
(* written from: the worker and the frame's number, 0 for what init writes.*)
(* Within a frame the plain stores may become visible to another thread in *)
(* any order; only Atomics.store comes after them all.                     *)
(***************************************************************************)
EXTENDS Integers, Sequences, Functions

CONSTANTS
  MaxWorkers,  \* bound on the calls of connect
  MaxEvents    \* bound on the frames received and the calls of disconnect, together

ASSUME BoundAssumption == MaxWorkers \in Nat /\ MaxEvents \in Nat

VARIABLES
  \* the main thread
  worker,     \* StreamGridClient.worker, 0 for null
  connected,  \* StreamGridClient.connected
  made,       \* the workers made so far
  calls,      \* the calls of disconnect so far
  reading,    \* what getFrameInfo reads next
  seen,       \* the frame whose sequence number it has read
  \* the workers
  life,       \* of each: none, alive, dying (terminated, still running) or dead
  inbox,      \* messages from the main thread
  outbox,     \* messages to it
  protocol,   \* ws or wt
  socket,     \* the state of its connection
  ws,         \* its variable ws is not null
  frameCount, \* its variable frameCount
  pending,    \* the fields processFrame has still to write
  \* the shared buffer
  sab,
  overlap     \* history: two workers ran at once

mainVars == <<worker, connected, made, calls>>
readVars == <<reading, seen>>
linkVars == <<life, inbox, protocol, socket, ws>>
frameVars == <<frameCount, pending, sab>>
vars == <<mainVars, readVars, linkVars, frameVars, outbox, overlap>>

Workers == 1 .. MaxWorkers
Fields == {"count", "low", "high"}
Header == Fields \cup {"seq"}

Stamp == [worker : 0 .. MaxWorkers, frame : 0 .. MaxEvents]
Zero == [worker |-> 0, frame |-> 0]
Before(s, t) == s.worker < t.worker \/ (s.worker = t.worker /\ s.frame < t.frame)

Running(w) == life[w] \in {"alive", "dying"}

\* A worker is single-threaded: while a frame is being written nothing else runs.
Idle(w) == life[w] = "alive" /\ pending[w] = {}

Post(w, msg) == outbox' = [outbox EXCEPT ![w] = Append(@, msg)]

Init ==
  /\ worker = 0 /\ connected = FALSE /\ made = 0 /\ calls = 0
  /\ reading = "seq" /\ seen = Zero
  /\ life = [w \in Workers |-> "none"]
  /\ inbox = [w \in Workers |-> <<>>] /\ outbox = [w \in Workers |-> <<>>]
  /\ protocol = [w \in Workers |-> "ws"] /\ socket = [w \in Workers |-> "none"]
  /\ ws = [w \in Workers |-> FALSE]
  /\ frameCount = [w \in Workers |-> 0] /\ pending = [w \in Workers |-> {}]
  /\ sab = [f \in Header |-> Zero] /\ overlap = FALSE

-----------------------------------------------------------------------------
(* The main thread; getFrameInfo is not interrupted.                       *)

Free == reading = "seq"

\* The calls of disconnect and the frames share the bound, so that neither alone
\* passes it.
Events == calls + FoldFunction(LAMBDA x, y : x + y, 0, frameCount)

\* connect makes a worker, whether or not there is one.
Connect(p) ==
  /\ Free /\ made < MaxWorkers
  /\ made' = made + 1 /\ worker' = made + 1
  /\ life' = [life EXCEPT ![made + 1] = "alive"]
  /\ protocol' = [protocol EXCEPT ![made + 1] = p]
  /\ inbox' = [inbox EXCEPT ![made + 1] = <<"init", "connect">>]
  /\ overlap' = (overlap \/ \E w \in Workers : Running(w))
  /\ UNCHANGED <<connected, calls, readVars, socket, ws, frameVars, outbox>>

Disconnect ==
  /\ Free /\ worker # 0
  /\ Events < MaxEvents /\ calls < MaxEvents
  /\ calls' = calls + 1
  /\ inbox' = [inbox EXCEPT ![worker] = Append(@, "disconnect")]
  /\ UNCHANGED <<worker, connected, made, readVars, life, protocol, socket, ws, frameVars,
                 outbox, overlap>>

\* terminate ends a worker at some point of the script it runs, closes its
\* connection and drops the messages on their way to and from it.
Terminate(w) ==
  /\ life' = [life EXCEPT ![w] = IF pending[w] = {} THEN "dead" ELSE "dying"]
  /\ inbox' = [inbox EXCEPT ![w] = <<>>] /\ outbox' = [outbox EXCEPT ![w] = <<>>]
  /\ socket' = [socket EXCEPT ![w] = "closed"] /\ ws' = [ws EXCEPT ![w] = FALSE]

\* Fault: the flag is left for the worker to clear.
DestroyOnly ==
  /\ Free /\ worker # 0
  /\ Terminate(worker)
  /\ worker' = 0
  /\ UNCHANGED <<connected, made, calls, readVars, protocol, frameVars, overlap>>

Destroy ==
  /\ Free /\ worker # 0
  /\ Terminate(worker)
  /\ worker' = 0 /\ connected' = FALSE
  /\ UNCHANGED <<made, calls, readVars, protocol, frameVars, overlap>>

\* handleWorkerMessage, which does not ask which worker the message is from.
Handle(w) ==
  /\ Free /\ outbox[w] # <<>>
  /\ connected' = CASE Head(outbox[w]) = "connected" -> TRUE
                    [] Head(outbox[w]) = "disconnected" -> FALSE
  /\ outbox' = [outbox EXCEPT ![w] = Tail(@)]
  /\ UNCHANGED <<worker, made, calls, readVars, linkVars, frameVars, overlap>>

\* getFrameInfo reads the sequence number, the count and the halves of the time
\* stamp.
Read ==
  /\ seen' = CASE reading = "seq" -> sab.seq
                [] reading \in {"count", "low"} -> seen
                [] reading = "high" -> Zero
  /\ reading' = CASE reading = "seq" -> "count"
                  [] reading = "count" -> "low"
                  [] reading = "low" -> "high"
                  [] reading = "high" -> "seq"
  /\ UNCHANGED <<mainVars, linkVars, frameVars, outbox, overlap>>

-----------------------------------------------------------------------------
(* A worker.                                                               *)

Taken(w) == inbox' = [inbox EXCEPT ![w] = Tail(@)]

\* onmessage, init: sequence number and count become 0.
InitBuffer(w) ==
  /\ Idle(w) /\ inbox[w] # <<>> /\ Head(inbox[w]) = "init" /\ Taken(w)
  /\ sab' = [sab EXCEPT !["seq"] = [worker |-> w, frame |-> 0],
                        !["count"] = [worker |-> w, frame |-> 0]]
  /\ UNCHANGED <<mainVars, readVars, life, protocol, socket, ws, frameCount, pending, outbox,
                 overlap>>

\* Fault: the variable is set for both kinds of connection.
StartAny(w) ==
  /\ Idle(w) /\ inbox[w] # <<>> /\ Head(inbox[w]) = "connect" /\ Taken(w)
  /\ socket' = [socket EXCEPT ![w] = "connecting"]
  /\ ws' = [ws EXCEPT ![w] = TRUE]
  /\ UNCHANGED <<mainVars, readVars, life, protocol, frameVars, outbox, overlap>>

\* onmessage, connect: connectWebSocket or connectWebTransport.
StartSocket(w) ==
  /\ Idle(w) /\ inbox[w] # <<>> /\ Head(inbox[w]) = "connect" /\ Taken(w)
  /\ socket' = [socket EXCEPT ![w] = "connecting"]
  /\ ws' = [ws EXCEPT ![w] = protocol[w] = "ws"]
  /\ UNCHANGED <<mainVars, readVars, life, protocol, frameVars, outbox, overlap>>

\* The constructor of the connection throws: an error is posted, and there is no
\* connection.
StartFails(w) ==
  /\ Idle(w) /\ inbox[w] # <<>> /\ Head(inbox[w]) = "connect" /\ Taken(w)
  /\ socket' = [socket EXCEPT ![w] = "closed"]
  /\ UNCHANGED <<mainVars, readVars, life, protocol, ws, frameVars, outbox, overlap>>

\* Fault: the socket is forgotten and stays open.
ForgetSocket(w) ==
  /\ Idle(w) /\ inbox[w] # <<>> /\ Head(inbox[w]) = "disconnect" /\ Taken(w)
  /\ Post(w, "disconnected")
  /\ ws' = [ws EXCEPT ![w] = FALSE]
  /\ UNCHANGED <<mainVars, readVars, life, protocol, socket, frameVars, overlap>>

\* onmessage, disconnect: a WebSocket is closed, a WebTransport session is not.
CloseSocket(w) ==
  /\ Idle(w) /\ inbox[w] # <<>> /\ Head(inbox[w]) = "disconnect" /\ Taken(w)
  /\ Post(w, "disconnected")
  /\ ws' = [ws EXCEPT ![w] = FALSE]
  /\ socket' = IF ws[w] THEN [socket EXCEPT ![w] = "closing"] ELSE socket
  /\ UNCHANGED <<mainVars, readVars, life, protocol, frameVars, overlap>>

\* onopen, transport.ready.
Opened(w) ==
  /\ Idle(w) /\ socket[w] = "connecting"
  /\ socket' = [socket EXCEPT ![w] = "open"]
  /\ Post(w, "connected")
  /\ UNCHANGED <<mainVars, readVars, life, inbox, protocol, ws, frameVars, overlap>>

\* onclose, whichever side closed, or the end of the WebTransport stream.
Ended(w) ==
  /\ Idle(w) /\ socket[w] \in {"connecting", "open", "closing"}
  /\ protocol[w] = "wt" => socket[w] = "open"
  /\ socket' = [socket EXCEPT ![w] = "closed"]
  /\ ws' = [ws EXCEPT ![w] = FALSE]
  /\ Post(w, "disconnected")
  /\ UNCHANGED <<mainVars, readVars, life, inbox, protocol, frameVars, overlap>>

\* A WebTransport session that fails, or ends without a stream, is reported as an
\* error at most.
Failed(w) ==
  /\ Idle(w) /\ protocol[w] = "wt" /\ socket[w] \in {"connecting", "open"}
  /\ socket' = [socket EXCEPT ![w] = "closed"]
  /\ UNCHANGED <<mainVars, readVars, life, inbox, protocol, ws, frameVars, outbox, overlap>>

\* A valid frame arrives; others leave everything as it is.
Frame(w) ==
  /\ Idle(w) /\ socket[w] = "open"
  /\ Events < MaxEvents /\ frameCount[w] < MaxEvents
  /\ frameCount' = [frameCount EXCEPT ![w] = @ + 1]
  /\ pending' = [pending EXCEPT ![w] = Header]
  /\ UNCHANGED <<mainVars, readVars, linkVars, sab, outbox, overlap>>

\* Fault: the sequence number is stored like the other fields.
AnyField(w) == pending[w]

\* The stores another thread may see next.
NextFields(w) == IF pending[w] \cap Fields # {} THEN pending[w] \cap Fields ELSE pending[w]

Write(w, f) ==
  /\ Running(w) /\ f \in NextFields(w)
  /\ sab' = [sab EXCEPT ![f] = [worker |-> w, frame |-> frameCount[w]]]
  /\ pending' = [pending EXCEPT ![w] = @ \ {f}]
  /\ UNCHANGED <<mainVars, readVars, linkVars, frameCount, outbox, overlap>>

\* The script of a terminated worker is over, or cut off.
Die(w) ==
  /\ life[w] = "dying"
  /\ life' = [life EXCEPT ![w] = "dead"]
  /\ pending' = [pending EXCEPT ![w] = {}]
  /\ UNCHANGED <<mainVars, readVars, inbox, protocol, socket, ws, frameCount, sab, outbox, overlap>>

\* The reactions of worker w to what the main thread asked of it.
React(w) == InitBuffer(w) \/ StartSocket(w) \/ StartFails(w) \/ CloseSocket(w)

Next ==
  \/ \E p \in {"ws", "wt"} : Connect(p)
  \/ Disconnect \/ Destroy \/ Read
  \/ \E w \in Workers :
       \/ Handle(w) \/ React(w) \/ Opened(w) \/ Ended(w) \/ Failed(w) \/ Frame(w) \/ Die(w)
       \/ \E f \in Header : Write(w, f)

\* The browser runs the workers' event loops, and a socket that was told to close
\* closes.
Fairness ==
  \A w \in Workers :
    /\ WF_vars(React(w)) /\ WF_vars(\E f \in Header : Write(w, f))
    /\ WF_vars(socket[w] = "closing" /\ Ended(w))

Spec == Init /\ [][Next]_vars /\ Fairness

-----------------------------------------------------------------------------
(* Properties.                                                             *)

\* Every variable keeps its type; only a WebSocket is kept in the variable ws.
TypeOK ==
  /\ worker \in 0 .. made /\ made \in 0 .. MaxWorkers /\ calls \in 0 .. MaxEvents
  /\ connected \in BOOLEAN /\ overlap \in BOOLEAN
  /\ reading \in {"seq", "count", "low", "high"} /\ seen \in Stamp
  /\ life \in [Workers -> {"none", "alive", "dying", "dead"}]
  /\ socket \in [Workers -> {"none", "connecting", "open", "closing", "closed"}]
  /\ protocol \in [Workers -> {"ws", "wt"}]
  /\ \A w \in Workers : ws[w] => protocol[w] = "ws" /\ socket[w] \in {"connecting", "open"}
  /\ frameCount \in [Workers -> 0 .. MaxEvents] /\ pending \in [Workers -> SUBSET Header]
  /\ sab \in [Header -> Stamp]

\* "written last as release fence" (transport-worker.ts:26, 187): a reader that has
\* read a frame's sequence number finds each word it reads after it, the count, the
\* low and the high half of the time stamp, written from that frame or a later one,
\* across a reconnect too, as long as no two workers write.  The fence holds word by
\* word and no further: a frame that is stored during the reads can leave the count
\* and the two halves from different frames, and then the time stamp put together
\* from them (client.ts:102) is that of none.
ReleaseFence ==
  reading # "seq" /\ seen.frame > 0 /\ ~overlap => ~Before(sab[reading], seen)

\* Nothing is on its way from worker w.
Quiet(w) == outbox[w] = <<>>

\* No worker is left behind by a second connect without destroy.
NoneAbandoned == \A w \in Workers : life[w] = "alive" => w = worker

\* getStats().connected tells the truth once the worker's messages are through: over a
\* WebSocket it is true exactly while the socket is open, however calls of connect,
\* disconnect and destroy, closing by either side and messages interleave; and it
\* is false after destroy.
FlagSettles ==
  NoneAbandoned =>
    /\ worker = 0 => ~connected
    /\ worker # 0 /\ protocol[worker] = "ws" /\ Quiet(worker)
         => (connected <=> socket[worker] = "open")

\* "Disconnect from server" (client.ts:140): after disconnect a WebSocket is
\* closed in the end, or its worker gone.
Asked(w) == protocol[w] = "ws" /\ \E i \in DOMAIN inbox[w] : inbox[w][i] = "disconnect"
DisconnectCloses == \A w \in Workers : Asked(w) ~> socket[w] = "closed"
=============================================================================
