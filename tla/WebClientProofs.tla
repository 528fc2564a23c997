--------------------------- MODULE WebClientProofs ---------------------------
(***************************************************************************)
(* Theorems about WebClient for any number of workers, frames and calls.   *)
(***************************************************************************)
EXTENDS WebClient, TLAPS

Requests == {"init", "connect", "disconnect"}
Answers  == {"connected", "disconnected"}

\* Types, and what a worker that is not there yet has: nothing.
TypeInv ==
  /\ made \in 0 .. MaxWorkers /\ worker \in {0, made} /\ calls \in 0 .. MaxEvents
  /\ connected \in BOOLEAN /\ overlap \in BOOLEAN
  /\ reading \in {"seq", "count", "low", "high"} /\ seen \in Stamp
  /\ life \in [Workers -> {"none", "alive", "dying", "dead"}]
  /\ inbox \in [Workers -> Seq(Requests)] /\ outbox \in [Workers -> Seq(Answers)]
  /\ protocol \in [Workers -> {"ws", "wt"}]
  /\ socket \in [Workers -> {"none", "connecting", "open", "closing", "closed"}]
  /\ ws \in [Workers -> BOOLEAN]
  /\ frameCount \in [Workers -> 0 .. MaxEvents]
  /\ pending \in [Workers -> SUBSET Header]
  /\ sab \in [Header -> Stamp]

\* A worker exists from its call of connect on, and the client's is the last one.
LifeInv ==
  /\ \A w \in Workers : life[w] = "none" <=> w > made
  /\ worker # 0 => life[worker] = "alive"
  /\ \A w \in Workers : outbox[w] # <<>> => life[w] = "alive"
  /\ \A w \in Workers : pending[w] # {} => Running(w)
  /\ \A w \in Workers :
       life[w] = "none" => ~ws[w] /\ socket[w] = "none" /\ frameCount[w] = 0

\* A worker's first two messages are init and connect, and until the second is
\* taken it has no connection.
Ordered(msgs, state) ==
  \A i \in 1 .. Len(msgs) :
    /\ msgs[i] = "init" => i = 1 /\ state = "none"
    /\ msgs[i] = "connect" => (i = 1 \/ (i = 2 /\ msgs[1] = "init")) /\ state = "none"

InboxInv ==
  \A w \in Workers :
    /\ Ordered(inbox[w], socket[w])
    /\ socket[w] = "none" => frameCount[w] = 0

\* The variable ws of a WebSocket's worker tells whether its socket is in use.
SocketInv ==
  \A w \in Workers :
    ws[w] <=> protocol[w] = "ws" /\ socket[w] \in {"connecting", "open"}

WebInv == TypeInv /\ LifeInv /\ InboxInv /\ SocketInv

\* What worker w last told the main thread: the flag once that has been handled.
LastWord(w) == IF outbox[w] = <<>> THEN connected ELSE outbox[w][Len(outbox[w])] = "connected"

FlagInv ==
  NoneAbandoned =>
    /\ worker = 0 => ~connected
    /\ worker # 0 /\ protocol[worker] = "ws"
         => (LastWord(worker) <=> socket[worker] = "open")

\* While no two workers run at once, the one that runs is the last one made; no
\* field holds more than has been received; the sequence number is stored after
\* the fields of its frame; and what getFrameInfo has seen is not taken back.
Alone == \A w \in Workers : Running(w) => w = made

Bounded ==
  \A f \in Header :
    /\ sab[f].worker <= made
    /\ sab[f].worker # 0 => sab[f].frame <= frameCount[sab[f].worker]

Fenced == sab["seq"].frame > 0 => \A f \in Fields : ~Before(sab[f], sab["seq"])

Flushed ==
  \A w \in Workers, f \in Fields :
    "seq" \in pending[w] /\ f \notin pending[w]
      => sab[f] = [worker |-> w, frame |-> frameCount[w]]

Kept == reading # "seq" /\ seen.frame > 0 => \A f \in Fields : ~Before(sab[f], seen)

FenceInv == ~overlap => Alone /\ Bounded /\ Fenced /\ Flushed /\ Kept

-----------------------------------------------------------------------------
(***************************************************************************)
(* Queues of messages.                                                     *)
(***************************************************************************)

LEMMA TailOf ==
  ASSUME NEW S, NEW q \in Seq(S), q # <<>>
  PROVE  /\ Tail(q) \in Seq(S) /\ Head(q) = q[1] /\ Head(q) \in S
         /\ Len(q) \in Nat \ {0} /\ Len(Tail(q)) = Len(q) - 1
         /\ \A i \in 1 .. Len(q) - 1 : Tail(q)[i] = q[i + 1]
OBVIOUS

LEMMA LengthOf ==
  ASSUME NEW S, NEW q \in Seq(S)
  PROVE  Len(q) \in Nat /\ (Len(q) # 0 => q # <<>>)
OBVIOUS

LEMMA AppendOf ==
  ASSUME NEW S, NEW q \in Seq(S), NEW e \in S
  PROVE  /\ Append(q, e) \in Seq(S) /\ Append(q, e) # <<>> /\ Len(q) \in Nat
         /\ Len(Append(q, e)) = Len(q) + 1 /\ Append(q, e)[Len(q) + 1] = e
         /\ \A i \in 1 .. Len(q) : Append(q, e)[i] = q[i]
OBVIOUS

\* Messages stay in order as they are taken.
LEMMA OrderedTail ==
  ASSUME NEW q \in Seq(Requests), q # <<>>, NEW s, NEW t, Ordered(q, s),
         Head(q) = "init" => t = s
  PROVE  Ordered(Tail(q), t)
<1>1. /\ Head(q) = q[1] /\ Len(q) \in Nat \ {0} /\ Len(Tail(q)) = Len(q) - 1
      /\ \A i \in 1 .. Len(q) - 1 : Tail(q)[i] = q[i + 1]
  BY TailOf
<1> SUFFICES ASSUME NEW i \in 1 .. Len(q) - 1
             PROVE  /\ q[i + 1] = "init" => i = 1 /\ t = "none"
                    /\ q[i + 1] = "connect"
                         => (i = 1 \/ (i = 2 /\ Tail(q)[1] = "init")) /\ t = "none"
  BY <1>1 DEF Ordered
<1>2. /\ i + 1 \in 1 .. Len(q) /\ 1 \in 1 .. Len(q) /\ i + 1 # 1 /\ (i + 1 = 2 => i = 1)
  BY <1>1
<1> QED BY <1>1, <1>2 DEF Ordered

LEMMA OrderedConnected ==
  ASSUME NEW q, NEW s, NEW t, Ordered(q, s), s # "none"
  PROVE  Ordered(q, t)
BY DEF Ordered

LEMMA OrderedDisconnect ==
  ASSUME NEW q \in Seq(Requests), NEW s, Ordered(q, s)
  PROVE  Ordered(Append(q, "disconnect"), s)
<1>1. /\ Len(q) \in Nat /\ Len(Append(q, "disconnect")) = Len(q) + 1
      /\ Append(q, "disconnect")[Len(q) + 1] = "disconnect"
      /\ \A i \in 1 .. Len(q) : Append(q, "disconnect")[i] = q[i]
  BY AppendOf DEF Requests
<1> QED BY <1>1 DEF Ordered

LEMMA OrderedStart ==
  /\ <<"init", "connect">> \in Seq(Requests) /\ <<>> \in Seq(Requests)
  /\ <<>> \in Seq(Answers)
  /\ Ordered(<<"init", "connect">>, "none") /\ \A s : Ordered(<<>>, s)
BY DEF Ordered, Requests, Answers

-----------------------------------------------------------------------------
(***************************************************************************)
(* Every step keeps the types and the protocol of the messages.            *)
(***************************************************************************)

LEMMA WebConnect ==
  ASSUME WebInv, NEW p \in {"ws", "wt"}, Connect(p)
  PROVE  WebInv'
<1>0. TypeInv /\ LifeInv /\ InboxInv /\ SocketInv
  BY DEF WebInv
<1>a. /\ made + 1 \in Workers /\ made + 1 \in 0 .. MaxWorkers /\ life[made + 1] = "none"
      /\ socket[made + 1] = "none"
  BY <1>0, BoundAssumption DEF TypeInv, LifeInv, Connect, Workers
<1>b. inbox' = [inbox EXCEPT ![made + 1] = <<"init", "connect">>]
  BY DEF Connect
<1>c. inbox' \in [Workers -> Seq(Requests)]
  BY <1>0, <1>a, <1>b, OrderedStart DEF TypeInv
<1>1. TypeInv'
  BY <1>0, <1>c, BoundAssumption DEF TypeInv, Connect, readVars, frameVars
<1>d. /\ made' = made + 1 /\ worker' = made + 1 /\ made \in Nat
      /\ life' = [life EXCEPT ![made + 1] = "alive"]
      /\ UNCHANGED <<socket, ws, frameCount, pending, outbox>>
  BY <1>0, BoundAssumption DEF TypeInv, Connect, frameVars
<1>2. LifeInv'
  <2>1. ASSUME NEW w \in Workers
        PROVE  /\ life'[w] = "none" <=> w > made'
               /\ outbox'[w] # <<>> => life'[w] = "alive"
               /\ pending'[w] # {} => Running(w)'
               /\ life'[w] = "none" => ~ws'[w] /\ socket'[w] = "none" /\ frameCount'[w] = 0
    <3>1. CASE w = made + 1
      BY <1>0, <1>d, <3>1 DEF TypeInv, Running
    <3>2. CASE w # made + 1
      <4>1. life'[w] = life[w] /\ (w > made' <=> w > made)
        BY <1>d, <3>2 DEF Workers
      <4> QED BY <1>0, <1>d, <4>1 DEF LifeInv, Running
    <3> QED BY <3>1, <3>2
  <2>2. life'[worker'] = "alive"
    BY <1>0, <1>a, <1>d DEF TypeInv
  <2> QED BY <2>1, <2>2 DEF LifeInv
<1>3. InboxInv'
  <2>1. ASSUME NEW v \in Workers PROVE Ordered(inbox'[v], socket[v])
    BY <1>0, <1>a, <1>b, OrderedStart DEF InboxInv
  <2> QED BY <1>0, <2>1 DEF InboxInv, Connect, frameVars
<1>4. SocketInv'
  BY <1>0 DEF TypeInv, LifeInv, SocketInv, Connect
<1> QED BY <1>1, <1>2, <1>3, <1>4 DEF WebInv

LEMMA WebDisconnect ==
  ASSUME WebInv, Disconnect
  PROVE  WebInv'
<1>0. TypeInv /\ LifeInv /\ InboxInv /\ SocketInv
  BY DEF WebInv
<1>a. worker \in Workers
  BY <1>0, BoundAssumption DEF TypeInv, Disconnect, Workers
<1>b. inbox' = [inbox EXCEPT ![worker] = Append(inbox[worker], "disconnect")]
  BY DEF Disconnect
<1>c. inbox' \in [Workers -> Seq(Requests)]
  BY <1>0, <1>a, <1>b DEF TypeInv, Requests
<1>d. /\ calls' = calls + 1 /\ calls < MaxEvents
      /\ UNCHANGED <<worker, connected, made, reading, seen, life, protocol, socket, ws,
                     frameCount, pending, sab, outbox, overlap>>
  BY DEF Disconnect, readVars, frameVars
<1>1. TypeInv'
  BY <1>0, <1>c, <1>d, BoundAssumption DEF TypeInv
<1>2. LifeInv'
  BY <1>0 DEF LifeInv, Running, Disconnect, frameVars
<1>3. InboxInv'
  <2>1. ASSUME NEW v \in Workers PROVE Ordered(inbox'[v], socket[v])
    <3>1. Ordered(inbox[v], socket[v]) /\ inbox[v] \in Seq(Requests)
      BY <1>0 DEF InboxInv, TypeInv
    <3> QED BY <1>0, <1>b, <3>1, OrderedDisconnect DEF TypeInv
  <2> QED BY <1>0, <2>1 DEF InboxInv, Disconnect, frameVars
<1>4. SocketInv'
  BY <1>0 DEF SocketInv, Disconnect
<1> QED BY <1>1, <1>2, <1>3, <1>4 DEF WebInv

LEMMA WebDestroy ==
  ASSUME WebInv, Destroy
  PROVE  WebInv'
<1>0. TypeInv /\ LifeInv /\ InboxInv /\ SocketInv
  BY DEF WebInv
<1>a. worker \in Workers
  BY <1>0, BoundAssumption DEF TypeInv, Destroy, Workers
<1>b. /\ inbox' = [inbox EXCEPT ![worker] = <<>>] /\ outbox' = [outbox EXCEPT ![worker] = <<>>]
  BY DEF Destroy, Terminate
<1>c. inbox' \in [Workers -> Seq(Requests)] /\ outbox' \in [Workers -> Seq(Answers)]
  BY <1>0, <1>a, <1>b, OrderedStart DEF TypeInv
<1>1. TypeInv'
  BY <1>0, <1>c DEF TypeInv, Destroy, Terminate, readVars, frameVars
<1>2. LifeInv'
  BY <1>0, <1>c DEF LifeInv, Running, Destroy, Terminate, frameVars
<1>3. InboxInv'
  <2>1. ASSUME NEW v \in Workers PROVE Ordered(inbox'[v], socket'[v])
    BY <1>0, OrderedStart DEF InboxInv, TypeInv, Destroy, Terminate
  <2> QED BY <1>0, <2>1 DEF InboxInv, Destroy, Terminate, frameVars
<1>4. SocketInv'
  BY <1>0 DEF TypeInv, SocketInv, Destroy, Terminate
<1> QED BY <1>1, <1>2, <1>3, <1>4 DEF WebInv

LEMMA WebHandle ==
  ASSUME WebInv, NEW w \in Workers, Handle(w)
  PROVE  WebInv'
<1>0. TypeInv /\ LifeInv /\ InboxInv /\ SocketInv
  BY DEF WebInv
<1>a. outbox' = [outbox EXCEPT ![w] = Tail(outbox[w])] /\ outbox[w] # <<>>
  BY DEF Handle
<1>b. outbox' \in [Workers -> Seq(Answers)] /\ Head(outbox[w]) \in Answers
  BY <1>0, <1>a, TailOf DEF TypeInv
<1>c. connected' \in BOOLEAN
  BY <1>0, <1>b DEF Handle, Answers
<1>1. TypeInv'
  BY <1>0, <1>b, <1>c DEF TypeInv, Handle, readVars, linkVars, frameVars
<1>2. LifeInv'
  BY <1>0 DEF LifeInv, Running, Handle, linkVars, frameVars
<1>3. InboxInv'
  BY <1>0 DEF InboxInv, Handle, linkVars, frameVars
<1>4. SocketInv'
  BY <1>0 DEF SocketInv, Handle, linkVars
<1> QED BY <1>1, <1>2, <1>3, <1>4 DEF WebInv

LEMMA WebRead ==
  ASSUME WebInv, Read
  PROVE  WebInv'
<1>0. TypeInv /\ LifeInv /\ InboxInv /\ SocketInv
  BY DEF WebInv
<1>1. TypeInv'
  BY <1>0, BoundAssumption
  DEF TypeInv, Read, mainVars, linkVars, frameVars, Stamp, Zero, Header
<1>2. LifeInv'
  BY <1>0 DEF LifeInv, Running, Read, mainVars, linkVars, frameVars
<1>3. InboxInv'
  BY <1>0 DEF InboxInv, Read, linkVars, frameVars
<1>4. SocketInv'
  BY <1>0 DEF SocketInv, Read, linkVars
<1> QED BY <1>1, <1>2, <1>3, <1>4 DEF WebInv

LEMMA WebInitBuffer ==
  ASSUME WebInv, NEW w \in Workers, InitBuffer(w)
  PROVE  WebInv'
<1>0. TypeInv /\ LifeInv /\ InboxInv /\ SocketInv
  BY DEF WebInv
<1>a. inbox' = [inbox EXCEPT ![w] = Tail(inbox[w])] /\ inbox[w] # <<>>
  BY DEF InitBuffer, Taken
<1>b. inbox[w] \in Seq(Requests)
  BY <1>0 DEF TypeInv
<1>c. inbox' \in [Workers -> Seq(Requests)]
  BY <1>0, <1>a, <1>b, TailOf DEF TypeInv
<1>d. sab' \in [Header -> Stamp]
  <2>1. [worker |-> w, frame |-> 0] \in Stamp
    BY BoundAssumption DEF Stamp, Workers
  <2>2. \A f \in Header : sab'[f] \in {sab[f], [worker |-> w, frame |-> 0]}
    BY <1>0 DEF TypeInv, InitBuffer, Header, Fields
  <2>3. sab' = [f \in Header |-> sab'[f]]
    BY <1>0 DEF TypeInv, InitBuffer
  <2> QED BY <1>0, <2>1, <2>2, <2>3 DEF TypeInv
<1>e. UNCHANGED <<worker, connected, made, calls, reading, seen, life, protocol, socket, ws,
                  frameCount, pending, outbox, overlap>>
  BY DEF InitBuffer, mainVars, readVars
<1>1. TypeInv'
  BY <1>0, <1>c, <1>d, <1>e DEF TypeInv
<1>2. LifeInv'
  BY <1>0 DEF LifeInv, Running, InitBuffer, mainVars
<1>3. InboxInv'
  <2>1. ASSUME NEW v \in Workers PROVE Ordered(inbox'[v], socket'[v])
    <3>1. Ordered(inbox[v], socket[v]) /\ inbox[v] \in Seq(Requests)
      BY <1>0 DEF InboxInv, TypeInv
    <3>2. CASE v = w
      <4>1. inbox'[v] = Tail(inbox[w]) /\ (Head(inbox[w]) = "init" => socket'[v] = socket[w])
        BY <1>0, <1>a, <3>2 DEF TypeInv, InitBuffer
      <4> QED BY <1>a, <3>1, <3>2, <4>1, OrderedTail
    <3>3. CASE v # w
      BY <1>a, <3>1, <3>3 DEF InitBuffer
    <3> QED BY <3>2, <3>3
  <2>2. ASSUME NEW v \in Workers, socket'[v] = "none" PROVE frameCount'[v] = 0
    BY <1>0, <2>2 DEF InboxInv, InitBuffer
  <2> QED BY <2>1, <2>2 DEF InboxInv
<1>4. SocketInv'
  BY <1>0 DEF SocketInv, InitBuffer
<1> QED BY <1>1, <1>2, <1>3, <1>4 DEF WebInv

LEMMA WebStartSocket ==
  ASSUME WebInv, NEW w \in Workers, StartSocket(w)
  PROVE  WebInv'
<1>0. TypeInv /\ LifeInv /\ InboxInv /\ SocketInv
  BY DEF WebInv
<1>a. inbox' = [inbox EXCEPT ![w] = Tail(inbox[w])] /\ inbox[w] # <<>>
  BY DEF StartSocket, Taken
<1>b. inbox[w] \in Seq(Requests)
  BY <1>0 DEF TypeInv
<1>c. inbox' \in [Workers -> Seq(Requests)]
  BY <1>0, <1>a, <1>b, TailOf DEF TypeInv
<1>1. TypeInv'
  BY <1>0, <1>c DEF TypeInv, StartSocket, mainVars, readVars, frameVars
<1>2. LifeInv'
  BY <1>0 DEF LifeInv, Running, StartSocket, Taken, Idle, mainVars, readVars, frameVars
<1>3. InboxInv'
  <2>1. ASSUME NEW v \in Workers PROVE Ordered(inbox'[v], socket'[v])
    <3>1. Ordered(inbox[v], socket[v]) /\ inbox[v] \in Seq(Requests)
      BY <1>0 DEF InboxInv, TypeInv
    <3>2. CASE v = w
      <4>1. inbox'[v] = Tail(inbox[w]) /\ (Head(inbox[w]) = "init" => socket'[v] = socket[w])
        BY <1>0, <1>a, <3>2 DEF TypeInv, StartSocket
      <4> QED BY <1>a, <3>1, <3>2, <4>1, OrderedTail
    <3>3. CASE v # w
      BY <1>a, <3>1, <3>3 DEF StartSocket
    <3> QED BY <3>2, <3>3
  <2>2. ASSUME NEW v \in Workers, socket'[v] = "none" PROVE frameCount'[v] = 0
    BY <1>0, <2>2 DEF InboxInv, StartSocket, frameVars
  <2> QED BY <2>1, <2>2 DEF InboxInv
<1>4. SocketInv'
  BY <1>0 DEF TypeInv, SocketInv, StartSocket
<1> QED BY <1>1, <1>2, <1>3, <1>4 DEF WebInv

LEMMA WebStartFails ==
  ASSUME WebInv, NEW w \in Workers, StartFails(w)
  PROVE  WebInv'
<1>0. TypeInv /\ LifeInv /\ InboxInv /\ SocketInv
  BY DEF WebInv
<1>a. inbox' = [inbox EXCEPT ![w] = Tail(inbox[w])] /\ inbox[w] # <<>>
  BY DEF StartFails, Taken
<1>b. inbox[w] \in Seq(Requests)
  BY <1>0 DEF TypeInv
<1>c. inbox' \in [Workers -> Seq(Requests)]
  BY <1>0, <1>a, <1>b, TailOf DEF TypeInv
<1>1. TypeInv'
  BY <1>0, <1>c DEF TypeInv, StartFails, mainVars, readVars, frameVars
<1>2. LifeInv'
  BY <1>0 DEF LifeInv, Running, StartFails, Taken, Idle, mainVars, readVars, frameVars
<1>3. InboxInv'
  <2>1. ASSUME NEW v \in Workers PROVE Ordered(inbox'[v], socket'[v])
    <3>1. Ordered(inbox[v], socket[v]) /\ inbox[v] \in Seq(Requests)
      BY <1>0 DEF InboxInv, TypeInv
    <3>2. CASE v = w
      <4>1. inbox'[v] = Tail(inbox[w]) /\ (Head(inbox[w]) = "init" => socket'[v] = socket[w])
        BY <1>0, <1>a, <3>2 DEF TypeInv, StartFails
      <4> QED BY <1>a, <3>1, <3>2, <4>1, OrderedTail
    <3>3. CASE v # w
      BY <1>a, <3>1, <3>3 DEF StartFails
    <3> QED BY <3>2, <3>3
  <2>2. ASSUME NEW v \in Workers, socket'[v] = "none" PROVE frameCount'[v] = 0
    BY <1>0, <2>2 DEF InboxInv, StartFails, frameVars
  <2> QED BY <2>1, <2>2 DEF InboxInv
<1>4. SocketInv'
  <2>1. Head(inbox[w]) = "connect" /\ 1 \in 1 .. Len(inbox[w]) /\ inbox[w][1] = "connect"
    BY <1>a, <1>b, TailOf DEF StartFails
  <2>2. socket[w] = "none" /\ ~ws[w]
    BY <1>0, <2>1 DEF InboxInv, Ordered, SocketInv
  <2>3. UNCHANGED <<ws, protocol>> /\ socket' = [socket EXCEPT ![w] = "closed"]
    BY DEF StartFails
  <2> QED BY <1>0, <2>2, <2>3 DEF TypeInv, SocketInv
<1> QED BY <1>1, <1>2, <1>3, <1>4 DEF WebInv

LEMMA WebCloseSocket ==
  ASSUME WebInv, NEW w \in Workers, CloseSocket(w)
  PROVE  WebInv'
<1>0. TypeInv /\ LifeInv /\ InboxInv /\ SocketInv
  BY DEF WebInv
<1>a. inbox' = [inbox EXCEPT ![w] = Tail(inbox[w])] /\ inbox[w] # <<>>
  BY DEF CloseSocket, Taken
<1>b. inbox[w] \in Seq(Requests)
  BY <1>0 DEF TypeInv
<1>c. inbox' \in [Workers -> Seq(Requests)]
  BY <1>0, <1>a, <1>b, TailOf DEF TypeInv
<1>d. outbox' = [outbox EXCEPT ![w] = Append(outbox[w], "disconnected")]
  BY DEF CloseSocket, Post
<1>e. outbox' \in [Workers -> Seq(Answers)]
  BY <1>0, <1>d, AppendOf DEF TypeInv, Answers
<1>1. TypeInv'
  BY <1>0, <1>c, <1>e DEF TypeInv, CloseSocket, mainVars, readVars, frameVars
<1>2. LifeInv'
  BY <1>0 DEF LifeInv, Running, CloseSocket, Idle, Post, mainVars, frameVars
<1>3. InboxInv'
  <2>1. ASSUME NEW v \in Workers PROVE Ordered(inbox'[v], socket'[v])
    <3>1. Ordered(inbox[v], socket[v]) /\ inbox[v] \in Seq(Requests)
      BY <1>0 DEF InboxInv, TypeInv
    <3>2. CASE v = w
      <4>1. inbox'[v] = Tail(inbox[w]) /\ (Head(inbox[w]) = "init" => socket'[v] = socket[w])
        BY <1>0, <1>a, <3>2 DEF TypeInv, CloseSocket
      <4> QED BY <1>a, <3>1, <3>2, <4>1, OrderedTail
    <3>3. CASE v # w
      BY <1>a, <3>1, <3>3 DEF CloseSocket
    <3> QED BY <3>2, <3>3
  <2>2. ASSUME NEW v \in Workers, socket'[v] = "none" PROVE frameCount'[v] = 0
    BY <1>0, <2>2 DEF InboxInv, CloseSocket, frameVars
  <2> QED BY <2>1, <2>2 DEF InboxInv
<1>4. SocketInv'
  BY <1>0 DEF TypeInv, SocketInv, CloseSocket
<1> QED BY <1>1, <1>2, <1>3, <1>4 DEF WebInv

LEMMA WebOpened ==
  ASSUME WebInv, NEW w \in Workers, Opened(w)
  PROVE  WebInv'
<1>0. TypeInv /\ LifeInv /\ InboxInv /\ SocketInv
  BY DEF WebInv
<1>d. outbox' = [outbox EXCEPT ![w] = Append(outbox[w], "connected")]
  BY DEF Opened, Post
<1>e. outbox' \in [Workers -> Seq(Answers)]
  BY <1>0, <1>d, AppendOf DEF TypeInv, Answers
<1>1. TypeInv'
  BY <1>0, <1>e DEF TypeInv, Opened, mainVars, readVars, frameVars
<1>2. LifeInv'
  BY <1>0, <1>d DEF TypeInv, LifeInv, Running, Opened, Idle, mainVars, frameVars
<1>3. InboxInv'
  <2>1. ASSUME NEW v \in Workers PROVE Ordered(inbox'[v], socket'[v])
    <3>1. Ordered(inbox[v], socket[v]) /\ inbox'[v] = inbox[v]
      BY <1>0 DEF InboxInv, Opened
    <3>2. CASE v = w
      <4>1. socket[v] # "none"
        BY <3>2 DEF Opened
      <4> QED BY <3>1, <4>1, OrderedConnected
    <3>3. CASE v # w
      BY <1>0, <3>1, <3>3 DEF TypeInv, Opened
    <3> QED BY <3>2, <3>3
  <2>2. ASSUME NEW v \in Workers, socket'[v] = "none" PROVE frameCount'[v] = 0
    BY <1>0, <2>2 DEF InboxInv, Opened, frameVars
  <2> QED BY <2>1, <2>2 DEF InboxInv
<1>4. SocketInv'
  BY <1>0 DEF SocketInv, Opened
<1> QED BY <1>1, <1>2, <1>3, <1>4 DEF WebInv

LEMMA WebEnded ==
  ASSUME WebInv, NEW w \in Workers, Ended(w)
  PROVE  WebInv'
<1>0. TypeInv /\ LifeInv /\ InboxInv /\ SocketInv
  BY DEF WebInv
<1>d. outbox' = [outbox EXCEPT ![w] = Append(outbox[w], "disconnected")]
  BY DEF Ended, Post
<1>e. outbox' \in [Workers -> Seq(Answers)]
  BY <1>0, <1>d, AppendOf DEF TypeInv, Answers
<1>1. TypeInv'
  BY <1>0, <1>e DEF TypeInv, Ended, mainVars, readVars, frameVars
<1>2. LifeInv'
  BY <1>0, <1>d DEF LifeInv, Running, Ended, Idle, mainVars, frameVars
<1>3. InboxInv'
  <2>1. ASSUME NEW v \in Workers PROVE Ordered(inbox'[v], socket'[v])
    <3>1. Ordered(inbox[v], socket[v]) /\ inbox'[v] = inbox[v]
      BY <1>0 DEF InboxInv, Ended
    <3>2. CASE v = w
      <4>1. socket[v] # "none"
        BY <3>2 DEF Ended
      <4> QED BY <3>1, <4>1, OrderedConnected
    <3>3. CASE v # w
      BY <1>0, <3>1, <3>3 DEF TypeInv, Ended
    <3> QED BY <3>2, <3>3
  <2>2. ASSUME NEW v \in Workers, socket'[v] = "none" PROVE frameCount'[v] = 0
    BY <1>0, <2>2 DEF InboxInv, Ended, frameVars
  <2> QED BY <2>1, <2>2 DEF InboxInv
<1>4. SocketInv'
  BY <1>0 DEF TypeInv, SocketInv, Ended
<1> QED BY <1>1, <1>2, <1>3, <1>4 DEF WebInv

LEMMA WebFailed ==
  ASSUME WebInv, NEW w \in Workers, Failed(w)
  PROVE  WebInv'
<1>0. TypeInv /\ LifeInv /\ InboxInv /\ SocketInv
  BY DEF WebInv
<1>1. TypeInv'
  BY <1>0 DEF TypeInv, Failed, mainVars, readVars, frameVars
<1>2. LifeInv'
  BY <1>0 DEF LifeInv, Running, Failed, mainVars, frameVars
<1>3. InboxInv'
  <2>1. ASSUME NEW v \in Workers PROVE Ordered(inbox'[v], socket'[v])
    <3>1. Ordered(inbox[v], socket[v]) /\ inbox'[v] = inbox[v]
      BY <1>0 DEF InboxInv, Failed
    <3>2. CASE v = w
      <4>1. socket[v] # "none"
        BY <3>2 DEF Failed
      <4> QED BY <3>1, <4>1, OrderedConnected
    <3>3. CASE v # w
      BY <1>0, <3>1, <3>3 DEF TypeInv, Failed
    <3> QED BY <3>2, <3>3
  <2>2. ASSUME NEW v \in Workers, socket'[v] = "none" PROVE frameCount'[v] = 0
    BY <1>0, <2>2 DEF InboxInv, Failed, frameVars
  <2> QED BY <2>1, <2>2 DEF InboxInv
<1>4. SocketInv'
  BY <1>0 DEF SocketInv, Failed
<1> QED BY <1>1, <1>2, <1>3, <1>4 DEF WebInv

LEMMA WebFrame ==
  ASSUME WebInv, NEW w \in Workers, Frame(w)
  PROVE  WebInv'
<1>0. TypeInv /\ LifeInv /\ InboxInv /\ SocketInv
  BY DEF WebInv
<1>1. TypeInv'
  BY <1>0, BoundAssumption DEF TypeInv, Frame, mainVars, readVars, linkVars
<1>2. LifeInv'
  BY <1>0 DEF LifeInv, Running, Frame, Idle, mainVars, linkVars
<1>3. InboxInv'
  BY <1>0 DEF InboxInv, Frame, linkVars
<1>4. SocketInv'
  BY <1>0 DEF SocketInv, Frame, linkVars
<1> QED BY <1>1, <1>2, <1>3, <1>4 DEF WebInv

LEMMA WebWrite ==
  ASSUME WebInv, NEW w \in Workers, NEW f \in Header, Write(w, f)
  PROVE  WebInv'
<1>0. TypeInv /\ LifeInv /\ InboxInv /\ SocketInv
  BY DEF WebInv
<1>1. TypeInv'
  <2>1. sab' \in [Header -> Stamp]
    <3>1. w \in Nat /\ frameCount[w] \in 0 .. MaxEvents
      BY <1>0 DEF TypeInv, Workers
    <3>2. [worker |-> w, frame |-> frameCount[w]] \in Stamp
      BY <3>1 DEF Stamp, Workers
    <3> QED BY <1>0, <3>2 DEF TypeInv, Write
  <2>2. pending' \in [Workers -> SUBSET Header]
    BY <1>0 DEF TypeInv, Write
  <2> QED BY <1>0, <2>1, <2>2 DEF TypeInv, Write, mainVars, readVars, linkVars
<1>2. LifeInv'
  BY <1>0 DEF LifeInv, Running, Write, mainVars, linkVars
<1>3. InboxInv'
  BY <1>0 DEF InboxInv, Write, linkVars
<1>4. SocketInv'
  BY <1>0 DEF SocketInv, Write, linkVars
<1> QED BY <1>1, <1>2, <1>3, <1>4 DEF WebInv

LEMMA WebDie ==
  ASSUME WebInv, NEW w \in Workers, Die(w)
  PROVE  WebInv'
<1>0. TypeInv /\ LifeInv /\ InboxInv /\ SocketInv
  BY DEF WebInv
<1>1. TypeInv'
  BY <1>0 DEF TypeInv, Die, mainVars, readVars
<1>2. LifeInv'
  BY <1>0 DEF TypeInv, LifeInv, Running, Die, mainVars
<1>3. InboxInv'
  BY <1>0 DEF InboxInv, Die
<1>4. SocketInv'
  BY <1>0 DEF SocketInv, Die
<1> QED BY <1>1, <1>2, <1>3, <1>4 DEF WebInv

LEMMA WebInvariant == Spec => []WebInv
<1>1. Init => WebInv
  <2> SUFFICES ASSUME Init PROVE WebInv
    OBVIOUS
  <2>1. TypeInv
    <3>1. inbox \in [Workers -> Seq(Requests)] /\ outbox \in [Workers -> Seq(Answers)]
      BY OrderedStart DEF Init
    <3>2. Zero \in Stamp
      BY BoundAssumption DEF Zero, Stamp
    <3>3. /\ seen \in Stamp /\ sab \in [Header -> Stamp]
          /\ pending \in [Workers -> SUBSET Header]
          /\ frameCount \in [Workers -> 0 .. MaxEvents]
      BY <3>2, BoundAssumption DEF Init
    <3>4. /\ ws \in [Workers -> BOOLEAN] /\ connected \in BOOLEAN /\ overlap \in BOOLEAN
      BY DEF Init
    <3> QED BY <3>1, <3>3, <3>4, BoundAssumption DEF Init, TypeInv
  <2>2. LifeInv
    BY DEF Init, LifeInv, Workers
  <2>3. InboxInv
    BY OrderedStart DEF Init, InboxInv
  <2>4. SocketInv
    BY DEF Init, SocketInv
  <2> QED BY <2>1, <2>2, <2>3, <2>4 DEF WebInv
<1>2. WebInv /\ UNCHANGED vars => WebInv'
  BY DEF WebInv, TypeInv, LifeInv, InboxInv, SocketInv, Running, vars, mainVars, readVars,
         linkVars, frameVars
<1>3. WebInv /\ [Next]_vars => WebInv'
  BY <1>2, WebConnect, WebDisconnect, WebDestroy, WebHandle, WebRead, WebInitBuffer,
     WebStartSocket, WebStartFails, WebCloseSocket, WebOpened, WebEnded, WebFailed, WebFrame, WebWrite,
     WebDie
  DEF Next, React
<1> QED BY <1>1, <1>3, PTL DEF Spec

-----------------------------------------------------------------------------
(***************************************************************************)
(* The flag.                                                               *)
(***************************************************************************)

LEMMA FlagConnect ==
  ASSUME WebInv, FlagInv, NEW p \in {"ws", "wt"}, Connect(p)
  PROVE  FlagInv'
<1> SUFFICES ASSUME NoneAbandoned'
             PROVE  /\ worker' # 0
                    /\ LastWord(worker)' <=> socket'[worker'] = "open"
  BY DEF FlagInv
<1>1. /\ made + 1 \in Workers /\ made \in Nat /\ life[made + 1] = "none"
      /\ socket[made + 1] = "none" /\ outbox[made + 1] = <<>>
  BY BoundAssumption DEF WebInv, TypeInv, LifeInv, Connect, Workers
<1>2. /\ worker' = made + 1 /\ life' = [life EXCEPT ![made + 1] = "alive"]
      /\ UNCHANGED <<connected, socket, outbox>>
  BY DEF Connect
<1>3. ASSUME NEW v \in Workers PROVE life[v] # "alive"
  BY <1>1, <1>2, <1>3 DEF WebInv, TypeInv, NoneAbandoned
<1>4. worker = 0
  BY <1>3, BoundAssumption DEF WebInv, TypeInv, LifeInv, Workers
<1>5. ~connected
  BY <1>3, <1>4 DEF FlagInv, NoneAbandoned
<1> QED BY <1>1, <1>2, <1>5 DEF LastWord

LEMMA FlagDestroy ==
  ASSUME WebInv, FlagInv, Destroy
  PROVE  FlagInv'
BY DEF Destroy, FlagInv

LEMMA FlagHandle ==
  ASSUME WebInv, FlagInv, NEW w \in Workers, Handle(w)
  PROVE  FlagInv'
<1>1. /\ outbox' = [outbox EXCEPT ![w] = Tail(outbox[w])] /\ outbox[w] # <<>>
      /\ UNCHANGED <<worker, life, protocol, socket>>
  BY DEF Handle, linkVars
<1>2. /\ outbox[w] \in Seq(Answers) /\ outbox'[w] = Tail(outbox[w])
      /\ life[w] = "alive"
  BY <1>1 DEF WebInv, TypeInv, LifeInv
<1>3. connected' <=> Head(outbox[w]) = "connected"
  BY <1>1, <1>2, TailOf DEF Handle, Answers
<1>4. LastWord(w)' <=> LastWord(w)
  <2>1. /\ Head(outbox[w]) = outbox[w][1] /\ Len(outbox[w]) \in Nat \ {0}
        /\ outbox'[w] \in Seq(Answers) /\ Len(outbox'[w]) = Len(outbox[w]) - 1
        /\ \A i \in 1 .. Len(outbox[w]) - 1 : outbox'[w][i] = outbox[w][i + 1]
    BY <1>1, <1>2, TailOf
  <2>2. CASE Len(outbox[w]) = 1
    BY <1>1, <1>3, <2>1, <2>2 DEF LastWord
  <2>3. CASE Len(outbox[w]) # 1
    <3>0. Len(outbox'[w]) \in Nat /\ (Len(outbox'[w]) # 0 => outbox'[w] # <<>>)
      BY <2>1, LengthOf
    <3>1. /\ outbox'[w] # <<>> /\ Len(outbox'[w]) \in 1 .. Len(outbox[w]) - 1
          /\ Len(outbox'[w]) + 1 = Len(outbox[w])
      BY <2>1, <2>3, <3>0
    <3>2. outbox'[w][Len(outbox'[w])] = outbox[w][Len(outbox[w])]
      BY <2>1, <3>1
    <3> QED BY <1>1, <3>1, <3>2 DEF LastWord
  <2> QED BY <2>2, <2>3
<1> SUFFICES ASSUME NoneAbandoned
             PROVE  worker = w /\ (LastWord(w)' <=> LastWord(w))
  BY <1>1, <1>2, BoundAssumption DEF FlagInv, NoneAbandoned, Workers
<1> QED BY <1>2, <1>4 DEF NoneAbandoned

LEMMA FlagPost ==
  ASSUME WebInv, FlagInv, NEW w \in Workers, Idle(w), NEW m \in Answers, Post(w, m),
         UNCHANGED <<worker, connected, life, protocol>>,
         \A v \in Workers \ {w} : socket'[v] = socket[v],
         protocol[w] = "ws" => (m = "connected" <=> socket'[w] = "open")
  PROVE  FlagInv'
<1>1. /\ outbox'[w] = Append(outbox[w], m)
      /\ \A v \in Workers \ {w} : outbox'[v] = outbox[v]
  BY DEF WebInv, TypeInv, Post
<1>2. outbox'[w] # <<>> /\ outbox'[w][Len(outbox'[w])] = m
  <2>1. outbox[w] \in Seq(Answers)
    BY DEF WebInv, TypeInv
  <2> QED BY <1>1, <2>1, AppendOf
<1>3. LastWord(w)' <=> m = "connected"
  BY <1>2 DEF LastWord
<1> SUFFICES ASSUME NoneAbandoned'
             PROVE  worker = w /\ (protocol[w] = "ws"
                                     => (LastWord(w)' <=> socket'[w] = "open"))
  BY BoundAssumption DEF FlagInv, WebInv, TypeInv, Workers
<1> QED BY <1>3 DEF NoneAbandoned, Idle

LEMMA FlagOther ==
  ASSUME WebInv, FlagInv, UNCHANGED <<worker, connected, outbox, protocol>>,
         \A v \in Workers : life[v] = "alive" <=> life'[v] = "alive",
         \A v \in Workers : protocol[v] = "ws" => (socket[v] = "open" <=> socket'[v] = "open")
  PROVE  FlagInv'
<1>1. worker # 0 => worker \in Workers
  BY BoundAssumption DEF WebInv, TypeInv, Workers
<1> QED BY <1>1 DEF FlagInv, NoneAbandoned, LastWord

LEMMA FlagNext == WebInv /\ FlagInv /\ [Next]_vars => FlagInv'
<1> SUFFICES ASSUME WebInv, FlagInv, [Next]_vars PROVE FlagInv'
  OBVIOUS
<1>1. CASE Disconnect \/ Read \/ UNCHANGED vars
  BY <1>1, FlagOther
  DEF Disconnect, Read, vars, mainVars, linkVars
<1>2. ASSUME NEW w \in Workers, InitBuffer(w) \/ Frame(w) \/ \E f \in Header : Write(w, f)
      PROVE  FlagInv'
  BY <1>2, FlagOther DEF InitBuffer, Frame, Write, mainVars, linkVars
<1>3. ASSUME NEW w \in Workers, StartSocket(w) \/ StartFails(w) PROVE FlagInv'
  <2>1. /\ socket[w] = "none"
        /\ \E s \in {"connecting", "closed"} : socket' = [socket EXCEPT ![w] = s]
        /\ UNCHANGED <<worker, connected, outbox, life, protocol>>
    <3>1. inbox[w] # <<>> /\ inbox[w] \in Seq(Requests) /\ Head(inbox[w]) = "connect"
      BY <1>3 DEF StartSocket, StartFails, WebInv, TypeInv
    <3>2. 1 \in 1 .. Len(inbox[w]) /\ inbox[w][1] = "connect"
      BY <3>1, TailOf
    <3>3. socket[w] = "none"
      BY <3>2 DEF WebInv, InboxInv, Ordered
    <3> QED BY <1>3, <3>3 DEF StartSocket, StartFails, mainVars
  <2> QED BY <2>1, FlagOther DEF WebInv, TypeInv
<1>4. ASSUME NEW w \in Workers, CloseSocket(w) PROVE FlagInv'
  <2>1. /\ Idle(w) /\ Post(w, "disconnected")
        /\ UNCHANGED <<worker, connected, life, protocol>>
        /\ socket' = IF ws[w] THEN [socket EXCEPT ![w] = "closing"] ELSE socket
    BY <1>4 DEF CloseSocket, mainVars
  <2>2. /\ \A v \in Workers \ {w} : socket'[v] = socket[v]
        /\ protocol[w] = "ws" => socket'[w] # "open"
    BY <2>1 DEF WebInv, TypeInv, SocketInv
  <2> QED BY <2>1, <2>2, FlagPost DEF Answers
<1>5. ASSUME NEW w \in Workers, Opened(w) \/ Ended(w) PROVE FlagInv'
  <2>1. Idle(w) /\ UNCHANGED <<worker, connected, life, protocol>>
    BY <1>5 DEF Opened, Ended, mainVars
  <2>2. PICK m \in Answers :
          /\ Post(w, m)
          /\ socket' = [socket EXCEPT ![w] = IF m = "connected" THEN "open" ELSE "closed"]
    BY <1>5 DEF Opened, Ended, Answers
  <2>3. /\ \A v \in Workers \ {w} : socket'[v] = socket[v]
        /\ m = "connected" <=> socket'[w] = "open"
    BY <2>2 DEF WebInv, TypeInv
  <2> QED BY <2>1, <2>2, <2>3, FlagPost
<1>6. ASSUME NEW w \in Workers, Failed(w) PROVE FlagInv'
  BY <1>6, FlagOther DEF Failed, mainVars, WebInv, TypeInv
<1>7. ASSUME NEW w \in Workers, Die(w) PROVE FlagInv'
  BY <1>7, FlagOther DEF Die, mainVars, WebInv, TypeInv
<1> QED
  BY <1>1, <1>2, <1>3, <1>4, <1>5, <1>6, <1>7, FlagConnect, FlagDestroy, FlagHandle
  DEF Next, React

-----------------------------------------------------------------------------
(***************************************************************************)
(* The fence.                                                              *)
(***************************************************************************)

LEMMA NotBefore ==
  ASSUME NEW s \in Stamp, NEW t \in Stamp, NEW u \in Stamp
  PROVE  /\ ~Before(s, s)
         /\ ~Before(s, t) /\ ~Before(u, s) => ~Before(u, t)
<1>1. /\ s.worker \in Int /\ t.worker \in Int /\ u.worker \in Int
      /\ s.frame \in Int /\ t.frame \in Int /\ u.frame \in Int
  BY BoundAssumption DEF Stamp
<1> QED BY <1>1 DEF Before

\* What the worker that runs writes is not before anything in the buffer.
LEMMA WritesForward ==
  ASSUME WebInv, FenceInv, ~overlap, NEW w \in Workers, Running(w)
  PROVE  /\ w = made /\ [worker |-> w, frame |-> frameCount[w]] \in Stamp
         /\ \A f \in Header :
              ~Before([worker |-> w, frame |-> frameCount[w]], sab[f])
         /\ \A v \in Workers \ {w} : pending[v] = {}
<1>1. Alone /\ Bounded
  BY DEF FenceInv
<1>2. w = made /\ \A v \in Workers \ {w} : pending[v] = {}
  BY <1>1 DEF Alone, WebInv, LifeInv
<1>3. frameCount[w] \in 0 .. MaxEvents /\ w \in 0 .. MaxWorkers
  BY BoundAssumption DEF WebInv, TypeInv, Workers
<1> DEFINE n == [worker |-> w, frame |-> frameCount[w]]
<1>4. n \in Stamp
  BY <1>3 DEF Stamp
<1>5. ASSUME NEW f \in Header PROVE ~Before(n, sab[f])
  <2>1. sab[f] \in Stamp
    BY DEF WebInv, TypeInv
  <2>2. /\ sab[f].worker \in 0 .. MaxWorkers /\ sab[f].frame \in 0 .. MaxEvents
        /\ sab[f].worker <= w /\ (sab[f].worker = w => sab[f].frame <= frameCount[w])
    BY <1>1, <1>2, <2>1, BoundAssumption DEF Bounded, Stamp, Workers
  <2> QED BY <1>3, <2>2, BoundAssumption DEF Before
<1> QED BY <1>2, <1>4, <1>5

LEMMA FenceConnect ==
  ASSUME WebInv, FenceInv, NEW p \in {"ws", "wt"}, Connect(p)
  PROVE  FenceInv'
<1> SUFFICES ASSUME ~overlap' PROVE (Alone /\ Bounded /\ Fenced /\ Flushed /\ Kept)'
  BY DEF FenceInv
<1>1. /\ made' = made + 1 /\ made \in Nat
      /\ life' = [life EXCEPT ![made + 1] = "alive"]
      /\ overlap' = (overlap \/ \E w \in Workers : Running(w))
      /\ UNCHANGED <<reading, seen, frameCount, pending, sab>>
  BY BoundAssumption DEF Connect, readVars, frameVars, WebInv, TypeInv
<1>2. ~overlap /\ \A w \in Workers : ~Running(w)
  BY <1>1
<1>3. Alone'
  BY <1>1, <1>2 DEF Alone, Running, WebInv, TypeInv
<1>4. Bounded'
  <2>1. ASSUME NEW f \in Header PROVE sab[f].worker \in Int /\ sab[f].worker <= made
    BY <1>2, BoundAssumption DEF FenceInv, Bounded, WebInv, TypeInv, Stamp
  <2>2. \A f \in Header : sab'[f].worker <= made'
    BY <1>1, <2>1
  <2> QED BY <1>1, <1>2, <2>2 DEF FenceInv, Bounded
<1>5. (Fenced /\ Flushed /\ Kept)'
  BY <1>1, <1>2 DEF FenceInv, Fenced, Flushed, Kept
<1> QED BY <1>3, <1>4, <1>5

LEMMA FenceRead ==
  ASSUME WebInv, FenceInv, Read
  PROVE  FenceInv'
<1> SUFFICES ASSUME ~overlap' PROVE (Alone /\ Bounded /\ Fenced /\ Flushed /\ Kept)'
  BY DEF FenceInv
<1>1. UNCHANGED <<made, life, frameCount, pending, sab, overlap>>
  BY DEF Read, mainVars, linkVars, frameVars
<1>2. Alone /\ Bounded /\ Fenced /\ Flushed /\ Kept
  BY <1>1 DEF FenceInv
<1>3. (Alone /\ Bounded /\ Fenced /\ Flushed)'
  BY <1>1, <1>2 DEF Alone, Bounded, Fenced, Flushed, Running
<1>4. Kept'
  <2>1. CASE reading = "seq"
    BY <1>1, <1>2, <2>1 DEF Read, Fenced, Kept
  <2>2. CASE reading \in {"count", "low"}
    BY <1>1, <1>2, <2>2 DEF Read, Kept
  <2>3. CASE reading = "high"
    BY <2>3 DEF Read, Kept
  <2> QED BY <2>1, <2>2, <2>3 DEF WebInv, TypeInv
<1> QED BY <1>3, <1>4

LEMMA FenceInit ==
  ASSUME WebInv, FenceInv, NEW w \in Workers, InitBuffer(w)
  PROVE  FenceInv'
<1> SUFFICES ASSUME ~overlap' PROVE (Alone /\ Bounded /\ Fenced /\ Flushed /\ Kept)'
  BY DEF FenceInv
<1> DEFINE n == [worker |-> w, frame |-> 0]
<1>1. /\ UNCHANGED <<made, reading, seen, life, frameCount, pending, overlap>>
      /\ sab' = [sab EXCEPT !["seq"] = n, !["count"] = n]
      /\ Idle(w) /\ inbox[w] # <<>> /\ Head(inbox[w]) = "init"
  BY DEF InitBuffer, mainVars, readVars
<1>2. Alone /\ Bounded /\ Fenced /\ Flushed /\ Kept /\ Running(w) /\ pending[w] = {}
  BY <1>1 DEF FenceInv, Idle, Running
<1>3. frameCount[w] = 0
  <2>1. inbox[w] \in Seq(Requests)
    BY DEF WebInv, TypeInv
  <2>2. 1 \in 1 .. Len(inbox[w]) /\ inbox[w][1] = "init"
    BY <1>1, <2>1, TailOf
  <2> QED BY <2>2 DEF WebInv, InboxInv, Ordered
<1>4. /\ w = made /\ n \in Stamp /\ \A f \in Header : ~Before(n, sab[f])
      /\ \A v \in Workers : pending[v] = {}
  BY <1>1, <1>2, <1>3, WritesForward
<1>5. \A f \in Header : sab[f] \in Stamp /\ sab'[f] \in {sab[f], n}
  BY <1>1 DEF WebInv, TypeInv, Header, Fields
<1>6. n.worker = w /\ n.frame = 0 /\ sab'["seq"] = n
  BY <1>1 DEF WebInv, TypeInv, Header, Fields
<1> HIDE DEF n
<1>7. Alone'
  BY <1>1, <1>2 DEF Alone, Running
<1>8. Bounded'
  <2>1. ASSUME NEW f \in Header
        PROVE  /\ sab'[f].worker <= made
               /\ sab'[f].worker # 0 => sab'[f].frame <= frameCount[sab'[f].worker]
    <3>1. CASE sab'[f] = n
      BY <1>3, <1>4, <1>6, <3>1 DEF Workers
    <3>2. CASE sab'[f] = sab[f]
      BY <1>2, <3>2 DEF Bounded
    <3> QED BY <1>5, <3>1, <3>2
  <2> QED BY <1>1, <2>1 DEF Bounded
<1>9. Fenced' /\ Flushed'
  BY <1>1, <1>4, <1>6 DEF Fenced, Flushed
<1>10. Kept'
  <2> SUFFICES ASSUME reading # "seq", seen.frame > 0, NEW f \in Fields
               PROVE  ~Before(sab'[f], seen)
    BY <1>1 DEF Kept
  <2>1. f \in Header /\ seen \in Stamp /\ ~Before(sab[f], seen)
    BY <1>2 DEF Kept, Header, WebInv, TypeInv
  <2> QED BY <1>4, <1>5, <2>1, NotBefore
<1> QED BY <1>7, <1>8, <1>9, <1>10

LEMMA FenceWrite ==
  ASSUME WebInv, FenceInv, NEW w \in Workers, NEW f \in Header, Write(w, f)
  PROVE  FenceInv'
<1> SUFFICES ASSUME ~overlap' PROVE (Alone /\ Bounded /\ Fenced /\ Flushed /\ Kept)'
  BY DEF FenceInv
<1> DEFINE n == [worker |-> w, frame |-> frameCount[w]]
<1>1. /\ UNCHANGED <<made, reading, seen, life, frameCount, overlap>>
      /\ sab' = [sab EXCEPT ![f] = n] /\ pending' = [pending EXCEPT ![w] = pending[w] \ {f}]
      /\ Running(w) /\ f \in NextFields(w)
  BY DEF Write, mainVars, readVars, linkVars
<1>2. Alone /\ Bounded /\ Fenced /\ Flushed /\ Kept
  BY <1>1 DEF FenceInv
<1>3. /\ w = made /\ n \in Stamp /\ \A g \in Header : ~Before(n, sab[g])
      /\ \A v \in Workers \ {w} : pending[v] = {}
  BY <1>1, WritesForward
<1>4. /\ \A g \in Header : sab[g] \in Stamp /\ sab'[g] = IF g = f THEN n ELSE sab[g]
      /\ \A v \in Workers : pending'[v] = IF v = w THEN pending[w] \ {f} ELSE pending[v]
      /\ "seq" \in Header /\ \A g \in Fields : g \in Header /\ g # "seq"
  BY <1>1 DEF WebInv, TypeInv, Header, Fields
<1>5. n.worker = w /\ n.frame = frameCount[w] /\ frameCount[w] \in Nat
  BY BoundAssumption DEF WebInv, TypeInv
<1>6. f = "seq" => \A g \in Fields : sab[g] = n
  <2> SUFFICES ASSUME f = "seq", NEW g \in Fields PROVE sab[g] = n
    OBVIOUS
  <2>1. "seq" \in pending[w] /\ g \notin pending[w]
    BY <1>1, <1>4 DEF NextFields
  <2> QED BY <1>2, <2>1 DEF Flushed
<1> HIDE DEF n
<1>7. Alone'
  BY <1>1, <1>2 DEF Alone, Running
<1>8. Bounded'
  BY <1>1, <1>2, <1>3, <1>4, <1>5, BoundAssumption DEF Bounded, Workers
<1>9. Fenced'
  BY <1>2, <1>3, <1>4, <1>6, NotBefore DEF Fenced
<1>10. Flushed'
  <2> SUFFICES ASSUME NEW v \in Workers, NEW g \in Fields,
                      "seq" \in pending'[v], g \notin pending'[v]
               PROVE  sab'[g] = [worker |-> v, frame |-> frameCount[v]]
    BY <1>1 DEF Flushed
  <2>1. v = w /\ "seq" \in pending[w] /\ f # "seq"
    BY <1>3, <1>4
  <2>2. CASE g = f
    BY <1>4, <2>1, <2>2 DEF n
  <2>3. CASE g # f
    BY <1>2, <1>4, <2>1, <2>3 DEF Flushed
  <2> QED BY <2>2, <2>3
<1>11. Kept'
  <2> SUFFICES ASSUME reading # "seq", seen.frame > 0, NEW g \in Fields
               PROVE  ~Before(sab'[g], seen)
    BY <1>1 DEF Kept
  <2>1. seen \in Stamp /\ ~Before(sab[g], seen)
    BY <1>2 DEF Kept, WebInv, TypeInv
  <2> QED BY <1>3, <1>4, <2>1, NotBefore
<1> QED BY <1>7, <1>8, <1>9, <1>10, <1>11

LEMMA FenceFrame ==
  ASSUME WebInv, FenceInv, NEW w \in Workers, Frame(w)
  PROVE  FenceInv'
<1> SUFFICES ASSUME ~overlap' PROVE (Alone /\ Bounded /\ Fenced /\ Flushed /\ Kept)'
  BY DEF FenceInv
<1>1. /\ UNCHANGED <<made, reading, seen, life, sab, overlap>>
      /\ frameCount' = [frameCount EXCEPT ![w] = frameCount[w] + 1]
      /\ pending' = [pending EXCEPT ![w] = Header]
  BY DEF Frame, mainVars, readVars, linkVars
<1>2. Alone /\ Bounded /\ Fenced /\ Flushed /\ Kept
  BY <1>1 DEF FenceInv
<1>3. (Alone /\ Fenced /\ Kept)'
  BY <1>1, <1>2 DEF Alone, Fenced, Kept, Running
<1>4. \A v \in Workers : /\ frameCount[v] \in Int /\ frameCount'[v] \in Int
                         /\ frameCount'[v] >= frameCount[v]
                         /\ v # w => frameCount'[v] = frameCount[v]
  BY <1>1 DEF WebInv, TypeInv
<1>5. Bounded'
  <2> SUFFICES ASSUME NEW f \in Header, sab[f].worker # 0
               PROVE  sab[f].frame <= frameCount'[sab[f].worker]
    BY <1>1, <1>2 DEF Bounded
  <2>1. sab[f].worker \in Workers /\ sab[f].frame \in Int
    BY BoundAssumption DEF WebInv, TypeInv, Stamp, Workers
  <2>2. sab[f].frame <= frameCount[sab[f].worker]
    BY <1>2 DEF Bounded
  <2>3. /\ frameCount[sab[f].worker] \in Int /\ frameCount'[sab[f].worker] \in Int
        /\ frameCount'[sab[f].worker] >= frameCount[sab[f].worker]
    BY <1>4, <2>1
  <2> QED BY <2>1, <2>2, <2>3
<1>6. Flushed'
  <2>1. Fields \subseteq Header
    BY DEF Header
  <2> QED BY <1>1, <1>2, <1>4, <2>1 DEF Flushed, WebInv, TypeInv
<1> QED BY <1>3, <1>5, <1>6

LEMMA FenceOther ==
  ASSUME WebInv, FenceInv,
         UNCHANGED <<made, reading, seen, frameCount, sab, overlap>>,
         \A v \in Workers : (Running(v)' => Running(v)) /\ pending'[v] \in {pending[v], {}}
  PROVE  FenceInv'
BY DEF FenceInv, Alone, Bounded, Fenced, Flushed, Kept

LEMMA FenceNext == WebInv /\ FenceInv /\ [Next]_vars => FenceInv'
<1> SUFFICES ASSUME WebInv, FenceInv, [Next]_vars PROVE FenceInv'
  OBVIOUS
<1>1. CASE Disconnect \/ UNCHANGED vars
  BY <1>1, FenceOther
  DEF Disconnect, vars, mainVars, readVars, linkVars, frameVars, Running
<1>2. CASE Destroy
  <2>1. /\ worker \in Workers /\ life[worker] = "alive"
        /\ life' = [life EXCEPT ![worker] = IF pending[worker] = {} THEN "dead" ELSE "dying"]
        /\ UNCHANGED <<made, reading, seen, frameCount, pending, sab, overlap>>
    BY <1>2, BoundAssumption
    DEF Destroy, Terminate, readVars, frameVars, WebInv, TypeInv, LifeInv, Workers
  <2> QED BY <2>1, FenceOther DEF Running, WebInv, TypeInv
<1>3. ASSUME NEW w \in Workers, Handle(w) \/ StartSocket(w) \/ StartFails(w)
                                  \/ CloseSocket(w) \/ Opened(w) \/ Ended(w) \/ Failed(w)
      PROVE  FenceInv'
  <2>1. UNCHANGED <<made, reading, seen, life, frameCount, pending, sab, overlap>>
    BY <1>3 DEF Handle, StartSocket, StartFails, CloseSocket, Opened, Ended, Failed,
                mainVars, readVars, linkVars, frameVars
  <2> QED BY <2>1, FenceOther DEF Running
<1>4. ASSUME NEW w \in Workers, Die(w) PROVE FenceInv'
  <2>1. /\ life[w] = "dying" /\ life' = [life EXCEPT ![w] = "dead"]
        /\ pending' = [pending EXCEPT ![w] = {}]
        /\ UNCHANGED <<made, reading, seen, frameCount, sab, overlap>>
    BY <1>4 DEF Die, mainVars, readVars
  <2> QED BY <2>1, FenceOther DEF Running, WebInv, TypeInv
<1> QED
  BY <1>1, <1>2, <1>3, <1>4, FenceConnect, FenceRead, FenceInit, FenceWrite, FenceFrame
  DEF Next, React

-----------------------------------------------------------------------------
(***************************************************************************)
(* The theorems.                                                           *)
(***************************************************************************)

\* The state keeps its types, and the variable ws is set only for a WebSocket in
\* use.
THEOREM TypeCorrect == Spec => []TypeOK
<1>1. WebInv => TypeOK
  BY BoundAssumption DEF WebInv, TypeInv, SocketInv, TypeOK
<1> QED BY <1>1, WebInvariant, PTL

\* The connected flag tells the truth once the worker's messages have been handled.
THEOREM FlagTellsTruth == Spec => []FlagSettles
<1>1. Init => FlagInv
  BY DEF Init, FlagInv
<1>2. WebInv /\ FlagInv => FlagSettles
  BY DEF FlagInv, FlagSettles, Quiet, LastWord
<1> QED BY <1>1, <1>2, FlagNext, WebInvariant, PTL DEF Spec

\* The sequence number, stored last, releases the words of its frame: a reader
\* that has seen it finds the count and each half of the time stamp from that frame
\* or from a later one, the three not necessarily from the same.
THEOREM FenceHolds == Spec => []ReleaseFence
<1>1. Init => FenceInv
  <2> SUFFICES ASSUME Init PROVE Alone /\ Bounded /\ Fenced /\ Flushed /\ Kept
    BY DEF FenceInv
  <2> QED BY DEF Init, Alone, Bounded, Fenced, Flushed, Kept, Running, Zero, Header
<1>2. WebInv /\ FenceInv => ReleaseFence
  BY DEF WebInv, TypeInv, FenceInv, Kept, ReleaseFence, Fields
<1> QED BY <1>1, <1>2, FenceNext, WebInvariant, PTL DEF Spec

=============================================================================
