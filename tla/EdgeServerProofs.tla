-------------------------- MODULE EdgeServerProofs --------------------------
(***************************************************************************)
(* Theorems about EdgeServer for every set of connections, every frame,    *)
(* every viewport, every channel capacity and any number of broadcasts.    *)
(***************************************************************************)
EXTENDS EdgeServer, FiniteSetTheorems, SequenceTheorems, TLAPS

(***************************************************************************)
(* Type correctness.                                                       *)
(***************************************************************************)

\* Entering records of the right type keeps a map of sequence numbers one.
LEMMA EnterType ==
  ASSUME NEW map \in SeqMap, NEW f, f.recs \subseteq Record
  PROVE  Enter(map, f) \in SeqMap
<1>1. ASSUME NEW e \in Entities
      PROVE  (IF \E r \in f.recs : r.id = e
              THEN (CHOOSE r \in f.recs : r.id = e).seq ELSE map[e])
             \in Nat \cup {Absent}
  <2>1. CASE \E r \in f.recs : r.id = e
    <3>1. (CHOOSE r \in f.recs : r.id = e) \in f.recs
      BY <2>1
    <3>2. (CHOOSE r \in f.recs : r.id = e).seq \in Nat
      BY <3>1 DEF Record
    <3> QED BY <2>1, <3>2
  <2>2. CASE ~ \E r \in f.recs : r.id = e
    BY <2>2 DEF SeqMap
  <2> QED BY <2>1, <2>2
<1> QED BY <1>1 DEF Enter, SeqMap

\* The records a client is sent are records of the frame.
LEMMA MatchedSubset ==
  ASSUME NEW f, NEW vp, NEW map
  PROVE  Matched(f, vp, map) \subseteq f.recs
BY DEF Matched

LEMMA TypeInit == Init => TypeOK
<1> SUFFICES ASSUME Init PROVE TypeOK
  OBVIOUS
<1>1. NoOut \in OutFrame /\ EmptyMap \in SeqMap
  BY DEF NoOut, OutFrame, EmptyMap, SeqMap
<1>2. frame \in Frame
  BY DEF Init, Frame
<1>3. \A c \in Conns : chan[c] = <<>> /\ Len(chan[c]) <= MaxBufferFrames
  BY SizeAssumption DEF Init
<1>4. chan \in [Conns -> Seq(OutFrame)]
  BY DEF Init
<1>5. clientCount \in Int /\ tick \in Nat
  BY DEF Init
<1>6. /\ taken \in [Conns -> Nat] /\ wrote \in [Conns -> Nat]
      /\ enq \in [Conns -> Nat] /\ lost \in [Conns -> Nat]
      /\ cfgTick \in [Conns -> Nat] /\ born \in [Conns -> Nat]
  BY DEF Init
<1> QED
  BY <1>1, <1>2, <1>3, <1>4, <1>5, <1>6 DEF Init, TypeOK, HandlerStates

\* A step of a connection's own goroutines or of its peer.
LEMMA TypeConn ==
  ASSUME TypeOK, NEW c \in Conns,
         \/ Upgrade(c) \/ StoreClient(c) \/ CountUp(c) \/ OpenStream(c)
         \/ WriteOK(c) \/ WriteErr(c) \/ PumpEnd(c) \/ DeleteClient(c)
         \/ CountDown(c) \/ CloseConn(c) \/ ReadErr(c) \/ Disconnect(c)
  PROVE  TypeOK'
<1> USE DEF TypeOK, Goto, beyondConn, registry, pumps, filters, range, sent,
            HandlerStates
<1>1. CASE Upgrade(c)      BY <1>1 DEF Upgrade
<1>2. CASE StoreClient(c)
  <2>1. clients' \subseteq Conns
    BY <1>2 DEF StoreClient
  <2> QED BY <1>2, <2>1 DEF StoreClient
<1>3. CASE CountUp(c)
  <2>1. clientCount' \in Int
    BY <1>3 DEF CountUp
  <2> QED BY <1>3, <2>1 DEF CountUp
<1>4. CASE OpenStream(c)   BY <1>4 DEF OpenStream
<1>5. CASE WriteOK(c)      BY <1>5 DEF WriteOK
<1>6. CASE WriteErr(c)     BY <1>6 DEF WriteErr
<1>7. CASE PumpEnd(c)      BY <1>7 DEF PumpEnd
<1>8. CASE DeleteClient(c)
  <2>1. clients' \subseteq Conns
    BY <1>8 DEF DeleteClient
  <2> QED BY <1>8, <2>1 DEF DeleteClient
<1>9. CASE CountDown(c)
  <2>1. clientCount' \in Int
    BY <1>9 DEF CountDown
  <2> QED BY <1>9, <2>1 DEF CountDown
<1>10. CASE CloseConn(c)   BY <1>10 DEF CloseConn
<1>11. CASE ReadErr(c)     BY <1>11 DEF ReadErr
<1>12. CASE Disconnect(c)  BY <1>12 DEF Disconnect
<1> QED
  BY <1>1, <1>2, <1>3, <1>4, <1>5, <1>6, <1>7, <1>8, <1>9, <1>10, <1>11, <1>12

LEMMA TypeTakeFrame ==
  ASSUME TypeOK, NEW c \in Conns, TakeFrame(c)
  PROVE  TypeOK'
<1>1. /\ chan[c] \in Seq(OutFrame) /\ chan[c] # <<>>
      /\ Len(chan[c]) <= MaxBufferFrames
  BY DEF TypeOK, TakeFrame
<1>2. Head(chan[c]).tick \in Nat
  <2>1. Head(chan[c]) \in OutFrame
    BY <1>1
  <2> QED BY <2>1 DEF OutFrame
<1>3. Tail(chan[c]) \in Seq(OutFrame) /\ Len(Tail(chan[c])) <= MaxBufferFrames
  BY <1>1, SizeAssumption
<1>4. /\ chan' \in [Conns -> Seq(OutFrame)]
      /\ \A d \in Conns : Len(chan'[d]) <= MaxBufferFrames
      /\ taken' \in [Conns -> Nat]
  BY <1>2, <1>3 DEF TypeOK, TakeFrame
<1> QED
  BY <1>4 DEF TypeOK, TakeFrame, Goto, beyondConn, registry, filters, range,
              sent, HandlerStates

LEMMA TypeMessages ==
  ASSUME TypeOK, NEW c \in Conns,
         Unsubscribe(c) \/ \E v \in Viewports : Subscribe(c, v)
  PROVE  TypeOK'
<1> USE DEF TypeOK, Receive, beyondConn, registry, pumps, range, sent
<1>1. EmptyMap \in SeqMap
  BY DEF EmptyMap, SeqMap
<1>2. CASE Unsubscribe(c)
  BY <1>2 DEF Unsubscribe, Unsubscribed
<1>3. ASSUME NEW v \in Viewports, Subscribe(c, v)
      PROVE  TypeOK'
  <2>1. viewport' \in [Conns -> Viewports \cup {NoViewport}]
    BY <1>3 DEF Subscribe
  <2>2. cfgTick' \in [Conns -> Nat]
    BY <1>3 DEF Subscribe
  <2>3. \/ UNCHANGED <<lastSent, born>>
        \/ /\ lastSent' = [lastSent EXCEPT ![c] = EmptyMap]
           /\ born' = [born EXCEPT ![c] = tick]
    BY <1>3 DEF Subscribe
  <2>4. lastSent' \in [Conns -> SeqMap \cup {NoMap}]
    <3>1. ASSUME NEW S, NEW f \in [Conns -> S], NEW x \in S
          PROVE  [f EXCEPT ![c] = x] \in [Conns -> S]
      OBVIOUS
    <3>2. EmptyMap \in SeqMap \cup {NoMap}
      BY <1>1
    <3> QED BY ZenonT(60), <2>3, <3>1, <3>2
  <2>5. born' \in [Conns -> Nat]
    BY ZenonT(60), <2>3
  <2> QED BY <1>3, <2>1, <2>2, <2>4, <2>5 DEF Subscribe
<1> QED BY <1>2, <1>3

LEMMA TypeStop == TypeOK /\ Stop => TypeOK'
<1> SUFFICES ASSUME TypeOK, Stop PROVE TypeOK'
  OBVIOUS
<1>1. stopped' \in BOOLEAN
  BY DEF Stop
<1>2. link' \in [Conns -> {"up", "down", "closed"}]
  BY DEF Stop, TypeOK
<1> QED
  BY <1>1, <1>2 DEF TypeOK, Stop, registry, pumps, filters, range, sent

\* A step of the broadcaster outside the callback.
LEMMA TypeRange ==
  ASSUME TypeOK, StartBroadcast \/ FinishBroadcast \/ \E c \in Conns : Visit(c)
  PROVE  TypeOK'
<1> USE DEF TypeOK, registry, pumps, sent, range, beyondRange
<1>1. CASE StartBroadcast
  <2>1. frame' \in Frame /\ tick' \in Nat
    BY <1>1, FrameAssumption DEF StartBroadcast
  <2> QED BY <1>1, <2>1 DEF StartBroadcast
<1>2. CASE FinishBroadcast
  BY <1>2 DEF FinishBroadcast
<1>3. ASSUME NEW c \in Conns, Visit(c)
      PROVE  TypeOK'
  <2>1. visited' \subseteq Conns
    BY <1>3 DEF Visit
  <2> QED BY <1>3, <2>1 DEF Visit
<1> QED BY <1>1, <1>2, <1>3

\* A step of the Range callback.
LEMMA TypeCallback ==
  ASSUME TypeOK, Filter \/ RecordSent \/ SendPanic \/ SendFrame \/ DropFrame
  PROVE  TypeOK'
<1> USE DEF TypeOK, registry, pumps, sent, range, beyondRange
<1>0. NoOut \in OutFrame
  BY DEF NoOut, OutFrame
<1>1. CASE Filter
  <2>1. /\ Matched(frame, viewport[cur], lastSent[cur]) \subseteq Record
        /\ frame.recs \subseteq Record
    BY MatchedSubset DEF Frame
  <2>2. out' \in OutFrame
    <3>1. ASSUME NEW b \in BOOLEAN, NEW s \in SUBSET Record
          PROVE  [tick |-> tick, full |-> b, recs |-> s] \in OutFrame
      BY DEF OutFrame
    <3>2. CASE viewport[cur] = NoViewport /\ lastSent[cur] = NoMap
      BY ZenonT(60), <1>1, <2>1, <3>1, <3>2 DEF Filter
    <3>3. CASE ~(viewport[cur] = NoViewport /\ lastSent[cur] = NoMap)
      BY <1>0, <1>1, <2>1, <3>1, <3>3 DEF Filter
    <3> QED BY <3>2, <3>3
  <2>3. bpc' \in {"ranging", "recording", "sending"}
    BY <1>1 DEF Filter, Continue
  <2> QED BY <1>1, <2>2, <2>3 DEF Filter
<1>2. CASE RecordSent
  <2>1. out.recs \subseteq Record
    BY DEF OutFrame
  <2>2. lastSent' \in [Conns -> SeqMap \cup {NoMap}]
    BY <1>2, <2>1, EnterType DEF RecordSent, Recorded
  <2> QED BY <1>2, <2>2 DEF RecordSent
<1>3. CASE SendPanic
  BY <1>3 DEF SendPanic
<1>4. CASE SendFrame
  <2>1. out.recs \subseteq Record
    BY DEF OutFrame
  <2>2. view' \in [Conns -> SeqMap]
    BY <1>4, <2>1, EnterType DEF SendFrame
  <2>3. /\ Append(chan[cur], out) \in Seq(OutFrame)
        /\ Len(Append(chan[cur], out)) <= MaxBufferFrames
    BY <1>4, SizeAssumption DEF SendFrame, HasRoom
  <2>4. /\ chan' \in [Conns -> Seq(OutFrame)]
        /\ \A c \in Conns : Len(chan'[c]) <= MaxBufferFrames
    BY <1>4, <2>3 DEF SendFrame
  <2> QED BY <1>0, <1>4, <2>2, <2>4 DEF SendFrame, Continue
<1>5. CASE DropFrame
  BY <1>0, <1>5 DEF DropFrame, Continue
<1> QED BY <1>1, <1>2, <1>3, <1>4, <1>5

LEMMA TypeNext == TypeOK /\ [Next]_vars => TypeOK'
<1> SUFFICES ASSUME TypeOK, [Next]_vars PROVE TypeOK'
  OBVIOUS
<1>1. CASE UNCHANGED vars
  BY <1>1 DEF TypeOK, vars, beyondConn, registry, pumps, filters, range, sent
<1>2. CASE Next
  BY <1>2, TypeConn, TypeTakeFrame, TypeMessages, TypeStop, TypeRange,
     TypeCallback DEF Next, Handler, Broadcaster
<1> QED BY <1>1, <1>2

\* The server's state keeps its types in every behaviour.
THEOREM TypeCorrect == Spec => []TypeOK
BY TypeInit, TypeNext, PTL DEF Spec

-----------------------------------------------------------------------------
(***************************************************************************)
(* The client count.  CountMatchesRegistry is not inductive: it does not   *)
(* say that a client is in the registry while its handler is between Store *)
(* and Delete, nor counted between the two Adds.  CountInv does.           *)
(***************************************************************************)

In(states) == {c \in Conns : hpc[c] \in states}

CountInv == clients = In(Registered) /\ clientCount = Cardinality(In(Counted))

\* A handler that moves between two states moves its connection between the
\* sets of connections these states belong to, and no other connection.
LEMMA GotoIn ==
  ASSUME TypeOK, NEW c \in Conns, NEW from, NEW to, NEW states,
         Goto(c, from, to)
  PROVE  /\ from \in states <=> c \in In(states)
         /\ In(states)' = IF to \in states THEN In(states) \cup {c}
                                           ELSE In(states) \ {c}
BY DEF TypeOK, Goto, In

\* Steps that do not move a handler.
LEMMA CountSame ==
  ASSUME CountInv, UNCHANGED <<clients, clientCount, hpc>>
  PROVE  CountInv'
BY DEF CountInv, In

\* Steps that move a handler and neither register nor count it.
LEMMA CountGoto ==
  ASSUME TypeOK, CountInv, NEW c \in Conns, NEW from, NEW to,
         Goto(c, from, to), UNCHANGED <<clients, clientCount>>,
         from \in Registered <=> to \in Registered,
         from \in Counted <=> to \in Counted
  PROVE  CountInv'
<1>1. In(Registered)' = In(Registered) /\ In(Counted)' = In(Counted)
  BY GotoIn
<1> QED BY <1>1 DEF CountInv

LEMMA HandlerMembership ==
  /\ \A s \in {"idle", "upgraded", "deleted", "uncounted", "gone"} :
       s \notin Registered
  /\ \A s \in {"stored", "opening", "pumping", "writing", "cleanup"} :
       s \in Registered
  /\ \A s \in {"idle", "upgraded", "stored", "uncounted", "gone"} : s \notin Counted
  /\ \A s \in {"opening", "pumping", "writing", "cleanup", "deleted"} : s \in Counted
BY DEF Registered, Counted

LEMMA CountHandler ==
  ASSUME TypeOK, CountInv, NEW c \in Conns,
         Upgrade(c) \/ Handler(c) \/ WriteOK(c) \/ WriteErr(c)
  PROVE  CountInv'
<1> USE HandlerMembership DEF registry
<1>0. IsFiniteSet(In(Counted)) /\ Cardinality(In(Counted)) \in Nat
  BY ConnsAssumption, FS_Subset, FS_CardinalityType DEF In
<1>1. CASE Upgrade(c)
  BY <1>1, CountGoto DEF Upgrade
<1>2. CASE StoreClient(c)
  <2>1. Goto(c, "upgraded", "stored")
    BY <1>2 DEF StoreClient
  <2>2. In(Registered)' = In(Registered) \cup {c}
    BY <2>1, GotoIn
  <2>3. In(Counted)' = In(Counted) \ {c} /\ c \notin In(Counted)
    BY <2>1, GotoIn
  <2>4. In(Counted)' = In(Counted)
    BY <2>3
  <2> QED BY <1>2, <2>2, <2>4 DEF StoreClient, CountInv
<1>3. CASE CountUp(c)
  <2>1. PICK to \in {"pumping", "opening"} : Goto(c, "stored", to)
    BY <1>3 DEF CountUp
  <2>2. In(Registered)' = In(Registered) \cup {c} /\ c \in In(Registered)
    BY <2>1, GotoIn
  <2>3. In(Counted)' = In(Counted) \cup {c} /\ c \notin In(Counted)
    BY <2>1, GotoIn
  <2>4. Cardinality(In(Counted)') = Cardinality(In(Counted)) + 1
    BY <1>0, <2>3, FS_AddElement
  <2>5. clients' = In(Registered)'
    BY <1>3, <2>2 DEF CountUp, CountInv
  <2> QED BY <1>3, <2>4, <2>5 DEF CountUp, CountInv
<1>4. CASE OpenStream(c)
  BY <1>4, CountGoto DEF OpenStream
<1>5. CASE TakeFrame(c)
  BY <1>5, CountGoto DEF TakeFrame
<1>6. CASE WriteOK(c)
  BY <1>6, CountGoto DEF WriteOK
<1>7. CASE WriteErr(c)
  BY <1>7, CountGoto DEF WriteErr
<1>8. CASE PumpEnd(c)
  BY <1>8, CountGoto DEF PumpEnd
<1>9. CASE DeleteClient(c)
  <2>1. Goto(c, "cleanup", "deleted")
    BY <1>9 DEF DeleteClient
  <2>2. In(Registered)' = In(Registered) \ {c}
    BY <2>1, GotoIn
  <2>3. In(Counted)' = In(Counted) \cup {c} /\ c \in In(Counted)
    BY <2>1, GotoIn
  <2>4. In(Counted)' = In(Counted)
    BY <2>3
  <2> QED BY <1>9, <2>2, <2>4 DEF DeleteClient, CountInv
<1>10. CASE CountDown(c)
  <2>1. Goto(c, "deleted", "uncounted")
    BY <1>10 DEF CountDown
  <2>2. In(Registered)' = In(Registered) \ {c} /\ c \notin In(Registered)
    BY <2>1, GotoIn
  <2>3. In(Counted)' = In(Counted) \ {c} /\ c \in In(Counted)
    BY <2>1, GotoIn
  <2>4. Cardinality(In(Counted)') = Cardinality(In(Counted)) - 1
    BY <1>0, <2>3, FS_RemoveElement
  <2>5. clients' = In(Registered)'
    BY <1>10, <2>2 DEF CountDown, CountInv
  <2> QED BY <1>10, <2>4, <2>5 DEF CountDown, CountInv
<1>11. CASE CloseConn(c)
  BY <1>11, CountGoto DEF CloseConn
<1> QED
  BY <1>1, <1>2, <1>3, <1>4, <1>5, <1>6, <1>7, <1>8, <1>9, <1>10, <1>11
  DEF Handler

LEMMA CountNext == TypeOK /\ CountInv /\ [Next]_vars => CountInv'
<1> SUFFICES ASSUME TypeOK, CountInv, [Next]_vars PROVE CountInv'
  OBVIOUS
<1>1. ASSUME NEW c \in Conns,
             \/ ReadErr(c) \/ Disconnect(c) \/ Unsubscribe(c)
             \/ \E v \in Viewports : Subscribe(c, v)
      PROVE  UNCHANGED <<clients, clientCount, hpc>>
  BY <1>1 DEF ReadErr, Disconnect, Unsubscribe, Subscribe, Receive, registry
<1>2. CASE StartBroadcast \/ Broadcaster
  BY <1>2, CountSame
  DEF StartBroadcast, Broadcaster, Visit, Filter, RecordSent, SendPanic,
      SendFrame, DropFrame, FinishBroadcast, beyondRange, registry
<1>3. CASE Stop
  BY <1>3, CountSame DEF Stop, registry
<1>4. CASE UNCHANGED vars
  BY <1>4, CountSame DEF vars, registry
<1> QED BY <1>1, <1>2, <1>3, <1>4, CountSame, CountHandler DEF Next

\* Whatever registrations, failures and cleanups overlap, the count reported
\* by /health is the number of connections whose handler is between the two
\* Adds, and the registry holds exactly those between Store and Delete.
THEOREM CountInvariant == Spec => []CountInv
<1>1. Init => CountInv
  <2> SUFFICES ASSUME Init PROVE CountInv
    OBVIOUS
  <2>1. In(Registered) = {} /\ In(Counted) = {}
    BY DEF Init, In, Registered, Counted
  <2> QED BY <2>1, FS_EmptySet DEF Init, CountInv
<1> QED BY <1>1, CountNext, TypeCorrect, PTL DEF Spec

\* The count differs from the size of the registry exactly by the handlers
\* that are half-way through registering or removing their client.
THEOREM CountCorrect == Spec => []CountMatchesRegistry
<1>1. TypeOK /\ CountInv => CountMatchesRegistry
  <2> SUFFICES ASSUME TypeOK, CountInv PROVE CountMatchesRegistry
    OBVIOUS
  <2> DEFINE both == In({"opening", "pumping", "writing", "cleanup"})
  <2>1. /\ In(Registered) = both \cup In({"stored"})
        /\ In(Counted) = both \cup In({"deleted"})
        /\ both \cap In({"stored"}) = {} /\ both \cap In({"deleted"}) = {}
    BY DEF In, Registered, Counted
  <2>2. /\ IsFiniteSet(both) /\ IsFiniteSet(In({"stored"}))
        /\ IsFiniteSet(In({"deleted"}))
    BY ConnsAssumption, FS_Subset DEF In
  <2>3. /\ Cardinality(both) \in Nat /\ Cardinality(In({"stored"})) \in Nat
        /\ Cardinality(In({"deleted"})) \in Nat
    BY <2>2, FS_CardinalityType
  <2> HIDE DEF both
  <2>4. Cardinality(In(Registered)) = Cardinality(both) + Cardinality(In({"stored"}))
    <3>1. Cardinality(both \cup In({"stored"}))
          = Cardinality(both) + Cardinality(In({"stored"})) - Cardinality({})
      BY <2>1, <2>2, FS_Union
    <3> QED BY <2>1, <2>3, <3>1, FS_EmptySet
  <2>5. Cardinality(In(Counted)) = Cardinality(both) + Cardinality(In({"deleted"}))
    <3>1. Cardinality(both \cup In({"deleted"}))
          = Cardinality(both) + Cardinality(In({"deleted"})) - Cardinality({})
      BY <2>1, <2>2, FS_Union
    <3> QED BY <2>1, <2>3, <3>1, FS_EmptySet
  <2>6. /\ In({"stored"}) = {c \in Conns : hpc[c] = "stored"}
        /\ In({"deleted"}) = {c \in Conns : hpc[c] = "deleted"}
    BY DEF In
  <2>7. /\ Cardinality(clients) = Cardinality(both) + Cardinality(In({"stored"}))
        /\ clientCount = Cardinality(both) + Cardinality(In({"deleted"}))
    BY <2>4, <2>5 DEF CountInv
  <2>8. clientCount = Cardinality(clients) - Cardinality(In({"stored"}))
                      + Cardinality(In({"deleted"}))
    BY <2>3, <2>7
  <2> QED BY <2>6, <2>8 DEF CountMatchesRegistry
<1> QED BY <1>1, CountInvariant, TypeCorrect, PTL

-----------------------------------------------------------------------------
(***************************************************************************)
(* The order of frames.                                                    *)
(***************************************************************************)

orderVars == <<chan, taken, wrote, enq, tick, bpc, visited, cur, out>>

\* Steps that do not touch frames and put no frame into a write pump's hands.
LEMMA OrderSame ==
  ASSUME OrderInv, UNCHANGED orderVars,
         \A c \in Conns : hpc'[c] = "writing" => hpc[c] = "writing"
  PROVE  OrderInv'
BY DEF OrderInv, OrderConn, OrderRange, orderVars

LEMMA OrderTakeFrame ==
  ASSUME TypeOK, OrderInv, NEW c \in Conns, TakeFrame(c)
  PROVE  OrderInv'
<1>1. UNCHANGED <<wrote, enq, tick, bpc, visited, cur, out>>
  BY DEF TakeFrame, beyondConn, sent, range
<1>2. OrderRange'
  BY <1>1 DEF OrderInv, OrderRange
<1>3. ASSUME NEW d \in Conns, d # c
      PROVE  OrderConn(d)'
  <2>1. hpc'[d] = hpc[d] /\ chan'[d] = chan[d] /\ taken'[d] = taken[d]
    BY <1>3 DEF TakeFrame, Goto, TypeOK
  <2> QED BY <1>1, <2>1 DEF OrderInv, OrderConn
<1>4. OrderConn(c)'
  <2> DEFINE q == chan[c]
  <2>1. /\ q \in Seq(OutFrame) /\ q # <<>> /\ Len(q) \in Nat /\ Len(q) > 0
        /\ chan'[c] = Tail(q) /\ taken'[c] = q[1].tick
    BY SMTT(30) DEF TakeFrame, TypeOK
  <2>2. /\ Len(Tail(q)) = Len(q) - 1
        /\ \A i \in 1 .. Len(Tail(q)) : Tail(q)[i] = q[i + 1] /\ i + 1 \in 1 .. Len(q)
    BY <2>1
  <2>3. OrderConn(c)
    BY DEF OrderInv
  <2>4. \A i, j \in 1 .. Len(q) : i < j => q[i].tick < q[j].tick
    BY <2>3 DEF OrderConn
  <2>5. \A i \in 1 .. Len(q) : taken[c] < q[i].tick /\ q[i].tick <= enq[c]
    BY <2>3 DEF OrderConn
  <2>6. \A i \in 1 .. Len(q) : q[i].tick \in Nat
    <3>1. \A i \in 1 .. Len(q) : q[i] \in OutFrame
      BY <2>1
    <3> QED BY <3>1 DEF OutFrame
  <2>7. taken[c] \in Nat /\ wrote[c] \in Nat /\ enq[c] \in Nat
    BY DEF TypeOK
  <2> HIDE DEF q
  <2>8. 1 \in 1 .. Len(q)
    BY <2>1
  <2>9. wrote[c] < taken'[c] /\ taken'[c] <= enq[c]
    BY <2>1, <2>3, <2>5, <2>6, <2>7, <2>8 DEF OrderConn
  <2>10. \A i, j \in 1 .. Len(Tail(q)) :
           i < j => Tail(q)[i].tick < Tail(q)[j].tick
    BY <2>1, <2>2, <2>4
  <2>11. \A i \in 1 .. Len(Tail(q)) :
           taken'[c] < Tail(q)[i].tick /\ Tail(q)[i].tick <= enq[c]
    BY <2>1, <2>2, <2>4, <2>5, <2>8
  <2>12. wrote[c] <= taken'[c] /\ taken'[c] \in Nat
    BY <2>1, <2>6, <2>7, <2>8, <2>9
  <2> QED
    BY <1>1, <2>1, <2>3, <2>9, <2>10, <2>11, <2>12 DEF OrderConn
<1> QED BY <1>2, <1>3, <1>4 DEF OrderInv

LEMMA OrderWriteOK ==
  ASSUME TypeOK, OrderInv, NEW c \in Conns, WriteOK(c)
  PROVE  OrderInv'
<1>1. UNCHANGED <<chan, taken, enq, tick, bpc, visited, cur, out>>
  BY DEF WriteOK, beyondConn, sent, range
<1>2. OrderRange'
  BY <1>1 DEF OrderInv, OrderRange
<1>3. ASSUME NEW d \in Conns
      PROVE  OrderConn(d)'
  <2>1. /\ wrote'[d] = IF d = c THEN taken[d] ELSE wrote[d]
        /\ hpc'[d] = IF d = c THEN "pumping" ELSE hpc[d]
        /\ taken[d] \in Nat
    BY DEF WriteOK, Goto, TypeOK
  <2> QED BY <1>1, <2>1 DEF OrderInv, OrderConn
<1> QED BY <1>2, <1>3 DEF OrderInv

LEMMA OrderBroadcast ==
  ASSUME TypeOK, OrderInv,
         \/ StartBroadcast \/ FinishBroadcast \/ Filter \/ RecordSent
         \/ SendPanic \/ DropFrame \/ \E c \in Conns : Visit(c)
  PROVE  OrderInv'
<1>0. UNCHANGED <<chan, taken, wrote, enq, hpc>>
  BY DEF StartBroadcast, FinishBroadcast, Filter, RecordSent, SendPanic,
         DropFrame, Visit, beyondRange, pumps, sent
<1>1. CASE StartBroadcast
  <2>1. tick' = tick + 1 /\ tick \in Nat /\ bpc' = "ranging"
    BY <1>1 DEF StartBroadcast, TypeOK
  <2>2. \A c \in Conns : enq[c] \in Nat /\ enq[c] <= tick
    BY DEF OrderInv, OrderConn, TypeOK
  <2> QED BY <1>0, <2>1, <2>2 DEF OrderInv, OrderConn, OrderRange
<1>2. CASE FinishBroadcast
  BY <1>0, <1>2 DEF FinishBroadcast, range, OrderInv, OrderConn, OrderRange
<1>3. CASE Filter
  <2>1. UNCHANGED <<tick, visited, cur>> /\ bpc = "loaded"
    BY <1>3 DEF Filter, range
  <2>2. bpc' \in {"recording", "sending"} => out'.tick = tick
    BY <1>3 DEF Filter, Continue
  <2> QED BY <1>0, <2>1, <2>2 DEF OrderInv, OrderConn, OrderRange
<1>4. CASE RecordSent
  BY <1>0, <1>4 DEF RecordSent, range, OrderInv, OrderConn, OrderRange
<1>5. CASE SendPanic
  BY <1>0, <1>5 DEF SendPanic, range, OrderInv, OrderConn, OrderRange
<1>6. CASE DropFrame
  BY <1>0, <1>6 DEF DropFrame, Continue, range, OrderInv, OrderConn, OrderRange
<1>7. ASSUME NEW c \in Conns, Visit(c)
      PROVE  OrderInv'
  BY <1>0, <1>7 DEF Visit, Unvisited, OrderInv, OrderConn, OrderRange
<1> QED BY <1>1, <1>2, <1>3, <1>4, <1>5, <1>6, <1>7

LEMMA OrderSendFrame ==
  ASSUME TypeOK, OrderInv, SendFrame
  PROVE  OrderInv'
<1>1. UNCHANGED <<taken, wrote, hpc, tick, visited, cur>> /\ bpc' = "ranging"
  BY DEF SendFrame, beyondRange, pumps, range, Continue
<1>2. OrderRange'
  BY <1>1 DEF OrderRange
<1>3. ASSUME NEW d \in Conns, d # cur
      PROVE  OrderConn(d)'
  <2>1. chan'[d] = chan[d] /\ enq'[d] = enq[d] /\ bpc # "idle"
    BY <1>3 DEF SendFrame, TypeOK
  <2> QED BY <1>1, <2>1 DEF OrderInv, OrderConn
<1>4. OrderConn(cur)'
  <2> DEFINE q == chan[cur]
             r == Append(q, out)
  <2>1. /\ q \in Seq(OutFrame) /\ Len(q) \in Nat
        /\ chan'[cur] = r /\ enq'[cur] = tick
    BY DEF SendFrame, TypeOK
  <2>2. Len(r) = Len(q) + 1 /\ r[Len(q) + 1] = out
    BY <2>1
  <2>3. \A i \in 1 .. Len(q) : r[i] = q[i]
    BY <2>1
  <2>4. OrderConn(cur) /\ enq[cur] < tick /\ out.tick = tick /\ cur \in visited
    BY DEF OrderInv, OrderRange, SendFrame, TypeOK
  <2>5. /\ enq[cur] \in Nat /\ tick \in Nat /\ taken[cur] \in Nat
        /\ \A i \in 1 .. Len(q) : q[i].tick \in Nat
    <3>1. \A i \in 1 .. Len(q) : q[i] \in OutFrame
      BY <2>1
    <3> QED BY <3>1 DEF TypeOK, OutFrame
  <2>6. \A i \in 1 .. Len(q) :
          /\ taken[cur] < q[i].tick /\ q[i].tick <= enq[cur]
          /\ \A j \in 1 .. Len(q) : i < j => q[i].tick < q[j].tick
    BY <2>4 DEF OrderConn
  <2>7. taken[cur] <= enq[cur]
    BY <2>4 DEF OrderConn
  <2> HIDE DEF q, r
  <2>8. \A i \in 1 .. Len(r) :
          \/ i \in 1 .. Len(q) /\ r[i] = q[i]
          \/ i = Len(q) + 1 /\ r[i] = out
    BY <2>1, <2>2, <2>3
  <2>9. \A i \in 1 .. Len(r) : taken[cur] < r[i].tick /\ r[i].tick <= tick
    BY <2>4, <2>5, <2>6, <2>7, <2>8
  <2>10. \A i, j \in 1 .. Len(r) : i < j => r[i].tick < r[j].tick
    <3> SUFFICES ASSUME NEW i \in 1 .. Len(r), NEW j \in 1 .. Len(r), i < j
                 PROVE  r[i].tick < r[j].tick
      OBVIOUS
    <3>1. i \in 1 .. Len(q) /\ r[i] = q[i]
      BY <2>1, <2>2, <2>8
    <3>2. CASE j \in 1 .. Len(q) /\ r[j] = q[j]
      BY <2>6, <3>1, <3>2
    <3>3. CASE j = Len(q) + 1 /\ r[j] = out
      BY <2>4, <2>5, <2>6, <3>1, <3>3
    <3> QED BY <2>8, <3>2, <3>3
  <2>11. taken[cur] <= tick
    BY <2>4, <2>5, <2>7
  <2> QED
    BY <1>1, <2>1, <2>4, <2>5, <2>9, <2>10, <2>11 DEF OrderConn
<1>5. cur \in Conns
  BY DEF TypeOK
<1> QED BY <1>1, <1>2, <1>3, <1>4 DEF OrderInv

LEMMA OrderInit == Init => OrderInv
BY DEF Init, OrderInv, OrderConn, OrderRange

LEMMA OrderNext == TypeOK /\ OrderInv /\ [Next]_vars => OrderInv'
<1> SUFFICES ASSUME TypeOK, OrderInv, [Next]_vars PROVE OrderInv'
  OBVIOUS
<1>1. ASSUME NEW c \in Conns,
             \/ Upgrade(c) \/ StoreClient(c) \/ CountUp(c) \/ OpenStream(c)
             \/ WriteErr(c) \/ PumpEnd(c) \/ DeleteClient(c) \/ CountDown(c)
             \/ CloseConn(c) \/ ReadErr(c) \/ Disconnect(c) \/ Unsubscribe(c)
             \/ \E v \in Viewports : Subscribe(c, v)
      PROVE  OrderInv'
  <2>1. UNCHANGED orderVars
    BY <1>1
    DEF Upgrade, StoreClient, CountUp, OpenStream, WriteErr, PumpEnd,
        DeleteClient, CountDown, CloseConn, ReadErr, Disconnect, Unsubscribe,
        Subscribe, Receive, beyondConn, pumps, range, sent, orderVars
  <2>2. \A d \in Conns : hpc'[d] = "writing" => hpc[d] = "writing"
    BY <1>1
    DEF Upgrade, StoreClient, CountUp, OpenStream, WriteErr, PumpEnd,
        DeleteClient, CountDown, CloseConn, ReadErr, Disconnect, Unsubscribe,
        Subscribe, Receive, Goto, TypeOK
  <2> QED BY <2>1, <2>2, OrderSame
<1>2. CASE Stop
  BY <1>2, OrderSame DEF Stop, orderVars, pumps, range, sent
<1>3. CASE UNCHANGED vars
  BY <1>3, OrderSame DEF vars, beyondConn, orderVars, pumps, range, sent
<1>4. CASE StartBroadcast \/ Broadcaster
  BY <1>4, OrderBroadcast, OrderSendFrame DEF Broadcaster
<1> QED
  BY <1>1, <1>2, <1>3, <1>4, OrderTakeFrame, OrderWriteOK DEF Next, Handler

\* What is on its way to a client is in broadcast order, in every behaviour.
THEOREM OrderInvariant == Spec => []OrderInv
BY OrderInit, OrderNext, TypeCorrect, PTL DEF Spec

\* The only step that takes a handler from writing back to its loop is the
\* successful write.
LEMMA OnlyWriteDelivers ==
  ASSUME TypeOK, [Next]_vars, \A c \in Conns : ~WriteOK(c),
         NEW d \in Conns
  PROVE  ~Delivers(d)
<1> USE DEF Delivers
<1>1. ASSUME NEW c \in Conns, Handler(c) \/ Upgrade(c) \/ WriteErr(c)
      PROVE  ~Delivers(d)
  BY <1>1 DEF Handler, Upgrade, StoreClient, CountUp, OpenStream, TakeFrame,
       WriteErr, PumpEnd, DeleteClient, CountDown, CloseConn, Goto, TypeOK
<1>2. CASE UNCHANGED hpc
  BY <1>2
<1> QED
  BY <1>1, <1>2
  DEF Next, ReadErr, Disconnect, Unsubscribe, Subscribe, Receive, Stop,
      StartBroadcast, Broadcaster, Visit, Filter, RecordSent, SendPanic,
      SendFrame, DropFrame, FinishBroadcast, beyondRange, vars

\* No client receives a frame again or one older than it has, however its
\* goroutines, the broadcaster and the other clients interleave.
THEOREM DeliveredInOrder == Spec => DeliveryInOrder
<1>1. ASSUME TypeOK, OrderInv, [Next]_vars
      PROVE  [\A c \in Conns :
                Delivers(c) \/ wrote'[c] # wrote[c] => wrote'[c] > wrote[c]]_vars
  <2>1. ASSUME NEW c \in Conns, NEW d \in Conns, WriteOK(c),
               Delivers(d) \/ wrote'[d] # wrote[d]
        PROVE  wrote'[d] > wrote[d]
    BY <1>1, <2>1 DEF WriteOK, Goto, Delivers, TypeOK, OrderInv, OrderConn
  <2>2. CASE \A c \in Conns : ~WriteOK(c)
    <3>1. UNCHANGED wrote
      BY <1>1, <2>2
      DEF Next, Handler, Upgrade, StoreClient, CountUp, OpenStream, TakeFrame,
          WriteErr, PumpEnd, DeleteClient, CountDown, CloseConn, ReadErr,
          Disconnect, Unsubscribe, Subscribe, Receive, Stop, StartBroadcast,
          Broadcaster, Visit, Filter, RecordSent, SendPanic, SendFrame,
          DropFrame, FinishBroadcast, beyondRange, pumps, vars
    <3>2. \A d \in Conns : ~Delivers(d)
      BY <1>1, <2>2, OnlyWriteDelivers
    <3> QED BY <3>1, <3>2
  <2> QED BY <2>1, <2>2
<1> QED BY <1>1, OrderInvariant, TypeCorrect, PTL DEF Spec, DeliveryInOrder

-----------------------------------------------------------------------------
(***************************************************************************)
(* Who can panic the broadcaster.  Channels are closed by read pumps       *)
(* alone, which only WebSocket connections have, and a read fails only     *)
(* when the link is not up, which it never becomes again.  The server      *)
(* closes a link in the last step of its handler: by then the client is    *)
(* out of the registry, by CountInv.                                       *)
(***************************************************************************)

PanicInv ==
  /\ \A c \in Conns : rpc[c] # "none" => c \in WebSockets
  /\ \A c \in Conns : Closed(c) => link[c] # "up"
  /\ \A c \in Conns : link[c] = "closed" => hpc[c] = "gone"
  /\ bpc = "panicked" => Closed(cur)

\* Steps of a handler that leave its read pump alone.
LEMMA PanicSame ==
  ASSUME TypeOK, PanicInv, UNCHANGED <<rpc, bpc, cur>>,
         \A c \in Conns : link[c] # "up" => link'[c] # "up",
         \A c \in Conns : link'[c] = "closed" => hpc'[c] = "gone"
  PROVE  PanicInv'
BY DEF PanicInv, Closed, TypeOK

LEMMA PanicNext == TypeOK /\ PanicInv /\ [Next]_vars => PanicInv'
<1> SUFFICES ASSUME TypeOK, PanicInv, [Next]_vars PROVE PanicInv'
  OBVIOUS
<1>1. ASSUME NEW c \in Conns,
             \/ Upgrade(c) \/ StoreClient(c) \/ OpenStream(c) \/ TakeFrame(c)
             \/ WriteOK(c) \/ WriteErr(c) \/ PumpEnd(c) \/ DeleteClient(c)
             \/ CountDown(c) \/ CloseConn(c) \/ Disconnect(c) \/ Unsubscribe(c)
             \/ \E v \in Viewports : Subscribe(c, v)
      PROVE  PanicInv'
  <2>1. UNCHANGED <<rpc, bpc, cur>>
    BY <1>1
    DEF Upgrade, StoreClient, OpenStream, TakeFrame, WriteOK, WriteErr, PumpEnd,
        DeleteClient, CountDown, CloseConn, Disconnect, Unsubscribe, Subscribe,
        Receive, beyondConn, range
  <2>2. \A d \in Conns : link[d] # "up" => link'[d] # "up"
    BY <1>1
    DEF Upgrade, StoreClient, OpenStream, TakeFrame, WriteOK, WriteErr, PumpEnd,
        DeleteClient, CountDown, CloseConn, Disconnect, Unsubscribe, Subscribe,
        Receive, TypeOK
  <2>3. \A d \in Conns : link'[d] = "closed" => hpc'[d] = "gone"
    <3>1. CASE CloseConn(c)
      BY <3>1 DEF CloseConn, Goto, PanicInv, TypeOK
    <3>2. CASE ReadErr(c) \/ Disconnect(c) \/ Unsubscribe(c)
               \/ \E v \in Viewports : Subscribe(c, v)
      BY <3>2 DEF ReadErr, Disconnect, Unsubscribe, Subscribe, Receive, PanicInv,
                  TypeOK
    <3>3. CASE \/ Upgrade(c) \/ StoreClient(c) \/ OpenStream(c) \/ TakeFrame(c)
               \/ WriteOK(c) \/ WriteErr(c) \/ PumpEnd(c) \/ DeleteClient(c)
               \/ CountDown(c)
      <4>1. /\ UNCHANGED link /\ hpc[c] # "gone"
            /\ \A d \in Conns \ {c} : hpc'[d] = hpc[d]
        BY <3>3
        DEF Upgrade, StoreClient, OpenStream, TakeFrame, WriteOK, WriteErr,
            PumpEnd, DeleteClient, CountDown, Goto, TypeOK
      <4> QED BY <4>1 DEF PanicInv
    <3> QED BY <1>1, <3>1, <3>2, <3>3
  <2> QED BY <2>1, <2>2, <2>3, PanicSame
<1>2. ASSUME NEW c \in Conns, CountUp(c)
      PROVE  PanicInv'
  <2>1. UNCHANGED <<link, bpc, cur>> /\ hpc[c] = "stored"
    BY <1>2 DEF CountUp, Goto, beyondConn, range
  <2>2. \/ UNCHANGED rpc
        \/ c \in WebSockets /\ rpc' = [rpc EXCEPT ![c] = "reading"]
    BY <1>2 DEF CountUp
  <2>3. bpc # "panicked"
    <3>1. clientCount' # clientCount
      BY <1>2 DEF CountUp, TypeOK
    <3> QED BY <3>1 DEF Next, Alive, vars, registry
  <2>4. \A d \in Conns : link'[d] = "closed" => hpc'[d] = "gone"
    BY <1>2, <2>1 DEF CountUp, Goto, PanicInv, TypeOK
  <2>5. \A d \in Conns : (rpc'[d] # "none" => d \in WebSockets)
                         /\ (Closed(d)' => link'[d] # "up")
    BY <1>2, <2>1, <2>2 DEF CountUp, PanicInv, Closed, TypeOK
  <2> QED BY <2>1, <2>3, <2>4, <2>5 DEF PanicInv
<1>3. ASSUME NEW c \in Conns, ReadErr(c)
      PROVE  PanicInv'
  <2>1. /\ UNCHANGED <<link, hpc, bpc, cur>> /\ link[c] # "up"
        /\ rpc[c] = "reading" /\ rpc' = [rpc EXCEPT ![c] = "ended"]
    BY <1>3 DEF ReadErr, ReadFails, beyondConn, range
  <2>2. \A d \in Conns : (rpc'[d] # "none" => d \in WebSockets)
                         /\ (Closed(d)' => link[d] # "up")
    BY <2>1 DEF PanicInv, Closed, TypeOK
  <2>3. bpc = "panicked" => Closed(cur)'
    BY <2>1 DEF PanicInv, Closed, TypeOK
  <2> QED BY <2>1, <2>2, <2>3 DEF PanicInv
<1>4. CASE Stop
  <2>1. \A c \in Conns : /\ link[c] # "up" => link'[c] # "up"
                         /\ link'[c] = "closed" => hpc'[c] = "gone"
    BY <1>4 DEF Stop, PanicInv, TypeOK
  <2> QED BY <1>4, <2>1, PanicSame DEF Stop, range
<1>5. CASE StartBroadcast \/ Broadcaster
  <2>1. UNCHANGED <<link, hpc, rpc>>
    BY <1>5
    DEF StartBroadcast, Broadcaster, Visit, Filter, RecordSent, SendPanic,
        SendFrame, DropFrame, FinishBroadcast, beyondRange
  <2>2. bpc' = "panicked" => Closed(cur) /\ UNCHANGED cur
    BY <1>5
    DEF StartBroadcast, Broadcaster, Visit, Filter, RecordSent, SendPanic,
        SendFrame, DropFrame, FinishBroadcast, Continue, range
  <2> QED BY <2>1, <2>2 DEF PanicInv, Closed
<1>6. CASE UNCHANGED vars
  <2>1. UNCHANGED <<link, hpc, rpc, bpc, cur>>
    BY <1>6 DEF vars, beyondConn, range
  <2> QED BY <2>1 DEF PanicInv, Closed
<1> QED BY <1>1, <1>2, <1>3, <1>4, <1>5, <1>6 DEF Next, Handler

\* A broadcast that panics does so on the channel of a WebSocket client whose
\* peer has gone, or that its handler has removed and hung up on after the
\* write deadline while the broadcaster still held it.
THEOREM PanicNeedsLeavingClient == Spec => []OnlyLeavingClientsPanic
<1>1. Init => PanicInv
  BY DEF Init, PanicInv, Closed
<1>2. TypeOK /\ CountInv /\ PanicInv => OnlyLeavingClientsPanic
  <2> SUFFICES ASSUME TypeOK, CountInv, PanicInv, bpc = "panicked"
               PROVE  /\ cur \in WebSockets
                      /\ \/ link[cur] = "down"
                         \/ link[cur] = "closed" /\ cur \notin clients
    BY DEF OnlyLeavingClientsPanic
  <2>1. cur \in Conns /\ Closed(cur) /\ link[cur] \in {"down", "closed"}
    BY DEF TypeOK, PanicInv
  <2>2. cur \in WebSockets
    BY <2>1 DEF PanicInv, Closed
  <2>3. link[cur] = "closed" => cur \notin clients
    BY <2>1, HandlerMembership DEF PanicInv, CountInv, In
  <2> QED BY <2>1, <2>2, <2>3
<1> QED BY <1>1, <1>2, PanicNext, TypeCorrect, CountInvariant, PTL DEF Spec

-----------------------------------------------------------------------------
(***************************************************************************)
(* The refinement.  EdgeServer implements LossyFeed: whatever the          *)
(* handlers, the read pumps, the broadcaster and the other clients do,     *)
(* each client sees the abstract feed.  The invariants the steps need are  *)
(* type correctness and the order of the frames.                           *)
(***************************************************************************)

(***************************************************************************)
(* What is in flight, as sequences of broadcast numbers.                   *)
(***************************************************************************)

LEMMA TicksType ==
  ASSUME NEW s \in Seq(OutFrame)
  PROVE  /\ Ticks(s) \in Seq(Nat) /\ Len(Ticks(s)) = Len(s)
         /\ \A i \in 1 .. Len(s) : Ticks(s)[i] = s[i].tick /\ s[i].tick \in Nat
<1>1. \A i \in 1 .. Len(s) : s[i].tick \in Nat
  <2>1. \A i \in 1 .. Len(s) : s[i] \in OutFrame
    OBVIOUS
  <2> QED BY <2>1 DEF OutFrame
<1>2. Len(s) \in Nat
  OBVIOUS
<1> QED BY <1>1, <1>2 DEF Ticks

\* Prepending one number.
LEMMA Prepended ==
  ASSUME NEW n \in Nat, NEW q \in Seq(Nat)
  PROVE  /\ <<n>> \o q \in Seq(Nat) /\ Len(<<n>> \o q) = Len(q) + 1
         /\ (<<n>> \o q)[1] = n
         /\ \A i \in 1 .. Len(q) : (<<n>> \o q)[i + 1] = q[i]
<1>1. <<n>> \in Seq(Nat) /\ Len(<<n>>) = 1 /\ <<n>>[1] = n /\ Len(q) \in Nat
  OBVIOUS
<1>2. /\ <<n>> \o q \in Seq(Nat) /\ Len(<<n>> \o q) = 1 + Len(q)
      /\ \A i \in 1 .. 1 + Len(q) :
           (<<n>> \o q)[i] = IF i <= 1 THEN <<n>>[i] ELSE q[i - 1]
  BY <1>1, ConcatProperties
<1> QED BY <1>1, <1>2

\* The number of the first frame before those of the others.
LEMMA TicksTail ==
  ASSUME NEW s \in Seq(OutFrame), s # <<>>
  PROVE  <<Head(s).tick>> \o Ticks(Tail(s)) = Ticks(s)
<1> DEFINE n == Head(s).tick
           q == Ticks(Tail(s))
           l == <<n>> \o q
<1>1. /\ Len(s) \in Nat \ {0} /\ Head(s) = s[1] /\ Tail(s) \in Seq(OutFrame)
      /\ Len(Tail(s)) = Len(s) - 1
      /\ \A i \in 1 .. Len(Tail(s)) : Tail(s)[i] = s[i + 1]
  OBVIOUS
<1>2. /\ Ticks(s) \in Seq(Nat) /\ Len(Ticks(s)) = Len(s)
      /\ \A i \in 1 .. Len(s) : Ticks(s)[i] = s[i].tick /\ s[i].tick \in Nat
  BY TicksType
<1>3. /\ q \in Seq(Nat) /\ Len(q) = Len(s) - 1
      /\ \A i \in 1 .. Len(s) - 1 : q[i] = s[i + 1].tick
  BY ZenonT(60), <1>1, TicksType
<1>4. n \in Nat /\ n = Ticks(s)[1]
  BY <1>1, <1>2
<1> HIDE DEF n, q
<1>5. /\ l \in Seq(Nat) /\ Len(l) = Len(q) + 1 /\ l[1] = n
      /\ \A i \in 1 .. Len(q) : l[i + 1] = q[i]
  BY <1>3, <1>4, Prepended
<1> HIDE DEF l
<1>6. \A i \in 1 .. Len(s) : l[i] = Ticks(s)[i]
  <2> SUFFICES ASSUME NEW i \in 1 .. Len(s) PROVE l[i] = Ticks(s)[i]
    OBVIOUS
  <2>1. CASE i = 1
    BY <1>4, <1>5, <2>1
  <2>2. CASE i # 1
    <3>1. i - 1 \in 1 .. Len(s) - 1 /\ (i - 1) + 1 = i
      BY <1>1, <2>2
    <3> QED BY <1>2, <1>3, <1>5, <3>1
  <2> QED BY <2>1, <2>2
<1>7. l = Ticks(s)
  BY <1>1, <1>2, <1>3, <1>5, <1>6, SeqEqual
<1> QED BY <1>7 DEF l, n, q

LEMMA TicksAppend ==
  ASSUME NEW s \in Seq(OutFrame), NEW f \in OutFrame
  PROVE  Ticks(Append(s, f)) = Append(Ticks(s), f.tick)
<1>1. f.tick \in Nat
  BY DEF OutFrame
<1>2. Append(s, f) \in Seq(OutFrame) /\ Len(s) \in Nat /\ Len(Append(s, f)) = Len(s) + 1
  OBVIOUS
<1>3. /\ Ticks(s) \in Seq(Nat) /\ Len(Ticks(s)) = Len(s)
      /\ \A i \in 1 .. Len(s) : Ticks(s)[i] = s[i].tick
  BY TicksType
<1>4. /\ Ticks(Append(s, f)) \in Seq(Nat) /\ Len(Ticks(Append(s, f))) = Len(s) + 1
      /\ \A i \in 1 .. Len(s) + 1 : Ticks(Append(s, f))[i] = Append(s, f)[i].tick
  BY <1>2, TicksType
<1>5. /\ Append(Ticks(s), f.tick) \in Seq(Nat)
      /\ Len(Append(Ticks(s), f.tick)) = Len(s) + 1
  BY <1>1, <1>3
<1>6. \A i \in 1 .. Len(s) + 1 : Ticks(Append(s, f))[i] = Append(Ticks(s), f.tick)[i]
  <2> SUFFICES ASSUME NEW i \in 1 .. Len(s) + 1
               PROVE  Append(s, f)[i].tick = Append(Ticks(s), f.tick)[i]
    BY <1>4
  <2>1. CASE i = Len(s) + 1
    BY <1>1, <1>2, <1>3, <2>1
  <2>2. CASE i # Len(s) + 1
    <3>1. i \in 1 .. Len(s)
      BY <1>2, <2>2
    <3>2. Append(s, f)[i] = s[i]
      BY <3>1
    <3>3. Append(Ticks(s), f.tick)[i] = Ticks(s)[i]
      BY <1>1, <1>3, <3>1
    <3> QED BY <1>3, <3>1, <3>2, <3>3
  <2> QED BY <2>1, <2>2
<1> QED BY <1>4, <1>5, <1>6, SeqEqual

LEMMA ConcatAppend ==
  ASSUME NEW p \in Seq(Nat), NEW q \in Seq(Nat), NEW n \in Nat
  PROVE  p \o Append(q, n) = Append(p \o q, n)
<1>1. <<n>> \in Seq(Nat) /\ p \o q \in Seq(Nat)
  OBVIOUS
<1>2. Append(q, n) = q \o <<n>> /\ Append(p \o q, n) = (p \o q) \o <<n>>
  BY <1>1, AppendIsConcat
<1> QED BY <1>1, <1>2, ConcatAssociative

LEMMA ConcatHeadTail ==
  ASSUME NEW n \in Nat, NEW q \in Seq(Nat)
  PROVE  /\ <<n>> \o q # <<>> /\ Head(<<n>> \o q) = n /\ Tail(<<n>> \o q) = q
<1> DEFINE s == <<n>> \o q
<1>1. /\ s \in Seq(Nat) /\ Len(s) = Len(q) + 1 /\ s[1] = n
      /\ \A i \in 1 .. Len(q) : s[i + 1] = q[i]
  BY Prepended
<1> HIDE DEF s
<1>2. Len(q) \in Nat /\ s # <<>> /\ Head(s) = n
  BY <1>1
<1>3. /\ Tail(s) \in Seq(Nat) /\ Len(Tail(s)) = Len(q)
      /\ \A i \in 1 .. Len(Tail(s)) : Tail(s)[i] = s[i + 1]
  BY <1>1, <1>2
<1>4. Tail(s) = q
  BY <1>1, <1>3, SeqEqual
<1> QED BY <1>2, <1>4 DEF s

-----------------------------------------------------------------------------
(***************************************************************************)
(* The refinement mapping.                                                 *)
(***************************************************************************)

inflightBar == [c \in Conns |-> InFlight(c)]
overBar == [c \in Conns |-> hpc[c] \in Ending]

\* A step that touches one connection's frames changes the mapping there only.
LEMMA OneConn ==
  ASSUME NEW c \in Conns,
         \A d \in Conns \ {c} : /\ hpc'[d] = hpc[d] /\ chan'[d] = chan[d]
                                /\ taken'[d] = taken[d]
  PROVE  /\ inflightBar' = [inflightBar EXCEPT ![c] = InFlight(c)']
         /\ overBar' = [overBar EXCEPT ![c] = (hpc[c] \in Ending)']
<1>1. ASSUME NEW d \in Conns, d # c
      PROVE  InFlight(d)' = InFlight(d) /\ (hpc[d] \in Ending)' = (hpc[d] \in Ending)
  BY <1>1 DEF InFlight
<1> QED BY <1>1 DEF inflightBar, overBar

\* A step that leaves queues and the write pumps' states alone is no step of
\* the feed.
LEMMA Stutter ==
  ASSUME UNCHANGED <<tick, enq, wrote, taken, chan>>,
         \A d \in Conns : /\ hpc'[d] = "writing" <=> hpc[d] = "writing"
                          /\ hpc'[d] \in Ending <=> hpc[d] \in Ending
  PROVE  UNCHANGED Feed!feedVars
<1>1. \A d \in Conns : InFlight(d)' = InFlight(d)
  BY DEF InFlight
<1>2. \A d \in Conns : (hpc[d] \in Ending)' = (hpc[d] \in Ending)
  OBVIOUS
<1>3. [c \in Conns |-> InFlight(c)]' = [c \in Conns |-> InFlight(c)]
  BY <1>1
<1>4. [c \in Conns |-> hpc[c] \in Ending]' = [c \in Conns |-> hpc[c] \in Ending]
  BY <1>2
<1> QED BY <1>3, <1>4 DEF Feed!feedVars

LEMMA EndingMembership ==
  /\ \A s \in {"idle", "upgraded", "stored", "opening", "pumping", "writing"} :
       s \notin Ending
  /\ \A s \in {"cleanup", "deleted", "uncounted", "gone"} : s \in Ending
BY DEF Ending

\* Handler steps before the pump runs and after it has ended, messages of the
\* client, and what befalls its connection.
LEMMA FeedConn ==
  ASSUME TypeOK, NEW c \in Conns,
         \/ Upgrade(c) \/ StoreClient(c) \/ CountUp(c) \/ DeleteClient(c)
         \/ CountDown(c) \/ CloseConn(c) \/ ReadErr(c) \/ Disconnect(c)
         \/ Unsubscribe(c) \/ \E v \in Viewports : Subscribe(c, v)
  PROVE  UNCHANGED Feed!feedVars
<1>1. UNCHANGED <<tick, enq, wrote, taken, chan>>
  BY DEF Upgrade, StoreClient, CountUp, DeleteClient, CountDown, CloseConn,
         ReadErr, Disconnect, Unsubscribe, Subscribe, Receive, beyondConn, pumps,
         range, sent
<1>2. \/ UNCHANGED hpc
      \/ \E from, to \in {"idle", "upgraded", "stored", "opening", "pumping"} :
           from # "pumping" /\ Goto(c, from, to)
      \/ \E from, to \in {"cleanup", "deleted", "uncounted", "gone"} :
           Goto(c, from, to)
  BY DEF Upgrade, StoreClient, CountUp, DeleteClient, CountDown, CloseConn,
         ReadErr, Disconnect, Unsubscribe, Subscribe, Receive
<1>3. \A d \in Conns : /\ hpc'[d] = "writing" <=> hpc[d] = "writing"
                       /\ hpc'[d] \in Ending <=> hpc[d] \in Ending
  <2>1. ASSUME NEW from, NEW to, Goto(c, from, to),
               from # "writing" /\ to # "writing", from \in Ending <=> to \in Ending
        PROVE  \A d \in Conns : /\ hpc'[d] = "writing" <=> hpc[d] = "writing"
                                /\ hpc'[d] \in Ending <=> hpc[d] \in Ending
    <3>1. \A d \in Conns : hpc'[d] = IF d = c THEN to ELSE hpc[d]
      BY <2>1 DEF Goto, TypeOK
    <3> QED BY <2>1, <3>1 DEF Goto
  <2>2. CASE UNCHANGED hpc
    BY <2>2
  <2> QED BY <1>2, <2>1, <2>2, EndingMembership
<1> QED BY <1>1, <1>3, Stutter

\* The frame a pump takes stays in flight: it is first in the channel before,
\* and held by the pump after.
LEMMA FeedTakeFrame ==
  ASSUME TypeOK, NEW c \in Conns, TakeFrame(c)
  PROVE  UNCHANGED Feed!feedVars
<1>1. UNCHANGED <<tick, enq, wrote>>
  BY DEF TakeFrame, beyondConn, range, sent
<1>2. \A d \in Conns \ {c} :
        hpc'[d] = hpc[d] /\ chan'[d] = chan[d] /\ taken'[d] = taken[d]
  BY DEF TakeFrame, Goto, TypeOK
<1>3. InFlight(c)' = InFlight(c)
  <2>1. chan[c] \in Seq(OutFrame) /\ chan[c] # <<>>
    BY DEF TypeOK, TakeFrame
  <2>2. /\ hpc[c] = "pumping" /\ hpc'[c] = "writing"
        /\ taken'[c] = Head(chan[c]).tick /\ chan'[c] = Tail(chan[c])
    BY DEF TakeFrame, Goto, TypeOK
  <2>3. InFlight(c)' = <<Head(chan[c]).tick>> \o Ticks(Tail(chan[c]))
    BY <2>2 DEF InFlight, Ticks
  <2>4. Ticks(chan[c]) \in Seq(Nat)
    BY <2>1, TicksType
  <2>5. InFlight(c) = Ticks(chan[c])
    BY <2>2, <2>4, ConcatEmptySeq DEF InFlight
  <2> QED BY <2>1, <2>3, <2>5, TicksTail
<1>4. (hpc[c] \in Ending)' = (hpc[c] \in Ending)
  BY EndingMembership DEF TakeFrame, Goto, TypeOK
<1>5. UNCHANGED <<inflightBar, overBar>>
  BY <1>2, <1>3, <1>4, OneConn DEF inflightBar, overBar
<1> QED BY <1>1, <1>5 DEF Feed!feedVars, inflightBar, overBar

\* A write that succeeds delivers the oldest frame in flight.
LEMMA FeedWriteOK ==
  ASSUME TypeOK, NEW c \in Conns, WriteOK(c)
  PROVE  Feed!Deliver(c)
<1>1. UNCHANGED <<tick, enq>>
  BY DEF WriteOK, beyondConn, range, sent
<1>2. \A d \in Conns \ {c} :
        hpc'[d] = hpc[d] /\ chan'[d] = chan[d] /\ taken'[d] = taken[d]
  BY DEF WriteOK, Goto, TypeOK
<1>3. /\ hpc[c] = "writing" /\ hpc'[c] = "pumping" /\ chan'[c] = chan[c]
      /\ taken[c] \in Nat /\ chan[c] \in Seq(OutFrame)
  BY DEF WriteOK, Goto, TypeOK
<1>4. Ticks(chan[c]) \in Seq(Nat)
  BY <1>3, TicksType
<1>5. InFlight(c) = <<taken[c]>> \o Ticks(chan[c]) /\ InFlight(c)' = Ticks(chan[c])
  BY <1>3, <1>4, ConcatEmptySeq DEF InFlight, Ticks
<1>6. /\ InFlight(c) # <<>> /\ Head(InFlight(c)) = taken[c]
      /\ Tail(InFlight(c)) = InFlight(c)'
  BY <1>3, <1>4, <1>5, ConcatHeadTail
<1>7. hpc[c] \notin Ending /\ hpc'[c] \notin Ending
  BY <1>3, EndingMembership
<1>8. /\ inflightBar' = [inflightBar EXCEPT ![c] = Tail(@)] /\ overBar' = overBar
      /\ inflightBar[c] = InFlight(c) /\ ~overBar[c]
  <2>1. /\ inflightBar' = [inflightBar EXCEPT ![c] = InFlight(c)']
        /\ overBar' = [overBar EXCEPT ![c] = (hpc[c] \in Ending)']
    BY <1>2, OneConn
  <2>2. /\ inflightBar[c] = InFlight(c) /\ overBar[c] = FALSE
        /\ (hpc[c] \in Ending)' = FALSE
    <3>1. inflightBar[c] = InFlight(c)
      BY DEF inflightBar
    <3>2. overBar[c] = (hpc[c] \in Ending)
      BY DEF overBar
    <3>3. (hpc[c] \in Ending) = FALSE /\ (hpc'[c] \in Ending) = FALSE
      BY <1>7
    <3> QED BY <3>1, <3>2, <3>3
  <2>3. [overBar EXCEPT ![c] = FALSE] = overBar
    BY <2>2 DEF overBar
  <2> QED BY <1>6, <2>1, <2>2, <2>3
<1>9. wrote' = [wrote EXCEPT ![c] = Head(inflightBar[c])]
  BY <1>6, <1>8 DEF WriteOK
<1> QED BY <1>1, <1>6, <1>8, <1>9 DEF Feed!Deliver, inflightBar, overBar

\* A stream that opens leaves the feed alone.
LEMMA FeedOpens ==
  ASSUME TypeOK, NEW c \in Conns, OpenStream(c), hpc'[c] = "pumping"
  PROVE  UNCHANGED Feed!feedVars
<1>1. UNCHANGED <<tick, enq, wrote, taken, chan>>
  BY DEF OpenStream, beyondConn, pumps, range, sent
<1>2. \A d \in Conns : hpc'[d] = IF d = c THEN "pumping" ELSE hpc[d]
  BY DEF OpenStream, Goto, TypeOK
<1>3. hpc[c] = "opening"
  BY DEF OpenStream, Goto
<1> QED BY <1>1, <1>2, <1>3, EndingMembership, Stutter

\* A handler that leaves its loop ends the connection, and the frame it failed
\* to write, if any, is lost.
LEMMA FeedEnds ==
  ASSUME TypeOK, NEW c \in Conns,
         WriteErr(c) \/ PumpEnd(c) \/ OpenStream(c), hpc'[c] = "cleanup"
  PROVE  Feed!End(c)
<1>1. UNCHANGED <<tick, enq, wrote, taken, chan>>
  BY DEF WriteErr, PumpEnd, OpenStream, beyondConn, pumps, range, sent
<1>2. /\ \A d \in Conns \ {c} : hpc'[d] = hpc[d]
      /\ hpc[c] \in {"opening", "pumping", "writing"}
      /\ taken[c] \in Nat /\ chan[c] \in Seq(OutFrame)
  BY DEF WriteErr, PumpEnd, OpenStream, Goto, TypeOK
<1>3. /\ inflightBar' = [inflightBar EXCEPT ![c] = InFlight(c)']
      /\ overBar' = [overBar EXCEPT ![c] = (hpc[c] \in Ending)']
  BY <1>1, <1>2, OneConn
<1>4. overBar' = [overBar EXCEPT ![c] = TRUE] /\ overBar[c] = FALSE
  <2>1. (hpc[c] \in Ending) = FALSE /\ (hpc'[c] \in Ending) = TRUE
    BY <1>2, EndingMembership
  <2>2. overBar[c] = (hpc[c] \in Ending)
    BY DEF overBar
  <2> QED BY <1>3, <2>1, <2>2
<1>5. inflightBar[c] = InFlight(c)
  BY DEF inflightBar
<1>6. Ticks(chan[c]) \in Seq(Nat)
  BY <1>2, TicksType
<1>7. InFlight(c)' = Ticks(chan[c])
  BY <1>1, <1>6, ConcatEmptySeq DEF InFlight, Ticks
<1>8. CASE hpc[c] = "writing"
  <2>1. InFlight(c) = <<taken[c]>> \o Ticks(chan[c])
    BY <1>8 DEF InFlight
  <2>2. InFlight(c) # <<>> /\ Tail(InFlight(c)) = InFlight(c)'
    BY <1>2, <1>6, <1>7, <2>1, ConcatHeadTail
  <2>3. inflightBar[c] # <<>> /\ inflightBar' = [inflightBar EXCEPT ![c] = Tail(@)]
    BY <1>3, <1>5, <2>2
  <2> QED BY <1>1, <1>4, <2>3 DEF Feed!End, inflightBar, overBar
<1>9. CASE hpc[c] # "writing"
  <2>1. InFlight(c) = InFlight(c)'
    BY <1>6, <1>7, <1>9, ConcatEmptySeq DEF InFlight
  <2>2. UNCHANGED inflightBar
    BY <1>3, <1>5, <2>1 DEF inflightBar
  <2> QED BY <1>1, <1>4, <2>2 DEF Feed!End, inflightBar, overBar
<1> QED BY <1>8, <1>9

\* A frame that is put into a client's channel is accepted for it.
LEMMA FeedSendFrame ==
  ASSUME TypeOK, OrderInv, SendFrame
  PROVE  Feed!Accept(cur)
<1>1. UNCHANGED <<tick, wrote, taken, hpc, cur>>
  BY DEF SendFrame, beyondRange, pumps, range
<1>2. /\ cur \in Conns /\ chan[cur] \in Seq(OutFrame) /\ out \in OutFrame
      /\ taken[cur] \in Nat /\ tick \in Nat
      /\ chan' = [chan EXCEPT ![cur] = Append(@, out)]
      /\ chan'[cur] = Append(chan[cur], out)
      /\ \A d \in Conns \ {cur} : chan'[d] = chan[d]
  BY DEF TypeOK, SendFrame
<1>3. enq[cur] < tick /\ out.tick = tick
  BY DEF SendFrame, OrderInv, OrderRange
<1>4. Ticks(chan[cur]) \in Seq(Nat) /\ Len(Ticks(chan[cur])) = Len(chan[cur])
  BY <1>2, TicksType
<1>5. Ticks(chan'[cur]) = Append(Ticks(chan[cur]), tick)
  BY <1>2, <1>3, TicksAppend
<1> DEFINE held == IF hpc[cur] = "writing" THEN <<taken[cur]>> ELSE <<>>
<1>6. held \in Seq(Nat) /\ Len(held) <= 1 /\ Len(held) \in Nat
  BY <1>2
<1>7. InFlight(cur) = held \o Ticks(chan[cur])
  BY DEF InFlight
<1>8. InFlight(cur)' = held \o Append(Ticks(chan[cur]), tick)
  BY <1>1, <1>5 DEF InFlight, Ticks
<1> HIDE DEF held
<1>9. InFlight(cur)' = Append(InFlight(cur), tick)
  BY SMTT(30), <1>2, <1>4, <1>6, <1>7, <1>8, ConcatAppend
<1>10. Len(InFlight(cur)) < MaxBufferFrames + 1
  <2>1. Len(InFlight(cur)) = Len(held) + Len(chan[cur])
    BY <1>4, <1>6, <1>7, ConcatProperties
  <2>2. Len(chan[cur]) < MaxBufferFrames /\ Len(chan[cur]) \in Nat
    BY <1>2 DEF SendFrame, HasRoom
  <2> QED BY <1>6, <2>1, <2>2, SizeAssumption
<1>11. inflightBar' = [inflightBar EXCEPT ![cur] = Append(@, tick)]
  <2>1. /\ inflightBar' = [inflightBar EXCEPT ![cur] = InFlight(cur)']
        /\ inflightBar[cur] = InFlight(cur)
    <3>1. inflightBar' = [c \in Conns |-> InFlight(c)']
      BY DEF inflightBar
    <3>2. \A c \in Conns \ {cur} : InFlight(c)' = InFlight(c)
      BY <1>1, <1>2 DEF InFlight
    <3> QED BY <1>1, <1>2, <3>1, <3>2 DEF inflightBar
  <2> QED BY <1>9, <2>1
<1>12. inflightBar[cur] = InFlight(cur) /\ UNCHANGED overBar
  BY <1>1, <1>2 DEF inflightBar, overBar
<1>13. enq' = [enq EXCEPT ![cur] = tick]
  BY DEF SendFrame
<1> QED
  BY <1>1, <1>2, <1>3, <1>10, <1>11, <1>12, <1>13
  DEF Feed!Accept, inflightBar, overBar

\* A broadcast that begins publishes a frame.
LEMMA FeedPublish ==
  ASSUME StartBroadcast
  PROVE  Feed!Publish
<1>1. UNCHANGED <<enq, wrote, taken, chan, hpc>> /\ tick' = tick + 1
  BY DEF StartBroadcast, beyondRange, pumps, sent
<1>2. UNCHANGED <<inflightBar, overBar>>
  BY <1>1 DEF inflightBar, overBar, InFlight, Ticks
<1> QED BY <1>1, <1>2 DEF Feed!Publish, inflightBar, overBar

\* What else the broadcaster does, a frame it drops included, and Stop.
LEMMA FeedOther ==
  ASSUME \/ Filter \/ RecordSent \/ SendPanic \/ DropFrame \/ FinishBroadcast
         \/ Stop \/ (\E c \in Conns : Visit(c)) \/ UNCHANGED vars
  PROVE  UNCHANGED Feed!feedVars
<1>1. UNCHANGED <<tick, enq, wrote, taken, chan, hpc>>
  BY DEF Filter, RecordSent, SendPanic, DropFrame, FinishBroadcast, Stop, Visit,
         vars, beyondConn, beyondRange, pumps, range, sent
<1> QED BY <1>1, Stutter

\* Every step of the server is a step of the feed, or none.
LEMMA FeedStep ==
  TypeOK /\ OrderInv /\ [Next]_vars => [Feed!FeedNext]_(Feed!feedVars)
<1> SUFFICES ASSUME TypeOK, OrderInv, [Next]_vars
             PROVE  Feed!FeedNext \/ UNCHANGED Feed!feedVars
  OBVIOUS
<1>1. ASSUME NEW c \in Conns, OpenStream(c) \/ WriteErr(c) \/ PumpEnd(c)
      PROVE  Feed!End(c) \/ UNCHANGED Feed!feedVars
  <2>1. CASE hpc'[c] = "cleanup"
    BY <1>1, <2>1, FeedEnds
  <2>2. CASE hpc'[c] # "cleanup"
    <3>1. OpenStream(c) /\ hpc'[c] = "pumping"
      BY <1>1, <2>2 DEF OpenStream, WriteErr, PumpEnd, Goto, TypeOK
    <3> QED BY <3>1, FeedOpens
  <2> QED BY <2>1, <2>2
<1>2. cur \in Conns
  BY DEF TypeOK
<1>3. CASE StartBroadcast
  BY <1>3, FeedPublish DEF Feed!FeedNext
<1>4. CASE SendFrame
  BY <1>2, <1>4, FeedSendFrame DEF Feed!FeedNext
<1>5. ASSUME NEW c \in Conns, WriteOK(c)
      PROVE  Feed!FeedNext
  BY <1>5, FeedWriteOK DEF Feed!FeedNext
<1>6. ASSUME NEW c \in Conns, OpenStream(c) \/ WriteErr(c) \/ PumpEnd(c)
      PROVE  Feed!FeedNext \/ UNCHANGED Feed!feedVars
  BY <1>1, <1>6 DEF Feed!FeedNext
<1> QED
  BY <1>3, <1>4, <1>5, <1>6, FeedConn, FeedTakeFrame, FeedOther
  DEF Next, Handler, Broadcaster

\* A server without clients has published nothing.
LEMMA FeedStart == Init => Feed!FeedInit
<1> SUFFICES ASSUME Init PROVE Feed!FeedInit
  OBVIOUS
<1>1. \A c \in Conns : InFlight(c) = <<>>
  <2> SUFFICES ASSUME NEW c \in Conns PROVE InFlight(c) = <<>>
    OBVIOUS
  <2>1. hpc[c] # "writing" /\ chan[c] = <<>>
    BY DEF Init
  <2>2. chan[c] \in Seq(OutFrame) /\ Len(chan[c]) = 0
    BY <2>1
  <2>3. Ticks(chan[c]) \in Seq(Nat) /\ Len(Ticks(chan[c])) = 0
    BY <2>2, TicksType
  <2>4. Ticks(chan[c]) = <<>>
    BY <2>3
  <2> QED BY <2>1, <2>3, <2>4, ConcatEmptySeq DEF InFlight
<1>2. \A c \in Conns : (hpc[c] \in Ending) = FALSE
  BY EndingMembership DEF Init
<1> QED BY <1>1, <1>2 DEF Init, Feed!FeedInit

\* Each client sees an in-order delivery, without gap or repeat, of what was
\* accepted for it, with never more than the channel's capacity and one frame
\* in flight, in every behaviour of the server.
THEOREM FeedImplemented == Spec => ImplementsFeed
BY FeedStart, FeedStep, OrderInvariant, TypeCorrect, PTL
DEF Spec, ImplementsFeed, Feed!FeedSpec

-----------------------------------------------------------------------------
(***************************************************************************)
(* What subscriptions and delta filtering promise a client, through every  *)
(* race of its read pump with the broadcaster's two critical sections:     *)
(* subscriptions are honoured, lastSent tells the truth and clients are    *)
(* caught up, as long as nothing is dropped.                               *)
(***************************************************************************)

(***************************************************************************)
(* The invariants.                                                         *)
(***************************************************************************)

\* A callback has filtered a frame and not yet sent it.
Filtered == bpc \in {"recording", "sending", "panicked"}

\* A client has a viewport exactly when it has a lastSent map.
PairInv == \A c \in Conns : viewport[c] = NoViewport <=> lastSent[c] = NoMap

\* The frame that is broadcast is one of Frames, or there was none yet; what is
\* about to be sent is a part of it.
FrameInv ==
  /\ \A r, s \in frame.recs : r.id = s.id => r.seq = s.seq
  /\ ~frame.valid => frame.recs = {}
  /\ Filtered => out.recs \subseteq frame.recs

\* History is not ahead of the present.
TimeInv ==
  /\ \A c \in Conns : cfgTick[c] <= tick /\ born[c] <= tick
  /\ bpc # "idle" => tick > 0

\* The frame obeys c's viewport.
Obeys(f, c) ==
  IF viewport[c] = NoViewport THEN f.full
  ELSE ~f.full /\ \A r \in f.recs : r.pos \in viewport[c]

\* A frame filtered for the present subscription obeys it.
OutInv == Filtered /\ tick > cfgTick[cur] => Obeys(out, cur)

\* What the map of the client at hand says of an entity about to be sent is
\* nothing, or what is about to be sent.
EnteredInv ==
  bpc \in {"sending", "panicked"} /\ lastSent[cur] # NoMap =>
    \A r \in out.recs : lastSent[cur][r.id] \in {Absent, r.seq}

FilterInv == /\ PairInv /\ FrameInv /\ TimeInv /\ OutInv /\ EnteredInv
             /\ SubscriptionHonoured /\ LastSentUnlessLossy

\* What the broadcast under way has done for c, if c has not changed its
\* subscription since it began.
Served(c) ==
  IF viewport[c] = NoViewport THEN tick \in {enq[c], lost[c]}
  ELSE frame.valid /\ ~Lossy(c) =>
         \A r \in frame.recs : r.pos \in viewport[c] => view[c][r.id] = r.seq

\* What sending the frame at hand will do for c.
Serves(c) ==
  viewport[c] # NoViewport /\ frame.valid /\ ~Lossy(c) =>
    \A r \in frame.recs :
      r.pos \in viewport[c] => r \in out.recs \/ view[c][r.id] = r.seq

CaughtInv ==
  /\ \A c \in visited :
       cfgTick[c] < tick =>
         /\ bpc \in {"idle", "ranging"} \/ cur # c => Served(c)
         /\ Filtered /\ cur = c => Serves(c)
  /\ \A c \in startSet : hpc[c] \notin {"idle", "upgraded"}
  /\ bpc = "idle" => startSet \cap clients \subseteq visited

-----------------------------------------------------------------------------
(***************************************************************************)
(* What Enter does.                                                        *)
(***************************************************************************)

\* An entity with a record has the sequence number its records agree on.
LEMMA EnterRecord ==
  ASSUME NEW map, NEW f, f.recs \subseteq Record, NEW r \in f.recs,
         \A s \in f.recs : s.id = r.id => s.seq = r.seq
  PROVE  r.id \in Entities /\ Enter(map, f)[r.id] = r.seq
<1> DEFINE s == CHOOSE s \in f.recs : s.id = r.id
<1>1. s \in f.recs /\ s.id = r.id
  OBVIOUS
<1>2. s.seq = r.seq
  BY <1>1
<1>3. r.id \in Entities
  BY DEF Record
<1> QED BY <1>2, <1>3 DEF Enter

\* Every other entity keeps its entry.
LEMMA EnterOther ==
  ASSUME NEW map, NEW f, NEW e \in Entities, \A r \in f.recs : r.id # e
  PROVE  Enter(map, f)[e] = map[e]
BY DEF Enter

-----------------------------------------------------------------------------
(***************************************************************************)
(* FilterInv is inductive.                                                 *)
(***************************************************************************)

filterVars == <<chan, filters, frame, bpc, out, tick, cur, view, lost>>

LEMMA FilterSame == FilterInv /\ UNCHANGED filterVars => FilterInv'
BY DEF FilterInv, filterVars, filters, PairInv, FrameInv, Filtered, TimeInv,
       OutInv, Obeys, EnteredInv, SubscriptionHonoured, LastSentUnlessLossy,
       Lossy

LEMMA FilterInit == Init => FilterInv
<1> SUFFICES ASSUME Init PROVE FilterInv
  OBVIOUS
<1>1. PairInv /\ FrameInv /\ TimeInv /\ OutInv /\ EnteredInv
  BY DEF Init, PairInv, FrameInv, TimeInv, OutInv, EnteredInv, Filtered
<1>2. SubscriptionHonoured /\ LastSentUnlessLossy
  BY DEF Init, SubscriptionHonoured, LastSentUnlessLossy
<1> QED BY <1>1, <1>2 DEF FilterInv

\* The write pump takes a frame from the front of the channel.
LEMMA FilterTakeFrame ==
  ASSUME TypeOK, FilterInv, NEW c \in Conns, TakeFrame(c)
  PROVE  FilterInv'
<1>1. UNCHANGED <<filters, frame, bpc, out, tick, cur, view, lost>>
  BY DEF TakeFrame, beyondConn, range, sent
<1>2. /\ PairInv /\ FrameInv /\ TimeInv /\ OutInv /\ EnteredInv
      /\ LastSentUnlessLossy
  BY DEF FilterInv
<1>3. /\ PairInv' /\ FrameInv' /\ TimeInv' /\ OutInv' /\ EnteredInv'
      /\ LastSentUnlessLossy'
  BY <1>1, <1>2 DEF filters, PairInv, FrameInv, Filtered, TimeInv, OutInv, Obeys,
                    EnteredInv, LastSentUnlessLossy, Lossy
<1>4. ASSUME NEW d \in Conns, NEW i \in 1 .. Len(chan'[d])
      PROVE  \E j \in 1 .. Len(chan[d]) : chan'[d][i] = chan[d][j]
  <2>1. CASE d # c
    BY <2>1 DEF TakeFrame, TypeOK
  <2>2. CASE d = c
    <3>1. chan[c] \in Seq(OutFrame) /\ chan[c] # <<>> /\ chan'[c] = Tail(chan[c])
      BY DEF TakeFrame, TypeOK
    <3>2. i + 1 \in 1 .. Len(chan[c]) /\ chan'[c][i] = chan[c][i + 1]
      BY <2>2, <3>1
    <3> QED BY <2>2, <3>2
  <2> QED BY <2>1, <2>2
<1>5. SubscriptionHonoured'
  <2>1. SubscriptionHonoured
    BY DEF FilterInv
  <2> SUFFICES ASSUME NEW d \in Conns, NEW i \in 1 .. Len(chan'[d]),
                      chan'[d][i].tick > cfgTick[d]
               PROVE  IF viewport[d] = NoViewport THEN chan'[d][i].full
                      ELSE /\ ~chan'[d][i].full
                           /\ \A r \in chan'[d][i].recs : r.pos \in viewport[d]
    BY <1>1 DEF SubscriptionHonoured, filters
  <2>2. PICK j \in 1 .. Len(chan[d]) : chan'[d][i] = chan[d][j]
    BY <1>4
  <2> QED BY <2>1, <2>2 DEF SubscriptionHonoured
<1> QED BY <1>3, <1>5 DEF FilterInv

\* The read pump serves a message: nothing queued or about to be sent is newer
\* than it, and a map made now is empty.
LEMMA FilterMessages ==
  ASSUME TypeOK, OrderInv, FilterInv, NEW c \in Conns,
         Unsubscribe(c) \/ \E v \in Viewports : Subscribe(c, v)
  PROVE  FilterInv'
<1>1. /\ UNCHANGED <<chan, frame, bpc, out, tick, cur, view, lost>>
      /\ cfgTick' = [cfgTick EXCEPT ![c] = tick]
  BY DEF Unsubscribe, Subscribe, Receive, beyondConn, range, sent
<1>2. EmptyMap # NoMap /\ \A e \in Entities : EmptyMap[e] = Absent
  BY ViewportAssumption DEF EmptyMap, SeqMap
<1>3. \/ viewport'[c] = NoViewport /\ lastSent'[c] = NoMap /\ born'[c] = born[c]
      \/ /\ viewport'[c] # NoViewport
         /\ \/ /\ lastSent[c] # NoMap
               /\ lastSent'[c] = lastSent[c] /\ born'[c] = born[c]
            \/ lastSent'[c] = EmptyMap /\ born'[c] = tick
  BY ViewportAssumption DEF Unsubscribe, Unsubscribed, Subscribe, TypeOK
<1>4. \A d \in Conns \ {c} :
        /\ viewport'[d] = viewport[d] /\ lastSent'[d] = lastSent[d]
        /\ born'[d] = born[d] /\ cfgTick'[d] = cfgTick[d]
  <2>1. CASE Unsubscribe(c)
    BY <1>1, <2>1 DEF Unsubscribe, TypeOK
  <2>2. ASSUME NEW v \in Viewports, Subscribe(c, v)
        PROVE  \A d \in Conns \ {c} :
                 /\ viewport'[d] = viewport[d] /\ lastSent'[d] = lastSent[d]
                 /\ born'[d] = born[d] /\ cfgTick'[d] = cfgTick[d]
    <3>1. \/ UNCHANGED <<lastSent, born>>
          \/ /\ lastSent' = [lastSent EXCEPT ![c] = EmptyMap]
             /\ born' = [born EXCEPT ![c] = tick]
      BY <2>2 DEF Subscribe
    <3>2. \A d \in Conns \ {c} : lastSent'[d] = lastSent[d] /\ born'[d] = born[d]
      BY <3>1 DEF TypeOK
    <3>3. \A d \in Conns \ {c} :
            viewport'[d] = viewport[d] /\ cfgTick'[d] = cfgTick[d]
      BY <1>1, <2>2 DEF Subscribe, TypeOK
    <3> QED BY <3>2, <3>3
  <2> QED BY <2>1, <2>2
<1>5. cfgTick'[c] = tick
  BY <1>1 DEF TypeOK
<1>6. PairInv'
  BY <1>2, <1>3, <1>4 DEF FilterInv, PairInv
<1>7. FrameInv'
  BY <1>1 DEF FilterInv, FrameInv, Filtered
<1>8. TimeInv'
  <2>1. tick \in Nat
    BY DEF TypeOK
  <2> QED BY <1>1, <1>3, <1>4, <1>5, <2>1 DEF FilterInv, TimeInv
<1>9. OutInv'
  <2>1. CASE cur = c
    BY <1>1, <1>5, <2>1 DEF OutInv, TypeOK
  <2>2. CASE cur # c
    BY <1>1, <1>4, <2>2 DEF FilterInv, OutInv, Filtered, Obeys, TypeOK
  <2> QED BY <2>1, <2>2
<1>10. EnteredInv'
  <2>1. \A r \in out.recs : r.id \in Entities
    BY DEF TypeOK, OutFrame, Record
  <2>2. CASE cur = c
    BY <1>1, <1>2, <1>3, <2>1, <2>2 DEF FilterInv, EnteredInv
  <2>3. CASE cur # c
    BY <1>1, <1>4, <2>3 DEF FilterInv, EnteredInv, TypeOK
  <2> QED BY <2>2, <2>3
<1>11. SubscriptionHonoured'
  <2> SUFFICES ASSUME NEW d \in Conns, NEW i \in 1 .. Len(chan[d]),
                      chan[d][i].tick > cfgTick'[d]
               PROVE  IF viewport'[d] = NoViewport THEN chan[d][i].full
                      ELSE /\ ~chan[d][i].full
                           /\ \A r \in chan[d][i].recs : r.pos \in viewport'[d]
    BY <1>1 DEF SubscriptionHonoured
  <2>1. chan[d][i] \in OutFrame /\ enq[d] \in Nat /\ tick \in Nat
    <3>1. chan[d] \in Seq(OutFrame)
      BY DEF TypeOK
    <3>2. chan[d][i] \in OutFrame
      BY <3>1
    <3> QED BY <3>2 DEF TypeOK
  <2>2. chan[d][i].tick \in Nat
    BY <2>1 DEF OutFrame
  <2>3. chan[d][i].tick <= tick
    BY <2>1, <2>2 DEF OrderInv, OrderConn
  <2>4. d # c
    BY <1>5, <2>1, <2>2, <2>3
  <2> QED BY <1>4, <2>4 DEF FilterInv, SubscriptionHonoured
<1>12. LastSentUnlessLossy'
  <2> SUFFICES ASSUME NEW d \in Conns, ~Lossy(d)', NEW e \in Entities,
                      lastSent'[d] # NoMap, lastSent'[d][e] # Absent
               PROVE  \/ view[d][e] = lastSent'[d][e]
                      \/ /\ bpc \in {"sending", "panicked"} /\ cur = d
                         /\ \E r \in out.recs :
                              r.id = e /\ r.seq = lastSent'[d][e]
    BY <1>1 DEF LastSentUnlessLossy
  <2>1. lastSent'[d] = lastSent[d] /\ born'[d] = born[d]
    BY <1>2, <1>3, <1>4
  <2>2. ~Lossy(d)
    BY <1>1, <2>1 DEF Lossy
  <2> QED BY <2>1, <2>2 DEF FilterInv, LastSentUnlessLossy
<1> QED BY <1>6, <1>7, <1>8, <1>9, <1>10, <1>11, <1>12 DEF FilterInv

\* The Range starts, yields a client or ends, and the callback panics.
LEMMA FilterRange ==
  ASSUME TypeOK, FilterInv,
         \/ StartBroadcast \/ FinishBroadcast \/ SendPanic
         \/ \E c \in Conns : Visit(c)
  PROVE  FilterInv'
<1>1. UNCHANGED <<chan, filters, out, view, lost>>
  BY DEF StartBroadcast, FinishBroadcast, SendPanic, Visit, beyondRange, filters,
         range, sent
<1>2. SubscriptionHonoured' /\ PairInv'
  BY <1>1 DEF FilterInv, SubscriptionHonoured, PairInv, filters
<1>3. CASE StartBroadcast
  <2>1. /\ tick \in Nat /\ tick' = tick + 1 /\ bpc = "idle" /\ bpc' = "ranging"
        /\ frame' \in Frames
    BY <1>3 DEF StartBroadcast, TypeOK
  <2>2. FrameInv'
    BY <2>1, FrameAssumption DEF FrameInv, Filtered
  <2>3. TimeInv'
    <3>1. \A c \in Conns : cfgTick[c] \in Nat /\ born[c] \in Nat
      BY DEF TypeOK
    <3> QED BY <1>1, <2>1, <3>1 DEF FilterInv, TimeInv, filters
  <2>4. OutInv' /\ EnteredInv'
    BY <2>1 DEF OutInv, EnteredInv, Filtered
  <2>5. LastSentUnlessLossy'
    BY <1>1, <2>1 DEF FilterInv, LastSentUnlessLossy, Lossy, filters
  <2> QED BY <1>2, <2>2, <2>3, <2>4, <2>5 DEF FilterInv
<1>4. CASE SendPanic
  <2>1. UNCHANGED <<tick, frame, cur>> /\ bpc = "sending" /\ bpc' = "panicked"
    BY <1>4 DEF SendPanic, range
  <2>2. FrameInv' /\ TimeInv' /\ OutInv' /\ EnteredInv'
    BY <1>1, <2>1 DEF FilterInv, FrameInv, TimeInv, OutInv, EnteredInv, Obeys,
                      Filtered, filters
  <2>3. LastSentUnlessLossy'
    BY <1>1, <2>1 DEF FilterInv, LastSentUnlessLossy, Lossy, filters
  <2> QED BY <1>2, <2>2, <2>3 DEF FilterInv
<1>5. CASE FinishBroadcast \/ \E c \in Conns : Visit(c)
  <2>1. /\ UNCHANGED <<tick, frame>> /\ bpc = "ranging"
        /\ bpc' \in {"idle", "loaded"}
    BY <1>5 DEF FinishBroadcast, Visit, range
  <2>2. FrameInv' /\ TimeInv' /\ OutInv' /\ EnteredInv'
    BY <1>1, <2>1 DEF FilterInv, FrameInv, TimeInv, OutInv, EnteredInv,
                      Filtered, filters
  <2>3. LastSentUnlessLossy'
    BY <1>1, <2>1 DEF FilterInv, LastSentUnlessLossy, Lossy, filters
  <2> QED BY <1>2, <2>2, <2>3 DEF FilterInv
<1> QED BY <1>3, <1>4, <1>5

\* The first critical section: what it prepares obeys the viewport.
LEMMA FilterFilter ==
  ASSUME TypeOK, FilterInv, Filter
  PROVE  FilterInv'
<1>1. /\ UNCHANGED <<chan, filters, frame, tick, cur, view, lost>>
      /\ bpc = "loaded"
  BY DEF Filter, beyondRange, filters, range, sent
<1>2. cur \in Conns /\ PairInv
  BY DEF TypeOK, FilterInv
<1>3. \/ /\ viewport[cur] = NoViewport /\ lastSent[cur] = NoMap
         /\ bpc' = "sending" /\ out'.full /\ out'.recs = frame.recs
      \/ bpc' = "ranging"
      \/ /\ viewport[cur] # NoViewport /\ bpc' = "recording" /\ ~out'.full
         /\ out'.recs = Matched(frame, viewport[cur], lastSent[cur])
  BY <1>2 DEF Filter, Continue, PairInv
<1>4. SubscriptionHonoured' /\ PairInv' /\ TimeInv'
  BY <1>1, <1>3 DEF FilterInv, SubscriptionHonoured, PairInv, TimeInv, filters
<1>5. FrameInv'
  BY <1>1, <1>3, MatchedSubset DEF FilterInv, FrameInv, Filtered
<1>6. OutInv'
  <2>1. viewport[cur] # NoViewport =>
          \A r \in Matched(frame, viewport[cur], lastSent[cur]) :
            r.pos \in viewport[cur]
    BY DEF Matched
  <2> QED BY <1>1, <1>3, <2>1 DEF OutInv, Filtered, Obeys, filters
<1>7. EnteredInv'
  BY <1>1, <1>3 DEF EnteredInv, filters
<1>8. LastSentUnlessLossy'
  BY <1>1 DEF FilterInv, LastSentUnlessLossy, Lossy, filters
<1> QED BY <1>4, <1>5, <1>6, <1>7, <1>8 DEF FilterInv

\* The second: the map of that moment learns what is about to be sent.
LEMMA FilterRecordSent ==
  ASSUME TypeOK, FilterInv, RecordSent
  PROVE  FilterInv'
<1>1. /\ UNCHANGED <<chan, viewport, cfgTick, born, frame, out, tick, cur, view,
                     lost>>
      /\ bpc = "recording" /\ bpc' = "sending"
  BY DEF RecordSent, beyondRange, range, sent
<1>2. /\ cur \in Conns /\ out.recs \subseteq Record
      /\ lastSent \in [Conns -> SeqMap \cup {NoMap}]
  BY DEF TypeOK, OutFrame
<1>3. \A c \in Conns : c # cur => lastSent'[c] = lastSent[c]
  BY <1>2 DEF RecordSent
<1>4. \/ lastSent[cur] = NoMap /\ lastSent'[cur] = NoMap
      \/ /\ lastSent[cur] # NoMap /\ lastSent'[cur] # NoMap
         /\ lastSent'[cur] = Enter(lastSent[cur], out)
  <2>1. CASE lastSent[cur] = NoMap
    BY <1>2, <2>1 DEF RecordSent
  <2>2. CASE lastSent[cur] # NoMap
    <3>1. Enter(lastSent[cur], out) # NoMap
      BY <1>2, <2>2, EnterType, ViewportAssumption
    <3>2. lastSent'[cur] = Enter(lastSent[cur], out)
      BY <1>2, <2>2 DEF RecordSent, Recorded
    <3> QED BY <2>2, <3>1, <3>2
  <2> QED BY <2>1, <2>2
<1>5. \A r \in out.recs : Enter(lastSent[cur], out)[r.id] = r.seq
  <2>1. \A r, s \in out.recs : s.id = r.id => s.seq = r.seq
    BY <1>1 DEF FilterInv, FrameInv, Filtered
  <2> QED BY <1>2, <2>1, EnterRecord
<1>6. SubscriptionHonoured' /\ TimeInv' /\ FrameInv' /\ OutInv'
  BY <1>1 DEF FilterInv, SubscriptionHonoured, TimeInv, FrameInv, OutInv, Obeys,
              Filtered
<1>7. PairInv'
  BY <1>1, <1>3, <1>4 DEF FilterInv, PairInv
<1>8. EnteredInv'
  BY <1>1, <1>4, <1>5 DEF EnteredInv
<1>9. LastSentUnlessLossy'
  <2> SUFFICES ASSUME NEW c \in Conns, ~Lossy(c), NEW e \in Entities,
                      lastSent'[c] # NoMap, lastSent'[c][e] # Absent
               PROVE  \/ view[c][e] = lastSent'[c][e]
                      \/ /\ cur = c
                         /\ \E r \in out.recs :
                              r.id = e /\ r.seq = lastSent'[c][e]
    BY <1>1 DEF LastSentUnlessLossy, Lossy
  <2>1. CASE c # cur
    BY <1>1, <1>3, <2>1 DEF FilterInv, LastSentUnlessLossy
  <2>2. CASE c = cur /\ \E r \in out.recs : r.id = e
    BY <1>4, <1>5, <2>2
  <2>3. CASE c = cur /\ \A r \in out.recs : r.id # e
    <3>1. lastSent[c] # NoMap /\ lastSent'[c][e] = lastSent[c][e]
      BY <1>4, <2>3, EnterOther
    <3> QED BY <1>1, <3>1 DEF FilterInv, LastSentUnlessLossy
  <2> QED BY <2>1, <2>2, <2>3
<1> QED BY <1>6, <1>7, <1>8, <1>9 DEF FilterInv

\* The send: the client's view takes in what its map already says.
LEMMA FilterSendFrame ==
  ASSUME TypeOK, OrderInv, FilterInv, SendFrame
  PROVE  FilterInv'
<1>1. /\ UNCHANGED <<filters, frame, tick, cur, lost>>
      /\ bpc = "sending" /\ bpc' = "ranging"
  BY DEF SendFrame, Continue, beyondRange, filters, range
<1>2. cur \in Conns /\ out.recs \subseteq Record
  BY DEF TypeOK, OutFrame
<1>3. PairInv' /\ TimeInv' /\ FrameInv' /\ OutInv' /\ EnteredInv'
  BY <1>1 DEF FilterInv, PairInv, TimeInv, FrameInv, OutInv, EnteredInv,
              Filtered, filters
<1>4. SubscriptionHonoured'
  <2> SUFFICES ASSUME NEW c \in Conns, NEW i \in 1 .. Len(chan'[c]),
                      chan'[c][i].tick > cfgTick[c]
               PROVE  IF viewport[c] = NoViewport THEN chan'[c][i].full
                      ELSE /\ ~chan'[c][i].full
                           /\ \A r \in chan'[c][i].recs : r.pos \in viewport[c]
    BY <1>1 DEF SubscriptionHonoured, filters
  <2>1. CASE c # cur
    <3>1. chan'[c] = chan[c]
      BY <2>1 DEF SendFrame, TypeOK
    <3> QED BY <3>1 DEF FilterInv, SubscriptionHonoured
  <2>2. CASE c = cur
    <3>1. chan[cur] \in Seq(OutFrame) /\ chan'[cur] = Append(chan[cur], out)
      BY <1>2 DEF SendFrame, TypeOK
    <3>2. \/ i \in 1 .. Len(chan[cur]) /\ chan'[cur][i] = chan[cur][i]
          \/ chan'[cur][i] = out
      BY <2>2, <3>1
    <3>3. CASE i \in 1 .. Len(chan[cur]) /\ chan'[cur][i] = chan[cur][i]
      BY <1>2, <2>2, <3>3 DEF FilterInv, SubscriptionHonoured
    <3>4. CASE chan'[cur][i] = out
      <4>1. out.tick = tick
        BY <1>1 DEF OrderInv, OrderRange
      <4> QED BY <1>1, <2>2, <3>4, <4>1 DEF FilterInv, OutInv, Obeys, Filtered
    <3> QED BY <3>2, <3>3, <3>4
  <2> QED BY <2>1, <2>2
<1>5. LastSentUnlessLossy'
  <2> SUFFICES ASSUME NEW c \in Conns, ~Lossy(c), NEW e \in Entities,
                      lastSent[c] # NoMap, lastSent[c][e] # Absent
               PROVE  view'[c][e] = lastSent[c][e]
    BY <1>1 DEF LastSentUnlessLossy, Lossy, filters
  <2>1. \/ view[c][e] = lastSent[c][e]
        \/ cur = c /\ \E r \in out.recs : r.id = e
    BY DEF FilterInv, LastSentUnlessLossy
  <2>2. CASE c # cur
    BY <2>1, <2>2 DEF SendFrame, TypeOK
  <2>3. CASE c = cur
    <3>1. view'[c] = Enter(view[c], out)
      BY <1>2, <2>3 DEF SendFrame, TypeOK
    <3>2. CASE \A r \in out.recs : r.id # e
      BY <2>1, <3>1, <3>2, EnterOther
    <3>3. ASSUME NEW r \in out.recs, r.id = e
          PROVE  view'[c][e] = lastSent[c][e]
      <4>1. \A s \in out.recs : s.id = r.id => s.seq = r.seq
        BY <1>1 DEF FilterInv, FrameInv, Filtered
      <4>2. view'[c][e] = r.seq
        BY <1>2, <3>1, <3>3, <4>1, EnterRecord
      <4>3. lastSent[c][e] = r.seq
        BY <1>1, <2>3, <3>3 DEF FilterInv, EnteredInv
      <4> QED BY <4>2, <4>3
    <3> QED BY <3>2, <3>3
  <2> QED BY <2>2, <2>3
<1> QED BY <1>3, <1>4, <1>5 DEF FilterInv

\* The drop: the map now says more than the client was sent.
LEMMA FilterDropFrame ==
  ASSUME TypeOK, FilterInv, DropFrame
  PROVE  FilterInv'
<1>1. /\ UNCHANGED <<chan, filters, frame, tick, cur, view>>
      /\ bpc = "sending" /\ bpc' = "ranging"
  BY DEF DropFrame, Continue, beyondRange, filters, range
<1>2. /\ PairInv' /\ TimeInv' /\ FrameInv' /\ OutInv' /\ EnteredInv'
      /\ SubscriptionHonoured'
  BY <1>1 DEF FilterInv, PairInv, TimeInv, FrameInv, OutInv, EnteredInv,
              SubscriptionHonoured, Filtered, filters
<1>3. Lossy(cur)'
  <2>1. lost'[cur] = tick
    BY DEF DropFrame, TypeOK
  <2>2. born[cur] <= tick /\ tick > 0
    BY <1>1 DEF FilterInv, TimeInv, TypeOK
  <2> QED BY <1>1, <2>1, <2>2 DEF Lossy, filters
<1>4. \A c \in Conns : c # cur => lost'[c] = lost[c]
  BY DEF DropFrame, TypeOK
<1>5. LastSentUnlessLossy'
  <2> SUFFICES ASSUME NEW c \in Conns, ~Lossy(c)', NEW e \in Entities,
                      lastSent[c] # NoMap, lastSent[c][e] # Absent
               PROVE  view[c][e] = lastSent[c][e]
    BY <1>1 DEF LastSentUnlessLossy, filters
  <2>1. c # cur
    BY <1>1, <1>3 DEF Lossy, filters
  <2>2. ~Lossy(c)
    BY <1>1, <1>4, <2>1 DEF Lossy, filters
  <2> QED BY <2>1, <2>2 DEF FilterInv, LastSentUnlessLossy
<1> QED BY <1>2, <1>5 DEF FilterInv

LEMMA FilterNext == TypeOK /\ OrderInv /\ FilterInv /\ [Next]_vars => FilterInv'
<1> SUFFICES ASSUME TypeOK, OrderInv, FilterInv, [Next]_vars PROVE FilterInv'
  OBVIOUS
<1>1. ASSUME NEW c \in Conns,
             \/ Upgrade(c) \/ StoreClient(c) \/ CountUp(c) \/ OpenStream(c)
             \/ WriteOK(c) \/ WriteErr(c) \/ PumpEnd(c) \/ DeleteClient(c)
             \/ CountDown(c) \/ CloseConn(c) \/ ReadErr(c) \/ Disconnect(c)
      PROVE  FilterInv'
  <2>1. UNCHANGED filterVars
    BY <1>1
    DEF Upgrade, StoreClient, CountUp, OpenStream, WriteOK, WriteErr, PumpEnd,
        DeleteClient, CountDown, CloseConn, ReadErr, Disconnect, beyondConn,
        filters, range, sent, filterVars
  <2> QED BY <2>1, FilterSame
<1>2. CASE Stop
  BY <1>2, FilterSame DEF Stop, filterVars, range, sent
<1>3. CASE UNCHANGED vars
  BY <1>3, FilterSame DEF vars, beyondConn, filterVars, range, sent
<1>4. CASE StartBroadcast \/ Broadcaster
  BY <1>4, FilterRange, FilterFilter, FilterRecordSent, FilterSendFrame,
     FilterDropFrame DEF Broadcaster
<1> QED
  BY <1>1, <1>2, <1>3, <1>4, FilterTakeFrame, FilterMessages DEF Next, Handler

\* The invariant of subscriptions and delta filtering holds in every behaviour.
THEOREM FilterInvariant == Spec => []FilterInv
BY FilterInit, FilterNext, OrderInvariant, TypeCorrect, PTL DEF Spec

\* A frame of a broadcast begun after a client's last subscribe or unsubscribe
\* obeys it, whatever the read pump and the broadcaster interleave.
THEOREM SubscriptionsAreHonoured == Spec => []SubscriptionHonoured
<1>1. FilterInv => SubscriptionHonoured
  BY DEF FilterInv
<1> QED BY <1>1, FilterInvariant, PTL

\* As long as nothing was dropped for a client, it has been sent, or is about to
\* be sent, what its lastSent map says.
THEOREM LastSentIsTrue == Spec => []LastSentUnlessLossy
<1>1. FilterInv => LastSentUnlessLossy
  BY DEF FilterInv
<1> QED BY <1>1, FilterInvariant, PTL

-----------------------------------------------------------------------------
(***************************************************************************)
(* CaughtInv is inductive, on top of FilterInv.                            *)
(***************************************************************************)

caughtVars == <<visited, cfgTick, tick, bpc, cur, viewport, enq, lost, frame,
                view, born, out, startSet>>

\* A handler moves on, or a client is removed.
LEMMA CaughtSame ==
  ASSUME CaughtInv, UNCHANGED caughtVars,
         startSet \cap clients' \subseteq clients,
         \A c \in Conns : hpc'[c] \in {"idle", "upgraded"} =>
                         hpc[c] \in {"idle", "upgraded"},
         startSet \subseteq Conns
  PROVE  CaughtInv'
<1>1. /\ \A c \in visited :
           cfgTick[c] < tick =>
             /\ bpc \in {"idle", "ranging"} \/ cur # c => Served(c)
             /\ Filtered /\ cur = c => Serves(c)
      /\ \A c \in startSet : hpc[c] \notin {"idle", "upgraded"}
      /\ bpc = "idle" => startSet \cap clients \subseteq visited
  BY DEF CaughtInv
<1>2. \A c \in visited' :
        cfgTick'[c] < tick' =>
          /\ bpc' \in {"idle", "ranging"} \/ cur' # c => Served(c)'
          /\ Filtered' /\ cur' = c => Serves(c)'
  BY <1>1 DEF caughtVars, Served, Serves, Filtered, Lossy
<1>3. \A c \in startSet' : hpc'[c] \notin {"idle", "upgraded"}
  BY <1>1 DEF caughtVars
<1>4. bpc' = "idle" => startSet' \cap clients' \subseteq visited'
  BY <1>1 DEF caughtVars
<1> QED BY <1>2, <1>3, <1>4 DEF CaughtInv

\* A message postpones what its client is promised to the next broadcast.
LEMMA CaughtMessages ==
  ASSUME TypeOK, CaughtInv, NEW c \in Conns,
         Unsubscribe(c) \/ \E v \in Viewports : Subscribe(c, v)
  PROVE  CaughtInv'
<1>1. /\ UNCHANGED <<visited, tick, bpc, cur, enq, lost, frame, view, out,
                     startSet, hpc, clients>>
      /\ cfgTick' = [cfgTick EXCEPT ![c] = tick]
  BY DEF Unsubscribe, Subscribe, Receive, beyondConn, range, sent, registry
<1>2. \A d \in Conns \ {c} : viewport'[d] = viewport[d] /\ born'[d] = born[d]
  <2>1. CASE Unsubscribe(c)
    BY <2>1 DEF Unsubscribe, TypeOK
  <2>2. ASSUME NEW v \in Viewports, Subscribe(c, v)
        PROVE  \A d \in Conns \ {c} :
                 viewport'[d] = viewport[d] /\ born'[d] = born[d]
    <3>1. UNCHANGED born \/ born' = [born EXCEPT ![c] = tick]
      BY <2>2 DEF Subscribe
    <3>2. viewport' = [viewport EXCEPT ![c] = v]
      BY <2>2 DEF Subscribe
    <3> QED BY <3>1, <3>2 DEF TypeOK
  <2> QED BY <2>1, <2>2
<1>3. \A d \in visited' :
        cfgTick'[d] < tick' =>
          /\ bpc' \in {"idle", "ranging"} \/ cur' # d => Served(d)'
          /\ Filtered' /\ cur' = d => Serves(d)'
  <2> SUFFICES ASSUME NEW d \in visited, cfgTick'[d] < tick
               PROVE  /\ bpc \in {"idle", "ranging"} \/ cur # d => Served(d)'
                      /\ Filtered /\ cur = d => Serves(d)'
    BY <1>1 DEF Filtered
  <2>1. d \in Conns /\ d # c /\ cfgTick'[d] = cfgTick[d]
    BY <1>1 DEF TypeOK
  <2>2. Served(d)' = Served(d) /\ Serves(d)' = Serves(d)
    BY <1>1, <1>2, <2>1 DEF Served, Serves, Lossy
  <2>3. /\ bpc \in {"idle", "ranging"} \/ cur # d => Served(d)
        /\ Filtered /\ cur = d => Serves(d)
    BY <2>1 DEF CaughtInv
  <2> QED BY <2>2, <2>3
<1> QED BY <1>1, <1>3 DEF CaughtInv

LEMMA CaughtRange ==
  ASSUME TypeOK, CountInv, CaughtInv,
         StartBroadcast \/ FinishBroadcast \/ \E c \in Conns : Visit(c)
  PROVE  CaughtInv'
<1>1. UNCHANGED <<cfgTick, viewport, enq, lost, view, born, hpc, clients, out>>
  BY DEF StartBroadcast, FinishBroadcast, Visit, beyondRange, registry, sent
<1>2. CASE StartBroadcast
  <2>1. visited' = {} /\ startSet' = clients /\ bpc' = "ranging"
    BY <1>2 DEF StartBroadcast
  <2>2. \A c \in clients : hpc[c] \notin {"idle", "upgraded"}
    BY HandlerMembership DEF CountInv, In
  <2> QED BY <1>1, <2>1, <2>2 DEF CaughtInv
<1>3. ASSUME NEW c \in Conns, Visit(c)
      PROVE  CaughtInv'
  <2>1. /\ UNCHANGED <<tick, frame, startSet>> /\ bpc = "ranging"
        /\ bpc' = "loaded" /\ cur' = c /\ visited' = visited \cup {c}
    BY <1>3 DEF Visit
  <2>2. \A d \in visited : cfgTick[d] < tick => Served(d)
    BY <2>1 DEF CaughtInv
  <2>3. \A d \in visited : Served(d)' = Served(d)
    BY <1>1, <2>1 DEF Served, Lossy
  <2> QED BY <1>1, <2>1, <2>2, <2>3 DEF CaughtInv, Filtered
<1>4. CASE FinishBroadcast
  <2>1. /\ UNCHANGED <<tick, frame, startSet, visited, cur>> /\ bpc = "ranging"
        /\ bpc' = "idle" /\ startSet \cap clients \subseteq visited
    BY <1>4 DEF FinishBroadcast, range
  <2>2. \A d \in visited : cfgTick[d] < tick => Served(d)
    BY <2>1 DEF CaughtInv
  <2>3. \A d \in visited : Served(d)' = Served(d)
    BY <1>1, <2>1 DEF Served, Lossy
  <2> QED BY <1>1, <2>1, <2>2, <2>3 DEF CaughtInv, Filtered
<1> QED BY <1>2, <1>3, <1>4

\* The records of the frame inside the viewport that Matched leaves out are
\* those the client has: its map says so, and the map tells the truth.
LEMMA CaughtFilter ==
  ASSUME TypeOK, FilterInv, CaughtInv, Filter
  PROVE  CaughtInv'
<1>1. /\ UNCHANGED <<cfgTick, viewport, enq, lost, view, born, hpc, clients, tick,
                     frame, startSet, visited, cur>>
      /\ bpc = "loaded" /\ bpc' \in {"ranging", "recording", "sending"}
  BY DEF Filter, Continue, beyondRange, registry, range, sent
<1>2. cur \in Conns /\ PairInv /\ frame.recs \subseteq Record
  BY DEF TypeOK, FilterInv, Frame
<1> DEFINE recs == Matched(frame, viewport[cur], lastSent[cur])
<1>3. ASSUME viewport[cur] # NoViewport, ~Lossy(cur),
             NEW r \in frame.recs, r.pos \in viewport[cur], r \notin recs
      PROVE  view[cur][r.id] = r.seq
  <2>1. lastSent[cur] # NoMap
    BY <1>2, <1>3 DEF PairInv
  <2>2. lastSent[cur][r.id] = r.seq
    BY <1>3, <2>1 DEF Matched
  <2>3. r.id \in Entities /\ r.seq # Absent
    BY <1>2 DEF Record, Absent
  <2> QED BY <1>1, <1>2, <1>3, <2>1, <2>2, <2>3 DEF FilterInv, LastSentUnlessLossy
<1>4. \A d \in visited : d # cur /\ cfgTick[d] < tick => Served(d)'
  <2>1. \A d \in visited : Served(d)' = Served(d)
    BY <1>1 DEF Served, Lossy
  <2> QED BY <2>1 DEF CaughtInv
<1>5. bpc' = "ranging" => Served(cur)'
  <2> SUFFICES ASSUME bpc' = "ranging" PROVE Served(cur)'
    OBVIOUS
  <2>1. viewport[cur] # NoViewport /\ (~frame.valid \/ recs = {})
    BY <1>2 DEF Filter, PairInv
  <2> QED BY <1>1, <1>3, <2>1 DEF Served, Lossy
<1>6. Filtered' => Serves(cur)'
  <2> SUFFICES ASSUME bpc' \in {"recording", "sending"} PROVE Serves(cur)'
    BY <1>1 DEF Filtered
  <2>1. viewport[cur] # NoViewport => out'.recs = recs
    BY <1>2 DEF Filter, Continue, PairInv
  <2> QED BY <1>1, <1>3, <2>1 DEF Serves, Lossy
<1> QED BY <1>1, <1>4, <1>5, <1>6 DEF CaughtInv

LEMMA CaughtSend ==
  ASSUME TypeOK, FilterInv, CaughtInv, SendFrame \/ DropFrame
  PROVE  CaughtInv'
<1>1. /\ UNCHANGED <<cfgTick, viewport, born, hpc, clients, tick, frame, startSet,
                     visited, cur>>
      /\ bpc = "sending" /\ bpc' = "ranging"
  BY DEF SendFrame, DropFrame, Continue, beyondRange, registry, range
<1>2. cur \in Conns /\ out.recs \subseteq Record /\ tick \in Nat
  BY DEF TypeOK, OutFrame
<1>3. \A d \in Conns \ {cur} :
        enq'[d] = enq[d] /\ lost'[d] = lost[d] /\ view'[d] = view[d]
  BY DEF SendFrame, DropFrame, TypeOK
<1>4. \A d \in visited : d # cur /\ cfgTick[d] < tick => Served(d)'
  <2>1. visited \subseteq Conns
    BY DEF TypeOK
  <2>2. \A d \in visited : d # cur => Served(d)' = Served(d)
    BY <1>1, <1>3, <2>1 DEF Served, Lossy
  <2> QED BY <2>2 DEF CaughtInv
<1>5. cur \in visited /\ cfgTick[cur] < tick => Served(cur)'
  <2> SUFFICES ASSUME cur \in visited, cfgTick[cur] < tick PROVE Served(cur)'
    OBVIOUS
  <2>1. CASE DropFrame
    <3>1. lost'[cur] = tick
      BY <1>2, <2>1 DEF DropFrame, TypeOK
    <3>2. Lossy(cur)'
      BY <1>1, <1>2, <3>1 DEF Lossy, FilterInv, TimeInv
    <3> QED BY <1>1, <3>1, <3>2 DEF Served
  <2>2. CASE SendFrame
    <3>1. enq'[cur] = tick /\ lost' = lost /\ view'[cur] = Enter(view[cur], out)
      BY <1>2, <2>2 DEF SendFrame, TypeOK
    <3>2. Serves(cur)
      BY <1>1 DEF CaughtInv, Filtered
    <3>3. ASSUME viewport[cur] # NoViewport, frame.valid, ~Lossy(cur),
                 NEW r \in frame.recs, r.pos \in viewport[cur]
          PROVE  view'[cur][r.id] = r.seq
      <4>1. \A s \in out.recs : s \in frame.recs
        BY <1>1 DEF FilterInv, FrameInv, Filtered
      <4>2. \A s, u \in frame.recs : s.id = u.id => s.seq = u.seq
        BY DEF FilterInv, FrameInv
      <4>3. CASE \E s \in out.recs : s.id = r.id
        <5>1. PICK s \in out.recs : s.id = r.id
          BY <4>3
        <5>2. \A u \in out.recs : u.id = s.id => u.seq = s.seq
          BY <4>1, <4>2
        <5>3. Enter(view[cur], out)[s.id] = s.seq
          BY <1>2, <5>2, EnterRecord
        <5> QED BY <3>1, <4>1, <4>2, <5>1, <5>3
      <4>4. CASE \A s \in out.recs : s.id # r.id
        <5>1. view[cur][r.id] = r.seq
          BY <3>2, <3>3, <4>4 DEF Serves
        <5>2. r.id \in Entities
          BY DEF TypeOK, Frame, Record
        <5> QED BY <3>1, <4>4, <5>1, <5>2, EnterOther
      <4> QED BY <4>3, <4>4
    <3> QED BY <1>1, <3>1, <3>3 DEF Served, Lossy
  <2> QED BY <2>1, <2>2
<1> QED BY <1>1, <1>4, <1>5 DEF CaughtInv, Filtered

LEMMA CaughtNext ==
  TypeOK /\ CountInv /\ FilterInv /\ CaughtInv /\ [Next]_vars => CaughtInv'
<1> SUFFICES ASSUME TypeOK, CountInv, FilterInv, CaughtInv, [Next]_vars
             PROVE  CaughtInv'
  OBVIOUS
<1>0. startSet \subseteq Conns
  BY DEF TypeOK
<1>1. ASSUME NEW c \in Conns,
             \/ Upgrade(c) \/ StoreClient(c) \/ CountUp(c) \/ OpenStream(c)
             \/ TakeFrame(c) \/ WriteOK(c) \/ WriteErr(c) \/ PumpEnd(c)
             \/ DeleteClient(c) \/ CountDown(c) \/ CloseConn(c) \/ ReadErr(c)
             \/ Disconnect(c)
      PROVE  CaughtInv'
  <2>1. UNCHANGED caughtVars
    BY <1>1
    DEF Upgrade, StoreClient, CountUp, OpenStream, TakeFrame, WriteOK, WriteErr,
        PumpEnd, DeleteClient, CountDown, CloseConn, ReadErr, Disconnect,
        beyondConn, filters, range, sent, caughtVars
  <2>2. startSet \cap clients' \subseteq clients
    <3>1. CASE StoreClient(c)
      BY <3>1 DEF StoreClient, Goto, CaughtInv
    <3>2. CASE ~StoreClient(c)
      BY <1>1, <3>2
      DEF Upgrade, CountUp, OpenStream, TakeFrame, WriteOK, WriteErr, PumpEnd,
          DeleteClient, CountDown, CloseConn, ReadErr, Disconnect, registry
    <3> QED BY <3>1, <3>2
  <2>3. \A d \in Conns : hpc'[d] \in {"idle", "upgraded"} =>
                         hpc[d] \in {"idle", "upgraded"}
    BY ZenonT(60), <1>1
    DEF Upgrade, StoreClient, CountUp, OpenStream, TakeFrame, WriteOK, WriteErr,
        PumpEnd, DeleteClient, CountDown, CloseConn, ReadErr, Disconnect, Goto,
        TypeOK
  <2> QED BY <1>0, <2>1, <2>2, <2>3, CaughtSame
<1>2. CASE Stop
  BY <1>0, <1>2, CaughtSame DEF Stop, caughtVars, filters, range, sent, registry
<1>3. CASE UNCHANGED vars
  BY <1>0, <1>3, CaughtSame
  DEF vars, beyondConn, caughtVars, filters, range, sent, registry
<1>4. CASE RecordSent \/ SendPanic
  <2>1. /\ UNCHANGED <<visited, cfgTick, tick, cur, viewport, enq, lost, frame,
                       view, born, out, startSet, clients, hpc>>
        /\ bpc \in {"recording", "sending"} /\ bpc' \in {"sending", "panicked"}
    BY <1>4 DEF RecordSent, SendPanic, beyondRange, range, sent, registry
  <2>2. \A d \in visited : Served(d)' = Served(d) /\ Serves(d)' = Serves(d)
    BY <2>1 DEF Served, Serves, Lossy
  <2>3. \A d \in visited :
          cfgTick[d] < tick => /\ cur # d => Served(d)
                               /\ cur = d => Serves(d)
    BY <2>1 DEF CaughtInv, Filtered
  <2> QED BY <2>1, <2>2, <2>3 DEF CaughtInv
<1> QED
  BY <1>1, <1>2, <1>3, <1>4, CaughtMessages, CaughtRange, CaughtFilter, CaughtSend
  DEF Next, Handler, Broadcaster

\* Every client that was connected throughout a broadcast and did not change its
\* subscription meanwhile has been served by it, or lost a frame.
THEOREM ClientsCaughtUp == Spec => []CaughtUp
<1>1. Init => CaughtInv
  BY DEF Init, CaughtInv
<1>2. CaughtInv => CaughtUp
  <2> SUFFICES ASSUME CaughtInv, NEW c \in startSet \cap clients,
                      bpc = "idle", cfgTick[c] < tick
               PROVE  Served(c)
    BY DEF CaughtUp, Served
  <2> QED BY DEF CaughtInv
<1> QED
  BY <1>1, <1>2, CaughtNext, FilterInvariant, CountInvariant, TypeCorrect, PTL
  DEF Spec

=============================================================================
