------------------------------ MODULE LossyFeed ------------------------------
(***************************************************************************)
(* What the fan-out of edge/server.go promises each client, without        *)
(* goroutines, channels or registries: frames are published one after the  *)
(* other; a client is offered the newest frame at most once, or never; what *)
(* was accepted for it is delivered in order, with no gap and no repeat,   *)
(* until its connection ends; and only so much is ever in flight.          *)
(***************************************************************************)
EXTENDS Integers, Sequences

CONSTANTS Clients,  \* the clients
          Capacity  \* how many frames may be in flight to one of them

VARIABLES published,  \* number of frames published
          offered,    \* per client, the last frame accepted for it
          inflight,   \* per client, the frames accepted and not delivered
          received,   \* per client, the last frame delivered
          over        \* per client, whether its connection has ended

feedVars == <<published, offered, inflight, received, over>>

FeedInit ==
  /\ published = 0
  /\ offered = [c \in Clients |-> 0]
  /\ inflight = [c \in Clients |-> <<>>]
  /\ received = [c \in Clients |-> 0]
  /\ over = [c \in Clients |-> FALSE]

Publish ==
  /\ published' = published + 1
  /\ UNCHANGED <<offered, inflight, received, over>>

\* The newest frame is accepted for c; not accepting it is no step at all.
Accept(c) ==
  /\ offered[c] < published
  /\ Len(inflight[c]) < Capacity
  /\ offered' = [offered EXCEPT ![c] = published]
  /\ inflight' = [inflight EXCEPT ![c] = Append(@, published)]
  /\ UNCHANGED <<published, received, over>>

Deliver(c) ==
  /\ ~over[c] /\ inflight[c] # <<>>
  /\ received' = [received EXCEPT ![c] = Head(inflight[c])]
  /\ inflight' = [inflight EXCEPT ![c] = Tail(@)]
  /\ UNCHANGED <<published, offered, over>>

\* The connection ends, perhaps while a frame is being written.
End(c) ==
  /\ ~over[c]
  /\ over' = [over EXCEPT ![c] = TRUE]
  /\ \/ UNCHANGED inflight
     \/ /\ inflight[c] # <<>>
        /\ inflight' = [inflight EXCEPT ![c] = Tail(@)]
  /\ UNCHANGED <<published, offered, received>>

FeedNext == Publish \/ \E c \in Clients : Accept(c) \/ Deliver(c) \/ End(c)

FeedSpec == FeedInit /\ [][FeedNext]_feedVars

==============================================================================
