---------------------------- MODULE FeedConnector ----------------------------
(***************************************************************************)
(* The loop that keeps a feed connected (applications/adsb/feed.go and,    *)
(* line for line the same, applications/ais/feed.go): dial, read until the *)
(* connection fails, wait, dial again, until the context is cancelled.     *)
(* Each session starts a goroutine that closes the connection on           *)
(* cancellation, because the blocking read does not watch the context.     *)
(***************************************************************************)
EXTENDS Integers

CONSTANTS
  MaxSessions,  \* bound on the sessions
  MaxFailures   \* bound on the dials that fail

ASSUME BoundAssumption == MaxSessions \in Nat /\ MaxFailures \in Nat

VARIABLES
  pc,         \* where Connect is
  cancelled,  \* ctx is done
  session,    \* the sessions so far
  open,       \* the connections that are open, by session
  watchers,   \* the goroutines that wait for ctx, by session
  failures    \* the dials that failed

connVars == <<pc, cancelled, session, open, watchers, failures>>

Sessions == 1 .. MaxSessions

ConnInit ==
  /\ pc = "check" /\ cancelled = FALSE
  /\ session = 0 /\ open = {} /\ watchers = {} /\ failures = 0

\* The top of the loop.
Check ==
  /\ pc = "check"
  /\ pc' = IF cancelled THEN "done" ELSE "dial"
  /\ UNCHANGED <<cancelled, session, open, watchers, failures>>

DialFails ==
  /\ pc = "dial" /\ (cancelled \/ failures < MaxFailures)
  /\ pc' = "backoff"
  /\ failures' = IF cancelled THEN failures ELSE failures + 1
  /\ UNCHANGED <<cancelled, session, open, watchers>>

\* Fault: the goroutine gets the connection of the session before.
DialWatchesLast ==
  /\ pc = "dial" /\ session < MaxSessions
  /\ pc' = "read"
  /\ session' = session + 1
  /\ open' = open \cup {session + 1}
  /\ watchers' = watchers \cup {session}
  /\ UNCHANGED <<cancelled, failures>>

\* Connected; runSession starts the goroutine.
DialSucceeds ==
  /\ pc = "dial" /\ session < MaxSessions
  /\ pc' = "read"
  /\ session' = session + 1
  /\ open' = open \cup {session + 1}
  /\ watchers' = watchers \cup {session + 1}
  /\ UNCHANGED <<cancelled, failures>>

\* Fault: nobody wakes the read when the context is cancelled.
WatchOnly(k) ==
  /\ k \in watchers /\ cancelled
  /\ watchers' = watchers \ {k}
  /\ UNCHANGED <<pc, cancelled, session, open, failures>>

\* The goroutine of session k; closing a closed connection does nothing.
Watch(k) ==
  /\ k \in watchers /\ cancelled
  /\ watchers' = watchers \ {k}
  /\ open' = open \ {k}
  /\ UNCHANGED <<pc, cancelled, session, failures>>

\* The read returns data, which the caller hands to the decoder.
ReadData ==
  /\ pc = "read" /\ session \in open
  /\ UNCHANGED connVars

\* runSession returns and Connect closes the connection.
SessionEnds ==
  /\ pc = "read"
  /\ pc' = "wait"
  /\ open' = open \ {session}
  /\ UNCHANGED <<cancelled, session, watchers, failures>>

\* The peer closed the connection, or it broke.
PeerGone == session \in open /\ SessionEnds

\* The goroutine closed it under the read.
ReadFails == session \notin open /\ SessionEnds

Waiting == {"wait", "backoff"}

\* The two waits: the select takes either of its cases when both are ready.
CancelledInWait ==
  /\ pc \in Waiting /\ cancelled
  /\ pc' = "done"
  /\ UNCHANGED <<cancelled, session, open, watchers, failures>>

DelayOver ==
  /\ pc \in Waiting
  /\ pc' = "check"
  /\ UNCHANGED <<cancelled, session, open, watchers, failures>>

\* The owner of the context, at any time.
Cancel ==
  /\ ~cancelled /\ cancelled' = TRUE
  /\ UNCHANGED <<pc, session, open, watchers, failures>>

-----------------------------------------------------------------------------
(* Properties.                                                             *)

ConnTypeOK ==
  /\ pc \in {"check", "dial", "backoff", "read", "wait", "done"}
  /\ cancelled \in BOOLEAN
  /\ session \in 0 .. MaxSessions /\ failures \in 0 .. MaxFailures
  /\ open \subseteq 1 .. session /\ watchers \subseteq 1 .. session

\* Only the session's connection is ever open, and the goroutine that closes it on
\* cancellation is there: reconnecting leaves none behind, and no read is out of
\* reach of the context.
OpenIsWatched == open # {} => pc = "read" /\ open = {session} /\ session \in watchers

\* Cancellation ends Connect, wherever it is, with no connection and no
\* goroutine left behind.
CancelEnds == cancelled ~> (pc = "done" /\ open = {} /\ watchers = {})
=============================================================================
