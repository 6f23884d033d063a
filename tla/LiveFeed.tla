------------------------------ MODULE LiveFeed ------------------------------
(***************************************************************************)
(* The gateway's live feed (app/routes/stream.py): one Kafka consumer      *)
(* broadcasts every evaluated transaction to the ConnectionManager's list  *)
(* of websockets.  broadcast iterates over the live list and awaits each   *)
(* send, and between two sends other handlers add and remove connections.  *)
(***************************************************************************)
EXTENDS Naturals, Sequences, FiniteSets, SequencesExt

CONSTANTS Sockets,    \* websockets that may connect, each once
          MaxFeed     \* bound: records of fraud.evaluated.transactions

ASSUME FeedAssumption == IsFiniteSet(Sockets) /\ MaxFeed \in Nat

NoOffset == 0

VARIABLES
  socket,     \* "new", "open", "broken" (the peer is gone), "closed"
  active,     \* active_connections, in order
  feed,       \* records published so far
  committed,  \* offset the group committed, NoOffset if it never did
  consumer,   \* "stopped", "running", "sleeping" (after an error)
  position,   \* next record the consumer reads
  cursor,     \* the broadcast in progress: index of the next connection, or NoOffset
  dead,       \* disconnected: sends that raised
  reached,    \* history: sockets the broadcast has been sent to
  staying,    \* history: sockets listed throughout the broadcast
  removals    \* history: sockets other handlers took out of the list meanwhile

feedVars == <<socket, active, feed, committed, consumer, position, cursor, dead,
              reached, staying, removals>>
broadcasting == <<cursor, dead, reached>>
group == <<committed, consumer, position>>

FeedTypeOK ==
  /\ socket \in [Sockets -> {"new", "open", "broken", "closed"}]
  /\ active \in Seq(Sockets)
  /\ feed \in 0..MaxFeed
  /\ committed \in 0..MaxFeed + 1 /\ position \in 0..MaxFeed + 1
  /\ consumer \in {"stopped", "running", "sleeping"}
  /\ cursor \in 0..Cardinality(Sockets) + 1
  /\ dead \in Seq(Sockets)
  /\ reached \in SUBSET Sockets /\ staying \in SUBSET Sockets
  /\ removals \in Nat

FeedInit ==
  /\ socket = [s \in Sockets |-> "new"]
  /\ active = <<>>
  /\ feed = 0 /\ committed = NoOffset
  /\ consumer = "stopped" /\ position = 0
  /\ cursor = NoOffset /\ dead = <<>>
  /\ reached = {} /\ staying = {} /\ removals = 0
-----------------------------------------------------------------------------
Listed == {active[i] : i \in DOMAIN active}

\* What list.remove leaves of a list that has each connection once.
Without(list, gone) ==
  LET kept[i \in 0..Len(list)] ==
        IF i = 0 THEN <<>>
        ELSE IF list[i] \in gone THEN kept[i - 1] ELSE Append(kept[i - 1], list[i])
  IN  kept[Len(list)]

\* ConnectionManager.disconnect: out of the list if it is still in it.
Unlist(gone) ==
  /\ active' = Without(active, gone)
  /\ staying' = staying \ gone
  /\ removals' = removals + Cardinality(gone \cap Listed)

Connect(s) ==
  /\ socket[s] = "new"
  /\ socket' = [socket EXCEPT ![s] = "open"]
  /\ active' = Append(active, s)
  /\ UNCHANGED <<feed, group, broadcasting, staying, removals>>

\* The peer goes away: sends raise from now on.
PeerLeaves(s) ==
  /\ socket[s] = "open"
  /\ socket' = [socket EXCEPT ![s] = "broken"]
  /\ UNCHANGED <<active, feed, group, broadcasting, staying, removals>>

\* receive_text raises WebSocketDisconnect in the socket's own handler.
ReceiveRaises(s) ==
  /\ socket[s] = "broken"
  /\ socket' = [socket EXCEPT ![s] = "closed"]
  /\ Unlist({s})
  /\ UNCHANGED <<feed, group, broadcasting>>
-----------------------------------------------------------------------------
\* consume_evaluated_transactions: a group without an offset starts at the end.
StartConsumer ==
  /\ consumer # "running"
  /\ consumer' = "running"
  /\ position' = IF committed = NoOffset THEN feed + 1 ELSE committed
  /\ UNCHANGED <<socket, active, feed, committed, broadcasting, staying, removals>>

\* The orchestrator publishes.
PublishEvaluated ==
  /\ feed < MaxFeed
  /\ feed' = feed + 1
  /\ UNCHANGED <<socket, active, group, broadcasting, staying, removals>>

Fetch ==
  /\ consumer = "running" /\ cursor = NoOffset /\ position <= feed
  /\ cursor' = 1 /\ position' = position + 1
  /\ dead' = <<>> /\ reached' = {} /\ staying' = Listed /\ removals' = 0
  /\ UNCHANGED <<socket, active, feed, committed, consumer>>

\* Mutant: a connection whose send raises is removed at once, under the iterator.
SendRemoving ==
  /\ cursor \in DOMAIN active
  /\ LET s == active[cursor] IN
       IF socket[s] = "open"
       THEN reached' = reached \cup {s} /\ UNCHANGED <<active, staying, removals>>
       ELSE /\ active' = Without(active, {s})
            /\ staying' = staying \ {s}
            /\ UNCHANGED <<reached, removals>>
  /\ cursor' = cursor + 1
  /\ UNCHANGED <<socket, feed, group, dead>>

\* The iterator yields the connection at its index and send_text is awaited.
Send ==
  /\ cursor \in DOMAIN active
  /\ LET s == active[cursor] IN
       IF socket[s] = "open" THEN reached' = reached \cup {s} /\ UNCHANGED dead
                             ELSE dead' = Append(dead, s) /\ UNCHANGED reached
  /\ cursor' = cursor + 1
  /\ UNCHANGED <<socket, active, feed, group, staying, removals>>

\* The iterator is exhausted: the dead connections leave the list.
EndBroadcast ==
  /\ cursor > Len(active)
  /\ Unlist(ToSet(dead))
  /\ cursor' = NoOffset
  /\ UNCHANGED <<socket, feed, group, dead, reached>>

\* A timer of the client, also in the middle of a broadcast.
AutoCommit ==
  /\ consumer = "running"
  /\ committed' = position
  /\ UNCHANGED <<socket, active, feed, consumer, position, broadcasting, staying, removals>>

\* Reading raises: the consumer is stopped, which commits where it stands, and
\* the loop sleeps before it makes another.
ConsumerError ==
  /\ consumer = "running" /\ cursor = NoOffset
  /\ consumer' = "sleeping"
  /\ committed' \in {committed, position}
  /\ UNCHANGED <<socket, active, feed, position, broadcasting, staying, removals>>

FeedNext ==
  \/ \E s \in Sockets : Connect(s) \/ PeerLeaves(s) \/ ReceiveRaises(s)
  \/ StartConsumer \/ PublishEvaluated \/ Fetch \/ Send \/ EndBroadcast
  \/ AutoCommit \/ ConsumerError

FeedSpec == FeedInit /\ [][FeedNext]_feedVars
-----------------------------------------------------------------------------
\* However the list changes, no connection is sent a message twice or listed
\* twice.  One that was listed during a whole broadcast misses the message only
\* because the list shrank under the iterator, and every removal costs at most
\* one connection its message.
BroadcastReaches ==
  /\ Cardinality(Listed) = Len(active)
  /\ cursor # NoOffset => \A i \in cursor..Len(active) : active[i] \notin reached
  /\ cursor > Len(active) =>
       Cardinality({s \in staying \ reached : socket[s] = "open"}) <= removals
=============================================================================
