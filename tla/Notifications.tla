--------------------------- MODULE Notifications ---------------------------
(***************************************************************************)
(* Notifications on their way from the leaves to the clients:              *)
(*   - the listener of each streamable-http leaf (leaf_client.rs:          *)
(*     run_notification_stream), which publishes one event after another;  *)
(*   - the broker (notifications.rs), a map from subscriber ids to bounded *)
(*     channels under a read-write lock;                                   *)
(*   - the SSE streams of the clients (server.rs: get_mcp) and the guard   *)
(*     that unsubscribes when a stream is dropped.                         *)
(* publish holds the read lock while it visits the channels and takes the  *)
(* write lock afterwards to remove dead ones, so publishers overlap, while *)
(* subscribe, unsubscribe and removal wait for all of them.                *)
(*                                                                         *)
(* A notification is its leaf and its number.  A channel is the log of all *)
(* that was ever put into it and how much of that the client has read.     *)
(***************************************************************************)
EXTENDS Integers, Sequences

CONSTANTS
  Leaves,         \* streamable-http leaves known at start-up
  Clients,        \* SSE streams; each has its own subscriber id
  CHANNEL_BUFFER, \* capacity of a channel
  MaxEvents       \* bound: events a leaf emits

ASSUME NotificationsAssumption ==
  /\ CHANNEL_BUFFER \in Nat \ {0}
  /\ MaxEvents \in Nat

VARIABLES
  stream,      \* the SSE connection to each leaf
  emitted,     \* events read from it so far
  pub,         \* what the listener of the leaf is doing
  todo,        \* channels the loop of publish has yet to visit
  to_remove,   \* publish's local of that name
  subscribers, \* NotificationBroker.subscribers: the ids in the map
  conn,        \* the SSE stream of each client and its guard
  log,         \* everything put into the client's channel
  taken,       \* how many of them the client has read
  full,        \* history: notifications refused because the channel was full
  offered      \* history: notifications published while the client was in the map

locals == <<todo, to_remove>>
channels == <<log, taken, full>>
vars == <<stream, emitted, pub, locals, subscribers, conn, channels, offered>>

Note == Leaves \X (1..MaxEvents)

TypeOK ==
  /\ stream \in [Leaves -> {"connecting", "open", "closed", "timed_out"}]
  /\ emitted \in [Leaves -> 0..MaxEvents]
  /\ pub \in [Leaves -> {"read", "send", "remove"}]
  /\ todo \in [Leaves -> SUBSET Clients]
  /\ to_remove \in [Leaves -> SUBSET Clients]
  /\ subscribers \subseteq Clients
  /\ conn \in [Clients -> {"new", "open", "dropped", "done"}]
  /\ log \in [Clients -> Seq(Note)]
  /\ taken \in [Clients -> Nat]
  /\ full \in [Clients -> SUBSET Note]
  /\ offered \in [Clients -> SUBSET Note]

Init ==
  /\ stream = [l \in Leaves |-> "connecting"]
  /\ emitted = [l \in Leaves |-> 0]
  /\ pub = [l \in Leaves |-> "read"]
  /\ todo = [l \in Leaves |-> {}]
  /\ to_remove = [l \in Leaves |-> {}]
  /\ subscribers = {}
  /\ conn = [c \in Clients |-> "new"]
  /\ log = [c \in Clients |-> <<>>]
  /\ taken = [c \in Clients |-> 0]
  /\ full = [c \in Clients |-> {}]
  /\ offered = [c \in Clients |-> {}]

\* Variant of WriteLock: the write lock does not wait for readers.
WriteLockAtOnce == TRUE

\* The write lock is granted when no publish is in its loop.
WriteLock == \A l \in Leaves : pub[l] # "send"

-----------------------------------------------------------------------------
\* listen_notifications, for every leaf at start-up.

Connected(l) ==
  /\ stream[l] = "connecting"
  /\ stream' = [stream EXCEPT ![l] = "open"]
  /\ UNCHANGED <<emitted, pub, locals, subscribers, conn, channels, offered>>

\* The GET fails or the leaf closes the stream: the task returns.
StreamEnds(l) ==
  /\ stream[l] \in {"connecting", "open"}
  /\ pub[l] = "read"
  /\ stream' = [stream EXCEPT ![l] = "closed"]
  /\ UNCHANGED <<emitted, pub, locals, subscribers, conn, channels, offered>>

\* The client's timeout of timeout_seconds, which covers the body of a response
\* too, strikes while the next event is awaited: the task returns.
TimesOut(l) ==
  /\ stream[l] \in {"connecting", "open"}
  /\ pub[l] = "read"
  /\ stream' = [stream EXCEPT ![l] = "timed_out"]
  /\ UNCHANGED <<emitted, pub, locals, subscribers, conn, channels, offered>>

\* An event whose payload does not parse is skipped.
Malformed(l) ==
  /\ stream[l] = "open"
  /\ pub[l] = "read"
  /\ emitted[l] < MaxEvents
  /\ emitted' = [emitted EXCEPT ![l] = @ + 1]
  /\ UNCHANGED <<stream, pub, locals, subscribers, conn, channels, offered>>

\* Variant of NextEvent: data_buf is not cleared, and the event dispatched again.
SameEvent(l) == IF emitted[l] = 0 THEN 1 ELSE emitted[l]

NextEvent(l) == emitted[l] + 1

\* dispatch_event calls publish, which takes the read lock.
Publish(l) ==
  /\ stream[l] = "open"
  /\ pub[l] = "read"
  /\ emitted[l] < MaxEvents
  /\ emitted' = [emitted EXCEPT ![l] = NextEvent(l)]
  /\ offered' = [c \in Clients |->
       IF c \in subscribers THEN offered[c] \cup {<<l, NextEvent(l)>>} ELSE offered[c]]
  /\ pub' = [pub EXCEPT ![l] = "send"]
  /\ todo' = [todo EXCEPT ![l] = subscribers]
  /\ to_remove' = [to_remove EXCEPT ![l] = {}]
  /\ UNCHANGED <<stream, subscribers, conn, channels>>

Pending(c) == Len(log[c]) - taken[c]

\* try_send finds a free slot.
Room(c) == Pending(c) < CHANNEL_BUFFER

\* try_send succeeds.
Sent(l) ==
  \E c \in todo[l] :
    /\ pub[l] = "send"
    /\ conn[c] = "open"
    /\ Room(c)
    /\ log' = [log EXCEPT ![c] = Append(@, <<l, emitted[l]>>)]
    /\ todo' = [todo EXCEPT ![l] = @ \ {c}]
    /\ UNCHANGED <<stream, emitted, pub, to_remove, subscribers, conn, taken, full, offered>>

\* Variant of AfterFull: the channels that the loop has yet to visit are taken for
\* dead together with the full one.
AfterFullRemoves(l, c) == to_remove[l] \cup todo[l]

\* A full channel is left in the map.
AfterFull(l, c) == to_remove[l]

\* Variant of AfterRefusal: the loop is left at the first full channel.
AfterRefusalNone(l, c) == {}

\* The loop goes on to the other channels.
AfterRefusal(l, c) == todo[l] \ {c}

\* try_send fails: the channel is full, and the notification is lost for it.
Full(l) ==
  \E c \in todo[l] :
    /\ pub[l] = "send"
    /\ conn[c] = "open"
    /\ ~Room(c)
    /\ full' = [full EXCEPT ![c] = @ \cup {<<l, emitted[l]>>}]
    /\ todo' = [todo EXCEPT ![l] = AfterRefusal(l, c)]
    /\ to_remove' = [to_remove EXCEPT ![l] = AfterFull(l, c)]
    /\ UNCHANGED <<stream, emitted, pub, subscribers, conn, log, taken, offered>>

\* try_send fails: the receiver is gone.
Closed(l) ==
  \E c \in todo[l] :
    /\ pub[l] = "send"
    /\ conn[c] # "open"
    /\ to_remove' = [to_remove EXCEPT ![l] = @ \cup {c}]
    /\ todo' = [todo EXCEPT ![l] = @ \ {c}]
    /\ UNCHANGED <<stream, emitted, pub, subscribers, conn, channels, offered>>

\* The end of the loop: the read lock is released.
Released(l) ==
  /\ pub[l] = "send"
  /\ todo[l] = {}
  /\ pub' = [pub EXCEPT ![l] = IF to_remove[l] = {} THEN "read" ELSE "remove"]
  /\ UNCHANGED <<stream, emitted, locals, subscribers, conn, channels, offered>>

\* The dead channels found are removed under the write lock.
RemoveDead(l) ==
  /\ pub[l] = "remove"
  /\ WriteLock
  /\ subscribers' = subscribers \ to_remove[l]
  /\ pub' = [pub EXCEPT ![l] = "read"]
  /\ UNCHANGED <<stream, emitted, locals, conn, channels, offered>>

-----------------------------------------------------------------------------
\* get_mcp, for a session that is valid: subscribe, and the stream is served.
Subscribe(c) ==
  /\ conn[c] = "new"
  /\ WriteLock
  /\ subscribers' = subscribers \cup {c}
  /\ conn' = [conn EXCEPT ![c] = "open"]
  /\ UNCHANGED <<stream, emitted, pub, locals, channels, offered>>

\* The client takes the next notification off its stream.
Read(c) ==
  /\ conn[c] = "open"
  /\ Pending(c) > 0
  /\ taken' = [taken EXCEPT ![c] = @ + 1]
  /\ UNCHANGED <<stream, emitted, pub, locals, subscribers, conn, log, full, offered>>

\* Variant of AfterDrop: the guard spawns no task.
AfterDropNothing == "done"

\* SubscriptionGuard::drop spawns the unsubscribe task.
AfterDrop == "dropped"

\* The client goes away: the receiver is dropped, then the guard.
Disconnect(c) ==
  /\ conn[c] = "open"
  /\ conn' = [conn EXCEPT ![c] = AfterDrop]
  /\ UNCHANGED <<stream, emitted, pub, locals, subscribers, channels, offered>>

Unsubscribe(c) ==
  /\ conn[c] = "dropped"
  /\ WriteLock
  /\ subscribers' = subscribers \ {c}
  /\ conn' = [conn EXCEPT ![c] = "done"]
  /\ UNCHANGED <<stream, emitted, pub, locals, channels, offered>>

PublishStep(l) == Sent(l) \/ Full(l) \/ Closed(l) \/ Released(l) \/ RemoveDead(l)

Next ==
  \/ \E l \in Leaves :
       \/ Connected(l) \/ StreamEnds(l) \/ TimesOut(l)
       \/ Malformed(l) \/ Publish(l) \/ PublishStep(l)
  \/ \E c \in Clients : Subscribe(c) \/ Read(c) \/ Disconnect(c) \/ Unsubscribe(c)

Spec == Init /\ [][Next]_vars

-----------------------------------------------------------------------------
\* notifications.rs:68: publishers overlap, and yet a client gets the
\* notifications of one leaf in the order the leaf sent them, each at most once.
InOrder ==
  \A c \in Clients : \A i, j \in 1..Len(log[c]) :
    i < j /\ log[c][i][1] = log[c][j][1] => log[c][i][2] < log[c][j][2]

\* notifications.rs:73: a connected client misses a notification published
\* since it subscribed only where its own channel was full: overlapping
\* publishers, other clients' full or dead channels and their removal cost it
\* nothing.
GapsOnlyWhenFull ==
  \A c \in Clients : conn[c] = "open" =>
    offered[c] = full[c] \cup {log[c][i] : i \in 1..Len(log[c])}
                 \cup {<<l, emitted[l]>> : l \in {k \in Leaves : c \in todo[k]}}

\* notifications.rs:91: channels are removed from a list made before the write
\* lock was granted, by several publishers; a connected client whose own channel
\* was never full is not unsubscribed by that, whatever became of the others.
PromptStaysSubscribed ==
  \A c \in Clients : conn[c] = "open" /\ full[c] = {} => c \in subscribers

\* notifications.rs:65-67: "Dead or full channels are dropped from the roster":
\* when publish is done, a channel that had no room for the notification is not
\* in the map.  Refuted: such a channel is not put into to_remove.
FullIsDropped ==
  \A l \in Leaves, c \in Clients :
    pub[l] = "read" /\ <<l, emitted[l]>> \in full[c] => c \notin subscribers

\* server.rs:247: no id outlives its stream in the map for longer than the
\* unsubscribe task of its guard takes, whether or not anything is published.
NoOrphans == \A c \in subscribers : conn[c] \in {"open", "dropped"}

\* What publish has yet to visit is in the map, what it will remove is dead or
\* was full, and what it published is not older than what the channels hold.
PublishConsistent ==
  /\ \A l \in Leaves :
       /\ todo[l] \subseteq subscribers
       /\ pub[l] # "send" => todo[l] = {}
       /\ pub[l] = "send" => emitted[l] > 0
       /\ \A c \in to_remove[l] : conn[c] \in {"dropped", "done"} \/ full[c] # {}
  /\ \A c \in Clients :
       /\ conn[c] \in {"new", "done"} => c \notin subscribers
       /\ \A i \in 1..Len(log[c]) :
            LET l == log[c][i][1] IN
              log[c][i][2] <= emitted[l] /\ (c \in todo[l] => log[c][i][2] < emitted[l])

\* A channel is made when its client subscribes, and is empty then.
FreshChannels ==
  \A c \in Clients : conn[c] = "new" => offered[c] = {} /\ full[c] = {} /\ log[c] = <<>>

\* A client reads no more than its channel was given, which holds no more than it
\* has room for, and what was refused is not newer than what is published.
ChannelsConsistent ==
  \A c \in Clients :
    /\ taken[c] <= Len(log[c])
    /\ Pending(c) <= CHANNEL_BUFFER
    /\ \A m \in full[c] :
         m[2] <= emitted[m[1]] /\ (c \in todo[m[1]] => m[2] < emitted[m[1]])

\* notifications.rs: everything above, which holds at every step.
IInv ==
  /\ TypeOK /\ PublishConsistent /\ FreshChannels /\ ChannelsConsistent
  /\ InOrder /\ PromptStaysSubscribed /\ GapsOnlyWhenFull

\* The clients whose stream is served, what waits for each, and what its channel
\* took or refused.
absOpen == {c \in Clients : conn[c] = "open"}
absQueue == [c \in Clients |-> SubSeq(log[c], taken[c] + 1, Len(log[c]))]
absSettled == [c \in Clients |-> full[c] \cup {log[c][i] : i \in 1..Len(log[c])}]

M == INSTANCE Mailbox WITH
       Notes <- Note, Capacity <- CHANNEL_BUFFER,
       open <- absOpen, queue <- absQueue, settled <- absSettled

\* notifications.rs:68: although publishers overlap and visit the channels of a map
\* that changes between two of them, every client has a bounded mailbox of its
\* own, in the order of each leaf, that loses only while it is full.
ImplementsMailbox == M!Spec
=============================================================================
