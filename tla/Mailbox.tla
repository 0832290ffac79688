------------------------------ MODULE Mailbox ------------------------------
(***************************************************************************)
(* What the broker promises each client, with no word of locks, publishers *)
(* or the map of subscribers: a mailbox of its own.  A notification goes   *)
(* in behind the others, or is lost, and that only while the mailbox is    *)
(* full; either way it is newer than everything the same leaf sent before. *)
(* The client takes notifications out from the front, and once it has left *)
(* nothing happens to its mailbox any more.  Notifications implements it.  *)
(***************************************************************************)
EXTENDS Integers, Sequences

CONSTANTS
  Clients,
  Notes,   \* pairs of a leaf and the number of its notification
  Capacity \* of a mailbox

VARIABLES
  open,   \* clients that are connected
  queue,  \* what waits for each client
  settled \* what was put into the client's mailbox or lost so far

vars == <<open, queue, settled>>

Init ==
  /\ open = {}
  /\ queue = [c \in Clients |-> <<>>]
  /\ settled = [c \in Clients |-> {}]

\* A mailbox is new when its client connects.
Open(c) ==
  /\ c \notin open
  /\ queue[c] = <<>> /\ settled[c] = {}
  /\ open' = open \cup {c}
  /\ UNCHANGED <<queue, settled>>

Settle(c, n) ==
  /\ c \in open
  /\ \A m \in settled[c] : m[1] = n[1] => m[2] < n[2]
  /\ settled' = [settled EXCEPT ![c] = @ \cup {n}]
  /\ UNCHANGED open

Put(c, n) ==
  /\ Settle(c, n)
  /\ Len(queue[c]) < Capacity
  /\ queue' = [queue EXCEPT ![c] = Append(@, n)]

Lose(c, n) ==
  /\ Settle(c, n)
  /\ Len(queue[c]) = Capacity
  /\ UNCHANGED queue

Take(c) ==
  /\ c \in open
  /\ queue[c] # <<>>
  /\ queue' = [queue EXCEPT ![c] = Tail(@)]
  /\ UNCHANGED <<open, settled>>

Close(c) ==
  /\ c \in open
  /\ open' = open \ {c}
  /\ UNCHANGED <<queue, settled>>

Next ==
  \E c \in Clients :
    \/ Open(c) \/ Take(c) \/ Close(c)
    \/ \E n \in Notes : Put(c, n) \/ Lose(c, n)

Spec == Init /\ [][Next]_vars
=============================================================================
