----------------------- MODULE Notifications_proofs -----------------------
(***************************************************************************)
(* Order, uniqueness and subscription of notifications, for any number of  *)
(* leaves, clients and events and any size of the channels.                *)
(***************************************************************************)
EXTENDS Notifications, SequenceTheorems, TLAPS

\* What a try_send that succeeds does: channel c grows by the notification that
\* leaf l is publishing, and no other channel changes.
SentTo(l, c) ==
  /\ c \in todo[l] /\ pub[l] = "send" /\ conn[c] = "open" /\ Room(c)
  /\ log' \in [Clients -> Seq(Note)] /\ log'[c] = Append(log[c], <<l, emitted[l]>>)
  /\ Len(log'[c]) = Len(log[c]) + 1
  /\ \A i \in 1..Len(log[c]) : log'[c][i] = log[c][i]
  /\ log'[c][Len(log[c]) + 1] = <<l, emitted[l]>>
  /\ \A d \in Clients : d # c => log'[d] = log[d]
  /\ todo' = [todo EXCEPT ![l] = @ \ {c}]

\* Sent is such a step.
LEMMA SentFacts ==
  ASSUME IInv, NEW l \in Leaves, Sent(l)
  PROVE  \E c \in Clients : SentTo(l, c)
  <1>1. PICK c \in todo[l] :
          /\ pub[l] = "send" /\ conn[c] = "open" /\ Room(c)
          /\ log' = [log EXCEPT ![c] = Append(@, <<l, emitted[l]>>)]
          /\ todo' = [todo EXCEPT ![l] = @ \ {c}]
    BY DEF Sent
  <1>2. c \in Clients /\ log[c] \in Seq(Note) /\ log \in [Clients -> Seq(Note)]
    BY DEF IInv, TypeOK
  <1>3. emitted[l] \in 1..MaxEvents
    BY <1>1, NotificationsAssumption DEF IInv, TypeOK, PublishConsistent
  <1>4. <<l, emitted[l]>> \in Note
    BY <1>3 DEF Note
  <1> DEFINE n == <<l, emitted[l]>>
             q == Append(log[c], n)
  <1>5. q \in Seq(Note) /\ Len(q) = Len(log[c]) + 1 /\ q[Len(log[c]) + 1] = n
        /\ \A i \in 1..Len(log[c]) : q[i] = log[c][i]
    <2>1. n \in Note
      BY <1>4
    <2> HIDE DEF n
    <2> QED
      BY <1>2, <2>1
  <1>6. log'[c] = q /\ \A d \in Clients : d # c => log'[d] = log[d]
    BY <1>1, <1>2
  <1>7. log' \in [Clients -> Seq(Note)]
    BY <1>1, <1>2, <1>5
  <1> QED
    BY <1>1, <1>2, <1>4, <1>5, <1>6, <1>7 DEF SentTo

\* What a try_send that finds no room does: the notification is lost for c.
FullAt(l, c) ==
  /\ pub[l] = "send" /\ conn[c] = "open" /\ ~Room(c)
  /\ full' = [full EXCEPT ![c] = @ \cup {<<l, emitted[l]>>}]
  /\ todo' = [todo EXCEPT ![l] = @ \ {c}]
  /\ UNCHANGED <<stream, emitted, pub, to_remove, subscribers, conn, log, taken, offered>>

\* Full is such a step.
LEMMA FullFacts ==
  ASSUME IInv, NEW l \in Leaves, Full(l)
  PROVE  \E c \in todo[l] : FullAt(l, c)
  BY DEF IInv, TypeOK, Full, FullAt, AfterRefusal, AfterFull

\* An index of a channel after the step is one of before or the new last one.
LEMMA SentIndex ==
  ASSUME TypeOK, NEW l \in Leaves, NEW c \in Clients, SentTo(l, c),
         NEW d \in Clients, NEW i \in 1..Len(log'[d])
  PROVE  \/ i \in 1..Len(log[d]) /\ log'[d][i] = log[d][i] /\ log[d][i] \in Note
         \/ d = c /\ i = Len(log[c]) + 1 /\ log'[d][i] = <<l, emitted[l]>>
  <1>1. log[d] \in Seq(Note) /\ Len(log[d]) \in Nat
    BY DEF TypeOK
  <1>2. CASE d # c
    <2>1. log'[d] = log[d]
      BY <1>2 DEF SentTo
    <2> QED
      BY <1>1, <2>1
  <1>3. CASE d = c
    <2>1. Len(log'[c]) = Len(log[c]) + 1
      BY DEF SentTo
    <2>2. CASE i \in 1..Len(log[c])
      <3>1. log'[c][i] = log[c][i]
        BY <2>2 DEF SentTo
      <3> QED
        BY <1>1, <1>3, <2>2, <3>1
    <2>3. CASE i = Len(log[c]) + 1
      BY <1>3, <2>3 DEF SentTo
    <2> QED
      BY <1>1, <1>3, <2>1, <2>2, <2>3
  <1> QED
    BY <1>2, <1>3

\* A notification that is put into a channel is younger than those of the same
\* leaf that are already there.
LEMMA SentInOrder ==
  ASSUME IInv, NEW l \in Leaves, Sent(l)
  PROVE  InOrder'
  <1>1. PICK c \in Clients : SentTo(l, c)
    BY SentFacts
  <1>2. TypeOK
    BY DEF IInv
  <1> SUFFICES ASSUME NEW d \in Clients, NEW i \in 1..Len(log'[d]), NEW j \in 1..Len(log'[d]),
                      i < j, log'[d][i][1] = log'[d][j][1]
               PROVE  log'[d][i][2] < log'[d][j][2]
    BY DEF InOrder
  <1>3. Len(log[d]) \in Nat
    BY <1>2 DEF TypeOK
  <1>4. \/ j \in 1..Len(log[d]) /\ log'[d][j] = log[d][j]
        \/ d = c /\ j = Len(log[c]) + 1 /\ log'[d][j] = <<l, emitted[l]>>
    BY <1>1, <1>2, SentIndex
  <1>5. i \in 1..Len(log[d]) /\ log'[d][i] = log[d][i]
    BY <1>1, <1>2, <1>3, <1>4, SentIndex
  <1>6. CASE j \in 1..Len(log[d]) /\ log'[d][j] = log[d][j]
    BY <1>5, <1>6 DEF IInv, InOrder
  <1>7. CASE d = c /\ j = Len(log[c]) + 1 /\ log'[d][j] = <<l, emitted[l]>>
    <2>1. log[d][i][1] = l /\ d \in todo[l]
      BY <1>1, <1>5, <1>7 DEF SentTo
    <2>2. log[d][i][2] < emitted[l]
      BY <1>5, <2>1 DEF IInv, PublishConsistent
    <2> QED
      BY <1>5, <1>7, <2>2
  <1> QED
    BY <1>4, <1>6, <1>7

\* After it was put into the channel, the loop does not visit it again.
LEMMA SentConsistent ==
  ASSUME IInv, NEW l \in Leaves, Sent(l)
  PROVE  PublishConsistent'
  <1>1. PICK c \in Clients : SentTo(l, c)
    BY SentFacts
  <1>2. TypeOK
    BY DEF IInv
  <1>3. UNCHANGED <<pub, emitted, subscribers, conn, to_remove, full>>
    BY DEF Sent
  <1>4. /\ \A k \in Leaves : todo'[k] \subseteq todo[k] /\ (k # l => todo'[k] = todo[k])
        /\ c \notin todo'[l]
    BY <1>1, <1>2 DEF SentTo, TypeOK
  <1>5. ASSUME NEW d \in Clients, NEW i \in 1..Len(log'[d]), NEW k, k = log'[d][i][1]
        PROVE  log'[d][i][2] <= emitted[k] /\ (d \in todo'[k] => log'[d][i][2] < emitted[k])
    <2>1. CASE i \in 1..Len(log[d]) /\ log'[d][i] = log[d][i] /\ log[d][i] \in Note
      <3>1. k \in Leaves
        BY <1>5, <2>1 DEF Note
      <3> QED
        BY <1>4, <1>5, <2>1, <3>1 DEF IInv, PublishConsistent
    <2>2. CASE d = c /\ i = Len(log[c]) + 1 /\ log'[d][i] = <<l, emitted[l]>>
      BY <1>2, <1>4, <1>5, <2>2 DEF TypeOK
    <2> QED
      BY <1>1, <1>2, <2>1, <2>2, SentIndex
  <1>6. \A k \in Leaves :
          /\ todo'[k] \subseteq subscribers'
          /\ pub'[k] # "send" => todo'[k] = {}
          /\ pub'[k] = "send" => emitted'[k] > 0
          /\ \A d \in to_remove'[k] : conn'[d] \in {"dropped", "done"} \/ full'[d] # {}
    BY <1>3, <1>4 DEF IInv, PublishConsistent
  <1>7. \A d \in Clients : conn'[d] \in {"new", "done"} => d \notin subscribers'
    BY <1>3 DEF IInv, PublishConsistent
  <1> QED
    BY <1>3, <1>5, <1>6, <1>7 DEF PublishConsistent

\* The types after a try_send that succeeds, and after one that is refused.
LEMMA SendTypeOK ==
  ASSUME IInv, NEW l \in Leaves, Sent(l) \/ Full(l)
  PROVE  TypeOK'
  <1>1. TypeOK
    BY DEF IInv
  <1>2. CASE Sent(l)
    <2>1. PICK c \in Clients : SentTo(l, c)
      BY <1>2, SentFacts
    <2>2. log' \in [Clients -> Seq(Note)] /\ todo' \in [Leaves -> SUBSET Clients]
      BY <1>1, <2>1 DEF SentTo, TypeOK
    <2> QED
      BY <1>1, <1>2, <2>2 DEF Sent, TypeOK
  <1>3. CASE Full(l)
    <2>1. PICK c \in todo[l] :
            /\ pub[l] = "send"
            /\ full' = [full EXCEPT ![c] = @ \cup {<<l, emitted[l]>>}]
            /\ todo' = [todo EXCEPT ![l] = todo[l] \ {c}]
            /\ to_remove' = [to_remove EXCEPT ![l] = to_remove[l]]
            /\ UNCHANGED <<stream, emitted, pub, subscribers, conn, log, taken, offered>>
      BY <1>3 DEF Full, AfterRefusal, AfterFull
    <2>2. emitted[l] \in 1..MaxEvents
      BY <1>1, <2>1, NotificationsAssumption DEF IInv, TypeOK, PublishConsistent
    <2>3. <<l, emitted[l]>> \in Note /\ c \in Clients
      BY <1>1, <2>2 DEF Note, TypeOK
    <2>4. full' \in [Clients -> SUBSET Note]
      BY <1>1, <2>1, <2>3 DEF TypeOK
    <2> QED
      BY <1>1, <2>1, <2>4 DEF TypeOK
  <1> QED
    BY <1>2, <1>3

\* Every step of a listener or of a client keeps the types.
LEMMA StepTypeOK == ASSUME IInv, Next PROVE TypeOK'
  <1> USE NotificationsAssumption DEF IInv, TypeOK, Note, locals, channels
  <1>1. ASSUME NEW l \in Leaves, Connected(l) PROVE TypeOK'
    BY <1>1 DEF Connected
  <1>2. ASSUME NEW l \in Leaves, StreamEnds(l) PROVE TypeOK'
    BY <1>2 DEF StreamEnds
  <1>3. ASSUME NEW l \in Leaves, TimesOut(l) PROVE TypeOK'
    BY <1>3 DEF TimesOut
  <1>4. ASSUME NEW l \in Leaves, Malformed(l) PROVE TypeOK'
    BY <1>4 DEF Malformed
  <1>5. ASSUME NEW l \in Leaves, Publish(l) PROVE TypeOK'
    BY <1>5 DEF Publish, NextEvent
  <1>6. ASSUME NEW l \in Leaves, Sent(l) PROVE TypeOK'
    BY <1>6, SendTypeOK
  <1>7. ASSUME NEW l \in Leaves, Full(l) PROVE TypeOK'
    BY <1>7, SendTypeOK
  <1>8. ASSUME NEW l \in Leaves, Closed(l) PROVE TypeOK'
    BY <1>8 DEF Closed
  <1>9. ASSUME NEW l \in Leaves, Released(l) PROVE TypeOK'
    BY <1>9 DEF Released
  <1>10. ASSUME NEW l \in Leaves, RemoveDead(l) PROVE TypeOK'
    BY <1>10 DEF RemoveDead, WriteLock
  <1>11. ASSUME NEW c \in Clients, Subscribe(c) PROVE TypeOK'
    BY <1>11 DEF Subscribe, WriteLock
  <1>12. ASSUME NEW c \in Clients, Read(c) PROVE TypeOK'
    BY <1>12 DEF Read
  <1>13. ASSUME NEW c \in Clients, Disconnect(c) PROVE TypeOK'
    BY <1>13 DEF Disconnect, AfterDrop
  <1>14. ASSUME NEW c \in Clients, Unsubscribe(c) PROVE TypeOK'
    BY <1>14 DEF Unsubscribe, WriteLock
  <1> HIDE DEF IInv
  <1> QED
    BY <1>1, <1>2, <1>3, <1>4, <1>5, <1>6, <1>7, <1>8, <1>9, <1>10, <1>11, <1>12, <1>13, <1>14 DEF Next, PublishStep

\* Every step keeps the loops of publish in line with the map and the channels.
LEMMA StepConsistent == ASSUME IInv, Next PROVE PublishConsistent'
  <1> USE NotificationsAssumption DEF IInv, TypeOK, Note, PublishConsistent, PromptStaysSubscribed, locals, channels
  <1>1. ASSUME NEW l \in Leaves, Connected(l) PROVE PublishConsistent'
    BY <1>1 DEF Connected
  <1>2. ASSUME NEW l \in Leaves, StreamEnds(l) PROVE PublishConsistent'
    BY <1>2 DEF StreamEnds
  <1>3. ASSUME NEW l \in Leaves, TimesOut(l) PROVE PublishConsistent'
    BY <1>3 DEF TimesOut
  <1>4. ASSUME NEW l \in Leaves, Malformed(l) PROVE PublishConsistent'
    BY <1>4 DEF Malformed
  <1>5. ASSUME NEW l \in Leaves, Publish(l) PROVE PublishConsistent'
    BY <1>5 DEF Publish, NextEvent
  <1>6. ASSUME NEW l \in Leaves, Sent(l) PROVE PublishConsistent'
    BY <1>6, SentConsistent
  <1>7. ASSUME NEW l \in Leaves, Full(l) PROVE PublishConsistent'
    BY <1>7 DEF Full, AfterRefusal, AfterFull
  <1>8. ASSUME NEW l \in Leaves, Closed(l) PROVE PublishConsistent'
    BY <1>8 DEF Closed
  <1>9. ASSUME NEW l \in Leaves, Released(l) PROVE PublishConsistent'
    BY <1>9 DEF Released
  <1>10. ASSUME NEW l \in Leaves, RemoveDead(l) PROVE PublishConsistent'
    BY <1>10 DEF RemoveDead, WriteLock
  <1>11. ASSUME NEW c \in Clients, Subscribe(c) PROVE PublishConsistent'
    BY <1>11 DEF Subscribe, WriteLock
  <1>12. ASSUME NEW c \in Clients, Read(c) PROVE PublishConsistent'
    BY <1>12 DEF Read
  <1>13. ASSUME NEW c \in Clients, Disconnect(c) PROVE PublishConsistent'
    BY <1>13 DEF Disconnect, AfterDrop
  <1>14. ASSUME NEW c \in Clients, Unsubscribe(c) PROVE PublishConsistent'
    BY <1>14 DEF Unsubscribe, WriteLock
  <1> HIDE DEF IInv
  <1> QED
    BY <1>1, <1>2, <1>3, <1>4, <1>5, <1>6, <1>7, <1>8, <1>9, <1>10, <1>11, <1>12, <1>13, <1>14 DEF Next, PublishStep

\* Every step keeps the channels in the order of the leaves.
LEMMA StepInOrder == ASSUME IInv, Next PROVE InOrder'
  <1> USE NotificationsAssumption DEF IInv, TypeOK, Note, PublishConsistent, InOrder, locals, channels
  <1>1. ASSUME NEW l \in Leaves, Connected(l) PROVE InOrder'
    BY <1>1 DEF Connected
  <1>2. ASSUME NEW l \in Leaves, StreamEnds(l) PROVE InOrder'
    BY <1>2 DEF StreamEnds
  <1>3. ASSUME NEW l \in Leaves, TimesOut(l) PROVE InOrder'
    BY <1>3 DEF TimesOut
  <1>4. ASSUME NEW l \in Leaves, Malformed(l) PROVE InOrder'
    BY <1>4 DEF Malformed
  <1>5. ASSUME NEW l \in Leaves, Publish(l) PROVE InOrder'
    BY <1>5 DEF Publish, NextEvent
  <1>6. ASSUME NEW l \in Leaves, Sent(l) PROVE InOrder'
    BY <1>6, SentInOrder
  <1>7. ASSUME NEW l \in Leaves, Full(l) PROVE InOrder'
    BY <1>7 DEF Full, AfterRefusal, AfterFull
  <1>8. ASSUME NEW l \in Leaves, Closed(l) PROVE InOrder'
    BY <1>8 DEF Closed
  <1>9. ASSUME NEW l \in Leaves, Released(l) PROVE InOrder'
    BY <1>9 DEF Released
  <1>10. ASSUME NEW l \in Leaves, RemoveDead(l) PROVE InOrder'
    BY <1>10 DEF RemoveDead, WriteLock
  <1>11. ASSUME NEW c \in Clients, Subscribe(c) PROVE InOrder'
    BY <1>11 DEF Subscribe, WriteLock
  <1>12. ASSUME NEW c \in Clients, Read(c) PROVE InOrder'
    BY <1>12 DEF Read
  <1>13. ASSUME NEW c \in Clients, Disconnect(c) PROVE InOrder'
    BY <1>13 DEF Disconnect, AfterDrop
  <1>14. ASSUME NEW c \in Clients, Unsubscribe(c) PROVE InOrder'
    BY <1>14 DEF Unsubscribe, WriteLock
  <1> HIDE DEF IInv
  <1> QED
    BY <1>1, <1>2, <1>3, <1>4, <1>5, <1>6, <1>7, <1>8, <1>9, <1>10, <1>11, <1>12, <1>13, <1>14 DEF Next, PublishStep

\* No step takes a connected client out of the map.
LEMMA StepLive == ASSUME IInv, Next PROVE PromptStaysSubscribed'
  <1> USE NotificationsAssumption DEF IInv, TypeOK, PublishConsistent, PromptStaysSubscribed, locals, channels
  <1>1. ASSUME NEW l \in Leaves, Connected(l) PROVE PromptStaysSubscribed'
    BY <1>1 DEF Connected
  <1>2. ASSUME NEW l \in Leaves, StreamEnds(l) PROVE PromptStaysSubscribed'
    BY <1>2 DEF StreamEnds
  <1>3. ASSUME NEW l \in Leaves, TimesOut(l) PROVE PromptStaysSubscribed'
    BY <1>3 DEF TimesOut
  <1>4. ASSUME NEW l \in Leaves, Malformed(l) PROVE PromptStaysSubscribed'
    BY <1>4 DEF Malformed
  <1>5. ASSUME NEW l \in Leaves, Publish(l) PROVE PromptStaysSubscribed'
    BY <1>5 DEF Publish, NextEvent
  <1>6. ASSUME NEW l \in Leaves, Sent(l) PROVE PromptStaysSubscribed'
    BY <1>6 DEF Sent
  <1>7. ASSUME NEW l \in Leaves, Full(l) PROVE PromptStaysSubscribed'
    BY <1>7 DEF Full, AfterRefusal, AfterFull
  <1>8. ASSUME NEW l \in Leaves, Closed(l) PROVE PromptStaysSubscribed'
    BY <1>8 DEF Closed
  <1>9. ASSUME NEW l \in Leaves, Released(l) PROVE PromptStaysSubscribed'
    BY <1>9 DEF Released
  <1>10. ASSUME NEW l \in Leaves, RemoveDead(l) PROVE PromptStaysSubscribed'
    BY <1>10 DEF RemoveDead, WriteLock
  <1>11. ASSUME NEW c \in Clients, Subscribe(c) PROVE PromptStaysSubscribed'
    BY <1>11 DEF Subscribe, WriteLock
  <1>12. ASSUME NEW c \in Clients, Read(c) PROVE PromptStaysSubscribed'
    BY <1>12 DEF Read
  <1>13. ASSUME NEW c \in Clients, Disconnect(c) PROVE PromptStaysSubscribed'
    BY <1>13 DEF Disconnect, AfterDrop
  <1>14. ASSUME NEW c \in Clients, Unsubscribe(c) PROVE PromptStaysSubscribed'
    BY <1>14 DEF Unsubscribe, WriteLock
  <1> HIDE DEF IInv
  <1> QED
    BY <1>1, <1>2, <1>3, <1>4, <1>5, <1>6, <1>7, <1>8, <1>9, <1>10, <1>11, <1>12, <1>13, <1>14 DEF Next, PublishStep

\* A notification reaches only channels of clients that have subscribed.
LEMMA StepFresh == ASSUME IInv, Next PROVE FreshChannels'
  <1> USE DEF IInv, TypeOK, PublishConsistent, FreshChannels, locals, channels
  <1>1. ASSUME NEW l \in Leaves, Connected(l) \/ StreamEnds(l) \/ TimesOut(l) \/ Malformed(l)
        PROVE  FreshChannels'
    BY <1>1 DEF Connected, StreamEnds, TimesOut, Malformed
  <1>2. ASSUME NEW l \in Leaves, Publish(l) PROVE FreshChannels'
    BY <1>2 DEF Publish
  <1>3. ASSUME NEW l \in Leaves, Sent(l) PROVE FreshChannels'
    <2>1. PICK c \in Clients : SentTo(l, c)
      BY <1>3, SentFacts
    <2>2. \A d \in Clients : conn[d] = "new" => log'[d] = log[d]
      BY <2>1 DEF SentTo
    <2> QED
      BY <1>3, <2>2 DEF Sent
  <1>4. ASSUME NEW l \in Leaves, Full(l) PROVE FreshChannels'
    <2>1. PICK c \in todo[l] : conn[c] = "open" /\ full' = [full EXCEPT ![c] = @ \cup {<<l, emitted[l]>>}]
      BY <1>4 DEF Full
    <2>2. \A d \in Clients : conn[d] = "new" => full'[d] = full[d]
      BY <2>1
    <2> QED
      BY <1>4, <2>2 DEF Full
  <1>5. ASSUME NEW l \in Leaves, Closed(l) \/ Released(l) \/ RemoveDead(l) PROVE FreshChannels'
    BY <1>5 DEF Closed, Released, RemoveDead
  <1>6. ASSUME NEW c \in Clients, Subscribe(c) \/ Read(c) \/ Disconnect(c) \/ Unsubscribe(c)
        PROVE  FreshChannels'
    BY <1>6 DEF Subscribe, Read, Disconnect, Unsubscribe, AfterDrop
  <1> HIDE DEF IInv
  <1> QED
    BY <1>1, <1>2, <1>3, <1>4, <1>5, <1>6 DEF Next, PublishStep

\* What client c got, what it was refused, and what is on its way to it.
Got(c) == {log[c][i] : i \in 1..Len(log[c])}
Coming(c) == {<<l, emitted[l]>> : l \in {k \in Leaves : c \in todo[k]}}

\* A client to whose channel a notification was sent got that and nothing else.
LEMMA SentGot ==
  ASSUME TypeOK, NEW l \in Leaves, NEW c \in Clients, SentTo(l, c)
  PROVE  /\ Got(c)' = Got(c) \cup {<<l, emitted[l]>>}
         /\ \A d \in Clients : d # c => Got(d)' = Got(d)
  <1> DEFINE n == <<l, emitted[l]>>
  <1>1. Len(log[c]) \in Nat /\ Len(log'[c]) = Len(log[c]) + 1
    BY DEF SentTo, TypeOK
  <1>2. \A x : x \in Got(c)' => x \in Got(c) \cup {n}
    <2> SUFFICES ASSUME NEW i \in 1..Len(log'[c]) PROVE log'[c][i] \in Got(c) \cup {n}
      BY DEF Got
    <2>1. CASE i \in 1..Len(log[c])
      BY <2>1 DEF Got, SentTo
    <2>2. CASE i \notin 1..Len(log[c])
      <3>1. i = Len(log[c]) + 1
        BY <1>1, <2>2
      <3> QED
        BY <3>1 DEF SentTo
    <2> QED
      BY <2>1, <2>2
  <1>3. \A x : x \in Got(c) => x \in Got(c)'
    <2> SUFFICES ASSUME NEW i \in 1..Len(log[c]) PROVE log[c][i] \in Got(c)'
      BY DEF Got
    <2>1. i \in 1..Len(log'[c]) /\ log'[c][i] = log[c][i]
      BY <1>1 DEF SentTo
    <2> QED
      BY <2>1 DEF Got
  <1>4. n \in Got(c)'
    <2>1. Len(log[c]) + 1 \in 1..Len(log'[c]) /\ log'[c][Len(log[c]) + 1] = n
      BY <1>1 DEF SentTo
    <2> QED
      BY <2>1 DEF Got
  <1>5. \A d \in Clients : d # c => Got(d)' = Got(d)
    BY DEF Got, SentTo
  <1> QED
    BY <1>2, <1>3, <1>4, <1>5

\* A step that leaves the channels alone, all numbers that are being published
\* and the visits still to make, opens no gap.
LEMMA SameChannels ==
  ASSUME IInv, UNCHANGED <<log, full, offered>>,
         \A c \in Clients : conn'[c] = "open" => conn[c] = "open",
         \A c \in Clients, l \in Leaves :
           conn'[c] = "open" =>
             /\ c \in todo'[l] <=> c \in todo[l]
             /\ c \in todo[l] => emitted'[l] = emitted[l]
  PROVE  GapsOnlyWhenFull'
  <1> SUFFICES ASSUME NEW c \in Clients, conn'[c] = "open"
               PROVE  offered'[c] = full'[c] \cup Got(c)' \cup Coming(c)'
    BY DEF GapsOnlyWhenFull, Got, Coming
  <1>1. offered[c] = full[c] \cup Got(c) \cup Coming(c)
    BY DEF IInv, GapsOnlyWhenFull, Got, Coming
  <1>2. Got(c)' = Got(c)
    BY DEF Got
  <1>3. Coming(c)' = Coming(c)
    BY DEF Coming
  <1> QED
    BY <1>1, <1>2, <1>3

\* A notification is on its way to every client of the map from the moment it is
\* published.
LEMMA PublishGaps ==
  ASSUME IInv, NEW l \in Leaves, Publish(l)
  PROVE  GapsOnlyWhenFull'
  <1> DEFINE n == <<l, NextEvent(l)>>
  <1> SUFFICES ASSUME NEW c \in Clients, conn'[c] = "open"
               PROVE  offered'[c] = full'[c] \cup Got(c)' \cup Coming(c)'
    BY DEF GapsOnlyWhenFull, Got, Coming
  <1>1. conn[c] = "open"
    BY DEF Publish
  <1>2. offered[c] = full[c] \cup Got(c) \cup Coming(c)
    BY <1>1 DEF IInv, GapsOnlyWhenFull, Got, Coming
  <1>3. full'[c] = full[c] /\ Got(c)' = Got(c)
    BY DEF Publish, channels, Got
  <1>4. todo[l] = {}
    BY DEF Publish, IInv, PublishConsistent
  <1>5. /\ c \in todo'[l] <=> c \in subscribers
        /\ emitted'[l] = NextEvent(l)
        /\ \A k \in Leaves : k # l => todo'[k] = todo[k] /\ emitted'[k] = emitted[k]
    BY DEF Publish, IInv, TypeOK
  <1>6. CASE c \in subscribers
    <2>1. offered'[c] = offered[c] \cup {n}
      BY <1>6 DEF Publish
    <2>2. Coming(c)' = Coming(c) \cup {n}
      BY <1>4, <1>5, <1>6 DEF Coming
    <2> QED
      BY <1>2, <1>3, <2>1, <2>2
  <1>7. CASE c \notin subscribers
    <2>1. offered'[c] = offered[c]
      BY <1>7 DEF Publish
    <2>2. Coming(c)' = Coming(c)
      BY <1>4, <1>5, <1>7 DEF Coming
    <2> QED
      BY <1>2, <1>3, <2>1, <2>2
  <1> QED
    BY <1>6, <1>7

\* What was on its way is then in the channel ...
LEMMA SentGaps ==
  ASSUME IInv, NEW l \in Leaves, Sent(l)
  PROVE  GapsOnlyWhenFull'
  <1> DEFINE n == <<l, emitted[l]>>
  <1>1. PICK c \in Clients : SentTo(l, c)
    BY SentFacts
  <1>2. UNCHANGED <<emitted, conn, full, offered>>
    BY DEF Sent
  <1>3. TypeOK
    BY DEF IInv
  <1> SUFFICES ASSUME NEW d \in Clients, conn'[d] = "open"
               PROVE  offered'[d] = full'[d] \cup Got(d)' \cup Coming(d)'
    BY DEF GapsOnlyWhenFull, Got, Coming
  <1>4. offered[d] = full[d] \cup Got(d) \cup Coming(d)
    BY <1>2 DEF IInv, GapsOnlyWhenFull, Got, Coming
  <1>5. CASE d # c
    <2>1. Got(d)' = Got(d)
      BY <1>1, <1>3, <1>5, SentGot
    <2>2. \A k \in Leaves : d \in todo'[k] <=> d \in todo[k]
      BY <1>1, <1>3, <1>5 DEF SentTo, TypeOK
    <2>3. Coming(d)' = Coming(d)
      BY <1>2, <2>2 DEF Coming
    <2> QED
      BY <1>2, <1>4, <2>1, <2>3
  <1>6. CASE d = c
    <2>1. Got(c)' = Got(c) \cup {n}
      BY <1>1, <1>3, SentGot
    <2>2. /\ c \in todo[l] /\ c \notin todo'[l]
          /\ \A k \in Leaves : k # l => todo'[k] = todo[k]
      BY <1>1, <1>3 DEF SentTo, TypeOK
    <2>3. Coming(c) = Coming(c)' \cup {n}
      BY <1>2, <2>2 DEF Coming
    <2> QED
      BY <1>2, <1>4, <1>6, <2>1, <2>3
  <1> QED
    BY <1>5, <1>6

\* ... or among those refused because the channel was full.
LEMMA FullGaps ==
  ASSUME IInv, NEW l \in Leaves, Full(l)
  PROVE  GapsOnlyWhenFull'
  <1> DEFINE n == <<l, emitted[l]>>
  <1>1. PICK c \in todo[l] :
          /\ full' = [full EXCEPT ![c] = @ \cup {n}]
          /\ todo' = [todo EXCEPT ![l] = todo[l] \ {c}]
    BY DEF Full, AfterRefusal
  <1>2. UNCHANGED <<emitted, conn, log, offered>>
    BY DEF Full
  <1>3. TypeOK
    BY DEF IInv
  <1> SUFFICES ASSUME NEW d \in Clients, conn'[d] = "open"
               PROVE  offered'[d] = full'[d] \cup Got(d)' \cup Coming(d)'
    BY DEF GapsOnlyWhenFull, Got, Coming
  <1>4. offered[d] = full[d] \cup Got(d) \cup Coming(d)
    BY <1>2 DEF IInv, GapsOnlyWhenFull, Got, Coming
  <1>5. Got(d)' = Got(d)
    BY <1>2 DEF Got
  <1>6. CASE d # c
    <2>1. full'[d] = full[d] /\ \A k \in Leaves : d \in todo'[k] <=> d \in todo[k]
      BY <1>1, <1>3, <1>6 DEF TypeOK
    <2>2. Coming(d)' = Coming(d)
      BY <1>2, <2>1 DEF Coming
    <2> QED
      BY <1>2, <1>4, <1>5, <2>1, <2>2
  <1>7. CASE d = c
    <2>1. full'[c] = full[c] \cup {n}
      BY <1>1, <1>3, <1>7 DEF TypeOK
    <2>2. c \notin todo'[l] /\ \A k \in Leaves : k # l => todo'[k] = todo[k]
      BY <1>1, <1>3 DEF TypeOK
    <2>3. Coming(c) = Coming(c)' \cup {n}
      BY <1>1, <1>2, <2>2 DEF Coming
    <2> QED
      BY <1>2, <1>4, <1>5, <1>7, <2>1, <2>3
  <1> QED
    BY <1>6, <1>7

\* Every step keeps the account of what a client was offered.
LEMMA StepGaps == ASSUME IInv, Next PROVE GapsOnlyWhenFull'
  <1>1. ASSUME NEW l \in Leaves, Connected(l) \/ StreamEnds(l) \/ TimesOut(l) PROVE GapsOnlyWhenFull'
    BY <1>1, SameChannels DEF Connected, StreamEnds, TimesOut, locals, channels
  <1>2. ASSUME NEW l \in Leaves, Malformed(l) PROVE GapsOnlyWhenFull'
    <2>1. todo[l] = {} /\ \A k \in Leaves : k # l => emitted'[k] = emitted[k]
      BY <1>2 DEF Malformed, IInv, TypeOK, PublishConsistent
    <2>2. UNCHANGED <<log, full, offered, conn, todo>>
      BY <1>2 DEF Malformed, locals, channels
    <2> QED
      BY <2>1, <2>2, SameChannels
  <1>3. ASSUME NEW l \in Leaves, Closed(l) PROVE GapsOnlyWhenFull'
    <2>1. PICK c \in todo[l] : conn[c] # "open" /\ todo' = [todo EXCEPT ![l] = @ \ {c}]
      BY <1>3 DEF Closed
    <2>2. UNCHANGED <<log, full, offered, conn, emitted>>
      BY <1>3 DEF Closed, channels
    <2>3. \A d \in Clients, k \in Leaves :
            conn'[d] = "open" => (d \in todo'[k] <=> d \in todo[k])
      BY <2>1, <2>2 DEF IInv, TypeOK
    <2> QED
      BY <2>2, <2>3, SameChannels
  <1>4. ASSUME NEW l \in Leaves, Released(l) \/ RemoveDead(l) PROVE GapsOnlyWhenFull'
    BY <1>4, SameChannels DEF Released, RemoveDead, locals, channels
  <1>5. ASSUME NEW c \in Clients, Subscribe(c) PROVE GapsOnlyWhenFull'
    <2> SUFFICES ASSUME NEW d \in Clients, conn'[d] = "open"
                 PROVE  offered'[d] = full'[d] \cup Got(d)' \cup Coming(d)'
      BY DEF GapsOnlyWhenFull, Got, Coming
    <2>1. UNCHANGED <<log, full, offered, todo, emitted>>
      BY <1>5 DEF Subscribe, locals, channels
    <2>2. Got(d)' = Got(d) /\ Coming(d)' = Coming(d)
      BY <2>1 DEF Got, Coming
    <2>3. CASE d = c
      <3>1. offered[c] = {} /\ full[c] = {} /\ log[c] = <<>>
        BY <1>5 DEF Subscribe, IInv, FreshChannels
      <3>2. Got(c) = {}
        BY <3>1 DEF Got
      <3>3. \A k \in Leaves : c \notin todo[k]
        BY <1>5 DEF Subscribe, IInv, PublishConsistent
      <3>4. Coming(c) = {}
        BY <3>3 DEF Coming
      <3> QED
        BY <2>1, <2>2, <2>3, <3>1, <3>2, <3>4
    <2>4. CASE d # c
      <3>1. conn[d] = "open"
        BY <1>5, <2>4 DEF Subscribe, IInv, TypeOK
      <3>2. offered[d] = full[d] \cup Got(d) \cup Coming(d)
        BY <3>1 DEF IInv, GapsOnlyWhenFull, Got, Coming
      <3> QED
        BY <2>1, <2>2, <3>2
    <2> QED
      BY <2>3, <2>4
  <1>6. ASSUME NEW c \in Clients, Read(c) \/ Disconnect(c) \/ Unsubscribe(c) PROVE GapsOnlyWhenFull'
    <2>1. UNCHANGED <<log, full, offered, todo, emitted>>
      BY <1>6 DEF Read, Disconnect, Unsubscribe, locals, channels
    <2>2. \A d \in Clients : conn'[d] = "open" => conn[d] = "open"
      BY <1>6 DEF Read, Disconnect, Unsubscribe, AfterDrop, IInv, TypeOK
    <2> QED
      BY <2>1, <2>2, SameChannels
  <1> QED
    BY <1>1, <1>2, <1>3, <1>4, <1>5, <1>6, PublishGaps, SentGaps, FullGaps DEF Next, PublishStep

\* What ChannelsConsistent says of one channel: of its length, and of what it refused.
Bounded(c) == taken[c] <= Len(log[c]) /\ Pending(c) <= CHANNEL_BUFFER
RefusedOlder(c) ==
  \A m \in full[c] : m[2] <= emitted[m[1]] /\ (c \in todo[m[1]] => m[2] < emitted[m[1]])

LEMMA ChannelFacts == ASSUME IInv, NEW c \in Clients PROVE Bounded(c) /\ RefusedOlder(c)
  BY DEF IInv, ChannelsConsistent, Bounded, RefusedOlder

\* What a channel refused stays older while leaves only go on to newer events and
\* visit the channel only with those.
LEMMA RefusedKept ==
  ASSUME IInv, TypeOK', NEW c \in Clients, full'[c] = full[c],
         \A l \in Leaves :
           /\ emitted[l] <= emitted'[l]
           /\ c \in todo'[l] => c \in todo[l] \/ emitted[l] < emitted'[l]
  PROVE  RefusedOlder(c)'
  <1> SUFFICES ASSUME NEW m \in full[c]
               PROVE  m[2] <= emitted'[m[1]] /\ (c \in todo'[m[1]] => m[2] < emitted'[m[1]])
    BY DEF RefusedOlder
  <1>1. m[1] \in Leaves /\ m[2] \in Int
    BY NotificationsAssumption DEF IInv, TypeOK, Note
  <1>2. m[2] <= emitted[m[1]] /\ (c \in todo[m[1]] => m[2] < emitted[m[1]])
    BY ChannelFacts DEF RefusedOlder
  <1>3. emitted[m[1]] \in Int /\ emitted'[m[1]] \in Int
    BY <1>1, NotificationsAssumption DEF IInv, TypeOK
  <1> QED
    BY <1>1, <1>2, <1>3

\* The length of a channel is bounded while nothing is put into it.
LEMMA BoundKept ==
  ASSUME IInv, NEW c \in Clients, log'[c] = log[c], taken'[c] = taken[c]
  PROVE  Bounded(c)'
  BY ChannelFacts DEF Bounded, Pending

\* A step that leaves all channels alone.
LEMMA ChannelsKept ==
  ASSUME IInv, TypeOK', UNCHANGED channels,
         \A c \in Clients, l \in Leaves :
           /\ emitted[l] <= emitted'[l]
           /\ c \in todo'[l] => c \in todo[l] \/ emitted[l] < emitted'[l]
  PROVE  ChannelsConsistent'
  <1>1. ASSUME NEW c \in Clients PROVE Bounded(c)' /\ RefusedOlder(c)'
    BY BoundKept, RefusedKept DEF channels
  <1> QED
    BY <1>1 DEF ChannelsConsistent, Bounded, RefusedOlder

\* Every step keeps the channels within their bounds.
LEMMA StepChannels == ASSUME IInv, Next PROVE ChannelsConsistent'
  <1>1. TypeOK /\ TypeOK'
    BY StepTypeOK DEF IInv
  <1>2. \A l \in Leaves : emitted[l] \in Int
    BY <1>1, NotificationsAssumption DEF TypeOK
  <1>3. CASE UNCHANGED <<channels, emitted, todo>>
    BY <1>1, <1>2, <1>3, ChannelsKept
  <1>4. ASSUME NEW l \in Leaves, Malformed(l) PROVE ChannelsConsistent'
    <2>1. emitted' = [emitted EXCEPT ![l] = @ + 1] /\ UNCHANGED <<channels, todo>>
      BY <1>4 DEF Malformed, locals
    <2> QED
      BY <1>1, <1>2, <2>1, ChannelsKept DEF TypeOK
  <1>5. ASSUME NEW l \in Leaves, Publish(l) PROVE ChannelsConsistent'
    <2>1. /\ emitted' = [emitted EXCEPT ![l] = @ + 1] /\ UNCHANGED channels
          /\ \A k \in Leaves : k # l => todo'[k] = todo[k]
      BY <1>1, <1>5 DEF Publish, NextEvent, TypeOK
    <2> QED
      BY <1>1, <1>2, <2>1, ChannelsKept DEF TypeOK
  <1>6. ASSUME NEW l \in Leaves, Closed(l) PROVE ChannelsConsistent'
    <2>1. /\ UNCHANGED <<channels, emitted>>
          /\ \A k \in Leaves : todo'[k] \subseteq todo[k]
      BY <1>1, <1>6 DEF Closed, TypeOK
    <2> QED
      BY <1>1, <1>2, <2>1, ChannelsKept
  <1>7. ASSUME NEW l \in Leaves, Sent(l) PROVE ChannelsConsistent'
    <2>1. PICK c \in Clients : SentTo(l, c)
      BY <1>7, SentFacts
    <2>2. UNCHANGED <<emitted, taken, full>>
      BY <1>7 DEF Sent
    <2>3. \A k \in Leaves : todo'[k] \subseteq todo[k]
      BY <1>1, <2>1 DEF SentTo, TypeOK
    <2>4. ASSUME NEW d \in Clients PROVE RefusedOlder(d)'
      BY <1>1, <1>2, <2>2, <2>3, RefusedKept
    <2>5. Bounded(c)'
      <3>1. taken[c] \in Int /\ Len(log[c]) \in Int /\ Len(log'[c]) = Len(log[c]) + 1
        BY <1>1, <2>1 DEF TypeOK, SentTo
      <3>2. Len(log[c]) - taken[c] < CHANNEL_BUFFER
        BY <2>1 DEF SentTo, Room, Pending
      <3>3. taken[c] <= Len(log[c]) /\ CHANNEL_BUFFER \in Int
        BY ChannelFacts, NotificationsAssumption DEF Bounded
      <3>4. taken[c] <= Len(log[c]) + 1 /\ (Len(log[c]) + 1) - taken[c] <= CHANNEL_BUFFER
        BY <3>1, <3>2, <3>3
      <3> QED
        BY <2>2, <3>1, <3>4 DEF Bounded, Pending
    <2>6. ASSUME NEW d \in Clients, d # c PROVE Bounded(d)'
      BY <2>1, <2>2, <2>6, BoundKept DEF SentTo
    <2> QED
      BY <2>4, <2>5, <2>6 DEF ChannelsConsistent, Bounded, RefusedOlder
  <1>8. ASSUME NEW l \in Leaves, Full(l) PROVE ChannelsConsistent'
    <2>1. PICK c \in todo[l] : FullAt(l, c)
      BY <1>8, FullFacts
    <2>2. c \in Clients
      BY <1>1 DEF TypeOK
    <2>3. ASSUME NEW d \in Clients PROVE Bounded(d)'
      BY <2>1, BoundKept DEF FullAt
    <2>4. /\ \A k \in Leaves : todo'[k] \subseteq todo[k]
          /\ c \notin todo'[l] /\ full'[c] = full[c] \cup {<<l, emitted[l]>>}
          /\ \A d \in Clients : d # c => full'[d] = full[d]
      BY <1>1, <2>1 DEF FullAt, TypeOK
    <2>5. ASSUME NEW d \in Clients, d # c PROVE RefusedOlder(d)'
      BY <1>1, <1>2, <2>1, <2>4, <2>5, RefusedKept DEF FullAt
    <2>6. RefusedOlder(c)'
      <3> SUFFICES ASSUME NEW m \in full'[c]
                   PROVE  m[2] <= emitted[m[1]] /\ (c \in todo'[m[1]] => m[2] < emitted[m[1]])
        BY <2>1 DEF RefusedOlder, FullAt
      <3>1. CASE m = <<l, emitted[l]>>
        BY <1>2, <2>4, <3>1
      <3>2. CASE m \in full[c]
        <4>1. m[1] \in Leaves
          BY <1>1, <2>2, <3>2 DEF TypeOK, Note
        <4> QED
          BY <2>2, <2>4, <3>2, <4>1, ChannelFacts DEF RefusedOlder
      <3> QED
        BY <2>4, <3>1, <3>2
    <2> QED
      BY <2>3, <2>5, <2>6 DEF ChannelsConsistent, Bounded, RefusedOlder
  <1>9. ASSUME NEW c \in Clients, Read(c) PROVE ChannelsConsistent'
    <2>1. /\ Pending(c) > 0 /\ taken' = [taken EXCEPT ![c] = @ + 1]
          /\ UNCHANGED <<log, full, emitted, todo>>
      BY <1>9 DEF Read, locals
    <2>2. ASSUME NEW d \in Clients PROVE RefusedOlder(d)'
      BY <1>1, <1>2, <2>1, RefusedKept
    <2>3. Bounded(c)'
      <3>1. taken[c] \in Int /\ Len(log[c]) \in Int /\ taken'[c] = taken[c] + 1
        BY <1>1, <2>1 DEF TypeOK
      <3>2. Bounded(c) /\ CHANNEL_BUFFER \in Int
        BY ChannelFacts, NotificationsAssumption
      <3> QED
        BY <2>1, <3>1, <3>2 DEF Bounded, Pending
    <2>4. ASSUME NEW d \in Clients, d # c PROVE Bounded(d)'
      BY <1>1, <2>1, <2>4, BoundKept DEF TypeOK
    <2> QED
      BY <2>2, <2>3, <2>4 DEF ChannelsConsistent, Bounded, RefusedOlder
  <1> QED
    BY <1>3, <1>4, <1>5, <1>6, <1>7, <1>8, <1>9
       DEF Next, PublishStep, Connected, StreamEnds, TimesOut, Released, RemoveDead, Subscribe,
           Disconnect, Unsubscribe, locals

\* notifications.rs, server.rs:202: the broker's map, the loops of publish, the
\* channels and the streams of the clients stay consistent.
THEOREM BrokerConsistent == Spec => []IInv
  <1>1. Init => IInv
    BY NotificationsAssumption
       DEF Init, IInv, TypeOK, Note, PublishConsistent, FreshChannels, ChannelsConsistent, Pending,
           InOrder, PromptStaysSubscribed, GapsOnlyWhenFull
  <1>2. IInv /\ [Next]_vars => IInv'
    <2> SUFFICES ASSUME IInv, [Next]_vars PROVE IInv'
      OBVIOUS
    <2>1. CASE Next
      BY <2>1, StepTypeOK, StepConsistent, StepInOrder, StepLive, StepFresh, StepChannels, StepGaps
         DEF IInv
    <2>2. CASE UNCHANGED vars
      BY <2>2 DEF vars, IInv, TypeOK, PublishConsistent, FreshChannels, ChannelsConsistent, Pending,
                  InOrder, PromptStaysSubscribed, GapsOnlyWhenFull, locals, channels
    <2> QED
      BY <2>1, <2>2
  <1> QED
    BY <1>1, <1>2, PTL DEF Spec

\* notifications.rs:68: every client gets the notifications of one leaf in
\* order and at most once, however many leaves publish at the same time.
THEOREM DeliveredInOrder == Spec => []InOrder
  <1>1. IInv => InOrder
    BY DEF IInv
  <1> QED
    BY <1>1, BrokerConsistent, PTL

\* notifications.rs:91: removing channels from an older list never unsubscribes a
\* connected client whose own channel was never full.
THEOREM ConnectedStaySubscribed == Spec => []PromptStaysSubscribed
  <1>1. IInv => PromptStaysSubscribed
    BY DEF IInv
  <1> QED
    BY <1>1, BrokerConsistent, PTL

\* notifications.rs:73: a connected client misses only what its own channel had no
\* room for, for any number of leaves, clients and publishers at once.
THEOREM NoGapUnlessFull == Spec => []GapsOnlyWhenFull
  <1>1. IInv => GapsOnlyWhenFull
    BY DEF IInv
  <1> QED
    BY <1>1, BrokerConsistent, PTL

\* server.rs:247: an id is in the map only while its stream is served or the
\* unsubscribe task of its guard is on the way.
THEOREM OnlyLiveOrLeaving == Spec => []NoOrphans
  <1>1. IInv => NoOrphans
    BY DEF IInv, TypeOK, PublishConsistent, NoOrphans
  <1> QED
    BY <1>1, BrokerConsistent, PTL

-----------------------------------------------------------------------------
\* The mailboxes of the clients.

\* What is left of a sequence after its first t elements: how long it is, and what
\* becomes of it when the sequence grows at its end or one more is taken.
LEMMA RestFacts ==
  ASSUME NEW S, NEW s \in Seq(S), NEW t \in Nat, t <= Len(s)
  PROVE  /\ SubSeq(s, t + 1, Len(s)) \in Seq(S)
         /\ Len(SubSeq(s, t + 1, Len(s))) = Len(s) - t
         /\ \A i \in 1..(Len(s) - t) : SubSeq(s, t + 1, Len(s))[i] = s[t + i]
  OBVIOUS

LEMMA RestTaken ==
  ASSUME NEW S, NEW s \in Seq(S), NEW t \in Nat, t < Len(s)
  PROVE  SubSeq(s, (t + 1) + 1, Len(s)) = Tail(SubSeq(s, t + 1, Len(s)))
  OBVIOUS

LEMMA RestGrown ==
  ASSUME NEW S, NEW s \in Seq(S), NEW t \in Nat, t <= Len(s), NEW e \in S
  PROVE  SubSeq(Append(s, e), t + 1, Len(Append(s, e))) = Append(SubSeq(s, t + 1, Len(s)), e)
  <1> DEFINE u == Append(s, e)
             a == SubSeq(u, t + 1, Len(u))
             r == SubSeq(s, t + 1, Len(s))
             b == Append(r, e)
  <1>1. PICK k \in Nat : k = Len(s) - t
    OBVIOUS
  <1>2. /\ u \in Seq(S) /\ Len(u) = Len(s) + 1 /\ u[Len(s) + 1] = e
        /\ \A i \in 1..Len(s) : u[i] = s[i]
    OBVIOUS
  <1> HIDE DEF u
  <1>3. a \in Seq(S) /\ Len(a) = k + 1 /\ \A i \in 1..(k + 1) : a[i] = u[t + i]
    BY <1>1, <1>2, RestFacts
  <1>4. r \in Seq(S) /\ Len(r) = k /\ \A i \in 1..k : r[i] = s[t + i]
    BY <1>1, RestFacts
  <1> HIDE DEF a, r
  <1>5. b \in Seq(S) /\ Len(b) = k + 1 /\ b[k + 1] = e /\ \A i \in 1..k : b[i] = r[i]
    BY <1>4
  <1> HIDE DEF b
  <1>6. ASSUME NEW i \in 1..(k + 1) PROVE a[i] = b[i]
    <2>1. CASE i \in 1..k
      <3>1. t + i \in 1..Len(s) /\ i \in 1..(k + 1)
        BY <1>1, <2>1
      <3>2. a[i] = s[t + i]
        BY <1>2, <1>3, <3>1
      <3>3. b[i] = s[t + i]
        BY <1>4, <1>5, <2>1
      <3> QED
        BY <3>2, <3>3
    <2>2. CASE i = k + 1
      <3>1. t + i = Len(s) + 1
        BY <1>1, <2>2
      <3> QED
        BY <1>2, <1>3, <1>5, <2>2, <3>1
    <2>3. i \in 1..k \/ i = k + 1
      OBVIOUS
    <2> QED
      BY <2>1, <2>2, <2>3
  <1>7. a = b
    BY <1>3, <1>5, <1>6, SeqEqual
  <1> QED
    BY <1>7 DEF a, b, r, u

\* What the channels of the model and the mailboxes have in common.
LEMMA QueueFacts ==
  ASSUME IInv, NEW c \in Clients
  PROVE  /\ log[c] \in Seq(Note) /\ taken[c] \in Nat /\ taken[c] <= Len(log[c])
         /\ absQueue[c] = SubSeq(log[c], taken[c] + 1, Len(log[c]))
         /\ absQueue[c] \in Seq(Note) /\ Len(absQueue[c]) = Pending(c)
         /\ absSettled[c] = full[c] \cup Got(c)
  <1>1. log[c] \in Seq(Note) /\ taken[c] \in Nat /\ taken[c] <= Len(log[c])
    BY ChannelFacts DEF IInv, TypeOK, Bounded
  <1> QED
    BY <1>1, RestFacts DEF absQueue, absSettled, Got, Pending

\* A step that leaves the channels and the streams of the clients alone.
LEMMA MailboxesKept ==
  ASSUME UNCHANGED channels, absOpen' = absOpen
  PROVE  UNCHANGED M!vars
  BY DEF M!vars, channels, absQueue, absSettled

\* A notification that is settled for a client that is connected is the newest of
\* its leaf.
LEMMA SettledNewest ==
  ASSUME IInv, NEW l \in Leaves, NEW c \in Clients, c \in todo[l], NEW m \in absSettled[c], m[1] = l
  PROVE  m[2] < emitted[l]
  <1>1. CASE m \in full[c]
    BY <1>1, ChannelFacts DEF RefusedOlder
  <1>2. CASE m \in Got(c)
    BY <1>2 DEF IInv, PublishConsistent, Got
  <1> QED
    BY <1>1, <1>2, QueueFacts

LEMMA SentPuts ==
  ASSUME IInv, NEW l \in Leaves, Sent(l)
  PROVE  \E c \in Clients, n \in Note : M!Put(c, n)
  <1>1. PICK c \in Clients : SentTo(l, c)
    BY SentFacts
  <1> DEFINE n == <<l, emitted[l]>>
  <1>2. n \in Note
    BY <1>1, NotificationsAssumption DEF IInv, TypeOK, PublishConsistent, Note, SentTo
  <1>3. UNCHANGED <<conn, taken, full>>
    BY DEF Sent
  <1>4. c \in absOpen /\ absOpen' = absOpen
    BY <1>1, <1>3 DEF absOpen, SentTo
  <1>5. \A m \in absSettled[c] : m[1] = n[1] => m[2] < n[2]
    BY <1>1, SettledNewest DEF SentTo
  <1>6. absSettled' = [absSettled EXCEPT ![c] = @ \cup {n}]
    <2>1. Got(c)' = Got(c) \cup {n} /\ \A d \in Clients : d # c => Got(d)' = Got(d)
      BY <1>1, SentGot DEF IInv
    <2>2. absSettled'[c] = absSettled[c] \cup {n}
      BY <1>3, <2>1 DEF absSettled, Got
    <2>3. \A d \in Clients : d # c => absSettled'[d] = absSettled[d]
      BY <1>3, <2>1 DEF absSettled, Got
    <2> QED
      BY <2>2, <2>3 DEF absSettled
  <1>7. Len(absQueue[c]) < CHANNEL_BUFFER
    BY <1>1, QueueFacts DEF SentTo, Room
  <1>8. absQueue' = [absQueue EXCEPT ![c] = Append(@, n)]
    <2>1. absQueue'[c] = Append(absQueue[c], n)
      <3>1. log'[c] = Append(log[c], n)
        BY <1>1 DEF SentTo
      <3>2. SubSeq(Append(log[c], n), taken[c] + 1, Len(Append(log[c], n))) =
              Append(SubSeq(log[c], taken[c] + 1, Len(log[c])), n)
        <4>1. log[c] \in Seq(Note) /\ taken[c] \in Nat /\ taken[c] <= Len(log[c]) /\ n \in Note
          BY <1>2, QueueFacts
        <4> HIDE DEF n
        <4> QED
          BY <4>1, RestGrown
      <3>3. absQueue'[c] = SubSeq(log'[c], taken[c] + 1, Len(log'[c]))
        BY <1>3 DEF absQueue
      <3>4. absQueue[c] = SubSeq(log[c], taken[c] + 1, Len(log[c]))
        BY DEF absQueue
      <3> HIDE DEF n
      <3> QED
        BY <3>1, <3>2, <3>3, <3>4
    <2>2. \A d \in Clients : d # c => absQueue'[d] = absQueue[d]
      BY <1>1, <1>3 DEF absQueue, SentTo
    <2> QED
      BY <2>1, <2>2 DEF absQueue
  <1> QED
    BY <1>2, <1>4, <1>5, <1>6, <1>7, <1>8 DEF M!Put, M!Settle

LEMMA FullLoses ==
  ASSUME IInv, NEW l \in Leaves, Full(l)
  PROVE  \E c \in Clients, n \in Note : M!Lose(c, n)
  <1>1. PICK c \in todo[l] : FullAt(l, c)
    BY FullFacts
  <1> DEFINE n == <<l, emitted[l]>>
  <1>2. c \in Clients /\ n \in Note
    BY <1>1, NotificationsAssumption DEF IInv, TypeOK, PublishConsistent, Note, FullAt
  <1>3. c \in absOpen /\ absOpen' = absOpen
    BY <1>1, <1>2 DEF absOpen, FullAt
  <1>4. \A m \in absSettled[c] : m[1] = n[1] => m[2] < n[2]
    BY <1>1, <1>2, SettledNewest
  <1>5. absSettled' = [absSettled EXCEPT ![c] = @ \cup {n}]
    <2>1. full'[c] = full[c] \cup {n} /\ \A d \in Clients : d # c => full'[d] = full[d]
      BY <1>1, <1>2 DEF FullAt, IInv, TypeOK
    <2>2. absSettled'[c] = absSettled[c] \cup {n}
      BY <1>1, <1>2, <2>1 DEF FullAt, absSettled
    <2>3. \A d \in Clients : d # c => absSettled'[d] = absSettled[d]
      BY <1>1, <2>1 DEF FullAt, absSettled
    <2> QED
      BY <2>2, <2>3 DEF absSettled
  <1>6. Len(absQueue[c]) = CHANNEL_BUFFER
    <2>1. Len(absQueue[c]) \in Int /\ CHANNEL_BUFFER \in Int
      BY <1>2, QueueFacts, NotificationsAssumption
    <2>2. Len(absQueue[c]) <= CHANNEL_BUFFER /\ ~(Len(absQueue[c]) < CHANNEL_BUFFER)
      BY <1>1, <1>2, QueueFacts, ChannelFacts DEF Bounded, FullAt, Room
    <2> QED
      BY <2>1, <2>2
  <1>7. absQueue' = absQueue
    BY <1>1 DEF FullAt, absQueue
  <1> QED
    BY <1>2, <1>3, <1>4, <1>5, <1>6, <1>7 DEF M!Lose, M!Settle

LEMMA ReadTakes ==
  ASSUME IInv, NEW c \in Clients, Read(c)
  PROVE  M!Take(c)
  <1>1. /\ conn[c] = "open" /\ Pending(c) > 0 /\ taken' = [taken EXCEPT ![c] = @ + 1]
        /\ UNCHANGED <<conn, log, full>>
    BY DEF Read
  <1>2. taken'[c] = taken[c] + 1 /\ \A d \in Clients : d # c => taken'[d] = taken[d]
    BY <1>1 DEF IInv, TypeOK
  <1>3. taken[c] < Len(log[c])
    BY <1>1, QueueFacts DEF Pending
  <1>4. absQueue'[c] = Tail(absQueue[c])
    <2>1. SubSeq(log[c], (taken[c] + 1) + 1, Len(log[c])) = Tail(SubSeq(log[c], taken[c] + 1, Len(log[c])))
      BY <1>3, QueueFacts, RestTaken
    <2>2. absQueue'[c] = SubSeq(log[c], (taken[c] + 1) + 1, Len(log[c]))
      BY <1>1, <1>2 DEF absQueue
    <2> QED
      BY <2>1, <2>2 DEF absQueue
  <1>5. ASSUME NEW d \in Clients, d # c PROVE absQueue'[d] = absQueue[d]
    <2>1. log'[d] = log[d] /\ taken'[d] = taken[d]
      BY <1>1, <1>2, <1>5
    <2> QED
      BY <2>1 DEF absQueue
  <1>6. absQueue' = [absQueue EXCEPT ![c] = Tail(@)]
    BY <1>4, <1>5 DEF absQueue
  <1>7. absQueue[c] # <<>>
    <2>1. Len(absQueue[c]) > 0
      BY <1>1, QueueFacts
    <2> QED
      BY <2>1
  <1>8. c \in absOpen /\ absOpen' = absOpen /\ absSettled' = absSettled
    BY <1>1 DEF absOpen, absSettled
  <1> QED
    BY <1>6, <1>7, <1>8 DEF M!Take

LEMMA SubscribeOpens ==
  ASSUME IInv, NEW c \in Clients, Subscribe(c)
  PROVE  M!Open(c)
  <1>1. conn[c] = "new" /\ conn' = [conn EXCEPT ![c] = "open"] /\ UNCHANGED channels
    BY DEF Subscribe
  <1>2. c \notin absOpen /\ absOpen' = absOpen \cup {c}
    BY <1>1 DEF absOpen, IInv, TypeOK
  <1>3. full[c] = {} /\ log[c] = <<>>
    BY <1>1 DEF IInv, FreshChannels
  <1>4. absSettled[c] = {}
    BY <1>3 DEF absSettled
  <1>5. absQueue[c] = <<>>
    <2>1. Len(absQueue[c]) = 0 /\ absQueue[c] \in Seq(Note)
      BY <1>3, QueueFacts DEF Pending
    <2> QED
      BY <2>1
  <1> QED
    BY <1>1, <1>2, <1>4, <1>5 DEF M!Open, channels, absQueue, absSettled

\* notifications.rs:68: for any number of leaves, clients and events and any size of
\* the channels, every client has a mailbox of its own.
THEOREM BrokerImplementsMailbox == Spec => ImplementsMailbox
  <1>1. Init => M!Init
    BY DEF Init, M!Init, absOpen, absQueue, absSettled
  <1>2. IInv /\ [Next]_vars => [M!Next]_(M!vars)
    <2> SUFFICES ASSUME IInv, [Next]_vars PROVE [M!Next]_(M!vars)
      OBVIOUS
    <2>1. ASSUME NEW l \in Leaves,
                 \/ Connected(l) \/ StreamEnds(l) \/ TimesOut(l) \/ Malformed(l) \/ Publish(l)
                 \/ Closed(l) \/ Released(l) \/ RemoveDead(l)
          PROVE  UNCHANGED M!vars
      BY <2>1, MailboxesKept DEF Connected, StreamEnds, TimesOut, Malformed, Publish, Closed,
                                 Released, RemoveDead, absOpen
    <2>2. ASSUME NEW c \in Clients, Disconnect(c) PROVE M!Close(c)
      BY <2>2 DEF Disconnect, AfterDrop, channels, IInv, TypeOK, absOpen, absQueue, absSettled, M!Close
    <2>3. ASSUME NEW c \in Clients, Unsubscribe(c) PROVE UNCHANGED M!vars
      BY <2>3, MailboxesKept DEF Unsubscribe, absOpen, IInv, TypeOK
    <2>4. CASE UNCHANGED vars
      BY <2>4, MailboxesKept DEF vars, absOpen
    <2> QED
      BY <2>1, <2>2, <2>3, <2>4, SentPuts, FullLoses, ReadTakes, SubscribeOpens
         DEF Next, PublishStep, M!Next
  <1> QED
    BY <1>1, <1>2, BrokerConsistent, PTL DEF Spec, ImplementsMailbox, M!Spec
=============================================================================
