------------------------- MODULE LeafClient_proofs -------------------------
(***************************************************************************)
(* The leaf never executes a request twice, for any number of concurrent   *)
(* callers and however many sessions it opens and forgets.                 *)
(***************************************************************************)
EXTENDS LeafClient, TLAPS

\* Every step of a call or of the leaf keeps the types.
LEMMA StepTypeOK == ASSUME IInv, Next PROVE TypeOK'
  <1> USE LeafClientAssumption DEF IInv, TypeOK, Ids, leaf, answer, call, history
  <1>1. ASSUME NEW c \in Callers, Request(c) PROVE TypeOK'
    BY <1>1 DEF Request, Begin
  <1>2. ASSUME NEW c \in Callers, Handshake(c) PROVE TypeOK'
    BY <1>2 DEF Handshake, Begin
  <1>3. ASSUME NEW c \in Callers, Clear(c) PROVE TypeOK'
    BY <1>3 DEF Clear
  <1>4. ASSUME NEW c \in Callers, Send(c) PROVE TypeOK'
    BY <1>4 DEF Send, IsRequest
  <1>5. ASSUME NEW c \in Callers, FirstAnswered(c) PROVE TypeOK'
    BY <1>5 DEF FirstAnswered, BodyEnds, Finish, Goto, NeedsRetry
  <1>6. ASSUME NEW c \in Callers, InitAnswered(c) PROVE TypeOK'
    BY <1>6 DEF InitAnswered, Finish, Goto
  <1>7. ASSUME NEW c \in Callers, NoteAnswered(c) PROVE TypeOK'
    BY <1>7 DEF NoteAnswered, Finish, Goto
  <1>8. ASSUME NEW c \in Callers, RetryAnswered(c) PROVE TypeOK'
    BY <1>8 DEF RetryAnswered, BodyEnds, AfterRetry, Finish
  <1>9. ASSUME NEW c \in Callers, LeafInitializes(c) PROVE TypeOK'
    BY <1>9 DEF LeafInitializes, Answer
  <1>10. ASSUME NEW c \in Callers, LeafNotes(c) PROVE TypeOK'
    BY <1>10 DEF LeafNotes, Answer, IsNote
  <1>11. ASSUME NEW c \in Callers, LeafRefuses(c) PROVE TypeOK'
    BY <1>11 DEF LeafRefuses, Answer
  <1>12. ASSUME NEW c \in Callers, LeafExecutes(c) PROVE TypeOK'
    BY <1>12 DEF LeafExecutes, Accepts
  <1>13. ASSUME NEW c \in Callers, LeafFails(c) PROVE TypeOK'
    <2>1. /\ inbox' \in [Callers -> {"none", "sent", "accepted"}]
          /\ excused' \in [Callers -> BOOLEAN]
      BY <1>13 DEF LeafFails
    <2> QED
      BY <1>13, <2>1 DEF LeafFails, Answer
  <1>14. ASSUME Expire PROVE TypeOK'
    BY <1>14 DEF Expire, SessionOpened
  <1>15. ASSUME NEW c \in Callers, Store(c) PROVE TypeOK'
    BY <1>15 DEF Store
  <1>16. ASSUME NEW c \in Callers, BodyLost(c) PROVE TypeOK'
    BY <1>16 DEF BodyLost, IsNote
  <1>17. ASSUME NEW c \in Callers, LeafSucceeds(c) PROVE TypeOK'
    BY <1>17 DEF LeafSucceeds, Accepts, Answer
  <1> HIDE DEF TypeOK, RanSoFar, TriesSoFar, CellIssued, AloneSoFar
  <1> QED
    BY <1>1, <1>2, <1>3, <1>4, <1>5, <1>6, <1>7, <1>8, <1>9, <1>10, <1>11, <1>12, <1>13, <1>14, <1>15, <1>16, <1>17
    DEF Next, ClientStep, LeafStep

\* Every step keeps the record of what was executed in line with the position
\* of the call.
LEMMA StepRanSoFar == ASSUME IInv, Next PROVE RanSoFar'
  <1> USE LeafClientAssumption DEF IInv, TypeOK, RanSoFar, IsRequest, leaf, answer, call, history
  <1>1. ASSUME NEW c \in Callers, Request(c) PROVE RanSoFar'
    BY <1>1 DEF Request, Begin
  <1>2. ASSUME NEW c \in Callers, Handshake(c) PROVE RanSoFar'
    BY <1>2 DEF Handshake, Begin
  <1>3. ASSUME NEW c \in Callers, Clear(c) PROVE RanSoFar'
    BY <1>3 DEF Clear
  <1>4. ASSUME NEW c \in Callers, Send(c) PROVE RanSoFar'
    BY <1>4 DEF Send, IsRequest
  <1>5. ASSUME NEW c \in Callers, FirstAnswered(c) PROVE RanSoFar'
    BY <1>5 DEF FirstAnswered, BodyEnds, Finish, Goto, NeedsRetry
  <1>6. ASSUME NEW c \in Callers, InitAnswered(c) PROVE RanSoFar'
    BY <1>6 DEF InitAnswered, Finish, Goto
  <1>7. ASSUME NEW c \in Callers, NoteAnswered(c) PROVE RanSoFar'
    BY <1>7 DEF NoteAnswered, Finish, Goto
  <1>8. ASSUME NEW c \in Callers, RetryAnswered(c) PROVE RanSoFar'
    BY <1>8 DEF RetryAnswered, BodyEnds, AfterRetry, Finish
  <1>9. ASSUME NEW c \in Callers, LeafInitializes(c) PROVE RanSoFar'
    BY <1>9 DEF LeafInitializes, Answer
  <1>10. ASSUME NEW c \in Callers, LeafNotes(c) PROVE RanSoFar'
    BY <1>10 DEF LeafNotes, Answer, IsNote
  <1>11. ASSUME NEW c \in Callers, LeafRefuses(c) PROVE RanSoFar'
    BY <1>11 DEF LeafRefuses, Answer
  <1>12. ASSUME NEW c \in Callers, LeafExecutes(c) PROVE RanSoFar'
    BY <1>12 DEF LeafExecutes, Accepts
  <1>13. ASSUME NEW c \in Callers, LeafFails(c) PROVE RanSoFar'
    BY <1>13 DEF LeafFails, Accepts, Answer, IsNote
  <1>14. ASSUME Expire PROVE RanSoFar'
    BY <1>14 DEF Expire, SessionOpened
  <1>15. ASSUME NEW c \in Callers, Store(c) PROVE RanSoFar'
    BY <1>15 DEF Store
  <1>16. ASSUME NEW c \in Callers, BodyLost(c) PROVE RanSoFar'
    BY <1>16 DEF BodyLost, IsNote
  <1>17. ASSUME NEW c \in Callers, LeafSucceeds(c) PROVE RanSoFar'
    BY <1>17 DEF LeafSucceeds, Accepts, Answer
  <1> HIDE DEF TypeOK, RanSoFar, TriesSoFar, CellIssued, AloneSoFar
  <1> QED
    BY <1>1, <1>2, <1>3, <1>4, <1>5, <1>6, <1>7, <1>8, <1>9, <1>10, <1>11, <1>12, <1>13, <1>14, <1>15, <1>16, <1>17
    DEF Next, ClientStep, LeafStep

\* Every step keeps the number of tries in line with the position of the call.
LEMMA StepTriesSoFar == ASSUME IInv, Next PROVE TriesSoFar'
  <1> USE LeafClientAssumption DEF IInv, TypeOK, RanSoFar, TriesSoFar, IsRequest, leaf, answer, call, history
  <1>1. ASSUME NEW c \in Callers, Request(c) PROVE TriesSoFar'
    BY <1>1 DEF Request, Begin
  <1>2. ASSUME NEW c \in Callers, Handshake(c) PROVE TriesSoFar'
    BY <1>2 DEF Handshake, Begin
  <1>3. ASSUME NEW c \in Callers, Clear(c) PROVE TriesSoFar'
    BY <1>3 DEF Clear
  <1>4. ASSUME NEW c \in Callers, Send(c) PROVE TriesSoFar'
    BY <1>4 DEF Send, IsRequest
  <1>5. ASSUME NEW c \in Callers, FirstAnswered(c) PROVE TriesSoFar'
    BY <1>5 DEF FirstAnswered, BodyEnds, Finish, Goto, NeedsRetry
  <1>6. ASSUME NEW c \in Callers, InitAnswered(c) PROVE TriesSoFar'
    BY <1>6 DEF InitAnswered, Finish, Goto
  <1>7. ASSUME NEW c \in Callers, NoteAnswered(c) PROVE TriesSoFar'
    BY <1>7 DEF NoteAnswered, Finish, Goto
  <1>8. ASSUME NEW c \in Callers, RetryAnswered(c) PROVE TriesSoFar'
    BY <1>8 DEF RetryAnswered, BodyEnds, AfterRetry, Finish
  <1>9. ASSUME NEW c \in Callers, LeafInitializes(c) PROVE TriesSoFar'
    BY <1>9 DEF LeafInitializes, Answer
  <1>10. ASSUME NEW c \in Callers, LeafNotes(c) PROVE TriesSoFar'
    BY <1>10 DEF LeafNotes, Answer, IsNote
  <1>11. ASSUME NEW c \in Callers, LeafRefuses(c) PROVE TriesSoFar'
    BY <1>11 DEF LeafRefuses, Answer
  <1>12. ASSUME NEW c \in Callers, LeafExecutes(c) PROVE TriesSoFar'
    BY <1>12 DEF LeafExecutes, Accepts
  <1>13. ASSUME NEW c \in Callers, LeafFails(c) PROVE TriesSoFar'
    BY <1>13 DEF LeafFails, Accepts, Answer, IsNote
  <1>14. ASSUME Expire PROVE TriesSoFar'
    BY <1>14 DEF Expire, SessionOpened
  <1>15. ASSUME NEW c \in Callers, Store(c) PROVE TriesSoFar'
    BY <1>15 DEF Store
  <1>16. ASSUME NEW c \in Callers, BodyLost(c) PROVE TriesSoFar'
    BY <1>16 DEF BodyLost, IsNote
  <1>17. ASSUME NEW c \in Callers, LeafSucceeds(c) PROVE TriesSoFar'
    BY <1>17 DEF LeafSucceeds, Accepts, Answer
  <1> HIDE DEF TypeOK, RanSoFar, TriesSoFar, CellIssued, AloneSoFar
  <1> QED
    BY <1>1, <1>2, <1>3, <1>4, <1>5, <1>6, <1>7, <1>8, <1>9, <1>10, <1>11, <1>12, <1>13, <1>14, <1>15, <1>16, <1>17
    DEF Next, ClientStep, LeafStep

\* Every step leaves a session id of this leaf, or none, in the cell.
LEMMA StepCellIssued == ASSUME IInv, Next PROVE CellIssued'
  <1> USE LeafClientAssumption DEF IInv, TypeOK, Ids, CellIssued, leaf, answer, call, history
  <1>1. ASSUME NEW c \in Callers, Request(c) PROVE CellIssued'
    BY <1>1 DEF Request, Begin
  <1>2. ASSUME NEW c \in Callers, Handshake(c) PROVE CellIssued'
    BY <1>2 DEF Handshake, Begin
  <1>3. ASSUME NEW c \in Callers, Clear(c) PROVE CellIssued'
    BY <1>3 DEF Clear
  <1>4. ASSUME NEW c \in Callers, Send(c) PROVE CellIssued'
    BY <1>4 DEF Send, IsRequest
  <1>5. ASSUME NEW c \in Callers, FirstAnswered(c) PROVE CellIssued'
    BY <1>5 DEF FirstAnswered, BodyEnds, Finish, Goto, NeedsRetry
  <1>6. ASSUME NEW c \in Callers, InitAnswered(c) PROVE CellIssued'
    BY <1>6 DEF InitAnswered, Finish, Goto
  <1>7. ASSUME NEW c \in Callers, NoteAnswered(c) PROVE CellIssued'
    BY <1>7 DEF NoteAnswered, Finish, Goto
  <1>8. ASSUME NEW c \in Callers, RetryAnswered(c) PROVE CellIssued'
    BY <1>8 DEF RetryAnswered, BodyEnds, AfterRetry, Finish
  <1>9. ASSUME NEW c \in Callers, LeafInitializes(c) PROVE CellIssued'
    BY <1>9 DEF LeafInitializes, Answer
  <1>10. ASSUME NEW c \in Callers, LeafNotes(c) PROVE CellIssued'
    BY <1>10 DEF LeafNotes, Answer, IsNote
  <1>11. ASSUME NEW c \in Callers, LeafRefuses(c) PROVE CellIssued'
    BY <1>11 DEF LeafRefuses, Answer
  <1>12. ASSUME NEW c \in Callers, LeafExecutes(c) PROVE CellIssued'
    BY <1>12 DEF LeafExecutes, Accepts
  <1>13. ASSUME NEW c \in Callers, LeafFails(c) PROVE CellIssued'
    BY <1>13 DEF LeafFails, Accepts, Answer, IsNote
  <1>14. ASSUME Expire PROVE CellIssued'
    BY <1>14 DEF Expire, SessionOpened
  <1>15. ASSUME NEW c \in Callers, Store(c) PROVE CellIssued'
    BY <1>15 DEF Store
  <1>16. ASSUME NEW c \in Callers, BodyLost(c) PROVE CellIssued'
    BY <1>16 DEF BodyLost, IsNote
  <1>17. ASSUME NEW c \in Callers, LeafSucceeds(c) PROVE CellIssued'
    BY <1>17 DEF LeafSucceeds, Accepts, Answer
  <1> HIDE DEF TypeOK, RanSoFar, TriesSoFar, CellIssued, AloneSoFar
  <1> QED
    BY <1>1, <1>2, <1>3, <1>4, <1>5, <1>6, <1>7, <1>8, <1>9, <1>10, <1>11, <1>12, <1>13, <1>14, <1>15, <1>16, <1>17
    DEF Next, ClientStep, LeafStep

\* A call that begins is alone or not; whichever it is, no other call is alone
\* any more.
LEMMA BeginAlone ==
  ASSUME IInv, NEW c \in Callers, NEW s \in {"first", "clear"}, NEW h \in BOOLEAN, Begin(c, s, h)
  PROVE  AloneSoFar'
  <1> SUFFICES ASSUME NEW b \in Callers, alone'[b]
               PROVE  AloneSoFar!(b)'
    BY DEF AloneSoFar
  <1>1. b = c /\ \A d \in Callers \ {c} : stage[d] = "idle"
    BY DEF Begin
  <1>2. phase'[c] = "ready" /\ stage'[c] = s /\ result'[c] = "none"
    BY DEF Begin, IInv, TypeOK, RanSoFar
  <1>3. \A d \in Callers \ {c} : stage'[d] = "idle"
    BY <1>1 DEF Begin, IInv, TypeOK
  <1> QED
    BY <1>1, <1>2, <1>3

\* Every step of a call that is alone keeps its session with the leaf.
LEMMA StepAloneSoFar == ASSUME IInv, Next PROVE AloneSoFar'
  <1> USE LeafClientAssumption DEF IInv, TypeOK, RanSoFar, IsRequest, AloneSoFar, leaf, answer, call, history
  <1>1. ASSUME NEW c \in Callers, Request(c) PROVE AloneSoFar'
    BY <1>1, BeginAlone DEF Request
  <1>2. ASSUME NEW c \in Callers, Handshake(c) PROVE AloneSoFar'
    BY <1>2, BeginAlone DEF Handshake
  <1>3. ASSUME NEW c \in Callers, Clear(c) PROVE AloneSoFar'
    BY <1>3 DEF Clear
  <1>4. ASSUME NEW c \in Callers, Send(c) PROVE AloneSoFar'
    BY <1>4 DEF Send, IsRequest
  <1>5. ASSUME NEW c \in Callers, FirstAnswered(c) PROVE AloneSoFar'
    BY <1>5 DEF FirstAnswered, BodyEnds, Finish, Goto, NeedsRetry
  <1>6. ASSUME NEW c \in Callers, InitAnswered(c) PROVE AloneSoFar'
    BY <1>6 DEF InitAnswered, Finish, Goto
  <1>7. ASSUME NEW c \in Callers, NoteAnswered(c) PROVE AloneSoFar'
    BY <1>7 DEF NoteAnswered, Finish, Goto
  <1>8. ASSUME NEW c \in Callers, RetryAnswered(c) PROVE AloneSoFar'
    BY <1>8 DEF RetryAnswered, BodyEnds, AfterRetry, Finish
  <1>9. ASSUME NEW c \in Callers, LeafInitializes(c) PROVE AloneSoFar'
    BY <1>9 DEF LeafInitializes, Answer
  <1>10. ASSUME NEW c \in Callers, LeafNotes(c) PROVE AloneSoFar'
    BY <1>10 DEF LeafNotes, Answer, IsNote
  <1>11. ASSUME NEW c \in Callers, LeafRefuses(c) PROVE AloneSoFar'
    BY <1>11 DEF LeafRefuses, Answer
  <1>12. ASSUME NEW c \in Callers, LeafExecutes(c) PROVE AloneSoFar'
    BY <1>12 DEF LeafExecutes, Accepts
  <1>13. ASSUME NEW c \in Callers, LeafFails(c) PROVE AloneSoFar'
    BY <1>13 DEF LeafFails, Accepts, Answer, IsNote
  <1>14. ASSUME Expire PROVE AloneSoFar'
    BY <1>14 DEF Expire, SessionOpened
  <1>15. ASSUME NEW c \in Callers, Store(c) PROVE AloneSoFar'
    BY <1>15 DEF Store, CellIssued
  <1>16. ASSUME NEW c \in Callers, BodyLost(c) PROVE AloneSoFar'
    BY <1>16 DEF BodyLost, IsNote
  <1>17. ASSUME NEW c \in Callers, LeafSucceeds(c) PROVE AloneSoFar'
    BY <1>17 DEF LeafSucceeds, Accepts, Answer
  <1> HIDE DEF TypeOK, RanSoFar, TriesSoFar, CellIssued, AloneSoFar
  <1> QED
    BY <1>1, <1>2, <1>3, <1>4, <1>5, <1>6, <1>7, <1>8, <1>9, <1>10, <1>11, <1>12, <1>13, <1>14, <1>15, <1>16, <1>17
    DEF Next, ClientStep, LeafStep

\* leaf_client.rs:104, 516: the position of every call, what the leaf executed
\* for it and the session ids in circulation stay consistent.
THEOREM ClientConsistent == Spec => []IInv
  <1>1. Init => IInv
    BY LeafClientAssumption
    DEF Init, IInv, TypeOK, Ids, RanSoFar, TriesSoFar, IsRequest, CellIssued, AloneSoFar
  <1>2. IInv /\ [Next]_vars => IInv'
    <2> SUFFICES ASSUME IInv, [Next]_vars PROVE IInv'
      OBVIOUS
    <2>1. CASE Next
      BY <2>1, StepTypeOK, StepRanSoFar, StepTriesSoFar, StepCellIssued, StepAloneSoFar DEF IInv
    <2>2. CASE UNCHANGED vars
      BY <2>2 DEF vars, IInv, TypeOK, RanSoFar, TriesSoFar, IsRequest, CellIssued, AloneSoFar,
        call, answer, leaf, history
    <2> QED
      BY <2>1, <2>2
  <1> QED
    BY <1>1, <1>2, PTL DEF Spec

\* leaf_client.rs:516: re-initialize and retry never makes the leaf execute a
\* request (a tools/call may have effects) twice, late executions of requests that
\* were given up included, and success means once.
THEOREM NeverExecutedTwice == Spec => []AtMostOnce
  <1>1. IInv => AtMostOnce
    BY DEF IInv, TypeOK, RanSoFar, AtMostOnce
  <1> QED
    BY <1>1, ClientConsistent, PTL

\* leaf_client.rs:124, 537: a call never sends its request more than twice.
THEOREM RetriesOnce == Spec => []AtMostTwoTries
  <1>1. ASSUME IInv, NEW c \in Callers PROVE tries[c] <= 2
    <2>1. tries[c] \in 0..2
      BY <1>1, Zenon DEF IInv, TriesSoFar
    <2> QED
      BY <2>1
  <1>2. IInv => AtMostTwoTries
    BY <1>1 DEF AtMostTwoTries
  <1> QED
    BY <1>2, ClientConsistent, PTL

\* leaf_client.rs:522: a call that no other call overlapped with fails only where
\* the leaf failed, or forgot the session opened for the retry.
THEOREM RetryTransparent == Spec => []TransparentWhenAlone
  <1>1. IInv => TransparentWhenAlone
    BY DEF IInv, TypeOK, AloneSoFar, TransparentWhenAlone
  <1> QED
    BY <1>1, ClientConsistent, PTL

\* Steps no caller sees: what it waits for, what was executed for it and what its
\* call returned are what they were.
LEMMA HiddenSteps ==
  ASSUME IInv, NEW c \in Callers,
         \/ Clear(c) \/ Send(c) \/ Store(c) \/ BodyLost(c)
         \/ LeafInitializes(c) \/ LeafNotes(c) \/ LeafRefuses(c) \/ LeafSucceeds(c) \/ LeafFails(c)
  PROVE  UNCHANGED R!vars
  <1> USE DEF IInv, TypeOK, R!vars, absWork, call, answer, leaf, history
  <1>1. CASE Clear(c)
    BY <1>1 DEF Clear
  <1>2. CASE Send(c)
    BY <1>2 DEF Send
  <1>3. CASE Store(c)
    BY <1>3 DEF Store
  <1>4. CASE BodyLost(c)
    BY <1>4 DEF BodyLost
  <1>5. CASE LeafInitializes(c)
    BY <1>5 DEF LeafInitializes, Answer
  <1>6. CASE LeafNotes(c)
    BY <1>6 DEF LeafNotes, Answer
  <1>7. CASE LeafRefuses(c)
    BY <1>7 DEF LeafRefuses, Answer
  <1>8. CASE LeafSucceeds(c)
    BY <1>8 DEF LeafSucceeds, Answer
  <1>9. CASE LeafFails(c)
    BY <1>9 DEF LeafFails, Answer
  <1> QED
    BY <1>1, <1>2, <1>3, <1>4, <1>5, <1>6, <1>7, <1>8, <1>9

\* The end of a call, and a step of a call that goes on.
LEMMA FinishReturns ==
  ASSUME IInv, NEW c \in Callers, NEW r \in {"ok", "err"}, stage[c] # "idle", Finish(c, r),
         ~handshake[c] /\ r = "ok" => ran[c] = 1, UNCHANGED <<handshake, ran>>
  PROVE  R!Return(c, r)
  <1>1. absWork[c] = IF handshake[c] THEN "handshake" ELSE "request"
    BY DEF absWork
  <1>2. ASSUME NEW d \in Callers
        PROVE  absWork'[d] = IF d = c THEN IF r = "err" /\ ~handshake[c] THEN "given_up" ELSE "none"
                             ELSE absWork[d]
    BY DEF IInv, TypeOK, Finish, absWork
  <1>3. absWork' = [absWork EXCEPT ![c] =
                      IF absWork[c] = "request" /\ r = "err" THEN "given_up" ELSE "none"]
    BY <1>1, <1>2 DEF absWork
  <1> QED
    BY <1>1, <1>3 DEF Finish, R!Return

LEMMA GotoHidden ==
  ASSUME IInv, NEW c \in Callers, NEW s, stage[c] # "idle", s # "idle", Goto(c, s),
         UNCHANGED <<handshake, ran>>
  PROVE  UNCHANGED R!vars
  BY DEF IInv, TypeOK, Goto, absWork, R!vars

\* The leaf executes a request that it holds, for the first time; the call still
\* waits, or it returned an error.
LEMMA ExecutionSeen == ASSUME IInv, NEW c \in Callers, LeafExecutes(c) PROVE R!Execute(c)
  <1>1. inbox[c] # "none"
    BY DEF LeafExecutes, Accepts
  <1>2. ran[c] = 0 /\ ~handshake[c]
    BY <1>1 DEF IInv, RanSoFar
  <1>3. stage[c] = "idle" => result[c] = "err"
    BY <1>1 DEF IInv, TypeOK, RanSoFar, IsRequest
  <1>4. absWork[c] \in {"request", "given_up"}
    BY <1>2, <1>3 DEF absWork
  <1>5. UNCHANGED absWork
    BY DEF LeafExecutes, absWork, call
  <1>6. ran' = [ran EXCEPT ![c] = 1] /\ UNCHANGED result
    BY <1>2 DEF LeafExecutes
  <1> QED
    BY <1>2, <1>4, <1>5, <1>6 DEF R!Execute

\* leaf_client.rs:516: for any number of callers and sessions, and with leaves that
\* execute requests after the client gave up, the client with its retry implements
\* the at-most-once call.
THEOREM ClientImplementsRemoteCall == Spec => ImplementsRemoteCall
  <1>1. Init => R!Init
    BY DEF Init, R!Init, absWork
  <1>2. IInv /\ [Next]_vars => [R!Next]_(R!vars)
    <2> SUFFICES ASSUME IInv, [Next]_vars PROVE [R!Next]_(R!vars)
      OBVIOUS
    <2> USE DEF history, leaf
    <2>1. ASSUME NEW c \in Callers, Request(c) PROVE R!Call(c, "request")
      BY <2>1 DEF IInv, TypeOK, Request, Begin, R!Call, absWork
    <2>2. ASSUME NEW c \in Callers, Handshake(c) PROVE R!Call(c, "handshake")
      BY <2>2 DEF IInv, TypeOK, Handshake, Begin, R!Call, absWork
    <2>3. ASSUME NEW c \in Callers, FirstAnswered(c)
          PROVE  (\E r \in {"ok", "err"} : R!Return(c, r)) \/ UNCHANGED R!vars
      <3>1. status[c] = "200" => ran[c] = 1
        BY <2>3 DEF IInv, RanSoFar, IsRequest, FirstAnswered, BodyEnds
      <3> QED
        BY <2>3, <3>1, FinishReturns, GotoHidden DEF FirstAnswered
    <2>4. ASSUME NEW c \in Callers, RetryAnswered(c)
          PROVE  \E r \in {"ok", "err"} : R!Return(c, r)
      <3>1. status[c] = "200" => ran[c] = 1
        BY <2>4 DEF IInv, RanSoFar, IsRequest, RetryAnswered, BodyEnds
      <3> QED
        BY <2>4, <3>1, FinishReturns DEF RetryAnswered, AfterRetry
    <2>5. ASSUME NEW c \in Callers, InitAnswered(c)
          PROVE  R!Return(c, "err") \/ UNCHANGED R!vars
      BY <2>5, FinishReturns, GotoHidden DEF InitAnswered
    <2>6. ASSUME NEW c \in Callers, NoteAnswered(c)
          PROVE  (\E r \in {"ok", "err"} : R!Return(c, r)) \/ UNCHANGED R!vars
      BY <2>6, FinishReturns, GotoHidden DEF NoteAnswered
    <2>7. CASE Expire
      BY <2>7 DEF Expire, absWork, R!vars, call
    <2>8. CASE UNCHANGED vars
      BY <2>8 DEF vars, call, absWork, R!vars
    <2> QED
      BY <2>1, <2>2, <2>3, <2>4, <2>5, <2>6, <2>7, <2>8, HiddenSteps, ExecutionSeen
         DEF Next, ClientStep, LeafStep, R!Next
  <1> QED
    BY <1>1, <1>2, ClientConsistent, PTL DEF Spec, ImplementsRemoteCall, R!Spec
=============================================================================
