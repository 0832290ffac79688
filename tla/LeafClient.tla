----------------------------- MODULE LeafClient -----------------------------
(***************************************************************************)
(* leaf_client.rs, for a leaf with transport streamable-http: the session  *)
(* id the federation keeps for the leaf, shared by every request that is   *)
(* routed to it, and the re-initialize-and-retry of send_request.          *)
(*                                                                         *)
(* A call is a request (send_request) or a handshake (initialize).  Each   *)
(* message of a call is sent with whatever session id the cell holds at    *)
(* that moment (phase "ready"), is with the leaf (phase "out"), is         *)
(* answered (phase "in"), and once the headers of the answer are handled   *)
(* its body is read (phase "body").  Of a body only this is kept: whether  *)
(* it arrived, and whether that of initialize has a result.                *)
(* The leaf is external: it demands a session id it issued and has not     *)
(* forgotten, answers 400 or 404 otherwise, executes the request only when *)
(* it accepts the id, and may or may not repeat the id in its answer.  It  *)
(* executes a request before it answers, or between the headers and the    *)
(* body of an answer it streams, or long after the client gave up waiting. *)
(*                                                                         *)
(* A caller stands for one task after another, a new one whenever the leaf *)
(* is done with the request of the last: while the leaf still holds one    *)
(* that was given up, the next call is another caller's.                   *)
(***************************************************************************)
EXTENDS Integers

CONSTANTS
  Callers,     \* tasks that use the client of this leaf
  MaxSessions, \* bound: session ids the leaf issues
  MaxExpiries  \* bound: times the leaf forgets its sessions

ASSUME LeafClientAssumption == MaxSessions \in Nat /\ MaxExpiries \in Nat

VARIABLES
  session_id, \* LeafClient.session_id, 0 for None
  stage,      \* which message of its call a caller is at
  phase,      \* how far that message is
  handshake,  \* the call is initialize, not send_request
  carried,    \* the session id the message was sent with
  status,     \* the answer
  granted,    \* the session id in the header of the answer, 0 if none
  result,     \* of the last call
  inbox,      \* leaf: what it has yet to do about the request of a caller
  valid,      \* leaf: session ids it accepts
  issued,     \* leaf: session ids issued so far
  expiries,   \* leaf: times it forgot its sessions
  tries,      \* history: times the present request was sent
  ran,        \* history: times the leaf executed the present request
  excused,    \* history: the leaf failed, or forgot the new session, in this call
  alone       \* history: no other call overlapped with this one

call == <<stage, phase, handshake>>
answer == <<status, granted>>
leaf == <<inbox, valid, issued, expiries>>
history == <<tries, ran, excused, alone>>
vars == <<session_id, call, carried, answer, result, leaf, history>>

Ids == 1..MaxSessions

TypeOK ==
  /\ session_id \in {0} \cup Ids
  /\ stage \in [Callers -> {"idle", "first", "clear", "init", "note", "note_err", "retry"}]
  /\ phase \in [Callers -> {"ready", "out", "in", "body"}]
  /\ handshake \in [Callers -> BOOLEAN]
  /\ carried \in [Callers -> {0} \cup Ids]
  /\ status \in [Callers -> {"none", "200", "400", "404", "500", "lost", "empty"}]
  /\ granted \in [Callers -> {0} \cup Ids]
  /\ result \in [Callers -> {"none", "ok", "err"}]
  /\ inbox \in [Callers -> {"none", "sent", "accepted"}]
  /\ valid \subseteq Ids
  /\ issued \in {0} \cup Ids
  /\ expiries \in 0..MaxExpiries
  /\ tries \in [Callers -> Nat]
  /\ ran \in [Callers -> Nat]
  /\ excused \in [Callers -> BOOLEAN]
  /\ alone \in [Callers -> BOOLEAN]

Init ==
  /\ session_id = 0
  /\ stage = [c \in Callers |-> "idle"]
  /\ phase = [c \in Callers |-> "ready"]
  /\ handshake = [c \in Callers |-> FALSE]
  /\ carried = [c \in Callers |-> 0]
  /\ status = [c \in Callers |-> "none"]
  /\ granted = [c \in Callers |-> 0]
  /\ result = [c \in Callers |-> "none"]
  /\ inbox = [c \in Callers |-> "none"]
  /\ valid = {}
  /\ issued = 0
  /\ expiries = 0
  /\ tries = [c \in Callers |-> 0]
  /\ ran = [c \in Callers |-> 0]
  /\ excused = [c \in Callers |-> FALSE]
  /\ alone = [c \in Callers |-> FALSE]

-----------------------------------------------------------------------------
\* The calls.

IsRequest(c) == stage[c] \in {"first", "retry"}

IsNote(c) == stage[c] \in {"note", "note_err"}

Begin(c, s, h) ==
  /\ stage[c] = "idle"
  /\ inbox[c] = "none"
  /\ stage' = [stage EXCEPT ![c] = s]
  /\ handshake' = [handshake EXCEPT ![c] = h]
  /\ result' = [result EXCEPT ![c] = "none"]
  /\ tries' = [tries EXCEPT ![c] = 0]
  /\ ran' = [ran EXCEPT ![c] = 0]
  /\ excused' = [excused EXCEPT ![c] = FALSE]
  /\ alone' = [d \in Callers |-> d = c /\ \A e \in Callers \ {c} : stage[e] = "idle"]
  /\ UNCHANGED <<session_id, phase, carried, answer, leaf>>

Request(c) == Begin(c, "first", FALSE)

Handshake(c) == Begin(c, "clear", TRUE)

\* initialize drops the session id first.
Clear(c) ==
  /\ stage[c] = "clear"
  /\ session_id' = 0
  /\ stage' = [stage EXCEPT ![c] = "init"]
  /\ UNCHANGED <<phase, handshake, carried, answer, result, leaf, history>>

\* send_once reads the session id and sends.
Send(c) ==
  /\ stage[c] \in {"first", "init", "note", "note_err", "retry"}
  /\ phase[c] = "ready"
  /\ carried' = [carried EXCEPT ![c] = session_id]
  /\ phase' = [phase EXCEPT ![c] = "out"]
  /\ tries' = [tries EXCEPT ![c] = IF IsRequest(c) THEN @ + 1 ELSE @]
  /\ inbox' = [inbox EXCEPT ![c] = IF IsRequest(c) THEN "sent" ELSE @]
  /\ UNCHANGED <<session_id, stage, handshake, answer, result, valid, issued, expiries,
                 ran, excused, alone>>

\* send_once: the session id in the header of the answer, if there is one, goes
\* into the cell before the body is read.  An answer that was lost has no header.
Store(c) ==
  /\ phase[c] = "in"
  /\ session_id' = IF granted[c] # 0 THEN granted[c] ELSE session_id
  /\ phase' = [phase EXCEPT ![c] = "body"]
  /\ UNCHANGED <<stage, handshake, carried, answer, result, leaf, history>>

\* The call returns.
Finish(c, r) ==
  /\ stage' = [stage EXCEPT ![c] = "idle"]
  /\ result' = [result EXCEPT ![c] = r]

Goto(c, s) ==
  /\ stage' = [stage EXCEPT ![c] = s]
  /\ UNCHANGED result

\* Variant of NeedsRetry: every failure the leaf reports is retried.
NeedsRetryAlways(c) == status[c] \in {"400", "404", "500"}

\* Variant of NeedsRetry: a request without a session is not retried.
NeedsRetryExpired(c) == status[c] = "404"

\* 404, or 400 while the cell is empty now.
NeedsRetry(c) == status[c] = "404" \/ (status[c] = "400" /\ session_id = 0)

\* The body of a success ends when the leaf has executed the request.
BodyEnds(c) == status[c] = "200" => inbox[c] = "none"

\* send_request has its answer.
FirstAnswered(c) ==
  /\ stage[c] = "first"
  /\ phase[c] = "body"
  /\ BodyEnds(c)
  /\ \/ status[c] = "200" /\ Finish(c, "ok")
     \/ NeedsRetry(c) /\ Goto(c, "clear")
     \/ status[c] # "200" /\ ~NeedsRetry(c) /\ Finish(c, "err")
  /\ phase' = [phase EXCEPT ![c] = "ready"]
  /\ UNCHANGED <<session_id, handshake, carried, answer, leaf, history>>

\* Variant of AfterRetry: the request is sent until it succeeds.
AfterRetryAgain(c) == IF status[c] = "200" THEN Finish(c, "ok") ELSE Goto(c, "retry")

AfterRetry(c) == Finish(c, IF status[c] = "200" THEN "ok" ELSE "err")

RetryAnswered(c) ==
  /\ stage[c] = "retry"
  /\ phase[c] = "body"
  /\ BodyEnds(c)
  /\ AfterRetry(c)
  /\ phase' = [phase EXCEPT ![c] = "ready"]
  /\ UNCHANGED <<session_id, handshake, carried, answer, leaf, history>>

\* initialize has its answer; a success without a result is noticed only after
\* notifications/initialized.
InitAnswered(c) ==
  /\ stage[c] = "init"
  /\ phase[c] = "body"
  /\ \/ status[c] = "200" /\ Goto(c, "note")
     \/ status[c] = "empty" /\ Goto(c, "note_err")
     \/ status[c] \notin {"200", "empty"} /\ Finish(c, "err")
  /\ phase' = [phase EXCEPT ![c] = "ready"]
  /\ UNCHANGED <<session_id, handshake, carried, answer, leaf, history>>

\* notifications/initialized is best-effort: whatever came back, initialize is
\* done, and send_request sends its request again.
NoteAnswered(c) ==
  /\ stage[c] \in {"note", "note_err"}
  /\ phase[c] = "body"
  /\ \/ stage[c] = "note_err" /\ Finish(c, "err")
     \/ stage[c] = "note" /\ handshake[c] /\ Finish(c, "ok")
     \/ stage[c] = "note" /\ ~handshake[c] /\ Goto(c, "retry")
  /\ phase' = [phase EXCEPT ![c] = "ready"]
  /\ UNCHANGED <<session_id, handshake, carried, answer, leaf, history>>

-----------------------------------------------------------------------------
\* The leaf.

Answer(c, s, g) ==
  /\ phase[c] = "out"
  /\ phase' = [phase EXCEPT ![c] = "in"]
  /\ status' = [status EXCEPT ![c] = s]
  /\ granted' = [granted EXCEPT ![c] = g]
  /\ UNCHANGED <<session_id, stage, handshake, carried, result, expiries>>

\* initialize opens a session, whatever id it was sent with.
LeafInitializes(c) ==
  /\ stage[c] = "init"
  /\ issued < MaxSessions
  /\ Answer(c, "200", issued + 1)
  /\ issued' = issued + 1
  /\ valid' = valid \cup {issued + 1}
  /\ UNCHANGED <<inbox, history>>

LeafNotes(c) ==
  /\ IsNote(c)
  /\ \E g \in {0, carried[c]} : Answer(c, "200", g)
  /\ UNCHANGED <<inbox, issued, valid, history>>

\* The leaf takes a request whose session it knows.
Accepts(c) == inbox[c] = "sent" /\ carried[c] \in valid

LeafRefuses(c) ==
  /\ inbox[c] = "sent"
  /\ carried[c] \notin valid
  /\ Answer(c, IF carried[c] = 0 THEN "400" ELSE "404", 0)
  /\ inbox' = [inbox EXCEPT ![c] = "none"]
  /\ UNCHANGED <<issued, valid, history>>

\* The leaf executes a request, whether or not the caller still waits for it.
LeafExecutes(c) ==
  /\ Accepts(c) \/ inbox[c] = "accepted"
  /\ inbox' = [inbox EXCEPT ![c] = "none"]
  /\ ran' = [ran EXCEPT ![c] = @ + 1]
  /\ UNCHANGED <<session_id, call, carried, answer, result, valid, issued, expiries,
                 tries, excused, alone>>

\* The leaf answers a request it has executed, or sends the headers and executes
\* it before the body ends.
LeafSucceeds(c) ==
  /\ IsRequest(c)
  /\ \/ inbox[c] = "none" /\ UNCHANGED inbox
     \/ Accepts(c) /\ inbox' = [inbox EXCEPT ![c] = "accepted"]
  /\ \E g \in {0, carried[c]} : Answer(c, "200", g)
  /\ UNCHANGED <<issued, valid, history>>

\* The leaf fails; or it answers initialize without a result; or the answer is
\* lost, or comes after the timeout.  The leaf may have executed the request, may
\* never do so, or, where it took it, may still do so after the call returned.
\* (A session that a lost initialize opened is known to nobody, and left out.)
LeafFails(c) ==
  /\ \/ \E s \in {"500", "lost"} : Answer(c, s, 0)
     \/ stage[c] = "init" /\ Answer(c, "empty", 0)
  /\ \/ inbox' = [inbox EXCEPT ![c] = "none"]
     \/ Accepts(c) /\ inbox' = [inbox EXCEPT ![c] = "accepted"]
  /\ excused' = [excused EXCEPT ![c] = @ \/ ~IsNote(c)]
  /\ UNCHANGED <<issued, valid, tries, ran, alone>>

\* The connection breaks, or the timeout strikes, while the body is read: the
\* call fails although the header of the answer was handled.  The leaf stops at
\* that, or goes on with the request.
BodyLost(c) ==
  /\ phase[c] = "body"
  /\ status[c] # "lost"
  /\ status' = [status EXCEPT ![c] = "lost"]
  /\ UNCHANGED inbox \/ inbox' = [inbox EXCEPT ![c] = "none"]
  /\ excused' = [excused EXCEPT ![c] = @ \/ ~IsNote(c)]
  /\ UNCHANGED <<session_id, call, carried, granted, result, valid, issued, expiries,
                 tries, ran, alone>>

SessionOpened(c) == stage[c] \in {"note", "retry"} \/ (stage[c] = "init" /\ phase[c] \in {"in", "body"})

\* The leaf restarts or its sessions expire.  A call that is already past its
\* first attempt may lose the session it has just opened.
Expire ==
  /\ expiries < MaxExpiries
  /\ expiries' = expiries + 1
  /\ valid' = {}
  /\ excused' = [c \in Callers |-> excused[c] \/ SessionOpened(c)]
  /\ UNCHANGED <<session_id, call, carried, answer, result, inbox, issued, tries, ran, alone>>

LeafStep(c) ==
  \/ LeafInitializes(c) \/ LeafNotes(c) \/ LeafRefuses(c)
  \/ LeafExecutes(c) \/ LeafSucceeds(c) \/ LeafFails(c)

ClientStep(c) ==
  \/ Clear(c) \/ Send(c) \/ Store(c)
  \/ FirstAnswered(c) \/ InitAnswered(c) \/ NoteAnswered(c) \/ RetryAnswered(c)

Next ==
  \/ \E c \in Callers : Request(c) \/ Handshake(c) \/ ClientStep(c) \/ LeafStep(c) \/ BodyLost(c)
  \/ Expire

Spec == Init /\ [][Next]_vars

-----------------------------------------------------------------------------
\* leaf_client.rs:516: however calls, retries, lost answers and expiries
\* interleave, and although the leaf may go on with a request that was given up,
\* it never executes one request twice, and a request that succeeded was executed.
AtMostOnce ==
  \A c \in Callers :
    /\ ran[c] <= 1
    /\ result[c] = "ok" /\ ~handshake[c] => ran[c] = 1

\* Where in its call a request may have been executed, and where the leaf may
\* still hold it; the strengthening of AtMostOnce that is inductive.
RanSoFar ==
  \A c \in Callers :
    /\ ran[c] <= 1
    /\ inbox[c] # "none" => ran[c] = 0
    /\ inbox[c] = "sent" <=> IsRequest(c) /\ phase[c] = "out" /\ ran[c] = 0
    /\ IsRequest(c) /\ phase[c] = "out" => inbox[c] # "accepted"
    /\ IsRequest(c) /\ phase[c] = "ready" => ran[c] = 0 /\ inbox[c] = "none"
    /\ stage[c] \in {"clear", "init", "note", "note_err"} => ran[c] = 0 /\ inbox[c] = "none"
    /\ IsRequest(c) /\ phase[c] \in {"in", "body"} =>
         /\ status[c] = "200" => ran[c] = 1 \/ inbox[c] = "accepted"
         /\ status[c] \in {"400", "404"} => ran[c] = 0 /\ inbox[c] = "none"
    /\ stage[c] = "idle" /\ inbox[c] = "accepted" => result[c] = "err"
    /\ stage[c] \in {"idle", "clear"} => phase[c] = "ready"
    /\ result[c] = "ok" => stage[c] = "idle"
    /\ result[c] = "ok" /\ ~handshake[c] => ran[c] = 1
    /\ handshake[c] => ~IsRequest(c) /\ inbox[c] = "none"

\* leaf_client.rs:124, 537: neither the retry nor the initialize inside it starts
\* over: however sessions come and go under it, a call sends its request twice at
\* most.
AtMostTwoTries == \A c \in Callers : tries[c] <= 2

\* How often a request can have been sent at each point of its call.
TriesSoFar ==
  \A c \in Callers :
    /\ tries[c] \in 0..2
    /\ stage[c] = "first" => tries[c] = IF phase[c] = "ready" THEN 0 ELSE 1
    /\ stage[c] \in {"clear", "init", "note", "note_err"} => tries[c] = IF handshake[c] THEN 0 ELSE 1
    /\ stage[c] = "retry" => tries[c] = IF phase[c] = "ready" THEN 1 ELSE 2

\* leaf_client.rs:601: the cell holds a session id this leaf issued, or none.
CellIssued ==
  /\ session_id \in 0..issued
  /\ valid \subseteq 1..issued
  /\ \A c \in Callers : granted[c] \in 0..issued /\ carried[c] \in 0..issued

\* Where a call that is alone stands while the leaf did nothing wrong: a message
\* carries what the cell holds, a first attempt that is refused is one NeedsRetry
\* accepts, and from the answer to initialize on the cell holds a session the
\* leaf knows.
AloneSoFar ==
  \A c \in Callers : alone[c] =>
    /\ \A d \in Callers \ {c} : stage[d] = "idle"
    /\ ~excused[c] =>
         /\ result[c] # "err" /\ stage[c] # "note_err"
         /\ stage[c] # "init" /\ phase[c] \in {"out", "in"} => carried[c] = session_id
         /\ stage[c] # "init" /\ phase[c] = "in" => granted[c] \in {0, session_id}
         /\ stage[c] = "first" /\ phase[c] \in {"in", "body"} =>
              status[c] \in {"200", "404"} \/ (status[c] = "400" /\ session_id = 0)
         /\ stage[c] = "init" /\ phase[c] \in {"in", "body"} =>
              status[c] = "200" /\ (IF phase[c] = "in" THEN granted[c] ELSE session_id) \in valid
         /\ stage[c] \in {"note", "retry"} => session_id \in valid
         /\ stage[c] = "retry" /\ phase[c] \in {"in", "body"} => status[c] = "200"

\* leaf_client.rs: everything above, which holds at every step.
IInv == TypeOK /\ RanSoFar /\ TriesSoFar /\ CellIssued /\ AloneSoFar

\* leaf_client.rs:522: for a call no other call overlapped with, the retry is
\* transparent: it fails only where the leaf failed, or forgot the session
\* opened for the retry.
TransparentWhenAlone == \A c \in Callers : result[c] = "err" /\ alone[c] => excused[c]

\* What a caller waits for, from the call to the return, or gave up.
absWork ==
  [c \in Callers |->
     IF stage[c] # "idle" THEN IF handshake[c] THEN "handshake" ELSE "request"
     ELSE IF result[c] = "err" /\ ~handshake[c] THEN "given_up" ELSE "none"]

R == INSTANCE RemoteCall WITH work <- absWork, executed <- ran, outcome <- result

\* leaf_client.rs:516, 584, 612: with sessions, retries and lost answers hidden, the
\* client is an at-most-once call: the leaf executes a request not twice, never
\* before its call, and after its return only if that was an error, and a result
\* once returned stands until the next call.
ImplementsRemoteCall == R!Spec

\* The documentation: on 404 or 400 the federation transparently re-initializes
\* and retries.  A request fails only where the leaf failed, or forgot the
\* session opened for the retry.
TransparentRetry == \A c \in Callers : result[c] = "err" => excused[c]
=============================================================================
