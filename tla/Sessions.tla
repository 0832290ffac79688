------------------------------ MODULE Sessions ------------------------------
(***************************************************************************)
(* MCP sessions: the SessionManager of session.rs, the handlers of         *)
(* server.rs that use it, the prune task and a restart of the process.     *)
(*                                                                         *)
(* A session id is a JWT whose exp claim is fixed when it is issued; the   *)
(* manager also keeps the id in an in-memory map with the time of the last *)
(* use.  A handler validates an id and touches it in two separate critical *)
(* sections, so a DELETE, a prune or other requests may come in between.   *)
(*                                                                         *)
(* Time is relative: age counts the seconds since an id was issued, idle   *)
(* those since its last use, both up to the point where no test of the     *)
(* code tells larger values apart.  One clock stands for SystemTime (exp)  *)
(* and Instant (last_active).                                              *)
(*                                                                         *)
(* SM stands for the session manager in the names that RateLimiter has     *)
(* too, so that one module can be about both.                              *)
(***************************************************************************)
EXTENDS Integers

CONSTANTS
  Sids,         \* session ids create_session can mint (each at most once)
  Requests,     \* HTTP requests handled concurrently
  TTL,          \* session_ttl_seconds
  Leeway,       \* validation.leeway
  SecretIsSet,  \* session_secret configured: the signing key survives a restart
  MaxRestarts   \* bound: restarts of the process

ASSUME SessionsAssumption ==
  /\ TTL \in Nat \ {0}
  /\ Leeway \in Nat
  /\ SecretIsSet \in BOOLEAN
  /\ MaxRestarts \in Nat

VARIABLES
  issued,   \* ids handed out so far
  signed,   \* ids whose signature the current key verifies
  sessions, \* keys of SessionManager.sessions
  idle,     \* seconds since last_active
  age,      \* seconds since iat
  request,  \* where each request is, its kind and the id it presented
  deleted,  \* history: ids for which DELETE /mcp answered 200
  restarts

SMvars == <<issued, signed, sessions, idle, age, request, deleted, restarts>>

\* The first age at which the JWT is refused.
ExpiredAge == TTL + Leeway + 1

\* Requests that present a session id: POST /mcp and GET /mcp.
Kinds == {"post", "get"}

NoSid == "no session"

RequestState ==
  [pc : {"idle", "touch", "limit", "dispatch", "create"},
   kind : Kinds \cup {"initialize"}, sid : Sids \cup {NoSid}]

Idle == [pc |-> "idle", kind |-> "post", sid |-> NoSid]

SMTypeOK ==
  /\ issued \subseteq Sids
  /\ signed \subseteq Sids
  /\ sessions \subseteq Sids
  /\ deleted \subseteq Sids
  /\ idle \in [Sids -> 0..TTL]
  /\ age \in [Sids -> 0..ExpiredAge]
  /\ request \in [Requests -> RequestState]
  /\ restarts \in 0..MaxRestarts

SMInit ==
  /\ issued = {} /\ signed = {} /\ sessions = {} /\ deleted = {}
  /\ idle = [s \in Sids |-> 0]
  /\ age = [s \in Sids |-> 0]
  /\ request = [r \in Requests |-> Idle]
  /\ restarts = 0

-----------------------------------------------------------------------------
\* decode_claims: signature, and exp with the leeway.
decode_claims(s) == s \in signed /\ age[s] <= TTL + Leeway

\* Variant of validate_session: a token that verifies is enough.
ValidateClaimsOnly(s) == decode_claims(s)

\* validate_session: the claims, then the map under its read lock.
validate_session(s) == decode_claims(s) /\ s \in sessions /\ idle[s] < TTL

\* Variant of touch_session: entry(id).or_insert instead of get_mut(id).
TouchInserts(s) ==
  /\ idle' = [idle EXCEPT ![s] = 0]
  /\ sessions' = sessions \cup {s}

\* touch_session: no-op when the id is not tracked (any more).
touch_session(s) ==
  /\ idle' = IF s \in sessions THEN [idle EXCEPT ![s] = 0] ELSE idle
  /\ UNCHANGED sessions

Goto(r, pc) == request' = [request EXCEPT ![r].pc = pc]

\* The handler answers; nothing of the request stays behind.
Respond(r) == request' = [request EXCEPT ![r] = Idle]

-----------------------------------------------------------------------------
\* handle_mcp and get_mcp up to validate_session: a request that presents an id.
Accept(r, kind, s) ==
  /\ request[r].pc = "idle"
  /\ s \in issued
  /\ validate_session(s)
  /\ request' = [request EXCEPT ![r] =
                   [pc |-> "touch", kind |-> kind, sid |-> s]]
  /\ UNCHANGED <<issued, signed, sessions, idle, age, deleted, restarts>>

\* Variant of Refuse: the handler touches the id before it validates it.
RefuseTouched(r, s) ==
  /\ request[r].pc = "idle"
  /\ s \in issued
  /\ ~validate_session(s)
  /\ touch_session(s)
  /\ UNCHANGED <<issued, signed, age, request, deleted, restarts>>

\* ... and the 404 of an id that does not validate.
Refuse(r, s) ==
  /\ request[r].pc = "idle"
  /\ s \in issued
  /\ ~validate_session(s)
  /\ UNCHANGED SMvars

\* The second critical section of both handlers.  get_mcp then opens the
\* notification stream and is done; handle_mcp goes on to the rate limiter.
Touch(r) ==
  /\ request[r].pc = "touch"
  /\ touch_session(request[r].sid)
  /\ IF request[r].kind = "get" THEN Respond(r) ELSE Goto(r, "limit")
  /\ UNCHANGED <<issued, signed, age, deleted, restarts>>

\* handle_mcp of an initialize request: no session is looked at.
Initialize(r) ==
  /\ request[r].pc = "idle"
  /\ request' = [request EXCEPT ![r] = [pc |-> "limit", kind |-> "initialize", sid |-> NoSid]]
  /\ UNCHANGED <<issued, signed, sessions, idle, age, deleted, restarts>>

\* rate_limiter.check answers false (its buckets are module RateLimiter).
Limited(r) ==
  /\ request[r].pc = "limit"
  /\ Respond(r)
  /\ UNCHANGED <<issued, signed, sessions, idle, age, deleted, restarts>>

Admitted(r) ==
  /\ request[r].pc = "limit"
  /\ Goto(r, IF request[r].kind = "initialize" THEN "create" ELSE "dispatch")
  /\ UNCHANGED <<issued, signed, sessions, idle, age, deleted, restarts>>

\* dispatch of a request other than initialize.  Of the handlers it calls only
\* logging/setLevel writes to the manager, in place, and only to an id that is
\* still tracked (set_log_level); no property reads the level.
Dispatch(r) ==
  /\ request[r].pc = "dispatch"
  /\ Respond(r)
  /\ UNCHANGED <<issued, signed, sessions, idle, age, deleted, restarts>>

\* create_session at the end of a successful initialize.
create_session(r, s) ==
  /\ request[r].pc = "create"
  /\ s \notin issued
  /\ issued' = issued \cup {s}
  /\ signed' = signed \cup {s}
  /\ sessions' = sessions \cup {s}
  /\ idle' = [idle EXCEPT ![s] = 0]
  /\ age' = [age EXCEPT ![s] = 0]
  /\ Respond(r)
  /\ UNCHANGED <<deleted, restarts>>

\* delete_mcp: terminate_session, 200 when it removed something, else 404.
Delete(r, s) ==
  /\ request[r].pc = "idle"
  /\ s \in issued
  /\ sessions' = sessions \ {s}
  /\ deleted' = IF s \in sessions THEN deleted \cup {s} ELSE deleted
  /\ UNCHANGED <<issued, signed, idle, age, request, restarts>>

\* One round of spawn_prune_task.
prune_expired ==
  LET dead == {s \in sessions : idle[s] >= TTL} IN
  /\ dead # {}
  /\ sessions' = sessions \ dead
  /\ UNCHANGED <<issued, signed, idle, age, request, deleted, restarts>>

\* The process dies and comes back: handlers and the map are lost, and so is
\* the key unless session_secret provides it.
Restart ==
  /\ restarts < MaxRestarts
  /\ restarts' = restarts + 1
  /\ sessions' = {}
  /\ signed' = IF SecretIsSet THEN signed ELSE {}
  /\ request' = [r \in Requests |-> Idle]
  /\ UNCHANGED <<issued, idle, age, deleted>>

SMTick ==
  /\ idle' = [s \in Sids |-> IF s \in issued /\ idle[s] < TTL THEN idle[s] + 1 ELSE idle[s]]
  /\ age' = [s \in Sids |-> IF s \in issued /\ age[s] < ExpiredAge THEN age[s] + 1 ELSE age[s]]
  /\ UNCHANGED <<issued, signed, sessions, request, deleted, restarts>>

SMNext ==
  \/ \E r \in Requests, s \in Sids, k \in Kinds : Accept(r, k, s)
  \/ \E r \in Requests :
       Touch(r) \/ Initialize(r) \/ Limited(r) \/ Admitted(r) \/ Dispatch(r)
  \/ \E r \in Requests, s \in Sids : create_session(r, s) \/ Delete(r, s) \/ Refuse(r, s)
  \/ prune_expired
  \/ Restart
  \/ SMTick

SMSpec == SMInit /\ [][SMNext]_SMvars

\* Time passes and the prune task wakes up every minute; nothing is assumed of
\* clients or of the speed of handlers.
Fairness == WF_SMvars(SMTick) /\ WF_SMvars(prune_expired)

FairSpec == SMSpec /\ Fairness

-----------------------------------------------------------------------------
\* session.rs: an id that has left the map (DELETE, prune, restart) never comes
\* back to it, although handlers that validated the id earlier still have their
\* touch_session to run.
NoResurrection ==
  [][\A s \in issued : s \notin sessions => s \notin sessions']_SMvars

\* server.rs: once DELETE /mcp has answered 200 for an id no request that
\* presents it passes validation again.
TerminatedRefused ==
  [][\A r \in Requests, k \in Kinds, s \in Sids : Accept(r, k, s) => s \notin deleted]_SMvars

\* The inductive strengthening of the two: only issued ids are known anywhere, a
\* tracked one verifies under the current key, and a handler about to touch an
\* id was given one that had been issued.
SMInv ==
  /\ SMTypeOK
  /\ signed \subseteq issued
  /\ sessions \subseteq signed
  /\ deleted \subseteq issued
  /\ \A r \in Requests : request[r].pc = "touch" => request[r].sid \in issued
  /\ deleted \cap sessions = {}

\* session.rs: an id that is refused does not stay in memory.  There are two ways
\* for a tracked id to be refused, its exp and its last use, and only the second
\* is what the prune task looks at; an id refused for its exp must get there
\* though requests validated earlier still touch it and clients go on presenting
\* it.  (An id refused for its last use may become valid again by such a touch.)
RefusedIsForgotten ==
  \A s \in Sids :
    s \in sessions /\ ~validate_session(s) ~> s \notin sessions \/ validate_session(s)

\* README.md:372, server.rs:50-51, config.rs:25-26: "Sessions expire after
\* session_ttl_seconds of inactivity": one that was used since then is valid.
\* Refuted: decode_claims refuses it once its exp, fixed by create_session, passed.
ExpiresByInactivity ==
  \A s \in sessions : idle[s] < TTL => validate_session(s)

\* README.md:180, config.rs:50-53: a session_secret "keep[s] sessions valid across
\* deploys": one that was issued, not deleted and used lately is valid.  Refuted:
\* the map of the ids is in memory, and a restart begins with an empty one.
SecretKeepsSessions ==
  SecretIsSet =>
    \A s \in issued \ deleted : idle[s] < TTL /\ decode_claims(s) => validate_session(s)
=============================================================================
