----------------------------- MODULE ToolCache -----------------------------
(***************************************************************************)
(* The cached tool list of one leaf entry and everything that writes it:   *)
(* the handshake, the monitor's recovery, the native refresh tool and the  *)
(* background refresh of tools/list.  Each is a task that asks the leaf,   *)
(* writes cached_tools and then, under another lock, last_tool_refresh;    *)
(* nothing keeps two of them apart and none looks at what is there.        *)
(*                                                                         *)
(* A leaf's list is a version that only grows, 0 standing for an empty     *)
(* list.  The entries of a registry share nothing, so one is modelled.     *)
(* Health is the environment's here; LeafHealth models its monitor.        *)
(***************************************************************************)
EXTENDS Integers

CONSTANTS
  Tasks,       \* bound: listings of this leaf in flight at a time
  Readers,     \* clients' tools/list requests
  TTL,         \* tool_cache_ttl_seconds; 0 turns the background refresh off
  MaxVersion   \* bound: versions of the leaf's list

ASSUME ToolCacheAssumption == TTL \in Nat /\ MaxVersion \in Nat \ {0}

VARIABLES
  version,           \* environment: the leaf's list
  mode,              \* environment: how the leaf answers
  in_service,        \* the entry's health is not Unhealthy
  task,              \* the step each listing is at
  answer,            \* the list its leaf answered with
  cached_tools,      \* LeafEntry.cached_tools
  last_tool_refresh, \* LeafEntry.last_tool_refresh, as an age; Never for None
  reader,            \* the step each tools/list request is at
  listed,            \* history: cached_tools was written
  passed             \* history: another listing wrote since this one was answered

cache == <<cached_tools, last_tool_refresh>>
vars == <<version, mode, in_service, task, answer, cache, reader, listed, passed>>

Empty == 0
Versions == 1..MaxVersion
Never == -1

TypeOK ==
  /\ version \in Versions
  /\ mode \in {"ok", "garbled", "down"}
  /\ in_service \in BOOLEAN
  /\ task \in [Tasks -> {"idle", "asked", "answered", "written"}]
  /\ answer \in [Tasks -> Versions \cup {Empty}]
  /\ cached_tools \in Versions \cup {Empty}
  /\ last_tool_refresh \in {Never} \cup 0..TTL
  /\ reader \in [Readers -> {"idle", "check", "read"}]
  /\ listed \in BOOLEAN
  /\ passed \in [Tasks -> BOOLEAN]

\* LeafEntry::new_with_pool
Init ==
  /\ version = 1
  /\ mode \in {"ok", "garbled", "down"}
  /\ in_service = TRUE
  /\ task = [t \in Tasks |-> "idle"]
  /\ answer = [t \in Tasks |-> Empty]
  /\ cached_tools = Empty
  /\ last_tool_refresh = Never
  /\ reader = [r \in Readers |-> "idle"]
  /\ listed = FALSE
  /\ passed = [t \in Tasks |-> FALSE]

-----------------------------------------------------------------------------
\* A listing: client.list_tools(), then the two writes.

\* The request goes out.
Ask(t) ==
  /\ task[t] = "idle"
  /\ task' = [task EXCEPT ![t] = "asked"]
  /\ UNCHANGED <<answer, passed>>

\* list_tools reads result.tools: a JSON-RPC error or a result of another shape
\* is an empty list, by unwrap_or_default, and not a failure.
list_tools == IF mode = "ok" THEN version ELSE Empty

\* The leaf is asked and answers.
Serve(t) ==
  /\ task[t] = "asked"
  /\ mode # "down"
  /\ answer' = [answer EXCEPT ![t] = list_tools]
  /\ task' = [task EXCEPT ![t] = "answered"]
  /\ UNCHANGED <<version, mode, in_service, cache, reader, listed, passed>>

\* Variant of Fail: a failed listing restores the list of the handshake.
FailFallsBack(t) ==
  /\ task[t] = "asked"
  /\ mode = "down"
  /\ cached_tools' = IF listed THEN 1 ELSE Empty
  /\ task' = [task EXCEPT ![t] = "idle"]
  /\ UNCHANGED <<version, mode, in_service, answer, last_tool_refresh, reader, listed, passed>>

\* It does not answer: the failure is logged and nothing is written.
Fail(t) ==
  /\ task[t] = "asked"
  /\ mode = "down"
  /\ task' = [task EXCEPT ![t] = "idle"]
  /\ UNCHANGED <<version, mode, in_service, answer, cache, reader, listed, passed>>

\* *leaf.cached_tools.write().await = tools; every other listing that has its
\* answer is overtaken by this one.
Write(t) ==
  /\ task[t] = "answered"
  /\ cached_tools' = answer[t]
  /\ task' = [task EXCEPT ![t] = "written"]
  /\ answer' = [answer EXCEPT ![t] = Empty]
  /\ listed' = TRUE
  /\ passed' = [u \in Tasks |-> u # t /\ task[u] = "answered"]
  /\ UNCHANGED <<version, mode, in_service, last_tool_refresh, reader>>

\* mark_tools_refreshed
Stamp(t) ==
  /\ task[t] = "written"
  /\ last_tool_refresh' = 0
  /\ task' = [task EXCEPT ![t] = "idle"]
  /\ UNCHANGED <<version, mode, in_service, answer, cached_tools, reader, listed, passed>>

\* Variant of ListingStep: the stamp is set before the list.
StampFirst(t) ==
  \/ Serve(t) \/ Fail(t)
  \/ /\ task[t] = "answered"
     /\ last_tool_refresh' = 0
     /\ task' = [task EXCEPT ![t] = "written"]
     /\ UNCHANGED <<version, mode, in_service, answer, cached_tools, reader, listed, passed>>
  \/ /\ task[t] = "written"
     /\ cached_tools' = answer[t]
     /\ task' = [task EXCEPT ![t] = "idle"]
     /\ listed' = TRUE
     /\ passed' = [u \in Tasks |-> u # t /\ task[u] = "answered"]
     /\ UNCHANGED <<version, mode, in_service, answer, last_tool_refresh, reader>>

ListingStep(t) == Serve(t) \/ Fail(t) \/ Write(t) \/ Stamp(t)

-----------------------------------------------------------------------------
\* What starts a listing, besides tools/list.

\* The end of a handshake (initialize_all and its copies), or the native refresh
\* tool, for this leaf or for all; an unhealthy leaf is asked as well.
Refresh(t) ==
  /\ Ask(t)
  /\ UNCHANGED <<version, mode, in_service, cache, reader, listed>>

\* health.rs: the breaker opens ...
GoOut ==
  /\ in_service
  /\ in_service' = FALSE
  /\ UNCHANGED <<version, mode, task, answer, cache, reader, listed, passed>>

\* ... and the monitor lists the tools once the leaf recovered.
Recover(t) ==
  /\ ~in_service
  /\ in_service' = TRUE
  /\ Ask(t)
  /\ UNCHANGED <<version, mode, cache, reader, listed>>

-----------------------------------------------------------------------------
\* aggregated_tools, as far as this entry is concerned.

\* healthy_leaves
List(r) ==
  /\ reader[r] = "idle"
  /\ in_service
  /\ reader' = [reader EXCEPT ![r] = "check"]
  /\ UNCHANGED <<version, mode, in_service, task, answer, cache, listed, passed>>

\* Variant of tools_stale: an entry that never listed its tools counts as fresh.
StaleOnceListed == last_tool_refresh >= TTL

tools_stale == last_tool_refresh = Never \/ last_tool_refresh >= TTL

\* A stale list: a task of its own refreshes it, whether or not one is on its way.
SpawnRefresh(r, t) ==
  /\ reader[r] = "check"
  /\ TTL > 0
  /\ tools_stale
  /\ Ask(t)
  /\ reader' = [reader EXCEPT ![r] = "read"]
  /\ UNCHANGED <<version, mode, in_service, cache, listed>>

\* A list young enough, or a refresh that is turned off.
NoRefresh(r) ==
  /\ reader[r] = "check"
  /\ TTL = 0 \/ ~tools_stale
  /\ reader' = [reader EXCEPT ![r] = "read"]
  /\ UNCHANGED <<version, mode, in_service, task, answer, cache, listed, passed>>

\* The answer is made of what is cached now; it does not wait for the refresh.
Read(r) ==
  /\ reader[r] = "read"
  /\ reader' = [reader EXCEPT ![r] = "idle"]
  /\ UNCHANGED <<version, mode, in_service, task, answer, cache, listed, passed>>

ReaderStep(r) ==
  \/ List(r) \/ NoRefresh(r) \/ Read(r)
  \/ \E t \in Tasks : SpawnRefresh(r, t)

-----------------------------------------------------------------------------
\* Time passes; an age counts up to TTL, which is as stale as it gets.
Tick ==
  /\ last_tool_refresh \in 0..(TTL - 1)
  /\ last_tool_refresh' = last_tool_refresh + 1
  /\ UNCHANGED <<version, mode, in_service, task, answer, cached_tools, reader, listed, passed>>

\* The leaf changes its tools.
Change ==
  /\ version < MaxVersion
  /\ version' = version + 1
  /\ UNCHANGED <<mode, in_service, task, answer, cache, reader, listed, passed>>

\* The leaf changes the way it answers.
Turn ==
  /\ mode' \in {"ok", "garbled", "down"} \ {mode}
  /\ UNCHANGED <<version, in_service, task, answer, cache, reader, listed, passed>>

Next ==
  \/ \E t \in Tasks : ListingStep(t) \/ Refresh(t) \/ Recover(t)
  \/ \E r \in Readers : ReaderStep(r)
  \/ GoOut \/ Tick \/ Change \/ Turn

Spec == Init /\ [][Next]_vars

\* Every request to a leaf ends (client timeouts), spawned tasks run and time
\* passes.  That clients go on listing is an assumption about them: without
\* requests nothing is refreshed.
Fairness ==
  /\ \A t \in Tasks : WF_vars(ListingStep(t))
  /\ \A r \in Readers : WF_vars(ReaderStep(r))
  /\ WF_vars(Tick)

FairSpec == Spec /\ Fairness

-----------------------------------------------------------------------------
\* registry.rs:81, aggregator.rs:43: whatever overlaps, an entry is stamped only
\* after a list was written, so a request never takes an entry whose tools were
\* not read yet for a fresh one and skips its refresh.
FreshMeansListed == last_tool_refresh # Never => listed

\* No list comes from the future, and what a listing that nobody overtook is
\* about to write is at least as new as what is there.
NothingNewer ==
  /\ cached_tools <= version
  /\ \A t \in Tasks :
       /\ answer[t] <= version
       /\ task[t] = "written" => listed
       /\ task[t] = "answered" /\ ~passed[t] =>
            answer[t] = Empty \/ cached_tools <= answer[t]

\* aggregator.rs:37, registry.rs:273: the inductive invariant.
IInv == TypeOK /\ FreshMeansListed /\ NothingNewer

\* registry.rs:283: a list of tools is replaced by an older one only by a listing
\* that another one overtook: without an overlap the cache never goes back,
\* except to the empty list of a garbled answer.
RollbackOnlyWhenOvertaken ==
  [][cached_tools' < cached_tools /\ cached_tools' # Empty =>
       \E t \in Tasks : task[t] = "answered" /\ passed[t] /\ answer[t] = cached_tools']_vars

\* README.md:44 (lists are cached with a TTL and refreshed in the background):
\* overlapping listings, garbled answers and rollbacks are all repaired in the
\* end: once the leaf is in service, answers and keeps its list, clients that go
\* on listing are shown that list from some time on.
CacheConverges ==
  TTL > 0 => (<>[](in_service /\ mode = "ok") => <>[](cached_tools = version))
=============================================================================
