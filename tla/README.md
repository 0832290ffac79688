# A formal model of mcp-federation

mcp-federation is a gateway that presents many MCP servers ("leaves") to MCP
clients as one. This directory holds TLA+ modules that model its concurrent core
and the pure functions it rests on, TLC configurations that check them on small
instances, and proofs that TLAPS checks for every value of the constants. Paths
below are relative to the repository (`src/registry.rs` is the Rust file of that
name); `PROJECT.json` lists, definition by definition, the source lines each one
stands for.

## The system

| Part | State | Operations | Interacts with |
|---|---|---|---|
| Leaf registry (`registry.rs`) | map alias -> `LeafEntry`, one read-write lock | add_leaf (insert or replace), remove_leaf, get_leaf, aliases, healthy_leaves, initialize_all, refresh | everything below |
| Leaf entry (`registry.rs`) | health, consecutive_failures, cached tools/resources/prompts, each under a lock of its own | mark_healthy, mark_unhealthy, record_failure, tools_stale | handshake task, monitor, aggregator |
| REST API (`api.rs`) | none | register_server, deregister_server, listing | registry; spawns handshakes |
| Config reload (`main.rs`) | a snapshot of aliases per SIGHUP | compare, add or replace, prune | registry; spawns handshakes |
| DNS discovery (`dns_discovery.rs`) | a snapshot of `dns-` aliases per poll | query, add, prune | `dig`, registry; spawns handshakes |
| CRD discovery (`crd_discovery.rs`) | finalizers and status on Kubernetes objects | reconcile, cleanup, error policy | API server, registry |
| Health monitor (`health.rs`) | delay and a local per leaf | probe, trip, recover, back off | leaf entry, leaf |
| Leaf client (`leaf_client.rs`) | session id cell, request counter | initialize, send_request with one re-initialize-and-retry, listen_notifications | leaf; shared by all requests |
| Notification broker (`notifications.rs`) | map subscriber -> bounded channel, one read-write lock | subscribe, unsubscribe, publish | listeners, SSE streams |
| Sessions (`session.rs`) | signing key, map JWT -> last_active | create, validate, touch, terminate, prune | handlers |
| Rate limiter (`rate_limit.rs`) | map client -> token bucket, one mutex | check | handlers |
| MCP endpoint (`server.rs`) | none of its own | POST, GET and DELETE /mcp, JSON-RPC dispatch, stdio | all of the above |
| Aggregator, router (`aggregator.rs`, `router.rs`) | none (the caches are in the entries) | aggregated lists with lazy refresh, namespacing, routing, native tools | registry, leaf client |
| Auth and RBAC (`main.rs`, `rbac.rs`) | token files | decide per request | endpoint, REST API |
| Configuration (`config.rs`) | - | interpolate, parse, default, validate | start-up, reload |

All of it runs in one process on the tokio runtime: handlers, monitors,
listeners, pollers and spawned handshakes interleave at every `await`.

What is hard here, and what makes each part correct:

* **Registry and its writers.** Each call locks the map only for itself, so
  check-then-insert, insert-then-look-up and snapshot-then-prune all race. A
  task must not overwrite what it could have seen; a reload must bring the leaves
  made from a config file in line with the new one, and a poll the `dns-` aliases
  with its answer, where nobody else interferes; each source must stay on its own
  aliases, and the poller must converge.
* **Health.** A mark is several writes under several locks. Readers must see
  what an atomic circuit breaker would show them; a leaf must be out exactly
  when its failures say so, and end in the state it really is in.
* **Leaf client.** One session cell is shared by all requests to a leaf while
  the leaf forgets sessions, answers get lost, and a leaf may go on with a request
  the client gave up. A request must never be executed twice, must succeed if the
  leaf is fine, and must return.
* **Notifications.** Publishers overlap under the read lock and clean up later
  under the write lock. A client must get each leaf's notifications in order,
  miss one only when its own channel is full, and not be unsubscribed because of
  the channels of others; one that has gone must leave the map.
* **Sessions.** Validation and touch are two critical sections, and there are
  two notions of expiry. A session that is gone must stay gone, a deleted id
  must be refused, one in use should live on, a restart included if the key is
  kept, and an id that is refused must leave the map.
* **Tool cache.** Four kinds of task list a leaf's tools and write the cache,
  and nothing keeps them apart. An entry must not count as fresh before it was
  listed, a list may go back in time only where listings overlap, and in the
  end clients must see the leaf's tools.
* **Requests.** Between the steps of a request leaves are registered, replaced,
  removed and marked, and the token file is rewritten or cannot be read. A client
  must get no further than the leaves the configuration gives its token, a list must be made of leaves that were in service
  and miss none that stayed so, and every request must be answered.
* **CRD discovery.** The controller acts on a copy that is behind, with patches
  that name no version, may fail or lose their answer, and a registry that does
  not survive a restart. No leaf may be left behind by a deleted resource, the
  finalizer must not keep one for ever, and a resource left alone must end up
  served.
* **Pure functions.** Names must split into what they were made of, `${..}` must
  be replaced in one pass, dates must be right.
* **Rate limiter.** The clock is read before the lock is taken, so buckets see
  time out of order. Nothing may be earned twice, and nobody refused what it
  has earned.

The hazards, each at its line, are in `PROJECT.json`.

## Modules

A component is a module `X`; `MCX` adds what TLC needs (symmetry sets);
`X_proofs` extends `X` with the theorems. `Admission_proofs` is about RateLimiter
and Sessions; `Dispatch_proofs` also about Names and Config, `CrdDiscovery_proofs`
also about Timestamp, both of them through PureFunctions. Definitions named
"Variant of D" are the plausible mistakes D is tested against: with the variant in
place of D the property it is paired with in `PROJECT.json` fails.

**Registry** composes the registry with the three tasks that write it (REST
requests, reloader, DNS poller), one action per registry call. `leaves` is the
map, an entry being an id (allocation order), the source that made it and the
settings the reloader compares, as one value. `client`, `reload`, `dns` hold the
locals of the tasks. SRV records are (alias, url) pairs, so that two targets
whose sanitized aliases collide are two records of one alias; the HashMap keeps
one of them, whichever. `touched` is history: the aliases other tasks changed
since a reload or poll began. The read of `dig`'s answer and of the alias
snapshot are one action: the zone is read nowhere else, so the pair is
equivalent to two steps with the zone change before or after. A failed `dig`
changes nothing and is a stutter. CRD discovery, the fourth writer, is in
CrdDiscovery, where the writers above appear as `Prune`.

**Breaker** is the abstract specification of a leaf's health, **LeafHealth** the
cells and the two kinds of task that write them, one action per write.
`last_health_check`, `server_info`, resources and prompts are left out: no
decision reads them here. Of `cached_tools` only this is kept: whether it was
written since the last recovery. `dead` and `streak` are history. Handshakes of
later entries (REST, reload, DNS, CRD) follow the same steps once `main` is
serving.

**LeafClient** has, for each task, the message of its call it is at (`stage`)
and how far that message has got (`phase`: to be sent, with the leaf, answered,
headers handled). The leaf is external: it wants a session id it issued and has
not forgotten, answers 400 or 404 otherwise, may fail before or after executing,
lose its answer, omit the result of `initialize`, or repeat the session id in
any answer. `inbox` is the request it has yet to decide on or has accepted.
Executing it is a step of its own: before the answer, between the headers and the
end of the body of a success, or after the client stopped waiting and returned an
error. Lost answers and timeouts are one outcome. A caller stands for one task
after another: it calls again when the leaf has done with its last request.
`http-post` leaves have no session and no retry. **RemoteCall** is what all of it
promises to a caller: a call, at most one execution, not before the call, and a
return, which is `ok` only after the execution; a request whose call returned an
error is given up, and may have been executed or still be.

**Notifications** has the listeners, `publish` channel by channel, and the SSE
streams with their guards. A channel is the log of what was ever put into it and
how much of it was read. The write lock is granted whenever no publisher is in
its loop; tokio's lock also keeps new readers behind a waiting writer, which
allows fewer behaviours. Which sessions may open a stream is in Sessions.
**Mailbox** is what a client may rely on: a bounded queue of its own into which
each leaf's notifications go in order, or are lost while it is full.

**Sessions** has the manager, the handlers that use it, the prune task, time and
a restart. Time is relative (age of a JWT, seconds since last use) and saturates
where no test of the code tells larger values apart. One clock stands for the
system clock (`exp`) and the monotonic one (`last_active`). Only ids that were
issued are presented: others are refused by the signature.

**RateLimiter** has `check` in two steps: the reading of the clock, and the part
under the mutex. Tokens are counted in fractions so that one tick earns a whole
number of them; the floating-point rounding of the code is not modelled. The
histories are the admissions of a client, when its bucket was made, the latest
reading the bucket has seen (`seen`), and how many admissions there were before
each reading (`before`); they tell what a client was given over any window of
time, without a word of tokens or of `last_refill`.

**ToolCache** is the tool list of one entry with its time stamp, and the
listings in flight. A listing is asked, answered (or not), written and stamped,
in that order, whoever started it: `Refresh` is the handshake and the native
tool, `Recover` the monitor, `SpawnRefresh` a `tools/list` that finds the list
stale. The leaf's list is a version number that grows, 0 the empty list that
`unwrap_or_default` makes of a garbled answer. Health belongs to the environment
here; LeafHealth has the monitor.

**Names** has `namespace_*` and `parse_namespaced_name` on sequences of
characters, **Config** `validate` and a turn of the loop of
`interpolate_env_vars`, **Timestamp** `rfc3339_from_unix`. **PureFunctions** puts
them beside what they are compared with, in one state machine whose state is an
input: a configuration, which does not change; a text, which a scanner reads
character by character while the loop takes its turns; or a clock, which advances
by seconds and days as a calendar does. Scanner and loop share nothing, so it does
not matter how their steps are put together; the loop takes its turn where the
scanner closes a reference, which is what the proof needs. **MCPure** bounds the
inputs.

**Dispatch** follows one request from `auth_middleware` or a line on stdin to
its answer, every await a step, through each JSON-RPC method, the aggregated
lists, the router and the native tools (`req` is what the handler holds), while
the environment registers, removes, marks and lists leaves and rewrites the
token file. Other requests write nothing it reads but the cached lists, so they
are part of the environment too. Resources and prompts take the same steps and
go by one name. `seen`, `fit`, `served` and `steady` are history: what was
registered, not unhealthy, both, or on offer in the time of the request; so is
`from`, the bearer token that was presented and the server's token then, by which
`RbacHolds` consults the configuration and not the context the code made. Session,
origin and rate limit come first and are in Sessions and RateLimiter; arguments
and payloads are left out.

**CrdDiscovery** is the controller for one resource: the object at the API
server (`obj`, `status`), the events on their way (`stream`), the controller's
copy (`store`), the reconcile in hand (`rec`, `snap`), the registry's entry and
the tasks that greet it and write the status. The API server and kube's
Controller are external and described at the head of the module. Each patch may
be refused, fail, or be done without the caller knowing. A deleted resource may be
created again under its name; resources with different aliases share nothing.

## What the runs check

| Run | Instance | Shows |
|---|---|---|
| Registry | 2 aliases, one of them `dns-`; 2 settings; 2 REST requests at once; 2 events | `IInv`, `NoBlindOverwrite`, `ReloadEstablishesFile`, `DnsEstablishesAnswer`, `DnsConverges` |
| LeafHealth | 2 leaves from the start, one with its health check off, 1 later; threshold 2, delays 1, 2, 3 (cap) | `IInv`, `OutIffDown`, `ImplementsBreaker` (refinement), `BackoffOnlyWhenOut`, `HealthConverges`, `RecoveryRefreshes` |
| LeafClient | 2 tasks, 3 sessions, the leaf forgets once | `IInv`, `AtMostTwoTries`, `TransparentWhenAlone`, `ImplementsRemoteCall` (refinement) |
| Notifications | 2 leaves with 2 events each, 2 clients, capacity 1 | `IInv` (with `InOrder`), `PromptStaysSubscribed`, `GapsOnlyWhenFull`, `NoOrphans`, `ImplementsMailbox` (refinement) |
| Sessions | 2 ids, 2 requests, TTL 2, leeway 1, `session_secret` set, 1 restart | `SMInv`, `NoResurrection`, `TerminatedRefused`, `RefusedIsForgotten` |
| RateLimiter | 2 clients, 2 handlers, burst 2, half a token per tick, 5 ticks | `IInv`, `AdmissionBound`, `NoUndueRejection` |
| ToolCache | 3 listings at once, 1 reader, TTL 2, 2 versions of the list | `IInv`, `RollbackOnlyWhenOvertaken`, `CacheConverges` |
| Dispatch | 2 entries for the alias `a`, 1 for `b`; an admin token and a client that may use `a`; 3 changes | `IInv`, `RbacHolds`, `ListComplete`, `EveryRequestAnswered` |
| CrdDiscovery | 1 spec that parses, 1 that does not; 2 greetings, lag 2; 3 edits, 1 fault, 1 prune, 1 restart | `IInv` (with `NoOrphan`), `DeletedIsDropped`, `LiveIsServed` |
| Pure | names up to 3 characters of `a` and `_`, up to 2 servers; texts up to 7 characters of `$`, `{`, `}`, `V`; 86400 seconds and 146200 days | `AcceptedNamesRoute`, `InterpolationIsOnePass`, `TimestampIsCalendar` |

The comment above each property in its module says what it means for the code.

Why the bounds are enough: every race listed as a hazard is between two tasks
(two requests, a request and a reload, a reload and a poll, two publishers, a
publisher and a client that leaves), and every instance has both, with two
values wherever the code compares values. `Budget` (Registry) counts REST
requests, SIGHUPs and zone changes; polls are not counted, so they go on for
ever. Capacity 1 makes channels full at once. Threshold 2 separates a blip from
an outage, and five failures reach the cap of the backoff. With MaxFailures the
monitor of a leaf that stays down stops probing, which is a bound of the model
and disturbs no property, all of which are decided by then. Three listings let
one overtake another while a third starts. In Dispatch two entries share an
alias the client may use, so that one can take the place of the other under a
request, and the third has one it may not; the client has a second, later entry
with the wildcard, which must not count; three changes are a removal, a registration
and a mark. Aliases whose names can be taken for those of another are in Pure. Three edits create, delete and create a
resource again. The texts of Pure are long enough for two references, or for one
whose value looks like the beginning of another, and an era of the calendar, after
which it repeats, has 146097 days.

Symmetry is used in the runs without liveness only (LeafClient, Notifications);
the abstract specifications they are checked against have no fairness.
RateLimiter and Notifications stop when the clock or the events run out, and in
Pure most states are inputs that lead nowhere, so deadlock is not checked there;
everywhere else it is.

Fairness, and why the code has it:

* Registry: the poller's ticker keeps firing, and a reload or request that has
  begun goes on, since the registry lock is held only for a call.
* LeafHealth: tasks are scheduled, requests to leaves have timeouts, sleeps are
  finite. Nothing is assumed of the leaves.
* Sessions: time passes and the prune task wakes up. Nothing is assumed of
  clients or of the speed of handlers.
* ToolCache: a request to a leaf ends (the HTTP client has a timeout), spawned
  tasks run, time passes. That clients go on listing is an assumption about them
  and not about the code: without requests nothing is refreshed.
* Dispatch: the handler runs until it has answered. Locks are held for finitely
  many steps and requests to leaves have timeouts. Nothing is assumed of the
  environment.
* CrdDiscovery: events arrive, timers fire, requests end and tasks run. The
  liveness properties are about executions in which the controller runs from some
  time on: if the first list of objects fails it is not started
  (`crd_discovery.rs:348`), and only a restart helps.

LeafClient and Notifications are checked for safety only, and where something
must eventually happen there the invariant says that it is on its way:
`AtMostTwoTries` bounds a call, and `NoOrphans` leaves an id of a closed stream
in the map only while its unsubscribe task is pending.

### Where code and documentation disagree

Each of two runs checks one statement of the repository and TLC refutes it;
`PROJECT.json` ("findings") quotes the statement.

| Run | Statement | What happens | What does hold |
|---|---|---|---|
| RegistryPanic | "just inserted" (`api.rs:192`) | a DELETE between insertion and look-up makes the handler panic | |
| LeafClientRace | transparent re-initialize and retry (`README.md:361`) | with two tasks a request fails although the leaf is fine | `TransparentWhenAlone` |

Five more are stated in the modules as invariants and have no run of their own:
each is refuted within seconds when it takes the place of the invariants in the
cfg of the run named, with the specification without fairness. No property of a passing run
contradicts them.

| Invariant, run | Statement | What happens | What does hold |
|---|---|---|---|
| `ExpiresByInactivity`, Sessions | sessions expire after inactivity (`README.md:372`, `server.rs:50`, `config.rs:25`) | a session in use is refused once its JWT has expired: `exp` is fixed at creation (`session.rs:88`) | `RefusedIsForgotten`: it does not stay in memory |
| `SecretKeepsSessions`, Sessions | `session_secret` keeps sessions valid across deploys (`README.md:180`, `config.rs:50`) | the map is in memory, every earlier id is refused (`session.rs:70`) | `NoResurrection` |
| `ReloadKeepsToItsOwn`, Registry | each source manages its own aliases (`README.md:404`) | a reload drops the leaves of REST, DNS and CRDs (`main.rs:407`) | `ReloadEstablishesFile`, of config-made leaves; `DnsConverges` and `LiveIsServed`: the discoveries put theirs back |
| `FullIsDropped`, Notifications | full channels are dropped from the roster (`notifications.rs:66`) | they stay and miss the notification (`AfterFull`) | `PromptStaysSubscribed`, of clients whose channel was never full |
| `RbacAlways`, Dispatch | clients see only leaves in their `allowed_servers` (`README.md:234`), unless `auth_token` is unset (`README.md:238`) | while a configured `auth_token_file` cannot be read every client is anonymous and unrestricted (`main.rs:441`) | `RbacHolds`: while it can be read |

Other statements do not hold of the model either; the passing runs check the
nearest thing that does hold.

| Statement | In the code | What is checked instead |
|---|---|---|
| aliases are unique, a duplicate gets 409 (`README.md:269`) | two POSTs both pass the check and the second replaces the first (`RegisterCheck`, `RegisterAdd`) | `NoBlindOverwrite`: only an entry made after the check is replaced |
| each SRV record becomes a leaf (`README.md:469`) | an alias that is registered is skipped, so a changed port is never picked up (`DnsPoll`) | `DnsEstablishesAnswer`, `DnsConverges`: about aliases |
| tools are refreshed on recovery (`README.md:290`) | one failed `list_tools` is not repeated (`ListAfterRecovery`) | `RecoveryRefreshes`: unless the leaf is down again |
| each leaf is health-checked (`README.md:42`) | monitors exist only for the leaves of the start (`health.rs:11`); one added later whose handshake failed stays out | `HealthConverges`: of the leaves with a monitor. `LiveIsServed`: a CRD leaf is greeted again every 300 s |
| a long-lived stream (`README.md:363`) | the HTTP client's total timeout ends the listener's stream, and nobody reopens it | `ImplementsMailbox`, `GapsOnlyWhenFull`: until then |
| RBAC restricts a client to its leaves (`README.md:234`) | `tools/list` and `tools/call` are filtered; resources, prompts and the native tools, `search_tools` among them, are not (`NativeSearch`, `retained`) | `RbacHolds`: about these two methods |

Boundaries the modules show without a statement to hold against them: `validate`
accepts an alias that ends in an underscore and the alias `federation`, whose
tools are listed and cannot be called (`AcceptedNamesRoute` and `Distinct` say
exactly which); the alias `crd-<namespace>-<name>` is the same for two resources
whose namespaces and names contain dashes in the right places; the merge patch
of the finalizers can undo one that somebody else set or took off meanwhile
(`crd_discovery.rs:229`), other than ours, which `NoOrphan` is about; a written
status changes `lastSynced`, which makes the object due again. CrdDiscovery is
about one federation: several replicas would each remove the finalizer for
themselves only.

## What is proved

The theorems hold for every number of leaves, clients, handlers and aliases and
every value of the other constants, under the named ASSUME of each module
(numbers are naturals, capacities and TTLs positive, subsets are subsets; TLC
evaluates each of them on the runs). They have the common form: `IInv` is
inductive, and implies the property.

* **Admission_proofs.** For the rate limiter `AdmissionsBounded` and
  `RejectedOnlyWhenPoor`. The bound by itself is not
  inductive: a bucket might hold more than it earned. `TokensAccounted` adds
  that tokens held plus admissions paid for are covered by the burst and what
  was earned up to `last_refill`, and `NoFutureReadings` that `last_refill` is
  not ahead of the clock. The arithmetic of refill and spend is in lemmas of its
  own. `RejectedOnlyWhenPoor` needs the converse: `TokensNotLost` says that there is
  a window that began when the bucket was last full and ends at its latest reading,
  over which the tokens held and the admissions together make up the burst and all that
  was earned: nothing is lost to a rejection or to a reading that came late. A
  bucket that refuses holds less than a token, and the window is the one the
  theorem asks for. For the sessions `NeverResurrected` and
  `DeletedNeverAccepted`: the invariant `SMInv` adds that requests about to touch hold issued ids, and that deleted ids are
  not tracked.
* **Registry_proofs.** `NeverBlindlyOverwritten`, `ReloadCorrect`,
  `DnsPollCorrect`, `DnsTouchesOwnAliases`. `ReloadProgress` and `DnsProgress`
  say for each alias nobody else touched, and that is the task's own, either that it
  is as it should be or that its turn is still to come; `IdsInOrder` makes ids tell time.
* **LeafHealth_proofs.** `OutExactlyWhenDown`, `BackoffFollowsHealth` and
  `CellsImplementBreaker`, the refinement of Breaker. `CounterIsStreak` ties the counter to the failures
  really seen at every position of the two tasks; `OneWriter`, which follows from
  the join in `initialize_all`, keeps them from interfering. In the mapping a
  failing handshake and a success count from their first write, a trip from the
  decision to open. `DelaySoFar` bounds the delay between probes from below by the
  base interval and from above by the delay of the next round; with it, a longer delay
  means that the threshold is passed and a shorter one that the counter was
  reset. `BackoffFollowsHealth` is for base intervals within `MAX_BACKOFF`: a
  longer one is cut to `MAX_BACKOFF` by the first round, healthy or not. The
  provers know nothing of `^`, so `PowiAssumption` states what is needed of
  powers: the first is 1, all are positive and none is less than the one before.
* **Notifications_proofs.** `DeliveredInOrder`, `ConnectedStaySubscribed`,
  `OnlyLiveOrLeaving`, `NoGapUnlessFull`.
  `PublishConsistent` says that a publisher's number is ahead of what the
  channels it has yet to visit hold, and that what it removes is dead or was full.
  `FreshChannels` says that nothing was offered to a client before it subscribed;
  with it `GapsOnlyWhenFull` is inductive. `BrokerImplementsMailbox` is the
  refinement of Mailbox: the queue is the part of the log that was not read, a
  `try_send` is a Put or a Lose, reading is a Take, and locking, publishing
  and the clean-up of dead channels are stuttering steps. It needs
  `ChannelsConsistent`: a channel holds no more than its capacity, so that one without
  room is exactly full, and what was refused is older than what a publisher that
  has yet to visit the channel carries.
* **LeafClient_proofs.** `NeverExecutedTwice`, `RetriesOnce`,
  `RetryTransparent`. `RanSoFar` gives, for each
  position of a call, whether the request can have been executed and whether the leaf
  may still hold it; the point is that a 400 or 404 means it was not and that the leaf
  is done with it, so that those are safe to retry and others, timeouts above all,
  are not. `AloneSoFar` follows a call that no other overlaps with: as
  long as the leaf did nothing wrong, what it sends carries what the cell holds, a
  refusal is one `NeedsRetry` accepts, and after `initialize` the cell holds a
  session the leaf knows. `ClientImplementsRemoteCall` is the refinement of
  RemoteCall, of which at-most-once is part: everything between a call and its return
  but the execution at the leaf is a stuttering step. An execution after the return
  maps to one of a request given up: `RanSoFar` says that the leaf holds a request
  of a call that is over only if that returned an error, and none it has executed.
* **ToolCache_proofs.** `CacheConsistent`, `NeverRolledBackAlone`. `NothingNewer`
  says that a listing which nobody overtook since its answer holds a list at
  least as new as the cache; `FreshMeansListed` needs that a listing about to
  stamp has written.
* **CrdDiscovery_proofs.** `CrdInvariant`, `NeverOrphaned`. That a leaf is
  registered only while the object carries our finalizer cannot be seen from the
  present alone, since the controller acts on the past. `Versions` is the past it
  has yet to see, and `Ordered` says which pasts there are: our finalizer is set
  before a deletion, lost only after the controller saw the deletion, and not set on
  a successor before the controller saw that one. `Cleaning` and `Marking` carry this
  through a reconcile in hand, from the snapshot to the patch. The proof shows,
  for each way the list can be extended (a user, our patch, a status write),
  that the order is kept, and for each way the store moves on, that the rest
  of an ordered list is ordered. Then the timestamps: `EveryDayFollows` says that
  the date computed for the next day is the Gregorian successor of today's, in every
  era. The arithmetic counts years from March. Within an era the first
  day of year `y` is `365y + y/4 - y/100`; the expression for the year of a day is
  shown to pick the year whose days contain it, the month formula to lay out months of
  31, 30, 31, 30, 31 days from March on, and a successor is taken within a month,
  over a month, over the end of February, whose length is that of the Gregorian
  year, and over the end of an era. `TimestampsAreCalendar` follows by letting the
  clock run.
* **Dispatch_proofs.** First the names, as sequences of any length:
  `PublishedRoutesBack` and `PublishedApart` say that `parse_namespaced_name`
  undoes `namespaced` for every alias without separator and final underscore
  (the separator is found where it was put and not earlier), and
  `ConfiguredNamesRoute` that `validate` accepts no other alias but for the
  underscore; `AcceptedConfigurationsRoute` is `AcceptedNamesRoute` for all
  configurations. Then the texts: `InterpolationInOnePass`. An induction over a text is
  an induction over the steps of the two programs that read it, so no
  induction over data is needed. The invariant `TextRight` has the scanner in one of
  three places relative to the position `p` the loop goes on from: in plain text
  with no reference opened since `p`, behind a dollar sign, or in the name of the
  first reference opened since `p`, with nothing yet that closes it; and what it has
  written is the loop's result with the text since `p` up to there. When it closes a
  reference, the two searches of the loop find that opening and that closing and no
  earlier ones (`FirstReference`, `FirstClosing`), so both write the same value.
  Then the requests:
  `RequestsServed`, `ClientsConfined`, `NothingMissed`. The invariant says
  how far a request has come: `HistoriesCurrent` that the histories hold the
  present moment, `ListSoFar` that nothing steadily on offer has been passed over,
  `CallSoFar` that the leaf about to be called is the one whose name and
  context were checked. `ContextGiven` says that the context of a request is the one the
  configuration gives the token presented, if the file could be read, which makes `ClientsConfined` a
  statement about the configuration. `ClientsConfined` rests on `PublishedRoutesBack`, since the
  filter of `tools/list` reads the alias back from the published name.
  `UnderscoreAssumption` says that a character is a string, which
  the provers do not know of a literal; `DispatchAssumption` gives names and aliases
  their types.

Every invariant and every action property of a passing run is stated by a theorem,
and so are the three refinements. Only model-checked: all liveness (`RefusedIsForgotten`,
`DnsConverges`, `HealthConverges`, `RecoveryRefreshes`, `CacheConverges`,
`EveryRequestAnswered`, `DeletedIsDropped`, `LiveIsServed`), since fairness and
ENABLED are outside the prover; that the loop of `interpolate_env_vars` ends, which
is liveness too; and the refuted statements.

## What is not modelled, and the plan

Open:

1. Invariants that the liveness arguments use and that could be theorems of their
   own, such as which task a CRD leaf still waits for.
2. Sessions composed with Notifications: a stream is opened for a session that
   was valid then and outlives its DELETE or expiry, by design or not; no document
   says which, and a property would restate the model.

Left out, and why:

* **Start-up and graceful shutdown**: the one order that matters, handshakes
  before monitors, is in LeafHealth; draining is done by the HTTP server library.
* **Configuration**: serde_yaml and default values are data. TLS and certificate
  loading are input.
* **Leaf client**: the framing of SSE bodies is parsing, and what it yields, a
  message or none, is the answer of LeafClient and ToolCache.
* **Protocol types, metrics, OpenAPI, status page, command line**: data and
  output.
* **`dig`** printing nothing on a failing resolver, which the code reads as an
  empty record, is a matter of `dig`: an empty zone is among those the poller is
  given.
