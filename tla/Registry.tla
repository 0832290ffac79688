------------------------------ MODULE Registry ------------------------------
(***************************************************************************)
(* Which leaves the federation knows: the alias map of registry.rs and the *)
(* tasks that change it while requests are served -                        *)
(*   - handlers of the REST API (api.rs: register_server,                  *)
(*     deregister_server), any number at once;                             *)
(*   - the SIGHUP config reloader (main.rs: spawn_config_reloader);        *)
(*   - the DNS SRV poller (dns_discovery.rs: poll_once, reconcile).        *)
(* Every call on the registry locks it for that call only, so each task is *)
(* modelled one call at a time and the others run in between.  What        *)
(* happens inside an entry (handshake, health, cached tools) is module     *)
(* LeafHealth.                                                             *)
(***************************************************************************)
EXTENDS Integers

CONSTANTS
  Aliases,     \* leaf aliases
  DnsAliases,  \* those that start with DNS_ALIAS_PREFIX
  Urls,        \* leaf settings that the reloader compares (url, tokens, ...)
  Clients,     \* REST requests running concurrently
  Budget       \* bound: REST requests, SIGHUPs and zone changes together

ASSUME RegistryAssumption ==
  /\ DnsAliases \subseteq Aliases
  /\ Budget \in Nat

VARIABLES
  leaves,  \* Registry.leaves: the entry registered under each alias
  next_id, \* allocation of a fresh LeafEntry
  client,  \* register_server, per request
  reload,  \* spawn_config_reloader
  dns,     \* poll_once and reconcile
  zone,    \* environment: the SRV records published, as (alias, url) pairs
  budget,  \* environment: events left
  touched  \* history: aliases others changed since the reload / the poll began

vars == <<leaves, next_id, client, reload, dns, zone, budget, touched>>

-----------------------------------------------------------------------------
Sources == {"config", "rest", "dns"}

Entry == [id : Nat, src : Sources, url : Urls]

None == "none"

NoEntry == [id |-> 0, src |-> None, url |-> None]

\* Maps from some aliases to their settings: the servers of a config file, or
\* the targets of an SRV answer.
Desired == UNION {[A -> Urls] : A \in SUBSET Aliases}

Nothing == [a \in {} |-> {}]

Registered(a) == leaves[a] # NoEntry

\* The alias is registered, and a config file made the entry.
FromFile(a) == Registered(a) /\ leaves[a].src = "config"

\* Registry::aliases
aliases == {a \in Aliases : Registered(a)}

IdleClient == [pc |-> "idle", alias |-> None, url |-> None, seen |-> 0]

IdleReload == [pc |-> "idle", incoming |-> Nothing, existing |-> {}, todo |-> {},
               adding |-> None, seen |-> 0]

IdleDns == [pc |-> "idle", desired |-> Nothing, existing |-> {}, todo |-> {}, seen |-> 0]

TypeOK ==
  /\ leaves \in [Aliases -> Entry \cup {NoEntry}]
  /\ next_id \in Nat \ {0}
  /\ client \in [Clients -> [pc : {"idle", "add", "get", "panic"}, alias : Aliases \cup {None},
                             url : Urls \cup {None}, seen : Nat]]
  /\ reload \in [pc : {"idle", "compare", "add", "prune"}, incoming : Desired,
                 existing : SUBSET Aliases, todo : SUBSET Aliases,
                 adding : Aliases \cup {None}, seen : Nat]
  /\ dns \in [pc : {"idle", "add", "prune"}, desired : Desired,
              existing : SUBSET DnsAliases, todo : SUBSET Aliases, seen : Nat]
  /\ zone \subseteq DnsAliases \X Urls
  /\ budget \in 0..Budget
  /\ touched \in [reload : SUBSET Aliases, dns : SUBSET Aliases]

\* Startup: from_configs_with_pool, from a config file that validate accepts
\* (at least one server, one entry per alias).
Init ==
  /\ \E servers \in Desired :
       /\ DOMAIN servers # {}
       /\ leaves = [a \in Aliases |->
                     IF a \in DOMAIN servers
                     THEN [id |-> 1, src |-> "config", url |-> servers[a]]
                     ELSE NoEntry]
  /\ next_id = 2
  /\ client = [c \in Clients |-> IdleClient]
  /\ reload = IdleReload
  /\ dns = IdleDns
  /\ zone \in SUBSET (DnsAliases \X Urls)
  /\ budget = Budget
  /\ touched = [reload |-> {}, dns |-> {}]

-----------------------------------------------------------------------------
\* LeafEntry::new_with_pool and Registry::add_leaf: insert or replace.
add_leaf(a, src, url) ==
  /\ leaves' = [leaves EXCEPT ![a] = [id |-> next_id, src |-> src, url |-> url]]
  /\ next_id' = next_id + 1

\* Registry::remove_leaf
remove_leaf(a) ==
  /\ leaves' = [leaves EXCEPT ![a] = NoEntry]
  /\ UNCHANGED next_id

\* History: task t changes alias a, which the others may be working on.
Touch(t, a) ==
  touched' = [reload |-> IF t # "reload" /\ reload.pc # "idle"
                         THEN touched.reload \cup {a} ELSE touched.reload,
              dns    |-> IF t # "dns" /\ dns.pc # "idle"
                         THEN touched.dns \cup {a} ELSE touched.dns]

Spend == budget > 0 /\ budget' = budget - 1

-----------------------------------------------------------------------------
\* The REST API.

\* register_server: get_leaf finds the alias taken; 409, nothing changes.
RegisterConflict(c, a) ==
  /\ client[c].pc = "idle"
  /\ Registered(a)
  /\ Spend
  /\ UNCHANGED <<leaves, next_id, client, reload, dns, zone, touched>>

\* Variant of RegisterCheck: the conflict check is missing.
RegisterUnchecked(c, a, u) ==
  /\ client[c].pc = "idle"
  /\ Spend
  /\ client' = [client EXCEPT ![c] = [pc |-> "add", alias |-> a, url |-> u, seen |-> next_id]]
  /\ UNCHANGED <<leaves, next_id, reload, dns, zone, touched>>

\* register_server: get_leaf finds the alias free.
RegisterCheck(c, a, u) ==
  /\ client[c].pc = "idle"
  /\ ~Registered(a)
  /\ Spend
  /\ client' = [client EXCEPT ![c] = [pc |-> "add", alias |-> a, url |-> u, seen |-> next_id]]
  /\ UNCHANGED <<leaves, next_id, reload, dns, zone, touched>>

\* register_server: add_leaf; the handshake task is spawned.
RegisterAdd(c) ==
  /\ client[c].pc = "add"
  /\ add_leaf(client[c].alias, "rest", client[c].url)
  /\ Touch("rest", client[c].alias)
  /\ client' = [client EXCEPT ![c].pc = "get"]
  /\ UNCHANGED <<reload, dns, zone, budget>>

\* register_server: get_leaf(..).expect("just inserted"), then 201.
RegisterRespond(c) ==
  /\ client[c].pc = "get"
  /\ client' = [client EXCEPT ![c] =
                   IF Registered(@.alias) THEN IdleClient ELSE [@ EXCEPT !.pc = "panic"]]
  /\ UNCHANGED <<leaves, next_id, reload, dns, zone, budget, touched>>

\* deregister_server: one remove_leaf, 200; the 404 of an unknown alias changes
\* nothing.
Deregister(c, a) ==
  /\ client[c].pc = "idle"
  /\ Registered(a)
  /\ Spend
  /\ remove_leaf(a)
  /\ Touch("rest", a)
  /\ UNCHANGED <<client, reload, dns, zone>>

-----------------------------------------------------------------------------
\* The config reloader.

\* SIGHUP with a file that does not load: the current registry is kept.
ReloadFails ==
  /\ reload.pc = "idle"
  /\ Spend
  /\ UNCHANGED <<leaves, next_id, client, reload, dns, zone, touched>>

\* SIGHUP: the file is loaded and the aliases present are noted.
ReloadStart(servers) ==
  /\ reload.pc = "idle"
  /\ DOMAIN servers # {}
  /\ Spend
  /\ reload' = [pc |-> "compare", incoming |-> servers, existing |-> aliases,
                todo |-> DOMAIN servers, adding |-> None, seen |-> 0]
  /\ touched' = [touched EXCEPT !.reload = {}]
  /\ UNCHANGED <<leaves, next_id, client, dns, zone>>

\* Variant of SameSettings: a registered alias is taken for up to date.
OnlyPresent(a) == Registered(a)

SameSettings(a) == Registered(a) /\ leaves[a].url = reload.incoming[a]

\* One server of the file: get_leaf finds it registered with the same settings.
ReloadSame(a) ==
  /\ reload.pc = "compare"
  /\ a \in reload.todo
  /\ SameSettings(a)
  /\ reload' = [reload EXCEPT !.todo = @ \ {a}]
  /\ UNCHANGED <<leaves, next_id, client, dns, zone, budget, touched>>

\* ... or it is new or has changed.
ReloadDiffers(a) ==
  /\ reload.pc = "compare"
  /\ a \in reload.todo
  /\ ~SameSettings(a)
  /\ reload' = [reload EXCEPT !.pc = "add", !.todo = @ \ {a}, !.adding = a, !.seen = next_id]
  /\ UNCHANGED <<leaves, next_id, client, dns, zone, budget, touched>>

\* ... in which case add_leaf follows, and the handshake task is spawned.
ReloadAdd ==
  /\ reload.pc = "add"
  /\ add_leaf(reload.adding, "config", reload.incoming[reload.adding])
  /\ Touch("reload", reload.adding)
  /\ reload' = [reload EXCEPT !.pc = "compare", !.adding = None, !.seen = 0]
  /\ UNCHANGED <<client, dns, zone, budget>>

\* existing.difference(&incoming)
ReloadSurplus == reload.existing \ DOMAIN reload.incoming

ReloadStartPrune ==
  /\ reload.pc = "compare"
  /\ reload.todo = {}
  /\ reload' = [reload EXCEPT !.pc = "prune", !.todo = ReloadSurplus]
  /\ UNCHANGED <<leaves, next_id, client, dns, zone, budget, touched>>

ReloadPrune(a) ==
  /\ reload.pc = "prune"
  /\ a \in reload.todo
  /\ remove_leaf(a)
  /\ Touch("reload", a)
  /\ reload' = [reload EXCEPT !.todo = @ \ {a}]
  /\ UNCHANGED <<client, dns, zone, budget>>

ReloadFinish ==
  /\ reload.pc = "prune"
  /\ reload.todo = {}
  /\ reload' = IdleReload
  /\ touched' = [touched EXCEPT !.reload = {}]
  /\ UNCHANGED <<leaves, next_id, client, dns, zone, budget>>

-----------------------------------------------------------------------------
\* DNS discovery.

\* The targets of an SRV answer by sanitized alias.  Of several records with the
\* same alias the HashMap keeps one, the last that dig printed.
Answers == {d \in [{r[1] : r \in zone} -> Urls] : \A a \in DOMAIN d : <<a, d[a]>> \in zone}

existing_dns_aliases == aliases \cap DnsAliases

\* poll_once: dig answers, reconcile notes the dns- aliases present.  A dig that
\* fails changes nothing.
DnsPoll(answer) ==
  /\ dns.pc = "idle"
  /\ dns' = [pc |-> "add", desired |-> answer, existing |-> existing_dns_aliases,
             todo |-> DOMAIN answer \ existing_dns_aliases, seen |-> next_id]
  /\ touched' = [touched EXCEPT !.dns = {}]
  /\ UNCHANGED <<leaves, next_id, client, reload, zone, budget>>

\* reconcile: one target that was not among the aliases noted is added.
DnsAdd(a) ==
  /\ dns.pc = "add"
  /\ a \in dns.todo
  /\ add_leaf(a, "dns", dns.desired[a])
  /\ Touch("dns", a)
  /\ dns' = [dns EXCEPT !.todo = @ \ {a}]
  /\ UNCHANGED <<client, reload, zone, budget>>

\* Variant of DnsSurplus: targets that are gone from the record stay.
DnsSurplusNone == {}

\* existing_dns_aliases.difference(&desired)
DnsSurplus == dns.existing \ DOMAIN dns.desired

DnsStartPrune ==
  /\ dns.pc = "add"
  /\ dns.todo = {}
  /\ dns' = [dns EXCEPT !.pc = "prune", !.todo = DnsSurplus]
  /\ UNCHANGED <<leaves, next_id, client, reload, zone, budget, touched>>

DnsPrune(a) ==
  /\ dns.pc = "prune"
  /\ a \in dns.todo
  /\ remove_leaf(a)
  /\ Touch("dns", a)
  /\ dns' = [dns EXCEPT !.todo = @ \ {a}]
  /\ UNCHANGED <<client, reload, zone, budget>>

DnsFinish ==
  /\ dns.pc = "prune"
  /\ dns.todo = {}
  /\ dns' = IdleDns
  /\ touched' = [touched EXCEPT !.dns = {}]
  /\ UNCHANGED <<leaves, next_id, client, reload, zone, budget>>

\* Environment: the SRV record is edited.
ZoneChange(z) ==
  /\ Spend
  /\ z # zone
  /\ zone' = z
  /\ UNCHANGED <<leaves, next_id, client, reload, dns, touched>>

-----------------------------------------------------------------------------
RestStep ==
  \/ \E c \in Clients, a \in Aliases, u \in Urls : RegisterCheck(c, a, u)
  \/ \E c \in Clients, a \in Aliases : RegisterConflict(c, a) \/ Deregister(c, a)
  \/ \E c \in Clients : RegisterAdd(c) \/ RegisterRespond(c)

ReloadStep ==
  \/ ReloadStartPrune \/ ReloadAdd \/ ReloadFinish
  \/ \E a \in Aliases : ReloadSame(a) \/ ReloadDiffers(a) \/ ReloadPrune(a)

DnsStep ==
  \/ \E answer \in Answers : DnsPoll(answer)
  \/ DnsStartPrune \/ DnsFinish
  \/ \E a \in Aliases : DnsAdd(a) \/ DnsPrune(a)

Next ==
  \/ RestStep
  \/ ReloadFails \/ \E servers \in Desired : ReloadStart(servers)
  \/ ReloadStep
  \/ DnsStep
  \/ \E z \in SUBSET (DnsAliases \X Urls) : ZoneChange(z)

Spec == Init /\ [][Next]_vars

\* A task that has started goes on (tokio schedules it and the registry lock is
\* held only for the length of a call), and the poller's ticker keeps firing.
\* Nothing is assumed of clients, SIGHUPs or the zone.
Fairness ==
  /\ WF_vars(DnsStep)
  /\ WF_vars(ReloadStep)
  /\ \A c \in Clients : WF_vars(RegisterAdd(c) \/ RegisterRespond(c))

FairSpec == Spec /\ Fairness

-----------------------------------------------------------------------------
\* No task overwrites a leaf it could have seen: the entry a POST or a DNS poll
\* is about to replace was registered after that task looked the
\* alias up and found it free (api.rs:127, dns_discovery.rs:127).
NoBlindOverwrite ==
  /\ \A c \in Clients :
       client[c].pc = "add" /\ Registered(client[c].alias)
         => leaves[client[c].alias].id >= client[c].seen
  /\ dns.pc = "add" =>
       \A a \in dns.todo : Registered(a) => leaves[a].id >= dns.seen

\* main.rs, README.md:412-415: after a reload all servers of the file are
\* registered with its settings, and no leaf of an earlier file is that is not in this
\* one, except for the aliases that a REST call or the DNS poller changed while it
\* ran.  Nothing is said here of the leaves of other sources: see
\* ReloadKeepsToItsOwn.
ReloadEstablishesFile ==
  reload.pc = "prune" /\ reload.todo = {} =>
    /\ \A a \in DOMAIN reload.incoming \ touched.reload :
         Registered(a) /\ leaves[a].url = reload.incoming[a]
    /\ \A a \in (Aliases \ DOMAIN reload.incoming) \ touched.reload : ~FromFile(a)

\* dns_discovery.rs: after a poll the dns- aliases are exactly those of the
\* answer, except for the ones others changed meanwhile; nothing else moved.
DnsEstablishesAnswer ==
  dns.pc = "prune" /\ dns.todo = {} =>
    \A a \in DnsAliases \ touched.dns : Registered(a) <=> a \in DOMAIN dns.desired

\* README.md:473 "Only dns--prefixed aliases are touched": no step of the poller
\* changes what is registered under another alias.
DnsLeavesOthersAlone ==
  [][DnsStep => \A a \in Aliases \ DnsAliases : leaves'[a] = leaves[a]]_vars

\* dns_discovery.rs: once the zone and the other tasks are quiet, the poller
\* brings the dns- aliases in line with the zone and keeps them there, also
\* after a reload dropped them or a POST took one of them.
DnsConverges ==
  <>[](\A a \in DnsAliases : Registered(a) <=> \E u \in Urls : <<a, u>> \in zone)

-----------------------------------------------------------------------------
\* The inductive invariant behind the three invariants above.

\* add_leaf hands out ids in order, so an id tells when an entry was registered.
IdsInOrder == \A a \in Aliases : Registered(a) => leaves[a].id < next_id

RequestsWellFormed ==
  /\ \A c \in Clients :
       client[c].pc # "idle" =>
         client[c].alias \in Aliases /\ client[c].url \in Urls /\ client[c].seen <= next_id
  /\ dns.seen <= next_id

\* How far a reload has got: an alias no other task touched either has the
\* settings of the file already, or its turn is still to come; and one of an
\* earlier file that is not in this one was noted, and is gone or its turn is
\* still to come.
ReloadProgress ==
  /\ reload.pc \in {"compare", "add"} => reload.todo \subseteq DOMAIN reload.incoming
  /\ reload.pc = "add" => reload.adding \in DOMAIN reload.incoming
  /\ reload.pc # "idle" =>
       \A a \in DOMAIN reload.incoming \ touched.reload :
         \/ Registered(a) /\ leaves[a].url = reload.incoming[a]
         \/ reload.pc # "prune" /\ a \in reload.todo
         \/ reload.pc = "add" /\ a = reload.adding
  /\ reload.pc \in {"compare", "add"} =>
       \A a \in (Aliases \ DOMAIN reload.incoming) \ touched.reload :
         FromFile(a) => a \in reload.existing
  /\ reload.pc = "prune" =>
       /\ reload.todo \cap DOMAIN reload.incoming = {}
       /\ \A a \in (Aliases \ DOMAIN reload.incoming) \ touched.reload :
            FromFile(a) => a \in reload.todo

\* How far a poll has got: an untouched dns- alias is registered if it was noted
\* or has been added, and from the first removal on if it is wanted or its turn
\* to go has not come.
DnsProgress ==
  /\ dns.pc # "idle" => DOMAIN dns.desired \subseteq DnsAliases
  /\ dns.pc = "add" =>
       /\ dns.todo \subseteq DOMAIN dns.desired
       /\ \A a \in DnsAliases \ touched.dns :
            Registered(a) <=> a \in dns.existing \/ a \in DOMAIN dns.desired \ dns.todo
  /\ dns.pc = "prune" =>
       /\ dns.todo \cap DOMAIN dns.desired = {}
       /\ dns.todo \subseteq DnsAliases
       /\ \A a \in DnsAliases \ touched.dns :
            Registered(a) <=> a \in dns.todo \/ a \in DOMAIN dns.desired

IInv ==
  /\ TypeOK
  /\ IdsInOrder
  /\ RequestsWellFormed
  /\ NoBlindOverwrite
  /\ ReloadProgress
  /\ DnsProgress

-----------------------------------------------------------------------------
\* api.rs:192 .expect("just inserted"): the entry a POST has just added is still
\* registered when it is looked up for the answer.
RegisterNeverPanics == \A c \in Clients : client[c].pc # "panic"

\* README.md:404-406, docs/src/features/discovery.md:3-5: "each source manages its
\* own aliases": what a reload is about to drop was made from a config file.
\* Refuted: main.rs:407 drops whatever is not in the file.
ReloadKeepsToItsOwn ==
  reload.pc = "prune" => \A a \in reload.todo : Registered(a) => FromFile(a)
=============================================================================
