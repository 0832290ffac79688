------------------------------ MODULE Dispatch ------------------------------
(***************************************************************************)
(* A client's request from the bearer token to the answer: the middleware  *)
(* of main.rs, the dispatch of server.rs, the aggregator, the router and   *)
(* the leaf's client, while leaves are registered, replaced and removed,   *)
(* change health and list their tools, and the token file is rewritten.    *)
(* Every await of a handler is a step boundary.                            *)
(*                                                                         *)
(* Requests share nothing they write but the cached lists, which the       *)
(* native refresh tool replaces, so one request is followed at a time and  *)
(* the others are part of the environment.  Origin, session and rate limit *)
(* come before dispatch and are in Sessions and RateLimiter.               *)
(* A request is about tools or about resources or prompts, which are       *)
(* handled alike and go by the name of resources; `offers' is the cached   *)
(* list of its kind.  Arguments and payloads are left out.                 *)
(***************************************************************************)
EXTENDS Names, FiniteSets

CONSTANTS
  Entries,    \* leaf entries, registered or not
  aliasOf,    \* the alias an entry is made for
  ItemNames,  \* what leaves call their tools, resources and prompts
  CallNames,  \* the names clients ask for
  Tokens,     \* bearer tokens
  NoToken,    \* a request without one
  Clients,    \* federation.clients: a sequence of [token, allowed_servers]
  NoEntry,    \* nothing registered
  MaxChanges  \* bound: steps of the environment

Aliases == {aliasOf[e] : e \in Entries}

\* The alias of the native tools, and the "*" of allowed_servers.
Federation == <<"federation">>
Wildcard == <<"*">>

\* What the federation offers itself.
native_tools ==
  {<<"list_servers">>, <<"server_info">>, <<"refresh">>, <<"search_tools">>, <<"topology">>}

\* The alias something is published under; NoEntry stands for the federation.
PublishedBy(e) == IF e = NoEntry THEN Federation ELSE aliasOf[e]

\* Names are strings, and an alias or a name of a leaf may be any of them.
ASSUME DispatchAssumption ==
  /\ aliasOf \in [Entries -> Seq(STRING)]
  /\ ItemNames \subseteq Seq(STRING)
  /\ CallNames \subseteq Seq(STRING)
  /\ Federation \in Seq(STRING) /\ native_tools \subseteq Seq(STRING)
  /\ NoEntry \notin Entries
  /\ NoToken \notin Tokens
  /\ MaxChanges \in Nat

VARIABLES
  token_file,  \* what auth_token_file holds; NoToken if it cannot be read
  registered,  \* Registry.leaves
  health,      \* LeafEntry.health
  offers,      \* LeafEntry.cached_tools (or resources, or prompts)
  req,         \* the request in hand
  changes,     \* bound: what the environment did
  seen,        \* history: entries registered at some moment of the request
  fit,         \* history: entries not Unhealthy at some moment of it
  served,      \* history: entries both at the same moment of it
  steady,      \* history: <<entry, name>> on offer throughout it
  from         \* history: the token presented with it and what token_file held then

env == <<token_file, registered, health, offers>>
history == <<seen, fit, served, steady, from>>
vars == <<env, req, changes, history>>

-----------------------------------------------------------------------------
\* Variant of is_healthy: an entry whose handshake is not over does not count.
HealthyOnly(e) == health[e] = "Healthy"

is_healthy(e) == health[e] # "Unhealthy"

Registered(e) == registered[aliasOf[e]] = e

all_leaves == {e \in Entries : Registered(e)}

\* get_leaf
get_leaf(alias) == IF alias \in Aliases THEN registered[alias] ELSE NoEntry

-----------------------------------------------------------------------------
\* rbac.rs.  allowed_servers = None is a context without restriction.

Unrestricted == [restricted |-> FALSE, allowed |-> {}]

\* rbac::resolve; the admin token comes first, then the first client entry.
Resolvable(presented, admin) ==
  presented = admin \/ \E i \in DOMAIN Clients : Clients[i].token = presented

resolve(presented, admin) ==
  IF presented = admin THEN Unrestricted
  ELSE LET mine == {i \in DOMAIN Clients : Clients[i].token = presented}
           first == CHOOSE i \in mine : \A j \in mine : i <= j
           allowed == Clients[first].allowed_servers
       IN IF Wildcard \in allowed
          THEN Unrestricted
          ELSE [restricted |-> TRUE, allowed |-> allowed]

allows_alias(ctx, alias) ==
  alias = Federation \/ ~ctx.restricted \/ {Wildcard, alias} \cap ctx.allowed # {}

\* tool_allowed
tool_allowed(ctx, name) ==
  HasSeparator(name) => allows_alias(ctx, parse_namespaced_name(name)[1])

-----------------------------------------------------------------------------
\* Requests.

ListMethods == {"tools/list", "resources/list"}
CallMethods == {"tools/call", "resources/read"}
OtherMethods == {"initialize", "notifications/initialized", "sampling/createMessage",
                 "logging/setLevel", "no such method"}

Lists == {{}, ItemNames}
NoCall == <<NoEntry, <<>>>>

Idle ==
  [at |-> "idle", method |-> "tools/list", name |-> <<>>, ctx |-> Unrestricted,
   todo |-> {}, found |-> {}, shown |-> {}, called |-> NoCall, answer |-> "none"]

\* No token presented, and none asked for.
Nobody == [token |-> NoToken, admin |-> NoToken]

Answers == {"none", "result", "401", "-32000", "-32601", "-32602"}

TypeOK ==
  /\ token_file \in Tokens \cup {NoToken}
  /\ registered \in [Aliases -> Entries \cup {NoEntry}]
  /\ \A a \in Aliases : registered[a] # NoEntry => aliasOf[registered[a]] = a
  /\ health \in [Entries -> {"Unknown", "Healthy", "Unhealthy"}]
  /\ offers \in [Entries -> Lists]
  /\ DOMAIN req = DOMAIN Idle
  /\ req.at \in {"idle", "dispatch", "gather", "read", "probe", "call", "inspect",
                 "relist", "answered"}
  /\ req.method \in ListMethods \cup CallMethods \cup OtherMethods
  /\ req.name \in CallNames \cup {<<>>}
  /\ req.ctx = Unrestricted
       \/ req.ctx = [restricted |-> TRUE, allowed |-> req.ctx.allowed]
  /\ req.todo \subseteq Entries /\ req.found \subseteq Entries
  /\ req.shown \subseteq (Entries \X ItemNames) \cup ({NoEntry} \X native_tools)
  /\ req.called = NoCall \/ req.called \in Entries \X Seq(STRING)
  /\ req.answer \in Answers
  /\ req.answer # "none" <=> req.at = "answered"
  /\ changes \in 0..MaxChanges
  /\ seen \subseteq Entries /\ fit \subseteq Entries /\ served \subseteq Entries
  /\ steady \subseteq Entries \X ItemNames
  /\ from \in [token : Tokens \cup {NoToken}, admin : Tokens \cup {NoToken}]

\* Every alias has an entry; which one, where it may have several, is no matter.
Init ==
  /\ token_file \in Tokens
  /\ registered = [a \in Aliases |-> CHOOSE e \in Entries : aliasOf[e] = a]
  /\ health = [e \in Entries |-> "Unknown"]
  /\ offers = [e \in Entries |-> ItemNames]
  /\ req = Idle
  /\ changes = 0
  /\ seen = {} /\ fit = {} /\ served = {} /\ steady = {} /\ from = Nobody

-----------------------------------------------------------------------------
\* The middleware and the beginning of a request.

\* What holds from the request's first moment on.
Open ==
  /\ seen' = all_leaves
  /\ fit' = {e \in Entries : health[e] # "Unhealthy"}
  /\ served' = seen' \cap fit'
  /\ steady' = {p \in Entries \X ItemNames : p[1] \in served' /\ p[2] \in offers[p[1]]}

\* auth_middleware on POST /mcp.  A token file that cannot be read leaves the
\* server without a token (resolve_token), and the context is the anonymous one.
\* A token in the configuration itself is a file that is never rewritten.
Authenticate(presented, method, name) ==
  LET arrived == [Idle EXCEPT !.method = method, !.name = name]
  IN IF token_file = NoToken
     THEN req' = [arrived EXCEPT !.at = "dispatch"]
     ELSE IF presented # NoToken /\ Resolvable(presented, token_file)
     THEN req' = [arrived EXCEPT !.at = "dispatch", !.ctx = resolve(presented, token_file)]
     ELSE req' = [arrived EXCEPT !.at = "answered", !.answer = "401"]

Post(presented, method, name) ==
  /\ req.at = "idle"
  /\ name # <<>> => method \in CallMethods
  /\ Authenticate(presented, method, name)
  /\ Open
  /\ from' = [token |-> presented, admin |-> token_file]
  /\ UNCHANGED <<env, changes>>

\* run_stdio: a line that does not parse is answered without a dispatch; every
\* other one is dispatched with the anonymous context and without a session.
StdioLine(method, name) ==
  /\ req.at = "idle"
  /\ name # <<>> => method \in CallMethods
  /\ req' = [Idle EXCEPT !.at = "dispatch", !.method = method, !.name = name]
  /\ Open
  /\ from' = Nobody
  /\ UNCHANGED <<env, changes>>

Answer(r, answer) ==
  req' = [r EXCEPT !.at = "answered", !.answer = answer, !.todo = {}, !.found = {}]

-----------------------------------------------------------------------------
\* Methods that are answered on the spot.

\* handle_initialize, notifications/initialized
Acknowledge ==
  /\ req.at = "dispatch"
  /\ req.method \in {"initialize", "notifications/initialized"}
  /\ Answer(req, "result")
  /\ UNCHANGED <<env, changes, history>>

\* handle_sampling_create_message, method_not_found
Decline ==
  /\ req.at = "dispatch"
  /\ req.method \in {"sampling/createMessage", "no such method"}
  /\ Answer(req, "-32601")
  /\ UNCHANGED <<env, changes, history>>

\* handle_logging_set_level: a level that is missing or unknown is refused; any
\* other one is stored on the session, if it is still there, where nothing reads it.
SetLevel ==
  /\ req.at = "dispatch"
  /\ req.method = "logging/setLevel"
  /\ \E answer \in {"result", "-32602"} : Answer(req, answer)
  /\ UNCHANGED <<env, changes, history>>

-----------------------------------------------------------------------------
\* tools/list, resources/list and prompts/list.

\* The native tools come first; healthy_leaves takes the registry's lock ...
BeginList ==
  /\ req.at = "dispatch"
  /\ req.method \in ListMethods
  /\ req' = [req EXCEPT !.at = "gather", !.todo = all_leaves,
               !.shown = IF req.method = "tools/list" THEN {NoEntry} \X native_tools ELSE {}]
  /\ UNCHANGED <<env, changes, history>>

\* ... and holds it while it looks at one entry after the other.
Gather(e) ==
  /\ req.at = "gather"
  /\ e \in req.todo
  /\ req' = [req EXCEPT !.todo = @ \ {e},
                        !.found = IF is_healthy(e) THEN @ \cup {e} ELSE @]
  /\ UNCHANGED <<env, changes, history>>

\* The lock is released; the entries found are read from now on.
Gathered ==
  /\ req.at = "gather"
  /\ req.todo = {}
  /\ req' = [req EXCEPT !.at = "read", !.todo = req.found]
  /\ UNCHANGED <<env, changes, history>>

\* aggregated_tools and its two relatives, and search_tools: the cached list of
\* an entry, which may be out of the registry by now.
ReadList(e) ==
  /\ req.at = "read"
  /\ e \in req.todo
  /\ req' = [req EXCEPT !.todo = @ \ {e}, !.shown = @ \cup ({e} \X offers[e])]
  /\ UNCHANGED <<env, changes, history>>

\* Variant of retained: the list is not filtered.
RetainAll(r) == r.shown

\* handle_tools_list keeps what the client may see; the others keep everything.
retained(r) ==
  IF r.method = "tools/list" /\ r.ctx.restricted
  THEN {p \in r.shown : tool_allowed(r.ctx, namespaced(PublishedBy(p[1]), p[2]))}
  ELSE r.shown

EndList ==
  /\ req.at = "read"
  /\ req.todo = {}
  /\ Answer([req EXCEPT !.shown = retained(req)], "result")
  /\ UNCHANGED <<env, changes, history>>

-----------------------------------------------------------------------------
\* tools/call, resources/read and prompts/get.

\* handle_tools_call checks the alias, if the name has one; the router takes over.
Forbidden(r) == r.method = "tools/call" /\ ~tool_allowed(r.ctx, r.name)

\* The federation's own tools exist only for tools/call.
IsNative(r) ==
  r.method = "tools/call" /\ HasSeparator(r.name) /\ parse_namespaced_name(r.name)[1] = Federation

Target(r) == get_leaf(parse_namespaced_name(r.name)[1])

\* Access denied, a name without a separator (InvalidToolName), UnknownLeaf.
Refuse ==
  /\ req.at = "dispatch"
  /\ req.method \in CallMethods
  /\ \/ Forbidden(req)
     \/ ~HasSeparator(req.name)
     \/ HasSeparator(req.name) /\ ~IsNative(req) /\ Target(req) = NoEntry
  /\ Answer(req, "-32000")
  /\ UNCHANGED <<env, changes, history>>

\* route_tool_call, route_resource_read, route_prompt_get: the entry is looked up,
Route ==
  /\ req.at = "dispatch"
  /\ req.method \in CallMethods
  /\ ~Forbidden(req)
  /\ HasSeparator(req.name)
  /\ ~IsNative(req)
  /\ Target(req) # NoEntry
  /\ req' = [req EXCEPT !.at = "probe", !.found = {Target(req)}]
  /\ UNCHANGED <<env, changes, history>>

\* Variant of Probe: an unhealthy leaf is looked up again until it has recovered.
ProbeAgain(e) ==
  /\ req.at = "probe"
  /\ e \in req.found
  /\ IF is_healthy(e)
     THEN req' = [req EXCEPT !.at = "call",
                             !.called = <<e, parse_namespaced_name(req.name)[2]>>]
     ELSE req' = [req EXCEPT !.at = "dispatch", !.found = {}]
  /\ UNCHANGED <<env, changes, history>>

\* its health is read,
Probe(e) ==
  /\ req.at = "probe"
  /\ e \in req.found
  /\ IF is_healthy(e)
     THEN req' = [req EXCEPT !.at = "call",
                             !.called = <<e, parse_namespaced_name(req.name)[2]>>]
     ELSE Answer(req, "-32000")
  /\ UNCHANGED <<env, changes, history>>

\* call_tool, read_resource, get_prompt: a result; or an error of the leaf, a
\* response without a result, or no response within the client's timeout.
LeafReplies == {"result", "-32000"}

\* and the leaf is called.
CallLeaf ==
  /\ req.at = "call"
  /\ \E a \in LeafReplies : Answer(req, a)
  /\ UNCHANGED <<env, changes, history>>

-----------------------------------------------------------------------------
\* handle_native_tool.  The alias argument is NoAlias where it is missing.

NoAlias == <<>>
NativeTool(r) == parse_namespaced_name(r.name)[2]

Native == req.at = "dispatch" /\ IsNative(req)

\* A tool that does not exist, a required argument that is missing, or an alias
\* that is not registered; refresh reports the last of them in its result.
NativeRefuse ==
  /\ Native
  /\ NativeTool(req) \notin {<<"list_servers">>, <<"topology">>, <<"refresh">>}
  /\ Answer(req, "-32000")
  /\ UNCHANGED <<env, changes, history>>

\* list_servers and topology report every leaf, server_info one.
NativeReport(alias) ==
  /\ Native
  /\ \/ NativeTool(req) \in {<<"list_servers">>, <<"topology">>} /\ alias = NoAlias
     \/ NativeTool(req) = <<"server_info">> /\ get_leaf(alias) # NoEntry
  /\ req' = [req EXCEPT !.at = "inspect",
                        !.todo = IF alias = NoAlias THEN all_leaves ELSE {get_leaf(alias)}]
  /\ UNCHANGED <<env, changes, history>>

\* The health and the lists of an entry are read for the report.
Inspect(e) ==
  /\ req.at = "inspect"
  /\ e \in req.todo
  /\ req' = [req EXCEPT !.todo = @ \ {e}]
  /\ UNCHANGED <<env, changes, history>>

\* search_tools goes through the lists of every leaf, healthy or not, or of one.
\* The query is one that every name contains.
NativeSearch(alias) ==
  /\ Native
  /\ NativeTool(req) = <<"search_tools">>
  /\ alias = NoAlias \/ get_leaf(alias) # NoEntry
  /\ req' = [req EXCEPT !.at = "read",
                        !.todo = IF alias = NoAlias THEN all_leaves ELSE {get_leaf(alias)}]
  /\ UNCHANGED <<env, changes, history>>

\* refresh asks every leaf for its list, or one; ToolCache has the details.
NativeRefresh(alias) ==
  /\ Native
  /\ NativeTool(req) = <<"refresh">>
  /\ req' = [req EXCEPT !.at = "relist",
                        !.todo = IF alias = NoAlias THEN all_leaves
                                 ELSE {get_leaf(alias)} \ {NoEntry}]
  /\ UNCHANGED <<env, changes, history>>

\* What an observer of the present moment adds to the histories.
Observe ==
  LET in == {e \in Entries : registered'[aliasOf[e]] = e}
      ok == {e \in Entries : health'[e] # "Unhealthy"}
      active == req.at # "idle"
  IN /\ seen' = IF active THEN seen \cup in ELSE {}
     /\ fit' = IF active THEN fit \cup ok ELSE {}
     /\ served' = IF active THEN served \cup (in \cap ok) ELSE {}
     /\ steady' = {p \in steady : p[1] \in in \cap ok /\ p[2] \in offers'[p[1]]}
     /\ UNCHANGED from

\* A leaf's answer replaces its list; a failure leaves it alone.
Relist(e) ==
  /\ req.at = "relist"
  /\ e \in req.todo
  /\ req' = [req EXCEPT !.todo = @ \ {e}]
  /\ \/ UNCHANGED <<offers, changes>>
     \/ /\ changes < MaxChanges
        /\ \E list \in Lists \ {offers[e]} : offers' = [offers EXCEPT ![e] = list]
        /\ changes' = changes + 1
  /\ UNCHANGED <<token_file, registered, health>>
  /\ Observe

EndNative ==
  /\ req.at \in {"inspect", "relist"}
  /\ req.todo = {}
  /\ Answer(req, "result")
  /\ UNCHANGED <<env, changes, history>>

-----------------------------------------------------------------------------
\* The response is delivered and the request is forgotten.
Deliver ==
  /\ req.at = "answered"
  /\ req' = Idle
  /\ seen' = {} /\ fit' = {} /\ served' = {} /\ steady' = {} /\ from' = Nobody
  /\ UNCHANGED <<env, changes>>

RequestStep ==
  \/ Acknowledge \/ Decline \/ SetLevel
  \/ BeginList \/ Gathered \/ EndList
  \/ Refuse \/ Route \/ CallLeaf
  \/ NativeRefuse \/ EndNative \/ Deliver
  \/ \E e \in Entries :
       Gather(e) \/ ReadList(e) \/ Probe(e) \/ Inspect(e) \/ Relist(e)
  \/ \E a \in Aliases \cup {NoAlias} :
       NativeReport(a) \/ NativeSearch(a) \/ NativeRefresh(a)

-----------------------------------------------------------------------------
\* The environment, between two steps of a request.

Meanwhile ==
  /\ changes < MaxChanges
  /\ req.at # "answered"
  /\ changes' = changes + 1
  /\ UNCHANGED req

\* Variant of Unlocked: the entries are looked at after the lock is released.
NeverLocked == TRUE

\* add_leaf waits while healthy_leaves holds the lock; so does remove_leaf.
Unlocked == req.at # "gather"

\* The entry is a new one, or one that nobody holds any more in its stead.
AddLeaf(e) ==
  /\ Meanwhile
  /\ Unlocked
  /\ ~Registered(e)
  /\ e \notin req.todo \cup req.found \cup {p[1] : p \in req.shown \cup {req.called}}
  /\ registered' = [registered EXCEPT ![aliasOf[e]] = e]
  /\ health' = [health EXCEPT ![e] = "Unknown"]
  /\ offers' = [offers EXCEPT ![e] = {}]
  /\ UNCHANGED token_file
  /\ Observe

RemoveLeaf(e) ==
  /\ Meanwhile
  /\ Unlocked
  /\ Registered(e)
  /\ registered' = [registered EXCEPT ![aliasOf[e]] = NoEntry]
  /\ UNCHANGED <<token_file, health, offers>>
  /\ Observe

\* The handshake or the monitor marks an entry.
Mark(e, h) ==
  /\ Meanwhile
  /\ health[e] # h
  /\ health' = [health EXCEPT ![e] = h]
  /\ UNCHANGED <<token_file, registered, offers>>
  /\ Observe

\* A listing of an entry is cached.
Cache(e) ==
  /\ Meanwhile
  /\ \E list \in Lists \ {offers[e]} : offers' = [offers EXCEPT ![e] = list]
  /\ UNCHANGED <<token_file, registered, health>>
  /\ Observe

\* The token file is rewritten, or cannot be read for a while.
RotateToken(t) ==
  /\ Meanwhile
  /\ token_file # t
  /\ token_file' = t
  /\ UNCHANGED <<registered, health, offers, history>>

Environment ==
  \/ \E e \in Entries : AddLeaf(e) \/ RemoveLeaf(e) \/ Cache(e)
  \/ \E e \in Entries, h \in {"Healthy", "Unhealthy"} : Mark(e, h)
  \/ \E t \in Tokens \cup {NoToken} : RotateToken(t)

Arrival ==
  \E m \in ListMethods \cup CallMethods \cup OtherMethods, n \in CallNames \cup {<<>>} :
    StdioLine(m, n) \/ \E t \in Tokens \cup {NoToken} : Post(t, m, n)

Next == Arrival \/ RequestStep \/ Environment

Spec == Init /\ [][Next]_vars

\* Handlers run until they answer; locks are released and every request to a
\* leaf ends (client timeouts).
FairSpec == Spec /\ WF_vars(RequestStep)

-----------------------------------------------------------------------------
\* router.rs:31, registry.rs:163: what a request used was there for it.  A list
\* is made of entries that were registered and not unhealthy at one moment of
\* the request.  A call goes to an entry that was registered at one moment and
\* not unhealthy at one, not always the same, under the name it publishes.
ServedInWindow ==
  /\ req.at = "read" /\ req.method \in ListMethods => req.found \subseteq served
  /\ req.method \in ListMethods => {p[1] : p \in req.shown} \subseteq served \cup {NoEntry}
  /\ req.called # NoCall =>
       /\ req.called[1] \in seen \cap fit
       /\ namespaced(aliasOf[req.called[1]], req.called[2]) = req.name

\* The histories hold the present moment of a request.
HistoriesCurrent ==
  req.at # "idle" =>
    /\ all_leaves \subseteq seen
    /\ {e \in Entries : is_healthy(e)} \subseteq fit
    /\ {e \in all_leaves : is_healthy(e)} \subseteq served
    /\ \A p \in steady : Registered(p[1]) /\ is_healthy(p[1]) /\ p[2] \in offers[p[1]]

\* Where in its list a request stands: under the lock the entries not looked at
\* are still registered; those found are served and are then read; nothing that
\* stays on offer is passed over, and the native tools are in from the start.
ListSoFar ==
  /\ req.at = "gather" =>
       /\ req.method \in ListMethods
       /\ req.todo \subseteq all_leaves /\ req.found \subseteq served
       /\ \A p \in steady : p[1] \in req.todo \cup req.found
  /\ req.at = "read" /\ req.method \in ListMethods =>
       /\ req.todo \subseteq req.found
       /\ \A p \in steady : p[1] \in req.todo \/ p \in req.shown
  /\ req.at \in {"idle", "dispatch"} => req.shown = {} /\ req.found = {}
  /\ req.at \in {"gather", "read"} /\ req.method = "tools/list" =>
       {NoEntry} \X native_tools \subseteq req.shown

\* The client may call what the entry publishes under the name it asked for.
Routed(e) ==
  /\ req.method \in CallMethods
  /\ HasSeparator(req.name)
  /\ aliasOf[e] = parse_namespaced_name(req.name)[1]
  /\ ~Forbidden(req) /\ ~IsNative(req)

\* Where in its call a request stands: the leaf it goes to is the one its name
\* and its context were checked for.
CallSoFar ==
  /\ req.at = "probe" => \A e \in req.found : Routed(e) /\ e \in seen
  /\ req.at \in {"probe", "call"} => req.method \in CallMethods
  /\ req.at \in {"inspect", "relist"} => req.method = "tools/call"
  /\ req.called # NoCall =>
       /\ req.at \in {"call", "answered"}
       /\ Routed(req.called[1])
       /\ req.called[2] = parse_namespaced_name(req.name)[2]
  /\ req.ctx.restricted => Wildcard \notin req.ctx.allowed

\* router.rs, server.rs: the types, that what a request used was there for it, and
\* how far a list or a call has come.
IInv == TypeOK /\ ServedInWindow /\ HistoriesCurrent /\ ListSoFar /\ CallSoFar

\* An alias that published names can be told from.
Distinct(alias) == Separable(alias) /\ alias # Federation

\* What the configuration says of the token that was presented.
EntriesOf(token) == {i \in DOMAIN Clients : Clients[i].token = token}
Grant(token) ==
  Clients[CHOOSE i \in EntriesOf(token) : \A j \in EntriesOf(token) : i <= j].allowed_servers

\* The token is one with allowed_servers, and not the server's own.
Confined ==
  from.token # from.admin /\ EntriesOf(from.token) # {} /\ Wildcard \notin Grant(from.token)

\* Tools are shown only of these leaves, if their aliases can be told apart, and
\* only these leaves are called.  resources and prompts are not restricted.
KeepsTo(allowed) ==
  /\ req.method = "tools/list" /\ req.at = "answered" =>
       \A p \in req.shown : Distinct(PublishedBy(p[1])) => PublishedBy(p[1]) \in allowed
  /\ req.method = "tools/call" /\ req.called # NoCall => aliasOf[req.called[1]] \in allowed

\* README.md:234 "clients only see tools from leaves in their `allowed_servers`",
\* "`tools/call` on a disallowed leaf returns" an error: whatever is registered,
\* replaced or rotated under the request, a client keeps to the leaves that the
\* configuration gives its token, and one whose token is nobody's gets nothing,
\* provided the server's own token could be read when the request came.
RbacHolds ==
  from.admin # NoToken =>
    /\ Confined => KeepsTo(Grant(from.token))
    /\ from.token # from.admin /\ EntriesOf(from.token) = {} =>
         req.shown = {} /\ req.called = NoCall

\* README.md:234 the same of every request, auth_token_file being configured.
\* Refuted: while the file cannot be read, resolve_token is None, and every client
\* is the anonymous one, with no restriction.
RbacAlways == Confined => KeepsTo(Grant(from.token))

\* aggregator.rs:58, README.md:388 (the native tools are visible to every client):
\* a list misses nothing that was on offer from the arrival of the request to its
\* answer and that the client may see, and a list of tools never misses the
\* native ones.
ListComplete ==
  req.at = "answered" /\ req.method \in ListMethods /\ req.answer = "result" =>
    /\ \A p \in steady :
         \/ p \in req.shown
         \/ /\ req.method = "tools/list"
            /\ ~tool_allowed(req.ctx, namespaced(aliasOf[p[1]], p[2]))
    /\ req.method = "tools/list" => {NoEntry} \X native_tools \subseteq req.shown

\* server.rs:426: every request is answered, whatever becomes of the leaves.
EveryRequestAnswered == req.at # "idle" ~> req.at = "answered"
=============================================================================
