---------------------------- MODULE CrdDiscovery ----------------------------
(***************************************************************************)
(* The controller of crd_discovery.rs for one MCPServer resource: the      *)
(* object at the API server, the controller's store that follows it by     *)
(* watch events, the reconcile function, the leaf it registers, and the    *)
(* task that greets the leaf and writes the status back.                   *)
(*                                                                         *)
(* External, from the way the code uses them: the API server (finalizers   *)
(* keep a deleted object; none may be added to one; a merge patch replaces *)
(* the whole list and names no version) and kube's Controller (events in   *)
(* order into the store, one reconcile of an object at a time, from the    *)
(* store's object; a timer or an event makes it due; nothing is due for a  *)
(* deletion event).  Resources share nothing as long as their aliases      *)
(* differ, so one is modelled; it may be deleted and created again.        *)
(***************************************************************************)
EXTENDS Integers, Sequences

CONSTANTS
  Good,         \* specs with a transport that parse_transport knows
  Bad,          \* specs with another one
  Tasks,        \* bound: greetings in flight at a time
  MaxLag,       \* bound: events the store is behind
  MaxEdits,     \* bound: what users do to the object
  MaxFaults,    \* bound: patches that fail or whose answer is lost
  MaxPrunes,    \* bound: reloads and DELETEs that drop the leaf
  MaxRestarts   \* bound: restarts of the federation

Specs == Good \cup Bad

ASSUME CrdAssumption ==
  /\ Good \cap Bad = {}
  /\ {MaxLag, MaxEdits, MaxFaults, MaxPrunes, MaxRestarts} \subseteq Nat

VARIABLES
  obj,       \* the object at the API server: an empty or one-element sequence
  status,    \* its status.health
  stream,    \* events on their way to the store
  store,     \* the controller's copy, likewise empty or one element
  due,       \* a reconcile is scheduled
  rec,       \* the step the reconcile is at
  snap,      \* the object it was called with
  leaf,      \* the registry's entry for the alias, if any
  task,      \* the greeting of each entry
  up,        \* environment: the leaf answers
  watching,  \* the controller is running
  budget     \* what is left of the bounds

controller == <<stream, store, due, rec, snap>>
registry == <<leaf, task>>
vars == <<obj, status, controller, registry, up, watching, budget>>

None == <<>>

FINALIZER == "ours"
Finalizers == {FINALIZER, "foreign"}

Objects == [spec : Specs, finalizers : SUBSET Finalizers, deleting : BOOLEAN]
Entries == [spec : Specs, health : {"Unknown", "Healthy", "Unhealthy"}]
NoTask == [at |-> "none", current |-> FALSE, ok |-> FALSE]

Optional(S) == {None} \cup {<<x>> : x \in S}

TypeOK ==
  /\ obj \in Optional(Objects)
  /\ status \in {"none", "Healthy", "Unhealthy"}
  /\ stream \in Seq(Optional(Objects)) /\ Len(stream) <= MaxLag
  /\ store \in Optional(Objects)
  /\ due \in BOOLEAN
  /\ rec \in {"idle", "begin", "strip"}
  /\ snap \in Optional(Objects)
  /\ leaf \in Optional(Entries)
  /\ task \in [Tasks -> [at : {"none", "greet", "report"}, current : BOOLEAN, ok : BOOLEAN]]
  /\ up \in BOOLEAN
  /\ watching \in BOOLEAN
  /\ budget \in [edits : 0..MaxEdits, faults : 0..MaxFaults,
                 prunes : 0..MaxPrunes, restarts : 0..MaxRestarts]

\* The federation starts before the object is created.
Init ==
  /\ obj = None /\ status = "none"
  /\ stream = <<>> /\ store = None
  /\ due = FALSE /\ rec = "idle" /\ snap = None
  /\ leaf = None
  /\ task = [t \in Tasks |-> NoTask]
  /\ up \in BOOLEAN
  /\ watching = TRUE
  /\ budget = [edits |-> MaxEdits, faults |-> MaxFaults,
               prunes |-> MaxPrunes, restarts |-> MaxRestarts]

Live(o) == o # None /\ ~o[1].deleting
Ours(o) == o # None /\ FINALIZER \in o[1].finalizers

-----------------------------------------------------------------------------
\* The API server.

\* An object that is being deleted goes with its last finalizer.
Settled(o) == IF o.deleting /\ o.finalizers = {} THEN None ELSE <<o>>

\* The object becomes o, and whoever watches is told.
Commit(o) ==
  /\ obj' = o
  /\ status' = IF o = None THEN "none" ELSE status
  /\ IF watching
     THEN Len(stream) < MaxLag /\ stream' = Append(stream, o)
     ELSE UNCHANGED stream

\* Whether a merge patch of metadata.finalizers is accepted.
Accepts(list) ==
  /\ obj # None
  /\ obj[1].deleting => list \subseteq obj[1].finalizers

Patched(list) == Settled([obj[1] EXCEPT !.finalizers = list])

\* A patch that changes nothing makes no event.
Apply(list) ==
  IF Patched(list) = obj THEN UNCHANGED <<obj, status, stream>> ELSE Commit(Patched(list))

-----------------------------------------------------------------------------
\* kube's Controller.

\* The next event reaches the store; an object that changed is due.
Deliver ==
  /\ watching
  /\ stream # <<>>
  /\ store' = Head(stream)
  /\ stream' = Tail(stream)
  /\ due' = (due \/ Head(stream) # None)
  /\ UNCHANGED <<obj, status, rec, snap, registry, up, watching, budget>>

\* reconcile is called with the store's object; without one there is no call.
Begin ==
  /\ watching
  /\ due
  /\ rec = "idle"
  /\ due' = FALSE
  /\ IF store = None
     THEN UNCHANGED <<rec, snap>>
     ELSE rec' = "begin" /\ snap' = store
  /\ UNCHANGED <<obj, status, stream, store, registry, up, watching, budget>>

\* How a reconcile ends: Action::await_change() or Action::requeue(..).
End(requeue) == rec' = "idle" /\ snap' = None /\ due' = (due \/ requeue)

\* Variant of error_policy: an error is only logged.
ErrorAwaitsChange == FALSE

\* error_policy: tried again after 30 s.
error_policy == TRUE

-----------------------------------------------------------------------------
\* reconcile.

\* The entry is no longer the registry's; its greeting does not know.
Detached == [t \in Tasks |-> [task[t] EXCEPT !.current = FALSE]]

\* The object is being deleted and carries our finalizer: the leaf goes first ...
RemoveLeaf ==
  /\ rec = "begin"
  /\ ~Live(snap)
  /\ Ours(snap)
  /\ leaf' = None
  /\ task' = Detached
  /\ rec' = "strip"
  /\ UNCHANGED <<obj, status, stream, store, due, snap, up, watching, budget>>

\* The list to write: that of the snapshot, with or without our finalizer.
StripList == snap[1].finalizers \ {FINALIZER}
MarkList == snap[1].finalizers \cup {FINALIZER}

\* A patch by name, applied to whatever has it now.  It is refused (404, 422),
\* or it fails, or it is done and the answer is lost.
Patch(list, requeue) ==
  \/ Accepts(list) /\ Apply(list) /\ End(requeue) /\ UNCHANGED budget
  \/ ~Accepts(list) /\ End(error_policy) /\ UNCHANGED <<obj, status, stream, budget>>
  \/ /\ budget.faults > 0
     /\ budget' = [budget EXCEPT !.faults = @ - 1]
     /\ End(error_policy)
     /\ \/ UNCHANGED <<obj, status, stream>>
        \/ Accepts(list) /\ Apply(list)

\* ... and then our finalizer.
StripFinalizer ==
  /\ rec = "strip"
  /\ Patch(StripList, FALSE)
  /\ UNCHANGED <<store, registry, up, watching>>

\* Somebody else's finalizer keeps the object; nothing is left to do here.
AwaitOthers ==
  /\ rec = "begin"
  /\ ~Live(snap)
  /\ ~Ours(snap)
  /\ End(FALSE)
  /\ UNCHANGED <<obj, status, stream, store, registry, up, watching, budget>>

\* Our finalizer is set before anything is registered; requeue after 1 s.
MarkFinalizer ==
  /\ rec = "begin"
  /\ Live(snap)
  /\ ~Ours(snap)
  /\ Patch(MarkList, TRUE)
  /\ UNCHANGED <<store, registry, up, watching>>

\* parse_transport fails: what was registered before stays.
InvalidTransport ==
  /\ rec = "begin"
  /\ Live(snap) /\ Ours(snap)
  /\ snap[1].spec \in Bad
  /\ End(error_policy)
  /\ UNCHANGED <<obj, status, stream, store, registry, up, watching, budget>>

\* Variant of resync: a leaf that is registered is not looked after any more.
NoResync == FALSE

\* Action::requeue(300 s)
resync == TRUE

\* A new entry replaces the one there was, whether or not anything changed, and
\* a task of its own greets the leaf.
AddLeaf(t) ==
  /\ rec = "begin"
  /\ Live(snap) /\ Ours(snap)
  /\ snap[1].spec \in Good
  /\ task[t].at = "none"
  /\ leaf' = <<[spec |-> snap[1].spec, health |-> "Unknown"]>>
  /\ task' = [Detached EXCEPT ![t] = [at |-> "greet", current |-> TRUE, ok |-> FALSE]]
  /\ End(resync)
  /\ UNCHANGED <<obj, status, stream, store, up, watching, budget>>

\* Variant of ReconcileStep: the finalizer goes before the leaf.
StripThenRemove ==
  \/ /\ rec = "begin"
     /\ ~Live(snap) /\ Ours(snap)
     /\ Accepts(StripList) /\ Apply(StripList)
     /\ rec' = "strip"
     /\ UNCHANGED <<store, due, snap, registry, up, watching, budget>>
  \/ /\ rec = "strip"
     /\ leaf' = None /\ task' = Detached
     /\ End(FALSE)
     /\ UNCHANGED <<obj, status, stream, store, up, watching, budget>>
  \/ AwaitOthers \/ MarkFinalizer \/ InvalidTransport
  \/ \E t \in Tasks : AddLeaf(t)

ReconcileStep ==
  \/ RemoveLeaf \/ StripFinalizer \/ AwaitOthers \/ MarkFinalizer \/ InvalidTransport
  \/ \E t \in Tasks : AddLeaf(t)

-----------------------------------------------------------------------------
\* The greeting of an entry: initialize, mark_healthy or mark_unhealthy,
\* list_tools; the entry may be out of the registry by then.
Greet(t) ==
  /\ task[t].at = "greet"
  /\ task' = [task EXCEPT ![t].at = "report", ![t].ok = up]
  /\ leaf' = IF task[t].current
             THEN <<[leaf[1] EXCEPT !.health = IF up THEN "Healthy" ELSE "Unhealthy"]>>
             ELSE leaf
  /\ UNCHANGED <<obj, status, controller, up, watching, budget>>

\* patch_status.  lastSynced changes from second to second, and then the object
\* changes and is due again.  A failure is logged.
Report(t) ==
  /\ task[t].at = "report"
  /\ task' = [task EXCEPT ![t] = NoTask]
  /\ \/ /\ obj # None
        /\ status' = IF task[t].ok THEN "Healthy" ELSE "Unhealthy"
        /\ \/ watching /\ Len(stream) < MaxLag /\ stream' = Append(stream, obj)
           \/ (~watching \/ status' = status) /\ UNCHANGED stream
        /\ UNCHANGED budget
     \/ obj = None /\ UNCHANGED <<status, stream, budget>>
     \/ /\ budget.faults > 0
        /\ budget' = [budget EXCEPT !.faults = @ - 1]
        /\ UNCHANGED <<status, stream>>
  /\ UNCHANGED <<obj, store, due, rec, snap, leaf, up, watching>>

-----------------------------------------------------------------------------
\* Users of the cluster.  Nobody but the controller touches its finalizer.

Edit(o) ==
  /\ budget.edits > 0
  /\ budget' = [budget EXCEPT !.edits = @ - 1]
  /\ Commit(o)
  /\ UNCHANGED <<store, due, rec, snap, registry, up, watching>>

Create(spec) ==
  /\ obj = None
  /\ Edit(<<[spec |-> spec, finalizers |-> {}, deleting |-> FALSE]>>)

Change(spec) ==
  /\ Live(obj)
  /\ obj[1].spec # spec
  /\ Edit(<<[obj[1] EXCEPT !.spec = spec]>>)

Delete ==
  /\ Live(obj)
  /\ Edit(Settled([obj[1] EXCEPT !.deleting = TRUE]))

ForeignFinalizer ==
  \/ /\ Live(obj)
     /\ "foreign" \notin obj[1].finalizers
     /\ Edit(<<[obj[1] EXCEPT !.finalizers = @ \cup {"foreign"}]>>)
  \/ /\ obj # None
     /\ "foreign" \in obj[1].finalizers
     /\ Edit(Settled([obj[1] EXCEPT !.finalizers = @ \ {"foreign"}]))

\* A reload or DELETE /api/v1/servers/{alias} drops the leaf (Registry).
Prune ==
  /\ leaf # None
  /\ budget.prunes > 0
  /\ budget' = [budget EXCEPT !.prunes = @ - 1]
  /\ leaf' = None
  /\ task' = Detached
  /\ UNCHANGED <<obj, status, controller, up, watching>>

LeafTurns ==
  /\ up' = ~up
  /\ UNCHANGED <<obj, status, controller, registry, watching, budget>>

\* The federation is restarted.  run lists the objects first: with an answer the
\* controller begins with the objects there are, without one it is not started.
Restart ==
  /\ budget.restarts > 0
  /\ budget' = [budget EXCEPT !.restarts = @ - 1]
  /\ leaf' = None
  /\ task' = [t \in Tasks |-> NoTask]
  /\ rec' = "idle" /\ snap' = None /\ stream' = <<>>
  /\ watching' \in BOOLEAN
  /\ store' = IF watching' THEN obj ELSE None
  /\ due' = (watching' /\ obj # None)
  /\ UNCHANGED <<obj, status, up>>

TaskStep(t) == Greet(t) \/ Report(t)

Next ==
  \/ Deliver \/ Begin \/ ReconcileStep
  \/ \E t \in Tasks : TaskStep(t)
  \/ \E s \in Specs : Create(s) \/ Change(s)
  \/ Delete \/ ForeignFinalizer \/ Prune \/ LeafTurns \/ Restart

Spec == Init /\ [][Next]_vars

\* Events arrive, timers fire and tasks run; every request ends.
Fairness ==
  /\ WF_vars(Deliver) /\ WF_vars(Begin) /\ WF_vars(ReconcileStep)
  /\ \A t \in Tasks : WF_vars(TaskStep(t))

FairSpec == Spec /\ Fairness

-----------------------------------------------------------------------------
\* What the controller knows and what is still on its way to it, oldest first.
Versions ==
  [i \in 1..(Len(stream) + 1) |-> IF i = 1 THEN store ELSE stream[i - 1]]

InService(o) == Live(o) /\ Ours(o)
Leaving(o) == ~Live(o) /\ Ours(o)

\* crd_discovery.rs:99, 224 ("before we start owning external state"): a leaf is
\* registered for the resource only while the object exists with our finalizer,
\* so that its deletion cannot pass unnoticed; however late the store is, and
\* whatever patch failed, was lost or met an object created anew.
NoOrphan == leaf # None => Ours(obj)

\* Why, first: in the order of versions an object gets our finalizer before it is
\* deleted and loses it only after the controller saw it deleted, and then it is
\* not set on a successor before the controller saw that one.
Ordered(vs) ==
  \A i, j \in DOMAIN vs :
    /\ InService(vs[i]) /\ i <= j => Ours(vs[j])
    /\ Leaving(vs[i]) /\ i <= j => ~InService(vs[j])
    /\ \A k \in DOMAIN vs :
         i <= j /\ j <= k =>
           /\ Leaving(vs[i]) /\ ~Ours(vs[j]) => ~Ours(vs[k])
           /\ ~Ours(vs[i]) /\ Leaving(vs[j]) => Ours(vs[k])

\* Second: while a deleted object is cleaned up nothing is in service, and what
\* has lost the finalizer does not get it back ...
Cleaning(vs) ==
  \A i \in DOMAIN vs :
    /\ ~InService(vs[i])
    /\ \A j \in DOMAIN vs : i <= j /\ ~Ours(vs[i]) => ~Ours(vs[j])

\* ... and while an object is marked one that is leaving keeps it.
Marking(vs) ==
  \A i, j \in DOMAIN vs : Leaving(vs[i]) /\ i <= j => Ours(vs[j])

InStep ==
  /\ watching => Versions[Len(stream) + 1] = obj
  /\ Ordered(Versions)
  /\ rec = "begin" =>
       /\ snap # None
       /\ InService(snap) => Ours(obj)
       /\ Leaving(snap) => Cleaning(Versions)
       /\ Live(snap) /\ ~Ours(snap) => Marking(Versions)
  /\ rec = "strip" => leaf = None /\ Leaving(snap) /\ Cleaning(Versions)
  /\ \A t \in Tasks : task[t].at = "greet" /\ task[t].current => leaf # None

\* crd_discovery.rs:197: everything above, which holds at every step.
IInv == TypeOK /\ NoOrphan /\ InStep

\* README.md:521 "CR deletion (deletion timestamp) drops the leaf from the
\* registry": the cleanup always comes to its end, so that our finalizer never
\* keeps a deleted object for ever, as long as the controller runs.
DeletedIsDropped ==
  <>[]watching => (Ours(obj) /\ ~Live(obj) ~> ~(Ours(obj) /\ ~Live(obj)))

\* crd_discovery.rs:257, 318: a resource that is left alone, whose leaf answers,
\* ends in service with its present spec and says so in its status, whatever
\* failed, was pruned or was restarted before; no monitor ever probes it.
LiveIsServed ==
  \A s \in Good :
    <>[](watching /\ up /\ Live(obj) /\ obj[1].spec = s) =>
      <>[](/\ leaf # None
           /\ leaf[1].spec = s
           /\ leaf[1].health # "Unhealthy"
           /\ status = "Healthy")
=============================================================================
