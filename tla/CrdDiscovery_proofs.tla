------------------------ MODULE CrdDiscovery_proofs ------------------------
(***************************************************************************)
(* The finalizer protocol of crd_discovery.rs is safe for every number of  *)
(* specs, greetings, faults and restarts and however late the store is: a  *)
(* leaf is registered only while its object carries our finalizer.  And    *)
(* the date in a status is right on every day if it is right for an era.   *)
(***************************************************************************)
EXTENDS CrdDiscovery, PureFunctions, TLAPS

-----------------------------------------------------------------------------
\* Objects, and what the API server makes of them.

\* An optional value is absent or has one element.
LEMMA OptionalCases ==
  ASSUME NEW S, NEW o \in Optional(S), o # None
  PROVE  o[1] \in S /\ o = <<o[1]>>
BY DEF Optional, None

\* Settled keeps an object with our finalizer, and whether it is deleted.
LEMMA SettledFacts ==
  ASSUME NEW o \in Objects
  PROVE  /\ Settled(o) \in Optional(Objects)
         /\ Ours(Settled(o)) <=> FINALIZER \in o.finalizers
         /\ Live(Settled(o)) <=> ~o.deleting
<1>1. CASE o.deleting /\ o.finalizers = {}
  BY <1>1 DEF Settled, Optional, Ours, Live, None
<1>2. CASE ~(o.deleting /\ o.finalizers = {})
  <2>1. Settled(o) = <<o>>
    BY <1>2 DEF Settled
  <2>2. <<o>> # None /\ <<o>>[1] = o
    BY DEF None
  <2> QED BY <2>1, <2>2 DEF Optional, Ours, Live
<1> QED BY <1>1, <1>2

-----------------------------------------------------------------------------
\* Sequences of versions: what may follow at the end, and what is forgotten at
\* the beginning.

\* ws is vs with one more version at the end.
Extends(vs, ws, n) ==
  /\ n \in Nat \ {0}
  /\ DOMAIN vs = 1..n
  /\ DOMAIN ws = 1..(n + 1)
  /\ \A i \in 1..n : ws[i] = vs[i]

\* Users neither set nor remove our finalizer and bring nothing back.
LEMMA ExtendByUser ==
  ASSUME NEW vs, NEW ws, NEW n, Extends(vs, ws, n),
         Ours(ws[n + 1]) <=> Ours(vs[n]),
         InService(ws[n + 1]) => InService(vs[n])
  PROVE  /\ Ordered(vs) => Ordered(ws)
         /\ Cleaning(vs) => Cleaning(ws)
         /\ Marking(vs) => Marking(ws)
BY DEF Extends, Ordered, Cleaning, Marking, InService, Leaving

\* Our finalizer goes while nothing is in service.
LEMMA ExtendByStrip ==
  ASSUME NEW vs, NEW ws, NEW n, Extends(vs, ws, n),
         Ordered(vs), Cleaning(vs), ~Ours(ws[n + 1])
  PROVE  Ordered(ws) /\ Cleaning(ws)
BY DEF Extends, Ordered, Cleaning, InService, Leaving

\* Our finalizer is set, on an object that is not brought back.
LEMMA ExtendByMark ==
  ASSUME NEW vs, NEW ws, NEW n, Extends(vs, ws, n),
         Ordered(vs), Marking(vs), Ours(ws[n + 1]),
         Leaving(vs[n]) => ~Live(ws[n + 1])
  PROVE  Ordered(ws)
BY DEF Extends, Ordered, Marking, InService, Leaving

\* The oldest version is forgotten.
LEMMA Forget ==
  ASSUME NEW vs, NEW ws, NEW n \in Nat \ {0},
         DOMAIN vs = 1..(n + 1), DOMAIN ws = 1..n,
         \A i \in 1..n : ws[i] = vs[i + 1]
  PROVE  /\ Ordered(vs) => Ordered(ws)
         /\ Cleaning(vs) => Cleaning(ws)
         /\ Marking(vs) => Marking(ws)
<1>1. \A i \in 1..n : i + 1 \in 1..(n + 1)
  OBVIOUS
<1>2. \A i, j \in 1..n : i <= j <=> i + 1 <= j + 1
  OBVIOUS
<1>3. Ordered(vs) => Ordered(ws)
  BY <1>1, <1>2 DEF Ordered
<1>4. Cleaning(vs) => Cleaning(ws)
  BY <1>1, <1>2 DEF Cleaning
<1>5. Marking(vs) => Marking(ws)
  BY <1>1, <1>2 DEF Marking
<1> QED BY <1>3, <1>4, <1>5

\* Versions when an event is added to the stream.
LEMMA VersionsGrow ==
  ASSUME TypeOK, NEW o, store' = store, stream' = Append(stream, o)
  PROVE  /\ Extends(Versions, Versions', Len(stream) + 1)
         /\ Versions'[Len(stream) + 2] = o
         /\ Len(stream') = Len(stream) + 1
<1>1. stream \in Seq(Optional(Objects)) /\ Len(stream) \in Nat
  BY DEF TypeOK
<1>2. Len(stream') = Len(stream) + 1
  BY <1>1
<1>3. \A i \in 1..Len(stream) : stream'[i] = stream[i]
  BY <1>1
<1>4. stream'[Len(stream) + 1] = o
  BY <1>1
<1> QED BY <1>1, <1>2, <1>3, <1>4 DEF Extends, Versions

\* Versions when the store takes the next event.
LEMMA VersionsShrink ==
  ASSUME TypeOK, stream # <<>>, store' = Head(stream), stream' = Tail(stream)
  PROVE  /\ Len(stream) \in Nat \ {0}
         /\ DOMAIN Versions = 1..(Len(stream) + 1)
         /\ DOMAIN Versions' = 1..Len(stream)
         /\ \A i \in 1..Len(stream) : Versions'[i] = Versions[i + 1]
         /\ Len(stream') = Len(stream) - 1
<1>1. stream \in Seq(Optional(Objects)) /\ Len(stream) \in Nat \ {0}
  BY DEF TypeOK
<1>2. Len(stream') = Len(stream) - 1
  BY <1>1
<1>3. \A i \in 1..(Len(stream) - 1) : stream'[i] = stream[i + 1]
  BY <1>1
<1>4. store' = stream[1]
  BY <1>1
<1>5. \A i \in 1..Len(stream) : Versions'[i] = Versions[i + 1]
  <2> SUFFICES ASSUME NEW i \in 1..Len(stream)
               PROVE  Versions'[i] = Versions[i + 1]
    OBVIOUS
  <2>1. Versions[i + 1] = stream[i]
    BY <1>1 DEF Versions
  <2>2. Versions'[i] = IF i = 1 THEN store' ELSE stream'[i - 1]
    BY <1>1, <1>2 DEF Versions
  <2>3. CASE i = 1
    BY <2>1, <2>2, <2>3, <1>4
  <2>4. CASE i # 1
    <3>1. i - 1 \in 1..(Len(stream) - 1) /\ (i - 1) + 1 = i
      BY <1>1, <2>4
    <3>2. stream'[i - 1] = stream[i]
      BY <3>1, <1>3
    <3> QED BY <2>1, <2>2, <2>4, <3>2
  <2> QED BY <2>3, <2>4
<1> QED BY <1>1, <1>2, <1>5 DEF Versions

-----------------------------------------------------------------------------
\* What changes the object.

\* Either the object was changed or the patch had no effect; the reconcile is over.
LEMMA PatchCases ==
  ASSUME NEW list, NEW requeue, Patch(list, requeue)
  PROVE  /\ rec' = "idle" /\ snap' = None
         /\ \/ UNCHANGED <<obj, status, stream>>
            \/ Accepts(list) /\ Patched(list) # obj /\ Commit(Patched(list))
BY DEF Patch, End, Apply

\* What a patch makes of an object.
LEMMA PatchedFacts ==
  ASSUME TypeOK, NEW list \in SUBSET Finalizers, Accepts(list)
  PROVE  /\ Patched(list) \in Optional(Objects)
         /\ Ours(Patched(list)) <=> FINALIZER \in list
         /\ Live(Patched(list)) <=> Live(obj)
<1>1. obj # None /\ obj \in Optional(Objects)
  BY DEF Accepts, TypeOK
<1>2. obj[1] \in Objects
  BY <1>1, OptionalCases
<1> DEFINE o == [obj[1] EXCEPT !.finalizers = list]
<1>3. o \in Objects /\ o.finalizers = list /\ o.deleting = obj[1].deleting
  BY <1>2 DEF Objects
<1>4. Patched(list) = Settled(o)
  BY DEF Patched
<1> HIDE DEF o
<1>5. Live(Settled(o)) <=> ~obj[1].deleting
  BY <1>3, SettledFacts
<1> QED BY <1>1, <1>3, <1>4, <1>5, SettledFacts DEF Live

\* A change that is seen adds a version; one that is not leaves them alone.
LEMMA CommitCases ==
  ASSUME TypeOK, NEW o, Commit(o), store' = store
  PROVE  /\ obj' = o
         /\ \/ /\ watching
               /\ Extends(Versions, Versions', Len(stream) + 1)
               /\ Versions'[Len(stream) + 2] = o
               /\ Len(stream') = Len(stream) + 1
            \/ ~watching /\ stream' = stream /\ Versions' = Versions
<1>1. CASE watching
  BY <1>1, VersionsGrow DEF Commit
<1>2. CASE ~watching
  BY <1>2 DEF Commit, Versions
<1> QED BY <1>1, <1>2 DEF Commit

\* A change of the object keeps the types.
LEMMA CommitType ==
  ASSUME TypeOK, NEW o \in Optional(Objects), Commit(o)
  PROVE  /\ obj' \in Optional(Objects)
         /\ status' \in {"none", "Healthy", "Unhealthy"}
         /\ stream' \in Seq(Optional(Objects)) /\ Len(stream') <= MaxLag
<1>1. MaxLag \in Nat
  BY CrdAssumption
<1>2. stream \in Seq(Optional(Objects)) /\ Len(stream) <= MaxLag
  BY DEF TypeOK
<1>3. CASE watching
  <2>1. Len(stream) < MaxLag /\ stream' = Append(stream, o)
    BY <1>3 DEF Commit
  <2>2. stream' \in Seq(Optional(Objects)) /\ Len(stream') = Len(stream) + 1
    BY <1>2, <2>1
  <2> QED BY <1>1, <1>2, <2>1, <2>2 DEF Commit, TypeOK
<1>4. CASE ~watching
  BY <1>2, <1>4 DEF Commit, TypeOK
<1> QED BY <1>3, <1>4

\* So does a patch.
LEMMA PatchType ==
  ASSUME TypeOK, NEW list \in SUBSET Finalizers, NEW requeue \in BOOLEAN, Patch(list, requeue)
  PROVE  /\ obj' \in Optional(Objects)
         /\ status' \in {"none", "Healthy", "Unhealthy"}
         /\ stream' \in Seq(Optional(Objects)) /\ Len(stream') <= MaxLag
         /\ rec' \in {"idle", "begin", "strip"}
         /\ snap' \in Optional(Objects)
         /\ due' \in BOOLEAN
         /\ budget' \in [edits : 0..MaxEdits, faults : 0..MaxFaults,
                         prunes : 0..MaxPrunes, restarts : 0..MaxRestarts]
<1>1. /\ obj' \in Optional(Objects)
      /\ status' \in {"none", "Healthy", "Unhealthy"}
      /\ stream' \in Seq(Optional(Objects)) /\ Len(stream') <= MaxLag
  <2>1. CASE UNCHANGED <<obj, status, stream>>
    BY <2>1 DEF TypeOK
  <2>2. CASE Accepts(list) /\ Commit(Patched(list))
    <3>1. Patched(list) \in Optional(Objects)
      BY <2>2, PatchedFacts
    <3> QED BY <2>2, <3>1, CommitType
  <2> QED BY <2>1, <2>2, PatchCases
<1>2. rec' = "idle" /\ snap' = None
  BY PatchCases
<1>3. due' \in BOOLEAN
  <2>1. due' = (due \/ requeue) \/ due' = (due \/ error_policy)
    BY DEF Patch, End
  <2> QED BY <2>1, Zenon DEF TypeOK, error_policy
<1>4. budget' = budget \/ (budget.faults > 0 /\ budget' = [budget EXCEPT !.faults = @ - 1])
  BY DEF Patch
<1>5. budget' \in [edits : 0..MaxEdits, faults : 0..MaxFaults,
                   prunes : 0..MaxPrunes, restarts : 0..MaxRestarts]
  BY <1>4, CrdAssumption DEF TypeOK
<1> QED BY <1>1, <1>2, <1>3, <1>5 DEF Optional

\* The lists a reconcile writes, and the entry it works on.
LEMMA SnapFacts ==
  ASSUME TypeOK, snap # None
  PROVE  /\ snap[1] \in Objects
         /\ StripList \in SUBSET Finalizers /\ FINALIZER \notin StripList
         /\ MarkList \in SUBSET Finalizers /\ FINALIZER \in MarkList
<1>1. snap[1] \in Objects
  BY OptionalCases DEF TypeOK
<1> QED BY <1>1 DEF Objects, StripList, MarkList, Finalizers

\* Detached tasks are tasks.
LEMMA DetachedType ==
  ASSUME TypeOK
  PROVE  /\ Detached \in [Tasks -> [at : {"none", "greet", "report"}, current : BOOLEAN, ok : BOOLEAN]]
         /\ \A t \in Tasks : ~Detached[t].current
BY DEF TypeOK, Detached

\* A user's change keeps the types.
LEMMA EditType ==
  ASSUME TypeOK, NEW o \in Optional(Objects), Edit(o)
  PROVE  TypeOK'
<1>1. budget' \in [edits : 0..MaxEdits, faults : 0..MaxFaults,
                   prunes : 0..MaxPrunes, restarts : 0..MaxRestarts]
  BY CrdAssumption DEF Edit, TypeOK
<1>2. Commit(o) /\ UNCHANGED <<store, due, rec, snap, registry, up, watching>>
  BY DEF Edit
<1> QED BY <1>1, <1>2, CommitType DEF TypeOK, registry

\* What users make of an object: our finalizer stays as it is, and nothing that
\* was deleted comes back.
Tolerable(o) ==
  /\ o \in Optional(Objects)
  /\ Ours(o) <=> Ours(obj)
  /\ InService(o) => InService(obj)

UserStep ==
  (\E s \in Specs : Create(s) \/ Change(s)) \/ Delete \/ ForeignFinalizer

\* Every user's action is of that kind.
LEMMA UserFacts ==
  ASSUME TypeOK, UserStep
  PROVE  \E o : Edit(o) /\ Tolerable(o)
<1>1. ASSUME NEW s \in Specs, Create(s)
      PROVE  \E o : Edit(o) /\ Tolerable(o)
  <2> DEFINE o == <<[spec |-> s, finalizers |-> {}, deleting |-> FALSE]>>
  <2>1. o \in Optional(Objects) /\ ~Ours(o)
    BY DEF Optional, Objects, Ours, Finalizers
  <2>2. ~Ours(obj)
    BY <1>1 DEF Create, Ours
  <2>3. Edit(o)
    BY <1>1 DEF Create
  <2> QED BY <2>1, <2>2, <2>3 DEF Tolerable, InService
<1>2. ASSUME NEW s \in Specs, Change(s)
      PROVE  \E o : Edit(o) /\ Tolerable(o)
  <2>1. obj # None /\ obj[1] \in Objects
    BY <1>2, OptionalCases DEF Change, Live, TypeOK
  <2> DEFINE r == [obj[1] EXCEPT !.spec = s]
  <2>2. r \in Objects /\ r.finalizers = obj[1].finalizers /\ r.deleting = obj[1].deleting
    BY <2>1 DEF Objects
  <2>3. Edit(<<r>>)
    BY <1>2 DEF Change
  <2> HIDE DEF r
  <2>4. <<r>> # None /\ <<r>>[1] = r
    BY DEF None
  <2> QED BY <2>1, <2>2, <2>3, <2>4 DEF Tolerable, Optional, InService, Ours, Live
<1>3. ASSUME Delete
      PROVE  \E o : Edit(o) /\ Tolerable(o)
  <2>1. obj # None /\ obj[1] \in Objects
    BY <1>3, OptionalCases DEF Delete, Live, TypeOK
  <2> DEFINE r == [obj[1] EXCEPT !.deleting = TRUE]
  <2>2. r \in Objects /\ r.finalizers = obj[1].finalizers /\ r.deleting
    BY <2>1 DEF Objects
  <2>3. Edit(Settled(r))
    BY <1>3 DEF Delete
  <2> HIDE DEF r
  <2>4. Settled(r) \in Optional(Objects) /\ ~Live(Settled(r))
        /\ (Ours(Settled(r)) <=> FINALIZER \in r.finalizers)
    BY <2>2, SettledFacts
  <2> QED BY <2>1, <2>2, <2>3, <2>4 DEF Tolerable, InService, Ours
<1>4. ASSUME ForeignFinalizer
      PROVE  \E o : Edit(o) /\ Tolerable(o)
  <2>1. obj # None /\ obj[1] \in Objects
    BY <1>4, OptionalCases DEF ForeignFinalizer, Live, TypeOK
  <2>2. CASE Live(obj) /\ Edit(<<[obj[1] EXCEPT !.finalizers = @ \cup {"foreign"}]>>)
    <3> DEFINE r == [obj[1] EXCEPT !.finalizers = @ \cup {"foreign"}]
    <3>1. r \in Objects /\ r.deleting = obj[1].deleting
          /\ (FINALIZER \in r.finalizers <=> FINALIZER \in obj[1].finalizers)
      BY <2>1 DEF Objects, Finalizers, FINALIZER
    <3>2. Edit(<<r>>)
      BY <2>2
    <3> HIDE DEF r
    <3>3. <<r>> # None /\ <<r>>[1] = r
      BY DEF None
    <3> QED BY <2>1, <3>1, <3>2, <3>3 DEF Tolerable, Optional, InService, Ours, Live
  <2>3. CASE Edit(Settled([obj[1] EXCEPT !.finalizers = @ \ {"foreign"}]))
    <3> DEFINE r == [obj[1] EXCEPT !.finalizers = @ \ {"foreign"}]
    <3>1. r \in Objects /\ r.deleting = obj[1].deleting
          /\ (FINALIZER \in r.finalizers <=> FINALIZER \in obj[1].finalizers)
      BY <2>1 DEF Objects, Finalizers, FINALIZER
    <3>2. Edit(Settled(r))
      BY <2>3
    <3> HIDE DEF r
    <3>3. Settled(r) \in Optional(Objects) /\ (Live(Settled(r)) <=> ~r.deleting)
          /\ (Ours(Settled(r)) <=> FINALIZER \in r.finalizers)
      BY <3>1, SettledFacts
    <3> QED BY <2>1, <3>1, <3>2, <3>3 DEF Tolerable, InService, Ours, Live
  <2> QED BY <1>4, <2>2, <2>3 DEF ForeignFinalizer
<1> QED BY <1>1, <1>2, <1>3, <1>4 DEF UserStep

-----------------------------------------------------------------------------
\* Types.

\* Every step keeps the types.
LEMMA TypeStep ==
  ASSUME IInv, [Next]_vars
  PROVE  TypeOK'
<1> USE DEF IInv
<1>1. CASE Deliver
  <2>1. stream \in Seq(Optional(Objects)) /\ stream # <<>> /\ Len(stream) \in Nat
    BY <1>1 DEF Deliver, TypeOK
  <2>2. Head(stream) \in Optional(Objects) /\ Tail(stream) \in Seq(Optional(Objects))
        /\ Len(Tail(stream)) = Len(stream) - 1
    BY <2>1
  <2>3. due' \in BOOLEAN
    BY <1>1 DEF Deliver
  <2>4. MaxLag \in Nat /\ Len(stream) <= MaxLag
    BY CrdAssumption DEF TypeOK
  <2> QED BY <1>1, <2>1, <2>2, <2>3, <2>4 DEF Deliver, TypeOK, registry
<1>2. CASE Begin
  BY <1>2 DEF Begin, TypeOK, registry
<1>3. CASE RemoveLeaf
  <2>1. None \in Optional(Entries)
    BY DEF Optional
  <2> QED BY <1>3, <2>1, DetachedType DEF RemoveLeaf, TypeOK
<1>4. CASE StripFinalizer
  <2>1. StripList \in SUBSET Finalizers
    BY <1>4, SnapFacts DEF StripFinalizer, InStep, Leaving, Ours
  <2> QED BY <1>4, <2>1, PatchType DEF StripFinalizer, TypeOK, registry
<1>5. CASE AwaitOthers
  BY <1>5 DEF AwaitOthers, End, TypeOK, registry, Optional
<1>6. CASE MarkFinalizer
  <2>1. MarkList \in SUBSET Finalizers
    BY <1>6, SnapFacts DEF MarkFinalizer, Live
  <2> QED BY <1>6, <2>1, PatchType DEF MarkFinalizer, TypeOK, registry
<1>7. CASE InvalidTransport
  BY <1>7 DEF InvalidTransport, End, TypeOK, registry, Optional, error_policy
<1>8. ASSUME NEW t \in Tasks, AddLeaf(t)
      PROVE  TypeOK'
  <2>1. leaf' \in Optional(Entries)
    BY <1>8, SnapFacts DEF AddLeaf, Live, Optional, Entries, Objects
  <2>2. task' \in [Tasks -> [at : {"none", "greet", "report"}, current : BOOLEAN, ok : BOOLEAN]]
    BY <1>8, DetachedType DEF AddLeaf
  <2> QED BY <1>8, <2>1, <2>2 DEF AddLeaf, End, TypeOK, Optional, resync
<1>9. ASSUME NEW t \in Tasks, Greet(t)
      PROVE  TypeOK'
  <2>1. task' \in [Tasks -> [at : {"none", "greet", "report"}, current : BOOLEAN, ok : BOOLEAN]]
    BY <1>9 DEF Greet, TypeOK
  <2>2. leaf' \in Optional(Entries)
    <3>1. CASE task[t].current
      <4>1. leaf[1] \in Entries
        BY <1>9, <3>1, OptionalCases DEF Greet, InStep, TypeOK
      <4> QED BY <1>9, <3>1, <4>1 DEF Greet, Optional, Entries
    <3>2. CASE ~task[t].current
      BY <1>9, <3>2 DEF Greet, TypeOK
    <3> QED BY <3>1, <3>2
  <2> QED BY <1>9, <2>1, <2>2 DEF Greet, TypeOK, controller
<1>10. ASSUME NEW t \in Tasks, Report(t)
       PROVE  TypeOK'
  <2>1. task' \in [Tasks -> [at : {"none", "greet", "report"}, current : BOOLEAN, ok : BOOLEAN]]
    BY <1>10 DEF Report, TypeOK, NoTask
  <2>2. stream' \in Seq(Optional(Objects)) /\ Len(stream') <= MaxLag
    <3>1. stream' = stream \/ (Len(stream) < MaxLag /\ stream' = Append(stream, obj))
      BY <1>10 DEF Report
    <3>2. /\ stream \in Seq(Optional(Objects)) /\ Len(stream) <= MaxLag
          /\ obj \in Optional(Objects) /\ MaxLag \in Nat
      BY CrdAssumption DEF TypeOK
    <3>3. CASE stream' = stream
      BY <3>2, <3>3
    <3>4. CASE Len(stream) < MaxLag /\ stream' = Append(stream, obj)
      BY <3>2, <3>4
    <3> QED BY <3>1, <3>3, <3>4
  <2>3. status' \in {"none", "Healthy", "Unhealthy"}
    BY <1>10 DEF Report, TypeOK
  <2>4. budget' = budget \/ (budget.faults > 0 /\ budget' = [budget EXCEPT !.faults = @ - 1])
    BY <1>10 DEF Report
  <2>5. budget' \in [edits : 0..MaxEdits, faults : 0..MaxFaults,
                     prunes : 0..MaxPrunes, restarts : 0..MaxRestarts]
    BY <2>4, CrdAssumption DEF TypeOK
  <2> QED BY <1>10, <2>1, <2>2, <2>3, <2>5 DEF Report, TypeOK
<1>11. CASE UserStep
  BY <1>11, UserFacts, EditType DEF Tolerable
<1>12. CASE Prune
  <2>1. budget' \in [edits : 0..MaxEdits, faults : 0..MaxFaults,
                     prunes : 0..MaxPrunes, restarts : 0..MaxRestarts]
    BY <1>12, CrdAssumption DEF Prune, TypeOK
  <2>2. leaf' \in Optional(Entries)
    BY <1>12 DEF Prune, Optional
  <2> QED BY <1>12, <2>1, <2>2, DetachedType DEF Prune, TypeOK, controller
<1>13. CASE LeafTurns
  BY <1>13 DEF LeafTurns, TypeOK, controller, registry
<1>14. CASE Restart
  BY <1>14, CrdAssumption DEF Restart, TypeOK, Optional, NoTask
<1>15. CASE UNCHANGED vars
  BY <1>15 DEF vars, controller, registry, TypeOK
<1> QED
  BY <1>1, <1>2, <1>3, <1>4, <1>5, <1>6, <1>7, <1>8, <1>9, <1>10, <1>11, <1>12, <1>13,
     <1>14, <1>15
     DEF Next, ReconcileStep, TaskStep, UserStep

-----------------------------------------------------------------------------
\* The inductive invariant.

\* What users do, and a status that is written, disturb nothing.
LEMMA CommitByUser ==
  ASSUME IInv, NEW o, Tolerable(o), Commit(o),
         UNCHANGED <<store, rec, snap, leaf, task, watching>>
  PROVE  NoOrphan' /\ InStep'
<1>1. NoOrphan'
  BY CommitCases DEF IInv, NoOrphan, Tolerable, Ours
<1>2. CASE watching
  <2> DEFINE n == Len(stream) + 1
  <2>1. Extends(Versions, Versions', n) /\ Versions'[n + 1] = o /\ Len(stream') + 1 = n + 1
        /\ obj' = o
    <3>1. Len(stream) \in Nat
      BY DEF IInv, TypeOK
    <3> QED BY <1>2, <3>1, CommitCases DEF IInv
  <2>2. Versions[n] = obj
    BY <1>2 DEF IInv, InStep
  <2>3. /\ Ordered(Versions) => Ordered(Versions')
        /\ Cleaning(Versions) => Cleaning(Versions')
        /\ Marking(Versions) => Marking(Versions')
    <3>1. Ours(Versions'[n + 1]) <=> Ours(Versions[n])
      BY <2>1, <2>2 DEF Tolerable
    <3>2. InService(Versions'[n + 1]) => InService(Versions[n])
      BY <2>1, <2>2 DEF Tolerable
    <3> HIDE DEF n
    <3> QED BY <2>1, <3>1, <3>2, ExtendByUser
  <2>4. InService(snap) /\ rec = "begin" => Ours(obj)'
    BY <2>1 DEF IInv, InStep, Tolerable, Ours
  <2> QED
    BY <1>1, <1>2, <2>1, <2>3, <2>4 DEF IInv, InStep
<1>3. CASE ~watching
  <2>1. Versions' = Versions /\ obj' = o
    BY <1>3, CommitCases DEF IInv
  <2>2. InService(snap) /\ rec = "begin" => Ours(obj)'
    BY <2>1 DEF IInv, InStep, Tolerable, Ours
  <2> QED BY <1>1, <1>3, <2>1, <2>2 DEF IInv, InStep
<1> QED BY <1>1, <1>2, <1>3

\* Steps that leave the object and what is known of it alone.
LEMMA SameVersions ==
  ASSUME UNCHANGED <<obj, store, stream, watching>>
  PROVE  /\ Versions' = Versions
         /\ Ordered(Versions)' <=> Ordered(Versions)
         /\ Cleaning(Versions)' <=> Cleaning(Versions)
         /\ Marking(Versions)' <=> Marking(Versions)
         /\ Ours(obj)' <=> Ours(obj)
<1>1. Versions' = Versions
  BY DEF Versions
<1> QED BY <1>1 DEF Ordered, Cleaning, Marking, Ours

\* The store takes an event: a version is forgotten.
LEMMA DeliverStep ==
  ASSUME IInv, Deliver
  PROVE  NoOrphan' /\ InStep'
<1> DEFINE n == Len(stream)
<1>1. /\ n \in Nat \ {0}
      /\ DOMAIN Versions = 1..(n + 1)
      /\ DOMAIN Versions' = 1..n
      /\ \A i \in 1..n : Versions'[i] = Versions[i + 1]
      /\ Len(stream') = n - 1
  BY VersionsShrink DEF IInv, Deliver
<1>2. UNCHANGED <<obj, rec, snap, leaf, task, watching>>
  BY DEF Deliver, registry
<1>3. watching => Versions'[Len(stream') + 1] = obj
  <2>1. n \in 1..n /\ Len(stream') + 1 = n
    BY <1>1
  <2>2. Versions'[n] = Versions[n + 1]
    BY <1>1, <2>1
  <2> QED BY <2>1, <2>2 DEF IInv, InStep
<1> HIDE DEF n
<1>4. /\ Ordered(Versions) => Ordered(Versions')
      /\ Cleaning(Versions) => Cleaning(Versions')
      /\ Marking(Versions) => Marking(Versions')
  BY <1>1, Forget
<1>5. Ours(obj)' <=> Ours(obj)
  BY <1>2 DEF Ours
<1> QED BY <1>2, <1>3, <1>4, <1>5 DEF IInv, NoOrphan, InStep

\* A reconcile begins with the oldest version: what the order of the versions
\* says of its successors holds until the reconcile is over.
LEMMA BeginStep ==
  ASSUME IInv, Begin
  PROVE  NoOrphan' /\ InStep'
<1>1. UNCHANGED <<obj, store, stream, leaf, task, watching>> /\ rec = "idle" /\ watching
  BY DEF Begin, registry
<1>2. CASE store = None
  BY <1>1, <1>2, SameVersions DEF Begin, IInv, NoOrphan, InStep
<1>3. CASE store # None
  <2> DEFINE n == Len(stream) + 1
  <2>1. n \in Nat \ {0} /\ DOMAIN Versions = 1..n /\ Versions[1] = store /\ Versions[n] = obj
    BY <1>1 DEF IInv, InStep, TypeOK, Versions
  <2>2. Ordered(Versions)
    BY DEF IInv, InStep
  <2>3. rec' = "begin" /\ snap' = store
    BY <1>3 DEF Begin
  <2> HIDE DEF n
  <2>4. InService(store) => Ours(obj)
    BY <2>1, <2>2 DEF Ordered
  <2>5. Leaving(store) => Cleaning(Versions)
    BY <2>1, <2>2 DEF Ordered, Cleaning, Leaving, InService
  <2>6. Live(store) /\ ~Ours(store) => Marking(Versions)
    BY <2>1, <2>2 DEF Ordered, Marking, Leaving
  <2> QED
    BY <1>1, <1>3, <2>3, <2>4, <2>5, <2>6, SameVersions DEF IInv, NoOrphan, InStep
<1> QED BY <1>2, <1>3

\* The leaf goes.
LEMMA RemoveLeafStep ==
  ASSUME IInv, RemoveLeaf
  PROVE  NoOrphan' /\ InStep'
<1>1. UNCHANGED <<obj, store, stream, snap, watching>>
  BY DEF RemoveLeaf
<1>2. leaf' = None /\ rec' = "strip" /\ \A t \in Tasks : ~task'[t].current
  BY DetachedType DEF IInv, RemoveLeaf
<1>3. Leaving(snap) /\ Cleaning(Versions)
  BY DEF IInv, InStep, RemoveLeaf, Leaving
<1> QED BY <1>1, <1>2, <1>3, SameVersions DEF IInv, NoOrphan, InStep

\* A reconcile that ends without a change of the object.
LEMMA EndStep ==
  ASSUME IInv, UNCHANGED <<obj, store, stream, leaf, task, watching>>, rec' = "idle"
  PROVE  NoOrphan' /\ InStep'
BY SameVersions DEF IInv, NoOrphan, InStep

\* Our finalizer goes.
LEMMA StripStep ==
  ASSUME IInv, StripFinalizer
  PROVE  NoOrphan' /\ InStep'
<1>1. UNCHANGED <<store, leaf, task, watching>> /\ rec = "strip"
  BY DEF StripFinalizer, registry
<1>2. leaf = None /\ snap # None /\ Cleaning(Versions) /\ Ordered(Versions)
  BY <1>1 DEF IInv, InStep, Leaving, Ours
<1>3. Patch(StripList, FALSE)
  BY DEF StripFinalizer
<1>4. rec' = "idle"
  BY <1>3, PatchCases
<1>5. CASE UNCHANGED <<obj, status, stream>>
  BY <1>1, <1>4, <1>5, EndStep
<1>6. CASE Accepts(StripList) /\ Commit(Patched(StripList))
  <2>1. ~Ours(Patched(StripList))
    BY <1>2, <1>6, SnapFacts, PatchedFacts DEF IInv
  <2>2. CASE watching
    <3> DEFINE n == Len(stream) + 1
    <3>1. Extends(Versions, Versions', n) /\ Versions'[n + 1] = obj' /\ Len(stream') + 1 = n + 1
          /\ obj' = Patched(StripList)
      <4>1. Len(stream) \in Nat
        BY DEF IInv, TypeOK
      <4> QED BY <1>1, <1>6, <2>2, <4>1, CommitCases DEF IInv
    <3> HIDE DEF n
    <3>2. Ordered(Versions')
      BY <1>2, <2>1, <3>1, ExtendByStrip
    <3> QED BY <1>1, <1>2, <1>4, <3>1, <3>2 DEF IInv, NoOrphan, InStep
  <2>3. CASE ~watching
    <3>1. Versions' = Versions
      BY <1>1, <1>6, <2>3, CommitCases DEF IInv
    <3> QED BY <1>1, <1>2, <1>4, <2>3, <3>1 DEF IInv, NoOrphan, InStep
  <2> QED BY <2>2, <2>3
<1> QED BY <1>3, <1>5, <1>6, PatchCases

\* Our finalizer is set.
LEMMA MarkStep ==
  ASSUME IInv, MarkFinalizer
  PROVE  NoOrphan' /\ InStep'
<1>1. UNCHANGED <<store, leaf, task, watching>> /\ rec = "begin" /\ Live(snap) /\ ~Ours(snap)
  BY DEF MarkFinalizer, registry
<1>2. snap # None /\ Marking(Versions) /\ Ordered(Versions)
  BY <1>1 DEF IInv, InStep
<1>3. Patch(MarkList, TRUE)
  BY DEF MarkFinalizer
<1>4. rec' = "idle"
  BY <1>3, PatchCases
<1>5. CASE UNCHANGED <<obj, status, stream>>
  BY <1>1, <1>4, <1>5, EndStep
<1>6. CASE Accepts(MarkList) /\ Commit(Patched(MarkList))
  <2>1. Ours(Patched(MarkList)) /\ (Live(Patched(MarkList)) <=> Live(obj))
    BY <1>2, <1>6, SnapFacts, PatchedFacts DEF IInv
  <2>2. CASE watching
    <3> DEFINE n == Len(stream) + 1
    <3>1. Extends(Versions, Versions', n) /\ Versions'[n + 1] = obj' /\ Len(stream') + 1 = n + 1
          /\ obj' = Patched(MarkList)
      <4>1. Len(stream) \in Nat
        BY DEF IInv, TypeOK
      <4> QED BY <1>1, <1>6, <2>2, <4>1, CommitCases DEF IInv
    <3>2. Versions[n] = obj
      BY <2>2 DEF IInv, InStep
    <3> HIDE DEF n
    <3>3. Ordered(Versions')
      BY <1>2, <2>1, <3>1, <3>2, ExtendByMark DEF Leaving
    <3>4. Ours(obj)'
      BY <2>1, <3>1 DEF Ours
    <3> QED BY <1>1, <1>4, <3>1, <3>3, <3>4 DEF IInv, NoOrphan, InStep
  <2>3. CASE ~watching
    <3>1. Versions' = Versions /\ obj' = Patched(MarkList)
      BY <1>1, <1>6, <2>3, CommitCases DEF IInv
    <3>2. Ours(obj)'
      BY <2>1, <3>1 DEF Ours
    <3> QED BY <1>1, <1>4, <2>3, <3>1, <3>2 DEF IInv, NoOrphan, InStep
  <2> QED BY <2>2, <2>3
<1> QED BY <1>3, <1>5, <1>6, PatchCases

\* A leaf is registered: the snapshot says that our finalizer is set, and it still is.
LEMMA AddLeafStep ==
  ASSUME IInv, NEW t \in Tasks, AddLeaf(t)
  PROVE  NoOrphan' /\ InStep'
<1>1. UNCHANGED <<obj, store, stream, watching>> /\ rec' = "idle"
  BY DEF AddLeaf, End
<1>2. Ours(obj)
  BY DEF AddLeaf, IInv, InStep, InService
<1>3. leaf' # None
  BY DEF AddLeaf, None
<1> QED BY <1>1, <1>2, <1>3, SameVersions DEF IInv, NoOrphan, InStep

\* A greeting, or a status that is written.
LEMMA GreetStep ==
  ASSUME IInv, NEW t \in Tasks, Greet(t)
  PROVE  NoOrphan' /\ InStep'
<1>1. UNCHANGED <<obj, store, stream, rec, snap, watching>>
  BY DEF Greet, controller
<1>2. leaf' # None <=> leaf # None
  BY DEF Greet, IInv, InStep, None
<1>3. \A u \in Tasks : task'[u].at = "greet" /\ task'[u].current => task[u].at = "greet" /\ task[u].current
  BY DEF Greet, IInv, TypeOK
<1>4. leaf' = None <=> leaf = None
  BY <1>2
<1> QED BY <1>1, <1>2, <1>3, <1>4, SameVersions DEF IInv, NoOrphan, InStep

\* A status write adds the object as it is once more, and ends the greeting.
LEMMA ReportStep ==
  ASSUME IInv, NEW t \in Tasks, Report(t)
  PROVE  NoOrphan' /\ InStep'
<1>1. UNCHANGED <<obj, store, rec, snap, leaf, watching>>
  BY DEF Report
<1>2. \A u \in Tasks : task'[u].at = "greet" /\ task'[u].current => task[u].at = "greet" /\ task[u].current
  BY DEF Report, IInv, TypeOK, NoTask
<1>3. CASE UNCHANGED stream
  BY <1>1, <1>2, <1>3, SameVersions DEF IInv, NoOrphan, InStep
<1>4. CASE watching /\ stream' = Append(stream, obj)
  <2> DEFINE n == Len(stream) + 1
  <2>1. Extends(Versions, Versions', n) /\ Versions'[n + 1] = obj /\ Len(stream') + 1 = n + 1
    <3>1. Len(stream) \in Nat
      BY DEF IInv, TypeOK
    <3> QED BY <1>1, <1>4, <3>1, VersionsGrow DEF IInv
  <2>2. Versions[n] = obj
    BY <1>4 DEF IInv, InStep
  <2> HIDE DEF n
  <2>3. /\ Ordered(Versions) => Ordered(Versions')
        /\ Cleaning(Versions) => Cleaning(Versions')
        /\ Marking(Versions) => Marking(Versions')
    BY <2>1, <2>2, ExtendByUser
  <2>4. Ours(obj)' <=> Ours(obj)
    BY <1>1 DEF Ours
  <2> QED BY <1>1, <1>2, <2>1, <2>3, <2>4 DEF IInv, NoOrphan, InStep
<1> QED BY <1>3, <1>4 DEF Report

\* The leaf is dropped by somebody else.
LEMMA PruneStep ==
  ASSUME IInv, Prune
  PROVE  NoOrphan' /\ InStep'
<1>1. UNCHANGED <<obj, store, stream, rec, snap, watching>> /\ leaf' = None
  BY DEF Prune, controller
<1>2. \A t \in Tasks : ~task'[t].current
  BY DetachedType DEF IInv, Prune
<1> QED BY <1>1, <1>2, SameVersions DEF IInv, NoOrphan, InStep

\* After a restart there is one version and nothing is in hand.
LEMMA RestartStep ==
  ASSUME IInv, Restart
  PROVE  NoOrphan' /\ InStep'
<1>1. /\ obj' = obj /\ leaf' = None /\ rec' = "idle" /\ stream' = <<>>
      /\ watching' => store' = obj
      /\ \A t \in Tasks : ~task'[t].current
  BY DEF Restart, NoTask
<1>2. Len(stream') = 0 /\ DOMAIN Versions' = 1..1 /\ Versions'[1] = store'
  BY <1>1 DEF Versions
<1>3. Ordered(Versions')
  BY <1>2 DEF Ordered, Leaving, InService
<1> QED BY <1>1, <1>2, <1>3 DEF NoOrphan, InStep

\* Every step keeps the invariant.
LEMMA InvariantStep ==
  ASSUME IInv, [Next]_vars
  PROVE  IInv'
<1>1. TypeOK'
  BY TypeStep
<1>2. NoOrphan' /\ InStep'
  <2>1. CASE AwaitOthers \/ InvalidTransport
    BY <2>1, EndStep DEF AwaitOthers, InvalidTransport, End, registry
  <2>2. CASE UserStep
    <3>1. PICK o : Edit(o) /\ Tolerable(o)
      BY <2>2, UserFacts DEF IInv
    <3> QED BY <3>1, CommitByUser DEF Edit, registry
  <2>3. CASE LeafTurns \/ UNCHANGED vars
    <3>1. UNCHANGED <<obj, store, stream, rec, snap, leaf, task, watching>>
      BY <2>3 DEF LeafTurns, vars, controller, registry
    <3> QED BY <3>1, SameVersions DEF IInv, NoOrphan, InStep
  <2> QED
    BY <2>1, <2>2, <2>3, DeliverStep, BeginStep, RemoveLeafStep, StripStep, MarkStep,
       AddLeafStep, GreetStep, ReportStep, PruneStep, RestartStep
       DEF Next, ReconcileStep, TaskStep, UserStep
<1> QED BY <1>1, <1>2 DEF IInv

\* The invariant holds when the federation starts.
LEMMA InvariantInit ==
  ASSUME Init
  PROVE  IInv
<1>1. TypeOK
  <2>1. stream \in Seq(Optional(Objects)) /\ Len(stream) = 0
    BY DEF Init
  <2>2. MaxLag \in Nat /\ MaxEdits \in Nat /\ MaxFaults \in Nat /\ MaxPrunes \in Nat
        /\ MaxRestarts \in Nat
    BY CrdAssumption
  <2>3. budget \in [edits : 0..MaxEdits, faults : 0..MaxFaults,
                    prunes : 0..MaxPrunes, restarts : 0..MaxRestarts]
    BY <2>2 DEF Init
  <2>4. task \in [Tasks -> [at : {"none", "greet", "report"}, current : BOOLEAN,
                            ok : BOOLEAN]]
    BY DEF Init, NoTask
  <2>5. Len(stream) <= MaxLag
    BY <2>1, <2>2
  <2> QED BY <2>1, <2>3, <2>4, <2>5 DEF Init, TypeOK, Optional
<1>2. Len(stream) = 0 /\ DOMAIN Versions = 1..1 /\ Versions[1] = None
  BY DEF Init, Versions
<1>3. Ordered(Versions)
  BY <1>2 DEF Ordered, Ours, InService, Leaving
<1> QED BY <1>1, <1>2, <1>3 DEF Init, IInv, NoOrphan, InStep, NoTask

\* crd_discovery.rs:197: what the store lags behind, what is cleaned up and what is
\* marked stay in step with the object, whatever the API server, users, other
\* writers of the registry and restarts do.
THEOREM CrdInvariant == Spec => []IInv
<1>1. Init => IInv
  BY InvariantInit
<1>2. IInv /\ [Next]_vars => IInv'
  BY InvariantStep
<1> QED BY <1>1, <1>2, PTL DEF Spec

\* crd_discovery.rs:99, 224: no leaf is registered for a resource that is gone or
\* does not carry our finalizer.
THEOREM NeverOrphaned == Spec => []NoOrphan
<1>1. IInv => NoOrphan
  BY DEF IInv
<1> QED BY <1>1, CrdInvariant, PTL

-----------------------------------------------------------------------------
\* The timestamps of the status.

\* Years of the conversion begin on 1 March: the first day of a year of an era,
\* and how many days the year has, whose last is the last of February.
YearStart(y) == 365 * y + y \div 4 - y \div 100
YearLength(y) == IF IsLeap(y + 1) THEN 366 ELSE 365

\* The month of a day of such a year, counted from March, and the day of the month.
MarchMonth(doy) == (5 * doy + 2) \div 153
DayOfMonth(doy) == doy - (153 * MarchMonth(doy) + 2) \div 5 + 1

\* The days of a month counted from March, but for February.
MarchDays(mp) == IF mp \in {1, 3, 6, 8} THEN 30 ELSE 31

\* A date in the calendar's terms.
MonthOf(mp) == IF mp < 10 THEN mp + 3 ELSE mp - 9
MarchDate(y, mp, day) ==
  [year |-> IF mp >= 10 THEN y + 1 ELSE y, month |-> MonthOf(mp), day |-> day]

\* year_of_era finds the year a day of the era lies in ...
LEMMA YearOfEra ==
  ASSUME NEW doe \in Nat, doe < 146097, NEW yoe \in Int, yoe = year_of_era(doe)
  PROVE  /\ yoe >= 0 /\ yoe < 400
         /\ YearStart(yoe) <= doe
         /\ doe - YearStart(yoe) < YearLength(yoe)
  BY SMT DEF year_of_era, YearStart, YearLength, IsLeap

\* ... and no other year: it is the inverse of counting days from the year's first.
LEMMA YearOfDay ==
  ASSUME NEW yoe \in Nat, yoe < 400, NEW doy \in Nat, doy < YearLength(yoe)
  PROVE  year_of_era(YearStart(yoe) + doy) = yoe
  BY SMT DEF year_of_era, YearStart, YearLength, IsLeap

\* A year begins where the one before it ends, and the last ends the era.
LEMMA NextYearStart ==
  ASSUME NEW yoe \in Nat, yoe < 400
  PROVE  IF yoe = 399 THEN YearStart(yoe) + YearLength(yoe) = 146097
         ELSE YearStart(yoe) + YearLength(yoe) = YearStart(yoe + 1)
  BY SMT DEF YearStart, YearLength, IsLeap

\* A day of the era is a day of a year.
LEMMA YearParts ==
  ASSUME NEW doe \in Nat, doe < 146097
  PROVE  \E yoe, doy \in Nat :
           /\ yoe < 400 /\ doy < YearLength(yoe)
           /\ doe = YearStart(yoe) + doy
  <1>1. year_of_era(doe) \in Int
    BY SMT DEF year_of_era
  <1>2. PICK yoe \in Int : yoe = year_of_era(doe)
    BY <1>1
  <1>3. yoe \in Nat /\ yoe < 400 /\ YearStart(yoe) <= doe /\ doe - YearStart(yoe) < YearLength(yoe)
    BY <1>2, YearOfEra, SMT
  <1>4. YearStart(yoe) \in Int
    BY SMT DEF YearStart
  <1>5. PICK doy \in Nat : doy = doe - YearStart(yoe)
    BY <1>3, <1>4, SMT
  <1> QED
    BY <1>3, <1>4, <1>5, SMT

\* The Gregorian rule repeats every 400 years, and so does the length of a year.
LEMMA LeapRepeats ==
  ASSUME NEW y \in Int, NEW q \in Nat
  PROVE  IsLeap(y + 400 * q) <=> IsLeap(y)
  BY SMT DEF IsLeap

LEMMA YearLengthRepeats ==
  ASSUME NEW yoe \in Nat, NEW era \in Nat
  PROVE  YearLength(yoe + era * 400) = YearLength(yoe)
  <1>1. (yoe + era * 400) + 1 = (yoe + 1) + 400 * era /\ yoe + 1 \in Int
    BY SMT
  <1>2. IsLeap((yoe + 1) + 400 * era) <=> IsLeap(yoe + 1)
    BY <1>1, LeapRepeats, SMT
  <1> QED
    BY <1>1, <1>2, SMT DEF YearLength

\* (5 * doy + 2) / 153 cuts a year into months of 31 and 30 days, the last one open.
LEMMA MonthFacts ==
  ASSUME NEW doy \in Nat, doy < 366
  PROVE  /\ MarchMonth(doy) \in Nat /\ MarchMonth(doy) < 12
         /\ DayOfMonth(doy) >= 1
         /\ MarchMonth(doy) # 11 => DayOfMonth(doy) <= MarchDays(MarchMonth(doy))
  BY SMT DEF MarchMonth, DayOfMonth, MarchDays

\* The day after, in months counted from March.
LEMMA NextDayOfMonth ==
  ASSUME NEW doy \in Nat, doy + 1 < 366
  PROVE  IF MarchMonth(doy) # 11 /\ DayOfMonth(doy) = MarchDays(MarchMonth(doy))
         THEN MarchMonth(doy + 1) = MarchMonth(doy) + 1 /\ DayOfMonth(doy + 1) = 1
         ELSE MarchMonth(doy + 1) = MarchMonth(doy) /\ DayOfMonth(doy + 1) = DayOfMonth(doy) + 1
  BY SMT DEF MarchMonth, DayOfMonth, MarchDays

\* date_in_era, in terms of the operators above.
LEMMA DateParts ==
  ASSUME NEW era \in Int, NEW doe \in Int,
         NEW yoe \in Int, yoe = year_of_era(doe),
         NEW doy \in Nat, doy < 366, doy = doe - (365 * yoe + yoe \div 4 - yoe \div 100)
  PROVE  date_in_era(era, doe) = MarchDate(yoe + era * 400, MarchMonth(doy), DayOfMonth(doy))
  <1>1. PICK mp \in Int : mp = (5 * doy + 2) \div 153
    BY SMT
  <1>2. PICK day \in Int : day = doy - (153 * mp + 2) \div 5 + 1
    BY SMT
  <1>3. PICK month \in Int : month = IF mp < 10 THEN mp + 3 ELSE mp - 9
    BY SMT
  <1>4. date_in_era(era, doe) =
          [year |-> IF month <= 2 THEN yoe + era * 400 + 1 ELSE yoe + era * 400,
           month |-> month, day |-> day]
    BY <1>1, <1>2, <1>3, SMT DEF date_in_era
  <1>5. mp = MarchMonth(doy) /\ day = DayOfMonth(doy) /\ month = MonthOf(mp)
    BY <1>1, <1>2, <1>3, SMT DEF MarchMonth, DayOfMonth, MonthOf
  <1>6. month <= 2 <=> mp >= 10
    BY <1>1, <1>3, SMT
  <1> QED
    BY <1>4, <1>5, <1>6, SMT DEF MarchDate

LEMMA DateOfDay ==
  ASSUME NEW era \in Int, NEW yoe \in Nat, yoe < 400,
         NEW doy \in Nat, doy < YearLength(yoe),
         NEW doe \in Nat, doe = YearStart(yoe) + doy
  PROVE  date_in_era(era, doe) = MarchDate(yoe + era * 400, MarchMonth(doy), DayOfMonth(doy))
  <1>1. year_of_era(doe) = yoe
    BY YearOfDay, SMT
  <1>2. doy = doe - (365 * yoe + yoe \div 4 - yoe \div 100)
    BY SMT DEF YearStart
  <1>3. doy < 366
    BY SMT DEF YearLength
  <1> QED
    BY <1>1, <1>2, <1>3, DateParts, SMT

\* Months counted from March have the days the calendar gives them ...
LEMMA MarchDaysIn ==
  ASSUME NEW y \in Nat, NEW mp \in Nat, mp < 12
  PROVE  DaysIn(IF mp >= 10 THEN y + 1 ELSE y, MonthOf(mp)) =
           IF mp = 11 THEN YearLength(y) - 337 ELSE MarchDays(mp)
  BY SMT DEF DaysIn, MonthOf, YearLength, MarchDays

\* ... so this is the day after a date.
LEMMA NextMarchDate ==
  ASSUME NEW y \in Nat, NEW mp \in Nat, mp < 12, NEW day \in Int,
         NEW last \in Int, last = IF mp = 11 THEN YearLength(y) - 337 ELSE MarchDays(mp)
  PROVE  DayAfter(MarchDate(y, mp, day)) =
           IF day < last THEN MarchDate(y, mp, day + 1)
           ELSE IF mp < 11 THEN MarchDate(y, mp + 1, 1)
           ELSE MarchDate(y + 1, 0, 1)
  <1> DEFINE d == MarchDate(y, mp, day)
  <1>1. /\ d.year = IF mp >= 10 THEN y + 1 ELSE y
        /\ d.month = MonthOf(mp) /\ d.day = day
    BY SMT DEF MarchDate
  <1>2. DaysIn(d.year, d.month) = last
    BY <1>1, MarchDaysIn, SMT
  <1>3. DayAfter(d) =
          IF day < last THEN [year |-> d.year, month |-> d.month, day |-> day + 1]
          ELSE IF d.month < 12 THEN [year |-> d.year, month |-> d.month + 1, day |-> 1]
          ELSE [year |-> d.year + 1, month |-> 1, day |-> 1]
    BY <1>1, <1>2, SMT DEF DayAfter
  <1> HIDE DEF d
  <1>4. DayAfter(d) =
          IF day < last THEN MarchDate(y, mp, day + 1)
          ELSE IF mp < 11 THEN MarchDate(y, mp + 1, 1)
          ELSE MarchDate(y + 1, 0, 1)
    BY <1>1, <1>3, SMT DEF MarchDate, MonthOf
  <1> QED
    BY <1>4 DEF d

\* Within a year that begins on 1 March.
LEMMA FollowsInYear ==
  ASSUME NEW y \in Nat, NEW doy \in Nat, doy + 1 < YearLength(y)
  PROVE  DayAfter(MarchDate(y, MarchMonth(doy), DayOfMonth(doy))) =
           MarchDate(y, MarchMonth(doy + 1), DayOfMonth(doy + 1))
  <1>1. YearLength(y) \in Nat /\ YearLength(y) <= 366
    BY SMT DEF YearLength
  <1>2. doy + 1 < 366 /\ doy < 366
    BY <1>1, SMT
  <1>3. PICK mp \in Nat : mp = MarchMonth(doy) /\ mp < 12
    BY <1>2, MonthFacts, SMT
  <1>4. DayOfMonth(doy) \in Int
    BY SMT DEF DayOfMonth, MarchMonth
  <1>5. PICK day \in Int : day = DayOfMonth(doy)
    BY <1>4
  <1>6. PICK last \in Int : last = IF mp = 11 THEN YearLength(y) - 337 ELSE MarchDays(mp)
    BY <1>1, SMT DEF MarchDays
  <1>7. DayAfter(MarchDate(y, mp, day)) =
           IF day < last THEN MarchDate(y, mp, day + 1)
           ELSE IF mp < 11 THEN MarchDate(y, mp + 1, 1)
           ELSE MarchDate(y + 1, 0, 1)
    BY <1>3, <1>6, NextMarchDate, SMT
  <1>8. mp = 11 => day < last
    <2>1. mp = 11 => day = doy - 336
      BY <1>3, <1>5, SMT DEF DayOfMonth
    <2>2. mp = 11 => last = YearLength(y) - 337
      BY <1>6
    <2> QED
      BY <1>1, <2>1, <2>2, SMT
  <1>9. mp # 11 => day <= last /\ last = MarchDays(mp)
    BY <1>2, <1>3, <1>5, <1>6, MonthFacts, SMT
  <1>10. IF mp # 11 /\ day = MarchDays(mp)
         THEN MarchMonth(doy + 1) = mp + 1 /\ DayOfMonth(doy + 1) = 1
         ELSE MarchMonth(doy + 1) = mp /\ DayOfMonth(doy + 1) = day + 1
    BY <1>2, <1>3, <1>5, NextDayOfMonth, SMT
  <1> QED
    BY <1>3, <1>5, <1>7, <1>8, <1>9, <1>10, SMT

\* From the last of February to 1 March.
LEMMA FollowsOverYear ==
  ASSUME NEW y \in Nat, NEW doy \in Nat, doy + 1 = YearLength(y)
  PROVE  DayAfter(MarchDate(y, MarchMonth(doy), DayOfMonth(doy))) =
           MarchDate(y + 1, MarchMonth(0), DayOfMonth(0))
  <1>1. doy \in {364, 365}
    BY SMT DEF YearLength
  <1>2. MarchMonth(doy) = 11 /\ DayOfMonth(doy) = YearLength(y) - 337
    BY <1>1, SMT DEF MarchMonth, DayOfMonth
  <1>3. MarchMonth(0) = 0 /\ DayOfMonth(0) = 1
    BY SMT DEF MarchMonth, DayOfMonth
  <1>4. PICK last \in Int : last = YearLength(y) - 337
    BY SMT DEF YearLength
  <1>5. DayAfter(MarchDate(y, 11, last)) = MarchDate(y + 1, 0, 1)
    BY <1>4, NextMarchDate, SMT
  <1> QED
    BY <1>2, <1>3, <1>4, <1>5, SMT

\* Within an era, and from the last day of an era to the first of the next.
LEMMA DateFollows ==
  ASSUME NEW era \in Nat, NEW doe \in Nat, doe < 146097
  PROVE  DayAfter(date_in_era(era, doe)) =
           IF doe = 146096 THEN date_in_era(era + 1, 0) ELSE date_in_era(era, doe + 1)
  <1>1. PICK yoe \in Nat, doy \in Nat :
          yoe < 400 /\ doy < YearLength(yoe) /\ doe = YearStart(yoe) + doy
    BY YearParts, SMT
  <1>2. PICK y \in Nat : y = yoe + era * 400
    BY SMT
  <1>3. YearLength(y) = YearLength(yoe)
    BY <1>2, YearLengthRepeats, SMT
  <1>4. date_in_era(era, doe) = MarchDate(y, MarchMonth(doy), DayOfMonth(doy))
    BY <1>1, <1>2, DateOfDay, SMT
  <1>5. YearLength(yoe) \in Nat /\ YearStart(yoe) \in Nat
    BY SMT DEF YearLength, YearStart
  <1>6. YearStart(0) = 0 /\ YearLength(0) \in Nat /\ 0 < YearLength(0)
    BY SMT DEF YearStart, YearLength
  <1>7. CASE doy + 1 < YearLength(yoe)
    <2>1. doe # 146096
      BY <1>1, <1>5, <1>7, SMT DEF YearStart, YearLength, IsLeap
    <2>2. doy + 1 \in Nat /\ doe + 1 \in Nat /\ doe + 1 = YearStart(yoe) + (doy + 1)
      BY <1>1, <1>5, SMT
    <2>3. date_in_era(era, doe + 1) = MarchDate(y, MarchMonth(doy + 1), DayOfMonth(doy + 1))
      BY <1>1, <1>2, <1>7, <2>2, DateOfDay, SMT
    <2> QED
      BY <1>3, <1>4, <1>7, <2>1, <2>3, FollowsInYear, SMT
  <1>8. CASE doy + 1 = YearLength(yoe)
    <2>1. DayAfter(date_in_era(era, doe)) = MarchDate(y + 1, MarchMonth(0), DayOfMonth(0))
      BY <1>3, <1>4, <1>8, FollowsOverYear, SMT
    <2>2. CASE yoe = 399
      <3>1. doe = 146096
        BY <1>1, <1>5, <1>8, <2>2, NextYearStart, SMT
      <3>2. y + 1 = 0 + (era + 1) * 400 /\ era + 1 \in Int
        BY <1>2, <2>2, SMT
      <3>3. date_in_era(era + 1, 0) = MarchDate(0 + (era + 1) * 400, MarchMonth(0), DayOfMonth(0))
        BY <1>6, <3>2, DateOfDay, SMT
      <3> QED
        BY <2>1, <3>1, <3>2, <3>3, SMT
    <2>3. CASE yoe # 399
      <3>1. doe + 1 = YearStart(yoe + 1) /\ yoe + 1 \in Nat /\ yoe + 1 < 400
        BY <1>1, <1>5, <1>8, <2>3, NextYearStart, SMT
      <3>2. doe # 146096
        BY <1>1, <2>3, <3>1, SMT DEF YearStart
      <3>3. YearLength(yoe + 1) \in Nat /\ 0 < YearLength(yoe + 1) /\ doe + 1 = YearStart(yoe + 1) + 0
        BY <3>1, SMT DEF YearLength
      <3>4. date_in_era(era, doe + 1) =
              MarchDate((yoe + 1) + era * 400, MarchMonth(0), DayOfMonth(0))
        BY <3>1, <3>3, DateOfDay, SMT
      <3>5. y + 1 = (yoe + 1) + era * 400
        BY <1>2, SMT
      <3> QED
        BY <2>1, <3>2, <3>4, <3>5, SMT
    <2> QED
      BY <2>2, <2>3
  <1> QED
    BY <1>1, <1>5, <1>7, <1>8, SMT

\* The day after d has the date after the date of d.
DayFollows(d) == civil_from_days(d + 1) = DayAfter(civil_from_days(d))

\* crd_discovery.rs:171: the arithmetic on eras follows the Gregorian calendar from
\* any day since the epoch to the next.
THEOREM EveryDayFollows ==
  \A d \in Nat : DayFollows(d)
  <1> TAKE d \in Nat
  <1>1. PICK z \in Nat : z = d + 719468
    BY SMT
  <1>2. PICK era \in Nat : era = z \div 146097
    BY SMT
  <1>3. PICK doe \in Nat : doe = z - era * 146097 /\ doe < 146097
    BY <1>2, SMT
  <1>4. civil_from_days(d) = date_in_era(era, doe)
    BY <1>1, <1>2, <1>3, SMT DEF civil_from_days
  <1>5. CASE doe = 146096
    <2>1. (z + 1) \div 146097 = era + 1 /\ (z + 1) - (era + 1) * 146097 = 0
      BY <1>2, <1>3, <1>5, SMT
    <2>2. civil_from_days(d + 1) = date_in_era(era + 1, 0)
      BY <1>1, <2>1, SMT DEF civil_from_days
    <2> QED
      BY <1>3, <1>4, <1>5, <2>2, DateFollows, SMT DEF DayFollows
  <1>6. CASE doe # 146096
    <2>1. (z + 1) \div 146097 = era /\ (z + 1) - era * 146097 = doe + 1
      BY <1>2, <1>3, <1>6, SMT
    <2>2. civil_from_days(d + 1) = date_in_era(era, doe + 1)
      BY <1>1, <2>1, SMT DEF civil_from_days
    <2> QED
      BY <1>3, <1>4, <1>6, <2>2, DateFollows, SMT DEF DayFollows
  <1> QED
    BY <1>5, <1>6

\* The seconds of a day.
LEMMA SecondFollows ==
  ASSUME NEW sod \in Nat, sod < 86400
  PROVE  SecondAfter(time_of_day(sod)) = time_of_day(IF sod = 86399 THEN 0 ELSE sod + 1)
  <1>1. PICK h \in Nat : h = sod \div 3600
    BY SMT
  <1>2. PICK m \in Nat : m = (sod % 3600) \div 60
    BY SMT
  <1>3. PICK s \in Nat : s = sod % 60
    BY SMT
  <1>4. sod = 3600 * h + 60 * m + s /\ h < 24 /\ m < 60 /\ s < 60
    BY <1>1, <1>2, <1>3, SMT
  <1>5. time_of_day(sod) = [hour |-> h, minute |-> m, second |-> s]
    BY <1>1, <1>2, <1>3, SMT DEF time_of_day
  <1>6. SecondAfter([hour |-> h, minute |-> m, second |-> s]) =
          IF s < 59 THEN [hour |-> h, minute |-> m, second |-> s + 1]
          ELSE IF m < 59 THEN [hour |-> h, minute |-> m + 1, second |-> 0]
          ELSE [hour |-> (h + 1) % 24, minute |-> 0, second |-> 0]
    BY SMT DEF SecondAfter
  <1> QED
    BY <1>4, <1>5, <1>6, SMT DEF time_of_day

\* A clock shows what the conversion computes.
ClockRight ==
  input.kind = "clock" =>
    \E days, sod \in Nat :
      sod < 86400 /\ input = Clock(days, sod, civil_from_days(days), time_of_day(sod))

\* crd_discovery.rs:164: the timestamp of a status is the date and the time of day,
\* for as many days and seconds as may pass.
THEOREM TimestampsAreCalendar == PureSpec => []TimestampIsCalendar
<1>1. PureInit => ClockRight
  <2>1. civil_from_days(0) = Epoch
    BY SMT DEF civil_from_days, date_in_era, year_of_era, Epoch
  <2>2. time_of_day(0) = Midnight
    BY SMT DEF time_of_day, Midnight
  <2>3. CASE input = Clock(0, 0, Epoch, Midnight)
    BY <2>1, <2>2, <2>3, SMT DEF ClockRight
  <2>4. CASE \E servers \in Configurations : input = [kind |-> "config", servers |-> servers]
    BY <2>4 DEF ClockRight
  <2>5. CASE \E text \in Texts : input = Unread(text)
    BY <2>5 DEF ClockRight, Unread, Reading
  <2> QED
    BY <2>3, <2>4, <2>5 DEF PureInit
<1>2. ClockRight /\ [PureNext]_input => ClockRight'
  <2> SUFFICES ASSUME ClockRight, PureNext PROVE ClockRight'
    BY DEF ClockRight
  <2>0. CASE ReadCharacter \/ FinishLoop
    <3>1. \E text, at, scan, loop : input' = Reading(text, at, scan, loop)
      BY <2>0, Zenon DEF ReadCharacter, FinishLoop
    <3> QED
      BY <3>1 DEF ClockRight, Reading
  <2> SUFFICES ASSUME NextSecond \/ NextDay PROVE ClockRight'
    BY <2>0, Zenon DEF PureNext
  <2>1. PICK days \in Nat, sod \in Nat :
          sod < 86400 /\ input = Clock(days, sod, civil_from_days(days), time_of_day(sod))
    BY DEF ClockRight, NextSecond, NextDay
  <2>2. /\ input.days = days /\ input.sod = sod
        /\ input.date = civil_from_days(days) /\ input.time = time_of_day(sod)
    BY <2>1 DEF Clock
  <2>3. DayAfter(civil_from_days(days)) = civil_from_days(days + 1) /\ days + 1 \in Nat
    BY EveryDayFollows DEF DayFollows
  <2>4. CASE NextSecond
    <3>1. sod < 86399 /\ sod + 1 \in Nat /\ sod + 1 < 86400
      BY <2>2, <2>4, SMT DEF NextSecond
    <3>2. SecondAfter(time_of_day(sod)) = time_of_day(sod + 1)
      BY <2>1, <3>1, SecondFollows, SMT
    <3> QED
      BY <2>2, <2>4, <3>1, <3>2 DEF NextSecond, ClockRight
  <2>5. CASE NextDay /\ input.days \notin FullDays
    BY <2>1, <2>2, <2>3, <2>5 DEF NextDay, ClockRight
  <2>6. CASE NextDay /\ input.days \in FullDays
    <3>1. sod = 86399
      BY <2>2, <2>6 DEF NextDay
    <3>2. SecondAfter(time_of_day(sod)) = time_of_day(0)
      BY <2>1, <3>1, SecondFollows, SMT
    <3>3. 0 \in Nat /\ 0 < 86400
      BY SMT
    <3> QED
      BY <2>2, <2>3, <2>6, <3>2, <3>3 DEF NextDay, ClockRight
  <2> QED
    BY <2>4, <2>5, <2>6
<1>3. ClockRight => TimestampIsCalendar
  BY DEF ClockRight, TimestampIsCalendar, Clock, rfc3339_from_unix
<1> QED BY <1>1, <1>2, <1>3, PTL DEF PureSpec
=============================================================================
