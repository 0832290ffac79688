-------------------------- MODULE ToolCache_proofs --------------------------
(* What holds of a tool cache however many listings overlap. *)
EXTENDS ToolCache, TLAPS

\* The versions are numbers, and the empty list is older than each of them.
LEMMA VersionsAreNumbers ==
  /\ Versions \subseteq Nat
  /\ Versions \cup {Empty} \subseteq Nat
  /\ 1 \in Versions
BY ToolCacheAssumption DEF Versions, Empty

\* A listing that goes out changes nothing that was written or answered.
LEMMA AskStep ==
  ASSUME IInv, NEW t \in Tasks, Ask(t), UNCHANGED <<version, mode, cache, listed>>,
         in_service' \in BOOLEAN, reader' \in [Readers -> {"idle", "check", "read"}]
  PROVE  IInv'
<1> USE DEF IInv
<1>1. TypeOK'
  BY DEF TypeOK, Ask, cache
<1>2. \A u \in Tasks : task'[u] \in {"written", "answered"} => task'[u] = task[u]
  BY DEF TypeOK, Ask
<1> QED BY <1>1, <1>2 DEF Ask, cache, FreshMeansListed, NothingNewer

\* The answer is the leaf's present list, or an empty one.
LEMMA ServeStep ==
  ASSUME IInv, NEW t \in Tasks, Serve(t)
  PROVE  IInv'
<1> USE DEF IInv
<1>1. list_tools \in Versions \cup {Empty} /\ list_tools <= version
  BY VersionsAreNumbers, ToolCacheAssumption DEF TypeOK, list_tools, Empty, Versions
<1>2. TypeOK'
  BY <1>1 DEF TypeOK, Serve, cache
<1>3. FreshMeansListed'
  BY DEF FreshMeansListed, Serve, cache
<1>4. cached_tools' <= version'
  BY DEF Serve, cache, NothingNewer
<1>5. ASSUME NEW u \in Tasks
      PROVE  /\ answer'[u] <= version'
             /\ task'[u] = "written" => listed'
             /\ task'[u] = "answered" /\ ~passed'[u] =>
                  answer'[u] = Empty \/ cached_tools' <= answer'[u]
  <2>1. CASE u = t
    <3>1. answer'[t] = list_tools /\ task'[t] = "answered" /\ version' = version
          /\ cached_tools' = cached_tools
      BY DEF Serve, TypeOK, cache
    <3>2. list_tools = Empty \/ list_tools = version
      BY DEF list_tools
    <3> QED BY <2>1, <3>1, <3>2, <1>1 DEF NothingNewer
  <2>2. CASE u # t
    BY <2>2 DEF Serve, TypeOK, cache, NothingNewer
  <2> QED BY <2>1, <2>2
<1> QED BY <1>2, <1>3, <1>4, <1>5 DEF NothingNewer

\* A list is written, and whoever holds an answer is overtaken.
LEMMA WriteStep ==
  ASSUME IInv, NEW t \in Tasks, Write(t)
  PROVE  IInv'
<1> USE DEF IInv
<1>1. TypeOK'
  BY DEF TypeOK, Write, Empty
<1>2. FreshMeansListed'
  BY DEF FreshMeansListed, Write
<1>3. cached_tools' <= version'
  BY DEF Write, NothingNewer
<1>4. ASSUME NEW u \in Tasks
      PROVE  /\ answer'[u] <= version'
             /\ task'[u] = "written" => listed'
             /\ ~(task'[u] = "answered" /\ ~passed'[u])
  <2>1. 0 <= version
    BY VersionsAreNumbers DEF TypeOK
  <2>2. answer'[u] <= version'
    BY <2>1 DEF Write, TypeOK, NothingNewer, Empty
  <2> QED BY <2>2 DEF Write, TypeOK
<1> QED BY <1>1, <1>2, <1>3, <1>4 DEF NothingNewer

\* The steps that write neither the list nor an answer.
LEMMA OtherStep ==
  ASSUME IInv,
         \/ \E t \in Tasks : Fail(t) \/ Stamp(t)
         \/ \E r \in Readers : List(r) \/ NoRefresh(r) \/ Read(r)
         \/ GoOut \/ Tick \/ Turn \/ UNCHANGED vars
  PROVE  IInv'
<1> USE DEF IInv
<1>1. UNCHANGED <<version, answer, cached_tools, listed, passed>>
  BY DEF Fail, Stamp, List, NoRefresh, Read, GoOut, Tick, Turn, vars, cache
<1>2. task' \in [Tasks -> {"idle", "asked", "answered", "written"}]
      /\ \A u \in Tasks : task'[u] \in {"written", "answered"} => task'[u] = task[u]
  BY DEF TypeOK, Fail, Stamp, List, NoRefresh, Read, GoOut, Tick, Turn, vars, cache
<1>3. last_tool_refresh' \in {Never} \cup 0..TTL
      /\ (last_tool_refresh' # Never => listed)
  <2>1. CASE Tick
    BY <2>1, ToolCacheAssumption DEF Tick, TypeOK, FreshMeansListed, Never
  <2>2. CASE \E t \in Tasks : Stamp(t)
    BY <2>2, ToolCacheAssumption DEF Stamp, TypeOK, NothingNewer
  <2> QED
    BY <2>1, <2>2
       DEF TypeOK, FreshMeansListed, Fail, List, NoRefresh, Read, GoOut, Turn, vars, cache
<1>4. mode' \in {"ok", "garbled", "down"} /\ in_service' \in BOOLEAN
      /\ reader' \in [Readers -> {"idle", "check", "read"}]
  BY DEF TypeOK, Fail, Stamp, List, NoRefresh, Read, GoOut, Tick, Turn, vars, cache
<1> QED
  BY <1>1, <1>2, <1>3, <1>4 DEF TypeOK, FreshMeansListed, NothingNewer

\* The leaf's list only grows.
LEMMA ChangeStep ==
  ASSUME IInv, Change
  PROVE  IInv'
<1> USE DEF IInv
<1>1. version \in Nat /\ version' = version + 1 /\ version' \in Versions
  BY ToolCacheAssumption DEF Change, TypeOK, Versions
<1>2. TypeOK'
  BY <1>1 DEF Change, TypeOK, cache
<1>3. cached_tools \in Nat /\ \A t \in Tasks : answer[t] \in Nat
  BY VersionsAreNumbers DEF TypeOK
<1> QED BY <1>1, <1>2, <1>3 DEF Change, cache, FreshMeansListed, NothingNewer

\* Every step keeps the invariant.
LEMMA InvariantStep ==
  ASSUME IInv, [Next]_vars
  PROVE  IInv'
<1>1. CASE \E t \in Tasks : Refresh(t)
  BY <1>1, AskStep DEF Refresh, IInv, TypeOK
<1>2. CASE \E t \in Tasks : Recover(t)
  BY <1>2, AskStep DEF Recover, IInv, TypeOK
<1>3. CASE \E r \in Readers, t \in Tasks : SpawnRefresh(r, t)
  <2>1. PICK r \in Readers, t \in Tasks : SpawnRefresh(r, t)
    BY <1>3
  <2>2. reader' \in [Readers -> {"idle", "check", "read"}] /\ in_service' \in BOOLEAN
    BY <2>1 DEF SpawnRefresh, IInv, TypeOK
  <2>3. Ask(t) /\ UNCHANGED <<version, mode, cache, listed>>
    BY <2>1 DEF SpawnRefresh
  <2> QED BY <2>2, <2>3, AskStep
<1> QED
  BY <1>1, <1>2, <1>3, ServeStep, WriteStep, OtherStep, ChangeStep
     DEF Next, ListingStep, ReaderStep

\* An entry starts with an empty list that was never stamped.
LEMMA InvariantInit ==
  ASSUME Init
  PROVE  IInv
<1>1. 1 \in Versions /\ 0 <= 1
  BY VersionsAreNumbers
<1> QED
  BY <1>1 DEF Init, IInv, TypeOK, FreshMeansListed, NothingNewer, Empty, Never

\* aggregator.rs:37, registry.rs:273: with any number of listings in flight and
\* any TTL, an entry counts as fresh only after its tools were listed, and no
\* listing that nobody overtook is about to write an older list.
THEOREM CacheConsistent == Spec => []IInv
<1>1. Init => IInv
  BY InvariantInit
<1>2. IInv /\ [Next]_vars => IInv'
  BY InvariantStep
<1> QED BY <1>1, <1>2, PTL DEF Spec

\* registry.rs:283: the cache goes back to an older list only when a listing that
\* another one overtook is written.
THEOREM NeverRolledBackAlone == Spec => RollbackOnlyWhenOvertaken
<1>1. ASSUME IInv, [Next]_vars, cached_tools' < cached_tools, cached_tools' # Empty
      PROVE  \E t \in Tasks : task[t] = "answered" /\ passed[t] /\ answer[t] = cached_tools'
  <2>1. cached_tools \in Nat /\ cached_tools' # cached_tools
    BY <1>1, VersionsAreNumbers DEF IInv, TypeOK
  <2>2. PICK t \in Tasks : Write(t)
    BY <1>1, <2>1
       DEF Next, vars, cache, ListingStep, Serve, Fail, Stamp, Refresh, Recover, ReaderStep,
           List, NoRefresh, Read, SpawnRefresh, GoOut, Tick, Change, Turn
  <2>3. task[t] = "answered" /\ answer[t] = cached_tools'
    BY <2>2 DEF Write
  <2>4. answer[t] \in Nat
    BY <1>1, VersionsAreNumbers DEF IInv, TypeOK
  <2>5. passed[t]
    <3>1. ~(answer[t] = Empty \/ cached_tools <= answer[t])
      BY <1>1, <2>1, <2>3, <2>4
    <3> QED BY <1>1, <2>2, <2>3, <3>1 DEF IInv, NothingNewer
  <2> QED BY <2>2, <2>3, <2>5
<1>2. IInv /\ [Next]_vars =>
        [cached_tools' < cached_tools /\ cached_tools' # Empty =>
           \E t \in Tasks : task[t] = "answered" /\ passed[t] /\ answer[t] = cached_tools']_vars
  BY <1>1
<1> QED BY <1>2, CacheConsistent, PTL DEF Spec, RollbackOnlyWhenOvertaken
=============================================================================
