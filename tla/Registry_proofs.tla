--------------------------- MODULE Registry_proofs ---------------------------
(***************************************************************************)
(* The invariants of Registry for any set of aliases, any number of REST   *)
(* requests in flight and any configuration files and SRV answers.         *)
(***************************************************************************)
EXTENDS Registry, TLAPS

\* What a member of Desired is: a function on some aliases.
LEMMA DesiredFacts ==
  ASSUME NEW d \in Desired
  PROVE  DOMAIN d \subseteq Aliases /\ \A a \in DOMAIN d : d[a] \in Urls
BY DEF Desired

\* A file or an answer without leaves is one the model considers.
LEMMA NothingDesired == Nothing \in Desired
<1>1. Nothing \in [{} -> Urls]
  BY DEF Nothing
<1>2. [{} -> Urls] \in {[A -> Urls] : A \in SUBSET Aliases}
  OBVIOUS
<1> QED BY <1>1, <1>2 DEF Desired

\* What a DNS answer is: dns- aliases with a url each, never an error.
LEMMA AnswerFacts ==
  ASSUME TypeOK, NEW d \in Answers
  PROVE  d \in Desired /\ DOMAIN d \subseteq DnsAliases
<1> DEFINE A == {r[1] : r \in zone}
<1>1. d \in [A -> Urls] /\ DOMAIN d = A
  BY DEF Answers
<1>2. A \subseteq DnsAliases
  BY DEF TypeOK
<1>3. A \in SUBSET Aliases
  BY <1>2, RegistryAssumption
<1> QED BY <1>1, <1>2, <1>3 DEF Desired

\* A made entry is an entry, never the absence of one.
LEMMA EntriesAreRegistered ==
  \A i \in Nat, s \in Sources, u \in Urls :
    /\ [id |-> i, src |-> s, url |-> u] \in Entry
    /\ [id |-> i, src |-> s, url |-> u] # NoEntry
BY DEF Entry, Sources, NoEntry, None

\* What add_leaf does to the map: one alias gets a fresh entry, the others keep
\* theirs.
AddFacts(a, s, u) ==
  /\ leaves' \in [Aliases -> Entry \cup {NoEntry}]
  /\ next_id' = next_id + 1 /\ next_id' \in Nat \ {0}
  /\ leaves'[a] # NoEntry
  /\ leaves'[a].id = next_id /\ leaves'[a].url = u
  /\ \A b \in Aliases : b # a => leaves'[b] = leaves[b]

\* add_leaf writes one alias, with a fresh entry, and no other.
LEMMA AddLeaf ==
  ASSUME TypeOK, NEW a \in Aliases, NEW s \in Sources, NEW u \in Urls, add_leaf(a, s, u)
  PROVE  AddFacts(a, s, u)
<1> DEFINE e == [id |-> next_id, src |-> s, url |-> u]
<1>1. e \in Entry /\ e # NoEntry
  BY EntriesAreRegistered DEF TypeOK
<1>2. leaves' = [leaves EXCEPT ![a] = e] /\ next_id' = next_id + 1
  BY DEF add_leaf
<1>3. leaves'[a] = e /\ \A b \in Aliases : b # a => leaves'[b] = leaves[b]
  BY <1>2 DEF TypeOK
<1> HIDE DEF e
<1>4. leaves' \in [Aliases -> Entry \cup {NoEntry}]
  BY <1>1, <1>2 DEF TypeOK
<1>5. next_id' = next_id + 1 /\ next_id' \in Nat \ {0}
  BY <1>2 DEF TypeOK
<1>6. e.id = next_id /\ e.url = u
  BY DEF e
<1> QED BY <1>1, <1>3, <1>4, <1>5, <1>6 DEF AddFacts

\* The ids stay in order, and an entry that is younger than some moment before
\* the call is not replaced by an older one.
LEMMA AddLeafIds ==
  ASSUME TypeOK, IdsInOrder, NEW a \in Aliases, NEW s, NEW u, AddFacts(a, s, u)
  PROVE  /\ IdsInOrder'
         /\ \A b \in Aliases, n \in Nat :
              n <= next_id /\ (Registered(b) => leaves[b].id >= n)
                => (leaves'[b] # NoEntry => leaves'[b].id >= n)
<1>1. \A b \in Aliases : leaves[b] # NoEntry => leaves[b].id \in Nat
  BY DEF TypeOK, Entry
<1>2. next_id \in Nat
  BY DEF TypeOK
<1>3. ASSUME NEW b \in Aliases, leaves'[b] # NoEntry PROVE leaves'[b].id < next_id'
  <2>1. CASE b = a
    BY <1>2, <2>1 DEF AddFacts
  <2>2. CASE b # a
    <3>1. leaves'[b] = leaves[b] /\ next_id' = next_id + 1
      BY <2>2 DEF AddFacts
    <3>2. leaves[b].id \in Nat /\ leaves[b].id < next_id
      BY <1>1, <1>3, <3>1 DEF IdsInOrder, Registered
    <3> QED BY <1>2, <3>1, <3>2
  <2> QED BY <2>1, <2>2
<1>4. ASSUME NEW b \in Aliases, NEW n \in Nat, n <= next_id,
             Registered(b) => leaves[b].id >= n, leaves'[b] # NoEntry
      PROVE  leaves'[b].id >= n
  <2>1. CASE b = a
    BY <1>2, <1>4, <2>1 DEF AddFacts
  <2>2. CASE b # a
    BY <1>4, <2>2 DEF AddFacts, Registered
  <2> QED BY <2>1, <2>2
<1> QED BY <1>3, <1>4 DEF IdsInOrder, Registered

\* No REST request, reload or poll loses track of what the others did.
THEOREM RegistryInvariant == Spec => []IInv
<1> USE RegistryAssumption
<1>1. Init => IInv
  <2> SUFFICES ASSUME Init PROVE IInv
    OBVIOUS
  <2>1. TypeOK
    <3>1. PICK d \in Desired : leaves = [a \in Aliases |->
                     IF a \in DOMAIN d THEN [id |-> 1, src |-> "config", url |-> d[a]]
                     ELSE NoEntry]
      BY DEF Init
    <3>2. leaves \in [Aliases -> Entry \cup {NoEntry}]
      BY <3>1, DesiredFacts, EntriesAreRegistered DEF Sources
    <3>3. /\ client \in [Clients -> [pc : {"idle", "add", "get", "panic"},
                                    alias : Aliases \cup {None},
                                    url : Urls \cup {None}, seen : Nat]]
          /\ next_id \in Nat \ {0} /\ budget \in 0..Budget /\ zone \subseteq DnsAliases \X Urls
      BY DEF Init, IdleClient
    <3>4. /\ reload = IdleReload /\ dns = IdleDns /\ touched = [reload |-> {}, dns |-> {}]
      BY DEF Init
    <3> QED BY <3>2, <3>3, <3>4, NothingDesired DEF TypeOK, IdleReload, IdleDns
  <2>2. IdsInOrder
    BY DEF Init, IdsInOrder, Registered
  <2>3. RequestsWellFormed
    BY DEF Init, RequestsWellFormed, IdleClient, IdleDns
  <2>4. NoBlindOverwrite
    BY DEF Init, NoBlindOverwrite, IdleClient, IdleDns
  <2>5. ReloadProgress /\ DnsProgress
    BY DEF Init, ReloadProgress, DnsProgress, IdleReload, IdleDns
  <2> QED BY <2>1, <2>2, <2>3, <2>4, <2>5 DEF IInv
<1>2. IInv /\ [Next]_vars => IInv'
  <2> SUFFICES ASSUME IInv, [Next]_vars PROVE IInv'
    OBVIOUS
  <2> USE DesiredFacts, EntriesAreRegistered, NothingDesired, AnswerFacts DEF IInv, Registered, Sources
  <2>1. ASSUME NEW c \in Clients, NEW a \in Aliases, RegisterConflict(c, a) PROVE IInv'
    <3>1. TypeOK'
      BY <2>1 DEF TypeOK, RegisterConflict, Spend
    <3>2. IdsInOrder'
      BY <2>1 DEF TypeOK, IdsInOrder, RegisterConflict, Spend
    <3>3. RequestsWellFormed'
      BY <2>1 DEF TypeOK, RequestsWellFormed, RegisterConflict, Spend
    <3>4. NoBlindOverwrite'
      BY <2>1 DEF TypeOK, NoBlindOverwrite, RegisterConflict, Spend
    <3>5. ReloadProgress'
      BY <2>1 DEF TypeOK, ReloadProgress, FromFile, RegisterConflict, Spend
    <3>6. DnsProgress'
      BY <2>1 DEF TypeOK, DnsProgress, RegisterConflict, Spend
    <3> QED BY <3>1, <3>2, <3>3, <3>4, <3>5, <3>6 DEF IInv
  <2>2. ASSUME NEW c \in Clients, NEW a \in Aliases, NEW u \in Urls, RegisterCheck(c, a, u) PROVE IInv'
    <3>1. TypeOK'
      BY <2>2 DEF TypeOK, RegisterCheck, Spend
    <3>2. IdsInOrder'
      BY <2>2 DEF TypeOK, IdsInOrder, RegisterCheck, Spend
    <3>3. RequestsWellFormed'
      BY <2>2 DEF TypeOK, RequestsWellFormed, RegisterCheck, Spend
    <3>4. NoBlindOverwrite'
      BY <2>2 DEF TypeOK, NoBlindOverwrite, RegisterCheck, Spend
    <3>5. ReloadProgress'
      BY <2>2 DEF TypeOK, ReloadProgress, FromFile, RegisterCheck, Spend
    <3>6. DnsProgress'
      BY <2>2 DEF TypeOK, DnsProgress, RegisterCheck, Spend
    <3> QED BY <3>1, <3>2, <3>3, <3>4, <3>5, <3>6 DEF IInv
  <2>3. ASSUME NEW c \in Clients, RegisterAdd(c) PROVE IInv'
    <3> DEFINE al == client[c].alias  u == client[c].url
    <3>a. al \in Aliases /\ u \in Urls
      BY <2>3 DEF RegisterAdd, RequestsWellFormed, TypeOK
    <3>b. AddFacts(al, "rest", u)
      BY <2>3, <3>a, AddLeaf DEF RegisterAdd
    <3>1. TypeOK'
      BY <2>3, <3>a, <3>b DEF TypeOK, RegisterAdd, AddFacts, Touch
    <3>2. IdsInOrder'
      BY <3>a, <3>b, AddLeafIds
    <3>3. RequestsWellFormed'
      BY <2>3, <3>a, <3>b DEF TypeOK, RequestsWellFormed, RegisterAdd, AddFacts, Touch
    <3>4. NoBlindOverwrite'
      BY <2>3, <3>a, <3>b, AddLeafIds DEF TypeOK, NoBlindOverwrite, RequestsWellFormed, RegisterAdd
    <3>5. ReloadProgress'
      BY <2>3, <3>a, <3>b DEF TypeOK, ReloadProgress, FromFile, RegisterAdd, AddFacts, Touch
    <3>6. DnsProgress'
      BY <2>3, <3>a, <3>b DEF TypeOK, DnsProgress, RegisterAdd, AddFacts, Touch
    <3> QED BY <3>1, <3>2, <3>3, <3>4, <3>5, <3>6 DEF IInv
  <2>4. ASSUME NEW c \in Clients, RegisterRespond(c) PROVE IInv'
    <3>1. TypeOK'
      BY <2>4 DEF TypeOK, RegisterRespond, IdleClient
    <3>2. IdsInOrder'
      BY <2>4 DEF TypeOK, IdsInOrder, RegisterRespond, IdleClient
    <3>3. RequestsWellFormed'
      BY <2>4 DEF TypeOK, RequestsWellFormed, RegisterRespond, IdleClient
    <3>4. NoBlindOverwrite'
      BY <2>4 DEF TypeOK, NoBlindOverwrite, RegisterRespond, IdleClient
    <3>5. ReloadProgress'
      BY <2>4 DEF TypeOK, ReloadProgress, FromFile, RegisterRespond, IdleClient
    <3>6. DnsProgress'
      BY <2>4 DEF TypeOK, DnsProgress, RegisterRespond, IdleClient
    <3> QED BY <3>1, <3>2, <3>3, <3>4, <3>5, <3>6 DEF IInv
  <2>5. ASSUME NEW c \in Clients, NEW a \in Aliases, Deregister(c, a) PROVE IInv'
    <3>1. TypeOK'
      BY <2>5 DEF TypeOK, Deregister, remove_leaf, Touch, Spend
    <3>2. IdsInOrder'
      BY <2>5 DEF TypeOK, IdsInOrder, Deregister, remove_leaf, Touch, Spend
    <3>3. RequestsWellFormed'
      BY <2>5 DEF TypeOK, RequestsWellFormed, Deregister, remove_leaf, Touch, Spend
    <3>4. NoBlindOverwrite'
      BY <2>5 DEF TypeOK, NoBlindOverwrite, Deregister, remove_leaf, Touch, Spend
    <3>5. ReloadProgress'
      BY <2>5 DEF TypeOK, ReloadProgress, FromFile, Deregister, remove_leaf, Touch, Spend
    <3>6. DnsProgress'
      BY <2>5 DEF TypeOK, DnsProgress, Deregister, remove_leaf, Touch, Spend
    <3> QED BY <3>1, <3>2, <3>3, <3>4, <3>5, <3>6 DEF IInv
  <2>6. CASE ReloadFails
    <3>1. TypeOK'
      BY <2>6 DEF TypeOK, ReloadFails, Spend
    <3>2. IdsInOrder'
      BY <2>6 DEF TypeOK, IdsInOrder, ReloadFails, Spend
    <3>3. RequestsWellFormed'
      BY <2>6 DEF TypeOK, RequestsWellFormed, ReloadFails, Spend
    <3>4. NoBlindOverwrite'
      BY <2>6 DEF TypeOK, NoBlindOverwrite, ReloadFails, Spend
    <3>5. ReloadProgress'
      BY <2>6 DEF TypeOK, ReloadProgress, FromFile, ReloadFails, Spend
    <3>6. DnsProgress'
      BY <2>6 DEF TypeOK, DnsProgress, ReloadFails, Spend
    <3> QED BY <3>1, <3>2, <3>3, <3>4, <3>5, <3>6 DEF IInv
  <2>7. ASSUME NEW d \in Desired, ReloadStart(d) PROVE IInv'
    <3>1. TypeOK'
      BY <2>7 DEF TypeOK, ReloadStart, Spend, aliases
    <3>2. IdsInOrder'
      BY <2>7 DEF TypeOK, IdsInOrder, ReloadStart, Spend, aliases
    <3>3. RequestsWellFormed'
      BY <2>7 DEF TypeOK, RequestsWellFormed, ReloadStart, Spend, aliases
    <3>4. NoBlindOverwrite'
      BY <2>7 DEF TypeOK, NoBlindOverwrite, ReloadStart, Spend, aliases
    <3>5. ReloadProgress'
      BY <2>7 DEF TypeOK, ReloadProgress, FromFile, ReloadStart, Spend, aliases
    <3>6. DnsProgress'
      BY <2>7 DEF TypeOK, DnsProgress, ReloadStart, Spend, aliases
    <3> QED BY <3>1, <3>2, <3>3, <3>4, <3>5, <3>6 DEF IInv
  <2>8. ASSUME NEW a \in Aliases, ReloadSame(a) PROVE IInv'
    <3>1. TypeOK'
      BY <2>8 DEF TypeOK, ReloadSame, SameSettings
    <3>2. IdsInOrder'
      BY <2>8 DEF TypeOK, IdsInOrder, ReloadSame, SameSettings
    <3>3. RequestsWellFormed'
      BY <2>8 DEF TypeOK, RequestsWellFormed, ReloadSame, SameSettings
    <3>4. NoBlindOverwrite'
      BY <2>8 DEF TypeOK, NoBlindOverwrite, ReloadSame, SameSettings
    <3>5. ReloadProgress'
      BY <2>8 DEF TypeOK, ReloadProgress, FromFile, ReloadSame, SameSettings
    <3>6. DnsProgress'
      BY <2>8 DEF TypeOK, DnsProgress, ReloadSame, SameSettings
    <3> QED BY <3>1, <3>2, <3>3, <3>4, <3>5, <3>6 DEF IInv
  <2>9. ASSUME NEW a \in Aliases, ReloadDiffers(a) PROVE IInv'
    <3>1. TypeOK'
      BY <2>9 DEF TypeOK, ReloadDiffers
    <3>2. IdsInOrder'
      BY <2>9 DEF TypeOK, IdsInOrder, ReloadDiffers
    <3>3. RequestsWellFormed'
      BY <2>9 DEF TypeOK, RequestsWellFormed, ReloadDiffers
    <3>4. NoBlindOverwrite'
      BY <2>9 DEF TypeOK, NoBlindOverwrite, ReloadDiffers
    <3>5. ReloadProgress'
      BY <2>9 DEF TypeOK, ReloadProgress, FromFile, ReloadDiffers
    <3>6. DnsProgress'
      BY <2>9 DEF TypeOK, DnsProgress, ReloadDiffers
    <3> QED BY <3>1, <3>2, <3>3, <3>4, <3>5, <3>6 DEF IInv
  <2>10. CASE ReloadAdd
    <3> DEFINE al == reload.adding  u == reload.incoming[reload.adding]
    <3>a. al \in Aliases /\ u \in Urls
      BY <2>10 DEF ReloadAdd, ReloadProgress, TypeOK
    <3>b. AddFacts(al, "config", u)
      BY <2>10, <3>a, AddLeaf DEF ReloadAdd
    <3>1. TypeOK'
      BY <2>10, <3>a, <3>b DEF TypeOK, ReloadAdd, AddFacts, Touch
    <3>2. IdsInOrder'
      BY <3>a, <3>b, AddLeafIds
    <3>3. RequestsWellFormed'
      BY <2>10, <3>a, <3>b DEF TypeOK, RequestsWellFormed, ReloadAdd, AddFacts, Touch
    <3>4. NoBlindOverwrite'
      BY <2>10, <3>a, <3>b, AddLeafIds DEF TypeOK, NoBlindOverwrite, RequestsWellFormed, ReloadAdd
    <3>5. ReloadProgress'
      BY <2>10, <3>a, <3>b DEF TypeOK, ReloadProgress, FromFile, ReloadAdd, AddFacts, Touch
    <3>6. DnsProgress'
      BY <2>10, <3>a, <3>b DEF TypeOK, DnsProgress, ReloadAdd, AddFacts, Touch
    <3> QED BY <3>1, <3>2, <3>3, <3>4, <3>5, <3>6 DEF IInv
  <2>11. CASE ReloadStartPrune
    <3>1. TypeOK'
      BY <2>11 DEF TypeOK, ReloadStartPrune, ReloadSurplus
    <3>2. IdsInOrder'
      BY <2>11 DEF TypeOK, IdsInOrder, ReloadStartPrune, ReloadSurplus
    <3>3. RequestsWellFormed'
      BY <2>11 DEF TypeOK, RequestsWellFormed, ReloadStartPrune, ReloadSurplus
    <3>4. NoBlindOverwrite'
      BY <2>11 DEF TypeOK, NoBlindOverwrite, ReloadStartPrune, ReloadSurplus
    <3>5. ReloadProgress'
      BY <2>11 DEF TypeOK, ReloadProgress, FromFile, ReloadStartPrune, ReloadSurplus
    <3>6. DnsProgress'
      BY <2>11 DEF TypeOK, DnsProgress, ReloadStartPrune, ReloadSurplus
    <3> QED BY <3>1, <3>2, <3>3, <3>4, <3>5, <3>6 DEF IInv
  <2>12. ASSUME NEW a \in Aliases, ReloadPrune(a) PROVE IInv'
    <3>1. TypeOK'
      BY <2>12 DEF TypeOK, ReloadPrune, remove_leaf, Touch
    <3>2. IdsInOrder'
      BY <2>12 DEF TypeOK, IdsInOrder, ReloadPrune, remove_leaf, Touch
    <3>3. RequestsWellFormed'
      BY <2>12 DEF TypeOK, RequestsWellFormed, ReloadPrune, remove_leaf, Touch
    <3>4. NoBlindOverwrite'
      BY <2>12 DEF TypeOK, NoBlindOverwrite, ReloadPrune, remove_leaf, Touch
    <3>5. ReloadProgress'
      BY <2>12 DEF TypeOK, ReloadProgress, FromFile, ReloadPrune, remove_leaf, Touch
    <3>6. DnsProgress'
      BY <2>12 DEF TypeOK, DnsProgress, ReloadPrune, remove_leaf, Touch
    <3> QED BY <3>1, <3>2, <3>3, <3>4, <3>5, <3>6 DEF IInv
  <2>13. CASE ReloadFinish
    <3>1. TypeOK'
      BY <2>13 DEF TypeOK, ReloadFinish, IdleReload, Nothing
    <3>2. IdsInOrder'
      BY <2>13 DEF TypeOK, IdsInOrder, ReloadFinish, IdleReload, Nothing
    <3>3. RequestsWellFormed'
      BY <2>13 DEF TypeOK, RequestsWellFormed, ReloadFinish, IdleReload, Nothing
    <3>4. NoBlindOverwrite'
      BY <2>13 DEF TypeOK, NoBlindOverwrite, ReloadFinish, IdleReload, Nothing
    <3>5. ReloadProgress'
      BY <2>13 DEF TypeOK, ReloadProgress, FromFile, ReloadFinish, IdleReload, Nothing
    <3>6. DnsProgress'
      BY <2>13 DEF TypeOK, DnsProgress, ReloadFinish, IdleReload, Nothing
    <3> QED BY <3>1, <3>2, <3>3, <3>4, <3>5, <3>6 DEF IInv
  <2>14. ASSUME NEW d \in Answers, DnsPoll(d) PROVE IInv'
    <3>1. TypeOK'
      BY <2>14 DEF TypeOK, DnsPoll, existing_dns_aliases, aliases
    <3>2. IdsInOrder'
      BY <2>14 DEF TypeOK, IdsInOrder, DnsPoll, existing_dns_aliases, aliases
    <3>3. RequestsWellFormed'
      BY <2>14 DEF TypeOK, RequestsWellFormed, DnsPoll, existing_dns_aliases, aliases
    <3>4. NoBlindOverwrite'
      BY <2>14 DEF TypeOK, NoBlindOverwrite, DnsPoll, existing_dns_aliases, aliases
    <3>5. ReloadProgress'
      BY <2>14 DEF TypeOK, ReloadProgress, FromFile, DnsPoll, existing_dns_aliases, aliases
    <3>6. DnsProgress'
      BY <2>14 DEF TypeOK, DnsProgress, DnsPoll, existing_dns_aliases, aliases
    <3> QED BY <3>1, <3>2, <3>3, <3>4, <3>5, <3>6 DEF IInv
  <2>15. ASSUME NEW a \in Aliases, DnsAdd(a) PROVE IInv'
    <3> DEFINE al == a  u == dns.desired[a]
    <3>a. al \in Aliases /\ u \in Urls
      BY <2>15 DEF DnsAdd, DnsProgress, TypeOK
    <3>b. AddFacts(al, "dns", u)
      BY <2>15, <3>a, AddLeaf DEF DnsAdd
    <3>1. TypeOK'
      BY <2>15, <3>a, <3>b DEF TypeOK, DnsAdd, AddFacts, Touch
    <3>2. IdsInOrder'
      BY <3>a, <3>b, AddLeafIds
    <3>3. RequestsWellFormed'
      BY <2>15, <3>a, <3>b DEF TypeOK, RequestsWellFormed, DnsAdd, AddFacts, Touch
    <3>4. NoBlindOverwrite'
      BY <2>15, <3>a, <3>b, AddLeafIds DEF TypeOK, NoBlindOverwrite, RequestsWellFormed, DnsAdd
    <3>5. ReloadProgress'
      BY <2>15, <3>a, <3>b DEF TypeOK, ReloadProgress, FromFile, DnsAdd, AddFacts, Touch
    <3>6. DnsProgress'
      BY <2>15, <3>a, <3>b DEF TypeOK, DnsProgress, DnsAdd, AddFacts, Touch
    <3> QED BY <3>1, <3>2, <3>3, <3>4, <3>5, <3>6 DEF IInv
  <2>16. CASE DnsStartPrune
    <3>1. TypeOK'
      BY <2>16 DEF TypeOK, DnsStartPrune, DnsSurplus
    <3>2. IdsInOrder'
      BY <2>16 DEF TypeOK, IdsInOrder, DnsStartPrune, DnsSurplus
    <3>3. RequestsWellFormed'
      BY <2>16 DEF TypeOK, RequestsWellFormed, DnsStartPrune, DnsSurplus
    <3>4. NoBlindOverwrite'
      BY <2>16 DEF TypeOK, NoBlindOverwrite, DnsStartPrune, DnsSurplus
    <3>5. ReloadProgress'
      BY <2>16 DEF TypeOK, ReloadProgress, FromFile, DnsStartPrune, DnsSurplus
    <3>6. DnsProgress'
      BY <2>16 DEF TypeOK, DnsProgress, DnsStartPrune, DnsSurplus
    <3> QED BY <3>1, <3>2, <3>3, <3>4, <3>5, <3>6 DEF IInv
  <2>17. ASSUME NEW a \in Aliases, DnsPrune(a) PROVE IInv'
    <3>1. TypeOK'
      BY <2>17 DEF TypeOK, DnsPrune, remove_leaf, Touch
    <3>2. IdsInOrder'
      BY <2>17 DEF TypeOK, IdsInOrder, DnsPrune, remove_leaf, Touch
    <3>3. RequestsWellFormed'
      BY <2>17 DEF TypeOK, RequestsWellFormed, DnsPrune, remove_leaf, Touch
    <3>4. NoBlindOverwrite'
      BY <2>17 DEF TypeOK, NoBlindOverwrite, DnsPrune, remove_leaf, Touch
    <3>5. ReloadProgress'
      BY <2>17 DEF TypeOK, ReloadProgress, FromFile, DnsPrune, remove_leaf, Touch
    <3>6. DnsProgress'
      BY <2>17 DEF TypeOK, DnsProgress, DnsPrune, remove_leaf, Touch
    <3> QED BY <3>1, <3>2, <3>3, <3>4, <3>5, <3>6 DEF IInv
  <2>18. CASE DnsFinish
    <3>1. TypeOK'
      BY <2>18 DEF TypeOK, DnsFinish, IdleDns, Nothing
    <3>2. IdsInOrder'
      BY <2>18 DEF TypeOK, IdsInOrder, DnsFinish, IdleDns, Nothing
    <3>3. RequestsWellFormed'
      BY <2>18 DEF TypeOK, RequestsWellFormed, DnsFinish, IdleDns, Nothing
    <3>4. NoBlindOverwrite'
      BY <2>18 DEF TypeOK, NoBlindOverwrite, DnsFinish, IdleDns, Nothing
    <3>5. ReloadProgress'
      BY <2>18 DEF TypeOK, ReloadProgress, FromFile, DnsFinish, IdleDns, Nothing
    <3>6. DnsProgress'
      BY <2>18 DEF TypeOK, DnsProgress, DnsFinish, IdleDns, Nothing
    <3> QED BY <3>1, <3>2, <3>3, <3>4, <3>5, <3>6 DEF IInv
  <2>19. ASSUME NEW z \in SUBSET (DnsAliases \X Urls), ZoneChange(z) PROVE IInv'
    <3>1. TypeOK'
      BY <2>19 DEF TypeOK, ZoneChange, Spend
    <3>2. IdsInOrder'
      BY <2>19 DEF TypeOK, IdsInOrder, ZoneChange, Spend
    <3>3. RequestsWellFormed'
      BY <2>19 DEF TypeOK, RequestsWellFormed, ZoneChange, Spend
    <3>4. NoBlindOverwrite'
      BY <2>19 DEF TypeOK, NoBlindOverwrite, ZoneChange, Spend
    <3>5. ReloadProgress'
      BY <2>19 DEF TypeOK, ReloadProgress, FromFile, ZoneChange, Spend
    <3>6. DnsProgress'
      BY <2>19 DEF TypeOK, DnsProgress, ZoneChange, Spend
    <3> QED BY <3>1, <3>2, <3>3, <3>4, <3>5, <3>6 DEF IInv
  <2>20. CASE UNCHANGED vars
    BY <2>20 DEF vars, IInv, TypeOK, IdsInOrder, RequestsWellFormed, NoBlindOverwrite, ReloadProgress, FromFile, DnsProgress, Registered
  <2> QED BY <2>1, <2>2, <2>3, <2>4, <2>5, <2>6, <2>7, <2>8, <2>9, <2>10, <2>11, <2>12, <2>13, <2>14, <2>15, <2>16, <2>17, <2>18, <2>19, <2>20
    DEF Next, RestStep, ReloadStep, DnsStep
<1> QED BY <1>1, <1>2, PTL DEF Spec

\* The entry a POST or a DNS poll replaces is always one it could not have seen.
THEOREM NeverBlindlyOverwritten == Spec => []NoBlindOverwrite
<1>1. IInv => NoBlindOverwrite
  BY DEF IInv
<1> QED BY <1>1, RegistryInvariant, PTL

\* A reload ends with the registry as the file says, except for what the REST
\* API and the DNS poller changed while it ran.
THEOREM ReloadCorrect == Spec => []ReloadEstablishesFile
<1>1. IInv => ReloadEstablishesFile
  BY DEF IInv, ReloadProgress, ReloadEstablishesFile
<1> QED BY <1>1, RegistryInvariant, PTL

\* A poll ends with the dns- aliases of its answer, except for what the REST API
\* and the reloader changed while it ran.
THEOREM DnsPollCorrect == Spec => []DnsEstablishesAnswer
<1>1. IInv => DnsEstablishesAnswer
  BY DEF IInv, DnsProgress, DnsEstablishesAnswer
<1> QED BY <1>1, RegistryInvariant, PTL

\* The poller changes dns- aliases only.
THEOREM DnsTouchesOwnAliases == Spec => DnsLeavesOthersAlone
<1>1. ASSUME IInv, [Next]_vars
      PROVE  [DnsStep => \A a \in Aliases \ DnsAliases : leaves'[a] = leaves[a]]_vars
  <2> SUFFICES ASSUME DnsStep, NEW b \in Aliases \ DnsAliases PROVE leaves'[b] = leaves[b]
    OBVIOUS
  <2>1. ASSUME NEW d \in Answers, DnsPoll(d) PROVE leaves'[b] = leaves[b]
    BY <2>1 DEF DnsPoll
  <2>2. CASE DnsStartPrune \/ DnsFinish
    BY <2>2 DEF DnsStartPrune, DnsFinish
  <2>3. ASSUME NEW a \in Aliases, DnsAdd(a) PROVE leaves'[b] = leaves[b]
    <3>1. a # b
      BY <1>1, <2>3 DEF DnsAdd, IInv, DnsProgress
    <3> QED BY <1>1, <2>3, <3>1 DEF DnsAdd, add_leaf, IInv, TypeOK
  <2>4. ASSUME NEW a \in Aliases, DnsPrune(a) PROVE leaves'[b] = leaves[b]
    <3>1. a # b
      BY <1>1, <2>4 DEF DnsPrune, IInv, DnsProgress
    <3> QED BY <1>1, <2>4, <3>1 DEF DnsPrune, remove_leaf, IInv, TypeOK
  <2> QED BY <2>1, <2>2, <2>3, <2>4 DEF DnsStep
<1> QED BY <1>1, RegistryInvariant, PTL DEF Spec, DnsLeavesOthersAlone
=============================================================================
