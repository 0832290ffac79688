-------------------------- MODULE Dispatch_proofs --------------------------
(***************************************************************************)
(* For any leaves, names, clients and tokens, and however leaves, lists    *)
(* and tokens change under a request: what a request used was there for    *)
(* it, a restricted client reaches only its leaves, and a list misses      *)
(* nothing that stays on offer.  Before that, that a published name leads  *)
(* back to the leaf that published it, and that the text of a              *)
(* configuration is interpolated in one pass.                              *)
(***************************************************************************)
EXTENDS Dispatch, PureFunctions, SequenceTheorems, WellFoundedInduction, TLAPS

-----------------------------------------------------------------------------
\* Names.

\* A set of positions that is not empty has a first one.
LEMMA FirstExists ==
  ASSUME NEW T \in SUBSET Nat, T # {}
  PROVE  \E i \in T : \A j \in T : i <= j
  <1>1. PICK i \in T : \A j \in T : ~(<<j, i>> \in OpToRel(<, Nat))
    BY NatLessThanWellFounded, WFMin
  <1>2. ASSUME NEW j \in T PROVE i <= j
    <2>1. ~(<<j, i>> \in {ss \in Nat \X Nat : ss[1] < ss[2]})
      BY <1>1 DEF OpToRel
    <2>2. ~(j < i)
      BY <2>1
    <2> QED
      BY <2>2
  <1> QED
    BY <1>2

\* The separator a string is split at.
LEMMA FirstSeparatorFacts ==
  ASSUME NEW s \in Seq(STRING), HasSeparator(s)
  PROVE  /\ FirstSeparator(s) \in 1..(Len(s) - 1)
         /\ s[FirstSeparator(s)] = Underscore /\ s[FirstSeparator(s) + 1] = Underscore
  <1>1. SeparatorAt(s) \in SUBSET Nat
    <2>1. Len(s) \in Nat
      BY LenProperties
    <2> QED
      BY <2>1 DEF SeparatorAt
  <1>2. \E i \in SeparatorAt(s) : \A j \in SeparatorAt(s) : i <= j
    BY <1>1, FirstExists DEF HasSeparator
  <1>3. FirstSeparator(s) \in SeparatorAt(s)
    BY <1>2 DEF FirstSeparator
  <1> QED
    BY <1>3 DEF SeparatorAt

\* A sequence of two.
LEMMA PairSeq ==
  ASSUME NEW S, NEW x \in S
  PROVE  <<x, x>> \in Seq(S) /\ Len(<<x, x>>) = 2 /\ <<x, x>>[1] = x /\ <<x, x>>[2] = x
  OBVIOUS

LEMMA SeparatorSeq ==
  /\ NAMESPACE_SEPARATOR \in Seq(STRING) /\ Len(NAMESPACE_SEPARATOR) = 2
  /\ NAMESPACE_SEPARATOR[1] = Underscore /\ NAMESPACE_SEPARATOR[2] = Underscore
  BY UnderscoreAssumption, PairSeq DEF NAMESPACE_SEPARATOR

\* The elements of a sequence put together from two, and from three.
LEMMA JoinTwo ==
  ASSUME NEW S, NEW a \in Seq(S), NEW b \in Seq(S)
  PROVE  /\ a \o b \in Seq(S) /\ Len(a \o b) = Len(a) + Len(b)
         /\ \A k \in 1..Len(a) : (a \o b)[k] = a[k]
         /\ \A k \in 1..Len(b) : (a \o b)[Len(a) + k] = b[k]
  OBVIOUS

LEMMA JoinThree ==
  ASSUME NEW S, NEW a \in Seq(S), NEW u \in Seq(S), NEW n \in Seq(S)
  PROVE  /\ a \o u \o n \in Seq(S) /\ Len(a \o u \o n) = Len(a) + Len(u) + Len(n)
         /\ \A k \in 1..Len(a) : (a \o u \o n)[k] = a[k]
         /\ \A k \in 1..Len(u) : (a \o u \o n)[Len(a) + k] = u[k]
         /\ \A k \in 1..Len(n) : (a \o u \o n)[Len(a) + Len(u) + k] = n[k]
  <1>1. PICK au \in Seq(S) : au = a \o u
    BY JoinTwo
  <1>2. Len(a) \in Nat /\ Len(u) \in Nat /\ Len(n) \in Nat
    BY LenProperties
  <1>3. /\ Len(au) = Len(a) + Len(u)
        /\ \A k \in 1..Len(a) : au[k] = a[k]
        /\ \A k \in 1..Len(u) : au[Len(a) + k] = u[k]
    BY <1>1, JoinTwo
  <1>4. /\ au \o n \in Seq(S) /\ Len(au \o n) = Len(au) + Len(n)
        /\ \A k \in 1..Len(au) : (au \o n)[k] = au[k]
        /\ \A k \in 1..Len(n) : (au \o n)[Len(au) + k] = n[k]
    BY JoinTwo
  <1>5. \A k \in 1..Len(a) : (au \o n)[k] = a[k]
    BY <1>2, <1>3, <1>4
  <1>6. ASSUME NEW k \in 1..Len(u) PROVE (au \o n)[Len(a) + k] = u[k]
    <2>1. Len(a) + k \in 1..Len(au)
      BY <1>2, <1>3
    <2> QED
      BY <1>3, <1>4, <2>1
  <1> QED
    BY <1>1, <1>3, <1>4, <1>5, <1>6

\* The characters of a published name.
LEMMA NamespacedFacts ==
  ASSUME NEW a \in Seq(STRING), NEW n \in Seq(STRING)
  PROVE  /\ namespaced(a, n) \in Seq(STRING)
         /\ Len(namespaced(a, n)) = Len(a) + 2 + Len(n)
         /\ \A k \in 1..Len(a) : namespaced(a, n)[k] = a[k]
         /\ namespaced(a, n)[Len(a) + 1] = Underscore /\ namespaced(a, n)[Len(a) + 2] = Underscore
         /\ \A k \in 1..Len(n) : namespaced(a, n)[Len(a) + 2 + k] = n[k]
  <1> DEFINE u == NAMESPACE_SEPARATOR
             t == a \o u \o n
  <1>1. u \in Seq(STRING) /\ namespaced(a, n) = t
    BY SeparatorSeq DEF namespaced
  <1>2. Len(u) = 2 /\ u[1] = Underscore /\ u[2] = Underscore
    BY SeparatorSeq
  <1> HIDE DEF u
  <1>3. /\ t \in Seq(STRING) /\ Len(t) = Len(a) + Len(u) + Len(n)
        /\ \A k \in 1..Len(a) : t[k] = a[k]
        /\ \A k \in 1..Len(u) : t[Len(a) + k] = u[k]
        /\ \A k \in 1..Len(n) : t[Len(a) + Len(u) + k] = n[k]
    BY <1>1, JoinThree
  <1> HIDE DEF t
  <1>4. 1 \in 1..Len(u) /\ 2 \in 1..Len(u)
    BY <1>2
  <1>5. t[Len(a) + 1] = Underscore /\ t[Len(a) + 2] = Underscore
    BY <1>3, <1>2, <1>4
  <1>6. Len(t) = Len(a) + 2 + Len(n) /\ \A k \in 1..Len(n) : t[Len(a) + 2 + k] = n[k]
    BY <1>3, <1>2
  <1> QED
    BY <1>1, <1>3, <1>5, <1>6

\* The parts around a separator make the string again.
LEMMA AroundSeparator ==
  ASSUME NEW s \in Seq(STRING), NEW i \in 1..(Len(s) - 1), s[i] = Underscore, s[i + 1] = Underscore
  PROVE  LET a == SubSeq(s, 1, i - 1)
             n == SubSeq(s, i + 2, Len(s))
         IN a \in Seq(STRING) /\ n \in Seq(STRING) /\ namespaced(a, n) = s
  <1>1. PICK l \in Nat : l = Len(s)
    BY LenProperties
  <1>2. \A k \in 1..l : s[k] \in STRING
    BY <1>1, ElementOfSeq
  <1>3. i \in 1..(l - 1)
    BY <1>1
  <1>4. SubSeq(s, 1, i - 1) \in Seq(STRING)
    <2>1. i - 1 \in Int /\ \A k \in 1..(i - 1) : s[k] \in STRING
      BY <1>2, <1>3
    <2> QED
      BY <2>1, SubSeqProperties
  <1>5. SubSeq(s, i + 2, l) \in Seq(STRING)
    <2>1. i + 2 \in Int /\ \A k \in (i + 2)..l : s[k] \in STRING
      BY <1>2, <1>3
    <2> QED
      BY <2>1, SubSeqProperties
  <1>6. SubSeq(s, i, i + 1) = NAMESPACE_SEPARATOR
    <2> DEFINE m == SubSeq(s, i, i + 1)
    <2>1. i \in Int /\ i + 1 \in Int /\ \A k \in i..(i + 1) : s[k] \in STRING
      BY <1>2, <1>3
    <2>2. /\ m \in Seq(STRING)
          /\ Len(m) = IF i <= i + 1 THEN (i + 1) - i + 1 ELSE 0
          /\ \A k \in 1..((i + 1) - i + 1) : m[k] = s[i + k - 1]
      BY <2>1, SubSeqProperties
    <2> HIDE DEF m
    <2>3. Len(m) = 2 /\ m[1] = Underscore /\ m[2] = Underscore
      BY <1>3, <2>2
    <2>4. \A k \in 1..2 : m[k] = NAMESPACE_SEPARATOR[k]
      BY <2>3, SeparatorSeq
    <2>5. m = NAMESPACE_SEPARATOR
      BY <2>2, <2>3, <2>4, SeparatorSeq, SeqEqual
    <2> QED
      BY <2>5 DEF m
  <1>7. SubSeq(s, 1, i - 1) \o SubSeq(s, i, i + 1) = SubSeq(s, 1, i + 1)
    <2>1. 1 \in 1..Len(s) + 1 /\ i - 1 \in 1 - 1..Len(s) /\ i + 1 \in i - 1..Len(s) /\ (i - 1) + 1 = i
      BY <1>1, <1>3
    <2> QED
      BY <2>1, ConcatAdjacentSubSeq
  <1>8. SubSeq(s, 1, i + 1) \o SubSeq(s, i + 2, l) = SubSeq(s, 1, l)
    <2>1. 1 \in 1..Len(s) + 1 /\ i + 1 \in 1 - 1..Len(s) /\ l \in i + 1..Len(s) /\ (i + 1) + 1 = i + 2
      BY <1>1, <1>3
    <2> QED
      BY <2>1, ConcatAdjacentSubSeq
  <1> QED
    BY <1>1, <1>4, <1>5, <1>6, <1>7, <1>8, SubSeqFull DEF namespaced

\* aggregator.rs: what a name is split into is published under that name.
LEMMA SplitPublished ==
  ASSUME NEW s \in Seq(STRING), HasSeparator(s)
  PROVE  LET parts == parse_namespaced_name(s)
         IN /\ parts[1] \in Seq(STRING) /\ parts[2] \in Seq(STRING)
            /\ namespaced(parts[1], parts[2]) = s
  <1>1. PICK i \in 1..(Len(s) - 1) : i = FirstSeparator(s) /\ s[i] = Underscore /\ s[i + 1] = Underscore
    BY FirstSeparatorFacts
  <1>2. parse_namespaced_name(s) = <<SubSeq(s, 1, i - 1), SubSeq(s, i + 2, Len(s))>>
    BY <1>1 DEF parse_namespaced_name
  <1>3. /\ SubSeq(s, 1, i - 1) \in Seq(STRING) /\ SubSeq(s, i + 2, Len(s)) \in Seq(STRING)
        /\ namespaced(SubSeq(s, 1, i - 1), SubSeq(s, i + 2, Len(s))) = s
    BY <1>1, AroundSeparator
  <1> QED
    BY <1>2, <1>3

\* aggregator.rs, config.rs (validate): a name published under an alias that has
\* no separator and does not end in an underscore is split into that alias and
\* the leaf's own name, whatever the leaf calls it.
THEOREM PublishedRoutesBack ==
  ASSUME NEW a \in Seq(STRING), NEW n \in Seq(STRING), Separable(a)
  PROVE  /\ HasSeparator(namespaced(a, n))
         /\ parse_namespaced_name(namespaced(a, n)) = <<a, n>>
  <1> DEFINE s == namespaced(a, n)
  <1>1. PICK la \in Nat : la = Len(a)
    BY LenProperties
  <1>2. PICK ln \in Nat : ln = Len(n)
    BY LenProperties
  <1>3. /\ s \in Seq(STRING) /\ Len(s) = la + 2 + ln
        /\ \A k \in 1..la : s[k] = a[k]
        /\ s[la + 1] = Underscore /\ s[la + 2] = Underscore
        /\ \A k \in 1..ln : s[la + 2 + k] = n[k]
    BY <1>1, <1>2, NamespacedFacts
  <1> HIDE DEF s
  <1>4. la + 1 \in SeparatorAt(s)
    BY <1>2, <1>3 DEF SeparatorAt
  <1>5. ASSUME NEW j \in SeparatorAt(s) PROVE la + 1 <= j
    <2> SUFFICES ASSUME j < la + 1 PROVE FALSE
      BY <1>3 DEF SeparatorAt
    <2>1. j \in 1..la /\ s[j] = Underscore /\ s[j + 1] = Underscore
      BY <1>3 DEF SeparatorAt
    <2>2. CASE j = la
      BY <1>1, <1>3, <2>1, <2>2 DEF Separable, EndsInUnderscore
    <2>3. CASE j # la
      <3>1. j \in 1..(la - 1) /\ j + 1 \in 1..la
        BY <2>1, <2>3
      <3>2. a[j] = Underscore /\ a[j + 1] = Underscore
        BY <1>3, <2>1, <3>1
      <3> QED
        BY <1>1, <3>1, <3>2 DEF Separable, HasSeparator, SeparatorAt
    <2> QED
      BY <2>2, <2>3
  <1>6. FirstSeparator(s) = la + 1
    <2>1. \A i \in SeparatorAt(s) : (\A j \in SeparatorAt(s) : i <= j) => i = la + 1
      BY <1>3, <1>4, <1>5 DEF SeparatorAt
    <2> QED
      BY <1>4, <1>5, <2>1 DEF FirstSeparator
  <1>7. SubSeq(s, 1, la) = a
    <2>1. 1 \in Int /\ la \in Int /\ \A k \in 1..la : s[k] \in STRING
      BY <1>1, <1>3, ElementOfSeq
    <2>2. /\ SubSeq(s, 1, la) \in Seq(STRING)
          /\ Len(SubSeq(s, 1, la)) = IF 1 <= la THEN la - 1 + 1 ELSE 0
          /\ \A k \in 1..(la - 1 + 1) : SubSeq(s, 1, la)[k] = s[1 + k - 1]
      BY <2>1, SubSeqProperties
    <2>3. Len(SubSeq(s, 1, la)) = la /\ \A k \in 1..la : SubSeq(s, 1, la)[k] = a[k]
      BY <1>3, <2>2
    <2> QED
      BY <1>1, <2>2, <2>3, SeqEqual
  <1>8. SubSeq(s, la + 3, la + 2 + ln) = n
    <2> DEFINE m == SubSeq(s, la + 3, la + 2 + ln)
    <2>1. \A k \in (la + 3)..(la + 2 + ln) : s[k] \in STRING
      BY <1>3, ElementOfSeq
    <2>2. /\ m \in Seq(STRING)
          /\ Len(m) = IF la + 3 <= la + 2 + ln THEN (la + 2 + ln) - (la + 3) + 1 ELSE 0
          /\ \A k \in 1..((la + 2 + ln) - (la + 3) + 1) : m[k] = s[(la + 3) + k - 1]
      BY <2>1, SubSeqProperties
    <2> HIDE DEF m
    <2>3. Len(m) = ln /\ \A k \in 1..ln : m[k] = s[la + 2 + k]
      BY <2>2
    <2>4. \A k \in 1..ln : m[k] = n[k]
      BY <1>3, <2>3
    <2>5. m = n
      BY <1>2, <2>2, <2>3, <2>4, SeqEqual
    <2> QED
      BY <2>5 DEF m
  <1>9. HasSeparator(s)
    BY <1>4 DEF HasSeparator
  <1>10. parse_namespaced_name(s) = <<SubSeq(s, 1, (la + 1) - 1), SubSeq(s, (la + 1) + 2, Len(s))>>
    BY <1>6, <1>9 DEF parse_namespaced_name
  <1>11. (la + 1) - 1 = la /\ (la + 1) + 2 = la + 3
    OBVIOUS
  <1>12. parse_namespaced_name(s) = <<a, n>>
    BY <1>3, <1>7, <1>8, <1>10, <1>11
  <1> QED
    BY <1>9, <1>12 DEF s

\* Two aliases that names can be split from never publish the same name.
THEOREM PublishedApart ==
  ASSUME NEW a \in Seq(STRING), NEW b \in Seq(STRING), Separable(a), Separable(b),
         NEW m \in Seq(STRING), NEW n \in Seq(STRING), namespaced(a, m) = namespaced(b, n)
  PROVE  a = b /\ m = n
  <1>1. <<a, m>> = <<b, n>>
    BY PublishedRoutesBack
  <1> QED
    BY <1>1

\* A name published under an alias that ends in an underscore is split too early.
LEMMA UnderscoreMisroutes ==
  ASSUME NEW a \in Seq(STRING), NEW n \in Seq(STRING), EndsInUnderscore(a)
  PROVE  parse_namespaced_name(namespaced(a, n)) # <<a, n>>
  <1> DEFINE s == namespaced(a, n)
  <1>1. PICK la \in Nat : la = Len(a)
    BY LenProperties
  <1>2. PICK ln \in Nat : ln = Len(n)
    BY LenProperties
  <1>3. /\ s \in Seq(STRING) /\ Len(s) = la + 2 + ln
        /\ \A k \in 1..la : s[k] = a[k]
        /\ s[la + 1] = Underscore
    BY <1>1, <1>2, NamespacedFacts
  <1> HIDE DEF s
  <1>4. la > 0 /\ a[la] = Underscore
    BY <1>1 DEF EndsInUnderscore
  <1>5. la \in SeparatorAt(s)
    BY <1>2, <1>3, <1>4 DEF SeparatorAt
  <1>6. HasSeparator(s)
    BY <1>5 DEF HasSeparator
  <1>7. SeparatorAt(s) \in SUBSET Nat
    BY <1>2, <1>3 DEF SeparatorAt
  <1>8. \E i \in SeparatorAt(s) : \A j \in SeparatorAt(s) : i <= j
    BY <1>5, <1>7, FirstExists
  <1>9. PICK f \in SeparatorAt(s) : f = FirstSeparator(s) /\ f <= la
    BY <1>5, <1>8 DEF FirstSeparator
  <1>10. f \in 1..la
    BY <1>7, <1>9 DEF SeparatorAt
  <1>11. parse_namespaced_name(s)[1] = SubSeq(s, 1, f - 1)
    BY <1>6, <1>9 DEF parse_namespaced_name
  <1>12. Len(SubSeq(s, 1, f - 1)) = f - 1
    <2>1. 1 \in Int /\ f - 1 \in Int /\ \A k \in 1..(f - 1) : s[k] \in STRING
      BY <1>2, <1>3, <1>10, ElementOfSeq
    <2>2. Len(SubSeq(s, 1, f - 1)) = IF 1 <= f - 1 THEN (f - 1) - 1 + 1 ELSE 0
      BY <2>1, SubSeqProperties
    <2> QED
      BY <1>10, <2>2
  <1>13. f - 1 # la
    BY <1>10
  <1>14. Len(parse_namespaced_name(s)[1]) # Len(a)
    BY <1>1, <1>11, <1>12, <1>13
  <1>15. parse_namespaced_name(s)[1] # <<a, n>>[1]
    BY <1>14
  <1> QED
    BY <1>15, Zenon DEF s

\* config.rs (validate), aggregator.rs: in a configuration that is accepted a
\* published name leads back to its leaf and to no other, except where an alias
\* ends in an underscore, which validate does not refuse.
THEOREM ConfiguredNamesRoute ==
  ASSUME NEW servers \in Seq([alias : Seq(STRING), url : Seq(STRING)]), validate(servers),
         NEW names \in SUBSET Seq(STRING)
  PROVE  NamesRoute(servers, names)
  <1>1. ASSUME NEW i \in DOMAIN servers
        PROVE  servers[i].alias \in Seq(STRING) /\ ~HasSeparator(servers[i].alias)
    <2>1. servers[i] \in [alias : Seq(STRING), url : Seq(STRING)]
      BY ElementOfSeq, LenProperties
    <2> QED
      BY <2>1 DEF validate
  <1>2. ASSUME NEW i \in DOMAIN servers, NEW j \in DOMAIN servers, i # j
        PROVE  servers[i].alias # servers[j].alias
    <2>1. i \in Nat \ {0} /\ j \in Nat \ {0}
      BY LenProperties
    <2>2. CASE i < j
      BY <2>1, <2>2 DEF validate
    <2>3. CASE j < i
      BY <2>1, <2>3 DEF validate
    <2> QED
      BY <1>2, <2>1, <2>2, <2>3
  <1>3. ASSUME NEW i \in DOMAIN servers, NEW n \in names
        PROVE  parse_namespaced_name(namespaced(servers[i].alias, n)) = <<servers[i].alias, n>>
                 <=> ~EndsInUnderscore(servers[i].alias)
    BY <1>1, PublishedRoutesBack, UnderscoreMisroutes DEF Separable
  <1>4. ASSUME NEW i \in DOMAIN servers, NEW n \in names,
               NEW j \in DOMAIN servers \ {i}, NEW o \in names,
               namespaced(servers[j].alias, o) = namespaced(servers[i].alias, n)
        PROVE  EndsInUnderscore(servers[i].alias) \/ EndsInUnderscore(servers[j].alias)
    <2> SUFFICES ASSUME ~EndsInUnderscore(servers[i].alias), ~EndsInUnderscore(servers[j].alias)
                 PROVE  FALSE
      OBVIOUS
    <2>1. servers[j].alias = servers[i].alias
      BY <1>1, <1>4, PublishedApart DEF Separable
    <2> QED
      BY <1>2, <2>1
  <1> QED
    BY <1>3, <1>4 DEF NamesRoute

\* An input is a configuration, a text or a clock.
IsInput ==
  \/ \E servers \in Configurations : input = [kind |-> "config", servers |-> servers]
  \/ \E text, at, scan, loop : input = Reading(text, at, scan, loop)
  \/ \E days, sod, date, time : input = Clock(days, sod, date, time)

\* aggregator.rs:218, config.rs (validate): whatever configurations are written and
\* whatever names the leaves choose, names of an accepted configuration route.
THEOREM AcceptedConfigurationsRoute == PureSpec => []AcceptedNamesRoute
<1>1. PureInit => IsInput
  BY Zenon DEF PureInit, IsInput, Unread
<1>2. IsInput /\ [PureNext]_input => IsInput'
  <2> SUFFICES ASSUME IsInput, [PureNext]_input PROVE IsInput'
    OBVIOUS
  <2>1. CASE NextSecond \/ NextDay
    <3>1. \E days, sod, date, time : input' = Clock(days, sod, date, time)
      BY <2>1 DEF NextSecond, NextDay
    <3> QED
      BY <3>1, Zenon DEF IsInput
  <2>2. CASE ReadCharacter \/ FinishLoop
    <3>1. \E text, at, scan, loop : input' = Reading(text, at, scan, loop)
      BY <2>2, Zenon DEF ReadCharacter, FinishLoop
    <3> QED
      BY <3>1, Zenon DEF IsInput
  <2>3. CASE UNCHANGED input
    BY <2>3, Zenon DEF IsInput
  <2> QED
    BY <2>1, <2>2, <2>3, Zenon DEF PureNext
<1>3. IsInput => AcceptedNamesRoute
  <2> SUFFICES ASSUME IsInput, input.kind = "config", validate(input.servers)
               PROVE  NamesRoute(input.servers, NameStrings)
    BY DEF AcceptedNamesRoute
  <2>1. PICK servers \in Configurations : input = [kind |-> "config", servers |-> servers]
    BY DEF IsInput, Clock, Reading
  <2>2. /\ input.servers \in Seq([alias : Seq(STRING), url : Seq(STRING)])
        /\ NameStrings \in SUBSET Seq(STRING)
    BY <2>1, PureAssumption
  <2> QED
    BY <2>2, ConfiguredNamesRoute
<1> QED BY <1>1, <1>2, <1>3, PTL DEF PureSpec

-----------------------------------------------------------------------------
\* The text of a configuration.

\* Where a pattern stands first, and where it does not stand at all.
LEMMA FindFirst ==
  ASSUME NEW s, NEW p, Len(s) \in Nat, Len(p) \in Nat,
         NEW k \in 1..(Len(s) - Len(p) + 1), SubSeq(s, k, k + Len(p) - 1) = p,
         \A j \in 1..(k - 1) : SubSeq(s, j, j + Len(p) - 1) # p
  PROVE  find(s, p) = k
  <1> DEFINE places == {i \in 1..(Len(s) - Len(p) + 1) : SubSeq(s, i, i + Len(p) - 1) = p}
  <1>1. k \in places /\ places # {}
    OBVIOUS
  <1>2. ASSUME NEW j \in places PROVE k <= j
    <2>1. j \in Nat /\ j >= 1 /\ SubSeq(s, j, j + Len(p) - 1) = p
      OBVIOUS
    <2>2. ~(j \in 1..(k - 1))
      BY <2>1
    <2> QED
      BY <2>1, <2>2
  <1>3. ASSUME NEW i \in places, \A j \in places : i <= j PROVE i = k
    <2>1. i <= k /\ k <= i /\ i \in Nat
      BY <1>1, <1>2, <1>3
    <2> QED
      BY <2>1
  <1>4. find(s, p) = CHOOSE i \in places : \A j \in places : i <= j
    BY <1>1 DEF find
  <1> HIDE DEF places
  <1> QED
    BY <1>1, <1>2, <1>3, <1>4

LEMMA FindNone ==
  ASSUME NEW s, NEW p,
         \A j \in 1..(Len(s) - Len(p) + 1) : SubSeq(s, j, j + Len(p) - 1) # p
  PROVE  find(s, p) = 0
  BY DEF find

\* Patterns of one and of two characters.
LEMMA MatchOne ==
  ASSUME NEW r \in Seq(STRING), NEW i \in 1..Len(r), NEW a
  PROVE  SubSeq(r, i, i) = <<a>> <=> r[i] = a
  <1>1. Len(r) \in Nat /\ \A k \in 1..Len(r) : r[k] \in STRING
    BY LenProperties, ElementOfSeq
  <1>2. PICK u \in Seq(STRING) : u = SubSeq(r, i, i) /\ Len(u) = 1 /\ u[1] = r[i]
    <2>1. /\ SubSeq(r, i, i) \in Seq(STRING) /\ Len(SubSeq(r, i, i)) = 1
          /\ SubSeq(r, i, i)[1] = r[i]
      BY <1>1, SubSeqProperties
    <2> QED
      BY <2>1, Zenon
  <1>3. ASSUME r[i] = a PROVE u = <<a>>
    <2>1. PICK q \in Seq(STRING) : q = <<a>> /\ Len(q) = 1 /\ q[1] = a
      <3>1. <<a>> \in Seq(STRING) /\ Len(<<a>>) = 1 /\ <<a>>[1] = a
        BY <1>1, <1>3
      <3> QED
        BY <3>1, Zenon
    <2>2. \A k \in 1..Len(u) : u[k] = q[k]
      BY <1>2, <1>3, <2>1
    <2>3. u = q
      BY <1>2, <2>1, <2>2, SeqEqual
    <2> QED
      BY <2>1, <2>3
  <1>4. u = <<a>> => u[1] = a
    OBVIOUS
  <1> QED
    BY <1>2, <1>3, <1>4

LEMMA MatchTwo ==
  ASSUME NEW r \in Seq(STRING), NEW i \in 1..(Len(r) - 1), NEW a, NEW b
  PROVE  SubSeq(r, i, i + 1) = <<a, b>> <=> r[i] = a /\ r[i + 1] = b
  <1>1. Len(r) \in Nat /\ \A k \in 1..Len(r) : r[k] \in STRING
    BY LenProperties, ElementOfSeq
  <1>2. i \in 1..Len(r) /\ i + 1 \in 1..Len(r) /\ i \in Int /\ i + 1 \in Int
    BY <1>1
  <1>3. PICK u \in Seq(STRING) :
          u = SubSeq(r, i, i + 1) /\ Len(u) = 2 /\ u[1] = r[i] /\ u[2] = r[i + 1]
    <2>1. /\ SubSeq(r, i, i + 1) \in Seq(STRING) /\ Len(SubSeq(r, i, i + 1)) = 2
          /\ SubSeq(r, i, i + 1)[1] = r[i] /\ SubSeq(r, i, i + 1)[2] = r[i + 1]
      BY <1>1, <1>2, SubSeqProperties
    <2> QED
      BY <2>1, Zenon
  <1>4. ASSUME r[i] = a, r[i + 1] = b PROVE u = <<a, b>>
    <2>1. PICK q \in Seq(STRING) : q = <<a, b>> /\ Len(q) = 2 /\ q[1] = a /\ q[2] = b
      <3>1. <<a, b>> \in Seq(STRING) /\ Len(<<a, b>>) = 2 /\ <<a, b>>[1] = a /\ <<a, b>>[2] = b
        BY <1>1, <1>2, <1>4
      <3> QED
        BY <3>1, Zenon
    <2>2. \A k \in 1..Len(u) : u[k] = q[k]
      BY <1>3, <1>4, <2>1
    <2>3. u = q
      BY <1>3, <2>1, <2>2, SeqEqual
    <2> QED
      BY <2>1, <2>3
  <1>5. u = <<a, b>> => u[1] = a /\ u[2] = b
    OBVIOUS
  <1> QED
    BY <1>3, <1>4, <1>5

\* The rest of a text, character by character.
LEMMA RestOf ==
  ASSUME NEW t \in Seq(STRING), NEW p \in 0..Len(t)
  PROVE  LET r == SubSeq(t, p + 1, Len(t)) IN
         /\ r \in Seq(STRING) /\ Len(r) = Len(t) - p
         /\ \A i \in 1..(Len(t) - p) : r[i] = t[p + i]
  <1>1. Len(t) \in Nat /\ \A k \in 1..Len(t) : t[k] \in STRING
    BY LenProperties, ElementOfSeq
  <1>2. p + 1 \in Int /\ Len(t) \in Int /\ \A k \in (p + 1)..Len(t) : t[k] \in STRING
    BY <1>1
  <1>3. /\ SubSeq(t, p + 1, Len(t)) \in Seq(STRING)
        /\ Len(SubSeq(t, p + 1, Len(t))) = IF p + 1 <= Len(t) THEN Len(t) - (p + 1) + 1 ELSE 0
        /\ \A i \in 1..(Len(t) - (p + 1) + 1) : SubSeq(t, p + 1, Len(t))[i] = t[(p + 1) + i - 1]
    BY <1>2, SubSeqProperties
  <1> QED
    BY <1>1, <1>3

\* A reference opens at i, is closed at i.
Opens(t, i) == t[i] = "$" /\ t[i + 1] = "{"
Closes(t, i) == t[i] = "}"

\* Positions in a text and in the rest of it from p + 1 on.
LEMMA Shifted ==
  ASSUME NEW t \in Seq(STRING), NEW p \in 0..Len(t), NEW r \in Seq(STRING),
         r = SubSeq(t, p + 1, Len(t))
  PROVE  /\ p \in Nat /\ Len(t) \in Nat /\ p <= Len(t) /\ Len(r) \in Nat /\ Len(r) = Len(t) - p
         /\ \A i \in 1..Len(r) : r[i] = t[p + i]
         /\ \A i \in 1..Len(r) : Closes(r, i) <=> Closes(t, p + i)
         /\ \A i \in 1..(Len(r) - 1) : Opens(r, i) <=> Opens(t, p + i)
  <1>1. /\ p \in Nat /\ Len(t) \in Nat /\ p <= Len(t) /\ Len(r) \in Nat /\ Len(r) = Len(t) - p
        /\ \A i \in 1..Len(r) : r[i] = t[p + i]
    BY LenProperties, RestOf
  <1>2. ASSUME NEW i \in 1..(Len(r) - 1) PROVE Opens(r, i) <=> Opens(t, p + i)
    <2>1. i \in 1..Len(r) /\ i + 1 \in 1..Len(r) /\ p + (i + 1) = (p + i) + 1
      BY <1>1
    <2>2. r[i] = t[p + i] /\ r[i + 1] = t[(p + i) + 1]
      BY <1>1, <2>1
    <2> QED
      BY <2>2, Zenon DEF Opens
  <1> QED
    BY <1>1, <1>2 DEF Closes

\* The patterns of the two searches.
LEMMA OpenMatches ==
  ASSUME NEW r \in Seq(STRING)
  PROVE  /\ Len(MarkOpen) = 2
         /\ \A i \in 1..(Len(r) - 1) : SubSeq(r, i, i + 1) = MarkOpen <=> Opens(r, i)
  <1>1. Len(MarkOpen) = 2
    BY DEF MarkOpen
  <1>2. ASSUME NEW i \in 1..(Len(r) - 1) PROVE SubSeq(r, i, i + 1) = MarkOpen <=> Opens(r, i)
    <2>1. \A a, b : SubSeq(r, i, i + 1) = <<a, b>> <=> r[i] = a /\ r[i + 1] = b
      BY MatchTwo
    <2> QED
      BY <2>1, Zenon DEF MarkOpen, Opens
  <1> QED
    BY <1>1, <1>2

LEMMA CloseMatches ==
  ASSUME NEW r \in Seq(STRING)
  PROVE  /\ Len(MarkClose) = 1
         /\ \A i \in 1..Len(r) : SubSeq(r, i, i) = MarkClose <=> Closes(r, i)
  <1>1. Len(MarkClose) = 1
    BY DEF MarkClose
  <1>2. ASSUME NEW i \in 1..Len(r) PROVE SubSeq(r, i, i) = MarkClose <=> Closes(r, i)
    BY MatchOne, Zenon DEF MarkClose, Closes
  <1> QED
    BY <1>1, <1>2

\* No reference opens in t from p + 1 on and before q.
NoMark(t, p, q) == \A i \in (p + 1)..(q - 1) : ~Opens(t, i)

\* Nothing closes a reference in t from q + 1 on and before e.
NoClose(t, q, e) == \A i \in (q + 1)..(e - 1) : ~Closes(t, i)

\* What the two searches of a turn find.
LEMMA NoReference ==
  ASSUME NEW t \in Seq(STRING), NEW p \in 0..Len(t), NoMark(t, p, Len(t))
  PROVE  find(SubSeq(t, p + 1, Len(t)), MarkOpen) = 0
  <1>1. PICK r \in Seq(STRING) : r = SubSeq(t, p + 1, Len(t))
    BY RestOf
  <1>2. /\ p \in Nat /\ Len(t) \in Nat /\ p <= Len(t) /\ Len(r) = Len(t) - p
        /\ \A i \in 1..(Len(r) - 1) : Opens(r, i) <=> Opens(t, p + i)
    BY <1>1, Shifted
  <1>3. Len(MarkOpen) = 2
    BY OpenMatches
  <1>4. ASSUME NEW j \in 1..(Len(r) - Len(MarkOpen) + 1)
        PROVE  SubSeq(r, j, j + Len(MarkOpen) - 1) # MarkOpen
    <2>1. /\ p + j \in (p + 1)..(Len(t) - 1) /\ j \in 1..(Len(r) - 1)
          /\ j + Len(MarkOpen) - 1 = j + 1
      BY <1>2, <1>3
    <2>2. ~Opens(r, j)
      BY <1>2, <2>1 DEF NoMark
    <2> QED
      BY <2>1, <2>2, OpenMatches
  <1> QED
    BY <1>1, <1>4, FindNone

LEMMA FirstReference ==
  ASSUME NEW t \in Seq(STRING), NEW p \in 0..Len(t), NEW s \in (p + 1)..(Len(t) - 1),
         Opens(t, s), NoMark(t, p, s)
  PROVE  find(SubSeq(t, p + 1, Len(t)), MarkOpen) = s - p
  <1>1. PICK r \in Seq(STRING) : r = SubSeq(t, p + 1, Len(t))
    BY RestOf
  <1>2. /\ p \in Nat /\ Len(t) \in Nat /\ p <= Len(t) /\ Len(r) \in Nat /\ Len(r) = Len(t) - p
        /\ \A i \in 1..(Len(r) - 1) : Opens(r, i) <=> Opens(t, p + i)
    BY <1>1, Shifted
  <1>3. Len(MarkOpen) = 2
    BY OpenMatches
  <1>4. PICK k \in Nat : k = s - p /\ p + k = s /\ k \in 1..(Len(r) - 1)
    BY <1>2
  <1>5. SubSeq(r, k, k + 1) = MarkOpen
    BY <1>2, <1>4, OpenMatches
  <1>6. ASSUME NEW j \in 1..(k - 1) PROVE SubSeq(r, j, j + Len(MarkOpen) - 1) # MarkOpen
    <2>1. /\ j \in 1..(Len(r) - 1) /\ p + j \in (p + 1)..(s - 1)
          /\ j + Len(MarkOpen) - 1 = j + 1
      BY <1>2, <1>3, <1>4
    <2>2. ~Opens(r, j)
      BY <1>2, <2>1 DEF NoMark
    <2> QED
      BY <2>1, <2>2, OpenMatches
  <1>7. /\ k \in 1..(Len(r) - Len(MarkOpen) + 1) /\ Len(MarkOpen) \in Nat
        /\ SubSeq(r, k, k + Len(MarkOpen) - 1) = MarkOpen
    BY <1>2, <1>3, <1>4, <1>5
  <1>8. find(r, MarkOpen) = k
    BY <1>2, <1>6, <1>7, FindFirst
  <1> QED
    BY <1>1, <1>4, <1>8

\* The same for what closes a reference; the name begins after q.
LEMMA NotClosed ==
  ASSUME NEW t \in Seq(STRING), NEW q \in 0..Len(t), NoClose(t, q, Len(t) + 1)
  PROVE  find(SubSeq(t, q + 1, Len(t)), MarkClose) = 0
  <1>1. PICK r \in Seq(STRING) : r = SubSeq(t, q + 1, Len(t))
    BY RestOf
  <1>2. /\ q \in Nat /\ Len(t) \in Nat /\ q <= Len(t) /\ Len(r) = Len(t) - q
        /\ \A i \in 1..Len(r) : Closes(r, i) <=> Closes(t, q + i)
    BY <1>1, Shifted
  <1>3. Len(MarkClose) = 1
    BY CloseMatches
  <1>4. ASSUME NEW j \in 1..(Len(r) - Len(MarkClose) + 1)
        PROVE  SubSeq(r, j, j + Len(MarkClose) - 1) # MarkClose
    <2>1. /\ q + j \in (q + 1)..Len(t) /\ j \in 1..Len(r) /\ j + Len(MarkClose) - 1 = j
      BY <1>2, <1>3
    <2>2. ~Closes(r, j)
      BY <1>2, <2>1 DEF NoClose
    <2> QED
      BY <2>1, <2>2, CloseMatches
  <1> QED
    BY <1>1, <1>4, FindNone

LEMMA FirstClosing ==
  ASSUME NEW t \in Seq(STRING), NEW q \in 0..Len(t), NEW e \in (q + 1)..Len(t),
         Closes(t, e), NoClose(t, q, e)
  PROVE  find(SubSeq(t, q + 1, Len(t)), MarkClose) = e - q
  <1>1. PICK r \in Seq(STRING) : r = SubSeq(t, q + 1, Len(t))
    BY RestOf
  <1>2. /\ q \in Nat /\ Len(t) \in Nat /\ q <= Len(t) /\ Len(r) \in Nat /\ Len(r) = Len(t) - q
        /\ \A i \in 1..Len(r) : Closes(r, i) <=> Closes(t, q + i)
    BY <1>1, Shifted
  <1>3. Len(MarkClose) = 1
    BY CloseMatches
  <1>4. PICK k \in Nat : k = e - q /\ q + k = e /\ k \in 1..Len(r)
    BY <1>2
  <1>5. SubSeq(r, k, k) = MarkClose
    BY <1>2, <1>4, CloseMatches
  <1>6. ASSUME NEW j \in 1..(k - 1) PROVE SubSeq(r, j, j + Len(MarkClose) - 1) # MarkClose
    <2>1. /\ j \in 1..Len(r) /\ q + j \in (q + 1)..(e - 1) /\ j + Len(MarkClose) - 1 = j
      BY <1>2, <1>3, <1>4
    <2>2. ~Closes(r, j)
      BY <1>2, <2>1 DEF NoClose
    <2> QED
      BY <2>1, <2>2, CloseMatches
  <1>7. /\ k \in 1..(Len(r) - Len(MarkClose) + 1) /\ Len(MarkClose) \in Nat
        /\ SubSeq(r, k, k + Len(MarkClose) - 1) = MarkClose
    BY <1>2, <1>3, <1>4, <1>5
  <1>8. find(r, MarkClose) = k
    BY <1>2, <1>6, <1>7, FindFirst
  <1> QED
    BY <1>1, <1>4, <1>8

\* A part of the rest is a part of the text.
LEMMA PartOfRest ==
  ASSUME NEW t \in Seq(STRING), NEW p \in 0..Len(t),
         NEW a \in 1..(Len(t) - p + 1), NEW b \in 0..(Len(t) - p)
  PROVE  SubSeq(SubSeq(t, p + 1, Len(t)), a, b) = SubSeq(t, p + a, p + b)
  <1>1. PICK r \in Seq(STRING) : r = SubSeq(t, p + 1, Len(t))
    BY RestOf
  <1>2. /\ p \in Nat /\ Len(t) \in Nat /\ p <= Len(t) /\ Len(r) \in Nat /\ Len(r) = Len(t) - p
        /\ \A i \in 1..Len(r) : r[i] = t[p + i]
    BY <1>1, Shifted
  <1>3. /\ \A i \in 1..Len(t) : t[i] \in STRING
        /\ \A i \in 1..Len(r) : r[i] \in STRING
    BY ElementOfSeq
  <1>4. a \in Nat /\ b \in Nat /\ a >= 1 /\ b <= Len(r)
    BY <1>2
  <1>5. PICK u \in Seq(STRING) :
          /\ u = SubSeq(r, a, b) /\ Len(u) = (IF a <= b THEN b - a + 1 ELSE 0)
          /\ \A i \in 1..(b - a + 1) : u[i] = r[a + i - 1]
    <2>1. \A i \in a..b : r[i] \in STRING
      BY <1>3, <1>4
    <2>2. /\ SubSeq(r, a, b) \in Seq(STRING)
          /\ Len(SubSeq(r, a, b)) = (IF a <= b THEN b - a + 1 ELSE 0)
          /\ \A i \in 1..(b - a + 1) : SubSeq(r, a, b)[i] = r[a + i - 1]
      BY <1>4, <2>1, SubSeqProperties
    <2> QED
      BY <2>2, Zenon
  <1>6. PICK v \in Seq(STRING) :
          /\ v = SubSeq(t, p + a, p + b) /\ Len(v) = (IF a <= b THEN b - a + 1 ELSE 0)
          /\ \A i \in 1..(b - a + 1) : v[i] = t[p + a + i - 1]
    <2>1. PICK m \in Int : m = p + a
      BY <1>2, <1>4
    <2>2. PICK n \in Int : n = p + b
      BY <1>2, <1>4
    <2>3. \A i \in m..n : t[i] \in STRING
      BY <1>2, <1>3, <1>4, <2>1, <2>2
    <2>4. /\ SubSeq(t, m, n) \in Seq(STRING)
          /\ Len(SubSeq(t, m, n)) = (IF m <= n THEN n - m + 1 ELSE 0)
          /\ \A i \in 1..(n - m + 1) : SubSeq(t, m, n)[i] = t[m + i - 1]
      BY <2>3, SubSeqProperties
    <2>5. n - m = b - a /\ (m <= n <=> a <= b)
      BY <1>2, <1>4, <2>1, <2>2
    <2>6. /\ Len(SubSeq(t, m, n)) = (IF a <= b THEN b - a + 1 ELSE 0)
          /\ \A i \in 1..(b - a + 1) : SubSeq(t, m, n)[i] = t[p + a + i - 1]
      BY <2>1, <2>4, <2>5
    <2> QED
      BY <2>1, <2>2, <2>4, <2>6, Zenon
  <1>7. ASSUME NEW i \in 1..Len(u) PROVE u[i] = v[i]
    <2>1. /\ i \in 1..(b - a + 1) /\ a + i - 1 \in 1..Len(r)
          /\ p + (a + i - 1) = p + a + i - 1
      BY <1>2, <1>4, <1>5
    <2> QED
      BY <1>2, <1>5, <1>6, <2>1
  <1>8. u = v
    BY <1>5, <1>6, <1>7, SeqEqual
  <1> QED
    BY <1>1, <1>5, <1>6, <1>8

\* A sequence of one.
LEMMA OneSeq == ASSUME NEW S, NEW x \in S PROVE <<x>> \in Seq(S)
  OBVIOUS

\* One more character of a text.
LEMMA OneMore ==
  ASSUME NEW t \in Seq(STRING), NEW R \in Seq(STRING), NEW p \in Nat, NEW q \in Nat,
         p <= q, q < Len(t)
  PROVE  /\ SubSeq(t, p + 1, q) \in Seq(STRING)
         /\ Append(SubSeq(t, p + 1, q), t[q + 1]) = SubSeq(t, p + 1, q + 1)
         /\ Append(R \o SubSeq(t, p + 1, q), t[q + 1]) = R \o SubSeq(t, p + 1, q + 1)
  <1>1. Len(t) \in Nat /\ \A i \in 1..Len(t) : t[i] \in STRING
    BY LenProperties, ElementOfSeq
  <1>2. PICK u \in Seq(STRING) : u = SubSeq(t, p + 1, q)
    <2>1. p + 1 \in Int /\ q \in Int /\ \A i \in (p + 1)..q : t[i] \in STRING
      BY <1>1
    <2> QED
      BY <2>1, SubSeqProperties
  <1>3. PICK c \in STRING : c = t[q + 1]
    <2>1. q + 1 \in 1..Len(t)
      BY <1>1
    <2> QED
      BY <1>1, <2>1
  <1>4. SubSeq(t, p + 1, q + 1) = u \o <<c>>
    <2>1. p + 1 \in 1..Len(t) /\ q + 1 \in (p + 1)..Len(t) /\ (q + 1) - 1 = q
      BY <1>1
    <2>2. SubSeq(t, p + 1, q + 1) = SubSeq(t, p + 1, (q + 1) - 1) \o <<t[q + 1]>>
      BY <2>1, SubSeqRecursiveSecond
    <2> QED
      BY <1>2, <1>3, <2>1, <2>2
  <1>5. Append(u, c) = u \o <<c>>
    BY AppendIsConcat
  <1>6. PICK w \in Seq(STRING) : w = R \o u
    BY ConcatProperties
  <1>7. PICK d \in Seq(STRING) : d = <<c>>
    BY OneSeq, Zenon
  <1>8. Append(w, c) = w \o d
    BY <1>7, AppendIsConcat
  <1>9. (R \o u) \o d = R \o (u \o d)
    BY ConcatAssociative
  <1> QED
    BY <1>2, <1>3, <1>4, <1>5, <1>6, <1>7, <1>8, <1>9

\* A turn of the loop that finds a reference from s to e.
LEMMA TurnReplaces ==
  ASSUME NEW t \in Seq(STRING), NEW R \in Seq(STRING), NEW p \in 0..Len(t),
         NEW s \in (p + 1)..(Len(t) - 1), NEW e \in (s + 2)..Len(t),
         Opens(t, s), NoMark(t, p, s), Closes(t, e), NoClose(t, s + 1, e)
  PROVE  interpolate_env_vars(Env, Loop(R, SubSeq(t, p + 1, Len(t)), FALSE)) =
           Loop((R \o SubSeq(t, p + 1, s - 1)) \o value_of(Env, SubSeq(t, s + 2, e - 1)),
                SubSeq(t, e + 1, Len(t)), FALSE)
  <1>1. /\ p \in Nat /\ s \in Nat /\ e \in Nat /\ Len(t) \in Nat
        /\ p < s /\ s < Len(t) /\ s + 2 <= e /\ e <= Len(t)
    BY LenProperties
  <1>2. PICK r \in Seq(STRING) : r = SubSeq(t, p + 1, Len(t)) /\ Len(r) = Len(t) - p
    BY RestOf
  <1>3. find(r, MarkOpen) = s - p
    BY <1>2, FirstReference
  <1>4. PICK q \in 0..Len(t) : q = s + 1
    BY <1>1
  <1>5. PICK o \in Seq(STRING) : o = SubSeq(t, q + 1, Len(t)) /\ Len(o) = Len(t) - q
    BY RestOf
  <1>6. SubSeq(r, (s - p) + 2, Len(r)) = o
    <2>1. PICK a \in 1..(Len(t) - p + 1) : a = (s - p) + 2
      BY <1>1
    <2>2. PICK b \in 0..(Len(t) - p) : b = Len(t) - p
      <3>1. Len(t) - p \in 0..(Len(t) - p)
        BY <1>1
      <3> QED
        BY <3>1, Zenon
    <2>3. p + a = q + 1 /\ p + b = Len(t)
      BY <1>1, <1>4, <2>1, <2>2
    <2> QED
      BY <1>2, <1>5, <2>1, <2>2, <2>3, PartOfRest
  <1>7. find(o, MarkClose) = e - q
    <2>1. e \in (q + 1)..Len(t) /\ NoClose(t, q, e)
      BY <1>1, <1>4
    <2> QED
      BY <1>5, <2>1, FirstClosing
  <1>8. SubSeq(o, 1, (e - q) - 1) = SubSeq(t, s + 2, e - 1)
    <2>1. PICK a \in 1..(Len(t) - q + 1) : a = 1
      BY <1>1, <1>4
    <2>2. PICK b \in 0..(Len(t) - q) : b = (e - q) - 1
      BY <1>1, <1>4
    <2>3. q + a = s + 2 /\ q + b = e - 1
      BY <1>1, <1>4, <2>1, <2>2
    <2> QED
      BY <1>5, <2>1, <2>2, <2>3, PartOfRest
  <1>9. SubSeq(o, (e - q) + 1, Len(o)) = SubSeq(t, e + 1, Len(t))
    <2>1. PICK a \in 1..(Len(t) - q + 1) : a = (e - q) + 1
      BY <1>1, <1>4
    <2>2. PICK b \in 0..(Len(t) - q) : b = Len(t) - q
      <3>1. Len(t) - q \in 0..(Len(t) - q)
        BY <1>1, <1>4
      <3> QED
        BY <3>1, Zenon
    <2>3. q + a = e + 1 /\ q + b = Len(t)
      BY <1>1, <1>4, <2>1, <2>2
    <2> QED
      BY <1>5, <2>1, <2>2, <2>3, PartOfRest
  <1>10. SubSeq(r, 1, (s - p) - 1) = SubSeq(t, p + 1, s - 1)
    <2>1. PICK a \in 1..(Len(t) - p + 1) : a = 1
      BY <1>1
    <2>2. PICK b \in 0..(Len(t) - p) : b = (s - p) - 1
      BY <1>1
    <2>3. p + a = p + 1 /\ p + b = s - 1
      BY <1>1, <2>1, <2>2
    <2> QED
      BY <1>2, <2>1, <2>2, <2>3, PartOfRest
  <1>11. s - p # 0 /\ e - q # 0
    BY <1>1, <1>4
  <1>12. Loop(R, r, FALSE).remainder = r /\ Loop(R, r, FALSE).result = R
    BY DEF Loop
  <1> QED
    BY <1>2, <1>3, <1>6, <1>7, <1>8, <1>9, <1>10, <1>11, <1>12, Zenon
       DEF interpolate_env_vars, remainder_after

\* The last turn, which finds none or one that is not closed.
LEMMA TurnCopies ==
  ASSUME NEW t \in Seq(STRING), NEW R \in Seq(STRING), NEW p \in 0..Len(t),
         \/ NoMark(t, p, Len(t))
         \/ \E s \in (p + 1)..(Len(t) - 1) :
              Opens(t, s) /\ NoMark(t, p, s) /\ NoClose(t, s + 1, Len(t) + 1)
  PROVE  interpolate_env_vars(Env, Loop(R, SubSeq(t, p + 1, Len(t)), FALSE)) =
           Loop(R \o SubSeq(t, p + 1, Len(t)), <<>>, TRUE)
  <1>1. PICK r \in Seq(STRING) : r = SubSeq(t, p + 1, Len(t)) /\ Len(r) = Len(t) - p
    BY RestOf
  <1>2. Loop(R, r, FALSE).remainder = r /\ Loop(R, r, FALSE).result = R
    BY DEF Loop
  <1>3. CASE NoMark(t, p, Len(t))
    <2>1. find(r, MarkOpen) = 0
      BY <1>1, <1>3, NoReference
    <2> QED
      BY <1>1, <1>2, <2>1, Zenon DEF interpolate_env_vars
  <1>4. CASE \E s \in (p + 1)..(Len(t) - 1) :
               Opens(t, s) /\ NoMark(t, p, s) /\ NoClose(t, s + 1, Len(t) + 1)
    <2>1. PICK s \in (p + 1)..(Len(t) - 1) :
            Opens(t, s) /\ NoMark(t, p, s) /\ NoClose(t, s + 1, Len(t) + 1)
      BY <1>4
    <2>2. p \in Nat /\ s \in Nat /\ Len(t) \in Nat /\ p < s /\ s < Len(t)
      BY LenProperties
    <2>3. find(r, MarkOpen) = s - p
      BY <1>1, <2>1, FirstReference
    <2>4. PICK q \in 0..Len(t) : q = s + 1
      BY <2>2
    <2>5. SubSeq(r, (s - p) + 2, Len(r)) = SubSeq(t, q + 1, Len(t))
      <3>1. PICK a \in 1..(Len(t) - p + 1) : a = (s - p) + 2
        BY <2>2
      <3>2. PICK b \in 0..(Len(t) - p) : b = Len(t) - p
        BY <2>2
      <3>3. p + a = q + 1 /\ p + b = Len(t)
        BY <2>2, <2>4, <3>1, <3>2
      <3> QED
        BY <1>1, <3>1, <3>2, <3>3, PartOfRest
    <2>6. find(SubSeq(t, q + 1, Len(t)), MarkClose) = 0
      BY <2>1, <2>4, NotClosed
    <2> QED
      BY <1>1, <1>2, <2>3, <2>5, <2>6, Zenon DEF interpolate_env_vars
  <1> QED
    BY <1>3, <1>4

-----------------------------------------------------------------------------
\* Where the scanner can be, when the loop has produced R and is to go on after p:
\* no reference opened since, a dollar sign was read, or a reference is open.
Plain(t, p, at, R, scan) ==
  /\ NoMark(t, p, at) /\ (p < at => t[at] # "$")
  /\ scan = Scanner("text", R \o SubSeq(t, p + 1, at), <<>>)

Dollar(t, p, at, R, scan) ==
  /\ NoMark(t, p, at) /\ p < at /\ t[at] = "$"
  /\ scan = Scanner("dollar", R \o SubSeq(t, p + 1, at - 1), <<>>)

Naming(t, p, s, at, R, scan) ==
  /\ Opens(t, s) /\ NoMark(t, p, s) /\ NoClose(t, s + 1, at + 1)
  /\ scan = Scanner("name", R \o SubSeq(t, p + 1, s - 1), SubSeq(t, s + 2, at))

\* The steps of the scanner.
LEMMA ScanText ==
  ASSUME NEW o, NEW n, NEW c
  PROVE  Scan(Scanner("text", o, n), c) =
           IF c = "$" THEN Scanner("dollar", o, <<>>) ELSE Scanner("text", Append(o, c), <<>>)
  BY DEF Scan, Scanner

LEMMA ScanDollar ==
  ASSUME NEW o, NEW n, NEW c
  PROVE  Scan(Scanner("dollar", o, n), c) =
           IF c = "{" THEN Scanner("name", o, <<>>)
           ELSE IF c = "$" THEN Scanner("dollar", Append(o, "$"), <<>>)
           ELSE Scanner("text", Append(Append(o, "$"), c), <<>>)
  BY DEF Scan, Scanner

LEMMA ScanName ==
  ASSUME NEW o, NEW n, NEW c
  PROVE  Scan(Scanner("name", o, n), c) =
           IF c = "}" THEN Scanner("text", o \o value_of(Env, n), <<>>)
           ELSE Scanner("name", o, Append(n, c))
  BY DEF Scan, Scanner

\* One more character opens or closes nothing.
LEMMA NoMarkGrows ==
  ASSUME NEW t, NEW p \in Nat, NEW q \in Nat, p <= q, NoMark(t, p, q), p < q => ~Opens(t, q)
  PROVE  NoMark(t, p, q + 1)
  BY DEF NoMark

LEMMA NoCloseGrows ==
  ASSUME NEW t, NEW q \in Nat, NEW e \in Nat, NoClose(t, q, e), ~Closes(t, e)
  PROVE  NoClose(t, q, e + 1)
  BY DEF NoClose

\* The scanner reads on while the loop waits: in plain text, after a dollar sign,
\* and in a name.
LEMMA PlainReads ==
  ASSUME NEW t \in Seq(STRING), NEW R \in Seq(STRING), NEW p \in Nat, NEW at \in Nat,
         p <= at, at < Len(t), NEW scan, Plain(t, p, at, R, scan)
  PROVE  \/ Plain(t, p, at + 1, R, Scan(scan, t[at + 1]))
         \/ Dollar(t, p, at + 1, R, Scan(scan, t[at + 1]))
  <1>1. NoMark(t, p, at + 1)
    <2>1. NoMark(t, p, at) /\ (p < at => ~Opens(t, at))
      BY Zenon DEF Plain, Opens
    <2> QED
      BY <2>1, NoMarkGrows
  <1>2. p < at + 1 /\ (at + 1) - 1 = at
    OBVIOUS
  <1>3. Append(R \o SubSeq(t, p + 1, at), t[at + 1]) = R \o SubSeq(t, p + 1, at + 1)
    BY OneMore
  <1>4. Scan(scan, t[at + 1]) =
          IF t[at + 1] = "$" THEN Scanner("dollar", R \o SubSeq(t, p + 1, at), <<>>)
          ELSE Scanner("text", R \o SubSeq(t, p + 1, at + 1), <<>>)
    BY <1>3, ScanText, Zenon DEF Plain
  <1> QED
    BY <1>1, <1>2, <1>4, Zenon DEF Plain, Dollar

LEMMA DollarReads ==
  ASSUME NEW t \in Seq(STRING), NEW R \in Seq(STRING), NEW p \in Nat, NEW at \in Nat,
         p <= at, at < Len(t), NEW scan, Dollar(t, p, at, R, scan)
  PROVE  \/ Plain(t, p, at + 1, R, Scan(scan, t[at + 1]))
         \/ Dollar(t, p, at + 1, R, Scan(scan, t[at + 1]))
         \/ at \in (p + 1)..((at + 1) - 1) /\ Naming(t, p, at, at + 1, R, Scan(scan, t[at + 1]))
  <1>1. p < at /\ NoMark(t, p, at)
    BY DEF Dollar
  <1>2. PICK m \in Nat : m = at - 1 /\ p <= m /\ m < Len(t) /\ m + 1 = at
    BY <1>1
  <1>3. Append(R \o SubSeq(t, p + 1, m), t[m + 1]) = R \o SubSeq(t, p + 1, m + 1)
    BY <1>2, OneMore
  <1>4. Append(R \o SubSeq(t, p + 1, at - 1), "$") = R \o SubSeq(t, p + 1, at)
    BY <1>2, <1>3, Zenon DEF Dollar
  <1>5. Append(R \o SubSeq(t, p + 1, at), t[at + 1]) = R \o SubSeq(t, p + 1, at + 1)
    BY OneMore
  <1>6. Scan(scan, t[at + 1]) =
          IF t[at + 1] = "{" THEN Scanner("name", R \o SubSeq(t, p + 1, at - 1), <<>>)
          ELSE IF t[at + 1] = "$" THEN Scanner("dollar", R \o SubSeq(t, p + 1, at), <<>>)
          ELSE Scanner("text", R \o SubSeq(t, p + 1, at + 1), <<>>)
    BY <1>4, <1>5, ScanDollar, Zenon DEF Dollar
  <1>7. p < at + 1 /\ (at + 1) - 1 = at /\ at \in (p + 1)..((at + 1) - 1)
    BY <1>1
  <1>8. CASE t[at + 1] = "{"
    <2>1. SubSeq(t, at + 2, at + 1) = <<>>
      <3>1. at + 2 \in Int /\ at + 1 \in Int /\ at + 1 < at + 2
        OBVIOUS
      <3> QED
        BY <3>1, SubSeqEmpty
    <2>2. NoClose(t, at + 1, (at + 1) + 1)
      BY DEF NoClose
    <2>3. Opens(t, at)
      BY <1>8, Zenon DEF Opens, Dollar
    <2> QED
      BY <1>1, <1>6, <1>7, <1>8, <2>1, <2>2, <2>3, Zenon DEF Naming
  <1>9. CASE t[at + 1] # "{"
    <2>1. ~Opens(t, at)
      BY <1>9, Zenon DEF Opens
    <2>2. NoMark(t, p, at + 1)
      BY <1>1, <2>1, NoMarkGrows
    <2> QED
      BY <1>6, <1>7, <1>9, <2>2, Zenon DEF Plain, Dollar
  <1> QED
    BY <1>8, <1>9

LEMMA NameReads ==
  ASSUME NEW t \in Seq(STRING), NEW R \in Seq(STRING), NEW p \in Nat, NEW at \in Nat,
         at < Len(t), NEW s \in (p + 1)..(at - 1), NEW scan, Naming(t, p, s, at, R, scan),
         ~Closes(t, at + 1)
  PROVE  s \in (p + 1)..((at + 1) - 1) /\ Naming(t, p, s, at + 1, R, Scan(scan, t[at + 1]))
  <1>1. s \in Nat /\ s + 1 \in Nat /\ at + 1 \in Nat /\ s + 1 <= at /\ (s + 1) + 1 = s + 2
    OBVIOUS
  <1>2. NoClose(t, s + 1, (at + 1) + 1)
    <2>1. NoClose(t, s + 1, at + 1)
      BY Zenon DEF Naming
    <2> QED
      BY <1>1, <2>1, NoCloseGrows
  <1>3. Append(SubSeq(t, (s + 1) + 1, at), t[at + 1]) = SubSeq(t, (s + 1) + 1, at + 1)
    BY <1>1, OneMore
  <1>4. Scan(scan, t[at + 1]) =
          Scanner("name", R \o SubSeq(t, p + 1, s - 1), SubSeq(t, s + 2, at + 1))
    <2>1. Append(SubSeq(t, s + 2, at), t[at + 1]) = SubSeq(t, s + 2, at + 1)
      BY <1>1, <1>3
    <2>2. t[at + 1] # "}"
      BY Zenon DEF Closes
    <2>3. scan = Scanner("name", R \o SubSeq(t, p + 1, s - 1), SubSeq(t, s + 2, at))
      BY Zenon DEF Naming
    <2>4. Scan(scan, t[at + 1]) =
            Scanner("name", R \o SubSeq(t, p + 1, s - 1), Append(SubSeq(t, s + 2, at), t[at + 1]))
      BY <2>2, <2>3, ScanName, Zenon
    <2> QED
      BY <2>1, <2>4, Zenon
  <1>5. s \in (p + 1)..((at + 1) - 1)
    OBVIOUS
  <1> QED
    BY <1>2, <1>4, <1>5, Zenon DEF Naming

\* Where the scanner closes a reference, the loop replaces it by the same value, and
\* both go on from there.
LEMMA NameCloses ==
  ASSUME NEW t \in Seq(STRING), NEW R \in Seq(STRING), NEW p \in Nat, NEW at \in Nat,
         at < Len(t), NEW s \in (p + 1)..(at - 1), NEW scan, Naming(t, p, s, at, R, scan),
         Closes(t, at + 1)
  PROVE  \E V \in Seq(STRING) :
           /\ interpolate_env_vars(Env, Loop(R, SubSeq(t, p + 1, Len(t)), FALSE)) =
                Loop(V, SubSeq(t, (at + 1) + 1, Len(t)), FALSE)
           /\ Plain(t, at + 1, at + 1, V, Scan(scan, t[at + 1]))
  <1>1. Len(t) \in Nat
    BY LenProperties
  <1>2. PICK e \in (s + 2)..Len(t) : e = at + 1 /\ e - 1 = at /\ e \in Nat
    BY <1>1
  <1>3. p \in 0..Len(t) /\ s \in (p + 1)..(Len(t) - 1)
    BY <1>1
  <1>4. Opens(t, s) /\ NoMark(t, p, s) /\ Closes(t, e) /\ NoClose(t, s + 1, e)
    BY <1>2, Zenon DEF Naming
  <1> DEFINE before == SubSeq(t, p + 1, s - 1)
             value == value_of(Env, SubSeq(t, s + 2, at))
             V == (R \o before) \o value
  <1>5. interpolate_env_vars(Env, Loop(R, SubSeq(t, p + 1, Len(t)), FALSE)) =
          Loop(V, SubSeq(t, e + 1, Len(t)), FALSE)
    <2>1. interpolate_env_vars(Env, Loop(R, SubSeq(t, p + 1, Len(t)), FALSE)) =
            Loop((R \o SubSeq(t, p + 1, s - 1)) \o value_of(Env, SubSeq(t, s + 2, e - 1)),
                 SubSeq(t, e + 1, Len(t)), FALSE)
      BY <1>3, <1>4, TurnReplaces
    <2> QED
      BY <1>2, <2>1, Zenon
  <1>6. V \in Seq(STRING)
    <2>1. before \in Seq(STRING)
      <3>1. \A i \in 1..Len(t) : t[i] \in STRING
        BY ElementOfSeq
      <3>2. p + 1 \in Int /\ s - 1 \in Int /\ \A i \in (p + 1)..(s - 1) : t[i] \in STRING
        BY <1>1, <3>1
      <3> QED
        BY <3>2, SubSeqProperties
    <2>2. value \in Seq(STRING)
      BY PureAssumption, EmptySeq, Zenon DEF value_of
    <2> HIDE DEF before, value
    <2>3. R \o before \in Seq(STRING)
      BY <2>1, ConcatProperties
    <2> QED
      BY <2>2, <2>3, ConcatProperties
  <1>7. Scan(scan, t[at + 1]) = Scanner("text", V, <<>>)
    BY ScanName, Zenon DEF Naming, Closes
  <1> HIDE DEF V
  <1>8. V \o SubSeq(t, e + 1, e) = V
    <2>1. SubSeq(t, e + 1, e) = <<>>
      <3>1. e + 1 \in Int /\ e \in Int /\ e < e + 1
        BY <1>2
      <3> QED
        BY <3>1, SubSeqEmpty
    <2> QED
      BY <1>6, <2>1, ConcatEmptySeq
  <1>9. NoMark(t, e, e) /\ ~(e < e)
    BY <1>2 DEF NoMark
  <1>10. Plain(t, e, e, V, Scan(scan, t[at + 1]))
    BY <1>7, <1>8, <1>9, Zenon DEF Plain
  <1> QED
    BY <1>2, <1>5, <1>6, <1>10, Zenon

\* Concatenation of texts is associative.
LEMMA Regroup ==
  ASSUME NEW x \in Seq(STRING), NEW y \in Seq(STRING), NEW z \in Seq(STRING)
  PROVE  (x \o y) \o z = x \o (y \o z)
  BY ConcatAssociative

\* The rest of a text after a reference opened at s.
LEMMA FromMark ==
  ASSUME NEW t \in Seq(STRING), NEW R \in Seq(STRING), NEW p \in Nat,
         NEW s \in (p + 1)..(Len(t) - 1), Opens(t, s)
  PROVE  (R \o SubSeq(t, p + 1, s - 1)) \o (MarkOpen \o SubSeq(t, s + 2, Len(t))) =
           R \o SubSeq(t, p + 1, Len(t))
  <1>1. Len(t) \in Nat /\ \A i \in 1..Len(t) : t[i] \in STRING
    BY LenProperties, ElementOfSeq
  <1>2. s \in Nat /\ p < s /\ s < Len(t)
    BY <1>1
  <1>3. \A a, b \in Nat : a >= 1 /\ b <= Len(t) => SubSeq(t, a, b) \in Seq(STRING)
    <2> TAKE a, b \in Nat
    <2> HAVE a >= 1 /\ b <= Len(t)
    <2>1. a \in Int /\ b \in Int /\ \A i \in a..b : t[i] \in STRING
      BY <1>1
    <2> QED
      BY <2>1, SubSeqProperties
  <1>4. PICK b \in Seq(STRING) : b = SubSeq(t, p + 1, s - 1)
    <2>1. p + 1 \in Nat /\ s - 1 \in Nat /\ p + 1 >= 1 /\ s - 1 <= Len(t)
      BY <1>1, <1>2
    <2> QED
      BY <1>3, <2>1, Zenon
  <1>5. PICK n \in Seq(STRING) : n = SubSeq(t, s + 2, Len(t))
    <2>1. s + 2 \in Nat /\ s + 2 >= 1 /\ Len(t) <= Len(t)
      BY <1>1, <1>2
    <2> QED
      BY <1>1, <1>3, <2>1, Zenon
  <1>6. PICK m \in Seq(STRING) : m = MarkOpen /\ m = SubSeq(t, s, s + 1)
    <2>1. s \in 1..(Len(t) - 1)
      BY <1>1, <1>2
    <2>2. SubSeq(t, s, s + 1) = MarkOpen
      BY <2>1, OpenMatches
    <2>3. SubSeq(t, s, s + 1) \in Seq(STRING)
      BY <1>1, <1>2, <1>3
    <2> QED
      BY <2>2, <2>3, Zenon
  <1>7. m \o n = SubSeq(t, s, Len(t))
    <2>1. s \in 1..(Len(t) + 1) /\ s + 1 \in (s - 1)..Len(t) /\ Len(t) \in (s + 1)..Len(t)
          /\ (s + 1) + 1 = s + 2
      BY <1>1, <1>2
    <2>2. SubSeq(t, s, s + 1) \o SubSeq(t, (s + 1) + 1, Len(t)) = SubSeq(t, s, Len(t))
      BY <2>1, ConcatAdjacentSubSeq
    <2> QED
      BY <1>5, <1>6, <2>1, <2>2
  <1>8. b \o (m \o n) = SubSeq(t, p + 1, Len(t))
    <2>1. p + 1 \in 1..(Len(t) + 1) /\ s - 1 \in ((p + 1) - 1)..Len(t)
          /\ Len(t) \in (s - 1)..Len(t) /\ (s - 1) + 1 = s
      BY <1>1, <1>2
    <2>2. SubSeq(t, p + 1, s - 1) \o SubSeq(t, (s - 1) + 1, Len(t)) = SubSeq(t, p + 1, Len(t))
      BY <2>1, ConcatAdjacentSubSeq
    <2> QED
      BY <1>4, <1>7, <2>1, <2>2
  <1>9. PICK mn \in Seq(STRING) : mn = m \o n
    BY ConcatProperties
  <1>10. (R \o b) \o mn = R \o (b \o mn)
    BY Regroup
  <1> QED
    BY <1>4, <1>5, <1>6, <1>8, <1>9, <1>10, Zenon

\* A text whose loop has a turn to go stands where the scanner says, and one whose
\* loop has returned has been read to the end, with the same result.
Abreast(t, at, scan, loop) ==
  \E p \in 0..at, R \in Seq(STRING) :
    /\ loop = Loop(R, SubSeq(t, p + 1, Len(t)), FALSE)
    /\ \/ Plain(t, p, at, R, scan)
       \/ Dollar(t, p, at, R, scan)
       \/ \E s \in (p + 1)..(at - 1) : Naming(t, p, s, at, R, scan)

Agreed(t, at, scan, loop) ==
  at = Len(t) /\ loop = Loop(Scanned(scan), <<>>, TRUE)

TextRight ==
  input.kind = "text" =>
    \E t \in Seq(STRING), at \in Nat : \E scan, loop :
      /\ input = Reading(t, at, scan, loop) /\ at <= Len(t)
      /\ Abreast(t, at, scan, loop) \/ Agreed(t, at, scan, loop)

\* A character is read, and the loop takes a turn if that closes a reference.
LEMMA StaysAbreast ==
  ASSUME NEW t \in Seq(STRING), NEW at \in Nat, at < Len(t), NEW scan, NEW loop,
         Abreast(t, at, scan, loop)
  PROVE  Abreast(t, at + 1, Scan(scan, t[at + 1]),
                 IF (scan.mode = "name" /\ t[at + 1] = "}") /\ ~loop.done
                 THEN interpolate_env_vars(Env, loop) ELSE loop)
  <1>1. PICK p \in 0..at, R \in Seq(STRING) :
          /\ loop = Loop(R, SubSeq(t, p + 1, Len(t)), FALSE)
          /\ \/ Plain(t, p, at, R, scan)
             \/ Dollar(t, p, at, R, scan)
             \/ \E s \in (p + 1)..(at - 1) : Naming(t, p, s, at, R, scan)
    BY Zenon DEF Abreast
  <1>2. p \in Nat /\ p <= at /\ p \in 0..(at + 1) /\ at + 1 \in 0..(at + 1)
    OBVIOUS
  <1>3. ~loop.done
    BY <1>1 DEF Loop
  <1>4. CASE Plain(t, p, at, R, scan)
    <2>1. scan.mode = "text"
      BY <1>4 DEF Plain, Scanner
    <2> QED
      BY <1>1, <1>2, <1>4, <2>1, PlainReads, Zenon DEF Abreast
  <1>5. CASE Dollar(t, p, at, R, scan)
    <2>1. scan.mode = "dollar"
      BY <1>5 DEF Dollar, Scanner
    <2> QED
      BY <1>1, <1>2, <1>5, <2>1, DollarReads, Zenon DEF Abreast
  <1>6. CASE \E s \in (p + 1)..(at - 1) : Naming(t, p, s, at, R, scan)
    <2>1. PICK s \in (p + 1)..(at - 1) : Naming(t, p, s, at, R, scan)
      BY <1>6
    <2>2. scan.mode = "name"
      BY <2>1 DEF Naming, Scanner
    <2>3. CASE Closes(t, at + 1)
      <3>1. PICK V \in Seq(STRING) :
              /\ interpolate_env_vars(Env, loop) = Loop(V, SubSeq(t, (at + 1) + 1, Len(t)), FALSE)
              /\ Plain(t, at + 1, at + 1, V, Scan(scan, t[at + 1]))
        BY <1>1, <1>2, <2>1, <2>3, NameCloses, Zenon
      <3>2. t[at + 1] = "}"
        BY <2>3, Zenon DEF Closes
      <3> QED
        BY <1>2, <1>3, <2>2, <3>1, <3>2, Zenon DEF Abreast
    <2>4. CASE ~Closes(t, at + 1)
      <3>1. t[at + 1] # "}"
        BY <2>4, Zenon DEF Closes
      <3> QED
        BY <1>1, <1>2, <2>1, <2>4, <3>1, NameReads, Zenon DEF Abreast
    <2> QED
      BY <2>3, <2>4
  <1> QED
    BY <1>1, <1>4, <1>5, <1>6

\* The last turn, at the end of the text.
LEMMA EndsAgreed ==
  ASSUME NEW t \in Seq(STRING), NEW scan, NEW loop, Abreast(t, Len(t), scan, loop)
  PROVE  Agreed(t, Len(t), scan, interpolate_env_vars(Env, loop))
  <1>1. PICK p \in 0..Len(t), R \in Seq(STRING) :
          /\ loop = Loop(R, SubSeq(t, p + 1, Len(t)), FALSE)
          /\ \/ Plain(t, p, Len(t), R, scan)
             \/ Dollar(t, p, Len(t), R, scan)
             \/ \E s \in (p + 1)..(Len(t) - 1) : Naming(t, p, s, Len(t), R, scan)
    BY Zenon DEF Abreast
  <1>2. Len(t) \in Nat /\ p \in Nat /\ p <= Len(t)
    BY LenProperties
  <1>3. interpolate_env_vars(Env, loop) = Loop(R \o SubSeq(t, p + 1, Len(t)), <<>>, TRUE)
    <2>1. \/ NoMark(t, p, Len(t))
          \/ \E s \in (p + 1)..(Len(t) - 1) :
               Opens(t, s) /\ NoMark(t, p, s) /\ NoClose(t, s + 1, Len(t) + 1)
      BY <1>1, Zenon DEF Plain, Dollar, Naming
    <2> QED
      BY <1>1, <2>1, TurnCopies, Zenon
  <1>4. Scanned(scan) = R \o SubSeq(t, p + 1, Len(t))
    <2>1. CASE Plain(t, p, Len(t), R, scan)
      BY <2>1 DEF Plain, Scanned, Scanner
    <2>2. CASE Dollar(t, p, Len(t), R, scan)
      <3>1. p < Len(t)
        BY <2>2 DEF Dollar
      <3>2. PICK m \in Nat : m = Len(t) - 1 /\ p <= m /\ m < Len(t) /\ m + 1 = Len(t)
        <4>1. Len(t) - 1 \in Nat /\ p <= Len(t) - 1 /\ Len(t) - 1 < Len(t) /\ (Len(t) - 1) + 1 = Len(t)
          BY <1>2, <3>1
        <4> QED
          BY <4>1, Zenon
      <3>3. Append(R \o SubSeq(t, p + 1, m), t[m + 1]) = R \o SubSeq(t, p + 1, m + 1)
        BY <1>2, <3>2, OneMore
      <3>4. Append(R \o SubSeq(t, p + 1, Len(t) - 1), "$") = R \o SubSeq(t, p + 1, Len(t))
        BY <2>2, <3>2, <3>3, Zenon DEF Dollar
      <3>5. Scanned(scan) = Append(R \o SubSeq(t, p + 1, Len(t) - 1), "$")
        BY <2>2 DEF Dollar, Scanned, Scanner
      <3> QED
        BY <3>4, <3>5
    <2>3. CASE \E s \in (p + 1)..(Len(t) - 1) : Naming(t, p, s, Len(t), R, scan)
      <3>1. PICK s \in (p + 1)..(Len(t) - 1) : Naming(t, p, s, Len(t), R, scan)
        BY <2>3
      <3>2. Scanned(scan) =
              (R \o SubSeq(t, p + 1, s - 1)) \o (MarkOpen \o SubSeq(t, s + 2, Len(t)))
        BY <3>1 DEF Naming, Scanned, Scanner
      <3>3. Opens(t, s)
        BY <3>1 DEF Naming
      <3> QED
        BY <1>2, <3>2, <3>3, FromMark, Zenon
    <2> QED
      BY <1>1, <2>1, <2>2, <2>3
  <1> QED
    BY <1>3, <1>4, Zenon DEF Agreed

\* config.rs:305, interpolate_env_vars: for texts of any length, any environment and
\* any values, the loop gives what one pass gives.
THEOREM InterpolationInOnePass == PureSpec => []InterpolationIsOnePass
<1>1. PureInit => TextRight
  <2> SUFFICES ASSUME NEW t \in Texts, input = Unread(t) PROVE TextRight
    BY DEF PureInit, TextRight, Clock
  <2>1. t \in Seq(STRING) /\ Len(t) \in Nat /\ 0 \in Nat /\ 0 <= Len(t)
    BY PureAssumption, LenProperties
  <2>2. SubSeq(t, 0 + 1, Len(t)) = t
    BY <2>1, SubSeqFull
  <2>3. Plain(t, 0, 0, <<>>, Scanner("text", <<>>, <<>>))
    <3>1. NoMark(t, 0, 0) /\ ~(0 < 0)
      BY DEF NoMark
    <3>2. <<>> \o SubSeq(t, 0 + 1, 0) = <<>>
      BY SubSeqEmpty, ConcatEmptySeq, EmptySeq
    <3> QED
      BY <3>1, <3>2, Zenon DEF Plain
  <2>4. Abreast(t, 0, Scanner("text", <<>>, <<>>), Loop(<<>>, t, FALSE))
    <3>1. 0 \in 0..0 /\ <<>> \in Seq(STRING)
      BY EmptySeq
    <3> QED
      BY <2>2, <2>3, <3>1, Zenon DEF Abreast
  <2> QED
    BY <2>1, <2>4, Zenon DEF TextRight, Unread
<1>2. TextRight /\ [PureNext]_input => TextRight'
  <2> SUFFICES ASSUME TextRight, PureNext PROVE TextRight'
    BY DEF TextRight
  <2>1. CASE NextSecond \/ NextDay
    BY <2>1 DEF NextSecond, NextDay, TextRight, Clock
  <2>2. CASE ReadCharacter \/ FinishLoop
    <3>0. PICK t \in Seq(STRING), at \in Nat : \E scan, loop :
            /\ input = Reading(t, at, scan, loop) /\ at <= Len(t)
            /\ Abreast(t, at, scan, loop) \/ Agreed(t, at, scan, loop)
      BY <2>2, Zenon DEF TextRight, ReadCharacter, FinishLoop
    <3>1. PICK scan, loop :
            /\ input = Reading(t, at, scan, loop) /\ at <= Len(t)
            /\ Abreast(t, at, scan, loop) \/ Agreed(t, at, scan, loop)
      BY <3>0, Zenon
    <3>2. input.text = t /\ input.at = at /\ input.scan = scan /\ input.loop = loop
      BY <3>1 DEF Reading
    <3>3. Len(t) \in Nat
      BY LenProperties
    <3>4. CASE ReadCharacter
      <4>1. at < Len(t) /\ at # Len(t) /\ at + 1 \in Nat /\ at + 1 <= Len(t)
        <5>1. at < Len(t)
          BY <3>2, <3>4, Zenon DEF ReadCharacter
        <5> QED
          BY <3>3, <5>1
      <4>2. Abreast(t, at, scan, loop)
        BY <3>1, <4>1, Zenon DEF Agreed
      <4>3. input' = Reading(t, at + 1, Scan(scan, t[at + 1]),
                             IF (scan.mode = "name" /\ t[at + 1] = "}") /\ ~loop.done
                             THEN interpolate_env_vars(Env, loop) ELSE loop)
        BY <3>2, <3>4, Zenon DEF ReadCharacter
      <4>4. Abreast(t, at + 1, Scan(scan, t[at + 1]),
                    IF (scan.mode = "name" /\ t[at + 1] = "}") /\ ~loop.done
                    THEN interpolate_env_vars(Env, loop) ELSE loop)
        BY <4>1, <4>2, StaysAbreast, Zenon
      <4> QED
        BY <4>1, <4>3, <4>4, Zenon DEF TextRight
    <3>5. CASE FinishLoop
      <4>1. at = Len(t) /\ ~loop.done
        BY <3>2, <3>5 DEF FinishLoop
      <4>2. Abreast(t, at, scan, loop)
        BY <3>1, <4>1 DEF Agreed, Loop
      <4>3. Agreed(t, at, scan, interpolate_env_vars(Env, loop))
        BY <4>1, <4>2, EndsAgreed, Zenon
      <4>4. input' = Reading(t, at, scan, interpolate_env_vars(Env, loop))
        BY <3>2, <3>5, Zenon DEF FinishLoop
      <4> QED
        BY <3>1, <4>3, <4>4, Zenon DEF TextRight
    <3> QED
      BY <2>2, <3>4, <3>5
  <2> QED
    BY <2>1, <2>2 DEF PureNext
<1>3. TextRight => InterpolationIsOnePass
  <2> SUFFICES ASSUME TextRight, input.kind = "text", input.loop.done
               PROVE  input.loop.result = Scanned(input.scan)
    BY DEF InterpolationIsOnePass
  <2>1. PICK t, at, scan, loop :
          /\ input = Reading(t, at, scan, loop)
          /\ Abreast(t, at, scan, loop) \/ Agreed(t, at, scan, loop)
    BY Zenon DEF TextRight
  <2>2. input.scan = scan /\ input.loop = loop
    BY <2>1 DEF Reading
  <2>3. ~Abreast(t, at, scan, loop)
    BY <2>2 DEF Abreast, Loop
  <2> QED
    BY <2>1, <2>2, <2>3 DEF Agreed, Loop
<1> QED BY <1>1, <1>2, <1>3, PTL DEF PureSpec

-----------------------------------------------------------------------------
\* Steps of a request that leave everything else alone.

\* The name of a request is a string.
LEMMA NameIsString == ASSUME TypeOK PROVE req.name \in Seq(STRING)
  BY DispatchAssumption, EmptySeq DEF TypeOK

\* The histories stay current while nothing but the request changes.
LEMMA HistoriesKept ==
  ASSUME IInv, UNCHANGED <<env, history>>, req.at # "idle"
  PROVE  HistoriesCurrent'
  BY DEF IInv, HistoriesCurrent, env, history, all_leaves, Registered, is_healthy

\* A request that is no list is answered.
LEMMA AnswerKeeps ==
  ASSUME IInv, NEW a \in Answers \ {"none"}, Answer(req, a), UNCHANGED <<env, changes, history>>,
         req.at # "idle", req.method \notin ListMethods
  PROVE  IInv'
  <1>1. TypeOK'
    BY DEF IInv, TypeOK, Answer, env, history, Idle, Answers
  <1>2. ServedInWindow'
    BY DEF IInv, TypeOK, ServedInWindow, Answer, env, history, Idle
  <1>3. HistoriesCurrent'
    BY HistoriesKept DEF env, history
  <1>4. ListSoFar'
    BY DEF IInv, TypeOK, ListSoFar, Answer, Idle
  <1>5. CallSoFar'
    BY DEF IInv, TypeOK, CallSoFar, Routed, Forbidden, IsNative, Answer, Idle
  <1> QED
    BY <1>1, <1>2, <1>3, <1>4, <1>5 DEF IInv

\* Methods answered on the spot, refusals, and the ends of calls.
LEMMA AnsweringSteps ==
  ASSUME IInv,
         Acknowledge \/ Decline \/ SetLevel \/ Refuse \/ CallLeaf \/ NativeRefuse \/ EndNative
  PROVE  IInv'
  <1>1. PICK a \in Answers \ {"none"} : Answer(req, a)
    BY DEF Acknowledge, Decline, SetLevel, Refuse, CallLeaf, NativeRefuse, EndNative,
           LeafReplies, Answers
  <1>2. req.method \notin ListMethods /\ req.at # "idle"
    BY DEF Acknowledge, Decline, SetLevel, Refuse, CallLeaf, NativeRefuse, EndNative,
           Native, IsNative, ListMethods, CallMethods, IInv, CallSoFar
  <1>3. UNCHANGED <<env, changes, history>>
    BY DEF Acknowledge, Decline, SetLevel, Refuse, CallLeaf, NativeRefuse, EndNative
  <1> QED
    BY <1>1, <1>2, <1>3, AnswerKeeps

-----------------------------------------------------------------------------
\* Lists.

\* healthy_leaves begins: what is registered now is to be looked at.
LEMMA BeginListKeeps == ASSUME IInv, BeginList PROVE IInv'
  <1>1. TypeOK'
    BY DispatchAssumption DEF IInv, TypeOK, BeginList, env, history, Idle, all_leaves
  <1>2. ServedInWindow'
    BY DEF IInv, TypeOK, ServedInWindow, CallSoFar, BeginList, Idle, ListMethods, CallMethods
  <1>3. HistoriesCurrent'
    BY HistoriesKept DEF BeginList, env, history
  <1>4. ListSoFar'
    <2>1. \A p \in steady : p[1] \in all_leaves
      BY DEF IInv, TypeOK, HistoriesCurrent, BeginList, all_leaves
    <2>2. all_leaves' = all_leaves /\ UNCHANGED <<served, steady>>
      BY DEF BeginList, env, history, all_leaves, Registered
    <2>3. /\ req'.at = "gather" /\ req'.method = req.method /\ req.method \in ListMethods
          /\ req'.todo = all_leaves /\ req'.found = req.found
          /\ req'.shown = IF req.method = "tools/list" THEN {NoEntry} \X native_tools ELSE {}
      BY DEF IInv, TypeOK, BeginList, Idle
    <2>4. req.found = {}
      BY DEF IInv, ListSoFar, BeginList
    <2> QED
      BY <2>1, <2>2, <2>3, <2>4 DEF ListSoFar
  <1>5. CallSoFar'
    BY DEF IInv, TypeOK, CallSoFar, BeginList, Idle, Routed, Forbidden, IsNative
  <1> QED
    BY <1>1, <1>2, <1>3, <1>4, <1>5 DEF IInv

\* One entry is looked at under the lock.
LEMMA GatherKeeps == ASSUME IInv, NEW e \in Entries, Gather(e) PROVE IInv'
  <1>1. TypeOK'
    BY DEF IInv, TypeOK, Gather, env, history, Idle
  <1>2. ServedInWindow'
    BY DEF IInv, TypeOK, ServedInWindow, Gather, env, history, Idle
  <1>3. HistoriesCurrent'
    BY HistoriesKept DEF Gather, env, history
  <1>4. ListSoFar'
    <2>1. is_healthy(e) => e \in served
      BY DEF IInv, HistoriesCurrent, ListSoFar, Gather
    <2>2. \A p \in steady : p[1] = e => is_healthy(e)
      BY DEF IInv, HistoriesCurrent, Gather
    <2>3. all_leaves' = all_leaves /\ UNCHANGED <<served, steady>>
      BY DEF Gather, env, history, all_leaves, Registered
    <2>4. /\ req'.at = "gather" /\ req'.method = req.method /\ req'.shown = req.shown
          /\ req'.todo = req.todo \ {e}
          /\ req'.found = IF is_healthy(e) THEN req.found \cup {e} ELSE req.found
      BY DEF IInv, TypeOK, Gather, Idle
    <2> QED
      BY <2>1, <2>2, <2>3, <2>4 DEF IInv, ListSoFar, Gather
  <1>5. CallSoFar'
    BY DEF IInv, TypeOK, CallSoFar, Gather, Idle, Routed, Forbidden, IsNative
  <1> QED
    BY <1>1, <1>2, <1>3, <1>4, <1>5 DEF IInv

\* The lock is released.
LEMMA GatheredKeeps == ASSUME IInv, Gathered PROVE IInv'
  <1>1. TypeOK'
    BY DEF IInv, TypeOK, Gathered, env, history, Idle
  <1>2. ServedInWindow'
    BY DEF IInv, TypeOK, ServedInWindow, ListSoFar, Gathered, env, history, Idle
  <1>3. HistoriesCurrent'
    BY HistoriesKept DEF Gathered, env, history
  <1>4. ListSoFar'
    BY DEF IInv, TypeOK, ListSoFar, Gathered, history, Idle
  <1>5. CallSoFar'
    BY DEF IInv, TypeOK, CallSoFar, Gathered, Idle, Routed, Forbidden, IsNative
  <1> QED
    BY <1>1, <1>2, <1>3, <1>4, <1>5 DEF IInv

\* The cached list of an entry is read, for a list or for search_tools.
LEMMA ReadListKeeps == ASSUME IInv, NEW e \in Entries, ReadList(e) PROVE IInv'
  <1>1. /\ req'.at = "read" /\ req'.todo = req.todo \ {e}
        /\ req'.shown = req.shown \cup ({e} \X offers[e])
        /\ req'.method = req.method /\ req'.found = req.found /\ req'.called = req.called
        /\ req'.name = req.name /\ req'.ctx = req.ctx /\ req'.answer = req.answer
        /\ DOMAIN req' = DOMAIN req /\ e \in req.todo /\ req.at = "read"
    BY DEF IInv, TypeOK, ReadList, Idle
  <1>2. UNCHANGED <<env, changes, history>>
    BY DEF ReadList
  <1>3. offers[e] \subseteq ItemNames
    BY DEF IInv, TypeOK, Lists
  <1>4. TypeOK'
    BY <1>1, <1>2, <1>3 DEF IInv, TypeOK, env, history
  <1>5. ServedInWindow'
    <2>1. req.method \in ListMethods => e \in served
      BY <1>1 DEF IInv, ServedInWindow, ListSoFar
    <2>2. \A p \in req'.shown : p \in req.shown \/ p[1] = e
      BY <1>1
    <2> QED
      BY <1>1, <1>2, <2>1, <2>2 DEF IInv, ServedInWindow, history
  <1>6. HistoriesCurrent'
    BY <1>1, <1>2, HistoriesKept
  <1>7. ListSoFar'
    <2>1. ASSUME NEW p \in steady, p[1] = e PROVE p \in {e} \X offers[e]
      BY <1>1, <2>1 DEF IInv, TypeOK, HistoriesCurrent
    <2> QED
      BY <1>1, <1>2, <2>1 DEF IInv, ListSoFar, history
  <1>8. CallSoFar'
    BY <1>1, <1>2 DEF IInv, CallSoFar, Routed, Forbidden, IsNative
  <1> QED
    BY <1>4, <1>5, <1>6, <1>7, <1>8 DEF IInv

\* The list is filtered and answered.
LEMMA EndListKeeps == ASSUME IInv, EndList PROVE IInv'
  <1>1. /\ req'.at = "answered" /\ req'.todo = {} /\ req'.found = {} /\ req'.answer = "result"
        /\ req'.shown = retained(req)
        /\ req'.method = req.method /\ req'.called = req.called
        /\ req'.name = req.name /\ req'.ctx = req.ctx
        /\ DOMAIN req' = DOMAIN req /\ req.at = "read"
    BY DEF IInv, TypeOK, EndList, Answer, Idle
  <1>2. UNCHANGED <<env, changes, history>>
    BY DEF EndList
  <1>3. retained(req) \subseteq req.shown
    BY DEF retained
  <1>4. TypeOK'
    BY <1>1, <1>2, <1>3 DEF IInv, TypeOK, Answers, env, history
  <1>5. ServedInWindow'
    BY <1>1, <1>2, <1>3 DEF IInv, ServedInWindow, history
  <1>6. HistoriesCurrent'
    BY <1>1, <1>2, HistoriesKept
  <1>7. ListSoFar' /\ CallSoFar'
    BY <1>1, <1>2 DEF IInv, ListSoFar, CallSoFar, Routed, Forbidden, IsNative
  <1> QED
    BY <1>4, <1>5, <1>6, <1>7 DEF IInv

-----------------------------------------------------------------------------
\* Calls.

\* What get_leaf finds is the registered entry of that alias.
LEMMA GetLeafFacts ==
  ASSUME TypeOK, NEW a, get_leaf(a) # NoEntry
  PROVE  /\ get_leaf(a) \in all_leaves
         /\ aliasOf[get_leaf(a)] = a
  <1>1. a \in Aliases /\ get_leaf(a) = registered[a]
    BY DEF get_leaf
  <1> QED
    BY <1>1 DEF TypeOK, all_leaves, Registered

\* The entry is looked up after the context was checked.
LEMMA RouteKeeps == ASSUME IInv, Route PROVE IInv'
  <1> DEFINE target == Target(req)
  <1>1. target \in all_leaves /\ aliasOf[target] = parse_namespaced_name(req.name)[1]
    BY GetLeafFacts DEF Route, Target, IInv
  <1>2. target \in Entries /\ target \in seen
    BY <1>1 DEF IInv, HistoriesCurrent, Route, all_leaves
  <1> HIDE DEF target
  <1>3. /\ req'.at = "probe" /\ req'.found = {target} /\ req'.todo = req.todo
        /\ req'.shown = req.shown /\ req'.answer = req.answer
        /\ req'.method = req.method /\ req'.called = req.called
        /\ req'.name = req.name /\ req'.ctx = req.ctx
        /\ DOMAIN req' = DOMAIN req /\ req.at = "dispatch" /\ req.method \in CallMethods
    BY DEF IInv, TypeOK, Route, Idle, target
  <1>4. UNCHANGED <<env, changes, history>>
    BY DEF Route
  <1>5. TypeOK'
    BY <1>2, <1>3, <1>4 DEF IInv, TypeOK, env, history
  <1>6. ServedInWindow'
    BY <1>3, <1>4 DEF IInv, ServedInWindow, history
  <1>7. HistoriesCurrent'
    BY <1>3, <1>4, HistoriesKept
  <1>8. ListSoFar'
    BY <1>3 DEF ListSoFar
  <1>9. CallSoFar'
    BY <1>1, <1>2, <1>3, <1>4
    DEF IInv, CallSoFar, Routed, Forbidden, IsNative, Route, history
  <1> QED
    BY <1>5, <1>6, <1>7, <1>8, <1>9 DEF IInv

\* Its health is read, and it is called under its own name for what was asked.
LEMMA ProbeKeeps == ASSUME IInv, NEW e \in Entries, Probe(e) PROVE IInv'
  <1> DEFINE tool == parse_namespaced_name(req.name)[2]
  <1>1. req.at = "probe" /\ e \in req.found /\ Routed(e) /\ e \in seen
    BY DEF IInv, CallSoFar, Probe
  <1>2. UNCHANGED <<env, changes, history>>
    BY DEF Probe
  <1>3. CASE ~is_healthy(e)
    <2>1. Answer(req, "-32000")
      BY <1>3 DEF Probe
    <2> QED
      BY <1>1, <1>2, <2>1, AnswerKeeps DEF Routed, Answers, CallMethods, ListMethods
  <1>4. CASE is_healthy(e)
    <2>1. /\ tool \in Seq(STRING)
          /\ namespaced(parse_namespaced_name(req.name)[1], tool) = req.name
      BY <1>1, NameIsString, SplitPublished DEF Routed, IInv
    <2>2. e \in fit
      BY <1>1, <1>4 DEF IInv, HistoriesCurrent
    <2>3. /\ req'.at = "call" /\ req'.called = <<e, tool>>
          /\ req'.found = req.found /\ req'.todo = req.todo
          /\ req'.shown = req.shown /\ req'.answer = req.answer
          /\ req'.method = req.method
          /\ req'.name = req.name /\ req'.ctx = req.ctx
          /\ DOMAIN req' = DOMAIN req
      BY <1>4 DEF IInv, TypeOK, Probe, Idle
    <2> HIDE DEF tool
    <2>4. TypeOK'
      BY <1>1, <1>2, <2>1, <2>3 DEF IInv, TypeOK, env, history
    <2>5. ServedInWindow'
      <3>1. namespaced(aliasOf[e], tool) = req.name
        BY <1>1, <2>1 DEF Routed
      <3> QED
        BY <1>1, <1>2, <2>2, <2>3, <3>1 DEF IInv, ServedInWindow, history
    <2>6. HistoriesCurrent'
      BY <1>1, <1>2, HistoriesKept
    <2>7. ListSoFar'
      BY <2>3 DEF ListSoFar
    <2>8. CallSoFar'
      BY <1>1, <2>3 DEF IInv, CallSoFar, Routed, Forbidden, IsNative, tool
    <2> QED
      BY <2>4, <2>5, <2>6, <2>7, <2>8 DEF IInv
  <1> QED
    BY <1>3, <1>4

\* The native tools that look at entries one by one.
LEMMA NativeKeeps ==
  ASSUME IInv, NEW a, NativeReport(a) \/ NativeSearch(a) \/ NativeRefresh(a)
  PROVE  IInv'
  <1> DEFINE ws == {"inspect", "read", "relist"}
  <1>1. req.at = "dispatch" /\ req.method = "tools/call"
    BY DEF NativeReport, NativeSearch, NativeRefresh, Native, IsNative
  <1>2. UNCHANGED <<env, changes, history>>
    BY DEF NativeReport, NativeSearch, NativeRefresh
  <1>3. all_leaves \subseteq Entries /\ (get_leaf(a) # NoEntry => get_leaf(a) \in Entries)
    BY GetLeafFacts DEF IInv, all_leaves
  <1>4. PICK w \in ws, todo \in SUBSET Entries : req' = [req EXCEPT !.at = w, !.todo = todo]
    <2>1. CASE NativeReport(a)
      <3>1. PICK todo \in SUBSET Entries :
              todo = IF a = NoAlias THEN all_leaves ELSE {get_leaf(a)}
        BY <1>3, <2>1 DEF NativeReport, NoAlias
      <3> QED
        BY <2>1, <3>1 DEF NativeReport
    <2>2. CASE NativeSearch(a)
      <3>1. PICK todo \in SUBSET Entries :
              todo = IF a = NoAlias THEN all_leaves ELSE {get_leaf(a)}
        BY <1>3, <2>2 DEF NativeSearch
      <3> QED
        BY <2>2, <3>1 DEF NativeSearch
    <2>3. CASE NativeRefresh(a)
      <3>1. PICK todo \in SUBSET Entries :
              todo = IF a = NoAlias THEN all_leaves ELSE {get_leaf(a)} \ {NoEntry}
        BY <1>3
      <3> QED
        BY <2>3, <3>1 DEF NativeRefresh
    <2> QED
      BY <2>1, <2>2, <2>3
  <1>5. /\ req'.at = w /\ req'.todo = todo /\ req'.called = req.called
        /\ req'.found = req.found /\ req'.shown = req.shown /\ req'.answer = req.answer
        /\ req'.method = req.method /\ req'.name = req.name /\ req'.ctx = req.ctx
        /\ DOMAIN req' = DOMAIN req
    BY <1>4 DEF IInv, TypeOK, Idle
  <1>6. TypeOK'
    BY <1>1, <1>2, <1>4, <1>5 DEF IInv, TypeOK, env, history
  <1>7. ServedInWindow'
    BY <1>1, <1>2, <1>5 DEF IInv, ServedInWindow, ListMethods, history
  <1>8. HistoriesCurrent'
    BY <1>1, <1>2, HistoriesKept
  <1>9. ListSoFar'
    BY <1>1, <1>4, <1>5 DEF ListSoFar, ListMethods
  <1>10. CallSoFar'
    BY <1>1, <1>4, <1>5 DEF IInv, CallSoFar
  <1> QED
    BY <1>6, <1>7, <1>8, <1>9, <1>10 DEF IInv

\* One entry of a report is read.
LEMMA InspectKeeps == ASSUME IInv, NEW e \in Entries, Inspect(e) PROVE IInv'
  <1>1. TypeOK'
    BY DEF IInv, TypeOK, Inspect, env, history, Idle
  <1>2. ServedInWindow'
    BY DEF IInv, TypeOK, ServedInWindow, Inspect, env, history, Idle
  <1>3. HistoriesCurrent'
    BY HistoriesKept DEF Inspect, env, history
  <1>4. ListSoFar' /\ CallSoFar'
    BY DEF IInv, TypeOK, ListSoFar, CallSoFar, Inspect, Idle, Routed, Forbidden, IsNative
  <1> QED
    BY <1>1, <1>2, <1>3, <1>4 DEF IInv

-----------------------------------------------------------------------------
\* Steps of the environment, and refresh, which replaces lists as well.

\* What may become of the registry, of health and of the lists in one step.
EnvTypes ==
  /\ registered' \in [Aliases -> Entries \cup {NoEntry}]
  /\ \A a \in Aliases : registered'[a] # NoEntry => aliasOf[registered'[a]] = a
  /\ health' \in [Entries -> {"Unknown", "Healthy", "Unhealthy"}]
  /\ offers' \in [Entries -> Lists]

\* Observing the next moment of a request, its histories grow, what is steady
\* shrinks, and both are current again.
LEMMA ObserveFacts ==
  ASSUME IInv, Observe, req.at # "idle"
  PROVE  /\ seen \subseteq seen' /\ fit \subseteq fit' /\ served \subseteq served'
         /\ steady' \subseteq steady /\ from' = from
         /\ seen' \subseteq Entries /\ fit' \subseteq Entries /\ served' \subseteq Entries
         /\ HistoriesCurrent'
  <1>1. /\ seen' = seen \cup {e \in Entries : registered'[aliasOf[e]] = e}
        /\ fit' = fit \cup {e \in Entries : health'[e] # "Unhealthy"}
        /\ served' = served \cup ({e \in Entries : registered'[aliasOf[e]] = e}
                                    \cap {e \in Entries : health'[e] # "Unhealthy"})
    BY DEF Observe
  <1>2. /\ steady' \subseteq steady /\ from' = from
        /\ \A p \in steady' : /\ registered'[aliasOf[p[1]]] = p[1]
                              /\ health'[p[1]] # "Unhealthy"
                              /\ p[2] \in offers'[p[1]]
    BY DEF Observe
  <1>3. HistoriesCurrent'
    BY <1>1, <1>2 DEF HistoriesCurrent, all_leaves, Registered, is_healthy
  <1> QED
    BY <1>1, <1>2, <1>3 DEF IInv, TypeOK

\* While there is no request there is nothing to remember.
LEMMA ObserveIdle ==
  ASSUME IInv, Observe, req.at = "idle"
  PROVE  seen' = {} /\ fit' = {} /\ served' = {} /\ steady' \subseteq steady /\ from' = from
  BY DEF Observe

\* A step of the environment that is observed.
LEMMA ObservedKeeps ==
  ASSUME IInv, EnvTypes, Observe, UNCHANGED req, token_file' = token_file,
         changes' \in 0..MaxChanges, req.at = "gather" => registered' = registered
  PROVE  IInv'
  <1>1. CASE req.at = "idle"
    <2>1. req.called = NoCall /\ req.shown = {}
      BY <1>1 DEF IInv, ListSoFar, CallSoFar
    <2>2. TypeOK'
      BY <1>1, ObserveIdle DEF EnvTypes, IInv, TypeOK
    <2>3. ServedInWindow' /\ HistoriesCurrent'
      BY <1>1, <2>1 DEF ServedInWindow, HistoriesCurrent
    <2>4. ListSoFar' /\ CallSoFar'
      BY <1>1, <2>1 DEF IInv, ListSoFar, CallSoFar
    <2> QED
      BY <2>2, <2>3, <2>4 DEF IInv
  <1>2. CASE req.at # "idle"
    <2>1. /\ seen \subseteq seen' /\ fit \subseteq fit' /\ served \subseteq served'
          /\ steady' \subseteq steady /\ from' = from
          /\ seen' \subseteq Entries /\ fit' \subseteq Entries /\ served' \subseteq Entries
          /\ HistoriesCurrent'
      BY <1>2, ObserveFacts
    <2>2. TypeOK'
      BY <2>1 DEF EnvTypes, IInv, TypeOK
    <2>3. ServedInWindow'
      BY <2>1 DEF IInv, ServedInWindow
    <2>4. ListSoFar'
      BY <2>1 DEF IInv, ListSoFar, all_leaves, Registered
    <2>5. CallSoFar'
      BY <2>1 DEF IInv, CallSoFar, Routed, Forbidden, IsNative
    <2> QED
      BY <2>1, <2>2, <2>3, <2>4, <2>5 DEF IInv
  <1> QED
    BY <1>1, <1>2

\* Leaves are registered, removed, marked and listed, and the token is rotated.
LEMMA EnvironmentKeeps == ASSUME IInv, Environment PROVE IInv'
  <1>1. ASSUME Meanwhile PROVE changes' \in 0..MaxChanges /\ UNCHANGED req
    BY <1>1, DispatchAssumption DEF Meanwhile, IInv, TypeOK
  <1>2. ASSUME NEW e \in Entries PROVE aliasOf[e] \in Aliases
    BY DEF Aliases
  <1>3. ASSUME NEW e \in Entries, AddLeaf(e) PROVE IInv'
    <2>1. EnvTypes
      BY <1>2, <1>3 DEF AddLeaf, EnvTypes, IInv, TypeOK, Lists
    <2> QED
      BY <1>1, <1>3, <2>1, ObservedKeeps DEF AddLeaf, Unlocked
  <1>4. ASSUME NEW e \in Entries, RemoveLeaf(e) PROVE IInv'
    <2>1. EnvTypes
      BY <1>2, <1>4 DEF RemoveLeaf, EnvTypes, IInv, TypeOK
    <2> QED
      BY <1>1, <1>4, <2>1, ObservedKeeps DEF RemoveLeaf, Unlocked
  <1>5. ASSUME NEW e \in Entries, Cache(e) PROVE IInv'
    <2>1. EnvTypes
      BY <1>5 DEF Cache, EnvTypes, IInv, TypeOK
    <2> QED
      BY <1>1, <1>5, <2>1, ObservedKeeps DEF Cache
  <1>6. ASSUME NEW e \in Entries, NEW h \in {"Healthy", "Unhealthy"}, Mark(e, h) PROVE IInv'
    <2>1. EnvTypes
      BY <1>6 DEF Mark, EnvTypes, IInv, TypeOK
    <2> QED
      BY <1>1, <1>6, <2>1, ObservedKeeps DEF Mark
  <1>7. ASSUME NEW t \in Tokens \cup {NoToken}, RotateToken(t) PROVE IInv'
    <2>1. UNCHANGED <<registered, health, offers, history, req>> /\ token_file' = t
          /\ changes' \in 0..MaxChanges
      BY <1>1, <1>7 DEF RotateToken
    <2>2. TypeOK'
      BY <2>1 DEF IInv, TypeOK, history
    <2>3. ServedInWindow' /\ HistoriesCurrent' /\ ListSoFar' /\ CallSoFar'
      BY <2>1 DEF IInv, ServedInWindow, HistoriesCurrent, ListSoFar, CallSoFar, history,
           all_leaves, Registered, is_healthy, Routed, Forbidden, IsNative
    <2> QED
      BY <2>2, <2>3 DEF IInv
  <1> QED
    BY <1>3, <1>4, <1>5, <1>6, <1>7 DEF Environment

\* refresh replaces the list of one entry, or leaves it alone.
LEMMA RelistKeeps == ASSUME IInv, NEW e \in Entries, Relist(e) PROVE IInv'
  <1>1. /\ req'.at = "relist" /\ req'.todo = req.todo \ {e} /\ req'.called = req.called
        /\ req'.found = req.found /\ req'.shown = req.shown /\ req'.answer = req.answer
        /\ req'.method = req.method /\ req'.name = req.name /\ req'.ctx = req.ctx
        /\ DOMAIN req' = DOMAIN req /\ req.at = "relist"
    BY DEF IInv, TypeOK, Relist, Idle
  <1>2. EnvTypes /\ changes' \in 0..MaxChanges /\ token_file' = token_file
    <2>1. CASE UNCHANGED <<offers, changes>>
      BY <2>1 DEF Relist, EnvTypes, IInv, TypeOK
    <2>2. ASSUME changes < MaxChanges, changes' = changes + 1,
                 NEW list \in Lists \ {offers[e]}, offers' = [offers EXCEPT ![e] = list]
          PROVE  EnvTypes /\ changes' \in 0..MaxChanges
      BY <2>2, DispatchAssumption DEF Relist, EnvTypes, IInv, TypeOK
    <2> QED
      BY <2>1, <2>2 DEF Relist
  <1>3. /\ seen \subseteq seen' /\ fit \subseteq fit' /\ served \subseteq served'
        /\ steady' \subseteq steady /\ from' = from
        /\ seen' \subseteq Entries /\ fit' \subseteq Entries /\ served' \subseteq Entries
        /\ HistoriesCurrent'
    BY <1>1, ObserveFacts DEF Relist
  <1>4. TypeOK'
    BY <1>1, <1>2, <1>3 DEF EnvTypes, IInv, TypeOK
  <1>5. req.method = "tools/call" /\ req.called = NoCall
    BY <1>1 DEF IInv, CallSoFar
  <1>6. ServedInWindow' /\ ListSoFar' /\ CallSoFar'
    BY <1>1, <1>5 DEF IInv, ServedInWindow, ListSoFar, CallSoFar, ListMethods
  <1> QED
    BY <1>3, <1>4, <1>6 DEF IInv

-----------------------------------------------------------------------------
\* The beginning and the end of a request.

\* The context of a request: none, or one without the wildcard.
LEMMA ContextFacts ==
  ASSUME NEW presented, NEW admin
  PROVE  LET ctx == resolve(presented, admin)
         IN \/ ctx = Unrestricted
            \/ ctx = [restricted |-> TRUE, allowed |-> ctx.allowed] /\ Wildcard \notin ctx.allowed
  BY DEF resolve

\* A request arrives, and its histories begin.
LEMMA OpenFacts ==
  ASSUME IInv, Open, UNCHANGED env
  PROVE  /\ seen' \subseteq Entries /\ fit' \subseteq Entries /\ served' \subseteq Entries
         /\ steady' \subseteq Entries \X ItemNames
         /\ HistoriesCurrent'
  <1>1. /\ seen' = all_leaves /\ fit' = {e \in Entries : health[e] # "Unhealthy"}
        /\ served' = seen' \cap fit'
        /\ steady' = {p \in Entries \X ItemNames : p[1] \in served' /\ p[2] \in offers[p[1]]}
    BY DEF Open
  <1>2. UNCHANGED <<registered, health, offers>> /\ all_leaves' = all_leaves
    BY DEF env, all_leaves, Registered
  <1>3. HistoriesCurrent'
    BY <1>1, <1>2 DEF HistoriesCurrent, all_leaves, Registered, is_healthy
  <1> QED
    BY <1>1, <1>3 DEF all_leaves

\* The record of a request that has just arrived.
NewRequest(m, n, ctx, at, answer) ==
  /\ DOMAIN req' = DOMAIN Idle
  /\ req'.at = at /\ req'.answer = answer /\ req'.method = m /\ req'.name = n /\ req'.ctx = ctx
  /\ req'.todo = {} /\ req'.found = {} /\ req'.shown = {} /\ req'.called = NoCall

\* A new request is dispatched, or refused before it is.
LEMMA NewRequestKeeps ==
  ASSUME IInv, Open, UNCHANGED <<env, changes>>,
         from' \in [token : Tokens \cup {NoToken}, admin : Tokens \cup {NoToken}],
         NEW m \in ListMethods \cup CallMethods \cup OtherMethods, NEW n \in CallNames \cup {<<>>},
         NEW ctx,
         \/ ctx = Unrestricted
         \/ ctx = [restricted |-> TRUE, allowed |-> ctx.allowed] /\ Wildcard \notin ctx.allowed,
         NewRequest(m, n, ctx, "dispatch", "none") \/ NewRequest(m, n, ctx, "answered", "401")
  PROVE  IInv'
  <1>1. /\ NewRequest(m, n, ctx, req'.at, req'.answer)
        /\ \/ req'.at = "dispatch" /\ req'.answer = "none"
           \/ req'.at = "answered" /\ req'.answer = "401"
    BY DEF NewRequest
  <1>2. TypeOK'
    BY <1>1, OpenFacts DEF NewRequest, IInv, TypeOK, env, Answers
  <1>3. ServedInWindow' /\ ListSoFar'
    BY <1>1 DEF NewRequest, ServedInWindow, ListSoFar
  <1>4. CallSoFar'
    BY <1>1 DEF NewRequest, CallSoFar, Unrestricted
  <1> QED
    BY <1>2, <1>3, <1>4, OpenFacts DEF IInv

LEMMA ArrivalKeeps == ASSUME IInv, Arrival PROVE IInv'
  <1>1. ASSUME NEW m \in ListMethods \cup CallMethods \cup OtherMethods,
               NEW n \in CallNames \cup {<<>>}, StdioLine(m, n)
        PROVE  IInv'
    <2>1. NewRequest(m, n, Unrestricted, "dispatch", "none")
      BY <1>1 DEF StdioLine, NewRequest, Idle
    <2>2. from' \in [token : Tokens \cup {NoToken}, admin : Tokens \cup {NoToken}]
      BY <1>1 DEF StdioLine, Nobody
    <2> QED
      BY <1>1, <2>1, <2>2, NewRequestKeeps DEF StdioLine
  <1>2. ASSUME NEW m \in ListMethods \cup CallMethods \cup OtherMethods,
               NEW n \in CallNames \cup {<<>>}, NEW t \in Tokens \cup {NoToken}, Post(t, m, n)
        PROVE  IInv'
    <2>1. /\ Open /\ UNCHANGED <<env, changes>> /\ Authenticate(t, m, n)
          /\ from' \in [token : Tokens \cup {NoToken}, admin : Tokens \cup {NoToken}]
      BY <1>2 DEF Post, IInv, TypeOK
    <2>2. CASE token_file = NoToken
      <3>1. NewRequest(m, n, Unrestricted, "dispatch", "none")
        BY <2>1, <2>2 DEF Authenticate, NewRequest, Idle
      <3> QED
        BY <2>1, <3>1, NewRequestKeeps
    <2>3. CASE token_file # NoToken /\ t # NoToken /\ Resolvable(t, token_file)
      <3> DEFINE ctx == resolve(t, token_file)
      <3>1. NewRequest(m, n, ctx, "dispatch", "none")
        BY <2>1, <2>3 DEF Authenticate, NewRequest, Idle
      <3>2. \/ ctx = Unrestricted
            \/ ctx = [restricted |-> TRUE, allowed |-> ctx.allowed] /\ Wildcard \notin ctx.allowed
        BY ContextFacts
      <3> HIDE DEF ctx
      <3> QED
        BY <2>1, <3>1, <3>2, NewRequestKeeps
    <2>4. CASE token_file # NoToken /\ ~(t # NoToken /\ Resolvable(t, token_file))
      <3>1. NewRequest(m, n, Unrestricted, "answered", "401")
        BY <2>1, <2>4 DEF Authenticate, NewRequest, Idle
      <3> QED
        BY <2>1, <3>1, NewRequestKeeps
    <2> QED
      BY <2>2, <2>3, <2>4
  <1> QED
    BY <1>1, <1>2 DEF Arrival

\* No request is in hand, and none has been remembered.
LEMMA IdleFacts ==
  Idle.at = "idle" /\ Idle.answer = "none" /\ Idle.method = "tools/list" /\ Idle.name = <<>>
  /\ Idle.ctx = Unrestricted /\ Idle.todo = {} /\ Idle.found = {} /\ Idle.shown = {}
  /\ Idle.called = NoCall
  BY DEF Idle

LEMMA IdleKeeps ==
  ASSUME req = Idle
  PROVE  ServedInWindow /\ HistoriesCurrent /\ ListSoFar /\ CallSoFar
  BY IdleFacts DEF ServedInWindow, HistoriesCurrent, ListSoFar, CallSoFar, Unrestricted

\* The answer is delivered.
LEMMA DeliverKeeps == ASSUME IInv, Deliver PROVE IInv'
  <1>1. req' = Idle /\ seen' = {} /\ fit' = {} /\ served' = {} /\ steady' = {} /\ from' = Nobody
        /\ UNCHANGED <<env, changes>>
    BY DEF Deliver
  <1>2. TypeOK'
    BY <1>1, IdleFacts DEF Nobody, IInv, TypeOK, env, ListMethods, Answers
  <1>3. ServedInWindow' /\ HistoriesCurrent' /\ ListSoFar' /\ CallSoFar'
    BY <1>1, IdleFacts DEF ServedInWindow, HistoriesCurrent, ListSoFar, CallSoFar, Unrestricted
  <1> QED
    BY <1>2, <1>3 DEF IInv

-----------------------------------------------------------------------------
LEMMA RequestKeeps == ASSUME IInv, RequestStep PROVE IInv'
  BY AnsweringSteps, BeginListKeeps, GatherKeeps, GatheredKeeps, ReadListKeeps, EndListKeeps,
     RouteKeeps, ProbeKeeps, NativeKeeps, InspectKeeps, RelistKeeps, DeliverKeeps
  DEF RequestStep

\* router.rs:31, registry.rs:163: what a request used was there for it, however
\* the leaves change between the lookup, the health check, the read and the call.
THEOREM RequestsServed == Spec => []IInv
  <1>1. Init => IInv
    <2> SUFFICES ASSUME Init PROVE IInv
      OBVIOUS
    <2>1. req = Idle
      BY DEF Init
    <2>2. \A a \in Aliases : registered[a] \in Entries /\ aliasOf[registered[a]] = a
      BY DEF Init, Aliases
    <2>3. TypeOK
      BY <2>1, <2>2, IdleFacts, DispatchAssumption DEF Init, Nobody, TypeOK, ListMethods, Answers, Lists
    <2> QED
      BY <2>1, <2>3, IdleKeeps DEF IInv
  <1>2. IInv /\ [Next]_vars => IInv'
    <2> SUFFICES ASSUME IInv, [Next]_vars PROVE IInv'
      OBVIOUS
    <2>1. CASE Next
      BY <2>1, ArrivalKeeps, RequestKeeps, EnvironmentKeeps DEF Next
    <2>2. CASE UNCHANGED vars
      BY <2>2 DEF vars, env, history, IInv, TypeOK, ServedInWindow, HistoriesCurrent, ListSoFar,
           CallSoFar, all_leaves, Registered, is_healthy, Routed, Forbidden, IsNative
    <2> QED
      BY <2>1, <2>2
  <1> QED
    BY <1>1, <1>2, PTL DEF Spec

-----------------------------------------------------------------------------
\* What a list is answered with.

\* A list that is answered has come to its end just now, or had been answered
\* before, or was refused for its token.
LEMMA ListAnswered ==
  ASSUME IInv, [Next]_vars, req'.at = "answered", req'.method \in ListMethods
  PROVE  \/ EndList
         \/ req' = req /\ steady' \subseteq steady
         \/ req'.shown = {} /\ req'.answer = "401"
  <1>1. CASE UNCHANGED vars
    BY <1>1 DEF vars, history
  <1>2. CASE Environment
    <2>1. steady' \subseteq steady
      BY <1>2 DEF Environment, AddLeaf, RemoveLeaf, Cache, Mark, RotateToken, Observe, history
    <2>2. req' = req
      BY <1>2 DEF Environment, AddLeaf, RemoveLeaf, Cache, Mark, RotateToken, Meanwhile
    <2> QED
      BY <2>1, <2>2
  <1>3. ASSUME NEW m, NEW n, StdioLine(m, n) PROVE FALSE
    BY <1>3 DEF StdioLine, Idle
  <1>4. ASSUME NEW t, NEW m, NEW n, Post(t, m, n) PROVE req'.shown = {} /\ req'.answer = "401"
    BY <1>4 DEF Post, Authenticate, Idle
  <1>5. ASSUME Acknowledge \/ Decline \/ SetLevel \/ Refuse \/ CallLeaf \/ NativeRefuse \/ EndNative
        PROVE  FALSE
    <2>1. req.method \notin ListMethods
      BY <1>5 DEF Acknowledge, Decline, SetLevel, Refuse, CallLeaf, NativeRefuse, EndNative,
             Native, IsNative, ListMethods, CallMethods, IInv, CallSoFar
    <2>2. PICK a : Answer(req, a)
      BY <1>5 DEF Acknowledge, Decline, SetLevel, Refuse, CallLeaf, NativeRefuse, EndNative
    <2>3. req'.method = req.method
      BY <2>2 DEF Answer, IInv, TypeOK, Idle
    <2> QED
      BY <2>1, <2>3
  <1>6. ASSUME BeginList \/ Gathered \/ Route \/ Deliver PROVE FALSE
    <2>1. BeginList => req'.at = "gather"
      BY DEF BeginList, IInv, TypeOK, Idle
    <2>2. Gathered \/ Route => req'.at \in {"read", "probe"}
      BY DEF Gathered, Route, IInv, TypeOK, Idle
    <2>3. Deliver => req'.at = "idle"
      BY IdleFacts DEF Deliver
    <2> QED
      BY <1>6, <2>1, <2>2, <2>3
  <1>7. ASSUME NEW e \in Entries, Gather(e) \/ ReadList(e) \/ Inspect(e) \/ Relist(e) PROVE FALSE
    BY <1>7 DEF Gather, ReadList, Inspect, Relist, IInv, TypeOK, Idle
  <1>8. ASSUME NEW e \in Entries, Probe(e) PROVE FALSE
    <2>1. req.method \in CallMethods
      BY <1>8 DEF Probe, IInv, CallSoFar
    <2>2. req'.method = req.method
      BY <1>8 DEF Probe, Answer, IInv, TypeOK, Idle
    <2> QED
      BY <2>1, <2>2 DEF CallMethods, ListMethods
  <1>9. ASSUME NEW a, NativeReport(a) \/ NativeSearch(a) \/ NativeRefresh(a) PROVE FALSE
    BY <1>9 DEF NativeReport, NativeSearch, NativeRefresh, IInv, TypeOK, Idle
  <1> QED
    BY <1>1, <1>2, <1>3, <1>4, <1>5, <1>6, <1>7, <1>8, <1>9 DEF Next, Arrival, RequestStep

\* A list of tools for a restricted client has only what tool_allowed lets pass.
ShownAllowed ==
  req.at = "answered" /\ req.method = "tools/list" /\ req.ctx.restricted =>
    \A p \in req.shown : tool_allowed(req.ctx, namespaced(PublishedBy(p[1]), p[2]))

\* The record of a list that has come to its end.
LEMMA EndListFacts ==
  ASSUME IInv, EndList
  PROVE  /\ req.at = "read" /\ req.todo = {} /\ req'.shown = retained(req)
         /\ req'.method = req.method /\ req'.ctx = req.ctx
         /\ UNCHANGED <<env, history>>
  BY DEF EndList, Answer, IInv, TypeOK, Idle

LEMMA StepShownAllowed ==
  ASSUME IInv, ShownAllowed, [Next]_vars
  PROVE  ShownAllowed'
  <1> SUFFICES ASSUME req'.at = "answered", req'.method = "tools/list", req'.ctx.restricted,
                      NEW p \in req'.shown
               PROVE  tool_allowed(req'.ctx, namespaced(PublishedBy(p[1]), p[2]))
    BY DEF ShownAllowed
  <1>1. CASE EndList
    BY <1>1, EndListFacts DEF retained
  <1>2. CASE req' = req
    BY <1>2 DEF ShownAllowed
  <1> QED
    BY <1>1, <1>2, ListAnswered DEF ListMethods

\* A restricted client allowed an alias that is not the federation's has it in
\* its list.
LEMMA AllowedAlias ==
  ASSUME IInv, req.ctx.restricted, NEW a, a # Federation, allows_alias(req.ctx, a)
  PROVE  a \in req.ctx.allowed
  BY DEF IInv, CallSoFar, allows_alias

\* What is published has a name that is a string.
LEMMA ShownStrings ==
  ASSUME TypeOK, NEW p \in req.shown
  PROVE  PublishedBy(p[1]) \in Seq(STRING) /\ p[2] \in Seq(STRING)
  <1>1. p \in Entries \X ItemNames \/ p \in {NoEntry} \X native_tools
    BY DEF TypeOK
  <1>2. CASE p \in Entries \X ItemNames
    BY <1>2, DispatchAssumption DEF PublishedBy
  <1>3. CASE p \in {NoEntry} \X native_tools
    BY <1>3, DispatchAssumption DEF PublishedBy
  <1> QED
    BY <1>1, <1>2, <1>3

\* A request that was asked for a token has the context that resolve gives it, or
\* was refused.
ContextGiven ==
  from.admin # NoToken =>
    \/ req.answer = "401" /\ req.shown = {} /\ req.called = NoCall
    \/ /\ Resolvable(from.token, from.admin)
       /\ req.ctx = resolve(from.token, from.admin)

\* Who a request is from is settled when it arrives.
LEMMA ContextKept ==
  ASSUME IInv, RequestStep, ~Deliver
  PROVE  req'.ctx = req.ctx /\ from' = from /\ req.at # "answered"
  <1> USE DEF IInv, TypeOK, Idle, history
  <1>1. ASSUME Acknowledge \/ Decline \/ SetLevel \/ Refuse \/ CallLeaf \/ NativeRefuse \/ EndNative
        PROVE  req'.ctx = req.ctx /\ from' = from /\ req.at # "answered"
    <2>1. PICK a : Answer(req, a)
      BY <1>1 DEF Acknowledge, Decline, SetLevel, Refuse, CallLeaf, NativeRefuse, EndNative
    <2>2. req'.ctx = req.ctx
      BY <2>1 DEF Answer
    <2>3. from' = from /\ req.at # "answered"
      BY <1>1 DEF Acknowledge, Decline, SetLevel, Refuse, CallLeaf, NativeRefuse, EndNative, Native
    <2> QED
      BY <2>2, <2>3
  <1>2. ASSUME BeginList \/ Gathered \/ Route
        PROVE  req'.ctx = req.ctx /\ from' = from /\ req.at # "answered"
    BY <1>2 DEF BeginList, Gathered, Route
  <1>3. ASSUME EndList
        PROVE  req'.ctx = req.ctx /\ from' = from /\ req.at # "answered"
    BY <1>3, EndListFacts
  <1>4. ASSUME NEW e \in Entries, Gather(e) \/ ReadList(e) \/ Inspect(e)
        PROVE  req'.ctx = req.ctx /\ from' = from /\ req.at # "answered"
    BY <1>4 DEF Gather, ReadList, Inspect
  <1>5. ASSUME NEW e \in Entries, Relist(e)
        PROVE  req'.ctx = req.ctx /\ from' = from /\ req.at # "answered"
    BY <1>5 DEF Relist, Observe
  <1>6. ASSUME NEW e \in Entries, Probe(e)
        PROVE  req'.ctx = req.ctx /\ from' = from /\ req.at # "answered"
    BY <1>6 DEF Probe, Answer
  <1>7. ASSUME NEW a, NativeReport(a) \/ NativeSearch(a) \/ NativeRefresh(a)
        PROVE  req'.ctx = req.ctx /\ from' = from /\ req.at # "answered"
    BY <1>7 DEF NativeReport, NativeSearch, NativeRefresh, Native
  <1> QED
    BY <1>1, <1>2, <1>3, <1>4, <1>5, <1>6, <1>7 DEF RequestStep

LEMMA StepContextGiven ==
  ASSUME IInv, ContextGiven, [Next]_vars
  PROVE  ContextGiven'
  <1>1. CASE UNCHANGED vars
    BY <1>1 DEF vars, history, ContextGiven
  <1>2. CASE Environment
    <2>1. req' = req
      BY <1>2 DEF Environment, AddLeaf, RemoveLeaf, Cache, Mark, RotateToken, Meanwhile
    <2>2. from' = from
      BY <1>2 DEF Environment, AddLeaf, RemoveLeaf, Cache, Mark, RotateToken, Observe, history
    <2> QED
      BY <2>1, <2>2 DEF ContextGiven
  <1>3. ASSUME NEW m, NEW n, StdioLine(m, n) PROVE ContextGiven'
    BY <1>3 DEF StdioLine, Nobody, ContextGiven
  <1>4. ASSUME NEW t, NEW m, NEW n, Post(t, m, n) PROVE ContextGiven'
    <2>1. from'.token = t /\ from'.admin = token_file
      BY <1>4 DEF Post
    <2>2. CASE token_file = NoToken
      BY <2>1, <2>2 DEF ContextGiven
    <2>3. CASE token_file # NoToken /\ t # NoToken /\ Resolvable(t, token_file)
      <3>1. req'.ctx = resolve(t, token_file)
        BY <1>4, <2>3 DEF Post, Authenticate, Idle
      <3> QED
        BY <2>1, <2>3, <3>1 DEF ContextGiven
    <2>4. CASE token_file # NoToken /\ ~(t # NoToken /\ Resolvable(t, token_file))
      <3>1. req'.answer = "401" /\ req'.shown = {} /\ req'.called = NoCall
        BY <1>4, <2>4 DEF Post, Authenticate, Idle
      <3> QED
        BY <3>1 DEF ContextGiven
    <2> QED
      BY <2>2, <2>3, <2>4
  <1>5. CASE Deliver
    BY <1>5 DEF Deliver, Nobody, ContextGiven
  <1>6. CASE RequestStep /\ ~Deliver
    <2>1. req'.ctx = req.ctx /\ from' = from /\ req.at # "answered"
      BY <1>6, ContextKept
    <2>2. req.answer # "401"
      BY <2>1 DEF IInv, TypeOK
    <2> QED
      BY <2>1, <2>2 DEF ContextGiven
  <1> QED
    BY <1>1, <1>2, <1>3, <1>4, <1>5, <1>6 DEF Next, Arrival

\* The context of a client that the configuration confines.
LEMMA ConfinedContext ==
  ASSUME ContextGiven, from.admin # NoToken, Confined
  PROVE  \/ req.answer = "401" /\ req.shown = {} /\ req.called = NoCall
         \/ req.ctx.restricted /\ req.ctx.allowed = Grant(from.token)
  <1>1. CASE req.answer = "401" /\ req.shown = {} /\ req.called = NoCall
    BY <1>1
  <1>2. CASE req.ctx = resolve(from.token, from.admin)
    BY <1>2 DEF Confined, EntriesOf, Grant, resolve
  <1> QED
    BY <1>1, <1>2 DEF ContextGiven

\* A restricted context keeps a request to the leaves in it.
LEMMA ContextConfines ==
  ASSUME IInv, ShownAllowed, req.ctx.restricted
  PROVE  KeepsTo(req.ctx.allowed)
  <1>1. ASSUME req.method = "tools/list", req.at = "answered",
               NEW p \in req.shown, Distinct(PublishedBy(p[1]))
        PROVE  PublishedBy(p[1]) \in req.ctx.allowed
    <2> DEFINE a == PublishedBy(p[1])
    <2>1. tool_allowed(req.ctx, namespaced(a, p[2]))
      BY <1>1 DEF ShownAllowed
    <2>2. a \in Seq(STRING) /\ p[2] \in Seq(STRING) /\ Separable(a) /\ a # Federation
      BY <1>1, ShownStrings DEF IInv, Distinct
    <2> HIDE DEF a
    <2>3. HasSeparator(namespaced(a, p[2])) /\ parse_namespaced_name(namespaced(a, p[2]))[1] = a
      BY <2>2, PublishedRoutesBack
    <2>4. allows_alias(req.ctx, a)
      BY <2>1, <2>3 DEF tool_allowed
    <2>5. a \in req.ctx.allowed
      BY <2>2, <2>4, AllowedAlias
    <2> QED
      BY <2>5 DEF a
  <1>2. ASSUME req.method = "tools/call", req.called # NoCall
        PROVE  aliasOf[req.called[1]] \in req.ctx.allowed
    <2>1. Routed(req.called[1])
      BY <1>2 DEF IInv, CallSoFar
    <2>2. /\ aliasOf[req.called[1]] # Federation
          /\ allows_alias(req.ctx, aliasOf[req.called[1]])
      BY <1>2, <2>1 DEF Routed, Forbidden, IsNative, tool_allowed
    <2> QED
      BY <2>2, AllowedAlias
  <1> QED
    BY <1>1, <1>2 DEF KeepsTo

\* README.md:234, rbac.rs, server.rs (handle_tools_list, handle_tools_call): a
\* client sees and calls tools of those leaves only that the configuration gives
\* its token, whatever is registered, replaced or rotated under its request, and
\* a token that is nobody's is given nothing, provided the server's own token
\* could be read when the request came.
THEOREM ClientsConfined == Spec => []RbacHolds
  <1>1. ASSUME IInv, ShownAllowed, ContextGiven PROVE RbacHolds
    <2> SUFFICES ASSUME from.admin # NoToken
                 PROVE  /\ Confined => KeepsTo(Grant(from.token))
                        /\ from.token # from.admin /\ EntriesOf(from.token) = {} =>
                             req.shown = {} /\ req.called = NoCall
      BY DEF RbacHolds
    <2>1. ASSUME Confined PROVE KeepsTo(Grant(from.token))
      <3>1. CASE req.shown = {} /\ req.called = NoCall
        BY <3>1 DEF KeepsTo
      <3>2. CASE req.ctx.restricted /\ req.ctx.allowed = Grant(from.token)
        BY <1>1, <3>2, ContextConfines
      <3> QED
        BY <1>1, <2>1, <3>1, <3>2, ConfinedContext
    <2>2. ASSUME from.token # from.admin, EntriesOf(from.token) = {}
          PROVE  req.shown = {} /\ req.called = NoCall
      BY <1>1, <2>2 DEF ContextGiven, Resolvable, EntriesOf
    <2> QED
      BY <2>1, <2>2
  <1>2. Init => ShownAllowed /\ ContextGiven
    BY IdleFacts DEF Init, ShownAllowed, ContextGiven, Nobody
  <1>3. IInv /\ ShownAllowed /\ ContextGiven /\ [Next]_vars => ShownAllowed' /\ ContextGiven'
    BY StepShownAllowed, StepContextGiven
  <1> QED
    BY <1>1, <1>2, <1>3, RequestsServed, PTL DEF Spec

\* The native tools are visible to every client.
LEMMA NativeAllowed ==
  ASSUME NEW ctx, NEW n \in native_tools
  PROVE  tool_allowed(ctx, namespaced(Federation, n))
  <1>1. Separable(Federation)
    BY DEF Separable, HasSeparator, SeparatorAt, EndsInUnderscore, Federation, Underscore
  <1>2. Federation \in Seq(STRING) /\ n \in Seq(STRING)
    BY DispatchAssumption
  <1>3. parse_namespaced_name(namespaced(Federation, n))[1] = Federation
    BY <1>1, <1>2, PublishedRoutesBack
  <1> QED
    BY <1>3 DEF tool_allowed, allows_alias

LEMMA StepListComplete ==
  ASSUME IInv, ListComplete, [Next]_vars
  PROVE  ListComplete'
  <1> SUFFICES ASSUME req'.at = "answered", req'.method \in ListMethods, req'.answer = "result"
               PROVE  /\ \A p \in steady' :
                           \/ p \in req'.shown
                           \/ /\ req'.method = "tools/list"
                              /\ ~tool_allowed(req'.ctx, namespaced(aliasOf[p[1]], p[2]))
                      /\ req'.method = "tools/list" => {NoEntry} \X native_tools \subseteq req'.shown
    BY DEF ListComplete
  <1>1. CASE EndList
    <2>1. /\ req.at = "read" /\ req.todo = {} /\ req'.shown = retained(req)
          /\ req'.method = req.method /\ req'.ctx = req.ctx /\ steady' = steady
      BY <1>1, EndListFacts DEF history
    <2>2. ASSUME NEW p \in steady
          PROVE  \/ p \in retained(req)
                 \/ /\ req.method = "tools/list"
                    /\ ~tool_allowed(req.ctx, namespaced(aliasOf[p[1]], p[2]))
      <3>1. p \in req.shown
        BY <2>1 DEF IInv, ListSoFar
      <3>2. PublishedBy(p[1]) = aliasOf[p[1]]
        BY DispatchAssumption DEF IInv, TypeOK, PublishedBy
      <3> QED
        BY <3>1, <3>2 DEF retained
    <2>3. ASSUME req.method = "tools/list", NEW p \in {NoEntry} \X native_tools
          PROVE  p \in retained(req)
      <3>1. p \in req.shown
        BY <2>1, <2>3 DEF IInv, ListSoFar
      <3>2. PublishedBy(p[1]) = Federation /\ p[2] \in native_tools
        BY DEF PublishedBy
      <3>3. tool_allowed(req.ctx, namespaced(PublishedBy(p[1]), p[2]))
        BY <3>2, NativeAllowed
      <3> QED
        BY <3>1, <3>3 DEF retained
    <2> QED
      BY <2>1, <2>2, <2>3
  <1>2. CASE req' = req /\ steady' \subseteq steady
    BY <1>2 DEF ListComplete
  <1> QED
    BY <1>1, <1>2, ListAnswered

\* aggregator.rs:58, README.md:388: a list misses nothing that was on offer
\* throughout the request and that the client may see, and no native tool.
THEOREM NothingMissed == Spec => []ListComplete
  <1>1. Init => ListComplete
    BY IdleFacts DEF Init, ListComplete
  <1>2. IInv /\ ListComplete /\ [Next]_vars => ListComplete'
    BY StepListComplete
  <1> QED
    BY <1>1, <1>2, RequestsServed, PTL DEF Spec
=============================================================================
