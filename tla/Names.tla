------------------------------- MODULE Names -------------------------------
(***************************************************************************)
(* The names clients see (aggregator.rs): a leaf's tool, resource or       *)
(* prompt is published as <alias>__<name> and a name in a request is split *)
(* at its first "__".  A name is a sequence of characters, because what    *)
(* can go wrong depends on where underscores stand.                        *)
(***************************************************************************)
EXTENDS Integers, Sequences

Underscore == "_"

ASSUME UnderscoreAssumption == Underscore \in STRING

NAMESPACE_SEPARATOR == <<Underscore, Underscore>>

\* The result of a split that found no separator; no pair equals it.
NoSplit == <<>>

\* Where the separator occurs in a string.
SeparatorAt(s) == {i \in 1..(Len(s) - 1) : s[i] = Underscore /\ s[i + 1] = Underscore}

\* str::contains("__")
HasSeparator(s) == SeparatorAt(s) # {}

\* namespace_tool, namespace_resource and namespace_prompt, which differ in the
\* field they rewrite (name, uri, name).  An item whose name is missing or not a
\* string is skipped: here a leaf has only items with a name.
namespaced(alias, name) == alias \o NAMESPACE_SEPARATOR \o name

\* Variant of FirstSeparator: rsplit_once.
LastSeparator(s) ==
  CHOOSE i \in SeparatorAt(s) : \A j \in SeparatorAt(s) : j <= i

FirstSeparator(s) ==
  CHOOSE i \in SeparatorAt(s) : \A j \in SeparatorAt(s) : i <= j

\* split_once
parse_namespaced_name(s) ==
  IF HasSeparator(s)
  THEN LET i == FirstSeparator(s)
       IN <<SubSeq(s, 1, i - 1), SubSeq(s, i + 2, Len(s))>>
  ELSE NoSplit

-----------------------------------------------------------------------------
\* An alias that a name can be split from again: validate refuses an alias with
\* a separator, and an underscore at the end would be taken for part of one.
EndsInUnderscore(alias) == Len(alias) > 0 /\ alias[Len(alias)] = Underscore

Separable(alias) == ~HasSeparator(alias) /\ ~EndsInUnderscore(alias)
=============================================================================
