------------------------------- MODULE Config -------------------------------
(***************************************************************************)
(* What the federation makes of its configuration file (config.rs):        *)
(* environment variables are replaced in the text, serde_yaml (external)   *)
(* reads it, and validate refuses what the registry and the router could   *)
(* not serve.  Text is a sequence of characters.                           *)
(***************************************************************************)
EXTENDS Names, FiniteSets

\* The first place in s where the characters of p stand, or 0 (str::find).
find(s, p) ==
  LET at == {i \in 1..(Len(s) - Len(p) + 1) : SubSeq(s, i, i + Len(p) - 1) = p}
  IN IF at = {} THEN 0 ELSE CHOOSE i \in at : \A j \in at : i <= j

\* A reference to a variable is between these.
MarkOpen == <<"$", "{">>
MarkClose == <<"}">>

\* std::env::var(..).unwrap_or_default()
value_of(env, name) == IF name \in DOMAIN env THEN env[name] ELSE <<>>

\* Variant of remainder_after: a value is scanned for references as well.
RescanValue(value, rest) == value \o rest

\* What is left to scan once a reference was replaced by its value.
remainder_after(value, rest) == rest

\* What the loop of interpolate_env_vars has produced and has left to do.
Loop(result, remainder, done) ==
  [result |-> result, remainder |-> remainder, done |-> done]

\* One turn of the loop: the first reference is replaced; without one, or if it
\* is not closed, the remainder is copied and the function returns.
interpolate_env_vars(env, loop) ==
  LET start == find(loop.remainder, MarkOpen)
      after_open == SubSeq(loop.remainder, start + 2, Len(loop.remainder))
      end == find(after_open, MarkClose)
      value == value_of(env, SubSeq(after_open, 1, end - 1))
      rest == SubSeq(after_open, end + 1, Len(after_open))
  IN IF start = 0 \/ end = 0
     THEN Loop(loop.result \o loop.remainder, <<>>, TRUE)
     ELSE Loop(loop.result \o SubSeq(loop.remainder, 1, start - 1) \o value,
               remainder_after(value, rest), FALSE)

-----------------------------------------------------------------------------
\* FederationConfig::validate; which error is reported is left out.
validate(servers) ==
  /\ servers # <<>>
  /\ \A i \in DOMAIN servers :
       /\ servers[i].alias # <<>>
       /\ ~HasSeparator(servers[i].alias)
       /\ servers[i].alias \notin {servers[j].alias : j \in 1..(i - 1)}
       /\ servers[i].url # <<>>

\* A published name is split into the alias and the name it was made of exactly
\* when the alias does not end in an underscore, and two leaves publish the same
\* name only if one of them has such an alias.
NamesRoute(servers, names) ==
  \A i \in DOMAIN servers, n \in names :
    LET alias == servers[i].alias
        name == namespaced(alias, n)
    IN /\ parse_namespaced_name(name) = <<alias, n>> <=> ~EndsInUnderscore(alias)
       /\ \A j \in DOMAIN servers \ {i}, o \in names :
            LET other == servers[j].alias
            IN namespaced(other, o) = name => EndsInUnderscore(alias) \/ EndsInUnderscore(other)
=============================================================================
