----------------------------- MODULE RemoteCall -----------------------------
(***************************************************************************)
(* What the client of a leaf promises to those who call it, with no word   *)
(* of sessions, retries or lost answers: a request is executed once or not *)
(* at all, never before its call, and it returns "ok" only if it was.  An  *)
(* "err" leaves open whether it was, and whether it will be: a leaf that   *)
(* was given up may execute it after the return.  A handshake executes     *)
(* nothing.  LeafClient implements it.                                     *)
(***************************************************************************)
EXTENDS Integers

CONSTANTS Callers

VARIABLES
  work,     \* what each caller is waiting for, or gave up
  executed, \* times the leaf executed the request of the last call
  outcome   \* what the last call returned

vars == <<work, executed, outcome>>

Init ==
  /\ work = [c \in Callers |-> "none"]
  /\ executed = [c \in Callers |-> 0]
  /\ outcome = [c \in Callers |-> "none"]

Call(c, w) ==
  /\ work[c] \in {"none", "given_up"}
  /\ work' = [work EXCEPT ![c] = w]
  /\ executed' = [executed EXCEPT ![c] = 0]
  /\ outcome' = [outcome EXCEPT ![c] = "none"]

\* The leaf does what the request asks for.
Execute(c) ==
  /\ work[c] \in {"request", "given_up"}
  /\ executed[c] = 0
  /\ executed' = [executed EXCEPT ![c] = 1]
  /\ UNCHANGED <<work, outcome>>

Return(c, r) ==
  /\ work[c] \in {"request", "handshake"}
  /\ work[c] = "request" /\ r = "ok" => executed[c] = 1
  /\ work' = [work EXCEPT ![c] = IF work[c] = "request" /\ r = "err" THEN "given_up" ELSE "none"]
  /\ outcome' = [outcome EXCEPT ![c] = r]
  /\ UNCHANGED executed

Next ==
  \E c \in Callers :
    \/ \E w \in {"request", "handshake"} : Call(c, w)
    \/ Execute(c)
    \/ \E r \in {"ok", "err"} : Return(c, r)

Spec == Init /\ [][Next]_vars
=============================================================================
