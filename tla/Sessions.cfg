CONSTANTS
  Sids = {s1, s2}
  Requests = {h1, h2}
  TTL = 2
  Leeway = 1
  SecretIsSet = TRUE
  MaxRestarts = 1
SPECIFICATION FairSpec
INVARIANTS SMInv
PROPERTIES NoResurrection TerminatedRefused RefusedIsForgotten
