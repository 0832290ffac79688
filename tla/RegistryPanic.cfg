CONSTANTS
  Aliases = {a1}
  DnsAliases = {}
  Urls = {u1}
  Clients = {c1, c2}
  Budget = 4
SPECIFICATION Spec
INVARIANTS RegisterNeverPanics
