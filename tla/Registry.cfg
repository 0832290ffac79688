CONSTANTS
  Aliases = {a1, d1}
  DnsAliases = {d1}
  Urls = {u1, u2}
  Clients = {c1, c2}
  Budget = 2
SPECIFICATION FairSpec
INVARIANTS IInv NoBlindOverwrite ReloadEstablishesFile DnsEstablishesAnswer
PROPERTIES DnsConverges
