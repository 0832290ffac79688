SPECIFICATION FairSpec
CONSTANTS
  a1 = a1  a2 = a2  b1 = b1
  admin = admin  client = client
  Entries = {a1, a2, b1}
  aliasOf <- MCAliasOf
  ItemNames <- MCItemNames
  CallNames <- MCCallNames
  Tokens = {admin, client}
  NoToken = NoToken
  Clients <- MCClients
  NoEntry = NoEntry
  MaxChanges = 3
INVARIANTS IInv RbacHolds ListComplete
PROPERTIES EveryRequestAnswered
