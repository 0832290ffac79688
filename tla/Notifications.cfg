SPECIFICATION Spec
CONSTANTS
  Leaves = {l1, l2}
  Clients = {c1, c2}
  CHANNEL_BUFFER = 1
  MaxEvents = 2
SYMMETRY Symmetry
INVARIANTS IInv PromptStaysSubscribed GapsOnlyWhenFull NoOrphans
CHECK_DEADLOCK FALSE
PROPERTIES ImplementsMailbox
