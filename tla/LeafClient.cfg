SPECIFICATION Spec
CONSTANTS
  Callers = {c1, c2}
  MaxSessions = 3
  MaxExpiries = 1
SYMMETRY Symmetry
INVARIANTS IInv AtMostTwoTries TransparentWhenAlone
PROPERTIES ImplementsRemoteCall
