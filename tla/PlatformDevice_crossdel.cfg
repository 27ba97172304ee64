CONSTANTS
  p1 = p1
  p2 = p2
  t1 = t1
  t2 = t2
  n1 = n1
  Devs <- MCDevs
  Threads <- MCThreads
  Notifiers <- MCNotifiers
  MaxHold = 2
  DelBare = FALSE

SPECIFICATION Spec

PROPERTY DelReturns
