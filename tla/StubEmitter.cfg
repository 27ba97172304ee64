CONSTANTS
  Kinds <- MCKinds
  MaxParams = 2

SPECIFICATION Spec

INVARIANT TypeOK
INVARIANT DeclaredBeforeUse
INVARIANT ReadsMatchProxy
INVARIANT ReplyOnlyAfterSuccess
PROPERTY NoWriteThroughNull

CHECK_DEADLOCK FALSE
