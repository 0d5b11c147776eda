SPECIFICATION Spec
CONSTANT Size = 4
INVARIANTS
  TypeOK
  BlocksInOrder
  CopiedWhenReturned
PROPERTY
  ReturnsUnlessReadFails
CHECK_DEADLOCK FALSE
