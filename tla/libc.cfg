SPECIFICATION Spec
CONSTANTS
  Addresses <- MCAddresses
  Sizes = {0, 2, 5}
  MaxBlocks = 2
  MaxRefused = 1
  Bytes = {0, 1, 200}
  Answers <- MCAnswers
  IntHalf = 128
INVARIANT TypeOK
INVARIANT HeapAgrees
INVARIANT CopiesAgree
INVARIANT QueriesAgree
INVARIANT CallsAgree
CHECK_DEADLOCK FALSE
