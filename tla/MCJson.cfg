SPECIFICATION Spec
CONSTANTS
  Item = {1, 2, 3, 4, 5, 6, 7, 8, 9, 10, 11, 12, 13, 14, 15, 16}
  Null = Null
  Infinity = Infinity
  NestingLimit = 2
  MaxItems = 3
  Lefts = {0, 1, 2, 99}
  Enough = 99
  Pro = 7
  Texts <- MCTexts
  Files <- MCFiles
  Scalar <- MCScalar
  Lists <- MCLists
  Key <- MCKey
  Content <- MCContent
  Version <- MCVersion
  Protocol <- MCProtocol
INVARIANTS HeapOK ParseAccepts PrintsReadBack CopyIsEqual ResponseIsMotd
PROPERTIES ForestSpec
