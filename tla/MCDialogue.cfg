SPECIFICATION Spec
CONSTANTS
  Base = 4
  Ints = 512
  Longs = 524288
  MaxBytes = 10
  AddressSize = 4
  NameSize = 3
  DataSize = 20
  MessageSize = 13
  Number <- MCNumber
  String <- MCString
  Protocol <- MCProtocol
  Port <- MCPort
  First = 3
  MaxSize = 7
  Handshake = {1, 2, 5, 6}
  Longest = 5
  LoginStart = {2, 4}
INVARIANTS FullPack AssertionHolds PacketsReadBack
PROPERTIES Answered
