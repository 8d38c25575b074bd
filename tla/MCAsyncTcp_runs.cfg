CONSTANTS
  a = a
  b = b
  c = c
  d = d
  hello = hello
  Newline = Newline
  Junk = Junk
  User = User
  Io = Io
  Chars <- MCChars
  Script <- MCScript
  ServerReplies <- MCServerReplies
  ClientReplies <- MCClientReplies
  Welcome <- MCWelcome
  Room = 4
  ChunkSize = 3
  BufSize = 4
SPECIFICATION FairSpec
CHECK_DEADLOCK FALSE
INVARIANTS
  WrittenInOrder
  HeardAsSaid
PROPERTIES
  ImplementsUplink
  ImplementsDownlink
