SPECIFICATION Spec
CONSTANTS
  Windows = {w1, w2, w3, w4}
  Server = Server
  al = al
  alice = alice
  Names <- MCNames
  NoName = NoName
  ServerName = ServerName
  NamePrefixes <- MCNamePrefixes
  Unset = Unset
  MAX_USERS = 3
  OperatorLines <- MCAddLine
  UserLines <- MCSayLine
  PipeSize = 1
  MaxLines = 1
INVARIANT NoDescriptorLeaks
CHECK_DEADLOCK FALSE
