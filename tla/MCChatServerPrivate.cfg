SPECIFICATION Spec
CONSTANTS
  Windows = {w1, w2}
  Server = Server
  al = al
  alice = alice
  Names <- MCNames
  NoName = NoName
  ServerName = ServerName
  NamePrefixes <- MCNamePrefixes
  Unset = Unset
  MAX_USERS = 2
  OperatorLines <- MCAddLines
  UserLines <- MCPrivateLines
  PipeSize = 2
  MaxLines = 2
INVARIANT P2PStaysPrivate
CHECK_DEADLOCK FALSE
