SPECIFICATION Spec
CONSTANTS
  Windows = {w1, w2}
  Server = Server
  al = al
  alice = alice
  Names <- MCNames
  NoName = NoName
  ServerName = ServerName
  NamePrefixes <- MCNamePrefixes
  Unset = Unset
  MAX_USERS = 2
  OperatorLines <- MCOperatorLines
  UserLines <- MCUserLines
  PipeSize = 2
  MaxLines = 2
INVARIANT WindowHasSlot
INVARIANT SenderIsAuthor
CHECK_DEADLOCK FALSE
