SPECIFICATION Spec
CONSTANTS
  Windows = {w1, w2, w3, w4}
  Server = Server
  al = al
  alice = alice
  Names <- MCNames
  NoName = NoName
  ServerName = ServerName
  NamePrefixes <- MCNamePrefixes
  Unset = Unset
  MAX_USERS = 3
  OperatorLines <- MCAddLine
  UserLines <- MCNoLine
  PipeSize = 1
  MaxLines = 0
INVARIANT UsersStayConnected
CHECK_DEADLOCK FALSE
