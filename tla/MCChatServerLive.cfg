SPECIFICATION FairSpec
CONSTANTS
  Windows = {w1, w2, w3}
  Server = Server
  al = al
  alice = alice
  Names <- MCNames
  NoName = NoName
  ServerName = ServerName
  NamePrefixes <- MCNamePrefixes
  Unset = Unset
  MAX_USERS = 2
  OperatorLines <- MCAllOperatorLines
  UserLines <- MCAllUserLines
  PipeSize = 1
  MaxLines = 1
PROPERTY SlotReclaimed
CHECK_DEADLOCK FALSE
