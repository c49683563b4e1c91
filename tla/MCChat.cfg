SPECIFICATION FairSpec
CONSTANTS
  u1 = u1
  hello = hello
  ListLine = list
  ExitLine = exit
  Newline = newline
  QuitLine = exit
  Free = free
  Torn = torn
  Users = {u1}
  Lines = {hello, list, exit}
  SocketBuffer = 1
  MaxClients = 1
  RecvMax = 2
  MaxLines = 3
INVARIANTS
  TypeOK
PROPERTIES
  ClientsFitRoom
  ReceiverDrains
  ExitEnds
CHECK_DEADLOCK FALSE
