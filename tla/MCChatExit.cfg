SPECIFICATION FairSpec
CONSTANTS
  u1 = u1
  hello = hello
  ListLine = list
  ExitLine = exit
  Newline = newline
  QuitLine = exit
  Free = free
  Torn = torn
  Users = {u1}
  Lines = {hello, list, exit}
  SocketBuffer = 2
  MaxClients = 1
  RecvMax = 2
  MaxLines = 1
PROPERTIES
  ExitQuits
CHECK_DEADLOCK FALSE
