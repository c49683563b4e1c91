SPECIFICATION MCFairSpec
CONSTANTS
  u1 = u1
  u2 = u2
  hello = hello
  ListLine = list
  ExitLine = exit
  Newline = newline
  Free = free
  Torn = torn
  Users = {u1, u2}
  Lines = {newline}
  SocketBuffer = 1
  MaxClients = 1
  RecvMax = 1
  MaxSends = 2
PROPERTIES
  SlotIsFreed
CHECK_DEADLOCK FALSE
