SPECIFICATION MCSpec
CONSTANTS
  u1 = u1
  u2 = u2
  hello = hello
  ListLine = list
  ExitLine = exit
  Newline = newline
  Free = free
  Torn = torn
  Users = {u1, u2}
  Lines = {hello}
  SocketBuffer = 1
  MaxClients = 2
  RecvMax = 1
  MaxSends = 2
INVARIANTS
  Attributed
CHECK_DEADLOCK FALSE
