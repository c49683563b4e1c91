SPECIFICATION MCSpec
CONSTANTS
  u1 = u1
  u2 = u2
  hello = hello
  ListLine = list
  ExitLine = exit
  Newline = newline
  Free = free
  Torn = torn
  Users = {u1, u2}
  Lines = {exit}
  SocketBuffer = 2
  MaxClients = 2
  RecvMax = 2
  MaxSends = 2
INVARIANTS
  TypeOK
  TableIsCurrent
  HeardEverything
CHECK_DEADLOCK FALSE
SYMMETRY Symmetry
