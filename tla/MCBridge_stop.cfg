SPECIFICATION FairSpec
CONSTANTS
  Udp = Udp
  Srv = Srv
  Con = Con
  Free = Free
  UartCount = 1
  Conns = {c1, c2}
  MaxClients = 1
  Bauds = {b1, b2}
  MaxNet = 1
  MaxUart = 1
  Stops = TRUE
INVARIANTS CleanStop AtMostMaxClients
PROPERTIES CleanupEnds
CHECK_DEADLOCK FALSE
