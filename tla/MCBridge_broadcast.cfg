SPECIFICATION Spec
CONSTANTS
  Udp = Udp
  Srv = Srv
  Con = Con
  Free = Free
  UartCount = 2
  Conns = {c1, c2}
  MaxClients = 2
  Bauds = {b1}
  MaxNet = 0
  MaxUart = 2
  Stops = FALSE
SYMMETRY Symmetry
INVARIANTS SameOrderAtEveryClient
CHECK_DEADLOCK FALSE
