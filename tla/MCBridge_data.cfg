SPECIFICATION FairSpec
CONSTANTS
  Udp = Udp
  Srv = Srv
  Con = Con
  Free = Free
  UartCount = 2
  Conns = {c1}
  MaxClients = 1
  Bauds = {b1}
  MaxNet = 2
  MaxUart = 0
  Stops = FALSE
INVARIANTS SameOrderOnEveryUart
PROPERTIES UartMutexReleased IdleUartGetsPacket SlotComesBack
CHECK_DEADLOCK FALSE
