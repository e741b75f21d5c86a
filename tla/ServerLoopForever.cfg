SPECIFICATION ServerSpec
CONSTANTS
  Clients = {c1, c2, c3}
  Nobody = Nobody
  Listener = Listener
INVARIANT LoopsForever
CHECK_DEADLOCK FALSE
