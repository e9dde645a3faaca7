CONSTANTS
  h1 = h1
  h2 = h2
  h3 = h3
  h4 = h4
  Hub = {h1, h2, h3, h4}
  Nil = Nil
  Peers <- Mesh
  Origin = h1
  MaxMove = 2
SPECIFICATION Spec
INVARIANTS OneHop NotConnectedIsTrue RunsOnce
CHECK_DEADLOCK FALSE
