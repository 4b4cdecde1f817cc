\* Two connections that log in, link and close in every order, on two threads.
CONSTANTS
  Conns = {c1, c2}
  PackThreads = {p1, p2}
  Nobody = nobody
SPECIFICATION Spec
\* When all connections are closed nothing happens any more.
CHECK_DEADLOCK FALSE
INVARIANTS
  KnownWhileOpen
  RoomBothWays
  NothingLeft
PROPERTY
  AnsweredOrThrown
