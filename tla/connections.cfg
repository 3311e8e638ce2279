\* Requests of every kind share two threads and two connections.
CONSTANTS
  send = send
  read = read
  create = create
  stray = stray
  ready = ready
  Nobody = Nobody
  Requests = {send, create, stray, read, ready}
  Threads = {th1, th2}
  Connections = {db1, db2}
  Auth <- MCAuth
  Work <- MCWork
SPECIFICATION Spec
INVARIANTS
  ConnectionsAreOwned
PROPERTIES
  EveryRequestEnds
CHECK_DEADLOCK FALSE
