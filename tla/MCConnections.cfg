SPECIFICATION Spec
CONSTANTS
  c1 = c1
  c2 = c2
  l1 = l1
  l2 = l2
  w1 = w1
  w2 = w2
  Clients <- MCClients
  Links <- MCLinks
  Workers <- MCWorkers
  GameThread = w2
  Subscriber = w2
  Nobody = Nobody
INVARIANTS
  OneReceiver
  ListsAgree
  AcceptsAgain
CHECK_DEADLOCK FALSE
