SPECIFICATION Spec
CONSTANTS
  dev1 = dev1
  sensor1 = sensor1
  ensor1 = ensor1
  Clients = {dev1, sensor1}
  Topics = {"a", "b"}
  Pids = {1}
  TrimLeft <- MCTrimLeft
  MaxRestarts = 1
INVARIANT SubscriptionsRestored
