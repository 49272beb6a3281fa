\* Two clients, the experiment and trigger_dump, using the device at once.
CONSTANTS
  Clients = {c1, c2}
  Cpus <- MCCpus
  LbrCount = 2
  RecBytes = 2
  Branches <- MCBranches
  KmallocResults = {"buffer"}
  MaxBranches = 2
  MaxRounds = 1
SPECIFICATION Spec
INVARIANT ReadReturnsSnapshot
\* The client stops after MaxRounds rounds and the module is then unloaded.
CHECK_DEADLOCK FALSE
