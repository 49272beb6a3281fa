\* One client (the experiment process) doing two ioctl + read rounds.
CONSTANTS
  Clients = {c1}
  Cpus <- MCCpus
  LbrCount = 2
  RecBytes = 2
  Branches <- MCBranches
  KmallocResults = {"buffer"}
  MaxBranches = 2
  MaxRounds = 2
SPECIFICATION Spec
INVARIANT ReadReturnsSnapshot
PROPERTY RecordingResumes
\* The client stops after MaxRounds rounds and the module is then unloaded.
CHECK_DEADLOCK FALSE
