\* The experiment process runs on CPU 4, a CPU no kthread is bound to.
CONSTANTS
  Clients = {c1}
  Cpus <- MCCpusBeyond
  LbrCount = 2
  RecBytes = 2
  Branches <- MCBranches
  KmallocResults = {"buffer"}
  MaxBranches = 2
  MaxRounds = 2
SPECIFICATION Spec
PROPERTY RecordingResumes
\* The client stops after MaxRounds rounds and the module is then unloaded.
CHECK_DEADLOCK FALSE
