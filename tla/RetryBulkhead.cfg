\* Two clients retry nested calls that share two permits.
SPECIFICATION RBSpec
CONSTANTS
  c1 = c1
  c2 = c2
  Callers = {c1, c2}
  Clients = {c1, c2}
  MaxConcurrent = 2
  MaxDepth = 2
  MayCancel = TRUE
  MaxAttempts = 3
  InitialDelay = 10
  MaxDelay = 15
  BackoffFactor = 2
INVARIANTS
  PermitsConserved
  GivesUpRightly
PROPERTY DoReturns
