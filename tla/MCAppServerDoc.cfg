\* What design.md says of SIGTERM, against what the code does.
CONSTANT
  Requests = {r1, r2}
SPECIFICATION Spec
INVARIANTS
  InFlightFinishBeforeExit
