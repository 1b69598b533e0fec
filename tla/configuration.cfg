\* Every file of up to five lines, and interfaces that go down and up,
\* and routes that come by RIP and expire.
SPECIFICATION Spec

CONSTANTS
  Width = 3
  Lines <- MCLines
  MaxLines = 5
  Heard <- MCHeard

INVARIANTS
  TypeOK
  ForwardsAsConfigured
  RIPStaysOnLink

\* A node that has stopped stays so.
CHECK_DEADLOCK FALSE
