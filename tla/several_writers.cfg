\* Three threads in VWrite on one socket whose buffer holds two bytes, and a
\* VClose.
SPECIFICATION FairSpec

CONSTANTS
  sf = sf
  s1 = s1
  s2 = s2
  Writers <- MCWriters
  ToWrite <- MCToWrite
  MaxBufferSize = 2

INVARIANTS
  TypeOK
  WritersWoken
  EachInOrder
  OvertakenOnly

PROPERTIES
  PrecedingSendsTaken
  VWriteReturns

\* All is written, or has failed, and all is taken.
CHECK_DEADLOCK FALSE
