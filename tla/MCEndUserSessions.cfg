\* Refreshes, sign-ins and sign-outs of one user, three side by side.
SPECIFICATION Spec
CONSTANTS
  Reqs = {r1, r2, r3}
  Sessions = {s1, s2}
  Nobody = Nobody
  MaxToken = 4
  MaxCalls = 4
  MaxBreaks = 1
INVARIANTS TypeOK LineageIsSingle EndedIsDead
PROPERTIES ShutOut ImplementsContract EveryRequestEnds
CHECK_DEADLOCK FALSE
