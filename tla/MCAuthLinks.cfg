\* Two requests and two workers over one user's links: three requests and a fault or an event
\* between them, two and a fault with another or with an event, one and three faults.
SPECIFICATION Spec
CONSTANTS
  Reqs = {r1, r2}
  Workers = {w1, w2}
  Singles = {"confirmation"}
  Addresses = {new}
  Home = home
  Cap = 2
  Attempts = 2
  MaxStalls = 1
  MaxToken = 2
  MaxCalls = 3
  MaxFaults = 3
  MaxEvents = 1
  MaxTogether = 4
INVARIANTS TypeOK LinkOpensOnce CapHolds BothMeansApplied QueuedIsOwed
PROPERTIES SentOnce
CHECK_DEADLOCK FALSE
SYMMETRY Symmetry
