CONSTANTS
  s1 = s1
  s2 = s2
  Sandboxes <- MCSandboxes
  MaxInst = 1
  Faults <- AllFaults
  NoFile = NoFile
  NoName = NoName
  Stranger = Stranger
SPECIFICATION Spec
SYMMETRY MCSymmetry
\* lithos_check returns from main once check() is done.
CHECK_DEADLOCK FALSE
INVARIANTS AcceptedConfigValid
