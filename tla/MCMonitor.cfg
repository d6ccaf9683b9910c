CONSTANTS
  Names <- MCNames
  Pids = {p1, p2, p3}
  Configs = {c1}
  TPS = 3
  MaxTimeout = 1
  MaxTerm = 2
  AllowReboot = TRUE
  RestartTimeout = 1
  NoPid = NoPid
  NoName = NoName
  NoCfg = NoCfg
  None = None
SPECIFICATION Spec
SYMMETRY MCSymmetry
INVARIANTS TypeOK QueueUnique AtMostOneLivePerName KilledMeansNoChildren
