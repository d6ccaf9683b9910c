CONSTANTS
  Groups = {"web"}
  MaxInst = 2
  Names <- MCNames
  Pids = {p1, p2, p3}
  Configs = {c1, c2}
  TPS = 1
  MaxTimeout = 1
  MaxTerm = 2
  AllowReboot = TRUE
  RestartTimeout = 1
  MaxReboots = 2
  NoPid = NoPid
  NoName = NoName
  NoCfg = NoCfg
  None = None
  Absent = Absent
SPECIFICATION TreeSpec
SYMMETRY MCSymmetry
INVARIANTS AtMostOneLivePerName UnidentNeverQueued
