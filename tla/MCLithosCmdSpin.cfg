CONSTANTS
  Names = {"cmd"}
  Pids = {p1, p2}
  Configs = {c1}
  TPS = 3
  MaxTimeout = 0
  MaxTerm = 2
  AllowReboot = FALSE
  RestartTimeout = 0
  NoPid = NoPid
  NoName = NoName
  NoCfg = NoCfg
  None = None
SPECIFICATION CmdLoopSpec
PROPERTY StartLoopTerminates
