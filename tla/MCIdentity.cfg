CONSTANTS
  StemChars <- MCStemChars
  WordChars <- MCWordChars
  MaxStem = 3
  MaxInst = 2
  Configs = {"c1", "c2"}
  GlobalFile = "/etc/lithos.yaml"
  BaseName <- MCBaseName
  KnotBinary = "/usr/bin/lithos_knot"
  ForeignArgvs <- MCForeignArgvs
  Rest = "rest"
SPECIFICATION Spec
CHECK_DEADLOCK FALSE
INVARIANTS WordNamesRecovered ForeignUnidentified
