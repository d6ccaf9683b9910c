\* Every image path of up to 5 characters over {a, ., /} at 1 or 2
\* image_dir_levels, and every tcp_ports map over the keys 80, 080 and 80800
\* with every external flag, bridged or not, under every allow_tcp_ports.
CONSTANTS
  PathChars <- MCPathChars
  MaxPath = 5
  Levels = {1, 2}
  PortKeys <- MCPortKeys
  AllowStrings <- MCAllowStrings
SPECIFICATION Spec
\* check() goes on to the next child; the model ends after one.
CHECK_DEADLOCK FALSE
INVARIANTS CheckPathConfined
