\* Every tree of up to 6 nodes (65 shapes, with up to 3 children of a node
\* and depth 5) and every table of 1-2 columns of 0-2 items.  print and
\* render_table return, so the final states have no successor.
CONSTANTS
  MaxNodes = 6
  MaxCols = 2
  MaxRows = 2
SPECIFICATION Spec
INVARIANTS TypeOK TreeDrawn TableTransposed
CHECK_DEADLOCK FALSE
