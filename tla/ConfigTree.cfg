\* Runs one after another; one fault and one outside change.
SPECIFICATION Spec
CONSTANTS
  x = x
  y = y
  first = first
  second = second
  nested = nested
  swapped = swapped
  unsound = unsound
  Dirty = Dirty
  Partial = Partial
  Absent = Absent
  Dir = Dir
  Link = Link
  Values = {x, y}
  Revisions = {first, second, nested, swapped, unsound}
  Paths <- MCPaths
  Temp <- MCTemp
  Undotted <- MCUndotted
  Trees <- MCTrees
  MaxFaults = 1
  MaxEdits = 2
INVARIANTS
  TreesTogether
  RefusesBeforeWriting
  ReportsWhatChanged
PROPERTIES
  ReturnsExactTree
