\* A pinned and a tagged image; two containers; one push, pull and prune.
SPECIFICATION Spec
CONSTANTS
  None = None
  d1 = d1
  d2 = d2
  d3 = d3
  i1 = i1
  i2 = i2
  c1 = c1
  c2 = c2
  Spelled <- MCSpelled
  Familiar <- MCFamiliar
  Canonical <- MCCanonical
  Digests = {d1, d2, d3}
  IdOf <- MCIdOf
  Containers = {c1, c2}
  States = {"running", "restarting"}
  Selectors <- MCSelectors
  Before <- MCBefore
  MaxMoves = 1
  MaxPulls = 1
  MaxPrunes = 1
  MaxListing = 2
  MaxInspect = 2
SYMMETRY Twins
INVARIANTS
  ResolvedIsCurrent
  ObservedIsRunning
