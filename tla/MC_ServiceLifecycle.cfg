SPECIFICATION Spec
CONSTANTS
  n1 = n1
  n2 = n2
  n3 = n3
  Nodes = {n1, n2, n3}
  max_nodes = 2
  MaxCreations = 2
  MaxDeaths = 2
SYMMETRY NodeSymmetry
INVARIANTS
  ServiceIntact
  FirstNodeRegisters
  ServiceRemoved
CHECK_DEADLOCK FALSE
