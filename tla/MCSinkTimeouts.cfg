CONSTANTS
  Owners = {o1, o2, o3, o4}
  MaxDelay = 3
SYMMETRY Symmetry
SPECIFICATION TimeoutSpec
INVARIANT SoonestFirst NeverForgotten
