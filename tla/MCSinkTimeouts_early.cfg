CONSTANTS
  Owners = {o1, o2, o3}
  MaxDelay = 2
SPECIFICATION TimeoutSpec
PROPERTY NeverEarly
