CONSTANTS
  NSlots = 3
  Objects = {o1, o2, o3, o4}
SPECIFICATION Spec
SYMMETRY Interchangeable
INVARIANT HandlersKeepTheirSlots
