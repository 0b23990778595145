SPECIFICATION Spec
CONSTANTS
  N = 2
  S = 1
  Iters = 1
  Above <- MCAbove
INVARIANT ResultFilled
