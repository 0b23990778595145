SPECIFICATION QueriesSpec
CONSTANTS
  N = 2
  S = 1
  Iters = 2
  Above <- MCAbove
  Conn = {1, 2}
INVARIANTS
  FreshAnswer
  NothingOlder
  ResultIsRight
PROPERTY AskedIsAnswered
