SPECIFICATION MCSpec
CONSTANTS
  Boxes = {"a", "b"}
  Plans <- MCAllPlans
  Outputs = {"pipe", "buffer"}
  Sizes = {0, 2}
  Workers <- MCWorkers
  Capacity = 1
  MaxOut = 2
INVARIANT WholeOutput
PROPERTY EndsSeen
PROPERTY ClientFinishes
