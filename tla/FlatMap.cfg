SPECIFICATION Spec
CONSTANTS
  HighBits = 3
  Types <- Colliding
  Entries <- TwoForOne
  Containers <- SomeContainers
  Predicates = {{1, 3}, {2, 4}, {1, 2, 5}}
  Counts = {0, 4}
  LoadFactors = {100}
INVARIANTS TypeOK BucketsIndexValues ProbeMayStop FindExact
PROPERTY ImplementsMap
VIEW View
