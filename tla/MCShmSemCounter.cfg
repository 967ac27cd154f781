CONSTANTS
  p1 = p1
  c1 = c1
  c2 = c2
  Producer <- MCProducer
  Consumer <- MCConsumer
  MaxIncs = 3
  MaxSetVals = 2
  MaxKills = 2
  MaxStops = 1
SPECIFICATION Spec
INVARIANTS
  Inv
  NeverOvercounts
  NeverWedged
PROPERTIES
  AtomicWhileUndisturbed
  CountingGoesOn
