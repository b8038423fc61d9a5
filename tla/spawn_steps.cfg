SPECIFICATION FairSpec
CONSTANT
  Child = {c1, c2, c3, c4}
INVARIANTS TypeOK MutualExclusion PathsDistinct ChildrenListed
PROPERTIES ImplementsBooking EverySpawnReturns
