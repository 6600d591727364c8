SPECIFICATION Spec
CONSTANT N = 3
PROPERTIES
  EveryJobEnds
  PublishedUnlessBlocked
