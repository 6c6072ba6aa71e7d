SPECIFICATION FairSpec
CONSTANTS
  a1 = a1
  j1 = j1
  j2 = j2
  j3 = j3
  None = None
  Actors <- OneActor
  Posters = {p1, p2}
  Dispatchers = {d1, d2}
  Jobs <- ThreeJobs
  Target <- AllToOne
  Seeded <- NoJobs
  ExecuteJobCount = 2
  QueueLimit = 2
  PostFailures = 1
INVARIANTS
  TypeOK
  FlagHasOneHolder
  BatchBacked
  StrandedOnlyIfLost
PROPERTIES
  ImplementsMailbox
  WorkIsDoneOrLost
