SPECIFICATION ScopedSpec
CONSTANTS
  a1 = a1
  a2 = a2
  j1 = j1
  j2 = j2
  s1 = s1
  None = None
  Actors <- TwoActors
  Posters = {p1}
  Dispatchers = {d1, d2}
  Jobs <- TwoJobs
  Target <- OneEach
  Seeded <- NoJobs
  ExecuteJobCount = 1
  QueueLimit = 1
  PostFailures = 1
  Scopes <- OneScope
  Args <- Reversed
  Seed <- SeedOrder
  ScopedPosts = 2
INVARIANTS
  MembersExclusive
  StrandedOnlyIfLostOrHeld
