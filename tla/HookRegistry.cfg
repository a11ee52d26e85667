SPECIFICATION FairSpec
CONSTANTS
  MaxLoads = 2
  MaxBodies = 2
INVARIANTS OneHookPerSite RunsOnlyWanted
PROPERTIES PublishesOncePerFrame RemovedAreForgotten
