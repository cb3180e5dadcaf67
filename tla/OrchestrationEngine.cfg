SPECIFICATION MCFairSpec
CONSTANTS
  theProject = theProject
  theThread = theThread
  newProject = newProject
  newThread = newThread
  newThreadAgain = newThreadAgain
  startTurn = startTurn
  sessionRuns = sessionRuns
  savePlan = savePlan
  startFromPlan = startFromPlan
  reverted = reverted
  Projects = {theProject}
  Threads = {theThread}
  NoProject = NoProject
  NoThread = NoThread
  Nobody = Nobody
  Commands = {newProject, newThread, newThreadAgain, startTurn, savePlan, sessionRuns, startFromPlan, reverted}
  CommandOf <- MCCommandOf
  Callers = {k1, k2}
  Reactors = {r1}
  Clients = {s1}
  PubSubCapacity = 1
  ReadLimit = 2
INVARIANTS VerdictFollowsReceipt ExactlyOnce SnapshotAgrees ReadModelConsistent HistoryIsLegal PublishedExactly
PROPERTIES ImplementsLedger EveryCallAnswered EveryCommitPublished
