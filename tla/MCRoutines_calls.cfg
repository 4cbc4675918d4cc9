SPECIFICATION Spec
CONSTANTS
  Clients = {x, y}
  Routines = {r}
  Bodies = {plain, noon, dusk}
  ValidBodies = {noon, dusk}
  EndingBodies = {dusk}
  NoBody = NoBody
  plain = plain
  noon = noon
  dusk = dusk
  CronIds = {c1, c2}
  RunIds = {k1, k2}
  NoTask = NoTask
  Over = Over
  NoJob = NoJob
  Steps = 1
SYMMETRY Interchangeable
INVARIANTS
  TypeOK
  NoLostCron
  CronFollowsSaved
  OneRun
