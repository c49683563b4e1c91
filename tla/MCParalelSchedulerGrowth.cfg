SPECIFICATION Spec
CONSTANTS
  ThreadCount = 2
  QueueCapacity = 1
  s1 = s1
  s2 = s2
  t1 = t1
  t2 = t2
  t3 = t3
  t4 = t4
  Submitters = {s1, s2}
  Main = main
  Tasks = {t1, t2, t3, t4}
  FirstTasks <- MCFirstTasks
  Spawns <- MCSpawns
  Junk = junk
  Nobody = nobody
  Faults = {}
  MaxSpurious = 0
INVARIANTS
  AllTasksCompleted
