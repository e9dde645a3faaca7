CONSTANTS
  h1 = h1
  h2 = h2
  h3 = h3
  s1 = s1
  p1 = p1
  Hub = {h1, h2, h3}
  Sched = {s1}
  Put = {p1}
  IDOf <- Puts1
  None = None
  Scene <- Scenes
SPECIFICATION ClusterFairSpec
PROPERTIES MeshForms SchedulesReplicate
