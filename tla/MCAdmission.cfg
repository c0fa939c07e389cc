SPECIFICATION Spec
CONSTANTS
  Workflows = {1, 2, 3}
  Projects = {1, 2}
  ProjectOf <- MCProjectOf
  Stoppable = {1}
  MaxActive = 1
  Lease = 2
  MaxMishaps = 1
INVARIANTS TypeOK QueuesAgree
PROPERTIES StoppedFreesSlot NoStarvation
