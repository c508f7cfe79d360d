CONSTANTS
  Tasks = {t1, t2, t3}
  Permits = 2
  Target = 2
  Driver = driver
  None = none
SPECIFICATION Spec
PROPERTY SimulationCompletes
CHECK_DEADLOCK FALSE
