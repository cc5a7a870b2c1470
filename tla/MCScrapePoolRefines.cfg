CONSTANTS
  t1 = t1
  c1 = c1
  c2 = c2
  Targets <- MCTargets1
  Configs <- MCConfigs
  Settings <- MCSettings
  InitConfig = c1
  NumProbes = 2
  MaxIncarnations = 2
SPECIFICATION Spec
PROPERTY ScrapePoolRefinesAbstract
\* The pool really stops: after stop returned and every loop exited,
\* nothing is left to happen.
CHECK_DEADLOCK FALSE
