CONSTANTS
  s1 = s1
  s2 = s2
  a1 = a1
  a2 = a2
  r1 = r1
  r2 = r2
  NoOne = NoOne
  Series <- MCSeries
  Appenders <- MCAppenders
  Requests <- MCRequests
  Endpoints <- MCEndpoints
SPECIFICATION Spec
PROPERTY NoAppendAfterExit
