CONSTANTS
  e1 = e1
  e2 = e2
  e3 = e3
  n1 = n1
  n2 = n2
  Names <- MCNames
  NumClients = 2
  Entries <- MCEntries
SPECIFICATION Spec
INVARIANT NoSendToStoppedClient
\* The manager really stops: after Stop (or StopNow) nothing is left to do.
CHECK_DEADLOCK FALSE
