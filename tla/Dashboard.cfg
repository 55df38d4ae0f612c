SPECIFICATION Spec
CONSTANTS
  s1 = s1
  s2 = s2
  dashboard = dashboard
  alice = alice
  host = host
  Processes = 2
  Name = {dashboard, alice}
  NoName = NoName
  Hostname = {host}
  TokenLife = 0
  MaxRequests = 3
  MaxTime = 1
  Session = {s1, s2}
  DashboardUser = dashboard
  MaxRestarts = 1
CHECK_DEADLOCK FALSE
INVARIANTS
  MixedOnlyAfterThree
  OneWinnerPerHostname
  ShownOnlyIfAcknowledged
PROPERTIES
  NeverStealsOld
