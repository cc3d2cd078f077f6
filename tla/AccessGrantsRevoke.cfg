SPECIFICATION Spec
CONSTANTS
  ann = ann
  ben = ben
  sales = sales
  r1 = r1
  r2 = r2
  r3 = r3
  g1 = g1
  g2 = g2
  Users = {ann, ben}
  Assets = {sales}
  Requests = {r1, r2, r3}
  Grants = {g1, g2}
  Days = {1, 2}
  Configs <- OneDay
  NoPair = NoPair
  NoRequest = NoRequest
  Horizon = 2
PROPERTIES
  RevokesLiveOnly
CHECK_DEADLOCK FALSE
