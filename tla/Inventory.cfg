\* One request at a time over everything, and two for nodes and clusters.
SPECIFICATION MCSpec
CONSTANTS
  n1 = n1
  n2 = n2
  k1 = k1
  d1 = d1
  d2 = d2
  r1 = r1
  r2 = r2
  name1 = name1
  name2 = name2
  ip1 = ip1
  ip2 = ip2
  pin1 = pin1
  NoCluster = NoCluster
  Nodes = {n1, n2}
  Clusters = {k1}
  Devices = {d1, d2}
  Names = {name1, name2}
  Addresses = {ip1, ip2}
  Pins = {pin1}
  Callers = {r1, r2}
  Calls = {"CreateNode", "UpdateNode", "DeleteNode", "Provision", "Deprovision", "InsertNode", "CreateDevice", "UpdateDevice", "WriteDevice", "DeleteDevice", "InsertCluster", "DeleteCluster"}
SYMMETRY RowSymmetry
INVARIANTS OneOfEach ReferencesLive SavedIsKept
PROPERTY DeletedStaysDeleted
\* Nothing is left to call once every row was deleted.
CHECK_DEADLOCK FALSE
