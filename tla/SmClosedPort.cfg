CONSTANTS
  Sessions = {s1, s2, s3}
  Servers = {v1}
  ServiceNames = {"svc"}
  PortNames = {"port"}
  MaxPorts = 2
  PortSizes = {1}
SPECIFICATION SessionsSpec
INVARIANT ClosedPortWaitsForService
CHECK_DEADLOCK FALSE
