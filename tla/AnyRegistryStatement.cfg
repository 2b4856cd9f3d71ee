SPECIFICATION FairSpec
CONSTANTS
  Hosts = {h1, h2}
  Proxy = proxy
  Names = {n1}
  None = None
  MaxEvents = 3
PROPERTY
  AnyRegistryStatement
CHECK_DEADLOCK FALSE
