SPECIFICATION FairSpec
CONSTANTS
  TcpUrls = {t1}
  LocalUrls = {l1}
  UnknownUrls = {x1}
  Hosts = {h1}
  CompatibleHosts = {h1}
  None = None
  MaxLosses = 2
  MaxFailures = 1
PROPERTY
  AnyConnectionStatement
CHECK_DEADLOCK FALSE
