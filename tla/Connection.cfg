SPECIFICATION FairSpec
CONSTANTS
  TcpUrls = {t1}
  LocalUrls = {l1}
  UnknownUrls = {x1}
  Hosts = {h1, h2}
  CompatibleHosts = {h1}
  None = None
  MaxLosses = 1
  MaxFailures = 1
INVARIANTS
  TypeOK
  Framed
  RetryArmed
  VersionChecked
PROPERTIES
  Reconnects
CHECK_DEADLOCK FALSE
