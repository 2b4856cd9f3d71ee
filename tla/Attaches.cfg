SPECIFICATION FairSpec
CONSTANTS
  Clients = {c1}
  Names = {n1}
  SourceSignatures = {A, B}
  ReplicaSignatures = {A, None}
  NoSignature = None
  NoSource = NoSource
  MaxValue = 2
  MaxEnables = 2
  MaxAcquires = 2
  MaxEpochs = 2
PROPERTY
  Attaches
CHECK_DEADLOCK FALSE
