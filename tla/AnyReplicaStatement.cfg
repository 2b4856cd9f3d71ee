SPECIFICATION FairSpec
CONSTANTS
  Clients = {c1}
  Names = {n1}
  SourceSignatures = {A, B}
  ReplicaSignatures = {A, None}
  NoSignature = None
  NoSource = NoSource
  MaxValue = 1
  MaxEnables = 2
  MaxAcquires = 2
  MaxEpochs = 3
PROPERTY
  AnyReplicaStatement
CHECK_DEADLOCK FALSE
