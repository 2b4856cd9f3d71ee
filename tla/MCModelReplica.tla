--------------------------- MODULE MCModelReplica ---------------------------
EXTENDS ModelReplica
CONSTANTS a, b, c, d, k1, k2, k3
MCInitialRows == <<a, b>>
MCInitialColumns == <<k1, k2>>
=============================================================================
