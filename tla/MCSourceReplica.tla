-------------------------- MODULE MCSourceReplica --------------------------
EXTENDS SourceReplica
=============================================================================
