--------------------------- MODULE MCQnxTransport ---------------------------
EXTENDS QnxTransport

MCLengths == {1, 2}
=============================================================================
