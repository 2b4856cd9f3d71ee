--------------------------- MODULE MCPendingCalls ---------------------------
EXTENDS PendingCalls
CONSTANTS a, b
MCOrder == <<a, b>>
\* a has made so many calls that m_curSerialId has reached its limit
MCFirstSerialId == [r \in {a, b} |-> IF r = a THEN MaxInt ELSE 1]

\* Bound: packets on their way
MaxInFlight == 3
FewInFlight == Len(toHost) + Len(toClient) <= MaxInFlight
=============================================================================
