----------------------------- MODULE MCUdpRelay -----------------------------
EXTENDS UdpRelay

CONSTANTS a1, a2, t1, t2

AllEndpoints == {a1, a2, t1, t2}
ClientHost   == {a1, a2}

=============================================================================
