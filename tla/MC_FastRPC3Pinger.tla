------------------------- MODULE MC_FastRPC3Pinger -------------------------
EXTENDS FastRPC3Pinger
=============================================================================
