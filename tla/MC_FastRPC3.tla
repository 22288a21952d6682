---------------------------- MODULE MC_FastRPC3 ----------------------------
EXTENDS FastRPC3
=============================================================================
