----------------------------- MODULE MC_SafeMap -----------------------------
EXTENDS SafeMap
=============================================================================
