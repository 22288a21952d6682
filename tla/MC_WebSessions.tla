-------------------------- MODULE MC_WebSessions --------------------------
EXTENDS WebSessions
=============================================================================
