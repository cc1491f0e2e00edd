------------------------------- MODULE MCTools -------------------------------
EXTENDS Tools
MCCounters == 0..1
==============================================================================
