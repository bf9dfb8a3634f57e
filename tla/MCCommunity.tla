----------------------------- MODULE MCCommunity -----------------------------
EXTENDS Community
MCGate == <<1, 1>>
=============================================================================
