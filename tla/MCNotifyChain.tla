---------------------------- MODULE MCNotifyChain ----------------------------
EXTENDS NotifyChain, TLC
==============================================================================
