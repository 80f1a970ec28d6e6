---------------------------- MODULE MCSessionManager ----------------------------
EXTENDS SessionManager, TLC

Symmetry == Permutations(Tabs) \cup Permutations(Users)
===============================================================================
