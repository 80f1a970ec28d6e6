------------------------------ MODULE MCUserFind ------------------------------
EXTENDS UserFind
===============================================================================
