-------------------------- MODULE MCAttachedBrowser --------------------------
EXTENDS AttachedBrowser
===============================================================================
