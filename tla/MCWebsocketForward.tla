-------------------------- MODULE MCWebsocketForward --------------------------
EXTENDS WebsocketForward
===============================================================================
