--------------------------- MODULE MCWebsocketClient ---------------------------
EXTENDS WebsocketClient
===============================================================================
