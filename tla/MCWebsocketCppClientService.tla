--------------------- MODULE MCWebsocketCppClientService ---------------------
EXTENDS WebsocketCppClientService
=============================================================================
