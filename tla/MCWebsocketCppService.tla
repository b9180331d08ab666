------------------------ MODULE MCWebsocketCppService ------------------------
EXTENDS WebsocketCppService
=============================================================================
