---------------------------- MODULE MCPduLink ----------------------------
EXTENDS PduLink
=============================================================================
