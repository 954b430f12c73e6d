------------------------------- MODULE MCP2P -------------------------------
\* Two committee members with keys 1 < 2.
EXTENDS P2P
=============================================================================
