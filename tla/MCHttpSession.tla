--------------------------- MODULE MCHttpSession ----------------------------
EXTENDS HttpSession
MCPorts == <<"443", "80">>
=============================================================================
