-------------------------------- MODULE MCPipe -------------------------------
EXTENDS Pipe
=============================================================================
