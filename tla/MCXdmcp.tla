------------------------------- MODULE MCXdmcp -------------------------------
\* Model-checking instance of Xdmcp.
EXTENDS Xdmcp
==============================================================================
