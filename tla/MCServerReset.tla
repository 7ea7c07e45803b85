---------------------------- MODULE MCServerReset ----------------------------
\* Model-checking instance of ServerReset.
EXTENDS ServerReset
===============================================================================
