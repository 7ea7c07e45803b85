---------------------------- MODULE MCClientOutput ----------------------------
\* Model-checking instance of ClientOutput.
EXTENDS ClientOutput
===============================================================================
