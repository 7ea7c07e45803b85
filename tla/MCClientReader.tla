---------------------------- MODULE MCClientReader ----------------------------
\* Model-checking instance of ClientReader.
EXTENDS ClientReader
===============================================================================
