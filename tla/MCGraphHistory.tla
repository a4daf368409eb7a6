---------------------------- MODULE MCGraphHistory ----------------------------
\* GraphHistory with the values of MCGraphValues, for TLC.
EXTENDS GraphHistory, MCGraphValues
===============================================================================
