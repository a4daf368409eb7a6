------------------------------- MODULE MCGraph -------------------------------
\* Graph with the values of MCGraphValues, for TLC.
EXTENDS Graph, MCGraphValues
===============================================================================
