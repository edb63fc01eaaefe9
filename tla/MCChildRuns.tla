------------------------------ MODULE MCChildRuns ------------------------------
EXTENDS ChildRuns
================================================================================
