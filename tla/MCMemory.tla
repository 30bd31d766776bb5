------------------------------ MODULE MCMemory ------------------------------
EXTENDS Memory
=============================================================================
