---------------------------- MODULE MCNamedMemory ----------------------------
EXTENDS NamedMemory
=============================================================================
