------------------------------ MODULE MCBuild -------------------------------
EXTENDS Build
=============================================================================
