---------------------------- MODULE MCReadModels ----------------------------
EXTENDS ReadModels
=============================================================================
