-------------------------- MODULE MCModuleQueries --------------------------
EXTENDS ModuleQueries, TLC
=============================================================================
