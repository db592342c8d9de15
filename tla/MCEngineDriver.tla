--------------------------- MODULE MCEngineDriver ---------------------------
EXTENDS EngineDriver
=============================================================================
