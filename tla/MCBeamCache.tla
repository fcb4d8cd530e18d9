---------------------------- MODULE MCBeamCache ----------------------------
EXTENDS BeamCache
CONSTANTS a, b, mesh
MCPrompt == <<mesh>>
=============================================================================
