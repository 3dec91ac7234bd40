---------------------------- MODULE MCEnvSessions ----------------------------
EXTENDS EnvSessions
=============================================================================
