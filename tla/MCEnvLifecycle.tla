--------------------------- MODULE MCEnvLifecycle ---------------------------
EXTENDS EnvLifecycle
=============================================================================
