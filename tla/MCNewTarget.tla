----------------------------- MODULE MCNewTarget -----------------------------
EXTENDS NewTarget
=============================================================================
