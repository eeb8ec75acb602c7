-------------------------- MODULE MCAppendLogStore --------------------------
EXTENDS AppendLogStore
=============================================================================
