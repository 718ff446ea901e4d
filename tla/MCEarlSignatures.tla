-------------------------- MODULE MCEarlSignatures --------------------------
EXTENDS EarlSignatures
=============================================================================
