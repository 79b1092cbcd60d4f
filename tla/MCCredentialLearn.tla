--------------------------- MODULE MCCredentialLearn ---------------------------
EXTENDS CredentialLearn

CONSTANTS a, p, q
===============================================================================
