--------------------------- MODULE MCCredentialStore ---------------------------
EXTENDS CredentialStore

MCUsers == {1, 2}
MCCodes == {"3494", "11111"}
MCCodeLength == [c \in MCCodes |-> IF c = "3494" THEN 4 ELSE 5]
================================================================================
