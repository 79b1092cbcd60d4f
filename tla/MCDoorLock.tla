------------------------------ MODULE MCDoorLock ------------------------------
EXTENDS DoorLock

CONSTANTS a, b

MCNodes == {a, b}
MCLifeline == <<a, b>>
===============================================================================
