---------------------------- MODULE UserDirectory ----------------------------
(***************************************************************************)
(* What the User database promises its callers: a dictionary from User      *)
(* Unique Identifiers to users with room for Capacity of them, changed one  *)
(* user at a time.                                                          *)
(***************************************************************************)
EXTENDS FiniteSets, Naturals

CONSTANTS Ids, Capacity, NoUser,
          Contents(_)    \* what can be stored for an identifier

VARIABLE directory

Present == {id \in Ids : directory[id] # NoUser}

Init == directory = [id \in Ids |-> NoUser]

\* The entry of one identifier becomes contents of its own, all others stay.
Put(id) ==
    /\ directory'[id] \in Contents(id)
    /\ directory' = [directory EXCEPT ![id] = directory'[id]]

Add(id) == id \notin Present /\ Cardinality(Present) < Capacity /\ Put(id)

Modify(id) == id \in Present /\ Put(id)

Delete(id) ==
    /\ id \in Present
    /\ directory' = [directory EXCEPT ![id] = NoUser]

Clear == directory' = [id \in Ids |-> NoUser]

Next == (\E id \in Ids : Add(id) \/ Modify(id) \/ Delete(id)) \/ Clear

Spec == Init /\ [][Next]_directory

==============================================================================
