------------------------------- MODULE ZpalNvm -------------------------------
(***************************************************************************)
(* The NVM file operations of zpal_nvm_flashdb.c, as far as the descriptor  *)
(* tables stored through them can tell.  A file is the sequence of the      *)
(* table entries last written to it; <<>> is a file that does not exist.    *)
(*                                                                         *)
(* FlashDB itself replaces a value atomically: after a power loss the old   *)
(* or the new value is found, never a mixture.                              *)
(***************************************************************************)
EXTENDS SequencesExt

(***************************************************************************)
(* zpal_nvm_read succeeds exactly when the stored length is the requested   *)
(* one (blob.saved.len != object_size is an error).                         *)
(***************************************************************************)
ReadSucceeds(file, entries) == Len(file) = entries

(***************************************************************************)
(* The comparison before a write.  A value that fits the local buffer       *)
(* (chunk entries) is compared with its stored length; a longer one is      *)
(* compared chunk by chunk over the length of the NEW value only.           *)
(***************************************************************************)
MatchesStored(file, new, chunk) ==
    /\ IsPrefix(new, file)
    /\ Len(new) <= chunk => Len(file) = Len(new)

(***************************************************************************)
(* zpal_nvm_write skips the write when the comparison says that the stored  *)
(* value is already the new one.                                            *)
(***************************************************************************)
Written(file, new, chunk) ==
    IF MatchesStored(file, new, chunk) THEN file ELSE new

==============================================================================
