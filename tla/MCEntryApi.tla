----------------------------- MODULE MCEntryApi -----------------------------
(* Submitting entries on small instances.                                  *)
EXTENDS EntryApiHistory

=============================================================================
