------------------------------ MODULE MCUsers -------------------------------
(* A small instance of users and permissions.  The uid 5 does not fit in an  *)
(* inode: it is kept as 1, the uid of "user".                                *)
EXTENDS Users

SomeModes == {{"RU", "WU"}, {"RU", "WU", "RO", "WO"}}
=============================================================================
