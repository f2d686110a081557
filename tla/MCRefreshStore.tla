--------------------------- MODULE MCRefreshStore ---------------------------
(***************************************************************************)
(* Small instances of RefreshStore for TLC.  Users are interchangeable;    *)
(* sessions and tokens are not, because Fresh picks one of them.           *)
(***************************************************************************)
EXTENDS RefreshStore, TLC

UserSymmetry == Permutations(User)

=============================================================================
