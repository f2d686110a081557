------------------------- MODULE MCPasskeyHandlers -------------------------
(***************************************************************************)
(* Small instances of PasskeyHandlers for TLC.  Requests, users and        *)
(* credentials are interchangeable; the ids that Fresh picks are not.      *)
(***************************************************************************)
EXTENDS PasskeyHandlers, TLC

ClientSymmetry == Permutations(Request) \cup Permutations(User) \cup Permutations(Credential)

=============================================================================
