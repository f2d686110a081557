------------------------------- MODULE GoMap -------------------------------
(***************************************************************************)
(* A Go map as a function whose domain is the set of its keys.  The store  *)
(* keeps every collection in such a map and uses the three operations      *)
(* below: m[k] = v, delete(m, k) for each key of a set, and taking a fresh *)
(* uuid as the next key.  (The operators :> and @@ of TLC would do for     *)
(* model checking, but the prover cannot expand them.)                     *)
(***************************************************************************)
EXTENDS Functions

Put(map, key, value) ==
    [k \in DOMAIN map \cup {key} |-> IF k = key THEN value ELSE map[k]]

Delete(map, keys) == Restrict(map, DOMAIN map \ keys)

EmptyMap == [k \in {} |-> {}]

(***************************************************************************)
(* uuid.NewString(): an id that was never handed out.  Ids are opaque, so  *)
(* which unused one is taken is immaterial: one representative is enough.  *)
(* The set is empty when the model has no id left.                         *)
(***************************************************************************)
Fresh(unused) == IF unused = {} THEN {} ELSE {CHOOSE id \in unused : TRUE}

=============================================================================
