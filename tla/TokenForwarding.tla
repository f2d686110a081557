-------------------------- MODULE TokenForwarding --------------------------
(***************************************************************************)
(* What rotating refresh tokens promise to their clients, without clocks,  *)
(* records and indexes: every token handed out stands for the newest token *)
(* of its family until it is refused, and refusal is final.                *)
(***************************************************************************)
CONSTANTS
    Token,      \* refresh tokens
    Unissued,   \* not handed out yet
    Refused     \* not accepted any more

VARIABLE leaf   \* token -> the token a client is served when it presents it

Current == {t \in Token : leaf[t] = t}

Init == leaf = [t \in Token |-> Unissued]

\* A login, or a further token for a session, starts a family.
Issue(t) ==
    /\ leaf[t] = Unissued
    /\ leaf' = [leaf EXCEPT ![t] = t]

\* The current token of a family is replaced; whoever was served the old one is
\* served the new one from now on.
Rotate(t, child) ==
    /\ leaf[t] = t
    /\ leaf[child] = Unissued
    /\ leaf' = [x \in Token |-> IF x = child \/ leaf[x] = t THEN child ELSE leaf[x]]

\* Tokens that were replaced long enough ago are refused; a current token never
\* is.
Expire(tokens) ==
    /\ \A x \in tokens : leaf[x] \in Token \ {x}
    /\ leaf' = [x \in Token |-> IF x \in tokens THEN Refused ELSE leaf[x]]

\* Whole families are refused at once: no member of them is still accepted.
Revoke(current) ==
    leaf' = [x \in Token |-> IF leaf[x] \in current THEN Refused ELSE leaf[x]]

Next ==
    \/ \E t \in Token : Issue(t)
    \/ \E t, child \in Token : Rotate(t, child)
    \/ \E tokens \in SUBSET Token : Expire(tokens)
    \/ \E current \in SUBSET Current : Revoke(current)

Spec == Init /\ [][Next]_leaf

=============================================================================
