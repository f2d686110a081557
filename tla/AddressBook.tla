---------------------------- MODULE AddressBook ----------------------------
(***************************************************************************)
(* What the accounts promise to whoever signs in by e-mail address: an     *)
(* address has at most one holder, stays with it until that user is        *)
(* removed, and a user that was removed never holds an address again.      *)
(***************************************************************************)
EXTENDS FiniteSets

CONSTANTS User, Mailbox, NoUser

VARIABLES
    holder,     \* mailbox -> the user that signs in by it, or NoUser
    known       \* the users that ever held a mailbox

vars == <<holder, known>>

Init ==
    /\ holder = [m \in Mailbox |-> NoUser]
    /\ known = {}

Register(m, u) ==
    /\ holder[m] = NoUser
    /\ u \notin known
    /\ holder' = [holder EXCEPT ![m] = u]
    /\ known' = known \cup {u}

Remove(u) ==
    /\ holder' = [m \in Mailbox |-> IF holder[m] = u THEN NoUser ELSE holder[m]]
    /\ UNCHANGED known

Clear ==
    /\ holder' = [m \in Mailbox |-> NoUser]
    /\ UNCHANGED known

Next ==
    \/ \E m \in Mailbox, u \in User : Register(m, u)
    \/ \E u \in User : Remove(u)
    \/ Clear

Spec == Init /\ [][Next]_vars

=============================================================================
