----------------------------- MODULE Pagination -----------------------------
(***************************************************************************)
(* The user listing (src/internal/auth/handler/admin_list_users.go and     *)
(* ListUsers of src/internal/auth/store/user.go) with Go's int of fixed    *)
(* width, and a client that walks the pages along the next links while     *)
(* users come and go.                                                      *)
(***************************************************************************)
EXTENDS Integers, FiniteSets, Sequences, GoMap

CONSTANTS
    User,           \* user ids
    Half,           \* 2^(w-1) for an int of w bits (2^63 in the code)
    MaxQuery,       \* bound on the numbers a client sends for page and per_page
    NotANumber,     \* a query that is missing or no number
    DefaultPerPage, \* per_page when none is given (50 in the code)
    MaxTime         \* bound on the clock

ASSUME HalfAssumption == Half \in Nat \ {0}

MaxInt == Half - 1

Query == -MaxQuery..MaxQuery \cup {NotANumber}

\* The users fit in memory, so twice their number is an int.
ASSUME UserAssumption ==
    /\ IsFiniteSet(User)
    /\ 2 * Cardinality(User) <= MaxInt

ASSUME QueryAssumption == MaxQuery \in Nat /\ NotANumber \notin Int

ASSUME DefaultAssumption == DefaultPerPage \in 1..MaxInt

ASSUME ClockAssumption == MaxTime \in Nat

VARIABLES
    createdAt,      \* users map: user -> CreatedAt
    now,            \* the store's clock, in ticks
    created,        \* history: user ids ever handed out
    answer,         \* what AdminListUsers answers in this step
    walk            \* a client's walk through the pages

vars == <<createdAt, now, created, answer, walk>>

-----------------------------------------------------------------------------
(***************************************************************************)
(* Integers as Go computes with them.                                      *)
(***************************************************************************)
GoInt == -Half..MaxInt

\* Two's complement.
Wrap(n) == ((n + Half) % (2 * Half)) - Half

\* Division truncates toward zero.
Quotient(a, b) == IF a >= 0 THEN a \div b ELSE -((-a) \div b)

\* strconv.Atoi with its error ignored: 0 for what is no number, the nearest int
\* for what is out of range.
Atoi(q) ==
    IF q = NotANumber THEN 0
    ELSE IF q > MaxInt THEN MaxInt
    ELSE IF q < -Half THEN -Half
    ELSE q

-----------------------------------------------------------------------------
(***************************************************************************)
(* The arithmetic of a listing.                                            *)
(***************************************************************************)
PageOf(q) == IF Atoi(q) <= 0 THEN 1 ELSE Atoi(q)

PerPageOf(q) == IF Atoi(q) <= 0 THEN DefaultPerPage ELSE Atoi(q)

Offset(page, perPage) == Wrap(Wrap(page - 1) * perPage)

InRange(offset, total) == offset >= 0 /\ offset < total

\* Variant with a bug: the end is computed before it is compared.
SliceEnd_AddsFirst(offset, limit, total) ==
    IF Wrap(offset + limit) < total THEN Wrap(offset + limit) ELSE total

\* offset + limit is added up only when it is known to be below total.
SliceEnd(offset, limit, total) ==
    IF limit < total - offset THEN Wrap(offset + limit) ELSE total

\* Variant with a bug: the division rounds down.
LastPage_RoundsDown(perPage, total) ==
    LET pages == Quotient(total, perPage)
    IN  IF pages < 1 THEN 1 ELSE pages

\* total + perPage may overflow. Up to MaxInt + 1 the subtraction brings it back and
\* the quotient is exact; past that it stays negative, and the answer is 1.
LastPage(perPage, total) ==
    LET pages == Quotient(Wrap(Wrap(total + perPage) - 1), perPage)
    IN  IF pages < 1 THEN 1 ELSE pages

\* Variant with a bug: the order of the map iteration is kept.
Orders_Unsorted == Bijection(1..Cardinality(DOMAIN createdAt), DOMAIN createdAt)

\* sort.Slice on the values of a Go map: any order that follows CreatedAt.
Orders ==
    {order \in Bijection(1..Cardinality(DOMAIN createdAt), DOMAIN createdAt) :
        \A i, j \in DOMAIN order : i < j => createdAt[order[i]] <= createdAt[order[j]]}

\* first and end are the bounds of the slice ordered[first:end].
Listing(page, perPage, order) ==
    LET total == Cardinality(DOMAIN createdAt)
        offset == Offset(page, perPage)
        first == IF InRange(offset, total) THEN offset ELSE 0
        end == IF InRange(offset, total) THEN SliceEnd(offset, perPage, total) ELSE 0
        last == LastPage(perPage, total)
    IN  [page |-> page, perPage |-> perPage, total |-> total, first |-> first, end |-> end,
         users |-> {order[i] : i \in first + 1 .. end},
         next |-> IF page < last THEN page + 1 ELSE 0, last |-> last]

NoAnswer == [page |-> 1, perPage |-> 1, total |-> 0, first |-> 0, end |-> 0, users |-> {},
             next |-> 0, last |-> 1]

-----------------------------------------------------------------------------
(***************************************************************************)
(* A walk asks for page 1 and then for every next page.  It notes whom it  *)
(* was sent, whom twice, who was there from the start, and whether anybody *)
(* was deleted on the way.                                                 *)
(***************************************************************************)
NoWalk == [page |-> 0, perPage |-> 1, sent |-> {}, twice |-> {}, start |-> {}, quiet |-> TRUE]

Disturbed == IF walk = NoWalk THEN walk ELSE [walk EXCEPT !.quiet = FALSE]

Init ==
    /\ createdAt = EmptyMap
    /\ now = 0
    /\ created = {}
    /\ answer = NoAnswer
    /\ walk = NoWalk

Tick ==
    /\ now < MaxTime
    /\ now' = now + 1
    /\ answer' = NoAnswer
    /\ UNCHANGED <<createdAt, created, walk>>

NewUser(u) ==
    /\ u \notin created
    /\ createdAt' = Put(createdAt, u, now)
    /\ created' = created \cup {u}
    /\ answer' = NoAnswer
    /\ UNCHANGED <<now, walk>>

DeleteUser(u) ==
    /\ u \in DOMAIN createdAt
    /\ createdAt' = Delete(createdAt, {u})
    /\ walk' = Disturbed
    /\ answer' = NoAnswer
    /\ UNCHANGED <<now, created>>

Reset ==
    /\ createdAt' = EmptyMap
    /\ walk' = Disturbed
    /\ answer' = NoAnswer
    /\ UNCHANGED <<now, created>>

\* Any page and per_page a client may send.  It changes nothing, so it need not
\* happen during a walk as well (a bound of the model).
AdminListUsers(page, perPage) ==
    /\ walk = NoWalk
    /\ \E order \in Orders : answer' = Listing(PageOf(page), PerPageOf(perPage), order)
    /\ UNCHANGED <<createdAt, now, created, walk>>

StartWalk(perPage) ==
    /\ walk' = [NoWalk EXCEPT !.page = 1, !.perPage = PerPageOf(perPage),
                              !.start = DOMAIN createdAt]
    /\ answer' = NoAnswer
    /\ UNCHANGED <<createdAt, now, created>>

WalkOn ==
    /\ walk.page > 0
    /\ \E order \in Orders : answer' = Listing(walk.page, walk.perPage, order)
    /\ walk' = [walk EXCEPT !.page = answer'.next,
                            !.sent = @ \cup answer'.users,
                            !.twice = @ \cup (walk.sent \cap answer'.users)]
    /\ UNCHANGED <<createdAt, now, created>>

Next ==
    \/ Tick
    \/ \E u \in User : NewUser(u) \/ DeleteUser(u)
    \/ Reset
    \/ \E perPage \in Query :
           \/ StartWalk(perPage)
           \/ \E page \in Query : AdminListUsers(page, perPage)
    \/ WalkOn

Spec == Init /\ [][Next]_vars

-----------------------------------------------------------------------------
(***************************************************************************)
(* Properties.                                                             *)
(***************************************************************************)
\* Every variable has its type.
TypeOK ==
    /\ createdAt \in [DOMAIN createdAt -> 0..now] /\ DOMAIN createdAt \subseteq created
    /\ now \in 0..MaxTime
    /\ created \subseteq User
    /\ answer \in [page : 1..MaxInt, perPage : 1..MaxInt, total : 0..Cardinality(User),
                   first : Int, end : Int, users : SUBSET User, next : 0..MaxInt, last : 1..MaxInt]
    /\ walk \in [page : 0..MaxInt, perPage : 1..MaxInt, sent : SUBSET User, twice : SUBSET User,
                 start : SUBSET User, quiet : BOOLEAN]

\* ordered[offset:end] never panics, whatever page and per_page overflow to.
SliceInBounds == 0 <= answer.first /\ answer.first <= answer.end /\ answer.end <= answer.total

AtMost(a, b) == IF a <= b THEN a ELSE b

\* The definition the arithmetic is compared with: the number of pages is the
\* least one that has room for everybody, and page p holds the p-th perPage users.
IsLastPage(last, perPage, total) ==
    last >= 1 /\ last * perPage >= total /\ (last > 1 => (last - 1) * perPage < total)

\* Up to the last page, which is computed right for every per_page, every page is
\* the right slice: an overflow of total + perPage or of the offset comes about
\* only where it does no harm.
PagesExact ==
    LET before == (answer.page - 1) * answer.perPage IN
    /\ IsLastPage(answer.last, answer.perPage, answer.total)
    /\ answer.next = IF answer.page < answer.last THEN answer.page + 1 ELSE 0
    /\ answer.page <= answer.last =>
           /\ answer.first = AtMost(before, answer.total)
           /\ answer.end = AtMost(before + answer.perPage, answer.total)

Alone(u) == \A v \in DOMAIN createdAt : createdAt[v] = createdAt[u] => v = u

\* A walk along the next links that no deletion disturbs has sent everybody who
\* was there from the start exactly once when it ends, however many users are
\* made meanwhile, provided nobody else was made in the same tick (the order of
\* those is random and drawn anew for every page).
WalkExact ==
    walk.quiet =>
        \A u \in walk.start \cap DOMAIN createdAt :
            Alone(u) => /\ u \notin walk.twice
                        /\ walk.page = 0 => u \in walk.sent

=============================================================================
