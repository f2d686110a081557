\* Ints of 4 bits and three users: the largest instance in which every page,
\* per_page and total can overflow as they do in 64 bits.  Users made in one
\* tick and in different ticks.
SPECIFICATION Spec
CONSTANTS
    User = {u1, u2, u3}
    Half = 8
    MaxQuery = 9
    NotANumber = NotANumber
    DefaultPerPage = 2
    MaxTime = 2
INVARIANTS
    SliceInBounds
    PagesExact
    WalkExact
