-------------------------- MODULE PaginationProofs --------------------------
(***************************************************************************)
(* Theorems about Pagination, for every width of int and every number of   *)
(* users that fits in memory.                                              *)
(***************************************************************************)
EXTENDS Pagination, TLAPS, FiniteSetTheorems

-----------------------------------------------------------------------------
(***************************************************************************)
(* Arithmetic.                                                             *)
(***************************************************************************)

\* Division with a positive divisor: quotient and remainder.
LEMMA DivMod ==
    ASSUME NEW a \in Int, NEW b \in Nat \ {0}
    PROVE  /\ a \div b \in Int /\ a % b \in Int
           /\ 0 <= a % b /\ a % b < b
           /\ a = b * (a \div b) + (a % b)
    OBVIOUS

\* A wrapped number is an int.
LEMMA WrapRange ==
    ASSUME NEW n \in Int
    PROVE  Wrap(n) \in GoInt
<1>1. 2 * Half \in Nat \ {0} /\ n + Half \in Int
    BY HalfAssumption
<1>2. (n + Half) % (2 * Half) \in Int /\ 0 <= (n + Half) % (2 * Half) /\ (n + Half) % (2 * Half) < 2 * Half
    BY <1>1, DivMod
<1> QED
    BY <1>2, HalfAssumption DEF Wrap, GoInt, MaxInt

\* An int is left as it is ...
LEMMA WrapInt ==
    ASSUME NEW n \in GoInt
    PROVE  Wrap(n) = n
<1>1. n + Half \in Int /\ 0 <= n + Half /\ n + Half < 2 * Half /\ 2 * Half \in Nat \ {0}
    BY HalfAssumption DEF GoInt, MaxInt
<1>2. (n + Half) % (2 * Half) = n + Half
    BY <1>1
<1> QED
    BY <1>2, HalfAssumption DEF Wrap, GoInt, MaxInt

\* ... and a number above the ints comes out below zero, one turn lower.
LEMMA WrapOver ==
    ASSUME NEW n \in Int, Half <= n, n < 3 * Half
    PROVE  Wrap(n) = n - 2 * Half
<1>1. 2 * Half \in Nat \ {0} /\ n + Half \in Int
    BY HalfAssumption
<1>2. (n + Half) % (2 * Half) = n + Half - 2 * Half
    BY <1>1, HalfAssumption
<1> QED
    BY <1>2, HalfAssumption DEF Wrap

\* The query values that reach the arithmetic are positive ints.
LEMMA QueryRange ==
    ASSUME NEW q \in Query
    PROVE  PageOf(q) \in 1..MaxInt /\ PerPageOf(q) \in 1..MaxInt
<1>1. q = NotANumber \/ q \in Int
    BY QueryAssumption DEF Query
<1>3. MaxInt \in Int /\ Half \in Int /\ -Half <= 0 /\ 0 <= MaxInt
    BY HalfAssumption DEF MaxInt
<1>2. Atoi(q) \in GoInt
    <2>1. CASE q = NotANumber
        BY <2>1, <1>3 DEF Atoi, GoInt
    <2>2. CASE q # NotANumber
        <3>1. q \in Int
            BY <2>2, <1>1
        <3>2. Atoi(q) = IF q > MaxInt THEN MaxInt ELSE IF q < -Half THEN -Half ELSE q
            BY <2>2 DEF Atoi
        <3> QED
            BY <3>1, <3>2, <1>3 DEF GoInt
    <2> QED
        BY <2>1, <2>2
<1> QED
    BY <1>2, <1>3, DefaultAssumption DEF PageOf, PerPageOf, GoInt

\* An offset is an int, and the true one wherever that is an int.
LEMMA OffsetExact ==
    ASSUME NEW page \in 1..MaxInt, NEW perPage \in 1..MaxInt
    PROVE  /\ Offset(page, perPage) \in GoInt
           /\ (page - 1) * perPage <= MaxInt => Offset(page, perPage) = (page - 1) * perPage
<1>1. page - 1 \in GoInt /\ page - 1 >= 0 /\ perPage \in Int /\ perPage >= 1
    BY HalfAssumption DEF GoInt, MaxInt
<1>2. Wrap(page - 1) = page - 1
    BY <1>1, WrapInt
<1>3. (page - 1) * perPage \in Int /\ (page - 1) * perPage >= 0
    BY <1>1 DEF GoInt
<1>4. Offset(page, perPage) = Wrap((page - 1) * perPage)
    BY <1>2 DEF Offset
<1>5. Wrap((page - 1) * perPage) \in GoInt
    BY <1>3, WrapRange
<1>6. ASSUME (page - 1) * perPage <= MaxInt
      PROVE  Wrap((page - 1) * perPage) = (page - 1) * perPage
    <2>1. (page - 1) * perPage \in GoInt
        BY <1>3, <1>6, HalfAssumption DEF GoInt, MaxInt
    <2> QED
        BY <2>1, WrapInt
<1> QED
    BY <1>4, <1>5, <1>6

\* The number of pages is right for every per_page, overflow or not.
LEMMA LastPageExact ==
    ASSUME NEW perPage \in 1..MaxInt, NEW total \in Nat, 2 * total <= MaxInt
    PROVE  /\ IsLastPage(LastPage(perPage, total), perPage, total)
           /\ LastPage(perPage, total) \in 1..MaxInt
<1> DEFINE sum == Wrap(Wrap(total + perPage) - 1)
           exact == total + perPage - 1
           pages == Quotient(sum, perPage)
<1>0. Half \in Nat \ {0} /\ MaxInt = Half - 1 /\ perPage \in Nat \ {0} /\ perPage <= MaxInt
    BY HalfAssumption DEF MaxInt
<1>1. LastPage(perPage, total) = IF pages < 1 THEN 1 ELSE pages
    BY DEF LastPage
<1>2. CASE exact <= MaxInt
    <2>1. sum = exact
        <3>1. CASE total + perPage <= MaxInt
            <4>1. total + perPage \in GoInt /\ exact \in GoInt
                BY <1>0, <3>1 DEF GoInt
            <4> QED
                BY <4>1, WrapInt
        <3>2. CASE total + perPage > MaxInt
            <4>1. total + perPage = Half
                BY <1>0, <1>2, <3>2
            <4>2. Wrap(total + perPage) = -Half
                BY <1>0, <4>1, WrapOver
            <4>3. Wrap(-Half - 1) = Half - 1
                <5>1. (-Half - 1) + Half = -1
                    BY <1>0
                <5>2. (-1) % (2 * Half) = 2 * Half - 1
                    BY <1>0
                <5> QED
                    BY <5>1, <5>2, <1>0 DEF Wrap
            <4> QED
                BY <4>1, <4>2, <4>3, <1>0
        <3> QED
            BY <3>1, <3>2, <1>0
    <2>2. exact \in Int /\ exact >= 0
        BY <1>0
    <2>3. pages = exact \div perPage
        BY <2>1, <2>2 DEF Quotient
    <2> DEFINE q == exact \div perPage
               rest == exact % perPage
    <2>4. q \in Int /\ rest \in Int /\ 0 <= rest /\ rest < perPage /\ exact = perPage * q + rest
        <3>1. exact = perPage * (exact \div perPage) + (exact % perPage)
            BY <1>0, <2>2, DivMod
        <3> QED
            BY <3>1, <1>0, <2>2, DivMod
    <2> HIDE DEF q, rest, pages, sum, exact
    <2>5. exact = total + perPage - 1
        BY DEF exact
    <2>6. pages = q
        BY <2>3 DEF q
    <2>7. CASE total = 0
        <3>1. q < 1
            BY <2>4, <2>5, <2>7, <1>0
        <3> QED
            BY <3>1, <2>6, <2>7, <1>0, <1>1 DEF IsLastPage
    <2>8. CASE total > 0
        <3>1. q >= 1
            BY <2>4, <2>5, <2>8, <1>0
        <3>2. perPage * q >= total
            BY <2>4, <2>5, <1>0
        <3>3. perPage * q - perPage < total
            BY <2>4, <2>5, <1>0
        <3>4. (q - 1) * perPage = perPage * q - perPage /\ q * perPage = perPage * q
            BY <2>4, <1>0
        <3>5. q - 1 <= (q - 1) * perPage
            BY <3>1, <2>4, <1>0
        <3>6. q <= MaxInt
            BY <3>3, <3>4, <3>5, <2>4, <1>0
        <3>7. LastPage(perPage, total) = q
            BY <3>1, <2>4, <2>6, <1>1
        <3> QED
            BY <3>1, <3>2, <3>3, <3>4, <3>6, <3>7, <2>4, <1>0 DEF IsLastPage
    <2> QED
        BY <2>7, <2>8
<1>3. CASE exact > MaxInt
    <2>1. total + perPage \in Int /\ Half <= total + perPage /\ total + perPage < 2 * Half
        BY <1>0, <1>3
    <2>2. Wrap(total + perPage) = total + perPage - 2 * Half
        BY <2>1, <1>0, WrapOver
    <2>3. total + perPage - 2 * Half - 1 \in GoInt
        BY <1>0, <1>3 DEF GoInt
    <2>4. sum = total + perPage - 2 * Half - 1
        <3>1. sum = Wrap(total + perPage - 2 * Half - 1)
            BY <2>1, <2>2, <1>0
        <3> QED
            BY <3>1, <2>3, WrapInt
    <2>5. sum \in Int /\ sum < 0
        BY <2>4, <2>1, <1>0
    <2>6. pages <= 0
        <3>1. pages = -((-sum) \div perPage)
            BY <2>5 DEF Quotient
        <3>2. -sum \in Nat
            BY <2>5
        <3>3. (-sum) \div perPage >= 0 /\ (-sum) \div perPage \in Int
            BY <3>2, <1>0
        <3> QED
            BY <3>1, <3>3
    <2>7. pages \in Int
        BY <2>5, <1>0 DEF Quotient
    <2>8. LastPage(perPage, total) = 1
        BY <1>1, <2>6, <2>7
    <2>9. perPage >= total
        BY <1>0, <1>3
    <2> QED
        BY <2>8, <2>9, <1>0 DEF IsLastPage
<1> QED
    BY <1>2, <1>3, <1>0

\* The order of a listing enumerates the stored users.
LEMMA OrdersListUsers ==
    ASSUME NEW order \in Orders
    PROVE  order \in [1..Cardinality(DOMAIN createdAt) -> DOMAIN createdAt]
    BY DEF Orders, Bijection, Injection, Surjection

\* The users are finitely many, and twice their number is an int.
LEMMA TotalRange ==
    ASSUME TypeOK
    PROVE  /\ Cardinality(DOMAIN createdAt) \in 0..Cardinality(User)
           /\ 2 * Cardinality(DOMAIN createdAt) <= MaxInt
<1>1. DOMAIN createdAt \subseteq User
    BY DEF TypeOK
<1>2. /\ Cardinality(DOMAIN createdAt) \in Nat /\ Cardinality(User) \in Nat
      /\ Cardinality(DOMAIN createdAt) <= Cardinality(User)
    BY <1>1, UserAssumption, FS_Subset, FS_CardinalityType
<1> QED
    BY <1>2, UserAssumption, HalfAssumption DEF MaxInt

-----------------------------------------------------------------------------
(***************************************************************************)
(* The invariants.                                                         *)
(***************************************************************************)
AnswerRecord == [page : 1..MaxInt, perPage : 1..MaxInt, total : 0..Cardinality(User),
                 first : Int, end : Int, users : SUBSET User, next : 0..MaxInt, last : 1..MaxInt]

\* What TypeOK, SliceInBounds and PagesExact say of an answer.
Sound(a) ==
    /\ a \in AnswerRecord
    /\ 0 <= a.first /\ a.first <= a.end /\ a.end <= a.total
    /\ IsLastPage(a.last, a.perPage, a.total)
    /\ a.next = IF a.page < a.last THEN a.page + 1 ELSE 0
    /\ a.page <= a.last =>
           /\ a.first = AtMost((a.page - 1) * a.perPage, a.total)
           /\ a.end = AtMost((a.page - 1) * a.perPage + a.perPage, a.total)

\* The bounds of the slice, with the number of users and of pages given.
LEMMA SliceExact ==
    ASSUME NEW page \in 1..MaxInt, NEW perPage \in 1..MaxInt,
           NEW total \in Nat, total <= MaxInt,
           NEW last \in 1..MaxInt, IsLastPage(last, perPage, total),
           NEW first, NEW end,
           first = IF InRange(Offset(page, perPage), total) THEN Offset(page, perPage) ELSE 0,
           end = IF InRange(Offset(page, perPage), total)
                 THEN SliceEnd(Offset(page, perPage), perPage, total) ELSE 0
    PROVE  /\ first \in Int /\ end \in Int
           /\ 0 <= first /\ first <= end /\ end <= total
           /\ page <= last => /\ first = AtMost((page - 1) * perPage, total)
                              /\ end = AtMost((page - 1) * perPage + perPage, total)
<1> DEFINE offset == Offset(page, perPage)
           before == (page - 1) * perPage
<1>0. MaxInt \in Int /\ Half \in Nat \ {0} /\ MaxInt = Half - 1
    BY HalfAssumption DEF MaxInt
<1>1. offset \in Int /\ (before <= MaxInt => offset = before)
    BY OffsetExact, <1>0 DEF GoInt
<1>2. before \in Int /\ before >= 0
    BY <1>0
<1>3. ASSUME InRange(offset, total)
      PROVE  /\ SliceEnd(offset, perPage, total) = AtMost(offset + perPage, total)
             /\ first = offset /\ end = AtMost(offset + perPage, total)
    <2>1. offset >= 0 /\ offset < total
        BY <1>3 DEF InRange
    <2>2. CASE perPage < total - offset
        <3>1. offset + perPage \in GoInt
            BY <1>0, <1>1, <2>1, <2>2 DEF GoInt
        <3>2. Wrap(offset + perPage) = offset + perPage
            BY <3>1, WrapInt
        <3> QED
            BY <3>2, <2>1, <2>2, <1>1, <1>0, <1>3 DEF SliceEnd, AtMost
    <2>3. CASE ~(perPage < total - offset)
        BY <2>1, <2>3, <1>1, <1>0, <1>3 DEF SliceEnd, AtMost
    <2> QED
        BY <2>2, <2>3
<1>4. ASSUME page <= last
      PROVE  total > 0 => before < total
    <2>1. CASE last = 1
        BY <2>1, <1>4, <1>0
    <2>2. CASE last > 1
        <3>1. (last - 1) * perPage < total
            BY <2>2, <1>0 DEF IsLastPage
        <3>2. before <= (last - 1) * perPage
            <4>1. page - 1 \in Nat /\ last - 1 \in Nat /\ perPage \in Nat /\ page - 1 <= last - 1
                BY <1>4, <1>0
            <4> QED
                BY <4>1
        <3> QED
            BY <3>1, <3>2, <1>2, <1>0
    <2> QED
        BY <2>1, <2>2, <1>0
<1> HIDE DEF before, offset
<1>5. CASE InRange(offset, total)
    <2>1. offset >= 0 /\ offset < total
        BY <1>5 DEF InRange
    <2>2. first = offset /\ end = AtMost(offset + perPage, total)
        BY <1>3, <1>5
    <2>3. page <= last => offset = before
        BY <1>4, <1>1, <1>2, <2>1, <1>0
    <2>4. first \in Int /\ end \in Int /\ 0 <= first /\ first <= end /\ end <= total
        BY <2>1, <2>2, <1>1, <1>0 DEF AtMost
    <2>5. ASSUME page <= last
          PROVE  first = AtMost(before, total) /\ end = AtMost(before + perPage, total)
        BY <2>5, <2>3, <2>1, <2>2, <1>2 DEF AtMost
    <2> QED
        BY <2>4, <2>5 DEF before
<1>6. CASE ~InRange(offset, total)
    <2>1. first = 0 /\ end = 0
        BY <1>6 DEF offset
    <2>2. ASSUME page <= last
          PROVE  total = 0
        <3>1. SUFFICES ASSUME total > 0
                       PROVE  FALSE
            OBVIOUS
        <3>2. before < total
            BY <1>4, <2>2, <3>1
        <3>3. offset = before
            BY <3>2, <1>1, <1>2, <1>0
        <3> QED
            BY <3>2, <3>3, <1>2, <1>6 DEF InRange
    <2>3. ASSUME page <= last
          PROVE  first = AtMost(before, total) /\ end = AtMost(before + perPage, total)
        BY <2>3, <2>1, <2>2, <1>2, <1>0 DEF AtMost
    <2> QED
        BY <2>1, <2>3, <1>0 DEF before
<1> QED
    BY <1>5, <1>6

\* Every answer is sound, for every page and per_page.
LEMMA ListingSound ==
    ASSUME TypeOK, NEW page \in 1..MaxInt, NEW perPage \in 1..MaxInt, NEW order \in Orders
    PROVE  Sound(Listing(page, perPage, order))
<1> DEFINE total == Cardinality(DOMAIN createdAt)
           last == LastPage(perPage, total)
           a == Listing(page, perPage, order)
<1>0. MaxInt \in Int /\ Half \in Nat \ {0} /\ MaxInt = Half - 1
    BY HalfAssumption DEF MaxInt
<1>1. total \in 0..Cardinality(User) /\ total \in Nat /\ 2 * total <= MaxInt /\ total <= MaxInt
    BY TotalRange, <1>0
<1>2. IsLastPage(last, perPage, total) /\ last \in 1..MaxInt
    BY <1>1, LastPageExact
<1>3. /\ a.page = page /\ a.perPage = perPage /\ a.total = total /\ a.last = last
      /\ a.next = IF page < last THEN page + 1 ELSE 0
      /\ a.first = IF InRange(Offset(page, perPage), total) THEN Offset(page, perPage) ELSE 0
      /\ a.end = IF InRange(Offset(page, perPage), total)
                 THEN SliceEnd(Offset(page, perPage), perPage, total) ELSE 0
      /\ a.users = {order[i] : i \in a.first + 1 .. a.end}
      /\ a = [page |-> a.page, perPage |-> a.perPage, total |-> a.total, first |-> a.first,
              end |-> a.end, users |-> a.users, next |-> a.next, last |-> a.last]
    BY DEF Listing
<1> HIDE DEF total, last, a
<1>4. /\ a.first \in Int /\ a.end \in Int
      /\ 0 <= a.first /\ a.first <= a.end /\ a.end <= total
      /\ page <= last => /\ a.first = AtMost((page - 1) * perPage, total)
                         /\ a.end = AtMost((page - 1) * perPage + perPage, total)
    BY <1>1, <1>2, <1>3, SliceExact
<1>5. a.users \subseteq User
    <2>1. order \in [1..total -> DOMAIN createdAt] /\ DOMAIN createdAt \subseteq User
        BY OrdersListUsers DEF TypeOK, total
    <2>2. \A i \in a.first + 1 .. a.end : i \in 1..total
        BY <1>4, <1>1
    <2> QED
        BY <2>1, <2>2, <1>3
<1>6. a.next \in 0..MaxInt
    BY <1>2, <1>3, <1>0
<1>7. a \in AnswerRecord
    BY <1>1, <1>2, <1>3, <1>4, <1>5, <1>6 DEF AnswerRecord
<1> QED
    BY <1>2, <1>3, <1>4, <1>7 DEF Sound, a

\* So is the empty answer of the steps that list nothing.
LEMMA NoAnswerSound == Sound(NoAnswer)
<1>1. 1 \in 1..MaxInt /\ MaxInt \in Nat
    BY DefaultAssumption, HalfAssumption DEF MaxInt
<1>2. 0 \in 0..Cardinality(User)
    BY UserAssumption, FS_CardinalityType
<1>3. NoAnswer \in AnswerRecord
    BY <1>1, <1>2 DEF NoAnswer, AnswerRecord
<1> QED
    BY <1>3 DEF NoAnswer, Sound, IsLastPage, AtMost

Inv == TypeOK /\ Sound(answer)

\* The inductive invariant holds at the start ...
LEMMA InvInit == Init => Inv
<1> SUFFICES ASSUME Init
             PROVE  Inv
    OBVIOUS
<1>1. MaxInt \in Nat /\ 1 \in 1..MaxInt
    BY DefaultAssumption, HalfAssumption DEF MaxInt
<1>2. createdAt \in [DOMAIN createdAt -> 0..now] /\ DOMAIN createdAt \subseteq created
    BY DEF Init, EmptyMap
<1>3. answer \in AnswerRecord
    BY NoAnswerSound DEF Init, Sound
<1>4. walk \in [page : 0..MaxInt, perPage : 1..MaxInt, sent : SUBSET User, twice : SUBSET User,
                start : SUBSET User, quiet : BOOLEAN]
    BY <1>1 DEF Init, NoWalk
<1>5. now \in 0..MaxTime /\ created \subseteq User
    BY ClockAssumption DEF Init
<1> QED
    BY <1>2, <1>3, <1>4, <1>5, NoAnswerSound DEF Inv, TypeOK, AnswerRecord, Init

WalkRecord == [page : 0..MaxInt, perPage : 1..MaxInt, sent : SUBSET User, twice : SUBSET User,
               start : SUBSET User, quiet : BOOLEAN]

\* TypeOK in the parts that the steps change one by one.
LEMMA TypeParts ==
    TypeOK <=> /\ createdAt \in [DOMAIN createdAt -> 0..now] /\ DOMAIN createdAt \subseteq created
               /\ now \in 0..MaxTime
               /\ created \subseteq User
               /\ answer \in AnswerRecord
               /\ walk \in WalkRecord
    BY DEF TypeOK, AnswerRecord, WalkRecord

\* ... is kept by every step ...
LEMMA InvStep == Inv /\ [Next]_vars => Inv'
<1> SUFFICES ASSUME Inv, [Next]_vars
             PROVE  Inv'
    OBVIOUS
<1>0. /\ createdAt \in [DOMAIN createdAt -> 0..now] /\ DOMAIN createdAt \subseteq created
      /\ now \in 0..MaxTime
      /\ created \subseteq User
      /\ walk \in WalkRecord
      /\ TypeOK /\ Sound(answer) /\ MaxInt \in Nat
    BY TypeParts, HalfAssumption DEF Inv, MaxInt
<1>a. ASSUME Sound(answer'),
             createdAt' \in [DOMAIN createdAt' -> 0..now'], DOMAIN createdAt' \subseteq created',
             now' \in 0..MaxTime, created' \subseteq User, walk' \in WalkRecord
      PROVE  Inv'
    <2>1. answer' \in AnswerRecord
        BY <1>a DEF Sound
    <2>2. Sound(answer)'
        BY <1>a DEF Sound, AnswerRecord, IsLastPage, AtMost, MaxInt
    <2>3. TypeOK'
        BY <1>a, <2>1 DEF TypeOK, AnswerRecord, WalkRecord, MaxInt
    <2> QED
        BY <2>2, <2>3 DEF Inv
<1>b. Disturbed \in WalkRecord
    <2>1. [walk EXCEPT !.quiet = FALSE] \in WalkRecord
        BY <1>0 DEF WalkRecord
    <2> QED
        BY <2>1, <1>0 DEF Disturbed
<1>1. CASE Tick
    <2>1. now' = now + 1 /\ now < MaxTime /\ createdAt' = createdAt /\ created' = created
          /\ walk' = walk /\ answer' = NoAnswer
        BY <1>1 DEF Tick
    <2>2. createdAt' \in [DOMAIN createdAt' -> 0..now']
        BY <2>1, <1>0
    <2>3. now' \in 0..MaxTime
        BY <2>1, <1>0, ClockAssumption
    <2> QED
        BY <2>1, <2>2, <2>3, <1>0, <1>a, NoAnswerSound
<1>2. ASSUME NEW u \in User, NewUser(u)
      PROVE  Inv'
    <2>1. createdAt' = Put(createdAt, u, now) /\ created' = created \cup {u} /\ now' = now
          /\ walk' = walk /\ answer' = NoAnswer
        BY <1>2 DEF NewUser
    <2>2. DOMAIN createdAt' = DOMAIN createdAt \cup {u}
        BY <2>1 DEF Put
    <2>3. createdAt' \in [DOMAIN createdAt' -> 0..now']
        <3>1. now \in 0..now
            BY <1>0
        <3> QED
            BY <2>1, <3>1, <1>0 DEF Put
    <2> QED
        BY <2>1, <2>2, <2>3, <1>0, <1>a, NoAnswerSound
<1>3. ASSUME NEW u \in User, DeleteUser(u)
      PROVE  Inv'
    <2>1. createdAt' = Delete(createdAt, {u}) /\ created' = created /\ now' = now
          /\ walk' = Disturbed /\ answer' = NoAnswer
        BY <1>3 DEF DeleteUser
    <2>2. /\ createdAt' \in [DOMAIN createdAt' -> 0..now']
          /\ DOMAIN createdAt' \subseteq DOMAIN createdAt
        BY <2>1, <1>0 DEF Delete, Restrict
    <2> QED
        BY <2>1, <2>2, <1>0, <1>a, <1>b, NoAnswerSound
<1>4. CASE Reset
    <2>1. createdAt' = EmptyMap /\ created' = created /\ now' = now
          /\ walk' = Disturbed /\ answer' = NoAnswer
        BY <1>4 DEF Reset
    <2>2. createdAt' \in [DOMAIN createdAt' -> 0..now'] /\ DOMAIN createdAt' = {}
        BY <2>1 DEF EmptyMap
    <2> QED
        BY <2>1, <2>2, <1>0, <1>a, <1>b, NoAnswerSound
<1>5. ASSUME NEW perPage \in Query, StartWalk(perPage)
      PROVE  Inv'
    <2>1. walk' = [NoWalk EXCEPT !.page = 1, !.perPage = PerPageOf(perPage),
                                 !.start = DOMAIN createdAt]
          /\ UNCHANGED <<createdAt, now, created>> /\ answer' = NoAnswer
        BY <1>5 DEF StartWalk
    <2>2. walk' \in WalkRecord
        <3>1. PerPageOf(perPage) \in 1..MaxInt /\ DOMAIN createdAt \subseteq User /\ 1 \in 0..MaxInt
            BY QueryRange, <1>0, DefaultAssumption
        <3> QED
            BY <2>1, <3>1 DEF NoWalk, WalkRecord
    <2> QED
        BY <2>1, <2>2, <1>0, <1>a, NoAnswerSound
<1>6. ASSUME NEW perPage \in Query, NEW page \in Query, AdminListUsers(page, perPage)
      PROVE  Inv'
    <2>1. UNCHANGED <<createdAt, now, created, walk>>
        BY <1>6 DEF AdminListUsers
    <2>2. PICK order \in Orders : answer' = Listing(PageOf(page), PerPageOf(perPage), order)
        BY <1>6 DEF AdminListUsers
    <2>3. Sound(answer')
        BY <2>2, <1>0, QueryRange, ListingSound
    <2> QED
        BY <2>1, <2>3, <1>0, <1>a
<1>7. CASE WalkOn
    <2>1. /\ walk.page > 0
          /\ walk' = [walk EXCEPT !.page = answer'.next,
                                  !.sent = @ \cup answer'.users,
                                  !.twice = @ \cup (walk.sent \cap answer'.users)]
          /\ UNCHANGED <<createdAt, now, created>>
        BY <1>7 DEF WalkOn
    <2>2. PICK order \in Orders : answer' = Listing(walk.page, walk.perPage, order)
        BY <1>7 DEF WalkOn
    <2>3. walk.page \in 1..MaxInt /\ walk.perPage \in 1..MaxInt
        BY <1>0, <2>1 DEF WalkRecord
    <2>4. Sound(answer')
        BY <2>2, <2>3, <1>0, ListingSound
    <2>5. answer'.next \in 0..MaxInt /\ answer'.users \subseteq User
        BY <2>4 DEF Sound, AnswerRecord
    <2>6. walk' \in WalkRecord
        BY <1>0, <2>1, <2>5 DEF WalkRecord
    <2> QED
        BY <2>1, <2>4, <2>6, <1>0, <1>a
<1>8. CASE UNCHANGED vars
    BY <1>8, <1>0, <1>a DEF vars
<1> QED
    BY <1>1, <1>2, <1>3, <1>4, <1>5, <1>6, <1>7, <1>8 DEF Next

\* ... and so always holds.
LEMMA Invariance == Spec => []Inv
<1> QED
    BY InvInit, InvStep, PTL DEF Spec

\* The listing is type correct: page, per_page, next and last are ints of the
\* width, whatever was sent.
THEOREM TypeCorrect == Spec => []TypeOK
<1>1. Inv => TypeOK
    BY DEF Inv
<1> QED
    BY <1>1, Invariance, PTL

\* ordered[offset:end] is a slice of the users for every page and per_page, for
\* every width of int.
THEOREM NoPanic == Spec => []SliceInBounds
<1>1. Inv => SliceInBounds
    BY DEF Inv, Sound, SliceInBounds
<1> QED
    BY <1>1, Invariance, PTL

\* The number of pages, the next link and every page up to the last are right.
THEOREM ListedExactly == Spec => []PagesExact
<1>1. Inv => PagesExact
    BY DEF Inv, Sound, PagesExact
<1> QED
    BY <1>1, Invariance, PTL

-----------------------------------------------------------------------------
(***************************************************************************)
(* The walk.  A user whose tick nobody shares has one place in every order *)
(* of the listing: behind those who are older.                             *)
(***************************************************************************)

\* Those of a users map who are older than u.
Older(users, u) == {v \in DOMAIN users : users[v] < users[u]}

Rank(users, u) == Cardinality(Older(users, u))

\* The rank of a user is a number.
LEMMA RankType ==
    ASSUME TypeOK, NEW u
    PROVE  Rank(createdAt, u) \in Nat
<1>1. IsFiniteSet(DOMAIN createdAt)
    BY UserAssumption, FS_Subset DEF TypeOK
<1>2. Older(createdAt, u) \subseteq DOMAIN createdAt
    BY DEF Older
<1> QED
    BY <1>1, <1>2, FS_Subset, FS_CardinalityType DEF Rank

\* However sort.Slice orders the others, a user who is alone in his tick comes
\* after exactly as many users as his rank says.
LEMMA PlaceIsRank ==
    ASSUME TypeOK, NEW order \in Orders, NEW u \in DOMAIN createdAt, Alone(u),
           NEW k \in 1..Cardinality(DOMAIN createdAt), order[k] = u
    PROVE  Rank(createdAt, u) = k - 1
<1> DEFINE total == Cardinality(DOMAIN createdAt)
           head == [i \in 1..(k - 1) |-> order[i]]
<1>0. total \in Nat /\ k \in 1..total
    BY TotalRange
<1>1. /\ order \in [1..total -> DOMAIN createdAt]
      /\ \A i, j \in 1..total : order[i] = order[j] => i = j
      /\ \A v \in DOMAIN createdAt : \E i \in 1..total : order[i] = v
      /\ \A i, j \in 1..total : i < j => createdAt[order[i]] <= createdAt[order[j]]
    BY DEF Orders, Bijection, Injection, Surjection, IsInjective
<1>2. \A v \in DOMAIN createdAt : createdAt[v] \in Int
    BY DEF TypeOK
<1>3. \A i \in 1..(k - 1) : i \in 1..total /\ i < k
    BY <1>0
<1> HIDE DEF total
<1>4. ASSUME NEW i \in 1..(k - 1)
      PROVE  order[i] \in Older(createdAt, u)
    <2>1. i \in 1..total /\ i < k /\ order[i] \in DOMAIN createdAt
        BY <1>1, <1>3
    <2>2. createdAt[order[i]] <= createdAt[u]
        BY <2>1, <1>1, <1>0
    <2>3. order[i] # u
        BY <2>1, <1>1, <1>0
    <2>4. createdAt[order[i]] # createdAt[u]
        BY <2>1, <2>3 DEF Alone
    <2> QED
        BY <2>1, <2>2, <2>4, <1>2 DEF Older
<1>5. ASSUME NEW v \in Older(createdAt, u)
      PROVE  \E i \in 1..(k - 1) : order[i] = v
    <2>1. v \in DOMAIN createdAt /\ createdAt[v] < createdAt[u]
        BY <1>5 DEF Older
    <2>2. PICK i \in 1..total : order[i] = v
        BY <2>1, <1>1
    <2>3. ~(k <= i)
        <3>1. k < i => createdAt[u] <= createdAt[v]
            BY <2>2, <1>0, <1>1
        <3>2. k = i => v = u
            BY <2>2
        <3> QED
            BY <3>1, <3>2, <2>1, <2>2, <1>0, <1>2
    <2> QED
        BY <2>2, <2>3, <1>0
<1>6. head \in Bijection(1..(k - 1), Older(createdAt, u))
    <2>1. head \in [1..(k - 1) -> Older(createdAt, u)]
        BY <1>4
    <2>2. \A i, j \in 1..(k - 1) : head[i] = head[j] => i = j
        BY <1>1, <1>3
    <2>3. \A v \in Older(createdAt, u) : \E i \in 1..(k - 1) : head[i] = v
        BY <1>5
    <2> HIDE DEF head
    <2> QED
        BY <2>1, <2>2, <2>3 DEF Bijection, Injection, Surjection, IsInjective
<1>7. ExistsBijection(1..(k - 1), Older(createdAt, u))
    BY <1>6 DEF ExistsBijection
<1>8. IsFiniteSet(1..(k - 1)) /\ Cardinality(1..(k - 1)) = k - 1
    <2>1. 1 \in Int /\ k - 1 \in Int /\ k >= 1
        BY <1>0
    <2>2. Cardinality(1..(k - 1)) = IF 1 > k - 1 THEN 0 ELSE (k - 1) - 1 + 1
        BY <2>1, FS_Interval
    <2> QED
        BY <2>1, <2>2, FS_Interval
<1> QED
    BY <1>7, <1>8, FS_Bijection DEF Rank

\* A page sends a user who is alone in his tick exactly when his rank lies within
\* its slice.
LEMMA SentByRank ==
    ASSUME TypeOK, NEW order \in Orders, NEW u \in DOMAIN createdAt, Alone(u),
           NEW page \in 1..MaxInt, NEW perPage \in 1..MaxInt
    PROVE  LET a == Listing(page, perPage, order)
           IN  u \in a.users <=> a.first <= Rank(createdAt, u) /\ Rank(createdAt, u) < a.end
<1> DEFINE a == Listing(page, perPage, order)
           total == Cardinality(DOMAIN createdAt)
<1>1. a.users = {order[i] : i \in a.first + 1 .. a.end} /\ a.total = total
    BY DEF Listing
<1>2. a.first \in Int /\ a.end \in Int /\ 0 <= a.first /\ a.end <= total /\ total \in Nat
    <2>1. Sound(a)
        BY ListingSound
    <2>2. total \in Nat
        BY TotalRange, UserAssumption, FS_CardinalityType
    <2> HIDE DEF a, total
    <2> QED
        BY <1>1, <2>1, <2>2 DEF Sound, AnswerRecord
<1>3. \A v \in DOMAIN createdAt : \E i \in 1..total : order[i] = v
    BY DEF Orders, Bijection, Surjection
<1>4. \A k \in 1..total : order[k] = u => Rank(createdAt, u) = k - 1
    BY PlaceIsRank
<1> HIDE DEF a, total
<1>5. PICK k \in 1..total : order[k] = u
    BY <1>3
<1>6. Rank(createdAt, u) = k - 1
    BY <1>4, <1>5
<1>7. ASSUME u \in a.users
      PROVE  a.first <= k - 1 /\ k - 1 < a.end
    <2>1. PICK i \in a.first + 1 .. a.end : order[i] = u
        BY <1>7, <1>1
    <2>2. i \in 1..total
        BY <2>1, <1>2
    <2>3. i - 1 = k - 1
        BY <2>1, <2>2, <1>4, <1>6
    <2> QED
        BY <2>1, <2>3, <1>2
<1>8. ASSUME a.first <= k - 1, k - 1 < a.end
      PROVE  u \in a.users
    <2>1. k \in a.first + 1 .. a.end
        BY <1>8, <1>2
    <2> QED
        BY <2>1, <1>1, <1>5
<1>9. u \in a.users <=> a.first <= Rank(createdAt, u) /\ Rank(createdAt, u) < a.end
    BY <1>6, <1>7, <1>8
<1> QED
    BY <1>9 DEF a

\* A new user comes last: he is older than nobody, and the others keep their
\* ranks and are alone only if they were before.
LEMMA NewcomerLast ==
    ASSUME TypeOK, NEW w, w \notin DOMAIN createdAt,
           createdAt' = Put(createdAt, w, now), NEW u \in DOMAIN createdAt
    PROVE  /\ Alone(u)' => Alone(u)
           /\ Rank(createdAt', u) = Rank(createdAt, u)
<1>1. /\ DOMAIN createdAt' = DOMAIN createdAt \cup {w} /\ createdAt'[w] = now
      /\ \A v \in DOMAIN createdAt : createdAt'[v] = createdAt[v]
    BY DEF Put
<1>2. createdAt[u] \in 0..now /\ now \in Int
    BY DEF TypeOK
<1>3. Alone(u)' => Alone(u)
    BY <1>1 DEF Alone
<1>4. Older(createdAt', u) = Older(createdAt, u)
    BY <1>1, <1>2 DEF Older
<1> QED
    BY <1>3, <1>4 DEF Rank

-----------------------------------------------------------------------------
(***************************************************************************)
(* The inductive invariant of the walk.                                    *)
(***************************************************************************)

\* While nobody was deleted everybody from the start is there, the page to ask
\* for next is one of the pages, and the pages so far have sent those with the
\* lowest ranks, each once.
WalkInv ==
    walk.quiet =>
        /\ walk.start \subseteq DOMAIN createdAt
        /\ walk.page > 1 => (walk.page - 1) * walk.perPage < Cardinality(DOMAIN createdAt)
        /\ \A u \in walk.start : Alone(u) =>
               /\ u \notin walk.twice
               /\ u \in walk.sent <=> \/ walk.page = 0
                                      \/ Rank(createdAt, u) < (walk.page - 1) * walk.perPage

\* At the start there is no walk ...
LEMMA WalkInit == Init => WalkInv
    BY DEF Init, WalkInv, NoWalk

\* ... a deletion ends the promise, unless there is no walk to disturb ...
LEMMA WalkDisturbed ==
    ASSUME walk \in WalkRecord, walk' = Disturbed
    PROVE  WalkInv'
<1>1. CASE walk = NoWalk
    BY <1>1 DEF WalkInv, Disturbed, NoWalk
<1>2. CASE walk # NoWalk
    <2>1. walk'.quiet = FALSE
        BY <1>2 DEF Disturbed, WalkRecord
    <2> QED
        BY <2>1 DEF WalkInv
<1> QED
    BY <1>1, <1>2

\* ... a new user takes nobody's place ...
LEMMA WalkNewUser ==
    ASSUME Inv, WalkInv, NEW w \in User, NewUser(w)
    PROVE  WalkInv'
<1>0. /\ TypeOK /\ walk \in WalkRecord /\ w \notin DOMAIN createdAt
      /\ createdAt' = Put(createdAt, w, now) /\ walk' = walk
    BY TypeParts DEF Inv, NewUser, TypeOK
<1>1. DOMAIN createdAt' = DOMAIN createdAt \cup {w}
    BY <1>0 DEF Put
<1>2. IsFiniteSet(DOMAIN createdAt)
    BY <1>0, UserAssumption, FS_Subset DEF TypeOK
<1>3. Cardinality(DOMAIN createdAt) \in Nat
      /\ Cardinality(DOMAIN createdAt') = Cardinality(DOMAIN createdAt) + 1
    BY <1>0, <1>1, <1>2, FS_AddElement, FS_CardinalityType
<1>4. walk.page \in Int /\ walk.perPage \in Int
    BY <1>0 DEF WalkRecord
<1> SUFFICES ASSUME walk.quiet
             PROVE  WalkInv'
    BY <1>0 DEF WalkInv
<1>5. walk.start \subseteq DOMAIN createdAt'
    BY <1>1 DEF WalkInv
<1>6. walk.page > 1 => (walk.page - 1) * walk.perPage < Cardinality(DOMAIN createdAt')
    <2>1. (walk.page - 1) * walk.perPage \in Int
        BY <1>4
    <2> QED
        BY <2>1, <1>3 DEF WalkInv
<1>7. ASSUME NEW u \in walk.start, Alone(u)'
      PROVE  /\ u \notin walk.twice
             /\ u \in walk.sent <=> \/ walk.page = 0
                                    \/ Rank(createdAt', u) < (walk.page - 1) * walk.perPage
    <2>1. u \in DOMAIN createdAt
        BY DEF WalkInv
    <2>2. Alone(u) /\ Rank(createdAt', u) = Rank(createdAt, u)
        BY <2>1, <1>0, <1>7, NewcomerLast
    <2> QED
        BY <2>2 DEF WalkInv
<1> QED
    BY <1>0, <1>5, <1>6, <1>7 DEF WalkInv

\* ... a walk that starts has sent nobody ...
LEMMA WalkStarts ==
    ASSUME Inv, NEW perPage \in Query, StartWalk(perPage)
    PROVE  WalkInv'
<1>1. /\ createdAt' = createdAt /\ TypeOK
      /\ walk'.page = 1 /\ walk'.perPage = PerPageOf(perPage) /\ walk'.sent = {}
      /\ walk'.twice = {} /\ walk'.start = DOMAIN createdAt
    BY DEF StartWalk, NoWalk, Inv
<1>2. (1 - 1) * PerPageOf(perPage) = 0
    BY QueryRange, HalfAssumption DEF MaxInt
<1>3. \A u : ~(Rank(createdAt, u) < 0)
    BY <1>1, RankType
<1> QED
    BY <1>1, <1>2, <1>3 DEF WalkInv

\* ... and a page sends those whose rank is due, and leads to the next as long as
\* somebody is left.
LEMMA WalkGoesOn ==
    ASSUME Inv, WalkInv, WalkOn
    PROVE  WalkInv'
<1> DEFINE total == Cardinality(DOMAIN createdAt)
           page == walk.page
           perPage == walk.perPage
<1>0. TypeOK /\ walk \in WalkRecord /\ MaxInt \in Int /\ walk.page > 0
    BY TypeParts, HalfAssumption DEF Inv, MaxInt, WalkOn
<1>1. page \in 1..MaxInt /\ perPage \in 1..MaxInt
    BY <1>0 DEF WalkRecord
<1>2. PICK order \in Orders : answer' = Listing(page, perPage, order)
    BY DEF WalkOn
<1> DEFINE a == Listing(page, perPage, order)
<1>3. Sound(a) /\ a.page = page /\ a.perPage = perPage /\ a.total = total
    BY <1>0, <1>1, ListingSound DEF Listing
<1>4. /\ walk'.page = a.next /\ walk'.perPage = perPage /\ walk'.start = walk.start
      /\ walk'.quiet = walk.quiet /\ walk'.sent = walk.sent \cup a.users
      /\ walk'.twice = walk.twice \cup (walk.sent \cap a.users) /\ createdAt' = createdAt
    BY <1>0, <1>2 DEF WalkOn, WalkRecord
<1>5. total \in Nat
    BY <1>0, TotalRange
<1>6. ASSUME NEW u \in DOMAIN createdAt, Alone(u)
      PROVE  /\ Rank(createdAt, u) \in Nat /\ Rank(createdAt, u) < total
             /\ u \in a.users <=> a.first <= Rank(createdAt, u) /\ Rank(createdAt, u) < a.end
    <2>1. PICK k \in 1..total : order[k] = u
        BY DEF Orders, Bijection, Surjection
    <2>2. Rank(createdAt, u) = k - 1
        BY <2>1, <1>0, <1>6, PlaceIsRank
    <2>3. u \in a.users <=> a.first <= Rank(createdAt, u) /\ Rank(createdAt, u) < a.end
        BY <1>0, <1>1, <1>6, SentByRank
    <2> QED
        BY <2>1, <2>2, <2>3, <1>5
<1> SUFFICES ASSUME walk.quiet
             PROVE  WalkInv'
    BY <1>4 DEF WalkInv
<1>7. /\ walk.start \subseteq DOMAIN createdAt
      /\ page > 1 => (page - 1) * perPage < total
      /\ \A u \in walk.start : Alone(u) =>
             /\ u \notin walk.twice
             /\ u \in walk.sent <=> Rank(createdAt, u) < (page - 1) * perPage
    BY <1>0 DEF WalkInv
<1>8. /\ a.first \in Int /\ a.end \in Int /\ a.last \in 1..MaxInt
      /\ IsLastPage(a.last, perPage, total)
      /\ a.next = IF page < a.last THEN page + 1 ELSE 0
      /\ page <= a.last => /\ a.first = AtMost((page - 1) * perPage, total)
                           /\ a.end = AtMost((page - 1) * perPage + perPage, total)
    BY <1>3 DEF Sound, AnswerRecord
<1> HIDE DEF a, total, page, perPage
<1>9. PICK last \in 1..MaxInt : last = a.last
    BY <1>8
<1> DEFINE before == (page - 1) * perPage
<1>10. before \in Nat /\ page * perPage = before + perPage /\ page \in Nat /\ perPage \in Nat
       /\ last \in Nat
    BY <1>0, <1>1, <1>9
<1>11. page <= last
    <2>1. CASE page = 1
        BY <2>1, <1>0, <1>9
    <2>2. CASE page > 1
        <3>1. before < last * perPage
            <4>1. last * perPage >= total /\ last * perPage \in Int
                BY <1>8, <1>9, <1>10 DEF IsLastPage
            <4> QED
                BY <4>1, <2>2, <1>5, <1>7, <1>10
        <3>2. SUFFICES ASSUME last <= page - 1
                       PROVE  last * perPage <= before
            BY <3>1, <1>10
        <3> QED
            BY <3>2, <1>10
    <2> QED
        BY <2>1, <2>2, <1>1, <1>0
<1>12. a.first = AtMost(before, total) /\ a.end = AtMost(before + perPage, total)
    BY <1>8, <1>9, <1>11
<1>13. CASE page < last
    <2>1. walk'.page = page + 1 /\ walk'.page - 1 = page
        BY <1>13, <1>4, <1>8, <1>9, <1>10
    <2>2. page * perPage < total
        <3>1. (last - 1) * perPage < total /\ (last - 1) * perPage \in Int
            BY <1>13, <1>8, <1>9, <1>10, <1>1, <1>0 DEF IsLastPage
        <3>2. page * perPage <= (last - 1) * perPage
            <4>1. page \in Nat /\ last - 1 \in Nat /\ page <= last - 1
                BY <1>13, <1>10
            <4> QED
                BY <4>1, <1>10
        <3> QED
            BY <3>1, <3>2, <1>5, <1>10
    <2>3. a.first = before /\ a.end = before + perPage
        BY <2>2, <1>12, <1>10, <1>5 DEF AtMost
    <2>4. ASSUME NEW u \in walk.start, Alone(u)
          PROVE  /\ u \notin walk'.twice
                 /\ u \in walk'.sent <=> Rank(createdAt, u) < page * perPage
        <3>1. /\ Rank(createdAt, u) \in Nat
              /\ u \in a.users <=> before <= Rank(createdAt, u) /\ Rank(createdAt, u) < before + perPage
            BY <2>3, <2>4, <1>6, <1>7
        <3>2. u \notin walk.twice /\ (u \in walk.sent <=> Rank(createdAt, u) < before)
            BY <2>4, <1>7
        <3> QED
            BY <3>1, <3>2, <1>4, <1>10
    <2>5. ~(walk'.page = 0) /\ walk'.perPage = perPage
        BY <2>1, <1>4, <1>10
    <2> QED
        BY <2>1, <2>2, <2>4, <2>5, <1>4, <1>7 DEF WalkInv, Alone, total
<1>14. CASE page = last
    <2>1. walk'.page = 0
        BY <1>14, <1>4, <1>8, <1>9, <1>10
    <2>2. a.end = total
        <3>1. before + perPage >= total
            BY <1>14, <1>8, <1>9, <1>10 DEF IsLastPage
        <3> QED
            BY <3>1, <1>12, <1>10, <1>5 DEF AtMost
    <2>3. ASSUME NEW u \in walk.start, Alone(u)
          PROVE  u \notin walk'.twice /\ u \in walk'.sent
        <3>1. /\ Rank(createdAt, u) \in Nat /\ Rank(createdAt, u) < total
              /\ u \in a.users <=> a.first <= Rank(createdAt, u)
            BY <2>2, <2>3, <1>6, <1>7
        <3>2. u \notin walk.twice /\ (u \in walk.sent <=> Rank(createdAt, u) < before)
            BY <2>3, <1>7
        <3>3. a.first <= Rank(createdAt, u) <=> before <= Rank(createdAt, u)
            BY <3>1, <1>12, <1>10, <1>5 DEF AtMost
        <3> QED
            BY <3>1, <3>2, <3>3, <1>4, <1>10
    <2> QED
        BY <2>1, <2>3, <1>4, <1>7 DEF WalkInv, Alone
<1> QED
    BY <1>11, <1>13, <1>14, <1>10

\* ... so that it holds after every step.
LEMMA WalkStep == Inv /\ WalkInv /\ [Next]_vars => WalkInv'
<1> SUFFICES ASSUME Inv, WalkInv, [Next]_vars
             PROVE  WalkInv'
    OBVIOUS
<1>0. walk \in WalkRecord
    BY TypeParts DEF Inv
<1>1. ASSUME UNCHANGED <<createdAt, walk>>
      PROVE  WalkInv'
    BY <1>1 DEF WalkInv, Alone
<1>2. CASE Tick
    BY <1>1, <1>2 DEF Tick
<1>3. ASSUME NEW u \in User, NewUser(u)
      PROVE  WalkInv'
    BY <1>3, WalkNewUser
<1>4. ASSUME NEW u \in User, DeleteUser(u)
      PROVE  WalkInv'
    BY <1>0, <1>4, WalkDisturbed DEF DeleteUser
<1>5. CASE Reset
    BY <1>0, <1>5, WalkDisturbed DEF Reset
<1>6. ASSUME NEW perPage \in Query, StartWalk(perPage)
      PROVE  WalkInv'
    BY <1>6, WalkStarts
<1>7. ASSUME NEW perPage \in Query, NEW page \in Query, AdminListUsers(page, perPage)
      PROVE  WalkInv'
    BY <1>1, <1>7 DEF AdminListUsers
<1>8. CASE WalkOn
    BY <1>8, WalkGoesOn
<1>9. CASE UNCHANGED vars
    BY <1>1, <1>9 DEF vars
<1> QED
    BY <1>2, <1>3, <1>4, <1>5, <1>6, <1>7, <1>8, <1>9 DEF Next

\* A walk along the next links that no deletion disturbs sends everybody who was
\* there from the start, and shares his tick with nobody, exactly once.
THEOREM WalkCorrect == Spec => []WalkExact
<1>1. WalkInv => WalkExact
    BY DEF WalkInv, WalkExact
<1>2. Init => Inv /\ WalkInv
    BY InvInit, WalkInit
<1>3. (Inv /\ WalkInv) /\ [Next]_vars => (Inv /\ WalkInv)'
    BY InvStep, WalkStep
<1> QED
    BY <1>1, <1>2, <1>3, PTL DEF Spec

=============================================================================
