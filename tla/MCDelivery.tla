----------------------------- MODULE MCDelivery -----------------------------
(***************************************************************************)
(* Delivery and its accounting on small instances: the ledger of one Free  *)
(* download, the content requests and browser grants of one download, the  *)
(* interval union on every set of intervals, and the quota, orders and     *)
(* entitlements of the clients.  A behaviour is one of Parts, chosen in    *)
(* its first state.                                                        *)
(***************************************************************************)
EXTENDS DeliveryAccounting, DeliveryAccess, Commerce

CONSTANT LastByte  \* bound: largest end of an interval put to the union

ASSUME UnionAssumption == LastByte \in Nat

VARIABLES part,       \* which of the four this behaviour is
          intervals   \* the input of normalize_intervals

allVars == <<vars, accessVars, commerceVars, part, intervals>>

MCInit ==
    /\ Init /\ AccessInit /\ CommerceInit
    /\ intervals = {}
    /\ part \in {"ledger", "access", "accounts", "union"}
    \* One initial state is enough for the parts that do not run, and one kind of
    \* download for the artifacts that do not agree with their row.  Downloads without
    \* a rate limit have no quota entry here.
    /\ part # "accounts" => cookie = NoOne
    /\ part # "access" => policy = "throttled"
    /\ policy = "throttled" <=> entry = "reserved"
    /\ artifact = [manifest |-> "agrees", media |-> "whole"]
         \/ (part = "access" /\ policy = "throttled")

Ledger(A) == part = "ledger" /\ A /\ UNCHANGED <<accessVars, commerceVars, part, intervals>>

Access(A) == part = "access" /\ A /\ UNCHANGED <<vars, commerceVars, part, intervals>>

Accounts(A) == part = "accounts" /\ A /\ UNCHANGED <<vars, accessVars, part, intervals>>

\* Attempts come in any order; one that served nothing is an empty interval.
AddInterval ==
    /\ part = "union"
    /\ \E s \in 0..LastByte : \E e \in s..LastByte :
         /\ <<s, e>> \notin intervals
         /\ intervals' = intervals \cup {<<s, e>>}
    /\ UNCHANGED <<vars, accessVars, commerceVars, part>>

MCNext == Ledger(Next) \/ Access(AccessNext) \/ Accounts(CommerceNext) \/ AddInterval

MCSpec == MCInit /\ [][MCNext]_allVars

\* No response, request, grant, download or client is treated specially.  There are two
\* of each; since one part runs at a time, those of different parts may change places
\* together, which leaves TLC four permutations to try instead of thirty-two.
Moves(p) == \E x \in DOMAIN p : p[x] # x
Together(P, Q) == {m[1] @@ m[2] : m \in {n \in P \X Q : Moves(n[1]) = Moves(n[2])}}

Interchangeable ==
    Together(Together(Permutations(Responses), Permutations(Requests)), Permutations(Downloads))
      \cup Together(Permutations(Grants), Permutations(Clients))

\* The union covers exactly the bytes of its input: nothing that was served is
\* lost, nothing that was not is counted.
UnionIsExact == BytesOf(ToSet(NormalizeIntervals(intervals))) = BytesOf(intervals)

\* The union is sorted and its intervals are non-empty and do not even touch,
\* so that complete coverage is the single interval (0, size) that
\* _consume_if_complete compares with, and its length is the number of gaps.
UnionIsMaximal ==
    LET m == NormalizeIntervals(intervals)
    IN  /\ \A i \in DOMAIN m : m[i][1] < m[i][2]
        /\ \A i \in 1..(Len(m) - 1) : m[i][2] < m[i + 1][1]

\* normalize_intervals computes the canonical form of a set of bytes.
UnionIsCanonical == UnionIsExact /\ UnionIsMaximal

\* The configured limits hold and what a client is told of them is true: types, active
\* grants, live reservations, and the time at which the next download is free.
LimitsAreKept ==
    /\ TypeOK /\ AccessTypeOK /\ CommerceTypeOK
    /\ GrantsAreBounded /\ ReservationsWithinLimit /\ ResetIsHonest

\* What was booked stays booked: recorded bytes, successes the window still counts,
\* settled orders and entitlements.
BooksAreKept == CoverageNeverShrinks /\ RetentionKeepsTheWindow /\ SettledOrdersStay
=============================================================================
