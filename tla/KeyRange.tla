------------------------------ MODULE KeyRange ------------------------------
(***************************************************************************)
(* Ranges of keys of one column (src/lib/index/key_range.js).  Keys are    *)
(* integers; what is said of a range is said of all integers, so that      *)
(* integers between the bounds in use stand for the keys between them.     *)
(***************************************************************************)
EXTENDS Integers, Sequences

CONSTANT Unbound    \* lf.index.SingleKeyRange.UNBOUND_VALUE

ASSUME UnboundAssumption == Unbound \notin Int

\* lf.index.Favor
RHS == -1
TIE == 0
LHS == 1

Favor == {RHS, TIE, LHS}

Bound == Int \cup {Unbound}

\* A bound that is not there is not excluded.
SingleKeyRange ==
    {r \in [from : Bound, to : Bound, excludeLower : BOOLEAN, excludeUpper : BOOLEAN] :
        /\ r.from = Unbound => ~r.excludeLower
        /\ r.to = Unbound => ~r.excludeUpper}

MakeRange(from, to, excludeLower, excludeUpper) ==
    [from |-> from, to |-> to,
     excludeLower |-> from # Unbound /\ excludeLower,
     excludeUpper |-> to # Unbound /\ excludeUpper]

UpperBound(key, exclude) == MakeRange(Unbound, key, FALSE, exclude)
LowerBound(key, exclude) == MakeRange(key, Unbound, exclude, FALSE)
Only(key) == MakeRange(key, key, FALSE, FALSE)
All == MakeRange(Unbound, Unbound, FALSE, FALSE)

IsAll(r) == r.from = Unbound /\ r.to = Unbound

IsOnly(r) == r.from = r.to /\ r.from # Unbound /\ ~r.excludeLower /\ ~r.excludeUpper

ContainsKey(r, key) ==
    /\ r.from = Unbound \/ key > r.from \/ (key = r.from /\ ~r.excludeLower)
    /\ r.to = Unbound \/ key < r.to \/ (key = r.to /\ ~r.excludeUpper)

ReverseRange(r) == MakeRange(r.to, r.from, r.excludeUpper, r.excludeLower)

ComplementLow(r)  == UpperBound(r.from, ~r.excludeLower)
ComplementHigh(r) == LowerBound(r.to, ~r.excludeUpper)

\* complement: at most two ranges.
Complement(r) ==
    (IF r.from = Unbound THEN <<>> ELSE <<ComplementLow(r)>>) \o
    (IF r.to = Unbound THEN <<>> ELSE <<ComplementHigh(r)>>)

-----------------------------------------------------------------------------
(* The order of bounds.                                                    *)

Flip(favor, isLeft) == IF isLeft THEN favor ELSE IF favor = LHS THEN RHS ELSE LHS

TieOf(isLeft, excludeL, excludeR) ==
    IF excludeL = excludeR THEN TIE
    ELSE Flip(IF excludeL THEN LHS ELSE RHS, isLeft)

\* compareKey_: of lower bounds none is left-most and an excluded one is to
\* the right of an included one; of upper bounds the other way round.
CompareKey(l, r, isLeft, excludeL, excludeR) ==
    IF l = Unbound THEN IF r = Unbound THEN TieOf(isLeft, excludeL, excludeR)
                        ELSE Flip(RHS, isLeft)
    ELSE IF r = Unbound THEN Flip(LHS, isLeft)
    ELSE IF l < r THEN RHS
    ELSE IF l = r THEN TieOf(isLeft, excludeL, excludeR)
    ELSE LHS

CompareLower(r1, r2) == CompareKey(r1.from, r2.from, TRUE, r1.excludeLower, r2.excludeLower)
CompareUpper(r1, r2) == CompareKey(r1.to, r2.to, FALSE, r1.excludeUpper, r2.excludeUpper)

\* SingleKeyRange.compare, the order in which ranges are sorted.
CompareRanges(r1, r2) ==
    IF CompareLower(r1, r2) # TIE THEN CompareLower(r1, r2) ELSE CompareUpper(r1, r2)

ReachesInto_Touching(left, right) ==
    left.to = Unbound \/ left.to >= right.from

\* The left one of two ranges ends after the other one begins.
ReachesInto(left, right) ==
    \/ left.to = Unbound
    \/ left.to > right.from
    \/ left.to = right.from /\ ~left.excludeUpper /\ ~right.excludeLower

Overlaps(r1, r2) ==
    \/ CompareLower(r1, r2) = TIE
    \/ CompareLower(r1, r2) = RHS /\ ReachesInto(r1, r2)
    \/ CompareLower(r1, r2) = LHS /\ ReachesInto(r2, r1)

-----------------------------------------------------------------------------
(* Intersection and bounding range.                                        *)

\* The range whose lower bound the intersection has; when the keys of both
\* are the same, the one that excludes it.
AndLower(r1, r2) ==
    LET favor == CompareKey(r1.from, r2.from, TRUE, FALSE, FALSE)
    IN  IF favor = TIE THEN (IF r1.excludeLower THEN r1 ELSE r2)
        ELSE IF favor = RHS THEN r2 ELSE r1

AndUpper_TieFirst(r1, r2) ==
    LET favor == CompareKey(r1.to, r2.to, FALSE, FALSE, FALSE)
    IN  IF r1.to = Unbound THEN r2
        ELSE IF r2.to = Unbound \/ favor \in {TIE, RHS} THEN r1 ELSE r2

AndUpper(r1, r2) ==
    LET favor == CompareKey(r1.to, r2.to, FALSE, FALSE, FALSE)
    IN  IF r1.to = Unbound THEN r2
        ELSE IF r2.to = Unbound THEN r1
        ELSE IF favor = TIE THEN (IF r1.excludeUpper THEN r1 ELSE r2)
        ELSE IF favor = RHS THEN r1 ELSE r2

\* SingleKeyRange.and, of ranges that overlap.
And(r1, r2) ==
    [from |-> AndLower(r1, r2).from, to |-> AndUpper(r1, r2).to,
     excludeLower |-> AndLower(r1, r2).excludeLower,
     excludeUpper |-> AndUpper(r1, r2).excludeUpper]

BoundingLower(r1, r2) ==
    LET favor == CompareKey(r1.from, r2.from, TRUE, FALSE, FALSE)
    IN  IF r1.from = Unbound \/ r2.from = Unbound
        THEN [key |-> Unbound, exclude |-> FALSE]
        ELSE IF favor = LHS THEN [key |-> r2.from, exclude |-> r2.excludeLower]
        ELSE [key |-> r1.from,
              exclude |-> r1.excludeLower /\ (favor = TIE => r2.excludeLower)]

BoundingUpper(r1, r2) ==
    LET favor == CompareKey(r1.to, r2.to, FALSE, FALSE, FALSE)
    IN  IF r1.to = Unbound \/ r2.to = Unbound
        THEN [key |-> Unbound, exclude |-> FALSE]
        ELSE IF favor = RHS THEN [key |-> r2.to, exclude |-> r2.excludeUpper]
        ELSE [key |-> r1.to,
              exclude |-> r1.excludeUpper /\ (favor = TIE => r2.excludeUpper)]

\* getBoundingRange
BoundingRange(r1, r2) ==
    [from |-> BoundingLower(r1, r2).key, to |-> BoundingUpper(r1, r2).key,
     excludeLower |-> BoundingLower(r1, r2).exclude,
     excludeUpper |-> BoundingUpper(r1, r2).exclude]

\* getBounded: the part of a range between two keys, if there is any.
Bounded(r, min, max) ==
    LET low  == r.from # Unbound /\ r.from >= min
        high == r.to # Unbound /\ r.to <= max
    IN  [from |-> IF low THEN r.from ELSE min, to |-> IF high THEN r.to ELSE max,
         excludeLower |-> low /\ r.excludeLower, excludeUpper |-> high /\ r.excludeUpper]

IsBounded(r, min, max) ==
    LET b == Bounded(r, min, max)
    IN  /\ r.from = Unbound => ContainsKey(r, min)
        /\ r.to = Unbound => ContainsKey(r, max)
        /\ b.from < b.to \/ (b.from = b.to /\ ~b.excludeLower /\ ~b.excludeUpper)
=============================================================================
