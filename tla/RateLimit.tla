----------------------------- MODULE RateLimit ------------------------------
(* The token buckets of the request limit (rate-limit.js): refilled only    *)
(* when they are used, pruned when they would be full, evicted when there   *)
(* are too many, and re-rated when the limit is changed on the dashboard.   *)
(* A token is Minute units, so that a limit of c requests a minute fills a  *)
(* bucket by c units per tick.                                              *)
EXTENDS Naturals, FiniteSets

CONSTANTS
  Caller,      \* keys: a credential, or an address
  Limits,      \* values of rateLimit.requestsPerMinute; 0 turns it off
  Minute,      \* ticks of a minute
  MaxBuckets   \* MAX_BUCKETS

ASSUME RateAssumption == /\ Limits \subseteq Nat /\ \E c \in Limits : c > 0
                         /\ \E c \in Limits : \A d \in Limits : c >= d
                         /\ Minute \in Nat \ {0} /\ MaxBuckets \in Nat \ {0}

VARIABLES
  limit,    \* config.rateLimit.requestsPerMinute
  buckets,  \* of every caller, also of those that are not kept
  kept,     \* callers whose bucket is in the table
  older,    \* order of the table: <<k, j>> if k was used less recently than j
  credit,   \* history: a bucket for everyone, filled at every tick
  unsure    \* history: evicted, or re-rated since the bucket was used

rateVars == <<limit, buckets, kept, older, credit, unsure>>

Capacity == (IF limit = 0 THEN 1 ELSE limit) * Minute
Fullest  == Minute * CHOOSE c \in Limits : \A d \in Limits : c >= d

RateTypeOK ==
  /\ limit \in Limits
  /\ buckets \in [Caller -> [tokens : 0..Fullest, waited : 0..Minute]]  \* since `at`
  /\ kept \subseteq Caller /\ IsFiniteSet(kept) /\ Cardinality(kept) <= MaxBuckets
  /\ older \subseteq kept \X kept
  /\ credit \in [Caller -> 0..Fullest]
  /\ unsure \subseteq Caller

\* Mutant of Capped: a bucket may overflow.
Uncapped(n) == n

Capped(n) == IF n < Capacity THEN n ELSE Capacity

\* The order, of the buckets in S alone.
OlderIn(S) == older \cap (S \X S)

\* The first key of the table.
LeastRecent == {k \in kept : \A j \in kept : <<j, k>> \notin older}

\* take: what is in the bucket of k by now; a new one is full.
Filled(k) ==
  IF k \in kept THEN Capped(buckets[k].tokens + buckets[k].waited * (Capacity \div Minute))
  ELSE Capacity

\* A request.  The oldest bucket makes room for a new one.
Take(k) ==
  LET granted == Filled(k) >= Minute
      left    == IF granted THEN Filled(k) - Minute ELSE Filled(k)
      evicted == IF k \notin kept /\ Cardinality(kept) >= MaxBuckets THEN LeastRecent ELSE {}
      others  == kept \ (evicted \cup {k})
  IN /\ limit # 0
     /\ buckets' = [buckets EXCEPT ![k] = [tokens |-> left, waited |-> 0]]
     /\ kept' = others \cup {k}
     /\ older' = OlderIn(others) \cup (others \X {k})
     /\ credit' = [credit EXCEPT ![k] = IF k \in unsure THEN left
                                        ELSE IF granted THEN @ - Minute ELSE @]
     /\ unsure' = (unsure \ {k}) \cup evicted
     /\ UNCHANGED limit

\* Mutant of Full: whoever may send a request is pruned.
FullEnough(k) == buckets[k].tokens + buckets[k].waited * (Capacity \div Minute) >= Minute

\* "A bucket that has refilled completely is the same as no bucket."
Full(k) == buckets[k].tokens + buckets[k].waited * (Capacity \div Minute) >= Capacity

PruneBuckets ==
  /\ kept' = {k \in kept : ~Full(k)}
  /\ older' = OlderIn(kept')
  /\ UNCHANGED <<limit, buckets, credit, unsure>>

\* The limit is changed: the time since a bucket's last use counts by the
\* new one.
ChangeLimit(c) ==
  /\ limit' = c
  /\ unsure' = Caller
  /\ UNCHANGED <<buckets, kept, older, credit>>

RateTick ==
  /\ buckets' = [k \in Caller |-> [buckets[k] EXCEPT !.waited = IF @ = Minute THEN @ ELSE @ + 1]]
  /\ credit' = [k \in Caller |-> Capped(credit[k] + Capacity \div Minute)]
  /\ UNCHANGED <<limit, kept, older, unsure>>

RateInit ==
  /\ limit \in Limits \ {0}
  /\ buckets = [k \in Caller |-> [tokens |-> 0, waited |-> 0]]
  /\ kept = {} /\ older = {}
  /\ credit = [k \in Caller |-> Capacity]
  /\ unsure = {}

RateNext ==
  \/ \E k \in Caller : Take(k)
  \/ PruneBuckets \/ RateTick
  \/ \E c \in Limits : ChangeLimit(c)

RateSpec == RateInit /\ [][RateNext]_rateVars

-----------------------------------------------------------------------------

\* Filling a bucket only when it is used, and forgetting it when it is full,
\* grants exactly what a bucket kept for ever and filled all the time would.
LazyIsExact == \A k \in Caller \ unsure : Filled(k) = credit[k]
=============================================================================
