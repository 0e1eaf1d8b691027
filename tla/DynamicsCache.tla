--------------------------- MODULE DynamicsCache ---------------------------
(***************************************************************************)
(* systems/trajectory_optimization/dircon/dynamics_cache.cc: the dynamics  *)
(* computed last, looked up by state, input and force.  A key with a NaN   *)
(* is not equal to itself: it is never found and never erased.             *)
(***************************************************************************)
EXTENDS Integers, Sequences, FiniteSets

CONSTANTS
    Keys,       \* keys equal to themselves
    NaNKeys,    \* keys with a NaN somewhere
    max_size_,
    MaxLost     \* bound: entries that cannot be found any more

\* dircon.cc:147: 1.1 times the number of the decision variables, of which
\* there is at least a state of two numbers
ASSUME CacheAssumption ==
    /\ IsFiniteSet(Keys)
    /\ Keys \cap NaNKeys = {}
    /\ max_size_ \in Nat /\ max_size_ >= 2
    /\ MaxLost \in Nat

VARIABLES
    map_,       \* the keys in the map that can be found
    lost,       \* how many entries with a NaN the map has as well
    queue_,
    age         \* ghost: how many keys were computed since, up to max_size_

cache_vars == <<map_, lost, queue_, age>>

CacheInit ==
    /\ map_ = {}
    /\ lost = 0
    /\ queue_ = <<>>
    /\ age = [k \in Keys |-> max_size_]

Size == Cardinality(map_) + lost

\* Mutant: one entry more.
AtLimit_Over(size) == size > max_size_

AtLimit(size) == size >= max_size_

\* Mutant: the newest is removed.
Evicted_Newest == queue_[Len(queue_)]

Evicted == Head(queue_)

\* The derivatives are computed and entered; then the oldest is erased, and
\* only then the key enters the queue.
Compute(key) ==
    LET found == IF key \in Keys THEN map_ \cup {key} ELSE map_
        gone  == IF key \in Keys THEN lost ELSE lost + 1
    IN  /\ lost' = gone
        /\ IF AtLimit(Cardinality(found) + gone)
           THEN /\ map_' = found \ {Evicted}
                /\ queue_' = Append(Tail(queue_), key)
           ELSE /\ map_' = found
                /\ queue_' = Append(queue_, key)
        /\ age' = [k \in Keys |-> IF k = key THEN 0
                                  ELSE IF age[k] < max_size_ THEN age[k] + 1 ELSE max_size_]

\* CalcTimeDerivativesWithForce
Hit(key) == key \in map_ /\ UNCHANGED cache_vars

Miss(key) == key \notin map_ /\ Compute(key)

CacheNext ==
    \/ \E key \in Keys : Hit(key) \/ Miss(key)
    \/ \E key \in NaNKeys : lost < MaxLost /\ Miss(key)

CacheSpec == CacheInit /\ [][CacheNext]_cache_vars

------------------------------------------------------------------------------
(* Properties. *)

CacheTypeOK ==
    /\ map_ \subseteq Keys
    /\ lost \in 0 .. MaxLost
    /\ queue_ \in Seq(Keys \cup NaNKeys)
    /\ age \in [Keys -> 0 .. max_size_]

\* The map and the queue name the same keys, none twice, and are smaller than
\* max_size_ but for entries with a NaN; so the oldest can always be erased.
QueueIsMap ==
    /\ map_ = {k \in Keys : \E i \in DOMAIN queue_ : queue_[i] = k}
    /\ \A i, j \in DOMAIN queue_ : queue_[i] = queue_[j] /\ queue_[i] \in Keys => i = j
    /\ Len(queue_) < max_size_
    /\ lost = 0 => Size < max_size_

\* What is asked for again is computed again if and only if max_size_ - 1 others
\* were computed in between, whatever NaN came along.
RemembersLatest == \A k \in Keys : k \in map_ <=> age[k] < max_size_ - 1
=============================================================================
