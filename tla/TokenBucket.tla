---------------------------- MODULE TokenBucket -----------------------------
(***************************************************************************)
(* The rate limiter of relayed traffic, common/token_bucket.rs: tokens in  *)
(* one atomic counter, taken by any number of threads and put back by one  *)
(* background task, both with compare-and-exchange loops.                  *)
(*                                                                         *)
(* Time is measured in units of which Second make a second.  The rounding  *)
(* of the double precision product in refill() is not modelled.            *)
(***************************************************************************)
EXTENDS Integers

CONSTANTS Capacity, FillRate,   \* BucketConfig: tokens, tokens per second
          Second,               \* units of time in a second
          Consumer,             \* threads that call try_consume
          Request,              \* numbers of tokens asked for
          MaxElapsed            \* bound on time, for TLC

ASSUME BucketAssumption == /\ Capacity \in Nat /\ FillRate \in Nat /\ Second \in Nat \ {0}
                           /\ Request \subseteq Nat
                           /\ MaxElapsed \in Nat

VARIABLES elapsed,            \* time since the bucket was made
          available_tokens,
          last_refill_time,
          refiller,           \* locals of refill()
          consumer,           \* [Consumer -> locals of try_consume]
          consumed            \* history: tokens granted so far

bucketVars == <<elapsed, available_tokens, last_refill_time, refiller, consumer, consumed>>

Lesser(a, b) == IF a < b THEN a ELSE b

(* looping: before the next attempt; amount: tokens_to_add or tokens.      *)
Loop == [looping : BOOLEAN, amount : Nat, current : 0 .. Capacity]
NoLoop == [looping |-> FALSE, amount |-> 0, current |-> 0]

BucketTypeOK ==
    /\ elapsed \in Nat /\ last_refill_time \in 0 .. elapsed
    /\ available_tokens \in 0 .. Capacity
    /\ refiller \in Loop
    /\ consumer \in [Consumer -> Loop]
    /\ consumed \in Nat

BucketInit ==
    /\ elapsed = 0 /\ last_refill_time = 0
    /\ available_tokens = Capacity
    /\ refiller = NoLoop
    /\ consumer = [c \in Consumer |-> NoLoop]
    /\ consumed = 0

Elapse ==
    /\ elapsed < MaxElapsed
    /\ elapsed' = elapsed + 1
    /\ UNCHANGED <<available_tokens, last_refill_time, refiller, consumer, consumed>>

(* refill() up to its loop.  The time is swapped also if it is too short   *)
(* for a token.                                                            *)
Refill ==
    LET tokens_to_add == (FillRate * (elapsed - last_refill_time)) \div Second
    IN  /\ ~refiller.looping
        /\ last_refill_time' = elapsed
        /\ refiller' = IF tokens_to_add = 0 THEN NoLoop
                       ELSE [looping |-> TRUE, amount |-> tokens_to_add, current |-> available_tokens]
        /\ UNCHANGED <<elapsed, available_tokens, consumer, consumed>>

Refilled(current, tokens_to_add) == Lesser(current + tokens_to_add, Capacity)

(* compare_exchange_weak succeeds, or fails, perhaps for no reason.        *)
RefillAttempt ==
    /\ refiller.looping
    /\ \/ /\ available_tokens = refiller.current
          /\ available_tokens' = Refilled(refiller.current, refiller.amount)
          /\ refiller' = NoLoop
       \/ /\ refiller' = [refiller EXCEPT !.current = available_tokens]
          /\ UNCHANGED available_tokens
    /\ UNCHANGED <<elapsed, last_refill_time, consumer, consumed>>

TryConsume(c, tokens) ==
    /\ ~consumer[c].looping
    /\ tokens <= Capacity
    /\ consumer' = [consumer EXCEPT ![c] = [looping |-> TRUE, amount |-> tokens,
                                            current |-> available_tokens]]
    /\ UNCHANGED <<elapsed, available_tokens, last_refill_time, refiller, consumed>>

(* Mutant: the counter is stored, whatever it has become since the load.   *)
ConsumeStored(c) ==
    /\ consumer[c].looping
    /\ consumer[c].current >= consumer[c].amount
    /\ available_tokens' = consumer[c].current - consumer[c].amount
    /\ consumed' = consumed + consumer[c].amount
    /\ consumer' = [consumer EXCEPT ![c] = NoLoop]
    /\ UNCHANGED <<elapsed, last_refill_time, refiller>>

ConsumeAttempt(c) ==
    /\ consumer[c].looping
    /\ \/ /\ consumer[c].current < consumer[c].amount
          /\ consumer' = [consumer EXCEPT ![c] = NoLoop]
          /\ UNCHANGED <<available_tokens, consumed>>
       \/ /\ consumer[c].current >= consumer[c].amount
          /\ available_tokens = consumer[c].current
          /\ available_tokens' = consumer[c].current - consumer[c].amount
          /\ consumed' = consumed + consumer[c].amount
          /\ consumer' = [consumer EXCEPT ![c] = NoLoop]
       \/ /\ consumer[c].current >= consumer[c].amount
          /\ consumer' = [consumer EXCEPT ![c].current = available_tokens]
          /\ UNCHANGED <<available_tokens, consumed>>
    /\ UNCHANGED <<elapsed, last_refill_time, refiller>>

BucketNext ==
    \/ Elapse \/ Refill \/ RefillAttempt
    \/ \E c \in Consumer : ConsumeAttempt(c) \/ \E tokens \in Request : TryConsume(c, tokens)

BucketSpec == BucketInit /\ [][BucketNext]_bucketVars

-----------------------------------------------------------------------------
(* However the threads interleave, what try_consume has granted is at most *)
(* the initial burst and what the rate allows for the time passed.         *)
RateBounded == Second * (consumed - Capacity) <= FillRate * elapsed

(* The inductive form: tokens still to be put into the counter count, and  *)
(* only time up to the last refill.                                        *)
RateInv == Second * (consumed + available_tokens + refiller.amount - Capacity)
               <= FillRate * last_refill_time
=============================================================================
