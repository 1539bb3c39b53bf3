---------------------------- MODULE RateLimiter ----------------------------
(***************************************************************************)
(* The token bucket of internal/ratelimit that all workers share: a Redis  *)
(* hash with the tokens left and the time of the last refill, updated by   *)
(* a Lua script that Redis runs atomically.                                *)
(*                                                                         *)
(* A call is two steps: the client reads its own clock, then the script    *)
(* runs with that reading.  Other calls and the clock come in between and  *)
(* the hosts' clocks differ, so the script may see time go backwards.      *)
(* Times are in seconds, the unit AllowN passes to the script.             *)
(***************************************************************************)
EXTENDS Integers

CONSTANTS
  Clients,    \* the limiter's callers, the workers
  Limit,      \* config.Limit: tokens per window
  Window,     \* config.Window in whole seconds
  Burst,      \* config.BurstSize
  Requests,   \* the n that AllowN is called with (Allow: 1)
  Skew,       \* how far a host's clock is off
  MaxDelay,   \* how long a call may take, given its client's timeouts
  MaxClock,   \* bound: the last second
  MaxResets,  \* bound: resets in a behaviour
  MinTokens,  \* bound: how far below zero the tokens are followed
  NoBucket    \* the hash when the key does not exist

ASSUME ConstantsAssumption ==
  /\ Limit \in Nat \ {0}
  /\ Window \in Nat \ {0}
  /\ Burst \in Nat \ {0}
  /\ Requests \subseteq Nat \ {0}
  /\ Skew \in Nat
  /\ MaxDelay \in Nat
  /\ MaxClock \in Nat
  /\ MaxResets \in Nat
  /\ MinTokens \in Int

Bucket == [tokens : Int, last_refill : Int]

ASSUME NoBucketAssumption == NoBucket \notin Bucket

VARIABLES
  clock,    \* Redis's clock
  bucket,   \* the hash, as long as it has not expired
  expires,  \* when the key expires
  asked,    \* client: the time it asked at, by clock, or -1 when it has no call
  stamp,    \* client: the now it passes to the script
  resets,   \* number of Resets so far
  granted,  \* history: tokens granted since the bucket was created
  born,     \* history: the stamp of the call that created the bucket
  total,    \* history: tokens ever granted
  lastGrant \* history: when tokens were last taken, or the bucket was created

clientVars == <<asked, stamp>>
vars == <<clock, bucket, expires, clientVars, resets, granted, born, total, lastGrant>>

TypeOK ==
  /\ clock \in Nat
  /\ bucket \in Bucket \cup {NoBucket}
  /\ expires \in Nat
  /\ asked \in [Clients -> Nat \cup {-1}]
  /\ stamp \in [Clients -> Int]
  /\ resets \in Nat
  /\ granted \in Nat
  /\ born \in Int
  /\ total \in Nat
  /\ lastGrant \in Nat

Init ==
  /\ clock = 0
  /\ bucket = NoBucket
  /\ expires = 0
  /\ asked = [c \in Clients |-> -1]
  /\ stamp = [c \in Clients |-> 0]
  /\ resets = 0
  /\ granted = 0
  /\ born = 0
  /\ total = 0
  /\ lastGrant = 0

-----------------------------------------------------------------------------
\* The script.

Smaller(a, b) == IF a <= b THEN a ELSE b

Fresh == bucket = NoBucket
LastRefill(now) == IF Fresh THEN now ELSE bucket.last_refill
Tokens == IF Fresh THEN Burst ELSE bucket.tokens

\* Mutant of TokensToAdd: an earlier reading takes no tokens back.
TokensToAddForward(now) ==
  IF now < LastRefill(now) THEN 0 ELSE ((now - LastRefill(now)) * Limit) \div Window

TokensToAdd(now) == ((now - LastRefill(now)) * Limit) \div Window
Refilled(now) == Smaller(Burst, Tokens + TokensToAdd(now))

\* Mutant of Store: the time of the last refill is not renewed.
StoreTokensOnly(tokens, now) ==
  /\ bucket' = [tokens |-> tokens, last_refill |-> LastRefill(now)]
  /\ expires' = clock + 2 * Window
  /\ born' = IF Fresh THEN now ELSE born

\* Mutant of Store: the key lives for one window.
StoreShort(tokens, now) ==
  /\ bucket' = [tokens |-> tokens, last_refill |-> now]
  /\ expires' = clock + Window
  /\ born' = IF Fresh THEN now ELSE born

\* Both branches store the tokens and the time, and both renew the key's life.
Store(tokens, now) ==
  /\ bucket' = [tokens |-> tokens, last_refill |-> now]
  /\ expires' = clock + 2 * Window
  /\ born' = IF Fresh THEN now ELSE born

\* Mutant of Script: a refusal stores the time but not the tokens added.
ScriptRefusingRefill(now, n, answered) ==
  \/ /\ Refilled(now) >= n
     /\ Store(Refilled(now) - n, now)
     /\ granted' = (IF Fresh THEN 0 ELSE granted) + (IF answered THEN n ELSE 0)
     /\ total' = total + (IF answered THEN n ELSE 0)
     /\ lastGrant' = clock
  \/ /\ Refilled(now) < n
     /\ Store(Tokens, now)
     /\ granted' = IF Fresh THEN 0 ELSE granted
     /\ lastGrant' = IF Fresh THEN clock ELSE lastGrant
     /\ UNCHANGED total

\* The script at the time now, for n tokens; answered: whether the caller learns
\* the result.
Script(now, n, answered) ==
  \/ /\ Refilled(now) >= n
     /\ Store(Refilled(now) - n, now)
     /\ granted' = (IF Fresh THEN 0 ELSE granted) + (IF answered THEN n ELSE 0)
     /\ total' = total + (IF answered THEN n ELSE 0)
     /\ lastGrant' = clock
  \/ /\ Refilled(now) < n
     /\ Store(Refilled(now), now)
     /\ granted' = IF Fresh THEN 0 ELSE granted
     /\ lastGrant' = IF Fresh THEN clock ELSE lastGrant
     /\ UNCHANGED total

\* AllowN reads the host's clock.
Ask(c) ==
  /\ asked[c] = -1
  /\ asked' = [asked EXCEPT ![c] = clock]
  /\ \E d \in (-Skew)..Skew : stamp' = [stamp EXCEPT ![c] = clock + d]
  /\ UNCHANGED <<clock, bucket, expires, resets, granted, born, total, lastGrant>>

Done(c) ==
  /\ asked' = [asked EXCEPT ![c] = -1]
  /\ stamp' = [stamp EXCEPT ![c] = 0]
  /\ UNCHANGED <<clock, resets>>

\* AllowN runs the script and returns its answer, or loses it and returns an error.
Eval(c) ==
  /\ asked[c] # -1
  /\ Refilled(stamp[c]) >= MinTokens
  /\ \E n \in Requests, answered \in BOOLEAN : Script(stamp[c], n, answered)
  /\ Done(c)

\* The script runs but its answer is lost, and the Redis client sends the call
\* again with the same time: the bucket is charged more than once.
Resend(c) ==
  /\ asked[c] # -1
  /\ Refilled(stamp[c]) >= MinTokens
  /\ \E n \in Requests : Script(stamp[c], n, FALSE)
  /\ UNCHANGED <<clock, clientVars, resets>>

\* The call fails before the script runs.
EvalFails(c) ==
  /\ asked[c] # -1
  /\ Done(c)
  /\ UNCHANGED <<bucket, expires, granted, born, total, lastGrant>>

\* Reset deletes the key.
Reset ==
  /\ resets < MaxResets
  /\ resets' = resets + 1
  /\ bucket' = NoBucket
  /\ UNCHANGED <<clock, expires, clientVars, granted, born, total, lastGrant>>

\* A second passes; a key whose life has ended is gone.
Tick ==
  /\ clock < MaxClock
  /\ \A c \in Clients : asked[c] # -1 => clock < asked[c] + MaxDelay
  /\ clock' = clock + 1
  /\ bucket' = IF expires <= clock' THEN NoBucket ELSE bucket
  /\ UNCHANGED <<expires, clientVars, resets, granted, born, total, lastGrant>>

Next ==
  \/ \E c \in Clients : Ask(c) \/ Eval(c) \/ Resend(c) \/ EvalFails(c)
  \/ Reset
  \/ Tick

Spec == Init /\ [][Next]_vars

-----------------------------------------------------------------------------
\* What the limiter must keep.

\* While a bucket lives, it grants no more than its burst and what Limit tokens
\* per Window add since it was created, whatever the order of the clients'
\* stamps: readings that go back must not be credited twice.
BucketBound ==
  Window * granted <= Window * Burst + Limit * (clock + Skew - born)

\* The tokens in the bucket account for every grant: an earlier reading of the
\* clock takes back what it makes the next one add again.
TokensAccounted ==
  ~Fresh =>
    Window * (granted + bucket.tokens) <=
      Window * Burst + Limit * (bucket.last_refill - born)

\* The readings a client may pass are within the skew of the clock.
StampsBounded ==
  /\ \A c \in Clients : stamp[c] <= clock + Skew
  /\ born <= clock + Skew
  /\ ~Fresh => bucket.last_refill <= clock + Skew

IndInv == TypeOK /\ StampsBounded /\ TokensAccounted /\ BucketBound

-----------------------------------------------------------------------------
\* With exact clocks.

\* Over the limiter's whole life a new bucket is a new burst.  An expired one
\* would have refilled by itself within the two windows that it takes to expire,
\* so only resets count; this needs Burst <= 2 * Limit and exact clocks.
TotalBound ==
  Window * total <= Window * Burst * (1 + resets) + Limit * clock

\* With exact clocks nobody who asks for no more than the burst is refused once
\* the time since tokens were last taken would have added what is asked for:
\* polling an empty bucket must not keep it empty.
RefusedOnlyWhileRefilling ==
  [][\A c \in Clients, n \in Requests :
       /\ asked[c] # -1
       /\ n <= Burst
       /\ Refilled(stamp[c]) < n
       /\ Script(stamp[c], n, TRUE)
       => Limit * (clock - lastGrant) < Window * n]_vars
-----------------------------------------------------------------------------
\* Seen from the endpoints.

\* What clocks that are off and calls that are late can add to a burst.
Capacity == Window * Burst + Limit * (2 * Skew + MaxDelay)

\* What the bucket would hold for a caller whose clock is as fast as clocks may be.
Credit ==
  IF Fresh
    THEN Capacity
    ELSE Smaller(Capacity,
                 Window * bucket.tokens + Limit * (clock + Skew - bucket.last_refill))

AbstractBucket == INSTANCE TokenBucket WITH credit <- Credit

\* Whatever the order of the clients' readings, from any moment to any later one the
\* limiter grants no more than a token bucket does.
ImplementsBucket == AbstractBucket!Spec
=============================================================================
