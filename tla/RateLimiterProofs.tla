------------------------- MODULE RateLimiterProofs -------------------------
(***************************************************************************)
(* Proof that a bucket never grants more than its burst and its rate allow *)
(* (BucketBound of RateLimiter), for any limit, window, burst, number of   *)
(* clients, skew and delay of the calls.                                   *)
(*                                                                         *)
(* BucketBound is not inductive: what the next script may grant depends on *)
(* the tokens and the time the last one stored.  TokensAccounted relates   *)
(* the two to the grants so far.  It survives a reading that goes back in  *)
(* time because the script then takes tokens away at the same rate, and    *)
(* its rounding only ever loses tokens (Floor).                            *)
(*                                                                         *)
(* With exact clocks more is proved: what a key's whole life grants, and   *)
(* those before it that have expired (TotalBound), and that a refused key  *)
(* is full again within one window, however often it is polled             *)
(* (RefusedOnlyWhileRefilling).                                            *)
(*                                                                         *)
(* Last, the limiter implements TokenBucket, from any moment to any later  *)
(* one and for any skew and delay: every step is one of the abstract       *)
(* bucket's or a stutter (LimiterIsBucket).  That needs that readings in   *)
(* use are recent and that a key outlives its last grant (RecentInv).      *)
(***************************************************************************)
EXTENDS RateLimiter, TLAPS

\* The script's division rounds down.
LEMMA Floor ==
  ASSUME NEW x \in Int, NEW w \in Nat \ {0} PROVE x \div w \in Int /\ w * (x \div w) <= x
OBVIOUS

\* What the bucket holds after the script's refill at time t, together with what
\* it granted before, is within the burst and the rate up to t.
LEMMA RefilledBound ==
  ASSUME IndInv, NEW t \in Int
  PROVE  /\ Refilled(t) \in Int
         /\ Window * ((IF Fresh THEN 0 ELSE granted) + Refilled(t)) <=
              Window * Burst + Limit * (t - (IF Fresh THEN t ELSE born))
<1> USE ConstantsAssumption
<1>1. CASE Fresh
  <2>1. TokensToAdd(t) = 0 BY <1>1 DEF TokensToAdd, LastRefill
  <2>2. Refilled(t) = Burst BY <1>1, <2>1 DEF Refilled, Tokens, Smaller
  <2> QED BY <1>1, <2>2
<1>2. CASE ~Fresh
  <2> DEFINE old == bucket.tokens
             last == bucket.last_refill
             add == TokensToAdd(t)
  <2>1. old \in Int /\ last \in Int /\ granted \in Int /\ born \in Int
    BY <1>2 DEF IndInv, TypeOK, Fresh, Bucket
  <2>2. Window * (granted + old) <= Window * Burst + Limit * (last - born)
    BY <1>2 DEF IndInv, TokensAccounted
  <2>3. add \in Int /\ Window * add <= (t - last) * Limit
    <3> DEFINE x == (t - last) * Limit
    <3>1. x \in Int BY <2>1
    <3>2. add = x \div Window BY <1>2 DEF TokensToAdd, LastRefill
    <3> HIDE DEF x, add
    <3>3. add \in Int /\ Window * add <= x BY <3>1, <3>2, Floor
    <3> QED BY <3>3 DEF x
  <2>4. Refilled(t) \in Int /\ Refilled(t) <= old + add
    BY <1>2, <2>1, <2>3 DEF Refilled, Tokens, Smaller
  <2> HIDE DEF old, last, add
  <2>5. Window * (granted + Refilled(t)) <= Window * (granted + old) + Window * add
    <3>1. Window * (granted + Refilled(t)) <= Window * (granted + old + add)
      BY <2>1, <2>3, <2>4
    <3> QED BY <3>1, <2>1, <2>3
  <2>6. Limit * (last - born) + (t - last) * Limit = Limit * (t - born) BY <2>1
  <2>7. /\ Window * (granted + Refilled(t)) \in Int
        /\ Window * (granted + old) \in Int
        /\ Window * add \in Int
        /\ Limit * (last - born) \in Int
        /\ (t - last) * Limit \in Int
        /\ Window * Burst \in Int
    BY <2>1, <2>3, <2>4
  <2> QED BY <1>2, <2>2, <2>3, <2>4, <2>5, <2>6, <2>7
<1> QED BY <1>1, <1>2

-----------------------------------------------------------------------------
\* The initial states satisfy the invariant.
LEMMA InitInv == Init => IndInv
<1> SUFFICES ASSUME Init PROVE IndInv OBVIOUS
<1> USE ConstantsAssumption
<1>1. TypeOK BY DEF Init, TypeOK
<1>2. StampsBounded BY DEF Init, StampsBounded, Fresh
<1>3. TokensAccounted BY DEF Init, TokensAccounted, Fresh
<1>4. BucketBound BY DEF Init, BucketBound
<1> QED BY <1>1, <1>2, <1>3, <1>4 DEF IndInv

\* Both branches of the script keep the account, whatever reading it is given.
LEMMA ScriptInv ==
  ASSUME IndInv, NEW t \in Int, t <= clock + Skew, NEW n \in Requests, NEW answered \in BOOLEAN,
         Script(t, n, answered), clock' = clock
  PROVE  /\ bucket' \in Bucket /\ bucket'.last_refill = t
         /\ granted' \in Nat /\ born' \in Int /\ born' <= clock + Skew
         /\ TokensAccounted' /\ BucketBound'
<1> USE ConstantsAssumption
<1> DEFINE g == IF Fresh THEN 0 ELSE granted
           b == IF Fresh THEN t ELSE born
           r == Refilled(t)
<1>1. /\ g \in Nat /\ b \in Int /\ b <= clock + Skew /\ clock \in Int /\ granted \in Nat
      /\ n \in Nat
  BY DEF IndInv, TypeOK, StampsBounded
<1>2. r \in Int /\ Window * (g + r) <= Window * Burst + Limit * (t - b)
  BY RefilledBound
<1>3. born' = b BY DEF Script, Store
<1>4. Limit * (t - b) <= Limit * (clock + Skew - b)
  BY <1>1
<1>5. CASE r >= n /\ bucket' = [tokens |-> r - n, last_refill |-> t]
           /\ granted' = g + (IF answered THEN n ELSE 0)
  <2> HIDE DEF g, b, r
  <2>1. granted' \in Nat /\ granted' + bucket'.tokens <= g + r /\ granted' <= g + r
    BY <1>1, <1>2, <1>5
  <2>2. /\ Window * (granted' + bucket'.tokens) <= Window * (g + r)
        /\ Window * granted' <= Window * (g + r)
    BY <2>1, <1>1, <1>2, <1>5
  <2>3. /\ Window * (granted' + bucket'.tokens) \in Int
        /\ Window * granted' \in Int
        /\ Window * (g + r) \in Int
        /\ Limit * (t - b) \in Int
        /\ Limit * (clock + Skew - b) \in Int
        /\ Window * Burst \in Int
    BY <2>1, <1>1, <1>2, <1>5
  <2>4. bucket' \in Bucket /\ bucket'.last_refill = t BY <1>1, <1>2, <1>5 DEF Bucket
  <2>5. TokensAccounted' BY <2>2, <2>3, <2>4, <1>2, <1>3 DEF TokensAccounted
  <2>6. BucketBound' BY <2>2, <2>3, <1>2, <1>3, <1>4 DEF BucketBound
  <2> QED BY <2>1, <2>4, <2>5, <2>6, <1>1, <1>3
<1>6. CASE r < n /\ bucket' = [tokens |-> r, last_refill |-> t] /\ granted' = g
  <2>1. bucket' \in Bucket /\ bucket'.last_refill = t /\ bucket'.tokens = r
    BY <1>2, <1>6 DEF Bucket
  <2>2. TokensAccounted' BY <2>1, <1>2, <1>3, <1>6 DEF TokensAccounted
  <2>3. BucketBound'
    <3>1. CASE Fresh
      <4>1. granted' = 0 /\ born' = t BY <3>1, <1>3, <1>6
      <4>2. Limit * (clock + Skew - t) >= 0 BY <1>1
      <4>3. Window * Burst >= 0 /\ Window * Burst \in Int /\ Limit * (clock + Skew - t) \in Int
        BY <1>1
      <4> QED BY <4>1, <4>2, <4>3 DEF BucketBound
    <3>2. CASE ~Fresh BY <3>2, <1>3, <1>6 DEF IndInv, BucketBound
    <3> QED BY <3>1, <3>2
  <2> QED BY <2>1, <2>2, <2>3, <1>1, <1>3, <1>6
<1> QED BY <1>5, <1>6 DEF Script, Store

-----------------------------------------------------------------------------
\* Every step keeps the invariant.
LEMMA NextInv == IndInv /\ [Next]_vars => IndInv'
<1> SUFFICES ASSUME IndInv, [Next]_vars PROVE IndInv' OBVIOUS
<1> USE ConstantsAssumption, NoBucketAssumption
<1>1. ASSUME NEW c \in Clients, Ask(c) PROVE IndInv'
  <2>1. TypeOK' BY <1>1 DEF Ask, IndInv, TypeOK
  <2>2. StampsBounded' BY <1>1 DEF Ask, IndInv, TypeOK, StampsBounded, Fresh
  <2>3. TokensAccounted' /\ BucketBound'
    BY <1>1 DEF Ask, IndInv, TokensAccounted, BucketBound, Fresh
  <2> QED BY <2>1, <2>2, <2>3 DEF IndInv
<1>2. ASSUME NEW c \in Clients, Eval(c) PROVE IndInv'
  <2>1. PICK n \in Requests, answered \in BOOLEAN : Script(stamp[c], n, answered)
    BY <1>2 DEF Eval
  <2>2. stamp[c] \in Int /\ stamp[c] <= clock + Skew
    BY DEF IndInv, TypeOK, StampsBounded
  <2>3. clock' = clock BY <1>2 DEF Eval, Done
  <2>4. /\ bucket' \in Bucket /\ bucket'.last_refill = stamp[c]
        /\ granted' \in Nat /\ born' \in Int /\ born' <= clock + Skew
        /\ TokensAccounted' /\ BucketBound'
    BY <2>1, <2>2, <2>3, ScriptInv
  <2>5. TypeOK'
    <3>1. expires' \in Nat /\ total' \in Nat /\ lastGrant' \in Nat
      BY <2>1 DEF Script, Store, IndInv, TypeOK
    <3> QED BY <3>1, <2>4, <1>2 DEF Eval, Done, IndInv, TypeOK
  <2>6. StampsBounded' BY <2>2, <2>3, <2>4, <1>2 DEF Eval, Done, IndInv, TypeOK, StampsBounded
  <2> QED BY <2>4, <2>5, <2>6 DEF IndInv
<1>3. ASSUME NEW c \in Clients, EvalFails(c) PROVE IndInv'
  <2>1. TypeOK' BY <1>3 DEF EvalFails, Done, IndInv, TypeOK
  <2>2. StampsBounded' BY <1>3 DEF EvalFails, Done, IndInv, TypeOK, StampsBounded, Fresh
  <2>3. TokensAccounted' /\ BucketBound'
    BY <1>3 DEF EvalFails, Done, IndInv, TokensAccounted, BucketBound, Fresh
  <2> QED BY <2>1, <2>2, <2>3 DEF IndInv
<1>4. ASSUME NEW c \in Clients, Resend(c) PROVE IndInv'
  <2>1. PICK n \in Requests : Script(stamp[c], n, FALSE) BY <1>4 DEF Resend
  <2>2. stamp[c] \in Int /\ stamp[c] <= clock + Skew
    BY DEF IndInv, TypeOK, StampsBounded
  <2>3. clock' = clock BY <1>4 DEF Resend
  <2>4. /\ bucket' \in Bucket /\ bucket'.last_refill = stamp[c]
        /\ granted' \in Nat /\ born' \in Int /\ born' <= clock + Skew
        /\ TokensAccounted' /\ BucketBound'
    BY <2>1, <2>2, <2>3, ScriptInv
  <2>5. TypeOK'
    <3>1. expires' \in Nat /\ total' \in Nat /\ lastGrant' \in Nat
      BY <2>1 DEF Script, Store, IndInv, TypeOK
    <3> QED BY <3>1, <2>4, <1>4 DEF Resend, clientVars, IndInv, TypeOK
  <2>6. StampsBounded'
    BY <2>2, <2>3, <2>4, <1>4 DEF Resend, clientVars, IndInv, TypeOK, StampsBounded
  <2> QED BY <2>4, <2>5, <2>6 DEF IndInv
<1>5. CASE Reset
  <2>1. TypeOK' BY <1>5 DEF Reset, clientVars, IndInv, TypeOK
  <2>2. StampsBounded' BY <1>5 DEF Reset, clientVars, IndInv, StampsBounded, Fresh
  <2>3. TokensAccounted' /\ BucketBound'
    BY <1>5 DEF Reset, IndInv, TokensAccounted, BucketBound, Fresh
  <2> QED BY <2>1, <2>2, <2>3 DEF IndInv
<1>6. CASE Tick
  <2>1. TypeOK' BY <1>6 DEF Tick, clientVars, IndInv, TypeOK
  <2>2. StampsBounded'
    <3>1. /\ clock' = clock + 1 /\ UNCHANGED <<stamp, born>>
          /\ ~Fresh' => bucket' = bucket /\ ~Fresh
      BY <1>6 DEF Tick, clientVars, Fresh
    <3>2. /\ clock + Skew \in Int /\ clock' + Skew = clock + Skew + 1
          /\ born \in Int /\ stamp \in [Clients -> Int]
          /\ ~Fresh => bucket.last_refill \in Int
      BY <3>1 DEF IndInv, TypeOK, Fresh, Bucket
    <3> QED BY <3>1, <3>2 DEF IndInv, StampsBounded
  <2>3. TokensAccounted' BY <1>6 DEF Tick, IndInv, TokensAccounted, Fresh
  <2>4. BucketBound'
    <3>1. clock' = clock + 1 /\ UNCHANGED <<granted, born>> BY <1>6 DEF Tick
    <3>2. clock \in Int /\ born \in Int /\ granted \in Int BY DEF IndInv, TypeOK
    <3>3. Limit * (clock + 1 + Skew - born) = Limit * (clock + Skew - born) + Limit BY <3>2
    <3>4. Limit * (clock + Skew - born) \in Int /\ Window * granted \in Int /\ Window * Burst \in Int
      BY <3>2
    <3> QED BY <3>1, <3>3, <3>4 DEF IndInv, BucketBound
  <2> QED BY <2>1, <2>2, <2>3, <2>4 DEF IndInv
<1>7. CASE UNCHANGED vars
  BY <1>7 DEF vars, clientVars, IndInv, TypeOK, StampsBounded, TokensAccounted, BucketBound, Fresh
<1> QED BY <1>1, <1>2, <1>3, <1>4, <1>5, <1>6, <1>7 DEF Next

\* In every reachable state of every instance the bucket's tokens, its last refill and
\* the grants so far account for each other (IndInv), also when readings go back in
\* time, calls are late and calls are sent twice (limiter.go, AllowN).
THEOREM Inductive == Spec => []IndInv
BY InitInv, NextInv, PTL DEF Spec

\* The limiter's state keeps its types: tokens stay whole numbers (below zero
\* too, when a reading goes back), times stay in the past or the skew.
THEOREM TypeCorrect == Spec => []TypeOK
<1>1. IndInv => TypeOK BY DEF IndInv
<1> QED BY Inductive, <1>1, PTL

\* A bucket's grants are bounded by its burst and its rate, for clients with
\* skewed clocks whose calls overtake each other and get lost.
THEOREM GrantsBounded == Spec => []BucketBound
<1>1. IndInv => BucketBound BY DEF IndInv
<1> QED BY Inductive, <1>1, PTL

-----------------------------------------------------------------------------
\* Exact clocks: no skew, and calls that take no time to speak of.

\* A script that runs is given the time it runs at.
StampsExact == \A c \in Clients : asked[c] # -1 => asked[c] = clock /\ stamp[c] = clock

\* Grants and tokens together are within the bursts and the rate so far; a key that
\* lives to its end is as good as full, and one that is gone has room for a burst.
LifetimeAccounted ==
  /\ ~Fresh =>
       /\ 0 <= bucket.tokens
       /\ bucket.last_refill <= clock
       /\ expires = bucket.last_refill + 2 * Window
       /\ Window * (total + bucket.tokens) <=
            Window * Burst * (1 + resets) + Limit * bucket.last_refill
  /\ Fresh => Window * total <= Window * Burst * resets + Limit * clock

ExactInv == StampsExact /\ LifetimeAccounted

\* At the time a script runs, with or without a bucket, there is room for what the
\* bucket holds then.
LEMMA RefilledExact ==
  ASSUME IndInv, ExactInv
  PROVE  /\ Refilled(clock) \in Nat
         /\ Window * (total + Refilled(clock)) <=
              Window * Burst * (1 + resets) + Limit * clock
<1> USE ConstantsAssumption
<1>1. clock \in Nat /\ total \in Nat /\ resets \in Nat BY DEF IndInv, TypeOK
<1>2. CASE Fresh
  <2>1. TokensToAdd(clock) = 0 BY <1>1, <1>2 DEF TokensToAdd, LastRefill
  <2>2. Refilled(clock) = Burst BY <1>2, <2>1 DEF Refilled, Tokens, Smaller
  <2>3. Window * total <= Window * Burst * resets + Limit * clock
    BY <1>2 DEF ExactInv, LifetimeAccounted
  <2>4. Window * Burst * (1 + resets) = Window * Burst + Window * Burst * resets BY <1>1
  <2>5. Window * (total + Burst) = Window * total + Window * Burst BY <1>1
  <2>6. /\ Window * total \in Int /\ Window * Burst \in Int
        /\ Window * Burst * resets \in Int /\ Limit * clock \in Int
    BY <1>1
  <2> QED BY <2>2, <2>3, <2>4, <2>5, <2>6
<1>3. CASE ~Fresh
  <2> DEFINE old == bucket.tokens
             since == bucket.last_refill
             add == TokensToAdd(clock)
             x == (clock - since) * Limit
  <2>1. old \in Nat /\ since \in Int /\ since <= clock
    BY <1>3 DEF IndInv, TypeOK, Fresh, Bucket, ExactInv, LifetimeAccounted
  <2>2. x \in Nat BY <1>1, <2>1
  <2>3. add = x \div Window BY <1>3 DEF TokensToAdd, LastRefill
  <2>4. Window * (total + old) <= Window * Burst * (1 + resets) + Limit * since
    BY <1>3 DEF ExactInv, LifetimeAccounted
  <2>5. Limit * since + x = Limit * clock BY <1>1, <2>1
  <2>6. Refilled(clock) = Smaller(Burst, old + add) BY <1>3 DEF Refilled, Tokens
  <2> HIDE DEF old, since, add, x
  <2>7. add \in Nat /\ Window * add <= x BY <2>2, <2>3, Floor
  <2>8. Refilled(clock) \in Nat /\ Refilled(clock) <= old + add
    BY <2>1, <2>6, <2>7 DEF Smaller
  <2>9. Window * (total + Refilled(clock)) <= Window * (total + old) + Window * add
    <3>1. Window * (total + Refilled(clock)) <= Window * (total + old + add)
      BY <1>1, <2>1, <2>7, <2>8
    <3> QED BY <3>1, <1>1, <2>1, <2>7
  <2>10. /\ Window * (total + Refilled(clock)) \in Int /\ Window * (total + old) \in Int
         /\ Window * add \in Int /\ Limit * since \in Int /\ Limit * clock \in Int
         /\ Window * Burst * (1 + resets) \in Int
    BY <1>1, <2>1, <2>7, <2>8
  <2> QED BY <2>2, <2>4, <2>5, <2>7, <2>8, <2>9, <2>10
<1> QED BY <1>2, <1>3

\* A script's run keeps the account, whether or not its answer arrives.
LEMMA ScriptExact ==
  ASSUME IndInv, ExactInv, NEW n \in Requests, NEW answered \in BOOLEAN,
         Script(clock, n, answered), UNCHANGED <<clock, resets>>
  PROVE  LifetimeAccounted'
<1> USE ConstantsAssumption, NoBucketAssumption
<1> DEFINE r == Refilled(clock)
<1>1. /\ r \in Nat
      /\ Window * (total + r) <= Window * Burst * (1 + resets) + Limit * clock
  BY RefilledExact
<1>2. clock \in Nat /\ total \in Nat /\ resets \in Nat /\ n \in Nat BY DEF IndInv, TypeOK
<1>3. expires' = clock + 2 * Window BY DEF Script, Store
<1>4. \/ /\ r >= n
         /\ bucket' = [tokens |-> r - n, last_refill |-> clock]
         /\ total' = total + (IF answered THEN n ELSE 0)
      \/ /\ bucket' = [tokens |-> r, last_refill |-> clock]
         /\ total' = total
  BY DEF Script, Store
<1> HIDE DEF r
<1>5. /\ bucket' \in Bucket /\ 0 <= bucket'.tokens /\ bucket'.last_refill = clock
      /\ total' \in Nat /\ total' + bucket'.tokens <= total + r
  BY <1>1, <1>2, <1>4 DEF Bucket
<1>6. bucket'.tokens \in Nat BY <1>5 DEF Bucket
<1>7. Window * (total' + bucket'.tokens) <= Window * (total + r)
  BY <1>1, <1>2, <1>5, <1>6
<1>8. /\ Window * (total' + bucket'.tokens) \in Int /\ Window * (total + r) \in Int
      /\ Window * Burst * (1 + resets) \in Int /\ Limit * clock \in Int
  BY <1>1, <1>2, <1>5, <1>6
<1>9. Window * (total' + bucket'.tokens) <= Window * Burst * (1 + resets) + Limit * clock
  BY <1>1, <1>7, <1>8
<1>10. ~Fresh' BY <1>5 DEF Fresh
<1>11. resets' = resets /\ clock' = clock /\ clock <= clock BY <1>2
<1>12. Window * (total' + bucket'.tokens) <=
         Window * Burst * (1 + resets') + Limit * bucket'.last_refill
  BY <1>5, <1>9, <1>11
<1>13. bucket'.last_refill <= clock' /\ expires' = bucket'.last_refill + 2 * Window
  BY <1>3, <1>5, <1>11
<1> QED BY <1>5, <1>10, <1>12, <1>13, Zenon DEF LifetimeAccounted

\* With exact clocks every step keeps ExactInv.  The key's end is where
\* Burst <= 2 * Limit is needed: two windows refill more than a burst.
LEMMA ExactNext ==
  ASSUME Skew = 0, MaxDelay = 0, Burst <= 2 * Limit, IndInv, ExactInv, [Next]_vars
  PROVE  ExactInv'
<1> USE ConstantsAssumption DEF ExactInv
<1>1. ASSUME NEW c \in Clients, Ask(c) PROVE ExactInv'
  <2>1. StampsExact'
    BY <1>1 DEF Ask, StampsExact, IndInv, TypeOK
  <2>2. LifetimeAccounted' BY <1>1 DEF Ask, LifetimeAccounted, Fresh
  <2> QED BY <2>1, <2>2
<1>2. ASSUME NEW c \in Clients, Eval(c) \/ Resend(c) PROVE ExactInv'
  <2>1. PICK n \in Requests, answered \in BOOLEAN : Script(stamp[c], n, answered)
    BY <1>2 DEF Eval, Resend
  <2>2. stamp[c] = clock BY <1>2 DEF Eval, Resend, StampsExact
  <2>3. UNCHANGED <<clock, resets>> BY <1>2 DEF Eval, Resend, Done
  <2>4. LifetimeAccounted' BY <2>1, <2>2, <2>3, ScriptExact
  <2>5. StampsExact'
    BY <1>2 DEF Eval, Resend, Done, clientVars, StampsExact, IndInv, TypeOK
  <2> QED BY <2>4, <2>5
<1>3. ASSUME NEW c \in Clients, EvalFails(c) PROVE ExactInv'
  <2>1. StampsExact' BY <1>3 DEF EvalFails, Done, StampsExact, IndInv, TypeOK
  <2>2. LifetimeAccounted' BY <1>3 DEF EvalFails, Done, LifetimeAccounted, Fresh
  <2> QED BY <2>1, <2>2
<1>4. CASE Reset
  <2>1. StampsExact' BY <1>4 DEF Reset, clientVars, StampsExact
  <2>2. Window * total <= Window * Burst * (1 + resets) + Limit * clock
    <3>1. Window * (total + Refilled(clock)) <= Window * Burst * (1 + resets) + Limit * clock
      BY RefilledExact
    <3>2. Refilled(clock) \in Nat BY RefilledExact
    <3> DEFINE r == Refilled(clock)
    <3>3. clock \in Nat /\ total \in Nat /\ resets \in Nat BY DEF IndInv, TypeOK
    <3> HIDE DEF r
    <3>4. Window * total <= Window * (total + r) /\ Window * total \in Int
          /\ Window * (total + r) \in Int /\ Limit * clock \in Int
          /\ Window * Burst * (1 + resets) \in Int
      BY <3>2, <3>3 DEF r
    <3> QED BY <3>1, <3>4 DEF r
  <2>3. /\ Fresh' /\ total' = total /\ clock' = clock /\ resets' = resets + 1
        /\ resets \in Nat
    BY <1>4 DEF Reset, Fresh, IndInv, TypeOK
  <2>4. resets' = 1 + resets BY <2>3
  <2>5. LifetimeAccounted' BY <2>2, <2>3, <2>4 DEF LifetimeAccounted
  <2> QED BY <2>1, <2>5
<1>5. CASE Tick
  <2>1. \A c \in Clients : asked[c] = -1
    BY <1>5 DEF Tick, StampsExact, IndInv, TypeOK
  <2>2. StampsExact' BY <2>1, <1>5 DEF Tick, clientVars, StampsExact
  <2>3. /\ clock \in Nat /\ total \in Nat /\ resets \in Nat /\ clock' = clock + 1
        /\ total' = total /\ resets' = resets /\ expires' = expires
    BY <1>5 DEF Tick, IndInv, TypeOK
  <2>4. Limit * clock' = Limit * clock + Limit /\ Limit * clock \in Int BY <2>3
  <2>5. CASE Fresh
    <3>1. Fresh' BY <1>5, <2>5 DEF Tick, Fresh
    <3>2. Window * total <= Window * Burst * resets + Limit * clock
      BY <2>5 DEF LifetimeAccounted
    <3>3. Window * total \in Int /\ Window * Burst * resets \in Int BY <2>3
    <3>4. Window * total' <= Window * Burst * resets' + Limit * clock'
      BY <2>3, <2>4, <3>2, <3>3
    <3>5. LifetimeAccounted' BY <3>1, <3>4 DEF LifetimeAccounted
    <3> QED BY <2>2, <3>5
  <2>6. CASE ~Fresh /\ ~(expires <= clock')
    <3>1. bucket' = bucket BY <1>5, <2>6 DEF Tick
    <3>2. bucket.last_refill \in Int BY <2>6 DEF IndInv, TypeOK, Fresh, Bucket
    <3>3. LifetimeAccounted'
      BY <2>3, <2>6, <3>1, <3>2 DEF LifetimeAccounted, Fresh
    <3> QED BY <2>2, <3>3
  <2>7. CASE ~Fresh /\ expires <= clock'
    <3> DEFINE old == bucket.tokens
               since == bucket.last_refill
    <3>1. old \in Nat /\ since \in Int /\ since + 2 * Window <= clock'
      BY <2>7 DEF IndInv, TypeOK, Fresh, Bucket, LifetimeAccounted
    <3>2. Window * (total + old) <= Window * Burst * (1 + resets) + Limit * since
      BY <2>7 DEF LifetimeAccounted
    <3> HIDE DEF old, since
    <3>3. Limit * (since + 2 * Window) <= Limit * clock' BY <2>3, <3>1
    <3>4. Window * Burst <= Window * (2 * Limit)
      <4>1. Burst \in Int /\ 2 * Limit \in Int OBVIOUS
      <4> QED BY <4>1
    <3>5. Limit * (since + 2 * Window) = Limit * since + Window * (2 * Limit) BY <3>1
    <3>6. Window * Burst * (1 + resets) = Window * Burst + Window * Burst * resets BY <2>3
    <3>7. Window * total <= Window * (total + old) BY <2>3, <3>1
    <3>8. /\ Window * total \in Int /\ Window * (total + old) \in Int
          /\ Window * Burst \in Int /\ Window * Burst * resets \in Int
          /\ Limit * since \in Int /\ Window * (2 * Limit) \in Int /\ Limit * clock' \in Int
      BY <2>3, <3>1
    <3>9. Window * total <= Window * Burst * resets + Limit * clock'
      BY <3>2, <3>3, <3>4, <3>5, <3>6, <3>7, <3>8
    <3>10. Fresh' BY <1>5, <2>7 DEF Tick, Fresh
    <3>11. LifetimeAccounted' BY <2>3, <3>9, <3>10 DEF LifetimeAccounted
    <3> QED BY <2>2, <3>11
  <2> QED BY <2>5, <2>6, <2>7
<1>6. CASE UNCHANGED vars
  BY <1>6 DEF vars, clientVars, StampsExact, LifetimeAccounted, Fresh
<1> QED BY <1>1, <1>2, <1>3, <1>4, <1>5, <1>6 DEF Next

\* With exact clocks and a burst of at most two windows' tokens, all the limiter
\* ever grants is one burst for each reset, one more, and the rate: a key that
\* expires and is created anew gives nothing away.
THEOREM LifetimeGrantsBounded ==
  ASSUME Skew = 0, MaxDelay = 0, Burst <= 2 * Limit
  PROVE  Spec => []TotalBound
<1>1. Init => ExactInv
  BY ConstantsAssumption DEF Init, ExactInv, StampsExact, LifetimeAccounted, Fresh
<1>2. IndInv /\ ExactInv /\ [Next]_vars => ExactInv' BY ExactNext
<1>3. IndInv /\ ExactInv => TotalBound
  <2> SUFFICES ASSUME IndInv, ExactInv PROVE TotalBound OBVIOUS
  <2>1. clock \in Nat /\ total \in Nat /\ resets \in Nat BY DEF IndInv, TypeOK
  <2>2. /\ Refilled(clock) \in Nat
        /\ Window * (total + Refilled(clock)) <=
             Window * Burst * (1 + resets) + Limit * clock
    BY RefilledExact
  <2> DEFINE r == Refilled(clock)
  <2> HIDE DEF r
  <2>3. /\ Window * total <= Window * (total + r) /\ Window * total \in Int
        /\ Window * (total + r) \in Int /\ Limit * clock \in Int
        /\ Window * Burst * (1 + resets) \in Int
    BY <2>1, <2>2, ConstantsAssumption DEF r
  <2> QED BY <2>2, <2>3 DEF r, TotalBound
<1> QED BY <1>1, <1>2, <1>3, Inductive, PTL DEF Spec

-----------------------------------------------------------------------------
\* Recovery, when the window divides the limit: k tokens are added each second.

\* A bucket holds what the time since tokens were last taken adds.
Recovering(k) ==
  ~Fresh =>
    /\ lastGrant <= bucket.last_refill
    /\ Smaller(Burst, k * (bucket.last_refill - lastGrant)) <= bucket.tokens

\* So it does after a refill, however often it was polled before: no fraction of a
\* token is rounded away.
LEMMA RefilledRecovers ==
  ASSUME NEW k \in Nat, Limit = k * Window, IndInv, ExactInv, Recovering(k), ~Fresh
  PROVE  /\ lastGrant <= clock
         /\ Smaller(Burst, k * (clock - lastGrant)) <= Refilled(clock)
<1> USE ConstantsAssumption
<1> DEFINE old == bucket.tokens
           since == bucket.last_refill
           add == k * (clock - since)
<1>1. /\ old \in Nat /\ since \in Int /\ since <= clock /\ lastGrant \in Nat
      /\ clock \in Nat
  BY DEF IndInv, TypeOK, Fresh, Bucket, ExactInv, LifetimeAccounted
<1>2. lastGrant <= since /\ Smaller(Burst, k * (since - lastGrant)) <= old
  BY DEF Recovering
<1>3. TokensToAdd(clock) = add
  <2>1. TokensToAdd(clock) = ((clock - since) * Limit) \div Window
    BY DEF TokensToAdd, LastRefill
  <2> HIDE DEF since
  <2>2. (clock - since) * Limit = add * Window BY <1>1
  <2>3. add \in Int BY <1>1
  <2> HIDE DEF add
  <2>4. (add * Window) \div Window = add BY <2>3
  <2> QED BY <2>1, <2>2, <2>4 DEF since
<1>4. Refilled(clock) = Smaller(Burst, old + add) BY <1>3 DEF Refilled, Tokens
<1> HIDE DEF old, since
<1>5. k * (clock - lastGrant) = k * (since - lastGrant) + add BY <1>1
<1>6. k * (since - lastGrant) \in Int /\ add \in Nat BY <1>1
<1>7. k * (clock - lastGrant) \in Int BY <1>1
<1> HIDE DEF add
<1> QED BY <1>1, <1>2, <1>4, <1>5, <1>6, <1>7 DEF Smaller

\* Every step keeps it: tokens taken start the time anew, a refusal stores what the
\* refill added.
LEMMA RecoveringNext ==
  ASSUME NEW k \in Nat, Limit = k * Window, IndInv, ExactInv, Recovering(k), [Next]_vars
  PROVE  Recovering(k)'
<1> USE ConstantsAssumption
<1>1. ASSUME NEW c \in Clients, Eval(c) \/ Resend(c) PROVE Recovering(k)'
  <2>1. PICK n \in Requests, answered \in BOOLEAN : Script(clock, n, answered)
    BY <1>1 DEF Eval, Resend, ExactInv, StampsExact
  <2>2. clock \in Nat /\ n \in Nat /\ Refilled(clock) \in Nat
    BY RefilledExact DEF IndInv, TypeOK
  <2>3. k * (clock - clock) = 0 BY <2>2
  <2>4. CASE lastGrant' = clock
    <3>1. bucket'.last_refill = clock /\ 0 <= bucket'.tokens BY <2>1, <2>2 DEF Script, Store
    <3> QED BY <2>2, <2>3, <2>4, <3>1 DEF Recovering, Smaller
  <2>5. CASE lastGrant' # clock
    <3>1. /\ ~Fresh /\ lastGrant' = lastGrant
          /\ bucket' = [tokens |-> Refilled(clock), last_refill |-> clock]
      BY <2>1, <2>5 DEF Script, Store
    <3>2. /\ lastGrant <= clock
          /\ Smaller(Burst, k * (clock - lastGrant)) <= Refilled(clock)
      BY <3>1, RefilledRecovers
    <3> HIDE DEF Smaller
    <3> QED BY <3>1, <3>2 DEF Recovering, Smaller
  <2> QED BY <2>4, <2>5
<1>2. ASSUME NEW c \in Clients, Ask(c) \/ EvalFails(c) PROVE Recovering(k)'
  BY <1>2 DEF Ask, EvalFails, Recovering, Fresh, Smaller
<1>3. CASE Reset \/ Tick BY <1>3 DEF Reset, Tick, Recovering, Fresh, Smaller
<1>4. CASE UNCHANGED vars BY <1>4 DEF vars, Recovering, Fresh, Smaller
<1> QED BY <1>1, <1>2, <1>3, <1>4 DEF Next

\* With exact clocks and a window that divides the limit, nobody is refused tokens
\* that the time since the last grant has added, however often the bucket is
\* polled meanwhile and whatever calls were sent twice.
THEOREM PollingDelaysNobody ==
  ASSUME Skew = 0, MaxDelay = 0, Burst <= 2 * Limit, NEW k \in Nat, Limit = k * Window
  PROVE  Spec => RefusedOnlyWhileRefilling
<1>1. Init => ExactInv /\ Recovering(k)
  BY ConstantsAssumption
  DEF Init, ExactInv, StampsExact, LifetimeAccounted, Recovering, Fresh
<1>2. IndInv /\ ExactInv /\ Recovering(k) /\ [Next]_vars => ExactInv' /\ Recovering(k)'
  BY ExactNext, RecoveringNext
<1>3. IndInv /\ ExactInv /\ Recovering(k) =>
        \A c \in Clients, n \in Requests :
          asked[c] # -1 /\ n <= Burst /\ Refilled(stamp[c]) < n
          => Limit * (clock - lastGrant) < Window * n
  <2> SUFFICES ASSUME IndInv, ExactInv, Recovering(k), NEW c \in Clients, NEW n \in Requests,
                      asked[c] # -1, n <= Burst, Refilled(stamp[c]) < n
               PROVE  Limit * (clock - lastGrant) < Window * n
    OBVIOUS
  <2> USE ConstantsAssumption
  <2>1. stamp[c] = clock BY DEF ExactInv, StampsExact
  <2>2. clock \in Nat /\ lastGrant \in Nat /\ n \in Nat BY DEF IndInv, TypeOK
  <2>3. ~Fresh
    <3> SUFFICES ASSUME Fresh PROVE FALSE OBVIOUS
    <3>1. TokensToAdd(clock) = 0 BY <2>2 DEF TokensToAdd, LastRefill
    <3>2. Refilled(clock) = Burst BY <3>1 DEF Refilled, Tokens, Smaller
    <3> QED BY <2>1, <2>2, <3>2
  <2>4. /\ Smaller(Burst, k * (clock - lastGrant)) <= Refilled(clock)
        /\ Refilled(clock) \in Nat
    BY <2>3, RefilledRecovers, RefilledExact
  <2> DEFINE d == clock - lastGrant
  <2>5. d \in Int /\ k * d \in Int BY <2>2
  <2>6. k * d < n BY <2>1, <2>2, <2>4, <2>5 DEF Smaller
  <2> HIDE DEF d
  <2>7. Limit * d = Window * (k * d) BY <2>5
  <2>8. Window * (k * d) < Window * n BY <2>2, <2>5, <2>6
  <2> QED BY <2>7, <2>8 DEF d
<1>4. IndInv /\ ExactInv /\ Recovering(k) =>
        [\A c \in Clients, n \in Requests :
           /\ asked[c] # -1
           /\ n <= Burst
           /\ Refilled(stamp[c]) < n
           /\ Script(stamp[c], n, TRUE)
           => Limit * (clock - lastGrant) < Window * n]_vars
  BY <1>3
<1> QED BY <1>1, <1>2, <1>4, Inductive, PTL DEF Spec, RefusedOnlyWhileRefilling
-----------------------------------------------------------------------------
\* The limiter implements TokenBucket, for any skew and delay.

\* A call that is under way has a reading of a moment not long ago,
StampsRecent ==
  \A c \in Clients :
    asked[c] # -1 => /\ clock <= asked[c] + MaxDelay
                     /\ asked[c] - Skew <= stamp[c]

\* and a key lives on for two windows after tokens were last taken.
KeyOutlivesGrant ==
  /\ lastGrant <= clock
  /\ ~Fresh => lastGrant + 2 * Window <= expires

RecentInv == StampsRecent /\ KeyOutlivesGrant

LEMMA RecentNext == ASSUME IndInv, RecentInv, [Next]_vars PROVE RecentInv'
<1> USE ConstantsAssumption DEF RecentInv
<1>1. ASSUME NEW c \in Clients, Ask(c) PROVE RecentInv'
  <2>1. StampsRecent' BY <1>1 DEF Ask, StampsRecent, IndInv, TypeOK
  <2>2. KeyOutlivesGrant' BY <1>1 DEF Ask, KeyOutlivesGrant, Fresh
  <2> QED BY <2>1, <2>2
<1>2. ASSUME NEW c \in Clients, Eval(c) \/ Resend(c) PROVE RecentInv'
  <2>1. PICK n \in Requests, answered \in BOOLEAN : Script(stamp[c], n, answered)
    BY <1>2 DEF Eval, Resend
  <2>2. expires' = clock + 2 * Window /\ clock' = clock
    BY <1>2, <2>1 DEF Eval, Resend, Done, Script, Store
  <2>3. KeyOutlivesGrant'
    <3>1. clock \in Nat /\ lastGrant \in Nat /\ lastGrant <= clock
      BY DEF KeyOutlivesGrant, IndInv, TypeOK
    <3>2. lastGrant' \in Nat /\ lastGrant' <= clock
      <4>1. lastGrant' = lastGrant \/ lastGrant' = clock BY <2>1 DEF Script
      <4>2. clock <= clock BY <3>1
      <4> QED BY <3>1, <4>1, <4>2, Zenon
    <3>3. \A a, b \in Nat : a <= b => a + 2 * Window <= b + 2 * Window OBVIOUS
    <3>4. lastGrant' + 2 * Window <= clock + 2 * Window BY <3>1, <3>2, <3>3, Zenon
    <3> QED BY <2>2, <3>2, <3>4 DEF KeyOutlivesGrant
  <2>4. StampsRecent'
    <3>1. CASE Resend(c) BY <3>1 DEF Resend, clientVars, StampsRecent
    <3>2. CASE Eval(c)
      <4>1. /\ asked' = [asked EXCEPT ![c] = -1] /\ stamp' = [stamp EXCEPT ![c] = 0]
            /\ clock' = clock
        BY <3>2 DEF Eval, Done
      <4> QED BY <4>1 DEF StampsRecent, IndInv, TypeOK
    <3> QED BY <1>2, <3>1, <3>2
  <2> QED BY <2>3, <2>4
<1>3. ASSUME NEW c \in Clients, EvalFails(c) PROVE RecentInv'
  BY <1>3 DEF EvalFails, Done, StampsRecent, KeyOutlivesGrant, Fresh, IndInv, TypeOK
<1>4. CASE Reset BY <1>4 DEF Reset, clientVars, StampsRecent, KeyOutlivesGrant, Fresh
<1>5. CASE Tick
  <2>1. StampsRecent' BY <1>5 DEF Tick, clientVars, StampsRecent, IndInv, TypeOK
  <2>2. KeyOutlivesGrant' BY <1>5 DEF Tick, KeyOutlivesGrant, Fresh, IndInv, TypeOK
  <2> QED BY <2>1, <2>2
<1>6. CASE UNCHANGED vars
  BY <1>6 DEF vars, clientVars, StampsRecent, KeyOutlivesGrant, Fresh
<1> QED BY <1>1, <1>2, <1>3, <1>4, <1>5, <1>6 DEF Next

\* What the credit is, as a number.
LEMMA CreditType == ASSUME IndInv PROVE Credit \in Int /\ Capacity \in Int
<1> USE ConstantsAssumption
<1>1. Window * Burst \in Int /\ Limit * (2 * Skew + MaxDelay) \in Int OBVIOUS
<1>2. Capacity \in Int BY <1>1 DEF Capacity
<1>3. CASE Fresh BY <1>2, <1>3 DEF Credit
<1>4. CASE ~Fresh
  <2> DEFINE level == Window * bucket.tokens + Limit * (clock + Skew - bucket.last_refill)
  <2>1. bucket.tokens \in Int /\ bucket.last_refill \in Int /\ clock \in Int
    BY <1>4 DEF IndInv, TypeOK, Fresh, Bucket
  <2>2. level \in Int BY <2>1
  <2>3. Credit = Smaller(Capacity, level) BY <1>4 DEF Credit
  <2> HIDE DEF level
  <2> QED BY <1>2, <2>2, <2>3 DEF Smaller
<1> QED BY <1>2, <1>3, <1>4

\* A refill at a recent reading t brings no more than the credit, and leaves room for
\* what a fast clock adds.
LEMMA RefilledWithinCredit ==
  ASSUME IndInv, NEW t \in Int, t <= clock + Skew, clock - Skew - MaxDelay <= t
  PROVE  /\ Refilled(t) \in Int
         /\ Limit * (clock + Skew - t) \in Nat
         /\ Window * Refilled(t) + Limit * (clock + Skew - t) <= Credit
<1> USE ConstantsAssumption
<1> DEFINE r == Refilled(t)
           ahead == Limit * (clock + Skew - t)
           late == Limit * (2 * Skew + MaxDelay)
<1>1. clock \in Nat BY DEF IndInv, TypeOK
<1>2. ahead \in Nat /\ late \in Nat /\ ahead <= late
  <2>1. clock + Skew - t \in Nat /\ 2 * Skew + MaxDelay \in Nat
        /\ clock + Skew - t <= 2 * Skew + MaxDelay
    BY <1>1
  <2> QED BY <2>1
<1>3. r \in Int /\ r <= Burst
  <2>1. r \in Int BY RefilledBound
  <2> QED BY <2>1 DEF Refilled, Smaller
<1>4. Window * r <= Window * Burst /\ Window * r \in Int /\ Window * Burst \in Int BY <1>3
<1>5. Capacity = Window * Burst + late BY DEF Capacity
<1>6. Window * r + ahead <= Capacity
  <2> HIDE DEF ahead, late, r
  <2> QED BY <1>2, <1>4, <1>5
<1>7. CASE Fresh BY <1>2, <1>3, <1>6, <1>7 DEF Credit
<1>8. CASE ~Fresh
  <2> DEFINE old == bucket.tokens
             last == bucket.last_refill
             add == TokensToAdd(t)
             x == (t - last) * Limit
  <2>1. old \in Int /\ last \in Int BY <1>8 DEF IndInv, TypeOK, Fresh, Bucket
  <2>2. x \in Int BY <2>1
  <2>3. add = x \div Window BY <1>8 DEF TokensToAdd, LastRefill
  <2>4. Credit = Smaller(Capacity, Window * old + Limit * (clock + Skew - last))
    BY <1>8 DEF Credit
  <2>5. r = Smaller(Burst, old + add) BY <1>8 DEF Refilled, Tokens
  <2>6. x + ahead = Limit * (clock + Skew - last) BY <1>1, <2>1
  <2> HIDE DEF old, last, add, x, ahead, r
  <2>7. add \in Int /\ Window * add <= x BY <2>2, <2>3, Floor
  <2>8. r <= old + add BY <2>1, <2>5, <2>7 DEF Smaller
  <2>9. Window * r <= Window * (old + add) BY <1>3, <2>1, <2>7, <2>8
  <2>10. Window * (old + add) = Window * old + Window * add
         /\ Window * old \in Int /\ Window * add \in Int
    BY <2>1, <2>7
  <2>11. Window * r + ahead <= Window * old + Limit * (clock + Skew - last)
    BY <1>2, <1>4, <2>2, <2>6, <2>7, <2>9, <2>10
  <2>12. Window * r + ahead <= Credit BY <1>6, <2>4, <2>11 DEF Smaller
  <2> QED BY <1>2, <1>3, <2>12 DEF r, ahead
<1> QED BY <1>7, <1>8

\* The script grants what there is credit for, and takes it.
LEMMA ScriptTakes ==
  ASSUME IndInv, NEW t \in Int, t <= clock + Skew, clock - Skew - MaxDelay <= t,
         NEW n \in Requests, NEW answered \in BOOLEAN,
         Script(t, n, answered), UNCHANGED <<clock, resets>>
  PROVE  AbstractBucket!Take
<1> USE ConstantsAssumption, NoBucketAssumption
<1> DEFINE r == Refilled(t)
           ahead == Limit * (clock + Skew - t)
           new == IF r >= n THEN r - n ELSE r
           out == IF r >= n THEN n ELSE 0
           paid == total' - total
<1>1. /\ r \in Int /\ ahead \in Nat
      /\ Window * r + ahead <= Credit
  BY RefilledWithinCredit
<1>2. n \in Nat \ {0} /\ total \in Nat /\ lastGrant \in Nat /\ clock \in Nat
  BY DEF IndInv, TypeOK
<1>3. Credit \in Int /\ Capacity \in Int BY CreditType
<1>4. /\ bucket' = [tokens |-> new, last_refill |-> t]
      /\ total' = total + (IF answered THEN out ELSE 0)
      /\ lastGrant' \in {lastGrant, clock}
      /\ r >= n => lastGrant' = clock
  <2>1. \/ /\ r >= n
           /\ bucket' = [tokens |-> r - n, last_refill |-> t]
           /\ total' = total + (IF answered THEN n ELSE 0)
           /\ lastGrant' = clock
        \/ /\ r < n
           /\ bucket' = [tokens |-> r, last_refill |-> t]
           /\ total' = total
           /\ lastGrant' \in {lastGrant, clock}
    BY DEF Script, Store
  <2> HIDE DEF r
  <2> QED BY <1>1, <1>2, <2>1
<1>5. ~Fresh'
  <2>1. bucket' \in Bucket BY <1>1, <1>2, <1>4 DEF Bucket
  <2> QED BY <2>1 DEF Fresh
<1>6. Credit' = Smaller(Capacity, Window * new + ahead)
  <2>1. bucket'.tokens = new /\ bucket'.last_refill = t BY <1>4
  <2>2. Limit * (clock' + Skew - bucket'.last_refill) = ahead BY <2>1
  <2>3. Capacity' = Capacity BY DEF Capacity
  <2> HIDE DEF new, ahead
  <2> QED BY <1>5, <2>1, <2>2, <2>3 DEF Credit, Smaller
<1>7. new \in Int /\ out \in Nat /\ new + out = r /\ (r >= n => new >= 0)
      /\ (r < n => out = 0)
  BY <1>1, <1>2
<1>8. paid \in Nat /\ paid <= out /\ (paid > 0 => r >= n)
  BY <1>2, <1>4, <1>7
<1> HIDE DEF r, ahead, new, out, paid
<1>9. /\ Window * new + Window * out = Window * r /\ Window * paid <= Window * out
      /\ Window * new \in Int /\ Window * out \in Int /\ Window * paid \in Int
  <2>1. Window * new + Window * out = Window * (new + out) BY <1>7
  <2> QED BY <1>7, <1>8, <2>1
<1>10. Credit' <= Credit - Window * paid BY <1>1, <1>3, <1>6, <1>9 DEF Smaller
<1>11. paid > 0 => Window * paid <= Credit /\ lastGrant' = clock
  <2> SUFFICES ASSUME paid > 0 PROVE Window * paid <= Credit /\ lastGrant' = clock OBVIOUS
  <2>1. r >= n BY <1>8
  <2>2. Window * new >= 0 BY <1>7, <2>1
  <2> QED BY <1>1, <1>3, <1>4, <1>9, <2>1, <2>2
<1> QED BY <1>4, <1>8, <1>10, <1>11 DEF AbstractBucket!Take, paid

\* A second adds its credit, and a key that ends is a bucket that is forgotten.
LEMMA TickRefills == ASSUME IndInv, RecentInv, Tick PROVE AbstractBucket!Tick
<1> USE ConstantsAssumption
<1>1. clock \in Nat /\ clock' = clock + 1 /\ UNCHANGED <<total, lastGrant, resets>>
  BY DEF Tick, IndInv, TypeOK
<1>2. Credit \in Int /\ Capacity \in Int /\ Capacity' = Capacity BY CreditType DEF Capacity
<1>3. CASE Fresh
  <2>1. Fresh' BY <1>3 DEF Tick, Fresh
  <2>2. Credit' = Capacity /\ Credit = Capacity BY <1>2, <1>3, <2>1 DEF Credit
  <2>3. AbstractBucket!Refill BY <1>2, <2>2 DEF AbstractBucket!Refill
  <2> QED BY <1>1, <2>3 DEF AbstractBucket!Tick
<1>4. CASE ~Fresh /\ expires <= clock'
  <2>1. Fresh' BY <1>4 DEF Tick, Fresh
  <2>2. Credit' = Capacity BY <1>2, <2>1 DEF Credit
  <2>3. lastGrant + 2 * Window <= clock'
    BY <1>1, <1>4 DEF RecentInv, KeyOutlivesGrant, IndInv, TypeOK
  <2>4. AbstractBucket!Forget BY <2>2, <2>3 DEF AbstractBucket!Forget
  <2> QED BY <1>1, <2>4 DEF AbstractBucket!Tick
<1>5. CASE ~Fresh /\ ~(expires <= clock')
  <2> DEFINE level == Window * bucket.tokens + Limit * (clock + Skew - bucket.last_refill)
             later == Window * bucket.tokens + Limit * (clock' + Skew - bucket.last_refill)
  <2>1. bucket' = bucket BY <1>5 DEF Tick
  <2>2. Credit = Smaller(Capacity, level) BY <1>5 DEF Credit
  <2>3. Credit' = Smaller(Capacity, later) BY <1>2, <1>5, <2>1 DEF Credit, Fresh, Smaller
  <2>4. bucket.tokens \in Int /\ bucket.last_refill \in Int
    BY <1>5 DEF IndInv, TypeOK, Fresh, Bucket
  <2>5. level \in Int /\ later = level + Limit BY <1>1, <2>4
  <2> HIDE DEF level, later
  <2>6. AbstractBucket!Refill
    BY <1>2, <2>2, <2>3, <2>5 DEF AbstractBucket!Refill, Smaller
  <2> QED BY <1>1, <2>6 DEF AbstractBucket!Tick
<1> QED BY <1>3, <1>4, <1>5

\* Every step of the limiter is one of the abstract bucket, or nothing it sees.
LEMMA NextMaps ==
  ASSUME IndInv, RecentInv, [Next]_vars
  PROVE  [AbstractBucket!Take \/ AbstractBucket!Tick \/ AbstractBucket!Reset]_
           <<clock, Credit, total, lastGrant, resets>>
<1> USE ConstantsAssumption
<1>1. ASSUME NEW c \in Clients, Eval(c) \/ Resend(c) PROVE AbstractBucket!Take
  <2>1. PICK n \in Requests, answered \in BOOLEAN : Script(stamp[c], n, answered)
    BY <1>1 DEF Eval, Resend
  <2>2. /\ stamp[c] \in Int /\ stamp[c] <= clock + Skew
        /\ clock - Skew - MaxDelay <= stamp[c]
    <3>1. asked[c] # -1 BY <1>1 DEF Eval, Resend
    <3>2. asked[c] \in Nat /\ stamp[c] \in Int /\ clock \in Nat
      BY <3>1 DEF IndInv, TypeOK
    <3>3. /\ clock <= asked[c] + MaxDelay
          /\ asked[c] - Skew <= stamp[c]
      BY <3>1 DEF RecentInv, StampsRecent
    <3>4. stamp[c] <= clock + Skew BY DEF IndInv, StampsBounded
    <3> QED BY <3>2, <3>3, <3>4
  <2>3. UNCHANGED <<clock, resets>> BY <1>1 DEF Eval, Resend, Done
  <2> QED BY <2>1, <2>2, <2>3, ScriptTakes
<1>2. CASE Reset
  <2>1. Credit' = Capacity BY <1>2 DEF Reset, Credit, Fresh, Capacity
  <2> QED BY <1>2, <2>1 DEF Reset, AbstractBucket!Reset
<1>3. ASSUME NEW c \in Clients, Ask(c) \/ EvalFails(c)
      PROVE UNCHANGED <<clock, Credit, total, lastGrant, resets>>
  BY <1>3 DEF Ask, EvalFails, Done, Credit, Fresh, Capacity, Smaller
<1>4. CASE UNCHANGED vars BY <1>4 DEF vars, Credit, Fresh, Capacity, Smaller
<1> QED BY <1>1, <1>2, <1>3, <1>4, TickRefills DEF Next

\* The limiter implements TokenBucket: whatever calls are late, sent twice or out of
\* order, and however far clocks are off, between any two moments it grants no more
\* than a bucket with that much more capacity.
THEOREM LimiterIsBucket == Spec => ImplementsBucket
<1>1. Init => AbstractBucket!Init
  BY DEF Init, AbstractBucket!Init, Credit, Fresh
<1>2. Init => RecentInv
  BY DEF Init, RecentInv, StampsRecent, KeyOutlivesGrant, Fresh
<1>3. IndInv /\ RecentInv /\ [Next]_vars => RecentInv' BY RecentNext
<1>4. IndInv /\ RecentInv /\ [Next]_vars =>
        [AbstractBucket!Take \/ AbstractBucket!Tick \/ AbstractBucket!Reset]_
          <<clock, Credit, total, lastGrant, resets>>
  BY NextMaps
<1> QED
  BY <1>1, <1>2, <1>3, <1>4, Inductive, PTL DEF Spec, ImplementsBucket, AbstractBucket!Spec

=============================================================================
