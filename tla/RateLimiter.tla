----------------------------- MODULE RateLimiter -----------------------------
(***************************************************************************)
(* The gateway's TokenBucketRateLimiter: one bucket per client, refilled   *)
(* by the wall clock when the client asks, each request taking Cost        *)
(* tokens.  allow() runs under the limiter's lock and is one step.  The    *)
(* clock is time.time(), which an adjustment may also set back.  Tokens    *)
(* are counted in the smallest unit that Rate, Capacity and Cost share.    *)
(***************************************************************************)
EXTENDS Integers

CONSTANTS Clients,
          Rate,      \* tokens per tick of the clock
          Capacity,  \* tokens of a full bucket
          Cost,      \* tokens that a request takes
          Clock      \* the values the clock may take

ASSUME RatesAssumption == Rate \in Nat /\ Capacity \in Nat /\ Cost \in Nat
ASSUME ClockAssumption == Clock \subseteq Int

VARIABLES now,      \* time.time()
          known,    \* the clients that have a bucket
          tokens,   \* self.tokens
          last,     \* self.last_update
          low,      \* history: the lowest and the highest reading of the clock
          high,     \* ... since an observer began to count
          granted,  \* ... and the requests it has seen allowed
          full,     \* history: the reading at which a bucket was last full
          spent     \* ... and the requests allowed since

buckets == <<known, tokens, last>>
window == <<low, high, granted>>
filling == <<full, spent>>
limiter == <<now, buckets, window, filling>>

PerClient == [Clients -> Int]
Zero == [c \in Clients |-> 0]

LimiterInit == /\ now \in Clock /\ low = now /\ high = now
               /\ known = {} /\ tokens = Zero /\ last = Zero
               /\ granted = Zero /\ full = Zero /\ spent = Zero
-----------------------------------------------------------------------------
Smaller(x, y) == IF x < y THEN x ELSE y
Larger(x, y) == IF x < y THEN y ELSE x

(* What the bucket holds once the time since its last use is credited; a   *)
(* new bucket is full.                                                     *)
Refilled(c) == IF c \in known
               THEN Smaller(Capacity, tokens[c] + (now - last[c]) * Rate)
               ELSE Capacity

(* Mutant: a refill is credited but not remembered when it is refused.     *)
Touch_OnlyGrants(c) ==
    /\ known' = known \cup {c}
    /\ last' = IF c \in known /\ Refilled(c) < Cost THEN last
               ELSE [last EXCEPT ![c] = now]

Touch(c) == known' = known \cup {c} /\ last' = [last EXCEPT ![c] = now]

(* History: a bucket that is full has spent nothing.                       *)
Spend(c, n) ==
    IF Refilled(c) = Capacity
    THEN full' = [full EXCEPT ![c] = now] /\ spent' = [spent EXCEPT ![c] = n]
    ELSE full' = full /\ spent' = [spent EXCEPT ![c] = @ + n]

Allow(c) == /\ Refilled(c) >= Cost
            /\ tokens' = [tokens EXCEPT ![c] = Refilled(c) - Cost]
            /\ Touch(c)
            /\ granted' = [granted EXCEPT ![c] = @ + 1] /\ Spend(c, 1)
            /\ UNCHANGED <<now, low, high>>

(* Mutant: the refill is stored only when the request is allowed.          *)
Refuse_Unstored(c) == /\ Refilled(c) < Cost
                      /\ Touch(c)
                      /\ Spend(c, 0)
                      /\ UNCHANGED <<now, tokens, window>>

Refuse(c) == /\ Refilled(c) < Cost
             /\ tokens' = [tokens EXCEPT ![c] = Refilled(c)]
             /\ Touch(c)
             /\ Spend(c, 0)
             /\ UNCHANGED <<now, window>>

(* Time passes, or the clock is set back.                                  *)
Tick == /\ now' \in Clock
        /\ low' = Smaller(low, now') /\ high' = Larger(high, now')
        /\ UNCHANGED <<buckets, granted, filling>>

(* An observer begins to count, at any moment.                             *)
Observe == /\ low' = now /\ high' = now /\ granted' = Zero
           /\ UNCHANGED <<now, buckets, filling>>

LimiterNext == Tick \/ Observe \/ \E c \in Clients : Allow(c) \/ Refuse(c)

LimiterSpec == LimiterInit /\ [][LimiterNext]_limiter
-----------------------------------------------------------------------------
(* The type of the limiter's dictionaries and of the history; no bucket    *)
(* holds more than its capacity.                                           *)
LimiterTypeOK == /\ {now, low, high} \subseteq Clock
                 /\ known \subseteq Clients
                 /\ tokens \in PerClient /\ \A c \in Clients : tokens[c] <= Capacity
                 /\ last \in PerClient
                 /\ granted \in [Clients -> Nat]
                 /\ full \in PerClient /\ spent \in [Clients -> Nat]

(* In whatever interval of time a client is watched, it is allowed no more *)
(* than a full bucket and what the clock adds over the interval, refused   *)
(* requests, other clients and a clock that is set back notwithstanding.   *)
WindowBound ==
    \A c \in Clients : granted[c] * Cost <= Capacity + (high - low) * Rate

(* A client is refused only when it has used up what it was due: since its *)
(* bucket was last full it was allowed so much that another request would  *)
(* pass a full bucket and what the clock has added.                        *)
RefusedWhenUsedUp ==
    [][\A c \in Clients : Refuse(c) /\ c \in known /\ Cost <= Capacity =>
          (spent[c] + 1) * Cost > Capacity + (now - full[c]) * Rate]_limiter
=============================================================================
