---------------------------- MODULE TokenBucket ----------------------------
(***************************************************************************)
(* TokenBucketRateLimiter of crates/wasm-plugin/src/plugins.rs.  A call of *)
(* check_rate_limit works on its bucket under the map's entry lock, reads  *)
(* the clock inside it, refills, and then takes its weight or computes how *)
(* long to wait; rate_limit_result turns that wait into whole seconds.     *)
(*                                                                         *)
(* Time advances in ticks of 1/TicksPerSecond seconds and tokens are       *)
(* counted in the same fraction, so that the refill elapsed * rate is the  *)
(* exact integer (now - last) * rate (the code's f64 rounds it).           *)
(***************************************************************************)
EXTENDS Integers

CONSTANTS Clients,          \* callers of the limiter
          Keys,             \* bucket keys (an API key, a route, ...)
          Weights,          \* weights a call may have
          Rates,            \* tokens per second a limiter may be built with
          Bursts,           \* burst sizes a limiter may be built with
          TicksPerSecond,
          MaxTime           \* bound: the last tick that is explored

ASSUME BucketAssumption ==
    /\ Keys # {}
    /\ Weights \subseteq Nat /\ Rates \subseteq Nat /\ Bursts \subseteq Nat
    /\ TicksPerSecond \in Nat \ {0}
    /\ MaxTime \in Nat

VARIABLES rate, burst,  \* default_rate and default_burst, fixed by new
          now,          \* the clock, in ticks
          known,        \* the keys that have a bucket
          tokens,       \* tokens[k], in fractions of a token
          last,         \* last[k]: last_refill
          reply,        \* reply[c]: what c's last call returned, and when; its wait
                        \* is short / rate ticks
          disturbed,    \* history: another call took tokens of reply[c].key since
          mark, spent   \* history: tokens taken from k since the time mark[k]

bucketVars == <<rate, burst, now, known, tokens, last, reply, disturbed, mark, spent>>

Scaled(n) == n * TicksPerSecond      \* n tokens, in fractions
Smaller(a, b) == IF a <= b THEN a ELSE b

Kinds == {"none", "admitted", "limited", "panicked"}
NoReply == [kind |-> "none", key |-> CHOOSE k \in Keys : TRUE, weight |-> 0, at |-> 0, short |-> 0]

BucketInit ==
    /\ rate \in Rates /\ burst \in Bursts
    /\ now = 0
    /\ known = {}
    /\ tokens = [k \in Keys |-> 0]
    /\ last = [k \in Keys |-> 0]
    /\ reply = [c \in Clients |-> NoReply]
    /\ disturbed = [c \in Clients |-> FALSE]
    /\ mark = [k \in Keys |-> 0]
    /\ spent = [k \in Keys |-> 0]

-----------------------------------------------------------------------------
(* What a call finds after or_insert_with and the refill.                   *)
RefilledWithoutCap(k) ==             \* mutant: drops the min with the burst
    IF k \in known THEN tokens[k] + (now - last[k]) * rate ELSE Scaled(burst)

RefilledBySeconds(k) ==              \* mutant: as_secs for as_secs_f64
    IF k \in known
    THEN Smaller(tokens[k] + Scaled((now - last[k]) \div TicksPerSecond) * rate, Scaled(burst))
    ELSE Scaled(burst)

Refilled(k) ==
    IF k \in known THEN Smaller(tokens[k] + (now - last[k]) * rate, Scaled(burst))
                   ELSE Scaled(burst)

(* The wait of a call that is d fractions short, for rate > 0, is d / rate  *)
(* ticks: this is the first tick at which it is over.                       *)
WaitFor(d) == (d + rate - 1) \div rate

(* PluginAction::RateLimit { retry_after_secs: retry_after.as_secs() }, the *)
(* whole seconds of that wait.                                              *)
RetryAfterSecs(d) == d \div Scaled(rate)

TouchKeepsLast(k, left) ==           \* mutant: forgets last_refill = now
    /\ last' = IF k \in known THEN last ELSE [last EXCEPT ![k] = now]
    /\ known' = known \cup {k}
    /\ tokens' = [tokens EXCEPT ![k] = left]

Touch(k, left) ==
    /\ known' = known \cup {k}
    /\ tokens' = [tokens EXCEPT ![k] = left]
    /\ last' = [last EXCEPT ![k] = now]

Answer(c, k, w, kind, short) ==
    /\ reply' = [reply EXCEPT ![c] =
                    [kind |-> kind, key |-> k, weight |-> w, at |-> now, short |-> short]]
    /\ disturbed' = [d \in Clients |->
                        IF d = c THEN FALSE
                        ELSE disturbed[d] \/ (reply[d].key = k /\ kind = "admitted" /\ w > 0)]

Admit(c, k, w) ==
    /\ Refilled(k) >= Scaled(w)
    /\ Touch(k, Refilled(k) - Scaled(w))
    /\ Answer(c, k, w, "admitted", 0)
    /\ spent' = [spent EXCEPT ![k] = @ + Scaled(w)]
    /\ UNCHANGED <<rate, burst, now, mark>>

Limit(c, k, w) ==
    /\ Refilled(k) < Scaled(w)
    /\ rate > 0
    /\ Touch(k, Refilled(k))
    /\ Answer(c, k, w, "limited", Scaled(w) - Refilled(k))
    /\ UNCHANGED <<rate, burst, now, mark, spent>>

(* Duration::from_secs_f64 of the infinite quotient: the call unwinds after *)
(* the refill was stored, and gives the entry back.                         *)
PanicOnZeroRate(c, k, w) ==
    /\ Refilled(k) < Scaled(w)
    /\ rate = 0
    /\ Touch(k, Refilled(k))
    /\ Answer(c, k, w, "panicked", 0)
    /\ UNCHANGED <<rate, burst, now, mark, spent>>

CheckRateLimit(c, k, w) ==
    Admit(c, k, w) \/ Limit(c, k, w) \/ PanicOnZeroRate(c, k, w)

Tick ==
    /\ now < MaxTime
    /\ now' = now + 1
    /\ UNCHANGED <<rate, burst, known, tokens, last, reply, disturbed, mark, spent>>

(* History only: an observer starts to add up what key k takes.             *)
StartWindow(k) ==
    /\ mark[k] < now
    /\ mark' = [mark EXCEPT ![k] = now]
    /\ spent' = [spent EXCEPT ![k] = 0]
    /\ UNCHANGED <<rate, burst, now, known, tokens, last, reply, disturbed>>

BucketNext ==
    \/ \E c \in Clients, k \in Keys, w \in Weights : CheckRateLimit(c, k, w)
    \/ Tick
    \/ \E k \in Keys : StartWindow(k)

BucketSpec == BucketInit /\ [][BucketNext]_bucketVars

-----------------------------------------------------------------------------
(* The shape of the limiter's state (plugins.rs:10-21).                     *)
BucketTypeOK ==
    /\ rate \in Rates /\ burst \in Bursts
    /\ now \in Nat
    /\ known \in SUBSET Keys
    /\ tokens \in [Keys -> Nat]
    /\ last \in [Keys -> Nat]
    /\ reply \in [Clients -> [kind : Kinds, key : Keys, weight : Nat, at : Nat, short : Nat]]
    /\ disturbed \in [Clients -> BOOLEAN]
    /\ mark \in [Keys -> Nat]
    /\ spent \in [Keys -> Nat]

(* The promise of a token bucket: in every window of time, whenever it      *)
(* starts, a key is admitted no more than the burst and what the rate       *)
(* refills during the window, over any sequence of calls by any clients.    *)
AdmittedWithinRate ==
    \A k \in Keys : spent[k] <= Scaled(burst) + rate * (now - mark[k])

(* A client that was limited, whose wait is over and of whose key no other  *)
(* call took tokens meanwhile (its weight does not exceed the burst, which  *)
(* no wait can cure).                                                       *)
Waited(c, wait) ==
    LET p == reply[c] IN
        p.kind = "limited" /\ ~disturbed[c] /\ p.weight <= burst /\ now >= p.at + wait

(* The wait that check_rate_limit returns is long enough: the call is then  *)
(* admitted.  The seconds that rate_limit_result tells are cut off, so that *)
(* a client that obeys them may be limited again, but by less than what one *)
(* second refills.                                                          *)
WaitSuffices ==
    \A c \in Clients : LET p == reply[c] IN
        /\ Waited(c, WaitFor(p.short)) => Refilled(p.key) >= Scaled(p.weight)
        /\ Waited(c, Scaled(RetryAfterSecs(p.short))) =>
               Refilled(p.key) + Scaled(rate) > Scaled(p.weight)

(* A refill never goes backwards or past the burst.                         *)
TokensWithinBurst == \A k \in known : tokens[k] <= Scaled(burst) /\ last[k] <= now

(* The inductive strengthening of AdmittedWithinRate: what was spent plus   *)
(* what could be spent now stays within the window's allowance.             *)
WindowInv ==
    /\ BucketTypeOK
    /\ TokensWithinBurst
    /\ \A k \in Keys : /\ mark[k] <= now
                       /\ spent[k] + Refilled(k) <= Scaled(burst) + rate * (now - mark[k])
=============================================================================
