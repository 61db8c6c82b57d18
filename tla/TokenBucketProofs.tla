------------------------- MODULE TokenBucketProofs -------------------------
EXTENDS TokenBucket, TLAPS

(* Products of naturals that the refill is made of.                         *)
LEMMA ScaledType == \A n \in Nat : Scaled(n) \in Nat
BY BucketAssumption DEF Scaled

LEMMA RefillStep ==
    ASSUME NEW r \in Nat, NEW d \in Nat
    PROVE  d * r \in Nat /\ r * d \in Nat /\ d * r = r * d
           /\ (d + 1) * r = d * r + r /\ r * (d + 1) = r * d + r
OBVIOUS

LEMMA RefilledType ==
    ASSUME BucketTypeOK, TokensWithinBurst, NEW k \in Keys
    PROVE  Refilled(k) \in Nat /\ Refilled(k) <= Scaled(burst)
<1>1. /\ rate \in Nat /\ burst \in Nat /\ tokens[k] \in Nat /\ now \in Nat /\ last[k] \in Nat
  BY BucketAssumption DEF BucketTypeOK
<1>2. Scaled(burst) \in Nat
  BY <1>1, ScaledType
<1>3. k \in known => now - last[k] \in Nat
  BY <1>1 DEF TokensWithinBurst
<1>4. k \in known => (now - last[k]) * rate \in Nat
  BY <1>1, <1>3, RefillStep
<1> QED BY <1>1, <1>2, <1>4 DEF Refilled, Smaller

-----------------------------------------------------------------------------
(* Storing tokens for k that fit in the bucket: k now has exactly these     *)
(* tokens to spend, and the other keys what they had.                       *)
LEMMA TouchRefilled ==
    ASSUME BucketTypeOK, TokensWithinBurst, UNCHANGED <<rate, burst, now>>,
           NEW k \in Keys, NEW left \in Nat, left <= Scaled(burst), Touch(k, left)
    PROVE  /\ Refilled(k)' = left
           /\ \A j \in Keys : j # k => Refilled(j)' = Refilled(j)
           /\ TokensWithinBurst'
<1>1. /\ known' = known \cup {k} /\ tokens'[k] = left /\ last'[k] = now
      /\ \A j \in Keys : j # k => tokens'[j] = tokens[j] /\ last'[j] = last[j]
      /\ known \subseteq Keys
      /\ now \in Nat /\ rate \in Nat /\ burst \in Nat
  BY BucketAssumption DEF Touch, BucketTypeOK
<1>2. (now - now) * rate = 0
  BY <1>1
<1>3. Scaled(burst)' = Scaled(burst) /\ Scaled(burst) \in Nat
  BY <1>1, ScaledType
<1>4. Refilled(k)' = Smaller(left + (now - now) * rate, Scaled(burst))
  BY <1>1, <1>3 DEF Refilled
<1>5. Refilled(k)' = left
  BY <1>2, <1>3, <1>4 DEF Smaller
<1>6. ASSUME NEW j \in Keys, j # k PROVE Refilled(j)' = Refilled(j)
  BY <1>1, <1>3, <1>6 DEF Refilled
<1>7. TokensWithinBurst'
  BY <1>1, <1>3 DEF TokensWithinBurst
<1> QED BY <1>5, <1>6, <1>7

LEMMA AnswerType ==
    ASSUME BucketTypeOK, NEW c \in Clients, NEW k \in Keys, NEW w \in Weights,
           NEW kind \in Kinds, NEW short \in Nat, Answer(c, k, w, kind, short)
    PROVE  /\ reply' \in [Clients -> [kind : Kinds, key : Keys, weight : Nat, at : Nat, short : Nat]]
           /\ disturbed' \in [Clients -> BOOLEAN]
<1>1. [kind |-> kind, key |-> k, weight |-> w, at |-> now, short |-> short]
         \in [kind : Kinds, key : Keys, weight : Nat, at : Nat, short : Nat]
  BY BucketAssumption DEF BucketTypeOK
<1>2. disturbed' \in [Clients -> BOOLEAN]
  BY DEF Answer, BucketTypeOK
<1>3. reply' = [reply EXCEPT ![c] =
                  [kind |-> kind, key |-> k, weight |-> w, at |-> now, short |-> short]]
  BY DEF Answer
<1> QED BY <1>1, <1>2, <1>3 DEF BucketTypeOK

(* What every call does: it leaves at most what it found, and the tokens it *)
(* takes are the ones the window is charged with.                           *)
LEMMA CheckStep ==
    ASSUME WindowInv, NEW c \in Clients, NEW k \in Keys, NEW w \in Weights,
           CheckRateLimit(c, k, w)
    PROVE  WindowInv'
<1> USE DEF WindowInv
<1>1. /\ UNCHANGED <<rate, burst, now, mark>>
      /\ w \in Nat /\ Scaled(w) \in Nat /\ Scaled(burst) \in Nat
      /\ Refilled(k) \in Nat /\ Refilled(k) <= Scaled(burst)
      /\ rate \in Nat /\ now \in Nat /\ spent \in [Keys -> Nat]
  BY BucketAssumption, ScaledType, RefilledType
  DEF CheckRateLimit, Admit, Limit, PanicOnZeroRate, BucketTypeOK
<1>2. PICK left \in Nat, kind \in Kinds, short \in Nat :
         /\ left <= Refilled(k)
         /\ Touch(k, left)
         /\ Answer(c, k, w, kind, short)
         /\ spent' = [spent EXCEPT ![k] = @ + (Refilled(k) - left)]
  <2>1. CASE Admit(c, k, w)
    <3>1. Refilled(k) - Scaled(w) \in Nat /\ Refilled(k) - (Refilled(k) - Scaled(w)) = Scaled(w)
      BY <1>1, <2>1 DEF Admit
    <3> DEFINE rest == Refilled(k) - Scaled(w)
    <3>2. rest \in Nat /\ rest <= Refilled(k)
      BY <1>1, <3>1
    <3>3. Touch(k, rest) /\ Answer(c, k, w, "admitted", 0)
      BY <2>1 DEF Admit
    <3>4. spent' = [spent EXCEPT ![k] = @ + (Refilled(k) - rest)]
      BY <2>1, <3>1 DEF Admit
    <3> HIDE DEF rest
    <3> QED BY <3>2, <3>3, <3>4 DEF Kinds
  <2>2. CASE Limit(c, k, w)
    <3>1. Scaled(w) - Refilled(k) \in Nat
      BY <1>1, <2>2 DEF Limit
    <3>2. spent' = [spent EXCEPT ![k] = @ + (Refilled(k) - Refilled(k))]
      BY <1>1, <2>2 DEF Limit
    <3> QED BY <1>1, <2>2, <3>1, <3>2 DEF Limit, Kinds
  <2>3. CASE PanicOnZeroRate(c, k, w)
    <3>1. spent' = [spent EXCEPT ![k] = @ + (Refilled(k) - Refilled(k))]
      BY <1>1, <2>3 DEF PanicOnZeroRate
    <3> QED BY <1>1, <2>3, <3>1 DEF PanicOnZeroRate, Kinds
  <2> QED BY <2>1, <2>2, <2>3 DEF CheckRateLimit
<1>3. /\ Refilled(k)' = left
      /\ \A j \in Keys : j # k => Refilled(j)' = Refilled(j)
      /\ TokensWithinBurst'
  BY <1>1, <1>2, TouchRefilled
<1>4. BucketTypeOK'
  <2>1. spent' \in [Keys -> Nat]
    <3>1. Refilled(k) - left \in Nat
      BY <1>1, <1>2
    <3> QED BY <1>1, <1>2, <3>1
  <2>2. /\ reply' \in [Clients -> [kind : Kinds, key : Keys, weight : Nat, at : Nat, short : Nat]]
        /\ disturbed' \in [Clients -> BOOLEAN]
    BY <1>2, AnswerType
  <2>3. known' \in SUBSET Keys /\ tokens' \in [Keys -> Nat] /\ last' \in [Keys -> Nat]
    BY <1>1, <1>2 DEF Touch, BucketTypeOK
  <2> QED BY <1>1, <2>1, <2>2, <2>3 DEF BucketTypeOK
<1>5. ASSUME NEW j \in Keys
      PROVE  mark'[j] <= now' /\ spent'[j] + Refilled(j)' <= Scaled(burst)' + rate' * (now' - mark'[j])
  <2>1. /\ mark[j] <= now /\ spent[j] + Refilled(j) <= Scaled(burst) + rate * (now - mark[j])
        /\ spent[j] \in Nat /\ Refilled(j) \in Nat
    BY <1>1, RefilledType
  <2>2. Scaled(burst)' + rate' * (now' - mark'[j]) = Scaled(burst) + rate * (now - mark[j])
    BY <1>1
  <2>3. spent'[j] + Refilled(j)' = spent[j] + Refilled(j)
    BY <1>1, <1>2, <1>3, <2>1
  <2> QED BY <1>1, <2>1, <2>2, <2>3
<1> QED BY <1>3, <1>4, <1>5

(* Time passes: each bucket may gain one tick's refill, and so may the      *)
(* window.                                                                  *)
LEMMA TickStep == WindowInv /\ Tick => WindowInv'
<1> SUFFICES ASSUME WindowInv, Tick PROVE WindowInv'
  OBVIOUS
<1> USE DEF WindowInv
<1>1. /\ now' = now + 1 /\ now \in Nat
      /\ UNCHANGED <<rate, burst, known, tokens, last, reply, disturbed, mark, spent>>
      /\ rate \in Nat /\ burst \in Nat /\ Scaled(burst) \in Nat /\ Scaled(burst)' = Scaled(burst)
  BY BucketAssumption, ScaledType DEF Tick, BucketTypeOK
<1>2. BucketTypeOK' /\ TokensWithinBurst'
  BY <1>1 DEF BucketTypeOK, TokensWithinBurst
<1>3. ASSUME NEW k \in Keys
      PROVE  mark'[k] <= now' /\ spent'[k] + Refilled(k)' <= Scaled(burst)' + rate' * (now' - mark'[k])
  <2>1. /\ mark[k] <= now /\ spent[k] + Refilled(k) <= Scaled(burst) + rate * (now - mark[k])
        /\ mark[k] \in Nat /\ spent[k] \in Nat /\ Refilled(k) \in Nat
        /\ tokens[k] \in Nat /\ last[k] \in Nat
    BY RefilledType DEF BucketTypeOK
  <2>2. /\ now' - mark'[k] = (now - mark[k]) + 1 /\ now - mark[k] \in Nat
        /\ rate * ((now - mark[k]) + 1) = rate * (now - mark[k]) + rate
        /\ rate * (now - mark[k]) \in Nat
    BY <1>1, <2>1, RefillStep
  <2>3. Refilled(k)' \in Nat /\ Refilled(k)' <= Refilled(k) + rate
    <3>1. CASE k \notin known
      BY <1>1, <2>1, <3>1 DEF Refilled
    <3>2. CASE k \in known
      <4>1. now - last[k] \in Nat /\ now' - last'[k] = (now - last[k]) + 1
        <5>1. last[k] <= now /\ last'[k] = last[k]
          BY <1>1, <3>2 DEF TokensWithinBurst
        <5> HIDE DEF WindowInv
        <5>2. now - last[k] \in Nat
          BY <1>1, <2>1, <5>1
        <5>3. now' - last'[k] = (now + 1) - last[k]
          BY <1>1, <5>1
        <5> QED BY <1>1, <2>1, <5>2, <5>3
      <4>2. /\ ((now - last[k]) + 1) * rate = (now - last[k]) * rate + rate
            /\ (now - last[k]) * rate \in Nat
        BY <1>1, <4>1, RefillStep
      <4>3. Refilled(k)' = Smaller(tokens[k] + (now - last[k]) * rate + rate, Scaled(burst))
        BY <1>1, <2>1, <3>2, <4>1, <4>2 DEF Refilled
      <4>4. Refilled(k) = Smaller(tokens[k] + (now - last[k]) * rate, Scaled(burst))
        BY <3>2 DEF Refilled
      <4> QED BY <1>1, <2>1, <4>2, <4>3, <4>4 DEF Smaller
    <3> QED BY <3>1, <3>2
  <2>4. mark'[k] = mark[k] /\ spent'[k] = spent[k] /\ rate' = rate
    BY <1>1
  <2>5. rate' * (now' - mark'[k]) = rate * (now - mark[k]) + rate
    BY <2>2, <2>4
  <2> QED BY <1>1, <2>1, <2>2, <2>3, <2>4, <2>5
<1> QED BY <1>2, <1>3

(* A window that starts now starts with nothing spent and at most a burst   *)
(* to spend.                                                                *)
LEMMA WindowStep ==
    ASSUME WindowInv, NEW k \in Keys, StartWindow(k)
    PROVE  WindowInv'
<1> USE DEF WindowInv
<1>1. /\ UNCHANGED <<rate, burst, now, known, tokens, last, reply, disturbed>>
      /\ mark' = [mark EXCEPT ![k] = now] /\ spent' = [spent EXCEPT ![k] = 0]
      /\ rate \in Nat /\ now \in Nat /\ Scaled(burst)' = Scaled(burst) /\ Scaled(burst) \in Nat
      /\ mark \in [Keys -> Nat] /\ spent \in [Keys -> Nat]
  BY BucketAssumption, ScaledType DEF StartWindow, BucketTypeOK
<1>2. BucketTypeOK' /\ TokensWithinBurst'
  BY <1>1 DEF BucketTypeOK, TokensWithinBurst
<1>3. ASSUME NEW j \in Keys
      PROVE  mark'[j] <= now' /\ spent'[j] + Refilled(j)' <= Scaled(burst)' + rate' * (now' - mark'[j])
  <2>1. Refilled(j)' = Refilled(j) /\ Refilled(j) \in Nat /\ Refilled(j) <= Scaled(burst)
    BY <1>1, RefilledType DEF Refilled
  <2>2. CASE j = k
    <3>1. mark'[j] = now /\ spent'[j] = 0 /\ rate' * (now' - mark'[j]) = 0
      BY <1>1, <2>2
    <3> QED BY <1>1, <2>1, <3>1
  <2>3. CASE j # k
    <3>1. mark'[j] = mark[j] /\ spent'[j] = spent[j]
      BY <1>1, <2>3
    <3>2. rate' * (now' - mark'[j]) = rate * (now - mark[j])
      BY <1>1, <3>1
    <3> QED BY <1>1, <2>1, <3>1, <3>2
  <2> QED BY <2>2, <2>3
<1> QED BY <1>2, <1>3

LEMMA WindowInit == BucketInit => WindowInv
<1> SUFFICES ASSUME BucketInit PROVE WindowInv
  OBVIOUS
<1>1. /\ rate \in Nat /\ burst \in Nat /\ Scaled(burst) \in Nat
      /\ now = 0 /\ known = {} /\ rate * 0 = 0
  BY BucketAssumption, ScaledType DEF BucketInit
<1>2. NoReply \in [kind : Kinds, key : Keys, weight : Nat, at : Nat, short : Nat]
  BY BucketAssumption DEF NoReply, Kinds
<1>3. BucketTypeOK
  BY <1>1, <1>2 DEF BucketInit, BucketTypeOK
<1>4. ASSUME NEW k \in Keys
      PROVE  mark[k] <= now /\ spent[k] + Refilled(k) <= Scaled(burst) + rate * (now - mark[k])
  <2>1. mark[k] = 0 /\ spent[k] = 0 /\ Refilled(k) = Scaled(burst)
    BY <1>1 DEF BucketInit, Refilled
  <2> QED BY <1>1, <2>1
<1> QED BY <1>1, <1>3, <1>4 DEF WindowInv, TokensWithinBurst

-----------------------------------------------------------------------------
(* The window invariant is inductive.                                       *)
THEOREM WindowInductive == BucketSpec => []WindowInv
<1>1. WindowInv /\ [BucketNext]_bucketVars => WindowInv'
  <2> SUFFICES ASSUME WindowInv, [BucketNext]_bucketVars PROVE WindowInv'
    OBVIOUS
  <2>1. CASE UNCHANGED bucketVars
    BY <2>1 DEF WindowInv, BucketTypeOK, TokensWithinBurst, Refilled, Scaled, Smaller, bucketVars
  <2> QED BY <2>1, CheckStep, TickStep, WindowStep DEF BucketNext
<1> QED BY WindowInit, <1>1, PTL DEF BucketSpec

(* For every rate, burst and sequence of calls, no window of time admits    *)
(* more than the burst plus the rate times its length.                      *)
THEOREM RateEnforced == BucketSpec => []AdmittedWithinRate
<1>1. WindowInv => AdmittedWithinRate
  <2> SUFFICES ASSUME WindowInv, NEW k \in Keys
               PROVE  spent[k] <= Scaled(burst) + rate * (now - mark[k])
    BY DEF AdmittedWithinRate
  <2>1. /\ Refilled(k) \in Nat /\ spent[k] \in Nat /\ rate \in Nat /\ now - mark[k] \in Nat
        /\ Scaled(burst) \in Nat
    BY BucketAssumption, RefilledType, ScaledType DEF WindowInv, BucketTypeOK
  <2>2. rate * (now - mark[k]) \in Nat
    BY <2>1, RefillStep
  <2>3. spent[k] + Refilled(k) <= Scaled(burst) + rate * (now - mark[k])
    BY DEF WindowInv
  <2> QED BY <2>1, <2>2, <2>3
<1> QED BY WindowInductive, <1>1, PTL

(* The limiter keeps its types, and its tokens stay natural numbers.        *)
THEOREM BucketTypeCorrect == BucketSpec => []BucketTypeOK
<1>1. WindowInv => BucketTypeOK
  BY DEF WindowInv
<1> QED BY WindowInductive, <1>1, PTL

-----------------------------------------------------------------------------
(* A limited call was answered r fractions of a token short of its weight;  *)
(* unless its key is disturbed it can spend r and what was refilled since.  *)
Awaits(c, r) ==
    LET p == reply[c] IN
        /\ r < Scaled(p.weight) /\ rate > 0 /\ p.at <= now
        /\ p.short = Scaled(p.weight) - r
        /\ Refilled(p.key) >= Smaller(r + (now - p.at) * rate, Scaled(burst))

WaitInv ==
    \A c \in Clients :
        reply[c].kind = "limited" /\ ~disturbed[c] => \E r \in Nat : Awaits(c, r)

(* One tick adds the rate, up to the burst.                                 *)
LEMMA TickRefills ==
    ASSUME WindowInv, Tick, NEW k \in Keys
    PROVE  Refilled(k)' = Smaller(Refilled(k) + rate, Scaled(burst))
<1>1. /\ now' = now + 1 /\ now \in Nat /\ UNCHANGED <<rate, burst, known, tokens, last>>
      /\ rate \in Nat /\ Scaled(burst) \in Nat /\ Scaled(burst)' = Scaled(burst)
      /\ tokens[k] \in Nat /\ last[k] \in Nat /\ known \subseteq Keys
  BY BucketAssumption, ScaledType DEF Tick, WindowInv, BucketTypeOK
<1>2. CASE k \notin known
  BY <1>1, <1>2 DEF Refilled, Smaller
<1>3. CASE k \in known
  <2>1. last[k] <= now /\ now' - last'[k] = (now + 1) - last[k]
    BY <1>1, <1>3 DEF WindowInv, TokensWithinBurst
  <2>2. now - last[k] \in Nat /\ now' - last'[k] = (now - last[k]) + 1
    BY <1>1, <2>1
  <2>3. /\ ((now - last[k]) + 1) * rate = (now - last[k]) * rate + rate
        /\ (now - last[k]) * rate \in Nat
    BY <1>1, <2>2, RefillStep
  <2>4. Refilled(k)' = Smaller(tokens[k] + ((now - last[k]) * rate + rate), Scaled(burst))
    BY <1>1, <1>3, <2>2, <2>3 DEF Refilled
  <2>5. Refilled(k) = Smaller(tokens[k] + (now - last[k]) * rate, Scaled(burst))
    BY <1>3 DEF Refilled
  <2> QED BY <1>1, <2>3, <2>4, <2>5 DEF Smaller
<1> QED BY <1>2, <1>3

(* A call that takes no tokens leaves every key what it had to spend, and   *)
(* one that takes some leaves the other keys what they had.                 *)
LEMMA UndisturbedKeeps ==
    ASSUME WindowInv, NEW c \in Clients, NEW k \in Keys, NEW w \in Weights,
           CheckRateLimit(c, k, w), NEW j \in Keys,
           j # k \/ w = 0 \/ ~Admit(c, k, w)
    PROVE  Refilled(j)' = Refilled(j)
<1>1. /\ UNCHANGED <<rate, burst, now>> /\ Refilled(k) \in Nat /\ Refilled(k) <= Scaled(burst)
      /\ w \in Nat /\ Scaled(w) \in Nat /\ Scaled(burst) \in Nat
  BY BucketAssumption, ScaledType, RefilledType
  DEF WindowInv, BucketTypeOK, CheckRateLimit, Admit, Limit, PanicOnZeroRate
<1>2. PICK left \in Nat : /\ left <= Refilled(k) /\ Touch(k, left)
                          /\ w = 0 \/ ~Admit(c, k, w) => left = Refilled(k)
  <2>1. CASE Admit(c, k, w)
    <3>1. Refilled(k) - Scaled(w) \in Nat /\ Refilled(k) - Scaled(w) <= Refilled(k)
      BY <1>1, <2>1 DEF Admit
    <3>2. w = 0 => Refilled(k) - Scaled(w) = Refilled(k)
      BY <1>1, BucketAssumption DEF Scaled
    <3> QED BY <2>1, <3>1, <3>2 DEF Admit
  <2>2. CASE ~Admit(c, k, w)
    BY <1>1, <2>2 DEF CheckRateLimit, Limit, PanicOnZeroRate
  <2> QED BY <2>1, <2>2
<1>3. left <= Scaled(burst)
  BY <1>1, <1>2
<1>4. Refilled(k)' = left /\ \A i \in Keys : i # k => Refilled(i)' = Refilled(i)
  BY <1>1, <1>2, <1>3, TouchRefilled DEF WindowInv
<1> QED BY <1>2, <1>4

LEMMA WaitCheckStep ==
    ASSUME WindowInv, WaitInv, NEW c \in Clients, NEW k \in Keys, NEW w \in Weights,
           CheckRateLimit(c, k, w), NEW d \in Clients,
           reply'[d].kind = "limited", ~disturbed'[d]
    PROVE  \E r \in Nat : Awaits(d, r)'
<1>1. /\ UNCHANGED <<rate, burst, now>> /\ rate \in Nat /\ now \in Nat
      /\ w \in Nat /\ Scaled(w) \in Nat /\ Scaled(burst) \in Nat /\ Scaled(burst)' = Scaled(burst)
      /\ Refilled(k) \in Nat /\ Refilled(k) <= Scaled(burst)
  BY BucketAssumption, ScaledType, RefilledType
  DEF WindowInv, BucketTypeOK, CheckRateLimit, Admit, Limit, PanicOnZeroRate
<1>2. PICK kind, short :
         /\ kind \in Kinds /\ Answer(c, k, w, kind, short)
         /\ kind = "admitted" <=> Admit(c, k, w)
         /\ kind = "limited" => Limit(c, k, w) /\ short = Scaled(w) - Refilled(k)
  BY <1>1 DEF CheckRateLimit, Admit, Limit, PanicOnZeroRate, Kinds
<1>3. CASE d = c
  <2>1. /\ reply'[d].kind = kind /\ reply'[d].key = k /\ reply'[d].weight = w
        /\ reply'[d].at = now /\ reply'[d].short = short
    BY <1>2, <1>3 DEF Answer, WindowInv, BucketTypeOK
  <2>2. /\ kind = "limited" /\ Limit(c, k, w) /\ ~Admit(c, k, w) /\ rate > 0
        /\ Refilled(k) < Scaled(w) /\ short = Scaled(w) - Refilled(k)
    BY <1>2, <2>1 DEF Limit
  <2>3. PICK r \in Nat : r = Refilled(k)
    BY <1>1
  <2>4. Refilled(k)' = r
    BY <2>2, <2>3, UndisturbedKeeps
  <2>5. (now - now) * rate = 0 /\ r + 0 = r
    BY <1>1
  <2>6. Smaller(r + (now - now) * rate, Scaled(burst)) = r
    BY <1>1, <2>3, <2>5 DEF Smaller
  <2>7. Awaits(d, r)'
    BY <1>1, <2>1, <2>2, <2>3, <2>4, <2>6 DEF Awaits, Scaled, Smaller
  <2> QED BY <2>7
<1>4. CASE d # c
  <2>1. /\ reply'[d] = reply[d] /\ ~disturbed[d]
        /\ ~(reply[d].key = k /\ kind = "admitted" /\ w > 0)
    BY <1>2, <1>4 DEF Answer, WindowInv, BucketTypeOK
  <2>2. PICK j \in Keys : reply[d].key = j
    BY DEF WindowInv, BucketTypeOK
  <2>3. Refilled(j)' = Refilled(j)
    <3>1. j # k \/ w = 0 \/ ~Admit(c, k, w)
      BY <1>1, <1>2, <2>1, <2>2
    <3> QED BY <3>1, UndisturbedKeeps
  <2>4. PICK r \in Nat : Awaits(d, r)
    BY <2>1 DEF WaitInv
  <2>5. Awaits(d, r)'
    BY <1>1, <2>1, <2>2, <2>3, <2>4 DEF Awaits, Scaled, Smaller
  <2> QED BY <2>5
<1> QED BY <1>3, <1>4

LEMMA WaitTickStep ==
    ASSUME WindowInv, WaitInv, Tick, NEW d \in Clients,
           reply'[d].kind = "limited", ~disturbed'[d]
    PROVE  \E r \in Nat : Awaits(d, r)'
<1>1. /\ now' = now + 1 /\ now \in Nat /\ UNCHANGED <<rate, burst, reply, disturbed>>
      /\ rate \in Nat /\ Scaled(burst) \in Nat
  BY BucketAssumption, ScaledType DEF Tick, WindowInv, BucketTypeOK
<1>2. PICK r \in Nat : Awaits(d, r)
  BY <1>1 DEF WaitInv
<1>3. PICK j \in Keys, at \in Nat : reply[d].key = j /\ reply[d].at = at
  BY DEF WindowInv, BucketTypeOK
<1>4. at <= now /\ Refilled(j) >= Smaller(r + (now - at) * rate, Scaled(burst))
  BY <1>2, <1>3 DEF Awaits
<1>5. Refilled(j) \in Nat /\ Refilled(j)' = Smaller(Refilled(j) + rate, Scaled(burst))
  BY RefilledType, TickRefills DEF WindowInv
<1>6. /\ now - at \in Nat /\ now' - at = (now - at) + 1
      /\ (now - at) * rate \in Nat /\ ((now - at) + 1) * rate = (now - at) * rate + rate
  BY <1>1, <1>4, RefillStep
<1>7. Refilled(j)' >= Smaller(r + (now' - at) * rate, Scaled(burst))
  BY <1>1, <1>4, <1>5, <1>6 DEF Smaller
<1> QED BY <1>1, <1>2, <1>3, <1>4, <1>7 DEF Awaits, Scaled, Smaller

LEMMA WaitStep == WindowInv /\ WaitInv /\ [BucketNext]_bucketVars => WaitInv'
<1> SUFFICES ASSUME WindowInv, WaitInv, [BucketNext]_bucketVars,
                    NEW d \in Clients, reply'[d].kind = "limited", ~disturbed'[d]
             PROVE  \E r \in Nat : Awaits(d, r)'
  BY DEF WaitInv
<1>1. CASE \E c \in Clients, k \in Keys, w \in Weights : CheckRateLimit(c, k, w)
  BY <1>1, WaitCheckStep
<1>2. CASE Tick
  BY <1>2, WaitTickStep
<1>3. CASE UNCHANGED <<rate, burst, now, known, tokens, last, reply, disturbed>>
  <2>1. PICK r \in Nat : Awaits(d, r)
    BY <1>3 DEF WaitInv
  <2> QED BY <1>3, <2>1 DEF Awaits, Refilled, Scaled, Smaller
<1> QED BY <1>1, <1>2, <1>3 DEF BucketNext, StartWindow, bucketVars

(* The two ways to read a wait.  Its ticks cover what was missing; its      *)
(* whole seconds leave less than one second's refill of it.                 *)
LEMMA WaitCovers ==
    ASSUME NEW d \in Nat, rate \in Nat, rate > 0
    PROVE  WaitFor(d) \in Nat /\ WaitFor(d) * rate >= d
<1> DEFINE q == WaitFor(d)
           m == (d + rate - 1) % rate
<1>1. /\ q \in Int /\ m \in 0..(rate - 1) /\ d + rate - 1 = rate * q + m
  BY DEF WaitFor
<1> HIDE DEF q, m
<1>2. rate * q >= d /\ rate * q = q * rate
  BY <1>1
<1>3. q \in Nat
  BY <1>1, <1>2
<1> QED BY <1>2, <1>3 DEF q

LEMMA SecondsFallShort ==
    ASSUME NEW d \in Nat, rate \in Nat, rate > 0
    PROVE  /\ Scaled(RetryAfterSecs(d)) \in Nat
           /\ Scaled(RetryAfterSecs(d)) * rate + Scaled(rate) > d
<1> DEFINE a == Scaled(rate)
           s == d \div a
           m == d % a
<1>1. TicksPerSecond \in Nat /\ TicksPerSecond > 0
  BY BucketAssumption
<1>2. a \in Nat /\ a > 0 /\ a = rate * TicksPerSecond
  BY <1>1 DEF Scaled
<1> HIDE DEF a
<1>3. s \in Nat /\ m \in 0..(a - 1) /\ d = a * s + m
  BY <1>2
<1> HIDE DEF s, m
<1>4. a * s \in Nat /\ a * s + a > d
  BY <1>2, <1>3
<1>5. (s * TicksPerSecond) * rate = a * s /\ s * TicksPerSecond \in Nat
  <2>1. (s * TicksPerSecond) * rate = (rate * TicksPerSecond) * s
    BY <1>1, <1>3
  <2> QED BY <1>1, <1>2, <1>3, <2>1
<1>6. Scaled(RetryAfterSecs(d)) = s * TicksPerSecond
  BY DEF Scaled, RetryAfterSecs, s, a
<1> QED BY <1>4, <1>5, <1>6 DEF a

(* A client that waits as long as it was told is admitted, for every rate,  *)
(* burst and weight up to the burst; one that waits the whole seconds of    *)
(* rate_limit_result is short of less than a second's refill.               *)
THEOREM WaitIsEnough == BucketSpec => []WaitSuffices
<1>1. BucketInit => WaitInv
  BY DEF BucketInit, WaitInv, NoReply
<1>2. ASSUME WindowInv, WaitInv, NEW c \in Clients, NEW wait \in Nat, Waited(c, wait)
      PROVE  /\ wait = WaitFor(reply[c].short) =>
                    Refilled(reply[c].key) >= Scaled(reply[c].weight)
             /\ wait = Scaled(RetryAfterSecs(reply[c].short)) =>
                    Refilled(reply[c].key) + Scaled(rate) > Scaled(reply[c].weight)
  <2>1. PICK r \in Nat : Awaits(c, r)
    BY <1>2 DEF WaitInv, Waited
  <2>2. PICK k \in Keys, w \in Nat, at \in Nat, short \in Nat :
             /\ reply[c].key = k /\ reply[c].weight = w /\ reply[c].at = at /\ reply[c].short = short
    BY <1>2 DEF WindowInv, BucketTypeOK
  <2>3. /\ rate \in Nat /\ rate > 0 /\ now \in Nat /\ burst \in Nat /\ w <= burst
        /\ TicksPerSecond \in Nat /\ TicksPerSecond > 0 /\ now >= at + wait
        /\ r < Scaled(w) /\ at <= now /\ short = Scaled(w) - r
        /\ Refilled(k) >= Smaller(r + (now - at) * rate, Scaled(burst))
    BY <1>2, <2>1, <2>2, BucketAssumption DEF Awaits, Waited, WindowInv, BucketTypeOK
  <2>4. /\ Scaled(w) \in Nat /\ Scaled(burst) \in Nat /\ Scaled(w) <= Scaled(burst)
        /\ Refilled(k) \in Nat /\ Scaled(rate) \in Nat /\ Scaled(rate) > 0
    <3>1. Scaled(w) \in Nat /\ Scaled(burst) \in Nat /\ Scaled(rate) \in Nat /\ Refilled(k) \in Nat
      BY <1>2, <2>3, ScaledType, RefilledType DEF WindowInv
    <3>2. w * TicksPerSecond <= burst * TicksPerSecond /\ rate * TicksPerSecond > 0
      BY <2>3
    <3> QED BY <2>3, <3>1, <3>2 DEF Scaled
  <2>5. /\ now - at \in Nat /\ wait * rate \in Nat
        /\ (now - at) * rate \in Nat /\ (now - at) * rate >= wait * rate
    <3>1. now - at \in Nat /\ now - at >= wait
      BY <1>2, <2>3
    <3> QED BY <1>2, <2>3, <3>1
  <2>6. wait = WaitFor(short) => Refilled(k) >= Scaled(w)
    <3> SUFFICES ASSUME wait = WaitFor(short) PROVE Refilled(k) >= Scaled(w)
      OBVIOUS
    <3>1. wait * rate >= short
      BY <2>3, WaitCovers
    <3> QED BY <2>3, <2>4, <2>5, <3>1 DEF Smaller
  <2>7. wait = Scaled(RetryAfterSecs(short)) => Refilled(k) + Scaled(rate) > Scaled(w)
    <3> SUFFICES ASSUME wait = Scaled(RetryAfterSecs(short))
                 PROVE  Refilled(k) + Scaled(rate) > Scaled(w)
      OBVIOUS
    <3>1. wait * rate + Scaled(rate) > short
      BY <2>3, SecondsFallShort
    <3> QED BY <2>3, <2>4, <2>5, <3>1 DEF Smaller
  <2> QED BY <2>2, <2>6, <2>7
<1>3. WindowInv /\ WaitInv => WaitSuffices
  <2> SUFFICES ASSUME WindowInv, WaitInv, NEW c \in Clients,
                      reply[c].kind = "limited", ~disturbed[c]
               PROVE  /\ Waited(c, WaitFor(reply[c].short)) =>
                             Refilled(reply[c].key) >= Scaled(reply[c].weight)
                      /\ Waited(c, Scaled(RetryAfterSecs(reply[c].short))) =>
                             Refilled(reply[c].key) + Scaled(rate) > Scaled(reply[c].weight)
    BY DEF WaitSuffices, Waited
  <2>1. rate \in Nat /\ rate > 0 /\ reply[c].short \in Nat
    BY BucketAssumption DEF WaitInv, Awaits, WindowInv, BucketTypeOK
  <2>2. WaitFor(reply[c].short) \in Nat /\ Scaled(RetryAfterSecs(reply[c].short)) \in Nat
    BY <2>1, WaitCovers, SecondsFallShort
  <2> QED BY <1>2, <2>2
<1> QED BY <1>1, <1>3, WindowInductive, WaitStep, PTL DEF BucketSpec
=============================================================================
