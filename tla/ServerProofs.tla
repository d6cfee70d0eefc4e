---------------------------- MODULE ServerProofs -----------------------------
(***************************************************************************)
(* Theorems about what the processes of a server share.  RateLimiter, for  *)
(* any rate, debt limit, word size, number of workers, requests, faults    *)
(* and seconds; and Daemon, for any number of instances, process ids,      *)
(* signals and failures: the parent's set of children is exact, and a      *)
(* daemon that has left in the regular way leaves nothing behind.          *)
(***************************************************************************)
EXTENDS RateLimiter, Daemon, FiniteSetTheorems, TLAPS


(***************************************************************************)
(* Arithmetic.  decay(n) is what a client is allowed in n seconds.         *)
(***************************************************************************)
decay(n) == n * bytes_per_sec

LEMMA Decay ==
    ASSUME NEW n \in Int
    PROVE  /\ decay(n) \in Int
           /\ n >= 0 => decay(n) \in Nat
           /\ n = 0 => decay(n) = 0
           /\ decay(n + 1) = decay(n) + bytes_per_sec
           /\ bytes_per_sec \in Nat
BY RateAssumption DEF decay

\* What is left of an entry later on is what was left of it, less what the
\* client was allowed in between.
LEMMA RemainingLater ==
    ASSUME NEW sp, sp.bytes_served \in Nat, sp.last_update \in Int,
           NEW t \in Int, NEW u \in Int, t <= u
    PROVE  /\ Remaining(sp, t) \in Nat
           /\ Remaining(sp, u) = Max2(Remaining(sp, t) - decay(u - t), 0)
<1> DEFINE a == t - sp.last_update
           b == u - t
<1>1. a \in Int /\ b \in Nat /\ u - sp.last_update = a + b
  OBVIOUS
<1>2. /\ decay(a) \in Int
      /\ decay(b) \in Nat
      /\ decay(u - sp.last_update) = decay(a) + decay(b)
  <2> HIDE DEF a, b
  <2>1. QED
    BY <1>1, RateAssumption DEF decay
<1>3. \A x \in Int : Remaining(sp, x) = IF decay(x - sp.last_update) < sp.bytes_served
                                        THEN sp.bytes_served - decay(x - sp.last_update) ELSE 0
  BY DEF Remaining, decay
<1>4. QED
  BY <1>1, <1>2, <1>3 DEF Max2

\* Waiting one second more than the quotient pays a debt off.
LEMMA Quotient ==
    ASSUME NEW d \in Nat
    PROVE  /\ d \div bytes_per_sec \in Nat
           /\ d < decay(d \div bytes_per_sec + 1)
BY RateAssumption DEF decay

LEMMA Modulo ==
    ASSUME NEW n \in Nat
    PROVE  /\ n % Word \in 0..(Word - 1)
           /\ n % Word <= n
           /\ n < Word => n % Word = n
BY RateAssumption, SizesAssumption

(***************************************************************************)
(* Types                                                                   *)
(***************************************************************************)
Charging == {"get", "add", "replace"}

LEMMA RequestKinds ==
    ASSUME NEW r \in Requests
    PROVE  /\ r = Idle <=> r.stage = "idle"
           /\ r.stage \in {"idle", "checked"} \cup Charging
           /\ r.stage \in Charging => /\ r.bytes \in Sizes \ {0} /\ r.bytes \in Nat
                                      /\ r.now \in 0..MaxTime /\ r.now \in Nat
           /\ r.stage = "replace" => r.bytes_served \in 0..(Word - 1) /\ r.bytes_served \in Nat
           /\ r.stage \in {"get", "add"} =>
                r \in [stage: {"get", "add"}, bytes: Sizes \ {0}, now: 0..MaxTime]
<1> DEFINE Times == 0..MaxTime
           Bytes == 0..(Word - 1)
           Waiting == [stage: {"get", "add"}, bytes: Sizes \ {0}, now: Times]
           Replacing == [stage: {"replace"}, bytes: Sizes \ {0}, now: Times, bytes_served: Bytes]
           Goal == /\ r = Idle <=> r.stage = "idle"
                   /\ r.stage \in {"idle", "checked"} \cup Charging
                   /\ r.stage \in Charging => /\ r.bytes \in Sizes \ {0} /\ r.bytes \in Nat
                                              /\ r.now \in Times /\ r.now \in Nat
                   /\ r.stage = "replace" => r.bytes_served \in Bytes /\ r.bytes_served \in Nat
                   /\ r.stage \in {"get", "add"} => r \in Waiting
<1>1. /\ \A b \in Sizes : b \in Nat
      /\ \A n \in Times : n \in Nat
      /\ \A n \in Bytes : n \in Nat
  BY SizesAssumption, BoundsAssumption
<1>2. r \in {Idle} \cup [stage: {"checked"}] \cup Waiting \cup Replacing
  BY DEF Requests
<1> SUFFICES Goal
  OBVIOUS
<1> HIDE DEF Times, Bytes
<1>3. CASE r = Idle \/ r \in [stage: {"checked"}]
  BY <1>3 DEF Idle, Charging
<1>4. CASE r \in Waiting
  BY <1>1, <1>4 DEF Idle, Charging
<1>5. CASE r \in Replacing
  BY <1>1, <1>5 DEF Idle, Charging
<1>6. QED
  BY <1>2, <1>3, <1>4, <1>5

LEMMA EntryKinds ==
    ASSUME NEW sp \in Entries
    PROVE  /\ sp # NoEntry
           /\ sp.bytes_served \in Nat /\ sp.bytes_served \in 0..(Word - 1)
           /\ sp.last_update \in Nat /\ sp.last_update \in 0..MaxTime
           /\ sp.expires \in Nat
BY SizesAssumption, BoundsAssumption DEF Entries, NoEntry

LEMMA ExpirationType ==
    ASSUME NEW b \in Nat
    PROVE  memcached_expiration(b) \in Nat
<1>1. 2 * Max2(maxdebt, b) \in Nat
  BY RateAssumption, SizesAssumption DEF Max2
<1>2. (2 * Max2(maxdebt, b)) \div bytes_per_sec \in Nat
  BY <1>1, Quotient
<1>3. QED
  BY <1>2, DeltaAssumption DEF memcached_expiration, Min2

LEMMA StoredType ==
    ASSUME TypeOK, NEW r, r.bytes \in Nat, r.now \in 0..MaxTime, NEW b \in 0..(Word - 1)
    PROVE  /\ Stored(r, b) \in Entries
           /\ Stored(r, b).last_update = r.now
           /\ Stored(r, b).bytes_served = b
<1>1. memcached_expiration(r.bytes) \in Nat
  BY ExpirationType
<1>2. QED
  BY <1>1, BoundsAssumption DEF Stored, Entries, TypeOK

LEMMA ChargedType ==
    ASSUME NEW sp \in Entries, NEW r, r.bytes \in Nat, r.now \in Nat
    PROVE  /\ Remaining(sp, r.now) \in Nat
           /\ charged(sp, r) \in 0..(Word - 1)
           /\ charged(sp, r) <= Remaining(sp, r.now) + r.bytes
           /\ Remaining(sp, r.now) + r.bytes < Word =>
                charged(sp, r) = Remaining(sp, r.now) + r.bytes
<1>1. Remaining(sp, r.now) \in Nat
  BY EntryKinds, RemainingLater
<1>2. QED
  BY <1>1, Modulo DEF charged

LEMMA DebtType ==
    ASSUME TypeOK
    PROVE  /\ Debt \in Nat
           /\ Debt \div bytes_per_sec \in Nat
           /\ Debt >= maxdebt => retry_seconds(Debt) \in Nat
<1>1. Debt \in Nat
  BY EntryKinds, RemainingLater, BoundsAssumption DEF Debt, TypeOK
<1>2. QED
  BY <1>1, Quotient, RateAssumption, SizesAssumption DEF retry_seconds

LEMMA TypeInit == Init => TypeOK
BY BoundsAssumption DEF Init, TypeOK, Requests, Idle

LEMMA FlagsType == ASSUME TypeOK, Next PROVE alone' \in BOOLEAN /\ intact' \in BOOLEAN
<1>1. ASSUME NEW w \in Workers, check(w) \/ respond(w) \/ update(w) \/ unavailable(w)
      PROVE  alone' \in BOOLEAN /\ intact' \in BOOLEAN
  BY <1>1, Zenon DEF TypeOK, check, respond, update, get, replace, add, unavailable
<1>2. CASE expire \/ evict \/ tick
  BY <1>2, Zenon DEF TypeOK, expire, evict, tick
<1>3. QED
  BY <1>1, <1>2 DEF Next

LEMMA TypeStep == ASSUME TypeOK, [Next]_vars PROVE TypeOK'
<1>1. CASE UNCHANGED vars
  BY <1>1 DEF vars, TypeOK
<1> SUFFICES ASSUME Next PROVE TypeOK'
  BY <1>1
<1>a. alone' \in BOOLEAN /\ intact' \in BOOLEAN
  BY FlagsType
<1> USE <1>a DEF TypeOK
<1>2. ASSUME NEW w \in Workers, check(w) PROVE TypeOK'
  <2>1. [stage |-> "checked"] \in Requests
    BY DEF Requests
  <2>2. QED
    BY <1>2, <2>1, DebtType, BoundsAssumption, RateAssumption, SizesAssumption DEF check
<1>3. ASSUME NEW w \in Workers, respond(w) PROVE TypeOK'
  <2>1. PICK bytes \in Sizes :
          /\ req' = [req EXCEPT ![w] = IF bytes = 0 THEN Idle
                                       ELSE [stage |-> "get", bytes |-> bytes, now |-> time]]
          /\ served' = served + bytes
    BY <1>3 DEF respond
  <2>2. Idle \in Requests
    BY DEF Requests
  <2>3. bytes # 0 => [stage |-> "get", bytes |-> bytes, now |-> time] \in Requests
    BY DEF Requests
  <2>4. bytes \in Nat
    BY SizesAssumption
  <2>5. QED
    BY <1>3, <2>1, <2>2, <2>3, <2>4 DEF respond
<1>4. ASSUME NEW w \in Workers, get(w) PROVE TypeOK'
  <2>1. /\ req[w] \in [stage: {"get", "add"}, bytes: Sizes \ {0}, now: 0..MaxTime]
        /\ req[w].bytes \in Nat /\ req[w].now \in Nat
    BY <1>4, RequestKinds DEF get, Charging
  <2>2. CASE entry = NoEntry
    <3>1. [req[w] EXCEPT !.stage = "add"] \in Requests
      BY <2>1 DEF Requests
    <3>2. QED
      BY <1>4, <2>2, <3>1 DEF get
  <2>3. CASE entry # NoEntry
    <3>1. charged(entry, req[w]) \in 0..(Word - 1) /\ Remaining(entry, req[w].now) \in Nat
      BY <2>1, <2>3, ChargedType
    <3>2. [stage |-> "replace", bytes |-> req[w].bytes, now |-> req[w].now,
           bytes_served |-> charged(entry, req[w])] \in Requests
      BY <2>1, <3>1 DEF Requests
    <3>3. QED
      BY <1>4, <2>3, <3>2 DEF get
  <2>4. QED
    BY <2>2, <2>3
<1>5. ASSUME NEW w \in Workers, replace(w) PROVE TypeOK'
  <2>1. /\ req[w].bytes \in Nat /\ req[w].now \in 0..MaxTime
        /\ req[w].bytes_served \in 0..(Word - 1)
    BY <1>5, RequestKinds DEF replace, Charging
  <2>2. Stored(req[w], req[w].bytes_served) \in Entries
    BY <2>1, StoredType
  <2>3. Idle \in Requests
    BY DEF Requests
  <2>4. QED
    BY <1>5, <2>1, <2>2, <2>3 DEF replace, Settle
<1>6. ASSUME NEW w \in Workers, add(w) PROVE TypeOK'
  <2>1. /\ req[w] \in [stage: {"get", "add"}, bytes: Sizes \ {0}, now: 0..MaxTime]
        /\ req[w].bytes \in Nat /\ req[w].bytes \in 0..(Word - 1)
    BY <1>6, RequestKinds, SizesAssumption DEF add, Charging
  <2>2. Stored(req[w], req[w].bytes) \in Entries
    BY <2>1, StoredType
  <2>3. Idle \in Requests /\ NotStored(req[w]) \in Requests
    BY <2>1 DEF Requests, NotStored
  <2>4. QED
    BY <1>6, <2>1, <2>2, <2>3 DEF add, Settle
<1>7. ASSUME NEW w \in Workers, unavailable(w) PROVE TypeOK'
  <2>1. CASE req[w].stage = "get" /\ req' = [req EXCEPT ![w].stage = "add"]
    <3>1. [req[w] EXCEPT !.stage = "add"] \in Requests
      BY <2>1, RequestKinds DEF Requests, Charging
    <3>2. QED
      BY <1>7, <2>1, <3>1, BoundsAssumption DEF unavailable
  <2>2. CASE req[w].stage \in {"replace", "add"} /\ Settle(w)
    <3>1. Idle \in Requests /\ req[w].bytes \in Nat
      BY <2>2, RequestKinds DEF Requests, Charging
    <3>2. QED
      BY <1>7, <2>2, <3>1, BoundsAssumption DEF unavailable, Settle
  <2>3. CASE req[w] = Idle /\ req' = [req EXCEPT ![w] = [stage |-> "checked"]]
    <3>1. [stage |-> "checked"] \in Requests
      BY DEF Requests
    <3>2. QED
      BY <1>7, <2>3, <3>1, BoundsAssumption DEF unavailable, Idle
  <2>4. QED
    BY <1>7, <2>1, <2>2, <2>3 DEF unavailable
<1>8. CASE expire
  BY <1>8 DEF expire
<1>9. CASE evict
  BY <1>9, BoundsAssumption DEF evict
<1>10. CASE tick
  BY <1>10, BoundsAssumption, RateAssumption DEF tick, Max2
<1>11. QED
  BY <1>1, <1>2, <1>3, <1>4, <1>5, <1>6, <1>7, <1>8, <1>9, <1>10 DEF Next, update

(***************************************************************************)
(* No client is held to owe more than it was served                        *)
(***************************************************************************)
\* update() reads the clock before it talks to memcached.
ClockRead == \A w \in Workers : req[w].stage \in Charging => req[w].now <= time

\* What a worker is about to write is covered by what is settled, its own
\* bytes, and what the client was allowed since the worker read the clock.
ReplaceCovered ==
    \A w \in Workers : req[w].stage = "replace" =>
        req[w].bytes_served <= settled + req[w].bytes + decay(time - req[w].now)

Covered == ClockRead /\ ReplaceCovered /\ NeverOvercharged

\* A second more: decay grows by a second's allowance, for all that was read
\* before.
LEMMA DecayTick ==
    ASSUME TypeOK, ClockRead, NEW w \in Workers, req[w].stage \in Charging
    PROVE  /\ decay(time - req[w].now) \in Nat
           /\ decay((time + 1) - req[w].now) = decay(time - req[w].now) + bytes_per_sec
           /\ bytes_per_sec \in Nat
<1>1. req[w].now \in Nat /\ time \in Nat /\ req[w].now <= time
  BY RequestKinds DEF TypeOK, ClockRead
<1>2. /\ time - req[w].now \in Nat
      /\ (time + 1) - req[w].now = (time - req[w].now) + 1
  BY <1>1
<1>3. QED
  BY <1>2, RateAssumption DEF decay

\* What an entry that is written now amounts to.
LEMMA StoredDebt ==
    ASSUME TypeOK, ClockRead, NEW w \in Workers, req[w].stage \in Charging,
           NEW b \in 0..(Word - 1)
    PROVE  /\ b \in Nat /\ decay(time - req[w].now) \in Nat
           /\ Remaining(Stored(req[w], b), time) = Max2(b - decay(time - req[w].now), 0)
<1>1. /\ req[w].now \in Nat /\ req[w].now \in 0..MaxTime /\ time \in Nat /\ req[w].now <= time
      /\ req[w].bytes \in Nat
  BY RequestKinds DEF TypeOK, ClockRead
<1>2. /\ Stored(req[w], b).last_update = req[w].now
      /\ Stored(req[w], b).bytes_served = b
  BY <1>1, StoredType
<1>3. b \in Nat
  BY SizesAssumption
<1>4. Remaining(Stored(req[w], b), req[w].now) = b
  <2>1. (req[w].now - req[w].now) * bytes_per_sec = 0
    BY <1>1, RateAssumption
  <2>2. QED
    BY <1>2, <1>3, <2>1 DEF Remaining
<1>5. QED
  BY <1>1, <1>2, <1>3, <1>4, RemainingLater, DecayTick

LEMMA CoveredInit == Init => Covered
BY DEF Init, Covered, ClockRead, ReplaceCovered, NeverOvercharged, Debt, Idle, Charging

LEMMA CoveredStep == ASSUME TypeOK, Covered, [Next]_vars PROVE Covered'
<1> USE DEF Covered
<1>1. CASE UNCHANGED vars
  BY <1>1 DEF vars, ClockRead, ReplaceCovered, NeverOvercharged, Debt
<1>t. TypeOK'
  BY TypeStep
<1>2. ASSUME NEW w \in Workers, check(w) PROVE Covered'
  <2>1. \A v \in Workers : req'[v].stage \in Charging => req'[v] = req[v]
    BY <1>2 DEF check, TypeOK, Charging
  <2>2. QED
    BY <1>2, <2>1 DEF check, ClockRead, ReplaceCovered, NeverOvercharged, Debt, Charging
<1>3. ASSUME NEW w \in Workers, respond(w) PROVE Covered'
  <2>1. PICK r \in Requests : req' = [req EXCEPT ![w] = r] /\ r.stage \in {"idle", "get"}
                              /\ (r.stage = "get" => r.now = time)
    BY <1>3, <1>t DEF respond, TypeOK, Idle
  <2>2. QED
    BY <1>3, <2>1 DEF respond, ClockRead, ReplaceCovered, NeverOvercharged, Debt, Charging, TypeOK
<1>s. ASSUME NEW w \in Workers, req[w].stage \in {"get", "add"}, NEW st \in {"get", "add"},
             req' = [req EXCEPT ![w].stage = st], UNCHANGED <<time, entry, settled>>
      PROVE  Covered'
  <2>1. req'[w].stage = st /\ req'[w].now = req[w].now
    BY <1>s, RequestKinds DEF TypeOK
  <2>2. \A v \in Workers : v # w => req'[v] = req[v]
    BY <1>s DEF TypeOK
  <2>3. QED
    BY <1>s, <2>1, <2>2 DEF ClockRead, ReplaceCovered, NeverOvercharged, Debt, Charging
<1>4. ASSUME NEW w \in Workers, get(w) PROVE Covered'
  <2>1. req[w].bytes \in Nat /\ req[w].now \in Nat /\ req[w].now <= time
    BY <1>4, RequestKinds DEF get, TypeOK, ClockRead, Charging
  <2>2. CASE entry = NoEntry
    BY <1>4, <1>s, <2>2 DEF get
  <2>3. CASE entry # NoEntry
    <3>1. /\ Remaining(entry, req[w].now) \in Nat
          /\ charged(entry, req[w]) \in Nat
          /\ charged(entry, req[w]) <= Remaining(entry, req[w].now) + req[w].bytes
      BY <2>1, <2>3, ChargedType, SizesAssumption DEF TypeOK
    <3>2. Debt = Max2(Remaining(entry, req[w].now) - decay(time - req[w].now), 0)
      BY <2>1, <2>3, EntryKinds, RemainingLater DEF Debt, TypeOK
    <3>3. decay(time - req[w].now) \in Nat
      BY <1>4, DecayTick DEF get, Charging
    <3>4. charged(entry, req[w]) <= settled + req[w].bytes + decay(time - req[w].now)
      BY <2>1, <3>1, <3>2, <3>3 DEF NeverOvercharged, TypeOK, Max2
    <3>5. req' = [req EXCEPT ![w] = [stage |-> "replace", bytes |-> req[w].bytes,
                    now |-> req[w].now, bytes_served |-> charged(entry, req[w])]]
          /\ UNCHANGED <<time, entry, settled>>
      BY <1>4, <2>3 DEF get
    <3>6. QED
      BY <2>1, <3>4, <3>5 DEF ClockRead, ReplaceCovered, NeverOvercharged, Debt, Charging, TypeOK
  <2>4. QED
    BY <2>2, <2>3
<1>5. ASSUME NEW w \in Workers, Settle(w), UNCHANGED time, req[w].stage \in Charging,
             entry' \in {entry, NoEntry} \/
             \E b \in 0..(Word - 1) :
                /\ entry' = Stored(req[w], b)
                /\ b <= settled + req[w].bytes + decay(time - req[w].now)
      PROVE  Covered'
  <2>1. /\ req[w].bytes \in Nat /\ settled \in Nat /\ settled' = settled + req[w].bytes
        /\ req' = [req EXCEPT ![w] = Idle]
    BY <1>5, RequestKinds DEF Settle, TypeOK
  <2>2. \A v \in Workers : req'[v].stage \in Charging => req'[v] = req[v]
    BY <2>1 DEF Idle, Charging, TypeOK
  <2>3. ClockRead'
    BY <1>5, <2>2 DEF ClockRead
  <2>4. ReplaceCovered'
    <3> SUFFICES ASSUME NEW v \in Workers, req'[v].stage = "replace"
                 PROVE  req'[v].bytes_served <= settled' + req'[v].bytes + decay(time' - req'[v].now)
      BY DEF ReplaceCovered
    <3>1. req'[v] = req[v] /\ req[v].stage \in Charging
      BY <2>2 DEF Charging
    <3>2. req[v].bytes \in Nat /\ req[v].bytes_served \in Nat /\ decay(time - req[v].now) \in Nat
      BY <3>1, RequestKinds, DecayTick DEF TypeOK
    <3>3. req[v].bytes_served <= settled + req[v].bytes + decay(time - req[v].now)
      BY <3>1 DEF ReplaceCovered
    <3>4. QED
      BY <1>5, <2>1, <3>1, <3>2, <3>3
  <2>5. NeverOvercharged'
    <3>1. CASE entry' \in {entry, NoEntry}
      <4>1. Debt' \in {Debt, 0}
        BY <1>5, <3>1 DEF Debt
      <4>2. QED
        BY <2>1, <4>1, DebtType DEF NeverOvercharged
    <3>2. CASE \E b \in 0..(Word - 1) :
                /\ entry' = Stored(req[w], b)
                /\ b <= settled + req[w].bytes + decay(time - req[w].now)
      <4>1. PICK b \in 0..(Word - 1) :
                /\ entry' = Stored(req[w], b)
                /\ b <= settled + req[w].bytes + decay(time - req[w].now)
        BY <3>2
      <4>2. Debt' \in {0, Max2(b - decay(time - req[w].now), 0)}
        BY <1>5, <4>1, StoredDebt DEF Debt
      <4>3. b \in Nat /\ decay(time - req[w].now) \in Nat
        BY <1>5, StoredDebt
      <4>4. QED
        BY <2>1, <4>1, <4>2, <4>3 DEF NeverOvercharged, Max2
    <3>3. QED
      BY <1>5, <3>1, <3>2
  <2>6. QED
    BY <2>3, <2>4, <2>5
<1>6. ASSUME NEW w \in Workers, replace(w) PROVE Covered'
  <2>1. req[w].stage \in Charging /\ req[w].bytes_served \in 0..(Word - 1)
    BY <1>6, RequestKinds DEF replace, Charging, TypeOK
  <2>2. req[w].bytes_served <= settled + req[w].bytes + decay(time - req[w].now)
    BY <1>6 DEF replace, ReplaceCovered
  <2>3. QED
    BY <1>5, <1>6, <2>1, <2>2 DEF replace
<1>7. ASSUME NEW w \in Workers, add(w) PROVE Covered'
  <2>1. /\ req[w].stage \in Charging /\ req[w].bytes \in 0..(Word - 1) /\ req[w].bytes \in Nat
        /\ decay(time - req[w].now) \in Nat /\ settled \in Nat
    BY <1>7, RequestKinds, DecayTick, SizesAssumption DEF add, Charging, TypeOK
  <2>2. CASE entry = NoEntry
    <3>1. req[w].bytes <= settled + req[w].bytes + decay(time - req[w].now)
      BY <2>1
    <3>2. QED
      BY <1>5, <1>7, <2>1, <2>2, <3>1 DEF add
  <2>3. CASE entry # NoEntry
    BY <1>7, <1>s, <2>3 DEF add, NotStored
  <2>4. QED
    BY <2>2, <2>3
<1>8. ASSUME NEW w \in Workers, unavailable(w) PROVE Covered'
  <2>1. CASE req[w].stage \in {"replace", "add"} /\ Settle(w)
    BY <1>5, <1>8, <2>1 DEF unavailable, Charging
  <2>2. CASE /\ req[w].stage = "get"
             /\ req' = [req EXCEPT ![w].stage = "add"]
             /\ UNCHANGED <<requests, settled, promise>>
    BY <1>8, <1>s, <2>2 DEF unavailable
  <2>3. CASE /\ req[w] = Idle
             /\ req' = [req EXCEPT ![w] = [stage |-> "checked"]]
             /\ UNCHANGED <<settled, promise>>
    BY <1>8, <2>3 DEF unavailable, ClockRead, ReplaceCovered, NeverOvercharged, Debt, Charging,
                      TypeOK
  <2>4. QED
    BY <1>8, <2>1, <2>2, <2>3 DEF unavailable
<1>9. CASE expire \/ evict
  BY <1>9 DEF expire, evict, ClockRead, ReplaceCovered, NeverOvercharged, Debt, TypeOK
<1>10. CASE tick
  <2>1. /\ time' = time + 1 /\ time \in Nat /\ settled \in Nat
        /\ settled' = Max2(settled - bytes_per_sec, 0)
        /\ bytes_per_sec \in Nat
        /\ UNCHANGED <<req, entry>>
    BY <1>10, RateAssumption DEF tick, TypeOK
  <2>2. ClockRead'
    BY <2>1, RequestKinds DEF ClockRead, TypeOK
  <2>3. ReplaceCovered'
    <3> SUFFICES ASSUME NEW w \in Workers, req[w].stage = "replace"
                 PROVE  req[w].bytes_served <= settled' + req[w].bytes + decay(time' - req[w].now)
      BY <2>1 DEF ReplaceCovered
    <3>1. /\ req[w].bytes \in Nat /\ req[w].bytes_served \in Nat
          /\ decay(time - req[w].now) \in Nat
          /\ decay((time + 1) - req[w].now) = decay(time - req[w].now) + bytes_per_sec
      BY RequestKinds, DecayTick DEF TypeOK, Charging
    <3>2. req[w].bytes_served <= settled + req[w].bytes + decay(time - req[w].now)
      BY DEF ReplaceCovered
    <3>3. QED
      BY <2>1, <3>1, <3>2 DEF Max2
  <2>4. NeverOvercharged'
    <3>1. CASE entry = NoEntry
      BY <2>1, <3>1 DEF NeverOvercharged, Debt, Max2
    <3>2. CASE entry # NoEntry
      <4>1. decay((time + 1) - time) = bytes_per_sec
        BY <2>1 DEF decay
      <4>2. Debt' = Max2(Debt - bytes_per_sec, 0)
        BY <2>1, <3>2, <4>1, EntryKinds, RemainingLater DEF Debt, TypeOK
      <4>3. QED
        BY <2>1, <4>2, DebtType DEF NeverOvercharged, Max2
    <3>3. QED
      BY <3>1, <3>2
  <2>5. QED
    BY <2>2, <2>3, <2>4
<1>11. QED
  BY <1>1, <1>2, <1>3, <1>4, <1>6, <1>7, <1>8, <1>9, <1>10 DEF Next, update

(***************************************************************************)
(* A client that waits as long as it is told to is admitted                *)
(***************************************************************************)
Owed(t) == IF entry = NoEntry THEN 0 ELSE Remaining(entry, t)

\* As long as a promise stands, nothing is charged, and the debt will be
\* below the limit when the promise is due.
PromiseKept == promise # -1 => Owed(promise) < maxdebt

LEMMA OwedLater ==
    ASSUME TypeOK, NEW t \in Nat, NEW u \in Nat, t <= u
    PROVE  /\ Owed(t) \in Nat
           /\ Owed(u) = Max2(Owed(t) - decay(u - t), 0)
           /\ Owed(u) <= Owed(t)
           /\ Debt = Owed(time)
<1>1. decay(u - t) \in Nat
  BY RateAssumption DEF decay
<1>2. Owed(t) \in Nat /\ Owed(u) = Max2(Owed(t) - decay(u - t), 0)
  <2>1. CASE entry = NoEntry
    BY <1>1, <2>1 DEF Owed, Max2
  <2>2. CASE entry # NoEntry
    BY <2>2, EntryKinds, RemainingLater DEF Owed, TypeOK
  <2>3. QED
    BY <2>1, <2>2
<1>3. QED
  BY <1>1, <1>2 DEF Owed, Debt, Max2

LEMMA PromiseStep == ASSUME TypeOK, PromiseKept, [Next]_vars PROVE PromiseKept'
<1> USE DEF PromiseKept
<1>1. CASE UNCHANGED <<entry, promise>>
  BY <1>1 DEF Owed
<1>2. CASE promise' = -1
  BY <1>2
<1>3. CASE entry' = NoEntry /\ UNCHANGED promise
  BY <1>3, RateAssumption, SizesAssumption DEF Owed
<1>4. ASSUME NEW w \in Workers, Debt >= maxdebt, promise' = time + retry_seconds(Debt),
             UNCHANGED entry
      PROVE  PromiseKept'
  <2> DEFINE d == Debt - maxdebt
             q == d \div bytes_per_sec
  <2>1. /\ Debt \in Nat /\ maxdebt \in Nat /\ maxdebt > 0 /\ time \in Nat /\ d \in Nat
    BY <1>4, DebtType, RateAssumption, SizesAssumption DEF TypeOK
  <2>2. q \in Nat /\ d < decay(q + 1)
    BY <2>1, Quotient
  <2>3. retry_seconds(Debt) = q + 1
    BY DEF retry_seconds
  <2> HIDE DEF q
  <2>4. promise' \in Nat /\ promise' >= time /\ promise' - time = q + 1
    BY <1>4, <2>1, <2>2, <2>3
  <2>5. Owed(promise') = Max2(Debt - decay(q + 1), 0)
    <3>1. Owed(promise') = Max2(Owed(time) - decay(promise' - time), 0) /\ Debt = Owed(time)
      BY <2>1, <2>4, OwedLater
    <3>2. QED
      BY <2>4, <3>1
  <2>6. decay(q + 1) \in Int
    BY <2>2, Decay
  <2>7. Owed(promise') < maxdebt
    BY <2>1, <2>2, <2>5, <2>6 DEF Max2
  <2>8. Owed(promise)' = Owed(promise')
    BY <1>4 DEF Owed
  <2>9. QED
    BY <2>7, <2>8
<1>5. ASSUME NEW w \in Workers, check(w) PROVE PromiseKept'
  <2>1. Debt \in Nat /\ maxdebt \in Nat
    BY DebtType, RateAssumption, SizesAssumption
  <2>2. QED
    BY <1>1, <1>4, <1>5, <2>1 DEF check
<1>6. ASSUME NEW w \in Workers, respond(w) \/ update(w) \/ unavailable(w) PROVE PromiseKept'
  <2>1. UNCHANGED <<entry, promise>> \/ promise' = -1
    BY <1>6 DEF respond, update, get, replace, add, unavailable, Settle
  <2>2. QED
    BY <1>1, <1>2, <2>1
<1>7. CASE expire \/ evict
  BY <1>3, <1>7 DEF expire, evict
<1>8. CASE tick
  BY <1>1, <1>8 DEF tick
<1>9. CASE UNCHANGED vars
  BY <1>1, <1>9 DEF vars
<1>10. QED
  BY <1>5, <1>6, <1>7, <1>8, <1>9 DEF Next

LEMMA PromiseHonoured == ASSUME TypeOK, PromiseKept PROVE RetryAfterHonoured
<1> SUFFICES ASSUME promise # -1, promise <= time PROVE Debt < maxdebt
  BY DEF RetryAfterHonoured
<1>1. promise \in Nat /\ time \in Nat /\ maxdebt \in Nat
  BY RateAssumption, SizesAssumption DEF TypeOK
<1>2. Owed(promise) \in Nat /\ Owed(time) \in Nat /\ Owed(time) <= Owed(promise) /\ Debt = Owed(time)
  BY <1>1, OwedLater
<1>3. QED
  BY <1>1, <1>2 DEF PromiseKept

(***************************************************************************)
(* A client whose requests come one after the other is charged in full     *)
(***************************************************************************)
OneAtATime ==
    alone => \A v, w \in Workers : (req[v] # Idle /\ req[w] # Idle) => v = w

\* The bytes_served that a worker in the middle of update() will have written.
Written(w) ==
    CASE req[w].stage = "get" -> Owed(req[w].now) + req[w].bytes
      [] req[w].stage = "add" -> req[w].bytes
      [] req[w].stage = "replace" -> req[w].bytes_served

\* What has been sent is on record, or will be when update() is done.
OnRecord ==
    /\ (\A w \in Workers : req[w].stage \notin Charging) => served <= Debt
    /\ \A w \in Workers :
          /\ req[w].stage = "add" => entry = NoEntry
          /\ req[w].stage = "replace" => entry # NoEntry
          /\ req[w].stage \in Charging =>
                served <= Max2(Written(w) - decay(time - req[w].now), 0)

\* A client that is being served was below the limit when it was admitted.
WasAdmitted ==
    \A w \in Workers :
        /\ req[w].stage = "checked" => Debt < maxdebt
        /\ req[w].stage \in Charging => Written(w) < maxdebt + req[w].bytes

Sequential == OneAtATime /\ ((alone /\ intact) => OnRecord /\ WasAdmitted)

LEMMA FlagsFall == ASSUME TypeOK, [Next]_vars PROVE (alone' => alone) /\ (intact' => intact)
<1>1. CASE UNCHANGED vars
  BY <1>1, Zenon DEF vars
<1>2. ASSUME NEW w \in Workers, check(w) PROVE (alone' => alone) /\ (intact' => intact)
  BY <1>2, Zenon DEF check
<1>3. ASSUME NEW w \in Workers, respond(w) PROVE (alone' => alone) /\ (intact' => intact)
  BY <1>3, Zenon DEF respond
<1>4. ASSUME NEW w \in Workers, get(w) PROVE (alone' => alone) /\ (intact' => intact)
  BY <1>4, Zenon DEF get
<1>5. ASSUME NEW w \in Workers, replace(w) PROVE (alone' => alone) /\ (intact' => intact)
  BY <1>5, Zenon DEF replace
<1>6. ASSUME NEW w \in Workers, add(w) PROVE (alone' => alone) /\ (intact' => intact)
  BY <1>6, Zenon DEF add
<1>7. ASSUME NEW w \in Workers, unavailable(w) PROVE (alone' => alone) /\ (intact' => intact)
  BY <1>7, Zenon DEF unavailable
<1>8. CASE expire
  BY <1>8, Zenon DEF expire
<1>9. CASE evict
  BY <1>9, Zenon DEF evict
<1>10. CASE tick
  BY <1>10, Zenon DEF tick
<1>11. QED
  BY <1>1, <1>2, <1>3, <1>4, <1>5, <1>6, <1>7, <1>8, <1>9, <1>10, Zenon DEF Next, update

LEMMA SequentialInit == Init => Sequential
BY DEF Init, Sequential, OneAtATime, OnRecord, WasAdmitted, Debt, Idle, Charging

LEMMA OneAtATimeStep == ASSUME TypeOK, OneAtATime, [Next]_vars PROVE OneAtATime'
<1> SUFFICES ASSUME alone',
                    NEW u \in Workers, NEW v \in Workers, req'[u] # Idle, req'[v] # Idle
             PROVE  u = v
  BY DEF OneAtATime
<1>1. \A x, y \in Workers : (req[x] # Idle /\ req[y] # Idle) => x = y
  BY FlagsFall DEF OneAtATime
<1>2. CASE \A x \in Workers : req'[x] # Idle => req[x] # Idle
  BY <1>1, <1>2
<1>3. ASSUME NEW w \in Workers, req[w] # Idle,
             \A x \in Workers \ {w} : req'[x] = req[x]
      PROVE  u = v
  BY <1>1, <1>3
<1>4. ASSUME NEW w \in Workers, check(w) PROVE u = v
  <2>1. CASE UNCHANGED req
    BY <1>2, <2>1
  <2>2. CASE ~ UNCHANGED req
    <3>1. \A x \in Workers : req[x] = Idle
      BY <1>4, <2>2, Zenon DEF check
    <3>2. \A x \in Workers \ {w} : req'[x] = req[x]
      BY <1>4, <2>2 DEF check, TypeOK
    <3>3. QED
      BY <3>1, <3>2
  <2>3. QED
    BY <2>1, <2>2
<1>5. ASSUME NEW w \in Workers, respond(w) \/ update(w) PROVE u = v
  <2>1. req[w] # Idle
    <3>1. req[w].stage # "idle"
      BY <1>5 DEF respond, update, get, replace, add
    <3>2. QED
      BY <3>1, RequestKinds DEF TypeOK
  <2>2. \A x \in Workers \ {w} : req'[x] = req[x]
    BY <1>5 DEF respond, update, get, replace, add, Settle, TypeOK
  <2>3. QED
    BY <1>3, <2>1, <2>2
<1>6. ASSUME NEW w \in Workers, unavailable(w) PROVE u = v
  <2>1. \A x \in Workers \ {w} : req[x] = Idle
    BY <1>6, Zenon DEF unavailable
  <2>2. \A x \in Workers \ {w} : req'[x] = req[x]
    BY <1>6 DEF unavailable, Settle, TypeOK
  <2>3. QED
    BY <2>1, <2>2
<1>7. CASE expire \/ evict \/ tick \/ UNCHANGED vars
  BY <1>2, <1>7 DEF expire, evict, tick, vars
<1>8. QED
  BY <1>4, <1>5, <1>6, <1>7 DEF Next

\* Update() in progress: what a worker will have written, and the others.
LEMMA WrittenType ==
    ASSUME TypeOK, ClockRead, NEW w \in Workers, req[w].stage \in Charging
    PROVE  Written(w) \in Nat /\ req[w].bytes \in Nat /\ req[w].now \in Nat /\ time \in Nat
<1>1. req[w].bytes \in Nat /\ req[w].now \in Nat /\ time \in Nat
  BY RequestKinds DEF TypeOK
<1>2. Owed(req[w].now) \in Nat
  BY <1>1, OwedLater
<1>3. req[w].stage = "replace" => req[w].bytes_served \in Nat
  BY RequestKinds DEF TypeOK
<1>4. QED
  BY <1>1, <1>2, <1>3 DEF Written, Charging

LEMMA SequentialStep == ASSUME TypeOK, ClockRead, Sequential, [Next]_vars PROVE Sequential'
<1>1. OneAtATime'
  BY OneAtATimeStep DEF Sequential
<1> SUFFICES ASSUME alone', intact' PROVE OnRecord' /\ WasAdmitted'
  BY <1>1 DEF Sequential
<1>2. /\ alone /\ intact /\ OnRecord /\ WasAdmitted
      /\ \A v, w \in Workers : (req[v] # Idle /\ req[w] # Idle) => v = w
  BY FlagsFall DEF Sequential, OneAtATime
<1>n. /\ Debt \in Nat /\ time \in Nat /\ served \in Nat /\ maxdebt \in Nat \ {0}
      /\ bytes_per_sec \in Nat
      /\ TypeOK'
  BY DebtType, TypeStep, RateAssumption, SizesAssumption DEF TypeOK
\* Once a worker is done, no worker is in update().
<1>d. ASSUME NEW w \in Workers, req[w] # Idle, req' = [req EXCEPT ![w] = Idle], served' <= Debt'
      PROVE  OnRecord' /\ WasAdmitted'
  <2>1. \A v \in Workers : req'[v] = Idle
    BY <1>2, <1>d DEF TypeOK
  <2>2. \A v \in Workers : req'[v].stage = "idle"
    BY <2>1 DEF Idle
  <2>3. QED
    BY <1>d, <2>2 DEF OnRecord, WasAdmitted, Charging
\* A worker goes on in update().
<1>g. ASSUME NEW w \in Workers, req[w] # Idle, UNCHANGED time,
             \A v \in Workers \ {w} : req'[v] = req[v],
             req'[w].stage \in Charging,
             req'[w].stage = "add" => entry' = NoEntry,
             req'[w].stage = "replace" => entry' # NoEntry,
             served' <= Max2(Written(w)' - decay(time - req'[w].now), 0),
             Written(w)' < maxdebt + req'[w].bytes
      PROVE  OnRecord' /\ WasAdmitted'
  <2>1. \A v \in Workers \ {w} : req'[v] = Idle
    BY <1>2, <1>g
  <2>2. \A v \in Workers \ {w} : req'[v].stage = "idle"
    BY <2>1 DEF Idle
  <2>3. \A v \in Workers : req'[v].stage # "idle" => v = w
    BY <2>2
  <2>4. OnRecord'
    <3>1. ASSUME NEW v \in Workers
          PROVE  /\ req'[v].stage = "add" => entry' = NoEntry
                 /\ req'[v].stage = "replace" => entry' # NoEntry
                 /\ req'[v].stage \in Charging =>
                       served' <= Max2(Written(v)' - decay(time' - req'[v].now), 0)
      <4>1. CASE v = w
        BY <1>g, <4>1
      <4>2. CASE v # w
        BY <2>2, <4>2 DEF Charging
      <4>3. QED
        BY <4>1, <4>2
    <3>2. QED
      BY <1>g, <3>1 DEF OnRecord
  <2>5. WasAdmitted'
    <3>1. ASSUME NEW v \in Workers
          PROVE  /\ req'[v].stage = "checked" => Debt' < maxdebt
                 /\ req'[v].stage \in Charging => Written(v)' < maxdebt + req'[v].bytes
      <4>1. CASE v = w
        BY <1>g, <4>1 DEF Charging
      <4>2. CASE v # w
        BY <2>2, <4>2 DEF Charging
      <4>3. QED
        BY <4>1, <4>2
    <3>2. QED
      BY <3>1 DEF WasAdmitted
  <2>6. QED
    BY <2>4, <2>5
<1>3. CASE UNCHANGED vars
  BY <1>2, <1>3 DEF vars, OnRecord, WasAdmitted, Written, Owed, Debt
<1>4. ASSUME NEW w \in Workers, check(w) PROVE OnRecord' /\ WasAdmitted'
  <2>0. Debt' = Debt /\ served' = served /\ entry' = entry /\ time' = time
    BY <1>4 DEF check, Debt
  <2>1. CASE UNCHANGED req
    BY <1>2, <2>0, <2>1 DEF OnRecord, WasAdmitted, Written, Owed
  <2>2. CASE ~ UNCHANGED req
    <3>1. \A x \in Workers : req[x] = Idle
      BY <1>4, <2>2, Zenon DEF check
    <3>2. \A x \in Workers : req[x].stage = "idle"
      BY <3>1 DEF Idle
    <3>3. served <= Debt
      BY <1>2, <3>2 DEF OnRecord, Charging
    <3>4. Debt < maxdebt /\ req' = [req EXCEPT ![w] = [stage |-> "checked"]]
      BY <1>4, <2>2 DEF check
    <3>5. \A x \in Workers : req'[x].stage \in {"idle", "checked"}
      BY <3>2, <3>4 DEF TypeOK
    <3>6. QED
      BY <2>0, <3>3, <3>4, <3>5 DEF OnRecord, WasAdmitted, Charging
  <2>3. QED
    BY <2>1, <2>2
<1>5. ASSUME NEW w \in Workers, respond(w) PROVE OnRecord' /\ WasAdmitted'
  <2>1. PICK bytes \in Sizes :
          /\ req' = [req EXCEPT ![w] = IF bytes = 0 THEN Idle
                                       ELSE [stage |-> "get", bytes |-> bytes, now |-> time]]
          /\ served' = served + bytes
    BY <1>5 DEF respond
  <2>2. bytes \in Nat
    BY SizesAssumption
  <2>3. req[w].stage = "checked" /\ req[w] # Idle
    BY <1>5, RequestKinds DEF respond, TypeOK
  <2>4. \A x \in Workers : req[x].stage \notin Charging
    <3>1. \A x \in Workers \ {w} : req[x] = Idle
      BY <1>2, <2>3
    <3>2. QED
      BY <2>3, <3>1 DEF Idle, Charging
  <2>5. served <= Debt /\ Debt < maxdebt
    BY <1>2, <2>3, <2>4 DEF OnRecord, WasAdmitted
  <2>6. /\ time' = time /\ entry' = entry /\ Debt' = Debt
    BY <1>5 DEF respond, Debt
  <2>7. CASE bytes = 0
    <3>1. req' = [req EXCEPT ![w] = Idle] /\ served' <= Debt'
      BY <1>n, <2>1, <2>5, <2>6, <2>7
    <3>2. QED
      BY <1>d, <2>3, <3>1
  <2>8. CASE bytes # 0
    <3>1. req'[w] = [stage |-> "get", bytes |-> bytes, now |-> time]
      BY <2>1, <2>8 DEF TypeOK
    <3>2. \A v \in Workers \ {w} : req'[v] = req[v]
      BY <2>1 DEF TypeOK
    <3>3. req'[w].stage = "get" /\ req'[w].bytes = bytes /\ req'[w].now = time
      BY <3>1
    <3>4. Written(w)' = Debt + bytes
      BY <2>6, <3>3 DEF Written, Owed, Debt
    <3>5. decay(time - req'[w].now) = 0
      BY <1>n, <3>3, Decay
    <3>6. /\ served' <= Max2(Written(w)' - decay(time - req'[w].now), 0)
          /\ Written(w)' < maxdebt + req'[w].bytes
      BY <1>n, <2>1, <2>2, <2>5, <3>3, <3>4, <3>5 DEF Max2
    <3>7. req'[w].stage \in Charging
      BY <3>3 DEF Charging
    <3>8. QED
      BY <1>g, <2>3, <2>6, <3>2, <3>3, <3>6, <3>7
  <2>9. QED
    BY <2>7, <2>8
<1>6. ASSUME NEW w \in Workers, get(w) PROVE OnRecord' /\ WasAdmitted'
  <2>1. /\ req[w].stage = "get" /\ req[w].stage \in Charging
        /\ time' = time /\ entry' = entry /\ served' = served
    BY <1>6 DEF get, Charging
  <2>2. req[w] # Idle
    BY <2>1, RequestKinds DEF TypeOK
  <2>3. /\ served <= Max2(Written(w) - decay(time - req[w].now), 0)
        /\ Written(w) < maxdebt + req[w].bytes
    BY <1>2, <2>1 DEF OnRecord, WasAdmitted
  <2>4. req[w].bytes \in Nat /\ req[w].now \in Nat /\ Written(w) = Owed(req[w].now) + req[w].bytes
    BY <2>1, WrittenType DEF Written
  <2>5. \A v \in Workers \ {w} : req'[v] = req[v]
    BY <1>6 DEF get, TypeOK
  <2>6. /\ req'[w].stage \in {"add", "replace"}
        /\ req'[w].bytes = req[w].bytes /\ req'[w].now = req[w].now
        /\ req'[w].stage = "add" => entry = NoEntry
        /\ req'[w].stage = "replace" =>
              entry # NoEntry /\ req'[w].bytes_served = Remaining(entry, req[w].now) + req[w].bytes
    <3>1. CASE entry = NoEntry
      <4>1. req'[w] = [req[w] EXCEPT !.stage = "add"]
        BY <1>6, <3>1 DEF get, TypeOK
      <4>2. req[w] \in [stage: {"get", "add"}, bytes: Sizes \ {0}, now: 0..MaxTime]
        BY <2>1, RequestKinds DEF TypeOK
      <4>3. QED
        BY <3>1, <4>1, <4>2
    <3>2. CASE entry # NoEntry
      <4>1. req'[w] = [stage |-> "replace", bytes |-> req[w].bytes, now |-> req[w].now,
                       bytes_served |-> charged(entry, req[w])]
        BY <1>6, <3>2 DEF get, TypeOK
      <4>2. Remaining(entry, req[w].now) + req[w].bytes < Word
        BY <1>6, <3>2, Zenon DEF get
      <4>3. charged(entry, req[w]) = Remaining(entry, req[w].now) + req[w].bytes
        BY <2>4, <3>2, <4>2, ChargedType DEF TypeOK
      <4>4. QED
        BY <3>2, <4>1, <4>3
    <3>3. QED
      BY <3>1, <3>2
  <2>7. Written(w)' = Written(w)
    <3>1. CASE req'[w].stage = "add"
      <4>1. Written(w)' = req[w].bytes
        BY <2>6, <3>1 DEF Written
      <4>2. Owed(req[w].now) = 0
        BY <2>6, <3>1 DEF Owed
      <4>3. QED
        BY <2>4, <4>1, <4>2
    <3>2. CASE req'[w].stage = "replace"
      <4>1. Written(w)' = Remaining(entry, req[w].now) + req[w].bytes
        BY <2>6, <3>2 DEF Written
      <4>2. Owed(req[w].now) = Remaining(entry, req[w].now)
        BY <2>6, <3>2 DEF Owed
      <4>3. QED
        BY <2>4, <4>1, <4>2
    <3>3. QED
      BY <2>6, <3>1, <3>2
  <2>8. req'[w].stage \in Charging
    BY <2>6 DEF Charging
  <2>9. QED
    BY <1>g, <2>1, <2>2, <2>3, <2>5, <2>6, <2>7, <2>8
\* What a worker writes is what it was to write.
<1>w. ASSUME NEW w \in Workers, req[w].stage \in Charging, NEW b \in 0..(Word - 1),
             Written(w) = b, entry' = Stored(req[w], b), UNCHANGED <<time, served>>
      PROVE  served' <= Debt' /\ req[w] # Idle
  <2>1. Remaining(Stored(req[w], b), time) = Max2(b - decay(time - req[w].now), 0)
    BY <1>w, StoredDebt
  <2>2. Stored(req[w], b) # NoEntry
    <3>1. req[w].bytes \in Nat /\ req[w].now \in 0..MaxTime
      BY <1>w, RequestKinds DEF TypeOK
    <3>2. QED
      BY <3>1, StoredType, EntryKinds
  <2>3. Debt' = Max2(b - decay(time - req[w].now), 0)
    BY <1>w, <2>1, <2>2 DEF Debt
  <2>4. served <= Max2(Written(w) - decay(time - req[w].now), 0)
    BY <1>2, <1>w DEF OnRecord
  <2>5. QED
    BY <1>w, <2>3, <2>4, RequestKinds DEF TypeOK, Charging
<1>7. ASSUME NEW w \in Workers, replace(w) PROVE OnRecord' /\ WasAdmitted'
  <2>1. /\ req[w].stage = "replace" /\ req[w].stage \in Charging
        /\ req[w].bytes_served \in 0..(Word - 1)
        /\ Written(w) = req[w].bytes_served
        /\ req' = [req EXCEPT ![w] = Idle]
        /\ UNCHANGED <<time, served>>
    BY <1>7, RequestKinds DEF replace, Settle, Charging, TypeOK, Written
  <2>2. entry # NoEntry
    BY <1>2, <2>1 DEF OnRecord
  <2>3. entry' = Stored(req[w], req[w].bytes_served)
    BY <1>7, <2>2 DEF replace
  <2>4. QED
    BY <1>d, <1>w, <2>1, <2>3
<1>8. ASSUME NEW w \in Workers, add(w) PROVE OnRecord' /\ WasAdmitted'
  <2>1. /\ req[w].stage = "add" /\ req[w].stage \in Charging
        /\ req[w].bytes \in 0..(Word - 1)
        /\ Written(w) = req[w].bytes
        /\ UNCHANGED <<time, served>>
    BY <1>8, RequestKinds, SizesAssumption DEF add, Charging, TypeOK, Written
  <2>2. entry = NoEntry
    BY <1>2, <2>1 DEF OnRecord
  <2>3. entry' = Stored(req[w], req[w].bytes) /\ req' = [req EXCEPT ![w] = Idle]
    BY <1>8, <2>2 DEF add, Settle
  <2>4. QED
    BY <1>d, <1>w, <2>1, <2>3
<1>9. ASSUME NEW w \in Workers, unavailable(w) PROVE FALSE
  BY <1>9, Zenon DEF unavailable
<1>10. CASE expire
  <2>1. Debt = 0 /\ \A w \in Workers : req[w].stage \in {"idle", "checked"}
    BY <1>10, Zenon DEF expire
  <2>2. entry' = NoEntry /\ UNCHANGED <<time, req, served>>
    BY <1>10 DEF expire
  <2>3. Debt' = 0
    BY <2>2 DEF Debt
  <2>4. served <= 0
    BY <1>2, <2>1 DEF OnRecord, Charging
  <2>5. QED
    BY <1>n, <2>1, <2>2, <2>3, <2>4 DEF OnRecord, WasAdmitted, Charging
<1>11. CASE evict
  BY <1>11, Zenon DEF evict
<1>12. CASE tick
  <2>1. /\ time' = time + 1 /\ served' = Max2(served - bytes_per_sec, 0)
        /\ UNCHANGED <<req, entry>>
    BY <1>12 DEF tick
  <2>2. Debt' = Max2(Debt - bytes_per_sec, 0)
    <3>1. decay((time + 1) - time) = bytes_per_sec
      BY <1>n DEF decay
    <3>2. Owed(time + 1) = Max2(Owed(time) - decay((time + 1) - time), 0) /\ Debt = Owed(time)
      BY <1>n, OwedLater
    <3>3. Debt' = Owed(time + 1)
      BY <2>1 DEF Debt, Owed
    <3>4. QED
      BY <3>1, <3>2, <3>3
  <2>3. \A w \in Workers : Written(w)' = Written(w)
    BY <2>1 DEF Written, Owed
  <2>4. ASSUME NEW w \in Workers, req[w].stage \in Charging
        PROVE  served' <= Max2(Written(w)' - decay(time' - req[w].now), 0)
    <3>1. served <= Max2(Written(w) - decay(time - req[w].now), 0)
      BY <1>2, <2>4 DEF OnRecord
    <3>2. /\ decay(time - req[w].now) \in Nat
          /\ decay((time + 1) - req[w].now) = decay(time - req[w].now) + bytes_per_sec
      BY <2>4, DecayTick
    <3>3. Written(w) \in Nat
      BY <2>4, WrittenType
    <3>4. QED
      BY <1>n, <2>1, <2>3, <3>1, <3>2, <3>3 DEF Max2
  <2>5. OnRecord'
    BY <1>n, <1>2, <2>1, <2>2, <2>4 DEF OnRecord, Max2
  <2>6. WasAdmitted'
    BY <1>n, <1>2, <2>1, <2>2, <2>3 DEF WasAdmitted, Max2
  <2>7. QED
    BY <2>5, <2>6
<1>13. QED
  BY <1>3, <1>4, <1>5, <1>6, <1>7, <1>8, <1>9, <1>10, <1>11, <1>12 DEF Next, update

LEMMA SequentialCharged == ASSUME TypeOK, Sequential PROVE ChargedInFull
<1> SUFFICES ASSUME alone, intact, \A w \in Workers : req[w] = Idle PROVE served <= Debt
  BY DEF ChargedInFull
<1>1. \A w \in Workers : req[w].stage \notin Charging
  <2>1. Idle.stage \notin Charging
    BY DEF Idle, Charging
  <2>2. QED
    BY <2>1, Zenon
<1>2. QED
  BY <1>1 DEF Sequential, OnRecord

(***************************************************************************)
(* What is forgotten with an entry that expires                            *)
(***************************************************************************)
\* memcached_expiration is not cut at RealtimeMaxdelta.
NotCut == \A b \in Sizes : (2 * Max2(maxdebt, b)) \div bytes_per_sec <= RealtimeMaxdelta

\* An entry expires at the earliest when all but a second's allowance of it
\* has been worked off.
ExpiresLate ==
    (alone /\ intact /\ entry # NoEntry /\ entry.expires <= MaxTime) =>
        entry.bytes_served < decay(entry.expires - entry.last_update) + bytes_per_sec

\* The expiration gives twice the larger of limit and response the time it
\* takes to work it off, and a client below the limit cannot have more.
LEMMA LongEnough ==
    ASSUME NotCut, NEW r, r.bytes \in Sizes, r.now \in Nat, r.now <= time, time \in Nat,
           NEW b \in Nat, b < maxdebt + r.bytes,
           Stored(r, b).expires <= MaxTime
    PROVE  b < decay(Stored(r, b).expires - Stored(r, b).last_update) + bytes_per_sec
<1> DEFINE m == 2 * Max2(maxdebt, r.bytes)
           x == m \div bytes_per_sec
<1>1. r.bytes \in Nat /\ maxdebt \in Nat /\ RealtimeMaxdelta \in Nat /\ MaxTime \in Nat
  <2>1. r.bytes \in 0..(Word - 1)
    BY SizesAssumption
  <2>2. QED
    BY <2>1, RateAssumption, SizesAssumption, DeltaAssumption, BoundsAssumption
<1>2. m \in Nat /\ b < m
  BY <1>1 DEF Max2
<1>3. x \in Nat /\ m < decay(x + 1)
  <2> HIDE DEF m
  <2>1. QED
    BY <1>2, Quotient
<1>4. memcached_expiration(r.bytes) = x
  BY <1>1, <1>3 DEF NotCut, memcached_expiration, Min2
<1> HIDE DEF m, x
<1>5. Stored(r, b).expires = time + x /\ Stored(r, b).last_update = r.now
  <2>1. Stored(r, b).expires = IF x = 0 THEN MaxTime + 1 ELSE time + x
    BY <1>4 DEF Stored
  <2>2. QED
    BY <1>1, <2>1 DEF Stored
<1>6. decay(x + 1) = decay(x) + bytes_per_sec /\ decay(x) \in Nat /\ bytes_per_sec \in Nat
  BY <1>3, Decay
<1>7. decay((time + x) - r.now) = decay(x) + decay(time - r.now)
  BY <1>3, RateAssumption DEF decay
<1>8. decay(time - r.now) \in Nat
  BY Decay
<1>9. QED
  BY <1>2, <1>3, <1>5, <1>6, <1>7, <1>8

LEMMA ExpiresLateStep ==
    ASSUME NotCut, TypeOK, ClockRead, Sequential, ExpiresLate, [Next]_vars
    PROVE  ExpiresLate'
<1> SUFFICES ASSUME alone', intact', entry' # NoEntry, entry'.expires <= MaxTime
             PROVE  entry'.bytes_served <
                        decay(entry'.expires - entry'.last_update) + bytes_per_sec
  BY DEF ExpiresLate
<1>1. alone /\ intact /\ WasAdmitted
  BY FlagsFall DEF Sequential
<1>2. CASE entry' = entry
  BY <1>1, <1>2 DEF ExpiresLate
<1>3. ASSUME NEW w \in Workers, req[w].stage \in Charging, NEW b \in 0..(Word - 1),
             Written(w) = b, entry' = Stored(req[w], b)
      PROVE  entry'.bytes_served <
                 decay(entry'.expires - entry'.last_update) + bytes_per_sec
  <2>1. /\ req[w].bytes \in Sizes /\ req[w].now \in Nat /\ req[w].now <= time /\ time \in Nat
        /\ req[w].now \in 0..MaxTime /\ req[w].bytes \in Nat
    BY <1>3, RequestKinds DEF TypeOK, ClockRead
  <2>2. b \in Nat /\ b < maxdebt + req[w].bytes
    BY <1>1, <1>3, SizesAssumption DEF WasAdmitted
  <2>3. Stored(req[w], b).bytes_served = b
    BY <2>1, StoredType
  <2>4. QED
    BY <1>3, <2>1, <2>2, <2>3, LongEnough
<1>4. ASSUME NEW w \in Workers, replace(w), entry' # entry
      PROVE  entry'.bytes_served <
                 decay(entry'.expires - entry'.last_update) + bytes_per_sec
  <2>1. /\ req[w].stage \in Charging /\ req[w].bytes_served \in 0..(Word - 1)
        /\ Written(w) = req[w].bytes_served
        /\ entry' = Stored(req[w], req[w].bytes_served)
    BY <1>4, RequestKinds DEF replace, Charging, TypeOK, Written
  <2>2. QED
    BY <1>3, <2>1
<1>5. ASSUME NEW w \in Workers, add(w), entry' # entry
      PROVE  entry'.bytes_served <
                 decay(entry'.expires - entry'.last_update) + bytes_per_sec
  <2>1. /\ req[w].stage \in Charging /\ req[w].bytes \in 0..(Word - 1)
        /\ Written(w) = req[w].bytes
        /\ entry' = Stored(req[w], req[w].bytes)
    BY <1>5, RequestKinds, SizesAssumption DEF add, Charging, TypeOK, Written
  <2>2. QED
    BY <1>3, <2>1
<1>6. ASSUME NEW w \in Workers, check(w) \/ respond(w) \/ get(w) \/ unavailable(w)
      PROVE  entry' = entry
  BY <1>6 DEF check, respond, get, unavailable
<1>7. CASE expire \/ evict
  BY <1>7 DEF expire, evict
<1>8. CASE tick \/ UNCHANGED vars
  BY <1>2, <1>8 DEF tick, vars
<1>9. QED
  BY <1>2, <1>4, <1>5, <1>6, <1>7, <1>8 DEF Next, update

LEMMA ExpireIrrelevant ==
    ASSUME TypeOK, ExpiresLate, expire, alone, intact
    PROVE  Debt < bytes_per_sec
<1>1. /\ entry \in Entries /\ entry # NoEntry /\ entry.expires <= time /\ time <= MaxTime
      /\ entry.bytes_served \in Nat /\ entry.last_update \in Nat /\ entry.expires \in Nat
      /\ time \in Nat /\ MaxTime \in Nat /\ bytes_per_sec \in Nat \ {0}
  BY EntryKinds, BoundsAssumption, RateAssumption DEF expire, TypeOK
<1>2. entry.bytes_served < decay(entry.expires - entry.last_update) + bytes_per_sec
  BY <1>1 DEF ExpiresLate
<1> DEFINE a == entry.expires - entry.last_update
           b == time - entry.expires
<1>3. a \in Int /\ b \in Nat /\ time - entry.last_update = a + b
  BY <1>1
<1>4. decay(a) \in Int /\ decay(b) \in Nat /\ decay(time - entry.last_update) = decay(a) + decay(b)
  <2> HIDE DEF a, b
  <2>1. QED
    BY <1>3, RateAssumption DEF decay
<1>5. Debt = IF decay(time - entry.last_update) < entry.bytes_served
             THEN entry.bytes_served - decay(time - entry.last_update) ELSE 0
  BY <1>1 DEF Debt, Remaining, decay
<1>6. QED
  BY <1>1, <1>2, <1>4, <1>5

(***************************************************************************)
(* Theorems                                                                *)
(***************************************************************************)
\* Types, and what is owed against what was served: the part that holds
\* however requests overlap and whatever memcached loses.
THEOREM OverlapInvariant == Spec => [](TypeOK /\ Covered /\ PromiseKept)
<1>1. Init => TypeOK /\ Covered /\ PromiseKept
  BY TypeInit, CoveredInit DEF Init, PromiseKept
<1>2. TypeOK /\ Covered /\ PromiseKept /\ [Next]_vars => (TypeOK /\ Covered /\ PromiseKept)'
  BY TypeStep, CoveredStep, PromiseStep
<1>3. QED
  BY <1>1, <1>2, PTL DEF Spec

\* However the requests of a client overlap between the get and the replace
\* or add of update(), and whatever memcached loses, it is never held to owe
\* more than it was served.
THEOREM NeverOverchargedAlways == Spec => []NeverOvercharged
<1>1. Covered => NeverOvercharged
  BY DEF Covered
<1>2. QED
  BY <1>1, OverlapInvariant, PTL

\* A client that was refused by check() and waits for the Retry-After it was
\* given is admitted, unless it is charged for another request meanwhile.
THEOREM RetryAfterAlwaysHonoured == Spec => []RetryAfterHonoured
<1>1. TypeOK /\ PromiseKept => RetryAfterHonoured
  BY PromiseHonoured
<1>2. QED
  BY <1>1, OverlapInvariant, PTL

\* A client whose requests come one after the other is charged by update()
\* for every byte, as long as memcached loses nothing and no sum wraps.
THEOREM AlwaysChargedInFull == Spec => []ChargedInFull
<1>1. Init => Sequential
  BY SequentialInit
<1>2. TypeOK /\ Covered /\ Sequential /\ [Next]_vars => Sequential'
  BY SequentialStep DEF Covered
<1>3. TypeOK /\ Sequential => ChargedInFull
  BY SequentialCharged
<1>4. QED
  BY <1>1, <1>2, <1>3, OverlapInvariant, PTL DEF Spec

\* The debt that update() has recorded is right: however requests overlap it is
\* not more than was served, and when they come one after the other not less.
THEOREM DebtAlwaysRight == Spec => []DebtRight
<1>1. NeverOvercharged /\ ChargedInFull => DebtRight
  BY DEF DebtRight
<1>2. QED
  BY <1>1, NeverOverchargedAlways, AlwaysChargedInFull, PTL

\* "after which the memcached entry is guaranteed to be irrelevant": when
\* requests come one after the other, no sum wraps and no expiration is cut,
\* less than a second's allowance is forgotten with an entry that expires.
THEOREM ExpiryAlwaysIrrelevant ==
    ASSUME NotCut
    PROVE  Spec => ExpiryIrrelevant
<1>1. Init => Sequential /\ ExpiresLate
  BY SequentialInit DEF Init, ExpiresLate
<1>2. TypeOK /\ Covered /\ Sequential /\ ExpiresLate /\ [Next]_vars => (Sequential /\ ExpiresLate)'
  BY SequentialStep, ExpiresLateStep DEF Covered
<1>3. TypeOK /\ ExpiresLate => ((expire /\ alone /\ intact) => Debt < bytes_per_sec)
  BY ExpireIrrelevant
<1>4. QED
  BY <1>1, <1>2, <1>3, OverlapInvariant, PTL DEF Spec, ExpiryIrrelevant

-----------------------------------------------------------------------------
(* The daemon. *)

\* A child is forked only when there is room for one: terminate_requested
\* may change between the condition of spawn_children's loop and fork(), the
\* set of children does not.
RoomToFork == parent = "fork" => Cardinality(children) < instances

\* The pid file is removed, and the parent left, only when terminate_requested
\* was set and there was no child; nothing is forked after that.
GoneAtTheEnd ==
    /\ parent \in {"remove", "exited"} => terminate_requested /\ children = {}
    /\ parent = "exited" => ~pidfile

DaemonInv ==
    /\ DaemonTypeOK
    /\ IsFiniteSet(children)
    /\ ChildrenExact
    /\ RoomToFork
    /\ GoneAtTheEnd

-----------------------------------------------------------------------------
LEMMA DaemonBegins == DaemonInit => DaemonInv
<1> SUFFICES ASSUME DaemonInit PROVE DaemonInv
  OBVIOUS
<1>1. IsFiniteSet({}) /\ Cardinality({}) = 0
  BY FS_EmptySet
<1>2. DaemonTypeOK
  <2>1. reloads \in 0..MaxReloads /\ failures \in 0..MaxFailures
    BY ReloadsAssumption DEF DaemonInit
  <2>2. worker \in [Pids -> WorkerStates]
    BY DEF DaemonInit, WorkerStates
  <2>3. QED
    BY <2>1, <2>2, Zenon DEF DaemonInit, DaemonTypeOK
<1>3. QED
  BY <1>1, <1>2, InstancesAssumption
  DEF DaemonInit, DaemonInv, ChildrenExact, RoomToFork, GoneAtTheEnd

\* Type correctness, one step per action.
LEMMA DaemonTypeStep == ASSUME DaemonTypeOK, [DaemonNext]_daemonVars PROVE DaemonTypeOK'
<1> USE DEF DaemonTypeOK, WorkerStates, workerVars, parentVars, At, Goto
<1>1. CASE UNCHANGED daemonVars
  BY <1>1 DEF daemonVars
<1>2. CASE CheckLoop
  BY <1>2 DEF CheckLoop
<1>3. CASE CheckSpawn
  BY <1>3 DEF CheckSpawn
<1>4. ASSUME NEW p \in Pids, Fork(p) PROVE DaemonTypeOK'
  BY <1>4 DEF Fork
<1>5. CASE ForkFails
  BY <1>5, ReloadsAssumption DEF ForkFails
<1>6. CASE CallWait
  BY <1>6 DEF CallWait
<1>7. ASSUME NEW p \in Pids, Wait(p) PROVE DaemonTypeOK'
  BY <1>7 DEF Wait, Reaped
<1>8. CASE TerminateChildren
  BY <1>8 DEF TerminateChildren, Interrupted
<1>9. CASE ReloadChildren
  BY <1>9 DEF ReloadChildren, Interrupted
<1>10. CASE ResetReload
  BY <1>10 DEF ResetReload
<1>11. CASE RemovePidfile
  BY <1>11 DEF RemovePidfile
<1>12. CASE Sigterm
  BY <1>12 DEF Sigterm, Woken
<1>13. CASE Sighup
  BY <1>13, ReloadsAssumption DEF Sighup, Woken
<1>14. ASSUME NEW p \in Pids, Worker(p) PROVE DaemonTypeOK'
  BY <1>14 DEF Worker, Initialised, Check, Reloaded, CallAccept, Served, Die, Move
<1>15. ASSUME NEW p \in Pids, Request(p) PROVE DaemonTypeOK'
  BY <1>15 DEF Request, Move
<1>16. ASSUME NEW p \in Pids, Throw(p) PROVE DaemonTypeOK'
  BY <1>16, ReloadsAssumption DEF Throw, Move
<1>17. QED
  BY <1>1, <1>2, <1>3, <1>4, <1>5, <1>6, <1>7, <1>8, <1>9, <1>10, <1>11, <1>12, <1>13,
     <1>14, <1>15, <1>16 DEF DaemonNext, Parent

\* ChildrenExact and what it rests on, one step per action.
LEMMA DaemonStep == ASSUME DaemonInv, [DaemonNext]_daemonVars PROVE DaemonInv'
<1>1. DaemonTypeOK'
  BY DaemonTypeStep DEF DaemonInv
<1> DEFINE Rest == IsFiniteSet(children) /\ ChildrenExact /\ RoomToFork /\ GoneAtTheEnd
<1> SUFFICES Rest'
  BY <1>1 DEF DaemonInv
<1> USE DEF DaemonInv, DaemonTypeOK, ChildrenExact, RoomToFork, GoneAtTheEnd,
            workerVars, parentVars, At, Goto
<1>2. CASE UNCHANGED daemonVars
  BY <1>2 DEF daemonVars
<1>3. CASE CheckLoop
  BY <1>3 DEF CheckLoop, LoopCondition
<1>4. CASE CheckSpawn
  BY <1>4 DEF CheckSpawn, MoreToSpawn
<1>5. ASSUME NEW p \in Pids, Fork(p) PROVE Rest'
  <2>1. p \notin children /\ children' = children \cup {p}
    BY <1>5 DEF Fork
  <2>2. IsFiniteSet(children') /\ Cardinality(children') = Cardinality(children) + 1
    BY <2>1, FS_AddElement
  <2>3. Cardinality(children) \in Nat
    BY FS_CardinalityType
  <2>4. Cardinality(children') <= instances
    BY <1>5, <2>2, <2>3, InstancesAssumption DEF Fork
  <2>5. children' = {q \in Pids : worker'[q] # "free"}
    BY <1>5, <2>1 DEF Fork
  <2>6. QED
    BY <1>5, <2>2, <2>4, <2>5 DEF Fork
<1>6. CASE ForkFails
  BY <1>6 DEF ForkFails
<1>7. CASE CallWait
  BY <1>7 DEF CallWait
<1>8. ASSUME NEW p \in Pids, Wait(p) PROVE Rest'
  <2>1. children' = children \ {p} /\ p \in children
    BY <1>8 DEF Wait, Reaped
  <2>2. IsFiniteSet(children') /\ Cardinality(children') = Cardinality(children) - 1
    BY <2>1, FS_RemoveElement
  <2>3. Cardinality(children) \in Nat
    BY FS_CardinalityType
  <2>4. Cardinality(children') <= instances
    BY <2>2, <2>3, InstancesAssumption
  <2>5. children' = {q \in Pids : worker'[q] # "free"}
    BY <1>8, <2>1 DEF Wait
  <2>6. QED
    BY <1>8, <2>2, <2>4, <2>5 DEF Wait
<1>9. CASE TerminateChildren
  <2>1. \A p \in Pids : worker'[p] = "free" <=> worker[p] = "free"
    BY <1>9 DEF TerminateChildren, Interrupted
  <2>2. QED
    BY <1>9, <2>1 DEF TerminateChildren
<1>10. CASE ReloadChildren
  <2>1. \A p \in Pids : worker'[p] = "free" <=> worker[p] = "free"
    BY <1>10 DEF ReloadChildren, Interrupted
  <2>2. QED
    BY <1>10, <2>1 DEF ReloadChildren
<1>11. CASE ResetReload
  BY <1>11 DEF ResetReload
<1>12. CASE RemovePidfile
  BY <1>12 DEF RemovePidfile
<1>13. CASE Sigterm
  BY <1>13 DEF Sigterm, Woken, Running
<1>14. CASE Sighup
  BY <1>14 DEF Sighup, Woken, Running
<1>15. ASSUME NEW p \in Pids, Worker(p) \/ Request(p) \/ Throw(p) PROVE Rest'
  <2>1. worker[p] # "free" /\ \E s : s # "free" /\ worker' = [worker EXCEPT ![p] = s]
    BY <1>15 DEF Worker, Initialised, Check, Reloaded, CallAccept, Served, Die, Request,
                 Throw, Move
  <2>2. UNCHANGED parentVars
    BY <1>15 DEF Worker, Initialised, Check, Reloaded, CallAccept, Served, Die, Request,
                 Throw
  <2>3. \A q \in Pids : worker'[q] = "free" <=> worker[q] = "free"
    BY <2>1
  <2>4. QED
    BY <2>2, <2>3
<1>16. QED
  BY <1>2, <1>3, <1>4, <1>5, <1>6, <1>7, <1>8, <1>9, <1>10, <1>11, <1>12, <1>13,
     <1>14, <1>15 DEF DaemonNext, Parent

LEMMA DaemonInvariant == DaemonSpec => []DaemonInv
<1>1. DaemonInv /\ [DaemonNext]_daemonVars => DaemonInv'
  BY DaemonStep
<1>2. QED
  BY DaemonBegins, <1>1, PTL DEF DaemonSpec

-----------------------------------------------------------------------------
\* The parent never signals a process that is not its child, knows every
\* child it has to wait for, and has no more of them than --instances, with
\* signals, failures and the end of workers between any two of its steps
\* (spawn_children, daemon_mode).
THEOREM ChildrenAlwaysExact == DaemonSpec => []ChildrenExact
<1>1. DaemonInv => ChildrenExact
  BY DEF DaemonInv
<1>2. QED
  BY DaemonInvariant, <1>1, PTL

\* A daemon that has left in the regular way has left neither a worker nor
\* its pid file behind, whenever the SIGTERM came.
THEOREM ShutdownIsClean == DaemonSpec => []CleanShutdown
<1>1. DaemonInv => CleanShutdown
  BY DEF DaemonInv, DaemonTypeOK, ChildrenExact, GoneAtTheEnd, CleanShutdown
<1>2. QED
  BY DaemonInvariant, <1>1, PTL

\* The parent knows exactly the workers it has not yet waited for, at most
\* --instances, and when daemon_mode has returned there is none.
THEOREM WorkersAlwaysInSight == DaemonSpec => []WorkersInSight
<1>1. ChildrenExact /\ CleanShutdown => WorkersInSight
  BY DEF WorkersInSight
<1>2. QED
  BY <1>1, ChildrenAlwaysExact, ShutdownIsClean, PTL
=============================================================================
