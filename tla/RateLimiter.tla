----------------------------- MODULE RateLimiter -----------------------------
(***************************************************************************)
(* The memcached rate limiter.  For every client memcached keeps how many  *)
(* bytes it was served and when that was last updated; the debt shrinks    *)
(* with time at a fixed rate.  A request is checked before it is served    *)
(* and charged after the response has been sent, by a get and a replace    *)
(* (or an add) between which other workers may serve the same client.      *)
(* Clients do not affect each other, so there is one here.                 *)
(***************************************************************************)
EXTENDS Integers

CONSTANTS
    Workers,         \* processes that serve requests of the client
    bytes_per_sec,   \* get_ratelimiter_ratelimit
    maxdebt,         \* get_ratelimiter_maxdebt
    Sizes,           \* sizes of responses
    Word,            \* uint32_t holds 0..Word-1
    RealtimeMaxdelta,\* the longest relative expiration memcached takes
    MaxTime,         \* bound on the clock
    MaxRequests,     \* bound on the requests that are admitted
    MaxFaults        \* bound on the failures of memcached

ASSUME RateAssumption == bytes_per_sec \in Nat \ {0} /\ maxdebt \in 1..(Word - 1)
ASSUME SizesAssumption == Word \in Nat /\ Sizes \subseteq 0..(Word - 1)
ASSUME DeltaAssumption == RealtimeMaxdelta \in Nat \ {0}
ASSUME BoundsAssumption == MaxTime \in Nat /\ MaxRequests \in Nat /\ MaxFaults \in Nat

VARIABLES
    time,      \* time(nullptr)
    entry,     \* the entry of the client in memcached
    req,       \* what each worker is doing
    requests,  \* requests admitted so far
    faults,    \* failures so far
    \* History, in terms of which the properties are stated:
    served,    \* the debt when bytes count as soon as the response is sent
    settled,   \* the debt when bytes count once memcached has been updated
    alone,     \* no two requests of the client have overlapped
    intact,    \* memcached has neither lost nor refused anything that mattered, and
               \* no sum has wrapped
    promise    \* when the client was told to retry, or -1

vars == <<time, entry, req, requests, faults, served, settled, alone, intact, promise>>

NoEntry == [expires |-> -1]
Entries == [last_update: 0..MaxTime, bytes_served: 0..(Word - 1), expires: Nat]
Idle == [stage |-> "idle"]
Requests ==
    {Idle} \cup [stage: {"checked"}]
    \cup [stage: {"get", "add"}, bytes: Sizes \ {0}, now: 0..MaxTime]
    \cup [stage: {"replace"}, bytes: Sizes \ {0}, now: 0..MaxTime, bytes_served: 0..(Word - 1)]

Max2(a, b) == IF a > b THEN a ELSE b
Min2(a, b) == IF a < b THEN a ELSE b

\* What is left of an entry's bytes at a time that may even lie before its
\* last update, when the clock was read before another worker wrote.
Remaining(sp, now) ==
    LET elapsed == now - sp.last_update
    IN IF elapsed * bytes_per_sec < sp.bytes_served
       THEN sp.bytes_served - elapsed * bytes_per_sec
       ELSE 0

Debt == IF entry = NoEntry THEN 0 ELSE Remaining(entry, time)

retry_seconds_mutant(debt) == (debt - maxdebt) \div bytes_per_sec
retry_seconds(debt) == (debt - maxdebt) \div bytes_per_sec + 1

\* 0 tells memcached to keep the entry for ever.
memcached_expiration_mutant(bytes) ==
    Min2(RealtimeMaxdelta, Max2(maxdebt, bytes) \div bytes_per_sec)
memcached_expiration(bytes) ==
    Min2(RealtimeMaxdelta, (2 * Max2(maxdebt, bytes)) \div bytes_per_sec)

-----------------------------------------------------------------------------

Init ==
    /\ time = 0
    /\ entry = NoEntry
    /\ req = [w \in Workers |-> Idle]
    /\ requests = 0
    /\ faults = 0
    /\ served = 0
    /\ settled = 0
    /\ alone = TRUE
    /\ intact = TRUE
    /\ promise = -1

\* memcached_rate_limiter::check and what process_request makes of it.
check(w) ==
    /\ req[w] = Idle
    /\ requests < MaxRequests
    /\ IF Debt < maxdebt
       THEN /\ req' = [req EXCEPT ![w] = [stage |-> "checked"]]
            /\ alone' = (alone /\ \A v \in Workers : req[v] = Idle)
            /\ requests' = requests + 1
            /\ UNCHANGED promise
       ELSE /\ promise' = time + retry_seconds(Debt)
            /\ UNCHANGED <<req, requests, alone>>
    /\ UNCHANGED <<time, entry, faults, served, settled, intact>>

\* The response is sent; update() begins by reading the clock.  Nothing is
\* charged for a response without a body, or for a request that failed.
respond(w) ==
    /\ req[w].stage = "checked"
    /\ \E bytes \in Sizes :
          /\ req' = [req EXCEPT ![w] = IF bytes = 0 THEN Idle
                                       ELSE [stage |-> "get", bytes |-> bytes, now |-> time]]
          /\ served' = served + bytes
    /\ UNCHANGED <<time, entry, requests, faults, settled, alone, intact, promise>>

\* memcached_get, and the new value when there is an entry.
charged_mutant(sp, r) == r.bytes
charged(sp, r) == (Remaining(sp, r.now) + r.bytes) % Word

get(w) ==
    /\ req[w].stage = "get"
    /\ IF entry = NoEntry
       THEN /\ req' = [req EXCEPT ![w].stage = "add"]
            /\ UNCHANGED intact
       ELSE /\ req' = [req EXCEPT ![w] =
                         [stage |-> "replace", bytes |-> @.bytes, now |-> @.now,
                          bytes_served |-> charged(entry, @)]]
            /\ intact' = (intact /\ Remaining(entry, req[w].now) + req[w].bytes < Word)
    /\ UNCHANGED <<time, entry, requests, faults, served, settled, alone, promise>>

Stored_mutant(r, bytes_served) ==
    [last_update |-> time, bytes_served |-> bytes_served,
     expires |-> IF memcached_expiration(r.bytes) = 0 THEN MaxTime + 1
                 ELSE time + memcached_expiration(r.bytes)]
Stored(r, bytes_served) ==
    [last_update |-> r.now, bytes_served |-> bytes_served,
     expires |-> IF memcached_expiration(r.bytes) = 0 THEN MaxTime + 1
                 ELSE time + memcached_expiration(r.bytes)]

\* The charge invalidates what the client was told before.
Settle(w) ==
    /\ settled' = settled + req[w].bytes
    /\ promise' = -1
    /\ req' = [req EXCEPT ![w] = Idle]

\* memcached_replace, which does nothing when the entry has gone.
replace(w) ==
    /\ req[w].stage = "replace"
    /\ entry' = IF entry = NoEntry THEN NoEntry ELSE Stored(req[w], req[w].bytes_served)
    /\ intact' = (intact /\ entry # NoEntry)
    /\ Settle(w)
    /\ UNCHANGED <<time, requests, faults, served, alone>>

\* memcached_add: MEMCACHED_NOTSTORED when there is an entry by now.
NotStored(r) == [r EXCEPT !.stage = "get"]

add(w) ==
    /\ req[w].stage = "add"
    /\ IF entry = NoEntry
       THEN /\ entry' = Stored(req[w], req[w].bytes)
            /\ Settle(w)
       ELSE /\ req' = [req EXCEPT ![w] = NotStored(@)]
            /\ UNCHANGED <<entry, settled, promise>>
    /\ UNCHANGED <<time, requests, faults, served, alone, intact>>

-----------------------------------------------------------------------------
(* memcached and the clock. *)

expire ==
    /\ entry # NoEntry
    /\ entry.expires <= time
    /\ entry' = NoEntry
    /\ intact' = (intact /\ Debt = 0 /\ \A w \in Workers : req[w].stage \in {"idle", "checked"})
    /\ UNCHANGED <<time, req, requests, faults, served, settled, alone, promise>>

\* It is evicted, or memcached is started anew.
evict ==
    /\ entry # NoEntry
    /\ faults < MaxFaults
    /\ faults' = faults + 1
    /\ entry' = NoEntry
    /\ intact' = FALSE
    /\ UNCHANGED <<time, req, requests, served, settled, alone, promise>>

\* memcached does not answer: get returns nothing; replace, or add with any
\* other error than NOTSTORED, leaves the bytes unrecorded.
unavailable(w) ==
    /\ faults < MaxFaults
    /\ faults' = faults + 1
    /\ \/ /\ req[w].stage = "get"
          /\ req' = [req EXCEPT ![w].stage = "add"]
          /\ UNCHANGED <<requests, settled, promise>>
       \/ /\ req[w].stage \in {"replace", "add"}
          /\ Settle(w)
          /\ UNCHANGED requests
       \/ /\ req[w] = Idle
          /\ requests < MaxRequests
          /\ requests' = requests + 1
          /\ req' = [req EXCEPT ![w] = [stage |-> "checked"]]
          /\ UNCHANGED <<settled, promise>>
    /\ alone' = (alone /\ \A v \in Workers \ {w} : req[v] = Idle)
    /\ intact' = FALSE
    /\ UNCHANGED <<time, entry, served>>

tick ==
    /\ time < MaxTime
    /\ time' = time + 1
    /\ served' = Max2(served - bytes_per_sec, 0)
    /\ settled' = Max2(settled - bytes_per_sec, 0)
    /\ UNCHANGED <<entry, req, requests, faults, alone, intact, promise>>

update(w) == get(w) \/ replace(w) \/ add(w)
Next ==
    \/ \E w \in Workers : check(w) \/ respond(w) \/ update(w) \/ unavailable(w)
    \/ expire \/ evict \/ tick

Spec == Init /\ [][Next]_vars

-----------------------------------------------------------------------------
(* Properties. *)

TypeOK ==
    /\ time \in 0..MaxTime
    /\ entry \in {NoEntry} \cup Entries
    /\ req \in [Workers -> Requests]
    /\ requests \in 0..MaxRequests
    /\ faults \in 0..MaxFaults
    /\ served \in Nat
    /\ settled \in Nat
    /\ alone \in BOOLEAN
    /\ intact \in BOOLEAN
    /\ promise \in Nat \cup {-1}

\* However its requests overlap, and whichever update overwrites which, a
\* client is never held to owe more than it was served.
NeverOvercharged == Debt <= settled

\* A client whose requests come one after the other is charged in full, as
\* long as memcached loses nothing.
ChargedInFull ==
    (alone /\ intact /\ \A w \in Workers : req[w] = Idle) => served <= Debt

\* What update() has recorded of a client is neither more than it was served nor,
\* where nothing can get lost, less.
DebtRight == NeverOvercharged /\ ChargedInFull

\* A client that was refused, waited as long as it was told to and was
\* served nothing in between is admitted.
RetryAfterHonoured == (promise # -1 /\ promise <= time) => Debt < maxdebt

\* An entry is given to memcached with an expiration "after which the
\* memcached entry is guaranteed to be irrelevant": what is forgotten with
\* it is less than a second's allowance, when the client's requests come
\* one after the other, none wrapped, and it is not cut at RealtimeMaxdelta.
ExpiryIrrelevant ==
    [][(expire /\ alone /\ intact) => Debt < bytes_per_sec]_vars

=============================================================================
