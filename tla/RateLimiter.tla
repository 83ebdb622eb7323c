----------------------------- MODULE RateLimiter ----------------------------
(***************************************************************************)
(* The token buckets of app/services/rate_limit.py: Celery workers that    *)
(* must take one token from the global bucket and one from the bucket of   *)
(* the recipient's domain before they may call Postal.  The buckets are    *)
(* two Redis hashes that every worker reads and rewrites in an optimistic  *)
(* WATCH / MULTI / EXEC transaction, and that expire when nobody writes    *)
(* them.                                                                   *)
(*                                                                         *)
(* Tokens are counted in the time they take to refill: a bucket of r       *)
(* tokens a minute holds at most one Minute, gains one unit a tick, and    *)
(* Cost[b] = Minute / r units make one of its tokens.  One action is one   *)
(* Redis command or one reading of the clock; the workers share one clock  *)
(* (the deployment runs them on one host).                                 *)
(***************************************************************************)
EXTENDS Integers, FiniteSets

CONSTANTS
    Workers,    \* the Celery worker processes
    Domains,    \* the recipient domains
    Global,     \* the bucket rl:global
    NoDomain,   \* what a worker outside acquire sends to
    Minute,     \* ticks in a minute: what a full bucket holds
    Cost,       \* units of one token in each bucket
    MaxTries,   \* RateLimiter(max_watch_retries)
    MaxClock    \* bound: ticks the model runs

Buckets == {Global} \cup Domains

ASSUME RateLimiterAssumption ==
    /\ IsFiniteSet(Workers)
    /\ Global \notin Domains /\ NoDomain \notin Buckets \cup Workers
    /\ Minute \in Nat \ {0}
    /\ Cost \in [Buckets -> 1 .. Minute]
    /\ MaxTries \in Nat \ {0}
    /\ MaxClock \in Nat

Times == 0 .. MaxClock

VARIABLES
    clock,      \* time.time(), in ticks
    bucket,     \* the Redis hash of each bucket
    job,        \* where each worker is in acquire, and its locals
    \* what the model records to state properties; no action reads them
    excess,     \* the most that b granted, in any stretch of time that ends now,
                \* beyond what refilled in the stretch
    refusal,    \* each worker's last refusal, until a grant touches its keys
    moved       \* writes by others to its keys, and expiries, since acquire began

ghosts == <<excess, refusal, moved>>
vars   == <<clock, bucket, job, ghosts>>

\* A hash that does not exist reads as a full bucket; its ts is then the
\* moment it expired.
Hashes == [live : BOOLEAN, tokens : 0 .. Minute, ts : Times,
           dies : 0 .. MaxClock + 2 * Minute]

\* dirty: a key it watches was written since its WATCH; now: its reading of
\* the clock; read: the tokens it computed; tries: its failed transactions.
Jobs == [pc : {"idle", "watch", "clock", "global", "domain", "exec"},
         dom : Domains \cup {NoDomain}, dirty : BOOLEAN, now : Times,
         read : [Buckets -> 0 .. Minute], tries : 0 .. MaxTries - 1]

NothingRead == [b \in Buckets |-> 0]

Attempt(pc, d, n) == [pc |-> pc, dom |-> d, dirty |-> FALSE, now |-> 0,
                      read |-> NothingRead, tries |-> n]

Idle == Attempt("idle", NoDomain, 0)

NoRefusal == [on |-> FALSE, dom |-> NoDomain, due |-> 0]

Refusals == [on : BOOLEAN, dom : Domains \cup {NoDomain},
             due : 0 .. MaxClock + Minute]

TypeOK ==
    /\ clock \in Times
    /\ bucket \in [Buckets -> Hashes]
    /\ job \in [Workers -> Jobs]
    /\ \A w \in Workers : job[w].pc # "idle" => job[w].dom \in Domains
    /\ excess \in [Buckets -> Nat]
    /\ refusal \in [Workers -> Refusals]
    /\ \A w \in Workers : refusal[w].on => refusal[w].dom \in Domains
    /\ moved \in [Workers -> 0 .. MaxTries]

-----------------------------------------------------------------------------
(* Reading the state.                                                       *)

\* build_send_buckets: the keys an acquire for this domain watches.
KeysOf(d) == {Global, d}

Keys(w) == KeysOf(job[w].dom)

\* Mutant of Refilled: the refill without min(capacity, ...).
RefilledUncapped(b, t) ==
    IF bucket[b].live THEN bucket[b].tokens + (t - bucket[b].ts) ELSE Minute

\* Mutant of Refilled: a refusal stamps the bucket and drops the refill.
RefillLostOnRefusal(b, t) ==
    LET elapsed == IF t > bucket[b].ts THEN t - bucket[b].ts ELSE 0
        level   == bucket[b].tokens + elapsed
    IN IF ~bucket[b].live THEN Minute
       ELSE IF level < Cost[b] THEN bucket[b].tokens
       ELSE IF level > Minute THEN Minute ELSE level

\* The tokens of bucket b at time t: full when the hash is absent, and
\* otherwise what was stored plus the refill, at most a minute's worth.
Refilled(b, t) ==
    LET elapsed == IF t > bucket[b].ts THEN t - bucket[b].ts ELSE 0
        level   == bucket[b].tokens + elapsed
    IN IF ~bucket[b].live \/ level > Minute THEN Minute ELSE level

\* The buckets without a token for w, and the longest wait they ask for.
Short(w) == {b \in Keys(w) : job[w].read[b] < Cost[b]}

RetryAfter(w) ==
    CHOOSE t \in 0 .. Minute :
        /\ \E b \in Short(w) : t = Cost[b] - job[w].read[b]
        /\ \A b \in Short(w) : t >= Cost[b] - job[w].read[b]

\* Mutant of Watchers: EXEC without the WATCH.
WatchNothing(keys, w) == {}

\* The workers but w whose WATCH holds one of these keys.
Watchers(keys, w) ==
    {v \in Workers \ {w} :
        job[v].pc \notin {"idle", "watch"} /\ Keys(v) \cap keys # {}}

\* The jobs and the count of a write to these keys by w, as others see it.
Seen(keys, w) ==
    [v \in Workers |->
        IF v \in Watchers(keys, w) THEN [job[v] EXCEPT !.dirty = TRUE]
        ELSE job[v]]

Count(keys, w) ==
    moved' = [v \in Workers |->
        IF v = w THEN 0
        ELSE IF v \in Watchers(keys, w) /\ moved[v] < MaxTries
        THEN moved[v] + 1 ELSE moved[v]]

-----------------------------------------------------------------------------
Init ==
    /\ clock = 0
    /\ bucket = [b \in Buckets |->
                    [live |-> FALSE, tokens |-> Minute, ts |-> 0, dies |-> 0]]
    /\ job = [w \in Workers |-> Idle]
    /\ excess = [b \in Buckets |-> 0]
    /\ refusal = [w \in Workers |-> NoRefusal]
    /\ moved = [w \in Workers |-> 0]

Begin(w, d) ==
    /\ job[w].pc = "idle"
    /\ job' = [job EXCEPT ![w] = Attempt("watch", d, 0)]
    /\ refusal' = [refusal EXCEPT ![w] = NoRefusal]
    /\ UNCHANGED <<clock, bucket, excess, moved>>

Watch(w) ==
    /\ job[w].pc = "watch"
    /\ job' = [job EXCEPT ![w].pc = "clock", ![w].dirty = FALSE]
    /\ UNCHANGED <<clock, bucket, ghosts>>

ReadClock(w) ==
    /\ job[w].pc = "clock"
    /\ job' = [job EXCEPT ![w].pc = "global", ![w].now = clock]
    /\ UNCHANGED <<clock, bucket, ghosts>>

\* Mutant of ReadGlobal: the refill is stored before MULTI, which touches the
\* worker's own WATCH.
ReadGlobalAndStore(w) ==
    /\ job[w].pc = "global"
    /\ job' = [Seen({Global}, w) EXCEPT ![w].pc = "domain", ![w].dirty = TRUE,
                    ![w].read[Global] = Refilled(Global, job[w].now)]
    /\ bucket' = [bucket EXCEPT ![Global] =
            [live |-> TRUE, tokens |-> Refilled(Global, job[w].now),
             ts |-> job[w].now, dies |-> clock + 2 * Minute]]
    /\ UNCHANGED <<clock, ghosts>>

\* HMGET of the global bucket, then of the domain's.
ReadGlobal(w) ==
    /\ job[w].pc = "global"
    /\ job' = [job EXCEPT ![w].pc = "domain",
                          ![w].read[Global] = Refilled(Global, job[w].now)]
    /\ UNCHANGED <<clock, bucket, ghosts>>

ReadDomain(w) ==
    /\ job[w].pc = "domain"
    /\ job' = [job EXCEPT ![w].pc = "exec",
            ![w].read[job[w].dom] = Refilled(job[w].dom, job[w].now)]
    /\ UNCHANGED <<clock, bucket, ghosts>>

\* EXEC with no watched key written: both buckets are rewritten, and they
\* give a token each or none.
Commit(w) ==
    LET allowed  == Short(w) = {}
        Taken(b) == IF allowed THEN Cost[b] ELSE 0
    IN /\ job[w].pc = "exec"
       /\ ~job[w].dirty
       /\ bucket' = [b \in Buckets |->
            IF b \in Keys(w)
            THEN [live |-> TRUE, tokens |-> job[w].read[b] - Taken(b),
                  ts |-> job[w].now, dies |-> clock + 2 * Minute]
            ELSE bucket[b]]
       /\ job' = [Seen(Keys(w), w) EXCEPT ![w] = Idle]
       /\ excess' = [b \in Buckets |->
            IF b \in Keys(w) THEN excess[b] + Taken(b) ELSE excess[b]]
       /\ refusal' = [v \in Workers |->
            IF ~allowed /\ v = w
            THEN [on |-> TRUE, dom |-> job[w].dom,
                  due |-> job[w].now + RetryAfter(w)]
            ELSE IF allowed /\ KeysOf(refusal[v].dom) \cap Keys(w) # {}
            THEN NoRefusal
            ELSE refusal[v]]
       /\ Count(Keys(w), w)
       /\ UNCHANGED clock

\* WatchError: once more, or the answer "retry in a second".
Conflict(w) ==
    /\ job[w].pc = "exec"
    /\ job[w].dirty
    /\ job' = [job EXCEPT ![w] =
            IF @.tries + 1 < MaxTries
            THEN Attempt("watch", @.dom, @.tries + 1) ELSE Idle]
    /\ moved' = IF job[w].tries + 1 < MaxTries THEN moved
                ELSE [moved EXCEPT ![w] = 0]
    /\ UNCHANGED <<clock, bucket, excess, refusal>>

\* The worker dies or loses Redis; a transaction it did not EXEC is gone.
Abandon(w) ==
    /\ job[w].pc # "idle"
    /\ job' = [job EXCEPT ![w] = Idle]
    /\ moved' = [moved EXCEPT ![w] = 0]
    /\ UNCHANGED <<clock, bucket, excess, refusal>>

\* The TTL of a hash nobody rewrote runs out; EXEC notices it.
Expire(b) ==
    /\ bucket[b].live
    /\ clock >= bucket[b].dies
    /\ bucket' = [bucket EXCEPT ![b] = [live |-> FALSE, tokens |-> Minute,
                                        ts |-> clock, dies |-> 0]]
    /\ job' = Seen({b}, NoDomain)
    /\ Count({b}, NoDomain)
    /\ UNCHANGED <<clock, excess, refusal>>

\* Redis expires a key before the clock moves past its TTL.  Each stretch
\* that ends now becomes a tick longer, and one that granted nothing starts.
Tick ==
    /\ clock < MaxClock
    /\ \A b \in Buckets : bucket[b].live => clock < bucket[b].dies
    /\ clock' = clock + 1
    /\ excess' = [b \in Buckets |-> IF excess[b] > 0 THEN excess[b] - 1 ELSE 0]
    /\ UNCHANGED <<bucket, job, refusal, moved>>

Next ==
    \/ \E w \in Workers :
        \/ \E d \in Domains : Begin(w, d)
        \/ Watch(w)
        \/ ReadClock(w)
        \/ ReadGlobal(w)
        \/ ReadDomain(w)
        \/ Commit(w)
        \/ Conflict(w)
        \/ Abandon(w)
    \/ \E b \in Buckets : Expire(b)
    \/ Tick

Spec == Init /\ [][Next]_vars

-----------------------------------------------------------------------------
(* Properties.                                                              *)

\* What the buckets promise whoever receives the mail, and the provider:
\* over any stretch of time, the EXECs of a bucket grant what a full bucket
\* holds, what refills in that time, and one token more, however the workers'
\* transactions interleave and whenever the keys expire (rate_limit.py:52-87).
\* The token more is that of a worker that read the clock (:60) long before
\* its EXEC (:82): the bucket it leaves is stamped with the old reading, and
\* the next worker finds the refill since then.  WATCH lets no second such
\* worker through.  It is not "at most the rate in any minute".
WindowBound == \A b \in Buckets : excess[b] <= Minute + Cost[b]

\* A refused worker that waits the retry_after it was told (rate_limit.py:
\* 72-74) finds a token in both buckets, unless one of them granted a token
\* meanwhile: other refusals, conflicts and expiries cost it nothing.
RetryIsEnough ==
    \A w \in Workers :
        (refusal[w].on /\ clock >= refusal[w].due)
            => \A b \in KeysOf(refusal[w].dom) : Refilled(b, clock) >= Cost[b]

\* A worker that lost n transactions in one acquire lost them to n writes of
\* others to its keys, or expiries of them: the answer after max_watch_retries
\* (rate_limit.py:87) means that about as many other acquires were settled,
\* never that all were stuck.
ContentionIsProgress == \A w \in Workers : job[w].tries <= moved[w]

=============================================================================
