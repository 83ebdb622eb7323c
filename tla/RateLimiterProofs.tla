-------------------------- MODULE RateLimiterProofs --------------------------
(***************************************************************************)
(* Proofs about RateLimiter, for any number of workers and domains, any    *)
(* rates and any number of tries.                                          *)
(***************************************************************************)
EXTENDS RateLimiter, TLAPS

-----------------------------------------------------------------------------
(* Why the three hold: what every step of every worker preserves.           *)

\* When the last EXEC on a bucket that exists was, by the TTL it set.
WrittenAt(b) == bucket[b].dies - 2 * Minute

\* Of the stretches of time that end now, the one that granted most beyond its
\* refill either starts at or before the stamp of the bucket, so that what it
\* granted and what the bucket holds or will refill came from a full bucket,
\* its refill and one token; or it starts after the stamp, and holds but the
\* last EXEC's token; or it granted nothing.
Budget ==
    \A b \in Buckets :
        /\ bucket[b].ts <= clock
        /\ bucket[b].live =>
            bucket[b].ts <= WrittenAt(b) /\ WrittenAt(b) <= clock
        /\ ~bucket[b].live => bucket[b].tokens = Minute
        /\ \/ excess[b] = 0
           \/ excess[b] + bucket[b].tokens + (clock - bucket[b].ts)
                <= Minute + Cost[b]
           \/ bucket[b].live /\ excess[b] + (clock - WrittenAt(b)) <= Cost[b]

\* What is so of a worker that read the clock, until a key it watches is
\* written: no key of it was stamped or written after that reading, and what
\* it read of the buckets they still hold.
UpToDate(w) ==
    /\ \A b \in Keys(w) :
        /\ bucket[b].ts <= job[w].now
        /\ bucket[b].live => WrittenAt(b) <= job[w].now
    /\ job[w].pc # "global" =>
        job[w].read[Global] = Refilled(Global, job[w].now)
    /\ job[w].pc = "exec" =>
        job[w].read[job[w].dom] = Refilled(job[w].dom, job[w].now)

Fresh ==
    \A w \in Workers : job[w].pc \in {"global", "domain", "exec"} =>
        job[w].now <= clock /\ (job[w].dirty \/ UpToDate(w))

\* A bucket of a refused worker holds its token, or will when it is due.
TokenDue ==
    \A w \in Workers : refusal[w].on =>
        \A b \in KeysOf(refusal[w].dom) :
            \/ ~bucket[b].live
            \/ bucket[b].tokens >= Cost[b]
            \/ bucket[b].tokens + (refusal[w].due - bucket[b].ts) >= Cost[b]

\* The write that spoils a transaction is one more that moved its keys.
SpoiltByOthers ==
    \A w \in Workers :
        job[w].tries + (IF job[w].dirty THEN 1 ELSE 0) <= moved[w]

-----------------------------------------------------------------------------
(* Type correctness.                                                        *)

\* A bucket and its cost are of the model, and a token fits in a minute.
LEMMA BucketsType ==
    /\ Domains \subseteq Buckets /\ Global \in Buckets
    /\ NoDomain \notin Buckets
    /\ \A b \in Buckets : Cost[b] \in Nat /\ 1 <= Cost[b] /\ Cost[b] <= Minute
    /\ Minute \in Nat /\ MaxClock \in Nat /\ MaxTries \in Nat /\ MaxTries > 0
  BY RateLimiterAssumption DEF Buckets

\* A refilled bucket holds between nothing and a minute's worth.
LEMMA RefilledType ==
    ASSUME bucket \in [Buckets -> Hashes], NEW b \in Buckets, NEW t \in Times
    PROVE  Refilled(b, t) \in 0 .. Minute
  <1>1. bucket[b].tokens \in 0 .. Minute /\ bucket[b].ts \in Times
    BY DEF Hashes
  <1>2. bucket[b].tokens \in Nat /\ bucket[b].ts \in Nat /\ t \in Nat
    BY <1>1, BucketsType DEF Times
  <1>3. Minute \in Nat
    BY BucketsType
  <1> QED
    BY <1>1, <1>2, <1>3 DEF Refilled

\* The keys of a worker inside acquire are buckets.
LEMMA KeysType ==
    ASSUME TypeOK, NEW w \in Workers, job[w].pc # "idle"
    PROVE  job[w].dom \in Domains /\ Keys(w) \subseteq Buckets
  BY BucketsType DEF TypeOK, Keys, KeysOf

\* A worker that read a bucket has a job still.
LEMMA ReadType ==
    ASSUME job \in [Workers -> Jobs], NEW w \in Workers, NEW b \in Buckets,
           NEW n \in 0 .. Minute, NEW p \in {"domain", "exec"},
           job' = [job EXCEPT ![w].pc = p, ![w].read[b] = n]
    PROVE  /\ job' \in [Workers -> Jobs]
           /\ job'[w].pc = p
           /\ job'[w].read = [job[w].read EXCEPT ![b] = n]
           /\ job'[w].dom = job[w].dom /\ job'[w].dirty = job[w].dirty
           /\ job'[w].now = job[w].now /\ job'[w].tries = job[w].tries
           /\ \A v \in Workers \ {w} : job'[v] = job[v]
  <1> DEFINE j == [job[w] EXCEPT !.pc = p, !.read = [job[w].read EXCEPT ![b] = n]]
  <1>1. [job[w].read EXCEPT ![b] = n] \in [Buckets -> 0 .. Minute]
    BY DEF Jobs
  <1>2. j \in Jobs
    BY <1>1 DEF Jobs
  <1>3. job' = [job EXCEPT ![w] = j]
    BY DEF Jobs
  <1> QED
    BY <1>2, <1>3 DEF Jobs

\* So is one that goes on after WATCH or after the clock.
LEMMA StartType ==
    ASSUME job \in [Workers -> Jobs], NEW w \in Workers, NEW p \in {"clock", "global"},
           NEW f \in BOOLEAN, NEW t \in Times,
           job' = [job EXCEPT ![w] = [job[w] EXCEPT !.pc = p, !.dirty = f, !.now = t]]
    PROVE  /\ job' \in [Workers -> Jobs]
           /\ job'[w].dom = job[w].dom
           /\ \A v \in Workers \ {w} : job'[v] = job[v]
  <1> DEFINE j == [job[w] EXCEPT !.pc = p, !.dirty = f, !.now = t]
  <1>1. j \in Jobs /\ j.dom = job[w].dom
    BY DEF Jobs
  <1>2. job' = [job EXCEPT ![w] = j]
    OBVIOUS
  <1> HIDE DEF j
  <1> QED
    BY <1>1, <1>2

\* A new attempt is a job.
LEMMA AttemptType ==
    ASSUME NEW d \in Domains, NEW n \in 0 .. MaxTries - 1
    PROVE  Attempt("watch", d, n) \in Jobs
  BY BucketsType DEF Attempt, Jobs, NothingRead, Times

\* So is the job of a worker outside acquire.
LEMMA IdleType == Idle \in Jobs
  BY BucketsType DEF Idle, Attempt, Jobs, NothingRead, Times

\* Seeing a write changes nothing of a job but its dirty flag.
LEMMA SeenType ==
    ASSUME job \in [Workers -> Jobs], NEW keys, NEW w
    PROVE  /\ Seen(keys, w) \in [Workers -> Jobs]
           /\ \A v \in Workers :
                /\ Seen(keys, w)[v].pc = job[v].pc
                /\ Seen(keys, w)[v].dom = job[v].dom
                /\ Seen(keys, w)[v].now = job[v].now
                /\ Seen(keys, w)[v].read = job[v].read
                /\ Seen(keys, w)[v].tries = job[v].tries
                /\ v \in Watchers(keys, w) => Seen(keys, w)[v].dirty
                /\ v \notin Watchers(keys, w) => Seen(keys, w)[v] = job[v]
  BY DEF Seen, Jobs

\* The count of the writes a worker saw stays within MaxTries.
LEMMA CountType ==
    ASSUME moved \in [Workers -> 0 .. MaxTries], NEW keys, NEW w,
           Count(keys, w)
    PROVE  moved' \in [Workers -> 0 .. MaxTries]
  BY BucketsType DEF Count

\* A bucket without a token asks for a wait of at most a minute, and the
\* longest of the waits covers each of the buckets.
LEMMA RetryAfterType ==
    ASSUME TypeOK, NEW w \in Workers, job[w].pc = "exec", Short(w) # {}
    PROVE  /\ RetryAfter(w) \in 0 .. Minute
           /\ \A b \in Short(w) : RetryAfter(w) >= Cost[b] - job[w].read[b]
  <1> DEFINE Wait(b) == Cost[b] - job[w].read[b]
  <1>1. Keys(w) = {Global, job[w].dom} /\ Keys(w) \subseteq Buckets
    BY KeysType DEF Keys, KeysOf
  <1>2. \A b \in Buckets : job[w].read[b] \in Nat /\ job[w].read[b] <= Minute
    BY BucketsType DEF TypeOK, Jobs
  <1>3. \A b \in Short(w) : b \in Buckets /\ Wait(b) \in 0 .. Minute
    BY <1>1, <1>2, BucketsType DEF Short
  <1>4. \E t \in 0 .. Minute :
            /\ \E b \in Short(w) : t = Wait(b)
            /\ \A b \in Short(w) : t >= Wait(b)
    <2>1. PICK x \in Short(w) : TRUE
      OBVIOUS
    <2>2. PICK y \in Short(w) : \A b \in Short(w) : Wait(y) >= Wait(b)
      <3>1. Short(w) \subseteq {Global, job[w].dom}
        BY <1>1 DEF Short
      <3>2. CASE \E y \in Short(w) : Wait(y) > Wait(x)
        <4>1. PICK y \in Short(w) : Wait(y) > Wait(x)
          BY <3>2
        <4>2. \A b \in Short(w) : b = x \/ b = y
          BY <4>1, <3>1, <1>3
        <4> HIDE DEF Wait
        <4> QED
          BY <4>1, <4>2, <1>3, BucketsType
      <3>3. CASE ~ \E y \in Short(w) : Wait(y) > Wait(x)
        <4> HIDE DEF Wait
        <4> QED
          BY <3>3, <1>3, BucketsType
      <3> QED
        BY <3>2, <3>3
    <2> QED
      BY <2>2, <1>3
  <1> QED
    BY <1>4 DEF RetryAfter

\* A hash as EXEC or the expiry leaves it.
LEMMA HashType ==
    ASSUME NEW l \in BOOLEAN, NEW n \in 0 .. Minute, NEW t \in Times,
           NEW d \in 0 .. MaxClock + 2 * Minute
    PROVE  [live |-> l, tokens |-> n, ts |-> t, dies |-> d] \in Hashes
  BY DEF Hashes

\* The initial state is well typed.
LEMMA InitType == Init => TypeOK
  <1> SUFFICES ASSUME Init PROVE TypeOK
    OBVIOUS
  <1>1. clock \in Times
    BY BucketsType DEF Init, Times
  <1>2. bucket \in [Buckets -> Hashes]
    <2>1. [live |-> FALSE, tokens |-> Minute, ts |-> 0, dies |-> 0] \in Hashes
      BY BucketsType DEF Hashes, Times
    <2> QED
      BY <2>1 DEF Init
  <1>3. /\ job \in [Workers -> Jobs]
        /\ \A w \in Workers : job[w].pc # "idle" => job[w].dom \in Domains
    BY IdleType DEF Init, Idle, Attempt
  <1>4. excess \in [Buckets -> Nat]
    BY DEF Init
  <1>5. /\ refusal \in [Workers -> Refusals]
        /\ \A w \in Workers : refusal[w].on => refusal[w].dom \in Domains
    BY BucketsType DEF Init, Refusals, NoRefusal
  <1>6. moved \in [Workers -> 0 .. MaxTries]
    BY BucketsType DEF Init
  <1> QED
    BY <1>1, <1>2, <1>3, <1>4, <1>5, <1>6 DEF TypeOK

\* A refusal of a domain of the model is well typed, and so is none.
LEMMA NoRefusalType == NoRefusal \in Refusals /\ ~NoRefusal.on
  BY BucketsType DEF NoRefusal, Refusals

\* Commit leaves the state well typed.
LEMMA CommitType ==
    ASSUME TypeOK, NEW w \in Workers, Commit(w)
    PROVE  TypeOK'
  <1> DEFINE allowed  == Short(w) = {}
             Taken(b) == IF allowed THEN Cost[b] ELSE 0
  <1>1. job[w].pc = "exec" /\ job[w].dom \in Domains /\ Keys(w) \subseteq Buckets
    BY KeysType DEF Commit
  <1>2. /\ job[w].now \in Times
        /\ \A b \in Buckets : job[w].read[b] \in 0 .. Minute
        /\ clock \in Times
    BY DEF TypeOK, Jobs
  <1>3. \A b \in Keys(w) : job[w].read[b] - Taken(b) \in 0 .. Minute
    BY <1>1, <1>2, BucketsType DEF Short
  <1>4. bucket' \in [Buckets -> Hashes]
    <2>1. clock + 2 * Minute \in 0 .. MaxClock + 2 * Minute
      BY <1>2, BucketsType DEF Times
    <2>2. \A b \in Keys(w) :
            [live |-> TRUE, tokens |-> job[w].read[b] - Taken(b),
             ts |-> job[w].now, dies |-> clock + 2 * Minute] \in Hashes
      BY <1>2, <1>3, <2>1, HashType
    <2>3. bucket' = [b \in Buckets |->
            IF b \in Keys(w)
            THEN [live |-> TRUE, tokens |-> job[w].read[b] - Taken(b),
                  ts |-> job[w].now, dies |-> clock + 2 * Minute]
            ELSE bucket[b]]
      BY DEF Commit
    <2> QED
      BY <2>2, <2>3 DEF TypeOK
  <1>5. /\ job' \in [Workers -> Jobs]
        /\ \A v \in Workers : job'[v].pc # "idle" => job'[v].dom \in Domains
    <2>1. job' = [Seen(Keys(w), w) EXCEPT ![w] = Idle]
      BY DEF Commit
    <2>2. job \in [Workers -> Jobs]
      BY DEF TypeOK
    <2> QED
      BY <2>1, <2>2, SeenType, IdleType DEF TypeOK, Idle, Attempt
  <1>6. excess' \in [Buckets -> Nat]
    <2>1. \A b \in Buckets : Taken(b) \in Nat
      BY BucketsType
    <2>2. excess' = [b \in Buckets |->
            IF b \in Keys(w) THEN excess[b] + Taken(b) ELSE excess[b]]
      BY DEF Commit
    <2> HIDE DEF Taken
    <2> QED
      BY <2>1, <2>2 DEF TypeOK
  <1>7. /\ refusal' \in [Workers -> Refusals]
        /\ \A v \in Workers : refusal'[v].on => refusal'[v].dom \in Domains
    <2> DEFINE new == [on |-> TRUE, dom |-> job[w].dom,
                       due |-> job[w].now + RetryAfter(w)]
    <2>1. ~allowed => new \in Refusals /\ new.dom \in Domains
      <3>1. ~allowed => RetryAfter(w) \in 0 .. Minute
        BY <1>1, RetryAfterType
      <3>2. ~allowed => job[w].now + RetryAfter(w) \in 0 .. MaxClock + Minute
        BY <3>1, <1>2, BucketsType DEF Times
      <3> QED
        BY <3>2, <1>1 DEF Refusals
    <2>2. refusal' = [v \in Workers |->
            IF ~allowed /\ v = w THEN new
            ELSE IF allowed /\ KeysOf(refusal[v].dom) \cap Keys(w) # {}
            THEN NoRefusal
            ELSE refusal[v]]
      BY DEF Commit
    <2> HIDE DEF allowed, new
    <2> QED
      BY <2>1, <2>2, NoRefusalType DEF TypeOK
  <1>8. moved' \in [Workers -> 0 .. MaxTries] /\ clock' = clock
    BY CountType DEF Commit, TypeOK
  <1> QED
    BY <1>2, <1>4, <1>5, <1>6, <1>7, <1>8 DEF TypeOK

\* So does the expiry of a hash.
LEMMA ExpireType ==
    ASSUME TypeOK, NEW b \in Buckets, Expire(b)
    PROVE  TypeOK'
  <1>1. bucket' \in [Buckets -> Hashes]
    <2>1. [live |-> FALSE, tokens |-> Minute, ts |-> clock, dies |-> 0] \in Hashes
      BY BucketsType DEF Hashes, TypeOK, Times
    <2> QED
      BY <2>1 DEF Expire, TypeOK
  <1>2. /\ job' \in [Workers -> Jobs]
        /\ \A v \in Workers : job'[v].pc # "idle" => job'[v].dom \in Domains
    BY SeenType DEF Expire, TypeOK
  <1>3. moved' \in [Workers -> 0 .. MaxTries]
    BY CountType DEF Expire, TypeOK
  <1> QED
    BY <1>1, <1>2, <1>3 DEF Expire, TypeOK

\* And every other step.
LEMMA NextType == TypeOK /\ [Next]_vars => TypeOK'
  <1> SUFFICES ASSUME TypeOK, [Next]_vars PROVE TypeOK'
    OBVIOUS
  <1>1. ASSUME NEW w \in Workers, NEW d \in Domains, Begin(w, d) PROVE TypeOK'
    <2>1. Attempt("watch", d, 0) \in Jobs /\ Attempt("watch", d, 0).dom = d
      BY AttemptType, BucketsType DEF Attempt
    <2> HIDE DEF Attempt
    <2> QED
      BY <1>1, <2>1, NoRefusalType DEF Begin, TypeOK
  <1>2. ASSUME NEW w \in Workers, Watch(w) PROVE TypeOK'
    <2>1. job[w].now \in Times /\ job[w] \in Jobs
      BY DEF TypeOK, Jobs
    <2>2. job' = [job EXCEPT ![w] =
                     [job[w] EXCEPT !.pc = "clock", !.dirty = FALSE, !.now = job[w].now]]
      BY <1>2, <2>1 DEF Watch, TypeOK, Jobs
    <2>3. /\ job' \in [Workers -> Jobs]
          /\ job'[w].dom = job[w].dom
          /\ \A v \in Workers \ {w} : job'[v] = job[v]
      BY <2>1, <2>2, StartType DEF TypeOK
    <2>4. job[w].dom \in Domains
      BY <1>2 DEF Watch, TypeOK
    <2> QED
      BY <1>2, <2>3, <2>4 DEF Watch, TypeOK, ghosts
  <1>3. ASSUME NEW w \in Workers, ReadClock(w) PROVE TypeOK'
    <2>1. job[w].dirty \in BOOLEAN /\ job[w] \in Jobs /\ clock \in Times
      BY DEF TypeOK, Jobs
    <2>2. job' = [job EXCEPT ![w] =
                     [job[w] EXCEPT !.pc = "global", !.dirty = job[w].dirty, !.now = clock]]
      BY <1>3, <2>1 DEF ReadClock, TypeOK, Jobs
    <2>3. /\ job' \in [Workers -> Jobs]
          /\ job'[w].dom = job[w].dom
          /\ \A v \in Workers \ {w} : job'[v] = job[v]
      BY <2>1, <2>2, StartType DEF TypeOK
    <2>4. job[w].dom \in Domains
      BY <1>3 DEF ReadClock, TypeOK
    <2> QED
      BY <1>3, <2>3, <2>4 DEF ReadClock, TypeOK, ghosts
  <1>4. ASSUME NEW w \in Workers, ReadGlobal(w) PROVE TypeOK'
    <2>1. Refilled(Global, job[w].now) \in 0 .. Minute
      BY RefilledType, BucketsType DEF TypeOK, Jobs
    <2>2. /\ job' \in [Workers -> Jobs]
          /\ \A v \in Workers : job'[v].dom = job[v].dom
          /\ \A v \in Workers \ {w} : job'[v] = job[v]
      BY <1>4, <2>1, ReadType, BucketsType DEF ReadGlobal, TypeOK
    <2> QED
      BY <1>4, <2>2 DEF ReadGlobal, TypeOK, ghosts
  <1>5. ASSUME NEW w \in Workers, ReadDomain(w) PROVE TypeOK'
    <2>1. job[w].dom \in Buckets
      BY <1>5, BucketsType DEF ReadDomain, TypeOK
    <2>2. Refilled(job[w].dom, job[w].now) \in 0 .. Minute
      BY <2>1, RefilledType DEF TypeOK, Jobs
    <2>3. /\ job' \in [Workers -> Jobs]
          /\ \A v \in Workers : job'[v].dom = job[v].dom
          /\ \A v \in Workers \ {w} : job'[v] = job[v]
      BY <1>5, <2>1, <2>2, ReadType DEF ReadDomain, TypeOK
    <2> QED
      BY <1>5, <2>3 DEF ReadDomain, TypeOK, ghosts
  <1>6. ASSUME NEW w \in Workers, Commit(w) PROVE TypeOK'
    BY <1>6, CommitType
  <1>7. ASSUME NEW w \in Workers, Conflict(w) PROVE TypeOK'
    <2> DEFINE next == IF job[w].tries + 1 < MaxTries
                       THEN Attempt("watch", job[w].dom, job[w].tries + 1)
                       ELSE Idle
    <2>1. job[w].dom \in Domains /\ job[w].tries \in 0 .. MaxTries - 1
      BY <1>7 DEF Conflict, TypeOK, Jobs
    <2>2. next \in Jobs /\ (next.pc # "idle" => next.dom \in Domains)
      BY <2>1, AttemptType, IdleType, BucketsType DEF Attempt, Idle
    <2>3. job' = [job EXCEPT ![w] = next]
      BY <1>7 DEF Conflict
    <2>4. moved' \in [Workers -> 0 .. MaxTries]
      BY <1>7, BucketsType DEF Conflict, TypeOK
    <2> HIDE DEF next
    <2> QED
      BY <1>7, <2>2, <2>3, <2>4 DEF Conflict, TypeOK
  <1>8. ASSUME NEW w \in Workers, Abandon(w) PROVE TypeOK'
    <2>1. Idle \in Jobs /\ Idle.pc = "idle"
      BY IdleType DEF Idle, Attempt
    <2> QED
      BY <1>8, <2>1, BucketsType DEF Abandon, TypeOK
  <1>9. ASSUME NEW b \in Buckets, Expire(b) PROVE TypeOK'
    BY <1>9, ExpireType
  <1>10. CASE Tick
    BY <1>10, BucketsType DEF Tick, TypeOK, Times, ghosts
  <1>11. CASE UNCHANGED vars
    BY <1>11 DEF vars, ghosts, TypeOK
  <1> QED
    BY <1>1, <1>2, <1>3, <1>4, <1>5, <1>6, <1>7, <1>8, <1>9, <1>10, <1>11
    DEF Next

\* Whatever the workers do, the hashes hold between nothing and a minute's
\* worth of tokens, and a worker is where acquire can be (rate_limit.py).
THEOREM TypeCorrect == Spec => []TypeOK
  <1>1. Init => TypeOK
    BY InitType
  <1>2. TypeOK /\ [Next]_vars => TypeOK'
    BY NextType
  <1> QED
    BY <1>1, <1>2, PTL DEF Spec

-----------------------------------------------------------------------------
(* The budget of a bucket.                                                  *)

\* A write by w touches the watchers of its keys and nobody else.
LEMMA Touched ==
    ASSUME NEW keys, NEW w, NEW v \in Workers, v # w,
           job[v].pc \notin {"idle", "watch"}, Keys(v) \cap keys # {}
    PROVE  v \in Watchers(keys, w)
  BY DEF Watchers

\* At the moment its bucket was stamped with, or later, a refill is what the
\* bucket holds and the time since, and at most a minute's worth.
LEMMA RefilledBound ==
    ASSUME TypeOK, Budget, NEW b \in Buckets, NEW t \in Times,
           bucket[b].ts <= t
    PROVE  /\ Refilled(b, t) \in 0 .. Minute
           /\ Refilled(b, t) <= bucket[b].tokens + (t - bucket[b].ts)
           /\ bucket[b].live =>
                \/ Refilled(b, t) = Minute
                \/ Refilled(b, t) = bucket[b].tokens + (t - bucket[b].ts)
           /\ ~bucket[b].live => Refilled(b, t) = Minute
  <1>1. bucket[b].tokens \in 0 .. Minute /\ bucket[b].ts \in Times
    BY DEF TypeOK, Hashes
  <1>2. /\ bucket[b].tokens \in Nat /\ bucket[b].tokens <= Minute
        /\ bucket[b].ts \in Nat /\ t \in Nat /\ Minute \in Nat
    BY <1>1, BucketsType DEF Times
  <1>3. ~bucket[b].live => bucket[b].tokens = Minute
    BY DEF Budget
  <1> QED
    BY <1>2, <1>3 DEF Refilled

\* What a bucket's numbers are.
LEMMA LevelType ==
    ASSUME TypeOK, NEW b \in Buckets
    PROVE  /\ bucket[b].tokens \in Nat /\ bucket[b].tokens <= Minute
           /\ bucket[b].ts \in Nat /\ bucket[b].dies \in Nat
           /\ excess[b] \in Nat /\ clock \in Nat
           /\ WrittenAt(b) \in Int
  <1>1. bucket[b] \in Hashes /\ clock \in Times /\ excess[b] \in Nat
    BY DEF TypeOK
  <1>2. /\ bucket[b].tokens \in 0 .. Minute /\ bucket[b].ts \in 0 .. MaxClock
        /\ bucket[b].dies \in 0 .. MaxClock + 2 * Minute
    BY <1>1 DEF Hashes, Times
  <1> QED
    BY <1>1, <1>2, BucketsType DEF WrittenAt, Times

\* What Budget says of one bucket.
LEMMA BudgetOf ==
    ASSUME Budget, NEW b \in Buckets
    PROVE  /\ bucket[b].ts <= clock
           /\ bucket[b].live =>
                bucket[b].ts <= WrittenAt(b) /\ WrittenAt(b) <= clock
           /\ ~bucket[b].live => bucket[b].tokens = Minute
           /\ \/ excess[b] = 0
              \/ excess[b] + bucket[b].tokens + (clock - bucket[b].ts)
                    <= Minute + Cost[b]
              \/ bucket[b].live /\ excess[b] + (clock - WrittenAt(b)) <= Cost[b]
  BY DEF Budget

\* A bucket that a step neither writes nor takes from, at the same time, keeps
\* its budget.
LEMMA SameBudget ==
    ASSUME Budget, NEW b \in Buckets, bucket'[b] = bucket[b],
           excess'[b] = excess[b], clock' = clock
    PROVE  /\ bucket'[b].ts <= clock'
           /\ bucket'[b].live =>
                bucket'[b].ts <= WrittenAt(b)' /\ WrittenAt(b)' <= clock'
           /\ ~bucket'[b].live => bucket'[b].tokens = Minute
           /\ \/ excess'[b] = 0
              \/ excess'[b] + bucket'[b].tokens + (clock' - bucket'[b].ts)
                    <= Minute + Cost[b]
              \/ bucket'[b].live /\ excess'[b] + (clock' - WrittenAt(b)') <= Cost[b]
  <1>1. WrittenAt(b)' = WrittenAt(b)
    BY DEF WrittenAt
  <1> QED
    BY <1>1, BudgetOf

\* The budget is kept by a transaction that read the buckets as they are.
LEMMA CommitBudget ==
    ASSUME TypeOK, Budget, Fresh, NEW w \in Workers, Commit(w)
    PROVE  Budget'
  <1> DEFINE allowed  == Short(w) = {}
             Taken(b) == IF allowed THEN Cost[b] ELSE 0
             now == job[w].now
  <1>1. /\ job[w].pc = "exec" /\ ~job[w].dirty /\ job[w].dom \in Domains
        /\ Keys(w) = {Global, job[w].dom} /\ Keys(w) \subseteq Buckets
    BY KeysType DEF Commit, Keys, KeysOf
  <1>2. /\ now \in Nat /\ clock \in Nat /\ now <= clock /\ Minute \in Nat
        /\ now \in Times
    BY <1>1, BucketsType DEF TypeOK, Jobs, Times, Fresh
  <1>3. \A b \in Keys(w) : /\ bucket[b].ts <= now
                           /\ bucket[b].live => WrittenAt(b) <= now
                           /\ job[w].read[b] = Refilled(b, now)
    BY <1>1 DEF Fresh, UpToDate
  <1>4. \A b \in Buckets : Taken(b) \in Nat /\ Taken(b) <= Cost[b] /\ Cost[b] \in Nat
    BY BucketsType
  <1>5. ASSUME NEW b \in Buckets
        PROVE  /\ bucket'[b].ts <= clock'
               /\ bucket'[b].live =>
                    bucket'[b].ts <= WrittenAt(b)' /\ WrittenAt(b)' <= clock'
               /\ ~bucket'[b].live => bucket'[b].tokens = Minute
               /\ \/ excess'[b] = 0
                  \/ excess'[b] + bucket'[b].tokens + (clock' - bucket'[b].ts)
                        <= Minute + Cost[b]
                  \/ bucket'[b].live
                     /\ excess'[b] + (clock' - WrittenAt(b)') <= Cost[b]
    <2>1. CASE b \notin Keys(w)
      <3>1. bucket'[b] = bucket[b] /\ clock' = clock /\ excess'[b] = excess[b]
        BY <2>1 DEF Commit
      <3> QED
        BY <3>1, SameBudget
    <2>2. CASE b \in Keys(w)
      <3>1. /\ bucket'[b].live /\ bucket'[b].tokens = job[w].read[b] - Taken(b)
            /\ bucket'[b].ts = now /\ bucket'[b].dies = clock + 2 * Minute
            /\ clock' = clock /\ excess'[b] = excess[b] + Taken(b)
        BY <2>2 DEF Commit
      <3>2. WrittenAt(b)' = clock
        BY <3>1, <1>2 DEF WrittenAt
      <3>3. /\ job[w].read[b] \in Nat /\ job[w].read[b] <= Minute
            /\ job[w].read[b] <= bucket[b].tokens + (now - bucket[b].ts)
            /\ bucket[b].ts <= now
            /\ bucket[b].live => WrittenAt(b) <= now
        BY <2>2, <1>2, <1>3, RefilledBound, BucketsType
      <3>4. /\ bucket[b].tokens \in Nat /\ bucket[b].ts \in Nat
            /\ excess[b] \in Nat /\ WrittenAt(b) \in Int
        BY LevelType
      <3>5. Taken(b) \in Nat /\ Taken(b) <= Cost[b] /\ Cost[b] \in Nat
        BY <1>4
      <3> HIDE DEF Taken
      <3>6. \/ excess'[b] + bucket'[b].tokens + (clock' - bucket'[b].ts)
                    <= Minute + Cost[b]
            \/ excess'[b] + (clock' - WrittenAt(b)') <= Cost[b]
        <4>1. CASE excess[b] = 0
          BY <4>1, <3>1, <3>2, <3>5, <1>2
        <4>2. CASE excess[b] + bucket[b].tokens + (clock - bucket[b].ts)
                        <= Minute + Cost[b]
          BY <4>2, <3>1, <3>3, <3>4, <3>5, <1>2
        <4>3. CASE bucket[b].live /\ excess[b] + (clock - WrittenAt(b)) <= Cost[b]
          BY <4>3, <3>1, <3>3, <3>4, <3>5, <1>2
        <4> QED
          BY <4>1, <4>2, <4>3, BudgetOf
      <3> QED
        BY <3>1, <3>2, <3>6, <1>2
    <2> QED
      BY <2>1, <2>2
  <1> QED
    BY <1>5 DEF Budget

\* And by an expiry: by then, every stretch has refilled what it granted.
LEMMA ExpireBudget ==
    ASSUME TypeOK, Budget, NEW e \in Buckets, Expire(e)
    PROVE  Budget'
  <1>1. /\ clock' = clock /\ excess' = excess /\ clock \in Nat /\ Minute \in Nat
        /\ clock >= bucket[e].dies /\ bucket[e].live
    BY BucketsType DEF Expire, TypeOK, Times
  <1>2. ASSUME NEW b \in Buckets
        PROVE  /\ bucket'[b].ts <= clock'
               /\ bucket'[b].live =>
                    bucket'[b].ts <= WrittenAt(b)' /\ WrittenAt(b)' <= clock'
               /\ ~bucket'[b].live => bucket'[b].tokens = Minute
               /\ \/ excess'[b] = 0
                  \/ excess'[b] + bucket'[b].tokens + (clock' - bucket'[b].ts)
                        <= Minute + Cost[b]
                  \/ bucket'[b].live
                     /\ excess'[b] + (clock' - WrittenAt(b)') <= Cost[b]
    <2>1. CASE b # e
      <3>1. bucket'[b] = bucket[b]
        BY <2>1 DEF Expire, TypeOK
      <3> QED
        BY <3>1, <1>1, SameBudget
    <2>2. CASE b = e
      <3>1. /\ ~bucket'[b].live /\ bucket'[b].tokens = Minute
            /\ bucket'[b].ts = clock
        BY <2>2 DEF Expire, TypeOK
      <3>2. /\ bucket[b].ts <= clock - 2 * Minute
            /\ WrittenAt(b) <= clock - 2 * Minute
        <4>1. bucket[b].ts <= WrittenAt(b) /\ bucket[b].dies <= clock
          BY <1>1, <2>2, BudgetOf
        <4> QED
          BY <4>1, <1>1, LevelType DEF WrittenAt
      <3>3. excess[b] = 0
        <4>1. Cost[b] \in Nat /\ 1 <= Cost[b] /\ Cost[b] <= Minute
          BY BucketsType
        <4>2. /\ bucket[b].tokens \in Nat /\ bucket[b].ts \in Nat
              /\ excess[b] \in Nat /\ WrittenAt(b) \in Int
          BY LevelType
        <4>3. \/ excess[b] = 0
              \/ excess[b] + bucket[b].tokens + (clock - bucket[b].ts)
                    <= Minute + Cost[b]
              \/ excess[b] + (clock - WrittenAt(b)) <= Cost[b]
          BY BudgetOf
        <4> QED
          BY <4>1, <4>2, <4>3, <3>2, <1>1
      <3> QED
        BY <3>1, <3>3, <1>1
    <2> QED
      BY <2>1, <2>2
  <1> QED
    BY <1>2 DEF Budget

\* And by the passing of time, in which every stretch refills.
LEMMA TickBudget ==
    ASSUME TypeOK, Budget, Tick
    PROVE  Budget'
  <1> SUFFICES ASSUME NEW b \in Buckets
      PROVE  /\ bucket'[b].ts <= clock'
             /\ bucket'[b].live =>
                    bucket'[b].ts <= WrittenAt(b)' /\ WrittenAt(b)' <= clock'
             /\ ~bucket'[b].live => bucket'[b].tokens = Minute
             /\ \/ excess'[b] = 0
                \/ excess'[b] + bucket'[b].tokens + (clock' - bucket'[b].ts)
                        <= Minute + Cost[b]
                \/ bucket'[b].live
                   /\ excess'[b] + (clock' - WrittenAt(b)') <= Cost[b]
    BY DEF Budget
  <1>1. /\ bucket'[b] = bucket[b] /\ clock' = clock + 1
        /\ excess'[b] = IF excess[b] > 0 THEN excess[b] - 1 ELSE 0
    BY DEF Tick
  <1>2. WrittenAt(b)' = WrittenAt(b)
    BY <1>1 DEF WrittenAt
  <1>3. /\ bucket[b].tokens \in Nat /\ bucket[b].ts \in Nat /\ clock \in Nat
        /\ excess[b] \in Nat /\ WrittenAt(b) \in Int
        /\ Minute \in Nat /\ Cost[b] \in Nat
    BY LevelType, BucketsType
  <1>4. /\ bucket[b].ts <= clock
        /\ bucket[b].live => bucket[b].ts <= WrittenAt(b) /\ WrittenAt(b) <= clock
        /\ ~bucket[b].live => bucket[b].tokens = Minute
    BY BudgetOf
  <1>5. \/ excess'[b] = 0
        \/ excess'[b] + bucket'[b].tokens + (clock' - bucket'[b].ts)
                <= Minute + Cost[b]
        \/ bucket'[b].live /\ excess'[b] + (clock' - WrittenAt(b)') <= Cost[b]
    <2>1. CASE excess[b] = 0
      BY <2>1, <1>1
    <2>2. CASE excess[b] > 0
      <3>1. excess'[b] + clock' = excess[b] + clock /\ excess'[b] \in Nat
        BY <2>2, <1>1, <1>3
      <3>2. \/ excess[b] + bucket[b].tokens + (clock - bucket[b].ts)
                    <= Minute + Cost[b]
            \/ bucket[b].live /\ excess[b] + (clock - WrittenAt(b)) <= Cost[b]
        BY <2>2, <1>3, BudgetOf
      <3> QED
        BY <3>1, <3>2, <1>1, <1>2, <1>3
    <2> QED
      BY <2>1, <2>2, <1>3
  <1> QED
    BY <1>1, <1>2, <1>3, <1>4, <1>5

\* The other steps leave the buckets, the clock and the grants as they were.
LEMMA OthersBudget ==
    ASSUME Budget, bucket' = bucket, excess' = excess, clock' = clock
    PROVE  Budget'
  BY DEF Budget, WrittenAt

-----------------------------------------------------------------------------
(* What the workers read stays true while nobody writes their keys.         *)

\* Whether a worker is up to date depends on its job and its keys alone.
LEMMA SameUpToDate ==
    ASSUME NEW v \in Workers, UpToDate(v), job'[v] = job[v],
           \A b \in Keys(v) : bucket'[b] = bucket[b]
    PROVE  UpToDate(v)'
  <1>1. Keys(v)' = Keys(v) /\ Keys(v) = {Global, job[v].dom}
    BY DEF Keys, KeysOf
  <1>2. \A b \in Keys(v) : WrittenAt(b)' = WrittenAt(b)
    BY DEF WrittenAt
  <1>3. /\ Refilled(Global, job[v].now)' = Refilled(Global, job[v].now)
        /\ Refilled(job[v].dom, job[v].now)' = Refilled(job[v].dom, job[v].now)
    BY <1>1 DEF Refilled
  <1> QED
    BY <1>1, <1>2, <1>3 DEF UpToDate

\* Workers that did not move in a step that left the buckets alone.
LEMMA UnmovedFresh ==
    ASSUME TypeOK, Fresh, NEW S \in SUBSET Workers, bucket' = bucket,
           clock' \in Nat, clock <= clock',
           \A v \in Workers \ S : job'[v] = job[v],
           \A v \in S : job'[v].pc \notin {"global", "domain", "exec"}
    PROVE  Fresh'
  <1>1. clock \in Nat /\ \A w \in Workers : job[w].now \in Nat
    BY BucketsType DEF TypeOK, Jobs, Times
  <1> SUFFICES ASSUME NEW v \in Workers,
                      job'[v].pc \in {"global", "domain", "exec"}
               PROVE  job'[v].now <= clock' /\ (job'[v].dirty \/ UpToDate(v)')
    BY DEF Fresh
  <1>2. job'[v] = job[v]
    OBVIOUS
  <1>3. job[v].now <= clock /\ (job[v].dirty \/ UpToDate(v))
    BY <1>2 DEF Fresh
  <1> QED
    BY <1>1, <1>2, <1>3, SameUpToDate

\* Workers when some buckets were written and their watchers saw it.
LEMMA WrittenFresh ==
    ASSUME TypeOK, Fresh, NEW keys \in SUBSET Buckets, NEW w,
           \A b \in Buckets \ keys : bucket'[b] = bucket[b],
           clock' = clock,
           \A v \in Workers : v # w => job'[v] = Seen(keys, w)[v],
           w \in Workers => job'[w] = Idle
    PROVE  Fresh'
  <1> SUFFICES ASSUME NEW v \in Workers,
                      job'[v].pc \in {"global", "domain", "exec"}
               PROVE  job'[v].now <= clock' /\ (job'[v].dirty \/ UpToDate(v)')
    BY DEF Fresh
  <1>1. v # w
    BY DEF Idle, Attempt
  <1>2. job'[v] = Seen(keys, w)[v] /\ job \in [Workers -> Jobs]
    BY <1>1 DEF TypeOK
  <1>3. /\ job'[v].pc = job[v].pc /\ job'[v].now = job[v].now
        /\ v \in Watchers(keys, w) => job'[v].dirty
        /\ v \notin Watchers(keys, w) => job'[v] = job[v]
    BY <1>2, SeenType
  <1>4. job[v].now <= clock /\ (job[v].dirty \/ UpToDate(v))
    BY <1>3 DEF Fresh
  <1>5. ASSUME ~job'[v].dirty PROVE UpToDate(v)'
    <2>1. v \notin Watchers(keys, w) /\ job'[v] = job[v] /\ ~job[v].dirty
      BY <1>3, <1>5
    <2>2. Keys(v) \cap keys = {}
      BY <2>1, <1>1, <1>3, Touched
    <2>3. Keys(v) \subseteq Buckets
      BY <1>3, KeysType
    <2> QED
      BY <2>1, <2>2, <2>3, <1>4, SameUpToDate
  <1> QED
    BY <1>3, <1>4, <1>5

\* A worker that reads a bucket reads what it holds.
LEMMA ReadFresh ==
    ASSUME TypeOK, Fresh, NEW w \in Workers, ReadGlobal(w) \/ ReadDomain(w)
    PROVE  Fresh'
  <1>1. job \in [Workers -> Jobs] /\ job[w].dom \in Domains
    BY DEF TypeOK, ReadGlobal, ReadDomain
  <1>2. bucket' = bucket /\ clock' = clock
    BY DEF ReadGlobal, ReadDomain
  <1>3. \A b \in Buckets : Refilled(b, job[w].now) \in 0 .. Minute
    BY RefilledType DEF TypeOK, Jobs
  <1>4. job[w].now <= clock /\ (job[w].dirty \/ UpToDate(w))
    BY DEF Fresh, ReadGlobal, ReadDomain
  <1>5. \A c : WrittenAt(c)' = WrittenAt(c)
    BY <1>2 DEF WrittenAt
  <1>6. /\ \A v \in Workers \ {w} : job'[v] = job[v]
        /\ job'[w].now = job[w].now /\ job'[w].dirty = job[w].dirty
        /\ UpToDate(w) => UpToDate(w)'
    <2>1. CASE ReadGlobal(w)
      <3> DEFINE level == Refilled(Global, job[w].now)
      <3>1. level \in 0 .. Minute /\ Global \in Buckets /\ job[w].pc = "global"
        BY <1>1, <1>3, <2>1, BucketsType DEF ReadGlobal
      <3>2. job' = [job EXCEPT ![w].pc = "domain", ![w].read[Global] = level]
        BY <2>1 DEF ReadGlobal
      <3> HIDE DEF level
      <3>3. /\ job'[w].pc = "domain"
            /\ job'[w].read = [job[w].read EXCEPT ![Global] = level]
            /\ job'[w].dom = job[w].dom /\ job'[w].dirty = job[w].dirty
            /\ job'[w].now = job[w].now
            /\ \A v \in Workers \ {w} : job'[v] = job[v]
        BY <1>1, <3>1, <3>2 DEF Jobs
      <3>4. job'[w].read[Global] = level
        BY <1>1, <3>1, <3>3, BucketsType, RateLimiterAssumption DEF Jobs
      <3>5. Keys(w)' = Keys(w)
        BY <3>3 DEF Keys, KeysOf
      <3>6. level = Refilled(Global, job[w].now)'
        BY <1>2, <3>3 DEF level, Refilled
      <3> QED
        BY <1>2, <1>5, <3>3, <3>4, <3>5, <3>6 DEF UpToDate
    <2>2. CASE ReadDomain(w)
      <3> DEFINE level == Refilled(job[w].dom, job[w].now)
      <3>1. level \in 0 .. Minute /\ job[w].dom \in Buckets /\ job[w].pc = "domain"
        BY <1>1, <1>3, <2>2, BucketsType DEF ReadDomain
      <3>2. job' = [job EXCEPT ![w].pc = "exec", ![w].read[job[w].dom] = level]
        BY <2>2 DEF ReadDomain
      <3> HIDE DEF level
      <3>3. /\ job'[w].pc = "exec"
            /\ job'[w].read = [job[w].read EXCEPT ![job[w].dom] = level]
            /\ job'[w].dom = job[w].dom /\ job'[w].dirty = job[w].dirty
            /\ job'[w].now = job[w].now
            /\ \A v \in Workers \ {w} : job'[v] = job[v]
        BY <1>1, <3>1, <3>2 DEF Jobs
      <3>4. job'[w].read[Global] = job[w].read[Global] /\ job'[w].read[job[w].dom] = level
        BY <1>1, <3>1, <3>3, BucketsType, RateLimiterAssumption DEF Jobs
      <3>5. Keys(w)' = Keys(w)
        BY <3>3 DEF Keys, KeysOf
      <3>6. /\ level = Refilled(job[w].dom, job[w].now)'
            /\ Refilled(Global, job[w].now)' = Refilled(Global, job[w].now)
        BY <1>2, <3>3 DEF level, Refilled
      <3> QED
        BY <1>2, <1>5, <3>1, <3>3, <3>4, <3>5, <3>6 DEF UpToDate
    <2> QED
      BY <2>1, <2>2
  <1>7. ASSUME NEW v \in Workers, job'[v].pc \in {"global", "domain", "exec"}
        PROVE  job'[v].now <= clock' /\ (job'[v].dirty \/ UpToDate(v)')
    <2>1. CASE v = w
      BY <2>1, <1>2, <1>4, <1>6
    <2>2. CASE v # w
      <3>1. job'[v] = job[v]
        BY <2>2, <1>6
      <3>2. job[v].now <= clock /\ (job[v].dirty \/ UpToDate(v))
        BY <3>1, <1>7 DEF Fresh
      <3> QED
        BY <3>1, <3>2, <1>2, SameUpToDate
    <2> QED
      BY <2>1, <2>2
  <1> QED
    BY <1>7 DEF Fresh

-----------------------------------------------------------------------------
(* What a refusal promised, and what a failed transaction cost.             *)

\* A bucket whose token is due by then has it then.
LEMMA DueRefill ==
    ASSUME TypeOK, Budget, NEW b \in Buckets, NEW t \in Times, NEW d \in Nat,
           bucket[b].ts <= t,
           \/ ~bucket[b].live
           \/ bucket[b].tokens >= Cost[b]
           \/ bucket[b].tokens + (d - bucket[b].ts) >= Cost[b]
    PROVE  \/ Refilled(b, t) >= Cost[b]
           \/ Refilled(b, t) + (d - t) >= Cost[b]
  <1>1. /\ Refilled(b, t) = Minute
           \/ Refilled(b, t) = bucket[b].tokens + (t - bucket[b].ts)
        /\ ~bucket[b].live => Refilled(b, t) = Minute
    BY RefilledBound
  <1>2. /\ bucket[b].tokens \in Nat /\ bucket[b].ts \in Nat /\ t \in Nat
        /\ Cost[b] \in Nat /\ Cost[b] <= Minute /\ Minute \in Nat
    <2>1. bucket[b].tokens \in 0 .. Minute /\ bucket[b].ts \in Times
      BY DEF TypeOK, Hashes
    <2> QED
      BY <2>1, BucketsType DEF Times
  <1> QED
    BY <1>1, <1>2

\* A commit keeps the promises of the refusals, and its own.
LEMMA CommitDue ==
    ASSUME TypeOK, Budget, Fresh, TokenDue, NEW w \in Workers, Commit(w)
    PROVE  TokenDue'
  <1> DEFINE allowed == Short(w) = {}
             now     == job[w].now
  <1>1. /\ job[w].pc = "exec" /\ ~job[w].dirty /\ job[w].dom \in Domains
        /\ Keys(w) = {Global, job[w].dom} /\ Keys(w) \subseteq Buckets
    BY KeysType DEF Commit, Keys, KeysOf
  <1>2. now \in Times /\ now \in Nat
    BY BucketsType DEF TypeOK, Jobs, Times
  <1>3. \A b \in Keys(w) :
            bucket[b].ts <= now /\ job[w].read[b] = Refilled(b, now)
    BY <1>1 DEF Fresh, UpToDate
  <1>4. \A b \in Keys(w) : ~allowed =>
            bucket'[b].tokens = job[w].read[b] /\ bucket'[b].ts = now
    <2>1. \A b \in Keys(w) : job[w].read[b] \in Nat
      BY <1>1, <1>2, <1>3, RefilledType, BucketsType DEF TypeOK
    <2> QED
      BY <1>1, <2>1 DEF Commit
  <1>5. \A b \in Buckets \ Keys(w) : bucket'[b] = bucket[b]
    BY DEF Commit
  <1>6. ASSUME NEW v \in Workers, refusal'[v].on, NEW b \in KeysOf(refusal'[v].dom)
        PROVE  \/ ~bucket'[b].live
               \/ bucket'[b].tokens >= Cost[b]
               \/ bucket'[b].tokens + (refusal'[v].due - bucket'[b].ts) >= Cost[b]
    <2>1. CASE ~allowed /\ v = w
      <3>1. refusal'[v].dom = job[w].dom /\ refusal'[v].due = now + RetryAfter(w)
        BY <2>1 DEF Commit
      <3>2. b \in Keys(w) /\ b \in Buckets
        BY <3>1, <1>1, <1>6 DEF Keys
      <3>3. /\ RetryAfter(w) \in Nat
            /\ b \in Short(w) => RetryAfter(w) >= Cost[b] - job[w].read[b]
        BY <2>1, <1>1, RetryAfterType, BucketsType
      <3>4. b \notin Short(w) => job[w].read[b] >= Cost[b]
        <4>1. job[w].read[b] \in Nat /\ Cost[b] \in Nat
          BY <3>2, <1>2, <1>3, RefilledType, BucketsType DEF TypeOK
        <4> QED
          BY <3>2, <4>1 DEF Short
      <3>5. job[w].read[b] \in Nat /\ Cost[b] \in Nat
        BY <3>2, <1>2, <1>3, RefilledType, BucketsType DEF TypeOK
      <3> QED
        BY <3>1, <3>2, <3>3, <3>4, <3>5, <1>2, <1>4, <2>1
    <2>2. CASE allowed
      <3>1. refusal'[v] = IF KeysOf(refusal[v].dom) \cap Keys(w) # {}
                          THEN NoRefusal ELSE refusal[v]
        BY <2>2 DEF Commit
      <3>2. FALSE
        BY <3>1, <1>1, <1>6, NoRefusalType DEF KeysOf
      <3> QED
        BY <3>2
    <2>3. CASE ~allowed /\ v # w
      <3>1. refusal'[v] = refusal[v]
        BY <2>3 DEF Commit
      <3>2. b \in Buckets /\ refusal[v].due \in Nat
        BY <3>1, <1>6, BucketsType DEF TypeOK, Refusals, KeysOf
      <3>3. \/ ~bucket[b].live
            \/ bucket[b].tokens >= Cost[b]
            \/ bucket[b].tokens + (refusal[v].due - bucket[b].ts) >= Cost[b]
        BY <3>1, <1>6 DEF TokenDue
      <3>4. CASE b \notin Keys(w)
        BY <3>1, <3>2, <3>3, <3>4, <1>5
      <3>5. CASE b \in Keys(w)
        <4>1. \/ Refilled(b, now) >= Cost[b]
              \/ Refilled(b, now) + (refusal[v].due - now) >= Cost[b]
          BY <3>2, <3>3, <3>5, <1>2, <1>3, DueRefill
        <4> QED
          BY <4>1, <3>1, <3>5, <1>3, <1>4, <2>3
      <3> QED
        BY <3>4, <3>5
    <2> QED
      BY <2>1, <2>2, <2>3
  <1> QED
    BY <1>6 DEF TokenDue

\* Every other step leaves the promises, or a bucket that is full.
LEMMA OthersDue ==
    ASSUME TypeOK, TokenDue, NEW S \in SUBSET Buckets,
           \A b \in Buckets \ S : bucket'[b] = bucket[b],
           \A b \in S : ~bucket'[b].live,
           \A v \in Workers : refusal'[v] \in {refusal[v], NoRefusal}
    PROVE  TokenDue'
  <1> SUFFICES ASSUME NEW v \in Workers, refusal'[v].on,
                      NEW b \in KeysOf(refusal'[v].dom)
               PROVE  \/ ~bucket'[b].live
                      \/ bucket'[b].tokens >= Cost[b]
                      \/ bucket'[b].tokens + (refusal'[v].due - bucket'[b].ts)
                            >= Cost[b]
    BY DEF TokenDue
  <1>1. refusal'[v] = refusal[v]
    BY NoRefusalType
  <1>2. b \in Buckets
    BY <1>1, BucketsType DEF TypeOK, KeysOf
  <1> QED
    BY <1>1, <1>2 DEF TokenDue

\* A write moves the keys of each worker whose transaction it spoils.
LEMMA WriteSpoils ==
    ASSUME TypeOK, SpoiltByOthers, NEW keys, NEW w, Count(keys, w),
           \A v \in Workers : v # w => job'[v] = Seen(keys, w)[v],
           w \in Workers => job'[w] = Idle
    PROVE  SpoiltByOthers'
  <1> SUFFICES ASSUME NEW v \in Workers
               PROVE  job'[v].tries + (IF job'[v].dirty THEN 1 ELSE 0) <= moved'[v]
    BY DEF SpoiltByOthers
  <1>1. /\ job[v].tries \in Nat /\ job[v].tries + 1 <= MaxTries
        /\ moved[v] \in Nat /\ moved[v] <= MaxTries /\ MaxTries \in Nat
    <2>1. job[v].tries \in 0 .. MaxTries - 1 /\ moved[v] \in 0 .. MaxTries
      BY DEF TypeOK, Jobs
    <2> QED
      BY <2>1, BucketsType
  <1>2. CASE v = w
    <2>1. job'[v].tries = 0 /\ ~job'[v].dirty
      BY <1>2 DEF Idle, Attempt
    <2>2. moved'[v] = 0
      BY <1>2 DEF Count
    <2> QED
      BY <2>1, <2>2
  <1>3. CASE v # w
    <2>1. /\ job'[v].tries = job[v].tries
          /\ v \notin Watchers(keys, w) => job'[v] = job[v]
      BY <1>3, SeenType DEF TypeOK
    <2>2. moved'[v] = IF v \in Watchers(keys, w) /\ moved[v] < MaxTries
                      THEN moved[v] + 1 ELSE moved[v]
      BY <1>3 DEF Count
    <2>3. job[v].tries + (IF job[v].dirty THEN 1 ELSE 0) <= moved[v]
      BY DEF SpoiltByOthers
    <2> QED
      BY <1>1, <2>1, <2>2, <2>3
  <1> QED
    BY <1>2, <1>3

-----------------------------------------------------------------------------
(* The theorems.                                                            *)

IInv == TypeOK /\ Budget /\ Fresh /\ TokenDue /\ SpoiltByOthers

\* The inductive invariant holds at first.
LEMMA InitInv == Init => IInv
  <1> SUFFICES ASSUME Init PROVE IInv
    OBVIOUS
  <1>1. TypeOK
    BY InitType
  <1>2. Budget
    BY BucketsType DEF Init, Budget, Times
  <1>3. Fresh
    BY DEF Init, Fresh, Idle, Attempt
  <1>4. TokenDue
    BY DEF Init, TokenDue, NoRefusal
  <1>5. SpoiltByOthers
    BY DEF Init, SpoiltByOthers, Idle, Attempt
  <1> QED
    BY <1>1, <1>2, <1>3, <1>4, <1>5 DEF IInv

\* A step of one worker that writes no bucket: it begins, watches, reads the
\* clock, fails or gives up.
LEMMA QuietStep ==
    ASSUME IInv, TypeOK', NEW w \in Workers, bucket' = bucket, clock' = clock,
           excess' = excess,
           \A v \in Workers \ {w} : job'[v] = job[v] /\ moved'[v] = moved[v],
           job'[w].pc \notin {"global", "domain", "exec"},
           job'[w].tries + (IF job'[w].dirty THEN 1 ELSE 0) <= moved'[w],
           \A v \in Workers : refusal'[v] \in {refusal[v], NoRefusal}
    PROVE  IInv'
  <1>1. clock' \in Nat /\ clock <= clock'
    BY BucketsType DEF IInv, TypeOK, Times
  <1>2. Budget'
    BY OthersBudget DEF IInv
  <1>3. Fresh'
    <2>1. /\ {w} \in SUBSET Workers
          /\ \A v \in Workers \ {w} : job'[v] = job[v]
          /\ \A v \in {w} : job'[v].pc \notin {"global", "domain", "exec"}
      OBVIOUS
    <2>2. TypeOK /\ Fresh
      BY DEF IInv
    <2> QED
      BY <1>1, <2>1, <2>2, UnmovedFresh
  <1>4. TokenDue'
    <2>1. /\ \A b \in Buckets \ {} : bucket'[b] = bucket[b]
          /\ {} \in SUBSET Buckets
      OBVIOUS
    <2>2. TypeOK /\ TokenDue
      BY DEF IInv
    <2> QED
      BY <2>1, <2>2, OthersDue
  <1>5. SpoiltByOthers'
    <2>1. ASSUME NEW v \in Workers
          PROVE  job'[v].tries + (IF job'[v].dirty THEN 1 ELSE 0) <= moved'[v]
      BY DEF IInv, SpoiltByOthers
    <2> QED
      BY <2>1 DEF SpoiltByOthers
  <1> QED
    BY <1>2, <1>3, <1>4, <1>5 DEF IInv

\* Every step keeps the inductive invariant.
LEMMA NextInv == IInv /\ [Next]_vars => IInv'
  <1> SUFFICES ASSUME IInv, [Next]_vars PROVE IInv'
    OBVIOUS
  <1>0. TypeOK /\ TypeOK'
    BY NextType DEF IInv
  <1>1. ASSUME NEW w \in Workers, NEW d \in Domains, Begin(w, d) PROVE IInv'
    <2>1. job'[w].tries = 0 /\ ~job'[w].dirty /\ job'[w].pc = "watch"
      BY <1>0, <1>1 DEF Begin, Attempt, TypeOK
    <2>2. moved'[w] \in Nat
      BY <1>0, BucketsType DEF TypeOK
    <2>3. /\ \A v \in Workers \ {w} : job'[v] = job[v] /\ moved'[v] = moved[v]
          /\ \A v \in Workers : refusal'[v] \in {refusal[v], NoRefusal}
      BY <1>0, <1>1 DEF Begin, TypeOK
    <2> QED
      BY <1>0, <1>1, <2>1, <2>2, <2>3, QuietStep DEF Begin
  <1>2. ASSUME NEW w \in Workers, Watch(w) PROVE IInv'
    <2>1. job'[w].tries = job[w].tries /\ ~job'[w].dirty /\ job'[w].pc = "clock"
      BY <1>0, <1>2 DEF Watch, TypeOK, Jobs
    <2>2. job[w].tries + (IF job[w].dirty THEN 1 ELSE 0) <= moved[w]
      BY DEF IInv, SpoiltByOthers
    <2>3. moved' = moved /\ moved[w] \in Nat /\ job[w].tries \in Nat
      BY <1>0, <1>2, BucketsType DEF Watch, ghosts, TypeOK, Jobs
    <2> QED
      BY <1>0, <1>2, <2>1, <2>2, <2>3, QuietStep DEF Watch, ghosts, TypeOK
  <1>3. ASSUME NEW w \in Workers, ReadClock(w) PROVE IInv'
    <2>1. /\ bucket' = bucket /\ clock' = clock /\ excess' = excess
          /\ refusal' = refusal /\ moved' = moved
      BY <1>3 DEF ReadClock, ghosts
    <2>2. clock \in Nat
      BY <1>0, BucketsType DEF TypeOK, Times
    <2>3. /\ job'[w].pc = "global" /\ job'[w].now = clock
          /\ job'[w].dirty = job[w].dirty /\ job'[w].dom = job[w].dom
          /\ job'[w].tries = job[w].tries
          /\ job[w].pc = "clock"
          /\ \A v \in Workers \ {w} : job'[v] = job[v]
      BY <1>0, <1>3 DEF ReadClock, TypeOK, Jobs
    <2>4. Budget'
      BY <2>1, OthersBudget DEF IInv
    <2>5. Fresh'
      <3>1. Keys(w) \subseteq Buckets /\ Keys(w)' = Keys(w)
        BY <1>0, <2>3, KeysType DEF Keys, KeysOf
      <3>2. \A b \in Keys(w) : /\ bucket[b].ts <= clock
                               /\ bucket[b].live => WrittenAt(b) <= clock
        BY <3>1, BudgetOf DEF IInv
      <3>3. UpToDate(w)'
        BY <2>1, <2>3, <3>1, <3>2 DEF UpToDate, WrittenAt
      <3>4. ASSUME NEW v \in Workers, v # w,
                   job'[v].pc \in {"global", "domain", "exec"}
            PROVE  job'[v].now <= clock' /\ (job'[v].dirty \/ UpToDate(v)')
        <4>1. job'[v] = job[v]
          BY <3>4, <2>3
        <4>2. job[v].now <= clock /\ (job[v].dirty \/ UpToDate(v))
          BY <3>4, <4>1 DEF IInv, Fresh
        <4> QED
          BY <2>1, <4>1, <4>2, SameUpToDate
      <3> QED
        BY <2>1, <2>2, <2>3, <3>3, <3>4 DEF Fresh
    <2>6. TokenDue'
      BY <2>1 DEF IInv, TokenDue
    <2>7. SpoiltByOthers'
      BY <2>1, <2>3 DEF IInv, SpoiltByOthers
    <2> QED
      BY <1>0, <2>4, <2>5, <2>6, <2>7 DEF IInv
  <1>4. ASSUME NEW w \in Workers, ReadGlobal(w) \/ ReadDomain(w) PROVE IInv'
    <2>1. /\ bucket' = bucket /\ clock' = clock /\ excess' = excess
          /\ refusal' = refusal /\ moved' = moved
      BY <1>4 DEF ReadGlobal, ReadDomain, ghosts
    <2>2. clock \in Nat
      BY <1>0, BucketsType DEF TypeOK, Times
    <2>3. Budget'
      BY <2>1, OthersBudget DEF IInv
    <2>4. Fresh'
      BY <1>0, <1>4, ReadFresh DEF IInv
    <2>5. TokenDue'
      BY <2>1 DEF IInv, TokenDue
    <2>6. SpoiltByOthers'
      <3>1. \A v \in Workers :
                job'[v].tries = job[v].tries /\ job'[v].dirty = job[v].dirty
        BY <1>0, <1>4 DEF ReadGlobal, ReadDomain, TypeOK, Jobs
      <3> QED
        BY <2>1, <3>1 DEF IInv, SpoiltByOthers
    <2> QED
      BY <1>0, <2>3, <2>4, <2>5, <2>6 DEF IInv
  <1>5. ASSUME NEW w \in Workers, Commit(w) PROVE IInv'
    <2>1. Budget' /\ TokenDue'
      BY <1>5, CommitBudget, CommitDue DEF IInv
    <2>2. /\ \A v \in Workers : v # w => job'[v] = Seen(Keys(w), w)[v]
          /\ job'[w] = Idle
      BY <1>0, <1>5, SeenType DEF Commit, TypeOK
    <2>3. Fresh'
      <3>1. Keys(w) \in SUBSET Buckets
        BY <1>0, <1>5, KeysType DEF Commit
      <3>2. \A b \in Buckets \ Keys(w) : bucket'[b] = bucket[b]
        BY <1>5 DEF Commit
      <3>3. clock' = clock
        BY <1>5 DEF Commit
      <3> QED
        BY <1>0, <2>2, <3>1, <3>2, <3>3, WrittenFresh DEF IInv
    <2>4. SpoiltByOthers'
      BY <1>0, <1>5, <2>2, WriteSpoils DEF IInv, Commit
    <2> QED
      BY <1>0, <2>1, <2>3, <2>4 DEF IInv
  <1>6. ASSUME NEW w \in Workers, Conflict(w) PROVE IInv'
    <2> DEFINE again == job[w].tries + 1 < MaxTries
    <2>1. /\ job[w].tries + 1 <= moved[w] /\ job[w].tries \in Nat
          /\ moved[w] \in Nat
      BY <1>0, <1>6, BucketsType DEF IInv, SpoiltByOthers, Conflict, TypeOK, Jobs
    <2>2. job'[w] = IF again THEN Attempt("watch", job[w].dom, job[w].tries + 1)
                    ELSE Idle
      BY <1>0, <1>6 DEF Conflict, TypeOK
    <2>3. /\ job'[w].pc \in {"watch", "idle"} /\ ~job'[w].dirty
          /\ job'[w].tries = IF again THEN job[w].tries + 1 ELSE 0
      BY <2>2 DEF Attempt, Idle
    <2>4. /\ moved'[w] = IF again THEN moved[w] ELSE 0
          /\ \A v \in Workers \ {w} : job'[v] = job[v] /\ moved'[v] = moved[v]
      BY <1>0, <1>6 DEF Conflict, TypeOK
    <2> HIDE DEF again
    <2> QED
      BY <1>0, <1>6, <2>1, <2>3, <2>4, QuietStep DEF Conflict
  <1>7. ASSUME NEW w \in Workers, Abandon(w) PROVE IInv'
    <2>1. job'[w].tries = 0 /\ ~job'[w].dirty /\ job'[w].pc = "idle" /\ moved'[w] = 0
      BY <1>0, <1>7 DEF Abandon, Idle, Attempt, TypeOK
    <2>2. \A v \in Workers \ {w} : job'[v] = job[v] /\ moved'[v] = moved[v]
      BY <1>0, <1>7 DEF Abandon, TypeOK
    <2> QED
      BY <1>0, <1>7, <2>1, <2>2, QuietStep DEF Abandon
  <1>8. ASSUME NEW b \in Buckets, Expire(b) PROVE IInv'
    <2>1. Budget'
      BY <1>8, ExpireBudget DEF IInv
    <2>2. /\ job' = Seen({b}, NoDomain) /\ NoDomain \notin Workers
          /\ clock' = clock /\ refusal' = refusal
          /\ \A c \in Buckets \ {b} : bucket'[c] = bucket[c]
          /\ ~bucket'[b].live /\ {b} \in SUBSET Buckets
          /\ Count({b}, NoDomain)
      BY <1>0, <1>8, RateLimiterAssumption DEF Expire, TypeOK
    <2>3. Fresh'
      BY <1>0, <2>2, WrittenFresh DEF IInv
    <2>4. TokenDue'
      BY <1>0, <2>2, OthersDue DEF IInv
    <2>5. SpoiltByOthers'
      BY <1>0, <2>2, WriteSpoils DEF IInv
    <2> QED
      BY <1>0, <2>1, <2>3, <2>4, <2>5 DEF IInv
  <1>9. CASE Tick
    <2>1. /\ bucket' = bucket /\ job' = job
          /\ refusal' = refusal /\ moved' = moved
      BY <1>9 DEF Tick
    <2>2. clock' \in Nat /\ clock <= clock'
      BY <1>0, <1>9, BucketsType DEF Tick, TypeOK, Times
    <2>3. Budget'
      BY <1>9, TickBudget DEF IInv
    <2>4. Fresh'
      <3>1. /\ {} \in SUBSET Workers
            /\ \A v \in Workers \ {} : job'[v] = job[v]
            /\ \A v \in {} : job'[v].pc \notin {"global", "domain", "exec"}
        BY <2>1
      <3>2. TypeOK /\ Fresh
        BY DEF IInv
      <3> QED
        BY <2>1, <2>2, <3>1, <3>2, UnmovedFresh
    <2>5. TokenDue' /\ SpoiltByOthers'
      BY <2>1 DEF IInv, TokenDue, SpoiltByOthers
    <2> QED
      BY <1>0, <2>3, <2>4, <2>5 DEF IInv
  <1>10. CASE UNCHANGED vars
    <2>1. /\ clock' = clock /\ bucket' = bucket /\ job' = job /\ excess' = excess
          /\ refusal' = refusal /\ moved' = moved
      BY <1>10 DEF vars, ghosts
    <2>2. clock' \in Nat /\ clock <= clock'
      BY <1>0, <2>1, BucketsType DEF TypeOK, Times
    <2>3. Budget' /\ TokenDue' /\ SpoiltByOthers'
      BY <2>1, OthersBudget DEF IInv, TokenDue, SpoiltByOthers
    <2>4. Fresh'
      <3>1. /\ {} \in SUBSET Workers
            /\ \A v \in Workers \ {} : job'[v] = job[v]
            /\ \A v \in {} : job'[v].pc \notin {"global", "domain", "exec"}
        BY <2>1
      <3>2. TypeOK /\ Fresh
        BY DEF IInv
      <3> QED
        BY <2>1, <2>2, <3>1, <3>2, UnmovedFresh
    <2> QED
      BY <1>0, <2>3, <2>4 DEF IInv
  <1> QED
    BY <1>1, <1>2, <1>3, <1>4, <1>5, <1>6, <1>7, <1>8, <1>9, <1>10 DEF Next

\* So it always holds.
LEMMA Invariant == Spec => []IInv
  BY InitInv, NextInv, PTL DEF Spec

\* The budget bounds what any stretch of time granted.
LEMMA BudgetBounds == IInv => WindowBound
  <1> SUFFICES ASSUME IInv, NEW b \in Buckets
               PROVE  excess[b] <= Minute + Cost[b]
    BY DEF WindowBound
  <1>1. /\ bucket[b].tokens \in Nat /\ bucket[b].ts \in Nat /\ clock \in Nat
        /\ excess[b] \in Nat /\ WrittenAt(b) \in Int
        /\ Minute \in Nat /\ Cost[b] \in Nat
    BY LevelType, BucketsType DEF IInv
  <1>2. /\ bucket[b].ts <= clock
        /\ bucket[b].live => WrittenAt(b) <= clock
        /\ \/ excess[b] = 0
           \/ excess[b] + bucket[b].tokens + (clock - bucket[b].ts)
                <= Minute + Cost[b]
           \/ bucket[b].live /\ excess[b] + (clock - WrittenAt(b)) <= Cost[b]
    BY BudgetOf DEF IInv
  <1> QED
    BY <1>1, <1>2

\* What is due is there.
LEMMA DueIsThere == IInv => RetryIsEnough
  <1> SUFFICES ASSUME IInv, NEW w \in Workers, refusal[w].on,
                      clock >= refusal[w].due, NEW b \in KeysOf(refusal[w].dom)
               PROVE  Refilled(b, clock) >= Cost[b]
    BY DEF RetryIsEnough
  <1>1. b \in Buckets /\ refusal[w].due \in Nat
    BY BucketsType DEF IInv, TypeOK, Refusals, KeysOf
  <1>2. clock \in Times /\ clock \in Nat /\ bucket[b].ts <= clock
    BY <1>1, BucketsType DEF IInv, TypeOK, Times, Budget
  <1>3. \/ Refilled(b, clock) >= Cost[b]
        \/ Refilled(b, clock) + (refusal[w].due - clock) >= Cost[b]
    BY <1>1, <1>2, DueRefill DEF IInv, TokenDue
  <1>4. Refilled(b, clock) \in Nat /\ Cost[b] \in Nat
    BY <1>1, <1>2, RefilledType, BucketsType DEF IInv, TypeOK
  <1> QED
    BY <1>1, <1>2, <1>3, <1>4

\* Over any stretch of time, the EXECs of a bucket grant at most what a full
\* bucket holds, what refills meanwhile and one token, for any number of
\* workers, domains and tries, however transactions stall between the clock and
\* EXEC, and however deaths and expiries interleave (rate_limit.py:52-87).
THEOREM GrantsBounded == Spec => []WindowBound
  BY Invariant, BudgetBounds, PTL

\* Waiting as long as the refusal said is enough, unless another worker was
\* granted a token meanwhile (rate_limit.py:72-74).
THEOREM RetryAfterHonoured == Spec => []RetryIsEnough
  BY Invariant, DueIsThere, PTL

\* Giving up for contention means that others wrote the keys, or that they
\* expired (rate_limit.py:87).
THEOREM GivingUpIsProgress == Spec => []ContentionIsProgress
  <1>1. IInv => ContentionIsProgress
    <2> SUFFICES ASSUME IInv, NEW w \in Workers
                 PROVE  job[w].tries <= moved[w]
      BY DEF ContentionIsProgress
    <2>1. job[w].tries \in Nat /\ moved[w] \in Nat
      BY BucketsType DEF IInv, TypeOK, Jobs
    <2> QED
      BY <2>1 DEF IInv, SpoiltByOthers
  <1> QED
    BY <1>1, Invariant, PTL

=============================================================================
