--------------------------- MODULE CaptureThrottle ---------------------------
(* AnonymousCaptureThrottle: a token bucket per client address in a            *)
(* ConcurrentDictionary, each bucket under its own lock, and a sweep under the *)
(* dictionary's monitor that forgets full buckets.  GetOrAdd, Count, TryRemove *)
(* and Clear do not take that monitor.  Time is counted in units that refill   *)
(* Rate tokens; fractions of a token are left out.                             *)
EXTENDS Integers, Sequences, FiniteSets

CONSTANTS
    Threads, Clients, NoClient,
    Burst,          \* _burst
    Rate,           \* _refillPerSecond, per unit of time
    TrackedCap,     \* _maxTrackedClients
    SweepEvery,     \* 5 minutes
    SweepPause,     \* 30 seconds
    MaxRequests,    \* bound: requests
    LastMoment      \* bound: time

ASSUME ThrottleAssumption ==
    /\ NoClient \notin Clients \cup Threads /\ IsFiniteSet(Threads)
    /\ {Burst, TrackedCap} \subseteq Nat \ {0}
    /\ {Rate, SweepEvery, SweepPause, MaxRequests, LastMoment} \subseteq Nat

VARIABLES
    clock, requests,
    bucket,         \* every Bucket object so far
    table,          \* _buckets: a client's bucket, 0 if it has none
    lastSweep,      \* _lastSweepUtc
    sweeper,        \* who holds the dictionary's monitor
    thread,         \* each thread's TryAcquire
    spent,          \* history: tokens granted to each client in each of its lives; it
                    \* begins another when a bucket is dropped under a request of it
    sweeps          \* history: sweeps begun below the cap, and those the cap forced

throttleVars == <<clock, requests, bucket, table, lastSweep, sweeper, thread, spent, sweeps>>

Resting == [at |-> "idle", client |-> NoClient, count |-> 0, now |-> 0, bucket |-> 0,
            todo |-> {}, doomed |-> NoClient, seen |-> [tokens |-> 0, last |-> 0, life |-> 0]]

ThrottleInit ==
    /\ clock = 0 /\ requests = 0
    /\ bucket = << >> /\ table = [c \in Clients |-> 0]
    /\ lastSweep = 0 /\ sweeper = NoClient
    /\ thread = [t \in Threads |-> Resting]
    /\ spent = [c \in Clients |-> <<0>>]
    /\ sweeps = [timed |-> 0, forced |-> 0]

Tracked == {c \in Clients : table[c] # 0}
Smaller(a, b) == IF a < b THEN a ELSE b

StandsAt(t, place) == thread[t].at = place
Goes(t, place) == thread' = [thread EXCEPT ![t].at = place]

-----------------------------------------------------------------------------

TryAcquire(t, c, n) ==
    /\ StandsAt(t, "idle") /\ requests < MaxRequests /\ requests' = requests + 1
    /\ thread' = [thread EXCEPT ![t] =
                     [Resting EXCEPT !.at = "check", !.client = c, !.count = n, !.now = clock]]
    /\ UNCHANGED <<clock, bucket, table, lastSweep, sweeper, spent, sweeps>>

Full == Cardinality(Tracked) >= TrackedCap
Since(t) == thread[t].now - lastSweep

\* The first test of SweepIfNeeded, outside the monitor.
Check(t) ==
    /\ StandsAt(t, "check")
    /\ Goes(t, IF Full \/ Since(t) >= SweepEvery THEN "enter" ELSE "take")
    /\ UNCHANGED <<clock, requests, bucket, table, lastSweep, sweeper, spent, sweeps>>

\* The second, inside.
EnterSweep(t) ==
    /\ StandsAt(t, "enter") /\ sweeper = NoClient
    /\ IF ~Full /\ Since(t) < SweepPause
       THEN Goes(t, "take") /\ UNCHANGED <<lastSweep, sweeper, sweeps>>
       ELSE /\ lastSweep' = thread[t].now /\ sweeper' = t
            /\ sweeps' = IF Full THEN [sweeps EXCEPT !.forced = @ + 1]
                                 ELSE [sweeps EXCEPT !.timed = @ + 1]
            /\ thread' = [thread EXCEPT ![t].at = "sweep", ![t].todo = Tracked]
    /\ UNCHANGED <<clock, requests, bucket, table, spent>>

\* Mutation: a bucket nobody used since is taken to be full.
RefilledSince(b, now) == now > b.last

Refilled(b, now) == b.tokens + (now - b.last) * Rate >= Burst

\* The bucket's lock is held for the test and not for what follows from it.
TestIdle(t, c) ==
    LET b == bucket[table[c]]
    IN  /\ StandsAt(t, "sweep") /\ thread[t].doomed = NoClient /\ c \in thread[t].todo
        /\ thread' = [thread EXCEPT ![t].todo = @ \ {c}, ![t].seen = b,
                         ![t].doomed = IF Refilled(b, thread[t].now) THEN c ELSE NoClient]
        /\ UNCHANGED <<clock, requests, bucket, table, lastSweep, sweeper, spent, sweeps>>

\* A request of c holds the bucket, or began before the time t sweeps for.
UnderWay(t, c) ==
    \E u \in Threads \ {t} :
        /\ thread[u].client = c
        /\ StandsAt(u, "spend") \/ thread[u].now < thread[t].now

Remove(t) ==
    LET c == thread[t].doomed
    IN  /\ StandsAt(t, "sweep") /\ c # NoClient
        /\ table' = [table EXCEPT ![c] = 0]
        /\ spent' = IF bucket[table[c]] # thread[t].seen \/ UnderWay(t, c)
                    THEN [spent EXCEPT ![c] = Append(@, 0)] ELSE spent
        /\ thread' = [thread EXCEPT ![t].doomed = NoClient]
        /\ UNCHANGED <<clock, requests, bucket, lastSweep, sweeper, sweeps>>

\* All buckets go when the sweep freed too little.
EndSweep(t) ==
    /\ StandsAt(t, "sweep") /\ thread[t].todo = {} /\ thread[t].doomed = NoClient
    /\ table' = [c \in Clients |-> IF Full THEN 0 ELSE table[c]]
    /\ spent' = [c \in Clients |-> IF Full /\ c \in Tracked THEN Append(spent[c], 0) ELSE spent[c]]
    /\ sweeper' = NoClient /\ Goes(t, "take")
    /\ UNCHANGED <<clock, requests, bucket, lastSweep, sweeps>>

\* GetOrAdd: a new bucket is full as of the thread's `now`.
Take(t) ==
    LET c == thread[t].client
        new == [tokens |-> Burst, last |-> thread[t].now, life |-> Len(spent[c])]
        b == IF c \in Tracked THEN table[c] ELSE Len(bucket) + 1
    IN  /\ StandsAt(t, "take")
        /\ bucket' = IF c \in Tracked THEN bucket ELSE Append(bucket, new)
        /\ table' = [table EXCEPT ![c] = b]
        /\ thread' = [thread EXCEPT ![t].at = "spend", ![t].bucket = b]
        /\ UNCHANGED <<clock, requests, lastSweep, sweeper, spent, sweeps>>

\* Under the bucket's lock: refill unless another thread is ahead, and grant.
Spend(t) ==
    LET me == thread[t]
        b == bucket[me.bucket]
        filled == IF me.now > b.last
                  THEN [b EXCEPT !.tokens = Smaller(Burst, @ + (me.now - b.last) * Rate),
                                 !.last = me.now]
                  ELSE b
        granted == Smaller(me.count, filled.tokens)
    IN  /\ StandsAt(t, "spend")
        /\ bucket' = [bucket EXCEPT ![me.bucket] = [filled EXCEPT !.tokens = @ - granted]]
        /\ spent' = [spent EXCEPT ![me.client][b.life] = @ + granted]
        /\ thread' = [thread EXCEPT ![t] = Resting]
        /\ UNCHANGED <<clock, requests, table, lastSweep, sweeper, sweeps>>

TimePasses ==
    /\ clock < LastMoment /\ clock' = clock + 1
    /\ UNCHANGED <<requests, bucket, table, lastSweep, sweeper, thread, spent, sweeps>>

ThrottleNext ==
    \/ \E t \in Threads, c \in Clients, n \in 1 .. Burst : TryAcquire(t, c, n)
    \/ \E t \in Threads :
          \/ Check(t) \/ EnterSweep(t) \/ Remove(t) \/ EndSweep(t) \/ Take(t) \/ Spend(t)
          \/ \E c \in Clients : TestIdle(t, c)
    \/ TimePasses

ThrottleSpec == ThrottleInit /\ [][ThrottleNext]_throttleVars

-----------------------------------------------------------------------------
(* Properties.                                                                 *)

(* ThrottleHolds: a life grants a client no more than its burst and what was    *)
(* refilled since the start.  A sweep gives a client two further lives at most, *)
(* a bucket dropped under its request and one cleared with the rest, and while  *)
(* the table has stayed below the cap no two sweeps begin within the pause: a   *)
(* request crossing a sweep draws a burst anew, and no client more bursts than  *)
(* that.  And at most one client per thread is tracked above the cap.           *)
ThrottleHolds ==
    /\ \A c \in Clients :
          /\ \A life \in DOMAIN spent[c] : spent[c][life] <= Burst + Rate * clock
          /\ Len(spent[c]) <= 1 + 2 * (sweeps.timed + sweeps.forced)
    /\ sweeps.forced = 0 => sweeps.timed * SweepPause <= clock
    /\ Cardinality(Tracked) < TrackedCap + Cardinality(Threads)

=============================================================================
