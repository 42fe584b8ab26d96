------------------------------- MODULE Upstream -------------------------------
(***************************************************************************)
(* Requests to the UDL: the token bucket of timeslides/ratelimit.py, the   *)
(* GETs of the client in timeslides/udl.py that take from it, and the      *)
(* threads that wait in it: the workers, which render, and the event loop, *)
(* which runs the catalogue and probe handlers of timeslides/api.py as     *)
(* coroutines that never await, beside the page and /healthz.              *)
(*                                                                         *)
(* Time is a Tick.  A bucket gains one unit of budget per tick and a       *)
(* request costs Cost units: a tick is 60 s / (per_minute * Cost).  Each   *)
(* client makes a bucket of its own, full; with a client or a bucket that  *)
(* is injected (create_app, UDLClient) all callers share one.              *)
(***************************************************************************)
EXTENDS Naturals, Sequences

CONSTANTS Loop,      \* the thread of the event loop
          Workers,   \* the threads of the pool
          None,      \* no bucket
          Cost,      \* units of budget a request takes
          Capacity,  \* units of budget a bucket holds
          Providers, \* providers a probe asks for
          MaxGets,   \* bound: requests of one render
          Horizon    \* bound: ticks for which a window is watched

ASSUME UpstreamAssumption ==
    /\ Loop \notin Workers /\ None \notin Workers \cup {Loop}
    /\ Cost \in Nat \ {0} /\ Capacity \in Nat /\ Cost <= Capacity
    /\ Providers \in Nat \ {0} /\ MaxGets \in Nat /\ Horizon \in Nat

Callers == Workers \cup {Loop}
Kind    == {"index", "search", "probe"}

VARIABLES
    shared, \* one bucket for all, or one for each client
    tokens, \* TokenBucket._tokens, per bucket
    age,    \* the time since TokenBucket._updated, as far as it matters
    at,     \* where a caller is: "idle", "take", "sleep" or "http"
    job,    \* what it does there: "none", "search", "probe" or "render"
    todo,   \* the requests it still has to make, the current one included
    timer,  \* what is left of its sleep
    rows,   \* the results of the last probe, their number
    queue,  \* requests that wait for the event loop
    \* history
    watched, \* the bucket that is watched for a while, or None
    spent,   \* what it has granted since
    elapsed  \* the time since

bucket == <<tokens, age>>
caller == <<at, job, todo, timer, rows>>
window == <<watched, spent, elapsed>>
vars   == <<shared, bucket, caller, queue, window>>

BucketOf(c) == IF shared THEN Loop ELSE c
InUse(b)    == IF shared THEN b = Loop ELSE at[b] # "idle"
Unwatch     == watched' = None /\ spent' = 0 /\ elapsed' = 0

\* A caller that is idle has no client: the next one comes with a full bucket.
Init ==
    /\ shared \in BOOLEAN
    /\ tokens = [c \in Callers |-> Capacity] /\ age = [c \in Callers |-> 0]
    /\ at = [c \in Callers |-> "idle"] /\ job = [c \in Callers |-> "none"]
    /\ todo = [c \in Callers |-> 0] /\ timer = [c \in Callers |-> 0]
    /\ rows = 0 /\ queue = <<>>
    /\ watched = None /\ spent = 0 /\ elapsed = 0

-----------------------------------------------------------------------------
(***************************************************************************)
(* The bucket.                                                             *)
(***************************************************************************)
\* Mutants: the refill is not limited by the capacity, or left out of take.
Overflows(b) == tokens[b] + age[b]
Unfilled(b)  == tokens[b]

\* _refill: what bucket b holds now
Level(b) == IF tokens[b] + age[b] < Capacity THEN tokens[b] + age[b] ELSE Capacity

\* Mutant: a part of a token will do.
Something(b) == Level(b) > 0

Enough(b) == Level(b) >= Cost

\* take, under the lock: there is enough
Take(c) ==
    LET b == BucketOf(c) IN
    /\ at[c] = "take" /\ Enough(b)
    /\ tokens' = [tokens EXCEPT ![b] = Level(b) - Cost]
    /\ age' = [age EXCEPT ![b] = 0]
    /\ at' = [at EXCEPT ![c] = "http"]
    /\ spent' = IF watched = b THEN spent + Cost ELSE spent
    /\ UNCHANGED <<shared, job, todo, timer, rows, queue, watched, elapsed>>

\* shortfall / rate
Delay(b) == Cost - Level(b)

\* take, under the lock: there is not, and the thread sleeps outside of it
FallShort(c) ==
    LET b == BucketOf(c) IN
    /\ at[c] = "take" /\ ~Enough(b)
    /\ tokens' = [tokens EXCEPT ![b] = Level(b)]
    /\ age' = [age EXCEPT ![b] = 0]
    /\ at' = [at EXCEPT ![c] = "sleep"]
    /\ timer' = [timer EXCEPT ![c] = Delay(b)]
    /\ UNCHANGED <<shared, job, todo, rows, queue, window>>

\* The sleep is over, or has been for a while.
Wake(c) ==
    /\ at[c] = "sleep" /\ timer[c] = 0
    /\ at' = [at EXCEPT ![c] = "take"]
    /\ UNCHANGED <<shared, bucket, job, todo, timer, rows, queue, window>>

Tick ==
    /\ age' = [b \in Callers |-> IF InUse(b) /\ age[b] < Capacity THEN age[b] + 1 ELSE age[b]]
    /\ timer' = [c \in Callers |-> IF timer[c] > 0 THEN timer[c] - 1 ELSE 0]
    /\ IF watched = None \/ elapsed >= Horizon THEN Unwatch
       ELSE elapsed' = elapsed + 1 /\ UNCHANGED <<watched, spent>>
    /\ UNCHANGED <<shared, tokens, at, job, todo, rows, queue>>

-----------------------------------------------------------------------------
(***************************************************************************)
(* The client.                                                             *)
(***************************************************************************)
\* A handler or a render makes a client and n requests with it.
Begin(c, kind, n) ==
    /\ at[c] = "idle"
    /\ at' = [at EXCEPT ![c] = "take"]
    /\ job' = [job EXCEPT ![c] = kind]
    /\ todo' = [todo EXCEPT ![c] = n]
    /\ UNCHANGED <<shared, bucket, timer, window>>

\* It ends, well or not, and a bucket of its own ends with the client.
End(c) ==
    /\ at' = [at EXCEPT ![c] = "idle"]
    /\ job' = [job EXCEPT ![c] = "none"]
    /\ todo' = [todo EXCEPT ![c] = 0]
    /\ IF shared THEN UNCHANGED <<bucket, window>>
       ELSE /\ tokens' = [tokens EXCEPT ![c] = Capacity]
            /\ age' = [age EXCEPT ![c] = 0]
            /\ IF watched = c THEN Unwatch ELSE UNCHANGED window
    /\ UNCHANGED <<shared, timer, queue>>

\* On to the next request, or to the end.
GoOn(c) ==
    \/ todo[c] <= 1 /\ End(c)
    \/ /\ todo[c] > 1
       /\ at' = [at EXCEPT ![c] = "take"]
       /\ todo' = [todo EXCEPT ![c] = @ - 1]
       /\ UNCHANGED <<shared, bucket, job, timer, queue, window>>

\* Mutant: an error of one provider ends the probe.
StopAtError(error) == IF error THEN End(Loop) ELSE GoOn(Loop)

\* probe_source: an error is a row as well
NextProvider(error) == GoOn(Loop)

\* _get returns a list, or raises UpstreamError after an answer it cannot use
\* or none in time.
Answered(c) == at[c] = "http" /\ job[c] # "probe" /\ GoOn(c) /\ rows' = rows
Raises(c)   == at[c] = "http" /\ job[c] # "probe" /\ End(c) /\ rows' = rows
Probed      == /\ at[Loop] = "http" /\ job[Loop] = "probe"
               /\ \E error \in BOOLEAN : NextProvider(error)
               /\ rows' = rows + 1

-----------------------------------------------------------------------------
(***************************************************************************)
(* The threads.                                                            *)
(***************************************************************************)
Waits(kind) == \E i \in 1 .. Len(queue) : queue[i] = kind

\* A request arrives.  Bound: one of each kind waits.
Arrive ==
    /\ \E kind \in Kind : ~Waits(kind) /\ queue' = Append(queue, kind)
    /\ UNCHANGED <<shared, bucket, caller, window>>

\* index and healthz answer from what they hold
Index ==
    /\ at[Loop] = "idle" /\ queue # <<>> /\ Head(queue) = "index"
    /\ queue' = Tail(queue)
    /\ UNCHANGED <<shared, bucket, caller, window>>

\* search: by name or by number it is one request
Search ==
    /\ queue # <<>> /\ Head(queue) = "search"
    /\ queue' = Tail(queue) /\ Begin(Loop, "search", 1) /\ rows' = rows

\* probe_sources: a request for each provider, in turn
Probe ==
    /\ queue # <<>> /\ Head(queue) = "probe"
    /\ queue' = Tail(queue) /\ Begin(Loop, "probe", Providers) /\ rows' = 0

Serve == Index \/ Search \/ Probe

Render(w) ==
    /\ \E n \in 1 .. MaxGets : Begin(w, "render", n)
    /\ UNCHANGED <<rows, queue>>

\* History: a span of time begins, at any moment of a bucket that is in use.
Watch(b) ==
    /\ watched = None /\ InUse(b)
    /\ watched' = b
    /\ UNCHANGED <<shared, bucket, caller, queue, spent, elapsed>>

Step(c) == Take(c) \/ FallShort(c) \/ Wake(c) \/ Answered(c) \/ Raises(c)

Next ==
    \/ Tick \/ Arrive \/ Serve \/ Probed
    \/ \E w \in Workers : Render(w)
    \/ \E c \in Callers : Step(c) \/ Watch(c)

Spec == Init /\ [][Next]_vars

\* The clock runs, threads are scheduled, and a GET ends: it has a timeout.
FairSpec ==
    /\ Spec
    /\ WF_vars(Tick)
    /\ WF_vars(Serve)
    /\ WF_vars(Probed)
    /\ \A c \in Callers : WF_vars(Step(c))

-----------------------------------------------------------------------------
(***************************************************************************)
(* Properties.                                                             *)
(***************************************************************************)
\* Every variable has its type: no bucket is overdrawn or fuller than it may be.
TypeOK ==
    /\ shared \in BOOLEAN
    /\ tokens \in [Callers -> 0 .. Capacity] /\ age \in [Callers -> 0 .. Capacity]
    /\ at \in [Callers -> {"idle", "take", "sleep", "http"}]
    /\ job \in [Callers -> {"none", "search", "probe", "render"}]
    /\ todo \in [Callers -> Nat] /\ timer \in [Callers -> 0 .. Cost]
    /\ rows \in Nat /\ queue \in Seq(Kind)
    /\ watched \in Callers \cup {None} /\ spent \in Nat /\ elapsed \in Nat

\* In any span of time a bucket grants what it can hold and what it gains in
\* that time, and no more, however many threads sleep and wake together
\* (ratelimit.py:43-57).
WindowBudget == spent <= Capacity + elapsed

\* A thread alone with its bucket sleeps once: when it wakes there is enough
\* (ratelimit.py:54-56).
SleepIsEnough ==
    \A c \in Callers : ~shared /\ at[c] = "sleep" => Level(c) + timer[c] >= Cost

\* A probe does not end before it has a row for every provider, whatever failed
\* (udl.py:303-320).
ProbeEndsWhole ==
    [][job[Loop] = "probe" /\ at'[Loop] = "idle" => rows' = Providers]_vars

\* With a bucket for each client the page is served in the end, whatever the
\* loop has to wait for first (api.py:176-180, ratelimit.py:56).
ReadinessIsAnswered == ~shared /\ Waits("index") ~> ~Waits("index")

\* A probe gives a row for every provider, those that failed included
\* (udl.py:303-320).
ProbeIsWhole ==
    ~shared /\ job[Loop] = "probe" ~> at[Loop] = "idle" /\ rows = Providers

\* "GET / ... never touches the UDL.  A readiness probe that depends on an
\* upstream turns someone else's outage into a restart loop" and "Long work
\* never happens in a request" (api.py:5-9): nothing that waits for the UDL
\* stands between the readiness probe and its answer.
ReadinessIsLocal == Waits("index") => at[Loop] \notin {"sleep", "http"}
=============================================================================
