------------------------------ MODULE JobRunner ------------------------------
(***************************************************************************)
(* The render queue of timeslides/jobs.py, together with the run routes of *)
(* timeslides/api.py that drive it.                                        *)
(*                                                                         *)
(* Processes.  One event loop runs the handlers POST /api/runs,            *)
(* GET /api/runs/{id} and GET /api/runs/{id}/report, one at a time (they   *)
(* are coroutines that never await before they return).  A thread pool     *)
(* runs JobRunner._execute, one job per worker.  The registry lock is      *)
(* taken by both; the attributes of a Job are also read without it, by     *)
(* as_dict and get_report, between any two steps of the workers.           *)
(*                                                                         *)
(* Abstraction.  A job's uuid is the ordinal of its creation.  The         *)
(* registry self._jobs is appended at one end and trimmed at the other,    *)
(* so it is the interval first..last of ids.  A spec is its key.           *)
(***************************************************************************)
EXTENDS Naturals, FiniteSets, Sequences

CONSTANTS
    Key,             \* the keys of the specs that are asked for
    Worker,          \* the threads of the pool
    None,            \* no key, no worker
    MaxRemembered,   \* jobs the registry is meant to hold
    MaxHeldInMemory, \* report bodies kept in memory
    Panels,          \* progress reports of one render
    Faults,          \* what may go wrong: see FaultKind
    MaxJobs,         \* bound: jobs ever created
    MaxBoots         \* bound: times the process is started

FaultKind == {"render",    \* the render raises
              "write",     \* the volume refuses the report
              "partial",   \* ... after having taken some of it
              "unlink",    \* an evicted report cannot be removed
              "shutdown"}  \* the pool is closed while the loop runs

ASSUME JobRunnerAssumption ==
    /\ None \notin Key \cup Worker
    /\ MaxRemembered \in Nat \ {0}
    /\ MaxHeldInMemory \in Nat \ {0}
    /\ Panels \in Nat
    /\ Faults \subseteq FaultKind
    /\ MaxJobs \in Nat
    /\ MaxBoots \in Nat

JobId == 1 .. MaxJobs

\* None where the code has None for a job or a job id.
NoJob == 0

VARIABLES
    \* the Job objects
    status,      \* Job.status; "none" where no such object was created
    keyOf,       \* Job.spec.key()
    path,        \* Job.path is not None
    html,        \* Job.html is not None
    progress,    \* Job.progress["done"]
    \* the JobRunner
    first, last, \* self._jobs holds the ids first..last
    byKey,       \* self._by_key; NoJob where the key is absent
    held,        \* self._held
    heldAt,      \* when a body was held: its rank among all bodies held
    holds,       \* how many bodies were held so far
    lock,        \* who owns self._lock between two steps
    queue,       \* the work queue of the pool
    open,        \* the pool accepts work
    worker,      \* what each thread of the pool is doing
    \* the volume
    report,      \* the file of each job under runs_path
    \* the event loop
    loop,        \* the handler in progress
    sending,     \* reports whose FileResponse still has to open the file
    reply,       \* the answer given by the last step, if it gave one
    boots

jobVars  == <<status, keyOf, path, html, progress>>
heldVars == <<held, heldAt, holds>>
registry == <<first, last, byKey>>
loopVars == <<loop, sending>>
vars == <<jobVars, registry, heldVars, lock, queue, open, worker, report,
          loopVars, reply, boots>>

Live       == {"queued", "running"}
Joinable   == Live \cup {"done"}
Status     == Joinable \cup {"failed", "none"}
Registered == first .. last

\* What an answer says: the status of a run, or the outcome of a request.
Answer == Status \cup {"joined", "error", "not found", "not ready",
                       "done, not ready", "unmodified", "whole", "partial",
                       "empty"}
Replies   == [to : {"none", "submit", "poll", "report"},
              run : JobId \cup {NoJob}, says : Answer]
NoReply   == [to |-> "none", run |-> NoJob, says |-> "none"]
Reply(to, run, says) == reply' = [to |-> to, run |-> run, says |-> says]
Silent    == reply' = NoReply

LoopIdle   == [at |-> "idle", run |-> NoJob, onVolume |-> FALSE]
WorkerIdle == [at |-> "idle", job |-> NoJob, wrote |-> FALSE]

Init ==
    /\ status = [j \in JobId |-> "none"]
    /\ keyOf = [j \in JobId |-> None]
    /\ path = [j \in JobId |-> FALSE]
    /\ html = [j \in JobId |-> FALSE]
    /\ progress = [j \in JobId |-> 0]
    /\ first = 1 /\ last = 0
    /\ byKey = [k \in Key |-> NoJob]
    /\ held = {} /\ heldAt = [j \in JobId |-> 0] /\ holds = 0
    /\ lock = None
    /\ queue = <<>>
    /\ open = TRUE
    /\ worker = [w \in Worker |-> WorkerIdle]
    /\ report = [j \in JobId |-> "none"]
    /\ loop = LoopIdle
    /\ sending = {}
    /\ reply = NoReply
    /\ boots = 1

-----------------------------------------------------------------------------
(***************************************************************************)
(* Submission: POST /api/runs.                                             *)
(***************************************************************************)
LoopIsFree == loop.at = "idle"
LockIsFree == lock = None

\* Mutant: only work in flight is shared.
JoinsLiveOnly(k) == byKey[k] \in Registered /\ status[byKey[k]] \in Live

\* A new request for k attaches to the job its key leads to.
Joins(k) == /\ byKey[k] \in Registered
            /\ status[byKey[k]] \in Joinable

\* Mutant: the trimming does not look at the status.
TrimsToSize(f, lo, hi, st) ==
    f \in lo .. hi /\ f = (IF hi - lo < MaxRemembered THEN lo
                           ELSE hi - MaxRemembered + 1)

\* _evict_locked trims the registry lo..hi to f..hi: every job popped found
\* the registry too long and was finished; the loop stops when the rest fits,
\* or at a live job, which is put back.
TrimsTo(f, lo, hi, st) ==
    /\ f \in lo .. hi
    /\ \A i \in lo .. f-1 : st[i] \notin Live /\ hi - i + 1 > MaxRemembered
    /\ hi - f + 1 <= MaxRemembered \/ st[f] \in Live

HeldWithout(evicted) == held \ evicted

\* The reports of the evicted jobs that unlink removes: all that have a path,
\* except where the volume refuses.
Unlinked(evicted) ==
    LET written == {j \in evicted : path[j]}
    IN  IF "unlink" \in Faults THEN SUBSET written ELSE {written}

\* submit joins an identical spec that is queued, running or done.
Join(k) ==
    /\ LoopIsFree /\ LockIsFree
    /\ Joins(k)
    /\ Reply("submit", byKey[k], "joined")
    /\ UNCHANGED <<jobVars, registry, heldVars, lock, queue, open, worker,
                   report, loopVars, boots>>

\* The part of submit under the lock: a new job is registered, then the oldest
\* finished jobs are evicted with their bodies, files and keys.
Register(k) ==
    LET id == last + 1
        st == [status EXCEPT ![id] = "queued"]
    IN  /\ LoopIsFree /\ LockIsFree
        /\ ~Joins(k)
        /\ last < MaxJobs
        /\ last' = id
        /\ status' = st
        /\ keyOf' = [keyOf EXCEPT ![id] = k]
        /\ loop' = [LoopIdle EXCEPT !.at = "handoff", !.run = id]
        /\ \E f \in first .. id :
             LET evicted == first .. f-1
             IN  /\ TrimsTo(f, first, id, st)
                 /\ first' = f
                 /\ byKey' = [x \in Key |->
                                IF x = k THEN id
                                ELSE IF byKey[x] \in evicted THEN NoJob
                                ELSE byKey[x]]
                 /\ held' = HeldWithout(evicted)
                 /\ html' = [j \in JobId |-> html[j] /\ j \notin evicted]
                 /\ \E gone \in Unlinked(evicted) :
                      report' = [j \in JobId |->
                                   IF j \in gone THEN "none" ELSE report[j]]
        /\ Silent
        /\ UNCHANGED <<path, progress, heldAt, holds, lock, queue, open,
                       worker, sending, boots>>

\* The rest of submit, after the lock: the job goes to the pool, and the
\* handler answers.  A closed pool raises, and the job stays registered.
HandOff ==
    /\ loop.at = "handoff"
    /\ IF open
       THEN /\ queue' = Append(queue, loop.run)
            /\ Reply("submit", loop.run, "queued")
       ELSE /\ queue' = queue
            /\ Reply("submit", loop.run, "error")
    /\ loop' = LoopIdle
    /\ UNCHANGED <<jobVars, registry, heldVars, lock, open, worker, report,
                   sending, boots>>

-----------------------------------------------------------------------------
(***************************************************************************)
(* Execution: JobRunner._execute on a thread w of the pool.                *)
(***************************************************************************)
At(w, pc)     == worker[w].at = pc
Goto(w, pc)   == worker' = [worker EXCEPT ![w].at = pc]
JobOf(w)      == worker[w].job
PoolUntouched == UNCHANGED <<registry, queue, open, loopVars, boots>>

\* The pool hands the next job of its queue to an idle thread.
Take(w) ==
    /\ At(w, "idle") /\ queue # <<>>
    /\ worker' = [worker EXCEPT ![w] = [at |-> "start", job |-> Head(queue),
                                        wrote |-> FALSE]]
    /\ queue' = Tail(queue)
    /\ Silent
    /\ UNCHANGED <<jobVars, registry, heldVars, lock, open, report, loopVars,
                   boots>>

Start(w) ==
    /\ At(w, "start") /\ LockIsFree
    /\ status' = [status EXCEPT ![JobOf(w)] = "running"]
    /\ Goto(w, "render")
    /\ Silent /\ PoolUntouched
    /\ UNCHANGED <<keyOf, path, html, progress, heldVars, lock, report>>

\* Mutant: one report too many.
PanelsLeftPlusOne(w) == progress[JobOf(w)] <= Panels

PanelsLeft(w) == progress[JobOf(w)] < Panels

\* The render calls back with its progress.
Progress(w) ==
    /\ At(w, "render") /\ LockIsFree
    /\ PanelsLeft(w)
    /\ progress' = [progress EXCEPT ![JobOf(w)] = @ + 1]
    /\ Silent /\ PoolUntouched
    /\ UNCHANGED <<status, keyOf, path, html, heldVars, lock, worker, report>>

Rendered(w) ==
    /\ At(w, "render")
    /\ Goto(w, "write")
    /\ Silent /\ PoolUntouched
    /\ UNCHANGED <<jobVars, heldVars, lock, report>>

\* Mutant: an exception ends the thread's work and never reaches the job.
RenderVanishes(w) ==
    /\ "render" \in Faults
    /\ At(w, "render")
    /\ worker' = [worker EXCEPT ![w] = WorkerIdle]
    /\ Silent /\ PoolUntouched
    /\ UNCHANGED <<jobVars, heldVars, lock, report>>

RenderRaises(w) ==
    /\ "render" \in Faults
    /\ At(w, "render")
    /\ Goto(w, "fail")
    /\ Silent /\ PoolUntouched
    /\ UNCHANGED <<jobVars, heldVars, lock, report>>

\* _write, with the file complete.
Write(w) ==
    /\ At(w, "write")
    /\ report' = [report EXCEPT ![JobOf(w)] = "whole"]
    /\ worker' = [worker EXCEPT ![w].at = "finish", ![w].wrote = TRUE]
    /\ Silent /\ PoolUntouched
    /\ UNCHANGED <<jobVars, heldVars, lock>>

\* What a write that did not return may leave in its file, which is new: a
\* strategy that writes in place leaves some of the report, or all of it.
Leavings == {"none"} \cup {f \in {"partial", "whole"} : "partial" \in Faults}

\* _write raises OSError.
WriteRefused(w) ==
    /\ "write" \in Faults
    /\ At(w, "write")
    /\ \E left \in Leavings : report' = [report EXCEPT ![JobOf(w)] = left]
    /\ Goto(w, "hold")
    /\ Silent /\ PoolUntouched
    /\ UNCHANGED <<jobVars, heldVars, lock>>

\* Mutant: the newest body is the one to go.
GoesLast(i, kept, at) == \A other \in kept : at[i] >= at[other]

GoesFirst(i, kept, at) == \A other \in kept : at[i] <= at[other]

\* _hold_in_memory: the body joins the held ones, and the oldest is dropped
\* when there is one too many.  The loop of the code drops one at most.
HoldInMemory(w) ==
    LET j    == JobOf(w)
        kept == held \cup {j}
    IN  /\ At(w, "hold") /\ LockIsFree
        /\ holds' = holds + 1
        /\ heldAt' = [heldAt EXCEPT ![j] = holds + 1]
        /\ \E oldest \in kept :
             /\ GoesFirst(oldest, kept, heldAt')
             /\ IF Cardinality(kept) > MaxHeldInMemory
                THEN /\ held' = kept \ {oldest}
                     /\ html' = [i \in JobId |-> /\ i # oldest
                                                 /\ html[i] \/ i = j]
                ELSE /\ held' = kept
                     /\ html' = [html EXCEPT ![j] = TRUE]
        /\ Goto(w, "finish")
        /\ Silent /\ PoolUntouched
        /\ UNCHANGED <<status, keyOf, path, progress, lock, report>>

\* The end of _execute takes the lock and sets the attributes one by one, the
\* status first and the path last.
Finish(w) ==
    /\ At(w, "finish") /\ LockIsFree
    /\ lock' = w
    /\ status' = [status EXCEPT ![JobOf(w)] = "done"]
    /\ Goto(w, "publish")
    /\ Silent /\ PoolUntouched
    /\ UNCHANGED <<keyOf, path, html, progress, heldVars, report>>

\* Mutant: the path is set whether or not the write returned.
AlwaysOnVolume(w) == TRUE

OnVolume(w) == worker[w].wrote

Publish(w) ==
    /\ At(w, "publish")
    /\ path' = [path EXCEPT ![JobOf(w)] = OnVolume(w)]
    /\ progress' = [progress EXCEPT ![JobOf(w)] = Panels]
    /\ lock' = None
    /\ worker' = [worker EXCEPT ![w] = WorkerIdle]
    /\ Silent /\ PoolUntouched
    /\ UNCHANGED <<status, keyOf, html, heldVars, report>>

\* Mutant: the key of a failed job stays.
KeysStay(j) == byKey

\* A failed spec must not be joinable: its key goes, if it is still this job's.
KeysAfterFailure(j) == [k \in Key |-> IF k = keyOf[j] /\ byKey[k] = j
                                      THEN NoJob ELSE byKey[k]]

\* _fail
Fail(w) ==
    /\ At(w, "fail") /\ LockIsFree
    /\ status' = [status EXCEPT ![JobOf(w)] = "failed"]
    /\ byKey' = KeysAfterFailure(JobOf(w))
    /\ worker' = [worker EXCEPT ![w] = WorkerIdle]
    /\ Silent
    /\ UNCHANGED <<keyOf, path, html, progress, first, last, heldVars,
                   lock, queue, open, report, loopVars, boots>>

-----------------------------------------------------------------------------
(***************************************************************************)
(* Reads.  runner.get looks the job up under the lock; everything after    *)
(* that is read from the object without it.                                *)
(***************************************************************************)
ReadUntouched == UNCHANGED <<jobVars, registry, heldVars, lock, queue, open,
                             worker, report, boots>>

LookUp(id, to, at) ==
    /\ LoopIsFree /\ LockIsFree
    /\ id \in 1 .. last
    /\ IF id \in Registered
       THEN loop' = [LoopIdle EXCEPT !.at = at, !.run = id] /\ Silent
       ELSE loop' = loop /\ Reply(to, id, "not found")
    /\ sending' = sending
    /\ ReadUntouched

GetRun(id)    == LookUp(id, "poll", "poll")
GetReport(id) == LookUp(id, "report", "path")

\* as_dict: the status, and with it whether a reportUrl is given.
AnswerPoll ==
    /\ loop.at = "poll"
    /\ Reply("poll", loop.run, status[loop.run])
    /\ loop' = LoopIdle
    /\ sending' = sending
    /\ ReadUntouched

\* on_volume = job.path is not None and job.path.exists()
ReadPath ==
    /\ loop.at = "path"
    /\ loop' = [loop EXCEPT !.at = "status",
                            !.onVolume = path[loop.run] /\ report[loop.run] # "none"]
    /\ sending' = sending
    /\ Silent /\ ReadUntouched

\* job.status != DONE or not (on_volume or job.html)
ReadStatus ==
    /\ loop.at = "status"
    /\ IF status[loop.run] # "done"
       THEN /\ loop' = LoopIdle
            /\ Reply("report", loop.run, "not ready")
       ELSE /\ loop' = [loop EXCEPT !.at = IF loop.onVolume THEN "answer"
                                           ELSE "html"]
            /\ Silent
    /\ sending' = sending
    /\ ReadUntouched

ReadHtml ==
    /\ loop.at = "html"
    /\ IF html[loop.run]
       THEN loop' = [loop EXCEPT !.at = "answer"] /\ Silent
       ELSE loop' = LoopIdle /\ Reply("report", loop.run, "done, not ready")
    /\ sending' = sending
    /\ ReadUntouched

\* A conditional request is answered 304.  Otherwise the file is streamed, or
\* the held body is read a second time: an empty page where it is None.
AnswerReport ==
    /\ loop.at = "answer"
    /\ loop' = LoopIdle
    /\ \/ Reply("report", loop.run, "unmodified") /\ sending' = sending
       \/ /\ loop.onVolume
          /\ sending' = sending \cup {loop.run}
          /\ Silent
       \/ /\ ~loop.onVolume
          /\ Reply("report", loop.run, IF html[loop.run] THEN "whole" ELSE "empty")
          /\ sending' = sending
    /\ ReadUntouched

\* FileResponse opens the file after the handler has returned.
SendFile(id) ==
    /\ id \in sending
    /\ sending' = sending \ {id}
    /\ Reply("report", id, IF report[id] = "none" THEN "error" ELSE report[id])
    /\ loop' = loop
    /\ ReadUntouched

-----------------------------------------------------------------------------
\* shutdown closes the pool; what was handed to it still runs.
Shutdown ==
    /\ "shutdown" \in Faults
    /\ open /\ LoopIsFree
    /\ open' = FALSE
    /\ Silent
    /\ UNCHANGED <<jobVars, registry, heldVars, lock, queue, worker, report,
                   loopVars, boots>>

\* The process dies at any point and a new one starts: an empty registry, and
\* the volume as it was left.  A report that was being written may be whole.
Restart ==
    /\ boots < MaxBoots
    /\ boots' = boots + 1
    /\ \E left \in [{JobOf(w) : w \in {v \in Worker : At(v, "write")}}
                     -> Leavings \cup {"whole"}] :
         report' = [j \in JobId |-> IF j \in DOMAIN left THEN left[j] ELSE report[j]]
    /\ status' = [j \in JobId |-> "none"]
    /\ keyOf' = [j \in JobId |-> None]
    /\ path' = [j \in JobId |-> FALSE]
    /\ html' = [j \in JobId |-> FALSE]
    /\ progress' = [j \in JobId |-> 0]
    /\ first' = last + 1 /\ last' = last
    /\ byKey' = [k \in Key |-> NoJob]
    /\ held' = {} /\ heldAt' = [j \in JobId |-> 0] /\ holds' = 0
    /\ lock' = None
    /\ queue' = <<>>
    /\ open' = TRUE
    /\ worker' = [w \in Worker |-> WorkerIdle]
    /\ loop' = LoopIdle
    /\ sending' = {}
    /\ Silent

Execute(w) ==
    \/ Take(w) \/ Start(w) \/ Progress(w) \/ Rendered(w) \/ RenderRaises(w)
    \/ Write(w) \/ WriteRefused(w) \/ HoldInMemory(w)
    \/ Finish(w) \/ Publish(w) \/ Fail(w)

Request == \/ \E k \in Key : Join(k) \/ Register(k)
           \/ \E id \in JobId : GetRun(id) \/ GetReport(id)

Handle == \/ HandOff \/ AnswerPoll \/ ReadPath \/ ReadStatus \/ ReadHtml
          \/ AnswerReport \/ \E id \in JobId : SendFile(id)

Next == \/ Request \/ Handle \/ Shutdown \/ Restart
        \/ \E w \in Worker : Execute(w)

Spec == Init /\ [][Next]_vars

\* The operating system runs every thread: a worker that can go on does, and
\* so does the event loop.  Nobody is obliged to send a request.
FairSpec == /\ Spec
            /\ WF_vars(Handle)
            /\ \A w \in Worker : WF_vars(Execute(w))

-----------------------------------------------------------------------------
(***************************************************************************)
(* Properties.                                                             *)
(***************************************************************************)
JobsTyped ==
    /\ status \in [JobId -> Status]
    /\ keyOf \in [JobId -> Key \cup {None}]
    /\ path \in [JobId -> BOOLEAN] /\ html \in [JobId -> BOOLEAN]
    /\ progress \in [JobId -> 0 .. Panels]
    /\ report \in [JobId -> {"none", "partial", "whole"}]

RegistryTyped ==
    /\ first \in 1 .. MaxJobs + 1 /\ last \in 0 .. MaxJobs
    /\ byKey \in [Key -> JobId \cup {NoJob}]
    /\ held \subseteq JobId /\ heldAt \in [JobId -> Nat] /\ holds \in Nat

PoolTyped ==
    /\ lock \in Worker \cup {None}
    /\ queue \in Seq(JobId)
    /\ open \in BOOLEAN
    /\ worker \in [Worker ->
         [at : {"idle", "start", "render", "write", "hold", "finish",
                "publish", "fail"},
          job : JobId \cup {NoJob}, wrote : BOOLEAN]]
    /\ \A w \in Worker : ~At(w, "idle") => JobOf(w) \in JobId

LoopTyped ==
    /\ loop \in [at : {"idle", "handoff", "poll", "path", "status", "html",
                       "answer"},
                 run : JobId \cup {NoJob}, onVolume : BOOLEAN]
    /\ loop.at # "idle" => loop.run \in JobId
    /\ sending \subseteq JobId
    /\ reply \in Replies
    /\ boots \in Nat

\* Every variable has its type: the attributes of a job, the registry, the
\* threads and the handler in progress (jobs.py: Job, JobRunner.__init__).
TypeOK == JobsTyped /\ RegistryTyped /\ PoolTyped /\ LoopTyped

\* Identical specs share one render: a job that a request could attach to is
\* the one its key leads to, so no second render of it is ever started while
\* the first is queued, running or kept (jobs.py: submit, _evict_locked).
SingleFlight ==
    \A j \in Registered :
        status[j] \in Joinable => byKey[keyOf[j]] = j

\* A key never leads to a failed or forgotten job: a failed spec is rendered
\* anew, and eviction leaves no dangling key and takes no other job's key
\* (jobs.py: _fail, _evict_locked).
KeysLeadToJoinable ==
    \A k \in Key : byKey[k] # NoJob =>
        /\ byKey[k] \in Registered
        /\ status[byKey[k]] \in Joinable
        /\ keyOf[byKey[k]] = k

\* Live work is never evicted: a queued or running job can always be found,
\* however many jobs were registered after it (jobs.py: _evict_locked).
LiveIsKept == \A j \in JobId : status[j] \in Live => j \in Registered

\* The strengthening that makes the three invariants above inductive: a job
\* is in the hands of one actor at a time, whose program counter fixes its
\* status.
Handed(j) == loop.at = "handoff" /\ loop.run = j
Queued(j) == \E i \in DOMAIN queue : queue[i] = j
Worked(j) == \E w \in Worker : ~At(w, "idle") /\ JobOf(w) = j

Created == \A j \in JobId : status[j] # "none" => j <= last /\ keyOf[j] \in Key

HandedOnce == loop.at = "handoff" =>
                 /\ status[loop.run] = "queued"
                 /\ ~Queued(loop.run) /\ ~Worked(loop.run)

QueuedOnce == /\ \A i \in DOMAIN queue : /\ status[queue[i]] = "queued"
                                         /\ ~Worked(queue[i])
              /\ \A i, n \in DOMAIN queue : queue[i] = queue[n] => i = n

WorkedOnce ==
    /\ \A w \in Worker :
         /\ At(w, "start") => status[JobOf(w)] = "queued"
         /\ At(w, "publish") => status[JobOf(w)] = "done"
         /\ worker[w].at \in {"render", "write", "hold", "finish", "fail"} =>
               status[JobOf(w)] = "running"
    /\ \A v, w \in Worker :
         ~At(v, "idle") /\ ~At(w, "idle") /\ JobOf(v) = JobOf(w) => v = w

InOneHand == Created /\ HandedOnce /\ QueuedOnce /\ WorkedOnce

RegistryInv == TypeOK /\ InOneHand /\ LiveIsKept /\ SingleFlight
                      /\ KeysLeadToJoinable

\* A finished run loses its report in one way only: its body was held in
\* memory and MaxHeldInMemory newer ones were held since.  A report on the
\* volume stays for as long as its run is remembered (jobs.py: _execute,
\* _hold_in_memory, _evict_locked).
DoneHasReport ==
    \A j \in Registered : status[j] = "done" /\ lock = None =>
        \/ path[j] /\ report[j] = "whole"
        \/ html[j]
        \/ heldAt[j] > 0 /\ holds - heldAt[j] >= MaxHeldInMemory

\* No request is ever answered with part of a report: a file is offered only
\* once its write has returned, even when writes are cut short or the process
\* restarts (jobs.py: _execute; api.py: get_report).
NoPartialReport == reply.to = "report" => reply.says # "partial"

\* No live job is stranded: one that is queued or running is being handed to the
\* pool, waits in its queue or is with a thread, so that somebody will end it.
\* The exception is a job whose handler found the pool closed: it stays queued
\* (jobs.py: submit, _execute, shutdown).
NoneStranded ==
    \A j \in JobId : status[j] \in Live =>
        \/ Handed(j) \/ Queued(j) \/ Worked(j)
        \/ status[j] = "queued" /\ ~open

\* A run goes from queued to running to its end, each once, and leaves the
\* registry only then: two polls of one run never see it go back, and a run that
\* is gone had ended.  A restart takes all runs at once (jobs.py: _execute,
\* _fail, _evict_locked).
Life == {<<"none", "queued">>, <<"queued", "running">>, <<"running", "done">>,
         <<"running", "failed">>}

GoesOn(j) == /\ status'[j] # status[j] => <<status[j], status'[j]>> \in Life
             /\ j \in Registered \ Registered' => status[j] \in {"done", "failed"}

RunsGoOn == [][boots' = boots => \A j \in JobId : GoesOn(j)]_vars

\* The bodies kept in memory are no more than MaxHeldInMemory, and all of them
\* are known to self._held: so one that is dropped makes room for one that is
\* held, and none outlives its run (jobs.py: _hold_in_memory, _evict_locked).
BodiesAreFew ==
    /\ Cardinality(held) <= MaxHeldInMemory
    /\ \A j \in JobId : html[j] => j \in held

\* A job that was accepted by the pool is done or failed in the end, whatever
\* its render and its write do, and even if the pool is shut down meanwhile
\* (jobs.py: _execute, shutdown).
QueuedResolves ==
    \A j \in JobId :
        (\E i \in DOMAIN queue : queue[i] = j) ~> status[j] \notin Live

\* The runner implements the abstract render cache: the step that registers a
\* job is a Start, and so on; everything else stutters (jobs.py: submit,
\* _execute, _fail, _evict_locked).
Shared == INSTANCE SharedRender WITH
    run <- byKey,
    done <- [k \in Key |-> byKey[k] # NoJob /\ status[byKey[k]] = "done"],
    started <- last

ImplementsSharedRender == Shared!Spec
=============================================================================
