----------------------------- MODULE PickerRuns -----------------------------
(***************************************************************************)
(* The render side of the Configure tab, timeslides/report/assets/picker.js: *)
(* startRun, pollRun, drawRun and openReport, as one page of one browser.  *)
(*                                                                         *)
(* The page is a single thread; each handler runs up to its next await.    *)
(* Between a request and its answer anything may happen: other clicks,     *)
(* timers, answers to other requests, in any order.  A request is answered *)
(* by the service, or fails; it does not stay out for ever.                *)
(*                                                                         *)
(* The service is what timeslides/jobs.py promises: a request starts a job *)
(* or joins one, and every job is done or failed in the end (JobRunner,    *)
(* QueuedResolves) and may be forgotten then.                              *)
(***************************************************************************)
EXTENDS Naturals, FiniteSets

CONSTANTS Job,       \* jobs of the service
          None,      \* no job, no answer yet
          Error,     \* the answer of a request that failed
          MaxStarts  \* bound: renders started from the page

ASSUME PickerRunsAssumption ==
    /\ None \notin Job /\ Error \notin Job /\ None # Error
    /\ MaxStarts \in Nat

Token     == 1 .. MaxStarts
JobStatus == {"none", "queued", "running", "done", "failed", "forgotten"}

VARIABLES
    status,    \* the service: what became of each job
    token,     \* S.runToken
    run,       \* S.run.id; None where S.run is null
    poll,      \* S.poll: whose timer was set last; 0 where it is null
    timers,    \* the timers that have yet to fire, by the token of their chain
    posts,     \* POSTs to /api/runs that are out
    polls,     \* GETs of /api/runs/{id} that are out
    list,      \* the group list: "empty", "unticked" or "ticked"
    disabled,  \* runbtn.disabled
    says,      \* runmsg: "blank", "working", "ready" or "error"
    shown,     \* the job whose report is in the frame; None before the first
    \* history
    given,     \* the job that each start was answered with
    opened     \* how many reports each start has opened

page == <<token, run, poll, timers, posts, polls, disabled, says, shown>>
history == <<given, opened>>
vars == <<status, page, list, history>>

Post == [by : Token, answer : Job \cup {None, Error}]
Poll == [by : Token, job : Job, answer : JobStatus \cup {None, Error}]

Init ==
    /\ status = [j \in Job |-> "none"]
    /\ token = 0
    /\ run = None
    /\ poll = 0
    /\ timers = {}
    /\ posts = {}
    /\ polls = {}
    /\ list = "empty"
    /\ disabled = TRUE
    /\ says = "blank"
    /\ shown = None
    /\ given = [t \in Token |-> None]
    /\ opened = [t \in Token |-> 0]

-----------------------------------------------------------------------------
(***************************************************************************)
(* The service.                                                            *)
(***************************************************************************)
Answer(requests, r, a) == (requests \ {r}) \cup {[r EXCEPT !.answer = a]}

PageUntouched == UNCHANGED <<token, run, poll, timers, list, disabled, says,
                             shown, opened>>

\* A POST starts a job, or joins one that is queued, running or done.  (Where
\* the bound leaves no job, it is refused.)
Submit(p) ==
    LET usable == {j \in Job : status[j] \notin {"failed", "forgotten"}}
    IN  /\ p \in posts /\ p.answer = None
        /\ \/ \E j \in usable :
                /\ status' = IF status[j] = "none"
                             THEN [status EXCEPT ![j] = "queued"] ELSE status
                /\ posts' = Answer(posts, p, j)
                /\ given' = [given EXCEPT ![p.by] = j]
           \/ /\ usable = {}
              /\ posts' = Answer(posts, p, Error)
              /\ UNCHANGED <<status, given>>
        /\ polls' = polls
        /\ PageUntouched

Report(g) ==
    /\ g \in polls /\ g.answer = None
    /\ polls' = Answer(polls, g, IF status[g.job] = "forgotten" THEN Error
                                 ELSE status[g.job])
    /\ UNCHANGED <<status, posts, given>>
    /\ PageUntouched

\* A request is refused, or is lost on its way.
LoseRequest ==
    /\ \/ /\ \E p \in {x \in posts : x.answer = None} :
               posts' = Answer(posts, p, Error)
          /\ polls' = polls
       \/ /\ \E g \in {x \in polls : x.answer = None} :
               polls' = Answer(polls, g, Error)
          /\ posts' = posts
    /\ UNCHANGED <<status, given>>
    /\ PageUntouched

Work(j) ==
    /\ \/ status[j] = "queued" /\ status' = [status EXCEPT ![j] = "running"]
       \/ /\ status[j] = "running"
          /\ \E s \in {"done", "failed"} : status' = [status EXCEPT ![j] = s]
    /\ UNCHANGED <<page, list, history>>

\* A finished job is evicted; any job is gone after a restart.
Forget(j) ==
    /\ status[j] \notin {"none", "forgotten"}
    /\ status' = [status EXCEPT ![j] = "forgotten"]
    /\ UNCHANGED <<page, list, history>>

-----------------------------------------------------------------------------
(***************************************************************************)
(* The page.                                                               *)
(***************************************************************************)
ServiceUntouched == UNCHANGED <<status, given>>

\* drawGroups, after a tick, a save, an archive or a load of the list: the
\* button is armed by the list alone, whatever render is out.
DrawGroups(l) ==
    /\ list' = l
    /\ disabled' = (l # "ticked")
    /\ UNCHANGED <<token, run, poll, timers, posts, polls, says, shown, opened>>
    /\ ServiceUntouched

\* Mutant: S.runToken++ in place of ++S.runToken.
TokenBefore == token

\* const mine = ++S.runToken
Mine == token + 1

\* startRun up to its await.
StartRun ==
    /\ ~disabled /\ list = "ticked"
    /\ token < MaxStarts
    /\ disabled' = TRUE
    /\ says' = "blank"
    /\ token' = token + 1
    /\ posts' = posts \cup {[by |-> Mine, answer |-> None]}
    /\ UNCHANGED <<run, poll, timers, polls, list, shown, opened>>
    /\ ServiceUntouched

\* startRun with no group ticked, or no mode or provider active.
StartNothing ==
    /\ ~disabled
    /\ says' = "error"
    /\ UNCHANGED <<token, run, poll, timers, posts, polls, list, disabled, shown,
                   opened>>
    /\ ServiceUntouched

\* Mutant: a reply is taken whatever render it belongs to.
AlwaysOwns(t) == TRUE

\* if (token !== S.runToken) return
Owns(t) == t = token

\* if (S.poll) clearTimeout(S.poll)
TimersCleared == timers \ {poll}

\* Mutant: the button is not given back when the POST fails.
StillDisabled == TRUE

DisabledAfterError == FALSE

\* startRun after its await, and pollRun up to the first await of its tick.
Started(p) ==
    /\ p \in posts /\ p.answer # None
    /\ posts' = posts \ {p}
    /\ IF ~Owns(p.by)
       THEN UNCHANGED <<run, timers, polls, disabled, says>>
       ELSE IF p.answer = Error
       THEN /\ says' = "error"
            /\ disabled' = DisabledAfterError
            /\ UNCHANGED <<run, timers, polls>>
       ELSE /\ run' = p.answer
            /\ timers' = TimersCleared
            /\ polls' = polls \cup {[by |-> p.by, job |-> p.answer, answer |-> None]}
            /\ says' \in {says, "working"}    \* where it joined: a note
            /\ disabled' = disabled
    /\ UNCHANGED <<token, poll, list, shown, opened>>
    /\ ServiceUntouched

\* A timer fires: tick up to its await.
Tick(t) ==
    /\ t \in timers
    /\ timers' = timers \ {t}
    /\ polls' = IF Owns(t) THEN polls \cup {[by |-> t, job |-> run, answer |-> None]}
                           ELSE polls
    /\ UNCHANGED <<token, run, poll, posts, list, disabled, says, shown, opened>>
    /\ ServiceUntouched

\* Mutant: a run that is queued is polled again, a running one is not.
OnlyQueued(s) == s = "queued"

\* Mutant: a finished run is polled once more.
UntilFailed(s) == s # "failed"

Unfinished(s) == s \in {"queued", "running"}

PollFailed == /\ says' = "error"
              /\ disabled' = FALSE
              /\ UNCHANGED <<run, poll, timers, shown, opened>>

\* drawRun, and the next poll or the end of the chain.
PollAnswered(g) ==
    /\ run' = g.job
    /\ says' = CASE g.answer = "failed" -> "error"
                 [] g.answer = "done"   -> "ready"
                 [] OTHER               -> "working"
    /\ IF Unfinished(g.answer)
       THEN /\ poll' = g.by
            /\ timers' = timers \cup {g.by}
            /\ disabled' = disabled
       ELSE /\ UNCHANGED <<poll, timers>>
            /\ disabled' = (list = "empty")
    /\ IF g.answer = "done"
       THEN /\ shown' = g.job        \* openReport
            /\ opened' = [opened EXCEPT ![g.by] = @ + 1]
       ELSE UNCHANGED <<shown, opened>>

\* tick after its await.
Polled(g) ==
    /\ g \in polls /\ g.answer # None
    /\ polls' = polls \ {g}
    /\ IF ~Owns(g.by)
       THEN UNCHANGED <<run, poll, timers, disabled, says, shown, opened>>
       ELSE IF g.answer = Error THEN PollFailed ELSE PollAnswered(g)
    /\ UNCHANGED <<token, posts, list>>
    /\ ServiceUntouched

Service == \/ \E p \in posts : Submit(p)
           \/ \E g \in polls : Report(g)

Browser == \/ \E p \in posts : Started(p)
           \/ \E g \in polls : Polled(g)
           \/ \E t \in timers : Tick(t)

User == \/ \E l \in {"empty", "unticked", "ticked"} : DrawGroups(l)
        \/ StartRun \/ StartNothing

Next == \/ Service \/ Browser \/ User \/ LoseRequest
        \/ \E j \in Job : Work(j) \/ Forget(j)

Spec == Init /\ [][Next]_vars

\* The service answers and its jobs end; timers fire and answers are handled.
\* Nobody has to click, and nothing has to fail.
FairSpec == /\ Spec
            /\ \A t \in Token :
                 /\ WF_vars(\E p \in posts : p.by = t /\ Submit(p))
                 /\ WF_vars(\E p \in posts : p.by = t /\ Started(p))
                 /\ WF_vars(\E g \in polls : g.by = t /\ Report(g))
                 /\ WF_vars(\E g \in polls : g.by = t /\ Polled(g))
                 /\ WF_vars(Tick(t))
            /\ \A j \in Job : WF_vars(Work(j))

-----------------------------------------------------------------------------
(***************************************************************************)
(* Properties.                                                             *)
(***************************************************************************)

\* Every variable has its type (picker.js: S, api).
TypeOK ==
    /\ status \in [Job -> JobStatus]
    /\ token \in 0 .. MaxStarts
    /\ run \in Job \cup {None}
    /\ poll \in 0 .. MaxStarts
    /\ timers \subseteq Token
    /\ posts \subseteq Post /\ polls \subseteq Poll
    /\ list \in {"empty", "unticked", "ticked"}
    /\ disabled \in BOOLEAN
    /\ says \in {"blank", "working", "ready", "error"}
    /\ shown \in Job \cup {None}
    /\ given \in [Token -> Job \cup {None}]
    /\ opened \in [Token -> Nat]

\* Of the render that owns the page one request or timer is out at most, and
\* its polls ask for the job that this render was given (picker.js: pollRun).
Out(t) == {p \in posts : p.by = t} \cup {g \in polls : g.by = t}
             \cup (timers \cap {t})

OneChain ==
    token > 0 =>
        /\ Cardinality(Out(token)) <= 1
        /\ \A g \in polls : g.by = token => g.job = given[token]
        /\ token \in timers => run = given[token]

\* The page never waits for nothing: of the render that owns it something is out
\* until its end is said, and while groups are ticked the button is disabled only
\* as long as something is out (picker.js: startRun, pollRun, drawGroups).
NeverStuck ==
    /\ token > 0 => Out(token) # {} \/ says \in {"ready", "error"}
    /\ disabled /\ list = "ticked" => token > 0 /\ Out(token) # {}

\* A report is opened for the render that was started last, once, and it is the
\* report of that render, however the answers to older ones arrive (picker.js:
\* S.runToken, openReport).
OpensTheLatest ==
    [][shown' # shown \/ opened' # opened =>
         /\ shown' = given[token]
         /\ opened' = [opened EXCEPT ![token] = 1]]_vars

\* Every render that is started comes to an end on the page: its report is
\* opened, an error is said, or the user starts another (picker.js: startRun,
\* pollRun).
RunsComeToAnEnd ==
    \A t \in Token : token = t ~> \/ token # t
                                  \/ says \in {"ready", "error"} /\ Out(t) = {}

\* The run button comes back: while groups are ticked it does not stay
\* disabled (picker.js: startRun, pollRun, drawGroups).
ButtonComesBack == (disabled /\ list = "ticked") ~> (~disabled \/ list # "ticked")
=============================================================================
