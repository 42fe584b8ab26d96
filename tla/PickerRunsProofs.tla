-------------------------- MODULE PickerRunsProofs --------------------------
(***************************************************************************)
(* Proofs about PickerRuns, for any number of jobs and of renders started  *)
(* from the page: TypeOK, OneChain, OpensTheLatest and NeverStuck.         *)
(***************************************************************************)
EXTENDS PickerRuns, TLAPS, FiniteSetTheorems

LEMMA TokensAreNats ==
    TypeOK => /\ Token \subseteq Nat /\ MaxStarts \in Nat
              /\ token \in Nat /\ (token > 0 => token \in Token)
  BY PickerRunsAssumption DEF PickerRunsAssumption, TypeOK, Token

\* Nothing is out for a render that is yet to be started.
NoFuture ==
    /\ \A p \in posts : p.by <= token
    /\ \A g \in polls : g.by <= token
    /\ \A t \in timers : t <= token
    /\ \A t \in Token : t > token => opened[t] = 0

\* Of the render that owns the page, one of POST, GET and timer is out, it is about
\* the job the render was given, and no report has been opened.
PostIsAlone ==
    \A p \in posts : p.by = token =>
        /\ \A q \in posts : q.by = token => q = p
        /\ \A g \in polls : g.by # token
        /\ token \notin timers
        /\ p.answer \in Job => p.answer = given[token]
        /\ opened[token] = 0

PollIsAlone ==
    \A g \in polls : g.by = token =>
        /\ \A h \in polls : h.by = token => h = g
        /\ token \notin timers
        /\ g.job = given[token]
        /\ opened[token] = 0

TimerIsAlone ==
    token \in timers => run = given[token] /\ run \in Job /\ opened[token] = 0

Inv == TypeOK /\ NoFuture /\ PostIsAlone /\ PollIsAlone /\ TimerIsAlone

\* One step of the page opens a report only if it is the one the page waits for.
Opens == shown' # shown \/ opened' # opened =>
           /\ shown' = given[token]
           /\ opened' = [opened EXCEPT ![token] = 1]

-----------------------------------------------------------------------------
LEMMA InitInv == ASSUME PickerRunsAssumption, Init PROVE Inv
  <1>1. MaxStarts \in Nat
    BY DEF PickerRunsAssumption
  <1>2. TypeOK
    <2>1. /\ status \in [Job -> JobStatus]
          /\ given \in [Token -> Job \cup {None}] /\ opened \in [Token -> Nat]
      BY DEF Init, JobStatus
    <2>2. token \in 0 .. MaxStarts /\ poll \in 0 .. MaxStarts
      BY <1>1 DEF Init
    <2>3. /\ run \in Job \cup {None} /\ shown \in Job \cup {None}
          /\ timers = {} /\ posts = {} /\ polls = {}
      BY DEF Init
    <2>4. /\ list \in {"empty", "unticked", "ticked"} /\ disabled \in BOOLEAN
          /\ says \in {"blank", "working", "ready", "error"}
      BY DEF Init
    <2> QED BY <2>1, <2>2, <2>3, <2>4 DEF TypeOK
  <1>3. NoFuture /\ PostIsAlone /\ PollIsAlone /\ TimerIsAlone
    BY DEF Init, NoFuture, PostIsAlone, PollIsAlone, TimerIsAlone
  <1> QED BY <1>2, <1>3 DEF Inv

\* An answer is filled in; the rest of the request stays.
LEMMA PostAnswered ==
    ASSUME TypeOK, NEW p \in posts, NEW a \in Job \cup {None, Error}
    PROVE  /\ Answer(posts, p, a) \subseteq Post
           /\ \A x \in Answer(posts, p, a) :
                \/ x \in posts /\ x # p
                \/ x = [p EXCEPT !.answer = a] /\ x.by = p.by /\ x.answer = a
  BY DEF Answer, TypeOK, Post

LEMMA PollAnswerIs ==
    ASSUME TypeOK, NEW g \in polls, NEW a \in JobStatus \cup {None, Error}
    PROVE  /\ Answer(polls, g, a) \subseteq Poll
           /\ \A x \in Answer(polls, g, a) :
                \/ x \in polls /\ x # g
                \/ x = [g EXCEPT !.answer = a] /\ x.by = g.by /\ x.job = g.job
  BY DEF Answer, TypeOK, Poll

\* The answer to a POST that is out arrives: the page is as it was.
LEMMA PostAnsweredKeeps ==
    ASSUME Inv, NEW p \in posts, NEW a \in Job \cup {None, Error},
           posts' = Answer(posts, p, a), polls' = polls, PageUntouched,
           status' \in [Job -> JobStatus], given' \in [Token -> Job \cup {None}],
           a \in Job => given'[p.by] = a,
           \A t \in Token : t # p.by => given'[t] = given[t],
           p.by # token => given'[token] = given[token]
    PROVE  Inv'
  <1>1. /\ posts' \subseteq Post
        /\ \A x \in posts' : \/ x \in posts /\ x # p
                             \/ x = [p EXCEPT !.answer = a] /\ x.by = p.by /\ x.answer = a
    BY PostAnswered DEF Inv
  <1>2. UNCHANGED <<token, run, poll, timers, list, disabled, says, shown, opened>>
    BY DEF PageUntouched
  <1>3. TypeOK'
    BY <1>1, <1>2 DEF Inv, TypeOK
  <1>4. NoFuture'
    BY <1>1, <1>2 DEF Inv, NoFuture
  <1>5. PostIsAlone'
    BY <1>1, <1>2 DEF Inv, PostIsAlone
  <1>6. PollIsAlone'
    BY <1>2 DEF Inv, PollIsAlone, PostIsAlone
  <1>7. TimerIsAlone'
    BY <1>2 DEF Inv, TimerIsAlone, PostIsAlone
  <1> QED BY <1>3, <1>4, <1>5, <1>6, <1>7 DEF Inv

LEMMA PollAnsweredKeeps ==
    ASSUME Inv, NEW g \in polls, NEW a \in JobStatus \cup {None, Error},
           polls' = Answer(polls, g, a), posts' = posts, PageUntouched,
           status' = status, given' = given
    PROVE  Inv'
  <1>2. /\ polls' \subseteq Poll
        /\ \A x \in polls' :
                \/ x \in polls /\ x # g
                \/ x = [g EXCEPT !.answer = a] /\ x.by = g.by /\ x.job = g.job
    BY PollAnswerIs DEF Inv
  <1>3. UNCHANGED <<token, run, poll, timers, list, disabled, says, shown, opened>>
    BY DEF PageUntouched
  <1>4. TypeOK'
    BY <1>2, <1>3 DEF Inv, TypeOK
  <1>5. NoFuture'
    BY <1>2, <1>3 DEF Inv, NoFuture
  <1>6. PostIsAlone'
    BY <1>2, <1>3 DEF Inv, PostIsAlone
  <1>7. PollIsAlone'
    BY <1>2, <1>3 DEF Inv, PollIsAlone
  <1>8. TimerIsAlone'
    BY <1>3 DEF Inv, TimerIsAlone
  <1> QED BY <1>4, <1>5, <1>6, <1>7, <1>8 DEF Inv

LEMMA ServiceKeeps ==
    ASSUME Inv, Service \/ LoseRequest PROVE Inv' /\ UNCHANGED <<shown, opened>>
  <1>1. ASSUME NEW p \in posts, Submit(p) PROVE Inv'
    <2>1. CASE \E j \in Job : /\ status' = IF status[j] = "none"
                                           THEN [status EXCEPT ![j] = "queued"] ELSE status
                              /\ posts' = Answer(posts, p, j)
                              /\ given' = [given EXCEPT ![p.by] = j]
      <3>1. PICK j \in Job : /\ status' = IF status[j] = "none"
                                          THEN [status EXCEPT ![j] = "queued"] ELSE status
                             /\ posts' = Answer(posts, p, j)
                             /\ given' = [given EXCEPT ![p.by] = j]
        BY <2>1
      <3>2. /\ p.by \in Token /\ given \in [Token -> Job \cup {None}]
            /\ status \in [Job -> JobStatus]
        BY DEF Inv, TypeOK, Post
      <3>3. status' \in [Job -> JobStatus]
        BY <3>1, <3>2 DEF JobStatus
      <3>4. /\ given' \in [Token -> Job \cup {None}] /\ given'[p.by] = j
            /\ \A t \in Token : t # p.by => given'[t] = given[t]
            /\ p.by # token => given'[token] = given[token]
        BY <3>1, <3>2
      <3>5. polls' = polls /\ PageUntouched
        BY <1>1 DEF Submit
      <3> QED BY <3>1, <3>3, <3>4, <3>5, PostAnsweredKeeps
    <2>2. CASE posts' = Answer(posts, p, Error) /\ UNCHANGED <<status, given>>
      <3>1. polls' = polls /\ PageUntouched
        BY <1>1 DEF Submit
      <3>2. Error \notin Job
        BY PickerRunsAssumption DEF PickerRunsAssumption
      <3> QED BY <2>2, <3>1, <3>2, PostAnsweredKeeps DEF Inv, TypeOK
    <2> QED BY <1>1, <2>1, <2>2 DEF Submit
  <1>2. ASSUME NEW g \in polls, Report(g) PROVE Inv'
    <2> DEFINE a == IF status[g.job] = "forgotten" THEN Error ELSE status[g.job]
    <2>1. a \in JobStatus \cup {None, Error}
      BY DEF Inv, TypeOK, Poll
    <2>2. polls' = Answer(polls, g, a) /\ UNCHANGED <<status, posts, given>> /\ PageUntouched
      BY <1>2 DEF Report
    <2> HIDE DEF a
    <2> QED BY <2>1, <2>2, PollAnsweredKeeps
  <1>3. ASSUME LoseRequest PROVE Inv'
    <2>1. PageUntouched /\ UNCHANGED <<status, given>>
      BY <1>3 DEF LoseRequest
    <2>2. ASSUME NEW p \in posts, posts' = Answer(posts, p, Error), polls' = polls PROVE Inv'
      <3>1. Error \notin Job
        BY PickerRunsAssumption DEF PickerRunsAssumption
      <3> QED BY <2>1, <2>2, <3>1, PostAnsweredKeeps DEF Inv, TypeOK
    <2>3. ASSUME NEW g \in polls, polls' = Answer(polls, g, Error), posts' = posts PROVE Inv'
      BY <2>1, <2>3, PollAnsweredKeeps
    <2>4. \/ \E p \in posts : posts' = Answer(posts, p, Error) /\ polls' = polls
          \/ \E g \in polls : polls' = Answer(polls, g, Error) /\ posts' = posts
      BY <1>3 DEF LoseRequest
    <2> QED BY <2>2, <2>3, <2>4
  <1>4. PageUntouched
    BY DEF Service, LoseRequest, Submit, Report
  <1> QED BY <1>1, <1>2, <1>3, <1>4 DEF Service, PageUntouched

LEMMA JobsKeep ==
    ASSUME Inv, NEW j \in Job, Work(j) \/ Forget(j) PROVE Inv' /\ UNCHANGED <<shown, opened>>
  <1>1. UNCHANGED <<token, run, poll, timers, posts, polls, disabled, says, shown, list,
                    given, opened>>
    BY DEF Work, Forget, page, history
  <1>2. status' \in [Job -> JobStatus]
    BY DEF Work, Forget, Inv, TypeOK, JobStatus
  <1> QED BY <1>1, <1>2 DEF Inv, TypeOK, NoFuture, PostIsAlone, PollIsAlone, TimerIsAlone

LEMMA UserKeeps ==
    ASSUME Inv, User PROVE Inv' /\ UNCHANGED <<shown, opened>>
  <1>1. ASSUME NEW l \in {"empty", "unticked", "ticked"}, DrawGroups(l)
        PROVE  Inv' /\ UNCHANGED <<shown, opened>>
    BY <1>1 DEF DrawGroups, ServiceUntouched, Inv, TypeOK, NoFuture, PostIsAlone,
                PollIsAlone, TimerIsAlone
  <1>2. CASE StartNothing
    BY <1>2 DEF StartNothing, ServiceUntouched, Inv, TypeOK, NoFuture, PostIsAlone,
                PollIsAlone, TimerIsAlone
  <1>3. CASE StartRun
    <2> DEFINE new == [by |-> Mine, answer |-> None]
    <2>1. /\ token < MaxStarts /\ token' = token + 1 /\ posts' = posts \cup {new}
          /\ disabled' = TRUE /\ says' = "blank"
          /\ UNCHANGED <<status, given, run, poll, timers, polls, list, shown, opened>>
      BY <1>3 DEF StartRun, ServiceUntouched
    <2>2. token \in Nat /\ MaxStarts \in Nat /\ token' \in Token
      BY <2>1, TokensAreNats DEF Inv, TypeOK, Token
    <2>3. new \in Post /\ new.by = token' /\ new.answer = None /\ None \notin Job
      BY <2>1, <2>2, PickerRunsAssumption DEF PickerRunsAssumption, Mine, Post
    <2> HIDE DEF new
    <2>4. TypeOK'
      BY <2>1, <2>2, <2>3 DEF Inv, TypeOK, Token
    <2>5. posts \subseteq Post /\ polls \subseteq Poll /\ timers \subseteq Token
      BY DEF Inv, TypeOK
    <2>6. /\ \A p \in posts : p.by < token' /\ p.by # token'
          /\ \A g \in polls : g.by < token' /\ g.by # token'
          /\ \A t \in timers : t < token' /\ t # token'
      BY <2>1, <2>2, <2>5 DEF Inv, NoFuture, Post, Poll, Token
    <2>7. NoFuture'
      <3> DEFINE due == token'
      <3>0. due \in Nat /\ Token \subseteq Nat
        BY <2>2, TokensAreNats DEF Inv
      <3>1. \A p \in posts' : p.by <= due
        <4>1. \A p \in posts : p.by \in Nat /\ p.by < due
          BY <2>5, <2>6, <3>0 DEF Post
        <4>2. \A p \in posts' : p \in posts \/ p.by = due
          BY <2>1, <2>3
        <4> HIDE DEF due
        <4> QED BY <3>0, <4>1, <4>2
      <3>2. (\A g \in polls' : g.by <= due) /\ \A t \in timers' : t <= due
        <4>1. /\ \A g \in polls : g.by \in Nat /\ g.by < due
              /\ \A t \in timers : t \in Nat /\ t < due
          BY <2>5, <2>6, <3>0 DEF Poll
        <4> HIDE DEF due
        <4> QED BY <2>1, <3>0, <4>1
      <3>3. \A t \in Token : t > token' => opened'[t] = 0
        BY <2>1, <2>2, TokensAreNats DEF Inv, NoFuture
      <3> QED BY <3>1, <3>2, <3>3 DEF NoFuture
    <2>8. opened'[token'] = 0
      BY <2>1, <2>2 DEF Inv, NoFuture
    <2>9. PostIsAlone'
      BY <2>1, <2>3, <2>6, <2>8 DEF PostIsAlone
    <2>10. PollIsAlone' /\ TimerIsAlone'
      BY <2>1, <2>6 DEF PollIsAlone, TimerIsAlone
    <2> QED BY <2>1, <2>4, <2>7, <2>9, <2>10 DEF Inv
  <1> QED BY <1>1, <1>2, <1>3 DEF User

LEMMA StartedKeeps ==
    ASSUME Inv, NEW p \in posts, Started(p) PROVE Inv' /\ UNCHANGED <<shown, opened>>
  <1>1. /\ posts' = posts \ {p} /\ p.answer # None
        /\ UNCHANGED <<status, given, token, poll, list, shown, opened>>
    BY DEF Started, ServiceUntouched
  <1>2. p.by \in Token /\ p.answer \in Job \cup {None, Error} /\ token \in Nat
    BY DEF Inv, TypeOK, Post
  <1>3. CASE UNCHANGED <<run, timers, polls>> /\ disabled' \in BOOLEAN
             /\ says' \in {"blank", "working", "ready", "error"}
    <2>1. TypeOK'
      BY <1>1, <1>3 DEF Inv, TypeOK
    <2>2. NoFuture' /\ PostIsAlone' /\ PollIsAlone' /\ TimerIsAlone'
      BY <1>1, <1>3 DEF Inv, NoFuture, PostIsAlone, PollIsAlone, TimerIsAlone
    <2> QED BY <1>1, <2>1, <2>2 DEF Inv
  <1>4. CASE ~Owns(p.by)
    BY <1>3, <1>4 DEF Started, Inv, TypeOK
  <1>5. CASE p.answer = Error
    BY <1>3, <1>5 DEF Started, Inv, TypeOK, DisabledAfterError
  <1>6. CASE Owns(p.by) /\ p.answer # Error
    <2> DEFINE new == [by |-> p.by, job |-> p.answer, answer |-> None]
    <2>1. /\ run' = p.answer /\ timers' = timers \ {poll} /\ polls' = polls \cup {new}
          /\ says' \in {says, "working"} /\ disabled' = disabled
      BY <1>6 DEF Started, TimersCleared
    <2>2. p.answer \in Job /\ p.by = token /\ token \in Token
      BY <1>1, <1>2, <1>6 DEF Owns
    <2>3. new \in Poll /\ new.by = token /\ new.job = p.answer
      BY <2>2 DEF Poll
    <2> HIDE DEF new
    <2>4. TypeOK'
      BY <1>1, <2>1, <2>2, <2>3 DEF Inv, TypeOK
    <2>5. NoFuture'
      BY <1>1, <1>2, <2>1, <2>3 DEF Inv, NoFuture
    <2>6. /\ \A q \in posts' : q.by # token
          /\ \A g \in polls : g.by # token
          /\ token \notin timers /\ p.answer = given[token] /\ opened[token] = 0
      BY <1>1, <2>2 DEF Inv, PostIsAlone
    <2>7. PostIsAlone' /\ TimerIsAlone'
      BY <1>1, <2>1, <2>6 DEF PostIsAlone, TimerIsAlone
    <2>8. PollIsAlone'
      BY <1>1, <2>1, <2>3, <2>6 DEF PollIsAlone
    <2> QED BY <1>1, <2>4, <2>5, <2>7, <2>8 DEF Inv
  <1> QED BY <1>4, <1>5, <1>6

LEMMA TickKeeps ==
    ASSUME Inv, NEW t \in timers, Tick(t) PROVE Inv' /\ UNCHANGED <<shown, opened>>
  <1>1. /\ timers' = timers \ {t}
        /\ UNCHANGED <<token, run, poll, posts, list, disabled, says, shown, opened,
                       status, given>>
    BY DEF Tick, ServiceUntouched
  <1>2. CASE ~Owns(t)
    <2>1. polls' = polls
      BY <1>2 DEF Tick
    <2> QED BY <1>1, <2>1 DEF Inv, TypeOK, NoFuture, PostIsAlone, PollIsAlone, TimerIsAlone
  <1>3. CASE Owns(t)
    <2> DEFINE new == [by |-> t, job |-> run, answer |-> None]
    <2>1. polls' = polls \cup {new} /\ t = token /\ token \in Token
      BY <1>3 DEF Tick, Owns, Inv, TypeOK
    <2>2. run = given[token] /\ run \in Job /\ opened[token] = 0
      BY <2>1 DEF Inv, TimerIsAlone
    <2>3. new \in Poll /\ new.by = token /\ new.job = run
      BY <2>1, <2>2 DEF Poll
    <2> HIDE DEF new
    <2>4. \A g \in polls : g.by # token
      BY <2>1 DEF Inv, PollIsAlone
    <2>5. \A p \in posts : p.by # token
      BY <2>1 DEF Inv, PostIsAlone
    <2>6. TypeOK'
      BY <1>1, <2>1, <2>3 DEF Inv, TypeOK
    <2>7. NoFuture'
      BY <1>1, <2>1, <2>3 DEF Inv, NoFuture, Token
    <2>8. PostIsAlone' /\ TimerIsAlone'
      BY <1>1, <2>1, <2>5 DEF PostIsAlone, TimerIsAlone
    <2>9. PollIsAlone'
      BY <1>1, <2>1, <2>2, <2>3, <2>4 DEF PollIsAlone
    <2> QED BY <1>1, <2>6, <2>7, <2>8, <2>9 DEF Inv
  <1> QED BY <1>2, <1>3

LEMMA PolledKeeps ==
    ASSUME Inv, NEW g \in polls, Polled(g) PROVE Inv' /\ Opens
  <1>1. polls' = polls \ {g} /\ UNCHANGED <<token, posts, list, status, given>>
    BY DEF Polled, ServiceUntouched
  <1>2. g.by \in Token /\ g.job \in Job /\ opened \in [Token -> Nat]
        /\ (list = "empty") \in BOOLEAN
    BY DEF Inv, TypeOK, Poll
  <1>3. CASE UNCHANGED <<run, timers, poll, shown, opened>> /\ disabled' \in BOOLEAN
             /\ says' \in {"blank", "working", "ready", "error"}
    <2>1. TypeOK'
      BY <1>1, <1>3 DEF Inv, TypeOK
    <2>2. NoFuture' /\ PostIsAlone' /\ PollIsAlone' /\ TimerIsAlone'
      BY <1>1, <1>3 DEF Inv, NoFuture, PostIsAlone, PollIsAlone, TimerIsAlone
    <2> QED BY <1>3, <2>1, <2>2 DEF Inv, Opens
  <1>4. CASE ~Owns(g.by)
    BY <1>3, <1>4 DEF Polled, Inv, TypeOK
  <1>5. CASE g.answer = Error
    BY <1>3, <1>4, <1>5 DEF Polled, PollFailed, Inv, TypeOK
  <1>6. CASE Owns(g.by) /\ g.answer # Error
    <2>1. PollAnswered(g)
      BY <1>6 DEF Polled
    <2>2. /\ token = g.by /\ token \notin timers /\ given[token] = g.job /\ opened[token] = 0
          /\ \A h \in polls' : h.by # token
      BY <1>1, <1>6 DEF Owns, Inv, PollIsAlone
    <2>3. \A p \in posts : p.by # token
      BY <2>2 DEF Inv, PostIsAlone
    <2>4. run' = g.job /\ says' \in {"working", "ready", "error"}
      BY <2>1 DEF PollAnswered
    <2>5. /\ timers' = timers \cup {token} \/ timers' = timers
          /\ poll' \in {poll, token} /\ disabled' \in BOOLEAN
      BY <1>2, <2>1, <2>2 DEF PollAnswered, Inv, TypeOK
    <2>6. \/ /\ shown' = g.job /\ opened' = [opened EXCEPT ![token] = 1]
             /\ timers' = timers
          \/ UNCHANGED <<shown, opened>>
      <3>1. CASE g.answer = "done"
        <4>1. opened' = [opened EXCEPT ![g.by] = opened[g.by] + 1] /\ shown' = g.job
          BY <2>1, <3>1 DEF PollAnswered
        <4>2. opened[g.by] + 1 = 1
          BY <2>2
        <4>3. timers' = timers
          BY <2>1, <3>1 DEF PollAnswered, Unfinished
        <4> QED BY <2>2, <4>1, <4>2, <4>3
      <3>2. CASE g.answer # "done"
        BY <2>1, <3>2 DEF PollAnswered
      <3> QED BY <3>1, <3>2
    <2>7. opened' \in [Token -> Nat] /\ shown' \in Job \cup {None}
          /\ \A t \in Token : t # token => opened'[t] = opened[t]
      BY <1>2, <2>2, <2>6 DEF Inv, TypeOK
    <2>8. TypeOK'
      BY <1>1, <1>2, <2>2, <2>4, <2>5, <2>7 DEF Inv, TypeOK, Token
    <2>9. NoFuture'
      <3>1. (\A p \in posts' : p.by <= token') /\ \A h \in polls' : h.by <= token'
        BY <1>1 DEF Inv, NoFuture
      <3>2. \A t \in timers' : t <= token'
        BY <1>1, <2>5, <1>2, <2>2, TokensAreNats DEF Inv, NoFuture
      <3>3. \A t \in Token : t > token' => opened'[t] = 0
        BY <1>1, <2>7, TokensAreNats DEF Inv, NoFuture
      <3> QED BY <3>1, <3>2, <3>3 DEF NoFuture
    <2>10. PostIsAlone' /\ PollIsAlone'
      BY <1>1, <2>2, <2>3 DEF PostIsAlone, PollIsAlone
    <2>11. TimerIsAlone'
      BY <1>1, <1>2, <2>2, <2>4, <2>5, <2>6 DEF TimerIsAlone
    <2>12. Opens
      BY <2>2, <2>6 DEF Opens
    <2> QED BY <2>8, <2>9, <2>10, <2>11, <2>12 DEF Inv
  <1> QED BY <1>4, <1>5, <1>6

LEMMA InvNext ==
    ASSUME Inv, [Next]_vars PROVE Inv' /\ Opens
  <1>1. UNCHANGED <<shown, opened>> => Opens
    BY DEF Opens
  <1>2. CASE Service \/ LoseRequest
    BY <1>1, <1>2, ServiceKeeps
  <1>3. CASE Browser
    BY <1>1, <1>3, StartedKeeps, TickKeeps, PolledKeeps DEF Browser
  <1>4. CASE User
    BY <1>1, <1>4, UserKeeps
  <1>5. CASE \E j \in Job : Work(j) \/ Forget(j)
    BY <1>1, <1>5, JobsKeep
  <1>6. CASE UNCHANGED vars
    BY <1>1, <1>6 DEF vars, page, history, Inv, TypeOK, NoFuture, PostIsAlone, PollIsAlone,
                      TimerIsAlone
  <1> QED BY <1>2, <1>3, <1>4, <1>5, <1>6 DEF Next

-----------------------------------------------------------------------------
LEMMA AtMostOne ==
    ASSUME NEW S, \A x, y \in S : x = y PROVE Cardinality(S) <= 1
  <1>1. CASE S = {}
    BY <1>1, FS_EmptySet
  <1>2. CASE S # {}
    <2>1. PICK x : S = {x}
      BY <1>2
    <2> QED BY <2>1, FS_Singleton
  <1> QED BY <1>1, <1>2

LEMMA InvOneChain == ASSUME Inv PROVE OneChain
  <1> SUFFICES ASSUME token > 0 PROVE OneChain
    BY DEF OneChain
  <1>1. \A x, y \in Out(token) : x = y
    <2>1. CASE \E p \in posts : p.by = token
      BY <2>1 DEF Inv, PostIsAlone, Out
    <2>2. CASE \E g \in polls : g.by = token
      BY <2>2 DEF Inv, PostIsAlone, PollIsAlone, Out
    <2>3. CASE /\ \A p \in posts : p.by # token
               /\ \A g \in polls : g.by # token
      BY <2>3 DEF Out
    <2> QED BY <2>1, <2>2, <2>3
  <1>2. Cardinality(Out(token)) <= 1
    BY <1>1, AtMostOne
  <1> QED BY <1>2 DEF OneChain, Inv, PollIsAlone, TimerIsAlone

\* What is out for the render that owns the page is alone, and is about the job the
\* render was given: in every reachable state, for any number of renders.
THEOREM InvHolds == Spec => []Inv
  <1>1. Init => Inv
    BY PickerRunsAssumption, InitInv
  <1>2. Inv /\ [Next]_vars => Inv'
    BY InvNext
  <1> QED BY <1>1, <1>2, PTL DEF Spec

\* Every variable keeps its type (picker.js: S, api).
THEOREM TypeCorrect == Spec => []TypeOK
  <1>1. Inv => TypeOK
    BY DEF Inv
  <1> QED BY <1>1, InvHolds, PTL

\* However many renders are started, one request or timer is out for the last of them,
\* and its polls ask for the job it was given (picker.js: pollRun).
THEOREM ChainIsOne == Spec => []OneChain
  <1>1. Inv => OneChain
    BY InvOneChain
  <1> QED BY <1>1, InvHolds, PTL

\* A report is opened once, for the render started last, and it is that render's
\* (picker.js: S.runToken, openReport).
THEOREM LatestIsOpened == Spec => OpensTheLatest
  <1>1. Inv /\ [Next]_vars => [Opens]_vars
    BY InvNext
  <1>2. [Opens]_vars => [shown' # shown \/ opened' # opened =>
                           /\ shown' = given[token]
                           /\ opened' = [opened EXCEPT ![token] = 1]]_vars
    BY DEF Opens
  <1> QED BY <1>1, <1>2, InvHolds, PTL DEF Spec, OpensTheLatest
-----------------------------------------------------------------------------
(***************************************************************************)
(* The page never waits for nothing.                                       *)
(***************************************************************************)
\* The jobs the page asks about exist, and an answer about one is a status it has.
Known ==
    /\ \A g \in polls : /\ status[g.job] # "none"
                        /\ \/ g.answer \in {None, Error}
                           \/ g.answer \in {"queued", "running", "done", "failed"}
    /\ \A p \in posts : p.answer \in Job => status[p.answer] # "none"
    /\ run # None => status[run] # "none"

Waits(t) == \/ \E p \in posts : p.by = t
            \/ \E g \in polls : g.by = t
            \/ t \in timers

Awaited == /\ token > 0 => Waits(token) \/ says \in {"ready", "error"}
           /\ disabled /\ list = "ticked" => token > 0 /\ Waits(token)

LEMMA OutIsWaits == \A t : Out(t) # {} <=> Waits(t)
  BY DEF Out, Waits

\* A job that exists goes on to exist, or to have existed.
LEMMA JobsStayKnown ==
    ASSUME TypeOK, [Next]_vars, NEW j \in Job, status[j] # "none"
    PROVE  status'[j] # "none"
  <1> USE DEF TypeOK
  <1>1. ASSUME NEW p \in posts, Submit(p) PROVE status'[j] # "none"
    BY <1>1 DEF Submit
  <1>2. ASSUME NEW i \in Job, Work(i) \/ Forget(i) PROVE status'[j] # "none"
    BY <1>2 DEF Work, Forget
  <1>3. CASE \/ LoseRequest \/ Browser \/ User \/ UNCHANGED vars
            \/ \E g \in polls : Report(g)
    BY <1>3 DEF LoseRequest, Browser, User, vars, Report, Started, Polled, Tick, DrawGroups,
                StartRun, StartNothing, ServiceUntouched
  <1> QED BY <1>1, <1>2, <1>3 DEF Next, Service

\* A step that asks about no new job and fills in no answer.
LEMMA KnownStays ==
    ASSUME Inv, Known, [Next]_vars, polls' \subseteq polls, posts' \subseteq posts,
           run' = run \/ \E g \in polls : run' = g.job
    PROVE  Known'
  <1>1. \A g \in polls : g.job \in Job /\ status'[g.job] # "none"
    BY JobsStayKnown DEF Inv, TypeOK, Poll, Known
  <1>2. \A p \in posts : p.answer \in Job => status'[p.answer] # "none"
    BY JobsStayKnown DEF Inv, Known
  <1>3. run # None => status'[run] # "none"
    BY JobsStayKnown DEF Inv, TypeOK, Known
  <1> QED BY <1>1, <1>2, <1>3 DEF Known

\* The service answers about jobs that exist.
LEMMA ServiceKnows ==
    ASSUME Inv, Known, [Next]_vars, Service \/ LoseRequest PROVE Known'
  <1> USE DEF Inv, TypeOK
  <1>0. run' = run /\ \A j \in Job : status[j] # "none" => status'[j] # "none"
    BY JobsStayKnown DEF Service, LoseRequest, Submit, Report, PageUntouched
  <1>1. ASSUME NEW p \in posts, NEW a \in Job \cup {Error}, posts' = Answer(posts, p, a),
               polls' = polls, a \in Job => status'[a] # "none"
        PROVE  Known'
    <2>1. \A x \in posts' : x \in posts \/ x.answer = a
      BY <1>1, PostAnswered
    <2>2. \A x \in posts' : x.answer \in Job => status'[x.answer] # "none"
      BY <1>0, <1>1, <2>1 DEF Known
    <2>3. \A g \in polls : g.job \in Job /\ status'[g.job] # "none"
      BY <1>0 DEF Known, Poll
    <2>4. run' # None => status'[run'] # "none"
      BY <1>0 DEF Known
    <2> QED BY <1>1, <2>2, <2>3, <2>4 DEF Known
  <1>2. ASSUME NEW g \in polls, NEW a, polls' = Answer(polls, g, a), posts' = posts,
               a \in {Error, "queued", "running", "done", "failed"}
        PROVE  Known'
    <2>1. \A x \in polls' : x \in polls \/ (x.answer = a /\ x.job = g.job)
      <3>1. polls \subseteq Poll
        OBVIOUS
      <3> QED BY <1>2, <3>1 DEF Answer, Poll
    <2>2. \A x \in polls' : /\ status'[x.job] # "none"
                            /\ \/ x.answer \in {None, Error}
                               \/ x.answer \in {"queued", "running", "done", "failed"}
      <3>1. \A x \in polls : x.job \in Job
        BY DEF Poll
      <3> QED BY <1>0, <1>2, <2>1, <3>1 DEF Known
    <2>3. \A p \in posts : p.answer \in Job => status'[p.answer] # "none"
      BY <1>0 DEF Known
    <2>4. run' # None => status'[run'] # "none"
      BY <1>0 DEF Known
    <2> QED BY <1>2, <2>2, <2>3, <2>4 DEF Known
  <1>3. ASSUME NEW p \in posts, Submit(p) PROVE Known'
    <2>1. polls' = polls
      BY <1>3 DEF Submit
    <2>2. CASE \E j \in Job : /\ status' = IF status[j] = "none"
                                           THEN [status EXCEPT ![j] = "queued"] ELSE status
                              /\ posts' = Answer(posts, p, j)
      <3>1. PICK j \in Job : /\ status' = IF status[j] = "none"
                                          THEN [status EXCEPT ![j] = "queued"] ELSE status
                             /\ posts' = Answer(posts, p, j)
        BY <2>2
      <3>2. status'[j] # "none"
        BY <3>1
      <3> QED BY <1>1, <2>1, <3>1, <3>2
    <2>3. CASE posts' = Answer(posts, p, Error)
      BY <1>1, <2>1, <2>3, PickerRunsAssumption DEF PickerRunsAssumption
    <2> QED BY <1>3, <2>2, <2>3 DEF Submit
  <1>4. ASSUME NEW g \in polls, Report(g) PROVE Known'
    <2>1. g.job \in Job /\ status[g.job] # "none" /\ status[g.job] \in JobStatus
      BY DEF Known, Poll
    <2>2. PICK a \in {Error, "queued", "running", "done", "failed"} :
             polls' = Answer(polls, g, a)
      BY <1>4, <2>1 DEF Report, JobStatus
    <2>3. posts' = posts
      BY <1>4 DEF Report
    <2> QED BY <1>2, <2>2, <2>3
  <1>5. CASE LoseRequest
    BY <1>1, <1>2, <1>5, PickerRunsAssumption DEF LoseRequest, PickerRunsAssumption
  <1> QED BY <1>3, <1>4, <1>5 DEF Service

\* The page asks about the job it was given.
LEMMA PageKnows ==
    ASSUME Inv, Known, [Next]_vars, Browser \/ User PROVE Known'
  <1>1. status' = status
    BY DEF Browser, User, Started, Polled, Tick, DrawGroups, StartRun, StartNothing,
           ServiceUntouched
  <1>2. ASSUME NEW p \in posts, Started(p) PROVE Known'
    <2>1. posts' \subseteq posts
      BY <1>2 DEF Started
    <2>2. CASE UNCHANGED <<run, polls>>
      BY <2>1, <2>2, KnownStays
    <2>3. CASE /\ run' = p.answer /\ p.answer \in Job
               /\ polls' = polls \cup {[by |-> p.by, job |-> p.answer, answer |-> None]}
      <3>1. status[p.answer] # "none"
        BY <2>3 DEF Known
      <3> QED BY <1>1, <2>1, <2>3, <3>1 DEF Known
    <2> QED BY <1>2, <2>2, <2>3 DEF Started, Inv, TypeOK, Post
  <1>3. ASSUME NEW t \in timers, Tick(t) PROVE Known'
    <2>1. UNCHANGED <<posts, run>>
      BY <1>3 DEF Tick
    <2>2. CASE polls' = polls
      BY <2>1, <2>2, KnownStays
    <2>3. CASE t = token /\ polls' = polls \cup {[by |-> t, job |-> run, answer |-> None]}
      <3>1. run \in Job /\ None \notin Job
        BY <2>3, PickerRunsAssumption DEF Inv, TimerIsAlone, PickerRunsAssumption
      <3>2. status[run] # "none"
        BY <3>1 DEF Known
      <3> QED BY <1>1, <2>1, <2>3, <3>2 DEF Known
    <2> QED BY <1>3, <2>2, <2>3 DEF Tick, Owns
  <1>4. ASSUME NEW g \in polls, Polled(g) PROVE Known'
    <2>1. /\ polls' \subseteq polls /\ posts' = posts
          /\ run' = run \/ run' = g.job
      BY <1>4 DEF Polled, PollFailed, PollAnswered
    <2> QED BY <2>1, KnownStays
  <1>5. CASE StartRun
    <2> DEFINE new == [by |-> Mine, answer |-> None]
    <2>1. posts' = posts \cup {new} /\ UNCHANGED <<run, polls>>
      BY <1>5 DEF StartRun
    <2>2. new.answer \notin Job
      BY PickerRunsAssumption DEF PickerRunsAssumption
    <2> HIDE DEF new
    <2> QED BY <1>1, <2>1, <2>2 DEF Known
  <1>6. CASE StartNothing \/ \E l \in {"empty", "unticked", "ticked"} : DrawGroups(l)
    <2>1. UNCHANGED <<run, polls, posts>>
      BY <1>6 DEF StartNothing, DrawGroups
    <2> QED BY <2>1, KnownStays
  <1> QED BY <1>2, <1>3, <1>4, <1>5, <1>6 DEF Browser, User

LEMMA NextKnows ==
    ASSUME Inv, Known, [Next]_vars PROVE Known'
  <1>1. CASE (\E j \in Job : Work(j) \/ Forget(j)) \/ UNCHANGED vars
    <2>1. UNCHANGED <<run, polls, posts>>
      BY <1>1 DEF Work, Forget, page, vars
    <2> QED BY <2>1, KnownStays
  <1> QED BY <1>1, ServiceKnows, PageKnows DEF Next

\* A request that is answered is still out until the page has handled the answer.
LEMMA AnswersAwaited ==
    ASSUME Inv, Awaited, Service \/ LoseRequest PROVE Awaited'
  <1>1. PageUntouched
    BY DEF Service, LoseRequest, Submit, Report
  <1>2. /\ \A p \in posts : \E x \in posts' : x.by = p.by
        /\ \A g \in polls : \E x \in polls' : x.by = g.by
    <2>1. posts \subseteq Post /\ polls \subseteq Poll
      BY DEF Inv, TypeOK
    <2>2. ASSUME NEW p \in posts, NEW a PROVE [p EXCEPT !.answer = a].by = p.by
      BY <2>1 DEF Post
    <2>3. ASSUME NEW g \in polls, NEW a PROVE [g EXCEPT !.answer = a].by = g.by
      BY <2>1 DEF Poll
    <2>4. \/ posts' = posts
          \/ \E p \in posts : \E a : posts' = Answer(posts, p, a)
      BY DEF Service, LoseRequest, Submit, Report
    <2>5. \/ polls' = polls
          \/ \E g \in polls : \E a : polls' = Answer(polls, g, a)
      BY DEF Service, LoseRequest, Submit, Report
    <2> QED BY <2>2, <2>3, <2>4, <2>5 DEF Answer
  <1>3. UNCHANGED <<token, timers, list, disabled, says>>
    BY <1>1 DEF PageUntouched
  <1>4. Waits(token) => Waits(token)'
    BY <1>2, <1>3 DEF Waits
  <1> QED BY <1>3, <1>4 DEF Awaited

\* What the page does with an answer or a timer leaves something out, or says the end.
LEMMA PageAwaited ==
    ASSUME Inv, Known, Awaited, Browser PROVE Awaited'
  <1>1. ASSUME NEW p \in posts, Started(p) PROVE Awaited'
    <2>1. posts' = posts \ {p} /\ UNCHANGED <<token, list>>
      BY <1>1 DEF Started
    <2>2. CASE ~Owns(p.by)
      <3>1. UNCHANGED <<timers, polls, disabled, says>> /\ p.by # token
        BY <1>1, <2>2 DEF Started, Owns
      <3>2. Waits(token) => Waits(token)'
        BY <2>1, <3>1 DEF Waits
      <3> QED BY <2>1, <3>1, <3>2 DEF Awaited
    <2>3. CASE Owns(p.by) /\ p.answer = Error
      <3>1. says' = "error" /\ disabled' = FALSE
        BY <1>1, <2>3 DEF Started, DisabledAfterError
      <3> QED BY <3>1 DEF Awaited
    <2>4. CASE Owns(p.by) /\ p.answer # Error
      <3> DEFINE new == [by |-> p.by, job |-> p.answer, answer |-> None]
      <3>1. polls' = polls \cup {new} /\ new.by = token /\ token' = token
        BY <1>1, <2>1, <2>4 DEF Started, Owns
      <3> HIDE DEF new
      <3>2. Waits(token)'
        BY <3>1 DEF Waits
      <3>3. token > 0
        BY <2>4 DEF Owns, Inv, TypeOK, Post, Token
      <3> QED BY <2>1, <3>2, <3>3 DEF Awaited
    <2> QED BY <2>2, <2>3, <2>4
  <1>2. ASSUME NEW t \in timers, Tick(t) PROVE Awaited'
    <2>1. timers' = timers \ {t} /\ UNCHANGED <<token, posts, list, disabled, says>>
      BY <1>2 DEF Tick
    <2>2. CASE ~Owns(t)
      <3>1. polls' = polls /\ t # token
        BY <1>2, <2>2 DEF Tick, Owns
      <3>2. Waits(token) => Waits(token)'
        BY <2>1, <3>1 DEF Waits
      <3> QED BY <2>1, <3>2 DEF Awaited
    <2>3. CASE Owns(t)
      <3> DEFINE new == [by |-> t, job |-> run, answer |-> None]
      <3>1. polls' = polls \cup {new} /\ new.by = token
        BY <1>2, <2>3 DEF Tick, Owns
      <3> HIDE DEF new
      <3>2. Waits(token)'
        BY <2>1, <3>1 DEF Waits
      <3>3. token > 0
        BY <2>3 DEF Owns, Inv, TypeOK, Token
      <3> QED BY <2>1, <3>2, <3>3 DEF Awaited
    <2> QED BY <2>2, <2>3
  <1>3. ASSUME NEW g \in polls, Polled(g) PROVE Awaited'
    <2>1. polls' = polls \ {g} /\ g.answer # None /\ UNCHANGED <<token, posts, list>>
      BY <1>3 DEF Polled
    <2>2. CASE ~Owns(g.by)
      <3>1. UNCHANGED <<timers, disabled, says>> /\ g.by # token
        BY <1>3, <2>2 DEF Polled, Owns
      <3>2. Waits(token) => Waits(token)'
        BY <2>1, <3>1 DEF Waits
      <3> QED BY <2>1, <3>1, <3>2 DEF Awaited
    <2>3. CASE Owns(g.by) /\ g.answer = Error
      <3>1. says' = "error" /\ disabled' = FALSE
        BY <1>3, <2>3 DEF Polled, PollFailed
      <3> QED BY <3>1 DEF Awaited
    <2>4. CASE Owns(g.by) /\ g.answer # Error
      <3>1. PollAnswered(g) /\ g.answer \in {"queued", "running", "done", "failed"}
            /\ g.by = token /\ token > 0
        BY <1>3, <2>1, <2>4 DEF Polled, Owns, Known, Inv, TypeOK, Poll, Token
      <3>2. CASE Unfinished(g.answer)
        <4>1. token' \in timers'
          BY <2>1, <3>1, <3>2 DEF PollAnswered
        <4>2. Waits(token)'
          BY <4>1 DEF Waits
        <4> QED BY <2>1, <3>1, <4>2 DEF Awaited
      <3>3. CASE ~Unfinished(g.answer)
        <4>1. g.answer \in {"done", "failed"}
          BY <3>1, <3>3 DEF Unfinished
        <4>2. says' \in {"ready", "error"} /\ disabled' = (list = "empty")
          BY <3>1, <3>3, <4>1 DEF PollAnswered
        <4> QED BY <2>1, <4>2 DEF Awaited
      <3> QED BY <3>2, <3>3
    <2> QED BY <2>2, <2>3, <2>4
  <1> QED BY <1>1, <1>2, <1>3 DEF Browser

LEMMA NextAwaited ==
    ASSUME Inv, Known, Awaited, [Next]_vars PROVE Awaited'
  <1>1. ASSUME NEW l \in {"empty", "unticked", "ticked"}, DrawGroups(l) PROVE Awaited'
    <2>1. /\ list' = l /\ disabled' = (l # "ticked")
          /\ UNCHANGED <<token, timers, posts, polls, says>>
      BY <1>1 DEF DrawGroups
    <2>2. Waits(token) => Waits(token)'
      BY <2>1 DEF Waits
    <2> QED BY <2>1, <2>2 DEF Awaited
  <1>2. CASE StartNothing
    <2>1. says' = "error" /\ ~disabled /\ UNCHANGED <<disabled, list>>
      BY <1>2 DEF StartNothing
    <2> QED BY <2>1 DEF Awaited
  <1>3. CASE StartRun
    <2> DEFINE new == [by |-> Mine, answer |-> None]
    <2>1. token' = token + 1 /\ posts' = posts \cup {new} /\ new.by = token + 1
      BY <1>3 DEF StartRun, Mine
    <2> HIDE DEF new
    <2>2. Waits(token)'
      BY <2>1 DEF Waits
    <2>3. token' > 0
      BY <2>1, TokensAreNats DEF Inv
    <2> QED BY <2>2, <2>3 DEF Awaited
  <1>4. CASE (\E j \in Job : Work(j) \/ Forget(j)) \/ UNCHANGED vars
    <2>1. UNCHANGED <<token, timers, posts, polls, says, disabled, list>>
      BY <1>4 DEF Work, Forget, page, vars
    <2>2. Waits(token) => Waits(token)'
      BY <2>1 DEF Waits
    <2> QED BY <2>1, <2>2 DEF Awaited
  <1> QED BY <1>1, <1>2, <1>3, <1>4, AnswersAwaited, PageAwaited DEF Next, User

\* Whatever is clicked and however requests end, the page never waits for nothing:
\* the last render has something out or its end was said, and the button is disabled
\* over ticked groups only while something is out (picker.js: startRun, pollRun,
\* drawGroups).  It is what RunsComeToAnEnd and ButtonComesBack rest on.
THEOREM PageIsNeverStuck == Spec => []NeverStuck
  <1>1. Init => Known /\ Awaited
    BY DEF Init, Known, Awaited
  <1>2. Inv /\ Known /\ [Next]_vars => Known'
    BY NextKnows
  <1>3. Inv /\ Known /\ Awaited /\ [Next]_vars => Awaited'
    BY NextAwaited
  <1>4. Awaited => NeverStuck
    BY OutIsWaits DEF Awaited, NeverStuck
  <1> QED BY <1>1, <1>2, <1>3, <1>4, InvHolds, PTL DEF Spec
=============================================================================
