--------------------------- MODULE JobRunnerProofs ---------------------------
(***************************************************************************)
(* Proofs about JobRunner, for every value of its constants: any number of *)
(* keys, workers, jobs and restarts, and any faults.                       *)
(***************************************************************************)
EXTENDS JobRunner, TLAPS, FiniteSetTheorems

-----------------------------------------------------------------------------
(***************************************************************************)
(* Type correctness.                                                       *)
(***************************************************************************)
\* The strings of the model have the types the properties give them.
LEMMA Statuses ==
  {"queued", "running", "done", "failed", "none"} \subseteq Status
  BY DEF Status, Joinable, Live

\* Every answer of submit, get_run and get_report is one of the answers named.
LEMMA Answers ==
  /\ Status \subseteq Answer
  /\ {"joined", "queued", "error", "not found", "not ready", "done, not ready",
      "unmodified", "whole", "partial", "empty", "none"} \subseteq Answer
  BY DEF Answer, Status, Joinable, Live

USE DEF JobId, NoJob

\* A reply put together from an actor, a run and an answer is a reply.
LEMMA RepliesTyped ==
  /\ NoReply \in Replies
  /\ \A to \in {"submit", "poll", "report"}, run \in JobId, says \in Answer :
       Reply(to, run, says) => reply' \in Replies
<1>1. NoReply \in Replies
  <2>1. "none" \in Answer
    BY Answers
  <2> QED
    BY <2>1 DEF NoReply, Replies
<1>2. ASSUME NEW to \in {"submit", "poll", "report"}, NEW run \in JobId,
             NEW says \in Answer, Reply(to, run, says)
      PROVE  reply' \in Replies
  BY <1>2 DEF Reply, Replies
<1> QED
  BY <1>1, <1>2

\* An empty runner is well typed (JobRunner.__init__).
LEMMA InitTypeOK == Init => TypeOK
<1> SUFFICES ASSUME Init PROVE TypeOK
  OBVIOUS
<1> USE DEF Init
<1>1. JobsTyped
  BY Statuses, JobRunnerAssumption DEF JobsTyped, JobRunnerAssumption
<1>2. RegistryTyped
  BY JobRunnerAssumption DEF RegistryTyped, JobRunnerAssumption
<1>3. PoolTyped
  BY DEF PoolTyped, WorkerIdle, At
<1>4. LoopTyped
  BY RepliesTyped DEF LoopTyped, LoopIdle
<1> QED
  BY <1>1, <1>2, <1>3, <1>4 DEF TypeOK

\* What a step of a worker leaves alone keeps its type.
LEMMA LoopStaysTyped ==
  ASSUME LoopTyped, Silent, UNCHANGED <<loopVars, boots>>
  PROVE  LoopTyped'
  BY RepliesTyped DEF LoopTyped, Silent, loopVars

\* The handlers that start on the event loop keep the types (submit, get_run, get_report).
LEMMA RequestTypeOK ==
  ASSUME TypeOK, Request
  PROVE  TypeOK'
<1> USE DEF TypeOK
<1>1. ASSUME NEW k \in Key, Join(k) PROVE TypeOK'
  <2> USE <1>1 DEF Join, jobVars, registry, heldVars, loopVars
  <2>1. JobsTyped'
    BY DEF JobsTyped
  <2>2. RegistryTyped'
    BY DEF RegistryTyped
  <2>3. PoolTyped'
    BY DEF PoolTyped, At, JobOf
  <2>4. LoopTyped'
    <3>1. byKey[k] \in JobId
      BY DEF RegistryTyped, Joins, Registered
    <3>2. "joined" \in Answer
      BY Answers
    <3>3. reply' \in Replies
      BY <3>1, <3>2, RepliesTyped
    <3> QED
      BY <3>3 DEF LoopTyped
  <2> QED
    BY <2>1, <2>2, <2>3, <2>4
<1>2. ASSUME NEW k \in Key, Register(k) PROVE TypeOK'
  <2>1. last + 1 \in JobId
    BY <1>2, JobRunnerAssumption DEF Register, RegistryTyped, JobRunnerAssumption
  <2>2. PICK f \in first .. last + 1 :
          /\ first' = f
          /\ byKey' = [x \in Key |-> IF x = k THEN last + 1
                                     ELSE IF byKey[x] \in first .. f-1 THEN NoJob
                                     ELSE byKey[x]]
          /\ held' = HeldWithout(first .. f-1)
          /\ html' = [j \in JobId |-> html[j] /\ j \notin first .. f-1]
          /\ \E gone \in Unlinked(first .. f-1) :
               report' = [j \in JobId |-> IF j \in gone THEN "none" ELSE report[j]]
    BY <1>2 DEF Register
  <2>3. report' \in [JobId -> {"none", "partial", "whole"}]
    BY <2>2 DEF JobsTyped
  <2>4. html' \in [JobId -> BOOLEAN]
    BY <2>2 DEF JobsTyped
  <2>5. JobsTyped'
    BY <1>2, <2>1, <2>3, <2>4, Statuses DEF Register, JobsTyped
  <2>6. RegistryTyped'
    BY <1>2, <2>1, <2>2, JobRunnerAssumption
    DEF Register, RegistryTyped, HeldWithout, JobRunnerAssumption
  <2>7. PoolTyped'
    BY <1>2 DEF Register, PoolTyped, At, JobOf
  <2>8. LoopTyped'
    BY <1>2, <2>1, RepliesTyped DEF Register, LoopTyped, LoopIdle, Silent
  <2> QED
    BY <2>5, <2>6, <2>7, <2>8
<1>3. ASSUME NEW id \in JobId, GetRun(id) \/ GetReport(id) PROVE TypeOK'
  <2> USE <1>3 DEF GetRun, GetReport, LookUp, ReadUntouched, jobVars, registry,
                   heldVars
  <2>1. JobsTyped'
    BY DEF JobsTyped
  <2>2. RegistryTyped'
    BY DEF RegistryTyped
  <2>3. PoolTyped'
    BY DEF PoolTyped, At, JobOf
  <2>4. LoopTyped'
    BY RepliesTyped, Answers DEF LoopTyped, LoopIdle, Silent
  <2> QED
    BY <2>1, <2>2, <2>3, <2>4
<1> QED
  BY <1>1, <1>2, <1>3 DEF Request

\* The later steps of those handlers keep the types.
LEMMA HandleTypeOK ==
  ASSUME TypeOK, Handle
  PROVE  TypeOK'
<1> USE DEF TypeOK
<1>1. ASSUME HandOff PROVE TypeOK'
  <2> USE <1>1 DEF HandOff
  <2>1. JobsTyped'
    BY DEF JobsTyped, jobVars
  <2>2. RegistryTyped'
    BY DEF RegistryTyped, registry, heldVars
  <2>3. PoolTyped'
    <3>1. queue' \in Seq(JobId)
      <4>1. queue \in Seq(JobId) /\ loop.run \in JobId
        BY DEF PoolTyped, LoopTyped
      <4>2. queue' = Append(queue, loop.run) \/ queue' = queue
        OBVIOUS
      <4> HIDE <1>1 DEF HandOff, JobId
      <4> QED
        BY <4>1, <4>2
    <3> QED
      BY <3>1 DEF PoolTyped, At, JobOf
  <2>4. LoopTyped'
    BY RepliesTyped, Answers DEF LoopTyped, LoopIdle
  <2> QED
    BY <2>1, <2>2, <2>3, <2>4
<1>2. ASSUME \/ AnswerPoll \/ ReadPath \/ ReadStatus \/ ReadHtml
             \/ AnswerReport \/ \E id \in JobId : SendFile(id)
      PROVE TypeOK'
  <2>1. ReadUntouched
    BY <1>2 DEF AnswerPoll, ReadPath, ReadStatus, ReadHtml, AnswerReport, SendFile
  <2> USE <2>1 DEF ReadUntouched, jobVars, registry, heldVars
  <2>2. JobsTyped'
    BY DEF JobsTyped
  <2>3. RegistryTyped'
    BY DEF RegistryTyped
  <2>4. PoolTyped'
    BY DEF PoolTyped, At, JobOf
  <2>5. LoopTyped'
    <3> USE RepliesTyped, Answers DEF LoopTyped, LoopIdle, Silent
    <3>1. CASE AnswerPoll
      BY <3>1 DEF AnswerPoll, JobsTyped
    <3>2. CASE ReadPath
      BY <3>2 DEF ReadPath, JobsTyped
    <3>3. CASE ReadStatus
      <4>1. loop.run \in JobId
        BY <3>3 DEF ReadStatus
      <4>2. reply' \in Replies
        BY <3>3, <4>1 DEF ReadStatus
      <4>3. \/ loop' = LoopIdle
            \/ loop' = [loop EXCEPT !.at = "answer"]
            \/ loop' = [loop EXCEPT !.at = "html"]
        BY <3>3 DEF ReadStatus
      <4> QED
        <5>1. CASE loop' = LoopIdle
          BY <3>3, <4>2, <5>1 DEF ReadStatus
        <5>2. CASE loop' = [loop EXCEPT !.at = "answer"]
          BY <3>3, <4>1, <4>2, <5>2 DEF ReadStatus
        <5>3. CASE loop' = [loop EXCEPT !.at = "html"]
          BY <3>3, <4>1, <4>2, <5>3 DEF ReadStatus
        <5> QED
          BY <4>3, <5>1, <5>2, <5>3
    <3>4. CASE ReadHtml
      <4>1. loop.run \in JobId
        BY <3>4 DEF ReadHtml
      <4>2. reply' \in Replies
        BY <3>4, <4>1 DEF ReadHtml
      <4>3. loop' = LoopIdle \/ loop' = [loop EXCEPT !.at = "answer"]
        BY <3>4 DEF ReadHtml
      <4> QED
        <5>1. CASE loop' = LoopIdle
          BY <3>4, <4>2, <5>1 DEF ReadHtml
        <5>2. CASE loop' = [loop EXCEPT !.at = "answer"]
          BY <3>4, <4>1, <4>2, <5>2 DEF ReadHtml
        <5> QED
          BY <4>3, <5>1, <5>2
    <3>5. CASE AnswerReport
      BY <3>5 DEF AnswerReport
    <3>6. ASSUME NEW id \in JobId, SendFile(id) PROVE LoopTyped'
      BY <3>6 DEF SendFile, JobsTyped
    <3> QED
      BY <1>2, <3>1, <3>2, <3>3, <3>4, <3>5, <3>6
  <2> QED
    BY <2>2, <2>3, <2>4, <2>5
<1> QED
  BY <1>1, <1>2 DEF Handle

\* Every step of a worker keeps the types (_execute, _write, _hold_in_memory, _fail).
LEMMA ExecuteTypeOK ==
  ASSUME TypeOK, NEW w \in Worker, Execute(w)
  PROVE  TypeOK'
<1> USE DEF TypeOK, PoolUntouched
<1>1. LoopTyped'
  BY LoopStaysTyped
  DEF Execute, Take, Start, Progress, Rendered, RenderRaises, Write,
      WriteRefused, HoldInMemory, Finish, Publish, Fail
<1>2. ASSUME Take(w) PROVE TypeOK'
  <2> USE <1>2 DEF Take
  <2>1. JobsTyped'
    BY DEF JobsTyped, jobVars
  <2>2. RegistryTyped'
    BY DEF RegistryTyped, registry, heldVars
  <2>3. Head(queue) \in JobId /\ Tail(queue) \in Seq(JobId)
    <3>1. queue \in Seq(JobId) /\ queue # <<>>
      BY DEF PoolTyped
    <3> HIDE <1>2 DEF Take, JobId
    <3> QED
      BY <3>1
  <2>4. PoolTyped'
    BY <2>3 DEF PoolTyped, At, JobOf
  <2> QED
    BY <1>1, <2>1, <2>2, <2>4
<1>3. ASSUME Start(w) PROVE TypeOK'
  <2> USE <1>3 DEF Start
  <2>1. JobsTyped'
    BY Statuses DEF JobsTyped
  <2>2. RegistryTyped'
    BY DEF RegistryTyped, registry, heldVars
  <2>3. PoolTyped'
    BY DEF PoolTyped, At, Goto, JobOf
  <2> QED
    BY <1>1, <2>1, <2>2, <2>3
<1>4. ASSUME Progress(w) PROVE TypeOK'
  <2> USE <1>4 DEF Progress
  <2>1. JobsTyped'
    BY JobRunnerAssumption
    DEF JobsTyped, PoolTyped, At, JobOf, PanelsLeft, JobRunnerAssumption
  <2>2. RegistryTyped'
    BY DEF RegistryTyped, registry, heldVars
  <2>3. PoolTyped'
    BY DEF PoolTyped, At, JobOf
  <2> QED
    BY <1>1, <2>1, <2>2, <2>3
<1>5. ASSUME Rendered(w) \/ RenderRaises(w) PROVE TypeOK'
  <2> USE <1>5 DEF Rendered, RenderRaises
  <2>1. JobsTyped'
    BY DEF JobsTyped, jobVars
  <2>2. RegistryTyped'
    BY DEF RegistryTyped, registry, heldVars
  <2>3. PoolTyped'
    <3>1. CASE Goto(w, "write")
      BY <3>1 DEF PoolTyped, At, Goto, JobOf
    <3>2. CASE Goto(w, "fail")
      BY <3>2 DEF PoolTyped, At, Goto, JobOf
    <3> QED BY <3>1, <3>2
  <2> QED
    BY <1>1, <2>1, <2>2, <2>3
<1>6. ASSUME Write(w) \/ WriteRefused(w) PROVE TypeOK'
  <2> USE <1>6 DEF Write, WriteRefused, Leavings
  <2>1. JobsTyped'
    BY DEF JobsTyped, jobVars
  <2>2. RegistryTyped'
    BY DEF RegistryTyped, registry, heldVars
  <2>3. CASE Write(w)
    BY <1>1, <2>1, <2>2, <2>3 DEF PoolTyped, At, JobOf
  <2>4. CASE WriteRefused(w)
    BY <1>1, <2>1, <2>2, <2>4 DEF PoolTyped, At, Goto, JobOf
  <2> QED
    BY <2>3, <2>4
<1>7. ASSUME HoldInMemory(w) PROVE TypeOK'
  <2> USE <1>7 DEF HoldInMemory
  <2>1. JobOf(w) \in JobId
    BY DEF PoolTyped, At
  <2>2. html' \in [JobId -> BOOLEAN] /\ held' \subseteq JobId
    BY <2>1 DEF JobsTyped, RegistryTyped
  <2>3. JobsTyped'
    BY <2>2 DEF JobsTyped
  <2>4. RegistryTyped'
    BY <2>1, <2>2 DEF RegistryTyped, registry
  <2>5. /\ Goto(w, "finish")
        /\ UNCHANGED <<lock, queue, open>>
    OBVIOUS
  <2>6. PoolTyped'
    <3>1. worker' \in [Worker -> [at : {"idle", "start", "render", "write",
                          "hold", "finish", "publish", "fail"},
                        job : JobId \cup {NoJob}, wrote : BOOLEAN]]
      BY <2>5 DEF PoolTyped, Goto
    <3>2. \A v \in Worker : JobOf(v)' = JobOf(v) /\ (v # w => At(v, "idle")' = At(v, "idle"))
      BY <2>5 DEF PoolTyped, Goto, JobOf, At
    <3> HIDE <1>7 DEF HoldInMemory
    <3> QED
      BY <2>1, <2>5, <3>1, <3>2 DEF PoolTyped
  <2> QED
    BY <1>1, <2>3, <2>4, <2>6
<1>8. ASSUME Finish(w) PROVE TypeOK'
  <2> USE <1>8 DEF Finish
  <2>1. JobsTyped'
    BY Statuses DEF JobsTyped
  <2>2. RegistryTyped'
    BY DEF RegistryTyped, registry, heldVars
  <2>3. PoolTyped'
    BY DEF PoolTyped, At, Goto, JobOf
  <2> QED
    BY <1>1, <2>1, <2>2, <2>3
<1>9. ASSUME Publish(w) PROVE TypeOK'
  <2> USE <1>9 DEF Publish
  <2>1. JobsTyped'
    BY JobRunnerAssumption
    DEF JobsTyped, PoolTyped, At, JobOf, OnVolume, JobRunnerAssumption
  <2>2. RegistryTyped'
    BY DEF RegistryTyped, registry, heldVars
  <2>3. PoolTyped'
    BY DEF PoolTyped, At, WorkerIdle, JobOf
  <2> QED
    BY <1>1, <2>1, <2>2, <2>3
<1>10. ASSUME Fail(w) PROVE TypeOK'
  <2> USE <1>10 DEF Fail
  <2>1. JobsTyped'
    BY Statuses DEF JobsTyped
  <2>2. RegistryTyped'
    BY DEF RegistryTyped, KeysAfterFailure, heldVars
  <2>3. PoolTyped'
    BY DEF PoolTyped, At, WorkerIdle, JobOf
  <2> QED
    BY <1>1, <2>1, <2>2, <2>3
<1> QED
  BY <1>2, <1>3, <1>4, <1>5, <1>6, <1>7, <1>8, <1>9, <1>10 DEF Execute

\* Shutdown and restart keep the types.
LEMMA RestartTypeOK ==
  ASSUME TypeOK, Restart
  PROVE  TypeOK'
<1> USE DEF TypeOK, Restart
<1>1. JobsTyped'
  <2>1. PICK left \in [{JobOf(w) : w \in {v \in Worker : At(v, "write")}}
                       -> Leavings \cup {"whole"}] :
          report' = [j \in JobId |-> IF j \in DOMAIN left THEN left[j] ELSE report[j]]
    OBVIOUS
  <2>2. \A j \in DOMAIN left : left[j] \in {"none", "partial", "whole"}
    BY DEF Leavings
  <2>3. report' \in [JobId -> {"none", "partial", "whole"}]
    BY <2>1, <2>2 DEF JobsTyped
  <2> QED
    BY <2>3, Statuses, JobRunnerAssumption DEF JobsTyped, JobRunnerAssumption
<1>2. RegistryTyped'
  BY JobRunnerAssumption DEF RegistryTyped, JobRunnerAssumption
<1>3. PoolTyped'
  BY DEF PoolTyped, WorkerIdle, At
<1>4. LoopTyped'
  BY RepliesTyped DEF LoopTyped, LoopIdle, Silent
<1> QED
  BY <1>1, <1>2, <1>3, <1>4

\* A step that changes nothing but the pool's gate, or nothing at all.
LEMMA QuietTypeOK ==
  ASSUME TypeOK, Shutdown \/ UNCHANGED vars
  PROVE  TypeOK'
<1> USE DEF TypeOK, Shutdown, vars, jobVars, registry, heldVars, loopVars
<1>1. JobsTyped'
  BY DEF JobsTyped
<1>2. RegistryTyped'
  BY DEF RegistryTyped
<1>3. PoolTyped'
  BY DEF PoolTyped, At, JobOf
<1>4. LoopTyped'
  BY RepliesTyped DEF LoopTyped, Silent
<1> QED
  BY <1>1, <1>2, <1>3, <1>4

\* Every variable keeps its type in every reachable state, for any number of
\* keys, workers and jobs.
THEOREM TypeCorrect == Spec => []TypeOK
<1>1. TypeOK /\ [Next]_vars => TypeOK'
  BY RequestTypeOK, HandleTypeOK, ExecuteTypeOK, RestartTypeOK, QuietTypeOK
  DEF Next
<1> QED
  BY <1>1, InitTypeOK, PTL DEF Spec

-----------------------------------------------------------------------------
(***************************************************************************)
(* Single flight.                                                          *)
(***************************************************************************)
LEMMA SeqElement ==
  ASSUME NEW S, NEW s \in Seq(S), NEW i \in DOMAIN s
  PROVE  s[i] \in S
  OBVIOUS

\* An empty runner satisfies the inductive invariant.
LEMMA InitRegistryInv == Init => RegistryInv
<1> SUFFICES ASSUME Init PROVE RegistryInv
  OBVIOUS
<1>1. TypeOK
  BY InitTypeOK
<1>2. InOneHand
  BY DEF Init, InOneHand, Created, HandedOnce, QueuedOnce, WorkedOnce, LoopIdle,
         WorkerIdle, At
<1>3. LiveIsKept /\ SingleFlight /\ KeysLeadToJoinable
  BY DEF Init, LiveIsKept, SingleFlight, KeysLeadToJoinable, Registered, Joinable,
         Live
<1> QED
  BY <1>1, <1>2, <1>3 DEF RegistryInv

\* A step that leaves the jobs, the registry, the queue and the threads alone,
\* and does not begin to hand a job over.
LEMMA QuietStep ==
  ASSUME RegistryInv, TypeOK',
         UNCHANGED <<status, keyOf, registry, queue, worker>>,
         loop' = loop \/ loop'.at # "handoff"
  PROVE  RegistryInv'
<1>1. InOneHand'
  BY DEF RegistryInv, InOneHand, Created, HandedOnce, QueuedOnce, WorkedOnce,
         Queued, Worked, At, JobOf, registry
<1>2. LiveIsKept' /\ SingleFlight' /\ KeysLeadToJoinable'
  BY DEF RegistryInv, LiveIsKept, SingleFlight, KeysLeadToJoinable, Registered,
         registry
<1> QED
  BY <1>1, <1>2 DEF RegistryInv

\* A thread moves on within its render: its job stays running.
LEMMA RunningStep ==
  ASSUME RegistryInv, TypeOK', NEW w \in Worker,
         worker[w].at \in {"render", "write", "hold"},
         worker'[w].at \in {"render", "write", "hold", "finish", "fail"},
         worker'[w].job = worker[w].job,
         \A v \in Worker \ {w} : worker'[v] = worker[v],
         UNCHANGED <<status, keyOf, registry, queue, loop>>
  PROVE  RegistryInv'
<1>1. \A j \in JobId : Worked(j)' <=> Worked(j)
  BY DEF Worked, At, JobOf
<1>2. QueuedOnce' /\ HandedOnce'
  BY <1>1 DEF RegistryInv, InOneHand, HandedOnce, QueuedOnce, Queued, Worked, At,
              JobOf
<1>3. WorkedOnce'
  BY DEF RegistryInv, InOneHand, WorkedOnce, At, JobOf
<1>4. Created' /\ LiveIsKept' /\ SingleFlight' /\ KeysLeadToJoinable'
  BY DEF RegistryInv, InOneHand, Created, LiveIsKept, SingleFlight,
         KeysLeadToJoinable, Registered, registry
<1> QED
  BY <1>2, <1>3, <1>4 DEF RegistryInv, InOneHand

\* Registering a job and evicting the oldest finished ones keeps the invariant (submit, _evict_locked).
LEMMA RegisterStep ==
  ASSUME RegistryInv, TypeOK', NEW k \in Key, Register(k)
  PROVE  RegistryInv'
<1> DEFINE id == last + 1
           st == [status EXCEPT ![id] = "queued"]
<1>1. /\ last < MaxJobs /\ ~Joins(k) /\ last' = id /\ status' = st
      /\ keyOf' = [keyOf EXCEPT ![id] = k]
      /\ loop' = [LoopIdle EXCEPT !.at = "handoff", !.run = id]
      /\ UNCHANGED <<queue, worker>>
  BY DEF Register
<1>2. PICK f \in first .. id :
        /\ TrimsTo(f, first, id, st)
        /\ first' = f
        /\ byKey' = [x \in Key |-> IF x = k THEN id
                                   ELSE IF byKey[x] \in first .. f-1 THEN NoJob
                                   ELSE byKey[x]]
  BY DEF Register
<1>3. /\ id \in JobId /\ first \in Nat \ {0} /\ last \in Nat /\ f \in first .. id
      /\ \A j \in JobId : j # id => status'[j] = status[j] /\ keyOf'[j] = keyOf[j]
      /\ status'[id] = "queued" /\ keyOf'[id] = k /\ status[id] = "none"
      /\ loop'.at = "handoff" /\ loop'.run = id
  <2>1. /\ id \in JobId /\ first \in Nat \ {0} /\ last \in Nat
        /\ f \in first .. id
    BY <1>1, <1>2, JobRunnerAssumption
    DEF RegistryInv, TypeOK, RegistryTyped, JobRunnerAssumption
  <2>2. status[id] = "none"
    BY <2>1 DEF RegistryInv, InOneHand, Created
  <2> QED
    BY <1>1, <2>1, <2>2 DEF RegistryInv, TypeOK, JobsTyped, LoopIdle
<1> HIDE DEF st
<1>4. Created'
  BY <1>1, <1>3 DEF RegistryInv, InOneHand, Created
<1>5. ~Queued(id) /\ ~Worked(id)
  BY <1>3 DEF RegistryInv, InOneHand, QueuedOnce, WorkedOnce, Queued, Worked, At,
              TypeOK, PoolTyped
<1>6. HandedOnce'
  BY <1>1, <1>3, <1>5 DEF HandedOnce, Queued, Worked, At, JobOf
<1>7. QueuedOnce'
  <2>1. \A i \in DOMAIN queue : queue[i] # id /\ queue[i] \in JobId
    <3>1. queue \in Seq(JobId)
      BY DEF RegistryInv, TypeOK, PoolTyped
    <3>2. \A i \in DOMAIN queue : queue[i] \in JobId
      BY <3>1, SeqElement
    <3> QED
      BY <1>5, <3>2 DEF Queued
  <2> QED
    BY <1>1, <1>3, <2>1
    DEF RegistryInv, InOneHand, QueuedOnce, Worked, At, JobOf
<1>8. WorkedOnce'
  BY <1>1, <1>3, <1>5
  DEF RegistryInv, InOneHand, WorkedOnce, Worked, At, JobOf, TypeOK, PoolTyped
<1>9. \A j \in JobId : status'[j] \in Live => j \in f .. id
  <2>1. \A j \in first .. f-1 : st[j] \notin Live
    BY <1>2 DEF TrimsTo
  <2> QED
    BY <1>1, <1>2, <1>3, <2>1 DEF RegistryInv, LiveIsKept, Registered
<1>10. LiveIsKept'
  BY <1>1, <1>2, <1>9 DEF LiveIsKept, Registered
<1>11. SingleFlight'
  <2> SUFFICES ASSUME NEW j \in f .. id, status'[j] \in Joinable
               PROVE  byKey'[keyOf'[j]] = j
    BY <1>1, <1>2 DEF SingleFlight, Registered
  <2>1. CASE j = id
    BY <1>2, <1>3, <2>1
  <2>2. CASE j # id
    <3>1. j \in JobId /\ j \in first .. last
      BY <1>3, <2>2, JobRunnerAssumption DEF JobRunnerAssumption
    <3>2. j \in JobId /\ j \in Registered /\ status[j] \in Joinable
      BY <1>3, <2>2, <3>1 DEF Registered
    <3>3. byKey[keyOf[j]] = j
      BY <3>2 DEF RegistryInv, SingleFlight
    <3>4. keyOf[j] \in Key /\ keyOf[j] # k
      BY <1>1, <3>2, <3>3 DEF RegistryInv, InOneHand, Created, Joins, Joinable, Live
    <3> QED
      BY <1>2, <1>3, <2>2, <3>4, <3>2, <3>3
  <2> QED
    BY <2>1, <2>2
<1>12. KeysLeadToJoinable'
  <2> SUFFICES ASSUME NEW x \in Key, byKey'[x] # NoJob
               PROVE  /\ byKey'[x] \in f .. id
                      /\ status'[byKey'[x]] \in Joinable
                      /\ keyOf'[byKey'[x]] = x
    BY <1>1, <1>2 DEF KeysLeadToJoinable, Registered
  <2>1. CASE x = k
    BY <1>2, <1>3, <2>1 DEF Joinable, Live
  <2>2. CASE x # k
    <3>1. byKey'[x] = byKey[x] /\ byKey[x] \notin first .. f-1
      BY <1>2, <2>2
    <3>2. /\ byKey[x] \in first .. last
          /\ status[byKey[x]] \in Joinable /\ keyOf[byKey[x]] = x
      BY <3>1 DEF RegistryInv, KeysLeadToJoinable, Registered
    <3>3. byKey[x] \in JobId /\ byKey[x] \in f .. id /\ byKey[x] # id
      BY <1>3, <3>1, <3>2, JobRunnerAssumption DEF JobRunnerAssumption
    <3> QED
      BY <1>3, <3>1, <3>2, <3>3
  <2> QED
    BY <2>1, <2>2
<1> QED
  BY <1>4, <1>6, <1>7, <1>8, <1>10, <1>11, <1>12 DEF RegistryInv, InOneHand

\* The job being handed over joins the end of the queue.  With a closed pool
\* nothing but the handler changes.
LEMMA HandOffStep ==
  ASSUME RegistryInv, TypeOK', HandOff
  PROVE  RegistryInv'
<1>1. CASE ~open
  BY <1>1, QuietStep DEF HandOff, LoopIdle, jobVars
<1>2. CASE open
  <2>1. /\ UNCHANGED <<status, keyOf, registry, worker>>
        /\ loop.run \in JobId /\ queue \in Seq(JobId)
        /\ queue' = Append(queue, loop.run)
        /\ loop'.at # "handoff"
    BY <1>2 DEF HandOff, jobVars, LoopIdle, RegistryInv, TypeOK, LoopTyped,
                PoolTyped
  <2>2. /\ Len(queue) \in Nat
        /\ DOMAIN queue = 1 .. Len(queue)
        /\ DOMAIN queue' = 1 .. Len(queue) + 1
        /\ \A i \in DOMAIN queue : queue'[i] = queue[i]
        /\ queue'[Len(queue) + 1] = loop.run
    <3> HIDE DEF JobId
    <3> QED
      BY <2>1
  <2>3. HandedOnce
    BY DEF RegistryInv, InOneHand
  <2>4. /\ status[loop.run] = "queued" /\ ~Worked(loop.run)
        /\ \A i \in DOMAIN queue : queue[i] # loop.run
    BY <2>3 DEF HandOff, HandedOnce, Queued
  <2>5. QueuedOnce'
    BY <2>1, <2>2, <2>4
    DEF RegistryInv, InOneHand, QueuedOnce, Worked, At, JobOf
  <2>6. Created' /\ HandedOnce' /\ WorkedOnce'
    BY <2>1 DEF RegistryInv, InOneHand, Created, HandedOnce, WorkedOnce, At, JobOf,
                registry
  <2>7. LiveIsKept' /\ SingleFlight' /\ KeysLeadToJoinable'
    BY <2>1 DEF RegistryInv, LiveIsKept, SingleFlight, KeysLeadToJoinable,
                Registered, registry
  <2> QED
    BY <2>5, <2>6, <2>7 DEF RegistryInv, InOneHand
<1> QED
  BY <1>1, <1>2 DEF HandOff, RegistryInv, TypeOK, PoolTyped

\* The job at the head of the queue is taken by one thread.
LEMMA TakeStep ==
  ASSUME RegistryInv, TypeOK', NEW w \in Worker, Take(w)
  PROVE  RegistryInv'
<1> DEFINE j == Head(queue)
<1>1. /\ UNCHANGED <<status, keyOf, registry, loop>>
      /\ queue \in Seq(JobId) /\ queue # <<>> /\ queue' = Tail(queue)
      /\ At(w, "idle")
      /\ worker' = [worker EXCEPT ![w] = [at |-> "start", job |-> j,
                                          wrote |-> FALSE]]
  BY DEF Take, jobVars, loopVars, RegistryInv, TypeOK, PoolTyped
<1>2. /\ Len(queue) \in Nat \ {0}
      /\ DOMAIN queue = 1 .. Len(queue)
      /\ DOMAIN queue' = 1 .. Len(queue) - 1
      /\ \A i \in DOMAIN queue' : queue'[i] = queue[i + 1]
      /\ j = queue[1]
  <2> HIDE DEF JobId
  <2> QED
    BY <1>1
<1>3. \A v \in Worker : /\ v # w => worker'[v] = worker[v]
                        /\ worker'[w].at = "start" /\ worker'[w].job = j
  BY <1>1 DEF RegistryInv, TypeOK, PoolTyped
<1> HIDE DEF j
<1>4. /\ status[j] = "queued" /\ ~Worked(j)
      /\ \A i \in DOMAIN queue' : queue'[i] # j
  BY <1>2 DEF RegistryInv, InOneHand, QueuedOnce
<1>5. \A x : Worked(x)' => Worked(x) \/ x = j
  BY <1>3 DEF Worked, At, JobOf
<1>6. QueuedOnce'
  <2>1. \A i \in DOMAIN queue' : status'[queue'[i]] = "queued"
    BY <1>1, <1>2 DEF RegistryInv, InOneHand, QueuedOnce
  <2>2. \A i \in DOMAIN queue' : (~Worked(queue[i]))'
    <3> SUFFICES ASSUME NEW i \in DOMAIN queue', NEW v \in Worker,
                        worker'[v].at # "idle", worker'[v].job = queue'[i]
                 PROVE  FALSE
      BY DEF Worked, At, JobOf
    <3>1. v # w
      BY <1>3, <1>4
    <3>2. i + 1 \in DOMAIN queue /\ Worked(queue[i + 1])
      BY <1>2, <1>3, <3>1 DEF Worked, At, JobOf
    <3> QED
      BY <3>2 DEF RegistryInv, InOneHand, QueuedOnce
  <2>3. \A i, n \in DOMAIN queue' : queue'[i] = queue'[n] => i = n
    BY <1>2 DEF RegistryInv, InOneHand, QueuedOnce
  <2> QED
    BY <2>1, <2>2, <2>3 DEF QueuedOnce
<1>7. HandedOnce'
  <2> SUFFICES ASSUME loop.at = "handoff"
               PROVE  /\ status[loop.run] = "queued"
                      /\ ~Queued(loop.run)' /\ ~Worked(loop.run)'
    BY <1>1 DEF HandedOnce, Queued, Worked, At, JobOf
  <2>1. /\ status[loop.run] = "queued"
        /\ ~Queued(loop.run) /\ ~Worked(loop.run)
    BY DEF RegistryInv, InOneHand, HandedOnce
  <2>2. ~Queued(loop.run)' /\ loop.run # j
    BY <1>1, <1>2, <2>1 DEF Queued
  <2> QED
    BY <1>1, <1>5, <2>1, <2>2 DEF Worked, At, JobOf
<1>8. WorkedOnce'
  BY <1>1, <1>3, <1>4
  DEF RegistryInv, InOneHand, WorkedOnce, Worked, At, JobOf
<1>9. Created' /\ LiveIsKept' /\ SingleFlight' /\ KeysLeadToJoinable'
  BY <1>1 DEF RegistryInv, InOneHand, Created, LiveIsKept, SingleFlight,
              KeysLeadToJoinable, Registered, registry
<1> QED
  BY <1>6, <1>7, <1>8, <1>9 DEF RegistryInv, InOneHand

\* A thread that changes the status of its job: nobody else has that job, and
\* as it was live until now its key leads to it.
LEMMA OwnJob ==
  ASSUME RegistryInv, NEW w \in Worker, ~At(w, "idle"),
         status[JobOf(w)] \in Live
  PROVE  /\ JobOf(w) \in JobId /\ JobOf(w) \in Registered
         /\ byKey[keyOf[JobOf(w)]] = JobOf(w) /\ keyOf[JobOf(w)] \in Key
         /\ loop.at = "handoff" => loop.run # JobOf(w)
         /\ \A i \in DOMAIN queue : queue[i] # JobOf(w)
         /\ \A v \in Worker \ {w} : ~At(v, "idle") => JobOf(v) # JobOf(w)
         /\ \A k \in Key : byKey[k] = JobOf(w) => k = keyOf[JobOf(w)]
<1>1. JobOf(w) \in JobId /\ JobOf(w) \in Registered
  BY DEF RegistryInv, TypeOK, PoolTyped, LiveIsKept
<1>2. byKey[keyOf[JobOf(w)]] = JobOf(w)
  BY <1>1 DEF RegistryInv, SingleFlight, Joinable
<1>3. keyOf[JobOf(w)] \in Key
  BY <1>1 DEF RegistryInv, InOneHand, Created, Live
<1>4. \A k \in Key : byKey[k] = JobOf(w) => k = keyOf[JobOf(w)]
  BY <1>1 DEF RegistryInv, KeysLeadToJoinable
<1>5. loop.at = "handoff" => loop.run # JobOf(w)
  BY DEF RegistryInv, InOneHand, HandedOnce, Worked
<1>6. \A i \in DOMAIN queue : queue[i] # JobOf(w)
  BY DEF RegistryInv, InOneHand, QueuedOnce, Worked
<1>7. \A v \in Worker \ {w} : ~At(v, "idle") => JobOf(v) # JobOf(w)
  BY DEF RegistryInv, InOneHand, WorkedOnce
<1> QED
  BY <1>1, <1>2, <1>3, <1>4, <1>5, <1>6, <1>7

\* What a step on w's own job leaves as it was.
LEMMA OthersUntouched ==
  ASSUME RegistryInv, TypeOK', NEW w \in Worker, ~At(w, "idle"),
         status[JobOf(w)] \in Live,
         \A j \in JobId \ {JobOf(w)} : status'[j] = status[j],
         worker'[w].at = "idle" \/ JobOf(w)' = JobOf(w),
         \A v \in Worker \ {w} : worker'[v] = worker[v],
         UNCHANGED <<keyOf, first, last, queue, loop>>
  PROVE  HandedOnce' /\ QueuedOnce' /\ Created'
<1>1. /\ JobOf(w) \in JobId /\ JobOf(w) <= last /\ keyOf[JobOf(w)] \in Key
      /\ loop.at = "handoff" => loop.run # JobOf(w) /\ loop.run \in JobId
      /\ \A i \in DOMAIN queue : queue[i] # JobOf(w) /\ queue[i] \in JobId
  <2>1. queue \in Seq(JobId) /\ (loop.at = "handoff" => loop.run \in JobId)
    BY DEF RegistryInv, TypeOK, PoolTyped, LoopTyped
  <2>2. \A i \in DOMAIN queue : queue[i] \in JobId
    BY <2>1, SeqElement
  <2> QED
    BY <2>1, <2>2, OwnJob DEF RegistryInv, InOneHand, Created, Live
<1>2. \A x : (~Worked(x)) /\ x # JobOf(w) => (~Worked(x))'
  BY DEF Worked, At, JobOf
<1>3. HandedOnce'
  <2> SUFFICES ASSUME loop.at = "handoff"
               PROVE  /\ status'[loop.run] = "queued"
                      /\ ~Queued(loop.run)' /\ ~Worked(loop.run)'
    BY DEF HandedOnce, Queued, Worked, At, JobOf
  <2>1. status[loop.run] = "queued" /\ ~Queued(loop.run) /\ ~Worked(loop.run)
    BY DEF RegistryInv, InOneHand, HandedOnce
  <2> QED
    BY <1>1, <2>1 DEF Queued, Worked, At, JobOf
<1>4. QueuedOnce'
  <2>1. \A i \in DOMAIN queue' : status'[queue'[i]] = "queued"
    BY <1>1 DEF RegistryInv, InOneHand, QueuedOnce
  <2>2. \A i \in DOMAIN queue' : (~Worked(queue[i]))'
    BY <1>1 DEF RegistryInv, InOneHand, QueuedOnce, Worked, At, JobOf
  <2>3. \A i, n \in DOMAIN queue' : queue'[i] = queue'[n] => i = n
    BY DEF RegistryInv, InOneHand, QueuedOnce
  <2> QED
    BY <2>1, <2>2, <2>3 DEF QueuedOnce
<1>5. Created'
  BY <1>1 DEF RegistryInv, InOneHand, Created
<1> QED
  BY <1>3, <1>4, <1>5

\* The registry holds jobs only.
LEMMA RegisteredJobs == TypeOK => Registered \subseteq JobId
  BY JobRunnerAssumption
  DEF TypeOK, RegistryTyped, Registered, JobRunnerAssumption

\* A live job that stays joinable leaves the registry as it was.
LEMMA StaysJoinable ==
  ASSUME RegistryInv, NEW j \in Registered, status[j] \in Live,
         status'[j] \in Joinable,
         \A i \in JobId \ {j} : status'[i] = status[i],
         UNCHANGED <<keyOf, first, last, byKey>>
  PROVE  LiveIsKept' /\ SingleFlight' /\ KeysLeadToJoinable'
<1>1. Registered' = Registered /\ Registered \subseteq JobId
  BY RegisteredJobs DEF Registered, RegistryInv
<1>2. \A i \in JobId : status'[i] \in Joinable => status[i] \in Joinable
  BY DEF Joinable
<1>3. LiveIsKept'
  BY <1>1 DEF RegistryInv, LiveIsKept
<1>4. SingleFlight'
  BY <1>1, <1>2 DEF RegistryInv, SingleFlight
<1>5. KeysLeadToJoinable'
  BY <1>1 DEF RegistryInv, KeysLeadToJoinable
<1> QED
  BY <1>3, <1>4, <1>5

\* Marking a job as running keeps the invariant (_execute).
LEMMA StartStep ==
  ASSUME RegistryInv, TypeOK', NEW w \in Worker, Start(w)
  PROVE  RegistryInv'
<1> DEFINE j == JobOf(w)
<1>1. /\ ~At(w, "idle") /\ status[j] \in Live /\ j \in JobId
      /\ status'[j] = "running"
      /\ \A i \in JobId \ {j} : status'[i] = status[i]
      /\ worker'[w].at = "render" /\ worker'[w].job = j
      /\ \A v \in Worker \ {w} : worker'[v] = worker[v]
      /\ UNCHANGED <<keyOf, first, last, byKey, queue, loop>>
  BY OwnJob
  DEF Start, Goto, At, JobOf, PoolUntouched, registry, loopVars, RegistryInv,
      InOneHand, WorkedOnce, TypeOK, JobsTyped, PoolTyped, Live
<1>2. HandedOnce' /\ QueuedOnce' /\ Created'
  BY <1>1, OthersUntouched DEF JobOf
<1>3. /\ \A v \in Worker \ {w} : ~At(v, "idle") => JobOf(v) # j /\ JobOf(v) \in JobId
      /\ j \in Registered
  BY <1>1, OwnJob DEF RegistryInv, TypeOK, PoolTyped
<1>4. WorkedOnce'
  BY <1>1, <1>3 DEF RegistryInv, InOneHand, WorkedOnce, At, JobOf
<1>5. LiveIsKept' /\ SingleFlight' /\ KeysLeadToJoinable'
  BY <1>1, <1>3, StaysJoinable DEF Live, Joinable
<1> QED
  BY <1>2, <1>4, <1>5 DEF RegistryInv, InOneHand

\* Marking a job as done keeps the invariant (_execute).
LEMMA FinishStep ==
  ASSUME RegistryInv, TypeOK', NEW w \in Worker, Finish(w)
  PROVE  RegistryInv'
<1> DEFINE j == JobOf(w)
<1>1. /\ ~At(w, "idle") /\ status[j] \in Live /\ j \in JobId
      /\ status'[j] = "done"
      /\ \A i \in JobId \ {j} : status'[i] = status[i]
      /\ worker'[w].at = "publish" /\ worker'[w].job = j
      /\ \A v \in Worker \ {w} : worker'[v] = worker[v]
      /\ UNCHANGED <<keyOf, first, last, byKey, queue, loop>>
  BY OwnJob
  DEF Finish, Goto, At, JobOf, PoolUntouched, registry, loopVars, RegistryInv,
      InOneHand, WorkedOnce, TypeOK, JobsTyped, PoolTyped, Live
<1>2. HandedOnce' /\ QueuedOnce' /\ Created'
  BY <1>1, OthersUntouched DEF JobOf
<1>3. /\ \A v \in Worker \ {w} : ~At(v, "idle") => JobOf(v) # j /\ JobOf(v) \in JobId
      /\ j \in Registered
  BY <1>1, OwnJob DEF RegistryInv, TypeOK, PoolTyped
<1>4. WorkedOnce'
  BY <1>1, <1>3 DEF RegistryInv, InOneHand, WorkedOnce, At, JobOf
<1>5. LiveIsKept' /\ SingleFlight' /\ KeysLeadToJoinable'
  BY <1>1, <1>3, StaysJoinable DEF Live, Joinable
<1> QED
  BY <1>2, <1>4, <1>5 DEF RegistryInv, InOneHand

\* Publishing the path of the report keeps the invariant (_execute).
LEMMA PublishStep ==
  ASSUME RegistryInv, TypeOK', NEW w \in Worker, Publish(w)
  PROVE  RegistryInv'
<1>1. /\ worker'[w].at = "idle"
      /\ \A v \in Worker \ {w} : worker'[v] = worker[v]
      /\ UNCHANGED <<status, keyOf, first, last, byKey, queue, loop>>
  BY DEF Publish, WorkerIdle, PoolUntouched, registry, loopVars, RegistryInv,
         TypeOK, PoolTyped
<1>2. HandedOnce' /\ QueuedOnce'
  BY <1>1 DEF RegistryInv, InOneHand, HandedOnce, QueuedOnce, Queued, Worked, At,
              JobOf
<1>3. WorkedOnce'
  BY <1>1 DEF RegistryInv, InOneHand, WorkedOnce, At, JobOf
<1>4. Created' /\ LiveIsKept' /\ SingleFlight' /\ KeysLeadToJoinable'
  BY <1>1 DEF RegistryInv, InOneHand, Created, LiveIsKept, SingleFlight,
              KeysLeadToJoinable, Registered
<1> QED
  BY <1>2, <1>3, <1>4 DEF RegistryInv, InOneHand

\* A failure keeps the invariant: the key of the failed job goes with it (_fail).
LEMMA FailStep ==
  ASSUME RegistryInv, TypeOK', NEW w \in Worker, Fail(w)
  PROVE  RegistryInv'
<1> DEFINE j == JobOf(w)
<1>1. /\ ~At(w, "idle") /\ status[j] \in Live /\ j \in JobId
      /\ status'[j] = "failed"
      /\ \A i \in JobId \ {j} : status'[i] = status[i]
      /\ worker'[w].at = "idle"
      /\ \A v \in Worker \ {w} : worker'[v] = worker[v]
      /\ byKey' = KeysAfterFailure(j)
      /\ UNCHANGED <<keyOf, first, last, queue, loop>>
  BY OwnJob
  DEF Fail, WorkerIdle, At, JobOf, loopVars, RegistryInv, InOneHand, WorkedOnce,
      TypeOK, JobsTyped, PoolTyped, Live
<1>2. HandedOnce' /\ QueuedOnce' /\ Created'
  BY <1>1, OthersUntouched DEF JobOf
<1>3. /\ \A v \in Worker \ {w} : ~At(v, "idle") => JobOf(v) # j /\ JobOf(v) \in JobId
      /\ j \in Registered
      /\ \A k \in Key : byKey[k] = j => k = keyOf[j]
  BY <1>1, OwnJob DEF RegistryInv, TypeOK, PoolTyped
<1>4. WorkedOnce'
  BY <1>1, <1>3 DEF RegistryInv, InOneHand, WorkedOnce, At, JobOf
<1>5. Registered' = Registered /\ Registered \subseteq JobId
  BY <1>1, RegisteredJobs DEF Registered, RegistryInv
<1>6. \A k \in Key : byKey'[k] = IF byKey[k] = j THEN NoJob ELSE byKey[k]
  BY <1>1, <1>3 DEF KeysAfterFailure
<1>7. LiveIsKept'
  BY <1>1, <1>5 DEF RegistryInv, LiveIsKept, Live
<1>8. SingleFlight'
  <2> SUFFICES ASSUME NEW i \in Registered, status'[i] \in Joinable
               PROVE  byKey'[keyOf[i]] = i
    BY <1>1, <1>5 DEF SingleFlight
  <2>1. i \in JobId /\ i # j /\ status[i] \in Joinable
    BY <1>1, <1>5 DEF Joinable, Live
  <2>2. byKey[keyOf[i]] = i /\ keyOf[i] \in Key
    BY <2>1 DEF RegistryInv, SingleFlight, InOneHand, Created, Joinable, Live
  <2> QED
    BY <1>6, <2>1, <2>2
<1>9. KeysLeadToJoinable'
  <2> SUFFICES ASSUME NEW k \in Key, byKey'[k] # NoJob
               PROVE  /\ byKey'[k] \in Registered
                      /\ status'[byKey'[k]] \in Joinable
                      /\ keyOf[byKey'[k]] = k
    BY <1>1, <1>5 DEF KeysLeadToJoinable
  <2>1. byKey'[k] = byKey[k] /\ byKey[k] # j
    BY <1>6
  <2>2. /\ byKey[k] \in Registered /\ status[byKey[k]] \in Joinable
        /\ keyOf[byKey[k]] = k
    BY <2>1 DEF RegistryInv, KeysLeadToJoinable
  <2>3. status'[byKey[k]] = status[byKey[k]]
    BY <1>1, <1>5, <2>1, <2>2
  <2> QED
    BY <2>1, <2>2, <2>3
<1> QED
  BY <1>2, <1>4, <1>7, <1>8, <1>9 DEF RegistryInv, InOneHand

\* A new process starts from an empty registry and keeps the invariant.
LEMMA RestartStep ==
  ASSUME RegistryInv, TypeOK', Restart
  PROVE  RegistryInv'
<1>1. InOneHand'
  BY DEF Restart, InOneHand, Created, HandedOnce, QueuedOnce, WorkedOnce, LoopIdle,
         WorkerIdle, At
<1>2. Registered' = {}
  BY DEF Restart, Registered, RegistryInv, TypeOK, RegistryTyped
<1>3. LiveIsKept' /\ SingleFlight' /\ KeysLeadToJoinable'
  BY <1>2 DEF Restart, LiveIsKept, SingleFlight, KeysLeadToJoinable, Live
<1> QED
  BY <1>1, <1>3 DEF RegistryInv

\* The invariant is inductive: every action of the runner keeps it.
LEMMA StepRegistryInv == RegistryInv /\ [Next]_vars => RegistryInv'
<1> SUFFICES ASSUME RegistryInv, [Next]_vars PROVE RegistryInv'
  OBVIOUS
<1>1. TypeOK'
  BY RequestTypeOK, HandleTypeOK, ExecuteTypeOK, RestartTypeOK, QuietTypeOK
  DEF RegistryInv, Next
<1>2. CASE Request
  <2>1. ASSUME NEW k \in Key, Join(k) PROVE RegistryInv'
    BY <1>1, <2>1, QuietStep DEF Join, jobVars, loopVars
  <2>2. ASSUME NEW k \in Key, Register(k) PROVE RegistryInv'
    BY <1>1, <2>2, RegisterStep
  <2>3. ASSUME NEW id \in JobId, GetRun(id) \/ GetReport(id) PROVE RegistryInv'
    <3>1. loop' = loop \/ loop'.at # "handoff"
      BY <2>3 DEF GetRun, GetReport, LookUp, LoopIdle
    <3> QED
      BY <1>1, <2>3, <3>1, QuietStep
      DEF GetRun, GetReport, LookUp, ReadUntouched, jobVars
  <2> QED
    BY <1>2, <2>1, <2>2, <2>3 DEF Request
<1>3. CASE Handle
  <2>1. CASE HandOff
    BY <1>1, <2>1, HandOffStep
  <2>2. ASSUME \/ AnswerPoll \/ ReadPath \/ ReadStatus \/ ReadHtml
               \/ AnswerReport \/ \E id \in JobId : SendFile(id)
        PROVE  RegistryInv'
    <3>1. ReadUntouched
      BY <2>2 DEF AnswerPoll, ReadPath, ReadStatus, ReadHtml, AnswerReport,
                  SendFile
    <3>2. loop' = loop \/ loop'.at # "handoff"
      <4> USE DEF LoopIdle, RegistryInv, TypeOK, LoopTyped
      <4>1. CASE AnswerPoll \/ AnswerReport \/ \E id \in JobId : SendFile(id)
        BY <4>1 DEF AnswerPoll, AnswerReport, SendFile
      <4>2. CASE ReadPath
        BY <4>2 DEF ReadPath
      <4>3. CASE ReadStatus
        <5>1. \/ loop' = LoopIdle
              \/ loop' = [loop EXCEPT !.at = "answer"]
              \/ loop' = [loop EXCEPT !.at = "html"]
          BY <4>3 DEF ReadStatus
        <5> QED
          BY <5>1
      <4>4. CASE ReadHtml
        <5>1. loop' = LoopIdle \/ loop' = [loop EXCEPT !.at = "answer"]
          BY <4>4 DEF ReadHtml
        <5> QED
          BY <5>1
      <4> QED
        BY <2>2, <4>1, <4>2, <4>3, <4>4
    <3> QED
      BY <1>1, <3>1, <3>2, QuietStep DEF ReadUntouched, jobVars
  <2> QED
    BY <1>3, <2>1, <2>2 DEF Handle
<1>4. ASSUME NEW w \in Worker, Execute(w) PROVE RegistryInv'
  <2>1. CASE Progress(w)
    BY <1>1, <2>1, RunningStep
    DEF Progress, At, PoolUntouched, loopVars
  <2>2. CASE Rendered(w) \/ RenderRaises(w) \/ WriteRefused(w) \/ HoldInMemory(w)
    BY <1>1, <2>2, RunningStep
    DEF Rendered, RenderRaises, WriteRefused, HoldInMemory, At, Goto, PoolUntouched,
        jobVars, loopVars, RegistryInv, TypeOK, PoolTyped
  <2>3. CASE Write(w)
    BY <1>1, <2>3, RunningStep
    DEF Write, At, PoolUntouched, jobVars, loopVars, RegistryInv, TypeOK, PoolTyped
  <2> QED
    BY <1>1, <1>4, <2>1, <2>2, <2>3, TakeStep, StartStep, FinishStep, PublishStep,
       FailStep
    DEF Execute
<1>5. CASE Shutdown \/ UNCHANGED vars
  BY <1>1, <1>5, QuietStep DEF Shutdown, vars, jobVars, loopVars
<1> QED
  BY <1>1, <1>2, <1>3, <1>4, <1>5, RestartStep DEF Next

\* The registry and the pool agree in every reachable state (jobs.py: submit,
\* _execute, _fail, _evict_locked).
THEOREM RegistryInvariant == Spec => []RegistryInv
  BY InitRegistryInv, StepRegistryInv, PTL DEF Spec

\* Identical specs share one render: for any number of keys, threads and
\* requests, and whatever fails, a joinable job is the one its key leads to.
THEOREM RendersAreSingleFlight == Spec => []SingleFlight
<1>1. RegistryInv => SingleFlight
  BY DEF RegistryInv
<1> QED
  BY <1>1, RegistryInvariant, PTL

\* A key never leads to a failed, evicted or foreign job.
THEOREM KeysAreJoinable == Spec => []KeysLeadToJoinable
<1>1. RegistryInv => KeysLeadToJoinable
  BY DEF RegistryInv
<1> QED
  BY <1>1, RegistryInvariant, PTL

\* Eviction never takes a queued or running job.
THEOREM LiveJobsAreKept == Spec => []LiveIsKept
<1>1. RegistryInv => LiveIsKept
  BY DEF RegistryInv
<1> QED
  BY <1>1, RegistryInvariant, PTL

-----------------------------------------------------------------------------
(***************************************************************************)
(* Nobody is stranded: a live job is in somebody's hands.                  *)
(***************************************************************************)
InHand(j) == Handed(j) \/ Queued(j) \/ Worked(j) \/ (status[j] = "queued" /\ ~open)

\* A step on the event loop that hands no job over strands none.
LEMMA LoopStrandsNone ==
  ASSUME NoneStranded, UNCHANGED <<status, queue, worker>>,
         loop' = loop \/ loop.at # "handoff", open' = open \/ ~open'
  PROVE  NoneStranded'
<1> SUFFICES ASSUME NEW j \in JobId, status[j] \in Live
             PROVE  (InHand(j))'
  BY DEF NoneStranded, InHand
<1>1. InHand(j)
  BY DEF NoneStranded, InHand
<1>2. Handed(j) => Handed(j)'
  BY DEF Handed
<1>3. (Queued(j) => Queued(j)') /\ (Worked(j) => Worked(j)')
  BY DEF Queued, Worked, At, JobOf
<1> QED
  BY <1>1, <1>2, <1>3 DEF InHand

\* The handler gives its job to the pool, or finds the pool closed.
LEMMA HandOffStrandsNone ==
  ASSUME RegistryInv, NoneStranded, HandOff
  PROVE  NoneStranded'
<1>1. /\ UNCHANGED <<status, worker, open>>
      /\ loop.at = "handoff" /\ loop.run \in JobId /\ queue \in Seq(JobId)
      /\ status[loop.run] = "queued"
  BY DEF HandOff, jobVars, RegistryInv, InOneHand, HandedOnce, TypeOK, LoopTyped, PoolTyped
<1> SUFFICES ASSUME NEW j \in JobId, status[j] \in Live
             PROVE  (InHand(j))'
  BY <1>1 DEF NoneStranded, InHand
<1>2. InHand(j)
  BY DEF NoneStranded, InHand
<1>3. Worked(j) => Worked(j)'
  BY <1>1 DEF Worked, At, JobOf
<1>4. CASE open
  <2>1. queue' = Append(queue, loop.run)
    BY <1>4 DEF HandOff
  <2>2. /\ Len(queue) \in Nat
        /\ DOMAIN queue = 1 .. Len(queue)
        /\ DOMAIN queue' = 1 .. Len(queue) + 1
        /\ \A i \in DOMAIN queue : queue'[i] = queue[i]
        /\ queue'[Len(queue) + 1] = loop.run
    <3> HIDE DEF JobId
    <3> QED
      BY <1>1, <2>1
  <2>3. Queued(j) => Queued(j)'
    BY <2>2 DEF Queued
  <2>4. Handed(j) => Queued(j)'
    BY <2>2 DEF Handed, Queued
  <2> QED
    BY <1>2, <1>3, <1>4, <2>3, <2>4 DEF InHand
<1>5. CASE ~open
  <2>1. queue' = queue
    BY <1>5 DEF HandOff
  <2>2. Queued(j) => Queued(j)'
    BY <2>1 DEF Queued
  <2>3. Handed(j) => status'[j] = "queued" /\ ~open'
    BY <1>1, <1>5 DEF Handed
  <2> QED
    BY <1>1, <1>2, <1>3, <1>5, <2>2, <2>3 DEF InHand
<1> QED
  BY <1>4, <1>5 DEF RegistryInv, TypeOK, PoolTyped

\* The job that is registered is in the hands of its handler.
LEMMA RegisterStrandsNone ==
  ASSUME RegistryInv, NoneStranded, NEW k \in Key, Register(k)
  PROVE  NoneStranded'
<1>1. /\ last + 1 \in JobId
      /\ status' = [status EXCEPT ![last + 1] = "queued"]
      /\ loop' = [LoopIdle EXCEPT !.at = "handoff", !.run = last + 1]
      /\ loop.at = "idle"
      /\ UNCHANGED <<queue, worker, open>>
  BY JobRunnerAssumption
  DEF Register, LoopIsFree, RegistryInv, TypeOK, RegistryTyped, JobRunnerAssumption
<1> SUFFICES ASSUME NEW j \in JobId, status'[j] \in Live
             PROVE  (InHand(j))'
  BY DEF NoneStranded, InHand
<1>2. CASE j = last + 1
  BY <1>1, <1>2 DEF InHand, Handed, LoopIdle
<1>3. CASE j # last + 1
  <2>1. status'[j] = status[j]
    BY <1>1, <1>3 DEF RegistryInv, TypeOK, JobsTyped
  <2>2. InHand(j) /\ ~Handed(j)
    BY <1>1, <2>1 DEF NoneStranded, InHand, Handed
  <2>3. (Queued(j) => Queued(j)') /\ (Worked(j) => Worked(j)')
    BY <1>1 DEF Queued, Worked, At, JobOf
  <2> QED
    BY <1>1, <2>1, <2>2, <2>3 DEF InHand
<1> QED
  BY <1>2, <1>3

\* A job leaves the queue into the hands of a thread.
LEMMA TakeStrandsNone ==
  ASSUME RegistryInv, NoneStranded, NEW w \in Worker, Take(w)
  PROVE  NoneStranded'
<1>1. /\ UNCHANGED <<status, loop, open>>
      /\ queue \in Seq(JobId) /\ queue # <<>> /\ queue' = Tail(queue)
      /\ At(w, "idle") /\ worker \in [Worker -> [at : {"idle", "start", "render", "write",
              "hold", "finish", "publish", "fail"}, job : JobId \cup {NoJob}, wrote : BOOLEAN]]
      /\ worker' = [worker EXCEPT ![w] = [at |-> "start", job |-> Head(queue),
                                          wrote |-> FALSE]]
  BY DEF Take, jobVars, loopVars, RegistryInv, TypeOK, PoolTyped
<1>2. /\ Len(queue) \in Nat \ {0}
      /\ DOMAIN queue = 1 .. Len(queue)
      /\ DOMAIN queue' = 1 .. Len(queue) - 1
      /\ \A i \in DOMAIN queue' : queue'[i] = queue[i + 1]
      /\ Head(queue) = queue[1]
  <2> HIDE DEF JobId
  <2> QED
    BY <1>1
<1> SUFFICES ASSUME NEW j \in JobId, status[j] \in Live
             PROVE  (InHand(j))'
  BY <1>1 DEF NoneStranded, InHand
<1>3. InHand(j)
  BY DEF NoneStranded, InHand
<1>4. Handed(j) => Handed(j)'
  BY <1>1 DEF Handed
<1>5. Worked(j) => Worked(j)'
  BY <1>1 DEF Worked, At, JobOf
<1>6. Queued(j) => Queued(j)' \/ Worked(j)'
  <2> SUFFICES ASSUME NEW i \in DOMAIN queue, queue[i] = j PROVE Queued(j)' \/ Worked(j)'
    BY DEF Queued
  <2>1. CASE i = 1
    <3>1. worker'[w].at = "start" /\ worker'[w].job = j
      BY <1>1, <1>2, <2>1
    <3> QED
      BY <3>1 DEF Worked, At, JobOf
  <2>2. CASE i # 1
    <3>1. i - 1 \in DOMAIN queue' /\ queue'[i - 1] = j
      BY <1>2, <2>2
    <3> QED
      BY <3>1 DEF Queued
  <2> QED
    BY <2>1, <2>2
<1> QED
  BY <1>1, <1>3, <1>4, <1>5, <1>6 DEF InHand

\* A thread keeps its job until the job has ended.
LEMMA WorkStrandsNone ==
  ASSUME RegistryInv, NoneStranded, NEW w \in Worker, Execute(w), ~Take(w)
  PROVE  NoneStranded'
<1>1. /\ ~At(w, "idle") /\ JobOf(w) \in JobId
      /\ UNCHANGED <<queue, open, loop>>
      /\ \A v \in Worker \ {w} : worker'[v] = worker[v]
      /\ \A j \in JobId \ {JobOf(w)} : status'[j] = status[j]
  BY DEF Execute, Start, Progress, Rendered, RenderRaises, Write, WriteRefused,
         HoldInMemory, Finish, Publish, Fail, Goto, At, JobOf, PoolUntouched, jobVars,
         loopVars, RegistryInv, TypeOK, PoolTyped, JobsTyped
<1>2. \/ ~At(w, "idle")' /\ JobOf(w)' = JobOf(w)
      \/ status'[JobOf(w)] \notin Live
  <2> USE DEF RegistryInv, TypeOK, PoolTyped
  <2>1. CASE Publish(w)
    <3>1. status[JobOf(w)] = "done" /\ status' = status
      BY <2>1 DEF Publish, InOneHand, WorkedOnce
    <3> QED
      BY <3>1 DEF Live
  <2>2. CASE Fail(w)
    <3>1. status'[JobOf(w)] = "failed"
      BY <1>1, <2>2 DEF Fail, JobsTyped
    <3> QED
      BY <3>1 DEF Live
  <2>3. CASE ~Publish(w) /\ ~Fail(w)
    BY <2>3
    DEF Execute, Start, Progress, Rendered, RenderRaises, Write, WriteRefused,
        HoldInMemory, Finish, Goto, At, JobOf
  <2> QED
    BY <2>1, <2>2, <2>3
<1> SUFFICES ASSUME NEW j \in JobId, status'[j] \in Live
             PROVE  (InHand(j))'
  BY DEF NoneStranded, InHand
<1>3. CASE j = JobOf(w)
  <2>1. Worked(j)'
    BY <1>2, <1>3 DEF Worked
  <2> QED
    BY <2>1 DEF InHand
<1>4. CASE j # JobOf(w)
  <2>1. InHand(j) /\ status'[j] = status[j]
    BY <1>1, <1>4 DEF NoneStranded, InHand
  <2>2. (Handed(j) => Handed(j)') /\ (Queued(j) => Queued(j)')
    BY <1>1 DEF Handed, Queued
  <2>3. Worked(j) => Worked(j)'
    BY <1>1, <1>4 DEF Worked, At, JobOf
  <2> QED
    BY <1>1, <2>1, <2>2, <2>3 DEF InHand
<1> QED
  BY <1>3, <1>4

\* No step strands a job.
LEMMA StepNoneStranded ==
  ASSUME RegistryInv, NoneStranded, [Next]_vars
  PROVE  NoneStranded'
<1>1. CASE Request
  <2>1. ASSUME NEW k \in Key, Register(k) PROVE NoneStranded'
    BY <2>1, RegisterStrandsNone
  <2>2. ASSUME \/ \E k \in Key : Join(k)
               \/ \E id \in JobId : GetRun(id) \/ GetReport(id)
        PROVE  NoneStranded'
    <3>1. UNCHANGED <<status, queue, worker, open>> /\ loop.at # "handoff"
      BY <2>2 DEF Join, GetRun, GetReport, LookUp, LoopIsFree, ReadUntouched, jobVars
    <3> QED
      BY <3>1, LoopStrandsNone
  <2> QED
    BY <1>1, <2>1, <2>2 DEF Request
<1>2. CASE Handle
  <2>1. CASE ~HandOff
    <3>1. UNCHANGED <<status, queue, worker, open>>
      BY <1>2, <2>1
      DEF Handle, AnswerPoll, ReadPath, ReadStatus, ReadHtml, AnswerReport, SendFile,
          ReadUntouched, jobVars
    <3>2. loop' = loop \/ loop.at # "handoff"
      BY <1>2, <2>1
      DEF Handle, AnswerPoll, ReadPath, ReadStatus, ReadHtml, AnswerReport, SendFile
    <3> QED
      BY <3>1, <3>2, LoopStrandsNone
  <2> QED
    BY <2>1, HandOffStrandsNone
<1>3. ASSUME NEW w \in Worker, Execute(w) PROVE NoneStranded'
  BY <1>3, TakeStrandsNone, WorkStrandsNone
<1>4. CASE Shutdown \/ UNCHANGED vars
  <2>1. UNCHANGED <<status, queue, worker, loop>> /\ (open' = open \/ ~open')
    BY <1>4 DEF Shutdown, vars, jobVars, loopVars
  <2> QED
    BY <2>1, LoopStrandsNone
<1>5. CASE Restart
  BY <1>5 DEF Restart, NoneStranded, Live
<1> QED
  BY <1>1, <1>2, <1>3, <1>4, <1>5 DEF Next

\* A job that is queued or running is with somebody who will end it: its handler,
\* the pool's queue or a thread.  Only a job whose handler found the pool closed is
\* with nobody (jobs.py: submit, _execute, shutdown).
THEOREM NoJobIsStranded == Spec => []NoneStranded
<1>1. Init => NoneStranded
  BY DEF Init, NoneStranded, Live
<1>2. RegistryInv /\ NoneStranded /\ [Next]_vars => NoneStranded'
  BY StepNoneStranded
<1> QED
  BY <1>1, <1>2, RegistryInvariant, PTL DEF Spec

-----------------------------------------------------------------------------
(***************************************************************************)
(* The life of a run.                                                      *)
(***************************************************************************)
\* What is in the registry was created.
Exist == \A j \in Registered : status[j] # "none"

AllGoOn == boots' = boots => \A j \in JobId : GoesOn(j)

\* A step that neither changes a status nor takes a job out of the registry.
LEMMA NothingEnds ==
  ASSUME Exist, UNCHANGED <<status, first, last>>
  PROVE  Exist' /\ AllGoOn
  BY DEF Exist, AllGoOn, GoesOn, Registered

\* What is registered was queued, and what is evicted had ended.
LEMMA RegisterGoesOn ==
  ASSUME RegistryInv, Exist, NEW k \in Key, Register(k)
  PROVE  Exist' /\ AllGoOn
<1> DEFINE id == last + 1
           st == [status EXCEPT ![id] = "queued"]
<1>1. /\ last < MaxJobs /\ last' = id /\ status' = st
      /\ \E f \in first .. id : TrimsTo(f, first, id, st) /\ first' = f
  BY DEF Register
<1>2. PICK f \in first .. id : TrimsTo(f, first, id, st) /\ first' = f
  BY <1>1
<1>3. /\ id \in JobId /\ first \in Nat \ {0} /\ last \in Nat /\ f \in Nat
      /\ status \in [JobId -> Status]
  BY <1>1, <1>2, JobRunnerAssumption
  DEF RegistryInv, TypeOK, RegistryTyped, JobsTyped, JobRunnerAssumption
<1>4. status[id] = "none"
  BY <1>3 DEF RegistryInv, InOneHand, Created
<1>5. \A j \in JobId : j # id => status'[j] = status[j]
  BY <1>1, <1>3
<1>6. status'[id] = "queued"
  BY <1>1, <1>3
<1>7. \A j \in JobId : j \in first .. last /\ j \notin f .. id => status[j] \in {"done", "failed"}
  <2> SUFFICES ASSUME NEW j \in JobId, j \in first .. last, j \notin f .. id
               PROVE  status[j] \in {"done", "failed"}
    OBVIOUS
  <2>1. j \in first .. f-1 /\ j # id
    BY <1>3
  <2>2. st[j] \notin Live
    BY <1>2, <2>1 DEF TrimsTo
  <2>3. status[j] \notin Live /\ status[j] # "none" /\ status[j] \in Status
    BY <1>1, <1>3, <1>5, <2>1, <2>2 DEF Exist, Registered
  <2> QED
    BY <2>3 DEF Status, Joinable
<1>8. Exist'
  <2> SUFFICES ASSUME NEW j \in f .. id PROVE status'[j] # "none"
    BY <1>1, <1>2 DEF Exist, Registered
  <2>1. CASE j = id
    BY <1>6, <2>1
  <2>2. CASE j # id
    <3>1. j \in JobId /\ j \in first .. last
      BY <1>2, <1>3, <2>2, JobRunnerAssumption DEF JobRunnerAssumption
    <3> QED
      BY <1>5, <2>2, <3>1 DEF Exist, Registered
  <2> QED
    BY <2>1, <2>2
<1>9. ASSUME NEW j \in JobId PROVE GoesOn(j)
  <2>1. status'[j] # status[j] => <<status[j], status'[j]>> \in Life
    BY <1>4, <1>5, <1>6 DEF Life
  <2>2. j \in Registered \ Registered' => status[j] \in {"done", "failed"}
    BY <1>1, <1>2, <1>7 DEF Registered
  <2> QED
    BY <2>1, <2>2 DEF GoesOn
<1> QED
  BY <1>8, <1>9 DEF AllGoOn

\* A thread takes its job one stage further.
LEMMA ThreadGoesOn ==
  ASSUME RegistryInv, Exist, NEW w \in Worker, Execute(w)
  PROVE  Exist' /\ AllGoOn
<1>1. UNCHANGED <<first, last>>
  BY DEF Execute, Take, Start, Progress, Rendered, RenderRaises, Write, WriteRefused,
         HoldInMemory, Finish, Publish, Fail, PoolUntouched, registry
<1>2. CASE status' = status
  BY <1>1, <1>2, NothingEnds
<1>3. ASSUME NEW s, status' = [status EXCEPT ![JobOf(w)] = s], s # "none",
             <<status[JobOf(w)], s>> \in Life
      PROVE  Exist' /\ AllGoOn
  <2>1. status \in [JobId -> Status]
    BY DEF RegistryInv, TypeOK, JobsTyped
  <2>2. \A j \in JobId :
          \/ status'[j] = status[j]
          \/ status'[j] = s /\ <<status[j], status'[j]>> \in Life
    <3> SUFFICES ASSUME NEW j \in JobId, status'[j] # status[j]
                 PROVE  status'[j] = s /\ <<status[j], status'[j]>> \in Life
      OBVIOUS
    <3>1. j = JobOf(w)
      BY <1>3, <2>1
    <3>2. status'[j] = s
      BY <1>3, <2>1, <3>1
    <3> QED
      BY <1>3, <3>1, <3>2
  <2>3. Exist'
    <3>1. Registered' = Registered /\ Registered \subseteq JobId
      BY <1>1, RegisteredJobs DEF RegistryInv, Registered
    <3> QED
      BY <1>3, <2>2, <3>1 DEF Exist
  <2>4. AllGoOn
    BY <1>1, <2>2 DEF AllGoOn, GoesOn, Registered
  <2> QED
    BY <2>3, <2>4
<1>4. CASE Start(w)
  <2>1. status[JobOf(w)] = "queued"
    BY <1>4 DEF Start, RegistryInv, InOneHand, WorkedOnce
  <2> QED
    BY <1>3, <1>4, <2>1 DEF Start, Life
<1>5. CASE Finish(w)
  <2>1. status[JobOf(w)] = "running"
    BY <1>5 DEF Finish, At, RegistryInv, InOneHand, WorkedOnce
  <2> QED
    BY <1>3, <1>5, <2>1 DEF Finish, Life
<1>6. CASE Fail(w)
  <2>1. status[JobOf(w)] = "running"
    BY <1>6 DEF Fail, At, RegistryInv, InOneHand, WorkedOnce
  <2> QED
    BY <1>3, <1>6, <2>1 DEF Fail, Life
<1>7. CASE ~Start(w) /\ ~Finish(w) /\ ~Fail(w)
  <2>1. status' = status
    BY <1>7 DEF Execute, Take, Progress, Rendered, RenderRaises, Write, WriteRefused,
                HoldInMemory, Publish, jobVars
  <2> QED
    BY <1>2, <2>1
<1> QED
  BY <1>4, <1>5, <1>6, <1>7

LEMMA StepGoesOn ==
  ASSUME RegistryInv, Exist, [Next]_vars
  PROVE  Exist' /\ AllGoOn
<1>1. CASE Restart
  <2>1. boots' # boots /\ first' > last'
    BY <1>1, JobRunnerAssumption
    DEF Restart, RegistryInv, TypeOK, RegistryTyped, LoopTyped, JobRunnerAssumption
  <2>2. Registered' = {}
    BY <1>1, <2>1 DEF Restart, Registered, RegistryInv, TypeOK, RegistryTyped
  <2> QED
    BY <2>1, <2>2 DEF Exist, AllGoOn
<1>2. CASE ~Restart /\ ~(\E k \in Key : Register(k)) /\ ~(\E w \in Worker : Execute(w))
  <2>1. UNCHANGED <<status, first, last>>
    BY <1>2
    DEF Next, Request, Join, GetRun, GetReport, LookUp, Handle, HandOff, AnswerPoll,
        ReadPath, ReadStatus, ReadHtml, AnswerReport, SendFile, ReadUntouched, Shutdown,
        vars, jobVars, registry
  <2> QED
    BY <2>1, NothingEnds
<1> QED
  BY <1>1, <1>2, RegisterGoesOn, ThreadGoesOn

\* As long as the process lives a run is queued, running and then done or failed,
\* each once, and only an ended one is forgotten.  It is what the page relies on
\* (PickerRuns: Work, Forget).
THEOREM RunsHaveOneLife == Spec => RunsGoOn
<1>1. Init => Exist
  BY DEF Init, Exist, Registered
<1>2. RegistryInv /\ Exist /\ [Next]_vars => Exist' /\ AllGoOn
  BY StepGoesOn
<1>3. AllGoOn => [boots' = boots => \A j \in JobId : GoesOn(j)]_vars
  BY DEF AllGoOn
<1> QED
  BY <1>1, <1>2, <1>3, RegistryInvariant, PTL DEF Spec, RunsGoOn

-----------------------------------------------------------------------------
(***************************************************************************)
(* Reports: what is offered was written to the end.                        *)
(***************************************************************************)
\* The job is done, and its file is whole, or was removed.
Settled(j) == status[j] = "done" /\ report[j] # "partial"

FilesInv ==
    /\ \A j \in JobId : path[j] => Settled(j)
    /\ \A w \in Worker : worker[w].wrote => /\ worker[w].at \in {"finish", "publish"}
                                            /\ report[JobOf(w)] # "partial"
    /\ loop.onVolume => loop.at \in {"status", "answer"} /\ Settled(loop.run)
    /\ \A j \in sending : Settled(j)

\* No step but a restart touches the file or the status of a settled job, other
\* than to remove the file: who writes has a running job in hand.
LEMMA SettledStays ==
  ASSUME RegistryInv, [Next]_vars, ~Restart, NEW j \in JobId, Settled(j)
  PROVE  Settled(j)'
<1> USE DEF Settled
<1>1. CASE Request
  <2>1. ASSUME NEW k \in Key, Join(k) PROVE Settled(j)'
    BY <2>1 DEF Join, jobVars
  <2>2. ASSUME NEW k \in Key, Register(k) PROVE Settled(j)'
    <3>1. last' = last + 1 /\ status' = [status EXCEPT ![last + 1] = "queued"]
      BY <2>2 DEF Register
    <3>2. j # last + 1
      BY DEF RegistryInv, InOneHand, Created, TypeOK, RegistryTyped
    <3>3. report'[j] \in {"none", report[j]}
      BY <2>2 DEF Register
    <3> QED
      BY <3>1, <3>2, <3>3 DEF RegistryInv, TypeOK, JobsTyped
  <2>3. ASSUME NEW id \in JobId, GetRun(id) \/ GetReport(id) PROVE Settled(j)'
    BY <2>3 DEF GetRun, GetReport, LookUp, ReadUntouched, jobVars
  <2> QED
    BY <1>1, <2>1, <2>2, <2>3 DEF Request
<1>2. CASE Handle
  BY <1>2 DEF Handle, HandOff, AnswerPoll, ReadPath, ReadStatus, ReadHtml, AnswerReport,
              SendFile, ReadUntouched, jobVars
<1>3. ASSUME NEW w \in Worker, Execute(w) PROVE Settled(j)'
  <2>1. worker[w].at \in {"start", "render", "write", "hold", "finish", "fail"} => JobOf(w) # j
    BY DEF RegistryInv, InOneHand, WorkedOnce, At
  <2>2. CASE Take(w) \/ Progress(w) \/ Rendered(w) \/ RenderRaises(w) \/ HoldInMemory(w)
             \/ Publish(w)
    BY <2>2 DEF Take, Progress, Rendered, RenderRaises, HoldInMemory, Publish, jobVars
  <2>3. CASE Start(w) \/ Finish(w) \/ Fail(w)
    BY <2>1, <2>3 DEF Start, Finish, Fail, At, RegistryInv, TypeOK, JobsTyped
  <2>4. CASE Write(w) \/ WriteRefused(w)
    BY <2>1, <2>4 DEF Write, WriteRefused, At, jobVars, RegistryInv, TypeOK, JobsTyped
  <2> QED
    BY <1>3, <2>2, <2>3, <2>4 DEF Execute
<1>4. CASE Shutdown \/ UNCHANGED vars
  BY <1>4 DEF Shutdown, vars, jobVars
<1> QED
  BY <1>1, <1>2, <1>3, <1>4 DEF Next

\* The path of a job is set once its write has returned (_execute).
LEMMA PathsStep ==
  ASSUME RegistryInv, FilesInv, [Next]_vars, ~Restart, NEW j \in JobId, path'[j]
  PROVE  Settled(j)'
<1>1. CASE path[j]
  BY <1>1, SettledStays DEF FilesInv
<1>2. CASE ~path[j]
  <2>1. PICK w \in Worker : Publish(w)
    <3>1. path' # path
      BY <1>2
    <3> QED
      BY <3>1
      DEF Next, Request, Join, Register, GetRun, GetReport, LookUp, Handle, HandOff,
          AnswerPoll, ReadPath, ReadStatus, ReadHtml, AnswerReport, SendFile,
          ReadUntouched, Execute, Take, Start, Progress, Rendered, RenderRaises, Write,
          WriteRefused, HoldInMemory, Finish, Fail, Shutdown, vars, jobVars
  <2>2. path' = [path EXCEPT ![JobOf(w)] = OnVolume(w)] /\ At(w, "publish")
        /\ UNCHANGED <<status, report>>
    BY <2>1 DEF Publish
  <2>3. j = JobOf(w) /\ worker[w].wrote
    BY <1>2, <2>2 DEF OnVolume, RegistryInv, TypeOK, JobsTyped
  <2>4. status[j] = "done" /\ report[j] # "partial"
    BY <2>2, <2>3 DEF FilesInv, RegistryInv, InOneHand, WorkedOnce
  <2> QED
    BY <2>2, <2>4 DEF Settled
<1> QED
  BY <1>1, <1>2

\* A thread says it has written the report only when it has (_write, _execute).
LEMMA WroteStep ==
  ASSUME RegistryInv, TypeOK', FilesInv, [Next]_vars, NEW w \in Worker, worker'[w].wrote
  PROVE  worker'[w].at \in {"finish", "publish"} /\ report'[JobOf(w)'] # "partial"
<1> USE DEF RegistryInv, TypeOK, PoolTyped, JobsTyped
<1>1. CASE worker' = worker /\ UNCHANGED report
  BY <1>1 DEF FilesInv, JobOf
<1>2. ASSUME NEW v \in Worker, Execute(v) PROVE worker'[w].at \in {"finish", "publish"}
                                               /\ report'[JobOf(w)'] # "partial"
  <2>1. CASE w # v
    <3>1. worker'[w] = worker[w]
      BY <1>2, <2>1 DEF Execute, Take, Start, Progress, Rendered, RenderRaises, Write,
                        WriteRefused, HoldInMemory, Finish, Publish, Fail, Goto
    <3>2. ~At(w, "idle") /\ worker[w].at \in {"finish", "publish"}
          /\ report[JobOf(w)] # "partial"
      BY <3>1 DEF FilesInv, At
    <3>3. ~At(v, "idle") => JobOf(v) # JobOf(w)
      BY <2>1, <3>2 DEF InOneHand, WorkedOnce
    <3>4. report'[JobOf(w)] = report[JobOf(w)]
      BY <1>2, <3>2, <3>3
      DEF Execute, Take, Start, Progress, Rendered, RenderRaises, Write, WriteRefused,
          HoldInMemory, Finish, Publish, Fail, At
    <3> QED
      BY <3>1, <3>2, <3>4 DEF JobOf
  <2>2. CASE w = v
    <3>1. CASE Take(w) \/ Publish(w) \/ Fail(w)
      BY <3>1 DEF Take, Publish, Fail, WorkerIdle
    <3>2. CASE Start(w) \/ Rendered(w) \/ RenderRaises(w) \/ WriteRefused(w) \/ HoldInMemory(w)
      <4>1. ~worker[w].wrote
        BY <3>2 DEF Start, Rendered, RenderRaises, WriteRefused, HoldInMemory, At, FilesInv
      <4>2. PICK pc : Goto(w, pc)
        BY <3>2 DEF Start, Rendered, RenderRaises, WriteRefused, HoldInMemory
      <4>3. worker'[w].wrote = worker[w].wrote
        BY <4>2 DEF Goto
      <4> QED
        BY <4>1, <4>3
    <3>3. CASE Progress(w)
      BY <3>3 DEF Progress, FilesInv, At
    <3>4. CASE Write(w)
      BY <3>4 DEF Write, At, JobOf
    <3>5. CASE Finish(w)
      BY <3>5 DEF Finish, Goto, At, FilesInv, JobOf
    <3> QED
      BY <1>2, <2>2, <3>1, <3>2, <3>3, <3>4, <3>5 DEF Execute
  <2> QED
    BY <2>1, <2>2
<1>3. CASE \E k \in Key : Register(k)
  <2>1. worker' = worker /\ \A j \in JobId : report'[j] \in {"none", report[j]}
    BY <1>3 DEF Register
  <2> QED
    BY <2>1 DEF FilesInv, JobOf, At
<1>4. CASE Restart
  BY <1>4 DEF Restart, WorkerIdle
<1>5. CASE \/ \E k \in Key : Join(k)
           \/ \E id \in JobId : GetRun(id) \/ GetReport(id)
           \/ Handle \/ Shutdown \/ UNCHANGED vars
  BY <1>1, <1>5
  DEF Join, GetRun, GetReport, LookUp, Handle, HandOff, AnswerPoll, ReadPath, ReadStatus,
      ReadHtml, AnswerReport, SendFile, ReadUntouched, Shutdown, vars
<1> QED
  BY <1>2, <1>3, <1>4, <1>5 DEF Next, Request

\* A handler that saw the file, and a response on its way, are about a settled job
\* (get_report).
LEMMA OfferedStep ==
  ASSUME RegistryInv, FilesInv, [Next]_vars, ~Restart
  PROVE  /\ loop'.onVolume => loop'.at \in {"status", "answer"} /\ Settled(loop.run)'
         /\ \A j \in sending' : Settled(j)'
<1> DEFINE Offers == loop'.onVolume => loop'.at \in {"status", "answer"} /\ Settled(loop.run)'
<1>1. /\ loop \in [at : {"idle", "handoff", "poll", "path", "status", "html", "answer"},
                   run : JobId \cup {NoJob}, onVolume : BOOLEAN]
      /\ loop.at # "idle" => loop.run \in JobId
      /\ sending \subseteq JobId
  BY DEF RegistryInv, TypeOK, LoopTyped
<1>2. ASSUME NEW j \in JobId, Settled(j) PROVE Settled(j)'
  BY <1>2, SettledStays
<1>3. ASSUME NEW j \in sending PROVE Settled(j)'
  BY <1>1, <1>2, <1>3 DEF FilesInv
<1>4. ASSUME loop' = loop PROVE Offers
  BY <1>1, <1>2, <1>4 DEF FilesInv, Settled
<1>5. ASSUME loop'.onVolume = FALSE PROVE Offers
  BY <1>5
<1>6. CASE Request
  <2>1. ASSUME NEW k \in Key, Join(k) PROVE Offers /\ sending' = sending
    BY <1>4, <2>1 DEF Join, loopVars
  <2>2. ASSUME NEW k \in Key, Register(k) PROVE Offers /\ sending' = sending
    BY <1>5, <2>2 DEF Register, LoopIdle
  <2>3. ASSUME NEW id \in JobId, NEW to, NEW at, LookUp(id, to, at)
        PROVE  Offers /\ sending' = sending
    BY <1>4, <1>5, <2>3 DEF LookUp, LoopIdle
  <2> QED
    BY <1>3, <1>6, <2>1, <2>2, <2>3 DEF Request, GetRun, GetReport
<1>7. CASE HandOff \/ AnswerPoll
  <2>1. loop' = LoopIdle /\ sending' = sending
    BY <1>7 DEF HandOff, AnswerPoll
  <2> QED
    BY <1>3, <2>1 DEF LoopIdle
<1>8. CASE ReadPath
  <2>1. /\ loop' = [loop EXCEPT !.at = "status",
                                !.onVolume = path[loop.run] /\ report[loop.run] # "none"]
        /\ loop.run \in JobId /\ sending' = sending
    BY <1>1, <1>8 DEF ReadPath
  <2>2. loop'.at = "status" /\ loop'.run = loop.run /\ (loop'.onVolume => path[loop.run])
    BY <1>1, <2>1
  <2>3. path[loop.run] => Settled(loop.run)'
    BY <1>2, <2>1, <2>2 DEF FilesInv, Settled
  <2> QED
    BY <1>3, <2>1, <2>2, <2>3
<1>9. CASE ReadStatus
  <2>1. sending' = sending
    BY <1>9 DEF ReadStatus
  <2>2. CASE loop' = LoopIdle
    BY <1>3, <2>1, <2>2 DEF LoopIdle
  <2>3. CASE loop' = [loop EXCEPT !.at = IF loop.onVolume THEN "answer" ELSE "html"]
    <3>1. loop'.onVolume = loop.onVolume /\ loop'.run = loop.run
          /\ (loop.onVolume => loop'.at = "answer")
      BY <1>1, <2>3
    <3>2. loop.onVolume => loop.run \in JobId /\ Settled(loop.run)
      BY <1>1 DEF FilesInv
    <3> QED
      BY <1>2, <1>3, <2>1, <3>1, <3>2 DEF Settled
  <2> QED
    BY <1>9, <2>2, <2>3 DEF ReadStatus
<1>10. CASE ReadHtml
  <2>1. sending' = sending /\ loop.onVolume = FALSE
    BY <1>1, <1>10 DEF ReadHtml, FilesInv
  <2>2. loop' = LoopIdle \/ loop' = [loop EXCEPT !.at = "answer"]
    BY <1>10 DEF ReadHtml
  <2>3. loop'.onVolume = FALSE
    BY <1>1, <2>1, <2>2 DEF LoopIdle
  <2> QED
    BY <1>3, <2>1, <2>3
<1>11. CASE AnswerReport
  <2>1. loop'.onVolume = FALSE
    BY <1>11 DEF AnswerReport, LoopIdle
  <2>2. \/ sending' = sending
        \/ loop.onVolume /\ sending' = sending \cup {loop.run}
    BY <1>11 DEF AnswerReport
  <2>3. loop.onVolume => loop.run \in JobId /\ Settled(loop.run)
    BY <1>1 DEF FilesInv
  <2>4. \A j \in sending' : j \in JobId /\ Settled(j)
    BY <1>1, <2>2, <2>3 DEF FilesInv
  <2> QED
    BY <1>2, <2>1, <2>4
<1>12. CASE \E id \in JobId : SendFile(id)
  BY <1>3, <1>4, <1>12 DEF SendFile
<1>13. CASE Shutdown \/ (\E w \in Worker : Execute(w)) \/ UNCHANGED vars
  <2>1. loop' = loop /\ sending' = sending
    BY <1>13
    DEF Shutdown, Execute, Take, Start, Progress, Rendered, RenderRaises, Write,
        WriteRefused, HoldInMemory, Finish, Publish, Fail, PoolUntouched, vars, loopVars
  <2> QED
    BY <1>3, <1>4, <2>1
<1> QED
  BY <1>6, <1>7, <1>8, <1>9, <1>10, <1>11, <1>12, <1>13 DEF Next, Handle

LEMMA StepFilesInv ==
  ASSUME RegistryInv, TypeOK', FilesInv, [Next]_vars PROVE FilesInv'
<1>1. CASE Restart
  BY <1>1 DEF Restart, FilesInv, LoopIdle, WorkerIdle
<1>2. CASE ~Restart
  BY <1>2, PathsStep, WroteStep, OfferedStep DEF FilesInv
<1> QED
  BY <1>1, <1>2

LEMMA StepNoPartial ==
  ASSUME RegistryInv, FilesInv, NoPartialReport, [Next]_vars PROVE NoPartialReport'
<1>1. Silent => NoPartialReport'
  BY DEF Silent, NoReply, NoPartialReport
<1>2. ASSUME NEW to, NEW run, NEW says, Reply(to, run, says),
             to # "report" \/ says # "partial"
      PROVE  NoPartialReport'
  BY <1>2 DEF Reply, NoPartialReport
<1>3. CASE \E id \in JobId : SendFile(id)
  BY <1>2, <1>3 DEF SendFile, FilesInv, Settled
<1>4. CASE Request
  <2>1. ASSUME NEW k \in Key, Join(k) \/ Register(k) PROVE NoPartialReport'
    BY <1>1, <1>2, <2>1 DEF Join, Register
  <2>2. ASSUME NEW id \in JobId, NEW to, NEW at, LookUp(id, to, at) PROVE NoPartialReport'
    BY <1>1, <1>2, <2>2 DEF LookUp
  <2> QED
    BY <1>4, <2>1, <2>2 DEF Request, GetRun, GetReport
<1>5. CASE HandOff \/ AnswerPoll
  BY <1>2, <1>5 DEF HandOff, AnswerPoll
<1>6. CASE AnswerReport
  BY <1>1, <1>2, <1>6 DEF AnswerReport
<1>7. CASE ReadPath \/ ReadStatus \/ ReadHtml
  BY <1>1, <1>2, <1>7 DEF ReadPath, ReadStatus, ReadHtml
<1>8. CASE Shutdown \/ Restart
  BY <1>1, <1>8 DEF Shutdown, Restart
<1>9. ASSUME NEW w \in Worker, Execute(w) PROVE NoPartialReport'
  <2>1. Silent
    BY <1>9 DEF Execute, Take, Start, Progress, Rendered, RenderRaises, Write,
                WriteRefused, HoldInMemory, Finish, Publish, Fail
  <2> QED
    BY <1>1, <2>1
<1>10. CASE UNCHANGED vars
  BY <1>10 DEF vars, NoPartialReport
<1> QED
  BY <1>3, <1>4, <1>5, <1>6, <1>7, <1>8, <1>9, <1>10 DEF Next, Handle

\* No request is answered with part of a report, whatever the volume takes of a
\* write and whenever the process is restarted (_execute, get_report).
THEOREM ReportsAreWhole == Spec => []NoPartialReport
<1>1. Init => FilesInv /\ NoPartialReport
  BY DEF Init, FilesInv, NoPartialReport, LoopIdle, WorkerIdle, NoReply
<1>2. RegistryInv /\ TypeOK' /\ FilesInv /\ [Next]_vars => FilesInv'
  BY StepFilesInv
<1>3. RegistryInv /\ FilesInv /\ NoPartialReport /\ [Next]_vars => NoPartialReport'
  BY StepNoPartial
<1> QED
  BY <1>1, <1>2, <1>3, RegistryInvariant, TypeCorrect, PTL DEF Spec

-----------------------------------------------------------------------------
(***************************************************************************)
(* Bodies: a finished run has its report, or its body made room for others.*)
(***************************************************************************)
\* MaxHeldInMemory bodies were held after this one.
Dropped(j) == heldAt[j] > 0 /\ holds - heldAt[j] >= MaxHeldInMemory

HasBody(j)   == html[j] \/ Dropped(j)
HasReport(j) == (path[j] /\ report[j] = "whole") \/ HasBody(j)

RanksInv ==
    /\ \A j \in JobId : heldAt[j] <= holds
    /\ \A j \in held : heldAt[j] > 0
    /\ \A i, j \in held : heldAt[i] = heldAt[j] => i = j

LockInv == \A w \in Worker : At(w, "publish") => lock = w

BodyInv ==
    /\ \A w \in Worker : worker[w].at \in {"finish", "publish"} =>
         (worker[w].wrote /\ report[JobOf(w)] = "whole") \/ HasBody(JobOf(w))
    /\ \A j \in Registered : status[j] = "done" =>
         \/ HasReport(j)
         \/ \E w \in Worker : At(w, "publish") /\ JobOf(w) = j

\* Bodies that are held have ranks of their own, so that the oldest of more than
\* MaxHeldInMemory is followed by that many.
LEMMA OldestIsOld ==
  ASSUME TypeOK, RanksInv, NEW w \in Worker, HoldInMemory(w), JobOf(w) \in JobId,
         NEW oldest \in held \cup {JobOf(w)},
         GoesFirst(oldest, held \cup {JobOf(w)}, heldAt'),
         Cardinality(held \cup {JobOf(w)}) > MaxHeldInMemory
  PROVE  heldAt'[oldest] > 0 /\ holds' - heldAt'[oldest] >= MaxHeldInMemory
<1> DEFINE kept == held \cup {JobOf(w)}
           ranks == heldAt'[oldest] .. holds'
           rank == [j \in kept |-> heldAt'[j]]
<1>1. /\ holds' = holds + 1 /\ holds \in Nat /\ heldAt \in [JobId -> Nat]
      /\ heldAt' = [heldAt EXCEPT ![JobOf(w)] = holds + 1]
      /\ held \subseteq JobId
  BY DEF HoldInMemory, TypeOK, RegistryTyped
<1>2. /\ \A j \in kept : heldAt'[j] \in Nat /\ heldAt'[j] > 0 /\ heldAt'[j] <= holds'
      /\ \A i, j \in kept : heldAt'[i] = heldAt'[j] => i = j
  BY <1>1 DEF RanksInv
<1>3. \A j \in kept : heldAt'[oldest] <= heldAt'[j]
  BY DEF GoesFirst
<1>4. rank \in [kept -> ranks]
  <2>1. \A j \in kept : heldAt'[j] \in ranks
    BY <1>1, <1>2, <1>3
  <2> HIDE DEF kept, ranks
  <2> QED
    BY <2>1
<1>5. IsFiniteSet(kept) /\ Cardinality(kept) \in Nat
  <2>1. IsFiniteSet(JobId)
    BY FS_Interval, JobRunnerAssumption DEF JobId, JobRunnerAssumption
  <2>2. kept \in SUBSET JobId
    BY <1>1
  <2> HIDE DEF kept
  <2>3. IsFiniteSet(kept)
    BY <2>1, <2>2, FS_Subset
  <2> QED
    BY <2>3, FS_CardinalityType
<1>6. IsFiniteSet(ranks) /\ Cardinality(ranks) = holds' - heldAt'[oldest] + 1
  <2> DEFINE a == heldAt'[oldest]
             b == holds'
  <2>1. a \in Int /\ b \in Int /\ a <= b
    BY <1>1, <1>2
  <2> HIDE DEF a, b
  <2>2. IsFiniteSet(a .. b) /\ Cardinality(a .. b) = IF a > b THEN 0 ELSE b - a + 1
    BY <2>1, FS_Interval
  <2>3. Cardinality(a .. b) = b - a + 1
    BY <2>1, <2>2
  <2> QED
    BY <2>2, <2>3 DEF a, b
<1>7. Cardinality(kept) <= Cardinality(ranks)
  <2> SUFFICES ASSUME Cardinality(ranks) < Cardinality(kept) PROVE FALSE
    BY <1>1, <1>2, <1>5, <1>6
  <2>1. \E i, j \in kept : i # j /\ rank[i] = rank[j]
    <3> HIDE DEF kept, ranks, rank
    <3> QED
      BY <1>4, <1>5, <1>6, FS_PigeonHole
  <2> QED
    BY <1>2, <2>1
<1> QED
  BY <1>1, <1>2, <1>5, <1>6, <1>7, JobRunnerAssumption DEF JobRunnerAssumption

\* Holding a body takes another from its run only when that one may go
\* (_hold_in_memory).
LEMMA HoldKeepsBodies ==
  ASSUME TypeOK, RanksInv, NEW w \in Worker, HoldInMemory(w), JobOf(w) \in JobId
  PROVE  /\ RanksInv'
         /\ \A j \in JobId : (HasBody(j) \/ j = JobOf(w)) => HasBody(j)'
<1> DEFINE kept == held \cup {JobOf(w)}
<1>1. /\ holds' = holds + 1 /\ holds \in Nat /\ heldAt \in [JobId -> Nat]
      /\ heldAt' = [heldAt EXCEPT ![JobOf(w)] = holds + 1]
      /\ held \subseteq JobId /\ html \in [JobId -> BOOLEAN]
  BY DEF HoldInMemory, TypeOK, RegistryTyped, JobsTyped
<1>2. PICK oldest \in kept :
        /\ GoesFirst(oldest, kept, heldAt')
        /\ IF Cardinality(kept) > MaxHeldInMemory
           THEN /\ held' = kept \ {oldest}
                /\ html' = [i \in JobId |-> /\ i # oldest
                                            /\ html[i] \/ i = JobOf(w)]
           ELSE /\ held' = kept
                /\ html' = [html EXCEPT ![JobOf(w)] = TRUE]
  BY DEF HoldInMemory
<1>3. held' \subseteq kept
  BY <1>2
<1>4. RanksInv'
  BY <1>1, <1>3 DEF RanksInv
<1>5. Cardinality(kept) > MaxHeldInMemory => Dropped(oldest)'
  BY <1>2, OldestIsOld DEF Dropped
<1>6. MaxHeldInMemory \in Nat
  BY JobRunnerAssumption DEF JobRunnerAssumption
<1>7. \A j \in JobId \ {JobOf(w)} : Dropped(j) => Dropped(j)'
  BY <1>1, <1>6 DEF Dropped
<1>8. \A j \in JobId : html[j] \/ j = JobOf(w) => html'[j] \/ Dropped(j)'
  BY <1>1, <1>2, <1>5
<1> QED
  BY <1>4, <1>7, <1>8 DEF HasBody

\* The lock is held between two steps by a thread that publishes only.
LEMMA StepLockInv ==
  ASSUME TypeOK, LockInv, [Next]_vars PROVE LockInv'
<1> USE DEF LockInv, At
<1>1. ASSUME NEW w \in Worker, Execute(w) PROVE LockInv'
  <2>1. \A v \in Worker \ {w} : worker'[v] = worker[v]
    BY <1>1 DEF Execute, Take, Start, Progress, Rendered, RenderRaises, Write,
                WriteRefused, HoldInMemory, Finish, Publish, Fail, Goto, TypeOK, PoolTyped
  <2>2. CASE Finish(w)
    BY <2>1, <2>2, JobRunnerAssumption
    DEF Finish, LockIsFree, JobRunnerAssumption
  <2>3. CASE Publish(w)
    BY <2>1, <2>3 DEF Publish, WorkerIdle, TypeOK, PoolTyped
  <2>4. CASE ~Finish(w) /\ ~Publish(w)
    <3>1. lock' = lock
      BY <1>1, <2>4 DEF Execute, Take, Start, Progress, Rendered, RenderRaises, Write,
                        WriteRefused, HoldInMemory, Fail
    <3>2. worker'[w].at # "publish"
      BY <1>1, <2>4 DEF Execute, Take, Start, Progress, Rendered, RenderRaises, Write,
                        WriteRefused, HoldInMemory, Fail, Goto, WorkerIdle, TypeOK, PoolTyped
    <3> QED
      BY <2>1, <3>1, <3>2
  <2> QED
    BY <2>2, <2>3, <2>4
<1>2. CASE Restart
  BY <1>2 DEF Restart, WorkerIdle
<1>3. CASE UNCHANGED <<worker, lock>>
  BY <1>3
<1>4. CASE Request \/ Handle \/ Shutdown \/ UNCHANGED vars
  BY <1>3, <1>4
  DEF Request, Join, Register, GetRun, GetReport, LookUp, Handle, HandOff, AnswerPoll,
      ReadPath, ReadStatus, ReadHtml, AnswerReport, SendFile, ReadUntouched, Shutdown, vars
<1> QED
  BY <1>1, <1>2, <1>4 DEF Next

LEMMA StepRanksInv ==
  ASSUME RegistryInv, RanksInv, [Next]_vars PROVE RanksInv'
<1>1. CASE UNCHANGED heldVars
  BY <1>1 DEF RanksInv, heldVars
<1>2. ASSUME NEW w \in Worker, HoldInMemory(w) PROVE RanksInv'
  BY <1>2, HoldKeepsBodies DEF HoldInMemory, At, RegistryInv, TypeOK, PoolTyped
<1>3. ASSUME NEW k \in Key, Register(k) PROVE RanksInv'
  BY <1>3 DEF Register, HeldWithout, RanksInv
<1>4. CASE Restart
  BY <1>4 DEF Restart, RanksInv
<1>5. ASSUME NEW w \in Worker, Execute(w), ~HoldInMemory(w) PROVE UNCHANGED heldVars
  BY <1>5 DEF Execute, Take, Start, Progress, Rendered, RenderRaises, Write,
              WriteRefused, Finish, Publish, Fail
<1>6. ASSUME \/ \E k \in Key : Join(k)
             \/ \E id \in JobId : GetRun(id) \/ GetReport(id)
             \/ Handle \/ Shutdown \/ UNCHANGED vars
      PROVE  UNCHANGED heldVars
  BY <1>6
  DEF Join, GetRun, GetReport, LookUp, Handle, HandOff, AnswerPoll, ReadPath, ReadStatus,
      ReadHtml, AnswerReport, SendFile, ReadUntouched, Shutdown, vars
<1> QED
  BY <1>1, <1>2, <1>3, <1>4, <1>5, <1>6 DEF Next, Request

\* Jobs that stay registered are not evicted.
LEMMA NotEvicted ==
  ASSUME RegistryInv, NEW k \in Key, Register(k), NEW j \in JobId, j \in Registered'
  PROVE  html'[j] = html[j] /\ report'[j] = report[j]
<1>1. PICK f \in first .. last + 1 :
        /\ first' = f
        /\ html' = [i \in JobId |-> html[i] /\ i \notin first .. f-1]
        /\ \E gone \in Unlinked(first .. f-1) :
             report' = [i \in JobId |-> IF i \in gone THEN "none" ELSE report[i]]
  BY DEF Register
<1>2. j \notin first .. f-1
  BY <1>1 DEF Registered, RegistryInv, TypeOK, RegistryTyped, JobId
<1>3. PICK gone \in Unlinked(first .. f-1) :
        report' = [i \in JobId |-> IF i \in gone THEN "none" ELSE report[i]]
  BY <1>1
<1>4. gone \subseteq first .. f-1
  BY <1>3 DEF Unlinked
<1> QED
  BY <1>1, <1>2, <1>3, <1>4 DEF RegistryInv, TypeOK, JobsTyped

\* A body stays where it is, unless its job is evicted or it makes room.
LEMMA BodyStays ==
  ASSUME RegistryInv, RanksInv, [Next]_vars, ~Restart, NEW j \in JobId, HasBody(j),
         \A k \in Key : Register(k) => j \in Registered'
  PROVE  HasBody(j)'
<1>1. CASE UNCHANGED <<html, heldVars>>
  BY <1>1 DEF HasBody, Dropped, heldVars
<1>2. ASSUME NEW w \in Worker, HoldInMemory(w) PROVE HasBody(j)'
  BY <1>2, HoldKeepsBodies DEF HoldInMemory, At, RegistryInv, TypeOK, PoolTyped
<1>3. ASSUME NEW k \in Key, Register(k) PROVE HasBody(j)'
  <2>1. html'[j] = html[j]
    BY <1>3, NotEvicted
  <2>2. UNCHANGED <<heldAt, holds>>
    BY <1>3 DEF Register
  <2> QED
    BY <2>1, <2>2 DEF HasBody, Dropped
<1>4. ASSUME NEW w \in Worker, Execute(w), ~HoldInMemory(w)
      PROVE  UNCHANGED <<html, heldVars>>
  BY <1>4 DEF Execute, Take, Start, Progress, Rendered, RenderRaises, Write,
              WriteRefused, Finish, Publish, Fail, jobVars
<1>5. ASSUME \/ \E k \in Key : Join(k)
             \/ \E id \in JobId : GetRun(id) \/ GetReport(id)
             \/ Handle \/ Shutdown \/ UNCHANGED vars
      PROVE  UNCHANGED <<html, heldVars>>
  BY <1>5
  DEF Join, GetRun, GetReport, LookUp, Handle, HandOff, AnswerPoll, ReadPath, ReadStatus,
      ReadHtml, AnswerReport, SendFile, ReadUntouched, Shutdown, vars, jobVars
<1> QED
  BY <1>1, <1>2, <1>3, <1>4, <1>5 DEF Next, Request

\* A whole file stays whole, unless its job is evicted.
LEMMA FileStays ==
  ASSUME RegistryInv, [Next]_vars, ~Restart, NEW j \in JobId, report[j] = "whole",
         \A k \in Key : Register(k) => j \in Registered',
         \A w \in Worker : At(w, "write") => JobOf(w) # j
  PROVE  report'[j] = "whole"
<1>1. ASSUME NEW k \in Key, Register(k) PROVE report'[j] = "whole"
  BY <1>1, NotEvicted
<1>2. ASSUME NEW w \in Worker, Execute(w) PROVE report'[j] = "whole"
  <2>1. CASE Write(w) \/ WriteRefused(w)
    BY <2>1 DEF Write, WriteRefused, RegistryInv, TypeOK, JobsTyped
  <2>2. CASE ~Write(w) /\ ~WriteRefused(w)
    BY <1>2, <2>2 DEF Execute, Take, Start, Progress, Rendered, RenderRaises,
                      HoldInMemory, Finish, Publish, Fail
  <2> QED
    BY <2>1, <2>2
<1>3. ASSUME \/ \E k \in Key : Join(k)
             \/ \E id \in JobId : GetRun(id) \/ GetReport(id)
             \/ Handle \/ Shutdown \/ UNCHANGED vars
      PROVE  report' = report
  BY <1>3
  DEF Join, GetRun, GetReport, LookUp, Handle, HandOff, AnswerPoll, ReadPath, ReadStatus,
      ReadHtml, AnswerReport, SendFile, ReadUntouched, Shutdown, vars
<1> QED
  BY <1>1, <1>2, <1>3 DEF Next, Request

\* What a thread at the end of its job has to show for it, across a step of others.
LEMMA OthersLeaveBodies ==
  ASSUME RegistryInv, RegistryInv', RanksInv, LockInv, [Next]_vars, ~Restart,
         NEW w \in Worker, worker[w].at \in {"finish", "publish"}, worker'[w] = worker[w],
         (worker[w].wrote /\ report[JobOf(w)] = "whole") \/ HasBody(JobOf(w))
  PROVE  (worker[w].wrote /\ report'[JobOf(w)] = "whole")
             \/ html'[JobOf(w)] \/ (heldAt'[JobOf(w)] > 0
                                    /\ holds' - heldAt'[JobOf(w)] >= MaxHeldInMemory)
<1> DEFINE j == JobOf(w)
<1>1. j \in JobId
  BY DEF RegistryInv, TypeOK, PoolTyped, At
<1>2. ASSUME NEW k \in Key, Register(k) PROVE j \in Registered'
  <2>1. ~At(w, "publish")
    BY <1>2, JobRunnerAssumption DEF LockInv, Register, LockIsFree, JobRunnerAssumption
  <2>2. worker'[w].at = "finish" /\ worker'[w].job = j
    BY <2>1 DEF At, JobOf
  <2>3. status'[j] = "running"
    BY <2>2 DEF RegistryInv, InOneHand, WorkedOnce, JobOf
  <2> QED
    BY <1>1, <2>3 DEF RegistryInv, LiveIsKept, Live
<1>3. \A v \in Worker : At(v, "write") => JobOf(v) # j
  BY DEF RegistryInv, InOneHand, WorkedOnce, At
<1>4. report[j] = "whole" => report'[j] = "whole"
  BY <1>1, <1>2, <1>3, FileStays
<1>5. HasBody(j) => html'[j] \/ (heldAt'[j] > 0 /\ holds' - heldAt'[j] >= MaxHeldInMemory)
  <2> HIDE DEF j
  <2>1. ASSUME NEW i \in JobId, i = j, HasBody(i) PROVE HasBody(i)'
    BY <1>2, <2>1, BodyStays
  <2> QED
    BY <1>1, <2>1 DEF HasBody, Dropped
<1> QED
  BY <1>4, <1>5

\* A thread that comes to the end of its job has written the report or has held its body.
LEMMA EndsWithBody ==
  ASSUME RegistryInv, RegistryInv', RanksInv, LockInv, BodyInv, [Next]_vars,
         NEW w \in Worker, worker'[w].at \in {"finish", "publish"}
  PROVE  (worker'[w].wrote /\ report'[JobOf(w)'] = "whole") \/ HasBody(JobOf(w))'
<1>1. ~Restart
  BY DEF Restart, WorkerIdle
<1>2. worker \in [Worker -> [at : {"idle", "start", "render", "write", "hold", "finish",
                                   "publish", "fail"},
                             job : JobId \cup {NoJob}, wrote : BOOLEAN]]
      /\ (~At(w, "idle") => JobOf(w) \in JobId) /\ report \in [JobId -> {"none", "partial", "whole"}]
  BY DEF RegistryInv, TypeOK, PoolTyped, JobsTyped
<1>3. CASE worker'[w] = worker[w]
  <2>1. worker[w].at \in {"finish", "publish"} /\ JobOf(w)' = JobOf(w)
    BY <1>3 DEF JobOf
  <2>2. (worker[w].wrote /\ report[JobOf(w)] = "whole") \/ HasBody(JobOf(w))
    BY <2>1 DEF BodyInv
  <2> QED
    BY <1>1, <1>3, <2>1, <2>2, OthersLeaveBodies DEF HasBody, Dropped
<1>4. CASE worker'[w] # worker[w]
  <2>1. PICK v \in Worker : Execute(v)
    <3>1. worker' # worker
      BY <1>4
    <3> QED
      BY <1>1, <3>1
      DEF Next, Request, Join, Register, GetRun, GetReport, LookUp, Handle, HandOff,
          AnswerPoll, ReadPath, ReadStatus, ReadHtml, AnswerReport, SendFile,
          ReadUntouched, Shutdown, vars
  <2>2. v = w
    BY <1>2, <1>4, <2>1
    DEF Execute, Take, Start, Progress, Rendered, RenderRaises, Write, WriteRefused,
        HoldInMemory, Finish, Publish, Fail, Goto
  <2>3. CASE Write(w)
    BY <1>2, <2>3 DEF Write, At, JobOf
  <2>4. CASE HoldInMemory(w)
    <3>1. JobOf(w) \in JobId /\ JobOf(w)' = JobOf(w)
      BY <1>2, <2>4 DEF HoldInMemory, At, Goto, JobOf
    <3>2. TypeOK /\ \A j \in JobId : (HasBody(j) \/ j = JobOf(w)) => HasBody(j)'
      BY <2>4, <3>1, HoldKeepsBodies DEF RegistryInv
    <3> QED
      BY <3>1, <3>2 DEF HasBody, Dropped
  <2>5. CASE Finish(w)
    <3>1. /\ JobOf(w)' = JobOf(w) /\ worker'[w].wrote = worker[w].wrote
          /\ worker[w].at = "finish" /\ UNCHANGED <<report, html, heldAt, holds>>
      BY <1>2, <2>5 DEF Finish, At, Goto, JobOf, heldVars
    <3> QED
      BY <3>1 DEF BodyInv, HasBody, Dropped
  <2>6. CASE ~Write(w) /\ ~HoldInMemory(w) /\ ~Finish(w)
    BY <1>2, <1>4, <2>1, <2>2, <2>6
    DEF Execute, Take, Start, Progress, Rendered, RenderRaises, WriteRefused, Publish,
        Fail, Goto, At, WorkerIdle
  <2> QED
    BY <2>3, <2>4, <2>5, <2>6
<1> QED
  BY <1>3, <1>4

\* A job that is done was done before, and kept its place in the registry, or is
\* being published.
LEMMA DoneBefore ==
  ASSUME RegistryInv, [Next]_vars, ~Restart, NEW j \in Registered', status'[j] = "done"
  PROVE  /\ j \in JobId
         /\ \/ j \in Registered /\ status[j] = "done"
            \/ \E w \in Worker : At(w, "publish")' /\ JobOf(w)' = j
<1> USE DEF RegistryInv, TypeOK, JobsTyped
<1>1. CASE UNCHANGED <<status, first, last>>
  BY <1>1, RegisteredJobs DEF Registered
<1>2. ASSUME NEW k \in Key, Register(k)
      PROVE  j \in JobId /\ j \in Registered /\ status[j] = "done"
  <2>1. /\ last' = last + 1 /\ last < MaxJobs /\ first' \in first .. last + 1
        /\ status' = [status EXCEPT ![last + 1] = "queued"]
    BY <1>2 DEF Register
  <2>2. first \in Nat \ {0} /\ last \in Nat
    BY DEF RegistryTyped
  <2>3. j \in JobId /\ j \in first .. last + 1
    BY <2>1, <2>2, JobRunnerAssumption DEF Registered, JobId, JobRunnerAssumption
  <2>4. j # last + 1
    BY <2>1, <2>3
  <2> QED
    BY <2>1, <2>2, <2>3, <2>4 DEF Registered
<1>3. ASSUME NEW w \in Worker, Finish(w)
      PROVE  j \in JobId /\ (\/ j \in Registered /\ status[j] = "done"
                             \/ At(w, "publish")' /\ JobOf(w)' = j)
  <2>1. Registered' = Registered /\ j \in JobId
    BY <1>3, RegisteredJobs DEF Finish, PoolUntouched, registry, Registered
  <2>2. worker'[w].at = "publish" /\ worker'[w].job = JobOf(w)
    BY <1>3 DEF Finish, Goto, JobOf, PoolTyped
  <2>3. j # JobOf(w) => status[j] = "done"
    BY <1>3, <2>1 DEF Finish
  <2> QED
    BY <2>1, <2>2, <2>3 DEF At, JobOf
<1>4. ASSUME NEW w \in Worker, Start(w) \/ Fail(w)
      PROVE  j \in JobId /\ j \in Registered /\ status[j] = "done"
  <2>1. Registered' = Registered /\ j \in JobId
    BY <1>4, RegisteredJobs DEF Start, Fail, PoolUntouched, registry, Registered
  <2> QED
    BY <1>4, <2>1 DEF Start, Fail
<1>5. ASSUME NEW w \in Worker, Execute(w), ~Finish(w), ~Start(w), ~Fail(w)
      PROVE  UNCHANGED <<status, first, last>>
  BY <1>5 DEF Execute, Take, Progress, Rendered, RenderRaises, Write, WriteRefused,
              HoldInMemory, Publish, PoolUntouched, registry, jobVars
<1>6. ASSUME \/ \E k \in Key : Join(k)
             \/ \E id \in JobId : GetRun(id) \/ GetReport(id)
             \/ Handle \/ Shutdown \/ UNCHANGED vars
      PROVE  UNCHANGED <<status, first, last>>
  BY <1>6
  DEF Join, GetRun, GetReport, LookUp, Handle, HandOff, AnswerPoll, ReadPath, ReadStatus,
      ReadHtml, AnswerReport, SendFile, ReadUntouched, Shutdown, vars, jobVars, registry
<1> QED
  BY <1>1, <1>2, <1>3, <1>4, <1>5, <1>6 DEF Next, Request

\* A job that is done keeps its report, or is being published.
LEMMA DoneKeeps ==
  ASSUME RegistryInv, RanksInv, LockInv, BodyInv, [Next]_vars, ~Restart,
         NEW j \in JobId, j \in Registered, j \in Registered', status[j] = "done"
  PROVE  HasReport(j)' \/ \E w \in Worker : At(w, "publish")' /\ JobOf(w)' = j
<1>1. HasBody(j) => HasBody(j)'
  <2> SUFFICES ASSUME HasBody(j) PROVE HasBody(j)'
    OBVIOUS
  <2> QED
    BY BodyStays
<1>2. \A w \in Worker : At(w, "write") => JobOf(w) # j
  BY DEF RegistryInv, InOneHand, WorkedOnce, At
<1>3. report[j] = "whole" => report'[j] = "whole"
  BY <1>2, FileStays
<1>4. path \in [JobId -> BOOLEAN] /\ TypeOK
      /\ \A w \in Worker : ~At(w, "idle") => JobOf(w) \in JobId
  BY DEF RegistryInv, TypeOK, JobsTyped, PoolTyped
<1>5. ASSUME NEW w \in Worker, Publish(w) PROVE HasReport(j)'
                      \/ \E v \in Worker : At(v, "publish")' /\ JobOf(v)' = j
  <2>1. path' = [path EXCEPT ![JobOf(w)] = worker[w].wrote] /\ At(w, "publish")
    BY <1>5 DEF Publish, OnVolume
  <2>2. CASE JobOf(w) = j
    <3>1. (worker[w].wrote /\ report[j] = "whole") \/ HasBody(j)
      <4>1. (worker[w].wrote /\ report[JobOf(w)] = "whole") \/ HasBody(JobOf(w))
        BY <2>1 DEF BodyInv, At
      <4> QED
        BY <2>2, <4>1 DEF HasBody, Dropped
    <3> QED
      BY <1>1, <1>3, <1>4, <2>1, <2>2, <3>1 DEF HasReport
  <2>3. CASE JobOf(w) # j
    <3>1. path'[j] = path[j]
      BY <1>4, <2>1, <2>3
    <3>2. HasReport(j) \/ \E v \in Worker : At(v, "publish") /\ JobOf(v) = j
      BY DEF BodyInv
    <3>3. \A v \in Worker : At(v, "publish") => v = w
      BY <2>1 DEF LockInv
    <3>4. HasReport(j)
      BY <2>3, <3>2, <3>3
    <3> QED
      BY <1>1, <1>3, <3>1, <3>4 DEF HasReport
  <2> QED
    BY <2>2, <2>3
<1>6. CASE ~ \E w \in Worker : Publish(w)
  <2>1. path' = path
    BY <1>6
    DEF Next, Request, Join, Register, GetRun, GetReport, LookUp, Handle, HandOff,
        AnswerPoll, ReadPath, ReadStatus, ReadHtml, AnswerReport, SendFile,
        ReadUntouched, Execute, Take, Start, Progress, Rendered, RenderRaises, Write,
        WriteRefused, HoldInMemory, Finish, Fail, Shutdown, vars, jobVars
  <2>2. CASE HasReport(j)
    BY <1>1, <1>3, <2>1, <2>2 DEF HasReport
  <2>3. ASSUME NEW w \in Worker, At(w, "publish"), JobOf(w) = j
        PROVE  At(w, "publish")' /\ JobOf(w)' = j
    <3>1. worker'[w] = worker[w]
      <4>1. ASSUME NEW v \in Worker, Execute(v) PROVE worker'[w] = worker[w]
        <5>1. v # w
          BY <1>6, <2>3, <4>1
          DEF Execute, Take, Start, Progress, Rendered, RenderRaises, Write, WriteRefused,
              HoldInMemory, Finish, Fail, At
        <5> QED
          BY <1>4, <4>1, <5>1
          DEF Execute, Take, Start, Progress, Rendered, RenderRaises, Write, WriteRefused,
              HoldInMemory, Finish, Publish, Fail, Goto, TypeOK, PoolTyped
      <4> QED
        BY <4>1
        DEF Next, Request, Join, Register, GetRun, GetReport, LookUp, Handle, HandOff,
            AnswerPoll, ReadPath, ReadStatus, ReadHtml, AnswerReport, SendFile,
            ReadUntouched, Shutdown, vars
    <3> QED
      BY <2>3, <3>1 DEF At, JobOf
  <2> QED
    BY <2>2, <2>3 DEF BodyInv
<1> QED
  BY <1>5, <1>6

LEMMA StepBodyInv ==
  ASSUME RegistryInv, RegistryInv', RanksInv, LockInv, BodyInv, [Next]_vars
  PROVE  BodyInv'
<1>1. \A w \in Worker : worker'[w].at \in {"finish", "publish"} =>
        (worker'[w].wrote /\ report'[JobOf(w)'] = "whole") \/ HasBody(JobOf(w))'
  BY EndsWithBody
<1>2. CASE Restart
  <2>1. Registered' = {}
    BY <1>2 DEF Restart, Registered, RegistryInv, TypeOK, RegistryTyped
  <2> QED
    BY <1>1, <2>1 DEF BodyInv
<1>3. CASE ~Restart
  <2>1. ASSUME NEW j \in Registered', status'[j] = "done"
        PROVE  HasReport(j)' \/ \E w \in Worker : At(w, "publish")' /\ JobOf(w)' = j
    BY <1>3, <2>1, DoneBefore, DoneKeeps
  <2> QED
    BY <1>1, <2>1 DEF BodyInv
<1> QED
  BY <1>2, <1>3

\* A run that is done has its report on the volume or in memory, unless
\* MaxHeldInMemory newer bodies were held: for any number of threads and jobs, and
\* whatever the volume refuses (_execute, _hold_in_memory, _evict_locked).
THEOREM DoneRunsHaveReports == Spec => []DoneHasReport
<1>1. Init => RanksInv /\ LockInv /\ BodyInv
  BY DEF Init, RanksInv, LockInv, BodyInv, Registered, WorkerIdle, At
<1>2. RegistryInv /\ RanksInv /\ [Next]_vars => RanksInv'
  BY StepRanksInv
<1>3. RegistryInv /\ LockInv /\ [Next]_vars => LockInv'
  BY StepLockInv DEF RegistryInv
<1>4. RegistryInv /\ RegistryInv' /\ RanksInv /\ LockInv /\ BodyInv /\ [Next]_vars => BodyInv'
  BY StepBodyInv
<1>5. LockInv /\ BodyInv => DoneHasReport
  <2> SUFFICES ASSUME LockInv, BodyInv, lock = None, NEW j \in Registered, status[j] = "done"
               PROVE  \/ path[j] /\ report[j] = "whole"
                      \/ html[j]
                      \/ heldAt[j] > 0 /\ holds - heldAt[j] >= MaxHeldInMemory
    BY DEF DoneHasReport
  <2>1. \A w \in Worker : ~At(w, "publish")
    BY JobRunnerAssumption DEF LockInv, JobRunnerAssumption
  <2> QED
    BY <2>1 DEF BodyInv, HasReport, HasBody, Dropped
<1> QED
  BY <1>1, <1>2, <1>3, <1>4, <1>5, RegistryInvariant, PTL DEF Spec

\* Holding one body more drops one, so that the bodies stay as few as they were
\* meant to be: the loop of the code never has to drop a second one
\* (_hold_in_memory).
LEMMA HoldKeepsFew ==
  ASSUME TypeOK, BodiesAreFew, NEW w \in Worker, HoldInMemory(w), JobOf(w) \in JobId
  PROVE  BodiesAreFew'
<1> DEFINE kept == held \cup {JobOf(w)}
<1>1. /\ held \subseteq JobId /\ html \in [JobId -> BOOLEAN]
      /\ Cardinality(held) <= MaxHeldInMemory /\ MaxHeldInMemory \in Nat
      /\ \A j \in JobId : html[j] => j \in held
  BY JobRunnerAssumption DEF TypeOK, RegistryTyped, JobsTyped, BodiesAreFew, JobRunnerAssumption
<1>2. PICK oldest \in kept :
        IF Cardinality(kept) > MaxHeldInMemory
        THEN /\ held' = kept \ {oldest}
             /\ html' = [i \in JobId |-> i # oldest /\ (html[i] \/ i = JobOf(w))]
        ELSE /\ held' = kept
             /\ html' = [html EXCEPT ![JobOf(w)] = TRUE]
  BY DEF HoldInMemory
<1>3. IsFiniteSet(held) /\ IsFiniteSet(kept) /\ Cardinality(held) \in Nat
      /\ Cardinality(kept) \in Nat
  <2>1. IsFiniteSet(JobId)
    BY FS_Interval, JobRunnerAssumption DEF JobId, JobRunnerAssumption
  <2>2. IsFiniteSet(held)
    BY <1>1, <2>1, FS_Subset
  <2>3. IsFiniteSet(kept)
    BY <2>2, FS_AddElement
  <2> QED
    BY <2>2, <2>3, FS_CardinalityType
<1>4. Cardinality(kept) <= Cardinality(held) + 1
  BY <1>3, FS_AddElement
<1>5. Cardinality(held') <= MaxHeldInMemory
  <2>1. CASE Cardinality(kept) > MaxHeldInMemory
    <3>1. Cardinality(kept \ {oldest}) = Cardinality(kept) - 1
      BY <1>3, FS_RemoveElement
    <3>2. held' = kept \ {oldest}
      BY <1>2, <2>1
    <3> DEFINE n == Cardinality(kept)
               m == Cardinality(held)
    <3>3. n - 1 <= MaxHeldInMemory
      <4>1. n \in Nat /\ m \in Nat /\ n <= m + 1 /\ m <= MaxHeldInMemory
        BY <1>1, <1>3, <1>4
      <4> HIDE DEF n, m
      <4> QED
        BY <1>1, <4>1
    <3> QED
      BY <3>1, <3>2, <3>3
  <2>2. CASE ~(Cardinality(kept) > MaxHeldInMemory)
    <3> HIDE DEF kept
    <3> QED
      BY <1>1, <1>2, <1>3, <2>2
  <2> QED
    BY <2>1, <2>2
<1>6. \A j \in JobId : html'[j] => j \in held'
  BY <1>1, <1>2
<1> QED
  BY <1>5, <1>6 DEF BodiesAreFew

LEMMA StepBodiesAreFew ==
  ASSUME RegistryInv, BodiesAreFew, [Next]_vars PROVE BodiesAreFew'
<1>1. CASE UNCHANGED <<html, held>>
  BY <1>1 DEF BodiesAreFew
<1>2. ASSUME NEW w \in Worker, HoldInMemory(w) PROVE BodiesAreFew'
  BY <1>2, HoldKeepsFew DEF HoldInMemory, At, RegistryInv, TypeOK, PoolTyped
<1>3. ASSUME NEW k \in Key, Register(k) PROVE BodiesAreFew'
  <2>1. PICK f \in first .. last + 1 :
          /\ held' = held \ (first .. f-1)
          /\ html' = [j \in JobId |-> html[j] /\ j \notin first .. f-1]
    BY <1>3 DEF Register, HeldWithout
  <2>2. IsFiniteSet(held)
    <3>1. IsFiniteSet(JobId) /\ held \subseteq JobId
      BY FS_Interval, JobRunnerAssumption
      DEF JobId, JobRunnerAssumption, RegistryInv, TypeOK, RegistryTyped
    <3> QED
      BY <3>1, FS_Subset
  <2>3. /\ Cardinality(held') <= Cardinality(held)
        /\ Cardinality(held') \in Nat /\ Cardinality(held) \in Nat
    BY <2>1, <2>2, FS_Subset, FS_CardinalityType
  <2>4. Cardinality(held') <= MaxHeldInMemory
    BY <2>3, JobRunnerAssumption DEF BodiesAreFew, JobRunnerAssumption
  <2>5. \A j \in JobId : html'[j] => j \in held'
    BY <2>1 DEF BodiesAreFew
  <2> QED
    BY <2>4, <2>5 DEF BodiesAreFew
<1>4. CASE Restart
  <2>1. Cardinality({}) = 0
    BY FS_EmptySet
  <2> QED
    BY <1>4, <2>1, JobRunnerAssumption DEF Restart, BodiesAreFew, JobRunnerAssumption
<1>5. ASSUME NEW w \in Worker, Execute(w), ~HoldInMemory(w) PROVE UNCHANGED <<html, held>>
  BY <1>5 DEF Execute, Take, Start, Progress, Rendered, RenderRaises, Write,
              WriteRefused, Finish, Publish, Fail, heldVars, jobVars
<1>6. ASSUME \/ \E k \in Key : Join(k)
             \/ \E id \in JobId : GetRun(id) \/ GetReport(id)
             \/ Handle \/ Shutdown \/ UNCHANGED vars
      PROVE  UNCHANGED <<html, held>>
  BY <1>6
  DEF Join, GetRun, GetReport, LookUp, Handle, HandOff, AnswerPoll, ReadPath, ReadStatus,
      ReadHtml, AnswerReport, SendFile, ReadUntouched, Shutdown, vars, jobVars, heldVars
<1> QED
  BY <1>1, <1>2, <1>3, <1>4, <1>5, <1>6 DEF Next, Request

\* Never more than MaxHeldInMemory bodies are in memory, and none outlives its run
\* (jobs.py: _hold_in_memory, _evict_locked).
THEOREM FewBodiesInMemory == Spec => []BodiesAreFew
<1>1. Init => BodiesAreFew
  <2>1. Cardinality({}) = 0
    BY FS_EmptySet
  <2> QED
    BY <2>1, JobRunnerAssumption DEF Init, BodiesAreFew, JobRunnerAssumption
<1>2. RegistryInv /\ BodiesAreFew /\ [Next]_vars => BodiesAreFew'
  BY StepBodiesAreFew
<1> QED
  BY <1>1, <1>2, RegistryInvariant, PTL DEF Spec

-----------------------------------------------------------------------------
(***************************************************************************)
(* Refinement: the runner implements SharedRender, with the run of a key   *)
(* read off byKey.                                                         *)
(***************************************************************************)
Finished == [k \in Key |-> byKey[k] # NoJob /\ status[byKey[k]] = "done"]

\* A step that leaves the keys and the finished jobs alone is a stutter.
LEMMA SharedStutters ==
  ASSUME TypeOK, UNCHANGED <<byKey, last>>,
         \A k \in Key : byKey[k] # NoJob =>
            (status'[byKey[k]] = "done" <=> status[byKey[k]] = "done")
  PROVE  UNCHANGED Shared!vars
<1>1. Finished' = Finished
  BY DEF Finished
<1> QED
  BY <1>1 DEF Shared!vars, Finished

\* Registering a job starts a render of its key, and forgets the finished
\* renders of the keys evicted with it.
LEMMA RegisterRefines ==
  ASSUME RegistryInv, NEW k \in Key, Register(k)
  PROVE  Shared!Start(k)
<1> DEFINE id == last + 1
           st == [status EXCEPT ![id] = "queued"]
<1>1. /\ last < MaxJobs /\ ~Joins(k) /\ last' = id /\ status' = st
  BY DEF Register
<1>2. PICK f \in first .. id :
        /\ TrimsTo(f, first, id, st)
        /\ byKey' = [x \in Key |-> IF x = k THEN id
                                   ELSE IF byKey[x] \in first .. f-1 THEN NoJob
                                   ELSE byKey[x]]
  BY DEF Register
<1>3. /\ id \in JobId /\ first \in Nat \ {0} /\ last \in Nat
      /\ \A j \in JobId : j # id => status'[j] = status[j]
      /\ status'[id] = "queued"
      /\ byKey \in [Key -> JobId \cup {NoJob}]
  BY <1>1, JobRunnerAssumption
  DEF RegistryInv, TypeOK, RegistryTyped, JobsTyped, JobRunnerAssumption
<1>4. \A x \in Key : byKey[x] # NoJob =>
         byKey[x] \in first .. last /\ status[byKey[x]] \in Joinable
  BY DEF RegistryInv, KeysLeadToJoinable, Registered
<1>5. byKey[k] = NoJob
  BY <1>1, <1>4 DEF Joins, Registered
<1> DEFINE forgotten == {x \in Key : byKey[x] \in first .. f-1}
<1>6. \A x \in forgotten : Finished[x] /\ x # k
  <2> SUFFICES ASSUME NEW x \in forgotten PROVE Finished[x] /\ x # k
    OBVIOUS
  <2>1. /\ byKey[x] \in first .. f-1 /\ byKey[x] # NoJob
        /\ byKey[x] \in JobId /\ byKey[x] \in first .. last
    BY <1>2, <1>3, <1>4
  <2>2. st[byKey[x]] \notin Live
    BY <1>2, <2>1 DEF TrimsTo
  <2>3. st[byKey[x]] = status[byKey[x]]
    BY <1>1, <1>3, <2>1
  <2>4. status[byKey[x]] = "done"
    BY <1>4, <2>1, <2>2, <2>3 DEF Joinable
  <2> QED
    BY <1>5, <2>1, <2>4 DEF Finished
<1>7. forgotten \in SUBSET {x \in Key : Finished[x]}
  BY <1>6
<1>8. byKey' = [x \in Key |-> IF x = k THEN last'
                              ELSE IF x \in forgotten THEN 0 ELSE byKey[x]]
  BY <1>1, <1>2
<1>9. Finished' = [x \in Key |-> Finished[x] /\ x \notin forgotten]
  <2> SUFFICES ASSUME NEW x \in Key
               PROVE  (byKey'[x] # NoJob /\ status'[byKey'[x]] = "done")
                        <=> (Finished[x] /\ x \notin forgotten)
    BY Zenon DEF Finished
  <2>1. CASE x = k
    <3>1. byKey'[x] = id
      BY <1>2, <2>1
    <3> QED
      BY <1>3, <1>5, <2>1, <3>1 DEF Finished
  <2>2. CASE x # k /\ x \in forgotten
    <3>1. byKey'[x] = NoJob
      BY <1>2, <2>2
    <3> QED
      BY <2>2, <3>1
  <2>3. CASE x # k /\ x \notin forgotten
    <3>1. byKey'[x] = byKey[x]
      BY <1>2, <2>3
    <3>2. byKey[x] # NoJob => status'[byKey[x]] = status[byKey[x]]
      BY <1>3, <1>4
    <3> QED
      BY <2>3, <3>1, <3>2 DEF Finished
  <2> QED
    BY <2>1, <2>2, <2>3
<1> HIDE DEF forgotten
<1> QED
  BY <1>1, <1>5, <1>7, <1>8, <1>9 DEF Shared!Start, Finished

\* Marking a job as done ends the render of its key.
LEMMA FinishRefines ==
  ASSUME RegistryInv, NEW w \in Worker, Finish(w)
  PROVE  \E k \in Key : Shared!Succeed(k)
<1> DEFINE j == JobOf(w)
<1>1. /\ ~At(w, "idle") /\ status[j] \in Live /\ status[j] # "done" /\ j \in JobId
      /\ status' = [status EXCEPT ![j] = "done"]
      /\ UNCHANGED <<byKey, last>>
  BY DEF Finish, At, JobOf, PoolUntouched, registry, RegistryInv, InOneHand,
         WorkedOnce, TypeOK, PoolTyped, Live
<1>2. /\ keyOf[j] \in Key /\ byKey[keyOf[j]] = j
      /\ \A k \in Key : byKey[k] = j => k = keyOf[j]
  BY <1>1, OwnJob
<1>3. status \in [JobId -> Status] /\ byKey \in [Key -> JobId \cup {NoJob}]
      /\ NoJob \notin JobId
  BY DEF RegistryInv, TypeOK, JobsTyped, RegistryTyped
<1>4. Finished' = [Finished EXCEPT ![keyOf[j]] = TRUE]
  <2> SUFFICES ASSUME NEW k \in Key
               PROVE  (byKey[k] # NoJob /\ status'[byKey[k]] = "done")
                        <=> (k = keyOf[j] \/ Finished[k])
    BY <1>1, <1>2, Zenon DEF Finished
  <2>1. CASE k = keyOf[j]
    BY <1>1, <1>2, <1>3, <2>1
  <2>2. CASE k # keyOf[j]
    BY <1>1, <1>2, <1>3, <2>2 DEF Finished
  <2> QED
    BY <2>1, <2>2
<1>5. ~Finished[keyOf[j]] /\ byKey[keyOf[j]] # 0
  BY <1>1, <1>2, <1>3 DEF Finished
<1> QED
  BY <1>1, <1>2, <1>4, <1>5 DEF Shared!Succeed, Finished

\* A failure forgets the render of the key at once.
LEMMA FailRefines ==
  ASSUME RegistryInv, NEW w \in Worker, Fail(w)
  PROVE  \E k \in Key : Shared!Fail(k)
<1> DEFINE j == JobOf(w)
<1>1. /\ ~At(w, "idle") /\ status[j] \in Live /\ status[j] # "done" /\ j \in JobId
      /\ status' = [status EXCEPT ![j] = "failed"]
      /\ byKey' = KeysAfterFailure(j)
      /\ last' = last
  BY DEF Fail, At, JobOf, RegistryInv, InOneHand, WorkedOnce, TypeOK, PoolTyped, Live
<1>2. /\ keyOf[j] \in Key /\ byKey[keyOf[j]] = j
      /\ \A k \in Key : byKey[k] = j => k = keyOf[j]
  BY <1>1, OwnJob
<1>3. status \in [JobId -> Status] /\ byKey \in [Key -> JobId \cup {NoJob}]
      /\ NoJob \notin JobId
  BY DEF RegistryInv, TypeOK, JobsTyped, RegistryTyped
<1>4. byKey' = [byKey EXCEPT ![keyOf[j]] = 0]
  BY <1>1, <1>2, <1>3 DEF KeysAfterFailure
<1>5. ~Finished[keyOf[j]] /\ byKey[keyOf[j]] # 0
  BY <1>1, <1>2, <1>3 DEF Finished
<1>6. Finished' = Finished
  <2> SUFFICES ASSUME NEW k \in Key
               PROVE  (byKey'[k] # NoJob /\ status'[byKey'[k]] = "done") <=> Finished[k]
    BY Zenon DEF Finished
  <2>1. CASE k = keyOf[j]
    BY <1>2, <1>3, <1>4, <1>5, <2>1
  <2>2. CASE k # keyOf[j]
    BY <1>1, <1>2, <1>3, <1>4, <2>2 DEF Finished
  <2> QED
    BY <2>1, <2>2
<1> QED
  BY <1>1, <1>2, <1>4, <1>5, <1>6 DEF Shared!Fail, Finished

\* A restart of the process loses every render.
LEMMA RestartRefines == Restart => Shared!Restart
  BY DEF Restart, Shared!Restart

\* Every other step of a thread leaves the finished renders as they are.
LEMMA ThreadStutters ==
  ASSUME RegistryInv, NEW w \in Worker, Execute(w), ~Finish(w), ~Fail(w)
  PROVE  UNCHANGED Shared!vars
<1>1. CASE Start(w)
  <2>1. /\ status[JobOf(w)] = "queued"
        /\ status' = [status EXCEPT ![JobOf(w)] = "running"]
        /\ UNCHANGED <<byKey, last>>
    BY <1>1 DEF Start, PoolUntouched, registry, RegistryInv, InOneHand, WorkedOnce
  <2>2. \A i \in JobId : status'[i] = "done" <=> status[i] = "done"
    BY <2>1 DEF RegistryInv, TypeOK, JobsTyped
  <2>3. \A k \in Key : byKey[k] # NoJob => byKey[k] \in JobId
    BY DEF RegistryInv, TypeOK, RegistryTyped
  <2> QED
    BY <2>1, <2>2, <2>3, SharedStutters DEF RegistryInv
<1>2. CASE ~Start(w)
  <2>1. UNCHANGED <<status, byKey, last>>
    BY <1>2 DEF Execute, Take, Progress, Rendered, RenderRaises, Write,
       WriteRefused, HoldInMemory, Publish, PoolUntouched, jobVars, registry
  <2> QED
    BY <2>1, SharedStutters DEF RegistryInv
<1> QED
  BY <1>1, <1>2

\* Every step of the runner is a step of the abstract cache or a stutter.
LEMMA StepRefines == RegistryInv /\ [Next]_vars => [Shared!Next]_(Shared!vars)
<1> SUFFICES ASSUME RegistryInv, [Next]_vars
             PROVE  Shared!Next \/ UNCHANGED Shared!vars
  BY Zenon
<1>1. CASE Request
  <2>1. ASSUME NEW k \in Key, Register(k) PROVE Shared!Next
    BY <2>1, RegisterRefines DEF Shared!Next
  <2>2. ASSUME \/ \E k \in Key : Join(k)
               \/ \E id \in JobId : GetRun(id) \/ GetReport(id)
        PROVE  UNCHANGED Shared!vars
    <3>1. UNCHANGED <<status, byKey, last>>
      BY <2>2 DEF Join, GetRun, GetReport, LookUp, ReadUntouched, jobVars, registry
    <3> QED
      BY <3>1, SharedStutters DEF RegistryInv
  <2> QED
    BY <1>1, <2>1, <2>2 DEF Request
<1>2. CASE Handle \/ Shutdown \/ UNCHANGED vars
  <2>1. UNCHANGED <<status, byKey, last>>
    BY <1>2 DEF Handle, HandOff, AnswerPoll, ReadPath, ReadStatus, ReadHtml,
       AnswerReport, SendFile, ReadUntouched, Shutdown, vars, jobVars, registry
  <2> QED
    BY <2>1, SharedStutters DEF RegistryInv
<1>3. ASSUME NEW w \in Worker, Execute(w)
      PROVE  Shared!Next \/ UNCHANGED Shared!vars
  <2>1. CASE Finish(w)
    BY <2>1, FinishRefines DEF Shared!Next
  <2>2. CASE Fail(w)
    BY <2>2, FailRefines DEF Shared!Next
  <2> QED
    BY <1>3, <2>1, <2>2, ThreadStutters
<1>4. CASE Restart
  BY <1>4, RestartRefines DEF Shared!Next
<1> QED
  BY <1>1, <1>2, <1>3, <1>4 DEF Next

\* The runner implements the abstract render cache, for any number of keys,
\* threads, jobs and restarts and any faults: a key has at most one render, and
\* only a failure, an eviction of a finished one or a restart takes it away
\* (jobs.py: submit, _execute, _fail, _evict_locked).
THEOREM ImplementsShared == Spec => ImplementsSharedRender
<1>1. Init => Shared!Init
  <2> SUFFICES ASSUME Init PROVE Shared!Init
    OBVIOUS
  <2>1. byKey = [k \in Key |-> 0] /\ last = 0
    BY DEF Init
  <2>2. Finished = [k \in Key |-> FALSE]
    BY <2>1 DEF Finished
  <2> QED
    BY <2>1, <2>2 DEF Shared!Init, Finished
<1> QED
  BY <1>1, StepRefines, RegistryInvariant, PTL
  DEF Spec, ImplementsSharedRender, Shared!Spec
=============================================================================
