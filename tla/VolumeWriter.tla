---------------------------- MODULE VolumeWriter ----------------------------
(***************************************************************************)
(* The one write path of timeslides/storage.py: the ladder of write        *)
(* strategies of VolumeWriter, call by call, on a mount that implements    *)
(* only some of the calls and may refuse any of them for a while.          *)
(*                                                                         *)
(* The group store and the job runner each have a writer of their own; a   *)
(* behaviour is about one of the two.  The store probes its mount when the *)
(* process starts, and rewrites one file under its lock.  The workers of   *)
(* the runner write a new file each, and share the writer, with the        *)
(* strategy it has settled on, without a lock.                             *)
(***************************************************************************)
EXTENDS Naturals

CONSTANTS
    Groups,     \* the group document
    Probe,      \* the file the probe writes and removes again
    Report,     \* the reports, one file for each run
    Thread,     \* threads that share the writer
    Doc,        \* what may be written
    Absent,     \* there is no such file
    Torn,       \* truncated, or written in part
    NoDoc,
    Mounts,     \* the mounts to consider, each the set of calls it implements
    Flaky,      \* those where, now and then, a call that is implemented fails
    MaxCrashes  \* bound: times the process is killed

Call == {"create",     \* open a new file for writing
         "overwrite",  \* open an existing one
         "rename",     \* os.replace
         "unlink"}

ASSUME VolumeWriterAssumption ==
    /\ Groups # Probe /\ {Groups, Probe} \cap Report = {}
    /\ Absent \notin Doc /\ Torn \notin Doc /\ NoDoc \notin Doc
    /\ Absent # Torn /\ Absent # NoDoc /\ Torn # NoDoc
    /\ NoDoc \notin Report \cup {Groups, Probe}
    /\ Mounts \subseteq SUBSET Call
    /\ Flaky \subseteq Mounts
    /\ MaxCrashes \in Nat

\* Each path has two siblings: the temporary file of the atomic strategy and
\* the spare of the recreate strategy.  Their names carry the pid, which is
\* the same for every start of a container.
Kind    == {"target", "tmp", "spare"}
Content == Doc \cup {Absent, Torn}
File    == Report \cup {Groups, Probe}

Strategy == {"atomic", "direct", "recreate"}

VARIABLES
    owner,     \* whose writer it is: "store" or "runner"
    mount,     \* the calls this mount implements
    steady,    \* whether those calls never fail
    file,      \* the content of every file
    strategy,  \* self._strategy; "none" before the first write
    op,        \* what each thread is doing
    result,    \* the outcome of the last step, if it ended a write
    crashes

volume == <<owner, mount, steady>>
vars == <<volume, file, strategy, op, result, crashes>>

\* op[t].before is the target as the write found it.
NoOp     == [at |-> "idle", path |-> NoDoc, doc |-> NoDoc, before |-> Absent]
NoResult == [of |-> NoOp, is |-> "none"]

Init ==
    /\ owner \in {"store", "runner"}
    /\ mount \in Mounts
    /\ steady \in BOOLEAN /\ (mount \notin Flaky => steady)
    /\ \E groups \in Doc \cup {Absent} :
         file = [p \in File |-> [k \in Kind |->
                    IF k = "target" /\ p = Groups THEN groups ELSE Absent]]
    /\ strategy = "none"
    /\ op = [t \in Thread |-> NoOp]
    /\ result = NoResult
    /\ crashes = 0

At(t, pc)   == op[t].at = pc
Goto(t, pc) == op' = [op EXCEPT ![t].at = pc]
Here(t, k)  == file[op[t].path][k]
Put(t, k, c) == file' = [file EXCEPT ![op[t].path][k] = c]

MayWork(call) == call \in mount
MayFail(call) == call \notin mount \/ ~steady
Opening(c)    == IF c = Absent THEN "create" ELSE "overwrite"

Unfinished == result' = NoResult

\* A write returns, or raises; a probe then removes its file.
Ends(t, is) ==
    /\ result' = [of |-> op[t], is |-> is]
    /\ IF op[t].path = Probe THEN Goto(t, "probe unlink")
                             ELSE op' = [op EXCEPT ![t] = NoOp]

\* Mutant: the target is opened first, and nothing is renamed over it.
DirectFirst(s) == IF s = "recreate" THEN "spare open" ELSE "open"

\* write starts with the strategy the writer has settled on.
FirstCall(s) == CASE s = "direct" -> "open" [] s = "recreate" -> "spare open"
                  [] OTHER -> "tmp open"

Idle == \A t \in Thread : At(t, "idle")

\* The store writes alone, and probes before anything else; a report is written
\* by the one worker that rendered it.
Due(p) == CASE p = Probe  -> owner = "store" /\ Idle /\ strategy = "none"
            [] p = Groups -> owner = "store" /\ Idle
            [] OTHER      -> owner = "runner" /\ \A t \in Thread : op[t].path # p

\* Every run has a report file of its own: each write of a report in the model
\* stands for a write under a new name, with nothing there.
Found(p) == IF p \in Report THEN [k \in Kind |-> Absent] ELSE file[p]

Begin(t, p, d) ==
    /\ At(t, "idle")
    /\ Due(p)
    /\ file' = [file EXCEPT ![p] = Found(p)]
    /\ op' = [op EXCEPT ![t] = [at |-> FirstCall(strategy), path |-> p, doc |-> d,
                                before |-> Found(p)["target"]]]
    /\ Unfinished
    /\ UNCHANGED <<volume, strategy, crashes>>

-----------------------------------------------------------------------------
(***************************************************************************)
(* The calls.  Each is one step of the thread: it succeeds and goes to     *)
(* next, or raises OSError and goes to failed.                             *)
(***************************************************************************)
\* open(f, "w") creates the file or truncates it.
Open(t, from, k, next, failed) ==
    LET call == Opening(Here(t, k))
    IN  /\ At(t, from)
        /\ \/ MayWork(call) /\ Put(t, k, Torn) /\ Goto(t, next)
           \/ MayFail(call) /\ file' = file /\ Goto(t, failed)
        /\ Unfinished
        /\ UNCHANGED <<volume, strategy, crashes>>

\* write, flush and fsync.  A full volume stops part-way; an fsync that fails
\* does so with everything written.
Fill(t, from, k, next, failed) ==
    /\ At(t, from)
    /\ \/ Put(t, k, op[t].doc) /\ Goto(t, next)
       \/ /\ ~steady
          /\ \E left \in {Torn, op[t].doc} : Put(t, k, left)
          /\ Goto(t, failed)
    /\ Unfinished
    /\ UNCHANGED <<volume, strategy, crashes>>

\* os.replace(tmp, target)
Replace(t, from, next, failed) ==
    /\ At(t, from)
    /\ \/ /\ MayWork("rename")
          /\ file' = [file EXCEPT ![op[t].path].target = Here(t, "tmp"),
                                  ![op[t].path].tmp = Absent]
          /\ Goto(t, next)
       \/ MayFail("rename") /\ file' = file /\ Goto(t, failed)
    /\ Unfinished
    /\ UNCHANGED <<volume, strategy, crashes>>

\* unlink, where a missing file is no error.
Unlink(t, from, k, next, failed) ==
    /\ At(t, from)
    /\ \/ /\ Here(t, k) # Absent => MayWork("unlink")
          /\ Put(t, k, Absent) /\ Goto(t, next)
       \/ /\ Here(t, k) # Absent /\ MayFail("unlink")
          /\ file' = file /\ Goto(t, failed)
    /\ Unfinished
    /\ UNCHANGED <<volume, strategy, crashes>>

\* Mutant: the first strategy that fails ends the write.
StopAtAtomic(t) == Unlink(t, "tmp unlink", "tmp", "raise", "raise")

DropTmp(t) == Unlink(t, "tmp unlink", "tmp", "open", "open")

\* _write_atomic.  A failure removes the temporary file, and the ladder goes
\* on to the direct strategy.
Atomic(t) ==
    \/ Open(t, "tmp open", "tmp", "tmp fill", "tmp unlink")
    \/ Fill(t, "tmp fill", "tmp", "replace", "tmp unlink")
    \/ Replace(t, "replace", "atomic done", "tmp unlink")
    \/ DropTmp(t)

\* Mutant: a write in place that fails part-way is taken for a success.
FillAnyway(t) == Fill(t, "fill", "target", "direct done", "direct done")

FillInPlace(t) == Fill(t, "fill", "target", "direct done", "spare open")

\* _write_direct on the target.  A failure leaves the target as it is then.
Direct(t) ==
    \/ Open(t, "open", "target", "fill", "spare open")
    \/ FillInPlace(t)

\* Mutant: the target is removed before the spare is complete.
SpareLast(t) == Open(t, "spare open", "spare", "unlink", "spare unlink")

OpenSpare(t) == Open(t, "spare open", "spare", "spare fill", "spare unlink")

\* _write_recreate.  Nothing is removed until the spare is complete; the spare
\* goes in the end, however the rewrite of the target ends.
Recreate(t) ==
    \/ OpenSpare(t)
    \/ Fill(t, "spare fill", "spare", "unlink", "spare unlink")
    \/ Unlink(t, "spare unlink", "spare", "raise", "raise")
    \/ Unlink(t, "unlink", "target", "reopen", "drop and raise")
    \/ Open(t, "reopen", "target", "refill", "drop and raise")
    \/ Fill(t, "refill", "target", "drop", "drop and raise")
    \/ Unlink(t, "drop", "spare", "recreate done", "recreate done")
    \/ Unlink(t, "drop and raise", "spare", "raise", "raise")

Done == {"atomic done", "direct done", "recreate done"}

\* Mutant: the step is recorded, not the strategy.
StepOf(pc) == pc

StrategyOf(pc) == CASE pc = "atomic done" -> "atomic"
                    [] pc = "direct done" -> "direct"
                    [] pc = "recreate done" -> "recreate"

\* The strategy that worked is the one the writer settles on.
Settle(t) ==
    /\ op[t].at \in Done
    /\ strategy' = StrategyOf(op[t].at)
    /\ Ends(t, "written")
    /\ UNCHANGED <<volume, file, crashes>>

\* No mechanism works: the last OSError is raised.
Raise(t) ==
    /\ At(t, "raise")
    /\ Ends(t, "raised")
    /\ UNCHANGED <<volume, file, strategy, crashes>>

\* The end of probe: its file goes, where the mount lets it.
EndProbe(t) ==
    /\ At(t, "probe unlink")
    /\ op' = [op EXCEPT ![t] = NoOp]
    /\ \/ /\ Here(t, "target") # Absent => MayWork("unlink")
          /\ Put(t, "target", Absent)
       \/ /\ Here(t, "target") # Absent /\ MayFail("unlink")
          /\ file' = file
    /\ Unfinished
    /\ UNCHANGED <<volume, strategy, crashes>>

\* The process is killed between two calls and starts again.
Crash ==
    /\ crashes < MaxCrashes
    /\ crashes' = crashes + 1
    /\ op' = [t \in Thread |-> NoOp]
    /\ strategy' = "none"
    /\ Unfinished
    /\ UNCHANGED <<volume, file>>

Write(t) == \/ Atomic(t) \/ Direct(t) \/ Recreate(t)
            \/ Settle(t) \/ Raise(t) \/ EndProbe(t)

Next == \/ \E t \in Thread :
             Write(t) \/ \E p \in File, d \in Doc : Begin(t, p, d)
        \/ Crash

Spec == Init /\ [][Next]_vars

-----------------------------------------------------------------------------
(***************************************************************************)
(* Properties.                                                             *)
(***************************************************************************)
PC == {"idle", "tmp open", "tmp fill", "replace", "tmp unlink", "open", "fill",
       "spare open", "spare fill", "spare unlink", "unlink", "reopen", "refill",
       "drop", "drop and raise", "raise", "probe unlink"} \cup Done

Op == [at : PC, path : File \cup {NoDoc}, doc : Doc \cup {NoDoc},
       before : Content]

\* Every variable has its type (storage.py: VolumeWriter).
TypeOK ==
    /\ owner \in {"store", "runner"}
    /\ mount \in SUBSET Call /\ steady \in BOOLEAN
    /\ file \in [File -> [Kind -> Content]]
    /\ strategy \in Strategy \cup {"none"}
    /\ op \in [Thread -> Op]
    /\ \A t \in Thread : ~At(t, "idle") => op[t].path \in File /\ op[t].doc \in Doc
    /\ result \in [of : Op, is : {"none", "written", "raised"}]
    /\ crashes \in Nat

\* A write that returns has put the whole document in its target, by whatever
\* strategy (storage.py: VolumeWriter.write).
WrittenIsWhole ==
    result.is = "written" => file[result.of.path]["target"] = result.of.doc

\* A write that replaces a document leaves the old one or the new one whole, in
\* the target or in the spare, after each of its calls: a kill finds one of them.
\* So it is where the calls of the mount do not fail, unless it overwrites files
\* and the atomic strategy does not work on it (storage.py: _write_recreate,
\* "nothing is removed until the mount has proved it will take a write").
ACopyIsLeft ==
    steady /\ ("overwrite" \in mount => {"create", "rename"} \subseteq mount) =>
        \A t \in Thread : op[t].before \in Doc =>
            \E k \in {"target", "spare"} : Here(t, k) \in {op[t].before, op[t].doc}

\* On a mount that renames and takes every file, and whose calls do not fail, a
\* target is never seen torn or missing, at any point of any write and after any
\* crash: a reader sees the old document or the new one (storage.py:
\* _write_atomic).
RenameIsCrashSafe ==
    steady /\ {"create", "rename", "overwrite"} \subseteq mount =>
        \A p \in File : /\ file[p]["target"] # Torn
                        /\ \A t \in Thread : op[t].path = p =>
                             file[p]["target"] \in {op[t].before, op[t].doc}

\* Mounts that take new files, and can replace one in some way.
Usable == {m \in SUBSET Call : "create" \in m /\ m \cap {"rename", "overwrite", "unlink"} # {}}

\* The ladder is long enough: a mount that takes new files, and can rename,
\* overwrite or unlink, takes every write until the process is killed; one that
\* overwrites takes them also after a kill, whatever it left beside the target
\* (storage.py: WRITE_STRATEGIES).
LadderSuffices ==
    steady /\ mount \in Usable /\ (crashes = 0 \/ "overwrite" \in mount) =>
        result.is # "raised"

-----------------------------------------------------------------------------
(***************************************************************************)
(* The volume that the store and the runner rely on.  The probe, temporary *)
(* files and spares are the writer's own business.                         *)
(***************************************************************************)
Kept == Report \cup {Groups}

Grade == IF ~steady \/ ~({"create", "overwrite"} \subseteq mount) THEN "poor"
         ELSE IF "rename" \in mount THEN "atomic" ELSE "sound"

Targets == [p \in Kept |-> file[p]["target"]]

Outline(of) == IF of.path \in Kept THEN [path |-> of.path, doc |-> of.doc]
                                   ELSE [path |-> NoDoc, doc |-> NoDoc]
Writing == [t \in Thread |-> Outline(op[t])]

Told == IF result.of.path \in Kept
        THEN [path |-> result.of.path, doc |-> result.of.doc, is |-> result.is]
        ELSE [path |-> NoDoc, doc |-> NoDoc, is |-> "none"]

Abstract == INSTANCE Volume WITH
    File <- Kept, Fresh <- Report, None <- NoDoc,
    grade <- Grade, content <- Targets, writing <- Writing, told <- Told

\* A write ends as it says, no other file changes with it, and what it leaves on
\* the way is the old document, the new one, or the damage that the grade of the
\* mount allows; a mount that creates and overwrites, and does not fail, takes
\* every write, kills or not (storage.py: VolumeWriter.write, _write_atomic,
\* _write_direct, _write_recreate).
ImplementsVolume == Abstract!Spec
=============================================================================
