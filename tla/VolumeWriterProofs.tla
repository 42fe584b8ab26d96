------------------------- MODULE VolumeWriterProofs -------------------------
(***************************************************************************)
(* Proofs about VolumeWriter, for any threads, files, documents and mounts:*)
(* TypeOK, WrittenIsWhole, ACopyIsLeft, RenameIsCrashSafe,                 *)
(* LadderSuffices, and that the writer implements Volume.                  *)
(***************************************************************************)
EXTENDS VolumeWriter, TLAPS

\* What thread t relies on at each call: the copy it made is still whole, and what
\* is removed after a write is the file of the probe.
Whole(t) ==
    /\ At(t, "replace") => Here(t, "tmp") = op[t].doc
    /\ op[t].at \in {"unlink", "reopen", "refill"} => Here(t, "spare") = op[t].doc
    /\ op[t].at \in Done \cup {"drop"} => Here(t, "target") = op[t].doc
    /\ At(t, "probe unlink") => op[t].path = Probe

\* No two threads write the same file.
Apart == \A t, u \in Thread : op[t].path = op[u].path /\ op[t].path # NoDoc => t = u

IdleIsNoOp == \A t \in Thread : At(t, "idle") => op[t] = NoOp

WriterInv ==
    /\ TypeOK /\ Apart /\ IdleIsNoOp
    /\ \A t \in Thread : ~At(t, "idle") => Whole(t)

\* A step of t that goes on to pc and touches no file but its own,
Moves(t, pc) ==
    /\ op' = [op EXCEPT ![t].at = pc]
    /\ file' \in [File -> [Kind -> Content]]
    /\ \A p \in File : p # op[t].path => file'[p] = file[p]
    /\ result' = NoResult
    /\ UNCHANGED <<volume, strategy, crashes>>

\* and of its own only the one of kind k.
Touches(t, k, pc) ==
    /\ Moves(t, pc)
    /\ \A j \in Kind \ {k} : file'[op[t].path][j] = Here(t, j)

-----------------------------------------------------------------------------
(***************************************************************************)
(* What each call does.                                                    *)
(***************************************************************************)
LEMMA OpOf ==
    ASSUME TypeOK, NEW t \in Thread, ~At(t, "idle")
    PROVE  op[t].path \in File /\ op[t].doc \in Doc /\ op[t] \in Op
  BY DEF TypeOK

LEMMA PutTouches ==
    ASSUME TypeOK, NEW t \in Thread, ~At(t, "idle"), NEW k \in Kind, NEW c \in Content,
           NEW pc, Put(t, k, c), Goto(t, pc), Unfinished, UNCHANGED <<volume, strategy, crashes>>
    PROVE  Touches(t, k, pc) /\ file'[op[t].path][k] = c
  <1>1. op[t].path \in File /\ file \in [File -> [Kind -> Content]]
    BY OpOf DEF TypeOK
  <1>2. file'[op[t].path] = [file[op[t].path] EXCEPT ![k] = c]
    BY <1>1 DEF Put
  <1>3. file' \in [File -> [Kind -> Content]]
    BY <1>1 DEF Put
  <1> QED BY <1>1, <1>2, <1>3 DEF Put, Goto, Unfinished, Touches, Moves, Here

LEMMA StayTouches ==
    ASSUME TypeOK, NEW t \in Thread, NEW k \in Kind,
           NEW pc, file' = file, Goto(t, pc), Unfinished, UNCHANGED <<volume, strategy, crashes>>
    PROVE  Touches(t, k, pc)
  BY DEF TypeOK, Goto, Unfinished, Touches, Moves, Here

LEMMA OpenTouches ==
    ASSUME TypeOK, NEW t \in Thread, NEW from, from # "idle", NEW k \in Kind,
           NEW next, NEW failed, Open(t, from, k, next, failed)
    PROVE  Touches(t, k, next) \/ Touches(t, k, failed)
  <1>1. ~At(t, "idle") /\ Torn \in Content
    BY DEF Open, At, Content
  <1> QED BY <1>1, PutTouches, StayTouches DEF Open

LEMMA FillTouches ==
    ASSUME TypeOK, NEW t \in Thread, NEW from, from # "idle", NEW k \in Kind,
           NEW next, NEW failed, Fill(t, from, k, next, failed)
    PROVE  \/ Touches(t, k, next) /\ file'[op[t].path][k] = op[t].doc
           \/ Touches(t, k, failed)
  <1>1. ~At(t, "idle")
    BY DEF Fill, At
  <1>2. op[t].doc \in Content /\ Torn \in Content
    BY <1>1, OpOf DEF Content
  <1> QED BY <1>1, <1>2, PutTouches DEF Fill

LEMMA UnlinkTouches ==
    ASSUME TypeOK, NEW t \in Thread, NEW from, from # "idle", NEW k \in Kind,
           NEW next, NEW failed, Unlink(t, from, k, next, failed)
    PROVE  Touches(t, k, next) \/ Touches(t, k, failed)
  <1>1. ~At(t, "idle") /\ Absent \in Content
    BY DEF Unlink, At, Content
  <1> QED BY <1>1, PutTouches, StayTouches DEF Unlink

LEMMA ReplaceMoves ==
    ASSUME TypeOK, NEW t \in Thread, NEW next, NEW failed, Replace(t, "replace", next, failed)
    PROVE  \/ Moves(t, next) /\ file'[op[t].path]["target"] = Here(t, "tmp")
           \/ Moves(t, failed)
  <1>1. ~At(t, "idle")
    BY DEF Replace, At
  <1>2. op[t].path \in File /\ file \in [File -> [Kind -> Content]]
    BY <1>1, OpOf DEF TypeOK
  <1>3. UNCHANGED <<volume, strategy, crashes>> /\ result' = NoResult
    BY DEF Replace, Unfinished
  <1>4. CASE file' = file /\ Goto(t, failed)
    BY <1>2, <1>3, <1>4 DEF Goto, Moves
  <1>5. CASE /\ file' = [file EXCEPT ![op[t].path].target = Here(t, "tmp"),
                                     ![op[t].path].tmp = Absent]
             /\ Goto(t, next)
    <2>1. Here(t, "tmp") \in Content /\ Absent \in Content
      BY <1>2 DEF Here, Kind, Content
    <2> DEFINE own == [[file[op[t].path] EXCEPT !["target"] = Here(t, "tmp")] EXCEPT !["tmp"] = Absent]
    <2>2. file' = [file EXCEPT ![op[t].path] = own]
      BY <1>5, <1>2
    <2>3. own \in [Kind -> Content] /\ own["target"] = Here(t, "tmp")
      BY <1>2, <2>1 DEF Kind
    <2>4. file' \in [File -> [Kind -> Content]] /\ file'[op[t].path] = own
      BY <2>2, <2>3, <1>2
    <2>5. \A p \in File : p # op[t].path => file'[p] = file[p]
      BY <2>2, <1>2
    <2>6. op' = [op EXCEPT ![t].at = next]
      BY <1>5 DEF Goto
    <2> HIDE DEF own
    <2>7. Moves(t, next)
      BY <1>3, <2>4, <2>5, <2>6 DEF Moves
    <2> QED BY <2>3, <2>4, <2>7
  <1> QED BY <1>4, <1>5 DEF Replace

-----------------------------------------------------------------------------
(***************************************************************************)
(* The inductive invariant.                                                *)
(***************************************************************************)
\* What a step has to show of the place it goes on to.
Lands(t, pc) ==
    /\ pc = "replace" => file'[op[t].path]["tmp"] = op[t].doc
    /\ pc \in {"unlink", "reopen", "refill"} => file'[op[t].path]["spare"] = op[t].doc
    /\ pc \in Done \cup {"drop"} => file'[op[t].path]["target"] = op[t].doc
    /\ pc # "probe unlink"

LEMMA NewOp ==
    ASSUME TypeOK, NEW t \in Thread, ~At(t, "idle"), NEW pc \in PC,
           op' = [op EXCEPT ![t].at = pc]
    PROVE  /\ op' \in [Thread -> Op]
           /\ op'[t].at = pc /\ op'[t].path = op[t].path /\ op'[t].doc = op[t].doc
           /\ op'[t].before = op[t].before
           /\ \A u \in Thread : u # t => op'[u] = op[u]
  <1>1. op \in [Thread -> Op]
    BY DEF TypeOK
  <1> DEFINE new == [op[t] EXCEPT !.at = pc]
  <1>2. op[t] \in Op
    BY <1>1
  <1>3. new \in Op
    BY <1>2 DEF Op
  <1>4. new.at = pc /\ new.path = op[t].path /\ new.doc = op[t].doc /\ new.before = op[t].before
    BY <1>2 DEF Op
  <1>5. op' = [op EXCEPT ![t] = new]
    OBVIOUS
  <1> HIDE DEF new
  <1> QED BY <1>1, <1>3, <1>4, <1>5

LEMMA Outcomes ==
    /\ NoOp \in Op /\ NoResult \in [of : Op, is : {"none", "written", "raised"}]
    /\ NoOp.at = "idle" /\ NoOp.path = NoDoc
  BY DEF NoOp, NoResult, Op, PC, Content

\* Thread t writes no file but p, which is no other thread's, and leaves p either
\* at rest or with what it relies on.
LEMMA StepKeeps ==
    ASSUME VolumeWriterAssumption, WriterInv, NEW t \in Thread, NEW p \in File,
           \A u \in Thread : u # t => op[u].path # p,
           op' \in [Thread -> Op], \A u \in Thread : u # t => op'[u] = op[u],
           \/ op'[t] = NoOp
           \/ op'[t].at # "idle" /\ op'[t].path = p /\ op'[t].doc \in Doc /\ Whole(t)',
           file' \in [File -> [Kind -> Content]],
           \A q \in File : q # p => file'[q] = file[q],
           strategy' \in Strategy \cup {"none"}, crashes' \in Nat,
           result' \in [of : Op, is : {"none", "written", "raised"}],
           UNCHANGED volume
    PROVE  WriterInv'
  <1>1. TypeOK /\ NoDoc \notin File
    BY DEF WriterInv, VolumeWriterAssumption, File
  <1>2. TypeOK'
    <2>1. \A u \in Thread : ~At(u, "idle")' => op'[u].path \in File /\ op'[u].doc \in Doc
      BY <1>1, Outcomes DEF TypeOK, At
    <2> QED BY <1>1, <2>1 DEF TypeOK, volume
  <1>3. Apart'
    BY <1>1, Outcomes DEF WriterInv, Apart
  <1>4. IdleIsNoOp'
    BY DEF WriterInv, IdleIsNoOp, At
  <1>5. ASSUME NEW u \in Thread, ~At(u, "idle")' PROVE Whole(u)'
    <2>1. CASE u = t
      BY <2>1, <1>5, Outcomes DEF At
    <2>2. CASE u # t
      <3>1. op'[u] = op[u] /\ ~At(u, "idle") /\ op[u].path # p
        BY <2>2, <1>5 DEF At
      <3>2. op[u].path \in File
        BY <3>1, <1>1, OpOf
      <3>3. file'[op[u].path] = file[op[u].path]
        BY <3>1, <3>2
      <3>4. Whole(u)
        BY <3>1 DEF WriterInv
      <3> QED BY <3>1, <3>3, <3>4 DEF Whole, At, Here
    <2> QED BY <2>1, <2>2
  <1> QED BY <1>2, <1>3, <1>4, <1>5 DEF WriterInv

LEMMA OwnPath ==
    ASSUME VolumeWriterAssumption, WriterInv, NEW t \in Thread, ~At(t, "idle")
    PROVE  op[t].path \in File /\ \A u \in Thread : u # t => op[u].path # op[t].path
  <1>1. op[t].path \in File /\ NoDoc \notin File
    BY OpOf DEF WriterInv, VolumeWriterAssumption, File
  <1> QED BY <1>1 DEF WriterInv, Apart

LEMMA MovesKeeps ==
    ASSUME VolumeWriterAssumption, WriterInv, NEW t \in Thread, ~At(t, "idle"),
           NEW pc \in PC \ {"idle"}, Moves(t, pc), Lands(t, pc)
    PROVE  WriterInv'
  <1>1. TypeOK /\ op[t].path \in File /\ op[t].doc \in Doc
    BY OpOf DEF WriterInv
  <1>2. /\ op' \in [Thread -> Op]
        /\ op'[t].at = pc /\ op'[t].path = op[t].path /\ op'[t].doc = op[t].doc
        /\ \A u \in Thread : u # t => op'[u] = op[u]
    BY <1>1, NewOp DEF Moves
  <1>3. Whole(t)'
    BY <1>2 DEF Lands, Whole, At, Here
  <1>4. /\ strategy' \in Strategy \cup {"none"} /\ crashes' \in Nat /\ UNCHANGED volume
        /\ result' \in [of : Op, is : {"none", "written", "raised"}]
    BY <1>1, Outcomes DEF TypeOK, Moves
  <1> QED BY <1>1, <1>2, <1>3, <1>4, OwnPath, StepKeeps DEF Moves

LEMMA AtomicKeeps ==
    ASSUME VolumeWriterAssumption, WriterInv, NEW t \in Thread, Atomic(t)
    PROVE  WriterInv' /\ Unfinished
  <1>1. TypeOK
    BY DEF WriterInv
  <1>2. /\ {"tmp open", "tmp fill", "replace", "tmp unlink", "open", "atomic done"} \subseteq PC \ {"idle"}
        /\ {"tmp fill", "tmp unlink", "open"}
               \cap ({"replace", "unlink", "reopen", "refill", "drop"} \cup Done) = {}
    BY DEF PC, Done
  <1>3. CASE Open(t, "tmp open", "tmp", "tmp fill", "tmp unlink")
    <2>1. ~At(t, "idle") /\ "tmp" \in Kind
      BY <1>3 DEF Open, At, Kind
    <2>2. Moves(t, "tmp fill") \/ Moves(t, "tmp unlink")
      BY <1>1, <1>3, <2>1, OpenTouches DEF Touches
    <2> QED BY <1>2, <2>1, <2>2, MovesKeeps DEF Lands, Moves, Unfinished
  <1>4. CASE Fill(t, "tmp fill", "tmp", "replace", "tmp unlink")
    <2>1. ~At(t, "idle") /\ "tmp" \in Kind
      BY <1>4 DEF Fill, At, Kind
    <2>2. \/ Moves(t, "replace") /\ file'[op[t].path]["tmp"] = op[t].doc
          \/ Moves(t, "tmp unlink")
      BY <1>1, <1>4, <2>1, FillTouches DEF Touches
    <2>3. "replace" \notin {"unlink", "reopen", "refill", "drop"} \cup Done
      BY DEF Done
    <2> QED BY <1>2, <2>1, <2>2, <2>3, MovesKeeps DEF Lands, Moves, Unfinished
  <1>5. CASE Replace(t, "replace", "atomic done", "tmp unlink")
    <2>1. ~At(t, "idle") /\ Here(t, "tmp") = op[t].doc
      BY <1>5 DEF Replace, At, WriterInv, Whole
    <2>2. \/ Moves(t, "atomic done") /\ file'[op[t].path]["target"] = op[t].doc
          \/ Moves(t, "tmp unlink")
      BY <1>1, <1>5, <2>1, ReplaceMoves
    <2> QED BY <1>2, <2>1, <2>2, MovesKeeps DEF Lands, Moves, Unfinished
  <1>6. CASE DropTmp(t)
    <2>1. ~At(t, "idle") /\ "tmp" \in Kind
      BY <1>6 DEF DropTmp, Unlink, At, Kind
    <2>2. Moves(t, "open")
      BY <1>1, <1>6, <2>1, UnlinkTouches DEF Touches, DropTmp
    <2> QED BY <1>2, <2>1, <2>2, MovesKeeps DEF Lands, Moves, Unfinished
  <1> QED BY <1>3, <1>4, <1>5, <1>6 DEF Atomic

LEMMA DirectKeeps ==
    ASSUME VolumeWriterAssumption, WriterInv, NEW t \in Thread, Direct(t)
    PROVE  WriterInv' /\ Unfinished
  <1>1. TypeOK
    BY DEF WriterInv
  <1>2. /\ {"fill", "spare open", "direct done"} \subseteq PC \ {"idle"}
        /\ {"fill", "spare open"}
               \cap ({"replace", "unlink", "reopen", "refill", "drop"} \cup Done) = {}
    BY DEF PC, Done
  <1>3. CASE Open(t, "open", "target", "fill", "spare open")
    <2>1. ~At(t, "idle") /\ "target" \in Kind
      BY <1>3 DEF Open, At, Kind
    <2>2. Moves(t, "fill") \/ Moves(t, "spare open")
      BY <1>1, <1>3, <2>1, OpenTouches DEF Touches
    <2> QED BY <1>2, <2>1, <2>2, MovesKeeps DEF Lands, Moves, Unfinished
  <1>4. CASE FillInPlace(t)
    <2>1. ~At(t, "idle") /\ "target" \in Kind
      BY <1>4 DEF FillInPlace, Fill, At, Kind
    <2>2. \/ Moves(t, "direct done") /\ file'[op[t].path]["target"] = op[t].doc
          \/ Moves(t, "spare open")
      BY <1>1, <1>4, <2>1, FillTouches DEF Touches, FillInPlace
    <2> QED BY <1>2, <2>1, <2>2, MovesKeeps DEF Lands, Moves, Unfinished
  <1> QED BY <1>3, <1>4 DEF Direct

LEMMA RecreateKeeps ==
    ASSUME VolumeWriterAssumption, WriterInv, NEW t \in Thread, Recreate(t)
    PROVE  WriterInv' /\ Unfinished
  <1>1. TypeOK /\ {"target", "spare"} \subseteq Kind
    BY DEF WriterInv, Kind
  <1>2. /\ {"spare fill", "spare unlink", "unlink", "reopen", "refill", "drop",
             "drop and raise", "raise", "recreate done"} \subseteq PC \ {"idle"}
        /\ {"spare fill", "spare unlink", "drop and raise", "raise"}
               \cap ({"replace", "unlink", "reopen", "refill", "drop"} \cup Done) = {}
        /\ {"unlink", "reopen", "refill"} \cap ({"replace", "drop"} \cup Done) = {}
    BY DEF PC, Done
  <1>3. CASE OpenSpare(t)
    <2>1. ~At(t, "idle")
      BY <1>3 DEF OpenSpare, Open, At
    <2>2. Moves(t, "spare fill") \/ Moves(t, "spare unlink")
      BY <1>1, <1>3, <2>1, OpenTouches DEF Touches, OpenSpare
    <2> QED BY <1>2, <2>1, <2>2, MovesKeeps DEF Lands, Moves, Unfinished
  <1>4. CASE Fill(t, "spare fill", "spare", "unlink", "spare unlink")
    <2>1. ~At(t, "idle")
      BY <1>4 DEF Fill, At
    <2>2. \/ Moves(t, "unlink") /\ file'[op[t].path]["spare"] = op[t].doc
          \/ Moves(t, "spare unlink")
      BY <1>1, <1>4, <2>1, FillTouches DEF Touches
    <2> QED BY <1>2, <2>1, <2>2, MovesKeeps DEF Lands, Moves, Unfinished
  <1>5. CASE Unlink(t, "spare unlink", "spare", "raise", "raise")
    <2>1. ~At(t, "idle")
      BY <1>5 DEF Unlink, At
    <2>2. Moves(t, "raise")
      BY <1>1, <1>5, <2>1, UnlinkTouches DEF Touches
    <2> QED BY <1>2, <2>1, <2>2, MovesKeeps DEF Lands, Moves, Unfinished
  <1>6. CASE Unlink(t, "unlink", "target", "reopen", "drop and raise")
    <2>1. ~At(t, "idle") /\ Here(t, "spare") = op[t].doc
      BY <1>6 DEF Unlink, At, WriterInv, Whole
    <2>2. Touches(t, "target", "reopen") \/ Moves(t, "drop and raise")
      BY <1>1, <1>6, <2>1, UnlinkTouches DEF Touches
    <2>3. \/ Moves(t, "reopen") /\ file'[op[t].path]["spare"] = op[t].doc
          \/ Moves(t, "drop and raise")
      BY <1>1, <2>1, <2>2 DEF Touches
    <2> QED BY <1>2, <2>1, <2>3, MovesKeeps DEF Lands, Moves, Unfinished
  <1>7. CASE Open(t, "reopen", "target", "refill", "drop and raise")
    <2>1. ~At(t, "idle") /\ Here(t, "spare") = op[t].doc
      BY <1>7 DEF Open, At, WriterInv, Whole
    <2>2. Touches(t, "target", "refill") \/ Moves(t, "drop and raise")
      BY <1>1, <1>7, <2>1, OpenTouches DEF Touches
    <2>3. \/ Moves(t, "refill") /\ file'[op[t].path]["spare"] = op[t].doc
          \/ Moves(t, "drop and raise")
      BY <1>1, <2>1, <2>2 DEF Touches
    <2> QED BY <1>2, <2>1, <2>3, MovesKeeps DEF Lands, Moves, Unfinished
  <1>8. CASE Fill(t, "refill", "target", "drop", "drop and raise")
    <2>1. ~At(t, "idle")
      BY <1>8 DEF Fill, At
    <2>2. \/ Moves(t, "drop") /\ file'[op[t].path]["target"] = op[t].doc
          \/ Moves(t, "drop and raise")
      BY <1>1, <1>8, <2>1, FillTouches DEF Touches
    <2> QED BY <1>2, <2>1, <2>2, MovesKeeps DEF Lands, Moves, Unfinished
  <1>9. CASE Unlink(t, "drop", "spare", "recreate done", "recreate done")
    <2>1. ~At(t, "idle") /\ Here(t, "target") = op[t].doc
      BY <1>9 DEF Unlink, At, WriterInv, Whole
    <2>2. Touches(t, "spare", "recreate done")
      BY <1>1, <1>9, <2>1, UnlinkTouches
    <2>3. Moves(t, "recreate done") /\ file'[op[t].path]["target"] = op[t].doc
      BY <1>1, <2>1, <2>2 DEF Touches
    <2> QED BY <1>2, <2>1, <2>3, MovesKeeps DEF Lands, Moves, Unfinished
  <1>10. CASE Unlink(t, "drop and raise", "spare", "raise", "raise")
    <2>1. ~At(t, "idle")
      BY <1>10 DEF Unlink, At
    <2>2. Moves(t, "raise")
      BY <1>1, <1>10, <2>1, UnlinkTouches DEF Touches
    <2> QED BY <1>2, <2>1, <2>2, MovesKeeps DEF Lands, Moves, Unfinished
  <1> QED BY <1>3, <1>4, <1>5, <1>6, <1>7, <1>8, <1>9, <1>10 DEF Recreate

\* A write starts on a file no other thread is writing.
LEMMA BeginsAlone ==
    ASSUME VolumeWriterAssumption, WriterInv, NEW t \in Thread, NEW p \in File, NEW d \in Doc,
           Begin(t, p, d)
    PROVE  \A u \in Thread : u # t => op[u].path # p
  <1>1. TypeOK /\ NoDoc \notin File
    BY DEF WriterInv, VolumeWriterAssumption, File
  <1>2. CASE p \in {Probe, Groups}
    BY <1>1, <1>2, Outcomes DEF Begin, Due, Idle, WriterInv, IdleIsNoOp, VolumeWriterAssumption
  <1>3. CASE p \notin {Probe, Groups}
    BY <1>3 DEF Begin, Due
  <1> QED BY <1>2, <1>3

LEMMA BeginKeeps ==
    ASSUME VolumeWriterAssumption, WriterInv, NEW t \in Thread, NEW p \in File, NEW d \in Doc,
           Begin(t, p, d)
    PROVE  WriterInv' /\ Unfinished
  <1>1. TypeOK /\ NoDoc \notin File
    BY DEF WriterInv, VolumeWriterAssumption, File
  <1>2. \A u \in Thread : u # t => op[u].path # p
    BY BeginsAlone
  <1>3. Found(p) \in [Kind -> Content]
    BY <1>1 DEF Found, TypeOK, Content
  <1>4. FirstCall(strategy) \in {"tmp open", "open", "spare open"}
    BY DEF FirstCall
  <1> DEFINE new == [at |-> FirstCall(strategy), path |-> p, doc |-> d,
                     before |-> Found(p)["target"]]
  <1>5. new \in Op
    BY <1>3, <1>4 DEF Op, PC, Kind
  <1>6. op' = [op EXCEPT ![t] = new] /\ file' = [file EXCEPT ![p] = Found(p)]
    BY DEF Begin
  <1>7. /\ new.at \in {"tmp open", "open", "spare open"}
        /\ new.path = p /\ new.doc \in Doc
    BY <1>4
  <1> HIDE DEF new
  <1>8. op' \in [Thread -> Op] /\ op'[t] = new /\ \A u \in Thread : u # t => op'[u] = op[u]
    BY <1>1, <1>5, <1>6 DEF TypeOK
  <1>9. Whole(t)'
    BY <1>7, <1>8 DEF Whole, At, Done
  <1>10. /\ file' \in [File -> [Kind -> Content]]
         /\ \A q \in File : q # p => file'[q] = file[q]
    BY <1>1, <1>3, <1>6 DEF TypeOK
  <1>11. /\ strategy' \in Strategy \cup {"none"} /\ crashes' \in Nat /\ UNCHANGED volume
         /\ result' \in [of : Op, is : {"none", "written", "raised"}]
    BY <1>1, Outcomes DEF TypeOK, Begin, Unfinished
  <1>12. op'[t].at # "idle" /\ op'[t].path = p /\ op'[t].doc \in Doc
    BY <1>7, <1>8
  <1>13. WriterInv'
    BY <1>2, <1>8, <1>9, <1>10, <1>11, <1>12, StepKeeps
  <1> QED BY <1>13 DEF Begin

LEMMA EndsKeeps ==
    ASSUME VolumeWriterAssumption, WriterInv, NEW t \in Thread, ~At(t, "idle"),
           NEW is \in {"written", "raised"}, Ends(t, is),
           UNCHANGED <<volume, file, crashes>>, strategy' \in Strategy \cup {"none"}
    PROVE  WriterInv' /\ result'.of = op[t] /\ result'.is = is
  <1>1. TypeOK /\ op[t].path \in File /\ op[t].doc \in Doc /\ op[t] \in Op
    BY OpOf DEF WriterInv
  <1>2. /\ result' \in [of : Op, is : {"none", "written", "raised"}]
        /\ result'.of = op[t] /\ result'.is = is
    BY <1>1 DEF Ends
  <1>3. /\ op' \in [Thread -> Op] /\ \A u \in Thread : u # t => op'[u] = op[u]
        /\ \/ op'[t] = NoOp
           \/ op'[t].at # "idle" /\ op'[t].path = op[t].path /\ op'[t].doc \in Doc /\ Whole(t)'
    <2>1. CASE op[t].path = Probe
      <3>1. op' = [op EXCEPT ![t].at = "probe unlink"] /\ "probe unlink" \in PC
        BY <2>1 DEF Ends, Goto, PC
      <3>2. /\ op' \in [Thread -> Op] /\ \A u \in Thread : u # t => op'[u] = op[u]
            /\ op'[t].at = "probe unlink" /\ op'[t].path = op[t].path /\ op'[t].doc = op[t].doc
        BY <1>1, <3>1, NewOp
      <3>3. Whole(t)'
        BY <2>1, <3>2 DEF Whole, At, Done
      <3> QED BY <1>1, <3>2, <3>3
    <2>2. CASE op[t].path # Probe
      BY <1>1, <2>2, Outcomes DEF Ends, TypeOK
    <2> QED BY <2>1, <2>2
  <1>4. WriterInv'
    BY <1>1, <1>2, <1>3, OwnPath, StepKeeps DEF TypeOK
  <1> QED BY <1>2, <1>4

LEMMA EndProbeKeeps ==
    ASSUME VolumeWriterAssumption, WriterInv, NEW t \in Thread, EndProbe(t)
    PROVE  WriterInv' /\ Unfinished
  <1>1. ~At(t, "idle")
    BY DEF EndProbe, At
  <1>2. TypeOK /\ op[t].path \in File
    BY <1>1, OpOf DEF WriterInv
  <1>3. /\ op' \in [Thread -> Op] /\ op'[t] = NoOp
        /\ \A u \in Thread : u # t => op'[u] = op[u]
    BY <1>2, Outcomes DEF EndProbe, TypeOK
  <1>4. /\ file' \in [File -> [Kind -> Content]]
        /\ \A q \in File : q # op[t].path => file'[q] = file[q]
    <2> DEFINE own == [file[op[t].path] EXCEPT !["target"] = Absent]
    <2>1. file' = file \/ file' = [file EXCEPT ![op[t].path] = own]
      BY DEF EndProbe, Put
    <2>2. file \in [File -> [Kind -> Content]] /\ own \in [Kind -> Content]
      BY <1>2 DEF TypeOK, Content
    <2> HIDE DEF own
    <2> QED BY <1>2, <2>1, <2>2
  <1>5. /\ strategy' \in Strategy \cup {"none"} /\ crashes' \in Nat /\ UNCHANGED volume
        /\ result' \in [of : Op, is : {"none", "written", "raised"}]
    BY <1>2, Outcomes DEF TypeOK, EndProbe, Unfinished
  <1>6. WriterInv'
    BY <1>1, <1>2, <1>3, <1>4, <1>5, OwnPath, StepKeeps
  <1> QED BY <1>6 DEF EndProbe

LEMMA CrashKeeps ==
    ASSUME VolumeWriterAssumption, WriterInv, Crash
    PROVE  WriterInv' /\ Unfinished
  <1>1. TypeOK
    BY DEF WriterInv
  <1>2. \A t \in Thread : op'[t] = NoOp /\ At(t, "idle")'
    BY Outcomes DEF Crash, At
  <1>3. TypeOK'
    BY <1>1, <1>2, Outcomes DEF Crash, TypeOK, volume, Unfinished
  <1> QED BY <1>2, <1>3, Outcomes DEF Crash, WriterInv, Apart, IdleIsNoOp

-----------------------------------------------------------------------------
(***************************************************************************)
(* The theorems.                                                           *)
(***************************************************************************)
Inv == WriterInv /\ WrittenIsWhole

LEMMA InvInit ==
    ASSUME VolumeWriterAssumption, Init PROVE Inv
  <1>1. TypeOK
    <2>1. file \in [File -> [Kind -> Content]]
      BY DEF Init, Content
    <2> QED BY <2>1, Outcomes DEF Init, VolumeWriterAssumption, TypeOK, At
  <1>2. \A t \in Thread : op[t] = NoOp /\ At(t, "idle")
    BY Outcomes DEF Init, At
  <1>3. result.is = "none"
    BY DEF Init, NoResult
  <1> QED BY <1>1, <1>2, <1>3, Outcomes
          DEF Inv, WriterInv, Apart, IdleIsNoOp, WrittenIsWhole

LEMMA InvNext ==
    ASSUME VolumeWriterAssumption, Inv, [Next]_vars PROVE Inv'
  <1>1. WriterInv /\ TypeOK
    BY DEF Inv, WriterInv
  <1>2. (WriterInv' /\ Unfinished) => Inv'
    BY DEF Unfinished, NoResult, Inv, WrittenIsWhole
  <1>3. ASSUME NEW t \in Thread, Settle(t) PROVE Inv'
    <2>1. ~At(t, "idle") /\ Here(t, "target") = op[t].doc
      BY <1>1, <1>3 DEF Settle, Done, At, WriterInv, Whole
    <2>2. strategy' \in Strategy \cup {"none"}
      BY <1>3 DEF Settle, Done, StrategyOf, Strategy
    <2>3. WriterInv' /\ result'.of = op[t] /\ result'.is = "written"
      BY <1>1, <1>3, <2>1, <2>2, EndsKeeps DEF Settle
    <2>4. file' = file
      BY <1>3 DEF Settle
    <2> QED BY <2>1, <2>3, <2>4 DEF Inv, WrittenIsWhole, Here
  <1>4. ASSUME NEW t \in Thread, Raise(t) PROVE Inv'
    <2>1. ~At(t, "idle")
      BY <1>4 DEF Raise, At
    <2>2. WriterInv' /\ result'.is = "raised"
      BY <1>1, <1>4, <2>1, EndsKeeps DEF Raise, TypeOK
    <2> QED BY <2>2 DEF Inv, WrittenIsWhole
  <1>5. ASSUME NEW t \in Thread, Write(t) PROVE Inv'
    BY <1>1, <1>2, <1>3, <1>4, <1>5, AtomicKeeps, DirectKeeps, RecreateKeeps, EndProbeKeeps
       DEF Write
  <1>6. ASSUME NEW t \in Thread, NEW p \in File, NEW d \in Doc, Begin(t, p, d) PROVE Inv'
    BY <1>1, <1>2, <1>6, BeginKeeps
  <1>7. CASE Crash
    BY <1>1, <1>2, <1>7, CrashKeeps
  <1>8. CASE UNCHANGED vars
    BY <1>8 DEF vars, volume, Inv, WriterInv, TypeOK, Apart, IdleIsNoOp, Whole, At, Here,
                WrittenIsWhole
  <1> QED BY <1>5, <1>6, <1>7, <1>8 DEF Next

\* The inductive invariant holds in every reachable state: each thread writes a file
\* no other thread writes, and has the copy its next call relies on.
THEOREM InvHolds == Spec => []Inv
  BY VolumeWriterAssumption, InvInit, InvNext, PTL DEF Spec

\* Every variable keeps its type (storage.py: VolumeWriter).
THEOREM TypeCorrect == Spec => []TypeOK
  <1>1. Inv => TypeOK
    BY DEF Inv, WriterInv
  <1> QED BY <1>1, InvHolds, PTL

\* A write that returns has put the whole document in its target, whatever the
\* mount refuses and wherever the process was killed before (storage.py:
\* VolumeWriter.write).
THEOREM WritesAreWhole == Spec => []WrittenIsWhole
  <1>1. Inv => WrittenIsWhole
    BY DEF Inv
  <1> QED BY <1>1, InvHolds, PTL

-----------------------------------------------------------------------------
(***************************************************************************)
(* A mount that renames: the atomic strategy is the only one ever used.    *)
(***************************************************************************)
Renames == steady /\ {"create", "rename", "overwrite"} \subseteq mount

AtomicPC == {"idle", "tmp open", "tmp fill", "replace", "atomic done", "probe unlink"}

OldOrNew(t) == Here(t, "target") \in {op[t].before, op[t].doc}

AtomicOnly ==
    /\ strategy \in {"none", "atomic"}
    /\ \A t \in Thread : op[t].at \in AtomicPC
    /\ \A p \in File : file[p]["target"] # Torn
    /\ \A t \in Thread : ~At(t, "idle") => OldOrNew(t)

\* A step of t that writes no target but p's, and leaves that one whole.
LEMMA AtomicOnlyKept ==
    ASSUME VolumeWriterAssumption, WriterInv, AtomicOnly, NEW t \in Thread, NEW p \in File,
           \A u \in Thread : u # t => op[u].path # p /\ op'[u] = op[u],
           \A q \in File : q # p => file'[q] = file[q],
           file'[p]["target"] # Torn, strategy' \in {"none", "atomic"},
           \/ op'[t] = NoOp
           \/ op'[t].at \in AtomicPC /\ op'[t].path = p /\ OldOrNew(t)'
    PROVE  AtomicOnly'
  <1>1. \A u \in Thread : op'[u].at \in AtomicPC
    BY Outcomes DEF AtomicOnly, AtomicPC
  <1>2. \A q \in File : file'[q]["target"] # Torn
    BY DEF AtomicOnly
  <1>3. ASSUME NEW u \in Thread, ~At(u, "idle")' PROVE OldOrNew(u)'
    <2>1. CASE u = t
      BY <2>1, <1>3, Outcomes DEF At
    <2>2. CASE u # t
      <3>1. op'[u] = op[u] /\ ~At(u, "idle") /\ op[u].path # p
        BY <2>2, <1>3 DEF At
      <3>2. op[u].path \in File
        BY <3>1, OpOf DEF WriterInv
      <3>3. file'[op[u].path] = file[op[u].path]
        BY <3>1, <3>2
      <3> QED BY <3>1, <3>3 DEF AtomicOnly, OldOrNew, Here
    <2> QED BY <2>1, <2>2
  <1> QED BY <1>1, <1>2, <1>3 DEF AtomicOnly

\* The calls of the atomic strategy: all of them succeed.
LEMMA AtomicCalls ==
    ASSUME VolumeWriterAssumption, WriterInv, AtomicOnly, Renames, NEW t \in Thread, Atomic(t)
    PROVE  AtomicOnly'
  <1>1. TypeOK /\ "tmp" \in Kind /\ "target" \in Kind \ {"tmp"}
    BY DEF WriterInv, Kind
  <1>2. {"tmp fill", "replace", "atomic done"} \subseteq AtomicPC \cap PC
    BY DEF AtomicPC, PC, Done
  <1>3. ASSUME ~At(t, "idle"), NEW pc \in AtomicPC \cap PC, Moves(t, pc),
               file'[op[t].path]["target"] \in {Here(t, "target"), op[t].doc}
        PROVE  AtomicOnly'
    <2>1. op[t].path \in File /\ op[t].doc \in Doc
      BY <1>1, <1>3, OpOf
    <2>2. /\ op'[t].at = pc /\ op'[t].path = op[t].path /\ op'[t].doc = op[t].doc
          /\ op'[t].before = op[t].before
          /\ \A u \in Thread : u # t => op'[u] = op[u]
      BY <1>1, <1>3, NewOp DEF Moves
    <2>3. file'[op[t].path]["target"] # Torn
      BY <2>1, <1>3 DEF AtomicOnly, Here, VolumeWriterAssumption
    <2>4. OldOrNew(t)'
      BY <1>3, <2>2 DEF AtomicOnly, OldOrNew, Here
    <2>5. /\ \A q \in File : q # op[t].path => file'[q] = file[q]
          /\ strategy' \in {"none", "atomic"}
      BY <1>3 DEF Moves, AtomicOnly
    <2>6. \A u \in Thread : u # t => op[u].path # op[t].path /\ op'[u] = op[u]
      BY <1>3, <2>2, OwnPath
    <2> QED BY <1>3, <2>1, <2>2, <2>3, <2>4, <2>5, <2>6, AtomicOnlyKept
  <1>4. CASE Open(t, "tmp open", "tmp", "tmp fill", "tmp unlink")
    <2>1. ~At(t, "idle") /\ Torn \in Content
      BY <1>4 DEF Open, At, Content
    <2>2. Put(t, "tmp", Torn) /\ Goto(t, "tmp fill")
      BY <1>4 DEF Open, Opening, MayFail, Renames
    <2>3. Touches(t, "tmp", "tmp fill")
      BY <1>1, <1>4, <2>1, <2>2, PutTouches DEF Open
    <2> QED BY <1>1, <1>2, <1>3, <2>1, <2>3 DEF Touches
  <1>5. CASE Fill(t, "tmp fill", "tmp", "replace", "tmp unlink")
    <2>1. ~At(t, "idle")
      BY <1>5 DEF Fill, At
    <2>2. op[t].doc \in Content
      BY <1>1, <2>1, OpOf DEF Content
    <2>3. Put(t, "tmp", op[t].doc) /\ Goto(t, "replace")
      BY <1>5 DEF Fill, Renames
    <2>4. Touches(t, "tmp", "replace")
      BY <1>1, <1>5, <2>1, <2>2, <2>3, PutTouches DEF Fill
    <2> QED BY <1>1, <1>2, <1>3, <2>1, <2>4 DEF Touches
  <1>6. CASE Replace(t, "replace", "atomic done", "tmp unlink")
    <2>1. ~At(t, "idle") /\ Here(t, "tmp") = op[t].doc
      BY <1>6 DEF Replace, At, WriterInv, Whole
    <2>2. ~ Goto(t, "tmp unlink")
      <3>1. SUFFICES ASSUME Goto(t, "tmp unlink") PROVE FALSE
        OBVIOUS
      <3>2. Replace(t, "replace", "atomic done", "tmp unlink") /\ ~ MayFail("rename")
        BY <1>6 DEF MayFail, Renames
      <3>3. Goto(t, "atomic done")
        BY <3>2 DEF Replace
      <3>4. op \in [Thread -> Op] /\ op[t] \in Op
        BY <1>1 DEF TypeOK
      <3>5. "tmp unlink" \in PC
        BY DEF PC
      <3>6. op'[t].at = "tmp unlink"
        BY <1>1, <2>1, <3>1, <3>5, NewOp DEF Goto
      <3>7. op'[t].at = "atomic done"
        BY <1>1, <1>2, <2>1, <3>3, NewOp DEF Goto
      <3> QED BY <3>6, <3>7
    <2>3. Moves(t, "atomic done") /\ file'[op[t].path]["target"] = op[t].doc
      BY <1>1, <1>6, <2>1, <2>2, ReplaceMoves DEF Moves, Goto
    <2> QED BY <1>2, <1>3, <2>1, <2>3
  <1>7. CASE DropTmp(t)
    BY <1>7 DEF DropTmp, Unlink, At, AtomicOnly, AtomicPC
  <1> QED BY <1>4, <1>5, <1>6, <1>7 DEF Atomic

LEMMA NoOtherCall ==
    ASSUME AtomicOnly, NEW t \in Thread PROVE ~Direct(t) /\ ~Recreate(t) /\ ~Raise(t)
  <1>1. op[t].at \in AtomicPC
    BY DEF AtomicOnly
  <1> QED BY <1>1 DEF AtomicPC, At, Direct, FillInPlace, Recreate, OpenSpare, Raise,
                      Open, Fill, Unlink

LEMMA AtomicSettles ==
    ASSUME VolumeWriterAssumption, WriterInv, AtomicOnly, NEW t \in Thread, Settle(t)
    PROVE  AtomicOnly'
  <1>1. op[t].at = "atomic done" /\ ~At(t, "idle") /\ strategy' = "atomic" /\ file' = file
    BY DEF Settle, Done, AtomicOnly, AtomicPC, StrategyOf, At
  <1>2. TypeOK /\ op[t].path \in File
    BY <1>1, OpOf DEF WriterInv
  <1>3. /\ \A u \in Thread : u # t => op'[u] = op[u]
        /\ \/ op'[t] = NoOp
           \/ op'[t].at \in AtomicPC /\ op'[t].path = op[t].path /\ OldOrNew(t)'
    <2>1. CASE op[t].path = Probe
      <3>1. op' = [op EXCEPT ![t].at = "probe unlink"] /\ "probe unlink" \in PC \cap AtomicPC
        BY <2>1 DEF Settle, Ends, Goto, PC, AtomicPC
      <3>2. /\ \A u \in Thread : u # t => op'[u] = op[u]
            /\ op'[t].at = "probe unlink" /\ op'[t].path = op[t].path
            /\ op'[t].doc = op[t].doc /\ op'[t].before = op[t].before
        BY <1>1, <1>2, <3>1, NewOp
      <3> QED BY <1>1, <3>1, <3>2 DEF AtomicOnly, OldOrNew, Here
    <2>2. CASE op[t].path # Probe
      BY <1>2, <2>2 DEF Settle, Ends, TypeOK
    <2> QED BY <2>1, <2>2
  <1>4. \A u \in Thread : u # t => op[u].path # op[t].path /\ op'[u] = op[u]
    BY <1>1, <1>3, OwnPath
  <1>5. file'[op[t].path]["target"] # Torn
    BY <1>1, <1>2 DEF AtomicOnly
  <1> QED BY <1>1, <1>2, <1>3, <1>4, <1>5, AtomicOnlyKept

LEMMA AtomicEndProbe ==
    ASSUME VolumeWriterAssumption, WriterInv, AtomicOnly, NEW t \in Thread, EndProbe(t)
    PROVE  AtomicOnly'
  <1>1. ~At(t, "idle") /\ strategy' = strategy
    BY DEF EndProbe, At
  <1>2. TypeOK /\ op[t].path \in File /\ op \in [Thread -> Op]
    BY <1>1, OpOf DEF WriterInv, TypeOK
  <1>3. op'[t] = NoOp /\ \A u \in Thread : u # t => op'[u] = op[u]
    BY <1>2 DEF EndProbe
  <1> DEFINE own == [file[op[t].path] EXCEPT !["target"] = Absent]
  <1>4. file' = file \/ file' = [file EXCEPT ![op[t].path] = own]
    BY DEF EndProbe, Put
  <1>5. file \in [File -> [Kind -> Content]] /\ own["target"] = Absent
    BY <1>2 DEF TypeOK, Kind
  <1> HIDE DEF own
  <1>6. /\ \A q \in File : q # op[t].path => file'[q] = file[q]
        /\ file'[op[t].path]["target"] # Torn
    BY <1>2, <1>4, <1>5 DEF AtomicOnly, VolumeWriterAssumption
  <1>7. \A u \in Thread : u # t => op[u].path # op[t].path /\ op'[u] = op[u]
    BY <1>1, <1>3, OwnPath
  <1> QED BY <1>1, <1>2, <1>3, <1>6, <1>7, AtomicOnlyKept DEF AtomicOnly

LEMMA AtomicBegins ==
    ASSUME VolumeWriterAssumption, WriterInv, AtomicOnly,
           NEW t \in Thread, NEW p \in File, NEW d \in Doc, Begin(t, p, d)
    PROVE  AtomicOnly'
  <1>1. TypeOK /\ file \in [File -> [Kind -> Content]] /\ op \in [Thread -> Op] /\ "target" \in Kind
    BY DEF WriterInv, TypeOK, Kind
  <1>2. Found(p)["target"] # Torn
    BY <1>1 DEF Found, AtomicOnly, VolumeWriterAssumption
  <1>3. FirstCall(strategy) = "tmp open"
    BY DEF FirstCall, AtomicOnly
  <1>4. file' = [file EXCEPT ![p] = Found(p)] /\ strategy' = strategy
    BY DEF Begin
  <1>5. file'[p] = Found(p) /\ \A q \in File : q # p => file'[q] = file[q]
    BY <1>1, <1>4
  <1>6. /\ op'[t] = [at |-> "tmp open", path |-> p, doc |-> d, before |-> Found(p)["target"]]
        /\ \A u \in Thread : u # t => op'[u] = op[u]
    BY <1>1, <1>3 DEF Begin
  <1> DEFINE new == [at |-> "tmp open", path |-> p, doc |-> d, before |-> Found(p)["target"]]
  <1>7. op'[t].at \in AtomicPC /\ op'[t].path = p /\ op'[t].before = Found(p)["target"]
    <2>1. new.at = "tmp open" /\ new.path = p /\ new.before = Found(p)["target"]
      OBVIOUS
    <2>2. op'[t] = new
      BY <1>6
    <2> HIDE DEF new
    <2> QED BY <2>1, <2>2 DEF AtomicPC
  <1>8. OldOrNew(t)'
    BY <1>5, <1>7 DEF OldOrNew, Here
  <1>9. \A u \in Thread : u # t => op[u].path # p /\ op'[u] = op[u]
    BY <1>6, BeginsAlone
  <1>10. strategy' \in {"none", "atomic"} /\ file'[p]["target"] # Torn
    BY <1>2, <1>4, <1>5 DEF AtomicOnly
  <1> QED BY <1>5, <1>7, <1>8, <1>9, <1>10, AtomicOnlyKept

LEMMA AtomicNext ==
    ASSUME VolumeWriterAssumption, Inv, Renames => AtomicOnly, [Next]_vars
    PROVE  (Renames => AtomicOnly)'
  <1>1. UNCHANGED volume
    BY DEF Next, Write, Atomic, DropTmp, Direct, FillInPlace, Recreate, OpenSpare, Open, Fill,
           Replace, Unlink, Settle, Raise, EndProbe, Begin, Crash, vars
  <1> SUFFICES ASSUME Renames PROVE AtomicOnly'
    BY <1>1 DEF Renames, volume
  <1>2. WriterInv /\ AtomicOnly
    BY DEF Inv
  <1>3. ASSUME NEW t \in Thread, Write(t) PROVE AtomicOnly'
    BY <1>2, <1>3, AtomicCalls, NoOtherCall, AtomicSettles, AtomicEndProbe DEF Write
  <1>4. ASSUME NEW t \in Thread, NEW p \in File, NEW d \in Doc, Begin(t, p, d)
        PROVE  AtomicOnly'
    BY <1>2, <1>4, AtomicBegins
  <1>5. CASE Crash
    <2>1. \A t \in Thread : op'[t] = NoOp /\ At(t, "idle")'
      BY <1>5, Outcomes DEF Crash, At
    <2> QED BY <1>2, <1>5, <2>1, Outcomes DEF Crash, AtomicOnly, AtomicPC
  <1>6. CASE UNCHANGED vars
    BY <1>2, <1>6 DEF vars, AtomicOnly, OldOrNew, At, Here
  <1> QED BY <1>3, <1>4, <1>5, <1>6 DEF Next

LEMMA AtomicInit ==
    ASSUME VolumeWriterAssumption, Init PROVE AtomicOnly
  <1>1. \A p \in File : file[p]["target"] # Torn
    BY DEF Init, Kind, VolumeWriterAssumption
  <1>2. \A t \in Thread : op[t] = NoOp /\ At(t, "idle")
    BY Outcomes DEF Init, At
  <1>3. strategy = "none"
    BY DEF Init
  <1> QED BY <1>1, <1>2, <1>3, Outcomes DEF AtomicOnly, AtomicPC

\* On a mount that takes every file and renames, and whose calls do not fail, no
\* target is torn or missing at any point of a write or after a crash: it is the
\* old document or the new one (storage.py: _write_atomic).
THEOREM RenameIsSafe == Spec => []RenameIsCrashSafe
  <1>1. Init => (Renames => AtomicOnly)
    BY VolumeWriterAssumption, AtomicInit
  <1>2. Inv /\ (Renames => AtomicOnly) /\ [Next]_vars => (Renames => AtomicOnly)'
    BY VolumeWriterAssumption, AtomicNext
  <1>3. Inv /\ (Renames => AtomicOnly) => RenameIsCrashSafe
    <2> SUFFICES ASSUME Inv, Renames, AtomicOnly PROVE RenameIsCrashSafe
      BY DEF RenameIsCrashSafe, Renames
    <2>1. ASSUME NEW p \in File, NEW t \in Thread, op[t].path = p
          PROVE  file[p]["target"] \in {op[t].before, op[t].doc}
      <3>1. ~At(t, "idle")
        BY <2>1, Outcomes, VolumeWriterAssumption
           DEF Inv, WriterInv, IdleIsNoOp, VolumeWriterAssumption, File
      <3> QED BY <2>1, <3>1 DEF AtomicOnly, OldOrNew, Here
    <2> QED BY <2>1 DEF AtomicOnly, RenameIsCrashSafe
  <1> QED BY <1>1, <1>2, <1>3, InvHolds, PTL DEF Spec
-----------------------------------------------------------------------------
(***************************************************************************)
(* A usable mount: no thread ever comes to the end of the ladder.          *)
(***************************************************************************)
Serves == steady /\ mount \in Usable /\ (crashes = 0 \/ "overwrite" \in mount)

\* The calls a thread may come to: those of the strategies up to the one that
\* works on this mount, and of that one only the calls that follow a success.
Rungs ==
    CASE "rename" \in mount -> AtomicPC \ {"idle"}
      [] "rename" \notin mount /\ "overwrite" \in mount ->
            {"tmp open", "tmp fill", "replace", "tmp unlink", "open", "fill",
             "direct done", "probe unlink"}
      [] OTHER ->
            {"tmp open", "tmp fill", "replace", "tmp unlink", "open", "fill", "direct done",
             "spare open", "spare fill", "unlink", "reopen", "refill", "drop",
             "recreate done", "probe unlink"}

\* The sibling that the strategy that works creates, and where a thread has it.
Sibling == IF "rename" \in mount THEN "tmp" ELSE "spare"
Holding == IF "rename" \in mount THEN {"tmp fill", "replace"}
                                 ELSE {"spare fill", "unlink", "reopen", "refill", "drop"}

\* open(f, "w") works, whatever c is there.
Creatable(c) == c = Absent \/ "overwrite" \in mount

Climbs(t) ==
    /\ op[t].at \in Rungs
    /\ op[t].at \notin Holding => Creatable(Here(t, Sibling))
    /\ At(t, "reopen") => Here(t, "target") = Absent

\* Where nothing is overwritten, siblings are there in the hands of a thread only,
\* so that every attempt creates its own, and the target is gone when it is created
\* anew.
Ladder ==
    /\ FirstCall(strategy) \in Rungs
    /\ result.is # "raised"
    /\ \A t \in Thread : ~At(t, "idle") => Climbs(t)
    /\ \A p \in File : (\A t \in Thread : op[t].path # p) => Creatable(file[p][Sibling])

\* A usable mount renames, or overwrites, or at least unlinks.
LEMMA ThreeMounts ==
    ASSUME Serves
    PROVE  /\ steady /\ "create" \in mount
           /\ \/ /\ "rename" \in mount
                 /\ Rungs = AtomicPC \ {"idle"} /\ Sibling = "tmp"
                 /\ Holding = {"tmp fill", "replace"}
              \/ /\ "rename" \notin mount /\ Sibling = "spare"
                 /\ Holding = {"spare fill", "unlink", "reopen", "refill", "drop"}
                 /\ \/ /\ "overwrite" \in mount
                       /\ Rungs = {"tmp open", "tmp fill", "replace", "tmp unlink", "open",
                                   "fill", "direct done", "probe unlink"}
                    \/ /\ "overwrite" \notin mount /\ "unlink" \in mount
                       /\ Rungs = {"tmp open", "tmp fill", "replace", "tmp unlink", "open",
                                   "fill", "direct done", "spare open", "spare fill", "unlink",
                                   "reopen", "refill", "drop", "recreate done", "probe unlink"}
  <1>1. steady /\ "create" \in mount
        /\ ("rename" \in mount \/ "overwrite" \in mount \/ "unlink" \in mount)
    BY DEF Serves, Usable
  <1> QED BY <1>1 DEF Rungs, Sibling, Holding

LEMMA SameMount ==
    ASSUME UNCHANGED volume
    PROVE  Rungs' = Rungs /\ Sibling' = Sibling /\ Holding' = Holding
  BY DEF volume, Rungs, Sibling, Holding

\* A step of t on p, on which nobody else is at work, that leaves t on a rung or ends.
LEMMA LadderKept ==
    ASSUME VolumeWriterAssumption, WriterInv, Ladder, NEW t \in Thread, NEW p \in File,
           \A u \in Thread : u # t => op[u].path # p /\ op'[u] = op[u],
           \A q \in File : q # p => file'[q] = file[q],
           op[t].path \in {p, NoDoc}, UNCHANGED volume,
           FirstCall(strategy') \in Rungs, result'.is # "raised",
           \/ op'[t] = NoOp /\ Creatable(file'[p][Sibling])
           \/ op'[t].path = p /\ Climbs(t)'
    PROVE  Ladder'
  <1>1. Rungs' = Rungs /\ Sibling' = Sibling /\ Holding' = Holding
    BY SameMount
  <1>2. NoDoc \notin File
    BY DEF VolumeWriterAssumption, File
  <1>3. ASSUME NEW u \in Thread, ~At(u, "idle")' PROVE Climbs(u)'
    <2>1. CASE u = t
      BY <2>1, <1>3, Outcomes DEF At
    <2>2. CASE u # t
      <3>1. op'[u] = op[u] /\ ~At(u, "idle") /\ op[u].path # p
        BY <2>2, <1>3 DEF At
      <3>2. op[u].path \in File
        BY <3>1, OpOf DEF WriterInv
      <3>3. file'[op[u].path] = file[op[u].path]
        BY <3>1, <3>2
      <3> QED BY <1>1, <3>1, <3>3 DEF Ladder, Climbs, Creatable, At, Here, volume
    <2> QED BY <2>1, <2>2
  <1>4. ASSUME NEW q \in File, \A u \in Thread : op'[u].path # q
        PROVE  Creatable(file'[q][Sibling])
    <2>1. CASE q = p
      BY <1>4, <2>1
    <2>2. CASE q # p
      <3>1. \A u \in Thread : op[u].path # q
        BY <1>2, <1>4, <2>2
      <3> QED BY <2>2, <3>1 DEF Ladder
    <2> QED BY <2>1, <2>2
  <1>5. FirstCall(strategy)' \in Rungs
    BY DEF FirstCall
  <1> QED BY <1>1, <1>3, <1>4, <1>5 DEF Ladder, Creatable, volume

\* What a call of t shows of the place pc it goes on to.
ClimbsTo(t, pc) ==
    /\ pc \in Rungs
    /\ pc \notin Holding => Creatable(file'[op[t].path][Sibling])
    /\ pc = "reopen" => file'[op[t].path]["target"] = Absent

LEMMA RungsArePlaces == Rungs \subseteq PC \ {"idle"}
  BY DEF Rungs, AtomicPC, PC, Done

LEMMA MoveClimbs ==
    ASSUME VolumeWriterAssumption, WriterInv, Ladder, NEW t \in Thread, ~At(t, "idle"),
           NEW pc, Moves(t, pc), ClimbsTo(t, pc)
    PROVE  Ladder'
  <1>1. TypeOK /\ op[t].path \in File /\ pc \in PC \ {"idle"}
    BY OpOf, RungsArePlaces DEF WriterInv, ClimbsTo
  <1>2. /\ op'[t].at = pc /\ op'[t].path = op[t].path
        /\ \A u \in Thread : u # t => op'[u] = op[u]
    BY <1>1, NewOp DEF Moves
  <1>3. UNCHANGED volume /\ strategy' = strategy /\ result'.is # "raised"
    BY DEF Moves, NoResult
  <1>4. Climbs(t)'
    BY <1>2, <1>3, SameMount DEF ClimbsTo, Climbs, Creatable, Here, At, volume
  <1>5. \A u \in Thread : u # t => op[u].path # op[t].path /\ op'[u] = op[u]
    BY <1>2, OwnPath
  <1>6. FirstCall(strategy') \in Rungs
    BY <1>3 DEF Ladder
  <1>7. \A q \in File : q # op[t].path => file'[q] = file[q]
    BY DEF Moves
  <1> QED BY <1>1, <1>2, <1>3, <1>4, <1>5, <1>6, <1>7, LadderKept

\* The calls on a mount where none fails now and then.
LEMMA SteadyOpen ==
    ASSUME TypeOK, steady, NEW t \in Thread, NEW from, from # "idle", NEW k \in Kind,
           NEW next, NEW failed, Open(t, from, k, next, failed)
    PROVE  \/ Opening(Here(t, k)) \in mount /\ Touches(t, k, next)
           \/ Opening(Here(t, k)) \notin mount /\ Touches(t, k, failed)
  <1>1. ~At(t, "idle") /\ Torn \in Content
    BY DEF Open, At, Content
  <1> QED BY <1>1, PutTouches, StayTouches DEF Open, MayWork, MayFail

LEMMA SteadyFill ==
    ASSUME TypeOK, steady, NEW t \in Thread, NEW from, from # "idle", NEW k \in Kind,
           NEW next, NEW failed, Fill(t, from, k, next, failed)
    PROVE  Touches(t, k, next)
  <1>1. ~At(t, "idle")
    BY DEF Fill, At
  <1>2. op[t].doc \in Content
    BY <1>1, OpOf DEF Content
  <1> QED BY <1>1, <1>2, PutTouches DEF Fill

LEMMA SteadyUnlink ==
    ASSUME TypeOK, steady, "unlink" \in mount, NEW t \in Thread, NEW from, from # "idle",
           NEW k \in Kind, NEW next, NEW failed, Unlink(t, from, k, next, failed)
    PROVE  Touches(t, k, next) /\ file'[op[t].path][k] = Absent
  <1>1. ~At(t, "idle") /\ Absent \in Content
    BY DEF Unlink, At, Content
  <1> QED BY <1>1, PutTouches DEF Unlink, MayFail

\* os.replace either works, or changes nothing.
LEMMA SteadyReplace ==
    ASSUME TypeOK, steady, NEW t \in Thread, NEW next, NEW failed,
           Replace(t, "replace", next, failed)
    PROVE  \/ "rename" \in mount /\ Moves(t, next) /\ file'[op[t].path]["tmp"] = Absent
           \/ "rename" \notin mount /\ Touches(t, "target", failed)
  <1>1. CASE "rename" \in mount
    <2>1. ~At(t, "idle")
      BY DEF Replace, At
    <2>2. op[t].path \in File /\ file \in [File -> [Kind -> Content]]
      BY <2>1, OpOf DEF TypeOK
    <2> DEFINE own == [[file[op[t].path] EXCEPT !["target"] = Here(t, "tmp")] EXCEPT !["tmp"] = Absent]
    <2>3. file' = [file EXCEPT ![op[t].path] = own] /\ Goto(t, next)
      BY <1>1, <2>2 DEF Replace, MayFail
    <2>4. own \in [Kind -> Content] /\ own["tmp"] = Absent
      BY <2>2 DEF Kind, Content, Here
    <2> HIDE DEF own
    <2>5. /\ file' \in [File -> [Kind -> Content]] /\ file'[op[t].path] = own
          /\ \A p \in File : p # op[t].path => file'[p] = file[p]
      BY <2>2, <2>3, <2>4
    <2>6. Moves(t, next)
      BY <2>3, <2>5 DEF Replace, Goto, Unfinished, Moves
    <2> QED BY <1>1, <2>4, <2>5, <2>6
  <1>2. CASE "rename" \notin mount
    <2>1. "target" \in Kind /\ file' = file /\ Goto(t, failed)
      BY <1>2 DEF Replace, MayWork, Kind
    <2> QED BY <1>2, <2>1, StayTouches DEF Replace
  <1> QED BY <1>1, <1>2

LEMMA AtomicClimbs ==
    ASSUME VolumeWriterAssumption, WriterInv, Serves, Ladder, NEW t \in Thread, Atomic(t)
    PROVE  Ladder'
  <1>1. TypeOK /\ {"tmp", "target", "spare"} = Kind
    BY DEF WriterInv, Kind
  <1>2. CASE Open(t, "tmp open", "tmp", "tmp fill", "tmp unlink")
    <2>1. ~At(t, "idle") /\ Climbs(t) /\ op[t].at = "tmp open"
      BY <1>2 DEF Open, At, Ladder
    <2>2. \/ Opening(Here(t, "tmp")) \in mount /\ Touches(t, "tmp", "tmp fill")
          \/ Opening(Here(t, "tmp")) \notin mount /\ Touches(t, "tmp", "tmp unlink")
      BY <1>1, <1>2, SteadyOpen, ThreeMounts
    <2>3. CASE "rename" \in mount
      <3>1. Creatable(Here(t, "tmp"))
        BY <2>1, <2>3, ThreeMounts DEF Climbs
      <3>2. Moves(t, "tmp fill")
        BY <2>2, <2>3, <3>1, ThreeMounts DEF Opening, Creatable, Touches
      <3>3. ClimbsTo(t, "tmp fill")
        BY <2>3, ThreeMounts DEF ClimbsTo, AtomicPC
      <3> QED BY <2>1, <3>2, <3>3, MoveClimbs
    <2>4. CASE "rename" \notin mount
      <3>1. Creatable(Here(t, "spare")) /\ Sibling = "spare"
        BY <2>1, <2>4, ThreeMounts DEF Climbs
      <3>2. ASSUME NEW pc \in {"tmp fill", "tmp unlink"}, Touches(t, "tmp", pc) PROVE Ladder'
        <4>1. Creatable(file'[op[t].path]["spare"])
          BY <1>1, <3>1, <3>2 DEF Touches
        <4>2. ClimbsTo(t, pc)
          BY <2>4, <3>1, <4>1, ThreeMounts DEF ClimbsTo
        <4> QED BY <2>1, <3>2, <4>2, MoveClimbs DEF Touches
      <3> QED BY <2>2, <3>2
    <2> QED BY <2>3, <2>4
  <1>3. CASE Fill(t, "tmp fill", "tmp", "replace", "tmp unlink")
    <2>1. ~At(t, "idle") /\ Climbs(t) /\ op[t].at = "tmp fill"
      BY <1>3 DEF Fill, At, Ladder
    <2>2. Touches(t, "tmp", "replace")
      BY <1>1, <1>3, SteadyFill, ThreeMounts
    <2>3. ClimbsTo(t, "replace")
      <3>1. CASE "rename" \in mount
        BY <3>1, ThreeMounts DEF ClimbsTo, AtomicPC
      <3>2. CASE "rename" \notin mount
        <4>1. Creatable(file'[op[t].path]["spare"])
          BY <1>1, <2>1, <2>2, <3>2, ThreeMounts DEF Touches, Climbs
        <4> QED BY <3>2, <4>1, ThreeMounts DEF ClimbsTo
      <3> QED BY <3>1, <3>2
    <2> QED BY <2>1, <2>2, <2>3, MoveClimbs DEF Touches
  <1>4. CASE Replace(t, "replace", "atomic done", "tmp unlink")
    <2>1. ~At(t, "idle") /\ Climbs(t) /\ op[t].at = "replace"
      BY <1>4 DEF Replace, At, Ladder
    <2>2. \/ "rename" \in mount /\ Moves(t, "atomic done") /\ file'[op[t].path]["tmp"] = Absent
          \/ "rename" \notin mount /\ Touches(t, "target", "tmp unlink")
      BY <1>1, <1>4, SteadyReplace, ThreeMounts
    <2>3. CASE "rename" \in mount
      <3>1. ClimbsTo(t, "atomic done")
        BY <2>2, <2>3, ThreeMounts DEF ClimbsTo, Creatable, AtomicPC
      <3> QED BY <2>1, <2>2, <2>3, <3>1, MoveClimbs
    <2>4. CASE "rename" \notin mount
      <3>1. Creatable(file'[op[t].path]["spare"])
        BY <1>1, <2>1, <2>2, <2>4, ThreeMounts DEF Touches, Climbs
      <3>2. ClimbsTo(t, "tmp unlink")
        BY <2>4, <3>1, ThreeMounts DEF ClimbsTo
      <3> QED BY <2>1, <2>2, <2>4, <3>2, MoveClimbs DEF Touches
    <2> QED BY <2>3, <2>4
  <1>5. CASE DropTmp(t)
    <2>1. ~At(t, "idle") /\ Climbs(t) /\ op[t].at = "tmp unlink"
      BY <1>5 DEF DropTmp, Unlink, At, Ladder
    <2>2. "rename" \notin mount /\ Creatable(Here(t, "spare"))
      BY <2>1, ThreeMounts DEF Climbs, AtomicPC
    <2>3. Touches(t, "tmp", "open")
      BY <1>1, <1>5, UnlinkTouches DEF DropTmp
    <2>4. Creatable(file'[op[t].path]["spare"])
      BY <1>1, <2>2, <2>3 DEF Touches
    <2>5. ClimbsTo(t, "open")
      BY <2>2, <2>4, ThreeMounts DEF ClimbsTo
    <2> QED BY <2>1, <2>3, <2>5, MoveClimbs DEF Touches
  <1> QED BY <1>2, <1>3, <1>4, <1>5 DEF Atomic

LEMMA DirectClimbs ==
    ASSUME VolumeWriterAssumption, WriterInv, Serves, Ladder, NEW t \in Thread, Direct(t)
    PROVE  Ladder'
  <1>1. TypeOK /\ {"tmp", "target", "spare"} = Kind
    BY DEF WriterInv, Kind
  <1>2. op[t].at \in {"open", "fill"} /\ ~At(t, "idle") /\ Climbs(t)
    BY DEF Direct, FillInPlace, Open, Fill, At, Ladder
  <1>3. "rename" \notin mount /\ Creatable(Here(t, "spare"))
    BY <1>2, ThreeMounts DEF Climbs, AtomicPC
  <1>4. ASSUME NEW pc \in {"fill", "spare open", "direct done"}, Touches(t, "target", pc),
               "overwrite" \in mount => pc # "spare open"
        PROVE  Ladder'
    <2>1. Creatable(file'[op[t].path]["spare"])
      BY <1>1, <1>3, <1>4 DEF Touches
    <2>2. ClimbsTo(t, pc)
      BY <1>3, <1>4, <2>1, ThreeMounts DEF ClimbsTo
    <2> QED BY <1>2, <1>4, <2>2, MoveClimbs DEF Touches
  <1>5. CASE Open(t, "open", "target", "fill", "spare open")
    <2>1. \/ Opening(Here(t, "target")) \in mount /\ Touches(t, "target", "fill")
          \/ Opening(Here(t, "target")) \notin mount /\ Touches(t, "target", "spare open")
      BY <1>1, <1>5, SteadyOpen, ThreeMounts
    <2>2. "overwrite" \in mount => Opening(Here(t, "target")) \in mount
      BY ThreeMounts DEF Opening
    <2> QED BY <1>4, <2>1, <2>2
  <1>6. CASE FillInPlace(t)
    <2>1. Touches(t, "target", "direct done")
      BY <1>1, <1>6, SteadyFill, ThreeMounts DEF FillInPlace
    <2> QED BY <1>4, <2>1
  <1> QED BY <1>5, <1>6 DEF Direct

LEMMA RecreateClimbs ==
    ASSUME VolumeWriterAssumption, WriterInv, Serves, Ladder, NEW t \in Thread, Recreate(t)
    PROVE  Ladder'
  <1>1. TypeOK /\ {"tmp", "target", "spare"} = Kind
    BY DEF WriterInv, Kind
  <1>2. /\ op[t].at \in {"spare open", "spare fill", "spare unlink", "unlink", "reopen",
                         "refill", "drop", "drop and raise"}
        /\ ~At(t, "idle") /\ Climbs(t)
    BY DEF Recreate, OpenSpare, Open, Fill, Unlink, At, Ladder
  <1>3. /\ op[t].at \in Rungs
        /\ "rename" \notin mount /\ "overwrite" \notin mount /\ "unlink" \in mount
    BY <1>2, ThreeMounts DEF Climbs, AtomicPC
  <1>4. ASSUME NEW pc \in {"spare fill", "unlink", "reopen", "refill", "drop"}, Moves(t, pc),
               pc = "reopen" => file'[op[t].path]["target"] = Absent
        PROVE  Ladder'
    <2>1. ClimbsTo(t, pc)
      BY <1>3, <1>4, ThreeMounts DEF ClimbsTo
    <2> QED BY <1>2, <1>4, <2>1, MoveClimbs
  <1>5. CASE OpenSpare(t)
    <2>1. Creatable(Here(t, "spare"))
      BY <1>2, <1>3, <1>5, ThreeMounts DEF Climbs, OpenSpare, Open, At
    <2>2. Moves(t, "spare fill")
      BY <1>1, <1>5, <2>1, SteadyOpen, ThreeMounts DEF OpenSpare, Opening, Creatable, Touches
    <2> QED BY <1>4, <2>2
  <1>6. CASE Fill(t, "spare fill", "spare", "unlink", "spare unlink")
    <2>1. Moves(t, "unlink")
      BY <1>1, <1>6, SteadyFill, ThreeMounts DEF Touches
    <2> QED BY <1>4, <2>1
  <1>7. CASE Unlink(t, "unlink", "target", "reopen", "drop and raise")
    <2>1. Moves(t, "reopen") /\ file'[op[t].path]["target"] = Absent
      BY <1>1, <1>3, <1>7, SteadyUnlink, ThreeMounts DEF Touches
    <2> QED BY <1>4, <2>1
  <1>8. CASE Open(t, "reopen", "target", "refill", "drop and raise")
    <2>1. Here(t, "target") = Absent
      BY <1>2, <1>8 DEF Climbs, Open
    <2>2. Moves(t, "refill")
      BY <1>1, <1>8, <2>1, SteadyOpen, ThreeMounts DEF Opening, Touches
    <2> QED BY <1>4, <2>2
  <1>9. CASE Fill(t, "refill", "target", "drop", "drop and raise")
    <2>1. Moves(t, "drop")
      BY <1>1, <1>9, SteadyFill, ThreeMounts DEF Touches
    <2> QED BY <1>4, <2>1
  <1>10. CASE Unlink(t, "drop", "spare", "recreate done", "recreate done")
    <2>1. Moves(t, "recreate done") /\ file'[op[t].path]["spare"] = Absent
      BY <1>1, <1>3, <1>10, SteadyUnlink, ThreeMounts DEF Touches
    <2>2. ClimbsTo(t, "recreate done")
      BY <1>3, <2>1, ThreeMounts DEF ClimbsTo, Creatable
    <2> QED BY <1>2, <2>1, <2>2, MoveClimbs
  <1>11. op[t].at \notin {"spare unlink", "drop and raise"}
    BY <1>3, ThreeMounts
  <1>12. ~ Unlink(t, "spare unlink", "spare", "raise", "raise")
         /\ ~ Unlink(t, "drop and raise", "spare", "raise", "raise")
    BY <1>11 DEF Unlink, At
  <1> QED BY <1>5, <1>6, <1>7, <1>8, <1>9, <1>10, <1>12 DEF Recreate

LEMMA SettleClimbs ==
    ASSUME VolumeWriterAssumption, WriterInv, Serves, Ladder, NEW t \in Thread, Settle(t)
    PROVE  Ladder'
  <1>1. op[t].at \in Done \cap Rungs /\ ~At(t, "idle") /\ Climbs(t)
    BY DEF Settle, Done, At, Ladder, Climbs
  <1>2. TypeOK /\ op[t].path \in File
    BY <1>1, OpOf DEF WriterInv
  <1>3. Creatable(Here(t, Sibling)) /\ file' = file /\ UNCHANGED volume
    BY <1>1, ThreeMounts DEF Climbs, Settle, Done
  <1>4. FirstCall(strategy') \in Rungs
    BY <1>1, ThreeMounts DEF Settle, Done, StrategyOf, FirstCall, AtomicPC
  <1>5. result'.is # "raised"
    BY DEF Settle, Ends
  <1>6. /\ \A u \in Thread : u # t => op'[u] = op[u]
        /\ \/ op'[t] = NoOp
           \/ op'[t].path = op[t].path /\ Climbs(t)'
    <2>1. CASE op[t].path = Probe
      <3>1. op' = [op EXCEPT ![t].at = "probe unlink"] /\ "probe unlink" \in PC \cap Rungs
        BY <2>1, ThreeMounts DEF Settle, Ends, Goto, PC, AtomicPC
      <3>2. /\ \A u \in Thread : u # t => op'[u] = op[u]
            /\ op'[t].at = "probe unlink" /\ op'[t].path = op[t].path
        BY <1>1, <1>2, <3>1, NewOp
      <3>3. Climbs(t)'
        BY <1>3, <3>1, <3>2, SameMount DEF Climbs, Creatable, volume, Here, At
      <3> QED BY <3>2, <3>3
    <2>2. CASE op[t].path # Probe
      BY <1>2, <2>2 DEF Settle, Ends, TypeOK
    <2> QED BY <2>1, <2>2
  <1>7. \A u \in Thread : u # t => op[u].path # op[t].path /\ op'[u] = op[u]
    BY <1>1, <1>6, OwnPath
  <1> QED BY <1>2, <1>3, <1>4, <1>5, <1>6, <1>7, LadderKept DEF Here

LEMMA EndProbeClimbs ==
    ASSUME VolumeWriterAssumption, WriterInv, Serves, Ladder, NEW t \in Thread, EndProbe(t)
    PROVE  Ladder'
  <1>1. op[t].at = "probe unlink" /\ ~At(t, "idle") /\ Climbs(t)
    BY DEF EndProbe, At, Ladder
  <1>2. TypeOK /\ op[t].path \in File /\ op \in [Thread -> Op]
    BY <1>1, OpOf DEF WriterInv, TypeOK
  <1>3. Creatable(Here(t, Sibling)) /\ Sibling \in Kind \ {"target"}
    BY <1>1, ThreeMounts DEF Climbs, Kind
  <1>4. op'[t] = NoOp /\ \A u \in Thread : u # t => op'[u] = op[u]
    BY <1>2 DEF EndProbe
  <1> DEFINE own == [file[op[t].path] EXCEPT !["target"] = Absent]
  <1>5. file' = file \/ file' = [file EXCEPT ![op[t].path] = own]
    BY DEF EndProbe, Put
  <1>6. file \in [File -> [Kind -> Content]] /\ own[Sibling] = Here(t, Sibling)
    BY <1>2, <1>3 DEF TypeOK, Here
  <1> HIDE DEF own
  <1>7. /\ \A q \in File : q # op[t].path => file'[q] = file[q]
        /\ Creatable(file'[op[t].path][Sibling])
    BY <1>2, <1>3, <1>5, <1>6 DEF Here
  <1>8. \A u \in Thread : u # t => op[u].path # op[t].path /\ op'[u] = op[u]
    BY <1>1, <1>4, OwnPath
  <1>9. FirstCall(strategy') \in Rungs /\ result'.is # "raised" /\ UNCHANGED volume
    BY DEF EndProbe, Ladder, Unfinished, NoResult
  <1> QED BY <1>2, <1>4, <1>7, <1>8, <1>9, LadderKept

LEMMA BeginClimbs ==
    ASSUME VolumeWriterAssumption, WriterInv, Serves, Ladder,
           NEW t \in Thread, NEW p \in File, NEW d \in Doc, Begin(t, p, d)
    PROVE  Ladder'
  <1>1. /\ file \in [File -> [Kind -> Content]] /\ op \in [Thread -> Op]
        /\ op[t] = NoOp /\ op[t].path = NoDoc
    BY Outcomes DEF WriterInv, TypeOK, Begin, IdleIsNoOp
  <1>2. \A u \in Thread : u # t => op[u].path # p
    BY BeginsAlone
  <1>3. \A u \in Thread : op[u].path # p
    BY <1>1, <1>2 DEF VolumeWriterAssumption, File
  <1>4. Creatable(Found(p)[Sibling])
    BY <1>3 DEF Found, Creatable, Ladder, Sibling, Kind
  <1> DEFINE new == [at |-> FirstCall(strategy), path |-> p, doc |-> d,
                     before |-> Found(p)["target"]]
  <1>5. op' = [op EXCEPT ![t] = new] /\ file' = [file EXCEPT ![p] = Found(p)]
    BY DEF Begin
  <1>6. new.at = FirstCall(strategy) /\ new.path = p
    OBVIOUS
  <1> HIDE DEF new
  <1>7. /\ op'[t] = new /\ \A u \in Thread : u # t => op'[u] = op[u]
        /\ file'[p] = Found(p) /\ \A q \in File : q # p => file'[q] = file[q]
    BY <1>1, <1>5
  <1>8. FirstCall(strategy) \in Rungs /\ FirstCall(strategy) # "reopen"
    BY DEF Ladder, FirstCall
  <1>9. UNCHANGED volume /\ strategy' = strategy /\ result'.is # "raised"
    BY DEF Begin, Unfinished, NoResult
  <1>10. Climbs(t)'
    BY <1>4, <1>6, <1>7, <1>8, <1>9, SameMount DEF Climbs, Creatable, volume, Here, At
  <1> QED BY <1>1, <1>2, <1>6, <1>7, <1>8, <1>9, <1>10, LadderKept

LEMMA LadderNext ==
    ASSUME VolumeWriterAssumption, Inv, Serves => Ladder, [Next]_vars
    PROVE  (Serves => Ladder)'
  <1>1. CASE Crash
    <2>1. crashes' # 0 /\ UNCHANGED volume
      BY <1>1 DEF Crash, Inv, WriterInv, TypeOK
    <2>2. SUFFICES ASSUME Serves' PROVE Ladder'
      OBVIOUS
    <2>3. "overwrite" \in mount' /\ Serves
      BY <2>1, <2>2 DEF Serves, volume
    <2>4. \A t \in Thread : op'[t] = NoOp /\ At(t, "idle")'
      BY <1>1, Outcomes DEF Crash, At
    <2>5. FirstCall(strategy)' \in Rungs' /\ result'.is # "raised"
      BY <1>1, <2>1, <2>3, SameMount, ThreeMounts
         DEF Crash, FirstCall, AtomicPC, Unfinished, NoResult
    <2> QED BY <2>3, <2>4, <2>5 DEF Ladder, Creatable
  <1>2. CASE ~Crash
    <2>1. UNCHANGED <<volume, crashes>>
      BY <1>2 DEF Next, Write, Atomic, DropTmp, Direct, FillInPlace, Recreate, OpenSpare, Open,
             Fill, Replace, Unlink, Settle, Raise, EndProbe, Begin, vars
    <2> SUFFICES ASSUME Serves PROVE Ladder'
      BY <2>1 DEF Serves, volume
    <2>2. WriterInv /\ Ladder
      BY DEF Inv
    <2>3. ASSUME NEW t \in Thread, Write(t) PROVE Ladder'
      <3>1. ~ Raise(t)
        <4>1. "raise" \notin Rungs
          BY DEF Rungs, AtomicPC
        <4> QED BY <2>2, <4>1 DEF Raise, At, Ladder, Climbs
      <3> QED BY <2>2, <2>3, <3>1, AtomicClimbs, DirectClimbs, RecreateClimbs, SettleClimbs,
                 EndProbeClimbs DEF Write
    <2>4. ASSUME NEW t \in Thread, NEW p \in File, NEW d \in Doc, Begin(t, p, d)
          PROVE  Ladder'
      BY <2>2, <2>4, BeginClimbs
    <2>5. CASE UNCHANGED vars
      BY <2>2, <2>5, SameMount DEF vars, volume, Creatable, Ladder, Climbs, At, Here, FirstCall
    <2> QED BY <1>2, <2>3, <2>4, <2>5 DEF Next
  <1> QED BY <1>1, <1>2

LEMMA LadderInit ==
    ASSUME VolumeWriterAssumption, Init, Serves PROVE Ladder
  <1>1. \A t \in Thread : At(t, "idle")
    BY Outcomes DEF Init, At
  <1>2. \A p \in File : Creatable(file[p][Sibling])
    BY DEF Init, Creatable, Kind, Sibling
  <1>3. FirstCall(strategy) \in Rungs /\ result.is # "raised"
    BY ThreeMounts DEF Init, FirstCall, AtomicPC, NoResult
  <1> QED BY <1>1, <1>2, <1>3 DEF Ladder

\* On a mount that takes new files and renames, overwrites or unlinks, and until
\* the first kill, no write is ever refused: whatever strategy fails leaves the
\* files as the next one needs them (storage.py: WRITE_STRATEGIES).
THEOREM LadderIsLongEnough == Spec => []LadderSuffices
  <1>1. Init => (Serves => Ladder)
    BY VolumeWriterAssumption, LadderInit
  <1>2. Inv /\ (Serves => Ladder) /\ [Next]_vars => (Serves => Ladder)'
    BY VolumeWriterAssumption, LadderNext
  <1>3. (Serves => Ladder) => LadderSuffices
    BY DEF Serves, Ladder, LadderSuffices
  <1> QED BY <1>1, <1>2, <1>3, InvHolds, PTL DEF Spec

-----------------------------------------------------------------------------
(***************************************************************************)
(* Where the calls do not fail, a copy is left.  A mount that overwrites   *)
(* never leaves the atomic strategy; one that does not cannot truncate     *)
(* what it is to replace, and removes it only for a spare that is whole.   *)
(***************************************************************************)
OnlyNew == steady /\ "overwrite" \notin mount

\* The calls before which a document that was found is still in the target.
Untouched == {"tmp open", "tmp fill", "replace", "tmp unlink", "open", "spare open",
              "spare fill", "spare unlink", "unlink", "drop and raise", "raise"}

\* What a thread that replaces a document relies on, besides Whole.
Stands(t) ==
    op[t].before \in Doc =>
        /\ ~At(t, "fill")
        /\ op[t].at \in Untouched => Here(t, "target") = op[t].before
        /\ At(t, "reopen") => Here(t, "target") = Absent
        /\ op[t].at \in {"spare fill", "unlink", "reopen"} => "create" \in mount
        /\ At(t, "probe unlink") => OldOrNew(t)

AllStand == \A t \in Thread : Stands(t)

\* A step of t on p, on which nobody else is at work.
LEMMA StandsKept ==
    ASSUME VolumeWriterAssumption, WriterInv, AllStand, NEW t \in Thread, NEW p \in File,
           \A u \in Thread : u # t => op[u].path # p /\ op'[u] = op[u],
           \A q \in File : q # p => file'[q] = file[q],
           UNCHANGED volume, op'[t] = NoOp \/ Stands(t)'
    PROVE  AllStand'
  <1>1. NoOp.before \notin Doc
    BY DEF NoOp, VolumeWriterAssumption
  <1>2. ASSUME NEW u \in Thread PROVE Stands(u)'
    <2>1. CASE u = t
      BY <1>1, <2>1 DEF Stands
    <2>2. CASE u # t /\ At(u, "idle")
      <3>1. op'[u] = NoOp
        BY <2>2 DEF WriterInv, IdleIsNoOp
      <3> QED BY <1>1, <3>1 DEF Stands
    <2>3. CASE u # t /\ ~At(u, "idle")
      <3>1. op'[u] = op[u] /\ op[u].path # p /\ op[u].path \in File
        BY <2>3, OpOf DEF WriterInv
      <3>2. file'[op[u].path] = file[op[u].path]
        BY <3>1
      <3>3. Stands(u) /\ mount' = mount
        BY DEF AllStand, volume
      <3>4. Here(u, "target")' = Here(u, "target")
        BY <3>1, <3>2 DEF Here
      <3> QED BY <3>1, <3>3, <3>4 DEF Stands, OldOrNew, At
    <2> QED BY <2>1, <2>2, <2>3
  <1> QED BY <1>2 DEF AllStand

\* What a call of t shows of the place pc it goes on to.
StandsAt(t, pc) ==
    /\ pc \notin {"fill", "probe unlink"}
    /\ pc \in Untouched => file'[op[t].path]["target"] = op[t].before
    /\ pc = "reopen" => file'[op[t].path]["target"] = Absent
    /\ pc \in {"spare fill", "unlink", "reopen"} => "create" \in mount

LEMMA MoveStands ==
    ASSUME VolumeWriterAssumption, WriterInv, AllStand, NEW t \in Thread, ~At(t, "idle"),
           NEW pc \in PC, Moves(t, pc), op[t].before \in Doc => StandsAt(t, pc)
    PROVE  AllStand'
  <1>1. TypeOK /\ op[t].path \in File
    BY OpOf DEF WriterInv
  <1>2. /\ op'[t].at = pc /\ op'[t].path = op[t].path /\ op'[t].before = op[t].before
        /\ \A u \in Thread : u # t => op'[u] = op[u]
    BY <1>1, NewOp DEF Moves
  <1>3. UNCHANGED volume
    BY DEF Moves
  <1>4. Stands(t)'
    BY <1>2, <1>3 DEF Stands, StandsAt, At, Here, volume
  <1>5. \A u \in Thread : u # t => op[u].path # op[t].path /\ op'[u] = op[u]
    BY <1>2, OwnPath
  <1> QED BY <1>1, <1>3, <1>4, <1>5, StandsKept DEF Moves

\* A call that leaves the target alone, and one that does not work.
LEMMA SparedTarget ==
    ASSUME NEW t \in Thread, NEW k \in Kind \ {"target"}, NEW pc, Touches(t, k, pc)
    PROVE  Moves(t, pc) /\ file'[op[t].path]["target"] = Here(t, "target")
  BY DEF Touches, Kind

LEMMA RefusedStands ==
    ASSUME TypeOK, NEW t \in Thread, NEW pc, file' = file, Goto(t, pc), Unfinished,
           UNCHANGED <<volume, strategy, crashes>>
    PROVE  Moves(t, pc) /\ file'[op[t].path]["target"] = Here(t, "target")
  <1>1. "spare" \in Kind \ {"target"}
    BY DEF Kind
  <1> QED BY <1>1, StayTouches, SparedTarget

LEMMA AtomicStands ==
    ASSUME VolumeWriterAssumption, WriterInv, OnlyNew, AllStand, NEW t \in Thread, Atomic(t)
    PROVE  AllStand'
  <1>1. TypeOK /\ steady /\ "tmp" \in Kind \ {"target"} /\ Stands(t)
    BY DEF WriterInv, Kind, OnlyNew, AllStand
  <1>2. ~At(t, "idle") /\ op[t].at \in {"tmp open", "tmp fill", "replace", "tmp unlink"}
    BY DEF Atomic, DropTmp, Open, Fill, Replace, Unlink, At
  <1>3. op[t].before \in Doc => Here(t, "target") = op[t].before
    BY <1>1, <1>2 DEF Stands, Untouched
  <1>4. ASSUME NEW pc \in {"tmp fill", "replace", "tmp unlink", "open"}, Moves(t, pc),
               file'[op[t].path]["target"] = Here(t, "target")
        PROVE  AllStand'
    <2>1. pc \in PC /\ (op[t].before \in Doc => StandsAt(t, pc))
      BY <1>3, <1>4 DEF StandsAt, PC
    <2> QED BY <1>2, <1>4, <2>1, MoveStands
  <1>5. CASE Open(t, "tmp open", "tmp", "tmp fill", "tmp unlink")
    BY <1>1, <1>4, <1>5, OpenTouches, SparedTarget
  <1>6. CASE Fill(t, "tmp fill", "tmp", "replace", "tmp unlink")
    BY <1>1, <1>4, <1>6, SteadyFill, SparedTarget
  <1>7. CASE Replace(t, "replace", "atomic done", "tmp unlink")
    <2>1. CASE "rename" \in mount
      <3>1. Moves(t, "atomic done")
        BY <1>1, <1>7, <2>1, SteadyReplace
      <3>2. "atomic done" \in PC /\ StandsAt(t, "atomic done")
        BY DEF PC, Done, StandsAt, Untouched
      <3> QED BY <1>2, <3>1, <3>2, MoveStands
    <2>2. CASE "rename" \notin mount
      <3>1. /\ file' = file /\ Goto(t, "tmp unlink") /\ Unfinished
            /\ UNCHANGED <<volume, strategy, crashes>>
        BY <1>7, <2>2 DEF Replace, MayWork
      <3> QED BY <1>1, <1>4, <3>1, RefusedStands
    <2> QED BY <2>1, <2>2
  <1>8. CASE DropTmp(t)
    BY <1>1, <1>4, <1>8, UnlinkTouches, SparedTarget DEF DropTmp
  <1> QED BY <1>5, <1>6, <1>7, <1>8 DEF Atomic

LEMMA DirectStands ==
    ASSUME VolumeWriterAssumption, WriterInv, OnlyNew, AllStand, NEW t \in Thread, Direct(t)
    PROVE  AllStand'
  <1>1. TypeOK /\ steady /\ "target" \in Kind /\ Stands(t)
    BY DEF WriterInv, Kind, OnlyNew, AllStand
  <1>2. ~At(t, "idle") /\ op[t].at \in {"open", "fill"}
    BY DEF Direct, FillInPlace, Open, Fill, At
  <1>3. CASE op[t].before \notin Doc
    <2>1. ASSUME NEW pc \in {"fill", "spare open", "direct done"}, Moves(t, pc)
          PROVE  AllStand'
      <3>1. pc \in PC
        BY <2>1 DEF PC, Done
      <3> QED BY <1>2, <1>3, <2>1, <3>1, MoveStands
    <2>2. CASE Open(t, "open", "target", "fill", "spare open")
      BY <1>1, <2>1, <2>2, OpenTouches DEF Touches
    <2>3. CASE FillInPlace(t)
      BY <1>1, <2>1, <2>3, SteadyFill DEF FillInPlace, Touches
    <2> QED BY <2>2, <2>3 DEF Direct
  <1>4. CASE op[t].before \in Doc
    <2>1. At(t, "open") /\ Here(t, "target") = op[t].before
      BY <1>1, <1>2, <1>4 DEF Stands, Untouched, At
    <2>2. Open(t, "open", "target", "fill", "spare open")
      BY <2>1 DEF Direct, FillInPlace, Fill, At
    <2>3. Opening(Here(t, "target")) \notin mount
      BY <1>4, <2>1 DEF Opening, OnlyNew, VolumeWriterAssumption
    <2>4. /\ file' = file /\ Goto(t, "spare open") /\ Unfinished
          /\ UNCHANGED <<volume, strategy, crashes>>
      BY <2>2, <2>3 DEF Open, MayWork
    <2>5. Moves(t, "spare open") /\ file'[op[t].path]["target"] = op[t].before
      BY <1>1, <2>1, <2>4, RefusedStands
    <2>6. "spare open" \in PC /\ StandsAt(t, "spare open")
      BY <2>5 DEF PC, StandsAt
    <2> QED BY <1>2, <2>5, <2>6, MoveStands
  <1> QED BY <1>3, <1>4

LEMMA RecreateStands ==
    ASSUME VolumeWriterAssumption, WriterInv, OnlyNew, AllStand, NEW t \in Thread, Recreate(t)
    PROVE  AllStand'
  <1>1. /\ TypeOK /\ steady /\ "target" \in Kind /\ "spare" \in Kind \ {"target"} /\ Stands(t)
        /\ "overwrite" \notin mount
    BY DEF WriterInv, Kind, OnlyNew, AllStand
  <1>2. /\ ~At(t, "idle")
        /\ op[t].at \in {"spare open", "spare fill", "spare unlink", "unlink", "reopen",
                         "refill", "drop", "drop and raise"}
    BY DEF Recreate, OpenSpare, Open, Fill, Unlink, At
  <1>3. ASSUME NEW pc \in PC, Moves(t, pc), op[t].before \in Doc => StandsAt(t, pc)
        PROVE  AllStand'
    BY <1>2, <1>3, MoveStands
  <1>4. ASSUME op[t].at \in Untouched, NEW pc \in {"spare fill", "unlink", "spare unlink",
                                                   "drop and raise", "raise"},
               Moves(t, pc), file'[op[t].path]["target"] = Here(t, "target"),
               pc \in {"spare fill", "unlink"} /\ op[t].before \in Doc => "create" \in mount
        PROVE  AllStand'
    <2>1. pc \in PC /\ (op[t].before \in Doc => StandsAt(t, pc))
      BY <1>1, <1>4 DEF Stands, StandsAt, PC
    <2> QED BY <1>3, <1>4, <2>1
  <1>5. CASE OpenSpare(t)
    <2>1. op[t].at \in Untouched
      BY <1>5 DEF OpenSpare, Open, At, Untouched
    <2>2. \/ "create" \in mount /\ Touches(t, "spare", "spare fill")
          \/ Touches(t, "spare", "spare unlink")
      BY <1>1, <1>5, SteadyOpen DEF OpenSpare, Opening
    <2> QED BY <1>1, <1>4, <2>1, <2>2, SparedTarget
  <1>6. CASE Fill(t, "spare fill", "spare", "unlink", "spare unlink")
    <2>1. op[t].at \in Untouched /\ (op[t].before \in Doc => "create" \in mount)
      BY <1>1, <1>6 DEF Fill, At, Untouched, Stands
    <2>2. Touches(t, "spare", "unlink")
      BY <1>1, <1>6, SteadyFill
    <2> QED BY <1>1, <1>4, <2>1, <2>2, SparedTarget
  <1>7. CASE Unlink(t, "spare unlink", "spare", "raise", "raise")
    <2>1. op[t].at \in Untouched
      BY <1>7 DEF Unlink, At, Untouched
    <2>2. Touches(t, "spare", "raise")
      BY <1>1, <1>7, UnlinkTouches
    <2> QED BY <1>1, <1>4, <2>1, <2>2, SparedTarget
  <1>8. CASE Unlink(t, "unlink", "target", "reopen", "drop and raise")
    <2>1. op[t].at \in Untouched /\ (op[t].before \in Doc => "create" \in mount)
      BY <1>1, <1>8 DEF Unlink, At, Untouched, Stands
    <2>2. CASE Put(t, "target", Absent) /\ Goto(t, "reopen")
      <3>1. Absent \in Content
        BY DEF Content
      <3>2. Moves(t, "reopen") /\ file'[op[t].path]["target"] = Absent
        BY <1>1, <1>2, <1>8, <2>2, <3>1, PutTouches DEF Unlink, Touches
      <3>3. "reopen" \in PC /\ (op[t].before \in Doc => StandsAt(t, "reopen"))
        BY <2>1, <3>2 DEF PC, StandsAt, Untouched
      <3> QED BY <1>3, <3>2, <3>3
    <2>3. CASE file' = file /\ Goto(t, "drop and raise")
      <3>1. Unfinished /\ UNCHANGED <<volume, strategy, crashes>>
        BY <1>8 DEF Unlink
      <3> QED BY <1>1, <1>4, <2>1, <2>3, <3>1, RefusedStands
    <2> QED BY <1>8, <2>2, <2>3 DEF Unlink
  <1>9. CASE Open(t, "reopen", "target", "refill", "drop and raise")
    <2>1. CASE op[t].before \in Doc
      <3>1. Here(t, "target") = Absent /\ "create" \in mount
        BY <1>1, <1>9, <2>1 DEF Open, At, Stands
      <3>2. Moves(t, "refill")
        BY <1>1, <1>9, <3>1, SteadyOpen DEF Opening, Touches
      <3>3. "refill" \in PC /\ StandsAt(t, "refill")
        BY DEF PC, StandsAt, Untouched
      <3> QED BY <1>3, <3>2, <3>3
    <2>2. CASE op[t].before \notin Doc
      <3>1. Moves(t, "refill") \/ Moves(t, "drop and raise")
        BY <1>1, <1>9, OpenTouches DEF Touches
      <3>2. {"refill", "drop and raise"} \subseteq PC
        BY DEF PC
      <3> QED BY <1>3, <2>2, <3>1, <3>2
    <2> QED BY <2>1, <2>2
  <1>10. CASE Fill(t, "refill", "target", "drop", "drop and raise")
    <2>1. Moves(t, "drop")
      BY <1>1, <1>10, SteadyFill DEF Touches
    <2>2. "drop" \in PC /\ StandsAt(t, "drop")
      BY DEF PC, StandsAt, Untouched
    <2> QED BY <1>3, <2>1, <2>2
  <1>11. CASE Unlink(t, "drop", "spare", "recreate done", "recreate done")
    <2>1. Moves(t, "recreate done")
      BY <1>1, <1>11, UnlinkTouches DEF Touches
    <2>2. "recreate done" \in PC /\ StandsAt(t, "recreate done")
      BY DEF PC, Done, StandsAt, Untouched
    <2> QED BY <1>3, <2>1, <2>2
  <1>12. CASE Unlink(t, "drop and raise", "spare", "raise", "raise")
    <2>1. op[t].at \in Untouched
      BY <1>12 DEF Unlink, At, Untouched
    <2>2. Touches(t, "spare", "raise")
      BY <1>1, <1>12, UnlinkTouches
    <2> QED BY <1>1, <1>4, <2>1, <2>2, SparedTarget
  <1> QED BY <1>5, <1>6, <1>7, <1>8, <1>9, <1>10, <1>11, <1>12 DEF Recreate

\* The end of a write, and what a probe then finds to remove.
LEMMA EndsStands ==
    ASSUME VolumeWriterAssumption, WriterInv, AllStand, NEW t \in Thread, ~At(t, "idle"),
           NEW is, Ends(t, is), UNCHANGED <<volume, file>>,
           op[t].before \in Doc => OldOrNew(t)
    PROVE  AllStand'
  <1>1. TypeOK /\ op[t].path \in File
    BY OpOf DEF WriterInv
  <1>2. /\ \A u \in Thread : u # t => op'[u] = op[u]
        /\ op'[t] = NoOp \/ Stands(t)'
    <2>1. CASE op[t].path = Probe
      <3>1. op' = [op EXCEPT ![t].at = "probe unlink"] /\ "probe unlink" \in PC
        BY <2>1 DEF Ends, Goto, PC
      <3>2. /\ \A u \in Thread : u # t => op'[u] = op[u]
            /\ op'[t].at = "probe unlink" /\ op'[t].path = op[t].path /\ op'[t].doc = op[t].doc
            /\ op'[t].before = op[t].before
        BY <1>1, <3>1, NewOp
      <3>3. Stands(t)'
        BY <3>2 DEF Stands, OldOrNew, Untouched, At, Here
      <3> QED BY <3>2, <3>3
    <2>2. CASE op[t].path # Probe
      BY <1>1, <2>2 DEF Ends, TypeOK
    <2> QED BY <2>1, <2>2
  <1>3. \A u \in Thread : u # t => op[u].path # op[t].path /\ op'[u] = op[u]
    BY <1>2, OwnPath
  <1> QED BY <1>1, <1>2, <1>3, StandsKept

LEMMA EndProbeStands ==
    ASSUME VolumeWriterAssumption, WriterInv, AllStand, NEW t \in Thread, EndProbe(t)
    PROVE  AllStand'
  <1>1. ~At(t, "idle") /\ UNCHANGED volume
    BY DEF EndProbe, At
  <1>2. op[t].path \in File /\ op \in [Thread -> Op]
    BY <1>1, OpOf DEF WriterInv, TypeOK
  <1>3. op'[t] = NoOp /\ \A u \in Thread : u # t => op'[u] = op[u]
    BY <1>2 DEF EndProbe
  <1>4. \A q \in File : q # op[t].path => file'[q] = file[q]
    BY <1>2 DEF EndProbe, Put, WriterInv, TypeOK
  <1>5. \A u \in Thread : u # t => op[u].path # op[t].path /\ op'[u] = op[u]
    BY <1>1, <1>3, OwnPath
  <1> QED BY <1>1, <1>2, <1>3, <1>4, <1>5, StandsKept

LEMMA BeginStands ==
    ASSUME VolumeWriterAssumption, WriterInv, AllStand,
           NEW t \in Thread, NEW p \in File, NEW d \in Doc, Begin(t, p, d)
    PROVE  AllStand'
  <1>1. file \in [File -> [Kind -> Content]] /\ op \in [Thread -> Op]
    BY DEF WriterInv, TypeOK
  <1> DEFINE new == [at |-> FirstCall(strategy), path |-> p, doc |-> d,
                     before |-> Found(p)["target"]]
  <1>2. op' = [op EXCEPT ![t] = new] /\ file' = [file EXCEPT ![p] = Found(p)]
    BY DEF Begin
  <1>3. /\ new.at \in {"tmp open", "open", "spare open"}
        /\ new.path = p /\ new.before = Found(p)["target"]
    BY DEF FirstCall
  <1> HIDE DEF new
  <1>4. /\ op'[t] = new /\ \A u \in Thread : u # t => op'[u] = op[u]
        /\ file'[p] = Found(p) /\ \A q \in File : q # p => file'[q] = file[q]
    BY <1>1, <1>2
  <1>5. Stands(t)'
    BY <1>3, <1>4 DEF Stands, At, Here
  <1>6. UNCHANGED volume /\ \A u \in Thread : u # t => op[u].path # p /\ op'[u] = op[u]
    BY <1>4, BeginsAlone DEF Begin
  <1> QED BY <1>4, <1>5, <1>6, StandsKept

LEMMA StandsNext ==
    ASSUME VolumeWriterAssumption, Inv, OnlyNew => AllStand, [Next]_vars
    PROVE  (OnlyNew => AllStand)'
  <1>1. UNCHANGED volume
    BY DEF Next, Write, Atomic, DropTmp, Direct, FillInPlace, Recreate, OpenSpare, Open, Fill,
           Replace, Unlink, Settle, Raise, EndProbe, Begin, Crash, vars
  <1> SUFFICES ASSUME OnlyNew PROVE AllStand'
    BY <1>1 DEF OnlyNew, volume
  <1>2. WriterInv /\ AllStand
    BY DEF Inv
  <1>3. ASSUME NEW t \in Thread, Settle(t) PROVE AllStand'
    <2>1. ~At(t, "idle") /\ OldOrNew(t)
      BY <1>2, <1>3 DEF Settle, Done, At, WriterInv, Whole, OldOrNew
    <2> QED BY <1>2, <1>3, <2>1, EndsStands DEF Settle
  <1>4. ASSUME NEW t \in Thread, Raise(t) PROVE AllStand'
    <2>1. ~At(t, "idle") /\ (op[t].before \in Doc => OldOrNew(t))
      BY <1>2, <1>4 DEF Raise, At, AllStand, Stands, Untouched, OldOrNew
    <2> QED BY <1>2, <1>4, <2>1, EndsStands DEF Raise
  <1>5. ASSUME NEW t \in Thread, Write(t) PROVE AllStand'
    BY <1>2, <1>3, <1>4, <1>5, AtomicStands, DirectStands, RecreateStands, EndProbeStands
       DEF Write
  <1>6. ASSUME NEW t \in Thread, NEW p \in File, NEW d \in Doc, Begin(t, p, d)
        PROVE  AllStand'
    BY <1>2, <1>6, BeginStands
  <1>7. CASE Crash
    <2>1. \A t \in Thread : op'[t].before \notin Doc
      BY <1>7 DEF Crash, NoOp, VolumeWriterAssumption
    <2> QED BY <2>1 DEF AllStand, Stands
  <1>8. CASE UNCHANGED vars
    BY <1>2, <1>8 DEF vars, volume, AllStand, Stands, OldOrNew, At, Here
  <1> QED BY <1>5, <1>6, <1>7, <1>8 DEF Next

\* Where no call fails, and mounts that overwrite also create and rename, a write
\* that replaces a document leaves the old one or the new one whole in the target
\* or in the spare after each of its calls, so that a kill finds one of them
\* (storage.py: _write_recreate).
THEOREM CopyIsLeft == Spec => []ACopyIsLeft
  <1>1. Init => (Renames => AtomicOnly) /\ (OnlyNew => AllStand)
    <2>1. ASSUME Init PROVE AllStand
      <3>1. \A t \in Thread : op[t].before \notin Doc
        BY <2>1, VolumeWriterAssumption DEF Init, NoOp, VolumeWriterAssumption
      <3> QED BY <3>1 DEF AllStand, Stands
    <2> QED BY <2>1, VolumeWriterAssumption, AtomicInit
  <1>2. Inv /\ (Renames => AtomicOnly) /\ [Next]_vars => (Renames => AtomicOnly)'
    BY VolumeWriterAssumption, AtomicNext
  <1>3. Inv /\ (OnlyNew => AllStand) /\ [Next]_vars => (OnlyNew => AllStand)'
    BY VolumeWriterAssumption, StandsNext
  <1>4. Inv /\ (Renames => AtomicOnly) /\ (OnlyNew => AllStand) => ACopyIsLeft
    <2> SUFFICES ASSUME Inv, Renames => AtomicOnly, OnlyNew => AllStand, steady,
                        "overwrite" \in mount => {"create", "rename"} \subseteq mount,
                        NEW t \in Thread, op[t].before \in Doc
                 PROVE  \E k \in {"target", "spare"} : Here(t, k) \in {op[t].before, op[t].doc}
      BY DEF ACopyIsLeft
    <2>1. ~At(t, "idle")
      BY VolumeWriterAssumption
         DEF Inv, WriterInv, IdleIsNoOp, NoOp, VolumeWriterAssumption
    <2>2. Whole(t) /\ op[t].at \in PC \ {"idle"}
      BY <2>1, OpOf DEF Inv, WriterInv, Op, At
    <2>3. CASE "overwrite" \in mount
      BY <2>1, <2>3 DEF Renames, AtomicOnly, OldOrNew
    <2>4. CASE "overwrite" \notin mount
      <3>1. Stands(t)
        BY <2>4 DEF OnlyNew, AllStand
      <3> QED BY <2>2, <3>1 DEF Whole, Stands, Untouched, OldOrNew, PC, Done, At
    <2> QED BY <2>3, <2>4
  <1> QED BY <1>1, <1>2, <1>3, <1>4, InvHolds, PTL DEF Spec

-----------------------------------------------------------------------------
(***************************************************************************)
(* The writer implements Volume.                                           *)
(***************************************************************************)
LadderInv == Serves => Ladder

Nowhere == [path |-> NoDoc, doc |-> NoDoc]

LEMMA KeptFiles ==
    ASSUME VolumeWriterAssumption
    PROVE  /\ Kept \subseteq File /\ File = Kept \cup {Probe} /\ Probe \notin Kept
           /\ NoDoc \notin File /\ NoDoc \notin Doc
  BY DEF VolumeWriterAssumption, Kept, File

LEMMA TellsNothing ==
    ASSUME VolumeWriterAssumption, result' = NoResult
    PROVE  Told' = Abstract!Nothing
  BY KeptFiles DEF Told, Abstract!Nothing, NoResult, NoOp

\* Outside of writes the outline of a thread is blank; in a write it says which.
LEMMA Outlines ==
    ASSUME VolumeWriterAssumption
    PROVE  /\ Outline(NoOp) = Nowhere
           /\ \A of \in Op : of.path \in Kept => Outline(of) = [path |-> of.path, doc |-> of.doc]
           /\ \A of \in Op : of.path = Probe => Outline(of) = Nowhere
           /\ \A p \in Kept : \A d : [path |-> p, doc |-> d] # Nowhere
  BY KeptFiles DEF Outline, NoOp, Nowhere

\* A step of t changes no outline but its own.
LEMMA WritingMoves ==
    ASSUME WriterInv, NEW t \in Thread, \A u \in Thread : u # t => op'[u] = op[u]
    PROVE  /\ Writing' = [Writing EXCEPT ![t] = Outline(op'[t])]
           /\ Outline(op'[t]) = Outline(op[t]) => Writing' = Writing
           /\ Writing[t] = Outline(op[t])
  BY DEF Writing, Outline

\* A step that writes no file but p shows no other.
LEMMA TargetsMove ==
    ASSUME VolumeWriterAssumption, NEW p \in File, \A q \in File : q # p => file'[q] = file[q]
    PROVE  /\ p \notin Kept => Targets' = Targets
           /\ p \in Kept => Targets' = [Targets EXCEPT ![p] = file'[p]["target"]]
           /\ file'[p]["target"] = file[p]["target"] => Targets' = Targets
  BY KeptFiles DEF Targets

LEMMA GradeStays == UNCHANGED volume => Grade' = Grade
  BY DEF volume, Grade

\* The rungs that are not reached, by the grade of the mount.
LEMMA GradeShows ==
    ASSUME VolumeWriterAssumption, WriterInv, LadderInv, NEW t \in Thread, ~At(t, "idle"),
           Grade # "poor"
    PROVE  /\ steady
           /\ op[t].at \notin {"spare open", "spare fill", "spare unlink", "unlink", "reopen",
                               "refill", "drop", "drop and raise", "recreate done", "raise"}
           /\ op[t].at \in {"open", "fill", "direct done"} => Grade = "sound"
  <1>1. steady /\ {"create", "overwrite"} \subseteq mount /\ mount \in SUBSET Call
    BY DEF Grade, WriterInv, TypeOK
  <1>2. Serves
    BY <1>1 DEF Serves, Usable
  <1>3. op[t].at \in Rungs
    BY <1>2 DEF LadderInv, Ladder, Climbs
  <1> QED BY <1>1, <1>2, <1>3, ThreeMounts DEF Grade, AtomicPC

\* What a call does to the target of its thread.
Leaves(t, c) == file'[op[t].path]["target"] = c

\* Whatever the call was, the step of t shows nothing or alters its file.
LEMMA MoveShows ==
    ASSUME VolumeWriterAssumption, WriterInv, NEW t \in Thread, ~At(t, "idle"),
           NEW pc \in PC, Moves(t, pc),
           \E c \in {Here(t, "target"), op[t].doc} \cup Abstract!Damage : Leaves(t, c)
    PROVE  Abstract!Next
  <1>1. TypeOK /\ op[t].path \in File /\ op[t] \in Op
    BY OpOf DEF WriterInv
  <1>2. /\ op'[t].path = op[t].path /\ op'[t].doc = op[t].doc
        /\ \A u \in Thread : u # t => op'[u] = op[u]
    BY <1>1, NewOp DEF Moves
  <1>3. Writing' = Writing /\ Writing[t] = Outline(op[t])
    BY <1>2, WritingMoves DEF Outline
  <1>4. Told' = Abstract!Nothing /\ Grade' = Grade
    BY TellsNothing, GradeStays DEF Moves
  <1>5. CASE Targets' = Targets
    BY <1>3, <1>4, <1>5 DEF Abstract!Next, Abstract!Quiet
  <1>6. CASE Targets' # Targets
    <2>1. op[t].path \in Kept /\ file'[op[t].path]["target"] # Here(t, "target")
      BY <1>1, <1>6, TargetsMove DEF Moves, Here
    <2>2. Targets' = [Targets EXCEPT ![op[t].path] = file'[op[t].path]["target"]]
      BY <1>1, <2>1, TargetsMove DEF Moves
    <2>3. file'[op[t].path]["target"] \in {op[t].doc} \cup Abstract!Damage
      BY <2>1 DEF Leaves
    <2>4. Writing[t] = [path |-> op[t].path, doc |-> op[t].doc] /\ Writing[t] # Nowhere
      BY <1>1, <1>3, <2>1, Outlines
    <2>5. Writing[t].path = op[t].path /\ Writing[t].doc = op[t].doc
      BY <2>4
    <2>6. Abstract!Alter(t)
      BY <1>3, <1>4, <2>2, <2>3, <2>4, <2>5 DEF Abstract!Alter, Abstract!NoWrite, Nowhere
    <2> QED BY <2>6 DEF Abstract!Next
  <1> QED BY <1>5, <1>6

\* Calls on a sibling leave the target as it is.
LEMMA SiblingShows ==
    ASSUME VolumeWriterAssumption, WriterInv, NEW t \in Thread, ~At(t, "idle"),
           NEW k \in {"tmp", "spare"}, NEW pc \in PC, Touches(t, k, pc)
    PROVE  Abstract!Next
  <1>1. Leaves(t, Here(t, "target"))
    BY DEF Touches, Leaves, Kind
  <1> QED BY <1>1, MoveShows DEF Touches

\* Calls on the target damage it as far as the grade allows.
LEMMA OpenShows ==
    ASSUME VolumeWriterAssumption, WriterInv, LadderInv, NEW t \in Thread,
           NEW from \in {"open", "reopen"}, NEW next \in PC, NEW failed \in PC,
           Open(t, from, "target", next, failed)
    PROVE  Abstract!Next
  <1>1. ~At(t, "idle") /\ op[t].at = from /\ Torn \in Content /\ "target" \in Kind /\ TypeOK
    BY DEF Open, At, Content, Kind, WriterInv
  <1>2. UNCHANGED <<volume, strategy, crashes>> /\ Unfinished
    BY DEF Open
  <1>3. CASE Put(t, "target", Torn) /\ Goto(t, next)
    <2>1. Moves(t, next) /\ Leaves(t, Torn)
      BY <1>1, <1>2, <1>3, PutTouches DEF Touches, Leaves
    <2>2. Torn \in Abstract!Damage
      <3>1. Grade \in {"sound", "poor"}
        BY <1>1, GradeShows
      <3> QED BY <3>1 DEF Abstract!Damage
    <2> QED BY <1>1, <2>1, <2>2, MoveShows
  <1>4. CASE file' = file /\ Goto(t, failed)
    <2>1. Moves(t, failed) /\ Leaves(t, Here(t, "target"))
      BY <1>1, <1>2, <1>4, StayTouches DEF Touches, Leaves, Here
    <2> QED BY <1>1, <2>1, MoveShows
  <1> QED BY <1>3, <1>4 DEF Open

LEMMA FillShows ==
    ASSUME VolumeWriterAssumption, WriterInv, LadderInv, NEW t \in Thread,
           NEW from \in {"fill", "refill"}, NEW next \in PC, NEW failed \in PC,
           Fill(t, from, "target", next, failed)
    PROVE  Abstract!Next
  <1>1. ~At(t, "idle") /\ op[t].at = from /\ "target" \in Kind /\ TypeOK
    BY DEF Fill, At, Kind, WriterInv
  <1>2. op[t].doc \in Content /\ Torn \in Content
    BY <1>1, OpOf DEF Content
  <1>3. UNCHANGED <<volume, strategy, crashes>> /\ Unfinished
    BY DEF Fill
  <1>4. PICK c \in {Torn, op[t].doc}, pc \in {next, failed} :
           Put(t, "target", c) /\ Goto(t, pc) /\ (c # op[t].doc => ~steady)
    BY DEF Fill
  <1>5. Moves(t, pc) /\ Leaves(t, c)
    BY <1>1, <1>2, <1>3, <1>4, PutTouches DEF Touches, Leaves
  <1>6. c \in {op[t].doc} \cup Abstract!Damage
    <2>1. CASE steady
      BY <1>4, <2>1
    <2>2. CASE ~steady
      BY <2>2 DEF Grade, Abstract!Damage
    <2> QED BY <2>1, <2>2
  <1> QED BY <1>1, <1>5, <1>6, MoveShows

LEMMA UnlinkShows ==
    ASSUME VolumeWriterAssumption, WriterInv, LadderInv, NEW t \in Thread,
           Unlink(t, "unlink", "target", "reopen", "drop and raise")
    PROVE  Abstract!Next
  <1>1. ~At(t, "idle") /\ op[t].at = "unlink" /\ "target" \in Kind /\ TypeOK /\ Absent \in Content
    BY DEF Unlink, At, Kind, WriterInv, Content
  <1>2. UNCHANGED <<volume, strategy, crashes>> /\ Unfinished /\ {"reopen", "drop and raise"} \subseteq PC
    BY DEF Unlink, PC
  <1>3. CASE Put(t, "target", Absent) /\ Goto(t, "reopen")
    <2>1. Moves(t, "reopen") /\ Leaves(t, Absent)
      BY <1>1, <1>2, <1>3, PutTouches DEF Touches, Leaves
    <2>2. Absent \in Abstract!Damage
      <3>1. Grade = "poor"
        BY <1>1, GradeShows
      <3> QED BY <3>1 DEF Abstract!Damage
    <2> QED BY <1>1, <1>2, <2>1, <2>2, MoveShows
  <1>4. CASE file' = file /\ Goto(t, "drop and raise")
    <2>1. Moves(t, "drop and raise") /\ Leaves(t, Here(t, "target"))
      BY <1>1, <1>2, <1>4, StayTouches DEF Touches, Leaves, Here
    <2> QED BY <1>1, <1>2, <2>1, MoveShows
  <1> QED BY <1>3, <1>4 DEF Unlink

LEMMA ReplaceShows ==
    ASSUME VolumeWriterAssumption, WriterInv, NEW t \in Thread,
           Replace(t, "replace", "atomic done", "tmp unlink")
    PROVE  Abstract!Next
  <1>1. ~At(t, "idle") /\ Here(t, "tmp") = op[t].doc /\ TypeOK
    BY DEF Replace, At, WriterInv, Whole
  <1>2. {"atomic done", "tmp unlink"} \subseteq PC
    BY DEF PC, Done
  <1>3. CASE file' = file /\ Goto(t, "tmp unlink")
    <2>1. Moves(t, "tmp unlink") /\ Leaves(t, Here(t, "target"))
      BY <1>1, <1>3, StayTouches DEF Replace, Touches, Leaves, Here, Kind
    <2> QED BY <1>1, <1>2, <2>1, MoveShows
  <1>4. CASE ~(file' = file /\ Goto(t, "tmp unlink"))
    <2>1. op' = [op EXCEPT ![t].at = "atomic done"]
      BY <1>4 DEF Replace, Goto
    <2>2. op'[t].at = "atomic done"
      BY <1>1, <1>2, <2>1, NewOp
    <2>3. ~ Moves(t, "tmp unlink")
      <3>1. Moves(t, "tmp unlink") => op'[t].at = "tmp unlink"
        BY <1>1, <1>2, NewOp DEF Moves
      <3> QED BY <2>2, <3>1
    <2>4. Moves(t, "atomic done") /\ Leaves(t, op[t].doc)
      BY <1>1, <2>3, ReplaceMoves DEF Leaves
    <2> QED BY <1>1, <1>2, <2>4, MoveShows
  <1> QED BY <1>3, <1>4

LEMMA CallsShow ==
    ASSUME VolumeWriterAssumption, WriterInv, LadderInv, NEW t \in Thread,
           Atomic(t) \/ Direct(t) \/ Recreate(t)
    PROVE  Abstract!Next
  <1>1. TypeOK /\ {"tmp", "spare"} \subseteq Kind
    BY DEF WriterInv, Kind
  <1>2. {"tmp fill", "replace", "tmp unlink", "open", "fill", "spare open", "spare fill",
         "spare unlink", "unlink", "reopen", "refill", "drop", "drop and raise", "raise",
         "direct done", "recreate done"} \subseteq PC
    BY DEF PC, Done
  <1>3. CASE Open(t, "tmp open", "tmp", "tmp fill", "tmp unlink") \/ OpenSpare(t)
    <2>1. ~At(t, "idle")
      BY <1>3 DEF OpenSpare, Open, At
    <2>2. \E k \in {"tmp", "spare"}, pc \in PC : Touches(t, k, pc)
      BY <1>1, <1>2, <1>3, OpenTouches DEF OpenSpare
    <2> QED BY <2>1, <2>2, SiblingShows
  <1>4. CASE \/ Fill(t, "tmp fill", "tmp", "replace", "tmp unlink")
             \/ Fill(t, "spare fill", "spare", "unlink", "spare unlink")
    <2>1. ~At(t, "idle")
      BY <1>4 DEF Fill, At
    <2>2. \E k \in {"tmp", "spare"}, pc \in PC : Touches(t, k, pc)
      BY <1>1, <1>2, <1>4, FillTouches
    <2> QED BY <2>1, <2>2, SiblingShows
  <1>5. CASE \/ DropTmp(t)
             \/ Unlink(t, "spare unlink", "spare", "raise", "raise")
             \/ Unlink(t, "drop", "spare", "recreate done", "recreate done")
             \/ Unlink(t, "drop and raise", "spare", "raise", "raise")
    <2>1. ~At(t, "idle")
      BY <1>5 DEF DropTmp, Unlink, At
    <2>2. \E k \in {"tmp", "spare"}, pc \in PC : Touches(t, k, pc)
      BY <1>1, <1>2, <1>5, UnlinkTouches DEF DropTmp
    <2> QED BY <2>1, <2>2, SiblingShows
  <1>6. CASE Replace(t, "replace", "atomic done", "tmp unlink")
    BY <1>6, ReplaceShows
  <1>7. CASE \/ Open(t, "open", "target", "fill", "spare open")
             \/ Open(t, "reopen", "target", "refill", "drop and raise")
    BY <1>2, <1>7, OpenShows
  <1>8. CASE \/ FillInPlace(t)
             \/ Fill(t, "refill", "target", "drop", "drop and raise")
    BY <1>2, <1>8, FillShows DEF FillInPlace
  <1>9. CASE Unlink(t, "unlink", "target", "reopen", "drop and raise")
    BY <1>9, UnlinkShows
  <1> QED BY <1>3, <1>4, <1>5, <1>6, <1>7, <1>8, <1>9 DEF Atomic, Direct, Recreate

\* The end of a write is the end of the abstract one, or that of the probe.
LEMMA EndsShow ==
    ASSUME VolumeWriterAssumption, WriterInv, NEW t \in Thread, ~At(t, "idle"),
           NEW is \in {"written", "raised"}, Ends(t, is), UNCHANGED <<volume, file>>
    PROVE  \/ Abstract!Quiet
           \/ /\ Abstract!End(t, is)
              /\ op[t].path \in Kept
  <1>1. TypeOK /\ op[t].path \in File /\ op[t] \in Op /\ op \in [Thread -> Op]
    BY OpOf DEF WriterInv, TypeOK
  <1>2. Targets' = Targets /\ Grade' = Grade
    BY GradeStays DEF Targets
  <1>3. result'.of = op[t] /\ result'.is = is
    BY DEF Ends
  <1>4. CASE op[t].path = Probe
    <2>1. op' = [op EXCEPT ![t].at = "probe unlink"] /\ "probe unlink" \in PC
      BY <1>4 DEF Ends, Goto, PC
    <2>2. op'[t].path = op[t].path /\ \A u \in Thread : u # t => op'[u] = op[u]
      BY <1>1, <2>1, NewOp
    <2>3. Outline(op'[t]) = Outline(op[t])
      BY <1>4, <2>2, KeptFiles DEF Outline
    <2>4. Writing' = Writing
      BY <2>2, <2>3, WritingMoves
    <2>5. Told' = Abstract!Nothing
      BY <1>3, <1>4, KeptFiles DEF Told, Abstract!Nothing
    <2> QED BY <1>2, <2>4, <2>5 DEF Abstract!Quiet
  <1>5. CASE op[t].path # Probe
    <2>1. op[t].path \in Kept
      BY <1>1, <1>5, KeptFiles
    <2>2. op'[t] = NoOp /\ \A u \in Thread : u # t => op'[u] = op[u]
      BY <1>1, <1>5 DEF Ends
    <2>3. Writing' = [Writing EXCEPT ![t] = Nowhere]
      BY <2>2, WritingMoves, Outlines
    <2>4. Writing[t] = [path |-> op[t].path, doc |-> op[t].doc] /\ Writing[t] # Nowhere
      BY <1>1, <2>1, <2>2, WritingMoves, Outlines
    <2>5. Told' = [path |-> Writing[t].path, doc |-> Writing[t].doc, is |-> is]
      BY <1>3, <2>1, <2>4 DEF Told
    <2> QED BY <1>2, <2>1, <2>3, <2>4, <2>5 DEF Abstract!End, Abstract!NoWrite, Nowhere
  <1> QED BY <1>4, <1>5

LEMMA OutcomesShow ==
    ASSUME VolumeWriterAssumption, WriterInv, LadderInv, NEW t \in Thread,
           Settle(t) \/ Raise(t)
    PROVE  Abstract!Next
  <1>1. CASE Settle(t)
    <2>1. ~At(t, "idle") /\ Here(t, "target") = op[t].doc
      BY <1>1 DEF Settle, Done, At, WriterInv, Whole
    <2>2. Ends(t, "written") /\ UNCHANGED <<volume, file>>
      BY <1>1 DEF Settle
    <2>3. Abstract!Quiet \/ (Abstract!End(t, "written") /\ op[t].path \in Kept)
      BY <2>1, <2>2, EndsShow
    <2>4. CASE Abstract!Quiet
      BY <2>4 DEF Abstract!Next
    <2>5. CASE Abstract!End(t, "written") /\ op[t].path \in Kept
      <3>1. op[t] \in Op
        BY <2>1, OpOf DEF WriterInv
      <3>2. Writing[t] = [path |-> op[t].path, doc |-> op[t].doc]
        BY <2>5, <3>1, Outlines DEF Writing
      <3>3. Targets[Writing[t].path] = Writing[t].doc
        BY <2>1, <2>5, <3>2 DEF Targets, Here
      <3> QED BY <2>5, <3>3 DEF Abstract!Return, Abstract!Next
    <2> QED BY <2>3, <2>4, <2>5
  <1>2. CASE Raise(t)
    <2>1. ~At(t, "idle") /\ op[t].at = "raise"
      BY <1>2 DEF Raise, At
    <2>2. Grade = "poor"
      BY <2>1, GradeShows
    <2>3. Abstract!Quiet \/ Abstract!End(t, "raised")
      BY <1>2, <2>1, EndsShow DEF Raise
    <2> QED BY <2>2, <2>3 DEF Abstract!Raise, Abstract!Next
  <1> QED BY <1>1, <1>2

\* The file of the probe is removed.
LEMMA EndProbeShows ==
    ASSUME VolumeWriterAssumption, WriterInv, NEW t \in Thread, EndProbe(t)
    PROVE  Abstract!Quiet
  <1>1. ~At(t, "idle") /\ op[t].path = Probe
    BY DEF EndProbe, At, WriterInv, Whole
  <1>2. TypeOK /\ op[t] \in Op /\ op \in [Thread -> Op] /\ Probe \in File
    BY <1>1, OpOf DEF WriterInv, TypeOK
  <1>3. op'[t] = NoOp /\ \A u \in Thread : u # t => op'[u] = op[u]
    BY <1>2 DEF EndProbe
  <1>4. Writing' = Writing
    BY <1>1, <1>2, <1>3, WritingMoves, Outlines
  <1>5. \A q \in File : q # Probe => file'[q] = file[q]
    <2> DEFINE own == [file[Probe] EXCEPT !["target"] = Absent]
    <2>1. file' = file \/ file' = [file EXCEPT ![Probe] = own]
      BY <1>1 DEF EndProbe, Put
    <2> HIDE DEF own
    <2>2. file \in [File -> [Kind -> Content]]
      BY <1>2 DEF TypeOK
    <2> QED BY <1>2, <2>1, <2>2
  <1>6. Targets' = Targets
    BY <1>2, <1>5, TargetsMove, KeptFiles
  <1>7. Told' = Abstract!Nothing /\ Grade' = Grade
    BY TellsNothing, GradeStays DEF EndProbe, Unfinished
  <1> QED BY <1>4, <1>6, <1>7 DEF Abstract!Quiet

LEMMA BeginShows ==
    ASSUME VolumeWriterAssumption, WriterInv,
           NEW t \in Thread, NEW p \in File, NEW d \in Doc, Begin(t, p, d)
    PROVE  Abstract!Next
  <1>1. /\ file \in [File -> [Kind -> Content]] /\ op \in [Thread -> Op]
        /\ op[t] = NoOp /\ "target" \in Kind
    BY DEF WriterInv, TypeOK, Begin, IdleIsNoOp, Kind
  <1>2. \A u \in Thread : op[u].path # p
    BY <1>1, BeginsAlone, Outcomes, KeptFiles
  <1> DEFINE new == [at |-> FirstCall(strategy), path |-> p, doc |-> d,
                     before |-> Found(p)["target"]]
  <1>3. op' = [op EXCEPT ![t] = new] /\ file' = [file EXCEPT ![p] = Found(p)]
    BY DEF Begin
  <1>4. new.path = p /\ new.doc = d
    OBVIOUS
  <1> HIDE DEF new
  <1>5. /\ op'[t] = new /\ \A u \in Thread : u # t => op'[u] = op[u]
        /\ file'[p] = Found(p) /\ \A q \in File : q # p => file'[q] = file[q]
    BY <1>1, <1>3
  <1>6. Told' = Abstract!Nothing /\ Grade' = Grade
    BY TellsNothing, GradeStays DEF Begin, Unfinished
  <1>7. Writing[t] = Nowhere /\ Writing' = [Writing EXCEPT ![t] = Outline(new)]
    BY <1>1, <1>5, WritingMoves, Outlines
  <1>8. CASE p \notin Kept
    <2>1. Outline(new) = Nowhere
      BY <1>4, <1>8 DEF Outline, Nowhere
    <2>2. Writing' = Writing
      BY <1>7, <2>1 DEF Writing
    <2>3. Targets' = Targets
      BY <1>5, <1>8, TargetsMove
    <2> QED BY <1>6, <2>2, <2>3 DEF Abstract!Quiet, Abstract!Next
  <1>9. CASE p \in Kept
    <2>1. Outline(new) = [path |-> p, doc |-> d]
      BY <1>4, <1>9 DEF Outline
    <2>2. \A u \in Thread : Writing[u].path # p
      <3> SUFFICES ASSUME NEW u \in Thread PROVE Writing[u].path # p
        OBVIOUS
      <3>1. Writing[u] = Outline(op[u])
        BY DEF Writing
      <3>2. Outline(op[u]).path \in {op[u].path, NoDoc}
        BY DEF Outline
      <3> QED BY <1>2, <3>1, <3>2, KeptFiles
    <2>3. Targets' = IF p \in Report THEN [Targets EXCEPT ![p] = Absent] ELSE Targets
      <3>1. CASE p \in Report
        <4>1. file'[p]["target"] = Absent
          BY <1>5, <3>1 DEF Found, Kind
        <4> QED BY <1>5, <1>9, <3>1, <4>1, TargetsMove
      <3>2. CASE p \notin Report
        BY <1>5, <3>2, TargetsMove DEF Found
      <3> QED BY <3>1, <3>2
    <2>4. Abstract!Begin(t, p, d)
      BY <1>6, <1>7, <2>1, <2>2, <2>3 DEF Abstract!Begin, Abstract!NoWrite, Nowhere
    <2> QED BY <1>9, <2>4 DEF Abstract!Next
  <1> QED BY <1>8, <1>9

LEMMA StepShows ==
    ASSUME VolumeWriterAssumption, Inv, LadderInv, [Next]_vars
    PROVE  [Abstract!Next]_(Abstract!vars)
  <1> SUFFICES Abstract!Next \/ UNCHANGED <<Grade, Targets, Writing, Told>>
    BY DEF Abstract!vars
  <1>1. WriterInv
    BY DEF Inv
  <1>2. ASSUME NEW t \in Thread, Write(t) PROVE Abstract!Next
    BY <1>1, <1>2, CallsShow, OutcomesShow, EndProbeShows DEF Write, Abstract!Next
  <1>3. ASSUME NEW t \in Thread, NEW p \in File, NEW d \in Doc, Begin(t, p, d)
        PROVE  Abstract!Next
    BY <1>1, <1>3, BeginShows
  <1>4. CASE Crash
    <2>1. Writing' = [t \in Thread |-> Nowhere]
      <3>1. op' = [t \in Thread |-> NoOp]
        BY <1>4 DEF Crash
      <3> QED BY <3>1, Outlines DEF Writing
    <2>2. Targets' = Targets /\ Grade' = Grade /\ Told' = Abstract!Nothing
      BY <1>4, TellsNothing, GradeStays DEF Crash, Targets, Unfinished
    <2> QED BY <2>1, <2>2 DEF Abstract!Kill, Abstract!Next, Abstract!NoWrite, Nowhere
  <1>5. CASE UNCHANGED vars
    BY <1>5 DEF vars, volume, Grade, Targets, Writing, Outline, Told
  <1> QED BY <1>2, <1>3, <1>4, <1>5 DEF Next

\* The writer implements the volume that the group store and the job runner write
\* to, for any mount, any threads and files and any number of kills: a write ends
\* as it says, nobody else's file changes, and damage is what the grade of the
\* mount allows (storage.py: VolumeWriter.write, _write_atomic, _write_direct,
\* _write_recreate).
THEOREM WriterIsVolume == Spec => ImplementsVolume
  <1>1. Init => Abstract!Init
    <2> SUFFICES ASSUME Init PROVE Abstract!Init
      OBVIOUS
    <2>1. Targets \in [Kept -> Doc \cup {Absent}]
      BY VolumeWriterAssumption, KeptFiles DEF Init, Targets, Kind, Kept
    <2>2. Writing = [t \in Thread |-> Nowhere]
      <3>1. op = [t \in Thread |-> NoOp]
        BY DEF Init
      <3> QED BY <3>1, VolumeWriterAssumption, Outlines DEF Writing
    <2>3. Told = Abstract!Nothing
      BY VolumeWriterAssumption, KeptFiles DEF Init, Told, Abstract!Nothing, NoResult, NoOp
    <2>4. Grade \in {"atomic", "sound", "poor"}
      BY DEF Grade
    <2> QED BY <2>1, <2>2, <2>3, <2>4 DEF Abstract!Init, Abstract!NoWrite, Nowhere
  <1>2. Init => LadderInv
    BY VolumeWriterAssumption, LadderInit DEF LadderInv
  <1>3. Inv /\ LadderInv /\ [Next]_vars => LadderInv'
    BY VolumeWriterAssumption, LadderNext DEF LadderInv
  <1>4. Inv /\ LadderInv /\ [Next]_vars => [Abstract!Next]_(Abstract!vars)
    BY VolumeWriterAssumption, StepShows
  <1> QED BY <1>1, <1>2, <1>3, <1>4, InvHolds, PTL DEF Spec, ImplementsVolume, Abstract!Spec
=============================================================================
