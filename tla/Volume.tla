------------------------------- MODULE Volume -------------------------------
(***************************************************************************)
(* What the group store and the job runner may rely on when they write a   *)
(* file through timeslides/storage.py, without temporary files, strategies *)
(* and calls: a write that returns has put its document there; one that    *)
(* raises, or is cut short by a kill, leaves what was there, or the        *)
(* document, or damage; and nobody else's file changes.  How much damage   *)
(* depends on the volume.                                                  *)
(***************************************************************************)
CONSTANTS Thread, File, Doc, Absent, Torn, None,
          Fresh     \* files that are new at each write

VARIABLES grade,    \* of the volume: see Damage
          content,  \* what each file holds
          writing,  \* the write each thread is in
          told      \* the outcome of the last step, if it ended a write

vars == <<grade, content, writing, told>>

NoWrite == [path |-> None, doc |-> None]
Nothing == [path |-> None, doc |-> None, is |-> "none"]

\* What a file may hold between the old document and the new one.
Damage == CASE grade = "atomic" -> {}
            [] grade = "sound"  -> {Torn}
            [] grade = "poor"   -> {Torn, Absent}

Init ==
    /\ grade \in {"atomic", "sound", "poor"}
    /\ content \in [File -> Doc \cup {Absent}]
    /\ writing = [t \in Thread |-> NoWrite]
    /\ told = Nothing

Begin(t, p, d) ==
    /\ writing[t] = NoWrite /\ \A u \in Thread : writing[u].path # p
    /\ writing' = [writing EXCEPT ![t] = [path |-> p, doc |-> d]]
    /\ content' = IF p \in Fresh THEN [content EXCEPT ![p] = Absent] ELSE content
    /\ told' = Nothing
    /\ grade' = grade

Alter(t) ==
    /\ writing[t] # NoWrite
    /\ \E c \in {writing[t].doc} \cup Damage :
         content' = [content EXCEPT ![writing[t].path] = c]
    /\ told' = Nothing
    /\ UNCHANGED <<grade, writing>>

End(t, is) ==
    /\ writing[t] # NoWrite
    /\ told' = [path |-> writing[t].path, doc |-> writing[t].doc, is |-> is]
    /\ writing' = [writing EXCEPT ![t] = NoWrite]
    /\ UNCHANGED <<grade, content>>

Return(t) == End(t, "written") /\ content[writing[t].path] = writing[t].doc

\* Only a poor volume refuses a write.
Raise(t) == End(t, "raised") /\ grade = "poor"

\* A step that shows nothing.
Quiet == told' = Nothing /\ UNCHANGED <<grade, content, writing>>

Kill ==
    /\ writing' = [t \in Thread |-> NoWrite]
    /\ told' = Nothing
    /\ UNCHANGED <<grade, content>>

Next == \/ Quiet \/ Kill
        \/ \E t \in Thread : \/ Alter(t) \/ Return(t) \/ Raise(t)
                             \/ \E p \in File, d \in Doc : Begin(t, p, d)

Spec == Init /\ [][Next]_vars
=============================================================================
