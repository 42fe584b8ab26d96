------------------------- MODULE PickerEditorHistory -------------------------
(***************************************************************************)
(* PickerEditor with a history beside its steps: which groups other people *)
(* have changed since the editor was opened.                               *)
(***************************************************************************)
EXTENDS PickerEditor

VARIABLE theirs

hvars == <<vars, theirs>>

HInit == Init /\ theirs = {}

Changed == {id \in Id : doc'.groups[id] # doc.groups[id]}

OtherClicks ==
    \/ \E n \in Sat : AddPick(n) \/ RemovePick(n) \/ MakeReference(n)
    \/ Cancel \/ TypeName
    \/ \E s \in Slot : SaveGroup(s) \/ \E id \in Id : ArchiveGroup(s, id)

\* Next, with the history.
HNext ==
    \/ Others /\ theirs' = theirs \cup Changed
    \/ (\E id \in Id : EditGroup(id)) /\ theirs' = {}
    \/ /\ OtherClicks \/ \E s \in Slot : Service(s) \/ Browser(s)
       /\ theirs' = theirs

HSpec == HInit /\ [][HNext]_hvars

-----------------------------------------------------------------------------
(***************************************************************************)
(* What is said of the code, and does not hold of it.                      *)
(***************************************************************************)

\* "a write must present the revision it read or it is refused with a
\* conflict" (groups.py:17): a group that somebody else changed while it stood
\* in the editor is replaced only by a save whose user saw the change.  The page
\* presents the revision of its list, which may be newer than what is in the
\* editor (picker.js: loadGroups, saveGroup).
NoEditIsLost ==
    [][\A s \in Slot : Accepts(s) /\ out[s].id \in theirs =>
           doc.groups[out[s].id] = out[s].opened.group]_hvars
=============================================================================
