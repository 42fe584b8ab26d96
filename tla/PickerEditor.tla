---------------------------- MODULE PickerEditor ----------------------------
(***************************************************************************)
(* The group editor of timeslides/report/assets/picker.js (addPick,        *)
(* removePick, editGroup, saveGroup, archiveGroup, loadGroups), and the    *)
(* revision that its saves present, as one page of one browser.            *)
(*                                                                         *)
(* The page is a single thread; each handler runs up to its next await.    *)
(* Between a request and its answer come other clicks, answers to other    *)
(* requests in any order, and the edits of other people, who change the    *)
(* document of the service directly.  A request may be refused, and its    *)
(* answer may be lost after it took effect.                                *)
(*                                                                         *)
(* The service is what timeslides/groups.py promises on a sound volume     *)
(* (GroupStore): saves count the revision, update and archive must present *)
(* the current one, create presents none.                                  *)
(***************************************************************************)
EXTENDS Naturals, FiniteSets

CONSTANTS Id,     \* ids of groups
          Sat,    \* objects of the catalogue
          Slot,   \* bound: requests of the page that are out at a time
          None,   \* null, or nothing
          MaxRev  \* bound: revisions of the document

\* A group, without its name: the objects, two at least, and the reference.
Group == {g \in [sats : SUBSET Sat, reference : Sat] :
             Cardinality(g.sats) >= 2 /\ g.reference \in g.sats}

ASSUME PickerEditorAssumption ==
    /\ None \notin Id /\ None \notin Sat
    /\ \A g \in Group : g # None
    /\ IsFiniteSet(Sat)
    /\ MaxRev \in Nat

Groups == [Id -> Group \cup {None}]

VARIABLES
    doc,       \* the service: [rev, groups, archived]
    \* the page
    rev,       \* S.rev
    groups,    \* S.groups
    editing,   \* S.editing
    picked,    \* S.picked, without its order
    reference, \* S.reference
    blocked,   \* savebtn.disabled
    out,       \* requests that are out, with their answers
    \* history
    opened     \* the group the editor was opened on, and S.rev at that time

list   == <<rev, groups>>
editor == <<editing, picked, reference, blocked, opened>>
vars   == <<doc, list, editor, out>>

Listed    == {id \in Id : groups[id] # None}
NoGroups  == [id \in Id |-> None]
NotOpened == [group |-> None, rev |-> 0]

\* kind: "load", "save", "archive", or "saved", the load that ends a save.
\* is: "sent", "done" or "failed".  A load carries the list in its answer; a
\* change presents S.rev.  opened is history.
Load(kind) ==
    [kind |-> kind, id |-> None, group |-> None, rev |-> 0, opened |-> NotOpened,
     is |-> "sent", list |-> NoGroups]
Change(kind, id, group) ==
    [kind |-> kind, id |-> id, group |-> group, rev |-> rev, opened |-> opened,
     is |-> "sent", list |-> NoGroups]

Init ==
    /\ \E gs \in Groups : doc = [rev |-> 1, groups |-> gs, archived |-> {}]
    /\ rev = 0 /\ groups = NoGroups
    /\ editing = None /\ picked = {} /\ reference = None /\ blocked = TRUE
    /\ opened = NotOpened
    /\ \E n \in Slot : out = [s \in Slot |-> IF s = n THEN Load("load") ELSE None]

-----------------------------------------------------------------------------
(***************************************************************************)
(* The service.                                                            *)
(***************************************************************************)
PageUntouched == UNCHANGED <<list, editor>>

Becomes(gs, archived) ==
    /\ doc.rev < MaxRev
    /\ doc' = [rev |-> doc.rev + 1, groups |-> gs, archived |-> archived]

\* Edits of other people: a group created or replaced, archived or restored.
Others ==
    /\ \E id \in Id :
         \/ \E g \in Group \ {doc.groups[id]} :
              Becomes([doc.groups EXCEPT ![id] = g], doc.archived)
         \/ /\ doc.groups[id] # None
            /\ \E archived \in {doc.archived \cup {id}, doc.archived \ {id}} :
                 Becomes(doc.groups, archived)
    /\ out' = out
    /\ PageUntouched

Sent(s, kind) == out[s] # None /\ out[s].kind = kind /\ out[s].is = "sent"

\* Mutant: the revision of a request is not compared.
AnyRev(s) == TRUE

\* _check_rev of groups.py
RevIsCurrent(s) == out[s].rev = doc.rev

\* The answer arrives, or is lost on its way.
Answered(s) == out' \in {[out EXCEPT ![s].is = is] : is \in {"done", "failed"}}

AnswerLoad(s) ==
    /\ Sent(s, "load") \/ Sent(s, "saved")
    /\ out' = [out EXCEPT ![s].is = "done", ![s].rev = doc.rev,
                          ![s].list = [id \in Id |-> IF id \in doc.archived THEN None
                                                     ELSE doc.groups[id]]]
    /\ doc' = doc
    /\ PageUntouched

\* A group is created, or the one in the editor replaced.
AcceptSave(s) ==
    /\ Sent(s, "save")
    /\ \E id \in Id :
         /\ IF out[s].id = None THEN doc.groups[id] = None
            ELSE id = out[s].id /\ RevIsCurrent(s)
         /\ Becomes([doc.groups EXCEPT ![id] = out[s].group], doc.archived)
    /\ Answered(s)
    /\ PageUntouched

AcceptArchive(s) ==
    /\ Sent(s, "archive")
    /\ RevIsCurrent(s)
    /\ Becomes(doc.groups, doc.archived \cup {out[s].id})
    /\ Answered(s)
    /\ PageUntouched

\* A stale revision, a name that is taken, or a request lost on its way.
Refuse(s) ==
    /\ out[s] # None /\ out[s].is = "sent"
    /\ out' = [out EXCEPT ![s].is = "failed"]
    /\ doc' = doc
    /\ PageUntouched

-----------------------------------------------------------------------------
(***************************************************************************)
(* The editor.                                                             *)
(***************************************************************************)
EditorOnly == UNCHANGED <<doc, list, out>>
ServiceAndList == UNCHANGED <<doc, list>>

\* Mutant: one object is enough to save.
DrawPickedAtOne == blocked' = (picked' = {})

\* drawPicked gives the save button back as soon as two objects are picked.
DrawPicked == blocked' = (Cardinality(picked') < 2)

AddPick(n) ==
    /\ n \notin picked
    /\ picked' = picked \cup {n}
    /\ reference' = IF reference = None THEN n ELSE reference
    /\ DrawPicked
    /\ UNCHANGED <<editing, opened>>
    /\ EditorOnly

\* Mutant: the reference stays when its object is removed.
ReferenceStays(n) == {reference}

\* The reference goes to the first of the other objects, if there is one.
ReferenceWithout(n) ==
    IF reference # n THEN {reference}
    ELSE IF picked = {n} THEN {None} ELSE picked \ {n}

RemovePick(n) ==
    /\ n \in picked
    /\ picked' = picked \ {n}
    /\ reference' \in ReferenceWithout(n)
    /\ DrawPicked
    /\ UNCHANGED <<editing, opened>>
    /\ EditorOnly

MakeReference(n) ==
    /\ n \in picked \ {reference}
    /\ reference' = n
    /\ picked' = picked
    /\ DrawPicked
    /\ UNCHANGED <<editing, opened>>
    /\ EditorOnly

\* Typing in the name gives the button back too, even while a save is out.
TypeName ==
    /\ UNCHANGED <<editing, picked, reference, opened>>
    /\ DrawPicked
    /\ EditorOnly

EditGroup(id) ==
    /\ id \in Listed
    /\ editing' = id
    /\ reference' = groups[id].reference
    /\ picked' = groups[id].sats
    /\ opened' = [group |-> groups[id], rev |-> rev]
    /\ DrawPicked
    /\ EditorOnly

ResetEditor ==
    /\ picked' = {}
    /\ reference' = None
    /\ editing' = None
    /\ opened' = NotOpened
    /\ DrawPicked

\* The cancel button, hidden unless a group is being edited.
Cancel == editing # None /\ ResetEditor /\ EditorOnly

\* saveGroup up to its await.
SaveGroup(s) ==
    /\ ~blocked
    /\ out[s] = None
    /\ out' = [out EXCEPT ![s] = Change("save", editing,
                  [sats |-> picked, reference |-> reference])]
    /\ blocked' = TRUE
    /\ UNCHANGED <<editing, picked, reference, opened>>
    /\ ServiceAndList

\* archiveGroup up to its await.
ArchiveGroup(s, id) ==
    /\ id \in Listed
    /\ out[s] = None
    /\ out' = [out EXCEPT ![s] = Change("archive", id, None)]
    /\ UNCHANGED editor
    /\ ServiceAndList

-----------------------------------------------------------------------------
(***************************************************************************)
(* Answers.                                                                *)
(***************************************************************************)
Back(s, kind, is) == out[s] # None /\ out[s].kind = kind /\ out[s].is = is

\* saveGroup after its first await: the editor is cleared, whatever it holds
\* by now, and the list loaded.
Saved(s) ==
    /\ Back(s, "save", "done")
    /\ ResetEditor
    /\ out' = [out EXCEPT ![s] = Load("saved")]
    /\ ServiceAndList

SaveRefused(s) ==
    /\ Back(s, "save", "failed")
    /\ out' = [out EXCEPT ![s] = None]
    /\ UNCHANGED <<editing, picked, reference, opened>>
    /\ DrawPicked
    /\ ServiceAndList

\* archiveGroup after its first await.
ArchiveDone(s) ==
    /\ Back(s, "archive", "done")
    /\ IF editing = out[s].id THEN ResetEditor ELSE UNCHANGED editor
    /\ out' = [out EXCEPT ![s] = Load("load")]
    /\ ServiceAndList

ArchiveRefused(s) ==
    /\ Back(s, "archive", "failed")
    /\ out' = [out EXCEPT ![s] = None]
    /\ UNCHANGED editor
    /\ ServiceAndList

\* S.rev = body.rev
RevOf(s) == out[s].rev

\* loadGroups after its await, and the end of saveGroup where it was called
\* from there.
Loaded(s) ==
    /\ \/ /\ \E kind \in {"load", "saved"} : Back(s, kind, "done")
          /\ rev' = RevOf(s)
          /\ groups' = out[s].list
       \/ /\ \E kind \in {"load", "saved"} : Back(s, kind, "failed")
          /\ UNCHANGED list
    /\ UNCHANGED <<editing, picked, reference, opened>>
    /\ IF out[s].kind = "saved" THEN DrawPicked ELSE blocked' = blocked
    /\ out' = [out EXCEPT ![s] = None]
    /\ doc' = doc

User == \/ \E n \in Sat : AddPick(n) \/ RemovePick(n) \/ MakeReference(n)
        \/ \E id \in Id : EditGroup(id)
        \/ Cancel \/ TypeName
        \/ \E s \in Slot : SaveGroup(s) \/ \E id \in Id : ArchiveGroup(s, id)

Service(s) == AnswerLoad(s) \/ AcceptSave(s) \/ AcceptArchive(s) \/ Refuse(s)

Browser(s) == \/ Saved(s) \/ SaveRefused(s) \/ ArchiveDone(s) \/ ArchiveRefused(s)
              \/ Loaded(s)

Next == User \/ Others \/ \E s \in Slot : Service(s) \/ Browser(s)

Spec == Init /\ [][Next]_vars

-----------------------------------------------------------------------------
(***************************************************************************)
(* Properties.                                                             *)
(***************************************************************************)
Opened == [group : Group \cup {None}, rev : Nat]
Request == [kind : {"load", "saved", "save", "archive"}, id : Id \cup {None},
            group : Group \cup {None}, rev : Nat, opened : Opened,
            is : {"sent", "done", "failed"}, list : Groups]

RequestsTyped ==
    /\ out \in [Slot -> Request \cup {None}]
    /\ \A s \in Slot : out[s] # None => /\ out[s].kind = "save" => out[s].group # None
                                        /\ out[s].kind = "archive" => out[s].id # None

\* Every variable has its type, and what is sent to be saved is a whole group:
\* two objects at least, and a reference among them (picker.js: S, saveGroup).
TypeOK ==
    /\ doc \in [rev : Nat, groups : Groups, archived : SUBSET Id]
    /\ rev \in Nat /\ groups \in Groups
    /\ editing \in Id \cup {None}
    /\ picked \subseteq Sat /\ reference \in Sat \cup {None}
    /\ blocked \in BOOLEAN
    /\ RequestsTyped
    /\ opened \in Opened

\* The editor never has objects without a reference, or a reference that is not
\* one of them, and can be saved only with two objects, through every order of
\* picks, clicks and late answers (picker.js: addPick, removePick, editGroup,
\* resetEditor, drawPicked).
EditorIsWhole ==
    /\ IF picked = {} THEN reference = None ELSE reference \in picked
    /\ blocked \/ Cardinality(picked) >= 2

\* The service takes a save of an existing group.
Accepts(s) == Sent(s, "save") /\ out[s].id # None /\ doc' # doc /\ ~Sent(s, "save")'

\* A save that is accepted replaces the group its user saw, if the editor was
\* opened on the list whose revision it presents: list and revision of the
\* page go together, whatever the order in which lists arrive (picker.js:
\* loadGroups, saveGroup; groups.py: _check_rev).
FreshEditsAreSafe ==
    [][\A s \in Slot : Accepts(s) /\ out[s].opened.rev = out[s].rev =>
           doc.groups[out[s].id] = out[s].opened.group]_vars
=============================================================================
