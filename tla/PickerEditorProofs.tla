------------------------- MODULE PickerEditorProofs -------------------------
(***************************************************************************)
(* Proofs about PickerEditor, for any number of groups, objects, requests  *)
(* and revisions: what is in the editor is whole, and so is what is sent;  *)
(* and a save from an editor that was opened on the list whose revision it *)
(* presents replaces the group its user saw.                               *)
(***************************************************************************)
EXTENDS PickerEditor, FiniteSetTheorems, TLAPS

USE PickerEditorAssumption

\* The objects in the editor can be counted.
LEMMA PickedCounted ==
    ASSUME NEW objects \in SUBSET Sat
    PROVE  /\ Cardinality(objects) \in Nat
           /\ Cardinality(objects) >= 2 => objects # {}
<1>1. IsFiniteSet(objects)
  BY FS_Subset
<1>. QED
  BY <1>1, FS_CardinalityType, FS_EmptySet

\* Requests for the list, and requests that change a group, are requests.
LEMMA LoadTyped ==
    ASSUME NEW kind \in {"load", "saved", "save", "archive"}
    PROVE  /\ Load(kind) \in Request
           /\ Load(kind).kind = kind /\ Load(kind).rev = 0
           /\ Load(kind).list = NoGroups
<1>1. NoGroups \in Groups
  BY DEF NoGroups, Groups
<1>. QED
  BY <1>1 DEF Load, Request, NotOpened, Opened

LEMMA ChangeTyped ==
    ASSUME TypeOK, NEW kind \in {"save", "archive"}, NEW id \in Id \cup {None},
           NEW group \in Group \cup {None}
    PROVE  Change(kind, id, group) \in Request
<1>1. NoGroups \in Groups
  BY DEF NoGroups, Groups
<1>. QED
  BY <1>1 DEF Change, Request, TypeOK

\* An answer changes what a request is, and maybe what it carries.
LEMMA AnswerTyped ==
    ASSUME NEW r \in Request, NEW is \in {"sent", "done", "failed"},
           NEW n \in Nat, NEW groupList \in Groups
    PROVE  /\ [r EXCEPT !.is = is] \in Request
           /\ [r EXCEPT !.is = "done", !.rev = n, !.list = groupList] \in Request
BY DEF Request

\* The document of the service stays one.
LEMMA BecomesTyped ==
    ASSUME TypeOK, NEW gs \in Groups, NEW archived \in SUBSET Id,
           Becomes(gs, archived)
    PROVE  /\ doc' \in [rev : Nat, groups : Groups, archived : SUBSET Id]
           /\ doc'.rev = doc.rev + 1
           /\ doc'.groups = gs
BY DEF Becomes, TypeOK

\* An editor that is drawn is whole if its reference is.
LEMMA DrawnIsWhole ==
    ASSUME DrawPicked, picked' \in SUBSET Sat,
           IF picked' = {} THEN reference' = None ELSE reference' \in picked'
    PROVE  EditorIsWhole' /\ blocked' \in BOOLEAN
<1>1. Cardinality(picked') \in Nat
  BY PickedCounted
<1>2. blocked' \in BOOLEAN
  BY DEF DrawPicked
<1>3. ~(Cardinality(picked') < 2) => Cardinality(picked') >= 2
  BY <1>1
<1>4. blocked' \/ Cardinality(picked') >= 2
  BY <1>3, Zenon DEF DrawPicked
<1>. QED
  BY <1>2, <1>4 DEF EditorIsWhole

\* A slot is given another request, or is free again.
LEMMA SlotTyped ==
    ASSUME RequestsTyped, NEW s \in Slot, NEW q \in Request \cup {None},
           q # None => /\ q.kind = "save" => q.group # None
                       /\ q.kind = "archive" => q.id # None,
           out' = [out EXCEPT ![s] = q]
    PROVE  RequestsTyped'
<1>1. out' \in [Slot -> Request \cup {None}]
  BY DEF RequestsTyped
<1>2. \A r \in Slot : out'[r] = IF r = s THEN q ELSE out[r]
  BY DEF RequestsTyped
<1>. QED
  BY <1>1, <1>2 DEF RequestsTyped

\* An answer leaves what was asked, and may bring a list.
LEMMA AnswersTyped ==
    ASSUME TypeOK, NEW s \in Slot, out[s] # None,
           \/ \E is \in {"done", "failed"} : out' = [out EXCEPT ![s].is = is]
           \/ \E n \in Nat, l \in Groups :
                out' = [out EXCEPT ![s].is = "done", ![s].rev = n, ![s].list = l]
    PROVE  RequestsTyped'
<1>1. RequestsTyped /\ out[s] \in Request
  BY DEF TypeOK, RequestsTyped
<1>2. PICK q \in Request : /\ out' = [out EXCEPT ![s] = q]
                          /\ q.kind = out[s].kind /\ q.id = out[s].id
                          /\ q.group = out[s].group
  <2>1. CASE \E is \in {"done", "failed"} : out' = [out EXCEPT ![s].is = is]
    <3>1. PICK is \in {"done", "failed"} : out' = [out EXCEPT ![s].is = is]
      BY <2>1
    <3> DEFINE q == [out[s] EXCEPT !.is = is]
    <3>2. q \in Request
      BY <1>1, AnswerTyped DEF Request
    <3>3. q.kind = out[s].kind /\ q.id = out[s].id /\ q.group = out[s].group
      BY <1>1 DEF Request
    <3>. QED
      BY <3>1, <3>2, <3>3
  <2>2. CASE \E n \in Nat, l \in Groups :
               out' = [out EXCEPT ![s].is = "done", ![s].rev = n, ![s].list = l]
    <3>1. PICK n \in Nat, l \in Groups :
             out' = [out EXCEPT ![s].is = "done", ![s].rev = n, ![s].list = l]
      BY <2>2
    <3> DEFINE q == [out[s] EXCEPT !.is = "done", !.rev = n, !.list = l]
    <3>2. q \in Request
      BY <1>1, AnswerTyped DEF Request
    <3>3. q.kind = out[s].kind /\ q.id = out[s].id /\ q.group = out[s].group
      BY <1>1 DEF Request
    <3>4. out' = [out EXCEPT ![s] = q]
      BY <1>1, <3>1 DEF RequestsTyped
    <3>. QED
      BY <3>2, <3>3, <3>4
  <2>. QED
    BY <2>1, <2>2
<1>. QED
  BY <1>1, <1>2, SlotTyped DEF RequestsTyped

-----------------------------------------------------------------------------
(***************************************************************************)
(* The editor.  What is sent is whole because the editor is: the two       *)
(* invariants are proved together.                                         *)
(***************************************************************************)
EditorInv == TypeOK /\ EditorIsWhole

\* The steps of the service do not touch the page.
\* The steps of the service do not touch the page.
LEMMA ServiceStep ==
    ASSUME EditorInv, NEW s \in Slot, Service(s)
    PROVE  EditorInv'
<1>1. TypeOK /\ EditorIsWhole /\ out[s] # None /\ out[s] \in Request
  BY DEF EditorInv, TypeOK, RequestsTyped, Service, AnswerLoad, AcceptSave,
         AcceptArchive, Refuse, Sent
<1>2. PageUntouched
  BY DEF Service, AnswerLoad, AcceptSave, AcceptArchive, Refuse
<1>3. RequestsTyped'
  <2>1. CASE AnswerLoad(s)
    <3>1. [id \in Id |-> IF id \in doc.archived THEN None ELSE doc.groups[id]] \in Groups
      BY <1>1 DEF TypeOK, Groups
    <3>2. doc.rev \in Nat
      BY <1>1 DEF TypeOK
    <3>. QED
      BY <1>1, <2>1, <3>1, <3>2, AnswersTyped DEF AnswerLoad
  <2>2. CASE AcceptSave(s) \/ AcceptArchive(s) \/ Refuse(s)
    <3>1. \E is \in {"done", "failed"} : out' = [out EXCEPT ![s].is = is]
      BY <2>2 DEF AcceptSave, AcceptArchive, Refuse, Answered
    <3>. QED
      BY <1>1, <3>1, AnswersTyped
  <2>. QED
    BY <2>1, <2>2 DEF Service
<1>4. doc' \in [rev : Nat, groups : Groups, archived : SUBSET Id]
  <2>1. CASE AcceptSave(s)
    <3>1. out[s].group \in Group \cup {None}
      BY <1>1 DEF Request
    <3>2. PICK id \in Id :
             Becomes([doc.groups EXCEPT ![id] = out[s].group], doc.archived)
      BY <2>1 DEF AcceptSave
    <3>3. [doc.groups EXCEPT ![id] = out[s].group] \in Groups
      BY <1>1, <3>1 DEF TypeOK, Groups
    <3>. QED
      BY <1>1, <3>2, <3>3, BecomesTyped DEF TypeOK
  <2>2. CASE AcceptArchive(s)
    <3>1. out[s].id \in Id
      BY <1>1, <2>2 DEF Request, TypeOK, RequestsTyped, AcceptArchive, Sent
    <3>2. doc.archived \cup {out[s].id} \in SUBSET Id /\ doc.groups \in Groups
      BY <1>1, <3>1 DEF TypeOK
    <3>. QED
      BY <1>1, <2>2, <3>2, BecomesTyped DEF AcceptArchive
  <2>3. CASE AnswerLoad(s) \/ Refuse(s)
    BY <1>1, <2>3 DEF AnswerLoad, Refuse, TypeOK
  <2>. QED
    BY <2>1, <2>2, <2>3 DEF Service
<1>. QED
  BY <1>1, <1>2, <1>3, <1>4 DEF PageUntouched, list, editor, EditorInv, TypeOK,
                                EditorIsWhole

\* Nor do other people.
LEMMA OthersStep ==
    ASSUME EditorInv, Others
    PROVE  EditorInv'
<1>1. TypeOK /\ EditorIsWhole
  BY DEF EditorInv
<1>2. PageUntouched /\ out' = out
  BY DEF Others
<1>3. doc' \in [rev : Nat, groups : Groups, archived : SUBSET Id]
  <2>1. PICK id \in Id :
         \/ \E g \in Group \ {doc.groups[id]} :
              Becomes([doc.groups EXCEPT ![id] = g], doc.archived)
         \/ \E archived \in {doc.archived \cup {id}, doc.archived \ {id}} :
              Becomes(doc.groups, archived)
    BY DEF Others
  <2>2. CASE \E g \in Group \ {doc.groups[id]} :
              Becomes([doc.groups EXCEPT ![id] = g], doc.archived)
    <3>1. PICK g \in Group : Becomes([doc.groups EXCEPT ![id] = g], doc.archived)
      BY <2>2
    <3>2. [doc.groups EXCEPT ![id] = g] \in Groups /\ doc.archived \in SUBSET Id
      BY <1>1 DEF TypeOK, Groups
    <3>. QED
      BY <1>1, <3>1, <3>2, BecomesTyped
  <2>3. CASE \E archived \in {doc.archived \cup {id}, doc.archived \ {id}} :
              Becomes(doc.groups, archived)
    <3>1. PICK archived \in SUBSET Id : Becomes(doc.groups, archived)
      BY <1>1, <2>3 DEF TypeOK
    <3>. QED
      BY <1>1, <3>1, BecomesTyped DEF TypeOK
  <2>. QED
    BY <2>1, <2>2, <2>3
<1>. QED
  BY <1>1, <1>2, <1>3 DEF PageUntouched, list, editor, EditorInv, TypeOK,
                          RequestsTyped, EditorIsWhole

\* Picking, removing, opening, clearing and typing: the reference stays one of
\* the objects, and drawPicked does the rest.
LEMMA EditStep ==
    ASSUME EditorInv,
           \/ \E n \in Sat : AddPick(n) \/ RemovePick(n) \/ MakeReference(n)
           \/ \E id \in Id : EditGroup(id)
           \/ Cancel
           \/ TypeName
    PROVE  EditorInv'
<1>1. TypeOK /\ EditorIsWhole
  BY DEF EditorInv
<1>2. EditorOnly /\ DrawPicked
  BY DEF AddPick, RemovePick, MakeReference, EditGroup, Cancel, ResetEditor, TypeName
<1>3. /\ picked' \in SUBSET Sat
      /\ IF picked' = {} THEN reference' = None ELSE reference' \in picked'
      /\ editing' \in Id \cup {None}
      /\ opened' \in Opened
  <2>1. CASE \E n \in Sat : AddPick(n)
    BY <1>1, <2>1 DEF AddPick, TypeOK, EditorIsWhole
  <2>2. CASE \E n \in Sat : RemovePick(n)
    BY <1>1, <2>2 DEF RemovePick, ReferenceWithout, TypeOK, EditorIsWhole
  <2>3. CASE \E n \in Sat : MakeReference(n)
    BY <1>1, <2>3 DEF MakeReference, TypeOK, EditorIsWhole
  <2>4. CASE \E id \in Id : EditGroup(id)
    <3>1. PICK id \in Id : EditGroup(id)
      BY <2>4
    <3>2. groups[id] \in Group
      BY <1>1, <3>1 DEF EditGroup, Listed, TypeOK, Groups
    <3>3. /\ groups[id].sats \in SUBSET Sat
          /\ groups[id].reference \in groups[id].sats
      BY <3>2 DEF Group
    <3>4. [group |-> groups[id], rev |-> rev] \in Opened
      BY <1>1, <3>2 DEF Opened, TypeOK
    <3>. QED
      BY <3>1, <3>3, <3>4 DEF EditGroup
  <2>5. CASE Cancel
    BY <2>5 DEF Cancel, ResetEditor, NotOpened, Opened
  <2>6. CASE TypeName
    BY <1>1, <2>6 DEF TypeName, TypeOK, EditorIsWhole
  <2>. QED
    BY <2>1, <2>2, <2>3, <2>4, <2>5, <2>6
<1>4. EditorIsWhole' /\ blocked' \in BOOLEAN
  BY <1>2, <1>3, DrawnIsWhole
<1>. QED
  BY <1>1, <1>2, <1>3, <1>4 DEF EditorOnly, list, EditorInv, TypeOK, RequestsTyped

\* Saving and archiving send a request that is whole, since the button is only
\* enabled for an editor that is.
LEMMA SendStep ==
    ASSUME EditorInv, NEW s \in Slot,
           SaveGroup(s) \/ \E id \in Id : ArchiveGroup(s, id)
    PROVE  EditorInv'
<1>1. TypeOK /\ EditorIsWhole /\ RequestsTyped
  BY DEF EditorInv, TypeOK
<1>2. CASE SaveGroup(s)
  <2> DEFINE g == [sats |-> picked, reference |-> reference]
  <2>1. Cardinality(picked) >= 2 /\ reference \in picked
    <3>1. ~blocked
      BY <1>2 DEF SaveGroup
    <3>2. Cardinality(picked) >= 2
      BY <1>1, <3>1, Zenon DEF EditorIsWhole
    <3>. QED
      BY <1>1, <3>2, PickedCounted DEF EditorIsWhole, TypeOK
  <2>2. g \in Group
    BY <1>1, <2>1 DEF Group, TypeOK
  <2>3. Change("save", editing, g) \in Request
    BY <1>1, <2>2, ChangeTyped DEF TypeOK
  <2>4. /\ Change("save", editing, g).kind = "save"
        /\ Change("save", editing, g).group = g
    BY DEF Change
  <2>5. out' = [out EXCEPT ![s] = Change("save", editing, g)]
    BY <1>2 DEF SaveGroup
  <2>6. RequestsTyped'
    <3>1. g # None
      BY <2>2
    <3>. QED
      BY <1>1, <2>3, <2>4, <2>5, <3>1, SlotTyped
  <2>7. EditorIsWhole' /\ blocked' \in BOOLEAN
    BY <1>1, <1>2 DEF SaveGroup, EditorIsWhole
  <2>. QED
    BY <1>1, <1>2, <2>6, <2>7 DEF SaveGroup, ServiceAndList, list, EditorInv, TypeOK
<1>3. ASSUME NEW id \in Id, ArchiveGroup(s, id) PROVE EditorInv'
  <2>1. Change("archive", id, None) \in Request
    BY <1>1, ChangeTyped
  <2>2. /\ Change("archive", id, None).kind = "archive"
        /\ Change("archive", id, None).id = id
    BY DEF Change
  <2>3. RequestsTyped'
    <3>1. out' = [out EXCEPT ![s] = Change("archive", id, None)]
      BY <1>3 DEF ArchiveGroup
    <3>. QED
      BY <1>1, <2>1, <2>2, <3>1, SlotTyped
  <2>. QED
    BY <1>1, <1>3, <2>3 DEF ArchiveGroup, ServiceAndList, list, editor, EditorInv,
                            TypeOK, EditorIsWhole
<1>. QED
  BY <1>2, <1>3

\* An answer that is handled frees its slot or sends for the list; the editor is
\* cleared or left alone, and drawn.
LEMMA AnswerStep ==
    ASSUME EditorInv, NEW s \in Slot, Browser(s)
    PROVE  EditorInv'
<1>1. TypeOK /\ EditorIsWhole /\ RequestsTyped
  BY DEF EditorInv, TypeOK
<1>2. /\ Load("load") \in Request /\ Load("load").kind = "load"
      /\ Load("saved") \in Request /\ Load("saved").kind = "saved"
  BY LoadTyped
<1>3. RequestsTyped'
  <2>1. CASE out' = [out EXCEPT ![s] = None]
    BY <1>1, <2>1, SlotTyped
  <2>2. CASE out' = [out EXCEPT ![s] = Load("load")]
    BY <1>1, <1>2, <2>2, SlotTyped
  <2>3. CASE out' = [out EXCEPT ![s] = Load("saved")]
    BY <1>1, <1>2, <2>3, SlotTyped
  <2>. QED
    BY <2>1, <2>2, <2>3 DEF Browser, Saved, SaveRefused, ArchiveDone,
                            ArchiveRefused, Loaded
<1>4. /\ picked' \in SUBSET Sat
      /\ IF picked' = {} THEN reference' = None ELSE reference' \in picked'
      /\ editing' \in Id \cup {None}
      /\ opened' \in Opened
      /\ DrawPicked \/ UNCHANGED <<picked, reference, blocked>>
  <2>1. CASE ResetEditor
    BY <2>1 DEF ResetEditor, NotOpened, Opened
  <2>2. CASE UNCHANGED <<editing, picked, reference, opened>>
    <3>1. DrawPicked \/ blocked' = blocked
      BY DEF Browser, Saved, SaveRefused, ArchiveDone, ArchiveRefused, Loaded,
             ResetEditor, editor
    <3>. QED
      BY <1>1, <2>2, <3>1 DEF TypeOK, EditorIsWhole
  <2>. QED
    BY <2>1, <2>2 DEF Browser, Saved, SaveRefused, ArchiveDone, ArchiveRefused,
                      Loaded, editor
<1>5. EditorIsWhole' /\ blocked' \in BOOLEAN
  <2>1. CASE DrawPicked
    BY <1>4, <2>1, DrawnIsWhole
  <2>2. CASE UNCHANGED <<picked, reference, blocked>>
    BY <1>1, <2>2 DEF TypeOK, EditorIsWhole
  <2>. QED
    BY <1>4, <2>1, <2>2
<1>6. doc' = doc /\ rev' \in Nat /\ groups' \in Groups
  <2>1. CASE Loaded(s)
    <3>1. out[s] # None => out[s] \in Request
      BY <1>1 DEF RequestsTyped
    <3>. QED
      BY <1>1, <2>1, <3>1 DEF Loaded, Back, RevOf, list, Request, TypeOK
  <2>2. CASE ~Loaded(s)
    BY <1>1, <2>2 DEF Browser, Saved, SaveRefused, ArchiveDone, ArchiveRefused,
                      ServiceAndList, list, TypeOK
  <2>. QED
    BY <2>1, <2>2
<1>. QED
  BY <1>1, <1>3, <1>4, <1>5, <1>6 DEF EditorInv, TypeOK

\* Every step keeps the types and the editor.
LEMMA StepEditorInv == EditorInv /\ [Next]_vars => EditorInv'
<1> SUFFICES ASSUME EditorInv, [Next]_vars PROVE EditorInv'
  OBVIOUS
<1>1. CASE User
  <2>1. CASE \E s \in Slot : SaveGroup(s) \/ \E id \in Id : ArchiveGroup(s, id)
    BY <2>1, SendStep
  <2>2. CASE ~\E s \in Slot : SaveGroup(s) \/ \E id \in Id : ArchiveGroup(s, id)
    BY <1>1, <2>2, EditStep DEF User
  <2>. QED
    BY <2>1, <2>2
<1>2. CASE Others
  BY <1>2, OthersStep
<1>3. ASSUME NEW s \in Slot, Service(s) \/ Browser(s) PROVE EditorInv'
  BY <1>3, ServiceStep, AnswerStep
<1>4. CASE UNCHANGED vars
  BY <1>4 DEF vars, list, editor, EditorInv, TypeOK, RequestsTyped, EditorIsWhole
<1>. QED
  BY <1>1, <1>2, <1>3, <1>4 DEF Next

LEMMA InitEditorInv == Init => EditorInv
<1> SUFFICES ASSUME Init PROVE EditorInv
  OBVIOUS
<1>1. NoGroups \in Groups
  BY DEF NoGroups, Groups
<1>2. RequestsTyped
  <2>1. PICK n \in Slot : out = [s \in Slot |-> IF s = n THEN Load("load") ELSE None]
    BY DEF Init
  <2>. QED
    BY <2>1, LoadTyped DEF RequestsTyped
<1>3. doc \in [rev : Nat, groups : Groups, archived : SUBSET Id]
  BY DEF Init
<1>. QED
  BY <1>1, <1>2, <1>3 DEF Init, EditorInv, TypeOK, EditorIsWhole, NotOpened, Opened

\* Every variable keeps its type, and what is sent to be saved is a whole group
\* (picker.js: saveGroup, drawPicked).
THEOREM TypeCorrect == Spec => []TypeOK
<1>1. EditorInv => TypeOK
  BY DEF EditorInv
<1>. QED
  BY <1>1, InitEditorInv, StepEditorInv, PTL DEF Spec

\* In every order of picks, clicks and late answers the reference is one of the
\* objects, and only an editor with two objects can be saved (picker.js:
\* addPick, removePick, editGroup, resetEditor, drawPicked).
THEOREM EditorStaysWhole == Spec => []EditorIsWhole
<1>1. EditorInv => EditorIsWhole
  BY DEF EditorInv
<1>. QED
  BY <1>1, InitEditorInv, StepEditorInv, PTL DEF Spec

-----------------------------------------------------------------------------
(***************************************************************************)
(* Fresh edits.  Whatever carries the current revision agrees with the     *)
(* document: lists, the group in the editor, and what was sent of them.    *)
(***************************************************************************)
Docs == [rev : Nat, groups : Groups, archived : SUBSET Id]

\* A list of revision n agrees with the document d, if it is not an older one.
Agrees(d, gs, n) ==
    n <= d.rev /\ (n = d.rev => \A id \in Id : gs[id] # None => gs[id] = d.groups[id])

\* A group that was opened on a list agrees with the document, likewise.
WasSeen(d, id, o) ==
    o.rev <= d.rev /\ (o.rev = d.rev => o.group = d.groups[id])

\* What a request carries agrees with the document.
Carries(d, q) ==
    /\ q.kind \in {"load", "saved"} /\ q.is = "done" => Agrees(d, q.list, q.rev)
    /\ q.kind = "save" /\ q.id # None => WasSeen(d, q.id, q.opened)

FreshInv ==
    /\ Agrees(doc, groups, rev)
    /\ editing # None => WasSeen(doc, editing, opened)
    /\ \A s \in Slot : out[s] # None => Carries(doc, out[s])

\* The document stays as it is or gets the next revision.
LEMMA DocMoves ==
    ASSUME EditorInv, [Next]_vars
    PROVE  doc \in Docs /\ doc' \in Docs /\ (doc' = doc \/ doc'.rev = doc.rev + 1)
<1>1. doc \in Docs /\ doc' \in Docs
  BY StepEditorInv DEF EditorInv, TypeOK, Docs
<1>2. CASE \E gs, archived : Becomes(gs, archived)
  BY <1>1, <1>2 DEF Becomes
<1>3. CASE doc' = doc
  BY <1>1, <1>3
<1>4. doc' = doc \/ \E gs, archived : Becomes(gs, archived)
  <2>1. CASE User
    BY <2>1 DEF User, AddPick, RemovePick, MakeReference, EditGroup, Cancel, TypeName,
                SaveGroup, ArchiveGroup, EditorOnly, ServiceAndList
  <2>2. CASE Others
    BY <2>2 DEF Others
  <2>3. ASSUME NEW s \in Slot, Service(s)
        PROVE  doc' = doc \/ \E gs, archived : Becomes(gs, archived)
    BY <2>3 DEF Service, AnswerLoad, AcceptSave, AcceptArchive, Refuse
  <2>4. ASSUME NEW s \in Slot, Browser(s) PROVE doc' = doc
    BY <2>4 DEF Browser, Saved, SaveRefused, ArchiveDone, ArchiveRefused, Loaded,
                ServiceAndList
  <2>. QED
    BY <2>1, <2>2, <2>3, <2>4 DEF Next, vars
<1>. QED
  BY <1>2, <1>3, <1>4

\* What agrees with a document agrees with the next one, of which it is older.
LEMMA AgreementLasts ==
    ASSUME NEW d \in Docs, NEW e \in Docs, e = d \/ e.rev = d.rev + 1
    PROVE  /\ \A n \in Nat, gs \in Groups : Agrees(d, gs, n) => Agrees(e, gs, n)
           /\ \A id \in Id, o \in Opened : WasSeen(d, id, o) => WasSeen(e, id, o)
           /\ \A q \in Request : Carries(d, q) => Carries(e, q)
<1>1. \A n \in Nat, gs \in Groups : Agrees(d, gs, n) => Agrees(e, gs, n)
  BY DEF Agrees, Docs
<1>2. \A id \in Id, o \in Opened : WasSeen(d, id, o) => WasSeen(e, id, o)
  BY DEF WasSeen, Docs, Opened
<1>3. \A q \in Request : Carries(d, q) => Carries(e, q)
  <2> SUFFICES ASSUME NEW q \in Request, Carries(d, q) PROVE Carries(e, q)
    OBVIOUS
  <2>1. q.rev \in Nat /\ q.list \in Groups /\ q.id \in Id \cup {None} /\ q.opened \in Opened
    BY DEF Request
  <2>. QED
    BY <1>1, <1>2, <2>1 DEF Carries
<1>. QED
  BY <1>1, <1>2, <1>3

\* A slot that gets a request which agrees leaves all of them agreeing.
LEMMA SlotAgrees ==
    ASSUME RequestsTyped, NEW s \in Slot, NEW q, out' = [out EXCEPT ![s] = q],
           NEW d \in Docs, NEW e \in Docs, e = d \/ e.rev = d.rev + 1,
           \A r \in Slot : out[r] # None => Carries(d, out[r]),
           q # None => Carries(e, q)
    PROVE  \A r \in Slot : out'[r] # None => Carries(e, out'[r])
<1> SUFFICES ASSUME NEW r \in Slot, out'[r] # None PROVE Carries(e, out'[r])
  OBVIOUS
<1>1. CASE r = s
  BY <1>1 DEF RequestsTyped
<1>2. CASE r # s
  <2>1. out'[r] = out[r] /\ out[r] \in Request
    BY <1>2 DEF RequestsTyped
  <2>. QED
    BY <2>1, AgreementLasts
<1>. QED
  BY <1>1, <1>2

\* What the service answers agrees with its document.
LEMMA AnswersAgree ==
    ASSUME EditorInv, FreshInv, NEW s \in Slot, Service(s)
    PROVE  \A r \in Slot : out'[r] # None => Carries(doc', out'[r])
<1>1. doc \in Docs /\ doc' \in Docs /\ (doc' = doc \/ doc'.rev = doc.rev + 1)
  BY DocMoves DEF Next
<1>2. RequestsTyped /\ out[s] # None /\ out[s] \in Request
  BY DEF EditorInv, TypeOK, RequestsTyped, Service, AnswerLoad, AcceptSave,
         AcceptArchive, Refuse, Sent
<1>3. \A r \in Slot : out[r] # None => Carries(doc, out[r])
  BY DEF FreshInv
<1>4. CASE AnswerLoad(s)
  <2> DEFINE live == [id \in Id |-> IF id \in doc.archived THEN None ELSE doc.groups[id]]
             answer == [out[s] EXCEPT !.is = "done", !.rev = doc.rev, !.list = live]
  <2>1. out' = [out EXCEPT ![s] = answer]
    BY <1>4 DEF AnswerLoad
  <2>2. /\ answer.kind \in {"load", "saved"}
        /\ answer.rev = doc.rev /\ answer.list = live
    BY <1>2, <1>4 DEF AnswerLoad, Sent, Request
  <2>3. Agrees(doc, live, doc.rev)
    BY <1>1 DEF Agrees, Docs
  <2>4. doc' = doc
    BY <1>4 DEF AnswerLoad
  <2>5. Carries(doc', answer)
    BY <2>2, <2>3, <2>4 DEF Carries
  <2> HIDE DEF answer
  <2>. QED
    BY <1>1, <1>2, <1>3, <2>1, <2>5, SlotAgrees
<1>5. CASE AcceptSave(s) \/ AcceptArchive(s) \/ Refuse(s)
  <2>1. PICK is \in {"done", "failed"} :
           /\ out' = [out EXCEPT ![s].is = is]
           /\ out[s].kind \in {"load", "saved"} => is = "failed"
    BY <1>5 DEF AcceptSave, AcceptArchive, Refuse, Answered, Sent
  <2> DEFINE answer == [out[s] EXCEPT !.is = is]
  <2>2. /\ answer.kind = out[s].kind /\ answer.id = out[s].id
        /\ answer.opened = out[s].opened /\ answer.is = is
        /\ answer \in Request
    BY <1>2 DEF Request
  <2>3. Carries(doc, answer)
    BY <1>2, <1>3, <2>1, <2>2 DEF Carries
  <2>4. Carries(doc', answer)
    BY <1>1, <2>2, <2>3, AgreementLasts
  <2>5. out' = [out EXCEPT ![s] = answer]
    BY <2>1
  <2> HIDE DEF answer
  <2>. QED
    BY <1>1, <1>2, <1>3, <2>4, <2>5, SlotAgrees
<1>. QED
  BY <1>4, <1>5 DEF Service

\* Sending: a save carries the group in the editor and what it was opened on.
LEMMA RequestsAgree ==
    ASSUME EditorInv, FreshInv, NEW s \in Slot,
           SaveGroup(s) \/ \E id \in Id : ArchiveGroup(s, id)
    PROVE  FreshInv'
<1>1. doc \in Docs /\ doc' = doc /\ UNCHANGED <<groups, rev, editing, opened>>
  BY DEF EditorInv, TypeOK, Docs, SaveGroup, ArchiveGroup, ServiceAndList, list, editor
<1>2. RequestsTyped /\ \A r \in Slot : out[r] # None => Carries(doc, out[r])
  BY DEF EditorInv, TypeOK, FreshInv
<1>3. \A r \in Slot : out'[r] # None => Carries(doc, out'[r])
  <2>1. CASE SaveGroup(s)
    <3> DEFINE q == Change("save", editing, [sats |-> picked, reference |-> reference])
    <3>1. q.kind = "save" /\ q.id = editing /\ q.opened = opened
      BY DEF Change
    <3>2. Carries(doc, q)
      BY <3>1 DEF Carries, FreshInv
    <3>3. out' = [out EXCEPT ![s] = q]
      BY <2>1 DEF SaveGroup
    <3> HIDE DEF q
    <3>. QED
      BY <1>1, <1>2, <3>2, <3>3, SlotAgrees
  <2>2. ASSUME NEW id \in Id, ArchiveGroup(s, id)
        PROVE  \A r \in Slot : out'[r] # None => Carries(doc, out'[r])
    <3> DEFINE q == Change("archive", id, None)
    <3>1. q.kind = "archive"
      BY DEF Change
    <3>2. Carries(doc, q)
      BY <3>1 DEF Carries
    <3>3. out' = [out EXCEPT ![s] = q]
      BY <2>2 DEF ArchiveGroup
    <3> HIDE DEF q
    <3>. QED
      BY <1>1, <1>2, <3>2, <3>3, SlotAgrees
  <2>. QED
    BY <2>1, <2>2
<1>. QED
  BY <1>1, <1>3 DEF FreshInv

\* Answers that the page handles: a list comes with its revision.
LEMMA ListsAgree ==
    ASSUME EditorInv, FreshInv, NEW s \in Slot, Browser(s)
    PROVE  FreshInv'
<1>1. doc \in Docs /\ doc' = doc
  BY DEF EditorInv, TypeOK, Docs, Browser, Saved, SaveRefused, ArchiveDone,
         ArchiveRefused, Loaded, ServiceAndList
<1>2. RequestsTyped /\ \A r \in Slot : out[r] # None => Carries(doc, out[r])
  BY DEF EditorInv, TypeOK, FreshInv
<1>3. \A r \in Slot : out'[r] # None => Carries(doc, out'[r])
  <2>1. CASE out' = [out EXCEPT ![s] = None]
    BY <1>1, <1>2, <2>1, SlotAgrees
  <2>2. ASSUME NEW kind \in {"load", "saved"}, out' = [out EXCEPT ![s] = Load(kind)]
        PROVE  \A r \in Slot : out'[r] # None => Carries(doc, out'[r])
    <3>1. Load(kind).kind = kind /\ Load(kind).is = "sent"
      BY DEF Load
    <3>2. Carries(doc, Load(kind))
      BY <3>1 DEF Carries
    <3>. QED
      BY <1>1, <1>2, <2>2, <3>2, SlotAgrees
  <2>. QED
    BY <2>1, <2>2 DEF Browser, Saved, SaveRefused, ArchiveDone, ArchiveRefused, Loaded
<1>4. editing' # None => WasSeen(doc, editing', opened')
  <2>1. ResetEditor \/ UNCHANGED <<editing, opened>>
    BY DEF Browser, Saved, SaveRefused, ArchiveDone, ArchiveRefused, Loaded, editor
  <2>. QED
    BY <2>1 DEF ResetEditor, FreshInv
<1>5. Agrees(doc, groups', rev')
  <2>1. CASE UNCHANGED list
    BY <2>1 DEF list, FreshInv
  <2>2. CASE ~UNCHANGED list
    <3>1. /\ \E kind \in {"load", "saved"} : Back(s, kind, "done")
          /\ rev' = out[s].rev /\ groups' = out[s].list
      BY <2>2 DEF Browser, Saved, SaveRefused, ArchiveDone, ArchiveRefused, Loaded,
                  ServiceAndList, RevOf
    <3>. QED
      BY <1>2, <3>1 DEF Back, Carries
  <2>. QED
    BY <2>1, <2>2
<1>. QED
  BY <1>1, <1>3, <1>4, <1>5 DEF FreshInv

\* Clicks in the editor: a group is opened as the list of the page has it.
LEMMA EditsAgree ==
    ASSUME EditorInv, FreshInv,
           \/ \E n \in Sat : AddPick(n) \/ RemovePick(n) \/ MakeReference(n)
           \/ \E id \in Id : EditGroup(id)
           \/ Cancel
           \/ TypeName
    PROVE  FreshInv'
<1>1. UNCHANGED <<doc, groups, rev, out>>
  BY DEF AddPick, RemovePick, MakeReference, EditGroup, Cancel, TypeName, EditorOnly,
         list
<1>2. editing' # None => WasSeen(doc, editing', opened')
  <2>1. ASSUME NEW id \in Id, EditGroup(id) PROVE WasSeen(doc, editing', opened')
    <3>1. groups[id] # None
      BY <2>1 DEF EditGroup, Listed
    <3>2. editing' = id /\ opened' = [group |-> groups[id], rev |-> rev]
      BY <2>1 DEF EditGroup
    <3>. QED
      BY <3>1, <3>2 DEF FreshInv, Agrees, WasSeen
  <2>2. CASE ~\E id \in Id : EditGroup(id)
    <3>1. ResetEditor \/ UNCHANGED <<editing, opened>>
      BY <2>2 DEF AddPick, RemovePick, MakeReference, Cancel, TypeName
    <3>. QED
      BY <3>1 DEF ResetEditor, FreshInv
  <2>. QED
    BY <2>1, <2>2
<1>. QED
  BY <1>1, <1>2 DEF FreshInv

\* The page, while the document moves on.
LEMMA PageAgrees ==
    ASSUME EditorInv, FreshInv, [Next]_vars, PageUntouched
    PROVE  /\ Agrees(doc', groups', rev')
           /\ editing' # None => WasSeen(doc', editing', opened')
<1>1. UNCHANGED <<groups, rev, editing, opened>>
  BY DEF PageUntouched, list, editor
<1>2. rev \in Nat /\ groups \in Groups /\ editing \in Id \cup {None} /\ opened \in Opened
  BY DEF EditorInv, TypeOK
<1>. QED
  BY <1>1, <1>2, DocMoves, AgreementLasts DEF FreshInv

\* Every step keeps what carries the current revision in agreement.
LEMMA StepFreshInv == EditorInv /\ FreshInv /\ [Next]_vars => FreshInv'
<1> SUFFICES ASSUME EditorInv, FreshInv, [Next]_vars PROVE FreshInv'
  OBVIOUS
<1>1. CASE User
  <2>1. CASE \E s \in Slot : SaveGroup(s) \/ \E id \in Id : ArchiveGroup(s, id)
    BY <2>1, RequestsAgree
  <2>2. CASE ~\E s \in Slot : SaveGroup(s) \/ \E id \in Id : ArchiveGroup(s, id)
    BY <1>1, <2>2, EditsAgree DEF User
  <2>. QED
    BY <2>1, <2>2
<1>2. CASE Others
  <2>1. PageUntouched /\ out' = out
    BY <1>2 DEF Others
  <2>2. \A r \in Slot : out[r] # None => out[r] \in Request
    BY DEF EditorInv, TypeOK, RequestsTyped
  <2>3. \A r \in Slot : out'[r] # None => Carries(doc', out'[r])
    BY <2>1, <2>2, DocMoves, AgreementLasts DEF FreshInv
  <2>. QED
    BY <2>1, <2>3, PageAgrees DEF FreshInv
<1>3. ASSUME NEW s \in Slot, Service(s) PROVE FreshInv'
  <2>1. PageUntouched
    BY <1>3 DEF Service, AnswerLoad, AcceptSave, AcceptArchive, Refuse
  <2>. QED
    BY <1>3, <2>1, PageAgrees, AnswersAgree DEF FreshInv
<1>4. ASSUME NEW s \in Slot, Browser(s) PROVE FreshInv'
  BY <1>4, ListsAgree
<1>5. CASE UNCHANGED vars
  BY <1>5 DEF vars, list, editor, FreshInv
<1>. QED
  BY <1>1, <1>2, <1>3, <1>4, <1>5 DEF Next

LEMMA InitFreshInv == Init => FreshInv
<1> SUFFICES ASSUME Init PROVE FreshInv
  OBVIOUS
<1>1. Agrees(doc, groups, rev)
  BY DEF Init, Agrees, NoGroups
<1>2. \A s \in Slot : out[s] # None => Carries(doc, out[s])
  BY DEF Init, Carries, Load
<1>. QED
  BY <1>1, <1>2 DEF Init, FreshInv

\* A save that changed the document presented the current revision.
LEMMA AcceptedSaves ==
    ASSUME EditorInv, [Next]_vars, NEW s \in Slot, Accepts(s)
    PROVE  RevIsCurrent(s)
<1>1. Sent(s, "save") /\ out[s].id # None /\ doc' # doc /\ ~Sent(s, "save")'
  BY DEF Accepts
<1>2. out' # out
  BY <1>1 DEF Sent
<1>3. ~User /\ ~Others /\ ~UNCHANGED vars
  BY <1>1, <1>2 DEF User, AddPick, RemovePick, MakeReference, EditGroup, Cancel,
                    TypeName, SaveGroup, ArchiveGroup, EditorOnly, ServiceAndList,
                    Others, vars
<1>4. PICK r \in Slot : Service(r) \/ Browser(r)
  BY <1>3 DEF Next
<1>5. AcceptSave(r) \/ AcceptArchive(r)
  BY <1>1, <1>4 DEF Service, AnswerLoad, Refuse, Browser, Saved, SaveRefused,
                    ArchiveDone, ArchiveRefused, Loaded, ServiceAndList
<1>6. r = s
  <2>1. CASE r # s
    <3>1. out'[s] = out[s]
      BY <1>5, <2>1 DEF AcceptSave, AcceptArchive, Answered, EditorInv, TypeOK,
                        RequestsTyped
    <3>. QED
      BY <1>1, <3>1 DEF Sent
  <2>. QED
    BY <2>1
<1>. QED
  BY <1>1, <1>5, <1>6 DEF AcceptSave, AcceptArchive, Sent

\* A save from an editor that was opened on the list whose revision it presents
\* replaces the group its user saw, whatever others do and in whatever order
\* lists arrive (picker.js: loadGroups, saveGroup; groups.py: _check_rev).
THEOREM FreshEditsStaySafe == Spec => FreshEditsAreSafe
<1> DEFINE Safe == \A s \in Slot :
                     Accepts(s) /\ out[s].opened.rev = out[s].rev =>
                       doc.groups[out[s].id] = out[s].opened.group
<1>1. EditorInv /\ FreshInv /\ [Next]_vars => Safe
  <2> SUFFICES ASSUME EditorInv, FreshInv, [Next]_vars, NEW s \in Slot, Accepts(s),
                      out[s].opened.rev = out[s].rev
               PROVE  doc.groups[out[s].id] = out[s].opened.group
    OBVIOUS
  <2>1. out[s].rev = doc.rev
    BY AcceptedSaves DEF RevIsCurrent
  <2>2. WasSeen(doc, out[s].id, out[s].opened)
    BY DEF Accepts, Sent, FreshInv, Carries
  <2>. QED
    BY <2>1, <2>2 DEF WasSeen
<1>2. EditorInv /\ FreshInv /\ [Next]_vars => [Safe]_vars
  BY <1>1
<1>. QED
  BY <1>2, InitEditorInv, StepEditorInv, InitFreshInv, StepFreshInv, PTL
     DEF Spec, FreshEditsAreSafe
=============================================================================
