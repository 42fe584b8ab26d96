-------------------------- MODULE GroupStoreProofs --------------------------
(***************************************************************************)
(* Proofs about GroupStore, for every value of its constants: any number   *)
(* of clients, names, groups, revisions and restarts.  Unless a theorem    *)
(* assumes otherwise the volume may refuse any save and damage its file.   *)
(***************************************************************************)
EXTENDS GroupStore, TLAPS

\* The type of an expression on groups.
Groups == [Id -> Group \cup {None}]

USE GroupStoreAssumption DEF clients

\* The empty document is a document (_empty).
LEMMA EmptyTyped == Empty \in Doc
  BY DEF Empty, Doc

\* What a read returns is a document.
LEMMA CurrentTyped == TypeOK => Current \in Doc
  BY EmptyTyped DEF TypeOK, Current, Document

\* What a document consists of.
LEMMA DocParts ==
  \A doc \in Doc : doc.rev \in Nat /\ doc.groups \in Groups
  BY DEF Doc, Groups

\* A next revision with well-formed groups is a document.
LEMMA GroupsMakeDocs ==
  ASSUME TypeOK, NEW groups \in Groups
  PROVE  /\ NextRev(groups) \in Doc
         /\ NextRev(groups).rev = Current.rev + 1
         /\ NextRev(groups).groups = groups
  BY CurrentTyped, DocParts DEF NextRev, Doc, Groups

\* A list of groups with one of them added or changed.
With(id, group) == [Current.groups EXCEPT ![id] = group]

LEMMA WithTyped ==
  ASSUME TypeOK, NEW id \in Id, NEW group \in Group
  PROVE  /\ With(id, group) \in Groups
         /\ With(id, group)[id] = group
         /\ \A other \in Id \ {id} : With(id, group)[other] = Current.groups[other]
  BY CurrentTyped, DocParts DEF With, Groups

\* Whatever a handler saves differs in one group, which is archived or has a name
\* no other live group has; and it presents a revision only where the client has
\* loaded one (create, update, archive, restore).
LEMMA HandlersEdit ==
  ASSUME TypeOK, NEW c \in Client, Request(c), ~Load(c)
  PROVE  /\ created' \in 0 .. MaxGroups
         /\ \E id \in Id, group \in Group, presents \in BOOLEAN :
               /\ Save(c, presents, With(id, group))
               /\ presents => seen[c] # None
               /\ group.archived \/ ~NameTaken(group.name, id)
<1> DEFINE Goal == /\ created' \in 0 .. MaxGroups
                   /\ \E id \in Id, group \in Group, presents \in BOOLEAN :
                         /\ Save(c, presents, With(id, group))
                         /\ presents => seen[c] # None
                         /\ group.archived \/ ~NameTaken(group.name, id)
<1>1. ASSUME NEW name \in Name, Create(c, name) PROVE Goal
  <2> DEFINE new == [name |-> name, archived |-> FALSE]
  <2>1. created + 1 \in Id /\ created' \in 0 .. MaxGroups
    BY <1>1 DEF Create, TypeOK, Id
  <2>2. new \in Group /\ new.name = name
    BY DEF Group
  <2>3. Save(c, FALSE, With(created + 1, new)) /\ ~NameTaken(name, created + 1)
    BY <1>1 DEF Create, With, NameTaken
  <2> HIDE DEF new
  <2> QED
    BY <2>1, <2>2, <2>3
<1>2. ASSUME NEW presents \in BOOLEAN, NEW id \in Known(c),
             \/ \E name \in Name : Update(c, presents, id, name)
             \/ Archive(c, presents, id)
             \/ Restore(c, presents, id)
      PROVE  Goal
  <2>1. id \in Id /\ seen[c] # None
    BY DEF Known
  <2>2. Current.groups[id] \in Group /\ created' \in 0 .. MaxGroups
    <3>1. Exists(id) /\ created' = created
      BY <1>2 DEF Update, Archive, Restore
    <3> QED
      BY <2>1, <3>1, CurrentTyped, DocParts DEF Exists, Groups, TypeOK
  <2>3. ASSUME NEW name \in Name, Update(c, presents, id, name) PROVE Goal
    <3> DEFINE group == [Current.groups[id] EXCEPT !.name = name]
    <3>1. group \in Group /\ group.name = name
      BY <2>2 DEF Group
    <3>2. Save(c, presents, With(id, group)) /\ ~NameTaken(name, id)
      BY <2>3 DEF Update, With
    <3> HIDE DEF group
    <3> QED
      BY <2>1, <2>2, <3>1, <3>2
  <2>4. ASSUME Archive(c, presents, id) PROVE Goal
    <3> DEFINE group == [Current.groups[id] EXCEPT !.archived = TRUE]
    <3>1. group \in Group /\ group.archived
      BY <2>2 DEF Group
    <3>2. Save(c, presents, With(id, group))
      BY <2>4 DEF Archive, Archived, With
    <3> HIDE DEF group
    <3> QED
      BY <2>1, <2>2, <3>1, <3>2
  <2>5. ASSUME Restore(c, presents, id) PROVE Goal
    <3> DEFINE group == [Current.groups[id] EXCEPT !.archived = FALSE]
    <3>1. group \in Group /\ group.name = Current.groups[id].name
      BY <2>2 DEF Group
    <3>2. Save(c, presents, With(id, group)) /\ ~NameTaken(Current.groups[id].name, id)
      BY <2>5 DEF Restore, With
    <3> HIDE DEF group
    <3> QED
      BY <2>1, <2>2, <3>1, <3>2
  <2> QED
    BY <1>2, <2>3, <2>4, <2>5
<1> QED
  BY <1>1, <1>2 DEF Request

\* So does the seeding, of a document without groups (seed_if_empty).
LEMMA SeedEdits ==
  ASSUME TypeOK, SeedEmpty
  PROVE  /\ created' \in 0 .. MaxGroups
         /\ \E id \in Id, group \in Group :
               /\ saving' = [NoSave EXCEPT !.doc = NextRev(With(id, group))]
               /\ ~NameTaken(group.name, id)
<1> DEFINE new == [name |-> Seed, archived |-> FALSE]
<1>1. created + 1 \in Id /\ created' \in 0 .. MaxGroups
  BY DEF SeedEmpty, TypeOK, Id
<1>2. new \in Group /\ ~NameTaken(new.name, created + 1)
  BY DEF Group, SeedEmpty, NothingStored, NameTaken, Exists, Live
<1>3. saving' = [NoSave EXCEPT !.doc = NextRev(With(created + 1, new))]
  BY DEF SeedEmpty, With
<1> HIDE DEF new
<1> QED
  BY <1>1, <1>2, <1>3

\* A store that has read nothing is well typed.
LEMMA InitTypeOK == Init => TypeOK
  BY DEF Init, TypeOK, Document, NoSave

\* A handler that saves well-typed groups keeps the types.
LEMMA SaveTyped ==
  ASSUME TypeOK, NEW c \in Client, NEW presents \in BOOLEAN, NEW groups \in Groups,
         Save(c, presents, groups), created' \in 0 .. MaxGroups
  PROVE  TypeOK'
<1>1. cache' \in Document
  BY DEF Save, ReadCaches, TypeOK, Document
<1>2. saving' \in [doc : Document, by : Client \cup {None}, presents : BOOLEAN,
                   then : {"serving"}] /\ saving'.doc \in Doc /\ saving'.by \in Client
  BY GroupsMakeDocs DEF Save, Document
<1> QED
  BY <1>1, <1>2 DEF Save, TypeOK

\* Every step of the store keeps the types.
LEMMA StepTypeOK == TypeOK /\ [Next]_vars => TypeOK'
<1> SUFFICES ASSUME TypeOK, [Next]_vars PROVE TypeOK'
  OBVIOUS
<1>c. Current \in Doc /\ Current.groups \in Groups
  BY CurrentTyped, DocParts
<1>r. ASSUME ReadCaches PROVE cache' \in Document
  BY <1>r DEF ReadCaches, TypeOK, Document
<1>1. CASE Read
  BY <1>1, <1>r DEF Read, TypeOK
<1>2. CASE Boot
  <2>1. CASE ProbeTaken
    BY <2>1 DEF ProbeTaken, TypeOK, store
  <2>2. CASE ProbeRefused
    BY <2>2, <1>c, <1>r DEF ProbeRefused, BestView, TypeOK, Document
  <2>3. CASE SeedEmpty
    <3>1. PICK id \in Id, group \in Group :
             saving' = [NoSave EXCEPT !.doc = NextRev(With(id, group))]
      BY <2>3, SeedEdits
    <3>2. NextRev(With(id, group)) \in Doc
      BY WithTyped, GroupsMakeDocs
    <3>3. created' \in 0 .. MaxGroups
      BY <2>3, SeedEdits
    <3> QED
      BY <2>3, <3>1, <3>2, <3>3, <1>r DEF SeedEmpty, TypeOK, NoSave, Document
  <2>4. CASE SeedNothing
    BY <2>4, <1>r DEF SeedNothing, TypeOK
  <2> QED
    BY <1>2, <2>1, <2>2, <2>3, <2>4 DEF Boot
<1>3. CASE Write
  <2>1. /\ stage = "saving" /\ saving.doc \in Doc /\ saving.then = "serving"
        /\ Saved
    BY <1>3 DEF Write, Persist, FallBack, KeepInMemory, TypeOK
  <2>2. /\ stage' = "serving" /\ saving' = NoSave
        /\ UNCHANGED <<mode, seen, created, boots>>
    BY <2>1 DEF Saved
  <2>3. file' \in Doc \cup {Absent, Torn} /\ memory' \in Document /\ cache' \in Document
    BY <1>3, <2>1 DEF Write, Persist, FallBack, KeepInMemory, Damage, TypeOK, Document
  <2> QED
    BY <2>1, <2>2, <2>3 DEF Saved, NoSave, TypeOK, Document
<1>4. CASE Killed
  BY <1>4 DEF Killed, Damage, NoSave, TypeOK, Document
<1>5. ASSUME NEW c \in Client, Request(c) PROVE TypeOK'
  <2>1. CASE Load(c)
    BY <2>1, <1>c, <1>r DEF Load, TypeOK, Document
  <2>2. CASE ~Load(c)
    <3>1. PICK id \in Id, group \in Group, presents \in BOOLEAN :
             Save(c, presents, With(id, group))
      BY <1>5, <2>2, HandlersEdit
    <3>2. With(id, group) \in Groups /\ created' \in 0 .. MaxGroups
      BY <1>5, <2>2, HandlersEdit, WithTyped
    <3> QED
      BY <3>1, <3>2, SaveTyped
  <2> QED
    BY <2>1, <2>2
<1>6. CASE UNCHANGED vars
  BY <1>6 DEF vars, store, TypeOK
<1> QED
  BY <1>1, <1>2, <1>3, <1>4, <1>5, <1>6 DEF Next

\* Every variable has its type, always (groups.py: GroupStore).
THEOREM TypeCorrect == Spec => []TypeOK
  BY InitTypeOK, StepTypeOK, PTL DEF Spec

-----------------------------------------------------------------------------
(***************************************************************************)
(* The save in progress.                                                   *)
(***************************************************************************)
\* Who edits one group keeps all of them.
LEMMA EditsKeep ==
  ASSUME NEW old \in Doc, NEW new \in Doc, EditsOne(old, new)
  PROVE  Keeps(old, new)
<1>1. PICK id \in Id, group \in Group : new.groups = [old.groups EXCEPT ![id] = group]
  BY DEF EditsOne
<1> QED
  BY <1>1, DocParts DEF Keeps, Groups

\* Every step keeps the relation between the document being saved and the
\* current one (create, update, archive, restore).
LEMMA StepSaveFollows ==
  TypeOK /\ SaveFollows /\ [Next]_vars => SaveFollows'
<1> SUFFICES ASSUME TypeOK, SaveFollows, [Next]_vars PROVE SaveFollows'
  OBVIOUS
<1>1. ASSUME UNCHANGED <<file, memory>>, NEW id \in Id, NEW group \in Group,
             saving'.doc = NextRev(With(id, group)), Readable
      PROVE  SaveFollows'
  <2>1. Readable' /\ Current' = Current
    BY <1>1 DEF Readable, Current
  <2>2. /\ NextRev(With(id, group)).rev = Current.rev + 1
        /\ NextRev(With(id, group)).groups = With(id, group)
    BY WithTyped, GroupsMakeDocs
  <2> QED
    BY <1>1, <2>1, <2>2 DEF SaveFollows, EditsOne, With
<1>2. CASE SeedEmpty
  <2>1. PICK id \in Id, group \in Group :
           saving' = [NoSave EXCEPT !.doc = NextRev(With(id, group))]
    BY <1>2, SeedEdits
  <2>2. saving'.doc = NextRev(With(id, group))
    BY <2>1 DEF NoSave
  <2> QED
    BY <1>1, <1>2, <2>2 DEF SeedEmpty
<1>3. ASSUME NEW c \in Client, Request(c), ~Load(c) PROVE SaveFollows'
  <2>1. PICK id \in Id, group \in Group, presents \in BOOLEAN :
           Save(c, presents, With(id, group))
    BY <1>3, HandlersEdit
  <2> QED
    BY <1>1, <2>1 DEF Save
<1>4. CASE Read \/ ProbeTaken \/ ProbeRefused \/ SeedNothing \/ Killed
           \/ \E c \in Client : Load(c)
  BY <1>4 DEF Read, ProbeTaken, ProbeRefused, SeedNothing, Killed, Load, SaveFollows
<1>5. CASE Write
  BY <1>5 DEF Write, Persist, FallBack, KeepInMemory, Saved, TypeOK, SaveFollows
<1>6. CASE UNCHANGED vars
  BY <1>6 DEF vars, store, SaveFollows, Readable, Current
<1> QED
  BY <1>2, <1>3, <1>4, <1>5, <1>6 DEF Next, Boot

\* A save in progress follows the document it replaces and keeps its groups
\* (groups.py: the handlers, under the lock).
THEOREM SavesFollow == Spec => []SaveFollows
<1>1. Init => SaveFollows
  BY DEF Init, SaveFollows
<1> QED
  BY <1>1, TypeCorrect, StepSaveFollows, PTL DEF Spec

\* A file that is not a group document is never written to (groups.py: _read).
THEOREM EvidenceStays == Spec => EvidenceIsKept
<1>1. TypeOK /\ SaveFollows /\ [Next]_vars => [file = Torn => file' = Torn]_vars
  <2> SUFFICES ASSUME TypeOK, SaveFollows, Next, file = Torn PROVE file' = Torn
    OBVIOUS
  <2>1. CASE Write
    <3>1. memory # None
      BY <2>1 DEF Write, Persist, FallBack, KeepInMemory, SaveFollows, Readable
    <3> QED
      BY <2>1, <3>1 DEF Write, Persist, FallBack, KeepInMemory
  <2>2. CASE Killed
    <3>1. ~(stage = "saving" /\ memory = None)
      BY DEF SaveFollows, Readable
    <3> QED
      BY <2>2, <3>1 DEF Killed
  <2>3. CASE Read \/ Boot
    BY <2>3 DEF Read, Boot, ProbeTaken, ProbeRefused, SeedEmpty, SeedNothing, store
  <2>4. ASSUME NEW c \in Client, Request(c) PROVE file' = Torn
    BY <2>4, HandlersEdit DEF Load, Save
  <2> QED
    BY <2>1, <2>2, <2>3, <2>4 DEF Next
<1> QED
  BY <1>1, TypeCorrect, SavesFollow, PTL DEF Spec, EvidenceIsKept

-----------------------------------------------------------------------------
(***************************************************************************)
(* Groups are never lost.                                                  *)
(***************************************************************************)
\* What each kind of step does to the document that a read returns.
LEMMA CurrentMoves ==
  ASSUME TypeOK, SaveFollows, Next
  PROVE  \/ Current' = Current /\ Readable' = Readable
         \/ Current' = Current /\ ProbeRefused
         \/ stage = "saving" /\ Current' = saving.doc /\ boots' = boots
         \/ Killed
<1>1. CASE Read \/ ProbeTaken \/ SeedEmpty \/ SeedNothing
  BY <1>1 DEF Read, ProbeTaken, SeedEmpty, SeedNothing, store, Current, Readable
<1>2. CASE ProbeRefused
  BY <1>2, CurrentTyped DEF ProbeRefused, BestView, Current
<1>3. CASE Write
  <2>1. /\ saving.doc \in Doc
        /\ stage = "saving" /\ boots' = boots
        /\ memory' = saving.doc \/ (memory' = None /\ file' = saving.doc)
    BY <1>3 DEF Write, Persist, FallBack, KeepInMemory, Saved, TypeOK
  <2> QED
    BY <2>1 DEF Current
<1>4. ASSUME NEW c \in Client, Request(c) PROVE Current' = Current /\ Readable' = Readable
  <2>1. file' = file /\ memory' = memory
    BY <1>4, HandlersEdit DEF Load, Save
  <2> QED
    BY <2>1 DEF Current, Readable
<1> QED
  BY <1>1, <1>2, <1>3, <1>4 DEF Next, Boot

\* A document keeps its own groups.
LEMMA KeepsItself == \A doc : Keeps(doc, doc)
  BY DEF Keeps

\* Whatever the volume refuses or damages, a running process loses no group
\* (groups.py: archive, use_memory_fallback, _current_locked).
THEOREM PodsKeepGroups == Spec => PodKeepsGroups
<1>1. TypeOK /\ SaveFollows /\ [Next]_vars
        => [boots' = boots => Keeps(Current, Current')]_vars
  <2> SUFFICES ASSUME TypeOK, SaveFollows, Next, boots' = boots
               PROVE  Keeps(Current, Current')
    OBVIOUS
  <2>1. ~Killed
    BY DEF Killed, TypeOK
  <2>2. stage = "saving" => Keeps(Current, saving.doc)
    BY CurrentTyped, EditsKeep DEF SaveFollows, TypeOK
  <2> QED
    BY <2>1, <2>2, CurrentMoves, KeepsItself
<1> QED
  BY <1>1, TypeCorrect, SavesFollow, PTL DEF Spec, PodKeepsGroups

-----------------------------------------------------------------------------
(***************************************************************************)
(* Names.                                                                  *)
(***************************************************************************)
LEMMA CurrentNames == TypeOK /\ NamesInv => DistinctNames(Current)
  BY DEF TypeOK, NamesInv, Current, Empty, DistinctNames, Live

\* A change of one group keeps the names distinct, if no other live group has
\* the name it ends up with, or if it ends up archived.
LEMMA ChangeOfOne ==
  ASSUME TypeOK, NamesInv, NEW id \in Id, NEW groups \in Groups,
         \A other \in Id \ {id} : groups[other] = Current.groups[other],
         groups[id] \in Group,
         groups[id].archived \/ ~NameTaken(groups[id].name, id)
  PROVE  DistinctNames(NextRev(groups))
<1>1. NextRev(groups).groups = groups
  BY GroupsMakeDocs
<1>2. SUFFICES ASSUME NEW i \in Id, NEW j \in Id, Live(groups, i), Live(groups, j),
                      groups[i].name = groups[j].name
               PROVE  i = j
  BY <1>1 DEF DistinctNames
<1>3. CASE i # id /\ j # id
  BY <1>2, <1>3, CurrentNames DEF DistinctNames, Live
<1>4. CASE i = id \/ j = id
  BY <1>2, <1>4 DEF NameTaken, Live
<1> QED
  BY <1>3, <1>4

\* So whatever is saved has distinct names.
LEMMA EditNames ==
  ASSUME TypeOK, NamesInv, NEW id \in Id, NEW group \in Group,
         group.archived \/ ~NameTaken(group.name, id)
  PROVE  DistinctNames(NextRev(With(id, group)))
<1> DEFINE groups == With(id, group)
<1>1. /\ groups \in Groups /\ groups[id] = group
      /\ \A other \in Id \ {id} : groups[other] = Current.groups[other]
  BY WithTyped
<1> HIDE DEF groups
<1>2. DistinctNames(NextRev(groups))
  BY <1>1, ChangeOfOne
<1> QED
  BY <1>2 DEF groups

\* Every step keeps the live names distinct (_reject_duplicate_name).
LEMMA StepNames == TypeOK /\ SaveFollows /\ NamesInv /\ [Next]_vars => NamesInv'
<1> SUFFICES ASSUME TypeOK, SaveFollows, NamesInv, [Next]_vars PROVE NamesInv'
  OBVIOUS
<1>1. CASE Read \/ ProbeTaken \/ SeedNothing \/ UNCHANGED vars
  BY <1>1 DEF Read, ProbeTaken, SeedNothing, store, vars, NamesInv
<1>2. CASE ProbeRefused
  BY <1>2, CurrentNames DEF ProbeRefused, BestView, NamesInv
<1>3. CASE SeedEmpty
  <2>1. DistinctNames(saving'.doc)
    BY <1>3, SeedEdits, EditNames DEF NoSave
  <2> QED
    BY <1>3, <2>1 DEF SeedEmpty, NamesInv
<1>4. CASE Write
  BY <1>4 DEF Write, Persist, FallBack, KeepInMemory, Damage, Saved, TypeOK, NamesInv
<1>5. CASE Killed
  BY <1>5 DEF Killed, Damage, NamesInv
<1>6. ASSUME NEW c \in Client, Load(c) PROVE NamesInv'
  BY <1>6 DEF Load, NamesInv
<1>7. ASSUME NEW c \in Client, Request(c), ~Load(c) PROVE NamesInv'
  <2>1. PICK id \in Id, group \in Group, presents \in BOOLEAN :
           /\ Save(c, presents, With(id, group))
           /\ group.archived \/ ~NameTaken(group.name, id)
    BY <1>7, HandlersEdit
  <2>2. DistinctNames(NextRev(With(id, group)))
    BY <2>1, EditNames
  <2> QED
    BY <2>1, <2>2 DEF Save, NamesInv
<1> QED
  BY <1>1, <1>2, <1>3, <1>4, <1>5, <1>6, <1>7 DEF Next, Boot

\* No two live groups ever share a name (groups.py: _reject_duplicate_name).
THEOREM NamesStayDistinct == Spec => []LiveNamesUnique
<1>1. Init => NamesInv
  BY DEF Init, NamesInv
<1>2. TypeOK /\ NamesInv => LiveNamesUnique
  BY CurrentNames DEF LiveNamesUnique
<1> QED
  BY <1>1, <1>2, TypeCorrect, SavesFollow, StepNames, PTL DEF Spec

-----------------------------------------------------------------------------
(***************************************************************************)
(* Revisions.                                                              *)
(***************************************************************************)
\* A volume is the same for ever.
LEMMA VolumeStays == [Next]_vars => faulty' = faulty
<1>1. ASSUME Boot PROVE faulty' = faulty
  BY <1>1 DEF Boot, ProbeTaken, ProbeRefused, SeedEmpty, SeedNothing, Save
<1>2. ASSUME Write PROVE faulty' = faulty
  BY <1>2 DEF Write, Persist, FallBack, KeepInMemory, Saved
<1>3. ASSUME Killed PROVE faulty' = faulty
  BY <1>3 DEF Killed
<1>4. ASSUME NEW c, Request(c) PROVE faulty' = faulty
  <2>1. ASSUME NEW b, NEW g, Save(c, b, g) PROVE faulty' = faulty
    BY <2>1 DEF Save
  <2>2. ASSUME NEW name, Create(c, name) PROVE faulty' = faulty
    BY <2>1, <2>2 DEF Create
  <2>3. ASSUME NEW b, NEW id, NEW name, Update(c, b, id, name) PROVE faulty' = faulty
    BY <2>1, <2>3 DEF Update
  <2>4. ASSUME NEW b, NEW id, Archive(c, b, id) \/ Restore(c, b, id) PROVE faulty' = faulty
    BY <2>1, <2>4 DEF Archive, Restore
  <2>5. CASE Load(c)
    BY <2>5 DEF Load
  <2> QED BY <1>4, <2>2, <2>3, <2>4, <2>5 DEF Request
<1>5. CASE Read \/ UNCHANGED vars
  BY <1>5 DEF Read, vars
<1> QED
  BY <1>1, <1>2, <1>3, <1>4, <1>5 DEF Next

\* A document that was saved is newer than all that anybody protected has seen.
LEMMA SavedIsNewer ==
  ASSUME TypeOK, SaveFollows, RevisionsGrow, stage = "saving", Current' = saving.doc,
         seen' = seen, \A c \in Client : Protected(c)' => Protected(c)
  PROVE  RevisionsGrow'
<1>1. Readable /\ saving.doc \in Doc /\ saving.doc.rev = Current.rev + 1
  BY DEF SaveFollows, TypeOK
<1>2. Current.rev \in Nat /\ saving.doc.rev \in Nat
  BY <1>1, CurrentTyped, DocParts
<1>3. \A c \in Client : seen[c] # None => seen[c].rev \in Nat
  BY DocParts DEF TypeOK, Document
<1>4. \A c \in Client : Protected(c) /\ seen[c] # None => seen[c].rev < saving.doc.rev
  BY <1>1, <1>2, <1>3 DEF RevisionsGrow
<1>5. \A c \in Client : Protected(c)' /\ seen'[c] # None =>
          seen'[c].rev < Current'.rev /\ seen'[c].rev \in Nat
  BY <1>3, <1>4
<1> QED
  BY <1>2, <1>5 DEF RevisionsGrow

\* Every step keeps the revisions growing (_check_rev, _write).
LEMMA StepRevisions ==
  TypeOK /\ SaveFollows /\ RevisionsInv /\ [Next]_vars => RevisionsInv'
<1> SUFFICES ASSUME TypeOK, SaveFollows, RevisionsInv, [Next]_vars PROVE RevisionsInv'
  OBVIOUS
<1>c. Current \in Doc /\ Current.rev \in Nat
  BY CurrentTyped, DocParts
<1>f. faulty' = faulty
  BY VolumeStays
<1>p. loaded' = loaded => \A c : Protected(c)' = Protected(c)
  BY <1>f DEF Protected
<1>1. \* Where the document and what is known of it stay,
      ASSUME UNCHANGED <<file, memory, seen, loaded>>, NoSilentOverwrite',
             stage' = "probe" => loaded' = {}
      PROVE  RevisionsInv'
  <2>1. Current' = Current /\ Readable' = Readable
    BY <1>1 DEF Current, Readable
  <2> QED
    BY <1>1, <1>f, <1>p, <2>1 DEF RevisionsInv, RevisionsGrow
<1>2. CASE Read \/ ProbeTaken \/ SeedNothing \/ UNCHANGED vars
  <2>1. UNCHANGED <<file, memory, seen, loaded, saving>>
    BY <1>2 DEF Read, ProbeTaken, SeedNothing, store, vars
  <2>2. /\ stage' \in {"probe", "saving"} => stage' = stage
        /\ Current' = Current
    BY <1>2, <2>1 DEF Read, ProbeTaken, SeedNothing, vars, Current
  <2>3. NoSilentOverwrite'
    BY <1>p, <2>1, <2>2 DEF NoSilentOverwrite, RevisionsInv
  <2> QED
    BY <1>1, <2>1, <2>2, <2>3 DEF RevisionsInv
<1>3. CASE SeedEmpty
  <2>1. NoSilentOverwrite'
    BY <1>3 DEF SeedEmpty, NoSave, NoSilentOverwrite
  <2> QED
    BY <1>1, <1>3, <2>1 DEF SeedEmpty
<1>4. CASE ProbeRefused
  <2>1. faulty /\ loaded = {} /\ loaded' = {} /\ stage' = "seed"
    BY <1>4 DEF ProbeRefused, RevisionsInv
  <2>2. \A c : ~Protected(c)'
    BY <1>f, <2>1 DEF Protected
  <2> QED
    BY <1>f, <2>1, <2>2 DEF RevisionsInv, RevisionsGrow, NoSilentOverwrite
<1>5. CASE Write
  <2>1. /\ stage = "saving" /\ stage' = "serving" /\ seen' = seen /\ loaded' = loaded
        /\ saving.doc \in Doc
        /\ memory' = saving.doc \/ (memory' = None /\ file' = saving.doc)
        /\ ~faulty => memory' = None
    BY <1>5 DEF Write, Persist, FallBack, KeepInMemory, Saved, TypeOK, RevisionsInv
  <2>2. Current' = saving.doc
    BY <2>1 DEF Current
  <2>3. RevisionsGrow'
    BY <1>p, <2>1, <2>2, SavedIsNewer DEF RevisionsInv
  <2> QED
    BY <1>f, <2>1, <2>3 DEF RevisionsInv, NoSilentOverwrite
<1>6. CASE Killed
  <2>1. /\ stage' = "probe" /\ memory' = None /\ seen' = seen /\ loaded' = {}
        /\ \A c : Protected(c)' => ~faulty /\ Protected(c)
    BY <1>6, <1>f DEF Killed, Protected
  <2>2. RevisionsGrow'
    <3>1. CASE faulty
      BY <2>1, <3>1 DEF RevisionsGrow
    <3>2. CASE ~faulty /\ file' = file
      <4>1. Current' = Current /\ Readable' = Readable
        BY <2>1, <3>2 DEF RevisionsInv, Current, Readable
      <4> QED
        BY <2>1, <4>1 DEF RevisionsInv, RevisionsGrow
    <3>3. CASE stage = "saving" /\ file' = saving.doc
      <4>1. Current' = saving.doc
        BY <2>1, <3>3 DEF TypeOK, Current
      <4> QED
        BY <2>1, <3>3, <4>1, SavedIsNewer DEF RevisionsInv
    <3>4. CASE file' = Torn
      BY <2>1, <3>4 DEF RevisionsGrow, Readable
    <3> QED
      BY <1>6, <3>1, <3>2, <3>3, <3>4 DEF Killed, Damage
  <2> QED
    BY <2>1, <2>2 DEF RevisionsInv, NoSilentOverwrite
<1>7. ASSUME NEW c \in Client, Load(c) PROVE RevisionsInv'
  <2>1. /\ Current' = Current /\ Readable' = Readable
        /\ memory' = memory /\ stage = "serving" /\ stage' = "serving"
    BY <1>7 DEF Load, Current, Readable
  <2>2. \A x \in Client : seen'[x] = IF x = c THEN Current ELSE seen[x]
    BY <1>7 DEF Load, TypeOK
  <2>3. RevisionsGrow'
    <3> SUFFICES ASSUME Readable', NEW x \in Client, Protected(x)', seen'[x] # None
                 PROVE  /\ seen'[x].rev <= Current'.rev
                        /\ seen'[x].rev = Current'.rev => seen'[x] = Current'
      BY DEF RevisionsGrow
    <3>1. CASE x = c
      BY <1>c, <2>1, <2>2, <3>1
    <3>2. CASE x # c
      <4>1. Protected(x) /\ seen'[x] = seen[x]
        BY <1>7, <1>f, <2>2, <3>2 DEF Load, Protected
      <4> QED
        BY <2>1, <4>1 DEF RevisionsInv, RevisionsGrow
    <3> QED
      BY <3>1, <3>2
  <2> QED
    BY <1>f, <2>1, <2>3 DEF RevisionsInv, NoSilentOverwrite
<1>8. ASSUME NEW c \in Client, Request(c), ~Load(c) PROVE RevisionsInv'
  <2>1. PICK id \in Id, group \in Group, presents \in BOOLEAN :
           /\ Save(c, presents, With(id, group))
           /\ presents => seen[c] # None
    BY <1>8, HandlersEdit
  <2>2. /\ UNCHANGED <<file, memory, seen, loaded>> /\ Readable /\ stage' = "saving"
        /\ saving'.by = c /\ saving'.presents = presents
        /\ presents => seen[c] # None /\ seen[c].rev = Current.rev
    BY <2>1 DEF Save, RevIsCurrent
  <2>3. Current' = Current
    BY <2>2 DEF Current
  <2>4. NoSilentOverwrite'
    BY <1>p, <2>2, <2>3 DEF NoSilentOverwrite, RevisionsInv, RevisionsGrow
  <2> QED
    BY <1>1, <2>2, <2>4
<1> QED
  BY <1>2, <1>3, <1>4, <1>5, <1>6, <1>7, <1>8 DEF Next, Boot

\* For those who are protected revisions only grow.
LEMMA AlwaysRevisions == Spec => []RevisionsInv
<1>1. Init => RevisionsInv
  BY DEF Init, RevisionsInv, RevisionsGrow, NoSilentOverwrite, NoSave
<1> QED
  BY <1>1, TypeCorrect, SavesFollow, StepRevisions, PTL DEF Spec

\* A save that presents a revision replaces the document its client loaded, if the
\* volume takes every write or the client loaded it from this process (groups.py:
\* _check_rev).
THEOREM NoSaveIsSilentlyLost == Spec => []NoSilentOverwrite
<1>1. RevisionsInv => NoSilentOverwrite
  BY DEF RevisionsInv
<1> QED
  BY <1>1, AlwaysRevisions, PTL

\* On a volume that takes every write no group goes missing from a document that can be read,
\* across any number of kills in mid-save (groups.py: archive).
THEOREM GroupsSurvive == Spec => EveryGroupSurvives
<1>1. TypeOK /\ SaveFollows /\ RevisionsInv /\ [Next]_vars
        => [~faulty /\ Readable /\ Readable' => Keeps(Current, Current')]_vars
  <2> SUFFICES ASSUME TypeOK, SaveFollows, RevisionsInv, Next, ~faulty, Readable, Readable'
               PROVE  Keeps(Current, Current')
    OBVIOUS
  <2>0. stage = "saving" => Keeps(Current, saving.doc)
    BY CurrentTyped, EditsKeep DEF SaveFollows, TypeOK
  <2>1. CASE Killed
    <3>1. memory' = None /\ file' # Torn
      BY <2>1 DEF Killed, Readable
    <3>2. CASE file' = file
      BY <3>1, <3>2, KeepsItself DEF RevisionsInv, Current
    <3>3. CASE stage = "saving" /\ file' = saving.doc
      BY <2>0, <3>1, <3>3 DEF TypeOK, Current
    <3> QED
      BY <2>1, <3>1, <3>2, <3>3 DEF Killed, Damage
  <2> QED
    BY <2>0, <2>1, CurrentMoves, KeepsItself
<1> QED
  BY <1>1, TypeCorrect, SavesFollow, AlwaysRevisions, PTL DEF Spec, EveryGroupSurvives
-----------------------------------------------------------------------------
(***************************************************************************)
(* The store implements SharedDocument.                                    *)
(***************************************************************************)
\* The two modules speak of the same lists.
LEMMA SameLists == /\ Abstract!Group = Group /\ Abstract!Document = Groups
                   /\ Abstract!Empty = Empty.groups
  BY DEF Abstract!Group, Abstract!Document, Abstract!Empty, Group, Groups, Empty

\* What the list is.
LEMMA ListIs ==
  ASSUME TypeOK
  PROVE  /\ Readable => List = Current.groups /\ List \in Groups /\ List # Torn
         /\ ~Readable => List = Torn
<1>1. Current.groups \in Groups /\ Torn \notin Groups
  BY CurrentTyped, DocParts DEF Groups
<1> QED
  BY <1>1 DEF List

\* A step that leaves the document, and what is known of it, alone.
LEMMA ListStays ==
  ASSUME UNCHANGED <<faulty, file, memory, clients, boots>>
  PROVE  UNCHANGED <<~faulty, List, ListSeen, loaded, boots>>
<1>1. Current' = Current /\ Readable' = Readable
  BY DEF Current, Readable
<1> QED
  BY <1>1 DEF List, ListSeen

\* Names that are distinct in a document are distinct in its list.
LEMMA NamesShow ==
  ASSUME NEW doc, DistinctNames(doc)
  PROVE  Abstract!DistinctNames(doc.groups)
  BY DEF DistinctNames, Live, Abstract!DistinctNames

\* An empty store shows an empty list, or one that cannot be read.
LEMMA InitShows == Init => Abstract!Init
<1> SUFFICES ASSUME Init PROVE Abstract!Init
  OBVIOUS
<1>1. List \in {Empty.groups, Torn}
  BY DEF Init, List, Readable, Current
<1>2. ListSeen = [c \in Client |-> None] /\ UnderWay = {}
  BY DEF Init, ListSeen, UnderWay
<1> QED
  BY <1>1, <1>2, SameLists DEF Init, Abstract!Init

\* The document that is being saved is an edit that its author may make.
LEMMA EditShows ==
  ASSUME TypeOK, SaveFollows, NamesInv, RevisionsInv, stage = "saving",
         List' = saving.doc.groups
  PROVE  UnderWay # {} /\ Abstract!Edit
<1>1. UnderWay = {[by |-> saving.by, presents |-> saving.presents]}
  BY DEF UnderWay
<1>2. Readable /\ List = Current.groups
  BY ListIs DEF SaveFollows
<1>3. saving.presents /\ Protected(saving.by) => ListSeen[saving.by] = List
  <2> HAVE saving.presents /\ Protected(saving.by)
  <2>1. saving.by \in Client /\ seen[saving.by] = Current
    BY DEF RevisionsInv, NoSilentOverwrite, TypeOK
  <2>2. Current # None
    BY CurrentTyped
  <2> QED
    BY <1>2, <2>1, <2>2 DEF ListSeen
<1>4. \A edit \in UnderWay :
        edit.presents /\ (~faulty \/ edit.by \in loaded) => ListSeen[edit.by] = List
  BY <1>1, <1>3 DEF Protected
<1>5. \E id \in Id, group \in Group : List' = [List EXCEPT ![id] = group]
  BY <1>2 DEF SaveFollows, EditsOne
<1>6. Abstract!DistinctNames(saving.doc.groups)
  BY NamesShow DEF NamesInv
<1>7. Abstract!DistinctNames(List)'
  BY <1>6 DEF Abstract!DistinctNames
<1> QED
  BY <1>1, <1>4, <1>5, <1>7, SameLists DEF Abstract!Edit

\* A save that ends, on the volume or in memory, is a save.
LEMMA WriteShows ==
  ASSUME TypeOK, SaveFollows, NamesInv, RevisionsInv, Write
  PROVE  Abstract!Save
<1>1. /\ stage = "saving" /\ saving.doc \in Doc /\ Saved /\ stage' = "serving"
      /\ memory' = saving.doc \/ (memory' = None /\ file' = saving.doc)
  BY DEF Write, Persist, FallBack, KeepInMemory, Saved, TypeOK
<1>2. Readable' /\ Current' = saving.doc
  BY <1>1 DEF Readable, Current
<1>3. List' = saving.doc.groups
  BY <1>2 DEF List
<1>4. UnderWay' = {} /\ UNCHANGED <<~faulty, ListSeen, loaded, boots>>
  BY <1>1 DEF UnderWay, Saved, ListSeen
<1> QED
  BY <1>1, <1>3, <1>4, EditShows DEF Abstract!Save

\* A kill is a restart, which loses no more than the volume allows.
LEMMA KillShows ==
  ASSUME TypeOK, SaveFollows, NamesInv, RevisionsInv, Killed
  PROVE  Abstract!Restart
<1>1. /\ memory' = None /\ stage' = "probe"
      /\ UnderWay' = {} /\ loaded' = {} /\ boots' = boots + 1
      /\ UNCHANGED <<~faulty, ListSeen>>
  BY DEF Killed, UnderWay, ListSeen
<1> DEFINE Loses == \/ List' = List
                    \/ UnderWay # {} /\ (Abstract!Edit \/ List' = Torn)
                    \/ faulty /\ List' \in Groups /\ Abstract!DistinctNames(List)'
                    \/ faulty /\ List' = Torn
<1> SUFFICES Loses
  BY <1>1, SameLists DEF Abstract!Restart
<1>2. CASE file' = file /\ memory = None
  <2>1. Current' = Current /\ Readable' = Readable
    BY <1>1, <1>2 DEF Current, Readable
  <2> QED
    BY <2>1 DEF List
<1>3. CASE file' = file /\ memory # None
  <2>1. faulty
    BY <1>3 DEF RevisionsInv
  <2>2. CASE file = Torn
    BY <1>1, <1>3, <2>1, <2>2 DEF List, Readable
  <2>3. CASE file # Torn
    <3>1. Readable' /\ Current' = IF file = Absent THEN Empty ELSE file
      BY <1>1, <1>3, <2>3 DEF Readable, Current
    <3>2. Current' \in Doc
      BY <2>3, <3>1, EmptyTyped DEF TypeOK
    <3>3. List' = Current'.groups /\ List' \in Groups
      BY <3>1, <3>2, DocParts DEF List
    <3>4. DistinctNames(Empty)
      BY DEF DistinctNames, Live, Empty
    <3>5. DistinctNames(IF file = Absent THEN Empty ELSE file)
      BY <2>3, <3>4 DEF NamesInv
    <3>6. Abstract!DistinctNames((IF file = Absent THEN Empty ELSE file).groups)
      BY <3>5, NamesShow
    <3>7. Abstract!DistinctNames(List)'
      BY <3>1, <3>3, <3>6 DEF Abstract!DistinctNames
    <3> QED
      BY <2>1, <3>3, <3>7
  <2> QED
    BY <2>2, <2>3
<1>4. CASE stage = "saving" /\ file' = saving.doc
  <2>1. Readable' /\ Current' = saving.doc
    BY <1>1, <1>4 DEF TypeOK, Readable, Current
  <2>2. List' = saving.doc.groups
    BY <2>1 DEF List
  <2> QED
    BY <1>4, <2>2, EditShows
<1>5. CASE stage = "saving" /\ file' = Torn
  BY <1>1, <1>5 DEF List, Readable, UnderWay
<1>6. CASE faulty /\ file' = Absent
  <2>1. Readable' /\ Current' = Empty
    BY <1>1, <1>6 DEF Readable, Current
  <2>2. List' = Empty.groups
    BY <2>1 DEF List
  <2>3. DistinctNames(Empty)
    BY DEF DistinctNames, Live, Empty
  <2>4. Abstract!DistinctNames(Empty.groups)
    BY <2>3, NamesShow
  <2>5. Abstract!DistinctNames(List)'
    BY <2>2, <2>4 DEF Abstract!DistinctNames
  <2> QED
    BY <1>6, <2>2, <2>5, EmptyTyped, DocParts
<1> QED
  BY <1>2, <1>3, <1>4, <1>5, <1>6 DEF Killed, Damage

\* A client that loads the document loads the list.
LEMMA LoadShows ==
  ASSUME TypeOK, NEW c \in Client, Load(c)
  PROVE  Abstract!Load(c)
<1>1. /\ Readable /\ stage = "serving" /\ stage' = "serving"
      /\ UNCHANGED <<faulty, file, memory, boots>>
      /\ seen' = [seen EXCEPT ![c] = Current] /\ loaded' = loaded \cup {c}
  BY DEF Load
<1>2. List = Current.groups /\ List # Torn /\ Current # None
  BY <1>1, ListIs, CurrentTyped
<1>3. List' = List
  <2>1. Current' = Current /\ Readable' = Readable
    BY <1>1 DEF Current, Readable
  <2> QED
    BY <2>1 DEF List
<1>4. ListSeen' = [ListSeen EXCEPT ![c] = List]
  BY <1>1, <1>2 DEF ListSeen, TypeOK
<1>5. UnderWay = {} /\ UnderWay' = {}
  BY <1>1 DEF UnderWay
<1> QED
  BY <1>1, <1>2, <1>3, <1>4, <1>5 DEF Abstract!Load

\* A handler that hands a document to _write begins an edit; so does the seeding of
\* an empty document.
LEMMA BeginShows ==
  ASSUME TypeOK, Readable, stage # "saving", stage' = "saving",
         UNCHANGED <<faulty, file, memory, clients, boots>>,
         NEW by, NEW presents, saving'.by = by, saving'.presents = presents
  PROVE  Abstract!Begin([by |-> by, presents |-> presents])
<1>1. List # Torn /\ UnderWay = {} /\ UnderWay' = {[by |-> by, presents |-> presents]}
  BY ListIs DEF UnderWay
<1> QED
  BY <1>1, ListStays DEF Abstract!Begin

\* Every step of the store is a step of the shared list, or shows nothing.
LEMMA StepShows ==
  ASSUME TypeOK, SaveFollows, NamesInv, RevisionsInv, [Next]_vars
  PROVE  [Abstract!Next]_(Abstract!vars)
<1>1. CASE Read \/ ProbeTaken \/ SeedNothing \/ UNCHANGED vars
  <2>1. /\ UNCHANGED <<faulty, file, memory, clients, boots, saving>>
        /\ stage' = stage \/ "saving" \notin {stage, stage'}
    BY <1>1 DEF Read, ProbeTaken, SeedNothing, store, vars
  <2>2. UnderWay' = UnderWay
    BY <2>1 DEF UnderWay
  <2> QED
    BY <2>1, <2>2, ListStays DEF Abstract!vars
<1>2. CASE ProbeRefused
  <2>1. /\ faulty /\ stage = "probe" /\ stage' = "seed" /\ memory' = Current
        /\ UNCHANGED <<faulty, file, clients, boots>>
    BY <1>2 DEF ProbeRefused, BestView
  <2>2. UnderWay = {} /\ UnderWay' = {} /\ ListSeen' = ListSeen
    BY <2>1 DEF UnderWay, ListSeen
  <2>3. Readable' /\ Current' = Current /\ List' = Current.groups
    BY <2>1, CurrentTyped DEF Readable, Current, List
  <2>4. CASE Readable
    <3>1. List' = List
      BY <2>3, <2>4, ListIs
    <3> QED
      BY <2>1, <2>2, <3>1 DEF Abstract!vars
  <2>5. CASE ~Readable
    <3>1. List = Torn /\ List' = Empty.groups
      BY <2>3, <2>5, ListIs DEF Readable, Current
    <3>2. Abstract!StartAnew
      BY <2>1, <2>2, <3>1, SameLists DEF Abstract!StartAnew
    <3> QED
      BY <3>2 DEF Abstract!Next
  <2> QED
    BY <2>4, <2>5
<1>3. CASE SeedEmpty
  <2>1. /\ Readable /\ stage = "seed" /\ stage' = "saving"
        /\ UNCHANGED <<faulty, file, memory, clients, boots>>
        /\ saving'.by = None /\ saving'.presents = FALSE
    BY <1>3 DEF SeedEmpty, NoSave
  <2>2. List = Empty.groups
    <3>1. List = Current.groups /\ List \in Groups
      BY <2>1, ListIs
    <3>2. \A id \in Id : List[id] = None
      BY <1>3, <3>1 DEF SeedEmpty, NothingStored, Exists
    <3> QED
      BY <3>1, <3>2 DEF Groups, Empty
  <2>3. Abstract!Begin([by |-> None, presents |-> FALSE])
    BY <2>1, BeginShows
  <2> QED
    BY <2>2, <2>3, SameLists DEF Abstract!AskSeed, Abstract!Next
<1>4. CASE Write
  BY <1>4, WriteShows DEF Abstract!Next
<1>5. CASE Killed
  BY <1>5, KillShows DEF Abstract!Next
<1>6. ASSUME NEW c \in Client, Load(c) PROVE Abstract!Next
  BY <1>6, LoadShows DEF Abstract!Next
<1>7. ASSUME NEW c \in Client, Request(c), ~Load(c) PROVE Abstract!Next
  <2>1. PICK id \in Id, group \in Group, presents \in BOOLEAN :
           Save(c, presents, With(id, group))
    BY <1>7, HandlersEdit
  <2>2. /\ Readable /\ stage = "serving" /\ stage' = "saving"
        /\ UNCHANGED <<faulty, file, memory, clients, boots>>
        /\ saving'.by = c /\ saving'.presents = presents
    BY <2>1 DEF Save
  <2>3. Abstract!Begin([by |-> c, presents |-> presents])
    BY <2>2, BeginShows
  <2> QED
    BY <2>3 DEF Abstract!Ask, Abstract!Next
<1> QED
  BY <1>1, <1>2, <1>3, <1>4, <1>5, <1>6, <1>7 DEF Next, Boot

\* The store is one shared list of groups: an edit changes one group, replaces what
\* its author has seen, and takes effect at once; a process loses nothing, and a
\* volume that takes every write at most the edit of a kill (groups.py).
THEOREM StoreIsSharedDocument == Spec => ImplementsSharedDocument
<1>1. Spec => []NamesInv
  <2>1. Init => NamesInv
    BY DEF Init, NamesInv
  <2> QED
    BY <2>1, TypeCorrect, SavesFollow, StepNames, PTL DEF Spec
<1> QED
  BY <1>1, InitShows, StepShows, TypeCorrect, SavesFollow, AlwaysRevisions, PTL
  DEF Spec, ImplementsSharedDocument, Abstract!Spec
=============================================================================
