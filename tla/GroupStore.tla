----------------------------- MODULE GroupStore -----------------------------
(***************************************************************************)
(* The group document of timeslides/groups.py: one JSON file behind one    *)
(* lock, edited by several clients who present the revision they read; its *)
(* fall back to memory when the volume refuses a save; the boot of         *)
(* timeslides/api.py that probes the volume and seeds the document; and    *)
(* the process being killed at any point.                                  *)
(*                                                                         *)
(* Abstraction.  A group is its name and whether it is archived: its       *)
(* satellites change together with its name.  A uuid is the ordinal of its *)
(* creation, so groups stand in the document in the order of their ids.    *)
(* The seeds are one group.  The volume is what VolumeWriter leaves of it. *)
(***************************************************************************)
EXTENDS Naturals

CONSTANTS
    Client,   \* pages that edit the groups
    Name,     \* group names, case-folded
    Seed,     \* the name of the seeded group
    None,     \* no document, no client, no group
    Absent,   \* there is no file
    Torn,     \* a file that is not a group document
    MaxGroups,\* bound: groups ever created
    MaxRev,   \* bound: revisions
    MaxBoots  \* bound: times the process is started

Id    == 1 .. MaxGroups
Group == [name : Name, archived : BOOLEAN]
Doc   == [rev : Nat, groups : [Id -> Group \cup {None}]]

ASSUME GroupStoreAssumption ==
    /\ Seed \in Name
    /\ None \notin Client /\ None \notin Id /\ None \notin Group /\ None \notin Doc
    /\ Absent \notin Doc /\ Torn \notin Doc /\ Absent # Torn
    /\ Torn \notin [Id -> Group \cup {None}]
    /\ MaxGroups \in Nat \ {0} /\ MaxRev \in Nat \ {0} /\ MaxBoots \in Nat

VARIABLES
    faulty,   \* the volume may refuse a probe or a save, and lose its file then
    file,     \* the document on the volume
    memory,   \* self._memory; None while the volume is in use
    cache,    \* self._cache
    mode,     \* the storage mode that /healthz and the page report
    stage,    \* what the process is doing: booting, serving, or in _write
    saving,   \* the save in progress
    seen,     \* the document each client has loaded
    loaded,   \* the clients that have loaded it from this process
    created,  \* groups created so far
    boots

store == <<file, memory, cache>>
clients == <<seen, loaded>>
vars == <<faulty, store, mode, stage, saving, clients, created, boots>>

\* by: who saves.  presents: with the revision it has seen.  then: the stage
\* that follows.
NoSave == [doc |-> None, by |-> None, presents |-> FALSE, then |-> "serving"]

Empty == [rev |-> 0, groups |-> [i \in Id |-> None]]

\* What an unfinished write may leave in place of a document.
Damage == IF faulty THEN {Torn, Absent} ELSE {Torn}

Init ==
    /\ faulty \in BOOLEAN
    /\ file \in {Absent, Torn}
    /\ memory = None
    /\ cache = None
    /\ mode = "none"
    /\ stage = "probe"
    /\ saving = NoSave
    /\ seen = [c \in Client |-> None]
    /\ loaded = {}
    /\ created = 0
    /\ boots = 1

-----------------------------------------------------------------------------
(***************************************************************************)
(* Reading.                                                                *)
(***************************************************************************)
\* Mutant: a corrupt document reads as an empty one.
AlwaysReadable == TRUE

\* _read raises on a file that is not a group document.
Readable == memory # None \/ file # Torn

\* What _read returns, and where it raises, what _current_locked falls back to.
Current == IF memory # None THEN memory
           ELSE IF file \in {Absent, Torn} THEN Empty ELSE file

\* _read keeps a copy of what it finds in the file.
ReadCaches ==
    cache' = IF memory # None \/ file \in {Absent, Torn} THEN cache ELSE file

\* A read for a run or for a request that is then refused: the document is not
\* readable, the revision stale, the name taken, the group unknown or the
\* payload not valid.
Read ==
    /\ stage = "serving"
    /\ ReadCaches
    /\ UNCHANGED <<faulty, file, memory, mode, stage, saving, clients, created, boots>>

\* GET /api/groups
Load(c) ==
    /\ stage = "serving"
    /\ Readable
    /\ ReadCaches
    /\ seen' = [seen EXCEPT ![c] = Current]
    /\ loaded' = loaded \cup {c}
    /\ UNCHANGED <<faulty, file, memory, mode, stage, saving, created, boots>>

-----------------------------------------------------------------------------
(***************************************************************************)
(* Handlers.  Each checks the document and hands a new one to _write; the  *)
(* lock is held until the write is over.                                   *)
(***************************************************************************)
Exists(id) == Current.groups[id] # None
Live(groups, id) == groups[id] # None /\ ~groups[id].archived

\* Mutant: the name is compared with all groups but the live ones.
ArchivedNameTaken(name, self) ==
    \E id \in Id \ {self} : /\ Exists(id) /\ Current.groups[id].archived
                            /\ Current.groups[id].name = name

\* _reject_duplicate_name: a live group other than self has the name.
NameTaken(name, self) ==
    \E id \in Id \ {self} : /\ Live(Current.groups, id)
                            /\ Current.groups[id].name = name

\* Mutant: any revision up to the current one is taken.
RevIsKnown(c, presents) == presents => seen[c].rev <= Current.rev

\* _check_rev
RevIsCurrent(c, presents) == presents => seen[c].rev = Current.rev

NextRev(groups) == [rev |-> Current.rev + 1, groups |-> groups]

Save(c, presents, groups) ==
    /\ stage = "serving"
    /\ Readable
    /\ Current.rev < MaxRev
    /\ RevIsCurrent(c, presents)
    /\ saving' = [doc |-> NextRev(groups), by |-> c, presents |-> presents,
                  then |-> "serving"]
    /\ stage' = "saving"
    /\ ReadCaches
    /\ UNCHANGED <<faulty, file, memory, mode, clients, boots>>

Create(c, name) ==
    /\ created < MaxGroups
    /\ ~NameTaken(name, None)
    /\ created' = created + 1
    /\ Save(c, FALSE, [Current.groups EXCEPT ![created + 1] =
                          [name |-> name, archived |-> FALSE]])

\* The group keeps its archived flag.
Update(c, presents, id, name) ==
    /\ Exists(id)
    /\ ~NameTaken(name, id)
    /\ created' = created
    /\ Save(c, presents, [Current.groups EXCEPT ![id].name = name])

Archived(id) == [Current.groups EXCEPT ![id].archived = TRUE]

Archive(c, presents, id) ==
    /\ Exists(id)
    /\ created' = created
    /\ Save(c, presents, Archived(id))

Restore(c, presents, id) ==
    /\ Exists(id)
    /\ ~NameTaken(Current.groups[id].name, id)
    /\ created' = created
    /\ Save(c, presents, [Current.groups EXCEPT ![id].archived = FALSE])

\* A client has an id from a document it loaded: ids are not guessed.
Known(c) == {id \in Id : seen[c] # None /\ seen[c].groups[id] # None}

Request(c) ==
    \/ Load(c)
    \/ \E name \in Name : Create(c, name)
    \/ \E presents \in BOOLEAN, id \in Known(c) :
         \/ \E name \in Name : Update(c, presents, id, name)
         \/ Archive(c, presents, id)
         \/ Restore(c, presents, id)

-----------------------------------------------------------------------------
(***************************************************************************)
(* _write, with the new document in saving.doc.                            *)
(***************************************************************************)
Saved == /\ stage' = saving.then
         /\ saving' = NoSave
         /\ UNCHANGED <<faulty, mode, clients, created, boots>>

Persist ==
    /\ stage = "saving" /\ memory = None
    /\ file' = saving.doc
    /\ cache' = saving.doc
    /\ memory' = memory
    /\ Saved

\* The volume refuses: the store falls back to memory, and keeps the document
\* there.  A refused write may have left the file whole, changed or damaged; it
\* is read once more if it never was.
FallBack ==
    /\ stage = "saving" /\ memory = None /\ faulty
    /\ file' \in {file, saving.doc} \cup Damage
    /\ memory' = saving.doc
    /\ cache' = IF cache # None \/ file' \in {Absent, Torn} THEN cache ELSE file'
    /\ Saved

KeepInMemory ==
    /\ stage = "saving" /\ memory # None
    /\ memory' = saving.doc
    /\ UNCHANGED <<file, cache>>
    /\ Saved

-----------------------------------------------------------------------------
(***************************************************************************)
(* Boot.                                                                   *)
(***************************************************************************)
\* _check_storage, on a volume that takes the probe.
ProbeTaken ==
    /\ stage = "probe"
    /\ mode' = "volume"
    /\ stage' = "seed"
    /\ UNCHANGED <<faulty, store, saving, clients, created, boots>>

\* Mutant: the fall back starts from an empty document.
StartEmpty == Empty

\* Mutant: the fall back takes the file for a document, whatever it is.
WhateverIsThere == file

\* _current_locked.  Its cache is left out: a fall back at a save replaces what it
\* returns at once, and before the boot nothing has been read.
BestView == Current

\* On a volume that does not, the store falls back with the best view of the
\* document it has.
ProbeRefused ==
    /\ stage = "probe" /\ faulty
    /\ mode' = "memory"
    /\ memory' = BestView
    /\ ReadCaches
    /\ stage' = "seed"
    /\ UNCHANGED <<faulty, file, saving, clients, created, boots>>

NothingStored == \A id \in Id : ~Exists(id)

\* seed_if_empty writes the seeds, once.
SeedEmpty ==
    /\ stage = "seed" /\ Readable
    /\ NothingStored
    /\ created < MaxGroups
    /\ created' = created + 1
    /\ saving' = [NoSave EXCEPT !.doc = NextRev([Current.groups EXCEPT
                     ![created + 1] = [name |-> Seed, archived |-> FALSE]])]
    /\ stage' = "saving"
    /\ ReadCaches
    /\ UNCHANGED <<faulty, file, memory, mode, clients, boots>>

\* It leaves a document with groups alone, and gives up on one it cannot read.
SeedNothing ==
    /\ stage = "seed"
    /\ ~(Readable /\ NothingStored)
    /\ stage' = "serving"
    /\ ReadCaches
    /\ UNCHANGED <<faulty, file, memory, mode, saving, clients, created, boots>>

\* The process is killed and a new one starts.  A write in progress may be
\* over, not begun, or cut short.  (The bounds leave room for its seeds.)
Killed ==
    /\ boots < MaxBoots /\ created < MaxGroups
    /\ boots' = boots + 1
    /\ file' \in IF stage = "saving" /\ memory = None
                 THEN {file, saving.doc} \cup Damage ELSE {file}
    /\ memory' = None
    /\ cache' = None
    /\ mode' = "none"
    /\ stage' = "probe"
    /\ saving' = NoSave
    /\ loaded' = {}
    /\ UNCHANGED <<faulty, seen, created>>

Boot  == ProbeTaken \/ ProbeRefused \/ SeedEmpty \/ SeedNothing
Write == Persist \/ FallBack \/ KeepInMemory

Next == Read \/ Boot \/ Write \/ Killed \/ \E c \in Client : Request(c)

Spec == Init /\ [][Next]_vars

-----------------------------------------------------------------------------
(***************************************************************************)
(* Properties.                                                             *)
(***************************************************************************)
Document == Doc \cup {None}

\* Every variable has its type (groups.py: GroupStore.__init__).
TypeOK ==
    /\ faulty \in BOOLEAN
    /\ file \in Doc \cup {Absent, Torn}
    /\ memory \in Document /\ cache \in Document
    /\ mode \in {"none", "volume", "memory"}
    /\ stage \in {"probe", "seed", "serving", "saving"}
    /\ saving \in [doc : Document, by : Client \cup {None},
                   presents : BOOLEAN, then : {"serving"}]
    /\ stage = "saving" => saving.doc \in Doc
    /\ saving.presents => saving.by \in Client
    /\ seen \in [Client -> Document] /\ loaded \subseteq Client
    /\ created \in 0 .. MaxGroups
    /\ boots \in Nat

\* Whose revisions mean anything: on a volume that takes every write those of
\* all clients, on another those of the clients that loaded the document from
\* this process.
Protected(c) == ~faulty \/ c \in loaded

\* "a write must present the revision it read or it is refused" (groups.py:17): a
\* save that presents one replaces the very document its client has loaded.
\* Where the volume refuses or loses writes this holds for what was loaded since
\* the last start; where it takes them, across any number of kills (groups.py:
\* _check_rev, _write).
NoSilentOverwrite ==
    stage = "saving" /\ saving.presents /\ Protected(saving.by) =>
        seen[saving.by] = Current

\* What makes it inductive: for these clients revisions only grow, and no two
\* documents they were ever given share one.
RevisionsGrow ==
    Readable => \A c \in Client : Protected(c) /\ seen[c] # None =>
                    /\ seen[c].rev <= Current.rev
                    /\ seen[c].rev = Current.rev => seen[c] = Current

RevisionsInv ==
    /\ ~faulty => memory = None
    /\ stage = "probe" => loaded = {}
    /\ RevisionsGrow /\ NoSilentOverwrite

Keeps(old, new) == \A id \in Id : old.groups[id] # None => new.groups[id] # None

\* One group was added or changed.
EditsOne(old, new) ==
    \E id \in Id, group \in Group : new.groups = [old.groups EXCEPT ![id] = group]

\* A document being saved comes right after the one it replaces, and differs from
\* it in one group; it never replaces a file that is not a document (groups.py:
\* _write, under the lock of every handler).
SaveFollows ==
    stage = "saving" => /\ Readable
                        /\ saving.doc.rev = Current.rev + 1
                        /\ EditsOne(Current, saving.doc)

\* No two live groups of the document share a name, whichever of create,
\* update and restore came last and wherever the document is kept: the names
\* are the labels of the tabs (groups.py: _reject_duplicate_name).
DistinctNames(doc) ==
    \A i, j \in Id : Live(doc.groups, i) /\ Live(doc.groups, j)
                        /\ doc.groups[i].name = doc.groups[j].name => i = j

LiveNamesUnique == Readable => DistinctNames(Current)

\* What makes it inductive: every document in play has distinct names.
NamesInv ==
    /\ file \notin {Absent, Torn} => DistinctNames(file)
    /\ memory # None => DistinctNames(memory)
    /\ stage = "saving" => DistinctNames(saving.doc)

\* For the life of the process no group that was ever readable goes missing,
\* whatever the volume refuses or damages (groups.py: archive,
\* use_memory_fallback, _current_locked).
PodKeepsGroups == [][boots' = boots => Keeps(Current, Current')]_vars

\* On a volume that takes every write, no group ever goes missing from a
\* document that can be read, even when the process is killed in mid-save:
\* archive hides, and nothing erases (groups.py: archive, seed_if_empty).
EveryGroupSurvives ==
    [][~faulty /\ Readable /\ Readable' => Keeps(Current, Current')]_vars

\* A file that is not a group document is never written to, by any save, seed
\* or restart: "that would look like 'all your groups vanished' and then help
\* by overwriting the evidence" (groups.py: _read).
EvidenceIsKept == [][file = Torn => file' = Torn]_vars

-----------------------------------------------------------------------------
(***************************************************************************)
(* The list of groups that the clients rely on.                            *)
(***************************************************************************)
List == IF Readable THEN Current.groups ELSE Torn

ListSeen == [c \in Client |-> IF seen[c] = None THEN None ELSE seen[c].groups]

UnderWay == IF stage = "saving" THEN {[by |-> saving.by, presents |-> saving.presents]}
                                ELSE {}

Abstract == INSTANCE SharedDocument WITH
    Unreadable <- Torn, durable <- ~faulty, groups <- List, seen <- ListSeen,
    pending <- UnderWay, starts <- boots

\* The store implements one shared list: a save changes one group, takes effect
\* at once or not at all, replaces what its client has seen, and keeps the names
\* apart; a running process loses nothing, and a volume that takes every write
\* loses at most the edit of a kill (groups.py: GroupStore; api.py: the group
\* routes, _check_storage, _seed_groups).
ImplementsSharedDocument == Abstract!Spec
=============================================================================
