--------------------------- MODULE SharedDocument ---------------------------
(***************************************************************************)
(* What the people who edit the groups may rely on, without files, caches, *)
(* revisions and the fall back to memory: there is one list of groups, an  *)
(* edit adds or changes one group, and whoever presents what he has seen   *)
(* replaces that and nothing else.  On a durable volume a restart loses at *)
(* most the edit under way; on another it may lose anything, but a process *)
(* never does.                                                             *)
(***************************************************************************)
EXTENDS Naturals

CONSTANTS Client, Name, Id, None, Unreadable

Group    == [name : Name, archived : BOOLEAN]
Document == [Id -> Group \cup {None}]
Empty    == [id \in Id |-> None]

VARIABLES durable,  \* the volume keeps what it has taken
          groups,   \* the list of groups; Unreadable after a save was cut short
          seen,     \* the list each client has loaded
          loaded,   \* the clients that have loaded it from this process
          pending,  \* the edit under way, if any
          starts    \* of the process

vars == <<durable, groups, seen, loaded, pending, starts>>

\* No two groups that are not archived share a name.
DistinctNames(list) ==
    \A i, j \in Id :
        /\ list[i] # None /\ list[j] # None
        /\ ~list[i].archived /\ ~list[j].archived
        /\ list[i].name = list[j].name
        => i = j

Init ==
    /\ durable \in BOOLEAN
    /\ groups \in {Empty, Unreadable}
    /\ seen = [c \in Client |-> None]
    /\ loaded = {}
    /\ pending = {}
    /\ starts = 1

Load(c) ==
    /\ groups # Unreadable /\ pending = {}
    /\ seen' = [seen EXCEPT ![c] = groups]
    /\ loaded' = loaded \cup {c}
    /\ UNCHANGED <<durable, groups, pending, starts>>

Begin(edit) ==
    /\ groups # Unreadable /\ pending = {}
    /\ pending' = {edit}
    /\ UNCHANGED <<durable, groups, seen, loaded, starts>>

\* A client edits, and presents what it has seen or does not.
Ask(c) == \E presents \in BOOLEAN : Begin([by |-> c, presents |-> presents])

\* The seeds go into an empty list only.
AskSeed == groups = Empty /\ Begin([by |-> None, presents |-> FALSE])

\* The edit under way takes effect.
Edit ==
    /\ \A edit \in pending : edit.presents /\ (durable \/ edit.by \in loaded) =>
           seen[edit.by] = groups
    /\ \E id \in Id, group \in Group : groups' = [groups EXCEPT ![id] = group]
    /\ DistinctNames(groups')

Save ==
    /\ pending # {} /\ Edit
    /\ pending' = {}
    /\ UNCHANGED <<durable, seen, loaded, starts>>

Restart ==
    /\ \/ groups' = groups
       \/ pending # {} /\ (Edit \/ groups' = Unreadable)
       \/ ~durable /\ groups' \in Document /\ DistinctNames(groups')
       \/ ~durable /\ groups' = Unreadable
    /\ pending' = {}
    /\ loaded' = {}
    /\ starts' = starts + 1
    /\ UNCHANGED <<durable, seen>>

\* A process that cannot use the volume does without what it cannot read.
StartAnew ==
    /\ ~durable /\ groups = Unreadable /\ pending = {}
    /\ groups' = Empty
    /\ UNCHANGED <<durable, seen, loaded, pending, starts>>

Next == AskSeed \/ Save \/ Restart \/ StartAnew \/ \E c \in Client : Load(c) \/ Ask(c)

Spec == Init /\ [][Next]_vars
=============================================================================
