-------------------------- MODULE PickerSelection --------------------------
(***************************************************************************)
(* Which groups the next render covers: the group list and its selection   *)
(* in timeslides/report/assets/picker.js (loadGroups, reconcileSelection,  *)
(* toggleGroup, selectEvery) and what the browser remembers of it, as one  *)
(* page of one browser.                                                    *)
(*                                                                         *)
(* The list is loaded when the page starts, and after every save and every *)
(* archive; loads that are out at the same time may be answered in any     *)
(* order.  Groups are created, archived and restored by the user of the    *)
(* page or by others, between any two steps.  Of a group only its id       *)
(* matters here; its content is PickerEditor's.                            *)
(***************************************************************************)
EXTENDS Naturals

CONSTANTS Id,         \* ids of groups
          Slot,       \* bound: loads that are out at a time
          None,       \* null, or nothing
          MaxReloads  \* bound: times the page is loaded again

ASSUME PickerSelectionAssumption ==
    /\ \A ids \in SUBSET Id : ids # None
    /\ MaxReloads \in Nat

VARIABLES
    live,      \* the service: the groups that are not archived
    \* the page
    listed,    \* the ids in S.groups
    selected,  \* S.selected
    known,     \* S.known; None before the first list
    out,       \* the loads that are out
    reloads,
    \* the browser
    refuses,   \* localStorage throws
    stored,    \* the remembered selection; None where there is none to use
    \* history
    left       \* list and selection when the page was last left

vars == <<live, listed, selected, known, out, reloads, refuses, stored, left>>

\* A load is sent, then answered with a list, or failed.
Requests == [is : {"unused", "sent", "answered", "failed"}, list : SUBSET Id]
Unused   == [is |-> "unused", list |-> {}]
Sent     == [is |-> "sent", list |-> {}]
FirstLoads == {[s \in Slot |-> IF s = n THEN Sent ELSE Unused] : n \in Slot}

Init ==
    /\ live \in SUBSET Id
    /\ listed = {} /\ selected = {} /\ known = None
    /\ out \in FirstLoads
    /\ reloads = 0
    /\ refuses \in BOOLEAN
    /\ stored = None
    /\ left = None

\* Somebody creates, archives or restores a group.
Change ==
    /\ \E id \in Id : live' \in {live \cup {id}, live \ {id}}
    /\ UNCHANGED <<listed, selected, known, out, reloads, refuses, stored, left>>

-----------------------------------------------------------------------------
(***************************************************************************)
(* The boxes.                                                              *)
(***************************************************************************)
\* storeSelection
Store(chosen) == IF refuses THEN stored ELSE chosen

\* toggleGroup, on a box of the list.
ToggleGroup(id) ==
    /\ id \in listed
    /\ selected' \in {selected \cup {id}, selected \ {id}} \ {selected}
    /\ stored' = Store(selected')
    /\ UNCHANGED <<live, listed, known, out, reloads, refuses, left>>

\* selectEvery.  The buttons are there before the list is, and store an empty
\* choice then.
SelectEvery(chosen) ==
    /\ chosen \in {listed, {}}
    /\ selected' = chosen
    /\ stored' = Store(chosen)
    /\ left' = IF known = None THEN None ELSE left
    /\ UNCHANGED <<live, listed, known, out, reloads, refuses>>

-----------------------------------------------------------------------------
(***************************************************************************)
(* Loading the list.                                                       *)
(***************************************************************************)
PageUntouched == UNCHANGED <<listed, selected, known, reloads, refuses, stored, left>>

\* loadGroups up to its await.
LoadGroups(s) ==
    /\ out[s] = Unused
    /\ out' = [out EXCEPT ![s] = Sent]
    /\ live' = live
    /\ PageUntouched

\* The service answers with the groups that are live at that time, or fails.
Answer(s) ==
    /\ out[s] = Sent
    /\ out' \in {[out EXCEPT ![s] = [is |-> "answered", list |-> live]],
                 [out EXCEPT ![s] = [is |-> "failed", list |-> {}]]}
    /\ live' = live
    /\ PageUntouched

\* Mutant: every group of the list arrives selected, not only the new ones.
AllArrive(list) == list

\* Groups created since the last list arrive selected.
Arriving(list) == list \ known

\* Mutant: what is gone from the list stays selected.
Remaining(chosen, list) == chosen

\* Groups that are gone from the list drop out.
Surviving(chosen, list) == chosen \cap list

\* Mutant: the remembered selection is not read.
Everything(list) == list

\* What a first list is selected with: what was remembered, or everything.
Remembered(list) == IF stored = None THEN list ELSE stored

\* loadGroups after its await, with reconcileSelection.
Loaded(s) ==
    /\ out[s].is = "answered"
    /\ LET list == out[s].list
           more == IF known = None THEN Remembered(list) ELSE Arriving(list)
       IN  /\ listed' = list
           /\ selected' = Surviving(selected \cup more, list)
           /\ known' = list
           /\ stored' = Store(selected')
    /\ out' = [out EXCEPT ![s] = Unused]
    /\ UNCHANGED <<live, reloads, refuses, left>>

LoadFailed(s) ==
    /\ out[s].is = "failed"
    /\ out' = [out EXCEPT ![s] = Unused]
    /\ live' = live
    /\ PageUntouched

\* Mutant: the page starts with the remembered selection, before there is a list.
RememberedAtStart == IF stored = None THEN {} ELSE stored

\* The selection of a page that has no list yet.
SelectedAtStart == {}

\* The page is loaded again.
Reload ==
    /\ reloads < MaxReloads
    /\ reloads' = reloads + 1
    /\ left' = IF known = None THEN left ELSE [listed |-> listed, selected |-> selected]
    /\ listed' = {} /\ selected' = SelectedAtStart /\ known' = None
    /\ out' \in FirstLoads
    /\ UNCHANGED <<live, refuses, stored>>

Next == \/ Change \/ Reload
        \/ \E id \in Id : ToggleGroup(id)
        \/ \E chosen \in SUBSET Id : SelectEvery(chosen)
        \/ \E s \in Slot : LoadGroups(s) \/ Answer(s) \/ Loaded(s) \/ LoadFailed(s)

Spec == Init /\ [][Next]_vars

-----------------------------------------------------------------------------
(***************************************************************************)
(* Properties.                                                             *)
(***************************************************************************)

\* Every variable has its type, and before the first list nothing is ticked
\* (picker.js: S, loadGroups).
TypeOK ==
    /\ live \subseteq Id /\ listed \subseteq Id /\ selected \subseteq Id
    /\ IF known = None THEN listed = {} /\ selected = {} ELSE known \subseteq Id
    /\ out \in [Slot -> Requests]
    /\ reloads \in 0 .. MaxReloads
    /\ refuses \in BOOLEAN
    /\ stored = None \/ stored \subseteq Id
    /\ left = None \/ left \in [listed : SUBSET Id, selected : SUBSET Id]

\* Whatever the order of answers, clicks and reloads: only listed groups are
\* selected, so that none that is gone sits invisibly in the next render, and
\* what is remembered is what the boxes show (picker.js: reconcileSelection,
\* storeSelection).
SelectionIsListed ==
    /\ selected \subseteq listed
    /\ known # None => known = listed /\ (refuses \/ stored = selected)

\* A load of the list selects what is new and changes no other box: what the
\* user has ticked or cleared stays so (picker.js: reconcileSelection).
ChoicesSurviveLoads ==
    [][known # None /\ listed' # listed /\ reloads' = reloads =>
         /\ selected' \cap listed = selected \cap listed'
         /\ listed' \ listed \subseteq selected']_vars

\* "The selection is kept per browser so the choice survives a reload"
\* (picker.js:198): a group listed when the page was left and on the first list
\* afterwards is ticked as it was, unless all or none was pressed in between.
ChoicesSurviveReloads ==
    [][known = None /\ known' # None /\ left # None /\ ~refuses =>
         selected' \cap left.listed = left.selected \cap listed']_vars
=============================================================================
