----------------------- MODULE PickerSelectionProofs -----------------------
(***************************************************************************)
(* Proofs about PickerSelection, for any number of groups, loads and       *)
(* reloads: what is ticked is listed, and the choices of the user survive  *)
(* loads of the list and reloads of the page.                              *)
(***************************************************************************)
EXTENDS PickerSelection, TLAPS

USE PickerSelectionAssumption

\* What a request is answered with is a list of groups.
LEMMA AnswersAreLists ==
    ASSUME TypeOK, NEW s \in Slot
    PROVE  out[s].list \in SUBSET Id
BY DEF TypeOK, Requests

\* The requests of a page that has just been loaded.
LEMMA FirstLoadsTyped == FirstLoads \subseteq [Slot -> Requests]
BY DEF FirstLoads, Requests, Sent, Unused

\* What is remembered after any change of the boxes.
LEMMA StoreTyped ==
    ASSUME TypeOK, NEW chosen \in SUBSET Id
    PROVE  Store(chosen) = None \/ Store(chosen) \subseteq Id
BY DEF TypeOK, Store

\* The selection after a list: made of groups of the list.
LEMMA ReconciledTyped ==
    ASSUME TypeOK, NEW s \in Slot, Loaded(s)
    PROVE  /\ listed' = out[s].list /\ known' = out[s].list
           /\ selected' \subseteq out[s].list
           /\ out[s].list \in SUBSET Id
           /\ stored' = Store(selected')
BY AnswersAreLists DEF Loaded, Surviving

-----------------------------------------------------------------------------
\* Every step keeps every type (picker.js: S).
LEMMA StepTypeOK == TypeOK /\ [Next]_vars => TypeOK'
<1> SUFFICES ASSUME TypeOK, [Next]_vars PROVE TypeOK'
  OBVIOUS
<1>1. CASE Change
  BY <1>1 DEF TypeOK, Change
<1>2. CASE Reload
  BY <1>2, FirstLoadsTyped DEF TypeOK, Reload, SelectedAtStart
<1>3. ASSUME NEW id \in Id, ToggleGroup(id) PROVE TypeOK'
  <2>1. selected' \in SUBSET Id
    BY <1>3 DEF ToggleGroup, TypeOK
  <2>2. stored' = None \/ stored' \subseteq Id
    BY <1>3, <2>1, StoreTyped DEF ToggleGroup
  <2>3. known # None
    BY <1>3 DEF ToggleGroup, TypeOK
  <2>. QED
    BY <1>3, <2>1, <2>2, <2>3 DEF ToggleGroup, TypeOK
<1>4. ASSUME NEW chosen \in SUBSET Id, SelectEvery(chosen) PROVE TypeOK'
  <2>1. stored' = None \/ stored' \subseteq Id
    BY <1>4, StoreTyped DEF SelectEvery
  <2>2. known = None => chosen = {}
    BY <1>4 DEF SelectEvery, TypeOK
  <2>. QED
    BY <1>4, <2>1, <2>2 DEF SelectEvery, TypeOK
<1>5. ASSUME NEW s \in Slot, LoadGroups(s) \/ Answer(s) \/ LoadFailed(s)
      PROVE  TypeOK'
  <2>1. out' \in [Slot -> Requests]
    BY <1>5 DEF LoadGroups, Answer, LoadFailed, TypeOK, Requests, Sent, Unused
  <2>. QED
    BY <1>5, <2>1 DEF LoadGroups, Answer, LoadFailed, TypeOK, PageUntouched
<1>6. ASSUME NEW s \in Slot, Loaded(s) PROVE TypeOK'
  <2>1. out' \in [Slot -> Requests]
    BY <1>6 DEF Loaded, TypeOK, Requests, Unused
  <2>2. stored' = None \/ stored' \subseteq Id
    BY <1>6, ReconciledTyped, StoreTyped
  <2>3. known' # None
    BY <1>6, ReconciledTyped
  <2>. QED
    BY <1>6, <2>1, <2>2, <2>3, ReconciledTyped DEF Loaded, TypeOK
<1>7. CASE UNCHANGED vars
  BY <1>7 DEF TypeOK, vars
<1>. QED
  BY <1>1, <1>2, <1>3, <1>4, <1>5, <1>6, <1>7 DEF Next

\* Every variable keeps its type, for any groups, loads and reloads.
THEOREM TypeCorrect == Spec => []TypeOK
<1>1. Init => TypeOK
  BY FirstLoadsTyped DEF Init, TypeOK
<1>. QED
  BY <1>1, StepTypeOK, PTL DEF Spec

-----------------------------------------------------------------------------
\* No step ticks a group that is not listed, or forgets to remember a choice.
LEMMA StepSelection ==
    TypeOK /\ SelectionIsListed /\ [Next]_vars => SelectionIsListed'
<1> SUFFICES ASSUME TypeOK, SelectionIsListed, [Next]_vars
             PROVE  SelectionIsListed'
  OBVIOUS
<1>1. CASE Change
  BY <1>1 DEF Change, SelectionIsListed
<1>2. CASE Reload
  BY <1>2 DEF Reload, SelectionIsListed, SelectedAtStart
<1>3. ASSUME NEW id \in Id, ToggleGroup(id) PROVE SelectionIsListed'
  BY <1>3 DEF ToggleGroup, SelectionIsListed, Store
<1>4. ASSUME NEW chosen \in SUBSET Id, SelectEvery(chosen) PROVE SelectionIsListed'
  BY <1>4 DEF SelectEvery, SelectionIsListed, Store
<1>5. ASSUME NEW s \in Slot, LoadGroups(s) \/ Answer(s) \/ LoadFailed(s)
      PROVE  SelectionIsListed'
  BY <1>5 DEF LoadGroups, Answer, LoadFailed, PageUntouched, SelectionIsListed
<1>6. ASSUME NEW s \in Slot, Loaded(s) PROVE SelectionIsListed'
  <2>1. refuses' = refuses
    BY <1>6 DEF Loaded
  <2>. QED
    BY <1>6, <2>1, ReconciledTyped DEF SelectionIsListed, Store
<1>7. CASE UNCHANGED vars
  BY <1>7 DEF vars, SelectionIsListed
<1>. QED
  BY <1>1, <1>2, <1>3, <1>4, <1>5, <1>6, <1>7 DEF Next

\* In every order of clicks, answers and reloads, only listed groups are
\* ticked, and what is remembered is what the boxes show (picker.js:
\* reconcileSelection, storeSelection).
THEOREM TickedIsListed == Spec => []SelectionIsListed
<1>1. Init => SelectionIsListed
  BY DEF Init, SelectionIsListed
<1>. QED
  BY <1>1, StepSelection, TypeCorrect, PTL DEF Spec

-----------------------------------------------------------------------------
\* Between two visits the browser keeps the choices of the page that was left.
Kept ==
    known = None /\ left # None /\ ~refuses =>
        stored = left.selected /\ left.selected \subseteq left.listed

\* No step before the first list loses them.
LEMMA StepKept ==
    TypeOK /\ SelectionIsListed /\ Kept /\ [Next]_vars => Kept'
<1> SUFFICES ASSUME TypeOK, SelectionIsListed, Kept, [Next]_vars PROVE Kept'
  OBVIOUS
<1>1. CASE Change
  BY <1>1 DEF Change, Kept
<1>2. CASE Reload
  BY <1>2 DEF Reload, Kept, SelectionIsListed
<1>3. ASSUME NEW id \in Id, ToggleGroup(id) PROVE Kept'
  <2>1. known' # None
    BY <1>3 DEF ToggleGroup, TypeOK
  <2>. QED
    BY <2>1 DEF Kept
<1>4. ASSUME NEW chosen \in SUBSET Id, SelectEvery(chosen) PROVE Kept'
  BY <1>4 DEF SelectEvery, Kept
<1>5. ASSUME NEW s \in Slot, LoadGroups(s) \/ Answer(s) \/ LoadFailed(s)
      PROVE  Kept'
  BY <1>5 DEF LoadGroups, Answer, LoadFailed, PageUntouched, Kept
<1>6. ASSUME NEW s \in Slot, Loaded(s) PROVE Kept'
  <2>1. known' # None
    BY <1>6, ReconciledTyped
  <2>. QED
    BY <2>1 DEF Kept
<1>7. CASE UNCHANGED vars
  BY <1>7 DEF vars, Kept
<1>. QED
  BY <1>1, <1>2, <1>3, <1>4, <1>5, <1>6, <1>7 DEF Next

\* The list changes with an answer or with the page, and with nothing else.
LEMMA ListsComeFromLoads ==
    ASSUME TypeOK, [Next]_vars, listed' # listed, reloads' = reloads
    PROVE  \E s \in Slot : Loaded(s)
<1>1. ~Reload
  BY DEF Reload, TypeOK
<1>. QED
  BY <1>1 DEF Next, vars, Change, ToggleGroup, SelectEvery, LoadGroups, Answer,
              LoadFailed, PageUntouched

\* A load of the list ticks what is new and changes no other box (picker.js:
\* reconcileSelection).
THEOREM LoadsKeepChoices == Spec => ChoicesSurviveLoads
<1> DEFINE Step == known # None /\ listed' # listed /\ reloads' = reloads =>
                     /\ selected' \cap listed = selected \cap listed'
                     /\ listed' \ listed \subseteq selected'
<1>1. TypeOK /\ SelectionIsListed /\ [Next]_vars => [Step]_vars
  <2> SUFFICES ASSUME TypeOK, SelectionIsListed, [Next]_vars, known # None,
                      listed' # listed, reloads' = reloads
               PROVE  /\ selected' \cap listed = selected \cap listed'
                      /\ listed' \ listed \subseteq selected'
    OBVIOUS
  <2>1. PICK s \in Slot : Loaded(s)
    BY ListsComeFromLoads
  <2>2. selected' = (selected \cup (out[s].list \ known)) \cap out[s].list
    BY <2>1 DEF Loaded, Surviving, Arriving
  <2>3. listed' = out[s].list /\ known = listed /\ selected \subseteq listed
    BY <2>1, ReconciledTyped DEF SelectionIsListed
  <2>. QED
    BY <2>2, <2>3
<1>. QED
  BY <1>1, TypeCorrect, TickedIsListed, PTL DEF Spec, ChoicesSurviveLoads

\* A group that was listed when the page was left and is on the first list of
\* the next visit is ticked as it was, where the browser remembers anything
\* (picker.js: readStoredSelection, reconcileSelection).
THEOREM ReloadsKeepChoices == Spec => ChoicesSurviveReloads
<1> DEFINE Step == known = None /\ known' # None /\ left # None /\ ~refuses =>
                     selected' \cap left.listed = left.selected \cap listed'
<1>1. Init => Kept
  BY DEF Init, Kept
<1>2. TypeOK /\ Kept /\ [Next]_vars => [Step]_vars
  <2> SUFFICES ASSUME TypeOK, Kept, [Next]_vars, known = None, known' # None,
                      left # None, ~refuses
               PROVE  selected' \cap left.listed = left.selected \cap listed'
    OBVIOUS
  <2>1. PICK s \in Slot : Loaded(s)
    BY DEF Next, vars, Change, Reload, ToggleGroup, SelectEvery, LoadGroups,
           Answer, LoadFailed, PageUntouched
  <2>2. stored # None /\ selected = {}
    BY DEF Kept, TypeOK
  <2>3. selected' = (selected \cup stored) \cap out[s].list
    BY <2>1, <2>2 DEF Loaded, Surviving, Remembered
  <2>4. listed' = out[s].list
    BY <2>1, ReconciledTyped
  <2>. QED
    BY <2>2, <2>3, <2>4 DEF Kept
<1>. QED
  BY <1>1, <1>2, StepKept, TypeCorrect, TickedIsListed, PTL
     DEF Spec, ChoicesSurviveReloads
=============================================================================
