------------------------------- MODULE Pipeline -------------------------------
(***************************************************************************)
(* One render, from the request to the report: start_run and _render of    *)
(* timeslides/api.py, build_report and Fetcher of timeslides/pipeline.py,  *)
(* build_panel of timeslides/report/builder.py and the reference orbits of *)
(* timeslides/physics.py that decide what can be drawn.                    *)
(*                                                                         *)
(* The worker does one step at a time; people save and archive groups      *)
(* meanwhile.  What they do between the reading of the groups and the end  *)
(* of the run is left out: nothing of it is read.  Offsets are left out    *)
(* too: of the values of an element set the model tells apart those that   *)
(* SGP4 refuses at their own epoch (Bad) and those that cannot be carried  *)
(* through the window, so that they anchor no reference orbit (Short).     *)
(***************************************************************************)
EXTENDS Quality, Functions

CONSTANTS Group, Sat,
          Providers,   \* STATE_SOURCES
          Mode,        \* DATA_MODES
          ModeLists,   \* what validate_modes lets through,
          SourceLists, \* and want_sources: some providers, in the order of STATE_SOURCES
          IdLists,     \* requests: groups by id; <<>> is every group that is not archived
          Active,      \* the latter, for the set of them: store.active() in its order
          Contents,    \* what each group can be: [sats, reference]
          Feed,        \* the answers the UDL may give, by object and query
          MaxGroups,   \* MAX_GROUPS_PER_RUN
          Bad, Short

Query == Providers \cup {Elsets}

ASSUME PipelineAssumption ==
    /\ None \notin Query /\ Elsets \notin Providers /\ MaxGroups \in Nat
    /\ ModeLists \subseteq Seq(Mode) \ {<<>>} /\ SourceLists \subseteq Seq(Providers)
    /\ IdLists \subseteq Seq(Group)
    /\ Active \in [SUBSET Group -> Seq(Group)]
    /\ \A g \in Group : \A c \in Contents[g] : c.sats \in Seq(Sat) \ {<<>>}
    /\ Feed \in [Sat -> [Query -> SUBSET Seq(Record)]]

VARIABLES
    phase,     \* the run, see Phase
    store,     \* the groups: [Group -> [sats, reference, archived]]
    spec,      \* RunSpec: [ids, modes, sources]
    groups,    \* those that are read, in the order of spec.ids
    panels,    \* one for each group that could be drawn
    skipped,   \* the others
    key,       \* the object that comes next, by index: <<mode, satellite>>
    answers,   \* what is kept of its queries so far,
    band,      \* and its findings: "none", "note" or "alert"
    cache,     \* Fetcher._cache: objects by <<satellite, mode>>
    \* history
    feuds      \* objects in whose answers two records disagree

job  == <<spec, groups>>
out  == <<panels, skipped>>
work == <<key, answers, band, cache>>
vars == <<phase, store, job, out, work, feuds, quality>>

Phase == {"idle", "queued", "reading", "naming", "fetching", "done", "failed"}

Empty == [k \in {} |-> {}]

\* Of what determines a report: the window, the offsets' sign and the
\* classification are left out.
RunSpec(ids, modes, sources) == [ids |-> ids, modes |-> modes, sources |-> sources]

Saved(c, archived) ==
    [sats |-> c.sats, reference |-> c.reference, archived |-> archived]

Init ==
    /\ phase = "idle"
    /\ store \in {f \in [Group -> {Saved(c, FALSE) : c \in UNION {Contents[g] : g \in Group}}] :
                   \A g \in Group : \E c \in Contents[g] : f[g] = Saved(c, FALSE)}
    /\ spec = RunSpec(<<>>, <<>>, <<>>) /\ groups = <<>>
    /\ panels = <<>> /\ skipped = <<>> /\ feuds = {}
    /\ key = <<1, 1>> /\ answers = <<>> /\ band = "none" /\ cache = Empty
    /\ NoBatch

-----------------------------------------------------------------------------
(***************************************************************************)
(* The request, and the groups it names.                                   *)
(***************************************************************************)
Live(g) == ~store[g].archived

\* Groups are saved and archived at any time.
Edit(g) ==
    /\ phase \notin {"naming", "fetching"}
    /\ \/ Live(g) /\ \E c \in Contents[g] : store' = [store EXCEPT ![g] = Saved(c, FALSE)]
       \/ store' = [store EXCEPT ![g].archived = ~@]
    /\ UNCHANGED <<phase, job, out, work, feuds, quality>>

\* _resolve_groups
Resolved(ids) == IF ids = <<>> THEN Active[{g \in Group : Live(g)}] ELSE ids

\* start_run: it is refused if a group it names is archived, or it has none.
Submit ==
    /\ phase \in {"idle", "done", "failed"} /\ phase' = "queued"
    /\ \E ids \in IdLists, modes \in ModeLists, sources \in SourceLists :
          /\ Resolved(ids) # <<>> /\ \A g \in Range(Resolved(ids)) : Live(g)
          /\ spec' = RunSpec(Resolved(ids), modes, sources)
    /\ groups' = <<>> /\ panels' = <<>> /\ skipped' = <<>> /\ feuds' = {}
    /\ UNCHANGED <<store, work, quality>>

\* The worker takes the run, and _render reads one group after the other, archived
\* by now or not.
Take ==
    /\ phase = "queued" /\ phase' = "reading"
    /\ UNCHANGED <<store, job, out, work, feuds, quality>>

ReadGroup ==
    /\ phase = "reading" /\ Len(groups) < Len(spec.ids)
    /\ groups' = Append(groups, store[spec.ids[Len(groups) + 1]])
    /\ UNCHANGED <<phase, store, spec, out, work, feuds, quality>>

\* The run leaves nothing behind but its outcome.
Drop ==
    /\ key' = <<1, 1>> /\ answers' = <<>> /\ band' = "none" /\ cache' = Empty
    /\ OpenBatch(None, <<>>)
    /\ UNCHANGED <<store, job, feuds>>

Fail == phase' = "failed" /\ panels' = <<>> /\ skipped' = <<>> /\ Drop

\* build_report: there is a limit to the groups of a run, and the names of the
\* objects come from the UDL, which may not answer.
BuildReport ==
    /\ phase = "reading" /\ Len(groups) = Len(spec.ids)
    /\ IF Len(groups) > MaxGroups
       THEN Fail
       ELSE phase' = "naming" /\ UNCHANGED <<store, job, out, work, feuds, quality>>

Names ==
    /\ phase = "naming" /\ phase' = "fetching"
    /\ UNCHANGED <<store, job, out, work, feuds, quality>>

-----------------------------------------------------------------------------
(***************************************************************************)
(* Fetching: Fetcher.get for every mode and object of the group that is    *)
(* next, one query for each provider and one for the element sets.         *)
(***************************************************************************)
Turn  == Len(panels) + Len(skipped) + 1
Sats  == groups[Turn].sats
Sought == <<Sats[key[2]], spec.modes[key[1]]>>
Queries == Append(spec.sources, Elsets)

Fetching == phase = "fetching" /\ Turn <= Len(groups) /\ key[1] <= Len(spec.modes)

\* Mutant: the next mode is never reached.
Straight == <<key[1], key[2] + 1>>

NextKey == IF key[2] < Len(Sats) THEN <<key[1], key[2] + 1>> ELSE <<key[1] + 1, 1>>

\* Mutant: nothing is found in the cache.
Missed == FALSE

Hit == Sought \in DOMAIN cache

Cached ==
    /\ Fetching /\ Hit /\ answers = <<>> /\ query = None
    /\ key' = NextKey
    /\ UNCHANGED <<phase, store, job, out, answers, band, cache, feuds, quality>>

Ask ==
    /\ Fetching /\ ~Hit /\ query = None /\ Len(answers) < Len(Queries)
    /\ LET q == Queries[Len(answers) + 1]
       IN  \E records \in Feed[Sought[1]][q] :
             /\ OpenBatch(q, records)
             /\ feuds' = IF Disagree(q, records, Len(records)) THEN feuds \cup {Sought}
                                                               ELSE feuds
    /\ UNCHANGED <<phase, store, job, out, work>>

\* dedupe or dedupe_mixed, record by record
Sift == Consider /\ UNCHANGED <<phase, store, job, out, work, feuds>>

\* Mutant: a later answer without a conflict hides an earlier one.
LastBand == IF conflicts > 0 THEN "alert" ELSE IF dups > 0 THEN "note" ELSE "none"

NewBand ==
    IF conflicts > 0 \/ band = "alert" THEN "alert"
    ELSE IF dups > 0 THEN "note" ELSE band

Collect ==
    /\ query # None /\ at > Len(batch)
    /\ answers' = Append(answers, kept) /\ band' = NewBand
    /\ OpenBatch(None, <<>>)
    /\ UNCHANGED <<phase, store, job, out, key, cache, feuds>>

Keep ==
    /\ Fetching /\ ~Hit /\ query = None /\ Len(answers) = Len(Queries)
    /\ cache' = [k \in DOMAIN cache \cup {Sought} |->
                   IF k = Sought THEN [series |-> answers, band |-> band] ELSE cache[k]]
    /\ answers' = <<>> /\ band' = "none"
    /\ UNCHANGED <<phase, store, job, out, key, feuds, quality>>

\* A request to the UDL fails, and the run with it.  Other exceptions, while a
\* panel is drawn, are left out.
Raises ==
    /\ phase = "naming" \/ (Fetching /\ ~Hit /\ query = None /\ Len(answers) < Len(Queries))
    /\ Fail

-----------------------------------------------------------------------------
(***************************************************************************)
(* Drawing: build_panel, when all objects of the group are there.          *)
(***************************************************************************)
Objects(g) == Range(g.sats)

Elements(s, m) == cache[<<s, m>>].series[Len(Queries)]

\* _has_source, for any of them
Present(g) ==
    \E s \in Objects(g), m \in Range(spec.modes), j \in 1 .. Len(Queries) :
        cache[<<s, m>>].series[j] # {}

\* reference_satrec takes one of the latest element sets.  Of several sources that
\* have one at that epoch it depends on the order of arrival whose it is.
Latest(s, m) == {p \in Elements(s, m) : \A o \in Elements(s, m) : o.epoch <= p.epoch}

\* propagate raises for an element set that SGP4 refuses at its own epoch, and
\* propagate_batch for one that does not reach through the window.
Refused(p) == p.value = Bad
Carried(p) == p.value # Short

\* compute_series: one refused element set leaves the object without a series,
Propagates(s, m) == \A p \in Elements(s, m) : ~Refused(p)

\* and one object without leaves none of the references of the mode a dataset.
Drawable(g, m) == \A s \in Objects(g) : Propagates(s, m)

\* _mode_dataset: what the references of mode m can be.
References(g, m) ==
    IF ~Drawable(g, m) THEN {{}}
    ELSE LET may  == {s \in Objects(g) : \E p \in Latest(s, m) : Carried(p)}
             must == {s \in may : \A p \in Latest(s, m) : Carried(p)}
         IN  {refs \in SUBSET may : must \subseteq refs}

\* The reference of the group.  Mutant of DefaultRef: whether there is data or not.
GroupReference(g, refs) == IF g.reference \in Objects(g) THEN g.reference ELSE g.sats[1]

Usable(refs)      == {i \in DOMAIN refs : refs[i] # {}}
DefaultMode(refs) == CHOOSE i \in Usable(refs) : \A j \in Usable(refs) : i <= j
DefaultRef(g, refs) ==
    IF GroupReference(g, refs) \in refs THEN GroupReference(g, refs)
    ELSE g.sats[CHOOSE j \in DOMAIN g.sats :
                   g.sats[j] \in refs /\ \A i \in DOMAIN g.sats : g.sats[i] \in refs => j <= i]

\* _quality_findings and the band that tells of them
Band(g) ==
    LET Finds(b) == \E s \in Objects(g), m \in Range(spec.modes) : cache[<<s, m>>].band = b
    IN  IF Finds("alert") THEN "alert" ELSE IF Finds("note") THEN "note" ELSE "none"

\* Mutant: plotly comes with the first group instead of the first panel.
WithFirstGroup == Turn = 1

WithPlotly == panels = <<>>

AllFetched == phase = "fetching" /\ Turn <= Len(groups) /\ key[1] > Len(spec.modes)

Panel ==
    /\ AllFetched /\ Present(groups[Turn])
    /\ \E refs \in [1 .. Len(spec.modes) -> SUBSET Objects(groups[Turn])] :
          /\ \A i \in DOMAIN refs : refs[i] \in References(groups[Turn], spec.modes[i])
          /\ Usable(refs) # {}
          /\ panels' = Append(panels,
               [of |-> Turn, id |-> Len(panels), plotly |-> WithPlotly,
                band |-> Band(groups[Turn]), refs |-> refs, mode |-> DefaultMode(refs),
                ref |-> DefaultRef(groups[Turn], refs[DefaultMode(refs)])])
    /\ key' = <<1, 1>>
    /\ UNCHANGED <<phase, store, job, skipped, answers, band, cache, feuds, quality>>

\* build_panel raises ComputeError: no data, or none that can be drawn.
Skip ==
    /\ AllFetched
    /\ Present(groups[Turn]) =>
         \A i \in 1 .. Len(spec.modes) : {} \in References(groups[Turn], spec.modes[i])
    /\ skipped' = Append(skipped, Turn) /\ key' = <<1, 1>>
    /\ UNCHANGED <<phase, store, job, panels, answers, band, cache, feuds, quality>>

Finish ==
    /\ phase = "fetching" /\ Turn > Len(groups)
    /\ IF panels = <<>> THEN Fail ELSE phase' = "done" /\ UNCHANGED out /\ Drop

Next ==
    \/ \E g \in Group : Edit(g)
    \/ Submit \/ Take \/ ReadGroup \/ BuildReport \/ Names
    \/ Cached \/ Ask \/ Sift \/ Collect \/ Keep \/ Raises
    \/ Panel \/ Skip \/ Finish

Spec == Init /\ [][Next]_vars

-----------------------------------------------------------------------------
(***************************************************************************)
(* Properties.                                                             *)
(***************************************************************************)
Points == [label : Query \cup {None, Unattributed} \cup {r.source : r \in Record},
           epoch : Nat, value : {r.value : r \in Record}, created : Nat]

\* Every variable holds a value of its kind.
TypeOK ==
    /\ phase \in Phase
    /\ DOMAIN store = Group
    /\ \A g \in Group : \E c \in Contents[g], b \in BOOLEAN :
          store[g] = Saved(c, b)
    /\ spec \in [ids : Seq(Group), modes : ModeLists \cup {<<>>},
                 sources : SourceLists \cup {<<>>}]
    /\ key \in (Nat \ {0}) \X (Nat \ {0}) /\ (Fetching => key[2] <= Len(Sats))
    /\ band \in {"none", "note", "alert"}
    /\ query \in Query \cup {None} /\ at \in Nat \ {0} /\ at <= Len(batch) + 1
    /\ kept \subseteq Points /\ dups \in Nat /\ conflicts \in Nat
    /\ feuds \subseteq Sat \X Mode /\ DOMAIN cache \subseteq Sat \X Mode

\* Every group of the request is drawn or skipped, once and in its turn, an archived
\* one too; the panels are numbered without a gap and the first of them, whichever
\* group it is of, brings plotly (pipeline.py:147-182, api.py:93, builder.py:344-383).
GroupsAccountedFor ==
    /\ {panels[j].of : j \in DOMAIN panels} \cup Range(skipped) = 1 .. Turn - 1
    /\ \A j, k \in DOMAIN panels : j < k => panels[j].of < panels[k].of
    /\ \A j \in DOMAIN panels : panels[j].id = j - 1 /\ (panels[j].plotly <=> j = 1)
    /\ phase = "done" => panels # <<>> /\ Len(panels) + Len(skipped) = Len(spec.ids)

\* The report says that records disagree exactly if some did that were fetched for
\* the group, in any mode and by any query, also when the object was fetched for an
\* earlier group (builder.py:407-418, 444-467).
DisagreementsAreShown ==
    \A j \in DOMAIN panels : panels[j].band = "alert" <=>
        \E s \in Objects(groups[panels[j].of]), m \in Range(spec.modes) : <<s, m>> \in feuds

\* What a panel opens with is there: its mode has references and its reference is
\* one of them, though modes and references without data are left out
\* (builder.py:327-359).
DefaultsAreDrawn ==
    \A j \in DOMAIN panels :
        /\ panels[j].mode \in DOMAIN panels[j].refs
        /\ panels[j].ref \in panels[j].refs[panels[j].mode]

\* An object that is in several groups is the same in all of them: what was fetched
\* is not fetched again in the run, although the UDL may answer otherwise by now
\* (pipeline.py:97-100, 130).
SameObjectSameData ==
    [][\A k \in DOMAIN cache \cap DOMAIN cache' : cache'[k] = cache[k]]_vars
=============================================================================
