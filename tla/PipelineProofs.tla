---------------------------- MODULE PipelineProofs ----------------------------
(***************************************************************************)
(* Proofs about Pipeline, for any groups, objects, modes, providers and    *)
(* answers of the UDL.                                                     *)
(***************************************************************************)
EXTENDS Pipeline, FiniteSetTheorems, SequenceTheorems, WellFoundedInduction, TLAPS

-----------------------------------------------------------------------------
(***************************************************************************)
(* The loop over one answer.                                               *)
(***************************************************************************)
\* The record that is kept at a place stands for all those considered there.
Kept ==
    /\ kept \subseteq Considered /\ IsFiniteSet(kept)
    /\ \A x \in Considered : \E p \in kept : Spot(p) = Spot(x)

\* No conflict was counted exactly if the values agreed.
Counted ==
    /\ conflicts = 0 => \A x \in Considered, p \in kept : Spot(p) = Spot(x) => p.value = x.value
    /\ conflicts > 0 => Disagree(query, batch, at - 1)

LoopTyped ==
    /\ query \in Query \cup {None} /\ batch \in Seq(Record)
    /\ at \in Nat \ {0} /\ at <= Len(batch) + 1
    /\ dups \in Nat /\ conflicts \in Nat
    /\ query = None => batch = <<>>

LoopInv == LoopTyped /\ Kept /\ Counted /\ NothingIsLost /\ NewestIsKept

LEMMA OpenLoop ==
    ASSUME NEW q \in Query \cup {None}, NEW records \in Seq(Record),
           q = None => records = <<>>, OpenBatch(q, records)
    PROVE  LoopInv'
  <1>1. LoopTyped'
    BY DEF LoopTyped, OpenBatch
  <1>2. Considered' = {} /\ kept' = {} /\ conflicts' = 0 /\ dups' = 0 /\ at' = 1
    BY DEF Considered, OpenBatch
  <1>3. Kept'
    BY <1>2, FS_EmptySet DEF Kept
  <1>4. Counted'
    BY <1>2 DEF Counted
  <1>5. NothingIsLost'
    BY <1>2, FS_EmptySet DEF NothingIsLost
  <1>6. NewestIsKept'
    BY <1>2 DEF NewestIsKept
  <1> QED BY <1>1, <1>3, <1>4, <1>5, <1>6 DEF LoopInv

LEMMA SameLoop == ASSUME LoopInv, UNCHANGED quality PROVE LoopInv'
  <1>1. Considered' = Considered
    BY DEF Considered, quality
  <1> QED
    BY <1>1 DEF LoopInv, LoopTyped, Kept, Counted, NothingIsLost, NewestIsKept, StampsAgree,
                Disagree, quality

\* One turn adds the record it looks at to those that are considered.
LEMMA OneMore ==
    ASSUME LoopTyped, Consider
    PROVE  /\ Considered' = Considered \cup {Current}
           /\ at - 1 \in Nat /\ at \in DOMAIN batch /\ batch[at] \in Record
           /\ Current \in [label : {Label(query, batch[at])}, epoch : Nat,
                           value : {batch[at].value}, created : Nat]
  <1>1. at - 1 \in Nat /\ at \in 1 .. Len(batch) /\ batch[at] \in Record
    BY DEF LoopTyped, Consider
  <1>2. 1 .. at' - 1 = (1 .. at - 1) \cup {at}
    BY <1>1 DEF Consider, LoopTyped
  <1>3. Considered' = Considered \cup {Current}
    BY <1>2 DEF Considered, Current, Consider
  <1>4. Current \in [label : {Label(query, batch[at])}, epoch : Nat,
                     value : {batch[at].value}, created : Nat]
    BY <1>1, QualityAssumption DEF Current, Point
  <1> QED BY <1>1, <1>3, <1>4, LenProperties DEF LoopTyped

\* The points that are considered have an epoch and a stamp.
LEMMA PointsAreTyped ==
    ASSUME LoopTyped
    PROVE  \A x \in Considered : x.epoch \in Nat /\ x.created \in Nat
  <1> SUFFICES ASSUME NEW j \in 1 .. at - 1
               PROVE  Point(query, batch[j]).epoch \in Nat /\ Point(query, batch[j]).created \in Nat
    BY DEF Considered
  <1>1. batch[j] \in Record
    BY DEF LoopTyped
  <1> QED BY <1>1, QualityAssumption DEF Point

LEMMA OneMoreKept ==
    ASSUME LoopInv, Consider
    PROVE  Kept' /\ NothingIsLost'
  <1>1. /\ Considered' = Considered \cup {Current} /\ at' = at + 1 /\ at \in Nat /\ at - 1 \in Nat
        /\ IsFiniteSet(kept) /\ kept \subseteq Considered
        /\ Cardinality(kept) + dups + conflicts = at - 1
        /\ dups \in Nat /\ conflicts \in Nat
    BY OneMore DEF LoopInv, LoopTyped, Kept, NothingIsLost, Consider
  <1>2. Cardinality(kept) \in Nat
    BY <1>1, FS_CardinalityType
  <1>3. CASE First
    <2>1. Current \notin kept /\ kept' = kept \cup {Current} /\ dups' = dups /\ conflicts' = conflicts
      BY <1>3 DEF First
    <2>2. IsFiniteSet(kept') /\ Cardinality(kept') = Cardinality(kept) + 1
      BY <2>1, <1>1, FS_AddElement
    <2>3. Kept'
      BY <2>1, <2>2, <1>1 DEF Kept, LoopInv
    <2>4. \A x, y \in kept' : Spot(x) = Spot(y) => x = y
      BY <2>1, <1>3 DEF First, LoopInv, NothingIsLost
    <2> QED BY <2>1, <2>2, <2>3, <2>4, <1>1, <1>2 DEF NothingIsLost
  <1>4. CASE Repeated
    <2>1. kept' = kept /\ dups' = dups + 1 /\ conflicts' = conflicts
      BY <1>4 DEF Repeated
    <2>2. \E p \in kept : Spot(p) = Spot(Current)
      BY <1>4 DEF Repeated
    <2>3. Kept'
      BY <2>1, <2>2, <1>1 DEF Kept, LoopInv
    <2> QED BY <2>1, <2>3, <1>1, <1>2 DEF NothingIsLost, LoopInv
  <1>5. CASE Disputed
    <2>1. PICK p \in kept : /\ Spot(p) = Spot(Current) /\ p.value # Current.value
                            /\ conflicts' = conflicts + 1 /\ dups' = dups
                            /\ kept' = IF Current.created > p.created THEN Replaced(p) ELSE kept
      BY <1>5 DEF Disputed
    <2>2. \A o \in kept : Spot(o) = Spot(Current) => o = p
      BY <2>1 DEF LoopInv, NothingIsLost
    <2>3. CASE kept' = kept
      BY <2>1, <2>3, <1>1, <1>2 DEF Kept, NothingIsLost, LoopInv
    <2>4. CASE kept' = (kept \ {p}) \cup {Current}
      <3>1. Current \notin kept \ {p}
        BY <2>2
      <3>2. IsFiniteSet(kept \ {p}) /\ Cardinality(kept \ {p}) = Cardinality(kept) - 1
        BY <1>1, FS_RemoveElement
      <3>3. IsFiniteSet(kept') /\ Cardinality(kept') = Cardinality(kept)
        BY <3>1, <3>2, <2>4, <1>2, FS_AddElement
      <3>4. \A x \in Considered' : \E o \in kept' : Spot(o) = Spot(x)
        <4>1. SUFFICES ASSUME NEW x \in Considered', Spot(x) # Spot(Current)
                       PROVE  \E o \in kept' : Spot(o) = Spot(x)
          BY <2>4
        <4>2. PICK o \in kept : Spot(o) = Spot(x)
          BY <4>1, <1>1 DEF LoopInv, Kept
        <4> QED BY <4>1, <4>2, <2>4, <2>1
      <3>5. \A x, y \in kept' : Spot(x) = Spot(y) => x = y
        BY <2>1, <2>2, <2>4 DEF LoopInv, NothingIsLost
      <3>6. Kept'
        BY <3>3, <3>4, <2>4, <1>1 DEF Kept
      <3> QED BY <3>3, <3>5, <3>6, <2>1, <1>1, <1>2 DEF NothingIsLost
    <2> QED BY <2>1, <2>3, <2>4 DEF Replaced
  <1> QED BY <1>3, <1>4, <1>5 DEF Consider

LEMMA OneMoreCounted ==
    ASSUME LoopInv, Consider
    PROVE  Counted'
  <1>1. /\ Considered' = Considered \cup {Current} /\ at' = at + 1 /\ at - 1 \in Nat /\ at \in Nat
        /\ conflicts \in Nat /\ query' = query /\ batch' = batch /\ kept \subseteq Considered
    BY OneMore DEF LoopInv, LoopTyped, Kept, Consider
  <1>2. Disagree(query, batch, at - 1) => Disagree(query', batch', at' - 1)
    BY <1>1 DEF Disagree
  <1>3. CASE First
    <2>1. kept' = kept \cup {Current} /\ conflicts' = conflicts
      BY <1>3 DEF First
    <2>2. \A x \in Considered : Spot(x) # Spot(Current)
      BY <1>3 DEF First, LoopInv, Kept
    <2> QED BY <2>1, <2>2, <1>1, <1>2 DEF Counted, LoopInv
  <1>4. CASE Repeated
    <2>1. /\ kept' = kept /\ conflicts' = conflicts
          /\ \E p \in kept : Spot(p) = Spot(Current) /\ p.value = Current.value
      BY <1>4 DEF Repeated
    <2>2. \A o \in kept : Spot(o) = Spot(Current) => o.value = Current.value
      BY <2>1 DEF LoopInv, NothingIsLost
    <2> QED BY <2>1, <2>2, <1>1, <1>2 DEF Counted, LoopInv
  <1>5. CASE Disputed
    <2>1. PICK p \in kept : /\ Spot(p) = Spot(Current) /\ p.value # Current.value
                            /\ conflicts' = conflicts + 1
      BY <1>5 DEF Disputed
    <2>2. PICK j \in 1 .. at - 1 : p = Point(query, batch[j])
      BY <2>1, <1>1 DEF Considered
    <2>3. p.value = batch[j].value /\ Current.value = batch[at].value
      BY <2>2 DEF Current, Point
    <2>4. Disagree(query', batch', at' - 1)
      <3>1. j \in 1 .. at /\ at \in 1 .. at /\ at' - 1 = at
        BY <1>1
      <3> QED BY <3>1, <2>1, <2>2, <2>3, <1>1 DEF Disagree, Current
    <2> QED BY <2>1, <2>4, <1>1 DEF Counted
  <1> QED BY <1>3, <1>4, <1>5 DEF Consider

\* A point of the same place that is the same record, or was created later, or
\* was kept for want of anything that decides.
Beats(p, x) ==
    /\ Spot(p) = Spot(x) /\ p.created >= x.created
    /\ p.value # x.value /\ Spot(x) \notin arbitrary => p.created > x.created

LEMMA OneMoreNewest ==
    ASSUME LoopInv, Consider
    PROVE  NewestIsKept'
  <1>c. PICK c : c = Current
    OBVIOUS
  <1>1. /\ Considered' = Considered \cup {c} /\ kept \subseteq Considered
        /\ c.epoch \in Nat /\ c.created \in Nat
        /\ \A x \in Considered : x.epoch \in Nat /\ x.created \in Nat
        /\ \A x, y \in kept : Spot(x) = Spot(y) => x = y
    <2>1. LoopTyped /\ kept \subseteq Considered
      BY DEF LoopInv, Kept
    <2> QED BY <2>1, <1>c, OneMore, PointsAreTyped DEF LoopInv, NothingIsLost
  <1>2. SUFFICES ASSUME StampsAgree'
                 PROVE  \A x \in Considered' : \E p \in kept' : Beats(p, x)'
    BY DEF NewestIsKept, Beats
  <1>3. StampsAgree
    BY <1>1, <1>2 DEF StampsAgree
  <1>4. \A x \in Considered : \E p \in kept : Beats(p, x)
    BY <1>3 DEF LoopInv, NewestIsKept, Beats
  <1>5. \A x, y \in Considered' : Spot(x) = Spot(y) /\ x.value = y.value => x = y
    BY <1>2 DEF StampsAgree
  <1>6. CASE First
    <2>1. kept' = kept \cup {c} /\ arbitrary' = arbitrary
      BY <1>6, <1>c DEF First
    <2>3. \A x \in Considered, p \in kept : Beats(p, x) => Beats(p, x)'
      BY <2>1 DEF Beats
    <2>4. \A x \in Considered : \E p \in kept' : Beats(p, x)'
      BY <2>1, <2>3, <1>4
    <2>5. \A x : x = c => \E p \in kept' : Beats(p, x)'
      <3>1. \A x : x = c => Beats(c, x)'
        BY <1>1 DEF Beats
      <3> QED BY <3>1, <2>1
    <2> QED BY <2>4, <2>5, <1>1
  <1>7. CASE Repeated
    <2>1. kept' = kept /\ arbitrary' = arbitrary /\ c \in kept
      BY <1>7, <1>c, <1>1, <1>5 DEF Repeated
    <2>2. \A x \in Considered' : x \in Considered
      BY <2>1, <1>1
    <2>3. \A x \in Considered, p \in kept : Beats(p, x) => Beats(p, x)'
      BY <2>1 DEF Beats
    <2> QED BY <2>1, <2>2, <2>3, <1>4
  <1>8. CASE Disputed
    <2>1. PICK p \in kept : /\ Spot(p) = Spot(c) /\ p.value # c.value
                            /\ kept' = IF c.created > p.created THEN Replaced(p) ELSE kept
                            /\ arbitrary' = IF Undecided(p) THEN arbitrary \cup {Spot(p)}
                                                            ELSE arbitrary
      BY <1>8, <1>c DEF Disputed
    <2>2. \A o \in kept : Spot(o) = Spot(c) => o = p
      BY <2>1, <1>1
    <2>3. p.created \in Nat
      BY <1>1
    <2>4. arbitrary \subseteq arbitrary'
      BY <2>1
    <2>5. \A x \in Considered, o \in kept : Beats(o, x) => Beats(o, x)'
      BY <2>4 DEF Beats
    <2>6. CASE c.created > p.created
      <3>1. kept' = (kept \ {p}) \cup {c}
        BY <2>1, <2>6, <1>c DEF Replaced
      <3>2. ASSUME NEW x \in Considered', Spot(x) = Spot(c) PROVE Beats(c, x)'
        <4>1. CASE x \in Considered
          <5>1. PICK o \in kept : Beats(o, x)
            BY <1>4, <4>1
          <5>2. o = p
            BY <5>1, <3>2, <2>2 DEF Beats
          <5>3. c.created > x.created
            BY <5>1, <5>2, <2>6, <2>3, <1>1, <4>1 DEF Beats
          <5> QED BY <5>3, <3>2, <1>1, <4>1 DEF Beats
        <4>2. CASE x = c
          BY <4>2, <1>1 DEF Beats
        <4> QED BY <4>1, <4>2, <1>1
      <3>3. ASSUME NEW x \in Considered', Spot(x) # Spot(c)
            PROVE  \E o \in kept' : Beats(o, x)'
        <4>1. x \in Considered
          BY <3>3, <1>1
        <4>2. PICK o \in kept : Beats(o, x)
          BY <1>4, <4>1
        <4>3. o # p
          BY <4>2, <3>3, <2>1 DEF Beats
        <4> QED BY <4>1, <4>2, <4>3, <3>1, <2>5
      <3> QED BY <3>1, <3>2, <3>3
    <2>7. CASE ~(c.created > p.created)
      <3>1. kept' = kept
        BY <2>1, <2>7
      <3>2. \A x \in Considered : \E o \in kept' : Beats(o, x)'
        BY <3>1, <2>5, <1>4
      <3>3. ASSUME NEW x, x = c PROVE Beats(p, x)'
        <4>1. p.created >= x.created /\ Spot(p) = Spot(x)
          BY <2>7, <2>3, <1>1, <2>1, <3>3
        <4>2. CASE Undecided(p)
          BY <4>1, <4>2, <2>1 DEF Beats
        <4>3. CASE ~Undecided(p)
          <5>1. p.created > x.created
            BY <4>1, <4>3, <3>3, <2>3, <1>1, <1>c DEF Undecided
          <5> QED BY <4>1, <5>1 DEF Beats
        <4> QED BY <4>2, <4>3
      <3> QED BY <3>1, <3>2, <3>3, <1>1
    <2> QED BY <2>6, <2>7
  <1> QED BY <1>6, <1>7, <1>8 DEF Consider

LEMMA OneMoreLoop == ASSUME LoopInv, Consider PROVE LoopInv'
  <1>1. LoopTyped'
    <2>1. LoopTyped
      BY DEF LoopInv
    <2>2. dups' \in Nat /\ conflicts' \in Nat
      BY <2>1 DEF LoopTyped, Consider, First, Repeated, Disputed
    <2> QED BY <2>1, <2>2 DEF LoopTyped, Consider
  <1> QED BY <1>1, OneMoreKept, OneMoreCounted, OneMoreNewest DEF LoopInv

\* What is counted tells whether the records agree.
LEMMA ConflictsTell ==
    ASSUME LoopInv
    PROVE  conflicts > 0 <=> Disagree(query, batch, at - 1)
  <1>1. conflicts \in Nat
    BY DEF LoopInv, LoopTyped
  <1>2. SUFFICES ASSUME conflicts = 0 PROVE ~Disagree(query, batch, at - 1)
    BY <1>1 DEF LoopInv, Counted
  <1>3. SUFFICES ASSUME NEW j \in 1 .. at - 1, NEW k \in 1 .. at - 1,
                        Spot(Point(query, batch[j])) = Spot(Point(query, batch[k]))
                 PROVE  batch[j].value = batch[k].value
    BY DEF Disagree
  <1> DEFINE x == Point(query, batch[j])
             y == Point(query, batch[k])
  <1>4. x \in Considered /\ y \in Considered /\ x.value = batch[j].value /\ y.value = batch[k].value
    BY DEF Considered, Point
  <1>5. Spot(x) = Spot(y)
    BY <1>3
  <1> HIDE DEF x, y
  <1> QED BY <1>2, <1>4, <1>5 DEF LoopInv, Counted, Kept

-----------------------------------------------------------------------------
(***************************************************************************)
(* Where the run is: what is read, and what a phase leaves empty.          *)
(***************************************************************************)
Content == UNION {Contents[g] : g \in Group}
Stored  == {Saved(c, b) : c \in Content, b \in BOOLEAN}

\* A sequence, whatever it is of.
IsSeq(s) == s \in Seq(Range(s))

LEMMA EmptyIsSeq == IsSeq(<<>>)
  BY EmptySeq DEF IsSeq, Range

LEMMA Appended ==
    ASSUME NEW s, IsSeq(s), NEW e
    PROVE  /\ Len(s) \in Nat /\ DOMAIN s = 1 .. Len(s)
           /\ IsSeq(Append(s, e)) /\ Len(Append(s, e)) = Len(s) + 1
           /\ DOMAIN Append(s, e) = 1 .. Len(s) + 1
           /\ \A j \in 1 .. Len(s) : Append(s, e)[j] = s[j]
           /\ Append(s, e)[Len(s) + 1] = e
  <1> DEFINE T == Range(s) \cup {e}
  <1>1. Len(s) \in Nat /\ DOMAIN s = 1 .. Len(s) /\ s \in [1 .. Len(s) -> Range(s)]
    BY LenProperties DEF IsSeq
  <1>2. s \in [1 .. Len(s) -> T]
    BY <1>1
  <1>3. s \in Seq(T)
    BY <1>1, <1>2
  <1>4. e \in T
    OBVIOUS
  <1> HIDE DEF T
  <1> DEFINE a == Append(s, e)
  <1>5. /\ a \in Seq(T) /\ Len(a) = Len(s) + 1
        /\ \A j \in 1 .. Len(s) : a[j] = s[j]
        /\ a[Len(s) + 1] = e
    BY <1>3, <1>4, AppendProperties
  <1>6. a \in [1 .. Len(a) -> T] /\ DOMAIN a = 1 .. Len(a)
    BY <1>5, LenProperties
  <1>7. a \in [1 .. Len(a) -> Range(a)]
    BY <1>6 DEF Range
  <1> HIDE DEF a
  <1>8. a \in Seq(Range(a))
    BY <1>7, <1>5, <1>1
  <1> USE DEF a
  <1> QED BY <1>1, <1>5, <1>6, <1>8 DEF IsSeq

RunTyped ==
    /\ phase \in Phase /\ band \in {"none", "note", "alert"}
    /\ store \in [Group -> Stored]
    /\ \A g \in Group : \E c \in Contents[g], b \in BOOLEAN :
          store[g] = Saved(c, b)
    /\ spec \in [ids : Seq(Group), modes : ModeLists \cup {<<>>}, sources : SourceLists \cup {<<>>}]
    /\ groups \in Seq(Stored)
    /\ IsSeq(panels) /\ IsSeq(skipped) /\ IsSeq(answers)
    /\ key \in (Nat \ {0}) \X (Nat \ {0})
    /\ feuds \subseteq Sat \X Mode /\ DOMAIN cache \subseteq Sat \X Mode

\* What a phase has, and what it has not begun.
Stages ==
    /\ phase # "idle" => spec.modes # <<>>
    /\ phase = "queued" => groups = <<>>
    /\ phase \in {"naming", "fetching", "done"} => Len(groups) = Len(spec.ids)
    /\ phase \in {"idle", "queued", "reading", "naming", "failed"} =>
          panels = <<>> /\ skipped = <<>>
    /\ phase # "fetching" => key = <<1, 1>> /\ cache = Empty
    /\ phase = "fetching" => Turn <= Len(groups) + 1
    /\ phase = "done" => panels # <<>> /\ Turn = Len(groups) + 1
    /\ Fetching => key[2] <= Len(Sats)
    /\ phase \in {"idle", "queued", "reading", "naming"} => feuds = {}

\* An object is worked on only while it is fetched and not in the cache.
Object ==
    /\ query # None => Fetching /\ ~Hit
    /\ ~(Fetching /\ ~Hit) => answers = <<>> /\ band = "none"

RunInv == RunTyped /\ Stages /\ Object /\ LoopInv

LEMMA SavedIsStored == \A c \in Content, b \in BOOLEAN : Saved(c, b) \in Stored
  <1> SUFFICES ASSUME NEW c \in Content, NEW b \in BOOLEAN PROVE Saved(c, b) \in Stored
    OBVIOUS
  <1> QED BY DEF Stored

LEMMA StoredGroup ==
    ASSUME NEW x \in Stored
    PROVE  /\ x.sats \in Seq(Sat) \ {<<>>} /\ Len(x.sats) \in Nat \ {0} /\ x.sats[1] \in Sat
           /\ \A j \in 1 .. Len(x.sats) : x.sats[j] \in Sat
           /\ DOMAIN x.sats = 1 .. Len(x.sats) /\ Objects(x) \subseteq Sat
  <1>1. PICK c \in Content, b \in BOOLEAN :
           x = Saved(c, b)
    BY DEF Stored
  <1>2. x.sats = c.sats
    BY <1>1 DEF Saved
  <1>3. x.sats \in Seq(Sat) \ {<<>>}
    BY <1>1, <1>2, PipelineAssumption DEF Content
  <1>4. Len(x.sats) \in Nat \ {0} /\ DOMAIN x.sats = 1 .. Len(x.sats)
    BY <1>3, LenProperties, EmptySeq
  <1> QED BY <1>3, <1>4 DEF Objects, Range

\* While the run fetches there is a group whose turn it is, and an object of it.
LEMMA FetchingNames ==
    ASSUME RunTyped, Stages, phase = "fetching", Turn <= Len(groups)
    PROVE  /\ Turn \in 1 .. Len(groups) /\ groups[Turn] \in Stored
           /\ Sats \in Seq(Sat) /\ Len(Sats) \in Nat \ {0}
           /\ spec.modes \in Seq(Mode) /\ Len(spec.modes) \in Nat \ {0}
           /\ Fetching => /\ Sought \in Sat \X Mode
                          /\ key[1] \in 1 .. Len(spec.modes) /\ key[2] \in 1 .. Len(Sats)
  <1>1. Turn \in 1 .. Len(groups) /\ groups[Turn] \in Stored
    BY Appended DEF RunTyped, Turn
  <1>2. Sats \in Seq(Sat) /\ Len(Sats) \in Nat \ {0}
    BY <1>1, StoredGroup DEF Sats
  <1>3. spec.modes \in Seq(Mode) /\ Len(spec.modes) \in Nat \ {0}
    BY PipelineAssumption, LenProperties, EmptySeq DEF RunTyped, Stages
  <1>4. ASSUME Fetching PROVE key[1] \in 1 .. Len(spec.modes) /\ key[2] \in 1 .. Len(Sats)
    BY <1>2, <1>3, <1>4 DEF Fetching, RunTyped, Stages
  <1>5. ASSUME Fetching PROVE Sought \in Sat \X Mode
    BY <1>2, <1>3, <1>4, <1>5 DEF Sought
  <1> QED BY <1>1, <1>2, <1>3, <1>4, <1>5

LEMMA InitRun == Init => RunInv
  <1> SUFFICES ASSUME Init PROVE RunInv
    OBVIOUS
  <1>1. PICK f \in [Group -> {Saved(c, FALSE) : c \in Content}] :
           store = f /\ \A g \in Group : \E c \in Contents[g] : f[g] = Saved(c, FALSE)
    BY DEF Init, Content
  <1>2. {Saved(c, FALSE) : c \in Content} \subseteq Stored
    BY SavedIsStored
  <1>3. store \in [Group -> Stored]
    BY <1>1, <1>2
  <1>4. \A g \in Group : \E c \in Contents[g], b \in BOOLEAN :
           store[g] = Saved(c, b)
    BY <1>1
  <1>5. /\ DOMAIN cache = {} /\ phase = "idle" /\ query = None
        /\ panels = <<>> /\ skipped = <<>> /\ groups = <<>> /\ answers = <<>> /\ key = <<1, 1>>
    BY DEF Init, Empty, NoBatch
  <1>6. RunTyped
    BY <1>3, <1>4, <1>5, EmptySeq, EmptyIsSeq DEF Init, RunSpec, RunTyped, Phase
  <1>7. Stages /\ Object
    BY <1>5 DEF Init, Stages, Object, Fetching
  <1>8. LoopTyped
    BY DEF Init, NoBatch, LoopTyped
  <1>9. Considered = {} /\ kept = {} /\ conflicts = 0 /\ dups = 0 /\ at = 1
    BY DEF Init, NoBatch, Considered
  <1>10. Kept /\ Counted /\ NothingIsLost /\ NewestIsKept
    BY <1>9, FS_EmptySet DEF Kept, Counted, NothingIsLost, NewestIsKept
  <1> QED BY <1>6, <1>7, <1>8, <1>10 DEF RunInv, LoopInv

LEMMA QueriesTyped ==
    ASSUME RunTyped
    PROVE  /\ Queries \in Seq(Query) /\ Len(Queries) \in Nat \ {0}
           /\ \A j \in 1 .. Len(Queries) : Queries[j] \in Query
  <1>1. spec.sources \in Seq(Providers)
    BY PipelineAssumption, EmptySeq DEF RunTyped
  <1>2. spec.sources \in Seq(Query) /\ Elsets \in Query
    BY <1>1 DEF Query
  <1>3. Queries \in Seq(Query) /\ Len(Queries) = Len(spec.sources) + 1
    BY <1>2, AppendProperties DEF Queries
  <1> QED BY <1>2, <1>3, LenProperties, ElementOfSeq

LEMMA AskedQuery ==
    ASSUME RunInv, Ask
    PROVE  \E q \in Query, records \in Seq(Record) :
              /\ OpenBatch(q, records) /\ q # None
              /\ feuds' = IF Disagree(q, records, Len(records)) THEN feuds \cup {Sought} ELSE feuds
  <1>1. RunTyped /\ Stages /\ Fetching /\ phase = "fetching" /\ Turn <= Len(groups)
    BY DEF RunInv, Ask, Fetching
  <1>2. Sought \in Sat \X Mode
    BY <1>1, FetchingNames
  <1>3. Queries[Len(answers) + 1] \in Query
    BY <1>1, QueriesTyped, Appended DEF Ask, RunTyped
  <1>4. Feed[Sought[1]][Queries[Len(answers) + 1]] \in SUBSET Seq(Record)
    BY <1>2, <1>3, PipelineAssumption
  <1> QED BY <1>3, <1>4, PipelineAssumption DEF Ask

LEMMA NextLoop == ASSUME RunInv, [Next]_vars PROVE LoopInv'
  <1>1. LoopInv
    BY DEF RunInv
  <1>2. ASSUME UNCHANGED quality PROVE LoopInv'
    BY <1>1, <1>2, SameLoop
  <1>3. ASSUME OpenBatch(None, <<>>) PROVE LoopInv'
    BY <1>3, OpenLoop, EmptySeq
  <1>4. CASE Ask
    BY <1>4, AskedQuery, OpenLoop
  <1>5. CASE Sift
    BY <1>1, <1>5, OneMoreLoop DEF Sift
  <1>6. CASE Collect \/ Raises
    BY <1>3, <1>6 DEF Collect, Raises, Fail, Drop
  <1>7. CASE BuildReport
    BY <1>2, <1>3, <1>7 DEF BuildReport, Fail, Drop
  <1>8. CASE Finish
    BY <1>3, <1>8 DEF Finish, Fail, Drop
  <1>9. CASE (\E g \in Group : Edit(g)) \/ Submit \/ Take \/ ReadGroup \/ Names
    BY <1>2, <1>9 DEF Edit, Submit, Take, ReadGroup, Names
  <1>10. CASE Cached \/ Keep \/ Panel \/ Skip
    BY <1>2, <1>10 DEF Cached, Keep, Panel, Skip
  <1>11. CASE UNCHANGED vars
    BY <1>2, <1>11 DEF vars
  <1> QED BY <1>4, <1>5, <1>6, <1>7, <1>8, <1>9, <1>10, <1>11 DEF Next

\* The part of the invariant that is not about the loop.
Steady == RunTyped /\ Stages /\ Object

LEMMA SameRun ==
    ASSUME Steady, UNCHANGED <<phase, store, job, out, work, feuds>>, query' # None => query # None
    PROVE  Steady'
  <1>1. RunTyped'
    BY DEF Steady, RunTyped, job, out, work
  <1>2. Stages'
    BY DEF Steady, Stages, job, out, work, Turn, Fetching, Sats
  <1>3. Object'
    BY DEF Steady, Object, job, out, work, Turn, Fetching, Hit, Sought, Sats
  <1> QED BY <1>1, <1>2, <1>3 DEF Steady

LEMMA EditRun == ASSUME Steady, NEW g \in Group, Edit(g) PROVE Steady'
  <1>1. \E c \in Contents[g], b \in BOOLEAN : store' = [store EXCEPT ![g] = Saved(c, b)]
    <2>1. CASE \E c \in Contents[g] : store' = [store EXCEPT ![g] = Saved(c, FALSE)]
      BY <2>1
    <2>2. CASE store' = [store EXCEPT ![g].archived = ~@]
      <3>1. PICK c \in Contents[g], b \in BOOLEAN : store[g] = Saved(c, b)
        BY DEF Steady, RunTyped
      <3>2. [store[g] EXCEPT !.archived = ~b] = Saved(c, ~b) /\ store[g].archived = b
        BY <3>1 DEF Saved
      <3> QED BY <3>2, <2>2, <3>1
    <2> QED BY <2>1, <2>2 DEF Edit
  <1>2. PICK c \in Contents[g], b \in BOOLEAN : store' = [store EXCEPT ![g] = Saved(c, b)]
    BY <1>1
  <1>3. Saved(c, b) \in Stored
    BY SavedIsStored DEF Content
  <1>4. RunTyped'
    BY <1>2, <1>3 DEF Edit, Steady, RunTyped, job, out, work
  <1>5. Stages' /\ Object'
    BY DEF Edit, Steady, Stages, Object, job, out, work, Turn, Fetching, quality
  <1> QED BY <1>4, <1>5 DEF Steady

LEMMA SubmitRun == ASSUME Steady, Submit PROVE Steady'
  <1>1. PICK ids \in IdLists, modes \in ModeLists, sources \in SourceLists :
           spec' = [ids |-> Resolved(ids), modes |-> modes, sources |-> sources]
    BY DEF Submit, RunSpec
  <1>2. Resolved(ids) \in Seq(Group) /\ modes # <<>>
    BY PipelineAssumption DEF Resolved
  <1>3. RunTyped'
    BY <1>1, <1>2, EmptySeq, EmptyIsSeq DEF Submit, Steady, RunTyped, work, Phase
  <1>4. Stages' /\ Object'
    BY <1>1, <1>2 DEF Submit, Steady, Stages, Object, Fetching, work, quality
  <1> QED BY <1>3, <1>4 DEF Steady

LEMMA ReadRun == ASSUME Steady, ReadGroup PROVE Steady'
  <1>1. Len(groups) \in Nat /\ spec.ids[Len(groups) + 1] \in Group
    BY LenProperties, ElementOfSeq DEF Steady, RunTyped, ReadGroup
  <1>2. groups' \in Seq(Stored)
    BY <1>1, AppendProperties DEF Steady, RunTyped, ReadGroup
  <1>3. RunTyped'
    BY <1>2 DEF Steady, RunTyped, ReadGroup, out, work
  <1>4. Stages' /\ Object'
    BY DEF Steady, Stages, Object, ReadGroup, out, work, Fetching, quality
  <1> QED BY <1>3, <1>4 DEF Steady

LEMMA FailRun == ASSUME Steady, Fail, phase # "idle" PROVE Steady'
  <1>1. RunTyped'
    BY EmptyIsSeq DEF Steady, RunTyped, Fail, Drop, job, Phase, Empty
  <1>2. Stages' /\ Object'
    BY DEF Steady, Stages, Object, Fail, Drop, OpenBatch, job, Fetching
  <1> QED BY <1>1, <1>2 DEF Steady

LEMMA NamesRun == ASSUME Steady, Names PROVE Steady'
  <1>1. RunTyped'
    BY DEF Steady, RunTyped, Names, job, out, work, Phase
  <1>2. Len(panels) = 0 /\ Len(skipped) = 0 /\ Len(groups) \in Nat /\ key = <<1, 1>>
    BY EmptySeq, LenProperties DEF Steady, RunTyped, Stages, Names
  <1>3. Turn' = 1 /\ Turn' <= Len(groups) + 1
    BY <1>2 DEF Turn, Names, out
  <1>4. ASSUME Fetching' PROVE key'[2] <= Len(Sats')
    <2>1. groups' = groups /\ 1 \in 1 .. Len(groups) /\ Sats' = groups[1].sats
      BY <1>2, <1>3, <1>4 DEF Fetching, Names, job, Sats
    <2>2. Len(groups[1].sats) \in Nat \ {0}
      BY <2>1, StoredGroup DEF Steady, RunTyped
    <2> QED BY <1>2, <2>1, <2>2 DEF Names, work
  <1>5. Stages'
    BY <1>3, <1>4 DEF Steady, Stages, Names, job, out, work
  <1>6. Object'
    BY DEF Steady, Object, Names, job, out, work, quality, Fetching
  <1> QED BY <1>1, <1>5, <1>6 DEF Steady

LEMMA TakeRun == ASSUME Steady, Take PROVE Steady'
  <1>1. RunTyped'
    BY DEF Steady, RunTyped, Take, job, out, work, Phase
  <1>2. Stages' /\ Object'
    BY DEF Steady, Stages, Object, Take, job, out, work, quality, Fetching
  <1> QED BY <1>1, <1>2 DEF Steady

LEMMA BuildRun == ASSUME Steady, BuildReport PROVE Steady'
  <1>1. CASE Fail
    BY <1>1, FailRun DEF BuildReport
  <1>2. CASE phase' = "naming" /\ UNCHANGED <<store, job, out, work, feuds, quality>>
    <2>1. RunTyped'
      BY <1>2 DEF Steady, RunTyped, job, out, work, Phase
    <2>2. Stages' /\ Object'
      BY <1>2 DEF Steady, Stages, Object, BuildReport, job, out, work, quality, Fetching
    <2> QED BY <2>1, <2>2 DEF Steady
  <1> QED BY <1>1, <1>2 DEF BuildReport

\* The place of the next object stays within the group or goes to the next mode.
LEMMA CachedRun == ASSUME Steady, Cached PROVE Steady'
  <1>1. /\ Len(Sats) \in Nat \ {0} /\ key[1] \in Nat \ {0} /\ key[2] \in Nat \ {0}
        /\ phase = "fetching" /\ Turn <= Len(groups)
    BY FetchingNames DEF Steady, RunTyped, Cached, Fetching
  <1>2. key' \in (Nat \ {0}) \X (Nat \ {0}) /\ key'[2] <= Len(Sats)
    BY <1>1 DEF Cached, NextKey
  <1>3. RunTyped'
    BY <1>2 DEF Cached, Steady, RunTyped, job, out
  <1>4. Stages'
    BY <1>1, <1>2 DEF Cached, Steady, Stages, Turn, Sats, Fetching, job, out
  <1>5. Object'
    BY DEF Cached, Steady, Object, Fetching, Hit, job, out, quality
  <1> QED BY <1>3, <1>4, <1>5 DEF Steady

LEMMA AskRun == ASSUME RunInv, Ask PROVE Steady'
  <1>1. RunTyped /\ Stages /\ Object /\ Fetching /\ ~Hit /\ phase = "fetching" /\ Turn <= Len(groups)
    BY DEF RunInv, Ask, Fetching
  <1>2. feuds' \subseteq Sat \X Mode
    <2>1. feuds' \subseteq feuds \cup {Sought}
      BY AskedQuery
    <2> QED BY <1>1, <2>1, FetchingNames DEF RunTyped
  <1>3. RunTyped'
    BY <1>1, <1>2 DEF Ask, RunTyped, job, out, work
  <1>4. Stages'
    BY <1>1 DEF Ask, Stages, Turn, Sats, Fetching, job, out, work
  <1>5. Object'
    BY <1>1 DEF Ask, Object, Turn, Sats, Fetching, Hit, Sought, job, out, work
  <1> QED BY <1>3, <1>4, <1>5 DEF Steady

LEMMA CollectRun == ASSUME Steady, Collect PROVE Steady'
  <1>1. Fetching /\ ~Hit /\ UNCHANGED <<Fetching, Hit>> /\ query' = None
    BY DEF Collect, Steady, Object, Fetching, Hit, Sought, Turn, Sats, job, out, OpenBatch
  <1>2. IsSeq(answers') /\ band' \in {"none", "note", "alert"}
    BY Appended DEF Collect, NewBand, Steady, RunTyped
  <1>3. RunTyped'
    BY <1>2 DEF Collect, Steady, RunTyped, job, out
  <1>4. Stages'
    BY DEF Collect, Steady, Stages, Turn, Sats, Fetching, job, out
  <1>5. Object'
    BY <1>1 DEF Object
  <1> QED BY <1>3, <1>4, <1>5 DEF Steady

LEMMA KeepRun == ASSUME Steady, Keep PROVE Steady'
  <1>1. Sought \in Sat \X Mode
    BY FetchingNames DEF Keep, Steady, Fetching
  <1>2. UNCHANGED <<Fetching, Sought, query>> /\ Fetching
    BY DEF Keep, Fetching, Sought, Turn, Sats, job, out, quality
  <1>3. DOMAIN cache' = DOMAIN cache \cup {Sought}
    BY DEF Keep
  <1>4. RunTyped'
    BY <1>1, <1>3, EmptyIsSeq DEF Keep, Steady, RunTyped, job, out
  <1>5. Stages'
    BY <1>2 DEF Keep, Steady, Stages, Turn, Sats, Fetching, job, out
  <1>6. query = None
    BY DEF Keep
  <1>7. Object'
    BY <1>2, <1>3, <1>6 DEF Keep, Object, Hit
  <1> QED BY <1>4, <1>5, <1>7 DEF Steady

\* A panel or a skipped group: on to the next one.
LEMMA DrawnRun ==
    ASSUME Steady, AllFetched, IsSeq(panels'), IsSeq(skipped'), Turn' = Turn + 1,
           key' = <<1, 1>>, UNCHANGED <<phase, store, job, answers, band, cache, feuds, quality>>
    PROVE  Steady'
  <1>1. /\ phase = "fetching" /\ Turn <= Len(groups) /\ Len(groups) \in Nat /\ Turn \in Nat
        /\ ~Fetching
    <2>1. Len(groups) \in Nat /\ Len(panels) \in Nat /\ Len(skipped) \in Nat
      BY Appended, LenProperties DEF Steady, RunTyped
    <2>2. Len(spec.modes) \in Nat /\ key[1] \in Nat
      BY FetchingNames DEF Steady, RunTyped, AllFetched
    <2> QED BY <2>1, <2>2 DEF AllFetched, Turn, Fetching
  <1>2. RunTyped'
    BY DEF Steady, RunTyped, job
  <1>3. ASSUME Fetching' PROVE key'[2] <= Len(Sats')
    <2>1. Turn' \in 1 .. Len(groups) /\ Sats' = groups[Turn'].sats
      BY <1>1, <1>3 DEF Fetching, Sats, job
    <2>2. groups[Turn'] \in Stored
      BY <2>1 DEF Steady, RunTyped
    <2> QED BY <2>1, <2>2, StoredGroup
  <1>4. Stages'
    BY <1>1, <1>3 DEF Steady, Stages, job
  <1>5. Object'
    BY <1>1 DEF Steady, Object, quality
  <1> QED BY <1>2, <1>4, <1>5 DEF Steady

LEMMA PanelIsNext ==
    ASSUME Steady, Panel
    PROVE  /\ IsSeq(panels') /\ Len(panels') = Len(panels) + 1 /\ DOMAIN panels' = 1 .. Len(panels')
           /\ Len(panels) \in Nat /\ DOMAIN panels = 1 .. Len(panels) /\ Len(skipped) \in Nat
           /\ \A j \in DOMAIN panels : panels'[j] = panels[j]
           /\ \E refs \in [1 .. Len(spec.modes) -> SUBSET Objects(groups[Turn])] :
                 /\ Usable(refs) # {}
                 /\ panels'[Len(panels')] =
                      [of |-> Turn, id |-> Len(panels), plotly |-> WithPlotly,
                       band |-> Band(groups[Turn]), refs |-> refs, mode |-> DefaultMode(refs),
                       ref |-> DefaultRef(groups[Turn], refs[DefaultMode(refs)])]
           /\ Turn' = Turn + 1
  <1>1. IsSeq(panels) /\ IsSeq(skipped)
    BY DEF Steady, RunTyped
  <1>2. PICK refs \in [1 .. Len(spec.modes) -> SUBSET Objects(groups[Turn])] :
           /\ Usable(refs) # {}
           /\ panels' = Append(panels,
                [of |-> Turn, id |-> Len(panels), plotly |-> WithPlotly,
                 band |-> Band(groups[Turn]), refs |-> refs, mode |-> DefaultMode(refs),
                 ref |-> DefaultRef(groups[Turn], refs[DefaultMode(refs)])])
    BY DEF Panel
  <1> DEFINE new == [of |-> Turn, id |-> Len(panels), plotly |-> WithPlotly,
                     band |-> Band(groups[Turn]), refs |-> refs, mode |-> DefaultMode(refs),
                     ref |-> DefaultRef(groups[Turn], refs[DefaultMode(refs)])]
  <1>3. panels' = Append(panels, new)
    BY <1>2
  <1>4. skipped' = skipped
    BY DEF Panel
  <1>5. Usable(refs) # {}
    BY <1>2
  <1>6. new = [of |-> Turn, id |-> Len(panels), plotly |-> WithPlotly,
               band |-> Band(groups[Turn]), refs |-> refs, mode |-> DefaultMode(refs),
               ref |-> DefaultRef(groups[Turn], refs[DefaultMode(refs)])]
    OBVIOUS
  <1> HIDE DEF new
  <1>7. /\ IsSeq(panels') /\ Len(panels') = Len(panels) + 1 /\ DOMAIN panels' = 1 .. Len(panels')
        /\ Len(panels) \in Nat /\ DOMAIN panels = 1 .. Len(panels)
        /\ \A j \in DOMAIN panels : panels'[j] = panels[j]
        /\ panels'[Len(panels')] = new
    BY <1>1, <1>3, Appended
  <1>8. Len(skipped) \in Nat
    BY <1>1, Appended
  <1>9. Turn' = Turn + 1
    BY <1>4, <1>7, <1>8 DEF Turn
  <1> QED BY <1>5, <1>6, <1>7, <1>8, <1>9

LEMMA SkipIsNext ==
    ASSUME Steady, Skip
    PROVE  /\ IsSeq(skipped') /\ Len(skipped') = Len(skipped) + 1 /\ panels' = panels
           /\ Range(skipped') = Range(skipped) \cup {Turn}
           /\ IsSeq(panels) /\ DOMAIN panels = 1 .. Len(panels)
           /\ Len(skipped) \in Nat /\ Len(panels) \in Nat /\ Turn' = Turn + 1
  <1>1. IsSeq(panels) /\ IsSeq(skipped) /\ skipped' = Append(skipped, Turn) /\ panels' = panels
    BY DEF Skip, Steady, RunTyped
  <1>2. /\ Len(panels) \in Nat /\ DOMAIN panels = 1 .. Len(panels)
        /\ Len(skipped) \in Nat /\ DOMAIN skipped = 1 .. Len(skipped)
        /\ IsSeq(skipped') /\ Len(skipped') = Len(skipped) + 1
        /\ DOMAIN skipped' = 1 .. Len(skipped) + 1
        /\ \A j \in 1 .. Len(skipped) : skipped'[j] = skipped[j]
        /\ skipped'[Len(skipped) + 1] = Turn
    BY <1>1, Appended
  <1>3. 1 .. Len(skipped) + 1 = (1 .. Len(skipped)) \cup {Len(skipped) + 1}
    BY <1>2
  <1>4. Range(skipped') = Range(skipped) \cup {Turn}
    BY <1>2, <1>3 DEF Range
  <1>5. Turn' = Turn + 1
    BY <1>1, <1>2 DEF Turn
  <1> QED BY <1>1, <1>2, <1>4, <1>5

LEMMA FinishRun == ASSUME Steady, Finish PROVE Steady'
  <1>1. CASE Fail
    BY <1>1, FailRun DEF Finish
  <1>2. CASE panels # <<>> /\ phase' = "done" /\ UNCHANGED out /\ Drop
    <2>1. RunTyped'
      BY <1>2, EmptyIsSeq DEF Steady, RunTyped, Drop, out, job, Phase, Empty
    <2>2. Turn = Len(groups) + 1
      <3>1. Len(groups) \in Nat /\ Turn \in Nat
        BY Appended, LenProperties DEF Steady, RunTyped, Turn
      <3> QED BY <3>1 DEF Finish, Steady, Stages
    <2>3. Stages'
      BY <1>2, <2>2 DEF Finish, Steady, Stages, Turn, Drop, out, job, Fetching
    <2>4. Object'
      BY <1>2 DEF Object, Drop, OpenBatch, Fetching
    <2> QED BY <2>1, <2>3, <2>4 DEF Steady
  <1> QED BY <1>1, <1>2 DEF Finish

LEMMA NextRun == RunInv /\ [Next]_vars => RunInv'
  <1> SUFFICES ASSUME RunInv, [Next]_vars PROVE RunInv'
    OBVIOUS
  <1>1. Steady /\ LoopInv'
    BY NextLoop DEF RunInv, Steady
  <1> SUFFICES Steady'
    BY <1>1 DEF RunInv, Steady
  <1>2. CASE \E g \in Group : Edit(g)
    BY <1>1, <1>2, EditRun
  <1>3. CASE Submit \/ Take \/ ReadGroup \/ BuildReport \/ Names
    BY <1>1, <1>3, SubmitRun, TakeRun, ReadRun, BuildRun, NamesRun
  <1>4. CASE Cached \/ Ask \/ Collect \/ Keep
    BY <1>1, <1>4, CachedRun, AskRun, CollectRun, KeepRun
  <1>5. CASE Sift
    BY <1>1, <1>5, SameRun DEF Sift, Consider
  <1>6. CASE Raises
    BY <1>1, <1>6, FailRun DEF Raises, Fetching
  <1>7. CASE Panel
    <2>1. AllFetched /\ key' = <<1, 1>> /\ IsSeq(skipped')
          /\ UNCHANGED <<phase, store, job, answers, band, cache, feuds, quality>>
      BY <1>1, <1>7 DEF Panel, Steady, RunTyped
    <2> QED BY <1>1, <1>7, <2>1, PanelIsNext, DrawnRun
  <1>8. CASE Skip
    <2>1. AllFetched /\ key' = <<1, 1>>
          /\ UNCHANGED <<phase, store, job, answers, band, cache, feuds, quality>>
      BY <1>8 DEF Skip
    <2> QED BY <1>1, <1>8, <2>1, SkipIsNext, DrawnRun
  <1>9. CASE Finish
    BY <1>1, <1>9, FinishRun
  <1>10. CASE UNCHANGED vars
    BY <1>1, <1>10, SameRun DEF vars, quality
  <1> QED BY <1>2, <1>3, <1>4, <1>5, <1>6, <1>7, <1>8, <1>9, <1>10 DEF Next

LEMMA KeptPoints == ASSUME LoopInv PROVE kept \subseteq Points
  <1> SUFFICES ASSUME NEW j \in 1 .. at - 1 PROVE Point(query, batch[j]) \in Points
    BY DEF LoopInv, Kept, Considered
  <1>1. batch[j] \in Record /\ query \in Query \cup {None}
    BY DEF LoopInv, LoopTyped
  <1>2. Label(query, batch[j]) \in Query \cup {None, Unattributed} \cup {r.source : r \in Record}
    BY <1>1 DEF Label
  <1> QED BY <1>1, <1>2, QualityAssumption DEF Point, Points

LEMMA RunInvTyped == RunInv => TypeOK
  BY KeptPoints DEF RunInv, RunTyped, Stages, LoopInv, LoopTyped, TypeOK

\* The inductive invariant of a run: types, what has been fetched for which object,
\* and what the loop of dedupe has kept, at every point of _render and build_report.
THEOREM RunInvHolds == Spec => []RunInv
  BY InitRun, NextRun, PTL DEF Spec

\* Every variable holds a value of its kind, and the next object is one of the group.
THEOREM TypeCorrect == Spec => []TypeOK
  BY RunInvHolds, RunInvTyped, PTL

\* One record is plotted for each source and epoch, and the others are counted.
THEOREM NothingLost == Spec => []NothingIsLost
  <1>1. RunInv => NothingIsLost
    BY DEF RunInv, LoopInv
  <1> QED BY <1>1, RunInvHolds, PTL

\* The record that is plotted is the latest of its source and epoch, unless the
\* stamps leave it open, for every order of arrival.
THEOREM NewestKept == Spec => []NewestIsKept
  <1>1. RunInv => NewestIsKept
    BY DEF RunInv, LoopInv
  <1> QED BY <1>1, RunInvHolds, PTL

-----------------------------------------------------------------------------
(***************************************************************************)
(* The cache.                                                              *)
(***************************************************************************)
LEMMA CacheGrows ==
    [Next]_vars => UNCHANGED cache \/ cache' = Empty \/ Keep
  BY DEF Next, vars, work, Edit, Submit, Take, ReadGroup, BuildReport, Names, Cached, Ask, Sift,
         Collect, Raises, Panel, Skip, Finish, Fail, Drop

\* What was fetched for an object stays what it is until the run is over.
THEOREM SameData == Spec => SameObjectSameData
  <1>1. [Next]_vars => [\A k \in DOMAIN cache \cap DOMAIN cache' : cache'[k] = cache[k]]_vars
    <2> SUFFICES ASSUME [Next]_vars, NEW k \in DOMAIN cache \cap DOMAIN cache'
                 PROVE  cache'[k] = cache[k]
      OBVIOUS
    <2>1. CASE cache' = Empty
      BY <2>1 DEF Empty
    <2>2. CASE Keep
      BY <2>2 DEF Keep, Hit
    <2> QED BY <2>1, <2>2, CacheGrows
  <1> QED BY <1>1, PTL DEF Spec, SameObjectSameData

-----------------------------------------------------------------------------
(***************************************************************************)
(* The panels.                                                             *)
(***************************************************************************)
\* A step draws, skips, starts afresh, ends the run or leaves the panels alone.
LEMMA Steps ==
    ASSUME Steady, [Next]_vars
    PROVE  \/ Panel \/ Skip
           \/ panels' = <<>> /\ skipped' = <<>> /\ phase' # "done"
           \/ Finish /\ phase' = "done" /\ UNCHANGED <<panels, skipped, spec, groups, feuds>>
           \/ /\ UNCHANGED <<panels, skipped, spec>>
              /\ phase' = "done" => phase = "done" /\ UNCHANGED groups
  <1>1. CASE (\E g \in Group : Edit(g)) \/ Take \/ Names \/ Cached \/ Ask \/ Sift \/ Collect \/ Keep
    BY <1>1 DEF Edit, Take, Names, Cached, Ask, Sift, Collect, Keep, job, out
  <1>2. CASE Submit \/ Raises
    BY <1>2 DEF Submit, Raises, Fail
  <1>3. CASE BuildReport \/ ReadGroup
    BY <1>3 DEF BuildReport, ReadGroup, Fail, job, out
  <1>4. CASE Finish
    BY <1>4 DEF Finish, Fail, Drop, job, out
  <1>5. CASE Panel \/ Skip \/ UNCHANGED vars
    BY <1>5 DEF vars, job, out
  <1> QED BY <1>1, <1>2, <1>3, <1>4, <1>5 DEF Next

LEMMA UpToNext == \A n \in Nat : 1 .. n + 1 = (1 .. n) \cup {n + 1}
  OBVIOUS

LEMMA EmptyLen == ASSUME NEW s, IsSeq(s) PROVE s = <<>> <=> Len(s) = 0
  BY EmptySeq DEF IsSeq

\* The panel that is drawn comes after the others, which stay as they are.
LEMMA NewPanel ==
    ASSUME Steady, Panel
    PROVE  /\ DOMAIN panels' = (DOMAIN panels) \cup {Len(panels')}
           /\ \A j \in DOMAIN panels : panels'[j] = panels[j]
  <1>1. /\ Len(panels) \in Nat /\ DOMAIN panels = 1 .. Len(panels)
        /\ Len(panels') = Len(panels) + 1 /\ DOMAIN panels' = 1 .. Len(panels')
        /\ \A j \in DOMAIN panels : panels'[j] = panels[j]
    BY PanelIsNext
  <1> QED BY <1>1, UpToNext

LEMMA InitAccounts == Init => GroupsAccountedFor
  <1> SUFFICES ASSUME Init PROVE GroupsAccountedFor
    OBVIOUS
  <1>1. panels = <<>> /\ skipped = <<>> /\ phase = "idle"
    BY DEF Init
  <1>2. Turn = 1 /\ DOMAIN panels = {} /\ Range(skipped) = {}
    BY <1>1, EmptySeq DEF Turn, Range
  <1> QED BY <1>1, <1>2 DEF GroupsAccountedFor

LEMMA NextAccounts ==
    RunInv /\ GroupsAccountedFor /\ [Next]_vars => GroupsAccountedFor'
  <1> SUFFICES ASSUME RunInv, GroupsAccountedFor, [Next]_vars PROVE GroupsAccountedFor'
    OBVIOUS
  <1>1. Steady
    BY DEF RunInv, Steady
  <1>2. IsSeq(panels) /\ Len(panels) \in Nat /\ Len(skipped) \in Nat /\ DOMAIN panels = 1 .. Len(panels)
    BY <1>1, Appended DEF Steady, RunTyped
  <1>3. Turn \in Nat \ {0} /\ (Turn' = Turn + 1 => 1 .. Turn' - 1 = (1 .. Turn - 1) \cup {Turn})
    <2>1. Turn \in Nat \ {0} /\ Turn - 1 \in Nat /\ (Turn - 1) + 1 = Turn
      BY <1>2 DEF Turn
    <2>2. ASSUME Turn' = Turn + 1 PROVE Turn' - 1 = Turn
      BY <2>1, <2>2
    <2> QED BY <2>1, <2>2, UpToNext
  <1>4. CASE Panel
    <2>1. /\ Len(panels') = Len(panels) + 1 /\ DOMAIN panels' = (DOMAIN panels) \cup {Len(panels')}
          /\ \A j \in DOMAIN panels : panels'[j] = panels[j]
          /\ panels'[Len(panels')].of = Turn /\ panels'[Len(panels')].id = Len(panels)
          /\ panels'[Len(panels')].plotly = WithPlotly
          /\ Turn' = Turn + 1 /\ skipped' = skipped /\ phase' = phase /\ phase = "fetching"
      <3>1. /\ Len(panels') = Len(panels) + 1 /\ Turn' = Turn + 1
            /\ panels'[Len(panels')].of = Turn /\ panels'[Len(panels')].id = Len(panels)
            /\ panels'[Len(panels')].plotly = WithPlotly
        <4>1. PICK refs \in [1 .. Len(spec.modes) -> SUBSET Objects(groups[Turn])] :
                 panels'[Len(panels')] =
                    [of |-> Turn, id |-> Len(panels), plotly |-> WithPlotly,
                     band |-> Band(groups[Turn]), refs |-> refs, mode |-> DefaultMode(refs),
                     ref |-> DefaultRef(groups[Turn], refs[DefaultMode(refs)])]
          BY <1>1, <1>4, PanelIsNext
        <4> QED BY <4>1, <1>1, <1>4, PanelIsNext
      <3> QED BY <3>1, <1>1, <1>4, NewPanel DEF Panel, AllFetched
    <2>2. \A j \in DOMAIN panels : panels[j].of \in 1 .. Turn - 1
      BY DEF GroupsAccountedFor
    <2>3. {panels'[j].of : j \in DOMAIN panels'} = {panels[j].of : j \in DOMAIN panels} \cup {Turn}
      BY <2>1
    <2>4. {panels'[j].of : j \in DOMAIN panels'} \cup Range(skipped') = 1 .. Turn' - 1
      BY <2>1, <2>3, <1>3 DEF GroupsAccountedFor
    <2>5. \A j, k \in DOMAIN panels' : j < k => panels'[j].of < panels'[k].of
      BY <2>1, <2>2, <1>2, <1>3 DEF GroupsAccountedFor
    <2>6. \A j \in DOMAIN panels' : panels'[j].id = j - 1 /\ (panels'[j].plotly <=> j = 1)
      <3>1. WithPlotly <=> Len(panels') = 1
        BY <1>2, <2>1, EmptyLen DEF WithPlotly
      <3> QED BY <2>1, <3>1, <1>2 DEF GroupsAccountedFor
    <2> QED BY <2>1, <2>4, <2>5, <2>6 DEF GroupsAccountedFor
  <1>5. CASE Skip
    <2>1. /\ panels' = panels /\ Range(skipped') = Range(skipped) \cup {Turn} /\ Turn' = Turn + 1
          /\ phase' # "done"
      BY <1>1, <1>5, SkipIsNext DEF Skip, AllFetched
    <2> QED BY <2>1, <1>3 DEF GroupsAccountedFor
  <1>6. CASE panels' = <<>> /\ skipped' = <<>> /\ phase' # "done"
    <2>1. Turn' = 1 /\ DOMAIN panels' = {} /\ Range(skipped') = {}
      BY <1>6, EmptySeq DEF Turn, Range
    <2> QED BY <1>6, <2>1 DEF GroupsAccountedFor
  <1>7. CASE Finish /\ phase' = "done" /\ UNCHANGED <<panels, skipped, spec, groups, feuds>>
    <2>1. RunInv'
      BY NextRun
    <2>2. panels' # <<>> /\ Turn' = Len(groups') + 1 /\ Len(groups') = Len(spec'.ids)
      BY <2>1, <1>7 DEF RunInv, Stages
    <2>3. Len(groups) \in Nat
      BY <1>1, LenProperties DEF Steady, RunTyped
    <2>4. Len(panels') + Len(skipped') = Len(spec'.ids)
      BY <2>2, <2>3, <1>2, <1>7 DEF Turn
    <2> QED BY <1>7, <2>2, <2>4 DEF GroupsAccountedFor, Turn
  <1>8. CASE UNCHANGED <<panels, skipped, spec>> /\ (phase' = "done" => phase = "done")
    BY <1>8 DEF GroupsAccountedFor, Turn
  <1> QED BY <1>1, <1>4, <1>5, <1>6, <1>7, <1>8, Steps

\* No group of a request is lost or drawn twice, and exactly the first panel brings plotly.
THEOREM GroupsAccounted == Spec => []GroupsAccountedFor
  <1>1. RunInv /\ RunInv' /\ GroupsAccountedFor /\ [Next]_vars => GroupsAccountedFor'
    BY NextAccounts
  <1> QED BY <1>1, InitAccounts, RunInvHolds, PTL DEF Spec

-----------------------------------------------------------------------------
(***************************************************************************)
(* What a panel opens with.                                                *)
(***************************************************************************)
\* A set of naturals that is not empty has a least element.
LEMMA Least ==
    ASSUME NEW S \in SUBSET Nat, S # {}
    PROVE  \E i \in S : \A j \in S : i <= j
  <1>1. PICK i \in S : \A j \in S : ~(<<j, i>> \in OpToRel(<, Nat))
    BY NatLessThanWellFounded, WFMin
  <1>2. \A j \in S : ~(j < i)
    BY <1>1 DEF OpToRel
  <1> QED BY <1>2

LEMMA DrawnDefault ==
    ASSUME NEW g \in Stored, NEW n \in Nat, NEW refs \in [1 .. n -> SUBSET Objects(g)],
           Usable(refs) # {}
    PROVE  /\ DefaultMode(refs) \in DOMAIN refs
           /\ DefaultRef(g, refs[DefaultMode(refs)]) \in refs[DefaultMode(refs)]
  <1>1. Usable(refs) \in SUBSET Nat
    BY DEF Usable
  <1>2. \E i \in Usable(refs) : \A j \in Usable(refs) : i <= j
    BY <1>1, Least
  <1>3. DefaultMode(refs) \in Usable(refs)
    BY <1>2 DEF DefaultMode
  <1> DEFINE R == refs[DefaultMode(refs)]
  <1>4. R # {} /\ R \subseteq Objects(g) /\ DefaultMode(refs) \in DOMAIN refs
    BY <1>3 DEF Usable
  <1> HIDE DEF R
  <1>5. CASE GroupReference(g, R) \in R
    BY <1>4, <1>5 DEF DefaultRef, R
  <1>6. CASE GroupReference(g, R) \notin R
    <2> DEFINE P == {j \in DOMAIN g.sats : g.sats[j] \in R}
    <2>1. P \in SUBSET Nat /\ P # {}
      BY <1>4, StoredGroup DEF Objects, Range
    <2>2. \E j \in P : \A i \in P : j <= i
      BY <2>1, Least
    <2>3. \E j \in DOMAIN g.sats :
             g.sats[j] \in R /\ \A i \in DOMAIN g.sats : g.sats[i] \in R => j <= i
      BY <2>2
    <2> HIDE DEF P
    <2>4. DefaultRef(g, R) \in R
      BY <2>3, <1>6 DEF DefaultRef
    <2> QED BY <1>4, <2>4 DEF R
  <1> QED BY <1>5, <1>6

LEMMA NextDefaults ==
    RunInv /\ DefaultsAreDrawn /\ [Next]_vars => DefaultsAreDrawn'
  <1> SUFFICES ASSUME RunInv, DefaultsAreDrawn, [Next]_vars PROVE DefaultsAreDrawn'
    OBVIOUS
  <1>1. Steady
    BY DEF RunInv, Steady
  <1>2. CASE Panel
    <2>1. groups[Turn] \in Stored /\ Len(spec.modes) \in Nat
      BY <1>1, <1>2, FetchingNames DEF Steady, Panel, AllFetched
    <2>2. PICK refs \in [1 .. Len(spec.modes) -> SUBSET Objects(groups[Turn])] :
             /\ Usable(refs) # {}
             /\ panels'[Len(panels')] =
                  [of |-> Turn, id |-> Len(panels), plotly |-> WithPlotly,
                   band |-> Band(groups[Turn]), refs |-> refs, mode |-> DefaultMode(refs),
                   ref |-> DefaultRef(groups[Turn], refs[DefaultMode(refs)])]
      BY <1>1, <1>2, PanelIsNext
    <2>3. DefaultMode(refs) \in DOMAIN refs
          /\ DefaultRef(groups[Turn], refs[DefaultMode(refs)]) \in refs[DefaultMode(refs)]
      BY <2>1, <2>2, DrawnDefault
    <2>4. /\ DOMAIN panels' = (DOMAIN panels) \cup {Len(panels')}
          /\ \A j \in DOMAIN panels : panels'[j] = panels[j]
      BY <1>1, <1>2, NewPanel
    <2>5. /\ panels'[Len(panels')].refs = refs
          /\ panels'[Len(panels')].mode = DefaultMode(refs)
          /\ panels'[Len(panels')].ref = DefaultRef(groups[Turn], refs[DefaultMode(refs)])
      BY <2>2
    <2> QED BY <2>3, <2>4, <2>5 DEF DefaultsAreDrawn
  <1>3. CASE panels' = panels
    BY <1>3 DEF DefaultsAreDrawn
  <1>4. CASE panels' = <<>>
    BY <1>4 DEF DefaultsAreDrawn
  <1> QED BY <1>1, <1>2, <1>3, <1>4, Steps, SkipIsNext

\* A panel opens in a mode and on a reference for which there is a picture.
THEOREM DefaultsDrawn == Spec => []DefaultsAreDrawn
  <1>1. Init => DefaultsAreDrawn
    BY DEF Init, DefaultsAreDrawn
  <1>2. RunInv /\ RunInv' /\ DefaultsAreDrawn /\ [Next]_vars => DefaultsAreDrawn'
    BY NextDefaults
  <1> QED BY <1>1, <1>2, RunInvHolds, PTL DEF Spec

-----------------------------------------------------------------------------
(***************************************************************************)
(* Disagreements.  An object carries its own findings, from the query that *)
(* found them through the cache to every panel it is in.                   *)
(***************************************************************************)
\* The objects that come before the place i, j of the current group.
Before(i, j) == i < key[1] \/ (i = key[1] /\ j < key[2])

CachedFeuds ==
    /\ \A k \in DOMAIN cache : cache[k].band = "alert" <=> k \in feuds
    /\ phase = "fetching" => \A k \in feuds : k \in DOMAIN cache \/ (Fetching /\ k = Sought)

OpenFeud ==
    Fetching /\ ~Hit =>
      (Sought \in feuds <=> band = "alert" \/ (query # None /\ Disagree(query, batch, Len(batch))))

Fetched ==
    phase = "fetching" =>
      /\ Turn <= Len(groups) =>
           \A i \in 1 .. Len(spec.modes), j \in 1 .. Len(Sats) :
              Before(i, j) => <<Sats[j], spec.modes[i]>> \in DOMAIN cache
      /\ \A n \in DOMAIN panels : \A s \in Objects(groups[panels[n].of]), m \in Range(spec.modes) :
              <<s, m>> \in DOMAIN cache

FeudInv == CachedFeuds /\ OpenFeud /\ Fetched /\ DisagreementsAreShown

LEMMA FeudsBegin ==
    ASSUME panels = <<>>, cache = Empty, key = <<1, 1>>, RunInv,
           phase = "fetching" => feuds = {} /\ band = "none" /\ query = None
    PROVE  FeudInv
  <1>1. DOMAIN cache = {} /\ DOMAIN panels = {}
    BY DEF Empty
  <1>2. \A i \in 1 .. Len(spec.modes), j \in 1 .. Len(Sats) : ~Before(i, j)
    BY DEF Before
  <1> QED
    BY <1>1, <1>2 DEF FeudInv, CachedFeuds, OpenFeud, Fetched, DisagreementsAreShown, Fetching

\* A step that does not touch what is fetched.
LEMMA FeudsStay ==
    ASSUME FeudInv,
           UNCHANGED <<phase, spec, groups, panels, skipped, key, cache, band, feuds, query, batch>>
    PROVE  FeudInv'
  <1>1. /\ Turn' = Turn /\ Sats' = Sats /\ Sought' = Sought /\ Fetching' = Fetching
        /\ \A i, j : Before(i, j)' = Before(i, j)
    BY DEF Turn, Sats, Sought, Fetching, Before
  <1>2. CachedFeuds'
    BY <1>1 DEF FeudInv, CachedFeuds
  <1>3. OpenFeud'
    BY <1>1 DEF FeudInv, OpenFeud, Hit
  <1>4. Fetched'
    BY <1>1 DEF FeudInv, Fetched
  <1>5. DisagreementsAreShown'
    BY DEF FeudInv, DisagreementsAreShown
  <1> QED BY <1>2, <1>3, <1>4, <1>5 DEF FeudInv

LEMMA FeudsAfterAsk == ASSUME RunInv, FeudInv, Ask PROVE FeudInv'
  <1>1. PICK q \in Query, records \in Seq(Record) :
           /\ OpenBatch(q, records) /\ q # None
           /\ feuds' = IF Disagree(q, records, Len(records)) THEN feuds \cup {Sought} ELSE feuds
    BY AskedQuery
  <1>2. /\ UNCHANGED <<phase, spec, groups, panels, skipped, key, cache, band>>
        /\ Fetching /\ ~Hit /\ query = None /\ query' = q /\ batch' = records
    BY <1>1 DEF Ask, OpenBatch, job, out, work
  <1>3. UNCHANGED <<Fetching, Hit, Sought, Sats, Turn>>
    BY <1>2 DEF Fetching, Hit, Sought, Sats, Turn
  <1>4. \A k \in DOMAIN cache : k \in feuds' <=> k \in feuds
    BY <1>1, <1>2 DEF Hit
  <1>5. CachedFeuds'
    BY <1>1, <1>2, <1>3, <1>4 DEF FeudInv, CachedFeuds
  <1>6. Disagree(q, records, Len(records)) <=> Disagree(query, batch, Len(batch))'
    BY <1>2 DEF Disagree
  <1>7. OpenFeud'
    BY <1>1, <1>2, <1>3, <1>6 DEF FeudInv, OpenFeud
  <1>8. Fetched'
    BY <1>2, <1>3 DEF FeudInv, Fetched, Before
  <1>9. DisagreementsAreShown'
    <2>1. phase = "fetching"
      BY <1>2 DEF Fetching
    <2> QED BY <2>1, <1>2, <1>4 DEF FeudInv, Fetched, DisagreementsAreShown
  <1> QED BY <1>5, <1>7, <1>8, <1>9 DEF FeudInv

LEMMA FeudsAfterSift == ASSUME FeudInv, Sift PROVE FeudInv'
  <1>1. UNCHANGED <<phase, spec, groups, panels, skipped, key, cache, band, feuds, query, batch>>
    BY DEF Sift, Consider, job, out, work
  <1> QED BY <1>1, FeudsStay

LEMMA FeudsAfterCollect == ASSUME RunInv, FeudInv, Collect PROVE FeudInv'
  <1>1. /\ UNCHANGED <<phase, spec, groups, panels, skipped, key, cache, feuds>>
        /\ query # None /\ query' = None /\ band' = NewBand
    BY DEF Collect, OpenBatch, job, out
  <1>2. UNCHANGED <<Fetching, Hit, Sought, Sats, Turn>>
    BY <1>1 DEF Fetching, Hit, Sought, Sats, Turn
  <1>3. Fetching /\ ~Hit
    BY <1>1 DEF RunInv, Object
  <1>4. at - 1 = Len(batch)
    BY LenProperties DEF RunInv, LoopInv, LoopTyped, Collect
  <1>5. conflicts > 0 <=> Disagree(query, batch, Len(batch))
    BY <1>4, ConflictsTell DEF RunInv
  <1>6. band' = "alert" <=> conflicts > 0 \/ band = "alert"
    BY <1>1 DEF NewBand
  <1>7. OpenFeud'
    BY <1>1, <1>2, <1>3, <1>5, <1>6 DEF FeudInv, OpenFeud
  <1>8. CachedFeuds' /\ Fetched' /\ DisagreementsAreShown'
    BY <1>1, <1>2 DEF FeudInv, CachedFeuds, Fetched, DisagreementsAreShown, Before
  <1> QED BY <1>7, <1>8 DEF FeudInv

LEMMA FeudsAfterKeep == ASSUME RunInv, FeudInv, Keep PROVE FeudInv'
  <1>1. /\ UNCHANGED <<phase, spec, groups, panels, skipped, key, feuds>>
        /\ Fetching /\ ~Hit /\ query = None
        /\ DOMAIN cache' = DOMAIN cache \cup {Sought}
        /\ cache'[Sought].band = band
        /\ \A k \in DOMAIN cache : cache'[k] = cache[k]
    BY DEF Keep, Hit, job, out
  <1>2. UNCHANGED <<Fetching, Sought, Sats, Turn>>
    BY <1>1 DEF Fetching, Sought, Sats, Turn
  <1>3. Sought \in feuds <=> band = "alert"
    BY <1>1 DEF FeudInv, OpenFeud
  <1>4. CachedFeuds'
    BY <1>1, <1>2, <1>3 DEF FeudInv, CachedFeuds
  <1>5. OpenFeud'
    BY <1>1, <1>2 DEF OpenFeud, Hit
  <1>6. Fetched' /\ DisagreementsAreShown'
    BY <1>1, <1>2 DEF FeudInv, Fetched, DisagreementsAreShown, Before
  <1> QED BY <1>4, <1>5, <1>6 DEF FeudInv

\* On to another object: all that were met with a disagreement are in the cache.
LEMMA FeudsMoveOn ==
    ASSUME CachedFeuds, \A k \in feuds : k \in DOMAIN cache,
           phase' = "fetching", query' = None, band' = "none", UNCHANGED <<cache, feuds>>
    PROVE  CachedFeuds' /\ OpenFeud'
  <1>1. CachedFeuds'
    BY DEF CachedFeuds
  <1>2. Fetching' /\ ~Hit' => Sought' \notin feuds'
    BY DEF Hit
  <1> QED BY <1>1, <1>2 DEF OpenFeud

LEMMA FeudsAfterCached == ASSUME RunInv, FeudInv, Cached PROVE FeudInv'
  <1>1. /\ UNCHANGED <<phase, spec, groups, panels, skipped, answers, band, cache, feuds, query>>
        /\ Fetching /\ Hit /\ query = None /\ phase = "fetching" /\ band = "none"
        /\ Turn <= Len(groups) /\ key' = NextKey
    BY DEF Cached, Fetching, RunInv, Object, job, out, quality
  <1>2. UNCHANGED <<Sats, Turn>>
    BY <1>1 DEF Sats, Turn
  <1>3. \A k \in feuds : k \in DOMAIN cache
    BY <1>1 DEF FeudInv, CachedFeuds, Hit
  <1>4. CachedFeuds' /\ OpenFeud'
    BY <1>1, <1>3, FeudsMoveOn DEF FeudInv
  <1>5. ASSUME NEW i \in 1 .. Len(spec.modes), NEW j \in 1 .. Len(Sats), Before(i, j)'
        PROVE  <<Sats[j], spec.modes[i]>> \in DOMAIN cache
    <2>1. /\ key[1] \in Nat /\ key[2] \in Nat /\ Len(Sats) \in Nat /\ key[2] <= Len(Sats)
          /\ Len(spec.modes) \in Nat
      BY <1>1, FetchingNames DEF RunInv, RunTyped
    <2>2. Before(i, j) \/ (i = key[1] /\ j = key[2])
      BY <2>1, <1>1, <1>5 DEF Before, NextKey
    <2>3. CASE Before(i, j)
      BY <2>3, <1>1 DEF FeudInv, Fetched
    <2>4. CASE i = key[1] /\ j = key[2]
      BY <2>4, <1>1 DEF Hit, Sought
    <2> QED BY <2>2, <2>3, <2>4
  <1>6. Fetched'
    BY <1>1, <1>2, <1>5 DEF FeudInv, Fetched
  <1>7. DisagreementsAreShown'
    BY <1>1 DEF FeudInv, DisagreementsAreShown
  <1> QED BY <1>4, <1>6, <1>7 DEF FeudInv

\* When a group is drawn or skipped everything of it has been fetched.
LEMMA AllIsThere ==
    ASSUME RunInv, FeudInv, AllFetched
    PROVE  /\ phase = "fetching" /\ Turn <= Len(groups) /\ query = None /\ band = "none"
           /\ \A k \in feuds : k \in DOMAIN cache
           /\ \A s \in Objects(groups[Turn]), m \in Range(spec.modes) : <<s, m>> \in DOMAIN cache
  <1>1. /\ phase = "fetching" /\ Turn <= Len(groups) /\ Len(spec.modes) \in Nat
        /\ key[1] \in Nat /\ key[1] > Len(spec.modes) /\ groups[Turn] \in Stored
        /\ DOMAIN spec.modes = 1 .. Len(spec.modes)
    BY FetchingNames, LenProperties DEF RunInv, RunTyped, AllFetched
  <1>2. ~Fetching
    BY <1>1 DEF Fetching
  <1>3. query = None /\ band = "none"
    BY <1>2 DEF RunInv, Object
  <1>4. \A k \in feuds : k \in DOMAIN cache
    BY <1>1, <1>2 DEF FeudInv, CachedFeuds
  <1>5. ASSUME NEW s \in Objects(groups[Turn]), NEW m \in Range(spec.modes)
        PROVE  <<s, m>> \in DOMAIN cache
    <2>1. PICK j \in 1 .. Len(Sats) : s = Sats[j]
      BY <1>1, StoredGroup DEF Objects, Range, Sats
    <2>2. PICK i \in 1 .. Len(spec.modes) : m = spec.modes[i]
      BY <1>1 DEF Range
    <2>3. Before(i, j)
      BY <1>1 DEF Before
    <2> QED BY <2>1, <2>2, <2>3, <1>1 DEF FeudInv, Fetched
  <1> QED BY <1>1, <1>3, <1>4, <1>5

LEMMA FeudsAfterPanel == ASSUME RunInv, FeudInv, Panel PROVE FeudInv'
  <1>1. Steady /\ AllFetched
    BY DEF RunInv, Steady, Panel
  <1>2. /\ phase = "fetching" /\ Turn <= Len(groups) /\ query = None /\ band = "none"
        /\ \A k \in feuds : k \in DOMAIN cache
        /\ \A s \in Objects(groups[Turn]), m \in Range(spec.modes) : <<s, m>> \in DOMAIN cache
    BY <1>1, AllIsThere
  <1>3. /\ UNCHANGED <<phase, spec, groups, skipped, band, cache, feuds, query>> /\ key' = <<1, 1>>
    BY DEF Panel, job, quality
  <1>4. CachedFeuds' /\ OpenFeud'
    BY <1>2, <1>3, FeudsMoveOn DEF FeudInv
  <1>5. PICK refs \in [1 .. Len(spec.modes) -> SUBSET Objects(groups[Turn])] :
           panels'[Len(panels')] =
             [of |-> Turn, id |-> Len(panels), plotly |-> WithPlotly,
              band |-> Band(groups[Turn]), refs |-> refs, mode |-> DefaultMode(refs),
              ref |-> DefaultRef(groups[Turn], refs[DefaultMode(refs)])]
    BY <1>1, PanelIsNext
  <1>6. panels'[Len(panels')].of = Turn /\ panels'[Len(panels')].band = Band(groups[Turn])
    BY <1>5
  <1>7. /\ DOMAIN panels' = (DOMAIN panels) \cup {Len(panels')}
        /\ \A j \in DOMAIN panels : panels'[j] = panels[j]
    BY <1>1, NewPanel
  <1>8. Fetched'
    <2>1. \A i \in 1 .. Len(spec'.modes), j \in 1 .. Len(Sats') : ~Before(i, j)'
      BY <1>3 DEF Before
    <2>2. \A n \in DOMAIN panels' : \A s \in Objects(groups[panels'[n].of]), m \in Range(spec.modes) :
             <<s, m>> \in DOMAIN cache
      BY <1>2, <1>6, <1>7 DEF FeudInv, Fetched
    <2> QED BY <2>1, <2>2, <1>3 DEF Fetched
  <1>9. Band(groups[Turn]) = "alert" <=>
          \E s \in Objects(groups[Turn]), m \in Range(spec.modes) : <<s, m>> \in feuds
    <2>1. Band(groups[Turn]) = "alert" <=>
            \E s \in Objects(groups[Turn]), m \in Range(spec.modes) : cache[<<s, m>>].band = "alert"
      BY DEF Band
    <2> QED BY <2>1, <1>2 DEF FeudInv, CachedFeuds
  <1>10. DisagreementsAreShown'
    BY <1>3, <1>6, <1>7, <1>9 DEF FeudInv, DisagreementsAreShown
  <1> QED BY <1>4, <1>8, <1>10 DEF FeudInv

LEMMA FeudsAfterSkip == ASSUME RunInv, FeudInv, Skip PROVE FeudInv'
  <1>1. AllFetched
    BY DEF Skip
  <1>2. /\ phase = "fetching" /\ query = None /\ band = "none" /\ \A k \in feuds : k \in DOMAIN cache
    BY <1>1, AllIsThere
  <1>3. /\ UNCHANGED <<phase, spec, groups, panels, band, cache, feuds, query>> /\ key' = <<1, 1>>
    BY DEF Skip, job, quality
  <1>4. CachedFeuds' /\ OpenFeud'
    BY <1>2, <1>3, FeudsMoveOn DEF FeudInv
  <1>5. \A i \in 1 .. Len(spec'.modes), j \in 1 .. Len(Sats') : ~Before(i, j)'
    BY <1>3 DEF Before
  <1>6. Fetched' /\ DisagreementsAreShown'
    BY <1>2, <1>3, <1>5 DEF FeudInv, Fetched, DisagreementsAreShown
  <1> QED BY <1>4, <1>6 DEF FeudInv

\* Before and after the groups are fetched.
LEMMA FeudsAtRest ==
    ASSUME RunInv, RunInv', FeudInv, phase' # "fetching",
           \/ panels' = <<>>
           \/ UNCHANGED <<panels, spec, groups, feuds>>
    PROVE  FeudInv'
  <1>1. cache' = Empty /\ key' = <<1, 1>>
    BY DEF RunInv, Stages
  <1>2. CASE panels' = <<>>
    <2>1. DOMAIN cache' = {} /\ DOMAIN panels' = {}
      BY <1>1, <1>2 DEF Empty
    <2> QED BY <2>1 DEF FeudInv, CachedFeuds, OpenFeud, Fetched, DisagreementsAreShown, Fetching
  <1>3. CASE UNCHANGED <<panels, spec, groups, feuds>>
    <2>1. DOMAIN cache' = {}
      BY <1>1 DEF Empty
    <2>2. DisagreementsAreShown'
      BY <1>3 DEF FeudInv, DisagreementsAreShown
    <2> QED BY <2>1, <2>2 DEF FeudInv, CachedFeuds, OpenFeud, Fetched, Fetching
  <1> QED BY <1>2, <1>3

LEMMA FeudsAfterNames == ASSUME RunInv, FeudInv, Names PROVE FeudInv'
  <1>1. /\ panels' = <<>> /\ cache' = Empty /\ key' = <<1, 1>>
        /\ feuds' = {} /\ band' = "none" /\ query' = None
    BY DEF RunInv, Stages, Object, Names, Fetching, out, work, quality
  <1>2. DOMAIN cache' = {} /\ DOMAIN panels' = {}
    BY <1>1 DEF Empty
  <1>3. \A i \in 1 .. Len(spec'.modes), j \in 1 .. Len(Sats') : ~Before(i, j)'
    BY <1>1 DEF Before
  <1> QED
    BY <1>1, <1>2, <1>3 DEF FeudInv, CachedFeuds, OpenFeud, Fetched, DisagreementsAreShown

LEMMA NextFeuds == RunInv /\ RunInv' /\ FeudInv /\ [Next]_vars => FeudInv'
  <1> SUFFICES ASSUME RunInv, RunInv', FeudInv, [Next]_vars PROVE FeudInv'
    OBVIOUS
  <1>1. CASE Cached \/ Ask \/ Sift \/ Collect \/ Keep
    BY <1>1, FeudsAfterCached, FeudsAfterAsk, FeudsAfterSift, FeudsAfterCollect, FeudsAfterKeep
  <1>2. CASE Names \/ Panel \/ Skip
    BY <1>2, FeudsAfterNames, FeudsAfterPanel, FeudsAfterSkip
  <1>3. CASE Submit \/ Take \/ ReadGroup \/ BuildReport
    <2>1. phase' # "fetching" /\ panels' = <<>>
      BY <1>3 DEF Submit, Take, ReadGroup, BuildReport, Fail, RunInv, Stages, out
    <2> QED BY <2>1, FeudsAtRest
  <1>4. CASE \E g \in Group : Edit(g)
    <2>1. phase' # "fetching" /\ UNCHANGED <<panels, spec, groups, feuds>>
      BY <1>4 DEF Edit, job, out
    <2> QED BY <2>1, FeudsAtRest
  <1>5. CASE Finish \/ Raises
    <2>1. phase' # "fetching" /\ (panels' = <<>> \/ UNCHANGED <<panels, spec, groups, feuds>>)
      BY <1>5 DEF Finish, Raises, Fail, Drop, job, out
    <2> QED BY <2>1, FeudsAtRest
  <1>6. CASE UNCHANGED vars
    <2>1. UNCHANGED <<phase, spec, groups, panels, skipped, key, cache, band, feuds, query, batch>>
      BY <1>6 DEF vars, job, out, work, quality
    <2> QED BY <2>1, FeudsStay
  <1> QED BY <1>1, <1>2, <1>3, <1>4, <1>5, <1>6 DEF Next

\* The band of a panel says that records disagree exactly if some did that were
\* fetched for its objects.
THEOREM DisagreementsShown == Spec => []DisagreementsAreShown
  <1>1. Init => FeudInv
    <2> SUFFICES ASSUME Init PROVE FeudInv
      OBVIOUS
    <2>1. panels = <<>> /\ cache = Empty /\ key = <<1, 1>> /\ phase = "idle" /\ RunInv
      BY InitRun DEF Init
    <2> QED BY <2>1, FeudsBegin
  <1>2. FeudInv => DisagreementsAreShown
    BY DEF FeudInv
  <1> QED BY <1>1, <1>2, NextFeuds, RunInvHolds, PTL DEF Spec
=============================================================================
