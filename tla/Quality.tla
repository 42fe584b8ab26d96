------------------------------- MODULE Quality -------------------------------
(***************************************************************************)
(* dedupe and dedupe_mixed of timeslides/quality.py: one batch of records, *)
(* the answer to one query, is gone through record by record.  What is     *)
(* kept is one record for each source and epoch; the others are counted as *)
(* duplicates (same values) or conflicts (other values).                   *)
(*                                                                         *)
(* dedupe_mixed splits the element sets by source and dedupes each part;   *)
(* parts do not meet, so one pass with the source in the key does the      *)
(* same.  The order of what is kept is left out.                           *)
(***************************************************************************)
EXTENDS Naturals, Sequences, FiniteSets

CONSTANTS None,         \* no query; no source
          Elsets,       \* ELSET_KEY: the query that is not filtered by source
          Unattributed, \* the label of a record without a source
          Record        \* [source, epoch, value, created]; created is the place of
                        \* its stamp in the order of strings, 0 without one

ASSUME QualityAssumption ==
    /\ Elsets # None
    /\ \A r \in Record : r.epoch \in Nat /\ r.created \in Nat

VARIABLES
    query,     \* the query whose answer is gone through, or None
    batch,     \* its records
    at,        \* the next of them
    kept,      \* by_identity, for all sources
    dups,      \* duplicates
    conflicts, \* the number of conflicts
    arbitrary  \* source and epoch of those that nothing decided

quality == <<query, batch, at, kept, dups, conflicts, arbitrary>>

\* What becomes of a record in the answer to q.  For a provider the label is the
\* provider, since the query was filtered by it.
Label(q, r) == IF q # Elsets THEN q ELSE IF r.source = None THEN Unattributed ELSE r.source
Point(q, r) == [label |-> Label(q, r), epoch |-> r.epoch, value |-> r.value,
                created |-> r.created]
Spot(p)     == <<p.label, p.epoch>>

\* No answer is being gone through.
NoBatch ==
    /\ query = None /\ batch = <<>> /\ at = 1
    /\ kept = {} /\ dups = 0 /\ conflicts = 0 /\ arbitrary = {}

OpenBatch(q, records) ==
    /\ query' = q /\ batch' = records /\ at' = 1
    /\ kept' = {} /\ dups' = 0 /\ conflicts' = 0 /\ arbitrary' = {}

Current == Point(query, batch[at])

\* The loop is at a record of a source and epoch it has not met,
First ==
    /\ \A p \in kept : Spot(p) # Spot(Current)
    /\ kept' = kept \cup {Current}
    /\ UNCHANGED <<dups, conflicts, arbitrary>>

\* or of the same values as the one it has kept,
Repeated ==
    /\ \E p \in kept : Spot(p) = Spot(Current) /\ p.value = Current.value
    /\ dups' = dups + 1
    /\ UNCHANGED <<kept, conflicts, arbitrary>>

Replaced(p) == (kept \ {p}) \cup {Current}

\* Mutant: a conflict is arbitrary only if there are no stamps at all.
Unstamped(p) == Current.created = 0 /\ p.created = 0

Undecided(p) == Current.created = p.created

\* or of others: the more recently created one is kept, else the first.
Disputed ==
    \E p \in kept :
      /\ Spot(p) = Spot(Current) /\ p.value # Current.value
      /\ conflicts' = conflicts + 1
      /\ kept' = IF Current.created > p.created THEN Replaced(p) ELSE kept
      /\ arbitrary' = IF Undecided(p) THEN arbitrary \cup {Spot(p)} ELSE arbitrary
      /\ dups' = dups

\* One turn of the loop.
Consider ==
    /\ query # None /\ at <= Len(batch)
    /\ First \/ Repeated \/ Disputed
    /\ at' = at + 1
    /\ UNCHANGED <<query, batch>>

-----------------------------------------------------------------------------
(***************************************************************************)
(* Properties.                                                             *)
(***************************************************************************)
Considered == {Point(query, batch[j]) : j \in 1 .. at - 1}

\* Do the first n records of an answer to q disagree anywhere?
Disagree(q, records, n) ==
    \E j, k \in 1 .. n : /\ Spot(Point(q, records[j])) = Spot(Point(q, records[k]))
                         /\ records[j].value # records[k].value

\* A record that comes twice carries the same stamp both times.
StampsAgree ==
    \A x, y \in Considered : Spot(x) = Spot(y) /\ x.value = y.value => x = y

\* One point for each source and epoch, and every record is plotted, a duplicate
\* or the loser of a conflict (quality.py:54-94).
NothingIsLost ==
    /\ \A p, o \in kept : Spot(p) = Spot(o) => p = o
    /\ Cardinality(kept) + dups + conflicts = at - 1

\* Whatever order the records came in: the one that is plotted is the most
\* recently created of its source and epoch, and where no conflict was said to be
\* arbitrary it is so alone, so that every order gives it (quality.py:16-17, 63-75).
NewestIsKept ==
    StampsAgree => \A x \in Considered : \E p \in kept :
        /\ Spot(p) = Spot(x) /\ p.created >= x.created
        /\ p.value # x.value /\ Spot(x) \notin arbitrary => p.created > x.created

\* "A conflict is resolved in favour of the most recently created record, which is
\* the one a provider that reissued a correction would want plotted"
\* (quality.py:32-33), also when a record was issued again as it had been.
ReissueIsKept ==
    \A p \in kept : \E x \in Considered :
        /\ Spot(x) = Spot(p) /\ x.value = p.value
        /\ \A y \in Considered : Spot(y) = Spot(p) => y.created <= x.created
=============================================================================
