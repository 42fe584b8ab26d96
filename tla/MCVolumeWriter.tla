--------------------------- MODULE MCVolumeWriter ---------------------------
(* VolumeWriter on a few files, documents and mounts, for TLC. *)
EXTENDS VolumeWriter, TLC

CONSTANTS t1, t2, r1, r2, d1, d2

\* Threads are interchangeable, and so are reports, and documents.
Symmetry == Permutations({t1, t2}) \cup Permutations({r1, r2})
                                   \cup Permutations({d1, d2})

\* Every mount there is.
AnyMount == SUBSET Call
\* A mount with every call, which fail now and then.
Posix   == {Call}
=============================================================================
