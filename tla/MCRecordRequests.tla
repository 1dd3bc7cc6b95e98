--------------------------- MODULE MCRecordRequests ---------------------------
(* Two packages of one schema, which may derive from each other, and one   *)
(* of another; two threads.                                                *)
EXTENDS RecordRequests, TLC

CONSTANTS t1, t2, p1, p2, p3

MCMajor == (p1 :> 1) @@ (p2 :> 1) @@ (p3 :> 2)

MCRecords == {<<"identity", "ada">>, <<"configuration", "theme">>}
MCRequiredOf == ("identity" :> {"display_name"}) @@ ("configuration" :> {"key", "value"})

Interchangeable == Permutations({t1, t2}) \cup Permutations({p1, p2})
=============================================================================
