--------------------------- MODULE MCSourceRequests ---------------------------
(* Every kind of feed, with two record ids (one storm), and registrations  *)
(* of two names that lead to one id, under ids that differ in case.        *)
EXTENDS SourceRequests, TLC

CONSTANTS t1, t2, n1, n2, n3

MCKinds == Kinds \cup {"registration"}

MCLower(key) == IF key = "A" THEN "a" ELSE key
MCDerived(name) == "n"

Interchangeable == Permutations({t1, t2})
=============================================================================
