--------------------------- MODULE MCUploadIngest ---------------------------
(***************************************************************************)
(* UploadIngest for TLC: one upload, and two datasets, one that has a file *)
(* in datasets/ as well and one under the id of the upload.                *)
(***************************************************************************)
EXTENDS UploadIngest, TLC

CONSTANTS u1, d1, good, bad

FileOfDataset == d1 :> good @@ u1 :> None

Request(d, upload, key, admitted) ==
  [dataset |-> d, upload |-> upload, key |-> key, admitted |-> admitted]

(* A request for the upload, one without a key, one that uses the key again *)
(* for another dataset, and one from an actor that may not ingest.          *)
SomeRequests ==
  {Request(d1, u1, "k", TRUE), Request(d1, None, NoKey, TRUE),
   Request(u1, None, "k", TRUE), Request(d1, u1, "k", FALSE)}

Symmetry == Permutations(Threads)
=============================================================================
