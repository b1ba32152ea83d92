--------------------------- MODULE MCMatrixUpdate ---------------------------
(* Two processor series, the older with one certification column and the newer
   with two; a certificate for every column and one that no table has room for. *)
EXTENDS MatrixUpdate

MCProcs   == {"7003", "9004"}
MCColumns == [p \in MCProcs |-> IF p = "7003" THEN <<"3.0">> ELSE <<"3.0", "3.1">>]
MCNative  == [p \in MCProcs |-> IF p = "7003" THEN "3.0" ELSE "3.1"]
MCReadme  == <<"7003", "9004">>

MCCertificates == [os : OSes, proc : MCProcs, version : {"3.0", "3.1"}]
=============================================================================
