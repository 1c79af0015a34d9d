----------------------------- MODULE MCCertTable ----------------------------
(***************************************************************************)
(* CertTable on every blob of up to thirteen bytes, with entries of three  *)
(* bytes, room for four of them, and a limit of three entries and twelve   *)
(* bytes: two entries of one kind, or of two, fit before the terminator.   *)
(***************************************************************************)
EXTENDS CertTable

\* Bodies without a byte and bodies that cover most of the blob, inside of it
\* and beyond its end.
SomePlaces == {0, 10}

=============================================================================
