----------------------------- MODULE MCConfigFs -----------------------------
(***************************************************************************)
(* Instances of ConfigFs for TLC.                                          *)
(***************************************************************************)
EXTENDS ConfigFs, TLC

CONSTANTS t1, t2, p1, p2

\* A thread in each of two processes whose pids are the same, as in two
\* containers that share a configfs mount; or whose pids are distinct.
TwoProcs == (t1 :> p1) @@ (t2 :> p2)
SamePid == (p1 :> 1) @@ (p2 :> 1)
OwnPid == (p1 :> 1) @@ (p2 :> 2)

\* Two threads that share one handle.
OneProc == (t1 :> p1) @@ (t2 :> p1)
OnePid == (p1 :> 1)

\* A single thread, for runs about what others do to its directory.
OneThread == (t1 :> p1)

\* A provider that answers with whatever report was ever seen, at any level,
\* or with something that is not a report.
AnyAnswer == [data : Data, vmpl : Level, tcb : {0}] \cup {Malformed}

Symmetry == Permutations(Data)

=============================================================================
