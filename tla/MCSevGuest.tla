----------------------------- MODULE MCSevGuest -----------------------------
(***************************************************************************)
(* Instances of SevGuest for TLC.                                          *)
(***************************************************************************)
EXTENDS SevGuest

\* The failures an ioctl may end in whatever is asked: a busy or unknown
\* hypervisor status and a firmware status, with the generic errno, and an
\* errno alone, transient and not.
SomeFaults ==
  {Broken("Busy", "none", "Io"), Broken("Busy", "rejected", None),
   Broken("Unknown", "none", "Io"), Broken("none", "rejected", "Io"),
   Broken("none", "none", "IoBusy"), Broken("none", "none", "Io")}

\* A kernel that hands out any report it has ever seen, or no report.
AnyAnswer == [data : Data, vmpl : Level, tcb : {0}] \cup {Malformed}

=============================================================================
