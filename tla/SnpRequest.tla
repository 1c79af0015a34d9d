----------------------------- MODULE SnpRequest -----------------------------
(***************************************************************************)
(* What the two transports of the crate have in common: a report request,  *)
(* the attestation report that answers it, the errors a call can end in    *)
(* and which of them a retry may cure.                                     *)
(*                                                                         *)
(* Data is abstract: 64 bytes of report data are a member of Data, a VMPL  *)
(* is a member of Level and a TCB version is a number that only grows.     *)
(* None stands for every Option::None, and for an attribute nobody wrote.  *)
(***************************************************************************)
EXTENDS Naturals

CONSTANTS
  Data,       \* the report data callers bind into reports
  Level,      \* the VMPLs the firmware signs at
  None,       \* no value
  Malformed   \* bytes that do not parse as what was expected of them

ReportRequest == [data : Data, vmpl : Level \cup {None}]

\* The fields of a report that tie it to a request, and the TCB it was
\* signed at.
AttestationReport == [data : Data, vmpl : Level, tcb : Nat]

\* A certificate chain is known by the TCB its VCEK certifies; None is the
\* empty table of a host that provisioned nothing.
Chain == Nat \cup {None}

Error == {"NoBackend", "WrongProvider", "InvalidArgument", "Unsupported",
          "Parse", "Mismatch", "Raced", "VmmBusy", "Vmm", "Firmware",
          "IoBusy", "IoExists", "Io"}

ASSUME NoneAssumption ==
  /\ None \notin Data /\ None \notin Level /\ None \notin Nat
  /\ None \notin Error /\ None \notin ReportRequest
  /\ None \notin AttestationReport
  /\ Malformed \notin Nat \cup {None} /\ Malformed \notin AttestationReport

\* verify_answers: the report carries the data of the request and, when the
\* request names a level, was signed at that level.
VerifyAnswers(request, report) ==
  /\ report.data = request.data
  /\ request.vmpl # None => report.vmpl = request.vmpl

\* Mutant of IsTransient: an answer to another request is asked for again.
IsTransientOrMismatch(error) ==
  error \in {"Raced", "VmmBusy", "IoBusy", "Mismatch"}

\* is_transient: the errors retrying asks again on.
IsTransient(error) == error \in {"Raced", "VmmBusy", "IoBusy"}

\* What a call returns: an error, or a report and, for extended_report, the
\* chain delivered with it.
CallResult == [error  : Error \cup {None},
               report : AttestationReport \cup {None},
               chain  : Chain]

Failed(error) == [error |-> error, report |-> None, chain |-> None]
Answered(report, chain) ==
  [error |-> None, report |-> report, chain |-> chain]

\* The result of a call that has not returned, and of one with no payload.
NoResult == [error |-> None, report |-> None, chain |-> None]

=============================================================================
