------------------------------ MODULE SevGuest ------------------------------
(***************************************************************************)
(* The /dev/sev-guest transport: one ioctl per guest request, two for an   *)
(* extended report whose certificates need a buffer, and the retries of    *)
(* Firmware around them.                                                   *)
(*                                                                         *)
(* The kernel serialises guest requests, so an ioctl, with what the code   *)
(* makes of its outcome before the next one, is one step.  Between two     *)
(* ioctls of a call other threads and processes make theirs, and the host  *)
(* provisions certificates anew.                                           *)
(*                                                                         *)
(* External, and modelled from how the code uses it: the device spends a   *)
(* message sequence number on every request, may lose its VMPCK for good   *)
(* when a request fails, answers a certificate buffer that is too small    *)
(* with InvalidLen and the size it needs, and rejects a level more         *)
(* privileged than the guest's own.                                        *)
(***************************************************************************)
EXTENDS SnpRequest

CONSTANTS
  Thread,
  Retries,           \* entries of RETRY_BACKOFF
  Operation,         \* the operations called, among those of Call
  GuestLevel,        \* the VMPL the guest runs at
  Version,           \* the message versions a caller may set
  Stray,             \* responses a misbehaving kernel may hand out instead
  Fault,             \* how an ioctl may fail whatever is asked
  CERT_MAX,          \* the largest certificate buffer
  CERT_GRANULARITY,  \* certificate buffers are a multiple of this
  CertSize,          \* sizes a host may ask for; 0 when it provides nothing
  MaxCalls,          \* bound: calls a thread makes
  MaxTcb             \* bound: times the host provisions anew

\* What the kernel leaves behind an ioctl: the two halves of EXITINFO2, the
\* errno (or None), and the status and payload of the response.
VmmCode == {"none", "InvalidLen", "Busy", "Unknown"}
Outcome == [vmm    : VmmCode,
            fw     : {"none", "rejected"},
            errno  : {None, "IoBusy", "Io"},
            status : {"success", "rejected"},
            report : AttestationReport \cup {Malformed},
            certs  : Chain \cup {Malformed},
            needed : Nat]

\* An ioctl that leaves nothing but these three fields behind.
Broken(vmm, fw, errno) ==
  [vmm |-> vmm, fw |-> fw, errno |-> errno, status |-> "rejected",
   report |-> Malformed, certs |-> None, needed |-> 0]

ASSUME SevGuestAssumption ==
  /\ None \notin Thread
  /\ Retries \in Nat /\ MaxCalls \in Nat /\ MaxTcb \in Nat
  /\ CERT_MAX \in Nat /\ CERT_GRANULARITY \in Nat \ {0}
  /\ CertSize \subseteq Nat
  /\ Operation \subseteq {"report", "extended_report", "derive_key"}
  /\ Version \subseteq 0 .. 255
  /\ Level \subseteq Nat /\ 0 \in Level /\ GuestLevel \in Level
  /\ Stray \subseteq AttestationReport \cup {Malformed}
  /\ \A o \in Fault : o \in Outcome /\ (o.errno = None => o.vmm # "none" \/ o.fw # "none")

VARIABLES
  honest,        \* whether the kernel answers every request itself
  version,       \* the message version of the handle, 0 once it is given up
  vmpck,         \* whether the device still has its key
  tcb,           \* the TCB the host runs at
  certSize,      \* the buffer its certificates need
  calls,         \* per thread: calls made so far
  pc,            \* per thread: the ioctl it is about to make
  call,          \* per thread: the operation and request of its call
  backoff,       \* per thread: delays its call may still sleep
  buffer,        \* per thread: the certificate buffer of its request
  issued,        \* per thread: guest requests of its call, a history
  last,          \* per thread: what the kernel last left, a history
  result         \* per thread: what its last call returned

device == <<honest, version>>
host == <<tcb, certSize>>
vars == <<device, vmpck, host, calls, pc, call, backoff, buffer, issued, last, result>>

Attesting == {"report", "extended_report"}
Call == [op : Attesting, request : ReportRequest]
        \cup [op : {"derive_key"}, request : {None}]

\* Mutant of FirstIoctl: an extended report is asked for as a plain one.
FirstIoctlPlain(op) == IF op = "derive_key" THEN "key" ELSE "report"

\* The ioctl an attempt starts with.
FirstIoctl(op) ==
  CASE op = "report" -> "report"
    [] op = "extended_report" -> "probe"
    [] op = "derive_key" -> "key"

Init ==
  /\ honest \in BOOLEAN
  /\ version = 1
  /\ vmpck = TRUE
  /\ tcb = 0
  /\ certSize \in CertSize
  /\ calls = [t \in Thread |-> 0]
  /\ pc = [t \in Thread |-> "idle"]
  /\ call = [t \in Thread |-> [op |-> "derive_key", request |-> None]]
  /\ backoff = [t \in Thread |-> 0]
  /\ buffer = [t \in Thread |-> 0]
  /\ issued = [t \in Thread |-> 0]
  /\ last = [t \in Thread |-> Broken("none", "none", None)]
  /\ result = [t \in Thread |-> NoResult]

-----------------------------------------------------------------------------
(***************************************************************************)
(* The device.                                                             *)
(***************************************************************************)

\* Mutant of WireLevel: the least privileged level when none is named.
WireLevelLeast(request) ==
  IF request.vmpl = None THEN CHOOSE l \in Level : \A m \in Level : m <= l
                         ELSE request.vmpl

\* report_req: a request that names no level asks for level 0.
WireLevel(request) == IF request.vmpl = None THEN 0 ELSE request.vmpl

\* What the firmware makes of a report request.
Firmware(request) ==
  IF WireLevel(request) < GuestLevel
  THEN Broken("none", "rejected", "Io")
  ELSE [vmm |-> "none", fw |-> "none", errno |-> None, status |-> "success",
        report |-> [data |-> request.data, vmpl |-> WireLevel(request),
                    tcb |-> tcb],
        certs |-> None, needed |-> 0]

\* The key request: a derived key, or a status that says why there is none.
KeyOutcomes ==
  {[Broken("none", "none", None) EXCEPT !.status = status] :
     status \in {"success", "rejected"}}

\* What a kernel that is not honest may hand out instead of the answer.
StrayNow == IF honest THEN {} ELSE Stray
Instead(o, report, certs) == [o EXCEPT !.report = report, !.certs = certs]

ReportOutcomes(request) ==
  LET o == Firmware(request) IN {o} \cup {[o EXCEPT !.report = s] : s \in StrayNow}

\* The extended request, with a buffer of this many bytes.
ExtOutcomes(request, size) ==
  IF certSize > size
  THEN {[Broken("InvalidLen", "none", "Io") EXCEPT !.needed = certSize]}
  ELSE {[Firmware(request) EXCEPT !.certs = IF certSize = 0 THEN None ELSE tcb]}
       \cup {Instead(Firmware(request), s, c) :
               s \in StrayNow, c \in {None, Malformed}}

\* Every way the next ioctl of a thread may turn out.  The firmware knows
\* message version 1 only.
Ioctl(t) ==
  IF ~vmpck THEN {Broken("none", "none", "Io")}
  ELSE IF version # 1 THEN Fault \cup {Broken("none", "rejected", "Io")}
  ELSE Fault \cup
    CASE pc[t] = "key" -> KeyOutcomes
      [] pc[t] = "report" -> ReportOutcomes(call[t].request)
      [] pc[t] \in {"probe", "fetch"} -> ExtOutcomes(call[t].request, buffer[t])
      [] pc[t] = "idle" -> {}

-----------------------------------------------------------------------------
(***************************************************************************)
(* What the code makes of an outcome.                                      *)
(***************************************************************************)

\* Mutant of IssueError: the errno goes before the status of the hypervisor.
IssueErrorErrnoFirst(o) ==
  CASE o.errno # None -> o.errno
    [] o.errno = None /\ o.vmm = "Busy" -> "VmmBusy"
    [] o.errno = None /\ o.vmm \in {"InvalidLen", "Unknown"} -> "Vmm"
    [] o.errno = None /\ o.vmm = "none" ->
         IF o.fw # "none" THEN "Firmware" ELSE None

\* from_exitinfo2 and issue: the hypervisor's word goes before the
\* firmware's, and both before the errno.
IssueError(o) ==
  CASE o.vmm = "Busy" -> "VmmBusy"
    [] o.vmm \in {"InvalidLen", "Unknown"} -> "Vmm"
    [] o.vmm = "none" /\ o.fw # "none" -> "Firmware"
    [] o.vmm = "none" /\ o.fw = "none" -> o.errno

\* requested_cert_len
Plausible(needed) ==
  needed # 0 /\ needed <= CERT_MAX /\ needed % CERT_GRANULARITY = 0

\* Mutant of Judge: nobody checks that the report answers the request.
JudgeUnverified(c, o) ==
  IF o.status # "success" THEN Failed("Firmware")
  ELSE IF c.op = "derive_key" THEN NoResult
  ELSE IF o.report = Malformed THEN Failed("Parse")
  ELSE IF c.op = "report" THEN Answered(o.report, None)
  ELSE IF o.certs = Malformed THEN Failed("Parse")
  ELSE Answered(o.report, o.certs)

\* parse_response, verify_answers and, for an extended report, the
\* certificate table; derive_key looks at the status alone.
Judge(c, o) ==
  IF o.status # "success" THEN Failed("Firmware")
  ELSE IF c.op = "derive_key" THEN NoResult
  ELSE IF o.report = Malformed THEN Failed("Parse")
  ELSE IF ~VerifyAnswers(c.request, o.report) THEN Failed("Mismatch")
  ELSE IF c.op = "report" THEN Answered(o.report, None)
  ELSE IF o.certs = Malformed THEN Failed("Parse")
  ELSE Answered(o.report, o.certs)

Goto(t, label) == pc' = [pc EXCEPT ![t] = label]

\* Mutants of Settle: one delay too many, delays that are never used up, and
\* a buffer that outlives its attempt.
SettleOnceMore(t, res) ==
  /\ buffer' = [buffer EXCEPT ![t] = 0]
  /\ IF res.error # None /\ IsTransient(res.error) /\ backoff[t] >= 0
     THEN /\ backoff' = [backoff EXCEPT ![t] = @ - 1]
          /\ Goto(t, FirstIoctl(call[t].op))
          /\ UNCHANGED result
     ELSE /\ Goto(t, "idle")
          /\ result' = [result EXCEPT ![t] = res]
          /\ UNCHANGED backoff

SettleForever(t, res) ==
  /\ buffer' = [buffer EXCEPT ![t] = 0]
  /\ UNCHANGED backoff
  /\ IF res.error # None /\ IsTransient(res.error) /\ backoff[t] > 0
     THEN Goto(t, FirstIoctl(call[t].op)) /\ UNCHANGED result
     ELSE Goto(t, "idle") /\ result' = [result EXCEPT ![t] = res]

SettleSameBuffer(t, res) ==
  /\ UNCHANGED buffer
  /\ IF res.error # None /\ IsTransient(res.error) /\ backoff[t] > 0
     THEN /\ backoff' = [backoff EXCEPT ![t] = @ - 1]
          /\ Goto(t, FirstIoctl(call[t].op))
          /\ UNCHANGED result
     ELSE /\ Goto(t, "idle")
          /\ result' = [result EXCEPT ![t] = res]
          /\ UNCHANGED backoff

\* retrying: a transient error is tried again while a delay is left.
Settle(t, res) ==
  /\ buffer' = [buffer EXCEPT ![t] = 0]
  /\ IF res.error # None /\ IsTransient(res.error) /\ backoff[t] > 0
     THEN /\ backoff' = [backoff EXCEPT ![t] = @ - 1]
          /\ Goto(t, FirstIoctl(call[t].op))
          /\ UNCHANGED result
     ELSE /\ Goto(t, "idle")
          /\ result' = [result EXCEPT ![t] = res]
          /\ UNCHANGED backoff

-----------------------------------------------------------------------------
\* A call through Firmware has every delay of RETRY_BACKOFF, one on the
\* backend itself none, and derive_key never has any; it ends before its
\* ioctl when validate rejects the request.
Begin(t, c, delays) ==
  /\ version # 0
  /\ pc[t] = "idle" /\ calls[t] < MaxCalls /\ c.op \in Operation
  /\ c.op = "derive_key" => delays = 0
  /\ calls' = [calls EXCEPT ![t] = @ + 1]
  /\ call' = [call EXCEPT ![t] = c]
  /\ backoff' = [backoff EXCEPT ![t] = delays]
  /\ issued' = [issued EXCEPT ![t] = 0]
  /\ last' = [last EXCEPT ![t] = Broken("none", "none", None)]
  /\ \/ /\ Goto(t, FirstIoctl(c.op))
        /\ result' = [result EXCEPT ![t] = NoResult]
     \/ /\ c.op = "derive_key"
        /\ result' = [result EXCEPT ![t] = Failed("InvalidArgument")]
        /\ UNCHANGED pc
  /\ UNCHANGED <<device, vmpck, host, buffer>>

\* with_msg_version takes the handle by value: no call is using it, and a
\* version of zero gives it up.
WithMsgVersion(v) ==
  /\ version # 0 /\ \A t \in Thread : pc[t] = "idle"
  /\ version' = v
  /\ UNCHANGED <<honest, vmpck, host, calls, pc, call, backoff, buffer, issued,
                 last, result>>

\* Bound: the history of a call stops counting at one request more than the
\* costliest call may make.
MaxIssued == 2 * (Retries + 1) + 1

\* An ioctl: the request is spent whatever comes of it.
Spend(t, o) ==
  /\ pc[t] # "idle" /\ o \in Ioctl(t)
  /\ issued' = [issued EXCEPT ![t] = IF @ < MaxIssued THEN @ + 1 ELSE @]
  /\ last' = [last EXCEPT ![t] = o]
  /\ vmpck' \in {vmpck, vmpck /\ o.errno # "Io"}
  /\ UNCHANGED <<device, host, calls, call>>

\* The probe of extended_report learns how large a buffer to come back with.
ProbeTooSmall(t, o) ==
  /\ pc[t] = "probe" /\ o.vmm = "InvalidLen" /\ Plausible(o.needed)
  /\ Spend(t, o)
  /\ buffer' = [buffer EXCEPT ![t] = o.needed]
  /\ Goto(t, "fetch")
  /\ UNCHANGED <<backoff, result>>

ProbeImplausible(t, o) ==
  /\ pc[t] = "probe" /\ o.vmm = "InvalidLen" /\ ~Plausible(o.needed)
  /\ Spend(t, o)
  /\ Settle(t, Failed("InvalidArgument"))

\* Any other error ends the attempt, a second InvalidLen included.
Rejected(t, o) ==
  /\ IssueError(o) # None
  /\ ~(pc[t] = "probe" /\ o.vmm = "InvalidLen")
  /\ Spend(t, o)
  /\ Settle(t, Failed(IssueError(o)))

Answer(t, o) ==
  /\ IssueError(o) = None
  /\ Spend(t, o)
  /\ Settle(t, Judge(call[t], o))

\* The host commits a new TCB, and other certificates or none with it.
Provision ==
  /\ tcb < MaxTcb
  /\ tcb' = tcb + 1
  /\ certSize' \in CertSize
  /\ UNCHANGED <<device, vmpck, calls, pc, call, backoff, buffer, issued, last, result>>

\* A failed request of another process on the device loses the VMPCK.
LoseKey ==
  /\ vmpck
  /\ vmpck' = FALSE
  /\ UNCHANGED <<device, host, calls, pc, call, backoff, buffer, issued, last,
                 result>>

Continue(t) ==
  \E o \in Ioctl(t) :
    ProbeTooSmall(t, o) \/ ProbeImplausible(t, o) \/ Rejected(t, o) \/ Answer(t, o)

Next ==
  \/ \E t \in Thread :
       \/ \E c \in Call, delays \in {0, Retries} : Begin(t, c, delays)
       \/ Continue(t)
  \/ \E v \in Version : WithMsgVersion(v)
  \/ Provision \/ LoseKey

Spec == Init /\ [][Next]_vars

\* A thread in a call keeps running; the host and new calls owe nothing.
FairSpec == Spec /\ \A t \in Thread : WF_vars(Continue(t))

-----------------------------------------------------------------------------
(***************************************************************************)
(* Correctness.                                                            *)
(***************************************************************************)
TypeOK ==
  /\ honest \in BOOLEAN /\ version \in Version \cup {1}
  /\ vmpck \in BOOLEAN /\ tcb \in Nat /\ certSize \in CertSize
  /\ calls \in [Thread -> Nat]
  /\ pc \in [Thread -> {"idle", "report", "probe", "fetch", "key"}]
  /\ call \in [Thread -> Call]
  /\ backoff \in [Thread -> Nat]
  /\ buffer \in [Thread -> Nat]
  /\ issued \in [Thread -> Nat]
  /\ last \in [Thread -> Outcome]
  /\ result \in [Thread -> CallResult]

\* Sequence numbers are a finite resource: whatever the kernel and the host
\* answer, a call spends at most one per attempt, two for an extended report,
\* and a key derivation is never attempted again.
SpendBounded ==
  \A t \in Thread :
    issued[t] <= CASE call[t].op = "derive_key" -> 1
                   [] call[t].op = "report" -> Retries + 1
                   [] call[t].op = "extended_report" -> 2 * (Retries + 1)

\* A busy hypervisor is waited for: an attestation call that ends on a busy
\* answer, whatever errno came with it, has slept every delay it had.
BusyExhausted ==
  \A t \in Thread :
    pc[t] = "idle" /\ call[t].op \in Attesting /\ last[t].vmm = "Busy"
    => backoff[t] = 0 /\ result[t].error = "VmmBusy"

\* The certificate buffer is only ever as large as the kernel may ask for,
\* and given only to the request that follows its probe.
BufferSane ==
  \A t \in Thread : IF pc[t] = "fetch" THEN Plausible(buffer[t]) ELSE buffer[t] = 0

\* An extended report that comes without certificates means that the host
\* provided none when it answered, although it may provision between probe
\* and fetch.
EmptyMeansNone ==
  [][\A t \in Thread :
       pc[t] # "idle" /\ pc'[t] = "idle" /\ call[t].op = "extended_report"
       /\ result'[t].report # None /\ result'[t].chain = None /\ honest
       => certSize = 0]_vars

\* Every call returns: a host that keeps changing its certificates cannot
\* keep a call going.
CallsReturn == \A t \in Thread : pc[t] # "idle" ~> pc[t] = "idle"

\* Calls answer as promised by Attestation, whoever the kernel answers.
Asked  == [t \in Thread |-> IF pc[t] # "idle" /\ call[t].op \in Attesting
                            THEN call[t].request ELSE None]
Given  == [t \in Thread |-> IF call[t].op \in Attesting
                            THEN result[t] ELSE NoResult]

Promise == INSTANCE Attestation WITH
  Trusted <- FALSE, DefaultVmpl <- GuestLevel, asked <- Asked, answer <- Given

KeepsPromise == Promise!Spec

\* With an honest kernel they keep the stronger promise, although the host
\* moves to other firmware and other certificates between probe and fetch:
\* a request that names no level is answered at the guest's own, and a chain
\* certifies the very report it comes with.
TrustedPromise == INSTANCE Attestation WITH
  Trusted <- TRUE, DefaultVmpl <- GuestLevel,
  asked   <- IF honest THEN Asked ELSE [t \in Thread |-> None],
  answer  <- IF honest THEN Given ELSE [t \in Thread |-> NoResult]

KeepsTrustedPromise == TrustedPromise!Spec

\* The documentation of ReportRequest::vmpl: leaving it unset asks for the
\* level the guest runs at -- so firmware that rejects nothing but levels
\* the guest may not ask for never rejects it.
DefaultLevelAccepted ==
  \A t \in Thread :
    Fault = {} /\ vmpck /\ call[t].op \in Attesting /\ result[t].error = "Firmware"
    => call[t].request.vmpl # None

=============================================================================
