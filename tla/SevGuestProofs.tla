--------------------------- MODULE SevGuestProofs ---------------------------
(***************************************************************************)
(* What SevGuest guarantees for any number of threads, retries, levels and *)
(* failing ioctls, with machine-checked proofs.                            *)
(***************************************************************************)
EXTENDS SevGuest, TLAPS

-----------------------------------------------------------------------------
(***************************************************************************)
(* The inductive invariant behind the types.  A thread makes the ioctls of *)
(* the operation it was called for, and a key derivation has no delay left.*)
(***************************************************************************)
RightIoctl ==
  \A t \in Thread :
    /\ pc[t] = "report" => call[t].op = "report"
    /\ pc[t] \in {"probe", "fetch"} => call[t].op = "extended_report"
    /\ pc[t] = "key" => call[t].op = "derive_key"
    /\ call[t].op = "derive_key" => backoff[t] = 0

Typed == TypeOK /\ RightIoctl

-----------------------------------------------------------------------------
(***************************************************************************)
(* Types of the operators.                                                 *)
(***************************************************************************)
LEMMA CallType ==
  ASSUME NEW c \in Call
  PROVE  /\ c.op \in {"report", "extended_report", "derive_key"}
         /\ c.op \in Attesting <=> c.op # "derive_key"
         /\ c.op \in Attesting => c.request \in ReportRequest
  BY DEF Call, Attesting

LEMMA FirstIoctlType ==
  ASSUME NEW c \in Call
  PROVE  /\ FirstIoctl(c.op) \in {"report", "probe", "key"}
         /\ FirstIoctl(c.op) = "report" <=> c.op = "report"
         /\ FirstIoctl(c.op) = "probe" <=> c.op = "extended_report"
         /\ FirstIoctl(c.op) = "key" <=> c.op = "derive_key"
  BY CallType DEF FirstIoctl

LEMMA WireLevelType ==
  ASSUME NEW r \in ReportRequest
  PROVE  WireLevel(r) \in Level /\ WireLevel(r) \in Nat
  BY SevGuestAssumption DEF WireLevel, ReportRequest

LEMMA BrokenType ==
  ASSUME NEW vmm \in VmmCode, NEW fw \in {"none", "rejected"},
         NEW errno \in {None, "IoBusy", "Io"}
  PROVE  Broken(vmm, fw, errno) \in Outcome
  BY DEF Broken, Outcome, Chain

LEMMA ResultType ==
  /\ NoResult \in CallResult
  /\ \A error \in Error : Failed(error) \in CallResult
  /\ \A report \in AttestationReport, chain \in Chain :
       Answered(report, chain) \in CallResult
  BY DEF NoResult, Failed, Answered, CallResult, Chain

LEMMA IssueErrorType ==
  ASSUME NEW o \in Outcome
  PROVE  IssueError(o) \in Error \cup {None}
  BY DEF IssueError, Outcome, VmmCode, Error

LEMMA JudgeType ==
  ASSUME NEW c \in Call, NEW o \in Outcome
  PROVE  Judge(c, o) \in CallResult
<1>1. {"Firmware", "Parse", "Mismatch"} \subseteq Error
  BY DEF Error
<1>2. /\ o.report \in AttestationReport \cup {Malformed}
      /\ o.certs \in Chain \cup {Malformed}
      /\ None \in Chain
  BY DEF Outcome, Chain
<1> QED
  BY <1>1, <1>2, ResultType DEF Judge

\* The firmware answers or rejects.
LEMMA FirmwareType ==
  ASSUME TypeOK, NEW r \in ReportRequest
  PROVE  Firmware(r) \in Outcome
<1>1. CASE WireLevel(r) < GuestLevel
  BY <1>1, BrokenType DEF Firmware, VmmCode
<1>2. CASE ~(WireLevel(r) < GuestLevel)
  <2>1. [data |-> r.data, vmpl |-> WireLevel(r), tcb |-> tcb]
          \in AttestationReport
    BY WireLevelType DEF TypeOK, AttestationReport, ReportRequest
  <2> QED
    BY <1>2, <2>1 DEF Firmware, Outcome, VmmCode, Chain
<1> QED
  BY <1>1, <1>2

LEMMA IoctlType ==
  ASSUME Typed, NEW t \in Thread, NEW o \in Ioctl(t)
  PROVE  o \in Outcome
<1> DEFINE r == call[t].request
<1>1. \A o1 \in Outcome, s \in Stray : [o1 EXCEPT !.report = s] \in Outcome
  BY SevGuestAssumption DEF Outcome
<1>2. \A o1 \in Outcome, c \in Chain \cup {Malformed} :
        [o1 EXCEPT !.certs = c] \in Outcome
  BY DEF Outcome
<1>3. StrayNow \subseteq Stray
  BY DEF StrayNow
<1>4. /\ Broken("none", "none", "Io") \in Outcome
      /\ Broken("none", "rejected", "Io") \in Outcome
      /\ Broken("none", "none", None) \in Outcome
      /\ Broken("InvalidLen", "none", "Io") \in Outcome
  BY BrokenType DEF VmmCode
<1>5. Fault \subseteq Outcome
  BY SevGuestAssumption
<1>6. KeyOutcomes \subseteq Outcome
  <2>1. \A status \in {"success", "rejected"} :
          [Broken("none", "none", None) EXCEPT !.status = status] \in Outcome
    BY <1>4 DEF Outcome
  <2> QED
    BY <2>1 DEF KeyOutcomes
<1>7. ASSUME r \in ReportRequest
      PROVE  ReportOutcomes(r) \subseteq Outcome
  BY <1>1, <1>3, <1>7, FirmwareType DEF ReportOutcomes, Typed
<1>8. ASSUME r \in ReportRequest
      PROVE  ExtOutcomes(r, buffer[t]) \subseteq Outcome
  <2>1. /\ tcb \in Chain /\ None \in Chain
        /\ certSize \in Nat
    BY SevGuestAssumption DEF Typed, TypeOK, Chain
  <2>2. [Broken("InvalidLen", "none", "Io") EXCEPT !.needed = certSize]
          \in Outcome
    BY <1>4, <2>1 DEF Outcome
  <2>3. Firmware(r) \in Outcome
    BY <1>8, FirmwareType DEF Typed
  <2>4. \A s \in StrayNow, c \in {None, Malformed} :
          Instead(Firmware(r), s, c) \in Outcome
    BY <1>3, <2>1, <2>3, SevGuestAssumption DEF Instead, Outcome
  <2>5. [Firmware(r) EXCEPT !.certs = IF certSize = 0 THEN None ELSE tcb]
          \in Outcome
    BY <1>2, <2>1, <2>3
  <2>6. ASSUME NEW x \in ExtOutcomes(r, buffer[t])
        PROVE  x \in Outcome
    <3>1. \/ x = [Broken("InvalidLen", "none", "Io") EXCEPT !.needed = certSize]
          \/ x = [Firmware(r) EXCEPT !.certs = IF certSize = 0 THEN None ELSE tcb]
          \/ \E s \in StrayNow, c \in {None, Malformed} :
               x = Instead(Firmware(r), s, c)
      BY <2>6 DEF ExtOutcomes
    <3> QED
      BY <2>2, <2>4, <2>5, <3>1
  <2> QED
    BY <2>6
<1>9. pc[t] \in {"report", "probe", "fetch"} => r \in ReportRequest
  BY CallType DEF Typed, TypeOK, RightIoctl, Attesting
<1>10. pc[t] \in {"idle", "report", "probe", "fetch", "key"}
  BY DEF Typed, TypeOK
<1> QED
  BY <1>4, <1>5, <1>6, <1>7, <1>8, <1>9, <1>10 DEF Ioctl

-----------------------------------------------------------------------------
(***************************************************************************)
(* Types of the states.                                                    *)
(***************************************************************************)

\* An ioctl spends a request and leaves the rest of its call alone.
LEMMA SpendShape ==
  ASSUME Typed, NEW t \in Thread, NEW o \in Ioctl(t), Spend(t, o)
  PROVE  /\ pc[t] # "idle"
         /\ UNCHANGED <<honest, version, tcb, certSize, calls, call>>
         /\ vmpck' \in BOOLEAN
         /\ issued' \in [Thread -> Nat]
         /\ issued'[t] <= issued[t] + 1
         /\ \A u \in Thread \ {t} : issued'[u] = issued[u] /\ last'[u] = last[u]
         /\ last' \in [Thread -> Outcome] /\ last'[t] = o
<1>1. o \in Outcome
  BY IoctlType
<1>2. vmpck' \in BOOLEAN
  BY Zenon DEF Spend, Typed, TypeOK
<1>3. /\ issued' \in [Thread -> Nat]
      /\ issued'[t] <= issued[t] + 1
      /\ \A u \in Thread \ {t} : issued'[u] = issued[u]
  BY DEF Spend, Typed, TypeOK
<1>4. /\ last' \in [Thread -> Outcome] /\ last'[t] = o
      /\ \A u \in Thread \ {t} : last'[u] = last[u]
  BY <1>1 DEF Spend, Typed, TypeOK
<1> QED
  BY <1>2, <1>3, <1>4 DEF Spend, device, host

\* An attempt that settles is tried again with one delay less, or returns;
\* other calls go on as they were.
LEMMA SettleShape ==
  ASSUME Typed, NEW t \in Thread, NEW res \in CallResult, Settle(t, res)
  PROVE  /\ pc' \in [Thread -> {"idle", "report", "probe", "fetch", "key"}]
         /\ backoff' \in [Thread -> Nat]
         /\ buffer' \in [Thread -> Nat] /\ buffer'[t] = 0
         /\ result' \in [Thread -> CallResult]
         /\ \/ /\ res.error # None /\ IsTransient(res.error) /\ backoff[t] > 0
               /\ backoff'[t] = backoff[t] - 1
               /\ pc'[t] = FirstIoctl(call[t].op)
               /\ result' = result
            \/ /\ ~(res.error # None /\ IsTransient(res.error) /\ backoff[t] > 0)
               /\ backoff' = backoff
               /\ pc'[t] = "idle"
               /\ result'[t] = res
         /\ \A u \in Thread \ {t} :
              /\ pc'[u] = pc[u] /\ backoff'[u] = backoff[u]
              /\ buffer'[u] = buffer[u] /\ result'[u] = result[u]
<1>1. FirstIoctl(call[t].op) \in {"report", "probe", "key"}
  BY FirstIoctlType DEF Typed, TypeOK
<1>2. backoff[t] > 0 => backoff[t] - 1 \in Nat
  BY DEF Typed, TypeOK
<1> QED
  BY <1>1, <1>2 DEF Settle, Goto, Typed, TypeOK

LEMMA SettleTyped ==
  ASSUME Typed, NEW t \in Thread, NEW o \in Ioctl(t), Spend(t, o),
         NEW res \in CallResult, Settle(t, res)
  PROVE  Typed'
<1>1. TypeOK'
  BY SpendShape, SettleShape DEF Typed, TypeOK
<1>2. ASSUME NEW u \in Thread \ {t}
      PROVE  pc'[u] = pc[u] /\ call'[u] = call[u] /\ backoff'[u] = backoff[u]
  BY SpendShape, SettleShape
<1>3. /\ call'[t] = call[t]
      /\ pc'[t] \in {FirstIoctl(call[t].op), "idle"}
      /\ backoff[t] = 0 => backoff'[t] = 0
  BY SpendShape, SettleShape DEF Typed, TypeOK
<1>4. RightIoctl'
  BY <1>2, <1>3, FirstIoctlType DEF Typed, TypeOK, RightIoctl
<1> QED
  BY <1>1, <1>4 DEF Typed

LEMMA BeginTyped ==
  ASSUME Typed, NEW t \in Thread, NEW c \in Call, NEW delays \in {0, Retries},
         Begin(t, c, delays)
  PROVE  Typed'
<1>1. delays \in Nat
  BY SevGuestAssumption
<1>2. /\ NoResult \in CallResult /\ Failed("InvalidArgument") \in CallResult
      /\ Broken("none", "none", None) \in Outcome
  BY ResultType, BrokenType DEF Error, VmmCode
<1>3. TypeOK'
  BY <1>1, <1>2, FirstIoctlType DEF Begin, Goto, Typed, TypeOK, device, host
<1>4. ASSUME NEW u \in Thread \ {t}
      PROVE  pc'[u] = pc[u] /\ call'[u] = call[u] /\ backoff'[u] = backoff[u]
  BY DEF Begin, Goto, Typed, TypeOK
<1>5. /\ call'[t] = c /\ pc'[t] \in {FirstIoctl(c.op), "idle"}
      /\ c.op = "derive_key" => backoff'[t] = 0
  BY DEF Begin, Goto, Typed, TypeOK
<1>6. RightIoctl'
  BY <1>4, <1>5, FirstIoctlType DEF Typed, RightIoctl
<1> QED
  BY <1>3, <1>6 DEF Typed

\* What the ioctls of a call settle.
LEMMA VerdictType ==
  ASSUME Typed, NEW t \in Thread, NEW o \in Ioctl(t)
  PROVE  /\ Failed("InvalidArgument") \in CallResult
         /\ IssueError(o) # None => /\ IssueError(o) \in Error
                                    /\ Failed(IssueError(o)) \in CallResult
         /\ Judge(call[t], o) \in CallResult
<1>1. o \in Outcome /\ call[t] \in Call
  BY IoctlType DEF Typed, TypeOK
<1>2. "InvalidArgument" \in Error
  BY DEF Error
<1> QED
  BY <1>1, <1>2, IssueErrorType, JudgeType, ResultType

LEMMA ProbeTyped ==
  ASSUME Typed, NEW t \in Thread, NEW o \in Ioctl(t), ProbeTooSmall(t, o)
  PROVE  Typed'
<1>1. o.needed \in Nat
  BY IoctlType DEF Outcome
<1>2. Spend(t, o)
  BY DEF ProbeTooSmall
<1>3. TypeOK'
  BY <1>1, <1>2, SpendShape DEF ProbeTooSmall, Goto, Typed, TypeOK
<1>4. /\ call' = call /\ backoff' = backoff /\ pc[t] = "probe"
      /\ pc' = [pc EXCEPT ![t] = "fetch"]
  BY <1>2, SpendShape DEF ProbeTooSmall, Goto
<1>5. RightIoctl'
  BY <1>4 DEF Typed, TypeOK, RightIoctl
<1> QED
  BY <1>3, <1>5 DEF Typed

LEMMA TypedInit ==
  ASSUME Init
  PROVE  Typed
<1>1. /\ NoResult \in CallResult
      /\ Broken("none", "none", None) \in Outcome
      /\ [op |-> "derive_key", request |-> None] \in Call
  BY ResultType, BrokenType DEF VmmCode, Call
<1>2. TypeOK
  BY <1>1 DEF Init, TypeOK
<1>3. RightIoctl
  BY DEF Init, RightIoctl
<1> QED
  BY <1>2, <1>3 DEF Typed

LEMMA TypedStep ==
  ASSUME Typed, [Next]_vars
  PROVE  Typed'
<1>1. CASE UNCHANGED vars
  BY <1>1 DEF Typed, TypeOK, RightIoctl, vars, device, host
<1>2. ASSUME NEW t \in Thread, NEW o \in Ioctl(t),
             \/ ProbeImplausible(t, o) \/ Rejected(t, o) \/ Answer(t, o)
      PROVE  Typed'
  <2>1. PICK res \in CallResult : Spend(t, o) /\ Settle(t, res)
    BY <1>2, VerdictType DEF ProbeImplausible, Rejected, Answer
  <2> QED
    BY <2>1, SettleTyped
<1>3. ASSUME NEW v \in Version, WithMsgVersion(v)
      PROVE  Typed'
  BY <1>3 DEF WithMsgVersion, Typed, TypeOK, RightIoctl, host
<1>4. CASE Provision
  BY <1>4 DEF Provision, Typed, TypeOK, RightIoctl, device
<1>5. CASE LoseKey
  BY <1>5 DEF LoseKey, Typed, TypeOK, RightIoctl, device, host
<1>6. ASSUME NEW t \in Thread, Continue(t)
      PROVE  Typed'
  BY <1>2, <1>6, ProbeTyped DEF Continue
<1>7. ASSUME NEW t \in Thread, NEW c \in Call, NEW delays \in {0, Retries},
             Begin(t, c, delays)
      PROVE  Typed'
  BY <1>7, BeginTyped
<1> QED
  BY <1>1, <1>3, <1>4, <1>5, <1>6, <1>7 DEF Next

LEMMA TypedInvariant == Spec => []Typed
<1>1. Init => Typed
  BY TypedInit
<1>2. Typed /\ [Next]_vars => Typed'
  BY TypedStep
<1> QED
  BY <1>1, <1>2, PTL DEF Spec

\* Every reachable state is well typed, whatever the device, the host and a
\* kernel that is not honest answer; in particular no call ever has a
\* negative number of delays left.
THEOREM TypeCorrect == Spec => []TypeOK
<1>1. Typed => TypeOK
  BY DEF Typed
<1> QED
  BY <1>1, TypedInvariant, PTL

-----------------------------------------------------------------------------
(***************************************************************************)
(* What a call spends, and on what it waits.                               *)
(***************************************************************************)

\* The three ways in which the last ioctl of an attempt settles it.
Settling(t, o) == ProbeImplausible(t, o) \/ Rejected(t, o) \/ Answer(t, o)

LEMMA SettlingShape ==
  ASSUME Typed, NEW t \in Thread, NEW o \in Ioctl(t), Settling(t, o)
  PROVE  \E res \in CallResult :
           /\ Spend(t, o) /\ Settle(t, res)
           /\ \/ /\ pc[t] = "probe" /\ o.vmm = "InvalidLen"
                 /\ res = Failed("InvalidArgument")
              \/ IssueError(o) # None /\ res = Failed(IssueError(o))
              \/ IssueError(o) = None /\ res = Judge(call[t], o)
  BY VerdictType DEF Settling, ProbeImplausible, Rejected, Answer

\* What a step of one thread leaves of the others.
LEMMA OthersUntouched ==
  ASSUME Typed, NEW t \in Thread, NEW u \in Thread \ {t},
         \/ \E c \in Call, delays \in {0, Retries} : Begin(t, c, delays)
         \/ Continue(t)
  PROVE  /\ pc'[u] = pc[u] /\ call'[u] = call[u] /\ backoff'[u] = backoff[u]
         /\ buffer'[u] = buffer[u] /\ issued'[u] = issued[u]
         /\ last'[u] = last[u] /\ result'[u] = result[u]
<1>1. ASSUME NEW c \in Call, NEW delays \in {0, Retries}, Begin(t, c, delays)
      PROVE  /\ pc'[u] = pc[u] /\ call'[u] = call[u] /\ backoff'[u] = backoff[u]
             /\ buffer'[u] = buffer[u] /\ issued'[u] = issued[u]
             /\ last'[u] = last[u] /\ result'[u] = result[u]
  BY <1>1 DEF Begin, Goto, Typed, TypeOK
<1>2. ASSUME NEW o \in Ioctl(t), ProbeTooSmall(t, o)
      PROVE  /\ pc'[u] = pc[u] /\ call'[u] = call[u] /\ backoff'[u] = backoff[u]
             /\ buffer'[u] = buffer[u] /\ issued'[u] = issued[u]
             /\ last'[u] = last[u] /\ result'[u] = result[u]
  BY <1>2, SpendShape DEF ProbeTooSmall, Goto, Typed, TypeOK
<1>3. ASSUME NEW o \in Ioctl(t), Settling(t, o)
      PROVE  /\ pc'[u] = pc[u] /\ call'[u] = call[u] /\ backoff'[u] = backoff[u]
             /\ buffer'[u] = buffer[u] /\ issued'[u] = issued[u]
             /\ last'[u] = last[u] /\ result'[u] = result[u]
  BY <1>3, SettlingShape, SpendShape, SettleShape
<1> QED
  BY <1>1, <1>2, <1>3 DEF Continue, Settling

\* What the environment does concerns no call.
LEMMA CallsUntouched ==
  ASSUME \/ UNCHANGED vars
         \/ \E v \in Version : WithMsgVersion(v)
         \/ Provision
         \/ LoseKey
  PROVE  UNCHANGED <<honest, calls, pc, call, backoff, buffer, issued, last, result>>
  BY DEF vars, device, host, WithMsgVersion, Provision, LoseKey

Costliest(op) == CASE op = "derive_key" -> 1
                   [] op = "report" -> Retries + 1
                   [] op = "extended_report" -> 2 * (Retries + 1)

\* What one call has spent, and may still.
Thrifty(t) ==
  /\ pc[t] = "key" => issued[t] = 0
  /\ pc[t] = "report" => issued[t] + backoff[t] <= Retries
  /\ pc[t] = "probe" => issued[t] + 2 * backoff[t] <= 2 * Retries
  /\ pc[t] = "fetch" => issued[t] + 2 * backoff[t] <= 2 * Retries + 1
  /\ pc[t] = "idle" => issued[t] <= Costliest(call[t].op)

LEMMA ThriftyStep ==
  ASSUME Typed, NEW t \in Thread, Thrifty(t),
         \/ \E c \in Call, delays \in {0, Retries} : Begin(t, c, delays)
         \/ Continue(t)
  PROVE  Thrifty(t)'
<1>1. /\ Retries \in Nat /\ issued[t] \in Nat /\ backoff[t] \in Nat
      /\ call[t] \in Call
      /\ call[t].op \in {"report", "extended_report", "derive_key"}
  BY SevGuestAssumption, CallType DEF Typed, TypeOK
<1>2. ASSUME NEW c \in Call, NEW delays \in {0, Retries}, Begin(t, c, delays)
      PROVE  Thrifty(t)'
  <2>1. /\ issued'[t] = 0 /\ backoff'[t] = delays /\ call'[t] = c
        /\ pc'[t] \in {FirstIoctl(c.op), "idle"}
    BY <1>2 DEF Begin, Goto, Typed, TypeOK
  <2> QED
    BY <1>1, <2>1, CallType, FirstIoctlType DEF Thrifty, Costliest
<1>3. ASSUME NEW o \in Ioctl(t), ProbeTooSmall(t, o)
      PROVE  Thrifty(t)'
  <2>1. /\ pc[t] = "probe" /\ pc'[t] = "fetch" /\ backoff'[t] = backoff[t]
        /\ issued'[t] \in Nat /\ issued'[t] <= issued[t] + 1
    BY <1>3, SpendShape DEF ProbeTooSmall, Goto, Typed, TypeOK
  <2> QED
    BY <1>1, <2>1 DEF Thrifty
<1>4. ASSUME NEW o \in Ioctl(t), Settling(t, o)
      PROVE  Thrifty(t)'
  <2>1. PICK res \in CallResult : Spend(t, o) /\ Settle(t, res)
    BY <1>4, SettlingShape
  <2>2. /\ issued'[t] \in Nat /\ issued'[t] <= issued[t] + 1
        /\ call'[t] = call[t] /\ pc[t] \in {"report", "probe", "fetch", "key"}
    BY <2>1, SpendShape DEF Typed, TypeOK
  <2>3. CASE backoff[t] > 0 /\ backoff'[t] = backoff[t] - 1
             /\ pc'[t] = FirstIoctl(call[t].op)
    BY <1>1, <2>2, <2>3, FirstIoctlType DEF Thrifty, Typed, RightIoctl
  <2>4. CASE pc'[t] = "idle"
    BY <1>1, <2>2, <2>4 DEF Thrifty, Costliest, Typed, RightIoctl
  <2> QED
    BY <2>1, <2>3, <2>4, SettleShape
<1> QED
  BY <1>2, <1>3, <1>4 DEF Continue, Settling

\* A guest request is a sequence number spent: however the ioctls fail, a
\* call never makes more than one per attempt, or two for an extended
\* report, and a key derivation is never attempted again.
THEOREM SpendingBounded == Spec => []SpendBounded
<1> DEFINE Inv == Typed /\ \A t \in Thread : Thrifty(t)
<1>1. Init => Inv
  <2>1. ASSUME Init, NEW t \in Thread
        PROVE  Thrifty(t)
    BY <2>1 DEF Init, Thrifty, Costliest
  <2> QED
    BY <2>1, TypedInit
<1>2. Inv /\ [Next]_vars => Inv'
  <2> SUFFICES ASSUME Inv, [Next]_vars
               PROVE  Inv'
    OBVIOUS
  <2>1. ASSUME NEW t \in Thread,
               \/ \E c \in Call, delays \in {0, Retries} : Begin(t, c, delays)
               \/ Continue(t)
        PROVE  \A u \in Thread : Thrifty(u)'
    <3>1. ASSUME NEW u \in Thread \ {t}
          PROVE  Thrifty(u)'
      BY <2>1, OthersUntouched DEF Thrifty
    <3>2. Thrifty(t)'
      BY <2>1, ThriftyStep
    <3> QED
      BY <3>1, <3>2
  <2>2. ASSUME UNCHANGED <<pc, call, backoff, issued>>
        PROVE  \A u \in Thread : Thrifty(u)'
    BY <2>2 DEF Thrifty
  <2> QED
    BY <2>1, <2>2, CallsUntouched, TypedStep DEF Next
<1>3. Inv => SpendBounded
  <2> SUFFICES ASSUME Inv, NEW t \in Thread
               PROVE  issued[t] <= Costliest(call[t].op)
    BY DEF SpendBounded, Costliest
  <2>1. /\ Retries \in Nat /\ issued[t] \in Nat /\ backoff[t] \in Nat
        /\ pc[t] \in {"idle", "report", "probe", "fetch", "key"}
        /\ call[t] \in Call
    BY SevGuestAssumption DEF Typed, TypeOK
  <2>2. Thrifty(t)
    OBVIOUS
  <2>3. CASE pc[t] = "idle"
    BY <2>2, <2>3 DEF Thrifty
  <2>4. CASE pc[t] # "idle"
    BY <2>1, <2>2, <2>4 DEF Thrifty, Costliest, Typed, RightIoctl
  <2> QED
    BY <2>3, <2>4
<1> QED
  BY <1>1, <1>2, <1>3, PTL DEF Spec

\* BusyExhausted and BufferSane, of one thread.
Patient(t) ==
  pc[t] = "idle" /\ call[t].op \in Attesting /\ last[t].vmm = "Busy"
  => backoff[t] = 0 /\ result[t].error = "VmmBusy"

Buffered(t) == IF pc[t] = "fetch" THEN Plausible(buffer[t]) ELSE buffer[t] = 0

LEMMA PatientStep ==
  ASSUME Typed, NEW t \in Thread, Patient(t), Buffered(t),
         \/ \E c \in Call, delays \in {0, Retries} : Begin(t, c, delays)
         \/ Continue(t)
  PROVE  Patient(t)' /\ Buffered(t)'
<1>1. ASSUME NEW c \in Call, NEW delays \in {0, Retries}, Begin(t, c, delays)
      PROVE  Patient(t)' /\ Buffered(t)'
  <2>1. /\ last'[t].vmm = "none" /\ pc[t] = "idle"
        /\ pc'[t] \in {FirstIoctl(c.op), "idle"} /\ buffer'[t] = buffer[t]
    BY <1>1 DEF Begin, Goto, Broken, Typed, TypeOK
  <2> QED
    BY <2>1, FirstIoctlType DEF Patient, Buffered
<1>2. ASSUME NEW o \in Ioctl(t), ProbeTooSmall(t, o)
      PROVE  Patient(t)' /\ Buffered(t)'
  <2>1. pc'[t] = "fetch" /\ buffer'[t] = o.needed /\ Plausible(o.needed)
    BY <1>2 DEF ProbeTooSmall, Goto, Typed, TypeOK
  <2> QED
    BY <2>1 DEF Patient, Buffered
<1>3. ASSUME NEW o \in Ioctl(t), Settling(t, o)
      PROVE  Patient(t)' /\ Buffered(t)'
  <2>1. PICK res \in CallResult :
          /\ Spend(t, o) /\ Settle(t, res)
          /\ \/ o.vmm = "InvalidLen"
             \/ IssueError(o) # None /\ res = Failed(IssueError(o))
             \/ IssueError(o) = None
    BY <1>3, SettlingShape
  <2>2. last'[t] = o /\ buffer'[t] = 0 /\ pc'[t] # "fetch"
    BY <2>1, SpendShape, SettleShape, FirstIoctlType DEF Typed, TypeOK
  <2>3. ASSUME pc'[t] = "idle", o.vmm = "Busy"
        PROVE  backoff'[t] = 0 /\ result'[t].error = "VmmBusy"
    <3>1. IssueError(o) = "VmmBusy" /\ "VmmBusy" # None
      BY <2>3, NoneAssumption DEF IssueError, Error
    <3>2. res.error = "VmmBusy" /\ IsTransient(res.error)
      BY <2>1, <2>3, <3>1 DEF Failed, IsTransient
    <3>3. /\ ~(backoff[t] > 0) /\ backoff'[t] = backoff[t]
          /\ result'[t] = res
      BY <2>1, <2>3, <3>1, <3>2, SettleShape, FirstIoctlType DEF Typed, TypeOK
    <3> QED
      BY <3>2, <3>3 DEF Typed, TypeOK
  <2> QED
    BY <2>2, <2>3 DEF Patient, Buffered
<1> QED
  BY <1>1, <1>2, <1>3 DEF Continue, Settling

LEMMA PatienceInvariant == Spec => [](BusyExhausted /\ BufferSane)
<1> DEFINE Inv == Typed /\ \A t \in Thread : Patient(t) /\ Buffered(t)
<1>1. Init => Inv
  <2>1. ASSUME Init, NEW t \in Thread
        PROVE  Patient(t) /\ Buffered(t)
    BY <2>1 DEF Init, Patient, Buffered, Broken
  <2> QED
    BY <2>1, TypedInit
<1>2. Inv /\ [Next]_vars => Inv'
  <2> SUFFICES ASSUME Inv, [Next]_vars
               PROVE  Inv'
    OBVIOUS
  <2>1. ASSUME NEW t \in Thread,
               \/ \E c \in Call, delays \in {0, Retries} : Begin(t, c, delays)
               \/ Continue(t)
        PROVE  \A u \in Thread : Patient(u)' /\ Buffered(u)'
    <3>1. ASSUME NEW u \in Thread \ {t}
          PROVE  Patient(u)' /\ Buffered(u)'
      BY <2>1, OthersUntouched DEF Patient, Buffered
    <3>2. Patient(t)' /\ Buffered(t)'
      BY <2>1, PatientStep
    <3> QED
      BY <3>1, <3>2
  <2>2. ASSUME UNCHANGED <<pc, call, backoff, buffer, last, result>>
        PROVE  \A u \in Thread : Patient(u)' /\ Buffered(u)'
    BY <2>2 DEF Patient, Buffered
  <2> QED
    BY <2>1, <2>2, CallsUntouched, TypedStep DEF Next
<1>3. Inv => BusyExhausted /\ BufferSane
  BY DEF BusyExhausted, BufferSane, Patient, Buffered
<1> QED
  BY <1>1, <1>2, <1>3, PTL DEF Spec

\* A busy hypervisor is waited for: an attestation call ends on a busy
\* answer only after it slept every delay it had, whatever errno the kernel
\* returned with it.
THEOREM BusyWaited == Spec => []BusyExhausted
BY PatienceInvariant, PTL

\* A certificate buffer is given only to the request that follows its probe,
\* and is never larger than CERT_MAX: it does not outlive its attempt.
THEOREM BuffersSane == Spec => []BufferSane
BY PatienceInvariant, PTL

-----------------------------------------------------------------------------
(***************************************************************************)
(* What the firmware rejects.                                              *)
(***************************************************************************)

\* An attestation that the firmware rejected, though no ioctl ever failed of
\* itself, asked for a level more privileged than the guest's.  A caller that
\* sets a message version other than the firmware's own is left out.
RejectedForLevel ==
  Fault = {} /\ Version \subseteq {0, 1} =>
    \A t \in Thread :
      call[t].op \in Attesting /\ result[t].error = "Firmware"
      => WireLevel(call[t].request) < GuestLevel

\* A handle that was given up is used by no call.
GivenUp == version = 0 => \A t \in Thread : pc[t] = "idle"

\* What the kernel leaves when it, or the firmware, rejects a request.
Rejecting(o) ==
  \/ IssueError(o) = "Firmware"
  \/ IssueError(o) = None /\ o.status # "success"

\* A level the guest may ask for is not rejected.
LEMMA LevelAccepted ==
  ASSUME Typed, Fault = {}, version = 1, NEW t \in Thread,
         pc[t] \in {"report", "probe", "fetch"},
         ~(WireLevel(call[t].request) < GuestLevel), NEW o \in Ioctl(t)
  PROVE  ~Rejecting(o)
<1> DEFINE r == call[t].request
<1>1. "Io" # None /\ "Vmm" # None
  BY NoneAssumption DEF Error
<1> DEFINE Fine(x) ==
      x.vmm = "none" /\ x.fw = "none" /\ x.errno = None /\ x.status = "success"
<1>2. \A x : Fine(x) => ~Rejecting(x)
  BY NoneAssumption DEF Rejecting, IssueError, Error
<1>3. Firmware(r) = [vmm |-> "none", fw |-> "none", errno |-> None, status |-> "success",
                     report |-> [data |-> r.data, vmpl |-> WireLevel(r), tcb |-> tcb],
                     certs |-> None, needed |-> 0]
  BY DEF Firmware
<1>4. CASE ~vmpck
  <2>1. o = Broken("none", "none", "Io")
    BY <1>4 DEF Ioctl
  <2> QED
    BY <1>1, <2>1 DEF Broken, Rejecting, IssueError
<1>5. CASE vmpck /\ pc[t] = "report"
  <2>1. o \in ReportOutcomes(r)
    BY <1>5 DEF Ioctl
  <2>2. \/ o = Firmware(r)
        \/ \E s \in StrayNow : o = [Firmware(r) EXCEPT !.report = s]
    BY <2>1 DEF ReportOutcomes
  <2>3. Fine(o)
    BY <1>3, <2>2
  <2> QED
    BY <1>2, <2>3
<1>6. CASE vmpck /\ pc[t] \in {"probe", "fetch"}
  <2>1. o \in ExtOutcomes(r, buffer[t])
    BY <1>6 DEF Ioctl
  <2>2. \/ o = [Broken("InvalidLen", "none", "Io") EXCEPT !.needed = certSize]
        \/ o = [Firmware(r) EXCEPT !.certs = IF certSize = 0 THEN None ELSE tcb]
        \/ \E s \in StrayNow, c \in {None, Malformed} : o = Instead(Firmware(r), s, c)
    BY <2>1 DEF ExtOutcomes
  <2>3. CASE o = [Broken("InvalidLen", "none", "Io") EXCEPT !.needed = certSize]
    <3>1. o.vmm = "InvalidLen"
      BY <2>3 DEF Broken
    <3> QED
      BY <1>1, <3>1 DEF Rejecting, IssueError
  <2>4. CASE o # [Broken("InvalidLen", "none", "Io") EXCEPT !.needed = certSize]
    <3>1. \A c : Fine([Firmware(r) EXCEPT !.certs = c])
      BY <1>3
    <3>2. \A s, c : Fine(Instead(Firmware(r), s, c))
      BY <1>3 DEF Instead
    <3> HIDE DEF Fine
    <3>3. Fine(o)
      BY <2>2, <2>4, <3>1, <3>2
    <3> QED
      BY <1>2, <3>3
  <2> QED
    BY <2>3, <2>4
<1> QED
  BY <1>4, <1>5, <1>6 DEF Typed, TypeOK

\* Only a rejection makes a call fail as rejected.
LEMMA JudgeRejects ==
  ASSUME NEW c \in Call, NEW o, Judge(c, o).error = "Firmware"
  PROVE  o.status # "success"
<1> SUFFICES ASSUME o.status = "success"
             PROVE  FALSE
  OBVIOUS
<1>1. "Firmware" # None
  BY NoneAssumption DEF Error
<1>2. Judge(c, o).error \in {None, "Parse", "Mismatch"}
  BY DEF Judge, Failed, Answered, NoResult
<1> QED
  BY <1>1, <1>2

LEMMA RejectedStep ==
  ASSUME Typed, Typed', GivenUp, Fault = {}, Version \subseteq {0, 1}, NEW t \in Thread,
         call[t].op \in Attesting /\ result[t].error = "Firmware"
           => WireLevel(call[t].request) < GuestLevel,
         \/ \E c \in Call, delays \in {0, Retries} : Begin(t, c, delays)
         \/ Continue(t),
         call'[t].op \in Attesting, result'[t].error = "Firmware"
  PROVE  WireLevel(call'[t].request) < GuestLevel
<1>1. "Firmware" # None
  BY NoneAssumption DEF Error
<1>2. CASE \E c \in Call, delays \in {0, Retries} : Begin(t, c, delays)
  <2>1. PICK c \in Call, delays \in {0, Retries} : Begin(t, c, delays)
    BY <1>2
  <2>2. call'[t] = c /\ result'[t] \in {NoResult, Failed("InvalidArgument")}
    BY <2>1 DEF Begin, Typed, TypeOK
  <2> QED
    BY <1>1, <2>2 DEF NoResult, Failed
<1>3. ASSUME NEW o \in Ioctl(t), ProbeTooSmall(t, o)
      PROVE  WireLevel(call'[t].request) < GuestLevel
  BY <1>3, SpendShape DEF ProbeTooSmall
<1>4. ASSUME NEW o \in Ioctl(t), Settling(t, o)
      PROVE  WireLevel(call'[t].request) < GuestLevel
  <2>1. PICK res \in CallResult :
          /\ Spend(t, o) /\ Settle(t, res)
          /\ \/ res = Failed("InvalidArgument")
             \/ IssueError(o) # None /\ res = Failed(IssueError(o))
             \/ IssueError(o) = None /\ res = Judge(call[t], o)
    BY <1>4, SettlingShape
  <2>2. call' = call /\ pc[t] # "idle"
    BY <2>1, SpendShape
  <2>3. CASE result' = result
    BY <2>2, <2>3
  <2>4. CASE result'[t] = res
    <3>1. Rejecting(o)
      <4>1. res.error = "Firmware"
        BY <2>4
      <4>2. CASE res = Failed("InvalidArgument")
        BY <4>1, <4>2 DEF Failed
      <4>3. CASE res = Failed(IssueError(o))
        <5>1. \A error : Failed(error).error = error
          BY DEF Failed
        <5>2. IssueError(o) = "Firmware"
          BY <4>1, <4>3, <5>1
        <5> QED
          BY <5>2 DEF Rejecting
      <4>4. CASE IssueError(o) = None /\ res = Judge(call[t], o)
        BY <4>1, <4>4, JudgeRejects DEF Rejecting, Typed, TypeOK
      <4> QED
        BY <2>1, <4>2, <4>3, <4>4
    <3>2. version = 1
      BY <2>2 DEF GivenUp, Typed, TypeOK
    <3>3. pc[t] \in {"report", "probe", "fetch"}
      BY <2>2 DEF Typed, TypeOK, RightIoctl, Attesting
    <3> QED
      BY <2>2, <3>1, <3>2, <3>3, LevelAccepted
  <2> QED
    BY <2>1, <2>3, <2>4, SettleShape
<1> QED
  BY <1>2, <1>3, <1>4 DEF Continue, Settling

LEMMA GivenUpStep ==
  ASSUME Typed, GivenUp, [Next]_vars
  PROVE  GivenUp'
<1>1. ASSUME NEW t \in Thread, NEW c \in Call, NEW delays \in {0, Retries},
             Begin(t, c, delays)
      PROVE  GivenUp'
  BY <1>1 DEF Begin, device, GivenUp
<1>2. ASSUME NEW t \in Thread, NEW o \in Ioctl(t), Spend(t, o)
      PROVE  GivenUp'
  BY <1>2 DEF Spend, device, GivenUp
<1>3. ASSUME NEW v \in Version, WithMsgVersion(v)
      PROVE  GivenUp'
  BY <1>3 DEF WithMsgVersion, GivenUp
<1>4. CASE Provision \/ LoseKey \/ UNCHANGED vars
  BY <1>4 DEF Provision, LoseKey, vars, device, GivenUp
<1> QED
  BY <1>1, <1>2, <1>3, <1>4
  DEF Next, Continue, ProbeTooSmall, ProbeImplausible, Rejected, Answer

\* The firmware rejects an attestation for one reason only: on the wire it
\* asked for a level more privileged than the guest's own.
THEOREM RejectedOnlyForLevel == Spec => []RejectedForLevel
<1> DEFINE Inv == Typed /\ GivenUp /\ RejectedForLevel
<1>1. Init => Inv
  <2>1. Init => RejectedForLevel
    BY NoneAssumption DEF Init, RejectedForLevel, NoResult, Error
  <2>2. Init => GivenUp
    BY DEF Init, GivenUp
  <2> QED
    BY <2>1, <2>2, TypedInit
<1>2. Inv /\ [Next]_vars => Inv'
  <2> SUFFICES ASSUME Inv, [Next]_vars
               PROVE  Inv'
    OBVIOUS
  <2>1. Typed' /\ GivenUp'
    BY TypedStep, GivenUpStep
  <2>2. RejectedForLevel'
    <3> SUFFICES ASSUME Fault = {}, Version \subseteq {0, 1}, NEW u \in Thread,
                        call'[u].op \in Attesting, result'[u].error = "Firmware"
                 PROVE  WireLevel(call'[u].request) < GuestLevel
      BY DEF RejectedForLevel, WireLevel
    <3>1. call[u].op \in Attesting /\ result[u].error = "Firmware"
            => WireLevel(call[u].request) < GuestLevel
      BY DEF RejectedForLevel
    <3>2. ASSUME NEW t \in Thread,
                 \/ \E c \in Call, delays \in {0, Retries} : Begin(t, c, delays)
                 \/ Continue(t)
          PROVE  WireLevel(call'[u].request) < GuestLevel
      <4>1. CASE u = t
        BY <2>1, <3>1, <3>2, <4>1, RejectedStep
      <4>2. CASE u # t
        <5>1. call'[u] = call[u] /\ result'[u] = result[u]
          BY <3>2, <4>2, OthersUntouched
        <5> QED
          BY <3>1, <5>1
      <4> QED
        BY <4>1, <4>2
    <3>3. CASE UNCHANGED <<call, result>>
      BY <3>1, <3>3
    <3> QED
      BY <3>2, <3>3, CallsUntouched DEF Next
  <2> QED
    BY <2>1, <2>2
<1>3. Inv => RejectedForLevel
  OBVIOUS
<1> QED
  BY <1>1, <1>2, <1>3, PTL DEF Spec

\* The default level is what the documentation calls it on a guest at VMPL 0:
\* there a request that names no level is never rejected.
THEOREM DefaultAtZero ==
  ASSUME GuestLevel = 0, Version \subseteq {0, 1}
  PROVE  Spec => []DefaultLevelAccepted
<1>1. Typed /\ RejectedForLevel => DefaultLevelAccepted
  <2> SUFFICES ASSUME Typed, RejectedForLevel, Fault = {}, NEW t \in Thread,
                      call[t].op \in Attesting, result[t].error = "Firmware"
               PROVE  call[t].request.vmpl # None
    BY DEF DefaultLevelAccepted
  <2>1. call[t].request \in ReportRequest
    BY CallType DEF Typed, TypeOK
  <2>2. WireLevel(call[t].request) < 0
    BY DEF RejectedForLevel
  <2> QED
    BY <2>1, <2>2, WireLevelType
<1> QED
  BY <1>1, TypedInvariant, RejectedOnlyForLevel, PTL

=============================================================================
