-------------------------- MODULE SevGuestAnswers ---------------------------
(***************************************************************************)
(* What SevGuest answers: an honest kernel's answer is the firmware's to   *)
(* the very request, taken in a single step with its certificates, and so  *)
(* SevGuest keeps the promise of Attestation.                              *)
(***************************************************************************)
EXTENDS SevGuestProofs

\* An ioctl that leaves no error behind was answered, not failed.
LEMMA AnsweredOutcome ==
  ASSUME Typed, NEW t \in Thread, NEW o \in Ioctl(t), IssueError(o) = None
  PROVE  /\ pc[t] = "key" => o \in KeyOutcomes
         /\ pc[t] = "report" => o \in ReportOutcomes(call[t].request)
         /\ pc[t] \in {"probe", "fetch"} =>
              o \in ExtOutcomes(call[t].request, buffer[t])
<1>1. "Vmm" # None /\ "VmmBusy" # None /\ "Firmware" # None /\ "Io" # None
  BY NoneAssumption DEF Error
<1>2. o \notin Fault
  BY <1>1, SevGuestAssumption DEF IssueError, Outcome, VmmCode
<1>3. /\ o # Broken("none", "none", "Io")
      /\ o # Broken("none", "rejected", "Io")
  BY <1>1 DEF Broken, IssueError
<1> QED
  BY <1>2, <1>3 DEF Ioctl

\* What an honest kernel hands out is the firmware's answer to the request,
\* at the level it names or the guest's own, and the chain of that TCB.
LEMMA HonestAnswer ==
  ASSUME Typed, honest, NEW t \in Thread, call[t].op \in Attesting,
         NEW o \in Ioctl(t), pc[t] # "idle", IssueError(o) = None
  PROVE  /\ o.report = [data |-> call[t].request.data,
                        vmpl |-> WireLevel(call[t].request), tcb |-> tcb]
         /\ WireLevel(call[t].request) = IF call[t].request.vmpl = None
                                         THEN GuestLevel
                                         ELSE call[t].request.vmpl
         /\ call[t].op = "extended_report" =>
              o.certs = IF certSize = 0 THEN None ELSE tcb
<1> DEFINE r == call[t].request
           served == [Firmware(r) EXCEPT
                        !.certs = IF certSize = 0 THEN None ELSE tcb]
<1>1. /\ r \in ReportRequest
      /\ WireLevel(r) \in Nat /\ GuestLevel \in Nat
      /\ pc[t] \in {"report", "probe", "fetch"}
      /\ call[t].op = "extended_report" => pc[t] \in {"probe", "fetch"}
  BY CallType, WireLevelType, SevGuestAssumption
  DEF Typed, TypeOK, RightIoctl, Attesting
<1>2. StrayNow = {}
  BY DEF StrayNow
<1>3. "Vmm" # None /\ "Firmware" # None
  BY NoneAssumption DEF Error
<1>4. \/ o = Firmware(r) /\ pc[t] = "report"
      \/ o = served
  <2>1. CASE pc[t] = "report"
    BY <1>2, <2>1, AnsweredOutcome DEF ReportOutcomes
  <2>2. CASE pc[t] \in {"probe", "fetch"}
    <3>1. o \in ExtOutcomes(r, buffer[t])
      BY <2>2, AnsweredOutcome
    <3>2. CASE certSize > buffer[t]
      <4>1. o = [Broken("InvalidLen", "none", "Io") EXCEPT !.needed = certSize]
        BY <3>1, <3>2 DEF ExtOutcomes
      <4> QED
        BY <1>3, <4>1 DEF Broken, IssueError
    <3>3. CASE ~(certSize > buffer[t])
      BY <1>2, <3>1, <3>3 DEF ExtOutcomes
    <3> QED
      BY <3>2, <3>3
  <2> QED
    BY <1>1, <2>1, <2>2
<1>5. IssueError(Firmware(r)) = None
  BY <1>4 DEF IssueError, Firmware, Broken
<1>6. ~(WireLevel(r) < GuestLevel)
  BY <1>3, <1>5 DEF IssueError, Firmware, Broken
<1>7. /\ Firmware(r).report = [data |-> r.data, vmpl |-> WireLevel(r), tcb |-> tcb]
      /\ served.report = Firmware(r).report
      /\ served.certs = IF certSize = 0 THEN None ELSE tcb
  BY <1>6 DEF Firmware
<1>8. r.vmpl = None => WireLevel(r) = GuestLevel
  BY <1>1, <1>6 DEF WireLevel
<1>9. r.vmpl # None => WireLevel(r) = r.vmpl
  BY DEF WireLevel
<1> QED
  BY <1>1, <1>4, <1>7, <1>8, <1>9

\* A result with a report was judged good.
LEMMA JudgedGood ==
  ASSUME NEW c \in Call, NEW o \in Outcome
  PROVE  \/ \E error \in Error : Judge(c, o) = Failed(error)
         \/ Judge(c, o) = NoResult /\ c.op = "derive_key"
         \/ /\ c.op \in Attesting /\ o.report \in AttestationReport
            /\ VerifyAnswers(c.request, o.report)
            /\ Judge(c, o) = Answered(o.report, IF c.op = "report" THEN None
                                                                 ELSE o.certs)
<1>1. {"Firmware", "Parse", "Mismatch"} \subseteq Error
  BY DEF Error
<1>2. o.report \in AttestationReport \cup {Malformed}
  BY DEF Outcome
<1> QED
  BY <1>1, <1>2, CallType DEF Judge

\* An extended report without certificates comes only while the host has
\* none to give: neither the probe, nor its race with a host that
\* provisions, nor a retry turns certificates into none.
THEOREM EmptyIsNone == Spec => EmptyMeansNone
<1> DEFINE Empty(t) ==
      pc[t] # "idle" /\ pc'[t] = "idle" /\ call[t].op = "extended_report"
      /\ result'[t].report # None /\ result'[t].chain = None /\ honest
<1>1. ASSUME Typed, [Next]_vars, NEW t \in Thread, Empty(t)
      PROVE  certSize = 0
  <2>1. Continue(t)
    <3>1. ~(UNCHANGED pc)
      BY <1>1
    <3>2. ASSUME NEW u \in Thread, NEW c \in Call, NEW delays \in {0, Retries},
                 Begin(u, c, delays)
          PROVE  FALSE
      <4>1. u # t
        BY <1>1, <3>2 DEF Begin
      <4> QED
        BY <1>1, <3>2, <4>1, OthersUntouched
    <3>3. PICK u \in Thread : Continue(u)
      BY <1>1, <3>1, <3>2, CallsUntouched DEF Next
    <3> QED
      BY <1>1, <3>3, OthersUntouched
  <2>2. PICK o \in Ioctl(t) : Settling(t, o)
    BY <1>1, <2>1 DEF Continue, Settling, ProbeTooSmall, Goto, Typed, TypeOK
  <2>3. PICK res \in CallResult :
          /\ Spend(t, o) /\ Settle(t, res)
          /\ \/ \E error \in Error : res = Failed(error)
             \/ IssueError(o) = None /\ res = Judge(call[t], o)
    BY <1>1, <2>2, SettlingShape, VerdictType DEF Error
  <2>4. result'[t] = res
    BY <1>1, <2>3, SettleShape, FirstIoctlType DEF Typed, TypeOK
  <2>5. res.report # None /\ res.chain = None
    BY <1>1, <2>4
  <2>6. IssueError(o) = None /\ res = Judge(call[t], o)
    BY <2>3, <2>5 DEF Failed
  <2>7. res.chain = o.certs
    <3>1. call[t] \in Call /\ o \in Outcome
      BY <1>1, IoctlType DEF Typed, TypeOK
    <3> QED
      BY <1>1, <2>5, <2>6, <3>1, JudgedGood DEF Failed, NoResult, Answered
  <2>8. o.certs = IF certSize = 0 THEN None ELSE tcb
    BY <1>1, <2>6, HonestAnswer DEF Attesting
  <2> QED
    BY <1>1, <2>5, <2>7, <2>8, NoneAssumption DEF Typed, TypeOK
<1>2. Typed /\ [Next]_vars
        => [\A t \in Thread : Empty(t) => certSize = 0]_vars
  BY <1>1
<1> QED
  BY <1>2, TypedInvariant, PTL DEF Spec, EmptyMeansNone

-----------------------------------------------------------------------------
(***************************************************************************)
(* Every step is a step of Attestation or changes nothing it sees.         *)
(***************************************************************************)
asked(t) == IF pc[t] # "idle" /\ call[t].op \in Attesting
            THEN call[t].request ELSE None
answer(t) == IF call[t].op \in Attesting THEN result[t] ELSE NoResult

Unseen(t) == asked(t)' = asked(t) /\ answer(t)' = answer(t)

\* What the caller of one thread sees of a step: nothing, the start of a
\* call, an error, or an answer to what was asked, which is the firmware's
\* when the kernel is honest.
Seen(t) ==
  \/ Unseen(t)
  \/ /\ asked(t) = None /\ answer(t)' = NoResult
     /\ asked(t)' \in ReportRequest \cup {None}
  \/ /\ asked(t) # None /\ asked(t)' = None
     /\ \/ \E error \in Error : answer(t)' = Failed(error)
        \/ /\ answer(t)'.report # None
           /\ VerifyAnswers(asked(t), answer(t)'.report)
           /\ honest => /\ answer(t)'.report.vmpl =
                             IF asked(t).vmpl = None THEN GuestLevel
                                                     ELSE asked(t).vmpl
                        /\ answer(t)'.chain \in {None, answer(t)'.report.tcb}

LEMMA BeginSeen ==
  ASSUME Typed, NEW t \in Thread, NEW c \in Call, NEW delays \in {0, Retries},
         Begin(t, c, delays)
  PROVE  Seen(t)
<1>1. asked(t) = None /\ call'[t] = c
  BY DEF asked, Begin, Typed, TypeOK
<1>2. CASE c.op \in Attesting
  <2>1. pc'[t] = FirstIoctl(c.op) /\ result'[t] = NoResult
    BY <1>2 DEF Begin, Goto, Typed, TypeOK, Attesting
  <2>2. asked(t)' = c.request /\ answer(t)' = NoResult
    BY <1>1, <1>2, <2>1, FirstIoctlType DEF asked, answer
  <2> QED
    BY <1>1, <1>2, <2>2, CallType DEF Seen
<1>3. CASE c.op \notin Attesting
  <2>1. asked(t)' = None /\ answer(t)' = NoResult
    BY <1>1, <1>3 DEF asked, answer
  <2> QED
    BY <1>1, <2>1 DEF Seen
<1> QED
  BY <1>2, <1>3

LEMMA SettlingSeen ==
  ASSUME Typed, NEW t \in Thread, NEW o \in Ioctl(t), Settling(t, o)
  PROVE  Seen(t)
<1> DEFINE r == call[t].request
<1>1. PICK res \in CallResult :
        /\ Spend(t, o) /\ Settle(t, res)
        /\ \/ \E error \in Error : res = Failed(error)
           \/ IssueError(o) = None /\ res = Judge(call[t], o)
  BY SettlingShape, VerdictType DEF Error
<1>2. /\ pc[t] # "idle" /\ call' = call
      /\ call[t] \in Call /\ o \in Outcome
  BY <1>1, SpendShape, IoctlType DEF Typed, TypeOK
<1>3. CASE call[t].op \notin Attesting
  BY <1>2, <1>3 DEF Seen, Unseen, asked, answer
<1>4. CASE call[t].op \in Attesting /\ pc'[t] # "idle"
  <2>1. result' = result
    BY <1>1, <1>4, SettleShape
  <2> QED
    BY <1>2, <1>4, <2>1 DEF Seen, Unseen, asked, answer
<1>5. CASE call[t].op \in Attesting /\ pc'[t] = "idle"
  <2>1. result'[t] = res
    BY <1>1, <1>2, <1>5, SettleShape, FirstIoctlType
  <2>2. /\ asked(t) = r /\ asked(t)' = None /\ answer(t)' = res
        /\ r \in ReportRequest /\ r # None
    BY <1>2, <1>5, <2>1, CallType, NoneAssumption DEF asked, answer
  <2>3. CASE \E error \in Error : res = Failed(error)
    BY <2>2, <2>3 DEF Seen
  <2>4. CASE /\ IssueError(o) = None /\ o.report \in AttestationReport
             /\ VerifyAnswers(r, o.report)
             /\ res = Answered(o.report, IF call[t].op = "report" THEN None
                                                               ELSE o.certs)
    <3>1. /\ res.report = o.report /\ res.report # None
          /\ res.chain = IF call[t].op = "report" THEN None ELSE o.certs
      BY <2>4, NoneAssumption DEF Answered
    <3>2. ASSUME honest
          PROVE  /\ res.report.vmpl = IF r.vmpl = None THEN GuestLevel ELSE r.vmpl
                 /\ res.chain \in {None, res.report.tcb}
      <4>1. /\ o.report = [data |-> r.data, vmpl |-> WireLevel(r), tcb |-> tcb]
            /\ WireLevel(r) = IF r.vmpl = None THEN GuestLevel ELSE r.vmpl
            /\ call[t].op = "extended_report" => o.certs \in {None, tcb}
        BY <1>2, <1>5, <2>4, <3>2, HonestAnswer
      <4> QED
        BY <1>5, <3>1, <4>1 DEF Attesting
    <3> QED
      BY <2>2, <2>4, <3>1, <3>2 DEF Seen
  <2> QED
    BY <1>1, <1>2, <1>5, <2>3, <2>4, JudgedGood, CallType
<1> QED
  BY <1>3, <1>4, <1>5

LEMMA ContinueSeen ==
  ASSUME Typed, NEW t \in Thread, Continue(t)
  PROVE  Seen(t)
<1>1. ASSUME NEW o \in Ioctl(t), ProbeTooSmall(t, o)
      PROVE  Seen(t)
  <2>1. /\ pc[t] = "probe" /\ pc'[t] = "fetch"
        /\ UNCHANGED <<call, result>>
    BY <1>1, SpendShape DEF ProbeTooSmall, Goto, Typed, TypeOK
  <2> QED
    BY <2>1 DEF Seen, Unseen, asked, answer
<1> QED
  BY <1>1, SettlingSeen DEF Continue, Settling

\* A step is seen by one caller at most.
LEMMA StepSeen ==
  ASSUME Typed, [Next]_vars
  PROVE  /\ honest' = honest
         /\ \/ \A u \in Thread : Unseen(u)
            \/ \E t \in Thread : Seen(t) /\ \A u \in Thread \ {t} : Unseen(u)
<1>1. ASSUME NEW t \in Thread,
             \/ \E c \in Call, delays \in {0, Retries} : Begin(t, c, delays)
             \/ Continue(t)
      PROVE  /\ honest' = honest
             /\ Seen(t) /\ \A u \in Thread \ {t} : Unseen(u)
  <2>1. honest' = honest
    BY <1>1 DEF Begin, Continue, ProbeTooSmall, ProbeImplausible, Rejected,
                Answer, Spend, device
  <2>2. Seen(t)
    BY <1>1, BeginSeen, ContinueSeen
  <2>3. \A u \in Thread \ {t} : Unseen(u)
    BY <1>1, OthersUntouched DEF Unseen, asked, answer
  <2> QED
    BY <2>1, <2>2, <2>3
<1>2. ASSUME UNCHANGED <<honest, pc, call, result>>
      PROVE  honest' = honest /\ \A u \in Thread : Unseen(u)
  BY <1>2 DEF Unseen, asked, answer
<1> QED
  BY <1>1, <1>2, CallsUntouched DEF Next

LEMMA SeenPromised ==
  ASSUME NEW t \in Thread, Seen(t),
         \A u \in Thread \ {t} : Unseen(u)
  PROVE  [Promise!Next]_(Promise!vars)
<1> USE DEF Asked, Given, asked, answer
<1>1. \A u \in Thread \ {t} : Unseen(u)
  OBVIOUS
<1>2. CASE Unseen(t)
  BY <1>1, <1>2 DEF Promise!vars, Unseen
<1>3. CASE /\ asked(t) = None /\ answer(t)' = NoResult
           /\ asked(t)' \in ReportRequest
  <2>1. PICK request \in ReportRequest : request = asked(t)'
    BY <1>3
  <2>2. Promise!Ask(t, request)
    BY <1>1, <1>3, <2>1
    DEF Promise!Ask, Promise!NoResult, NoResult, Unseen
  <2> QED
    BY <2>2 DEF Promise!Next, Promise!ReportRequest, ReportRequest
<1>4. CASE asked(t) = None /\ answer(t)' = NoResult /\ asked(t)' = None
  <2>1. Promise!Abandon({t})
    BY <1>1, <1>4 DEF Promise!Abandon, Promise!NoResult, NoResult, Unseen
  <2> QED
    BY <2>1 DEF Promise!Next
<1>5. ASSUME asked(t) # None, asked(t)' = None,
             NEW error \in Error, answer(t)' = Failed(error)
      PROVE  Promise!Next
  <2>1. Promise!Fail(t, error)
    BY <1>1, <1>5 DEF Promise!Fail, Promise!Failed, Failed, Unseen
  <2> QED
    BY <2>1 DEF Promise!Next, Promise!Error, Error
<1>6. CASE /\ asked(t) # None /\ asked(t)' = None
           /\ answer(t)'.report # None
           /\ Promise!Promised(asked(t), answer(t)')
  <2>1. Promise!Answer(t, answer(t)')
    BY <1>1, <1>6 DEF Promise!Answer, Unseen
  <2> QED
    BY <2>1 DEF Promise!Next, Promise!Answer
<1> QED
  BY <1>2, <1>3, <1>4, <1>5, <1>6
  DEF Seen, Promise!Promised, Promise!EffectiveVmpl, Promise!VerifyAnswers, VerifyAnswers

\* On any kernel, however ioctls fail and the host provisions, calls answer
\* as Attestation promises: with an error, or with a report that carries the
\* data of that very request and the level it names.
THEOREM PromiseKept == Spec => KeepsPromise
<1>1. Init => Promise!Init
  BY DEF Init, Promise!Init, Promise!NoResult, NoResult, Asked, Given, Attesting
<1>2. ASSUME Typed, [Next]_vars
      PROVE  [Promise!Next]_(Promise!vars)
  <2>1. CASE \A u \in Thread : Unseen(u)
    BY <2>1 DEF Promise!vars, Asked, Given, Unseen, asked, answer
  <2> QED
    BY <1>2, <2>1, StepSeen, SeenPromised
<1> QED
  BY <1>1, <1>2, TypedInvariant, PTL DEF Spec, KeepsPromise, Promise!Spec

LEMMA SeenTrusted ==
  ASSUME honest, honest' = honest, NEW t \in Thread, Seen(t),
         \A u \in Thread \ {t} : Unseen(u)
  PROVE  [TrustedPromise!Next]_(TrustedPromise!vars)
<1> USE DEF Asked, Given, asked, answer
<1>1. \A u \in Thread \ {t} : Unseen(u)
  OBVIOUS
<1>2. CASE Unseen(t)
  BY <1>1, <1>2 DEF TrustedPromise!vars, Unseen
<1>3. CASE /\ asked(t) = None /\ answer(t)' = NoResult
           /\ asked(t)' \in ReportRequest
  <2>1. PICK request \in ReportRequest : request = asked(t)'
    BY <1>3
  <2>2. TrustedPromise!Ask(t, request)
    BY <1>1, <1>3, <2>1
    DEF TrustedPromise!Ask, TrustedPromise!NoResult, NoResult, Unseen
  <2> QED
    BY <2>2 DEF TrustedPromise!Next, TrustedPromise!ReportRequest, ReportRequest
<1>4. CASE asked(t) = None /\ answer(t)' = NoResult /\ asked(t)' = None
  <2>1. TrustedPromise!Abandon({t})
    BY <1>1, <1>4 DEF TrustedPromise!Abandon, TrustedPromise!NoResult, NoResult, Unseen
  <2> QED
    BY <2>1 DEF TrustedPromise!Next
<1>5. ASSUME asked(t) # None, asked(t)' = None,
             NEW error \in Error, answer(t)' = Failed(error)
      PROVE  TrustedPromise!Next
  <2>1. TrustedPromise!Fail(t, error)
    BY <1>1, <1>5 DEF TrustedPromise!Fail, TrustedPromise!Failed, Failed, Unseen
  <2> QED
    BY <2>1 DEF TrustedPromise!Next, TrustedPromise!Error, Error
<1>6. CASE /\ asked(t) # None /\ asked(t)' = None
           /\ answer(t)'.report # None
           /\ TrustedPromise!Promised(asked(t), answer(t)')
  <2>1. TrustedPromise!Answer(t, answer(t)')
    BY <1>1, <1>6 DEF TrustedPromise!Answer, Unseen
  <2> QED
    BY <2>1 DEF TrustedPromise!Next, TrustedPromise!Answer
<1> QED
  BY <1>2, <1>3, <1>4, <1>5, <1>6
  DEF Seen, TrustedPromise!Promised, TrustedPromise!EffectiveVmpl, TrustedPromise!VerifyAnswers, VerifyAnswers

\* With an honest kernel they answer as it promises to callers of a trusted
\* one: a request that names no level is answered at the guest's own, and a
\* chain certifies the very report it comes with, although the host may move
\* to other firmware and other certificates between probe and fetch.
THEOREM TrustedPromiseKept == Spec => KeepsTrustedPromise
<1>1. Init => TrustedPromise!Init
  BY DEF Init, TrustedPromise!Init, TrustedPromise!NoResult, NoResult, Asked,
         Given, Attesting
<1>2. ASSUME Typed, [Next]_vars
      PROVE  [TrustedPromise!Next]_(TrustedPromise!vars)
  <2>1. honest' = honest
    BY <1>2, StepSeen
  <2>2. CASE ~honest
    BY <2>1, <2>2 DEF TrustedPromise!vars
  <2>3. CASE \A u \in Thread : Unseen(u)
    BY <2>1, <2>3 DEF TrustedPromise!vars, Asked, Given, Unseen, asked, answer
  <2> QED
    BY <1>2, <2>1, <2>2, <2>3, StepSeen, SeenTrusted
<1> QED
  BY <1>1, <1>2, TypedInvariant, PTL
  DEF Spec, KeepsTrustedPromise, TrustedPromise!Spec

=============================================================================
