---------------------------- MODULE Attestation -----------------------------
(***************************************************************************)
(* What a caller is promised, whatever the transport: each thread asks for *)
(* one report at a time and is given either an error or a report that      *)
(* answers what that thread asked -- not what another thread, another      *)
(* process or an earlier call asked.                                       *)
(*                                                                         *)
(* Trusted says whether the kernel only ever hands out what the firmware   *)
(* answered to the request of the report directory being read.  Then the   *)
(* promise is stronger: a request that names no level is answered at the   *)
(* default one, and a chain certifies the very report it comes with.       *)
(***************************************************************************)
EXTENDS SnpRequest

CONSTANTS
  Thread,
  DefaultVmpl,   \* the level the kernel signs at when none is written
  Trusted        \* the kernel answers every request itself

VARIABLES
  asked,         \* asked[t]: the request thread t waits on, or None
  answer         \* answer[t]: what the last call of thread t returned

vars == <<asked, answer>>

EffectiveVmpl(request) ==
  IF request.vmpl = None THEN DefaultVmpl ELSE request.vmpl

Promised(request, result) ==
  /\ VerifyAnswers(request, result.report)
  /\ Trusted => /\ result.report.vmpl = EffectiveVmpl(request)
                /\ result.chain \in {None, result.report.tcb}

Init == /\ asked = [t \in Thread |-> None]
        /\ answer = [t \in Thread |-> NoResult]

Ask(t, request) ==
  /\ asked[t] = None
  /\ asked' = [asked EXCEPT ![t] = request]
  /\ answer' = [answer EXCEPT ![t] = NoResult]

Answer(t, result) ==
  /\ asked[t] # None
  /\ result.report # None /\ Promised(asked[t], result)
  /\ asked' = [asked EXCEPT ![t] = None]
  /\ answer' = [answer EXCEPT ![t] = result]

Fail(t, error) ==
  /\ asked[t] # None
  /\ asked' = [asked EXCEPT ![t] = None]
  /\ answer' = [answer EXCEPT ![t] = Failed(error)]

\* The process of these threads dies; nobody is told anything.
Abandon(threads) ==
  /\ asked' = [t \in Thread |-> IF t \in threads THEN None ELSE asked[t]]
  /\ answer' = [t \in Thread |-> IF t \in threads THEN NoResult ELSE answer[t]]

Next ==
  \/ \E t \in Thread :
       \/ \E request \in ReportRequest : Ask(t, request)
       \/ Answer(t, answer'[t])
       \/ \E error \in Error : Fail(t, error)
  \/ \E threads \in SUBSET Thread : Abandon(threads)

Spec == Init /\ [][Next]_vars

=============================================================================
