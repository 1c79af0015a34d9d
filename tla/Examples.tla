------------------------------ MODULE Examples -------------------------------
(***************************************************************************)
(* The key derivations of the example programs derive_key and attest: the  *)
(* pairs of keys they compare, the relation they expect, the bindings they *)
(* expect the firmware to refuse, and what they then show.                 *)
(*                                                                         *)
(* The programs take one report and derive many keys after it; the host    *)
(* may update its firmware in between, so the report comes from world and  *)
(* each derivation happens in some w that is world or an update of it.     *)
(***************************************************************************)
EXTENDS KeyDerivation

\* Two derivations, the relation expected between their keys, and whether
\* the program goes on when the second one is refused.
Pair(expect, w, left, right, optional) ==
  [expect |-> expect, left |-> Derived(left, w), right |-> Derived(right, w),
   optional |-> optional]

\* report_pair's verdict.
Held(pair) ==
  CASE pair.expect = "Same"      -> pair.left = pair.right
    [] pair.expect = "Different" -> pair.left # pair.right

\* What becomes of a pair: the program ends with the error of a key it cannot
\* do without, says that the other one is refused, or gives report_pair's word.
Verdict(pair) ==
  IF pair.left = {} THEN "stopped"
  ELSE IF pair.right = {} THEN IF pair.optional THEN "refused" ELSE "stopped"
  ELSE IF Held(pair) THEN "ok" ELSE "UNEXPECTED"

-----------------------------------------------------------------------------
Determinism(w) ==
  LET bound == WithFact(NewKeyRequest, Measurement)
  IN  {Pair("Same", w, bound, bound, FALSE)}

BindingSensitivity(w) ==
  {Pair("Different", w, NewKeyRequest, variant, FALSE) :
     variant \in {WithFact(NewKeyRequest, fact) : fact \in LaunchFact}
                 \cup {WithSvn(NewKeyRequest, 0)}}

PrivilegeSeparation(w) ==
  {Pair("Different", w, WithVmpl(NewKeyRequest, 0), WithVmpl(NewKeyRequest, level),
        TRUE) : level \in 1 .. MAX_VMPL}

\* The eight bytes as one number, less one: the lowest byte that has anything
\* to give, and a borrow from those below it.
StepDown(raw) ==
  LET Steps(i) == /\ \A k \in 1 .. i - 1 : raw[k] = 0
                  /\ \E k \in i .. 8 : raw[k] # 0
  IN  [i \in 1 .. 8 |-> IF Steps(i) THEN (raw[i] + 255) % 256 ELSE raw[i]]

\* Mutant of OlderTcb: the microcode wraps around below zero.
OlderTcbWraps(rep) ==
  IF ProductOf(rep) = None THEN StepDown(rep.reported_tcb)
  ELSE LET product == ProductOf(rep)
           parts   == Decode(rep.reported_tcb, product)
       IN  Encode([parts EXCEPT !.microcode = (@ + 255) % 256], product)

\* Where the layout is known the microcode steps down, and stays at zero.
OlderTcb(rep) ==
  IF ProductOf(rep) = None THEN StepDown(rep.reported_tcb)
  ELSE LET product == ProductOf(rep)
           parts   == Decode(rep.reported_tcb, product)
       IN  Encode([parts EXCEPT !.microcode = IF @ = 0 THEN 0 ELSE @ - 1], product)

RollbackResistance(rep, w) ==
  {Pair("Different", w, WithTcb(NewKeyRequest, rep.reported_tcb),
        WithTcb(NewKeyRequest, OlderTcb(rep)), TRUE)}

RootKeyChoice(w) ==
  {Pair("Different", w, WithRoot(NewKeyRequest, "Vcek"),
        WithRoot(NewKeyRequest, "Vmrk"), TRUE)}

\* The two requests of refused_bindings: a guest SVN above the one of the
\* launch, unless that is the largest there is, and a level beyond the last.
AboveLaunch(rep) ==
  WithSvn(NewKeyRequest, IF rep.guest_svn = MAX_SVN THEN MAX_SVN ELSE rep.guest_svn + 1)

BeyondLevels == WithVmpl(NewKeyRequest, MAX_VMPL + 1)

\* attest's derive_keys: its two assertions.
DeriveKeys(rep, w) ==
  LET sealing == WithTcb(WithFact(WithFact(NewKeyRequest, Measurement), Policy),
                         rep.reported_tcb)
  IN  {Pair("Same", w, sealing, sealing, FALSE),
       Pair("Different", w, sealing, WithFact(sealing, FamilyId), FALSE)}

\* The pairs that every machine can be asked for.
Pairs(rep, w) ==
  Determinism(w) \cup BindingSensitivity(w) \cup PrivilegeSeparation(w)
  \cup DeriveKeys(rep, w)

-----------------------------------------------------------------------------
\* The machine itself, or after a firmware update that its guest did not see.
Updated(w) == {v \in World : /\ v = [w EXCEPT !.tcb = v.tcb]
                             /\ CoveredBy(HardwareTcb(w), v)}

\* What the examples do on each machine, even if its firmware is updated
\* between the report and the derivations.  A guest at the most privileged
\* level has every key derived and finds it the same or different as expected,
\* but for the migration root of a guest without an agent; any other guest is
\* stopped at the first derivation.  A level beyond the last is refused, and so
\* is a guest SVN above the launch, unless the SVN of the launch is the largest
\* number there is: then the example asks for that one itself and has it.
ExamplesHold ==
  report # None /\ request = NewKeyRequest /\ sealed = None =>
    \A w \in Updated(world) :
      /\ \A pair \in Pairs(report, w) :
           Verdict(pair) = IF w.level = 0 THEN "ok" ELSE "stopped"
      /\ \A pair \in RootKeyChoice(w) :
           Verdict(pair) = IF w.level # 0 THEN "stopped"
                           ELSE IF w.agent THEN "ok" ELSE "refused"
      /\ Derived(BeyondLevels, w) = {}
      /\ Derived(AboveLaunch(report), w) # {}
           <=> w.level = 0 /\ report.guest_svn = MAX_SVN

\* Which TCB the example finds to compare with, by the report: one that is
\* older in one number and newer in none; the very same, with nothing to step
\* down from; or one with a borrow, whose lowest number is the largest.
HasOlder(rep) ==
  IF ProductOf(rep) = None THEN rep.reported_tcb[1] # 0
  ELSE ReportedTcbParts(rep).microcode # 0

NothingOlder(rep) ==
  IF ProductOf(rep) = None THEN \A i \in 1 .. 8 : rep.reported_tcb[i] = 0
  ELSE ReportedTcbParts(rep).microcode = 0

Borrows(rep) ==
  /\ ProductOf(rep) = None
  /\ rep.reported_tcb[1] = 0 /\ \E i \in 2 .. 8 : rep.reported_tcb[i] # 0

\* What rollback_resistance shows on each machine, updated in between or not.
\* Its comment says that a key bound to an older TCB exists and differs; for a
\* guest at the most privileged level that is so where the report leaves an
\* older TCB to name.  It is not where there is nothing to step down from: the
\* two keys are one, and the example calls it unexpected.  Where the layout is
\* unknown and the step borrows, the TCB named is newer in its lowest number
\* and its key is refused, unless the machine has that number at its largest.
RollbackShown ==
  report # None /\ request = NewKeyRequest /\ sealed = None =>
    \A w \in Updated(world) : \A pair \in RollbackResistance(report, w) :
      /\ w.level # 0 => Verdict(pair) = "stopped"
      /\ w.level = 0 /\ HasOlder(report) => Verdict(pair) = "ok"
      /\ w.level = 0 /\ NothingOlder(report) => Verdict(pair) = "UNEXPECTED"
      /\ w.level = 0 /\ Borrows(report) =>
           \/ Verdict(pair) = "refused"
           \/ Verdict(pair) = "ok" /\ HardwareTcb(w)[1] = 255

=============================================================================
