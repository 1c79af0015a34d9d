-------------------------- MODULE MCKeyDerivation ---------------------------
(***************************************************************************)
(* An instance of KeyDerivation, and of the examples, for TLC: a guest on  *)
(* every generation of processor, and everything that may be different     *)
(* after a reboot.                                                         *)
(***************************************************************************)
EXTENDS Examples

CpuOf(family, model, stepping, turin, chip) ==
  LET fms == [family |-> family, model |-> model, stepping |-> stepping]
  IN  [eax |-> Cpuid1Eax(fms), fms |-> fms, turin |-> turin, chip |-> chip]

\* Numbers with a different digit at every place.
Digits(least) == [k \in 0 .. NUMBER_LEN - 1 |-> least - k]

\* Numbers that are told apart wherever they are put.
Tcb(turin, newer) ==
  [fmc |-> IF turin THEN 10 + newer ELSE NoFmc, bootloader |-> 20 + newer,
   tee |-> 30 + newer, snp |-> 40 + newer, microcode |-> 200 + newer]

\* ABI 1.55, SMT, the bit that must be set, and one of each end.
SomePolicy == {0, 1, 2, 4, 5, 8} \cup {16, 17, 25}

Base(cpu) ==
  [cpu |-> cpu, tcb |-> Tcb(cpu.turin, 1), policy |-> SomePolicy,
   launch |-> [f \in LaunchFact \ {Policy} |-> "a"], mit |-> <<3, 1>>,
   platform |-> {0, 2, 5}, signer |-> {2},
   sig |-> [algo |-> 1, r |-> Digits(2), s |-> Digits(4)],
   svn |-> 1, level |-> 0, agent |-> TRUE, version |-> 5, words |-> 10]

\* What may be different after a reboot: bits of the policy, the image and the
\* host, newer firmware, an older one with an older image, the level, the age
\* of kernel and firmware, and, with one bit of the policy that no accessor
\* reads, a firmware newer than the code and no migration agent.
Changed(w) ==
  {w,
   [w EXCEPT !.policy = @ \cup {19, 26}, !.launch[Measurement] = "b",
             !.platform = {1, 6, 7}],
   [w EXCEPT !.tcb = Tcb(FALSE, 2)],
   [w EXCEPT !.tcb = [Tcb(FALSE, 0) EXCEPT !.bootloader = 30, !.microcode = 0],
             !.svn = 0],
   [w EXCEPT !.level = 1],
   [w EXCEPT !.words = 8, !.version = 2, !.sig.algo = 0],
   [w EXCEPT !.agent = FALSE, !.version = 17, !.policy = @ \cup {26}]}

\* A Milan guest with everything that may change, and other generations:
\* named and not, of either layout, up to the largest family there can be.
\* Two are as low or as high as numbers go: a report without CPUID and a TCB
\* whose lowest byte, or every byte, is zero, and the largest guest SVN.
Worlds ==
  Changed(Base(CpuOf(25, 1, 1, FALSE, "milan"))) \cup
  {[Base(CpuOf(25, 170, 2, FALSE, "bergamo")) EXCEPT !.version = 2],
   [Base(CpuOf(26, 255, 15, TRUE, "turin")) EXCEPT !.version = 2, !.tcb.fmc = 0],
   [Base(CpuOf(25, 80, 0, FALSE, "zen3")) EXCEPT !.version = 3],
   [Base(CpuOf(25, 17, 1, FALSE, "genoa")) EXCEPT !.version = 2, !.svn = MAX_SVN,
      !.tcb = [fmc |-> NoFmc, bootloader |-> 0, tee |-> 0, snp |-> 0, microcode |-> 0]],
   Base(CpuOf(255, 18, 3, TRUE, "last"))}

SomeVectors == {<<7, 9>>}

=============================================================================
