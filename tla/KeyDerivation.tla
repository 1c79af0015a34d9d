--------------------------- MODULE KeyDerivation ----------------------------
(***************************************************************************)
(* Sealing with derived keys: a guest takes a report, builds a key request *)
(* call by call, has a key derived and seals data with it; later, after    *)
(* reboots into another image, firmware, kernel or processor, it derives   *)
(* again and hopes for the same key.                                       *)
(*                                                                         *)
(* Between the calls of the builder and the key lie KeyRequest, its wire   *)
(* form, the kernel that copies it and the firmware that reads it.  The    *)
(* wire form is a sequence of 32-bit words; a word of a TCB version is its *)
(* four bytes.  The guest policy is the set of its bits, any other launch  *)
(* fact a string.                                                          *)
(*                                                                         *)
(* External, and modelled from how the code uses them: the kernel, the     *)
(* firmware, and the processor with its CPUID.                             *)
(***************************************************************************)
EXTENDS Report

CONSTANTS
  World,         \* what a guest may wake up in, see WorldType
  Vmpl, Svn, Mit,  \* the levels, versions and vectors a guest asks for
  MaxCalls       \* bound: builder calls on a request

MAX_VMPL == 3

\* The facts a request may bind, by the bit that selects each.
Policy == 0
ImageId == 1
FamilyId == 2
Measurement == 3
LaunchFact == Policy .. Measurement
GuestSvn == 4
TcbVersion == 5
LaunchMitVector == 6

Cpu == [eax : Nat, fms : Fms, turin : BOOLEAN, chip : STRING]

\* CPUID(1).EAX as the processor manuals define it: the extended family is
\* what exceeds the base family, the model has its upper half apart.
Cpuid1Eax(fms) ==
  LET base == IF fms.family < 15 THEN fms.family ELSE 15 IN
  (fms.family - base) * 1048576 + (fms.model \div 16) * 65536 + base * 256
  + (fms.model % 16) * 16 + fms.stepping

\* A processor: a stepping has four bits, and the TCB versions of family 1Ah
\* and later are those of Turin, with a version number for the FMC.
CpuOK(cpu) ==
  /\ cpu \in Cpu
  /\ cpu.fms.stepping < 16
  /\ cpu.eax = Cpuid1Eax(cpu.fms)
  /\ cpu.turin <=> cpu.fms.family >= 26
  /\ cpu.chip # "vmrk"                 \* its secret is not a migration agent's

\* A number of a signature: its digits to base 256, by the power of each.
Number == [0 .. NUMBER_LEN - 1 -> Byte]

\* What a guest may find when it wakes up.
Machine ==
  [cpu : Cpu,
   tcb : TcbParts,                     \* reported, and committed
   policy : U64, launch : [LaunchFact \ {Policy} -> STRING],
   mit : Nat \X Nat,                   \* mitigations in force at launch
   platform : U64, signer : U32, sig : [algo : Nat, r : Number, s : Number],
   svn : 0 .. MAX_SVN,                 \* of the ID block at launch
   level : Nat,                        \* the guest's VMPL
   agent : BOOLEAN,                    \* launched with a migration agent
   version : Nat,                      \* of the reports the firmware writes
   words : {8, 10}]                    \* words of a request the kernel copies

WorldTypeOK(w) ==
  /\ w \in Machine
  /\ CpuOK(w.cpu)
  /\ w.cpu.turin <=> w.tcb.fmc # NoFmc

ASSUME WorldAssumption ==
  /\ \A w \in World : WorldTypeOK(w)
  /\ Vmpl \subseteq Nat /\ Svn \subseteq 0 .. MAX_SVN /\ Mit \subseteq Nat \X Nat
  /\ MaxCalls \in Nat

VARIABLES
  world,         \* where the guest runs now
  report,        \* the report it took last, or None
  request,       \* the KeyRequest it builds
  asked,         \* what it asked the builder for, a history
  calls,         \* builder calls made so far
  derived,       \* the key of the last derive_key, if it returned one
  sealed         \* the key it sealed with and the facts at the time

vars == <<world, report, request, asked, calls, derived, sealed>>

-----------------------------------------------------------------------------
(***************************************************************************)
(* The report: what the firmware of this world writes.                     *)
(***************************************************************************)

\* How this processor really packs its security version numbers.
HardwareTcb(w) ==
  LET p == w.tcb IN
  IF w.cpu.turin
  THEN <<p.fmc, p.bootloader, p.tee, p.snp, 0, 0, 0, p.microcode>>
  ELSE <<p.bootloader, p.tee, 0, 0, 0, 0, p.snp, p.microcode>>

\* What versions 3 and 5 brought; older firmware leaves it zero.
WritesCpuid(w) == w.version >= 3
WritesMit(w)   == w.version >= 5

\* The digits from the least on, padded with zeros.
LittleEndian(n) == [i \in 1 .. FIELD_LEN |-> IF i <= NUMBER_LEN THEN n[i - 1] ELSE 0]

HardwareReport(w) ==
  [version |-> w.version, guest_svn |-> w.svn, policy |-> w.policy,
   image_id |-> w.launch[ImageId], family_id |-> w.launch[FamilyId],
   measurement |-> w.launch[Measurement], signature_algo |-> w.sig.algo,
   platform_info |-> w.platform, signer_info |-> w.signer,
   reported_tcb |-> HardwareTcb(w),
   cpuid |-> IF WritesCpuid(w) THEN w.cpu.fms ELSE ZeroFms,
   launch_mit |-> IF WritesMit(w) THEN w.mit ELSE ZeroMit,
   r |-> LittleEndian(w.sig.r), s |-> LittleEndian(w.sig.s)]

\* A report before version 3 says nothing of the product: ask the processor.
ProductFor(rep) ==
  IF ProductOf(rep) # None THEN ProductOf(rep)
                           ELSE ProductOfFms(FromCpuid1Eax(world.cpu.eax))

TakeReport ==
  /\ Parses(world.version)
  /\ report' = HardwareReport(world)
  /\ UNCHANGED <<world, request, asked, calls, derived, sealed>>

-----------------------------------------------------------------------------
(***************************************************************************)
(* KeyRequest and its builder.  asked records the calls themselves: the    *)
(* last value asked for each fact.                                         *)
(***************************************************************************)
KeyRequest == [root : {"Vcek", "Vmrk"}, fields : SUBSET (0 .. 6), vmpl : Vmpl \cup {0},
               svn : Svn \cup {0}, tcb : Bytes8, mit : Nat \X Nat]

NewKeyRequest ==
  [root |-> "Vcek", fields |-> {}, vmpl |-> 0, svn |-> 0,
   tcb |-> [i \in 1 .. 8 |-> 0], mit |-> ZeroMit]

NothingAsked == [root |-> "Vcek", vmpl |-> 0, bound |-> <<>>]

With(fields, index) == fields \cup {index}

WithRoot(req, root) == [req EXCEPT !.root = root]
WithVmpl(req, vmpl) == [req EXCEPT !.vmpl = vmpl]
WithFact(req, fact) == [req EXCEPT !.fields = With(@, fact)]

\* Mutant of WithSvn: a bit no fact has.
WithSvnReserved(req, svn) == [req EXCEPT !.fields = With(@, 7), !.svn = svn]

WithSvn(req, svn) == [req EXCEPT !.fields = With(@, 4), !.svn = svn]

\* Mutant of WithTcb: the version is set but not selected.
WithTcbUnselected(req, tcb) == [req EXCEPT !.tcb = tcb]

WithTcb(req, tcb) == [req EXCEPT !.fields = With(@, 5), !.tcb = tcb]

WithMit(req, vector) == [req EXCEPT !.fields = With(@, 6), !.mit = vector]

Build(req, ask) ==
  /\ calls < MaxCalls
  /\ calls' = calls + 1
  /\ request' = req
  /\ asked' = ask
  /\ derived' = {}
  /\ UNCHANGED <<world, report, sealed>>

Asking(fact, value) ==
  [asked EXCEPT !.bound = [f \in DOMAIN @ \cup {fact} |->
                             IF f = fact THEN value ELSE @[f]]]

RootKey(root) == Build(WithRoot(request, root), [asked EXCEPT !.root = root])

SetVmpl(vmpl) == Build(WithVmpl(request, vmpl), [asked EXCEPT !.vmpl = vmpl])

BindLaunchFact(fact) == Build(WithFact(request, fact), Asking(fact, "bound"))

BindGuestSvn(svn) == Build(WithSvn(request, svn), Asking(GuestSvn, svn))

BindTcb(tcb) == Build(WithTcb(request, tcb), Asking(TcbVersion, tcb))

\* Bind the TCB of the report, as it is or taken apart and put together again.
BindReportedTcb ==
  /\ report # None
  /\ \/ BindTcb(report.reported_tcb)
     \/ LET product == ProductFor(report)
        IN  BindTcb(Encode(Decode(report.reported_tcb, product), product))

\* Bind the vector of the report, if it has one, or any other.
BindLaunchMitVector(vector) ==
  Build(WithMit(request, vector), Asking(LaunchMitVector, vector))

BindReportedMit ==
  /\ report # None /\ MitVector(report) # None
  /\ BindLaunchMitVector(MitVector(report))

NewRequest ==
  /\ calls' = 0
  /\ request' = NewKeyRequest
  /\ asked' = NothingAsked
  /\ derived' = {}
  /\ UNCHANGED <<world, report, sealed>>

-----------------------------------------------------------------------------
(***************************************************************************)
(* derive_key.                                                             *)
(***************************************************************************)
\* Mutant of Validate: one level too many.
ValidateBelow(req) == req.vmpl < MAX_VMPL + 2

Validate(req) == req.vmpl <= MAX_VMPL

\* Mutant of ToWire: the level and the security version change places.
ToWireSwapped(req) ==
  <<req.root, 0, req.fields, {}, req.svn, req.vmpl,
    SubSeq(req.tcb, 1, 4), SubSeq(req.tcb, 5, 8), req.mit[1], req.mit[2]>>

\* The selector and a reserved word, the fields, level and version, then the
\* TCB version and the vector, low word first.
ToWire(req) ==
  <<req.root, 0, req.fields, {}, req.vmpl, req.svn,
    SubSeq(req.tcb, 1, 4), SubSeq(req.tcb, 5, 8), req.mit[1], req.mit[2]>>

\* The firmware reads what the kernel copied; a vector that was not is zero.
Received(wire, w) ==
  [root |-> wire[1], fields |-> wire[3], vmpl |-> wire[5], svn |-> wire[6],
   tcb |-> wire[7] \o wire[8],
   mit |-> IF w.words >= 10 THEN <<wire[9], wire[10]>> ELSE ZeroMit]

\* No security version number of this TCB exceeds the platform's.
CoveredBy(tcb, w) == \A i \in 1 .. 8 : tcb[i] <= HardwareTcb(w)[i]

Accepts(r, w) ==
  /\ r.vmpl >= w.level
  /\ r.root = "Vmrk" => w.agent
  /\ GuestSvn \in r.fields => r.svn <= w.svn
  /\ TcbVersion \in r.fields => CoveredBy(r.tcb, w)

\* A key is known by everything that was mixed into it.
Key(r, w) ==
  [secret |-> IF r.root = "Vcek" THEN w.cpu.chip ELSE "vmrk",
   vmpl   |-> r.vmpl,
   policy |-> IF Policy \in r.fields THEN {w.policy} ELSE {},
   launch |-> [f \in (r.fields \cap LaunchFact) \ {Policy} |-> w.launch[f]],
   svn    |-> IF GuestSvn \in r.fields THEN {r.svn} ELSE {},
   tcb    |-> IF TcbVersion \in r.fields THEN {r.tcb} ELSE {},
   mit    |-> IF LaunchMitVector \in r.fields THEN {r.mit} ELSE {}]

\* The key a request derives here, if it does.
Derived(req, w) ==
  LET r == Received(ToWire(req), w) IN
  IF Validate(req) /\ Accepts(r, w) THEN {Key(r, w)} ELSE {}

DeriveKey ==
  /\ derived' = Derived(request, world)
  /\ UNCHANGED <<world, report, request, asked, calls, sealed>>

HasKey == derived # {}

\* The facts a caller believes its key depends on: what it asked for, where
\* it runs, and the policy as the accessors of a report read it.
\* bind_launch_mit_vector documents that an older kernel drops the vector.
Facts(ask, w) ==
  [secret |-> IF ask.root = "Vcek" THEN w.cpu.chip ELSE "vmrk",
   vmpl   |-> ask.vmpl,
   policy |-> IF Policy \in DOMAIN ask.bound THEN {GuestPolicy(w.policy)} ELSE {},
   launch |-> [f \in (DOMAIN ask.bound \cap LaunchFact) \ {Policy} |-> w.launch[f]],
   values |-> [f \in DOMAIN ask.bound \ LaunchFact |->
                 IF f = LaunchMitVector /\ w.words < 10 THEN <<ZeroMit>>
                                                       ELSE <<ask.bound[f]>>]]

Seal ==
  /\ HasKey /\ sealed = None
  /\ sealed' = [keys |-> derived, facts |-> Facts(asked, world)]
  /\ UNCHANGED <<world, report, request, asked, calls, derived>>

\* The guest keeps its request and its sealed data over a reboot.
Reboot ==
  /\ world' \in World
  /\ report' = None
  /\ derived' = {}
  /\ UNCHANGED <<request, asked, calls, sealed>>

Init ==
  /\ world \in World
  /\ report = None
  /\ request = NewKeyRequest
  /\ asked = NothingAsked
  /\ calls = 0
  /\ derived = {}
  /\ sealed = None

Next ==
  \/ TakeReport
  \/ \E root \in {"Vcek", "Vmrk"} : RootKey(root)
  \/ \E vmpl \in Vmpl : SetVmpl(vmpl)
  \/ \E fact \in LaunchFact : BindLaunchFact(fact)
  \/ \E svn \in Svn : BindGuestSvn(svn)
  \/ BindReportedTcb \/ BindReportedMit
  \/ \E vector \in Mit : BindLaunchMitVector(vector)
  \/ NewRequest \/ DeriveKey \/ Seal \/ Reboot

Spec == Init /\ [][Next]_vars

-----------------------------------------------------------------------------
(***************************************************************************)
(* Correctness.                                                            *)
(***************************************************************************)
TypeOK ==
  /\ world \in World
  /\ report \in AttestationReport \cup {None}
  /\ request \in KeyRequest
  /\ asked.root \in {"Vcek", "Vmrk"} /\ asked.vmpl \in Vmpl \cup {0}
  /\ DOMAIN asked.bound \subseteq LaunchFact \cup {GuestSvn, TcbVersion, LaunchMitVector}
  /\ calls \in 0 .. MaxCalls

\* The promise of the key module: a request derives the key that data was
\* sealed with where every fact it binds, the root secret and the level are
\* what they were, and another one where any of them differs -- whatever the
\* order, repetition and overwriting of the builder calls that made it.
Reproducible ==
  HasKey /\ sealed # None => (derived = sealed.keys <=> Facts(asked, world) = sealed.facts)

\* A key is out of reach where the guest or its firmware is older than what
\* the caller bound, of a guest less privileged than the level asked for, and
\* for levels the architecture does not define.
OutOfReach ==
  HasKey =>
    /\ asked.vmpl \in world.level .. MAX_VMPL
    /\ GuestSvn \in DOMAIN asked.bound => asked.bound[GuestSvn] <= world.svn
    /\ TcbVersion \in DOMAIN asked.bound =>
         CoveredBy(asked.bound[TcbVersion], world)

\* Whatever processor the guest runs on and whichever report version its
\* firmware writes, the numbers named are the platform's, and a report that
\* names the product does so as the processor itself does.
ReportNamesTcb ==
  report # None =>
    /\ Decode(report.reported_tcb, ProductFor(report)) = world.tcb
    /\ ReportedTcbParts(report) \in {None, world.tcb}
    /\ ProductOf(report) \in {None, ProductOfFms(FromCpuid1Eax(world.cpu.eax))}
    /\ FromCpuid1Eax(ToCpuid1Eax(world.cpu.fms)) = world.cpu.fms

\* Taking the TCB of a report apart and putting it together again gives the
\* firmware the very version it reported.
TcbSurvives ==
  report # None =>
    LET product == ProductFor(report)
    IN  Encode(Decode(report.reported_tcb, product), product) = report.reported_tcb

\* A field that only later firmware writes is never made up for older firmware,
\* where it reads as zero, nor kept back where there is one; and the numbers
\* of a signature come out as the signer put them in.
FieldsWritten ==
  report # None =>
    /\ CpuidFms(report)  = IF WritesCpuid(world) THEN world.cpu.fms ELSE None
    /\ MitVector(report) = IF WritesMit(world) THEN world.mit ELSE None
    /\ world.sig.algo = 1 =>
         \A i \in 1 .. NUMBER_LEN :
           /\ EcdsaSignature(report).r[i] = world.sig.r[NUMBER_LEN - i]
           /\ EcdsaSignature(report).s[i] = world.sig.s[NUMBER_LEN - i]

\* No bit of a newer ABI gets lost between the accessors, nor counted twice:
\* one that is set is either what an accessor reads or among the unknown bits.
BitsAccounted ==
  report # None =>
    /\ \A bit \in report.policy :
         (bit >= 16 /\ \A name \in DOMAIN PolicyFlag : PolicyFlag[name] # bit)
         <=> bit \in GuestPolicy(report.policy).unknown_bits
    /\ \A bit \in report.platform_info :
         (\A name \in DOMAIN PlatformFlag : PlatformFlag[name] # bit)
         <=> bit \in PlatformInfo(report.platform_info).unknown_bits

=============================================================================
