------------------------ MODULE KeyDerivationProofs -------------------------
(***************************************************************************)
(* Proofs about KeyDerivation, and about the programs of Examples.         *)
(***************************************************************************)
EXTENDS Examples, TLAPS

(***************************************************************************)
(* Processors and their TCB versions.                                      *)
(***************************************************************************)

LEMMA PowersOfTwo ==
  /\ 2^0 = 1 /\ 2^4 = 16 /\ 2^8 = 256 /\ 2^16 = 65536 /\ 2^20 = 1048576
BY SMT

\* The fields of CPUID(1).EAX, and the number they make up.
Digits == [ext : 0 .. 255, upper : 0 .. 15, base : 0 .. 15, lower : 0 .. 15,
           stepping : 0 .. 15]

Packed(d) ==
  d.ext * 1048576 + d.upper * 65536 + d.base * 256 + d.lower * 16 + d.stepping

LEMMA Unpacked ==
  ASSUME NEW d \in Digits
  PROVE  /\ Bits(Packed(d), 8, 4) = d.base /\ Bits(Packed(d), 20, 8) = d.ext
         /\ Bits(Packed(d), 16, 4) = d.upper /\ Bits(Packed(d), 4, 4) = d.lower
         /\ Bits(Packed(d), 0, 4) = d.stepping
<1> PICK e \in 0 .. 255, m \in 0 .. 15, b \in 0 .. 15, n \in 0 .. 15, s \in 0 .. 15 :
      /\ d.ext = e /\ d.upper = m /\ d.base = b /\ d.lower = n /\ d.stepping = s
  BY Zenon DEF Digits
<1> DEFINE eax == e * 1048576 + m * 65536 + b * 256 + n * 16 + s
<1>1. Packed(d) = eax /\ eax \in Nat
  BY SMT DEF Packed
<1>2. eax \div 256 = e * 4096 + m * 256 + b
  BY SMT
<1>3. eax \div 1048576 = e
  BY SMT
<1>4. eax \div 65536 = e * 16 + m
  BY SMT
<1>5. eax \div 16 = e * 65536 + m * 4096 + b * 16 + n
  BY SMT
<1>6. (eax \div 256) % 16 = b
  BY <1>2, SMT
<1>7. (eax \div 1048576) % 256 = e
  BY <1>3, SMT
<1>8. (eax \div 65536) % 16 = m
  BY <1>4, SMT
<1>9. (eax \div 16) % 16 = n
  BY <1>5, SMT
<1>10. (eax \div 1) % 16 = s
  BY SMT
<1> QED
  BY <1>1, <1>6, <1>7, <1>8, <1>9, <1>10, PowersOfTwo, SMT DEF Bits

LEMMA Halves ==
  ASSUME NEW n \in Byte
  PROVE  /\ n \div 16 \in 0 .. 15 /\ n % 16 \in 0 .. 15
         /\ (n \div 16) * 16 + (n % 16) = n
         /\ Bits(n, 4, 4) = n \div 16 /\ Bits(n, 0, 4) = n % 16
<1>1. n \div 16 \in 0 .. 15 /\ n % 16 \in 0 .. 15 /\ (n \div 16) * 16 + (n % 16) = n
  BY DEF Byte
<1>2. (n \div 16) % 16 = n \div 16 /\ (n \div 1) % 16 = n % 16
  BY <1>1 DEF Byte
<1> QED
  BY <1>1, <1>2, PowersOfTwo DEF Bits

\* What reading CPUID(1).EAX as from_cpuid_1_eax does gives is what the
\* processor's manual put there.
LEMMA CpuidRead ==
  ASSUME NEW fms \in Fms, fms.stepping < 16
  PROVE  FromCpuid1Eax(Cpuid1Eax(fms)) = fms
<1> DEFINE base == IF fms.family < 15 THEN fms.family ELSE 15
           d    == [ext |-> fms.family - base, upper |-> fms.model \div 16,
                    base |-> base, lower |-> fms.model % 16,
                    stepping |-> fms.stepping]
<1>1. fms = [family |-> fms.family, model |-> fms.model, stepping |-> fms.stepping]
  BY DEF Fms
<1>2. fms.family \in Byte /\ fms.model \in Byte /\ fms.stepping \in 0 .. 15
  BY DEF Fms, Byte
<1>3. /\ fms.family = IF d.base = 15 THEN (d.base + d.ext) % 256 ELSE d.base
      /\ d.base \in 0 .. 15 /\ d.ext \in 0 .. 255
  BY <1>2, SMT DEF Byte
<1>4. /\ d.upper \in 0 .. 15 /\ d.lower \in 0 .. 15
      /\ d.upper * 16 + d.lower = fms.model
  BY <1>2, Halves
<1>5. d \in Digits
  BY <1>2, <1>3, <1>4 DEF Digits
<1>6. Cpuid1Eax(fms) = Packed(d)
  BY SMT DEF Cpuid1Eax, Packed
<1>7. d.stepping = fms.stepping
  OBVIOUS
<1> HIDE DEF d
<1> QED
  BY <1>1, <1>3, <1>4, <1>5, <1>6, <1>7, Unpacked DEF FromCpuid1Eax

\* to_cpuid_1_eax builds what the manual says.
LEMMA CpuidWritten ==
  ASSUME NEW fms \in Fms, fms.stepping < 16
  PROVE  ToCpuid1Eax(fms) = Cpuid1Eax(fms)
<1>1. fms.family \in Byte /\ fms.model \in Byte /\ fms.stepping \in Byte
  BY DEF Fms
<1>2. Bits(fms.stepping, 0, 4) = fms.stepping
  BY <1>1, Halves DEF Byte
<1>3. /\ Bits(fms.model, 4, 4) = fms.model \div 16
      /\ Bits(fms.model, 0, 4) = fms.model % 16
  BY <1>1, Halves
<1>4. (IF fms.family >= 15 THEN 15 ELSE fms.family)
      = (IF fms.family < 15 THEN fms.family ELSE 15)
  BY <1>1 DEF Byte
<1> QED
  BY <1>2, <1>3, <1>4, PowersOfTwo, SMT DEF ToCpuid1Eax, Cpuid1Eax

\* A product keeps the identification it was made from, which decides alone on
\* the layout of its TCB versions.
LEMMA ProductLayout ==
  ASSUME NEW fms \in Fms
  PROVE  /\ ProductOfFms(fms) \in Product
         /\ TcbLayout(ProductOfFms(fms))
              = IF fms.family >= 26 THEN "Turin" ELSE "Legacy"
<1> DEFINE p == ProductOfFms(fms)
<1>1. fms.family \in Byte /\ fms.model \in Byte
  BY DEF Fms
<1>2. p.fms = fms /\ p \in [name : {p.name}, fms : {fms}]
  BY DEF ProductOfFms
<1>3. \/ p.name \in {"Milan", "Genoa", "Bergamo"} /\ fms.family = 25
      \/ p.name = "Turin" /\ fms.family = 26
      \/ p.name = "Unknown" /\ fms.family # 26
  BY <1>1 DEF ProductOfFms, Byte
<1>4. p \in Product
  BY <1>2, <1>3 DEF Product
<1>5. TcbLayout(p) = IF fms.family >= 26 THEN "Turin" ELSE "Legacy"
  BY <1>1, <1>2, <1>3 DEF TcbLayout, Byte
<1> QED
  BY <1>4, <1>5

LEMMA LayoutIsOneOfTwo ==
  ASSUME NEW product \in Product
  PROVE  TcbLayout(product) \in {"Legacy", "Turin"}
BY DEF Product, TcbLayout

LEMMA DecodeTyped ==
  ASSUME NEW raw \in Bytes8, NEW product
  PROVE  Decode(raw, product) \in TcbParts
BY DEF Bytes8, Byte, Decode, TcbParts

LEMMA EncodeTyped ==
  ASSUME NEW parts \in TcbParts, NEW product
  PROVE  Encode(parts, product) \in Bytes8
<1>1. /\ parts.fmc \in Byte \cup {NoFmc} /\ parts.bootloader \in Byte
      /\ parts.tee \in Byte /\ parts.snp \in Byte /\ parts.microcode \in Byte
      /\ 0 \in Byte
  BY DEF TcbParts, Byte
<1> QED
  BY <1>1 DEF Encode, Bytes8

(***************************************************************************)
(* The worlds a guest may wake up in, and the reports written there.       *)
(***************************************************************************)

LEMMA Worldly ==
  ASSUME NEW w \in World
  PROVE  /\ WorldTypeOK(w)
         /\ w.cpu.fms \in Fms /\ w.cpu.fms.stepping < 16
         /\ w.cpu.eax = Cpuid1Eax(w.cpu.fms)
         /\ w.cpu.turin <=> w.cpu.fms.family >= 26
         /\ w.cpu.turin <=> w.tcb.fmc # NoFmc
         /\ w.cpu.turin \in BOOLEAN
<1>1. WorldTypeOK(w)
  BY WorldAssumption
<1>2. CpuOK(w.cpu)
  BY <1>1 DEF WorldTypeOK, Machine
<1> QED
  BY <1>1, <1>2 DEF WorldTypeOK, Machine, CpuOK, Cpu

LEMMA HardwareTyped ==
  ASSUME NEW w \in World
  PROVE  HardwareTcb(w) \in Bytes8
<1>1. /\ w.tcb \in TcbParts
      /\ w.cpu.turin => w.tcb.fmc # NoFmc
  BY Worldly DEF WorldTypeOK, Machine
<1>2. /\ w.tcb.bootloader \in Byte /\ w.tcb.tee \in Byte /\ w.tcb.snp \in Byte
      /\ w.tcb.microcode \in Byte /\ 0 \in Byte
      /\ w.cpu.turin => w.tcb.fmc \in Byte
  BY <1>1 DEF TcbParts, Byte
<1> QED
  BY <1>2 DEF HardwareTcb, Bytes8

LEMMA ReportTyped ==
  ASSUME NEW w \in World, Parses(w.version)
  PROVE  HardwareReport(w) \in AttestationReport
<1>1. WorldTypeOK(w) /\ HardwareTcb(w) \in Bytes8 /\ w.cpu.fms \in Fms
  BY Worldly, HardwareTyped
<1>2. ZeroFms \in Fms /\ ZeroMit \in Nat \X Nat
  BY DEF ZeroFms, ZeroMit, Fms, Byte
<1>3. /\ w.launch[ImageId] \in STRING /\ w.launch[FamilyId] \in STRING
      /\ w.launch[Measurement] \in STRING
  <2>1. ImageId \in LaunchFact \ {Policy} /\ FamilyId \in LaunchFact \ {Policy}
        /\ Measurement \in LaunchFact \ {Policy}
    BY DEF LaunchFact, Policy, ImageId, FamilyId, Measurement
  <2> QED
    BY <1>1, <2>1 DEF WorldTypeOK, Machine
<1>4. ASSUME NEW n \in Number
      PROVE  LittleEndian(n) \in [1 .. FIELD_LEN -> Byte]
  <2>1. ASSUME NEW i \in 1 .. FIELD_LEN
        PROVE  (IF i <= NUMBER_LEN THEN n[i - 1] ELSE 0) \in Byte
    <3>1. i <= NUMBER_LEN => i - 1 \in 0 .. NUMBER_LEN - 1
      BY ReportAssumption
    <3>2. 0 \in Byte
      BY DEF Byte
    <3> QED
      BY <3>1, <3>2 DEF Number
  <2> QED
    BY <2>1 DEF LittleEndian
<1>5. /\ LittleEndian(w.sig.r) \in [1 .. FIELD_LEN -> Byte]
      /\ LittleEndian(w.sig.s) \in [1 .. FIELD_LEN -> Byte]
  BY <1>1, <1>4 DEF WorldTypeOK, Machine
<1>6. /\ (IF WritesCpuid(w) THEN w.cpu.fms ELSE ZeroFms) \in Fms
      /\ (IF WritesMit(w) THEN w.mit ELSE ZeroMit) \in Nat \X Nat
  BY <1>1, <1>2 DEF WorldTypeOK, Machine
<1> QED
  BY <1>1, <1>3, <1>5, <1>6
  DEF WorldTypeOK, Machine, HardwareReport, AttestationReport, Parses

\* Whether a report names the product or the processor is asked: it is the one
\* the guest runs on.
LEMMA ProductNamed ==
  ASSUME world \in World
  PROVE  /\ ProductFor(HardwareReport(world)) = ProductOfFms(world.cpu.fms)
         /\ ProductOf(HardwareReport(world)) \in {None, ProductOfFms(world.cpu.fms)}
         /\ CpuidFms(HardwareReport(world))
              = IF WritesCpuid(world) THEN world.cpu.fms ELSE None
<1>1. FromCpuid1Eax(world.cpu.eax) = world.cpu.fms
  BY Worldly, CpuidRead
<1>2. CpuidFms(HardwareReport(world))
        = IF WritesCpuid(world) THEN world.cpu.fms ELSE None
  BY DEF CpuidFms, HardwareReport, WritesCpuid
<1>3. ProductOf(HardwareReport(world)) \in {None, ProductOfFms(world.cpu.fms)}
  BY <1>2 DEF ProductOf
<1> QED
  BY <1>1, <1>2, <1>3 DEF ProductFor

\* The layout chosen by the product is the one the processor has.
LEMMA LayoutRight ==
  ASSUME NEW w \in World, NEW product, product = ProductOfFms(w.cpu.fms)
  PROVE  /\ Decode(HardwareTcb(w), product) = w.tcb
         /\ Encode(w.tcb, product) = HardwareTcb(w)
<1>1. TcbLayout(product) = IF w.cpu.turin THEN "Turin" ELSE "Legacy"
  BY Worldly, ProductLayout
<1>2. /\ w.tcb = [fmc |-> w.tcb.fmc, bootloader |-> w.tcb.bootloader,
                  tee |-> w.tcb.tee, snp |-> w.tcb.snp,
                  microcode |-> w.tcb.microcode]
      /\ w.cpu.turin <=> w.tcb.fmc # NoFmc
      /\ w.cpu.turin \in BOOLEAN
  BY Worldly DEF WorldTypeOK, Machine, TcbParts
<1>3. CASE w.cpu.turin
  BY <1>1, <1>2, <1>3 DEF Decode, Encode, HardwareTcb
<1>4. CASE ~ w.cpu.turin
  BY <1>1, <1>2, <1>4 DEF Decode, Encode, HardwareTcb
<1> QED
  BY <1>3, <1>4

(***************************************************************************)
(* The key request, on its way and as it was asked for.                    *)
(***************************************************************************)

\* A request says what the builder was asked: each fact it selects has the
\* value that was asked for last.
Reflects(req, ask) ==
  /\ req \in KeyRequest
  /\ ask = [root |-> req.root, vmpl |-> req.vmpl, bound |-> ask.bound]
  /\ DOMAIN ask.bound = req.fields
  /\ GuestSvn \in req.fields => ask.bound[GuestSvn] = req.svn
  /\ TcbVersion \in req.fields => ask.bound[TcbVersion] = req.tcb
  /\ LaunchMitVector \in req.fields => ask.bound[LaunchMitVector] = req.mit

\* Nothing of a request is lost or misplaced on its way to the firmware, but
\* the vector where the kernel is too old for it.
LEMMA WireFaithful ==
  ASSUME NEW req, req.tcb \in Bytes8, req.mit \in Nat \X Nat, NEW w
  PROVE  Received(ToWire(req), w)
           = [root |-> req.root, fields |-> req.fields, vmpl |-> req.vmpl,
              svn |-> req.svn, tcb |-> req.tcb,
              mit |-> IF w.words >= 10 THEN req.mit ELSE ZeroMit]
<1>1. req.tcb \in [1 .. 8 -> Byte] /\ req.mit \in Nat \X Nat
  BY DEF Bytes8
<1>2. SubSeq(req.tcb, 1, 4) \o SubSeq(req.tcb, 5, 8) = req.tcb
  BY <1>1 DEF Byte
<1>3. <<req.mit[1], req.mit[2]>> = req.mit
  BY <1>1
<1> DEFINE wire == ToWire(req)
<1>4. /\ wire[1] = req.root /\ wire[3] = req.fields /\ wire[5] = req.vmpl
      /\ wire[6] = req.svn /\ wire[7] = SubSeq(req.tcb, 1, 4)
      /\ wire[8] = SubSeq(req.tcb, 5, 8) /\ wire[9] = req.mit[1]
      /\ wire[10] = req.mit[2]
  BY DEF ToWire
<1> HIDE DEF wire
<1>5. Received(wire, w)
        = [root |-> req.root, fields |-> req.fields, vmpl |-> req.vmpl,
           svn |-> req.svn, tcb |-> req.tcb,
           mit |-> IF w.words >= 10 THEN req.mit ELSE ZeroMit]
  BY <1>2, <1>3, <1>4 DEF Received
<1> QED
  BY <1>5 DEF wire

\* The accessors of a guest policy tell any two policies apart: each of its
\* bits is in a version byte, has a name, or counts as unknown.
LEMMA PoliciesToldApart ==
  ASSUME NEW p \in U64, NEW q \in U64, GuestPolicy(p) = GuestPolicy(q)
  PROVE  p = q
<1>1. /\ ByteAt(p, 0) = ByteAt(q, 0) /\ ByteAt(p, 1) = ByteAt(q, 1)
      /\ Flags(p, PolicyFlag) = Flags(q, PolicyFlag)
      /\ p \ PolicyKnown = q \ PolicyKnown
  BY DEF GuestPolicy
<1>2. ASSUME NEW bit \in 0 .. 7
      PROVE  bit \in p <=> bit \in q
  <2>1. 8 * 0 + bit = bit
    OBVIOUS
  <2> QED
    BY <1>1, <2>1 DEF ByteAt
<1>3. ASSUME NEW bit \in 8 .. 15
      PROVE  bit \in p <=> bit \in q
  <2>1. bit - 8 \in 0 .. 7 /\ 8 * 1 + (bit - 8) = bit
    OBVIOUS
  <2> QED
    BY <1>1, <2>1 DEF ByteAt
<1>4. ASSUME NEW name \in DOMAIN PolicyFlag
      PROVE  PolicyFlag[name] \in p <=> PolicyFlag[name] \in q
  BY <1>1 DEF Flags
<1>5. ASSUME NEW bit \in 16 .. 25
      PROVE  \E name \in DOMAIN PolicyFlag : PolicyFlag[name] = bit
  BY DEF PolicyFlag
<1>6. ASSUME NEW bit \in 26 .. 63
      PROVE  bit \in p <=> bit \in q
  BY <1>1 DEF PolicyKnown
<1>7. ASSUME NEW bit \in 0 .. 63
      PROVE  bit \in p <=> bit \in q
  <2>1. bit \in 0 .. 7 \/ bit \in 8 .. 15 \/ bit \in 16 .. 25 \/ bit \in 26 .. 63
    OBVIOUS
  <2> QED
    BY <2>1, <1>2, <1>3, <1>4, <1>5, <1>6
<1> QED
  BY <1>7 DEF U64

\* What becomes of the vector a request asks for.
Carried(req, w) == IF w.words >= 10 THEN req.mit ELSE ZeroMit

\* The parts of a key, in terms of the request.
Mixed(req, w) ==
  [secret |-> IF req.root = "Vcek" THEN w.cpu.chip ELSE "vmrk",
   vmpl   |-> req.vmpl,
   policy |-> IF Policy \in req.fields THEN {w.policy} ELSE {},
   launch |-> [f \in (req.fields \cap LaunchFact) \ {Policy} |-> w.launch[f]],
   svn    |-> IF GuestSvn \in req.fields THEN {req.svn} ELSE {},
   tcb    |-> IF TcbVersion \in req.fields THEN {req.tcb} ELSE {},
   mit    |-> IF LaunchMitVector \in req.fields THEN {Carried(req, w)} ELSE {}]

LEMMA KeyParts ==
  ASSUME NEW req, req.tcb \in Bytes8, req.mit \in Nat \X Nat, NEW w
  PROVE  Key(Received(ToWire(req), w), w) = Mixed(req, w)
<1> DEFINE r == Received(ToWire(req), w)
<1>1. /\ r.root = req.root /\ r.fields = req.fields /\ r.vmpl = req.vmpl
      /\ r.svn = req.svn /\ r.tcb = req.tcb /\ r.mit = Carried(req, w)
  BY WireFaithful DEF Carried
<1> HIDE DEF r
<1>2. Key(r, w) = Mixed(req, w)
  BY <1>1 DEF Key, Mixed
<1> QED
  BY <1>2 DEF r

\* And those of the facts: the values are the ones that the key carries.
Value(f, req, w) == IF f = GuestSvn THEN <<req.svn>>
                    ELSE IF f = TcbVersion THEN <<req.tcb>>
                    ELSE <<Carried(req, w)>>

Known(req, w) ==
  [secret |-> IF req.root = "Vcek" THEN w.cpu.chip ELSE "vmrk",
   vmpl   |-> req.vmpl,
   policy |-> IF Policy \in req.fields THEN {GuestPolicy(w.policy)} ELSE {},
   launch |-> [f \in (req.fields \cap LaunchFact) \ {Policy} |-> w.launch[f]],
   values |-> [f \in req.fields \ LaunchFact |-> Value(f, req, w)]]

LEMMA FactParts ==
  ASSUME NEW req, NEW ask, NEW w \in World, Reflects(req, ask)
  PROVE  Facts(ask, w) = Known(req, w)
<1>1. /\ ask.root = req.root /\ ask.vmpl = req.vmpl /\ DOMAIN ask.bound = req.fields
      /\ req.fields \subseteq 0 .. 6
  BY DEF Reflects, KeyRequest
<1>2. w.words < 10 <=> ~ (w.words >= 10)
  BY Worldly DEF WorldTypeOK, Machine
<1>3. ASSUME NEW f \in req.fields \ LaunchFact
      PROVE  (IF f = LaunchMitVector /\ w.words < 10 THEN <<ZeroMit>>
                                                     ELSE <<ask.bound[f]>>)
             = Value(f, req, w)
  <2>1. f \in {GuestSvn, TcbVersion, LaunchMitVector}
    BY <1>1 DEF LaunchFact, Policy, Measurement, GuestSvn, TcbVersion, LaunchMitVector
  <2>2. GuestSvn # TcbVersion /\ GuestSvn # LaunchMitVector /\ TcbVersion # LaunchMitVector
    BY DEF GuestSvn, TcbVersion, LaunchMitVector
  <2> QED
    BY <2>1, <2>2, <1>2 DEF Reflects, Carried, Value
<1>4. [f \in DOMAIN ask.bound \ LaunchFact |->
         IF f = LaunchMitVector /\ w.words < 10 THEN <<ZeroMit>>
                                               ELSE <<ask.bound[f]>>]
      = [f \in req.fields \ LaunchFact |-> Value(f, req, w)]
  BY <1>1, <1>3, Zenon
<1> QED
  BY <1>1, <1>4 DEF Facts, Known

\* Two keys are the same exactly where the facts they are about are.
LEMMA KeyMeansFacts ==
  ASSUME NEW req1, NEW ask1, NEW w1 \in World, Reflects(req1, ask1),
         NEW req2, NEW ask2, NEW w2 \in World, Reflects(req2, ask2)
  PROVE  Key(Received(ToWire(req1), w1), w1) = Key(Received(ToWire(req2), w2), w2)
         <=> Facts(ask1, w1) = Facts(ask2, w2)
<1> DEFINE k1 == Mixed(req1, w1)
           k2 == Mixed(req2, w2)
           f1 == Known(req1, w1)
           f2 == Known(req2, w2)
           D1 == req1.fields \ LaunchFact
           D2 == req2.fields \ LaunchFact
<1>1. /\ req1 \in KeyRequest /\ req1.fields \subseteq 0 .. 6
      /\ req2 \in KeyRequest /\ req2.fields \subseteq 0 .. 6
  BY DEF Reflects, KeyRequest
<1>2. k1 = k2 <=> /\ k1.secret = k2.secret /\ k1.vmpl = k2.vmpl
                  /\ k1.policy = k2.policy /\ k1.launch = k2.launch
                  /\ k1.svn = k2.svn /\ k1.tcb = k2.tcb /\ k1.mit = k2.mit
  BY DEF Mixed
<1>3. f1 = f2 <=> /\ f1.secret = f2.secret /\ f1.vmpl = f2.vmpl
                  /\ f1.policy = f2.policy /\ f1.launch = f2.launch
                  /\ f1.values = f2.values
  BY DEF Known
<1>4. /\ k1.secret = f1.secret /\ k1.vmpl = f1.vmpl /\ k1.launch = f1.launch
      /\ k2.secret = f2.secret /\ k2.vmpl = f2.vmpl /\ k2.launch = f2.launch
  BY DEF Mixed, Known
<1>5. k1.policy = k2.policy <=> f1.policy = f2.policy
  <2>1. /\ k1.policy = IF Policy \in req1.fields THEN {w1.policy} ELSE {}
        /\ k2.policy = IF Policy \in req2.fields THEN {w2.policy} ELSE {}
    BY DEF Mixed
  <2>2. /\ f1.policy = IF Policy \in req1.fields THEN {GuestPolicy(w1.policy)} ELSE {}
        /\ f2.policy = IF Policy \in req2.fields THEN {GuestPolicy(w2.policy)} ELSE {}
    BY DEF Known
  <2>3. w1.policy \in U64 /\ w2.policy \in U64
    BY Worldly DEF WorldTypeOK, Machine
  <2>4. GuestPolicy(w1.policy) = GuestPolicy(w2.policy) <=> w1.policy = w2.policy
    BY <2>3, PoliciesToldApart
  <2> HIDE DEF k1, k2, f1, f2
  <2> QED
    BY <2>1, <2>2, <2>4
<1>6. /\ k1.svn = IF GuestSvn \in D1 THEN {req1.svn} ELSE {}
      /\ k2.svn = IF GuestSvn \in D2 THEN {req2.svn} ELSE {}
      /\ k1.tcb = IF TcbVersion \in D1 THEN {req1.tcb} ELSE {}
      /\ k2.tcb = IF TcbVersion \in D2 THEN {req2.tcb} ELSE {}
      /\ k1.mit = IF LaunchMitVector \in D1 THEN {Carried(req1, w1)} ELSE {}
      /\ k2.mit = IF LaunchMitVector \in D2 THEN {Carried(req2, w2)} ELSE {}
  <2>1. /\ GuestSvn \notin LaunchFact /\ TcbVersion \notin LaunchFact
        /\ LaunchMitVector \notin LaunchFact
    BY DEF LaunchFact, Policy, Measurement, GuestSvn, TcbVersion, LaunchMitVector
  <2> QED
    BY <2>1 DEF Mixed
<1>7. /\ f1.values = [f \in D1 |-> Value(f, req1, w1)]
      /\ f2.values = [f \in D2 |-> Value(f, req2, w2)]
  BY DEF Known
<1>8. f1.values = f2.values
      <=> D1 = D2 /\ \A f \in D1 : Value(f, req1, w1) = Value(f, req2, w2)
  <2> HIDE DEF f1, f2, D1, D2
  <2>1. ASSUME D1 = D2, \A f \in D1 : Value(f, req1, w1) = Value(f, req2, w2)
        PROVE  f1.values = f2.values
    BY <1>7, <2>1, Zenon
  <2>2. ASSUME f1.values = f2.values
        PROVE  D1 = D2 /\ \A f \in D1 : Value(f, req1, w1) = Value(f, req2, w2)
    <3>1. D1 = D2
      BY <1>7, <2>2
    <3>2. ASSUME NEW f \in D1 PROVE Value(f, req1, w1) = Value(f, req2, w2)
      BY <1>7, <2>2, <3>1
    <3> QED
      BY <3>1, <3>2
  <2> QED
    BY <2>1, <2>2
<1>9. /\ D1 \subseteq {GuestSvn, TcbVersion, LaunchMitVector}
      /\ D2 \subseteq {GuestSvn, TcbVersion, LaunchMitVector}
      /\ GuestSvn # TcbVersion /\ GuestSvn # LaunchMitVector
      /\ TcbVersion # LaunchMitVector
  BY <1>1 DEF LaunchFact, Policy, Measurement, GuestSvn, TcbVersion, LaunchMitVector
<1>10. k1.svn = k2.svn /\ k1.tcb = k2.tcb /\ k1.mit = k2.mit
       <=> D1 = D2 /\ \A f \in D1 : Value(f, req1, w1) = Value(f, req2, w2)
  <2> DEFINE Rhs == D1 = D2 /\ \A f \in D1 : Value(f, req1, w1) = Value(f, req2, w2)
  <2>0. ASSUME NEW x, NEW y PROVE <<x>> = <<y>> <=> x = y
    OBVIOUS
  <2>1. /\ Value(GuestSvn, req1, w1) = Value(GuestSvn, req2, w2) <=> req1.svn = req2.svn
        /\ Value(TcbVersion, req1, w1) = Value(TcbVersion, req2, w2) <=> req1.tcb = req2.tcb
        /\ Value(LaunchMitVector, req1, w1) = Value(LaunchMitVector, req2, w2)
             <=> Carried(req1, w1) = Carried(req2, w2)
    BY <1>9, <2>0 DEF Value
  <2> HIDE DEF k1, k2, D1, D2
  <2>2. ASSUME k1.svn = k2.svn, k1.tcb = k2.tcb, k1.mit = k2.mit
        PROVE  Rhs
    BY <1>6, <1>9, <2>1, <2>2
  <2>3. ASSUME Rhs
        PROVE  k1.svn = k2.svn /\ k1.tcb = k2.tcb /\ k1.mit = k2.mit
    BY <1>6, <1>9, <2>1, <2>3
  <2> QED
    BY <2>2, <2>3
<1> HIDE DEF k1, k2, f1, f2, D1, D2
<1>11. k1 = k2 <=> f1 = f2
  BY <1>2, <1>3, <1>4, <1>5, <1>8, <1>10
<1>12. /\ Key(Received(ToWire(req1), w1), w1) = Mixed(req1, w1)
       /\ Key(Received(ToWire(req2), w2), w2) = Mixed(req2, w2)
       /\ Facts(ask1, w1) = Known(req1, w1) /\ Facts(ask2, w2) = Known(req2, w2)
  BY <1>1, KeyParts, FactParts DEF KeyRequest
<1> QED
  BY <1>11, <1>12 DEF k1, k2, f1, f2

(***************************************************************************)
(* The builder: each call keeps the request true to what was asked.        *)
(***************************************************************************)

LEMMA NothingBound == Reflects(NewKeyRequest, NothingAsked)
<1>1. NewKeyRequest \in KeyRequest
  BY DEF NewKeyRequest, KeyRequest, ZeroMit, Bytes8, Byte
<1>2. DOMAIN NothingAsked.bound = {}
  BY DEF NothingAsked
<1> QED
  BY <1>1, <1>2 DEF Reflects, NewKeyRequest, NothingAsked

\* Calls that bind no value.
LEMMA RootKept ==
  ASSUME Reflects(request, asked), NEW root \in {"Vcek", "Vmrk"}
  PROVE  Reflects(WithRoot(request, root), [asked EXCEPT !.root = root])
BY DEF Reflects, KeyRequest, WithRoot

LEMMA VmplKept ==
  ASSUME Reflects(request, asked), NEW vmpl \in Vmpl
  PROVE  Reflects(WithVmpl(request, vmpl), [asked EXCEPT !.vmpl = vmpl])
BY DEF Reflects, KeyRequest, WithVmpl

\* What asking for a fact adds to what was asked.
LEMMA AskedFor ==
  ASSUME Reflects(request, asked), NEW fact, NEW value
  PROVE  /\ Asking(fact, value).root = asked.root
         /\ Asking(fact, value).vmpl = asked.vmpl
         /\ Asking(fact, value) = [root |-> asked.root, vmpl |-> asked.vmpl,
                                  bound |-> Asking(fact, value).bound]
         /\ DOMAIN Asking(fact, value).bound = request.fields \cup {fact}
         /\ Asking(fact, value).bound[fact] = value
         /\ \A f \in request.fields \ {fact} :
              Asking(fact, value).bound[f] = asked.bound[f]
BY DEF Reflects, Asking

LEMMA FactKept ==
  ASSUME Reflects(request, asked), NEW fact \in LaunchFact, NEW value
  PROVE  Reflects(WithFact(request, fact), Asking(fact, value))
<1>1. fact \in 0 .. 6 /\ fact \notin {GuestSvn, TcbVersion, LaunchMitVector}
  BY DEF LaunchFact, Policy, Measurement, GuestSvn, TcbVersion, LaunchMitVector
<1> DEFINE req == WithFact(request, fact)
<1>2. /\ req \in KeyRequest /\ req.fields = request.fields \cup {fact}
      /\ req.root = request.root /\ req.vmpl = request.vmpl /\ req.svn = request.svn
      /\ req.tcb = request.tcb /\ req.mit = request.mit
  BY <1>1 DEF Reflects, KeyRequest, WithFact, With
<1>3. asked.root = request.root /\ asked.vmpl = request.vmpl
  BY DEF Reflects
<1> HIDE DEF req
<1>4. Reflects(req, Asking(fact, value))
  BY <1>1, <1>2, <1>3, AskedFor DEF Reflects
<1> QED
  BY <1>4 DEF req

LEMMA SvnKept ==
  ASSUME Reflects(request, asked), NEW svn \in Svn
  PROVE  Reflects(WithSvn(request, svn), Asking(GuestSvn, svn))
<1> DEFINE req == WithSvn(request, svn)
<1> PICK selected : selected = [request EXCEPT !.fields = @ \cup {GuestSvn}]
  OBVIOUS
<1>1. /\ selected \in KeyRequest /\ selected.fields = request.fields \cup {GuestSvn}
      /\ selected.root = request.root /\ selected.vmpl = request.vmpl
      /\ selected.svn = request.svn /\ selected.tcb = request.tcb
      /\ selected.mit = request.mit
  BY DEF Reflects, KeyRequest, GuestSvn
<1>2. req = [selected EXCEPT !.svn = svn]
  BY DEF WithSvn, With, GuestSvn
<1>3. /\ req \in KeyRequest /\ req.fields = request.fields \cup {GuestSvn}
      /\ req.root = request.root /\ req.vmpl = request.vmpl /\ req.svn = svn
      /\ req.tcb = request.tcb /\ req.mit = request.mit
  BY <1>1, <1>2 DEF KeyRequest
<1>4. /\ asked.root = request.root /\ asked.vmpl = request.vmpl
      /\ GuestSvn \notin {TcbVersion, LaunchMitVector}
  BY DEF Reflects, GuestSvn, TcbVersion, LaunchMitVector
<1> HIDE DEF req
<1>5. Reflects(req, Asking(GuestSvn, svn))
  BY <1>3, <1>4, AskedFor DEF Reflects
<1> QED
  BY <1>5 DEF req

LEMMA TcbKept ==
  ASSUME Reflects(request, asked), NEW tcb \in Bytes8
  PROVE  Reflects(WithTcb(request, tcb), Asking(TcbVersion, tcb))
<1> DEFINE req == WithTcb(request, tcb)
<1> PICK selected : selected = [request EXCEPT !.fields = @ \cup {TcbVersion}]
  OBVIOUS
<1>1. /\ selected \in KeyRequest /\ selected.fields = request.fields \cup {TcbVersion}
      /\ selected.root = request.root /\ selected.vmpl = request.vmpl
      /\ selected.svn = request.svn /\ selected.tcb = request.tcb
      /\ selected.mit = request.mit
  BY DEF Reflects, KeyRequest, TcbVersion
<1>2. req = [selected EXCEPT !.tcb = tcb]
  BY DEF WithTcb, With, TcbVersion
<1>3. /\ req \in KeyRequest /\ req.fields = request.fields \cup {TcbVersion}
      /\ req.root = request.root /\ req.vmpl = request.vmpl /\ req.svn = request.svn
      /\ req.tcb = tcb /\ req.mit = request.mit
  BY <1>1, <1>2 DEF KeyRequest
<1>4. /\ asked.root = request.root /\ asked.vmpl = request.vmpl
      /\ TcbVersion \notin {GuestSvn, LaunchMitVector}
  BY DEF Reflects, GuestSvn, TcbVersion, LaunchMitVector
<1> HIDE DEF req
<1>5. Reflects(req, Asking(TcbVersion, tcb))
  BY <1>3, <1>4, AskedFor DEF Reflects
<1> QED
  BY <1>5 DEF req

LEMMA MitKept ==
  ASSUME Reflects(request, asked), NEW vector \in Nat \X Nat
  PROVE  Reflects(WithMit(request, vector), Asking(LaunchMitVector, vector))
<1> DEFINE req == WithMit(request, vector)
<1> PICK selected : selected = [request EXCEPT !.fields = @ \cup {LaunchMitVector}]
  OBVIOUS
<1>1. /\ selected \in KeyRequest /\ selected.fields = request.fields \cup {LaunchMitVector}
      /\ selected.root = request.root /\ selected.vmpl = request.vmpl
      /\ selected.svn = request.svn /\ selected.tcb = request.tcb
      /\ selected.mit = request.mit
  BY DEF Reflects, KeyRequest, LaunchMitVector
<1>2. req = [selected EXCEPT !.mit = vector]
  BY DEF WithMit, With, LaunchMitVector
<1>3. /\ req \in KeyRequest /\ req.fields = request.fields \cup {LaunchMitVector}
      /\ req.root = request.root /\ req.vmpl = request.vmpl /\ req.svn = request.svn
      /\ req.tcb = request.tcb /\ req.mit = vector
  BY <1>1, <1>2 DEF KeyRequest
<1>4. /\ asked.root = request.root /\ asked.vmpl = request.vmpl
      /\ LaunchMitVector \notin {GuestSvn, TcbVersion}
  BY DEF Reflects, GuestSvn, TcbVersion, LaunchMitVector
<1> HIDE DEF req
<1>5. Reflects(req, Asking(LaunchMitVector, vector))
  BY <1>3, <1>4, AskedFor DEF Reflects
<1> QED
  BY <1>5 DEF req

(***************************************************************************)
(* The inductive invariant.                                                *)
(***************************************************************************)

\* The report is the one of this world.
Taken ==
  report # None => Parses(world.version) /\ report = HardwareReport(world)

\* A key in hand is the one that the request derives here.
Obtained == derived # {} => derived = Derived(request, world)

\* What was sealed was sealed with the key of some request, in some world.
SealedSomewhere ==
  sealed # None =>
    \E req, ask : \E w \in World :
      /\ Reflects(req, ask) /\ Derived(req, w) # {}
      /\ sealed.keys = Derived(req, w) /\ sealed.facts = Facts(ask, w)

Sealing ==
  /\ world \in World /\ calls \in 0 .. MaxCalls
  /\ Reflects(request, asked)
  /\ Taken /\ Obtained /\ SealedSomewhere

LEMMA SealingBegins == Init => Sealing
<1> SUFFICES ASSUME Init PROVE Sealing
  OBVIOUS
<1>1. Reflects(request, asked)
  BY NothingBound DEF Init
<1>2. calls \in 0 .. MaxCalls
  BY WorldAssumption DEF Init
<1> QED
  BY <1>1, <1>2 DEF Init, Sealing, Taken, Obtained, SealedSomewhere

\* A call of the builder.
LEMMA BuildKeeps ==
  ASSUME Sealing, NEW req, NEW ask, Reflects(req, ask), Build(req, ask)
  PROVE  Sealing'
<1>1. Reflects(request, asked)'
  BY DEF Build, Reflects
<1>2. calls' \in 0 .. MaxCalls /\ world' \in World
  BY WorldAssumption DEF Build, Sealing
<1>3. Taken' /\ Obtained'
  BY DEF Build, Sealing, Taken, Obtained
<1>4. SealedSomewhere'
  BY DEF Build, Sealing, SealedSomewhere
<1> QED
  BY <1>1, <1>2, <1>3, <1>4 DEF Sealing

LEMMA SealingKept == Sealing /\ [Next]_vars => Sealing'
<1> SUFFICES ASSUME Sealing, [Next]_vars PROVE Sealing'
  OBVIOUS
<1> USE DEF Sealing
<1>1. CASE TakeReport
  <2>1. Taken'
    BY <1>1 DEF TakeReport, Taken
  <2>2. Obtained' /\ SealedSomewhere'
    BY <1>1 DEF TakeReport, Obtained, SealedSomewhere
  <2>3. Reflects(request, asked)'
    BY <1>1 DEF TakeReport
  <2> QED
    BY <1>1, <2>1, <2>2, <2>3 DEF TakeReport
<1>2. ASSUME NEW root \in {"Vcek", "Vmrk"}, RootKey(root) PROVE Sealing'
  BY <1>2, RootKept, BuildKeeps DEF RootKey
<1>3. ASSUME NEW vmpl \in Vmpl, SetVmpl(vmpl) PROVE Sealing'
  BY <1>3, VmplKept, BuildKeeps DEF SetVmpl
<1>4. ASSUME NEW fact \in LaunchFact, BindLaunchFact(fact) PROVE Sealing'
  BY <1>4, FactKept, BuildKeeps DEF BindLaunchFact
<1>5. ASSUME NEW svn \in Svn, BindGuestSvn(svn) PROVE Sealing'
  BY <1>5, SvnKept, BuildKeeps DEF BindGuestSvn
<1>6. ASSUME NEW tcb \in Bytes8, BindTcb(tcb) PROVE Sealing'
  BY <1>6, TcbKept, BuildKeeps DEF BindTcb
<1>7. CASE BindReportedTcb
  <2>1. report = HardwareReport(world) /\ report \in AttestationReport
    BY <1>7, ReportTyped DEF BindReportedTcb, Taken
  <2>2. report.reported_tcb \in Bytes8
    BY <2>1 DEF AttestationReport
  <2>3. \A product : Encode(Decode(report.reported_tcb, product), product) \in Bytes8
    BY <2>2, DecodeTyped, EncodeTyped
  <2> QED
    BY <1>6, <1>7, <2>2, <2>3 DEF BindReportedTcb
<1>8. ASSUME NEW vector \in Nat \X Nat, BindLaunchMitVector(vector) PROVE Sealing'
  BY <1>8, MitKept, BuildKeeps DEF BindLaunchMitVector
<1>9. CASE BindReportedMit
  <2>1. report \in AttestationReport
    BY <1>9, ReportTyped DEF BindReportedMit, Taken
  <2>2. MitVector(report) \in Nat \X Nat
    BY <1>9, <2>1 DEF BindReportedMit, MitVector, AttestationReport
  <2> QED
    BY <1>8, <1>9, <2>2 DEF BindReportedMit
<1>10. CASE NewRequest
  <2>1. Reflects(request, asked)'
    BY <1>10, NothingBound DEF NewRequest
  <2>2. Taken' /\ Obtained' /\ SealedSomewhere'
    BY <1>10 DEF NewRequest, Taken, Obtained, SealedSomewhere
  <2>3. calls' \in 0 .. MaxCalls
    BY <1>10, WorldAssumption DEF NewRequest
  <2> QED
    BY <1>10, <2>1, <2>2, <2>3 DEF NewRequest
<1>11. CASE DeriveKey
  <2>1. Reflects(request, asked)'
    BY <1>11 DEF DeriveKey
  <2>2. Taken' /\ Obtained' /\ SealedSomewhere'
    BY <1>11 DEF DeriveKey, Taken, Obtained, SealedSomewhere
  <2> QED
    BY <1>11, <2>1, <2>2 DEF DeriveKey
<1>12. CASE Seal
  <2>1. Reflects(request, asked)'
    BY <1>12 DEF Seal
  <2>2. Taken' /\ Obtained'
    BY <1>12 DEF Seal, Taken, Obtained
  <2>3. derived # {} /\ derived = Derived(request, world)
    BY <1>12 DEF Seal, HasKey, Obtained
  <2>4. sealed'.keys = derived /\ sealed'.facts = Facts(asked, world)
    BY <1>12 DEF Seal
  <2>5. SealedSomewhere'
    BY <2>3, <2>4 DEF SealedSomewhere
  <2> QED
    BY <1>12, <2>1, <2>2, <2>5 DEF Seal
<1>13. CASE Reboot
  <2>1. Reflects(request, asked)'
    BY <1>13 DEF Reboot
  <2>2. Taken' /\ Obtained' /\ SealedSomewhere'
    BY <1>13 DEF Reboot, Taken, Obtained, SealedSomewhere
  <2> QED
    BY <1>13, <2>1, <2>2 DEF Reboot
<1>14. CASE UNCHANGED vars
  BY <1>14 DEF vars, Taken, Obtained, SealedSomewhere, Reflects
<1>15. ASSUME NEW vector \in Mit, BindLaunchMitVector(vector) PROVE Sealing'
  BY <1>8, <1>15, WorldAssumption
<1> QED
  BY <1>1, <1>2, <1>3, <1>4, <1>5, <1>7, <1>9, <1>10, <1>11, <1>12, <1>13, <1>14,
     <1>15 DEF Next

THEOREM SealingInvariant == Spec => []Sealing
BY SealingBegins, SealingKept, PTL DEF Spec

(***************************************************************************)
(* The theorems.                                                           *)
(***************************************************************************)

\* Every reachable state is well typed, for every set of worlds and values: no
\* builder call selects a bit that is not a fact's, no report that parses has
\* bytes out of range (KeyRequest, AttestationReport::parse).
THEOREM TypeCorrect == Spec => []TypeOK
<1>1. Sealing => TypeOK
  <2> SUFFICES ASSUME Sealing PROVE TypeOK
    OBVIOUS
  <2>1. report \in AttestationReport \cup {None}
    BY ReportTyped DEF Sealing, Taken
  <2>2. /\ request \in KeyRequest
        /\ asked.root \in {"Vcek", "Vmrk"} /\ asked.vmpl \in Vmpl \cup {0}
        /\ DOMAIN asked.bound \subseteq 0 .. 6
    BY DEF Sealing, Reflects, KeyRequest
  <2>3. 0 .. 6 = LaunchFact \cup {GuestSvn, TcbVersion, LaunchMitVector}
    BY DEF LaunchFact, Policy, Measurement, GuestSvn, TcbVersion, LaunchMitVector
  <2> QED
    BY <2>1, <2>2, <2>3 DEF Sealing, TypeOK
<1> QED
  BY <1>1, SealingInvariant, PTL

\* What a key in hand was derived from.
LEMMA KeyInHand ==
  ASSUME NEW req \in KeyRequest, NEW w, Derived(req, w) # {}
  PROVE  /\ Derived(req, w) = {Key(Received(ToWire(req), w), w)}
         /\ Validate(req) /\ Accepts(Received(ToWire(req), w), w)
BY DEF Derived

\* Whatever the order, repetition and overwriting of builder calls, a derived
\* key is the one that data was sealed with if and only if every fact it binds,
\* the root secret and the level are the same (derive_key, to_wire, KeyRequest).
THEOREM KeysReproducible == Spec => []Reproducible
<1>1. Sealing => Reproducible
  <2> SUFFICES ASSUME Sealing, HasKey, sealed # None
               PROVE  derived = sealed.keys <=> Facts(asked, world) = sealed.facts
    BY DEF Reproducible
  <2>1. /\ derived # {} /\ derived = Derived(request, world)
        /\ request \in KeyRequest /\ world \in World /\ Reflects(request, asked)
    BY DEF Sealing, Obtained, HasKey, Reflects
  <2>2. PICK req, ask : \E w \in World :
          /\ Reflects(req, ask) /\ Derived(req, w) # {}
          /\ sealed.keys = Derived(req, w) /\ sealed.facts = Facts(ask, w)
    BY DEF Sealing, SealedSomewhere
  <2>3. PICK w \in World :
          /\ Reflects(req, ask) /\ Derived(req, w) # {}
          /\ sealed.keys = Derived(req, w) /\ sealed.facts = Facts(ask, w)
    BY <2>2
  <2>4. req \in KeyRequest
    BY <2>3 DEF Reflects
  <2> DEFINE here  == Key(Received(ToWire(request), world), world)
             there == Key(Received(ToWire(req), w), w)
  <2>5. derived = {here} /\ sealed.keys = {there}
    BY <2>1, <2>3, <2>4, KeyInHand
  <2>6. here = there <=> Facts(asked, world) = Facts(ask, w)
    BY <2>1, <2>3, KeyMeansFacts
  <2> HIDE DEF here, there
  <2> QED
    BY <2>3, <2>5, <2>6
<1> QED
  BY <1>1, SealingInvariant, PTL

\* No key where the guest or its firmware is older than what was bound, for a
\* guest less privileged than the level asked for, or beyond the last level
\* (validate, to_wire, derive_key).
THEOREM KeysOutOfReach == Spec => []OutOfReach
<1>1. Sealing => OutOfReach
  <2> SUFFICES ASSUME Sealing, HasKey
               PROVE  /\ asked.vmpl \in world.level .. MAX_VMPL
                      /\ GuestSvn \in DOMAIN asked.bound =>
                           asked.bound[GuestSvn] <= world.svn
                      /\ TcbVersion \in DOMAIN asked.bound =>
                           CoveredBy(asked.bound[TcbVersion], world)
    BY DEF OutOfReach
  <2>1. /\ Derived(request, world) # {} /\ request \in KeyRequest
        /\ world \in World /\ Reflects(request, asked)
    BY DEF Sealing, Obtained, HasKey, Reflects
  <2> DEFINE r == Received(ToWire(request), world)
  <2>2. Validate(request) /\ Accepts(r, world)
    BY <2>1, KeyInHand
  <2>3. /\ r.vmpl = request.vmpl /\ r.fields = request.fields
        /\ r.svn = request.svn /\ r.tcb = request.tcb
    BY <2>1, WireFaithful DEF KeyRequest
  <2>4. world.level \in Nat /\ request.vmpl \in Nat
    <3>1. world.level \in Nat
      BY <2>1, Worldly DEF WorldTypeOK, Machine
    <3>2. request.vmpl \in Vmpl \cup {0} /\ Vmpl \subseteq Nat
      BY <2>1, WorldAssumption DEF KeyRequest
    <3>3. CASE request.vmpl \in Vmpl
      BY <3>1, <3>2, <3>3
    <3>4. CASE request.vmpl = 0
      BY <3>1, <3>4
    <3> QED
      BY <3>2, <3>3, <3>4
  <2>5. /\ asked.vmpl = request.vmpl /\ DOMAIN asked.bound = request.fields
        /\ GuestSvn \in request.fields => asked.bound[GuestSvn] = request.svn
        /\ TcbVersion \in request.fields => asked.bound[TcbVersion] = request.tcb
    BY <2>1 DEF Reflects
  <2> HIDE DEF r
  <2>6. request.vmpl >= world.level /\ request.vmpl <= MAX_VMPL
    BY <2>2, <2>3 DEF Validate, Accepts
  <2> QED
    BY <2>2, <2>3, <2>4, <2>5, <2>6 DEF Accepts, MAX_VMPL
<1> QED
  BY <1>1, SealingInvariant, PTL

\* On every processor and with every report version, the TCB version of a
\* report is decoded to the platform's numbers, and the product and the CPUID
\* signature come out as the processor has them (reported_tcb_parts, product,
\* from_cpuid_1_eax, to_cpuid_1_eax, decode).
THEOREM TcbNamedRight == Spec => []ReportNamesTcb
<1>1. Sealing => ReportNamesTcb
  <2> SUFFICES ASSUME Sealing, report # None PROVE ReportNamesTcb
    BY DEF ReportNamesTcb
  <2>1. world \in World /\ report = HardwareReport(world)
    BY DEF Sealing, Taken
  <2> DEFINE product == ProductOfFms(world.cpu.fms)
  <2>2. /\ ProductFor(report) = product /\ ProductOf(report) \in {None, product}
        /\ report.reported_tcb = HardwareTcb(world)
    BY <2>1, ProductNamed DEF HardwareReport
  <2>3. Decode(HardwareTcb(world), product) = world.tcb
    BY <2>1, LayoutRight
  <2>4. /\ FromCpuid1Eax(world.cpu.eax) = world.cpu.fms
        /\ FromCpuid1Eax(ToCpuid1Eax(world.cpu.fms)) = world.cpu.fms
    BY <2>1, Worldly, CpuidRead, CpuidWritten
  <2> HIDE DEF product
  <2>5. ReportedTcbParts(report) \in {None, world.tcb}
    BY <2>2, <2>3 DEF ReportedTcbParts
  <2> QED
    BY <2>2, <2>3, <2>4, <2>5 DEF ReportNamesTcb, product
<1> QED
  BY <1>1, SealingInvariant, PTL

\* Decoding the TCB version of a report and encoding it again gives back its
\* bytes, whatever the processor (TcbVersion::decode, TcbParts::encode).
THEOREM TcbRoundTrip == Spec => []TcbSurvives
<1>1. Sealing => TcbSurvives
  <2> SUFFICES ASSUME Sealing, report # None PROVE TcbSurvives
    BY DEF TcbSurvives
  <2>1. world \in World /\ report = HardwareReport(world)
    BY DEF Sealing, Taken
  <2> DEFINE product == ProductOfFms(world.cpu.fms)
  <2>2. ProductFor(report) = product /\ report.reported_tcb = HardwareTcb(world)
    BY <2>1, ProductNamed DEF HardwareReport
  <2>3. /\ Decode(HardwareTcb(world), product) = world.tcb
        /\ Encode(world.tcb, product) = HardwareTcb(world)
    BY <2>1, LayoutRight
  <2> HIDE DEF product
  <2> QED
    BY <2>2, <2>3 DEF TcbSurvives
<1> QED
  BY <1>1, SealingInvariant, PTL

\* A field is answered exactly where the firmware wrote it, and the numbers of
\* a signature come out digit by digit, for every size of field and number
\* (cpuid_fms, launch_mit_vector, to_be_48).
THEOREM FieldsAsWritten == Spec => []FieldsWritten
<1>1. Sealing => FieldsWritten
  <2> SUFFICES ASSUME Sealing, report # None PROVE FieldsWritten
    BY DEF FieldsWritten
  <2>1. world \in World /\ report = HardwareReport(world)
    BY DEF Sealing, Taken
  <2>2. CpuidFms(report) = IF WritesCpuid(world) THEN world.cpu.fms ELSE None
    BY <2>1, ProductNamed
  <2>3. MitVector(report) = IF WritesMit(world) THEN world.mit ELSE None
    BY <2>1 DEF MitVector, HardwareReport, WritesMit
  <2>4. ASSUME NEW n \in Number, NEW i \in 1 .. NUMBER_LEN
        PROVE  ToBigEndian(LittleEndian(n))[i] = n[NUMBER_LEN - i]
    <3>1. /\ NUMBER_LEN + 1 - i \in 1 .. FIELD_LEN
          /\ NUMBER_LEN + 1 - i <= NUMBER_LEN
          /\ (NUMBER_LEN + 1 - i) - 1 = NUMBER_LEN - i
      BY ReportAssumption
    <3>2. LittleEndian(n)[NUMBER_LEN + 1 - i] = n[NUMBER_LEN - i]
      BY <3>1 DEF LittleEndian
    <3> QED
      BY <3>2 DEF ToBigEndian
  <2>5. ASSUME world.sig.algo = 1, NEW i \in 1 .. NUMBER_LEN
        PROVE  /\ EcdsaSignature(report).r[i] = world.sig.r[NUMBER_LEN - i]
               /\ EcdsaSignature(report).s[i] = world.sig.s[NUMBER_LEN - i]
    <3>1. world.sig.r \in Number /\ world.sig.s \in Number
      BY <2>1, Worldly DEF WorldTypeOK, Machine
    <3>2. SignatureAlgo(report.signature_algo) = "EcdsaP384Sha384"
      BY <2>1, <2>5 DEF HardwareReport, SignatureAlgo
    <3>3. /\ EcdsaSignature(report).r = ToBigEndian(LittleEndian(world.sig.r))
          /\ EcdsaSignature(report).s = ToBigEndian(LittleEndian(world.sig.s))
      BY <2>1, <3>2 DEF EcdsaSignature, HardwareReport
    <3> QED
      BY <2>4, <3>1, <3>3
  <2> QED
    BY <2>2, <2>3, <2>5 DEF FieldsWritten
<1> QED
  BY <1>1, SealingInvariant, PTL

\* Every bit that is set in a policy or in the platform information is what an
\* accessor reads or among the unknown bits, for all values of 64 bits
\* (GuestPolicy, PlatformInfo).
THEOREM BitsNotLost == Spec => []BitsAccounted
<1>1. ASSUME NEW bit \in 0 .. 63, NEW raw, bit \in raw
      PROVE  /\ (bit >= 16 /\ \A name \in DOMAIN PolicyFlag : PolicyFlag[name] # bit)
                <=> bit \in GuestPolicy(raw).unknown_bits
             /\ (\A name \in DOMAIN PlatformFlag : PlatformFlag[name] # bit)
                <=> bit \in PlatformInfo(raw).unknown_bits
  <2>1. /\ GuestPolicy(raw).unknown_bits = raw \ PolicyKnown
        /\ PlatformInfo(raw).unknown_bits = raw \ PlatformKnown
    BY DEF GuestPolicy, PlatformInfo
  <2>2. bit >= 16 /\ (\A name \in DOMAIN PolicyFlag : PolicyFlag[name] # bit)
        <=> bit \notin 0 .. 25
    BY DEF PolicyFlag
  <2>3. (\A name \in DOMAIN PlatformFlag : PlatformFlag[name] # bit)
        <=> bit \notin (0 .. 7) \ {6}
    BY DEF PlatformFlag
  <2> QED
    BY <1>1, <2>1, <2>2, <2>3 DEF PolicyKnown, PlatformKnown
<1>2. Sealing => BitsAccounted
  <2> SUFFICES ASSUME Sealing, report # None PROVE BitsAccounted
    BY DEF BitsAccounted
  <2>1. report.policy \in U64 /\ report.platform_info \in U64
    BY ReportTyped DEF Sealing, Taken, AttestationReport
  <2>2. report.policy \subseteq 0 .. 63 /\ report.platform_info \subseteq 0 .. 63
    BY <2>1 DEF U64
  <2> QED
    BY <1>1, <2>2 DEF BitsAccounted
<1> QED
  BY <1>2, SealingInvariant, PTL

-----------------------------------------------------------------------------
(***************************************************************************)
(* The examples: which of their requests are granted, and what the keys    *)
(* are then made of.                                                       *)
(***************************************************************************)

\* A request as the example programs build it: what they leave alone is zero.
Zeros == [i \in 1 .. 8 |-> 0]

Asked(root, fields, vmpl, svn, tcb) ==
  [root |-> root, fields |-> fields, vmpl |-> vmpl, svn |-> svn, tcb |-> tcb,
   mit |-> ZeroMit]

\* What each call of the builder makes of such a request.
LEMMA AskedFact ==
  ASSUME NEW root, NEW fields, NEW vmpl, NEW svn, NEW tcb, NEW f
  PROVE  WithFact(Asked(root, fields, vmpl, svn, tcb), f)
           = Asked(root, fields \cup {f}, vmpl, svn, tcb)
BY DEF Asked, WithFact, With

LEMMA AskedSvn ==
  ASSUME NEW root, NEW fields, NEW vmpl, NEW svn, NEW tcb, NEW n
  PROVE  WithSvn(Asked(root, fields, vmpl, svn, tcb), n)
           = Asked(root, fields \cup {GuestSvn}, vmpl, n, tcb)
<1> DEFINE req == Asked(root, fields, vmpl, svn, tcb)
<1>1. WithSvn(req, n) = [WithFact(req, GuestSvn) EXCEPT !.svn = n]
  BY DEF WithSvn, WithFact, GuestSvn
<1>2. [Asked(root, fields \cup {GuestSvn}, vmpl, svn, tcb) EXCEPT !.svn = n]
        = Asked(root, fields \cup {GuestSvn}, vmpl, n, tcb)
  BY DEF Asked
<1>3. WithFact(req, GuestSvn) = Asked(root, fields \cup {GuestSvn}, vmpl, svn, tcb)
  BY AskedFact
<1> QED
  BY <1>1, <1>2, <1>3

LEMMA AskedTcb ==
  ASSUME NEW root, NEW fields, NEW vmpl, NEW svn, NEW tcb, NEW v
  PROVE  WithTcb(Asked(root, fields, vmpl, svn, tcb), v)
           = Asked(root, fields \cup {TcbVersion}, vmpl, svn, v)
<1> DEFINE req == Asked(root, fields, vmpl, svn, tcb)
<1>1. WithTcb(req, v) = [WithFact(req, TcbVersion) EXCEPT !.tcb = v]
  BY DEF WithTcb, WithFact, TcbVersion
<1>2. [Asked(root, fields \cup {TcbVersion}, vmpl, svn, tcb) EXCEPT !.tcb = v]
        = Asked(root, fields \cup {TcbVersion}, vmpl, svn, v)
  BY DEF Asked
<1>3. WithFact(req, TcbVersion) = Asked(root, fields \cup {TcbVersion}, vmpl, svn, tcb)
  BY AskedFact
<1> QED
  BY <1>1, <1>2, <1>3

LEMMA ExampleRequests ==
  /\ NewKeyRequest = Asked("Vcek", {}, 0, 0, Zeros)
  /\ \A fact : WithFact(NewKeyRequest, fact) = Asked("Vcek", {fact}, 0, 0, Zeros)
  /\ \A svn : WithSvn(NewKeyRequest, svn) = Asked("Vcek", {GuestSvn}, 0, svn, Zeros)
  /\ \A vmpl : WithVmpl(NewKeyRequest, vmpl) = Asked("Vcek", {}, vmpl, 0, Zeros)
  /\ \A root : WithRoot(NewKeyRequest, root) = Asked(root, {}, 0, 0, Zeros)
  /\ \A tcb : WithTcb(NewKeyRequest, tcb) = Asked("Vcek", {TcbVersion}, 0, 0, tcb)
<1>1. NewKeyRequest = Asked("Vcek", {}, 0, 0, Zeros)
  BY DEF NewKeyRequest, Asked, Zeros
<1>2. \A x : {} \cup {x} = {x}
  OBVIOUS
<1>3. ASSUME NEW fact
      PROVE  WithFact(NewKeyRequest, fact) = Asked("Vcek", {fact}, 0, 0, Zeros)
  BY <1>1, <1>2, AskedFact
<1>4. ASSUME NEW svn
      PROVE  WithSvn(NewKeyRequest, svn) = Asked("Vcek", {GuestSvn}, 0, svn, Zeros)
  BY <1>1, <1>2, AskedSvn
<1>5. ASSUME NEW vmpl
      PROVE  WithVmpl(NewKeyRequest, vmpl) = Asked("Vcek", {}, vmpl, 0, Zeros)
  BY <1>1 DEF WithVmpl, Asked
<1>6. ASSUME NEW root
      PROVE  WithRoot(NewKeyRequest, root) = Asked(root, {}, 0, 0, Zeros)
  BY <1>1 DEF WithRoot, Asked
<1>7. ASSUME NEW tcb
      PROVE  WithTcb(NewKeyRequest, tcb) = Asked("Vcek", {TcbVersion}, 0, 0, tcb)
  BY <1>1, <1>2, AskedTcb
<1> QED
  BY <1>1, <1>3, <1>4, <1>5, <1>6, <1>7

\* The requests of attest.
LEMMA SealingRequests ==
  ASSUME NEW tcb, NEW sealing,
         sealing = WithTcb(WithFact(WithFact(NewKeyRequest, Measurement), Policy), tcb)
  PROVE  /\ sealing = Asked("Vcek", {Measurement, Policy, TcbVersion}, 0, 0, tcb)
         /\ WithFact(sealing, FamilyId)
              = Asked("Vcek", {Measurement, Policy, TcbVersion, FamilyId}, 0, 0, tcb)
<1>1. WithFact(NewKeyRequest, Measurement) = Asked("Vcek", {Measurement}, 0, 0, Zeros)
  BY ExampleRequests
<1>2. WithFact(Asked("Vcek", {Measurement}, 0, 0, Zeros), Policy)
        = Asked("Vcek", {Measurement} \cup {Policy}, 0, 0, Zeros)
  BY AskedFact
<1>3. WithTcb(Asked("Vcek", {Measurement} \cup {Policy}, 0, 0, Zeros), tcb)
        = Asked("Vcek", ({Measurement} \cup {Policy}) \cup {TcbVersion}, 0, 0, tcb)
  BY AskedTcb
<1>4. ({Measurement} \cup {Policy}) \cup {TcbVersion} = {Measurement, Policy, TcbVersion}
  OBVIOUS
<1>5. WithFact(Asked("Vcek", {Measurement, Policy, TcbVersion}, 0, 0, tcb), FamilyId)
        = Asked("Vcek", {Measurement, Policy, TcbVersion} \cup {FamilyId}, 0, 0, tcb)
  BY AskedFact
<1>6. {Measurement, Policy, TcbVersion} \cup {FamilyId}
        = {Measurement, Policy, TcbVersion, FamilyId}
  OBVIOUS
<1> QED
  BY <1>1, <1>2, <1>3, <1>4, <1>5, <1>6

\* What the firmware checks, in terms of the request.
Granted(req, w) ==
  /\ req.vmpl <= MAX_VMPL /\ req.vmpl >= w.level
  /\ req.root = "Vmrk" => w.agent
  /\ GuestSvn \in req.fields => req.svn <= w.svn
  /\ TcbVersion \in req.fields => CoveredBy(req.tcb, w)

LEMMA DerivedParts ==
  ASSUME NEW req, req.tcb \in Bytes8, req.mit \in Nat \X Nat, NEW w
  PROVE  Derived(req, w) = IF Granted(req, w) THEN {Mixed(req, w)} ELSE {}
<1> DEFINE r == Received(ToWire(req), w)
<1>1. /\ r.root = req.root /\ r.fields = req.fields /\ r.vmpl = req.vmpl
      /\ r.svn = req.svn /\ r.tcb = req.tcb
  BY WireFaithful
<1>2. Derived(req, w) = IF Validate(req) /\ Accepts(r, w) THEN {Key(r, w)} ELSE {}
  BY DEF Derived
<1>3. Key(r, w) = Mixed(req, w)
  BY KeyParts
<1> HIDE DEF r
<1>4. Validate(req) /\ Accepts(r, w) <=> Granted(req, w)
  BY <1>1 DEF Validate, Accepts, Granted
<1> QED
  BY <1>2, <1>3, <1>4

\* No example names a vector of mitigations.
LEMMA AskedParts ==
  ASSUME NEW w, NEW req, req.tcb \in Bytes8, req.mit = ZeroMit
  PROVE  Derived(req, w) = IF Granted(req, w) THEN {Mixed(req, w)} ELSE {}
<1>1. ZeroMit \in Nat \X Nat
  BY DEF ZeroMit
<1> QED
  BY <1>1, DerivedParts

\* Each fact that a request binds, the level and the root go into its key.
LEMMA KeysDiffer ==
  ASSUME NEW req1, NEW req2, NEW w \in World,
         \/ req1.vmpl # req2.vmpl
         \/ req1.root = "Vcek" /\ req2.root = "Vmrk"
         \/ req1.fields \cap LaunchFact # req2.fields \cap LaunchFact
         \/ GuestSvn \notin req1.fields /\ GuestSvn \in req2.fields
         \/ /\ TcbVersion \in req1.fields /\ TcbVersion \in req2.fields
            /\ req1.tcb # req2.tcb
  PROVE  Mixed(req1, w) # Mixed(req2, w)
<1>1. w.cpu.chip # "vmrk"
  BY Worldly DEF WorldTypeOK, CpuOK
<1>2. ASSUME Mixed(req1, w) = Mixed(req2, w)
      PROVE  /\ (IF req1.root = "Vcek" THEN w.cpu.chip ELSE "vmrk")
                  = (IF req2.root = "Vcek" THEN w.cpu.chip ELSE "vmrk")
             /\ req1.vmpl = req2.vmpl
             /\ Policy \in req1.fields <=> Policy \in req2.fields
             /\ (req1.fields \cap LaunchFact) \ {Policy}
                  = (req2.fields \cap LaunchFact) \ {Policy}
             /\ (IF GuestSvn \in req1.fields THEN {req1.svn} ELSE {})
                  = (IF GuestSvn \in req2.fields THEN {req2.svn} ELSE {})
             /\ (IF TcbVersion \in req1.fields THEN {req1.tcb} ELSE {})
                  = (IF TcbVersion \in req2.fields THEN {req2.tcb} ELSE {})
  <2> DEFINE k1 == Mixed(req1, w)
             k2 == Mixed(req2, w)
  <2>1. /\ k1.secret = k2.secret /\ k1.vmpl = k2.vmpl /\ k1.policy = k2.policy
        /\ DOMAIN k1.launch = DOMAIN k2.launch
        /\ k1.svn = k2.svn /\ k1.tcb = k2.tcb
    BY <1>2
  <2>2. (IF Policy \in req1.fields THEN {w.policy} ELSE {})
          = (IF Policy \in req2.fields THEN {w.policy} ELSE {})
    BY <2>1 DEF Mixed
  <2> QED
    BY <2>1, <2>2 DEF Mixed
<1> QED
  BY <1>1, <1>2 DEF LaunchFact, Policy, Measurement

LEMMA ZerosTyped == Zeros \in Bytes8
BY DEF Zeros, Bytes8, Byte

\* What ExamplesHold says of every pair but that of the root keys.
Expected(pair, w) == Verdict(pair) = IF w.level = 0 THEN "ok" ELSE "stopped"

\* What becomes of two different keys, where they are derived.
LEMMA VerdictOfDifferent ==
  ASSUME NEW w, NEW l, NEW r, NEW optional \in BOOLEAN, NEW pair,
         pair = Pair("Different", w, l, r, optional)
  PROVE  /\ Derived(l, w) = {} => Verdict(pair) = "stopped"
         /\ Derived(l, w) # {} /\ Derived(r, w) = {} /\ optional
              => Verdict(pair) = "refused"
         /\ Derived(l, w) # {} /\ Derived(r, w) # {}
              => Verdict(pair) = IF Derived(l, w) # Derived(r, w) THEN "ok"
                                                                  ELSE "UNEXPECTED"
<1>1. /\ pair.left = Derived(l, w) /\ pair.right = Derived(r, w)
      /\ pair.optional = optional /\ pair.expect = "Different"
  BY DEF Pair
<1>2. Held(pair) <=> pair.left # pair.right
  BY <1>1 DEF Held
<1> QED
  BY <1>1, <1>2 DEF Verdict

LEMMA SamePair ==
  ASSUME NEW w, NEW l, NEW optional, NEW pair, pair = Pair("Same", w, l, l, optional),
         w.level = 0 <=> Derived(l, w) # {}
  PROVE  Expected(pair, w)
<1>1. /\ pair.left = Derived(l, w) /\ pair.right = Derived(l, w)
      /\ pair.expect = "Same"
  BY DEF Pair
<1>2. Held(pair)
  BY <1>1 DEF Held
<1> QED
  BY <1>1, <1>2 DEF Verdict, Expected

\* Two requests whose keys must differ, as Asked makes them.
LEMMA DifferentPair ==
  ASSUME NEW w, NEW l, NEW r, NEW optional \in BOOLEAN, NEW pair,
         pair = Pair("Different", w, l, r, optional),
         Derived(l, w) = (IF Granted(l, w) THEN {Mixed(l, w)} ELSE {}),
         Derived(r, w) = (IF Granted(r, w) THEN {Mixed(r, w)} ELSE {}),
         Mixed(l, w) # Mixed(r, w),
         w.level = 0 <=> Granted(l, w),
         w.level = 0 => Granted(r, w)
  PROVE  Expected(pair, w)
<1>1. CASE w.level # 0
  <2>1. Verdict(pair) = "stopped"
    BY <1>1, VerdictOfDifferent
  <2> QED
    BY <1>1, <2>1 DEF Expected
<1>2. CASE w.level = 0
  <2>1. Derived(l, w) # {} /\ Derived(r, w) # {} /\ Derived(l, w) # Derived(r, w)
    BY <1>2
  <2>2. Verdict(pair) = "ok"
    BY <2>1, VerdictOfDifferent
  <2> QED
    BY <1>2, <2>2 DEF Expected
<1> QED
  BY <1>1, <1>2

\* What a machine has in common with its update.
LEMMA UpdatedParts ==
  ASSUME NEW v \in World, NEW w \in Updated(v)
  PROVE  /\ w \in World
         /\ w.svn = v.svn /\ w.svn \in 0 .. MAX_SVN /\ w.level \in Nat
         /\ CoveredBy(HardwareTcb(v), w)
<1>1. w \in World /\ w = [v EXCEPT !.tcb = w.tcb] /\ CoveredBy(HardwareTcb(v), w)
  BY DEF Updated
<1>2. v \in Machine /\ w \in Machine
  BY <1>1, Worldly DEF WorldTypeOK
<1>3. w.svn = v.svn
  BY <1>1, <1>2, Zenon DEF Machine
<1>4. w.svn \in 0 .. MAX_SVN /\ w.level \in Nat
  BY <1>2 DEF Machine
<1> QED
  BY <1>1, <1>3, <1>4

-----------------------------------------------------------------------------
(***************************************************************************)
(* The pairs of the examples, on a machine w.                              *)
(***************************************************************************)
LEMMA DeterminismHolds ==
  ASSUME NEW w \in World, w.level \in Nat, NEW pair \in Determinism(w)
  PROVE  Expected(pair, w)
<1> DEFINE l == WithFact(NewKeyRequest, Measurement)
<1>1. l = Asked("Vcek", {Measurement}, 0, 0, Zeros)
  BY ExampleRequests
<1>2. pair = Pair("Same", w, l, l, FALSE)
  BY DEF Determinism
<1> HIDE DEF l
<1>3. /\ Derived(l, w) = IF Granted(l, w) THEN {Mixed(l, w)} ELSE {}
      /\ l.vmpl = 0 /\ l.root = "Vcek" /\ l.fields = {Measurement}
  BY <1>1, AskedParts, ZerosTyped DEF Asked
<1>4. w.level = 0 <=> Granted(l, w)
  BY <1>3 DEF Granted, MAX_VMPL, Measurement, GuestSvn, TcbVersion
<1> QED
  BY <1>2, <1>3, <1>4, SamePair

LEMMA BindingsHold ==
  ASSUME NEW w \in World, w.level \in Nat, w.svn \in Nat,
         NEW pair \in BindingSensitivity(w)
  PROVE  Expected(pair, w)
<1> DEFINE l == NewKeyRequest
<1>1. PICK r \in {WithFact(NewKeyRequest, fact) : fact \in LaunchFact}
                 \cup {WithSvn(NewKeyRequest, 0)} :
        pair = Pair("Different", w, l, r, FALSE)
  BY DEF BindingSensitivity
<1>2. l = Asked("Vcek", {}, 0, 0, Zeros)
  BY ExampleRequests
<1>3. PICK fact \in LaunchFact \cup {GuestSvn} : r = Asked("Vcek", {fact}, 0, 0, Zeros)
  BY <1>1, ExampleRequests
<1> DEFINE fields == {fact}
<1> HIDE DEF l
<1>4. /\ Derived(l, w) = IF Granted(l, w) THEN {Mixed(l, w)} ELSE {}
      /\ l.vmpl = 0 /\ l.root = "Vcek" /\ l.fields = {}
  BY <1>2, AskedParts, ZerosTyped DEF Asked
<1>5. /\ Derived(r, w) = IF Granted(r, w) THEN {Mixed(r, w)} ELSE {}
      /\ r.vmpl = 0 /\ r.root = "Vcek" /\ r.fields = fields /\ r.svn = 0
  BY <1>3, AskedParts, ZerosTyped DEF Asked
<1>6. TcbVersion \notin fields
  BY DEF LaunchFact, Policy, Measurement, GuestSvn, TcbVersion
<1>7. (w.level = 0 <=> Granted(l, w)) /\ (w.level = 0 => Granted(r, w))
  BY <1>4, <1>5, <1>6 DEF Granted, MAX_VMPL
<1>8. \/ l.fields \cap LaunchFact # r.fields \cap LaunchFact
      \/ GuestSvn \notin l.fields /\ GuestSvn \in r.fields
  BY <1>4, <1>5
<1>9. Mixed(l, w) # Mixed(r, w)
  BY <1>8, KeysDiffer
<1> QED
  BY <1>1, <1>4, <1>5, <1>7, <1>9, DifferentPair

LEMMA PrivilegeHolds ==
  ASSUME NEW w \in World, w.level \in Nat, NEW pair \in PrivilegeSeparation(w)
  PROVE  Expected(pair, w)
<1> DEFINE l == WithVmpl(NewKeyRequest, 0)
<1>1. PICK level \in 1 .. MAX_VMPL :
        pair = Pair("Different", w, l, WithVmpl(NewKeyRequest, level), TRUE)
  BY DEF PrivilegeSeparation
<1> DEFINE r == WithVmpl(NewKeyRequest, level)
<1>2. l = Asked("Vcek", {}, 0, 0, Zeros) /\ r = Asked("Vcek", {}, level, 0, Zeros)
  BY ExampleRequests
<1> HIDE DEF l, r
<1>3. /\ Derived(l, w) = IF Granted(l, w) THEN {Mixed(l, w)} ELSE {}
      /\ l.vmpl = 0 /\ l.root = "Vcek" /\ l.fields = {}
  BY <1>2, AskedParts, ZerosTyped DEF Asked
<1>4. /\ Derived(r, w) = IF Granted(r, w) THEN {Mixed(r, w)} ELSE {}
      /\ r.vmpl = level /\ r.root = "Vcek" /\ r.fields = {}
  BY <1>2, AskedParts, ZerosTyped DEF Asked
<1>5. (w.level = 0 <=> Granted(l, w)) /\ (w.level = 0 => Granted(r, w))
  BY <1>3, <1>4 DEF Granted, MAX_VMPL
<1>6. Mixed(l, w) # Mixed(r, w)
  BY <1>3, <1>4, KeysDiffer
<1>7. pair = Pair("Different", w, l, r, TRUE)
  BY <1>1 DEF r
<1> QED
  BY <1>3, <1>4, <1>5, <1>6, <1>7, DifferentPair

LEMMA RootsHold ==
  ASSUME NEW w \in World, w.level \in Nat, NEW pair \in RootKeyChoice(w)
  PROVE  Verdict(pair) = IF w.level # 0 THEN "stopped"
                         ELSE IF w.agent THEN "ok" ELSE "refused"
<1> DEFINE l == WithRoot(NewKeyRequest, "Vcek")
           r == WithRoot(NewKeyRequest, "Vmrk")
<1>1. pair = Pair("Different", w, l, r, TRUE)
  BY DEF RootKeyChoice
<1>2. l = Asked("Vcek", {}, 0, 0, Zeros) /\ r = Asked("Vmrk", {}, 0, 0, Zeros)
  BY ExampleRequests
<1> HIDE DEF l, r
<1>3. /\ Derived(l, w) = IF Granted(l, w) THEN {Mixed(l, w)} ELSE {}
      /\ l.vmpl = 0 /\ l.root = "Vcek" /\ l.fields = {}
  BY <1>2, AskedParts, ZerosTyped DEF Asked
<1>4. /\ Derived(r, w) = IF Granted(r, w) THEN {Mixed(r, w)} ELSE {}
      /\ r.vmpl = 0 /\ r.root = "Vmrk" /\ r.fields = {}
  BY <1>2, AskedParts, ZerosTyped DEF Asked
<1>5. /\ w.level = 0 <=> Granted(l, w)
      /\ w.level = 0 => (Granted(r, w) <=> w.agent)
  BY <1>3, <1>4 DEF Granted, MAX_VMPL
<1>6. Mixed(l, w) # Mixed(r, w)
  BY <1>3, <1>4, KeysDiffer
<1>7. CASE w.level # 0
  <2>1. Verdict(pair) = "stopped"
    BY <1>1, <1>3, <1>5, <1>7, VerdictOfDifferent
  <2> QED
    BY <1>7, <2>1
<1>8. CASE w.level = 0 /\ ~ w.agent
  <2>1. Derived(l, w) # {} /\ Derived(r, w) = {}
    BY <1>3, <1>4, <1>5, <1>8
  <2>2. Verdict(pair) = "refused"
    BY <1>1, <2>1, VerdictOfDifferent
  <2> QED
    BY <1>8, <2>2
<1>9. CASE w.level = 0 /\ w.agent
  <2>1. Derived(l, w) # {} /\ Derived(r, w) # {} /\ Derived(l, w) # Derived(r, w)
    BY <1>3, <1>4, <1>5, <1>6, <1>9
  <2>2. Verdict(pair) = "ok"
    BY <1>1, <2>1, VerdictOfDifferent
  <2> QED
    BY <1>9, <2>2
<1> QED
  BY <1>7, <1>8, <1>9

LEMMA SealingKeysHold ==
  ASSUME NEW w \in World, w.level \in Nat, NEW rep, rep.reported_tcb \in Bytes8,
         CoveredBy(rep.reported_tcb, w), NEW pair \in DeriveKeys(rep, w)
  PROVE  Expected(pair, w)
<1> DEFINE l == WithTcb(WithFact(WithFact(NewKeyRequest, Measurement), Policy),
                        rep.reported_tcb)
           r == WithFact(l, FamilyId)
           fields == {Measurement, Policy, TcbVersion}
<1>1. \/ pair = Pair("Same", w, l, l, FALSE)
      \/ pair = Pair("Different", w, l, r, FALSE)
  BY DEF DeriveKeys
<1>2. /\ l = Asked("Vcek", fields, 0, 0, rep.reported_tcb)
      /\ r = Asked("Vcek", {Measurement, Policy, TcbVersion, FamilyId}, 0, 0,
                   rep.reported_tcb)
  BY SealingRequests
<1> HIDE DEF l, r, fields
<1>3. /\ Derived(l, w) = IF Granted(l, w) THEN {Mixed(l, w)} ELSE {}
      /\ l.vmpl = 0 /\ l.root = "Vcek" /\ l.fields = fields
      /\ l.tcb = rep.reported_tcb
  BY <1>2, AskedParts DEF Asked
<1>4. /\ Derived(r, w) = IF Granted(r, w) THEN {Mixed(r, w)} ELSE {}
      /\ r.vmpl = 0 /\ r.root = "Vcek"
      /\ r.fields = {Measurement, Policy, TcbVersion, FamilyId}
      /\ r.tcb = rep.reported_tcb
  BY <1>2, AskedParts DEF Asked
<1>5. /\ GuestSvn \notin l.fields /\ GuestSvn \notin r.fields
      /\ FamilyId \in r.fields \cap LaunchFact
      /\ FamilyId \notin l.fields \cap LaunchFact
  BY <1>3, <1>4 DEF fields, GuestSvn, Measurement, Policy, TcbVersion, FamilyId, LaunchFact
<1>6. (w.level = 0 <=> Granted(l, w)) /\ (w.level = 0 => Granted(r, w))
  BY <1>3, <1>4, <1>5 DEF Granted, MAX_VMPL
<1>7. Mixed(l, w) # Mixed(r, w)
  BY <1>5, KeysDiffer
<1>8. CASE pair = Pair("Same", w, l, l, FALSE)
  BY <1>8, <1>3, <1>6, SamePair
<1>9. CASE pair = Pair("Different", w, l, r, FALSE)
  BY <1>9, <1>3, <1>4, <1>6, <1>7, DifferentPair
<1> QED
  BY <1>1, <1>8, <1>9

-----------------------------------------------------------------------------
(***************************************************************************)
(* The older TCB: another one, and no number of it is larger.              *)
(***************************************************************************)
Older(old, raw) ==
  /\ old \in Bytes8 /\ old # raw
  /\ \A i \in 1 .. 8 : old[i] <= raw[i]

LEMMA BytesAreNumbers == \A b \in Byte : b \in Nat /\ b <= 255
BY DEF Byte

LEMMA SteppedDown ==
  ASSUME NEW raw \in Bytes8, raw[1] # 0
  PROVE  Older(StepDown(raw), raw)
<1>1. \A i \in 1 .. 8 : raw[i] \in Byte
  BY DEF Bytes8
<1>2. StepDown(raw) = [i \in 1 .. 8 |-> IF i = 1 THEN (raw[i] + 255) % 256 ELSE raw[i]]
  BY <1>1 DEF StepDown
<1>3. (raw[1] + 255) % 256 = raw[1] - 1
  BY <1>1 DEF Byte
<1>4. /\ StepDown(raw)[1] = raw[1] - 1
      /\ \A i \in 2 .. 8 : StepDown(raw)[i] = raw[i]
  BY <1>2, <1>3
<1>5. \A i \in 1 .. 8 : /\ StepDown(raw)[i] \in Byte
                        /\ StepDown(raw)[i] <= raw[i]
  <2>1. \A i \in 1 .. 8 : raw[i] \in Nat /\ raw[i] <= 255
    BY <1>1, BytesAreNumbers
  <2>2. \A i \in 1 .. 8 : i = 1 \/ i \in 2 .. 8
    OBVIOUS
  <2>3. raw[1] - 1 \in Byte /\ raw[1] - 1 <= raw[1]
    BY <2>1 DEF Byte
  <2> QED
    BY <1>1, <1>4, <2>1, <2>2, <2>3
<1>6. StepDown(raw) \in Bytes8
  BY <1>2, <1>5 DEF Bytes8
<1>7. StepDown(raw) # raw
  BY <1>1, <1>4 DEF Byte
<1> QED
  BY <1>5, <1>6, <1>7 DEF Older

LEMMA MicrocodeDown ==
  ASSUME NEW parts \in TcbParts, parts.microcode # 0, NEW product, NEW lower,
         lower = [parts EXCEPT !.microcode = parts.microcode - 1]
  PROVE  Older(Encode(lower, product), Encode(parts, product))
<1>1. /\ lower.fmc = parts.fmc /\ lower.bootloader = parts.bootloader
      /\ lower.tee = parts.tee /\ lower.snp = parts.snp
      /\ lower.microcode = parts.microcode - 1
  BY DEF TcbParts
<1>2. /\ parts.fmc \in Byte \cup {NoFmc} /\ parts.bootloader \in Byte
      /\ parts.tee \in Byte /\ parts.snp \in Byte /\ parts.microcode \in 1 .. 255
  BY DEF TcbParts, Byte
<1>3. lower \in TcbParts
  BY <1>2 DEF TcbParts, Byte
<1>4. Encode(lower, product) \in Bytes8 /\ Encode(parts, product) \in Bytes8
  BY <1>3, EncodeTyped
<1>5. /\ \A i \in 1 .. 7 : Encode(lower, product)[i] = Encode(parts, product)[i]
      /\ Encode(parts, product)[8] = parts.microcode
      /\ Encode(lower, product)[8] = parts.microcode - 1
  BY <1>1 DEF Encode
<1>6. \A i \in 1 .. 8 : Encode(lower, product)[i] <= Encode(parts, product)[i]
  BY <1>2, <1>4, <1>5 DEF Bytes8, Byte
<1>7. Encode(lower, product) # Encode(parts, product)
  BY <1>2, <1>5
<1> QED
  BY <1>4, <1>6, <1>7 DEF Older

LEMMA OlderFound ==
  ASSUME world \in World, NEW rep, rep = HardwareReport(world), HasOlder(rep)
  PROVE  Older(OlderTcb(rep), rep.reported_tcb)
<1>1. rep.reported_tcb = HardwareTcb(world) /\ HardwareTcb(world) \in Bytes8
  BY HardwareTyped DEF HardwareReport
<1>2. CASE ProductOf(rep) = None
  <2>1. rep.reported_tcb[1] # 0 /\ OlderTcb(rep) = StepDown(rep.reported_tcb)
    BY <1>2 DEF HasOlder, OlderTcb
  <2> QED
    BY <1>1, <2>1, SteppedDown
<1>3. CASE ProductOf(rep) # None
  <2> DEFINE product == ProductOfFms(world.cpu.fms)
  <2>1. ProductOf(rep) = product
    BY <1>3, ProductNamed
  <2>2. /\ Decode(HardwareTcb(world), product) = world.tcb
        /\ Encode(world.tcb, product) = HardwareTcb(world)
    BY LayoutRight
  <2> HIDE DEF product
  <2>3. world.tcb.microcode # 0
    BY <1>1, <1>3, <2>1, <2>2 DEF HasOlder, ReportedTcbParts
  <2>4. OlderTcb(rep)
          = Encode([world.tcb EXCEPT !.microcode = world.tcb.microcode - 1], product)
    BY <1>1, <1>3, <2>1, <2>2, <2>3 DEF OlderTcb
  <2>5. world.tcb \in TcbParts
    BY <1>1, <2>2, DecodeTyped
  <2> QED
    BY <1>1, <2>2, <2>3, <2>4, <2>5, MicrocodeDown
<1> QED
  BY <1>2, <1>3

LEMMA OlderTyped ==
  ASSUME world \in World, NEW rep, rep = HardwareReport(world)
  PROVE  OlderTcb(rep) \in Bytes8
<1>1. rep.reported_tcb = HardwareTcb(world) /\ HardwareTcb(world) \in Bytes8
  BY HardwareTyped DEF HardwareReport
<1>2. CASE ProductOf(rep) = None
  <2>1. \A i \in 1 .. 8 : rep.reported_tcb[i] \in Byte
    BY <1>1 DEF Bytes8
  <2>2. \A b \in Byte : (b + 255) % 256 \in Byte
    BY DEF Byte
  <2>3. StepDown(rep.reported_tcb) \in Bytes8
    BY <2>1, <2>2 DEF StepDown, Bytes8
  <2> QED
    BY <1>2, <2>3 DEF OlderTcb
<1>3. CASE ProductOf(rep) # None
  <2> DEFINE product == ProductOfFms(world.cpu.fms)
             lower   == [world.tcb EXCEPT !.microcode = IF @ = 0 THEN 0 ELSE @ - 1]
  <2>1. ProductOf(rep) = product
    BY <1>3, ProductNamed
  <2>2. Decode(HardwareTcb(world), product) = world.tcb
    BY LayoutRight
  <2> HIDE DEF product
  <2>3. world.tcb \in TcbParts
    BY <1>1, <2>2, DecodeTyped
  <2>4. lower \in TcbParts
    BY <2>3 DEF TcbParts, Byte
  <2>5. OlderTcb(rep) = Encode(lower, product)
    BY <1>1, <1>3, <2>1, <2>2 DEF OlderTcb
  <2> HIDE DEF lower
  <2> QED
    BY <2>4, <2>5, EncodeTyped
<1> QED
  BY <1>2, <1>3

LEMMA NothingOlderFound ==
  ASSUME world \in World, NEW rep, rep = HardwareReport(world), NothingOlder(rep)
  PROVE  OlderTcb(rep) = rep.reported_tcb
<1>1. rep.reported_tcb = HardwareTcb(world) /\ HardwareTcb(world) \in Bytes8
  BY HardwareTyped DEF HardwareReport
<1>2. CASE ProductOf(rep) = None
  <2> DEFINE raw == rep.reported_tcb
  <2>1. \A i \in 1 .. 8 : raw[i] = 0
    BY <1>2 DEF NothingOlder
  <2>2. raw \in Bytes8
    BY <1>1
  <2>3. OlderTcb(rep) = StepDown(raw)
    BY <1>2 DEF OlderTcb
  <2> HIDE DEF raw
  <2>4. StepDown(raw) = [i \in 1 .. 8 |-> raw[i]]
    BY <2>1 DEF StepDown
  <2>5. StepDown(raw) = raw
    BY <2>2, <2>4 DEF Bytes8
  <2> QED
    BY <2>3, <2>5 DEF raw
<1>3. CASE ProductOf(rep) # None
  <2> DEFINE product == ProductOfFms(world.cpu.fms)
  <2>1. ProductOf(rep) = product
    BY <1>3, ProductNamed
  <2>2. /\ Decode(HardwareTcb(world), product) = world.tcb
        /\ Encode(world.tcb, product) = HardwareTcb(world)
    BY LayoutRight
  <2> HIDE DEF product
  <2>3. world.tcb.microcode = 0
    BY <1>1, <1>3, <2>1, <2>2 DEF NothingOlder, ReportedTcbParts
  <2>4. world.tcb \in TcbParts
    BY <1>1, <2>2, DecodeTyped
  <2>5. [world.tcb EXCEPT !.microcode = IF @ = 0 THEN 0 ELSE @ - 1] = world.tcb
    BY <2>3, <2>4 DEF TcbParts
  <2>6. OlderTcb(rep) = Encode(world.tcb, product)
    BY <1>1, <1>3, <2>1, <2>2, <2>5 DEF OlderTcb
  <2> QED
    BY <1>1, <2>2, <2>6
<1> QED
  BY <1>2, <1>3

LEMMA BorrowFound ==
  ASSUME world \in World, NEW rep, rep = HardwareReport(world), Borrows(rep)
  PROVE  OlderTcb(rep)[1] = 255 /\ OlderTcb(rep) # rep.reported_tcb
<1> DEFINE raw == rep.reported_tcb
<1>1. ProductOf(rep) = None /\ raw[1] = 0 /\ \E i \in 2 .. 8 : raw[i] # 0
  BY DEF Borrows
<1>2. OlderTcb(rep) = StepDown(raw)
  BY <1>1 DEF OlderTcb
<1> HIDE DEF raw
<1>3. StepDown(raw)[1] = (raw[1] + 255) % 256
  BY <1>1 DEF StepDown
<1>4. StepDown(raw)[1] = 255
  BY <1>1, <1>3
<1>5. StepDown(raw) # raw
  BY <1>1, <1>4
<1> QED
  BY <1>2, <1>4, <1>5 DEF raw

\* An older TCB lies below any machine that the reported one lies below.
LEMMA OlderCovered ==
  ASSUME NEW w \in World, NEW raw \in Bytes8, CoveredBy(raw, w),
         NEW old, Older(old, raw)
  PROVE  CoveredBy(old, w)
<1>1. HardwareTcb(w) \in Bytes8
  BY HardwareTyped
<1>2. \A i \in 1 .. 8 : old[i] \in Nat /\ raw[i] \in Nat /\ HardwareTcb(w)[i] \in Nat
  BY <1>1, BytesAreNumbers DEF Bytes8, Older
<1>3. \A i \in 1 .. 8 : old[i] <= raw[i] /\ raw[i] <= HardwareTcb(w)[i]
  BY DEF Older, CoveredBy
<1>4. \A i \in 1 .. 8 : old[i] <= HardwareTcb(w)[i]
  BY <1>2, <1>3
<1> QED
  BY <1>4 DEF CoveredBy

\* What becomes of the two keys, by the TCB that the example finds.
LEMMA RollbackVerdict ==
  ASSUME NEW w \in World, w.level \in Nat, NEW rep, rep.reported_tcb \in Bytes8,
         CoveredBy(rep.reported_tcb, w), OlderTcb(rep) \in Bytes8,
         NEW pair \in RollbackResistance(rep, w)
  PROVE  /\ w.level # 0 => Verdict(pair) = "stopped"
         /\ w.level = 0 /\ ~CoveredBy(OlderTcb(rep), w) => Verdict(pair) = "refused"
         /\ w.level = 0 /\ CoveredBy(OlderTcb(rep), w) /\ OlderTcb(rep) # rep.reported_tcb
              => Verdict(pair) = "ok"
         /\ w.level = 0 /\ OlderTcb(rep) = rep.reported_tcb
              => Verdict(pair) = "UNEXPECTED"
<1> DEFINE raw == rep.reported_tcb
           old == OlderTcb(rep)
           l == WithTcb(NewKeyRequest, raw)
           r == WithTcb(NewKeyRequest, old)
<1>1. pair = Pair("Different", w, l, r, TRUE)
  BY DEF RollbackResistance
<1>2. /\ l = Asked("Vcek", {TcbVersion}, 0, 0, raw)
      /\ r = Asked("Vcek", {TcbVersion}, 0, 0, old)
  BY ExampleRequests
<1>3. raw \in Bytes8 /\ old \in Bytes8 /\ CoveredBy(raw, w)
  OBVIOUS
<1>4. old = raw => r = l
  OBVIOUS
<1> HIDE DEF l, r, raw, old
<1>5. /\ Derived(l, w) = IF Granted(l, w) THEN {Mixed(l, w)} ELSE {}
      /\ l.vmpl = 0 /\ l.root = "Vcek" /\ l.fields = {TcbVersion} /\ l.tcb = raw
  BY <1>2, <1>3, AskedParts DEF Asked
<1>6. /\ Derived(r, w) = IF Granted(r, w) THEN {Mixed(r, w)} ELSE {}
      /\ r.vmpl = 0 /\ r.root = "Vcek" /\ r.fields = {TcbVersion} /\ r.tcb = old
  BY <1>2, <1>3, AskedParts DEF Asked
<1>7. /\ w.level = 0 <=> Granted(l, w)
      /\ w.level = 0 => (Granted(r, w) <=> CoveredBy(old, w))
  BY <1>3, <1>5, <1>6 DEF Granted, MAX_VMPL, GuestSvn, TcbVersion
<1>8. w.level # 0 => Verdict(pair) = "stopped"
  BY <1>1, <1>5, <1>7, VerdictOfDifferent
<1>9. ASSUME w.level = 0, ~CoveredBy(old, w)
      PROVE  Verdict(pair) = "refused"
  <2>1. Derived(l, w) # {} /\ Derived(r, w) = {}
    BY <1>5, <1>6, <1>7, <1>9
  <2> QED
    BY <1>1, <2>1, VerdictOfDifferent
<1>10. ASSUME w.level = 0, CoveredBy(old, w), old # raw
       PROVE  Verdict(pair) = "ok"
  <2>1. Mixed(l, w) # Mixed(r, w)
    BY <1>5, <1>6, <1>10, KeysDiffer
  <2>2. Derived(l, w) # {} /\ Derived(r, w) # {} /\ Derived(l, w) # Derived(r, w)
    BY <1>5, <1>6, <1>7, <1>10, <2>1
  <2> QED
    BY <1>1, <2>2, VerdictOfDifferent
<1>11. ASSUME w.level = 0, old = raw
       PROVE  Verdict(pair) = "UNEXPECTED"
  <2>1. Derived(l, w) # {} /\ Derived(r, w) = Derived(l, w)
    BY <1>4, <1>5, <1>7, <1>11
  <2> QED
    BY <1>1, <2>1, VerdictOfDifferent
<1> QED
  BY <1>8, <1>9, <1>10, <1>11 DEF raw, old

LEMMA BindingsRefused ==
  ASSUME NEW w \in World, w.svn \in 0 .. MAX_SVN, w.level \in Nat,
         NEW rep, rep.guest_svn = w.svn
  PROVE  /\ Derived(BeyondLevels, w) = {}
         /\ Derived(AboveLaunch(rep), w) # {} <=> w.level = 0 /\ rep.guest_svn = MAX_SVN
<1> DEFINE above == AboveLaunch(rep)
           svn   == IF rep.guest_svn = MAX_SVN THEN MAX_SVN ELSE rep.guest_svn + 1
<1>1. /\ BeyondLevels = Asked("Vcek", {}, MAX_VMPL + 1, 0, Zeros)
      /\ above = Asked("Vcek", {GuestSvn}, 0, svn, Zeros)
  BY ExampleRequests DEF BeyondLevels, AboveLaunch
<1> HIDE DEF above
<1>2. Derived(BeyondLevels, w) = {}
  <2>1. /\ Derived(BeyondLevels, w)
             = IF Granted(BeyondLevels, w) THEN {Mixed(BeyondLevels, w)} ELSE {}
        /\ BeyondLevels.vmpl = MAX_VMPL + 1
    BY <1>1, AskedParts, ZerosTyped DEF Asked
  <2>2. ~ Granted(BeyondLevels, w)
    BY <2>1 DEF Granted, MAX_VMPL
  <2> QED
    BY <2>1, <2>2
<1>3. Derived(above, w) # {} <=> w.level = 0 /\ rep.guest_svn = MAX_SVN
  <2>1. MAX_SVN \in Nat
    BY ReportAssumption
  <2>2. /\ Derived(above, w) = IF Granted(above, w) THEN {Mixed(above, w)} ELSE {}
        /\ above.vmpl = 0 /\ above.root = "Vcek" /\ above.fields = {GuestSvn}
        /\ above.svn = svn
    BY <1>1, AskedParts, ZerosTyped DEF Asked
  <2>3. svn <= w.svn <=> rep.guest_svn = MAX_SVN
    BY <2>1
  <2>4. Granted(above, w) <=> w.level = 0 /\ svn <= w.svn
    BY <2>2 DEF Granted, MAX_VMPL, GuestSvn, TcbVersion
  <2> QED
    BY <2>2, <2>3, <2>4
<1> QED
  BY <1>2, <1>3 DEF above

\* What the derivations of an example find, whatever update came in between.
LEMMA AfterReport ==
  ASSUME Sealing, report # None, NEW w \in Updated(world)
  PROVE  /\ world \in World /\ report = HardwareReport(world) /\ w \in World
         /\ w.svn \in 0 .. MAX_SVN /\ w.level \in Nat
         /\ report.reported_tcb = HardwareTcb(world) /\ report.guest_svn = w.svn
         /\ HardwareTcb(world) \in Bytes8
         /\ CoveredBy(report.reported_tcb, w)
<1>1. world \in World /\ report = HardwareReport(world)
  BY DEF Sealing, Taken
<1>2. /\ w \in World /\ w.svn = world.svn /\ w.svn \in 0 .. MAX_SVN /\ w.level \in Nat
      /\ CoveredBy(HardwareTcb(world), w)
  BY <1>1, UpdatedParts
<1>3. /\ report.reported_tcb = HardwareTcb(world) /\ report.guest_svn = w.svn
      /\ HardwareTcb(world) \in Bytes8
  BY <1>1, <1>2, HardwareTyped DEF HardwareReport
<1> QED
  BY <1>1, <1>2, <1>3

\* On every machine, with any firmware update between the report and the
\* derivations, the example programs find the keys as they expect, except those
\* of a migration root that the guest does not have, and are stopped at once
\* where the guest is not at the most privileged level; a level beyond the last
\* is refused, and an SVN above the launch exactly if there is a larger number.
THEOREM ExamplesAsPromised == Spec => []ExamplesHold
<1>1. Sealing => ExamplesHold
  <2> SUFFICES ASSUME Sealing, report # None, NEW w \in Updated(world)
               PROVE  /\ \A pair \in Pairs(report, w) : Expected(pair, w)
                      /\ \A pair \in RootKeyChoice(w) :
                           Verdict(pair) = IF w.level # 0 THEN "stopped"
                                           ELSE IF w.agent THEN "ok" ELSE "refused"
                      /\ Derived(BeyondLevels, w) = {}
                      /\ Derived(AboveLaunch(report), w) # {}
                           <=> w.level = 0 /\ report.guest_svn = MAX_SVN
    BY DEF ExamplesHold, Expected
  <2>1. /\ w \in World /\ w.svn \in 0 .. MAX_SVN /\ w.level \in Nat
        /\ report.reported_tcb \in Bytes8 /\ report.guest_svn = w.svn
        /\ CoveredBy(report.reported_tcb, w)
    BY AfterReport
  <2>2. ASSUME NEW pair \in Pairs(report, w)
        PROVE  Expected(pair, w)
    <3>1. \/ pair \in Determinism(w) \/ pair \in BindingSensitivity(w)
          \/ pair \in PrivilegeSeparation(w) \/ pair \in DeriveKeys(report, w)
      BY DEF Pairs
    <3> QED
      BY <3>1, <2>1, DeterminismHolds, BindingsHold, PrivilegeHolds, SealingKeysHold
  <2> QED
    BY <2>1, <2>2, RootsHold, BindingsRefused
<1> QED
  BY <1>1, SealingInvariant, PTL

\* Of the older TCB that rollback_resistance compares with, on every machine
\* and after any firmware update: its key exists and differs where the report
\* leaves an older one to name; it is the current TCB again, and its key the
\* same, where there is nothing to step down from; and it is refused where a
\* borrow makes its lowest number exceed the machine's.
THEOREM RollbackAsShown == Spec => []RollbackShown
<1>1. Sealing => RollbackShown
  <2> SUFFICES ASSUME Sealing, report # None, NEW w \in Updated(world),
                      NEW pair \in RollbackResistance(report, w)
               PROVE  /\ w.level # 0 => Verdict(pair) = "stopped"
                      /\ w.level = 0 /\ HasOlder(report) => Verdict(pair) = "ok"
                      /\ w.level = 0 /\ NothingOlder(report)
                           => Verdict(pair) = "UNEXPECTED"
                      /\ w.level = 0 /\ Borrows(report) =>
                           \/ Verdict(pair) = "refused"
                           \/ Verdict(pair) = "ok" /\ HardwareTcb(w)[1] = 255
    BY DEF RollbackShown
  <2>1. /\ world \in World /\ report = HardwareReport(world)
        /\ w \in World /\ w.level \in Nat
        /\ report.reported_tcb \in Bytes8 /\ CoveredBy(report.reported_tcb, w)
    BY AfterReport
  <2>2. OlderTcb(report) \in Bytes8
    BY <2>1, OlderTyped
  <2>3. /\ w.level # 0 => Verdict(pair) = "stopped"
        /\ w.level = 0 /\ ~CoveredBy(OlderTcb(report), w) => Verdict(pair) = "refused"
        /\ w.level = 0 /\ CoveredBy(OlderTcb(report), w)
             /\ OlderTcb(report) # report.reported_tcb => Verdict(pair) = "ok"
        /\ w.level = 0 /\ OlderTcb(report) = report.reported_tcb
             => Verdict(pair) = "UNEXPECTED"
    BY <2>1, <2>2, RollbackVerdict
  <2>4. ASSUME w.level = 0, HasOlder(report)
        PROVE  Verdict(pair) = "ok"
    <3>1. Older(OlderTcb(report), report.reported_tcb)
      BY <2>1, <2>4, OlderFound
    <3>2. CoveredBy(OlderTcb(report), w)
      BY <2>1, <3>1, OlderCovered
    <3>3. OlderTcb(report) # report.reported_tcb
      BY <3>1 DEF Older
    <3> QED
      BY <2>3, <2>4, <3>2, <3>3
  <2>5. ASSUME w.level = 0, NothingOlder(report)
        PROVE  Verdict(pair) = "UNEXPECTED"
    BY <2>1, <2>3, <2>5, NothingOlderFound
  <2>6. ASSUME w.level = 0, Borrows(report)
        PROVE  \/ Verdict(pair) = "refused"
               \/ Verdict(pair) = "ok" /\ HardwareTcb(w)[1] = 255
    <3>1. OlderTcb(report)[1] = 255 /\ OlderTcb(report) # report.reported_tcb
      BY <2>1, <2>6, BorrowFound
    <3>2. CASE CoveredBy(OlderTcb(report), w)
      <4>1. HardwareTcb(w) \in Bytes8
        BY <2>1, HardwareTyped
      <4>2. HardwareTcb(w)[1] \in Nat /\ HardwareTcb(w)[1] <= 255
        BY <4>1, BytesAreNumbers DEF Bytes8
      <4>3. OlderTcb(report)[1] <= HardwareTcb(w)[1]
        BY <3>2 DEF CoveredBy
      <4>4. HardwareTcb(w)[1] = 255
        BY <3>1, <4>2, <4>3
      <4>5. Verdict(pair) = "ok"
        BY <2>3, <2>6, <3>1, <3>2
      <4> QED
        BY <4>4, <4>5
    <3>3. CASE ~CoveredBy(OlderTcb(report), w)
      BY <2>3, <2>6, <3>3
    <3> QED
      BY <3>2, <3>3
  <2> QED
    BY <2>3, <2>4, <2>5, <2>6
<1> QED
  BY <1>1, SealingInvariant, PTL

-----------------------------------------------------------------------------
(***************************************************************************)
(* The other way round: numbers that are packed and taken apart again.     *)
(***************************************************************************)

\* The numbers of a TCB come back from its eight bytes for every product, be
\* they written on this platform or not: all of them where the layout and the
\* numbers agree on the FMC, and otherwise all but the FMC, which the legacy
\* layout drops and that of Turin makes a zero (TcbParts::encode, decode).
THEOREM PartsSurvive ==
  \A parts \in TcbParts, product \in Product :
    Decode(Encode(parts, product), product)
      = [parts EXCEPT !.fmc = IF TcbLayout(product) = "Legacy" THEN NoFmc
                              ELSE IF parts.fmc = NoFmc THEN 0 ELSE parts.fmc]
<1> SUFFICES ASSUME NEW parts \in TcbParts, NEW product \in Product
             PROVE  Decode(Encode(parts, product), product)
                      = [parts EXCEPT !.fmc =
                           IF TcbLayout(product) = "Legacy" THEN NoFmc
                           ELSE IF parts.fmc = NoFmc THEN 0 ELSE parts.fmc]
  OBVIOUS
<1>1. TcbLayout(product) \in {"Legacy", "Turin"}
  BY DEF TcbLayout, Product
<1>2. CASE TcbLayout(product) = "Legacy"
  BY <1>2 DEF Decode, Encode, TcbParts
<1>3. CASE TcbLayout(product) = "Turin"
  BY <1>3 DEF Decode, Encode, TcbParts
<1> QED
  BY <1>1, <1>2, <1>3

=============================================================================
