-------------------------------- MODULE Tcb ---------------------------------
(***************************************************************************)
(* Processor identification and TCB_VERSION decoding: which product a      *)
(* family, model and stepping name, which layout its TCB versions have,    *)
(* and how the security version numbers are packed into eight bytes.       *)
(*                                                                         *)
(* A u8 is a number below 256, a TCB_VERSION its sequence of little-endian *)
(* bytes, and CPUID(1).EAX a number below 2^32.                            *)
(***************************************************************************)
EXTENDS Naturals, Sequences

CONSTANT NoFmc   \* the fmc of a layout that has none

Byte == 0 .. 255
Bytes8 == [1 .. 8 -> Byte]

ASSUME NoFmcAssumption == NoFmc \notin Byte

-----------------------------------------------------------------------------
Fms == [family : Byte, model : Byte, stepping : Byte]

\* Bits low .. low + width - 1 of a number.
Bits(n, low, width) == (n \div 2^low) % 2^width

ToCpuid1Eax(fms) ==
  LET base == IF fms.family >= 15 THEN 15 ELSE fms.family
  IN  (fms.family - base) * 2^20 + Bits(fms.model, 4, 4) * 2^16 + base * 2^8
      + Bits(fms.model, 0, 4) * 2^4 + Bits(fms.stepping, 0, 4)

\* The extended family counts only on top of the largest base family, and the
\* sum wraps as a u8 does.
FromCpuid1Eax(eax) ==
  LET base == Bits(eax, 8, 4) IN
  [family   |-> IF base = 15 THEN (base + Bits(eax, 20, 8)) % 256 ELSE base,
   model    |-> Bits(eax, 16, 4) * 16 + Bits(eax, 4, 4),
   stepping |-> Bits(eax, 0, 4)]

-----------------------------------------------------------------------------
\* A product without a name keeps its family, model and stepping.
Product == [name : {"Milan", "Genoa", "Bergamo", "Turin", "Unknown"}, fms : Fms]

ProductOfFms(fms) ==
  LET name ==
    CASE fms.family = 25 /\ fms.model \in 0 .. 15    -> "Milan"
      [] fms.family = 25 /\ fms.model \in 16 .. 31   -> "Genoa"
      [] fms.family = 25 /\ fms.model \in 160 .. 175 -> "Bergamo"
      [] fms.family = 26                             -> "Turin"
      [] OTHER                                       -> "Unknown"
  IN  [name |-> name, fms |-> fms]

\* Mutant of TcbLayout: a product without a name has the legacy layout.
TcbLayoutNamed(product) == IF product.name = "Turin" THEN "Turin" ELSE "Legacy"

TcbLayout(product) ==
  CASE product.name \in {"Milan", "Genoa", "Bergamo"} -> "Legacy"
    [] product.name = "Turin"                         -> "Turin"
    [] product.name = "Unknown" ->
         IF product.fms.family >= 26 THEN "Turin" ELSE "Legacy"

-----------------------------------------------------------------------------
TcbParts == [fmc : Byte \cup {NoFmc}, bootloader : Byte, tee : Byte,
             snp : Byte, microcode : Byte]

Decode(raw, product) ==
  IF TcbLayout(product) = "Legacy"
  THEN [fmc |-> NoFmc, bootloader |-> raw[1], tee |-> raw[2],
        snp |-> raw[7], microcode |-> raw[8]]
  ELSE [fmc |-> raw[1], bootloader |-> raw[2], tee |-> raw[3],
        snp |-> raw[4], microcode |-> raw[8]]

\* Mutant of Encode: the legacy layout packs its numbers together.
EncodePacked(parts, product) ==
  IF TcbLayout(product) = "Legacy"
  THEN <<parts.bootloader, parts.tee, parts.snp, parts.microcode, 0, 0, 0, 0>>
  ELSE <<IF parts.fmc = NoFmc THEN 0 ELSE parts.fmc, parts.bootloader,
         parts.tee, parts.snp, 0, 0, 0, parts.microcode>>

\* An fmc the layout has no slot for is dropped, a missing one is zero.
Encode(parts, product) ==
  IF TcbLayout(product) = "Legacy"
  THEN <<parts.bootloader, parts.tee, 0, 0, 0, 0, parts.snp, parts.microcode>>
  ELSE <<IF parts.fmc = NoFmc THEN 0 ELSE parts.fmc, parts.bootloader,
         parts.tee, parts.snp, 0, 0, 0, parts.microcode>>

=============================================================================
