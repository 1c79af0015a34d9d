------------------------------- MODULE Report --------------------------------
(***************************************************************************)
(* The attestation report as its accessors read it.  One layout serves all *)
(* versions: what a version does not define is reserved, and reads as zero,*)
(* so the accessors of fields that came later answer only from the version *)
(* that brought them.                                                      *)
(*                                                                         *)
(* A report is a record of the raw fields that anything depends on.  Those *)
(* of the signature are little-endian bytes; a mitigation vector is its    *)
(* two 32-bit words.                                                       *)
(***************************************************************************)
EXTENDS Tcb, Policy

CONSTANTS
  None,          \* an Option::None
  MAX_SVN,       \* the largest u32, as a security version number
  FIELD_LEN,     \* bytes of a field that holds a number of the signature
  NUMBER_LEN     \* bytes of such a number

ASSUME ReportAssumption ==
  /\ MAX_SVN \in Nat
  /\ FIELD_LEN \in Nat /\ NUMBER_LEN \in 1 .. FIELD_LEN
  /\ None \notin Fms /\ None \notin TcbParts

MIN_VERSION == 2
MAX_VERSION == 16

ZeroFms == [family |-> 0, model |-> 0, stepping |-> 0]
ZeroMit == <<0, 0>>

AttestationReport ==
  [version : MIN_VERSION .. MAX_VERSION, guest_svn : 0 .. MAX_SVN, policy : U64,
   image_id : STRING, family_id : STRING, measurement : STRING,
   signature_algo : Nat, platform_info : U64, signer_info : U32,
   reported_tcb : Bytes8, cpuid : Fms, launch_mit : Nat \X Nat,
   r : [1 .. FIELD_LEN -> Byte], s : [1 .. FIELD_LEN -> Byte]]

-----------------------------------------------------------------------------
\* AttestationReport::parse accepts the version.
Parses(version) == version \in MIN_VERSION .. MAX_VERSION

CpuidFms(report) == IF report.version >= 3 THEN report.cpuid ELSE None

ProductOf(report) ==
  IF CpuidFms(report) = None THEN None ELSE ProductOfFms(CpuidFms(report))

ReportedTcbParts(report) ==
  IF ProductOf(report) = None THEN None
  ELSE Decode(report.reported_tcb, ProductOf(report))

\* Mutant of MitVector: read as soon as a report names its processor.
MitVectorEarly(report) == IF report.version >= 3 THEN report.launch_mit ELSE None

\* launch_mit_vector; current_mit_vector is gated alike.
MitVector(report) == IF report.version >= 5 THEN report.launch_mit ELSE None

\* to_be_48: the low bytes of a field, the most significant first.
ToBigEndian(field) == [i \in 1 .. NUMBER_LEN |-> field[NUMBER_LEN + 1 - i]]

EcdsaSignature(report) ==
  IF SignatureAlgo(report.signature_algo) = "EcdsaP384Sha384"
  THEN [r |-> ToBigEndian(report.r), s |-> ToBigEndian(report.s)]
  ELSE None

=============================================================================
