------------------------------- MODULE Policy --------------------------------
(***************************************************************************)
(* The bit fields of an attestation report: the guest policy, the platform *)
(* information and the signer information, with the accessors that name    *)
(* their bits and what is left without a name.                             *)
(*                                                                         *)
(* A raw value is the set of the bits that are set in it.                  *)
(***************************************************************************)
EXTENDS Naturals

U64 == SUBSET (0 .. 63)
U32 == SUBSET (0 .. 31)

\* Byte i of a little-endian value.
ByteAt(raw, i) == {bit \in 0 .. 7 : 8 * i + bit \in raw}

\* The accessors among these that answer true.
Flags(raw, flag) == {name \in DOMAIN flag : flag[name] \in raw}

-----------------------------------------------------------------------------
PolicyFlag ==
  [smt_allowed |-> 16, reserved_bit_set |-> 17, migrate_ma_allowed |-> 18,
   debug_allowed |-> 19, single_socket_required |-> 20, cxl_allowed |-> 21,
   mem_aes_256_xts_required |-> 22, rapl_disabled |-> 23,
   ciphertext_hiding_dram_required |-> 24, page_swap_disabled |-> 25]

\* Mutant of PolicyKnown, 0x07FF_FFFF: a bit nobody has a name for yet.
PolicyKnownAhead == 0 .. 26

\* 0x03FF_FFFF
PolicyKnown == 0 .. 25

\* All that the accessors of GuestPolicy say of a value.
GuestPolicy(raw) ==
  [abi_minor |-> ByteAt(raw, 0), abi_major |-> ByteAt(raw, 1),
   flags |-> Flags(raw, PolicyFlag), unknown_bits |-> raw \ PolicyKnown]

-----------------------------------------------------------------------------
PlatformFlag ==
  [smt_enabled |-> 0, tsme_enabled |-> 1, ecc_enabled |-> 2, rapl_disabled |-> 3,
   ciphertext_hiding_dram_enabled |-> 4, alias_check_complete |-> 5,
   tio_enabled |-> 7]

\* 0xBF
PlatformKnown == (0 .. 7) \ {6}

PlatformInfo(raw) ==
  [flags |-> Flags(raw, PlatformFlag), unknown_bits |-> raw \ PlatformKnown]

-----------------------------------------------------------------------------
\* Bits 4:2; a kind of key without a name keeps its number.
SigningKey(raw) ==
  LET key == {bit \in 0 .. 2 : bit + 2 \in raw} IN
  CASE key = {}        -> "Vcek"
    [] key = {0}       -> "Vlek"
    [] key = {0, 1, 2} -> "None"
    [] OTHER           -> "Unknown"

SignerInfo(raw) ==
  [author_key_enabled |-> 0 \in raw, chip_key_masked |-> 1 \in raw,
   signing_key |-> SigningKey(raw)]

SignatureAlgo(raw) ==
  CASE raw = 0 -> "None"
    [] raw = 1 -> "EcdsaP384Sha384"
    [] OTHER   -> "Unknown"

=============================================================================
