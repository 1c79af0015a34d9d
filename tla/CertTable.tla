------------------------------ MODULE CertTable -----------------------------
(***************************************************************************)
(* CertTable::parse: the loop that decodes the certificate table a host    *)
(* provides.  The blob is the host's and may hold anything.                *)
(*                                                                         *)
(* A blob is its length in bytes and, for each place an entry may start,   *)
(* the fields found there; the fields can be read only if all of the entry *)
(* lies within the blob.  A body is known by the bytes it covers.          *)
(***************************************************************************)
EXTENDS Integers, Sequences, FiniteSets

CONSTANTS
  ENTRY_SIZE,    \* bytes of a table entry
  BLOB_MAX,      \* the largest blob decoded
  MAX_ENTRIES,   \* the most entries decoded
  MaxLen,        \* bound: the longest blob a host provides
  Guid,          \* the GUIDs entries carry
  ZeroGuid,      \* the all-zero GUID
  Named,         \* the GUIDs that CertKind has a name for
  Unknown,       \* the kind of all others
  None,          \* an Option::None
  Place          \* the values of the offset and length fields, u32

ASSUME CertTableAssumption ==
  /\ ENTRY_SIZE \in Nat \ {0} /\ BLOB_MAX \in Nat /\ MAX_ENTRIES \in Nat
  /\ MaxLen \in Nat
  /\ ZeroGuid \in Guid /\ Named \subseteq Guid \ {ZeroGuid}
  /\ Unknown \notin Guid
  /\ Place \subseteq Nat

Entry == [guid : Guid, offset : Place, length : Place]

\* The entries a blob has room for, the first being entry 0.
Index == 0 .. (MaxLen \div ENTRY_SIZE) - 1

Error == {"TooShort", "OutOfBounds", "TooLarge"}

VARIABLES
  len,           \* the length of the blob
  table,         \* the fields at every place an entry may start
  cursor,        \* the byte the loop has come to
  certs,         \* the entries decoded so far
  outcome        \* "parsing", "ok" or the error returned

vars == <<len, table, cursor, certs, outcome>>

-----------------------------------------------------------------------------
\* bytes_at and u32_at find all fields of the entry at this byte.
Readable(at) == at + ENTRY_SIZE <= len

Terminates(entry) ==
  entry.guid = ZeroGuid /\ entry.offset = 0 /\ entry.length = 0

\* blob.get(start..end) succeeds: the body lies within the blob.
Within(entry) == entry.offset + entry.length <= len

Init ==
  /\ len \in 0 .. MaxLen
  /\ table \in [Index -> Entry]
  /\ cursor = 0
  /\ certs = <<>>
  /\ outcome = IF len = 0 THEN "ok"
               ELSE IF len > BLOB_MAX THEN "TooLarge" ELSE "parsing"

Return(how) == outcome' = how /\ UNCHANGED <<len, table, cursor, certs>>

\* Mutants of Full: one entry too many, and one too few.
FullAfterwards == Len(certs) > MAX_ENTRIES
FullEarly == Len(certs) + 1 >= MAX_ENTRIES

\* Checked before the entry is looked at, be it the terminator.
Full == Len(certs) >= MAX_ENTRIES

TooManyEntries ==
  /\ outcome = "parsing" /\ Full
  /\ Return("TooLarge")

RunsOff ==
  /\ outcome = "parsing" /\ ~Full
  /\ ~Readable(cursor)
  /\ Return("TooShort")

\* The entry the loop has come to, when there is one to look at.
Current == table[cursor \div ENTRY_SIZE]

Looking ==
  outcome = "parsing" /\ ~Full /\ Readable(cursor)

\* Mutant of Terminate: the GUID alone ends the table.
TerminateOnGuid == Looking /\ Current.guid = ZeroGuid /\ Return("ok")

Terminate == Looking /\ Terminates(Current) /\ Return("ok")

BodyOutside ==
  /\ Looking /\ ~Terminates(Current) /\ ~Within(Current)
  /\ Return("OutOfBounds")

\* Mutants of Decode: the loop moves by a byte too few; an entry with no body
\* is skipped before the loop moves on.
DecodeOverlapping ==
  /\ Looking /\ ~Terminates(Current) /\ Within(Current)
  /\ certs' = Append(certs, Current)
  /\ cursor' = cursor + ENTRY_SIZE - 1
  /\ UNCHANGED <<len, table, outcome>>

DecodeStuck ==
  /\ Looking /\ ~Terminates(Current) /\ Within(Current)
  /\ Current.length # 0
  /\ certs' = Append(certs, Current)
  /\ cursor' = cursor + ENTRY_SIZE
  /\ UNCHANGED <<len, table, outcome>>

Decode ==
  /\ Looking /\ ~Terminates(Current) /\ Within(Current)
  /\ certs' = Append(certs, Current)
  /\ cursor' = cursor + ENTRY_SIZE
  /\ UNCHANGED <<len, table, outcome>>

-----------------------------------------------------------------------------
(***************************************************************************)
(* The table that parse returned, and looking up in it.                    *)
(***************************************************************************)
Kind == Named \cup {Unknown}

\* from_guid: a kind is known by the GUID that names it.
FromGuid(guid) == IF guid \in Named THEN guid ELSE Unknown

\* Where the entries of a kind are among those decoded.
OfKind(kind) == {i \in 1 .. Len(certs) : FromGuid(certs[i].guid) = kind}

\* Mutant of Get: the last entry of the kind.
GetLast(kind) ==
  IF OfKind(kind) = {} THEN None
  ELSE certs[CHOOSE i \in OfKind(kind) : \A j \in OfKind(kind) : j <= i]

\* The first entry of the kind.
Get(kind) ==
  IF OfKind(kind) = {} THEN None
  ELSE certs[CHOOSE i \in OfKind(kind) : \A j \in OfKind(kind) : i <= j]

IsEmpty == certs = <<>>

Next == TooManyEntries \/ RunsOff \/ Terminate \/ BodyOutside \/ Decode

\* The loop runs on its own until it returns.
Spec == Init /\ [][Next]_vars /\ WF_vars(Next)

-----------------------------------------------------------------------------
(***************************************************************************)
(* Correctness, against what a blob declares, read off it at once.         *)
(***************************************************************************)

\* The blob declares a table of n entries: n entries with bodies inside the
\* blob, and then the terminator, all of it within the blob.
Declares(n) ==
  /\ n \in Index /\ Readable(n * ENTRY_SIZE) /\ Terminates(table[n])
  /\ \A i \in Index : i < n => ~Terminates(table[i]) /\ Within(table[i])

TypeOK ==
  /\ len \in 0 .. MaxLen
  /\ table \in [Index -> Entry]
  /\ certs \in Seq(Entry)
  /\ cursor = Len(certs) * ENTRY_SIZE
  /\ outcome \in {"parsing", "ok"} \cup Error

\* What is decoded is the declared table, in its order and whole: nothing is
\* skipped, added or taken from beyond the terminator, and an empty result
\* means an empty blob or a bare terminator.
Faithful ==
  outcome = "ok" =>
    \/ len = 0 /\ IsEmpty
    \/ /\ Declares(Len(certs))
       /\ \A i \in 1 .. Len(certs) : certs[i] = table[i - 1]

\* Where a table declares several entries of a kind a lookup returns the one
\* declared first, with all GUIDs without a name being one kind, the all-zero
\* one of an entry that is no terminator among them; the terminator is never
\* found, and nothing is where the kind was not declared.
FirstOfKind ==
  outcome = "ok" =>
    \A kind \in Kind :
      LET of == {i \in Index : \E n \in Index : Declares(n) /\ i < n
                                          /\ FromGuid(table[i].guid) = kind}
      IN  IF len = 0 \/ of = {}
          THEN Get(kind) = None
          ELSE \E first \in of : /\ \A i \in of : first <= i
                                 /\ Get(kind) = table[first]

\* A blob of no more than BLOB_MAX bytes that declares fewer entries than
\* MAX_ENTRIES is never refused.
Accepting ==
  outcome \in Error /\ len <= BLOB_MAX =>
    \A n \in Index : n < MAX_ENTRIES => ~Declares(n)

\* The bytes of the blob that a body covers.
Body(entry) == entry.offset .. entry.offset + entry.length - 1

\* to_vec: what each entry decoded holds is a copy of its own.
Copied == UNION {{i} \X Body(certs[i]) : i \in 1 .. Len(certs)}

\* However many entries share one body, the decoded bodies never exceed
\* MAX_ENTRIES times the blob.
DecodedBytes == Cardinality(Copied)
NoAmplification == DecodedBytes <= MAX_ENTRIES * len

\* Every blob is decided.
Decided == <>(outcome # "parsing")

\* The documentation of MAX_ENTRIES, "most entries a table may declare", and
\* of the error, "exceeds its limit": a table is refused for its entries only
\* when it declares more than MAX_ENTRIES.
LimitAsDocumented ==
  outcome = "TooLarge" /\ len <= BLOB_MAX => ~Declares(MAX_ENTRIES)

=============================================================================
