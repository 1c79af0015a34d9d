-------------------------- MODULE CertTableProofs ---------------------------
(***************************************************************************)
(* What CertTable guarantees of every blob, for any size of an entry, any  *)
(* limits and any offsets and lengths, with machine-checked proofs.        *)
(***************************************************************************)
EXTENDS CertTable, FiniteSetTheorems, TLAPS

-----------------------------------------------------------------------------
(***************************************************************************)
(* Places of entries.                                                      *)
(***************************************************************************)

\* Entries lie one behind the other, and the loop looks up the one it is at.
LEMMA Places ==
  ASSUME NEW k \in Nat
  PROVE  /\ k * ENTRY_SIZE \in Nat
         /\ (k + 1) * ENTRY_SIZE = k * ENTRY_SIZE + ENTRY_SIZE
         /\ (k * ENTRY_SIZE) \div ENTRY_SIZE = k
         /\ \A n \in Nat : k < n => k * ENTRY_SIZE + ENTRY_SIZE <= n * ENTRY_SIZE
<1> DEFINE E == ENTRY_SIZE
<1>1. E \in Nat \ {0}
  BY CertTableAssumption
<1> HIDE DEF E
<1>2. k * E \in Nat /\ (k + 1) * E = k * E + E /\ (k * E) \div E = k
  BY <1>1
<1>3. \A n \in Nat : k < n => k * E + E <= n * E
  BY <1>1
<1> QED
  BY <1>2, <1>3 DEF E

\* An entry that can be read is one of those the blob has room for.
LEMMA ReadableIndexed ==
  ASSUME TypeOK, NEW k \in Nat, Readable(k * ENTRY_SIZE)
  PROVE  k \in Index
<1> DEFINE E == ENTRY_SIZE
<1>1. /\ E \in Nat \ {0} /\ MaxLen \in Nat
      /\ len \in 0 .. MaxLen /\ k * E + E <= len
  BY CertTableAssumption DEF TypeOK, Readable
<1> HIDE DEF E
<1>2. k * E + E <= MaxLen
  BY <1>1
<1>3. k <= (MaxLen \div E) - 1
  BY <1>1, <1>2
<1> QED
  BY <1>3 DEF E, Index

-----------------------------------------------------------------------------
(***************************************************************************)
(* The inductive invariant: what the loop has come past is an entry with a *)
(* body inside the blob and was decoded as it stands, and what it returned *)
(* says what it has come to.                                               *)
(***************************************************************************)
Passed ==
  /\ Len(certs) <= MAX_ENTRIES
  /\ \A i \in Nat : i < Len(certs) =>
       /\ i \in Index /\ certs[i + 1] = table[i]
       /\ ~Terminates(table[i]) /\ Within(table[i])

\* The entry behind those decoded.
Reached == table[Len(certs)]

ComeTo ==
  /\ len = 0 => outcome = "ok"
  /\ len > BLOB_MAX => certs = <<>> /\ outcome = "TooLarge"
  /\ outcome = "ok" =>
       \/ len = 0 /\ certs = <<>>
       \/ ~Full /\ Readable(cursor) /\ Terminates(Reached)
  /\ outcome = "TooLarge" => len > BLOB_MAX \/ Full
  /\ outcome = "TooShort" => ~Readable(cursor)
  /\ outcome = "OutOfBounds" =>
       Readable(cursor) /\ ~Terminates(Reached) /\ ~Within(Reached)

\* Of the entries of a kind, one comes first.
Firsts ==
  \A kind \in Kind : OfKind(kind) # {} =>
    \E i \in OfKind(kind) : \A j \in OfKind(kind) : i <= j

Scanned == TypeOK /\ Passed /\ ComeTo /\ Firsts

LEMMA CurrentReached ==
  ASSUME TypeOK
  PROVE  Len(certs) \in Nat /\ Current = Reached
<1>1. Len(certs) \in Nat /\ cursor = Len(certs) * ENTRY_SIZE
  BY DEF TypeOK
<1>2. cursor \div ENTRY_SIZE = Len(certs)
  BY <1>1, Places
<1> QED
  BY <1>1, <1>2 DEF Current, Reached

LEMMA ScannedInit ==
  ASSUME Init
  PROVE  Scanned
<1>1. Len(certs) = 0 /\ certs \in Seq(Entry)
  BY DEF Init
<1>2. len \in Nat /\ MAX_ENTRIES \in Nat /\ BLOB_MAX \in Nat /\ ENTRY_SIZE \in Nat
  BY CertTableAssumption DEF Init
<1>3. TypeOK
  BY <1>1, <1>2 DEF Init, TypeOK, Error
<1>4. Passed
  BY <1>1, <1>2 DEF Passed
<1>5. ComeTo
  BY <1>2 DEF Init, ComeTo, Readable, Full
<1>6. Firsts
  BY <1>1 DEF Firsts, OfKind
<1> QED
  BY <1>3, <1>4, <1>5, <1>6 DEF Scanned

LEMMA ReturnScanned ==
  ASSUME Scanned, outcome = "parsing", NEW how \in {"ok"} \cup Error, Return(how),
         how = "ok" => ~Full /\ Readable(cursor) /\ Terminates(Reached),
         how = "TooLarge" => Full,
         how = "TooShort" => ~Readable(cursor),
         how = "OutOfBounds" =>
           Readable(cursor) /\ ~Terminates(Reached) /\ ~Within(Reached)
  PROVE  Scanned'
<1>1. TypeOK'
  BY DEF Scanned, TypeOK, Return
<1>2. Passed'
  BY DEF Scanned, Passed, Return, Terminates, Within
<1>3. ComeTo'
  BY DEF Scanned, ComeTo, Return, Readable, Reached, Terminates, Within, Full
<1>4. Firsts'
  BY DEF Scanned, Firsts, OfKind, Return
<1> QED
  BY <1>1, <1>2, <1>3, <1>4 DEF Scanned

LEMMA DecodeScanned ==
  ASSUME Scanned, Decode
  PROVE  Scanned'
<1> DEFINE k == Len(certs)
<1>1. /\ TypeOK /\ k \in Nat /\ Current = Reached /\ cursor = k * ENTRY_SIZE
      /\ certs \in Seq(Entry) /\ MAX_ENTRIES \in Nat
  BY CurrentReached, CertTableAssumption DEF Scanned, TypeOK
<1>2. k \in Index /\ table[k] \in Entry
  BY <1>1, ReadableIndexed DEF Decode, Looking, TypeOK
<1>3. /\ certs' = Append(certs, table[k]) /\ Len(certs') = k + 1
      /\ certs' \in Seq(Entry) /\ certs'[k + 1] = table[k]
      /\ \A i \in 1 .. k : certs'[i] = certs[i]
  BY <1>1, <1>2 DEF Decode, Reached
<1>4. TypeOK'
  BY <1>1, <1>3, Places DEF Decode, TypeOK
<1>5. Passed'
  <2>1. Len(certs') <= MAX_ENTRIES
    BY <1>1, <1>3 DEF Decode, Looking, Full
  <2>2. ASSUME NEW i \in Nat, i < k + 1
        PROVE  /\ i \in Index /\ certs'[i + 1] = table[i]
               /\ ~Terminates(table[i]) /\ Within(table[i])
    <3>1. CASE i < k
      BY <1>1, <1>3, <3>1 DEF Scanned, Passed
    <3>2. CASE i = k
      BY <1>1, <1>2, <1>3, <3>2 DEF Decode, Reached
    <3> QED
      BY <1>1, <2>2, <3>1, <3>2
  <2> QED
    BY <1>3, <2>1, <2>2 DEF Decode, Passed, Terminates, Within
<1>6. ComeTo'
  BY DEF Scanned, ComeTo, Decode, Looking
<1>7. Firsts'
  <2> SUFFICES ASSUME NEW kind \in Kind, OfKind(kind)' # {}
               PROVE  \E i \in OfKind(kind)' : \A j \in OfKind(kind)' : i <= j
    BY DEF Firsts
  <2>1. /\ OfKind(kind) \subseteq 1 .. k
        /\ OfKind(kind) \subseteq OfKind(kind)'
        /\ OfKind(kind)' \subseteq OfKind(kind) \cup {k + 1}
    BY <1>1, <1>3 DEF OfKind
  <2>2. CASE OfKind(kind) # {}
    <3>1. PICK i \in OfKind(kind) : \A j \in OfKind(kind) : i <= j
      BY <2>2 DEF Scanned, Firsts
    <3>2. \A j \in OfKind(kind)' : i <= j
      BY <1>1, <2>1, <3>1
    <3> QED
      BY <2>1, <3>2
  <2>3. CASE OfKind(kind) = {}
    BY <1>1, <2>1, <2>3
  <2> QED
    BY <2>2, <2>3
<1> QED
  BY <1>4, <1>5, <1>6, <1>7 DEF Scanned

LEMMA ScannedInvariant == Spec => []Scanned
<1>1. Init => Scanned
  BY ScannedInit
<1>2. Scanned /\ [Next]_vars => Scanned'
  <2> SUFFICES ASSUME Scanned, [Next]_vars
               PROVE  Scanned'
    OBVIOUS
  <2>1. CASE UNCHANGED vars
    BY <2>1 DEF vars, Scanned, TypeOK, Passed, ComeTo, Terminates, Within,
                Firsts, OfKind, Readable, Reached, Full
  <2>2. Current = Reached
    BY CurrentReached DEF Scanned
  <2>3. CASE TooManyEntries
    BY <2>3, ReturnScanned DEF TooManyEntries, Error
  <2>4. CASE RunsOff
    BY <2>4, ReturnScanned DEF RunsOff, Error
  <2>5. CASE Terminate
    BY <2>2, <2>5, ReturnScanned DEF Terminate, Looking
  <2>6. CASE BodyOutside
    BY <2>2, <2>6, ReturnScanned DEF BodyOutside, Looking, Error
  <2> QED
    BY <2>1, <2>3, <2>4, <2>5, <2>6, DecodeScanned DEF Next
<1> QED
  BY <1>1, <1>2, PTL DEF Spec

-----------------------------------------------------------------------------
(***************************************************************************)
(* What follows from it.                                                   *)
(***************************************************************************)

\* Every reachable state is well typed: the loop is always at the start of
\* an entry, the one behind those decoded.
THEOREM TypeCorrect == Spec => []TypeOK
<1>1. Scanned => TypeOK
  BY DEF Scanned
<1> QED
  BY <1>1, ScannedInvariant, PTL

\* What is decoded lies in the blob, even while parsing.
LEMMA DecodedWithin ==
  ASSUME Scanned, NEW i \in 1 .. Len(certs)
  PROVE  Within(certs[i])
<1>1. Len(certs) \in Nat
  BY DEF Scanned, TypeOK
<1>2. i - 1 \in Nat /\ i - 1 < Len(certs) /\ (i - 1) + 1 = i
  BY <1>1
<1>3. certs[i] = table[i - 1] /\ Within(table[i - 1])
  BY <1>2 DEF Scanned, Passed
<1> QED
  BY <1>3

\* However long the blob, and however many of its entries name one body, what
\* is decoded of it takes at most MAX_ENTRIES times its length: the copies are
\* of so many entries at most, each of bytes of the blob.
THEOREM MemoryBounded == Spec => []NoAmplification
<1>1. ASSUME Scanned
      PROVE  NoAmplification
  <2> DEFINE most == 1 .. MAX_ENTRIES
             bytes == 0 .. len - 1
  <2>1. len \in Nat /\ MAX_ENTRIES \in Nat /\ Len(certs) \in Nat
    BY <1>1, CertTableAssumption DEF Scanned, TypeOK
  <2>2. ASSUME NEW i \in 1 .. Len(certs)
        PROVE  i \in most /\ Body(certs[i]) \subseteq bytes
    <3>1. i \in most
      BY <1>1, <2>1 DEF Scanned, Passed
    <3>2. certs[i] \in Entry
      BY <1>1, <2>1 DEF Scanned, TypeOK
    <3>3. certs[i].offset \in Nat /\ certs[i].length \in Nat
      BY <3>2, CertTableAssumption DEF Entry
    <3>4. certs[i].offset + certs[i].length <= len
      BY <1>1, DecodedWithin DEF Within
    <3>5. Body(certs[i]) \subseteq bytes
      BY <2>1, <3>3, <3>4 DEF Body
    <3> QED
      BY <3>1, <3>5
  <2>3. Copied \subseteq most \X bytes
    BY <2>2 DEF Copied
  <2>4. /\ IsFiniteSet(most) /\ Cardinality(most) = MAX_ENTRIES
        /\ IsFiniteSet(bytes) /\ Cardinality(bytes) = len
    <3>1. IsFiniteSet(most) /\ Cardinality(most) = MAX_ENTRIES
      BY <2>1, FS_Interval
    <3>2. IsFiniteSet(bytes)
          /\ Cardinality(bytes) = IF 0 > len - 1 THEN 0 ELSE (len - 1) - 0 + 1
      BY <2>1, FS_Interval
    <3> QED
      BY <2>1, <3>1, <3>2
  <2> HIDE DEF most, bytes
  <2>5. /\ IsFiniteSet(most \X bytes)
        /\ Cardinality(most \X bytes) = MAX_ENTRIES * len
    BY <2>4, FS_Product
  <2>6. Cardinality(Copied) <= Cardinality(most \X bytes)
    BY <2>3, <2>5, FS_Subset
  <2> QED
    BY <2>5, <2>6 DEF NoAmplification, DecodedBytes
<1> QED
  BY <1>1, ScannedInvariant, PTL

\* Nothing is decoded from an empty blob.
LEMMA EmptyBlob ==
  ASSUME Scanned, outcome = "ok", len = 0
  PROVE  certs = <<>>
<1>1. cursor \in Nat /\ ENTRY_SIZE \in Nat \ {0}
  BY Places, CertTableAssumption DEF Scanned, TypeOK
<1>2. ~Readable(cursor)
  BY <1>1 DEF Readable
<1> QED
  BY <1>2 DEF Scanned, ComeTo

\* A table that parsed without an error from a blob that is not empty is the
\* declared one, and no other.
LEMMA DecodedDeclared ==
  ASSUME Scanned, outcome = "ok", len # 0
  PROVE  \A n \in Index : Declares(n) <=> n = Len(certs)
<1> DEFINE k == Len(certs)
<1>1. k \in Nat /\ Readable(k * ENTRY_SIZE) /\ Terminates(table[k])
  BY DEF Scanned, ComeTo, TypeOK, Reached
<1>2. k \in Index
  BY <1>1, ReadableIndexed DEF Scanned
<1>3. Index \subseteq Nat
  BY DEF Index
<1>4. Declares(k)
  BY <1>1, <1>2, <1>3 DEF Declares, Scanned, Passed
<1>5. ASSUME NEW n \in Index, Declares(n)
      PROVE  n = k
  <2>1. ~(n < k)
    BY <1>3, <1>5 DEF Declares, Scanned, Passed
  <2>2. ~(k < n)
    BY <1>1, <1>2, <1>5 DEF Declares
  <2> QED
    BY <1>1, <1>3, <2>1, <2>2
<1> QED
  BY <1>4, <1>5

\* What is decoded is the declared table, in its order and whole: the loop
\* skips nothing, adds nothing and stops at the terminator and nowhere else.
THEOREM DecodedFaithfully == Spec => []Faithful
<1>1. ASSUME Scanned, outcome = "ok"
      PROVE  \/ len = 0 /\ IsEmpty
             \/ /\ Declares(Len(certs))
                /\ \A i \in 1 .. Len(certs) : certs[i] = table[i - 1]
  <2>1. CASE len = 0
    BY <1>1, <2>1, EmptyBlob DEF IsEmpty
  <2>2. CASE len # 0
    <3>1. /\ Len(certs) \in Nat
          /\ Readable(Len(certs) * ENTRY_SIZE)
      BY <1>1, <2>2 DEF Scanned, ComeTo, TypeOK
    <3>2. Declares(Len(certs))
      BY <1>1, <2>2, <3>1, ReadableIndexed, DecodedDeclared DEF Scanned
    <3>3. ASSUME NEW i \in 1 .. Len(certs)
          PROVE  certs[i] = table[i - 1]
      <4>1. i - 1 \in Nat /\ i - 1 < Len(certs) /\ (i - 1) + 1 = i
        BY <3>1
      <4> QED
        BY <1>1, <4>1 DEF Scanned, Passed
    <3> QED
      BY <3>2, <3>3
  <2> QED
    BY <2>1, <2>2
<1>2. Scanned => Faithful
  BY <1>1 DEF Faithful
<1> QED
  BY <1>2, ScannedInvariant, PTL

\* A blob within BLOB_MAX that declares fewer entries than MAX_ENTRIES is
\* never refused: each error means that it declares no such table.
THEOREM DeclaredAccepted == Spec => []Accepting
<1>1. ASSUME Scanned, outcome \in Error, len <= BLOB_MAX,
             NEW n \in Index, n < MAX_ENTRIES, Declares(n)
      PROVE  FALSE
  <2> DEFINE k == Len(certs)
  <2>1. /\ n \in Nat /\ k \in Nat /\ MAX_ENTRIES \in Nat /\ BLOB_MAX \in Nat
        /\ len \in Nat /\ ENTRY_SIZE \in Nat /\ cursor = k * ENTRY_SIZE
    BY <1>1, CertTableAssumption DEF Index, Scanned, TypeOK
  <2>2. ~(n < k)
    BY <1>1, <2>1 DEF Declares, Scanned, Passed
  <2>3. CASE outcome = "TooLarge"
    BY <1>1, <2>1, <2>2, <2>3 DEF Scanned, ComeTo, Full
  <2>4. Readable(k * ENTRY_SIZE)
    <3>1. CASE k = n
      BY <1>1, <3>1 DEF Declares
    <3>2. CASE k < n
      <4>1. k * ENTRY_SIZE + ENTRY_SIZE <= n * ENTRY_SIZE
        BY <2>1, <3>2, Places
      <4>2. k * ENTRY_SIZE \in Nat /\ n * ENTRY_SIZE \in Nat
        BY <2>1, Places
      <4> QED
        BY <1>1, <2>1, <4>1, <4>2 DEF Declares, Readable
    <3> QED
      BY <2>1, <2>2, <3>1, <3>2
  <2>5. CASE outcome = "TooShort"
    BY <1>1, <2>1, <2>4, <2>5 DEF Scanned, ComeTo
  <2>6. CASE outcome = "OutOfBounds"
    <3>1. k \in Index
      BY <1>1, <2>1, <2>4, ReadableIndexed DEF Scanned
    <3>2. ~Terminates(table[k]) /\ ~Within(table[k])
      BY <1>1, <2>6 DEF Scanned, ComeTo, Reached
    <3> QED
      BY <1>1, <2>1, <2>2, <3>1, <3>2 DEF Declares
  <2> QED
    BY <1>1, <2>3, <2>5, <2>6 DEF Error
<1>2. Scanned => Accepting
  BY <1>1 DEF Accepting
<1> QED
  BY <1>2, ScannedInvariant, PTL

\* The limit as the code has it: a blob that declares a table, of fewer than
\* MAX_ENTRIES entries and within BLOB_MAX.
Acceptable ==
  len <= BLOB_MAX /\ \E n \in Index : n < MAX_ENTRIES /\ Declares(n)

\* Which blobs parse accepts, exactly: the empty one, and each that declares a
\* table of fewer than MAX_ENTRIES entries within BLOB_MAX.
AcceptsExactly ==
  outcome # "parsing" => (outcome = "ok" <=> len = 0 \/ Acceptable)

\* The verdict on a blob depends on what it declares and on nothing else: the
\* table of MAX_ENTRIES entries that the documentation allows is the only one
\* within the limits that is refused.
THEOREM AcceptedExactly == Spec => []AcceptsExactly
<1>1. ASSUME Scanned, Accepting, outcome # "parsing"
      PROVE  outcome = "ok" <=> len = 0 \/ Acceptable
  <2>1. /\ Len(certs) \in Nat /\ MAX_ENTRIES \in Nat /\ BLOB_MAX \in Nat
        /\ len \in Nat /\ outcome \in {"ok"} \cup Error
    BY <1>1, CertTableAssumption DEF Scanned, TypeOK
  <2>2. ASSUME outcome = "ok", len # 0
        PROVE  Acceptable
    <3>1. /\ Len(certs) < MAX_ENTRIES /\ Readable(Len(certs) * ENTRY_SIZE)
      BY <1>1, <2>1, <2>2 DEF Scanned, ComeTo, TypeOK, Full
    <3>2. Len(certs) \in Index /\ Declares(Len(certs))
      BY <1>1, <2>1, <2>2, <3>1, ReadableIndexed, DecodedDeclared DEF Scanned
    <3>3. len <= BLOB_MAX
      BY <1>1, <2>1, <2>2 DEF Scanned, ComeTo
    <3> QED
      BY <3>1, <3>2, <3>3 DEF Acceptable
  <2>3. ASSUME outcome \in Error, Acceptable
        PROVE  FALSE
    BY <1>1, <2>3 DEF Acceptable, Accepting
  <2>4. ASSUME outcome \in Error, len = 0
        PROVE  FALSE
    BY <1>1, <2>4 DEF Scanned, ComeTo, Error
  <2> QED
    BY <2>1, <2>2, <2>3, <2>4 DEF Error
<1>2. Scanned /\ Accepting => AcceptsExactly
  BY <1>1 DEF AcceptsExactly
<1> QED
  BY <1>2, ScannedInvariant, DeclaredAccepted, PTL

\* A lookup finds the entry of its kind that the blob declares first, and
\* nothing where it declares none.
THEOREM FirstFound == Spec => []FirstOfKind
<1>1. ASSUME Scanned, outcome = "ok", NEW kind \in Kind
      PROVE  LET of == {i \in Index : \E n \in Index : Declares(n) /\ i < n
                                          /\ FromGuid(table[i].guid) = kind}
             IN  IF len = 0 \/ of = {}
                 THEN Get(kind) = None
                 ELSE \E first \in of : /\ \A i \in of : first <= i
                                       /\ Get(kind) = table[first]
  <2> DEFINE of == {i \in Index : \E n \in Index : Declares(n) /\ i < n
                                       /\ FromGuid(table[i].guid) = kind}
             k == Len(certs)
  <2>1. k \in Nat /\ Index \subseteq Nat
    BY <1>1 DEF Scanned, TypeOK, Index
  <2>2. CASE len = 0
    <3>1. OfKind(kind) = {}
      BY <1>1, <2>2, EmptyBlob DEF OfKind
    <3> QED
      BY <2>2, <3>1 DEF Get
  <2>3. CASE len # 0
    <3>1. k \in Index /\ \A n \in Index : Declares(n) <=> n = k
      <4>1. Readable(k * ENTRY_SIZE)
        BY <1>1, <2>3 DEF Scanned, ComeTo, TypeOK
      <4> QED
        BY <1>1, <2>1, <2>3, <4>1, ReadableIndexed, DecodedDeclared DEF Scanned
    <3>2. of = {i \in Index : i < k /\ FromGuid(table[i].guid) = kind}
      BY <3>1
    <3>3. \A i \in Nat : i < k => i \in Index /\ certs[i + 1] = table[i]
      BY <1>1 DEF Scanned, Passed
    <3>4. \A i \in of : i + 1 \in OfKind(kind)
      BY <2>1, <3>2, <3>3 DEF OfKind
    <3>5. \A j \in OfKind(kind) : j - 1 \in of /\ certs[j] = table[j - 1]
      <4>1. ASSUME NEW j \in OfKind(kind)
            PROVE  j - 1 \in of /\ certs[j] = table[j - 1]
        <5>1. /\ j \in 1 .. k /\ FromGuid(certs[j].guid) = kind
              /\ j - 1 \in Nat /\ j - 1 < k /\ (j - 1) + 1 = j
          BY <2>1, <4>1 DEF OfKind
        <5>2. j - 1 \in Index /\ certs[j] = table[j - 1]
          BY <3>3, <5>1
        <5> QED
          BY <3>2, <5>1, <5>2
      <4> QED
        BY <4>1
    <3> HIDE DEF of
    <3>6. CASE of = {}
      BY <3>5, <3>6 DEF Get, of
    <3>7. CASE of # {}
      <4>1. OfKind(kind) # {} /\ OfKind(kind) \subseteq 1 .. k
        BY <3>4, <3>7 DEF OfKind
      <4> DEFINE at == CHOOSE i \in OfKind(kind) : \A j \in OfKind(kind) : i <= j
      <4>2. at \in OfKind(kind) /\ \A j \in OfKind(kind) : at <= j
        BY <1>1, <4>1 DEF Scanned, Firsts
      <4>3. Get(kind) = certs[at]
        BY <4>1 DEF Get
      <4> HIDE DEF at
      <4>4. at - 1 \in of /\ Get(kind) = table[at - 1]
        BY <3>5, <4>2, <4>3
      <4>5. ASSUME NEW i \in of
            PROVE  at - 1 <= i
        <5>1. at <= i + 1 /\ i \in Nat /\ at \in Nat
          BY <2>1, <3>4, <4>1, <4>2, <4>5 DEF of
        <5> QED
          BY <5>1
      <4> QED
        BY <2>3, <3>7, <4>4, <4>5 DEF of
    <3> QED
      BY <2>3, <3>6, <3>7 DEF of
  <2> QED
    BY <2>2, <2>3
<1>2. Scanned => FirstOfKind
  BY <1>1 DEF FirstOfKind
<1> QED
  BY <1>2, ScannedInvariant, PTL

=============================================================================
