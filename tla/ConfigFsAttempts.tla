-------------------------- MODULE ConfigFsAttempts --------------------------
(***************************************************************************)
(* How often the configfs-TSM transport may try: proof that AttemptsBounded *)
(* holds for every number of threads, calls, restarts and delays, that no   *)
(* attempt is repeated once its answer was judged, that no live attempt is  *)
(* in the way of another, and that every step of a call brings it closer to *)
(* its return.                                                              *)
(***************************************************************************)
EXTENDS ConfigFsProofs, FiniteSetTheorems

\* The threads of a process that are in a call.
Busy(p) == {t \in Thread : ProcOf[t] = p /\ pc[t] # "idle"}

\* The directory names a call may still take: one per delay it has left, and
\* one for the attempt it is about to make.
Owed(t) == backoff[t] + (IF pc[t] = "number" THEN 1 ELSE 0)

\* Every call has one ticket per name it may take.
Tickets(p) == (1 .. calls[p]) \X (0 .. Retries)

\* The names taken since the process started used up a ticket each, of the
\* call nth[t] that took it.  The calls in flight are different ones, and each
\* holds as many unused tickets as it may still take names.
Accounts(p, used, nth) ==
  /\ Cardinality(used) = counter[p]
  /\ \A t \in Busy(p) :
       /\ Owed(t) <= Retries + 1
       /\ \A k \in 0 .. Retries : k < Owed(t) => <<nth[t], k>> \notin used
  /\ \A t, u \in Busy(p) : nth[t] = nth[u] => t = u

Accounted ==
  \A p \in Proc :
    \E used \in SUBSET Tickets(p), nth \in [Busy(p) -> 1 .. calls[p]] :
      Accounts(p, used, nth)

-----------------------------------------------------------------------------
LEMMA CountTypes ==
  ASSUME TypeOK, NEW p \in Proc
  PROVE  /\ calls[p] \in Nat /\ counter[p] \in Nat /\ Retries \in Nat
         /\ \A t \in Thread : backoff[t] \in Nat /\ Owed(t) \in Nat
  BY ConfigFsAssumption DEF TypeOK, Owed

\* There are Retries + 1 tickets for every call.
LEMMA TicketsCounted ==
  ASSUME TypeOK, NEW p \in Proc
  PROVE  /\ IsFiniteSet(Tickets(p))
         /\ Cardinality(Tickets(p)) = calls[p] * (Retries + 1)
<1> DEFINE numbers == 1 .. calls[p]
           delays  == 0 .. Retries
<1>1. calls[p] \in Nat /\ Retries \in Nat
  BY CountTypes
<1>2. IsFiniteSet(numbers) /\ Cardinality(numbers) = calls[p]
  <2>1. 1 \in Int /\ calls[p] \in Int
    BY <1>1
  <2>2. /\ IsFiniteSet(numbers)
        /\ Cardinality(numbers) = IF 1 > calls[p] THEN 0 ELSE calls[p] - 1 + 1
    BY <2>1, FS_Interval
  <2> QED
    BY <1>1, <2>2
<1>3. IsFiniteSet(delays) /\ Cardinality(delays) = Retries + 1
  <2>1. 0 \in Int /\ Retries \in Int
    BY <1>1
  <2>2. /\ IsFiniteSet(delays)
        /\ Cardinality(delays) = IF 0 > Retries THEN 0 ELSE Retries - 0 + 1
    BY <2>1, FS_Interval
  <2> QED
    BY <1>1, <2>2
<1>4. Tickets(p) = numbers \X delays
  BY DEF Tickets
<1> HIDE DEF numbers, delays
<1>5. /\ IsFiniteSet(numbers \X delays)
      /\ Cardinality(numbers \X delays) = Cardinality(numbers) * Cardinality(delays)
  BY <1>2, <1>3, FS_Product
<1> QED
  BY <1>2, <1>3, <1>4, <1>5

\* No process takes more names than its calls have tickets.
LEMMA AccountedBounded ==
  ASSUME TypeOK, Accounted
  PROVE  AttemptsBounded
<1> SUFFICES ASSUME NEW p \in Proc
             PROVE  counter[p] <= (Retries + 1) * calls[p]
  BY DEF AttemptsBounded
<1>1. PICK used \in SUBSET Tickets(p) : Cardinality(used) = counter[p]
  BY DEF Accounted, Accounts
<1>2. Cardinality(used) <= Cardinality(Tickets(p))
  BY TicketsCounted, FS_Subset
<1>3. calls[p] * (Retries + 1) = (Retries + 1) * calls[p]
  BY CountTypes
<1> QED
  BY <1>1, <1>2, <1>3, TicketsCounted

-----------------------------------------------------------------------------
(***************************************************************************)
(* Steps that keep the accounts of a process.                              *)
(***************************************************************************)

\* No name is taken and no call begun: the threads of the process go on with
\* no more to spend, or return.
LEMMA NothingSpent ==
  ASSUME TypeOK, TypeOK', Accounted, NEW p \in Proc,
         calls'[p] = calls[p], counter'[p] = counter[p],
         \A t \in Thread :
           ProcOf[t] = p /\ pc'[t] # "idle" =>
             pc[t] # "idle" /\ Owed(t)' <= Owed(t)
  PROVE  \E used \in SUBSET Tickets(p)', nth \in [Busy(p)' -> 1 .. calls'[p]] :
           Accounts(p, used, nth)'
<1>1. PICK used \in SUBSET Tickets(p), nth \in [Busy(p) -> 1 .. calls[p]] :
        Accounts(p, used, nth)
  BY DEF Accounted
<1>2. Busy(p)' \subseteq Busy(p) /\ \A t \in Busy(p)' : Owed(t)' <= Owed(t)
  BY DEF Busy
<1>3. PICK nth2 \in [Busy(p)' -> 1 .. calls'[p]] : \A t \in Busy(p)' : nth2[t] = nth[t]
  <2>1. [t \in Busy(p)' |-> nth[t]] \in [Busy(p)' -> 1 .. calls'[p]]
    BY <1>2
  <2> QED
    BY <2>1
<1>4. Retries \in Nat /\ \A t \in Busy(p)' : Owed(t) \in Nat /\ Owed(t)' \in Nat
  BY CountTypes, ConfigFsAssumption DEF Busy, TypeOK, Owed
<1>5. Cardinality(used) = counter'[p]
  BY <1>1 DEF Accounts
<1>6. \A t \in Busy(p)' :
        /\ Owed(t)' <= Retries + 1
        /\ \A k \in 0 .. Retries : k < Owed(t)' => <<nth2[t], k>> \notin used
  <2> SUFFICES ASSUME NEW t \in Busy(p)'
               PROVE  /\ Owed(t)' <= Retries + 1
                      /\ \A k \in 0 .. Retries :
                           k < Owed(t)' => <<nth2[t], k>> \notin used
    OBVIOUS
  <2>1. /\ Owed(t) <= Retries + 1
        /\ \A k \in 0 .. Retries : k < Owed(t) => <<nth[t], k>> \notin used
    BY <1>1, <1>2 DEF Accounts
  <2>2. nth2[t] = nth[t]
    BY <1>3
  <2>3. \A k \in 0 .. Retries : k < Owed(t)' => k < Owed(t)
    BY <1>2, <1>4
  <2> QED
    BY <1>2, <1>4, <2>1, <2>2, <2>3
<1>7. \A t, u \in Busy(p)' : nth2[t] = nth2[u] => t = u
  BY <1>1, <1>2, <1>3 DEF Accounts
<1>8. Accounts(p, used, nth2)'
  BY <1>5, <1>6, <1>7 DEF Accounts
<1>9. used \in SUBSET Tickets(p)'
  BY DEF Tickets
<1> QED
  BY <1>3, <1>8, <1>9

\* A thread takes a name: it uses up the ticket of the delays it has left.
LEMMA NameSpent ==
  ASSUME TypeOK, TypeOK', Accounted, NEW t \in Thread, TakeNumber(t)
  PROVE  \E used \in SUBSET Tickets(ProcOf[t])',
            nth \in [Busy(ProcOf[t])' -> 1 .. calls'[ProcOf[t]]] :
           Accounts(ProcOf[t], used, nth)'
<1> DEFINE p == ProcOf[t]
<1>0. p \in Proc
  BY ProcType
<1>1. PICK used \in SUBSET Tickets(p), nth \in [Busy(p) -> 1 .. calls[p]] :
        Accounts(p, used, nth)
  BY <1>0 DEF Accounted
<1> DEFINE ticket == <<nth[t], backoff[t]>>
<1>2. /\ pc[t] = "number" /\ pc'[t] = "mkdir"
      /\ \A u \in Thread \ {t} : pc'[u] = pc[u]
      /\ backoff' = backoff /\ calls' = calls
      /\ counter'[p] = counter[p] + 1
  BY <1>0 DEF TakeNumber, Goto, TypeOK
<1>3. Busy(p)' = Busy(p) /\ t \in Busy(p) /\ Tickets(p)' = Tickets(p)
  BY <1>2 DEF Busy, Tickets
<1>4. /\ Retries \in Nat /\ backoff[t] \in Nat
      /\ Owed(t) = backoff[t] + 1 /\ Owed(t)' = backoff[t]
      /\ \A u \in Thread \ {t} : Owed(u)' = Owed(u)
  BY <1>0, <1>2, CountTypes DEF Owed
<1>5. backoff[t] \in 0 .. Retries /\ ticket \notin used
  <2>1. /\ Owed(t) <= Retries + 1
        /\ \A k \in 0 .. Retries : k < Owed(t) => <<nth[t], k>> \notin used
    BY <1>1, <1>3 DEF Accounts
  <2>2. backoff[t] \in 0 .. Retries /\ backoff[t] < Owed(t)
    BY <1>4, <2>1
  <2> QED
    BY <2>1, <2>2
<1>6. PICK used2 \in SUBSET Tickets(p)' : used2 = used \cup {ticket}
  <2>1. used \cup {ticket} \in SUBSET Tickets(p)'
    BY <1>3, <1>5 DEF Tickets
  <2> QED
    BY <2>1
<1>7. Cardinality(used2) = counter'[p]
  <2>1. IsFiniteSet(used)
    BY <1>0, TicketsCounted, FS_Subset
  <2>2. Cardinality(used2) = Cardinality(used) + 1
    BY <1>5, <1>6, <2>1, FS_AddElement
  <2> QED
    BY <1>1, <1>2, <2>2 DEF Accounts
<1>8. ASSUME NEW u \in Busy(p)'
      PROVE  /\ Owed(u)' <= Retries + 1
             /\ \A k \in 0 .. Retries : k < Owed(u)' => <<nth[u], k>> \notin used2
  <2>1. /\ Owed(u) <= Retries + 1
        /\ \A k \in 0 .. Retries : k < Owed(u) => <<nth[u], k>> \notin used
    BY <1>1, <1>3 DEF Accounts
  <2>2. CASE u = t
    <3>1. \A k \in 0 .. Retries : k < Owed(t)' => k < Owed(t) /\ k # backoff[t]
      BY <1>4
    <3> QED
      BY <1>4, <1>6, <2>1, <2>2, <3>1
  <2>3. CASE u # t
    <3>1. nth[u] # nth[t] /\ Owed(u)' = Owed(u)
      BY <1>1, <1>3, <1>4, <2>3 DEF Accounts, Busy
    <3> QED
      BY <1>6, <2>1, <3>1
  <2> QED
    BY <2>2, <2>3
<1>9. \A u, v \in Busy(p)' : nth[u] = nth[v] => u = v
  BY <1>1, <1>3 DEF Accounts
<1>10. Accounts(p, used2, nth)'
  BY <1>7, <1>8, <1>9 DEF Accounts
<1> QED
  BY <1>2, <1>3, <1>6, <1>10

\* A call begins: it is one more than all those before it, so that nobody has
\* used a ticket of it yet.
LEMMA CallBegun ==
  ASSUME TypeOK, TypeOK', Accounted, NEW t \in Thread, pc[t] = "idle",
         \A u \in Thread \ {t} : pc'[u] = pc[u] /\ backoff'[u] = backoff[u],
         calls'[ProcOf[t]] = calls[ProcOf[t]] + 1, counter' = counter,
         Owed(t)' <= Retries + 1
  PROVE  \E used \in SUBSET Tickets(ProcOf[t])',
            nth \in [Busy(ProcOf[t])' -> 1 .. calls'[ProcOf[t]]] :
           Accounts(ProcOf[t], used, nth)'
<1> DEFINE p == ProcOf[t]
<1>0. p \in Proc
  BY ProcType
<1>1. PICK used \in SUBSET Tickets(p), nth \in [Busy(p) -> 1 .. calls[p]] :
        Accounts(p, used, nth)
  BY <1>0 DEF Accounted
<1> DEFINE latest == calls[p] + 1
<1>2. calls[p] \in Nat /\ Retries \in Nat
  BY <1>0, CountTypes
<1>3. Busy(p)' \ {t} \subseteq Busy(p) /\ t \notin Busy(p)
  BY DEF Busy
<1>4. PICK nth2 \in [Busy(p)' -> 1 .. calls'[p]] :
        \A u \in Busy(p)' : nth2[u] = IF u = t THEN latest ELSE nth[u]
  <2>1. 1 .. calls[p] \subseteq 1 .. calls'[p] /\ latest \in 1 .. calls'[p]
    BY <1>2
  <2>2. [u \in Busy(p)' |-> IF u = t THEN latest ELSE nth[u]]
          \in [Busy(p)' -> 1 .. calls'[p]]
    BY <1>3, <2>1
  <2> QED
    BY <2>2
<1>5. used \in SUBSET Tickets(p)'
  BY <1>2 DEF Tickets
<1>6. \A u \in Busy(p) : nth[u] # latest
  BY <1>2
<1>7. \A k : <<latest, k>> \notin used
  BY <1>2 DEF Tickets
<1>8. ASSUME NEW u \in Busy(p)'
      PROVE  /\ Owed(u)' <= Retries + 1
             /\ \A k \in 0 .. Retries : k < Owed(u)' => <<nth2[u], k>> \notin used
  <2>1. CASE u = t
    BY <1>4, <1>7, <2>1
  <2>2. CASE u # t
    <3>1. u \in Busy(p) /\ Owed(u)' = Owed(u) /\ nth2[u] = nth[u]
      BY <1>3, <1>4, <2>2 DEF Busy, Owed
    <3> QED
      BY <1>1, <3>1 DEF Accounts
  <2> QED
    BY <2>1, <2>2
<1>9. \A u, v \in Busy(p)' : nth2[u] = nth2[v] => u = v
  BY <1>1, <1>3, <1>4, <1>6 DEF Accounts
<1>10. Cardinality(used) = counter'[p]
  BY <1>1 DEF Accounts
<1>11. Accounts(p, used, nth2)'
  BY <1>8, <1>9, <1>10 DEF Accounts
<1> QED
  BY <1>4, <1>5, <1>11

\* A process dies: it starts to count names again, and is in no call.
LEMMA ProcessDied ==
  ASSUME TypeOK', NEW p \in Proc, counter'[p] = 0, Busy(p)' = {}
  PROVE  \E used \in SUBSET Tickets(p)', nth \in [Busy(p)' -> 1 .. calls'[p]] :
           Accounts(p, used, nth)'
<1>1. {} \in SUBSET Tickets(p)' /\ Cardinality({}) = 0
  BY FS_EmptySet
<1>2. PICK nth : nth \in [Busy(p)' -> 1 .. calls'[p]]
  <2>1. [u \in Busy(p)' |-> 1] \in [Busy(p)' -> 1 .. calls'[p]]
    OBVIOUS
  <2> QED
    BY <2>1
<1>3. Accounts(p, {}, nth)'
  BY <1>1 DEF Accounts
<1> QED
  BY <1>1, <1>2, <1>3

-----------------------------------------------------------------------------
(***************************************************************************)
(* The accounts balance after every step.                                  *)
(***************************************************************************)

\* What the steps of a call do that take no name: nobody else is affected,
\* and another attempt costs the delay that was slept before it.
LEMMA ContinueSpends ==
  ASSUME TypeOK, NEW t \in Thread, Continue(t), ~TakeNumber(t)
  PROVE  /\ calls' = calls /\ counter' = counter
         /\ \A u \in Thread \ {t} : pc'[u] = pc[u] /\ backoff'[u] = backoff[u]
         /\ pc[t] # "idle"
         /\ pc'[t] # "idle" => Owed(t)' <= Owed(t)
<1> DEFINE Spends ==
      /\ calls' = calls /\ counter' = counter
      /\ \A u \in Thread \ {t} : pc'[u] = pc[u] /\ backoff'[u] = backoff[u]
      /\ pc[t] # "idle"
      /\ pc'[t] # "idle" => Owed(t)' <= Owed(t)
<1>1. ASSUME backoff' = backoff, UNCHANGED <<calls, counter>>, pc[t] # "idle",
             NEW label \in Label \ {"number"}, pc' = [pc EXCEPT ![t] = label]
      PROVE  Spends
  BY <1>1 DEF TypeOK, Owed
<1>2. ASSUME NEW res, Settle(t, res), UNCHANGED <<calls, counter>>,
             pc[t] \in {"mkdir", "rmdir"}
      PROVE  Spends
  BY <1>2 DEF TypeOK, Owed, Settle, Return, Goto
<1>3. CASE MakeDirFails(t)
  BY <1>2, <1>3 DEF MakeDirFails, proc
<1>4. CASE RemoveDir(t) \/ RemoveDirFails(t)
  BY <1>2, <1>4 DEF RemoveDir, RemoveDirFails, Finish
<1>5. CASE MakeDir(t)
  BY <1>1, <1>5 DEF MakeDir, Goto, FirstAccess, Label, Holding, proc
<1>6. CASE ReadAttr(t)
  BY <1>1, <1>6 DEF ReadAttr, Goto, Label, Holding, proc
<1>7. CASE ReadFloorFails(t) \/ SystemCallFails(t)
  BY <1>1, <1>7
  DEF ReadFloorFails, SystemCallFails, FailWith, Goto, Label, Holding, proc
<1>8. CASE WritePrivlevel(t) \/ WriteInblob(t)
  BY <1>1, <1>8
  DEF WritePrivlevel, WriteInblob, WriteAttr, Goto, Label, Holding, proc
<1>9. CASE ReadOutblob(t) \/ ReadAuxblob(t)
  BY <1>1, <1>9 DEF ReadOutblob, ReadAuxblob, Goto, Label, Holding, proc
<1>10. CASE ReadAuxblobFails(t) \/ ReadGeneration(t)
  BY <1>1, <1>10 DEF ReadAuxblobFails, ReadGeneration, Goto, Label, Holding, proc
<1> QED
  BY <1>3, <1>4, <1>5, <1>6, <1>7, <1>8, <1>9, <1>10 DEF Continue

\* A call starts with all of its delays, or without any, or is over at once.
LEMMA StartSpends ==
  ASSUME TypeOK, NEW t \in Thread, Start(t)
  PROVE  /\ pc[t] = "idle" /\ counter' = counter
         /\ \A p \in Proc \ {ProcOf[t]} : calls'[p] = calls[p]
         /\ calls'[ProcOf[t]] = calls[ProcOf[t]] + 1
         /\ \A u \in Thread \ {t} : pc'[u] = pc[u] /\ backoff'[u] = backoff[u]
         /\ Owed(t)' <= Retries + 1
<1>1. PICK delays \in {0, Retries} : \E op, request : Begin(t, op, request, delays)
  BY DEF Start
<1>2. Retries \in Nat /\ ProcOf[t] \in Proc
  BY ConfigFsAssumption
<1>3. /\ pc[t] = "idle" /\ counter' = counter
      /\ calls' = [calls EXCEPT ![ProcOf[t]] = @ + 1]
  BY <1>1 DEF Begin
<1>4. \/ pc' = [pc EXCEPT ![t] = "idle"] /\ backoff' = [backoff EXCEPT ![t] = 0]
      \/ pc' = [pc EXCEPT ![t] = "number"] /\ backoff' = [backoff EXCEPT ![t] = delays]
  BY <1>1 DEF Begin, Return, Goto
<1>5. Owed(t)' <= Retries + 1
  BY <1>2, <1>4 DEF TypeOK, Owed
<1> QED
  BY <1>2, <1>3, <1>4, <1>5 DEF TypeOK

LEMMA AccountedStep ==
  ASSUME TypeOK, TypeOK', Accounted, [Next]_vars
  PROVE  Accounted'
<1> SUFFICES ASSUME NEW p \in Proc
             PROVE  \E used \in SUBSET Tickets(p)',
                       nth \in [Busy(p)' -> 1 .. calls'[p]] :
                      Accounts(p, used, nth)'
  BY DEF Accounted
<1> DEFINE Kept ==
      /\ calls'[p] = calls[p] /\ counter'[p] = counter[p]
      /\ \A t \in Thread :
           ProcOf[t] = p /\ pc'[t] # "idle" => pc[t] # "idle" /\ Owed(t)' <= Owed(t)
<1>1. \A t \in Thread : Owed(t) \in Nat
  BY CountTypes
<1>2. ASSUME \A t \in Thread : ProcOf[t] = p => pc'[t] = pc[t] /\ backoff'[t] = backoff[t],
             calls'[p] = calls[p], counter'[p] = counter[p]
      PROVE  Kept
  BY <1>1, <1>2 DEF Owed
<1>3. CASE UNCHANGED vars
  BY <1>2, <1>3, NothingSpent DEF vars, proc
<1>4. ASSUME NEW t \in Thread, Start(t)
      PROVE  \E used \in SUBSET Tickets(p)',
                nth \in [Busy(p)' -> 1 .. calls'[p]] : Accounts(p, used, nth)'
  <2>1. CASE ProcOf[t] = p
    BY <1>4, <2>1, StartSpends, CallBegun
  <2>2. CASE ProcOf[t] # p
    <3>1. Kept
      BY <1>2, <1>4, <2>2, StartSpends
    <3> QED
      BY <3>1, NothingSpent
  <2> QED
    BY <2>1, <2>2
<1>5. ASSUME NEW t \in Thread, Continue(t)
      PROVE  \E used \in SUBSET Tickets(p)',
                nth \in [Busy(p)' -> 1 .. calls'[p]] : Accounts(p, used, nth)'
  <2>1. CASE TakeNumber(t) /\ ProcOf[t] = p
    BY <2>1, NameSpent
  <2>2. CASE TakeNumber(t) /\ ProcOf[t] # p
    <3>1. Kept
      BY <1>2, <2>2, ProcType DEF TakeNumber, Goto, TypeOK
    <3> QED
      BY <3>1, NothingSpent
  <2>3. CASE ~TakeNumber(t)
    <3>1. Kept
      BY <1>1, <1>5, <2>3, ContinueSpends DEF Owed
    <3> QED
      BY <3>1, NothingSpent
  <2> QED
    BY <2>1, <2>2, <2>3
<1>6. ASSUME NEW q \in Proc, Crash(q)
      PROVE  \E used \in SUBSET Tickets(p)',
                nth \in [Busy(p)' -> 1 .. calls'[p]] : Accounts(p, used, nth)'
  <2>1. CASE p = q
    <3>1. counter'[p] = 0 /\ Busy(p)' = {}
      BY <1>6, <2>1 DEF Crash, Busy, TypeOK
    <3> QED
      BY <3>1, ProcessDied
  <2>2. CASE p # q
    <3>1. Kept
      BY <1>2, <1>6, <2>2 DEF Crash, TypeOK
    <3> QED
      BY <3>1, NothingSpent
  <2> QED
    BY <2>1, <2>2
<1>7. CASE UpdateTcb \/ \E n \in DOMAIN entries : ForeignWrite(n)
  <2>1. Kept
    BY <1>2, <1>7 DEF UpdateTcb, ForeignWrite, proc
  <2> QED
    BY <2>1, NothingSpent
<1> QED
  BY <1>3, <1>4, <1>5, <1>6, <1>7 DEF Next

LEMMA AccountedInit ==
  ASSUME Init
  PROVE  Accounted
<1>1. \A p \in Proc : counter[p] = 0 /\ Busy(p) = {}
  BY DEF Init, Busy
<1>2. ASSUME NEW p \in Proc
      PROVE  \E used \in SUBSET Tickets(p), nth \in [Busy(p) -> 1 .. calls[p]] :
               Accounts(p, used, nth)
  <2>1. {} \in SUBSET Tickets(p) /\ Cardinality({}) = 0
    BY FS_EmptySet
  <2>2. PICK nth : nth \in [Busy(p) -> 1 .. calls[p]]
    <3>1. [u \in Busy(p) |-> 1] \in [Busy(p) -> 1 .. calls[p]]
      BY <1>1
    <3> QED
      BY <3>1
  <2>3. Accounts(p, {}, nth)
    BY <1>1, <2>1 DEF Accounts
  <2> QED
    BY <2>1, <2>2, <2>3
<1> QED
  BY <1>2 DEF Accounted

\* A call takes at most one directory name per delay of RETRY_BACKOFF and one
\* more, for every number of threads, calls and restarts, and whatever fails.
THEOREM AttemptsLimited == Spec => []AttemptsBounded
<1>1. Init => Ownership /\ RightCalls /\ Accounted
  BY OwnershipInit, AccountedInit
<1>2. Ownership /\ RightCalls /\ Accounted /\ [Next]_vars
        => (Ownership /\ RightCalls /\ Accounted)'
  BY OwnershipStep, AccountedStep DEF Ownership
<1>3. Ownership /\ Accounted => AttemptsBounded
  BY AccountedBounded DEF Ownership
<1> QED
  BY <1>1, <1>2, <1>3, PTL DEF Spec

-----------------------------------------------------------------------------
(***************************************************************************)
(* What an attempt is repeated for.                                        *)
(***************************************************************************)

\* How the part of an attempt that has a directory may fail.
FailureKind ==
  \A t \in Thread :
    local[t].failure \in {None, "Raced", "InvalidArgument", "IoBusy", "Io"}

LEMMA FailureKindStep ==
  ASSUME TypeOK, FailureKind, [Next]_vars
  PROVE  FailureKind'
<1> USE DEF TypeOK, FailureKind
<1>1. CASE UNCHANGED local
  BY <1>1
<1>2. ASSUME NEW t \in Thread, NEW l, local' = [local EXCEPT ![t] = l],
             l.failure \in {local[t].failure, None, "Raced", "InvalidArgument"} \cup IoError
      PROVE  FailureKind'
  BY <1>2, ConfigFsAssumption
<1>3. NewLocal.failure = None
  BY DEF NewLocal
<1>4. ASSUME NEW t \in Thread, NEW res, Settle(t, res) \/ Return(t, res)
      PROVE  FailureKind'
  BY <1>2, <1>3, <1>4 DEF Settle, Return
<1>5. ASSUME NEW t \in Thread, NEW error \in {"InvalidArgument"} \cup IoError,
             FailWith(t, error)
      PROVE  FailureKind'
  <2>1. [local[t] EXCEPT !.failure = error].failure = error
    BY DEF Local
  <2> QED
    BY <1>2, <1>5, <2>1 DEF FailWith
<1>6. ASSUME NEW t \in Thread, Start(t)
      PROVE  FailureKind'
  <2>1. PICK delays \in {0, Retries} : \E op, request : Begin(t, op, request, delays)
    BY <1>6 DEF Start
  <2> QED
    BY <1>1, <1>4, <2>1 DEF Begin
<1>7. ASSUME NEW t \in Thread, Continue(t)
      PROVE  FailureKind'
  <2>1. CASE TakeNumber(t)
    <3>1. [local[t] EXCEPT !.num = counter[ProcOf[t]]].failure = local[t].failure
      BY DEF Local
    <3> QED
      BY <1>2, <2>1, <3>1 DEF TakeNumber
  <2>2. CASE MakeDirFails(t)
    BY <1>4, <2>2 DEF MakeDirFails
  <2>3. CASE RemoveDir(t) \/ RemoveDirFails(t)
    BY <1>4, <2>3 DEF RemoveDir, RemoveDirFails, Finish
  <2>4. CASE MakeDir(t) \/ ReadAttr(t)
    BY <1>1, <2>4 DEF MakeDir, ReadAttr
  <2>5. CASE ReadFloorFails(t) \/ SystemCallFails(t)
    BY <1>5, <2>5 DEF ReadFloorFails, SystemCallFails
  <2>6. CASE WritePrivlevel(t) \/ WriteInblob(t)
    <3>1. [local[t] EXCEPT !.writes = @ + 1].failure = local[t].failure
      BY DEF Local
    <3> QED
      BY <1>2, <2>6, <3>1 DEF WritePrivlevel, WriteInblob, WriteAttr
  <2>7. CASE ReadOutblob(t)
    <3>1. PICK blob : local' = [local EXCEPT ![t].outblob = blob]
      BY <2>7 DEF ReadOutblob
    <3>2. [local[t] EXCEPT !.outblob = blob].failure = local[t].failure
      BY DEF Local
    <3> QED
      BY <1>2, <3>1, <3>2
  <2>8. CASE ReadAuxblob(t) \/ ReadAuxblobFails(t)
    <3>1. PICK blob : local' = [local EXCEPT ![t].auxblob = blob]
      BY <2>8 DEF ReadAuxblob, ReadAuxblobFails
    <3>2. [local[t] EXCEPT !.auxblob = blob].failure = local[t].failure
      BY DEF Local
    <3> QED
      BY <1>2, <3>1, <3>2
  <2>9. CASE ReadGeneration(t)
    <3>1. PICK failure \in {None, "Raced"} : local' = [local EXCEPT ![t].failure = failure]
      BY <2>9 DEF ReadGeneration
    <3>2. [local[t] EXCEPT !.failure = failure].failure = failure
      BY DEF Local
    <3> QED
      BY <1>2, <3>1, <3>2
  <2> QED
    BY <1>7, <2>1, <2>2, <2>3, <2>4, <2>5, <2>6, <2>7, <2>8, <2>9 DEF Continue
<1>8. ASSUME NEW p \in Proc, Crash(p)
      PROVE  FailureKind'
  BY <1>3, <1>8 DEF Crash
<1>9. CASE UpdateTcb \/ \E n \in DOMAIN entries : ForeignWrite(n)
  BY <1>1, <1>9 DEF UpdateTcb, ForeignWrite
<1>10. CASE UNCHANGED vars
  BY <1>1, <1>10 DEF vars
<1> QED
  BY <1>6, <1>7, <1>8, <1>9, <1>10 DEF Next

\* Only an attempt that failed on the way is transient: an answer that was
\* judged comes to a report, or to an error that is final.
LEMMA TransientVerdict ==
  ASSUME TypeOK, FailureKind, NEW t \in Thread,
         Verdict(t).error # None, IsTransient(Verdict(t).error)
  PROVE  local[t].failure \in {"Raced", "IoBusy"}
<1> DEFINE failure == local[t].failure
<1>1. CASE failure # None
  <2>1. Verdict(t).error = failure
    BY <1>1 DEF Verdict, Failed
  <2> QED
    BY <1>1, <2>1 DEF FailureKind, IsTransient
<1>2. CASE failure = None
  <2>1. call[t].op \in Attesting \cup {"open", "privlevel_floor"}
    BY CallType DEF Inspecting
  <2>2. CASE call[t].op \in Attesting
    <3>1. Verdict(t) = Judge(call[t], local[t])
      BY <1>2, <2>2 DEF Verdict, Attesting
    <3>2. Verdict(t).error \in {None, "Parse", "Mismatch"}
      BY <3>1 DEF Judge, Failed, Answered
    <3> QED
      BY <3>2 DEF IsTransient
  <2>3. CASE call[t].op = "open"
    <3>1. Verdict(t) \in {NoResult, Failed("WrongProvider")}
      BY <1>2, <2>3 DEF Verdict, Attesting
    <3>2. Verdict(t).error \in {None, "WrongProvider"}
      BY <3>1 DEF NoResult, Failed
    <3> QED
      BY <3>2 DEF IsTransient
  <2>4. CASE call[t].op = "privlevel_floor"
    <3>1. Verdict(t).error = None
      BY <1>2, <2>4 DEF Verdict, Attesting, NoResult
    <3> QED
      BY <3>1
  <2> QED
    BY <2>1, <2>2, <2>3, <2>4
<1> QED
  BY <1>1, <1>2

\* Of all steps, only settling a failed attempt leads back to another one.
LEMMA FinalStep ==
  ASSUME TypeOK, FailureKind, [Next]_vars, NEW t \in Thread,
         pc[t] = "rmdir", pc'[t] = "number"
  PROVE  local[t].failure \in {"Raced", "IoBusy"}
<1> USE DEF TypeOK
<1>1. \E u \in Thread : Start(u) \/ Continue(u)
  <2>1. \A p \in Proc : ~Crash(p)
    BY DEF Crash
  <2>2. ~UpdateTcb /\ ~(UNCHANGED vars) /\ \A n \in DOMAIN entries : ~ForeignWrite(n)
    BY DEF UpdateTcb, ForeignWrite, vars
  <2> QED
    BY <2>1, <2>2 DEF Next
<1>2. PICK u \in Thread : Start(u) \/ Continue(u)
  BY <1>1
<1>3. Continue(t) /\ ~TakeNumber(t) /\ ~MakeDir(t) /\ ~MakeDirFails(t)
  <2>1. CASE Start(u)
    BY <2>1, StartSpends
  <2>2. CASE Continue(u) /\ TakeNumber(u)
    BY <2>2 DEF TakeNumber, Goto
  <2>3. CASE Continue(u) /\ ~TakeNumber(u)
    BY <2>3, ContinueSpends DEF MakeDir, MakeDirFails
  <2> QED
    BY <1>2, <2>1, <2>2, <2>3
<1>4. CASE RemoveDir(t) \/ RemoveDirFails(t)
  <2>1. Settle(t, Verdict(t))
    BY <1>4 DEF RemoveDir, RemoveDirFails, Finish
  <2>2. Verdict(t).error # None /\ IsTransient(Verdict(t).error)
    BY <2>1 DEF Settle, Return, Goto
  <2> QED
    BY <2>2, TransientVerdict
<1>5. CASE ~(RemoveDir(t) \/ RemoveDirFails(t))
  BY <1>3, <1>5
  DEF Continue, ReadAttr, ReadFloorFails, WritePrivlevel, WriteInblob, ReadOutblob,
      ReadAuxblob, ReadAuxblobFails, ReadGeneration, SystemCallFails, Holding
<1> QED
  BY <1>4, <1>5

\* A call makes another attempt only for a failure the kernel expects the guest
\* to try again on: an answer that was judged is never asked for once more.
THEOREM FinalAnswers == Spec => AnswersFinal
<1>1. Init => FailureKind
  BY DEF Init, FailureKind, NewLocal
<1>2. TypeOK /\ FailureKind /\ [Next]_vars => FailureKind'
  BY FailureKindStep
<1>3. TypeOK /\ FailureKind /\ [Next]_vars =>
        [\A t \in Thread :
           pc[t] = "rmdir" /\ pc'[t] = "number" =>
             local[t].failure \in {"Raced", "IoBusy"}]_vars
  BY FinalStep
<1> QED
  BY <1>1, <1>2, <1>3, TypeCorrect, PTL DEF Spec, AnswersFinal

-----------------------------------------------------------------------------
(***************************************************************************)
(* What the name of an attempt may collide with.                           *)
(***************************************************************************)

\* pc of a thread that has taken a number and not given it up.
Numbering == {"mkdir"} \cup Holding

\* The numbers of the attempts that are underway in a process were counted,
\* and are distinct.
Numbered ==
  \A t \in Thread : pc[t] \in Numbering =>
    /\ local[t].num < counter[ProcOf[t]]
    /\ \A u \in Thread : u # t /\ ProcOf[u] = ProcOf[t] /\ pc[u] \in Numbering =>
         local[u].num # local[t].num

\* No thread takes a number, and no process that has any starts to count
\* again.
LEMMA NumbersKept ==
  ASSUME Numbered,
         \A t \in Thread : pc'[t] \in Numbering =>
           /\ pc[t] \in Numbering /\ local'[t].num = local[t].num
           /\ counter'[ProcOf[t]] = counter[ProcOf[t]]
  PROVE  Numbered'
  BY DEF Numbered

\* The number taken is larger than those of all attempts underway.
LEMMA NumberTaken ==
  ASSUME TypeOK, Numbered, NEW t \in Thread, TakeNumber(t)
  PROVE  Numbered'
<1> DEFINE p == ProcOf[t]
<1>1. /\ pc[t] = "number" /\ pc'[t] = "mkdir"
      /\ \A u \in Thread \ {t} : pc'[u] = pc[u] /\ local'[u] = local[u]
      /\ local'[t].num = counter[p]
  BY DEF TakeNumber, Goto, TypeOK, Local
<1>2. p \in Proc /\ counter[p] \in Nat
  BY ProcType DEF TypeOK
<1>3. /\ counter'[p] = counter[p] + 1
      /\ \A q \in Proc \ {p} : counter'[q] = counter[q]
  BY <1>2 DEF TakeNumber, TypeOK
<1>4. \A u \in Thread : local[u].num \in Nat
  BY DEF TypeOK, Local
<1>5. ASSUME NEW u \in Thread, u # t, pc'[u] \in Numbering
      PROVE  /\ local'[u].num = local[u].num
             /\ local[u].num < counter'[ProcOf[u]]
             /\ ProcOf[u] = p => local[u].num < counter[p]
  <2>1. local[u].num < counter[ProcOf[u]] /\ local'[u] = local[u]
    BY <1>1, <1>5 DEF Numbered
  <2>2. CASE ProcOf[u] = p
    BY <1>2, <1>3, <1>4, <2>1, <2>2
  <2>3. CASE ProcOf[u] # p
    <3>1. counter'[ProcOf[u]] = counter[ProcOf[u]]
      BY <1>3, <2>3, ProcType
    <3> QED
      BY <2>1, <2>3, <3>1
  <2> QED
    BY <2>2, <2>3
<1>6. ASSUME NEW u \in Thread, NEW v \in Thread, u # v, ProcOf[v] = ProcOf[u],
             pc'[u] \in Numbering, pc'[v] \in Numbering
      PROVE  local'[v].num # local'[u].num
  <2>1. CASE u = t
    BY <1>1, <1>2, <1>4, <1>5, <1>6, <2>1
  <2>2. CASE v = t
    BY <1>1, <1>2, <1>4, <1>5, <1>6, <2>2
  <2>3. CASE u # t /\ v # t
    BY <1>1, <1>5, <1>6, <2>3 DEF Numbered
  <2> QED
    BY <2>1, <2>2, <2>3
<1>7. local'[t].num < counter'[p]
  BY <1>1, <1>2, <1>3
<1> QED
  BY <1>5, <1>6, <1>7 DEF Numbered

LEMMA NumberedStep ==
  ASSUME TypeOK, Numbered, [Next]_vars
  PROVE  Numbered'
<1> DEFINE Kept ==
      \A t \in Thread : pc'[t] \in Numbering =>
        /\ pc[t] \in Numbering /\ local'[t].num = local[t].num
        /\ counter'[ProcOf[t]] = counter[ProcOf[t]]
<1>1. ASSUME NEW t \in Thread, UNCHANGED counter,
             \A u \in Thread \ {t} : pc'[u] = pc[u] /\ local'[u] = local[u],
             \/ pc'[t] \notin Numbering
             \/ pc[t] \in Numbering /\ local'[t].num = local[t].num
      PROVE  Kept
  BY <1>1
<1>2. ASSUME NEW t \in Thread, NEW res, Settle(t, res) \/ Return(t, res),
             UNCHANGED counter
      PROVE  Kept
  <2>1. /\ \A u \in Thread \ {t} : pc'[u] = pc[u] /\ local'[u] = local[u]
        /\ pc'[t] \in {"idle", "number"}
    BY <1>2 DEF Settle, Return, Goto, TypeOK
  <2> QED
    BY <1>1, <1>2, <2>1 DEF Numbering, Holding
<1>3. ASSUME NEW t \in Thread, Start(t)
      PROVE  Kept
  <2>1. PICK delays \in {0, Retries} : \E op, request : Begin(t, op, request, delays)
    BY <1>3 DEF Start
  <2>2. UNCHANGED counter
    BY <2>1 DEF Begin
  <2>3. CASE Goto(t, "number") /\ UNCHANGED local
    BY <1>1, <2>2, <2>3 DEF Goto, TypeOK, Numbering, Holding
  <2>4. CASE Return(t, Failed("NoBackend"))
    BY <1>2, <2>2, <2>4
  <2> QED
    BY <2>1, <2>3, <2>4 DEF Begin
<1>4. ASSUME NEW t \in Thread, Continue(t), ~TakeNumber(t)
      PROVE  Kept
  <2>1. UNCHANGED counter
    BY <1>4, ContinueSpends
  <2>2. CASE MakeDirFails(t)
    BY <1>2, <2>1, <2>2 DEF MakeDirFails
  <2>3. CASE RemoveDir(t) \/ RemoveDirFails(t)
    BY <1>2, <2>1, <2>3 DEF RemoveDir, RemoveDirFails, Finish
  <2>4. ASSUME pc[t] \in Numbering, NEW label, Goto(t, label),
               \/ UNCHANGED local
               \/ \E l : local' = [local EXCEPT ![t] = l] /\ l.num = local[t].num
        PROVE  Kept
    BY <1>1, <2>1, <2>4 DEF Goto, TypeOK
  <2>5. CASE MakeDir(t) \/ ReadAttr(t)
    BY <2>4, <2>5 DEF MakeDir, ReadAttr, Numbering, Holding
  <2>6. CASE ReadFloorFails(t) \/ SystemCallFails(t)
    <3>1. \A error : [local[t] EXCEPT !.failure = error].num = local[t].num
      BY DEF TypeOK, Local
    <3> QED
      BY <2>4, <2>6, <3>1
      DEF ReadFloorFails, SystemCallFails, FailWith, Numbering, Holding
  <2>7. CASE WritePrivlevel(t) \/ WriteInblob(t)
    <3>1. [local[t] EXCEPT !.writes = @ + 1].num = local[t].num
      BY DEF TypeOK, Local
    <3> QED
      BY <2>4, <2>7, <3>1
      DEF WritePrivlevel, WriteInblob, WriteAttr, Numbering, Holding
  <2>8. CASE ReadOutblob(t)
    <3>1. PICK blob : local' = [local EXCEPT ![t].outblob = blob]
      BY <2>8 DEF ReadOutblob
    <3>2. [local[t] EXCEPT !.outblob = blob].num = local[t].num
      BY DEF TypeOK, Local
    <3> QED
      BY <2>4, <2>8, <3>1, <3>2 DEF ReadOutblob, Numbering, Holding
  <2>9. CASE ReadAuxblob(t) \/ ReadAuxblobFails(t)
    <3>1. PICK blob : local' = [local EXCEPT ![t].auxblob = blob]
      BY <2>9 DEF ReadAuxblob, ReadAuxblobFails
    <3>2. [local[t] EXCEPT !.auxblob = blob].num = local[t].num
      BY DEF TypeOK, Local
    <3> QED
      BY <2>4, <2>9, <3>1, <3>2
      DEF ReadAuxblob, ReadAuxblobFails, Numbering, Holding
  <2>10. CASE ReadGeneration(t)
    <3>1. PICK failure : local' = [local EXCEPT ![t].failure = failure]
      BY <2>10 DEF ReadGeneration
    <3>2. [local[t] EXCEPT !.failure = failure].num = local[t].num
      BY DEF TypeOK, Local
    <3> QED
      BY <2>4, <2>10, <3>1, <3>2 DEF ReadGeneration, Numbering, Holding
  <2> QED
    BY <1>4, <2>2, <2>3, <2>5, <2>6, <2>7, <2>8, <2>9, <2>10 DEF Continue
<1>5. ASSUME NEW p \in Proc, Crash(p)
      PROVE  Kept
  <2> SUFFICES ASSUME NEW t \in Thread, pc'[t] \in Numbering
               PROVE  /\ pc[t] \in Numbering /\ local'[t].num = local[t].num
                      /\ counter'[ProcOf[t]] = counter[ProcOf[t]]
    OBVIOUS
  <2>1. ProcOf[t] # p
    BY <1>5 DEF Crash, Numbering, Holding
  <2> QED
    BY <1>5, <2>1, ProcType DEF Crash, TypeOK
<1>6. CASE UpdateTcb \/ (\E n \in DOMAIN entries : ForeignWrite(n)) \/ UNCHANGED vars
  BY <1>6, NumbersKept DEF UpdateTcb, ForeignWrite, vars, proc
<1> HIDE DEF Kept
<1>7. Kept => Numbered'
  BY NumbersKept DEF Kept
<1> QED
  BY <1>3, <1>4, <1>5, <1>6, <1>7, NumberTaken DEF Next

\* A live attempt is never in the way of another, unless two processes have
\* the same pid: its name holds a number that its process counted, and no
\* other attempt underway has it.
LEMMA NeverLive ==
  ASSUME Ownership, Numbered
  PROVE  OnlyLeftoversInTheWay
<1> SUFFICES ASSUME \A p, q \in Proc : PidOf[p] = PidOf[q] => p = q,
                    NEW t \in Thread, pc[t] = "mkdir", NameOf(t) \in DOMAIN entries,
                    DirOf(t).owner # None
             PROVE  FALSE
  BY DEF OnlyLeftoversInTheWay
<1>1. DirOf(t).owner \in Thread
  BY DEF Ownership, TypeOK, DirOf, Directory
<1>2. PICK u \in Thread : DirOf(t).owner = u
  BY <1>1
<1>3. pc[u] \in Holding /\ NameOf(u) = NameOf(t)
  BY <1>2 DEF Ownership, NoEntryLeak, DirOf
<1>4. u # t /\ pc[u] \in Numbering /\ pc[t] \in Numbering
  BY <1>3 DEF Holding, Numbering
<1>5. PidOf[ProcOf[u]] = PidOf[ProcOf[t]] /\ local[u].num = local[t].num
  BY <1>3 DEF NameOf
<1>6. ProcOf[u] = ProcOf[t]
  BY <1>5, ProcType
<1> QED
  BY <1>4, <1>5, <1>6 DEF Numbered

\* What is in the way of a call is never the directory of a live one, however
\* many threads share a handle and however often processes restart, as long
\* as no two processes have one pid.
THEOREM LiveNeverInTheWay == Spec => []OnlyLeftoversInTheWay
<1>1. Init => Ownership /\ RightCalls /\ Numbered
  <2>1. Init => Numbered
    BY DEF Init, Numbered, Numbering, Holding
  <2> QED
    BY <2>1, OwnershipInit
<1>2. Ownership /\ RightCalls /\ Numbered /\ [Next]_vars
        => (Ownership /\ RightCalls /\ Numbered)'
  BY OwnershipStep, NumberedStep DEF Ownership
<1>3. Ownership /\ Numbered => OnlyLeftoversInTheWay
  BY NeverLive
<1> QED
  BY <1>1, <1>2, <1>3, PTL DEF Spec

-----------------------------------------------------------------------------
(***************************************************************************)
(* How far a call is from its return.                                      *)
(***************************************************************************)

\* The steps that an attempt still makes at most, its return included.
Place == [label \in Label |->
  CASE label = "idle"       -> 0
    [] label = "number"     -> 8
    [] label = "mkdir"      -> 7
    [] label = "privlevel"  -> 6
    [] label = "inblob"     -> 5
    [] label = "outblob"    -> 4
    [] label = "auxblob"    -> 3
    [] label \in {"generation", "attr"} -> 2
    [] label = "rmdir"      -> 1]

\* The steps that a call still makes at most: those of an attempt for each
\* delay it has left, and those of the attempt it is in.
StepsLeft(t) == 8 * backoff[t] + Place[pc[t]]

\* Each step of a call brings it closer to its return, whatever fails, and
\* nothing that others do sets it back.
CloserToReturn ==
  [][\A t \in Thread :
       /\ Continue(t) => StepsLeft(t)' < StepsLeft(t)
       /\ pc[t] # "idle" => StepsLeft(t)' <= StepsLeft(t)]_vars
LEMMA Places ==
  /\ Place["idle"] = 0 /\ Place["number"] = 8 /\ Place["mkdir"] = 7
  /\ Place["attr"] = 2 /\ Place["privlevel"] = 6 /\ Place["inblob"] = 5
  /\ Place["outblob"] = 4 /\ Place["auxblob"] = 3 /\ Place["generation"] = 2
  /\ Place["rmdir"] = 1
  /\ \A label \in Label : Place[label] \in 0 .. 8
  BY DEF Place, Label, Holding

\* An attempt goes on to a place closer to its end.
LEMMA GoingOn ==
  ASSUME TypeOK, NEW t \in Thread, NEW label \in Label,
         pc' = [pc EXCEPT ![t] = label], backoff' = backoff,
         Place[label] < Place[pc[t]]
  PROVE  StepsLeft(t)' < StepsLeft(t)
<1>1. pc[t] \in Label /\ pc'[t] = label /\ backoff'[t] = backoff[t] /\ backoff[t] \in Nat
  BY DEF TypeOK
<1>2. Place[label] \in Nat /\ Place[pc[t]] \in Nat
  BY <1>1, Places
<1> QED
  BY <1>1, <1>2 DEF StepsLeft

\* Another attempt costs a delay, and each delay pays for a whole attempt.
LEMMA Settling ==
  ASSUME TypeOK, NEW t \in Thread, NEW res, Settle(t, res), pc[t] # "idle", pc[t] # "number"
  PROVE  StepsLeft(t)' < StepsLeft(t)
<1>1. pc[t] \in Label /\ backoff[t] \in Nat
  BY DEF TypeOK
<1>2. Place[pc[t]] \in Nat /\ Place[pc[t]] > 0
  BY <1>1, Places DEF Label, Holding
<1>3. CASE pc' = [pc EXCEPT ![t] = "number"] /\ backoff' = [backoff EXCEPT ![t] = @ - 1]
  <2>1. pc'[t] = "number" /\ backoff'[t] = backoff[t] - 1
    BY <1>3 DEF TypeOK
  <2> QED
    BY <1>1, <1>2, <2>1, Places DEF StepsLeft
<1>4. CASE pc' = [pc EXCEPT ![t] = "idle"] /\ backoff' = [backoff EXCEPT ![t] = 0]
  <2>1. pc'[t] = "idle" /\ backoff'[t] = 0
    BY <1>4 DEF TypeOK
  <2> QED
    BY <1>1, <1>2, <2>1, Places DEF StepsLeft
<1> QED
  BY <1>3, <1>4 DEF Settle, Return, Goto

LEMMA ContinueCloser ==
  ASSUME TypeOK, NEW t \in Thread, Continue(t)
  PROVE  StepsLeft(t)' < StepsLeft(t)
<1>0. /\ pc[t] \in Label
      /\ {"number", "mkdir", "attr", "privlevel", "inblob", "outblob",
          "auxblob", "generation", "rmdir"} \subseteq Label
  BY DEF TypeOK, Label, Holding
<1> DEFINE Onward(from, to) ==
      pc[t] = from /\ pc' = [pc EXCEPT ![t] = to] /\ backoff' = backoff
<1>1. ASSUME NEW from \in Label, NEW to \in Label, Onward(from, to),
             Place[to] < Place[from]
      PROVE  StepsLeft(t)' < StepsLeft(t)
  BY <1>1, GoingOn
<1>2. CASE TakeNumber(t)
  <2>1. Onward("number", "mkdir")
    BY <1>2 DEF TakeNumber, Goto
  <2>2. Place["mkdir"] < Place["number"]
    BY Places
  <2> QED
    BY <1>0, <1>1, <2>1, <2>2
<1>3. CASE MakeDir(t)
  <2>1. PICK to \in {"attr", "inblob", "privlevel"} : Onward("mkdir", to)
    BY <1>3 DEF MakeDir, FirstAccess, Goto
  <2>2. to \in Label /\ Place[to] < 7
    BY <1>0, Places
  <2> QED
    BY <1>0, <1>1, <2>1, <2>2, Places
<1>4. CASE MakeDirFails(t)
  BY <1>4, Settling DEF MakeDirFails
<1>5. CASE ReadAttr(t)
  <2>1. Onward("attr", "rmdir")
    BY <1>5 DEF ReadAttr, Goto
  <2>2. Place["rmdir"] < Place["attr"]
    BY Places
  <2> QED
    BY <1>0, <1>1, <2>1, <2>2
<1>6. CASE ReadFloorFails(t) \/ SystemCallFails(t)
  <2>1. PICK from \in Holding \ {"rmdir"} : Onward(from, "rmdir")
    BY <1>6 DEF ReadFloorFails, SystemCallFails, FailWith, Goto, Holding
  <2>2. from \in Label /\ Place[from] > 1
    BY Places DEF Label, Holding
  <2> QED
    BY <1>0, <1>1, <2>1, <2>2, Places
<1>7. CASE WritePrivlevel(t) \/ WriteInblob(t)
  <2>1. Onward("privlevel", "inblob") \/ Onward("inblob", "outblob")
    BY <1>7 DEF WritePrivlevel, WriteInblob, WriteAttr, Goto
  <2> QED
    BY <1>0, <1>1, <2>1, Places
<1>8. CASE ReadOutblob(t) \/ ReadAuxblob(t) \/ ReadAuxblobFails(t)
  <2>1. Onward("outblob", "auxblob") \/ Onward("auxblob", "generation")
    BY <1>8 DEF ReadOutblob, ReadAuxblob, ReadAuxblobFails, Goto
  <2> QED
    BY <1>0, <1>1, <2>1, Places
<1>9. CASE ReadGeneration(t)
  <2>1. Onward("generation", "rmdir")
    BY <1>9 DEF ReadGeneration, Goto
  <2>2. Place["rmdir"] < Place["generation"]
    BY Places
  <2> QED
    BY <1>0, <1>1, <2>1, <2>2
<1>10. CASE RemoveDir(t) \/ RemoveDirFails(t)
  BY <1>10, Settling DEF RemoveDir, RemoveDirFails, Finish
<1> QED
  BY <1>2, <1>3, <1>4, <1>5, <1>6, <1>7, <1>8, <1>9, <1>10 DEF Continue

LEMMA StepsCounted ==
  ASSUME TypeOK, NEW t \in Thread
  PROVE  StepsLeft(t) \in Nat
<1>1. pc[t] \in Label /\ backoff[t] \in Nat /\ Place[pc[t]] \in Nat
  BY Places DEF TypeOK
<1> QED
  BY <1>1 DEF StepsLeft

LEMMA CloserStep ==
  ASSUME TypeOK, TypeOK', [Next]_vars, NEW t \in Thread
  PROVE  /\ Continue(t) => StepsLeft(t)' < StepsLeft(t)
         /\ pc[t] # "idle" => StepsLeft(t)' <= StepsLeft(t)
<1>2. StepsLeft(t) \in Nat /\ StepsLeft(t)' \in Nat
  <2>1. pc'[t] \in Label /\ backoff'[t] \in Nat /\ Place[pc'[t]] \in Nat
    BY Places DEF TypeOK
  <2> QED
    BY <2>1, StepsCounted DEF StepsLeft
<1>3. ASSUME pc'[t] = pc[t], backoff'[t] = backoff[t]
      PROVE  StepsLeft(t)' <= StepsLeft(t)
  <2>1. StepsLeft(t)' = StepsLeft(t)
    BY <1>3 DEF StepsLeft
  <2> QED
    BY <1>2, <2>1
<1>4. ASSUME pc[t] # "idle"
      PROVE  StepsLeft(t)' <= StepsLeft(t)
  <2>1. ASSUME NEW u \in Thread, Start(u)
        PROVE  StepsLeft(t)' <= StepsLeft(t)
    BY <1>3, <1>4, <2>1, StartSpends
  <2>2. ASSUME NEW u \in Thread, Continue(u)
        PROVE  StepsLeft(t)' <= StepsLeft(t)
    <3>1. CASE u = t
      <4>1. StepsLeft(t)' < StepsLeft(t)
        BY <2>2, <3>1, ContinueCloser
      <4> QED
        BY <1>2, <4>1
    <3>2. CASE u # t /\ TakeNumber(u)
      BY <1>3, <3>2 DEF TakeNumber, Goto, TypeOK
    <3>3. CASE u # t /\ ~TakeNumber(u)
      BY <1>3, <2>2, <3>3, ContinueSpends
    <3> QED
      BY <3>1, <3>2, <3>3
  <2>3. ASSUME NEW p \in Proc, Crash(p)
        PROVE  StepsLeft(t)' <= StepsLeft(t)
    <3>1. CASE ProcOf[t] = p
      <4>1. pc'[t] = "idle" /\ backoff'[t] = 0
        BY <2>3, <3>1 DEF Crash
      <4>2. StepsLeft(t)' = 0
        BY <4>1, Places DEF StepsLeft
      <4> QED
        BY <1>2, <4>2
    <3>2. CASE ProcOf[t] # p
      BY <1>3, <2>3, <3>2 DEF Crash
    <3> QED
      BY <3>1, <3>2
  <2>4. CASE UpdateTcb \/ (\E n \in DOMAIN entries : ForeignWrite(n)) \/ UNCHANGED vars
    BY <1>3, <2>4 DEF UpdateTcb, ForeignWrite, vars, proc
  <2> QED
    BY <2>1, <2>2, <2>3, <2>4 DEF Next
<1> QED
  BY <1>4, ContinueCloser

\* Every step of a call leaves it fewer steps to make, so that it makes no
\* more than 8 * (Retries + 1): whatever fails, whatever others write and
\* however long they go on with it, no call can be kept from its return.
THEOREM CallsComeCloser == Spec => CloserToReturn
<1>1. TypeOK /\ TypeOK' /\ [Next]_vars =>
        [\A t \in Thread :
           /\ Continue(t) => StepsLeft(t)' < StepsLeft(t)
           /\ pc[t] # "idle" => StepsLeft(t)' <= StepsLeft(t)]_vars
  BY CloserStep
<1> QED
  BY <1>1, TypeCorrect, PTL DEF Spec, CloserToReturn

=============================================================================
