--------------------------- MODULE ConfigFsProofs ---------------------------
(***************************************************************************)
(* What ConfigFs guarantees for any number of threads, processes, retries, *)
(* names and interfering writes, with machine-checked proofs.              *)
(***************************************************************************)
EXTENDS ConfigFs, TLAPS

-----------------------------------------------------------------------------
(***************************************************************************)
(* The inductive invariant behind types and ownership.  A directory is     *)
(* only read for an answer after its inblob was written, which keeps the   *)
(* answers well-formed.                                                    *)
(***************************************************************************)
InblobWritten ==
  \A t \in Thread : pc[t] \in {"outblob", "auxblob"} => DirOf(t).inblob # None

\* A thread makes the system calls of the operation it was called for.
RightCalls ==
  \A t \in Thread :
    /\ pc[t] \in {"privlevel", "inblob", "outblob", "auxblob", "generation"} =>
         call[t].op \in Attesting
    /\ pc[t] = "privlevel" => call[t].request.vmpl # None
    /\ pc[t] = "attr" => call[t].op \in Inspecting

Ownership == TypeOK /\ EntryOwned /\ NoEntryLeak /\ InblobWritten

-----------------------------------------------------------------------------
(***************************************************************************)
(* Types of the operators.                                                 *)
(***************************************************************************)
LEMMA NameType ==
  ASSUME TypeOK, NEW t \in Thread
  PROVE  NameOf(t) \in Name
  BY ConfigFsAssumption DEF TypeOK, NameOf, Name, Local

LEMMA ProcType == \A t \in Thread : ProcOf[t] \in Proc
  BY ConfigFsAssumption

\* A write leaves a directory a directory.
LEMMA WrittenType ==
  ASSUME NEW dir \in Directory
  PROVE  /\ \A data \in Data : WithInblob(dir, data) \in Directory
         /\ \A vmpl \in Level : WithPrivlevel(dir, vmpl) \in Directory
<1>1. dir.gen + 1 \in Nat
  BY DEF Directory
<1>2. \A data \in Data, g \in Nat :
        [dir EXCEPT !.inblob = data, !.gen = g, !.cache = None] \in Directory
  BY DEF Directory
<1>3. \A vmpl \in Level, g \in Nat :
        [dir EXCEPT !.privlevel = vmpl, !.gen = g, !.cache = None] \in Directory
  BY DEF Directory
<1> QED
  BY <1>1, <1>2, <1>3 DEF WithInblob, WithPrivlevel

\* What an answer may be is what a directory may cache.
LEMMA AnswersType ==
  ASSUME TypeOK, NEW dir \in Directory, dir.inblob # None,
         NEW found \in Answers(dir)
  PROVE  found \in Blobs
<1>1. GuestRequest(dir) \in Blobs
  BY ConfigFsAssumption
  DEF TypeOK, Directory, GuestRequest, Blobs, AttestationReport, Chain
<1>2. [outblob : Stray, auxblob : {None, Malformed}] \subseteq Blobs
  BY ConfigFsAssumption DEF Blobs, Chain
<1> QED
  BY <1>1, <1>2 DEF Answers, Directory

\* A thread in an attestation call has a request to answer.
LEMMA CallType ==
  ASSUME TypeOK, NEW t \in Thread
  PROVE  /\ call[t].op \in Attesting \cup Inspecting
         /\ call[t].op \in Attesting => call[t].request \in ReportRequest
         /\ call[t].op \in Inspecting => call[t].request = None
  BY DEF TypeOK, Call, Attesting, Inspecting

LEMMA ResultType ==
  /\ NoResult \in CallResult
  /\ \A error \in Error : Failed(error) \in CallResult
  /\ \A report \in AttestationReport, chain \in Chain :
       Answered(report, chain) \in CallResult
  BY DEF NoResult, Failed, Answered, CallResult, Chain

LEMMA NewLocalType == NewLocal \in Local
  BY DEF NewLocal, Local, Chain

LEMMA VerdictType ==
  ASSUME TypeOK, NEW t \in Thread
  PROVE  Verdict(t) \in CallResult
<1> DEFINE l == local[t]
<1>1. /\ l.failure \in Error \cup {None}
      /\ l.outblob \in AttestationReport \cup {Malformed}
      /\ l.auxblob \in Chain \cup {Malformed}
  BY DEF TypeOK, Local
<1>2. {"Parse", "Mismatch", "WrongProvider"} \subseteq Error
  BY DEF Error
<1>3. None \in Chain
  BY DEF Chain
<1>4. Judge(call[t], l) \in CallResult
  BY <1>1, <1>2, <1>3, ResultType DEF Judge
<1>5. call[t].op \in Attesting \cup {"open", "privlevel_floor"}
  BY CallType DEF Inspecting
<1>6. CASE l.failure # None
  BY <1>1, <1>6, ResultType DEF Verdict
<1>7. CASE l.failure = None /\ call[t].op \in Attesting
  BY <1>4, <1>7 DEF Verdict, Attesting
<1>8. CASE l.failure = None /\ call[t].op = "open"
  BY <1>2, <1>8, ResultType DEF Verdict, Attesting
<1>9. CASE l.failure = None /\ call[t].op = "privlevel_floor"
  BY <1>9, ResultType DEF Verdict, Attesting
<1> QED
  BY <1>5, <1>6, <1>7, <1>8, <1>9

\* The types of the variables a step of one thread settles.
ThreadTypes ==
  /\ pc \in [Thread -> Label]
  /\ backoff \in [Thread -> Nat]
  /\ local \in [Thread -> Local]
  /\ result \in [Thread -> CallResult]

LEMMA ReturnType ==
  ASSUME TypeOK, NEW t \in Thread, NEW res \in CallResult, Return(t, res)
  PROVE  ThreadTypes'
  BY NewLocalType DEF TypeOK, Return, Goto, ThreadTypes, Label

LEMMA SettleType ==
  ASSUME TypeOK, NEW t \in Thread, NEW res \in CallResult, Settle(t, res)
  PROVE  ThreadTypes'
<1>1. CASE res.error # None /\ IsTransient(res.error) /\ backoff[t] > 0
  <2>1. backoff[t] - 1 \in Nat
    BY <1>1 DEF TypeOK
  <2> QED
    BY <1>1, <2>1, NewLocalType DEF TypeOK, Settle, Goto, ThreadTypes, Label
<1>2. CASE ~(res.error # None /\ IsTransient(res.error) /\ backoff[t] > 0)
  <2>1. Return(t, res)
    BY <1>2 DEF Settle
  <2> QED
    BY <2>1, ReturnType
<1> QED
  BY <1>1, <1>2

\* The types of the report directories.
EntriesType ==
  /\ DOMAIN entries \subseteq Name
  /\ entries \in [DOMAIN entries -> Directory]

\* Replacing one directory by another keeps them well-typed.
LEMMA UpdateType ==
  ASSUME EntriesType, NEW n \in DOMAIN entries, NEW dir \in Directory,
         entries' = [entries EXCEPT ![n] = dir]
  PROVE  EntriesType' /\ DOMAIN entries' = DOMAIN entries
  BY DEF EntriesType

LEMMA RemoveType ==
  ASSUME EntriesType, NEW n,
         entries' = [m \in DOMAIN entries \ {n} |-> entries[m]]
  PROVE  EntriesType'
  BY DEF EntriesType

-----------------------------------------------------------------------------
(***************************************************************************)
(* Steps that keep the invariant, by what they do to the directories.      *)
(***************************************************************************)

\* Threads that hold directories hold different ones.
LEMMA DistinctNames ==
  ASSUME EntryOwned, NEW t \in Thread, NEW u \in Thread, t # u,
         pc[t] \in Holding, pc[u] \in Holding
  PROVE  NameOf(t) # NameOf(u)
  BY DEF EntryOwned, DirOf

\* A step of a thread inside its own directory.
LEMMA HoldingStep ==
  ASSUME Ownership, NEW t \in Thread, pc[t] \in Holding,
         NEW label \in Holding, pc' = [pc EXCEPT ![t] = label],
         NEW l \in Local, l.num = local[t].num,
         local' = [local EXCEPT ![t] = l],
         NEW dir \in Directory, dir.owner = t,
         entries' = [entries EXCEPT ![NameOf(t)] = dir],
         label \in {"outblob", "auxblob"} => dir.inblob # None
  PROVE  EntriesType' /\ (pc \in [Thread -> Label])' /\ EntryOwned' /\ NoEntryLeak'
         /\ InblobWritten'
<1>1. /\ NameOf(t) \in DOMAIN entries
      /\ DirOf(t).owner = t
  BY DEF Ownership, EntryOwned
<1>2. EntriesType' /\ DOMAIN entries' = DOMAIN entries
  BY <1>1, UpdateType DEF Ownership, TypeOK, EntriesType
<1>3. \A u \in Thread : NameOf(u)' = NameOf(u)
  BY DEF NameOf, Ownership, TypeOK, Local
<1>4. /\ \A u \in Thread : pc[u] \in Holding <=> pc'[u] \in Holding
      /\ \A u \in Thread \ {t} : pc'[u] = pc[u]
      /\ pc'[t] = label
      /\ (pc \in [Thread -> Label])'
  BY DEF Ownership, TypeOK, Label
<1>5. \A n \in DOMAIN entries : n # NameOf(t) => entries'[n] = entries[n]
  BY DEF Ownership, TypeOK
<1>6. entries'[NameOf(t)] = dir
  BY <1>1 DEF Ownership, TypeOK
<1>7. \A u \in Thread \ {t} : pc[u] \in Holding =>
        NameOf(u) # NameOf(t) /\ NameOf(u) \in DOMAIN entries
        /\ entries'[NameOf(u)] = entries[NameOf(u)]
  BY <1>5, DistinctNames DEF Ownership, EntryOwned
<1>8. EntryOwned'
  BY <1>1, <1>2, <1>3, <1>4, <1>6, <1>7 DEF EntryOwned, DirOf, Ownership
<1>9. NoEntryLeak'
  <2> SUFFICES ASSUME NEW n \in DOMAIN entries, NEW u \in Thread,
                      entries'[n].owner = u
               PROVE  pc'[u] \in Holding /\ NameOf(u)' = n
    BY <1>2 DEF NoEntryLeak
  <2>1. CASE n = NameOf(t)
    BY <1>3, <1>4, <1>6, <2>1
  <2>2. CASE n # NameOf(t)
    BY <1>3, <1>4, <1>5, <2>2 DEF NoEntryLeak, Ownership
  <2> QED
    BY <2>1, <2>2
<1>10. InblobWritten'
  <2>1. \A u \in Thread : pc'[u] \in {"outblob", "auxblob"} => pc[u] \in Holding
    BY <1>4 DEF Holding
  <2> QED
    BY <2>1, <1>3, <1>4, <1>6, <1>7 DEF InblobWritten, DirOf, Ownership
<1> QED
  BY <1>2, <1>4, <1>8, <1>9, <1>10

\* A step of a thread that holds no directory before or after it.
LEMMA OutsideStep ==
  ASSUME Ownership, NEW t \in Thread, pc[t] \notin Holding,
         NEW label \in {"idle", "number", "mkdir"},
         pc' = [pc EXCEPT ![t] = label],
         NEW l \in Local, local' = [local EXCEPT ![t] = l],
         entries' = entries
  PROVE  EntryOwned' /\ NoEntryLeak' /\ InblobWritten'
<1>1. /\ \A u \in Thread \ {t} : pc'[u] = pc[u] /\ NameOf(u)' = NameOf(u)
      /\ pc'[t] \notin Holding
  BY DEF NameOf, Ownership, TypeOK, Holding
<1>2. EntryOwned'
  BY <1>1 DEF EntryOwned, DirOf, Ownership
<1>3. NoEntryLeak'
  BY <1>1 DEF NoEntryLeak, Ownership
<1>4. InblobWritten'
  BY <1>1 DEF InblobWritten, DirOf, Ownership, Holding
<1> QED
  BY <1>2, <1>3, <1>4

\* However an attempt is settled, its thread lets go of its name.
LEMMA SettleShape ==
  ASSUME TypeOK, NEW t \in Thread, NEW res \in CallResult, Settle(t, res)
  PROVE  \E label \in {"idle", "number"} :
           /\ pc' = [pc EXCEPT ![t] = label]
           /\ local' = [local EXCEPT ![t] = NewLocal]
  BY DEF Settle, Return, Goto

\* create_dir makes a directory under a name nobody holds.
LEMMA MakeDirStep ==
  ASSUME Ownership, NEW t \in Thread, MakeDir(t)
  PROVE  Ownership'
<1> DEFINE new == NameOf(t)
<1>1. /\ pc[t] = "mkdir" /\ new \notin DOMAIN entries
      /\ FirstAccess(call[t]) \in {"attr", "privlevel", "inblob"}
      /\ pc' = [pc EXCEPT ![t] = FirstAccess(call[t])]
      /\ local' = local
  BY DEF MakeDir, Goto, FirstAccess
<1>2. /\ DOMAIN entries' = DOMAIN entries \cup {new}
      /\ \A n \in DOMAIN entries : entries'[n] = entries[n]
      /\ entries'[new] = NewDirectory(t)
  BY <1>1 DEF MakeDir
<1>3. /\ \A u \in Thread : NameOf(u)' = NameOf(u)
      /\ \A u \in Thread \ {t} : pc'[u] = pc[u]
      /\ pc'[t] \in {"attr", "privlevel", "inblob"}
  BY <1>1 DEF NameOf, Ownership, TypeOK
<1>4. TypeOK'
  <2>1. NewDirectory(t) \in Directory
    BY DEF NewDirectory, Directory
  <2>2. EntriesType'
    BY <1>2, <2>1, NameType DEF Ownership, TypeOK, EntriesType, MakeDir
  <2>3. pc' \in [Thread -> Label]
    BY <1>1 DEF Ownership, TypeOK, Label, Holding
  <2> QED
    BY <2>2, <2>3 DEF Ownership, TypeOK, EntriesType, MakeDir, world, proc
<1>5. EntryOwned'
  <2>1. NewDirectory(t).owner = t
    BY DEF NewDirectory
  <2> QED
    BY <1>1, <1>2, <1>3, <2>1 DEF EntryOwned, DirOf, Ownership
<1>6. NoEntryLeak'
  <2> SUFFICES ASSUME NEW n \in DOMAIN entries \cup {new}, NEW u \in Thread,
                      entries'[n].owner = u
               PROVE  pc'[u] \in Holding /\ NameOf(u)' = n
    BY <1>2 DEF NoEntryLeak
  <2>1. CASE n = new
    BY <1>2, <1>3, <2>1 DEF NewDirectory, Holding
  <2>2. CASE n # new
    BY <1>1, <1>2, <1>3, <2>2 DEF NoEntryLeak, Ownership, Holding
  <2> QED
    BY <2>1, <2>2
<1>7. InblobWritten'
  BY <1>1, <1>2, <1>3 DEF InblobWritten, EntryOwned, DirOf, Ownership, Holding
<1> QED
  BY <1>4, <1>5, <1>6, <1>7 DEF Ownership

\* Dropping the Entry touches the directory of that thread alone, whether or
\* not it can be removed.
LEMMA FinishStep ==
  ASSUME Ownership, NEW t \in Thread, RemoveDir(t) \/ RemoveDirFails(t)
  PROVE  Ownership'
<1> DEFINE old == NameOf(t)
<1>1. PICK label \in {"idle", "number"} :
        /\ pc' = [pc EXCEPT ![t] = label]
        /\ local' = [local EXCEPT ![t] = NewLocal]
  BY VerdictType, SettleShape DEF RemoveDir, RemoveDirFails, Finish, Ownership
<1>2. /\ pc[t] = "rmdir" /\ pc[t] \in Holding
      /\ ThreadTypes'
      /\ opened' \in [Proc -> BOOLEAN]
      /\ UNCHANGED <<world, counter, calls, call>>
  BY VerdictType, SettleType, ProcType
  DEF RemoveDir, RemoveDirFails, Finish, Ownership, TypeOK, Holding
<1>3. old \in DOMAIN entries /\ entries[old].owner = t
  BY <1>2 DEF EntryOwned, DirOf, Ownership
<1>4. /\ DOMAIN entries' \subseteq DOMAIN entries
      /\ DOMAIN entries \ {old} \subseteq DOMAIN entries'
      /\ \A n \in DOMAIN entries' \ {old} : entries'[n] = entries[n]
      /\ old \in DOMAIN entries' => entries'[old].owner = None
      /\ EntriesType'
  <2>1. CASE RemoveDir(t)
    BY <2>1, RemoveType DEF RemoveDir, Ownership, TypeOK, EntriesType
  <2>2. CASE RemoveDirFails(t)
    <3>1. [entries[old] EXCEPT !.owner = None] \in Directory
      BY <1>3 DEF Ownership, TypeOK, Directory
    <3>2. entries' = [entries EXCEPT ![old] = [entries[old] EXCEPT !.owner = None]]
      BY <2>2 DEF RemoveDirFails
    <3>3. EntriesType' /\ DOMAIN entries' = DOMAIN entries
      BY <1>3, <3>1, <3>2, UpdateType DEF Ownership, TypeOK, EntriesType
    <3>4. [entries[old] EXCEPT !.owner = None].owner = None
      BY <1>3 DEF Ownership, TypeOK, Directory
    <3> QED
      BY <1>3, <3>2, <3>3, <3>4 DEF Ownership, TypeOK
  <2> QED
    BY <2>1, <2>2
<1>5. /\ \A u \in Thread \ {t} : pc'[u] = pc[u] /\ NameOf(u)' = NameOf(u)
      /\ pc'[t] \notin Holding
      /\ \A u \in Thread \ {t} : pc[u] \in Holding => NameOf(u) # old
  BY <1>1, <1>2, DistinctNames DEF NameOf, Ownership, TypeOK, Holding
<1>6. TypeOK'
  BY <1>2, <1>4 DEF Ownership, TypeOK, ThreadTypes, EntriesType, world
<1>7. EntryOwned'
  BY <1>4, <1>5 DEF EntryOwned, DirOf, Ownership
<1>8. NoEntryLeak'
  <2> SUFFICES ASSUME NEW n \in DOMAIN entries', NEW u \in Thread,
                      entries'[n].owner = u
               PROVE  pc'[u] \in Holding /\ NameOf(u)' = n
    BY DEF NoEntryLeak
  <2>1. n # old
    BY <1>4, ConfigFsAssumption
  <2>2. entries[n].owner = u /\ n \in DOMAIN entries
    BY <1>4, <2>1
  <2>3. u # t
    BY <2>1, <2>2 DEF NoEntryLeak, Ownership
  <2> QED
    BY <1>5, <2>2, <2>3 DEF NoEntryLeak, Ownership
<1>9. InblobWritten'
  BY <1>4, <1>5 DEF InblobWritten, EntryOwned, DirOf, Ownership, Holding
<1> QED
  BY <1>6, <1>7, <1>8, <1>9 DEF Ownership

\* A thread makes a system call on its own directory, or stops to.
LEMMA AccessStep ==
  ASSUME Ownership, RightCalls, NEW t \in Thread,
         \/ ReadAttr(t) \/ ReadFloorFails(t) \/ SystemCallFails(t)
         \/ WritePrivlevel(t) \/ WriteInblob(t)
         \/ ReadOutblob(t) \/ ReadAuxblob(t) \/ ReadAuxblobFails(t)
         \/ ReadGeneration(t)
  PROVE  Ownership'
<1> DEFINE dir == DirOf(t)
           l == local[t]
<1>1. pc[t] \in Holding
  BY DEF ReadAttr, ReadFloorFails, SystemCallFails, WritePrivlevel,
         WriteInblob, ReadOutblob, ReadAuxblob, ReadAuxblobFails,
         ReadGeneration, Holding
<1>2. /\ NameOf(t) \in DOMAIN entries
      /\ dir \in Directory /\ dir.owner = t
      /\ l \in Local
  BY <1>1 DEF Ownership, EntryOwned, DirOf, TypeOK
<1>3. entries = [entries EXCEPT ![NameOf(t)] = dir] /\ local = [local EXCEPT ![t] = l]
  BY <1>2 DEF DirOf, Ownership, TypeOK
<1>4. SUFFICES \E label \in Holding, m \in Local, d \in Directory :
                 /\ pc' = [pc EXCEPT ![t] = label]
                 /\ local' = [local EXCEPT ![t] = m] /\ m.num = l.num
                 /\ entries' = [entries EXCEPT ![NameOf(t)] = d] /\ d.owner = t
                 /\ label \in {"outblob", "auxblob"} => d.inblob # None
                 /\ UNCHANGED <<world, proc, call, backoff, result>>
  <2>1. UNCHANGED <<provider, tcb, provisioned, counter, opened, calls,
                    call, backoff, result>>
    BY <1>4 DEF world, proc
  <2>2. PICK label \in Holding, m \in Local, d \in Directory :
          /\ pc' = [pc EXCEPT ![t] = label]
          /\ local' = [local EXCEPT ![t] = m] /\ m.num = l.num
          /\ entries' = [entries EXCEPT ![NameOf(t)] = d] /\ d.owner = t
          /\ label \in {"outblob", "auxblob"} => d.inblob # None
    BY <1>4
  <2>3. EntriesType' /\ pc' \in [Thread -> Label]
        /\ EntryOwned' /\ NoEntryLeak' /\ InblobWritten'
    BY <1>1, <2>2, HoldingStep
  <2>4. local' \in [Thread -> Local]
    BY <2>2 DEF Ownership, TypeOK
  <2>5. TypeOK'
    BY <2>1, <2>3, <2>4 DEF Ownership, TypeOK, EntriesType
  <2> QED
    BY <2>3, <2>5 DEF Ownership
<1>5. CASE ReadAttr(t)
  BY <1>2, <1>3, <1>5 DEF ReadAttr, Goto, Holding
<1>6. ASSUME NEW error \in Error, FailWith(t, error)
      PROVE  \E m \in Local :
               /\ pc' = [pc EXCEPT ![t] = "rmdir"]
               /\ local' = [local EXCEPT ![t] = m] /\ m.num = l.num
               /\ entries' = entries
               /\ UNCHANGED <<world, proc, call, backoff, result>>
  <2>1. [l EXCEPT !.failure = error] \in Local
    BY <1>2 DEF Local
  <2>2. [l EXCEPT !.failure = error].num = l.num
    BY <1>2 DEF Local
  <2> QED
    BY <1>6, <2>1, <2>2 DEF FailWith, Goto
<1>7. CASE ReadFloorFails(t) \/ SystemCallFails(t)
  <2>1. PICK error \in Error : FailWith(t, error)
    BY <1>7, ConfigFsAssumption DEF ReadFloorFails, SystemCallFails, Error
  <2> QED
    BY <1>2, <1>3, <1>6, <2>1 DEF Holding
<1>8. /\ [l EXCEPT !.writes = l.writes + 1] \in Local
      /\ [l EXCEPT !.writes = l.writes + 1].num = l.num
  <2>1. l.writes + 1 \in Nat
    BY <1>2 DEF Local
  <2>2. \A w \in Nat : [l EXCEPT !.writes = w] \in Local
                       /\ [l EXCEPT !.writes = w].num = l.num
    BY <1>2 DEF Local
  <2> QED
    BY <2>1, <2>2
<1>9. CASE WritePrivlevel(t)
  <2>1. call[t].request.vmpl \in Level
    BY <1>9, CallType DEF WritePrivlevel, RightCalls, Ownership, ReportRequest
  <2>2. WithPrivlevel(dir, call[t].request.vmpl) \in Directory
    BY <1>2, <2>1, WrittenType
  <2>3. WithPrivlevel(dir, call[t].request.vmpl).owner = t
    BY <1>2 DEF WithPrivlevel, Directory
  <2> QED
    BY <1>8, <1>9, <2>2, <2>3 DEF WritePrivlevel, WriteAttr, Goto, Holding
<1>10. CASE WriteInblob(t)
  <2>1. call[t].request.data \in Data
    BY <1>10, CallType DEF WriteInblob, RightCalls, Ownership, ReportRequest
  <2>2. WithInblob(dir, call[t].request.data) \in Directory
    BY <1>2, <2>1, WrittenType
  <2>3. /\ WithInblob(dir, call[t].request.data).owner = t
        /\ WithInblob(dir, call[t].request.data).inblob # None
    BY <1>2, <2>1, NoneAssumption DEF WithInblob, Directory
  <2> QED
    BY <1>8, <1>10, <2>2, <2>3 DEF WriteInblob, WriteAttr, Goto, Holding
<1>11. ASSUME NEW found \in Answers(dir), pc[t] \in {"outblob", "auxblob"}
       PROVE  /\ [dir EXCEPT !.cache = found] \in Directory
              /\ [dir EXCEPT !.cache = found].owner = t
              /\ [dir EXCEPT !.cache = found].inblob # None
              /\ [entries EXCEPT ![NameOf(t)].cache = found] =
                   [entries EXCEPT ![NameOf(t)] = [dir EXCEPT !.cache = found]]
              /\ [l EXCEPT !.outblob = found.outblob] \in Local
              /\ [l EXCEPT !.outblob = found.outblob].num = l.num
              /\ [l EXCEPT !.auxblob = found.auxblob] \in Local
              /\ [l EXCEPT !.auxblob = found.auxblob].num = l.num
  <2>1. dir.inblob # None
    BY <1>11 DEF InblobWritten, Ownership
  <2>2. found \in Blobs
    BY <1>2, <1>11, <2>1, AnswersType DEF Ownership
  <2>3. /\ found.outblob \in AttestationReport \cup {Malformed}
        /\ found.auxblob \in Chain \cup {Malformed}
    BY <2>2 DEF Blobs
  <2>4. /\ [dir EXCEPT !.cache = found] \in Directory
        /\ [dir EXCEPT !.cache = found].owner = t
        /\ [dir EXCEPT !.cache = found].inblob # None
    BY <1>2, <2>1, <2>2 DEF Directory
  <2> QED
    BY <1>2, <2>3, <2>4 DEF Local, DirOf
<1>12. CASE ReadOutblob(t)
  <2>1. PICK found \in Answers(dir) :
          /\ entries' = [entries EXCEPT ![NameOf(t)].cache = found]
          /\ local' = [local EXCEPT ![t].outblob = found.outblob]
    BY <1>12 DEF ReadOutblob
  <2>2. local' = [local EXCEPT ![t] = [l EXCEPT !.outblob = found.outblob]]
    BY <2>1
  <2> QED
    BY <1>11, <1>12, <2>1, <2>2 DEF ReadOutblob, Goto, Holding
<1>13. CASE ReadAuxblob(t)
  <2>1. PICK found \in Answers(dir) :
          /\ entries' = [entries EXCEPT ![NameOf(t)].cache = found]
          /\ local' = [local EXCEPT ![t].auxblob = found.auxblob]
    BY <1>13 DEF ReadAuxblob
  <2>2. local' = [local EXCEPT ![t] = [l EXCEPT !.auxblob = found.auxblob]]
    BY <2>1
  <2> QED
    BY <1>11, <1>13, <2>1, <2>2 DEF ReadAuxblob, Goto, Holding
<1>14. CASE ReadAuxblobFails(t)
  <2>1. /\ [l EXCEPT !.auxblob = None] \in Local
        /\ [l EXCEPT !.auxblob = None].num = l.num
    BY <1>2 DEF Local, Chain
  <2> QED
    BY <1>2, <1>3, <1>14, <2>1 DEF ReadAuxblobFails, Goto, Holding
<1>15. CASE ReadGeneration(t)
  <2>1. PICK error \in {None, "Raced"} :
          local' = [local EXCEPT ![t] = [l EXCEPT !.failure = error]]
    BY <1>15 DEF ReadGeneration
  <2>2. /\ [l EXCEPT !.failure = error] \in Local
        /\ [l EXCEPT !.failure = error].num = l.num
    BY <1>2 DEF Local, Error
  <2> QED
    BY <1>2, <1>3, <1>15, <2>1, <2>2 DEF ReadGeneration, Goto, Holding
<1> QED
  BY <1>5, <1>7, <1>9, <1>10, <1>12, <1>13, <1>14, <1>15

\* A thread begins a call, takes a number or fails to make its directory.
LEMMA OutsideSteps ==
  ASSUME Ownership, NEW t \in Thread,
         Start(t) \/ TakeNumber(t) \/ MakeDirFails(t)
  PROVE  Ownership'
<1>1. CASE Start(t)
  <2>1. PICK op, request, delays :
          /\ Begin(t, op, request, delays)
          /\ [op |-> op, request |-> request] \in Call
          /\ delays \in Nat
    BY <1>1, ConfigFsAssumption DEF Start, Call
  <2>2. /\ pc[t] = "idle" /\ pc[t] \notin Holding
        /\ UNCHANGED <<provider, tcb, provisioned, entries, counter, opened>>
        /\ calls' \in [Proc -> Nat]
        /\ call' \in [Thread -> Call]
    BY <2>1, ProcType DEF Begin, Ownership, TypeOK, world, Holding
  <2>3. CASE op = "open" /\ provider = "absent"
    <3>1. Return(t, Failed("NoBackend"))
      BY <2>1, <2>3 DEF Begin
    <3>2. ThreadTypes'
      BY <3>1, ReturnType, ResultType DEF Ownership, Error
    <3>3. EntryOwned' /\ NoEntryLeak' /\ InblobWritten'
      BY <2>2, <3>1, OutsideStep, NewLocalType DEF Return, Goto
    <3> QED
      BY <2>2, <3>2, <3>3 DEF Ownership, TypeOK, ThreadTypes
  <2>4. CASE ~(op = "open" /\ provider = "absent")
    <3>1. /\ pc' = [pc EXCEPT ![t] = "number"]
          /\ backoff' = [backoff EXCEPT ![t] = delays]
          /\ result' = [result EXCEPT ![t] = NoResult]
          /\ local' = local
      BY <2>1, <2>4 DEF Begin, Goto
    <3>2. ThreadTypes'
      BY <2>1, <3>1, ResultType DEF ThreadTypes, Ownership, TypeOK, Label
    <3>3. local' = [local EXCEPT ![t] = local[t]] /\ local[t] \in Local
      BY <3>1 DEF Ownership, TypeOK
    <3>4. EntryOwned' /\ NoEntryLeak' /\ InblobWritten'
      BY <2>2, <3>1, <3>3, OutsideStep
    <3> QED
      BY <2>2, <3>2, <3>4 DEF Ownership, TypeOK, ThreadTypes
  <2> QED
    BY <2>3, <2>4
<1>2. CASE TakeNumber(t)
  <2>1. /\ pc[t] = "number" /\ pc[t] \notin Holding
        /\ counter[ProcOf[t]] \in Nat
        /\ counter' \in [Proc -> Nat]
        /\ pc' = [pc EXCEPT ![t] = "mkdir"]
        /\ UNCHANGED <<provider, tcb, provisioned, entries, opened, calls, call,
                       backoff, result>>
    BY <1>2, ProcType DEF TakeNumber, Goto, Ownership, TypeOK, world, Holding
  <2>2. [local[t] EXCEPT !.num = counter[ProcOf[t]]] \in Local
    BY <2>1 DEF Ownership, TypeOK, Local
  <2>3. local' = [local EXCEPT ![t] = [local[t] EXCEPT !.num = counter[ProcOf[t]]]]
    BY <1>2 DEF TakeNumber
  <2>4. EntryOwned' /\ NoEntryLeak' /\ InblobWritten'
    BY <2>1, <2>2, <2>3, OutsideStep
  <2>5. pc' \in [Thread -> Label] /\ local' \in [Thread -> Local]
    BY <2>1, <2>2, <2>3 DEF Ownership, TypeOK, Label
  <2> QED
    BY <2>1, <2>4, <2>5 DEF Ownership, TypeOK
<1>3. CASE MakeDirFails(t)
  <2>1. PICK error \in Error : Settle(t, Failed(error))
    BY <1>3, ConfigFsAssumption DEF MakeDirFails, Error
  <2>2. /\ pc[t] = "mkdir" /\ pc[t] \notin Holding
        /\ UNCHANGED <<provider, tcb, provisioned, entries, counter, opened,
                       calls, call>>
    BY <1>3 DEF MakeDirFails, world, proc, Holding
  <2>3. ThreadTypes'
    BY <2>1, SettleType, ResultType DEF Ownership
  <2>4. EntryOwned' /\ NoEntryLeak' /\ InblobWritten'
    BY <2>1, <2>2, SettleShape, OutsideStep, ResultType, NewLocalType DEF Ownership
  <2> QED
    BY <2>2, <2>3, <2>4 DEF Ownership, TypeOK, ThreadTypes
<1> QED
  BY <1>1, <1>2, <1>3

\* A process dies: its threads let go of everything, and the directories
\* they held are nobody's.
LEMMA CrashStep ==
  ASSUME Ownership, NEW p \in Proc, Crash(p)
  PROVE  Ownership'
<1> DEFINE dead == {t \in Thread : ProcOf[t] = p}
<1>1. /\ DOMAIN entries' = DOMAIN entries
      /\ \A n \in DOMAIN entries :
           IF entries[n].owner \in dead
           THEN entries'[n] = [entries[n] EXCEPT !.owner = None]
           ELSE entries'[n] = entries[n]
      /\ entries' \in [DOMAIN entries -> Directory]
  <2>1. \A dir \in Directory : [dir EXCEPT !.owner = None] \in Directory
    BY DEF Directory
  <2> QED
    BY <2>1 DEF Crash, Ownership, TypeOK
<1>2. \A n \in DOMAIN entries :
        /\ entries'[n].owner = IF entries[n].owner \in dead THEN None
                                                            ELSE entries[n].owner
        /\ entries'[n].inblob = entries[n].inblob
  BY <1>1 DEF Ownership, TypeOK, Directory
<1>3. /\ \A t \in dead : pc'[t] = "idle"
      /\ \A t \in Thread \ dead : pc'[t] = pc[t] /\ NameOf(t)' = NameOf(t)
  BY DEF Crash, NameOf, Ownership, TypeOK
<1>4. TypeOK'
  <2>1. /\ pc' \in [Thread -> Label] /\ backoff' \in [Thread -> Nat]
        /\ local' \in [Thread -> Local] /\ result' \in [Thread -> CallResult]
        /\ counter' \in [Proc -> Nat] /\ opened' \in [Proc -> BOOLEAN]
        /\ UNCHANGED <<provider, tcb, provisioned, calls, call>>
    BY NewLocalType, ResultType DEF Crash, Ownership, TypeOK, Label, world
  <2> QED
    BY <1>1, <2>1 DEF Ownership, TypeOK
<1>5. EntryOwned'
  BY <1>1, <1>2, <1>3 DEF EntryOwned, DirOf, Ownership, Holding
<1>6. NoEntryLeak'
  BY <1>1, <1>2, <1>3, ConfigFsAssumption DEF NoEntryLeak, Ownership
<1>7. InblobWritten'
  BY <1>1, <1>2, <1>3 DEF InblobWritten, EntryOwned, DirOf, Ownership, Holding
<1> QED
  BY <1>4, <1>5, <1>6, <1>7 DEF Ownership

\* Other writers change what directories hold, never whose they are.
LEMMA ForeignWriteStep ==
  ASSUME Ownership, NEW n \in DOMAIN entries, ForeignWrite(n)
  PROVE  Ownership'
<1>1. entries[n] \in Directory
  BY DEF Ownership, TypeOK
<1>2. PICK dir \in Directory :
        /\ entries' = [entries EXCEPT ![n] = dir]
        /\ dir.owner = entries[n].owner
        /\ entries[n].inblob # None => dir.inblob # None
  <2>1. CASE \E data \in Data :
               entries' = [entries EXCEPT ![n] = WithInblob(@, data)]
    <3>1. PICK data \in Data :
            entries' = [entries EXCEPT ![n] = WithInblob(entries[n], data)]
      BY <2>1
    <3>2. /\ WithInblob(entries[n], data) \in Directory
          /\ WithInblob(entries[n], data).owner = entries[n].owner
          /\ WithInblob(entries[n], data).inblob # None
      BY <1>1, WrittenType, NoneAssumption DEF WithInblob, Directory
    <3> QED
      BY <3>1, <3>2
  <2>2. CASE \E vmpl \in Level :
               entries' = [entries EXCEPT ![n] = WithPrivlevel(@, vmpl)]
    <3>1. PICK vmpl \in Level :
            entries' = [entries EXCEPT ![n] = WithPrivlevel(entries[n], vmpl)]
      BY <2>2
    <3>2. /\ WithPrivlevel(entries[n], vmpl) \in Directory
          /\ WithPrivlevel(entries[n], vmpl).owner = entries[n].owner
          /\ WithPrivlevel(entries[n], vmpl).inblob = entries[n].inblob
      BY <1>1, WrittenType DEF WithPrivlevel, Directory
    <3> QED
      BY <3>1, <3>2
  <2> QED
    BY <2>1, <2>2 DEF ForeignWrite
<1>3. EntriesType' /\ DOMAIN entries' = DOMAIN entries
  BY <1>2, UpdateType DEF Ownership, TypeOK, EntriesType
<1>4. \A m \in DOMAIN entries :
        /\ entries'[m].owner = entries[m].owner
        /\ entries[m].inblob # None => entries'[m].inblob # None
  BY <1>2 DEF Ownership, TypeOK
<1>5. UNCHANGED <<provider, tcb, provisioned, counter, opened, calls, pc, call,
                  backoff, local, result>>
  BY DEF ForeignWrite, world, proc
<1>6. TypeOK'
  BY <1>3, <1>5 DEF Ownership, TypeOK, EntriesType
<1>7. EntryOwned' /\ NoEntryLeak' /\ InblobWritten'
  BY <1>3, <1>4, <1>5
  DEF EntryOwned, NoEntryLeak, InblobWritten, NameOf, DirOf, Ownership, Holding
<1> QED
  BY <1>6, <1>7 DEF Ownership

\* A call stays the same from Begin to its return, and FirstAccess sends it
\* to the attributes of its own request.
LEMMA RightCallsStep ==
  ASSUME Ownership, RightCalls, Next
  PROVE  RightCalls'
<1> USE DEF Ownership, TypeOK
<1>1. ASSUME NEW t \in Thread, call' = call,
             NEW label \in Label, pc' = [pc EXCEPT ![t] = label],
             label \in {"privlevel", "inblob", "outblob", "auxblob", "generation"}
               => call[t].op \in Attesting,
             label = "privlevel" => call[t].request.vmpl # None,
             label = "attr" => call[t].op \in Inspecting
      PROVE  RightCalls'
  BY <1>1 DEF RightCalls
<1>2. ASSUME NEW t \in Thread, Start(t)
      PROVE  RightCalls'
  <2>1. PICK op, request, delays : Begin(t, op, request, delays)
    BY <1>2 DEF Start
  <2>2. /\ \A u \in Thread \ {t} : pc'[u] = pc[u] /\ call'[u] = call[u]
        /\ pc'[t] \in {"idle", "number"}
    BY <2>1 DEF Begin, Return, Goto
  <2> QED
    BY <2>2 DEF RightCalls
<1>3. ASSUME NEW t \in Thread, NEW error, FailWith(t, error)
      PROVE  RightCalls'
  BY <1>1, <1>3 DEF FailWith, Goto, Label, Holding
<1>4. ASSUME NEW t \in Thread, NEW res \in CallResult, Settle(t, res), call' = call
      PROVE  RightCalls'
  BY <1>1, <1>4, SettleShape DEF Label
<1>5. ASSUME NEW t \in Thread, Continue(t)
      PROVE  RightCalls'
  <2>1. CASE TakeNumber(t)
    BY <1>1, <2>1 DEF TakeNumber, Goto, Label
  <2>2. CASE MakeDir(t)
    <3>1. call[t].op \in Attesting \cup Inspecting
      BY CallType
    <3> QED
      BY <1>1, <2>2, <3>1 DEF MakeDir, Goto, FirstAccess, Label, Holding
  <2>3. CASE MakeDirFails(t)
    <3>1. PICK error \in Error : Settle(t, Failed(error))
      BY <2>3, ConfigFsAssumption DEF MakeDirFails, Error
    <3> QED
      BY <1>4, <2>3, <3>1, ResultType DEF MakeDirFails
  <2>4. CASE ReadAttr(t)
    BY <1>1, <2>4 DEF ReadAttr, Goto, Label, Holding
  <2>5. CASE ReadFloorFails(t) \/ SystemCallFails(t)
    BY <1>3, <2>5 DEF ReadFloorFails, SystemCallFails
  <2>6. CASE WritePrivlevel(t)
    BY <1>1, <2>6 DEF WritePrivlevel, WriteAttr, Goto, Label, Holding, RightCalls
  <2>7. CASE WriteInblob(t)
    BY <1>1, <2>7 DEF WriteInblob, WriteAttr, Goto, Label, Holding, RightCalls
  <2>8. CASE ReadOutblob(t)
    BY <1>1, <2>8 DEF ReadOutblob, Goto, Label, Holding, RightCalls
  <2>9. CASE ReadAuxblob(t)
    BY <1>1, <2>9 DEF ReadAuxblob, Goto, Label, Holding, RightCalls
  <2>10. CASE ReadAuxblobFails(t)
    BY <1>1, <2>10 DEF ReadAuxblobFails, Goto, Label, Holding, RightCalls
  <2>11. CASE ReadGeneration(t)
    BY <1>1, <2>11 DEF ReadGeneration, Goto, Label, Holding
  <2>12. CASE RemoveDir(t) \/ RemoveDirFails(t)
    BY <1>4, <2>12, VerdictType DEF RemoveDir, RemoveDirFails, Finish
  <2> QED
    BY <1>5, <2>1, <2>2, <2>3, <2>4, <2>5, <2>6, <2>7, <2>8, <2>9, <2>10, <2>11,
       <2>12 DEF Continue
<1>6. ASSUME NEW p \in Proc, Crash(p)
      PROVE  RightCalls'
  BY <1>6 DEF Crash, RightCalls
<1>7. ASSUME NEW n \in DOMAIN entries, ForeignWrite(n)
      PROVE  RightCalls'
  BY <1>7 DEF ForeignWrite, RightCalls
<1>8. CASE UpdateTcb
  BY <1>8 DEF UpdateTcb, RightCalls
<1> QED
  BY <1>2, <1>5, <1>6, <1>7, <1>8 DEF Next

-----------------------------------------------------------------------------
(***************************************************************************)
(* The theorems on types and ownership.                                    *)
(***************************************************************************)
LEMMA OwnershipStep ==
  ASSUME Ownership, RightCalls, [Next]_vars
  PROVE  Ownership' /\ RightCalls'
<1>1. CASE UNCHANGED vars
  BY <1>1
  DEF vars, world, proc, Ownership, RightCalls, TypeOK, EntryOwned, NoEntryLeak,
      InblobWritten, NameOf, DirOf
<1>2. ASSUME NEW t \in Thread, Continue(t)
      PROVE  Ownership'
  BY <1>2, OutsideSteps, MakeDirStep, AccessStep, FinishStep DEF Continue
<1>3. ASSUME UpdateTcb
      PROVE  Ownership'
  <2>1. UNCHANGED <<provider, provisioned, entries, counter, opened, calls, pc,
                    call, backoff, local, result>>
    BY <1>3 DEF UpdateTcb, proc
  <2>2. TypeOK'
    BY <1>3, <2>1 DEF UpdateTcb, Ownership, TypeOK
  <2>3. EntryOwned' /\ NoEntryLeak' /\ InblobWritten'
    BY <2>1
    DEF Ownership, EntryOwned, NoEntryLeak, InblobWritten, NameOf, DirOf
  <2> QED
    BY <2>2, <2>3 DEF Ownership
<1>4. CASE Next
  <2>1. Ownership'
    BY <1>2, <1>3, <1>4, OutsideSteps, CrashStep, ForeignWriteStep DEF Next
  <2> QED
    BY <1>4, <2>1, RightCallsStep
<1> QED
  BY <1>1, <1>4

LEMMA OwnershipInit ==
  ASSUME Init
  PROVE  Ownership /\ RightCalls
<1>1. DOMAIN entries = {} /\ entries \in [DOMAIN entries -> Directory]
  BY DEF Init
<1>2. TypeOK
  BY <1>1, NewLocalType, ResultType
  DEF Init, TypeOK, Label, Call, Inspecting
<1>3. \A t \in Thread : pc[t] = "idle"
  BY DEF Init
<1> QED
  BY <1>1, <1>2, <1>3
  DEF Ownership, EntryOwned, NoEntryLeak, InblobWritten, RightCalls, Holding

\* The invariant behind types and ownership holds of every behaviour.
THEOREM OwnershipInvariant == Spec => [](Ownership /\ RightCalls)
<1>1. Init => Ownership /\ RightCalls
  BY OwnershipInit
<1>2. Ownership /\ RightCalls /\ [Next]_vars => (Ownership /\ RightCalls)'
  BY OwnershipStep
<1> QED
  BY <1>1, <1>2, PTL DEF Spec

\* Every variable keeps its type, whatever the number of threads, processes
\* and retries, and whatever other writers and the host do.
THEOREM TypeCorrect == Spec => []TypeOK
<1>1. Ownership => TypeOK
  BY DEF Ownership
<1> QED
  BY <1>1, OwnershipInvariant, PTL

\* No two callers share a report directory: a thread that is working in one
\* owns it, although names collide between processes and across restarts.
THEOREM ExclusiveDirectories == Spec => []EntryOwned
<1>1. Ownership => EntryOwned
  BY DEF Ownership
<1> QED
  BY <1>1, OwnershipInvariant, PTL

\* A directory that a live Entry answers for is the one its thread works in:
\* no way out of an attempt leaves one behind, short of a failed removal.
THEOREM NoDirectoryLeaks == Spec => []NoEntryLeak
<1>1. Ownership => NoEntryLeak
  BY DEF Ownership
<1> QED
  BY <1>1, OwnershipInvariant, PTL

=============================================================================
