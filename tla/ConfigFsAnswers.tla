-------------------------- MODULE ConfigFsAnswers ---------------------------
(***************************************************************************)
(* Why an answer that survives the generation check is genuine, that       *)
(* ConfigFs keeps the promise of Attestation, and when a report comes      *)
(* without a chain.                                                        *)
(*                                                                         *)
(* The argument: generation and the thread's own count of writes agree     *)
(* only as long as nobody else has written.  While they agree, the         *)
(* directory holds exactly the attributes of the request, and whatever it  *)
(* has cached was answered to them.  Another write makes generation run    *)
(* ahead, and nothing ever lets the count catch up.                        *)
(***************************************************************************)
EXTENDS ConfigFsProofs

\* The steps between the creation of a directory and the generation check.
Asking == {"privlevel", "inblob", "outblob", "auxblob", "generation"}

\* What a directory nobody else has written holds.
Pristine(t) ==
  LET d == DirOf(t)  l == local[t]  r == call[t].request IN
  /\ d.privlevel = IF pc[t] = "privlevel" THEN None ELSE r.vmpl
  /\ pc[t] \in {"outblob", "auxblob", "generation"} => d.inblob = r.data
  /\ d.cache # None => Genuine(r, d.cache.outblob, d.cache.auxblob)
  /\ pc[t] \in {"auxblob", "generation"} =>
       d.cache # None /\ l.outblob = d.cache.outblob
  /\ pc[t] = "generation" => l.auxblob \in {None, d.cache.auxblob}

Counted(t) ==
  /\ pc[t] \in {"idle", "number", "mkdir"} => local[t].writes = 0
  /\ pc[t] \in Asking => /\ local[t].writes <= DirOf(t).gen
                         /\ local[t].writes = DirOf(t).gen => Pristine(t)
  /\ pc[t] = "rmdir" /\ call[t].op \in Attesting /\ local[t].failure = None
       => Genuine(call[t].request, local[t].outblob, local[t].auxblob)

Counting == \A t \in Thread : Counted(t)

\* A thread's step is invisible to the other threads and their directories.
LEMMA OthersUntouched ==
  ASSUME Ownership, RightCalls, NEW t \in Thread, Start(t) \/ Continue(t),
         NEW u \in Thread, u # t
  PROVE  /\ pc'[u] = pc[u] /\ call'[u] = call[u] /\ local'[u] = local[u]
         /\ pc[u] \in Holding => DirOf(u)' = DirOf(u)
<1> USE DEF Ownership, TypeOK
<1>1. ASSUME NEW label, pc' = [pc EXCEPT ![t] = label],
             NEW l, local' = [local EXCEPT ![t] = l],
             call' = call \/ \E c : call' = [call EXCEPT ![t] = c]
      PROVE  /\ pc'[u] = pc[u] /\ call'[u] = call[u] /\ local'[u] = local[u]
             /\ NameOf(u)' = NameOf(u)
  BY <1>1 DEF NameOf
<1>2. local = [local EXCEPT ![t] = local[t]]
  OBVIOUS
<1>3. ASSUME pc[t] \in Holding, pc[u] \in Holding
      PROVE  NameOf(u) # NameOf(t)
  BY <1>3, DistinctNames
<1>4. CASE Start(t)
  BY <1>1, <1>2, <1>4 DEF Start, Begin, Return, Goto, DirOf
<1>5. CASE TakeNumber(t)
  BY <1>1, <1>2, <1>5 DEF TakeNumber, Goto, DirOf
<1>6. CASE MakeDirFails(t)
  <2>1. PICK error \in Error : Settle(t, Failed(error))
    BY <1>6, ConfigFsAssumption DEF MakeDirFails, Error
  <2> QED
    BY <1>1, <1>6, <2>1, SettleShape, ResultType DEF MakeDirFails, DirOf
<1>7. CASE MakeDir(t)
  BY <1>1, <1>2, <1>7 DEF MakeDir, Goto, DirOf, EntryOwned
<1>8. CASE RemoveDir(t) \/ RemoveDirFails(t)
  <2>1. pc[t] \in Holding /\ call' = call
    BY <1>8 DEF RemoveDir, RemoveDirFails, Finish, Holding
  <2>2. /\ pc'[u] = pc[u] /\ call'[u] = call[u] /\ local'[u] = local[u]
        /\ NameOf(u)' = NameOf(u)
    BY <1>1, <1>8, <2>1, SettleShape, VerdictType
    DEF RemoveDir, RemoveDirFails, Finish
  <2>3. ASSUME pc[u] \in Holding
        PROVE  entries'[NameOf(u)] = entries[NameOf(u)]
    BY <1>3, <1>8, <2>1, <2>3 DEF RemoveDir, RemoveDirFails, EntryOwned
  <2> QED
    BY <2>2, <2>3 DEF DirOf
<1>9. ASSUME pc[t] \in Holding, NEW dir,
             \/ entries' = [entries EXCEPT ![NameOf(t)] = dir]
             \/ entries' = entries
      PROVE  pc[u] \in Holding => entries'[NameOf(u)] = entries[NameOf(u)]
  BY <1>3, <1>9 DEF EntryOwned
<1>10. CASE ReadAttr(t)
  BY <1>1, <1>2, <1>10 DEF ReadAttr, Goto, DirOf
<1>11. CASE ReadFloorFails(t) \/ SystemCallFails(t)
  BY <1>1, <1>11 DEF ReadFloorFails, SystemCallFails, FailWith, Goto, DirOf
<1>12. CASE WritePrivlevel(t) \/ WriteInblob(t)
  <2>1. pc[t] \in Holding
    BY <1>12 DEF WritePrivlevel, WriteInblob, Holding
  <2> QED
    BY <1>1, <1>9, <1>12, <2>1
    DEF WritePrivlevel, WriteInblob, WriteAttr, Goto, DirOf
<1>13. CASE ReadOutblob(t) \/ ReadAuxblob(t)
  <2>1. pc[t] \in Holding
    BY <1>13 DEF ReadOutblob, ReadAuxblob, Holding
  <2>2. PICK dir : entries' = [entries EXCEPT ![NameOf(t)] = dir]
    BY <1>13 DEF ReadOutblob, ReadAuxblob
  <2> QED
    BY <1>1, <1>9, <1>13, <2>1, <2>2 DEF ReadOutblob, ReadAuxblob, Goto, DirOf
<1>14. CASE ReadAuxblobFails(t) \/ ReadGeneration(t)
  BY <1>1, <1>14 DEF ReadAuxblobFails, ReadGeneration, Goto, DirOf
<1> QED
  BY <1>4, <1>5, <1>6, <1>7, <1>8, <1>10, <1>11, <1>12, <1>13, <1>14 DEF Continue

\* A provider that makes nothing up answers from the cache or from the
\* attributes as they are.
LEMMA HonestAnswers ==
  ASSUME Stray = {}, TypeOK, NEW r \in ReportRequest, NEW dir \in Directory,
         dir.privlevel = r.vmpl, dir.inblob = r.data,
         dir.cache # None => Genuine(r, dir.cache.outblob, dir.cache.auxblob),
         NEW found \in Answers(dir)
  PROVE  /\ found # None
         /\ Genuine(r, found.outblob, found.auxblob)
         /\ dir.cache # None => found = dir.cache
<1>1. [outblob : Stray, auxblob : {None, Malformed}] = {}
  OBVIOUS
<1>2. CASE dir.cache # None
  BY <1>2 DEF Answers
<1>3. CASE dir.cache = None
  <2>1. found = GuestRequest(dir)
    BY <1>1, <1>3 DEF Answers
  <2>2. GuestRequest(dir).outblob =
          [data |-> r.data,
           vmpl |-> IF r.vmpl = None THEN DefaultVmpl ELSE r.vmpl,
           tcb  |-> tcb]
    BY DEF GuestRequest
  <2>3. GuestRequest(dir).auxblob \in {None, tcb}
    BY DEF GuestRequest
  <2>4. GuestRequest(dir).outblob \in AttestationReport
    BY <2>2, ConfigFsAssumption DEF AttestationReport, ReportRequest, TypeOK
  <2>5. Genuine(r, found.outblob, found.auxblob)
    BY <2>1, <2>2, <2>3, <2>4, NoneAssumption DEF Genuine
  <2>6. found # None
    BY <2>1, <2>3, <2>4, BlobsAssumption DEF GuestRequest, Blobs, Chain, TypeOK
  <2> QED
    BY <1>3, <2>5, <2>6
<1> QED
  BY <1>2, <1>3

LEMMA CountedStep ==
  ASSUME Stray = {}, Ownership, RightCalls, NEW t \in Thread, Counted(t),
         Continue(t)
  PROVE  Counted(t)'
<1> DEFINE d == DirOf(t)
           l == local[t]
           r == call[t].request
           n == NameOf(t)
<1>1. /\ TypeOK /\ l \in Local /\ l.writes \in Nat
      /\ call[t].op \in Attesting => r \in ReportRequest
  BY CallType DEF Ownership, TypeOK, Local
<1>2. pc[t] \in Holding => /\ n \in DOMAIN entries
                           /\ d \in Directory /\ d.gen \in Nat
  BY DEF Ownership, EntryOwned, TypeOK, DirOf, Directory
<1>3. pc[t] \in Asking => pc[t] \in Holding /\ call[t].op \in Attesting
  BY DEF Asking, Holding, RightCalls
<1>4. ASSUME NEW label \in {"idle", "number"}, pc' = [pc EXCEPT ![t] = label],
             local' = [local EXCEPT ![t] = NewLocal]
      PROVE  Counted(t)'
  <2>1. pc'[t] \in {"idle", "number"} /\ local'[t].writes = 0
    BY <1>4 DEF Ownership, TypeOK, NewLocal
  <2> QED
    BY <2>1 DEF Counted, Asking
<1>5. CASE TakeNumber(t)
  <2>1. pc'[t] = "mkdir" /\ local'[t].writes = l.writes /\ pc[t] = "number"
    BY <1>5, <1>1 DEF TakeNumber, Goto, TypeOK, Local
  <2> QED
    BY <2>1 DEF Counted, Asking
<1>6. CASE MakeDir(t)
  <2>1. /\ pc[t] = "mkdir" /\ pc'[t] = FirstAccess(call[t])
        /\ UNCHANGED <<local, call>>
        /\ NameOf(t)' = n /\ entries'[n] = NewDirectory(t)
    BY <1>6 DEF MakeDir, Goto, NameOf, Ownership, TypeOK
  <2>2. local'[t].writes = 0 /\ DirOf(t)' = NewDirectory(t)
    BY <2>1 DEF Counted, DirOf
  <2>3. /\ pc'[t] \in {"attr", "inblob", "privlevel"}
        /\ pc'[t] = "inblob" => r.vmpl = None
    BY <2>1 DEF FirstAccess
  <2> QED
    BY <2>1, <2>2, <2>3, BlobsAssumption
    DEF Counted, Pristine, NewDirectory, Asking
<1>7. CASE MakeDirFails(t)
  <2>1. PICK error \in Error : Settle(t, Failed(error))
    BY <1>7, ConfigFsAssumption DEF MakeDirFails, Error
  <2> QED
    BY <1>1, <1>4, <2>1, SettleShape, ResultType
<1>8. CASE ReadAttr(t)
  <2>1. pc'[t] = "rmdir" /\ call' = call /\ pc[t] = "attr"
    BY <1>1, <1>8 DEF ReadAttr, Goto, TypeOK
  <2> QED
    BY <2>1 DEF Counted, RightCalls, Inspecting, Attesting, Asking
<1>9. CASE ReadFloorFails(t) \/ SystemCallFails(t)
  <2>1. PICK error \in Error : FailWith(t, error)
    BY <1>9, ConfigFsAssumption DEF ReadFloorFails, SystemCallFails, Error
  <2>2. pc'[t] = "rmdir" /\ local'[t].failure # None
    BY <1>1, <2>1, NoneAssumption DEF FailWith, Goto, TypeOK, Local
  <2> QED
    BY <2>2 DEF Counted, Asking
<1>10. CASE WritePrivlevel(t)
  <2>1. /\ pc[t] = "privlevel" /\ pc'[t] = "inblob" /\ call' = call
        /\ NameOf(t)' = n
        /\ entries'[n] = WithPrivlevel(d, r.vmpl)
        /\ local'[t].writes = l.writes + 1
    BY <1>1, <1>2, <1>10
    DEF WritePrivlevel, WriteAttr, Goto, NameOf, TypeOK, Local, Holding
  <2>2. DirOf(t)' = WithPrivlevel(d, r.vmpl)
    BY <2>1 DEF DirOf
  <2>3. /\ WithPrivlevel(d, r.vmpl).gen = d.gen + 1
        /\ WithPrivlevel(d, r.vmpl).privlevel = r.vmpl
        /\ WithPrivlevel(d, r.vmpl).cache = None
    BY <1>2, <2>1 DEF WithPrivlevel, Directory, Holding
  <2>4. l.writes <= d.gen
    BY <2>1 DEF Counted, Asking
  <2> QED
    BY <1>1, <1>2, <2>1, <2>2, <2>3, <2>4 DEF Counted, Pristine, Asking, Holding
<1>11. CASE WriteInblob(t)
  <2>1. /\ pc[t] = "inblob" /\ pc'[t] = "outblob" /\ call' = call
        /\ NameOf(t)' = n
        /\ entries'[n] = WithInblob(d, r.data)
        /\ local'[t].writes = l.writes + 1
    BY <1>1, <1>2, <1>11
    DEF WriteInblob, WriteAttr, Goto, NameOf, TypeOK, Local, Holding
  <2>2. DirOf(t)' = WithInblob(d, r.data)
    BY <2>1 DEF DirOf
  <2>3. /\ WithInblob(d, r.data).gen = d.gen + 1
        /\ WithInblob(d, r.data).privlevel = d.privlevel
        /\ WithInblob(d, r.data).inblob = r.data
        /\ WithInblob(d, r.data).cache = None
    BY <1>2, <2>1 DEF WithInblob, Directory, Holding
  <2>4. /\ l.writes <= d.gen
        /\ l.writes = d.gen => d.privlevel = r.vmpl
    BY <2>1 DEF Counted, Asking, Pristine
  <2> QED
    BY <1>1, <1>2, <2>1, <2>2, <2>3, <2>4 DEF Counted, Pristine, Asking, Holding
<1>12. ASSUME pc[t] \in {"outblob", "auxblob"}, NEW found \in Answers(d),
              l.writes = d.gen
       PROVE  /\ found # None
              /\ Genuine(r, found.outblob, found.auxblob)
              /\ d.cache # None => found = d.cache
  <2>1. Pristine(t) /\ r \in ReportRequest /\ d \in Directory
    BY <1>1, <1>2, <1>3, <1>12 DEF Counted, Asking
  <2> QED
    BY <1>1, <1>12, <2>1, HonestAnswers DEF Pristine
<1>13. ASSUME NEW found \in Answers(d), pc[t] \in Holding,
              entries' = [entries EXCEPT ![n].cache = found],
              local'[t].num = l.num
       PROVE  /\ DirOf(t)' = [d EXCEPT !.cache = found]
              /\ DirOf(t)'.gen = d.gen /\ DirOf(t)'.inblob = d.inblob
              /\ DirOf(t)'.privlevel = d.privlevel /\ DirOf(t)'.cache = found
  <2>1. NameOf(t)' = n /\ entries'[n] = [d EXCEPT !.cache = found]
    BY <1>1, <1>2, <1>13 DEF NameOf, DirOf, TypeOK
  <2>2. /\ [d EXCEPT !.cache = found].gen = d.gen
        /\ [d EXCEPT !.cache = found].inblob = d.inblob
        /\ [d EXCEPT !.cache = found].privlevel = d.privlevel
        /\ [d EXCEPT !.cache = found].cache = found
    BY <1>2, <1>13 DEF Directory
  <2>3. DirOf(t)' = [d EXCEPT !.cache = found]
    BY <2>1 DEF DirOf
  <2> QED
    BY <2>2, <2>3
<1>14. CASE ReadOutblob(t)
  <2>1. PICK found \in Answers(d) :
          /\ entries' = [entries EXCEPT ![n].cache = found]
          /\ local' = [local EXCEPT ![t].outblob = found.outblob]
    BY <1>14 DEF ReadOutblob
  <2>2. /\ pc[t] = "outblob" /\ pc'[t] = "auxblob" /\ call' = call
        /\ local'[t].writes = l.writes /\ local'[t].num = l.num
        /\ local'[t].outblob = found.outblob
    BY <1>1, <1>14, <2>1 DEF ReadOutblob, Goto, TypeOK, Local
  <2>3. /\ DirOf(t)'.gen = d.gen /\ DirOf(t)'.inblob = d.inblob
        /\ DirOf(t)'.privlevel = d.privlevel /\ DirOf(t)'.cache = found
    BY <1>13, <2>1, <2>2 DEF Holding
  <2>4. l.writes <= d.gen /\ (l.writes = d.gen => Pristine(t))
    BY <2>2 DEF Counted, Asking
  <2>5. ASSUME l.writes = d.gen
        PROVE  Pristine(t)'
    BY <1>12, <2>2, <2>3, <2>4, <2>5 DEF Pristine
  <2> QED
    BY <2>2, <2>3, <2>4, <2>5 DEF Counted, Asking
<1>15. CASE ReadAuxblob(t)
  <2>1. PICK found \in Answers(d) :
          /\ entries' = [entries EXCEPT ![n].cache = found]
          /\ local' = [local EXCEPT ![t].auxblob = found.auxblob]
    BY <1>15 DEF ReadAuxblob
  <2>2. /\ pc[t] = "auxblob" /\ pc'[t] = "generation" /\ call' = call
        /\ local'[t].writes = l.writes /\ local'[t].num = l.num
        /\ local'[t].outblob = l.outblob
        /\ local'[t].auxblob = found.auxblob
    BY <1>1, <1>15, <2>1 DEF ReadAuxblob, Goto, TypeOK, Local
  <2>3. /\ DirOf(t)'.gen = d.gen /\ DirOf(t)'.inblob = d.inblob
        /\ DirOf(t)'.privlevel = d.privlevel /\ DirOf(t)'.cache = found
    BY <1>13, <2>1, <2>2 DEF Holding
  <2>4. l.writes <= d.gen /\ (l.writes = d.gen => Pristine(t))
    BY <2>2 DEF Counted, Asking
  <2>5. ASSUME l.writes = d.gen
        PROVE  Pristine(t)'
    BY <1>12, <2>2, <2>3, <2>4, <2>5 DEF Pristine
  <2> QED
    BY <2>2, <2>3, <2>4, <2>5 DEF Counted, Asking
<1>16. CASE ReadAuxblobFails(t)
  <2>1. /\ pc[t] = "auxblob" /\ pc'[t] = "generation" /\ call' = call
        /\ local'[t].writes = l.writes /\ local'[t].num = l.num
        /\ local'[t].outblob = l.outblob /\ local'[t].auxblob = None
        /\ entries' = entries
    BY <1>1, <1>16 DEF ReadAuxblobFails, Goto, TypeOK, Local
  <2>2. DirOf(t)' = d
    BY <2>1 DEF DirOf, NameOf
  <2>3. l.writes <= d.gen /\ (l.writes = d.gen => Pristine(t))
    BY <2>1 DEF Counted, Asking
  <2>4. ASSUME l.writes = d.gen
        PROVE  Pristine(t)'
    BY <2>1, <2>2, <2>3, <2>4 DEF Pristine
  <2> QED
    BY <2>1, <2>2, <2>3, <2>4 DEF Counted, Asking
<1>17. CASE ReadGeneration(t)
  <2>1. /\ pc[t] = "generation" /\ pc'[t] = "rmdir" /\ call' = call
        /\ local'[t].outblob = l.outblob /\ local'[t].auxblob = l.auxblob
        /\ local'[t].failure = None => l.writes = d.gen
    BY <1>1, <1>2, <1>17, NoneAssumption
    DEF ReadGeneration, Goto, TypeOK, Local, Error
  <2>2. local'[t].failure = None => Pristine(t)
    BY <2>1 DEF Counted, Asking
  <2> QED
    BY <2>1, <2>2 DEF Counted, Pristine, Genuine, Asking
<1>18. CASE RemoveDir(t) \/ RemoveDirFails(t)
  BY <1>1, <1>4, <1>18, SettleShape, VerdictType
  DEF RemoveDir, RemoveDirFails, Finish
<1> QED
  BY <1>5, <1>6, <1>7, <1>8, <1>9, <1>10, <1>11, <1>14, <1>15, <1>16, <1>17, <1>18
  DEF Continue

\* Counted says nothing of a directory a thread does not hold.
LEMMA CountedFrame ==
  ASSUME Counting, NEW u \in Thread,
         pc'[u] = pc[u], call'[u] = call[u], local'[u] = local[u],
         pc[u] \in Holding => DirOf(u)' = DirOf(u)
  PROVE  Counted(u)'
<1>1. pc[u] \in Asking => pc[u] \in Holding
  BY DEF Asking, Holding
<1>2. Counted(u)
  BY DEF Counting
<1>3. CASE pc[u] \in Asking
  BY <1>1, <1>2, <1>3 DEF Counted, Pristine, Asking
<1>4. CASE pc[u] \notin Asking
  BY <1>2, <1>4 DEF Counted
<1> QED
  BY <1>3, <1>4

LEMMA CountingStep ==
  ASSUME Stray = {}, Ownership, RightCalls, Counting, [Next]_vars
  PROVE  Counting'
<1> USE DEF Counting
<1>1. CASE UNCHANGED vars
  <2>1. ASSUME NEW u \in Thread
        PROVE  Counted(u)'
    BY <1>1, CountedFrame DEF vars, DirOf, NameOf
  <2> QED
    BY <2>1
<1>2. ASSUME NEW t \in Thread, Start(t)
      PROVE  Counted(t)'
  <2>1. PICK op, request, delays : Begin(t, op, request, delays)
    BY <1>2 DEF Start
  <2>2. pc'[t] \in {"idle", "number"} /\ local'[t].writes = 0
    BY <2>1 DEF Begin, Return, Goto, Counted, Ownership, TypeOK, NewLocal
  <2> QED
    BY <2>2 DEF Counted, Asking
<1>3. ASSUME NEW t \in Thread, Start(t) \/ Continue(t)
      PROVE  Counting'
  <2>1. ASSUME NEW u \in Thread, u # t
        PROVE  Counted(u)'
    BY <1>3, <2>1, OthersUntouched, CountedFrame
  <2>2. Counted(t)'
    BY <1>2, <1>3, CountedStep
  <2> QED
    BY <2>1, <2>2
<1>4. ASSUME NEW p \in Proc, Crash(p)
      PROVE  Counting'
  <2> DEFINE dead == {t \in Thread : ProcOf[t] = p}
  <2>1. ASSUME NEW u \in dead
        PROVE  Counted(u)'
    <3>1. pc'[u] = "idle" /\ local'[u].writes = 0
      BY <1>4, <2>1 DEF Crash, NewLocal
    <3> QED
      BY <3>1 DEF Counted, Asking
  <2>2. ASSUME NEW u \in Thread \ dead
        PROVE  Counted(u)'
    <3>1. /\ pc'[u] = pc[u] /\ call'[u] = call[u] /\ local'[u] = local[u]
          /\ NameOf(u)' = NameOf(u)
      BY <1>4, <2>2 DEF Crash, NameOf
    <3>2. ASSUME pc[u] \in Holding
          PROVE  DirOf(u)' = DirOf(u)
      <4>1. NameOf(u) \in DOMAIN entries /\ entries[NameOf(u)].owner = u
        BY <3>2 DEF Ownership, EntryOwned, DirOf
      <4>2. entries'[NameOf(u)] = entries[NameOf(u)]
        BY <1>4, <2>2, <4>1 DEF Crash
      <4> QED
        BY <3>1, <4>2 DEF DirOf
    <3> QED
      BY <3>1, <3>2, CountedFrame
  <2> QED
    BY <2>1, <2>2
<1>5. ASSUME NEW m \in DOMAIN entries, ForeignWrite(m)
      PROVE  Counting'
  <2> SUFFICES ASSUME NEW u \in Thread
               PROVE  Counted(u)'
    OBVIOUS
  <2>1. /\ UNCHANGED <<pc, call, local>>
        /\ NameOf(u)' = NameOf(u)
    BY <1>5 DEF ForeignWrite, NameOf
  <2>2. CASE NameOf(u) # m \/ pc[u] \notin Asking
    <3>1. CASE NameOf(u) # m
      <4>1. pc[u] \in Holding => DirOf(u)' = DirOf(u)
        BY <1>5, <2>1, <3>1 DEF ForeignWrite, DirOf, Ownership, TypeOK, EntryOwned
      <4> QED
        BY <2>1, <4>1, CountedFrame
    <3>2. CASE pc[u] \notin Asking
      BY <2>1, <3>2 DEF Counted
    <3> QED
      BY <2>2, <3>1, <3>2
  <2>3. CASE NameOf(u) = m /\ pc[u] \in Asking
    <3>1. DirOf(u) \in Directory
      BY <1>5, <2>3 DEF DirOf, Ownership, TypeOK
    <3>2. DirOf(u)'.gen = DirOf(u).gen + 1
      <4>1. \/ \E data \in Data : entries'[m] = WithInblob(entries[m], data)
            \/ \E vmpl \in Level : entries'[m] = WithPrivlevel(entries[m], vmpl)
        BY <1>5 DEF ForeignWrite
      <4>2. entries'[m].gen = entries[m].gen + 1
        BY <2>3, <3>1, <4>1 DEF WithInblob, WithPrivlevel, Directory, DirOf
      <4> QED
        BY <2>1, <2>3, <4>2 DEF DirOf
    <3>3. local[u].writes \in Nat /\ DirOf(u).gen \in Nat
      BY <3>1 DEF Directory, Ownership, TypeOK, Local
    <3>4. local[u].writes <= DirOf(u).gen
      BY <2>3 DEF Counted
    <3>5. local'[u].writes <= DirOf(u)'.gen /\ local'[u].writes # DirOf(u)'.gen
      BY <2>1, <3>2, <3>3, <3>4
    <3> QED
      BY <2>1, <2>3, <3>5 DEF Counted, Asking
  <2> QED
    BY <2>2, <2>3
<1>6. ASSUME UpdateTcb
      PROVE  Counting'
  <2>1. ASSUME NEW u \in Thread
        PROVE  Counted(u)'
    BY <1>6, CountedFrame DEF UpdateTcb, DirOf, NameOf
  <2> QED
    BY <2>1
<1> QED
  BY <1>1, <1>3, <1>4, <1>5, <1>6 DEF Next

LEMMA CountingInit ==
  ASSUME Init
  PROVE  Counting
  BY DEF Init, Counting, Counted, Asking, NewLocal

\* With a provider that makes nothing up, every answer that survives the
\* generation check was made from the request of that very call, at the
\* level it asked for or the default, with the chain of that report -- for
\* any number of other writers, threads and processes.
THEOREM AnswersUntouched == Spec => []UntouchedAnswer
<1>1. CASE Stray = {}
  <2>1. Init => Ownership /\ RightCalls /\ Counting
    BY OwnershipInit, CountingInit
  <2>2. Ownership /\ RightCalls /\ Counting /\ [Next]_vars
          => (Ownership /\ RightCalls /\ Counting)'
    BY <1>1, OwnershipStep, CountingStep
  <2>3. Counting => UntouchedAnswer
    BY DEF Counting, Counted, UntouchedAnswer
  <2> QED
    BY <2>1, <2>2, <2>3, PTL DEF Spec
<1>2. CASE Stray # {}
  <2>1. UntouchedAnswer
    BY <1>2 DEF UntouchedAnswer
  <2> QED
    BY <2>1, PTL
<1> QED
  BY <1>1, <1>2

-----------------------------------------------------------------------------
(***************************************************************************)
(* Every step is a step of Attestation or changes nothing it sees.         *)
(***************************************************************************)
asked(t) == IF pc[t] # "idle" /\ call[t].op \in Attesting
            THEN call[t].request ELSE None
answer(t) == IF call[t].op \in Attesting THEN result[t] ELSE NoResult

\* A step that no thread's caller can see.
LEMMA Invisible ==
  ASSUME \A u \in Thread : asked(u)' = asked(u) /\ answer(u)' = answer(u)
  PROVE  UNCHANGED Promise!vars
  BY DEF Promise!vars, asked, answer

\* What a judged attempt returns is what was promised, or an error.
LEMMA VerdictPromised ==
  ASSUME Ownership, RightCalls, UntouchedAnswer, NEW t \in Thread,
         pc[t] = "rmdir", call[t].op \in Attesting
  PROVE  \/ \E error \in Error : Verdict(t) = Failed(error)
         \/ /\ Verdict(t).report # None
            /\ Promise!Promised(call[t].request, Verdict(t))
<1> DEFINE l == local[t]
           r == call[t].request
<1>1. /\ l.failure \in Error \cup {None}
      /\ l.outblob \in AttestationReport \cup {Malformed}
  BY DEF Ownership, TypeOK, Local
<1>2. CASE l.failure # None
  BY <1>1, <1>2 DEF Verdict
<1>3. CASE l.failure = None
  <2>1. Verdict(t) = Judge(call[t], l)
    BY <1>3 DEF Verdict, Attesting
  <2>2. "Parse" \in Error /\ "Mismatch" \in Error
    BY DEF Error
  <2>3. CASE l.outblob # Malformed /\ VerifyAnswers(r, l.outblob)
    <3>1. l.outblob # None
      BY <1>1, <2>3, NoneAssumption
    <3>2. Stray = {} => Genuine(r, l.outblob, l.auxblob)
      BY <1>3 DEF UntouchedAnswer
    <3>3. \A chain \in {None, l.auxblob} :
            Promise!Promised(r, Answered(l.outblob, chain))
      BY <2>3, <3>2
      DEF Promise!Promised, Promise!EffectiveVmpl, Promise!VerifyAnswers,
          VerifyAnswers, Answered, Genuine
    <3>4. \A chain : Answered(l.outblob, chain).report # None
      BY <3>1 DEF Answered
    <3> QED
      BY <2>1, <2>2, <2>3, <3>3, <3>4 DEF Judge
  <2>4. CASE ~(l.outblob # Malformed /\ VerifyAnswers(r, l.outblob))
    BY <2>1, <2>2, <2>4 DEF Judge
  <2> QED
    BY <2>3, <2>4
<1> QED
  BY <1>2, <1>3

\* The end of an attempt: another try nobody sees, or the result.
LEMMA SettlePromised ==
  ASSUME TypeOK, NEW t \in Thread, NEW res \in CallResult, Settle(t, res),
         pc[t] # "idle", call' = call,
         call[t].op \in Attesting =>
           \/ \E error \in Error : res = Failed(error)
           \/ res.report # None /\ Promise!Promised(call[t].request, res)
  PROVE  [Promise!Next]_(Promise!vars)
<1> USE DEF TypeOK
<1>1. \A u \in Thread \ {t} : asked(u)' = asked(u) /\ answer(u)' = answer(u)
  BY DEF asked, answer, Settle, Return, Goto
<1>2. CASE UNCHANGED result /\ pc'[t] = "number"
  <2>1. asked(t)' = asked(t) /\ answer(t)' = answer(t)
    BY <1>2 DEF asked, answer
  <2> QED
    BY <1>1, <2>1, Invisible
<1>3. CASE pc'[t] = "idle" /\ result'[t] = res
  <2>1. CASE call[t].op \notin Attesting
    <3>1. asked(t)' = asked(t) /\ answer(t)' = answer(t)
      BY <2>1 DEF asked, answer
    <3> QED
      BY <1>1, <3>1, Invisible
  <2>2. CASE call[t].op \in Attesting
    <3>1. /\ asked(t) = call[t].request /\ asked(t)' = None
          /\ answer(t)' = res /\ call[t].request # None
      BY <1>3, <2>2, CallType, NoneAssumption DEF asked, answer
    <3>2. CASE \E error \in Error : res = Failed(error)
      <4>1. PICK error \in Error : res = Failed(error)
        BY <3>2
      <4>2. Promise!Fail(t, error)
        BY <1>1, <3>1, <4>1
        DEF Promise!Fail, Promise!Failed, Failed, asked, answer
      <4> QED
        BY <4>2 DEF Promise!Next, Promise!Error, Error
    <3>3. CASE res.report # None /\ Promise!Promised(call[t].request, res)
      <4>1. Promise!Next
        BY <1>1, <3>1, <3>3 DEF Promise!Next, Promise!Answer, asked, answer
      <4> QED
        BY <4>1
    <3> QED
      BY <2>2, <3>2, <3>3
  <2> QED
    BY <2>1, <2>2
<1> QED
  BY <1>2, <1>3 DEF Settle, Return, Goto

LEMMA StartPromised ==
  ASSUME TypeOK, NEW t \in Thread, Start(t)
  PROVE  [Promise!Next]_(Promise!vars)
<1> USE DEF TypeOK
<1>1. PICK op, request, delays :
        /\ Begin(t, op, request, delays)
        /\ \/ op \in Attesting /\ request \in ReportRequest
           \/ op \in Inspecting /\ request = None
  BY DEF Start
<1>2. /\ \A u \in Thread \ {t} : asked(u)' = asked(u) /\ answer(u)' = answer(u)
      /\ asked(t) = None
      /\ call'[t] = [op |-> op, request |-> request]
  BY <1>1 DEF asked, answer, Begin, Return, Goto
<1>3. CASE op \in Attesting
  <2>1. request \in ReportRequest
    BY <1>1, <1>3 DEF Attesting, Inspecting
  <2>2. asked(t)' = request /\ answer(t)' = NoResult
    BY <1>1, <1>2, <1>3 DEF asked, answer, Begin, Goto, Attesting
  <2>3. Promise!Ask(t, request)
    BY <1>2, <2>2 DEF Promise!Ask, Promise!NoResult, NoResult, asked, answer
  <2> QED
    BY <2>1, <2>3 DEF Promise!Next, Promise!ReportRequest, ReportRequest
<1>4. CASE op \notin Attesting
  <2>1. asked(t)' = None /\ answer(t)' = NoResult
    BY <1>2, <1>4 DEF asked, answer
  <2>2. Promise!Abandon({t})
    BY <1>2, <2>1
    DEF Promise!Abandon, Promise!NoResult, NoResult, asked, answer
  <2>3. {t} \in SUBSET Thread
    OBVIOUS
  <2> QED
    BY <2>2, <2>3 DEF Promise!Next
<1> QED
  BY <1>3, <1>4

LEMMA ContinuePromised ==
  ASSUME Ownership, RightCalls, UntouchedAnswer, NEW t \in Thread, Continue(t)
  PROVE  [Promise!Next]_(Promise!vars)
<1> USE DEF Ownership, TypeOK
<1>1. ASSUME pc[t] # "idle", call' = call, result' = result,
             NEW label, label # "idle", pc' = [pc EXCEPT ![t] = label]
      PROVE  UNCHANGED Promise!vars
  BY <1>1, Invisible DEF asked, answer
<1>2. CASE TakeNumber(t) \/ ReadAttr(t) \/ ReadGeneration(t)
  BY <1>1, <1>2 DEF TakeNumber, ReadAttr, ReadGeneration, Goto
<1>3. CASE MakeDir(t)
  BY <1>1, <1>3 DEF MakeDir, FirstAccess, Goto
<1>4. CASE ReadFloorFails(t) \/ SystemCallFails(t)
  BY <1>1, <1>4 DEF ReadFloorFails, SystemCallFails, FailWith, Goto, Holding
<1>5. CASE WritePrivlevel(t) \/ WriteInblob(t)
  BY <1>1, <1>5 DEF WritePrivlevel, WriteInblob, WriteAttr, Goto
<1>6. CASE ReadOutblob(t) \/ ReadAuxblob(t) \/ ReadAuxblobFails(t)
  BY <1>1, <1>6 DEF ReadOutblob, ReadAuxblob, ReadAuxblobFails, Goto
<1>7. CASE MakeDirFails(t)
  <2>1. PICK error \in Error : Settle(t, Failed(error))
    BY <1>7, ConfigFsAssumption DEF MakeDirFails, Error
  <2>2. pc[t] # "idle" /\ call' = call
    BY <1>7 DEF MakeDirFails
  <2> QED
    BY <2>1, <2>2, SettlePromised, ResultType
<1>8. CASE RemoveDir(t) \/ RemoveDirFails(t)
  <2>1. pc[t] = "rmdir" /\ call' = call /\ Settle(t, Verdict(t))
    BY <1>8 DEF RemoveDir, RemoveDirFails, Finish
  <2> QED
    BY <2>1, SettlePromised, VerdictPromised, VerdictType
<1> QED
  BY <1>2, <1>3, <1>4, <1>5, <1>6, <1>7, <1>8 DEF Continue

LEMMA CrashPromised ==
  ASSUME TypeOK, NEW p \in Proc, Crash(p)
  PROVE  [Promise!Next]_(Promise!vars)
<1> USE DEF TypeOK
<1> DEFINE dead == {t \in Thread : ProcOf[t] = p}
<1>1. /\ \A u \in dead : asked(u)' = None /\ answer(u)' = NoResult
      /\ \A u \in Thread \ dead : asked(u)' = asked(u) /\ answer(u)' = answer(u)
  BY DEF Crash, asked, answer
<1>2. Promise!Abandon(dead)
  BY <1>1 DEF Promise!Abandon, Promise!NoResult, NoResult, asked, answer
<1>3. dead \in SUBSET Thread
  OBVIOUS
<1> QED
  BY <1>2, <1>3 DEF Promise!Next

\* Through configfs callers are answered as Attestation promises, whatever
\* interferes; with a provider that makes nothing up, as it promises callers
\* of a trusted kernel.
THEOREM PromiseKept == Spec => KeepsPromise
<1>1. Init => Promise!Init
  BY DEF Init, Promise!Init, Promise!NoResult, NoResult
<1>2. ASSUME Ownership, RightCalls, UntouchedAnswer, [Next]_vars
      PROVE  [Promise!Next]_(Promise!vars)
  <2>1. CASE UNCHANGED vars
    BY <2>1, Invisible DEF vars, asked, answer
  <2>2. ASSUME NEW n \in DOMAIN entries, ForeignWrite(n)
        PROVE  UNCHANGED Promise!vars
    BY <2>2, Invisible DEF ForeignWrite, asked, answer
  <2>3. CASE UpdateTcb
    BY <2>3, Invisible DEF UpdateTcb, asked, answer
  <2>4. TypeOK
    BY <1>2 DEF Ownership
  <2>5. CASE Next
    BY <1>2, <2>2, <2>3, <2>4, <2>5, StartPromised, ContinuePromised, CrashPromised
    DEF Next
  <2> QED
    BY <1>2, <2>1, <2>5
<1> QED
  BY <1>1, <1>2, OwnershipInvariant, AnswersUntouched, PTL
  DEF Spec, KeepsPromise, Promise!Spec

-----------------------------------------------------------------------------
(***************************************************************************)
(* An extended report that came without a chain although the host provides *)
(* one can only be the work of an auxblob that could not be read.          *)
(***************************************************************************)

\* What a directory has cached, what its thread has read from it and what
\* the thread returns carry the chain the host provides.
ChainCached == \A n \in DOMAIN entries :
                 entries[n].cache # None => entries[n].cache.auxblob # None

ChainCarried(t) ==
  /\ pc[t] = "generation" => local[t].auxblob # None
  /\ pc[t] = "rmdir" /\ call[t].op \in Attesting /\ local[t].failure = None
       => local[t].auxblob # None
  /\ pc[t] = "idle" /\ call[t].op = "extended_report" /\ result[t].report # None
       => result[t].chain # None

ChainKept == provisioned => ChainCached /\ \A t \in Thread : ChainCarried(t)

\* Every auxblob that is read is read with success.
AuxblobsRead == [][\A t \in Thread : ~ReadAuxblobFails(t)]_vars

LEMMA ResultUntouched ==
  ASSUME TypeOK, NEW t \in Thread, Start(t) \/ Continue(t),
         NEW u \in Thread, u # t
  PROVE  result'[u] = result[u] /\ provisioned' = provisioned
<1> USE DEF TypeOK, world
<1>1. CASE Start(t)
  BY <1>1 DEF Start, Begin, Return
<1>2. ASSUME NEW res, Settle(t, res)
      PROVE  result'[u] = result[u]
  BY <1>2 DEF Settle, Return
<1>3. CASE MakeDirFails(t) \/ RemoveDir(t) \/ RemoveDirFails(t)
  BY <1>2, <1>3 DEF MakeDirFails, RemoveDir, RemoveDirFails, Finish
<1>4. CASE Continue(t) /\ ~(MakeDirFails(t) \/ RemoveDir(t) \/ RemoveDirFails(t))
  BY <1>4 DEF Continue, TakeNumber, MakeDir, ReadAttr, ReadFloorFails,
              SystemCallFails, FailWith, WritePrivlevel, WriteInblob, WriteAttr,
              ReadOutblob, ReadAuxblob, ReadAuxblobFails, ReadGeneration
<1> QED
  BY <1>1, <1>3, <1>4

\* A new answer carries the chain of the host, a cached one carries what it
\* was cached with.
LEMMA ChainAnswered ==
  ASSUME Stray = {}, TypeOK, provisioned, NEW dir,
         dir.cache # None => dir.cache.auxblob # None,
         NEW found \in Answers(dir)
  PROVE  found.auxblob # None
<1>1. [outblob : Stray, auxblob : {None, Malformed}] = {}
  OBVIOUS
<1>2. GuestRequest(dir).auxblob = tcb /\ tcb # None
  BY NoneAssumption DEF GuestRequest, TypeOK
<1> QED
  BY <1>1, <1>2 DEF Answers

LEMMA ChainCachedStep ==
  ASSUME Stray = {}, Ownership, provisioned, ChainCached, [Next]_vars
  PROVE  ChainCached'
<1> USE DEF ChainCached, Ownership, TypeOK
<1>1. ASSUME entries' = entries
      PROVE  ChainCached'
  BY <1>1
<1>2. ASSUME NEW n \in DOMAIN entries, NEW dir,
             dir.cache # None => dir.cache.auxblob # None,
             entries' = [entries EXCEPT ![n] = dir]
      PROVE  ChainCached'
  BY <1>2
<1>3. ASSUME NEW dir \in Directory
      PROVE  /\ \A data : WithInblob(dir, data).cache = None
             /\ \A vmpl : WithPrivlevel(dir, vmpl).cache = None
             /\ \A owner : [dir EXCEPT !.owner = owner].cache = dir.cache
             /\ \A found : [dir EXCEPT !.cache = found].cache = found
  BY DEF WithInblob, WithPrivlevel, Directory
<1>4. ASSUME NEW t \in Thread, pc[t] \in Holding
      PROVE  NameOf(t) \in DOMAIN entries /\ DirOf(t) \in Directory
  BY <1>4 DEF EntryOwned, DirOf
<1>5. ASSUME NEW t \in Thread, Continue(t)
      PROVE  ChainCached'
  <2>1. CASE WritePrivlevel(t) \/ WriteInblob(t)
    <3>1. pc[t] \in Holding
      BY <2>1 DEF WritePrivlevel, WriteInblob, Holding
    <3>2. PICK dir : /\ entries' = [entries EXCEPT ![NameOf(t)] = dir]
                     /\ dir.cache = None
      BY <1>3, <1>4, <2>1, <3>1 DEF WritePrivlevel, WriteInblob, WriteAttr
    <3> QED
      BY <1>2, <1>4, <3>1, <3>2
  <2>2. CASE ReadOutblob(t) \/ ReadAuxblob(t)
    <3>1. pc[t] \in Holding
      BY <2>2 DEF ReadOutblob, ReadAuxblob, Holding
    <3>2. PICK found \in Answers(DirOf(t)) :
            entries' = [entries EXCEPT ![NameOf(t)].cache = found]
      BY <2>2 DEF ReadOutblob, ReadAuxblob
    <3>3. entries' = [entries EXCEPT ![NameOf(t)] = [DirOf(t) EXCEPT !.cache = found]]
      BY <3>2 DEF DirOf
    <3>4. DirOf(t).cache # None => DirOf(t).cache.auxblob # None
      BY <1>4, <3>1 DEF DirOf
    <3>5. found.auxblob # None
      BY <3>4, ChainAnswered
    <3>6. [DirOf(t) EXCEPT !.cache = found].cache = found
      BY <1>3, <1>4, <3>1
    <3> QED
      BY <1>2, <1>4, <3>1, <3>3, <3>5, <3>6
  <2>3. CASE MakeDir(t)
    BY <2>3 DEF MakeDir, NewDirectory
  <2>4. CASE RemoveDir(t)
    BY <2>4 DEF RemoveDir
  <2>5. CASE RemoveDirFails(t)
    <3>1. pc[t] \in Holding
      BY <2>5 DEF RemoveDirFails, Finish, Holding
    <3>2. entries' = [entries EXCEPT ![NameOf(t)] = [DirOf(t) EXCEPT !.owner = None]]
      BY <2>5 DEF RemoveDirFails, DirOf
    <3>3. [DirOf(t) EXCEPT !.owner = None].cache = DirOf(t).cache
      BY <1>3, <1>4, <3>1
    <3>4. DirOf(t).cache # None => DirOf(t).cache.auxblob # None
      BY <1>4, <3>1 DEF DirOf
    <3> QED
      BY <1>2, <1>4, <3>1, <3>2, <3>3, <3>4
  <2>6. CASE TakeNumber(t) \/ MakeDirFails(t) \/ ReadAttr(t) \/ ReadFloorFails(t)
    BY <1>1, <2>6 DEF TakeNumber, MakeDirFails, ReadAttr, ReadFloorFails, FailWith
  <2>7. CASE ReadAuxblobFails(t) \/ ReadGeneration(t) \/ SystemCallFails(t)
    BY <1>1, <2>7 DEF ReadAuxblobFails, ReadGeneration, SystemCallFails, FailWith
  <2> QED
    BY <1>5, <2>1, <2>2, <2>3, <2>4, <2>5, <2>6, <2>7 DEF Continue
<1>6. ASSUME NEW t \in Thread, Start(t)
      PROVE  ChainCached'
  BY <1>1, <1>6 DEF Start, Begin
<1>7. ASSUME NEW p \in Proc, Crash(p)
      PROVE  ChainCached'
  <2>1. /\ DOMAIN entries' = DOMAIN entries
        /\ \A n \in DOMAIN entries : entries'[n].cache = entries[n].cache
    BY <1>3, <1>7 DEF Crash
  <2> QED
    BY <2>1
<1>8. ASSUME NEW n \in DOMAIN entries, ForeignWrite(n)
      PROVE  ChainCached'
  <2>1. PICK dir : entries' = [entries EXCEPT ![n] = dir] /\ dir.cache = None
    BY <1>3, <1>8 DEF ForeignWrite
  <2> QED
    BY <1>2, <2>1
<1>9. CASE UpdateTcb \/ UNCHANGED vars
  BY <1>1, <1>9 DEF UpdateTcb, vars
<1> QED
  BY <1>5, <1>6, <1>7, <1>8, <1>9 DEF Next

LEMMA ChainCarriedStep ==
  ASSUME Stray = {}, Ownership, RightCalls, provisioned, ChainCached,
         NEW t \in Thread, ChainCarried(t), Continue(t), ~ReadAuxblobFails(t)
  PROVE  ChainCarried(t)'
<1> USE DEF Ownership, TypeOK
<1>1. ASSUME NEW res \in CallResult, Settle(t, res), call' = call,
             call[t].op = "extended_report" /\ res.report # None
               => res.chain # None
      PROVE  ChainCarried(t)'
  <2>1. /\ pc'[t] \in {"idle", "number"}
        /\ pc'[t] = "idle" => result'[t] = res
    BY <1>1 DEF Settle, Return, Goto
  <2> QED
    BY <1>1, <2>1 DEF ChainCarried
<1>2. CASE MakeDirFails(t)
  <2>1. PICK error \in Error : Settle(t, Failed(error))
    BY <1>2, ConfigFsAssumption DEF MakeDirFails, Error
  <2>2. Failed(error).report = None /\ call' = call
    BY <1>2 DEF Failed, MakeDirFails
  <2> QED
    BY <1>1, <2>1, <2>2, ResultType
<1>3. CASE RemoveDir(t) \/ RemoveDirFails(t)
  <2>1. pc[t] = "rmdir" /\ call' = call /\ Settle(t, Verdict(t))
    BY <1>3 DEF RemoveDir, RemoveDirFails, Finish
  <2>2. ASSUME call[t].op = "extended_report", Verdict(t).report # None
        PROVE  Verdict(t).chain # None
    <3>1. local[t].failure = None
      BY <2>2, NoneAssumption DEF Verdict, Failed, Local
    <3>2. local[t].auxblob # None
      BY <2>1, <2>2, <3>1 DEF ChainCarried, Attesting
    <3>3. Verdict(t) = Judge(call[t], local[t])
      BY <2>2, <3>1 DEF Verdict, Attesting
    <3> QED
      BY <2>2, <3>2, <3>3 DEF Judge, Failed, Answered
  <2> QED
    BY <1>1, <2>1, <2>2, VerdictType
<1>4. ASSUME pc'[t] \notin {"idle", "generation", "rmdir"}
      PROVE  ChainCarried(t)'
  BY <1>4 DEF ChainCarried
<1>5. CASE TakeNumber(t) \/ MakeDir(t) \/ WritePrivlevel(t) \/ WriteInblob(t)
           \/ ReadOutblob(t)
  BY <1>4, <1>5 DEF TakeNumber, MakeDir, FirstAccess, WritePrivlevel,
                    WriteInblob, WriteAttr, ReadOutblob, Goto
<1>6. CASE ReadAttr(t)
  BY <1>6 DEF ReadAttr, Goto, RightCalls, ChainCarried, Inspecting, Attesting
<1>7. CASE ReadFloorFails(t) \/ SystemCallFails(t)
  <2>1. PICK error \in Error : FailWith(t, error)
    BY <1>7, ConfigFsAssumption DEF ReadFloorFails, SystemCallFails, Error
  <2>2. pc'[t] = "rmdir" /\ local'[t].failure # None
    BY <2>1, NoneAssumption DEF FailWith, Goto, Local
  <2> QED
    BY <2>2 DEF ChainCarried
<1>8. CASE ReadAuxblob(t)
  <2>1. PICK found \in Answers(DirOf(t)) :
          local' = [local EXCEPT ![t].auxblob = found.auxblob]
    BY <1>8 DEF ReadAuxblob
  <2>2. pc[t] = "auxblob" /\ pc'[t] = "generation"
        /\ local'[t].auxblob = found.auxblob
    BY <1>8, <2>1 DEF ReadAuxblob, Goto, Local
  <2>3. DirOf(t).cache # None => DirOf(t).cache.auxblob # None
    BY <2>2 DEF ChainCached, EntryOwned, DirOf, Holding
  <2>4. found.auxblob # None
    BY <2>3, ChainAnswered
  <2> QED
    BY <2>2, <2>4 DEF ChainCarried
<1>9. CASE ReadGeneration(t)
  <2>1. pc[t] = "generation" /\ pc'[t] = "rmdir"
        /\ local'[t].auxblob = local[t].auxblob
    BY <1>9 DEF ReadGeneration, Goto, Local
  <2> QED
    BY <2>1 DEF ChainCarried
<1> QED
  BY <1>2, <1>3, <1>5, <1>6, <1>7, <1>8, <1>9 DEF Continue

LEMMA ChainKeptStep ==
  ASSUME Stray = {}, Ownership, RightCalls, ChainKept, [Next]_vars,
         [\A t \in Thread : ~ReadAuxblobFails(t)]_vars
  PROVE  ChainKept'
<1> USE DEF Ownership
<1>1. provisioned' = provisioned
  <2>1. \A t \in Thread : Start(t) \/ Continue(t) => provisioned' = provisioned
    BY DEF world, Start, Begin, Continue, TakeNumber, MakeDir, MakeDirFails,
           ReadAttr, ReadFloorFails, SystemCallFails, FailWith, WritePrivlevel,
           WriteInblob, WriteAttr, ReadOutblob, ReadAuxblob, ReadAuxblobFails,
           ReadGeneration, RemoveDir, RemoveDirFails, Finish
  <2> QED
    BY <2>1 DEF Next, Crash, ForeignWrite, UpdateTcb, vars, world
<1> SUFFICES ASSUME provisioned
             PROVE  ChainCached' /\ \A u \in Thread : ChainCarried(u)'
  BY <1>1 DEF ChainKept
<1>2. ChainCached /\ \A u \in Thread : ChainCarried(u)
  BY DEF ChainKept
<1>3. ChainCached'
  BY <1>2, ChainCachedStep
<1>4. ASSUME NEW u \in Thread, pc'[u] = pc[u], call'[u] = call[u],
             local'[u] = local[u], result'[u] = result[u]
      PROVE  ChainCarried(u)'
  BY <1>2, <1>4 DEF ChainCarried
<1>5. ASSUME NEW t \in Thread, Start(t) \/ Continue(t),
             ~ReadAuxblobFails(t), NEW u \in Thread
      PROVE  ChainCarried(u)'
  <2>1. CASE u # t
    BY <1>4, <1>5, <2>1, OthersUntouched, ResultUntouched
  <2>2. CASE u = t /\ Continue(t)
    BY <1>2, <1>5, <2>2, ChainCarriedStep
  <2>3. CASE u = t /\ Start(t)
    <3>1. pc'[t] \in {"idle", "number"} /\ result'[t].report = None
      BY <2>3 DEF Start, Begin, Return, Goto, Failed, NoResult, TypeOK
    <3> QED
      BY <2>3, <3>1 DEF ChainCarried
  <2> QED
    BY <1>5, <2>1, <2>2, <2>3
<1>6. ASSUME NEW p \in Proc, Crash(p), NEW u \in Thread
      PROVE  ChainCarried(u)'
  <2>1. \/ pc'[u] = "idle" /\ result'[u] = NoResult
        \/ /\ pc'[u] = pc[u] /\ call'[u] = call[u]
           /\ local'[u] = local[u] /\ result'[u] = result[u]
    BY <1>6 DEF Crash
  <2> QED
    BY <1>4, <2>1 DEF ChainCarried, NoResult
<1>7. CASE UNCHANGED <<pc, call, local, result>>
  BY <1>3, <1>4, <1>7
<1>8. UNCHANGED vars \/ \A t \in Thread : ~ReadAuxblobFails(t)
  OBVIOUS
<1>9. CASE UNCHANGED vars
  BY <1>3, <1>7, <1>9 DEF vars
<1>10. CASE Next /\ \A t \in Thread : ~ReadAuxblobFails(t)
  BY <1>3, <1>5, <1>6, <1>7, <1>10 DEF Next, ForeignWrite, UpdateTcb
<1> QED
  BY <1>8, <1>9, <1>10

\* Only an auxblob that could not be read makes an empty chain of one the
\* host provides: with every one of them read, and a provider that makes
\* nothing up, an extended report has no chain only when the host provides
\* none, whatever other system calls fail, other software writes and
\* processes die -- what CertTable::is_empty documents.
THEOREM EmptyOnlyUnread ==
  ASSUME Stray = {}
  PROVE  Spec /\ AuxblobsRead => []EmptyMeansUnprovisioned
<1>1. Init => ChainKept
  BY DEF Init, ChainKept, ChainCached, ChainCarried, NoResult
<1>2. ChainKept => EmptyMeansUnprovisioned
  BY DEF ChainKept, ChainCarried, EmptyMeansUnprovisioned
<1>3. Ownership /\ RightCalls /\ ChainKept /\ [Next]_vars
        /\ [\A t \in Thread : ~ReadAuxblobFails(t)]_vars => ChainKept'
  BY ChainKeptStep
<1> QED
  BY <1>1, <1>2, <1>3, OwnershipInvariant, PTL DEF Spec, AuxblobsRead

=============================================================================
