------------------------------ MODULE ConfigFs ------------------------------
(***************************************************************************)
(* The configfs-TSM transport: every attempt at a request creates a report *)
(* directory of its own, writes the attributes of the request, reads the   *)
(* answer and the generation counter, and removes the directory.           *)
(*                                                                         *)
(* Threads of several processes run calls concurrently, one system call    *)
(* per step.  Meanwhile the host updates the TCB, other software writes    *)
(* into the directories, any system call may fail, and a process may die   *)
(* at any point and start again.                                           *)
(*                                                                         *)
(* External, and modelled from how the code uses it: a directory of the    *)
(* kernel holds the attributes written to it, counts the writes in         *)
(* generation, and issues the guest request when an answer is read that a  *)
(* write has made out of date.                                             *)
(***************************************************************************)
EXTENDS SnpRequest

CONSTANTS
  Thread,
  Proc,
  ProcOf,        \* the process each thread runs in
  PidOf,         \* the pid of a process; equal pids are two pid namespaces
  Retries,       \* entries of RETRY_BACKOFF
  Operation,     \* the operations called, among those of Begin
  DefaultVmpl,   \* the level the kernel signs at when none is written
  Stray,         \* what a misbehaving provider may answer instead
  IoError,       \* how a system call may fail: among "IoBusy" and "Io"
  MaxCalls,      \* bound: calls a process makes, over its restarts
  MaxName,       \* bound: directory names a process takes between restarts
  MaxGen,        \* bound: the generation other writers stop at
  MaxTcb         \* bound: TCB updates of the host

ASSUME ConfigFsAssumption ==
  /\ ProcOf \in [Thread -> Proc]
  /\ None \notin Thread
  /\ Retries \in Nat /\ MaxCalls \in Nat /\ MaxName \in Nat
  /\ MaxGen \in Nat /\ MaxTcb \in Nat
  /\ Operation \subseteq {"open", "privlevel_floor", "report", "extended_report"}
  /\ DefaultVmpl \in Level
  /\ Stray \subseteq AttestationReport \cup {Malformed}
  /\ IoError \subseteq {"IoBusy", "Io"}

VARIABLES
  provider,      \* what the interface says it is, or "absent"
  tcb,           \* the TCB the host runs at
  provisioned,   \* whether the host provides a certificate chain
  entries,       \* the report directories that exist, by name
  counter,       \* per process: COUNTER of Entry::create
  opened,        \* per process: it holds a handle
  calls,         \* per process: calls made so far
  pc,            \* per thread: the system call it is about to make
  call,          \* per thread: the operation and request of its call
  backoff,       \* per thread: delays its call may still sleep
  local,         \* per thread: the variables of run
  result         \* per thread: what its last call returned

world == <<provider, tcb, provisioned>>
proc  == <<counter, opened, calls>>
vars  == <<world, entries, proc, pc, call, backoff, local, result>>

-----------------------------------------------------------------------------
(***************************************************************************)
(* The report directories.                                                 *)
(***************************************************************************)
Name == {PidOf[p] : p \in Proc} \X Nat

\* What outblob and auxblob read as.
Blobs == [outblob : AttestationReport \cup {Malformed},
          auxblob : Chain \cup {Malformed}]

ASSUME BlobsAssumption == None \notin Blobs

\* owner is a ghost: the thread whose Entry will remove the directory.
\* cache is what the last guest request was answered; a write clears it.
Directory ==
  [owner     : Thread \cup {None},
   gen       : Nat,
   inblob    : Data \cup {None},
   privlevel : Level \cup {None},
   cache     : Blobs \cup {None}]

NewDirectory(t) ==
  [owner |-> t, gen |-> 0, inblob |-> None, privlevel |-> None, cache |-> None]

\* The directory a thread works in.
NameOf(t) == <<PidOf[ProcOf[t]], local[t].num>>
DirOf(t)  == entries[NameOf(t)]

WithPrivlevel(dir, vmpl) ==
  [dir EXCEPT !.privlevel = vmpl, !.gen = @ + 1, !.cache = None]

WithInblob(dir, data) ==
  [dir EXCEPT !.inblob = data, !.gen = @ + 1, !.cache = None]

\* What the firmware answers to the attributes of a directory, now.
GuestRequest(dir) ==
  [outblob |-> [data |-> dir.inblob,
                vmpl |-> IF dir.privlevel = None THEN DefaultVmpl
                                                 ELSE dir.privlevel,
                tcb  |-> tcb],
   auxblob |-> IF provisioned THEN tcb ELSE None]

\* What reading an answer may find: the cached one, a new one, or whatever
\* a misbehaving provider makes up.
Answers(dir) ==
  IF dir.cache # None THEN {dir.cache}
  ELSE {GuestRequest(dir)}
       \cup [outblob : Stray, auxblob : {None, Malformed}]

-----------------------------------------------------------------------------
(***************************************************************************)
(* The threads.                                                            *)
(***************************************************************************)
Attesting == {"report", "extended_report"}
Inspecting == {"open", "privlevel_floor"}

Call == [op : Attesting, request : ReportRequest]
        \cup [op : Inspecting, request : {None}]

\* pc of a thread whose Entry exists.
Holding == {"attr", "privlevel", "inblob", "outblob", "auxblob",
            "generation", "rmdir"}

Label == {"idle", "number", "mkdir"} \cup Holding

Local == [num     : Nat,
          writes  : Nat,
          outblob : AttestationReport \cup {Malformed},
          auxblob : Chain \cup {Malformed},
          failure : Error \cup {None}]

\* A blob that was not read yet is no report.
NewLocal == [num |-> 0, writes |-> 0, outblob |-> Malformed, auxblob |-> None,
             failure |-> None]

Init ==
  /\ provider \in {"sev_guest", "tdx_guest", "absent"}
  /\ tcb = 0
  /\ provisioned \in BOOLEAN
  /\ entries = <<>>
  /\ counter = [p \in Proc |-> 0]
  /\ opened = [p \in Proc |-> FALSE]
  /\ calls = [p \in Proc |-> 0]
  /\ pc = [t \in Thread |-> "idle"]
  /\ call \in [Thread -> {[op |-> "open", request |-> None]}]
  /\ backoff = [t \in Thread |-> 0]
  /\ local = [t \in Thread |-> NewLocal]
  /\ result = [t \in Thread |-> NoResult]

Goto(t, label) == pc' = [pc EXCEPT ![t] = label]

Return(t, res) ==
  /\ Goto(t, "idle")
  /\ result' = [result EXCEPT ![t] = res]
  /\ local' = [local EXCEPT ![t] = NewLocal]
  /\ backoff' = [backoff EXCEPT ![t] = 0]

\* Mutants of Settle: one delay too many, and delays that are never used up.
SettleOnceMore(t, res) ==
  IF res.error # None /\ IsTransient(res.error) /\ backoff[t] >= 0
  THEN /\ backoff' = [backoff EXCEPT ![t] = @ - 1]
       /\ local' = [local EXCEPT ![t] = NewLocal]
       /\ Goto(t, "number")
       /\ UNCHANGED result
  ELSE Return(t, res)

SettleForever(t, res) ==
  IF res.error # None /\ IsTransient(res.error) /\ backoff[t] > 0
  THEN /\ local' = [local EXCEPT ![t] = NewLocal]
       /\ Goto(t, "number")
       /\ UNCHANGED <<backoff, result>>
  ELSE Return(t, res)

\* retrying: a transient error is tried again while a delay is left.  Every
\* operation but report_with and extended_report_with starts with none.
Settle(t, res) ==
  IF res.error # None /\ IsTransient(res.error) /\ backoff[t] > 0
  THEN /\ backoff' = [backoff EXCEPT ![t] = @ - 1]
       /\ local' = [local EXCEPT ![t] = NewLocal]
       /\ Goto(t, "number")
       /\ UNCHANGED result
  ELSE Return(t, res)

\* Mutant of Judge: only report checks that the report answers the request.
JudgeReportOnly(c, l) ==
  IF l.outblob = Malformed THEN Failed("Parse")
  ELSE IF c.op = "report"
       THEN IF VerifyAnswers(c.request, l.outblob)
            THEN Answered(l.outblob, None) ELSE Failed("Mismatch")
  ELSE IF l.auxblob = Malformed THEN Failed("Parse")
  ELSE Answered(l.outblob, l.auxblob)

\* report and extended_report: parse the report, verify_answers, then parse
\* the certificate table if there is to be one.
Judge(c, l) ==
  IF l.outblob = Malformed THEN Failed("Parse")
  ELSE IF ~VerifyAnswers(c.request, l.outblob) THEN Failed("Mismatch")
  ELSE IF c.op = "report" THEN Answered(l.outblob, None)
  ELSE IF l.auxblob = Malformed THEN Failed("Parse")
  ELSE Answered(l.outblob, l.auxblob)

\* What an attempt comes to once its Entry is gone.
Verdict(t) ==
  LET c == call[t]  l == local[t] IN
  CASE l.failure # None -> Failed(l.failure)
    [] l.failure = None /\ c.op \in Attesting -> Judge(c, l)
    [] l.failure = None /\ c.op = "open" ->
         IF provider = "sev_guest" THEN NoResult ELSE Failed("WrongProvider")
    [] l.failure = None /\ c.op = "privlevel_floor" -> NoResult

-----------------------------------------------------------------------------
(***************************************************************************)
(* The steps of a call.                                                    *)
(***************************************************************************)

\* A call through Firmware has every delay of RETRY_BACKOFF, one on the
\* backend itself has none.  Without a directory to look into, open is over
\* before it creates anything.
Begin(t, op, request, delays) ==
  LET p == ProcOf[t] IN
  /\ pc[t] = "idle" /\ calls[p] < MaxCalls
  /\ op \in Operation
  /\ op # "open" => opened[p]
  /\ calls' = [calls EXCEPT ![p] = @ + 1]
  /\ call' = [call EXCEPT ![t] = [op |-> op, request |-> request]]
  /\ IF op = "open" /\ provider = "absent"
     THEN Return(t, Failed("NoBackend"))
     ELSE /\ Goto(t, "number")
          /\ backoff' = [backoff EXCEPT ![t] = delays]
          /\ result' = [result EXCEPT ![t] = NoResult]
          /\ UNCHANGED local
  /\ UNCHANGED <<world, entries, counter, opened>>

\* Mutant of TakeNumber: COUNTER is read, and nobody moves it on.
TakeNumberUnmoved(t) ==
  LET p == ProcOf[t] IN
  /\ pc[t] = "number" /\ counter[p] < MaxName
  /\ local' = [local EXCEPT ![t].num = counter[p]]
  /\ Goto(t, "mkdir")
  /\ UNCHANGED <<world, entries, proc, call, backoff, result>>

\* Entry::create: COUNTER.fetch_add.
TakeNumber(t) ==
  LET p == ProcOf[t] IN
  /\ pc[t] = "number" /\ counter[p] < MaxName
  /\ local' = [local EXCEPT ![t].num = counter[p]]
  /\ counter' = [counter EXCEPT ![p] = @ + 1]
  /\ Goto(t, "mkdir")
  /\ UNCHANGED <<world, entries, opened, calls, call, backoff, result>>

\* Mutant of FirstAccess: the level of the request is never written.
FirstAccessNoLevel(c) == IF c.op \in Inspecting THEN "attr" ELSE "inblob"

\* The first step after the directory exists.
FirstAccess(c) ==
  IF c.op \in Inspecting THEN "attr"
  ELSE IF c.request.vmpl = None THEN "inblob" ELSE "privlevel"

\* Mutant of MakeDir: create_dir_all, which is content with one that is there.
MakeDirAll(t) ==
  /\ pc[t] = "mkdir"
  /\ entries' = [n \in DOMAIN entries \cup {NameOf(t)} |->
                   IF n \notin DOMAIN entries THEN NewDirectory(t)
                                             ELSE entries[n]]
  /\ Goto(t, FirstAccess(call[t]))
  /\ UNCHANGED <<world, proc, call, backoff, local, result>>

\* Entry::create: fs::create_dir, which only ever makes a new directory.
MakeDir(t) ==
  /\ pc[t] = "mkdir" /\ NameOf(t) \notin DOMAIN entries
  /\ entries' = [n \in DOMAIN entries \cup {NameOf(t)} |->
                   IF n = NameOf(t) THEN NewDirectory(t) ELSE entries[n]]
  /\ Goto(t, FirstAccess(call[t]))
  /\ UNCHANGED <<world, proc, call, backoff, local, result>>

\* The name is taken, or the kernel refuses: no Entry, nothing to remove.
MakeDirFails(t) ==
  /\ pc[t] = "mkdir"
  /\ \E error \in IF NameOf(t) \in DOMAIN entries THEN {"IoExists"}
                                                  ELSE IoError :
        Settle(t, Failed(error))
  /\ UNCHANGED <<world, entries, proc, call>>

\* Mutant of FailWith: the early return does not drop an Entry.
FailWithLeak(t, error) ==
  /\ Settle(t, Failed(error))
  /\ UNCHANGED <<world, entries, proc, call>>

\* An early return of run, provider or privlevel_floor: the Entry is dropped.
FailWith(t, error) ==
  /\ local' = [local EXCEPT ![t].failure = error]
  /\ Goto(t, "rmdir")
  /\ UNCHANGED <<world, entries, proc, call, backoff, result>>

\* provider or privlevel_floor read their attribute.
ReadAttr(t) ==
  /\ pc[t] = "attr"
  /\ Goto(t, "rmdir")
  /\ UNCHANGED <<world, entries, proc, call, backoff, local, result>>

\* privlevel_floor holds something that is not a number.
ReadFloorFails(t) ==
  /\ pc[t] = "attr" /\ call[t].op = "privlevel_floor"
  /\ FailWith(t, "InvalidArgument")

\* run: write_attr, then writes += 1.
WriteAttr(t, dir, label) ==
  /\ entries' = [entries EXCEPT ![NameOf(t)] = dir]
  /\ local' = [local EXCEPT ![t].writes = @ + 1]
  /\ Goto(t, label)
  /\ UNCHANGED <<world, proc, call, backoff, result>>

WritePrivlevel(t) ==
  /\ pc[t] = "privlevel"
  /\ WriteAttr(t, WithPrivlevel(DirOf(t), call[t].request.vmpl), "inblob")

WriteInblob(t) ==
  /\ pc[t] = "inblob"
  /\ WriteAttr(t, WithInblob(DirOf(t), call[t].request.data), "outblob")

\* Reading outblob is what actually issues the guest request.
ReadOutblob(t) ==
  /\ pc[t] = "outblob"
  /\ \E found \in Answers(DirOf(t)) :
        /\ entries' = [entries EXCEPT ![NameOf(t)].cache = found]
        /\ local' = [local EXCEPT ![t].outblob = found.outblob]
  /\ Goto(t, "auxblob")
  /\ UNCHANGED <<world, proc, call, backoff, result>>

ReadAuxblob(t) ==
  /\ pc[t] = "auxblob"
  /\ \E found \in Answers(DirOf(t)) :
        /\ entries' = [entries EXCEPT ![NameOf(t)].cache = found]
        /\ local' = [local EXCEPT ![t].auxblob = found.auxblob]
  /\ Goto(t, "generation")
  /\ UNCHANGED <<world, proc, call, backoff, result>>

\* run: unwrap_or_default turns a failed read into an empty blob.
ReadAuxblobFails(t) ==
  /\ pc[t] = "auxblob" /\ IoError # {}
  /\ local' = [local EXCEPT ![t].auxblob = None]
  /\ Goto(t, "generation")
  /\ UNCHANGED <<world, entries, proc, call, backoff, result>>

\* Mutant of ReadGeneration: it is enough that the attempt's writes happened.
ReadGenerationAtLeast(t) ==
  /\ pc[t] = "generation"
  /\ local' = [local EXCEPT ![t].failure =
                 IF DirOf(t).gen >= local[t].writes THEN None ELSE "Raced"]
  /\ Goto(t, "rmdir")
  /\ UNCHANGED <<world, entries, proc, call, backoff, result>>

\* run: Raced unless generation counts exactly the writes of this attempt.
\* None stands for text that is not a number, which reads as u64::MAX.
ReadGeneration(t) ==
  /\ pc[t] = "generation"
  /\ \E seen \in {DirOf(t).gen} \cup (IF IoError = {} THEN {} ELSE {None}) :
        local' = [local EXCEPT ![t].failure =
                    IF seen = local[t].writes THEN None ELSE "Raced"]
  /\ Goto(t, "rmdir")
  /\ UNCHANGED <<world, entries, proc, call, backoff, result>>

\* Every other system call on the directory returns its error with `?`.
SystemCallFails(t) ==
  /\ pc[t] \in Holding \ {"auxblob", "rmdir"}
  /\ \E error \in IoError : FailWith(t, error)

\* The Entry is dropped on every way out; then the attempt is settled.
Finish(t) ==
  LET p == ProcOf[t] IN
  /\ pc[t] = "rmdir"
  /\ Settle(t, Verdict(t))
  /\ opened' = [opened EXCEPT ![p] =
                  @ \/ (call[t].op = "open" /\ Verdict(t).error = None)]
  /\ UNCHANGED <<world, counter, calls, call>>

RemoveDir(t) ==
  /\ Finish(t)
  /\ entries' = [n \in DOMAIN entries \ {NameOf(t)} |-> entries[n]]

\* Entry::drop ignores that the directory could not be removed.
RemoveDirFails(t) ==
  /\ IoError # {}
  /\ Finish(t)
  /\ entries' = [entries EXCEPT ![NameOf(t)].owner = None]

-----------------------------------------------------------------------------
(***************************************************************************)
(* The world around the threads.                                           *)
(***************************************************************************)

\* A process dies and is started again: nothing is persisted, COUNTER is a
\* fresh static, and the directories its threads held stay behind.
Crash(p) ==
  LET dead == {t \in Thread : ProcOf[t] = p} IN
  /\ \E t \in dead : pc[t] # "idle"
  /\ counter' = [counter EXCEPT ![p] = 0]
  /\ opened' = [opened EXCEPT ![p] = FALSE]
  /\ pc' = [t \in Thread |-> IF t \in dead THEN "idle" ELSE pc[t]]
  /\ backoff' = [t \in Thread |-> IF t \in dead THEN 0 ELSE backoff[t]]
  /\ local' = [t \in Thread |-> IF t \in dead THEN NewLocal ELSE local[t]]
  /\ result' = [t \in Thread |-> IF t \in dead THEN NoResult ELSE result[t]]
  /\ entries' = [n \in DOMAIN entries |->
                   IF entries[n].owner \in dead
                   THEN [entries[n] EXCEPT !.owner = None]
                   ELSE entries[n]]
  /\ UNCHANGED <<world, calls, call>>

\* Other software writes into a report directory, whoever made it.
ForeignWrite(n) ==
  /\ n \in DOMAIN entries /\ entries[n].gen < MaxGen
  /\ \/ \E data \in Data :
          entries' = [entries EXCEPT ![n] = WithInblob(@, data)]
     \/ \E vmpl \in Level :
          entries' = [entries EXCEPT ![n] = WithPrivlevel(@, vmpl)]
  /\ UNCHANGED <<world, proc, pc, call, backoff, local, result>>

\* The host commits a new TCB and provides the chain that certifies it.
UpdateTcb ==
  /\ tcb < MaxTcb
  /\ tcb' = tcb + 1
  /\ UNCHANGED <<provider, provisioned, entries, proc, pc, call, backoff,
                 local, result>>

Start(t) ==
  \/ \E op \in Attesting, request \in ReportRequest, delays \in {0, Retries} :
       Begin(t, op, request, delays)
  \/ \E op \in Inspecting : Begin(t, op, None, 0)

Continue(t) ==
  \/ TakeNumber(t) \/ MakeDir(t) \/ MakeDirFails(t)
  \/ ReadAttr(t) \/ ReadFloorFails(t)
  \/ WritePrivlevel(t) \/ WriteInblob(t)
  \/ ReadOutblob(t) \/ ReadAuxblob(t) \/ ReadAuxblobFails(t)
  \/ ReadGeneration(t) \/ SystemCallFails(t)
  \/ RemoveDir(t) \/ RemoveDirFails(t)

Next ==
  \/ \E t \in Thread : Start(t) \/ Continue(t)
  \/ \E p \in Proc : Crash(p)
  \/ \E n \in DOMAIN entries : ForeignWrite(n)
  \/ UpdateTcb

Spec == Init /\ [][Next]_vars

\* A thread in a call keeps running; nothing obliges anyone to make a call,
\* to interfere, to die or to update.
FairSpec == Spec /\ \A t \in Thread : WF_vars(Continue(t))

-----------------------------------------------------------------------------
(***************************************************************************)
(* Correctness.                                                            *)
(***************************************************************************)
TypeOK ==
  /\ provider \in {"sev_guest", "tdx_guest", "absent"}
  /\ tcb \in Nat
  /\ provisioned \in BOOLEAN
  /\ DOMAIN entries \subseteq Name
  /\ entries \in [DOMAIN entries -> Directory]
  /\ counter \in [Proc -> Nat]
  /\ opened \in [Proc -> BOOLEAN]
  /\ calls \in [Proc -> Nat]
  /\ pc \in [Thread -> Label]
  /\ call \in [Thread -> Call]
  /\ backoff \in [Thread -> Nat]
  /\ local \in [Thread -> Local]
  /\ result \in [Thread -> CallResult]

\* No two callers ever share a report directory: the one a thread works in
\* exists and belongs to that thread, although threads of a process, pid
\* namespaces and restarted processes draw from the same names.
EntryOwned ==
  \A t \in Thread : pc[t] \in Holding =>
    /\ NameOf(t) \in DOMAIN entries
    /\ DirOf(t).owner = t

\* Every way out of an attempt removes its directory: one that a live Entry
\* answers for is the one its thread still works in.
NoEntryLeak ==
  \A n \in DOMAIN entries, t \in Thread : entries[n].owner = t =>
    /\ pc[t] \in Holding
    /\ NameOf(t) = n

\* The firmware made this report for this request, at the level it names or
\* the default, and the chain, if any, certifies this very report.
Genuine(request, outblob, auxblob) ==
  /\ outblob # Malformed
  /\ outblob.data = request.data
  /\ outblob.vmpl = IF request.vmpl = None THEN DefaultVmpl ELSE request.vmpl
  /\ auxblob \in {None, outblob.tcb}

\* The generation check alone protects what verify_answers cannot see: unless
\* the provider itself makes answers up, those that survive it are genuine.
UntouchedAnswer ==
  Stray = {} =>
    \A t \in Thread :
      pc[t] = "rmdir" /\ call[t].op \in Attesting /\ local[t].failure = None
      => Genuine(call[t].request, local[t].outblob, local[t].auxblob)

\* A call costs at most one directory per delay of RETRY_BACKOFF and one
\* more, whatever fails and however often processes restart.
AttemptsBounded == \A p \in Proc : counter[p] <= (Retries + 1) * calls[p]

\* An answer that was judged is final: only a failure the kernel expects the
\* guest to try again on sends a call back to make another directory, never
\* a report that does not parse or does not answer the request.
AnswersFinal ==
  [][\A t \in Thread :
       pc[t] = "rmdir" /\ pc'[t] = "number" =>
         local[t].failure \in {"Raced", "IoBusy"}]_vars

\* Every call returns: the retries of an attempt are exhausted by whatever
\* fails, and no thread waits on another.
CallsReturn == \A t \in Thread : pc[t] # "idle" ~> pc[t] = "idle"

\* Calls answer as promised by Attestation.
Promise == INSTANCE Attestation WITH
  Trusted <- Stray = {},
  asked   <- [t \in Thread |-> IF pc[t] # "idle" /\ call[t].op \in Attesting
                               THEN call[t].request ELSE None],
  answer  <- [t \in Thread |-> IF call[t].op \in Attesting
                               THEN result[t] ELSE NoResult]

KeepsPromise == Promise!Spec

\* The comment of Entry::drop, "a leftover directory is inert": one that a
\* process left behind never stands in the way of a later call.
LeftoverInert ==
  \A t \in Thread :
    pc[t] = "mkdir" /\ NameOf(t) \in DOMAIN entries => DirOf(t).owner # None

\* That is the only way a name is taken: between processes with pids of their
\* own, what is in the way of a call is never the directory of a live one, of
\* a thread on the same handle least of all.
OnlyLeftoversInTheWay ==
  (\A p, q \in Proc : PidOf[p] = PidOf[q] => p = q) =>
    \A t \in Thread :
      pc[t] = "mkdir" /\ NameOf(t) \in DOMAIN entries => DirOf(t).owner = None

\* The documentation of CertTable::is_empty, "which means the host provisioned
\* nothing": an extended report comes without a chain only then.
EmptyMeansUnprovisioned ==
  \A t \in Thread :
    pc[t] = "idle" /\ call[t].op = "extended_report"
    /\ result[t].report # None /\ result[t].chain = None
    => ~provisioned

=============================================================================
