# A verification of `sev-snp`

`sev-snp` is a Rust library with which a program inside an AMD SEV-SNP guest
asks the processor's firmware for attestation reports, certificate chains and
derived keys. This directory holds TLA+ models of the library, TLC
configurations that check them on small instances, and proofs, checked by
TLAPS, of what they guarantee for every instance. Paths below are those of the
library's source tree (`src/lib.rs` is `src/src/lib.rs` in `PROJECT.json`).

- [The system](#the-system): components, state, operations, what is hard
- [The modules](#the-modules): which module models which part, and how
- [The runs](#the-runs): what TLC checks, with which bounds
- [Fairness](#fairness)
- [The proofs](#the-proofs)
- [Where code and documentation disagree](#where-code-and-documentation-disagree)
- [What is not modelled](#what-is-not-modelled)
- [The plan](#the-plan)


## The system

The library has no tasks, queues or background work: callers run its functions
on their own threads. What makes it hard is everything around those threads:
the kernel's two interfaces, the host that may change certificates and firmware
under a running guest, other software on the same interfaces, and the caller's
own other threads and processes.

| component | source | state it keeps | operations |
|---|---|---|---|
| request and answer | `backend/mod.rs`, `lib.rs`, `error.rs` | none | `ReportRequest`, `verify_answers`, `is_transient` |
| configfs transport | `backend/configfs.rs` | `COUNTER` (a static); report directories in the kernel | `open`, `privlevel_floor`, `report`, `extended_report`, `Entry` create and drop |
| device transport | `backend/ioctl.rs` | an open file; sequence numbers and the VMPCK in the kernel | `report`, `extended_report`, `derive_key`, `with_msg_version` |
| certificate table | `certs.rs` | the loop of `parse` | `parse`, lookups |
| firmware handle | `lib.rs`, `backend/mod.rs` | the open backends, the transport chosen | `open`, `open_with`, `report*`, `extended_report*`, `derive_key`, `retrying` |
| detection | `detect.rs`, `backend/mod.rs` | none | `is_snp_guest`, `any_available` |
| key requests | `key.rs` | the request being built | the builder, `validate`, `to_wire` |
| TCB versions, products | `tcb.rs` | none | CPUID encoding, product, layout, decode, encode |
| report parsing | `report.rs` | none | `parse`, accessors |
| policy and platform bits | `policy.rs` | none | bit tests |
| status codes | `error.rs` | none | tables, texts |
| examples | `examples/` | none | `derive_key`, `attest` |
| tests, build | `tests/`, `Cargo.toml` | none | |

How they interact. `Firmware` owns one or two backends and remembers which one
serves reports; each attempt of `retrying` goes through that choice again and
calls the backend, which talks to the kernel, parses what comes back with
`report.rs`, checks it with `verify_answers` and, for an extended report, parses
the certificates with `certs.rs`. Keys always go to the device. A report names
the processor and the TCB that `tcb.rs` takes apart; callers bind such a version
into a key request.

What is hard, and what would make each part correct:

- **configfs.** Directory names come from a counter per process and the pid, so
  threads, restarted processes and processes of other pid namespaces draw from
  one space of names: *no two callers may share a directory*. An attempt is
  five to seven system calls, any of which may fail, and each early return must
  *remove the directory*. The answer and the chain are two reads, and another
  writer may get between any two calls: *what survives the generation check
  must be the firmware's answer to this request, with its own chain*. Retries
  must *end*, be *bounded*, and never ask again on *an answer that was judged*.
- **device.** Every ioctl spends a sequence number, and a failed one may cost
  the VMPCK for good: *requests per call are bounded*. A busy hypervisor hides
  behind a generic errno and *must be waited for*. An extended report is a
  probe and a fetch, between which the host may provision other certificates:
  *the buffer stays sane*, *the call returns*, and *an empty chain means that
  there was none*, and *a chain certifies the report it comes with*. There is no
  generation counter: *`verify_answers` alone* keeps another request's report out.
- **certificate table.** The blob is the host's: it must be decoded *exactly as
  it declares itself*, *within its bounds*, with *bounded memory*, in *finitely
  many steps*, and a lookup must find *the first* of several entries of a kind.
- **handle and detection.** Interfaces come and go between the steps of `open`,
  which drops the errors of each: a handle must be *live*, *complete* and never
  on *a foreign provider*, and stay on *one transport*. Detection combines two
  checks, neither of which suffices: it must *not take a TDX guest or a host
  for an SNP guest*, also where the processor answers a leaf it does not have.
- **keys and TCB versions.** A value in the wrong place of the wire form, or a
  layout chosen for the wrong generation, gives another key or other numbers
  *without any error*: a key must come back *exactly where the facts it binds
  are the same*.
- **reports and bits.** One layout serves all versions, so that a field of later
  firmware reads as zero in an older report and must *not pass for a value*; a
  bit of a newer ABI must *turn up as unknown*; the numbers of a signature are
  stored the other way round.

`PROJECT.json` lists 34 such hazards, each at its line, with the properties that
would catch it going wrong.


## The modules

```
SnpRequest        the request, the report, the errors, verify_answers, is_transient
  Attestation     abstract: what a caller is promised, whatever the transport
  ConfigFs        the configfs transport        -- implements Attestation
    ConfigFsProofs     types and ownership of directories, proved
      ConfigFsAnswers  genuine answers, the refinement, empty tables, proved
      ConfigFsAttempts bounded and final attempts, names, returns, proved
  SevGuest        the device transport          -- implements Attestation
    SevGuestProofs     types, spending, waiting, buffers, rejections, proved
      SevGuestAnswers  empty tables and both refinements, proved
Firmware          the handle, the choice of transport, detection
  FirmwareProofs       live, complete, native handles; detection, proved
CertTable         the certificate parser
  CertTableProofs      the parser and the lookup, proved
Tcb               CPUID, products, TCB layouts (operators, no state)
Policy            the bit fields of a report (operators, no state)
  Report          the report and its accessors, over Tcb and Policy
    KeyDerivation the key builder, the wire form, sealing over reboots
      Examples    what the example programs derive and compare
        KeyDerivationProofs  keys, reports, TCB versions, examples, proved
```

Each `MC` module extends the module it instantiates with the definitions its
configurations need. An operator introduced as a *mutant* of another is that
operator with a plausible bug in it; no specification uses it. Each property of
a passing run is paired in `PROJECT.json` with a mutant that violates it, which
is how we know that it depends on the code it is about.

**Abstraction.** Report data are members of `Data`, levels members of `Level`.
A TCB version is a number that grows and a chain is known by the TCB it
certifies, except in `Tcb`, which is about the bytes. `Malformed` stands for any
bytes that do not parse, `None` for every `Option::None`, for an attribute that
nobody wrote and for an empty table. Error kinds are those the code tells apart;
payloads and texts are left out.

### SnpRequest and Attestation

`SnpRequest` has the two decisions both transports share: `VerifyAnswers`
(`verify_answers`: the data always, the level only when one was named) and
`IsTransient` (`is_transient`).

`Attestation` is the abstract specification. Each thread asks for one report at
a time and is given an error, or a report that answers *its* request. If the
kernel is `Trusted` to answer only what it was asked, then a request without a
level is answered at the default one, and a chain certifies the very report it
comes with.

### ConfigFs (`backend/configfs.rs`, `retrying` of `lib.rs`)

A thread takes one step per system call; `pc` names the next one, `local` holds
the variables of `run`, `backoff` the delays `retrying` has left.

| step | code |
|---|---|
| `Begin` | a call: through `Firmware` with every delay, on the backend with none |
| `TakeNumber`, `MakeDir`, `MakeDirFails` | `Entry::create`: `fetch_add`, `create_dir` |
| `ReadAttr`, `ReadFloorFails` | `provider`, `privlevel_floor` |
| `WritePrivlevel`, `WriteInblob` | `run`: `write_attr`, `writes += 1` |
| `ReadOutblob`, `ReadAuxblob`, `ReadAuxblobFails` | `run`: the answer; `unwrap_or_default` on the chain |
| `ReadGeneration` | `run`: `Raced` unless the generation is this attempt's writes |
| `SystemCallFails` | `?` on any other call |
| `RemoveDir`, `RemoveDirFails` | `Entry::drop`, then `Judge` (`parse`, `verify_answers`, the table) and `Settle` (`retrying`) |

`entries` is what the kernel holds. Reading an answer issues the guest request
unless the last answer is still valid; a write invalidates it and increments
the generation. Around the threads, `ForeignWrite` is other software writing an
attribute of any directory, `UpdateTcb` a firmware update, `Crash` a process
that dies in a call and starts again under the same pid, with a fresh counter
and its directories left behind. `Stray` is what a misbehaving provider may
answer in place of the firmware. The field `owner` is a ghost: the thread whose
`Entry` will remove the directory.

Assumed of the environment: other software writes attributes but does not
remove and recreate a directory somebody else works in, and a started machine
does not change its provider.

### SevGuest (`backend/ioctl.rs`, `retrying` of `lib.rs`)

The kernel serialises guest requests, so one ioctl, with what the code makes of
its outcome, is one step. `Ioctl(t)` is the set of outcomes: the two halves of
EXITINFO2, the errno, the status and payload of the response. `IssueError` is
`issue` with `from_exitinfo2`, `Plausible` is `requested_cert_len`, `Judge`
everything after a successful ioctl. `ProbeTooSmall`, `ProbeImplausible`,
`Rejected` and `Answer` are the four ways an ioctl is dealt with. Between the
ioctls of a call other threads make theirs and `Provision` changes the host's
certificates and TCB. The device may lose its VMPCK when a request fails, one of
this process or of another (`LoseKey`); all requests fail from then on.
`WithMsgVersion` gives the handle another message version: zero gives it up, and
the firmware rejects what is not version 1. `issued` and `last` are histories.

`honest` is whether the kernel answers every request itself; one that is not may
hand out anything of `Stray` instead. `SevGuest` implements `Attestation` twice:
with `Trusted` false always (`KeepsPromise`), and with `Trusted` true as long as
the kernel is honest (`KeepsTrustedPromise`).

A process that dies is not modelled here: the device keeps nothing of a request
that was not answered, so that a restart is another thread's call.

### CertTable (`certs.rs`)

One step per iteration of the loop of `parse`, split by how the iteration ends:
the entry limit, the end of the blob, the terminator, a body outside the blob,
a decoded entry. A blob is any length and any fields at any place. What it
*declares* (`Declares`) is defined without the loop. `Copied` is the memory that
decoding takes (`to_vec`): for each entry decoded, a copy of the bytes its body
covers. `FromGuid` and `Get` are
`CertKind::from_guid` and `CertTable::get` on what was decoded, `OfKind` the
places among which `get` finds the first.

### Firmware (`lib.rs`, `backend/mod.rs`, `detect.rs`)

One caller, one step per system call of `open`, `open_with`, `any_available` and
`is_snp_guest`; between any two, `ChangeWorld` lets the directory and the device
come, go or refuse. `features` are the transports compiled in, `arch` what the
machine is: an SNP guest, a TDX guest (with the directory, but another
provider), or a host. `cpuid` is what the processor says: whether it has leaf
0x8000_001F, and bit 4 of what it returns for it, which means something only
where it has (`SevSnp`). `Report` and `Attempt` are
`report_with` or `extended_report_with`, each attempt through `report_backend`;
what happens on the transport is the business of the two modules above, here it
succeeds, is transient or fails. `steady` (usable during the whole call),
`ever` (usable at some time of it) and `served` are histories.

### Tcb, Policy and Report (`tcb.rs`, `policy.rs`, `report.rs`)

`Tcb` has the conversions as operators on numbers and bytes, with the wrapping
of u8 and the cut to four bits. `Policy` has the accessors of the bit fields: a
raw value is the set of its bits, `GuestPolicy(raw)` and its like are all that
the accessors say of it. `Report` is the report as a record of raw fields with
its accessors: those that answer only from a version on, the product and TCB
named by it, the numbers of the signature.

### KeyDerivation (`key.rs`, `derive_key` of `backend/ioctl.rs`)

A guest takes a report, builds a request call by call, derives a key, seals with
it, reboots into a world that differs (image, policy bits, security version,
level, TCB, report version, kernel, processor) and derives again. The builder's
methods are the operators `WithRoot` ... `WithMit` on a request; the actions
apply them. `ToWire` is the wire form; `Received` is what arrives in the
firmware through a kernel that copies eight or ten words; `Accepts` and `Key`
are the firmware's rules as `key.rs` documents them, `Derived` the whole way of
a request. `asked` records the builder calls themselves, so that what the request
*means* is defined apart from what the builder makes of it.

A world is a `Machine`: a processor, a TCB, the launch facts, the levels, what
the firmware writes and what the kernel copies. Assumed of it (`WorldTypeOK`,
`CpuOK`) is what the processor manuals and `tcb.rs` take for granted: CPUID leaf
1 encodes the family, model and stepping as `Cpuid1Eax` says, the stepping has
four bits, families from 1Ah on pack their TCB versions as Turin does and have an
FMC number, others do not, and no chip's secret is that of a migration agent.
The numbers of a signature are functions from powers to digits, so that their
size is a parameter.

### Examples (`examples/derive_key.rs`, `examples/attest.rs`)

The example programs are sequences of derivations from one report. Each of their
functions is the set of pairs of keys it compares, with the relation it expects;
`AboveLaunch` and `BeyondLevels` are the requests they expect to be refused.
`Verdict` is what becomes of a pair: `ok` or `UNEXPECTED` where both keys are
derived, `refused` where the program says so and goes on, `stopped` where it ends
with the error. `ExamplesHold` gives the verdict of each pair but one in every
world, and where the firmware is updated between the report and the derivations,
and says which bindings are refused. `RollbackShown` gives the verdict of the
remaining pair, the current TCB and an older one, for each of the three TCBs that
the example may arrive at (`HasOlder`, `NothingOlder`, `Borrows`); it contradicts a
comment of the example, see [below](#where-code-and-documentation-disagree).
Security version numbers end at `MAX_SVN`, the largest u32 in the code and a
constant here, because the example saturates there.


## The runs

Every passing run is exhaustive within its bounds.

| run | what it asks | bounds |
|---|---|---|
| `configfs_names` | Do two processes with one pid and one mount ever work in each other's directory (`EntryOwned`), leak one on a way out (`NoEntryLeak`), or spend more than they may (`AttemptsBounded`)? All system calls may fail, processes restart anywhere. | 2 processes, 1 thread each, 2 calls each, 2 retries; 7 names per process, one more than 2 calls may take |
| `configfs_race` | Is what survives the generation check genuine (`UntouchedAnswer`), do calls answer as promised (`KeepsPromise`) and return (`CallsReturn`), while others write and the TCB changes? | 1 thread, 2 calls, 2 data, 2 levels, foreign writes up to generation 3 (more than the two writes of an attempt), 1 TCB update |
| `configfs_stray` | On a provider that hands out any report it ever saw: does a thread only get its own (`KeepsPromise`), is no judged answer asked for again (`AnswersFinal`), and are two threads on one handle never in each other's way (`OnlyLeftoversInTheWay`)? | 2 threads of one process, 3 calls, 1 retry |
| `configfs_leftover` | violated: is a leftover directory inert? | 1 process, 2 calls |
| `configfs_auxblob` | violated: does an empty table mean an unprovisioned host? | 1 call after `open` |
| `cert_table` | Is every blob decoded as declared (`Faithful`), accepted when it should be (`Accepting`), not amplified (`NoAmplification`), and decided (`Decided`)? Does a lookup find the first of its kind (`FirstOfKind`)? | all blobs of up to 13 bytes with 3-byte entries, limits of 12 bytes and 3 entries: blobs and tables on both sides of each limit, two entries of one kind; GUIDs with a name, without, and all zero |
| `cert_table_limit` | violated: is a table of `MAX_ENTRIES` entries accepted? | as above |
| `sev_guest` | Are requests bounded (`SpendBounded`), is a busy hypervisor waited for (`BusyExhausted`), is the buffer sane (`BufferSane`), does empty mean none (`EmptyMeansNone`), do calls return (`CallsReturn`), and are answers those promised, with a kernel that hands out anything (`KeepsPromise`) and one that is honest (`KeepsTrustedPromise`)? | 1 thread, 2 calls, 2 retries, every failure at every ioctl, certificates of 0, too many, and not whole pages, provisioned anew twice, message versions 0, 1 and 2 |
| `sev_guest_level` | violated: is a request that names no level accepted? | 1 call, guest at level 1 |
| `firmware` | Is a handle live, native, complete and on one transport; is detection right? | none needed: the state space is finite |
| `firmware_usable` | violated: is an available interface one that could be used? | as above |
| `key_derivation` | Does a key come back exactly where its facts do (`Reproducible`, `OutOfReach`), do TCB versions keep their meaning (`ReportNamesTcb`, `TcbSurvives`), are fields and bits read as they were written (`FieldsWritten`, `BitsAccounted`), do the examples see what they expect (`ExamplesHold`), and what of an older TCB (`RollbackShown`)? | 2 builder calls, 12 worlds: what may differ after a reboot, each named and unnamed generation, the largest family, report versions 2, 3, 5 and 17, microcode 0, a TCB with its lowest byte and one with every byte 0, the largest guest SVN; signature fields of 3 bytes that hold numbers of 2 |

Why the bounds are enough. `MaxCalls`, `MaxName`, `MaxGen`, `MaxTcb` and
`MaxIssued` are the only bounds in guards, and none of them cuts off a call:
`MaxName` is at least (Retries + 1) * MaxCalls, what `AttemptsBounded` says is
needed. Two calls per process let the second meet what the first left behind,
in the same process or after a restart. One thread with `ForeignWrite` stands for
one among many in `configfs_race`, because another thread can only reach its
directory as a foreign writer does (`EntryOwned`, proved for any number). One
thread of `sev_guest` stands for one among many too: calls share no state but
the VMPCK, which `LoseKey` takes at any time, and an answer of another thread is
one of `Stray`. Two
data and two levels are what a comparison with the right value can be told apart
with. Blobs reach one byte and one entry past each limit; the real limits differ
only in size. Two builder calls contain every pair: a fact bound twice, a fact
overwritten, two facts that might disturb each other. In `key_derivation` the
launch facts that differ between worlds are the policy and the measurement, the
first and the last, as all four are treated alike. Deadlock is checked where the system never stops
(`firmware`, `key_derivation`); elsewhere the bound on calls ends every run.


## Fairness

`FairSpec` of `ConfigFs` and `SevGuest` is weak fairness of `Continue(t)` for
each thread: once in a call, a thread keeps making its system calls, each of
which returns. It is what a scheduler gives to a runnable thread, and the code
never blocks on another thread: it takes no lock, and sleeps only the fixed
delays of `RETRY_BACKOFF`. Nothing is assumed of the rest: no call, interference,
failure, provisioning, crash or update ever has to happen, or to stop.
`CertTable` has weak fairness of `Next`: the loop runs on its own. `Firmware` and
`KeyDerivation` state no liveness property and no fairness.


## The proofs

Every safety property that a passing run checks is proved, and so are both
refinements of `Attestation` by `SevGuest`, the one by `ConfigFs`, and all action
properties. For each documented claim that the code does not keep, a theorem
narrows down why. The theorems hold for every value of
the constants; of these, they use only the named assumptions of the modules,
which TLC evaluates on every run, and where the tables below say so a condition of
their own: constants have their types
(`ConfigFsAssumption`, `SevGuestAssumption`, `CertTableAssumption`,
`FirmwareAssumption`, `ReportAssumption`), `None`, `Malformed` and `NoFmc` are
not values (`NoneAssumption`, `BlobsAssumption`, `NoFmcAssumption`), and worlds
are machines as described under KeyDerivation (`WorldAssumption`). The bounds
(`MaxCalls` and its like) are constants too: the theorems hold for any of them.

### ConfigFs

For every set of threads and processes, every assignment of pids (equal ones
included), any number of retries, calls, names, foreign writes and updates, and
any failures:

| module | theorem | states |
|---|---|---|
| `ConfigFsProofs` | `OwnershipInvariant` | `Spec => []Ownership`, the inductive invariant |
| | `TypeCorrect` | `Spec => []TypeOK` |
| | `ExclusiveDirectories` | `Spec => []EntryOwned` |
| | `NoDirectoryLeaks` | `Spec => []NoEntryLeak` |
| `ConfigFsAnswers` | `AnswersUntouched` | `Spec => []UntouchedAnswer` |
| | `PromiseKept` | `Spec => KeepsPromise`: ConfigFs implements Attestation |
| | `EmptyOnlyUnread` | `Spec /\ AuxblobsRead => []EmptyMeansUnprovisioned`, if `Stray = {}` |
| `ConfigFsAttempts` | `AttemptsLimited` | `Spec => []AttemptsBounded` |
| | `FinalAnswers` | `Spec => AnswersFinal` |
| | `LiveNeverInTheWay` | `Spec => []OnlyLeftoversInTheWay` |
| | `CallsComeCloser` | `Spec => CloserToReturn`: each step of a call leaves it fewer |

*Ownership.* Neither `EntryOwned` nor `NoEntryLeak` is inductive: a step of one
thread may disturb another only if both work under one name, which `EntryOwned`
excludes, but that a directory removed by its owner was the one it works in
takes `NoEntryLeak`, and that an answer is well typed takes that an answer is
only read after `inblob` was written (`InblobWritten`). Their conjunction with
`TypeOK` is the invariant `Ownership` (together with `RightCalls`: a thread
makes the system calls of its own operation). The argument does not need names
to be unique: two threads may well draw the same one, and `create_dir` turns the
second away.

*Genuine answers.* As long as the generation equals a thread's own count of
writes, nobody else has written, so the directory holds exactly the attributes
of the request and whatever is cached was answered to them (`Pristine`). Another
write makes the generation run ahead for good, as the count is never above it
(`Counted`). At the generation check the two agree only in the first case. The
attributes are rewritten, the TCB updated and processes restarted by other steps
that leave this relation alone.

*Refinement.* Calls in flight map to `asked`, results to `answer`. `Begin` of a
report is `Ask`; `RemoveDir`, `RemoveDirFails` and a `MakeDirFails` that is not
retried are `Answer` or `Fail`; `Crash` is `Abandon`; the rest stutter. With a
provider that makes answers up, `VerifyAnswers` in `Judge` is what the promise
rests on; with one that does not, `AnswersUntouched` adds the level and chain.

*Attempts.* `AttemptsBounded` bounds one counter by the calls of many threads,
which is a sum over them, and a sum is a fold. The invariant `Accounted` avoids
it by counting otherwise: every call of a process comes with `Retries + 1`
tickets, and there is an injection from the names taken since the process
started into tickets. Calls in flight hold the numbers of different calls, and
of its own each has as many unused tickets left as it may still take names
(`Owed`). Taking a name uses the ticket of the delays that are left; beginning a
call adds a number nobody used; a crash starts the accounts afresh. That an
injection bounds a cardinality is a fact of the library.

*Final answers.* An attempt that is repeated failed on the way (`FailureKind`): a
verdict is either a report or an error that `IsTransient` refuses.

*Names.* A number that an attempt holds was taken since its process started, so
that it is below the counter, and no other attempt of the process holds it
(`Numbered`). A directory that has an owner is the one its owner works in
(`NoEntryLeak`). Where pids are distinct, one in the way of a call would then be
that of a thread of the same process with the same number.

*Empty tables.* Where the host provides a chain, every answer in a cache has one
(`ChainCached`), so does what a thread read from it, and so does what the thread
returns (`ChainCarried`). The one step that would not keep this is
`ReadAuxblobFails`, which `AuxblobsRead` excludes; every other system call may fail.

*Return.* `StepsLeft` of a call is eight for each delay it has left, and what is
left of its attempt. A step of the call lowers it, another step never raises it, so
that a call makes at most `8 * (Retries + 1)` steps. This is the safety half
of `CallsReturn`: whatever others do, they cannot make a call longer. That a
call can always make a step (no deadlock short of `idle`), and does, is the other
half and left to TLC.

### SevGuest

For any number of threads, retries, levels, failures, provisioning and TCB
updates, and for a kernel that hands out anything:

| module | theorem | states |
|---|---|---|
| `SevGuestProofs` | `TypeCorrect` | `Spec => []TypeOK` |
| | `SpendingBounded` | `Spec => []SpendBounded` |
| | `BusyWaited` | `Spec => []BusyExhausted` |
| | `BuffersSane` | `Spec => []BufferSane` |
| | `RejectedOnlyForLevel` | `Spec => []RejectedForLevel` |
| | `DefaultAtZero` | `Spec => []DefaultLevelAccepted`, if `GuestLevel = 0` and `Version \subseteq {0, 1}` |
| `SevGuestAnswers` | `EmptyIsNone` | `Spec => EmptyMeansNone` |
| | `PromiseKept` | `Spec => KeepsPromise` |
| | `TrustedPromiseKept` | `Spec => KeepsTrustedPromise` |

*Types* take that a thread makes the ioctls of the operation it was called for,
and that a key derivation has no delay left (`RightIoctl`). *Spending* is
bounded by what was issued plus what the delays left still allow, at each place
of the loop (`Thrifty`): an extended report at its fetch may have spent one more
than at its probe. *Waiting*: a call that ends on a busy answer ends without
delays (`Patient`); *buffers*: a thread between requests holds none, one before
its fetch holds a plausible one (`Buffered`). As `SpendBounded` counts every step
of a call, it also says that a call makes a bounded number of steps.

*Rejections.* While ioctls do not fail of themselves and the handle has the
firmware's own message version (or was given up, after which no call is made,
`GivenUp`), a result with a firmware error is of a request whose level on the wire
is more privileged than the guest (`RejectedForLevel`). No request at VMPL 0 is.

*Answers.* Since an ioctl and what the code makes of it are one step, no history
is needed: an honest kernel's answer is the firmware's to this request, with the
chain of that very TCB (`HonestAnswer`), and a result with a report was judged
good (`JudgedGood`). Each step is seen by one caller at most, as a call that
begins, an error or a judged answer (`Seen`), which are the actions of
`Attestation`; the last lemma adds what an honest kernel promises.

### CertTable

For every blob, every size of an entry, every limit:

| theorem | states |
|---|---|
| `TypeCorrect` | `Spec => []TypeOK` |
| `MemoryBounded` | `Spec => []NoAmplification` |
| `DecodedFaithfully` | `Spec => []Faithful` |
| `DeclaredAccepted` | `Spec => []Accepting` |
| `AcceptedExactly` | `Spec => []AcceptsExactly`: which blobs are accepted |
| `FirstFound` | `Spec => []FirstOfKind` |

The invariant `Scanned`: what the loop has come past are entries with bodies
inside the blob, decoded as they stand (`Passed`); every outcome says what the
loop has come to (`ComeTo`); of the entries of each kind one comes first
(`Firsts`, which is what lets `get` choose). That entries lie one behind the
other is arithmetic with two unknown factors, which the lemmas `Places` and
`ReadableIndexed` keep out of everything else. *Memory*: what is decoded is a set
of copies, each of a byte of the blob for one of at most `MAX_ENTRIES` entries, so
that it has no more elements than the product of the two; how the lengths add up
is never needed. *Verdicts*: an outcome says what the loop met, and no
blob declares two tables, so that the outcome is the one its declaration calls for.

### Firmware

For whatever is compiled in, wherever it runs, any number of retries:

| theorem | states |
|---|---|
| `OpeningInvariant` | `Spec => []Opening`, the inductive invariant |
| `TypeCorrect` | `Spec => []TypeOK` |
| `BackendsLive` | `Spec => []LiveBackend` |
| `ForeignRefused` | `Spec => []NeverForeign` |
| `OpensCompletely` | `Spec => []OpenComplete` |
| `GuestsDetected` | `Spec => []GuestDetected` |
| `TransportFixed` | `Spec => FixedTransport` |
| `UsableUnlessRefused` | `Spec /\ []NoneRefuses => []UsableAsDocumented` |

`Opening` says what each step of a call knows (`Stage`): before the device is
tried, what was found was usable at some time, and if it was all along, it was
found; before a negative answer, the first check failed. `Watching` bounds what
is usable now by the histories `steady` and `ever`, `Lives` and `Serving` tie
the handle to what was opened and what served its requests. For
`UsableUnlessRefused`, what a look at the directory or the device found was there at
some time of the call (`Looked`), and what is there is usable where nothing refuses.

### KeyDerivation and Examples

For every set of worlds, values and builder calls, and signature numbers of any
size:

| theorem | states |
|---|---|
| `SealingInvariant` | `Spec => []Sealing`, the inductive invariant |
| `TypeCorrect` | `Spec => []TypeOK` |
| `KeysReproducible` | `Spec => []Reproducible` |
| `KeysOutOfReach` | `Spec => []OutOfReach` |
| `TcbNamedRight` | `Spec => []ReportNamesTcb` |
| `TcbRoundTrip` | `Spec => []TcbSurvives` |
| `PartsSurvive` | for all numbers and products: what is encoded is decoded again, up to an FMC the layout has no slot for |
| `FieldsAsWritten` | `Spec => []FieldsWritten` |
| `BitsNotLost` | `Spec => []BitsAccounted` |
| `ExamplesAsPromised` | `Spec => []ExamplesHold` |
| `RollbackAsShown` | `Spec => []RollbackShown` |

`Sealing`: the request reflects the builder calls (`Reflects`: the bits selected
are the facts asked for, each with its last value), the report is the one of
this world, a key in hand is what the request derives here, and what was sealed
was sealed with the key of some request in some world. From there on everything
is about operators. The wire form loses nothing but the vector, and that only
through an older kernel (`WireFaithful`); the accessors of a policy tell any two
policies apart (`PoliciesToldApart`); hence two keys are equal exactly where the
facts are (`KeyMeansFacts`). CPUID leaf 1 is read back as it was encoded and
encoded as the processor does (`CpuidRead`, `CpuidWritten`, which need the
digits of a number one by one); the layout follows from the family, with or
without a name (`ProductLayout`); so decoding gives the processor's numbers and
encoding gives its bytes (`LayoutRight`). For the examples: what each of their
requests is (`ExampleRequests`), when it is granted (`DerivedParts`), which
differences show in the key (`KeysDiffer`), and which TCB the example arrives at:
another one with no larger number (`OlderFound`), the same (`NothingOlderFound`),
or one whose lowest number is 255 (`BorrowFound`); `RollbackVerdict` says what
becomes of the pair in each case.

### Only model-checked

- Liveness (`CallsReturn` of both transports, `Decided`): TLAPS has no rule for
  fairness here, as it cannot reason about ENABLED. What of it is safety is
  proved: calls make a bounded number of steps (`CallsComeCloser`,
  `SpendingBounded`).
- That the first five documented claims below are violated: TLC finds the behaviours.
  What is proved of them is when they hold. Of the sixth, both are proved.

No module declares a RECURSIVE operator.


## Where code and documentation disagree

Each of the first five has a run that TLC finds violated, and a theorem that narrows
its cause down: under which condition the claim does hold, or what else cannot break it.

1. `configfs_leftover`. `Entry::drop` says that "a leftover directory is inert
   and will be reclaimed when configfs is unmounted" (`backend/configfs.rs:222`).
   After a restart under the same pid (pid 1 of a container), the counter starts
   at 0 again, `Entry::create` takes the leftover's name, and the call fails with
   `AlreadyExists`, which is not transient. Nothing else takes a name where pids
   are distinct (`LiveNeverInTheWay`).
2. `configfs_auxblob`. Any error in reading `auxblob` becomes an empty table
   (`backend/configfs.rs:139`), which `CertTable::is_empty` documents as "the
   host provisioned nothing" (`certs.rs:231`). With a provider that makes nothing
   up, no other failure does that (`EmptyOnlyUnread`).
3. `cert_table_limit`. `MAX_ENTRIES` is documented as the "most entries a table
   may declare" (`certs.rs:26`), but `parse` refuses a table of exactly that
   many, as it tests the limit before it looks for the terminator. Every smaller
   table within `BLOB_MAX` is accepted (`AcceptedExactly`).
4. `sev_guest_level`. "Leaving this unset lets the kernel use its default, which
   is the level the guest runs at" (`backend/mod.rs:83`); on the device, it asks
   for level 0 (`backend/ioctl.rs:197`), which a guest at another level is
   refused. A guest at level 0 is not (`DefaultAtZero`), and the level is the only
   reason for which the firmware rejects (`RejectedOnlyForLevel`).
5. `firmware_usable`. `any_available` asks "whether any usable guest interface
   exists" (`backend/mod.rs:194`), and `is_snp_guest` is true when "the kernel
   exposes a guest interface this crate can use" (`detect.rs:187`); the code only
   asks whether the directory or the device is there (`backend/mod.rs:198`), and
   says yes to a process that may open neither. Where nothing refuses, both are
   right (`UsableUnlessRefused`).
6. `RollbackShown`, of the run `key_derivation`, states the disagreement itself and
   passes. "Deriving against an older TCB is permitted [...] so the two keys existing
   and differing is exactly the property that makes rollback detectable"
   (`examples/derive_key.rs:126`). Where the report names its processor and the microcode is
   0, or it is of version 2, names none and its TCB is all zero, the step saturates
   (`examples/derive_key.rs:133`, `:137`): the "older" TCB is the current one, both
   keys are derived and are one key, and the example prints `UNEXPECTED` although
   nothing is wrong with the machine. Where a version 2 report has a zero in the
   lowest byte and not in every other, the step borrows, the lowest byte becomes
   255, and the key is refused, unless the machine has that number at 255. In all
   other cases the comment is right for a guest at the most privileged level, on
   every machine (`RollbackAsShown`).

Not a run, but found on the way: the comment on `CertKind::from_guid` that the
all-zero GUID never reaches it (`certs.rs:88`) does not hold for an entry of that
GUID with a body, which `Faithful` and `FirstOfKind` show to be decoded as an
unknown one all the same. And a guest SVN "above the launch" (`refused_bindings`)
is the SVN of the launch itself where that is `u32::MAX`
(`examples/derive_key.rs:177`), and then accepted (`ExamplesHold`).


## What is not modelled

- Fields of a report that are only copied out (host data, digests, ids, firmware
  versions, the other TCB versions): nothing depends on them.
- The tables and texts of `error.rs`, `Display` and `Debug` everywhere,
  `kds_name`: naming only.
- Bits and counts of `Capabilities` other than SEV-SNP: nothing decides by them.
- Opcodes, structure layouts and buffer addresses of `backend/ioctl.rs`: what the
  kernel's ABI fixes has no states to go wrong in.
- Wiping of `DerivedKey`: a state machine does not show what memory holds.
- The lengths of the delays: the model keeps how many there are.
- Signatures: the library does not check them, callers do.
- Products that no processor names: the family of a processor fits a u8 and its
  stepping four bits (`CpuOK`), so the wrap of the family sum and the cut of the
  stepping are in the operators of `Tcb` but no world reaches them.
- What the examples print beyond a verdict; the reports `attest` takes (requests on a handle as
  `Firmware` and the transports have them); tests and build files.


## The plan

In the order of how much of the system's purpose depends on each:

1. `SnpRequest`, `Attestation`, `ConfigFs`: modelled, checked; all safety
   properties and the refinement proved.
2. `SevGuest`: modelled, checked; all safety properties and both refinements
   proved.
3. `CertTable`: modelled, checked; all safety properties proved.
4. `Firmware`: modelled, checked; all properties proved.
5. `Tcb`, `Policy`, `Report`, `KeyDerivation`, `Examples`: modelled, checked; all
   properties proved.

What is left: to state what a caller of `Firmware` is promised over both
transports, which needs a composition of `Firmware` with `Attestation`.
