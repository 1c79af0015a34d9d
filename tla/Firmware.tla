------------------------------ MODULE Firmware ------------------------------
(***************************************************************************)
(* The handle callers hold: Firmware::open and open_with pick the transport*)
(* that will serve reports, every attempt at a request goes through that   *)
(* choice again, and is_snp_guest looks at the same two interfaces.        *)
(*                                                                         *)
(* A system call is one step.  Between the steps of a call, kernel modules *)
(* are loaded and unloaded and permissions change, so an interface may     *)
(* come, go, or refuse to speak at any time.  What an attempt does on its  *)
(* transport is the business of ConfigFs and SevGuest: here it succeeds, is*)
(* told to try again, or fails.                                            *)
(***************************************************************************)
EXTENDS Naturals

CONSTANTS
  Retries,       \* entries of RETRY_BACKOFF
  None           \* no handle, no transport

Transport == {"configfs", "ioctl"}

ASSUME FirmwareAssumption == Retries \in Nat /\ None \notin Transport

VARIABLES
  features,      \* the transports compiled in
  arch,          \* what the machine really is
  cpuid,         \* what CPUID says of memory encryption
  tsm,           \* the configfs-TSM directory
  device,        \* the /dev/sev-guest node
  pc,            \* the step the caller is about to take
  call,          \* the operation under way, or the last one
  found,         \* the transports open has found so far
  backoff,       \* delays the call may still sleep
  handle,        \* the handle the caller holds, or None
  result,        \* what the last call returned
  steady,        \* transports usable ever since the call began, a history
  ever,          \* transports usable at some time since, a history
  served         \* transports the handle sent report requests to, a history

machine == <<features, arch, cpuid>>
world   == <<tsm, device>>
usable  == <<steady, ever>>
vars    == <<machine, world, pc, call, found, backoff, handle, result, usable,
             served>>

-----------------------------------------------------------------------------
(***************************************************************************)
(* The machine.  A TDX guest has the directory, but under another provider;*)
(* a host may have the CPUID bit but neither interface.                    *)
(***************************************************************************)
World(a) ==
  CASE a = "snp"  -> {"absent", "mute", "there"} \X {"absent", "denied", "there"}
    [] a = "tdx"  -> {"absent", "mute", "there"} \X {"absent"}
    [] a = "host" -> {<<"absent", "absent">>}

\* Whether leaf 0x8000_001F is among the extended leaves, and bit 4 of what
\* the processor returns for it.  A processor without the leaf returns
\* something else: Intel's, what the last basic leaf holds.
Cpuid == [leaf : BOOLEAN, bit4 : BOOLEAN]

CpuidOf(a) ==
  CASE a = "snp"  -> [leaf : {TRUE}, bit4 : {TRUE}]
    [] a = "tdx"  -> [leaf : {FALSE}, bit4 : BOOLEAN]
    [] a = "host" -> Cpuid

Usable(tsmNow, deviceNow) ==
  {t \in features :
     IF t = "configfs" THEN arch = "snp" /\ tsmNow = "there"
                       ELSE deviceNow = "there"}

Handle == [transport : Transport, opened : SUBSET Transport]

Call == [op : {"open", "report", "derive_key", "any_available", "is_snp_guest"},
         wanted : {None}]
        \cup [op : {"open_with"}, wanted : Transport]

Init ==
  /\ features \in (SUBSET Transport) \ {{}}
  /\ arch \in {"snp", "tdx", "host"}
  /\ cpuid \in CpuidOf(arch)
  /\ \E w \in World(arch) : tsm = w[1] /\ device = w[2]
  /\ pc = "idle"
  /\ call = [op |-> "any_available", wanted |-> None]
  /\ found = {}
  /\ backoff = 0
  /\ handle = None
  /\ result = "none"
  /\ steady = {} /\ ever = {}
  /\ served = {}

\* Interfaces come and go under a running call.
ChangeWorld ==
  /\ \E w \in World(arch) : tsm' = w[1] /\ device' = w[2]
  /\ steady' = steady \cap Usable(tsm', device')
  /\ ever' = ever \cup Usable(tsm', device')
  /\ UNCHANGED <<machine, pc, call, found, backoff, handle, result, served>>

Begin(c, label) ==
  /\ pc = "idle"
  /\ call' = c
  /\ pc' = label
  /\ found' = {}
  /\ backoff' = IF c.op = "report" THEN Retries ELSE 0
  /\ result' = "none"
  /\ steady' = Usable(tsm, device) /\ ever' = Usable(tsm, device)
  /\ UNCHANGED <<machine, world, handle, served>>

Return(res) ==
  /\ pc' = "idle"
  /\ result' = res
  /\ UNCHANGED <<machine, world, call, found, backoff, handle, usable, served>>

Goto(label) ==
  /\ pc' = label
  /\ UNCHANGED <<machine, world, call, found, backoff, handle, result, usable,
                 served>>

-----------------------------------------------------------------------------
(***************************************************************************)
(* open and open_with.                                                     *)
(***************************************************************************)
Open ==
  Begin([op |-> "open", wanted |-> None],
        IF "configfs" \in features THEN "dir" ELSE "device")

OpenWith(transport) ==
  /\ transport \in features
  /\ Begin([op |-> "open_with", wanted |-> transport],
           IF transport = "configfs" THEN "dir" ELSE "device")

Hold(transport, opened) ==
  /\ pc' = "idle"
  /\ result' = "ok"
  /\ found' = opened
  /\ handle' = [transport |-> transport, opened |-> opened]
  /\ served' = {}
  /\ UNCHANGED <<machine, world, call, backoff, usable>>

\* Mutant of Select: whatever is open, reports go to configfs if it is
\* compiled in.
SelectCompiled(opened) ==
  IF opened = {} THEN Return("NoBackend")
  ELSE Hold(IF "configfs" \in features THEN "configfs" ELSE "ioctl", opened)

\* open prefers configfs; it fails only when it has found nothing.
Select(opened) ==
  IF "configfs" \in opened THEN Hold("configfs", opened)
  ELSE IF "ioctl" \in opened THEN Hold("ioctl", opened)
  ELSE Return("NoBackend")

\* Mutant of ConfigFsOpened: the device is only a fallback.
ConfigFsOpenedEnough ==
  IF call.op = "open" THEN Select({"configfs"})
                      ELSE Hold("configfs", {"configfs"})

\* open goes on to the device in any case, to derive keys with.
ConfigFsOpened ==
  IF call.op = "open_with" THEN Hold("configfs", {"configfs"})
  ELSE IF "ioctl" \notin features THEN Select({"configfs"})
  ELSE /\ pc' = "device"
       /\ found' = {"configfs"}
       /\ UNCHANGED <<machine, world, call, backoff, handle, result, usable,
                      served>>

\* open drops the error, open_with returns it.
ConfigFsFailed(error) ==
  IF call.op = "open_with" THEN Return(error)
  ELSE IF "ioctl" \in features THEN Goto("device")
  ELSE Return("NoBackend")

\* ConfigFs::open_at: is_dir.
LookForDir ==
  /\ pc = "dir"
  /\ IF tsm = "absent" THEN ConfigFsFailed("NoBackend") ELSE Goto("provider")

\* Mutant of ReadProvider: any provider will do.
ReadAnyProvider ==
  /\ pc = "provider"
  /\ IF tsm = "there" THEN ConfigFsOpened ELSE ConfigFsFailed("Io")

\* ConfigFs::open_at: the provider, read through a directory of its own.
ReadProvider ==
  /\ pc = "provider"
  /\ IF tsm # "there" THEN ConfigFsFailed("Io")
     ELSE IF arch # "snp" THEN ConfigFsFailed("WrongProvider")
     ELSE ConfigFsOpened

\* SevGuest::open_at, and the choice of the transport.
OpenDevice ==
  /\ pc = "device"
  /\ LET opened == found \cup (IF device = "there" THEN {"ioctl"} ELSE {}) IN
       IF call.op = "open" THEN Select(opened)
       ELSE IF opened = {} THEN Return("Io")
       ELSE Hold("ioctl", opened)

-----------------------------------------------------------------------------
(***************************************************************************)
(* Requests on a handle.                                                   *)
(***************************************************************************)
Report ==
  /\ handle # None
  /\ Begin([op |-> "report", wanted |-> None], "attempt")

\* Mutant of Ask: one delay too many.
AskOnceMore(transport) ==
  /\ served' = served \cup {transport}
  /\ \E outcome \in {"ok", "busy", "Io"} :
       /\ outcome = "ok" /\ transport = "configfs" => tsm = "there"
       /\ IF outcome = "busy" /\ backoff >= 0
          THEN backoff' = backoff - 1 /\ UNCHANGED <<pc, result>>
          ELSE pc' = "idle" /\ result' = outcome /\ UNCHANGED backoff
  /\ UNCHANGED <<machine, world, call, found, handle, usable>>

\* Send the request of an attempt to a transport.  One of configfs needs the
\* directory; an open device is not closed by what happens to its node.
Ask(transport) ==
  /\ served' = served \cup {transport}
  /\ \E outcome \in {"ok", "busy", "Io"} :
       /\ outcome = "ok" /\ transport = "configfs" => tsm = "there"
       /\ IF outcome = "busy" /\ backoff > 0
          THEN backoff' = backoff - 1 /\ UNCHANGED <<pc, result>>
          ELSE pc' = "idle" /\ result' = outcome /\ UNCHANGED backoff
  /\ UNCHANGED <<machine, world, call, found, handle, usable>>

\* Mutant of Attempt: it is served by whatever answers now.
AttemptAnywhere ==
  /\ pc = "attempt"
  /\ \E t \in handle.opened : Ask(t)

\* report_with and extended_report_with: report_backend, then the request.
Attempt ==
  /\ pc = "attempt"
  /\ IF handle.transport \in handle.opened THEN Ask(handle.transport)
                                           ELSE Return("NoBackend")

\* derive_key exists only when the device transport is compiled in.
DeriveKey ==
  /\ handle # None /\ "ioctl" \in features
  /\ pc = "idle"
  /\ call' = [op |-> "derive_key", wanted |-> None]
  /\ result' \in IF "ioctl" \in handle.opened THEN {"ok", "busy", "Io"}
                                              ELSE {"Unsupported"}
  /\ UNCHANGED <<machine, world, pc, found, backoff, handle, usable, served>>

-----------------------------------------------------------------------------
(***************************************************************************)
(* any_available and is_snp_guest.                                         *)
(***************************************************************************)
FirstLook == IF "configfs" \in features THEN "tsm?" ELSE "device?"

AnyAvailable == Begin([op |-> "any_available", wanted |-> None], FirstLook)

\* Mutant of SevSnp: the leaf is read whether it is there or not.
SevSnpUnguarded == cpuid.bit4

\* capabilities and Capabilities::sev_snp: what the processor returns for the
\* leaf counts only when it implements it.
SevSnp == cpuid.leaf /\ cpuid.bit4

IsSnpGuest ==
  Begin([op |-> "is_snp_guest", wanted |-> None],
        IF SevSnp THEN FirstLook ELSE "no")

NotCapable == pc = "no" /\ Return("no")

LookForTsm ==
  /\ pc = "tsm?"
  /\ IF tsm # "absent" THEN Return("yes")
     ELSE IF "ioctl" \in features THEN Goto("device?")
     ELSE Return("no")

LookForDevice ==
  /\ pc = "device?"
  /\ Return(IF device # "absent" THEN "yes" ELSE "no")

Next ==
  \/ Open \/ (\E t \in Transport : OpenWith(t))
  \/ LookForDir \/ ReadProvider \/ OpenDevice
  \/ Report \/ Attempt \/ DeriveKey
  \/ AnyAvailable \/ IsSnpGuest \/ NotCapable \/ LookForTsm \/ LookForDevice
  \/ ChangeWorld

Spec == Init /\ [][Next]_vars

-----------------------------------------------------------------------------
(***************************************************************************)
(* Correctness.                                                            *)
(***************************************************************************)
TypeOK ==
  /\ features \in (SUBSET Transport) \ {{}}
  /\ arch \in {"snp", "tdx", "host"} /\ cpuid \in CpuidOf(arch)
  /\ <<tsm, device>> \in World(arch)
  /\ pc \in {"idle", "dir", "provider", "device", "attempt", "no", "tsm?", "device?"}
  /\ call \in Call
  /\ found \in SUBSET Transport
  /\ backoff \in 0 .. Retries
  /\ handle \in Handle \cup {None}
  /\ result \in {"none", "ok", "busy", "yes", "no", "Io", "NoBackend",
                 "WrongProvider", "Unsupported"}
  /\ steady \in SUBSET Transport /\ ever \in SUBSET Transport
  /\ served \in SUBSET Transport

\* The transport chosen at open time is always backed by a live handle, so
\* that no request ever has to guess or ends for want of a backend.
LiveBackend ==
  /\ handle # None => handle.transport \in handle.opened /\ handle.opened \subseteq features
  /\ call.op = "report" => result # "NoBackend"

\* Whatever interfaces come and go while it is opened, nobody ever holds a
\* handle on a machine that is not an SEV-SNP guest: a foreign provider is
\* never asked for a report.
NeverForeign == handle # None => arch = "snp"

\* What is usable from the beginning of open to its end is found: it does not
\* fail, it prefers configfs, and it can derive keys; what is never usable in
\* between is not.  open_with finds the transport it was asked for and holds
\* no other.
OpenComplete ==
  /\ pc = "idle" /\ call.op = "open" =>
       IF result # "ok" THEN steady = {}
       ELSE /\ steady \subseteq handle.opened /\ handle.opened \subseteq ever
            /\ "configfs" \in steady => handle.transport = "configfs"
  /\ pc = "idle" /\ call.op = "open_with" =>
       IF result # "ok" THEN call.wanted \notin steady
       ELSE /\ handle = [transport |-> call.wanted, opened |-> {call.wanted}]
            /\ call.wanted \in ever

\* is_snp_guest never takes another machine for a guest, although either half
\* of its check alone would, and so would the capability bit of a processor
\* that lacks the leaf; and it never misses a guest whose interface stays.
GuestDetected ==
  pc = "idle" /\ call.op = "is_snp_guest" =>
    /\ result = "yes" => arch = "snp"
    /\ result = "no" => steady = {}

\* The documentation of any_available, "any usable guest interface", and of
\* is_snp_guest, which answers for "a working kernel guest interface": neither
\* says yes when no interface could be used at any time of the call.
UsableAsDocumented ==
  pc = "idle" /\ call.op \in {"any_available", "is_snp_guest"} /\ result = "yes"
  => ever # {}

\* All requests of one handle go to one transport: no failure, retry or
\* disappearance of an interface makes it fall back to another.
FixedTransport ==
  [][handle' = handle /\ served # {} /\ served' # {} => served' = served]_vars

=============================================================================
