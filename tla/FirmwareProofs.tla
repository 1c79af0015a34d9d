--------------------------- MODULE FirmwareProofs ---------------------------
(***************************************************************************)
(* What Firmware guarantees whatever is compiled in, wherever it runs and  *)
(* however often interfaces come and go, with machine-checked proofs.      *)
(***************************************************************************)
EXTENDS Firmware, TLAPS

-----------------------------------------------------------------------------
(***************************************************************************)
(* The inductive invariant.                                                *)
(***************************************************************************)

\* Only guests are given handles, and a handle is on what it opened.
Lives ==
  handle # None =>
    /\ handle.transport \in handle.opened /\ handle.opened \subseteq features
    /\ arch = "snp"

\* Requests went to the transport of the handle.
Serving == served # {} => handle # None /\ served = {handle.transport}

\* The histories bound what is usable now.
Watching ==
  /\ steady \subseteq Usable(tsm, device)
  /\ pc # "idle" => Usable(tsm, device) \subseteq ever

\* What a call knows at each step.
Stage ==
  /\ pc \in {"dir", "provider"} =>
       /\ "configfs" \in features /\ found = {}
       /\ \/ call.op = "open"
          \/ call.op = "open_with" /\ call.wanted = "configfs"
  /\ pc = "device" =>
       /\ "ioctl" \in features
       /\ found \subseteq {"configfs"} \cap features \cap ever
       /\ found # {} => arch = "snp"
       /\ \/ call.op = "open" /\ steady \cap {"configfs"} \subseteq found
          \/ call.op = "open_with" /\ call.wanted = "ioctl" /\ found = {}
  /\ pc = "attempt" => handle # None /\ call.op = "report"
  /\ pc = "no" => call.op = "is_snp_guest" /\ ~SevSnp
  /\ pc \in {"tsm?", "device?"} =>
       \/ call.op = "any_available"
       \/ call.op = "is_snp_guest" /\ SevSnp
  /\ pc = "tsm?" => "configfs" \in features
  /\ pc = "device?" => "configfs" \notin steady

Served == call.op = "report" => result # "NoBackend"

Results == {"none", "ok", "busy", "yes", "no", "Io", "NoBackend",
            "WrongProvider", "Unsupported"}

Opening ==
  /\ TypeOK /\ Lives /\ Serving /\ Watching /\ Stage
  /\ OpenComplete /\ GuestDetected /\ Served

-----------------------------------------------------------------------------
(***************************************************************************)
(* The machine.                                                            *)
(***************************************************************************)

\* What is usable, and what it takes to be.
LEMMA UsableNow ==
  ASSUME NEW tsmNow, NEW deviceNow
  PROVE  /\ Usable(tsmNow, deviceNow) \subseteq features
         /\ "configfs" \in Usable(tsmNow, deviceNow) <=>
              "configfs" \in features /\ arch = "snp" /\ tsmNow = "there"
         /\ "ioctl" \in Usable(tsmNow, deviceNow) <=>
              "ioctl" \in features /\ deviceNow = "there"
  BY DEF Usable

\* A device is there on guests only, a directory on confidential ones only.
LEMMA Worlds ==
  ASSUME TypeOK
  PROVE  /\ arch \in {"snp", "tdx", "host"}
         /\ arch # "snp" => device = "absent"
         /\ arch = "host" => tsm = "absent"
         /\ arch = "snp" => SevSnp
         /\ arch = "tdx" => ~SevSnp
<1>1. /\ arch \in {"snp", "tdx", "host"} /\ <<tsm, device>> \in World(arch)
      /\ cpuid \in CpuidOf(arch)
  BY DEF TypeOK
<1>2. CASE arch = "snp"
  BY <1>1, <1>2 DEF World, CpuidOf, SevSnp
<1>3. CASE arch = "tdx"
  BY <1>1, <1>3 DEF World, CpuidOf, SevSnp
<1>4. CASE arch = "host"
  BY <1>1, <1>4 DEF World, CpuidOf, SevSnp
<1> QED
  BY <1>1, <1>2, <1>3, <1>4

\* Where nothing is compiled in but one transport, only that one is usable.
LEMMA SteadyFeatures ==
  ASSUME Opening
  PROVE  /\ steady \subseteq features /\ features \subseteq Transport
         /\ "configfs" \in steady => arch = "snp" /\ tsm = "there"
         /\ "ioctl" \in steady => device = "there"
         /\ steady # {} => arch = "snp"
<1>1. steady \subseteq Usable(tsm, device) /\ features \subseteq Transport
  BY DEF Opening, Watching, TypeOK
<1>2. steady \subseteq {"configfs", "ioctl"}
  BY <1>1, UsableNow DEF Transport
<1> QED
  BY <1>1, <1>2, UsableNow, Worlds DEF Opening

-----------------------------------------------------------------------------
(***************************************************************************)
(* Every kind of step.                                                     *)
(***************************************************************************)
LEMMA BeginOpening ==
  ASSUME Opening, NEW c \in Call,
         NEW label \in {"dir", "provider", "device", "attempt", "no", "tsm?",
                        "device?"},
         Begin(c, label),
         label = "dir" =>
           /\ "configfs" \in features
           /\ \/ c.op = "open"
              \/ c.op = "open_with" /\ c.wanted = "configfs",
         label = "device" =>
           /\ "ioctl" \in features
           /\ \/ c.op = "open" /\ "configfs" \notin features
              \/ c.op = "open_with" /\ c.wanted = "ioctl",
         label = "attempt" => handle # None /\ c.op = "report",
         label = "no" => c.op = "is_snp_guest" /\ ~SevSnp,
         label \in {"tsm?", "device?"} =>
           \/ c.op = "any_available"
           \/ c.op = "is_snp_guest" /\ SevSnp,
         label = "tsm?" => "configfs" \in features,
         label = "device?" => "configfs" \notin features,
         label # "provider"
  PROVE  Opening'
<1>1. /\ pc' = label /\ call' = c /\ found' = {} /\ result' = "none"
      /\ steady' = Usable(tsm, device) /\ ever' = Usable(tsm, device)
      /\ backoff' \in 0 .. Retries
      /\ UNCHANGED <<features, arch, cpuid, tsm, device, handle, served>>
  BY FirmwareAssumption DEF Begin, machine, world
<1>2. Usable(tsm, device) \subseteq features /\ features \subseteq Transport
  BY UsableNow DEF Opening, TypeOK
<1>3. TypeOK'
  BY <1>1, <1>2 DEF Opening, TypeOK
<1>4. Lives' /\ Serving'
  BY <1>1 DEF Opening, Lives, Serving
<1>5. Watching'
  BY <1>1 DEF Watching, Usable
<1>6. Stage'
  BY <1>1, <1>2 DEF Stage, SevSnp
<1>7. OpenComplete' /\ GuestDetected' /\ Served'
  BY <1>1 DEF OpenComplete, GuestDetected, Served
<1> QED
  BY <1>3, <1>4, <1>5, <1>6, <1>7 DEF Opening

LEMMA ReturnOpening ==
  ASSUME Opening, pc # "idle", NEW res \in Results \ {"ok"}, Return(res),
         call.op = "open" => steady = {},
         call.op = "open_with" => call.wanted \notin steady,
         call.op = "is_snp_guest" => /\ res = "yes" => arch = "snp"
                                     /\ res = "no" => steady = {},
         call.op # "report"
  PROVE  Opening'
<1>1. /\ pc' = "idle" /\ result' = res
      /\ UNCHANGED <<features, arch, cpuid, tsm, device, call, found, backoff,
                     handle, steady, ever, served>>
  BY DEF Return, machine, world, usable
<1>2. TypeOK'
  BY <1>1 DEF Opening, TypeOK, Results
<1>3. Lives' /\ Serving'
  BY <1>1 DEF Opening, Lives, Serving
<1>4. Watching'
  BY <1>1 DEF Opening, Watching, Usable
<1>5. Stage'
  BY <1>1 DEF Stage
<1>6. OpenComplete' /\ GuestDetected' /\ Served'
  BY <1>1 DEF OpenComplete, GuestDetected, Served
<1> QED
  BY <1>2, <1>3, <1>4, <1>5, <1>6 DEF Opening

LEMMA HoldOpening ==
  ASSUME Opening, pc # "idle", NEW transport, NEW opened, Hold(transport, opened),
         transport \in opened, opened \subseteq features \cap ever, arch = "snp",
         \/ /\ call.op = "open" /\ steady \subseteq opened
            /\ "configfs" \in steady => transport = "configfs"
         \/ /\ call.op = "open_with" /\ transport = call.wanted
            /\ opened = {transport}
  PROVE  Opening'
<1>1. /\ pc' = "idle" /\ result' = "ok" /\ found' = opened /\ served' = {}
      /\ handle' = [transport |-> transport, opened |-> opened]
      /\ UNCHANGED <<features, arch, cpuid, tsm, device, call, backoff, steady,
                     ever>>
  BY DEF Hold, machine, world, usable
<1>2. /\ handle' \in Handle /\ handle'.transport = transport
      /\ handle'.opened = opened /\ opened \subseteq Transport
  BY <1>1 DEF Handle, Opening, TypeOK
<1>3. TypeOK'
  BY <1>1, <1>2 DEF Opening, TypeOK
<1>4. Lives' /\ Serving'
  BY <1>1, <1>2 DEF Lives, Serving
<1>5. Watching'
  BY <1>1 DEF Opening, Watching, Usable
<1>6. Stage'
  BY <1>1 DEF Stage
<1>7. OpenComplete' /\ GuestDetected' /\ Served'
  BY <1>1, <1>2 DEF OpenComplete, GuestDetected, Served
<1> QED
  BY <1>3, <1>4, <1>5, <1>6, <1>7 DEF Opening

\* A step inside a call, which leaves the stage to its caller.
LEMMA GoOnOpening ==
  ASSUME Opening, pc # "idle",
         pc' \in {"provider", "device", "device?"}, found' \in SUBSET Transport,
         UNCHANGED <<features, arch, cpuid, tsm, device, call, backoff, handle,
                     result, steady, ever, served>>,
         Stage'
  PROVE  Opening'
<1>1. TypeOK'
  BY DEF Opening, TypeOK
<1>2. Lives' /\ Serving'
  BY DEF Opening, Lives, Serving
<1>3. Watching'
  BY DEF Opening, Watching, Usable
<1>4. OpenComplete' /\ GuestDetected' /\ Served'
  BY DEF Opening, OpenComplete, GuestDetected, Served
<1> QED
  BY <1>1, <1>2, <1>3, <1>4 DEF Opening

-----------------------------------------------------------------------------
(***************************************************************************)
(* Every action.                                                           *)
(***************************************************************************)
LEMMA CallTypes ==
  /\ \A op \in {"open", "report", "derive_key", "any_available", "is_snp_guest"} :
       [op |-> op, wanted |-> None] \in Call
  /\ \A t \in Transport : [op |-> "open_with", wanted |-> t] \in Call
  BY DEF Call

LEMMA CallsBegin ==
  ASSUME Opening,
         \/ Open
         \/ \E t \in Transport : OpenWith(t)
         \/ Report
         \/ AnyAvailable
         \/ IsSnpGuest
  PROVE  Opening'
<1> DEFINE Of(name) == [op |-> name, wanted |-> None]
<1>1. /\ "configfs" \in features \/ "ioctl" \in features
      /\ features \subseteq Transport
  <2>1. features \subseteq Transport /\ features # {}
    BY DEF Opening, TypeOK
  <2> QED
    BY <2>1 DEF Transport
<1>2. CASE Open
  <2>1. Of("open") \in Call /\ Of("open").op = "open"
    BY CallTypes
  <2> QED
    BY <1>1, <1>2, <2>1, BeginOpening DEF Open
<1>3. ASSUME NEW t \in Transport, OpenWith(t)
      PROVE  Opening'
  <2> DEFINE c == [op |-> "open_with", wanted |-> t]
  <2>1. c \in Call /\ c.op = "open_with" /\ c.wanted = t
    BY CallTypes
  <2>2. t \in {"configfs", "ioctl"}
    BY DEF Transport
  <2> QED
    BY <1>3, <2>1, <2>2, BeginOpening DEF OpenWith
<1>4. CASE Report
  <2>1. Of("report") \in Call /\ Of("report").op = "report"
    BY CallTypes
  <2> QED
    BY <1>4, <2>1, BeginOpening DEF Report
<1>5. CASE AnyAvailable
  <2>1. Of("any_available") \in Call /\ Of("any_available").op = "any_available"
    BY CallTypes
  <2> QED
    BY <1>5, <2>1, BeginOpening DEF AnyAvailable, FirstLook
<1>6. CASE IsSnpGuest
  <2>1. Of("is_snp_guest") \in Call /\ Of("is_snp_guest").op = "is_snp_guest"
    BY CallTypes
  <2> QED
    BY <1>6, <2>1, BeginOpening DEF IsSnpGuest, FirstLook
<1> QED
  BY <1>2, <1>3, <1>4, <1>5, <1>6

\* What became of the configfs half of an open: it was opened, or it could
\* not be used.
LEMMA ConfigFsHalf ==
  ASSUME Opening, pc \in {"dir", "provider"},
         \/ "configfs" \in ever /\ arch = "snp" /\ ConfigFsOpened
         \/ /\ "configfs" \notin steady
            /\ \E error \in Results \ {"ok"} : ConfigFsFailed(error)
  PROVE  Opening'
<1>1. /\ "configfs" \in features /\ found = {}
      /\ \/ call.op = "open"
         \/ call.op = "open_with" /\ call.wanted = "configfs"
      /\ steady \subseteq features /\ features \subseteq {"configfs", "ioctl"}
  BY SteadyFeatures DEF Opening, Stage, Transport
<1>2. CASE "configfs" \in ever /\ arch = "snp" /\ ConfigFsOpened
  <2>1. CASE call.op = "open_with"
    BY <1>1, <1>2, <2>1, HoldOpening DEF ConfigFsOpened
  <2>2. CASE call.op = "open" /\ "ioctl" \notin features
    <3>1. Hold("configfs", {"configfs"})
      BY <1>2, <2>2 DEF ConfigFsOpened, Select
    <3> QED
      BY <1>1, <1>2, <2>2, <3>1, HoldOpening
  <2>3. CASE call.op = "open" /\ "ioctl" \in features
    <3>1. /\ pc' = "device" /\ found' = {"configfs"}
          /\ UNCHANGED <<features, arch, cpuid, tsm, device, call, backoff,
                         handle, result, steady, ever, served>>
      BY <1>2, <2>3 DEF ConfigFsOpened, machine, world, usable
    <3>2. Stage'
      BY <1>1, <1>2, <2>3, <3>1 DEF Stage
    <3> QED
      BY <3>1, <3>2, GoOnOpening DEF Transport
  <2> QED
    BY <1>1, <2>1, <2>2, <2>3
<1>3. ASSUME "configfs" \notin steady,
             NEW error \in Results \ {"ok"}, ConfigFsFailed(error)
      PROVE  Opening'
  <2>1. CASE call.op = "open_with"
    BY <1>1, <1>3, <2>1, ReturnOpening DEF ConfigFsFailed
  <2>2. CASE call.op = "open" /\ "ioctl" \notin features
    <3>1. Return("NoBackend") /\ steady = {}
      BY <1>1, <1>3, <2>2 DEF ConfigFsFailed
    <3> QED
      BY <2>2, <3>1, ReturnOpening DEF Results
  <2>3. CASE call.op = "open" /\ "ioctl" \in features
    <3>1. /\ pc' = "device"
          /\ UNCHANGED <<features, arch, cpuid, tsm, device, call, found, backoff,
                         handle, result, steady, ever, served>>
      BY <1>3, <2>3 DEF ConfigFsFailed, Goto, machine, world, usable
    <3>2. Stage'
      BY <1>1, <1>3, <2>3, <3>1 DEF Stage
    <3> QED
      BY <1>1, <3>1, <3>2, GoOnOpening
  <2> QED
    BY <1>1, <2>1, <2>2, <2>3
<1> QED
  BY <1>2, <1>3

LEMMA ConfigFsSteps ==
  ASSUME Opening, LookForDir \/ ReadProvider
  PROVE  Opening'
<1>1. CASE LookForDir /\ tsm = "absent"
  <2>1. "configfs" \notin steady
    BY <1>1, SteadyFeatures
  <2> QED
    BY <1>1, <2>1, ConfigFsHalf DEF LookForDir, Results
<1>2. CASE LookForDir /\ tsm # "absent"
  <2>1. /\ pc = "dir" /\ pc' = "provider"
        /\ UNCHANGED <<features, arch, cpuid, tsm, device, call, found, backoff,
                       handle, result, steady, ever, served>>
    BY <1>2 DEF LookForDir, Goto, machine, world, usable
  <2>2. Stage' /\ found' \in SUBSET Transport
    BY <2>1 DEF Opening, Stage, TypeOK
  <2> QED
    BY <2>1, <2>2, GoOnOpening
<1>3. CASE ReadProvider /\ (tsm # "there" \/ arch # "snp")
  <2>1. "configfs" \notin steady
    BY <1>3, SteadyFeatures
  <2> QED
    BY <1>3, <2>1, ConfigFsHalf DEF ReadProvider, Results
<1>4. CASE ReadProvider /\ tsm = "there" /\ arch = "snp"
  <2>1. pc = "provider" /\ "configfs" \in features
    BY <1>4 DEF ReadProvider, Opening, Stage
  <2>2. "configfs" \in ever
    BY <1>4, <2>1, UsableNow DEF Opening, Watching
  <2> QED
    BY <1>4, <2>1, <2>2, ConfigFsHalf DEF ReadProvider
<1> QED
  BY <1>1, <1>2, <1>3, <1>4

LEMMA OpenDeviceStep ==
  ASSUME Opening, OpenDevice
  PROVE  Opening'
<1> DEFINE opened == found \cup (IF device = "there" THEN {"ioctl"} ELSE {})
<1>1. /\ pc = "device" /\ "ioctl" \in features
      /\ found \subseteq {"configfs"} /\ found \subseteq features \cap ever
      /\ found # {} => arch = "snp"
      /\ \/ call.op = "open" /\ steady \cap {"configfs"} \subseteq found
         \/ call.op = "open_with" /\ call.wanted = "ioctl" /\ found = {}
  BY DEF OpenDevice, Opening, Stage
<1>2. opened \subseteq features \cap ever
  <2>1. CASE device = "there"
    <3>1. "ioctl" \in ever
      BY <1>1, <2>1, UsableNow DEF Opening, Watching
    <3> QED
      BY <1>1, <2>1, <3>1
  <2>2. CASE device # "there"
    BY <1>1, <2>2
  <2> QED
    BY <2>1, <2>2
<1>3. opened # {} => arch = "snp"
  BY <1>1, Worlds DEF Opening
<1>4. /\ steady \subseteq {"configfs", "ioctl"}
      /\ "ioctl" \in steady => "ioctl" \in opened
  BY SteadyFeatures DEF Transport
<1>5. /\ opened \subseteq {"configfs", "ioctl"}
      /\ "configfs" \in opened <=> found # {}
  BY <1>1
<1>6. CASE call.op = "open"
  <2>1. Select(opened)
    BY <1>6 DEF OpenDevice
  <2>2. steady \subseteq opened
    BY <1>1, <1>4, <1>6
  <2> HIDE DEF opened
  <2>3. CASE "configfs" \in opened
    BY <1>1, <1>2, <1>3, <1>6, <2>1, <2>2, <2>3, HoldOpening DEF Select
  <2>4. CASE "configfs" \notin opened /\ "ioctl" \in opened
    BY <1>1, <1>2, <1>3, <1>6, <2>1, <2>2, <2>4, HoldOpening DEF Select
  <2>5. CASE opened = {}
    <3>1. Return("NoBackend") /\ steady = {}
      BY <2>1, <2>2, <2>5 DEF Select
    <3> QED
      BY <1>1, <1>6, <3>1, ReturnOpening DEF Results
  <2> QED
    BY <1>5, <2>3, <2>4, <2>5
<1>7. CASE call.op = "open_with"
  <2>1. call.wanted = "ioctl" /\ found = {}
    BY <1>1, <1>7
  <2>2. CASE opened = {}
    <3>1. Return("Io") /\ "ioctl" \notin steady
      BY <1>4, <1>7, <2>2 DEF OpenDevice
    <3> QED
      BY <1>1, <1>7, <2>1, <3>1, ReturnOpening DEF Results
  <2>3. CASE opened = {"ioctl"}
    <3>1. Hold("ioctl", opened)
      BY <1>7, <2>3 DEF OpenDevice
    <3> QED
      BY <1>1, <1>2, <1>3, <1>7, <2>1, <2>3, <3>1, HoldOpening
  <2> QED
    BY <2>1, <2>2, <2>3
<1> QED
  BY <1>1, <1>6, <1>7

LEMMA RequestSteps ==
  ASSUME Opening, Attempt \/ DeriveKey
  PROVE  Opening'
<1>1. CASE Attempt
  <2>1. /\ pc = "attempt" /\ handle # None /\ call.op = "report"
        /\ handle.transport \in handle.opened /\ Ask(handle.transport)
        /\ handle.transport \in Transport
    BY <1>1 DEF Attempt, Opening, Stage, Lives, TypeOK, Handle
  <2>2. /\ served' = served \cup {handle.transport}
        /\ pc' \in {"attempt", "idle"} /\ backoff' \in 0 .. Retries
        /\ result' \in Results \ {"NoBackend"}
        /\ UNCHANGED <<features, arch, cpuid, tsm, device, call, found, handle,
                       steady, ever>>
    BY <2>1, FirmwareAssumption
    DEF Ask, machine, world, usable, Opening, TypeOK, Served, Results
  <2>3. TypeOK'
    BY <2>1, <2>2 DEF Opening, TypeOK, Results
  <2>4. Lives' /\ Serving'
    BY <2>1, <2>2 DEF Opening, Lives, Serving
  <2>5. Watching'
    BY <2>1, <2>2 DEF Opening, Watching, Usable
  <2>6. Stage'
    BY <2>1, <2>2 DEF Stage
  <2>7. OpenComplete' /\ GuestDetected' /\ Served'
    BY <2>1, <2>2 DEF OpenComplete, GuestDetected, Served
  <2> QED
    BY <2>3, <2>4, <2>5, <2>6, <2>7 DEF Opening
<1>2. CASE DeriveKey
  <2>1. /\ pc = "idle" /\ pc' = "idle"
        /\ call' = [op |-> "derive_key", wanted |-> None]
        /\ result' \in Results
        /\ UNCHANGED <<features, arch, cpuid, tsm, device, found, backoff, handle,
                       steady, ever, served>>
    BY <1>2 DEF DeriveKey, machine, world, usable, Results
  <2>2. call'.op = "derive_key" /\ call' \in Call
    BY <2>1, CallTypes
  <2>3. TypeOK'
    BY <2>1, <2>2 DEF Opening, TypeOK, Results
  <2>4. Lives' /\ Serving'
    BY <2>1 DEF Opening, Lives, Serving
  <2>5. Watching'
    BY <2>1 DEF Opening, Watching, Usable
  <2>6. Stage'
    BY <2>1 DEF Stage
  <2>7. OpenComplete' /\ GuestDetected' /\ Served'
    BY <2>2 DEF OpenComplete, GuestDetected, Served
  <2> QED
    BY <2>3, <2>4, <2>5, <2>6, <2>7 DEF Opening
<1> QED
  BY <1>1, <1>2

LEMMA DetectionSteps ==
  ASSUME Opening, NotCapable \/ LookForTsm \/ LookForDevice
  PROVE  Opening'
<1>1. /\ "yes" \in Results \ {"ok"} /\ "no" \in Results \ {"ok"}
      /\ steady \subseteq {"configfs", "ioctl"}
  BY SteadyFeatures DEF Results, Transport
<1>2. CASE NotCapable
  <2>1. call.op = "is_snp_guest" /\ ~SevSnp /\ pc = "no" /\ Return("no")
    BY <1>2 DEF NotCapable, Opening, Stage
  <2>2. steady = {}
    BY <2>1, SteadyFeatures, Worlds DEF Opening
  <2> QED
    BY <1>1, <2>1, <2>2, ReturnOpening
<1>3. CASE LookForTsm
  <2>1. /\ pc = "tsm?" /\ "configfs" \in features
        /\ \/ call.op = "any_available"
           \/ call.op = "is_snp_guest" /\ SevSnp
    BY <1>3 DEF LookForTsm, Opening, Stage
  <2>2. CASE tsm # "absent"
    <3>1. Return("yes")
      BY <1>3, <2>2 DEF LookForTsm
    <3>2. call.op = "is_snp_guest" => arch = "snp"
      BY <2>1, <2>2, Worlds DEF Opening
    <3> QED
      BY <1>1, <2>1, <3>1, <3>2, ReturnOpening
  <2>3. CASE tsm = "absent" /\ "ioctl" \notin features
    <3>1. Return("no") /\ steady = {}
      BY <1>1, <1>3, <2>3, SteadyFeatures DEF LookForTsm
    <3> QED
      BY <1>1, <2>1, <3>1, ReturnOpening
  <2>4. CASE tsm = "absent" /\ "ioctl" \in features
    <3>1. /\ pc' = "device?"
          /\ UNCHANGED <<features, arch, cpuid, tsm, device, call, found, backoff,
                         handle, result, steady, ever, served>>
      BY <1>3, <2>4 DEF LookForTsm, Goto, machine, world, usable
    <3>2. "configfs" \notin steady
      BY <2>4, SteadyFeatures
    <3>3. Stage' /\ found' \in SUBSET Transport
      BY <2>1, <3>1, <3>2 DEF Opening, Stage, SevSnp, TypeOK
    <3> QED
      BY <2>1, <3>1, <3>3, GoOnOpening
  <2> QED
    BY <2>2, <2>3, <2>4
<1>4. CASE LookForDevice
  <2>1. /\ pc = "device?" /\ "configfs" \notin steady
        /\ call.op \in {"any_available", "is_snp_guest"}
    BY <1>4 DEF LookForDevice, Opening, Stage
  <2>2. CASE device # "absent"
    <3>1. Return("yes") /\ arch = "snp"
      BY <1>4, <2>2, Worlds DEF LookForDevice, Opening
    <3> QED
      BY <1>1, <2>1, <3>1, ReturnOpening
  <2>3. CASE device = "absent"
    <3>1. Return("no") /\ steady = {}
      BY <1>1, <1>4, <2>1, <2>3, SteadyFeatures DEF LookForDevice
    <3> QED
      BY <1>1, <2>1, <3>1, ReturnOpening
  <2> QED
    BY <2>2, <2>3
<1> QED
  BY <1>2, <1>3, <1>4

LEMMA WorldStep ==
  ASSUME Opening, ChangeWorld
  PROVE  Opening'
<1>1. /\ <<tsm', device'>> \in World(arch)
      /\ steady' = steady \cap Usable(tsm', device')
      /\ ever' = ever \cup Usable(tsm', device')
      /\ UNCHANGED <<features, arch, cpuid, pc, call, found, backoff, handle,
                     result, served>>
  <2>1. PICK w \in World(arch) : tsm' = w[1] /\ device' = w[2]
    BY DEF ChangeWorld
  <2>2. w = <<w[1], w[2]>>
    BY <2>1 DEF World, Opening, TypeOK
  <2> QED
    BY <2>1, <2>2 DEF ChangeWorld, machine
<1>2. Usable(tsm', device') \subseteq Transport
  BY UsableNow DEF Opening, TypeOK
<1>3. TypeOK'
  BY <1>1, <1>2 DEF Opening, TypeOK
<1>4. Lives' /\ Serving'
  BY <1>1 DEF Opening, Lives, Serving
<1>5. Watching'
  BY <1>1 DEF Watching, Usable
<1>6. Stage'
  BY <1>1 DEF Opening, Stage, SevSnp
<1>7. OpenComplete' /\ GuestDetected' /\ Served'
  BY <1>1 DEF Opening, OpenComplete, GuestDetected, Served
<1> QED
  BY <1>3, <1>4, <1>5, <1>6, <1>7 DEF Opening

LEMMA OpeningInit ==
  ASSUME Init
  PROVE  Opening
<1>1. TypeOK
  <2>1. PICK w \in World(arch) : tsm = w[1] /\ device = w[2]
    BY DEF Init
  <2>2. <<tsm, device>> \in World(arch)
    BY <2>1 DEF Init, World
  <2>3. call \in Call /\ backoff \in 0 .. Retries
    BY CallTypes, FirmwareAssumption DEF Init
  <2> QED
    BY <2>2, <2>3 DEF Init, TypeOK
<1>2. Lives /\ Serving /\ Watching /\ Stage
  BY DEF Init, Lives, Serving, Watching, Stage
<1>3. OpenComplete /\ GuestDetected /\ Served
  BY DEF Init, OpenComplete, GuestDetected, Served
<1> QED
  BY <1>1, <1>2, <1>3 DEF Opening

\* The inductive invariant, from which everything else here follows.
THEOREM OpeningInvariant == Spec => []Opening
<1>1. Init => Opening
  BY OpeningInit
<1>2. Opening /\ [Next]_vars => Opening'
  <2> SUFFICES ASSUME Opening, [Next]_vars
               PROVE  Opening'
    OBVIOUS
  <2>1. CASE UNCHANGED vars
    <3>1. UNCHANGED <<features, arch, cpuid, tsm, device, pc, call, found, backoff,
                      handle, result, steady, ever, served>>
      BY <2>1 DEF vars, machine, world, usable
    <3>2. TypeOK' /\ Lives' /\ Serving' /\ Watching' /\ Stage'
      BY <3>1 DEF Opening, TypeOK, Lives, Serving, Watching, Stage, Usable, SevSnp
    <3>3. OpenComplete' /\ GuestDetected' /\ Served'
      BY <3>1 DEF Opening, OpenComplete, GuestDetected, Served
    <3> QED
      BY <3>2, <3>3 DEF Opening
  <2> QED
    BY <2>1, CallsBegin, ConfigFsSteps, OpenDeviceStep, RequestSteps,
       DetectionSteps, WorldStep DEF Next
<1> QED
  BY <1>1, <1>2, PTL DEF Spec

-----------------------------------------------------------------------------
(***************************************************************************)
(* What follows from it.                                                   *)
(***************************************************************************)

\* Every reachable state is well typed, with never more delays than
\* RETRY_BACKOFF has.
THEOREM TypeCorrect == Spec => []TypeOK
<1>1. Opening => TypeOK
  BY DEF Opening
<1> QED
  BY <1>1, OpeningInvariant, PTL

\* report_backend always finds the backend chosen at open time: no request
\* ends for want of one.
THEOREM BackendsLive == Spec => []LiveBackend
<1>1. Opening => LiveBackend
  BY DEF Opening, Lives, Served, LiveBackend
<1> QED
  BY <1>1, OpeningInvariant, PTL

\* Nobody holds a handle on a machine that is not an SEV-SNP guest.
THEOREM ForeignRefused == Spec => []NeverForeign
<1>1. Opening => NeverForeign
  BY DEF Opening, Lives, NeverForeign
<1> QED
  BY <1>1, OpeningInvariant, PTL

\* open finds what is usable from its beginning to its end and nothing that
\* never is, and open_with what it was asked for.
THEOREM OpensCompletely == Spec => []OpenComplete
<1>1. Opening => OpenComplete
  BY DEF Opening
<1> QED
  BY <1>1, OpeningInvariant, PTL

\* is_snp_guest takes no other machine for a guest and misses no guest whose
\* interface stays.
THEOREM GuestsDetected == Spec => []GuestDetected
<1>1. Opening => GuestDetected
  BY DEF Opening
<1> QED
  BY <1>1, OpeningInvariant, PTL

\* All requests of one handle go to one transport, whatever fails.
THEOREM TransportFixed == Spec => FixedTransport
<1>1. Opening /\ Opening' =>
        [handle' = handle /\ served # {} /\ served' # {} => served' = served]_vars
  BY DEF Opening, Serving
<1> QED
  BY <1>1, OpeningInvariant, PTL DEF FixedTransport

-----------------------------------------------------------------------------
(***************************************************************************)
(* What any_available and is_snp_guest promise where no interface refuses. *)
(***************************************************************************)

\* Every interface that exists can be used: the directory is that of an
\* SEV-SNP guest and answers, the device may be opened.
NoneRefuses ==
  /\ tsm # "absent" => tsm = "there" /\ arch = "snp"
  /\ device # "absent" => device = "there"

\* Only what is compiled in is looked for, and a yes means what it says.
Looked ==
  /\ pc = "device?" => "ioctl" \in features
  /\ UsableAsDocumented

LEMMA LookedStep ==
  ASSUME Opening, Looked, NoneRefuses, [Next]_vars
  PROVE  Looked'
<1>1. /\ features \subseteq {"configfs", "ioctl"} /\ features # {}
      /\ pc # "idle" => Usable(tsm, device) \subseteq ever
  BY DEF Opening, TypeOK, Transport, Watching
<1>2. ASSUME pc' \notin {"idle", "device?"}
      PROVE  Looked'
  BY <1>2 DEF Looked, UsableAsDocumented
<1>3. ASSUME pc' = "idle", result' # "yes" \/ call'.op \notin {"any_available", "is_snp_guest"}
      PROVE  Looked'
  BY <1>3 DEF Looked, UsableAsDocumented
<1>4. CASE LookForTsm
  <2>1. CASE tsm # "absent"
    <3>1. "configfs" \in features /\ pc = "tsm?"
      BY <1>4 DEF LookForTsm, Opening, Stage
    <3>2. "configfs" \in ever
      BY <1>1, <2>1, <3>1, UsableNow DEF NoneRefuses
    <3>3. pc' = "idle" /\ ever' = ever
      BY <1>4, <2>1 DEF LookForTsm, Return, usable
    <3> QED
      BY <3>2, <3>3 DEF Looked, UsableAsDocumented
  <2>2. CASE tsm = "absent" /\ "ioctl" \in features
    <3>1. pc' = "device?" /\ "ioctl" \in features'
      BY <1>4, <2>2 DEF LookForTsm, Goto, machine
    <3> QED
      BY <3>1 DEF Looked, UsableAsDocumented
  <2>3. CASE tsm = "absent" /\ "ioctl" \notin features
    BY <1>3, <1>4, <2>3 DEF LookForTsm, Return
  <2> QED
    BY <2>1, <2>2, <2>3
<1>5. CASE LookForDevice
  <2>1. CASE device # "absent"
    <3>1. "ioctl" \in ever
      BY <1>1, <1>5, <2>1, UsableNow DEF LookForDevice, Looked, NoneRefuses
    <3>2. pc' = "idle" /\ ever' = ever
      BY <1>5, <2>1 DEF LookForDevice, Return, usable
    <3> QED
      BY <3>1, <3>2 DEF Looked, UsableAsDocumented
  <2>2. CASE device = "absent"
    BY <1>3, <1>5, <2>2 DEF LookForDevice, Return
  <2> QED
    BY <2>1, <2>2
<1>6. CASE AnyAvailable \/ IsSnpGuest
  <2>1. pc' \in {"tsm?", "device?", "no"} /\ features' = features
    BY <1>6 DEF AnyAvailable, IsSnpGuest, Begin, FirstLook, machine
  <2>2. pc' = "device?" => "ioctl" \in features
    BY <1>1, <1>6 DEF AnyAvailable, IsSnpGuest, Begin, FirstLook
  <2> QED
    BY <2>1, <2>2 DEF Looked, UsableAsDocumented
<1>7. CASE NotCapable
  BY <1>3, <1>7 DEF NotCapable, Return
<1>8. CASE Open \/ Report \/ \E t \in Transport : OpenWith(t)
  BY <1>2, <1>8 DEF Open, Report, OpenWith, Begin
<1>9. CASE DeriveKey
  <2>1. pc' = "idle" /\ call'.op = "derive_key"
    BY <1>9 DEF DeriveKey
  <2> QED
    BY <1>3, <2>1
<1>10. CASE Attempt
  <2>1. pc = "attempt" /\ call.op = "report"
    BY <1>10 DEF Attempt, Opening, Stage
  <2>2. call' = call /\ pc' \in {"idle", "attempt"}
    BY <1>10, <2>1 DEF Attempt, Ask, Return
  <2> QED
    BY <1>2, <1>3, <2>1, <2>2
<1>11. CASE LookForDir \/ ReadProvider \/ OpenDevice
  <2>1. call.op \in {"open", "open_with"}
    BY <1>11 DEF LookForDir, ReadProvider, OpenDevice, Opening, Stage
  <2>2. call' = call /\ pc' \in {"idle", "provider", "device"}
    BY <1>11
    DEF LookForDir, ReadProvider, OpenDevice, ConfigFsOpened, ConfigFsFailed,
        Select, Hold, Goto, Return
  <2> QED
    BY <1>2, <1>3, <2>1, <2>2
<1>12. CASE ChangeWorld \/ UNCHANGED vars
  <2>1. ever \subseteq ever' /\ UNCHANGED <<features, pc, call, result>>
    BY <1>12 DEF ChangeWorld, vars, machine, usable
  <2> QED
    BY <2>1 DEF Looked, UsableAsDocumented
<1> QED
  BY <1>4, <1>5, <1>6, <1>7, <1>8, <1>9, <1>10, <1>11, <1>12 DEF Next

\* The documentation of any_available and is_snp_guest is right, through all
\* comings and goings, as long as no interface that exists refuses the caller:
\* that neither tries to use one is the only way in which they are wrong.
THEOREM UsableUnlessRefused == Spec /\ []NoneRefuses => []UsableAsDocumented
<1>1. Init => Looked
  BY DEF Init, Looked, UsableAsDocumented
<1>2. Opening /\ Looked /\ NoneRefuses /\ [Next]_vars => Looked'
  BY LookedStep
<1>3. Looked => UsableAsDocumented
  BY DEF Looked
<1> QED
  BY <1>1, <1>2, <1>3, OpeningInvariant, PTL DEF Spec

=============================================================================
