-------------------------------- MODULE GPU --------------------------------
(***************************************************************************)
(* internal/gpu: the GPU collector as collector.go builds and starts it,   *)
(* with the backend the build tags select.  On Linux every cycle reads the *)
(* sysfs files of the cards found at start, one file after the other, each *)
(* of which can fail by itself; on macOS every cycle runs ioreg, which can *)
(* fail, be cut by its timeout or be cancelled.  sysfs and ioreg change    *)
(* between any two steps.                                                  *)
(*                                                                         *)
(* A gauge value is <<n, d>> for n / d (millidegrees, microwatts); Nil is  *)
(* a series that does not exist, a file that is absent or not a number, an *)
(* ioreg key that is missing.                                              *)
(***************************************************************************)
EXTENDS Integers, Sequences, SequencesExt, FiniteSets

CONSTANTS
    Nil,
    Card,          \* indices of the cardN directories, in Glob order
    Backend,       \* build targets: "linux", "darwin", "other"
    Contents,      \* what each sysfs file may contain, by file
    IORegOutputs,  \* what ioreg may print: [util |-> , mem |-> ]
    Machines,      \* vendor and hwmon directory of every card at start
    Totals,        \* what sysctl hw.memsize may give, 0 for unknown
    MaxChanges     \* bound on the changes of sysfs or ioreg, by backend

ASSUME GPUAssumption ==
    /\ Card \in Seq(Nat) /\ IsInjective(Card)
    /\ Backend \subseteq {"linux", "darwin", "other"}
    /\ MaxChanges \in [Backend -> Nat]

HwmonFiles == {"temp1_input", "power1_average", "power1_input"}
File == HwmonFiles \cup {"gpu_busy_percent", "mem_info_vram_used", "mem_info_vram_total",
                         "pp_dpm_sclk", "pp_dpm_mclk"}

\* The series of one GPU; the name label is fixed at start and left out.
Metric == {"utilization", "temperature", "vramUsed", "vramTotal", "power",
           "clockGpu", "clockMemory"}
CardIndex == ToSet(Card) \cup {0}   \* gpuIndexLabel: the Apple GPU is 0

LastStep == 7   \* the reads of collect for one device

VARIABLES
    backend, enabled,
    vendor,       \* sysfs: vendor file of each card: "amd", "other", Nil
    files,        \* sysfs: content of every other file
    hwmon,        \* sysfs: number of the hwmon directory the kernel assigned
    ioreg,        \* what ioreg would print now; Nil if it fails
    changes,      \* changes made so far
    cancelled,    \* ctx
    pc,
    devices,      \* c.devices
    dev, step,    \* collect: device and function at work
    total,        \* appleSampler.total
    healthy, polled,
    gauge,        \* gpuMetrics: value of every series
    answer,       \* history: <<result of the last poll's read>>, empty at first
    flips,        \* history: polls whose outcome differs from the one before
    notice        \* history: lines logged at warn or info, and the last level

sysVars == <<vendor, files, hwmon, ioreg, changes>>
loopVars == <<backend, enabled, devices, total>>
appleVars == <<healthy, polled, answer, flips, notice>>
vars == <<sysVars, loopVars, appleVars, cancelled, pc, dev, step, gauge>>

TypeOK ==
    /\ backend \in Backend /\ enabled \in BOOLEAN
    /\ vendor \in [ToSet(Card) -> {"amd", "other", Nil}]
    /\ \A c \in ToSet(Card) : \A f \in File : files[c][f] \in Contents[f]
    /\ hwmon \in [ToSet(Card) -> {Nil, 0, 1}]
    /\ ioreg \in IORegOutputs \cup {Nil}
    /\ changes \in 0..MaxChanges[backend]
    /\ cancelled \in BOOLEAN
    /\ pc \in {"new", "begin", "collect", "read", "refused", "wait", "done"}
    /\ \A i \in DOMAIN devices : devices[i].index \in ToSet(Card)
    /\ pc = "collect" => dev \in DOMAIN devices /\ step \in 1..LastStep
    /\ healthy \in BOOLEAN /\ polled \in BOOLEAN /\ healthy => polled
    /\ DOMAIN gauge = CardIndex \X Metric
    /\ notice.lines \in Nat /\ flips \in Nat

Init ==
    /\ backend \in Backend
    /\ enabled \in BOOLEAN
    /\ \E m \in Machines :
        /\ vendor = [c \in ToSet(Card) |-> m[c].vendor]
        /\ hwmon = [c \in ToSet(Card) |-> m[c].hwmon]
    /\ files = [c \in ToSet(Card) |-> [f \in File |-> CHOOSE x \in Contents[f] : x # Nil]]
    /\ ioreg \in IORegOutputs \cup {Nil}
    /\ changes = 0
    /\ cancelled = FALSE
    /\ pc = "new"
    /\ devices = <<>>
    /\ dev = 1 /\ step = 1
    /\ total \in Totals
    /\ backend # "darwin" => ioreg = Nil /\ total = 0
    /\ healthy = FALSE /\ polled = FALSE
    /\ gauge = [s \in CardIndex \X Metric |-> Nil]
    /\ answer = <<>>
    /\ flips = 0
    /\ notice = [lines |-> 0, level |-> "none"]

-----------------------------------------------------------------------------
(* The machine *)

Change ==
    /\ changes < MaxChanges[backend]
    /\ pc # "done"
    /\ changes' = changes + 1

FileChanges(c, f) ==
    /\ Change
    /\ backend = "linux"
    /\ \E x \in Contents[f] \ {files[c][f]} : files' = [files EXCEPT ![c][f] = x]
    /\ UNCHANGED <<vendor, hwmon, ioreg, loopVars, appleVars, cancelled, pc, dev, step, gauge>>

\* The driver is rebound: the kernel assigns another hwmon number, or none.
HwmonMoves(c) ==
    /\ Change
    /\ backend = "linux"
    /\ \E h \in {Nil, 0, 1} \ {hwmon[c]} : hwmon' = [hwmon EXCEPT ![c] = h]
    /\ UNCHANGED <<vendor, files, ioreg, loopVars, appleVars, cancelled, pc, dev, step, gauge>>

IORegChanges ==
    /\ Change
    /\ backend = "darwin"
    /\ ioreg' \in (IORegOutputs \cup {Nil}) \ {ioreg}
    /\ UNCHANGED <<vendor, files, hwmon, loopVars, appleVars, cancelled, pc, dev, step, gauge>>

Cancel ==
    /\ ~cancelled
    /\ cancelled' = TRUE
    /\ UNCHANGED <<sysVars, loopVars, appleVars, pc, dev, step, gauge>>

-----------------------------------------------------------------------------
(* Construction and Start *)

readUint64File(c, f) == files[c][f]

resolveHwmon(c) == hwmon[c]

\* vramTotal stays 0 when its file cannot be read at start.
discovered(c) ==
    [index |-> c, hwmonPath |-> resolveHwmon(c),
     vramTotal |-> IF readUint64File(c, "mem_info_vram_total") = Nil
                   THEN 0 ELSE readUint64File(c, "mem_info_vram_total")]

discoverDevices ==
    LET amd == SelectSeq(Card, LAMBDA c : vendor[c] = "amd")
    IN [i \in DOMAIN amd |-> discovered(amd[i])]

\* The collector is only constructed when it is enabled.  The Intel Mac, which
\* has no Apple Silicon GPU, behaves as a build without a backend.
NewCollector ==
    /\ pc = "new"
    /\ enabled
    /\ devices' = IF backend = "linux" THEN discoverDevices ELSE <<>>
    /\ pc' = IF backend = "darwin" \/ devices' # <<>> THEN "begin" ELSE "done"
    /\ UNCHANGED <<sysVars, backend, enabled, total, appleVars, cancelled, dev, step, gauge>>

NotConstructed ==
    /\ pc = "new"
    /\ ~enabled
    /\ pc' = "done"
    /\ UNCHANGED <<sysVars, loopVars, appleVars, cancelled, dev, step, gauge>>

Cycle ==
    /\ pc' = IF backend = "linux" THEN "collect" ELSE IF cancelled THEN "refused" ELSE "read"
    /\ dev' = 1 /\ step' = 1
    /\ UNCHANGED <<sysVars, loopVars, appleVars, cancelled, gauge>>

\* Both backends run one cycle before they look at the context.
Start == pc = "begin" /\ Cycle

\* select takes either case when both are ready.
Tick == pc = "wait" /\ Cycle

\* Mutant of Return: a loop whose last poll failed does not look at the context.
ReturnAfterSuccess ==
    /\ pc = "wait"
    /\ cancelled
    /\ backend = "darwin" => healthy
    /\ pc' = "done"
    /\ UNCHANGED <<sysVars, loopVars, appleVars, cancelled, dev, step, gauge>>

Return ==
    /\ pc = "wait"
    /\ cancelled
    /\ pc' = "done"
    /\ UNCHANGED <<sysVars, loopVars, appleVars, cancelled, dev, step, gauge>>

-----------------------------------------------------------------------------
(* Linux: collect *)

\* A path resolved at start leads nowhere once the directory has moved.
readHwmonFile(d, f) ==
    IF d.hwmonPath = hwmon[d.index] THEN readUint64File(d.index, f) ELSE Nil

\* A pp_dpm file is a sequence of lines [active, empty, mhz]: marked with *,
\* nothing before the marker, the last field (Nil if that is no number).
parseDPMContent(lines) ==
    LET marked == SelectSeq(lines, LAMBDA l : l.active /\ ~l.empty)
    IN IF marked = <<>> THEN Nil ELSE marked[1].mhz

parseDPMFile(c, f) == IF files[c][f] = Nil THEN Nil ELSE parseDPMContent(files[c][f])

\* A series whose source could not be read keeps its value.
Emit(c, m, v, unit) ==
    gauge' = IF v = Nil THEN gauge ELSE [gauge EXCEPT ![<<c, m>>] = <<v, unit>>]

CollectUtilization(d) ==
    step = 1 /\ Emit(d.index, "utilization", readUint64File(d.index, "gpu_busy_percent"), 1)

CollectTemperature(d) ==
    /\ step = 2
    /\ IF d.hwmonPath = Nil THEN UNCHANGED gauge
       ELSE Emit(d.index, "temperature", readHwmonFile(d, "temp1_input"), 1000)

CollectVRAMUsed(d) ==
    step = 3 /\ Emit(d.index, "vramUsed", readUint64File(d.index, "mem_info_vram_used"), 1)

CollectVRAMTotal(d) ==
    step = 4 /\ Emit(d.index, "vramTotal", IF d.vramTotal > 0 THEN d.vramTotal ELSE Nil, 1)

preferred(a, b) == IF a # Nil THEN a ELSE b

CollectPower(d) ==
    /\ step = 5
    /\ IF d.hwmonPath = Nil THEN UNCHANGED gauge
       ELSE Emit(d.index, "power", preferred(readHwmonFile(d, "power1_average"),
                                             readHwmonFile(d, "power1_input")), 1000000)

CollectClocks(d) ==
    \/ step = 6 /\ Emit(d.index, "clockGpu", parseDPMFile(d.index, "pp_dpm_sclk"), 1)
    \/ step = 7 /\ Emit(d.index, "clockMemory", parseDPMFile(d.index, "pp_dpm_mclk"), 1)

\* Mutant of NextStep: a utilization that cannot be read ends the cycle.
NextStepIfRead ==
    IF step = 1 /\ readUint64File(devices[dev].index, "gpu_busy_percent") = Nil
    THEN step' = 1 /\ dev' = dev /\ pc' = "wait"
    ELSE /\ step' = IF step < LastStep THEN step + 1 ELSE 1
         /\ dev' = IF step < LastStep THEN dev ELSE dev + 1
         /\ pc' = IF step = LastStep /\ dev = Len(devices) THEN "wait" ELSE "collect"

\* The next function of the device, the next device, or the end of the cycle.
NextStep ==
    /\ step' = IF step < LastStep THEN step + 1 ELSE 1
    /\ dev' = IF step < LastStep THEN dev ELSE dev + 1
    /\ pc' = IF step = LastStep /\ dev = Len(devices) THEN "wait" ELSE "collect"

Collect ==
    /\ pc = "collect"
    /\ LET d == devices[dev] IN
        \/ CollectUtilization(d)
        \/ CollectTemperature(d)
        \/ CollectVRAMUsed(d)
        \/ CollectVRAMTotal(d)
        \/ CollectPower(d)
        \/ CollectClocks(d)
    /\ NextStep
    /\ UNCHANGED <<sysVars, loopVars, appleVars, cancelled>>

-----------------------------------------------------------------------------
(* macOS: poll *)

parseIOAccelerator(out) == out # Nil /\ out.util # Nil

\* Mutant of delete: only the utilization is deleted.
deleteOne(g, ms) == [s \in DOMAIN g |-> IF s = <<0, "utilization">> THEN Nil ELSE g[s]]

delete(g, ms) == [s \in DOMAIN g |-> IF s \in {0} \X ms THEN Nil ELSE g[s]]

set(g, m, v) == [g EXCEPT ![<<0, m>>] = <<v, 1>>]

log(level) == notice' = [lines |-> notice.lines + 1, level |-> level]

\* Mutant of markUnhealthy: the first poll is taken for one after a failure.
markUnhealthyUnpolled ==
    /\ gauge' = delete(gauge, {"utilization", "vramUsed"})
    /\ IF healthy THEN log("warn") ELSE UNCHANGED notice
    /\ healthy' = FALSE /\ polled' = TRUE

markUnhealthy ==
    /\ gauge' = delete(gauge, {"utilization", "vramUsed"})
    /\ IF healthy \/ ~polled THEN log("warn") ELSE UNCHANGED notice
    /\ healthy' = FALSE /\ polled' = TRUE

markHealthy(out) ==
    /\ gauge' = LET g1 == set(gauge, "utilization", out.util)
                    g2 == IF out.mem # Nil THEN set(g1, "vramUsed", out.mem)
                          ELSE delete(g1, {"vramUsed"})
                IN IF total > 0 THEN set(g2, "vramTotal", total) ELSE g2
    /\ IF ~healthy THEN log("info") ELSE UNCHANGED notice
    /\ healthy' = TRUE /\ polled' = TRUE

\* runIOReg returned the output of now, or Nil for an error, which the timeout
\* and a cancellation while ioreg runs also are.
PollReturns(out) ==
    /\ IF parseIOAccelerator(out) THEN markHealthy(out) ELSE markUnhealthy
    /\ pc' = "wait"
    /\ answer' = <<out>>
    /\ flips' = IF answer # <<>> /\ parseIOAccelerator(answer[1]) = parseIOAccelerator(out)
                THEN flips ELSE flips + 1
    /\ UNCHANGED <<sysVars, loopVars, cancelled, dev, step>>

ReadReturns == pc = "read" /\ PollReturns(ioreg)

ReadCancelled == pc = "read" /\ cancelled /\ PollReturns(Nil)

\* A command is not started under a context that is already cancelled.
ReadRefused == pc = "refused" /\ PollReturns(Nil)

Next ==
    \/ \E c \in ToSet(Card) : HwmonMoves(c) \/ \E f \in File : FileChanges(c, f)
    \/ IORegChanges \/ Cancel
    \/ NewCollector \/ NotConstructed \/ Start \/ Tick \/ Return
    \/ Collect
    \/ ReadReturns \/ ReadCancelled \/ ReadRefused

\* The ticker fires, reads return (ioreg has a timeout), and select, which
\* draws among the ready cases, does not prefer the ticker for ever.
Spec ==
    /\ Init /\ [][Next]_vars
    /\ WF_vars(NewCollector) /\ WF_vars(NotConstructed) /\ WF_vars(Start) /\ WF_vars(Tick)
    /\ WF_vars(Collect) /\ WF_vars(ReadReturns) /\ WF_vars(ReadRefused)
    /\ SF_vars(Return)

-----------------------------------------------------------------------------
(* Properties *)

\* macOS: after every poll the utilization and memory series exist exactly if
\* that poll read them, with the value it read: a broken probe or a vanished
\* memory key is absent data, never the last reading (applepoll.go, poll and
\* markUnhealthy), and a reading of 0 is not an absent one.
NeverFrozen ==
    backend = "darwin" /\ pc = "wait" =>
        LET read(k) == IF parseIOAccelerator(answer[1]) /\ answer[1][k] # Nil
                       THEN <<answer[1][k], 1>> ELSE Nil
        IN /\ gauge[<<0, "utilization">>] = read("util")
           /\ gauge[<<0, "vramUsed">>] = read("mem")

\* macOS: the warn and info lines tell every change of the probe's health, the
\* first poll's outcome included, once, and nothing else does (healthy, polled).
OneNoticePerChange ==
    /\ notice.lines = flips
    /\ pc = "wait" /\ backend = "darwin" =>
           notice.level = IF parseIOAccelerator(answer[1]) THEN "info" ELSE "warn"

\* What a cycle would read now for a series of device d.
current(d, m) ==
    CASE m = "utilization" -> readUint64File(d.index, "gpu_busy_percent")
      [] m = "vramUsed"    -> readUint64File(d.index, "mem_info_vram_used")
      [] m = "vramTotal"   -> IF d.vramTotal = 0 THEN Nil ELSE d.vramTotal
      [] m = "temperature" -> IF d.hwmonPath = Nil THEN Nil ELSE readHwmonFile(d, "temp1_input")
      [] m = "power"       -> IF d.hwmonPath = Nil THEN Nil
                              ELSE IF readHwmonFile(d, "power1_average") # Nil
                                   THEN readHwmonFile(d, "power1_average")
                                   ELSE readHwmonFile(d, "power1_input")
      [] m = "clockGpu"    -> parseDPMFile(d.index, "pp_dpm_sclk")
      [] m = "clockMemory" -> parseDPMFile(d.index, "pp_dpm_mclk")

unit(m) == CASE m = "temperature" -> 1000 [] m = "power" -> 1000000 [] OTHER -> 1

Shown ==
    /\ \A i \in DOMAIN devices : \A m \in Metric :
           current(devices[i], m) # Nil =>
               gauge[<<devices[i].index, m>>] = <<current(devices[i], m), unit(m)>>
    /\ backend = "darwin" /\ ioreg # Nil /\ ioreg.util # Nil =>
           gauge[<<0, "utilization">>] = <<ioreg.util, 1>>

\* However the machine behaved before, once it stays as it is the gauges come
\* to show every value that can be read: no failed read of one file keeps
\* another from being collected, and a probe that failed, even at the first
\* poll, is taken up again.  (Unless the collector was stopped.)
Settles == pc = "begin" ~> [](cancelled \/ Shown)

\* The loops end after the context is cancelled, whatever select draws and
\* wherever the cycle is.
StopsOnCancel == cancelled ~> pc = "done"

\* README.md says of the Linux backend that "missing or unreadable files do not
\* produce that metric": a file that cannot be read any more comes to have no
\* series.  The collect functions return early and leave the last value.
UnreadableIsAbsent ==
    pc = "begin" ~>
        [](cancelled \/ \A i \in DOMAIN devices : \A m \in Metric :
               current(devices[i], m) = Nil => gauge[<<devices[i].index, m>>] = Nil)
=============================================================================
