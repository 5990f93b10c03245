------------------------------ MODULE DeviceChoice ------------------------------
(***************************************************************************)
(* How a sample comes by its device: findHggcDevice of helper_hggc.h and   *)
(* findHggcDeviceDRV of helper_hggc_drvapi.h, with the command line of the *)
(* samples that have one, and the two calls of hgrtc_helper.h that both    *)
(* look for a device: one to compile for, one to load the module on.       *)
(*                                                                         *)
(* External: the driver reports each device's attributes, the same at      *)
(* every call; a call in checkHggcErrors that fails ends the process.      *)
(***************************************************************************)
EXTENDS CommandLine

CONSTANTS
  Lines,    \* command lines
  Systems,  \* sequences of devices
  Unexposed \* the clock rate of a device that does not report one

\* A device is [mode, capability, units, clock].
Capabilities == {"0.9", "8.0", "8.9", "9.0", "9999.9999"}

Device == [mode : {"default", "prohibited"}, capability : Capabilities, units : Nat,
           clock : Nat \cup {Unexposed}]

Architectures == {"ppu001", "ppu0015"}

ChoiceAssumption ==
  /\ LineAssumption /\ Unexposed \notin Nat /\ None \notin Architectures
  /\ Lines \subseteq Seq(Argument) /\ Systems \subseteq Seq(Device)

VARIABLES
  main,     \* [client, args, options, pc, exit]: the sample, its line, and where it is
  devices,  \* what the driver reports
  scan,     \* [at, best, perf, prohibited]: locals of ppuGetMaxPerfDeviceId
  found     \* [device, arch, loaded]: the device found last, the architecture
            \* compiled for, the device the module was loaded on

choice == << main, devices, scan, found >>

\* Samples that use the runtime: one with options, two that print a usage.
\* Samples that use the driver: one that compiles its kernel, and the others.
\* jit_lto compiles and links for the primary device.
Runtime == {"matrix_mul", "acsolver", "acdnn"}
Driver  == {"runtime_compile", "driver_api"}
Primary == {"jit_lto"}
Clients == Runtime \cup Driver \cup Primary

Options(client) ==
  CASE client = "acsolver"  -> {"N"}
    [] client = "acdnn"     -> {"N", "H"}
    [] client \in {"matrix_mul", "runtime_compile"} -> {"wA"}
    [] OTHER -> {}

HasUsage(client) == client \in {"acsolver", "acdnn"}

Count == Len(devices)
Dev(d) == devices[d + 1]

Allowed(d) == Dev(d).mode # "prohibited"

Init ==
  /\ \E client \in Clients, args \in Lines :
       main = [client |-> client, args |-> args, options |-> << >>, pc |-> "parse",
               exit |-> "none"]
  /\ devices \in Systems
  /\ scan = [at |-> 0, best |-> 0, perf |-> 0, prohibited |-> 0]
  /\ found = [device |-> None, arch |-> None, loaded |-> None]

At(label) == main.exit = "none" /\ main.pc = label /\ UNCHANGED devices

State(options, pc, exit) ==
  main' = [client |-> main.client, args |-> main.args, options |-> options, pc |-> pc,
           exit |-> exit]

Goto(label) == State(main.options, label, "none")

Exit(status) == State(main.options, main.pc, status)

-------------------------------------------------------------------------------
(* The sample's own options.                                               *)

Given ==
  [o \in { p \in Options(main.client) : hasArg(main.args, p) } |-> getArgInt(main.args, o, FALSE)]

\* Options not given keep their defaults.  acsolver refuses a small order.
ParseOptions ==
  /\ At("parse")
  /\ IF HasUsage(main.client) /\ hasArg(main.args, "h") THEN State(<< >>, "parse", "usage")
     ELSE IF main.client = "acsolver" /\ "N" \in DOMAIN Given /\ Given["N"] < 2
     THEN State(Given, "parse", "failure")
     ELSE State(Given, "find", "none")
  /\ UNCHANGED << scan, found >>

-------------------------------------------------------------------------------
(* findHggcDevice and findHggcDeviceDRV                                    *)

FindDevice ==
  /\ At("find") /\ main.client \notin Primary
  /\ IF hasArg(main.args, "device") THEN Goto("init") ELSE Goto("scan")
  /\ scan' = [at |-> 0, best |-> 0, perf |-> 0, prohibited |-> 0]
  /\ UNCHANGED found

Pick(d) ==
  /\ Goto(IF main.client \notin {"runtime_compile"} \cup Primary THEN "use"
          ELSE IF found.arch = None THEN "compile" ELSE "load")
  /\ found' = [device |-> d, arch |-> found.arch, loaded |-> found.loaded]

Requested == getArgInt(main.args, "device", TRUE)

\* ppuDeviceInit: a number that is no device, or a device that may not be used.
InitDevice ==
  /\ At("init") /\ main.client \in Runtime
  /\ IF Requested < 0 \/ Requested >= Count THEN Exit("failure") /\ UNCHANGED found
     ELSE IF ~ Allowed(Requested) \/ Dev(Requested).capability = "0.9"
     THEN Exit("failure") /\ UNCHANGED found
     ELSE Pick(Requested)
  /\ UNCHANGED scan

\* ppuDeviceInitDRV: a negative number is device 0; the process that is refused
\* its device ends with EXIT_SUCCESS.
InitDeviceDRV ==
  /\ At("init") /\ main.client \in Driver
  /\ LET d == IF Requested < 0 THEN 0 ELSE Requested IN
       IF Count = 0 THEN Exit("failure") /\ UNCHANGED found
       ELSE IF d >= Count THEN Exit("success") /\ UNCHANGED found
       ELSE IF ~ Allowed(d) THEN Exit("success") /\ UNCHANGED found
       ELSE Pick(d)
  /\ UNCHANGED scan

\* ppuCoresPerUnit; an unknown capability has the last entry's.
Cores(capability) ==
  IF capability = "8.0" THEN 64 ELSE IF capability = "9999.9999" THEN 1 ELSE 128

Clock(d) == IF Dev(d).clock = Unexposed THEN 1 ELSE Dev(d).clock

Perf(d) == Dev(d).units * Cores(Dev(d).capability) * Clock(d)

Scanned(best, perf, prohibited) ==
  scan' = [at |-> scan.at + 1, best |-> best, perf |-> perf, prohibited |-> prohibited]

\* The driver's clock rate is read first and must be there.
ClockMissing == main.client \in Driver /\ Dev(scan.at).clock = Unexposed

\* A prohibited device is counted and ranked.
ScanEveryDevice ==
  /\ At("scan") /\ scan.at < Count /\ ~ ClockMissing
  /\ IF Perf(scan.at) > scan.perf THEN Scanned(scan.at, Perf(scan.at), scan.prohibited)
                                  ELSE Scanned(scan.best, scan.perf, scan.prohibited)
  /\ UNCHANGED << main, found >>

\* A turn of the loop: a prohibited device is only counted.
ScanDevice ==
  /\ At("scan") /\ scan.at < Count /\ ~ ClockMissing
  /\ IF ~ Allowed(scan.at) THEN Scanned(scan.best, scan.perf, scan.prohibited + 1)
     ELSE IF Perf(scan.at) > scan.perf THEN Scanned(scan.at, Perf(scan.at), scan.prohibited)
     ELSE Scanned(scan.best, scan.perf, scan.prohibited)
  /\ UNCHANGED << main, found >>

ScanFails ==
  /\ At("scan") /\ scan.at < Count /\ ClockMissing
  /\ Exit("failure")
  /\ UNCHANGED << scan, found >>

\* No device, or none that is not prohibited, is a failure.
ScanEnds ==
  /\ At("scan") /\ scan.at = Count
  /\ IF scan.prohibited = Count THEN Exit("failure") /\ UNCHANGED found
                                ELSE Pick(scan.best)
  /\ UNCHANGED scan

\* jit_lto.cpp: device 0, if there is one.
TakePrimary ==
  /\ At("find") /\ main.client \in Primary
  /\ IF Count = 0 THEN Exit("failure") /\ UNCHANGED found ELSE Pick(0)
  /\ UNCHANGED scan

-------------------------------------------------------------------------------
(* What the device is for.                                                 *)

\* hgPpuArchName, and main of jit_lto.cpp.
ArchName(capability) == IF capability = "8.9" THEN "ppu0015" ELSE "ppu001"

\* compileFileToHGBIN, after it found a device; loadHGBIN looks for one again.
\* jit_lto compiles and links for the device it creates its context on.
Compile ==
  /\ At("compile")
  /\ found' = [device |-> found.device, arch |-> ArchName(Dev(found.device).capability),
               loaded |-> None]
  /\ Goto(IF main.client \in Primary THEN "load" ELSE "find")
  /\ UNCHANGED scan

\* loadHGBIN on the primary device.
LoadOnPrimary ==
  /\ At("load")
  /\ found' = [device |-> found.device, arch |-> found.arch, loaded |-> 0]
  /\ Goto("use")
  /\ UNCHANGED scan

\* loadHGBIN: a context on the device, and the module in it.
Load ==
  /\ At("load")
  /\ found' = [device |-> found.device, arch |-> found.arch, loaded |-> found.device]
  /\ Goto("use")
  /\ UNCHANGED scan

Use ==
  /\ At("use")
  /\ Exit("finished")
  /\ UNCHANGED << scan, found >>

\* A call in checkHggcErrors or HGRTC_CHECK fails, or a file is missing.
ApiFails ==
  /\ main.exit = "none" /\ main.pc # "parse"
  /\ Exit("failure")
  /\ UNCHANGED << devices, scan, found >>

Progress ==
  \/ ParseOptions \/ FindDevice \/ TakePrimary \/ InitDevice \/ InitDeviceDRV
  \/ ScanDevice \/ ScanFails \/ ScanEnds \/ Compile \/ Load \/ Use

Next == Progress \/ ApiFails

\* Nothing keeps the process from its next call.
Spec == Init /\ [][Next]_choice /\ WF_choice(Progress)
-------------------------------------------------------------------------------
Places == {"parse", "find", "init", "scan", "compile", "load", "use"}
Statuses == {"none", "usage", "failure", "success", "finished"}

TypeOK ==
  /\ main.client \in Clients /\ main.args \in Lines
  /\ main.pc \in Places /\ main.exit \in Statuses
  /\ devices \in Systems
  /\ scan \in [at : 0..Count, best : Nat, perf : Nat, prohibited : 0..Count]
  /\ found \in [device : Nat \cup {None}, arch : Architectures \cup {None},
                loaded : Nat \cup {None}]

\* A sample that has a device has one of the system's, and may use it: one it
\* asked for by number, or else the first of the best, whichever API ranks them.
\* Only when no allowed device has a figure of merit is device 0 taken unseen.
BestAllowedDevice ==
  main.exit = "none" /\ main.pc \in {"compile", "load", "use"} /\ main.client \notin Primary =>
    LET d == found.device IN
      /\ d \in 0..Count - 1
      /\ hasArg(main.args, "device") =>
           Allowed(d) /\ d = IF Requested < 0 THEN 0 ELSE Requested
      /\ ~ hasArg(main.args, "device") =>
           \/ d = 0 /\ \A e \in 0..Count - 1 : Allowed(e) => Perf(e) = 0
           \/ /\ Allowed(d)
              /\ \A e \in 0..Count - 1 : Allowed(e) => Perf(e) <= Perf(d)
              /\ \A e \in 0..d - 1 : Allowed(e) => Perf(e) < Perf(d)

\* The module is loaded on a device of the architecture it was compiled for,
\* though device and architecture are found by two searches.
ModuleFitsDevice ==
  found.loaded # None => found.arch = ArchName(Dev(found.loaded).capability)

\* acdnn_conv_activation.cpp:145 "-H=<int>   height" and :151 "-h            Show
\* this help": that sample prints its usage and ends only when it is asked to.
UsageOnlyOnRequest ==
  main.client = "acdnn" /\ main.exit = "usage" =>
    \E i \in 1..Len(main.args) : main.args[i].name = "h"

\* The sample ends.
Terminates == <>(main.exit # "none")
===============================================================================
