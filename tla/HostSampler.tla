------------------------------- MODULE HostSampler -------------------------------
(***************************************************************************)
(* The machine and process sampler of one run (resmon/resmon.go).  At      *)
(* every tick it takes the time, reads the machine's counters from         *)
(* /proc/stat, of which it calibrates how many ticks a second has (tps),   *)
(* lists the processes, and reads the counters of one after the other;     *)
(* what a process spent since it was read before is credited to its name.  *)
(* The machine goes on between any two of these reads, any of them may     *)
(* fail, and a process may start, end, change its name or have the number  *)
(* of one that ended.                                                      *)
(*                                                                         *)
(* Time is counted in units in which the whole machine spends Capacity     *)
(* ticks, and a run begins with its first sample.  The load average plays  *)
(* no part and is left out, the percentages of the machine and the         *)
(* percentiles of Stop too.  The module is written to be extended next to  *)
(* another component's, hence the names of its initial states and steps.   *)
(*                                                                         *)
(* An operator named ...Mutant is the operator after it as a plausible bug *)
(* would have it; the specification does not use it.                       *)
(***************************************************************************)
EXTENDS Integers, FiniteSetsExt

CONSTANTS Pids,            \* numbers of processes
          Names,           \* their binaries
          Capacity,        \* ticks of all cores in a unit of time
          Uptime,          \* units the machine was up before the run
          MaxTime,         \* bound: units of a run
          MaxHostSamples   \* bound: samples of a run

ASSUME HostSamplerAssumption ==
  /\ IsFiniteSet(Pids) /\ IsFiniteSet(Names)
  /\ Capacity \in Nat \ {0} /\ Uptime \in Nat
  /\ MaxTime \in Nat /\ MaxHostSamples \in Nat

Process == [name : Names, ticks : Nat]
Absent == [name |-> "absent"]      \* no such process, no such entry
Uncalibrated == [span |-> 0, elapsed |-> 1]

VARIABLES procs,     \* pid -> the process that has it
          time,      \* units since the first sample began
          phase,     \* what the sampler does next: "idle", "machine", "list", "walk"
          prevTime,  \* when the last sample began
          elapsed,   \* from the one before it to that, while a sample is taken
          prevMach,  \* when /proc/stat was read last; before the run, when it was 0
          sampled,   \* nSamples; havePrev once it is not 0
          tps,       \* Capacity * span / elapsed, as it was calibrated
          unread,    \* pids that were listed and are still to be read
          cur,       \* pid -> the process as this sample read it
          lastPID,   \* pid -> the process as the last sample read it
          totalTick, \* name -> ticks credited to it
          row,       \* the last percentages: ticks, elapsed and tps; how long they took
          stopped    \* Stop has returned

world == <<procs, time>>
begun == <<prevTime, elapsed>>
machine == <<prevMach, sampled, tps>>
walk == <<unread, cur>>
books == <<lastPID, totalTick, row>>
hostVars == <<world, phase, begun, machine, walk, books, stopped>>

Nothing == [pid \in Pids |-> Absent]
NoRow == [ticks |-> 0, elapsed |-> 0, walk |-> 0, tps |-> Uncalibrated]

HostInit ==
  /\ procs \in [Pids -> {Absent} \cup [name : Names, ticks : {1}]]
  /\ time = 0 /\ phase = "idle"
  /\ prevTime = 0 /\ elapsed = 0
  /\ prevMach = -Uptime /\ sampled = 0 /\ tps = Uncalibrated
  /\ unread = {} /\ cur = Nothing
  /\ lastPID = Nothing
  /\ totalTick = [name \in Names |-> 0]
  /\ row = NoRow /\ stopped = FALSE

Alive == {pid \in Pids : procs[pid] # Absent}

-------------------------------------------------------------------------------
(***************************************************************************)
(* The machine, at any time from the first sample to Stop: between two     *)
(* samples and during one.                                                 *)
(***************************************************************************)
Spend ==
  /\ time < MaxTime
  /\ \E spent \in [Pids -> 0..Capacity] :
       /\ MapThenSumSet(LAMBDA pid : spent[pid], Pids) <= Capacity
       /\ \A pid \in Pids \ Alive : spent[pid] = 0
       /\ procs' = [pid \in Pids |->
                     IF pid \in Alive
                       THEN [procs[pid] EXCEPT !.ticks = @ + spent[pid]] ELSE Absent]
  /\ time' = time + 1

StartProcess(pid, name) ==
  /\ pid \notin Alive
  /\ procs' = [procs EXCEPT ![pid] = [name |-> name, ticks |-> 0]]
  /\ UNCHANGED time

ExitProcess(pid) ==
  /\ pid \in Alive
  /\ procs' = [procs EXCEPT ![pid] = Absent]
  /\ UNCHANGED time

\* exec, or a binary whose name cannot be read from exe any more.
Rename(pid, name) ==
  /\ pid \in Alive
  /\ name # procs[pid].name
  /\ procs' = [procs EXCEPT ![pid].name = name]
  /\ UNCHANGED time

Machine ==
  /\ ~stopped
  /\ ~(phase = "idle" /\ sampled = 0)
  /\ \/ Spend
     \/ \E pid \in Pids, name \in Names : StartProcess(pid, name) \/ Rename(pid, name)
     \/ \E pid \in Pids : ExitProcess(pid)
  /\ UNCHANGED <<phase, begun, machine, walk, books, stopped>>

-------------------------------------------------------------------------------
(***************************************************************************)
(* sample: the time, the machine, then one process after the other.        *)
(***************************************************************************)
BeginSample ==
  /\ phase = "idle" /\ ~stopped
  /\ sampled < MaxHostSamples
  /\ sampled > 0 => time > prevTime
  /\ elapsed' = (IF sampled > 0 THEN time - prevTime ELSE 0)
  /\ prevTime' = time
  /\ phase' = "machine"
  /\ UNCHANGED <<world, machine, walk, books, stopped>>

\* readMachineStat: from the second sample on, if the counter has moved; a failed
\* read keeps the old tps and the old counter.
Calibration(ok) ==
  IF ok /\ sampled > 0 /\ time > prevMach
    THEN [span |-> time - prevMach, elapsed |-> elapsed] ELSE tps

ReadMachine ==
  /\ phase = "machine"
  /\ \E ok \in BOOLEAN : /\ tps' = Calibration(ok)
                        /\ prevMach' = IF ok THEN time ELSE prevMach
  /\ sampled' = sampled + 1
  /\ phase' = "list"
  /\ UNCHANGED <<world, begun, walk, books, stopped>>

\* ReadDir of /proc.
ListProcesses ==
  /\ phase = "list"
  /\ unread' = Alive
  /\ phase' = "walk"
  /\ UNCHANGED <<world, begun, machine, cur, books, stopped>>

\* It fails: the machine was read, no process is.
LoseProcessesMutant == UNCHANGED lastPID
LoseProcesses == lastPID' = Nothing
ListFails ==
  /\ phase = "list"
  /\ LoseProcesses
  /\ elapsed' = 0 /\ phase' = "idle"
  /\ UNCHANGED <<world, prevTime, machine, walk, totalTick, row, stopped>>

\* One that has ended since, or whose stat cannot be read, leaves no entry.
ReadProcess(pid) ==
  /\ phase = "walk" /\ pid \in unread
  /\ unread' = unread \ {pid}
  /\ \/ cur' = [cur EXCEPT ![pid] = procs[pid]]
     \/ cur' = cur
  /\ UNCHANGED <<world, phase, begun, machine, books, stopped>>

Seen == {pid \in Pids : cur[pid] # Absent}

\* No baseline: a fresh or renamed process, or a counter that went back.
Spent(pid) ==
  IF /\ cur[pid] # Absent /\ lastPID[pid] # Absent
     /\ lastPID[pid].name = cur[pid].name
     /\ cur[pid].ticks >= lastPID[pid].ticks
    THEN cur[pid].ticks - lastPID[pid].ticks ELSE 0

Deltas ==
  [name \in Names |-> MapThenSumSet(Spent, {pid \in Seen : cur[pid].name = name})]

\* The percentages of one sample: ticks of all names, over elapsed times tps.
Percentages(deltas) ==
  IF tps = Uncalibrated THEN row
    ELSE [ticks |-> MapThenSumSet(LAMBDA name : deltas[name], Names),
          elapsed |-> elapsed, walk |-> time - prevTime, tps |-> tps]

EndSample ==
  /\ phase = "walk" /\ unread = {}
  /\ totalTick' = [name \in Names |-> totalTick[name] + Deltas[name]]
  /\ row' = Percentages(Deltas)
  /\ lastPID' = cur
  /\ cur' = Nothing /\ elapsed' = 0 /\ phase' = "idle"
  /\ UNCHANGED <<world, prevTime, machine, unread, stopped>>

\* Stop waits for the sample that is being taken.
StopHost ==
  /\ phase = "idle" /\ ~stopped
  /\ stopped' = TRUE
  /\ UNCHANGED <<world, phase, begun, machine, walk, books>>

HostNext ==
  \/ Machine
  \/ BeginSample \/ ReadMachine \/ ListProcesses \/ ListFails
  \/ \E pid \in Pids : ReadProcess(pid)
  \/ EndSample \/ StopHost

HostSpec == HostInit /\ [][HostNext]_hostVars

-------------------------------------------------------------------------------
HostTypeOK ==
  /\ procs \in [Pids -> {Absent} \cup Process]
  /\ cur \in [Pids -> {Absent} \cup Process] /\ unread \subseteq Pids
  /\ lastPID \in [Pids -> {Absent} \cup Process]
  /\ time \in 0..MaxTime /\ elapsed \in Nat
  /\ prevTime \in 0..time /\ prevMach \in -Uptime..time
  /\ phase \in {"idle", "machine", "list", "walk"}
  /\ sampled \in 0..MaxHostSamples /\ stopped \in BOOLEAN
  /\ totalTick \in [Names -> Nat]

(***************************************************************************)
(* Every tick is credited once, and in its time: one sample credits all    *)
(* names together no more than the machine had from the beginning of the   *)
(* sample before to its own end, and all samples no more than it had since *)
(* the first one began.  So it is although the processes are read at       *)
(* different moments, whatever could not be read in this sample or the one *)
(* before, and however pids are used again (resmon.go:193-292).            *)
(***************************************************************************)
WithinMachine ==
  /\ row.ticks <= (row.elapsed + row.walk) * Capacity
  /\ MapThenSumSet(LAMBDA name : totalTick[name], Names) <= time * Capacity

(***************************************************************************)
(* The percentages of one sample add up to no more than 100.  They do      *)
(* not: elapsed ends where the sample begins (resmon.go:197-201), and a    *)
(* process is read later, by a delay that differs from sample to sample    *)
(* (resmon.go:237-274), so that it may have spent more than elapsed has.   *)
(***************************************************************************)
PercentagesFit == row.ticks * row.tps.elapsed <= row.elapsed * row.tps.span * Capacity

(***************************************************************************)
(* "Summary (printed live and saved to results/<runid>-summary.txt         *)
(* (+ .json))" (README.md:74): the totals that Stop divides by tps are     *)
(* numbers, so that the result can be written as JSON.                     *)
(***************************************************************************)
TotalsAreNumbers == stopped /\ sampled >= 2 => tps # Uncalibrated
===============================================================================
