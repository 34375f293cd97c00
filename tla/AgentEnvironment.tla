-------------------------- MODULE AgentEnvironment --------------------------
(***************************************************************************)
(* What the agent runs in, and the readings it takes there: the evidence    *)
(* gathered once at start, the rules that classify it, the cgroup that holds *)
(* the workload, and on every tick that cgroup's files at each level up to   *)
(* the mount, as the CPU, memory and swap groups a snapshot shows.           *)
(*                                                                         *)
(* The workload runs, limits change, files become unreadable and the cgroup  *)
(* may be recreated between any two readings.  How long a failing group is   *)
(* carried, and what alerts make of it, is AgentCollector's.                 *)
(*                                                                         *)
(* A path is the sequence of its segments; text is what its parser tells     *)
(* apart.  CPUs, bytes and CPU time are small integers.                      *)
(***************************************************************************)
EXTENDS Integers, Sequences, FiniteSetsExt, SequencesExt

CONSTANTS
    Evidences,        \* what the agent may find at start, each with the world it is found in
    LimitTrees,       \* the limits of every cgroup in the agent's namespace
    FaultSets,        \* the files that are absent, unreadable or malformed
    HostAmount,       \* the host's CPUs, memory and swap
    Unbounded,        \* `max` in a limit file
    BootedBefore,     \* how long the kernel had been up when the environment started
    MaxLevels,        \* MAX_LEVELS
    MinUsageInterval, \* MIN_USAGE_INTERVAL
    WorkLoads,        \* the CPU time a workload may use, and the jiffies stolen, per unit of time
    Footprints,       \* the memory it may hold: current, inactive file cache, and swap
    MaxEnvTime,       \* bound on the run's length
    MaxChanges        \* bound on the changes under the agent

ASSUME EnvironmentAssumption ==
    /\ MaxLevels \in Nat \ {0} /\ MinUsageInterval \in Nat \ {0} /\ {MaxEnvTime, MaxChanges} \subseteq Nat
    /\ HostAmount.cpu \in Nat \ {0} /\ HostAmount.memory \in Nat /\ HostAmount.swap \in Nat
    /\ \A t \in LimitTrees, g \in DOMAIN HostAmount :
          \A p \in DOMAIN t : t[p][g] \in 0..Unbounded
    /\ \A l \in WorkLoads : l[1] \in Nat /\ l[2] \in 0..2

VARIABLES
    evidence,   \* EnvironmentEvidence, and the world that shows it
    limits,     \* the limit files of every cgroup
    faulty,     \* the files that do not read as the kernel writes them
    work,       \* the monitored cgroup's counter and memory; all it ever used; its incarnation
    steal,      \* /proc/stat: the jiffies stolen and in all, and whether it has a steal column
    now,        \* the monotonic clock
    changes,    \* how many changes there were
    prevCounters, \* the counters of the last reading that had them
    prevSteal,
    lastGroup,  \* each group's last cgroup values, once its lineage is the cgroup's
    shown       \* the last reading published, with what was true as it was read

envVars == <<evidence, limits, faulty, work, steal, now, changes, prevCounters, prevSteal, lastGroup, shown>>

-----------------------------------------------------------------------------
(* Evidence: paths, mounts and markers.                                    *)

NoPath == <<"..">>

\* A path that is relative or climbs is none: it lies outside the reader's namespace.
ParsePath(text) ==
    IF text.absolute /\ ToSet(text.segments) \cap {".", ".."} = {} THEN text.segments ELSE NoPath

NoMount == [point |-> NoPath, root |-> NoPath]

\* The first line that is a cgroup2 mount at an absolute point, with a root in the namespace.
ParseMount(lines) ==
    LET usable == {i \in DOMAIN lines :
                     /\ lines[i].type = "cgroup2" /\ lines[i].point.absolute
                     /\ ".." \notin ToSet(lines[i].point.segments)
                     /\ ParsePath(lines[i].root) # NoPath}
        line == lines[Min(usable)]
    IN IF usable = {} THEN NoMount
       ELSE [point |-> line.point.segments, root |-> ParsePath(line.root)]

Unreadable(why) == [access |-> why]

\* /proc/self/cgroup: its `0::` line, if it has one.
ParseSelf(text) ==
    CASE text.kind \in {"missing", "empty"} -> Unreadable("SelfCgroupMissing")
      [] text.kind = "v1" -> Unreadable("V1Only")
      [] OTHER -> IF ParsePath(text) = NoPath THEN Unreadable("OutsideMountRoot")
                  ELSE [access |-> "v2", path |-> ParsePath(text)]

ParsePid1(text) == IF text.kind = "path" THEN ParsePath(text) ELSE NoPath

\* The mount point shows a cgroup with a cgroup.type file: every one but the host's root.
NamespaceRootTyped(e, mount) ==
    mount # NoMount /\ (e.hostNamespace => mount.root # <<>>)

HoldsPath(path, other) == other # NoPath /\ IsPrefix(path, other)

\* The cgroup that holds the whole workload: a private namespace's root, else the agent's own.
Monitored(e) ==
    LET own == ParseSelf(e.selfCgroup)
        mount == ParseMount(e.mounts)
        private == mount.root = <<>> /\ NamespaceRootTyped(e, mount)
        path == IF private THEN <<>> ELSE own.path
    IN CASE own.access # "v2" -> own
         [] own.access = "v2" /\ mount = NoMount -> Unreadable("NoCgroupMount")
         [] own.access = "v2" /\ mount # NoMount /\ ~IsPrefix(mount.root, own.path) ->
               Unreadable("OutsideMountRoot")
         [] OTHER -> [access |-> "v2", path |-> path, mount |-> mount,
                      dir |-> IF private THEN <<>>
                              ELSE SubSeq(own.path, Len(mount.root) + 1, Len(own.path)),
                      pid1 |-> HoldsPath(path, ParsePid1(e.pid1))]

\* The markers found: the agent's own variable, then the service manager's.
Markers(e) == {m \in {e.containerVar, e.systemdContainer} : m # "none"}

\* mutant: any value of `container` is taken for a container's.
ShowsContainerAny(e) == e.dockerenv \/ e.containerenv \/ e.kubernetes \/ Markers(e) # {}

ShowsContainer(e) ==
    e.dockerenv \/ e.containerenv \/ e.kubernetes \/ Markers(e) \ {"wsl"} # {}

\* Of two markers that name LXC or nspawn, the agent's own variable's.
LxcOrNspawn(e) ==
    LET names == {"lxc", "systemd-nspawn"}
    IN IF e.containerVar \in names THEN e.containerVar
       ELSE IF e.systemdContainer \in names THEN e.systemdContainer ELSE "none"

Runtime(e) ==
    CASE e.kubernetes -> "kubernetes"
      [] ~e.kubernetes /\ (e.containerenv \/ "podman" \in Markers(e)) -> "podman"
      [] OTHER -> IF LxcOrNspawn(e) # "none" THEN LxcOrNspawn(e)
                  ELSE IF e.dockerenv \/ "docker" \in Markers(e) THEN "docker" ELSE "none"

\* The DMI vendor and product: a vendor of physical machines too is named only by its virtual
\* product.
DmiHypervisor(dmi) ==
    IF dmi.product = "KVM" THEN "kvm"
    ELSE IF dmi.vendor \in {"QEMU", "VMware", "Xen"} THEN dmi.vendor
    ELSE IF dmi.vendor = "Microsoft" /\ dmi.product = "Virtual Machine" THEN "hyper-v"
    ELSE IF dmi.vendor = "innotek" \/ dmi.product = "VirtualBox" THEN "virtualbox"
    ELSE IF dmi.vendor = "Amazon EC2" /\ dmi.product # "metal" THEN "ec2"
    ELSE IF dmi.vendor = "Google" /\ dmi.product = "Compute Engine" THEN "gce" ELSE "none"

HypervisorOf(e) ==
    CASE e.wsl \/ "wsl" \in Markers(e) -> "wsl"
      [] ~(e.wsl \/ "wsl" \in Markers(e)) /\ DmiHypervisor(e.dmi) # "none" -> DmiHypervisor(e.dmi)
      [] OTHER -> IF e.xen THEN "Xen" ELSE IF e.cpuFlag THEN "other" ELSE "none"

Classify(e) ==
    CASE ShowsContainer(e) -> [class |-> "container", name |-> Runtime(e)]
      [] ~ShowsContainer(e) /\ HypervisorOf(e) # "none" ->
            [class |-> "vm", name |-> HypervisorOf(e)]
      [] OTHER -> [class |-> IF e.x86 THEN "metal" ELSE "undetermined", name |-> "none"]

\* The cgroup the agent measures by: only a container's.
MonitoredCgroup == IF ShowsContainer(evidence) THEN Monitored(evidence) ELSE Unreadable("host")
Measured == MonitoredCgroup.access = "v2"

LoadScope == IF ShowsContainer(evidence) THEN "host" ELSE "environment"

ProcessView ==
    CASE ~ShowsContainer(evidence) -> "host"
      [] ShowsContainer(evidence) /\ ~Measured -> "unmeasured"
      [] OTHER -> IF MonitoredCgroup.pid1 THEN "workload" ELSE "shared"

-----------------------------------------------------------------------------
(* One tick's files.                                                       *)

\* mutant: the workload's own level alone is read.
CgroupLevelsOwn(m) == {m.dir}

\* The monitored cgroup's directory and its ancestors up to the mount point.
CgroupLevels(m) ==
    {SubSeq(m.dir, 1, n) : n \in Max({0, Len(m.dir) - MaxLevels + 1})..Len(m.dir)}

\* How a file reads: its value, or "absent", "unreadable" or "malformed".
StateOf(path, file) ==
    LET f == {x \in faulty : x.path = path /\ x.file = file}
    IN IF f = {} THEN "ok" ELSE (CHOOSE x \in f : TRUE).state

\* A file that is there and gives no value.  A quota or a cpuset of no CPU is malformed.
Bad(path, file) ==
    \/ StateOf(path, file) \in {"unreadable", "malformed"}
    \/ file = "cpu.max" /\ StateOf(path, file) = "ok" /\ limits[path].cpu = 0
    \/ file = "cpuset" /\ StateOf(path, file) = "ok" /\ limits[path].cpuset = 0

LimitFile == [cpu |-> "cpu.max", memory |-> "memory.max", swap |-> "memory.swap.max"]
UsageFile == [cpu |-> "cpu.stat", memory |-> "memory.current", swap |-> "memory.swap.current"]

\* The cgroup a directory under the mount point shows.
ShownAt(m, dir) == m.mount.root \o dir

\* The bounds the limit files of a group state: no file, no bound.
Limits(m, group) ==
    {limits[p][group] : p \in {q \in {ShownAt(m, d) : d \in CgroupLevels(m)} :
                                  StateOf(q, LimitFile[group]) = "ok"}}
        \cup (IF group = "cpu" /\ StateOf(m.path, "cpuset") = "ok" THEN {limits[m.path].cpuset} ELSE {})

\* The files a group needs beside its usage file.
RestFails(m, group) ==
    \/ \E d \in CgroupLevels(m) : Bad(ShownAt(m, d), LimitFile[group])
    \/ group = "cpu" /\ Bad(m.path, "cpuset")
    \/ group = "memory" /\ StateOf(m.path, "memory.stat") # "ok"

\* A group's files: "absent" without its usage file, "failed" when any gives no value.
GroupRead(m, group) ==
    CASE StateOf(m.path, UsageFile[group]) = "absent" -> "absent"
      [] Bad(m.path, UsageFile[group]) -> "failed"
      [] OTHER -> IF RestFails(m, group) THEN "failed" ELSE "read"

\* The least of the host's amount and every bound.
Capacity(m, group) == Min({HostAmount[group]} \cup Limits(m, group))
Tightest(m, group) == Min({Unbounded} \cup Limits(m, group))

Monus(a, b) == Max({a - b, 0})

-----------------------------------------------------------------------------
(* The groups.                                                             *)

None == -1
NoCounters == [usage |-> None, at |-> 0, ever |-> 0, life |-> 0]
NoSteal == [stolen |-> None, total |-> None]
NoGroup == [total |-> None]

Clamped100(share) == Min({100, Max({0, share})})

\* mutant: a counter that went backwards is the whole of what was used.
CpuUsageWrapped(prev, cur, capacity) ==
    LET wall == cur.at - prev.at
        used == IF cur.usage < prev.usage THEN prev.usage - cur.usage ELSE cur.usage - prev.usage
    IN IF prev = NoCounters \/ wall < MinUsageInterval THEN None
       ELSE Clamped100((100 * used) \div (wall * capacity))

\* The share of the capacity used between two readings: none when they are too close, or the
\* counter went backwards.
CpuUsage(prev, cur, capacity) ==
    LET wall == cur.at - prev.at
        used == cur.usage - prev.usage
    IN IF prev = NoCounters \/ used < 0 \/ wall < MinUsageInterval THEN None
       ELSE Clamped100((100 * used) \div (wall * capacity))

StealShare(prev, cur) ==
    IF cur = NoSteal \/ prev = NoSteal \/ cur.stolen < prev.stolen \/ cur.total <= prev.total
    THEN None ELSE Clamped100((100 * (cur.stolen - prev.stolen)) \div (cur.total - prev.total))

\* mutant: the working set is not held to the capacity.
MemoryGroupUncapped(m) ==
    LET total == Capacity(m, "memory")
        used == Monus(work.current, work.inactive)
    IN [total |-> total, used |-> used, free |-> Monus(total, work.current),
        available |-> Monus(total, used), limit |-> Tightest(m, "memory")]

\* The working set, held to the capacity.
MemoryGroup(m) ==
    LET total == Capacity(m, "memory")
        used == Min({Monus(work.current, work.inactive), total})
    IN [total |-> total, used |-> used, free |-> Monus(total, work.current),
        available |-> Monus(total, used), limit |-> Tightest(m, "memory")]

SwapGroup(m) ==
    LET total == Capacity(m, "swap")
        used == Min({work.swap, total})
    IN [total |-> total, used |-> used, free |-> Monus(total, used), limit |-> Tightest(m, "swap")]

CpuGroup(m) ==
    [total |-> Capacity(m, "cpu"),
     usage |-> CpuUsage(prevCounters, [usage |-> work.usage, at |-> now], Capacity(m, "cpu"))]

\* The kernel's own groups, of the host; what it has in use is told apart by no rule here.
KernelGroup(group) == [total |-> HostAmount[group], used |-> 1, free |-> HostAmount[group] - 1,
                       available |-> HostAmount[group] - 1, usage |-> None, limit |-> None]

\* A group's values this tick: read from the cgroup; else its last ones, once it has been read
\* there; else the kernel's.
Sourced(group, read, value) ==
    CASE read -> [value |-> value, origin |-> "cgroup"]
      [] ~read /\ lastGroup[group] # NoGroup -> [value |-> lastGroup[group], origin |-> "carried"]
      [] OTHER -> [value |-> KernelGroup(group), origin |-> "kernel"]

\* mutant: an empty capacity is all in use.

\* `part` as a percentage of `whole`: 0 when `whole` is 0.
PercentOf(part, whole) == IF whole > 0 THEN (100 * part) \div whole ELSE 0

\* Where a reading came from, as the API names it: a carried one is the cgroup's.
Source(origin) == IF origin \in {"cgroup", "carried"} THEN "cgroup" ELSE "kernel"

CpuInfo(cpu, stolen) ==
    [usage |-> cpu.value.usage, capacity |-> cpu.value.total, steal |-> stolen, source |-> Source(cpu.origin)]

MemoryInfo(memory) ==
    [total |-> memory.value.total, used |-> memory.value.used, free |-> memory.value.free,
     available |-> memory.value.available, percent |-> PercentOf(memory.value.used, memory.value.total),
     limit |-> memory.value.limit, source |-> Source(memory.origin)]

SwapInfo(swap) ==
    [total |-> swap.value.total, used |-> swap.value.used, free |-> swap.value.free,
     percent |-> PercentOf(swap.value.used, swap.value.total),
     limit |-> swap.value.limit, source |-> Source(swap.origin)]

\* PID 1 of the agent's PID namespace, where it is visible: a container's started with it.
Pid1StartedAt == IF evidence.pid1.kind = "path" THEN 0 ELSE None

\* A container's uptime is since its PID 1 started, where that is its own and is visible; the
\* kernel's otherwise.
Uptime(view, started) ==
    IF view \in {"workload", "unmeasured"} /\ started # None THEN Monus(now, started)
    ELSE BootedBefore + now

\* What a process's memory share is taken over: the workload's capacity, or the kernel's.
ProcessMemoryBase(view, memory) == IF view = "workload" THEN memory.value.total ELSE HostAmount.memory

GroupIsRead(group) == Measured /\ GroupRead(MonitoredCgroup, group) = "read"

CpuCounters == [usage |-> work.usage, at |-> now, ever |-> work.ever, life |-> work.life]
CountersRead == IF GroupIsRead("cpu") THEN CpuCounters ELSE NoCounters
StealRead == IF steal.column THEN [stolen |-> steal.stolen, total |-> steal.total] ELSE NoSteal

\* The counters of the last reading that had them.
Kept(read, kept, nothing) == IF read = nothing THEN kept ELSE read

-----------------------------------------------------------------------------
NothingShown == [at |-> None]
Running == [usage |-> 0, current |-> 1, inactive |-> 0, swap |-> 0, ever |-> 0, life |-> 0]

\* The priming reading is never published; its counters are the first to measure from.
EnvInit ==
    /\ evidence \in Evidences
    /\ limits \in LimitTrees /\ faulty \in FaultSets
    /\ work = Running
    /\ steal = [stolen |-> 0, total |-> 0, column |-> TRUE]
    /\ now = 0 /\ changes = 0
    /\ prevCounters = CountersRead /\ prevSteal = StealRead
    /\ lastGroup = [g \in DOMAIN HostAmount |-> NoGroup]
    /\ shown = NothingShown

\* External: the workload runs for a unit of time, and the hypervisor takes some of it.
EnvClock ==
    /\ now < MaxEnvTime
    /\ now' = now + 1
    /\ \E load \in WorkLoads :
          /\ work' = [work EXCEPT !.usage = @ + load[1], !.ever = @ + load[1]]
          /\ steal' = [steal EXCEPT !.stolen = @ + load[2], !.total = @ + 2]
    /\ UNCHANGED <<evidence, limits, faulty, changes, prevCounters, prevSteal, lastGroup, shown>>

\* External: the cgroup is recreated, its counter at zero.
Recreate ==
    /\ work.life = 0 /\ work.usage > 0
    /\ work' = [work EXCEPT !.usage = 0, !.life = @ + 1]
    /\ UNCHANGED <<evidence, limits, faulty, steal, now, changes, prevCounters, prevSteal, lastGroup, shown>>

\* External: limits, files and the workload's memory change under the agent.
Reconfigure ==
    /\ changes < MaxChanges
    /\ changes' = changes + 1
    /\ \/ limits' \in LimitTrees /\ UNCHANGED <<faulty, work, steal>>
       \/ faulty' \in FaultSets /\ UNCHANGED <<limits, work, steal>>
       \/ \E f \in Footprints :
             /\ work' = [work EXCEPT !.current = f[1], !.inactive = f[2], !.swap = f[3]]
             /\ UNCHANGED <<limits, faulty, steal>>
       \/ steal' = [steal EXCEPT !.column = ~@] /\ UNCHANGED <<limits, faulty, work>>
    /\ UNCHANGED <<evidence, now, prevCounters, prevSteal, lastGroup, shown>>

\* What was true of the workload as it was read: for the properties only.
VisibleLimits(group) ==
    LET m == MonitoredCgroup
    IN {limits[p][group] : p \in {q \in DOMAIN limits :
            /\ IsPrefix(m.mount.root, q) /\ IsPrefix(q, m.path)
            /\ Len(m.path) - Len(q) < MaxLevels /\ StateOf(q, LimitFile[group]) # "absent"}}
TrueCapacity(group) ==
    Min({HostAmount[group]} \cup VisibleLimits(group)
          \cup (IF group = "cpu" /\ StateOf(MonitoredCgroup.path, "cpuset") # "absent"
                THEN {limits[MonitoredCgroup.path].cpuset} ELSE {}))
Truth == [used |-> work.ever - prevCounters.ever, wall |-> now - prevCounters.at, sameLife |-> work.life = prevCounters.life,
          stolen |-> steal.stolen - prevSteal.stolen, ticks |-> steal.total - prevSteal.total,
          capacity |-> [g \in DOMAIN HostAmount |-> IF Measured THEN TrueCapacity(g) ELSE HostAmount[g]]]

\* A reading: the groups by their lineage, the steal share, and the figures that depend on whose
\* processes the agent lists.
Sample ==
    LET m == MonitoredCgroup
        cpuOk == GroupIsRead("cpu") /\ CpuGroup(m).usage # None
        cpu == Sourced("cpu", cpuOk, CpuGroup(m))
        memory == Sourced("memory", GroupIsRead("memory"), MemoryGroup(m))
        swap == Sourced("swap", GroupIsRead("swap"), SwapGroup(m))
    IN /\ now > 0 /\ shown.at < now
       /\ shown' = [at |-> now, cpu |-> cpu, memory |-> memory, swap |-> swap,
                    cpuInfo |-> CpuInfo(cpu, StealShare(prevSteal, StealRead)),
                    memoryInfo |-> MemoryInfo(memory), swapInfo |-> SwapInfo(swap),
                    uptime |-> Uptime(ProcessView, Pid1StartedAt),
                    processBase |-> ProcessMemoryBase(ProcessView, memory),
                    truth |-> Truth]
       /\ lastGroup' = [cpu |-> IF cpuOk THEN cpu.value ELSE lastGroup.cpu,
                        memory |-> IF GroupIsRead("memory") THEN memory.value ELSE lastGroup.memory,
                        swap |-> IF GroupIsRead("swap") THEN swap.value ELSE lastGroup.swap]
       /\ prevCounters' = Kept(CountersRead, prevCounters, NoCounters)
       /\ prevSteal' = Kept(StealRead, prevSteal, NoSteal)
       /\ UNCHANGED <<evidence, limits, faulty, work, steal, now, changes>>

EnvNext == EnvClock \/ Recreate \/ Reconfigure \/ Sample

EnvSpec == EnvInit /\ [][EnvNext]_envVars

-----------------------------------------------------------------------------
(* Properties.                                                             *)

Sampled == shown # NothingShown
FromCgroup(group) == Sampled /\ shown[group].origin = "cgroup"

\* The world has a PID 1 of its own: a container no evidence says shares one.
OwnPid1 ==
    /\ evidence.world.class = "container"
    /\ evidence.workload # NoPath => HoldsPath(evidence.workload, ParsePid1(evidence.pid1))

\* Only an explicit marker makes a container, whatever else the machine shows, and the workload is
\* the cgroup it really runs in: the rules of classify and cgroup_access recognise every world the
\* evidence was gathered in, measure none by the cgroup of another, and show none the uptime of the
\* machine it shares.
EnvironmentRecognised ==
    /\ Classify(evidence) = evidence.world
    /\ Measured <=> evidence.workload # NoPath
    /\ Measured => MonitoredCgroup.path = evidence.workload
    /\ (LoadScope = "host") <=> evidence.world.class = "container"
    /\ ProcessView = "workload" => HoldsPath(evidence.workload, ParsePid1(evidence.pid1))
    /\ Sampled => shown.uptime = shown.at + (IF OwnPid1 /\ Pid1StartedAt # None THEN 0 ELSE BootedBefore)

\* A capacity shown as the cgroup's is the least the kernel enforces on the workload at any level
\* the agent can see: a file it could not read never widens it.
CapacityTightest ==
    \A g \in DOMAIN HostAmount :
        FromCgroup(g) => shown[g].value.total = shown.truth.capacity[g]

\* The CPU shares shown are of time that was used, and stolen, since the reading they are measured
\* from: none is overstated when the cgroup was recreated or readings in between failed, and over
\* one incarnation the usage is exact.
SharesMeasured ==
    LET t == shown.truth
        usage == shown.cpu.value.usage
        exact == Clamped100((100 * t.used) \div (t.wall * shown.cpu.value.total))
    IN Sampled =>
       /\ FromCgroup("cpu") => /\ t.wall >= MinUsageInterval
                               /\ usage \in 0..exact
                               /\ t.sameLife => usage = exact
       /\ shown.cpuInfo.steal # None => shown.cpuInfo.steal = Clamped100((100 * t.stolen) \div t.ticks)

\* A cgroup's memory adds up, whatever its files said of each other and however its limit moved
\* below what is in use: used + available = total, free <= available, and no share passes 100, nor
\* says that no memory or no swap at all is full.
MemoryAddsUp ==
    LET v == shown.memoryInfo
        w == shown.swapInfo
    IN Sampled =>
       /\ shown.memory.origin # "kernel" => /\ v.used + v.available = v.total
                                            /\ v.free \in 0..v.available
                                            /\ v.total <= v.limit
       /\ shown.swap.origin # "kernel" => w.used + w.free = w.total /\ w.total <= w.limit
       /\ \A i \in {v, w} : i.percent \in 0..100 /\ (i.total = 0 => i.percent = 0)
       /\ shown.processBase \in {v.total, HostAmount.memory}

\* What the agent says of its machine is so: the environment is recognised, capacities are the
\* tightest readable limit, shares are of one interval and memory adds up.
ReadingsSound ==
    /\ EnvironmentRecognised
    /\ CapacityTightest
    /\ SharesMeasured
    /\ MemoryAddsUp
=============================================================================
