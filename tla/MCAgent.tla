------------------------------ MODULE MCAgent ------------------------------
(***************************************************************************)
(* The agent's parts share nothing that more than one of their modules      *)
(* tracks, so one instance explores them side by side: `part` is the one     *)
(* that runs, and the others keep one of their initial states.              *)
(***************************************************************************)
EXTENDS AgentCollector, MailClient, AgentReaders, PushIdentity, AppScrape, AgentStartup,
        AgentEnvironment

VARIABLE part

agentVars == <<part, colVars, mailVars, readerVars, identityVars, scrapeVars, startVars, envVars>>

Rule(metric, operator, threshold, duration, cooldown) ==
    [metric |-> metric, operator |-> operator, threshold |-> threshold,
     duration |-> duration, cooldown |-> cooldown, enabled |-> TRUE]

\* A slow rule; and a load rule at its default threshold before a quick one.
MCRuleSets == {<<Rule("cpu", "gt", 1, 3, 5)>>,
               <<Rule("load", "gte", 0, 0, 3), Rule("cpu", "gt", 0, 2, 0)>>}

\* Two names with one key.
MCCredentialKey == [ab |-> "AB", a_b |-> "A_B", a_dot_b |-> "A_B"]

-----------------------------------------------------------------------------
(* AgentEnvironment: machines of every class, containers at every kind of    *)
(* mount, and evidence that looks like another machine's.                    *)
Text(kind, absolute, segments) == [kind |-> kind, absolute |-> absolute, segments |-> segments]
PathText(segments) == Text("path", TRUE, segments)
Mount(root) == [type |-> "cgroup2", root |-> root, point |-> PathText(<<"sys", "cgroup">>)]
Machine(class, name) == [class |-> class, name |-> name]
Metal == [dockerenv |-> FALSE, containerenv |-> FALSE, kubernetes |-> FALSE, containerVar |-> "none",
          systemdContainer |-> "none", cpuFlag |-> FALSE, x86 |-> TRUE, xen |-> FALSE, wsl |-> FALSE,
          dmi |-> [vendor |-> "Dell", product |-> "R"], selfCgroup |-> PathText(<<"a", "b">>),
          mounts |-> <<Mount(PathText(<<>>))>>, hostNamespace |-> TRUE, pid1 |-> PathText(<<>>),
          world |-> Machine("metal", "none"), workload |-> <<"..">>]
Vm(name) == [Metal EXCEPT !.cpuFlag = TRUE, !.world = Machine("vm", name)]
Container(name, own, root, pid1, workload) ==
    [Vm(name) EXCEPT !.containerVar = name, !.world.class = "container", !.selfCgroup = own,
                     !.mounts = <<[Mount(root) EXCEPT !.type = "ext4"], Mount(root)>>, !.pid1 = pid1,
                     !.workload = workload]
MCMachines ==
    {Metal, [Metal EXCEPT !.x86 = FALSE, !.world.class = "undetermined"],
     [Metal EXCEPT !.dmi = [vendor |-> "Amazon EC2", product |-> "metal"]],
     [Vm("kvm") EXCEPT !.dmi.product = "KVM"], [Vm("Xen") EXCEPT !.xen = TRUE], Vm("other"),
     [Vm("wsl") EXCEPT !.systemdContainer = "wsl"]}
MCContainers ==
    {\* A private namespace, the agent in a child of its root.
     [Container("docker", PathText(<<"b">>), PathText(<<>>), PathText(<<>>), <<>>) EXCEPT !.hostNamespace = FALSE],
     \* A pod in the host's namespace, PID 1 outside it.
     [Container("docker", PathText(<<"a", "b", "c">>), PathText(<<>>), PathText(<<"a", "p">>), <<"a", "b", "c">>)
        EXCEPT !.kubernetes = TRUE, !.dockerenv = TRUE, !.world.name = "kubernetes"],
     \* A mount of the container's parent.
     Container("lxc", PathText(<<"a", "b">>), PathText(<<"a">>), PathText(<<"a", "b", "i">>), <<"a", "b">>),
     Container("podman", Text("v1", TRUE, <<>>), PathText(<<>>), Text("hidden", TRUE, <<>>), <<"..">>),
     Container("docker", PathText(<<"..", "b">>), PathText(<<>>), PathText(<<>>), <<"..">>),
     Container("docker", PathText(<<"b">>), PathText(<<"a">>), PathText(<<>>), <<"..">>)}
MCEvidences == MCMachines \cup MCContainers
CgroupLimits(cpu, cpuset, memory, swap) == [cpu |-> cpu, cpuset |-> cpuset, memory |-> memory, swap |-> swap]
MCPaths == {<<>>, <<"a">>, <<"b">>, <<"a", "b">>, <<"a", "b", "c">>}
Open == [p \in MCPaths |-> CgroupLimits(99, 4, 99, 99)]
\* Limits above the workload, and at it.
LimitedAbove == [Open EXCEPT ![<<"a">>] = CgroupLimits(1, 4, 3, 1), ![<<>>] = CgroupLimits(2, 3, 4, 2)]
LimitedAt == [Open EXCEPT ![<<"a", "b">>] = CgroupLimits(2, 1, 0, 0), ![<<>>] = CgroupLimits(0, 4, 99, 99)]
MCLimitTrees == {LimitedAbove, LimitedAt}
Fault(path, file, state) == [path |-> path, file |-> file, state |-> state]
MCFaultSets ==
    {{}, {Fault(<<"a">>, "cpu.max", "unreadable"), Fault(<<"a">>, "memory.max", "malformed")},
     {Fault(<<"a">>, "cpu.max", "absent"), Fault(<<>>, "cpu.max", "absent")},
     {Fault(p, "cpu.stat", "absent") : p \in MCPaths} \cup {Fault(p, "memory.stat", "absent") : p \in MCPaths}}
MCHostAmount == [cpu |-> 4, memory |-> 8, swap |-> 4]
MCFootprints == {<<5, 6, 2>>, <<9, 1, 6>>}
MCWorkLoads == {<<0, 1>>, <<5, 0>>}

-----------------------------------------------------------------------------
Parts == {"collector", "mail", "readers", "identity", "scrape", "start", "environment"}

Idle(name, pinned) == IF part = name THEN TRUE ELSE pinned

AgentInit ==
    /\ part \in Parts
    /\ MailClientInit /\ ScrapeInit /\ StartInit
    /\ Idle("collector", prevCpu = FALSE /\ rules = CHOOSE r \in RuleSets : TRUE) /\ CollectorInit
    /\ Idle("readers", stream = NoStream /\ rounds = [seq |-> 0, open |-> FALSE]) /\ ReadersInit
    /\ Idle("identity", idFile = NoFile /\ sources = [machine |-> Missing, dbus |-> Missing, host |-> Missing])
    /\ IdentityInit
    /\ Idle("environment", evidence = Metal) /\ EnvInit
    /\ evidence.workload = NoPath => faulty = {} /\ limits = LimitedAbove
    /\ faulty # {} => limits = LimitedAbove

AgentNext ==
    \/ /\ part = "collector" /\ CollectorNext
       /\ UNCHANGED <<part, mailVars, readerVars, identityVars, scrapeVars, startVars, envVars>>
    \/ /\ part = "mail" /\ MailClientNext
       /\ UNCHANGED <<part, colVars, readerVars, identityVars, scrapeVars, startVars, envVars>>
    \/ /\ part = "readers" /\ ReadersNext
       /\ UNCHANGED <<part, colVars, mailVars, identityVars, scrapeVars, startVars, envVars>>
    \/ /\ part = "identity" /\ IdentityNext
       /\ UNCHANGED <<part, colVars, mailVars, readerVars, scrapeVars, startVars, envVars>>
    \/ /\ part = "scrape" /\ ScrapeNext
       /\ UNCHANGED <<part, colVars, mailVars, readerVars, identityVars, startVars, envVars>>
    \/ /\ part = "start" /\ StartNext
       /\ UNCHANGED <<part, colVars, mailVars, readerVars, identityVars, scrapeVars, envVars>>
    \/ /\ part = "environment" /\ EnvNext
       /\ UNCHANGED <<part, colVars, mailVars, readerVars, identityVars, scrapeVars, startVars>>

AgentSpec == AgentInit /\ [][AgentNext]_agentVars
=============================================================================
