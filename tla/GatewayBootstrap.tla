-------------------------- MODULE GatewayBootstrap --------------------------
(***************************************************************************)
(* Deploying one named gateway (openshell-bootstrap, and the CLI commands  *)
(* that drive it): `gateway start`, `stop`, `destroy`, and the automatic   *)
(* bootstrap of `sandbox create`, which falls back to a full recreate.     *)
(* A deploy resumes from whatever container and volume it finds, brings    *)
(* the cluster's TLS secrets, the running gateway and the certificates on  *)
(* the CLI's disk into step, and cleans up after a failure.  mode "kind"   *)
(* is the path that drives a kind cluster, which takes the same steps in   *)
(* another order and cleans nothing up.                                    *)
(*                                                                         *)
(* A certificate is the number of the PKI generation it comes from; the    *)
(* secrets, a bundle and what a gateway pod loaded are records of those.   *)
(***************************************************************************)
EXTENDS Naturals, Sequences

CONSTANTS
    DeployModes,  \* the paths considered: a subset of {"k3s", "kind"}
    HostPorts,    \* host ports, positive numbers
    MaxGen        \* bound on PKI generations

ASSUME DeployAssumption == DeployModes \subseteq {"k3s", "kind"} /\ HostPorts # {} /\ MaxGen \in Nat

VARIABLES
    mode,      \* "k3s" or "kind"
    ctr,       \* the cluster container: [st, port]
    volume,    \* does the volume exist
    secrets,   \* TLS secrets in the cluster: [server, ca, client], 0 when missing
    sshKey,    \* does the SSH handshake secret exist
    workload,  \* does the cluster hold the openshell statefulset
    loaded,    \* what the running gateway pod read when it started, NoCerts if none runs
    ghost,     \* are the cluster's pods still assigned to a node of an earlier container
    gen,       \* PKI generations made
    bundle,    \* the CLI's mtls directory
    meta,      \* the CLI's metadata.json: [there, port], port 0 when not known
    active,    \* is this the active gateway
    cut,       \* history: a deploy was interrupted, or could not clean up
    dep        \* the deploy under way

bootVars == <<mode, ctr, volume, secrets, sshKey, workload, loaded, ghost, gen, bundle, meta, active, cut, dep>>
cluster == <<ctr, volume, secrets, sshKey, workload, loaded, ghost, gen>>
onDisk == <<bundle, meta, active, cut>>

SecretNames == {"server", "ca", "client"}
NoCerts == [s \in SecretNames |-> 0]
NoMeta == [there |-> FALSE, port |-> 0]
NoCtr == [st |-> "none", port |-> 0]
NoDeploy == [pc |-> "idle", auto |-> FALSE, recreate |-> FALSE, resume |-> FALSE, port |-> 0,
             rotated |-> FALSE, hadWorkload |-> FALSE, todo |-> {}]

BootInit ==
    /\ mode \in DeployModes
    /\ ctr = NoCtr /\ volume = FALSE
    /\ secrets = NoCerts /\ sshKey = FALSE /\ workload = FALSE /\ loaded = NoCerts
    /\ ghost = FALSE /\ gen = 0
    /\ bundle = NoCerts /\ meta = NoMeta /\ active = FALSE
    /\ cut = FALSE /\ dep = NoDeploy

Complete(c) == \A s \in SecretNames : c[s] # 0
Running == ctr.st = "running"
\* The secrets a gateway pod mounts: its own certificate and the CA of its clients.
Mounted == [secrets EXCEPT !.client = 0]

\* The order of the steps once the container runs: the two paths differ in when the
\* certificates are written to disk.
Steps == [k3s  |-> <<"workload", "pki", "rollout", "store", "ssh", "push", "ready", "meta">>,
          kind |-> <<"workload", "pki", "store", "ssh", "helm", "rollout", "ready", "meta">>]
After(pc) == LET i == CHOOSE i \in 1..Len(Steps[mode]) : Steps[mode][i] = pc
             IN  Steps[mode][i + 1]

AtStep(pc) == dep.pc = pc
GoTo(pc) == dep' = [dep EXCEPT !.pc = pc]
\* An error ends the deploy: what it has learned is forgotten.
Abandon(pc) == dep' = [NoDeploy EXCEPT !.pc = pc, !.auto = dep.auto, !.recreate = dep.recreate,
                                       !.resume = (pc = "cleanup" /\ dep.resume),
                                       !.port = IF dep.auto THEN dep.port ELSE 0]
\* `?` before the guarded part, and in the kind path: nothing is cleaned up.
FailEarly == Abandon("failed")
\* `?` inside deploy_result.
FailLate == Abandon(IF mode = "kind" THEN "failed" ELSE "cleanup")

-----------------------------------------------------------------------------
(* Commands *)

\* `gateway start`: a running container short-circuits; stored metadata beats the port flag.
GatewayStart ==
    /\ dep.pc = "idle"
    /\ \E recreate \in BOOLEAN, port \in HostPorts :
          /\ mode = "k3s" \/ ~recreate
          /\ dep' = IF mode = "k3s" /\ ~recreate /\ Running THEN NoDeploy
                    ELSE [NoDeploy EXCEPT !.pc = IF mode = "kind" THEN "kind" ELSE "existing",
                                          !.recreate = recreate,
                                          !.port = IF ~recreate /\ meta.port # 0 THEN meta.port ELSE port]
    /\ UNCHANGED <<mode, cluster, onDisk>>

DefaultPort == CHOOSE p \in HostPorts : TRUE

\* run_bootstrap, from `sandbox create` when the gateway cannot be reached: the default port.
AutoBootstrap ==
    /\ dep.pc = "idle" /\ mode = "k3s"
    /\ dep' = [NoDeploy EXCEPT !.pc = "existing", !.auto = TRUE, !.port = DefaultPort]
    /\ UNCHANGED <<mode, cluster, onDisk>>

GatewayStop ==
    /\ dep.pc = "idle" /\ mode = "k3s" /\ Running
    /\ ctr' = [ctr EXCEPT !.st = "stopped"] /\ loaded' = NoCerts
    /\ UNCHANGED <<mode, ghost, volume, secrets, sshKey, workload, gen, onDisk, dep>>

\* destroy_gateway_resources, or `kind delete cluster`: the container, then the volume with all
\* the cluster's state, then the network.
DestroyResources ==
    /\ ctr' = NoCtr /\ volume' = FALSE
    /\ secrets' = NoCerts /\ sshKey' = FALSE /\ workload' = FALSE /\ loaded' = NoCerts
    /\ ghost' = FALSE

\* `gateway destroy` also forgets the registration; the mtls directory stays.
GatewayDestroy ==
    /\ dep.pc = "idle"
    /\ DestroyResources
    /\ meta' = NoMeta /\ active' = FALSE
    /\ UNCHANGED <<mode, gen, bundle, cut, dep>>

\* `gateway add --local`: extract_and_store_pki reads the certificates out of the one running
\* container on the endpoint's port; the port is not kept in the metadata.
GatewayAdd ==
    /\ dep.pc = "idle" /\ ~meta.there /\ Running /\ mode = "k3s" /\ Complete(secrets)
    /\ bundle' = secrets /\ meta' = [NoMeta EXCEPT !.there = TRUE] /\ active' = TRUE
    /\ UNCHANGED <<mode, cluster, cut, dep>>

\* `gateway select`.
GatewayUse ==
    /\ dep.pc = "idle" /\ meta.there
    /\ active' = TRUE
    /\ UNCHANGED <<mode, cluster, bundle, meta, cut, dep>>

-----------------------------------------------------------------------------
(* The deploy, up to a running container (k3s) *)

\* check_existing_gateway: recreate, or resume from the container or the volume.
CheckExisting ==
    /\ AtStep("existing")
    /\ IF dep.recreate
       THEN DestroyResources /\ GoTo("image") /\ UNCHANGED gen
       ELSE /\ dep' = [dep EXCEPT !.pc = "image", !.resume = volume \/ ctr.st # "none"]
            /\ UNCHANGED cluster
    /\ UNCHANGED <<mode, onDisk>>

\* The image is needed unless a container is resumed.
EnsureImage ==
    /\ AtStep("image")
    /\ \/ GoTo("network")
       \/ (~dep.resume \/ ctr.st = "none") /\ FailEarly
    /\ UNCHANGED <<mode, cluster, onDisk>>

\* ensure_network removes and creates the network; ensure_container attaches a reused
\* container to it again.
EnsureNetwork ==
    /\ AtStep("network")
    /\ GoTo("volume") \/ FailEarly
    /\ UNCHANGED <<mode, cluster, onDisk>>

EnsureVolume ==
    /\ AtStep("volume")
    /\ \/ volume' = TRUE /\ GoTo("ports")
       \/ UNCHANGED volume /\ FailEarly
    /\ UNCHANGED <<mode, ghost, ctr, secrets, sshKey, workload, loaded, gen, onDisk>>

\* A container that is not ours holds the port: the error comes before the guarded part, the
\* volume just made stays.
CheckPortConflicts ==
    /\ AtStep("ports")
    /\ GoTo("container") \/ FailEarly
    /\ UNCHANGED <<mode, cluster, onDisk>>

NewContainer(port) == [st |-> "stopped", port |-> port]

MUT_EnsureContainer ==
    /\ AtStep("container")
    /\ \/ /\ ctr' = IF ctr.st = "none" THEN NewContainer(dep.port) ELSE ctr
          /\ ghost' = (ghost \/ (ctr.st = "none" /\ workload))
          /\ GoTo("start")
       \/ UNCHANGED <<ctr, ghost>> /\ FailLate
    /\ UNCHANGED <<mode, volume, secrets, sshKey, workload, loaded, gen, onDisk>>

\* ensure_container: a container that is there is reused and keeps the port it was created with;
\* a new one on an old volume is a new node to the cluster.
EnsureContainer ==
    /\ AtStep("container")
    /\ \/ /\ ctr' = IF ctr.st = "none" THEN NewContainer(dep.port) ELSE ctr
          /\ ghost' = (ghost \/ (ctr.st = "none" /\ workload))
          /\ dep' = [dep EXCEPT !.pc = "start", !.port = ctr'.port]
       \/ UNCHANGED <<ctr, ghost>> /\ FailLate
    /\ UNCHANGED <<mode, volume, secrets, sshKey, workload, loaded, gen, onDisk>>

\* start_container, after up to five tries when the port is still being released.
StartContainer ==
    /\ AtStep("start")
    /\ \/ ctr' = [ctr EXCEPT !.st = "running"] /\ GoTo("nodes")
       \/ UNCHANGED ctr /\ FailLate
    /\ UNCHANGED <<mode, ghost, volume, secrets, sshKey, workload, loaded, gen, onDisk>>

\* The kind path: the cluster, its images, the CRD and the namespace.
EnsureKindCluster ==
    /\ AtStep("kind")
    /\ \/ /\ ctr' = IF ctr.st = "none" THEN [st |-> "running", port |-> dep.port] ELSE ctr
          /\ volume' = TRUE /\ GoTo("workload")
       \/ UNCHANGED <<ctr, volume>> /\ FailEarly
    /\ UNCHANGED <<mode, ghost, secrets, sshKey, workload, loaded, gen, onDisk>>

-----------------------------------------------------------------------------
(* The deploy, from the running container to the registration *)

\* clean_stale_nodes: never fatal; without it the pods wait for a node that is gone.
CleanStaleNodes ==
    /\ AtStep("nodes")
    /\ ghost' \in {ghost, FALSE}
    /\ GoTo("workload")
    /\ UNCHANGED <<mode, ctr, volume, secrets, sshKey, workload, loaded, gen, onDisk>>

\* openshell_workload_exists: a kubectl that fails, as it does until k3s has booted, counts as
\* no workload.
CheckWorkload ==
    /\ AtStep("workload")
    /\ \E answered \in BOOLEAN : dep' = [dep EXCEPT !.pc = "namespace", !.hadWorkload = workload /\ answered]
    /\ UNCHANGED <<mode, cluster, onDisk>>

\* The namespace does not appear in time, or DNS in the container is broken.
WaitForNamespace ==
    /\ AtStep("namespace")
    /\ GoTo("pki") \/ FailLate
    /\ UNCHANGED <<mode, cluster, onDisk>>

\* A new generation: a CA and the two certificates it signs.
GeneratePki ==
    /\ gen < MaxGen /\ gen' = gen + 1
    /\ dep' = [dep EXCEPT !.pc = "apply", !.todo = SecretNames, !.rotated = TRUE]

\* reconcile_pki: secrets that are all there are reused, whatever generation each is of.
ReconcilePki ==
    /\ AtStep("pki")
    /\ IF Complete(secrets) THEN GoTo(After("pki")) /\ UNCHANGED gen ELSE GeneratePki
    /\ UNCHANGED <<mode, ctr, volume, secrets, sshKey, workload, loaded, ghost, onDisk>>

\* create_k8s_tls_secrets: server, client CA, client, one kubectl apply each.
ApplySecret ==
    LET s == IF "server" \in dep.todo THEN "server" ELSE IF "ca" \in dep.todo THEN "ca" ELSE "client"
    IN  /\ AtStep("apply")
        /\ \/ /\ secrets' = [secrets EXCEPT ![s] = gen]
              /\ dep' = [dep EXCEPT !.todo = @ \ {s}, !.pc = IF dep.todo = {s} THEN After("pki") ELSE "apply"]
           \/ UNCHANGED secrets /\ FailLate
        /\ UNCHANGED <<mode, ghost, ctr, volume, sshKey, workload, loaded, gen, onDisk>>

\* restart_openshell_deployment: the pod that comes up has read the secrets of now.
RestartDeployment == loaded' = Mounted
PastRollout == dep' = [dep EXCEPT !.pc = After("rollout"), !.rotated = FALSE, !.hadWorkload = FALSE]

\* After a rotation a workload that was there is restarted before the CLI's certificates change.
Rollout ==
    /\ AtStep("rollout")
    /\ \/ /\ dep.rotated /\ dep.hadWorkload
          /\ \/ RestartDeployment /\ PastRollout
             \/ UNCHANGED loaded /\ FailLate
       \/ ~(dep.rotated /\ dep.hadWorkload) /\ PastRollout /\ UNCHANGED loaded
    /\ UNCHANGED <<mode, ghost, ctr, volume, secrets, sshKey, workload, gen, onDisk>>

\* store_pki_bundle: a temporary directory renamed over the old one.
StorePkiBundle ==
    /\ AtStep("store")
    /\ \/ bundle' = secrets /\ GoTo(After("store"))
       \/ UNCHANGED bundle /\ FailLate
    /\ UNCHANGED <<mode, cluster, meta, active, cut>>

ReconcileSshSecret ==
    /\ AtStep("ssh")
    /\ \/ sshKey' = TRUE /\ GoTo(After("ssh"))
       \/ ~sshKey /\ UNCHANGED sshKey /\ FailLate
    /\ UNCHANGED <<mode, ghost, ctr, volume, secrets, workload, loaded, gen, onDisk>>

\* OPENSHELL_PUSH_IMAGES: local images are pushed and the workload is restarted.
PushImages ==
    /\ AtStep("push")
    /\ \/ GoTo(After("push")) /\ UNCHANGED loaded
       \/ workload /\ RestartDeployment /\ GoTo(After("push"))
       \/ FailLate /\ UNCHANGED loaded
    /\ UNCHANGED <<mode, ghost, ctr, volume, secrets, sshKey, workload, gen, onDisk>>

DeployHelm ==
    /\ AtStep("helm")
    /\ \/ workload' = TRUE /\ GoTo(After("helm"))
       \/ UNCHANGED workload /\ FailLate
    /\ UNCHANGED <<mode, ghost, ctr, volume, secrets, sshKey, loaded, gen, onDisk>>

\* wait_for_gateway_ready: healthy, or not within its attempts (exit, DNS, pressure, time).
WaitReady ==
    /\ AtStep("ready")
    /\ \/ Running /\ loaded # NoCerts /\ GoTo(After("ready"))
       \/ FailLate
    /\ UNCHANGED <<mode, cluster, onDisk>>

\* store_gateway_metadata, with the port the container really has; kind also activates here.
StoreMetadata ==
    /\ AtStep("meta")
    /\ meta' = [there |-> TRUE, port |-> dep.port] /\ active' = (active \/ mode = "kind" \/ dep.auto)
    /\ GoTo("grpc")
    /\ UNCHANGED <<mode, cluster, bundle, cut>>

\* Does a client holding these certificates and the running gateway accept each other.
Trusts == Running /\ loaded # NoCerts /\ bundle.ca = loaded.server /\ bundle.client = loaded.ca

\* wait_for_grpc_ready: up to 90 s; a failure here cleans nothing up.
WaitGrpc ==
    /\ AtStep("grpc")
    /\ \/ Trusts /\ active' = TRUE
       \/ UNCHANGED active
    /\ dep' = NoDeploy
    /\ UNCHANGED <<mode, cluster, bundle, meta, cut>>

-----------------------------------------------------------------------------
(* Failure *)

\* A failed resume keeps the volume and removes the container; a failed fresh deploy removes all.
\* An error of the clean-up itself is only logged.
CleanUp ==
    /\ AtStep("cleanup")
    /\ \/ /\ dep.resume
          /\ ctr' = NoCtr /\ loaded' = NoCerts
          /\ UNCHANGED <<volume, secrets, sshKey, workload, ghost, cut>>
       \/ ~dep.resume /\ DestroyResources /\ UNCHANGED cut
       \/ cut' = TRUE /\ UNCHANGED <<ctr, volume, secrets, sshKey, workload, loaded, ghost>>
    /\ Abandon("failed")
    /\ UNCHANGED <<mode, gen, bundle, meta, active>>

\* The automatic bootstrap tries once more, with recreate; everything else reports the error.
DeployFails ==
    /\ AtStep("failed")
    /\ dep' = IF dep.auto /\ ~dep.recreate
              THEN [NoDeploy EXCEPT !.pc = "existing", !.auto = TRUE, !.recreate = TRUE, !.port = dep.port]
              ELSE NoDeploy
    /\ UNCHANGED <<mode, cluster, onDisk>>

\* The user interrupts the CLI.
CliStops ==
    /\ dep.pc # "idle"
    /\ dep' = NoDeploy /\ cut' = TRUE
    /\ UNCHANGED <<mode, cluster, bundle, meta, active>>

-----------------------------------------------------------------------------
(* The cluster by itself *)

\* The chart in the image installs the workload; a pod starts once the secrets it mounts exist.
HelmInstalls ==
    /\ mode = "k3s" /\ Running /\ ~workload
    /\ workload' = TRUE
    /\ UNCHANGED <<mode, ghost, ctr, volume, secrets, sshKey, loaded, gen, onDisk, dep>>

PodStarts ==
    /\ Running /\ workload /\ loaded = NoCerts /\ secrets.server # 0 /\ secrets.ca # 0 /\ sshKey
    /\ ~ghost
    /\ loaded' = Mounted
    /\ UNCHANGED <<mode, ghost, ctr, volume, secrets, sshKey, workload, gen, onDisk, dep>>

PodStops ==
    /\ loaded # NoCerts /\ dep.pc = "idle"
    /\ loaded' = NoCerts
    /\ UNCHANGED <<mode, ghost, ctr, volume, secrets, sshKey, workload, gen, onDisk, dep>>

ContainerDies ==
    /\ Running /\ mode = "k3s"
    /\ ctr' = [ctr EXCEPT !.st = "stopped"] /\ loaded' = NoCerts
    /\ UNCHANGED <<mode, ghost, volume, secrets, sshKey, workload, gen, onDisk, dep>>

\* Someone deletes a TLS secret to have it made again.
SecretLost ==
    /\ dep.pc = "idle"
    /\ \E s \in SecretNames : secrets[s] # 0 /\ secrets' = [secrets EXCEPT ![s] = 0]
    /\ UNCHANGED <<mode, ghost, ctr, volume, sshKey, workload, loaded, gen, onDisk, dep>>

BootNext ==
    \/ GatewayStart \/ AutoBootstrap \/ GatewayStop \/ GatewayDestroy \/ GatewayAdd \/ GatewayUse
    \/ CheckExisting \/ EnsureImage \/ EnsureNetwork \/ EnsureVolume \/ CheckPortConflicts
    \/ EnsureContainer \/ StartContainer \/ EnsureKindCluster
    \/ CleanStaleNodes \/ CheckWorkload \/ WaitForNamespace \/ ReconcilePki \/ ApplySecret \/ Rollout \/ StorePkiBundle
    \/ ReconcileSshSecret \/ PushImages \/ DeployHelm \/ WaitReady \/ StoreMetadata \/ WaitGrpc
    \/ CleanUp \/ DeployFails \/ CliStops
    \/ HelmInstalls \/ PodStarts \/ PodStops \/ ContainerDies \/ SecretLost

BootSpec == BootInit /\ [][BootNext]_bootVars

-----------------------------------------------------------------------------
(* Properties *)

BootTypeOK ==
    /\ mode \in DeployModes
    /\ ctr \in [st : {"none", "stopped", "running"}, port : HostPorts \cup {0}]
    /\ {volume, sshKey, workload, active, ghost, cut} \subseteq BOOLEAN
    /\ {secrets, loaded, bundle} \subseteq [SecretNames -> 0..MaxGen]
    /\ gen \in 0..MaxGen /\ meta \in [there : BOOLEAN, port : HostPorts \cup {0}]
    /\ dep.port \in HostPorts \cup {0} /\ dep.todo \subseteq SecretNames

\* When no command is under way, the port in the CLI's metadata is the port of the container
\* that is there, after any mix of failed deploys, resumes on another port and recreations, unless
\* a deploy was interrupted: a reused container keeps its port, and a deploy that fails before it
\* registers removes its own.
RegisteredPort ==
    mode = "k3s" /\ ~cut /\ dep.pc = "idle" /\ meta.port # 0 /\ ctr.st # "none" => meta.port = ctr.port

\* However deploys fail, are resumed and are repeated, the state stays well
\* formed and the port the CLI has registered is the container's.
DeploySound == BootTypeOK /\ RegisteredPort
=============================================================================
