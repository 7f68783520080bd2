--------------------------- MODULE ImageDelivery ---------------------------
(***************************************************************************)
(* How images reach a gateway.  `sandbox create --from <Dockerfile>`       *)
(* builds an image with the local Docker daemon, from the files of a       *)
(* directory that .dockerignore leaves in, and moves it into the gateway:  *)
(* `kind load` for a kind cluster, and otherwise an export to a temporary  *)
(* file, an upload to one fixed path in the gateway container, an import   *)
(* into containerd and the removal of the uploaded file.  `gateway start`  *)
(* takes the gateway's own image from a registry, on a remote host with a  *)
(* check of its architecture.                                              *)
(*                                                                         *)
(* Several commands may run at once, and each may be killed at any step.   *)
(* The tag of a built image is the second at which the build started.  An  *)
(* image is the files it was built from; a path is a sequence of names.    *)
(***************************************************************************)
EXTENDS Integers, Sequences, FiniteSets

CONSTANTS
    ImgClis,     \* commands that may run
    ImgContexts, \* a directory to build from for each command: [files, patterns]
    MaxSeconds,  \* how far the clock goes
    MaxPulls     \* how often the gateway is started

\* A line of .dockerignore: the names between its slashes, whether it begins with
\* **/, ends with a slash, begins with an exclamation mark.
Patterns == [names : Seq(STRING), anywhere : BOOLEAN, folder : BOOLEAN, negated : BOOLEAN]

ASSUME ImgAssumption ==
    /\ MaxSeconds \in Nat /\ MaxPulls \in Nat
    /\ \A c \in ImgClis : /\ ImgContexts[c].files \subseteq Seq(STRING) \ {<<>>}
                          /\ ImgContexts[c].patterns \in Seq(Patterns)

VARIABLES
    clusterKind,     \* "kind" or "k3s"
    clock,       \* seconds since the first command
    builds,      \* builds[c]: what command c is doing
    dockerd,     \* dockerd[t]: the local image with tag t
    staged,      \* the file at the import path in the gateway container
    containerd,  \* containerd[t]: the gateway's image with tag t
    host         \* the gateway's own image on its host, and the command pulling it

imgVars == <<clusterKind, clock, builds, dockerd, staged, containerd, host>>

Tags == 0..MaxSeconds

NoImage == [is |-> "none"]
Image(files) == [is |-> "image", files |-> files]
NoTar == [is |-> "none"]
PartialTar == [is |-> "partial"]
Tar(tag, image) == [is |-> "tar", tag |-> tag, image |-> image]

----------------------------------------------------------------------------
\* The build context.  A pattern has names between slashes; anywhere is the
\* prefix "**/", folder a trailing slash.

ParentPaths(path) == {SubSeq(path, 1, n) : n \in 1..Len(path)}
Tails(path) == {SubSeq(path, n, Len(path)) : n \in 1..Len(path)}
BaseName(path) == path[Len(path)]

\* One text begins with another: of the names used here "a" begins "ab".
BeginsWith(text, start) == text = start \/ (start = "a" /\ text = "ab")
NameMatches(name, text) == name = "*" \/ name = text

\* A directory whose path begins with the text of the pattern, which need not
\* end where a name ends.
UnderPattern(names, path) ==
    LET n == Len(names)
    IN /\ n <= Len(path)
       /\ \A i \in 1..(n - 1) : names[i] = path[i]
       /\ BeginsWith(path[n], names[n])

\* A pattern without a slash is matched with the last and the first name of a
\* path, one with a slash with the whole path.
PlainMatch(pat, path, isDir) ==
    IF Len(pat.names) = 1 /\ ~pat.folder
    THEN NameMatches(pat.names[1], BaseName(path)) \/ NameMatches(pat.names[1], path[1])
    ELSE \/ /\ ~pat.folder /\ Len(path) = Len(pat.names)
            /\ \A i \in DOMAIN path : NameMatches(pat.names[i], path[i])
         \/ isDir /\ UnderPattern(pat.names, path)

GlobMatch(pat, path, isDir) ==
    IF pat.anywhere
    THEN \E s \in Tails(path) : PlainMatch(pat, s, isDir)
    ELSE PlainMatch(pat, path, isDir)

\* The last matching pattern decides.
IsIgnored(path, isDir, patterns) ==
    \E i \in DOMAIN patterns :
        /\ ~patterns[i].negated /\ GlobMatch(patterns[i], path, isDir)
        /\ \A j \in (i + 1)..Len(patterns) : ~GlobMatch(patterns[j], path, isDir)

\* The walk does not enter a directory that is ignored.
ContextTar(context) ==
    {f \in context.files :
        \A p \in ParentPaths(f) : ~IsIgnored(p, p # f, context.patterns)}

----------------------------------------------------------------------------
\* `sandbox create --from`.

IdleBuild == [at |-> "idle", tag |-> 0, tmp |-> NoTar, undisturbed |-> TRUE]

ImgInit ==
    /\ clusterKind \in {"kind", "k3s"}
    /\ clock = 0
    /\ builds = [c \in ImgClis |-> IdleBuild]
    /\ dockerd = [t \in Tags |-> NoImage]
    /\ staged = NoTar
    /\ containerd = [t \in Tags |-> NoImage]
    /\ host = [at |-> "idle", remote |-> FALSE, arch |-> "none", pulls |-> 0]

TickSecond ==
    /\ clock < MaxSeconds
    /\ clock' = clock + 1
    /\ UNCHANGED <<clusterKind, builds, dockerd, staged, containerd, host>>

BuildAt(c, at) == builds[c].at = at

\* undisturbed remembers that no other command shared the tag or the import
\* path with this one.
MoveBuild(c, at) ==
    builds' = [builds EXCEPT ![c].at = at]

\* The tag is the current second.
BuildFromDockerfile(c) ==
    /\ BuildAt(c, "idle")
    /\ LET shared(d) == d # c /\ ~BuildAt(d, "idle") /\ builds[d].tag = clock
       IN builds' = [d \in ImgClis |->
             IF d = c THEN [IdleBuild EXCEPT !.at = "build", !.tag = clock,
                                        !.undisturbed = \A e \in ImgClis : ~shared(e)]
             ELSE [builds[d] EXCEPT !.undisturbed = @ /\ ~shared(d)]]
    /\ UNCHANGED <<clusterKind, clock, dockerd, staged, containerd, host>>

\* The daemon builds the image, or reports an error.
BuildImage(c) ==
    /\ BuildAt(c, "build")
    /\ \/ /\ dockerd' = [dockerd EXCEPT ![builds[c].tag] = Image(ContextTar(ImgContexts[c]))]
          /\ MoveBuild(c, IF clusterKind = "kind" THEN "load" ELSE "export")
       \/ MoveBuild(c, "failed") /\ UNCHANGED dockerd
    /\ UNCHANGED <<clusterKind, clock, staged, containerd, host>>

KindLoadImage(c) ==
    /\ BuildAt(c, "load")
    /\ \/ /\ containerd' = [containerd EXCEPT ![builds[c].tag] = dockerd[builds[c].tag]]
          /\ MoveBuild(c, "available")
       \/ MoveBuild(c, "failed") /\ UNCHANGED containerd
    /\ UNCHANGED <<clusterKind, clock, dockerd, staged, host>>

ExportToTempfile(c) ==
    /\ BuildAt(c, "export")
    /\ \/ builds' = [builds EXCEPT ![c].at = "upload",
                                   ![c].tmp = Tar(builds[c].tag, dockerd[builds[c].tag])]
       \/ MoveBuild(c, "failed")
    /\ UNCHANGED <<clusterKind, clock, dockerd, staged, containerd, host>>

\* Another command between its upload and its removal shares the path.
Pushing(d) == BuildAt(d, "import") \/ BuildAt(d, "remove")

UploadToContainer(c) ==
    /\ BuildAt(c, "upload")
    /\ \/ /\ staged' = builds[c].tmp
          /\ builds' = [d \in ImgClis |->
                IF d = c THEN [builds[c] EXCEPT !.at = "import", !.tmp = NoTar,
                                 !.undisturbed = @ /\ \A e \in ImgClis \ {c} : ~Pushing(e)]
                ELSE [builds[d] EXCEPT !.undisturbed = @ /\ ~Pushing(d)]]
       \/ /\ staged' = PartialTar
          /\ builds' = [d \in ImgClis |->
                IF d = c THEN [builds[c] EXCEPT !.at = "failed", !.tmp = NoTar]
                ELSE [builds[d] EXCEPT !.undisturbed = @ /\ ~Pushing(d)]]
    /\ UNCHANGED <<clusterKind, clock, dockerd, containerd, host>>

\* An import succeeds with whatever archive is at the path.
CanImport == staged.is = "tar"

\* The exit code is not looked at.
MUT_AfterImport(ok) == "remove"

\* The exit code of the import decides.
AfterImport(ok) == IF ok THEN "remove" ELSE "failed"

ImportImages(c) ==
    /\ BuildAt(c, "import")
    /\ \/ /\ CanImport
          /\ containerd' = [containerd EXCEPT ![staged.tag] = staged.image]
          /\ MoveBuild(c, AfterImport(TRUE))
       \/ MoveBuild(c, AfterImport(FALSE)) /\ UNCHANGED containerd
    /\ UNCHANGED <<clusterKind, clock, dockerd, staged, host>>

\* The removal of the uploaded file; its result is ignored.
RemoveStaged(c) ==
    /\ BuildAt(c, "remove")
    /\ staged' \in {NoTar, staged}
    /\ builds' = [d \in ImgClis |->
          IF d = c THEN [builds[c] EXCEPT !.at = "available"]
          ELSE [builds[d] EXCEPT !.undisturbed = @ /\ ~Pushing(d)]]
    /\ UNCHANGED <<clusterKind, clock, dockerd, containerd, host>>

\* The command ends, or is killed.
EndCommand(c) ==
    /\ ~BuildAt(c, "idle")
    /\ builds' = [builds EXCEPT ![c] = IdleBuild]
    /\ UNCHANGED <<clusterKind, clock, dockerd, staged, containerd, host>>

----------------------------------------------------------------------------
\* The gateway's own image.

Archs == {"amd64", "arm64"}
HostArch == "amd64"

\* A local start keeps an image it finds and pulls one otherwise, a remote
\* start pulls always.
StartPull ==
    /\ host.at \in {"idle", "ready", "failed"} /\ host.pulls < MaxPulls
    /\ \E remote \in BOOLEAN :
          host' = [host EXCEPT !.remote = remote, !.pulls = @ + 1,
                     !.at = IF ~remote /\ host.arch # "none" THEN "ready" ELSE "pulling"]
    /\ UNCHANGED <<clusterKind, clock, builds, dockerd, staged, containerd>>

\* The registry answers with an image of some architecture, or fails.  The
\* pulled image gets its local name before its architecture is looked at.
PullImage ==
    /\ host.at = "pulling"
    /\ \/ \E a \in Archs :
             /\ host' = [host EXCEPT !.arch = IF host.remote THEN a ELSE HostArch,
                                     !.at = IF host.remote THEN "verify" ELSE "ready"]
       \/ host' = [host EXCEPT !.at = "failed"]
    /\ UNCHANGED <<clusterKind, clock, builds, dockerd, staged, containerd>>

VerifyArch ==
    /\ host.at = "verify"
    /\ host' = [host EXCEPT !.at = IF host.arch = HostArch THEN "ready" ELSE "failed"]
    /\ UNCHANGED <<clusterKind, clock, builds, dockerd, staged, containerd>>

----------------------------------------------------------------------------

ImgNext ==
    \/ TickSecond \/ StartPull \/ PullImage \/ VerifyArch
    \/ \E c \in ImgClis :
          \/ BuildFromDockerfile(c) \/ BuildImage(c) \/ KindLoadImage(c)
          \/ ExportToTempfile(c) \/ UploadToContainer(c) \/ ImportImages(c)
          \/ RemoveStaged(c) \/ EndCommand(c)

ImgSpec == ImgInit /\ [][ImgNext]_imgVars

ImgPaths == UNION {ImgContexts[c].files : c \in ImgClis}
Images == {NoImage} \cup {Image(f) : f \in SUBSET ImgPaths}
Tars == {NoTar} \cup {Tar(t, i) : t \in Tags, i \in Images}

ImgTypeOK ==
    /\ clusterKind \in {"kind", "k3s"} /\ clock \in Tags
    /\ builds \in [ImgClis -> [at : {"idle", "build", "load", "export", "upload", "import",
                                     "remove", "available", "failed"},
                               tag : Tags, tmp : Tars, undisturbed : BOOLEAN]]
    /\ dockerd \in [Tags -> Images] /\ containerd \in [Tags -> Images]
    /\ staged \in Tars \cup {PartialTar}
    /\ host \in [at : {"idle", "pulling", "verify", "ready", "failed"}, remote : BOOLEAN,
                 arch : Archs \cup {"none"}, pulls : 0..MaxPulls]

----------------------------------------------------------------------------

\* "Image ... is available in the gateway": a command that says so, and that
\* shared neither its tag nor the import path with another one, has put there
\* the image of its own directory, whatever commands that were killed or that
\* failed have left behind.  A file its .dockerignore matches last with a
\* pattern that is not a negation is not in the image, and a file neither
\* matched itself nor below a matched directory is.
AvailableIsMine ==
    \A c \in ImgClis :
        BuildAt(c, "available") /\ builds[c].undisturbed =>
            LET image == containerd[builds[c].tag]
                pats == ImgContexts[c].patterns
                hit(i, p, d) == GlobMatch(pats[i], p, d)
            IN /\ image.is = "image"
               /\ \A f \in ImgContexts[c].files :
                     /\ (\E i \in DOMAIN pats : /\ hit(i, f, FALSE) /\ ~pats[i].negated
                                                /\ \A j \in DOMAIN pats : j > i => ~hit(j, f, FALSE))
                           => f \notin image.files
                     /\ (\A i \in DOMAIN pats, p \in ParentPaths(f) : ~hit(i, p, p # f))
                           => f \in image.files

\* However builds and pushes interleave, fail and are killed, the state stays
\* well formed and an image announced as available is the announced one.
DeliverySound == ImgTypeOK /\ AvailableIsMine
=============================================================================
