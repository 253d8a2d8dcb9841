---------------------------- MODULE SignerSandbox -----------------------------
(***************************************************************************)
(* The sandbox of the isolated signer: what the launcher builds around it  *)
(* with bubblewrap (bin/catalog-sign-launcher.rs), and what the signer     *)
(* observes and requires before it reads anything (isolation.rs).  The two *)
(* are written separately, in two programs, and must describe the same     *)
(* boundary.  Pure operators, no state.                                    *)
(***************************************************************************)
LOCAL INSTANCE FiniteSets

Modes == {"assemble-intent", "finalize", "sign", "recover-sign", "inspect-key",
          "isolation-probe"}

RequiresKey(mode)    == mode \in {"sign", "inspect-key"}
RequiresInput(mode)  == mode # "inspect-key"
RequiresOutput(mode) == mode # "inspect-key"

Namespaces == {"pid", "user", "mnt", "net"}
Syscalls   == {"network", "io_uring", "process", "exec", "namespace", "mount"}

\* The names of the environment: launcher facts, host identities, locale.
LauncherNames == {"MODE", "INPUT_SHA256", "CONFIG_SHA256", "SIGNER_SHA256", "ISOLATION",
                  "EUID", "EGID", "HOST_NS", "HOME", "PATH", "LANG", "TZ", "PWD"}

Kernel == {"/", "/dev", "/proc", "/tmp"}

-----------------------------------------------------------------------------
(* The launcher                                                            *)

\* Everything is denied to the child but the one exec that starts the signer.
LauncherFilter == Syscalls \ {"exec"}

Bound(mode) ==
    {"/bin/catalog-sign"} \union (IF mode # "inspect-key" THEN {"/input", "/output"} ELSE {})
      \union (IF mode \in {"sign", "inspect-key"} THEN {"/key"} ELSE {})

\* --unshare-all, --cap-drop ALL, the mounts by descriptor, RLIMIT_CORE 0, and
\* close-on-exec on all but stdin, stdout and stderr.
Established(mode) ==
    [mode       |-> mode,
     names      |-> LauncherNames,
     fresh      |-> Namespaces,
     mounts     |-> Kernel \union Bound(mode),
     readonly   |-> Bound(mode) \ {"/output"},
     filter     |-> LauncherFilter,
     interfaces |-> {"lo"},
     privileges |-> {},
     extraFds   |-> 0,
     coreLimit  |-> 0]

-----------------------------------------------------------------------------
(* The signer                                                              *)

ExactEnvironment(box) == box.names = LauncherNames

VerifyNamespaces(box) == Namespaces \subseteq box.fresh

ExpectedMounts(mode) ==
    Kernel \union {"/bin/catalog-sign"}
      \union {m \in {"/input"} : RequiresInput(mode)}
      \union {m \in {"/output"} : RequiresOutput(mode)}
      \union {m \in {"/key"} : RequiresKey(mode)}

\* A slip: what is mounted matters, not how.
VerifyMountPoints(box) == box.mounts = ExpectedMounts(box.mode)

VerifyMounts(box) ==
    /\ box.mounts = ExpectedMounts(box.mode)
    /\ "/bin/catalog-sign" \in box.readonly
    /\ RequiresInput(box.mode) => "/input" \in box.readonly
    /\ RequiresKey(box.mode) => "/key" \in box.readonly
    /\ RequiresOutput(box.mode) => "/output" \notin box.readonly

\* A slip: exec is expected to be denied already.
VerifyFullFilter(box) == box.filter = Syscalls

\* Each denial is tried; exec must still be allowed here.
VerifyPrefilter(box) == box.filter = Syscalls \ {"exec"}

VerifyKernelStatus(box) ==
    /\ box.privileges = {} /\ box.filter # {}
    /\ box.interfaces = {"lo"}
    /\ box.extraFds = 0
    /\ box.coreLimit = 0

Admits(box) ==
    /\ ExactEnvironment(box)
    /\ VerifyPrefilter(box)
    /\ VerifyNamespaces(box)
    /\ VerifyMounts(box)
    /\ VerifyKernelStatus(box)

\* install_inner_seccomp_filter adds the denial of exec.
Sealed(box) == [box EXCEPT !.filter = Syscalls]

-----------------------------------------------------------------------------
(* Sandboxes somebody else may start the signer in                         *)

\* One fact of the launcher's sandbox is off: a process started by hand, an
\* old launcher, another version of bubblewrap.
Deviations(mode) ==
    LET box == Established(mode)
    IN {[box EXCEPT !.names = @ \ {n}] : n \in {"ISOLATION", "HOST_NS"}}
         \union {[box EXCEPT !.names = @ \union {"GITHUB_TOKEN"}]}
         \union {[box EXCEPT !.fresh = @ \ {n}] : n \in Namespaces}
         \union {[box EXCEPT !.mounts = @ \union {m}] : m \in {"/home", "/key"} \ box.mounts}
         \union {[box EXCEPT !.mounts = @ \ {m}] : m \in Bound(mode)}
         \union {[box EXCEPT !.readonly = @ \ {m}] : m \in box.readonly}
         \union {[box EXCEPT !.filter = @ \ {s}] : s \in LauncherFilter}
         \union {[box EXCEPT !.filter = Syscalls], [box EXCEPT !.interfaces = {"lo", "eth0"}],
                 [box EXCEPT !.privileges = {"CAP_SYS_ADMIN"}], [box EXCEPT !.extraFds = 1],
                 [box EXCEPT !.coreLimit = 1]}
===============================================================================
