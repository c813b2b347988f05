----------------------------- MODULE BootLinks -----------------------------
(***************************************************************************)
(* What the kernel step does to /boot (GetKernelStage in                   *)
(* pkg/stages/steps_init.go): fifteen yip stages run in order, each a      *)
(* shell test and a shell command.  A failing command marks the run as     *)
(* failed and the next stages still run.                                   *)
(***************************************************************************)
EXTENDS KernelChooser

\* What OnlyIfArch and OnlyIfOs look at: the architecture, and whether the
\* distribution is of the RHEL family.
Host == [arch : {"amd64", "arm64", "riscv64"}, rhel : BOOLEAN]

\* Paths under /boot: the plain names, and the names with a kernel version.
Plain     == {<<"vmlinuz">>, <<"Image">>, <<"vmlinuz.old">>,
              <<"vmlinuz-lts">>, <<"vmlinuz-rpi">>, <<"hmac">>}
Versioned == {"vmlinuz", "vmlinux", "Image", "hmac"} \X Name
Path      == Plain \union Versioned

\* What a path holds: nothing, a regular file, or a symlink to a path.
Absent  == <<"absent">>
Regular == <<"regular">>
BootDir == [Path -> Path \union {Absent, Regular}]

IsLink(boot, p) == boot[p] \in Path                              \* test -L
IsFile(boot, p) == \/ boot[p] = Regular                          \* test -f
                   \/ boot[p] \in Path /\ boot[boot[p]] = Regular

\* The commands that can fail, each on a path: rm; cp that leaves no file or part
\* of one; ln, with or without -f, named by what the link leads to.
Fault == {"rm", "cp", "cut", "ln"} \X Path

\* The running executor stage: /boot, whether a command has failed, and the
\* commands that fail in this run (no space left, a read-only file system).
Running == [boot : BootDir, err : BOOLEAN, broken : SUBSET Fault]

Fail(st) == [st EXCEPT !.err = TRUE]

Rm(st, p)       == IF <<"rm", p>> \in st.broken THEN Fail(st)
                                                ELSE [st EXCEPT !.boot[p] = Absent]
LnForce(st, to) == IF <<"ln", to>> \in st.broken THEN Fail(st)
                                                 ELSE [st EXCEPT !.boot[<<"vmlinuz">>] = to]

\* A copy that was cut short leaves a file, and test -f does not tell it from a
\* whole one.
Copy(st, p) ==
    LET copied == [st EXCEPT !.boot[p] = Regular]
    IN  IF <<"cp", p>> \in st.broken THEN Fail(st)
        ELSE IF <<"cut", p>> \in st.broken THEN Fail(copied) ELSE copied

\* ln -s refuses to replace what is there.
Ln(st, to, p) == IF st.boot[p] = Absent /\ <<"ln", to>> \notin st.broken
                   THEN [st EXCEPT !.boot[p] = to] ELSE Fail(st)

\* Mutant: the link is tested with -f, which follows it.
CleanVmlinuzFollowed(st) ==
    IF IsFile(st.boot, <<"vmlinuz">>) THEN Rm(st, <<"vmlinuz">>) ELSE st

CleanVmlinuz(st) ==
    IF IsLink(st.boot, <<"vmlinuz">>) THEN Rm(st, <<"vmlinuz">>) ELSE st

CleanImage(st) ==
    IF IsLink(st.boot, <<"Image">>) THEN Rm(st, <<"Image">>) ELSE st

CleanOld(st) ==
    IF IsFile(st.boot, <<"vmlinuz.old">>) THEN Rm(st, <<"vmlinuz.old">>) ELSE st

CleanDebug(st, k, host) ==
    IF host.arch \in {"amd64", "arm64"} /\ IsFile(st.boot, <<"vmlinux", k>>)
      THEN Rm(st, <<"vmlinux", k>>) ELSE st

LinkImageFile(st) ==
    IF IsFile(st.boot, <<"Image">>) /\ ~IsLink(st.boot, <<"Image">>)
      THEN Ln(st, <<"Image">>, <<"vmlinuz">>) ELSE st

CopyLibKernel(st, k, lib, host) ==
    IF host.rhel /\ ~IsFile(st.boot, <<"vmlinuz", k>>) /\ k \in lib
      THEN Copy(st, <<"vmlinuz", k>>) ELSE st

LinkVmlinuz(st, k) ==
    IF IsFile(st.boot, <<"vmlinuz", k>>)
      THEN Ln(st, <<"vmlinuz", k>>, <<"vmlinuz">>) ELSE st

LinkVmlinux(st, k, host) ==
    IF host.arch = "riscv64" /\ IsFile(st.boot, <<"vmlinux", k>>)
      THEN LnForce(st, <<"vmlinux", k>>) ELSE st

\* Mutant: the hmac link of an earlier run is kept.
KeepHmac(st) == st

CleanHmac(st) ==
    IF IsLink(st.boot, <<"hmac">>) THEN Rm(st, <<"hmac">>) ELSE st

LinkHmac(st, k) ==
    IF IsFile(st.boot, <<"hmac", k>>)
      THEN Ln(st, <<"hmac", k>>, <<"hmac">>) ELSE st

LinkImage(st, k) ==
    IF IsFile(st.boot, <<"Image", k>>)
      THEN Ln(st, <<"Image", k>>, <<"vmlinuz">>) ELSE st

LinkAlpine(st, p) == IF IsFile(st.boot, p) THEN Ln(st, p, <<"vmlinuz">>) ELSE st

CleanLinks(st, k, host) ==
    CleanDebug(CleanOld(CleanImage(CleanVmlinuz(st))), k, host)

LinkKernel(st, k, lib, host) ==
    LinkVmlinux(LinkVmlinuz(CopyLibKernel(LinkImageFile(st), k, lib, host), k), k, host)

LinkRest(st, k) ==
    LinkAlpine(LinkAlpine(LinkImage(LinkHmac(CleanHmac(st), k), k),
                          <<"vmlinuz-lts">>), <<"vmlinuz-rpi">>)

(***************************************************************************)
(* The whole step for the planned kernel k; lib is the set of kernels with *)
(* a /usr/lib/modules/<k>/vmlinuz.                                         *)
(***************************************************************************)
KernelStage(st, k, lib, host) ==
    LinkRest(LinkKernel(CleanLinks(st, k, host), k, lib, host), k)
=============================================================================
