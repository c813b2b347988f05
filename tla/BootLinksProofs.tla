--------------------------- MODULE BootLinksProofs ---------------------------
(***************************************************************************)
(* What the kernel step makes of /boot, for every set of kernel names: the *)
(* lemmas that the proofs about the pipeline use.                          *)
(***************************************************************************)
EXTENDS BootLinks, TLAPS

\* The names the step works with are paths.
LEMMA PathFacts == /\ Plain \subseteq Path /\ Versioned \subseteq Path
                   /\ \A k \in Name : \A n \in {"vmlinuz", "vmlinux", "Image", "hmac"} :
                         <<n, k>> \in Versioned
<1> QED
  BY DEF Path, Plain, Versioned

\* The shell commands keep the type of the running stage, failing ones too.
LEMMA CommandTypes ==
    ASSUME NEW st \in Running, NEW p \in Path, NEW to \in Path, <<"vmlinuz">> \in Path
    PROVE  /\ Rm(st, p) \in Running /\ Copy(st, p) \in Running
           /\ LnForce(st, to) \in Running /\ Ln(st, to, p) \in Running
<1>0. \A s \in Running : Fail(s) \in Running
  BY DEF Fail, Running
<1>1. Rm(st, p) \in Running
  BY <1>0 DEF Rm, Running, BootDir
<1>2. Copy(st, p) \in Running
  <2>1. [st EXCEPT !.boot[p] = Regular] \in Running
    BY DEF Running, BootDir
  <2> QED
    BY <1>0, <2>1 DEF Copy
<1>3. LnForce(st, to) \in Running
  BY <1>0 DEF LnForce, Running, BootDir
<1>4. Ln(st, to, p) \in Running
  BY <1>0 DEF Ln, Running, BootDir
<1> QED
  BY <1>1, <1>2, <1>3, <1>4

\* So does each stage of the kernel step.
LEMMA StageTypes ==
    ASSUME NEW st \in Running, NEW k \in Name, NEW lib, NEW host, NEW p \in Plain
    PROVE  /\ CleanVmlinuz(st) \in Running /\ CleanImage(st) \in Running
           /\ CleanOld(st) \in Running /\ CleanDebug(st, k, host) \in Running
           /\ LinkImageFile(st) \in Running /\ CopyLibKernel(st, k, lib, host) \in Running
           /\ LinkVmlinuz(st, k) \in Running /\ LinkVmlinux(st, k, host) \in Running
           /\ CleanHmac(st) \in Running /\ LinkHmac(st, k) \in Running
           /\ LinkImage(st, k) \in Running /\ LinkAlpine(st, p) \in Running
<1>1. /\ <<"vmlinuz">> \in Path /\ <<"Image">> \in Path /\ <<"vmlinuz.old">> \in Path
      /\ <<"hmac">> \in Path /\ p \in Path
  BY PathFacts DEF Plain
<1>2. /\ <<"vmlinuz", k>> \in Path /\ <<"vmlinux", k>> \in Path
      /\ <<"Image", k>> \in Path /\ <<"hmac", k>> \in Path
  BY PathFacts
<1>3. CleanVmlinuz(st) \in Running /\ CleanImage(st) \in Running
  BY <1>1, CommandTypes DEF CleanVmlinuz, CleanImage
<1>4. CleanOld(st) \in Running /\ CleanDebug(st, k, host) \in Running
  BY <1>1, <1>2, CommandTypes DEF CleanOld, CleanDebug
<1>5. LinkImageFile(st) \in Running /\ CopyLibKernel(st, k, lib, host) \in Running
  BY <1>1, <1>2, CommandTypes DEF LinkImageFile, CopyLibKernel
<1>6. LinkVmlinuz(st, k) \in Running /\ LinkVmlinux(st, k, host) \in Running
  BY <1>1, <1>2, CommandTypes DEF LinkVmlinuz, LinkVmlinux
<1>7. CleanHmac(st) \in Running /\ LinkHmac(st, k) \in Running
  BY <1>1, <1>2, CommandTypes DEF CleanHmac, LinkHmac
<1>8. LinkImage(st, k) \in Running /\ LinkAlpine(st, p) \in Running
  BY <1>1, <1>2, CommandTypes DEF LinkImage, LinkAlpine
<1> QED
  BY <1>3, <1>4, <1>5, <1>6, <1>7, <1>8

\* The whole step takes a running stage to a running stage.
THEOREM KernelStageType ==
    ASSUME NEW st \in Running, NEW k \in Name, NEW lib, NEW host
    PROVE  KernelStage(st, k, lib, host) \in Running
<1>1. CleanLinks(st, k, host) \in Running
  BY StageTypes DEF CleanLinks, Plain
<1>2. ASSUME NEW s \in Running PROVE LinkKernel(s, k, lib, host) \in Running
  BY StageTypes DEF LinkKernel, Plain
<1>3. ASSUME NEW s \in Running PROVE LinkRest(s, k) \in Running
  <2>1. <<"vmlinuz-lts">> \in Plain /\ <<"vmlinuz-rpi">> \in Plain
    BY DEF Plain
  <2> DEFINE a == LinkImage(LinkHmac(CleanHmac(s), k), k)
             b == LinkAlpine(a, <<"vmlinuz-lts">>)
  <2>2. a \in Running
    BY <2>1, StageTypes
  <2>3. b \in Running
    BY <2>1, <2>2, StageTypes
  <2> QED
    BY <2>1, <2>3, StageTypes DEF LinkRest
<1> QED
  BY <1>1, <1>2, <1>3 DEF KernelStage

-----------------------------------------------------------------------------
(* A failure before the kernel step, or in it, is still one after it.         *)

Failing == {st \in Running : st.err}

\* No command has failed.
NoError(st) == st.err = FALSE

\* No command of a stage takes the failure back.
LEMMA CommandsFail ==
    ASSUME NEW st \in Failing, NEW p \in Path, NEW to \in Path, <<"vmlinuz">> \in Path
    PROVE  /\ Rm(st, p) \in Failing /\ Copy(st, p) \in Failing
           /\ LnForce(st, to) \in Failing /\ Ln(st, to, p) \in Failing
<1>0. st \in Running /\ st.err
  BY DEF Failing
<1>1. Rm(st, p).err /\ LnForce(st, to).err /\ Ln(st, to, p).err
  BY <1>0 DEF Rm, LnForce, Ln, Fail, Running
<1>2. Copy(st, p).err
  BY <1>0 DEF Copy, Fail, Running
<1> QED
  BY <1>0, <1>1, <1>2, CommandTypes, Zenon DEF Failing

\* So no stage does ...
LEMMA StagesFail ==
    ASSUME NEW st \in Failing, NEW k \in Name, NEW lib_, NEW host, NEW p \in Plain
    PROVE  /\ CleanVmlinuz(st) \in Failing /\ CleanImage(st) \in Failing
           /\ CleanOld(st) \in Failing /\ CleanDebug(st, k, host) \in Failing
           /\ LinkImageFile(st) \in Failing /\ CopyLibKernel(st, k, lib_, host) \in Failing
           /\ LinkVmlinuz(st, k) \in Failing /\ LinkVmlinux(st, k, host) \in Failing
           /\ CleanHmac(st) \in Failing /\ LinkHmac(st, k) \in Failing
           /\ LinkImage(st, k) \in Failing /\ LinkAlpine(st, p) \in Failing
<1>1. /\ <<"vmlinuz">> \in Path /\ <<"Image">> \in Path /\ <<"vmlinuz.old">> \in Path
      /\ <<"hmac">> \in Path /\ p \in Path
  BY PathFacts DEF Plain
<1>2. /\ <<"vmlinuz", k>> \in Path /\ <<"vmlinux", k>> \in Path
      /\ <<"Image", k>> \in Path /\ <<"hmac", k>> \in Path
  BY PathFacts
<1>3. CleanVmlinuz(st) \in Failing /\ CleanImage(st) \in Failing
  BY <1>1, CommandsFail DEF CleanVmlinuz, CleanImage
<1>4. CleanOld(st) \in Failing /\ CleanDebug(st, k, host) \in Failing
  BY <1>1, <1>2, CommandsFail DEF CleanOld, CleanDebug
<1>5. LinkImageFile(st) \in Failing /\ CopyLibKernel(st, k, lib_, host) \in Failing
  BY <1>1, <1>2, CommandsFail DEF LinkImageFile, CopyLibKernel
<1>6. LinkVmlinuz(st, k) \in Failing /\ LinkVmlinux(st, k, host) \in Failing
  BY <1>1, <1>2, CommandsFail DEF LinkVmlinuz, LinkVmlinux
<1>7. CleanHmac(st) \in Failing /\ LinkHmac(st, k) \in Failing
  BY <1>1, <1>2, CommandsFail DEF CleanHmac, LinkHmac
<1>8. LinkImage(st, k) \in Failing /\ LinkAlpine(st, p) \in Failing
  BY <1>1, <1>2, CommandsFail DEF LinkImage, LinkAlpine
<1> QED
  BY <1>3, <1>4, <1>5, <1>6, <1>7, <1>8

\* ... and the whole step does not.
LEMMA KernelStageFails ==
    ASSUME NEW st \in Failing, NEW k \in Name, NEW lib_, NEW host
    PROVE  KernelStage(st, k, lib_, host) \in Failing
<1>1. CleanLinks(st, k, host) \in Failing
  BY StagesFail DEF CleanLinks, Plain
<1>2. ASSUME NEW s \in Failing PROVE LinkKernel(s, k, lib_, host) \in Failing
  BY StagesFail DEF LinkKernel, Plain
<1>3. ASSUME NEW s \in Failing PROVE LinkRest(s, k) \in Failing
  <2>1. <<"vmlinuz-lts">> \in Plain /\ <<"vmlinuz-rpi">> \in Plain
    BY DEF Plain
  <2> DEFINE a == LinkImage(LinkHmac(CleanHmac(s), k), k)
             b == LinkAlpine(a, <<"vmlinuz-lts">>)
  <2>2. a \in Failing
    BY <2>1, StagesFail
  <2>3. b \in Failing
    BY <2>1, <2>2, StagesFail
  <2> QED
    BY <2>1, <2>3, StagesFail DEF LinkRest
<1> QED
  BY <1>1, <1>2, <1>3 DEF KernelStage

-----------------------------------------------------------------------------
(* A run of the step that does not fail is one in which nothing could: a      *)
(* command that fails is reported at the end.  So what such a run leaves is   *)
(* known from the runs with no command broken, which the lemmas below follow. *)

Sound     == {st \in Running : st.broken = {}}
Whole(st) == [st EXCEPT !.broken = {}]

\* A run s, and the run t of the same commands, none of them broken.
Follows(s, t) == s \in Running /\ t \in Sound /\ (NoError(s) => t = Whole(s))

\* A run starts the same way with and without its broken commands.
LEMMA WholeFacts ==
    ASSUME NEW st \in Running
    PROVE  /\ Whole(st) \in Sound /\ Whole(st).boot = st.boot /\ Whole(st).err = st.err
           /\ Follows(st, Whole(st))
<1>1. Whole(st) \in Sound /\ Whole(st).boot = st.boot /\ Whole(st).err = st.err
  BY DEF Whole, Sound, Running
<1> QED
  BY <1>1 DEF Follows

\* With none broken, a command breaks none.
LEMMA CommandsSound ==
    ASSUME NEW st \in Sound, NEW p \in Path, NEW to \in Path, <<"vmlinuz">> \in Path
    PROVE  /\ Rm(st, p) = [st EXCEPT !.boot[p] = Absent] /\ Rm(st, p) \in Sound
           /\ Copy(st, p) = [st EXCEPT !.boot[p] = Regular] /\ Copy(st, p) \in Sound
           /\ LnForce(st, to) = [st EXCEPT !.boot[<<"vmlinuz">>] = to]
           /\ LnForce(st, to) \in Sound
           /\ Ln(st, to, p) = IF st.boot[p] = Absent THEN [st EXCEPT !.boot[p] = to]
                                                     ELSE [st EXCEPT !.err = TRUE]
           /\ Ln(st, to, p) \in Sound
<1>1. st \in Running /\ st.broken = {}
  BY DEF Sound
<1>2. /\ Rm(st, p) = [st EXCEPT !.boot[p] = Absent]
      /\ Copy(st, p) = [st EXCEPT !.boot[p] = Regular]
      /\ LnForce(st, to) = [st EXCEPT !.boot[<<"vmlinuz">>] = to]
      /\ Ln(st, to, p) = IF st.boot[p] = Absent THEN [st EXCEPT !.boot[p] = to]
                                                ELSE [st EXCEPT !.err = TRUE]
  BY <1>1 DEF Rm, Copy, LnForce, Ln, Fail
<1>3. /\ Rm(st, p) \in Running /\ Copy(st, p) \in Running
      /\ LnForce(st, to) \in Running /\ Ln(st, to, p) \in Running
  BY <1>1, CommandTypes
<1>4. /\ Rm(st, p).broken = {} /\ Copy(st, p).broken = {}
      /\ LnForce(st, to).broken = {} /\ Ln(st, to, p).broken = {}
  BY <1>1, <1>2 DEF Running
<1> QED
  BY <1>2, <1>3, <1>4, Zenon DEF Sound

\* So does none of the stages.
LEMMA StagesSound ==
    ASSUME NEW st \in Sound, NEW k \in Name, NEW lib, NEW host, NEW p \in Plain
    PROVE  /\ CleanVmlinuz(st) \in Sound /\ CleanImage(st) \in Sound
           /\ CleanOld(st) \in Sound /\ CleanDebug(st, k, host) \in Sound
           /\ LinkImageFile(st) \in Sound /\ CopyLibKernel(st, k, lib, host) \in Sound
           /\ LinkVmlinuz(st, k) \in Sound /\ LinkVmlinux(st, k, host) \in Sound
           /\ CleanHmac(st) \in Sound /\ LinkHmac(st, k) \in Sound
           /\ LinkImage(st, k) \in Sound /\ LinkAlpine(st, p) \in Sound
<1>1. /\ <<"vmlinuz">> \in Path /\ <<"Image">> \in Path /\ <<"vmlinuz.old">> \in Path
      /\ <<"hmac">> \in Path /\ p \in Path
  BY PathFacts DEF Plain
<1>2. /\ <<"vmlinuz", k>> \in Path /\ <<"vmlinux", k>> \in Path
      /\ <<"Image", k>> \in Path /\ <<"hmac", k>> \in Path
  BY PathFacts
<1>3. \A q \in Path, to \in Path : /\ Rm(st, q) \in Sound /\ Copy(st, q) \in Sound
                                   /\ LnForce(st, to) \in Sound /\ Ln(st, to, q) \in Sound
  BY <1>1, CommandsSound
<1>4. CleanVmlinuz(st) \in Sound /\ CleanImage(st) \in Sound /\ CleanOld(st) \in Sound
  BY <1>1, <1>3 DEF CleanVmlinuz, CleanImage, CleanOld
<1>5. CleanDebug(st, k, host) \in Sound /\ CopyLibKernel(st, k, lib, host) \in Sound
  BY <1>2, <1>3 DEF CleanDebug, CopyLibKernel
<1>6. LinkImageFile(st) \in Sound /\ LinkVmlinuz(st, k) \in Sound
  BY <1>1, <1>2, <1>3 DEF LinkImageFile, LinkVmlinuz
<1>7. LinkVmlinux(st, k, host) \in Sound /\ CleanHmac(st) \in Sound
  BY <1>1, <1>2, <1>3 DEF LinkVmlinux, CleanHmac
<1>8. LinkHmac(st, k) \in Sound /\ LinkImage(st, k) \in Sound /\ LinkAlpine(st, p) \in Sound
  BY <1>1, <1>2, <1>3 DEF LinkHmac, LinkImage, LinkAlpine
<1> QED
  BY <1>4, <1>5, <1>6, <1>7, <1>8

\* A command that works does the same in both.
LEMMA CommandsFollow ==
    ASSUME NEW s, NEW t, Follows(s, t), NEW p \in Path, NEW to \in Path, <<"vmlinuz">> \in Path
    PROVE  /\ Follows(Rm(s, p), Rm(t, p)) /\ Follows(Copy(s, p), Copy(t, p))
           /\ Follows(LnForce(s, to), LnForce(t, to)) /\ Follows(Ln(s, to, p), Ln(t, to, p))
<1>0. s \in Running /\ t \in Sound /\ (NoError(s) => t = Whole(s))
  BY DEF Follows
<1>1. /\ Rm(s, p) \in Running /\ Copy(s, p) \in Running
      /\ LnForce(s, to) \in Running /\ Ln(s, to, p) \in Running
  BY <1>0, CommandTypes
<1>2. /\ Rm(t, p) \in Sound /\ Copy(t, p) \in Sound
      /\ LnForce(t, to) \in Sound /\ Ln(t, to, p) \in Sound
  BY <1>0, CommandsSound
<1>3. CASE ~NoError(s)
  <2>1. s \in Failing
    BY <1>0, <1>3 DEF Failing, NoError, Running
  <2>2. /\ ~NoError(Rm(s, p)) /\ ~NoError(Copy(s, p))
        /\ ~NoError(LnForce(s, to)) /\ ~NoError(Ln(s, to, p))
    BY <2>1, CommandsFail DEF Failing, NoError
  <2> QED
    BY <1>1, <1>2, <2>2 DEF Follows
<1>4. CASE NoError(s)
  <2>0. t = [s EXCEPT !.broken = {}]
    BY <1>0, <1>4 DEF Whole
  <2>1. NoError(Rm(s, p)) => Rm(t, p) = Whole(Rm(s, p))
    <3>1. NoError(Rm(s, p)) => Rm(s, p) = [s EXCEPT !.boot[p] = Absent]
      BY <1>0 DEF Rm, Fail, NoError, Running
    <3>2. Rm(t, p) = [t EXCEPT !.boot[p] = Absent]
      BY <1>0, CommandsSound
    <3> QED
      BY <1>0, <2>0, <3>1, <3>2 DEF Whole, Running
  <2>2. NoError(Copy(s, p)) => Copy(t, p) = Whole(Copy(s, p))
    <3>1. NoError(Copy(s, p)) => Copy(s, p) = [s EXCEPT !.boot[p] = Regular]
      BY <1>0 DEF Copy, Fail, NoError, Running
    <3>2. Copy(t, p) = [t EXCEPT !.boot[p] = Regular]
      BY <1>0, CommandsSound
    <3> QED
      BY <1>0, <2>0, <3>1, <3>2 DEF Whole, Running
  <2>3. NoError(LnForce(s, to)) => LnForce(t, to) = Whole(LnForce(s, to))
    <3>1. NoError(LnForce(s, to)) => LnForce(s, to) = [s EXCEPT !.boot[<<"vmlinuz">>] = to]
      BY <1>0 DEF LnForce, Fail, NoError, Running
    <3>2. LnForce(t, to) = [t EXCEPT !.boot[<<"vmlinuz">>] = to]
      BY <1>0, CommandsSound
    <3> QED
      BY <1>0, <2>0, <3>1, <3>2 DEF Whole, Running
  <2>4. NoError(Ln(s, to, p)) => Ln(t, to, p) = Whole(Ln(s, to, p))
    <3>1. NoError(Ln(s, to, p)) => s.boot[p] = Absent /\ Ln(s, to, p) = [s EXCEPT !.boot[p] = to]
      BY <1>0 DEF Ln, Fail, NoError, Running
    <3>2. Ln(t, to, p) = IF t.boot[p] = Absent THEN [t EXCEPT !.boot[p] = to]
                                               ELSE [t EXCEPT !.err = TRUE]
      BY <1>0, CommandsSound
    <3> QED
      BY <1>0, <2>0, <3>1, <3>2 DEF Whole, Running
  <2> QED
    BY <1>1, <1>2, <2>1, <2>2, <2>3, <2>4 DEF Follows
<1> QED
  BY <1>3, <1>4

\* A stage's test looks at /boot only, which is the same in both.
LEMMA StagesFollow ==
    ASSUME NEW s, NEW t, Follows(s, t), NEW k \in Name, NEW lib, NEW host, NEW p \in Plain
    PROVE  /\ Follows(CleanVmlinuz(s), CleanVmlinuz(t)) /\ Follows(CleanImage(s), CleanImage(t))
           /\ Follows(CleanOld(s), CleanOld(t))
           /\ Follows(CleanDebug(s, k, host), CleanDebug(t, k, host))
           /\ Follows(LinkImageFile(s), LinkImageFile(t))
           /\ Follows(CopyLibKernel(s, k, lib, host), CopyLibKernel(t, k, lib, host))
           /\ Follows(LinkVmlinuz(s, k), LinkVmlinuz(t, k))
           /\ Follows(LinkVmlinux(s, k, host), LinkVmlinux(t, k, host))
           /\ Follows(CleanHmac(s), CleanHmac(t)) /\ Follows(LinkHmac(s, k), LinkHmac(t, k))
           /\ Follows(LinkImage(s, k), LinkImage(t, k))
           /\ Follows(LinkAlpine(s, p), LinkAlpine(t, p))
<1>1. /\ <<"vmlinuz">> \in Path /\ <<"Image">> \in Path /\ <<"vmlinuz.old">> \in Path
      /\ <<"hmac">> \in Path /\ p \in Path
  BY PathFacts DEF Plain
<1>2. /\ <<"vmlinuz", k>> \in Path /\ <<"vmlinux", k>> \in Path
      /\ <<"Image", k>> \in Path /\ <<"hmac", k>> \in Path
  BY PathFacts
<1>3. CASE NoError(s)
  <2>1. t.boot = s.boot
    BY <1>3, WholeFacts DEF Follows
  <2>2. Follows(CleanVmlinuz(s), CleanVmlinuz(t)) /\ Follows(CleanImage(s), CleanImage(t))
    BY <1>1, <2>1, CommandsFollow DEF CleanVmlinuz, CleanImage
  <2>3. Follows(CleanOld(s), CleanOld(t))
    BY <1>1, <2>1, CommandsFollow DEF CleanOld
  <2>4. Follows(CleanDebug(s, k, host), CleanDebug(t, k, host))
    BY <1>1, <1>2, <2>1, CommandsFollow DEF CleanDebug
  <2>5. Follows(LinkImageFile(s), LinkImageFile(t))
    BY <1>1, <2>1, CommandsFollow DEF LinkImageFile
  <2>6. Follows(CopyLibKernel(s, k, lib, host), CopyLibKernel(t, k, lib, host))
    BY <1>1, <1>2, <2>1, CommandsFollow DEF CopyLibKernel
  <2>7. Follows(LinkVmlinuz(s, k), LinkVmlinuz(t, k))
    BY <1>1, <1>2, <2>1, CommandsFollow DEF LinkVmlinuz
  <2>8. Follows(LinkVmlinux(s, k, host), LinkVmlinux(t, k, host))
    BY <1>1, <1>2, <2>1, CommandsFollow DEF LinkVmlinux
  <2>9. Follows(CleanHmac(s), CleanHmac(t)) /\ Follows(LinkHmac(s, k), LinkHmac(t, k))
    BY <1>1, <1>2, <2>1, CommandsFollow DEF CleanHmac, LinkHmac
  <2>10. Follows(LinkImage(s, k), LinkImage(t, k)) /\ Follows(LinkAlpine(s, p), LinkAlpine(t, p))
    BY <1>1, <1>2, <2>1, CommandsFollow DEF LinkImage, LinkAlpine
  <2> QED
    BY <2>2, <2>3, <2>4, <2>5, <2>6, <2>7, <2>8, <2>9, <2>10
<1>4. CASE ~NoError(s)
  <2>1. s \in Failing /\ t \in Sound
    BY <1>4 DEF Follows, Failing, NoError, Running
  <2>2. ASSUME NEW r \in Failing, NEW u \in Sound PROVE Follows(r, u)
    BY DEF Failing, Follows, NoError
  <2>3. /\ CleanVmlinuz(t) \in Sound /\ CleanImage(t) \in Sound /\ CleanOld(t) \in Sound
        /\ CleanDebug(t, k, host) \in Sound /\ LinkImageFile(t) \in Sound
        /\ CopyLibKernel(t, k, lib, host) \in Sound /\ LinkVmlinuz(t, k) \in Sound
        /\ LinkVmlinux(t, k, host) \in Sound /\ CleanHmac(t) \in Sound
        /\ LinkHmac(t, k) \in Sound /\ LinkImage(t, k) \in Sound /\ LinkAlpine(t, p) \in Sound
    BY <1>1, <1>2, <2>1, StagesSound
  <2> QED
    BY <2>1, <2>2, <2>3, StagesFail
<1> QED
  BY <1>3, <1>4

\* The whole step: if a command that fails is met, the step fails.
LEMMA KernelStageFollows ==
    ASSUME NEW st \in Running, NEW k \in Name, NEW lib, NEW host
    PROVE  Follows(KernelStage(st, k, lib, host), KernelStage(Whole(st), k, lib, host))
<1>1. Follows(CleanLinks(st, k, host), CleanLinks(Whole(st), k, host))
  BY WholeFacts, StagesFollow DEF CleanLinks, Plain
<1>2. ASSUME NEW s, NEW t, Follows(s, t)
      PROVE  Follows(LinkKernel(s, k, lib, host), LinkKernel(t, k, lib, host))
  BY <1>2, StagesFollow DEF LinkKernel, Plain
<1>3. ASSUME NEW s, NEW t, Follows(s, t) PROVE Follows(LinkRest(s, k), LinkRest(t, k))
  <2>1. <<"vmlinuz-lts">> \in Plain /\ <<"vmlinuz-rpi">> \in Plain
    BY DEF Plain
  <2> DEFINE a(u) == LinkImage(LinkHmac(CleanHmac(u), k), k)
             b(u) == LinkAlpine(a(u), <<"vmlinuz-lts">>)
  <2>2. Follows(a(s), a(t))
    BY <1>3, <2>1, StagesFollow
  <2>3. Follows(b(s), b(t))
    BY <2>1, <2>2, StagesFollow
  <2> QED
    BY <2>1, <2>3, StagesFollow DEF LinkRest
<1> QED
  BY <1>1, <1>2, <1>3 DEF KernelStage

-----------------------------------------------------------------------------
(* No dangling link.  Only three names in /boot are ever links, so that what  *)
(* a link of the kernel step leads to is a file and not another link; and no  *)
(* stage after a link is made removes its target.                             *)

Vmlinuz    == <<"vmlinuz">>
SolidPath  == Path \ {<<"vmlinuz">>, <<"vmlinuz.old">>, <<"hmac">>}
Solid(b)   == \A p \in SolidPath : b[p] \notin Path
Target(b)  == b[Vmlinuz] \in Path => b[Vmlinuz] \in SolidPath /\ b[b[Vmlinuz]] = Regular

Unlinked == {st \in Sound : Solid(st.boot) /\ st.boot[Vmlinuz] \notin Path}
Resolved == {st \in Sound : Solid(st.boot) /\ Target(st.boot)}

\* Where the names belong.
LEMMA SolidFacts ==
    /\ Absent \notin Path /\ Regular \notin Path /\ Absent # Regular
    /\ Vmlinuz \in Path /\ Vmlinuz \notin SolidPath /\ SolidPath \subseteq Path
    /\ <<"hmac">> \in Path \ SolidPath /\ <<"vmlinuz.old">> \in Path \ SolidPath
    /\ <<"Image">> \in SolidPath /\ <<"vmlinuz-lts">> \in SolidPath
    /\ <<"vmlinuz-rpi">> \in SolidPath
    /\ \A k \in Name : \A n \in {"vmlinuz", "vmlinux", "Image", "hmac"} : <<n, k>> \in SolidPath
BY DEF Absent, Regular, Path, Plain, Versioned, SolidPath, Vmlinuz

\* Removing anything keeps the first state of affairs, as long as there is no link yet.
LEMMA RemoveUnlinked ==
    ASSUME NEW st \in Unlinked, NEW p \in Path
    PROVE  Rm(st, p) \in Unlinked
<1>1. st \in Sound /\ Solid(st.boot) /\ st.boot[Vmlinuz] \notin Path
  BY DEF Unlinked
<1>2. Rm(st, p) \in Sound
  BY <1>1, CommandsSound, SolidFacts DEF Vmlinuz
<1>3. Rm(st, p).boot = [st.boot EXCEPT ![p] = Absent]
  BY <1>1 DEF Rm, Running, Sound
<1>4. Solid(Rm(st, p).boot) /\ Rm(st, p).boot[Vmlinuz] \notin Path
  BY <1>1, <1>3, SolidFacts DEF Solid, Running, Sound, BootDir
<1> QED
  BY <1>2, <1>4 DEF Unlinked

\* The clean-up stages come first and leave no link /boot/vmlinuz.
LEMMA CleanUnlinked ==
    ASSUME NEW st \in Sound, Solid(st.boot), NEW k \in Name, NEW host
    PROVE  CleanLinks(st, k, host) \in Unlinked
<1>1. CleanVmlinuz(st) \in Unlinked
  <2>1. CASE IsLink(st.boot, <<"vmlinuz">>)
    <3>1. CleanVmlinuz(st) = Rm(st, <<"vmlinuz">>)
      BY <2>1 DEF CleanVmlinuz
    <3>2. Rm(st, <<"vmlinuz">>) \in Sound
      BY CommandsSound, SolidFacts DEF Vmlinuz
    <3>3. Rm(st, <<"vmlinuz">>).boot = [st.boot EXCEPT ![<<"vmlinuz">>] = Absent]
      BY DEF Rm, Running, Sound
    <3>4. Solid(Rm(st, <<"vmlinuz">>).boot) /\ Rm(st, <<"vmlinuz">>).boot[Vmlinuz] \notin Path
      BY <3>3, SolidFacts DEF Solid, Running, Sound, BootDir, Vmlinuz
    <3> QED
      BY <3>1, <3>2, <3>4 DEF Unlinked
  <2>2. CASE ~IsLink(st.boot, <<"vmlinuz">>)
    BY <2>2 DEF CleanVmlinuz, IsLink, Unlinked, Vmlinuz
  <2> QED
    BY <2>1, <2>2
<1>2. \A s \in Unlinked : CleanImage(s) \in Unlinked /\ CleanOld(s) \in Unlinked
                          /\ CleanDebug(s, k, host) \in Unlinked
  BY RemoveUnlinked, SolidFacts DEF CleanImage, CleanOld, CleanDebug
<1> QED
  BY <1>1, <1>2 DEF CleanLinks

\* A link to a file resolves, and so do the links made before.
LEMMA LinkResolved ==
    ASSUME NEW st \in Resolved, NEW to \in SolidPath, IsFile(st.boot, to)
    PROVE  LnForce(st, to) \in Resolved /\ Ln(st, to, Vmlinuz) \in Resolved
<1>1. st \in Sound /\ Solid(st.boot) /\ Target(st.boot)
  BY DEF Resolved
<1>2. st.boot[to] = Regular
  BY <1>1 DEF IsFile, Solid
<1>3. LnForce(st, to) \in Sound /\ Ln(st, to, Vmlinuz) \in Sound
  BY <1>1, CommandsSound, SolidFacts DEF Vmlinuz
<1> DEFINE b == [st.boot EXCEPT ![Vmlinuz] = to]
<1>4. Solid(b) /\ Target(b)
  BY <1>1, <1>2, SolidFacts DEF Solid, Target, Running, Sound, BootDir
<1>5. LnForce(st, to).boot = b
  BY <1>1 DEF LnForce, Running, Sound, Vmlinuz
<1>6. Ln(st, to, Vmlinuz).boot = b \/ Ln(st, to, Vmlinuz).boot = st.boot
  BY <1>1 DEF Ln, Fail, Running, Sound
<1> HIDE DEF b
<1> QED
  BY <1>1, <1>3, <1>4, <1>5, <1>6 DEF Resolved

\* The stages that follow make links to files and remove no target of one.
LEMMA StagesResolved ==
    ASSUME NEW st \in Resolved, NEW k \in Name, NEW lib_, NEW host, NEW p \in SolidPath
    PROVE  /\ LinkImageFile(st) \in Resolved /\ CopyLibKernel(st, k, lib_, host) \in Resolved
           /\ LinkVmlinuz(st, k) \in Resolved /\ LinkVmlinux(st, k, host) \in Resolved
           /\ CleanHmac(st) \in Resolved /\ LinkHmac(st, k) \in Resolved
           /\ LinkImage(st, k) \in Resolved /\ LinkAlpine(st, p) \in Resolved
<1>1. st \in Sound /\ Solid(st.boot) /\ Target(st.boot)
  BY DEF Resolved
<1>2. LinkImageFile(st) \in Resolved /\ LinkVmlinuz(st, k) \in Resolved
      /\ LinkVmlinux(st, k, host) \in Resolved /\ LinkImage(st, k) \in Resolved
      /\ LinkAlpine(st, p) \in Resolved
  BY LinkResolved, SolidFacts
     DEF LinkImageFile, LinkVmlinuz, LinkVmlinux, LinkImage, LinkAlpine, Vmlinuz
<1>3. CopyLibKernel(st, k, lib_, host) \in Resolved
  <2> DEFINE c == Copy(st, <<"vmlinuz", k>>)
  <2>1. <<"vmlinuz", k>> \in SolidPath
    BY SolidFacts
  <2>2. c \in Sound
    BY <1>1, <2>1, CommandsSound, SolidFacts DEF Vmlinuz
  <2>3. c.boot = [st.boot EXCEPT ![<<"vmlinuz", k>>] = Regular]
    BY <1>1 DEF Copy, Running, Sound
  <2>4. Solid(c.boot) /\ Target(c.boot)
    BY <1>1, <2>1, <2>3, SolidFacts DEF Solid, Target, Running, Sound, BootDir
  <2> HIDE DEF c
  <2>5. c \in Resolved
    BY <2>2, <2>4 DEF Resolved
  <2> QED
    BY <2>5 DEF CopyLibKernel, c
<1>4. CleanHmac(st) \in Resolved
  <2> DEFINE c == Rm(st, <<"hmac">>)
  <2>1. c \in Sound
    BY <1>1, CommandsSound, SolidFacts DEF Vmlinuz
  <2>2. c.boot = [st.boot EXCEPT ![<<"hmac">>] = Absent]
    BY <1>1 DEF Rm, Running, Sound
  <2>3. Solid(c.boot) /\ Target(c.boot)
    BY <1>1, <2>2, SolidFacts DEF Solid, Target, Running, Sound, BootDir, Vmlinuz
  <2> HIDE DEF c
  <2>4. c \in Resolved
    BY <2>1, <2>3 DEF Resolved
  <2> QED
    BY <2>4 DEF CleanHmac, c
<1>5. LinkHmac(st, k) \in Resolved
  <2> DEFINE c == Ln(st, <<"hmac", k>>, <<"hmac">>)
  <2>1. <<"hmac", k>> \in SolidPath
    BY SolidFacts
  <2>2. c \in Sound
    BY <1>1, <2>1, CommandsSound, SolidFacts DEF Vmlinuz
  <2>3. c.boot = [st.boot EXCEPT ![<<"hmac">>] = <<"hmac", k>>] \/ c.boot = st.boot
    BY <1>1 DEF Ln, Fail, Running, Sound
  <2>4. Solid(c.boot) /\ Target(c.boot)
    BY <1>1, <2>1, <2>3, SolidFacts DEF Solid, Target, Running, Sound, BootDir, Vmlinuz
  <2> HIDE DEF c
  <2>5. c \in Resolved
    BY <2>2, <2>4 DEF Resolved
  <2> QED
    BY <2>5 DEF LinkHmac, c
<1> QED
  BY <1>2, <1>3, <1>4, <1>5

\* The whole step leaves no dangling /boot/vmlinuz.
LEMMA KernelStageResolves ==
    ASSUME NEW st \in Sound, Solid(st.boot), NEW k \in Name, NEW lib_, NEW host
    PROVE  KernelStage(st, k, lib_, host) \in Resolved
<1>1. CleanLinks(st, k, host) \in Resolved
  BY CleanUnlinked DEF Unlinked, Resolved, Target
<1>2. ASSUME NEW s \in Resolved PROVE LinkKernel(s, k, lib_, host) \in Resolved
  BY StagesResolved, SolidFacts DEF LinkKernel
<1>3. ASSUME NEW s \in Resolved PROVE LinkRest(s, k) \in Resolved
  <2> DEFINE a == LinkImage(LinkHmac(CleanHmac(s), k), k)
             b == LinkAlpine(a, <<"vmlinuz-lts">>)
  <2>1. a \in Resolved
    BY StagesResolved, SolidFacts
  <2>2. b \in Resolved
    BY <2>1, StagesResolved, SolidFacts
  <2> QED
    BY <2>2, StagesResolved, SolidFacts DEF LinkRest
<1> QED
  BY <1>1, <1>2, <1>3 DEF KernelStage

-----------------------------------------------------------------------------
(* Running the step again.  The step is followed value by value: the files a  *)
(* first run settles on, which a second one leaves alone, and /boot/vmlinuz,  *)
(* which every link stage takes over when the path is free and that the      *)
(* forced link of riscv64 takes over in any case.                             *)

\* The two other names that can be links.
Old  == <<"vmlinuz.old">>
Hmac == <<"hmac">>

\* What the step leaves in a path that is never a link.
Settled(b, k, lib_, host) ==
    [p \in SolidPath |->
       IF p = <<"vmlinux", k>> /\ host.arch \in {"amd64", "arm64"} /\ b[p] = Regular THEN Absent
       ELSE IF p = <<"vmlinuz", k>> /\ host.rhel /\ k \in lib_ THEN Regular
       ELSE b[p]]

\* The clean-up stages remove a link, and vmlinuz.old when it is or leads to a file.
NoLink(v) == IF v \in Path THEN Absent ELSE v
OldFile(b) == b[Old] = Regular \/ (b[Old] \in Path /\ b[b[Old]] = Regular)

\* A link stage for a file f: it takes a free path, and fails on another one.
NewLink(v, f, to)    == IF f = Regular /\ v = Absent THEN to ELSE v
ForcedLink(v, f, to) == IF f = Regular THEN to ELSE v
Free(v, f)           == f = Regular => v = Absent

\* /boot/vmlinuz after each link stage, with c what Settled tells and v the start.
OfImage(c, v)         == NewLink(v, c[<<"Image">>], <<"Image">>)
OfVmlinuz(c, v, k)    == NewLink(OfImage(c, v), c[<<"vmlinuz", k>>], <<"vmlinuz", k>>)
OfVmlinux(c, v, k, h) == IF h.arch = "riscv64"
                           THEN ForcedLink(OfVmlinuz(c, v, k), c[<<"vmlinux", k>>], <<"vmlinux", k>>)
                           ELSE OfVmlinuz(c, v, k)
OfImageK(c, v, k, h)  == NewLink(OfVmlinux(c, v, k, h), c[<<"Image", k>>], <<"Image", k>>)
OfLts(c, v, k, h)     == NewLink(OfImageK(c, v, k, h), c[<<"vmlinuz-lts">>], <<"vmlinuz-lts">>)
OfRpi(c, v, k, h)     == NewLink(OfLts(c, v, k, h), c[<<"vmlinuz-rpi">>], <<"vmlinuz-rpi">>)
OfHmac(c, v, k)       == NewLink(v, c[<<"hmac", k>>], <<"hmac", k>>)

\* No link stage finds its path taken.
AllFree(c, v, w, k, h) == /\ Free(v, c[<<"Image">>])
                          /\ Free(OfImage(c, v), c[<<"vmlinuz", k>>])
                          /\ Free(w, c[<<"hmac", k>>])
                          /\ Free(OfVmlinux(c, v, k, h), c[<<"Image", k>>])
                          /\ Free(OfImageK(c, v, k, h), c[<<"vmlinuz-lts">>])
                          /\ Free(OfLts(c, v, k, h), c[<<"vmlinuz-rpi">>])

\* A link stage, for a file and the path that is to lead there.
TryLink(st, to, p) == IF IsFile(st.boot, to) THEN Ln(st, to, p) ELSE st

LEMMA TryLinkEffect ==
    ASSUME NEW st \in Sound, Solid(st.boot), NEW to \in SolidPath, NEW p \in Path \ SolidPath
    PROVE  /\ TryLink(st, to, p) \in Sound
           /\ \A q \in Path : TryLink(st, to, p).boot[q] =
                 IF q = p THEN NewLink(st.boot[p], st.boot[to], to) ELSE st.boot[q]
           /\ TryLink(st, to, p).err = FALSE
                 <=> st.err = FALSE /\ Free(st.boot[p], st.boot[to])
<1>1. IsFile(st.boot, to) <=> st.boot[to] = Regular
  BY DEF IsFile, Solid
<1>2. to \in Path /\ p \in Path /\ <<"vmlinuz">> \in Path
  BY SolidFacts DEF Vmlinuz
<1>3. st.boot \in BootDir /\ st.err \in BOOLEAN
  BY DEF Running, Sound
<1>4. CASE st.boot[to] # Regular
  BY <1>1, <1>4 DEF TryLink, NewLink, Free
<1>5. CASE st.boot[to] = Regular /\ st.boot[p] # Absent
  <2>1. TryLink(st, to, p) = [st EXCEPT !.err = TRUE]
    BY <1>1, <1>5 DEF TryLink, Ln, Fail
  <2>2. /\ [st EXCEPT !.err = TRUE] \in Sound
        /\ [st EXCEPT !.err = TRUE].boot = st.boot /\ [st EXCEPT !.err = TRUE].err = TRUE
    BY DEF Running, Sound
  <2> QED
    BY <1>5, <2>1, <2>2 DEF NewLink, Free
<1>6. CASE st.boot[to] = Regular /\ st.boot[p] = Absent
  <2>1. TryLink(st, to, p) = [st EXCEPT !.boot[p] = to]
    BY <1>1, <1>6 DEF TryLink, Ln, Sound
  <2>2. /\ [st EXCEPT !.boot[p] = to] \in Sound
        /\ [st EXCEPT !.boot[p] = to].boot = [st.boot EXCEPT ![p] = to]
        /\ [st EXCEPT !.boot[p] = to].err = st.err
    BY <1>2 DEF Running, Sound, BootDir
  <2>3. \A q \in Path : [st.boot EXCEPT ![p] = to][q] = IF q = p THEN to ELSE st.boot[q]
    BY <1>3 DEF BootDir
  <2> QED
    BY <1>6, <2>1, <2>2, <2>3 DEF NewLink, Free
<1> QED
  BY <1>4, <1>5, <1>6

\* Removing a path changes nothing else.
LEMMA RmEffect ==
    ASSUME NEW st \in Sound, NEW p \in Path
    PROVE  /\ Rm(st, p) \in Sound /\ Rm(st, p).err = st.err
           /\ \A q \in Path : Rm(st, p).boot[q] = IF q = p THEN Absent ELSE st.boot[q]
<1>1. Rm(st, p) \in Sound
  BY CommandsSound, SolidFacts DEF Vmlinuz
<1>2. Rm(st, p).boot = [st.boot EXCEPT ![p] = Absent] /\ Rm(st, p).err = st.err
  BY DEF Rm, Running, Sound
<1> QED
  BY <1>1, <1>2 DEF Running, Sound, BootDir

\* What is known of the old kernel's link when the step starts.
OldSolid(b) == b[Old] \in Path => b[Old] \in SolidPath

\* The clean-up stages, value by value.
LEMMA CleanEffect ==
    ASSUME NEW st \in Sound, Solid(st.boot), OldSolid(st.boot), NEW k \in Name, NEW host
    PROVE  LET b == st.boot
               r == CleanLinks(st, k, host)
           IN  /\ r \in Sound /\ r.err = st.err
               /\ r.boot[Vmlinuz] = NoLink(b[Vmlinuz])
               /\ r.boot[Old] = IF OldFile(b) THEN Absent ELSE b[Old]
               /\ r.boot[Hmac] = b[Hmac]
               /\ \A p \in SolidPath : r.boot[p] =
                     IF p = <<"vmlinux", k>> /\ host.arch \in {"amd64", "arm64"} /\ b[p] = Regular
                       THEN Absent ELSE b[p]
<1> DEFINE b  == st.boot
           s1 == CleanVmlinuz(st)
           s2 == CleanImage(s1)
           s3 == CleanOld(s2)
           s4 == CleanDebug(s3, k, host)
<1>0. /\ Vmlinuz \in Path /\ Old \in Path /\ Hmac \in Path
      /\ Vmlinuz \notin SolidPath /\ Old \notin SolidPath /\ Hmac \notin SolidPath
      /\ Vmlinuz # Old /\ Vmlinuz # Hmac /\ Old # Hmac
      /\ SolidPath \subseteq Path /\ <<"Image">> \in SolidPath
      /\ <<"vmlinux", k>> \in SolidPath
      /\ Absent \notin Path /\ Regular \notin Path /\ Absent # Regular
  BY SolidFacts DEF Old, Hmac, Vmlinuz
<1>1. /\ s1 \in Sound /\ s1.err = st.err
      /\ \A q \in Path : s1.boot[q] = IF q = Vmlinuz THEN NoLink(b[Vmlinuz]) ELSE b[q]
  BY <1>0, RmEffect DEF CleanVmlinuz, IsLink, NoLink, Vmlinuz
<1>2. s2 = s1
  BY <1>0, <1>1 DEF CleanImage, IsLink, Solid
<1>3. IsFile(s1.boot, Old) <=> OldFile(b)
  BY <1>0, <1>1 DEF IsFile, OldFile, OldSolid
<1>4. /\ s3 \in Sound /\ s3.err = st.err
      /\ \A q \in Path : s3.boot[q] =
            IF q = Old THEN (IF OldFile(b) THEN Absent ELSE b[Old]) ELSE s1.boot[q]
  <2> HIDE DEF s1
  <2>1. s3 = IF OldFile(b) THEN Rm(s1, Old) ELSE s1
    BY <1>2, <1>3 DEF CleanOld, Old
  <2>2. CASE OldFile(b)
    BY <1>0, <1>1, <2>1, <2>2, RmEffect
  <2>3. CASE ~OldFile(b)
    BY <1>0, <1>1, <2>1, <2>3
  <2> QED
    BY <2>2, <2>3
<1>5. s3.boot[<<"vmlinux", k>>] = b[<<"vmlinux", k>>]
  BY <1>0, <1>1, <1>4
<1>6. IsFile(s3.boot, <<"vmlinux", k>>) <=> b[<<"vmlinux", k>>] = Regular
  BY <1>0, <1>5 DEF IsFile, Solid
<1> DEFINE debug == host.arch \in {"amd64", "arm64"} /\ b[<<"vmlinux", k>>] = Regular
<1>7. s4 = IF debug THEN Rm(s3, <<"vmlinux", k>>) ELSE s3
  BY <1>6 DEF CleanDebug
<1>8. /\ s4 \in Sound /\ s4.err = st.err
      /\ \A q \in Path : s4.boot[q] = IF q = <<"vmlinux", k>> /\ debug THEN Absent ELSE s3.boot[q]
  <2> HIDE DEF s3, s4, debug
  <2>1. CASE debug
    <3>1. s4 = Rm(s3, <<"vmlinux", k>>)
      BY <1>7, <2>1
    <3>2. <<"vmlinux", k>> \in Path
      BY <1>0
    <3>3. /\ s4 \in Sound /\ s4.err = s3.err
          /\ \A q \in Path : s4.boot[q] = IF q = <<"vmlinux", k>> THEN Absent ELSE s3.boot[q]
      BY <1>4, <3>1, <3>2, RmEffect
    <3> QED
      BY <1>4, <2>1, <3>3
  <2>2. CASE ~debug
    BY <1>4, <1>7, <2>2
  <2> QED
    BY <2>1, <2>2
<1>9. CleanLinks(st, k, host) = s4
  BY DEF CleanLinks
<1> HIDE DEF s1, s2, s3, s4
<1> QED
  BY <1>0, <1>1, <1>4, <1>8, <1>9

\* The paths that are never links hold what c says, or will when the kernel of
\* /usr/lib/modules is copied.
SolidAs(b, c) == \A p \in SolidPath : b[p] = c[p]
SolidAfterCopy(b, c, k, lib_, host) ==
    \A p \in SolidPath :
       c[p] = IF p = <<"vmlinuz", k>> /\ host.rhel /\ k \in lib_ THEN Regular ELSE b[p]

\* The links to the kernel's own files, made from a state st in which /boot/vmlinuz
\* holds v.
KernelLinked(r, st, c, v, k, host) ==
    /\ r \in Sound
    /\ r.boot[Vmlinuz] = OfVmlinux(c, v, k, host)
    /\ r.boot[Old] = st.boot[Old] /\ r.boot[Hmac] = st.boot[Hmac]
    /\ SolidAs(r.boot, c)
    /\ r.err = FALSE <=> /\ st.err = FALSE
                         /\ Free(v, c[<<"Image">>])
                         /\ Free(OfImage(c, v), c[<<"vmlinuz", k>>])

LEMMA LinkKernelEffect ==
    ASSUME NEW st \in Sound, Solid(st.boot), NEW k \in Name, NEW lib_, NEW host,
           NEW c, SolidAfterCopy(st.boot, c, k, lib_, host),
           NEW v, v = st.boot[Vmlinuz]
    PROVE  KernelLinked(LinkKernel(st, k, lib_, host), st, c, v, k, host)
<1> USE DEF SolidAs, SolidAfterCopy
<1> DEFINE s1 == LinkImageFile(st)
           s2 == CopyLibKernel(s1, k, lib_, host)
           s3 == LinkVmlinuz(s2, k)
           s4 == LinkVmlinux(s3, k, host)
<1>0. /\ Vmlinuz \in Path \ SolidPath /\ Old \in Path /\ Hmac \in Path
      /\ Old \notin SolidPath /\ Hmac \notin SolidPath
      /\ Vmlinuz # Old /\ Vmlinuz # Hmac
      /\ SolidPath \subseteq Path
      /\ <<"Image">> \in SolidPath /\ <<"Image">> # <<"vmlinuz", k>>
      /\ <<"vmlinux", k>> \in SolidPath /\ <<"vmlinuz", k>> \in SolidPath
      /\ Absent \notin Path /\ Regular \notin Path /\ Absent # Regular
  BY SolidFacts DEF Old, Hmac, Vmlinuz
<1>1. /\ s1 \in Sound
      /\ \A q \in Path : s1.boot[q] = IF q = Vmlinuz THEN OfImage(c, v) ELSE st.boot[q]
      /\ s1.err = FALSE <=> st.err = FALSE /\ Free(v, c[<<"Image">>])
  <2>1. s1 = TryLink(st, <<"Image">>, Vmlinuz)
    BY <1>0 DEF LinkImageFile, TryLink, IsLink, Solid, Vmlinuz
  <2>2. c[<<"Image">>] = st.boot[<<"Image">>]
    BY <1>0
  <2>3. /\ s1 \in Sound
        /\ \A q \in Path : s1.boot[q] =
              IF q = Vmlinuz THEN NewLink(st.boot[Vmlinuz], st.boot[<<"Image">>], <<"Image">>)
                             ELSE st.boot[q]
        /\ s1.err = FALSE
             <=> st.err = FALSE /\ Free(st.boot[Vmlinuz], st.boot[<<"Image">>])
    <3>1. st \in Sound /\ Solid(st.boot) /\ <<"Image">> \in SolidPath
          /\ Vmlinuz \in Path \ SolidPath
      BY <1>0
    <3> HIDE DEF s1
    <3> QED
      BY <2>1, <3>1, TryLinkEffect
  <2> HIDE DEF s1
  <2> QED
    BY <2>2, <2>3 DEF OfImage
<1> HIDE DEF s1
<1>2. /\ s2 \in Sound /\ s2.err = s1.err
      /\ s2.boot[Vmlinuz] = OfImage(c, v)
      /\ s2.boot[Old] = st.boot[Old] /\ s2.boot[Hmac] = st.boot[Hmac]
      /\ \A p \in SolidPath : s2.boot[p] = c[p]
  <2>1. IsFile(s1.boot, <<"vmlinuz", k>>) <=> st.boot[<<"vmlinuz", k>>] = Regular
    BY <1>0, <1>1 DEF IsFile, Solid
  <2> DEFINE d == Copy(s1, <<"vmlinuz", k>>)
  <2>2. /\ d \in Sound /\ d.err = s1.err
        /\ d.boot = [s1.boot EXCEPT ![<<"vmlinuz", k>>] = Regular]
    BY <1>0, <1>1, CommandsSound DEF Copy, Running, Sound, Vmlinuz
  <2>3. \A q \in Path : d.boot[q] = IF q = <<"vmlinuz", k>> THEN Regular ELSE s1.boot[q]
    BY <1>1, <2>2 DEF Running, Sound, BootDir
  <2> HIDE DEF d
  <2>4. CASE host.rhel /\ k \in lib_ /\ st.boot[<<"vmlinuz", k>>] # Regular
    <3>1. s2 = d
      BY <2>1, <2>4 DEF CopyLibKernel, d
    <3> QED
      BY <1>0, <1>1, <2>2, <2>3, <2>4, <3>1
  <2>5. CASE ~(host.rhel /\ k \in lib_ /\ st.boot[<<"vmlinuz", k>>] # Regular)
    <3>1. s2 = s1
      BY <2>1, <2>5 DEF CopyLibKernel
    <3>2. \A p \in SolidPath : c[p] = st.boot[p]
      BY <2>5
    <3> QED
      BY <1>0, <1>1, <3>1, <3>2
  <2> QED
    BY <2>4, <2>5
<1> HIDE DEF s2
<1>3. Solid(s2.boot)
  BY <1>0, <1>2 DEF Solid
<1>4. /\ s3 \in Sound
      /\ \A q \in Path : s3.boot[q] = IF q = Vmlinuz THEN OfVmlinuz(c, v, k) ELSE s2.boot[q]
      /\ s3.err = FALSE <=> s2.err = FALSE /\ Free(OfImage(c, v), c[<<"vmlinuz", k>>])
  <2>1. s3 = TryLink(s2, <<"vmlinuz", k>>, Vmlinuz)
    BY DEF LinkVmlinuz, TryLink, Vmlinuz
  <2>2. /\ s3 \in Sound
        /\ \A q \in Path : s3.boot[q] =
              IF q = Vmlinuz THEN NewLink(s2.boot[Vmlinuz], s2.boot[<<"vmlinuz", k>>], <<"vmlinuz", k>>)
              ELSE s2.boot[q]
        /\ s3.err = FALSE <=> s2.err = FALSE /\ Free(s2.boot[Vmlinuz], s2.boot[<<"vmlinuz", k>>])
    <3>1. s2 \in Sound /\ Solid(s2.boot) /\ <<"vmlinuz", k>> \in SolidPath
          /\ Vmlinuz \in Path \ SolidPath
      BY <1>0, <1>2, <1>3
    <3> HIDE DEF s3
    <3> QED
      BY <2>1, <3>1, TryLinkEffect
  <2> HIDE DEF s3
  <2> QED
    BY <1>0, <1>2, <1>3, <2>2 DEF OfVmlinuz
<1> HIDE DEF s3
<1>5. /\ s4 \in Sound /\ s4.err = s3.err
      /\ \A q \in Path : s4.boot[q] = IF q = Vmlinuz THEN OfVmlinux(c, v, k, host) ELSE s3.boot[q]
  <2>1. s3.boot[<<"vmlinux", k>>] = c[<<"vmlinux", k>>]
    BY <1>0, <1>2, <1>4
  <2>2. IsFile(s3.boot, <<"vmlinux", k>>) <=> c[<<"vmlinux", k>>] = Regular
    BY <1>0, <1>2, <1>3, <2>1 DEF IsFile, Solid
  <2> DEFINE d == LnForce(s3, <<"vmlinux", k>>)
  <2>3. /\ d \in Sound /\ d.err = s3.err
        /\ d.boot = [s3.boot EXCEPT ![Vmlinuz] = <<"vmlinux", k>>]
    BY <1>0, <1>4, CommandsSound DEF LnForce, Running, Sound, Vmlinuz
  <2>4. \A q \in Path : d.boot[q] = IF q = Vmlinuz THEN <<"vmlinux", k>> ELSE s3.boot[q]
    BY <1>4, <2>3 DEF Running, Sound, BootDir
  <2> HIDE DEF d
  <2>5. CASE host.arch = "riscv64" /\ c[<<"vmlinux", k>>] = Regular
    <3>1. s4 = d
      BY <2>2, <2>5 DEF LinkVmlinux, d
    <3>2. OfVmlinux(c, v, k, host) = <<"vmlinux", k>>
      BY <2>5 DEF OfVmlinux, ForcedLink
    <3> QED
      BY <2>3, <2>4, <3>1, <3>2
  <2>6. CASE ~(host.arch = "riscv64" /\ c[<<"vmlinux", k>>] = Regular)
    <3>1. s4 = s3
      BY <2>2, <2>6 DEF LinkVmlinux
    <3>2. OfVmlinux(c, v, k, host) = OfVmlinuz(c, v, k)
      BY <2>6 DEF OfVmlinux, ForcedLink
    <3> QED
      BY <1>4, <3>1, <3>2
  <2> QED
    BY <2>5, <2>6
<1>6. LinkKernel(st, k, lib_, host) = s4
  BY DEF LinkKernel, s1, s2, s3, s4
<1> HIDE DEF s4
<1> QED
  BY <1>0, <1>1, <1>2, <1>4, <1>5, <1>6 DEF KernelLinked

\* The remaining links: hmac, which is always made anew, and /boot/vmlinuz for the
\* images of other architectures and of Alpine.
RestLinked(r, st, c, v, w, k, host) ==
    /\ r \in Sound
    /\ r.boot[Vmlinuz] = OfRpi(c, v, k, host)
    /\ r.boot[Old] = st.boot[Old]
    /\ r.boot[Hmac] = OfHmac(c, w, k)
    /\ SolidAs(r.boot, c)
    /\ r.err = FALSE <=> /\ st.err = FALSE
                         /\ Free(w, c[<<"hmac", k>>])
                         /\ Free(OfVmlinux(c, v, k, host), c[<<"Image", k>>])
                         /\ Free(OfImageK(c, v, k, host), c[<<"vmlinuz-lts">>])
                         /\ Free(OfLts(c, v, k, host), c[<<"vmlinuz-rpi">>])

LEMMA LinkRestEffect ==
    ASSUME NEW st \in Sound, Solid(st.boot), NEW k \in Name, NEW host,
           NEW c, SolidAs(st.boot, c),
           NEW v, st.boot[Vmlinuz] = OfVmlinux(c, v, k, host),
           NEW w, w = NoLink(st.boot[Hmac])
    PROVE  RestLinked(LinkRest(st, k), st, c, v, w, k, host)
<1> USE DEF SolidAs
<1> DEFINE s1 == CleanHmac(st)
           s2 == LinkHmac(s1, k)
           s3 == LinkImage(s2, k)
           s4 == LinkAlpine(s3, <<"vmlinuz-lts">>)
           s5 == LinkAlpine(s4, <<"vmlinuz-rpi">>)
<1>0. /\ Vmlinuz \in Path \ SolidPath /\ Old \in Path /\ Hmac \in Path \ SolidPath
      /\ Old \notin SolidPath
      /\ Vmlinuz # Old /\ Vmlinuz # Hmac /\ Old # Hmac
      /\ SolidPath \subseteq Path
      /\ <<"Image", k>> \in SolidPath /\ <<"hmac", k>> \in SolidPath
      /\ <<"vmlinuz-lts">> \in SolidPath /\ <<"vmlinuz-rpi">> \in SolidPath
      /\ Absent \notin Path /\ Regular \notin Path /\ Absent # Regular
  BY SolidFacts DEF Old, Hmac, Vmlinuz
<1>1. /\ s1 \in Sound /\ s1.err = st.err
      /\ \A q \in Path : s1.boot[q] = IF q = Hmac THEN w ELSE st.boot[q]
  <2>1. s1 = IF st.boot[Hmac] \in Path THEN Rm(st, Hmac) ELSE st
    BY DEF CleanHmac, IsLink, Hmac
  <2> HIDE DEF s1
  <2>2. CASE st.boot[Hmac] \in Path
    <3>1. s1 = Rm(st, Hmac) /\ Hmac \in Path
      BY <1>0, <2>1, <2>2
    <3>2. w = Absent
      BY <2>2 DEF NoLink
    <3> QED
      BY <3>1, <3>2, RmEffect
  <2>3. CASE st.boot[Hmac] \notin Path
    BY <2>1, <2>3 DEF NoLink
  <2> QED
    BY <2>2, <2>3
<1> HIDE DEF s1
<1>2. Solid(s1.boot) /\ \A p \in SolidPath : s1.boot[p] = c[p]
  BY <1>0, <1>1 DEF Solid
<1>3. /\ s2 \in Sound
      /\ \A q \in Path : s2.boot[q] = IF q = Hmac THEN OfHmac(c, w, k) ELSE s1.boot[q]
      /\ s2.err = FALSE <=> s1.err = FALSE /\ Free(w, c[<<"hmac", k>>])
  <2>1. s2 = TryLink(s1, <<"hmac", k>>, Hmac)
    BY DEF LinkHmac, TryLink, Hmac
  <2>2. /\ s2 \in Sound
        /\ \A q \in Path : s2.boot[q] =
              IF q = Hmac THEN NewLink(s1.boot[Hmac], s1.boot[<<"hmac", k>>], <<"hmac", k>>)
              ELSE s1.boot[q]
        /\ s2.err = FALSE <=> s1.err = FALSE /\ Free(s1.boot[Hmac], s1.boot[<<"hmac", k>>])
    <3>1. s1 \in Sound /\ Solid(s1.boot) /\ <<"hmac", k>> \in SolidPath
          /\ Hmac \in Path \ SolidPath
      BY <1>0, <1>1, <1>2
    <3> HIDE DEF s2
    <3> QED
      BY <2>1, <3>1, TryLinkEffect
  <2> HIDE DEF s2
  <2> QED
    BY <1>0, <1>1, <1>2, <2>2 DEF OfHmac
<1> HIDE DEF s2
<1>4. Solid(s2.boot) /\ \A p \in SolidPath : s2.boot[p] = c[p]
  BY <1>0, <1>2, <1>3 DEF Solid
<1>5. s2.boot[Vmlinuz] = OfVmlinux(c, v, k, host)
  BY <1>0, <1>1, <1>3
<1>6. /\ s3 \in Sound
      /\ \A q \in Path : s3.boot[q] = IF q = Vmlinuz THEN OfImageK(c, v, k, host) ELSE s2.boot[q]
      /\ s3.err = FALSE
           <=> s2.err = FALSE /\ Free(OfVmlinux(c, v, k, host), c[<<"Image", k>>])
  <2>1. s3 = TryLink(s2, <<"Image", k>>, Vmlinuz)
    BY DEF LinkImage, TryLink, Vmlinuz
  <2>2. /\ s3 \in Sound
        /\ \A q \in Path : s3.boot[q] =
              IF q = Vmlinuz THEN NewLink(s2.boot[Vmlinuz], s2.boot[<<"Image", k>>], <<"Image", k>>)
              ELSE s2.boot[q]
        /\ s3.err = FALSE <=> s2.err = FALSE /\ Free(s2.boot[Vmlinuz], s2.boot[<<"Image", k>>])
    <3>1. s2 \in Sound /\ Solid(s2.boot) /\ <<"Image", k>> \in SolidPath
          /\ Vmlinuz \in Path \ SolidPath
      BY <1>0, <1>3, <1>4, <1>5
    <3> HIDE DEF s3
    <3> QED
      BY <2>1, <3>1, TryLinkEffect
  <2> HIDE DEF s3
  <2> QED
    BY <1>0, <1>3, <1>4, <1>5, <2>2 DEF OfImageK
<1> HIDE DEF s3
<1>7. Solid(s3.boot) /\ \A p \in SolidPath : s3.boot[p] = c[p]
  BY <1>0, <1>4, <1>6 DEF Solid
<1>8. /\ s4 \in Sound
      /\ \A q \in Path : s4.boot[q] = IF q = Vmlinuz THEN OfLts(c, v, k, host) ELSE s3.boot[q]
      /\ s4.err = FALSE
           <=> s3.err = FALSE /\ Free(OfImageK(c, v, k, host), c[<<"vmlinuz-lts">>])
  <2>1. s4 = TryLink(s3, <<"vmlinuz-lts">>, Vmlinuz)
    BY DEF LinkAlpine, TryLink, Vmlinuz
  <2>2. /\ s4 \in Sound
        /\ \A q \in Path : s4.boot[q] =
              IF q = Vmlinuz THEN NewLink(s3.boot[Vmlinuz], s3.boot[<<"vmlinuz-lts">>], <<"vmlinuz-lts">>)
              ELSE s3.boot[q]
        /\ s4.err = FALSE <=> s3.err = FALSE /\ Free(s3.boot[Vmlinuz], s3.boot[<<"vmlinuz-lts">>])
    <3>1. s3 \in Sound /\ Solid(s3.boot) /\ <<"vmlinuz-lts">> \in SolidPath
          /\ Vmlinuz \in Path \ SolidPath
      BY <1>0, <1>6, <1>7
    <3> HIDE DEF s4
    <3> QED
      BY <2>1, <3>1, TryLinkEffect
  <2> HIDE DEF s4
  <2> QED
    BY <1>0, <1>6, <1>7, <2>2 DEF OfLts
<1> HIDE DEF s4
<1>9. Solid(s4.boot) /\ \A p \in SolidPath : s4.boot[p] = c[p]
  BY <1>0, <1>7, <1>8 DEF Solid
<1>10. /\ s5 \in Sound
       /\ \A q \in Path : s5.boot[q] = IF q = Vmlinuz THEN OfRpi(c, v, k, host) ELSE s4.boot[q]
       /\ s5.err = FALSE
            <=> s4.err = FALSE /\ Free(OfLts(c, v, k, host), c[<<"vmlinuz-rpi">>])
  <2>1. s5 = TryLink(s4, <<"vmlinuz-rpi">>, Vmlinuz)
    BY DEF LinkAlpine, TryLink, Vmlinuz
  <2>2. /\ s5 \in Sound
        /\ \A q \in Path : s5.boot[q] =
              IF q = Vmlinuz THEN NewLink(s4.boot[Vmlinuz], s4.boot[<<"vmlinuz-rpi">>], <<"vmlinuz-rpi">>)
              ELSE s4.boot[q]
        /\ s5.err = FALSE <=> s4.err = FALSE /\ Free(s4.boot[Vmlinuz], s4.boot[<<"vmlinuz-rpi">>])
    <3>1. s4 \in Sound /\ Solid(s4.boot) /\ <<"vmlinuz-rpi">> \in SolidPath
          /\ Vmlinuz \in Path \ SolidPath
      BY <1>0, <1>8, <1>9
    <3> HIDE DEF s5
    <3> QED
      BY <2>1, <3>1, TryLinkEffect
  <2> HIDE DEF s5
  <2> QED
    BY <1>0, <1>8, <1>9, <2>2 DEF OfRpi
<1>11. LinkRest(st, k) = s5
  BY DEF LinkRest, s1, s2, s3, s4, s5
<1> HIDE DEF s5
<1>12. /\ s5.boot[Vmlinuz] = OfRpi(c, v, k, host) /\ s5.boot[Old] = st.boot[Old]
       /\ s5.boot[Hmac] = OfHmac(c, w, k) /\ \A p \in SolidPath : s5.boot[p] = c[p]
  BY <1>0, <1>1, <1>3, <1>6, <1>8, <1>9, <1>10
<1>13. s5.err = FALSE <=> /\ st.err = FALSE
                          /\ Free(w, c[<<"hmac", k>>])
                          /\ Free(OfVmlinux(c, v, k, host), c[<<"Image", k>>])
                          /\ Free(OfImageK(c, v, k, host), c[<<"vmlinuz-lts">>])
                          /\ Free(OfLts(c, v, k, host), c[<<"vmlinuz-rpi">>])
  BY <1>1, <1>3, <1>6, <1>8, <1>10
<1> QED
  BY <1>10, <1>11, <1>12, <1>13 DEF RestLinked

\* The whole step, value by value: c is what the paths that are never links settle
\* on, v and w what the clean-up leaves in /boot/vmlinuz and of the hmac link.
Stepped(r, st, c, v, w, k, host) ==
    /\ r \in Sound
    /\ SolidAs(r.boot, c)
    /\ r.boot[Vmlinuz] = OfRpi(c, v, k, host)
    /\ r.boot[Old] = IF OldFile(st.boot) THEN Absent ELSE st.boot[Old]
    /\ r.boot[Hmac] = OfHmac(c, w, k)
    /\ r.err = FALSE <=> st.err = FALSE /\ AllFree(c, v, w, k, host)

LEMMA KernelStageEffect ==
    ASSUME NEW st \in Sound, Solid(st.boot), OldSolid(st.boot),
           NEW k \in Name, NEW lib_, NEW host,
           NEW c, c = Settled(st.boot, k, lib_, host),
           NEW v, v = NoLink(st.boot[Vmlinuz]), NEW w, w = NoLink(st.boot[Hmac])
    PROVE  Stepped(KernelStage(st, k, lib_, host), st, c, v, w, k, host)
<1> DEFINE b  == st.boot
           s1 == CleanLinks(st, k, host)
           s2 == LinkKernel(s1, k, lib_, host)
           r  == LinkRest(s2, k)
<1>1. /\ s1 \in Sound /\ s1.err = st.err
      /\ s1.boot[Vmlinuz] = v
      /\ s1.boot[Old] = IF OldFile(b) THEN Absent ELSE b[Old]
      /\ s1.boot[Hmac] = b[Hmac]
      /\ \A p \in SolidPath : s1.boot[p] =
            IF p = <<"vmlinux", k>> /\ host.arch \in {"amd64", "arm64"} /\ b[p] = Regular
              THEN Absent ELSE b[p]
  BY CleanEffect
<1>2. Solid(s1.boot)
  BY CleanUnlinked DEF Unlinked
<1> HIDE DEF s1
<1>3. SolidAfterCopy(s1.boot, c, k, lib_, host)
  BY <1>1 DEF SolidAfterCopy, Settled
<1>4. KernelLinked(s2, s1, c, v, k, host)
  BY <1>1, <1>2, <1>3, LinkKernelEffect
<1> HIDE DEF s2
<1>5. s2 \in Sound /\ SolidAs(s2.boot, c) /\ s2.boot[Vmlinuz] = OfVmlinux(c, v, k, host)
  BY <1>4 DEF KernelLinked
<1>6. Solid(s2.boot)
  <2>1. \A p \in SolidPath : c[p] \notin Path
    BY <1>2, <1>3, SolidFacts DEF Solid, SolidAfterCopy
  <2> QED
    BY <1>5, <2>1 DEF Solid, SolidAs
<1>7. w = NoLink(s2.boot[Hmac])
  BY <1>1, <1>4 DEF KernelLinked
<1>8. RestLinked(r, s2, c, v, w, k, host)
  BY <1>5, <1>6, <1>7, LinkRestEffect
<1>9. KernelStage(st, k, lib_, host) = r
  BY DEF KernelStage, s1, s2
<1> HIDE DEF r
<1>10. r.boot[Old] = IF OldFile(b) THEN Absent ELSE b[Old]
  BY <1>1, <1>4, <1>8 DEF KernelLinked, RestLinked
<1>11. r.err = FALSE <=> st.err = FALSE /\ AllFree(c, v, w, k, host)
  BY <1>1, <1>4, <1>8 DEF KernelLinked, RestLinked, AllFree
<1> QED
  BY <1>8, <1>9, <1>10, <1>11 DEF Stepped, RestLinked

\* Going through the same link stages again from the link they made, now removed,
\* makes the same link, and no path is taken.
LEMMA LinksAgain ==
    ASSUME NEW c, NEW v \in {Absent, Regular}, NEW w \in {Absent, Regular},
           NEW k \in Name, NEW host, AllFree(c, v, w, k, host)
    PROVE  LET v2 == NoLink(OfRpi(c, v, k, host))
               w2 == NoLink(OfHmac(c, w, k))
           IN  /\ AllFree(c, v2, w2, k, host)
               /\ OfRpi(c, v2, k, host) = OfRpi(c, v, k, host)
               /\ OfHmac(c, w2, k) = OfHmac(c, w, k)
<1>0. /\ \A p \in SolidPath : p \in Path /\ p # Absent /\ p # Regular
      /\ Absent \notin Path /\ Regular \notin Path /\ Absent # Regular
      /\ {<<"Image">>, <<"vmlinuz", k>>, <<"vmlinux", k>>, <<"Image", k>>,
          <<"vmlinuz-lts">>, <<"vmlinuz-rpi">>, <<"hmac", k>>} \subseteq SolidPath
  BY SolidFacts
<1>1. LET w2 == NoLink(OfHmac(c, w, k))
      IN  Free(w2, c[<<"hmac", k>>]) /\ OfHmac(c, w2, k) = OfHmac(c, w, k)
  BY <1>0 DEF AllFree, OfHmac, NewLink, Free, NoLink
<1> DEFINE links(u) == /\ Free(u, c[<<"Image">>])
                       /\ Free(OfImage(c, u), c[<<"vmlinuz", k>>])
                       /\ Free(OfVmlinux(c, u, k, host), c[<<"Image", k>>])
                       /\ Free(OfImageK(c, u, k, host), c[<<"vmlinuz-lts">>])
                       /\ Free(OfLts(c, u, k, host), c[<<"vmlinuz-rpi">>])
<1>2. links(v)
  BY DEF AllFree
<1>3. CASE v = Absent
  <2>1. OfRpi(c, v, k, host) \in Path \union {Absent}
    BY <1>0, <1>3 DEF OfRpi, OfLts, OfImageK, OfVmlinux, OfVmlinuz, OfImage, NewLink, ForcedLink
  <2>2. NoLink(OfRpi(c, v, k, host)) = v
    BY <1>3, <2>1 DEF NoLink
  <2> QED
    BY <1>1, <1>2, <2>2 DEF AllFree
<1>4. CASE v = Regular
  <2>1. c[<<"Image">>] # Regular /\ c[<<"vmlinuz", k>>] # Regular
    BY <1>0, <1>2, <1>4 DEF Free, OfImage, NewLink
  <2>2. \A u \in {Absent, Regular} : OfVmlinuz(c, u, k) = u /\ OfImage(c, u) = u
    BY <2>1 DEF OfVmlinuz, OfImage, NewLink
  <2>3. OfVmlinux(c, v, k, host) # Absent
    BY <1>0, <1>4, <2>2 DEF OfVmlinux, ForcedLink
  <2>4. c[<<"Image", k>>] # Regular /\ OfImageK(c, v, k, host) = OfVmlinux(c, v, k, host)
    BY <1>2, <2>3 DEF Free, OfImageK, NewLink
  <2>5. c[<<"vmlinuz-lts">>] # Regular /\ OfLts(c, v, k, host) = OfVmlinux(c, v, k, host)
    BY <1>2, <2>3, <2>4 DEF Free, OfLts, NewLink
  <2>6. c[<<"vmlinuz-rpi">>] # Regular /\ OfRpi(c, v, k, host) = OfVmlinux(c, v, k, host)
    BY <1>2, <2>3, <2>5 DEF Free, OfRpi, NewLink
  <2> DEFINE v2 == NoLink(OfRpi(c, v, k, host))
  <2>7. v2 \in {Absent, Regular} /\ OfVmlinux(c, v2, k, host) = OfVmlinux(c, v, k, host)
    <3>1. CASE host.arch = "riscv64" /\ c[<<"vmlinux", k>>] = Regular
      BY <1>0, <2>6, <3>1 DEF OfVmlinux, ForcedLink, NoLink
    <3>2. CASE ~(host.arch = "riscv64" /\ c[<<"vmlinux", k>>] = Regular)
      BY <1>0, <1>4, <2>2, <2>6, <3>2 DEF OfVmlinux, ForcedLink, NoLink
    <3> QED
      BY <3>1, <3>2
  <2>8. OfRpi(c, v2, k, host) = OfVmlinux(c, v2, k, host)
    <3> HIDE DEF v2
    <3> QED
      BY <2>4, <2>5, <2>6 DEF OfRpi, OfLts, OfImageK, NewLink
  <2>9. links(v2)
    BY <2>1, <2>4, <2>5, <2>6 DEF Free
  <2> HIDE DEF v2
  <2>10. OfRpi(c, v2, k, host) = OfRpi(c, v, k, host)
    BY <2>6, <2>7, <2>8
  <2> QED
    BY <1>1, <2>9, <2>10 DEF AllFree, v2
<1> QED
  BY <1>3, <1>4

\* A second run of the step on what a good one left does not fail and changes
\* nothing.  The one thing it takes is that the kept link of an old kernel does not
\* lead to the name that the step copies a kernel to.
OldApart(b, k, lib_) == b[Old] \in Path => k \notin lib_

\* A layer may run the step again: with the same kernel, after a step that did not fail,
\* the step finds every link as it would make it.
THEOREM KernelStageAgain ==
    ASSUME NEW st \in Sound, Solid(st.boot), OldSolid(st.boot),
           NEW k \in Name, NEW lib_, NEW host, OldApart(st.boot, k, lib_),
           NEW r, r = KernelStage(st, k, lib_, host), NoError(st), NoError(r)
    PROVE  KernelStage(r, k, lib_, host) = r
<1> DEFINE b == st.boot
           c == Settled(b, k, lib_, host)
           v == NoLink(b[Vmlinuz])
           w == NoLink(b[Hmac])
           t == KernelStage(r, k, lib_, host)
<1>0. /\ Vmlinuz \in Path /\ Old \in Path /\ Hmac \in Path
      /\ Path = SolidPath \union {Vmlinuz, Old, Hmac}
      /\ <<"vmlinuz", k>> \in SolidPath /\ <<"vmlinux", k>> \in SolidPath
      /\ <<"vmlinuz", k>> # <<"vmlinux", k>>
      /\ Absent \notin Path /\ Regular \notin Path /\ Absent # Regular
  BY SolidFacts DEF Old, Hmac, Vmlinuz, SolidPath
<1>1. /\ r \in Sound
      /\ \A p \in SolidPath : r.boot[p] = c[p]
      /\ r.boot[Vmlinuz] = OfRpi(c, v, k, host)
      /\ r.boot[Old] = IF OldFile(b) THEN Absent ELSE b[Old]
      /\ r.boot[Hmac] = OfHmac(c, w, k)
      /\ AllFree(c, v, w, k, host)
  <2> HIDE DEF c, v, w
  <2>1. Stepped(r, st, c, v, w, k, host)
    BY KernelStageEffect DEF c, v, w
  <2> QED
    BY <2>1 DEF Stepped, SolidAs, NoError
<1>2. b \in BootDir /\ v \in {Absent, Regular} /\ w \in {Absent, Regular}
  BY <1>0 DEF Running, Sound, BootDir, NoLink
<1>3. Solid(r.boot)
  BY <1>0, <1>1 DEF Solid, Settled
<1>4. r.boot[Old] \in Path => r.boot[Old] = b[Old] /\ ~OldFile(b) /\ b[Old] \in SolidPath
  BY <1>0, <1>1 DEF OldSolid
<1>5. OldSolid(r.boot) /\ ~OldFile(r.boot)
  <2>1. CASE r.boot[Old] \in Path
    <3> DEFINE o == b[Old]
    <3>1. o \in SolidPath /\ b[o] # Regular /\ r.boot[Old] = o /\ r.boot[o] = c[o] /\ k \notin lib_
      BY <1>1, <1>4, <2>1, SolidFacts DEF OldFile, OldApart
    <3>2. c[o] # Regular
      BY <1>0, <3>1 DEF Settled
    <3> QED
      BY <1>0, <2>1, <3>1, <3>2 DEF OldSolid, OldFile
  <2>2. CASE r.boot[Old] \notin Path
    <3>1. r.boot[Old] # Regular
      BY <1>0, <1>1 DEF OldFile
    <3> QED
      BY <2>2, <3>1 DEF OldSolid, OldFile
  <2> QED
    BY <2>1, <2>2
<1>6. Settled(r.boot, k, lib_, host) = c
  BY <1>0, <1>1 DEF Settled
<1> DEFINE v2 == NoLink(r.boot[Vmlinuz])
           w2 == NoLink(r.boot[Hmac])
<1> HIDE DEF c, v, w
<1>7. /\ AllFree(c, v2, w2, k, host)
      /\ OfRpi(c, v2, k, host) = r.boot[Vmlinuz]
      /\ OfHmac(c, w2, k) = r.boot[Hmac]
  BY <1>1, <1>2, LinksAgain
<1>8. /\ t \in Sound
      /\ \A p \in SolidPath : t.boot[p] = c[p]
      /\ t.boot[Vmlinuz] = OfRpi(c, v2, k, host)
      /\ t.boot[Old] = r.boot[Old]
      /\ t.boot[Hmac] = OfHmac(c, w2, k)
      /\ t.err = FALSE <=> r.err = FALSE /\ AllFree(c, v2, w2, k, host)
  <2>1. Stepped(t, r, c, v2, w2, k, host)
    <3>1. r \in Sound
      BY <1>1
    <3> QED
      BY <1>3, <1>5, <1>6, <3>1, KernelStageEffect
  <2> QED
    BY <1>5, <2>1 DEF Stepped, SolidAs
<1> HIDE DEF t, v2, w2
<1>9. t.err = r.err
  BY <1>7, <1>8 DEF NoError
<1>10. \A p \in Path : t.boot[p] = r.boot[p]
  BY <1>0, <1>1, <1>7, <1>8
<1>11. t.boot = r.boot
  BY <1>1, <1>8, <1>10 DEF Running, Sound, BootDir
<1>12. t = r
  BY <1>1, <1>8, <1>9, <1>11 DEF Running, Sound
<1> QED
  BY <1>12 DEF t

-----------------------------------------------------------------------------
(* What makes the link.  For every kernel file the step knows a link stage,   *)
(* and the debug kernel it does not link is removed.                          *)

Linkable(k) == {<<"Image">>, <<"vmlinuz", k>>, <<"Image", k>>,
                <<"vmlinuz-lts">>, <<"vmlinuz-rpi">>}

KernelMade(b, k, lib_, host) ==
    /\ \A p \in Linkable(k) : b[p] = Regular => b[Vmlinuz] # Absent
    /\ b[<<"vmlinux", k>>] = Regular => host.arch = "riscv64" /\ b[Vmlinuz] # Absent
    /\ host.rhel /\ k \in lib_ => b[Vmlinuz] # Absent

\* A path that is taken stays taken, and a link stage that applies takes it.
LEMMA NewLinkTakes ==
    ASSUME NEW v, NEW f, NEW to \in SolidPath
    PROVE  /\ v # Absent => NewLink(v, f, to) # Absent /\ ForcedLink(v, f, to) # Absent
           /\ f = Regular => NewLink(v, f, to) # Absent /\ ForcedLink(v, f, to) # Absent
BY SolidFacts DEF NewLink, ForcedLink

\* If a kernel file the step knows is there when it ends, so is /boot/vmlinuz: every kind
\* of file has a stage that makes the link.
LEMMA WholeStageMakes ==
    ASSUME NEW st \in Sound, Solid(st.boot), OldSolid(st.boot),
           NEW k \in Name, NEW lib_, NEW host \in Host
    PROVE  KernelMade(KernelStage(st, k, lib_, host).boot, k, lib_, host)
<1> DEFINE r == KernelStage(st, k, lib_, host)
<1>1. PICK c, v, w : c = Settled(st.boot, k, lib_, host) /\ Stepped(r, st, c, v, w, k, host)
  BY KernelStageEffect
<1>2. SolidAs(r.boot, c) /\ r.boot[Vmlinuz] = OfRpi(c, v, k, host)
  BY <1>1 DEF Stepped
<1>3. {<<"Image">>, <<"vmlinuz", k>>, <<"vmlinux", k>>, <<"Image", k>>,
       <<"vmlinuz-lts">>, <<"vmlinuz-rpi">>} \subseteq SolidPath
  BY SolidFacts
<1>4. OfLts(c, v, k, host) # Absent \/ c[<<"vmlinuz-rpi">>] = Regular => OfRpi(c, v, k, host) # Absent
  BY <1>3, NewLinkTakes DEF OfRpi
<1>5. OfImageK(c, v, k, host) # Absent \/ c[<<"vmlinuz-lts">>] = Regular => OfLts(c, v, k, host) # Absent
  BY <1>3, NewLinkTakes DEF OfLts
<1>6. OfVmlinux(c, v, k, host) # Absent \/ c[<<"Image", k>>] = Regular => OfImageK(c, v, k, host) # Absent
  BY <1>3, NewLinkTakes DEF OfImageK
<1>7. \/ OfVmlinuz(c, v, k) # Absent
      \/ host.arch = "riscv64" /\ c[<<"vmlinux", k>>] = Regular
      => OfVmlinux(c, v, k, host) # Absent
  BY <1>3, NewLinkTakes DEF OfVmlinux
<1>8. OfImage(c, v) # Absent \/ c[<<"vmlinuz", k>>] = Regular => OfVmlinuz(c, v, k) # Absent
  BY <1>3, NewLinkTakes DEF OfVmlinuz
<1>9. c[<<"Image">>] = Regular => OfImage(c, v) # Absent
  BY <1>3, NewLinkTakes DEF OfImage
<1>10. host.arch = "riscv64" \/ c[<<"vmlinux", k>>] # Regular
  BY <1>1, <1>3, SolidFacts DEF Settled, Host
<1>11. host.rhel /\ k \in lib_ => c[<<"vmlinuz", k>>] = Regular
  BY <1>1, <1>3 DEF Settled
<1> HIDE DEF r
<1>12. \A p \in Linkable(k) \union {<<"vmlinux", k>>} : r.boot[p] = c[p]
  BY <1>2, <1>3 DEF SolidAs, Linkable
<1> QED
  BY <1>2, <1>4, <1>5, <1>6, <1>7, <1>8, <1>9, <1>10, <1>11, <1>12 DEF KernelMade, Linkable, r

\* What a step that did not fail is known by, whatever could have failed in it.
LEMMA KernelStageWhole ==
    ASSUME NEW st \in Running, NEW k \in Name, NEW lib_, NEW host,
           NEW r, r = KernelStage(st, k, lib_, host), NoError(r)
    PROVE  LET w == KernelStage(Whole(st), k, lib_, host)
           IN  w \in Sound /\ NoError(w) /\ r.boot = w.boot
<1> DEFINE w == KernelStage(Whole(st), k, lib_, host)
<1>1. Follows(r, w)
  BY KernelStageFollows
<1> HIDE DEF w
<1>2. r \in Running /\ w = Whole(r)
  BY <1>1 DEF Follows
<1> QED
  BY <1>2, WholeFacts DEF NoError, w

\* A kernel step that ends well has made the link, and to a file that is there: whichever
\* of its commands may fail, and whatever it finds of earlier runs, no failure of a copy, a
\* removal or a link passes for success with /boot/vmlinuz missing or dangling.
THEOREM KernelStageMakes ==
    ASSUME NEW st \in Running, Solid(st.boot), OldSolid(st.boot),
           NEW k \in Name, NEW lib_, NEW host \in Host,
           NEW r, r = KernelStage(st, k, lib_, host), NoError(r)
    PROVE  KernelMade(r.boot, k, lib_, host) /\ Target(r.boot)
<1> DEFINE u == Whole(st)
           w == KernelStage(u, k, lib_, host)
<1>1. u \in Sound /\ u.boot = st.boot
  BY WholeFacts
<1>2. r.boot = w.boot
  BY KernelStageWhole
<1> HIDE DEF u
<1>3. KernelMade(w.boot, k, lib_, host)
  BY <1>1, WholeStageMakes
<1>4. w \in Resolved
  BY <1>1, KernelStageResolves
<1> HIDE DEF w
<1> QED
  BY <1>2, <1>3, <1>4 DEF Resolved

-----------------------------------------------------------------------------
(* What a step leaves when it fails half-way: no worse links than it found.   *)

Tidy(o) == {st \in Running : /\ Solid(st.boot)
                             /\ st.boot[Vmlinuz] \in Path => st.boot[Vmlinuz] \in SolidPath
                             /\ st.boot[Old] \in {Absent, o}}

\* No command turns a file into a link, and vmlinuz.old is only ever removed.
LEMMA CommandsTidy ==
    ASSUME NEW o, NEW st \in Tidy(o), NEW to \in SolidPath, NEW p \in {Vmlinuz, Hmac},
           NEW q \in Path, NEW f \in SolidPath
    PROVE  /\ Rm(st, q) \in Tidy(o) /\ Copy(st, f) \in Tidy(o)
           /\ LnForce(st, to) \in Tidy(o) /\ Ln(st, to, p) \in Tidy(o)
<1>0. /\ st \in Running /\ Solid(st.boot) /\ st.boot[Old] \in {Absent, o}
      /\ st.boot[Vmlinuz] \in Path => st.boot[Vmlinuz] \in SolidPath
  BY DEF Tidy
<1>1. /\ Vmlinuz \in Path \ SolidPath /\ Old \in Path \ SolidPath /\ Hmac \in Path \ SolidPath
      /\ Vmlinuz # Old /\ Old # Hmac /\ SolidPath \subseteq Path
      /\ Absent \notin Path /\ Regular \notin Path
  BY SolidFacts DEF Old, Hmac, Vmlinuz
<1>2. /\ Rm(st, q) \in Running /\ Copy(st, f) \in Running
      /\ LnForce(st, to) \in Running /\ Ln(st, to, p) \in Running
  BY <1>0, <1>1, CommandTypes DEF Vmlinuz
<1>3. ASSUME NEW r \in Running,
             \/ r.boot = st.boot
             \/ r.boot = [st.boot EXCEPT ![q] = Absent]
             \/ r.boot = [st.boot EXCEPT ![f] = Regular]
             \/ r.boot = [st.boot EXCEPT ![Vmlinuz] = to]
             \/ r.boot = [st.boot EXCEPT ![Hmac] = to]
      PROVE  r \in Tidy(o)
  <2>1. st.boot \in BootDir
    BY <1>0 DEF Running
  <2>2. Solid(r.boot)
    BY <1>0, <1>1, <1>3, <2>1 DEF Solid, BootDir
  <2>3. r.boot[Vmlinuz] \in Path => r.boot[Vmlinuz] \in SolidPath
    BY <1>0, <1>1, <1>3, <2>1 DEF BootDir
  <2>4. r.boot[Old] \in {Absent, o}
    BY <1>0, <1>1, <1>3, <2>1 DEF BootDir
  <2> QED
    BY <1>3, <2>2, <2>3, <2>4 DEF Tidy
<1>4. Rm(st, q).boot \in {st.boot, [st.boot EXCEPT ![q] = Absent]}
  BY <1>0 DEF Rm, Fail, Running
<1>5. Copy(st, f).boot \in {st.boot, [st.boot EXCEPT ![f] = Regular]}
  BY <1>0 DEF Copy, Fail, Running
<1>6. LnForce(st, to).boot \in {st.boot, [st.boot EXCEPT ![Vmlinuz] = to]}
  BY <1>0 DEF LnForce, Fail, Running, Vmlinuz
<1>7. Ln(st, to, p).boot \in {st.boot, [st.boot EXCEPT ![p] = to]}
  BY <1>0 DEF Ln, Fail, Running
<1> QED
  BY <1>2, <1>3, <1>4, <1>5, <1>6, <1>7

\* So does no stage ...
LEMMA StagesTidy ==
    ASSUME NEW o, NEW st \in Tidy(o), NEW k \in Name, NEW lib_, NEW host,
           NEW p \in SolidPath
    PROVE  /\ CleanVmlinuz(st) \in Tidy(o) /\ CleanImage(st) \in Tidy(o)
           /\ CleanOld(st) \in Tidy(o) /\ CleanDebug(st, k, host) \in Tidy(o)
           /\ LinkImageFile(st) \in Tidy(o) /\ CopyLibKernel(st, k, lib_, host) \in Tidy(o)
           /\ LinkVmlinuz(st, k) \in Tidy(o) /\ LinkVmlinux(st, k, host) \in Tidy(o)
           /\ CleanHmac(st) \in Tidy(o) /\ LinkHmac(st, k) \in Tidy(o)
           /\ LinkImage(st, k) \in Tidy(o) /\ LinkAlpine(st, p) \in Tidy(o)
<1>1. /\ <<"vmlinuz">> \in Path /\ <<"vmlinuz.old">> \in Path /\ <<"hmac">> \in Path
      /\ <<"Image">> \in SolidPath /\ SolidPath \subseteq Path
      /\ <<"vmlinuz">> \in {Vmlinuz, Hmac} /\ <<"hmac">> \in {Vmlinuz, Hmac}
  BY SolidFacts DEF Vmlinuz, Hmac
<1>2. /\ <<"vmlinuz", k>> \in SolidPath /\ <<"vmlinux", k>> \in SolidPath
      /\ <<"Image", k>> \in SolidPath /\ <<"hmac", k>> \in SolidPath
  BY SolidFacts
<1>3. CleanVmlinuz(st) \in Tidy(o) /\ CleanImage(st) \in Tidy(o) /\ CleanOld(st) \in Tidy(o)
  BY <1>1, CommandsTidy DEF CleanVmlinuz, CleanImage, CleanOld
<1>4. CleanDebug(st, k, host) \in Tidy(o) /\ CopyLibKernel(st, k, lib_, host) \in Tidy(o)
  BY <1>1, <1>2, CommandsTidy DEF CleanDebug, CopyLibKernel
<1>5. LinkImageFile(st) \in Tidy(o) /\ LinkVmlinuz(st, k) \in Tidy(o)
  BY <1>1, <1>2, CommandsTidy DEF LinkImageFile, LinkVmlinuz
<1>6. LinkVmlinux(st, k, host) \in Tidy(o) /\ CleanHmac(st) \in Tidy(o)
  BY <1>1, <1>2, CommandsTidy DEF LinkVmlinux, CleanHmac
<1>7. LinkHmac(st, k) \in Tidy(o) /\ LinkImage(st, k) \in Tidy(o) /\ LinkAlpine(st, p) \in Tidy(o)
  BY <1>1, <1>2, CommandsTidy DEF LinkHmac, LinkImage, LinkAlpine
<1> QED
  BY <1>3, <1>4, <1>5, <1>6, <1>7

\* ... nor the whole step.
LEMMA KernelStageTidy ==
    ASSUME NEW o, NEW st \in Tidy(o), NEW k \in Name, NEW lib_, NEW host
    PROVE  KernelStage(st, k, lib_, host) \in Tidy(o)
<1>1. CleanLinks(st, k, host) \in Tidy(o)
  BY StagesTidy, SolidFacts DEF CleanLinks
<1>2. ASSUME NEW s \in Tidy(o) PROVE LinkKernel(s, k, lib_, host) \in Tidy(o)
  BY StagesTidy, SolidFacts DEF LinkKernel
<1>3. ASSUME NEW s \in Tidy(o) PROVE LinkRest(s, k) \in Tidy(o)
  <2> DEFINE a == LinkImage(LinkHmac(CleanHmac(s), k), k)
             b == LinkAlpine(a, <<"vmlinuz-lts">>)
  <2>1. a \in Tidy(o)
    BY StagesTidy, SolidFacts
  <2>2. b \in Tidy(o)
    BY <2>1, StagesTidy, SolidFacts
  <2> QED
    BY <2>2, StagesTidy, SolidFacts DEF LinkRest
<1> QED
  BY <1>1, <1>2, <1>3 DEF KernelStage

\* A /boot with a kernel file of its own at /boot/vmlinuz and no other.
Bare == {st \in Running : /\ st.boot[Vmlinuz] = Regular
                          /\ \A p \in SolidPath : st.boot[p] \notin Path \union {Regular}}

\* No link stage applies to it, and what is removed is a link of another name.
LEMMA StagesBare ==
    ASSUME NEW st \in Bare, NEW k \in Name, NEW host, NEW p \in SolidPath
    PROVE  /\ CleanVmlinuz(st) = st /\ CleanImage(st) = st
           /\ CleanOld(st) \in Bare /\ CleanDebug(st, k, host) = st
           /\ LinkImageFile(st) = st /\ CopyLibKernel(st, k, {}, host) = st
           /\ LinkVmlinuz(st, k) = st /\ LinkVmlinux(st, k, host) = st
           /\ CleanHmac(st) \in Bare /\ LinkHmac(st, k) = st
           /\ LinkImage(st, k) = st /\ LinkAlpine(st, p) = st
<1>0. /\ st \in Running /\ st.boot[Vmlinuz] = Regular
      /\ \A q \in SolidPath : st.boot[q] \notin Path \union {Regular}
  BY DEF Bare
<1>1. \A q \in SolidPath : ~IsLink(st.boot, q) /\ ~IsFile(st.boot, q)
  BY <1>0 DEF IsLink, IsFile
<1>2. ~IsLink(st.boot, <<"vmlinuz">>)
  BY <1>0, SolidFacts DEF IsLink, Vmlinuz
<1>3. /\ <<"Image">> \in SolidPath /\ <<"vmlinuz", k>> \in SolidPath
      /\ <<"vmlinux", k>> \in SolidPath /\ <<"Image", k>> \in SolidPath
      /\ <<"hmac", k>> \in SolidPath
  BY SolidFacts
<1>4. /\ CleanVmlinuz(st) = st /\ CleanImage(st) = st /\ CleanDebug(st, k, host) = st
      /\ LinkImageFile(st) = st /\ CopyLibKernel(st, k, {}, host) = st
      /\ LinkVmlinuz(st, k) = st /\ LinkVmlinux(st, k, host) = st
      /\ LinkHmac(st, k) = st /\ LinkImage(st, k) = st /\ LinkAlpine(st, p) = st
  BY <1>1, <1>2, <1>3 DEF CleanVmlinuz, CleanImage, CleanDebug, LinkImageFile, CopyLibKernel,
     LinkVmlinuz, LinkVmlinux, LinkHmac, LinkImage, LinkAlpine
<1>5. ASSUME NEW q \in {Old, Hmac} PROVE Rm(st, q) \in Bare
  <2>1. q \in Path /\ q # Vmlinuz /\ Absent \notin Path \union {Regular} /\ Vmlinuz \in Path
        /\ SolidPath \subseteq Path
    BY SolidFacts DEF Old, Hmac, Vmlinuz
  <2>2. Rm(st, q) \in Running
    BY <1>0, <2>1, CommandTypes DEF Vmlinuz
  <2>3. Rm(st, q).boot \in {st.boot, [st.boot EXCEPT ![q] = Absent]}
    BY <1>0 DEF Rm, Fail, Running
  <2>4. /\ Rm(st, q).boot[Vmlinuz] = Regular
        /\ \A x \in SolidPath : Rm(st, q).boot[x] \notin Path \union {Regular}
    BY <1>0, <2>1, <2>3 DEF Running, BootDir
  <2> QED
    BY <2>2, <2>4 DEF Bare
<1>6. CleanOld(st) \in Bare /\ CleanHmac(st) \in Bare
  BY <1>5 DEF CleanOld, CleanHmac, Old, Hmac
<1> QED
  BY <1>4, <1>6

\* So the step leaves alone the image Hadron comes with, also when it fails.
LEMMA KernelStageKeeps ==
    ASSUME NEW st \in Bare, NEW k \in Name, NEW host
    PROVE  KernelStage(st, k, {}, host) \in Bare
<1>1. CleanLinks(st, k, host) \in Bare
  BY StagesBare, SolidFacts DEF CleanLinks
<1>2. ASSUME NEW s \in Bare PROVE LinkKernel(s, k, {}, host) = s
  BY StagesBare, SolidFacts DEF LinkKernel
<1>3. ASSUME NEW s \in Bare PROVE LinkRest(s, k) \in Bare
  <2>1. CleanHmac(s) \in Bare
    BY StagesBare, SolidFacts
  <2>2. LinkRest(s, k) = CleanHmac(s)
    BY <2>1, StagesBare, SolidFacts DEF LinkRest
  <2> QED
    BY <2>1, <2>2
<1> QED
  BY <1>1, <1>2, <1>3 DEF KernelStage
=============================================================================
