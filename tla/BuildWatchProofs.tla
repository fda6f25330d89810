-------------------------- MODULE BuildWatchProofs --------------------------
(***************************************************************************)
(* Proofs about BuildWatch, for any number of jobs, edits and failures.    *)
(***************************************************************************)
EXTENDS BuildWatch, TLAPS

\* A step of a job.
Work(j) == Compile(j) \/ CommandFails(j) \/ EmbedFails(j) \/ AppEnds(j)

Outside == {"idle", "wait"}
Labels  == {"idle", "wait", "sass", "ext", "chdir", "embed", "back", "link", "build", "app"}

\* The job that has the mutex is at work, and no other one is.
Mutex ==
    /\ mu # Nobody => job[mu] \notin Outside
    /\ \A j \in Jobs : job[j] \notin Outside => mu = j

\* The directory of the process is that of the job at work, unless an earlier one
\* has not come back.
Where ==
    \A j \in Jobs : /\ job[j] \in {"chdir", "link", "build", "app"} => cwd = "root"
                    /\ job[j] \in {"embed", "back"} => cwd = "assets"

\* Nothing is newer than the sources, and no build older than the program.
Ages ==
    /\ built[1] <= src
    /\ \A v \in Versions : half = <<"root", v>> \/ last[1] = <<"root", v>> => v <= src
    /\ \A j \in Jobs : job[j] = "build" => built[1] <= reading /\ reading <= src

InTurn == watcher \in {"sleep", "polled"}

\* A turn of the loop has a job.
TurnHasJob == InTurn => cur \in Jobs

\* A job has packed the extension before it embeds it, and looked at the sources
\* before it builds them.
Prepared ==
    \A j \in Jobs : /\ job[j] \in {"chdir", "embed"} => ext \in Packages
                    /\ job[j] = "build" => reading \in Versions

\* All jobs but that of this turn of the loop have been cancelled; once that one has
\* got the mutex, none of the others builds any more.
OthersCancelled ==
    /\ \A j \in Jobs : job[j] # "idle" /\ ~ (InTurn /\ j = cur) => j \in cancelled
    /\ InTurn => /\ cur \notin cancelled
                 /\ job[cur] # "wait" => \A j \in Jobs \ {cur} : job[j] # "build"

\* As the job of this turn is not cancelled, it knows the version.
TurnDescribed == InTurn /\ job[cur] \notin Outside => described

\* How far the job of this turn has come with the sources as they are.
Progress ==
    InTurn /\ last[1] = <<"root", src>> /\ ~ Wedged =>
        /\ job[cur] \in {"chdir", "embed"} => ext = <<src, TRUE>>
        /\ job[cur] \in {"back", "link", "build"} => gen = Fresh
        /\ job[cur] = "build" => reading = src
        /\ job[cur] \in {"app", "idle"} => UpToDate \/ src \in bad \/ broken

IInv == /\ TypeOK /\ Mutex /\ TurnHasJob /\ Prepared /\ Where /\ Ages
        /\ OthersCancelled /\ TurnDescribed /\ Progress

-----------------------------------------------------------------------------
(***************************************************************************)
(* Types and the mutex.                                                    *)
(***************************************************************************)

\* What a hash reads is a hash.
LEMMA SeenTyped ==
    ASSUME NEW parts, NEW x \in parts
    PROVE  Seen(x) \in Hashes(parts)
  BY DEF Seen, Hashes

\* The hash of a tree seen from its root is that of one version only.
LEMMA RootHash ==
    ASSUME NEW x, NEW y, <<"root", x>> = <<"root", y>> \/ Seen(x) = <<"root", y>>
    PROVE  x = y
  <1>1. <<"assets">> # <<"root", y>>
    OBVIOUS
  <1> QED
    BY <1>1 DEF Seen

Typed == TypeOK /\ Mutex /\ TurnHasJob /\ Prepared

\* A job that is over, wherever it was.
LEMMA OverTyped ==
    ASSUME Typed, NEW j \in Jobs, job[j] \notin Outside, Over(j)
    PROVE  /\ job' \in [Jobs -> Labels] /\ mu' = Nobody /\ reading' = 0
           /\ \A i \in Jobs : job'[i] \in Outside
           /\ cancelled' \subseteq {i \in Jobs : job'[i] # "idle"}
           /\ job'[j] = "idle" /\ \A i \in Jobs \ {j} : job'[i] = job[i]
           /\ mu = j /\ \A i \in Jobs \ {j} : job[i] \in Outside
  BY DEF Over, Goto, Typed, TypeOK, Mutex, Outside, Labels

\* A job that goes on.
LEMMA GoesOnTyped ==
    ASSUME Typed, NEW j \in Jobs, job[j] \notin Outside, NEW label \in Labels \ Outside,
           Goto(j, label), UNCHANGED <<mu, cancelled>>
    PROVE  /\ job' \in [Jobs -> Labels]
           /\ mu' = Nobody <=> \A i \in Jobs : job'[i] \in Outside
           /\ cancelled' \subseteq {i \in Jobs : job'[i] # "idle"}
           /\ Mutex'
           /\ job'[j] = label /\ \A i \in Jobs \ {j} : job'[i] = job[i]
           /\ mu = j /\ \A i \in Jobs \ {j} : job[i] \in Outside
  BY NobodyAssumption DEF Goto, Typed, TypeOK, Mutex, Outside, Labels

\* The rest of the types: what is not about the jobs.
Rest ==
    /\ quick \in BOOLEAN /\ run \in BOOLEAN /\ bad \subseteq Versions
    /\ src \in Versions /\ ext \in {NoPackage} \cup Packages
    /\ gen \in Embedded
    /\ built \in (Versions \X Embedded) \cup {<<0, <<0, NoPackage>>>>}
    /\ cwd \in {"root", "assets"}
    /\ watcher \in {"hash", "hashed", "spawn", "sleep", "polled"}
    /\ half \in Hashes(Versions)
    /\ last \in Hashes(Versions) \X Hashes(Embedded)
    /\ cur \in Jobs \cup {Nobody}
    /\ broken \in BOOLEAN /\ described \in BOOLEAN
    /\ ahead \in [Jobs -> SUBSET Jobs]
    /\ reading \in {0} \cup Versions
    /\ faults \in 0..MaxFaults /\ unlucky \in 0..MaxUnlucky
    /\ TurnHasJob

\* Where the jobs are, and the mutex with them.
JobsTyped ==
    /\ job \in [Jobs -> Labels]
    /\ mu \in Jobs \cup {Nobody}
    /\ mu = Nobody <=> \A j \in Jobs : job[j] \in Outside
    /\ cancelled \subseteq {j \in Jobs : job[j] # "idle"}
    /\ Mutex

\* The types fall into those of the jobs and the rest.
LEMMA TypedParts == Typed <=> Rest /\ JobsTyped /\ Prepared
  BY DEF Typed, TypeOK, Rest, JobsTyped, Outside, Labels

\* What every step of the loop does.
LEMMA LuckTyped ==
    ASSUME Typed, Luck
    PROVE  unlucky' \in 0..MaxUnlucky
  <1>1. MaxUnlucky \in Nat /\ unlucky \in 0..MaxUnlucky
    BY BoundsAssumption DEF Typed, TypeOK
  <1> QED
    BY <1>1 DEF Luck

\* What every step of a job at work does to where the jobs are.
LEMMA WorkTyped ==
    ASSUME Typed, NEW j \in Jobs, Work(j), ~ Lock(j)
    PROVE  /\ job[j] \notin Outside
           /\ \/ Over(j)
              \/ \E label \in Labels \ Outside : Goto(j, label) /\ UNCHANGED <<mu, cancelled>>
  BY DEF Work, Compile, Lock, Sass, BuildExtension, Chdir, Embed, ChdirBack, GoBuild, Built, Killed,
         CommandFails, EmbedFails, AppEnds, GoesOn, Outside, Labels

\* A job takes the mutex only if it is free, and who leaves it was at work.
LEMMA StepJobs ==
    ASSUME Typed, [Next]_vars
    PROVE  JobsTyped'
  <1>0. JobsTyped
    BY TypedParts
  <1>1. ASSUME NEW j \in Jobs, Work(j), ~ Lock(j)
        PROVE  JobsTyped'
    <2>1. /\ job[j] \notin Outside
          /\ \/ Over(j)
             \/ \E label \in Labels \ Outside : Goto(j, label) /\ UNCHANGED <<mu, cancelled>>
      BY <1>1, WorkTyped
    <2>2. CASE Over(j)
      BY <2>1, <2>2, OverTyped, NobodyAssumption DEF JobsTyped, Mutex
    <2>3. ASSUME NEW label \in Labels \ Outside, Goto(j, label), UNCHANGED <<mu, cancelled>>
          PROVE  JobsTyped'
      BY <1>0, <2>1, <2>3, GoesOnTyped DEF JobsTyped
    <2> QED
      BY <2>1, <2>2, <2>3
  <1>2. ASSUME NEW j \in Jobs, Lock(j) PROVE JobsTyped'
    <2>1. PICK label \in {"ext", "sass"} : job' = [job EXCEPT ![j] = label]
      BY <1>2 DEF Lock, Goto
    <2>2. mu = Nobody /\ mu' = j /\ cancelled' = cancelled /\ job[j] = "wait"
      BY <1>2 DEF Lock, Free
    <2> QED
      BY <1>0, <2>1, <2>2, NobodyAssumption DEF JobsTyped, Mutex, Outside, Labels
  <1>3. ASSUME NEW j \in Jobs, Spawn(j) PROVE JobsTyped'
    BY <1>0, <1>3, NobodyAssumption DEF Spawn, JobsTyped, Mutex, Outside, Labels
  <1>4. ASSUME UNCHANGED <<job, mu>>, cancelled' \subseteq {j \in Jobs : job[j] # "idle"}
        PROVE  JobsTyped'
    BY <1>0, <1>4 DEF JobsTyped, Mutex
  <1>5. cancelled' = cancelled => cancelled' \subseteq {j \in Jobs : job[j] # "idle"}
    BY <1>0 DEF JobsTyped
  <1>6. CASE Edit \/ HashSources("hash", "hashed") \/ FirstHash \/ HashSources("sleep", "polled")
             \/ NoChange \/ UNCHANGED vars
    BY <1>4, <1>5, <1>6 DEF Edit, HashSources, FirstHash, NoChange, vars
  <1>7. CASE Detect
    <2>1. cancelled' \subseteq {j \in Jobs : job[j] # "idle"}
      <3>1. cur \in Jobs
        BY <1>7 DEF Detect, Typed, TurnHasJob, InTurn
      <3> QED
        BY <1>0, <1>7, <3>1 DEF Detect, JobsTyped
    <2> QED
      BY <1>4, <1>7, <2>1 DEF Detect
  <1> QED
    BY <1>1, <1>2, <1>3, <1>6, <1>7 DEF Next, Watch, Work

\* The loop, the edits and what the jobs write keep their types.
LEMMA StepRest ==
    ASSUME Typed, [Next]_vars
    PROVE  Rest'
  <1>0. /\ described \in BOOLEAN /\ broken \in BOOLEAN /\ ahead \in [Jobs -> SUBSET Jobs]
        /\ Rest /\ MaxEdits \in Nat /\ MaxFaults \in Nat
        /\ Seen(src) \in Hashes(Versions) /\ Seen(gen) \in Hashes(Embedded)
        /\ src \in Versions /\ ext \in {NoPackage} \cup Packages /\ gen \in Embedded
    BY TypedParts, SeenTyped, BoundsAssumption DEF Rest
  <1>1. CASE Edit
    <2>1. src' \in Versions
      BY <1>0, <1>1 DEF Edit, Versions
    <2> QED
      BY <1>0, <1>1, <2>1 DEF Edit, Rest, flags, turn, counters, TurnHasJob, InTurn
  <1>2. ASSUME HashSources("hash", "hashed") \/ HashSources("sleep", "polled") PROVE Rest'
    <2>1. unlucky' \in 0..MaxUnlucky
      BY <1>2, LuckTyped DEF HashSources
    <2> QED
      BY <1>0, <1>2, <2>1 DEF HashSources, Rest, flags, files, TurnHasJob, InTurn
  <1>3. CASE FirstHash
    <2>1. unlucky' \in 0..MaxUnlucky
      BY <1>3, LuckTyped DEF FirstHash
    <2>2. last' \in Hashes(Versions) \X Hashes(Embedded)
      BY <1>0, <1>3 DEF FirstHash, Rest
    <2> QED
      BY <1>0, <1>3, <2>1, <2>2 DEF FirstHash, Rest, flags, files, TurnHasJob, InTurn
  <1>4. ASSUME NEW j \in Jobs, Spawn(j) PROVE Rest'
    <2>1. ahead' \in [Jobs -> SUBSET Jobs]
      BY <1>0, <1>4 DEF Spawn
    <2> QED
      BY <1>0, <1>4, <2>1 DEF Spawn, Rest, flags, files, counters, TurnHasJob, InTurn
  <1>5. CASE NoChange \/ Detect
    <2>1. unlucky' \in 0..MaxUnlucky
      BY <1>5, LuckTyped DEF NoChange, Detect
    <2> QED
      BY <1>0, <1>5, <2>1 DEF NoChange, Detect, Rest, flags, files, TurnHasJob, InTurn
  <1>6. ASSUME UNCHANGED <<flags, watcher, half, last, cur, src>>,
               UNCHANGED faults \/ faults' \in 0..MaxFaults,
               UNCHANGED unlucky \/ unlucky' \in 0..MaxUnlucky,
               broken' \in BOOLEAN, described' \in BOOLEAN, ahead' \in [Jobs -> SUBSET Jobs],
               cwd' \in {"root", "assets"}, reading' \in {0} \cup Versions,
               ext' \in {NoPackage} \cup Packages, gen' \in Embedded,
               built' \in (Versions \X Embedded) \cup {<<0, <<0, NoPackage>>>>}
        PROVE  Rest'
    BY <1>0, <1>6 DEF Rest, flags, TurnHasJob, InTurn
  <1>7. /\ cwd \in {"root", "assets"} /\ reading \in {0} \cup Versions
        /\ built \in (Versions \X Embedded) \cup {<<0, <<0, NoPackage>>>>}
    BY <1>0 DEF Rest
  <1>8. ASSUME NEW j \in Jobs, Over(j) \/ UNCHANGED <<reading, described, ahead>>
        PROVE  /\ reading' \in {0} \cup Versions /\ described' \in BOOLEAN
               /\ ahead' \in [Jobs -> SUBSET Jobs]
    BY <1>0, <1>7, <1>8 DEF Over
  <1>9. ASSUME NEW j \in Jobs, Lock(j) PROVE Rest'
    <2>1. UNCHANGED unlucky \/ unlucky' \in 0..MaxUnlucky
      <3>1. MaxUnlucky \in Nat /\ unlucky \in 0..MaxUnlucky
        BY <1>0, BoundsAssumption DEF Rest
      <3>2. UNCHANGED unlucky \/ (unlucky < MaxUnlucky /\ unlucky' = unlucky + 1)
        BY <1>9 DEF Lock
      <3> QED
        BY <3>1, <3>2
    <2>2. ahead' \in [Jobs -> SUBSET Jobs]
      BY <1>0, <1>9 DEF Lock
    <2>3. described' \in BOOLEAN
      BY <1>9 DEF Lock
    <2>4. UNCHANGED <<flags, files, cwd, turn, reading, faults>>
      BY <1>9 DEF Lock
    <2> QED
      BY <1>0, <1>6, <1>7, <2>1, <2>2, <2>3, <2>4 DEF files, turn
  <1>10. ASSUME NEW j \in Jobs, Sass(j) PROVE Rest'
    <2>1. Over(j) \/ UNCHANGED <<reading, described, ahead>>
      BY <1>10 DEF Sass, GoesOn
    <2> QED
      BY <1>0, <1>6, <1>7, <1>8, <1>10, <2>1 DEF Sass, files, turn, counters
  <1>11. ASSUME NEW j \in Jobs, BuildExtension(j) PROVE Rest'
    <2>1. Over(j) \/ UNCHANGED <<reading, described, ahead>>
      BY <1>11 DEF BuildExtension, GoesOn
    <2>2. ext' \in {NoPackage} \cup Packages
      <3>1. <<src, described>> \in Packages
        BY <1>0, Zenon DEF Packages
      <3> QED
        BY <1>0, <1>11, <3>1 DEF BuildExtension
    <2> QED
      BY <1>0, <1>6, <1>7, <1>8, <1>11, <2>1, <2>2 DEF BuildExtension, turn, counters
  <1>12. ASSUME NEW j \in Jobs, CommandFails(j) PROVE Rest'
    <2>1. faults' \in 0..MaxFaults
      BY <1>0, <1>12 DEF CommandFails, Rest
    <2>2. ext' \in {NoPackage} \cup Packages /\ broken' \in BOOLEAN
      BY <1>0, <1>12 DEF CommandFails
    <2> QED
      BY <1>0, <1>6, <1>7, <1>8, <1>12, <2>1, <2>2 DEF CommandFails
  <1>13. ASSUME NEW j \in Jobs, Chdir(j) \/ ChdirBack(j) PROVE Rest'
    BY <1>0, <1>6, <1>7, <1>8, <1>13 DEF Chdir, ChdirBack, GoesOn, files, turn, counters
  <1>14. ASSUME NEW j \in Jobs, Embed(j) PROVE Rest'
    <2>1. gen' = <<src, ext>> /\ ext \in Packages
      BY <1>14 DEF Embed, Typed, Prepared
    <2>2. gen' \in Embedded
      <3>1. <<src, ext>> \in Versions \X Packages
        BY <1>0, <2>1, Zenon
      <3> QED
        BY <2>1, <3>1 DEF Embedded
    <2> QED
      BY <1>0, <1>6, <1>7, <1>8, <1>14, <2>2 DEF Embed, GoesOn, turn, counters
  <1>15. ASSUME NEW j \in Jobs, EmbedFails(j) PROVE Rest'
    <2>1. faults' \in 0..MaxFaults
      BY <1>0, <1>15 DEF EmbedFails, Rest
    <2> QED
      BY <1>0, <1>6, <1>7, <1>8, <1>15, <2>1 DEF EmbedFails, files, turn
  <1>16. ASSUME NEW j \in Jobs, GoBuild(j) PROVE Rest'
    <2>1. /\ described' \in BOOLEAN /\ ahead' \in [Jobs -> SUBSET Jobs]
          /\ reading' \in {0} \cup Versions
      BY <1>0, <1>8, <1>16 DEF GoBuild
    <2> QED
      BY <1>0, <1>6, <1>7, <1>16, <2>1 DEF GoBuild, files, turn, counters
  <1>17. ASSUME NEW j \in Jobs, Built(j) PROVE Rest'
    <2>1. reading \in Versions
      BY <1>17 DEF Built, Typed, Prepared
    <2>2. built' \in (Versions \X Embedded) \cup {<<0, <<0, NoPackage>>>>}
      <3>1. \A v \in {reading, src} : <<v, gen>> \in Versions \X Embedded
        BY <1>0, <2>1
      <3>2. built' = built \/ \E v \in {reading, src} : built' = <<v, gen>>
        BY <1>17 DEF Built
      <3> QED
        BY <1>7, <3>1, <3>2
    <2>3. Over(j) \/ UNCHANGED <<reading, described, ahead>>
      BY <1>17 DEF Built, GoesOn
    <2>4. UNCHANGED <<flags, src, ext, gen, cwd, turn, counters>>
      BY <1>17 DEF Built
    <2> QED
      BY <1>0, <1>6, <1>7, <1>8, <2>2, <2>3, <2>4 DEF turn, counters
  <1>18. ASSUME NEW j \in Jobs, Killed(j) \/ AppEnds(j) PROVE Rest'
    BY <1>0, <1>6, <1>7, <1>8, <1>18 DEF Killed, AppEnds, files, turn, counters
  <1>19. CASE UNCHANGED vars
    BY <1>0, <1>6, <1>7, <1>19 DEF vars, files, turn, counters
  <1> QED
    BY <1>1, <1>2, <1>3, <1>4, <1>5, <1>9, <1>10, <1>11, <1>12, <1>13, <1>14, <1>15,
       <1>16, <1>17, <1>18, <1>19 DEF Next, Watch, Work, Compile

\* A job comes to embed and to build by way of what goes before.
LEMMA StepPrepared ==
    ASSUME Typed, [Next]_vars
    PROVE  Prepared'
  <1>0. Rest /\ JobsTyped /\ Prepared
    BY TypedParts
  <1>1. ASSUME NEW j \in Jobs, Over(j), job[j] \notin Outside PROVE Prepared'
    BY <1>1, OverTyped DEF Prepared, Outside
  <1>2. ASSUME NEW j \in Jobs, job[j] \notin Outside, NEW label \in Labels \ Outside,
               Goto(j, label), UNCHANGED <<mu, cancelled>>,
               label \in {"chdir", "embed"} => ext' \in Packages,
               label = "build" => reading' \in Versions
        PROVE  Prepared'
    BY <1>2, GoesOnTyped DEF Prepared, Outside
  <1>3. ASSUME UNCHANGED <<ext, reading>>,
               \A j \in Jobs : job'[j] = job[j] \/ job'[j] \notin {"chdir", "embed", "build"}
        PROVE  Prepared'
    BY <1>0, <1>3 DEF Prepared
  <1>4. ASSUME NEW j \in Jobs, Work(j), ~ Lock(j), ~ Over(j)
        PROVE  Prepared'
    <2>1. job[j] \notin Outside
      BY <1>4, WorkTyped
    <2>2. CASE Sass(j)
      BY <1>2, <1>4, <2>1, <2>2 DEF Sass, GoesOn, Labels, Outside
    <2>3. CASE BuildExtension(j)
      <3>1. <<src, described>> \in Packages
        BY <1>0, Zenon DEF Packages, Rest
      <3> QED
        BY <1>2, <1>4, <2>1, <2>3, <3>1 DEF BuildExtension, GoesOn, Labels, Outside
    <2>4. CASE Chdir(j)
      BY <1>0, <1>2, <2>1, <2>4 DEF Chdir, GoesOn, Labels, Outside, Prepared, files
    <2>5. CASE Embed(j)
      BY <1>2, <2>1, <2>5 DEF Embed, GoesOn, Labels, Outside
    <2>6. CASE ChdirBack(j)
      BY <1>2, <2>1, <2>6 DEF ChdirBack, GoesOn, Labels, Outside
    <2>7. CASE GoBuild(j)
      BY <1>0, <1>2, <1>4, <2>1, <2>7 DEF GoBuild, Labels, Outside, Rest
    <2>8. CASE Built(j)
      BY <1>2, <1>4, <2>1, <2>8 DEF Built, GoesOn, Labels, Outside
    <2> QED
      BY <1>4, <2>2, <2>3, <2>4, <2>5, <2>6, <2>7, <2>8
      DEF Work, Compile, Killed, CommandFails, EmbedFails, AppEnds
  <1>5. ASSUME NEW j \in Jobs, Lock(j) \/ Spawn(j) PROVE Prepared'
    <2>1. PICK label \in {"sass", "ext", "wait"} : job' = [job EXCEPT ![j] = label]
      BY <1>5 DEF Lock, Spawn, Goto
    <2>2. UNCHANGED <<ext, reading>>
      BY <1>5 DEF Lock, Spawn, files
    <2> QED
      BY <1>0, <1>3, <2>1, <2>2 DEF JobsTyped
  <1>6. CASE Edit \/ HashSources("hash", "hashed") \/ FirstHash \/ HashSources("sleep", "polled")
             \/ NoChange \/ Detect \/ UNCHANGED vars
    BY <1>3, <1>6 DEF Edit, HashSources, FirstHash, NoChange, Detect, vars, files
  <1>7. ASSUME NEW j \in Jobs, Work(j) PROVE Prepared'
    <2>1. CASE ~ Lock(j) /\ Over(j)
      BY <1>1, <1>7, <2>1, WorkTyped
    <2> QED
      BY <1>4, <1>5, <1>7, <2>1
  <1> QED
    BY <1>5, <1>6, <1>7 DEF Next, Watch, Work

\* Every step keeps the types, the mutex and what jobs have prepared.
LEMMA StepTyped == Typed /\ [Next]_vars => Typed'
  BY StepJobs, StepRest, StepPrepared, TypedParts
  DEF Typed, TypeOK, Rest, JobsTyped, Outside, Labels

\* Typed holds at first.
LEMMA InitTyped == Init => Typed
  <1> SUFFICES ASSUME Init PROVE Typed
    OBVIOUS
  <1>1. 1 \in Versions /\ 0 \in 0..MaxFaults /\ 0 \in 0..MaxUnlucky
    BY BoundsAssumption DEF Versions
  <1>2. /\ <<"assets">> \in Hashes(Versions) /\ <<"assets">> \in Hashes(Embedded)
        /\ <<0, NoPackage>> \in Embedded
    BY DEF Hashes, Embedded
  <1>3. Rest
    BY <1>1, <1>2 DEF Init, Rest, TurnHasJob, InTurn
  <1>4. JobsTyped /\ Prepared
    BY DEF Init, JobsTyped, Prepared, Mutex, Outside, Labels
  <1> QED
    BY <1>3, <1>4, TypedParts

-----------------------------------------------------------------------------
(***************************************************************************)
(* Directories and versions.                                               *)
(***************************************************************************)

\* Only the job at work changes the directory, so it is where that job left it.
LEMMA StepWhere ==
    ASSUME Typed, Where, [Next]_vars
    PROVE  Where'
  <1>0. JobsTyped
    BY TypedParts
  <1>1. ASSUME NEW j \in Jobs, Over(j), job[j] \notin Outside PROVE Where'
    BY <1>1, OverTyped DEF Where, Outside
  <1>2. ASSUME NEW j \in Jobs, job[j] \notin Outside, NEW label \in Labels \ Outside,
               Goto(j, label), UNCHANGED <<mu, cancelled>>,
               label \in {"chdir", "link", "build", "app"} => cwd' = "root",
               label \in {"embed", "back"} => cwd' = "assets"
        PROVE  Where'
    BY <1>2, GoesOnTyped DEF Where, Outside
  <1>3. ASSUME UNCHANGED cwd,
               \A j \in Jobs : job'[j] = job[j] \/ job'[j] \in {"idle", "wait", "sass", "ext"}
        PROVE  Where'
    BY <1>3 DEF Where
  <1>4. ASSUME NEW j \in Jobs, Work(j), ~ Lock(j), ~ Over(j)
        PROVE  Where'
    <2>1. job[j] \notin Outside
      BY <1>4, WorkTyped
    <2>2. CASE Sass(j) \/ BuildExtension(j) \/ Chdir(j) \/ ChdirBack(j)
      BY <1>2, <1>4, <2>1, <2>2
      DEF Sass, BuildExtension, Chdir, ChdirBack, GoesOn, Labels, Outside
    <2>3. CASE Embed(j) \/ GoBuild(j) \/ Built(j)
      BY <1>2, <1>4, <2>1, <2>3 DEF Embed, GoBuild, Built, GoesOn, Labels, Outside, Where
    <2> QED
      BY <1>4, <2>2, <2>3 DEF Work, Compile, Killed, CommandFails, EmbedFails, AppEnds
  <1>5. ASSUME NEW j \in Jobs, Lock(j) \/ Spawn(j) PROVE Where'
    <2>1. PICK label \in {"sass", "ext", "wait"} : job' = [job EXCEPT ![j] = label]
      BY <1>5 DEF Lock, Spawn, Goto
    <2>2. UNCHANGED cwd
      BY <1>5 DEF Lock, Spawn
    <2> QED
      BY <1>0, <1>3, <2>1, <2>2 DEF JobsTyped
  <1>6. CASE Edit \/ HashSources("hash", "hashed") \/ FirstHash \/ HashSources("sleep", "polled")
             \/ NoChange \/ Detect \/ UNCHANGED vars
    BY <1>3, <1>6 DEF Edit, HashSources, FirstHash, NoChange, Detect, vars
  <1>7. ASSUME NEW j \in Jobs, Work(j) PROVE Where'
    <2>1. CASE ~ Lock(j) /\ Over(j)
      BY <1>1, <1>7, <2>1, WorkTyped
    <2> QED
      BY <1>4, <1>5, <1>7, <2>1
  <1> QED
    BY <1>5, <1>6, <1>7 DEF Next, Watch, Work

\* The version of the sources in the program, and other versions, are numbers.
LEMMA VersionNumbers ==
    ASSUME Typed
    PROVE  /\ src \in Nat /\ src >= 1 /\ built[1] \in Nat /\ reading \in Nat
           /\ \A v \in Versions : v \in Nat
  <1>1. MaxEdits \in Nat /\ Rest
    BY BoundsAssumption, TypedParts
  <1>2. built[1] \in {0} \cup Versions
    BY <1>1 DEF Rest
  <1> QED
    BY <1>1, <1>2 DEF Rest, Versions

\* A build puts in the program the sources as they were when it started, or are.
LEMMA BuiltStep ==
    ASSUME Typed, Ages, NEW j \in Jobs, Built(j)
    PROVE  /\ built'[1] >= built[1] /\ built'[1] <= src
           /\ built' = built \/ \E v \in {reading, src} \ bad : built' = <<v, gen>>
  <1>1. job[j] = "build"
    BY DEF Built
  <1>2. built[1] <= reading /\ reading <= src /\ built[1] <= src
    BY <1>1 DEF Ages
  <1>3. built' = built \/ \E v \in {reading, src} \ bad : built' = <<v, gen>>
    BY DEF Built
  <1>4. built'[1] \in {built[1], reading, src}
    BY <1>3
  <1> QED
    BY <1>2, <1>3, <1>4, VersionNumbers

\* The program is never replaced by an older one, as nothing is newer than the sources.
LEMMA StepAges ==
    ASSUME Typed, Ages, [Next]_vars
    PROVE  Ages' /\ built'[1] >= built[1]
  <1>0. /\ src \in Nat /\ built[1] \in Nat /\ reading \in Nat
        /\ \A v \in Versions : v \in Nat
        /\ JobsTyped
    BY VersionNumbers, TypedParts
  <1>1. ASSUME UNCHANGED <<src, built, half, last>>,
               \A j \in Jobs : job'[j] = "build" =>
                  (job[j] = "build" /\ reading' = reading) \/ reading' = src
        PROVE  Ages' /\ built'[1] >= built[1]
    BY <1>0, <1>1 DEF Ages
  <1>2. ASSUME NEW j \in Jobs, Work(j), ~ Built(j)
        PROVE  Ages' /\ built'[1] >= built[1]
    <2>1. UNCHANGED <<src, built, half, last>>
      BY <1>2
      DEF Work, Compile, Lock, Sass, BuildExtension, Chdir, Embed, ChdirBack, GoBuild, Killed,
          CommandFails, EmbedFails, AppEnds, files, turn
    <2>2. CASE ~ Lock(j) /\ Over(j)
      BY <1>1, <1>2, <2>1, <2>2, WorkTyped, OverTyped DEF Outside
    <2>3. CASE Lock(j)
      <3>1. reading' = reading /\ job' = [job EXCEPT ![j] = IF quick THEN "ext" ELSE "sass"]
        BY <2>3 DEF Lock, Goto
      <3> QED
        BY <1>0, <1>1, <2>1, <3>1 DEF JobsTyped
    <2>4. CASE ~ Lock(j) /\ ~ Over(j)
      <3>1. job[j] \notin Outside
        BY <1>2, <2>4, WorkTyped
      <3>2. PICK label \in Labels \ Outside : Goto(j, label) /\ UNCHANGED <<mu, cancelled>>
        BY <1>2, <2>4, WorkTyped
      <3>3. job'[j] = label /\ \A i \in Jobs \ {j} : job'[i] = job[i] /\ job[i] \in Outside
        BY <3>1, <3>2, GoesOnTyped
      <3>4. label = "build" => reading' = src
        BY <1>0, <1>2, <2>4, <3>2
        DEF Work, Compile, Sass, BuildExtension, Chdir, Embed, ChdirBack, GoBuild, Killed,
            CommandFails, EmbedFails, AppEnds, GoesOn, Goto, JobsTyped
      <3> QED
        BY <1>1, <2>1, <3>3, <3>4 DEF Outside
    <2> QED
      BY <2>2, <2>3, <2>4
  <1>3. ASSUME NEW j \in Jobs, Built(j) PROVE Ages' /\ built'[1] >= built[1]
    <2>1. UNCHANGED <<src, half, last>> /\ job[j] = "build" /\ ~ Lock(j)
      BY <1>3 DEF Built, turn, Lock
    <2>2. \A i \in Jobs : job'[i] # "build"
      <3>1. CASE Over(j)
        BY <2>1, <3>1, OverTyped DEF Outside
      <3>2. CASE GoesOn(j, "app")
        BY <2>1, <3>2, GoesOnTyped DEF GoesOn, Outside, Labels
      <3> QED
        BY <1>3, <3>1, <3>2 DEF Built
    <2> QED
      BY <1>3, <2>1, <2>2, BuiltStep DEF Ages
  <1>4. CASE Edit
    BY <1>0, <1>4 DEF Edit, Ages, turn, files
  <1>5. ASSUME HashSources("hash", "hashed") \/ HashSources("sleep", "polled")
        PROVE  Ages' /\ built'[1] >= built[1]
    <2>1. \A v \in Versions : half' = <<"root", v>> => v = src
      BY <1>5, RootHash DEF HashSources
    <2> QED
      BY <1>0, <1>5, <2>1 DEF HashSources, Ages, files
  <1>6. CASE FirstHash
    BY <1>0, <1>6 DEF FirstHash, Ages, files
  <1>7. ASSUME NEW j \in Jobs, Spawn(j) PROVE Ages' /\ built'[1] >= built[1]
    BY <1>0, <1>1, <1>7 DEF Spawn, files, JobsTyped
  <1>8. CASE NoChange \/ Detect \/ UNCHANGED vars
    BY <1>1, <1>8 DEF NoChange, Detect, vars, files, turn
  <1> QED
    BY <1>2, <1>3, <1>4, <1>5, <1>6, <1>7, <1>8 DEF Next, Watch, Work

-----------------------------------------------------------------------------
(***************************************************************************)
(* The job of the turn, and the others.                                    *)
(***************************************************************************)

\* A new turn cancels the job of the one before; who is cancelled does not build.
LEMMA StepOthersCancelled ==
    ASSUME Typed, OthersCancelled, [Next]_vars
    PROVE  OthersCancelled'
  <1>0. JobsTyped /\ TurnHasJob
    BY TypedParts DEF Typed
  <1>1. ASSUME NEW j \in Jobs, Over(j), job[j] \notin Outside, UNCHANGED <<watcher, cur>>
        PROVE  OthersCancelled'
    <2>1. /\ job'[j] = "idle" /\ cancelled' = cancelled \ {j}
          /\ \A i \in Jobs \ {j} : job'[i] = job[i]
          /\ \A i \in Jobs : job'[i] # "build"
      BY <1>1, OverTyped DEF Over, Outside
    <2> QED
      BY <1>0, <1>1, <2>1 DEF OthersCancelled, InTurn, TurnHasJob
  <1>2. ASSUME NEW j \in Jobs, job[j] \notin Outside, NEW label \in Labels \ Outside,
               Goto(j, label), UNCHANGED <<mu, cancelled, watcher, cur>>,
               label = "build" => j \notin cancelled
        PROVE  OthersCancelled'
    <2>1. job'[j] = label /\ \A i \in Jobs \ {j} : job'[i] = job[i] /\ job[i] \in Outside
      BY <1>2, GoesOnTyped
    <2>2. job[j] # "idle" /\ label # "idle"
      BY <1>2 DEF Outside
    <2>3. \A i \in Jobs : job'[i] # "idle" => job[i] # "idle"
      BY <2>1, <2>2
    <2>4. InTurn /\ label = "build" => j = cur
      BY <1>2, <2>2 DEF OthersCancelled
    <2>5. InTurn => \A i \in Jobs \ {cur} : job'[i] # "build"
      BY <2>1, <2>4 DEF Outside
    <2>6. InTurn' = InTurn
      BY <1>2 DEF InTurn
    <2> QED
      BY <1>2, <2>3, <2>5, <2>6 DEF OthersCancelled
  <1>3. ASSUME NEW j \in Jobs, Lock(j) PROVE OthersCancelled'
    <2>1. PICK label \in {"ext", "sass"} : job' = [job EXCEPT ![j] = label]
      BY <1>3 DEF Lock, Goto
    <2>2. mu = Nobody /\ job[j] = "wait" /\ UNCHANGED <<cancelled, watcher, cur>>
      BY <1>3 DEF Lock, Free, turn
    <2>3. \A i \in Jobs : job'[i] # "build" /\ (job'[i] # "idle" => job[i] # "idle")
      BY <1>0, <2>1, <2>2 DEF JobsTyped, Outside
    <2> QED
      BY <2>2, <2>3 DEF OthersCancelled, InTurn
  <1>4. ASSUME NEW j \in Jobs, Work(j), ~ Lock(j)
        PROVE  OthersCancelled'
    <2>1. UNCHANGED <<watcher, cur>> /\ job[j] \notin Outside
      BY <1>4, WorkTyped
      DEF Work, Compile, Sass, BuildExtension, Chdir, Embed, ChdirBack, GoBuild, Built, Killed,
          CommandFails, EmbedFails, AppEnds, turn
    <2>2. CASE Over(j)
      BY <1>1, <2>1, <2>2
    <2>3. CASE ~ Over(j)
      <3>1. PICK label \in Labels \ Outside : Goto(j, label) /\ UNCHANGED <<mu, cancelled>>
        BY <1>4, <2>3, WorkTyped
      <3>2. label = "build" => j \notin cancelled
        BY <1>0, <1>4, <2>3, <3>1
        DEF Work, Compile, Sass, BuildExtension, Chdir, Embed, ChdirBack, GoBuild, Built, Killed,
            CommandFails, EmbedFails, AppEnds, GoesOn, Goto, JobsTyped
      <3> QED
        BY <1>2, <2>1, <3>1, <3>2
    <2> QED
      BY <2>2, <2>3
  <1>5. ASSUME NEW j \in Jobs, Spawn(j) PROVE OthersCancelled'
    <2>1. /\ job[j] = "idle" /\ job' = [job EXCEPT ![j] = "wait"] /\ cur' = j
          /\ cancelled' = cancelled /\ ~ InTurn /\ InTurn' /\ j \notin cancelled
      BY <1>0, <1>5 DEF Spawn, InTurn, JobsTyped
    <2>2. job'[j] = "wait" /\ \A i \in Jobs \ {j} : job'[i] = job[i]
      BY <1>0, <2>1 DEF JobsTyped
    <2> QED
      BY <2>1, <2>2 DEF OthersCancelled
  <1>6. CASE Detect
    <2>1. /\ cancelled' = cancelled \cup {j \in {cur} : job[j] # "idle"}
          /\ job' = job /\ InTurn /\ ~ InTurn' /\ cur \in Jobs
      BY <1>0, <1>6 DEF Detect, InTurn, TurnHasJob
    <2> QED
      BY <2>1 DEF OthersCancelled
  <1>7. CASE Edit \/ HashSources("hash", "hashed") \/ FirstHash \/ HashSources("sleep", "polled")
             \/ NoChange \/ UNCHANGED vars
    <2>1. UNCHANGED <<job, cancelled, cur>> /\ InTurn' = InTurn
      BY <1>7 DEF Edit, HashSources, FirstHash, NoChange, vars, turn, InTurn
    <2> QED
      BY <2>1 DEF OthersCancelled
  <1> QED
    BY <1>3, <1>4, <1>5, <1>6, <1>7 DEF Next, Watch, Work

\* Who takes the mutex and is not cancelled has the version told.
LEMMA StepTurnDescribed ==
    ASSUME Typed, OthersCancelled, TurnDescribed, [Next]_vars
    PROVE  TurnDescribed'
  <1>0. JobsTyped /\ TurnHasJob
    BY TypedParts DEF Typed
  <1>1. ASSUME NEW j \in Jobs, Work(j), ~ Lock(j) PROVE TurnDescribed'
    <2>1. UNCHANGED <<watcher, cur>> /\ job[j] \notin Outside
      BY <1>1, WorkTyped
      DEF Work, Compile, Sass, BuildExtension, Chdir, Embed, ChdirBack, GoBuild, Built, Killed,
          CommandFails, EmbedFails, AppEnds, turn
    <2>2. CASE Over(j)
      BY <1>0, <2>1, <2>2, OverTyped DEF TurnDescribed, InTurn, TurnHasJob
    <2>3. CASE ~ Over(j)
      <3>1. PICK label \in Labels \ Outside : Goto(j, label) /\ UNCHANGED <<mu, cancelled>>
        BY <1>1, <2>3, WorkTyped
      <3>2. described' = described
        BY <1>1, <2>3
        DEF Work, Compile, Sass, BuildExtension, Chdir, Embed, ChdirBack, GoBuild, Built,
            Killed, CommandFails, EmbedFails, AppEnds, GoesOn
      <3>3. \A i \in Jobs : job'[i] \notin Outside => job[i] \notin Outside
        BY <2>1, <3>1, GoesOnTyped
      <3> QED
        BY <1>0, <2>1, <3>2, <3>3 DEF TurnDescribed, InTurn, TurnHasJob
    <2> QED
      BY <2>2, <2>3
  <1>2. ASSUME NEW j \in Jobs, Lock(j) PROVE TurnDescribed'
    <2>1. /\ mu = Nobody /\ UNCHANGED <<watcher, cur>>
          /\ \A i \in Jobs \ {j} : job'[i] = job[i]
          /\ described' = (j \notin cancelled)
      BY <1>0, <1>2 DEF Lock, Free, Goto, turn, JobsTyped
    <2>2. \A i \in Jobs : job[i] \in Outside
      BY <1>0, <2>1 DEF JobsTyped
    <2> QED
      BY <1>0, <2>1, <2>2 DEF TurnDescribed, OthersCancelled, InTurn, TurnHasJob
  <1>3. ASSUME NEW j \in Jobs, Spawn(j) PROVE TurnDescribed'
    <2>1. job'[cur'] = "wait"
      BY <1>0, <1>3 DEF Spawn, JobsTyped
    <2> QED
      BY <2>1 DEF TurnDescribed, Outside
  <1>4. CASE HashSources("hash", "hashed") \/ FirstHash \/ Detect
    BY <1>4 DEF HashSources, FirstHash, Detect, TurnDescribed, InTurn
  <1>5. CASE Edit \/ HashSources("sleep", "polled") \/ NoChange \/ UNCHANGED vars
    <2>1. UNCHANGED <<job, cur, described>> /\ (InTurn' => InTurn)
      BY <1>5 DEF Edit, HashSources, NoChange, vars, turn, InTurn
    <2> QED
      BY <2>1 DEF TurnDescribed
  <1> QED
    BY <1>1, <1>2, <1>3, <1>4, <1>5 DEF Next, Watch, Work

\* A process that was left in web/assets stays there.
LEMMA StillWedged ==
    ASSUME Typed, Where, Wedged, [Next]_vars
    PROVE  Wedged'
  <1>0. JobsTyped /\ cwd = "assets" /\ \A j \in Jobs : job[j] \notin {"embed", "back"}
    BY TypedParts DEF Wedged, Away
  <1>1. ASSUME NEW j \in Jobs, Work(j), ~ Lock(j)
        PROVE  Wedged'
    <2>1. job[j] \notin {"chdir", "embed", "back", "link", "build", "app"}
      BY <1>0 DEF Where
    <2>2. Over(j) /\ cwd' = cwd
      BY <1>0, <1>1, <2>1
      DEF Work, Compile, Sass, BuildExtension, Chdir, Embed, ChdirBack, GoBuild, Built, Killed,
          CommandFails, EmbedFails, AppEnds
    <2> QED
      BY <1>0, <1>1, <2>2, WorkTyped, OverTyped DEF Wedged, Away, Outside
  <1>2. ASSUME UNCHANGED cwd, UNCHANGED job \/
               \E j \in Jobs, label \in {"sass", "ext", "wait"} : job' = [job EXCEPT ![j] = label]
        PROVE  Wedged'
    BY <1>0, <1>2 DEF Wedged, Away, JobsTyped
  <1>3. ASSUME NEW j \in Jobs, Lock(j) \/ Spawn(j) PROVE Wedged'
    BY <1>2, <1>3 DEF Lock, Spawn, Goto
  <1>4. CASE Edit \/ HashSources("hash", "hashed") \/ FirstHash \/ HashSources("sleep", "polled")
             \/ NoChange \/ Detect \/ UNCHANGED vars
    BY <1>2, <1>4 DEF Edit, HashSources, FirstHash, NoChange, Detect, vars
  <1> QED
    BY <1>1, <1>3, <1>4 DEF Next, Watch, Work

\* The directory of the job at work is not one an earlier job has left.
LEMMA AssetsAtWork ==
    ASSUME Typed, NEW j \in Jobs, job[j] \in {"sass", "ext"}, cwd # "root"
    PROVE  Wedged
  <1>1. mu = j /\ Rest /\ JobsTyped
    BY TypedParts DEF JobsTyped, Mutex, Outside
  <1>2. \A i \in Jobs : i # j => job[i] \in Outside
    BY <1>1 DEF JobsTyped, Mutex
  <1> QED
    BY <1>1, <1>2 DEF Rest, Wedged, Away, Outside

\* The job of this turn takes the sources as they are all the way to the program.
LEMMA TurnProgress ==
    ASSUME Typed, Where, OthersCancelled, TurnDescribed, Progress, InTurn,
           Work(cur), ~ Lock(cur), last[1] = <<"root", src>>, ~ Wedged, ~ Wedged'
    PROVE  /\ job'[cur] \in {"chdir", "embed"} => ext' = <<src, TRUE>>
           /\ job'[cur] \in {"back", "link", "build"} => gen' = Fresh
           /\ job'[cur] = "build" => reading' = src
           /\ job'[cur] \in {"app", "idle"} => built' = <<src, Fresh>> \/ src \in bad \/ broken'
  <1>0. /\ JobsTyped /\ cur \in Jobs /\ cur \notin cancelled
        /\ job[cur] = "ext" => described = TRUE
        /\ job[cur] \in {"chdir", "embed"} => ext = <<src, TRUE>>
        /\ job[cur] \in {"back", "link", "build"} => gen = Fresh
        /\ job[cur] = "build" => reading = src
        /\ job[cur] \in {"app", "idle"} => built = <<src, Fresh>> \/ src \in bad \/ broken
    BY TypedParts
    DEF Typed, Rest, TurnHasJob, OthersCancelled, TurnDescribed, Outside, Progress, UpToDate
  <1>1. \A label : Goto(cur, label) => job'[cur] = label
    BY <1>0 DEF Goto, JobsTyped
  <1>2. CASE Sass(cur)
    BY <1>0, <1>1, <1>2, AssetsAtWork DEF Sass, GoesOn
  <1>3. CASE BuildExtension(cur)
    BY <1>0, <1>1, <1>3, AssetsAtWork DEF BuildExtension, GoesOn
  <1>4. CASE Chdir(cur)
    BY <1>0, <1>1, <1>4 DEF Chdir, GoesOn, files
  <1>5. CASE Embed(cur)
    BY <1>0, <1>1, <1>5 DEF Embed, GoesOn, Fresh
  <1>6. CASE ChdirBack(cur)
    BY <1>0, <1>1, <1>6 DEF ChdirBack, GoesOn, files
  <1>7. CASE GoBuild(cur)
    BY <1>0, <1>1, <1>7 DEF GoBuild, files
  <1>8. CASE Built(cur)
    <2>1. gen = Fresh /\ reading = src
      BY <1>0, <1>8 DEF Built
    <2>2. job'[cur] \in {"app", "idle"}
      BY <1>1, <1>8 DEF Built, GoesOn, Over
    <2>3. built' = <<src, gen>> \/ src \in bad
      BY <1>8, <2>1 DEF Built
    <2> QED
      BY <2>1, <2>2, <2>3
  <1>9. CASE Killed(cur)
    BY <1>0, <1>9 DEF Killed
  <1>10. CASE EmbedFails(cur)
    <2>1. job[cur] = "embed" /\ cwd' = cwd /\ Over(cur)
      BY <1>10 DEF EmbedFails
    <2>2. cwd = "assets"
      BY <1>0, <2>1 DEF Where
    <2>3. Wedged'
      BY <1>0, <2>1, <2>2, OverTyped DEF Wedged, Away, Outside
    <2> QED
      BY <2>3
  <1>11. CASE AppEnds(cur)
    BY <1>0, <1>1, <1>11 DEF AppEnds, Over, files, turn
  <1>12. CASE CommandFails(cur)
    <2>1. job'[cur] = "idle" /\ broken'
      BY <1>0, <1>1, <1>12 DEF CommandFails, Over
    <2> QED
      BY <2>1
  <1> QED
    BY <1>2, <1>3, <1>4, <1>5, <1>6, <1>7, <1>8, <1>9, <1>10, <1>11, <1>12
    DEF Work, Compile

\* Each step of the job takes over the sources as they are, or an edit ends the case.
LEMMA StepProgress ==
    ASSUME Typed, Where, Ages, OthersCancelled, TurnDescribed, Progress, [Next]_vars
    PROVE  Progress'
  <1> SUFFICES ASSUME InTurn', last'[1] = <<"root", src'>>, ~ Wedged'
               PROVE  /\ job'[cur'] \in {"chdir", "embed"} => ext' = <<src', TRUE>>
                      /\ job'[cur'] \in {"back", "link", "build"} => gen' = Fresh'
                      /\ job'[cur'] = "build" => reading' = src'
                      /\ job'[cur'] \in {"app", "idle"} =>
                            built' = <<src', Fresh'>> \/ src' \in bad' \/ broken'
    BY DEF Progress, UpToDate
  <1>0. JobsTyped /\ TurnHasJob /\ ~ Wedged
    BY TypedParts, StillWedged DEF Typed
  <1>1. ASSUME InTurn, UNCHANGED <<cur, last, src, bad, broken>>,
               job'[cur] = job[cur], built' = built,
               job[cur] \in Outside \/ UNCHANGED <<ext, gen, reading>>
        PROVE  Progress'
    BY <1>0, <1>1 DEF Progress, UpToDate, Fresh, Outside
  <1>2. ASSUME NEW j \in Jobs, Work(j), ~ Lock(j)
        PROVE  Progress'
    <2>1. UNCHANGED <<cur, last, watcher, src, bad>> /\ InTurn /\ cur \in Jobs
      BY <1>0, <1>2
      DEF Work, Compile, Sass, BuildExtension, Chdir, Embed, ChdirBack, GoBuild, Built, Killed,
          CommandFails, EmbedFails, AppEnds, turn, files, flags, InTurn, TurnHasJob
    <2>4. broken \in BOOLEAN
      BY TypedParts DEF Rest
    <2>2. CASE j = cur
      BY <1>0, <1>2, <2>1, <2>2, TurnProgress DEF Progress, UpToDate, Fresh
    <2>3. CASE j # cur
      <3>1. job[j] \notin Outside /\ job[cur] \in Outside /\ job'[cur] = job[cur]
        BY <1>2, <2>1, <2>3, WorkTyped, OverTyped, GoesOnTyped
      <3>2. CASE Built(j)
        <4>1. job[cur] = "wait"
          BY <2>1, <2>3, <3>2 DEF Built, OthersCancelled
        <4> QED
          BY <2>1, <3>1, <4>1 DEF Progress
      <3>3. CASE ~ Built(j)
        <4>1. UNCHANGED <<built, broken>>
          BY <1>2, <2>3, <2>4, <3>3
          DEF Work, Compile, Sass, BuildExtension, Chdir, Embed, ChdirBack, GoBuild, Killed,
              CommandFails, EmbedFails, AppEnds, files, turn
        <4> QED
          BY <1>1, <2>1, <3>1, <4>1
      <3> QED
        BY <3>2, <3>3
    <2> QED
      BY <2>2, <2>3
  <1>3. ASSUME NEW j \in Jobs, Lock(j) PROVE Progress'
    <2>1. PICK label \in {"ext", "sass"} : job' = [job EXCEPT ![j] = label]
      BY <1>3 DEF Lock, Goto
    <2>2. /\ mu = Nobody
          /\ UNCHANGED <<cur, last, watcher, src, bad, broken, ext, gen, built, reading>>
      BY <1>3 DEF Lock, Free, turn, files, flags
    <2>3. InTurn /\ cur \in Jobs /\ job[cur] \in Outside
      BY <1>0, <2>2 DEF InTurn, TurnHasJob, JobsTyped
    <2>4. CASE j = cur
      BY <1>0, <2>1, <2>2, <2>3, <2>4 DEF Progress, JobsTyped
    <2>5. CASE j # cur
      BY <1>0, <1>1, <2>1, <2>2, <2>3, <2>5 DEF JobsTyped
    <2> QED
      BY <2>4, <2>5
  <1>4. ASSUME NEW j \in Jobs, Spawn(j) PROVE Progress'
    <2>1. job'[cur'] = "wait"
      BY <1>0, <1>4 DEF Spawn, JobsTyped
    <2> QED
      BY <2>1 DEF Progress
  <1>5. CASE Edit
    <2>1. src' = src + 1 /\ src' \in Versions /\ last' = last /\ src \in Nat
      BY <1>5, BoundsAssumption, VersionNumbers DEF Edit, turn, Versions
    <2>2. last[1] # <<"root", src'>>
      BY <2>1 DEF Ages
    <2> QED
      BY <2>1, <2>2
  <1>6. CASE HashSources("hash", "hashed") \/ FirstHash \/ Detect
    BY <1>6 DEF HashSources, FirstHash, Detect, InTurn
  <1>7. CASE HashSources("sleep", "polled") \/ NoChange \/ UNCHANGED vars
    <2>1. UNCHANGED <<cur, last, src, bad, broken, job, built, ext, gen, reading>>
      BY <1>7 DEF HashSources, NoChange, vars, flags, files, turn
    <2>2. InTurn
      <3>1. CASE HashSources("sleep", "polled") \/ NoChange
        BY <3>1 DEF HashSources, NoChange, InTurn
      <3>2. CASE UNCHANGED vars
        <4>1. watcher' = watcher
          BY <3>2 DEF vars, turn
        <4> QED
          BY <4>1 DEF InTurn
      <3> QED
        BY <1>7, <3>1, <3>2
    <2> QED
      BY <1>1, <2>1, <2>2 DEF Progress, UpToDate
  <1> QED
    BY <1>2, <1>3, <1>4, <1>5, <1>6, <1>7 DEF Next, Watch, Work, Progress, UpToDate

-----------------------------------------------------------------------------
(***************************************************************************)
(* The theorems.                                                           *)
(***************************************************************************)

\* IInv holds at first.
LEMMA InitIInv == Init => IInv
  <1> SUFFICES ASSUME Init PROVE IInv
    OBVIOUS
  <1>1. Typed
    BY InitTyped
  <1>2. Where /\ OthersCancelled /\ TurnDescribed /\ Progress
    BY DEF Init, Where, OthersCancelled, TurnDescribed, Progress, InTurn
  <1>3. <<"assets">> # <<"root", 1>> /\ \A v : <<"assets">> # <<"root", v>>
    OBVIOUS
  <1>4. Ages
    BY <1>3 DEF Init, Ages
  <1> QED
    BY <1>1, <1>2, <1>4 DEF IInv, Typed

\* Every step keeps IInv, and makes the program no older.
LEMMA StepIInv == IInv /\ [Next]_vars => IInv' /\ built'[1] >= built[1]
  BY StepTyped, StepWhere, StepAges, StepOthersCancelled, StepTurnDescribed, StepProgress
  DEF IInv, Typed

\* IInv is an invariant.
LEMMA Invariance == Spec => []IInv
  BY InitIInv, StepIInv, PTL DEF Spec

\* Type correctness of the build loop; the mutex is held exactly while a job works.
THEOREM TypeCorrect == Spec => []TypeOK
  <1>1. IInv => TypeOK
    BY DEF IInv
  <1> QED
    BY <1>1, Invariance, PTL

\* No change is lost between a hash and the job it starts (build.go:533-549).
THEOREM QuietTreeIsBuilt == Spec => []QuietIsBuilt
  <1>1. IInv => QuietIsBuilt
    <2> SUFFICES ASSUME IInv, watcher = "sleep", cwd = "root",
                        last = <<Seen(src), Seen(gen)>>, job[cur] \in {"idle", "app"}
                 PROVE  UpToDate \/ src \in bad \/ broken
      BY DEF QuietIsBuilt
    <2>1. last[1] = <<"root", src>> /\ ~ Wedged /\ InTurn
      BY DEF Seen, Wedged, InTurn
    <2> QED
      BY <2>1 DEF IInv, Progress
  <1> QED
    BY <1>1, Invariance, PTL

\* A job that was cancelled never puts an older program in the place of a newer one
\* (build.go:537-542).
THEOREM NeverAnOlderProgram == Spec => NeverOlder
  <1>1. IInv /\ [Next]_vars => [built'[1] >= built[1]]_built
    BY StepIInv
  <1> QED
    BY <1>1, Invariance, PTL DEF Spec, NeverOlder
=============================================================================
