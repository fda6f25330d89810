----------------------------- MODULE BuildWatch -----------------------------
(***************************************************************************)
(* build.go --watch: a loop that hashes the source tree, and for every     *)
(* change cancels the job at work and starts another one in a goroutine of *)
(* its own.  Jobs take turns by a mutex.                                   *)
(*                                                                         *)
(* A job changes two things the hash depends on: web/plumbing/assets.go,   *)
(* which it generates in the middle of the tree, and the directory of the  *)
(* process, which it leaves for web/assets meanwhile.  All paths of the    *)
(* hash are relative, and from there it sees no file it looks for.         *)
(*                                                                         *)
(* The extension it packs, and assets.go with it, also say what version    *)
(* `git describe' has given, which gives none under a context that is      *)
(* done.                                                                   *)
(*                                                                         *)
(* Edits of the watched files are numbered; a text never comes back.  A    *)
(* hash is the pair of what it reads of the sources and of assets.go.      *)
(***************************************************************************)
EXTENDS Naturals, FiniteSets

CONSTANTS
    Jobs,        \* goroutines; one that is over can stand for a new one
    Nobody,      \* the mutex is free
    MaxEdits,    \* bound: edits of the sources
    MaxBad,      \* bound: versions that do not compile
    MaxFaults,   \* bound: runs of sassc, extensions and runs of resemble that fail
    MaxUnlucky   \* bound: reads of the hash while a job is passing from one place to
                 \* the next, and mutexes that do not go to who has waited longest

ASSUME NobodyAssumption == Nobody \notin Jobs
ASSUME BoundsAssumption == {MaxEdits, MaxFaults, MaxUnlucky} \subseteq Nat

Versions == 1..(MaxEdits + 1)
Packages == Versions \X BOOLEAN  \* the sources, and whether their version was known
NoPackage == <<0, FALSE>>
Embedded == {<<0, NoPackage>>} \cup (Versions \X Packages)
Hashes(parts) == {<<"root", x>> : x \in parts} \cup {<<"assets">>}

VARIABLES
    quick, run,  \* the flags --quick and --run
    bad,         \* versions of the sources that do not compile
    src,         \* the version of the sources
    ext,         \* the packed extension in web/assets
    gen,         \* assets.go: the version of the sources and the extension in it
    built,       \* build/hoard: the versions of sources and assets.go in it
    cwd,         \* the directory of the process
    watcher,     \* where the loop is
    half, last,  \* the part of the hash read so far, and lastHash
    cur,         \* the job of this turn of the loop
    broken,      \* history: a command of that job has failed
    cancelled,   \* jobs whose context is done
    mu,          \* the job that holds the mutex
    described,   \* `git describe' has told it the version
    job,         \* where each job is
    ahead,       \* the jobs that wait longer than it for the mutex
    reading,     \* the sources as they were when `go build' started
    faults, unlucky

flags    == <<quick, run, bad>>
files    == <<src, ext, gen, built>>
turn     == <<watcher, half, last, cur, broken>>
counters == <<faults, unlucky>>
vars == <<flags, files, cwd, turn, cancelled, mu, described, job, ahead, reading, counters>>

Init ==
    /\ quick \in BOOLEAN /\ run \in BOOLEAN
    /\ bad \in {b \in SUBSET Versions : Cardinality(b) <= MaxBad}
    /\ src = 1 /\ ext = NoPackage /\ gen = <<0, NoPackage>> /\ built = <<0, gen>>
    /\ cwd = "root"
    /\ watcher = "hash" /\ half = <<"assets">> /\ last = <<half, half>>
    /\ cur = Nobody /\ broken = FALSE
    /\ cancelled = {} /\ mu = Nobody /\ described = FALSE
    /\ job = [j \in Jobs |-> "idle"]
    /\ ahead = [j \in Jobs |-> {}]
    /\ reading = 0
    /\ faults = 0 /\ unlucky = 0

Edit ==
    /\ src <= MaxEdits
    /\ src' = src + 1
    /\ UNCHANGED <<flags, ext, gen, built, cwd, turn, cancelled, mu, described, job, ahead,
                   reading, counters>>

-----------------------------------------------------------------------------
(* The loop.                                                               *)

\* What the hash takes from a part of the tree.
Seen(part) == IF cwd = "root" THEN <<"root", part>> ELSE <<"assets">>

Away == \E j \in Jobs : job[j] \in {"embed", "back"}

\* Where jobs stay for a short time only: in web/assets, at the end when they have been
\* cancelled, and waiting for a mutex nobody holds.
Passing ==
    \/ Away
    \/ \E j \in Jobs : job[j] = "link" /\ j \in cancelled
    \/ mu = Nobody /\ \E j \in Jobs : job[j] = "wait"

\* Reads that fall into a short time are counted.
Luck ==
    IF Passing THEN unlucky < MaxUnlucky /\ unlucky' = unlucky + 1
    ELSE UNCHANGED unlucky

HashSources(from, to) ==
    /\ watcher = from
    /\ half' = Seen(src)
    /\ watcher' = to
    /\ Luck
    /\ UNCHANGED <<flags, files, cwd, last, cur, broken, cancelled, mu, described, job,
                   ahead, reading, faults>>

FirstHash ==
    /\ watcher = "hashed"
    /\ last' = <<half, Seen(gen)>>
    /\ watcher' = "spawn"
    /\ Luck
    /\ UNCHANGED <<flags, files, cwd, half, cur, broken, cancelled, mu, described, job,
                   ahead, reading, faults>>

Spawn(j) ==
    /\ watcher = "spawn" /\ job[j] = "idle"
    /\ job' = [job EXCEPT ![j] = "wait"]
    /\ ahead' = [ahead EXCEPT ![j] = {i \in Jobs : job[i] = "wait"}]
    /\ cur' = j
    /\ broken' = FALSE
    /\ watcher' = "sleep"
    /\ UNCHANGED <<flags, files, cwd, half, last, cancelled, mu, described, reading, counters>>

Unchanged == <<half, Seen(gen)>> = last

\* Mutant of NoChange: the hash just read becomes lastHash.
Adopt ==
    /\ watcher = "polled"
    /\ last' = <<half, Seen(gen)>>
    /\ watcher' = "sleep"
    /\ Luck
    /\ UNCHANGED <<flags, files, cwd, half, cur, broken, cancelled, mu, described, job,
                   ahead, reading, faults>>

NoChange ==
    /\ watcher = "polled" /\ Unchanged
    /\ watcher' = "sleep"
    /\ Luck
    /\ UNCHANGED <<flags, files, cwd, half, last, cur, broken, cancelled, mu, described,
                   job, ahead, reading, faults>>

\* Mutant of Detect: the job at work is left alone.
DetectOnly ==
    /\ watcher = "polled" /\ ~ Unchanged
    /\ watcher' = "hash"
    /\ Luck
    /\ UNCHANGED <<flags, files, cwd, half, last, cur, broken, cancelled, mu, described,
                   job, ahead, reading, faults>>

Detect ==
    /\ watcher = "polled" /\ ~ Unchanged
    /\ cancelled' = cancelled \cup {j \in {cur} : job[j] # "idle"}
    /\ watcher' = "hash"
    /\ Luck
    /\ UNCHANGED <<flags, files, cwd, half, last, cur, broken, mu, described, job,
                   ahead, reading, faults>>

-----------------------------------------------------------------------------
(* A job: compile, then the program if --run.                              *)

Goto(j, label) == job' = [job EXCEPT ![j] = label]

\* Mutant of Free: the mutex is a copy.
FreeOrNot == mu \in Jobs \cup {Nobody}

Free == mu = Nobody

\* A mutex of Go goes to who has waited longest, but for a newcomer who comes just as
\* it is given back.  A command does not start under a context that is done, and
\* neither does `git describe'.
Lock(j) ==
    /\ job[j] = "wait" /\ Free
    /\ mu' = j
    /\ \/ ahead[j] = {} /\ UNCHANGED unlucky
       \/ ahead[j] # {} /\ unlucky < MaxUnlucky /\ unlucky' = unlucky + 1
    /\ ahead' = [i \in Jobs |-> IF i = j THEN {} ELSE ahead[i] \ {j}]
    /\ described' = (j \notin cancelled)
    /\ Goto(j, IF quick THEN "ext" ELSE "sass")
    /\ UNCHANGED <<flags, files, cwd, turn, cancelled, reading, faults>>

\* Mutant of Over: returns without unlocking.
OverLocked(j) ==
    /\ Goto(j, "idle")
    /\ cancelled' = cancelled \ {j}
    /\ reading' = 0
    /\ described' = FALSE
    /\ UNCHANGED <<mu, ahead>>

\* The job gives back the mutex, and its context with it.
Over(j) ==
    /\ Goto(j, "idle")
    /\ mu' = Nobody
    /\ cancelled' = cancelled \ {j}
    /\ reading' = 0
    /\ described' = FALSE
    /\ UNCHANGED ahead

GoesOn(j, label) == Goto(j, label) /\ UNCHANGED <<mu, described, cancelled, ahead, reading>>

Sass(j) ==
    /\ job[j] = "sass"
    /\ \/ cwd = "root" /\ j \notin cancelled /\ GoesOn(j, "ext")
       \/ (cwd # "root" \/ j \in cancelled) /\ Over(j)
    /\ UNCHANGED <<flags, files, cwd, turn, counters>>

\* The extension is packed from the tree, whatever the context says.
BuildExtension(j) ==
    /\ job[j] = "ext"
    /\ \/ cwd = "root" /\ ext' = <<src, described>> /\ GoesOn(j, "chdir")
       \/ cwd # "root" /\ Over(j) /\ UNCHANGED ext
    /\ UNCHANGED <<flags, src, gen, built, cwd, turn, counters>>

\* sassc fails, or a file of the extension cannot be read or written.
CommandFails(j) ==
    /\ job[j] \in {"sass", "ext"} /\ cwd = "root" /\ faults < MaxFaults
    /\ faults' = faults + 1
    /\ ext' \in IF job[j] = "ext" THEN {ext, NoPackage} ELSE {ext}
    /\ broken' = (broken \/ j = cur)
    /\ Over(j)
    /\ UNCHANGED <<flags, src, gen, built, cwd, watcher, half, last, cur, unlucky>>

Chdir(j) ==
    /\ job[j] = "chdir"
    /\ cwd' = "assets"
    /\ GoesOn(j, "embed")
    /\ UNCHANGED <<flags, files, turn, counters>>

Embed(j) ==
    /\ job[j] = "embed"
    /\ gen' = <<src, ext>>
    /\ GoesOn(j, "back")
    /\ UNCHANGED <<flags, src, ext, built, cwd, turn, counters>>

\* The error is returned from where the job is: in web/assets.
EmbedFails(j) ==
    /\ job[j] = "embed" /\ faults < MaxFaults
    /\ faults' = faults + 1
    /\ Over(j)
    /\ UNCHANGED <<flags, files, cwd, turn, unlucky>>

ChdirBack(j) ==
    /\ job[j] = "back"
    /\ cwd' = "root"
    /\ GoesOn(j, "link")
    /\ UNCHANGED <<flags, files, turn, counters>>

GoBuild(j) ==
    /\ job[j] = "link"
    /\ \/ /\ j \notin cancelled
          /\ reading' = src
          /\ Goto(j, "build")
          /\ UNCHANGED <<mu, described, cancelled, ahead>>
       \/ j \in cancelled /\ Over(j)
    /\ UNCHANGED <<flags, files, cwd, turn, counters>>

\* An edit during the build may be in it or not.
Built(j) ==
    /\ job[j] = "build"
    /\ \E v \in {reading, src} :
          \/ /\ v \notin bad
             /\ built' = <<v, gen>>
             /\ IF run THEN GoesOn(j, "app") ELSE Over(j)
          \/ /\ v \in bad
             /\ Over(j)
             /\ UNCHANGED built
    /\ UNCHANGED <<flags, src, ext, gen, cwd, turn, counters>>

\* The context is done: the command at work is killed.
Killed(j) ==
    /\ job[j] \in {"build", "app"} /\ j \in cancelled
    /\ Over(j)
    /\ UNCHANGED <<flags, files, cwd, turn, counters>>

\* The program ends by itself.
AppEnds(j) ==
    /\ job[j] = "app"
    /\ Over(j)
    /\ UNCHANGED <<flags, files, cwd, turn, counters>>

-----------------------------------------------------------------------------
Watch ==
    \/ HashSources("hash", "hashed")
    \/ FirstHash
    \/ \E j \in Jobs : Spawn(j)
    \/ HashSources("sleep", "polled")
    \/ NoChange
    \/ Detect

Compile(j) ==
    \/ Lock(j)
    \/ Sass(j)
    \/ BuildExtension(j)
    \/ Chdir(j)
    \/ Embed(j)
    \/ ChdirBack(j)
    \/ GoBuild(j)
    \/ Built(j)
    \/ Killed(j)

Next ==
    \/ Edit
    \/ Watch
    \/ \E j \in Jobs : Compile(j)
    \/ \E j \in Jobs : CommandFails(j)
    \/ \E j \in Jobs : EmbedFails(j)
    \/ \E j \in Jobs : AppEnds(j)

Spec == Init /\ [][Next]_vars

\* Go schedules the loop and every job, no job that has got the mutex keeps it
\* for good unless it runs the program, and commands that are killed die.
FairSpec == Spec /\ WF_vars(Watch) /\ \A j \in Jobs : WF_vars(Compile(j))

-----------------------------------------------------------------------------
(* Properties.                                                             *)

TypeOK ==
    /\ quick \in BOOLEAN /\ run \in BOOLEAN /\ bad \subseteq Versions
    /\ src \in Versions /\ ext \in {NoPackage} \cup Packages
    /\ gen \in Embedded
    /\ built \in (Versions \X Embedded) \cup {<<0, <<0, NoPackage>>>>}
    /\ cwd \in {"root", "assets"}
    /\ watcher \in {"hash", "hashed", "spawn", "sleep", "polled"}
    /\ half \in Hashes(Versions)
    /\ last \in Hashes(Versions) \X Hashes(Embedded)
    /\ cur \in Jobs \cup {Nobody}
    /\ broken \in BOOLEAN /\ described \in BOOLEAN
    /\ cancelled \subseteq {j \in Jobs : job[j] # "idle"}
    /\ mu \in Jobs \cup {Nobody}
    /\ job \in [Jobs -> {"idle", "wait", "sass", "ext", "chdir", "embed", "back",
                         "link", "build", "app"}]
    /\ mu = Nobody <=> \A j \in Jobs : job[j] \in {"idle", "wait"}
    /\ ahead \in [Jobs -> SUBSET Jobs]
    /\ reading \in {0} \cup Versions
    /\ faults \in 0..MaxFaults /\ unlucky \in 0..MaxUnlucky

\* assets.go as a job makes it that was not cancelled.
Fresh == <<src, <<src, TRUE>>>>

UpToDate == built = <<src, Fresh>>

\* A failed job has left the process in web/assets.
Wedged == cwd = "assets" /\ ~ Away

\* No change is lost between a hash and the job it starts (build.go:533-549):
\* when the tree is what the loop last saw from its root, and the job of this
\* turn has come to its end, the program is that of the sources as they are,
\* and names their version, whatever jobs that were cancelled have packed
\* meanwhile (build.go:118-123); unless a command of that very job has failed:
\* nothing is tried again before the next change.
QuietIsBuilt ==
    /\ watcher = "sleep"
    /\ cwd = "root" /\ last = <<Seen(src), Seen(gen)>>
    /\ job[cur] \in {"idle", "app"}
    => UpToDate \/ src \in bad \/ broken

\* A job that was cancelled never puts an older program in the place of a newer
\* one, however long it had to wait for its turn (build.go:537-542).
NeverOlder == [][built'[1] >= built[1]]_built

\* "watch the source tree, and re-run the compilation automatically if changes
\* are detected" (README.md:25): after the last edit the program is brought up
\* to date, though jobs make the loop see changes nobody made; unless its
\* sources do not compile, a command of the last job has failed, or embedding
\* the assets has, for that leaves the process in web/assets
\* (build.go:191-203) and the loop there.
EventuallyBuilt == <>[](UpToDate \/ src \in bad \/ broken \/ Wedged)
=============================================================================
