------------------------------- MODULE Import -------------------------------
(***************************************************************************)
(* `hoard import': the process opens the main store and a second one, and  *)
(* copies every document of the second into the main store                 *)
(* (cmd/hoard/hoard.go, storage.Copy).                                     *)
(*                                                                         *)
(* A git store is a repository that is made when it is first opened        *)
(* (gitstore.Init), in three steps of which only the last makes it one     *)
(* that can be cloned.  A transaction of a git store is a private copy     *)
(* that Commit publishes if its branch has not moved; one of a file store  *)
(* is the document itself (GitStore, DraftApi).                            *)
(*                                                                         *)
(* The process may be stopped anywhere and be started again, and a server  *)
(* may save captures in a git store that documents are imported into.      *)
(***************************************************************************)
EXTENDS Naturals, FiniteSets

CONSTANTS
    Stores,       \* places where documents are kept
    Main,         \* the one given with -docstore
    Docs,         \* document IDs
    NoDoc,        \* no document
    Attachments,  \* names under att/
    Absent,       \* no such file
    Empty,        \* a file just created or truncated
    Captures,     \* captures a server saves in the main store meanwhile
    MaxRuns       \* bound: times the import is started

ASSUME MainAssumption   == Main \in Stores
ASSUME NoDocAssumption  == NoDoc \notin Docs
ASSUME AbsentAssumption ==
    Absent # Empty /\ {Absent, Empty} \cap (Stores \cup Captures) = {}
ASSUME RunsAssumption   == MaxRuns \in Nat /\ Captures \cap (0..MaxRuns) = {}

RootFiles == {"document.bin", "meta.xml"}
Names     == RootFiles \cup Attachments
Contents  == Stores \cup Captures \cup {Empty}  \* whose version of a file it is
Trees     == [Names -> Contents \cup {Absent}]
Revisions == Captures \cup 1..MaxRuns
Root      == [revs |-> {}, tree |-> [n \in Names |-> Absent]]

\* The files of a document of store s that has those called P.
Filled(s, P) == [n \in Names |-> IF n \in P THEN s ELSE Absent]

VARIABLES
    from,     \* the store named on the command line
    kind,     \* "git" or "fs"
    repo,     \* how far the repository of a git store has come
    listed,   \* the documents a store lists
    stored,   \* what it has of each
    pc,       \* where the process is
    opening,  \* the store it is about to open or is making
    run,      \* how many times it has been started
    todo,     \* documents still to copy
    doc,      \* the one being copied
    left,     \* its files still to copy
    source,   \* the private copy of the transaction to read from
    work,     \* the private copy of the transaction to write to
    dropped,  \* history: documents whose Commit failed in this run
    captured  \* captures the server has saved

vars == <<from, kind, repo, listed, stored, pc, opening, run, todo, doc, left,
          source, work, dropped, captured>>
given == <<from, kind>>
disk  == <<repo, listed, stored>>
copy  == <<todo, doc, left, source, work>>

-----------------------------------------------------------------------------
(* What the process may find.                                              *)

\* A document that was never finalized has no document.bin; /api/new-doc leaves
\* a directory without files.
Shapes == {Names, RootFiles, {"meta.xml"}, {}}

Init ==
    \* The store is compared with -docstore as a text, so it may be the same.
    /\ from \in Stores
    /\ kind \in [Stores -> {"git", "fs"}]
    /\ repo \in [Stores -> {"none", "ready"}]
    /\ listed \in [Stores -> SUBSET Docs]
    /\ \A s \in Stores : IF kind[s] = "fs" THEN repo[s] = "none"
                                          ELSE listed[s] # {} => repo[s] = "ready"
    /\ stored \in [Stores -> [Docs -> {[revs |-> {}, tree |-> Filled(s, P)] :
                                          s \in Stores, P \in Shapes}]]
    /\ \A s \in Stores, d \in Docs :
          \E P \in Shapes :
             /\ stored[s][d].tree = Filled(s, P)
             /\ d \notin listed[s] => P = {}
             /\ d \in listed[s] /\ kind[s] = "git" => P # {}
    /\ pc = "off"
    /\ opening = Main
    /\ run = 0
    /\ todo = {} /\ left = {} /\ dropped = {} /\ captured = {}
    /\ doc = NoDoc
    /\ source = Root
    /\ work = Root

Goto(label) == pc' = label

-----------------------------------------------------------------------------
(* Opening a store: main, GetDocStore, gitstore.Init.                      *)

Start ==
    /\ pc \in {"off", "done"} /\ run < MaxRuns
    /\ run' = run + 1
    /\ dropped' = {}
    /\ opening' = Main
    /\ Goto("open target")
    /\ UNCHANGED <<given, disk, copy, captured>>

Opened ==
    \/ pc = "open target" /\ opening' = from /\ Goto("open source")
    \/ pc = "open source" /\ UNCHANGED opening /\ Goto("list")

\* Mutant of OpenStore: a repository that cannot be cloned is made once more.
OpenOrMend ==
    /\ Opened
    /\ repo' = [repo EXCEPT ![opening] = "ready"]
    /\ UNCHANGED <<given, listed, stored, run, copy, dropped, captured>>

\* PlainOpen takes any repository as it is; a file store is a path.
OpenStore ==
    /\ kind[opening] = "fs" \/ repo[opening] # "none"
    /\ Opened
    /\ UNCHANGED <<given, disk, run, copy, dropped, captured>>

\* PlainInit, the push of `main' with its first commit, and HEAD.
MakeRepository ==
    /\ kind[opening] = "git"
    /\ \/ /\ pc \in {"open target", "open source"} /\ repo[opening] = "none"
          /\ repo' = [repo EXCEPT ![opening] = "bare"]
          /\ Goto(IF pc = "open target" THEN "make target" ELSE "make source")
       \/ /\ pc \in {"make target", "make source"} /\ repo[opening] = "bare"
          /\ repo' = [repo EXCEPT ![opening] = "pushed"]
          /\ UNCHANGED pc
    /\ UNCHANGED <<given, listed, stored, opening, run, copy, dropped, captured>>

SetHead ==
    /\ repo[opening] = "pushed"
    /\ \/ pc = "make target" /\ opening' = from /\ Goto("open source")
       \/ pc = "make source" /\ UNCHANGED opening /\ Goto("list")
    /\ repo' = [repo EXCEPT ![opening] = "ready"]
    /\ UNCHANGED <<given, listed, stored, run, copy, dropped, captured>>

-----------------------------------------------------------------------------
(* Copy.                                                                   *)

\* Mutant of ListIds: the branch `main' is listed like a document.
ListBranches ==
    /\ pc = "list"
    /\ todo' = listed[from] \cup (IF kind[from] = "git" THEN {NoDoc} ELSE {})
    /\ Goto("next")
    /\ UNCHANGED <<given, disk, opening, run, doc, left, source, work, dropped, captured>>

ListIds ==
    /\ pc = "list"
    /\ todo' = listed[from]
    /\ Goto("next")
    /\ UNCHANGED <<given, disk, opening, run, doc, left, source, work, dropped, captured>>

\* GetDocument of the source, which is whole if it lists documents, ...
OpenSource(d) ==
    /\ pc = "next" /\ d \in todo
    /\ doc' = d
    /\ source' = IF kind[from] = "git" THEN stored[from][d] ELSE Root
    /\ left' = {n \in Names : n \in RootFiles \/ stored[from][d].tree[n] # Absent}
    /\ Goto("target")
    /\ UNCHANGED <<given, disk, opening, run, todo, work, dropped, captured>>

Clonable(s) == kind[s] = "fs" \/ repo[s] = "ready"

\* ... and of the target.
OpenTarget ==
    /\ pc = "target" /\ Clonable(Main)
    /\ work' = IF kind[Main] = "git" THEN stored[Main][doc] ELSE Root
    /\ Goto("copy")
    /\ UNCHANGED <<given, disk, opening, run, todo, doc, left, source, dropped, captured>>

Put(n, c) ==
    \/ /\ kind[Main] = "git"
       /\ work' = [work EXCEPT !.tree[n] = c]
       /\ UNCHANGED <<listed, stored>>
    \/ /\ kind[Main] = "fs"
       /\ stored' = [stored EXCEPT ![Main][doc].tree[n] = c]
       /\ listed' = [listed EXCEPT ![Main] = @ \cup {doc}]
       /\ UNCHANGED work

\* document.bin goes first, the attachments last.
Before(m, n) == (m = "document.bin" /\ n # m) \/ (m = "meta.xml" /\ n \in Attachments)

\* The attachments in some order of the source's.
FirstLeft(n) ==
    /\ n \in left
    /\ n = CHOOSE m \in left : \A x \in left : ~ Before(x, m)

\* WriteRootFile and WriteAttachment make an empty file,
CreateFile(n) ==
    /\ pc = "copy" /\ FirstLeft(n)
    /\ Put(n, Empty)
    /\ Goto("fill")
    /\ UNCHANGED <<given, repo, opening, run, todo, doc, left, source, dropped, captured>>

\* Mutant of Given: the two transactions are one.
GivenByTarget(n) == IF kind[from] = "git" THEN work.tree[n] ELSE stored[from][doc].tree[n]

Given(n) == IF kind[from] = "git" THEN source.tree[n] ELSE stored[from][doc].tree[n]

\* Mutant of FillFile: a file the source does not have is passed over.
FillAny(n) ==
    /\ pc = "fill" /\ FirstLeft(n)
    /\ \/ Given(n) # Absent /\ Put(n, Given(n))
       \/ Given(n) = Absent /\ UNCHANGED <<listed, stored, work>>
    /\ left' = left \ {n}
    /\ Goto("copy")
    /\ UNCHANGED <<given, repo, opening, run, todo, doc, source, dropped, captured>>

\* which is filled from the source; that file may be the very same.
FillFile(n) ==
    /\ pc = "fill" /\ FirstLeft(n) /\ Given(n) # Absent
    /\ Put(n, Given(n))
    /\ left' = left \ {n}
    /\ Goto("copy")
    /\ UNCHANGED <<given, repo, opening, run, todo, doc, source, dropped, captured>>

\* Mutant of CommitFiles: Commit comes before the attachments.
CommitRootFiles ==
    /\ pc = "copy" /\ left \cap RootFiles = {}
    /\ \/ kind[Main] = "git" /\ Goto("push")
       \/ kind[Main] = "fs" /\ Goto("copied")
    /\ work' = [work EXCEPT !.revs = @ \cup {run}]
    /\ UNCHANGED <<given, disk, opening, run, todo, doc, left, source, dropped, captured>>

\* Commit: a revision of the private copy, or nothing.
CommitFiles ==
    /\ pc = "copy" /\ left = {}
    /\ \/ kind[Main] = "git" /\ Goto("push")
       \/ kind[Main] = "fs" /\ Goto("copied")
    /\ work' = [work EXCEPT !.revs = @ \cup {run}]
    /\ UNCHANGED <<given, disk, opening, run, todo, doc, left, source, dropped, captured>>

\* Mutant of FastForward: a forced push.
Forced == run \in work.revs

FastForward == stored[Main][doc].revs \subseteq work.revs

Push ==
    /\ pc = "push" /\ FastForward
    /\ stored' = [stored EXCEPT ![Main][doc] = work]
    /\ listed' = [listed EXCEPT ![Main] = @ \cup {doc}]
    /\ Goto("copied")
    /\ UNCHANGED <<given, repo, opening, run, copy, dropped, captured>>

\* The error of a commit or a push that fails is not looked at.
CommitFails ==
    /\ pc = "push"
    /\ dropped' = dropped \cup {doc}
    /\ Goto("copied")
    /\ UNCHANGED <<given, disk, opening, run, copy, captured>>

\* The transactions are over.
Forget == doc' = NoDoc /\ source' = Root /\ work' = Root /\ left' = {}

\* Mutant of NextDocument: one whose Commit failed is tried again.
RetryDocument ==
    /\ pc = "copied"
    /\ todo' = IF doc \in dropped THEN todo ELSE todo \ {doc}
    /\ Forget
    /\ Goto("next")
    /\ UNCHANGED <<given, disk, opening, run, dropped, captured>>

NextDocument ==
    /\ pc = "copied"
    /\ todo' = todo \ {doc}
    /\ Forget
    /\ Goto("next")
    /\ UNCHANGED <<given, disk, opening, run, dropped, captured>>

Exit ==
    /\ pc = "next" /\ todo = {}
    /\ Goto("done")
    /\ UNCHANGED <<given, disk, opening, run, copy, dropped, captured>>

Ended ==
    /\ Goto("off")
    /\ todo' = {}
    /\ Forget
    /\ UNCHANGED <<given, disk, opening, run, dropped, captured>>

\* log.Fatal, for a store that cannot be cloned, or a file the source does not have.
Fatal ==
    /\ \/ pc = "target" /\ ~ Clonable(Main)
       \/ pc = "fill" /\ \E n \in left : FirstLeft(n) /\ Given(n) = Absent
    /\ Ended

\* Any other call fails, or the process is killed.
Killed == pc \notin {"off", "done"} /\ Ended

-----------------------------------------------------------------------------
\* A server saves capture k, which reuses document d or makes it.
Capture(k, d) ==
    /\ k \notin captured
    /\ kind[Main] = "git" /\ repo[Main] = "ready"
    /\ \E P \in {RootFiles, Names} :
          stored' = [stored EXCEPT ![Main][d] =
                       [revs |-> @.revs \cup {k}, tree |-> Filled(k, P)]]
    /\ listed' = [listed EXCEPT ![Main] = @ \cup {d}]
    /\ captured' = captured \cup {k}
    /\ UNCHANGED <<given, repo, pc, opening, run, copy, dropped>>

Import ==
    \/ OpenStore
    \/ MakeRepository
    \/ SetHead
    \/ ListIds
    \/ \E d \in Docs : OpenSource(d)
    \/ OpenTarget
    \/ \E n \in Names : CreateFile(n)
    \/ \E n \in Names : FillFile(n)
    \/ CommitFiles
    \/ Push
    \/ CommitFails
    \/ NextDocument
    \/ Exit
    \/ Fatal

Next ==
    \/ Start
    \/ Import
    \/ Killed
    \/ \E k \in Captures, d \in Docs : Capture(k, d)

\* The process goes on by itself.
Spec == Init /\ [][Next]_vars /\ WF_vars(Import)

-----------------------------------------------------------------------------
(* Properties.                                                             *)

TypeOK ==
    /\ from \in Stores
    /\ kind \in [Stores -> {"git", "fs"}]
    /\ repo \in [Stores -> {"none", "bare", "pushed", "ready"}]
    /\ listed \in [Stores -> SUBSET Docs]
    /\ stored \in [Stores -> [Docs -> [revs : SUBSET Revisions, tree : Trees]]]
    /\ pc \in {"off", "open target", "make target", "open source", "make source",
               "list", "next", "target", "copy", "fill", "push", "copied", "done"}
    /\ opening \in Stores
    /\ run \in 0..MaxRuns
    /\ todo \subseteq Docs /\ dropped \subseteq Docs
    /\ doc \in Docs \cup {NoDoc}
    /\ left \subseteq Names
    /\ source \in [revs : SUBSET Revisions, tree : Trees]
    /\ work \in [revs : SUBSET Revisions, tree : Trees]
    /\ captured \subseteq Captures

\* A tree that has all files of document d of the source, both root files among them.
HasAll(tree, d) ==
    /\ \A n \in Names : stored[from][d].tree[n] # Absent => tree[n] = stored[from][d].tree[n]
    /\ \A n \in RootFiles : tree[n] \notin {Absent, Empty}

\* An import that ends well has brought over every document of the source, whole, but
\* for those whose Commit failed, which nobody is told of (doc-storage.go:93-100);
\* one that meets an incomplete document never ends well.  A store imported into
\* itself is left out: if it is a file store, it is emptied, file by file.
DoneMeansImported ==
    pc = "done" /\ from # Main =>
        \A d \in listed[from] \ dropped :
            IF kind[Main] = "git" THEN run \in stored[Main][d].revs
                                  ELSE HasAll(stored[Main][d].tree, d)

\* Git store: what the import publishes of a document is all of it, wherever it was
\* stopped and started again (doc-storage.go:93-100).
PublishedWhole ==
    [][\A d \in Docs :
          run \in stored'[Main][d].revs \ stored[Main][d].revs /\ from # Main
              => HasAll(stored'[Main][d].tree, d)]_vars

\* Git store: no revision is ever lost, whoever else saves the same document
\* (gitstore.go:421-428), and none of its files becomes empty, even if the store is
\* imported into itself.
GitKeeps ==
    [][\A s \in Stores, d \in Docs :
          kind[s] = "git" =>
              /\ stored[s][d].revs \subseteq stored'[s][d].revs
              /\ \A n \in Names : stored'[s][d].tree[n] # Empty]_vars

\* A repository whose making was interrupted is taken for a whole one ever after:
\* no later start mends it, and nothing can be saved in it (gitstore.go:50-58, 147).
HalfMade(s) ==
    /\ repo[s] \in {"bare", "pushed"}
    /\ ~ (opening = s /\ pc \in {"make target", "make source"})

HalfMadeIsPermanent ==
    [][\A s \in Stores :
          HalfMade(s) => HalfMade(s)' /\ stored'[s] = stored[s]]_vars

\* An import ends, well or not: it waits for nobody, and tries nothing twice.
ImportEnds == (pc = "open target") ~> (pc \in {"off", "done"})
=============================================================================
