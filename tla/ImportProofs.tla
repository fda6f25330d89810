---------------------------- MODULE ImportProofs ----------------------------
(***************************************************************************)
(* Proofs about Import, for any number of stores, documents, attachments   *)
(* and captures, and any number of runs.                                   *)
(***************************************************************************)
EXTENDS Import, TLAPS

Commits == [revs : SUBSET Revisions, tree : Trees]

\* The process has a document in hand,
Copying == {"target", "copy", "fill", "push", "copied"}

\* and a transaction to write it with.
Writing == {"copy", "fill", "push"}

InHand ==
    /\ pc \in Copying => doc \in Docs /\ doc \in todo
    /\ run = 0 => pc = "off"
    /\ pc = "push" => kind[Main] = "git"
    /\ pc \in {"push", "copied"} => left = {}

Typed == TypeOK /\ InHand

\* The files the target has of the document that is being copied.
Target == IF kind[Main] = "git" THEN work.tree ELSE stored[Main][doc].tree

\* The process does not come back to a store it has left half made.
ReposMade ==
    /\ \A s \in Stores : kind[s] = "fs" => repo[s] = "none"
    /\ pc \in Writing /\ kind[Main] = "git" => repo[Main] = "ready"

\* Only a file store that is written to has files that are not filled.
Whole(s) == s # Main \/ kind[s] = "git"

NoneEmpty ==
    /\ \A s \in Stores : Whole(s) =>
          \A d \in Docs, n \in Names : stored[s][d].tree[n] # Empty
    /\ \A n \in Names : source.tree[n] # Empty
    /\ pc \in Writing /\ kind[Main] = "git" =>
          \A n \in Names \ left : work.tree[n] # Empty

\* The transaction to read from has the source's document.
Sourced ==
    pc \in {"target", "copy", "fill"} /\ from # Main /\ kind[from] = "git" =>
        source = stored[from][doc]

\* Of file n the target has what the source has.
Has(n) ==
    /\ stored[from][doc].tree[n] # Absent => Target[n] = stored[from][doc].tree[n]
    /\ n \in RootFiles => Target[n] \notin {Absent, Empty}

\* What is not left to copy is copied, or is not there.
Copied ==
    from # Main =>
        /\ pc = "target" => \A n \in Names \ left :
              n \notin RootFiles /\ stored[from][doc].tree[n] = Absent
        /\ pc \in Writing => \A n \in Names \ left : Has(n)

\* Document d is in the target.
Brought(d) ==
    IF kind[Main] = "git" THEN run \in stored[Main][d].revs
                          ELSE HasAll(stored[Main][d].tree, d)

\* So is every document that is not left to copy, but for the dropped ones.
Imported ==
    /\ pc \in {"next", "done"} \cup Copying /\ from # Main =>
          \A d \in listed[from] \ (todo \cup dropped) : Brought(d)
    /\ pc = "push" => run \in work.revs
    /\ pc = "copied" /\ from # Main /\ doc \notin dropped => Brought(doc)
    /\ pc = "done" => todo = {}

IInv == Typed /\ ReposMade /\ NoneEmpty /\ Sourced /\ Copied /\ Imported

-----------------------------------------------------------------------------
(***************************************************************************)
(* Types, and what a write does.                                           *)
(***************************************************************************)

\* A document of a store holds that store's version of each file, or none.
LEMMA FilledTypes ==
    /\ Root \in Commits /\ Root.tree \in Trees
    /\ \A n \in Names : Root.tree[n] = Absent
    /\ \A P : \A s \in Stores \cup Captures :
          /\ Filled(s, P) \in Trees
          /\ \A n \in Names : Filled(s, P)[n] \in {s, Absent}
  BY DEF Root, Commits, Trees, Contents, Filled

\* What the types say of a document.
LEMMA DocTypes ==
    ASSUME TypeOK
    PROVE  /\ stored \in [Stores -> [Docs -> Commits]]
           /\ \A s \in Stores, d \in Docs :
                 /\ stored[s][d] \in Commits
                 /\ stored[s][d].revs \in SUBSET Revisions /\ stored[s][d].tree \in Trees
           /\ work \in Commits /\ work.revs \in SUBSET Revisions /\ work.tree \in Trees
           /\ source \in Commits /\ source.tree \in Trees
           /\ from \in Stores /\ Main \in Stores
  <1>1. stored \in [Stores -> [Docs -> Commits]] /\ work \in Commits /\ source \in Commits
    BY DEF TypeOK, Commits
  <1>2. \A v \in Commits : v.revs \in SUBSET Revisions /\ v.tree \in Trees
    BY DEF Commits
  <1>3. from \in Stores /\ Main \in Stores
    BY MainAssumption DEF TypeOK
  <1> QED
    BY <1>1, <1>2, <1>3

WithFile(tree, n, v) == [tree EXCEPT ![n] = v]

\* One file of a tree is replaced.
LEMMA FilePut ==
    ASSUME NEW tree \in Trees, NEW n \in Names, NEW v \in Contents \cup {Absent}
    PROVE  /\ WithFile(tree, n, v) \in Trees
           /\ WithFile(tree, n, v)[n] = v
           /\ \A m \in Names \ {n} : WithFile(tree, n, v)[m] = tree[m]
  BY DEF Trees, WithFile

WithDoc(docs, d, v) == [docs EXCEPT ![d] = v]

\* One document of a store is replaced.
LEMMA DocPut ==
    ASSUME NEW docs \in [Docs -> Commits], NEW d \in Docs, NEW v \in Commits
    PROVE  /\ WithDoc(docs, d, v) \in [Docs -> Commits]
           /\ WithDoc(docs, d, v)[d] = v
           /\ \A e \in Docs \ {d} : WithDoc(docs, d, v)[e] = docs[e]
  BY DEF WithDoc

\* A document of the main store is replaced by v.
LEMMA StorePut ==
    ASSUME stored \in [Stores -> [Docs -> Commits]], NEW d \in Docs, NEW v \in Commits,
           stored' = [stored EXCEPT ![Main] = WithDoc(stored[Main], d, v)]
    PROVE  /\ stored' \in [Stores -> [Docs -> Commits]]
           /\ stored'[Main][d] = v
           /\ \A e \in Docs \ {d} : stored'[Main][e] = stored[Main][e]
           /\ \A s \in Stores \ {Main} : stored'[s] = stored[s]
  <1>1. stored[Main] \in [Docs -> Commits] /\ Main \in Stores
    BY MainAssumption
  <1> DEFINE now == WithDoc(stored[Main], d, v)
  <1>2. /\ now \in [Docs -> Commits] /\ now[d] = v
        /\ \A e \in Docs \ {d} : now[e] = stored[Main][e]
    BY <1>1, DocPut
  <1>3. stored' = [stored EXCEPT ![Main] = now]
    OBVIOUS
  <1> HIDE DEF now
  <1> QED
    BY <1>1, <1>2, <1>3

\* What Put does: one file of what the target has changes.
LEMMA PutEffect ==
    ASSUME TypeOK, doc \in Docs, UNCHANGED <<kind, doc>>,
           NEW n \in Names, NEW v \in Contents \cup {Absent}, Put(n, v)
    PROVE  /\ work' \in Commits /\ stored' \in [Stores -> [Docs -> Commits]]
           /\ listed' \in [Stores -> SUBSET Docs]
           /\ work'.revs = work.revs
           /\ \A d \in Docs : stored'[Main][d].revs = stored[Main][d].revs
           /\ \A d \in Docs \ {doc} : stored'[Main][d] = stored[Main][d]
           /\ \A s \in Stores \ {Main} : stored'[s] = stored[s] /\ listed'[s] = listed[s]
           /\ kind[Main] = "git" => stored' = stored /\ listed' = listed
           /\ Target'[n] = v
           /\ \A m \in Names \ {n} : Target'[m] = Target[m]
  <1>0. /\ stored \in [Stores -> [Docs -> Commits]] /\ stored[Main][doc] \in Commits
        /\ work \in Commits /\ work.tree \in Trees /\ stored[Main][doc].tree \in Trees
    BY DocTypes
  <1>1. CASE kind[Main] = "git"
    <2>1. /\ work' = [work EXCEPT !.tree = WithFile(work.tree, n, v)]
          /\ UNCHANGED <<listed, stored>>
      BY <1>1 DEF Put, WithFile
    <2>2. /\ WithFile(work.tree, n, v) \in Trees
          /\ WithFile(work.tree, n, v)[n] = v
          /\ \A m \in Names \ {n} : WithFile(work.tree, n, v)[m] = work.tree[m]
      BY <1>0, FilePut
    <2>3. work' \in Commits /\ work'.tree = WithFile(work.tree, n, v) /\ work'.revs = work.revs
      BY <1>0, <2>1, <2>2 DEF Commits
    <2> QED
      BY <1>0, <1>1, <2>1, <2>2, <2>3 DEF Target, TypeOK
  <1>2. CASE kind[Main] # "git"
    <2> DEFINE now == [stored[Main][doc] EXCEPT !.tree =
                          WithFile(stored[Main][doc].tree, n, v)]
    <2>1. /\ stored' = [stored EXCEPT ![Main] = WithDoc(stored[Main], doc, now)]
          /\ listed' = [listed EXCEPT ![Main] = listed[Main] \cup {doc}]
          /\ work' = work
      BY <1>2 DEF Put, WithFile, WithDoc
    <2>2. /\ WithFile(stored[Main][doc].tree, n, v) \in Trees
          /\ WithFile(stored[Main][doc].tree, n, v)[n] = v
          /\ \A m \in Names \ {n} :
                WithFile(stored[Main][doc].tree, n, v)[m] = stored[Main][doc].tree[m]
      BY <1>0, FilePut
    <2>3. /\ now \in Commits /\ now.revs = stored[Main][doc].revs
          /\ now.tree = WithFile(stored[Main][doc].tree, n, v)
      BY <1>0, <2>2 DEF Commits
    <2> HIDE DEF now
    <2>4. /\ stored' \in [Stores -> [Docs -> Commits]]
          /\ stored'[Main][doc] = now
          /\ \A e \in Docs \ {doc} : stored'[Main][e] = stored[Main][e]
          /\ \A s \in Stores \ {Main} : stored'[s] = stored[s]
      BY <1>0, <2>1, <2>3, StorePut
    <2>5. /\ listed' \in [Stores -> SUBSET Docs]
          /\ \A s \in Stores \ {Main} : listed'[s] = listed[s]
      BY <2>1, MainAssumption DEF TypeOK
    <2>6. Target = stored[Main][doc].tree /\ Target' = now.tree
      BY <1>2, <2>4 DEF Target
    <2>7. \A d \in Docs : stored'[Main][d].revs = stored[Main][d].revs
      BY <2>3, <2>4
    <2> QED
      BY <1>0, <1>2, <2>1, <2>2, <2>3, <2>4, <2>5, <2>6, <2>7
  <1> QED
    BY <1>1, <1>2

\* What the source has of a file.
LEMMA GivenTypes ==
    ASSUME TypeOK, doc \in Docs, NEW n \in Names
    PROVE  Given(n) \in Contents \cup {Absent}
  <1>1. \A t \in Trees : t[n] \in Contents \cup {Absent}
    BY DEF Trees
  <1> QED
    BY <1>1, DocTypes DEF Given

\* The first file that is left is left.
LEMMA FirstIsLeft == \A n : FirstLeft(n) => n \in left
  BY DEF FirstLeft

\* What a step on a file of the target does.
LEMMA FileStep ==
    ASSUME Typed, NEW n \in Names, CreateFile(n) \/ FillFile(n)
    PROVE  /\ pc \in {"copy", "fill"} /\ pc' \in {"copy", "fill"}
           /\ doc \in Docs /\ n \in left
           /\ UNCHANGED <<from, kind, repo, opening, run, todo, doc, source, dropped, captured>>
           /\ \E v \in Contents \cup {Absent} :
                 /\ Put(n, v)
                 /\ \/ v = Empty /\ left' = left
                    \/ v = Given(n) /\ v # Absent /\ left' = left \ {n}
  <1>1. doc \in Docs /\ TypeOK
    BY DEF Typed, InHand, CreateFile, FillFile, Copying
  <1>2. CASE CreateFile(n)
    BY <1>1, <1>2, FirstIsLeft DEF CreateFile, given, Goto, Contents
  <1>3. CASE FillFile(n)
    BY <1>1, <1>3, FirstIsLeft, GivenTypes DEF FillFile, given, Goto
  <1> QED
    BY <1>2, <1>3

\* What a capture of the server does.
LEMMA CaptureStep ==
    ASSUME Typed, NEW k \in Captures, NEW d \in Docs, Capture(k, d)
    PROVE  /\ kind[Main] = "git" /\ repo[Main] = "ready"
           /\ UNCHANGED <<from, kind, repo, pc, opening, run, todo, doc, left, source, work,
                          dropped>>
           /\ captured' \subseteq Captures
           /\ stored' \in [Stores -> [Docs -> Commits]]
           /\ listed' \in [Stores -> SUBSET Docs]
           /\ \A s \in Stores \ {Main} : stored'[s] = stored[s] /\ listed'[s] = listed[s]
           /\ \A e \in Docs : stored'[Main][e].revs \subseteq stored[Main][e].revs \cup {k}
           /\ \A e \in Docs : stored[Main][e].revs \subseteq stored'[Main][e].revs
           /\ \A e \in Docs, n \in Names :
                 stored'[Main][e].tree[n] \in {stored[Main][e].tree[n], k, Absent}
  <1>1. PICK P \in {RootFiles, Names} :
            stored' = [stored EXCEPT ![Main][d] =
                          [revs |-> @.revs \cup {k}, tree |-> Filled(k, P)]]
    BY DEF Capture
  <1> DEFINE now == [revs |-> stored[Main][d].revs \cup {k}, tree |-> Filled(k, P)]
  <1>2. stored' = [stored EXCEPT ![Main] = WithDoc(stored[Main], d, now)]
    BY <1>1 DEF WithDoc
  <1>3. stored \in [Stores -> [Docs -> Commits]] /\ stored[Main][d] \in Commits
    BY DocTypes DEF Typed
  <1>4. /\ now \in Commits /\ now.revs = stored[Main][d].revs \cup {k}
        /\ \A n \in Names : now.tree[n] \in {k, Absent}
    <2>1. stored[Main][d].revs \cup {k} \in SUBSET Revisions
      BY DocTypes DEF Typed, Revisions
    <2>2. Filled(k, P) \in Trees /\ \A n \in Names : Filled(k, P)[n] \in {k, Absent}
      BY FilledTypes
    <2> QED
      BY <2>1, <2>2 DEF Commits
  <1> HIDE DEF now
  <1>5. /\ stored' \in [Stores -> [Docs -> Commits]]
        /\ stored'[Main][d] = now
        /\ \A e \in Docs \ {d} : stored'[Main][e] = stored[Main][e]
        /\ \A s \in Stores \ {Main} : stored'[s] = stored[s]
    BY <1>2, <1>3, <1>4, StorePut
  <1>6. /\ listed' \in [Stores -> SUBSET Docs]
        /\ \A s \in Stores \ {Main} : listed'[s] = listed[s]
        /\ captured' \subseteq Captures
    BY MainAssumption, ZenonT(30) DEF Capture, Typed, TypeOK
  <1> QED
    BY <1>4, <1>5, <1>6 DEF Capture, given, copy

\* What the push does: the private copy is the document now.
LEMMA PushStep ==
    ASSUME Typed, Push
    PROVE  /\ doc \in Docs /\ kind[Main] = "git" /\ pc' = "copied"
           /\ UNCHANGED <<from, kind, repo, opening, run, todo, doc, left, source, work,
                          dropped, captured>>
           /\ stored' \in [Stores -> [Docs -> Commits]]
           /\ listed' \in [Stores -> SUBSET Docs]
           /\ \A s \in Stores \ {Main} : stored'[s] = stored[s] /\ listed'[s] = listed[s]
           /\ stored'[Main][doc] = work /\ stored[Main][doc].revs \subseteq work.revs
           /\ \A d \in Docs \ {doc} : stored'[Main][d] = stored[Main][d]
  <1>1. doc \in Docs /\ kind[Main] = "git"
    BY DEF Typed, InHand, Push, Copying
  <1>2. stored' = [stored EXCEPT ![Main] = WithDoc(stored[Main], doc, work)]
    BY DEF Push, WithDoc
  <1>3. stored \in [Stores -> [Docs -> Commits]] /\ work \in Commits
    BY DEF Typed, TypeOK, Commits
  <1>4. /\ stored' \in [Stores -> [Docs -> Commits]]
        /\ stored'[Main][doc] = work
        /\ \A d \in Docs \ {doc} : stored'[Main][d] = stored[Main][d]
        /\ \A s \in Stores \ {Main} : stored'[s] = stored[s]
    BY <1>1, <1>2, <1>3, StorePut
  <1>5. /\ listed' \in [Stores -> SUBSET Docs]
        /\ \A s \in Stores \ {Main} : listed'[s] = listed[s]
    BY <1>1, MainAssumption DEF Push, Typed, TypeOK
  <1> QED
    BY <1>1, <1>4, <1>5 DEF Push, FastForward, Goto, given, copy

\* The steps that leave both stores' documents alone.
Quiet ==
    \/ Start \/ OpenStore \/ MakeRepository \/ SetHead \/ ListIds
    \/ \E d \in Docs : OpenSource(d)
    \/ OpenTarget \/ CommitFiles \/ CommitFails \/ NextDocument \/ Exit \/ Fatal \/ Killed

\* Every step is quiet, a push, one on a file, or a capture of the server.
LEMMA NextKinds ==
    Next => \/ Quiet \/ Push
            \/ \E n \in Names : CreateFile(n) \/ FillFile(n)
            \/ \E k \in Captures, d \in Docs : Capture(k, d)
  BY DEF Next, Import, Quiet

\* There is room to count a run.
LEMMA CountsRun == TypeOK /\ run < MaxRuns => run + 1 \in 0..MaxRuns /\ run + 1 # 0
  <1>1. MaxRuns \in Nat
    BY RunsAssumption
  <1>2. TypeOK => run \in 0..MaxRuns
    BY DEF TypeOK
  <1> QED
    BY <1>1, <1>2

\* The quiet steps keep the types.
LEMMA QuietTyped ==
    ASSUME Typed, Quiet
    PROVE  Typed' /\ UNCHANGED <<from, kind, listed, stored>>
  <1> USE FilledTypes, MainAssumption
      DEF Typed, TypeOK, InHand, Copying, given, disk, copy, Goto, Commits
  <1>1. CASE Start
    <2>1. run + 1 \in 0..MaxRuns /\ run + 1 # 0
      BY <1>1, CountsRun DEF Start
    <2> QED
      BY <1>1, <2>1 DEF Start
  <1>2. CASE OpenStore
    BY <1>2 DEF OpenStore, Opened
  <1>3. CASE MakeRepository
    BY <1>3 DEF MakeRepository
  <1>4. CASE SetHead
    BY <1>4 DEF SetHead
  <1>5. CASE ListIds
    BY <1>5 DEF ListIds
  <1>6. CASE \E d \in Docs : OpenSource(d)
    BY <1>6 DEF OpenSource
  <1>7. CASE OpenTarget
    BY <1>7 DEF OpenTarget
  <1>8. CASE CommitFiles
    <2>1. run \in Revisions
      BY <1>8, RunsAssumption DEF CommitFiles, Revisions
    <2>2. [work EXCEPT !.revs = @ \cup {run}] \in Commits
      BY <2>1
    <2>3. work' \in Commits
      BY <1>8, <2>2 DEF CommitFiles
    <2>4. UNCHANGED <<from, kind, repo, listed, stored, opening, run, todo, doc, left,
                      source, dropped, captured>>
      BY <1>8 DEF CommitFiles
    <2>5. \/ pc' = "push" /\ kind[Main] = "git"
          \/ pc' = "copied"
      BY <1>8 DEF CommitFiles
    <2>6. left = {} /\ doc \in Docs /\ doc \in todo /\ run # 0
      BY <1>8 DEF CommitFiles
    <2> QED
      BY <2>3, <2>4, <2>5, <2>6
  <1>9. CASE CommitFails
    BY <1>9 DEF CommitFails
  <1>10. CASE NextDocument
    BY <1>10 DEF NextDocument, Forget
  <1>11. CASE Exit
    BY <1>11 DEF Exit
  <1>12. CASE Fatal
    BY <1>12 DEF Fatal, Ended, Forget
  <1>13. CASE Killed
    BY <1>13 DEF Killed, Ended, Forget
  <1> QED
    BY <1>1, <1>2, <1>3, <1>4, <1>5, <1>6, <1>7, <1>8, <1>9, <1>10, <1>11, <1>12, <1>13
    DEF Quiet

\* Every step keeps the types and what the process has in hand.
LEMMA StepTyped == Typed /\ [Next]_vars => Typed'
  <1> SUFFICES ASSUME Typed, [Next]_vars PROVE Typed'
    OBVIOUS
  <1>1. CASE Quiet
    BY <1>1, QuietTyped
  <1>2. CASE Push
    BY <1>2, PushStep DEF Typed, TypeOK, InHand, Copying, Commits, Push
  <1>3. CASE \E n \in Names : CreateFile(n) \/ FillFile(n)
    <2>1. PICK n \in Names : CreateFile(n) \/ FillFile(n)
      BY <1>3
    <2>2. PICK v \in Contents \cup {Absent} :
             Put(n, v) /\ (left' = left \/ left' = left \ {n})
      BY <2>1, FileStep
    <2>3. /\ pc \in {"copy", "fill"} /\ pc' \in {"copy", "fill"} /\ doc \in Docs
          /\ UNCHANGED <<from, kind, repo, opening, run, todo, doc, source, dropped, captured>>
      BY <2>1, FileStep
    <2>4. /\ work' \in Commits /\ stored' \in [Stores -> [Docs -> Commits]]
          /\ listed' \in [Stores -> SUBSET Docs]
      BY <2>2, <2>3, PutEffect DEF Typed
    <2> QED
      BY <2>2, <2>3, <2>4 DEF Typed, TypeOK, InHand, Copying, Commits
  <1>4. CASE \E k \in Captures, d \in Docs : Capture(k, d)
    <2>1. PICK k \in Captures, d \in Docs : Capture(k, d)
      BY <1>4
    <2>2. /\ UNCHANGED <<from, kind, repo, pc, opening, run, todo, doc, left, source, work,
                          dropped>>
          /\ captured' \subseteq Captures
          /\ stored' \in [Stores -> [Docs -> Commits]]
          /\ listed' \in [Stores -> SUBSET Docs]
      BY <2>1, CaptureStep
    <2> QED
      BY <2>2 DEF Typed, TypeOK, InHand, Copying, Commits
  <1>5. CASE UNCHANGED vars
    BY <1>5 DEF vars, Typed, TypeOK, InHand
  <1> QED
    BY <1>1, <1>2, <1>3, <1>4, <1>5, NextKinds

\* Typed holds at first.
LEMMA InitTyped == Init => Typed
  <1> SUFFICES ASSUME Init PROVE TypeOK /\ InHand
    BY DEF Typed
  <1>1. 0 \in 0..MaxRuns
    BY RunsAssumption
  <1>2. {[revs |-> {}, tree |-> Filled(s, P)] : s \in Stores, P \in Shapes} \subseteq Commits
    BY FilledTypes DEF Commits
  <1>3. stored \in [Stores -> [Docs -> Commits]]
    BY <1>2 DEF Init
  <1>4. TypeOK
    BY <1>1, <1>3, FilledTypes, MainAssumption DEF Init, TypeOK, Commits
  <1>5. InHand
    BY DEF Init, InHand, Copying
  <1> QED
    BY <1>4, <1>5

\* Type correctness of the stores and the import.
THEOREM TypeCorrect == Spec => []TypeOK
  <1>1. Typed => TypeOK
    BY DEF Typed
  <1> QED
    BY <1>1, InitTyped, StepTyped, PTL DEF Spec

-----------------------------------------------------------------------------
(***************************************************************************)
(* The inductive invariant.  The source does not change unless it is the   *)
(* main store, so what is copied from it stays what it has; and what is    *)
(* not left to copy is in the transaction, or in the file store.           *)
(***************************************************************************)

\* The stores that exist are the ones in use.
LEMMA ReposStep ==
    ASSUME Typed, ReposMade, Next
    PROVE  ReposMade'
  <1> USE MainAssumption
      DEF Typed, TypeOK, InHand, Copying, Writing, ReposMade, given, disk, Goto
  <1>1. CASE Quiet
    <2>1. CASE Start
      BY <2>1 DEF Start
    <2>2. CASE OpenStore
      BY <2>2 DEF OpenStore, Opened
    <2>3. CASE MakeRepository
      BY <2>3 DEF MakeRepository
    <2>4. CASE SetHead
      BY <2>4 DEF SetHead
    <2>5. CASE ListIds
      BY <2>5 DEF ListIds
    <2>6. CASE \E d \in Docs : OpenSource(d)
      BY <2>6 DEF OpenSource
    <2>7. CASE OpenTarget
      BY <2>7 DEF OpenTarget, Clonable
    <2>8. CASE CommitFiles
      BY <2>8 DEF CommitFiles
    <2>9. CASE CommitFails
      BY <2>9 DEF CommitFails
    <2>10. CASE NextDocument
      BY <2>10 DEF NextDocument
    <2>11. CASE Exit
      BY <2>11 DEF Exit
    <2>12. CASE Fatal \/ Killed
      BY <2>12 DEF Fatal, Killed, Ended
    <2> QED
      BY <1>1, <2>1, <2>2, <2>3, <2>4, <2>5, <2>6, <2>7, <2>8, <2>9, <2>10, <2>11, <2>12
      DEF Quiet
  <1>2. CASE Push
    BY <1>2 DEF Push
  <1>3. CASE \E n \in Names : CreateFile(n) \/ FillFile(n)
    BY <1>3 DEF CreateFile, FillFile
  <1>4. CASE \E k \in Captures, d \in Docs : Capture(k, d)
    BY <1>4 DEF Capture
  <1> QED
    BY <1>1, <1>2, <1>3, <1>4, NextKinds

\* What the quiet steps do to the document in hand.
LEMMA QuietKinds ==
    ASSUME Typed, Quiet
    PROVE  \/ pc' \notin {"next", "done"} \cup Copying /\ source' \in {source, Root}
           \/ ListIds \/ \E d \in Docs : OpenSource(d)
           \/ OpenTarget \/ CommitFiles \/ CommitFails \/ NextDocument \/ Exit
  <1> USE DEF Goto, Copying, copy
  <1>1. CASE Start
    BY <1>1 DEF Start
  <1>2. CASE OpenStore
    BY <1>2 DEF OpenStore, Opened
  <1>3. CASE MakeRepository
    BY <1>3 DEF MakeRepository
  <1>4. CASE SetHead
    BY <1>4 DEF SetHead
  <1>5. CASE Fatal \/ Killed
    BY <1>5 DEF Fatal, Killed, Ended, Forget
  <1> QED
    BY <1>1, <1>2, <1>3, <1>4, <1>5 DEF Quiet

\* Only the main store is written to, and only the running import counts.
LEMMA SourceStays ==
    ASSUME Typed, Next
    PROVE  /\ UNCHANGED <<from, kind>>
           /\ \A s \in Stores \ {Main} : stored'[s] = stored[s] /\ listed'[s] = listed[s]
           /\ \A d \in Docs : stored[Main][d].revs \subseteq stored'[Main][d].revs
  <1>1. CASE Quiet
    BY <1>1, QuietTyped
  <1>2. CASE Push
    BY <1>2, PushStep
  <1>3. CASE \E n \in Names : CreateFile(n) \/ FillFile(n)
    BY <1>3, FileStep, PutEffect DEF Typed
  <1>4. CASE \E k \in Captures, d \in Docs : Capture(k, d)
    BY <1>4, CaptureStep
  <1> QED
    BY <1>1, <1>2, <1>3, <1>4, NextKinds

\* What is read is not empty: the file is not the one just created.
LEMMA GivenNotEmpty ==
    ASSUME Typed, NoneEmpty, doc \in Docs, NEW n \in Names,
           from # Main \/ kind[Main] = "git"
    PROVE  Given(n) # Empty
  BY DocTypes DEF Typed, NoneEmpty, Whole, Given

\* Which files are filled, and from where.
LEMMA NoneEmptyStep ==
    ASSUME Typed, NoneEmpty, Next
    PROVE  NoneEmpty'
  <1>0. /\ UNCHANGED <<from, kind>> /\ TypeOK
        /\ \A s \in Stores \ {Main} : stored'[s] = stored[s]
        /\ \A n \in Names : Root.tree[n] # Empty
    BY SourceStays, FilledTypes, AbsentAssumption DEF Typed
  <1>1. CASE Quiet
    <2>1. stored' = stored
      BY <1>1, QuietTyped
    <2>2. CASE pc' \notin Copying /\ source' \in {source, Root}
      BY <1>0, <2>1, <2>2 DEF NoneEmpty, Whole, Writing, Copying
    <2>3. CASE ListIds
      BY <1>0, <2>1, <2>3 DEF ListIds, Goto, NoneEmpty, Whole, Writing
    <2>4. CASE \E d \in Docs : OpenSource(d)
      BY <1>0, <2>1, <2>4, DocTypes DEF OpenSource, Goto, NoneEmpty, Whole, Writing
    <2>5. CASE OpenTarget
      <3>1. doc \in Docs
        BY <2>5 DEF OpenTarget, Typed, InHand, Copying
      <3> QED
        BY <1>0, <2>1, <2>5, <3>1, MainAssumption
        DEF OpenTarget, Goto, NoneEmpty, Whole, Writing
    <2>6. CASE CommitFiles
      <3>1. work'.tree = work.tree
        BY <1>0, <2>6, DocTypes DEF CommitFiles, Commits
      <3> QED
        BY <1>0, <2>1, <2>6, <3>1 DEF CommitFiles, NoneEmpty, Whole, Writing
    <2>7. CASE CommitFails \/ NextDocument \/ Exit
      BY <1>0, <2>1, <2>7
      DEF CommitFails, NextDocument, Exit, Forget, copy, Goto, NoneEmpty, Whole, Writing
    <2> QED
      BY <1>1, <2>2, <2>3, <2>4, <2>5, <2>6, <2>7, QuietKinds
  <1>2. CASE Push
    <2>1. \A n \in Names : work.tree[n] # Empty
      BY <1>2 DEF Push, Typed, InHand, NoneEmpty, Writing
    <2>2. \A d \in Docs, n \in Names : stored'[Main][d].tree[n] # Empty
      BY <1>2, <2>1, PushStep, MainAssumption DEF NoneEmpty, Whole
    <2> QED
      BY <1>0, <1>2, <2>2, PushStep DEF NoneEmpty, Whole, Writing
  <1>3. CASE \E n \in Names : CreateFile(n) \/ FillFile(n)
    <2>1. PICK n \in Names : CreateFile(n) \/ FillFile(n)
      BY <1>3
    <2>2. PICK v \in Contents \cup {Absent} :
             /\ Put(n, v)
             /\ \/ v = Empty /\ left' = left
                \/ v = Given(n) /\ v # Absent /\ left' = left \ {n}
      BY <2>1, FileStep
    <2>3. /\ pc \in Writing /\ doc \in Docs /\ n \in left /\ UNCHANGED <<kind, doc, source>>
      BY <2>1, FileStep DEF Writing
    <2>4. /\ kind[Main] = "git" => stored' = stored
          /\ Target'[n] = v
          /\ \A m \in Names \ {n} : Target'[m] = Target[m]
      BY <1>0, <2>2, <2>3, PutEffect
    <2>5. kind[Main] = "git" => v = Empty \/ v # Empty
      OBVIOUS
    <2>6. kind[Main] = "git" =>
            /\ \A m \in Names \ left' : work'.tree[m] # Empty
      <3> SUFFICES ASSUME kind[Main] = "git", NEW m \in Names \ left'
                   PROVE  work'.tree[m] # Empty
        OBVIOUS
      <3>1. Target' = work'.tree /\ Target = work.tree
        BY <1>0 DEF Target
      <3>2. CASE m = n
        <4>1. Given(n) # Empty
          BY <2>3, GivenNotEmpty
        <4> QED
          BY <2>2, <2>3, <2>4, <3>1, <3>2, <4>1
      <3>3. CASE m # n
        BY <2>2, <2>3, <2>4, <3>1, <3>3 DEF NoneEmpty
      <3> QED
        BY <3>2, <3>3
    <2>7. \A s \in Stores : Whole(s) => stored'[s] = stored[s]
      BY <1>0, <2>4 DEF Whole
    <2> QED
      BY <1>0, <2>3, <2>6, <2>7 DEF NoneEmpty, Whole
  <1>4. CASE \E k \in Captures, d \in Docs : Capture(k, d)
    <2>1. PICK k \in Captures, d \in Docs : Capture(k, d)
      BY <1>4
    <2>2. /\ kind[Main] = "git" /\ UNCHANGED <<pc, left, source, work>>
          /\ \A e \in Docs, n \in Names :
                stored'[Main][e].tree[n] \in {stored[Main][e].tree[n], k, Absent}
      BY <2>1, CaptureStep
    <2>3. \A e \in Docs, n \in Names : stored'[Main][e].tree[n] # Empty
      BY <2>2, AbsentAssumption, MainAssumption DEF NoneEmpty, Whole
    <2> QED
      BY <1>0, <2>2, <2>3 DEF NoneEmpty, Whole
  <1> QED
    BY <1>1, <1>2, <1>3, <1>4, NextKinds

\* Of the source's document nothing is missed.
LEMMA CopiedStep ==
    ASSUME Typed, NoneEmpty, Sourced, Copied, Next
    PROVE  Sourced' /\ Copied'
  <1>0. /\ UNCHANGED <<from, kind>> /\ TypeOK /\ from \in Stores /\ Main \in Stores
        /\ from # Main => stored'[from] = stored[from]
    BY SourceStays, DocTypes DEF Typed
  <1> SUFFICES ASSUME from # Main PROVE Sourced' /\ Copied'
    BY <1>0 DEF Sourced, Copied
  <1>1. CASE Quiet
    <2>1. stored' = stored
      BY <1>1, QuietTyped
    <2>2. CASE pc' \notin Copying
      BY <2>2 DEF Sourced, Copied, Writing, Copying
    <2>3. CASE \E d \in Docs : OpenSource(d)
      BY <1>0, <2>1, <2>3 DEF OpenSource, Goto, Sourced, Copied, Writing
    <2>4. CASE OpenTarget
      BY <1>0, <2>1, <2>4 DEF OpenTarget, Goto, Sourced, Copied, Has, Writing
    <2>5. CASE CommitFiles
      <3>1. work'.tree = work.tree
        BY <1>0, <2>5, DocTypes DEF CommitFiles, Commits
      <3>2. Target' = Target
        BY <1>0, <2>1, <2>5, <3>1 DEF Target, CommitFiles
      <3> QED
        BY <1>0, <2>1, <2>5, <3>2 DEF CommitFiles, Goto, Sourced, Copied, Has, Writing
    <2>6. CASE ListIds \/ CommitFails \/ NextDocument \/ Exit
      BY <2>6 DEF ListIds, CommitFails, NextDocument, Exit, Goto, Sourced, Copied, Writing
    <2> QED
      BY <1>1, <2>2, <2>3, <2>4, <2>5, <2>6, QuietKinds
  <1>2. CASE Push
    BY <1>2, PushStep DEF Sourced, Copied, Writing
  <1>3. CASE \E n \in Names : CreateFile(n) \/ FillFile(n)
    <2>1. PICK n \in Names : CreateFile(n) \/ FillFile(n)
      BY <1>3
    <2>2. PICK v \in Contents \cup {Absent} :
             /\ Put(n, v)
             /\ \/ v = Empty /\ left' = left
                \/ v = Given(n) /\ v # Absent /\ left' = left \ {n}
      BY <2>1, FileStep
    <2>3. /\ pc \in {"copy", "fill"} /\ pc' \in {"copy", "fill"} /\ doc \in Docs
          /\ n \in left /\ UNCHANGED <<kind, doc, source>>
      BY <2>1, FileStep
    <2>4. /\ Target'[n] = v
          /\ \A m \in Names \ {n} : Target'[m] = Target[m]
      BY <1>0, <2>2, <2>3, PutEffect
    <2>5. Sourced'
      BY <1>0, <2>3 DEF Sourced
    <2>6. Given(n) = stored[from][doc].tree[n] /\ Given(n) # Empty
      BY <2>3, GivenNotEmpty DEF Sourced, Given
    <2>7. ASSUME NEW m \in Names \ left' PROVE Has(m)'
      <3>1. CASE m = n
        BY <1>0, <2>2, <2>3, <2>4, <2>6, <3>1 DEF Has
      <3>2. CASE m # n
        BY <1>0, <2>2, <2>3, <2>4, <3>2 DEF Has, Copied, Writing
      <3> QED
        BY <3>1, <3>2
    <2> QED
      BY <2>3, <2>5, <2>7 DEF Copied
  <1>4. CASE \E k \in Captures, d \in Docs : Capture(k, d)
    <2>1. PICK k \in Captures, d \in Docs : Capture(k, d)
      BY <1>4
    <2>2. kind[Main] = "git" /\ UNCHANGED <<pc, doc, left, source, work>>
      BY <2>1, CaptureStep
    <2>3. Target' = Target
      BY <1>0, <2>2 DEF Target
    <2> QED
      BY <1>0, <2>2, <2>3 DEF Sourced, Copied, Has
  <1> QED
    BY <1>1, <1>2, <1>3, <1>4, NextKinds

\* What is brought over stays.
LEMMA BroughtStays ==
    ASSUME Typed, Next, run' = run, from # Main,
           NEW d \in Docs, Brought(d), pc \notin Writing \/ d # doc \/ kind[Main] = "git"
    PROVE  Brought(d)'
  <1>0. /\ UNCHANGED <<from, kind>> /\ stored'[from] = stored[from] /\ TypeOK
        /\ stored[Main][d].revs \subseteq stored'[Main][d].revs
    BY SourceStays, DocTypes DEF Typed
  <1>1. CASE kind[Main] = "git"
    BY <1>0, <1>1 DEF Brought
  <1>2. CASE kind[Main] # "git"
    <2>1. stored'[Main][d] = stored[Main][d]
      <3>1. CASE Quiet
        BY <3>1, QuietTyped
      <3>2. CASE Push \/ \E k \in Captures, e \in Docs : Capture(k, e)
        BY <1>2, <3>2, PushStep, CaptureStep
      <3>3. CASE \E n \in Names : CreateFile(n) \/ FillFile(n)
        BY <1>0, <1>2, <3>3, FileStep, PutEffect DEF Writing
      <3> QED
        BY <3>1, <3>2, <3>3, NextKinds
    <2> QED
      BY <1>0, <1>2, <2>1 DEF Brought, HasAll
  <1> QED
    BY <1>1, <1>2

\* A document is off the list when it is brought over, or its Commit failed.
LEMMA ImportedStep ==
    ASSUME Typed, NoneEmpty, Sourced, Copied, Imported, Next
    PROVE  Imported'
  <1>0. /\ UNCHANGED <<from, kind>> /\ TypeOK /\ from \in Stores
        /\ from # Main => listed'[from] = listed[from] /\ stored'[from] = stored[from]
        /\ listed[from] \subseteq Docs
    BY SourceStays, DocTypes DEF Typed, TypeOK
  <1>1. CASE Quiet /\ pc' \notin {"next", "done"} \cup Copying
    BY <1>1 DEF Imported, Copying
  <1>2. CASE ListIds
    BY <1>0, <1>2 DEF ListIds, Goto, Imported, Copying
  <1>3. CASE (\E d \in Docs : OpenSource(d)) \/ OpenTarget \/ Exit
    <2>1. /\ UNCHANGED <<run, todo, dropped>>
          /\ pc \in {"next", "target"} /\ pc' \in {"target", "copy", "done"}
          /\ pc' = "done" => todo = {}
      BY <1>3 DEF OpenSource, OpenTarget, Exit, Goto, copy
    <2>2. ASSUME NEW d \in listed[from] \ (todo \cup dropped), from # Main
          PROVE  Brought(d)'
      <3>1. Brought(d) /\ d \in Docs
        BY <1>0, <2>1, <2>2 DEF Imported, Copying
      <3> QED
        BY <2>1, <2>2, <3>1, BroughtStays DEF Writing
    <2> QED
      BY <1>0, <2>1, <2>2 DEF Imported, Copying
  <1>4. CASE NextDocument
    <2>1. /\ UNCHANGED <<run, dropped>> /\ todo' = todo \ {doc}
          /\ pc = "copied" /\ pc' = "next"
      BY <1>4 DEF NextDocument, Goto
    <2>2. ASSUME NEW d \in listed[from] \ (todo' \cup dropped), from # Main
          PROVE  Brought(d)'
      <3>1. Brought(d) /\ d \in Docs
        BY <1>0, <2>1, <2>2 DEF Imported, Copying
      <3> QED
        BY <2>1, <2>2, <3>1, BroughtStays DEF Writing
    <2> QED
      BY <1>0, <2>1, <2>2 DEF Imported, Copying
  <1>5. CASE CommitFiles
    <2>1. /\ UNCHANGED <<run, todo, dropped, doc, listed, stored>> /\ doc \in Docs
          /\ pc = "copy" /\ left = {} /\ doc \in todo
          /\ \/ kind[Main] = "git" /\ pc' = "push"
             \/ kind[Main] = "fs" /\ pc' = "copied"
      BY <1>5 DEF CommitFiles, Goto, disk, Typed, InHand, Copying
    <2>2. ASSUME NEW d \in listed[from] \ (todo \cup dropped), from # Main
          PROVE  Brought(d)'
      <3>1. Brought(d) /\ d \in Docs /\ d # doc
        BY <1>0, <2>1, <2>2 DEF Imported, Copying
      <3> QED
        BY <2>1, <2>2, <3>1, BroughtStays
    <2>3. run \in work'.revs
      BY <1>5, DocTypes DEF CommitFiles, Commits, Typed
    <2>4. ASSUME from # Main, kind[Main] = "fs"
          PROVE  Brought(doc)'
      <3>1. \A n \in Names : Has(n)
        BY <2>1, <2>4 DEF Copied, Writing
      <3>2. Target = stored[Main][doc].tree
        BY <2>4 DEF Target
      <3>3. HasAll(stored[Main][doc].tree, doc)
        BY <3>1, <3>2 DEF Has, HasAll, Names
      <3> QED
        BY <1>0, <2>1, <2>4, <3>3 DEF Brought, HasAll
    <2> QED
      BY <1>0, <2>1, <2>2, <2>3, <2>4 DEF Imported, Copying
  <1>6. CASE CommitFails
    <2>1. /\ UNCHANGED <<run, todo, doc>> /\ dropped' = dropped \cup {doc}
          /\ pc = "push" /\ pc' = "copied" /\ kind[Main] = "git"
      BY <1>6 DEF CommitFails, Goto, copy, Typed, InHand
    <2>2. ASSUME NEW d \in listed[from] \ (todo \cup dropped), from # Main
          PROVE  Brought(d)'
      <3>1. Brought(d) /\ d \in Docs
        BY <1>0, <2>1, <2>2 DEF Imported, Copying
      <3> QED
        BY <2>1, <2>2, <3>1, BroughtStays
    <2> QED
      BY <1>0, <2>1, <2>2 DEF Imported, Copying
  <1>7. CASE Push
    <2>1. /\ UNCHANGED <<run, todo, dropped, doc, work>> /\ kind[Main] = "git"
          /\ pc = "push" /\ pc' = "copied" /\ stored'[Main][doc] = work
      BY <1>7, PushStep DEF Push
    <2>2. ASSUME NEW d \in listed[from] \ (todo \cup dropped), from # Main
          PROVE  Brought(d)'
      <3>1. Brought(d) /\ d \in Docs
        BY <1>0, <2>1, <2>2 DEF Imported, Copying
      <3> QED
        BY <2>1, <2>2, <3>1, BroughtStays
    <2>3. Brought(doc)'
      BY <1>0, <2>1 DEF Imported, Brought
    <2> QED
      BY <1>0, <2>1, <2>2, <2>3 DEF Imported, Copying
  <1>8. CASE \E n \in Names : CreateFile(n) \/ FillFile(n)
    <2>1. /\ UNCHANGED <<run, todo, dropped, doc>>
          /\ pc \in {"copy", "fill"} /\ pc' \in {"copy", "fill"} /\ doc \in todo
      BY <1>8, FileStep DEF Typed, InHand, Copying
    <2>2. ASSUME NEW d \in listed[from] \ (todo \cup dropped), from # Main
          PROVE  Brought(d)'
      <3>1. Brought(d) /\ d \in Docs /\ d # doc
        BY <1>0, <2>1, <2>2 DEF Imported, Copying
      <3> QED
        BY <2>1, <2>2, <3>1, BroughtStays
    <2> QED
      BY <1>0, <2>1, <2>2 DEF Imported, Copying
  <1>9. CASE \E k \in Captures, d \in Docs : Capture(k, d)
    <2>1. /\ UNCHANGED <<run, todo, dropped, doc, pc, work>> /\ kind[Main] = "git"
      BY <1>9, CaptureStep
    <2>2. ASSUME NEW d \in Docs, from # Main, Brought(d)
          PROVE  Brought(d)'
      BY <2>1, <2>2, BroughtStays
    <2>3. pc = "copied" => doc \in Docs
      BY DEF Typed, InHand, Copying
    <2> QED
      BY <1>0, <2>1, <2>2, <2>3 DEF Imported
  <1> QED
    BY <1>1, <1>2, <1>3, <1>4, <1>5, <1>6, <1>7, <1>8, <1>9, NextKinds, QuietKinds

\* IInv holds at first.
LEMMA InitIInv == Init => IInv
  <1> SUFFICES ASSUME Init PROVE IInv
    OBVIOUS
  <1>1. ReposMade /\ Sourced /\ Copied /\ Imported
    BY DEF Init, ReposMade, Sourced, Copied, Imported, Writing, Copying
  <1>2. ASSUME NEW s \in Stores, NEW d \in Docs, NEW n \in Names
        PROVE  stored[s][d].tree[n] # Empty
    <2>1. PICK P \in Shapes : stored[s][d].tree = Filled(s, P)
      BY DEF Init
    <2> QED
      BY <2>1, FilledTypes, AbsentAssumption
  <1>3. NoneEmpty
    BY <1>2, FilledTypes, AbsentAssumption DEF Init, NoneEmpty, Writing
  <1> QED
    BY <1>1, <1>3, InitTyped DEF IInv

\* Every step keeps IInv.
LEMMA StepIInv == IInv /\ [Next]_vars => IInv'
  <1>1. IInv /\ Next => IInv'
    BY StepTyped, ReposStep, NoneEmptyStep, CopiedStep, ImportedStep DEF IInv
  <1>2. IInv /\ UNCHANGED vars => IInv'
    <2> SUFFICES ASSUME IInv, UNCHANGED vars PROVE IInv'
      OBVIOUS
    <2>1. Typed'
      BY StepTyped DEF IInv
    <2>2. ReposMade' /\ NoneEmpty' /\ Sourced' /\ Copied' /\ Imported'
      BY DEF vars, IInv, ReposMade, NoneEmpty, Whole, Sourced, Copied, Has, Target, Imported,
             Brought, HasAll
    <2> QED
      BY <2>1, <2>2 DEF IInv
  <1> QED
    BY <1>1, <1>2

\* An import that ends well has brought over every document, but for those whose
\* Commit failed.
THEOREM DoneIsImported == Spec => []DoneMeansImported
  <1>1. IInv => DoneMeansImported
    BY DEF IInv, Imported, DoneMeansImported, Brought
  <1> QED
    BY <1>1, InitIInv, StepIInv, PTL DEF Spec

-----------------------------------------------------------------------------
(***************************************************************************)
(* What a step may never do.                                               *)
(***************************************************************************)

\* What the import publishes of a document is all of it.
THEOREM PublishesWhole == Spec => PublishedWhole
  <1>1. ASSUME IInv, [Next]_vars, NEW d \in Docs,
               run \in stored'[Main][d].revs \ stored[Main][d].revs, from # Main
        PROVE  HasAll(stored'[Main][d].tree, d)
    <2>0. Typed /\ TypeOK /\ Next /\ from' = from /\ stored'[from] = stored[from]
      BY <1>1, SourceStays, DocTypes DEF IInv, Typed, vars
    <2>1. CASE Quiet
      BY <1>1, <2>0, <2>1, QuietTyped
    <2>2. CASE \E n \in Names : CreateFile(n) \/ FillFile(n)
      BY <1>1, <2>0, <2>2, FileStep, PutEffect
    <2>3. CASE \E k \in Captures, e \in Docs : Capture(k, e)
      <3>1. run \notin Captures
        BY <2>0, RunsAssumption DEF TypeOK
      <3> QED
        BY <1>1, <2>0, <2>3, <3>1, CaptureStep
    <2>4. CASE Push
      <3>1. d = doc /\ stored'[Main][d] = work /\ left = {} /\ pc = "push" /\ kind[Main] = "git"
        BY <1>1, <2>0, <2>4, PushStep DEF Push, Typed, InHand
      <3>2. \A n \in Names : Has(n)
        BY <1>1, <3>1 DEF IInv, Copied, Writing
      <3> QED
        BY <2>0, <3>1, <3>2 DEF Has, Target, HasAll, Names
    <2> QED
      BY <2>0, <2>1, <2>2, <2>3, <2>4, NextKinds
  <1>2. IInv /\ [Next]_vars =>
        [\A d \in Docs :
            run \in stored'[Main][d].revs \ stored[Main][d].revs /\ from # Main
                => HasAll(stored'[Main][d].tree, d)]_vars
    BY <1>1
  <1> QED
    BY <1>2, InitIInv, StepIInv, PTL DEF Spec, PublishedWhole

\* A git store loses no revision, and no file in it becomes empty.
THEOREM GitKeepsAll == Spec => GitKeeps
  <1>1. ASSUME IInv, IInv', [Next]_vars, NEW s \in Stores, NEW d \in Docs, kind[s] = "git"
        PROVE  /\ stored[s][d].revs \subseteq stored'[s][d].revs
               /\ \A n \in Names : stored'[s][d].tree[n] # Empty
    <2>1. kind' = kind /\ stored[s][d].revs \subseteq stored'[s][d].revs
      BY <1>1, SourceStays DEF IInv, vars
    <2>2. \A n \in Names : stored'[s][d].tree[n] # Empty
      BY <1>1, <2>1 DEF IInv, NoneEmpty, Whole
    <2> QED
      BY <2>1, <2>2
  <1>2. IInv /\ IInv' /\ [Next]_vars =>
        [\A s \in Stores, d \in Docs :
            kind[s] = "git" =>
                /\ stored[s][d].revs \subseteq stored'[s][d].revs
                /\ \A n \in Names : stored'[s][d].tree[n] # Empty]_vars
    BY <1>1
  <1> QED
    BY <1>2, InitIInv, StepIInv, PTL DEF Spec, GitKeeps

\* A repository whose making was interrupted stays half made, and as it is.
THEOREM HalfMadeStays == Spec => HalfMadeIsPermanent
  <1>1. ASSUME IInv, [Next]_vars, NEW s \in Stores, HalfMade(s)
        PROVE  HalfMade(s)' /\ stored'[s] = stored[s]
    <2>0. Typed /\ TypeOK /\ Main \in Stores
      BY <1>1, MainAssumption DEF IInv, Typed
    <2>1. repo[s] \in {"bare", "pushed"} /\ kind[s] = "git"
      BY <1>1, <2>0 DEF HalfMade, IInv, ReposMade, TypeOK
    <2>2. stored'[s] = stored[s]
      <3>1. CASE s # Main \/ UNCHANGED vars
        BY <1>1, <2>0, <3>1, SourceStays DEF vars
      <3>2. CASE s = Main /\ Quiet
        BY <2>0, <3>2, QuietTyped
      <3>3. CASE s = Main /\ \E n \in Names : CreateFile(n) \/ FillFile(n)
        BY <2>0, <2>1, <3>3, FileStep, PutEffect
      <3>4. CASE s = Main /\ \E k \in Captures, d \in Docs : Capture(k, d)
        BY <2>0, <2>1, <3>4, CaptureStep
      <3>5. CASE s = Main /\ Push
        BY <1>1, <2>1, <3>5 DEF Push, IInv, ReposMade, Writing
      <3> QED
        BY <1>1, <3>1, <3>2, <3>3, <3>4, <3>5, NextKinds
    <2>3. HalfMade(s)'
      <3> USE <1>1, <2>1, <2>0 DEF HalfMade, Goto, disk, TypeOK
      <3>1. CASE Start
        BY <3>1 DEF Start
      <3>2. CASE OpenStore
        BY <3>2 DEF OpenStore, Opened
      <3>3. CASE MakeRepository
        BY <3>3 DEF MakeRepository
      <3>4. CASE SetHead
        BY <3>4 DEF SetHead
      <3>5. CASE ListIds \/ (\E d \in Docs : OpenSource(d)) \/ OpenTarget \/ NextDocument
                 \/ Exit
        BY <3>5 DEF ListIds, OpenSource, OpenTarget, NextDocument, Exit
      <3>6. CASE CommitFiles \/ CommitFails \/ Push \/ Fatal \/ Killed
        BY <3>6 DEF CommitFiles, CommitFails, Push, Fatal, Killed, Ended
      <3>7. CASE \E n \in Names : CreateFile(n) \/ FillFile(n)
        BY <3>7 DEF CreateFile, FillFile
      <3>8. CASE \E k \in Captures, d \in Docs : Capture(k, d)
        BY <3>8 DEF Capture
      <3>9. CASE UNCHANGED vars
        BY <3>9 DEF vars
      <3> QED
        BY <3>1, <3>2, <3>3, <3>4, <3>5, <3>6, <3>7, <3>8, <3>9, NextKinds DEF Quiet
    <2> QED
      BY <2>2, <2>3
  <1>2. IInv /\ [Next]_vars =>
        [\A s \in Stores : HalfMade(s) => HalfMade(s)' /\ stored'[s] = stored[s]]_vars
    BY <1>1
  <1> QED
    BY <1>2, InitIInv, StepIInv, PTL DEF Spec, HalfMadeIsPermanent
=============================================================================
