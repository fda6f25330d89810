--------------------------- MODULE GitStoreProofs ---------------------------
(***************************************************************************)
(* Proofs about GitStore, for any number of documents, transactions, files *)
(* and handlers.                                                           *)
(***************************************************************************)
EXTENDS GitStore, TLAPS

\* What a document starts from, branch `main' (gitstore.go:260), is a commit.
LEMMA RootCommit == Root \in Commits
  BY DEF Root, Commits, Trees

\* What wt.Commit with All takes from the working tree (gitstore.go:413) is a
\* tree of files.
LEMMA TrackedTree ==
    ASSUME TypeOK, NEW t \in Txs
    PROVE  Tracked(t) \in Trees
  BY DEF TypeOK, Tracked, Trees

\* A store just opened, without transactions, is typed.
LEMMA InitTyping == Init => TypeOK
  BY RootCommit, CommitsAssumption DEF Init, TypeOK, Commits

\* Every step keeps every variable within its type.
LEMMA StepTyping == TypeOK /\ [Next]_vars => TypeOK'
  <1> SUFFICES ASSUME TypeOK, [Next]_vars PROVE TypeOK'
    OBVIOUS
  <1> USE DEF TypeOK
  <1>1. CASE UNCHANGED vars
    BY <1>1 DEF vars
  <1>2. ASSUME NEW t \in Txs, NEW d \in Docs, CloneRepository(t, d)
        PROVE  TypeOK'
    BY <1>2 DEF CloneRepository, work
  <1>3. ASSUME NEW t \in Txs, CheckoutBranch(t)
        PROVE  TypeOK'
    <2>1. heads[doc[t]] \in Commits
      BY <1>3 DEF CheckoutBranch
    <2>2. heads[doc[t]].tree \in Trees
      BY <2>1 DEF Commits
    <2> QED
      BY <1>3, <2>1, <2>2 DEF CheckoutBranch
  <1>4. ASSUME NEW t \in Txs, CheckoutFails(t)
        PROVE  TypeOK'
    BY <1>4 DEF CheckoutFails, work
  <1>5. ASSUME NEW t \in Txs, NEW n \in Names, CreateFile(t, n)
        PROVE  TypeOK'
    BY <1>5, EmptyAssumption DEF CreateFile, CanStart, store, Trees
  <1>6. ASSUME NEW t \in Txs, NEW n \in Names, NewAttachmentID(t, n)
        PROVE  TypeOK'
    BY <1>6, EmptyAssumption DEF NewAttachmentID, CanStart, store, Trees
  <1>7. ASSUME NEW t \in Txs, NEW n \in Names, NEW why \in {"write", "reserve"},
               AddFile(t, n, why)
        PROVE  TypeOK'
    BY <1>7 DEF AddFile, store
  <1>8. ASSUME NEW t \in Txs, NEW n \in Names, NEW c \in Contents,
               WriteFile(t, n, c)
        PROVE  TypeOK'
    BY <1>8 DEF WriteFile, store, Trees
  <1>9. ASSUME NEW t \in Txs, NEW n \in Names, CloseFile(t, n)
        PROVE  TypeOK'
    BY <1>9 DEF CloseFile, store
  <1>10. ASSUME NEW t \in Txs, NEW n \in Names, DeleteAttachment(t, n)
         PROVE  TypeOK'
    BY <1>10 DEF DeleteAttachment, store, Trees
  <1>11. ASSUME NEW t \in Txs, CommitWorktree(t)
         PROVE  TypeOK'
    <2>1. /\ commits[t] \in 0..MaxCommits
          /\ commits[t] + 1 \in 1..MaxCommits
      BY <1>11, CommitsAssumption DEF CommitWorktree
    <2>2. [revs |-> local[t].revs \cup {<<t, commits[t] + 1>>},
           tree |-> Tracked(t)] \in Commits
      BY <2>1, TrackedTree DEF Commits, Revisions
    <2> QED
      BY <1>11, <2>1, <2>2 DEF CommitWorktree, CanStart, work
  <1>12. ASSUME NEW t \in Txs, NEW told \in BOOLEAN, PushAccepted(t, told)
         PROVE  TypeOK'
    <2>1. local[t].revs \in SUBSET Revisions
      BY DEF Commits
    <2> QED
      BY <1>12, <2>1 DEF PushAccepted, Pushing, EndPush, work
  <1>13. ASSUME NEW t \in Txs, PushFails(t)
         PROVE  TypeOK'
    BY <1>13 DEF PushFails, Pushing, EndPush, work
  <1>14. ASSUME NEW t \in Txs, Rollback(t)
         PROVE  TypeOK'
    BY <1>14 DEF Rollback, work
  <1> QED
    BY <1>1, <1>2, <1>3, <1>4, <1>5, <1>6, <1>7, <1>8, <1>9, <1>10, <1>11,
       <1>12, <1>13, <1>14 DEF Next, Step

\* Type correctness of the git-backed store.
THEOREM TypeCorrect == Spec => []TypeOK
  BY InitTyping, StepTyping, PTL DEF Spec

-----------------------------------------------------------------------------
(***************************************************************************)
(* The inductive invariant.  A line is the set of revisions of a commit.   *)
(* In every line, published or in a clone, the revisions made by a         *)
(* transaction were counted by it and are all in its own clone: so a       *)
(* revision it makes next is new everywhere, and a line can never hold     *)
(* more of its work than it does itself.                                   *)
(***************************************************************************)
Owned(line) ==
    \A r \in line : r[2] <= commits[r[1]] /\ r \in local[r[1]].revs

LinesOwned ==
    /\ \A d \in Docs : Owned(heads[d].revs)
    /\ \A t \in Txs : Owned(local[t].revs)

\* A transaction that has no working tree yet has made nothing.
NothingYet ==
    \A t \in Txs : phase[t] \in {"none", "cloned"} =>
        commits[t] = 0 /\ acked[t] = {}

IInv == TypeOK /\ LinesOwned /\ NothingYet /\ AckedSurvives /\ NoLostUpdate

\* The steps that leave the store alone leave the rest of IInv alone.
LEMMA WorkKeepsIInv ==
    ASSUME IInv, TypeOK', UNCHANGED store
    PROVE  IInv'
  BY DEF IInv, LinesOwned, Owned, NothingYet, AckedSurvives, NoLostUpdate, store

\* IInv holds before the first GetDocument: nothing is saved, no line is begun.
LEMMA InitIInv == Init => IInv
  <1> SUFFICES ASSUME Init PROVE IInv
    OBVIOUS
  <1>1. TypeOK
    BY InitTyping
  <1> QED
    BY <1>1 DEF Init, IInv, LinesOwned, Owned, NothingYet, AckedSurvives,
                NoLostUpdate, Root

\* A revision that has no room in its maker's count is in no line.
LEMMA NoneCounted ==
    ASSUME IInv, NEW t \in Txs, commits[t] = 0
    PROVE  /\ \A d \in Docs : \A r \in heads[d].revs : r[1] # t
           /\ \A u \in Txs : \A r \in local[u].revs : r[1] # t
  <1>1. \A r \in Revisions : r[1] \in Txs /\ r[2] \in 1..MaxCommits
    BY DEF Revisions
  <1>2. /\ \A d \in Docs : heads[d].revs \subseteq Revisions
        /\ \A u \in Txs : local[u].revs \subseteq Revisions
    BY DEF IInv, TypeOK, Commits
  <1> QED
    BY <1>1, <1>2, CommitsAssumption DEF IInv, LinesOwned, Owned

\* The clone takes a published commit, so it adds no line of its own
\* (gitstore.go:250).
LEMMA CloneKeepsIInv ==
    ASSUME IInv, TypeOK', NEW t \in Txs, NEW d \in Docs, CloneRepository(t, d)
    PROVE  IInv'
  <1>1. /\ commits[t] = 0
        /\ acked[t] = {}
    BY DEF IInv, NothingYet, CloneRepository
  <1>2. /\ \A e \in Docs : \A r \in heads[e].revs : r[1] # t
        /\ \A u \in Txs : \A r \in local[u].revs : r[1] # t
    BY <1>1, NoneCounted
  <1>3. /\ heads' = heads
        /\ commits' = commits
        /\ acked' = acked
        /\ local' = [local EXCEPT ![t] = heads[d]]
        /\ doc' = [doc EXCEPT ![t] = d]
        /\ phase' = [phase EXCEPT ![t] = "cloned"]
    BY DEF CloneRepository
  <1>4. local'[t] = heads[d] /\ \A u \in Txs \ {t} : local'[u] = local[u]
    BY <1>3 DEF IInv, TypeOK
  <1>5. /\ \A e \in Docs : heads[e].revs \subseteq Txs \X (1..MaxCommits)
        /\ \A u \in Txs : local[u].revs \subseteq Txs \X (1..MaxCommits)
    BY DEF IInv, TypeOK, Commits, Revisions
  <1>6. LinesOwned'
    <2>1. \A e \in Docs : Owned(heads[e].revs)'
      BY <1>2, <1>3, <1>4, <1>5 DEF IInv, LinesOwned, Owned
    <2>2. \A u \in Txs : Owned(local[u].revs)'
      BY <1>2, <1>3, <1>4, <1>5 DEF IInv, LinesOwned, Owned
    <2> QED
      BY <2>1, <2>2 DEF LinesOwned
  <1>7. NothingYet'
    BY <1>1, <1>3 DEF IInv, NothingYet, TypeOK
  <1>8. AckedSurvives' /\ NoLostUpdate'
    BY <1>1, <1>3 DEF IInv, AckedSurvives, NoLostUpdate, TypeOK
  <1> QED
    BY <1>6, <1>7, <1>8 DEF IInv

\* The checkout moves the clone to the branch's present head, again a published
\* commit (gitstore.go:258-276).
LEMMA CheckoutKeepsIInv ==
    ASSUME IInv, TypeOK', NEW t \in Txs, CheckoutBranch(t)
    PROVE  IInv'
  <1>1. /\ doc[t] \in Docs
        /\ commits[t] = 0
        /\ acked[t] = {}
    BY DEF IInv, TypeOK, NothingYet, CheckoutBranch
  <1>2. /\ \A e \in Docs : \A r \in heads[e].revs : r[1] # t
        /\ \A u \in Txs : \A r \in local[u].revs : r[1] # t
    BY <1>1, NoneCounted
  <1>3. /\ heads' = heads
        /\ commits' = commits
        /\ acked' = acked
        /\ doc' = doc
        /\ local'[t] = heads[doc[t]]
        /\ \A u \in Txs \ {t} : local'[u] = local[u]
        /\ \A u \in Txs \ {t} : phase'[u] = phase[u]
        /\ phase'[t] = "open"
    BY DEF CheckoutBranch, IInv, TypeOK
  <1>4. /\ \A e \in Docs : heads[e].revs \subseteq Txs \X (1..MaxCommits)
        /\ \A u \in Txs : local[u].revs \subseteq Txs \X (1..MaxCommits)
    BY DEF IInv, TypeOK, Commits, Revisions
  <1>5. LinesOwned'
    <2>1. \A e \in Docs : Owned(heads[e].revs)'
      BY <1>2, <1>3, <1>4 DEF IInv, LinesOwned, Owned
    <2>2. \A u \in Txs : Owned(local[u].revs)'
      BY <1>1, <1>2, <1>3, <1>4 DEF IInv, LinesOwned, Owned
    <2> QED
      BY <2>1, <2>2 DEF LinesOwned
  <1>6. NothingYet' /\ AckedSurvives' /\ NoLostUpdate'
    BY <1>3 DEF IInv, NothingYet, AckedSurvives, NoLostUpdate
  <1> QED
    BY <1>5, <1>6 DEF IInv

\* wt.Commit puts the next revision of its transaction on top of its own line
\* and of no other (gitstore.go:413-416).
LEMMA CommitKeepsIInv ==
    ASSUME IInv, TypeOK', NEW t \in Txs, CommitWorktree(t)
    PROVE  IInv'
  <1> DEFINE k == commits[t] + 1
  <1>1. /\ heads' = heads /\ acked' = acked /\ doc' = doc /\ phase' = phase
        /\ local'[t].revs = local[t].revs \cup {<<t, k>>}
        /\ \A u \in Txs \ {t} : local'[u] = local[u]
        /\ commits'[t] = k
        /\ \A u \in Txs \ {t} : commits'[u] = commits[u]
        /\ phase[t] = "open"
    BY DEF CommitWorktree, CanStart, IInv, TypeOK
  <1>2. /\ \A e \in Docs : heads[e].revs \subseteq Txs \X (1..MaxCommits)
        /\ \A u \in Txs : local[u].revs \subseteq Txs \X (1..MaxCommits)
        /\ commits \in [Txs -> 0..MaxCommits]
    BY DEF IInv, TypeOK, Commits, Revisions
  <1>3. ASSUME NEW line \in SUBSET (Txs \X (1..MaxCommits)), Owned(line)
        PROVE  Owned(line)'
    BY <1>1, <1>2, <1>3, CommitsAssumption DEF Owned
  <1>4. <<t, k>>[2] <= commits'[t] /\ <<t, k>> \in local'[t].revs
    BY <1>1, <1>2, CommitsAssumption
  <1>5. LinesOwned'
    <2>1. \A e \in Docs : Owned(heads[e].revs)'
      BY <1>1, <1>2, <1>3 DEF IInv, LinesOwned, Owned
    <2>2. \A u \in Txs \ {t} : Owned(local[u].revs)'
      BY <1>1, <1>2, <1>3 DEF IInv, LinesOwned, Owned
    <2>3. Owned(local[t].revs)'
      BY <1>1, <1>2, <1>3, <1>4 DEF IInv, LinesOwned, Owned
    <2> QED
      BY <2>1, <2>2, <2>3 DEF LinesOwned
  <1>6. NothingYet' /\ AckedSurvives' /\ NoLostUpdate'
    BY <1>1 DEF IInv, NothingYet, AckedSurvives, NoLostUpdate
  <1> QED
    BY <1>5, <1>6 DEF IInv

\* The step everything rests on: the new head has all of the old one, so what
\* was vouched for stays, and what is vouched for now includes it.
LEMMA PushKeepsIInv ==
    ASSUME IInv, TypeOK', NEW t \in Txs, NEW told \in BOOLEAN,
           PushAccepted(t, told)
    PROVE  IInv'
  <1> DEFINE d == doc[t]
  <1>1. /\ d \in Docs
        /\ phase[t] = "open"
        /\ heads[d].revs \subseteq local[t].revs
        /\ heads'[d] = local[t]
        /\ \A e \in Docs \ {d} : heads'[e] = heads[e]
        /\ acked'[t] = acked[t] \/ acked'[t] = local[t].revs
        /\ \A u \in Txs \ {t} : acked'[u] = acked[u]
        /\ phase' = phase /\ doc' = doc /\ local' = local /\ commits' = commits
    BY DEF PushAccepted, Pushing, FastForward, IInv, TypeOK
  <1>2. LinesOwned'
    BY <1>1 DEF IInv, LinesOwned, Owned
  <1>3. NothingYet'
    BY <1>1 DEF IInv, NothingYet
  <1>4. \A u \in Txs : doc[u] = d => acked[u] \subseteq local[t].revs
    BY <1>1 DEF IInv, AckedSurvives
  <1>5. AckedSurvives'
    <2> SUFFICES ASSUME NEW u \in Txs, acked'[u] # {}
                 PROVE  acked'[u] \subseteq heads'[doc[u]].revs
      BY <1>1 DEF AckedSurvives
    <2>1. doc[u] \in Docs
      BY <1>1 DEF IInv, NothingYet, TypeOK
    <2>2. CASE doc[u] = d
      BY <1>1, <1>4, <2>2
    <2>3. CASE doc[u] # d
      BY <1>1, <2>1, <2>3 DEF IInv, AckedSurvives
    <2> QED
      BY <2>2, <2>3
  <1>6. NoLostUpdate'
    BY <1>1, <1>4 DEF IInv, NoLostUpdate
  <1> QED
    BY <1>2, <1>3, <1>5, <1>6 DEF IInv

\* A Commit that fails, a checkout that fails and a Rollback change no line.
LEMMA EndKeepsIInv ==
    ASSUME IInv, TypeOK', NEW t \in Txs,
           CheckoutFails(t) \/ PushFails(t) \/ Rollback(t)
    PROVE  IInv'
  <1>1. /\ UNCHANGED <<heads, doc, local, commits, acked>>
        /\ \A u \in Txs : phase'[u] \in {"none", "cloned"} => phase'[u] = phase[u]
    BY DEF CheckoutFails, PushFails, Rollback, IInv, TypeOK
  <1> QED
    BY <1>1 DEF IInv, LinesOwned, Owned, NothingYet, AckedSurvives, NoLostUpdate

\* Every step of every method of the store preserves IInv.
LEMMA StepIInv == IInv /\ [Next]_vars => IInv'
  <1> SUFFICES ASSUME IInv, [Next]_vars PROVE IInv'
    OBVIOUS
  <1>1. TypeOK'
    BY StepTyping DEF IInv
  <1>2. CASE UNCHANGED vars
    BY <1>1, <1>2, WorkKeepsIInv DEF vars, store
  <1>3. ASSUME NEW t \in Txs, Step(t)
        PROVE  IInv'
    <2>1. CASE \E d \in Docs : CloneRepository(t, d)
      BY <1>1, <2>1, CloneKeepsIInv
    <2>2. CASE CheckoutBranch(t)
      BY <1>1, <2>2, CheckoutKeepsIInv
    <2>3. CASE CommitWorktree(t)
      BY <1>1, <2>3, CommitKeepsIInv
    <2>4. CASE \E told \in BOOLEAN : PushAccepted(t, told)
      BY <1>1, <2>4, PushKeepsIInv
    <2>5. CASE CheckoutFails(t) \/ PushFails(t) \/ Rollback(t)
      BY <1>1, <2>5, EndKeepsIInv
    <2>6. CASE \/ \E n \in Names : CreateFile(t, n)
               \/ \E n \in Names : NewAttachmentID(t, n)
               \/ \E n \in Names, why \in {"write", "reserve"} : AddFile(t, n, why)
               \/ \E n \in Names, c \in Contents : WriteFile(t, n, c)
               \/ \E n \in Names : CloseFile(t, n)
               \/ \E n \in Names : DeleteAttachment(t, n)
      <3>1. UNCHANGED store
        BY <2>6 DEF CreateFile, NewAttachmentID, AddFile, WriteFile, CloseFile,
                    DeleteAttachment
      <3> QED
        BY <1>1, <3>1, WorkKeepsIInv
    <2> QED
      BY <1>3, <2>1, <2>2, <2>3, <2>4, <2>5, <2>6 DEF Step
  <1> QED
    BY <1>2, <1>3 DEF Next

\* The inductive invariant holds in every reachable state of the store, for any
\* number of documents, transactions, files, Commits and handlers.
THEOREM Inductive == Spec => []IInv
  BY InitIInv, StepIInv, PTL DEF Spec

\* What a Commit that returned nil has saved stays in the document's history.
THEOREM AckedIsDurable == Spec => []AckedSurvives
  <1>1. IInv => AckedSurvives
    BY DEF IInv
  <1> QED
    BY <1>1, Inductive, PTL

\* Of two saved transactions on one document, one saw all the other saved.
THEOREM FirstCommitterWins == Spec => []NoLostUpdate
  <1>1. IInv => NoLostUpdate
    BY DEF IInv
  <1> QED
    BY <1>1, Inductive, PTL

-----------------------------------------------------------------------------
(* A conflict is final: nobody else can give a clone what it lacks, and     *)
(* what it makes itself is new, so it is not what it lacks.                 *)

\* No step of any transaction takes another one, or itself, out of a conflict
\* but by ending it.
LEMMA ConflictStep ==
    ASSUME IInv, [Next]_vars, NEW t \in Txs, Conflict(t)
    PROVE  Conflict(t)' \/ phase'[t] \in {"failed", "closed"}
  <1> DEFINE d == doc[t]
  <1>1. /\ d \in Docs
        /\ phase[t] \in {"cloned", "open"}
        /\ ~ (heads[d].revs \subseteq local[t].revs)
    BY DEF Conflict, IInv, TypeOK
  <1>2. PICK r \in heads[d].revs : r \notin local[t].revs
    BY <1>1
  <1>3. r \in heads'[d].revs
    BY <1>1, <1>2, ZenonT(30) DEF Next, Step, vars, store, work, CloneRepository,
        CheckoutBranch, CheckoutFails, CreateFile, NewAttachmentID, AddFile,
        WriteFile, CloseFile, DeleteAttachment, CommitWorktree, PushAccepted,
        FastForward, PushFails, Rollback, IInv, TypeOK
  <1>4. ASSUME NEW u \in Txs, Step(u), phase'[t] \notin {"failed", "closed"}
        PROVE  /\ doc'[t] = d
               /\ phase'[t] \in {"cloned", "open"}
               /\ r \notin local'[t].revs
    <2>1. CASE CommitWorktree(u)
      <3>1. /\ doc' = doc /\ phase' = phase
            /\ u = t => local'[t].revs = local[t].revs \cup {<<t, commits[t] + 1>>}
            /\ u # t => local'[t] = local[t]
        BY <2>1 DEF CommitWorktree, IInv, TypeOK
      <3>2. commits[t] \in 0..MaxCommits
        BY DEF IInv, TypeOK
      <3>3. Owned(heads[d].revs)
        BY <1>1 DEF IInv, LinesOwned
      <3>4. r # <<t, commits[t] + 1>>
        BY <1>2, <3>2, <3>3, CommitsAssumption DEF Owned
      <3> QED
        BY <1>1, <1>2, <3>1, <3>4
    <2>2. CASE \E e \in Docs : CloneRepository(u, e)
      BY <1>1, <1>2, <2>2 DEF CloneRepository, IInv, TypeOK
    <2>3. CASE CheckoutBranch(u)
      BY <1>1, <1>2, <2>3 DEF CheckoutBranch, IInv, TypeOK
    <2>4. CASE CheckoutFails(u) \/ PushFails(u) \/ Rollback(u)
      BY <1>1, <1>2, <1>4, <2>4 DEF CheckoutFails, PushFails, Rollback, IInv, TypeOK
    <2>5. CASE \E told \in BOOLEAN : PushAccepted(u, told)
      BY <1>1, <1>2, <2>5 DEF PushAccepted, IInv, TypeOK
    <2>6. CASE UNCHANGED store
      BY <1>1, <1>2, <2>6 DEF store
    <2> QED
      BY <1>4, <2>1, <2>2, <2>3, <2>4, <2>5, <2>6 DEF Step, CreateFile,
         NewAttachmentID, AddFile, WriteFile, CloseFile, DeleteAttachment
  <1>5. CASE UNCHANGED vars
    BY <1>5 DEF vars, Conflict
  <1>6. ASSUME NEW u \in Txs, Step(u)
        PROVE  Conflict(t)' \/ phase'[t] \in {"failed", "closed"}
    BY <1>3, <1>4, <1>6 DEF Conflict
  <1> QED
    BY <1>5, <1>6 DEF Next

\* Retrying a Commit that was refused cannot succeed.
THEOREM ConflictsAreFinal == Spec => ConflictIsFinal
  <1>1. IInv /\ [Next]_vars =>
        [\A t \in Txs : Conflict(t) => \/ Conflict(t)'
                                       \/ phase'[t] \in {"failed", "closed"}]_vars
    BY ConflictStep
  <1> QED
    BY <1>1, Inductive, PTL DEF Spec, ConflictIsFinal

-----------------------------------------------------------------------------
(* The refinement: each step of the store is one step of TxStore or none.   *)

\* A store just opened is a TxStore without transactions.
LEMMA InitRefines == Init => Abs!Init
  <1> SUFFICES ASSUME Init PROVE Abs!Init
    OBVIOUS
  <1>1. \A t \in Txs : Tracked(t) = Root.tree /\ ~ Begun(t) /\ phase[t] = "none"
    BY DEF Init, Tracked, Root, Begun
  <1>2. heads \in [Docs -> {Root}]
    BY DEF Init
  <1> QED
    BY <1>1, <1>2 DEF Abs!Init, Abs!Root, Root

\* Where the working copy, the commit and the phase of every transaction stay
\* as they are, TxStore does not move.
LEMMA SameView ==
    ASSUME TypeOK, TypeOK', NEW t \in Txs,
           \A n \in Names : /\ (n \in index[t]) = (n \in index'[t])
                            /\ n \in index[t] => files[t][n] = files'[t][n]
    PROVE  Tracked(t) = Tracked(t)'
  BY DEF Tracked

\* A step that moves no transaction, file or branch is a stutter of TxStore.
LEMMA StutterRefines ==
    ASSUME UNCHANGED <<heads, phase, doc, local>>,
           \A t \in Txs : Tracked(t) = Tracked(t)'
    PROVE  UNCHANGED Abs!vars
  BY DEF Abs!vars, Begun

\* A step on one file of an open transaction writes that file.
LEMMA FileRefines ==
    ASSUME TypeOK, TypeOK', UNCHANGED <<heads, phase, doc, local>>,
           NEW t \in Txs, NEW n \in Names, phase[t] = "open",
           Tracked(t)' = [Tracked(t) EXCEPT ![n] = Tracked(t)'[n]],
           \A u \in Txs \ {t} : Tracked(u)' = Tracked(u)
    PROVE  Abs!Next
  <1> DEFINE c == Tracked(t)'[n]
             v == [u \in Txs |-> Tracked(u)]
  <1>1. c \in Contents \cup {Absent}
    BY TrackedTree DEF TypeOK, Tracked, Trees
  <1>2. v' = [v EXCEPT ![t] = [v[t] EXCEPT ![n] = c]]
    OBVIOUS
  <1>3. Abs!Write(t, n, c)
    BY <1>2 DEF Abs!Write, Begun
  <1> QED
    BY <1>1, <1>3 DEF Abs!Next

\* The steps in the working tree.
LEMMA WorkRefines ==
    ASSUME TypeOK, TypeOK', NEW t \in Txs,
           \/ \E n \in Names : CreateFile(t, n)
           \/ \E n \in Names : NewAttachmentID(t, n)
           \/ \E n \in Names, why \in {"write", "reserve"} : AddFile(t, n, why)
           \/ \E n \in Names, c \in Contents : WriteFile(t, n, c)
           \/ \E n \in Names : CloseFile(t, n)
           \/ \E n \in Names : DeleteAttachment(t, n)
    PROVE  Abs!Next
  <1>1. /\ UNCHANGED <<heads, phase, doc, local>>
        /\ phase[t] = "open"
    BY DEF CreateFile, NewAttachmentID, AddFile, WriteFile, CloseFile,
           DeleteAttachment, CanStart, store
  <1> DEFINE Only(n) == \A u \in Txs : \A m \in Names : u # t \/ m # n =>
                            /\ (m \in index[u]) = (m \in index'[u])
                            /\ files[u][m] = files'[u][m]
  <1>2. PICK n \in Names : Only(n)
    <2> USE DEF TypeOK, Trees
    <2>1. ASSUME NEW n \in Names, CreateFile(t, n) PROVE Only(n)
      BY <2>1 DEF CreateFile
    <2>2. ASSUME NEW n \in Names, NewAttachmentID(t, n) PROVE Only(n)
      BY <2>2 DEF NewAttachmentID
    <2>3. ASSUME NEW n \in Names, NEW why \in {"write", "reserve"},
                 AddFile(t, n, why)
          PROVE  Only(n)
      BY <2>3 DEF AddFile
    <2>4. ASSUME NEW n \in Names, NEW c \in Contents, WriteFile(t, n, c)
          PROVE  Only(n)
      BY <2>4 DEF WriteFile
    <2>5. ASSUME NEW n \in Names, CloseFile(t, n) PROVE Only(n)
      BY <2>5 DEF CloseFile
    <2>6. ASSUME NEW n \in Names, DeleteAttachment(t, n) PROVE Only(n)
      BY <2>6 DEF DeleteAttachment
    <2> HIDE DEF Only
    <2> QED
      BY <2>1, <2>2, <2>3, <2>4, <2>5, <2>6
  <1>3. \A u \in Txs \ {t} : Tracked(u)' = Tracked(u)
    BY <1>2, SameView
  <1>4. Tracked(t)' = [Tracked(t) EXCEPT ![n] = Tracked(t)'[n]]
    BY <1>2 DEF Tracked
  <1> QED
    BY <1>1, <1>3, <1>4, FileRefines

\* The checkout is the moment TxStore begins the transaction: its snapshot is
\* that of the checkout, not of the clone (gitstore.go:258-276).
LEMMA CheckoutRefines ==
    ASSUME TypeOK, TypeOK', NEW t \in Txs, CheckoutBranch(t)
    PROVE  Abs!Next
  <1>1. PICK d \in Docs : d = doc[t]
    BY DEF CheckoutBranch, TypeOK
  <1>2. /\ heads[d] \in Commits
        /\ phase[t] = "cloned"
        /\ UNCHANGED <<heads, doc>>
        /\ phase' = [phase EXCEPT ![t] = "open"]
        /\ local' = [local EXCEPT ![t] = heads[d]]
        /\ files' = [files EXCEPT ![t] = heads[d].tree]
        /\ index' = [index EXCEPT ![t] =
                        {n \in Names : heads[d].tree[n] # Absent}]
    BY <1>1 DEF CheckoutBranch, TypeOK
  <1>3. heads[d].tree \in [Names -> Contents \cup {Absent}]
    BY <1>2 DEF Commits, Trees
  <1>4. Tracked(t)' = heads[d].tree
    BY <1>2, <1>3 DEF Tracked, TypeOK
  <1>5. \A u \in Txs \ {t} :
            /\ Tracked(u)' = Tracked(u)
            /\ phase'[u] = phase[u]
            /\ local'[u] = local[u]
            /\ Begun(u)' = Begun(u)
    BY <1>2 DEF Tracked, Begun, TypeOK
  <1>6. /\ ~ Begun(t) /\ Begun(t)'
        /\ phase'[t] = "open"
        /\ local'[t] = heads[d]
    BY <1>2 DEF Begun, TypeOK
  <1>7. Abs!Begin(t, d)
    <2>1. [u \in Txs |-> IF phase'[u] = "open" THEN "active"
                         ELSE IF phase'[u] = "closed" THEN "over" ELSE "idle"]
          = [[u \in Txs |-> IF phase[u] = "open" THEN "active"
                            ELSE IF phase[u] = "closed" THEN "over" ELSE "idle"]
             EXCEPT ![t] = "active"]
      BY <1>5, <1>6
    <2>2. [u \in Txs |-> IF Begun(u)' THEN doc'[u] ELSE NoDoc]
          = [[u \in Txs |-> IF Begun(u) THEN doc[u] ELSE NoDoc] EXCEPT ![t] = d]
      BY <1>1, <1>2, <1>5, <1>6
    <2>3. [u \in Txs |-> IF Begun(u)' THEN local'[u] ELSE Root]
          = [[u \in Txs |-> IF Begun(u) THEN local[u] ELSE Root]
             EXCEPT ![t] = heads[d]]
      BY <1>5, <1>6
    <2>4. [u \in Txs |-> Tracked(u)']
          = [[u \in Txs |-> Tracked(u)] EXCEPT ![t] = heads[d].tree]
      BY <1>4, <1>5
    <2> QED
      BY <1>2, <2>1, <2>2, <2>3, <2>4 DEF Abs!Begin
  <1> QED
    BY <1>7 DEF Abs!Next

\* wt.Commit seals the private copy as a revision (gitstore.go:413-416).
LEMMA CommitRefines ==
    ASSUME IInv, TypeOK', NEW t \in Txs, CommitWorktree(t)
    PROVE  Abs!Next
  <1>1. PICK k \in 1..MaxCommits : k = commits[t] + 1
    BY CommitsAssumption DEF CommitWorktree, IInv, TypeOK
  <1> DEFINE made == [revs |-> local[t].revs \cup {<<t, k>>}, tree |-> Tracked(t)]
  <1>2. /\ phase[t] = "open"
        /\ UNCHANGED <<heads, phase, doc, files, index>>
        /\ local' = [local EXCEPT ![t] = made]
    BY <1>1 DEF CommitWorktree, CanStart, work, IInv, TypeOK
  <1>3. <<t, k>> \notin local[t].revs
    <2>1. Owned(local[t].revs)
      BY DEF IInv, LinesOwned
    <2>2. commits[t] \in 0..MaxCommits
      BY DEF IInv, TypeOK
    <2> QED
      BY <1>1, <2>1, <2>2, CommitsAssumption DEF Owned
  <1>4. \A u \in Txs : Tracked(u)' = Tracked(u)
    BY <1>2 DEF Tracked
  <1>5. Abs!Seal(t, k)
    BY <1>2, <1>3, <1>4 DEF Abs!Seal, Begun, IInv, TypeOK
  <1> QED
    BY <1>5 DEF Abs!Next

\* The steps on the repositories: only the push publishes (gitstore.go:421-428),
\* only Rollback ends a transaction.
LEMMA StoreRefines ==
    ASSUME TypeOK, TypeOK', NEW t \in Txs,
           \/ \E d \in Docs : CloneRepository(t, d)
           \/ CheckoutFails(t)
           \/ \E told \in BOOLEAN : PushAccepted(t, told)
           \/ PushFails(t)
           \/ Rollback(t)
    PROVE  [Abs!Next]_(Abs!vars)
  <1>1. \A u \in Txs : Tracked(u)' = Tracked(u)
    BY DEF CloneRepository, CheckoutFails, PushAccepted, PushFails, Rollback,
           work, Tracked
  <1>2. CASE \E told \in BOOLEAN : PushAccepted(t, told)
    <2>1. /\ phase[t] = "open"
          /\ heads[doc[t]].revs \subseteq local[t].revs
          /\ heads' = [heads EXCEPT ![doc[t]] = local[t]]
          /\ UNCHANGED <<phase, doc, local>>
      BY <1>2 DEF PushAccepted, Pushing, FastForward
    <2>2. Begun(t) /\ \A u \in Txs : Begun(u)' = Begun(u)
      BY <2>1 DEF Begun
    <2>3. Abs!Publish(t)
      BY <1>1, <2>1, <2>2 DEF Abs!Publish
    <2> QED
      BY <2>3 DEF Abs!Next
  <1>3. CASE Rollback(t)
    <2>1. Abs!End(t)
      BY <1>1, <1>3, ZenonT(30) DEF Rollback, Abs!End, Begun, TypeOK
    <2> QED
      BY <2>1 DEF Abs!Next
  <1>4. CASE PushFails(t)
    BY <1>1, <1>4, StutterRefines DEF PushFails
  <1>5. CASE \/ CheckoutFails(t)
             \/ \E d \in Docs : CloneRepository(t, d)
    <2>1. /\ heads' = heads
          /\ \A u \in Txs : /\ (phase'[u] = "open") = (phase[u] = "open")
                            /\ (phase'[u] = "closed") = (phase[u] = "closed")
                            /\ Begun(u) => doc'[u] = doc[u] /\ local'[u] = local[u]
      BY <1>5 DEF CheckoutFails, CloneRepository, Begun, TypeOK
    <2> QED
      BY <1>1, <2>1 DEF Abs!vars, Begun
  <1> QED
    BY <1>2, <1>3, <1>4, <1>5

\* Every step of the store is a step of TxStore or changes nothing it knows of.
LEMMA StepRefines == IInv /\ IInv' /\ [Next]_vars => [Abs!Next]_(Abs!vars)
  <1> SUFFICES ASSUME IInv, IInv', [Next]_vars PROVE [Abs!Next]_(Abs!vars)
    OBVIOUS
  <1>1. TypeOK /\ TypeOK'
    BY DEF IInv
  <1>2. CASE UNCHANGED vars
    BY <1>2, StutterRefines DEF vars, Tracked
  <1>3. ASSUME NEW t \in Txs, Step(t)
        PROVE  [Abs!Next]_(Abs!vars)
    BY <1>1, <1>3, WorkRefines, CheckoutRefines, CommitRefines, StoreRefines
       DEF Step
  <1> QED
    BY <1>2, <1>3 DEF Next

\* The git-backed store is a transactional store.
THEOREM Refinement == Spec => Transactional
  BY InitRefines, StepRefines, Inductive, PTL DEF Spec, Transactional, Abs!Spec
=============================================================================
