------------------------------ MODULE GitStore ------------------------------
(***************************************************************************)
(* The git-backed document store (internal/storage/gitstore).              *)
(*                                                                         *)
(* Every document is a branch g<id> of one bare repository.  A transaction *)
(* is a clone of that repository in memory, with the branch checked out in *)
(* a working tree; its methods are called by concurrent request handlers.  *)
(* Commit is two steps on two repositories: a commit in the clone, then a  *)
(* push, which the bare repository accepts only as a fast-forward.         *)
(*                                                                         *)
(* A commit is represented by the revisions it descends from, itself       *)
(* included, and its files; so a push is a fast-forward exactly when the   *)
(* published revisions are among those of the pushed commit, and a clone   *)
(* holds the object of a commit exactly when it has its revisions.  Branch *)
(* `main', which a document without a branch starts from, is Root: it has  *)
(* no file under the document's directory.                                 *)
(***************************************************************************)
EXTENDS Naturals, FiniteSets

CONSTANTS
    Docs,         \* document IDs
    Txs,          \* transactions: results of GetDocument, each used once
    RootFiles,    \* meta.xml, document.bin
    Attachments,  \* names under att/
    Contents,     \* what a file can hold
    Empty,        \* the contents of a file just created or truncated
    Absent,       \* stands for a file that does not exist
    NoDoc,        \* the document of a transaction not started yet
    MaxCommits,   \* bound: calls of Commit per transaction
    MaxHandlers   \* bound: handlers at work on one transaction

Names == RootFiles \cup Attachments

Revisions == Txs \X (1..MaxCommits)
Trees     == [Names -> Contents \cup {Absent}]
Commits   == [revs : SUBSET Revisions, tree : Trees]

ASSUME EmptyAssumption  == Empty \in Contents
ASSUME AbsentAssumption == Absent \notin Contents
ASSUME NoDocAssumption  == NoDoc \notin Docs
ASSUME CommitsAssumption == MaxCommits \in Nat

Root == [revs |-> {}, tree |-> [n \in Names |-> Absent]]

VARIABLES
    heads,     \* the bare repository: the commit each branch points to
    phase,     \* "none", "cloned", "open", "failed" or "closed"
    doc,       \* transaction.dir
    local,     \* the head of the branch in the clone
    files,     \* the working tree of the clone
    index,     \* the names git tracks in the clone
    pending,   \* files created but not yet added: <<name, why>>
    writing,   \* files a handler holds a writer for
    pushing,   \* calls of Commit between the commit and the answer to the push
    commits,   \* commits made in the clone
    acked      \* revisions a Commit that returned nil has vouched for

vars == <<heads, phase, doc, local, files, index, pending, writing, pushing,
          commits, acked>>
store == <<heads, phase, doc, local, pushing, commits, acked>>
work  == <<files, index, pending, writing>>

Init ==
    /\ heads = [d \in Docs |-> Root]
    /\ phase = [t \in Txs |-> "none"]
    /\ doc = [t \in Txs |-> NoDoc]
    /\ local = [t \in Txs |-> Root]
    /\ files = [t \in Txs |-> Root.tree]
    /\ index = [t \in Txs |-> {}]
    /\ pending = [t \in Txs |-> {}]
    /\ writing = [t \in Txs |-> {}]
    /\ pushing = [t \in Txs |-> 0]
    /\ commits = [t \in Txs |-> 0]
    /\ acked = [t \in Txs |-> {}]

-----------------------------------------------------------------------------
(* GetDocument: the clone, then the branch as the repository has it now.   *)

CloneRepository(t, d) ==
    /\ phase[t] = "none"
    /\ phase' = [phase EXCEPT ![t] = "cloned"]
    /\ doc' = [doc EXCEPT ![t] = d]
    /\ local' = [local EXCEPT ![t] = heads[d]]
    /\ UNCHANGED <<heads, pushing, commits, acked, work>>

\* The checkout is of the hash the branch has in the bare repository by now.
CheckoutBranch(t) ==
    LET head == heads[doc[t]] IN
    /\ phase[t] = "cloned"
    /\ head.revs \subseteq local[t].revs
    /\ phase' = [phase EXCEPT ![t] = "open"]
    /\ local' = [local EXCEPT ![t] = head]
    /\ files' = [files EXCEPT ![t] = head.tree]
    /\ index' = [index EXCEPT ![t] = {n \in Names : head.tree[n] # Absent}]
    /\ UNCHANGED <<heads, doc, pending, writing, pushing, commits, acked>>

\* ... and the clone has no such object if a push came in between.
CheckoutFails(t) ==
    /\ phase[t] = "cloned"
    /\ ~ (heads[doc[t]].revs \subseteq local[t].revs)
    /\ phase' = [phase EXCEPT ![t] = "failed"]
    /\ UNCHANGED <<heads, doc, local, pushing, commits, acked, work>>

-----------------------------------------------------------------------------
(* The working tree.  Handlers of one transaction interleave freely.       *)

Handlers(t) == Cardinality(pending[t]) + Cardinality(writing[t]) + pushing[t]

CanStart(t) == phase[t] = "open" /\ Handlers(t) < MaxHandlers

\* WriteRootFile, WriteAttachment: Create truncates the file ...
CreateFile(t, n) ==
    /\ CanStart(t)
    /\ files' = [files EXCEPT ![t][n] = Empty]
    /\ pending' = [pending EXCEPT ![t] = @ \cup {<<n, "write">>}]
    /\ UNCHANGED <<store, index, writing>>

\* NewAttachmentID: an empty file under a name not in use.
NewAttachmentID(t, n) ==
    /\ CanStart(t)
    /\ n \in Attachments
    /\ files[t][n] = Absent
    /\ files' = [files EXCEPT ![t][n] = Empty]
    /\ pending' = [pending EXCEPT ![t] = @ \cup {<<n, "reserve">>}]
    /\ UNCHANGED <<store, index, writing>>

\* ... and wt.Add makes git track it, if it is still there.
AddFile(t, n, why) ==
    /\ phase[t] = "open"
    /\ <<n, why>> \in pending[t]
    /\ pending' = [pending EXCEPT ![t] = @ \ {<<n, why>>}]
    /\ index' = [index EXCEPT ![t] = IF files[t][n] = Absent THEN @
                                                             ELSE @ \cup {n}]
    /\ writing' = [writing EXCEPT ![t] = IF why = "write" THEN @ \cup {n}
                                                          ELSE @]
    /\ UNCHANGED <<store, files>>

\* The caller copies some of its data; a file deleted meanwhile stays deleted.
WriteFile(t, n, c) ==
    /\ phase[t] = "open"
    /\ n \in writing[t]
    /\ files' = [files EXCEPT ![t][n] = IF @ = Absent THEN @ ELSE c]
    /\ UNCHANGED <<store, index, pending, writing>>

CloseFile(t, n) ==
    /\ phase[t] = "open"
    /\ n \in writing[t]
    /\ writing' = [writing EXCEPT ![t] = @ \ {n}]
    /\ UNCHANGED <<store, files, index, pending>>

\* wt.Remove knows tracked files only.
DeleteAttachment(t, n) ==
    /\ phase[t] = "open"
    /\ n \in Attachments \cap index[t]
    /\ files' = [files EXCEPT ![t][n] = Absent]
    /\ index' = [index EXCEPT ![t] = @ \ {n}]
    /\ UNCHANGED <<store, pending, writing>>

-----------------------------------------------------------------------------
(* Commit and Rollback.                                                    *)

Tracked(t) == [n \in Names |-> IF n \in index[t] THEN files[t][n] ELSE Absent]

\* Mutant of CommitWorktree: files git does not track are committed, too.
CommitUntracked(t) ==
    /\ CanStart(t)
    /\ commits[t] < MaxCommits
    /\ commits' = [commits EXCEPT ![t] = @ + 1]
    /\ local' = [local EXCEPT ![t] =
                    [revs |-> @.revs \cup {<<t, commits[t] + 1>>},
                     tree |-> files[t]]]
    /\ pushing' = [pushing EXCEPT ![t] = @ + 1]
    /\ UNCHANGED <<heads, phase, doc, acked, work>>

\* Mutant of CommitWorktree: the new commit also gets the published head as
\* a parent, without its files.
CommitMerged(t) ==
    /\ CanStart(t)
    /\ commits[t] < MaxCommits
    /\ commits' = [commits EXCEPT ![t] = @ + 1]
    /\ local' = [local EXCEPT ![t] =
                    [revs |-> @.revs \cup heads[doc[t]].revs
                                    \cup {<<t, commits[t] + 1>>},
                     tree |-> Tracked(t)]]
    /\ pushing' = [pushing EXCEPT ![t] = @ + 1]
    /\ UNCHANGED <<heads, phase, doc, acked, work>>

\* wt.Commit with All: whatever the tracked files hold right now.
CommitWorktree(t) ==
    /\ CanStart(t)
    /\ commits[t] < MaxCommits
    /\ commits' = [commits EXCEPT ![t] = @ + 1]
    /\ local' = [local EXCEPT ![t] =
                    [revs |-> @.revs \cup {<<t, commits[t] + 1>>},
                     tree |-> Tracked(t)]]
    /\ pushing' = [pushing EXCEPT ![t] = @ + 1]
    /\ UNCHANGED <<heads, phase, doc, acked, work>>

\* Mutant of Pushing: an answer to a push nobody is waiting for.
PushingAnyway(t) == phase[t] = "open"

Pushing(t) == phase[t] = "open" /\ pushing[t] > 0

EndPush(t) == pushing' = [pushing EXCEPT ![t] = @ - 1]

\* Mutant of FastForward: a refspec with a plus sign, a forced push.
Forced(t) == heads[doc[t]].revs # local[t].revs

FastForward(t) ==
    /\ heads[doc[t]].revs \subseteq local[t].revs
    /\ heads[doc[t]].revs # local[t].revs

\* The push of what the branch of the clone points to; the caller may be
\* told of an error after the repository has taken it.
PushAccepted(t, told) ==
    /\ Pushing(t)
    /\ FastForward(t)
    /\ heads' = [heads EXCEPT ![doc[t]] = local[t]]
    /\ acked' = IF told THEN [acked EXCEPT ![t] = local[t].revs] ELSE acked
    /\ EndPush(t)
    /\ UNCHANGED <<phase, doc, local, commits, work>>

\* Not a fast-forward, nothing new to push, or a failure before any effect.
PushFails(t) ==
    /\ Pushing(t)
    /\ EndPush(t)
    /\ UNCHANGED <<heads, phase, doc, local, commits, acked, work>>

\* Called by the one goroutine that has the transaction.
Rollback(t) ==
    /\ phase[t] = "open"
    /\ Handlers(t) = 0
    /\ phase' = [phase EXCEPT ![t] = "closed"]
    /\ UNCHANGED <<heads, doc, local, pushing, commits, acked, work>>

-----------------------------------------------------------------------------
Step(t) ==
    \/ \E d \in Docs : CloneRepository(t, d)
    \/ CheckoutBranch(t)
    \/ CheckoutFails(t)
    \/ \E n \in Names : CreateFile(t, n)
    \/ \E n \in Names : NewAttachmentID(t, n)
    \/ \E n \in Names, why \in {"write", "reserve"} : AddFile(t, n, why)
    \/ \E n \in Names, c \in Contents : WriteFile(t, n, c)
    \/ \E n \in Names : CloseFile(t, n)
    \/ \E n \in Names : DeleteAttachment(t, n)
    \/ CommitWorktree(t)
    \/ \E told \in BOOLEAN : PushAccepted(t, told)
    \/ PushFails(t)
    \/ Rollback(t)

Next == \E t \in Txs : Step(t)

Spec == Init /\ [][Next]_vars

-----------------------------------------------------------------------------
(* Properties.                                                             *)

TypeOK ==
    /\ heads \in [Docs -> Commits]
    /\ phase \in [Txs -> {"none", "cloned", "open", "failed", "closed"}]
    /\ doc \in [Txs -> Docs \cup {NoDoc}]
    /\ \A t \in Txs : phase[t] # "none" => doc[t] \in Docs
    /\ local \in [Txs -> Commits]
    /\ files \in [Txs -> Trees]
    /\ index \in [Txs -> SUBSET Names]
    /\ pending \in [Txs -> SUBSET (Names \X {"write", "reserve"})]
    /\ writing \in [Txs -> SUBSET Names]
    /\ pushing \in [Txs -> Nat]
    /\ commits \in [Txs -> 0..MaxCommits]
    /\ acked \in [Txs -> SUBSET Revisions]

\* What Commit has reported as saved (gitstore.go:428 returning nil) stays in
\* the history of the document, whatever other transactions push.
AckedSurvives ==
    \A t \in Txs : acked[t] # {} => acked[t] \subseteq heads[doc[t]].revs

\* No lost update: of two transactions on one document whose Commits returned
\* nil, one was built on everything the other saved.
NoLostUpdate ==
    \A t, u \in Txs :
        doc[t] = doc[u] => \/ acked[t] \subseteq acked[u]
                           \/ acked[u] \subseteq acked[t]

\* A transaction is in conflict once its branch has a revision it lacks.
Conflict(t) ==
    phase[t] \in {"cloned", "open"} /\ ~ (heads[doc[t]].revs \subseteq local[t].revs)

\* A conflict never goes away by itself: nothing a transaction does after
\* another one has pushed (a retried finalize-draft) makes its push acceptable.
ConflictIsFinal ==
    [][\A t \in Txs : Conflict(t) => \/ Conflict(t)'
                                     \/ phase'[t] \in {"failed", "closed"}]_vars

\* The store is transactional: its steps are those of TxStore, in which a
\* transaction has a private snapshot and is published whole or not at all.
\* A file belongs to the snapshot once git tracks it.
Begun(t) == phase[t] \in {"open", "closed"}

Abs == INSTANCE TxStore WITH
    history <- heads,
    status  <- [t \in Txs |-> IF phase[t] = "open" THEN "active"
                              ELSE IF phase[t] = "closed" THEN "over"
                              ELSE "idle"],
    target  <- [t \in Txs |-> IF Begun(t) THEN doc[t] ELSE NoDoc],
    draft   <- [t \in Txs |-> IF Begun(t) THEN local[t] ELSE Root],
    view    <- [t \in Txs |-> Tracked(t)]

Transactional == Abs!Spec
=============================================================================
