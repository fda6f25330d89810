------------------------------ MODULE TxStore ------------------------------
(***************************************************************************)
(* What a transactional DocStore promises to its callers.                  *)
(*                                                                         *)
(* GetDocument(id) starts a transaction: a private copy of the document as *)
(* it stands.  Everything the transaction writes stays private until       *)
(* Commit publishes it, all of it in one step, and only on top of the      *)
(* revision the transaction started from: of two transactions that started *)
(* from the same revision at most one is ever published.                   *)
(*                                                                         *)
(* A revision of a document is a commit [revs, tree]: the revisions it     *)
(* descends from, itself included, and its files.  `history' is what the   *)
(* store would hand to the next caller.                                    *)
(***************************************************************************)
EXTENDS Naturals

CONSTANTS
    Docs,         \* document IDs
    Txs,          \* transactions, each used once
    Names,        \* file names within a document
    Contents,     \* what a file can hold
    Absent,       \* stands for a file that does not exist
    NoDoc,        \* the document of a transaction that has not begun
    MaxCommits    \* bound: revisions one transaction makes

Revisions == Txs \X (1..MaxCommits)
Trees     == [Names -> Contents \cup {Absent}]
Commits   == [revs : SUBSET Revisions, tree : Trees]

\* The commit every new document starts from: branch `main', without files.
Root == [revs |-> {}, tree |-> [n \in Names |-> Absent]]

VARIABLES
    history,   \* the published commit of each document
    status,    \* "idle", "active" or "over" for each transaction
    target,    \* the document a transaction is about
    draft,     \* the commit a transaction would publish
    view       \* the files a transaction sees: its working copy

vars == <<history, status, target, draft, view>>

Init ==
    /\ history \in [Docs -> {Root}]
    /\ status = [t \in Txs |-> "idle"]
    /\ target = [t \in Txs |-> NoDoc]
    /\ draft = [t \in Txs |-> Root]
    /\ view = [t \in Txs |-> Root.tree]

\* GetDocument: a private copy of the document as it is now.
Begin(t, d) ==
    /\ status[t] = "idle"
    /\ status' = [status EXCEPT ![t] = "active"]
    /\ target' = [target EXCEPT ![t] = d]
    /\ draft' = [draft EXCEPT ![t] = history[d]]
    /\ view' = [view EXCEPT ![t] = history[d].tree]
    /\ UNCHANGED history

\* A write or a deletion changes one file of the private copy.
Write(t, n, c) ==
    /\ status[t] = "active"
    /\ view' = [view EXCEPT ![t][n] = c]
    /\ UNCHANGED <<history, status, target, draft>>

\* The first half of Commit: the private copy becomes a revision of its own.
Seal(t, k) ==
    /\ status[t] = "active"
    /\ <<t, k>> \notin draft[t].revs
    /\ draft' = [draft EXCEPT ![t] = [revs |-> draft[t].revs \cup {<<t, k>>},
                                      tree |-> view[t]]]
    /\ UNCHANGED <<history, status, target, view>>

\* The second half: the revision is published, if nobody else published
\* one that this one does not descend from.
Publish(t) ==
    /\ status[t] = "active"
    /\ history[target[t]].revs \subseteq draft[t].revs
    /\ history' = [history EXCEPT ![target[t]] = draft[t]]
    /\ UNCHANGED <<status, target, draft, view>>

\* Rollback.
End(t) ==
    /\ status[t] = "active"
    /\ status' = [status EXCEPT ![t] = "over"]
    /\ UNCHANGED <<history, target, draft, view>>

Next ==
    \E t \in Txs :
        \/ \E d \in Docs : Begin(t, d)
        \/ \E n \in Names, c \in Contents \cup {Absent} : Write(t, n, c)
        \/ \E k \in 1..MaxCommits : Seal(t, k)
        \/ Publish(t)
        \/ End(t)

Spec == Init /\ [][Next]_vars
=============================================================================
