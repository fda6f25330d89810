------------------------------ MODULE DraftApi ------------------------------
(***************************************************************************)
(* The draft API of the web server (cmd/hoard) over either document store, *)
(* with the browser extension that calls it.                               *)
(*                                                                         *)
(* A capture is one click in the extension: /api/capture-new-doc finds the *)
(* document that already holds this URL for this user, or allocates a new  *)
(* one, and answers with the ID of a transaction; the extension uploads    *)
(* the page's attachments and the page, then asks to finalize the draft.   *)
(* Requests of one capture follow each other, except that a connection     *)
(* that breaks leaves its handler running while the extension goes on; the *)
(* per-transaction mutex is copied out of the map (hoard.go:433) and so    *)
(* excludes nobody.                                                        *)
(*                                                                         *)
(* backend = "git": a transaction works on a private copy, and Commit      *)
(* publishes it if its branch has not moved (GitStore, TxStore).           *)
(* backend = "fs": a transaction is the document itself, and Commit and    *)
(* Rollback do nothing.                                                    *)
(***************************************************************************)
EXTENDS Naturals, FiniteSets

CONSTANTS
    Captures,     \* captures; each names the attachment its page refers to
    Keys,         \* what identifies a document to its users: owner and URL
    Docs,         \* document IDs
    NoDoc,        \* the document of a capture that has none yet
    Backends,     \* the stores the server may be started with
    Remote,       \* captures of pages whose attachment may be on another site
    MaxTroubles   \* bound: restarts of the server, and store calls that fail

ASSUME NoDocAssumption   == NoDoc \notin Docs
ASSUME BackendAssumption == Backends \subseteq {"git", "fs"}
ASSUME RemoteAssumption  == Remote \subseteq Captures
ASSUME NamesAssumption   == Captures \cap {"meta.xml", "document.bin"} = {}
ASSUME TroublesAssumption == MaxTroubles \in Nat

-----------------------------------------------------------------------------
(* Documents.                                                              *)

FileNames == {"meta.xml", "document.bin"} \cup Captures

Absent == [kind |-> "absent"]
Torn   == [kind |-> "torn"]      \* created or truncated, not yet filled
Full   == [kind |-> "attachment"]
MetaOf(k, s)    == [kind |-> "meta", key |-> k, status |-> s]
PageOf(c, refs) == [kind |-> "page", by |-> c, refs |-> refs]

Contents ==
    {Torn, Full}
    \cup {MetaOf(k, s) : k \in Keys, s \in {"draft", "static"}}
    \cup {PageOf(c, r) : c \in Captures, r \in BOOLEAN}

Trees == [FileNames -> Contents \cup {Absent}]
Root  == [revs |-> {}, tree |-> [n \in FileNames |-> Absent]]

Readable(tree) == tree["meta.xml"].kind = "meta"

VARIABLES
    key,           \* what each capture is of: an owner and URL
    backend,       \* the store: "git" or "fs"
    listed,        \* the IDs DocumentIDs returns
    stored,        \* what the store holds: revisions (git) and files
    pc,            \* where each capture is
    doc,           \* the document it is about
    todo,          \* documents still to scan, or attachments still to delete
    carried,       \* the key in the DocumentMeta its handler holds
    work,          \* the private copy of its transaction (git)
    sealed,        \* the commit of its transaction (git)
    up,            \* the handler that takes its attachment
    refers,        \* captures whose page was given a name for its attachment
    transactions,  \* the map of open drafts
    clean,         \* history: no upload or deletion failed, none was dropped
    known,         \* history: documents with its key when it listed them
    met,           \* history: captures at work on its document since it began
    troubles

vars == <<key, backend, listed, stored, pc, doc, todo, carried, work, sealed, up,
          refers, transactions, clean, known, met, troubles>>

Init ==
    /\ key \in [Captures -> Keys]
    /\ backend \in Backends
    /\ listed = {}
    /\ stored = [d \in Docs |-> Root]
    /\ pc = [c \in Captures |-> "idle"]
    /\ doc = [c \in Captures |-> NoDoc]
    /\ todo = [c \in Captures |-> {}]
    /\ carried = key
    /\ work = [c \in Captures |-> Root.tree]
    /\ sealed = [c \in Captures |-> Root]
    /\ up = [c \in Captures |-> "none"]
    /\ refers = {}
    /\ transactions = {}
    /\ clean = [c \in Captures |-> TRUE]
    /\ known = [c \in Captures |-> {}]
    /\ met = [c \in Captures |-> {}]
    /\ troubles = 0

\* What a run of the server is given, and what hardly any step changes.
given == <<key, backend, refers>>

Goto(c, label) == pc' = [pc EXCEPT ![c] = label]

-----------------------------------------------------------------------------
(* The store as a transaction sees it.                                     *)

Files(c) == IF backend = "git" THEN work[c] ELSE stored[doc[c]].tree

Put(c, n, content) ==
    \/ /\ backend = "git"
       /\ work' = [work EXCEPT ![c][n] = content]
       /\ UNCHANGED stored
    \/ /\ backend = "fs"
       /\ stored' = [stored EXCEPT ![doc[c]].tree[n] = content]
       /\ UNCHANGED work

\* Mutant of Join: the commit is made on `main' rather than on the branch.
JoinMain(c, d) ==
    /\ doc' = [doc EXCEPT ![c] = d]
    /\ \/ /\ backend = "git"
          /\ work' = [work EXCEPT ![c] = stored[d].tree]
          /\ sealed' = [sealed EXCEPT ![c] = Root]
       \/ backend = "fs" /\ UNCHANGED <<work, sealed>>

\* GetDocument(d).
Join(c, d) ==
    /\ doc' = [doc EXCEPT ![c] = d]
    /\ \/ /\ backend = "git"
          /\ work' = [work EXCEPT ![c] = stored[d].tree]
          /\ sealed' = [sealed EXCEPT ![c] = stored[d]]
       \/ backend = "fs" /\ UNCHANGED <<work, sealed>>

\* Steps that change none of the history variables, nor the bounds' counters.
Plain == UNCHANGED <<given, clean, known, met, troubles>>

-----------------------------------------------------------------------------
(* /api/capture-new-doc and /api/new-doc.                                  *)

Serving  == {"scan", "list", "clear", "draftMeta"}
Saving   == {"finalMeta", "static", "commit", "push"}
Waiting  == {"draft", "attach", "page", "final"}
Upload   == {"fetch", "lookup", "create", "copy"}

SavedFor(d, k) == stored[d].tree["meta.xml"] = MetaOf(k, "static")

\* GetDocumentByURL lists the store ...
ListDocuments(c) ==
    /\ pc[c] = "idle"
    /\ Goto(c, "scan")
    /\ todo' = [todo EXCEPT ![c] = listed]
    /\ known' = [known EXCEPT ![c] = {d \in listed : SavedFor(d, key[c])}]
    /\ UNCHANGED <<listed, stored, doc, carried, work, sealed, up,
                   transactions, given, clean, met, troubles>>

\* Mutant of ScanUnreadable: a document without metadata is taken over.
ScanTakesOver(c, d) ==
    /\ pc[c] = "scan" /\ d \in todo[c]
    /\ ~ Readable(stored[d].tree)
    /\ Join(c, d)
    /\ Goto(c, "list")
    /\ UNCHANGED <<listed, stored, todo, carried, up, transactions>>
    /\ Plain

\* ... and reads each meta.xml: one it cannot read fails the request,
ScanUnreadable(c, d) ==
    /\ pc[c] = "scan" /\ d \in todo[c]
    /\ ~ Readable(stored[d].tree)
    /\ Goto(c, "failed")
    /\ UNCHANGED <<listed, stored, doc, todo, carried, work, sealed, up,
                   transactions>>
    /\ Plain

\* one of another URL or owner is passed over,
ScanOther(c, d) ==
    /\ pc[c] = "scan" /\ d \in todo[c]
    /\ Readable(stored[d].tree)
    /\ stored[d].tree["meta.xml"].key # key[c]
    /\ todo' = [todo EXCEPT ![c] = @ \ {d}]
    /\ UNCHANGED <<listed, stored, pc, doc, carried, work, sealed, up,
                   transactions>>
    /\ Plain

\* A capture that can still act on its document.
Live(c) ==
    \/ pc[c] \in Serving \cup Saving \cup {"copyPage"}
    \/ pc[c] \in Waiting /\ c \in transactions
    \/ up[c] \in Upload

\* Mutant of ScanMatch: the owner is not compared.
ScanAny(c, d) ==
    /\ pc[c] = "scan" /\ d \in todo[c]
    /\ Readable(stored[d].tree)
    /\ Join(c, d)
    /\ Goto(c, "list")
    /\ UNCHANGED <<listed, stored, todo, carried, up, transactions>>
    /\ Plain

\* and the first of this URL and owner is reused.
ScanMatch(c, d) ==
    /\ pc[c] = "scan" /\ d \in todo[c]
    /\ Readable(stored[d].tree)
    /\ stored[d].tree["meta.xml"].key = key[c]
    /\ Join(c, d)
    /\ Goto(c, "list")
    /\ met' = [x \in Captures |->
                IF x = c THEN {y \in Captures : doc[y] = d /\ Live(y)}
                ELSE IF doc[x] = d THEN met[x] \cup {c}
                ELSE met[x]]
    /\ UNCHANGED <<listed, stored, todo, carried, up, transactions, given, clean,
                   known, troubles>>

\* Mutant of ListAttachments: names that are no attachment's are listed, too.
ListFiles(c) ==
    /\ pc[c] = "list"
    /\ Goto(c, "clear")
    /\ todo' = [todo EXCEPT ![c] = {n \in FileNames : Files(c)[n] # Absent}]
    /\ UNCHANGED <<listed, stored, doc, carried, work, sealed, up, transactions>>
    /\ Plain

ListAttachments(c) ==
    /\ pc[c] = "list"
    /\ Goto(c, "clear")
    /\ todo' = [todo EXCEPT ![c] = {n \in Captures : Files(c)[n] # Absent}]
    /\ UNCHANGED <<listed, stored, doc, carried, work, sealed, up, transactions>>
    /\ Plain

DeleteOldAttachment(c, n) ==
    /\ pc[c] = "clear" /\ n \in todo[c]
    /\ Put(c, n, Absent)
    /\ todo' = [todo EXCEPT ![c] = @ \ {n}]
    /\ UNCHANGED <<listed, pc, doc, carried, sealed, up, transactions>>
    /\ Plain

\* NewDocumentID: the file store makes the directory, so the document exists
\* from here on; the git store has no branch before the first push.
Allocate(c, d) ==
    /\ d \notin listed
    /\ \A x \in Captures : doc[x] # d
    /\ listed' = IF backend = "fs" THEN listed \cup {d} ELSE listed
    /\ Join(c, d)

\* Mutant of AllocateDocument: the scan may stop before its end.
AllocateEarly(c, d) ==
    /\ pc[c] = "scan"
    /\ Allocate(c, d)
    /\ Goto(c, "clear")
    /\ todo' = [todo EXCEPT ![c] = {}]
    /\ UNCHANGED <<stored, carried, up, transactions>>
    /\ Plain

AllocateDocument(c, d) ==
    /\ pc[c] = "scan" /\ todo[c] = {}
    /\ Allocate(c, d)
    /\ Goto(c, "clear")
    /\ UNCHANGED <<stored, todo, carried, up, transactions>>
    /\ Plain

\* WriteMeta: WriteRootFile truncates the file, Encode fills it.
CreateDraftMeta(c) ==
    /\ pc[c] = "clear" /\ todo[c] = {}
    /\ Put(c, "meta.xml", Torn)
    /\ Goto(c, "draftMeta")
    /\ UNCHANGED <<listed, doc, todo, carried, sealed, up, transactions>>
    /\ Plain

EncodeDraftMeta(c) ==
    /\ pc[c] = "draftMeta"
    /\ Put(c, "meta.xml", MetaOf(key[c], "draft"))
    /\ transactions' = transactions \cup {c}
    /\ Goto(c, "draft")
    /\ UNCHANGED <<listed, doc, todo, carried, sealed, up>>
    /\ Plain

\* /api/new-doc hands out a new document as it is, without meta.xml.
NewDoc(c, d) ==
    /\ pc[c] = "idle"
    /\ Allocate(c, d)
    /\ transactions' = transactions \cup {c}
    /\ Goto(c, "draft")
    /\ UNCHANGED <<stored, todo, carried, up>>
    /\ Plain

-----------------------------------------------------------------------------
(* The uploads.  `up' is the handler of upload-attachment or of             *)
(* proxy-attachment, which goes on by itself once the request has arrived.  *)

\* The extension gets a name for its attachment, and uploads it;
NewAttachment(c) ==
    /\ pc[c] = "draft" /\ c \in transactions
    /\ Put(c, c, Torn)
    /\ up' = [up EXCEPT ![c] = "lookup"]
    /\ refers' = refers \cup {c}
    /\ Goto(c, "attach")
    /\ UNCHANGED <<listed, doc, todo, carried, sealed, transactions, key, backend,
                   clean, known, met, troubles>>

\* or it has the server fetch what is on another site,
ProxyAttachment(c) ==
    /\ c \in Remote
    /\ pc[c] = "draft" /\ c \in transactions
    /\ up' = [up EXCEPT ![c] = "fetch"]
    /\ Goto(c, "attach")
    /\ UNCHANGED <<listed, stored, doc, todo, carried, work, sealed, transactions>>
    /\ Plain

\* which then makes the file,
Fetched(c) ==
    /\ up[c] = "fetch"
    /\ Put(c, c, Torn)
    /\ up' = [up EXCEPT ![c] = "create"]
    /\ UNCHANGED <<listed, pc, doc, todo, carried, sealed, transactions>>
    /\ Plain

\* or finds that it is no style sheet, image or font.
Unfetched(c) ==
    /\ up[c] = "fetch"
    /\ up' = [up EXCEPT ![c] = "broken"]
    /\ UNCHANGED <<listed, stored, pc, doc, todo, carried, work, sealed, transactions>>
    /\ Plain

\* A page without attachments.
NoAttachment(c) ==
    /\ pc[c] = "draft"
    /\ Goto(c, "page")
    /\ UNCHANGED <<listed, stored, doc, todo, carried, work, sealed, up,
                   transactions>>
    /\ Plain

\* AttachmentNameFromID, and the read of what is there so far.
LookupAttachment(c) ==
    /\ up[c] = "lookup"
    /\ \/ /\ Files(c)[c] # Absent
          /\ up' = [up EXCEPT ![c] = "create"]
          /\ UNCHANGED clean
       \/ /\ Files(c)[c] = Absent
          /\ up' = [up EXCEPT ![c] = "broken"]
          /\ clean' = [clean EXCEPT ![c] = FALSE]
    /\ UNCHANGED <<listed, stored, pc, doc, todo, carried, work, sealed,
                   transactions, given, known, met, troubles>>

CreateAttachment(c) ==
    /\ up[c] = "create"
    /\ Put(c, c, Torn)
    /\ up' = [up EXCEPT ![c] = "copy"]
    /\ UNCHANGED <<listed, pc, doc, todo, carried, sealed, transactions>>
    /\ Plain

\* Mutant of CopyAttachment: the handler answers without having copied.
AnswerUncopied(c) ==
    /\ up[c] = "copy"
    /\ up' = [up EXCEPT ![c] = "over"]
    /\ UNCHANGED <<listed, stored, pc, doc, todo, carried, work, sealed,
                   transactions>>
    /\ Plain

\* What is copied into a file deleted meanwhile is lost, and answered "ok".
CopyAttachment(c) ==
    /\ up[c] = "copy"
    /\ Put(c, c, IF Files(c)[c] = Absent THEN Absent ELSE Full)
    /\ up' = [up EXCEPT ![c] = "over"]
    /\ UNCHANGED <<listed, pc, doc, todo, carried, sealed, transactions>>
    /\ Plain

\* The extension goes on when it has an answer: with the name in the answer of
\* proxy-attachment, and whatever upload-attachment says ...
AttachmentAnswered(c) ==
    /\ pc[c] = "attach" /\ up[c] \in {"over", "broken"}
    /\ refers' = IF up[c] = "over" THEN refers \cup {c} ELSE refers
    /\ Goto(c, "page")
    /\ UNCHANGED <<listed, stored, doc, todo, carried, work, sealed, up, transactions,
                   key, backend, clean, known, met, troubles>>

\* ... or when its connection broke: tryAttach catches the exception.
AttachmentDropped(c) ==
    /\ pc[c] = "attach" /\ up[c] \in Upload
    /\ Goto(c, "page")
    /\ clean' = [clean EXCEPT ![c] = FALSE]
    /\ UNCHANGED <<listed, stored, doc, todo, carried, work, sealed, up,
                   transactions, given, known, met, troubles>>

CreatePage(c) ==
    /\ pc[c] = "page" /\ c \in transactions
    /\ Put(c, "document.bin", Torn)
    /\ Goto(c, "copyPage")
    /\ UNCHANGED <<listed, doc, todo, carried, sealed, up, transactions>>
    /\ Plain

Refers(c) == c \in refers

\* The page comes in one chunk.  Of a longer one only the last chunk would be left
\* (hoard.go:519; ChunkUpload has it).
CopyPage(c) ==
    /\ pc[c] = "copyPage"
    /\ Put(c, "document.bin", PageOf(c, Refers(c)))
    /\ Goto(c, "final")
    /\ UNCHANGED <<listed, doc, todo, carried, sealed, up, transactions>>
    /\ Plain

-----------------------------------------------------------------------------
(* /api/finalize-draft.                                                     *)

ReadDraftMeta(c) ==
    /\ pc[c] = "final" /\ c \in transactions
    /\ \/ /\ Readable(Files(c))
          /\ carried' = [carried EXCEPT ![c] = Files(c)["meta.xml"].key]
          /\ Goto(c, "finalMeta")
       \/ /\ ~ Readable(Files(c))
          /\ Goto(c, "failed")
          /\ UNCHANGED carried
    /\ UNCHANGED <<listed, stored, doc, todo, work, sealed, up, transactions>>
    /\ Plain

CreateStaticMeta(c) ==
    /\ pc[c] = "finalMeta"
    /\ Put(c, "meta.xml", Torn)
    /\ Goto(c, "static")
    /\ UNCHANGED <<listed, doc, todo, carried, sealed, up, transactions>>
    /\ Plain

\* Mutant of EncodeStaticMeta: the status is left as it was.
EncodeMetaAgain(c) ==
    /\ pc[c] = "static"
    /\ Put(c, "meta.xml", MetaOf(carried[c], "draft"))
    /\ Goto(c, "commit")
    /\ UNCHANGED <<listed, doc, todo, carried, sealed, up, transactions>>
    /\ Plain

EncodeStaticMeta(c) ==
    /\ pc[c] = "static"
    /\ Put(c, "meta.xml", MetaOf(carried[c], "static"))
    /\ Goto(c, "commit")
    /\ UNCHANGED <<listed, doc, todo, carried, sealed, up, transactions>>
    /\ Plain

\* Commit.  On files it does nothing; the draft is done and forgotten.
CommitFiles(c) ==
    /\ pc[c] = "commit" /\ backend = "fs"
    /\ transactions' = transactions \ {c}
    /\ Goto(c, "done")
    /\ UNCHANGED <<listed, stored, doc, todo, carried, work, sealed, up>>
    /\ Plain

SealRevision(c) ==
    /\ pc[c] = "commit" /\ backend = "git"
    /\ sealed' = [sealed EXCEPT ![c] = [revs |-> @.revs \cup {<<c, 1>>},
                                        tree |-> work[c]]]
    /\ Goto(c, "push")
    /\ UNCHANGED <<listed, stored, doc, todo, carried, work, up, transactions>>
    /\ Plain

\* Mutant of FastForward: a forced push.
Forced(c) == doc[c] # NoDoc

FastForward(c) == stored[doc[c]].revs \subseteq sealed[c].revs

\* The push is taken; the handler may still be told of an error.
PushAccepted(c) ==
    /\ pc[c] = "push" /\ FastForward(c)
    /\ stored' = [stored EXCEPT ![doc[c]] = sealed[c]]
    /\ listed' = listed \cup {doc[c]}
    /\ \/ /\ Goto(c, "done")
          /\ transactions' = transactions \ {c}
       \/ /\ Goto(c, "failed")
          /\ UNCHANGED transactions
    /\ UNCHANGED <<doc, todo, carried, work, sealed, up>>
    /\ Plain

PushRejected(c) ==
    /\ pc[c] = "push" /\ ~ FastForward(c)
    /\ Goto(c, "failed")
    /\ UNCHANGED <<listed, stored, doc, todo, carried, work, sealed, up,
                   transactions>>
    /\ Plain

-----------------------------------------------------------------------------
(* What goes wrong around the handlers.                                     *)

\* A call of the store fails (in the git store also because a push came between
\* the clone and the checkout of GetDocument) and its handler answers with the
\* error: the extension gives up, or, while it uploads, logs it and goes on.
\* Of the deletion of an old attachment the handler ignores the error.
StoreFails(c) ==
    /\ troubles < MaxTroubles
    /\ troubles' = troubles + 1
    /\ \/ /\ pc[c] \in Serving \cup Saving \cup {"final"}
          /\ pc[c] = "final" => c \in transactions
          /\ pc[c] = "clear" => todo[c] = {}
          /\ Goto(c, "failed")
          /\ UNCHANGED <<todo, up, clean>>
       \/ /\ pc[c] = "clear"
          /\ \E n \in todo[c] : todo' = [todo EXCEPT ![c] = @ \ {n}]
          /\ clean' = [clean EXCEPT ![c] = FALSE]
          /\ UNCHANGED <<pc, up>>
       \/ /\ \/ pc[c] = "page" /\ c \in transactions
             \/ pc[c] = "copyPage"
          /\ Goto(c, "final")
          /\ clean' = [clean EXCEPT ![c] = FALSE]
          /\ UNCHANGED <<todo, up>>
       \/ /\ up[c] \in Upload
          /\ up' = [up EXCEPT ![c] = "broken"]
          /\ clean' = [clean EXCEPT ![c] = FALSE]
          /\ UNCHANGED <<pc, todo>>
    /\ UNCHANGED <<listed, stored, doc, carried, work, sealed,
                   transactions, given, known, met>>

\* mustDraft does not know the transaction (any more).
Refused(c) ==
    /\ c \notin transactions
    /\ \/ pc[c] = "draft" /\ Goto(c, "page")
       \/ pc[c] = "page" /\ Goto(c, "final")
       \/ pc[c] = "final" /\ Goto(c, "failed")
    /\ clean' = [clean EXCEPT ![c] = FALSE]
    /\ UNCHANGED <<listed, stored, doc, todo, carried, work, sealed, up,
                   transactions, given, known, met, troubles>>

\* The tab is closed between two requests; its draft stays in the map.
Abandon(c) ==
    /\ pc[c] \in Waiting
    /\ Goto(c, "gone")
    /\ UNCHANGED <<listed, stored, doc, todo, carried, work, sealed, up,
                   transactions>>
    /\ Plain

\* The server stops and starts again: handlers and open drafts are gone.
Restart ==
    /\ troubles < MaxTroubles
    /\ troubles' = troubles + 1
    /\ transactions' = {}
    /\ pc' = [c \in Captures |->
                IF pc[c] \in Serving \cup Saving \cup {"copyPage"}
                THEN "failed" ELSE pc[c]]
    /\ up' = [c \in Captures |-> IF up[c] \in Upload THEN "broken" ELSE up[c]]
    /\ clean' = [c \in Captures |-> clean[c] /\ up[c] \notin Upload]
    /\ UNCHANGED <<given, listed, stored, doc, todo, carried, work, sealed, known,
                   met>>

-----------------------------------------------------------------------------
\* What the server does once it has the request.
Handle(c) ==
    \/ \E d \in Docs : ScanUnreadable(c, d)
    \/ \E d \in Docs : ScanOther(c, d)
    \/ \E d \in Docs : ScanMatch(c, d)
    \/ ListAttachments(c)
    \/ \E n \in Captures : DeleteOldAttachment(c, n)
    \/ \E d \in Docs : AllocateDocument(c, d)
    \/ CreateDraftMeta(c)
    \/ EncodeDraftMeta(c)
    \/ CreateStaticMeta(c)
    \/ EncodeStaticMeta(c)
    \/ CommitFiles(c)
    \/ SealRevision(c)
    \/ PushAccepted(c)
    \/ PushRejected(c)
    \/ CopyPage(c)

HandleUpload(c) ==
    \/ Fetched(c)
    \/ Unfetched(c)
    \/ LookupAttachment(c)
    \/ CreateAttachment(c)
    \/ CopyAttachment(c)

\* What the extension asks for.
Request(c) ==
    \/ ListDocuments(c)
    \/ \E d \in Docs : NewDoc(c, d)
    \/ NewAttachment(c)
    \/ ProxyAttachment(c)
    \/ NoAttachment(c)
    \/ AttachmentAnswered(c)
    \/ AttachmentDropped(c)
    \/ CreatePage(c)
    \/ ReadDraftMeta(c)
    \/ Refused(c)
    \/ Abandon(c)

Next ==
    \/ \E c \in Captures : Handle(c)
    \/ \E c \in Captures : HandleUpload(c)
    \/ \E c \in Captures : Request(c)
    \/ \E c \in Captures : StoreFails(c)
    \/ Restart

Spec == Init /\ [][Next]_vars

-----------------------------------------------------------------------------
(* Properties.                                                              *)

Commits == [revs : SUBSET (Captures \X {1}), tree : Trees]

TypeOK ==
    /\ key \in [Captures -> Keys]
    /\ backend \in Backends
    /\ listed \in SUBSET Docs
    /\ stored \in [Docs -> Commits]
    /\ pc \in [Captures -> {"idle", "failed", "gone", "copyPage", "done"}
                           \cup Serving \cup Saving \cup Waiting]
    /\ doc \in [Captures -> Docs \cup {NoDoc}]
    /\ todo \in [Captures -> SUBSET (Docs \cup Captures)]
    /\ carried \in [Captures -> Keys]
    /\ work \in [Captures -> Trees]
    /\ sealed \in [Captures -> Commits]
    /\ up \in [Captures -> {"none", "over", "broken"} \cup Upload]
    /\ refers \in SUBSET Captures
    /\ transactions \in SUBSET Captures
    /\ clean \in [Captures -> BOOLEAN]
    /\ known \in [Captures -> SUBSET Docs]
    /\ met \in [Captures -> SUBSET Captures]
    /\ troubles \in 0..MaxTroubles

\* What capture c means its document to hold: its own page, marked static and
\* filed under its own URL and owner, the attachment the page refers to, and
\* nothing left over from earlier captures.
Complete(c, tree) ==
    /\ tree["meta.xml"] = MetaOf(key[c], "static")
    /\ tree["document.bin"] = PageOf(c, Refers(c))
    /\ Refers(c) => tree[c] = Full
    /\ \A x \in Captures \ {c} : tree[x] = Absent

Saved(c) == pc[c] = "done" /\ clean[c]

\* A document never changes hands: whatever captures run into each other, what
\* meta.xml says of the owner and the URL of a document is true of everyone
\* who was given that document (hoard.go:366, 399).
DocKeepsKey ==
    \A c \in Captures :
        doc[c] # NoDoc /\ Readable(stored[doc[c]].tree)
            => stored[doc[c]].tree["meta.xml"].key = key[c]

\* A page that was saved before the request listed the store is never given a
\* second document, however the store changes during the scan
\* (nocache.go:59-81).
NoNeedlessDuplicate ==
    [][\A c \in Captures :
          pc[c] = "scan" /\ doc'[c] # doc[c] /\ known[c] # {}
              => \E x \in Captures \ {c} : doc[x] = doc'[c] /\ key[x] = key[c]]_vars

\* Git store: what is published is a whole capture.  It is marked static even
\* if uploads went wrong, and complete, without a trace of earlier captures, if
\* none did, whoever else was at work on the document (hoard.go:375-383, 449-489).
\* Complete is said of pages of one chunk, as CopyPage is.
PublishedComplete ==
    \A c \in Captures :
        <<c, 1>> \in sealed[c].revs /\ stored[doc[c]] = sealed[c]
            => /\ stored[doc[c]].tree["meta.xml"] = MetaOf(key[c], "static")
               /\ clean[c] => Complete(c, stored[doc[c]].tree)

\* Git store: "Document saved" (hoard.go:488) means the capture is in the
\* history of its document for good.
AckedPublished ==
    \A c \in Captures :
        backend = "git" /\ pc[c] = "done" => <<c, 1>> \in stored[doc[c]].revs

\* Git store: the handlers use the store as TxStore allows it, one transaction
\* per capture.  On the file store there are no transactions.
Transacts(c) == backend = "git" /\ doc[c] # NoDoc

UsesStore == INSTANCE TxStore WITH
        Txs <- Captures, Names <- FileNames, MaxCommits <- 1,
        history <- IF backend = "git" THEN stored ELSE [d \in Docs |-> Root],
        status <- [c \in Captures |-> IF Transacts(c) THEN "active" ELSE "idle"],
        target <- [c \in Captures |-> IF Transacts(c) THEN doc[c] ELSE NoDoc],
        draft <- sealed, view <- work

TransactionalUse == UsesStore!Spec

\* File store: a capture that met no other one on its document, and whose
\* uploads went well, is complete once it is saved, and stays so, if its page is one
\* chunk.
UndisturbedIsComplete ==
    \A c \in Captures :
        Saved(c) /\ met[c] = {} => Complete(c, stored[doc[c]].tree)

\* A document whose meta.xml cannot be read and that nobody is at work on.
Poisoned(d) ==
    /\ d \in listed
    /\ ~ Readable(stored[d].tree)
    /\ \A c \in Captures : doc[c] = d => ~ Live(c)

\* File store: nothing ever repairs such a document; every later scan that
\* comes across it fails (nocache.go:70), so it has to be removed by hand.
PoisonIsPermanent ==
    [][\A d \in Docs : Poisoned(d) => Poisoned(d)']_vars
=============================================================================
