--------------------------- MODULE DraftApiProofs ---------------------------
(***************************************************************************)
(* Proofs about DraftApi, for any number of captures, documents and keys,  *)
(* either store, and any bound on restarts and failing calls.              *)
(***************************************************************************)
EXTENDS DraftApi, TLAPS


-----------------------------------------------------------------------------
(* The files of a document.                                                *)

\* A file that a capture writes or deletes.
LEMMA ContentTypes ==
    /\ Torn \in Contents /\ Full \in Contents
    /\ \A k \in Keys, s \in {"draft", "static"} : MetaOf(k, s) \in Contents
    /\ \A c \in Captures, r \in BOOLEAN : PageOf(c, r) \in Contents
    /\ \A c \in Captures : c \in FileNames
    /\ "meta.xml" \in FileNames /\ "document.bin" \in FileNames
  BY DEF Contents, FileNames

\* A new document is empty.
LEMMA RootTypes == Root \in Commits /\ Root.tree \in Trees
  BY DEF Root, Commits, Trees

\* A document without a branch has no files and no readable metadata.
LEMMA RootFacts ==
    /\ Root.revs = {}
    /\ \A n \in FileNames : Root.tree[n] = Absent
    /\ ~ Readable(Root.tree)
  BY DEF Root, FileNames, Readable, Absent

\* Metadata that can be read say a key.
LEMMA ReadableMeta ==
    ASSUME NEW tree \in Trees, Readable(tree)
    PROVE  /\ tree["meta.xml"].key \in Keys
           /\ \E s \in {"draft", "static"} :
                 tree["meta.xml"] = MetaOf(tree["meta.xml"].key, s)
  BY DEF Trees, FileNames, Contents, Readable, Absent, Torn, Full, MetaOf, PageOf

WithFile(tree, n, v) == [tree EXCEPT ![n] = v]

\* A file that is put is there, and the others are as they were.
LEMMA FilePut ==
    ASSUME NEW tree \in Trees, NEW n \in FileNames, NEW v \in Contents \cup {Absent}
    PROVE  /\ WithFile(tree, n, v) \in Trees
           /\ WithFile(tree, n, v)[n] = v
           /\ \A m \in FileNames \ {n} : WithFile(tree, n, v)[m] = tree[m]
  BY DEF Trees, WithFile

\* What Put does: one file of what the capture sees changes, and nothing else in
\* the store or in what other captures have.
LEMMA PutEffect ==
    ASSUME TypeOK, NEW c \in Captures, doc[c] \in Docs, doc' = doc, backend' = backend,
           NEW n \in FileNames, NEW v \in Contents \cup {Absent}, Put(c, n, v)
    PROVE  /\ work' \in [Captures -> Trees] /\ stored' \in [Docs -> Commits]
           /\ \A x \in Captures \ {c} : work'[x] = work[x]
           /\ \A d \in Docs \ {doc[c]} : stored'[d] = stored[d]
           /\ \A d \in Docs : stored'[d].revs = stored[d].revs
           /\ backend = "git" => stored' = stored
           /\ backend = "fs" => work' = work
           /\ Files(c)' \in Trees
           /\ Files(c)'[n] = v
           /\ \A m \in FileNames \ {n} : Files(c)'[m] = Files(c)[m]
  <1>1. CASE backend = "git"
    <2>1. work' = [work EXCEPT ![c] = WithFile(work[c], n, v)] /\ stored' = stored
      BY <1>1 DEF Put, WithFile
    <2>2. work[c] \in Trees
      BY DEF TypeOK
    <2> QED
      BY <1>1, <2>1, <2>2, FilePut DEF TypeOK, Files
  <1>2. CASE backend # "git"
    <2>1. /\ stored' = [stored EXCEPT ![doc[c]] =
                          [stored[doc[c]] EXCEPT !.tree = WithFile(stored[doc[c]].tree, n, v)]]
          /\ work' = work
      BY <1>2 DEF Put, WithFile
    <2>2. stored[doc[c]] \in Commits /\ stored[doc[c]].tree \in Trees
      BY DEF TypeOK, Commits
    <2>3. WithFile(stored[doc[c]].tree, n, v) \in Trees
      BY <2>2, FilePut
    <2> DEFINE now == [stored[doc[c]] EXCEPT !.tree = WithFile(stored[doc[c]].tree, n, v)]
    <2>4. /\ now \in Commits /\ now.revs = stored[doc[c]].revs
          /\ now.tree = WithFile(stored[doc[c]].tree, n, v)
      BY <2>2, <2>3 DEF Commits
    <2>5. stored' = [stored EXCEPT ![doc[c]] = now]
      BY <2>1
    <2> HIDE DEF now
    <2>6. /\ work' = work /\ work \in [Captures -> Trees]
          /\ stored' \in [Docs -> Commits] /\ stored'[doc[c]] = now
          /\ \A d \in Docs \ {doc[c]} : stored'[d] = stored[d]
      BY <2>1, <2>4, <2>5 DEF TypeOK
    <2>7. Files(c) = stored[doc[c]].tree /\ Files(c)' = now.tree
      BY <1>2, <2>6 DEF Files
    <2>8. now.tree \in Trees /\ now.tree[n] = v
          /\ \A m \in FileNames \ {n} : now.tree[m] = stored[doc[c]].tree[m]
      BY <2>2, <2>3, <2>4, FilePut
    <2> QED
      BY <1>2, <2>4, <2>6, <2>7, <2>8
  <1> QED
    BY <1>1, <1>2

\* What GetDocument does.
LEMMA JoinEffect ==
    ASSUME TypeOK, NEW c \in Captures, NEW d \in Docs, Join(c, d)
    PROVE  /\ doc' \in [Captures -> Docs \cup {NoDoc}]
           /\ work' \in [Captures -> Trees] /\ sealed' \in [Captures -> Commits]
           /\ doc'[c] = d
           /\ backend = "git" => work'[c] = stored[d].tree /\ sealed'[c] = stored[d]
           /\ backend = "fs" => UNCHANGED <<work, sealed>>
           /\ \A x \in Captures \ {c} :
                 doc'[x] = doc[x] /\ work'[x] = work[x] /\ sealed'[x] = sealed[x]
  BY DEF TypeOK, Join, Commits

\* Where capture c is says what it has.
HandOf(c) ==
    /\ pc[c] \in {"idle", "scan"} => doc[c] = NoDoc
    /\ doc[c] = NoDoc => pc[c] \in {"idle", "scan", "failed"} /\ up[c] = "none"
    /\ pc[c] \in {"idle", "draft"} \cup Serving => up[c] = "none" /\ c \notin refers
    /\ pc[c] = "attach" => up[c] # "none"
    /\ pc[c] = "push" => backend = "git"
    /\ up[c] = "fetch" => c \notin refers

InHand == \A c \in Captures : HandOf(c)

Typed == TypeOK /\ InHand

\* A step of capture c leaves the others where they are.
Mine(c) ==
    /\ UNCHANGED <<key, backend>>
    /\ \A x \in Captures \ {c} :
          /\ pc'[x] = pc[x] /\ doc'[x] = doc[x] /\ todo'[x] = todo[x]
          /\ work'[x] = work[x] /\ sealed'[x] = sealed[x]
          /\ up'[x] = up[x] /\ clean'[x] = clean[x] /\ known'[x] = known[x]
          /\ (x \in refers' <=> x \in refers)
          /\ (x \in transactions' <=> x \in transactions)
          /\ met[x] \subseteq met'[x]

\* The steps of capture c, the page's and the server's.
Step(c) == Handle(c) \/ HandleUpload(c) \/ Request(c) \/ StoreFails(c)

\* The steps that write or delete a file of the document,
Writes(c) ==
    \/ \E n \in Captures : DeleteOldAttachment(c, n)
    \/ CreateDraftMeta(c) \/ EncodeDraftMeta(c)
    \/ NewAttachment(c) \/ Fetched(c) \/ CreateAttachment(c) \/ CopyAttachment(c)
    \/ CreatePage(c) \/ CopyPage(c)
    \/ CreateStaticMeta(c) \/ EncodeStaticMeta(c)

\* those that are given a document,
Joins(c) ==
    \E d \in Docs : ScanMatch(c, d) \/ AllocateDocument(c, d) \/ NewDoc(c, d)

\* and those that leave the store and the private copies alone.
Reads(c) ==
    \/ ListDocuments(c)
    \/ \E d \in Docs : ScanUnreadable(c, d) \/ ScanOther(c, d)
    \/ ListAttachments(c) \/ CommitFiles(c) \/ PushRejected(c)
    \/ ProxyAttachment(c) \/ Unfetched(c) \/ NoAttachment(c) \/ LookupAttachment(c)
    \/ AttachmentAnswered(c) \/ AttachmentDropped(c)
    \/ ReadDraftMeta(c) \/ Refused(c) \/ Abandon(c) \/ StoreFails(c)

\* Every step of a capture writes, joins a document, reads, seals or pushes.
LEMMA StepKinds ==
    ASSUME NEW c \in Captures, Step(c)
    PROVE  Writes(c) \/ Joins(c) \/ Reads(c) \/ SealRevision(c) \/ PushAccepted(c)
  BY DEF Step, Handle, HandleUpload, Request, Writes, Joins, Reads

\* What all steps that write have in common.
LEMMA WriteStep ==
    ASSUME Typed, NEW c \in Captures, Writes(c)
    PROVE  /\ Live(c) /\ doc[c] \in Docs
           /\ UNCHANGED <<key, backend, listed, doc, carried, sealed, clean, known, met,
                          troubles>>
           /\ \E n \in FileNames, v \in Contents \cup {Absent} :
                 /\ Put(c, n, v)
                 /\ n = "meta.xml" =>
                       v \in {Torn, MetaOf(key[c], "draft"), MetaOf(carried[c], "static")}
  <1> USE NamesAssumption
      DEF Typed, TypeOK, InHand, HandOf, Live, Serving, Saving, Waiting, Upload, Plain,
              given
  <1>1. ASSUME NEW n \in Captures, DeleteOldAttachment(c, n)
        PROVE  doc[c] \in Docs /\ Put(c, n, Absent) /\ Live(c)
    BY <1>1 DEF DeleteOldAttachment
  <1>2. CASE \E n \in Captures : DeleteOldAttachment(c, n)
    BY <1>1, <1>2, ContentTypes DEF DeleteOldAttachment
  <1>3. CASE CreateDraftMeta(c)
    BY <1>3, ContentTypes DEF CreateDraftMeta
  <1>4. CASE EncodeDraftMeta(c)
    BY <1>4, ContentTypes DEF EncodeDraftMeta
  <1>5. CASE NewAttachment(c)
    BY <1>5, ContentTypes DEF NewAttachment
  <1>6. CASE Fetched(c)
    BY <1>6, ContentTypes DEF Fetched
  <1>7. CASE CreateAttachment(c)
    BY <1>7, ContentTypes DEF CreateAttachment
  <1>8. CASE CopyAttachment(c)
    BY <1>8, ContentTypes DEF CopyAttachment
  <1>9. CASE CreatePage(c)
    BY <1>9, ContentTypes DEF CreatePage
  <1>10. CASE CopyPage(c)
    <2>1. Refers(c) \in BOOLEAN
      BY DEF Refers
    <2>2. PageOf(c, Refers(c)) \in Contents
      BY <2>1, ContentTypes
    <2> QED
      BY <1>10, <2>2, ContentTypes DEF CopyPage
  <1>11. CASE CreateStaticMeta(c)
    BY <1>11, ContentTypes DEF CreateStaticMeta
  <1>12. CASE EncodeStaticMeta(c)
    BY <1>12, ContentTypes DEF EncodeStaticMeta
  <1> QED
    BY <1>2, <1>3, <1>4, <1>5, <1>6, <1>7, <1>8, <1>9, <1>10, <1>11, <1>12 DEF Writes

Labels == {"idle", "failed", "gone", "copyPage", "done"} \cup Serving \cup Saving \cup Waiting

\* Where capture c and its upload are after a step of it.
Moves(c) ==
    /\ pc' \in [Captures -> Labels]
    /\ todo' \in [Captures -> SUBSET (Docs \cup Captures)]
    /\ up' \in [Captures -> {"none", "over", "broken"} \cup Upload]
    /\ refers' \in SUBSET Captures /\ transactions' \in SUBSET Captures
    /\ \A x \in Captures \ {c} :
          /\ pc'[x] = pc[x] /\ todo'[x] = todo[x] /\ up'[x] = up[x]
          /\ (x \in refers' <=> x \in refers)
          /\ (x \in transactions' <=> x \in transactions)
    /\ HandOf(c)'

\* They leave the capture, its upload and the drafts typed.
LEMMA WriteMoves ==
    ASSUME Typed, NEW c \in Captures, Writes(c)
    PROVE  Moves(c)
  <1>0. /\ doc[c] \in Docs /\ doc' = doc /\ backend' = backend
        /\ HandOf(c)
    BY WriteStep DEF Typed, InHand
  <1> USE <1>0, NoDocAssumption
      DEF Typed, TypeOK, HandOf, Serving, Saving, Waiting, Upload, Plain, given, Goto,
          Moves, Labels
  <1>1. CASE \E n \in Captures : DeleteOldAttachment(c, n)
    BY <1>1 DEF DeleteOldAttachment
  <1>2. CASE CreateDraftMeta(c)
    BY <1>2 DEF CreateDraftMeta
  <1>3. CASE EncodeDraftMeta(c)
    BY <1>3 DEF EncodeDraftMeta
  <1>4. CASE NewAttachment(c)
    BY <1>4 DEF NewAttachment
  <1>5. CASE Fetched(c)
    BY <1>5 DEF Fetched
  <1>6. CASE CreateAttachment(c)
    BY <1>6 DEF CreateAttachment
  <1>7. CASE CopyAttachment(c)
    BY <1>7 DEF CopyAttachment
  <1>8. CASE CreatePage(c)
    BY <1>8 DEF CreatePage
  <1>9. CASE CopyPage(c)
    BY <1>9 DEF CopyPage
  <1>10. CASE CreateStaticMeta(c)
    BY <1>10 DEF CreateStaticMeta
  <1>11. CASE EncodeStaticMeta(c)
    BY <1>11 DEF EncodeStaticMeta
  <1> QED
    BY <1>1, <1>2, <1>3, <1>4, <1>5, <1>6, <1>7, <1>8, <1>9, <1>10, <1>11 DEF Writes

\* A capture whose variables are its own, and whose documents are typed.
LEMMA MineTyped ==
    ASSUME Typed, NEW c \in Captures, Mine(c), Moves(c),
           listed' \in SUBSET Docs /\ stored' \in [Docs -> Commits],
           doc' \in [Captures -> Docs \cup {NoDoc}], carried' \in [Captures -> Keys],
           work' \in [Captures -> Trees], sealed' \in [Captures -> Commits],
           clean' \in [Captures -> BOOLEAN], known' \in [Captures -> SUBSET Docs],
           met' \in [Captures -> SUBSET Captures], troubles' \in 0..MaxTroubles
    PROVE  Typed'
  <1>1. TypeOK'
    BY DEF Typed, TypeOK, Mine, Moves, Labels
  <1>2. InHand'
    BY DEF Typed, InHand, HandOf, Mine, Moves
  <1> QED
    BY <1>1, <1>2 DEF Typed

\* They keep the types and leave the other captures alone.
LEMMA WriteTyped ==
    ASSUME Typed, NEW c \in Captures, Writes(c)
    PROVE  Typed' /\ Mine(c)
  <1>1. /\ doc[c] \in Docs
        /\ UNCHANGED <<key, backend, listed, doc, carried, sealed, clean, known, met,
                       troubles>>
    BY WriteStep
  <1>2. PICK n \in FileNames, v \in Contents \cup {Absent} : Put(c, n, v)
    BY WriteStep
  <1>3. /\ work' \in [Captures -> Trees] /\ stored' \in [Docs -> Commits]
        /\ \A x \in Captures \ {c} : work'[x] = work[x]
    BY <1>1, <1>2, PutEffect DEF Typed
  <1>4. Moves(c)
    BY WriteMoves
  <1>5. Mine(c)
    BY <1>1, <1>3, <1>4 DEF Mine, Moves
  <1>6. /\ listed' \in SUBSET Docs /\ doc' \in [Captures -> Docs \cup {NoDoc}]
        /\ carried' \in [Captures -> Keys] /\ sealed' \in [Captures -> Commits]
        /\ clean' \in [Captures -> BOOLEAN] /\ known' \in [Captures -> SUBSET Docs]
        /\ met' \in [Captures -> SUBSET Captures] /\ troubles' \in 0..MaxTroubles
    BY <1>1 DEF Typed, TypeOK
  <1> QED
    BY <1>3, <1>4, <1>5, <1>6, MineTyped

\* The steps that read leave everyone with what they had.
LEMMA ReadTyped ==
    ASSUME Typed, NEW c \in Captures, Reads(c)
    PROVE  /\ Typed' /\ Mine(c)
           /\ UNCHANGED <<listed, stored, doc, work, sealed, met>>
  <1> DEFINE Same == /\ UNCHANGED <<key, backend, listed, stored, doc, work, sealed, met>>
                     /\ carried' \in [Captures -> Keys]
                     /\ clean' \in [Captures -> BOOLEAN]
                     /\ known' \in [Captures -> SUBSET Docs]
                     /\ troubles' \in 0..MaxTroubles
                     /\ \A x \in Captures \ {c} : clean'[x] = clean[x] /\ known'[x] = known[x]
                     /\ Moves(c)
  <1>0. HandOf(c)
    BY DEF Typed, InHand
  <1>1. ASSUME Same
        PROVE  /\ Typed' /\ Mine(c)
               /\ UNCHANGED <<listed, stored, doc, work, sealed, met>>
    <2>1. Mine(c)
      BY <1>1 DEF Mine, Moves
    <2>2. /\ listed' \in SUBSET Docs /\ stored' \in [Docs -> Commits]
          /\ doc' \in [Captures -> Docs \cup {NoDoc}]
          /\ work' \in [Captures -> Trees] /\ sealed' \in [Captures -> Commits]
          /\ met' \in [Captures -> SUBSET Captures]
      BY <1>1 DEF Typed, TypeOK
    <2> QED
      BY <1>1, <2>1, <2>2, MineTyped
  <1>2. Same
    <2> USE <1>0 DEF Typed, TypeOK, HandOf, Serving, Saving, Waiting, Upload, Plain, given,
                     Goto, Moves, Labels
    <2>1. CASE ListDocuments(c)
      BY <2>1 DEF ListDocuments
    <2>2. CASE \E d \in Docs : ScanUnreadable(c, d)
      BY <2>2 DEF ScanUnreadable
    <2>3. CASE \E d \in Docs : ScanOther(c, d)
      BY <2>3 DEF ScanOther
    <2>4. CASE ListAttachments(c)
      BY <2>4 DEF ListAttachments
    <2>5. CASE CommitFiles(c)
      BY <2>5 DEF CommitFiles
    <2>6. CASE PushRejected(c)
      BY <2>6 DEF PushRejected
    <2>7. CASE ProxyAttachment(c)
      BY <2>7 DEF ProxyAttachment
    <2>8. CASE Unfetched(c)
      BY <2>8 DEF Unfetched
    <2>9. CASE NoAttachment(c)
      BY <2>9 DEF NoAttachment
    <2>10. CASE LookupAttachment(c)
      BY <2>10, ZenonT(30) DEF LookupAttachment
    <2>11. CASE AttachmentAnswered(c)
      BY <2>11 DEF AttachmentAnswered
    <2>12. CASE AttachmentDropped(c)
      BY <2>12 DEF AttachmentDropped
    <2>13. CASE ReadDraftMeta(c)
      <3>1. Files(c) \in Trees
        BY <2>13 DEF ReadDraftMeta, Files, Commits
      <3>2. carried' \in [Captures -> Keys]
        BY <2>13, <3>1, ReadableMeta DEF ReadDraftMeta
      <3> QED
        BY <2>13, <3>2 DEF ReadDraftMeta
    <2>14. CASE Refused(c)
      BY <2>14 DEF Refused
    <2>15. CASE Abandon(c)
      BY <2>15 DEF Abandon
    <2>16. CASE StoreFails(c)
      <3>1. /\ troubles' \in 0..MaxTroubles
            /\ UNCHANGED <<listed, stored, doc, carried, work, sealed, transactions, key,
                           backend, refers, known, met>>
        BY <2>16, TroublesAssumption DEF StoreFails
      <3>2. CASE /\ pc[c] \in Serving \cup Saving \cup {"final"}
                 /\ Goto(c, "failed")
                 /\ UNCHANGED <<todo, up, clean>>
        BY <3>1, <3>2
      <3>3. CASE /\ pc[c] = "clear"
                 /\ \E n \in todo[c] : todo' = [todo EXCEPT ![c] = @ \ {n}]
                 /\ clean' = [clean EXCEPT ![c] = FALSE]
                 /\ UNCHANGED <<pc, up>>
        BY <3>1, <3>3
      <3>4. CASE /\ pc[c] \in {"page", "copyPage"}
                 /\ Goto(c, "final")
                 /\ clean' = [clean EXCEPT ![c] = FALSE]
                 /\ UNCHANGED <<todo, up>>
        BY <3>1, <3>4
      <3>5. CASE /\ up[c] \in Upload
                 /\ up' = [up EXCEPT ![c] = "broken"]
                 /\ clean' = [clean EXCEPT ![c] = FALSE]
                 /\ UNCHANGED <<pc, todo>>
        BY <3>1, <3>5
      <3> QED
        BY <2>16, <3>2, <3>3, <3>4, <3>5 DEF StoreFails
    <2> QED
      BY <2>1, <2>2, <2>3, <2>4, <2>5, <2>6, <2>7, <2>8, <2>9, <2>10, <2>11, <2>12, <2>13,
         <2>14, <2>15, <2>16 DEF Reads
  <1> QED
    BY <1>1, <1>2

\* What a scan that comes to a document of this URL and owner does,
Reuses(c, d) ==
    /\ pc[c] = "scan" /\ pc' = [pc EXCEPT ![c] = "list"]
    /\ Readable(stored[d].tree) /\ stored[d].tree["meta.xml"].key = key[c]
    /\ met' = [x \in Captures |->
                IF x = c THEN {y \in Captures : doc[y] = d /\ Live(y)}
                ELSE IF doc[x] = d THEN met[x] \cup {c}
                ELSE met[x]]
    /\ UNCHANGED <<listed, transactions, todo>>

\* and what becomes of a capture that gets a new document.
IsNew(c, d) ==
    /\ \/ pc[c] = "scan" /\ todo[c] = {} /\ pc' = [pc EXCEPT ![c] = "clear"]
          /\ transactions' = transactions
       \/ pc[c] = "idle" /\ pc' = [pc EXCEPT ![c] = "draft"]
          /\ transactions' = transactions \cup {c}
    /\ d \notin listed /\ \A x \in Captures : doc[x] # d
    /\ listed' = IF backend = "fs" THEN listed \cup {d} ELSE listed
    /\ UNCHANGED <<met, todo>>

\* A capture is given a document of its own page, or one that nobody has.
LEMMA JoinStep ==
    ASSUME Typed, NEW c \in Captures, Joins(c)
    PROVE  \E d \in Docs :
              /\ Join(c, d)
              /\ Reuses(c, d) \/ IsNew(c, d)
              /\ UNCHANGED <<key, backend, stored, refers, clean, known, carried, up, troubles>>
  <1>1. PICK d \in Docs : ScanMatch(c, d) \/ AllocateDocument(c, d) \/ NewDoc(c, d)
    BY DEF Joins
  <1>2. CASE ScanMatch(c, d)
    BY <1>2 DEF ScanMatch, Reuses, Goto, given
  <1>3. CASE AllocateDocument(c, d)
    BY <1>3 DEF AllocateDocument, Allocate, IsNew, Goto, Plain, given
  <1>4. CASE NewDoc(c, d)
    BY <1>4 DEF NewDoc, Allocate, IsNew, Goto, Plain, given
  <1> QED
    BY <1>1, <1>2, <1>3, <1>4

\* Such a step keeps the types and leaves the other captures alone.
LEMMA JoinTyped ==
    ASSUME Typed, NEW c \in Captures, Joins(c)
    PROVE  Typed' /\ Mine(c)
  <1>1. PICK d \in Docs :
              /\ Join(c, d)
              /\ Reuses(c, d) \/ IsNew(c, d)
              /\ UNCHANGED <<key, backend, stored, refers, clean, known, carried, up, troubles>>
    BY JoinStep
  <1>2. /\ doc' \in [Captures -> Docs \cup {NoDoc}]
        /\ work' \in [Captures -> Trees] /\ sealed' \in [Captures -> Commits]
        /\ doc'[c] = d /\ d # NoDoc
        /\ \A x \in Captures \ {c} :
              doc'[x] = doc[x] /\ work'[x] = work[x] /\ sealed'[x] = sealed[x]
    BY <1>1, JoinEffect, NoDocAssumption DEF Typed
  <1>3. /\ pc[c] \in {"idle", "scan"} /\ pc' = [pc EXCEPT ![c] = pc'[c]]
        /\ pc'[c] \in {"list", "clear", "draft"}
        /\ listed' \in SUBSET Docs /\ transactions' \in SUBSET Captures
        /\ todo' = todo
        /\ \A x \in Captures \ {c} : x \in transactions' <=> x \in transactions
    BY <1>1 DEF Reuses, IsNew, Typed, TypeOK
  <1>4. Moves(c)
    <2>1. up[c] = "none" /\ c \notin refers
      BY <1>3 DEF Typed, InHand, HandOf, Serving
    <2> QED
      BY <1>1, <1>2, <1>3, <2>1
      DEF Moves, Labels, Typed, TypeOK, HandOf, Serving, Waiting, Upload
  <1>5. /\ met' \in [Captures -> SUBSET Captures]
        /\ \A x \in Captures \ {c} : met[x] \subseteq met'[x]
    <2>1. CASE Reuses(c, d)
      BY <2>1 DEF Reuses, Typed, TypeOK
    <2>2. CASE IsNew(c, d)
      BY <2>2 DEF IsNew, Typed, TypeOK
    <2> QED
      BY <1>1, <2>1, <2>2
  <1>6. Mine(c)
    BY <1>1, <1>2, <1>4, <1>5 DEF Mine, Moves
  <1>7. /\ stored' \in [Docs -> Commits] /\ carried' \in [Captures -> Keys]
        /\ clean' \in [Captures -> BOOLEAN] /\ known' \in [Captures -> SUBSET Docs]
        /\ troubles' \in 0..MaxTroubles
    BY <1>1 DEF Typed, TypeOK
  <1> QED
    BY <1>2, <1>3, <1>4, <1>5, <1>6, <1>7, MineTyped

\* The commit seals what the capture sees, as a revision of its own.
LEMMA SealTyped ==
    ASSUME Typed, NEW c \in Captures, SealRevision(c)
    PROVE  /\ Typed' /\ Mine(c)
           /\ sealed'[c] = [revs |-> sealed[c].revs \cup {<<c, 1>>}, tree |-> work[c]]
           /\ pc'[c] = "push"
  <1>1. /\ pc[c] = "commit" /\ backend = "git"
        /\ sealed' = [sealed EXCEPT ![c] = [revs |-> sealed[c].revs \cup {<<c, 1>>},
                                            tree |-> work[c]]]
        /\ pc' = [pc EXCEPT ![c] = "push"]
        /\ UNCHANGED <<listed, stored, doc, todo, carried, work, up, transactions,
                       key, backend, refers, clean, known, met, troubles>>
    BY DEF SealRevision, Goto, Plain, given
  <1>2. [revs |-> sealed[c].revs \cup {<<c, 1>>}, tree |-> work[c]] \in Commits
    BY DEF Typed, TypeOK, Commits
  <1>3. sealed' \in [Captures -> Commits]
    BY <1>1, <1>2 DEF Typed, TypeOK
  <1>4. TypeOK'
    BY <1>1, <1>3 DEF Typed, TypeOK, Saving
  <1>5. InHand'
    BY <1>1 DEF Typed, TypeOK, InHand, HandOf, Serving, Saving
  <1> QED
    BY <1>1, <1>4, <1>5 DEF Typed, TypeOK, Mine

\* An accepted push publishes what was sealed.
LEMMA PushTyped ==
    ASSUME Typed, NEW c \in Captures, PushAccepted(c)
    PROVE  Typed' /\ Mine(c) /\ doc[c] \in Docs /\ backend = "git"
  <1>0. doc[c] \in Docs /\ backend = "git"
    BY DEF PushAccepted, Typed, TypeOK, InHand, HandOf
  <1>1. /\ pc[c] = "push"
        /\ stored' = [stored EXCEPT ![doc[c]] = sealed[c]]
        /\ listed' = listed \cup {doc[c]}
        /\ pc' = [pc EXCEPT ![c] = "done"] \/ pc' = [pc EXCEPT ![c] = "failed"]
        /\ transactions' \in {transactions, transactions \ {c}}
        /\ UNCHANGED <<doc, todo, carried, work, sealed, up, key, backend, refers, clean,
                       known, met, troubles>>
    BY DEF PushAccepted, Goto, Plain, given
  <1>2. TypeOK'
    BY <1>0, <1>1 DEF Typed, TypeOK
  <1>3. InHand'
    BY <1>0, <1>1, NoDocAssumption DEF Typed, TypeOK, InHand, HandOf, Serving
  <1> QED
    BY <1>0, <1>1, <1>2, <1>3 DEF Typed, TypeOK, Mine

\* Whatever a capture does, types are kept and the others are left alone.
LEMMA StepMine ==
    ASSUME Typed, NEW c \in Captures, Step(c)
    PROVE  Typed' /\ Mine(c)
  BY StepKinds, WriteTyped, JoinTyped, ReadTyped, SealTyped, PushTyped

\* A restart ends what the server had in hand, and changes no document.
LEMMA RestartTyped ==
    ASSUME Typed, Restart
    PROVE  /\ Typed'
           /\ UNCHANGED <<key, backend, refers, listed, stored, doc, todo, carried, work,
                          sealed, known, met>>
           /\ transactions' = {}
           /\ \A c \in Captures :
                 /\ pc'[c] = IF pc[c] \in Serving \cup Saving \cup {"copyPage"}
                             THEN "failed" ELSE pc[c]
                 /\ up'[c] = IF up[c] \in Upload THEN "broken" ELSE up[c]
                 /\ clean'[c] => clean[c] /\ up[c] \notin Upload
  <1>1. troubles' \in 0..MaxTroubles
    BY TroublesAssumption DEF Restart, Typed, TypeOK
  <1>2. TypeOK'
    BY <1>1 DEF Restart, Typed, TypeOK, given
  <1>3. InHand'
    BY DEF Restart, Typed, TypeOK, InHand, HandOf, given, Serving, Saving, Waiting, Upload
  <1> QED
    BY <1>2, <1>3 DEF Restart, Typed, TypeOK, given

\* A step is a restart or that of one capture.
LEMMA NextKinds == Next => Restart \/ \E c \in Captures : Step(c)
  BY DEF Next, Step

\* Typed holds at first.
LEMMA InitTyped == Init => Typed
  <1> SUFFICES ASSUME Init PROVE TypeOK /\ InHand
    BY DEF Typed
  <1>1. 0 \in 0..MaxTroubles
    BY TroublesAssumption
  <1>2. TypeOK
    BY <1>1, RootTypes DEF Init, TypeOK
  <1>3. InHand
    BY DEF Init, InHand, HandOf, Serving
  <1> QED
    BY <1>2, <1>3

\* Every step keeps the types and what captures have in hand.
LEMMA StepTyped == Typed /\ [Next]_vars => Typed'
  <1>1. Typed /\ Next => Typed'
    BY NextKinds, StepMine, RestartTyped
  <1>2. Typed /\ UNCHANGED vars => Typed'
    BY DEF vars, Typed, TypeOK, InHand, HandOf
  <1> QED
    BY <1>1, <1>2

\* Type correctness of the drafts and the store.
THEOREM TypeCorrect == Spec => []TypeOK
  <1>1. Typed => TypeOK
    BY DEF Typed
  <1> QED
    BY <1>1, InitTyped, StepTyped, PTL DEF Spec

-----------------------------------------------------------------------------
(***************************************************************************)
(* Whose a document is.  A document belongs to an owner and URL from the   *)
(* moment it is allocated: everyone who was given it is of this key, and   *)
(* its metadata, in the store or on their way to it, say no other.         *)
(***************************************************************************)
\* If metadata can be read, they have key k.
FiledAs(tree, k) == Readable(tree) => tree["meta.xml"].key = k

\* Metadata of a document have the key of the captures that have it.
Filed ==
    \A c \in Captures :
        doc[c] # NoDoc => /\ FiledAs(stored[doc[c]].tree, key[c])
                          /\ backend = "git" => /\ FiledAs(work[c], key[c])
                                                /\ FiledAs(sealed[c].tree, key[c])
\* Captures that share a document are of one page and one owner.
SameKey ==
    \A c, x \in Captures : doc[c] # NoDoc /\ doc[x] = doc[c] => key[x] = key[c]

\* A document that is not listed was never written.
Unlisted == \A d \in Docs \ listed : stored[d] = Root

\* Every listed document was given to a capture.
Visited ==
    /\ \A d \in listed : \E x \in Captures : doc[x] = d
    /\ backend = "fs" => \A c \in Captures : doc[c] # NoDoc => doc[c] \in listed

\* What a scan knew when it began it has still to visit.
KnownInv ==
    \A c \in Captures :
        /\ \A d \in known[c] : \E x \in Captures : doc[x] = d /\ key[x] = key[c]
        /\ pc[c] = "scan" => known[c] \subseteq todo[c]

\* What the last request carries is the key of the page.
Carried == carried = key

KeyInv == Typed /\ Filed /\ SameKey /\ Unlisted /\ Visited /\ KnownInv /\ Carried

\* A document with metadata is one the store lists, and somebody was given it.
LEMMA ReadableListed ==
    ASSUME KeyInv, NEW d \in Docs, Readable(stored[d].tree)
    PROVE  /\ d \in listed
           /\ \E x \in Captures : doc[x] = d /\ stored[d].tree["meta.xml"].key = key[x]
  <1>1. d \in listed
    BY RootFacts DEF KeyInv, Unlisted
  <1>2. PICK x \in Captures : doc[x] = d
    BY <1>1 DEF KeyInv, Visited
  <1>3. stored[d].tree["meta.xml"].key = key[x]
    BY <1>2, NoDocAssumption DEF KeyInv, Filed, FiledAs
  <1> QED
    BY <1>1, <1>2, <1>3

\* A capture files what it writes under its own key.
LEMMA WriteFiled ==
    ASSUME KeyInv, NEW c \in Captures, Writes(c)
    PROVE  /\ doc[c] \in Docs /\ doc' = doc
           /\ FiledAs(Files(c)', key[c])
           /\ backend = "git" => stored' = stored
           /\ backend = "fs" => work' = work
           /\ \A d \in Docs \ {doc[c]} : stored'[d] = stored[d]
           /\ \A d \in Docs : stored'[d].revs = stored[d].revs
  <1>1. /\ doc[c] \in Docs
        /\ UNCHANGED <<key, backend, doc>>
        /\ carried[c] = key[c]
        /\ Typed /\ TypeOK
    BY WriteStep DEF KeyInv, Carried, Typed
  <1>2. PICK n \in FileNames, v \in Contents \cup {Absent} :
           /\ Put(c, n, v)
           /\ n = "meta.xml" =>
                 v \in {Torn, MetaOf(key[c], "draft"), MetaOf(carried[c], "static")}
    BY WriteStep DEF KeyInv
  <1>3. FiledAs(Files(c), key[c])
    BY <1>1, NoDocAssumption DEF KeyInv, Filed, Files
  <1>4. /\ Files(c)'[n] = v
        /\ \A m \in FileNames \ {n} : Files(c)'[m] = Files(c)[m]
    BY <1>1, <1>2, PutEffect
  <1>5. FiledAs(Files(c)', key[c])
    BY <1>1, <1>2, <1>3, <1>4, ContentTypes DEF FiledAs, Readable, Torn, MetaOf
  <1> QED
    BY <1>1, <1>2, <1>5, PutEffect

\* A step that writes keeps KeyInv: it stores the key of its own document.
LEMMA WriteKeyInv ==
    ASSUME KeyInv, NEW c \in Captures, Writes(c)
    PROVE  KeyInv'
  <1>1. /\ doc[c] \in Docs /\ Mine(c) /\ Typed'
        /\ UNCHANGED <<key, backend, listed, doc, carried, sealed, known>>
    BY WriteStep, WriteTyped DEF KeyInv
  <1>2. backend \in {"git", "fs"} /\ backend \in Backends
    BY BackendAssumption DEF KeyInv, Typed, TypeOK
  <1>3. /\ FiledAs(Files(c)', key[c])
        /\ backend = "git" => stored' = stored
        /\ backend = "fs" => work' = work
        /\ \A d \in Docs \ {doc[c]} : stored'[d] = stored[d]
    BY WriteFiled
  <1>4. Filed'
    <2> SUFFICES ASSUME NEW x \in Captures, doc[x] # NoDoc
                 PROVE  /\ FiledAs(stored'[doc[x]].tree, key[x])
                        /\ backend = "git" => /\ FiledAs(work'[x], key[x])
                                              /\ FiledAs(sealed[x].tree, key[x])
      BY <1>1 DEF Filed, FiledAs, Readable
    <2>1. doc[x] \in Docs
      BY DEF KeyInv, Typed, TypeOK
    <2>2. CASE backend = "git"
      <3>1. x # c => work'[x] = work[x]
        BY <1>1 DEF Mine
      <3>2. FiledAs(work'[c], key[c])
        BY <1>1, <1>3, <2>2 DEF Files
      <3> QED
        BY <1>3, <2>2, <3>1, <3>2 DEF KeyInv, Filed
    <2>3. CASE backend = "fs"
      <3>1. FiledAs(stored'[doc[c]].tree, key[c])
        BY <1>1, <1>3, <2>3 DEF Files
      <3>2. CASE doc[x] = doc[c]
        BY <2>3, <3>1, <3>2, <2>1, NoDocAssumption DEF KeyInv, SameKey
      <3>3. CASE doc[x] # doc[c]
        BY <1>3, <2>1, <2>3, <3>3 DEF KeyInv, Filed
      <3> QED
        BY <3>2, <3>3
    <2> QED
      BY <1>2, <2>2, <2>3
  <1>5. SameKey' /\ Visited' /\ Carried'
    BY <1>1 DEF KeyInv, SameKey, Visited, Carried
  <1>6. Unlisted'
    BY <1>1, <1>2, <1>3, NoDocAssumption DEF KeyInv, Unlisted, Visited
  <1>7. KnownInv'
    <2>1. pc'[c] # "scan"
      BY DEF Writes, DeleteOldAttachment, CreateDraftMeta, EncodeDraftMeta, NewAttachment,
             Fetched, CreateAttachment, CopyAttachment, CreatePage, CopyPage,
             CreateStaticMeta, EncodeStaticMeta, Goto, KeyInv, Typed, TypeOK, InHand,
             HandOf, Upload, Serving
    <2> QED
      BY <1>1, <2>1 DEF KeyInv, KnownInv, Mine
  <1> QED
    BY <1>1, <1>4, <1>5, <1>6, <1>7 DEF KeyInv

\* So does one that is given a document: of that key, or nobody's.
LEMMA JoinKeyInv ==
    ASSUME KeyInv, NEW c \in Captures, Joins(c)
    PROVE  KeyInv'
  <1>1. PICK d \in Docs :
              /\ Join(c, d)
              /\ Reuses(c, d) \/ IsNew(c, d)
              /\ UNCHANGED <<key, backend, stored, refers, clean, known, carried, up, troubles>>
    BY JoinStep DEF KeyInv
  <1>2. /\ doc'[c] = d /\ d # NoDoc
        /\ backend = "git" => work'[c] = stored[d].tree /\ sealed'[c] = stored[d]
        /\ \A x \in Captures \ {c} :
              doc'[x] = doc[x] /\ work'[x] = work[x] /\ sealed'[x] = sealed[x]
    BY <1>1, JoinEffect, NoDocAssumption DEF KeyInv, Typed
  <1>3. doc[c] = NoDoc /\ pc'[c] # "scan" /\ Typed' /\ Mine(c)
    BY <1>1, JoinTyped DEF Reuses, IsNew, KeyInv, Typed, TypeOK, InHand, HandOf
  <1>4. FiledAs(stored[d].tree, key[c])
    <2>1. CASE Reuses(c, d)
      BY <2>1 DEF Reuses, FiledAs
    <2>2. CASE IsNew(c, d)
      BY <2>2, RootFacts DEF IsNew, FiledAs, KeyInv, Unlisted
    <2> QED
      BY <1>1, <2>1, <2>2
  <1>5. Filed'
    <2>1. FiledAs(stored'[d].tree, key'[c])
      BY <1>1, <1>4 DEF FiledAs, Readable
    <2> QED
      BY <1>1, <1>2, <1>3, <1>4 DEF KeyInv, Filed, FiledAs, Readable
  <1>6. \A x \in Captures : doc[x] = d => key[x] = key[c]
    <2>1. CASE Reuses(c, d)
      BY <1>2, <2>1 DEF Reuses, KeyInv, Filed, FiledAs
    <2>2. CASE IsNew(c, d)
      BY <2>2 DEF IsNew
    <2> QED
      BY <1>1, <2>1, <2>2
  <1>7. SameKey'
    BY <1>1, <1>2, <1>3, <1>6 DEF KeyInv, SameKey
  <1>8. /\ listed \subseteq listed' /\ listed' \subseteq listed \cup {d}
        /\ backend = "fs" => d \in listed'
    <2>1. CASE Reuses(c, d)
      BY <2>1, ReadableListed DEF Reuses
    <2>2. CASE IsNew(c, d)
      BY <2>2 DEF IsNew
    <2> QED
      BY <1>1, <2>1, <2>2
  <1>9. Unlisted' /\ Carried'
    BY <1>1, <1>8 DEF KeyInv, Unlisted, Carried
  <1>10. \A e \in Docs, x \in Captures : doc[x] = e => doc'[x] = e
    BY <1>2, <1>3, NoDocAssumption
  <1>11. Visited'
    <2>1. \A e \in listed' : \E x \in Captures : doc'[x] = e
      BY <1>2, <1>8, <1>10 DEF KeyInv, Visited, Typed, TypeOK
    <2> QED
      BY <1>1, <1>2, <1>8, <2>1 DEF KeyInv, Visited
  <1>12. KnownInv'
    <2>1. \A x \in Captures : known[x] \subseteq Docs
      BY DEF KeyInv, Typed, TypeOK
    <2> QED
      BY <1>1, <1>3, <1>10, <2>1 DEF KeyInv, KnownInv, Mine
  <1> QED
    BY <1>3, <1>5, <1>7, <1>9, <1>11, <1>12 DEF KeyInv

\* The scan comes by every document that was saved for this key when it began.
LEMMA ReadKnown ==
    ASSUME KeyInv, NEW c \in Captures, Reads(c)
    PROVE  /\ \A d \in known'[c] : \E x \in Captures : doc[x] = d /\ key[x] = key[c]
           /\ pc'[c] = "scan" => known'[c] \subseteq todo'[c]
           /\ carried' = carried
  <1>0. /\ TypeOK /\ HandOf(c) /\ carried = key
        /\ \A d \in known[c] : \E x \in Captures : doc[x] = d /\ key[x] = key[c]
        /\ pc[c] = "scan" => known[c] \subseteq todo[c]
    BY DEF KeyInv, Typed, InHand, KnownInv, Carried
  <1>1. CASE ListDocuments(c)
    <2>1. /\ known'[c] = {d \in listed : SavedFor(d, key[c])}
          /\ todo'[c] = listed /\ carried' = carried
      BY <1>0, <1>1 DEF ListDocuments, TypeOK
    <2>2. ASSUME NEW d \in listed, SavedFor(d, key[c])
          PROVE  \E x \in Captures : doc[x] = d /\ key[x] = key[c]
      <3>1. Readable(stored[d].tree) /\ stored[d].tree["meta.xml"].key = key[c]
        BY <2>2 DEF SavedFor, Readable, MetaOf
      <3>2. d \in Docs
        BY <1>0 DEF TypeOK
      <3> QED
        BY <3>1, <3>2, ReadableListed
    <2> QED
      BY <2>1, <2>2
  <1>2. ASSUME NEW d \in Docs, ScanOther(c, d)
        PROVE  /\ known' = known /\ carried' = carried
               /\ known[c] \subseteq todo'[c]
    <2>1. /\ known' = known /\ carried' = carried /\ pc[c] = "scan"
          /\ todo'[c] = todo[c] \ {d}
          /\ Readable(stored[d].tree) /\ stored[d].tree["meta.xml"].key # key[c]
      BY <1>0, <1>2 DEF ScanOther, Plain, TypeOK
    <2>2. d \notin known[c]
      BY <1>0, <2>1, NoDocAssumption DEF KeyInv, Filed, FiledAs
    <2> QED
      BY <1>0, <2>1, <2>2
  <1>3. CASE ReadDraftMeta(c)
    <2>1. known' = known /\ pc'[c] # "scan"
      BY <1>0, <1>3 DEF ReadDraftMeta, Plain, Goto, TypeOK
    <2>2. FiledAs(Files(c), key[c])
      <3>1. doc[c] # NoDoc /\ backend \in {"git", "fs"}
        BY <1>0, <1>3, BackendAssumption DEF ReadDraftMeta, HandOf, TypeOK
      <3> QED
        BY <3>1 DEF KeyInv, Filed, Files
    <2>3. carried' = carried
      BY <1>0, <1>3, <2>2 DEF ReadDraftMeta, FiledAs, TypeOK
    <2> QED
      BY <1>0, <2>1, <2>3
  <1>4. CASE \/ \E d \in Docs : ScanUnreadable(c, d)
             \/ ListAttachments(c) \/ CommitFiles(c) \/ PushRejected(c)
             \/ ProxyAttachment(c) \/ Unfetched(c) \/ NoAttachment(c) \/ LookupAttachment(c)
             \/ AttachmentAnswered(c) \/ AttachmentDropped(c)
             \/ Refused(c) \/ Abandon(c)
    <2>1. known' = known /\ carried' = carried
      BY <1>4 DEF ScanUnreadable, ListAttachments, CommitFiles, PushRejected, ProxyAttachment,
                  Unfetched, NoAttachment, LookupAttachment, AttachmentAnswered,
                  AttachmentDropped, Refused, Abandon, Plain
    <2>2. pc'[c] # "scan"
      BY <1>0, <1>4
      DEF ScanUnreadable, ListAttachments, CommitFiles, PushRejected, ProxyAttachment,
          Unfetched, NoAttachment, LookupAttachment, AttachmentAnswered, AttachmentDropped,
          Refused, Abandon, Goto, TypeOK, HandOf, Serving, Upload
    <2> QED
      BY <1>0, <2>1, <2>2
  <1>5. CASE StoreFails(c)
    <2>1. known' = known /\ carried' = carried
      BY <1>5 DEF StoreFails
    <2>2. pc'[c] # "scan"
      BY <1>0, <1>5 DEF StoreFails, Goto, TypeOK, HandOf, Serving, Upload
    <2> QED
      BY <1>0, <2>1, <2>2
  <1> QED
    BY <1>0, <1>1, <1>2, <1>3, <1>4, <1>5 DEF Reads

\* So does one that reads,
LEMMA ReadKeyInv ==
    ASSUME KeyInv, NEW c \in Captures, Reads(c)
    PROVE  KeyInv'
  <1>1. /\ Typed' /\ Mine(c)
        /\ UNCHANGED <<listed, stored, doc, work, sealed, met>>
    BY ReadTyped DEF KeyInv
  <1>2. Filed' /\ SameKey' /\ Unlisted' /\ Visited'
    BY <1>1 DEF KeyInv, Filed, FiledAs, Readable, SameKey, Unlisted, Visited, Mine
  <1>3. KnownInv' /\ Carried'
    BY <1>1, ReadKnown DEF KeyInv, KnownInv, Carried, Mine
  <1> QED
    BY <1>1, <1>2, <1>3 DEF KeyInv

\* one that seals or pushes,
LEMMA PushKeyInv ==
    ASSUME KeyInv, NEW c \in Captures, SealRevision(c) \/ PushAccepted(c)
    PROVE  KeyInv'
  <1>1. Typed' /\ Mine(c)
    BY SealTyped, PushTyped DEF KeyInv
  <1>2. /\ UNCHANGED <<key, backend, doc, carried, work, known>>
        /\ pc'[c] # "scan" /\ doc[c] # NoDoc
    BY DEF KeyInv, Typed, TypeOK, InHand, HandOf, SealRevision, PushAccepted, Goto, Plain, given
  <1>3. SameKey' /\ KnownInv' /\ Carried'
    BY <1>1, <1>2 DEF KeyInv, SameKey, KnownInv, Carried, Mine
  <1>4. CASE SealRevision(c)
    <2>1. /\ stored' = stored /\ listed' = listed
          /\ sealed'[c].tree = work[c] /\ backend = "git"
      <3>1. stored' = stored /\ listed' = listed /\ backend = "git"
        BY <1>4 DEF SealRevision
      <3>2. sealed'[c] = [revs |-> sealed[c].revs \cup {<<c, 1>>}, tree |-> work[c]]
        BY <1>4, SealTyped DEF KeyInv
      <3> QED
        BY <3>1, <3>2
    <2>2. FiledAs(sealed'[c].tree, key[c])
      BY <1>2, <2>1 DEF KeyInv, Filed
    <2>3. Filed'
      BY <1>1, <1>2, <2>1, <2>2 DEF KeyInv, Filed, FiledAs, Readable, Mine
    <2>4. Unlisted' /\ Visited'
      BY <1>2, <2>1 DEF KeyInv, Unlisted, Visited
    <2> QED
      BY <1>1, <1>3, <2>3, <2>4 DEF KeyInv
  <1>5. CASE PushAccepted(c)
    <2>1. /\ doc[c] \in Docs /\ backend = "git"
          /\ sealed' = sealed
          /\ listed' = listed \cup {doc[c]}
          /\ \A d \in Docs : stored'[d] = IF d = doc[c] THEN sealed[c] ELSE stored[d]
      BY <1>5, PushTyped DEF PushAccepted, KeyInv, Typed, TypeOK
    <2>2. FiledAs(sealed[c].tree, key[c])
      BY <1>2, <2>1 DEF KeyInv, Filed
    <2>3. Filed'
      <3> SUFFICES ASSUME NEW x \in Captures, doc[x] # NoDoc
                   PROVE  /\ FiledAs(stored'[doc[x]].tree, key[x])
                          /\ FiledAs(work[x], key[x])
                          /\ FiledAs(sealed[x].tree, key[x])
        BY <1>2, <2>1 DEF Filed, FiledAs, Readable
      <3>1. doc[x] \in Docs
        BY DEF KeyInv, Typed, TypeOK
      <3>2. doc[x] = doc[c] => key[x] = key[c]
        BY <1>2 DEF KeyInv, SameKey
      <3>3. FiledAs(stored'[doc[x]].tree, key[x])
        BY <2>1, <2>2, <3>1, <3>2 DEF KeyInv, Filed
      <3> QED
        BY <2>1, <3>3 DEF KeyInv, Filed
    <2>4. Unlisted' /\ Visited'
      BY <1>2, <2>1 DEF KeyInv, Unlisted, Visited
    <2> QED
      BY <1>1, <1>3, <2>3, <2>4 DEF KeyInv
  <1> QED
    BY <1>4, <1>5

\* and a restart.
LEMMA RestartKeyInv ==
    ASSUME KeyInv, Restart
    PROVE  KeyInv'
  BY RestartTyped
  DEF KeyInv, Filed, FiledAs, Readable, SameKey, Unlisted, Visited, KnownInv, Carried

\* Every step keeps KeyInv.
LEMMA StepKeyInv == KeyInv /\ [Next]_vars => KeyInv'
  <1>1. KeyInv /\ Next => KeyInv'
    <2> SUFFICES ASSUME KeyInv, Next PROVE KeyInv'
      OBVIOUS
    <2>1. ASSUME NEW c \in Captures, Step(c) PROVE KeyInv'
      BY <2>1, StepKinds, WriteKeyInv, JoinKeyInv, ReadKeyInv, PushKeyInv
    <2> QED
      BY <2>1, NextKinds, RestartKeyInv
  <1>2. KeyInv /\ UNCHANGED vars => KeyInv'
    BY DEF vars, KeyInv, Typed, TypeOK, InHand, HandOf, Filed, FiledAs, Readable, SameKey,
           Unlisted, Visited, KnownInv, Carried
  <1> QED
    BY <1>1, <1>2

\* KeyInv holds at first.
LEMMA InitKeyInv == Init => KeyInv
  <1> SUFFICES ASSUME Init PROVE KeyInv
    OBVIOUS
  <1>1. Typed
    BY InitTyped
  <1>2. Filed /\ SameKey /\ Unlisted /\ Visited /\ KnownInv /\ Carried
    BY DEF Init, Filed, SameKey, Unlisted, Visited, KnownInv, Carried
  <1> QED
    BY <1>1, <1>2 DEF KeyInv

\* A document never changes hands.
THEOREM DocumentsKeepKeys == Spec => []DocKeepsKey
  <1>1. KeyInv => DocKeepsKey
    BY DEF KeyInv, Filed, FiledAs, DocKeepsKey
  <1> QED
    BY <1>1, InitKeyInv, StepKeyInv, PTL DEF Spec

-----------------------------------------------------------------------------
(***************************************************************************)
(* What becomes of a capture.  Until its commit is sealed nobody has its   *)
(* revision.  What it sees of the document (on the file store, if nobody   *)
(* else was at work on it) makes progress towards a whole capture, and the *)
(* commit, or the document it leaves behind, is what it saw at the end.    *)
(***************************************************************************)
\* No one has the revision of a capture before it seals it.
RevsNew ==
    /\ \A c \in Captures : pc[c] \notin {"push", "done", "failed"} =>
          /\ \A d \in Docs : <<c, 1>> \notin stored[d].revs
          /\ \A x \in Captures : <<c, 1>> \notin sealed[x].revs
    /\ \A c \in Captures : pc[c] = "push" => <<c, 1>> \in sealed[c].revs

\* What was sealed is a final document, and whole if nothing went wrong.
SealedWhole ==
    \A c \in Captures :
        <<c, 1>> \in sealed[c].revs =>
            /\ sealed[c].tree["meta.xml"] = MetaOf(key[c], "static")
            /\ clean[c] => Complete(c, sealed[c].tree)

\* A capture that met nobody has its document for itself.
Alone ==
    \A c \in Captures :
        doc[c] # NoDoc /\ met[c] = {} =>
            \A y \in Captures \ {c} : doc[y] = doc[c] => ~ Live(y)

\* Nobody else writes what capture c sees.
Own(c) == backend = "git" \/ met[c] = {}

\* Where a capture is from the upload of its attachment on.
Later == {"attach", "page", "copyPage", "final"} \cup Saving

\* How far a capture without mishaps has come: old attachments are gone once it
\* is a draft, and its own is there, whole, once its upload is over.
Progress(c, tree) ==
    /\ pc[c] = "clear" => \A n \in Captures \ todo[c] : tree[n] = Absent
    /\ pc[c] \in {"draftMeta", "draft"} => \A n \in Captures : tree[n] = Absent
    /\ pc[c] \in Later =>
          /\ \A n \in Captures \ {c} : tree[n] = Absent
          /\ up[c] \in {"lookup", "create", "copy"} => tree[c] # Absent
          /\ up[c] = "over" => tree[c] = Full
          /\ up[c] \in {"none", "broken"} => c \notin refers
    /\ pc[c] \in (Later \ {"attach"}) \cup {"done"} => up[c] \notin Upload
    /\ pc[c] \in {"final"} \cup Saving => tree["document.bin"] = PageOf(c, Refers(c))

\* What a capture has for itself is as far as it should be.
HeldBy(c) ==
    Own(c) =>
        /\ pc[c] = "commit" => Files(c)["meta.xml"] = MetaOf(key[c], "static")
        /\ clean[c] => Progress(c, Files(c))

Held == \A c \in Captures : HeldBy(c)

IInv ==
    /\ KeyInv /\ RevsNew /\ AckedPublished /\ SealedWhole /\ Alone /\ Held
    /\ UndisturbedIsComplete

\* Only SealRevision and a push taken bring a capture to a revision, and one that
\* has come to its end stays there; only requests of a draft that is open wake it.
LEMMA StepPc ==
    ASSUME Typed, NEW c \in Captures, Writes(c) \/ Reads(c)
    PROVE  /\ pc[c] \in {"push", "done", "failed"} =>
                 /\ pc'[c] \in {"push", "done", "failed"}
                 /\ c \in refers' <=> c \in refers
           /\ pc'[c] = "push" => pc[c] = "push"
           /\ pc'[c] = "done" => pc[c] = "done" \/ (backend = "fs" /\ CommitFiles(c))
           /\ clean'[c] => clean[c]
           /\ doc[c] # NoDoc /\ Live(c)' => Live(c)
  <1>0. TypeOK /\ HandOf(c)
    BY DEF Typed, InHand
  <1>1. CASE Writes(c)
    <2>1. Live(c) /\ clean' = clean
      BY <1>1, WriteStep
    <2>2. /\ pc[c] \in {"push", "done", "failed"} => pc'[c] = pc[c]
          /\ pc'[c] \in {"push", "done"} => pc'[c] = pc[c]
      BY <1>0, <1>1
      DEF Writes, DeleteOldAttachment, CreateDraftMeta, EncodeDraftMeta, NewAttachment,
          Fetched, CreateAttachment, CopyAttachment, CreatePage, CopyPage,
          CreateStaticMeta, EncodeStaticMeta, Goto, TypeOK
    <2>3. pc[c] \in {"push", "done", "failed"} => (c \in refers' <=> c \in refers)
      BY <1>0, <1>1
      DEF Writes, DeleteOldAttachment, CreateDraftMeta, EncodeDraftMeta, NewAttachment,
          Fetched, CreateAttachment, CopyAttachment, CreatePage, CopyPage,
          CreateStaticMeta, EncodeStaticMeta, Plain, given
    <2> QED
      BY <2>1, <2>2, <2>3
  <1>2. CASE Reads(c)
    <2> USE <1>0 DEF TypeOK, HandOf, Live, Serving, Saving, Waiting, Upload, Goto, Plain, given
    <2>1. CASE ListDocuments(c)
      BY <2>1 DEF ListDocuments
    <2>2. CASE \E d \in Docs : ScanUnreadable(c, d)
      BY <2>2 DEF ScanUnreadable
    <2>3. CASE \E d \in Docs : ScanOther(c, d)
      BY <2>3 DEF ScanOther
    <2>4. CASE ListAttachments(c)
      BY <2>4 DEF ListAttachments
    <2>5. CASE CommitFiles(c)
      BY <2>5 DEF CommitFiles
    <2>6. CASE PushRejected(c)
      BY <2>6 DEF PushRejected
    <2>7. CASE ProxyAttachment(c)
      BY <2>7 DEF ProxyAttachment
    <2>8. CASE Unfetched(c)
      BY <2>8 DEF Unfetched
    <2>9. CASE NoAttachment(c)
      BY <2>9 DEF NoAttachment
    <2>10. CASE LookupAttachment(c)
      BY <2>10 DEF LookupAttachment
    <2>11. CASE AttachmentAnswered(c)
      BY <2>11 DEF AttachmentAnswered
    <2>12. CASE AttachmentDropped(c)
      BY <2>12 DEF AttachmentDropped
    <2>13. CASE ReadDraftMeta(c)
      BY <2>13 DEF ReadDraftMeta
    <2>14. CASE Refused(c)
      BY <2>14 DEF Refused
    <2>15. CASE Abandon(c)
      BY <2>15 DEF Abandon
    <2>16. CASE StoreFails(c)
      BY <2>16 DEF StoreFails
    <2> QED
      BY <1>2, <2>1, <2>2, <2>3, <2>4, <2>5, <2>6, <2>7, <2>8, <2>9, <2>10, <2>11, <2>12,
         <2>13, <2>14, <2>15, <2>16 DEF Reads
  <1> QED
    BY <1>1, <1>2

\* Revisions appear when they are sealed, and what is pushed has all of them.
LEMMA RevsStep ==
    ASSUME IInv, NEW c \in Captures, Step(c)
    PROVE  RevsNew' /\ AckedPublished'
  <1>0. /\ Typed /\ TypeOK /\ Mine(c) /\ backend' = backend
    BY StepMine DEF IInv, KeyInv, Typed, Mine
  <1>1. CASE Writes(c) \/ Reads(c)
    <2>1. sealed' = sealed /\ doc' = doc /\ \A d \in Docs : stored'[d].revs = stored[d].revs
      BY <1>0, <1>1, WriteStep, WriteFiled, ReadTyped DEF IInv
    <2>2. RevsNew'
      BY <1>0, <1>1, <2>1, StepPc DEF IInv, RevsNew, Mine
    <2>3. AckedPublished'
      <3> SUFFICES ASSUME NEW x \in Captures, backend = "git", pc'[x] = "done"
                   PROVE  <<x, 1>> \in stored'[doc[x]].revs
        BY <1>0, <2>1 DEF AckedPublished
      <3>1. pc[x] = "done"
        BY <1>0, <1>1, StepPc DEF Mine
      <3>2. doc[x] \in Docs
        BY <1>0, <3>1 DEF Typed, TypeOK, InHand, HandOf
      <3> QED
        BY <2>1, <3>1, <3>2 DEF IInv, AckedPublished
    <2> QED
      BY <2>2, <2>3
  <1>2. CASE Joins(c)
    <2>1. PICK d \in Docs :
              /\ Join(c, d)
              /\ Reuses(c, d) \/ IsNew(c, d)
              /\ UNCHANGED <<key, backend, stored, refers, clean, known, carried, up, troubles>>
      BY <1>0, <1>2, JoinStep
    <2>2. /\ pc[c] \in {"idle", "scan"} /\ pc'[c] \notin {"push", "done"}
          /\ \A x \in Captures, y \in Captures :
                <<x, 1>> \in sealed'[y].revs =>
                    <<x, 1>> \in sealed[y].revs \/ <<x, 1>> \in stored[d].revs
      <3>1. backend \in {"git", "fs"}
        BY <1>0, BackendAssumption DEF TypeOK
      <3> QED
        BY <1>0, <2>1, <3>1, JoinEffect DEF Reuses, IsNew, TypeOK
    <2>3. RevsNew'
      BY <1>0, <2>1, <2>2 DEF IInv, RevsNew, Mine
    <2>4. AckedPublished'
      BY <1>0, <2>1, <2>2 DEF IInv, AckedPublished, Mine
    <2> QED
      BY <2>3, <2>4
  <1>3. CASE SealRevision(c)
    <2>1. /\ UNCHANGED <<stored, doc>> /\ pc'[c] = "push"
          /\ sealed'[c].revs = sealed[c].revs \cup {<<c, 1>>}
          /\ pc[c] = "commit"
      <3>1. sealed'[c] = [revs |-> sealed[c].revs \cup {<<c, 1>>}, tree |-> work[c]]
        BY <1>0, <1>3, SealTyped
      <3>2. UNCHANGED <<stored, doc>> /\ pc'[c] = "push" /\ pc[c] = "commit"
        BY <1>0, <1>3, SealTyped DEF SealRevision, Plain
      <3> QED
        BY <3>1, <3>2
    <2> QED
      BY <1>0, <2>1 DEF IInv, RevsNew, AckedPublished, Mine
  <1>4. CASE PushAccepted(c)
    <2>1. /\ pc[c] = "push" /\ pc'[c] \in {"done", "failed"}
          /\ sealed' = sealed /\ doc' = doc /\ doc[c] \in Docs
          /\ \A d \in Docs : stored'[d] = IF d = doc[c] THEN sealed[c] ELSE stored[d]
          /\ stored[doc[c]].revs \subseteq sealed[c].revs
      BY <1>0, <1>4, PushTyped DEF PushAccepted, Goto, FastForward, TypeOK
    <2>2. RevsNew'
      BY <1>0, <2>1 DEF IInv, RevsNew, Mine
    <2>3. AckedPublished'
      <3> SUFFICES ASSUME NEW x \in Captures, backend = "git", pc'[x] = "done"
                   PROVE  <<x, 1>> \in stored'[doc[x]].revs
        BY <1>0, <2>1 DEF AckedPublished
      <3>1. CASE x = c
        BY <2>1, <3>1 DEF IInv, RevsNew
      <3>2. CASE x # c
        <4>1. pc[x] = "done" /\ doc[x] \in Docs
          BY <1>0, <3>2 DEF Mine, Typed, TypeOK, InHand, HandOf
        <4> QED
          BY <2>1, <4>1 DEF IInv, AckedPublished
      <3> QED
        BY <3>1, <3>2
    <2> QED
      BY <2>2, <2>3
  <1> QED
    BY <1>1, <1>2, <1>3, <1>4, StepKinds

\* A capture whose commit may be sealed, or whose draft is done, is whole.
LEMMA Whole ==
    ASSUME IInv, NEW c \in Captures, Own(c), pc[c] = "commit"
    PROVE  /\ Files(c)["meta.xml"] = MetaOf(key[c], "static")
           /\ clean[c] => Complete(c, Files(c))
  <1>1. /\ Files(c)["meta.xml"] = MetaOf(key[c], "static")
        /\ clean[c] => Progress(c, Files(c))
    BY DEF IInv, Held, HeldBy
  <1>2. up[c] \in {"none", "over", "broken"} \cup Upload
    BY DEF IInv, KeyInv, Typed, TypeOK
  <1> QED
    BY <1>1, <1>2 DEF Progress, Complete, Later, Saving, Refers, Upload

\* What is sealed is what a capture held when it came to commit.
LEMMA SealedStep ==
    ASSUME IInv, NEW c \in Captures, Step(c)
    PROVE  SealedWhole'
  <1>0. /\ Typed /\ TypeOK /\ Mine(c) /\ key' = key
        /\ \A x \in Captures : Refers(x) <=> x \in refers
    BY StepMine DEF IInv, KeyInv, Typed, Mine, Refers
  <1> SUFFICES ASSUME NEW x \in Captures, <<x, 1>> \in sealed'[x].revs
               PROVE  /\ sealed'[x].tree["meta.xml"] = MetaOf(key[x], "static")
                      /\ clean'[x] => Complete(x, sealed[x].tree)'
    BY <1>0 DEF SealedWhole
  <1>1. CASE x # c
    <2>1. /\ sealed'[x] = sealed[x] /\ clean'[x] = clean[x]
          /\ x \in refers' <=> x \in refers
      BY <1>0, <1>1 DEF Mine
    <2> QED
      BY <1>0, <2>1 DEF IInv, SealedWhole, Complete, Refers
  <1>2. CASE x = c /\ (Writes(c) \/ Reads(c) \/ PushAccepted(c))
    <2>1. /\ sealed' = sealed /\ (clean'[c] => clean[c])
          /\ pc[c] \in {"push", "done", "failed"} => (c \in refers' <=> c \in refers)
      BY <1>0, <1>2, WriteStep, ReadTyped, StepPc DEF PushAccepted, Plain, given
    <2>2. pc[c] \in {"push", "done", "failed"}
      BY <1>2, <2>1, <1>0 DEF IInv, RevsNew, TypeOK, KeyInv
    <2> QED
      BY <1>0, <1>2, <2>1, <2>2 DEF IInv, SealedWhole, Complete, Refers
  <1>3. CASE x = c /\ Joins(c)
    <2>1. PICK d \in Docs : Join(c, d) /\ (Reuses(c, d) \/ IsNew(c, d))
      BY <1>0, <1>3, JoinStep
    <2>2. sealed'[c] \in {sealed[c], stored[d]} /\ pc[c] \in {"idle", "scan"}
      <3>1. backend \in {"git", "fs"}
        BY <1>0, BackendAssumption DEF TypeOK
      <3> QED
        BY <1>0, <2>1, <3>1, JoinEffect DEF Reuses, IsNew
    <2> QED
      BY <1>3, <2>2 DEF IInv, RevsNew
  <1>4. CASE x = c /\ SealRevision(c)
    <2>1. /\ sealed'[c].tree = work[c] /\ pc[c] = "commit" /\ backend = "git"
          /\ clean' = clean /\ refers' = refers
      <3>1. sealed'[c] = [revs |-> sealed[c].revs \cup {<<c, 1>>}, tree |-> work[c]]
        BY <1>0, <1>4, SealTyped
      <3> QED
        BY <1>4, <3>1 DEF SealRevision, Plain, given
    <2>2. Files(c) = work[c]
      BY <2>1 DEF Files
    <2> QED
      BY <1>0, <1>4, <2>1, <2>2, Whole DEF Own, Complete, Refers
  <1> QED
    BY <1>1, <1>2, <1>3, <1>4, StepKinds

\* Who comes to a document that somebody is at work on meets them.
LEMMA AloneStep ==
    ASSUME IInv, NEW c \in Captures, Step(c)
    PROVE  Alone'
  <1>0. Typed /\ TypeOK /\ Mine(c)
    BY StepMine DEF IInv, KeyInv, Typed
  <1>1. \A y \in Captures \ {c} : Live(y)' <=> Live(y)
    BY <1>0 DEF Mine, Live
  <1>2. CASE ~ Joins(c)
    <2>1. doc' = doc /\ met' = met /\ (doc[c] # NoDoc /\ Live(c)' => Live(c))
      <3>1. CASE Writes(c) \/ Reads(c)
        BY <1>0, <3>1, WriteStep, ReadTyped, StepPc
      <3>2. CASE SealRevision(c) \/ PushAccepted(c)
        BY <3>2 DEF SealRevision, PushAccepted, Plain, Live, Saving
      <3> QED
        BY <1>2, <3>1, <3>2, StepKinds
    <2> QED
      BY <1>1, <2>1 DEF IInv, Alone
  <1>3. CASE Joins(c)
    <2>1. PICK d \in Docs : Join(c, d) /\ (Reuses(c, d) \/ IsNew(c, d))
      BY <1>0, <1>3, JoinStep
    <2>2. doc'[c] = d /\ d # NoDoc /\ \A x \in Captures \ {c} : doc'[x] = doc[x]
      BY <1>0, <2>1, JoinEffect, NoDocAssumption
    <2>3. CASE Reuses(c, d)
      <3>1. \A x \in Captures :
               met'[x] = IF x = c THEN {y \in Captures : doc[y] = d /\ Live(y)}
                         ELSE IF doc[x] = d THEN met[x] \cup {c} ELSE met[x]
        BY <2>3 DEF Reuses
      <3> QED
        BY <1>1, <2>2, <3>1 DEF IInv, Alone
    <2>4. CASE IsNew(c, d)
      BY <1>1, <2>2, <2>4 DEF IsNew, IInv, Alone
    <2> QED
      BY <2>1, <2>3, <2>4
  <1> QED
    BY <1>2, <1>3

\* Nobody else changes what a capture sees: its private copy is its own, and so is
\* a document on which it met nobody.
LEMMA OthersLeave ==
    ASSUME IInv, NEW s \in Captures, Step(s), NEW c \in Captures \ {s}, doc[c] \in Docs
    PROVE  /\ met[c] = {} => stored'[doc[c]] = stored[doc[c]]
           /\ Own(c) => Files(c)' = Files(c)
  <1>0. /\ Typed /\ TypeOK /\ Mine(s) /\ doc[c] # NoDoc
        /\ doc'[c] = doc[c] /\ work'[c] = work[c] /\ backend' = backend
    BY StepMine, NoDocAssumption DEF IInv, KeyInv, Typed, Mine
  <1>1. met[c] = {} /\ Live(s) => doc[s] # doc[c]
    BY <1>0 DEF IInv, Alone
  <1>2. met[c] = {} => stored'[doc[c]] = stored[doc[c]]
    <2>1. CASE Writes(s)
      BY <1>0, <1>1, <2>1, WriteStep, WriteFiled DEF IInv
    <2>2. CASE Joins(s)
      BY <1>0, <2>2, JoinStep
    <2>3. CASE Reads(s)
      BY <1>0, <2>3, ReadTyped
    <2>4. CASE SealRevision(s)
      BY <2>4 DEF SealRevision
    <2>5. CASE PushAccepted(s)
      <3>1. Live(s)
        BY <2>5 DEF PushAccepted, Live, Saving
      <3> QED
        BY <1>0, <1>1, <2>5, <3>1 DEF PushAccepted, TypeOK
    <2> QED
      BY <2>1, <2>2, <2>3, <2>4, <2>5, StepKinds
  <1> QED
    BY <1>0, <1>2 DEF Own, Files

\* What a capture writes is progress,
LEMMA WriteHeld ==
    ASSUME IInv, NEW c \in Captures, Writes(c)
    PROVE  HeldBy(c)'
  <1>0. /\ Typed /\ TypeOK /\ HandOf(c) /\ doc[c] \in Docs /\ carried[c] = key[c]
        /\ clean' = clean /\ met' = met /\ doc' = doc /\ key' = key /\ backend' = backend
    BY WriteStep DEF IInv, KeyInv, Typed, InHand, Carried
  <1> DEFINE F == Files(c)
             G == Files(c)'
  <1>1. SUFFICES ASSUME Own(c)
                 PROVE  /\ pc'[c] = "commit" => G["meta.xml"] = MetaOf(key[c], "static")
                        /\ clean[c] => Progress(c, Files(c))'
    BY <1>0 DEF HeldBy, Own
  <1>2. /\ pc[c] = "commit" => F["meta.xml"] = MetaOf(key[c], "static")
        /\ clean[c] => Progress(c, F)
    BY <1>1 DEF IInv, Held, HeldBy
  <1>3. ASSUME NEW n \in FileNames, NEW v \in Contents \cup {Absent}, Put(c, n, v)
        PROVE  G[n] = v /\ \A m \in FileNames \ {n} : G[m] = F[m]
    BY <1>0, <1>3, PutEffect
  <1>4. /\ Captures \subseteq FileNames /\ \A n \in Captures : n # "meta.xml" /\ n # "document.bin"
        /\ "meta.xml" \in FileNames /\ "document.bin" \in FileNames
        /\ Torn # Absent
    BY NamesAssumption DEF FileNames, Torn, Absent
  <1> HIDE DEF F, G
  <1>5. Files(c)' = G /\ Files(c) = F
    BY DEF F, G
  <1>6. CASE \E n \in Captures : DeleteOldAttachment(c, n)
    <2>1. PICK n \in Captures : DeleteOldAttachment(c, n)
      BY <1>6
    <2>2. /\ pc[c] = "clear" /\ todo'[c] = todo[c] \ {n} /\ Put(c, n, Absent)
          /\ UNCHANGED <<pc, up, refers>>
      BY <1>0, <2>1 DEF DeleteOldAttachment, Plain, given, TypeOK
    <2>3. G[n] = Absent /\ \A m \in FileNames \ {n} : G[m] = F[m]
      BY <1>3, <1>4, <2>2
    <2> QED
      BY <1>2, <1>4, <1>5, <2>2, <2>3 DEF Progress, Later, Saving
  <1>7. CASE CreateDraftMeta(c)
    <2>1. Put(c, "meta.xml", Torn)
      BY <1>7 DEF CreateDraftMeta
    <2>2. G["meta.xml"] = Torn /\ \A m \in FileNames \ {"meta.xml"} : G[m] = F[m]
      BY <1>0, <1>3, <1>4, <2>1, ContentTypes DEF Refers, TypeOK
    <2> QED
      BY <1>0, <1>2, <1>4, <1>5, <1>7, <2>2
      DEF CreateDraftMeta, Goto, Plain, given, TypeOK, HandOf, Progress, Refers, Later, Serving,
          Saving, Upload, F
  <1>8. CASE EncodeDraftMeta(c)
    <2>1. Put(c, "meta.xml", MetaOf(key[c], "draft"))
      BY <1>8 DEF EncodeDraftMeta
    <2>2. G["meta.xml"] = MetaOf(key[c], "draft") /\ \A m \in FileNames \ {"meta.xml"} : G[m] = F[m]
      BY <1>0, <1>3, <1>4, <2>1, ContentTypes DEF Refers, TypeOK
    <2> QED
      BY <1>0, <1>2, <1>4, <1>5, <1>8, <2>2
      DEF EncodeDraftMeta, Goto, Plain, given, TypeOK, HandOf, Progress, Refers, Later, Serving,
          Saving, Upload, F
  <1>9. CASE NewAttachment(c)
    <2>1. Put(c, c, Torn)
      BY <1>9 DEF NewAttachment
    <2>2. G[c] = Torn /\ \A m \in FileNames \ {c} : G[m] = F[m]
      BY <1>0, <1>3, <1>4, <2>1, ContentTypes DEF Refers, TypeOK
    <2> QED
      BY <1>0, <1>2, <1>4, <1>5, <1>9, <2>2
      DEF NewAttachment, Goto, Plain, given, TypeOK, HandOf, Progress, Refers, Later, Serving,
          Saving, Upload, F
  <1>10. CASE Fetched(c)
    <2>1. Put(c, c, Torn)
      BY <1>10 DEF Fetched
    <2>2. G[c] = Torn /\ \A m \in FileNames \ {c} : G[m] = F[m]
      BY <1>0, <1>3, <1>4, <2>1, ContentTypes DEF Refers, TypeOK
    <2> QED
      BY <1>0, <1>2, <1>4, <1>5, <1>10, <2>2
      DEF Fetched, Goto, Plain, given, TypeOK, HandOf, Progress, Refers, Later, Serving,
          Saving, Upload, F
  <1>11. CASE CreateAttachment(c)
    <2>1. Put(c, c, Torn)
      BY <1>11 DEF CreateAttachment
    <2>2. G[c] = Torn /\ \A m \in FileNames \ {c} : G[m] = F[m]
      BY <1>0, <1>3, <1>4, <2>1, ContentTypes DEF Refers, TypeOK
    <2> QED
      BY <1>0, <1>2, <1>4, <1>5, <1>11, <2>2
      DEF CreateAttachment, Goto, Plain, given, TypeOK, HandOf, Progress, Refers, Later, Serving,
          Saving, Upload, F
  <1>12. CASE CopyAttachment(c)
    <2>1. Put(c, c, IF Files(c)[c] = Absent THEN Absent ELSE Full)
      BY <1>12 DEF CopyAttachment
    <2>2. /\ G[c] = (IF Files(c)[c] = Absent THEN Absent ELSE Full)
          /\ \A m \in FileNames \ {c} : G[m] = F[m]
      BY <1>0, <1>3, <1>4, <2>1, ContentTypes DEF Refers, TypeOK
    <2> QED
      BY <1>0, <1>2, <1>4, <1>5, <1>12, <2>2
      DEF CopyAttachment, Goto, Plain, given, TypeOK, HandOf, Progress, Refers, Later, Serving,
          Saving, Upload, F
  <1>13. CASE CreatePage(c)
    <2>1. Put(c, "document.bin", Torn)
      BY <1>13 DEF CreatePage
    <2>2. G["document.bin"] = Torn /\ \A m \in FileNames \ {"document.bin"} : G[m] = F[m]
      BY <1>0, <1>3, <1>4, <2>1, ContentTypes DEF Refers, TypeOK
    <2> QED
      BY <1>0, <1>2, <1>4, <1>5, <1>13, <2>2
      DEF CreatePage, Goto, Plain, given, TypeOK, HandOf, Progress, Refers, Later, Serving,
          Saving, Upload, F
  <1>14. CASE CopyPage(c)
    <2>1. Put(c, "document.bin", PageOf(c, Refers(c)))
      BY <1>14 DEF CopyPage
    <2>2. G["document.bin"] = PageOf(c, Refers(c))
          /\ \A m \in FileNames \ {"document.bin"} : G[m] = F[m]
      <3>1. Refers(c) \in BOOLEAN
        BY DEF Refers
      <3>2. PageOf(c, Refers(c)) \in Contents
        BY <3>1, ContentTypes
      <3> QED
        BY <1>3, <1>4, <2>1, <3>2
    <2> QED
      BY <1>0, <1>2, <1>4, <1>5, <1>14, <2>2
      DEF CopyPage, Goto, Plain, given, TypeOK, HandOf, Progress, Refers, Later, Serving,
          Saving, Upload, F
  <1>15. CASE CreateStaticMeta(c)
    <2>1. Put(c, "meta.xml", Torn)
      BY <1>15 DEF CreateStaticMeta
    <2>2. G["meta.xml"] = Torn /\ \A m \in FileNames \ {"meta.xml"} : G[m] = F[m]
      BY <1>0, <1>3, <1>4, <2>1, ContentTypes DEF Refers, TypeOK
    <2> QED
      BY <1>0, <1>2, <1>4, <1>5, <1>15, <2>2
      DEF CreateStaticMeta, Goto, Plain, given, TypeOK, HandOf, Progress, Refers, Later, Serving,
          Saving, Upload, F
  <1>16. CASE EncodeStaticMeta(c)
    <2>1. Put(c, "meta.xml", MetaOf(carried[c], "static"))
      BY <1>16 DEF EncodeStaticMeta
    <2>2. /\ G["meta.xml"] = MetaOf(carried[c], "static")
          /\ \A m \in FileNames \ {"meta.xml"} : G[m] = F[m]
      BY <1>0, <1>3, <1>4, <2>1, ContentTypes DEF Refers, TypeOK
    <2> QED
      BY <1>0, <1>2, <1>4, <1>5, <1>16, <2>2
      DEF EncodeStaticMeta, Goto, Plain, given, TypeOK, HandOf, Progress, Refers, Later, Serving,
          Saving, Upload, F
  <1> QED
    BY <1>6, <1>7, <1>8, <1>9, <1>10, <1>11, <1>12, <1>13, <1>14, <1>15, <1>16 DEF Writes

\* what it reads and is told loses none,
LEMMA ReadHeld ==
    ASSUME IInv, NEW c \in Captures, Reads(c)
    PROVE  HeldBy(c)'
  <1>0. /\ Typed /\ TypeOK /\ HandOf(c)
        /\ UNCHANGED <<listed, stored, doc, work, met, key, backend>>
        /\ clean'[c] => clean[c]
    BY ReadTyped, StepPc DEF IInv, KeyInv, Typed, InHand, Mine
  <1> DEFINE F == Files(c)
  <1>1. SUFFICES ASSUME Own(c)
                 PROVE  /\ pc'[c] = "commit" => F["meta.xml"] = MetaOf(key[c], "static")
                        /\ clean'[c] => Progress(c, Files(c))'
    BY <1>0 DEF HeldBy, Own, Files
  <1>2. /\ pc[c] = "commit" => F["meta.xml"] = MetaOf(key[c], "static")
        /\ clean[c] => Progress(c, F)
    BY <1>1 DEF IInv, Held, HeldBy
  <1>3. Files(c)' = F /\ Files(c) = F
    BY <1>0 DEF Files
  <1> HIDE DEF F
  <1>4. Captures \subseteq FileNames
    BY DEF FileNames
  <1>5. CASE ListDocuments(c)
    BY <1>0, <1>2, <1>3, <1>4, <1>5
    DEF ListDocuments, Goto, Plain, given, TypeOK, HandOf, Progress, Refers, Later, Serving,
        Saving, Waiting, Upload
  <1>6. CASE \E d \in Docs : ScanUnreadable(c, d)
    BY <1>0, <1>2, <1>3, <1>4, <1>6
    DEF ScanUnreadable, Goto, Plain, given, TypeOK, HandOf, Progress, Refers, Later, Serving,
        Saving, Waiting, Upload
  <1>7. CASE \E d \in Docs : ScanOther(c, d)
    BY <1>0, <1>2, <1>3, <1>4, <1>7
    DEF ScanOther, Goto, Plain, given, TypeOK, HandOf, Progress, Refers, Later, Serving,
        Saving, Waiting, Upload
  <1>8. CASE ListAttachments(c)
    BY <1>0, <1>2, <1>3, <1>4, <1>8
    DEF ListAttachments, Goto, Plain, given, TypeOK, HandOf, Progress, Refers, Later, Serving,
        Saving, Waiting, Upload
  <1>9. CASE CommitFiles(c)
    BY <1>0, <1>2, <1>3, <1>4, <1>9
    DEF CommitFiles, Goto, Plain, given, TypeOK, HandOf, Progress, Refers, Later, Serving,
        Saving, Waiting, Upload
  <1>10. CASE PushRejected(c)
    BY <1>0, <1>2, <1>3, <1>4, <1>10
    DEF PushRejected, Goto, Plain, given, TypeOK, HandOf, Progress, Refers, Later, Serving,
        Saving, Waiting, Upload
  <1>11. CASE ProxyAttachment(c)
    BY <1>0, <1>2, <1>3, <1>4, <1>11
    DEF ProxyAttachment, Goto, Plain, given, TypeOK, HandOf, Progress, Refers, Later, Serving,
        Saving, Waiting, Upload
  <1>12. CASE Unfetched(c)
    BY <1>0, <1>2, <1>3, <1>4, <1>12
    DEF Unfetched, Goto, Plain, given, TypeOK, HandOf, Progress, Refers, Later, Serving,
        Saving, Waiting, Upload
  <1>13. CASE NoAttachment(c)
    BY <1>0, <1>2, <1>3, <1>4, <1>13
    DEF NoAttachment, Goto, Plain, given, TypeOK, HandOf, Progress, Refers, Later, Serving,
        Saving, Waiting, Upload
  <1>14. CASE LookupAttachment(c)
    BY <1>0, <1>2, <1>3, <1>4, <1>14
    DEF LookupAttachment, Goto, Plain, given, TypeOK, HandOf, Progress, Refers, Later, Serving,
        Saving, Waiting, Upload
  <1>15. CASE AttachmentAnswered(c)
    BY <1>0, <1>2, <1>3, <1>4, <1>15
    DEF AttachmentAnswered, Goto, Plain, given, TypeOK, HandOf, Progress, Refers, Later, Serving,
        Saving, Waiting, Upload
  <1>16. CASE AttachmentDropped(c)
    BY <1>0, <1>2, <1>3, <1>4, <1>16
    DEF AttachmentDropped, Goto, Plain, given, TypeOK, HandOf, Progress, Refers, Later, Serving,
        Saving, Waiting, Upload
  <1>17. CASE ReadDraftMeta(c)
    BY <1>0, <1>2, <1>3, <1>4, <1>17
    DEF ReadDraftMeta, Goto, Plain, given, TypeOK, HandOf, Progress, Refers, Later, Serving,
        Saving, Waiting, Upload
  <1>18. CASE Refused(c)
    BY <1>0, <1>2, <1>3, <1>4, <1>18
    DEF Refused, Goto, Plain, given, TypeOK, HandOf, Progress, Refers, Later, Serving,
        Saving, Waiting, Upload
  <1>19. CASE Abandon(c)
    BY <1>0, <1>2, <1>3, <1>4, <1>19
    DEF Abandon, Goto, Plain, given, TypeOK, HandOf, Progress, Refers, Later, Serving,
        Saving, Waiting, Upload
  <1>20. CASE StoreFails(c)
    BY <1>0, <1>2, <1>3, <1>4, <1>20
    DEF StoreFails, Goto, Plain, given, TypeOK, HandOf, Progress, Refers, Later, Serving,
        Saving, Waiting, Upload
  <1> QED
    BY <1>5, <1>6, <1>7, <1>8, <1>9, <1>10, <1>11, <1>12, <1>13, <1>14, <1>15, <1>16,
       <1>17, <1>18, <1>19, <1>20 DEF Reads

\* nor does a step of somebody else.
LEMMA OthersHeld ==
    ASSUME IInv, NEW s \in Captures, Step(s), NEW c \in Captures \ {s}
    PROVE  HeldBy(c)'
  <1>0. /\ Typed /\ TypeOK /\ HandOf(c) /\ Mine(s)
    BY StepMine DEF IInv, KeyInv, Typed, InHand
  <1>1. /\ pc'[c] = pc[c] /\ up'[c] = up[c] /\ todo'[c] = todo[c] /\ clean'[c] = clean[c]
        /\ c \in refers' <=> c \in refers
        /\ key' = key /\ backend' = backend
        /\ Own(c)' => Own(c)
    BY <1>0 DEF Mine, Own
  <1>2. CASE doc[c] \in Docs
    <2>1. Own(c) => Files(c)' = Files(c)
      BY <1>2, OthersLeave
    <2>2. HeldBy(c)
      BY DEF IInv, Held
    <2> QED
      BY <1>1, <2>1, <2>2 DEF HeldBy, Progress, Refers
  <1>3. CASE doc[c] \notin Docs
    <2>1. pc[c] \in {"idle", "scan", "failed"}
      BY <1>0, <1>3 DEF TypeOK, HandOf
    <2> QED
      BY <1>1, <2>1 DEF HeldBy, Progress, Later, Saving
  <1> QED
    BY <1>2, <1>3

\* A capture that is given a document has everything before it.
LEMMA JoinHeld ==
    ASSUME IInv, NEW c \in Captures, Joins(c)
    PROVE  HeldBy(c)'
  <1>0. Typed /\ TypeOK
    BY DEF IInv, KeyInv, Typed
  <1>1. PICK d \in Docs :
              /\ Join(c, d)
              /\ Reuses(c, d) \/ IsNew(c, d)
              /\ UNCHANGED <<key, backend, stored, refers, clean, known, carried, up, troubles>>
    BY <1>0, JoinStep
  <1>2. CASE Reuses(c, d)
    <2>1. pc'[c] = "list"
      BY <1>0, <1>2 DEF Reuses, TypeOK
    <2> QED
      BY <2>1 DEF HeldBy, Progress, Later, Saving
  <1>3. CASE IsNew(c, d)
    <2>1. pc'[c] \in {"clear", "draft"} /\ todo' = todo /\ (pc'[c] = "clear" => todo[c] = {})
      BY <1>0, <1>3 DEF IsNew, TypeOK
    <2>2. stored[d] = Root
      BY <1>3 DEF IsNew, IInv, KeyInv, Unlisted
    <2>3. Files(c)' = Root.tree
      <3>1. backend \in {"git", "fs"}
        BY <1>0, BackendAssumption DEF TypeOK
      <3> QED
        BY <1>0, <1>1, <2>2, <3>1, JoinEffect DEF Files
    <2>4. \A n \in Captures : Root.tree[n] = Absent
      BY RootFacts DEF FileNames
    <2> QED
      BY <2>1, <2>3, <2>4 DEF HeldBy, Progress, Later, Saving
  <1> QED
    BY <1>1, <1>2, <1>3

\* Sealing and pushing leave a capture what it holds.
LEMMA PushHeld ==
    ASSUME IInv, NEW c \in Captures, SealRevision(c) \/ PushAccepted(c)
    PROVE  HeldBy(c)'
  <1>0. /\ Typed /\ TypeOK /\ backend = "git" /\ HeldBy(c)
        /\ UNCHANGED <<doc, todo, work, up, key, backend, refers, clean, met>>
    BY PushTyped DEF IInv, KeyInv, Typed, Held, SealRevision, PushAccepted, Plain, given
  <1>1. CASE SealRevision(c)
    <2>1. pc[c] = "commit" /\ pc'[c] = "push" /\ Files(c)' = Files(c)
      BY <1>0, <1>1, SealTyped DEF SealRevision, Files
    <2> QED
      BY <1>0, <2>1 DEF HeldBy, Own, Progress, Refers, Later, Saving
  <1>2. CASE PushAccepted(c)
    <2>1. pc[c] = "push" /\ pc'[c] \in {"done", "failed"} /\ Files(c)' = Files(c)
      BY <1>0, <1>2 DEF PushAccepted, Goto, TypeOK, Files
    <2> QED
      BY <1>0, <2>1 DEF HeldBy, Own, Progress, Refers, Later, Saving
  <1> QED
    BY <1>1, <1>2

\* Every step of a capture keeps what all of them hold.
LEMMA HeldStep ==
    ASSUME IInv, NEW c \in Captures, Step(c)
    PROVE  Held'
  <1>1. HeldBy(c)'
    BY StepKinds, WriteHeld, ReadHeld, JoinHeld, PushHeld
  <1> QED
    BY <1>1, OthersHeld DEF Held

\* A draft that is done stays as it is for as long as nobody else gets its document.
LEMMA UndisturbedStep ==
    ASSUME IInv, NEW s \in Captures, Step(s)
    PROVE  UndisturbedIsComplete'
  <1>0. /\ Typed /\ TypeOK /\ Mine(s) /\ key' = key
    BY StepMine DEF IInv, KeyInv, Typed, Mine
  <1> SUFFICES ASSUME NEW c \in Captures, Saved(c)', met'[c] = {}
               PROVE  Complete(c, stored[doc[c]].tree)'
    BY DEF UndisturbedIsComplete
  <1>1. pc'[c] = "done" /\ clean'[c]
    BY DEF Saved
  <1>2. CASE c # s
    <2>1. /\ pc[c] = "done" /\ clean[c] /\ met[c] = {} /\ doc'[c] = doc[c]
          /\ c \in refers' <=> c \in refers
      BY <1>0, <1>1, <1>2 DEF Mine
    <2>2. doc[c] \in Docs
      BY <1>0, <2>1 DEF Typed, TypeOK, InHand, HandOf
    <2>3. stored'[doc[c]] = stored[doc[c]]
      BY <1>2, <2>1, <2>2, OthersLeave
    <2>4. Complete(c, stored[doc[c]].tree)
      BY <2>1 DEF IInv, UndisturbedIsComplete, Saved
    <2> QED
      BY <1>0, <2>1, <2>3, <2>4 DEF Complete, Refers
  <1>3. CASE c = s /\ (Writes(s) \/ Reads(s))
    <2>1. /\ clean[c] /\ (pc[c] = "done" \/ (backend = "fs" /\ CommitFiles(c)))
          /\ met' = met /\ doc' = doc
      BY <1>0, <1>1, <1>3, StepPc, WriteStep, ReadTyped
    <2>2. CASE pc[c] = "done"
      <3>1. up[c] \notin Upload
        BY <2>1, <2>2 DEF IInv, Held, HeldBy, Own, Progress
      <3>2. ~ Writes(c)
        BY <1>0, <2>2, <3>1, WriteStep
        DEF Live, Serving, Saving, Waiting
      <3>3. stored' = stored
        BY <1>0, <1>3, <3>2, ReadTyped
      <3>4. c \in refers' <=> c \in refers
        BY <1>0, <1>3, <2>2, StepPc
      <3>5. Complete(c, stored[doc[c]].tree)
        BY <2>1, <2>2 DEF IInv, UndisturbedIsComplete, Saved
      <3> QED
        BY <1>0, <2>1, <3>3, <3>4, <3>5 DEF Complete, Refers
    <2>3. CASE backend = "fs" /\ CommitFiles(c)
      <3>1. /\ pc[c] = "commit" /\ stored' = stored /\ refers' = refers
            /\ Files(c) = stored[doc[c]].tree
        BY <2>3 DEF CommitFiles, Plain, given, Files
      <3>2. Complete(c, Files(c))
        BY <2>1, <3>1, Whole DEF Own
      <3> QED
        BY <1>0, <2>1, <3>1, <3>2 DEF Complete, Refers
    <2> QED
      BY <2>1, <2>2, <2>3
  <1>4. CASE c = s /\ Joins(s)
    BY <1>0, <1>1, <1>4, JoinStep DEF Reuses, IsNew, TypeOK
  <1>5. CASE c = s /\ SealRevision(s)
    BY <1>0, <1>1, <1>5, SealTyped
  <1>6. CASE c = s /\ PushAccepted(s)
    <2>1. /\ pc[c] = "push" /\ clean[c] /\ doc[c] \in Docs
          /\ stored'[doc[c]] = sealed[c] /\ doc' = doc /\ refers' = refers
      BY <1>0, <1>1, <1>6, PushTyped DEF PushAccepted, Plain, given, TypeOK
    <2>2. Complete(c, sealed[c].tree)
      BY <2>1 DEF IInv, RevsNew, SealedWhole
    <2> QED
      BY <1>0, <2>1, <2>2 DEF Complete, Refers
  <1> QED
    BY <1>2, <1>3, <1>4, <1>5, <1>6, StepKinds

\* A restart keeps IInv.
LEMMA RestartIInv ==
    ASSUME IInv, Restart
    PROVE  IInv'
  <1>0. /\ Typed /\ TypeOK /\ KeyInv'
        /\ UNCHANGED <<key, backend, refers, listed, stored, doc, todo, carried, work,
                       sealed, known, met>>
        /\ transactions' = {}
        /\ \A c \in Captures :
              /\ pc'[c] = IF pc[c] \in Serving \cup Saving \cup {"copyPage"}
                          THEN "failed" ELSE pc[c]
              /\ up'[c] = IF up[c] \in Upload THEN "broken" ELSE up[c]
              /\ clean'[c] => clean[c] /\ up[c] \notin Upload
    BY RestartTyped, RestartKeyInv DEF IInv, KeyInv, Typed
  <1>1. RevsNew' /\ AckedPublished'
    BY <1>0 DEF IInv, RevsNew, AckedPublished, Saving, Serving
  <1>2. SealedWhole' /\ UndisturbedIsComplete'
    BY <1>0 DEF IInv, SealedWhole, UndisturbedIsComplete, Saved, Complete, Refers
  <1>3. Alone'
    <2>1. \A c \in Captures : ~ Live(c)'
      BY <1>0 DEF Live, Serving, Saving, Waiting, Upload
    <2> QED
      BY <2>1 DEF Alone
  <1>4. Held'
    <2> SUFFICES ASSUME NEW c \in Captures PROVE HeldBy(c)'
      BY DEF Held
    <2>1. HeldBy(c) /\ Files(c)' = Files(c) /\ Own(c)' = Own(c) /\ (Refers(c)' <=> Refers(c))
      BY <1>0 DEF IInv, Held, Files, Own, Refers
    <2>2. /\ pc'[c] = pc[c] /\ pc[c] \notin Serving \cup Saving
          \/ pc'[c] = "failed"
      BY <1>0 DEF Serving
    <2>3. clean'[c] => clean[c] /\ up'[c] = up[c]
      BY <1>0
    <2>4. PageOf(c, Refers(c))' = PageOf(c, Refers(c))
      BY <1>0 DEF Refers
    <2> QED
      BY <1>0, <2>1, <2>2, <2>3, <2>4 DEF HeldBy, Progress, Later, Saving, Serving
  <1> QED
    BY <1>0, <1>1, <1>2, <1>3, <1>4 DEF IInv

\* IInv holds at first.
LEMMA InitIInv == Init => IInv
  <1> SUFFICES ASSUME Init PROVE IInv
    OBVIOUS
  <1>1. KeyInv
    BY InitKeyInv
  <1>2. RevsNew /\ SealedWhole
    BY RootFacts DEF Init, RevsNew, SealedWhole
  <1>3. AckedPublished /\ Alone /\ UndisturbedIsComplete
    BY DEF Init, AckedPublished, Alone, UndisturbedIsComplete, Saved
  <1>4. Held
    BY DEF Init, Held, HeldBy, Progress, Later, Saving
  <1> QED
    BY <1>1, <1>2, <1>3, <1>4 DEF IInv

\* Every step keeps IInv.
LEMMA StepIInv == IInv /\ [Next]_vars => IInv'
  <1>1. ASSUME IInv, NEW c \in Captures, Step(c)
        PROVE  IInv'
    <2>1. [Next]_vars
      BY <1>1 DEF Step, Next
    <2>2. KeyInv'
      BY <1>1, <2>1, StepKeyInv DEF IInv
    <2> QED
      BY <1>1, <2>2, RevsStep, SealedStep, AloneStep, HeldStep, UndisturbedStep DEF IInv
  <1>2. IInv /\ UNCHANGED vars => IInv'
    <2> SUFFICES ASSUME IInv, UNCHANGED vars PROVE IInv'
      OBVIOUS
    <2>1. KeyInv'
      BY StepKeyInv DEF IInv
    <2>2. RevsNew' /\ AckedPublished' /\ SealedWhole' /\ Alone' /\ UndisturbedIsComplete'
      BY DEF vars, IInv, RevsNew, AckedPublished, SealedWhole, Alone, Live,
             UndisturbedIsComplete, Saved, Complete, Refers
    <2>3. Held'
      BY DEF vars, IInv, Held, HeldBy, Own, Files, Progress, Refers
    <2> QED
      BY <2>1, <2>2, <2>3 DEF IInv
  <1> QED
    BY <1>1, <1>2, NextKinds, RestartIInv

\* "Document saved" on the git store: the capture is in the history of its document.
THEOREM AckedIsPublished == Spec => []AckedPublished
  <1>1. IInv => AckedPublished
    BY DEF IInv
  <1> QED
    BY <1>1, InitIInv, StepIInv, PTL DEF Spec

\* What the git store publishes is a whole capture, with a page of one chunk.
THEOREM PublishedIsWhole == Spec => []PublishedComplete
  <1>1. IInv => PublishedComplete
    BY DEF IInv, SealedWhole, PublishedComplete
  <1> QED
    BY <1>1, InitIInv, StepIInv, PTL DEF Spec

\* A capture that met no other one on its document is whole once it is saved, with a
\* page of one chunk.
THEOREM UndisturbedIsWhole == Spec => []UndisturbedIsComplete
  <1>1. IInv => UndisturbedIsComplete
    BY DEF IInv
  <1> QED
    BY <1>1, InitIInv, StepIInv, PTL DEF Spec

-----------------------------------------------------------------------------
(***************************************************************************)
(* What a step may never do.                                               *)
(***************************************************************************)

\* Of the steps only those that are given a document change whose it is.
LEMMA DocStays ==
    ASSUME Typed, NEW c \in Captures, Step(c), ~ Joins(c)
    PROVE  doc' = doc
  BY StepKinds, WriteStep, ReadTyped DEF SealRevision, PushAccepted

\* A page that was saved before the request listed the store does not get a second
\* document: who is given one by the scan shares it with a capture of that page.
THEOREM SavedPageIsReused == Spec => NoNeedlessDuplicate
  <1>1. ASSUME KeyInv, [Next]_vars, NEW c \in Captures,
               pc[c] = "scan", doc'[c] # doc[c], known[c] # {}
        PROVE  \E x \in Captures \ {c} : doc[x] = doc'[c] /\ key[x] = key[c]
    <2>1. Typed /\ doc[c] = NoDoc
      BY <1>1 DEF KeyInv, Typed, InHand, HandOf
    <2>2. PICK s \in Captures : Step(s)
      <3>1. ~ UNCHANGED vars
        BY <1>1 DEF vars
      <3>2. ~ Restart
        BY <1>1 DEF Restart
      <3> QED
        BY <1>1, <3>1, <3>2, NextKinds
    <2>3. s = c
      BY <1>1, <2>1, <2>2, StepMine DEF Mine
    <2>4. Joins(c)
      BY <1>1, <2>1, <2>2, <2>3, DocStays
    <2>5. PICK d \in Docs : Join(c, d) /\ (Reuses(c, d) \/ IsNew(c, d))
      BY <2>1, <2>4, JoinStep
    <2>6. doc'[c] = d /\ d # NoDoc
      BY <2>1, <2>5, JoinEffect, NoDocAssumption DEF Typed
    <2>7. ~ IsNew(c, d)
      BY <1>1 DEF IsNew, KeyInv, KnownInv
    <2>8. PICK x \in Captures : doc[x] = d /\ key[c] = key[x]
      BY <1>1, <2>5, <2>7, ReadableListed DEF Reuses
    <2> QED
      BY <2>1, <2>6, <2>8
  <1>2. KeyInv /\ [Next]_vars =>
        [\A c \in Captures :
            pc[c] = "scan" /\ doc'[c] # doc[c] /\ known[c] # {}
                => \E x \in Captures \ {c} : doc[x] = doc'[c] /\ key[x] = key[c]]_vars
    BY <1>1
  <1> QED
    BY <1>2, InitKeyInv, StepKeyInv, PTL DEF Spec, NoNeedlessDuplicate

\* Nobody who could act on a document gets hold of one that is poisoned.
LEMMA PoisonStays ==
    ASSUME KeyInv, NEW c \in Captures, Step(c), NEW d \in Docs, Poisoned(d)
    PROVE  Poisoned(d)'
  <1>0. /\ Typed /\ TypeOK /\ Mine(c) /\ d # NoDoc
        /\ d \in listed /\ ~ Readable(stored[d].tree)
        /\ doc[c] = d => ~ Live(c)
        /\ \A y \in Captures \ {c} : doc'[y] = d => ~ Live(y)'
    BY StepMine, NoDocAssumption DEF KeyInv, Typed, Poisoned, Mine, Live
  <1>1. CASE Writes(c)
    BY <1>0, <1>1, WriteStep, WriteFiled DEF Poisoned
  <1>2. CASE Reads(c)
    <2>1. UNCHANGED <<listed, stored, doc>>
      BY <1>0, <1>2, ReadTyped
    <2>2. doc[c] = d => ~ Live(c)'
      BY <1>0, <1>2, StepPc
    <2> QED
      BY <1>0, <2>1, <2>2 DEF Poisoned
  <1>3. CASE Joins(c)
    <2>1. PICK e \in Docs : /\ Join(c, e) /\ stored' = stored
                            /\ Reuses(c, e) \/ IsNew(c, e)
      BY <1>0, <1>3, JoinStep
    <2>2. doc'[c] = e /\ e # d /\ listed \subseteq listed'
      BY <1>0, <2>1, JoinEffect DEF Reuses, IsNew
    <2> QED
      BY <1>0, <2>1, <2>2 DEF Poisoned
  <1>4. CASE SealRevision(c)
    BY <1>0, <1>4 DEF SealRevision, Poisoned, Live, Saving
  <1>5. CASE PushAccepted(c)
    <2>1. Live(c)
      BY <1>5 DEF PushAccepted, Live, Saving
    <2> QED
      BY <1>0, <1>5, <2>1 DEF PushAccepted, Poisoned, TypeOK
  <1> QED
    BY <1>1, <1>2, <1>3, <1>4, <1>5, StepKinds

\* A document whose metadata cannot be read, and that nobody is at work on, stays
\* that way, after a restart of the server too.
THEOREM PoisonIsForever == Spec => PoisonIsPermanent
  <1>1. ASSUME KeyInv, Restart, NEW d \in Docs, Poisoned(d)
        PROVE  Poisoned(d)'
    <2>1. \A c \in Captures : ~ Live(c)'
      BY <1>1, RestartTyped DEF KeyInv, Live, Serving, Saving, Waiting, Upload
    <2> QED
      BY <1>1, <2>1 DEF Poisoned, Restart
  <1>2. KeyInv /\ [Next]_vars => [\A d \in Docs : Poisoned(d) => Poisoned(d)']_vars
    BY <1>1, PoisonStays, NextKinds
  <1> QED
    BY <1>2, InitKeyInv, StepKeyInv, PTL DEF Spec, PoisonIsPermanent

-----------------------------------------------------------------------------
(***************************************************************************)
(* The refinement: what a capture does to the store is a step of TxStore,  *)
(* and on the file store none.                                             *)
(***************************************************************************)

\* A server that has just been started has no transactions.
LEMMA InitRefines == Init => UsesStore!Init
  <1> SUFFICES ASSUME Init PROVE UsesStore!Init
    OBVIOUS
  <1>1. Root = UsesStore!Root
    BY DEF Root, UsesStore!Root
  <1>2. \A c \in Captures : ~ Transacts(c)
    BY DEF Init, Transacts
  <1>3. \/ backend = "git" /\ stored = [d \in Docs |-> Root]
        \/ backend # "git"
    BY DEF Init
  <1>4. (IF backend = "git" THEN stored ELSE [d \in Docs |-> Root]) \in [Docs -> {Root}]
    BY <1>3
  <1> QED
    BY <1>1, <1>2, <1>4 DEF Init, UsesStore!Init

\* Where the store, the private copies and the commits stay as they are, and nobody
\* begins, TxStore does not move.
LEMMA StutterRefines ==
    ASSUME UNCHANGED <<backend, doc, work, sealed>>,
           backend = "git" => stored' = stored
    PROVE  UNCHANGED UsesStore!vars
  BY DEF UsesStore!vars, Transacts

\* A file written or deleted is one of the private copy.
LEMMA WriteRefines ==
    ASSUME KeyInv, NEW c \in Captures, Writes(c)
    PROVE  [UsesStore!Next]_(UsesStore!vars)
  <1>1. /\ doc[c] \in Docs /\ doc[c] # NoDoc
        /\ UNCHANGED <<backend, doc, sealed>>
    BY WriteStep, NoDocAssumption DEF KeyInv
  <1>2. PICK n \in FileNames, v \in Contents \cup {Absent} : Put(c, n, v)
    BY WriteStep DEF KeyInv
  <1>3. CASE backend # "git"
    BY <1>1, <1>2, <1>3, StutterRefines DEF Put
  <1>4. CASE backend = "git"
    <2>1. UsesStore!Write(c, n, v)
      BY <1>1, <1>2, <1>4 DEF Put, Transacts, UsesStore!Write
    <2> QED
      BY <2>1 DEF UsesStore!Next
  <1> QED
    BY <1>3, <1>4

\* GetDocument begins a transaction.
LEMMA JoinRefines ==
    ASSUME KeyInv, NEW c \in Captures, Joins(c)
    PROVE  [UsesStore!Next]_(UsesStore!vars)
  <1>1. PICK d \in Docs : /\ Join(c, d)
                          /\ Reuses(c, d) \/ IsNew(c, d)
                          /\ UNCHANGED <<backend, stored>>
    BY JoinStep DEF KeyInv
  <1>2. doc[c] = NoDoc /\ d # NoDoc
    BY <1>1, NoDocAssumption DEF Reuses, IsNew, KeyInv, Typed, InHand, HandOf
  <1>3. CASE backend # "git"
    <2>1. UNCHANGED <<work, sealed>>
      BY <1>1, <1>3 DEF Join
    <2> QED
      BY <1>1, <1>3, <2>1 DEF UsesStore!vars, Transacts
  <1>4. CASE backend = "git"
    <2>1. /\ doc' = [doc EXCEPT ![c] = d]
          /\ work' = [work EXCEPT ![c] = stored[d].tree]
          /\ sealed' = [sealed EXCEPT ![c] = stored[d]]
      BY <1>1, <1>4 DEF Join
    <2>2. \A x \in Captures : Transacts(x)' <=> (x = c \/ Transacts(x))
      BY <1>1, <1>2, <1>4, <2>1 DEF Transacts, KeyInv, Typed, TypeOK
    <2>3. \A x \in Captures : doc'[x] = IF x = c THEN d ELSE doc[x]
      BY <2>1 DEF KeyInv, Typed, TypeOK
    <2>4. ~ Transacts(c)
      BY <1>2 DEF Transacts
    <2>5. [x \in Captures |-> IF Transacts(x)' THEN "active" ELSE "idle"]
          = [[x \in Captures |-> IF Transacts(x) THEN "active" ELSE "idle"]
             EXCEPT ![c] = "active"]
      BY <2>2
    <2>6. [x \in Captures |-> IF Transacts(x)' THEN doc'[x] ELSE NoDoc]
          = [[x \in Captures |-> IF Transacts(x) THEN doc[x] ELSE NoDoc] EXCEPT ![c] = d]
      BY <2>2, <2>3
    <2>7. UsesStore!Begin(c, d)
      BY <1>1, <1>4, <2>1, <2>4, <2>5, <2>6 DEF UsesStore!Begin
    <2> QED
      BY <2>7 DEF UsesStore!Next
  <1> QED
    BY <1>3, <1>4

\* Commit seals a revision that is new, and the push publishes it.
LEMMA CommitRefines ==
    ASSUME IInv, NEW c \in Captures, SealRevision(c) \/ PushAccepted(c)
    PROVE  UsesStore!Next
  <1>1. /\ Transacts(c) /\ backend = "git" /\ UNCHANGED <<backend, doc>>
        /\ \A x \in Captures : Transacts(x)' <=> Transacts(x)
    BY DEF SealRevision, PushAccepted, Plain, given, Transacts, IInv, KeyInv, Typed, InHand,
           HandOf
  <1>2. CASE SealRevision(c)
    <2>1. <<c, 1>> \notin sealed[c].revs
      BY <1>2 DEF SealRevision, IInv, RevsNew
    <2>2. UsesStore!Seal(c, 1)
      BY <1>1, <1>2, <2>1 DEF SealRevision, UsesStore!Seal
    <2> QED
      BY <2>2 DEF UsesStore!Next
  <1>3. CASE PushAccepted(c)
    <2>1. UsesStore!Publish(c)
      BY <1>1, <1>3 DEF PushAccepted, FastForward, UsesStore!Publish
    <2> QED
      BY <2>1 DEF UsesStore!Next
  <1> QED
    BY <1>2, <1>3

\* Every step of the API is a step of TxStore or changes nothing it knows of.
LEMMA StepRefines ==
    IInv /\ [Next]_vars => [UsesStore!Next]_(UsesStore!vars)
  <1> SUFFICES ASSUME IInv, [Next]_vars PROVE [UsesStore!Next]_(UsesStore!vars)
    OBVIOUS
  <1>1. ASSUME NEW c \in Captures, Reads(c)
        PROVE  UNCHANGED UsesStore!vars
    <2>1. UNCHANGED <<stored, doc, work, sealed>> /\ Mine(c)
      BY <1>1, ReadTyped DEF IInv, KeyInv
    <2> QED
      BY <2>1, StutterRefines DEF Mine
  <1>2. CASE UNCHANGED vars
    BY <1>2, StutterRefines DEF vars
  <1>3. CASE Restart
    BY <1>3, StutterRefines DEF Restart, given
  <1>4. ASSUME NEW c \in Captures, Step(c)
        PROVE  [UsesStore!Next]_(UsesStore!vars)
    BY <1>1, <1>4, StepKinds, WriteRefines, JoinRefines, CommitRefines DEF IInv
  <1> QED
    BY <1>2, <1>3, <1>4, NextKinds

\* The handlers use the git store as TxStore allows it.
THEOREM Refinement == Spec => TransactionalUse
  BY InitRefines, StepRefines, InitIInv, StepIInv, PTL
     DEF Spec, TransactionalUse, UsesStore!Spec
=============================================================================
