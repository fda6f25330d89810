# A verification development of doc-hoarder

TLA+ modules of the parts of doc-hoarder where requests, transactions, chunks and
files meet, TLC runs of them on small instances, and TLAPS proofs of every safety
property of theirs for instances of any size. Line numbers are those of the sources
in `src/`.

## The system

doc-hoarder archives web pages. A browser extension rewrites the page in its tab,
uploads the page and its attachments to a web server, and the server keeps them as
*documents* in a store.

| part | state | operations |
|---|---|---|
| **git store** `internal/storage/gitstore` | one bare repository, a branch `g<id>` per document; per transaction a clone in memory with a working tree | `DocumentIDs`, `NewDocumentID`, `GetDocument` (clone, checkout); on a transaction: read, write, list, new and delete of files, `Commit` (commit, then push), `Rollback` |
| **file store** `internal/storage/filesystem.go` | a directory `g<id>` per document | the same; a transaction is the directory itself, `Commit` and `Rollback` do nothing |
| **metadata** `meta.go` | `meta.xml`: URL, owner, title, status | `ReadMeta`, `WriteMeta` (truncate, then encode) |
| **lookup** `nocache.go` | none | `GetDocumentByURL` and `GetDocuments` scan all documents |
| **draft API** `cmd/hoard/hoard.go` | the map from transaction IDs to open drafts | `new-doc`, `capture-new-doc`, `new-attachment`, `upload-attachment`, `upload-draft`, `proxy-attachment`, `download-attachment`, `finalize-draft` |
| **extension** `hoard.js`, `hoard-popup.js` | the page being rewritten, the names of its attachments | `flatten`, `attachImg`, `uploadFile` |
| **sessions** `web/plumbing/sessions` | a map of sessions and a JSON file of it; the browser's cookie | `NewSession`, `GetSession`, `StoreSession`, `TouchSession`, `Prune` |
| **users, API keys** `web/plumbing/login` | two maps and a JSON file of them | get and store a user; new, disabled and checked keys with a scope |
| **OIDC login** `oidc.go` | the state cookie, its key | redirect to the provider, the callback |
| **import** `storage.Copy` | none | copies every document of one store to another |
| **viewer, home page** `hoard.go` | none | lists documents, serves a page and its attachments |
| **build script** `build.go` | the directory of the process, the hash of the source tree | compile, watch, restart |

How they interact: the extension calls the draft API over HTTP; the API calls the
lookup and the store; every request runs in a goroutine of its own, and so does the
pruning of sessions. State is shared through the stores, the map of drafts and the
map of sessions. Only the map of drafts is protected by a lock: the per-draft mutex
is copied out of the map with its entry (hoard.go:433), and the methods of both
`mapStore` types have value receivers, so they lock a copy too.

What is hard, and what makes each part correct:

- *stores*: two transactions on one document; a Commit of two steps on two
  repositories; handlers that write during it. Correct: what was reported as saved
  is never lost, and a document is published whole or not at all.
- *draft API*: captures of one page that run into each other, uploads that go on
  after their connection broke, failing calls, restarts. Correct: a published
  document is one whole capture of its own URL and owner, without duplicates.
- *chunks*: sizes at the boundary of a chunk, refused chunks. Correct: what was
  answered "ok" throughout is stored byte for byte.
- *sessions*: requests that work on copies, saves that overlap, stops in the middle
  of a save, time. Correct: nobody gets another one's login, logins and logouts
  last and the server can be started again, unless it was stopped half way through a
  save, and sessions in use are kept.
- *users and keys*: the same kind of store; a stop or a failing write in the middle of
  a save, keys disabled while they are used. Correct: a key works from the moment it
  was given until its owner has it disabled, and never after, unless a save of the file
  was stopped or failed half way.
- *build script*: a loop that hashes relative paths while jobs in other goroutines
  change the directory of the process and a file of the hash. Correct: no change is
  missed, no older program replaces a newer one, and it comes to an end.
- *import*: errors that nobody looks at, stops half way, a repository half made, a
  server that saves meanwhile. Correct: an import that ends well has brought over all
  it could, publishes whole documents only, and drops nothing that was saved.
- *viewer, home page*: two places that decide who may see what, IDs that are parsed
  and formatted again, a scan of documents that change. Correct: what a user may see is
  listed, and what is listed is shown when it is opened, which IDs that begin with 0 are
  not, nor documents whose page is yet to come.
- *OIDC login*: one state cookie for all tabs, a key that a restart changes. Correct: a
  login is accepted only if the server began it, and refused only if something came
  across it.

`PROJECT.json` lists every hazard at its line with the properties that cover it.

## Modules

| module | what it models |
|---|---|
| `TxStore` | the promise of a transactional `DocStore`: private copy, seal, publish on top of what one started from |
| `GitStore` | the git store, which refines `TxStore` |
| `DraftApi` | draft API, lookup, metadata and extension over either store; its use of the git store refines `TxStore` |
| `ChunkUpload` | one file from `uploadFile` through the upload handlers into a draft |
| `Sessions` | cookie handler, session map, session file, Prune |
| `Accounts` | profiles, API keys and their file; requests that need a login or a key |
| `BuildWatch` | the loop of `build.go --watch` and the jobs it starts |
| `Import` | the `import` command: opening both stores, `repo.Init`, `storage.Copy`, a server beside it |
| `Web` | home page, viewer and OIDC login, as the tabs of a browser see them |
| `GitStoreProofs`, `DraftApiProofs`, `ChunkUploadProofs`, `SessionsProofs`, `AccountsProofs`, `BuildWatchProofs`, `ImportProofs`, `WebProofs` | the proofs about them |
| `MCGitStore`, `MCDraftApi`, `MCSessions`, `MCAccounts`, `MCWeb` | symmetry sets and values for TLC |

### GitStore

A commit is the set of revisions it descends from and its files. With that, a push
is a fast-forward exactly when the published revisions are a subset of those pushed,
and a clone has the object of a commit exactly when it has its revisions. `main`,
which documents without a branch start from, is `Root`.

`CloneRepository`, `CheckoutBranch` and `CheckoutFails` are the steps of
`GetDocument`: the branch is looked up after the clone was made. `CreateFile`,
`AddFile`, `WriteFile` and `CloseFile` are the life of the writer that
`WriteRootFile` and `WriteAttachment` return; `NewAttachmentID` and
`DeleteAttachment` are as in the source. `CommitWorktree` takes what git tracks at
that moment; `PushAccepted` (with or without the caller being told) and `PushFails`
end the call. Handlers are not named: `pending`, `writing` and `pushing` say what
the handlers of a transaction are in the middle of, and any of them can move.
`Rollback` is called by the one goroutine that has the transaction.

### DraftApi

A capture is one use of the extension, and one attachment stands for all of its
page. `pc` is where the capture's current request is, `up` where the handler of its
`upload-attachment` or `proxy-attachment` is, which outlives its connection: the latter
fetches an attachment from another site (`ProxyAttachment`, `Fetched`, `Unfetched`) and
makes the file only when it has it. `Remote` are the captures that may need it. Files are
absent, torn (created, not yet filled) or what was written; `meta.xml` is the pair of owner and
URL with the status. `backend` is the store the server was started with, chosen in
`Init` among `Backends`: with `"git"` a capture works on
`work` and publishes `sealed` (the steps of `GitStore` at the granularity of
`TxStore`), with `"fs"` it works on `stored` itself. `StoreFails`, `Refused`,
`AttachmentDropped`, `Abandon` and `Restart` are what goes wrong.

A capture on the file store maps to an idle transaction of `TxStore`:
`TransactionalUse` is about the git store. Captures are made with keys whose scope was
written into the file by hand, so that they are answered; what happens to the others is
in `Accounts`.

What it shows of the file store beyond its properties: there is no isolation. From
the moment a second capture of a page deletes the attachments of the first, what was
saved is gone, and it does not come back when the second one stops half way;
`UndisturbedIsComplete` therefore speaks of captures that meet no other one.

What completeness is said of. `PublishedComplete` and `UndisturbedIsComplete` ask for page,
attachment and metadata of captures that are `clean`: no call of theirs failed, none of
their uploads was left running or dropped, and no restart came while one was at work. Of
the others `PublishedComplete` asks for final metadata only, as finalize-draft marks
whatever is there as static (hoard.go:466). Both speak of pages of one chunk, as `CopyPage`
is one: the extension sends 512000 bytes at a time, each of which replaces `document.bin`
(hoard.go:519), so that a longer page is stored as its last chunk. That is a finding of
`ChunkUpload`.

Not in it: `download-attachment` (reads), several attachments per page, and two
processes that draw the same random document ID.

### ChunkUpload

A byte is its position in the file, 0 a byte stored before. `SendChunk` and `Answer`
are the two halves of the loop in `uploadFile`; `ReadCurrent`, `CreateFile` and
`CopyBuffer` are the steps of either upload handler; a chunk that fails is logged
and the next one is sent.

### Sessions

`GetSession` or `NewSession`, `Serve`, then `StoreSession` or the two halves of
`TouchSession` are a request; `SaveCreate`, `SaveEncode`, `SaveWrite` are
`saveContents`, which `NewSession`, both ways to end a request, and Prune run. No
lock is modelled because none is in effect. `Dirty` is in the map but not in the
file, as its JSON tag has it. The callback's request may come without the session
cookie, which is SameSite=Strict. A `Restart` can come between any two steps; it
stands for a crash too, also one the Go runtime causes when it detects the race.

`pace` is chosen in `Init`. At the "serial" pace the requests of the one browser follow
each other, while time goes by, Prune runs and writes of the file fail; at the "racing"
pace the requests of all browsers overlap and no time passes. The properties that need
a lock or time say at which pace they are.

The map is one with a file. With an empty `Filename` nothing is saved, no stop can tear
anything, and every restart begins with an empty map; `Accounts` has that counterpart of
it, and `Web` lets a restart end the session.

`LoginSurvives` says exactly when a restart loses a login: when the server was stopped
between `os.Create` and the write of the file (map.go:73-80). That stop loses every login,
and the server does not come up any more, as it refuses a file it cannot decode.

### Accounts

A request is one of the login callback, a new key, the disabling of a key, and the use
of a key. The first three look up the profile of their user and store one
(`GetUser`, `StoreUser`); then `NewAPIKey` or `DisableAPIKey`; each change is followed by
`SaveCreate`, `SaveEncode` and `SaveWrite` of one file that has both maps, or
`SaveFails`. `CheckKey` and `CheckOwner` are the two reads of `GetUserByAPIKey`, between
which others may move. `backend` is `"file"` or `"memory"`; the latter has no map of
keys, so making one panics (`NewAPIKeyPanics`). `given`, `doomed` and `revoked` record
what users were told and asked for. `crossed` records that two saves have overlapped:
then the file may be older than the map, so both properties assume they have not.

`GivenWorks` says exactly when given keys are lost: by a restart over a file that cannot be
read, after which the server does not come up; and, before any write has failed, the
file is one exactly while a save is between `os.Create` and its write.

### BuildWatch

`HashSources`, `FirstHash`, `Spawn`, `NoChange` and `Detect` are the loop: a hash is read
in two halves, the sources and the generated `assets.go`, and each is what it looks like
from the directory the process is in at that moment. A job is `Lock`, `Sass`,
`BuildExtension`, `Chdir`, `Embed`, `ChdirBack`, `GoBuild`, `Built`, then the program
if `--run` (`Killed`, `AppEnds`). Edits are numbered, and `built` is the version of each
thing that went into the program. `--quick`, `--run` and the versions that do not
compile are chosen in `Init`. `CommandFails` is a stylesheet or an extension that cannot be
made, `EmbedFails` the embedding of the assets. Left out: what the external tools do with
the files, the signing of the extension, and `--development`, which writes the extension to
`build/extensions` and not into the tree.

The extension, and `assets.go` with it, also has the version that `git describe` gives.
Under a context that is done it gives none (build.go:118-123), so a job that was cancelled
while it waited packs another extension than the one after it (`described`): with
`--quick` nothing stops it before it has rewritten `assets.go`, which the loop takes for
one more change. What the program is compared with (`UpToDate`) is an `assets.go` that
names the version. A tree of which git knows no version is left out: there all extensions
say the same, and a cancelled job packs no other.

So the loop and its jobs can keep each other busy. If it reads its hash, again and again,
in the short moments in which a job is away in `web/assets`, or in which a cancelled one
is yet to return or to take a free mutex, or if the mutex goes to newcomers first, each
of its turns cancels a job that then makes the change for the next turn. Each of these is
rare, but without a bound on them (`MaxUnlucky`) nothing ends the rounds; with it TLC shows
that they come to an end.

### Import

A store is of kind `"git"` or `"fs"`, chosen in `Init` with the documents it has; a
document may lack its attachment, its page, or everything, as drafts do that were never
finalized. `OpenStore`, `MakeRepository` and `SetHead` are `GetDocStore` and `repo.Init`,
with `repo` for how far the repository has come. `OpenSource` and `OpenTarget` are the two
`GetDocument`s; `CreateFile` and `FillFile` copy one file; `CommitFiles`, `Push` and
`CommitFails` are the deferred `Commit`, whose error is dropped. `Fatal` is every error
that ends the program, `Killed` a stop at any point or another failing call, `Start` a
new attempt. `Capture` is a server that saves into the main store meanwhile.

The source may be the main store itself, as `main` compares only what was typed
(hoard.go:95). If it is a git store nothing is lost (`GitKeeps`). If it is a file store,
each file is truncated before it is read, so the store is emptied file by file and the
import ends well; `DoneMeansImported` and `PublishedWhole` leave this case out.

### Web

A tab asks for the home page, a document, `/login` or `/logout` (`Visit`), with the
session the browser has at that moment. `ListHome`, `ScanHome` and `ShowHome` are
`GetDocuments`, which reads one document after the other; `ViewMeta` and `ViewPage` are
the viewer. `Begin` is `initiateLogin`: called by `/login`, by the viewer through the
answer 401, and by `LateAttachment`, a page that asks for its attachments without a
session. `SendCallback` is the provider; `Callback` and `Arrive` are the handler of
`/auth/callback`. A state is the page to return to, and its authentication code is the
pair of that page and the run of the server whose key made it. `Truncate`, `Encode` and
`SavePage` are what a capture on the file store does to a document that others list and
view. The digits of IDs are modelled one by one, since `Formatted` is about them.

Every answer sets the cookie of the session its request came with (http.go:53-63), so a
slow one brings back a session the browser had before, or one that was logged out since:
`Left`. `FailHome` is a document that cannot be opened during the scan, which fails the
home page as a whole (nocache.go:26-28).

`ListedShown` compares the two places that decide who may see what. What the home page has
listed for a user the viewer shows to the same user, as long as `meta.xml` does not change,
if and only if the ID does not begin with 0 and `document.bin` is there. One ID in sixteen
begins with 0: its document is listed, and the viewer asks the store for an ID with a blank
in place of the zero (hoard.go:687). And between the metadata and the page of a first capture
a document is listed that has no page (hoard.go:733-736).

One thing the module shows that is not in its properties: a state has nothing of its
own but the page, so a login that was begun before a restart is accepted after it if
another tab has begun one for the same page since; `CallbackJudged` is stated of pages
for that reason.

## Runs

| run | instance | question |
|---|---|---|
| `gitstore` | 2 transactions, 1 document, 1 attachment, 2 handlers each | is the store transactional, can a saved revision be lost, can a conflict go away |
| `draft_git` | git store, 3 captures of one page, 2 documents | is what was reported as saved published; duplicates |
| `draft_stores` | either store, 2 captures of one page or of two, attachments of this site or another, a restart or a failing call | is what is published one whole capture; use of the store; owners and URLs; what the file store still promises |
| `chunk_upload` | sizes 0 to 7, chunks of 2, 2 failures | attachments are whole, or holes in order; the upload ends |
| `chunk_document` | sizes 0 to 5, chunks of 2 | **violated**: the page is stored whole |
| `sessions` | serial: 1 browser, time 0 to 3, Prune, a failing write; racing: 2 browsers, 2 requests at a time; 2 IDs, a restart | which stops lose a login; the file can be read; Prune spares sessions in use; what holds without a lock |
| `sessions_active` | 1 request at a time and Prune, time 0 to 3 | **violated**: Prune spares sessions that logged in |
| `accounts` | 2 requests at a time, 2 users, 1 key, a restart, a failing write | keys work from being given to being disabled; which stops lose them |
| `accounts_scope` | 1 request at a time, 1 user, 1 key | **violated**: a key is good for what it was made for |
| `build_watch` | 1 edit, 3 jobs, a failing command, a bad version | nothing missed, nothing older, an end |
| `import` | git and file stores in every combination, 2 documents in 4 states of completeness, 2 runs of the import, a capture by a server | what an import that ends well means; what it publishes; what it can destroy; whether a half-made repository is mended; whether it ends |
| `web` | 2 tabs, 2 documents, one with an ID that begins with 0, a home page of 1 document, a restart, a capture | refused and accepted logins; is what one may see listed, what of it does the viewer show |

Why the bounds are enough. What a safety property says at these bounds the proofs say
at all others; the runs found the invariants, and they check the mutants and liveness.
Conflicts, lost updates and stale checkouts are between two transactions. Two handlers
per transaction give every overlap of a write with a Commit, of a file that is new,
written, emptied or deleted. With two captures of a page
one can meet the other at each of its steps, the third starts after one is
finished while another is at work; two documents are one for the page and one for
a duplicate. Seven bytes in chunks of two are no chunk, a part of one, exactly one,
and up to four with the last one short. Two browsers tell logins apart, and
a request that undoes what another one stored takes two of them. A session is stale after more than
two units of time and a cookie after more than one, as 72 and 12 hours. One key has
the whole life of a key; its owner and the other user tell right from wrong. Three
jobs are one at work, one cancelled while it waits, and the one of this turn. Hashes
read in the short moments in which a job is passing from one place to the next each may
start a job more, so their number, and that of mutexes which do not go to who has waited
longest, is bounded (`MaxUnlucky`): two are one to leave `web/assets` and one to be
mistaken about having left. An
import has a first document to fail on and one after it, and a second run over what the
first one left. Two tabs are a login and another that comes across it; two documents and
a home page for one of them give a full page, one that is not full, and one that stays
short of a document for the other.

Symmetry is used where handlers, documents, browsers, tabs, users, keys or IDs are
interchangeable, and not in `chunk_upload`, `build_watch` and `import`, which check liveness.

Deadlock is not checked in any run: transactions, captures and uploads come to an
end, sessions and accounts stop at the bounds of time, IDs, keys and restarts or when
the server refuses its file, the watcher where all jobs it may have are at work, and
the import when it has been started as often as it may. Web never stops.

The three violated runs are disagreements of the code with what it says of itself;
`PROJECT.json` quotes the lines. Each passing property has a mutant in its module,
an operator next to the one it changes, which is not part of any specification.

Fairness. `UploadEnds` assumes weak fairness of the upload handler, which Go
schedules and which waits for nothing, and of the extension's loop, which runs
without the user. `EventuallyBuilt` assumes it of the loop and of each job of the
watcher, which Go schedules; a job has the mutex for a few commands that end, and the
program of `--run`, which need not end by itself, is killed when its context is done.
It makes three exceptions: sources that do not compile, a command of the last job that
failed, as nothing is tried again before the next change, and a process that a failed job
has left in `web/assets` (build.go:201-203), from where the loop does not recover.
`MaxUnlucky` is an assumption about scheduling: a mutex of Go does give way to who has
waited longest, and a quarter of a second between two hashes is long beside the moments
it counts.
`ImportEnds` assumes it of the import, one process that waits for no other; it may still
be killed. All other properties are safety
properties.

## Proofs

Every safety property of a passing run is a theorem. The `...Proofs` modules prove it for
all values of the constants that satisfy the assumptions stated with them:

- special values are none of the things they stand beside (`NoDoc` is no document,
  `Nobody` no user, the page `"home"` no document, `Unreadable` no map): nil, an empty
  string and a fixed path are never an ID, a user or the contents of a file;
- bounds are natural numbers (restarts, failing calls, edits, runs). They bound how often
  something goes wrong in a run of TLC; a proof takes any number for them;
- what the code fixes: the chunk size is positive, a cookie lives shorter than a session
  (12 and 72 hours), the home page has room for a document, the janitor is no request,
  the store to import into is a store. `DraftApi` takes any set of captures, `GitStore` any
  set of transactions, `Web` any IDs.

No theorem has a hypothesis but the specification, and no liveness is assumed. Each module
has one inductive invariant `IInv` (Sessions three), one lemma per kind of step, and ends
with its theorems. TLC, given these invariants, finds them to hold on the instances
of the module's runs.

### GitStoreProofs

`TypeCorrect`; `AckedIsDurable` (`AckedSurvives`: what Commit reported as saved stays);
`FirstCommitterWins` (`NoLostUpdate`); `ConflictsAreFinal` (`ConflictIsFinal`: a refused
transaction never recovers); `Refinement` (`Transactional`: the store implements `TxStore`).

`AckedSurvives` is not inductive: that the new head of a branch has all
revisions of the old one is the fast-forward check, but a new revision must also be
*new*, or a commit could contain a revision of the published line that its clone does
not descend from. The inductive invariant

    IInv == TypeOK /\ LinesOwned /\ NothingYet /\ AckedSurvives /\ NoLostUpdate

adds that the revisions of a transaction in any line, published or private, are
among those it has made and are all in its own line (`LinesOwned`), and that a
transaction without a working tree has made nothing (`NothingYet`). `ConflictStep` follows
from `LinesOwned`: only the transaction itself changes its clone, what it adds there is
its own, and what it lacks is not. The refinement maps a transaction to "active" while
it has a working tree, its view to the files git tracks; the checkout is `Begin`,
`wt.Commit` is `Seal`, the accepted push is `Publish`, and every step on one file is
`Write` or changes nothing (`StepRefines`).

### DraftApiProofs

`TypeCorrect`; `DocumentsKeepKeys` (`DocKeepsKey`); `AckedIsPublished` (`AckedPublished`);
`PublishedIsWhole` (`PublishedComplete`); `UndisturbedIsWhole` (`UndisturbedIsComplete`);
`SavedPageIsReused` (`NoNeedlessDuplicate`); `PoisonIsForever` (`PoisonIsPermanent`);
`Refinement` (`TransactionalUse`).

The thirty-odd actions are five kinds (`StepKinds`): a step of a capture puts one file of
what the capture sees, gives it a document, only reads, seals, or publishes. Each kind has
a lemma of what it changes and one of what it leaves to the others (`Mine`).

- `KeyInv` is about who owns what. Metadata, published or in a private copy, have the key
  of every capture that was given the document (`Filed`), captures that share a document
  share their key (`SameKey`), what is listed was given to somebody (`Visited`), and a
  scan has still to visit the documents of its page that were there when it began
  (`KnownInv`); the scan ends with a new document only when nothing is left to visit.
- `IInv` adds how far a capture has come. `Held` says of what a capture has for itself
  (its private copy in git, the directory if it met nobody on the file store) which of the
  old attachments are gone and which of its own files are filled at each point of its
  requests (`Progress`); `SealedWhole` carries that over to what was sealed, `RevsNew`
  says that a revision is nowhere before it is sealed. `Alone` says that a capture that
  met nobody has its document for itself, so that on the file store no step of another
  capture writes it (`OthersHeld`). The upload handler that outlives its connection is
  why `Progress` follows `up` as well as `pc`: a capture that leaves it running is not
  `clean` any more.

The refinement maps the joining steps to `Begin`, puts to `Write`, sealing and publishing to
`Seal` and `Publish`; on the file store everything is a stutter.

### ChunkUploadProofs

`TypeCorrect`; `AttachmentIsWhole` (`AttachmentWhole`); `StoredInOrder` (`InOrder`), for any
size of file and of chunk. Neither property says anything before the end, so the
invariant says what is stored after each chunk: the file up to the position if all went well
(`WholeSoFar`), an increasing sequence of its bytes below the position if the first chunk
was taken (`InPlace`), with the buffer of the handler one chunk further. `Position` ties the
loop of the extension to the handler: at most one is at work, and the file is truncated
exactly for the first chunk. The lemmas are about a file cut into parts (`PartsJoin`,
`OrderedConcat`).

### SessionsProofs

`TypeCorrect`; `ServedAsOneself` (`OwnSession`); `LogoutIsFinal` (`LogoutHolds`);
`FileReadable` (`UnreadableOnlyMidSave`); `ToldLoginSurvives` (`LoginSurvives`);
`AnonymousSessionKept` (`AnonymousKept`).

- `IInv`: no two browsers have one ID (`OneOwner`), nobody has an ID that `NewSession` has
  not drawn, and in every map that exists, in memory, in the file, or snapped for a write, a
  session is logged in for the browser that has its ID or for nobody (`MapsOwned`). The last
  one is what `OwnSession` needs to survive a restart, which brings back an older map.
- `CalmInv`, for requests in series: a login that was answered is in the map, in a readable
  file, in whatever is about to be written, and in the copy of every request for that
  session (`LoginsKept`). Before the answer it is where the save has come to
  (`LoginsWritten`). `MidSaveTorn`, that a saver past `os.Create` has left no file that can
  be read, is the other half of `LoginSurvives`: that stop does lose the login.
- `SeenInv`: the session of a valid cookie that was never stored dirty was last seen when
  the cookie was set or later, and a cookie lives shorter than a session (`CookiesSeen`,
  `RequestsSeen`). When no time passes nothing is pruned at all (`NothingPruned`).

`UnreadableOnlyMidSave` is inductive with the types, step by step: a saver makes the
file unreadable on its way into a save, and the end of any write leaves it readable.

### AccountsProofs

`TypeCorrect`; `GivenKeysWork` (`GivenWorks`); `RevokedIsFinal` (`RevokedRefused`). The
invariant says that until saves have overlapped everything that was answered is in the map,
in a readable file, and in what is about to be written (`AnswersKept`), and that at most
one save has the file open (`OneOpen`); what a request under way has found or stored is
still there, as the store only grows until the server stops (`Done`, `StoreGrows`); and that
no key is disabled in any of these but on demand (`DisabledOnDemand`). `FileState` says when
the file cannot be read: while a save has it open, or after a write that failed.

### BuildWatchProofs

`TypeCorrect`; `QuietTreeIsBuilt` (`QuietIsBuilt`); `NeverAnOlderProgram` (`NeverOlder`).
The first needs to know what the job of this turn has got of the sources at each of its
steps (`Progress`), and so that no other job undoes it: all others are cancelled, and
none of them builds any more once this one has the mutex (`OthersCancelled`), and the
process is in the directory the job at work left it in (`Where`). That the program names its
version is `TurnDescribed`: the job of the turn was not cancelled when it asked. The second
needs `Ages`: nothing is newer than the sources, and a job that builds has read them later
than the program was built.

### ImportProofs

`TypeCorrect`; `DoneIsImported` (`DoneMeansImported`); `PublishesWhole` (`PublishedWhole`);
`GitKeepsAll` (`GitKeeps`); `HalfMadeStays` (`HalfMadeIsPermanent`). The invariant follows
the document in hand: the transaction it is read from has what the source has (`Sourced`),
each file that is not left to copy is in the target as it is in the source (`Copied`), and
each document that is not left is in the target, but for the dropped ones (`Imported`).
`NoneEmpty`, no git store has an empty file, holds because a file is no longer left to
copy only once it is filled, and a commit waits until nothing is left. `ReposMade` says
that a git store is written to only when its repository is
whole.

### WebProofs

`TypeCorrect`; `CallbacksAreJudged` (`CallbackJudged`); `HomeIsComplete` (`HomeComplete`);
`ListedIsShown` (`ListedShown`), for any number of tabs and documents and any IDs. A
login that nothing came across has its cookie in the browser, and sends it (`LoginsKept`);
a cookie of this run's key is for a page for which this run began a login (`CookiesMade`).
A document that could be seen all through a scan is in the list or still to be read
(`ScansComplete`), and what was listed for a user is still for that user to see
(`ShownSeen`), or no longer counts as shown. The viewer has formatted what it allows as the
store has it (`AllowedFound`), which it does unless the first digit is 0 (`FormatFound`).

### Only model-checked

Liveness is out of the prover's reach: `UploadEnds`, `EventuallyBuilt` and `ImportEnds`
are checked by TLC, under the fairness above. So are the three violated runs, which are
counterexamples. `TxStore` has no theorem of its own; `GitStore` and `DraftApi` refine it.

## Plan

1. Pages with several attachments in `DraftApi`: `Progress` would say of each attachment
   what it says of the one.
2. The page and the attachments of a document viewed while a capture is saved, if a
   promise of the code about it turns up.

## Not modelled

- The rewriting of pages in the extension, templates, stylesheets, the bookmarklet and
  JSON answers: they keep no state, and their results are data to everything above.
- The viewer's page and attachments are separate requests, each of which opens the store
  anew, so a capture saved in between mixes two revisions. Nothing in the code promises
  otherwise, and no property is about it.
- Cached templates (templates.go:79): the map is written by concurrent requests with no
  lock, for which Go may stop the program. A stop at any point is in the models.
- That a page captured again is private from then on (hoard.go:395), whoever made it
  public: `Encode` of `Web` does it, no property forbids it, and the code has no way to
  make a document public.
- What a repeated import leaves of attachments that the source no longer has.
- Token exchange and verification with the provider, which may fail (`Callback`), and
  what the libraries for git, OpenID and XML do inside.
- A map of sessions without a file, which a restart empties.
- The external tools of the build, the signing of the extension, `--development`.
- The tests under `internal/storage/gauntlet`, which run one transaction at a time; they
  were read for what a store is expected to do.
