---------------------------- MODULE ChunkUpload ----------------------------
(***************************************************************************)
(* One file on its way from the extension to a draft: uploadFile of        *)
(* hoard.js cuts it into chunks and sends them one after the other, and    *)
(* the handlers of upload-attachment and upload-draft (cmd/hoard) put them *)
(* together again.                                                         *)
(*                                                                         *)
(* A byte is represented by its position in the file being uploaded; 0 is  *)
(* a byte that was in the stored file before: an attachment may have been  *)
(* filled by /api/proxy-attachment, the page by an earlier upload.         *)
(***************************************************************************)
EXTENDS Naturals, Sequences

CONSTANTS
    MaxSize,    \* bound: size of a file
    ChunkSize,  \* UPLOAD_CHUNK_SIZE
    MaxFaults   \* bound: store calls that fail

ASSUME SizeAssumption  == MaxSize \in Nat
ASSUME ChunkAssumption == ChunkSize \in Nat \ {0}
ASSUME FaultsAssumption == MaxFaults \in Nat

Bytes  == 0..MaxSize
Stale  == 0
File(n) == [i \in 1..n |-> i]

VARIABLES
    kind,      \* "attachment" or "document": which handler
    size,      \* contents.size
    idx,       \* bytes the extension has cut off so far
    client,    \* "send", "wait", "done" or "aborted"
    handler,   \* "idle", "read", "create" or "copy"
    truncate,  \* the request in hand: its parameter ...
    chunk,     \* ... and its data
    buf,       \* what the handler is about to write
    stored,    \* the file in the draft
    allOk,     \* history: every answer so far was "ok"
    firstOk,   \* history: the answer to the first chunk was "ok"
    faults

vars == <<kind, size, idx, client, handler, truncate, chunk, buf, stored,
          allOk, firstOk, faults>>

Init ==
    /\ kind \in {"attachment", "document"}
    /\ size \in 0..MaxSize
    /\ idx = 0
    /\ client = "send"
    /\ handler = "idle"
    /\ truncate = FALSE
    /\ chunk = << >>
    /\ buf = << >>
    /\ stored \in {<< >>, <<Stale>>}
    /\ allOk = TRUE
    /\ firstOk = FALSE
    /\ faults = 0

-----------------------------------------------------------------------------
(* The extension.                                                          *)

ChunkEnd == IF idx + ChunkSize < size THEN idx + ChunkSize ELSE size

\* contents.slice(idx, idx + UPLOAD_CHUNK_SIZE); the first one truncates.
SendChunk ==
    /\ client = "send"
    /\ client' = "wait"
    /\ handler' = "read"
    /\ truncate' = (idx = 0)
    /\ chunk' = SubSeq(File(size), idx + 1, ChunkEnd)
    /\ UNCHANGED <<kind, size, idx, buf, stored, allOk, firstOk, faults>>

\* Mutant of Answer: the loop has no end.
AnswerEndless(ok) ==
    /\ handler' = "idle"
    /\ allOk' = (allOk /\ ok)
    /\ firstOk' = (firstOk \/ (ok /\ truncate))
    /\ idx' = IF client = "wait" THEN idx + ChunkSize ELSE idx
    /\ client' = IF client # "wait" THEN client ELSE "send"

\* Mutant of Answer: the extension waits for a better answer.
AnswerAwaited(ok) ==
    /\ handler' = "idle"
    /\ allOk' = (allOk /\ ok)
    /\ firstOk' = (firstOk \/ (ok /\ truncate))
    /\ idx' = IF client = "wait" THEN idx + ChunkSize ELSE idx
    /\ client' = IF client # "wait" \/ ~ ok THEN client
                 ELSE IF idx + ChunkSize < size THEN "send" ELSE "done"

\* The handler answers; the extension logs an error and goes on regardless.
Answer(ok) ==
    /\ handler' = "idle"
    /\ allOk' = (allOk /\ ok)
    /\ firstOk' = (firstOk \/ (ok /\ truncate))
    /\ idx' = IF client = "wait" THEN idx + ChunkSize ELSE idx
    /\ client' = IF client # "wait" THEN client
                 ELSE IF idx + ChunkSize < size THEN "send" ELSE "done"

\* The connection breaks: fetch throws, the handler goes on by itself.
ConnectionLost ==
    /\ client = "wait"
    /\ client' = "aborted"
    /\ UNCHANGED <<kind, size, idx, handler, truncate, chunk, buf, stored,
                   allOk, firstOk, faults>>

-----------------------------------------------------------------------------
(* The handlers.                                                           *)

\* Mutant of ReadCurrent: what is there is never read.
ReadNothing ==
    /\ handler = "read"
    /\ handler' = "create"
    /\ buf' = chunk
    /\ UNCHANGED <<kind, size, idx, client, truncate, chunk, stored, allOk,
                   firstOk, faults>>

\* Mutant of ReadCurrent: the parameter `truncate' is ignored.
ReadAlways ==
    /\ handler = "read"
    /\ handler' = "create"
    /\ buf' = IF kind = "attachment" THEN stored \o chunk ELSE chunk
    /\ UNCHANGED <<kind, size, idx, client, truncate, chunk, stored, allOk,
                   firstOk, faults>>

\* upload-attachment appends to what is there unless told to truncate;
\* upload-draft has only the chunk.
ReadCurrent ==
    /\ handler = "read"
    /\ handler' = "create"
    /\ buf' = IF kind = "attachment" /\ ~ truncate THEN stored \o chunk
                                                   ELSE chunk
    /\ UNCHANGED <<kind, size, idx, client, truncate, chunk, stored, allOk,
                   firstOk, faults>>

CreateFile ==
    /\ handler = "create"
    /\ handler' = "copy"
    /\ stored' = << >>
    /\ UNCHANGED <<kind, size, idx, client, truncate, chunk, buf, allOk,
                   firstOk, faults>>

CopyBuffer ==
    /\ handler = "copy"
    /\ stored' = buf
    /\ Answer(TRUE)
    /\ UNCHANGED <<kind, size, truncate, chunk, buf, faults>>

\* A store call fails: before anything is written, or part of the way.
StoreFails ==
    /\ faults < MaxFaults
    /\ faults' = faults + 1
    /\ handler # "idle"
    /\ IF handler = "copy"
       THEN \E n \in 0..Len(buf) : stored' = SubSeq(buf, 1, n)
       ELSE UNCHANGED stored
    /\ Answer(FALSE)
    /\ UNCHANGED <<kind, size, truncate, chunk, buf>>

Handle == ReadCurrent \/ CreateFile \/ CopyBuffer \/ StoreFails

Next == SendChunk \/ ConnectionLost \/ Handle

Spec == Init /\ [][Next]_vars

\* The handler runs to its end, and the extension sends the next chunk.
FairSpec == Spec /\ WF_vars(Handle) /\ WF_vars(SendChunk)

-----------------------------------------------------------------------------
(* Properties.                                                             *)

TypeOK ==
    /\ kind \in {"attachment", "document"}
    /\ size \in 0..MaxSize
    /\ idx \in 0..(MaxSize + ChunkSize)
    /\ client \in {"send", "wait", "done", "aborted"}
    /\ handler \in {"idle", "read", "create", "copy"}
    /\ truncate \in BOOLEAN
    /\ chunk \in Seq(Bytes)
    /\ buf \in Seq(Bytes)
    /\ stored \in Seq(Bytes)
    /\ allOk \in BOOLEAN
    /\ firstOk \in BOOLEAN
    /\ faults \in 0..MaxFaults

\* An attachment whose chunks were all answered "ok" is stored whole, whatever
\* its size is to the chunk size and whatever was there before.
AttachmentWhole ==
    kind = "attachment" /\ client = "done" /\ allOk => stored = File(size)

\* Once the first chunk was taken, what is stored is part of the file in its
\* own order: failed chunks leave holes but nothing is repeated, swapped, or
\* left over from before.
InOrder ==
    firstOk => /\ \A i \in 1..Len(stored) : stored[i] \in 1..size
               /\ \A i, j \in 1..Len(stored) : i < j => stored[i] < stored[j]

\* The extension comes to an end with every file.
UploadEnds == <>(client \in {"done", "aborted"} /\ handler = "idle")

\* "Chunk uploaded successfully" (hoard.go:530): the page whose chunks were all
\* answered so is stored whole.
DocumentWhole ==
    kind = "document" /\ client = "done" /\ allOk => stored = File(size)
=============================================================================
