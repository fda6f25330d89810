-------------------------- MODULE ChunkUploadProofs --------------------------
(***************************************************************************)
(* Proofs about ChunkUpload, for any size of files and of chunks, and any  *)
(* number of failures.                                                     *)
(***************************************************************************)
EXTENDS ChunkUpload, SequenceTheorems, TLAPS

\* Where the extension is with the file, and what it has sent of it.
Position ==
    /\ client \in {"send", "wait"} \/ handler # "idle" => idx = 0 \/ idx < size
    /\ client = "wait" => handler # "idle"
    /\ client \in {"send", "done"} => handler = "idle"
    /\ handler # "idle" => /\ truncate = (idx = 0)
                           /\ chunk = SubSeq(File(size), idx + 1, ChunkEnd)
    /\ firstOk /\ (client = "send" \/ handler # "idle") => idx > 0

\* An attachment all of whose chunks were taken is there up to where the extension
\* is, or is about to be.
WholeSoFar ==
    kind = "attachment" /\ allOk /\ client # "aborted" =>
        /\ client = "done" => stored = File(size)
        /\ client = "send" /\ idx > 0 => stored = File(idx)
        /\ handler = "read" /\ idx > 0 => stored = File(idx)
        /\ handler \in {"create", "copy"} => buf = File(ChunkEnd)

\* Bytes of the file up to position `last', in the order of the file.
Ordered(s, last) ==
    /\ \A i \in 1..Len(s) : s[i] \in 1..last
    /\ \A i, j \in 1..Len(s) : i < j => s[i] < s[j]

\* What is stored comes before what is sent next.
InPlace ==
    /\ firstOk => /\ Ordered(stored, size)
                  /\ client = "send" \/ handler \in {"read", "create"} =>
                        Ordered(stored, idx)
    /\ handler \in {"create", "copy"} /\ (firstOk \/ truncate) => Ordered(buf, ChunkEnd)

IInv == TypeOK /\ Position /\ WholeSoFar /\ InPlace

-----------------------------------------------------------------------------
(***************************************************************************)
(* Files and their parts.                                                  *)
(***************************************************************************)

\* The bytes of a file are their positions.
LEMMA FileFacts ==
    ASSUME NEW n \in Nat, NEW max \in Nat, n <= max
    PROVE  /\ File(n) \in Seq(0..max) /\ Len(File(n)) = n
           /\ \A i \in 1..n : File(n)[i] = i
  BY DEF File

\* Part a+1..e of a file.
LEMMA PartFacts ==
    ASSUME NEW n \in Nat, NEW max \in Nat, n <= max, NEW a \in 0..n, NEW e \in a..n
    PROVE  /\ SubSeq(File(n), a + 1, e) \in Seq(0..max)
           /\ Len(SubSeq(File(n), a + 1, e)) = e - a
           /\ \A i \in 1..(e - a) : SubSeq(File(n), a + 1, e)[i] = a + i
  <1>1. \A i \in (a + 1)..e : File(n)[i] = i /\ i \in 0..max
    BY FileFacts
  <1>2. a + 1 \in Int /\ e \in Int
    OBVIOUS
  <1> QED
    BY <1>1, <1>2, SubSeqProperties

\* The first e bytes of a file.
LEMMA FirstPart ==
    ASSUME NEW n \in Nat, NEW e \in 0..n
    PROVE  SubSeq(File(n), 1, e) = File(e)
  <1>1. /\ SubSeq(File(n), 1, e) \in Seq(0..n) /\ Len(SubSeq(File(n), 1, e)) = e
        /\ \A i \in 1..e : SubSeq(File(n), 1, e)[i] = i
    <2>1. \A i \in 1..e : File(n)[i] = i /\ i \in 0..n
      BY FileFacts
    <2>2. /\ SubSeq(File(n), 1, e) \in Seq(0..n)
          /\ Len(SubSeq(File(n), 1, e)) = IF 1 <= e THEN e - 1 + 1 ELSE 0
          /\ \A i \in 1..(e - 1 + 1) : SubSeq(File(n), 1, e)[i] = File(n)[1 + i - 1]
      BY <2>1, SubSeqProperties
    <2>3. \A i \in 1..e : SubSeq(File(n), 1, e)[i] = File(n)[i]
      BY <2>2
    <2> QED
      BY <2>1, <2>2, <2>3
  <1>2. /\ File(e) \in Seq(0..n) /\ Len(File(e)) = e
        /\ \A i \in 1..e : File(e)[i] = i
    BY FileFacts
  <1> QED
    BY <1>1, <1>2, SeqEqual

\* A part that follows what is there makes it longer.
LEMMA PartsJoin ==
    ASSUME NEW n \in Nat, NEW a \in 0..n, NEW e \in a..n
    PROVE  File(a) \o SubSeq(File(n), a + 1, e) = File(e)
  <1>1. File(n) \in Seq(0..n) /\ Len(File(n)) = n
    BY FileFacts
  <1>2. SubSeq(File(n), 1, a) \o SubSeq(File(n), a + 1, e) = SubSeq(File(n), 1, e)
    BY <1>1, ConcatAdjacentSubSeq
  <1>3. e \in 0..n
    OBVIOUS
  <1>4. SubSeq(File(n), 1, a) = File(a) /\ SubSeq(File(n), 1, e) = File(e)
    BY <1>3, FirstPart
  <1> QED
    BY <1>2, <1>4

\* One increasing run after another, all above the first one, is an increasing run.
LEMMA RunsJoin ==
    ASSUME NEW f, NEW g, NEW h, NEW m \in Nat, NEW n \in Nat, NEW a \in Nat,
           \A i \in 1..m : f[i] \in 1..a,
           \A i \in 1..n : g[i] \in Nat /\ a < g[i],
           \A i, j \in 1..m : i < j => f[i] < f[j],
           \A i, j \in 1..n : i < j => g[i] < g[j],
           \A i \in 1..(m + n) : h[i] = IF i <= m THEN f[i] ELSE g[i - m],
           NEW i \in 1..(m + n), NEW j \in 1..(m + n), i < j
    PROVE  h[i] < h[j]
  <1>1. CASE j <= m
    <2>1. i \in 1..m /\ j \in 1..m
      BY <1>1
    <2> QED
      BY <1>1, <2>1
  <1>2. CASE i > m
    <2>1. i - m \in 1..n /\ j - m \in 1..n /\ i - m < j - m
      BY <1>2
    <2> QED
      BY <1>2, <2>1
  <1>3. CASE i <= m /\ j > m
    <2>1. i \in 1..m /\ j - m \in 1..n
      BY <1>3
    <2>2. f[i] \in 1..a /\ g[j - m] \in Nat /\ a < g[j - m]
      BY <2>1
    <2> QED
      BY <1>3, <2>2
  <1> QED
    BY <1>1, <1>2, <1>3

\* Bytes in order stay so when later ones are put after them,
LEMMA OrderedConcat ==
    ASSUME NEW max \in Nat, NEW s \in Seq(0..max), NEW t \in Seq(0..max),
           NEW a \in Nat, NEW e \in Nat, a <= e, Ordered(s, a), Ordered(t, e),
           \A i \in 1..Len(t) : a < t[i]
    PROVE  Ordered(s \o t, e)
  <1>1. /\ Len(s \o t) = Len(s) + Len(t) /\ Len(s) \in Nat /\ Len(t) \in Nat
        /\ \A i \in 1..(Len(s) + Len(t)) :
              (s \o t)[i] = IF i <= Len(s) THEN s[i] ELSE t[i - Len(s)]
    BY ConcatProperties
  <1>2. /\ \A i \in 1..Len(s) : s[i] \in 1..a
        /\ \A i \in 1..Len(t) : t[i] \in 1..e
    BY DEF Ordered
  <1>3. \A i \in 1..(Len(s) + Len(t)) : (s \o t)[i] \in 1..e
    BY <1>1, <1>2
  <1>4. \A i \in 1..Len(t) : t[i] \in Nat
    BY <1>2
  <1>5. /\ \A i, j \in 1..Len(s) : i < j => s[i] < s[j]
        /\ \A i, j \in 1..Len(t) : i < j => t[i] < t[j]
    BY DEF Ordered
  <1> DEFINE h == s \o t
  <1>6. /\ Len(h) = Len(s) + Len(t)
        /\ \A i \in 1..(Len(s) + Len(t)) : h[i] = IF i <= Len(s) THEN s[i] ELSE t[i - Len(s)]
        /\ \A i \in 1..(Len(s) + Len(t)) : h[i] \in 1..e
    BY <1>1, <1>3
  <1> HIDE DEF h
  <1>7. ASSUME NEW i \in 1..(Len(s) + Len(t)), NEW j \in 1..(Len(s) + Len(t)), i < j
        PROVE  h[i] < h[j]
    <2>1. Len(s) \in Nat /\ Len(t) \in Nat /\ \A k \in 1..Len(t) : t[k] \in Nat /\ a < t[k]
      BY <1>1, <1>4
    <2> QED
      BY <1>2, <1>5, <1>6, <1>7, <2>1, RunsJoin, ZenonT(30)
  <1>8. Ordered(h, e)
    BY <1>6, <1>7, Zenon DEF Ordered
  <1> QED
    BY <1>8 DEF h

\* and so does a first part of them.
LEMMA OrderedPart ==
    ASSUME NEW max \in Nat, NEW s \in Seq(0..max), NEW e \in Nat, Ordered(s, e),
           NEW n \in 0..Len(s)
    PROVE  Ordered(SubSeq(s, 1, n), e) /\ SubSeq(s, 1, n) \in Seq(0..max)
  <1>1. Len(s) \in Nat /\ \A i \in 1..n : s[i] \in 0..max
    OBVIOUS
  <1>2. /\ SubSeq(s, 1, n) \in Seq(0..max)
        /\ Len(SubSeq(s, 1, n)) = n
        /\ \A i \in 1..n : SubSeq(s, 1, n)[i] = s[i]
    BY <1>1, SubSeqProperties
  <1>3. \A i \in 1..n : i \in 1..Len(s)
    BY <1>1
  <1>4. /\ \A i \in 1..n : s[i] \in 1..e
        /\ \A i, j \in 1..n : i < j => s[i] < s[j]
    BY <1>3, Zenon DEF Ordered
  <1> DEFINE part == SubSeq(s, 1, n)
  <1>5. Len(part) = n /\ \A i \in 1..n : part[i] = s[i]
    BY <1>2
  <1> HIDE DEF part
  <1>6. /\ \A i \in 1..Len(part) : part[i] \in 1..e
        /\ \A i, j \in 1..Len(part) : i < j => part[i] < part[j]
    BY <1>4, <1>5
  <1>7. Ordered(part, e)
    BY <1>6 DEF Ordered
  <1> QED
    BY <1>2, <1>7 DEF part

\* A greater end is an end, too.
LEMMA OrderedUpTo ==
    ASSUME NEW s, NEW a \in Nat, NEW e \in Nat, a <= e, Ordered(s, a)
    PROVE  Ordered(s, e)
  BY DEF Ordered

\* A part of a file follows what comes before it.
LEMMA PartInFile ==
    ASSUME NEW n \in Nat, NEW max \in Nat, n <= max, NEW a \in 0..n, NEW e \in a..n,
           NEW part, part = SubSeq(File(n), a + 1, e)
    PROVE  /\ part \in Seq(0..max) /\ Ordered(part, e)
           /\ \A i \in 1..Len(part) : a < part[i]
           /\ File(a) \o part = File(e)
  <1>1. /\ part \in Seq(0..max) /\ Len(part) = e - a
        /\ \A i \in 1..(e - a) : part[i] = a + i
    BY PartFacts
  <1>2. File(a) \o part = File(e)
    BY PartsJoin
  <1>3. \A i \in 1..Len(part) : part[i] = a + i /\ a < part[i] /\ part[i] \in 1..e
    BY <1>1
  <1>4. \A i, j \in 1..Len(part) : i < j => part[i] < part[j]
    <2> SUFFICES ASSUME NEW i \in 1..Len(part), NEW j \in 1..Len(part), i < j
                 PROVE  part[i] < part[j]
      OBVIOUS
    <2>1. part[i] = a + i /\ part[j] = a + j
      BY <1>3
    <2>2. i \in Int /\ j \in Int
      OBVIOUS
    <2> QED
      BY <2>1, <2>2
  <1> QED
    BY <1>1, <1>2, <1>3, <1>4 DEF Ordered

-----------------------------------------------------------------------------
(***************************************************************************)
(* The inductive invariant.                                                *)
(***************************************************************************)

\* The constants are numbers.
LEMMA Numbers ==
    ASSUME TypeOK
    PROVE  /\ size \in Nat /\ size <= MaxSize /\ idx \in Nat /\ MaxSize \in Nat
           /\ ChunkSize \in Nat \ {0} /\ ChunkEnd \in Nat
           /\ ChunkEnd <= size /\ ChunkEnd <= idx + ChunkSize
           /\ idx + ChunkSize < size => ChunkEnd = idx + ChunkSize
           /\ idx + ChunkSize >= size => ChunkEnd = size
  <1>1. size \in 0..MaxSize /\ idx \in 0..(MaxSize + ChunkSize)
    BY DEF TypeOK
  <1> QED
    BY <1>1, SizeAssumption, ChunkAssumption DEF ChunkEnd

\* The chunk in hand is what follows in the file.
LEMMA ChunkFacts ==
    ASSUME TypeOK, Position, client = "send" \/ handler # "idle",
           NEW part, part = SubSeq(File(size), idx + 1, ChunkEnd)
    PROVE  /\ idx <= ChunkEnd
           /\ part \in Seq(Bytes) /\ Ordered(part, ChunkEnd)
           /\ \A i \in 1..Len(part) : idx < part[i]
           /\ File(idx) \o part = File(ChunkEnd)
  <1>1. /\ size \in Nat /\ size <= MaxSize /\ idx \in Nat /\ MaxSize \in Nat
        /\ ChunkSize \in Nat \ {0} /\ ChunkEnd \in Nat /\ ChunkEnd <= size
        /\ idx + ChunkSize < size => ChunkEnd = idx + ChunkSize
        /\ idx + ChunkSize >= size => ChunkEnd = size
    BY Numbers
  <1>2. idx = 0 \/ idx < size
    BY DEF Position
  <1>3. idx <= size /\ idx <= ChunkEnd
    BY <1>1, <1>2
  <1>4. idx \in 0..size /\ ChunkEnd \in idx..size
    BY <1>1, <1>3
  <1>5. size \in Nat /\ MaxSize \in Nat /\ size <= MaxSize
    BY <1>1
  <1>6. \A p : p = SubSeq(File(size), idx + 1, ChunkEnd) =>
            /\ p \in Seq(0..MaxSize) /\ Ordered(p, ChunkEnd)
            /\ \A i \in 1..Len(p) : idx < p[i]
            /\ File(idx) \o p = File(ChunkEnd)
    BY <1>4, <1>5, PartInFile, ZenonT(30)
  <1> QED
    BY <1>3, <1>6 DEF Bytes

\* The extension cuts off the next chunk.
LEMMA SendStep ==
    ASSUME IInv, SendChunk
    PROVE  IInv'
  <1>0. TypeOK /\ Position
    BY DEF IInv
  <1>1. /\ client = "send" /\ client' = "wait" /\ handler = "idle" /\ handler' = "read"
        /\ truncate' = (idx = 0) /\ truncate' \in BOOLEAN
        /\ chunk' = SubSeq(File(size), idx + 1, ChunkEnd)
        /\ UNCHANGED <<kind, size, idx, buf, stored, allOk, firstOk, faults>>
        /\ ChunkEnd' = ChunkEnd
    BY <1>0 DEF SendChunk, ChunkEnd, Position
  <1>2. chunk' \in Seq(Bytes)
    BY <1>0, <1>1, ChunkFacts
  <1>3. TypeOK'
    BY <1>0, <1>1, <1>2 DEF TypeOK
  <1>4. Position'
    <2>1. chunk' = SubSeq(File(size'), idx' + 1, ChunkEnd')
      BY <1>1
    <2> QED
      BY <1>0, <1>1, <2>1 DEF Position
  <1>5. WholeSoFar'
    BY <1>1 DEF IInv, WholeSoFar
  <1>6. InPlace'
    BY <1>1 DEF IInv, InPlace, Ordered
  <1> QED
    BY <1>3, <1>4, <1>5, <1>6 DEF IInv

\* The handler puts the chunk after what is there, or begins anew.
LEMMA ReadStep ==
    ASSUME IInv, ReadCurrent
    PROVE  IInv'
  <1>0. /\ TypeOK /\ Position /\ MaxSize \in Nat /\ idx \in Nat /\ ChunkEnd \in Nat
        /\ stored \in Seq(0..MaxSize) /\ handler = "read" /\ handler' = "create"
        /\ UNCHANGED <<kind, size, idx, client, truncate, chunk, stored, allOk, firstOk,
                       faults>>
        /\ truncate = (idx = 0)
        /\ chunk = SubSeq(File(size), idx + 1, ChunkEnd)
    BY Numbers DEF IInv, ReadCurrent, TypeOK, Bytes, Position
  <1>1. /\ idx <= ChunkEnd /\ chunk \in Seq(0..MaxSize) /\ Ordered(chunk, ChunkEnd)
        /\ \A i \in 1..Len(chunk) : idx < chunk[i]
        /\ File(idx) \o chunk = File(ChunkEnd)
    BY <1>0, ChunkFacts DEF Bytes
  <1>2. buf' \in {chunk, stored \o chunk} /\ buf' \in Seq(0..MaxSize)
    BY <1>0, <1>1, ConcatProperties DEF ReadCurrent
  <1>3. TypeOK'
    BY <1>0, <1>2 DEF TypeOK, Bytes
  <1>4. ChunkEnd' = ChunkEnd
    BY <1>0 DEF ChunkEnd
  <1>5. Position'
    BY <1>0, <1>4 DEF Position
  <1>6. WholeSoFar'
    <2>1. ASSUME kind = "attachment", allOk, client # "aborted"
          PROVE  buf' = File(ChunkEnd)
      <3>1. CASE idx = 0
        <4>1. buf' = chunk /\ truncate
          BY <1>0, <3>1 DEF ReadCurrent
        <4>2. size \in Nat /\ ChunkEnd \in 0..size
          BY <1>0, Numbers
        <4>3. idx + 1 = 1
          BY <3>1
        <4>4. chunk = SubSeq(File(size), 1, ChunkEnd)
          BY <1>0, <4>3
        <4> QED
          BY <4>1, <4>2, <4>4, FirstPart
      <3>2. CASE idx # 0
        <4>1. buf' = stored \o chunk
          BY <1>0, <2>1, <3>2 DEF ReadCurrent
        <4>2. idx > 0
          BY <1>0, <3>2
        <4>3. stored = File(idx)
          BY <1>0, <2>1, <4>2 DEF IInv, WholeSoFar
        <4> QED
          BY <1>1, <4>1, <4>3
      <3> QED
        BY <3>1, <3>2
    <2> QED
      <3>1. buf' = File(ChunkEnd) => buf' = File(ChunkEnd')
        BY <1>4
      <3>2. client' # "done" /\ client' # "send"
        BY <1>0 DEF Position
      <3> QED
        BY <1>0, <2>1, <3>1, <3>2 DEF WholeSoFar
  <1>7. InPlace'
    <2>1. ASSUME firstOk \/ truncate PROVE Ordered(buf', ChunkEnd)
      <3>1. CASE buf' = chunk
        BY <1>1, <3>1
      <3>2. CASE buf' = stored \o chunk /\ ~ truncate
        <4>1. Ordered(stored, idx)
          BY <1>0, <2>1, <3>2 DEF IInv, InPlace
        <4>2. Ordered(stored \o chunk, ChunkEnd)
          <5>1. /\ MaxSize \in Nat /\ idx \in Nat /\ ChunkEnd \in Nat /\ idx <= ChunkEnd
                /\ stored \in Seq(0..MaxSize) /\ chunk \in Seq(0..MaxSize)
            BY <1>0, <1>1
          <5>2. Ordered(chunk, ChunkEnd) /\ \A i \in 1..Len(chunk) : idx < chunk[i]
            BY <1>1
          <5> QED
            BY <4>1, <5>1, <5>2, OrderedConcat, Zenon
        <4> QED
          BY <3>2, <4>2
      <3>3. buf' = chunk \/ (buf' = stored \o chunk /\ ~ truncate)
        BY DEF ReadCurrent
      <3> QED
        BY <3>1, <3>2, <3>3
    <2>2. Ordered(buf', ChunkEnd) => Ordered(buf, ChunkEnd)'
      BY <1>4 DEF Ordered
    <2> QED
      BY <1>0, <2>1, <2>2 DEF IInv, InPlace, Ordered
  <1> QED
    BY <1>3, <1>5, <1>6, <1>7 DEF IInv

\* The file is truncated, or made.
LEMMA CreateStep ==
    ASSUME IInv, CreateFile
    PROVE  IInv'
  <1>0. /\ handler = "create" /\ handler' = "copy" /\ stored' = << >>
        /\ UNCHANGED <<kind, size, idx, client, truncate, chunk, buf, allOk, firstOk, faults>>
        /\ ChunkEnd' = ChunkEnd
    BY DEF CreateFile, ChunkEnd
  <1>1. TypeOK'
    BY <1>0 DEF IInv, TypeOK
  <1>2. Position'
    BY <1>0 DEF IInv, Position
  <1>3. WholeSoFar'
    BY <1>0 DEF IInv, Position, WholeSoFar
  <1>4. InPlace'
    <2>1. Ordered(<< >>, size)
      BY DEF Ordered
    <2> QED
      BY <1>0, <2>1 DEF IInv, Position, InPlace, Ordered
  <1> QED
    BY <1>1, <1>2, <1>3, <1>4 DEF IInv

\* The extension is told "ok" or not, and goes on regardless.
LEMMA AnswerStep ==
    ASSUME IInv, handler # "idle", NEW ok \in BOOLEAN, Answer(ok),
           UNCHANGED <<kind, size, truncate, chunk, buf>>, faults' \in 0..MaxFaults,
           stored' \in Seq(Bytes),
           ok => handler = "copy" /\ stored' = buf,
           handler # "copy" => stored' = stored,
           handler = "copy" /\ Ordered(buf, ChunkEnd) => Ordered(stored', ChunkEnd)
    PROVE  IInv'
  <1>0. /\ TypeOK /\ Position /\ size \in Nat /\ idx \in Nat /\ ChunkEnd \in Nat
        /\ ChunkSize \in Nat \ {0} /\ ChunkEnd <= size /\ ChunkEnd <= idx + ChunkSize
        /\ idx <= size /\ size <= MaxSize /\ MaxSize \in Nat
        /\ idx + ChunkSize < size => ChunkEnd = idx + ChunkSize
        /\ idx + ChunkSize >= size => ChunkEnd = size
        /\ client \in {"wait", "aborted"} /\ truncate = (idx = 0)
    BY Numbers, SMTT(30) DEF IInv, Position, TypeOK
  <1>1. /\ handler' = "idle"
        /\ \/ /\ client = "wait" /\ idx' = idx + ChunkSize
              /\ \/ idx + ChunkSize < size /\ client' = "send"
                 \/ idx + ChunkSize >= size /\ client' = "done"
           \/ client # "wait" /\ idx' = idx /\ client' = client
    BY <1>0 DEF Answer
  <1>2. /\ allOk' = (allOk /\ ok) /\ firstOk' = (firstOk \/ (ok /\ truncate))
        /\ allOk' \in BOOLEAN /\ firstOk' \in BOOLEAN
    BY <1>0 DEF Answer, TypeOK
  <1>3. TypeOK'
    <2>1. idx' \in 0..(MaxSize + ChunkSize) /\ client' \in {"send", "wait", "done", "aborted"}
      BY <1>0, <1>1
    <2> QED
      BY <1>0, <1>1, <1>2, <2>1 DEF TypeOK
  <1>4. Position'
    BY <1>0, <1>1, <1>2 DEF Position
  <1>5. WholeSoFar'
    <2> SUFFICES ASSUME kind = "attachment", allOk, ok, client = "wait"
                 PROVE  /\ client' = "done" => stored' = File(size)
                        /\ client' = "send" => stored' = File(idx')
      BY <1>0, <1>1, <1>2 DEF WholeSoFar
    <2>1. stored' = File(ChunkEnd)
      BY DEF IInv, WholeSoFar
    <2> QED
      BY <1>0, <1>1, <2>1
  <1>6. InPlace'
    <2> SUFFICES ASSUME firstOk'
                 PROVE  Ordered(stored', size) /\ (client' = "send" => Ordered(stored', idx'))
      BY <1>1 DEF InPlace, Ordered
    <2>1. CASE handler = "copy"
      <3>1. Ordered(stored', ChunkEnd)
        BY <1>2, <2>1 DEF IInv, InPlace
      <3> QED
        BY <1>0, <1>1, <3>1, OrderedUpTo
    <2>2. CASE handler # "copy"
      <3>1. firstOk /\ stored' = stored /\ handler \in {"read", "create"}
        BY <1>0, <1>2, <2>2 DEF TypeOK
      <3>2. Ordered(stored, size) /\ Ordered(stored, idx)
        BY <3>1 DEF IInv, InPlace
      <3> QED
        BY <1>0, <1>1, <3>1, <3>2, OrderedUpTo
    <2> QED
      BY <2>1, <2>2
  <1> QED
    BY <1>3, <1>4, <1>5, <1>6 DEF IInv

\* What the handler copies, or a part of it, is in order.
LEMMA CopyStep ==
    ASSUME IInv, CopyBuffer \/ StoreFails
    PROVE  IInv'
  <1>0. buf \in Seq(Bytes) /\ stored \in Seq(Bytes) /\ faults \in 0..MaxFaults
    BY DEF IInv, TypeOK
  <1>1. CASE CopyBuffer
    BY <1>0, <1>1, AnswerStep DEF CopyBuffer
  <1>2. CASE StoreFails
    <2>1. faults' \in 0..MaxFaults
      BY <1>0, <1>2, FaultsAssumption DEF StoreFails
    <2>2. handler # "copy" => stored' = stored
      BY <1>2 DEF StoreFails
    <2>3. ASSUME handler = "copy"
          PROVE  /\ stored' \in Seq(Bytes)
                 /\ Ordered(buf, ChunkEnd) => Ordered(stored', ChunkEnd)
      <3>1. PICK n \in 0..Len(buf) : stored' = SubSeq(buf, 1, n)
        BY <1>2, <2>3 DEF StoreFails
      <3>2. MaxSize \in Nat /\ ChunkEnd \in Nat /\ buf \in Seq(0..MaxSize)
        BY <1>0, Numbers DEF IInv, Bytes
      <3>3. stored' \in Seq(Bytes)
        <4>1. Len(buf) \in Nat /\ \A i \in 1..n : buf[i] \in 0..MaxSize
          BY <3>2
        <4> QED
          BY <3>1, <4>1, SubSeqProperties DEF Bytes
      <3> QED
        BY <3>1, <3>2, <3>3, OrderedPart
    <2>4. stored' \in Seq(Bytes)
      BY <1>0, <2>2, <2>3
    <2> QED
      BY <1>2, <2>1, <2>2, <2>3, <2>4, AnswerStep DEF StoreFails
  <1> QED
    BY <1>1, <1>2

\* Every step keeps IInv.
LEMMA StepIInv == IInv /\ [Next]_vars => IInv'
  <1> SUFFICES ASSUME IInv, [Next]_vars PROVE IInv'
    OBVIOUS
  <1>1. CASE ConnectionLost
    BY <1>1
    DEF ConnectionLost, IInv, TypeOK, Position, WholeSoFar, InPlace, Ordered, ChunkEnd
  <1>2. CASE UNCHANGED vars
    BY <1>2 DEF vars, IInv, TypeOK, Position, WholeSoFar, InPlace, Ordered, ChunkEnd
  <1> QED
    BY <1>1, <1>2, SendStep, ReadStep, CreateStep, CopyStep DEF Next, Handle

\* IInv holds at first.
LEMMA InitIInv == Init => IInv
  <1> SUFFICES ASSUME Init PROVE IInv
    OBVIOUS
  <1>1. /\ 0 \in 0..MaxFaults /\ 0 \in 0..(MaxSize + ChunkSize) /\ Stale \in Bytes
        /\ 0 \in Nat
    BY SizeAssumption, ChunkAssumption, FaultsAssumption DEF Stale, Bytes
  <1>2. << >> \in Seq(Bytes) /\ <<Stale>> \in Seq(Bytes)
    BY <1>1
  <1>3. TypeOK
    BY <1>1, <1>2 DEF Init, TypeOK
  <1> QED
    BY <1>3 DEF Init, IInv, Position, WholeSoFar, InPlace

\* Type correctness of the upload.
THEOREM TypeCorrect == Spec => []TypeOK
  <1>1. IInv => TypeOK
    BY DEF IInv
  <1> QED
    BY <1>1, InitIInv, StepIInv, PTL DEF Spec

\* An attachment all of whose chunks were taken is stored whole.
THEOREM AttachmentIsWhole == Spec => []AttachmentWhole
  <1>1. IInv => AttachmentWhole
    BY DEF IInv, WholeSoFar, AttachmentWhole
  <1> QED
    BY <1>1, InitIInv, StepIInv, PTL DEF Spec

\* Nothing is repeated, swapped, or left over.
THEOREM StoredInOrder == Spec => []InOrder
  <1>1. IInv => InOrder
    BY DEF IInv, InPlace, InOrder, Ordered
  <1> QED
    BY <1>1, InitIInv, StepIInv, PTL DEF Spec
=============================================================================
