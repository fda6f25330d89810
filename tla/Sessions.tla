------------------------------ MODULE Sessions ------------------------------
(***************************************************************************)
(* The sessions of the web server: the cookie handler (sessions/http.go)   *)
(* around the handlers that log a user in and out, over the store that     *)
(* keeps all sessions in a map and saves the map to a file after every     *)
(* change (sessions/map.go).                                               *)
(*                                                                         *)
(* The methods of mapStore have value receivers, so each call locks its    *)
(* own copy of the mutex and excludes nobody: requests and the pruning     *)
(* goroutine interleave between any two accesses of the map and the file.  *)
(* What the Go runtime makes of a detected race is a crash, and a crash    *)
(* (Restart) can come at any time.                                         *)
(*                                                                         *)
(* A request works on its own copy of the session.  Dirty is kept in the   *)
(* map with the rest of that copy, but not in the file.                    *)
(*                                                                         *)
(* The store has a file.  The one without (Filename is empty, map.go:68)   *)
(* is left out: it saves nothing, and starts empty.                        *)
(***************************************************************************)
EXTENDS Naturals, FiniteSets

CONSTANTS
    Paces,        \* bound: "serial", the requests of one browser follow each other,
                  \* time goes by, Prune runs and writes fail; "racing", those of
                  \* all browsers overlap, and no time goes by
    Reqs,         \* handlers of requests, each used again and again
    Janitor,      \* the goroutine that prunes
    Browsers,     \* each with one user, of the same name
    Nobody,       \* LoggedInAs = ""
    Ids,          \* session IDs; 24 random bytes do not repeat
    NoId,         \* no cookie
    Absent,       \* not in the map
    Unreadable,   \* a file without a whole JSON value
    MaxDuration,  \* age of a session Prune removes
    Lifetime,     \* age of a cookie the browser still sends
    MaxTime,      \* bound: the clock
    MaxPrunes,    \* bound: runs of Prune
    MaxRestarts,  \* bound: restarts of the server
    MaxFaults     \* bound: writes to the file that fail

ASSUME PaceAssumption     == Paces \subseteq {"serial", "racing"}
ASSUME JanitorAssumption  == Janitor \notin Reqs
ASSUME DurationAssumption == Lifetime \in Nat /\ MaxDuration \in Nat /\ Lifetime < MaxDuration
ASSUME BoundsAssumption   == {MaxTime, MaxPrunes, MaxRestarts, MaxFaults} \subseteq Nat

Savers   == Reqs \cup {Janitor}
Sessions == [user : Browsers \cup {Nobody}, dirty : BOOLEAN,
             destroyed : BOOLEAN, lastSeen : 0..MaxTime]
Maps     == [Ids -> Sessions \cup {Absent}]
EmptyMap == [i \in Ids |-> Absent]
Blank    == [user |-> Nobody, dirty |-> FALSE, destroyed |-> FALSE, lastSeen |-> 0]

ASSUME NamesAssumption == /\ Nobody \notin Browsers
                          /\ NoId \notin Ids
                          /\ Absent \notin Sessions
                          /\ Unreadable \notin Maps

VARIABLES
    pace,      \* how requests follow each other, for a whole behaviour
    contents,  \* mapStore.Contents
    file,      \* what a server starting now would find in mapStore.Filename
    running,   \* the server has come up
    cookie,    \* the session cookie of each browser, and when it was set
    pc,        \* where each request, and the janitor, is
    by,        \* the browser a request is from, Nobody's when there is none
    kind,      \* "page", "login" (the OIDC callback) or "logout"
    id,        \* the session ID a request works with
    sess,      \* the copy a request works on
    fresh,     \* requests that save a session they have just made
    told,      \* requests whose response header is out already
    snap,      \* what a save is about to write
    stale,     \* the IDs the janitor has collected
    used,      \* history: session IDs given out
    acked,     \* history: the session a browser knows it is logged in with
    dirtied,   \* history: sessions that have been stored with Dirty set
    now, prunes, restarts, faults

vars == <<pace, contents, file, running, cookie, pc, by, kind, id, sess, fresh, told,
          snap, stale, used, acked, dirtied, now, prunes, restarts, faults>>

Init ==
    /\ pace \in Paces
    /\ contents = EmptyMap
    /\ file = EmptyMap
    /\ running = TRUE
    /\ cookie = [b \in Browsers |-> [id |-> NoId, set |-> 0]]
    /\ pc = [s \in Savers |-> "idle"]
    /\ by = [r \in Reqs |-> Nobody]
    /\ kind = [r \in Reqs |-> "page"]
    /\ id = [r \in Reqs |-> NoId]
    /\ sess = [r \in Reqs |-> Blank]
    /\ fresh = {}
    /\ told = {}
    /\ snap = [s \in Savers |-> EmptyMap]
    /\ stale = {}
    /\ used = {}
    /\ acked = [b \in Browsers |-> NoId]
    /\ dirtied = {}
    /\ now = 0 /\ prunes = 0 /\ restarts = 0 /\ faults = 0

Goto(s, label) == pc' = [pc EXCEPT ![s] = label]

bounds == <<pace, now, prunes, restarts, faults>>

-----------------------------------------------------------------------------
(* A request, up to its handler.                                           *)

Valid(b) == cookie[b].id # NoId /\ now - cookie[b].set <= Lifetime

\* The callback comes from another site, so a SameSite cookie may stay behind.
Send(r, b, k) ==
    /\ running /\ pc[r] = "idle"
    /\ pace = "serial" => /\ \A x \in Reqs : pc[x] = "idle"
                          /\ \A x \in Browsers \ {b} : cookie[x].id = NoId
    /\ by' = [by EXCEPT ![r] = b]
    /\ kind' = [kind EXCEPT ![r] = k]
    /\ \/ /\ Valid(b)
          /\ id' = [id EXCEPT ![r] = cookie[b].id]
       \/ /\ ~ Valid(b) \/ k = "login"
          /\ id' = [id EXCEPT ![r] = NoId]
    /\ acked' = IF k = "logout" THEN [acked EXCEPT ![b] = NoId] ELSE acked
    /\ Goto(r, "get")
    /\ UNCHANGED <<contents, file, running, cookie, sess, fresh, told, snap,
                   stale, used, dirtied, bounds>>

Known(r) ==
    /\ id[r] # NoId
    /\ contents[id[r]] # Absent
    /\ ~ contents[id[r]].destroyed

GetSession(r) ==
    /\ pc[r] = "get" /\ Known(r)
    /\ sess' = [sess EXCEPT ![r] = contents[id[r]]]
    /\ Goto(r, "serve")
    /\ UNCHANGED <<contents, file, running, cookie, by, kind, id, fresh, told,
                   snap, stale, used, acked, dirtied, bounds>>

\* NewSession under ID i, which is then saved.
NewUnder(r, i) ==
    LET new == [Blank EXCEPT !.lastSeen = now] IN
    /\ pc[r] = "get" /\ ~ Known(r)
    /\ used' = used \cup {i}
    /\ id' = [id EXCEPT ![r] = i]
    /\ sess' = [sess EXCEPT ![r] = new]
    /\ contents' = [contents EXCEPT ![i] = new]
    /\ fresh' = fresh \cup {r}
    /\ Goto(r, "create")
    /\ UNCHANGED <<file, running, cookie, by, kind, told, snap, stale, acked,
                   dirtied, bounds>>

\* Mutant of NewSession: IDs are unique among the sessions in the map only.
NewCounted(r) == \E i \in Ids : contents[i] = Absent /\ NewUnder(r, i)

\* Mutant of NewSession: the browser keeps the ID it had.
NewInPlace(r) ==
    \E i \in Ids : (i = id[r] \/ (id[r] = NoId /\ i \notin used)) /\ NewUnder(r, i)

NewSession(r) == \E i \in Ids \ used : NewUnder(r, i)

-----------------------------------------------------------------------------
(* The handler, and what follows it.                                       *)

\* Mutant of Served: the callback does not mark the session dirty.
ServedClean(k, b, s) ==
    CASE k = "login"  -> [s EXCEPT !.user = b]
      [] k = "logout" -> [s EXCEPT !.user = Nobody, !.destroyed = TRUE,
                                   !.dirty = TRUE]
      [] OTHER        -> s

\* The copy as the handler of a request of kind k leaves it.
Served(k, b, s) ==
    CASE k = "login"  -> [s EXCEPT !.user = b, !.dirty = TRUE]
      [] k = "logout" -> [s EXCEPT !.user = Nobody, !.destroyed = TRUE,
                                   !.dirty = TRUE]
      [] OTHER        -> s

SetCookie(r) == cookie' = [cookie EXCEPT ![by[r]] = [id |-> id[r], set |-> now]]

\* A page may be long enough for its first part to be sent at once.
Serve(r) ==
    /\ pc[r] = "serve"
    /\ sess' = [sess EXCEPT ![r] = Served(kind[r], by[r], @)]
    /\ Goto(r, "finish")
    /\ \/ UNCHANGED <<cookie, told>>
       \/ /\ kind[r] = "page"
          /\ SetCookie(r)
          /\ told' = told \cup {r}
    /\ UNCHANGED <<contents, file, running, by, kind, id, fresh, snap, stale,
                   used, acked, dirtied, bounds>>

\* The request is over, and its handler's variables are gone.
Over(r) ==
    /\ Goto(r, "idle")
    /\ by' = [by EXCEPT ![r] = Nobody]
    /\ kind' = [kind EXCEPT ![r] = "page"]
    /\ id' = [id EXCEPT ![r] = NoId]
    /\ sess' = [sess EXCEPT ![r] = Blank]
    /\ told' = told \ {r}

\* The response reaches the browser, or is lost.
Reply(r) ==
    /\ Over(r)
    /\ \/ UNCHANGED <<cookie, acked>>
       \/ /\ r \notin told
          /\ SetCookie(r)
          /\ acked' = IF kind[r] = "login" THEN [acked EXCEPT ![by[r]] = id[r]]
                                           ELSE acked

\* A dirty copy replaces what the map has.
StoreSession(r) ==
    /\ pc[r] = "finish" /\ sess[r].dirty
    /\ contents' = [contents EXCEPT ![id[r]] = sess[r]]
    /\ dirtied' = dirtied \cup {id[r]}
    /\ Goto(r, "create")
    /\ UNCHANGED <<file, running, cookie, by, kind, id, sess, fresh, told, snap,
                   stale, used, acked, bounds>>

\* Mutant of TouchRead: LastSeen stays what it was.
TouchNothing(r) ==
    /\ pc[r] = "finish" /\ ~ sess[r].dirty
    /\ contents[id[r]] # Absent
    /\ sess' = [sess EXCEPT ![r] = contents[id[r]]]
    /\ Goto(r, "touched")
    /\ UNCHANGED <<contents, file, running, cookie, by, kind, id, fresh, told,
                   snap, stale, used, acked, dirtied, bounds>>

\* TouchSession reads the session once more ...
TouchRead(r) ==
    /\ pc[r] = "finish" /\ ~ sess[r].dirty
    /\ contents[id[r]] # Absent
    /\ sess' = [sess EXCEPT ![r] = [contents[id[r]] EXCEPT !.lastSeen = now]]
    /\ Goto(r, "touched")
    /\ UNCHANGED <<contents, file, running, cookie, by, kind, id, fresh, told,
                   snap, stale, used, acked, dirtied, bounds>>

\* ... which may have been pruned,
TouchMissing(r) ==
    /\ pc[r] = "finish" /\ ~ sess[r].dirty
    /\ contents[id[r]] = Absent
    /\ Reply(r)
    /\ UNCHANGED <<contents, file, running, fresh, snap, stale, used, dirtied,
                   bounds>>

\* ... and writes it back.
TouchWrite(r) ==
    /\ pc[r] = "touched"
    /\ contents' = [contents EXCEPT ![id[r]] = sess[r]]
    /\ dirtied' = IF sess[r].dirty THEN dirtied \cup {id[r]} ELSE dirtied
    /\ Goto(r, "create")
    /\ UNCHANGED <<file, running, cookie, by, kind, id, sess, fresh, told, snap,
                   stale, used, acked, bounds>>

-----------------------------------------------------------------------------
(* saveContents: os.Create, the encoding of the map, the write.            *)

\* What JSON keeps of a map.
Saved(m) ==
    [i \in Ids |-> IF m[i] = Absent THEN Absent ELSE [m[i] EXCEPT !.dirty = FALSE]]

\* What comes after a save: the handler of a new session, or the response.
AfterSave(s, failed) ==
    \/ /\ s = Janitor
       /\ Goto(s, "idle")
       /\ UNCHANGED <<cookie, by, kind, id, sess, fresh, told, acked>>
    \/ /\ s \in fresh /\ ~ failed
       /\ fresh' = fresh \ {s}
       /\ Goto(s, "serve")
       /\ UNCHANGED <<cookie, by, kind, id, sess, told, acked>>
    \/ /\ s \in fresh /\ failed
       /\ fresh' = fresh \ {s}
       /\ Over(s)
       /\ UNCHANGED <<cookie, acked>>
    \/ /\ s \in Reqs \ fresh
       /\ Reply(s)
       /\ UNCHANGED fresh

SaveCreate(s) ==
    /\ pc[s] = "create"
    /\ file' = Unreadable
    /\ Goto(s, "encode")
    /\ UNCHANGED <<contents, running, cookie, by, kind, id, sess, fresh, told,
                   snap, stale, used, acked, dirtied, bounds>>

SaveEncode(s) ==
    /\ pc[s] = "encode"
    /\ snap' = [snap EXCEPT ![s] = Saved(contents)]
    /\ Goto(s, "write")
    /\ UNCHANGED <<contents, file, running, cookie, by, kind, id, sess, fresh,
                   told, stale, used, acked, dirtied, bounds>>

\* Mutant of SaveWrite: what was encoded stays in a buffer.
SaveBuffered(s) ==
    /\ pc[s] = "write"
    /\ AfterSave(s, FALSE)
    /\ snap' = [snap EXCEPT ![s] = EmptyMap]
    /\ UNCHANGED <<contents, file, running, stale, used, dirtied, bounds>>

SaveWrite(s) ==
    /\ pc[s] = "write"
    /\ file' = snap[s]
    /\ snap' = [snap EXCEPT ![s] = EmptyMap]
    /\ AfterSave(s, FALSE)
    /\ UNCHANGED <<contents, running, stale, used, dirtied, bounds>>

\* The file cannot be created, or not be written: only a new session's request
\* is told.
SaveFails(s) ==
    /\ pace = "serial" /\ faults < MaxFaults
    /\ faults' = faults + 1
    /\ pc[s] \in {"create", "write"}
    /\ snap' = [snap EXCEPT ![s] = EmptyMap]
    /\ AfterSave(s, TRUE)
    /\ UNCHANGED <<contents, file, running, stale, used, dirtied, pace, now,
                   prunes, restarts>>

-----------------------------------------------------------------------------
(* Prune, restarts and time.                                               *)

PruneCollect ==
    /\ running /\ pace = "serial" /\ pc[Janitor] = "idle" /\ prunes < MaxPrunes
    /\ prunes' = prunes + 1
    /\ stale' = {i \in Ids : /\ contents[i] # Absent
                             /\ now - contents[i].lastSeen > MaxDuration}
    /\ Goto(Janitor, "collected")
    /\ UNCHANGED <<contents, file, running, cookie, by, kind, id, sess, fresh,
                   told, snap, used, acked, dirtied, pace, now, restarts,
                   faults>>

PruneDelete ==
    /\ pc[Janitor] = "collected"
    /\ contents' = [i \in Ids |-> IF i \in stale THEN Absent ELSE contents[i]]
    /\ stale' = {}
    /\ Goto(Janitor, "create")
    /\ UNCHANGED <<file, running, cookie, by, kind, id, sess, fresh, told, snap,
                   used, acked, dirtied, bounds>>

\* Mutant of Load: the error of the decoder is not looked at.
LoadAnyway == file

Load == IF file = Unreadable THEN EmptyMap ELSE file

\* The server stops, at any point of any request, and is started again; it
\* refuses to come up with a file it cannot read.
Restart ==
    /\ running /\ restarts < MaxRestarts
    /\ restarts' = restarts + 1
    /\ running' = (file # Unreadable)
    /\ contents' = Load
    /\ pc' = [s \in Savers |-> "idle"]
    /\ by' = [r \in Reqs |-> Nobody]
    /\ kind' = [r \in Reqs |-> "page"]
    /\ id' = [r \in Reqs |-> NoId]
    /\ sess' = [r \in Reqs |-> Blank]
    /\ snap' = [s \in Savers |-> EmptyMap]
    /\ fresh' = {} /\ told' = {} /\ stale' = {} /\ dirtied' = {}
    /\ UNCHANGED <<pace, file, cookie, used, acked, now, prunes, faults>>

\* No request takes hours.
Tick ==
    /\ pace = "serial" /\ now < MaxTime
    /\ \A s \in Savers : pc[s] = "idle"
    /\ now' = now + 1
    /\ UNCHANGED <<pace, contents, file, running, cookie, pc, by, kind, id, sess, fresh,
                   told, snap, stale, used, acked, dirtied, prunes, restarts, faults>>

-----------------------------------------------------------------------------
Handle(r) ==
    \/ GetSession(r)
    \/ NewSession(r)
    \/ Serve(r)
    \/ StoreSession(r)
    \/ TouchRead(r)
    \/ TouchMissing(r)
    \/ TouchWrite(r)

Save(s) == SaveCreate(s) \/ SaveEncode(s) \/ SaveWrite(s) \/ SaveFails(s)

Next ==
    \/ \E r \in Reqs, b \in Browsers, k \in {"page", "login", "logout"} : Send(r, b, k)
    \/ \E r \in Reqs : Handle(r)
    \/ \E s \in Savers : Save(s)
    \/ PruneCollect
    \/ PruneDelete
    \/ Restart
    \/ Tick

Spec == Init /\ [][Next]_vars

-----------------------------------------------------------------------------
(* Properties.                                                             *)

Labels == {"idle", "get", "serve", "finish", "touched", "collected", "create",
           "encode", "write"}

TypeOK ==
    /\ pace \in Paces
    /\ contents \in Maps
    /\ file \in Maps \cup {Unreadable}
    /\ running \in BOOLEAN
    /\ cookie \in [Browsers -> [id : Ids \cup {NoId}, set : 0..MaxTime]]
    /\ pc \in [Savers -> Labels]
    /\ by \in [Reqs -> Browsers \cup {Nobody}]
    /\ kind \in [Reqs -> {"page", "login", "logout"}]
    /\ id \in [Reqs -> Ids \cup {NoId}]
    /\ sess \in [Reqs -> Sessions]
    /\ fresh \subseteq Reqs /\ told \subseteq Reqs
    /\ snap \in [Savers -> Maps]
    /\ stale \subseteq Ids /\ used \subseteq Ids /\ dirtied \subseteq Ids
    /\ acked \in [Browsers -> Ids \cup {NoId}]
    /\ now \in 0..MaxTime
    /\ prunes \in 0..MaxPrunes
    /\ restarts \in 0..MaxRestarts
    /\ faults \in 0..MaxFaults

\* Nobody is ever served with the login of somebody else, whatever requests
\* race, and whichever older state a restart brings back.
OwnSession ==
    \A r \in Reqs :
        pc[r] \in {"serve", "finish"} => sess[r].user \in {Nobody, by[r]}

\* A logout that is stored is final, but for requests that took their copy of
\* the session before it (hoard.go:173-175, http.go:69-71).
Holds(r, i) == id[r] = i /\ pc[r] \notin {"idle", "get"}

LoggedOut(i) == contents[i] # Absent /\ contents[i].destroyed

LogoutHolds ==
    [][\A i \in Ids :
          LoggedOut(i) /\ (\A r \in Reqs : ~ Holds(r, i))
              => \/ LoggedOut(i)'
                 \/ contents'[i] = Absent
                 \/ restarts' # restarts]_vars

\* The server can be started again unless it stopped in the middle of a save,
\* or a save has failed: savers that race leave a file that can be read.
Saving(s) == pc[s] \in {"create", "encode", "write"}

UnreadableOnlyMidSave ==
    running /\ file = Unreadable /\ faults = 0
        => \E s \in Savers : pc[s] \in {"encode", "write"}

\* A user who was told that the login succeeded is logged in with it after every step
\* until Prune is run, and after a restart if and only if the server was not stopped
\* between os.Create and the write of the session file (map.go:73-80): that stop loses
\* every login, and the server does not come up any more (map.go:132-142).  Of requests
\* that follow each other, and as long as no write fails.
LoggedIn(b) ==
    running /\ contents[acked[b]] # Absent /\ contents[acked[b]].user = b

LoginSurvives ==
    [][\A b \in Browsers :
          /\ pace = "serial" /\ running /\ faults' = 0 /\ prunes' = 0
          /\ acked'[b] # NoId
          => (LoggedIn(b)' <=> \/ restarts' = restarts
                              \/ \A s \in Savers : pc[s] \notin {"encode", "write"})]_vars

\* A session that a browser still sends is there, unless it has been stored
\* dirty: Prune removes sessions nobody uses (map.go:84-99, 101-112).
Quiet == restarts = 0 /\ \A s \in Savers : pc[s] = "idle"

AnonymousKept ==
    Quiet => \A b \in Browsers :
        Valid(b) /\ cookie[b].id \notin dirtied => contents[cookie[b].id] # Absent

\* "Clean out old stale sessions from the store" (hoard.go:114): Prune removes
\* no session that a browser still uses.
ActiveKept ==
    Quiet => \A b \in Browsers : Valid(b) => contents[cookie[b].id] # Absent
=============================================================================
