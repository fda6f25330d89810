------------------------------ MODULE Accounts ------------------------------
(***************************************************************************)
(* User profiles and API keys: the requests that need a login or a key     *)
(* (login/oidc.go, login/apikey.go) over the store that keeps both in maps *)
(* and saves them to one file after every change (login/map.go).           *)
(*                                                                         *)
(* As in Sessions the methods of mapStore have value receivers, so no lock *)
(* is in effect.  Every request that needs a login makes sure first that   *)
(* its user has a profile.  The store without a file has no map of keys.   *)
(***************************************************************************)
EXTENDS Naturals, FiniteSets

CONSTANTS
    Reqs,         \* handlers of requests, each used again and again
    Users,        \* user IDs
    Nobody,       \* the user of a handler that is idle
    Keys,         \* key IDs; 8 random bytes do not repeat
    NoKey,        \* a request that is not about a key
    Scope,        \* the scope the profile page asks for, "document.create"
    NoScope,      \* Scope = ""
    Absent,       \* not in the map
    Unreadable,   \* a file without a whole JSON value
    MaxRestarts,  \* bound: restarts of the server
    MaxFaults     \* bound: writes to the file that fail

ASSUME UserAssumption   == Nobody \notin Users /\ NoKey \notin Keys
ASSUME BoundsAssumption == MaxRestarts \in Nat /\ MaxFaults \in Nat

Profiles == {"blank", "named"}
APIKeys  == [user : Users, disabled : BOOLEAN, scope : {Scope, NoScope}]
Stores   == [users : [Users -> Profiles \cup {Absent}],
             keys  : [Keys -> APIKeys \cup {Absent}]]
Empty    == [users |-> [u \in Users |-> Absent], keys |-> [k \in Keys |-> Absent]]

ASSUME NamesAssumption == /\ Absent \notin Profiles \cup APIKeys
                          /\ Unreadable \notin Stores

Logins == {"callback", "newKey", "disable"}

VARIABLES
    backend,   \* the store: "file" or "memory"
    store,     \* mapStore.Contents and mapStore.APIKeys
    file,      \* what a server starting now would find in mapStore.Filename
    running,   \* the server has come up
    pc,        \* where each request is
    op,        \* what it is: one of Logins, or "use" of a key for Scope
    who,       \* the user it is from
    key,       \* the key it is about
    copy,      \* the profile it is about to store
    snap,      \* what a save is about to write
    given,     \* history: keys whose secret was answered
    doomed,    \* history: keys their owner asked to disable
    revoked,   \* history: keys whose disabling was answered
    before,    \* history: the keys revoked when a request arrived
    crossed,   \* history: two saves have overlapped
    restarts, faults

bounds  == <<restarts, faults>>
history == <<given, doomed, revoked, before, crossed>>
request == <<op, who, key, copy>>
vars == <<backend, store, file, running, pc, request, snap, history, bounds>>

Init ==
    /\ backend \in {"file", "memory"}
    /\ store = Empty /\ file = Empty /\ running = TRUE
    /\ pc = [r \in Reqs |-> "idle"]
    /\ op = [r \in Reqs |-> "use"]
    /\ who = [r \in Reqs |-> Nobody]
    /\ key = [r \in Reqs |-> NoKey]
    /\ copy = [r \in Reqs |-> Absent]
    /\ snap = [r \in Reqs |-> Empty]
    /\ given = {} /\ doomed = {} /\ revoked = {}
    /\ before = [r \in Reqs |-> {}]
    /\ crossed = FALSE
    /\ restarts = 0 /\ faults = 0

Goto(r, label) == pc' = [pc EXCEPT ![r] = label]

\* The request is over, and its handler's variables are gone.
Over(r) ==
    /\ Goto(r, "idle")
    /\ op' = [op EXCEPT ![r] = "use"]
    /\ who' = [who EXCEPT ![r] = Nobody]
    /\ key' = [key EXCEPT ![r] = NoKey]
    /\ copy' = [copy EXCEPT ![r] = Absent]
    /\ before' = [before EXCEPT ![r] = {}]

-----------------------------------------------------------------------------
(* Requests of users who are logged in.                                    *)

Arrive(r, u, o, k) ==
    /\ running /\ pc[r] = "idle"
    /\ op' = [op EXCEPT ![r] = o]
    /\ who' = [who EXCEPT ![r] = u]
    /\ key' = [key EXCEPT ![r] = k]
    /\ before' = [before EXCEPT ![r] = revoked]
    /\ doomed' = IF o = "disable" /\ store.keys[k] # Absent /\ store.keys[k].user = u
                 THEN doomed \cup {k} ELSE doomed
    /\ Goto(r, IF o = "use" THEN "check" ELSE "user")
    /\ UNCHANGED <<backend, store, file, running, copy, snap, given, revoked,
                   crossed, bounds>>

\* The owner has the secret, or the key is listed in the profile.
Request(r, u) ==
    \/ Arrive(r, u, "callback", NoKey)
    \/ Arrive(r, u, "newKey", NoKey)
    \/ \E k \in Keys :
          /\ store.keys[k] # Absent
          /\ \/ Arrive(r, u, "disable", k)
             \/ k \in given /\ store.keys[k].user = u /\ Arrive(r, u, "use", k)

\* The callback has a name for its user; other requests store a profile only if
\* there is none.
GetUser(r) ==
    /\ pc[r] = "user"
    /\ \/ /\ op[r] = "callback"
          /\ copy' = [copy EXCEPT ![r] = "named"]
          /\ Goto(r, "storeUser")
       \/ /\ op[r] # "callback" /\ store.users[who[r]] = Absent
          /\ copy' = [copy EXCEPT ![r] = "blank"]
          /\ Goto(r, "storeUser")
       \/ /\ op[r] # "callback" /\ store.users[who[r]] # Absent
          /\ Goto(r, "handle")
          /\ UNCHANGED copy
    /\ UNCHANGED <<backend, store, file, running, op, who, key, snap, history, bounds>>

StoreUser(r) ==
    /\ pc[r] = "storeUser"
    /\ store' = [store EXCEPT !.users[who[r]] = copy[r]]
    /\ Goto(r, "saveUser")
    /\ UNCHANGED <<backend, file, running, request, snap, history, bounds>>

\* A new key, of whatever scope was asked for.
NewAPIKey(r) ==
    /\ pc[r] = "handle" /\ op[r] = "newKey" /\ backend = "file"
    /\ \E k \in Keys :
          /\ store.keys[k] = Absent /\ k \notin given
          /\ store' = [store EXCEPT !.keys[k] =
                [user |-> who[r], disabled |-> FALSE, scope |-> NoScope]]
          /\ key' = [key EXCEPT ![r] = k]
    /\ Goto(r, "saveKeys")
    /\ UNCHANGED <<backend, file, running, op, who, copy, snap, history, bounds>>

\* In the store without a file the map of keys is nil.
NewAPIKeyPanics(r) ==
    /\ pc[r] = "handle" /\ op[r] = "newKey" /\ backend = "memory"
    /\ Over(r)
    /\ UNCHANGED <<backend, store, file, running, snap, given, doomed, revoked,
                   crossed, bounds>>

\* Mutant of Owns: users are not compared.
OwnsAny(u, k) == u \in Users /\ store.keys[k] # Absent

Owns(u, k) == store.keys[k] # Absent /\ store.keys[k].user = u

DisableAPIKey(r) ==
    /\ pc[r] = "handle" /\ op[r] = "disable"
    /\ \/ /\ Owns(who[r], key[r])
          /\ store' = [store EXCEPT !.keys[key[r]].disabled = TRUE]
       \/ /\ ~ Owns(who[r], key[r])
          /\ UNCHANGED store
    /\ Goto(r, "saveKeys")
    /\ UNCHANGED <<backend, file, running, request, snap, history, bounds>>

-----------------------------------------------------------------------------
(* saveContents: os.Create, the encoding of the maps, the write.           *)

Saves == {"saveUser", "saveKeys"}
Open  == {"openUser", "openKeys", "fullUser", "fullKeys"}

\* After a save: the handler, or the answer.
AfterSave(r) ==
    \/ /\ pc[r] \in {"saveUser", "fullUser"} /\ op[r] # "callback"
       /\ Goto(r, "handle")
       /\ copy' = [copy EXCEPT ![r] = Absent]
       /\ UNCHANGED <<op, who, key, before, given, revoked>>
    \/ /\ pc[r] \in {"saveUser", "fullUser"} /\ op[r] = "callback"
       /\ Over(r)
       /\ UNCHANGED <<given, revoked>>
    \/ /\ pc[r] \in {"saveKeys", "fullKeys"}
       /\ given' = IF op[r] = "newKey" THEN given \cup {key[r]} ELSE given
       /\ revoked' = IF op[r] = "disable" /\ Owns(who[r], key[r])
                     THEN revoked \cup {key[r]} ELSE revoked
       /\ Over(r)

\* The store in memory has nothing to save.
SaveNothing(r) ==
    /\ pc[r] \in Saves /\ backend = "memory"
    /\ AfterSave(r)
    /\ UNCHANGED <<backend, store, file, running, snap, doomed, crossed, bounds>>

SaveCreate(r) ==
    /\ pc[r] \in Saves /\ backend = "file"
    /\ file' = Unreadable
    /\ Goto(r, IF pc[r] = "saveUser" THEN "openUser" ELSE "openKeys")
    /\ crossed' = (crossed \/ \E x \in Reqs : pc[x] \in Open)
    /\ UNCHANGED <<backend, store, running, request, snap, given, doomed, revoked,
                   before, bounds>>

SaveEncode(r) ==
    /\ pc[r] \in {"openUser", "openKeys"}
    /\ snap' = [snap EXCEPT ![r] = store]
    /\ Goto(r, IF pc[r] = "openUser" THEN "fullUser" ELSE "fullKeys")
    /\ UNCHANGED <<backend, store, file, running, request, history, bounds>>

SaveWrite(r) ==
    /\ pc[r] \in {"fullUser", "fullKeys"}
    /\ file' = snap[r]
    /\ snap' = [snap EXCEPT ![r] = Empty]
    /\ AfterSave(r)
    /\ UNCHANGED <<backend, store, running, doomed, crossed, bounds>>

\* The file cannot be created, or not be written: the request ends with an error,
\* and what it has changed in the maps stays.
SaveFails(r) ==
    /\ faults < MaxFaults
    /\ faults' = faults + 1
    /\ pc[r] \in Saves \cup {"fullUser", "fullKeys"} /\ backend = "file"
    /\ snap' = [snap EXCEPT ![r] = Empty]
    /\ Over(r)
    /\ UNCHANGED <<backend, store, file, running, given, doomed, revoked, crossed,
                   restarts>>

-----------------------------------------------------------------------------
(* Requests with a key.                                                    *)

\* Mutant of Check: a disabled key is as good as any.
CheckId(k) == store.keys[k] # Absent

Check(k) == store.keys[k] # Absent /\ ~ store.keys[k].disabled

\* GetUserByAPIKey reads the key, ...
CheckKey(r) ==
    /\ pc[r] = "check"
    /\ \/ /\ Check(key[r])
          /\ Goto(r, "owner")
          /\ UNCHANGED <<request, before>>
       \/ /\ ~ Check(key[r])
          /\ Over(r)
    /\ UNCHANGED <<backend, store, file, running, snap, given, doomed, revoked,
                   crossed, bounds>>

\* ... then the profile of its user.
CheckOwner(r) ==
    /\ pc[r] = "owner"
    /\ \/ /\ store.users[who[r]] # Absent
          /\ Goto(r, "serve")
          /\ UNCHANGED <<request, before>>
       \/ /\ store.users[who[r]] = Absent
          /\ Over(r)
    /\ UNCHANGED <<backend, store, file, running, snap, given, doomed, revoked,
                   crossed, bounds>>

\* A key of another scope is answered with an error first; its request is served
\* all the same.
Mismatch(r) == store.keys[key[r]].scope # Scope

Serve(r) ==
    /\ pc[r] = "serve"
    /\ Over(r)
    /\ UNCHANGED <<backend, store, file, running, snap, given, doomed, revoked,
                   crossed, bounds>>

-----------------------------------------------------------------------------
\* Mutant of Load: the error of the decoder is not looked at.
LoadAnyway == IF backend = "memory" THEN Empty ELSE file

Load == IF backend = "memory" \/ file = Unreadable THEN Empty ELSE file

\* The server stops, at any point of any request, and is started again; it
\* refuses to come up with a file it cannot read.
Restart ==
    /\ running /\ restarts < MaxRestarts
    /\ restarts' = restarts + 1
    /\ running' = (file # Unreadable)
    /\ store' = Load
    /\ pc' = [r \in Reqs |-> "idle"]
    /\ op' = [r \in Reqs |-> "use"]
    /\ who' = [r \in Reqs |-> Nobody]
    /\ key' = [r \in Reqs |-> NoKey]
    /\ copy' = [r \in Reqs |-> Absent]
    /\ snap' = [r \in Reqs |-> Empty]
    /\ before' = [r \in Reqs |-> {}]
    /\ UNCHANGED <<backend, file, given, doomed, revoked, crossed, faults>>

Login(r) ==
    \/ GetUser(r)
    \/ StoreUser(r)
    \/ NewAPIKey(r)
    \/ NewAPIKeyPanics(r)
    \/ DisableAPIKey(r)

Save(r) == SaveNothing(r) \/ SaveCreate(r) \/ SaveEncode(r) \/ SaveWrite(r) \/ SaveFails(r)

Use(r) == CheckKey(r) \/ CheckOwner(r) \/ Serve(r)

Next ==
    \/ \E r \in Reqs, u \in Users : Request(r, u)
    \/ \E r \in Reqs : Login(r)
    \/ \E r \in Reqs : Save(r)
    \/ \E r \in Reqs : Use(r)
    \/ Restart

Spec == Init /\ [][Next]_vars

-----------------------------------------------------------------------------
(* Properties.                                                             *)

TypeOK ==
    /\ backend \in {"file", "memory"}
    /\ store \in Stores
    /\ file \in Stores \cup {Unreadable}
    /\ running \in BOOLEAN
    /\ pc \in [Reqs -> {"idle", "user", "storeUser", "handle", "check", "owner",
                        "serve"} \cup Saves \cup Open]
    /\ op \in [Reqs -> Logins \cup {"use"}]
    /\ who \in [Reqs -> Users \cup {Nobody}]
    /\ key \in [Reqs -> Keys \cup {NoKey}]
    /\ copy \in [Reqs -> Profiles \cup {Absent}]
    /\ snap \in [Reqs -> Stores]
    /\ given \subseteq Keys /\ doomed \subseteq Keys /\ revoked \subseteq Keys
    /\ before \in [Reqs -> SUBSET Keys]
    /\ crossed \in BOOLEAN
    /\ restarts \in 0..MaxRestarts /\ faults \in 0..MaxFaults

\* A key whose secret its user was given is good after every step until the user asks
\* for it to be disabled, whatever other requests do and whichever writes fail; and after
\* a restart if and only if the file could be read.  It can, unless the stop came between
\* os.Create and the write (map.go:48-60) or an earlier write failed: then every key is
\* lost, and the server does not come up any more (map.go:160-166).  All of it as long
\* as saves do not overlap.
Works(k) ==
    running /\ Check(k) /\ store.users[store.keys[k].user] # Absent

GivenWorks ==
    [][running /\ ~ crossed' =>
          \A k \in given' \ doomed' :
              /\ Works(k)' <=> restarts' = restarts \/ file # Unreadable
              /\ faults = 0 => (file = Unreadable <=> \E r \in Reqs : pc[r] \in Open)]_vars

\* A request that arrived after its key was reported as disabled is never
\* served, not after a restart either, as long as saves do not overlap
\* (map.go:123-134, apikey.go:34-37).
RevokedRefused ==
    ~ crossed => \A r \in Reqs :
        pc[r] \in {"owner", "serve"} => key[r] \notin before[r]

\* "the provided API key is not valid for this action" (apikey.go:72) is not said
\* of a key that was made for this action, as the profile page does it
\* (user-profile.js:7).
MadeForUse ==
    \A r \in Reqs : pc[r] = "serve" => ~ Mismatch(r)
=============================================================================
