--------------------------- MODULE AccountsProofs ---------------------------
(***************************************************************************)
(* Proofs about Accounts, for any number of users, keys and handlers, and  *)
(* any bounds on restarts and failing writes.                              *)
(***************************************************************************)
EXTENDS Accounts, TLAPS

Labels == {"idle", "user", "storeUser", "handle", "check", "owner", "serve"}
              \cup Saves \cup Open

\* The store a server without a file starts from is one.
LEMMA EmptyStore == Empty \in Stores
  BY DEF Empty, Stores

\* What a server starting now would load is a store (map.go:73-92).
LEMMA LoadStore == file \in Stores \cup {Unreadable} => Load \in Stores
  BY EmptyStore DEF Load

\* Storing a profile, a new key or a disabled one gives a store again, and
\* changes nothing else in it.
WithProfile(m, u, c) == [m EXCEPT !.users[u] = c]

\* StoreUser changes the profile of one user, and no key.
LEMMA ProfileStored ==
    ASSUME NEW m \in Stores, NEW u \in Users, NEW c \in Profiles
    PROVE  /\ WithProfile(m, u, c) \in Stores
           /\ WithProfile(m, u, c).keys = m.keys
           /\ \A v \in Users :
                 WithProfile(m, u, c).users[v] = IF v = u THEN c ELSE m.users[v]
  BY DEF Stores, WithProfile

\* The store m with a under key k.
WithKey(m, k, a) == [m EXCEPT !.keys[k] = a]

\* A new key changes that key only, and no profile.
LEMMA KeyStored ==
    ASSUME NEW m \in Stores, NEW k \in Keys, NEW a \in APIKeys
    PROVE  /\ WithKey(m, k, a) \in Stores
           /\ WithKey(m, k, a).users = m.users
           /\ \A j \in Keys : WithKey(m, k, a).keys[j] = IF j = k THEN a ELSE m.keys[j]
  BY DEF Stores, WithKey

\* Disabling a key is to store it again with the mark set.
LEMMA KeyDisabled ==
    ASSUME NEW m \in Stores, NEW k \in Keys, m.keys[k] # Absent
    PROVE  \E a \in APIKeys :
              /\ a.disabled /\ a.user = m.keys[k].user
              /\ [m EXCEPT !.keys[k].disabled = TRUE] = WithKey(m, k, a)
  <1>1. m.keys[k] \in APIKeys
    BY DEF Stores
  <1>2. PICK a \in APIKeys : a = [m.keys[k] EXCEPT !.disabled = TRUE]
    BY <1>1 DEF APIKeys
  <1>3. a.disabled /\ a.user = m.keys[k].user
    BY <1>1, <1>2 DEF APIKeys
  <1>4. [m EXCEPT !.keys[k].disabled = TRUE] = WithKey(m, k, a)
    BY <1>2 DEF WithKey
  <1> QED
    BY <1>3, <1>4

-----------------------------------------------------------------------------
(* Where a request is says what it has.                                    *)

AtKeys == {"saveKeys", "openKeys", "fullKeys"}
AtUser == {"saveUser", "openUser", "fullUser"}

\* What a request has found so far.
InHand ==
    \A r \in Reqs :
        /\ pc[r] # "idle" => running /\ who[r] \in Users
        /\ pc[r] \in {"check", "owner", "serve"} => op[r] = "use" /\ key[r] \in Keys
        /\ pc[r] \in {"user", "storeUser", "handle"} \cup AtUser \cup AtKeys
              => op[r] \in Logins
        /\ pc[r] = "storeUser" => copy[r] \in Profiles
        /\ pc[r] \in {"handle"} \cup AtKeys => op[r] \in {"newKey", "disable"}
        /\ op[r] = "disable" \/ pc[r] \in AtKeys => key[r] \in Keys

Typed == TypeOK /\ InHand

\* Typed holds at first.
LEMMA InitTyped == Init => Typed
  <1> SUFFICES ASSUME Init PROVE TypeOK /\ InHand
    BY DEF Typed
  <1>1. 0 \in 0..MaxRestarts /\ 0 \in 0..MaxFaults
    BY BoundsAssumption
  <1>2. TypeOK
    BY <1>1, EmptyStore DEF Init, TypeOK
  <1>3. InHand
    BY DEF Init, InHand, AtKeys, AtUser
  <1> QED
    BY <1>2, <1>3

\* The end of a request leaves its variables typed.
LEMMA OverTyped ==
    ASSUME Typed, NEW r \in Reqs, Over(r)
    PROVE  /\ pc' \in [Reqs -> Labels]
           /\ op' \in [Reqs -> Logins \cup {"use"}]
           /\ who' \in [Reqs -> Users \cup {Nobody}]
           /\ key' \in [Reqs -> Keys \cup {NoKey}]
           /\ copy' \in [Reqs -> Profiles \cup {Absent}]
           /\ before' \in [Reqs -> SUBSET Keys]
           /\ pc'[r] = "idle" /\ op'[r] = "use" /\ before'[r] = {}
           /\ \A q \in Reqs \ {r} :
                 /\ pc'[q] = pc[q] /\ op'[q] = op[q] /\ who'[q] = who[q]
                 /\ key'[q] = key[q] /\ copy'[q] = copy[q] /\ before'[q] = before[q]
  BY DEF Over, Goto, Typed, TypeOK, Labels

\* So does what comes after a save.
LEMMA AfterSaveTyped ==
    ASSUME Typed, NEW r \in Reqs, pc[r] \in Saves \cup {"fullUser", "fullKeys"},
           AfterSave(r)
    PROVE  /\ pc' \in [Reqs -> Labels]
           /\ op' \in [Reqs -> Logins \cup {"use"}]
           /\ who' \in [Reqs -> Users \cup {Nobody}]
           /\ key' \in [Reqs -> Keys \cup {NoKey}]
           /\ copy' \in [Reqs -> Profiles \cup {Absent}]
           /\ before' \in [Reqs -> SUBSET Keys]
           /\ given' \subseteq Keys /\ revoked' \subseteq Keys
           /\ running' = running => InHand'
  <1> USE DEF Typed
  <1>1. CASE /\ pc[r] \in {"saveUser", "fullUser"} /\ op[r] # "callback"
             /\ Goto(r, "handle")
             /\ copy' = [copy EXCEPT ![r] = Absent]
             /\ UNCHANGED <<op, who, key, before, given, revoked>>
    BY <1>1 DEF Goto, TypeOK, InHand, Labels, Saves, Open, AtKeys, AtUser, Logins
  <1>2. CASE Over(r) /\ given' \subseteq Keys /\ revoked' \subseteq Keys
    BY <1>2, OverTyped DEF InHand, AtKeys, AtUser
  <1>3. ASSUME /\ pc[r] \in {"saveKeys", "fullKeys"}
               /\ given' = IF op[r] = "newKey" THEN given \cup {key[r]} ELSE given
               /\ revoked' = IF op[r] = "disable" /\ Owns(who[r], key[r])
                             THEN revoked \cup {key[r]} ELSE revoked
        PROVE  given' \subseteq Keys /\ revoked' \subseteq Keys
    BY <1>3 DEF TypeOK, InHand, AtKeys
  <1>4. given' \subseteq Keys /\ revoked' \subseteq Keys
    BY <1>3 DEF AfterSave, TypeOK
  <1>5. \/ Over(r)
        \/ /\ pc[r] \in {"saveUser", "fullUser"} /\ op[r] # "callback"
           /\ Goto(r, "handle")
           /\ copy' = [copy EXCEPT ![r] = Absent]
           /\ UNCHANGED <<op, who, key, before, given, revoked>>
    BY DEF AfterSave
  <1> QED
    BY <1>1, <1>2, <1>4, <1>5

\* DisableAPIKey marks the key of its owner, and changes nothing else.
LEMMA DisableStep ==
    ASSUME Typed, NEW r \in Reqs, DisableAPIKey(r), store' # store
    PROVE  /\ store' \in Stores
           /\ key[r] \in Keys /\ Owns(who[r], key[r])
           /\ store'.users = store.users
           /\ \E a \in APIKeys :
                 /\ a.disabled /\ a.user = store.keys[key[r]].user
                 /\ \A j \in Keys :
                       store'.keys[j] = IF j = key[r] THEN a ELSE store.keys[j]
  <1>1. /\ key[r] \in Keys
        /\ store \in Stores
    BY DEF DisableAPIKey, Typed, InHand, TypeOK
  <1>2. Owns(who[r], key[r]) /\ store.keys[key[r]] # Absent
    BY DEF DisableAPIKey, Owns
  <1>3. PICK a \in APIKeys :
           /\ a.disabled /\ a.user = store.keys[key[r]].user
           /\ [store EXCEPT !.keys[key[r]].disabled = TRUE] = WithKey(store, key[r], a)
    BY <1>1, <1>2, KeyDisabled
  <1>4. store' = WithKey(store, key[r], a)
    BY <1>3 DEF DisableAPIKey
  <1>5. /\ store' \in Stores
        /\ store'.users = store.users
        /\ \A j \in Keys : store'.keys[j] = IF j = key[r] THEN a ELSE store.keys[j]
    BY <1>1, <1>4, KeyStored
  <1> QED
    BY <1>1, <1>2, <1>3, <1>5

\* Every step keeps the types and what requests have in hand.
LEMMA StepTyped == Typed /\ [Next]_vars => Typed'
  <1> SUFFICES ASSUME Typed, [Next]_vars PROVE Typed'
    OBVIOUS
  <1> USE DEF Typed, Labels, Saves, Open, AtKeys, AtUser, Logins
  <1>1. CASE UNCHANGED vars
    BY <1>1 DEF vars, request, history, bounds, TypeOK, InHand
  <1>2. ASSUME NEW r \in Reqs, NEW u \in Users, NEW o \in Logins \cup {"use"},
               NEW k \in Keys \cup {NoKey}, Arrive(r, u, o, k),
               o \in {"use", "disable"} => k \in Keys
        PROVE  Typed'
    <2>1. doomed' \subseteq Keys
      <3>1. CASE o = "disable"
        BY <1>2, <3>1 DEF Arrive, TypeOK
      <3>2. CASE o # "disable"
        BY <1>2, <3>2 DEF Arrive, TypeOK
      <3> QED
        BY <3>1, <3>2
    <2>2. TypeOK'
      BY <1>2, <2>1 DEF Arrive, Goto, bounds, TypeOK
    <2>3. InHand'
      BY <1>2 DEF Arrive, Goto, bounds, TypeOK, InHand
    <2> QED
      BY <2>2, <2>3
  <1>3. ASSUME NEW r \in Reqs, NEW u \in Users, Request(r, u)
        PROVE  Typed'
    BY <1>2, <1>3 DEF Request
  <1>4. ASSUME NEW r \in Reqs, GetUser(r)
        PROVE  Typed'
    <2>1. TypeOK'
      BY <1>4 DEF GetUser, Goto, bounds, history, TypeOK, Profiles
    <2>2. InHand'
      BY <1>4 DEF GetUser, Goto, bounds, history, TypeOK, InHand, Profiles
    <2> QED
      BY <2>1, <2>2
  <1>5. ASSUME NEW r \in Reqs, StoreUser(r)
        PROVE  Typed'
    <2>1. /\ pc[r] = "storeUser" /\ pc' = [pc EXCEPT ![r] = "saveUser"]
          /\ store' = WithProfile(store, who[r], copy[r])
          /\ UNCHANGED <<backend, file, running, request, snap, history, bounds>>
      BY <1>5 DEF StoreUser, WithProfile, Goto
    <2>2. store' \in Stores
      BY <2>1, ProfileStored DEF TypeOK, InHand
    <2> QED
      BY <2>1, <2>2 DEF bounds, history, request, TypeOK, InHand
  <1>6. ASSUME NEW r \in Reqs, NewAPIKey(r)
        PROVE  Typed'
    <2>1. PICK k \in Keys :
             /\ store' = [store EXCEPT !.keys[k] =
                   [user |-> who[r], disabled |-> FALSE, scope |-> NoScope]]
             /\ key' = [key EXCEPT ![r] = k]
      BY <1>6 DEF NewAPIKey
    <2>2. [user |-> who[r], disabled |-> FALSE, scope |-> NoScope] \in APIKeys
      BY <1>6 DEF NewAPIKey, InHand, APIKeys
    <2>3. store' \in Stores
      BY <2>1, <2>2, KeyStored DEF TypeOK, WithKey
    <2> QED
      BY <1>6, <2>1, <2>3 DEF NewAPIKey, Goto, bounds, history, TypeOK, InHand
  <1>7. ASSUME NEW r \in Reqs, NewAPIKeyPanics(r)
        PROVE  Typed'
    BY <1>7, OverTyped DEF NewAPIKeyPanics, bounds, TypeOK, InHand
  <1>8. ASSUME NEW r \in Reqs, DisableAPIKey(r)
        PROVE  Typed'
    <2>1. store' \in Stores
      BY <1>8, DisableStep DEF DisableAPIKey, TypeOK
    <2> QED
      BY <1>8, <2>1 DEF DisableAPIKey, Goto, bounds, history, request, TypeOK, InHand
  <1>9. ASSUME NEW r \in Reqs, SaveNothing(r)
        PROVE  Typed'
    BY <1>9, AfterSaveTyped DEF SaveNothing, bounds, TypeOK
  <1>10. ASSUME NEW r \in Reqs, SaveCreate(r)
         PROVE  Typed'
    BY <1>10 DEF SaveCreate, Goto, bounds, request, TypeOK, InHand
  <1>11. ASSUME NEW r \in Reqs, SaveEncode(r)
         PROVE  Typed'
    BY <1>11 DEF SaveEncode, Goto, bounds, history, request, TypeOK, InHand
  <1>12. ASSUME NEW r \in Reqs, SaveWrite(r)
         PROVE  Typed'
    BY <1>12, EmptyStore, AfterSaveTyped DEF SaveWrite, bounds, TypeOK
  <1>13. ASSUME NEW r \in Reqs, SaveFails(r)
         PROVE  Typed'
    <2>1. faults + 1 \in 0..MaxFaults
      BY <1>13, BoundsAssumption DEF SaveFails, TypeOK
    <2> QED
      BY <1>13, <2>1, EmptyStore, OverTyped DEF SaveFails, TypeOK, InHand
  <1>14. ASSUME NEW r \in Reqs, CheckKey(r) \/ CheckOwner(r) \/ Serve(r)
         PROVE  Typed'
    <2>1. CASE Over(r) /\ UNCHANGED <<backend, store, file, running, snap, given, doomed,
                                      revoked, crossed, bounds>>
      BY <2>1, OverTyped DEF bounds, TypeOK, InHand
    <2>2. CASE CheckKey(r) /\ Goto(r, "owner") /\ UNCHANGED <<request, before>>
      BY <2>2 DEF CheckKey, Goto, bounds, request, TypeOK, InHand
    <2>3. CASE CheckOwner(r) /\ Goto(r, "serve") /\ UNCHANGED <<request, before>>
      BY <2>3 DEF CheckOwner, Goto, bounds, request, TypeOK, InHand
    <2> QED
      BY <1>14, <2>1, <2>2, <2>3 DEF CheckKey, CheckOwner, Serve
  <1>15. CASE Restart
    <2>1. restarts + 1 \in 0..MaxRestarts
      BY <1>15, BoundsAssumption DEF Restart, TypeOK
    <2> QED
      BY <1>15, <2>1, LoadStore, EmptyStore DEF Restart, TypeOK, InHand
  <1> QED
    BY <1>1, <1>3, <1>4, <1>5, <1>6, <1>7, <1>8, <1>9, <1>10, <1>11, <1>12, <1>13,
       <1>14, <1>15
    DEF Next, Login, Save, Use

\* Type correctness of the profiles, the keys and their requests.
THEOREM TypeCorrect == Spec => []TypeOK
  <1>1. Typed => TypeOK
    BY DEF Typed
  <1> QED
    BY <1>1, InitTyped, StepTyped, PTL DEF Spec

-----------------------------------------------------------------------------
(***************************************************************************)
(* The inductive invariant.  The store only grows until the server stops:  *)
(* a key stays with its user, a profile stays, and a key is disabled when  *)
(* its owner asks.  So what a request has put there before its save is in  *)
(* what the save encodes, and, while saves do not overlap, in whatever is  *)
(* in the file when the request is answered, and from then on.             *)
(***************************************************************************)
\* Store m has key k, and a profile for its owner.
HasKey(m, k) == m.keys[k] # Absent /\ m.users[m.keys[k].user] # Absent

\* Key k is disabled in store m.
DisabledIn(m, k) == m.keys[k] # Absent /\ m.keys[k].disabled

\* No store has a key disabled that nobody asked to be.
OnDemand(m) == \A k \in Keys : DisabledIn(m, k) => k \in doomed

\* That holds of the map, the file and what is about to be written.
DisabledOnDemand ==
    /\ OnDemand(store)
    /\ file # Unreadable => OnDemand(file)
    /\ \A r \in Reqs : OnDemand(snap[r])

\* What request r has found or put in the store, and what it saves of it.
DoneOf(r) ==
    /\ op[r] = "disable" =>
          /\ store.keys[key[r]] # Absent
          /\ Owns(who[r], key[r]) => key[r] \in doomed
    /\ pc[r] \in {"handle"} \cup AtUser \cup AtKeys => store.users[who[r]] # Absent
    /\ pc[r] \in AtKeys /\ op[r] = "newKey" => HasKey(store, key[r])
    /\ pc[r] = "fullKeys" /\ op[r] = "newKey" => HasKey(snap[r], key[r])
    /\ pc[r] \in AtKeys /\ op[r] = "disable" /\ Owns(who[r], key[r])
          => DisabledIn(store, key[r])
    /\ pc[r] = "fullKeys" /\ op[r] = "disable" /\ Owns(who[r], key[r])
          => DisabledIn(snap[r], key[r])

Done == \A r \in Reqs : DoneOf(r)

\* The store without a file has no keys.
NoKeysInMemory ==
    backend = "memory" =>
        /\ \A k \in Keys : store.keys[k] = Absent
        /\ \A r \in Reqs : pc[r] \notin Open /\ ~ (pc[r] \in AtKeys /\ op[r] = "newKey")

\* Where a save has the contents it is going to write.
Full == {"fullUser", "fullKeys"}

\* Unless saves have overlapped, one at a time has the file open.
OneOpen ==
    ~ crossed => \A q, r \in Reqs : pc[q] \in Open /\ pc[r] \in Open => q = r

\* Everything that was answered is in m.
Answered(m) ==
    /\ \A k \in given : HasKey(m, k)
    /\ \A k \in revoked : DisabledIn(m, k)

\* Unless saves have overlapped, no restart or late write takes an answer back.
AnswersKept ==
    ~ crossed =>
        /\ running => Answered(store)
        /\ file # Unreadable => Answered(file)
        /\ \A r \in Reqs : pc[r] \in Full => Answered(snap[r])

\* The keys a request knew to be disabled when it came were reported as such.
BeforeRevoked == \A r \in Reqs : before[r] \subseteq revoked

IInv ==
    /\ Typed /\ DisabledOnDemand /\ Done /\ NoKeysInMemory /\ OneOpen
    /\ AnswersKept /\ BeforeRevoked /\ RevokedRefused

\* How the store changes until the server stops.
StoreGrows ==
    /\ \A k \in Keys : store.keys[k] # Absent =>
          /\ store'.keys[k] # Absent
          /\ store'.keys[k].user = store.keys[k].user
          /\ store.keys[k].disabled => store'.keys[k].disabled
    /\ \A u \in Users : store.users[u] # Absent => store'.users[u] # Absent

\* A key that is there is an API key, of a user.
LEMMA KeyThere ==
    ASSUME NEW m \in Stores, NEW k \in Keys, m.keys[k] # Absent
    PROVE  m.keys[k] \in APIKeys /\ m.keys[k].user \in Users
  BY DEF Stores, APIKeys

\* So what was in the store, or disabled in it, still is, with the same owner.
LEMMA Grown ==
    ASSUME TypeOK, StoreGrows, NEW k \in Keys
    PROVE  /\ HasKey(store, k) => HasKey(store', k)
           /\ DisabledIn(store, k) => DisabledIn(store', k)
           /\ \A u : store.keys[k] # Absent => (Owns(u, k)' <=> Owns(u, k))
  BY KeyThere DEF TypeOK, StoreGrows, HasKey, DisabledIn, Owns

\* While others work, what a request has done stays done.
LEMMA OthersDone ==
    ASSUME IInv, StoreGrows, doomed \subseteq doomed', NEW q \in Reqs,
           pc'[q] = pc[q], op'[q] = op[q], who'[q] = who[q], key'[q] = key[q],
           snap'[q] = snap[q]
    PROVE  DoneOf(q)'
  <1>1. /\ TypeOK /\ DoneOf(q)
        /\ op[q] = "disable" \/ pc[q] \in AtKeys => key[q] \in Keys
        /\ pc[q] # "idle" => who[q] \in Users
    BY DEF IInv, Typed, InHand, Done
  <1>2. op[q] = "disable" =>
           /\ store'.keys[key[q]] # Absent
           /\ Owns(who[q], key[q])' <=> Owns(who[q], key[q])
    BY <1>1, Grown DEF DoneOf, StoreGrows, Owns
  <1>3. pc[q] \in {"handle"} \cup AtUser \cup AtKeys => store'.users[who[q]] # Absent
    BY <1>1 DEF DoneOf, StoreGrows, AtUser, AtKeys
  <1>4. pc[q] \in AtKeys /\ op[q] = "newKey" => HasKey(store', key[q])
    BY <1>1, Grown DEF DoneOf
  <1>5. pc[q] \in AtKeys /\ op[q] = "disable" /\ Owns(who[q], key[q])
           => DisabledIn(store', key[q])
    BY <1>1, Grown DEF DoneOf
  <1> QED
    BY <1>1, <1>2, <1>3, <1>4, <1>5 DEF DoneOf, HasKey, DisabledIn, Owns

\* A step of request r that answers nothing: the others have what they had, and
\* what is saved and in the file is what it was, or is being saved from the store.
LEMMA RequestMoves ==
    ASSUME IInv, Typed', NEW r \in Reqs,
           UNCHANGED <<backend, running, given, revoked>>,
           crossed => crossed',
           doomed \subseteq doomed', StoreGrows, OnDemand(store)',
           file' \in {file, Unreadable},
           \A q \in Reqs \ {r} :
              /\ pc'[q] = pc[q] /\ op'[q] = op[q] /\ who'[q] = who[q]
              /\ key'[q] = key[q] /\ before'[q] = before[q] /\ snap'[q] = snap[q],
           snap'[r] \in {snap[r], Empty, store},
           DoneOf(r)',
           pc'[r] \in Full => /\ pc[r] \in Open
                              /\ \/ pc[r] \in Full /\ snap'[r] = snap[r]
                                 \/ snap'[r] = store,
           pc'[r] \in Open /\ ~ crossed' => pc[r] \in Open \/ \A q \in Reqs : pc[q] \notin Open,
           before'[r] \subseteq revoked,
           pc'[r] \in {"owner", "serve"} /\ ~ crossed' => key'[r] \notin before'[r],
           backend = "memory" => /\ \A k \in Keys : store'.keys[k] = Absent
                                 /\ pc'[r] \notin Open
                                 /\ ~ (pc'[r] \in AtKeys /\ op'[r] = "newKey")
    PROVE  IInv'
  <1>1. Done'
    BY OthersDone DEF Done
  <1>2. DisabledOnDemand'
    <2>1. OnDemand(Empty)
      BY DEF OnDemand, DisabledIn, Empty
    <2>2. \A m : OnDemand(m) => \A k \in Keys : DisabledIn(m, k) => k \in doomed'
      BY DEF OnDemand
    <2>3. \A q \in Reqs : OnDemand(snap'[q])
      BY <2>1 DEF IInv, DisabledOnDemand
    <2>4. file' # Unreadable => OnDemand(file')
      BY DEF IInv, DisabledOnDemand
    <2> QED
      BY <2>2, <2>3, <2>4 DEF DisabledOnDemand, OnDemand, DisabledIn
  <1>3. NoKeysInMemory'
    BY DEF IInv, NoKeysInMemory
  <1>4. OneOpen'
    BY DEF IInv, OneOpen
  <1>5. AnswersKept'
    <2> SUFFICES ASSUME ~ crossed' PROVE AnswersKept'
      BY DEF AnswersKept
    <2>1. \A m : Answered(m)' <=> Answered(m)
      BY DEF Answered, HasKey, DisabledIn
    <2>2. running => Answered(store')
      <3>1. given \subseteq Keys /\ revoked \subseteq Keys
        BY DEF IInv, Typed, TypeOK
      <3> QED
        BY <3>1, Grown DEF IInv, Typed, AnswersKept, Answered
    <2>3. file' # Unreadable => Answered(file')
      BY DEF IInv, AnswersKept
    <2>4. ASSUME NEW q \in Reqs, pc'[q] \in Full
          PROVE  Answered(snap'[q])
      <3>1. pc[r] \in Open => running
        BY DEF IInv, Typed, InHand, Open
      <3> QED
        BY <2>4, <3>1 DEF IInv, AnswersKept
    <2> QED
      BY <2>2, <2>3, <2>4 DEF AnswersKept, Answered, HasKey, DisabledIn
  <1>6. BeforeRevoked'
    BY DEF IInv, BeforeRevoked
  <1>7. RevokedRefused'
    BY DEF IInv, RevokedRefused
  <1> QED
    BY <1>1, <1>2, <1>3, <1>4, <1>5, <1>6, <1>7 DEF IInv

\* IInv holds at first.
LEMMA InitIInv == Init => IInv
  <1> SUFFICES ASSUME Init PROVE IInv
    OBVIOUS
  <1>1. Typed
    BY InitTyped
  <1>2. OnDemand(Empty) /\ \A k \in Keys : Empty.keys[k] = Absent
    BY DEF OnDemand, DisabledIn, Empty
  <1>3. DisabledOnDemand /\ NoKeysInMemory
    BY <1>2 DEF Init, DisabledOnDemand, NoKeysInMemory, Open, AtKeys
  <1>4. Done
    BY DEF Init, Done, DoneOf, AtUser, AtKeys
  <1>5. OneOpen /\ AnswersKept /\ BeforeRevoked /\ RevokedRefused
    BY DEF Init, OneOpen, AnswersKept, Answered, BeforeRevoked, RevokedRefused, Full, Open
  <1> QED
    BY <1>1, <1>3, <1>4, <1>5 DEF IInv

\* A store that stays has grown, and is disabled on demand only.
LEMMA StoreAlone ==
    ASSUME IInv, store' = store, doomed \subseteq doomed'
    PROVE  StoreGrows /\ OnDemand(store)'
  BY DEF IInv, DisabledOnDemand, StoreGrows, OnDemand, DisabledIn

\* What comes after the save of request r: the handler or an answer, and only
\* what was saved is answered.
LEMMA Saved ==
    ASSUME IInv, NEW r \in Reqs, pc[r] \in Saves \cup Full, AfterSave(r),
           UNCHANGED <<store, doomed>>
    PROVE  /\ pc'[r] \in {"idle", "handle"}
           /\ DoneOf(r)'
           /\ before'[r] \subseteq before[r]
           /\ \A q \in Reqs \ {r} :
                 /\ pc'[q] = pc[q] /\ op'[q] = op[q] /\ who'[q] = who[q]
                 /\ key'[q] = key[q] /\ before'[q] = before[q]
           /\ given \subseteq given' /\ revoked \subseteq revoked'
           /\ pc[r] \in Full =>
                 /\ \A k \in given' :
                       k \in given \/ (HasKey(store, k) /\ HasKey(snap[r], k))
                 /\ \A k \in revoked' :
                       k \in revoked \/ (DisabledIn(store, k) /\ DisabledIn(snap[r], k))
  <1>1. Typed /\ TypeOK /\ DoneOf(r)
    BY DEF IInv, Typed, Done
  <1>2. CASE /\ pc[r] \in {"saveUser", "fullUser"}
             /\ Goto(r, "handle")
             /\ UNCHANGED <<op, who, key, before, given, revoked>>
    <2>1. pc'[r] = "handle" /\ \A q \in Reqs \ {r} : pc'[q] = pc[q]
      BY <1>1, <1>2 DEF Goto, TypeOK
    <2>2. DoneOf(r)'
      BY <1>1, <1>2, <2>1 DEF DoneOf, Owns, AtUser, AtKeys
    <2> QED
      BY <1>2, <2>1, <2>2
  <1>3. CASE /\ pc[r] \in {"saveUser", "fullUser"} /\ Over(r)
             /\ UNCHANGED <<given, revoked>>
    <2>1. /\ pc'[r] = "idle" /\ op'[r] = "use" /\ before'[r] = {}
          /\ \A q \in Reqs \ {r} :
                /\ pc'[q] = pc[q] /\ op'[q] = op[q] /\ who'[q] = who[q]
                /\ key'[q] = key[q] /\ before'[q] = before[q]
      BY <1>1, <1>3, OverTyped
    <2>2. DoneOf(r)'
      BY <2>1 DEF DoneOf, AtUser, AtKeys
    <2> QED
      BY <1>3, <2>1, <2>2
  <1>4. CASE /\ pc[r] \in {"saveKeys", "fullKeys"}
             /\ given' = IF op[r] = "newKey" THEN given \cup {key[r]} ELSE given
             /\ revoked' = IF op[r] = "disable" /\ Owns(who[r], key[r])
                           THEN revoked \cup {key[r]} ELSE revoked
             /\ Over(r)
    <2>1. /\ pc'[r] = "idle" /\ op'[r] = "use" /\ before'[r] = {}
          /\ \A q \in Reqs \ {r} :
                /\ pc'[q] = pc[q] /\ op'[q] = op[q] /\ who'[q] = who[q]
                /\ key'[q] = key[q] /\ before'[q] = before[q]
      BY <1>1, <1>4, OverTyped
    <2>2. DoneOf(r)'
      BY <2>1 DEF DoneOf, AtUser, AtKeys
    <2>3. ASSUME pc[r] \in Full
          PROVE  pc[r] = "fullKeys" /\ pc[r] \in AtKeys
      BY <1>4, <2>3 DEF AtKeys, Full
    <2>4. ASSUME pc[r] \in Full, NEW k \in given'
          PROVE  k \in given \/ (HasKey(store, k) /\ HasKey(snap[r], k))
      <3>1. k \in given \/ (op[r] = "newKey" /\ k = key[r])
        BY <1>4, <2>4
      <3> QED
        BY <1>1, <2>3, <2>4, <3>1 DEF DoneOf
    <2>5. ASSUME pc[r] \in Full, NEW k \in revoked'
          PROVE  k \in revoked \/ (DisabledIn(store, k) /\ DisabledIn(snap[r], k))
      <3>1. k \in revoked \/ (op[r] = "disable" /\ Owns(who[r], key[r]) /\ k = key[r])
        BY <1>4, <2>5
      <3> QED
        BY <1>1, <2>3, <2>5, <3>1 DEF DoneOf
    <2> QED
      BY <1>4, <2>1, <2>2, <2>4, <2>5
  <1> QED
    BY <1>2, <1>3, <1>4 DEF AfterSave

\* Every step keeps IInv.
LEMMA StepIInv == IInv /\ [Next]_vars => IInv'
  <1> SUFFICES ASSUME IInv, [Next]_vars PROVE IInv'
    OBVIOUS
  <1>0. /\ Typed /\ Typed' /\ TypeOK /\ TypeOK' /\ InHand
        /\ Done /\ NoKeysInMemory /\ OneOpen /\ BeforeRevoked /\ RevokedRefused
        /\ AnswersKept /\ DisabledOnDemand
    BY StepTyped DEF IInv, Typed
  <1>1. CASE UNCHANGED vars
    <2>1. UNCHANGED <<backend, store, file, running, pc, op, who, key, copy, snap, given,
                      doomed, revoked, before, crossed, restarts, faults>>
      BY <1>1 DEF vars, request, history, bounds
    <2>2. DisabledOnDemand'
      BY <1>0, <2>1 DEF DisabledOnDemand, OnDemand, DisabledIn
    <2>3. Done'
      BY <1>0, <2>1 DEF Done, DoneOf, HasKey, DisabledIn, Owns
    <2>4. NoKeysInMemory' /\ OneOpen' /\ BeforeRevoked' /\ RevokedRefused'
      BY <1>0, <2>1 DEF NoKeysInMemory, OneOpen, BeforeRevoked, RevokedRefused
    <2>5. AnswersKept'
      BY <1>0, <2>1 DEF AnswersKept, Answered, HasKey, DisabledIn
    <2> QED
      BY <1>0, <2>2, <2>3, <2>4, <2>5 DEF IInv
  <1>2. ASSUME NEW r \in Reqs, NEW u \in Users, NEW o \in Logins \cup {"use"},
               NEW k \in Keys \cup {NoKey}, Arrive(r, u, o, k),
               o \in {"use", "disable"} => k \in Keys /\ store.keys[k] # Absent
        PROVE  IInv'
    <2>1. /\ pc' = [pc EXCEPT ![r] = IF o = "use" THEN "check" ELSE "user"]
          /\ op' = [op EXCEPT ![r] = o]
          /\ who' = [who EXCEPT ![r] = u]
          /\ key' = [key EXCEPT ![r] = k]
          /\ before' = [before EXCEPT ![r] = revoked]
          /\ doomed' = IF o = "disable" /\ store.keys[k] # Absent /\ store.keys[k].user = u
                       THEN doomed \cup {k} ELSE doomed
          /\ UNCHANGED <<backend, store, file, running, snap, given, revoked, crossed>>
      BY <1>2 DEF Arrive, Goto
    <2>2. doomed \subseteq doomed' /\ StoreGrows /\ OnDemand(store)'
      BY <2>1, StoreAlone
    <2>3. DoneOf(r)'
      BY <1>0, <1>2, <2>1 DEF DoneOf, Owns, TypeOK, AtUser, AtKeys
    <2> QED
      BY <1>0, <2>1, <2>2, <2>3, RequestMoves
      DEF TypeOK, NoKeysInMemory, Full, Open, AtKeys
  <1>3. ASSUME NEW r \in Reqs, NEW u \in Users, Request(r, u)
        PROVE  IInv'
    BY <1>2, <1>3 DEF Request, Logins
  <1>4. ASSUME NEW r \in Reqs, GetUser(r)
        PROVE  IInv'
    <2>1. /\ pc[r] = "user" /\ pc'[r] \in {"storeUser", "handle"}
          /\ pc'[r] = "handle" => store.users[who[r]] # Absent
          /\ \A q \in Reqs \ {r} : pc'[q] = pc[q]
          /\ UNCHANGED <<backend, store, file, running, op, who, key, before, snap, given,
                         doomed, revoked, crossed>>
      BY <1>0, <1>4 DEF GetUser, Goto, history, TypeOK
    <2>2. StoreGrows /\ OnDemand(store)'
      BY <2>1, StoreAlone
    <2>3. DoneOf(r)'
      BY <1>0, <2>1 DEF Done, DoneOf, Owns, AtUser, AtKeys
    <2> QED
      BY <1>0, <2>1, <2>2, <2>3, RequestMoves
      DEF BeforeRevoked, NoKeysInMemory, Full, Open, AtKeys
  <1>5. ASSUME NEW r \in Reqs, StoreUser(r)
        PROVE  IInv'
    <2>1. /\ pc[r] = "storeUser" /\ pc' = [pc EXCEPT ![r] = "saveUser"]
          /\ store' = WithProfile(store, who[r], copy[r])
          /\ who[r] \in Users /\ copy[r] \in Profiles
          /\ UNCHANGED <<backend, file, running, op, who, key, before, snap, given,
                         doomed, revoked, crossed>>
      BY <1>0, <1>5 DEF StoreUser, WithProfile, Goto, history, request, InHand
    <2>2. /\ store'.keys = store.keys
          /\ \A v \in Users : store'.users[v] = IF v = who[r] THEN copy[r] ELSE store.users[v]
      BY <1>0, <2>1, ProfileStored DEF TypeOK
    <2>3. copy[r] # Absent
      BY <2>1, NamesAssumption
    <2>4. StoreGrows
      BY <2>2, <2>3 DEF StoreGrows
    <2>5. OnDemand(store)'
      BY <1>0, <2>1, <2>2 DEF DisabledOnDemand, OnDemand, DisabledIn
    <2>6. DoneOf(r)'
      BY <1>0, <2>1, <2>2, <2>3 DEF Done, DoneOf, Owns, TypeOK, AtUser, AtKeys
    <2> QED
      BY <1>0, <2>1, <2>2, <2>4, <2>5, <2>6, RequestMoves
      DEF TypeOK, BeforeRevoked, NoKeysInMemory, Full, Open, AtKeys
  <1>6. ASSUME NEW r \in Reqs, NewAPIKey(r)
        PROVE  IInv'
    <2>1. PICK k \in Keys :
             /\ store.keys[k] = Absent
             /\ store' = WithKey(store, k,
                   [user |-> who[r], disabled |-> FALSE, scope |-> NoScope])
             /\ key' = [key EXCEPT ![r] = k]
      BY <1>6 DEF NewAPIKey, WithKey
    <2>2. /\ pc[r] = "handle" /\ pc' = [pc EXCEPT ![r] = "saveKeys"]
          /\ op[r] = "newKey" /\ backend = "file"
          /\ who[r] \in Users
          /\ UNCHANGED <<backend, file, running, op, who, before, snap, given,
                         doomed, revoked, crossed>>
      BY <1>0, <1>6 DEF NewAPIKey, Goto, history, InHand
    <2>3. [user |-> who[r], disabled |-> FALSE, scope |-> NoScope] \in APIKeys
      BY <2>2 DEF APIKeys
    <2>9. PICK a \in APIKeys :
             a = [user |-> who[r], disabled |-> FALSE, scope |-> NoScope]
      BY <2>3
    <2>10. a # Absent /\ a.user = who[r] /\ ~ a.disabled
      BY <2>9, NamesAssumption
    <2>11. store' = WithKey(store, k, a)
      BY <2>1, <2>9
    <2>4. /\ store'.users = store.users
          /\ \A j \in Keys : store'.keys[j] = IF j = k THEN a ELSE store.keys[j]
      BY <1>0, <2>11, KeyStored DEF TypeOK
    <2>5. StoreGrows
      BY <2>1, <2>4 DEF StoreGrows
    <2>6. OnDemand(store)'
      BY <1>0, <2>2, <2>10, <2>4 DEF DisabledOnDemand, OnDemand, DisabledIn
    <2>7. DoneOf(r)'
      <3>1. key'[r] = k /\ pc'[r] = "saveKeys" /\ op'[r] = "newKey" /\ who'[r] = who[r]
        BY <1>0, <2>1, <2>2 DEF TypeOK
      <3>2. store'.users[who[r]] # Absent
        BY <1>0, <2>2, <2>4 DEF Done, DoneOf
      <3>3. HasKey(store', k)
        BY <2>4, <2>10, <3>2 DEF HasKey
      <3> QED
        BY <3>1, <3>2, <3>3 DEF DoneOf, AtUser, AtKeys, HasKey
    <2> QED
      BY <1>0, <2>1, <2>2, <2>5, <2>6, <2>7, RequestMoves
      DEF TypeOK, BeforeRevoked, NoKeysInMemory, Full, Open, AtKeys
  <1>7. ASSUME NEW r \in Reqs, DisableAPIKey(r)
        PROVE  IInv'
    <2>1. /\ pc[r] = "handle" /\ pc' = [pc EXCEPT ![r] = "saveKeys"]
          /\ op[r] = "disable" /\ key[r] \in Keys
          /\ UNCHANGED <<backend, file, running, op, who, key, before, snap, given,
                         doomed, revoked, crossed>>
      BY <1>0, <1>7 DEF DisableAPIKey, Goto, history, request, InHand
    <2>2. /\ store.keys[key[r]] # Absent
          /\ Owns(who[r], key[r]) => key[r] \in doomed
          /\ store.users[who[r]] # Absent
          /\ who[r] \in Users
      BY <1>0, <2>1 DEF Done, DoneOf, InHand
    <2>3. /\ StoreGrows /\ OnDemand(store)'
          /\ Owns(who[r], key[r]) => DisabledIn(store', key[r])
          /\ store'.users = store.users
      <3>1. CASE store' # store
        <4>1. PICK a \in APIKeys :
                 /\ a.disabled /\ a.user = store.keys[key[r]].user
                 /\ store'.users = store.users
                 /\ \A j \in Keys :
                       store'.keys[j] = IF j = key[r] THEN a ELSE store.keys[j]
          BY <1>0, <1>7, <3>1, DisableStep
        <4>2. Owns(who[r], key[r])
          BY <1>0, <1>7, <3>1, DisableStep
        <4>3. a # Absent
          BY NamesAssumption
        <4>4. StoreGrows
          BY <2>2, <4>1, <4>3 DEF StoreGrows
        <4>5. OnDemand(store)'
          BY <1>0, <2>1, <2>2, <4>1, <4>2 DEF DisabledOnDemand, OnDemand, DisabledIn
        <4>6. DisabledIn(store', key[r])
          BY <2>1, <4>1, <4>3 DEF DisabledIn
        <4> QED
          BY <4>1, <4>4, <4>5, <4>6
      <3>2. CASE store' = store
        <4>1. Owns(who[r], key[r]) => DisabledIn(store, key[r])
          <5> SUFFICES ASSUME Owns(who[r], key[r])
                       PROVE  DisabledIn(store, key[r])
            OBVIOUS
          <5>1. PICK a \in APIKeys :
                   /\ a.disabled
                   /\ [store EXCEPT !.keys[key[r]].disabled = TRUE]
                          = WithKey(store, key[r], a)
            BY <1>0, <2>1, <2>2, KeyDisabled DEF TypeOK
          <5>2. store = WithKey(store, key[r], a)
            BY <1>7, <3>2, <5>1 DEF DisableAPIKey
          <5>3. store.keys[key[r]] = a
            BY <1>0, <2>1, <5>2, KeyStored DEF TypeOK
          <5> QED
            BY <2>2, <5>1, <5>3 DEF DisabledIn
        <4> QED
          BY <2>1, <3>2, <4>1, StoreAlone DEF DisabledIn
      <3> QED
        BY <3>1, <3>2
    <2>4. Owns(who[r], key[r])' <=> Owns(who[r], key[r])
      BY <1>0, <2>1, <2>2, <2>3, Grown DEF Owns
    <2>5. DoneOf(r)'
      BY <1>0, <2>1, <2>2, <2>3, <2>4
      DEF DoneOf, StoreGrows, HasKey, DisabledIn, TypeOK, AtUser, AtKeys
    <2>6. backend = "memory" => FALSE
      BY <1>0, <2>1, <2>2 DEF NoKeysInMemory
    <2> QED
      BY <1>0, <2>1, <2>3, <2>5, <2>6, RequestMoves
      DEF TypeOK, BeforeRevoked, Full, Open
  \* The end of a request that answers nothing.
  <1>8. ASSUME NEW r \in Reqs, Over(r), file' = file, snap'[r] \in {snap[r], Empty},
               \A q \in Reqs \ {r} : snap'[q] = snap[q],
               UNCHANGED <<backend, store, running, given, doomed, revoked, crossed>>
        PROVE  IInv'
    <2>1. /\ pc'[r] = "idle" /\ op'[r] = "use" /\ before'[r] = {}
          /\ \A q \in Reqs \ {r} :
                /\ pc'[q] = pc[q] /\ op'[q] = op[q] /\ who'[q] = who[q]
                /\ key'[q] = key[q] /\ before'[q] = before[q]
      BY <1>0, <1>8, OverTyped
    <2>2. StoreGrows /\ OnDemand(store)'
      BY <1>8, StoreAlone
    <2>3. DoneOf(r)'
      BY <2>1 DEF DoneOf, AtUser, AtKeys
    <2> QED
      BY <1>0, <1>8, <2>1, <2>2, <2>3, RequestMoves DEF NoKeysInMemory, Full, Open
  <1>9. ASSUME NEW r \in Reqs, NewAPIKeyPanics(r) \/ Serve(r)
        PROVE  IInv'
    BY <1>8, <1>9 DEF NewAPIKeyPanics, Serve
  <1>10. ASSUME NEW r \in Reqs, SaveFails(r)
         PROVE  IInv'
    BY <1>0, <1>8, <1>10 DEF SaveFails, TypeOK
  <1>11. ASSUME NEW r \in Reqs, CheckKey(r) \/ CheckOwner(r)
         PROVE  IInv'
    <2>1. CASE Over(r)
      BY <1>8, <1>11, <2>1 DEF CheckKey, CheckOwner
    <2>2. CASE /\ \/ CheckKey(r) /\ Check(key[r]) /\ Goto(r, "owner")
                  \/ CheckOwner(r) /\ Goto(r, "serve")
               /\ UNCHANGED <<request, before>>
      <3>1. /\ pc[r] \in {"check", "owner"} /\ pc'[r] \in {"owner", "serve"}
            /\ pc[r] = "check" => Check(key[r])
            /\ op[r] = "use" /\ key[r] \in Keys /\ running
            /\ \A q \in Reqs \ {r} : pc'[q] = pc[q]
            /\ UNCHANGED <<backend, store, file, running, op, who, key, before, snap, given,
                           doomed, revoked, crossed>>
        BY <1>0, <2>2 DEF CheckKey, CheckOwner, Goto, request, TypeOK, InHand
      <3>2. StoreGrows /\ OnDemand(store)'
        BY <3>1, StoreAlone
      <3>3. DoneOf(r)'
        BY <3>1 DEF DoneOf, AtUser, AtKeys
      <3>4. ~ crossed => key[r] \notin before[r]
        <4>1. CASE pc[r] = "owner"
          BY <1>0, <4>1 DEF RevokedRefused
        <4>2. CASE pc[r] = "check"
          BY <1>0, <3>1, <4>2 DEF Check, BeforeRevoked, AnswersKept, Answered, DisabledIn
        <4> QED
          BY <3>1, <4>1, <4>2
      <3> QED
        BY <1>0, <3>1, <3>2, <3>3, <3>4, RequestMoves
        DEF BeforeRevoked, NoKeysInMemory, Full, Open, AtKeys
    <2> QED
      BY <1>11, <2>1, <2>2 DEF CheckKey, CheckOwner
  <1>12. ASSUME NEW r \in Reqs, SaveCreate(r) \/ SaveEncode(r)
         PROVE  IInv'
    <2>1. /\ backend = "file"
          /\ \/ pc[r] \in {"saveUser", "openUser"} /\ pc'[r] \in {"openUser", "fullUser"}
             \/ pc[r] \in {"saveKeys", "openKeys"} /\ pc'[r] \in {"openKeys", "fullKeys"}
          /\ \A q \in Reqs \ {r} : pc'[q] = pc[q] /\ snap'[q] = snap[q]
          /\ file' \in {file, Unreadable}
          /\ pc'[r] \in Full => pc[r] \in Open /\ snap'[r] = store
          /\ snap'[r] \in {snap[r], store}
          /\ crossed => crossed'
          /\ ~ crossed' /\ pc[r] \notin Open => \A q \in Reqs : pc[q] \notin Open
          /\ UNCHANGED <<backend, store, running, op, who, key, before, given,
                         doomed, revoked>>
      BY <1>0, <1>12 DEF SaveCreate, SaveEncode, Goto, request, history, TypeOK, Full, Open,
                         Saves, NoKeysInMemory
    <2>2. StoreGrows /\ OnDemand(store)'
      BY <2>1, StoreAlone
    <2>3. DoneOf(r)'
      BY <1>0, <2>1 DEF Done, DoneOf, HasKey, DisabledIn, Owns, AtUser, AtKeys, Full
    <2> QED
      BY <1>0, <2>1, <2>2, <2>3, RequestMoves
      DEF BeforeRevoked
  <1>13. ASSUME NEW r \in Reqs, SaveNothing(r)
         PROVE  IInv'
    <2>1. /\ backend = "memory" /\ pc[r] \in Saves /\ AfterSave(r)
          /\ UNCHANGED <<backend, store, file, running, snap, doomed, crossed>>
      BY <1>13 DEF SaveNothing
    <2>2. given' = given /\ revoked' = revoked
      <3>1. pc[r] \in AtKeys => op[r] # "newKey"
        BY <1>0, <2>1 DEF NoKeysInMemory
      <3>2. op[r] = "disable" => ~ Owns(who[r], key[r])
        BY <1>0, <2>1 DEF NoKeysInMemory, Owns, InHand
      <3> QED
        BY <2>1, <3>1, <3>2 DEF AfterSave, Saves, AtKeys
    <2>3. StoreGrows /\ OnDemand(store)'
      BY <2>1, StoreAlone
    <2>4. /\ pc'[r] \in {"idle", "handle"} /\ DoneOf(r)'
          /\ before'[r] \subseteq before[r]
          /\ \A q \in Reqs \ {r} :
                /\ pc'[q] = pc[q] /\ op'[q] = op[q] /\ who'[q] = who[q]
                /\ key'[q] = key[q] /\ before'[q] = before[q]
      BY <2>1, Saved
    <2>5. /\ pc'[r] \notin Open \cup Full \cup AtKeys \cup {"owner", "serve"}
          /\ before'[r] \subseteq revoked
          /\ \A k \in Keys : store'.keys[k] = Absent
      BY <1>0, <2>1, <2>4 DEF Full, Open, AtKeys, BeforeRevoked, NoKeysInMemory
    <2> QED
      BY <1>0, <2>1, <2>2, <2>3, <2>4, <2>5, RequestMoves
  <1>14. ASSUME NEW r \in Reqs, SaveWrite(r)
         PROVE  IInv'
    <2>1. /\ pc[r] \in Full /\ AfterSave(r)
          /\ file' = snap[r]
          /\ snap' = [snap EXCEPT ![r] = Empty]
          /\ UNCHANGED <<backend, store, running, doomed, crossed>>
      BY <1>14 DEF SaveWrite, Full
    <2>2. StoreGrows
      BY <2>1, StoreAlone
    <2>3. /\ running /\ pc[r] \in Open
          /\ backend # "memory"
      BY <1>0, <2>1 DEF InHand, Full, Open, NoKeysInMemory
    <2>4. Done'
      BY <1>0, <2>1, <2>2, Saved, OthersDone DEF Done, TypeOK
    <2>5. DisabledOnDemand'
      <3>1. OnDemand(Empty)
        BY DEF OnDemand, DisabledIn, Empty
      <3>2. \A m : OnDemand(m)' <=> OnDemand(m)
        BY <2>1 DEF OnDemand, DisabledIn
      <3>3. \A q \in Reqs : OnDemand(snap'[q])
        BY <1>0, <2>1, <3>1 DEF DisabledOnDemand, TypeOK
      <3> QED
        BY <1>0, <2>1, <3>2, <3>3 DEF DisabledOnDemand, OnDemand, DisabledIn
    <2>6. NoKeysInMemory'
      BY <2>1, <2>3 DEF NoKeysInMemory
    <2>7. OneOpen'
      BY <1>0, <2>1, Saved DEF OneOpen, Open, Full
    <2>8. AnswersKept'
      <3> SUFFICES ASSUME ~ crossed PROVE AnswersKept'
        BY <2>1 DEF AnswersKept
      <3>1. Answered(store) /\ Answered(snap[r])
        BY <1>0, <2>1, <2>3 DEF AnswersKept
      <3>2. \A k \in given' : k \in given \/ (HasKey(store, k) /\ HasKey(snap[r], k))
        BY <1>0, <2>1, Saved DEF Full
      <3>3. \A k \in revoked' :
               k \in revoked \/ (DisabledIn(store, k) /\ DisabledIn(snap[r], k))
        BY <1>0, <2>1, Saved DEF Full
      <3>4. Answered(store)' /\ Answered(file)'
        BY <2>1, <3>1, <3>2, <3>3 DEF Answered, HasKey, DisabledIn
      <3>5. \A q \in Reqs : pc'[q] \notin Full
        BY <1>0, <2>1, <2>3, Saved DEF OneOpen, Full, Open
      <3> QED
        BY <3>4, <3>5 DEF AnswersKept
    <2>9. BeforeRevoked'
      BY <1>0, <2>1, Saved DEF BeforeRevoked
    <2>10. RevokedRefused'
      BY <1>0, <2>1, Saved DEF RevokedRefused
    <2> QED
      BY <1>0, <2>4, <2>5, <2>6, <2>7, <2>8, <2>9, <2>10 DEF IInv
  <1>15. CASE Restart
    <2>1. /\ running' = (file # Unreadable) /\ store' = Load
          /\ UNCHANGED <<backend, file, given, doomed, revoked, crossed>>
          /\ \A r \in Reqs : /\ pc'[r] = "idle" /\ op'[r] = "use"
                             /\ snap'[r] = Empty /\ before'[r] = {}
      BY <1>15 DEF Restart
    <2>2. Done' /\ OneOpen' /\ BeforeRevoked' /\ RevokedRefused'
      BY <2>1 DEF Done, DoneOf, OneOpen, BeforeRevoked, RevokedRefused, AtUser, AtKeys, Open
    <2>3. NoKeysInMemory'
      BY <2>1 DEF NoKeysInMemory, Load, Empty, Open, AtKeys
    <2>4. DisabledOnDemand'
      <3>1. OnDemand(Empty)
        BY DEF OnDemand, DisabledIn, Empty
      <3>2. OnDemand(Load)
        BY <1>0, <3>1 DEF DisabledOnDemand, Load
      <3> QED
        BY <1>0, <2>1, <3>1, <3>2 DEF DisabledOnDemand, OnDemand, DisabledIn
    <2>5. AnswersKept'
      <3> SUFFICES ASSUME ~ crossed PROVE AnswersKept'
        BY <2>1 DEF AnswersKept
      <3>1. file # Unreadable => Answered(file)
        BY <1>0 DEF AnswersKept
      <3>2. file # Unreadable => Answered(Load)
        <4>1. CASE backend = "memory"
          <5>1. Answered(store) /\ \A k \in Keys : store.keys[k] = Absent
            BY <1>0, <1>15, <4>1 DEF Restart, AnswersKept, NoKeysInMemory
          <5>2. given = {} /\ revoked = {}
            BY <1>0, <5>1 DEF TypeOK, Answered, HasKey, DisabledIn
          <5> QED
            BY <5>2 DEF Answered
        <4>2. CASE backend # "memory"
          BY <3>1, <4>2 DEF Load
        <4> QED
          BY <4>1, <4>2
      <3> QED
        BY <2>1, <3>1, <3>2 DEF AnswersKept, Answered, HasKey, DisabledIn, Full
    <2> QED
      BY <1>0, <2>2, <2>3, <2>4, <2>5 DEF IInv
  <1> QED
    BY <1>1, <1>3, <1>4, <1>5, <1>6, <1>7, <1>9, <1>10, <1>11, <1>12, <1>13, <1>14, <1>15
    DEF Next, Login, Save, Use

-----------------------------------------------------------------------------
(***************************************************************************)
(* The file, while saves do not overlap: it cannot be read exactly while a *)
(* save is between os.Create and the write, unless a write has failed.     *)
(***************************************************************************)
FileState ==
    ~ crossed =>
        /\ \A r \in Reqs : pc[r] \in Open => file = Unreadable
        /\ running /\ faults = 0 /\ file = Unreadable => \E r \in Reqs : pc[r] \in Open

\* Steps that touch neither the file nor a save that has it open.
LEMMA FileAlone ==
    ASSUME IInv, FileState, UNCHANGED <<file, running, faults>>, crossed => crossed',
           \A r \in Reqs : pc'[r] \in Open <=> pc[r] \in Open
    PROVE  FileState'
  BY DEF FileState

\* Every step keeps FileState.
LEMMA StepFile == IInv /\ FileState /\ [Next]_vars => FileState'
  <1> SUFFICES ASSUME IInv, FileState, [Next]_vars PROVE FileState'
    OBVIOUS
  <1>0. Typed /\ TypeOK /\ OneOpen
    BY DEF IInv, Typed
  <1>1. CASE UNCHANGED vars
    BY <1>1, FileAlone DEF vars, history, bounds
  <1>2. ASSUME NEW r \in Reqs, NEW u \in Users, Request(r, u) PROVE FileState'
    <2>1. /\ UNCHANGED <<file, running, crossed, faults>> /\ pc[r] = "idle"
          /\ Goto(r, "check") \/ Goto(r, "user")
      BY <1>2 DEF Request, Arrive, bounds
    <2> QED
      BY <1>0, <2>1, FileAlone DEF Goto, TypeOK, Open
  <1>3. ASSUME NEW r \in Reqs, Login(r) \/ Use(r) PROVE FileState'
    <2>1. /\ UNCHANGED <<file, running, crossed, faults>> /\ pc[r] \notin Open
          /\ \E l \in {"idle", "storeUser", "handle", "saveUser", "saveKeys", "owner", "serve"} :
                Goto(r, l)
      BY <1>3 DEF Login, GetUser, StoreUser, NewAPIKey, NewAPIKeyPanics, DisableAPIKey, Use,
                  CheckKey, CheckOwner, Serve, Over, bounds, history, Open
    <2> QED
      BY <1>0, <2>1, FileAlone DEF Goto, TypeOK, Open
  <1>4. ASSUME NEW r \in Reqs, SaveNothing(r) PROVE FileState'
    <2>1. /\ UNCHANGED <<file, running, crossed, faults>> /\ pc[r] \notin Open
          /\ Goto(r, "idle") \/ Goto(r, "handle")
      BY <1>4 DEF SaveNothing, AfterSave, Over, bounds, Saves, Open
    <2> QED
      BY <1>0, <2>1, FileAlone DEF Goto, TypeOK, Open
  <1>5. ASSUME NEW r \in Reqs, SaveCreate(r) PROVE FileState'
    <2>1. file' = Unreadable /\ (Goto(r, "openUser") \/ Goto(r, "openKeys"))
      BY <1>5 DEF SaveCreate
    <2> QED
      BY <1>0, <2>1 DEF FileState, Goto, TypeOK, Open
  <1>6. ASSUME NEW r \in Reqs, SaveEncode(r) PROVE FileState'
    <2>1. /\ UNCHANGED <<file, running, crossed, faults>> /\ pc[r] \in Open
          /\ Goto(r, "fullUser") \/ Goto(r, "fullKeys")
      BY <1>6 DEF SaveEncode, bounds, history, Open
    <2> QED
      BY <1>0, <2>1, FileAlone DEF Goto, TypeOK, Open
  <1>7. ASSUME NEW r \in Reqs, SaveWrite(r) PROVE FileState'
    <2>1. /\ pc[r] \in Open /\ file' = snap[r] /\ crossed' = crossed
          /\ Goto(r, "idle") \/ Goto(r, "handle")
      BY <1>7 DEF SaveWrite, AfterSave, Over, Open
    <2>2. file' # Unreadable
      BY <1>0, <2>1, NamesAssumption DEF TypeOK
    <2>3. ~ crossed => \A q \in Reqs : pc'[q] \notin Open
      BY <1>0, <2>1 DEF OneOpen, Goto, TypeOK, Open
    <2> QED
      BY <2>1, <2>2, <2>3 DEF FileState
  <1>8. ASSUME NEW r \in Reqs, SaveFails(r) PROVE FileState'
    <2>1. /\ UNCHANGED <<file, crossed>> /\ faults' = faults + 1 /\ Goto(r, "idle")
      BY <1>8 DEF SaveFails, Over
    <2>2. faults' # 0
      BY <1>0, <2>1, BoundsAssumption DEF TypeOK
    <2>3. \A q \in Reqs : pc'[q] \in Open => pc[q] \in Open
      BY <1>0, <2>1 DEF Goto, TypeOK, Open
    <2> QED
      BY <2>1, <2>2, <2>3 DEF FileState
  <1>9. CASE Restart
    BY <1>9 DEF Restart, FileState, Open
  <1> QED
    BY <1>1, <1>2, <1>3, <1>4, <1>5, <1>6, <1>7, <1>8, <1>9 DEF Next, Save

\* Only a restart stops the server, and an overlap of saves is not forgotten.
LEMMA RunsOn ==
    ASSUME [Next]_vars
    PROVE  (crossed => crossed') /\ (Restart \/ UNCHANGED <<running, restarts>>)
  <1>1. CASE UNCHANGED vars
    BY <1>1 DEF vars, history, bounds
  <1>2. ASSUME NEW r \in Reqs, NEW u \in Users, Request(r, u)
        PROVE  UNCHANGED <<crossed, running, restarts>>
    BY <1>2 DEF Request, Arrive, bounds
  <1>3. ASSUME NEW r \in Reqs, Login(r)
        PROVE  UNCHANGED <<crossed, running, restarts>>
    BY <1>3 DEF Login, GetUser, StoreUser, NewAPIKey, NewAPIKeyPanics, DisableAPIKey,
                history, bounds
  <1>4. ASSUME NEW r \in Reqs, Save(r)
        PROVE  (crossed => crossed') /\ UNCHANGED <<running, restarts>>
    <2>1. CASE SaveNothing(r)
      BY <2>1 DEF SaveNothing, bounds
    <2>2. CASE SaveCreate(r)
      BY <2>2 DEF SaveCreate, bounds
    <2>3. CASE SaveEncode(r)
      BY <2>3 DEF SaveEncode, history, bounds
    <2>4. CASE SaveWrite(r) \/ SaveFails(r)
      BY <2>4 DEF SaveWrite, SaveFails, bounds
    <2> QED
      BY <1>4, <2>1, <2>2, <2>3, <2>4 DEF Save
  <1>5. ASSUME NEW r \in Reqs, Use(r)
        PROVE  UNCHANGED <<crossed, running, restarts>>
    BY <1>5 DEF Use, CheckKey, CheckOwner, Serve, bounds
  <1>6. CASE Restart
    BY <1>6 DEF Restart
  <1> QED
    BY <1>1, <1>2, <1>3, <1>4, <1>5, <1>6 DEF Next

\* A key that was given out works until its owner wants it disabled, and a restart
\* takes it away exactly if it finds a file that cannot be read, which without failing
\* writes is one that a save was stopped in the middle of (map.go:48-60, 160-166).
THEOREM GivenKeysWork == Spec => GivenWorks
  <1>1. IInv /\ IInv' /\ FileState /\ [Next]_vars =>
            [running /\ ~ crossed' =>
                \A k \in given' \ doomed' :
                    /\ Works(k)' <=> restarts' = restarts \/ file # Unreadable
                    /\ faults = 0 => (file = Unreadable
                                         <=> \E r \in Reqs : pc[r] \in Open)]_vars
    <2> SUFFICES ASSUME IInv, IInv', FileState, [Next]_vars, running, ~ crossed',
                        NEW k \in given' \ doomed'
                 PROVE  /\ Works(k)' <=> restarts' = restarts \/ file # Unreadable
                        /\ faults = 0 => (file = Unreadable
                                             <=> \E r \in Reqs : pc[r] \in Open)
      OBVIOUS
    <2>1. ASSUME running' PROVE Works(k)'
      <3>1. HasKey(store, k)' /\ k \in Keys
        BY <2>1 DEF IInv, Typed, TypeOK, AnswersKept, Answered, HasKey
      <3>2. ~ DisabledIn(store, k)'
        BY <3>1 DEF IInv, DisabledOnDemand, OnDemand, DisabledIn
      <3> QED
        BY <2>1, <3>1, <3>2 DEF HasKey, DisabledIn, Check, Works
    <2>2. ~ crossed
      BY RunsOn
    <2>3. CASE Restart
      <3>1. restarts' # restarts
        <4>1. restarts \in Nat /\ restarts' = restarts + 1
          BY <2>3, BoundsAssumption DEF Restart, IInv, Typed, TypeOK
        <4> QED
          BY <4>1
      <3>2. running' <=> file # Unreadable
        BY <2>3 DEF Restart
      <3> QED
        BY <2>1, <2>2, <3>1, <3>2 DEF FileState, Works
    <2>4. CASE ~ Restart
      BY <2>1, <2>2, <2>4, RunsOn DEF FileState
    <2> QED
      BY <2>3, <2>4
  <1>2. Init => FileState
    BY EmptyStore, NamesAssumption DEF Init, FileState, Open
  <1> QED
    BY <1>1, <1>2, InitIInv, StepIInv, StepFile, PTL DEF Spec, GivenWorks

\* A request that comes after its key was reported as disabled is refused.
THEOREM RevokedIsFinal == Spec => []RevokedRefused
  <1>1. IInv => RevokedRefused
    BY DEF IInv
  <1> QED
    BY <1>1, InitIInv, StepIInv, PTL DEF Spec

=============================================================================
