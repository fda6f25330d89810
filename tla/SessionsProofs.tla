--------------------------- MODULE SessionsProofs ---------------------------
(***************************************************************************)
(* Proofs about Sessions, for any number of browsers, request handlers and *)
(* session IDs, and for any bounds on time, pruning, restarts and faults.  *)
(***************************************************************************)
EXTENDS Sessions, TLAPS

\* What NewSession makes is a session, and so is what a handler starts from.
LEMMA BlankSession == Blank \in Sessions /\ Blank.user = Nobody
  BY BoundsAssumption DEF Blank, Sessions

\* A session under a name it has: what the map holds is Absent or a session.
LEMMA Held ==
    ASSUME NEW m \in Maps, NEW i \in Ids, m[i] # Absent
    PROVE  m[i] \in Sessions
  BY DEF Maps

\* What JSON keeps of a map is a map of the same sessions and users
\* (map.go:132-142).
LEMMA SavedMap ==
    ASSUME NEW m \in Maps
    PROVE  /\ Saved(m) \in Maps
           /\ \A i \in Ids : Saved(m)[i] = Absent <=> m[i] = Absent
           /\ \A i \in Ids : m[i] # Absent => Saved(m)[i].user = m[i].user
  <1>1. ASSUME NEW i \in Ids, m[i] # Absent
        PROVE  /\ [m[i] EXCEPT !.dirty = FALSE] \in Sessions
               /\ [m[i] EXCEPT !.dirty = FALSE].user = m[i].user
    <2>1. \A s \in Sessions : /\ [s EXCEPT !.dirty = FALSE] \in Sessions
                            /\ [s EXCEPT !.dirty = FALSE].user = s.user
      BY DEF Sessions
    <2> QED
      BY <1>1, <2>1, Held
  <1> QED
    BY <1>1, NamesAssumption DEF Maps, Saved

\* A handler turns a session into a session, of the same user, of its own
\* browser's or of nobody (hoard.go:173-175, oidc.go).
LEMMA ServedSession ==
    ASSUME NEW k \in {"page", "login", "logout"}, NEW b \in Browsers,
           NEW s \in Sessions
    PROVE  /\ Served(k, b, s) \in Sessions
           /\ Served(k, b, s).user \in {s.user, b, Nobody}
           /\ k = "login" => Served(k, b, s).user = b /\ Served(k, b, s).dirty
           /\ k = "page" => Served(k, b, s) = s
  BY DEF Served, Sessions

\* What a server starting now would load is a map (map.go:67-82).
LEMMA LoadMap == file \in Maps \cup {Unreadable} => Load \in Maps
  BY DEF Load, EmptyMap, Maps

-----------------------------------------------------------------------------
(* Where a request is says what it has.                                    *)

\* What a request has in hand.
InHand ==
    \A r \in Reqs :
        /\ pc[r] # "idle" => by[r] \in Browsers
        /\ pc[r] \notin {"idle", "get"} => id[r] \in Ids
        /\ pc[r] \in {"idle", "get"} => sess[r].user = Nobody
        /\ pc[r] = "idle" => id[r] = NoId
        /\ r \in fresh => pc[r] \in {"create", "encode", "write"}

Typed == TypeOK /\ InHand

\* Typed holds at first.
LEMMA InitTyped == Init => Typed
  BY BlankSession, BoundsAssumption, JanitorAssumption
  DEF Init, Typed, TypeOK, InHand, Maps, EmptyMap, Savers, Labels

\* The end of a request leaves its variables, and those of the browser, typed.
LEMMA OverTyped ==
    ASSUME Typed, NEW r \in Reqs, Over(r)
    PROVE  /\ pc' \in [Savers -> Labels]
           /\ by' \in [Reqs -> Browsers \cup {Nobody}]
           /\ kind' \in [Reqs -> {"page", "login", "logout"}]
           /\ id' \in [Reqs -> Ids \cup {NoId}]
           /\ sess' \in [Reqs -> Sessions]
           /\ told' \subseteq Reqs
           /\ pc'[r] = "idle" /\ sess'[r].user = Nobody /\ id'[r] = NoId
           /\ \A q \in Reqs \ {r} :
                 /\ pc'[q] = pc[q] /\ by'[q] = by[q]
                 /\ id'[q] = id[q] /\ sess'[q] = sess[q]
  BY BlankSession DEF Over, Goto, Typed, TypeOK, Savers, Labels

\* A cookie is set to the ID of a request, which is one,
LEMMA SetCookieTyped ==
    ASSUME Typed, NEW r \in Reqs, pc[r] \notin {"idle", "get"}, SetCookie(r)
    PROVE  cookie' \in [Browsers -> [id : Ids \cup {NoId}, set : 0..MaxTime]]
  BY DEF SetCookie, Typed, TypeOK, InHand

\* and so is what a user is told.
LEMMA ReplyTyped ==
    ASSUME Typed, NEW r \in Reqs, pc[r] \notin {"idle", "get"}, Reply(r)
    PROVE  /\ cookie' \in [Browsers -> [id : Ids \cup {NoId}, set : 0..MaxTime]]
           /\ acked' \in [Browsers -> Ids \cup {NoId}]
  <1>1. CASE UNCHANGED <<cookie, acked>>
    BY <1>1 DEF Typed, TypeOK
  <1>2. CASE /\ SetCookie(r)
             /\ acked' = IF kind[r] = "login" THEN [acked EXCEPT ![by[r]] = id[r]]
                                              ELSE acked
    BY <1>2, SetCookieTyped DEF Typed, TypeOK, InHand
  <1> QED
    BY <1>1, <1>2 DEF Reply

\* What follows a save, whoever saves and whether or not it fails.
LEMMA AfterSaveTyped ==
    ASSUME Typed, NEW s \in Savers, NEW failed \in BOOLEAN,
           pc[s] \in {"create", "write"}, AfterSave(s, failed)
    PROVE  /\ pc' \in [Savers -> Labels]
           /\ cookie' \in [Browsers -> [id : Ids \cup {NoId}, set : 0..MaxTime]]
           /\ acked' \in [Browsers -> Ids \cup {NoId}]
           /\ by' \in [Reqs -> Browsers \cup {Nobody}]
           /\ kind' \in [Reqs -> {"page", "login", "logout"}]
           /\ id' \in [Reqs -> Ids \cup {NoId}]
           /\ sess' \in [Reqs -> Sessions]
           /\ fresh' \subseteq Reqs /\ told' \subseteq Reqs
           /\ InHand'
  <1> USE DEF Typed
  <1>1. CASE /\ s = Janitor
             /\ Goto(s, "idle")
             /\ UNCHANGED <<cookie, by, kind, id, sess, fresh, told, acked>>
    BY <1>1, JanitorAssumption DEF Goto, TypeOK, InHand, Savers, Labels
  <1>2. CASE /\ s \in fresh /\ ~ failed
             /\ fresh' = fresh \ {s}
             /\ Goto(s, "serve")
             /\ UNCHANGED <<cookie, by, kind, id, sess, told, acked>>
    BY <1>2 DEF Goto, TypeOK, InHand, Savers, Labels
  <1>3. CASE /\ s \in fresh /\ failed
             /\ fresh' = fresh \ {s}
             /\ Over(s)
             /\ UNCHANGED <<cookie, acked>>
    <2>1. s \in Reqs
      BY <1>3 DEF TypeOK
    <2> QED
      BY <1>3, <2>1, OverTyped DEF TypeOK, InHand
  <1>4. CASE /\ s \in Reqs \ fresh
             /\ Reply(s)
             /\ UNCHANGED fresh
    <2>1. Over(s)
      BY <1>4 DEF Reply
    <2>2. InHand'
      BY <1>4, <2>1, OverTyped DEF InHand
    <2> QED
      BY <1>4, <2>1, <2>2, OverTyped, ReplyTyped DEF TypeOK
  <1> QED
    BY <1>1, <1>2, <1>3, <1>4 DEF AfterSave

\* Every step keeps the types and what requests have in hand.
LEMMA StepTyped == Typed /\ [Next]_vars => Typed'
  <1> SUFFICES ASSUME Typed, [Next]_vars PROVE Typed'
    OBVIOUS
  <1> USE DEF Typed
  <1>1. CASE UNCHANGED vars
    BY <1>1 DEF vars, bounds, TypeOK, InHand
  <1>2. ASSUME NEW r \in Reqs, NEW b \in Browsers, NEW k \in {"page", "login", "logout"},
               Send(r, b, k)
        PROVE  Typed'
    <2>1. TypeOK'
      BY <1>2 DEF Send, Valid, Goto, bounds, TypeOK, Savers, Labels
    <2>2. InHand'
      BY <1>2 DEF Send, Goto, TypeOK, InHand, Savers
    <2> QED
      BY <2>1, <2>2
  <1>3. ASSUME NEW r \in Reqs, GetSession(r)
        PROVE  Typed'
    <2>1. id[r] \in Ids /\ contents[id[r]] \in Sessions
      BY <1>3, Held DEF GetSession, Known, TypeOK
    <2>2. TypeOK'
      BY <1>3, <2>1 DEF GetSession, Goto, bounds, TypeOK, Savers, Labels
    <2>3. InHand'
      BY <1>3, <2>1 DEF GetSession, Goto, TypeOK, InHand, Savers
    <2> QED
      BY <2>2, <2>3
  <1>4. ASSUME NEW r \in Reqs, NEW i \in Ids \ used, NewUnder(r, i)
        PROVE  Typed'
    <2> DEFINE new == [Blank EXCEPT !.lastSeen = now]
    <2>1. new \in Sessions /\ new.user = Nobody
      BY BlankSession DEF Sessions, TypeOK
    <2> HIDE DEF new
    <2>2. /\ contents' = [contents EXCEPT ![i] = new]
          /\ sess' = [sess EXCEPT ![r] = new]
          /\ used' = used \cup {i}
          /\ id' = [id EXCEPT ![r] = i]
          /\ fresh' = fresh \cup {r}
          /\ Goto(r, "create")
          /\ UNCHANGED <<file, running, cookie, by, kind, told, snap, stale,
                         acked, dirtied, bounds>>
      BY <1>4 DEF NewUnder, new
    <2>3. TypeOK'
      BY <2>1, <2>2 DEF Goto, bounds, TypeOK, Savers, Labels, Maps
    <2>4. InHand'
      BY <1>4, <2>1, <2>2 DEF NewUnder, Goto, TypeOK, InHand, Savers
    <2> QED
      BY <2>3, <2>4
  <1>5. ASSUME NEW r \in Reqs, Serve(r)
        PROVE  Typed'
    <2>1. by[r] \in Browsers /\ id[r] \in Ids
      BY <1>5 DEF Serve, InHand
    <2>2. Served(kind[r], by[r], sess[r]) \in Sessions
      BY <2>1, ServedSession DEF TypeOK
    <2>3. cookie' \in [Browsers -> [id : Ids \cup {NoId}, set : 0..MaxTime]]
      BY <1>5, SetCookieTyped DEF Serve, TypeOK
    <2>4. TypeOK'
      BY <1>5, <2>2, <2>3 DEF Serve, Goto, bounds, TypeOK, Savers, Labels
    <2>5. InHand'
      BY <1>5, <2>2 DEF Serve, Goto, TypeOK, InHand, Savers
    <2> QED
      BY <2>4, <2>5
  <1>6. ASSUME NEW r \in Reqs, StoreSession(r)
        PROVE  Typed'
    BY <1>6 DEF StoreSession, Goto, bounds, TypeOK, InHand, Savers, Labels, Maps
  <1>7. ASSUME NEW r \in Reqs, TouchRead(r)
        PROVE  Typed'
    <2>1. /\ id[r] \in Ids
          /\ contents[id[r]] \in Sessions
      BY <1>7, Held DEF TouchRead, InHand, TypeOK
    <2>2. [contents[id[r]] EXCEPT !.lastSeen = now] \in Sessions
      BY <2>1 DEF Sessions, TypeOK
    <2>3. TypeOK'
      BY <1>7, <2>2 DEF TouchRead, Goto, bounds, TypeOK, Savers, Labels
    <2>4. InHand'
      BY <1>7, <2>2 DEF TouchRead, Goto, TypeOK, InHand, Savers
    <2> QED
      BY <2>3, <2>4
  <1>8. ASSUME NEW r \in Reqs, TouchMissing(r)
        PROVE  Typed'
    <2>1. Over(r) /\ pc[r] = "finish"
      BY <1>8 DEF TouchMissing, Reply
    <2>2. TypeOK'
      BY <1>8, <2>1, OverTyped, ReplyTyped DEF TouchMissing, bounds, TypeOK
    <2>3. InHand'
      BY <1>8, <2>1, OverTyped DEF TouchMissing, InHand
    <2> QED
      BY <2>2, <2>3
  <1>9. ASSUME NEW r \in Reqs, TouchWrite(r)
        PROVE  Typed'
    BY <1>9 DEF TouchWrite, Goto, bounds, TypeOK, InHand, Savers, Labels, Maps
  <1>10. ASSUME NEW s \in Savers, SaveCreate(s)
         PROVE  Typed'
    BY <1>10 DEF SaveCreate, Goto, bounds, TypeOK, InHand, Savers, Labels
  <1>11. ASSUME NEW s \in Savers, SaveEncode(s)
         PROVE  Typed'
    <2>1. Saved(contents) \in Maps
      BY SavedMap DEF TypeOK
    <2> QED
      BY <1>11, <2>1 DEF SaveEncode, Goto, bounds, TypeOK, InHand, Savers, Labels
  <1>12. ASSUME NEW s \in Savers, SaveWrite(s)
         PROVE  Typed'
    <2>1. EmptyMap \in Maps
      BY DEF EmptyMap, Maps
    <2> QED
      BY <1>12, <2>1, AfterSaveTyped DEF SaveWrite, bounds, TypeOK
  <1>13. ASSUME NEW s \in Savers, SaveFails(s)
         PROVE  Typed'
    <2>1. EmptyMap \in Maps
      BY DEF EmptyMap, Maps
    <2>2. faults + 1 \in 0..MaxFaults
      BY <1>13, BoundsAssumption DEF SaveFails, TypeOK
    <2> QED
      BY <1>13, <2>1, <2>2, AfterSaveTyped DEF SaveFails, TypeOK
  <1>14. CASE PruneCollect
    <2>1. prunes + 1 \in 0..MaxPrunes
      BY <1>14, BoundsAssumption DEF PruneCollect, TypeOK
    <2>2. TypeOK'
      BY <1>14, <2>1 DEF PruneCollect, Goto, TypeOK, Savers, Labels
    <2>3. InHand'
      BY <1>14, JanitorAssumption DEF PruneCollect, Goto, TypeOK, InHand, Savers
    <2> QED
      BY <2>2, <2>3
  <1>15. CASE PruneDelete
    <2>1. TypeOK'
      BY <1>15 DEF PruneDelete, Goto, bounds, TypeOK, Savers, Labels, Maps
    <2>2. InHand'
      BY <1>15, JanitorAssumption DEF PruneDelete, Goto, TypeOK, InHand, Savers
    <2> QED
      BY <2>1, <2>2
  <1>16. CASE Restart
    <2>1. restarts + 1 \in 0..MaxRestarts
      BY <1>16, BoundsAssumption DEF Restart, TypeOK
    <2> QED
      BY <1>16, <2>1, LoadMap, BlankSession
      DEF Restart, TypeOK, InHand, Savers, Labels, EmptyMap, Maps
  <1>17. CASE Tick
    <2>1. now + 1 \in 0..MaxTime
      BY <1>17, BoundsAssumption DEF Tick, TypeOK
    <2> QED
      BY <1>17, <2>1 DEF Tick, TypeOK, InHand
  <1> QED
    BY <1>1, <1>2, <1>3, <1>4, <1>5, <1>6, <1>7, <1>8, <1>9, <1>10, <1>11,
       <1>12, <1>13, <1>14, <1>15, <1>16, <1>17
    DEF Next, Handle, Save, NewSession

\* Type correctness of the session store, its requests and its janitor.
THEOREM TypeCorrect == Spec => []TypeOK
  <1>1. Typed => TypeOK
    BY DEF Typed
  <1> QED
    BY <1>1, InitTyped, StepTyped, PTL DEF Spec

-----------------------------------------------------------------------------
(***************************************************************************)
(* The inductive invariant of OwnSession and LogoutHolds.  An ID has at    *)
(* most one browser: one that sends it, that was told a login under it, or *)
(* whose request works with it.  It is handed out unused, to that browser  *)
(* alone, and whatever is kept under it, in the map, in the file or in a   *)
(* save that is under way, is a login of that browser or of nobody.        *)
(***************************************************************************)
\* Browser b has, or was told, ID i.
Has(b, i) ==
    \/ cookie[b].id = i
    \/ acked[b] = i
    \/ \E r \in Reqs : by[r] = b /\ id[r] = i

\* Nobody has an ID that NewSession has not drawn.
NewIdsAreNew ==
    \A i \in Ids \ used :
        /\ i \notin stale
        /\ \A b \in Browsers : cookie[b].id # i /\ acked[b] # i
        /\ \A r \in Reqs : id[r] # i

\* No two browsers have one ID.
OneOwner ==
    \A i \in Ids : \A b, c \in Browsers : Has(b, i) /\ Has(c, i) => b = c

\* In m a session is logged in for the browser that has its ID, or for nobody.
OwnedMap(m) ==
    \A i \in Ids :
        m[i] # Absent => /\ i \in used
                         /\ \A b \in Browsers : Has(b, i) => m[i].user \in {Nobody, b}

\* That holds of the map, the file and what is about to be written,
MapsOwned ==
    /\ OwnedMap(contents)
    /\ file # Unreadable => OwnedMap(file)
    /\ \A s \in Savers : OwnedMap(snap[s])

\* and of the copies that requests work on.
CopyOwned == \A r \in Reqs : sess[r].user \in {Nobody, by[r]}

IInv == Typed /\ NewIdsAreNew /\ OneOwner /\ MapsOwned /\ CopyOwned

\* A map without a login that n does not have.
Within(m, n) ==
    \A i \in Ids : m[i] # Absent => n[i] # Absent /\ m[i].user = n[i].user

\* The maps that are kept somewhere.
Kept(n) == \/ n = contents
           \/ n = file /\ file # Unreadable
           \/ \E s \in Savers : n = snap[s]

\* A step that gives no ID to a browser, and stores no login that is not stored
\* already, keeps logins with their owners.
LEMMA NothingNew ==
    ASSUME IInv, Typed', NewIdsAreNew', CopyOwned', used' = used,
           \A b \in Browsers, i \in Ids : Has(b, i)' => Has(b, i),
           \E n \in Maps : Kept(n) /\ Within(contents', n),
           file' # Unreadable => \E n \in Maps : Kept(n) /\ Within(file', n),
           \A s \in Savers : \E n \in Maps : Kept(n) /\ Within(snap'[s], n)
    PROVE  IInv'
  <1>1. OneOwner'
    BY DEF IInv, OneOwner
  <1>2. ASSUME NEW n \in Maps, Kept(n)
        PROVE  OwnedMap(n)
    BY <1>2 DEF IInv, MapsOwned, Kept
  <1>3. OwnedMap(contents)'
    BY <1>2 DEF OwnedMap, Within
  <1>4. file' # Unreadable => OwnedMap(file)'
    BY <1>2 DEF OwnedMap, Within
  <1>5. \A s \in Savers : OwnedMap(snap[s])'
    BY <1>2 DEF OwnedMap, Within
  <1> QED
    BY <1>1, <1>3, <1>4, <1>5 DEF IInv, MapsOwned

\* In particular one that leaves the maps alone.
LEMMA MapsAlone ==
    ASSUME IInv, Typed', NewIdsAreNew', CopyOwned', used' = used,
           \A b \in Browsers, i \in Ids : Has(b, i)' => Has(b, i),
           contents' = contents, snap' = snap, file' \in {file, Unreadable}
    PROVE  IInv'
  <1>1. \A m : Within(m, m)
    BY DEF Within
  <1>2. /\ contents \in Maps
        /\ file # Unreadable => file \in Maps
        /\ \A s \in Savers : snap[s] \in Maps
    BY DEF IInv, Typed, TypeOK
  <1> QED
    BY <1>1, <1>2, NothingNew DEF Kept

\* IInv holds at first.
LEMMA InitIInv == Init => IInv
  <1> SUFFICES ASSUME Init PROVE IInv
    OBVIOUS
  <1>1. Typed
    BY InitTyped
  <1>2. \A i \in Ids, b \in Browsers : ~ Has(b, i)
    BY NamesAssumption DEF Init, Has
  <1>3. NewIdsAreNew /\ CopyOwned
    BY NamesAssumption, BlankSession DEF Init, NewIdsAreNew, CopyOwned
  <1>4. OneOwner
    BY <1>2 DEF OneOwner
  <1>5. MapsOwned
    BY <1>2 DEF Init, MapsOwned, OwnedMap, EmptyMap
  <1> QED
    BY <1>1, <1>3, <1>4, <1>5 DEF IInv

\* A cookie or a login that is told goes to the browser whose request it is.
LEMMA ReplyOwned ==
    ASSUME IInv, NEW r \in Reqs, pc[r] \notin {"idle", "get"}, Reply(r)
    PROVE  /\ \A b \in Browsers, i \in Ids : Has(b, i)' => Has(b, i)
           /\ used' = used /\ stale' = stale => NewIdsAreNew'
           /\ CopyOwned'
  <1> USE DEF IInv, Typed
  <1>1. by[r] \in Browsers /\ id[r] \in Ids
    BY DEF InHand
  <1>2. /\ id'[r] = NoId
        /\ sess'[r].user = Nobody
        /\ \A q \in Reqs \ {r} : by'[q] = by[q] /\ id'[q] = id[q] /\ sess'[q] = sess[q]
    BY OverTyped DEF Reply
  <1>3. \A b \in Browsers :
           /\ cookie'[b].id \in {cookie[b].id} \cup (IF b = by[r] THEN {id[r]} ELSE {})
           /\ acked'[b] \in {acked[b]} \cup (IF b = by[r] THEN {id[r]} ELSE {})
    BY <1>1 DEF Reply, SetCookie, TypeOK
  <1>4. \A b \in Browsers, i \in Ids : Has(b, i)' => Has(b, i)
    BY <1>1, <1>2, <1>3, NamesAssumption DEF Has
  <1>5. used' = used /\ stale' = stale => NewIdsAreNew'
    BY <1>1, <1>2, <1>3, NamesAssumption DEF NewIdsAreNew
  <1>6. CopyOwned'
    BY <1>2 DEF CopyOwned
  <1> QED
    BY <1>4, <1>5, <1>6

\* The end of a save gives nobody an ID that is not theirs.
LEMMA AfterSaveOwned ==
    ASSUME IInv, NEW s \in Savers, NEW failed \in BOOLEAN,
           pc[s] \in {"create", "write"}, AfterSave(s, failed)
    PROVE  /\ \A b \in Browsers, i \in Ids : Has(b, i)' => Has(b, i)
           /\ used' = used /\ stale' = stale => NewIdsAreNew'
           /\ CopyOwned'
  <1>1. CASE UNCHANGED <<cookie, by, id, sess, acked>>
    BY <1>1 DEF IInv, Has, NewIdsAreNew, CopyOwned
  <1>2. CASE /\ s \in fresh /\ failed
             /\ Over(s)
             /\ UNCHANGED <<cookie, acked>>
    <2>1. s \in Reqs
      BY <1>2 DEF IInv, Typed, TypeOK
    <2> QED
      BY <1>2, <2>1, OverTyped, NamesAssumption
      DEF IInv, Has, NewIdsAreNew, CopyOwned
  <1>3. CASE s \in Reqs /\ Reply(s)
    BY <1>3, ReplyOwned
  <1> QED
    BY <1>1, <1>2, <1>3 DEF AfterSave

\* A new session's ID has had no browser, and gets one (map.go:53-65).
LEMMA NewSessionOwned ==
    ASSUME IInv, Typed', NEW r \in Reqs, NEW i \in Ids \ used, NewUnder(r, i)
    PROVE  IInv'
  <1> USE DEF IInv, Typed
  <1> DEFINE new == [Blank EXCEPT !.lastSeen = now]
  <1>1. by[r] \in Browsers /\ pc[r] = "get"
    BY DEF NewUnder, InHand
  <1>2. new.user = Nobody
    BY BlankSession DEF Sessions, TypeOK
  <1> HIDE DEF new
  <1>3. /\ contents' = [contents EXCEPT ![i] = new]
        /\ sess' = [sess EXCEPT ![r] = new]
        /\ used' = used \cup {i}
        /\ id' = [id EXCEPT ![r] = i]
        /\ UNCHANGED <<file, cookie, by, snap, stale, acked>>
    BY DEF NewUnder, new
  <1>4. \A b \in Browsers, j \in Ids :
           Has(b, j)' => Has(b, j) \/ (b = by[r] /\ j = i)
    BY <1>3 DEF Has, TypeOK
  <1>5. \A b \in Browsers : ~ Has(b, i)
    BY DEF Has, NewIdsAreNew
  <1>6. OneOwner'
    BY <1>4, <1>5 DEF OneOwner
  <1>7. NewIdsAreNew'
    BY <1>3 DEF NewIdsAreNew, TypeOK
  <1>8. OwnedMap(contents)'
    BY <1>2, <1>3, <1>4 DEF OwnedMap, MapsOwned, TypeOK, Maps
  <1>9. (file # Unreadable => OwnedMap(file)') /\ (\A s \in Savers : OwnedMap(snap[s])')
    <2>1. ASSUME NEW n, OwnedMap(n) PROVE \A j \in Ids : n[j] # Absent => j # i
      BY <2>1 DEF OwnedMap
    <2> QED
      BY <1>3, <1>4, <2>1 DEF MapsOwned, OwnedMap
  <1>10. CopyOwned'
    BY <1>2, <1>3 DEF CopyOwned, TypeOK
  <1> QED
    BY <1>3, <1>6, <1>7, <1>8, <1>9, <1>10 DEF MapsOwned

\* A copy that is put back goes under the ID of the request's browser
\* (http.go:69-76).
LEMMA StoreOwned ==
    ASSUME IInv, Typed', NEW r \in Reqs, pc[r] \notin {"idle", "get"},
           contents' = [contents EXCEPT ![id[r]] = sess[r]],
           UNCHANGED <<file, cookie, by, id, sess, snap, stale, used, acked>>
    PROVE  IInv'
  <1> USE DEF IInv, Typed
  <1>1. by[r] \in Browsers /\ id[r] \in Ids
    BY DEF InHand
  <1>2. Has(by[r], id[r]) /\ id[r] \in used
    BY <1>1 DEF Has, NewIdsAreNew
  <1>3. \A b \in Browsers, i \in Ids : Has(b, i)' <=> Has(b, i)
    BY DEF Has
  <1>4. NewIdsAreNew' /\ CopyOwned' /\ OneOwner'
    BY <1>3 DEF NewIdsAreNew, CopyOwned, OneOwner
  <1>5. \A b \in Browsers : Has(b, id[r]) => sess[r].user \in {Nobody, b}
    BY <1>1, <1>2 DEF OneOwner, CopyOwned
  <1>6. OwnedMap(contents)'
    BY <1>1, <1>2, <1>3, <1>5 DEF OwnedMap, MapsOwned, TypeOK, Maps
  <1>7. (file # Unreadable => OwnedMap(file)') /\ (\A s \in Savers : OwnedMap(snap[s])')
    BY <1>3 DEF MapsOwned, OwnedMap
  <1> QED
    BY <1>4, <1>6, <1>7 DEF MapsOwned

\* Every step keeps IInv.
LEMMA StepIInv == IInv /\ [Next]_vars => IInv'
  <1> SUFFICES ASSUME IInv, [Next]_vars PROVE IInv'
    OBVIOUS
  <1> USE DEF IInv, Typed
  <1>0. Typed' /\ TypeOK'
    BY StepTyped
  <1>a. \A m : Within(m, m)
    BY DEF Within
  <1>b. \A n : Within(EmptyMap, n)
    BY DEF Within, EmptyMap
  <1>c. /\ contents \in Maps
        /\ file # Unreadable => file \in Maps
        /\ \A s \in Savers : snap[s] \in Maps
    BY DEF TypeOK
  <1>1. CASE UNCHANGED vars
    <2>1. \A b \in Browsers, i \in Ids : Has(b, i)' => Has(b, i)
      BY <1>1 DEF vars, Has
    <2> QED
      BY <1>0, <1>1, <2>1, MapsAlone DEF vars, NewIdsAreNew, CopyOwned
  <1>2. ASSUME NEW r \in Reqs, NEW b \in Browsers, NEW k \in {"page", "login", "logout"},
               Send(r, b, k)
        PROVE  IInv'
    <2>1. /\ by' = [by EXCEPT ![r] = b]
          /\ id' = [id EXCEPT ![r] = cookie[b].id] \/ id' = [id EXCEPT ![r] = NoId]
          /\ \A c \in Browsers : acked'[c] \in {acked[c], NoId}
          /\ UNCHANGED <<contents, file, cookie, sess, snap, stale, used>>
      BY <1>2 DEF Send, TypeOK
    <2>2. \A c \in Browsers, i \in Ids : Has(c, i)' => Has(c, i)
      BY <2>1, NamesAssumption DEF Has, TypeOK
    <2>3. NewIdsAreNew'
      BY <2>1, NamesAssumption DEF NewIdsAreNew, TypeOK
    <2>4. CopyOwned'
      BY <1>2, <2>1 DEF Send, CopyOwned, InHand, TypeOK
    <2> QED
      BY <1>0, <2>1, <2>2, <2>3, <2>4, MapsAlone
  <1>3. ASSUME NEW r \in Reqs, GetSession(r)
        PROVE  IInv'
    <2>1. /\ id[r] \in Ids /\ by[r] \in Browsers
          /\ contents[id[r]] # Absent
          /\ sess' = [sess EXCEPT ![r] = contents[id[r]]]
          /\ UNCHANGED <<contents, file, cookie, by, id, snap, stale, used, acked>>
      BY <1>3 DEF GetSession, Known, InHand, TypeOK
    <2>2. Has(by[r], id[r])
      BY <2>1 DEF Has
    <2>3. CopyOwned'
      BY <2>1, <2>2 DEF CopyOwned, MapsOwned, OwnedMap, TypeOK
    <2>4. \A c \in Browsers, i \in Ids : Has(c, i)' => Has(c, i)
      BY <2>1 DEF Has
    <2> QED
      BY <1>0, <2>1, <2>3, <2>4, MapsAlone DEF NewIdsAreNew
  <1>4. ASSUME NEW r \in Reqs, NEW i \in Ids \ used, NewUnder(r, i)
        PROVE  IInv'
    BY <1>0, <1>4, NewSessionOwned
  <1>5. ASSUME NEW r \in Reqs, Serve(r)
        PROVE  IInv'
    <2>1. /\ id[r] \in Ids /\ by[r] \in Browsers
          /\ sess' = [sess EXCEPT ![r] = Served(kind[r], by[r], sess[r])]
          /\ UNCHANGED cookie \/ SetCookie(r)
          /\ UNCHANGED <<contents, file, by, id, snap, stale, used, acked>>
      BY <1>5 DEF Serve, InHand
    <2>2. Served(kind[r], by[r], sess[r]).user \in {sess[r].user, by[r], Nobody}
      BY <2>1, ServedSession DEF TypeOK
    <2>3. CopyOwned'
      BY <2>1, <2>2 DEF CopyOwned, TypeOK
    <2>4. \A b \in Browsers :
             cookie'[b].id \in {cookie[b].id} \cup (IF b = by[r] THEN {id[r]} ELSE {})
      BY <2>1 DEF SetCookie, TypeOK
    <2>5. \A b \in Browsers, i \in Ids : Has(b, i)' => Has(b, i)
      BY <2>1, <2>4 DEF Has
    <2>6. NewIdsAreNew'
      BY <2>1, <2>4 DEF NewIdsAreNew
    <2> QED
      BY <1>0, <2>1, <2>3, <2>5, <2>6, MapsAlone
  <1>6. ASSUME NEW r \in Reqs, StoreSession(r)
        PROVE  IInv'
    BY <1>0, <1>6, StoreOwned DEF StoreSession
  <1>7. ASSUME NEW r \in Reqs, TouchRead(r)
        PROVE  IInv'
    <2>1. /\ id[r] \in Ids /\ by[r] \in Browsers
          /\ contents[id[r]] # Absent
          /\ sess' = [sess EXCEPT ![r] = [contents[id[r]] EXCEPT !.lastSeen = now]]
          /\ UNCHANGED <<contents, file, cookie, by, id, snap, stale, used, acked>>
      BY <1>7 DEF TouchRead, InHand
    <2>2. [contents[id[r]] EXCEPT !.lastSeen = now].user = contents[id[r]].user
      BY <2>1, Held DEF TypeOK, Sessions
    <2>3. Has(by[r], id[r])
      BY <2>1 DEF Has
    <2>4. CopyOwned'
      BY <2>1, <2>2, <2>3 DEF CopyOwned, MapsOwned, OwnedMap, TypeOK
    <2>5. \A c \in Browsers, i \in Ids : Has(c, i)' => Has(c, i)
      BY <2>1 DEF Has
    <2> QED
      BY <1>0, <2>1, <2>4, <2>5, MapsAlone DEF NewIdsAreNew
  <1>8. ASSUME NEW r \in Reqs, TouchMissing(r)
        PROVE  IInv'
    BY <1>0, <1>8, ReplyOwned, MapsAlone DEF TouchMissing
  <1>9. ASSUME NEW r \in Reqs, TouchWrite(r)
        PROVE  IInv'
    BY <1>0, <1>9, StoreOwned DEF TouchWrite
  <1>10. ASSUME NEW s \in Savers, SaveCreate(s)
         PROVE  IInv'
    <2>1. \A b \in Browsers, i \in Ids : Has(b, i)' => Has(b, i)
      BY <1>10 DEF SaveCreate, Has
    <2> QED
      BY <1>0, <1>10, <2>1, MapsAlone DEF SaveCreate, NewIdsAreNew, CopyOwned
  <1>11. ASSUME NEW s \in Savers, SaveEncode(s)
         PROVE  IInv'
    <2>1. \A b \in Browsers, i \in Ids : Has(b, i)' => Has(b, i)
      BY <1>11 DEF SaveEncode, Has
    <2>2. Within(Saved(contents), contents)
      BY <1>c, SavedMap DEF Within
    <2>3. \A x \in Savers : snap'[x] \in {snap[x], Saved(contents)}
      BY <1>11 DEF SaveEncode, TypeOK
    <2>4. \A x \in Savers : \E n \in Maps : Kept(n) /\ Within(snap'[x], n)
      BY <1>a, <1>c, <2>2, <2>3 DEF Kept
    <2> QED
      BY <1>0, <1>11, <1>a, <1>c, <2>1, <2>4, NothingNew
      DEF SaveEncode, NewIdsAreNew, CopyOwned, Kept
  <1>12. ASSUME NEW s \in Savers, SaveWrite(s)
         PROVE  IInv'
    <2>1. /\ \A b \in Browsers, i \in Ids : Has(b, i)' => Has(b, i)
          /\ NewIdsAreNew' /\ CopyOwned'
      BY <1>12, AfterSaveOwned DEF SaveWrite
    <2>2. \A x \in Savers : snap'[x] \in {snap[x], EmptyMap}
      BY <1>12 DEF SaveWrite, TypeOK
    <2>3. \A x \in Savers : \E n \in Maps : Kept(n) /\ Within(snap'[x], n)
      BY <1>a, <1>b, <1>c, <2>2 DEF Kept
    <2> QED
      BY <1>0, <1>12, <1>a, <1>c, <2>1, <2>3, NothingNew DEF SaveWrite, Kept
  <1>13. ASSUME NEW s \in Savers, SaveFails(s)
         PROVE  IInv'
    <2>1. /\ \A b \in Browsers, i \in Ids : Has(b, i)' => Has(b, i)
          /\ NewIdsAreNew' /\ CopyOwned'
      BY <1>13, AfterSaveOwned DEF SaveFails
    <2>2. \A x \in Savers : snap'[x] \in {snap[x], EmptyMap}
      BY <1>13 DEF SaveFails, TypeOK
    <2>3. \A x \in Savers : \E n \in Maps : Kept(n) /\ Within(snap'[x], n)
      BY <1>a, <1>b, <1>c, <2>2 DEF Kept
    <2> QED
      BY <1>0, <1>13, <1>a, <1>c, <2>1, <2>3, NothingNew DEF SaveFails, Kept
  <1>14. CASE PruneCollect
    <2>1. \A b \in Browsers, i \in Ids : Has(b, i)' => Has(b, i)
      BY <1>14 DEF PruneCollect, Has
    <2>2. NewIdsAreNew'
      BY <1>14 DEF PruneCollect, NewIdsAreNew, MapsOwned, OwnedMap
    <2> QED
      BY <1>0, <1>14, <2>1, <2>2, MapsAlone DEF PruneCollect, CopyOwned
  <1>15. CASE PruneDelete
    <2>1. \A b \in Browsers, i \in Ids : Has(b, i)' => Has(b, i)
      BY <1>15 DEF PruneDelete, Has
    <2>2. NewIdsAreNew' /\ CopyOwned'
      BY <1>15 DEF PruneDelete, NewIdsAreNew, CopyOwned
    <2>3. Within(contents', contents)
      BY <1>15 DEF PruneDelete, Within
    <2> QED
      BY <1>0, <1>15, <1>a, <1>c, <2>1, <2>2, <2>3, NothingNew
      DEF PruneDelete, bounds, Kept
  <1>16. CASE Restart
    <2>1. \A b \in Browsers, i \in Ids : Has(b, i)' => Has(b, i)
      BY <1>16, NamesAssumption DEF Restart, Has
    <2>2. NewIdsAreNew' /\ CopyOwned'
      BY <1>16, NamesAssumption, BlankSession DEF Restart, NewIdsAreNew, CopyOwned
    <2>3. \E n \in Maps : Kept(n) /\ Within(contents', n)
      BY <1>16, <1>a, <1>b, <1>c DEF Restart, Load, Kept
    <2>4. \A s \in Savers : \E n \in Maps : Kept(n) /\ Within(snap'[s], n)
      BY <1>16, <1>b, <1>c DEF Restart, Kept
    <2> QED
      BY <1>0, <1>16, <1>a, <1>c, <2>1, <2>2, <2>3, <2>4, NothingNew DEF Restart, Kept
  <1>17. CASE Tick
    <2>1. \A b \in Browsers, i \in Ids : Has(b, i)' => Has(b, i)
      BY <1>17 DEF Tick, Has
    <2> QED
      BY <1>0, <1>17, <2>1, MapsAlone DEF Tick, NewIdsAreNew, CopyOwned
  <1> QED
    BY <1>1, <1>2, <1>3, <1>4, <1>5, <1>6, <1>7, <1>8, <1>9, <1>10, <1>11,
       <1>12, <1>13, <1>14, <1>15, <1>16, <1>17
    DEF Next, Handle, Save, NewSession

\* IInv is an invariant.
LEMMA Invariance == Spec => []IInv
  BY InitIInv, StepIInv, PTL DEF Spec

\* Nobody is ever served with the login of somebody else, whatever requests
\* race, and whichever older state a restart brings back.
THEOREM ServedAsOneself == Spec => []OwnSession
  <1>1. IInv => OwnSession
    BY DEF IInv, CopyOwned, OwnSession
  <1> QED
    BY <1>1, Invariance, PTL

\* The maps change only by a new session under an unused ID, by a request that
\* works with the ID, by Prune, or in a restart.
LEMMA LogoutStep ==
    ASSUME IInv, [Next]_vars, NEW i \in Ids, LoggedOut(i),
           \A r \in Reqs : ~ Holds(r, i)
    PROVE  \/ LoggedOut(i)'
           \/ contents'[i] = Absent
           \/ restarts' # restarts
  <1> USE DEF IInv, Typed
  <1>1. CASE UNCHANGED contents
    BY <1>1 DEF LoggedOut
  <1>2. ASSUME NEW r \in Reqs, NewSession(r)
        PROVE  UNCHANGED contents \/ contents'[i] = contents[i]
    <2>1. i \in used
      BY DEF LoggedOut, MapsOwned, OwnedMap
    <2> QED
      BY <1>2, <2>1 DEF NewSession, NewUnder, TypeOK, Maps
  <1>3. ASSUME NEW r \in Reqs, StoreSession(r) \/ TouchWrite(r)
        PROVE  contents'[i] = contents[i]
    <2>1. i # id[r]
      BY <1>3 DEF Holds, StoreSession, TouchWrite
    <2> QED
      BY <1>3, <2>1 DEF StoreSession, TouchWrite, TypeOK, Maps
  <1>4. CASE PruneDelete
    BY <1>4 DEF PruneDelete, LoggedOut
  <1>5. CASE Restart
    BY <1>5 DEF Restart, TypeOK
  <1>6. CASE [\/ \E r \in Reqs, b \in Browsers, k \in {"page", "login", "logout"} :
                    Send(r, b, k)
              \/ \E r \in Reqs : \/ GetSession(r) \/ Serve(r) \/ TouchRead(r)
                                 \/ TouchMissing(r)
              \/ \E s \in Savers : Save(s)
              \/ PruneCollect
              \/ Tick]_vars
    BY <1>1, <1>6 DEF Send, GetSession, Serve, TouchRead, TouchMissing, Save, SaveCreate,
                SaveEncode, SaveWrite, SaveFails, PruneCollect, Tick, vars
  <1> QED
    BY <1>1, <1>2, <1>3, <1>4, <1>5, <1>6 DEF Next, Handle, LoggedOut

\* A logout that is stored is final, but for requests that took their copy of
\* the session before it, and for a restart (hoard.go:173-175, http.go:69-71).
THEOREM LogoutIsFinal == Spec => LogoutHolds
  <1>1. IInv /\ [Next]_vars
           => [\A i \in Ids :
                  LoggedOut(i) /\ (\A r \in Reqs : ~ Holds(r, i))
                     => \/ LoggedOut(i)'
                        \/ contents'[i] = Absent
                        \/ restarts' # restarts]_vars
    BY LogoutStep
  <1> QED
    BY <1>1, Invariance, PTL DEF Spec, LogoutHolds

-----------------------------------------------------------------------------
(* UnreadableOnlyMidSave is inductive by itself: os.Create leaves a file   *)
(* that only the same saver, or a later one, makes whole again.            *)

\* The file is left unreadable by savers in the middle of a save only.
LEMMA StepUnreadable ==
    ASSUME Typed, [Next]_vars, UnreadableOnlyMidSave
    PROVE  UnreadableOnlyMidSave'
  <1> USE DEF Typed
  <1> SUFFICES ASSUME running', file' = Unreadable, faults' = 0
               PROVE  \E s \in Savers : pc'[s] \in {"encode", "write"}
    BY DEF UnreadableOnlyMidSave
  \* Whoever is not in the middle of a save disturbs no save.
  <1>1. ASSUME NEW x \in Savers, pc[x] \notin {"encode", "write"},
               running' = running, file' = file, faults' = faults,
               \A s \in Savers \ {x} : pc'[s] = pc[s]
        PROVE  \E s \in Savers : pc'[s] \in {"encode", "write"}
    BY <1>1 DEF UnreadableOnlyMidSave
  <1>2. ASSUME NEW s \in Savers, SaveCreate(s)
        PROVE  \E x \in Savers : pc'[x] \in {"encode", "write"}
    BY <1>2 DEF SaveCreate, Goto, TypeOK
  <1>3. ASSUME NEW s \in Savers, SaveEncode(s)
        PROVE  \E x \in Savers : pc'[x] \in {"encode", "write"}
    BY <1>3 DEF SaveEncode, Goto, TypeOK
  <1>4. ASSUME NEW s \in Savers, SaveWrite(s)
        PROVE  FALSE
    BY <1>4, NamesAssumption DEF SaveWrite, TypeOK
  <1>5. ASSUME NEW s \in Savers, SaveFails(s)
        PROVE  FALSE
    BY <1>5 DEF SaveFails, TypeOK
  <1>6. CASE Restart
    BY <1>6 DEF Restart
  <1>7. CASE UNCHANGED vars \/ Tick
    BY <1>7 DEF vars, Tick, UnreadableOnlyMidSave
  <1>8. CASE PruneCollect \/ PruneDelete
    <2>1. /\ pc[Janitor] \notin {"encode", "write"}
          /\ running' = running /\ file' = file /\ faults' = faults
          /\ \A s \in Savers \ {Janitor} : pc'[s] = pc[s]
      BY <1>8 DEF PruneCollect, PruneDelete, Goto, bounds, TypeOK, Savers
    <2> QED
      BY <1>1, <2>1 DEF Savers
  <1>9. ASSUME NEW r \in Reqs, NEW b \in Browsers, NEW k \in {"page", "login", "logout"},
               Send(r, b, k)
        PROVE  \E x \in Savers : pc'[x] \in {"encode", "write"}
    <2>1. /\ r \in Savers /\ pc[r] \notin {"encode", "write"}
          /\ running' = running /\ file' = file /\ faults' = faults
          /\ \A s \in Savers \ {r} : pc'[s] = pc[s]
      BY <1>9 DEF Send, Goto, bounds, TypeOK, Savers
    <2> QED
      BY <1>1, <2>1
  <1>10. ASSUME NEW r \in Reqs, Handle(r)
         PROVE  \E x \in Savers : pc'[x] \in {"encode", "write"}
    <2>1. /\ r \in Savers /\ pc[r] \notin {"encode", "write"}
          /\ running' = running /\ file' = file /\ faults' = faults
          /\ \A s \in Savers \ {r} : pc'[s] = pc[s]
      <3> USE DEF Goto, bounds, TypeOK, Savers
      <3>1. CASE GetSession(r)
        BY <3>1 DEF GetSession
      <3>2. CASE NewSession(r)
        BY <3>2 DEF NewSession, NewUnder
      <3>3. CASE Serve(r)
        BY <3>3 DEF Serve
      <3>4. CASE StoreSession(r)
        BY <3>4 DEF StoreSession
      <3>5. CASE TouchRead(r)
        BY <3>5 DEF TouchRead
      <3>6. CASE TouchMissing(r)
        BY <3>6 DEF TouchMissing, Reply, Over
      <3>7. CASE TouchWrite(r)
        BY <3>7 DEF TouchWrite
      <3> QED
        BY <1>10, <3>1, <3>2, <3>3, <3>4, <3>5, <3>6, <3>7 DEF Handle
    <2> QED
      BY <1>1, <2>1
  <1> QED
    BY <1>2, <1>3, <1>4, <1>5, <1>6, <1>7, <1>8, <1>9, <1>10 DEF Next, Save

\* The server can be started again unless it stopped in the middle of a save,
\* or a save has failed: savers that race leave a file that can be read.
THEOREM FileReadable == Spec => []UnreadableOnlyMidSave
  <1>1. Init => UnreadableOnlyMidSave
    <2>1. EmptyMap \in Maps
      BY DEF EmptyMap, Maps
    <2> QED
      BY <2>1, NamesAssumption DEF Init, UnreadableOnlyMidSave
  <1>2. Typed /\ [Next]_vars /\ UnreadableOnlyMidSave => UnreadableOnlyMidSave'
    BY StepUnreadable
  <1> QED
    BY <1>1, <1>2, InitTyped, StepTyped, PTL DEF Spec

-----------------------------------------------------------------------------
(***************************************************************************)
(* The inductive invariant of LoginSurvives.  While requests follow each   *)
(* other, nothing has failed and Prune has not run, a login a browser was  *)
(* told of is in the map, in the file unless a save has truncated it, in   *)
(* what a save is about to write, and in the copy of any request.          *)
(***************************************************************************)
\* In series one request is at work at a time.
OneAtATime ==
    pace = "serial" =>
        \A q, r \in Reqs : pc[q] # "idle" /\ pc[r] # "idle" => q = r

\* Before it is run, Prune is not at work.
JanitorWaits == prunes = 0 => pc[Janitor] = "idle"

\* Nobody is at work on a server that has stopped.
Up == \A s \in Savers : pc[s] # "idle" => running

\* A login is a dirty copy, so it is stored, not touched (http.go:69-76).
LoginStored ==
    \A r \in Reqs :
        kind[r] = "login" =>
            /\ pc[r] # "touched"
            /\ pc[r] = "finish" => sess[r].dirty
            /\ pc[r] \in {"finish", "create", "encode", "write"} /\ r \notin fresh
                  => sess[r].user = by[r]

Paced == OneAtATime /\ JanitorWaits /\ Up /\ LoginStored

LoginIn(m, i, b) == m[i] # Absent /\ m[i].user = b

\* In series, with no failing write and no Prune.
Calm == pace = "serial" /\ faults = 0 /\ prunes = 0

\* The login a request makes is in the map before its save begins.
LoginsWritten ==
    \A r \in Reqs :
        kind[r] = "login" /\ r \notin fresh =>
            /\ pc[r] \in {"create", "encode", "write"} => LoginIn(contents, id[r], by[r])
            /\ pc[r] = "write" => LoginIn(snap[r], id[r], by[r])

\* Who logs out is no longer owed a login.
LogoutsMeant ==
    \A r \in Reqs : pc[r] # "idle" /\ kind[r] = "logout" => acked[by[r]] = NoId

\* A login that a user was told of is wherever a restart or a request looks.
LoginsKept ==
    \A b \in Browsers :
        acked[b] # NoId =>
            /\ running => LoginIn(contents, acked[b], b)
            /\ file # Unreadable => LoginIn(file, acked[b], b)
            /\ \A s \in Savers : pc[s] = "write" => LoginIn(snap[s], acked[b], b)
            /\ \A r \in Reqs : id[r] = acked[b] /\ pc[r] \notin {"idle", "get"}
                                  => sess[r].user = b

\* The invariant behind LoginSurvives.
CalmInv ==
    IInv /\ Paced /\ (Calm => LoginsWritten /\ LogoutsMeant /\ LoginsKept)

\* CalmInv holds at first.
LEMMA InitCalm == Init => CalmInv
  BY InitIInv, JanitorAssumption
  DEF Init, CalmInv, Paced, OneAtATime, JanitorWaits, Up, LoginStored,
      LoginsWritten, LogoutsMeant, LoginsKept, Savers

\* Requests that follow each other go on doing so, and only a dirty copy has a
\* new login.
LEMMA StepPaced ==
    ASSUME Typed, Paced, [Next]_vars
    PROVE  Paced'
  <1> USE JanitorAssumption
      DEF Paced, OneAtATime, JanitorWaits, Up, LoginStored, Typed, Savers
  <1>1. CASE UNCHANGED vars \/ Tick
    BY <1>1 DEF vars, Tick
  <1>2. ASSUME NEW r \in Reqs, NEW b \in Browsers, NEW k \in {"page", "login", "logout"},
               Send(r, b, k)
        PROVE  Paced'
    BY <1>2 DEF Send, Goto, bounds, TypeOK
  <1>3. ASSUME NEW r \in Reqs, GetSession(r)
        PROVE  Paced'
    BY <1>3 DEF GetSession, Goto, bounds, TypeOK
  <1>4. ASSUME NEW r \in Reqs, NEW i \in Ids \ used, NewUnder(r, i)
        PROVE  Paced'
    <2>1. /\ pc[r] = "get"
          /\ fresh' = fresh \cup {r}
          /\ pc' = [pc EXCEPT ![r] = "create"]
          /\ sess' = [sess EXCEPT ![r] = sess'[r]]
          /\ UNCHANGED <<kind, by, running, pace, prunes>>
      BY <1>4 DEF NewUnder, Goto, bounds, TypeOK
    <2> QED
      BY <2>1 DEF TypeOK
  <1>5. ASSUME NEW r \in Reqs, Serve(r)
        PROVE  Paced'
    <2>1. kind[r] = "login" => sess'[r].dirty /\ sess'[r].user = by[r]
      BY <1>5, ServedSession DEF Serve, InHand, TypeOK
    <2>2. /\ pc[r] = "serve"
          /\ pc' = [pc EXCEPT ![r] = "finish"]
          /\ \A q \in Reqs \ {r} : sess'[q] = sess[q]
          /\ UNCHANGED <<kind, by, running, pace, prunes, fresh>>
      BY <1>5 DEF Serve, Goto, bounds, TypeOK
    <2> QED
      BY <2>1, <2>2 DEF TypeOK
  <1>6. ASSUME NEW r \in Reqs, StoreSession(r)
        PROVE  Paced'
    BY <1>6 DEF StoreSession, Goto, bounds, TypeOK
  <1>7. ASSUME NEW r \in Reqs, TouchRead(r)
        PROVE  Paced'
    <2>1. /\ pc[r] = "finish" /\ ~ sess[r].dirty
          /\ pc' = [pc EXCEPT ![r] = "touched"]
          /\ \A q \in Reqs \ {r} : sess'[q] = sess[q]
          /\ UNCHANGED <<kind, by, running, pace, prunes, fresh>>
      BY <1>7 DEF TouchRead, Goto, bounds, TypeOK
    <2> QED
      BY <2>1 DEF TypeOK
  <1>8. ASSUME NEW r \in Reqs, TouchMissing(r)
        PROVE  Paced'
    BY <1>8 DEF TouchMissing, Reply, Over, Goto, bounds, TypeOK
  <1>9. ASSUME NEW r \in Reqs, TouchWrite(r)
        PROVE  Paced'
    BY <1>9 DEF TouchWrite, Goto, bounds, TypeOK
  <1>10. ASSUME NEW s \in Savers, SaveCreate(s)
         PROVE  Paced'
    BY <1>10 DEF SaveCreate, Goto, bounds, TypeOK
  <1>11. ASSUME NEW s \in Savers, SaveEncode(s)
         PROVE  Paced'
    BY <1>11 DEF SaveEncode, Goto, bounds, TypeOK
  <1>12. ASSUME NEW s \in Savers, NEW failed \in BOOLEAN, pc[s] \in {"create", "write"},
                AfterSave(s, failed), UNCHANGED <<running, pace, prunes>>
         PROVE  Paced'
    <2>1. CASE s = Janitor /\ Goto(s, "idle") /\ UNCHANGED <<kind, by, sess, fresh>>
      BY <1>12, <2>1 DEF Goto, TypeOK
    <2>2. CASE /\ s \in fresh /\ fresh' = fresh \ {s} /\ Goto(s, "serve")
               /\ UNCHANGED <<kind, by, sess>>
      BY <1>12, <2>2 DEF Goto, TypeOK
    <2>3. CASE s \in Reqs /\ Over(s) /\ fresh' = fresh \ {s}
      BY <1>12, <2>3 DEF Over, Goto, TypeOK
    <2> QED
      BY <1>12, <2>1, <2>2, <2>3 DEF AfterSave, Reply, TypeOK
  <1>13. ASSUME NEW s \in Savers, SaveWrite(s)
         PROVE  Paced'
    BY <1>12, <1>13 DEF SaveWrite, bounds
  <1>14. ASSUME NEW s \in Savers, SaveFails(s)
         PROVE  Paced'
    BY <1>12, <1>14 DEF SaveFails
  <1>15. CASE PruneCollect
    BY <1>15 DEF PruneCollect, Goto, TypeOK
  <1>16. CASE PruneDelete
    BY <1>16 DEF PruneDelete, Goto, bounds, TypeOK
  <1>17. CASE Restart
    BY <1>17 DEF Restart
  <1> QED
    BY <1>1, <1>2, <1>3, <1>4, <1>5, <1>6, <1>7, <1>8, <1>9, <1>10, <1>11,
       <1>13, <1>14, <1>15, <1>16, <1>17
    DEF Next, Handle, Save, NewSession

\* In a calm serial run the other requests and the janitor are idle.
LEMMA OthersIdle ==
    ASSUME Typed, Paced, Calm, NEW s \in Reqs, pc[s] # "idle"
    PROVE  \A x \in Savers \ {s} : pc[x] = "idle"
  BY DEF Paced, OneAtATime, JanitorWaits, Calm, Savers

\* Every step keeps CalmInv: the one request there is keeps every login told.
LEMMA StepCalm == CalmInv /\ [Next]_vars => CalmInv'
  <1> SUFFICES ASSUME CalmInv, [Next]_vars, Calm'
               PROVE  (LoginsWritten /\ LogoutsMeant /\ LoginsKept)'
    BY StepIInv, StepPaced DEF CalmInv, IInv
  <1> USE DEF CalmInv
  <1>0. Typed /\ Typed' /\ TypeOK /\ TypeOK' /\ InHand /\ Paced /\ Paced'
    BY StepTyped, StepPaced DEF IInv, Typed
  <1>a. ASSUME NEW r \in Reqs, NEW b \in Browsers, acked[b] # NoId, id[r] = acked[b],
               pc[r] # "idle"
        PROVE  by[r] = b
    BY <1>0, <1>a DEF IInv, OneOwner, Has, InHand, TypeOK
  <1>1. CASE UNCHANGED vars \/ Tick
    BY <1>1 DEF vars, Tick, Calm, LoginsWritten, LogoutsMeant, LoginsKept
  <1>2. ASSUME NEW r \in Reqs, NEW b \in Browsers, NEW k \in {"page", "login", "logout"},
               Send(r, b, k)
        PROVE  (LoginsWritten /\ LogoutsMeant /\ LoginsKept)'
    <2>1. /\ Calm
          /\ pc[r] = "idle" /\ pc' = [pc EXCEPT ![r] = "get"]
          /\ by' = [by EXCEPT ![r] = b]
          /\ kind' = [kind EXCEPT ![r] = k]
          /\ \A q \in Reqs \ {r} : id'[q] = id[q]
          /\ acked' = IF k = "logout" THEN [acked EXCEPT ![b] = NoId] ELSE acked
          /\ \A x \in Reqs : pc[x] = "idle"
          /\ UNCHANGED <<contents, file, running, snap, sess, fresh>>
      BY <1>0, <1>2 DEF Send, Goto, bounds, Calm, TypeOK, InHand
    <2>2. LoginsWritten' /\ LogoutsMeant'
      BY <1>0, <2>1 DEF LoginsWritten, LogoutsMeant, TypeOK, Savers
    <2>3. LoginsKept'
      BY <1>0, <2>1 DEF LoginsKept, TypeOK, Savers
    <2> QED
      BY <2>2, <2>3
  <1>3. ASSUME NEW r \in Reqs, GetSession(r) \/ TouchRead(r)
        PROVE  (LoginsWritten /\ LogoutsMeant /\ LoginsKept)'
    <2>1. /\ Calm /\ running
          /\ pc[r] \in {"get", "finish"} /\ id[r] \in Ids
          /\ pc' = [pc EXCEPT ![r] = pc'[r]] /\ pc'[r] \in {"serve", "touched"}
          /\ contents[id[r]] \in Sessions
          /\ sess' = [sess EXCEPT ![r] = sess'[r]]
          /\ UNCHANGED <<contents, file, running, snap, by, kind, id, fresh, acked>>
      BY <1>0, <1>3, Held
      DEF GetSession, TouchRead, Known, Goto, bounds, Calm, TypeOK, InHand, Paced, Up, Savers
    <2>2. sess'[r].user = contents[id[r]].user
      BY <1>0, <1>3, <2>1 DEF GetSession, TouchRead, TypeOK, Sessions
    <2>3. LoginsWritten' /\ LogoutsMeant'
      BY <1>0, <2>1 DEF LoginsWritten, LogoutsMeant, TypeOK, Savers
    <2>4. LoginsKept'
      BY <1>0, <2>1, <2>2 DEF LoginsKept, LoginIn, TypeOK, Savers
    <2> QED
      BY <2>3, <2>4
  <1>4. ASSUME NEW r \in Reqs, NEW i \in Ids \ used, NewUnder(r, i)
        PROVE  (LoginsWritten /\ LogoutsMeant /\ LoginsKept)'
    <2>1. /\ Calm /\ pc[r] = "get"
          /\ pc' = [pc EXCEPT ![r] = "create"]
          /\ fresh' = fresh \cup {r}
          /\ id' = [id EXCEPT ![r] = i]
          /\ \A j \in Ids \ {i} : contents'[j] = contents[j]
          /\ \A q \in Reqs \ {r} : sess'[q] = sess[q]
          /\ UNCHANGED <<file, running, snap, by, kind, acked>>
      BY <1>0, <1>4 DEF NewUnder, Goto, bounds, Calm, TypeOK, Maps
    <2>2. \A x \in Savers \ {r} : pc[x] = "idle"
      BY <1>0, <2>1, OthersIdle
    <2>3. \A b \in Browsers : acked[b] # i
      BY DEF IInv, NewIdsAreNew
    <2>4. LoginsWritten' /\ LogoutsMeant'
      BY <1>0, <2>1, <2>2 DEF LoginsWritten, LogoutsMeant, TypeOK, Savers
    <2>5. LoginsKept'
      BY <1>0, <2>1, <2>2, <2>3, SMTT(30) DEF LoginsKept, LoginIn, TypeOK, Savers
    <2> QED
      BY <2>4, <2>5
  <1>5. ASSUME NEW r \in Reqs, Serve(r)
        PROVE  (LoginsWritten /\ LogoutsMeant /\ LoginsKept)'
    <2>1. /\ Calm /\ pc[r] = "serve"
          /\ pc' = [pc EXCEPT ![r] = "finish"]
          /\ sess' = [sess EXCEPT ![r] = Served(kind[r], by[r], sess[r])]
          /\ by[r] \in Browsers
          /\ UNCHANGED <<contents, file, running, snap, by, kind, id, fresh, acked>>
      BY <1>0, <1>5 DEF Serve, Goto, bounds, Calm, InHand
    <2>2. \A b \in Browsers :
             acked[b] # NoId /\ id[r] = acked[b] => sess'[r].user = b
      <3> SUFFICES ASSUME NEW b \in Browsers, acked[b] # NoId, id[r] = acked[b]
                   PROVE  sess'[r].user = b
        OBVIOUS
      <3>1. by[r] = b
        BY <1>a, <2>1
      <3>2. kind[r] # "logout"
        BY <2>1, <3>1 DEF LogoutsMeant
      <3>3. sess[r].user = b
        BY <2>1 DEF LoginsKept
      <3> QED
        BY <1>0, <2>1, <3>1, <3>2, <3>3, ServedSession DEF TypeOK
    <2>3. LoginsWritten' /\ LogoutsMeant'
      BY <1>0, <2>1 DEF LoginsWritten, LogoutsMeant, TypeOK, Savers
    <2>4. LoginsKept'
      BY <1>0, <2>1, <2>2 DEF LoginsKept, TypeOK, Savers
    <2> QED
      BY <2>3, <2>4
  <1>6. ASSUME NEW r \in Reqs, StoreSession(r) \/ TouchWrite(r)
        PROVE  (LoginsWritten /\ LogoutsMeant /\ LoginsKept)'
    <2>1. /\ Calm /\ pc[r] \in {"finish", "touched"} /\ id[r] \in Ids
          /\ pc' = [pc EXCEPT ![r] = "create"]
          /\ contents' = [contents EXCEPT ![id[r]] = sess[r]]
          /\ UNCHANGED <<file, running, snap, by, kind, id, sess, fresh, acked>>
      BY <1>0, <1>6 DEF StoreSession, TouchWrite, Goto, bounds, Calm, InHand
    <2>2. \A x \in Savers \ {r} : pc[x] = "idle"
      BY <1>0, <2>1, OthersIdle
    <2>3. sess[r] # Absent
      BY <1>0, NamesAssumption DEF TypeOK
    <2>4. r \notin fresh /\ kind[r] = "login" => sess[r].user = by[r]
      BY <1>0, <2>1 DEF Paced, LoginStored
    <2>5. LoginsWritten' /\ LogoutsMeant'
      BY <1>0, <2>1, <2>2, <2>3, <2>4
      DEF LoginsWritten, LogoutsMeant, LoginIn, TypeOK, Savers, Maps
    <2>6. LoginsKept'
      BY <1>0, <2>1, <2>2, <2>3 DEF LoginsKept, LoginIn, TypeOK, Savers, Maps
    <2> QED
      BY <2>5, <2>6
  <1>7. ASSUME NEW r \in Reqs, TouchMissing(r)
        PROVE  (LoginsWritten /\ LogoutsMeant /\ LoginsKept)'
    <2>1. /\ Calm /\ pc[r] = "finish" /\ kind[r] # "login"
          /\ Over(r)
          /\ UNCHANGED <<contents, file, running, snap, fresh, acked>>
      BY <1>0, <1>7 DEF TouchMissing, Reply, bounds, Calm, Paced, LoginStored
    <2>2. \A x \in Savers \ {r} : pc[x] = "idle"
      BY <1>0, <2>1, OthersIdle
    <2>3. \A x \in Savers : pc'[x] = "idle"
      BY <1>0, <2>1, <2>2 DEF Over, Goto, TypeOK
    <2> QED
      BY <2>1, <2>3 DEF LoginsWritten, LogoutsMeant, LoginsKept, Savers
  <1>8. ASSUME NEW s \in Savers, SaveCreate(s)
        PROVE  (LoginsWritten /\ LogoutsMeant /\ LoginsKept)'
    BY <1>0, <1>8 DEF SaveCreate, Goto, bounds, Calm, TypeOK, Savers,
                      LoginsWritten, LogoutsMeant, LoginsKept
  <1>9. ASSUME NEW s \in Savers, SaveEncode(s)
        PROVE  (LoginsWritten /\ LogoutsMeant /\ LoginsKept)'
    <2>1. /\ Calm /\ pc[s] = "encode" /\ running
          /\ pc' = [pc EXCEPT ![s] = "write"]
          /\ snap' = [snap EXCEPT ![s] = Saved(contents)]
          /\ UNCHANGED <<contents, file, running, by, kind, id, sess, fresh, acked>>
      BY <1>0, <1>9 DEF SaveEncode, Goto, bounds, Calm, Paced, Up
    <2>2. \A i \in Ids, b \in Browsers :
             LoginIn(contents, i, b) => LoginIn(Saved(contents), i, b)
      BY <1>0, SavedMap DEF LoginIn, TypeOK
    <2>3. LoginsWritten' /\ LogoutsMeant'
      BY <1>0, <2>1, <2>2 DEF LoginsWritten, LogoutsMeant, TypeOK, InHand, Savers
    <2>4. LoginsKept'
      BY <1>0, <2>1, <2>2 DEF LoginsKept, TypeOK, Savers
    <2> QED
      BY <2>3, <2>4
  <1>10. ASSUME NEW s \in Savers, SaveWrite(s)
         PROVE  (LoginsWritten /\ LogoutsMeant /\ LoginsKept)'
    <2>1. /\ Calm /\ pc[s] = "write"
          /\ file' = snap[s]
          /\ AfterSave(s, FALSE)
          /\ UNCHANGED <<contents, running>>
      BY <1>10 DEF SaveWrite, bounds, Calm
    <2>2. s \in Reqs
      BY <1>0, <2>1 DEF Paced, JanitorWaits, Calm, Savers
    <2>3. \A x \in Savers \ {s} : pc[x] = "idle"
      BY <1>0, <2>1, <2>2, OthersIdle
    <2>4. CASE /\ s \in fresh /\ fresh' = fresh \ {s} /\ Goto(s, "serve")
               /\ UNCHANGED <<by, kind, id, sess, acked>>
      BY <1>0, <2>1, <2>3, <2>4
      DEF Goto, LoginsWritten, LogoutsMeant, LoginsKept, TypeOK, Savers
    <2>5. CASE s \in Reqs \ fresh /\ Reply(s)
      <3>1. \A x \in Savers : pc'[x] = "idle"
        BY <1>0, <2>3, <2>5 DEF Reply, Over, Goto, TypeOK
      <3>2. LoginsWritten' /\ LogoutsMeant'
        BY <3>1 DEF LoginsWritten, LogoutsMeant, Savers
      <3>3. by[s] \in Browsers
        BY <1>0, <2>1, <2>2 DEF InHand
      <3>4. \A b \in Browsers :
               \/ acked'[b] = acked[b]
               \/ b = by[s] /\ kind[s] = "login" /\ acked'[b] = id[s]
        BY <1>0, <2>5, <3>3 DEF Reply, TypeOK
      <3>5. kind[s] = "login" => /\ LoginIn(contents, id[s], by[s])
                                 /\ LoginIn(snap[s], id[s], by[s])
        BY <2>1, <2>2, <2>5 DEF LoginsWritten
      <3>6. LoginsKept'
        BY <2>1, <3>1, <3>4, <3>5 DEF LoginsKept, Savers
      <3> QED
        BY <3>2, <3>6
    <2> QED
      BY <2>1, <2>2, <2>4, <2>5, JanitorAssumption DEF AfterSave
  <1>11. ASSUME NEW s \in Savers, SaveFails(s)
         PROVE  FALSE
    BY <1>0, <1>11 DEF SaveFails, Calm, TypeOK
  <1>12. CASE PruneCollect
    BY <1>0, <1>12 DEF PruneCollect, Calm, TypeOK
  <1>13. CASE PruneDelete
    BY <1>0, <1>13 DEF PruneDelete, Calm, bounds, Paced, JanitorWaits
  <1>14. CASE Restart
    BY <1>0, <1>14 DEF Restart, Load, Calm, LoginsWritten, LogoutsMeant, LoginsKept, Savers
  <1> QED
    BY <1>1, <1>2, <1>3, <1>4, <1>5, <1>6, <1>7, <1>8, <1>9, <1>10, <1>11,
       <1>12, <1>13, <1>14
    DEF Next, Handle, Save, NewSession

\* In a calm serial run a save that has begun leaves a file that cannot be read until
\* it writes, as there is no other.
MidSaveTorn ==
    Calm => \A s \in Savers : pc[s] \in {"encode", "write"} => file = Unreadable

\* Every step keeps MidSaveTorn.
LEMMA StepTorn == CalmInv /\ MidSaveTorn /\ [Next]_vars => MidSaveTorn'
  <1> SUFFICES ASSUME CalmInv, MidSaveTorn, [Next]_vars, Calm',
                      NEW s \in Savers, pc'[s] \in {"encode", "write"}
               PROVE  file' = Unreadable
    BY DEF MidSaveTorn
  <1>0. Typed /\ TypeOK /\ Paced
    BY DEF CalmInv, IInv, Typed
  \* A save that was in the middle stays there only if the file stays as it is.
  <1>1. ASSUME Calm, pc'[s] = pc[s], file' = file PROVE file' = Unreadable
    BY <1>1 DEF MidSaveTorn
  <1>2. CASE UNCHANGED vars \/ Tick
    <2>1. Calm /\ pc' = pc /\ file' = file
      BY <1>2 DEF vars, Tick, Calm
    <2> QED
      BY <1>1, <2>1
  <1>3. ASSUME NEW r \in Reqs, NEW b \in Browsers, NEW k \in {"page", "login", "logout"},
               Send(r, b, k)
        PROVE  file' = Unreadable
    <2>1. Calm /\ file' = file /\ pc' = [pc EXCEPT ![r] = "get"]
      BY <1>3 DEF Send, Goto, bounds, Calm
    <2> QED
      BY <1>0, <1>1, <2>1 DEF TypeOK
  <1>4. ASSUME NEW r \in Reqs, Handle(r) PROVE file' = Unreadable
    <2>1. /\ Calm /\ file' = file
          /\ \E l \in {"serve", "create", "finish", "touched", "idle"} :
                pc' = [pc EXCEPT ![r] = l]
      BY <1>4 DEF Handle, GetSession, NewSession, NewUnder, Serve, StoreSession, TouchRead,
                  TouchMissing, TouchWrite, Reply, Over, Goto, bounds, Calm
    <2> QED
      BY <1>0, <1>1, <2>1 DEF TypeOK
  <1>5. ASSUME NEW x \in Savers, SaveCreate(x) PROVE file' = Unreadable
    BY <1>5 DEF SaveCreate
  <1>6. ASSUME NEW x \in Savers, SaveEncode(x) PROVE file' = Unreadable
    <2>1. Calm /\ file' = file /\ pc[x] = "encode"
      BY <1>6 DEF SaveEncode, bounds, Calm
    <2> QED
      BY <2>1 DEF MidSaveTorn
  <1>7. ASSUME NEW x \in Savers, SaveWrite(x) PROVE file' = Unreadable
    <2>1. Calm /\ pc[x] = "write"
      BY <1>7 DEF SaveWrite, bounds, Calm
    <2>2. x \in Reqs
      BY <1>0, <2>1 DEF Savers, Paced, JanitorWaits, Calm
    <2>3. \A y \in Savers \ {x} : pc[y] = "idle"
      BY <1>0, <2>1, <2>2, OthersIdle
    <2>4. pc' = [pc EXCEPT ![x] = "idle"] \/ pc' = [pc EXCEPT ![x] = "serve"]
      BY <1>7 DEF SaveWrite, AfterSave, Reply, Over, Goto
    <2> QED
      BY <1>0, <2>3, <2>4 DEF TypeOK
  <1>8. ASSUME NEW x \in Savers, SaveFails(x) PROVE FALSE
    BY <1>0, <1>8 DEF SaveFails, Calm, TypeOK
  <1>9. CASE PruneCollect
    BY <1>0, <1>9 DEF PruneCollect, Calm, TypeOK
  <1>10. CASE PruneDelete
    BY <1>0, <1>10 DEF PruneDelete, Calm, bounds, Paced, JanitorWaits
  <1>11. CASE Restart
    BY <1>11 DEF Restart
  <1> QED
    BY <1>2, <1>3, <1>4, <1>5, <1>6, <1>7, <1>8, <1>9, <1>10, <1>11 DEF Next, Save

\* Only a restart stops the server; it fails no write.
LEMMA RunsOn ==
    ASSUME [Next]_vars
    PROVE  /\ pace' = pace
           /\ Restart \/ UNCHANGED <<running, restarts>>
           /\ Restart => faults' = faults
  <1>1. CASE UNCHANGED vars \/ Tick
    BY <1>1 DEF vars, Tick
  <1>2. ASSUME NEW r \in Reqs, NEW b \in Browsers, NEW k \in {"page", "login", "logout"},
               Send(r, b, k)
        PROVE  UNCHANGED <<pace, running, restarts, faults>>
    BY <1>2 DEF Send, bounds
  <1>3. ASSUME NEW r \in Reqs, Handle(r) PROVE UNCHANGED <<pace, running, restarts, faults>>
    BY <1>3 DEF Handle, GetSession, NewSession, NewUnder, Serve, StoreSession, TouchRead,
                TouchMissing, TouchWrite, bounds
  <1>4. ASSUME NEW x \in Savers, Save(x) PROVE UNCHANGED <<pace, running, restarts>>
    BY <1>4 DEF Save, SaveCreate, SaveEncode, SaveWrite, SaveFails, bounds
  <1>5. CASE PruneCollect \/ PruneDelete
    BY <1>5 DEF PruneCollect, PruneDelete, bounds
  <1>6. CASE Restart
    BY <1>6 DEF Restart
  <1> QED
    BY <1>1, <1>2, <1>3, <1>4, <1>5, <1>6 DEF Next, Restart

\* A user who was told that the login succeeded stays logged in, and a restart takes the
\* login away exactly if the server was stopped between the creation of the file and the
\* write; until Prune is run or a write fails, as long as requests follow each other
\* (map.go:67-82, 132-142).
THEOREM ToldLoginSurvives == Spec => LoginSurvives
  <1>1. CalmInv /\ CalmInv' /\ MidSaveTorn /\ UnreadableOnlyMidSave /\ [Next]_vars =>
            [\A b \in Browsers :
                /\ pace = "serial" /\ running /\ faults' = 0 /\ prunes' = 0
                /\ acked'[b] # NoId
                => (LoggedIn(b)' <=> \/ restarts' = restarts
                                    \/ \A s \in Savers : pc[s] \notin {"encode", "write"})]_vars
    <2> SUFFICES ASSUME CalmInv, CalmInv', MidSaveTorn, UnreadableOnlyMidSave, [Next]_vars,
                        pace = "serial", running, faults' = 0, prunes' = 0,
                        NEW b \in Browsers, acked'[b] # NoId
                 PROVE  LoggedIn(b)' <=>
                            \/ restarts' = restarts
                            \/ \A s \in Savers : pc[s] \notin {"encode", "write"}
      OBVIOUS
    <2>1. running' => LoggedIn(b)'
      <3>1. Calm'
        BY RunsOn DEF Calm
      <3>2. LoginsKept'
        BY <3>1 DEF CalmInv
      <3> QED
        BY <3>2 DEF LoginsKept, LoginIn, LoggedIn
    <2>2. CASE Restart
      <3>1. restarts' # restarts
        <4>1. restarts \in Nat /\ restarts' = restarts + 1
          BY <2>2, BoundsAssumption DEF Restart, CalmInv, IInv, Typed, TypeOK
        <4> QED
          BY <4>1
      <3>2. Calm
        BY <2>2 DEF Restart, Calm
      <3>3. file = Unreadable <=> \E s \in Savers : pc[s] \in {"encode", "write"}
        BY <3>2 DEF MidSaveTorn, UnreadableOnlyMidSave, Calm
      <3>4. running' <=> file # Unreadable
        BY <2>2 DEF Restart
      <3> QED
        BY <2>1, <3>1, <3>3, <3>4 DEF LoggedIn
    <2>3. CASE ~ Restart
      BY <2>1, <2>3, RunsOn
    <2> QED
      BY <2>2, <2>3
  <1>2. Init => MidSaveTorn
    BY DEF Init, MidSaveTorn
  <1> QED
    BY <1>1, <1>2, FileReadable, InitCalm, StepCalm, StepTorn, PTL
    DEF Spec, LoginSurvives

-----------------------------------------------------------------------------
(***************************************************************************)
(* The inductive invariant of AnonymousKept, until the server is stopped.  *)
(* A session a request works with was seen within the lifetime of a        *)
(* cookie, which is too lately for Prune to collect it, and no hours pass  *)
(* in a request; the reply sets the cookie when the session has just been  *)
(* seen, or the request that sets it early is about to see it.  When       *)
(* requests race Prune does not run, and nothing leaves the map.           *)
(***************************************************************************)
\* Session i is there and was used less than a lifetime ago.
Recent(i) ==
    /\ contents[i] # Absent
    /\ now - contents[i].lastSeen <= Lifetime
    /\ i \notin stale

\* The session of a request at work is recent, and marked as used in time.
RequestsSeen ==
    \A r \in Reqs :
        id[r] # NoId /\ id[r] \notin dirtied =>
            /\ Recent(id[r])
            /\ pc[r] \in {"create", "encode", "write"}
                  => contents[id[r]].lastSeen = now
            /\ pc[r] = "touched" => sess[r].lastSeen = now

\* The session of a valid cookie was used since the cookie was set, or is just now.
CookiesSeen ==
    \A b \in Browsers :
        Valid(b) /\ cookie[b].id \notin dirtied =>
            /\ contents[cookie[b].id] # Absent
            /\ cookie[b].id \notin stale
            /\ \/ contents[cookie[b].id].lastSeen >= cookie[b].set
               \/ \E r \in Reqs : /\ id[r] = cookie[b].id
                                  /\ pc[r] \in {"finish", "touched"}

\* No cookie is from the future.
CookieTimes == \A b \in Browsers : cookie[b].set <= now

\* While no time goes by, everything that was made is still there.
NothingPruned ==
    /\ stale = {}
    /\ \A r \in Reqs : id[r] # NoId => contents[id[r]] # Absent
    /\ \A b \in Browsers : cookie[b].id # NoId => contents[cookie[b].id] # Absent

\* The invariant behind AnonymousKept.
SeenInv ==
    /\ IInv /\ Paced /\ CookieTimes
    /\ restarts = 0 /\ pace = "serial" => RequestsSeen /\ CookiesSeen
    /\ restarts = 0 /\ pace # "serial" => NothingPruned

\* A cookie stays, or a request whose handler was reached sets it anew.
LEMMA CookieStep ==
    ASSUME Typed, [Next]_vars, NEW b \in Browsers, cookie'[b] # cookie[b]
    PROVE  \E r \in Reqs : /\ by[r] = b /\ pc[r] \notin {"idle", "get"}
                           /\ cookie'[b] = [id |-> id[r], set |-> now]
                           /\ now' = now /\ contents' = contents
                           /\ dirtied' = dirtied /\ stale' = stale
  <1> USE DEF Typed
  <1>1. ASSUME NEW r \in Reqs, pc[r] \notin {"idle", "get"},
               UNCHANGED cookie \/ SetCookie(r)
        PROVE  by[r] = b /\ cookie'[b] = [id |-> id[r], set |-> now]
    BY <1>1 DEF SetCookie, TypeOK, InHand
  <1>2. ASSUME NEW r \in Reqs, Serve(r)
        PROVE  /\ by[r] = b /\ cookie'[b] = [id |-> id[r], set |-> now]
               /\ now' = now /\ contents' = contents
               /\ dirtied' = dirtied /\ stale' = stale
    BY <1>1, <1>2 DEF Serve, bounds
  <1>3. ASSUME NEW r \in Reqs, TouchMissing(r)
        PROVE  /\ by[r] = b /\ cookie'[b] = [id |-> id[r], set |-> now]
               /\ now' = now /\ contents' = contents
               /\ dirtied' = dirtied /\ stale' = stale
    BY <1>1, <1>3 DEF TouchMissing, Reply, bounds
  <1>4. ASSUME NEW s \in Savers, Save(s)
        PROVE  /\ s \in Reqs
               /\ by[s] = b /\ cookie'[b] = [id |-> id[s], set |-> now]
               /\ now' = now /\ contents' = contents
               /\ dirtied' = dirtied /\ stale' = stale
    <2>1. SaveWrite(s) \/ SaveFails(s)
      BY <1>4 DEF Save, SaveCreate, SaveEncode
    <2>2. /\ s \in Reqs /\ Reply(s) /\ pc[s] \in {"create", "write"}
          /\ now' = now /\ contents' = contents
          /\ dirtied' = dirtied /\ stale' = stale
      BY <2>1 DEF SaveWrite, SaveFails, AfterSave, bounds
    <2> QED
      BY <1>1, <2>2 DEF Reply
  <1>5. CASE UNCHANGED cookie
    BY <1>5
  <1>6. ASSUME NEW r \in Reqs, Handle(r)
        PROVE  UNCHANGED cookie \/ Serve(r) \/ TouchMissing(r)
    BY <1>6 DEF Handle, GetSession, NewSession, NewUnder, StoreSession, TouchRead, TouchWrite
  <1>7. CASE \/ \E r \in Reqs, c \in Browsers, k \in {"page", "login", "logout"} : Send(r, c, k)
             \/ PruneCollect \/ PruneDelete \/ Restart \/ Tick \/ UNCHANGED vars
    BY <1>7 DEF Send, PruneCollect, PruneDelete, Restart, Tick, vars
  <1>8. ASSUME NEW r \in Reqs, Serve(r) \/ TouchMissing(r)
        PROVE  pc[r] \notin {"idle", "get"}
    BY <1>8 DEF Serve, TouchMissing
  <1>9. ASSUME NEW s \in Reqs, Save(s)
        PROVE  pc[s] \notin {"idle", "get"}
    BY <1>9 DEF Save, SaveCreate, SaveEncode, SaveWrite, SaveFails
  <1> QED
    BY <1>2, <1>3, <1>4, <1>5, <1>6, <1>7, <1>8, <1>9 DEF Next

\* A session leaves the map in Prune and in a restart only.
LEMMA ContentsStep ==
    ASSUME Typed, [Next]_vars, NEW i \in Ids, contents[i] # Absent, contents'[i] = Absent
    PROVE  Restart \/ (PruneDelete /\ i \in stale)
  <1> USE NamesAssumption DEF Typed
  <1>1. ASSUME NEW r \in Reqs, NEW j \in Ids, NewUnder(r, j)
        PROVE  FALSE
    <2>1. [Blank EXCEPT !.lastSeen = now] \in Sessions
      BY BlankSession DEF Sessions, TypeOK
    <2> QED
      BY <1>1, <2>1 DEF NewUnder, TypeOK, Maps
  <1>2. ASSUME NEW r \in Reqs, StoreSession(r) \/ TouchWrite(r)
        PROVE  FALSE
    BY <1>2 DEF StoreSession, TouchWrite, TypeOK, Maps
  <1>3. CASE PruneDelete
    BY <1>3 DEF PruneDelete
  <1>4. CASE UNCHANGED contents
    BY <1>4
  <1>5. ASSUME NEW r \in Reqs, Handle(r)
        PROVE  \/ UNCHANGED contents
               \/ NewSession(r) \/ StoreSession(r) \/ TouchWrite(r)
    BY <1>5 DEF Handle, GetSession, Serve, TouchRead, TouchMissing
  <1>6. ASSUME NEW s \in Savers, Save(s)
        PROVE  UNCHANGED contents
    BY <1>6 DEF Save, SaveCreate, SaveEncode, SaveWrite, SaveFails
  <1>7. CASE \/ \E r \in Reqs, b \in Browsers, k \in {"page", "login", "logout"} : Send(r, b, k)
             \/ PruneCollect \/ Tick \/ UNCHANGED vars
    BY <1>7 DEF Send, PruneCollect, Tick, vars
  <1> QED
    BY <1>1, <1>2, <1>3, <1>4, <1>5, <1>6, <1>7 DEF Next, NewSession

\* SeenInv holds at first.
LEMMA InitSeen == Init => SeenInv
  <1> SUFFICES ASSUME Init PROVE SeenInv
    OBVIOUS
  <1>1. IInv /\ Paced
    BY InitCalm DEF CalmInv
  <1> QED
    BY <1>1 DEF Init, SeenInv, CookieTimes, RequestsSeen, CookiesSeen, NothingPruned, Valid

\* A request keeps its ID until it ends, gets it from a cookie that is valid, or
\* as a new one.
LEMMA IdStep ==
    ASSUME Typed, [Next]_vars, NEW r \in Reqs, id'[r] # id[r], id'[r] # NoId
    PROVE  \/ \E b \in Browsers, k \in {"page", "login", "logout"} :
                 Send(r, b, k) /\ Valid(b) /\ id'[r] = cookie[b].id
           \/ NewUnder(r, id'[r]) /\ id'[r] \in Ids \ used
  <1> USE DEF Typed
  <1>1. ASSUME NEW q \in Reqs, NEW b \in Browsers, NEW k \in {"page", "login", "logout"},
               Send(q, b, k)
        PROVE  q = r /\ Valid(b) /\ id'[r] = cookie[b].id
    BY <1>1 DEF Send, TypeOK
  <1>2. ASSUME NEW q \in Reqs, NEW i \in Ids \ used, NewUnder(q, i)
        PROVE  q = r /\ id'[r] = i
    <2>1. id' = [id EXCEPT ![q] = i]
      BY <1>2 DEF NewUnder
    <2> QED
      BY <2>1 DEF TypeOK
  <1>3. ASSUME NEW q \in Reqs, Handle(q)
        PROVE  NewSession(q)
    BY <1>3 DEF Handle, GetSession, Serve, StoreSession, TouchRead, TouchMissing, TouchWrite,
                Reply, Over, TypeOK
  <1>4. ASSUME NEW s \in Savers, Save(s)
        PROVE  FALSE
    BY <1>4 DEF Save, SaveCreate, SaveEncode, SaveWrite, SaveFails, AfterSave, Reply, Over,
                TypeOK
  <1>5. CASE PruneCollect \/ PruneDelete \/ Tick \/ UNCHANGED vars \/ Restart
    BY <1>5 DEF PruneCollect, PruneDelete, Tick, vars, Restart
  <1> QED
    BY <1>1, <1>2, <1>3, <1>4, <1>5 DEF Next, NewSession

\* The clocks are numbers.
LEMMA Clocks ==
    ASSUME Typed
    PROVE  /\ now \in Nat /\ restarts \in Nat
           /\ \A b \in Browsers : cookie[b].set \in Nat
           /\ \A i \in Ids : contents[i] # Absent => contents[i].lastSeen \in Nat
  <1>1. /\ MaxTime \in Nat /\ MaxRestarts \in Nat
        /\ 0..MaxTime \subseteq Nat /\ 0..MaxRestarts \subseteq Nat
    BY BoundsAssumption
  <1>2. now \in 0..MaxTime /\ restarts \in 0..MaxRestarts
    BY DEF Typed, TypeOK
  <1>3. \A b \in Browsers : cookie[b].set \in 0..MaxTime
    BY DEF Typed, TypeOK
  <1>4. \A i \in Ids : contents[i] # Absent => contents[i].lastSeen \in 0..MaxTime
    BY Held DEF Typed, TypeOK, Sessions
  <1> QED
    BY <1>1, <1>2, <1>3, <1>4

\* How a behaviour paces its requests and that it had a restart never change, and
\* the clock does not go back.
LEMMA Fixed ==
    ASSUME Typed, [Next]_vars
    PROVE  /\ pace' = pace
           /\ restarts' = 0 => restarts = 0 /\ ~ Restart
           /\ now' >= now
           /\ ~ Tick => now' = now
  <1>0. now \in Nat /\ restarts \in Nat
    BY Clocks
  <1>1. ASSUME NEW r \in Reqs, Handle(r)
        PROVE  pace' = pace /\ restarts' = restarts /\ now' = now
    BY <1>1 DEF Handle, GetSession, NewSession, NewUnder, Serve, StoreSession, TouchRead,
                TouchMissing, TouchWrite, bounds
  <1>2. ASSUME NEW s \in Savers, Save(s)
        PROVE  pace' = pace /\ restarts' = restarts /\ now' = now
    BY <1>2 DEF Save, SaveCreate, SaveEncode, SaveWrite, SaveFails, bounds
  <1>3. ASSUME \/ \E r \in Reqs, b \in Browsers, k \in {"page", "login", "logout"} :
                     Send(r, b, k)
               \/ PruneCollect \/ PruneDelete \/ UNCHANGED vars
        PROVE  pace' = pace /\ restarts' = restarts /\ now' = now
    BY <1>3 DEF Send, PruneCollect, PruneDelete, vars, bounds
  <1>4. CASE Restart
    BY <1>0, <1>4 DEF Restart
  <1>5. CASE Tick
    BY <1>0, <1>5 DEF Tick, Restart
  <1>6. CASE ~ Restart /\ ~ Tick
    <2>1. pace' = pace /\ restarts' = restarts /\ now' = now
      BY <1>1, <1>2, <1>3, <1>6 DEF Next
    <2> QED
      BY <1>0, <1>6, <2>1
  <1> QED
    BY <1>4, <1>5, <1>6

\* A cookie is set now, and time does not go back.
LEMMA StepCookieTimes ==
    ASSUME Typed, CookieTimes, [Next]_vars
    PROVE  CookieTimes'
  <1>1. ASSUME NEW b \in Browsers
        PROVE  cookie'[b] = cookie[b] \/ cookie'[b].set = now
    <2>1. CASE cookie'[b] # cookie[b]
      <3>1. PICK r \in Reqs : cookie'[b] = [id |-> id[r], set |-> now]
        BY <2>1, CookieStep
      <3> QED
        BY <3>1
    <2> QED
      BY <2>1
  <1>2. now \in Nat /\ now' \in Nat /\ \A b \in Browsers : cookie[b].set \in Nat
    <2>1. Typed'
      BY StepTyped
    <2>2. now' \in 0..MaxTime /\ MaxTime \in Nat
      BY <2>1, BoundsAssumption DEF Typed, TypeOK
    <2> QED
      BY <2>2, Clocks
  <1>3. now' >= now
    BY Fixed
  <1>4. ASSUME NEW b \in Browsers
        PROVE  cookie'[b].set <= now'
    BY <1>1, <1>2, <1>3 DEF CookieTimes
  <1> QED
    BY <1>4 DEF CookieTimes

\* Before the first restart no racing step takes a session out of the map.
LEMMA StepNothingPruned ==
    ASSUME Typed, pace # "serial", restarts' = 0, NothingPruned, [Next]_vars
    PROVE  NothingPruned'
  <1> USE DEF Typed, NothingPruned
  <1>1. stale' = {}
    <2>1. ASSUME NEW r \in Reqs, Handle(r)
          PROVE  stale' = stale
      BY <2>1 DEF Handle, GetSession, NewSession, NewUnder, Serve, StoreSession, TouchRead,
                  TouchMissing, TouchWrite
    <2>2. ASSUME NEW s \in Savers, Save(s)
          PROVE  stale' = stale
      BY <2>2 DEF Save, SaveCreate, SaveEncode, SaveWrite, SaveFails
    <2> QED
      BY <2>1, <2>2 DEF Next, Send, PruneCollect, PruneDelete, Restart, Tick, vars
  <1>2. \A i \in Ids : contents[i] # Absent => contents'[i] # Absent
    BY Fixed, ContentsStep
  <1>3. ASSUME NEW r \in Reqs, id'[r] # NoId
        PROVE  contents'[id'[r]] # Absent
    <2>1. CASE id'[r] = id[r]
      BY <1>2, <1>3, <2>1 DEF TypeOK
    <2>2. ASSUME NEW b \in Browsers, NEW k \in {"page", "login", "logout"},
                 Send(r, b, k), Valid(b), id'[r] = cookie[b].id
          PROVE  contents'[id'[r]] # Absent
      BY <1>2, <1>3, <2>2 DEF TypeOK
    <2>3. CASE NewUnder(r, id'[r]) /\ id'[r] \in Ids \ used
      <3>1. [Blank EXCEPT !.lastSeen = now] \in Sessions
        BY BlankSession DEF Sessions, TypeOK
      <3> QED
        BY <2>3, <3>1, NamesAssumption DEF NewUnder, TypeOK, Maps
    <2> QED
      BY <1>3, <2>1, <2>2, <2>3, IdStep
  <1>4. ASSUME NEW b \in Browsers, cookie'[b].id # NoId
        PROVE  contents'[cookie'[b].id] # Absent
    <2>1. CASE cookie'[b] = cookie[b]
      BY <1>2, <1>4, <2>1 DEF TypeOK
    <2>2. CASE cookie'[b] # cookie[b]
      <3>1. PICK r \in Reqs : cookie'[b] = [id |-> id[r], set |-> now]
        BY <2>2, CookieStep
      <3> QED
        BY <1>2, <1>4, <3>1 DEF TypeOK
    <2> QED
      BY <2>1, <2>2
  <1> QED
    BY <1>1, <1>3, <1>4

\* Requests of a serial run that are not the one at work have no ID.
LEMMA Alone ==
    ASSUME SeenInv, pace = "serial", NEW r \in Reqs, pc[r] # "idle"
    PROVE  \A q \in Reqs \ {r} : pc[q] = "idle" /\ id[q] = NoId
  BY DEF SeenInv, Paced, OneAtATime, IInv, Typed, InHand

\* In series a valid cookie is younger than the last time its session was seen.
LEMMA StepSeen ==
    ASSUME SeenInv, pace = "serial", restarts' = 0, [Next]_vars
    PROVE  (RequestsSeen /\ CookiesSeen)'
  <1> USE DEF SeenInv
  <1>0. /\ TypeOK /\ TypeOK' /\ InHand /\ InHand' /\ CookieTimes /\ ~ Restart
        /\ pace' = pace /\ RequestsSeen /\ CookiesSeen
    BY StepTyped, Fixed DEF IInv, Typed
  <1>a. /\ now \in Nat /\ Lifetime \in Nat /\ MaxDuration \in Nat /\ Lifetime < MaxDuration
        /\ \A b \in Browsers : cookie[b].set \in Nat
        /\ \A i \in Ids : contents[i] # Absent => contents[i].lastSeen \in Nat
    BY Clocks, DurationAssumption DEF IInv
  <1>1. CASE UNCHANGED vars
    BY <1>0, <1>1 DEF vars, RequestsSeen, CookiesSeen, Recent, Valid
  <1>2. ASSUME NEW r \in Reqs, NEW b \in Browsers, NEW k \in {"page", "login", "logout"},
               Send(r, b, k)
        PROVE  (RequestsSeen /\ CookiesSeen)'
    <2>1. /\ \A q \in Reqs : pc[q] = "idle" /\ id[q] = NoId
          /\ pc' = [pc EXCEPT ![r] = "get"]
          /\ \A q \in Reqs \ {r} : id'[q] = id[q]
          /\ id'[r] = NoId \/ (Valid(b) /\ id'[r] = cookie[b].id)
          /\ UNCHANGED <<contents, stale, now, dirtied, cookie, sess>>
      BY <1>0, <1>2 DEF Send, Goto, bounds, TypeOK, InHand
    <2>2. \A c \in Browsers : Valid(c) /\ cookie[c].id \notin dirtied
                                 => Recent(cookie[c].id)
      <3> SUFFICES ASSUME NEW c \in Browsers, Valid(c), cookie[c].id \notin dirtied
                   PROVE  Recent(cookie[c].id)
        OBVIOUS
      <3>1. /\ contents[cookie[c].id] # Absent
            /\ cookie[c].id \notin stale
            /\ contents[cookie[c].id].lastSeen >= cookie[c].set
        BY <1>0, <2>1 DEF CookiesSeen
      <3>2. cookie[c].id \in Ids
        BY <1>0 DEF Valid, TypeOK
      <3>3. contents[cookie[c].id].lastSeen \in Nat /\ cookie[c].set \in Nat
        BY <1>a, <3>1, <3>2
      <3> QED
        BY <1>a, <3>1, <3>3 DEF Recent, Valid
    <2>3. RequestsSeen'
      BY <1>0, <2>1, <2>2 DEF RequestsSeen, Recent, TypeOK, Savers
    <2>4. CookiesSeen'
      BY <1>0, <2>1 DEF CookiesSeen, Valid
    <2> QED
      BY <2>3, <2>4
  <1>3. ASSUME NEW r \in Reqs, GetSession(r)
        PROVE  (RequestsSeen /\ CookiesSeen)'
    <2>1. /\ pc[r] = "get" /\ pc' = [pc EXCEPT ![r] = "serve"]
          /\ \A q \in Reqs \ {r} : sess'[q] = sess[q]
          /\ UNCHANGED <<contents, stale, now, dirtied, cookie, id>>
      BY <1>0, <1>3 DEF GetSession, Goto, bounds, TypeOK
    <2>2. RequestsSeen'
      BY <1>0, <2>1 DEF RequestsSeen, Recent, TypeOK, Savers
    <2>3. CookiesSeen'
      BY <1>0, <2>1 DEF CookiesSeen, Valid, TypeOK, Savers
    <2> QED
      BY <2>2, <2>3
  <1>4. ASSUME NEW r \in Reqs, NEW i \in Ids \ used, NewUnder(r, i)
        PROVE  (RequestsSeen /\ CookiesSeen)'
    <2> DEFINE new == [Blank EXCEPT !.lastSeen = now]
    <2>1. new \in Sessions /\ new.lastSeen = now
      BY <1>0, BlankSession DEF Sessions, TypeOK
    <2> HIDE DEF new
    <2>2. /\ pc[r] = "get" /\ pc' = [pc EXCEPT ![r] = "create"]
          /\ contents' = [contents EXCEPT ![i] = new]
          /\ id' = [id EXCEPT ![r] = i]
          /\ UNCHANGED <<stale, now, dirtied, cookie>>
      BY <1>4 DEF NewUnder, Goto, bounds, new
    <2>3. \A q \in Reqs \ {r} : pc[q] = "idle" /\ id[q] = NoId
      BY <2>2, Alone
    <2>4. i \notin stale /\ \A b \in Browsers : cookie[b].id # i
      BY DEF IInv, NewIdsAreNew
    <2>5. RequestsSeen'
      BY <1>0, <1>a, <2>1, <2>2, <2>3, <2>4, NamesAssumption
      DEF RequestsSeen, Recent, TypeOK, Maps, Savers
    <2>6. CookiesSeen'
      <3>1. \A b \in Browsers : Valid(b)' => Valid(b)
        BY <2>2 DEF Valid
      <3>2. ~ \E q \in Reqs : pc[q] \in {"finish", "touched"}
        BY <2>2, <2>3
      <3>3. \A j \in Ids \ {i} : contents'[j] = contents[j]
        BY <1>0, <2>2 DEF TypeOK, Maps
      <3>4. \A b \in Browsers : Valid(b) => cookie[b].id \in Ids \ {i}
        BY <1>0, <2>4 DEF Valid, TypeOK
      <3> QED
        BY <1>0, <2>2, <3>1, <3>2, <3>3, <3>4 DEF CookiesSeen
    <2> QED
      BY <2>5, <2>6
  <1>5. ASSUME NEW r \in Reqs, Serve(r)
        PROVE  (RequestsSeen /\ CookiesSeen)'
    <2>1. /\ pc[r] = "serve" /\ pc' = [pc EXCEPT ![r] = "finish"]
          /\ by[r] \in Browsers /\ id[r] \in Ids
          /\ \A b \in Browsers :
                cookie'[b] = cookie[b] \/ cookie'[b] = [id |-> id[r], set |-> now]
          /\ \A q \in Reqs \ {r} : sess'[q] = sess[q]
          /\ UNCHANGED <<contents, stale, now, dirtied, id>>
      BY <1>0, <1>5 DEF Serve, SetCookie, Goto, bounds, InHand, TypeOK
    <2>2. \A q \in Reqs \ {r} : pc[q] = "idle" /\ id[q] = NoId
      BY <2>1, Alone
    <2>3. RequestsSeen'
      BY <1>0, <2>1 DEF RequestsSeen, Recent, TypeOK, Savers
    <2>4. ASSUME NEW b \in Browsers, Valid(b)', cookie'[b].id \notin dirtied'
          PROVE  /\ contents'[cookie'[b].id] # Absent
                 /\ cookie'[b].id \notin stale'
                 /\ \/ contents'[cookie'[b].id].lastSeen >= cookie'[b].set
                    \/ id'[r] = cookie'[b].id /\ pc'[r] \in {"finish", "touched"}
      <3>1. CASE cookie'[b] = cookie[b]
        BY <1>0, <2>1, <2>2, <2>4, <3>1 DEF CookiesSeen, Valid
      <3>2. CASE cookie'[b] = [id |-> id[r], set |-> now]
        BY <1>0, <2>1, <2>4, <3>2, NamesAssumption DEF RequestsSeen, Recent, TypeOK, Savers
      <3> QED
        BY <2>1, <3>1, <3>2
    <2>5. CookiesSeen'
      BY <2>4 DEF CookiesSeen
    <2> QED
      BY <2>3, <2>5
  <1>6. ASSUME NEW r \in Reqs, StoreSession(r)
        PROVE  (RequestsSeen /\ CookiesSeen)'
    <2>1. /\ pc[r] = "finish" /\ pc' = [pc EXCEPT ![r] = "create"]
          /\ id[r] \in Ids
          /\ \A i \in Ids \ {id[r]} : contents'[i] = contents[i]
          /\ dirtied' = dirtied \cup {id[r]}
          /\ UNCHANGED <<stale, now, cookie, id>>
      BY <1>0, <1>6 DEF StoreSession, Goto, bounds, InHand, TypeOK, Maps
    <2>2. \A q \in Reqs \ {r} : pc[q] = "idle" /\ id[q] = NoId
      BY <2>1, Alone
    <2>3. RequestsSeen'
      BY <1>0, <2>1, <2>2 DEF RequestsSeen
    <2>4. CookiesSeen'
      BY <1>0, <2>1, <2>2 DEF CookiesSeen, Valid, TypeOK
    <2> QED
      BY <2>3, <2>4
  <1>7. ASSUME NEW r \in Reqs, TouchRead(r)
        PROVE  (RequestsSeen /\ CookiesSeen)'
    <2>1. /\ pc[r] = "finish" /\ pc' = [pc EXCEPT ![r] = "touched"]
          /\ id[r] \in Ids /\ contents[id[r]] \in Sessions
          /\ sess' = [sess EXCEPT ![r] = [contents[id[r]] EXCEPT !.lastSeen = now]]
          /\ UNCHANGED <<contents, stale, now, dirtied, cookie, id>>
      BY <1>0, <1>7, Held DEF TouchRead, Goto, bounds, InHand, TypeOK
    <2>2. sess'[r].lastSeen = now /\ \A q \in Reqs \ {r} : sess'[q] = sess[q]
      BY <1>0, <2>1 DEF TypeOK, Sessions
    <2>3. RequestsSeen'
      BY <1>0, <2>1, <2>2 DEF RequestsSeen, Recent, TypeOK, Savers
    <2>4. CookiesSeen'
      BY <1>0, <2>1 DEF CookiesSeen, Valid, TypeOK, Savers
    <2> QED
      BY <2>3, <2>4
  <1>8. ASSUME NEW r \in Reqs, TouchMissing(r)
        PROVE  (RequestsSeen /\ CookiesSeen)'
    <2>1. /\ pc[r] = "finish" /\ id[r] \in Ids /\ contents[id[r]] = Absent
          /\ Over(r)
          /\ \A b \in Browsers :
                cookie'[b] = cookie[b] \/ cookie'[b] = [id |-> id[r], set |-> now]
          /\ UNCHANGED <<contents, stale, now, dirtied>>
      BY <1>0, <1>8 DEF TouchMissing, Reply, SetCookie, bounds, InHand, TypeOK
    <2>2. id[r] \in dirtied
      BY <1>0, <2>1, NamesAssumption DEF RequestsSeen, Recent
    <2>3. \A q \in Reqs \ {r} : pc[q] = "idle" /\ id[q] = NoId
      BY <2>1, Alone
    <2>4. \A q \in Reqs : id'[q] = NoId
      BY <1>0, <2>1, <2>3 DEF Over, TypeOK
    <2>5. RequestsSeen'
      BY <2>4 DEF RequestsSeen
    <2>6. ASSUME NEW b \in Browsers, Valid(b)', cookie'[b].id \notin dirtied'
          PROVE  /\ contents'[cookie'[b].id] # Absent
                 /\ cookie'[b].id \notin stale'
                 /\ contents'[cookie'[b].id].lastSeen >= cookie'[b].set
      <3>1. cookie'[b] = cookie[b]
        BY <2>1, <2>2, <2>6
      <3> QED
        BY <1>0, <2>1, <2>2, <2>3, <2>6, <3>1 DEF CookiesSeen, Valid
    <2>7. CookiesSeen'
      BY <2>6 DEF CookiesSeen
    <2> QED
      BY <2>5, <2>7
  <1>9. ASSUME NEW r \in Reqs, TouchWrite(r)
        PROVE  (RequestsSeen /\ CookiesSeen)'
    <2>1. /\ pc[r] = "touched" /\ pc' = [pc EXCEPT ![r] = "create"]
          /\ id[r] \in Ids /\ id[r] # NoId
          /\ contents'[id[r]] = sess[r] /\ sess[r] # Absent
          /\ \A i \in Ids \ {id[r]} : contents'[i] = contents[i]
          /\ dirtied \subseteq dirtied'
          /\ UNCHANGED <<stale, now, cookie, id>>
      BY <1>0, <1>9, NamesAssumption
      DEF TouchWrite, Goto, bounds, InHand, TypeOK, Maps
    <2>2. \A q \in Reqs \ {r} : pc[q] = "idle" /\ id[q] = NoId
      BY <2>1, Alone
    <2>3. id[r] \notin dirtied' => id[r] \notin stale /\ sess[r].lastSeen = now
      BY <1>0, <2>1 DEF RequestsSeen, Recent
    <2>4. RequestsSeen'
      BY <1>0, <1>a, <2>1, <2>2, <2>3 DEF RequestsSeen, Recent, TypeOK, Savers
    <2>5. CookiesSeen'
      BY <1>0, <1>a, <2>1, <2>2, <2>3 DEF CookiesSeen, CookieTimes, Valid, TypeOK
    <2> QED
      BY <2>4, <2>5
  <1>10. ASSUME NEW s \in Savers, SaveCreate(s) \/ SaveEncode(s)
         PROVE  (RequestsSeen /\ CookiesSeen)'
    <2>1. /\ pc[s] \in {"create", "encode"} /\ pc'[s] \in {"encode", "write"}
          /\ \A x \in Savers \ {s} : pc'[x] = pc[x]
          /\ UNCHANGED <<contents, stale, now, dirtied, cookie, id, sess>>
      BY <1>0, <1>10 DEF SaveCreate, SaveEncode, Goto, bounds, TypeOK
    <2>2. RequestsSeen'
      BY <1>0, <2>1 DEF RequestsSeen, Recent, Savers
    <2>3. CookiesSeen'
      BY <1>0, <2>1 DEF CookiesSeen, Valid, Savers
    <2> QED
      BY <2>2, <2>3
  <1>11. ASSUME NEW s \in Savers, SaveWrite(s) \/ SaveFails(s)
         PROVE  (RequestsSeen /\ CookiesSeen)'
    <2>1. /\ pc[s] \in {"create", "write"}
          /\ AfterSave(s, FALSE) \/ AfterSave(s, TRUE)
          /\ UNCHANGED <<contents, stale, now, dirtied>>
      BY <1>11 DEF SaveWrite, SaveFails, bounds
    <2>2. CASE s = Janitor /\ Goto(s, "idle") /\ UNCHANGED <<cookie, id, sess>>
      <3>1. \A q \in Reqs : pc'[q] = pc[q]
        BY <1>0, <2>2, JanitorAssumption DEF Goto, TypeOK, Savers
      <3>2. RequestsSeen'
        BY <1>0, <2>1, <2>2, <3>1 DEF RequestsSeen, Recent
      <3>3. CookiesSeen'
        BY <1>0, <2>1, <2>2, <3>1 DEF CookiesSeen, Valid
      <3> QED
        BY <3>2, <3>3
    <2>3. CASE s \in Reqs /\ Goto(s, "serve") /\ UNCHANGED <<cookie, id, sess>>
      <3>1. pc'[s] = "serve" /\ \A q \in Reqs \ {s} : pc'[q] = pc[q]
        BY <1>0, <2>3 DEF Goto, TypeOK, Savers
      <3>2. RequestsSeen'
        BY <1>0, <2>1, <2>3, <3>1 DEF RequestsSeen, Recent
      <3>3. CookiesSeen'
        BY <1>0, <2>1, <2>3, <3>1 DEF CookiesSeen, Valid
      <3> QED
        BY <3>2, <3>3
    <2>4. CASE s \in Reqs /\ Over(s) /\ (UNCHANGED cookie \/ SetCookie(s))
      <3>1. \A q \in Reqs \ {s} : pc[q] = "idle" /\ id[q] = NoId
        BY <2>1, <2>4, Alone
      <3>2. \A q \in Reqs : id'[q] = NoId
        BY <1>0, <2>4, <3>1 DEF Over, TypeOK
      <3>3. RequestsSeen'
        BY <3>2 DEF RequestsSeen
      <3>4. id[s] \in Ids /\ id[s] # NoId
        BY <1>0, <2>1, <2>4, NamesAssumption DEF InHand
      <3>5. \A b \in Browsers :
               cookie'[b] = cookie[b] \/ cookie'[b] = [id |-> id[s], set |-> now]
        BY <1>0, <2>4 DEF SetCookie, TypeOK
      <3>6. id[s] \notin dirtied => Recent(id[s]) /\ contents[id[s]].lastSeen = now
        BY <1>0, <2>1, <2>4, <3>4 DEF RequestsSeen
      <3>7. ASSUME NEW b \in Browsers, Valid(b)', cookie'[b].id \notin dirtied'
            PROVE  /\ contents'[cookie'[b].id] # Absent
                   /\ cookie'[b].id \notin stale'
                   /\ contents'[cookie'[b].id].lastSeen >= cookie'[b].set
        <4>1. CASE cookie'[b] = cookie[b]
          <5>1. ~ \E r \in Reqs : id[r] = cookie[b].id /\ pc[r] \in {"finish", "touched"}
            BY <2>1, <3>1
          <5> QED
            BY <1>0, <2>1, <3>7, <4>1, <5>1 DEF CookiesSeen, Valid
        <4>2. CASE cookie'[b] = [id |-> id[s], set |-> now]
          BY <1>a, <2>1, <3>4, <3>6, <3>7, <4>2 DEF Recent
        <4> QED
          BY <3>5, <4>1, <4>2
      <3> QED
        BY <3>3, <3>7 DEF CookiesSeen
    <2> QED
      BY <1>0, <2>1, <2>2, <2>3, <2>4 DEF AfterSave, Reply, TypeOK
  <1>12. CASE PruneCollect
    <2>1. /\ \A q \in Reqs : pc'[q] = pc[q]
          /\ UNCHANGED <<contents, now, dirtied, cookie, id, sess>>
      BY <1>0, <1>12, JanitorAssumption DEF PruneCollect, Goto, TypeOK, Savers
    <2>2. \A i \in Ids : i \in stale' =>
             contents[i] # Absent /\ now - contents[i].lastSeen > MaxDuration
      BY <1>12 DEF PruneCollect
    <2>3. ASSUME NEW i \in Ids, Recent(i)
          PROVE  i \notin stale'
      BY <1>a, <2>2, <2>3 DEF Recent
    <2>4. RequestsSeen'
      BY <1>0, <2>1, <2>3 DEF RequestsSeen, Recent, TypeOK
    <2>5. ASSUME NEW b \in Browsers, Valid(b), cookie[b].id \notin dirtied
          PROVE  cookie[b].id \notin stale'
      <3>1. cookie[b].id \in Ids /\ cookie[b].id # NoId
        BY <1>0, <2>5 DEF Valid, TypeOK
      <3>2. CASE contents[cookie[b].id].lastSeen >= cookie[b].set
        BY <1>0, <1>a, <2>2, <2>5, <3>1, <3>2 DEF CookiesSeen, Valid
      <3>3. CASE \E r \in Reqs : id[r] = cookie[b].id
        BY <1>0, <2>3, <2>5, <3>1, <3>3 DEF RequestsSeen
      <3> QED
        BY <1>0, <2>5, <3>2, <3>3 DEF CookiesSeen
    <2>6. CookiesSeen'
      BY <1>0, <2>1, <2>5 DEF CookiesSeen, Valid
    <2> QED
      BY <2>4, <2>6
  <1>13. CASE PruneDelete
    <2>1. /\ \A q \in Reqs : pc'[q] = pc[q]
          /\ \A i \in Ids \ stale : contents'[i] = contents[i]
          /\ stale' = {}
          /\ UNCHANGED <<now, dirtied, cookie, id, sess>>
      BY <1>0, <1>13, JanitorAssumption DEF PruneDelete, Goto, bounds, TypeOK, Savers
    <2>2. RequestsSeen'
      BY <1>0, <2>1 DEF RequestsSeen, Recent, TypeOK
    <2>3. CookiesSeen'
      BY <1>0, <2>1 DEF CookiesSeen, Valid, TypeOK
    <2> QED
      BY <2>2, <2>3
  <1>14. CASE Tick
    <2>1. /\ \A q \in Reqs : pc[q] = "idle" /\ id[q] = NoId
          /\ now' = now + 1
          /\ UNCHANGED <<contents, stale, dirtied, cookie, id, pc>>
      BY <1>0, <1>14 DEF Tick, InHand, Savers
    <2>2. \A b \in Browsers : Valid(b)' => Valid(b)
      BY <1>a, <2>1 DEF Valid
    <2>3. RequestsSeen'
      BY <2>1 DEF RequestsSeen
    <2>4. CookiesSeen'
      BY <1>0, <2>1, <2>2 DEF CookiesSeen
    <2> QED
      BY <2>3, <2>4
  <1> QED
    BY <1>0, <1>1, <1>2, <1>3, <1>4, <1>5, <1>6, <1>7, <1>8, <1>9, <1>10, <1>11,
       <1>12, <1>13, <1>14
    DEF Next, Handle, Save, NewSession

\* Every step keeps SeenInv.
LEMMA StepSeenInv == SeenInv /\ [Next]_vars => SeenInv'
  <1> SUFFICES ASSUME SeenInv, [Next]_vars PROVE SeenInv'
    OBVIOUS
  <1>1. Typed
    BY DEF SeenInv, IInv
  <1>2. IInv' /\ Paced' /\ CookieTimes'
    BY <1>1, StepIInv, StepPaced, StepCookieTimes DEF SeenInv
  <1>3. pace' = pace /\ (restarts' = 0 => restarts = 0)
    BY <1>1, Fixed
  <1> QED
    BY <1>1, <1>2, <1>3, StepSeen, StepNothingPruned DEF SeenInv

\* A session that a browser still sends is there, unless it has been stored
\* dirty, until the server is stopped: Prune removes sessions nobody uses
\* (map.go:84-99, 101-112).
THEOREM AnonymousSessionKept == Spec => []AnonymousKept
  <1>1. ASSUME SeenInv, Quiet, NEW b \in Browsers, Valid(b), cookie[b].id \notin dirtied
        PROVE  contents[cookie[b].id] # Absent
    BY <1>1 DEF SeenInv, CookiesSeen, NothingPruned, Quiet, Valid
  <1>2. SeenInv => AnonymousKept
    BY <1>1 DEF AnonymousKept
  <1> QED
    BY <1>2, InitSeen, StepSeenInv, PTL DEF Spec
=============================================================================
