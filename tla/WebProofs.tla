----------------------------- MODULE WebProofs -----------------------------
(***************************************************************************)
(* Proofs about Web, for any number of tabs and documents, any IDs, any    *)
(* length of the home page, and any number of restarts and captures.       *)
(***************************************************************************)
EXTENDS Web, FiniteSetTheorems, TLAPS

Labels == Results \cup {"asked", "scan", "allowed", "provider", "callback", "accepted"}

\* The part of the types that is about tabs,
TabsTyped ==
    /\ at \in [Tabs -> Labels]
    /\ want \in [Tabs -> Pages]
    /\ as \in [Tabs -> {User, Nobody}]
    /\ sent \in [Tabs -> Cookies \cup {NoCookie}]
    /\ todo \in [Tabs -> SUBSET Docs]
    /\ steady \in [Tabs -> SUBSET Docs]
    /\ disturbed \subseteq Away

\* about what they list, with what the size of a list needs,
ListsTyped ==
    /\ list \in [Tabs -> SUBSET Docs]
    /\ \A t \in Tabs : IsFiniteSet(list[t]) /\ Cardinality(list[t]) <= Limit

\* and about the site.
SiteTyped ==
    /\ server \in 0..MaxRestarts
    /\ session \in {User, Nobody}
    /\ cookie \in Cookies \cup {NoCookie}
    /\ readable \subseteq listed /\ pages \subseteq listed /\ listed \subseteq Docs
    /\ meta \in [Docs -> Metas]
    /\ captures \in 0..MaxCaptures
    /\ begun \subseteq Pages
    /\ shownTo \subseteq {User, Nobody} \X Docs

\* A cookie was made by this run of the server or an earlier one; if by this one,
\* for a page for which it began a login.
Made(c) == c # NoCookie => /\ c.key <= server
                           /\ c.key = server => c.ru \in begun \cup {"attachment"}

CookiesMade == Made(cookie) /\ \A t \in Tabs : Made(sent[t])

\* A login that nothing came across has its cookie.
LoginsKept ==
    \A t \in Tabs \ disturbed :
        /\ at[t] = "provider" => cookie = [key |-> server, ru |-> want[t]]
        /\ at[t] = "callback" => Matches(t)
        /\ at[t] # "denied"

\* A login that was accepted was begun.
AcceptedBegun == \A t \in Tabs : at[t] = "accepted" => want[t] \in begun

\* What the home page still has to list, it has found or will come to.
ScansComplete ==
    \A t \in Tabs :
        /\ at[t] \notin {"scan", "shown"} => steady[t] = {}
        /\ at[t] = "scan" => /\ steady[t] \subseteq list[t] \cup todo[t]
                             /\ \A d \in steady[t] : MayList(as[t], ReadMeta(d))
        /\ at[t] = "shown" => steady[t] \subseteq list[t] \/ Cardinality(list[t]) = Limit

\* What was listed for a user is still for that user to see.
ShownSeen == \A u \in {User, Nobody}, d \in Docs :
                <<u, d>> \in shownTo => MayList(u, ReadMeta(d))

\* A request goes on to document.bin only for an ID that does not begin with 0.
AllowedFound == \A t \in Tabs :
                   at[t] = "allowed" => want[t] \in Docs /\ Digits[want[t]][1] # 0

IInv == /\ TabsTyped /\ ListsTyped /\ SiteTyped
        /\ CookiesMade /\ LoginsKept /\ AcceptedBegun
        /\ ScansComplete /\ ShownSeen /\ AllowedFound

Typed == TabsTyped /\ ListsTyped /\ SiteTyped

-----------------------------------------------------------------------------
(***************************************************************************)
(* Types.                                                                  *)
(***************************************************************************)

\* The parts of the type invariant.
LEMMA TypedIsTypeOK == Typed => TypeOK
  BY DEF Typed, TabsTyped, ListsTyped, SiteTyped, TypeOK, Labels

\* A tab's step leaves the other tabs where they are.
LEMMA RequestTyped ==
    ASSUME TabsTyped, ListsTyped, NEW t \in Tabs, NEW p \in Pages,
           NEW u \in {User, Nobody}, Request(t, p, u)
    PROVE  TabsTyped' /\ ListsTyped'
  <1>1. TabsTyped'
    BY DEF TabsTyped, Request, Labels, Away
  <1>2. IsFiniteSet({}) /\ Cardinality({}) = 0 /\ 0 <= Limit
    BY FS_EmptySet, LimitAssumption
  <1>3. \A s \in Tabs : list'[s] = IF s = t THEN {} ELSE list[s]
    BY DEF ListsTyped, Request
  <1>4. list' \in [Tabs -> SUBSET Docs]
    BY DEF ListsTyped, Request
  <1> QED
    BY <1>1, <1>2, <1>3, <1>4 DEF ListsTyped

\* The sessions an answer may leave the browser with are the user's, or nobody's.
LEMMA LeftTyped ==
    ASSUME TabsTyped, SiteTyped, NEW t \in Tabs
    PROVE  Left(t) \subseteq {User, Nobody}
  BY DEF Left, TabsTyped, SiteTyped

\* An answer, a refusal, or a handler that goes on, with whatever it does to the other
\* logins.
LEMMA AnswerTyped ==
    ASSUME TabsTyped, ListsTyped, SiteTyped, NEW t \in Tabs, at[t] \notin Results,
           \/ \E result \in Results \cup {"provider"} : Answer(t, result)
           \/ \E label \in {"allowed", "accepted"} : GoOn(t, label)
           \/ Refuse(t),
           at[t] \in {"provider", "callback"} /\ at'[t] # "denied" =>
              disturbed' \subseteq disturbed \ {t},
           disturbed' \subseteq disturbed \cup Away
    PROVE  TabsTyped' /\ ListsTyped' /\ session' \in {User, Nobody}
  <1>1. /\ at' \in [Tabs -> Labels] /\ want' \in [Tabs -> Pages]
        /\ as' \in [Tabs -> {User, Nobody}] /\ sent' \in [Tabs -> Cookies \cup {NoCookie}]
        /\ UNCHANGED <<todo, list, steady>>
        /\ \A s \in Tabs \ {t} : at'[s] = at[s]
    <2>1. ASSUME \/ \E result \in Results \cup {"provider"} : Answer(t, result)
                 \/ \E label \in {"allowed", "accepted"} : GoOn(t, label)
          PROVE  /\ at' \in [Tabs -> Labels] /\ want' \in [Tabs -> Pages]
                 /\ as' \in [Tabs -> {User, Nobody}]
                 /\ sent' \in [Tabs -> Cookies \cup {NoCookie}]
                 /\ UNCHANGED <<todo, list, steady>>
                 /\ \A s \in Tabs \ {t} : at'[s] = at[s]
      <3>1. CASE \E result \in Results \cup {"provider"} : Answer(t, result)
        <4>1. PICK result \in Results \cup {"provider"} : Answer(t, result)
          BY <3>1
        <4>2. result \in Labels
          BY DEF Labels
        <4> QED
          BY <4>1, <4>2 DEF TabsTyped, Answer
      <3>2. CASE \E label \in {"allowed", "accepted"} : GoOn(t, label)
        BY <3>2 DEF TabsTyped, GoOn, Labels
      <3> QED
        BY <2>1, <3>1, <3>2
    <2>2. CASE Refuse(t)
      BY <2>2 DEF TabsTyped, Refuse, Labels, Results, Pages
    <2> QED
      BY <2>1, <2>2
  <1>2. disturbed' \subseteq Away'
    BY <1>1 DEF TabsTyped, Away, Labels, Results
  <1>3. session' \in Left(t) \cup {session}
    BY DEF Answer, GoOn, Refuse
  <1>4. session' \in {User, Nobody}
    BY <1>3, LeftTyped DEF SiteTyped
  <1> QED
    BY <1>1, <1>2, <1>4 DEF TabsTyped, ListsTyped

\* Every step keeps the types.
LEMMA StepTyped == Typed /\ [Next]_vars => Typed'
  <1> SUFFICES ASSUME Typed, [Next]_vars PROVE Typed'
    OBVIOUS
  <1> USE DEF Typed
  <1>1. ASSUME NEW t \in Tabs, NEW p \in Pages, Visit(t, p) PROVE Typed'
    <2>1. TabsTyped' /\ ListsTyped'
      BY <1>1, RequestTyped DEF Visit, SiteTyped
    <2> QED
      BY <1>1, <2>1 DEF Visit, SiteTyped, docs
  <1>2. ASSUME NEW t \in Tabs, Begin(t), at[t] = "asked" PROVE Typed'
    <2>1. TabsTyped' /\ ListsTyped' /\ session' \in {User, Nobody}
      BY <1>2, AnswerTyped DEF Begin, Results
    <2>2. want[t] \in Pages /\ cookie' \in Cookies
      BY <1>2 DEF Begin, TabsTyped, SiteTyped, Cookies
    <2> QED
      BY <1>2, <2>1, <2>2 DEF Begin, Answer, SiteTyped, docs
  <1>3. ASSUME NEW t \in Tabs, Login(t) PROVE Typed'
    <2>1. CASE Begin(t)
      BY <1>2, <1>3, <2>1 DEF Login
    <2>2. CASE ~ Begin(t)
      <3>1. PICK u \in Left(t) :
                /\ session' = u /\ Request(t, "home", u)
                /\ UNCHANGED <<server, cookie, docs, begun, shownTo>>
        BY <1>3, <2>2 DEF Login
      <3>2. u \in {User, Nobody} /\ "home" \in Pages
        BY LeftTyped DEF Pages
      <3>3. TabsTyped' /\ ListsTyped'
        BY <3>1, <3>2, RequestTyped
      <3> QED
        BY <3>1, <3>2, <3>3 DEF SiteTyped, docs
    <2> QED
      BY <2>1, <2>2
  <1>4. ASSUME NEW t \in Tabs, Logout(t) PROVE Typed'
    <2>1. TabsTyped' /\ ListsTyped'
      BY <1>4, RequestTyped DEF Logout, Pages
    <2> QED
      BY <1>4, <2>1 DEF Logout, SiteTyped, docs
  <1>5. ASSUME NEW t \in Tabs, GoOn(t, "allowed") \/ Answer(t, "shown") \/ Refuse(t),
               at[t] \in {"asked", "allowed"}, UNCHANGED <<cookie, begun, disturbed>>
        PROVE  Typed'
    <2>1. TabsTyped' /\ ListsTyped' /\ session' \in {User, Nobody}
      BY <1>5, AnswerTyped DEF Results
    <2> QED
      BY <1>5, <2>1 DEF Answer, GoOn, Refuse, SiteTyped, docs
  <1>6. ASSUME NEW t \in Tabs, ViewMeta(t) PROVE Typed'
    <2>1. \/ Begin(t)
          \/ /\ GoOn(t, "allowed") \/ Answer(t, "shown") \/ Refuse(t)
             /\ UNCHANGED <<cookie, begun, disturbed>>
      BY <1>6 DEF ViewMeta
    <2>2. at[t] = "asked"
      BY <1>6 DEF ViewMeta
    <2>3. CASE Begin(t)
      BY <1>2, <2>2, <2>3
    <2> QED
      BY <1>5, <2>1, <2>2, <2>3
  <1>7. ASSUME NEW t \in Tabs, ViewPage(t) PROVE Typed'
    BY <1>5, <1>7 DEF ViewPage
  <1>8. ASSUME NEW t \in Tabs, ListHome(t) PROVE Typed'
    BY <1>8 DEF ListHome, TabsTyped, ListsTyped, SiteTyped, docs, Labels, Away
  <1>9. ASSUME NEW t \in Tabs, NEW d \in Docs, ScanHome(t, d) PROVE Typed'
    <2>1. TabsTyped' /\ SiteTyped'
      <3>1. as[t] \in {User, Nobody}
        BY DEF TabsTyped
      <3>2. shownTo' \in {shownTo, shownTo \cup {<<as[t], d>>}}
        BY <1>9 DEF ScanHome
      <3>3. shownTo' \subseteq {User, Nobody} \X Docs
        <4>1. shownTo \subseteq {User, Nobody} \X Docs
          BY DEF SiteTyped
        <4>2. <<as[t], d>> \in {User, Nobody} \X Docs
          BY <3>1
        <4> QED
          BY <3>2, <4>1, <4>2, Zenon
      <3>4. SiteTyped'
        BY <1>9, <3>3 DEF ScanHome, SiteTyped, docs
      <3>5. TabsTyped'
        <4>1. /\ todo' = [todo EXCEPT ![t] = @ \ {d}]
              /\ UNCHANGED <<at, want, as, sent, steady, disturbed>>
          BY <1>9 DEF ScanHome
        <4> QED
          BY <4>1 DEF TabsTyped, Away
      <3> QED
        BY <3>4, <3>5
    <2>2. \A s \in Tabs : list'[s] \in {list[s], list[s] \cup {d}}
      BY <1>9 DEF ScanHome, ListsTyped
    <2>3. \A s \in Tabs : list'[s] # list[s] => s = t
      BY <1>9 DEF ScanHome, ListsTyped
    <2>4. list' \in [Tabs -> SUBSET Docs]
      BY <1>9 DEF ScanHome, ListsTyped
    <2>5. /\ IsFiniteSet(list[t] \cup {d})
          /\ Cardinality(list[t] \cup {d}) \in {Cardinality(list[t]), Cardinality(list[t]) + 1}
      BY FS_AddElement DEF ListsTyped
    <2>6. Cardinality(list[t]) \in Nat /\ ~ (Cardinality(list[t]) >= Limit)
      BY <1>9, FS_CardinalityType DEF ListsTyped, ScanHome, Full
    <2>7. Cardinality(list[t] \cup {d}) <= Limit
      BY <2>5, <2>6, LimitAssumption
    <2>8. \A s \in Tabs : IsFiniteSet(list'[s]) /\ Cardinality(list'[s]) <= Limit
      BY <2>2, <2>3, <2>5, <2>7 DEF ListsTyped
    <2> QED
      BY <2>1, <2>4, <2>8 DEF ListsTyped
  <1>10. ASSUME NEW t \in Tabs, ShowHome(t) PROVE Typed'
    <2>1. session' \in {User, Nobody}
      BY <1>10, LeftTyped DEF ShowHome
    <2> QED
      BY <1>10, <2>1
      DEF ShowHome, TabsTyped, ListsTyped, SiteTyped, docs, Labels, Results, Away
  <1>11. ASSUME NEW t \in Tabs, Callback(t) PROVE Typed'
    <2>1. TabsTyped' /\ ListsTyped' /\ session' \in {User, Nobody}
      <3>1. CASE Answer(t, "denied") /\ UNCHANGED disturbed
        <4>1. at'[t] = "denied"
          BY <3>1 DEF Answer, TabsTyped
        <4> QED
          BY <1>11, <3>1, <4>1, AnswerTyped DEF Callback, Results
      <3>2. CASE GoOn(t, "accepted") /\ disturbed' = disturbed \ {t}
        BY <1>11, <3>2, AnswerTyped DEF Callback, Results
      <3>3. CASE Refuse(t) /\ disturbed' = disturbed \ {t}
        BY <1>11, <3>3, AnswerTyped DEF Callback, Results
      <3> QED
        BY <1>11, <3>1, <3>2, <3>3 DEF Callback
    <2>2. UNCHANGED <<server, docs, shownTo, cookie, begun>>
      BY <1>11 DEF Callback, Answer, GoOn, Refuse
    <2> QED
      BY <2>1, <2>2 DEF SiteTyped, docs
  <1>12. ASSUME NEW t \in Tabs, Arrive(t) PROVE Typed'
    BY <1>12 DEF Arrive, TabsTyped, ListsTyped, SiteTyped, docs, Labels, Away
  <1>13. ASSUME NEW t \in Tabs, LateAttachment(t) PROVE Typed'
    <2>1. cookie' \in Cookies
      BY <1>13 DEF LateAttachment, SiteTyped, Cookies
    <2> QED
      BY <1>13, <2>1
      DEF LateAttachment, TabsTyped, ListsTyped, SiteTyped, docs, tab, Labels, Away
  <1>14. ASSUME NEW t \in Tabs, SendCallback(t) PROVE Typed'
    BY <1>14 DEF SendCallback, TabsTyped, ListsTyped, SiteTyped, docs, Labels, Away
  <1>15. CASE Expire
    BY <1>15 DEF Expire, TabsTyped, ListsTyped, SiteTyped, docs, tab, Away
  <1>16. ASSUME NEW d \in Docs, Truncate(d) PROVE Typed'
    <2>1. captures' \in 0..MaxCaptures
      BY <1>16, BoundsAssumption DEF Truncate, SiteTyped
    <2> QED
      BY <1>16, <2>1
      DEF Truncate, Changed, TabsTyped, ListsTyped, SiteTyped, tab, Away
  <1>17. ASSUME NEW d \in Docs, Encode(d) PROVE Typed'
    <2>1. meta' \in [Docs -> Metas]
      <3>1. meta[d] \in Metas
        BY DEF SiteTyped
      <3>2. PICK u \in IF meta[d] = NoMeta THEN Users ELSE {meta[d].owner} :
                meta' = [meta EXCEPT ![d] = [owner |-> u, public |-> FALSE]]
        BY <1>17 DEF Encode
      <3>3. u \in Users \cup {Nobody}
        BY <3>1, <3>2 DEF Metas
      <3>4. [owner |-> u, public |-> FALSE] \in Metas
        BY <3>3 DEF Metas
      <3> QED
        BY <3>2, <3>4 DEF SiteTyped
    <2> QED
      BY <1>17, <2>1 DEF Encode, Changed, TabsTyped, ListsTyped, SiteTyped, tab, Away
  <1>18. ASSUME NEW d \in Docs, SavePage(d) PROVE Typed'
    BY <1>18 DEF SavePage, TabsTyped, ListsTyped, SiteTyped, tab, Away
  <1>19. CASE Restart
    <2>1. server' \in 0..MaxRestarts
      BY <1>19, BoundsAssumption DEF Restart, SiteTyped
    <2>2. SiteTyped'
      BY <1>19, <2>1 DEF Restart, SiteTyped, docs
    <2>3. ListsTyped'
      <3>1. IsFiniteSet({}) /\ Cardinality({}) = 0 /\ 0 <= Limit
        BY FS_EmptySet, LimitAssumption
      <3> QED
        BY <1>19, <3>1 DEF Restart, ListsTyped
    <2>4. TabsTyped'
      BY <1>19 DEF Restart, TabsTyped, Labels, Away, Results, Pages
    <2> QED
      BY <2>2, <2>3, <2>4
  <1>20. CASE UNCHANGED vars
    BY <1>20 DEF vars, docs, tab, TabsTyped, ListsTyped, SiteTyped, Away
  <1>21. ASSUME NEW t \in Tabs, FailHome(t) PROVE Typed'
    <2>1. session' \in {User, Nobody}
      BY <1>21, LeftTyped DEF FailHome
    <2>2. IsFiniteSet({}) /\ Cardinality({}) = 0 /\ 0 <= Limit
      BY FS_EmptySet, LimitAssumption
    <2>3. ListsTyped'
      <3>1. \A s \in Tabs : list'[s] = IF s = t THEN {} ELSE list[s]
        BY <1>21 DEF ListsTyped, FailHome
      <3>2. list' \in [Tabs -> SUBSET Docs]
        BY <1>21 DEF ListsTyped, FailHome
      <3> QED
        BY <2>2, <3>1, <3>2 DEF ListsTyped
    <2>4. TabsTyped'
      BY <1>21 DEF FailHome, TabsTyped, Labels, Results, Away
    <2> QED
      BY <1>21, <2>1, <2>3, <2>4 DEF FailHome, SiteTyped, docs
  <1> QED
    BY <1>1, <1>3, <1>4, <1>6, <1>7, <1>8, <1>9, <1>10, <1>11, <1>12, <1>13, <1>14,
       <1>15, <1>16, <1>17, <1>18, <1>19, <1>20, <1>21 DEF Next, Serve

\* Typed holds at first.
LEMMA InitTyped == Init => Typed
  <1> SUFFICES ASSUME Init PROVE Typed
    OBVIOUS
  <1>1. IsFiniteSet({}) /\ Cardinality({}) = 0 /\ 0 <= Limit
    BY FS_EmptySet, LimitAssumption
  <1>2. ListsTyped
    BY <1>1 DEF Init, ListsTyped
  <1>3. 0 \in 0..MaxRestarts /\ 0 \in 0..MaxCaptures
    BY BoundsAssumption
  <1>4. \A d \in Docs : meta[d] \in Metas
    <2> SUFFICES ASSUME NEW d \in Docs PROVE meta[d] \in Metas
      OBVIOUS
    <2>1. meta[d] \in [owner : Users, public : BOOLEAN] \/ meta[d] = NoMeta
      BY DEF Init
    <2>2. CASE meta[d] \in [owner : Users, public : BOOLEAN]
      BY <2>2 DEF Metas
    <2>3. CASE meta[d] = NoMeta
      BY <2>3 DEF Metas, NoMeta
    <2> QED
      BY <2>1, <2>2, <2>3
  <1>5. SiteTyped
    BY <1>3, <1>4 DEF Init, SiteTyped
  <1>6. TabsTyped
    BY DEF Init, TabsTyped, Labels, Results, Pages, Away
  <1> QED
    BY <1>2, <1>5, <1>6 DEF Typed

-----------------------------------------------------------------------------
(***************************************************************************)
(* Logins and their cookies.                                               *)
(***************************************************************************)

Logins == CookiesMade /\ LoginsKept /\ AcceptedBegun

\* Nothing of a login is lost by a step that keeps the server, the cookie and the
\* pages, and by which no tab enters a login or takes it further.
LEMMA LoginsUndisturbed ==
    ASSUME Typed, Logins, UNCHANGED <<server, cookie, begun>>,
           \A t \in Tabs :
              \/ /\ at'[t] \notin {"provider", "callback", "denied", "accepted"}
                 /\ sent'[t] \in {sent[t], NoCookie}
              \/ /\ at'[t] = at[t] /\ want'[t] = want[t] /\ sent'[t] = sent[t]
                 /\ t \in disturbed => t \in disturbed'
    PROVE  Logins'
  <1>1. CookiesMade'
    BY DEF Logins, CookiesMade, Made
  <1>2. LoginsKept'
    <2> SUFFICES ASSUME NEW t \in Tabs, t \notin disturbed'
                 PROVE  /\ at'[t] = "provider" => cookie' = [key |-> server', ru |-> want'[t]]
                        /\ at'[t] = "callback" => sent'[t] = [key |-> server', ru |-> want'[t]]
                        /\ at'[t] # "denied"
      BY DEF LoginsKept, Matches
    <2>1. CASE t \notin disturbed
      BY <2>1 DEF Logins, LoginsKept, Matches
    <2>2. CASE t \in disturbed
      BY <2>2
    <2> QED
      BY <2>1, <2>2
  <1>3. AcceptedBegun'
    BY DEF Logins, AcceptedBegun
  <1> QED
    BY <1>1, <1>2, <1>3 DEF Logins

\* A request, an answer that is no step of a login, and a refusal.
LEMMA LoginsTurn ==
    ASSUME Typed, Logins, NEW t \in Tabs, UNCHANGED <<server, cookie, begun>>,
           \/ \E p \in Pages, u \in {User, Nobody} : Request(t, p, u)
           \/ /\ GoOn(t, "allowed") \/ Answer(t, "shown") \/ Refuse(t)
              /\ disturbed \subseteq disturbed' \cup {t}
    PROVE  Logins'
  <1>1. /\ at'[t] \in {"asked", "allowed", "shown", "refused"} /\ sent'[t] = NoCookie
        /\ disturbed \subseteq disturbed' \cup {t}
        /\ \A s \in Tabs \ {t} : at'[s] = at[s] /\ want'[s] = want[s] /\ sent'[s] = sent[s]
    <2>1. CASE \E p \in Pages, u \in {User, Nobody} : Request(t, p, u)
      BY <2>1 DEF Request, Typed, TabsTyped
    <2>2. CASE /\ GoOn(t, "allowed") \/ Answer(t, "shown") \/ Refuse(t)
               /\ disturbed \subseteq disturbed' \cup {t}
      BY <2>2 DEF Answer, GoOn, Refuse, Typed, TabsTyped
    <2> QED
      BY <2>1, <2>2
  <1>2. ASSUME NEW s \in Tabs
        PROVE  \/ /\ at'[s] \notin {"provider", "callback", "denied", "accepted"}
                  /\ sent'[s] \in {sent[s], NoCookie}
               \/ /\ at'[s] = at[s] /\ want'[s] = want[s] /\ sent'[s] = sent[s]
                  /\ s \in disturbed => s \in disturbed'
    BY <1>1
  <1> QED
    BY <1>2, LoginsUndisturbed

\* Steps that give the browser another cookie, or none, and leave all the logins that
\* are on their way marked as disturbed, but for the tab that makes the step.
LEMMA LoginsCrossed ==
    ASSUME Typed, Logins, UNCHANGED server, Made(cookie)', begun \subseteq begun',
           \A s \in Tabs : sent'[s] \in {sent[s], NoCookie},
           \A s \in Tabs :
              \/ s \in disturbed'
              \/ at'[s] \notin {"provider", "callback", "denied", "accepted"}
              \/ at'[s] = "provider" /\ cookie' = [key |-> server, ru |-> want'[s]]
              \/ at'[s] = "accepted",
           \A s \in Tabs : at'[s] = "accepted" => at[s] = "accepted" /\ want'[s] = want[s]
    PROVE  Logins'
  <1>1. CookiesMade'
    BY DEF Logins, CookiesMade, Made
  <1>2. LoginsKept'
    BY DEF LoginsKept
  <1>3. AcceptedBegun'
    BY DEF Logins, AcceptedBegun
  <1> QED
    BY <1>1, <1>2, <1>3 DEF Logins

\* A login that begins sets its cookie and comes across all others.
LEMMA BeginLogins ==
    ASSUME Typed, Logins, NEW t \in Tabs, at[t] = "asked", Begin(t)
    PROVE  Logins'
  <1>1. /\ cookie' = [key |-> server, ru |-> want[t]] /\ server' = server
        /\ disturbed' = Away \ {t} /\ begun' = begun \cup {want[t]}
        /\ want' = want /\ at'[t] = "provider" /\ sent'[t] = NoCookie
        /\ \A s \in Tabs \ {t} : at'[s] = at[s] /\ sent'[s] = sent[s]
    BY DEF Begin, Answer, Typed, TabsTyped
  <1>2. Made(cookie)'
    <2>1. server \in Nat
      BY BoundsAssumption DEF Typed, SiteTyped
    <2> QED
      BY <1>1, <2>1 DEF Made
  <1> QED
    BY <1>1, <1>2, LoginsCrossed DEF Away

\* Every step keeps what is known of logins and their cookies.
LEMMA StepLogins ==
    ASSUME Typed, Logins, [Next]_vars
    PROVE  Logins'
  <1>1. ASSUME NEW t \in Tabs, NEW p \in Pages, Visit(t, p) PROVE Logins'
    BY <1>1, LoginsTurn DEF Visit, Typed, SiteTyped
  <1>2. ASSUME NEW t \in Tabs, Login(t) PROVE Logins'
    <2>1. CASE Begin(t)
      BY <1>2, <2>1, BeginLogins DEF Login
    <2>2. CASE ~ Begin(t)
      <3>1. PICK u \in Left(t) : Request(t, "home", u) /\ UNCHANGED <<server, cookie, begun>>
        BY <1>2, <2>2 DEF Login
      <3>2. "home" \in Pages /\ u \in {User, Nobody}
        BY LeftTyped DEF Pages, Typed
      <3> QED
        BY <3>1, <3>2, LoginsTurn
    <2> QED
      BY <2>1, <2>2
  <1>3. ASSUME NEW t \in Tabs, Logout(t) PROVE Logins'
    <2>1. "home" \in Pages
      BY DEF Pages
    <2> QED
      BY <1>3, <2>1, LoginsTurn DEF Logout
  <1>4. ASSUME NEW t \in Tabs, ViewMeta(t) PROVE Logins'
    <2>1. \/ Begin(t)
          \/ /\ GoOn(t, "allowed") \/ Answer(t, "shown") \/ Refuse(t)
             /\ UNCHANGED <<cookie, begun, disturbed>>
      BY <1>4 DEF ViewMeta
    <2>2. at[t] = "asked"
      BY <1>4 DEF ViewMeta
    <2>3. CASE Begin(t)
      BY <2>2, <2>3, BeginLogins
    <2>4. CASE ~ Begin(t)
      <3>1. UNCHANGED <<server, cookie, begun, disturbed>>
        BY <2>1, <2>4 DEF Answer, GoOn, Refuse
      <3> QED
        BY <2>1, <2>4, <3>1, LoginsTurn
    <2> QED
      BY <2>3, <2>4
  <1>5. ASSUME NEW t \in Tabs, ViewPage(t) PROVE Logins'
    <2>1. /\ Answer(t, "shown") \/ Refuse(t)
          /\ UNCHANGED <<server, cookie, begun, disturbed>>
      BY <1>5 DEF ViewPage, Answer, Refuse
    <2> QED
      BY <2>1, LoginsTurn
  <1>6. ASSUME NEW t \in Tabs,
               ListHome(t) \/ ShowHome(t) \/ FailHome(t) \/ \E d \in Docs : ScanHome(t, d)
        PROVE  Logins'
    <2>1. /\ UNCHANGED <<server, cookie, begun, disturbed, want, sent>>
          /\ at'[t] \in {"scan", "shown", "refused"}
          /\ \A s \in Tabs \ {t} : at'[s] = at[s]
      BY <1>6 DEF ListHome, ShowHome, FailHome, ScanHome, Typed, TabsTyped
    <2>2. ASSUME NEW s \in Tabs
          PROVE  \/ /\ at'[s] \notin {"provider", "callback", "denied", "accepted"}
                    /\ sent'[s] \in {sent[s], NoCookie}
                 \/ /\ at'[s] = at[s] /\ want'[s] = want[s] /\ sent'[s] = sent[s]
                    /\ s \in disturbed => s \in disturbed'
      BY <2>1
    <2> QED
      BY <2>1, <2>2, LoginsUndisturbed
  <1>7. ASSUME NEW t \in Tabs, Callback(t) PROVE Logins'
    <2>1. /\ at[t] = "callback" /\ UNCHANGED <<server, cookie, begun>>
          /\ \/ ~ Matches(t) /\ at'[t] = "denied" /\ disturbed' = disturbed
             \/ Matches(t) /\ at'[t] = "accepted" /\ disturbed' = disturbed \ {t}
             \/ at'[t] = "refused" /\ disturbed' = disturbed \ {t}
          /\ at'[t] # "refused" => want'[t] = want[t]
          /\ sent'[t] = NoCookie
          /\ \A s \in Tabs \ {t} : at'[s] = at[s] /\ want'[s] = want[s] /\ sent'[s] = sent[s]
      BY <1>7 DEF Callback, Answer, GoOn, Refuse, Typed, TabsTyped
    <2>2. CookiesMade'
      BY <2>1 DEF Logins, CookiesMade, Made
    <2>3. LoginsKept'
      <3>1. ~ Matches(t) => t \in disturbed
        BY <2>1 DEF Logins, LoginsKept
      <3> SUFFICES ASSUME NEW s \in Tabs, s \notin disturbed'
                   PROVE  /\ at'[s] = "provider" => cookie' = [key |-> server', ru |-> want'[s]]
                          /\ at'[s] = "callback" => sent'[s] = [key |-> server', ru |-> want'[s]]
                          /\ at'[s] # "denied"
        BY DEF LoginsKept, Matches
      <3>2. CASE s = t
        BY <2>1, <3>1, <3>2
      <3>3. CASE s # t
        BY <2>1, <3>3 DEF Logins, LoginsKept, Matches
      <3> QED
        BY <3>2, <3>3
    <2>4. AcceptedBegun'
      <3>1. Matches(t) => want[t] \in begun
        <4>1. ASSUME Matches(t)
              PROVE  sent[t] # NoCookie /\ sent[t].key = server /\ sent[t].ru = want[t]
          <5>1. sent[t] \in Cookies
            <6>1. want[t] \in Pages /\ server \in 0..MaxRestarts
              BY DEF Typed, TabsTyped, SiteTyped
            <6> QED
              BY <4>1, <6>1 DEF Matches, Cookies
          <5> QED
            BY <4>1, <5>1, NamesAssumption DEF Matches
        <4>2. want[t] # "attachment"
          BY NamesAssumption DEF Typed, TabsTyped, Pages
        <4> QED
          BY <4>1, <4>2 DEF Logins, CookiesMade, Made
      <3> QED
        BY <2>1, <3>1 DEF Logins, AcceptedBegun
    <2> QED
      BY <2>2, <2>3, <2>4 DEF Logins
  <1>8. ASSUME NEW t \in Tabs, Arrive(t) PROVE Logins'
    <2>1. /\ server' = server /\ cookie' = NoCookie /\ begun' = begun /\ want' = want
          /\ disturbed' = Away \ {t} /\ at'[t] = "asked" /\ sent'[t] = NoCookie
          /\ \A s \in Tabs \ {t} : at'[s] = at[s] /\ sent'[s] = sent[s]
      BY <1>8 DEF Arrive, Typed, TabsTyped
    <2>2. Made(cookie)'
      BY <2>1 DEF Made
    <2> QED
      BY <2>1, <2>2, LoginsCrossed DEF Away
  <1>9. ASSUME NEW t \in Tabs, LateAttachment(t) PROVE Logins'
    <2>1. /\ cookie' = [key |-> server, ru |-> "attachment"] /\ disturbed' = Away
          /\ UNCHANGED <<server, begun, at, want, sent>> /\ server \in Nat
      BY <1>9, BoundsAssumption DEF LateAttachment, tab, Typed, SiteTyped
    <2>2. Made(cookie)'
      BY <2>1 DEF Made
    <2> QED
      BY <2>1, <2>2, LoginsCrossed DEF Away
  <1>10. ASSUME NEW t \in Tabs, SendCallback(t) PROVE Logins'
    <2>1. /\ at[t] \in {"provider", "denied"} /\ at'[t] = "callback" /\ sent'[t] = cookie
          /\ UNCHANGED <<server, cookie, begun, disturbed, want>>
          /\ \A s \in Tabs \ {t} : at'[s] = at[s] /\ sent'[s] = sent[s]
      BY <1>10 DEF SendCallback, Typed, TabsTyped
    <2>2. CookiesMade'
      BY <2>1 DEF Logins, CookiesMade, Made
    <2>3. LoginsKept'
      BY <2>1 DEF Logins, LoginsKept, Matches
    <2>4. AcceptedBegun'
      BY <2>1 DEF Logins, AcceptedBegun
    <2> QED
      BY <2>2, <2>3, <2>4 DEF Logins
  <1>11. CASE Expire
    <2>1. /\ cookie' = NoCookie /\ disturbed' = Away
          /\ UNCHANGED <<server, begun, at, want, sent>>
      BY <1>11 DEF Expire, tab
    <2>2. Made(cookie)'
      BY <2>1 DEF Made
    <2> QED
      BY <2>1, <2>2, LoginsCrossed DEF Away
  <1>12. ASSUME UNCHANGED <<server, cookie, begun, disturbed, at, want, sent>> PROVE Logins'
    BY <1>12, LoginsUndisturbed
  <1>13. ASSUME NEW d \in Docs, Truncate(d) \/ Encode(d) \/ SavePage(d) PROVE Logins'
    BY <1>12, <1>13 DEF Truncate, Encode, SavePage, tab
  <1>14. CASE Restart
    <2>1. /\ server' = server + 1 /\ server \in Nat /\ cookie' = cookie
          /\ \A s \in Tabs : sent'[s] = NoCookie
          /\ \A s \in Tabs : at'[s] \in Results \cup {"provider"}
          /\ \A s \in Tabs : at'[s] \in {"provider", "denied"} => s \in disturbed'
      BY <1>14, BoundsAssumption DEF Restart, Typed, TabsTyped, SiteTyped, Away, Results
    <2>2. CookiesMade'
      <3>1. Made(cookie)'
        <4>1. cookie # NoCookie => cookie.key <= server /\ cookie.key \in Nat
          BY BoundsAssumption DEF Logins, CookiesMade, Made, Typed, SiteTyped, Cookies
        <4> QED
          BY <2>1, <4>1 DEF Made
      <3> QED
        BY <2>1, <3>1 DEF CookiesMade, Made
    <2>3. LoginsKept'
      BY <2>1 DEF LoginsKept, Results
    <2>4. AcceptedBegun'
      BY <2>1 DEF AcceptedBegun, Results
    <2> QED
      BY <2>2, <2>3, <2>4 DEF Logins
  <1>15. CASE UNCHANGED vars
    BY <1>12, <1>15 DEF vars, tab
  <1> QED
    BY <1>1, <1>2, <1>3, <1>4, <1>5, <1>6, <1>7, <1>8, <1>9, <1>10, <1>11, <1>13,
       <1>14, <1>15 DEF Next, Serve

-----------------------------------------------------------------------------
(***************************************************************************)
(* The home page, and what is known from it.                               *)
(***************************************************************************)

Seen == ScansComplete /\ ShownSeen

\* The metadata of a document no capture is at stays as it is.
LEMMA MetaKept ==
    ASSUME UNCHANGED <<readable, meta>>, NEW d
    PROVE  ReadMeta(d)' = ReadMeta(d)
  BY DEF ReadMeta

\* Tabs that do not move, begin anew, or are not at the home page.
LEMMA SeenElsewhere ==
    ASSUME Typed, Seen, UNCHANGED <<readable, meta, shownTo>>,
           \A t \in Tabs :
              \/ /\ at'[t] = at[t] /\ as'[t] = as[t] /\ list'[t] = list[t]
                 /\ todo'[t] = todo[t] /\ steady'[t] = steady[t]
              \/ steady'[t] = {}
              \/ at[t] \notin {"scan", "shown"} /\ steady'[t] = steady[t]
    PROVE  Seen'
  <1>1. ShownSeen'
    BY MetaKept DEF Seen, ShownSeen, MayList
  <1>2. ScansComplete'
    <2> SUFFICES ASSUME NEW s \in Tabs
                 PROVE  /\ at'[s] \notin {"scan", "shown"} => steady'[s] = {}
                        /\ at'[s] = "scan" =>
                              /\ steady'[s] \subseteq list'[s] \cup todo'[s]
                              /\ \A d \in steady'[s] : MayList(as'[s], ReadMeta(d)')
                        /\ at'[s] = "shown" => \/ steady'[s] \subseteq list'[s]
                                               \/ Cardinality(list'[s]) = Limit
      BY DEF ScansComplete, MayList
    <2>1. CASE steady'[s] = {}
      BY <2>1
    <2>2. CASE steady'[s] # {}
      <3>1. /\ at'[s] = at[s] /\ as'[s] = as[s] /\ list'[s] = list[s]
            /\ todo'[s] = todo[s] /\ steady'[s] = steady[s]
        BY <2>2 DEF Seen, ScansComplete
      <3>2. \A d \in steady'[s] : ReadMeta(d)' = ReadMeta(d)
        BY MetaKept
      <3> QED
        BY <3>1, <3>2 DEF Seen, ScansComplete
    <2> QED
      BY <2>1, <2>2
  <1> QED
    BY <1>1, <1>2 DEF Seen

\* What a capture changes is no longer expected.
LEMMA SeenChanged ==
    ASSUME Typed, Seen, NEW d \in Docs, Changed(d),
           \A e \in Docs \ {d} : ReadMeta(e)' = ReadMeta(e),
           UNCHANGED <<at, as, list, todo>>
    PROVE  Seen'
  <1>1. \A t \in Tabs : steady'[t] = steady[t] \ {d} /\ steady[t] \subseteq Docs
    BY DEF Changed, Typed, TabsTyped
  <1>2. shownTo' = {s \in shownTo : s[2] # d}
    BY DEF Changed
  <1>3. ScansComplete'
    <2> SUFFICES ASSUME NEW t \in Tabs
                 PROVE  /\ at'[t] \notin {"scan", "shown"} => steady'[t] = {}
                        /\ at'[t] = "scan" =>
                              /\ steady'[t] \subseteq list'[t] \cup todo'[t]
                              /\ \A e \in steady'[t] : MayList(as'[t], ReadMeta(e)')
                        /\ at'[t] = "shown" => \/ steady'[t] \subseteq list'[t]
                                               \/ Cardinality(list'[t]) = Limit
      BY DEF ScansComplete, MayList
    <2>1. steady'[t] \subseteq steady[t]
      BY <1>1
    <2>2. \A e \in steady'[t] : ReadMeta(e)' = ReadMeta(e)
      BY <1>1
    <2> QED
      BY <2>1, <2>2 DEF Seen, ScansComplete
  <1>4. ShownSeen'
    <2> SUFFICES ASSUME NEW u \in {User, Nobody}, NEW e \in Docs, <<u, e>> \in shownTo'
                 PROVE  MayList(u, ReadMeta(e)')
      BY DEF ShownSeen, MayList
    <2>1. <<u, e>> \in shownTo /\ e # d
      BY <1>2
    <2> QED
      BY <2>1 DEF Seen, ShownSeen
  <1> QED
    BY <1>3, <1>4 DEF Seen

\* What is unreadable is nobody's, and not public.
LEMMA ListedReadable ==
    ASSUME NEW u, NEW d, MayList(u, ReadMeta(d))
    PROVE  d \in readable
  BY DEF MayList, ReadMeta, NoMeta

\* Every step keeps what is known of the lists and what they have shown.
LEMMA StepSeen ==
    ASSUME Typed, Seen, [Next]_vars
    PROVE  Seen'
  <1>1. ASSUME NEW t \in Tabs, NEW p \in Pages, NEW u \in {User, Nobody}, Request(t, p, u),
               UNCHANGED docs, UNCHANGED shownTo
        PROVE  Seen'
    <2>1. /\ steady'[t] = {}
          /\ \A s \in Tabs \ {t} : /\ at'[s] = at[s] /\ as'[s] = as[s] /\ list'[s] = list[s]
                                   /\ todo'[s] = todo[s] /\ steady'[s] = steady[s]
      BY <1>1 DEF Request, Typed, TabsTyped, ListsTyped
    <2> QED
      BY <1>1, <2>1, SeenElsewhere DEF docs
  <1>2. ASSUME NEW t \in Tabs, at[t] \notin {"scan", "shown"},
               Refuse(t) \/ \E result : Answer(t, result) \/ GoOn(t, result)
        PROVE  Seen'
    <2>1. /\ UNCHANGED <<docs, shownTo>> /\ steady'[t] = steady[t]
          /\ \A s \in Tabs \ {t} : /\ at'[s] = at[s] /\ as'[s] = as[s] /\ list'[s] = list[s]
                                   /\ todo'[s] = todo[s] /\ steady'[s] = steady[s]
      BY <1>2 DEF Answer, GoOn, Refuse, Typed, TabsTyped, ListsTyped
    <2> QED
      BY <1>2, <2>1, SeenElsewhere DEF docs
  <1>3. ASSUME NEW t \in Tabs, NEW p \in Pages, Visit(t, p) PROVE Seen'
    BY <1>1, <1>3 DEF Visit, Typed, SiteTyped
  <1>4. ASSUME NEW t \in Tabs, Login(t) PROVE Seen'
    <2>1. CASE Begin(t)
      BY <1>2, <1>4, <2>1 DEF Login, Begin
    <2>2. CASE ~ Begin(t)
      <3>1. PICK u \in Left(t) : Request(t, "home", u) /\ UNCHANGED <<docs, shownTo>>
        BY <1>4, <2>2 DEF Login
      <3>2. "home" \in Pages /\ u \in {User, Nobody}
        BY LeftTyped DEF Pages, Typed
      <3> QED
        BY <1>1, <3>1, <3>2
    <2> QED
      BY <2>1, <2>2
  <1>5. ASSUME NEW t \in Tabs, Logout(t) PROVE Seen'
    <2>1. Request(t, "home", Nobody) /\ UNCHANGED <<docs, shownTo>> /\ "home" \in Pages
      BY <1>5 DEF Logout, Pages
    <2> QED
      BY <1>1, <2>1
  <1>6. ASSUME NEW t \in Tabs, ViewMeta(t) PROVE Seen'
    <2>1. Begin(t) \/ GoOn(t, "allowed") \/ Refuse(t)
      BY <1>6 DEF ViewMeta
    <2>2. at[t] = "asked"
      BY <1>6 DEF ViewMeta
    <2> QED
      BY <1>2, <2>1, <2>2 DEF Begin
  <1>7. ASSUME NEW t \in Tabs, ViewPage(t) PROVE Seen'
    BY <1>2, <1>7 DEF ViewPage
  <1>8. ASSUME NEW t \in Tabs, ListHome(t) PROVE Seen'
    <2>1. /\ at'[t] = "scan" /\ todo'[t] = listed /\ UNCHANGED <<readable, meta, as, list, shownTo>>
          /\ steady'[t] = {d \in listed : MayList(as[t], ReadMeta(d))}
          /\ \A s \in Tabs \ {t} : /\ at'[s] = at[s] /\ todo'[s] = todo[s]
                                   /\ steady'[s] = steady[s]
      BY <1>8 DEF ListHome, docs, Typed, TabsTyped
    <2>2. \A d : ReadMeta(d)' = ReadMeta(d)
      BY <2>1, MetaKept
    <2>3. ShownSeen'
      BY <2>1, <2>2 DEF Seen, ShownSeen, MayList
    <2>4. ScansComplete'
      <3> SUFFICES ASSUME NEW s \in Tabs
                   PROVE  /\ at'[s] \notin {"scan", "shown"} => steady'[s] = {}
                          /\ at'[s] = "scan" =>
                                /\ steady'[s] \subseteq list'[s] \cup todo'[s]
                                /\ \A d \in steady'[s] : MayList(as'[s], ReadMeta(d)')
                          /\ at'[s] = "shown" => \/ steady'[s] \subseteq list'[s]
                                                 \/ Cardinality(list'[s]) = Limit
        BY DEF ScansComplete, MayList
      <3>1. CASE s = t
        BY <2>1, <2>2, <3>1
      <3>2. CASE s # t
        BY <2>1, <2>2, <3>2 DEF Seen, ScansComplete
      <3> QED
        BY <3>1, <3>2
    <2> QED
      BY <2>3, <2>4 DEF Seen
  <1>9. ASSUME NEW t \in Tabs, NEW d \in Docs, ScanHome(t, d) PROVE Seen'
    <2>1. /\ at[t] = "scan" /\ UNCHANGED <<readable, meta, at, as, steady>>
          /\ todo'[t] = todo[t] \ {d}
          /\ \A s \in Tabs \ {t} : todo'[s] = todo[s] /\ list'[s] = list[s]
          /\ \/ /\ MayList(as[t], ReadMeta(d))
                /\ list'[t] = list[t] \cup {d} /\ shownTo' = shownTo \cup {<<as[t], d>>}
             \/ /\ ~ MayList(as[t], ReadMeta(d))
                /\ list'[t] = list[t] /\ shownTo' = shownTo
      BY <1>9 DEF ScanHome, docs, Typed, TabsTyped, ListsTyped
    <2>2. \A e : ReadMeta(e)' = ReadMeta(e)
      BY <2>1, MetaKept
    <2>3. ShownSeen'
      <3> SUFFICES ASSUME NEW u \in {User, Nobody}, NEW e \in Docs, <<u, e>> \in shownTo'
                   PROVE  MayList(u, ReadMeta(e)')
        BY DEF ShownSeen, MayList
      <3>1. <<u, e>> \in shownTo \/ (u = as[t] /\ e = d /\ MayList(as[t], ReadMeta(d)))
        <4>1. \/ shownTo' = shownTo
              \/ shownTo' = shownTo \cup {<<as[t], d>>} /\ MayList(as[t], ReadMeta(d))
          BY <2>1
        <4>2. <<u, e>> \in shownTo \/ (<<u, e>> = <<as[t], d>> /\ MayList(as[t], ReadMeta(d)))
          BY <4>1, Zenon
        <4> QED
          BY <4>2
      <3> QED
        BY <2>2, <3>1 DEF Seen, ShownSeen
    <2>4. ScansComplete'
      <3> SUFFICES ASSUME NEW s \in Tabs
                   PROVE  /\ at'[s] \notin {"scan", "shown"} => steady'[s] = {}
                          /\ at'[s] = "scan" =>
                                /\ steady'[s] \subseteq list'[s] \cup todo'[s]
                                /\ \A e \in steady'[s] : MayList(as'[s], ReadMeta(e)')
                          /\ at'[s] = "shown" => \/ steady'[s] \subseteq list'[s]
                                                 \/ Cardinality(list'[s]) = Limit
        BY DEF ScansComplete, MayList
      <3>1. CASE s = t
        BY <2>1, <2>2, <3>1 DEF Seen, ScansComplete
      <3>2. CASE s # t
        BY <2>1, <2>2, <3>2 DEF Seen, ScansComplete
      <3> QED
        BY <3>1, <3>2
    <2> QED
      BY <2>3, <2>4 DEF Seen
  <1>10. ASSUME NEW t \in Tabs, ShowHome(t) PROVE Seen'
    <2>1. /\ at[t] = "scan" /\ at'[t] = "shown"
          /\ UNCHANGED <<readable, meta, list, steady, shownTo>>
          /\ Full(t) \/ todo[t] = {}
          /\ \A s \in Tabs \ {t} : at'[s] = at[s] /\ as'[s] = as[s] /\ todo'[s] = todo[s]
      BY <1>10 DEF ShowHome, docs, Typed, TabsTyped
    <2>2. \A e : ReadMeta(e)' = ReadMeta(e)
      BY <2>1, MetaKept
    <2>3. ShownSeen'
      BY <2>1, <2>2 DEF Seen, ShownSeen, MayList
    <2>4. Full(t) => Cardinality(list[t]) = Limit
      <3>1. Cardinality(list[t]) \in Nat /\ Cardinality(list[t]) <= Limit
        BY FS_CardinalityType DEF Typed, ListsTyped
      <3> QED
        BY <3>1, LimitAssumption DEF Full
    <2>5. ScansComplete'
      <3> SUFFICES ASSUME NEW s \in Tabs
                   PROVE  /\ at'[s] \notin {"scan", "shown"} => steady'[s] = {}
                          /\ at'[s] = "scan" =>
                                /\ steady'[s] \subseteq list'[s] \cup todo'[s]
                                /\ \A d \in steady'[s] : MayList(as'[s], ReadMeta(d)')
                          /\ at'[s] = "shown" => \/ steady'[s] \subseteq list'[s]
                                                 \/ Cardinality(list'[s]) = Limit
        BY DEF ScansComplete, MayList
      <3>1. CASE s = t
        BY <2>1, <2>4, <3>1 DEF Seen, ScansComplete
      <3>2. CASE s # t
        BY <2>1, <2>2, <3>2 DEF Seen, ScansComplete
      <3> QED
        BY <3>1, <3>2
    <2> QED
      BY <2>3, <2>5 DEF Seen
  <1>11. ASSUME NEW t \in Tabs, Callback(t) PROVE Seen'
    <2>1. at[t] = "callback" /\ (Refuse(t) \/ Answer(t, "denied") \/ GoOn(t, "accepted"))
      BY <1>11 DEF Callback
    <2> QED
      BY <1>2, <2>1
  <1>12. ASSUME NEW t \in Tabs, Arrive(t) \/ SendCallback(t) PROVE Seen'
    <2>1. /\ at[t] \notin {"scan", "shown"}
          /\ UNCHANGED <<readable, meta, list, todo, steady, shownTo>>
          /\ \A s \in Tabs \ {t} : at'[s] = at[s] /\ as'[s] = as[s]
      BY <1>12 DEF Arrive, SendCallback, docs, Typed, TabsTyped
    <2> QED
      BY <2>1, SeenElsewhere
  <1>13. ASSUME UNCHANGED <<readable, meta, shownTo, at, as, list, todo, steady>> PROVE Seen'
    BY <1>13, SeenElsewhere
  <1>14. ASSUME NEW t \in Tabs, LateAttachment(t) PROVE Seen'
    BY <1>13, <1>14 DEF LateAttachment, docs, tab
  <1>15. CASE Expire
    BY <1>13, <1>15 DEF Expire, docs, tab
  <1>16. ASSUME NEW d \in Docs, Truncate(d) PROVE Seen'
    <2>1. \A e \in Docs \ {d} : ReadMeta(e)' = ReadMeta(e)
      BY <1>16 DEF Truncate, ReadMeta
    <2> QED
      BY <1>16, <2>1, SeenChanged DEF Truncate, tab
  <1>17. ASSUME NEW d \in Docs, Encode(d) PROVE Seen'
    <2>1. /\ readable' = readable \cup {d} /\ \A e \in Docs \ {d} : meta'[e] = meta[e]
      BY <1>17 DEF Encode, Typed, SiteTyped
    <2>2. \A e \in Docs \ {d} : ReadMeta(e)' = ReadMeta(e)
      BY <2>1 DEF ReadMeta
    <2> QED
      BY <1>17, <2>2, SeenChanged DEF Encode, tab
  <1>18. ASSUME NEW d \in Docs, SavePage(d) PROVE Seen'
    BY <1>13, <1>18 DEF SavePage, tab
  <1>19. CASE Restart
    <2>1. /\ UNCHANGED <<readable, meta, shownTo>>
          /\ \A s \in Tabs :
                \/ steady'[s] = {}
                \/ /\ at[s] \in Results \cup {"provider"} /\ at'[s] = at[s]
                   /\ list'[s] = list[s] /\ steady'[s] = steady[s]
      BY <1>19 DEF Restart, docs
    <2>2. \A e : ReadMeta(e)' = ReadMeta(e)
      BY <2>1, MetaKept
    <2>3. ShownSeen'
      BY <2>1, <2>2 DEF Seen, ShownSeen, MayList
    <2>4. ScansComplete'
      BY <2>1 DEF Seen, ScansComplete, Results
    <2> QED
      BY <2>3, <2>4 DEF Seen
  <1>20. CASE UNCHANGED vars
    BY <1>13, <1>20 DEF vars, docs, tab
  <1>21. ASSUME NEW t \in Tabs, FailHome(t) PROVE Seen'
    <2>1. /\ UNCHANGED <<readable, meta, shownTo>> /\ steady'[t] = {}
          /\ \A s \in Tabs \ {t} : /\ at'[s] = at[s] /\ as'[s] = as[s] /\ list'[s] = list[s]
                                   /\ todo'[s] = todo[s] /\ steady'[s] = steady[s]
      BY <1>21 DEF FailHome, docs, Typed, TabsTyped, ListsTyped
    <2> QED
      BY <2>1, SeenElsewhere
  <1> QED
    BY <1>3, <1>4, <1>5, <1>6, <1>7, <1>8, <1>9, <1>10, <1>11, <1>12, <1>14, <1>15,
       <1>16, <1>17, <1>18, <1>19, <1>20, <1>21 DEF Next, Serve

-----------------------------------------------------------------------------
(***************************************************************************)
(* The viewer.                                                             *)
(***************************************************************************)

\* The ID in the address of a document is found again if and only if it does not begin
\* with 0 (hoard.go: %010x in the link, %10x in the viewer).
LEMMA FormatFound ==
    ASSUME NEW d \in Docs
    PROVE  Formatted(d) = Digits[d] <=> Digits[d][1] # 0
  <1>1. Digits[d] \in [1..Width -> Nat] /\ 1 \in 1..Width
    BY DigitsAssumption, WidthAssumption
  <1>2. CASE Digits[d][1] # 0
    <2>1. \A i \in 1..Width : 1 \in 1..i
      OBVIOUS
    <2>2. \A i \in 1..Width : ~ \A j \in 1..i : Digits[d][j] = 0
      BY <1>2, <2>1
    <2>3. Formatted(d) = [i \in 1..Width |-> Digits[d][i]]
      BY <2>2 DEF Formatted
    <2> QED
      BY <1>1, <1>2, <2>3
  <1>3. CASE Digits[d][1] = 0
    <2>1. 1 < Width /\ \A j \in 1..1 : Digits[d][j] = 0
      BY <1>3, WidthAssumption
    <2>2. Formatted(d)[1] = Blank
      BY <1>1, <2>1 DEF Formatted
    <2> QED
      BY <1>1, <1>3, <2>2, BlankAssumption
  <1> QED
    BY <1>2, <1>3

\* Only the viewer's first step takes a request to document.bin.
LEMMA StepAllowed ==
    ASSUME Typed, AllowedFound, [Next]_vars
    PROVE  AllowedFound'
  <1>1. ASSUME NEW t \in Tabs, at'[t] = "allowed", at[t] = "allowed", want'[t] = want[t]
        PROVE  want'[t] \in Docs /\ Digits[want'[t]][1] # 0
    BY <1>1 DEF AllowedFound
  <1>2. ASSUME NEW t \in Tabs,
               \A s \in Tabs \ {t} : at'[s] = at[s] /\ want'[s] = want[s],
               at'[t] # "allowed"
        PROVE  AllowedFound'
    BY <1>2 DEF AllowedFound
  <1>3. ASSUME NEW t \in Tabs, NEW p \in Pages, Visit(t, p) PROVE AllowedFound'
    BY <1>2, <1>3 DEF Visit, Request, Typed, TabsTyped
  <1>4. ASSUME NEW t \in Tabs, Login(t) \/ Logout(t) PROVE AllowedFound'
    <2>1. Begin(t) \/ \E u : Request(t, "home", u)
      BY <1>4 DEF Login, Logout
    <2> QED
      BY <1>2, <2>1 DEF Begin, Answer, Request, Typed, TabsTyped
  <1>5. ASSUME NEW t \in Tabs, ViewMeta(t) PROVE AllowedFound'
    <2>1. CASE GoOn(t, "allowed") /\ Formatted(want[t]) = Digits[want[t]]
      <3>1. want[t] \in Docs /\ Digits[want[t]][1] # 0
        BY <1>5, <2>1, FormatFound DEF ViewMeta
      <3>2. want' = want /\ \A s \in Tabs \ {t} : at'[s] = at[s]
        BY <2>1 DEF GoOn, Typed, TabsTyped
      <3> QED
        BY <3>1, <3>2 DEF AllowedFound
    <2>2. CASE Refuse(t) \/ Begin(t)
      BY <1>2, <2>2 DEF Begin, Answer, Refuse, Typed, TabsTyped
    <2> QED
      BY <1>5, <2>1, <2>2 DEF ViewMeta
  <1>6. ASSUME NEW t \in Tabs, ViewPage(t) PROVE AllowedFound'
    BY <1>2, <1>6 DEF ViewPage, Answer, Refuse, Typed, TabsTyped
  <1>7. ASSUME NEW t \in Tabs, ListHome(t) \/ ShowHome(t) \/ FailHome(t)
        PROVE  AllowedFound'
    BY <1>2, <1>7 DEF ListHome, ShowHome, FailHome, Typed, TabsTyped
  <1>8. ASSUME NEW t \in Tabs, Callback(t) PROVE AllowedFound'
    BY <1>2, <1>8 DEF Callback, Answer, GoOn, Refuse, Typed, TabsTyped
  <1>9. ASSUME NEW t \in Tabs, Arrive(t) \/ SendCallback(t) PROVE AllowedFound'
    BY <1>2, <1>9 DEF Arrive, SendCallback, Typed, TabsTyped
  <1>10. ASSUME UNCHANGED <<at, want>> PROVE AllowedFound'
    BY <1>10 DEF AllowedFound
  <1>11. ASSUME NEW t \in Tabs, LateAttachment(t) \/ \E d \in Docs : ScanHome(t, d)
         PROVE  AllowedFound'
    BY <1>10, <1>11 DEF LateAttachment, ScanHome, tab
  <1>12. ASSUME NEW d \in Docs, Truncate(d) \/ Encode(d) \/ SavePage(d)
         PROVE  AllowedFound'
    BY <1>10, <1>12 DEF Truncate, Encode, SavePage, tab
  <1>13. CASE Restart
    BY <1>13 DEF Restart, AllowedFound, Results
  <1>14. CASE Expire \/ UNCHANGED vars
    BY <1>10, <1>14 DEF Expire, vars, tab
  <1> QED
    BY <1>3, <1>4, <1>5, <1>6, <1>7, <1>8, <1>9, <1>11, <1>12, <1>13, <1>14
    DEF Next, Serve

\* The final answer to a request for a document that was listed for its user, and has
\* not changed since.
LEMMA ListedAnswered ==
    ASSUME IInv, [Next]_vars, NEW t \in Tabs, at[t] \in {"asked", "allowed"},
           want[t] \in Docs, <<as[t], want[t]>> \in shownTo,
           at'[t] \notin {"asked", "allowed"}, server' = server
    PROVE  at'[t] = "shown" <=> Digits[want[t]][1] # 0 /\ want[t] \in pages
  <1>1. Typed /\ Seen /\ AllowedFound
    BY DEF IInv, Typed, Seen
  <1>2. want[t] \in readable /\ MayView(as[t], meta[want[t]])
    <2>1. MayList(as[t], ReadMeta(want[t]))
      BY <1>1 DEF Seen, ShownSeen, Typed, TabsTyped
    <2>2. want[t] \in readable
      BY <2>1, ListedReadable
    <2> QED
      BY <2>1, <2>2 DEF MayList, MayView, ReadMeta
  <1>3. want[t] \notin {"home", "login", "logout"}
    BY NamesAssumption
  <1>4. CASE ViewMeta(t)
    <2>1. ~ GoOn(t, "allowed")
      BY <1>1 DEF GoOn, Typed, TabsTyped
    <2>2. Formatted(want[t]) # Digits[want[t]] /\ Refuse(t)
      BY <1>2, <1>4, <2>1 DEF ViewMeta
    <2>3. at'[t] = "refused"
      BY <1>1, <2>2 DEF Refuse, Typed, TabsTyped
    <2> QED
      BY <2>2, <2>3, FormatFound
  <1>5. CASE ViewPage(t)
    <2>1. Digits[want[t]][1] # 0
      BY <1>1, <1>5 DEF ViewPage, AllowedFound
    <2>2. CASE want[t] \in pages
      BY <1>1, <1>5, <2>1, <2>2 DEF ViewPage, Answer, Typed, TabsTyped
    <2>3. CASE want[t] \notin pages
      BY <1>1, <1>5, <2>3 DEF ViewPage, Refuse, Typed, TabsTyped
    <2> QED
      BY <2>2, <2>3
  <1>6. ASSUME NEW s \in Tabs, Serve(s), ~ (s = t /\ (ViewMeta(t) \/ ViewPage(t)))
        PROVE  at'[t] = at[t]
    <2>1. s # t
      BY <1>3, <1>6
      DEF Serve, Login, Logout, ListHome, ScanHome, ShowHome, FailHome, Callback, Arrive
    <2> QED
      BY <1>1, <1>6, <2>1
      DEF Serve, Login, Logout, ViewMeta, ViewPage, ListHome, ScanHome, ShowHome, FailHome,
          Callback, Arrive, Begin, Request, Answer, GoOn, Refuse, Typed, TabsTyped
  <1>7. ASSUME NEW s \in Tabs, NEW p \in Pages, Visit(s, p) PROVE at'[t] = at[t]
    BY <1>1, <1>7 DEF Visit, Request, Results, Typed, TabsTyped
  <1>8. ASSUME NEW s \in Tabs, LateAttachment(s) PROVE at'[t] = at[t]
    BY <1>8 DEF LateAttachment, tab
  <1>9. ASSUME NEW s \in Tabs, SendCallback(s) PROVE at'[t] = at[t]
    BY <1>1, <1>9 DEF SendCallback, Typed, TabsTyped
  <1>10. ASSUME NEW d \in Docs, Truncate(d) \/ Encode(d) \/ SavePage(d) PROVE at'[t] = at[t]
    BY <1>10 DEF Truncate, Encode, SavePage, tab
  <1>11. ~ Restart
    <2>1. server \in Nat
      BY <1>1, BoundsAssumption DEF Typed, SiteTyped
    <2> QED
      BY <2>1 DEF Restart
  <1>12. ASSUME Expire \/ UNCHANGED vars PROVE at'[t] = at[t]
    BY <1>12 DEF Expire, vars, tab
  <1> QED
    BY <1>4, <1>5, <1>6, <1>7, <1>8, <1>9, <1>10, <1>11, <1>12 DEF Next

-----------------------------------------------------------------------------
(***************************************************************************)
(* The theorems.                                                           *)
(***************************************************************************)

\* IInv holds at first.
LEMMA InitIInv == Init => IInv
  <1> SUFFICES ASSUME Init PROVE IInv
    OBVIOUS
  <1>1. Typed
    BY InitTyped
  <1>2. CookiesMade /\ LoginsKept /\ AcceptedBegun
    BY DEF Init, CookiesMade, Made, LoginsKept, AcceptedBegun
  <1>3. ScansComplete /\ ShownSeen /\ AllowedFound
    BY DEF Init, ScansComplete, ShownSeen, AllowedFound
  <1> QED
    BY <1>1, <1>2, <1>3 DEF IInv, Typed

\* Every step keeps IInv.
LEMMA StepIInv == IInv /\ [Next]_vars => IInv'
  BY StepTyped, StepLogins, StepSeen, StepAllowed DEF IInv, Typed, Logins, Seen

\* IInv is an invariant.
LEMMA Invariance == Spec => []IInv
  BY InitIInv, StepIInv, PTL DEF Spec

\* Type correctness of the web server and the tabs; the limit of the home page is kept.
THEOREM TypeCorrect == Spec => []TypeOK
  <1>1. IInv => TypeOK
    BY TypedIsTypeOK DEF IInv, Typed
  <1> QED
    BY <1>1, Invariance, PTL

\* A login is denied only if something came across it, and accepted only if this run
\* of the server began it (oidc.go:161-163, 244-254).
THEOREM CallbacksAreJudged == Spec => []CallbackJudged
  <1>1. IInv => CallbackJudged
    BY DEF IInv, LoginsKept, AcceptedBegun, CallbackJudged
  <1> QED
    BY <1>1, Invariance, PTL

\* The home page leaves out nothing that was to be seen unless it is full
\* (nocache.go:17-58).
THEOREM HomeIsComplete == Spec => []HomeComplete
  <1>1. IInv => HomeComplete
    BY DEF IInv, ScansComplete, HomeComplete
  <1> QED
    BY <1>1, Invariance, PTL

\* What the home page lists is shown to the same user exactly when its ID does not begin
\* with 0 and its page is saved (nocache.go:36-45, hoard.go:687-736).
THEOREM ListedIsShown == Spec => ListedShown
  <1>1. IInv /\ [Next]_vars =>
            [\A t \in Tabs :
                /\ at[t] \in {"asked", "allowed"} /\ want[t] \in Docs
                /\ <<as[t], want[t]>> \in shownTo
                /\ at'[t] \notin {"asked", "allowed"}
                /\ server' = server
                => (at'[t] = "shown" <=> Digits[want[t]][1] # 0 /\ want[t] \in pages)]_vars
    BY ListedAnswered
  <1> QED
    BY <1>1, Invariance, PTL DEF Spec, ListedShown
=============================================================================
