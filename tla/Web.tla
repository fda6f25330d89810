-------------------------------- MODULE Web --------------------------------
(***************************************************************************)
(* The pages of the web server as the tabs of one browser see them: the    *)
(* home page, which lists the documents the user may view, the viewer, and *)
(* the login with an OpenID provider that either may begin (cmd/hoard,     *)
(* login/oidc.go, storage/nocache.go).                                     *)
(*                                                                         *)
(* A login leaves the site and comes back to /auth/callback with a state,  *)
(* the page to return to, which has to match the authentication code of    *)
(* that state in a cookie.  All tabs share this cookie, and the key of the *)
(* code is new in every run of the server.  The session is kept apart from *)
(* the detail of Sessions: who is logged in with the cookie the browser    *)
(* has.                                                                    *)
(*                                                                         *)
(* Documents are saved meanwhile, one file after the other as on the file  *)
(* store (DraftApi); on git the steps of one capture are one.              *)
(***************************************************************************)
EXTENDS Naturals, FiniteSets

CONSTANTS
    Tabs,         \* tabs of the browser
    User,         \* its user
    Others,       \* other users
    Nobody,       \* LoggedInAs = "", Owner = ""
    Docs,         \* documents
    Digits,       \* the digits of each document's ID
    Width,        \* how many: 10
    Blank,        \* the character " "
    NoCookie,     \* the browser has no cookie oidc-auth
    Limit,        \* documents on the home page: 200
    MaxRestarts,  \* bound: restarts of the server
    MaxCaptures   \* bound: captures that begin

ASSUME DigitsAssumption == Digits \in [Docs -> [1..Width -> Nat]]
ASSUME WidthAssumption  == Width \in Nat /\ Width > 1
ASSUME BlankAssumption  == Blank \notin Nat
ASSUME LimitAssumption  == Limit \in Nat \ {0}
ASSUME UsersAssumption  == Nobody \notin {User} \cup Others
ASSUME BoundsAssumption == MaxRestarts \in Nat /\ MaxCaptures \in Nat

Pages   == Docs \cup {"home", "login", "logout"}
Users   == {User} \cup Others
Cookies == [key : 0..MaxRestarts, ru : Pages \cup {"attachment"}]
Metas   == [owner : Users \cup {Nobody}, public : BOOLEAN]

ASSUME NamesAssumption == /\ Docs \cap {"home", "login", "logout", "attachment"} = {}
                          /\ NoCookie \notin Cookies

NoMeta  == [owner |-> Nobody, public |-> FALSE]  \* what ReadMeta returns with an error

VARIABLES
    server,    \* the run of the server, and of its cookieKey
    session,   \* who the browser is logged in as
    cookie,    \* the cookie oidc-auth
    listed,    \* documents DocumentIDs returns
    readable,  \* those with a whole meta.xml
    meta,      \* what it says
    pages,     \* those with a document.bin
    captures,  \* captures begun
    at,        \* where each tab is
    want,      \* the page it wants
    as,        \* who its request came from
    sent,      \* the cookie oidc-auth its callback came with
    todo,      \* documents GetDocuments has not come to
    list,      \* documents it has found
    steady,    \* history: documents that were to be found all the while
    begun,     \* history: pages for which this run of the server began a tab's login
    disturbed, \* history: tabs whose login something else came across
    shownTo    \* history: documents listed, and unchanged, for whom

docs == <<listed, readable, meta, pages, captures>>
tab  == <<at, want, as, sent, todo, list>>
vars == <<server, session, cookie, docs, tab, steady, begun, disturbed, shownTo>>

Init ==
    /\ server = 0
    /\ session = Nobody
    /\ cookie = NoCookie
    /\ listed \in SUBSET Docs
    /\ readable = listed
    /\ meta \in [Docs -> [owner : Users, public : BOOLEAN] \cup {NoMeta}]
    /\ \A d \in Docs : d \in listed <=> meta[d] # NoMeta
    /\ pages = listed
    /\ captures = 0
    /\ at = [t \in Tabs |-> "refused"]
    /\ want = [t \in Tabs |-> "home"]
    /\ as = [t \in Tabs |-> Nobody]
    /\ sent = [t \in Tabs |-> NoCookie]
    /\ todo = [t \in Tabs |-> {}]
    /\ list = [t \in Tabs |-> {}]
    /\ steady = [t \in Tabs |-> {}]
    /\ begun = {}
    /\ disturbed = {}
    /\ shownTo = {}

-----------------------------------------------------------------------------
(* Requests and answers.                                                   *)

Results == {"shown", "refused", "denied"}

\* Tab t asks for page p, with a session of user u.
Request(t, p, u) ==
    /\ at' = [at EXCEPT ![t] = "asked"]
    /\ want' = [want EXCEPT ![t] = p]
    /\ as' = [as EXCEPT ![t] = u]
    /\ sent' = [sent EXCEPT ![t] = NoCookie]
    /\ todo' = [todo EXCEPT ![t] = {}]
    /\ list' = [list EXCEPT ![t] = {}]
    /\ steady' = [steady EXCEPT ![t] = {}]
    /\ disturbed' = disturbed \ {t}

\* The user opens a page, perhaps instead of logging in.
Visit(t, p) ==
    /\ at[t] \in Results \cup {"provider"}
    /\ Request(t, p, session)
    /\ UNCHANGED <<server, session, cookie, docs, begun, shownTo>>

\* Every answer sets the cookie of the session its request came with, also if the
\* browser has a newer one by now; and that session may have been logged out meanwhile.
Left(t) == {session, as[t], Nobody}

Answer(t, result) ==
    /\ at' = [at EXCEPT ![t] = result]
    /\ as' = [as EXCEPT ![t] = Nobody]
    /\ sent' = [sent EXCEPT ![t] = NoCookie]
    /\ session' \in Left(t)
    /\ UNCHANGED <<server, docs, want, todo, list, steady, shownTo>>

\* A handler goes on; its answer is yet to come.
GoOn(t, label) ==
    /\ at' = [at EXCEPT ![t] = label]
    /\ sent' = [sent EXCEPT ![t] = NoCookie]
    /\ UNCHANGED <<server, session, docs, want, as, todo, list, steady, shownTo>>

\* A page that says what is wrong.
Refuse(t) ==
    /\ at' = [at EXCEPT ![t] = "refused"]
    /\ want' = [want EXCEPT ![t] = "home"]
    /\ as' = [as EXCEPT ![t] = Nobody]
    /\ sent' = [sent EXCEPT ![t] = NoCookie]
    /\ session' \in Left(t)
    /\ UNCHANGED <<server, docs, todo, list, steady, shownTo>>

\* The tabs in the middle of a login.
Away == {t \in Tabs : at[t] \in {"provider", "callback", "denied"}}

\* Mutant of Begin: a cookie that is there is used again.
BeginWithOld(t) ==
    /\ cookie' = IF cookie = NoCookie THEN [key |-> server, ru |-> want[t]] ELSE cookie
    /\ disturbed' = Away \ {t}
    /\ begun' = begun \cup {want[t]}
    /\ Answer(t, "provider")

\* initiateLogin: the cookie of this login replaces that of another tab's.
Begin(t) ==
    /\ cookie' = [key |-> server, ru |-> want[t]]
    /\ disturbed' = Away \ {t}
    /\ begun' = begun \cup {want[t]}
    /\ Answer(t, "provider")

\* /login, for a user who is not logged in; one who is is sent to the home page.
Login(t) ==
    /\ at[t] = "asked" /\ want[t] = "login"
    /\ \/ as[t] = Nobody /\ Begin(t)
       \/ /\ as[t] # Nobody
          /\ \E u \in Left(t) : session' = u /\ Request(t, "home", u)
          /\ UNCHANGED <<server, cookie, docs, begun, shownTo>>

\* The browser is left with the session that was logged out.
Logout(t) ==
    /\ at[t] = "asked" /\ want[t] = "logout"
    /\ session' = Nobody
    /\ Request(t, "home", Nobody)
    /\ UNCHANGED <<server, cookie, docs, begun, shownTo>>

-----------------------------------------------------------------------------
(* The viewer.                                                             *)

\* The ID as the viewer formats it: %10x, where its link was made with %010x.
Formatted(d) ==
    [i \in 1..Width |-> IF i < Width /\ \A j \in 1..i : Digits[d][j] = 0
                        THEN Blank ELSE Digits[d][i]]

ReadMeta(d) == IF d \in readable THEN meta[d] ELSE NoMeta

\* Mutant of MayView: public or not, the user has to be the owner.
MayViewOwn(u, m) == u # Nobody /\ m.owner = u

MayView(u, m) == ~ m.public => u # Nobody /\ m.owner = u

\* The answer depends on meta.xml, which is read first ...
ViewMeta(t) ==
    LET d == want[t] IN
    /\ at[t] = "asked" /\ d \in Docs
    /\ \/ /\ Formatted(d) # Digits[d] \/ d \notin readable
          /\ Refuse(t)
          /\ UNCHANGED <<cookie, begun, disturbed>>
       \/ /\ Formatted(d) = Digits[d] /\ d \in readable
          /\ \/ /\ MayView(as[t], meta[d])
                /\ GoOn(t, "allowed")
                /\ UNCHANGED <<cookie, begun, disturbed>>
             \/ /\ ~ MayView(as[t], meta[d]) /\ as[t] # Nobody
                /\ Refuse(t)
                /\ UNCHANGED <<cookie, begun, disturbed>>
             \/ /\ ~ MayView(as[t], meta[d]) /\ as[t] = Nobody
                /\ Begin(t)

\* ... and then on document.bin.
ViewPage(t) ==
    /\ at[t] = "allowed"
    /\ IF want[t] \in pages THEN Answer(t, "shown") ELSE Refuse(t)
    /\ UNCHANGED <<cookie, begun, disturbed>>

\* The page asks for an attachment when the session is gone: the answer is a
\* redirect to the provider, with a cookie.
LateAttachment(t) ==
    /\ at[t] = "shown" /\ want[t] \in Docs
    /\ session = Nobody
    /\ want[t] \in readable /\ ~ meta[want[t]].public
    /\ cookie' = [key |-> server, ru |-> "attachment"]
    /\ disturbed' = Away
    /\ UNCHANGED <<server, session, docs, tab, steady, begun, shownTo>>

-----------------------------------------------------------------------------
(* The home page: GetDocuments, with offset 0.                             *)

MayList(u, m) == m.public \/ (u # Nobody /\ m.owner = u)

ListHome(t) ==
    /\ at[t] = "asked" /\ want[t] = "home"
    /\ at' = [at EXCEPT ![t] = "scan"]
    /\ todo' = [todo EXCEPT ![t] = listed]
    /\ steady' = [steady EXCEPT ![t] = {d \in listed : MayList(as[t], ReadMeta(d))}]
    /\ UNCHANGED <<server, session, cookie, docs, want, as, sent, list, begun, disturbed,
                   shownTo>>

\* Mutant of Full: one more.
FullLate(t) == Cardinality(list[t]) > Limit

\* Mutant of Full: documents that were passed over count, too.
FullOfAny(t) == Cardinality(listed \ todo[t]) >= Limit

Full(t) == Cardinality(list[t]) >= Limit

\* Metadata that cannot be read is taken for that of nobody's document.
ScanHome(t, d) ==
    /\ at[t] = "scan" /\ ~ Full(t)
    /\ d \in todo[t]
    /\ todo' = [todo EXCEPT ![t] = @ \ {d}]
    /\ \/ /\ MayList(as[t], ReadMeta(d))
          /\ list' = [list EXCEPT ![t] = @ \cup {d}]
          /\ shownTo' = shownTo \cup {<<as[t], d>>}
       \/ /\ ~ MayList(as[t], ReadMeta(d))
          /\ UNCHANGED <<list, shownTo>>
    /\ UNCHANGED <<server, session, cookie, docs, at, want, as, sent, steady, begun,
                   disturbed>>

ShowHome(t) ==
    /\ at[t] = "scan" /\ (Full(t) \/ todo[t] = {})
    /\ at' = [at EXCEPT ![t] = "shown"]
    /\ todo' = [todo EXCEPT ![t] = {}]
    /\ as' = [as EXCEPT ![t] = Nobody]
    /\ session' \in Left(t)
    /\ UNCHANGED <<server, cookie, docs, want, sent, list, steady, begun, disturbed,
                   shownTo>>

\* The store fails to open a document, and with it the page.
FailHome(t) ==
    /\ at[t] = "scan" /\ ~ Full(t) /\ todo[t] # {}
    /\ at' = [at EXCEPT ![t] = "refused"]
    /\ as' = [as EXCEPT ![t] = Nobody]
    /\ todo' = [todo EXCEPT ![t] = {}]
    /\ list' = [list EXCEPT ![t] = {}]
    /\ steady' = [steady EXCEPT ![t] = {}]
    /\ session' \in Left(t)
    /\ UNCHANGED <<server, cookie, docs, want, sent, begun, disturbed, shownTo>>

-----------------------------------------------------------------------------
(* The provider and the callback.                                          *)

\* The user has logged in; or reloads a callback that was denied.
SendCallback(t) ==
    /\ at[t] \in {"provider", "denied"}
    /\ at' = [at EXCEPT ![t] = "callback"]
    /\ sent' = [sent EXCEPT ![t] = cookie]
    /\ UNCHANGED <<server, session, cookie, docs, want, as, todo, list, steady,
                   begun, disturbed, shownTo>>

\* Mutant of Matches: the key is the same in every run of the server.
MatchesEver(t) == sent[t] # NoCookie /\ sent[t].ru = want[t]

Matches(t) == sent[t] = [key |-> server, ru |-> want[t]]

\* What the provider says of the code: it may be no good.  The request comes from another
\* site, without the session of the browser, and so is answered with a new one.
Callback(t) ==
    /\ at[t] = "callback"
    /\ \/ ~ Matches(t) /\ Answer(t, "denied") /\ UNCHANGED disturbed
       \/ Matches(t) /\ GoOn(t, "accepted") /\ disturbed' = disturbed \ {t}
       \/ Matches(t) /\ Refuse(t) /\ disturbed' = disturbed \ {t}
    /\ UNCHANGED <<cookie, begun>>

\* The answer sets the cookie of the new session, deletes the other one, also if it
\* is that of another tab by now, and has the tab ask for its page again.
Arrive(t) ==
    /\ at[t] = "accepted"
    /\ session' = User
    /\ cookie' = NoCookie
    /\ at' = [at EXCEPT ![t] = "asked"]
    /\ as' = [as EXCEPT ![t] = User]
    /\ sent' = [sent EXCEPT ![t] = NoCookie]
    /\ disturbed' = Away \ {t}
    /\ UNCHANGED <<server, docs, want, todo, list, steady, begun, shownTo>>

\* The cookie has been there for 20 minutes.
Expire ==
    /\ cookie # NoCookie
    /\ cookie' = NoCookie
    /\ disturbed' = Away
    /\ UNCHANGED <<server, session, docs, tab, steady, begun, shownTo>>

-----------------------------------------------------------------------------
(* Captures and restarts.                                                  *)

\* What has changed is not as it was listed.
Changed(d) ==
    /\ steady' = [t \in Tabs |-> steady[t] \ {d}]
    /\ shownTo' = {s \in shownTo : s[2] # d}

\* A capture makes or truncates meta.xml,
Truncate(d) ==
    /\ captures < MaxCaptures
    /\ captures' = captures + 1
    /\ listed' = listed \cup {d}
    /\ readable' = readable \ {d}
    /\ Changed(d)
    /\ UNCHANGED <<server, session, cookie, meta, pages, tab, begun,
                   disturbed>>

\* writes it, for the same owner, and for nobody else any more,
Encode(d) ==
    /\ d \in listed \ readable
    /\ \E u \in IF meta[d] = NoMeta THEN Users ELSE {meta[d].owner} :
          meta' = [meta EXCEPT ![d] = [owner |-> u, public |-> FALSE]]
    /\ readable' = readable \cup {d}
    /\ Changed(d)
    /\ UNCHANGED <<server, session, cookie, listed, pages, captures, tab, begun,
                   disturbed>>

\* and saves the page.
SavePage(d) ==
    /\ d \in readable \ pages
    /\ pages' = pages \cup {d}
    /\ UNCHANGED <<server, session, cookie, listed, readable, meta, captures, tab,
                   steady, begun, disturbed, shownTo>>

\* Requests are lost, and sessions, too, if they are kept in memory.
Restart ==
    LET lost == {t \in Tabs : at[t] \notin Results \cup {"provider"}}
    IN  /\ server < MaxRestarts
        /\ server' = server + 1
        /\ session' \in {session, Nobody}
        /\ at' = [t \in Tabs |-> IF t \in lost THEN "refused" ELSE at[t]]
        /\ want' = [t \in Tabs |-> IF t \in lost THEN "home" ELSE want[t]]
        /\ as' = [t \in Tabs |-> Nobody]
        /\ sent' = [t \in Tabs |-> NoCookie]
        /\ todo' = [t \in Tabs |-> {}]
        /\ list' = [t \in Tabs |-> IF t \in lost THEN {} ELSE list[t]]
        /\ steady' = [t \in Tabs |-> IF t \in lost THEN {} ELSE steady[t]]
        /\ begun' = {}
        /\ disturbed' = Away \ lost
        /\ UNCHANGED <<cookie, docs, shownTo>>

-----------------------------------------------------------------------------
Serve(t) ==
    \/ Login(t)
    \/ Logout(t)
    \/ ViewMeta(t)
    \/ ViewPage(t)
    \/ ListHome(t)
    \/ \E d \in Docs : ScanHome(t, d)
    \/ ShowHome(t)
    \/ FailHome(t)
    \/ Callback(t)
    \/ Arrive(t)

Next ==
    \/ \E t \in Tabs, p \in Pages : Visit(t, p)
    \/ \E t \in Tabs : Serve(t)
    \/ \E t \in Tabs : LateAttachment(t)
    \/ \E t \in Tabs : SendCallback(t)
    \/ Expire
    \/ \E d \in Docs : Truncate(d) \/ Encode(d) \/ SavePage(d)
    \/ Restart

Spec == Init /\ [][Next]_vars

-----------------------------------------------------------------------------
(* Properties.                                                             *)

TypeOK ==
    /\ server \in 0..MaxRestarts
    /\ session \in {User, Nobody}
    /\ cookie \in Cookies \cup {NoCookie}
    /\ readable \subseteq listed /\ pages \subseteq listed /\ listed \subseteq Docs
    /\ meta \in [Docs -> Metas]
    /\ captures \in 0..MaxCaptures
    /\ at \in [Tabs -> Results \cup {"asked", "scan", "allowed", "provider", "callback",
                                     "accepted"}]
    /\ want \in [Tabs -> Pages]
    /\ as \in [Tabs -> {User, Nobody}]
    /\ sent \in [Tabs -> Cookies \cup {NoCookie}]
    /\ todo \in [Tabs -> SUBSET Docs]
    /\ list \in [Tabs -> {s \in SUBSET Docs : Cardinality(s) <= Limit}]
    /\ steady \in [Tabs -> SUBSET Docs]
    /\ begun \subseteq Pages
    /\ disturbed \subseteq Away
    /\ shownTo \subseteq {User, Nobody} \X Docs

\* "state did not match" (oidc.go:252) is said to nobody whose login nothing came
\* across: no restart, no expiry, no other login that began, ended or was asked for by
\* an attachment since this one began.  And a login is accepted only if this run of the
\* server sent the browser away for the page it returns to, in whichever tab: a cookie
\* outlives the key it was made with (oidc.go:161-163, 244-254).
CallbackJudged ==
    \A t \in Tabs : /\ at[t] = "denied" => t \in disturbed
                    /\ at[t] = "accepted" => want[t] \in begun

\* The home page leaves out a document that its user could see all the while only if it
\* is full (nocache.go:17-58).
HomeComplete ==
    \A t \in Tabs :
        at[t] = "shown" /\ want[t] = "home" /\ steady[t] # {} =>
            steady[t] \subseteq list[t] \/ Cardinality(list[t]) = Limit

\* The viewer shows what the home page has listed for the same user, as long as
\* meta.xml does not change, if and only if the document's ID does not begin with 0
\* (hoard.go:687) and its document.bin is there, which a first capture saves after
\* meta.xml (hoard.go:733-736).  So the two decide alike on who may see it, neither asks
\* for a login the other does without (nocache.go:36-45, hoard.go:698-709), and what has
\* such an ID is listed and never shown.
ListedShown ==
    [][\A t \in Tabs :
          /\ at[t] \in {"asked", "allowed"} /\ want[t] \in Docs
          /\ <<as[t], want[t]>> \in shownTo
          /\ at'[t] \notin {"asked", "allowed"}
          /\ server' = server
          => (at'[t] = "shown" <=> Digits[want[t]][1] # 0 /\ want[t] \in pages)]_vars

=============================================================================
