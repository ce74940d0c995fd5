-------------------------------- MODULE Login --------------------------------
(***************************************************************************)
(* Single sign-on with the forum (src/src/auth): the browser of one user,  *)
(* several tabs of which share its cookies, the session middleware, the    *)
(* OIDC flows and the tables oidc_login_states and sessions.               *)
(*                                                                         *)
(* A request is sent with the cookies of that moment, is served in one or  *)
(* more steps, and its response changes the cookies when it arrives, in    *)
(* whatever order the tabs' responses arrive.  The forum is external: it   *)
(* answers an authorization request with a code, with login_required, or   *)
(* with another error.                                                     *)
(***************************************************************************)
EXTENDS Naturals, FiniteSets

CONSTANTS
    Tabs,         \* the tabs of the browser
    Attempts,     \* oidc_login_states: the state tokens, issued in order
    Sids,         \* sessions.id, created in order
    NoSid,        \* no session cookie
    NoAttempt,    \* no state token
    Keep,         \* the response leaves a cookie as it is
    MaxVisits,    \* bounds, by the number of tabs in use: requests that the user starts
    MaxEvents     \* and events of the clock and of the forum, failures of the database,
                  \* the forum or the network

ASSUME LoginAssumption ==
    /\ Attempts \subseteq Nat
    /\ Sids \subseteq Nat
    /\ NoSid \notin Sids
    /\ NoAttempt \notin Attempts
    /\ Keep \notin Sids \cup {NoSid} /\ Keep \notin {"no", "timed", "closing"}
    /\ {MaxVisits, MaxEvents} \subseteq [1 .. Cardinality(Tabs) -> Nat]

Flows == {"interactive", "probe", "revalidate"}
Answers == {"code", "login_required", "error"}

VARIABLES
    attempts,     \* the login states
    sessions,     \* the sessions
    cookie,       \* the session_id cookie
    checked,      \* the forum_sso_checked cookie: none, timed, or until the browser closes
    inUse,        \* the tabs that the user opens
    metadata,     \* whether the browser sends Sec-Fetch-Mode
    tabs,         \* the request each tab is waiting for
    atForum,      \* whether the browser is logged in at the forum
    loggedOut,    \* the user logged out and asked for nothing since
    visits, events

loginVars == <<attempts, sessions, cookie, checked, inUse, tabs, atForum, loggedOut,
               visits, events, metadata>>

\* The request of a tab: where it is, whether it is a top-level navigation,
\* whether the page it asks for, or is to return to, requires a login, the
\* cookies it was sent with, whether the session cookie turned out invalid, the
\* state token it carries with the forum's answer, the session whose CSRF token
\* the page of the tab has; and the response: where it leads and what it sets.
Idle == [at |-> "idle", nav |-> TRUE, private |-> FALSE, sid |-> NoSid, checked |-> FALSE, invalid |-> FALSE,
         attempt |-> NoAttempt, answer |-> "error", page |-> NoSid, created |-> NoSid,
         to |-> "idle", setCookie |-> Keep, setChecked |-> Keep]

LoginInit ==
    /\ attempts = [k \in Attempts |-> [st |-> "unused", flow |-> "interactive", private |-> FALSE, answer |-> "none"]]
    /\ sessions = [s \in Sids |-> [st |-> "none", due |-> FALSE, tried |-> FALSE, by |-> NoAttempt]]
    /\ cookie = NoSid
    /\ checked = "no"
    /\ inUse \in SUBSET Tabs \ {{}}
    /\ metadata \in BOOLEAN
    /\ tabs = [t \in Tabs |-> Idle]
    /\ atForum \in BOOLEAN
    /\ loggedOut = FALSE
    /\ visits = 0 /\ events = 0

-----------------------------------------------------------------------------
(* Requests and responses. *)

Live(s) == s \in Sids /\ sessions[s].st = "live"

\* Whatever can fail may fail.
Event == events < MaxEvents[Cardinality(inUse)] /\ events' = events + 1
MayFail(fail) == IF fail THEN Event ELSE UNCHANGED events

\* With the page that the browser is to return to.
StoreLoginState(k, flow, private) ==
    /\ attempts[k].st = "unused"
    /\ \A j \in Attempts : j < k => attempts[j].st # "unused"
    /\ attempts' = [attempts EXCEPT ![k] = [@ EXCEPT !.st = "issued", !.flow = flow, !.private = private]]

CreateSession(s, k) ==
    /\ sessions[s].st = "none"
    /\ \A r \in Sids : r < s => sessions[r].st # "none"
    /\ sessions' = [sessions EXCEPT ![s] = [st |-> "live", due |-> FALSE, tried |-> FALSE, by |-> k]]

\* The attempt is marked on the session, so that a failure is not retried at once.
MarkRevalidation(s) == sessions' = [sessions EXCEPT ![s].tried = TRUE]

\* A DELETE that fails is logged.
DeleteSession(s) ==
    \E fail \in BOOLEAN :
        /\ fail => Live(s)
        /\ MayFail(fail)
        /\ sessions' = IF Live(s) /\ ~fail THEN [sessions EXCEPT ![s].st = "ended"] ELSE sessions

Request(t, at) == [Idle EXCEPT !.at = at, !.page = tabs[t].page, !.sid = cookie,
                               !.checked = at = "get" /\ checked # "no"]

\* The response: a page, or a redirect, to the page that was asked for or to
\* the home page, and what it sets.  A session cookie that was found invalid is
\* expired unless a new one is set.
Respond(t, to, invalid, setCookie, setChecked) ==
    tabs' = [tabs EXCEPT ![t] =
        [Idle EXCEPT !.at = "response", !.to = to, !.private = to # "idle" /\ tabs[t].private,
                     !.page = tabs[t].page, !.setChecked = setChecked,
                     !.setCookie = IF setCookie = Keep /\ invalid THEN NoSid ELSE setCookie]]

\* The middleware loads the session of the cookie; an error counts as none.
Loaded(t, fail) == Live(tabs[t].sid) /\ ~fail
Invalid(t, fail) == tabs[t].sid # NoSid /\ ~Loaded(t, fail)

Visit(t, request) ==
    /\ t \in inUse /\ tabs[t].at = "idle"
    /\ visits < MaxVisits[Cardinality(inUse)]
    /\ visits' = visits + 1
    /\ tabs' = [tabs EXCEPT ![t] = request]

\* Whoever opens a page that requires a login asks for one; what is requested
\* without a navigation is refused if it does.
Navigate(t) ==
    /\ \E nav, private \in BOOLEAN :
          /\ private => nav
          /\ Visit(t, [Request(t, "get") EXCEPT !.nav = nav, !.private = private])
          /\ loggedOut' = (loggedOut /\ ~private)
    /\ UNCHANGED <<attempts, sessions, cookie, checked, atForum, events, inUse, metadata>>

ClickLogin(t) ==
    /\ tabs[t].page = NoSid
    /\ Visit(t, Request(t, "login"))
    /\ loggedOut' = FALSE
    /\ UNCHANGED <<attempts, sessions, cookie, checked, atForum, events, inUse, metadata>>

ClickLogout(t) ==
    /\ tabs[t].page # NoSid
    /\ Visit(t, Request(t, "logout"))
    /\ UNCHANGED <<attempts, sessions, cookie, checked, atForum, loggedOut, events, inUse, metadata>>

\* A callback that has been answered is requested again: the history of the
\* browser, a duplicated tab, a reload.
RepeatCallback(t, k) ==
    /\ attempts[k].answer # "none"
    /\ Visit(t, [Request(t, "callback") EXCEPT !.attempt = k, !.answer = attempts[k].answer])
    /\ loggedOut' = FALSE
    /\ UNCHANGED <<attempts, sessions, cookie, checked, atForum, events, inUse, metadata>>

\* The response arrives: its cookies are set, its redirect is followed.
Arrive(t) ==
    LET tab == tabs[t]
        at == IF tab.to = "home" THEN "get" ELSE tab.to
        cookie1 == IF tab.setCookie = Keep THEN cookie ELSE tab.setCookie
        checked1 == IF tab.setChecked = Keep THEN checked ELSE tab.setChecked
    IN  /\ tab.at = "response"
        /\ cookie' = cookie1
        /\ checked' = checked1
        /\ tabs' = [tabs EXCEPT ![t] =
               [Idle EXCEPT !.at = at,
                            !.private = tab.private /\ tab.to # "home",
                            !.attempt = IF at = "forum" THEN tab.attempt ELSE @,
                            !.page = IF at = "idle" THEN tab.page ELSE @,
                            !.sid = IF at \in {"idle", "forum"} THEN @ ELSE cookie1,
                            !.checked = at = "get" /\ checked1 # "no"]]
        /\ loggedOut' = (loggedOut \/ (tab.to = "home" /\ \A u \in Tabs \ {t} : tabs[u].at = "idle"))
        /\ UNCHANGED <<attempts, sessions, atForum, visits, events, inUse, metadata>>

-----------------------------------------------------------------------------
(* The handlers. *)

\* session_auth_middleware, then the page, which may require a login: a
\* navigation without one is sent to log in.  Without Sec-Fetch-Mode, a request
\* that accepts HTML counts as a navigation for that and for a session that is
\* due, but nothing looks for a login at the forum.
ServePage(t) ==
    LET tab == tabs[t] IN
    /\ tab.at = "get"
    /\ \E fail, markFails \in BOOLEAN :
          LET loaded == Loaded(t, fail)
              retry  == loaded /\ sessions[tab.sid].due /\ tab.nav /\ ~sessions[tab.sid].tried
              probe  == ~loaded /\ tab.nav /\ metadata /\ ~tab.checked
              asks   == ~loaded /\ tab.nav /\ ~probe /\ tab.private
          IN  /\ markFails => retry
              /\ MayFail(fail \/ markFails)
              /\ IF retry /\ ~markFails THEN MarkRevalidation(tab.sid) ELSE UNCHANGED sessions
              /\ tabs' = [tabs EXCEPT ![t] =
                     [Idle EXCEPT !.at = "response",
                               !.to = IF retry \/ probe THEN "silent" ELSE IF asks THEN "login" ELSE "idle",
                               !.private = (retry \/ probe \/ asks) /\ tab.private,
                               !.page = IF loaded THEN tab.sid ELSE NoSid,
                               !.setCookie = IF Invalid(t, fail) THEN NoSid ELSE Keep]]
    /\ UNCHANGED <<attempts, cookie, checked, atForum, loggedOut, visits, inUse, metadata>>

\* begin_authorization: discovery, a fresh state token, and off to the forum;
\* a response that fails if any of it does (and where the bound is reached).
Begin(t, flow, failed) ==
    \/ \E k \in Attempts :
          /\ StoreLoginState(k, flow, tabs[t].private)
          /\ tabs' = [tabs EXCEPT ![t] = [Idle EXCEPT !.at = "response", !.to = "forum", !.attempt = k,
                                        !.setCookie = IF Invalid(t, FALSE) THEN NoSid ELSE Keep]]
          /\ MayFail(FALSE)
    \/ /\ failed
       /\ MayFail(\E k \in Attempts : attempts[k].st = "unused")
       /\ UNCHANGED attempts

\* login: an error of begin_authorization is the user's page.
ServeLogin(t) ==
    /\ tabs[t].at = "login"
    /\ IF Live(tabs[t].sid)
       THEN Respond(t, "get", FALSE, Keep, Keep) /\ UNCHANGED <<attempts, events>>
       ELSE Begin(t, "interactive", Respond(t, "idle", Invalid(t, FALSE), Keep, Keep))
    /\ UNCHANGED <<sessions, cookie, checked, atForum, loggedOut, visits, inUse, metadata>>

\* Mutant: only a forum without a login is remembered, not a failed probe.
SilentReturnForgetful(t, flow, required, invalid) ==
    Respond(t, "get", invalid,
            IF flow = "revalidate" /\ required THEN NoSid ELSE Keep,
            IF required THEN "timed" ELSE Keep)

\* silent_return_response: back to the page; the check of the forum is not
\* repeated for a while, and a forum logout ends the app session too.
SilentReturn(t, flow, required, invalid) ==
    Respond(t, "get", invalid,
            IF flow = "revalidate" /\ required THEN NoSid ELSE Keep,
            IF flow = "probe" \/ required THEN "timed" ELSE Keep)

\* revalidate, for the session of the cookie or to look for one.
ServeSilent(t) ==
    LET tab == tabs[t]
        flow == IF Live(tab.sid) THEN "revalidate" ELSE "probe"
    IN  /\ tab.at = "silent"
        /\ IF Live(tab.sid) THEN MarkRevalidation(tab.sid) ELSE UNCHANGED sessions
        /\ Begin(t, flow, SilentReturn(t, flow, FALSE, Invalid(t, FALSE)))
        /\ UNCHANGED <<cookie, checked, atForum, loggedOut, visits, inUse, metadata>>

\* The forum: without prompt=none the user may log in there, or turn back.
ForumAnswers(t) ==
    LET tab == tabs[t]
        flow == attempts[tab.attempt].flow
    IN  /\ tab.at = "forum"
        /\ \E answer \in Answers, fail \in BOOLEAN :
              /\ MayFail(fail)
              /\ answer = "code" => atForum \/ flow = "interactive"
              /\ answer = "login_required" => flow # "interactive" /\ ~atForum
              /\ fail <=> answer = "error"
              /\ atForum' = (atForum \/ answer = "code")
              /\ attempts' = [attempts EXCEPT ![tab.attempt].answer = answer]
              /\ tabs' = [tabs EXCEPT ![t] = [Request(t, "callback") EXCEPT
                                                 !.attempt = tab.attempt, !.answer = answer]]
        /\ UNCHANGED <<sessions, cookie, checked, loggedOut, visits, inUse, metadata>>

TurnBack(t) ==
    /\ tabs[t].at = "forum"
    /\ attempts[tabs[t].attempt].flow = "interactive"
    /\ tabs' = [tabs EXCEPT ![t] = Idle]
    /\ UNCHANGED <<attempts, sessions, cookie, checked, atForum, loggedOut, visits, events, inUse, metadata>>

\* Mutant: the row of a login state is read, and deleted by the cleanup only.
CallbackReadsState(t) ==
    /\ tabs[t].at = "callback"
    /\ attempts[tabs[t].attempt].st \in {"issued", "redeemed"}
    /\ attempts' = [attempts EXCEPT ![tabs[t].attempt].st = "redeemed"]
    /\ tabs' = [tabs EXCEPT ![t].at = "answered", ![t].private = attempts[tabs[t].attempt].private,
                            ![t].invalid = Invalid(t, FALSE)]
    /\ UNCHANGED <<sessions, cookie, checked, atForum, loggedOut, visits, events, inUse, metadata>>

\* callback: consume_login_state deletes the row and returns it, with the page
\* to return to; an error if it has expired or is gone.
Callback(t) ==
    LET k == tabs[t].attempt IN
    /\ tabs[t].at = "callback"
    /\ \E fail \in BOOLEAN :
          /\ MayFail(fail)
          /\ IF attempts[k].st # "issued" \/ fail
             THEN Respond(t, "idle", Invalid(t, FALSE), Keep, Keep) /\ UNCHANGED attempts
             ELSE /\ attempts' = [attempts EXCEPT ![k].st = "redeemed", ![k].private = FALSE]
                  /\ tabs' = [tabs EXCEPT ![t].at = "answered", ![t].private = attempts[k].private,
                                          ![t].invalid = Invalid(t, FALSE)]
    /\ UNCHANGED <<sessions, cookie, checked, atForum, loggedOut, visits, inUse, metadata>>

\* callback, without a code: a failed login is the user's page.  If the forum
\* has no login any more, the session is deleted and its cookie dropped.
Declined(t) ==
    LET tab == tabs[t]
        flow == attempts[tab.attempt].flow
        required == tab.answer = "login_required"
    IN  /\ tab.at = "answered" /\ tab.answer # "code"
        /\ IF flow = "revalidate" /\ required THEN DeleteSession(tab.sid)
                                             ELSE UNCHANGED <<sessions, events>>
        /\ IF flow = "interactive" THEN Respond(t, "idle", tab.invalid, Keep, Keep)
                                   ELSE SilentReturn(t, flow, required, tab.invalid)
        /\ UNCHANGED <<attempts, cookie, checked, atForum, loggedOut, visits, inUse, metadata>>

\* The code is not exchanged, the token does not verify, or the user cannot
\* be stored.
LoginFails(t) ==
    LET flow == attempts[tabs[t].attempt].flow IN
    /\ tabs[t].at = "answered" /\ tabs[t].answer = "code"
    /\ MayFail(TRUE)
    /\ IF flow = "interactive" THEN Respond(t, "idle", tabs[t].invalid, Keep, Keep)
                               ELSE SilentReturn(t, flow, FALSE, tabs[t].invalid)
    /\ UNCHANGED <<attempts, sessions, cookie, checked, atForum, loggedOut, visits, inUse, metadata>>

\* complete_login: a session for the user of the token.
Exchange(t) ==
    /\ tabs[t].at = "answered" /\ tabs[t].answer = "code"
    /\ \E s \in Sids : /\ CreateSession(s, tabs[t].attempt)
                       /\ tabs' = [tabs EXCEPT ![t].at = "replace", ![t].created = s]
    /\ UNCHANGED <<attempts, cookie, checked, atForum, loggedOut, visits, events, inUse, metadata>>

\* The session the browser sent is replaced.
Replace(t) ==
    LET tab == tabs[t] IN
    /\ tab.at = "replace"
    /\ DeleteSession(tab.sid)
    /\ Respond(t, "get", FALSE, tab.created, "no")
    /\ UNCHANGED <<attempts, cookie, checked, atForum, loggedOut, visits, inUse, metadata>>

\* The CSRF token of the form is that of the session.
VerifyForm(t) == tabs[t].page = tabs[t].sid

\* Mutant: the check of the forum is put off after a logout, not stopped.
ServeLogoutTimed(t) ==
    /\ tabs[t].at = "logout"
    /\ Live(tabs[t].sid) /\ VerifyForm(t)
    /\ sessions' = [sessions EXCEPT ![tabs[t].sid].st = "ended"]
    /\ Respond(t, "home", FALSE, NoSid, "timed")
    /\ UNCHANGED <<attempts, cookie, checked, atForum, loggedOut, visits, events, inUse, metadata>>

\* logout: whoever is logged in and posts from a page of that session.
ServeLogout(t) ==
    LET tab == tabs[t] IN
    /\ tab.at = "logout"
    /\ IF Live(tab.sid) /\ VerifyForm(t)
       THEN DeleteSession(tab.sid) /\ Respond(t, "home", FALSE, NoSid, "closing")
       ELSE Respond(t, "idle", Invalid(t, FALSE), Keep, Keep) /\ UNCHANGED <<sessions, events>>
    /\ UNCHANGED <<attempts, cookie, checked, atForum, loggedOut, visits, inUse, metadata>>

-----------------------------------------------------------------------------
(* The clock, the browser, the forum and the hourly cleanup. *)

AttemptExpires(k) ==
    /\ Event
    /\ attempts[k].st = "issued"
    /\ attempts' = [attempts EXCEPT ![k].st = "expired"]
    /\ UNCHANGED <<sessions, cookie, checked, tabs, atForum, loggedOut, visits, inUse, metadata>>

\* The session was validated a day ago, or tried a quarter of an hour ago.
SessionDue(s) ==
    /\ Event
    /\ Live(s)
    /\ \/ /\ ~sessions[s].due
          /\ sessions' = [sessions EXCEPT ![s].due = TRUE]
       \/ /\ sessions[s].tried
          /\ sessions' = [sessions EXCEPT ![s].tried = FALSE]
    /\ UNCHANGED <<attempts, cookie, checked, tabs, atForum, loggedOut, visits, inUse, metadata>>

\* cleanup_abandoned: no request was sent with it for thirty days.
CleanupSession(s) ==
    /\ Event
    /\ Live(s)
    /\ \A t \in Tabs : tabs[t].at = "idle"
    /\ sessions' = [sessions EXCEPT ![s].st = "ended"]
    /\ UNCHANGED <<attempts, cookie, checked, tabs, atForum, loggedOut, visits, inUse, metadata>>

CookieExpires ==
    /\ Event
    /\ checked = "timed"
    /\ checked' = "no"
    /\ UNCHANGED <<attempts, sessions, cookie, tabs, atForum, loggedOut, visits, inUse, metadata>>

\* Both cookies of a session of the browser go when it is closed.
CloseBrowser ==
    /\ Event
    /\ \A t \in Tabs : tabs[t].at = "idle"
    /\ cookie' = NoSid
    /\ checked' = IF checked = "closing" THEN "no" ELSE checked
    /\ tabs' = [t \in Tabs |-> Idle]
    /\ loggedOut' = FALSE
    /\ UNCHANGED <<attempts, sessions, atForum, visits, inUse, metadata>>

ForumChanges ==
    /\ Event
    /\ atForum' = ~atForum
    /\ UNCHANGED <<attempts, sessions, cookie, checked, tabs, loggedOut, visits, inUse, metadata>>

TabStep(t) ==
    \/ ServePage(t) \/ ServeLogin(t) \/ ServeSilent(t) \/ ForumAnswers(t) \/ TurnBack(t)
    \/ Callback(t) \/ Declined(t) \/ LoginFails(t) \/ Exchange(t) \/ Replace(t) \/ ServeLogout(t) \/ Arrive(t)

LoginNext ==
    \/ \E t \in Tabs : \/ TabStep(t)
                       \/ Navigate(t) \/ ClickLogin(t) \/ ClickLogout(t)
                       \/ \E k \in Attempts : RepeatCallback(t, k)
    \/ \E k \in Attempts : AttemptExpires(k)
    \/ \E s \in Sids : SessionDue(s) \/ CleanupSession(s)
    \/ CookieExpires \/ CloseBrowser \/ ForumChanges

\* The server serves every request and the network delivers every response;
\* the user answers the forum or turns back.
LoginSpec == LoginInit /\ [][LoginNext]_loginVars /\ \A t \in Tabs : WF_loginVars(TabStep(t))

-----------------------------------------------------------------------------
(* Properties. *)

\* The handlers, repeated, delayed and interleaved as they may be, do what
\* SingleSignOn says.
SSO == INSTANCE SingleSignOn WITH
    Sessions <- Sids,
    Nothing <- NoAttempt,
    attempt <- [k \in Attempts |-> IF attempts[k].st = "expired" THEN "void" ELSE attempts[k].st],
    session <- [s \in Sids |-> sessions[s].st],
    boughtBy <- [s \in Sids |-> sessions[s].by]
EachAttemptBuysOneSession == SSO!Spec

\* After a logout, with no other request on its way, nobody is logged in again
\* until the user follows the login link, repeats a callback, opens a page that
\* requires a login or closes the browser, whatever the clock and the forum do
\* and whichever other pages are opened.
LoggedOutStaysOut == loggedOut => cookie = NoSid

\* No redirect goes in circles: a tab whose companions are at rest gets its
\* page, whatever failed on the way.  (Two tabs may replace each other's
\* sessions for as long as their responses arrive in the worst order.)
RequestsEnd ==
    \A t \in Tabs : <>[](\A u \in Tabs \ {t} : tabs[u].at = "idle") => []<>(tabs[t].at = "idle")
=============================================================================
