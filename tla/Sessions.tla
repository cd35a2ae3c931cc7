------------------------------ MODULE Sessions ------------------------------
(* Sign-up, sign-in, organizations and invitations as one browser tab sees   *)
(* them: the middleware and the layouts that redirect every request, the      *)
(* forms and buttons of the pages, their server actions, the email links of   *)
(* Supabase Auth and the cookie of the current organization, while other      *)
(* devices and tabs change accounts, memberships and the session.             *)
(*                                                                            *)
(* A request is served in the steps of its awaits: the middleware's getUser,  *)
(* then the page's reads.  It carries the session it was sent with: getUser   *)
(* asks whether that session is still alive, the database only trusts its     *)
(* token, so a page can be refused a user and still be given rows.  A server  *)
(* action takes effect (Perform) before its answer, which carries the cookies *)
(* and the navigation, arrives (Answer) or is lost.  Passwords, names, the    *)
(* lifetime of the cookies and messages are left out; a wrong password is a   *)
(* sign-in that fails.                                                        *)
EXTENDS Naturals, FiniteSets

CONSTANTS
    Users,        \* people, each with one email address and at most one account
    Orgs,         \* organizations that exist or may be created
    Tokens,       \* invitations that may be made
    None,
    MaxLinks,     \* bound: email links not yet followed
    MaxDisturbances \* bound: changes made by other devices and tabs, reads that
                    \* fail and answers that are lost

VARIABLES
    accounts,     \* what Supabase Auth knows of each address
    links,        \* email links that have not been followed
    members,      \* the rows of organization_members
    invitations,  \* the row of each token
    session,      \* whose session the browser holds, if that session is alive
    orgCookie,    \* qavio_org_id
    request,      \* the page request being served
    page,         \* what the tab shows
    call,         \* the server action under way
    disturbances  \* how many of them there have been

vars == <<accounts, links, members, invitations, session, orgCookie,
          request, page, call, disturbances>>
database == <<accounts, links, members, invitations>>

-----------------------------------------------------------------------------
(* Urls, rows and pages                                                       *)

PublicPaths == {"login", "signup", "forgot-password", "check-email"}
OpenPaths == {"callback", "invite", "reset-password"}
Paths == PublicPaths \cup OpenPaths \cup {"root", "onboarding", "dashboard"}

(* Mutants: a path more among those that are closed to someone signed in.     *)
OnboardingIsPublic(path) == path \in PublicPaths \cup {"onboarding"}
ResetIsPublic(path) == path \in PublicPaths \cup {"reset-password"}
IsPublicAuthPath(path) == path \in PublicPaths
IsAlwaysAllowedPath(path) == path \in OpenPaths

At(path) == [path |-> path, token |-> None]
InviteUrl(t) == [path |-> "invite", token |-> t]
InviteUrls == {InviteUrl(t) : t \in Tokens}
Urls == {At(path) : path \in Paths \ {"invite"}} \cup InviteUrls

(* Where an email link lands after its code has been exchanged.               *)
Link == [user: Users, next: {At("onboarding"), At("reset-password")} \cup InviteUrls]

Roles == {"owner", "viewer"}
Row == [org: Orgs, user: Users, role: Roles, created: Nat]
NoRow == [org |-> None, user |-> None, role |-> None, created |-> 0]
Invitation == [org: Orgs, email: Users, expired: BOOLEAN,
               status: {"pending", "accepted", "revoked"}]

OrgsOf(u) == {r.org : r \in {q \in members : q.user = u}}
Existing == {r.org : r \in members}

(* A new row is younger than every other.                                     *)
Join(org, user, role) ==
    \E now \in {1} \cup {r.created + 1 : r \in members} :
        /\ \A r \in members : r.created < now
        /\ members' = members \cup
               {[org |-> org, user |-> user, role |-> role, created |-> now]}

(* A request: `code` is the email link it presents at the callback, `via` the *)
(* link whose code was exchanged on its way here.                             *)
Requests == [url: Urls, next: Urls \cup {None}, code: Link \cup {None},
             via: Link \cup {None}, as: Users \cup {None},
             at: {"middleware", "page", "members", "orgs"}, rows: SUBSET Row]
Get(url, next, as) ==
    [url |-> url, next |-> next, code |-> None, via |-> None,
     as |-> as, at |-> "middleware", rows |-> {}]

ASSUME SessionsAssumption ==
    /\ None \notin Users \cup Orgs \cup Tokens /\ None \notin Requests
    /\ MaxLinks \in Nat /\ MaxDisturbances \in Nat

Pages == [path: Paths, token: Tokens \cup {None}, next: Urls \cup {None},
          case: {"blank", "form", "not found", "accepted", "revoked", "expired",
                 "sign in", "accept", "switch"},
          listed: SUBSET Row, current: Row \cup {NoRow}]
Shown(path, token, next, case) ==
    [path |-> path, token |-> token, next |-> next, case |-> case,
     listed |-> {}, current |-> NoRow]

(* Nothing is done on the page left behind while the next one is fetched.     *)
Blank == Shown("root", None, None, "blank")
Fetch(url, next, as, code) ==
    /\ request' = [Get(url, next, as) EXCEPT !.code = code]
    /\ page' = Blank

(* A redirect is followed by the browser with the session it has by now.      *)
Redirect(url, next) ==
    request' = [Get(url, next, session) EXCEPT !.via = request.via]
Serve(p) == request' = None /\ page' = p

Mishap == disturbances < MaxDisturbances /\ disturbances' = disturbances + 1
NoMishap == UNCHANGED disturbances

-----------------------------------------------------------------------------
(* The middleware and the reads of the pages                                  *)

(* getUser for the request: the user whose session it carries, unless that    *)
(* session has ended, or the call fails.                                      *)
GetUser(u) ==
    \/ u = (IF request.as = session THEN session ELSE None) /\ NoMishap
    \/ u = None /\ Mishap

UpdateSession ==
    /\ request # None /\ request.at = "middleware"
    /\ \E u \in Users \cup {None} :
        /\ GetUser(u)
        /\ \/ /\ u = None
              /\ ~IsPublicAuthPath(request.url.path)
              /\ ~IsAlwaysAllowedPath(request.url.path)
              /\ UNCHANGED session
              /\ Redirect(At("login"), request.url)
           \/ /\ u # None
              /\ IsPublicAuthPath(request.url.path)
              /\ UNCHANGED session
              /\ Redirect(At("dashboard"), None)
           \/ /\ u = None => \/ IsPublicAuthPath(request.url.path)
                              \/ IsAlwaysAllowedPath(request.url.path)
              /\ u # None => ~IsPublicAuthPath(request.url.path)
              /\ request' = [request EXCEPT !.at = "page"]
              /\ UNCHANGED session
    /\ UNCHANGED <<database, orgCookie, page, call>>

AtPage(path) == request # None /\ request.at = "page" /\ request.url.path = path

(* app/page.tsx                                                               *)
RootPage ==
    /\ AtPage("root")
    /\ Redirect(At("dashboard"), None)
    /\ UNCHANGED <<database, session, orgCookie, page, call, disturbances>>

(* The pages that read nothing.                                               *)
PublicPage ==
    /\ request # None /\ request.at = "page" /\ request.url.path \in PublicPaths
    /\ Serve(Shown(request.url.path, None, request.next, "form"))
    /\ UNCHANGED <<database, session, orgCookie, call, disturbances>>

(* The callback exchanges the code of an email link for a session.  A code    *)
(* that was used, or that this browser cannot redeem, ends on the login page; *)
(* following the link has confirmed the address all the same.                 *)
Callback ==
    /\ AtPage("callback")
    /\ LET link == request.code IN
       \/ /\ link \in links
          /\ links' = links \ {link}
          /\ accounts' = [accounts EXCEPT ![link.user] = "confirmed"]
          /\ session' = link.user
          /\ request' = [Get(link.next, None, link.user) EXCEPT !.via = link]
          /\ NoMishap
       \/ /\ link \in links
          /\ links' = links \ {link}
          /\ accounts' = [accounts EXCEPT ![link.user] = "confirmed"]
          /\ Mishap
          /\ UNCHANGED session
          /\ Redirect(At("login"), None)
       \/ /\ link \notin links
          /\ UNCHANGED <<links, accounts, session>>
          /\ Redirect(At("login"), None)
          /\ NoMishap
    /\ UNCHANGED <<members, invitations, orgCookie, page, call>>

ResetPasswordPage ==
    /\ AtPage("reset-password")
    /\ \E u \in Users \cup {None} :
        /\ GetUser(u)
        /\ Serve(Shown("reset-password", None, None, IF u = None THEN "expired" ELSE "form"))
    /\ UNCHANGED <<database, session, orgCookie, call>>

(* The card of an invitation: its state, and who is looking.                  *)
InviteCase(t, u) ==
    IF invitations[t] = None THEN "not found"
    ELSE IF invitations[t].status # "pending" THEN invitations[t].status
    ELSE IF invitations[t].expired THEN "expired"
    ELSE IF u = None THEN "sign in"
    ELSE IF u = invitations[t].email THEN "accept"
    ELSE "switch"

InvitePage ==
    /\ AtPage("invite")
    /\ \/ \E u \in Users \cup {None} :
            /\ GetUser(u)
            /\ Serve(Shown("invite", request.url.token, None, InviteCase(request.url.token, u)))
       \/ /\ Mishap
          /\ Serve(Shown("invite", request.url.token, None, "not found"))
    /\ UNCHANGED <<database, session, orgCookie, call>>

(* The layout's getCurrentUser; the onboarding page reads no user itself.     *)
LayoutUser ==
    /\ AtPage("dashboard")
    /\ \E u \in Users \cup {None} :
        /\ GetUser(u)
        /\ UNCHANGED session
        /\ IF u = None
           THEN Redirect(At("login"), None)
           ELSE request' = [request EXCEPT !.at = "members"]
    /\ UNCHANGED <<database, orgCookie, page, call>>

OnboardingReads ==
    /\ AtPage("onboarding")
    /\ request' = [request EXCEPT !.at = "members"]
    /\ UNCHANGED <<database, session, orgCookie, page, call, disturbances>>

(* getUserOrganizations: every row of organization_members the policies show  *)
(* the caller, which are the rows of all members of the caller's              *)
(* organizations, and then the organizations of those rows.                   *)
VisibleRows(as) == {r \in members : r.org \in OrgsOf(as)}
Listed(rows, as) == {r \in rows : r.org \in OrgsOf(as)}
Oldest(rows) == CHOOSE r \in rows : \A q \in rows : r.created <= q.created

(* Mutant: the cookie is believed.                                            *)
TrustCookie(rows, cookie) ==
    IF cookie # None THEN [Oldest(rows) EXCEPT !.org = cookie] ELSE Oldest(rows)
(* resolveCurrentOrganization: the first row of the cookie's organization, or *)
(* else the first row.                                                        *)
ResolveCurrent(rows, cookie) ==
    LET matches == {r \in rows : r.org = cookie}
    IN  Oldest(IF matches # {} THEN matches ELSE rows)

(* No organizations, or a read that failed: the dashboard goes to onboarding, *)
(* and onboarding shows its form.                                             *)
WithoutOrganizations ==
    IF request.url.path = "dashboard"
    THEN Redirect(At("onboarding"), None) /\ UNCHANGED page
    ELSE Serve(Shown("onboarding", None, None, "form"))

ReadMembers ==
    /\ request # None /\ request.at = "members"
    /\ \/ /\ VisibleRows(request.as) # {}
          /\ request' = [request EXCEPT !.at = "orgs", !.rows = VisibleRows(request.as)]
          /\ NoMishap
          /\ UNCHANGED <<session, page>>
       \/ /\ IF VisibleRows(request.as) = {} THEN NoMishap ELSE Mishap
          /\ UNCHANGED session
          /\ WithoutOrganizations
    /\ UNCHANGED <<database, orgCookie, call>>

ReadOrganizations ==
    /\ request # None /\ request.at = "orgs"
    /\ LET rows == Listed(request.rows, request.as) IN
       \/ /\ rows # {}
          /\ NoMishap
          /\ UNCHANGED session
          /\ IF request.url.path = "onboarding"
             THEN Redirect(At("dashboard"), None) /\ UNCHANGED page
             ELSE Serve([Shown("dashboard", None, None, "form") EXCEPT
                            !.listed = rows, !.current = ResolveCurrent(rows, orgCookie)])
       \/ /\ IF rows = {} THEN NoMishap ELSE Mishap
          /\ UNCHANGED session
          /\ WithoutOrganizations
    /\ UNCHANGED <<database, orgCookie, call>>

ServerStep ==
    \/ UpdateSession \/ RootPage \/ PublicPage \/ Callback \/ ResetPasswordPage
    \/ InvitePage \/ LayoutUser \/ OnboardingReads \/ ReadMembers \/ ReadOrganizations

-----------------------------------------------------------------------------
(* The person at the tab: addresses, links and forms                          *)

Idle == request = None /\ call = None

Visit(url, next) ==
    /\ Idle
    /\ Fetch(url, next, session, None)
    /\ UNCHANGED <<database, session, orgCookie, call, disturbances>>

(* An address typed or bookmarked, or a link of the page shown.               *)
VisitPage == \E url \in Urls \ {At("callback")} : Visit(url, None)

(* A link of an email, fresh or long used.                                    *)
FollowEmailLink ==
    /\ Idle
    /\ \E link \in Link :
        /\ accounts[link.user] # "none"
        /\ Fetch(At("callback"), None, session, link)
    /\ UNCHANGED <<database, session, orgCookie, call, disturbances>>

(* The two buttons of an invitation shown to someone not signed in.           *)
FollowInvite ==
    /\ page.path = "invite" /\ page.case = "sign in"
    /\ \E path \in {"signup", "login"} : Visit(At(path), InviteUrl(page.token))

Calls == [kind: {"signIn", "signUp", "reset", "update", "signOut", "create", "switch", "accept"},
          user: Users \cup {None}, org: Orgs \cup {None}, token: Tokens \cup {None},
          as: Users \cup {None}, done: BOOLEAN, ok: BOOLEAN]
Submit(kind, user, org, token) ==
    /\ Idle
    /\ call' = [kind |-> kind, user |-> user, org |-> org, token |-> token,
                as |-> session, done |-> FALSE, ok |-> FALSE]
    /\ UNCHANGED <<database, session, orgCookie, request, page, disturbances>>

OnForm(path) == page.path = path /\ page.case = "form"

SubmitSignIn == OnForm("login") /\ \E u \in Users : Submit("signIn", u, None, None)
SubmitSignUp == OnForm("signup") /\ \E u \in Users : Submit("signUp", u, None, None)
SubmitForgot == OnForm("forgot-password") /\ \E u \in Users : Submit("reset", u, None, None)
SubmitReset == OnForm("reset-password") /\ Submit("update", None, None, None)
ClickSignOut == OnForm("dashboard") /\ Submit("signOut", None, None, None)
ClickSwitchAccount ==
    /\ page.path = "invite" /\ page.case = "switch"
    /\ Submit("signOut", None, None, page.token)
ClickAccept ==
    /\ page.path = "invite" /\ page.case = "accept"
    /\ Submit("accept", None, None, page.token)
(* The onboarding form, and the same form in the switcher's dialog.           *)
SubmitOrganization ==
    /\ OnForm("onboarding") \/ OnForm("dashboard")
    /\ \E o \in Orgs \ Existing : Submit("create", None, o, None)
ClickSwitch ==
    /\ OnForm("dashboard")
    /\ \E r \in page.listed :
        r.org # page.current.org /\ Submit("switch", None, r.org, None)

UserStep ==
    \/ VisitPage \/ FollowEmailLink \/ FollowInvite
    \/ SubmitSignIn \/ SubmitSignUp \/ SubmitForgot \/ SubmitReset
    \/ ClickSignOut \/ ClickSwitchAccount \/ ClickAccept
    \/ SubmitOrganization \/ ClickSwitch

-----------------------------------------------------------------------------
(* The server actions                                                         *)

Underway(kind) == call # None /\ call.kind = kind /\ ~call.done
Done(ok) == call' = [call EXCEPT !.done = TRUE, !.ok = ok]

(* Supabase mails a link, if the address has a use for it.                    *)
Mail(u, next) ==
    \/ Cardinality(links) < MaxLinks /\ links' = links \cup {[user |-> u, next |-> next]}
    \/ links' = {[user |-> u, next |-> next]}

(* A wrong password, an address not confirmed, or a rate limit: not ok.       *)
PerformSignIn ==
    /\ Underway("signIn")
    /\ \E ok \in BOOLEAN : (ok => accounts[call.user] = "confirmed") /\ Done(ok)
    /\ UNCHANGED <<database, session>>

(* signUp says ok for an address that is registered, too.  The link goes back *)
(* to the invitation the form was opened from, or to onboarding.              *)
PerformSignUp ==
    /\ Underway("signUp")
    /\ Done(TRUE)
    /\ IF accounts[call.user] = "confirmed"
       THEN UNCHANGED <<accounts, links>>
       ELSE /\ accounts' = [accounts EXCEPT ![call.user] = "unconfirmed"]
            /\ Mail(call.user, IF page.next = None THEN At("onboarding") ELSE page.next)
    /\ UNCHANGED <<members, invitations, session>>

PerformReset ==
    /\ Underway("reset")
    /\ Done(TRUE)
    /\ IF accounts[call.user] = "none"
       THEN UNCHANGED links
       ELSE Mail(call.user, At("reset-password"))
    /\ UNCHANGED <<accounts, members, invitations, session>>

PerformUpdate ==
    /\ Underway("update")
    /\ Done(call.as # None /\ call.as = session)
    /\ UNCHANGED <<database, session>>

(* A session that signs out is revoked before the answer clears its cookie.   *)
PerformSignOut ==
    /\ Underway("signOut")
    /\ Done(TRUE)
    /\ session' = IF call.as = session THEN None ELSE session
    /\ UNCHANGED database

(* An organization whose slug is taken by now is refused.                     *)
PerformCreate ==
    /\ Underway("create")
    /\ IF call.as = None \/ call.org \in Existing
       THEN Done(FALSE) /\ UNCHANGED members
       ELSE /\ Done(TRUE)
            /\ Join(call.org, call.as, "owner")
    /\ UNCHANGED <<accounts, links, invitations, session>>

(* maybeSingle is an error when the query has more than one row.              *)
PerformSwitch ==
    /\ Underway("switch")
    /\ Done(Cardinality({r \in VisibleRows(call.as) : r.org = call.org}) = 1)
    /\ UNCHANGED <<database, session>>

(* accept_invitation by the user u                                            *)
Acceptable(t, u) ==
    /\ u # None
    /\ invitations[t] # None
    /\ invitations[t].status = "pending" /\ ~invitations[t].expired
    /\ invitations[t].email = u

(* Mutant: without "on conflict do nothing".                                  *)
AcceptTwice(t, u) ==
    /\ invitations' = [invitations EXCEPT ![t].status = "accepted"]
    /\ Join(invitations[t].org, u, "viewer")
AcceptInvitation(t, u) ==
    /\ invitations' = [invitations EXCEPT ![t].status = "accepted"]
    /\ IF invitations[t].org \in OrgsOf(u) THEN UNCHANGED members
       ELSE Join(invitations[t].org, u, "viewer")

PerformAccept ==
    /\ Underway("accept")
    /\ IF Acceptable(call.token, call.as)
       THEN /\ AcceptInvitation(call.token, call.as)
            /\ call' = [call EXCEPT !.done = TRUE, !.ok = TRUE,
                                    !.org = invitations[call.token].org]
       ELSE Done(FALSE) /\ UNCHANGED <<invitations, members>>
    /\ UNCHANGED <<accounts, links, session>>

Perform ==
    /\ \/ PerformSignIn \/ PerformSignUp \/ PerformReset \/ PerformUpdate \/ PerformSignOut
       \/ PerformCreate \/ PerformSwitch \/ PerformAccept
    /\ UNCHANGED <<orgCookie, request, page, disturbances>>

(* Where each form goes with an answer that is ok.                            *)
Destination ==
    CASE call.kind = "signIn" -> IF page.next = None THEN At("dashboard") ELSE page.next
      [] call.kind \in {"signUp", "reset"} -> At("check-email")
      [] call.kind = "signOut" -> At("login")
      [] OTHER -> At("dashboard")

Answer ==
    /\ call # None /\ call.done
    /\ call' = None
    /\ IF call.ok
       THEN /\ session' = IF call.kind = "signIn" THEN call.user ELSE session
            /\ orgCookie' = IF call.kind \in {"create", "switch", "accept"}
                            THEN call.org ELSE orgCookie
            /\ Fetch(Destination,
                     IF call.kind = "signOut" /\ call.token # None
                     THEN InviteUrl(call.token) ELSE None,
                     session', None)
       ELSE UNCHANGED <<session, orgCookie, request, page>>
    /\ UNCHANGED <<database, disturbances>>

(* The call never reaches its action, or the answer never arrives.            *)
LoseCall ==
    /\ call # None
    /\ Mishap
    /\ call' = None
    /\ UNCHANGED <<database, session, orgCookie, request, page>>

-----------------------------------------------------------------------------
(* Other devices, tabs and members                                            *)

Invite ==
    /\ \E t \in Tokens, o \in Existing, u \in Users :
        /\ invitations[t] = None
        /\ invitations' = [invitations EXCEPT ![t] =
                [org |-> o, email |-> u, expired |-> FALSE, status |-> "pending"]]
    /\ UNCHANGED <<accounts, links, members, session, orgCookie>>

RevokeInvitation ==
    /\ \E t \in Tokens :
        /\ invitations[t] # None /\ invitations[t].status # "revoked"
        /\ invitations' = [invitations EXCEPT ![t].status = "revoked"]
    /\ UNCHANGED <<accounts, links, members, session, orgCookie>>

InvitationExpires ==
    /\ \E t \in Tokens :
        /\ invitations[t] # None /\ ~invitations[t].expired
        /\ invitations' = [invitations EXCEPT ![t].expired = TRUE]
    /\ UNCHANGED <<accounts, links, members, session, orgCookie>>

AcceptElsewhere ==
    /\ \E t \in Tokens, u \in Users :
        accounts[u] = "confirmed" /\ Acceptable(t, u) /\ AcceptInvitation(t, u)
    /\ UNCHANGED <<accounts, links, session, orgCookie>>

CreateElsewhere ==
    /\ \E u \in Users, o \in Orgs \ Existing :
        /\ accounts[u] = "confirmed"
        /\ Join(o, u, "owner")
    /\ UNCHANGED <<accounts, links, invitations, session, orgCookie>>

RemoveMember ==
    /\ \E r \in members : r.role # "owner" /\ members' = members \ {r}
    /\ UNCHANGED <<accounts, links, invitations, session, orgCookie>>

(* The session ends, or another tab of this browser signs in and out.         *)
SessionElsewhere ==
    /\ \E u \in {v \in Users : accounts[v] = "confirmed"} \cup {None} :
        u # session /\ session' = u
    /\ UNCHANGED <<database, orgCookie>>

(* Another tab switches the organization it shows.                            *)
SwitchElsewhere ==
    /\ session # None
    /\ \E o \in OrgsOf(session) : o # orgCookie /\ orgCookie' = o
    /\ UNCHANGED <<database, session>>

Outside ==
    /\ disturbances < MaxDisturbances /\ disturbances' = disturbances + 1
    /\ \/ Invite \/ RevokeInvitation \/ InvitationExpires \/ AcceptElsewhere
       \/ CreateElsewhere \/ RemoveMember \/ SessionElsewhere \/ SwitchElsewhere
    /\ UNCHANGED <<request, page, call>>

-----------------------------------------------------------------------------
Init ==
    /\ accounts \in [Users -> {"none", "confirmed"}]
    /\ links = {} /\ members = {}
    /\ invitations = [t \in Tokens |-> None]
    /\ session = None /\ orgCookie = None
    /\ request = None /\ call = None
    /\ page = Blank
    /\ disturbances = 0

Next == ServerStep \/ UserStep \/ Perform \/ Answer \/ LoseCall \/ Outside

Spec == Init /\ [][Next]_vars

(* The server goes on serving a request, and an action that was sent runs and *)
(* is answered; nobody has to visit, click or change anything.                *)
FairSpec == Spec /\ WF_vars(ServerStep) /\ WF_vars(Perform \/ Answer)

-----------------------------------------------------------------------------
(* Every variable has the type the code gives it, and nobody is a member of   *)
(* an organization twice.                                                     *)
TypeOK ==
    /\ accounts \in [Users -> {"none", "unconfirmed", "confirmed"}]
    /\ links \subseteq Link
    /\ members \subseteq Row
    /\ \A r, q \in members : r.org = q.org /\ r.user = q.user => r = q
    /\ invitations \in [Tokens -> Invitation \cup {None}]
    /\ session \in Users \cup {None}
    /\ orgCookie \in Orgs \cup {None}
    /\ request \in Requests \cup {None}
    /\ request # None => (request.at = "orgs" <=> request.rows # {})
    /\ page \in Pages
    /\ call \in Calls \cup {None} /\ (call # None => request = None)
    /\ disturbances \in 0..MaxDisturbances

(* Whatever the cookie of the current organization says, left over from       *)
(* another account or another tab, or overtaken by a removal between the two  *)
(* reads of getUserOrganizations: the organization the dashboard opens is one *)
(* its user belongs to when it is read.                                       *)
CurrentIsOwn ==
    [][page = Blank /\ page'.path = "dashboard"
        => page'.current.org \in OrgsOf(request.as)]_vars

(* The link of a password reset or of an invitation ends on its own page once *)
(* its code was exchanged: none of the redirects in between takes the session *)
(* it has just created to the dashboard instead.                              *)
EmailLinkLands ==
    [][request # None /\ request.via # None /\ request' = None
        /\ request.via.next.path \in {"reset-password", "invite"}
        => page'.path = request.via.next.path]_vars

(* Redirects end: the middleware, the layout and the onboarding page never    *)
(* send a request round between them for ever.                                *)
RequestsAreServed == (request # None) ~> (request = None)

(* The role the pages and the actions take for the caller's is the caller's.  *)
RoleIsOwn ==
    [][page = Blank /\ page'.path = "dashboard"
        => \E r \in members : /\ r.user = request.as
                              /\ r.org = page'.current.org
                              /\ r.role = page'.current.role]_vars
=============================================================================
