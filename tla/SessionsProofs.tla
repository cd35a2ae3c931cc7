--------------------------- MODULE SessionsProofs ---------------------------
(***************************************************************************)
(* What holds of the tab's requests, pages and calls for every number of   *)
(* people, organizations, invitations and disturbances: the type           *)
(* invariant, that the dashboard opens an organization of its user, and    *)
(* that the link of an email lands on its own page.                        *)
(***************************************************************************)
EXTENDS Sessions, FiniteSetTheorems, TLAPS

-----------------------------------------------------------------------------
(* Urls, requests and pages.                                               *)

LEMMA PathNames ==
    /\ \A path \in Paths \ {"invite"} : At(path) \in Urls /\ At(path).path = path
    /\ \A path \in Paths : At(path).path = path
    /\ \A t \in Tokens : /\ InviteUrl(t) \in InviteUrls /\ InviteUrl(t) \in Urls
                         /\ InviteUrl(t).path = "invite"
    /\ \A url \in Urls : /\ url.path \in Paths
                         /\ url.path = "invite" => url.token \in Tokens
    /\ {"login", "signup", "forgot-password", "check-email", "callback", "invite",
        "reset-password", "root", "onboarding", "dashboard"} = Paths
<1>1. {"login", "signup", "forgot-password", "check-email", "callback", "invite",
       "reset-password", "root", "onboarding", "dashboard"} = Paths
  BY DEF Paths, PublicPaths, OpenPaths
<1>2. \A path \in Paths \ {"invite"} : At(path) \in Urls /\ At(path).path = path
  BY DEF At, Urls
<1>3. \A path \in Paths : At(path).path = path
  BY DEF At
<1>4. \A t \in Tokens : /\ InviteUrl(t) \in InviteUrls /\ InviteUrl(t) \in Urls
                        /\ InviteUrl(t).path = "invite"
  BY DEF InviteUrl, InviteUrls, Urls
<1>5. ASSUME NEW url \in Urls
      PROVE  url.path \in Paths /\ (url.path = "invite" => url.token \in Tokens)
  BY <1>1, <1>5 DEF Urls, InviteUrls, InviteUrl, At
<1> QED BY <1>1, <1>2, <1>3, <1>4, <1>5

\* Where the links of emails lead.
LEMMA LinkEnds ==
    ASSUME NEW link \in Link
    PROVE  /\ link.user \in Users /\ link.next \in Urls
           /\ link.next.path \in {"onboarding", "reset-password", "invite"}
<1>1. link.user \in Users /\ link.next \in {At("onboarding"), At("reset-password")} \cup InviteUrls
  BY DEF Link
<1>2. /\ At("onboarding") \in Urls /\ At("onboarding").path = "onboarding"
      /\ At("reset-password") \in Urls /\ At("reset-password").path = "reset-password"
  BY PathNames
<1>3. \A url \in InviteUrls : url \in Urls /\ url.path = "invite"
  BY PathNames DEF InviteUrls
<1> QED BY <1>1, <1>2, <1>3

\* A request that has only been sent.
Sent(q, url, next, as, code, via) ==
    /\ q \in Requests
    /\ q.url = url /\ q.next = next /\ q.as = as /\ q.code = code /\ q.via = via
    /\ q.at = "middleware" /\ q.rows = {}

LEMMA GetSends ==
    ASSUME NEW url \in Urls, NEW next \in Urls \cup {None}, NEW as \in Users \cup {None},
           NEW link \in Link \cup {None}
    PROVE  /\ Sent([Get(url, next, as) EXCEPT !.code = link], url, next, as, link, None)
           /\ Sent([Get(url, next, as) EXCEPT !.via = link], url, next, as, None, link)
BY DEF Get, Sent, Requests

LEMMA BlankPage == Blank \in Pages /\ Blank.path = "root" /\ Blank.next = None
<1>1. "root" \in Paths
  BY PathNames
<1>2. /\ Shown("root", None, None, "blank") \in Pages
      /\ Shown("root", None, None, "blank").path = "root"
      /\ Shown("root", None, None, "blank").next = None
  BY <1>1 DEF Shown, Pages
<1> QED BY <1>2 DEF Blank

-----------------------------------------------------------------------------
(* The oldest of some rows.                                                *)

\* Every non-empty set of naturals has a least member.
LEMMA LeastNatural ==
    ASSUME NEW T \in SUBSET Nat, T # {}
    PROVE  \E m \in T : \A n \in T : m <= n
<1> DEFINE I == { 0..n : n \in T }
<1>1. I \subseteq FiniteSubsetsOf(Nat)
  <2>1. ASSUME NEW n \in T
        PROVE  0..n \in FiniteSubsetsOf(Nat)
    <3>1. 0 \in Int /\ n \in Int
      OBVIOUS
    <3>2. IsFiniteSet(0..n)
      BY <3>1, FS_Interval
    <3>3. 0..n \in SUBSET Nat
      OBVIOUS
    <3> QED BY <3>2, <3>3 DEF FiniteSubsetsOf
  <2> QED BY <2>1
<1>2. PICK x \in I : \A y \in I : ~(<<y, x>> \in StrictSubsetOrdering(Nat))
  <2> HIDE DEF I
  <2>1. I # {}
    BY DEF I
  <2> QED BY <1>1, <2>1, FS_StrictSubsetOrderingWellFounded, WFMin
<1>3. PICK m \in T : x = 0..m
  OBVIOUS
<1>4. ASSUME NEW n \in T, n < m
      PROVE  FALSE
  <2>1. 0..n \in SUBSET Nat /\ 0..m \in SUBSET Nat
    OBVIOUS
  <2>2. 0..n \subseteq 0..m
    BY <1>4
  <2>3. m \in 0..m /\ m \notin 0..n
    BY <1>4
  <2>4. 0..n \in I
    OBVIOUS
  <2>5. <<0..n, 0..m>> \in StrictSubsetOrdering(Nat)
    <3>1. 0..n # 0..m
      BY <2>3
    <3> HIDE DEF I
    <3> DEFINE a == 0..n
               b == 0..m
    <3>2. a \in SUBSET Nat /\ b \in SUBSET Nat /\ a \subseteq b /\ a # b
      BY <2>1, <2>2, <3>1
    <3> HIDE DEF a, b
    <3>3. <<a, b>> \in StrictSubsetOrdering(Nat)
      BY <3>2 DEF StrictSubsetOrdering
    <3> QED BY <3>3 DEF a, b
  <2> QED BY <1>2, <1>3, <2>4, <2>5
<1>5. \A n \in T : m <= n
  BY <1>4
<1> QED BY <1>5

LEMMA OldestIsOne ==
    ASSUME NEW rows \in SUBSET Row, rows # {}
    PROVE  Oldest(rows) \in rows
<1> DEFINE T == {r.created : r \in rows}
<1>1. T \in SUBSET Nat /\ T # {}
  BY DEF Row
<1>2. PICK m \in T : \A n \in T : m <= n
  <2> HIDE DEF T
  <2> QED BY <1>1, LeastNatural
<1>3. \E r \in rows : \A q \in rows : r.created <= q.created
  BY <1>2
<1> QED BY <1>3 DEF Oldest

\* The organization that is current is one of those that are listed.
LEMMA CurrentIsListed ==
    ASSUME NEW rows \in SUBSET Row, rows # {}, NEW cookie
    PROVE  ResolveCurrent(rows, cookie) \in rows
<1> DEFINE matches == {r \in rows : r.org = cookie}
<1>1. matches \in SUBSET Row
  OBVIOUS
<1>2. Oldest(rows) \in rows
  BY OldestIsOne
<1>3. matches # {} => Oldest(matches) \in matches
  <2> HIDE DEF matches
  <2> QED BY <1>1, OldestIsOne
<1> QED BY <1>2, <1>3 DEF ResolveCurrent

-----------------------------------------------------------------------------
(* The invariant.                                                          *)

DatabaseOK ==
    /\ accounts \in [Users -> {"none", "unconfirmed", "confirmed"}]
    /\ links \subseteq Link
    /\ members \subseteq Row
    /\ \A r, q \in members : r.org = q.org /\ r.user = q.user => r = q
    /\ invitations \in [Tokens -> Invitation \cup {None}]

BrowserOK ==
    /\ session \in Users \cup {None} /\ orgCookie \in Orgs \cup {None}
    /\ disturbances \in 0..MaxDisturbances

\* A sign-up comes from an invitation or from nowhere, and a link whose code
\* was exchanged is on its way to its own page, unless that is the onboarding
\* page, which may lead on.
RequestOK ==
    /\ request \in Requests \cup {None}
    /\ request # None =>
        /\ request.at = "orgs" <=> request.rows # {}
        /\ request.url.path = "signup" => request.next \in InviteUrls \cup {None}
        /\ request.url.path = "callback" => request.via = None
        /\ request.via # None /\ request.via.next.path # "onboarding" =>
              request.url.path = request.via.next.path
        /\ request.at \in {"members", "orgs"} => request.url.path \in {"dashboard", "onboarding"}

PageOK ==
    /\ page \in Pages
    /\ page.path = "signup" => page.next \in InviteUrls \cup {None}
    /\ page.path = "invite" => page.token \in Tokens

\* A call has what its action works on, and a sign-up its form.
CallOK ==
    /\ call \in Calls \cup {None}
    /\ call # None =>
        /\ request = None
        /\ call.kind \in {"signIn", "signUp", "reset"} => call.user \in Users
        /\ call.kind \in {"create", "switch"} => call.org \in Orgs
        /\ call.kind = "accept" => call.token \in Tokens /\ (call.done /\ call.ok => call.org \in Orgs)
        /\ call.kind = "signUp" => page.path = "signup"

SessionsInv == DatabaseOK /\ BrowserOK /\ RequestOK /\ PageOK /\ CallOK

LEMMA InvIsTyped == SessionsInv => TypeOK
BY DEF SessionsInv, DatabaseOK, BrowserOK, RequestOK, PageOK, CallOK, TypeOK

-----------------------------------------------------------------------------
(* Requests.                                                               *)

\* A redirect leaves the path of an email's link behind, or never took it.
LEMMA RedirectStep ==
    ASSUME RequestOK, BrowserOK, request # None,
           request.url.path \notin {"reset-password", "invite"},
           NEW path \in {"login", "onboarding", "dashboard"}, NEW next \in Urls \cup {None},
           Redirect(At(path), next)
    PROVE  RequestOK'
<1>1. At(path) \in Urls /\ At(path).path = path
  BY PathNames
<1>2. request.via \in Link \cup {None} /\ session \in Users \cup {None}
  BY DEF RequestOK, BrowserOK, Requests
<1>3. Sent(request', At(path), next, session, None, request.via)
  BY <1>1, <1>2, GetSends DEF Redirect
<1>4. request.via # None => request.via.next.path = "onboarding"
  BY <1>2, LinkEnds DEF RequestOK
<1> QED BY <1>1, <1>3, <1>4 DEF RequestOK, Sent

\* So does a request that gets on to its page, or to the reads of another one.
LEMMA ProgressStep ==
    ASSUME RequestOK, request # None, NEW at \in {"page", "members"}, request.at # "orgs",
           request' = [request EXCEPT !.at = at],
           at = "members" => request.url.path \in {"dashboard", "onboarding"}
    PROVE  RequestOK'
<1>1. /\ request' \in Requests /\ request'.url = request.url /\ request'.next = request.next
      /\ request'.via = request.via /\ request'.at = at /\ request'.rows = request.rows
  BY DEF RequestOK, Requests
<1> QED BY <1>1 DEF RequestOK

LEMMA ReadStep ==
    ASSUME RequestOK, request # None, request.at = "members", NEW rows \in SUBSET Row, rows # {},
           request' = [request EXCEPT !.at = "orgs", !.rows = rows]
    PROVE  RequestOK'
<1>1. /\ request' \in Requests /\ request'.url = request.url /\ request'.next = request.next
      /\ request'.via = request.via /\ request'.at = "orgs" /\ request'.rows = rows
  BY DEF RequestOK, Requests
<1> QED BY <1>1 DEF RequestOK

LEMMA ServedStep == request' = None => RequestOK'
BY DEF RequestOK

\* A navigation of the tab.
LEMMA FetchStep ==
    ASSUME NEW url \in Urls, NEW next \in Urls \cup {None}, NEW as \in Users \cup {None},
           NEW code \in Link \cup {None}, Fetch(url, next, as, code),
           url.path = "signup" => next \in InviteUrls \cup {None}
    PROVE  RequestOK' /\ page' = Blank
<1>1. Sent(request', url, next, as, code, None)
  BY GetSends DEF Fetch
<1> QED BY <1>1 DEF Fetch, RequestOK, Sent

\* The reads of the dashboard and of the onboarding page are those of paths
\* that no email's link leads to for good.
LEMMA WithoutStep ==
    ASSUME RequestOK, BrowserOK, request # None, request.at \in {"members", "orgs"},
           WithoutOrganizations
    PROVE  RequestOK' /\ (UNCHANGED page \/ page' = Shown("onboarding", None, None, "form"))
<1>1. CASE request' = None
  BY <1>1, ServedStep DEF WithoutOrganizations, Serve
<1>2. ASSUME Redirect(At("onboarding"), None)
      PROVE  RequestOK'
  <2>1. request.url.path \notin {"reset-password", "invite"}
    BY DEF RequestOK
  <2> QED BY <1>2, <2>1, RedirectStep
<1> QED BY <1>1, <1>2 DEF WithoutOrganizations, Serve

LEMMA RequestStep == SessionsInv /\ [Next]_vars => RequestOK'
<1> SUFFICES ASSUME SessionsInv, [Next]_vars
             PROVE  RequestOK'
  OBVIOUS
<1>1. RequestOK /\ BrowserOK /\ PageOK /\ CallOK /\ DatabaseOK
  BY DEF SessionsInv
<1>2. CASE UNCHANGED request
  BY <1>1, <1>2 DEF RequestOK
<1>3. CASE UpdateSession
  <2>1. request \in Requests /\ request # None /\ request.at = "middleware"
    BY <1>1, <1>3 DEF UpdateSession, RequestOK
  <2>2. CASE request' = [request EXCEPT !.at = "page"]
    BY <1>1, <2>1, <2>2, ProgressStep
  <2>3. request.url \in Urls
    BY <2>1 DEF Requests
  <2>4. ASSUME NEW path \in {"login", "dashboard"}, NEW next \in Urls \cup {None},
               Redirect(At(path), next), request.url.path \notin {"reset-password", "invite"}
        PROVE  RequestOK'
    BY <1>1, <2>1, <2>4, RedirectStep
  <2>5. ~IsAlwaysAllowedPath(request.url.path) \/ IsPublicAuthPath(request.url.path)
           => request.url.path \notin {"reset-password", "invite"}
    BY DEF IsAlwaysAllowedPath, IsPublicAuthPath, PublicPaths, OpenPaths
  <2> QED BY <1>3, <2>2, <2>3, <2>4, <2>5 DEF UpdateSession
<1>4. CASE RootPage
  <2>1. request # None /\ request.url.path = "root"
    BY <1>4 DEF RootPage, AtPage
  <2> QED BY <1>1, <1>4, <2>1, RedirectStep DEF RootPage
<1>5. ASSUME NEW p, Serve(p)
      PROVE  RequestOK'
  BY <1>5, ServedStep DEF Serve
<1>6. CASE Callback
  <2>1. request # None /\ request \in Requests /\ request.url.path = "callback"
    BY <1>1, <1>6 DEF Callback, AtPage, RequestOK
  <2>2. CASE Redirect(At("login"), None)
    BY <1>1, <2>1, <2>2, RedirectStep
  <2>3. ASSUME NEW link \in Link, request' = [Get(link.next, None, link.user) EXCEPT !.via = link]
        PROVE  RequestOK'
    <3>1. Sent(request', link.next, None, link.user, None, link)
      BY <2>3, LinkEnds, GetSends
    <3>2. link.next.path \in {"onboarding", "reset-password", "invite"}
      BY LinkEnds
    <3> QED BY <3>1, <3>2 DEF Sent, RequestOK
  <2>4. links \subseteq Link
    BY <1>1 DEF DatabaseOK
  <2> QED BY <1>6, <2>2, <2>3, <2>4 DEF Callback
<1>7. CASE LayoutUser
  <2>1. request # None /\ request.url.path = "dashboard" /\ request.at = "page"
    BY <1>7 DEF LayoutUser, AtPage
  <2>2. CASE Redirect(At("login"), None)
    BY <1>1, <2>1, <2>2, RedirectStep
  <2>3. CASE request' = [request EXCEPT !.at = "members"]
    BY <1>1, <2>1, <2>3, ProgressStep
  <2> QED BY <1>7, <2>2, <2>3 DEF LayoutUser
<1>8. CASE OnboardingReads
  <2>1. request # None /\ request.url.path = "onboarding" /\ request.at = "page"
    BY <1>8 DEF OnboardingReads, AtPage
  <2> QED BY <1>1, <1>8, <2>1, ProgressStep DEF OnboardingReads
<1>9. CASE ReadMembers
  <2>1. request # None /\ request.at = "members"
    BY <1>9 DEF ReadMembers
  <2>2. CASE WithoutOrganizations
    BY <1>1, <2>1, <2>2, WithoutStep
  <2>3. VisibleRows(request.as) \in SUBSET Row
    BY <1>1 DEF VisibleRows, DatabaseOK
  <2>4. ASSUME VisibleRows(request.as) # {},
               request' = [request EXCEPT !.at = "orgs", !.rows = VisibleRows(request.as)]
        PROVE  RequestOK'
    BY <1>1, <2>1, <2>3, <2>4, ReadStep
  <2> QED BY <1>9, <2>2, <2>4 DEF ReadMembers
<1>10. CASE ReadOrganizations
  <2>1. request # None /\ request.at = "orgs"
    BY <1>10 DEF ReadOrganizations
  <2>2. CASE WithoutOrganizations
    BY <1>1, <2>1, <2>2, WithoutStep
  <2>3. CASE Redirect(At("dashboard"), None)
    <3>1. request.url.path \notin {"reset-password", "invite"}
      BY <1>1, <2>1 DEF RequestOK
    <3> QED BY <1>1, <2>1, <2>3, <3>1, RedirectStep
  <2> QED BY <1>5, <1>10, <2>2, <2>3 DEF ReadOrganizations
<1>11. CASE ServerStep
  BY <1>3, <1>4, <1>5, <1>6, <1>7, <1>8, <1>9, <1>10, <1>11
     DEF ServerStep, PublicPage, ResetPasswordPage, InvitePage
<1>12. ASSUME NEW url \in Urls, NEW next \in Urls \cup {None}, Visit(url, next),
              url.path = "signup" => next \in InviteUrls \cup {None}
       PROVE  RequestOK'
  <2>1. session \in Users \cup {None}
    BY <1>1 DEF BrowserOK
  <2> QED BY <1>12, <2>1, FetchStep DEF Visit
<1>13. CASE FollowInvite
  <2>1. InviteUrl(page.token) \in InviteUrls /\ InviteUrl(page.token) \in Urls
    BY <1>1, <1>13, PathNames DEF FollowInvite, PageOK
  <2>2. \A path \in {"signup", "login"} : At(path) \in Urls
    BY PathNames
  <2> QED BY <1>12, <1>13, <2>1, <2>2 DEF FollowInvite
<1>14. CASE FollowEmailLink
  <2>1. session \in Users \cup {None}
    BY <1>1 DEF BrowserOK
  <2>2. At("callback") \in Urls /\ At("callback").path = "callback"
    BY PathNames
  <2> QED BY <1>14, <2>1, <2>2, FetchStep DEF FollowEmailLink
<1>15. CASE VisitPage
  BY <1>12, <1>15 DEF VisitPage
<1>16. CASE UserStep
  BY <1>2, <1>13, <1>14, <1>15, <1>16
     DEF UserStep, SubmitSignIn, SubmitSignUp, SubmitForgot, SubmitReset, ClickSignOut,
         ClickSwitchAccount, ClickAccept, SubmitOrganization, ClickSwitch, Submit
<1>17. CASE Answer
  <2>1. call \in Calls /\ session \in Users \cup {None} /\ page \in Pages
    BY <1>1, <1>17 DEF Answer, CallOK, BrowserOK, PageOK
  <2>2. Destination \in Urls /\ Destination.path \in Paths
    <3>1. page.next \in Urls \cup {None}
      BY <2>1 DEF Pages
    <3>2. \A path \in {"dashboard", "check-email", "login"} : At(path) \in Urls
      BY PathNames
    <3> QED BY <3>1, <3>2, PathNames DEF Destination
  <2>3. (IF call.kind = "signOut" /\ call.token # None THEN InviteUrl(call.token) ELSE None)
           \in InviteUrls \cup {None}
    BY <2>1, PathNames DEF Calls
  <2>4. (IF call.kind = "signOut" /\ call.token # None THEN InviteUrl(call.token) ELSE None)
           \in Urls \cup {None}
    BY <2>1, PathNames DEF Calls
  <2>5. call.ok => session' \in Users \cup {None}
    BY <1>1, <1>17, <2>1 DEF Answer, CallOK
  <2>6. CASE call.ok
    BY <1>17, <2>2, <2>3, <2>4, <2>5, <2>6, FetchStep DEF Answer
  <2> QED BY <1>2, <1>17, <2>6 DEF Answer
<1>18. CASE Perform \/ LoseCall \/ Outside \/ UNCHANGED vars
  BY <1>2, <1>18 DEF Perform, LoseCall, Outside, vars
<1> QED BY <1>11, <1>16, <1>17, <1>18 DEF Next

-----------------------------------------------------------------------------
(* Pages.                                                                  *)

\* The page is left alone, left behind, or served.
LEMMA PageStep == SessionsInv /\ [Next]_vars => PageOK'
<1> SUFFICES ASSUME SessionsInv, [Next]_vars
             PROVE  PageOK'
  OBVIOUS
<1>1. RequestOK /\ BrowserOK /\ PageOK /\ CallOK /\ DatabaseOK
  BY DEF SessionsInv
<1>2. CASE UNCHANGED page
  BY <1>1, <1>2 DEF PageOK
<1>3. CASE page' = Blank
  BY <1>3, BlankPage DEF PageOK
<1>4. ASSUME NEW path \in Paths, NEW token \in Tokens \cup {None}, NEW next \in Urls \cup {None},
             NEW case \in {"blank", "form", "not found", "accepted", "revoked", "expired",
                           "sign in", "accept", "switch"},
             page' = Shown(path, token, next, case),
             path = "signup" => next \in InviteUrls \cup {None},
             path = "invite" => token \in Tokens
      PROVE  PageOK'
  BY <1>4 DEF Shown, Pages, PageOK
<1>5. CASE PublicPage
  <2>1. /\ request \in Requests /\ request # None
        /\ request.url.path \in PublicPaths
        /\ page' = Shown(request.url.path, None, request.next, "form")
    BY <1>1, <1>5 DEF PublicPage, RequestOK, Serve
  <2>2. /\ request.url.path \in Paths /\ request.url.path # "invite"
        /\ request.next \in Urls \cup {None}
        /\ request.url.path = "signup" => request.next \in InviteUrls \cup {None}
    BY <1>1, <2>1 DEF RequestOK, Requests, Paths, PublicPaths
  <2> QED BY <1>4, <2>1, <2>2
<1>6. CASE ResetPasswordPage
  <2>1. PICK case \in {"expired", "form"} :
           page' = Shown("reset-password", None, None, case)
    BY <1>6 DEF ResetPasswordPage, Serve
  <2> QED BY <1>4, <2>1, PathNames
<1>7. CASE InvitePage
  <2>1. request \in Requests /\ request.url.path = "invite"
    BY <1>1, <1>7 DEF InvitePage, AtPage, RequestOK
  <2>2. request.url.token \in Tokens
    BY <2>1, PathNames DEF Requests
  <2>3. \A u : InviteCase(request.url.token, u) \in
                 {"not found", "accepted", "revoked", "expired", "sign in", "accept", "switch"}
    <3>1. invitations[request.url.token] \in Invitation \cup {None}
      BY <1>1, <2>2 DEF DatabaseOK
    <3> QED BY <3>1 DEF InviteCase, Invitation
  <2>4. PICK case \in {"not found", "accepted", "revoked", "expired", "sign in", "accept", "switch"} :
           page' = Shown("invite", request.url.token, None, case)
    BY <1>7, <2>3 DEF InvitePage, Serve
  <2> QED BY <1>4, <2>2, <2>4, PathNames
<1>8. CASE WithoutOrganizations
  <2>1. CASE page' = Shown("onboarding", None, None, "form")
    BY <1>4, <2>1, PathNames
  <2> QED BY <1>2, <1>8, <2>1 DEF WithoutOrganizations, Serve
<1>9. CASE ReadOrganizations
  <2>1. ASSUME Listed(request.rows, request.as) # {},
               page' = [Shown("dashboard", None, None, "form") EXCEPT
                           !.listed = Listed(request.rows, request.as),
                           !.current = ResolveCurrent(Listed(request.rows, request.as), orgCookie)]
        PROVE  PageOK'
    <3>1. PICK rows \in SUBSET Row : rows = Listed(request.rows, request.as)
      BY <1>1, <1>9 DEF ReadOrganizations, RequestOK, Requests, Listed
    <3>2. PICK row \in Row : row = ResolveCurrent(rows, orgCookie)
      BY <2>1, <3>1, CurrentIsListed
    <3>3. "dashboard" \in Paths
      BY PathNames
    <3>4. page' = [Shown("dashboard", None, None, "form") EXCEPT !.listed = rows, !.current = row]
      BY <2>1, <3>1, <3>2
    <3> QED BY <3>3, <3>4 DEF PageOK, Pages, Shown
  <2> QED BY <1>2, <1>8, <1>9, <2>1 DEF ReadOrganizations, Serve
<1>10. CASE ServerStep
  BY <1>2, <1>5, <1>6, <1>7, <1>8, <1>9, <1>10
     DEF ServerStep, UpdateSession, RootPage, Callback, LayoutUser, OnboardingReads, ReadMembers
<1>11. CASE UserStep
  BY <1>2, <1>3, <1>11
     DEF UserStep, VisitPage, FollowEmailLink, FollowInvite, Visit, Fetch,
         SubmitSignIn, SubmitSignUp, SubmitForgot, SubmitReset, ClickSignOut,
         ClickSwitchAccount, ClickAccept, SubmitOrganization, ClickSwitch, Submit
<1>12. CASE Answer
  BY <1>2, <1>3, <1>12 DEF Answer, Fetch
<1>13. CASE Perform \/ LoseCall \/ Outside \/ UNCHANGED vars
  BY <1>2, <1>13 DEF Perform, LoseCall, Outside, vars
<1> QED BY <1>10, <1>11, <1>12, <1>13 DEF Next

-----------------------------------------------------------------------------
(* Calls.                                                                  *)

\* What is sent off with a form.
LEMMA SubmitStep ==
    ASSUME PageOK, BrowserOK, Idle,
           NEW kind \in {"signIn", "signUp", "reset", "update", "signOut", "create", "switch", "accept"},
           NEW user \in Users \cup {None}, NEW org \in Orgs \cup {None},
           NEW token \in Tokens \cup {None},
           Submit(kind, user, org, token),
           kind \in {"signIn", "signUp", "reset"} => user \in Users,
           kind \in {"create", "switch"} => org \in Orgs,
           kind = "accept" => token \in Tokens,
           kind = "signUp" => page.path = "signup"
    PROVE  CallOK'
<1>1. session \in Users \cup {None}
  BY DEF BrowserOK
<1>2. call' = [kind |-> kind, user |-> user, org |-> org, token |-> token,
               as |-> session, done |-> FALSE, ok |-> FALSE]
  BY DEF Submit
<1>3. /\ call' \in Calls /\ call'.kind = kind /\ call'.user = user /\ call'.org = org
      /\ call'.token = token /\ ~call'.done
  BY <1>1, <1>2 DEF Calls
<1>4. request' = None /\ page' = page
  BY DEF Submit, Idle
<1> QED BY <1>3, <1>4 DEF CallOK

\* What an action makes of its call.
LEMMA DoneStep ==
    ASSUME CallOK, call # None, UNCHANGED <<request, page>>,
           NEW ok \in BOOLEAN, NEW org \in Orgs \cup {None},
           call' = [call EXCEPT !.done = TRUE, !.ok = ok, !.org = org],
           call.kind \in {"create", "switch"} => org = call.org,
           call.kind = "accept" /\ ok => org \in Orgs
    PROVE  CallOK'
<1>1. call \in Calls
  BY DEF CallOK
<1>2. /\ call' \in Calls /\ call'.kind = call.kind /\ call'.user = call.user
      /\ call'.token = call.token /\ call'.ok = ok /\ call'.org = org
  BY <1>1 DEF Calls
<1> QED BY <1>2 DEF CallOK

LEMMA JustDoneStep ==
    ASSUME CallOK, call # None, UNCHANGED <<request, page>>,
           NEW ok \in BOOLEAN, Done(ok), call.kind = "accept" => ~ok
    PROVE  CallOK'
<1>1. call \in Calls
  BY DEF CallOK
<1>2. /\ call' \in Calls /\ call'.kind = call.kind /\ call'.user = call.user
      /\ call'.token = call.token /\ call'.ok = ok /\ call'.org = call.org
  BY <1>1 DEF Calls, Done
<1> QED BY <1>2 DEF CallOK

LEMMA CallStep == SessionsInv /\ [Next]_vars => CallOK'
<1> SUFFICES ASSUME SessionsInv, [Next]_vars
             PROVE  CallOK'
  OBVIOUS
<1>1. RequestOK /\ BrowserOK /\ PageOK /\ CallOK /\ DatabaseOK
  BY DEF SessionsInv
<1>2. CASE call' = None
  BY <1>2 DEF CallOK
<1>3. CASE UNCHANGED <<request, page, call>>
  BY <1>1, <1>3 DEF CallOK
<1>4. CASE UNCHANGED call /\ request # None
  BY <1>1, <1>2, <1>4 DEF CallOK
<1>5. CASE UNCHANGED call /\ Idle
  BY <1>2, <1>5 DEF Idle
<1>6. CASE ServerStep
  <2>1. request # None
    BY <1>6 DEF ServerStep, UpdateSession, RootPage, PublicPage, Callback, ResetPasswordPage,
                InvitePage, LayoutUser, OnboardingReads, ReadMembers, ReadOrganizations, AtPage
  <2>2. UNCHANGED call
    BY <1>6 DEF ServerStep, UpdateSession, RootPage, PublicPage, Callback, ResetPasswordPage,
                InvitePage, LayoutUser, OnboardingReads, ReadMembers, ReadOrganizations
  <2> QED BY <1>4, <2>1, <2>2
<1>7. CASE SubmitSignIn
  BY <1>1, <1>7, SubmitStep DEF SubmitSignIn, Submit
<1>8. CASE SubmitSignUp
  <2>1. PICK u \in Users : Submit("signUp", u, None, None)
    BY <1>8 DEF SubmitSignUp
  <2>2. page.path = "signup"
    BY <1>8 DEF SubmitSignUp, OnForm
  <2> QED BY <1>1, <2>1, <2>2, SubmitStep DEF Submit
<1>9. CASE SubmitForgot
  BY <1>1, <1>9, SubmitStep DEF SubmitForgot, Submit
<1>10. CASE SubmitReset \/ ClickSignOut
  BY <1>1, <1>10, SubmitStep DEF SubmitReset, ClickSignOut, Submit
<1>11. CASE ClickSwitchAccount
  <2>1. page.token \in Tokens
    BY <1>1, <1>11 DEF ClickSwitchAccount, PageOK
  <2> QED BY <1>1, <1>11, <2>1, SubmitStep DEF ClickSwitchAccount, Submit
<1>12. CASE ClickAccept
  <2>1. page.token \in Tokens
    BY <1>1, <1>12 DEF ClickAccept, PageOK
  <2> QED BY <1>1, <1>12, <2>1, SubmitStep DEF ClickAccept, Submit
<1>13. CASE SubmitOrganization
  <2>1. PICK o \in Orgs : Submit("create", None, o, None)
    BY <1>13 DEF SubmitOrganization
  <2> QED BY <1>1, <2>1, SubmitStep DEF Submit
<1>14. CASE ClickSwitch
  <2>1. PICK r \in page.listed : Submit("switch", None, r.org, None)
    BY <1>14 DEF ClickSwitch
  <2>2. r.org \in Orgs
    BY <1>1, <2>1 DEF PageOK, Pages, Row
  <2> QED BY <1>1, <2>1, <2>2, SubmitStep DEF Submit
<1>15. CASE UserStep
  BY <1>5, <1>7, <1>8, <1>9, <1>10, <1>11, <1>12, <1>13, <1>14, <1>15
     DEF UserStep, VisitPage, FollowInvite, FollowEmailLink, Visit
<1>16. CASE Perform
  <2>1. UNCHANGED <<request, page>>
    BY <1>16 DEF Perform
  <2>2. ASSUME NEW ok \in BOOLEAN, NEW kind, Underway(kind), Done(ok), kind = "accept" => ~ok
        PROVE  CallOK'
    BY <1>1, <2>1, <2>2, JustDoneStep DEF Underway
  <2>3. CASE PerformSignIn
    BY <2>2, <2>3 DEF PerformSignIn
  <2>4. CASE PerformSignUp \/ PerformReset \/ PerformSignOut
    BY <2>2, <2>4 DEF PerformSignUp, PerformReset, PerformSignOut
  <2>5. CASE PerformUpdate
    BY <2>2, <2>5 DEF PerformUpdate
  <2>6. CASE PerformSwitch
    BY <2>2, <2>6 DEF PerformSwitch
  <2>7. CASE PerformCreate
    BY <2>2, <2>7 DEF PerformCreate
  <2>8. CASE PerformAccept
    <3>1. call # None /\ call.kind = "accept" /\ call.token \in Tokens
      BY <1>1, <2>8 DEF PerformAccept, Underway, CallOK
    <3>2. Acceptable(call.token, call.as) => invitations[call.token].org \in Orgs
      BY <1>1, <3>1 DEF Acceptable, DatabaseOK, Invitation
    <3>3. CASE Done(FALSE)
      BY <2>2, <2>8, <3>3 DEF PerformAccept
    <3>4. CASE /\ Acceptable(call.token, call.as)
               /\ call' = [call EXCEPT !.done = TRUE, !.ok = TRUE,
                                       !.org = invitations[call.token].org]
      BY <1>1, <2>1, <3>1, <3>2, <3>4, DoneStep
    <3> QED BY <2>8, <3>3, <3>4 DEF PerformAccept
  <2> QED BY <1>16, <2>3, <2>4, <2>5, <2>6, <2>7, <2>8 DEF Perform
<1>17. CASE Answer \/ LoseCall
  BY <1>2, <1>17 DEF Answer, LoseCall
<1>18. CASE Outside \/ UNCHANGED vars
  BY <1>3, <1>18 DEF Outside, vars
<1> QED BY <1>6, <1>15, <1>16, <1>17, <1>18 DEF Next

-----------------------------------------------------------------------------
(* The browser's cookies, and the database.                                *)

LEMMA BrowserStep == SessionsInv /\ [Next]_vars => BrowserOK'
<1> SUFFICES ASSUME SessionsInv, [Next]_vars
             PROVE  BrowserOK'
  OBVIOUS
<1>1. RequestOK /\ BrowserOK /\ PageOK /\ CallOK /\ DatabaseOK
  BY DEF SessionsInv
<1>2. disturbances' \in 0..MaxDisturbances <=> (Mishap \/ NoMishap \/ disturbances' \in 0..MaxDisturbances)
  BY <1>1, SessionsAssumption DEF BrowserOK, Mishap, NoMishap
<1>3. CASE UNCHANGED <<session, orgCookie>> /\ (Mishap \/ NoMishap)
  BY <1>1, <1>2, <1>3 DEF BrowserOK
<1>4. CASE UNCHANGED <<session, orgCookie, disturbances>>
  BY <1>1, <1>4 DEF BrowserOK
<1>5. CASE Callback
  <2>1. ASSUME NEW link \in links
        PROVE  link.user \in Users
    BY <1>1, <2>1, LinkEnds DEF DatabaseOK
  <2>2. UNCHANGED orgCookie /\ (Mishap \/ NoMishap) /\ session' \in Users \cup {None}
    BY <1>1, <1>5, <2>1 DEF Callback, BrowserOK
  <2> QED BY <1>1, <1>2, <2>2 DEF BrowserOK
<1>6. CASE UpdateSession \/ LayoutUser \/ ResetPasswordPage \/ InvitePage
  <2>1. Mishap \/ NoMishap
    BY <1>6 DEF UpdateSession, LayoutUser, ResetPasswordPage, InvitePage, GetUser
  <2>2. UNCHANGED <<session, orgCookie>>
    BY <1>6 DEF UpdateSession, LayoutUser, ResetPasswordPage, InvitePage
  <2> QED BY <1>3, <2>1, <2>2
<1>7. CASE ReadMembers \/ ReadOrganizations
  <2>1. Mishap \/ NoMishap
    BY <1>7 DEF ReadMembers, ReadOrganizations
  <2>2. UNCHANGED <<session, orgCookie>>
    BY <1>7 DEF ReadMembers, ReadOrganizations
  <2> QED BY <1>3, <2>1, <2>2
<1>8. CASE ServerStep
  BY <1>4, <1>5, <1>6, <1>7, <1>8 DEF ServerStep, RootPage, PublicPage, OnboardingReads
<1>9. CASE UserStep
  BY <1>4, <1>9
     DEF UserStep, VisitPage, FollowEmailLink, FollowInvite, Visit,
         SubmitSignIn, SubmitSignUp, SubmitForgot, SubmitReset, ClickSignOut,
         ClickSwitchAccount, ClickAccept, SubmitOrganization, ClickSwitch, Submit
<1>10. CASE Perform
  <2>1. session' \in {session, None}
    BY <1>10 DEF Perform, PerformSignIn, PerformSignUp, PerformReset, PerformUpdate, PerformSignOut,
                 PerformCreate, PerformSwitch, PerformAccept, database
  <2>2. UNCHANGED <<orgCookie, disturbances>>
    BY <1>10 DEF Perform
  <2> QED BY <1>1, <2>1, <2>2 DEF BrowserOK
<1>11. CASE Answer
  <2>1. UNCHANGED disturbances
    BY <1>11 DEF Answer
  <2>2. session' \in Users \cup {None}
    BY <1>1, <1>11 DEF Answer, CallOK, BrowserOK
  <2>3. orgCookie' \in Orgs \cup {None}
    BY <1>1, <1>11 DEF Answer, CallOK, BrowserOK
  <2> QED BY <1>1, <2>1, <2>2, <2>3 DEF BrowserOK
<1>12. CASE LoseCall
  BY <1>3, <1>12 DEF LoseCall
<1>13. CASE Outside
  <2>1. Mishap
    BY <1>13 DEF Outside, Mishap
  <2>2. session' \in Users \cup {None} /\ orgCookie' \in Orgs \cup {None}
    <3>1. \A u : OrgsOf(u) \subseteq Orgs
      BY <1>1 DEF DatabaseOK, OrgsOf, Row
    <3> QED BY <1>1, <1>13, <3>1
            DEF Outside, BrowserOK, Invite, RevokeInvitation, InvitationExpires, AcceptElsewhere,
                CreateElsewhere, RemoveMember, SessionElsewhere, SwitchElsewhere
  <2> QED BY <1>2, <2>1, <2>2 DEF BrowserOK
<1>14. CASE UNCHANGED vars
  BY <1>4, <1>14 DEF vars
<1> QED BY <1>8, <1>9, <1>10, <1>11, <1>12, <1>13, <1>14 DEF Next

\* The rows of the members, by one who joins an organization and had none in it.
LEMMA JoinStep ==
    ASSUME members \subseteq Row, \A r, q \in members : r.org = q.org /\ r.user = q.user => r = q,
           NEW org \in Orgs, NEW user \in Users, NEW role \in Roles, org \notin OrgsOf(user),
           Join(org, user, role)
    PROVE  /\ members' \subseteq Row
           /\ \A r, q \in members' : r.org = q.org /\ r.user = q.user => r = q
<1>1. PICK now \in {1} \cup {r.created + 1 : r \in members} :
         members' = members \cup {[org |-> org, user |-> user, role |-> role, created |-> now]}
  BY DEF Join
<1>2. now \in Nat
  BY DEF Row
<1> DEFINE new == [org |-> org, user |-> user, role |-> role, created |-> now]
<1>3. new \in Row /\ new.org = org /\ new.user = user
  BY <1>2 DEF Row
<1>4. \A r \in members : ~(r.org = org /\ r.user = user)
  BY DEF OrgsOf
<1>5. members' = members \cup {new}
  BY <1>1
<1> HIDE DEF new
<1> QED BY <1>3, <1>4, <1>5

\* Accounts, links, members and invitations keep their types apart from each
\* other.
AccountsOK == accounts \in [Users -> {"none", "unconfirmed", "confirmed"}] /\ links \subseteq Link
MembersOK ==
    /\ members \subseteq Row
    /\ \A r, q \in members : r.org = q.org /\ r.user = q.user => r = q
InvitationsOK == invitations \in [Tokens -> Invitation \cup {None}]

LEMMA AccountsStep == SessionsInv /\ [Next]_vars => AccountsOK'
<1> SUFFICES ASSUME SessionsInv, [Next]_vars
             PROVE  AccountsOK'
  OBVIOUS
<1>1. RequestOK /\ BrowserOK /\ PageOK /\ CallOK /\ AccountsOK
  BY DEF SessionsInv, DatabaseOK, AccountsOK
<1>2. CASE UNCHANGED <<accounts, links>>
  BY <1>1, <1>2 DEF AccountsOK
<1>3. ASSUME NEW u \in Users, NEW state \in {"unconfirmed", "confirmed"},
             accounts' = [accounts EXCEPT ![u] = state] \/ UNCHANGED accounts, links' \subseteq Link
      PROVE  AccountsOK'
  BY <1>1, <1>3 DEF AccountsOK
<1>4. CASE Callback
  <2>1. request.code \in links => request.code.user \in Users
    BY <1>1, LinkEnds DEF AccountsOK
  <2>2. links \subseteq Link
    BY <1>1 DEF AccountsOK
  <2> QED BY <1>2, <1>3, <1>4, <2>1, <2>2 DEF Callback
<1>5. ASSUME NEW u \in Users, NEW next \in {At("onboarding"), At("reset-password")} \cup InviteUrls,
             Mail(u, next)
      PROVE  links' \subseteq Link
  <2>1. [user |-> u, next |-> next] \in Link
    BY DEF Link
  <2> QED BY <1>1, <1>5, <2>1 DEF Mail, AccountsOK
<1>6. CASE PerformSignUp
  <2>1. call.user \in Users /\ page.path = "signup"
    BY <1>1, <1>6 DEF PerformSignUp, Underway, CallOK
  <2>2. (IF page.next = None THEN At("onboarding") ELSE page.next)
           \in {At("onboarding"), At("reset-password")} \cup InviteUrls
    BY <1>1, <2>1 DEF PageOK
  <2> QED BY <1>2, <1>3, <1>5, <1>6, <2>1, <2>2 DEF PerformSignUp
<1>7. CASE PerformReset
  <2>1. call.user \in Users
    BY <1>1, <1>7 DEF PerformReset, Underway, CallOK
  <2> QED BY <1>2, <1>3, <1>5, <1>7, <2>1 DEF PerformReset
<1>8. CASE ServerStep
  BY <1>2, <1>4, <1>8
     DEF ServerStep, UpdateSession, RootPage, PublicPage, ResetPasswordPage, InvitePage, LayoutUser,
         OnboardingReads, ReadMembers, ReadOrganizations, database
<1>9. CASE UserStep
  BY <1>2, <1>9
     DEF UserStep, VisitPage, FollowEmailLink, FollowInvite, Visit, database,
         SubmitSignIn, SubmitSignUp, SubmitForgot, SubmitReset, ClickSignOut,
         ClickSwitchAccount, ClickAccept, SubmitOrganization, ClickSwitch, Submit
<1>10. CASE Perform
  BY <1>2, <1>6, <1>7, <1>10
     DEF Perform, PerformSignIn, PerformUpdate, PerformSignOut, PerformCreate, PerformSwitch,
         PerformAccept, database
<1>11. CASE Answer \/ LoseCall \/ UNCHANGED vars
  BY <1>2, <1>11 DEF Answer, LoseCall, vars, database
<1>12. CASE Outside
  BY <1>2, <1>12
     DEF Outside, Invite, RevokeInvitation, InvitationExpires, AcceptElsewhere,
         CreateElsewhere, RemoveMember, SessionElsewhere, SwitchElsewhere, database
<1> QED BY <1>8, <1>9, <1>10, <1>11, <1>12 DEF Next

\* An invitation is accepted by its user, who has a row in its organization
\* from then on, and one only.
LEMMA AcceptStep ==
    ASSUME MembersOK, InvitationsOK, NEW t \in Tokens, NEW u \in Users,
           Acceptable(t, u), AcceptInvitation(t, u)
    PROVE  MembersOK' /\ InvitationsOK'
<1>1. invitations[t] \in Invitation
  BY DEF InvitationsOK, Acceptable
<1>2. invitations[t].org \in Orgs /\ [invitations[t] EXCEPT !.status = "accepted"] \in Invitation
  BY <1>1 DEF Invitation
<1>3. InvitationsOK'
  BY <1>2 DEF AcceptInvitation, InvitationsOK
<1>4. CASE UNCHANGED members
  BY <1>3, <1>4 DEF MembersOK
<1>5. CASE /\ invitations[t].org \notin OrgsOf(u)
           /\ Join(invitations[t].org, u, "viewer")
  BY <1>2, <1>3, <1>5, JoinStep DEF MembersOK, Roles
<1> QED BY <1>4, <1>5 DEF AcceptInvitation

LEMMA MembersStep == SessionsInv /\ [Next]_vars => MembersOK' /\ InvitationsOK'
<1> SUFFICES ASSUME SessionsInv, [Next]_vars
             PROVE  MembersOK' /\ InvitationsOK'
  OBVIOUS
<1>1. RequestOK /\ BrowserOK /\ PageOK /\ CallOK /\ MembersOK /\ InvitationsOK
  BY DEF SessionsInv, DatabaseOK, MembersOK, InvitationsOK
<1>2. UNCHANGED members => MembersOK'
  BY <1>1 DEF MembersOK
<1>3. UNCHANGED invitations => InvitationsOK'
  BY <1>1 DEF InvitationsOK
<1>4. ASSUME NEW o \in Orgs, NEW u \in Users, o \notin Existing, Join(o, u, "owner")
      PROVE  MembersOK'
  <2>1. o \notin OrgsOf(u)
    BY <1>4 DEF Existing, OrgsOf
  <2> QED BY <1>1, <1>4, <2>1, JoinStep DEF MembersOK, Roles
<1>5. CASE PerformCreate
  <2>1. call.org \in Orgs /\ call.as \in Users \cup {None}
    BY <1>1, <1>5 DEF PerformCreate, Underway, CallOK, Calls
  <2> QED BY <1>2, <1>3, <1>4, <1>5, <2>1 DEF PerformCreate
<1>6. CASE PerformAccept
  <2>1. call.token \in Tokens /\ call.as \in Users \cup {None}
    BY <1>1, <1>6 DEF PerformAccept, Underway, CallOK, Calls
  <2>2. Acceptable(call.token, call.as) => call.as \in Users
    BY <2>1 DEF Acceptable
  <2> QED BY <1>1, <1>2, <1>3, <1>6, <2>1, <2>2, AcceptStep DEF PerformAccept
<1>7. CASE ServerStep
  BY <1>2, <1>3, <1>7
     DEF ServerStep, UpdateSession, RootPage, PublicPage, Callback, ResetPasswordPage, InvitePage,
         LayoutUser, OnboardingReads, ReadMembers, ReadOrganizations, database
<1>8. CASE UserStep
  BY <1>2, <1>3, <1>8
     DEF UserStep, VisitPage, FollowEmailLink, FollowInvite, Visit, database,
         SubmitSignIn, SubmitSignUp, SubmitForgot, SubmitReset, ClickSignOut,
         ClickSwitchAccount, ClickAccept, SubmitOrganization, ClickSwitch, Submit
<1>9. CASE Perform
  BY <1>2, <1>3, <1>5, <1>6, <1>9
     DEF Perform, PerformSignIn, PerformSignUp, PerformReset, PerformUpdate, PerformSignOut,
         PerformSwitch, database
<1>10. CASE Answer \/ LoseCall \/ UNCHANGED vars
  BY <1>2, <1>3, <1>10 DEF Answer, LoseCall, vars, database
<1>11. CASE Invite
  <2>1. Existing \subseteq Orgs
    BY <1>1 DEF Existing, MembersOK, Row
  <2>2. PICK t \in Tokens, o \in Existing, u \in Users :
           invitations' = [invitations EXCEPT ![t] =
               [org |-> o, email |-> u, expired |-> FALSE, status |-> "pending"]]
    BY <1>11 DEF Invite
  <2>3. [org |-> o, email |-> u, expired |-> FALSE, status |-> "pending"] \in Invitation
    BY <2>1 DEF Invitation
  <2> QED BY <1>1, <1>2, <1>11, <2>2, <2>3 DEF Invite, InvitationsOK
<1>12. CASE RevokeInvitation \/ InvitationExpires
  <2>1. UNCHANGED members
    BY <1>12 DEF RevokeInvitation, InvitationExpires
  <2>2. PICK t \in Tokens :
           /\ invitations[t] # None
           /\ \/ invitations' = [invitations EXCEPT ![t].status = "revoked"]
              \/ invitations' = [invitations EXCEPT ![t].expired = TRUE]
    BY <1>12 DEF RevokeInvitation, InvitationExpires
  <2>3. invitations[t] \in Invitation
    BY <1>1, <2>2 DEF InvitationsOK
  <2>4. /\ [invitations[t] EXCEPT !.status = "revoked"] \in Invitation
        /\ [invitations[t] EXCEPT !.expired = TRUE] \in Invitation
    BY <2>3 DEF Invitation
  <2> QED BY <1>1, <1>2, <2>1, <2>2, <2>4 DEF InvitationsOK
<1>13. CASE AcceptElsewhere
  BY <1>1, <1>13, AcceptStep DEF AcceptElsewhere
<1>14. CASE CreateElsewhere
  BY <1>3, <1>4, <1>14 DEF CreateElsewhere
<1>15. CASE RemoveMember
  BY <1>1, <1>3, <1>15 DEF RemoveMember, MembersOK
<1>16. CASE SessionElsewhere \/ SwitchElsewhere
  BY <1>2, <1>3, <1>16 DEF SessionElsewhere, SwitchElsewhere, database
<1>17. CASE Outside
  BY <1>11, <1>12, <1>13, <1>14, <1>15, <1>16, <1>17 DEF Outside
<1> QED BY <1>7, <1>8, <1>9, <1>10, <1>17 DEF Next

-----------------------------------------------------------------------------
(* What holds.                                                             *)

\* The invariant: its parts are kept one by one.
THEOREM SessionsInvariant == Spec => []SessionsInv
<1>1. Init => SessionsInv
  <2> SUFFICES ASSUME Init
               PROVE  SessionsInv
    OBVIOUS
  <2>1. DatabaseOK
    BY DEF Init, DatabaseOK
  <2>2. BrowserOK
    BY SessionsAssumption DEF Init, BrowserOK
  <2>3. RequestOK /\ CallOK
    BY DEF Init, RequestOK, CallOK
  <2>4. PageOK
    BY BlankPage DEF Init, PageOK
  <2> QED BY <2>1, <2>2, <2>3, <2>4 DEF SessionsInv
<1>2. SessionsInv /\ [Next]_vars => SessionsInv'
  BY RequestStep, PageStep, CallStep, BrowserStep, AccountsStep, MembersStep
     DEF SessionsInv, DatabaseOK, AccountsOK, MembersOK, InvitationsOK
<1> QED BY <1>1, <1>2, PTL DEF Spec

\* Accounts, links, memberships, invitations, requests, pages and calls keep
\* their types, and nobody joins an organization twice, whether an invitation is
\* accepted here or elsewhere (invitations migration, accept_invitation).
THEOREM SessionsTypes == Spec => []TypeOK
BY SessionsInvariant, InvIsTyped, PTL

\* The organization the dashboard opens is one its user belongs to when it is
\* read, whatever the cookie says and whatever changes between the two reads
\* (organizations.ts, lines 31-85).
THEOREM CurrentBelongsToItsUser == Spec => CurrentIsOwn
<1>1. SessionsInv /\ [Next]_vars
         => [page = Blank /\ page'.path = "dashboard"
                => page'.current.org \in OrgsOf(request.as)]_vars
  <2> SUFFICES ASSUME SessionsInv, [Next]_vars, page = Blank, page'.path = "dashboard"
               PROVE  page'.current.org \in OrgsOf(request.as)
    OBVIOUS
  <2>1. RequestOK
    BY DEF SessionsInv
  <2>2. ASSUME UNCHANGED page \/ page' = Blank
        PROVE  FALSE
    BY <2>2, BlankPage
  <2>3. ASSUME NEW path, NEW token, NEW next, NEW case, page' = Shown(path, token, next, case),
               path # "dashboard"
        PROVE  FALSE
    BY <2>3 DEF Shown
  <2>4. ASSUME WithoutOrganizations
        PROVE  FALSE
    BY <2>2, <2>3, <2>4 DEF WithoutOrganizations, Serve
  <2>5. CASE ReadOrganizations
    <3>1. PICK rows : rows = Listed(request.rows, request.as)
      OBVIOUS
    <3>2. rows \in SUBSET Row /\ \A r \in rows : r.org \in OrgsOf(request.as)
      BY <2>1, <2>5, <3>1 DEF ReadOrganizations, RequestOK, Requests, Listed
    <3>3. rows # {} /\ page'.current = ResolveCurrent(rows, orgCookie)
      BY <2>2, <2>4, <2>5, <3>1 DEF ReadOrganizations, Serve, Shown
    <3> QED BY <3>2, <3>3, CurrentIsListed
  <2>6. CASE ServerStep
    <3>1. ASSUME PublicPage
          PROVE  FALSE
      <4>1. request.url.path # "dashboard"
        BY <3>1 DEF PublicPage, PublicPaths
      <4> QED BY <2>3, <3>1, <4>1 DEF PublicPage, Serve
    <3>2. ASSUME ResetPasswordPage \/ InvitePage
          PROVE  FALSE
      BY <2>3, <3>2 DEF ResetPasswordPage, InvitePage, Serve
    <3> QED BY <2>2, <2>4, <2>5, <2>6, <3>1, <3>2
            DEF ServerStep, UpdateSession, RootPage, Callback, LayoutUser, OnboardingReads, ReadMembers
  <2>7. CASE UserStep
    BY <2>2, <2>7
       DEF UserStep, VisitPage, FollowEmailLink, FollowInvite, Visit, Fetch,
           SubmitSignIn, SubmitSignUp, SubmitForgot, SubmitReset, ClickSignOut,
           ClickSwitchAccount, ClickAccept, SubmitOrganization, ClickSwitch, Submit
  <2>8. CASE Answer
    BY <2>2, <2>8 DEF Answer, Fetch
  <2>9. CASE Perform \/ LoseCall \/ Outside \/ UNCHANGED vars
    BY <2>2, <2>9 DEF Perform, LoseCall, Outside, vars
  <2> QED BY <2>6, <2>7, <2>8, <2>9 DEF Next
<1> QED BY <1>1, SessionsInvariant, PTL DEF Spec, CurrentIsOwn

\* The link of a password reset or of an invitation ends on its own page once
\* its code was exchanged: the middleware lets a session that is a moment old
\* through to both (middleware.ts, lines 27-48, callback/route.ts, lines 12-26).
THEOREM EmailLinksLand == Spec => EmailLinkLands
<1>1. SessionsInv /\ [Next]_vars
         => [request # None /\ request.via # None /\ request' = None
                /\ request.via.next.path \in {"reset-password", "invite"}
                    => page'.path = request.via.next.path]_vars
  <2> SUFFICES ASSUME SessionsInv, [Next]_vars, request # None, request.via # None, request' = None,
                      request.via.next.path \in {"reset-password", "invite"}
               PROVE  page'.path = request.via.next.path
    OBVIOUS
  <2>1. /\ request.url.path = request.via.next.path
        /\ request.at \notin {"members", "orgs"} /\ call = None
    BY DEF SessionsInv, RequestOK, CallOK
  <2>2. ASSUME request' \in Requests \/ UNCHANGED request
        PROVE  FALSE
    BY <2>2, SessionsAssumption
  <2>3. request \in Requests /\ session \in Users \cup {None} /\ request.url \in Urls
    BY DEF SessionsInv, RequestOK, BrowserOK, Requests
  <2>4. ~UpdateSession
    <3>1. IsAlwaysAllowedPath(request.url.path) /\ ~IsPublicAuthPath(request.url.path)
      BY <2>1 DEF IsAlwaysAllowedPath, IsPublicAuthPath, OpenPaths, PublicPaths
    <3>2. [request EXCEPT !.at = "page"] \in Requests
      BY <2>3 DEF Requests
    <3> QED BY <2>2, <3>1, <3>2 DEF UpdateSession
  <2>5. CASE ServerStep
    <3>1. ResetPasswordPage => page'.path = "reset-password" /\ request.url.path = "reset-password"
      BY DEF ResetPasswordPage, AtPage, Serve, Shown
    <3>2. InvitePage => page'.path = "invite" /\ request.url.path = "invite"
      <4>1. \A case : Shown("invite", request.url.token, None, case).path = "invite"
        BY DEF Shown
      <4> QED BY <4>1 DEF InvitePage, AtPage, Serve
    <3>3. ~(RootPage \/ Callback \/ LayoutUser \/ OnboardingReads)
      BY <2>1 DEF RootPage, Callback, LayoutUser, OnboardingReads, AtPage
    <3>4. ~(PublicPage \/ ReadMembers \/ ReadOrganizations)
      BY <2>1 DEF PublicPage, PublicPaths, ReadMembers, ReadOrganizations
    <3> QED BY <2>1, <2>4, <2>5, <3>1, <3>2, <3>3, <3>4 DEF ServerStep
  <2>6. CASE UserStep
    BY <2>2, <2>6
       DEF UserStep, VisitPage, FollowEmailLink, FollowInvite, Visit, Idle,
           SubmitSignIn, SubmitSignUp, SubmitForgot, SubmitReset, ClickSignOut,
           ClickSwitchAccount, ClickAccept, SubmitOrganization, ClickSwitch, Submit
  <2>7. CASE Answer
    BY <2>1, <2>7 DEF Answer
  <2>8. CASE Perform \/ LoseCall \/ Outside \/ UNCHANGED vars
    BY <2>2, <2>8 DEF Perform, LoseCall, Outside, vars
  <2> QED BY <2>5, <2>6, <2>7, <2>8 DEF Next
<1> QED BY <1>1, SessionsInvariant, PTL DEF Spec, EmailLinkLands
=============================================================================
