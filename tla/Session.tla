------------------------------- MODULE Session -------------------------------
(***************************************************************************)
(* Signing in and out of the web client.  Its tabs share one cookie, which *)
(* holds the token every request is made with; each tab keeps the user it  *)
(* knows, decides by both what it shows, and notices what another tab did  *)
(* to the cookie only when it decides again or a request is refused.       *)
(*                                                                         *)
(* What a tab shows is decided when a route is mounted: on loading, and    *)
(* when the path moves to another route.  A change of the user alone draws *)
(* nothing again, since the router is one element that stays the same.     *)
(* The route of all private paths is one route: moving among them decides  *)
(* on the page only.                                                       *)
(*                                                                         *)
(* A token the panel accepts is one that has not expired and that is in    *)
(* the record of its user: the dialog of a user's rights writes the whole  *)
(* record back, with the token it had when the dialog was opened.          *)
(*                                                                         *)
(* Covered: EntryPoint, the two public pages as they hand over a user, the *)
(* tokens of the panel and its refusal of them, the rights of users, the   *)
(* update of the user by its stream.                                       *)
(* Left out: passwords; themes; what the private pages do; deletion of     *)
(* users; an update put back by addProject, which reads the record and     *)
(* writes it in two lines; answers that are lost, which leave a tab        *)
(* loading.                                                                *)
(*                                                                         *)
(* Definitions headed "Slip" are plausible mistakes in the definition that *)
(* follows them; no specification uses them.                               *)
(***************************************************************************)
EXTENDS Naturals, Sequences

CONSTANTS
  Tabs,
  Users,
  Newcomers,      \* the users that are not registered at first
  Private,        \* the private paths, each the action that allows it
  Default,        \* the private path that is the default
  InitialRights,  \* [user -> set of private paths]
  MaxExpiries,    \* bound: tokens that expire
  MaxGrants,      \* bound: changes of rights
  MaxProjects,    \* bound: projects added
  MaxSubmits      \* bound: forms sent to sign in

Public == {"authorize", "register"}
Paths == Public \cup Private
None == "none"
Loading == "loading"
Blank == "blank"  \* React gives a tree up whose redirections do not end

ASSUME ConstantsAssumption ==
  /\ Newcomers \subseteq Users
  /\ Default \in Private /\ Public \cap Private = {}
  /\ {None, Loading, Blank} \cap (Paths \cup Users) = {}
  /\ InitialRights \in [Users -> SUBSET Private]
  /\ {MaxExpiries, MaxGrants, MaxProjects, MaxSubmits} \subseteq Nat

VARIABLES
  cookie,      \* a token, or NoToken
  issued,      \* [user -> tokens issued to it]
  held,        \* [user -> the number of the token in its record]
  valid,       \* the tokens that have not expired
  registered,
  submits,     \* forms sent
  rights,      \* [user -> set of private paths]: as the panel has them
  grants,
  editing,     \* the token in the copy of a record that a dialog holds, NoToken when none does
  projects,    \* projects added
  path,        \* [tab -> path]
  shown,       \* [tab -> path, Loading or Blank]
  user,        \* [tab -> user the tab knows, NoUser]
  referer,     \* [tab -> private path]
  loading,     \* [tab -> the token being authenticated, NoToken]
  signing,     \* [tab -> [public page -> the user signing in there, None]]
  request,     \* [tab -> the token a request was made with, Quiet when none is]
  events,      \* [tab -> the updates of its user on the way, each its rights]
  asked,       \* history: [tab -> the private path last asked for]
  meddled      \* history: the tabs whose user is not the one the cookie was last set for

panel == <<issued, held, valid, registered, rights, grants, editing, projects, submits>>
tabs == <<path, shown, user, referer, loading, signing, request, events, asked, meddled>>
vars == <<cookie, panel, tabs>>

NoToken == [name |-> None, n |-> 0]
Quiet == [name |-> None, n |-> 1]
NoUser == [name |-> None, actions |-> {}]

Token(u) == [name |-> u, n |-> held[u]]

\* A token the panel finds a user by.
Found(token) == token # NoToken /\ token = Token(token.name)
Passes(token) == token \in valid /\ Found(token)

\* Without a token, or with one that has expired and still is in a record, the answer
\* to a request is UNAUTHORIZED; a token that no record holds fails it otherwise.
Unauthorized(token) == token \notin valid /\ (token = NoToken \/ Found(token))

Known(u) == [name |-> u, actions |-> rights[u]]

Authorized(c, u) == c # NoToken /\ u # NoUser
Privileged(c, u, p) == Authorized(c, u) /\ p \in u.actions

-----------------------------------------------------------------------------
(* Routing. *)

\* A route that is entered: a private path shows its page, inside the frame that asks
\* for the default action, or redirects to the first public page.
RouteToPrivatePath(c, u, p, inside) ==
  (inside \/ Privileged(c, u, Default)) /\ Privileged(c, u, p)

\* Slip: the page asked for is not looked at.
RouteToPublicPathBlindly(c, u, r) == r

\* A public path of a user who is known redirects to the page asked for, or the default.
RouteToPublicPath(c, u, r) == IF Privileged(c, u, r) THEN r ELSE Default

\* The route that a tab comes to shows a page, or redirects: "shown" is Blank while the
\* redirections go on, "referer" the page last asked for.
Redirected(c, u, at) ==
  IF at.shown # Blank THEN at
  ELSE IF at.path \in Public
       THEN IF Authorized(c, u)
            THEN [at EXCEPT !.path = RouteToPublicPath(c, u, at.referer), !.inside = FALSE]
            ELSE [at EXCEPT !.shown = at.path]
  ELSE IF RouteToPrivatePath(c, u, at.path, at.inside)
       THEN [at EXCEPT !.shown = at.path, !.referer = at.path]
       ELSE [path |-> "authorize", shown |-> Blank, referer |-> at.path, inside |-> FALSE]

\* Where the redirections that start at a path end.  More than these in a row come back
\* to where they have been.
Routed(c, u, p, r, inside) ==
  LET first  == Redirected(c, u, [path |-> p, shown |-> Blank, referer |-> r, inside |-> inside])
      second == Redirected(c, u, first)
      third  == Redirected(c, u, second)
  IN Redirected(c, u, third)

\* Slip: the page that turned the user away is forgotten.
LandForgetting(t, c, u, p, r, inside) ==
  LET end == Routed(c, u, p, r, inside) IN
  /\ path' = [path EXCEPT ![t] = end.path]
  /\ shown' = [shown EXCEPT ![t] = end.shown]
  /\ referer' = [referer EXCEPT ![t] = IF end.shown \in Public THEN r ELSE end.referer]
  /\ user' = [user EXCEPT ![t] = u]

\* A tab with a cookie and a user enters the route of a path.
Land(t, c, u, p, r, inside) ==
  LET end == Routed(c, u, p, r, inside) IN
  /\ path' = [path EXCEPT ![t] = end.path]
  /\ shown' = [shown EXCEPT ![t] = end.shown]
  /\ referer' = [referer EXCEPT ![t] = end.referer]
  /\ user' = [user EXCEPT ![t] = u]

Inside(t) == shown[t] \in Private

Asks(t, p) == asked' = [asked EXCEPT ![t] = IF p \in Private THEN p ELSE @]

-----------------------------------------------------------------------------
(* Loading. *)

Fresh == [p \in Public |-> None]

\* The page is loaded at a path, with the cookie as it then is: whatever was under way
\* in the tab is gone.
Authenticate(t, c, p) ==
  /\ loading' = [loading EXCEPT ![t] = c]
  /\ IF c = NoToken
     THEN Land(t, c, NoUser, p, Default, FALSE)
     ELSE /\ path' = [path EXCEPT ![t] = p]
          /\ shown' = [shown EXCEPT ![t] = Loading]
          /\ referer' = [referer EXCEPT ![t] = Default]
          /\ user' = [user EXCEPT ![t] = NoUser]
  /\ signing' = [signing EXCEPT ![t] = Fresh]
  /\ request' = [request EXCEPT ![t] = Quiet]
  /\ events' = [events EXCEPT ![t] = <<>>]
  /\ asked' = [asked EXCEPT ![t] = IF p \in Private THEN p ELSE Default]

\* The user types an address, or loads the page again.
Visit(t, p) ==
  /\ Authenticate(t, cookie, p)
  /\ meddled' = meddled \ {t}
  /\ UNCHANGED <<cookie, panel>>

\* The answer to the token the page was loaded with.
Authenticated(t) ==
  /\ loading[t] # NoToken
  /\ LET u == IF Passes(loading[t]) THEN Known(loading[t].name) ELSE NoUser
     IN Land(t, cookie, u, path[t], referer[t], FALSE)
  /\ loading' = [loading EXCEPT ![t] = NoToken]
  /\ UNCHANGED <<cookie, panel, signing, request, events, asked, meddled>>

-----------------------------------------------------------------------------
(* Signing in. *)

\* The form of a page is disabled until the answer; the other page's is not.
Submit(t, p, u) ==
  /\ shown[t] = p /\ p \in Public
  /\ signing[t][p] = None /\ submits < MaxSubmits
  /\ signing' = [signing EXCEPT ![t][p] = u]
  /\ submits' = submits + 1
  /\ UNCHANGED <<cookie, issued, held, valid, registered, rights, grants, editing, projects, path, shown,
                 user, referer, loading, request, events, asked, meddled>>

\* Slip: a cookie that is there is kept.
LogInKeepingCookie(t, u, token) ==
  /\ cookie' = IF cookie = NoToken THEN token ELSE cookie
  /\ IF user[t] # NoUser
     THEN /\ meddled' = Tabs
          /\ UNCHANGED <<path, shown, referer, user>>
     ELSE /\ Land(t, token, Known(u), referer[t], referer[t], FALSE)
          /\ meddled' = Tabs \ {t}

\* The cookie is set in any case; the user only if the tab knows none.
LogIn(t, u, token) ==
  /\ cookie' = token
  /\ IF user[t] # NoUser
     THEN /\ meddled' = Tabs
          /\ UNCHANGED <<path, shown, referer, user>>
     ELSE /\ Land(t, token, Known(u), referer[t], referer[t], FALSE)
          /\ meddled' = Tabs \ {t}

\* The panel knows the user of an authorization, or registers the one of a registration,
\* and gives it a token if it has none that is valid.
SignedIn(t, p) ==
  LET u == signing[t][p]
      token == [name |-> u, n |-> IF Token(u) \in valid THEN held[u] ELSE issued[u] + 1]
  IN
  /\ loading[t] = NoToken /\ p \in Public /\ u # None
  /\ (u \in registered) = (p = "authorize")
  /\ issued' = [issued EXCEPT ![u] = IF Token(u) \in valid THEN @ ELSE @ + 1]
  /\ held' = [held EXCEPT ![u] = token.n]
  /\ valid' = valid \cup {token}
  /\ registered' = registered \cup {u}
  /\ signing' = [signing EXCEPT ![t][p] = None]
  /\ LogIn(t, u, token)
  /\ UNCHANGED <<rights, grants, editing, projects, submits, loading, request, events, asked>>

\* A wrong password, a name that is taken.
Refused(t, p) ==
  /\ loading[t] = NoToken /\ p \in Public /\ signing[t][p] # None
  /\ signing' = [signing EXCEPT ![t][p] = None]
  /\ UNCHANGED <<cookie, panel, path, shown, user, referer, loading, request, events, asked,
                 meddled>>

-----------------------------------------------------------------------------
(* Signing out. *)

\* Whatever the cookie holds by now.  Without a user nothing else happens.
LogOut(t) ==
  /\ cookie' = NoToken
  /\ IF user[t] = NoUser
     THEN /\ request' = [request EXCEPT ![t] = Quiet]
          /\ meddled' = Tabs
          /\ UNCHANGED <<path, shown, user, referer, loading, signing, events, asked>>
     ELSE /\ Authenticate(t, NoToken, path[t])
          /\ meddled' = (meddled \cup Tabs) \ {t}

Exit(t) ==
  /\ Inside(t)
  /\ LogOut(t)
  /\ UNCHANGED panel

\* A request is made with the cookie as it is.
Request(t) ==
  /\ Inside(t) /\ request[t] = Quiet
  /\ request' = [request EXCEPT ![t] = cookie]
  /\ UNCHANGED <<cookie, panel, path, shown, user, referer, loading, signing, events, asked,
                 meddled>>

\* The answer may be UNAUTHORIZED: whoever has signed in since is signed out.  Any other
\* error is only notified.
Answered(t) ==
  /\ request[t] # Quiet
  /\ IF Unauthorized(request[t])
     THEN LogOut(t)
     ELSE /\ request' = [request EXCEPT ![t] = Quiet]
          /\ UNCHANGED <<cookie, path, shown, user, referer, loading, signing, events, asked,
                         meddled>>
  /\ UNCHANGED panel

\* A request that adds a project: the project is added to the record of the user, and
\* the tabs that show pages to it are sent the record, with the rights of that time.
AddProject(t) ==
  /\ request[t] # Quiet /\ Passes(request[t]) /\ projects < MaxProjects
  /\ request' = [request EXCEPT ![t] = Quiet]
  /\ projects' = projects + 1
  /\ events' = [x \in Tabs |-> IF Inside(x) /\ user[x].name = request[t].name
                              THEN Append(events[x], rights[request[t].name]) ELSE events[x]]
  /\ UNCHANGED <<cookie, issued, held, valid, registered, rights, grants, editing, submits, path, shown,
                 user, referer, loading, signing, asked, meddled>>

-----------------------------------------------------------------------------
(* Moving, and the panel. *)

\* A link, a button, or the history of the browser.
Move(t, p) ==
  /\ shown[t] \notin {Loading, Blank}
  /\ p # path[t]
  /\ Land(t, cookie, user[t], p, referer[t], Inside(t))
  /\ Asks(t, p)
  /\ UNCHANGED <<cookie, panel, loading, signing, request, events, meddled>>

\* An administrator opens the dialog of a user's rights: it reads the record.
EditRights(u) ==
  /\ u \in registered /\ grants < MaxGrants
  /\ editing' = Token(u)
  /\ UNCHANGED <<cookie, issued, held, valid, registered, rights, grants, projects, submits, tabs>>

\* The record is written back as it was read, but for the rights: there is no box for the
\* default action.  No tab is told.
UpdateUser(actions) ==
  /\ editing # NoToken /\ grants < MaxGrants
  /\ (Default \in actions) = (Default \in rights[editing.name])
  /\ rights' = [rights EXCEPT ![editing.name] = actions]
  /\ held' = [held EXCEPT ![editing.name] = editing.n]
  /\ editing' = NoToken
  /\ grants' = grants + 1
  /\ UNCHANGED <<cookie, issued, valid, registered, projects, submits, tabs>>

\* The user is replaced; what the tab shows stays.
SetUser(t) ==
  /\ events[t] # <<>>
  /\ events' = [events EXCEPT ![t] = Tail(@)]
  /\ user' = [user EXCEPT ![t].actions = IF Inside(t) THEN Head(events[t]) ELSE @]
  /\ UNCHANGED <<cookie, panel, path, shown, referer, loading, signing, request, asked, meddled>>

\* Tokens live for thirty days: the one issued first expires first.
Expire(token) ==
  /\ token \in valid /\ token.n <= MaxExpiries
  /\ \A other \in valid : other.name = token.name => other.n >= token.n
  /\ valid' = valid \ {token}
  /\ UNCHANGED <<cookie, issued, held, registered, rights, grants, editing, projects, submits, tabs>>

Init ==
  /\ cookie = NoToken
  /\ issued = [u \in Users |-> IF u \in Newcomers THEN 0 ELSE 1]
  /\ held = issued
  /\ valid = {Token(u) : u \in Users \ Newcomers}
  /\ registered = Users \ Newcomers
  /\ submits = 0
  /\ rights = InitialRights
  /\ grants = 0
  /\ editing = NoToken
  /\ projects = 0
  /\ path = [t \in Tabs |-> "authorize"]
  /\ shown = [t \in Tabs |-> "authorize"]
  /\ user = [t \in Tabs |-> NoUser]
  /\ referer = [t \in Tabs |-> Default]
  /\ loading = [t \in Tabs |-> NoToken]
  /\ signing = [t \in Tabs |-> Fresh]
  /\ request = [t \in Tabs |-> Quiet]
  /\ events = [t \in Tabs |-> <<>>]
  /\ asked = [t \in Tabs |-> Default]
  /\ meddled = {}

Next ==
  \/ \E t \in Tabs, p \in Paths : Visit(t, p) \/ Move(t, p)
  \/ \E t \in Tabs, p \in Public, u \in Users : Submit(t, p, u)
  \/ \E t \in Tabs, p \in Public : SignedIn(t, p) \/ Refused(t, p)
  \/ \E t \in Tabs : \/ Authenticated(t) \/ Exit(t) \/ Request(t) \/ Answered(t)
                   \/ AddProject(t) \/ SetUser(t)
  \/ \E u \in Users : EditRights(u)
  \/ \E actions \in SUBSET Private : UpdateUser(actions)
  \/ \E token \in valid : Expire(token)

Spec == Init /\ [][Next]_vars

-----------------------------------------------------------------------------
(* Properties. *)

\* A tab acts as the user it shows: the cookie, which its requests are made with, is the
\* token of its user, unless another tab signed in or out since, or the tab signed in
\* twice at once and took the first.
\* EntryPoint.ts 70, 180-199; PlatformClient.ts 101.
ActsAsShown ==
  \A t \in Tabs \ meddled : user[t] # NoUser => cookie.name = user[t].name

\* Redirections end, for every user who may see the default page.
\* EntryPoint.ts 79-85, 169.
RedirectionsEnd ==
  \A t \in Tabs : shown[t] = Blank => Default \notin user[t].actions

\* Whenever a tab comes to know its user, at loading or at signing in, it shows the page
\* last asked for, or the default page to a user who may not see that one.
\* EntryPoint.ts 79-85, 180-188.
BackToAsked ==
  [][\A t \in Tabs :
       user[t] = NoUser /\ user'[t] # NoUser /\ cookie' # NoToken
         /\ Default \in user'[t].actions
         => shown'[t] = IF asked[t] \in user'[t].actions THEN asked[t] ELSE Default]_vars

=============================================================================
