---------------------- MODULE SessionAndContextProofs ----------------------
(***************************************************************************)
(* What a user of the web client is let in to, and what its pages load:    *)
(* proofs about Session and about ContextLoading.                          *)
(*                                                                         *)
(* For any number of tabs, users, tokens and changes of rights, a tab acts *)
(* as the user it shows, redirections end, and whoever signs in is brought *)
(* to what was asked for.  None of the three is inductive.  The answer to  *)
(* the token a tab was loaded with makes its user known, so while nobody   *)
(* meddled that token must still be the cookie; an update of a user must   *)
(* not make one of a tab that has none, so updates wait only in tabs that  *)
(* have a user; and what a tab without a user keeps in mind must be what   *)
(* it was last asked for, which a tab that is loading knows by its path    *)
(* alone.                                                                  *)
(*                                                                         *)
(* For any number of clicks, failures and kinds of resources, a page is    *)
(* drawn with all its data unless its loads overlapped.  The counter of    *)
(* the synchronizer is bounded by the loaders that are done: each load     *)
(* that is counted is the only one of its loader, which is not done until  *)
(* then; so a counter that has reached all loaders has seen each once.     *)
(***************************************************************************)
EXTENDS Session, ContextLoading, FiniteSetTheorems, TLAPS

\* What the argument needs of the types.
Typed ==
  /\ DOMAIN user = Tabs /\ DOMAIN loading = Tabs /\ DOMAIN shown = Tabs
  /\ user \in [Tabs -> [name : Users \cup {None}, actions : SUBSET Private]]
  /\ loading \in [Tabs -> [name : Users \cup {None}, n : Nat]]
  /\ cookie \in [name : Users \cup {None}, n : Nat]
  /\ issued \in [Users -> Nat]
  /\ rights \in [Users -> SUBSET Private]
  /\ events \in [Tabs -> Seq(SUBSET Private)]
  /\ signing \in [Tabs -> [Public -> Users \cup {None}]]
  /\ registered \subseteq Users
  /\ held \in [Users -> Nat]
  /\ valid \subseteq [name : Users, n : Nat]
  /\ editing \in [name : Users, n : Nat] \cup {NoToken}

\* A tab that is loading shows nothing else, and no update waits in it; its token is
\* the cookie.
WhileLoading ==
  \A t \in Tabs : loading[t] # NoToken =>
    /\ shown[t] = Loading
    /\ events[t] = <<>>
    /\ t \notin meddled => loading[t] = cookie

\* Updates wait for a user.
UpdatesHaveUser == \A t \in Tabs : events[t] # <<>> => user[t].name # None

IInv == Typed /\ WhileLoading /\ UpdatesHaveUser /\ ActsAsShown

LEMMA InitInv == Init => IInv
<1> SUFFICES ASSUME Init PROVE IInv
  OBVIOUS
<1>1. user = [t \in Tabs |-> NoUser] /\ loading = [t \in Tabs |-> NoToken]
      /\ events = [t \in Tabs |-> <<>>] /\ cookie = NoToken
  BY DEF Init
<1>2. Typed
  <2>1. signing \in [Tabs -> [Public -> Users \cup {None}]]
    BY DEF Init, Fresh
  <2>2. issued \in [Users -> Nat] /\ held \in [Users -> Nat] /\ editing = NoToken
    BY DEF Init
  <2>3. rights \in [Users -> SUBSET Private] /\ registered \subseteq Users /\ DOMAIN shown = Tabs
    BY ConstantsAssumption DEF Init
  <2>5. valid \subseteq [name : Users, n : Nat]
    <3>1. valid = {Token(u) : u \in Users \ Newcomers}
      BY DEF Init
    <3>2. \A u \in Users : Token(u) \in [name : Users, n : Nat]
      BY <2>2 DEF Token
    <3> QED BY <3>1, <3>2
  <2>4. events \in [Tabs -> Seq(SUBSET Private)]
    BY <1>1
  <2> QED BY <1>1, <2>1, <2>2, <2>3, <2>4, <2>5 DEF Typed, NoUser, NoToken
<1> QED BY <1>1, <1>2 DEF IInv, WhileLoading, UpdatesHaveUser, ActsAsShown

\* Wherever the redirections lead, a tab that lands has the user it lands with.
LEMMA LandGives ==
  ASSUME NEW t \in Tabs, NEW c, NEW u, NEW p, NEW r, NEW inside, Land(t, c, u, p, r, inside)
  PROVE  /\ user' = [user EXCEPT ![t] = u]
         /\ \E v : shown' = [shown EXCEPT ![t] = v]
BY DEF Land

\* Loading a tab: it has no user, and waits for the answer about the cookie given.
LEMMA AuthenticateGives ==
  ASSUME Typed, NEW t \in Tabs, NEW c, NEW p, Authenticate(t, c, p)
  PROVE  /\ user' = [user EXCEPT ![t] = NoUser]
         /\ loading' = [loading EXCEPT ![t] = c]
         /\ events' = [events EXCEPT ![t] = <<>>]
         /\ signing' = [signing EXCEPT ![t] = Fresh]
         /\ \E v : shown' = [shown EXCEPT ![t] = v] /\ (c # NoToken => v = Loading)
<1>1. CASE c = NoToken
  BY <1>1, LandGives DEF Authenticate
<1>2. CASE c # NoToken
  BY <1>2 DEF Authenticate
<1> QED BY <1>1, <1>2

\* A tab that loads anew with the cookie as it is, and is meddled with no more than
\* before.
LEMMA LoadPreserves ==
  ASSUME IInv, NEW t \in Tabs, NEW c, NEW p, Authenticate(t, c, p),
         cookie' = c, c \in [name : Users \cup {None}, n : Nat],
         \A x \in Tabs \ {t} : x \in meddled' \/ (c = cookie /\ (x \in meddled => x \in meddled')),
         UNCHANGED <<issued, held, rights, registered, valid, editing>>
  PROVE  IInv'
<1>1. /\ user' = [user EXCEPT ![t] = NoUser]
      /\ loading' = [loading EXCEPT ![t] = c]
      /\ events' = [events EXCEPT ![t] = <<>>]
      /\ signing' = [signing EXCEPT ![t] = Fresh]
  BY AuthenticateGives DEF IInv
<1>2. PICK v : shown' = [shown EXCEPT ![t] = v] /\ (c # NoToken => v = Loading)
  BY AuthenticateGives DEF IInv
<1>3. Typed'
  <2>1. signing' \in [Tabs -> [Public -> Users \cup {None}]]
    BY <1>1 DEF Fresh, IInv, Typed
  <2>2. user' \in [Tabs -> [name : Users \cup {None}, actions : SUBSET Private]]
    BY <1>1 DEF NoUser, IInv, Typed
  <2>3. loading' \in [Tabs -> [name : Users \cup {None}, n : Nat]]
    BY <1>1 DEF IInv, Typed
  <2>4. events' \in [Tabs -> Seq(SUBSET Private)]
    BY <1>1 DEF IInv, Typed
  <2> QED BY <1>2, <2>1, <2>2, <2>3, <2>4 DEF IInv, Typed
<1>4. ASSUME NEW x \in Tabs
      PROVE  /\ x = t => user'[x] = NoUser /\ loading'[x] = c /\ events'[x] = <<>> /\ shown'[x] = v
             /\ x # t => /\ user'[x] = user[x] /\ loading'[x] = loading[x]
                        /\ events'[x] = events[x] /\ shown'[x] = shown[x]
  BY <1>1, <1>2 DEF IInv, Typed
<1>5. WhileLoading'
  BY <1>2, <1>4 DEF IInv, WhileLoading
<1>6. UpdatesHaveUser'
  BY <1>4 DEF IInv, UpdatesHaveUser
<1>7. ActsAsShown'
  BY <1>4 DEF IInv, ActsAsShown
<1> QED BY <1>3, <1>5, <1>6, <1>7 DEF IInv

LEMMA VisitPreserves ==
  ASSUME IInv, NEW t \in Tabs, NEW p \in Paths, Visit(t, p)
  PROVE  IInv'
BY LoadPreserves DEF Visit, panel, IInv, Typed

\* A tab whose route alone changes.
LEMMA MovePreserves ==
  ASSUME IInv, NEW t \in Tabs, NEW p \in Paths, Move(t, p)
  PROVE  IInv'
<1>1. user' = [user EXCEPT ![t] = user[t]] /\ \E v : shown' = [shown EXCEPT ![t] = v]
  BY LandGives DEF Move
<1>2. PICK v : shown' = [shown EXCEPT ![t] = v]
  BY <1>1
<1>3. user' = user /\ shown[t] # Loading /\ UNCHANGED <<cookie, panel, loading, signing, events, meddled>>
  BY <1>1 DEF Move, IInv, Typed
<1>4. DOMAIN shown' = Tabs /\ \A x \in Tabs : x # t => shown'[x] = shown[x]
  BY <1>2 DEF IInv, Typed
<1>5. Typed'
  BY <1>3, <1>4 DEF IInv, Typed, panel
<1>6. WhileLoading'
  BY <1>3, <1>4 DEF IInv, WhileLoading
<1> QED BY <1>3, <1>5, <1>6 DEF IInv, UpdatesHaveUser, ActsAsShown

\* The answer makes the user of the cookie known, if nobody meddled.
LEMMA AuthenticatedPreserves ==
  ASSUME IInv, NEW t \in Tabs, Authenticated(t)
  PROVE  IInv'
<1> DEFINE u == IF Passes(loading[t]) THEN Known(loading[t].name) ELSE NoUser
<1>1. user' = [user EXCEPT ![t] = u] /\ \E v : shown' = [shown EXCEPT ![t] = v]
  BY LandGives DEF Authenticated
<1>2. PICK v : shown' = [shown EXCEPT ![t] = v]
  BY <1>1
<1>3. /\ loading[t] # NoToken /\ loading' = [loading EXCEPT ![t] = NoToken]
      /\ UNCHANGED <<cookie, panel, signing, events, meddled>>
  BY DEF Authenticated
<1>4. /\ u \in [name : Users \cup {None}, actions : SUBSET Private]
      /\ u # NoUser => u.name = loading[t].name
  BY DEF Passes, Known, NoUser, IInv, Typed
<1> HIDE DEF u
<1>5. Typed'
  <2>1. user' \in [Tabs -> [name : Users \cup {None}, actions : SUBSET Private]]
    BY <1>1, <1>4 DEF IInv, Typed
  <2>2. loading' \in [Tabs -> [name : Users \cup {None}, n : Nat]]
    BY <1>3 DEF NoToken, IInv, Typed
  <2> QED BY <1>2, <1>3, <2>1, <2>2 DEF IInv, Typed, panel
<1>6. ASSUME NEW x \in Tabs
      PROVE  /\ x = t => user'[x] = u /\ loading'[x] = NoToken
             /\ x # t => user'[x] = user[x] /\ loading'[x] = loading[x] /\ shown'[x] = shown[x]
  BY <1>1, <1>2, <1>3 DEF IInv, Typed
<1>7. events[t] = <<>> /\ (t \notin meddled => loading[t] = cookie)
  BY <1>3 DEF IInv, WhileLoading
<1>8. WhileLoading'
  BY <1>3, <1>6 DEF IInv, WhileLoading
<1>9. UpdatesHaveUser'
  BY <1>3, <1>6, <1>7 DEF IInv, UpdatesHaveUser
<1>10. ActsAsShown'
  BY <1>3, <1>4, <1>6, <1>7 DEF IInv, ActsAsShown
<1> QED BY <1>5, <1>8, <1>9, <1>10 DEF IInv

\* A form that is sent.
LEMMA SubmitPreserves ==
  ASSUME IInv, NEW t \in Tabs, NEW p \in Public, NEW u \in Users, Submit(t, p, u)
  PROVE  IInv'
<1>1. signing' = [signing EXCEPT ![t][p] = u]
      /\ UNCHANGED <<cookie, issued, held, valid, registered, rights, editing, shown, user, loading, events, meddled>>
  BY DEF Submit
<1>2. signing' \in [Tabs -> [Public -> Users \cup {None}]]
  BY <1>1 DEF IInv, Typed
<1>3. Typed'
  BY <1>1, <1>2 DEF IInv, Typed
<1> QED BY <1>1, <1>3 DEF IInv, WhileLoading, UpdatesHaveUser, ActsAsShown

\* A form that is refused.
LEMMA RefusedPreserves ==
  ASSUME IInv, NEW t \in Tabs, NEW p \in Public, Refused(t, p)
  PROVE  IInv'
<1>1. signing' = [signing EXCEPT ![t][p] = None]
      /\ UNCHANGED <<cookie, issued, held, valid, registered, rights, editing, shown, user, loading, events, meddled>>
  BY DEF Refused, panel
<1>2. signing' \in [Tabs -> [Public -> Users \cup {None}]]
  BY <1>1 DEF IInv, Typed
<1>3. Typed'
  BY <1>1, <1>2 DEF IInv, Typed
<1> QED BY <1>1, <1>3 DEF IInv, WhileLoading, UpdatesHaveUser, ActsAsShown

\* A tab that signs in either takes the user with the cookie or is meddled with, as are
\* all the others.
LEMMA SignedInPreserves ==
  ASSUME IInv, NEW t \in Tabs, NEW p \in Public, SignedIn(t, p)
  PROVE  IInv'
<1> DEFINE u == signing[t][p]
           n == IF Token(u) \in valid THEN held[u] ELSE issued[u] + 1
           k == IF Token(u) \in valid THEN issued[u] ELSE issued[u] + 1
           token == [name |-> u, n |-> n]
<1>1. /\ u \in Users /\ u # None
      /\ loading[t] = NoToken
      /\ issued' = [issued EXCEPT ![u] = k] /\ held' = [held EXCEPT ![u] = n]
      /\ valid' = valid \cup {token} /\ registered' = registered \cup {u}
      /\ signing' = [signing EXCEPT ![t][p] = None]
      /\ UNCHANGED <<rights, editing, loading, events>>
  BY DEF SignedIn, IInv, Typed
<1>2. LogIn(t, u, token)
  BY DEF SignedIn
<1>3. n \in Nat /\ k \in Nat
  BY <1>1 DEF IInv, Typed
<1>4. Known(u) \in [name : Users \cup {None}, actions : SUBSET Private] /\ Known(u).name = u
  BY <1>1 DEF Known, IInv, Typed
<1>5. cookie' = token /\ token \in [name : Users, n : Nat] /\ token.name = u
  BY <1>1, <1>2, <1>3 DEF LogIn
<1> HIDE DEF u, n, k, token
<1>6. \/ meddled' = Tabs /\ UNCHANGED <<shown, user>> /\ user[t] # NoUser
      \/ /\ meddled' = Tabs \ {t}
         /\ user' = [user EXCEPT ![t] = Known(u)]
         /\ \E v : shown' = [shown EXCEPT ![t] = v]
  BY <1>2, LandGives DEF LogIn
<1>7. signing' \in [Tabs -> [Public -> Users \cup {None}]]
  BY <1>1 DEF IInv, Typed
<1>8. issued' \in [Users -> Nat] /\ held' \in [Users -> Nat]
  BY <1>1, <1>3 DEF IInv, Typed
<1>9. DOMAIN shown' = Tabs /\ \A x \in Tabs \ {t} : shown'[x] = shown[x] /\ user'[x] = user[x]
  BY <1>6 DEF IInv, Typed
<1>10. user' \in [Tabs -> [name : Users \cup {None}, actions : SUBSET Private]]
  BY <1>4, <1>6 DEF IInv, Typed
<1>11. Typed'
  BY <1>1, <1>5, <1>7, <1>8, <1>9, <1>10 DEF IInv, Typed
<1>12. WhileLoading'
  BY <1>1, <1>6, <1>9 DEF IInv, WhileLoading
<1>13. UpdatesHaveUser'
  <2>1. user'[t] = user[t] \/ user'[t] = Known(u)
    BY <1>6 DEF IInv, Typed
  <2> QED BY <1>1, <1>4, <1>9, <2>1 DEF IInv, UpdatesHaveUser
<1>14. ActsAsShown'
  <2>1. CASE meddled' = Tabs
    BY <2>1 DEF ActsAsShown
  <2>2. CASE meddled' = Tabs \ {t} /\ user' = [user EXCEPT ![t] = Known(u)]
    BY <2>2, <1>4, <1>5 DEF ActsAsShown, IInv, Typed
  <2> QED BY <1>6, <2>1, <2>2
<1> QED BY <1>11, <1>12, <1>13, <1>14 DEF IInv

\* Signing out takes the user with the cookie, or leaves every tab meddled with.
LEMMA LogOutPreserves ==
  ASSUME IInv, NEW t \in Tabs, LogOut(t), UNCHANGED panel
  PROVE  IInv'
<1>1. CASE user[t] = NoUser
  <2>1. /\ cookie' = NoToken /\ meddled' = Tabs
        /\ UNCHANGED <<issued, held, valid, registered, rights, editing, shown, user, loading, signing, events>>
    BY <1>1 DEF LogOut, panel
  <2>2. NoToken \in [name : Users \cup {None}, n : Nat]
    BY DEF NoToken
  <2>3. Typed'
    BY <2>1, <2>2 DEF IInv, Typed
  <2> QED BY <2>1, <2>3 DEF IInv, WhileLoading, UpdatesHaveUser, ActsAsShown
<1>2. CASE user[t] # NoUser
  <2>1. /\ cookie' = NoToken /\ Authenticate(t, NoToken, path[t])
        /\ meddled' = (meddled \cup Tabs) \ {t}
    BY <1>2 DEF LogOut
  <2>2. NoToken \in [name : Users \cup {None}, n : Nat]
    BY DEF NoToken
  <2>3. UNCHANGED <<issued, held, rights, registered, valid, editing>>
    BY DEF panel
  <2> QED BY <2>1, <2>2, <2>3, LoadPreserves
<1> QED BY <1>1, <1>2

\* An answer that does not sign the tab out changes nothing here.
LEMMA AnsweredPreserves ==
  ASSUME IInv, NEW t \in Tabs, Answered(t)
  PROVE  IInv'
<1>1. CASE ~ Unauthorized(request[t])
  BY <1>1 DEF Answered, panel, IInv, Typed, WhileLoading, UpdatesHaveUser, ActsAsShown
<1>2. CASE Unauthorized(request[t])
  BY <1>2, LogOutPreserves DEF Answered
<1> QED BY <1>1, <1>2

\* The tabs told of a project are those that show pages to the user.
LEMMA AddProjectPreserves ==
  ASSUME IInv, NEW y \in Tabs, AddProject(y)
  PROVE  IInv'
<1> DEFINE u == request[y].name
<1>1. /\ u \in Users
      /\ events' = [t \in Tabs |-> IF Inside(t) /\ user[t].name = u
                                  THEN Append(events[t], rights[u]) ELSE events[t]]
      /\ UNCHANGED <<cookie, issued, held, valid, registered, rights, editing, shown, user, loading, signing, meddled>>
  BY DEF AddProject, Passes, IInv, Typed
<1> HIDE DEF u
<1>2. Typed'
  <2>1. rights[u] \in SUBSET Private
    BY <1>1 DEF IInv, Typed
  <2>2. events' \in [Tabs -> Seq(SUBSET Private)]
    BY <1>1, <2>1 DEF IInv, Typed
  <2> QED BY <1>1, <2>2 DEF IInv, Typed
<1>3. u # None /\ Loading \notin Private
  BY <1>1, ConstantsAssumption DEF Paths
<1>4. \A t \in Tabs : events'[t] = events[t] \/ (shown[t] # Loading /\ user[t].name = u)
  BY <1>1, <1>3 DEF Inside
<1>5. WhileLoading'
  BY <1>1, <1>4 DEF IInv, WhileLoading
<1>6. UpdatesHaveUser'
  BY <1>1, <1>3, <1>4 DEF IInv, UpdatesHaveUser
<1> QED BY <1>1, <1>2, <1>5, <1>6 DEF IInv, ActsAsShown

\* What an administrator does reaches no tab.
LEMMA RightsPreserve ==
  ASSUME IInv,
         \/ \E u \in Users : EditRights(u)
         \/ \E actions \in SUBSET Private : UpdateUser(actions)
  PROVE  IInv'
<1>1. UNCHANGED <<cookie, issued, valid, registered, tabs>>
  BY DEF EditRights, UpdateUser
<1>2. /\ rights' \in [Users -> SUBSET Private] /\ held' \in [Users -> Nat]
      /\ editing' \in [name : Users, n : Nat] \cup {NoToken}
  <2>1. ASSUME NEW u \in Users, EditRights(u) PROVE <1>2!:
    BY <2>1 DEF EditRights, Token, IInv, Typed
  <2>2. ASSUME NEW actions \in SUBSET Private, UpdateUser(actions) PROVE <1>2!:
    BY <2>2 DEF UpdateUser, IInv, Typed
  <2> QED BY <2>1, <2>2
<1>3. Typed'
  BY <1>1, <1>2 DEF tabs, IInv, Typed
<1> QED BY <1>1, <1>3 DEF tabs, IInv, WhileLoading, UpdatesHaveUser, ActsAsShown

\* A token that expires was never more than a token.
LEMMA ExpirePreserves ==
  ASSUME IInv, NEW token \in valid, Expire(token)
  PROVE  IInv'
BY DEF Expire, tabs, IInv, Typed, WhileLoading, UpdatesHaveUser, ActsAsShown

\* An update finds a user, and leaves its name.
LEMMA SetUserPreserves ==
  ASSUME IInv, NEW t \in Tabs, SetUser(t)
  PROVE  IInv'
<1>1. /\ events[t] # <<>> /\ events' = [events EXCEPT ![t] = Tail(events[t])]
      /\ UNCHANGED <<cookie, panel, shown, loading, signing, meddled>>
  BY DEF SetUser, IInv, Typed
<1> DEFINE told == IF Inside(t) THEN Head(events[t]) ELSE user[t].actions
<1>2. told \in SUBSET Private /\ user' = [user EXCEPT ![t].actions = told]
  <2>1. events[t] \in Seq(SUBSET Private) /\ user[t].actions \in SUBSET Private
    BY DEF IInv, Typed
  <2>2. Head(events[t]) \in SUBSET Private
    BY <1>1, <2>1
  <2>3. user' = [user EXCEPT ![t].actions = told]
    BY DEF SetUser
  <2> QED BY <2>1, <2>2, <2>3
<1> HIDE DEF told
<1>3. user' \in [Tabs -> [name : Users \cup {None}, actions : SUBSET Private]]
  BY <1>2 DEF IInv, Typed
<1>4. events' \in [Tabs -> Seq(SUBSET Private)]
  BY <1>1 DEF IInv, Typed
<1>5. Typed'
  BY <1>1, <1>3, <1>4 DEF IInv, Typed, panel
<1>6. \A x \in Tabs : user'[x].name = user[x].name /\ (x # t => user'[x] = user[x] /\ events'[x] = events[x])
  BY <1>1, <1>2 DEF IInv, Typed
<1>7. WhileLoading'
  BY <1>1, <1>6 DEF IInv, WhileLoading
<1>8. UpdatesHaveUser'
  BY <1>1, <1>6 DEF IInv, UpdatesHaveUser
<1>9. user[t] # NoUser
  BY <1>1 DEF IInv, UpdatesHaveUser, NoUser
<1>10. ActsAsShown'
  BY <1>1, <1>6, <1>9 DEF IInv, ActsAsShown
<1> QED BY <1>5, <1>7, <1>8, <1>10 DEF IInv

LEMMA StepPreserves == IInv /\ [Next]_vars => IInv'
<1> SUFFICES ASSUME IInv, [Next]_vars PROVE IInv'
  OBVIOUS
<1>1. ASSUME NEW t \in Tabs, NEW p \in Paths, Visit(t, p) \/ Move(t, p) PROVE IInv'
  BY <1>1, VisitPreserves, MovePreserves
<1>2. ASSUME NEW t \in Tabs, NEW p \in Public, NEW u \in Users, Submit(t, p, u) PROVE IInv'
  BY <1>2, SubmitPreserves
<1>3. ASSUME NEW t \in Tabs, NEW p \in Public, SignedIn(t, p) \/ Refused(t, p) PROVE IInv'
  BY <1>3, SignedInPreserves, RefusedPreserves
<1>4. ASSUME NEW t \in Tabs, Authenticated(t) \/ Answered(t) \/ AddProject(t) \/ SetUser(t) PROVE IInv'
  BY <1>4, AuthenticatedPreserves, AnsweredPreserves, AddProjectPreserves, SetUserPreserves
<1>5. ASSUME NEW t \in Tabs, Exit(t) PROVE IInv'
  BY <1>5, LogOutPreserves DEF Exit
<1>6. ASSUME NEW t \in Tabs, Request(t) PROVE IInv'
  BY <1>6 DEF Request, panel, IInv, Typed, WhileLoading, UpdatesHaveUser, ActsAsShown
<1>7. CASE \/ \E u \in Users : EditRights(u)
           \/ \E actions \in SUBSET Private : UpdateUser(actions)
  BY <1>7, RightsPreserve
<1>8. ASSUME NEW token \in valid, Expire(token) PROVE IInv'
  BY <1>8, ExpirePreserves
<1>9. CASE UNCHANGED vars
  BY <1>9 DEF vars, panel, tabs, IInv, Typed, WhileLoading, UpdatesHaveUser, ActsAsShown
<1> QED BY <1>1, <1>2, <1>3, <1>4, <1>5, <1>6, <1>7, <1>8, <1>9 DEF Next

\* A tab's requests are made with the token of the user it shows, until another tab, or
\* a second signing in, meddles: EntryPoint.ts 70, 180-199; PlatformClient.ts 101.
THEOREM TabActsAsItsUser == Spec => []ActsAsShown
<1>1. IInv => ActsAsShown
  BY DEF IInv
<1> QED BY InitInv, StepPreserves, <1>1, PTL DEF Spec

-----------------------------------------------------------------------------
(* Where redirections lead, for a tab that knows no user and for one whose *)
(* user may see the default page: two redirections at most, and then a     *)
(* page.  The others are covered by their types alone.                     *)

UserType == [name : Users \cup {None}, actions : SUBSET Private]

\* A tab on its way.
WayType == [path : Paths, shown : Paths \cup {Blank}, referer : Private, inside : BOOLEAN]

LEMMA PathsAreApart ==
  /\ Blank \notin Paths /\ Loading \notin Paths /\ Blank # Loading
  /\ Paths = Public \cup Private /\ Public \cap Private = {} /\ "authorize" \in Public
  /\ Default \in Private /\ None \notin Users
BY ConstantsAssumption DEF Paths, Public, Blank, Loading

LEMMA PublicPathIsPrivate ==
  ASSUME NEW c, NEW u, NEW r \in Private
  PROVE  RouteToPublicPath(c, u, r) \in Private
BY PathsAreApart DEF RouteToPublicPath

LEMMA RedirectedIsTyped ==
  ASSUME NEW c, NEW u, NEW at \in WayType
  PROVE  Redirected(c, u, at) \in WayType
<1>1. /\ at.path \in Paths /\ at.shown \in Paths \cup {Blank} /\ at.referer \in Private
      /\ at.inside \in BOOLEAN
  BY DEF WayType
<1> DEFINE next == RouteToPublicPath(c, u, at.referer)
           no == FALSE
           back == [path |-> "authorize", shown |-> Blank, referer |-> at.path, inside |-> no]
<1>2. next \in Paths /\ no \in BOOLEAN
  BY <1>1, PublicPathIsPrivate, PathsAreApart
<1>3. \/ Redirected(c, u, at) = at
      \/ Redirected(c, u, at) = [at EXCEPT !.path = next, !.inside = no]
      \/ at.path \in Public /\ Redirected(c, u, at) = [at EXCEPT !.shown = at.path]
      \/ at.path \notin Public /\ Redirected(c, u, at) = [at EXCEPT !.shown = at.path, !.referer = at.path]
      \/ at.path \notin Public /\ Redirected(c, u, at) = back
  BY Zenon DEF Redirected
<1> HIDE DEF next, no
<1>4. at.path \notin Public => at.path \in Private
  BY <1>1, PathsAreApart
<1>5. at.path \notin Public => back \in WayType
  BY <1>1, <1>2, <1>4, PathsAreApart DEF WayType
<1> HIDE DEF back
<1> QED BY <1>1, <1>2, <1>3, <1>4, <1>5 DEF WayType

\* One redirection, case by case: nothing happens to a page that is shown,
LEMMA ShownStays ==
  ASSUME NEW c, NEW u, NEW at, at.shown # Blank
  PROVE  Redirected(c, u, at) = at
BY Zenon DEF Redirected

\* a public page sends a user who is known to the private page asked for, or the default,
LEMMA KnownIsSentIn ==
  ASSUME NEW c, NEW u, NEW at \in WayType, at.shown = Blank, at.path \in Public, Authorized(c, u)
  PROVE  /\ Redirected(c, u, at).path = RouteToPublicPath(c, u, at.referer)
         /\ Redirected(c, u, at).shown = Blank
<1> DEFINE next == RouteToPublicPath(c, u, at.referer)
           no == FALSE
<1>1. Redirected(c, u, at) = [at EXCEPT !.path = next, !.inside = no]
  BY Zenon DEF Redirected
<1> HIDE DEF next, no
<1>2. [at EXCEPT !.path = next, !.inside = no].path = next
      /\ [at EXCEPT !.path = next, !.inside = no].shown = at.shown
  BY DEF WayType
<1> QED BY <1>1, <1>2 DEF next

\* and shows to anyone else,
LEMMA UnknownStaysOut ==
  ASSUME NEW c, NEW u, NEW at \in WayType, at.shown = Blank, at.path \in Public, ~ Authorized(c, u)
  PROVE  /\ Redirected(c, u, at).shown = at.path
         /\ Redirected(c, u, at).referer = at.referer
<1>1. Redirected(c, u, at) = [at EXCEPT !.shown = at.path]
  BY Zenon DEF Redirected
<1> QED BY <1>1 DEF WayType

\* a private page shows to those who may see it,
LEMMA AllowedIsShown ==
  ASSUME NEW c, NEW u, NEW at \in WayType, at.shown = Blank, at.path \notin Public,
         RouteToPrivatePath(c, u, at.path, at.inside)
  PROVE  Redirected(c, u, at).shown = at.path
<1>1. Redirected(c, u, at) = [at EXCEPT !.shown = at.path, !.referer = at.path]
  BY Zenon DEF Redirected
<1> QED BY <1>1 DEF WayType

\* and sends the others to the first public page, which keeps it in mind.
LEMMA OthersAreSentOut ==
  ASSUME NEW c, NEW u, NEW at \in WayType, at.shown = Blank, at.path \notin Public,
         ~ RouteToPrivatePath(c, u, at.path, at.inside)
  PROVE  /\ Redirected(c, u, at).path = "authorize"
         /\ Redirected(c, u, at).shown = Blank
         /\ Redirected(c, u, at).referer = at.path
<1> DEFINE no == FALSE
           back == [path |-> "authorize", shown |-> Blank, referer |-> at.path, inside |-> no]
<1>1. Redirected(c, u, at) = back
  BY Zenon DEF Redirected
<1> HIDE DEF no
<1> QED BY <1>1

\* Where a tab ends that knows no user, or has no cookie: on a public page, with the
\* private page asked for in mind.
LEMMA StrangerIsRouted ==
  ASSUME NEW c, NEW u, NEW p \in Paths, NEW r \in Private, NEW i \in BOOLEAN, ~ Authorized(c, u)
  PROVE  /\ Routed(c, u, p, r, i).referer = IF p \in Private THEN p ELSE r
         /\ Routed(c, u, p, r, i).shown # Blank
<1> DEFINE start == [path |-> p, shown |-> Blank, referer |-> r, inside |-> i]
           first == Redirected(c, u, start)
           second == Redirected(c, u, first)
           third == Redirected(c, u, second)
<1>1. Routed(c, u, p, r, i) = Redirected(c, u, third)
  BY Zenon DEF Routed
<1>2. start \in WayType /\ start.path = p /\ start.shown = Blank /\ start.referer = r
  BY DEF WayType
<1> HIDE DEF start
<1>3. first \in WayType
  BY <1>2, RedirectedIsTyped
<1>4. CASE p \in Public
  <2>1. p # Blank /\ p \notin Private
    BY <1>4, PathsAreApart
  <2>2. first.shown = p /\ first.referer = r
    BY <1>2, <1>4, UnknownStaysOut
  <2> HIDE DEF first
  <2>3. second = first
    BY <2>1, <2>2, ShownStays
  <2>4. Redirected(c, u, third) = first
    BY <2>1, <2>2, <2>3, ShownStays
  <2> QED BY <1>1, <2>1, <2>2, <2>4
<1>5. CASE p \notin Public
  <2>1. p \in Private /\ "authorize" \in Public /\ "authorize" # Blank
    BY <1>5, PathsAreApart
  <2>2. ~ RouteToPrivatePath(c, u, start.path, start.inside)
    BY DEF RouteToPrivatePath, Privileged
  <2>3. first.path = "authorize" /\ first.shown = Blank /\ first.referer = p
    BY <1>2, <1>5, <2>2, OthersAreSentOut
  <2> HIDE DEF first
  <2>4. second.shown = "authorize" /\ second.referer = p
    BY <1>3, <2>1, <2>3, UnknownStaysOut
  <2> HIDE DEF second
  <2>5. third = second
    BY <2>1, <2>4, ShownStays
  <2>6. Redirected(c, u, third) = second
    BY <2>1, <2>4, <2>5, ShownStays
  <2> QED BY <1>1, <2>1, <2>4, <2>6
<1> QED BY <1>4, <1>5

\* Where a user ends who may see the default page: on the private page asked for, or on
\* the default.
LEMMA UserIsRouted ==
  ASSUME NEW c, NEW u \in UserType, NEW p \in Paths, NEW r \in Private, NEW i \in BOOLEAN,
         Authorized(c, u), Default \in u.actions
  PROVE  LET wish == IF p \in Private THEN p ELSE r
         IN  Routed(c, u, p, r, i).shown = IF wish \in u.actions THEN wish ELSE Default
<1> DEFINE start == [path |-> p, shown |-> Blank, referer |-> r, inside |-> i]
           first == Redirected(c, u, start)
           second == Redirected(c, u, first)
           third == Redirected(c, u, second)
           found(x) == IF x \in u.actions THEN x ELSE Default
<1>1. Routed(c, u, p, r, i) = Redirected(c, u, third)
  BY Zenon DEF Routed
<1>2. start \in WayType /\ start.path = p /\ start.shown = Blank /\ start.referer = r
  BY DEF WayType
<1> HIDE DEF start
<1>3. first \in WayType
  BY <1>2, RedirectedIsTyped
<1>4. second \in WayType
  BY <1>3, RedirectedIsTyped
<1>5. ASSUME NEW x, NEW j
      PROVE  RouteToPrivatePath(c, u, x, j) <=> x \in u.actions
  BY DEF RouteToPrivatePath, Privileged
<1>6. ASSUME NEW x
      PROVE  RouteToPublicPath(c, u, x) = found(x)
  BY DEF RouteToPublicPath, Privileged
<1>7. ASSUME NEW x \in Private
      PROVE  found(x) \in u.actions /\ found(x) \notin Public /\ found(x) # Blank
  <2>1. found(x) \in u.actions /\ u.actions \subseteq Private
    BY DEF UserType
  <2> QED BY <2>1, PathsAreApart
<1> HIDE DEF found
<1>8. CASE p \in Public
  <2>1. p \notin Private
    BY <1>8, PathsAreApart
  <2>2. first.path = found(r) /\ first.shown = Blank
    BY <1>2, <1>6, <1>8, KnownIsSentIn
  <2> HIDE DEF first
  <2>3. first.path \in u.actions /\ first.path \notin Public /\ found(r) # Blank
    BY <1>7, <2>2
  <2>4. RouteToPrivatePath(c, u, first.path, first.inside)
    BY <1>5, <2>3
  <2>5. second.shown = found(r)
    BY <1>3, <2>2, <2>3, <2>4, AllowedIsShown
  <2> HIDE DEF second
  <2>6. third = second
    BY <2>3, <2>5, ShownStays
  <2>7. Redirected(c, u, third) = second
    BY <2>3, <2>5, <2>6, ShownStays
  <2> QED BY <1>1, <2>1, <2>5, <2>7 DEF found
<1>9. CASE p \notin Public /\ p \in u.actions
  <2>1. p \in Private /\ p # Blank
    BY <1>9, PathsAreApart
  <2>2. RouteToPrivatePath(c, u, start.path, start.inside)
    BY <1>2, <1>5, <1>9
  <2>3. first.shown = p
    BY <1>2, <1>9, <2>2, AllowedIsShown
  <2> HIDE DEF first
  <2>4. second = first
    BY <2>1, <2>3, ShownStays
  <2>5. third = first
    BY <2>1, <2>3, <2>4, ShownStays
  <2>6. Redirected(c, u, third) = first
    BY <2>1, <2>3, <2>5, ShownStays
  <2> QED BY <1>1, <1>9, <2>1, <2>3, <2>6
<1>10. CASE p \notin Public /\ p \notin u.actions
  <2>1. p \in Private /\ "authorize" \in Public
    BY <1>10, PathsAreApart
  <2>2. found(p) = Default
    BY <1>10 DEF found
  <2>3. ~ RouteToPrivatePath(c, u, start.path, start.inside)
    BY <1>2, <1>5, <1>10
  <2>4. first.path = "authorize" /\ first.shown = Blank /\ first.referer = p
    BY <1>2, <1>10, <2>3, OthersAreSentOut
  <2> HIDE DEF first
  <2>5. second.path = Default /\ second.shown = Blank
    BY <1>3, <1>6, <2>1, <2>2, <2>4, KnownIsSentIn
  <2> HIDE DEF second
  <2>6. Default \notin Public /\ Default # Blank
    BY PathsAreApart
  <2>7. RouteToPrivatePath(c, u, second.path, second.inside)
    BY <1>5, <2>5
  <2>8. third.shown = Default
    BY <1>4, <2>5, <2>6, <2>7, AllowedIsShown
  <2> HIDE DEF third
  <2>9. Redirected(c, u, third) = third
    BY <2>6, <2>8, ShownStays
  <2> QED BY <1>1, <1>10, <2>1, <2>8, <2>9
<1> QED BY <1>8, <1>9, <1>10

\* The types of where a tab ends, whoever its user is.
LEMMA RoutedIsTyped ==
  ASSUME NEW c, NEW u, NEW p \in Paths, NEW r \in Private, NEW i \in BOOLEAN
  PROVE  /\ Routed(c, u, p, r, i).path \in Paths
         /\ Routed(c, u, p, r, i).shown \in Paths \cup {Blank}
         /\ Routed(c, u, p, r, i).referer \in Private
<1> DEFINE start == [path |-> p, shown |-> Blank, referer |-> r, inside |-> i]
<1>1. start \in WayType
  BY DEF WayType
<1>2. Routed(c, u, p, r, i) =
        Redirected(c, u, Redirected(c, u, Redirected(c, u, Redirected(c, u, start))))
  BY DEF Routed
<1> HIDE DEF start
<1>3. Routed(c, u, p, r, i) \in WayType
  BY <1>1, <1>2, RedirectedIsTyped
<1> QED BY <1>3 DEF WayType

-----------------------------------------------------------------------------
(* Redirections end, and lead back to what was asked for.  What a tab asks *)
(* for while nobody is signed in is what its router has in mind, so that   *)
(* whoever signs in is sent there.  A tab that is loading has put that out *)
(* of its mind: it is the path it loads at.                                *)

RouteTypes ==
  /\ path \in [Tabs -> Paths]
  /\ shown \in [Tabs -> Paths \cup {Loading, Blank}]
  /\ referer \in [Tabs -> Private]
  /\ asked \in [Tabs -> Private]

EndsUnlessBarred(t) == shown[t] = Blank => Default \notin user[t].actions

LoadsWhatIsAsked(t) ==
  loading[t] # NoToken =>
    referer[t] = Default /\ asked[t] = IF path[t] \in Private THEN path[t] ELSE Default

KeepsWhatIsAsked(t) == loading[t] = NoToken /\ user[t] = NoUser => referer[t] = asked[t]

Route(t) == EndsUnlessBarred(t) /\ LoadsWhatIsAsked(t) /\ KeepsWhatIsAsked(t)

RouteInv == RouteTypes /\ \A t \in Tabs : Route(t)

LEMMA InitRoute == Init => RouteInv
<1> SUFFICES ASSUME Init PROVE RouteInv
  OBVIOUS
<1>1. RouteTypes
  BY PathsAreApart DEF Init, RouteTypes
<1>2. ASSUME NEW t \in Tabs PROVE Route(t)
  <2>1. shown[t] = "authorize" /\ loading[t] = NoToken /\ referer[t] = Default /\ asked[t] = Default
    BY DEF Init
  <2> QED BY <2>1, PathsAreApart DEF Route, EndsUnlessBarred, LoadsWhatIsAsked, KeepsWhatIsAsked
<1> QED BY <1>1, <1>2 DEF RouteInv

\* A tab nothing happens to.
LEMMA RouteStays ==
  ASSUME NEW x \in Tabs, Route(x),
         shown'[x] = shown[x], user'[x] = user[x], loading'[x] = loading[x],
         path'[x] = path[x], referer'[x] = referer[x], asked'[x] = asked[x]
  PROVE  Route(x)'
BY DEF Route, EndsUnlessBarred, LoadsWhatIsAsked, KeepsWhatIsAsked, NoToken, NoUser

\* A step that concerns no route.
LEMMA RoutesStay ==
  ASSUME RouteInv, UNCHANGED <<path, shown, user, referer, loading, asked>>
  PROVE  RouteInv'
BY DEF RouteInv, RouteTypes, Route, EndsUnlessBarred, LoadsWhatIsAsked, KeepsWhatIsAsked, NoToken, NoUser

\* What a tab is that lands.
LEMMA LandLeads ==
  ASSUME Typed, RouteTypes,
         NEW t \in Tabs, NEW c, NEW u \in UserType, NEW p \in Paths, NEW r \in Private, NEW i \in BOOLEAN,
         Land(t, c, u, p, r, i)
  PROVE  LET wish == IF p \in Private THEN p ELSE r IN
         /\ path' \in [Tabs -> Paths]
         /\ shown' \in [Tabs -> Paths \cup {Loading, Blank}]
         /\ referer' \in [Tabs -> Private]
         /\ \A x \in Tabs \ {t} : /\ path'[x] = path[x] /\ shown'[x] = shown[x]
                                  /\ referer'[x] = referer[x] /\ user'[x] = user[x]
         /\ user'[t] = u
         /\ shown'[t] = Blank => Default \notin u.actions
         /\ ~ Authorized(c, u) => referer'[t] = wish
         /\ Authorized(c, u) /\ Default \in u.actions =>
              shown'[t] = IF wish \in u.actions THEN wish ELSE Default
<1> DEFINE end == Routed(c, u, p, r, i)
           wish == IF p \in Private THEN p ELSE r
<1>1. /\ path' = [path EXCEPT ![t] = end.path]
      /\ shown' = [shown EXCEPT ![t] = end.shown]
      /\ referer' = [referer EXCEPT ![t] = end.referer]
      /\ user' = [user EXCEPT ![t] = u]
  BY Zenon DEF Land
<1>2. end.path \in Paths /\ end.shown \in Paths \cup {Blank} /\ end.referer \in Private
  BY RoutedIsTyped
<1>3. ~ Authorized(c, u) => end.referer = wish /\ end.shown # Blank
  BY StrangerIsRouted
<1>4. Authorized(c, u) /\ Default \in u.actions =>
        end.shown = IF wish \in u.actions THEN wish ELSE Default
  BY UserIsRouted
<1>5. wish \in Private /\ wish # Blank /\ Default # Blank
  BY PathsAreApart
<1> HIDE DEF end, wish
<1>6. end.shown = Blank => Default \notin u.actions
  BY <1>3, <1>4, <1>5
<1>7. /\ path'[t] = end.path /\ shown'[t] = end.shown /\ referer'[t] = end.referer /\ user'[t] = u
      /\ \A x \in Tabs \ {t} : /\ path'[x] = path[x] /\ shown'[x] = shown[x]
                               /\ referer'[x] = referer[x] /\ user'[x] = user[x]
  BY <1>1 DEF Typed, RouteTypes
<1>8. /\ path' \in [Tabs -> Paths] /\ referer' \in [Tabs -> Private]
      /\ shown' \in [Tabs -> Paths \cup {Loading, Blank}]
  BY <1>1, <1>2 DEF RouteTypes
<1> QED BY <1>3, <1>4, <1>6, <1>7, <1>8 DEF wish

LEMMA NoUserIsTyped == NoUser \in UserType /\ Default \notin NoUser.actions /\ ~ Authorized(NoToken, NoUser)
BY DEF NoUser, UserType, Authorized

\* A tab that loads asks for the path it loads at.
LEMMA LoadRoutes ==
  ASSUME IInv, RouteInv, NEW t \in Tabs, NEW c, NEW p \in Paths, Authenticate(t, c, p)
  PROVE  RouteInv'
<1> DEFINE wish == IF p \in Private THEN p ELSE Default
           no == FALSE
<1>1. loading' = [loading EXCEPT ![t] = c] /\ asked' = [asked EXCEPT ![t] = wish]
  BY DEF Authenticate
<1>2. wish \in Private
  BY PathsAreApart
<1>3. /\ path' \in [Tabs -> Paths]
      /\ shown' \in [Tabs -> Paths \cup {Loading, Blank}]
      /\ referer' \in [Tabs -> Private]
      /\ \A x \in Tabs \ {t} : /\ path'[x] = path[x] /\ shown'[x] = shown[x]
                               /\ referer'[x] = referer[x] /\ user'[x] = user[x]
      /\ user'[t] = NoUser
      /\ c = NoToken => referer'[t] = wish
      /\ c # NoToken => referer'[t] = Default /\ path'[t] = p
  <2>1. CASE c = NoToken
    <3>1. Land(t, c, NoUser, p, Default, no) /\ no \in BOOLEAN
      BY <2>1, Zenon DEF Authenticate
    <3>2. ~ Authorized(c, NoUser)
      BY DEF Authorized
    <3> HIDE DEF no
    <3> QED BY <2>1, <3>1, <3>2, NoUserIsTyped, PathsAreApart, LandLeads DEF IInv, RouteInv
  <2>2. CASE c # NoToken
    <3>1. /\ path' = [path EXCEPT ![t] = p] /\ shown' = [shown EXCEPT ![t] = Loading]
          /\ referer' = [referer EXCEPT ![t] = Default] /\ user' = [user EXCEPT ![t] = NoUser]
      BY <2>2 DEF Authenticate
    <3> QED BY <2>2, <3>1, PathsAreApart DEF IInv, Typed, RouteInv, RouteTypes
  <2> QED BY <2>1, <2>2
<1> HIDE DEF wish, no
<1>4. /\ loading'[t] = c /\ asked'[t] = wish
      /\ \A x \in Tabs \ {t} : loading'[x] = loading[x] /\ asked'[x] = asked[x]
      /\ asked' \in [Tabs -> Private]
  BY <1>1, <1>2 DEF IInv, Typed, RouteInv, RouteTypes
<1>5. RouteTypes'
  BY <1>3, <1>4 DEF RouteTypes
<1>6. ASSUME NEW x \in Tabs \ {t} PROVE Route(x)'
  BY <1>3, <1>4, RouteStays DEF RouteInv
<1>7. Route(t)'
  <2>1. EndsUnlessBarred(t)'
    BY <1>3, NoUserIsTyped DEF EndsUnlessBarred
  <2>2. LoadsWhatIsAsked(t)'
    BY <1>3, <1>4 DEF LoadsWhatIsAsked, NoToken, wish
  <2>3. KeepsWhatIsAsked(t)'
    BY <1>3, <1>4 DEF KeepsWhatIsAsked, NoToken
  <2> QED BY <2>1, <2>2, <2>3 DEF Route
<1> QED BY <1>5, <1>6, <1>7 DEF RouteInv

\* What whoever comes to know its user in a step shows.
Returns(t) ==
  user[t] = NoUser /\ user'[t] # NoUser /\ cookie' # NoToken /\ Default \in user'[t].actions
    => shown'[t] = IF asked[t] \in user'[t].actions THEN asked[t] ELSE Default

AllReturn == \A t \in Tabs : Returns(t)

\* A tab that lands and is loading no more, in a step that asks for nothing: what it
\* lands for is what was asked for, as long as it has no user.
LEMMA LandRoutes ==
  ASSUME IInv, RouteInv,
         NEW t \in Tabs, NEW u \in UserType, NEW p \in Paths, NEW r \in Private, NEW c,
         NEW i \in BOOLEAN, Land(t, c, u, p, r, i),
         c = cookie', loading'[t] = NoToken, asked' = asked,
         \A x \in Tabs \ {t} : loading'[x] = loading[x],
         asked[t] = IF p \in Private THEN p ELSE r
  PROVE  RouteInv' /\ AllReturn
<1> DEFINE wish == IF p \in Private THEN p ELSE r
<1>1. /\ path' \in [Tabs -> Paths]
      /\ shown' \in [Tabs -> Paths \cup {Loading, Blank}]
      /\ referer' \in [Tabs -> Private]
      /\ \A x \in Tabs \ {t} : /\ path'[x] = path[x] /\ shown'[x] = shown[x]
                               /\ referer'[x] = referer[x] /\ user'[x] = user[x]
      /\ user'[t] = u
      /\ shown'[t] = Blank => Default \notin u.actions
      /\ ~ Authorized(c, u) => referer'[t] = wish
      /\ Authorized(c, u) /\ Default \in u.actions =>
           shown'[t] = IF wish \in u.actions THEN wish ELSE Default
  BY LandLeads DEF IInv, RouteInv
<1>2. asked[t] = wish /\ asked' = asked
  OBVIOUS
<1> HIDE DEF wish
<1>3. RouteTypes'
  BY <1>1, <1>2 DEF RouteInv, RouteTypes
<1>4. ASSUME NEW x \in Tabs \ {t} PROVE Route(x)'
  BY <1>1, <1>2, RouteStays DEF RouteInv
<1>5. Route(t)'
  <2>1. EndsUnlessBarred(t)'
    BY <1>1 DEF EndsUnlessBarred
  <2>2. LoadsWhatIsAsked(t)'
    BY DEF LoadsWhatIsAsked, NoToken
  <2>3. KeepsWhatIsAsked(t)'
    BY <1>1, <1>2 DEF KeepsWhatIsAsked, Authorized, NoUser
  <2> QED BY <2>1, <2>2, <2>3 DEF Route
<1>6. ASSUME NEW x \in Tabs \ {t} PROVE Returns(x)
  BY <1>1 DEF Returns
<1>7. Returns(t)
  BY <1>1, <1>2 DEF Returns, Authorized
<1> QED BY <1>3, <1>4, <1>5, <1>6, <1>7 DEF RouteInv, AllReturn

\* A step that leaves the users of the tabs alone returns nobody.
LEMMA UsersStay ==
  ASSUME \A t \in Tabs : user[t] = NoUser => user'[t] = NoUser
  PROVE  AllReturn
BY DEF AllReturn, Returns

LEMMA VisitRoutes ==
  ASSUME IInv, RouteInv, NEW t \in Tabs, NEW p \in Paths, Visit(t, p)
  PROVE  RouteInv' /\ AllReturn
<1>1. Authenticate(t, cookie, p)
  BY DEF Visit
<1>2. user' = [user EXCEPT ![t] = NoUser]
  BY <1>1, AuthenticateGives DEF IInv
<1>3. AllReturn
  BY <1>2, UsersStay DEF IInv, Typed
<1> QED BY <1>1, <1>3, LoadRoutes

\* A tab that is not loading: its user stays, and what it asks for is kept in mind if it
\* has none.
LEMMA MoveRoutes ==
  ASSUME IInv, RouteInv, NEW t \in Tabs, NEW p \in Paths, Move(t, p)
  PROVE  RouteInv' /\ AllReturn
<1> DEFINE wish == IF p \in Private THEN p ELSE referer[t]
           inside == Inside(t)
<1>1. /\ Land(t, cookie, user[t], p, referer[t], inside) /\ inside \in BOOLEAN
      /\ asked' = [asked EXCEPT ![t] = IF p \in Private THEN p ELSE asked[t]]
      /\ loading' = loading /\ shown[t] # Loading
  BY DEF Move, Asks, Inside
<1>2. loading[t] = NoToken /\ user[t] \in UserType /\ referer[t] \in Private /\ asked[t] \in Private
  BY <1>1 DEF IInv, WhileLoading, Typed, UserType, RouteInv, RouteTypes
<1> HIDE DEF inside
<1>3. /\ path' \in [Tabs -> Paths]
      /\ shown' \in [Tabs -> Paths \cup {Loading, Blank}]
      /\ referer' \in [Tabs -> Private]
      /\ \A x \in Tabs \ {t} : /\ path'[x] = path[x] /\ shown'[x] = shown[x]
                               /\ referer'[x] = referer[x] /\ user'[x] = user[x]
      /\ user'[t] = user[t]
      /\ shown'[t] = Blank => Default \notin user[t].actions
      /\ ~ Authorized(cookie, user[t]) => referer'[t] = wish
  BY <1>1, <1>2, LandLeads DEF IInv, RouteInv
<1>4. /\ asked' \in [Tabs -> Private]
      /\ \A x \in Tabs \ {t} : asked'[x] = asked[x]
      /\ asked'[t] = IF p \in Private THEN p ELSE asked[t]
  BY <1>1, <1>2 DEF RouteInv, RouteTypes
<1>5. RouteTypes'
  BY <1>3, <1>4 DEF RouteTypes
<1>6. ASSUME NEW x \in Tabs \ {t} PROVE Route(x)'
  BY <1>1, <1>3, <1>4, RouteStays DEF RouteInv
<1>7. Route(t)'
  <2>1. EndsUnlessBarred(t)'
    BY <1>3 DEF EndsUnlessBarred
  <2>2. LoadsWhatIsAsked(t)'
    BY <1>1, <1>2 DEF LoadsWhatIsAsked, NoToken
  <2>3. KeepsWhatIsAsked(t)'
    <3>1. SUFFICES ASSUME user'[t] = NoUser PROVE referer'[t] = asked'[t]
      BY DEF KeepsWhatIsAsked, NoUser
    <3>2. user[t] = NoUser /\ ~ Authorized(cookie, user[t])
      BY <1>3, <3>1 DEF Authorized
    <3>3. referer[t] = asked[t]
      BY <1>2, <3>2 DEF RouteInv, Route, KeepsWhatIsAsked
    <3> QED BY <1>3, <1>4, <3>2, <3>3
  <2> QED BY <2>1, <2>2, <2>3 DEF Route
<1>8. AllReturn
  BY <1>3, UsersStay
<1> QED BY <1>5, <1>6, <1>7, <1>8 DEF RouteInv

LEMMA AuthenticatedRoutes ==
  ASSUME IInv, RouteInv, NEW t \in Tabs, Authenticated(t)
  PROVE  RouteInv' /\ AllReturn
<1> DEFINE u == IF Passes(loading[t]) THEN Known(loading[t].name) ELSE NoUser
           no == FALSE
<1>1. /\ loading[t] # NoToken /\ loading' = [loading EXCEPT ![t] = NoToken]
      /\ UNCHANGED <<cookie, asked>>
      /\ Land(t, cookie, u, path[t], referer[t], no) /\ no \in BOOLEAN
  BY DEF Authenticated
<1>2. u \in UserType
  BY DEF Passes, Known, NoUser, UserType, IInv, Typed
<1> HIDE DEF u, no
<1>3. asked[t] = IF path[t] \in Private THEN path[t] ELSE referer[t]
  BY <1>1 DEF RouteInv, Route, LoadsWhatIsAsked
<1>4. path[t] \in Paths /\ referer[t] \in Private
  BY DEF RouteInv, RouteTypes
<1>5. loading'[t] = NoToken /\ \A x \in Tabs \ {t} : loading'[x] = loading[x]
  BY <1>1 DEF IInv, Typed
<1> QED BY <1>1, <1>2, <1>3, <1>4, <1>5, LandRoutes

LEMMA SignedInRoutes ==
  ASSUME IInv, RouteInv, NEW t \in Tabs, NEW p \in Public, SignedIn(t, p)
  PROVE  RouteInv' /\ AllReturn
<1> DEFINE u == signing[t][p]
           token == [name |-> u, n |-> IF Token(u) \in valid THEN held[u] ELSE issued[u] + 1]
           no == FALSE
<1>1. /\ u \in Users /\ loading[t] = NoToken /\ LogIn(t, u, token)
      /\ UNCHANGED <<loading, asked>>
  BY DEF SignedIn, IInv, Typed
<1>2. Known(u) \in UserType
  BY <1>1 DEF Known, UserType, IInv, Typed
<1> HIDE DEF u, token
<1>3. CASE user[t] # NoUser
  <2>1. UNCHANGED <<path, shown, referer, user>>
    BY <1>1, <1>3 DEF LogIn
  <2> QED BY <1>1, <2>1, RoutesStay, UsersStay
<1>4. CASE user[t] = NoUser
  <2>1. cookie' = token /\ Land(t, token, Known(u), referer[t], referer[t], no) /\ no \in BOOLEAN
    BY <1>1, <1>4 DEF LogIn
  <2> HIDE DEF no
  <2>2. referer[t] = asked[t] /\ referer[t] \in Private /\ referer[t] \in Paths
    BY <1>1, <1>4, PathsAreApart DEF RouteInv, RouteTypes, Route, KeepsWhatIsAsked
  <2> DEFINE mind == referer[t]
  <2>3. Land(t, token, Known(u), mind, mind, no) /\ mind \in Private /\ mind \in Paths
        /\ asked[t] = IF mind \in Private THEN mind ELSE mind
    BY <2>1, <2>2
  <2> HIDE DEF mind
  <2>4. loading'[t] = NoToken /\ \A x \in Tabs \ {t} : loading'[x] = loading[x]
    BY <1>1
  <2> QED BY <1>1, <1>2, <2>1, <2>3, <2>4, LandRoutes
<1> QED BY <1>3, <1>4

LEMMA LogOutRoutes ==
  ASSUME IInv, RouteInv, NEW t \in Tabs, LogOut(t)
  PROVE  RouteInv' /\ AllReturn
<1>1. CASE user[t] = NoUser
  BY <1>1, RoutesStay, UsersStay DEF LogOut
<1>2. CASE user[t] # NoUser
  <2>1. Authenticate(t, NoToken, path[t]) /\ path[t] \in Paths
    BY <1>2 DEF LogOut, RouteInv, RouteTypes
  <2>2. user' = [user EXCEPT ![t] = NoUser]
    BY <2>1, AuthenticateGives DEF IInv
  <2>3. AllReturn
    BY <2>2, UsersStay DEF IInv, Typed
  <2> QED BY <2>1, <2>3, LoadRoutes
<1> QED BY <1>1, <1>2

\* An update changes the rights of a user who is shown a page.
LEMMA SetUserRoutes ==
  ASSUME IInv, RouteInv, NEW t \in Tabs, SetUser(t)
  PROVE  RouteInv' /\ AllReturn
<1> DEFINE told == IF Inside(t) THEN Head(events[t]) ELSE user[t].actions
<1>1. /\ user' = [user EXCEPT ![t].actions = told]
      /\ UNCHANGED <<path, shown, referer, loading, asked>>
      /\ events[t] # <<>>
  BY DEF SetUser
<1>2. user[t].name # None /\ user[t] \in UserType
  BY <1>1 DEF IInv, UpdatesHaveUser, Typed, UserType
<1>3. user'[t].name # None /\ \A x \in Tabs \ {t} : user'[x] = user[x]
  BY <1>1, <1>2 DEF IInv, Typed, UserType
<1>4. user'[t] # NoUser /\ user[t] # NoUser
  BY <1>2, <1>3 DEF NoUser
<1>5. shown[t] = Blank => user'[t].actions = user[t].actions
  BY <1>1, <1>2, PathsAreApart DEF Inside, IInv, Typed, UserType
<1>6. Route(t)'
  BY <1>1, <1>4, <1>5 DEF RouteInv, Route, EndsUnlessBarred, LoadsWhatIsAsked, KeepsWhatIsAsked, NoToken, NoUser
<1>7. ASSUME NEW x \in Tabs \ {t} PROVE Route(x)'
  BY <1>1, <1>3, RouteStays DEF RouteInv
<1>8. RouteTypes'
  BY <1>1 DEF RouteInv, RouteTypes
<1>9. AllReturn
  BY <1>3, <1>4, UsersStay
<1> QED BY <1>6, <1>7, <1>8, <1>9 DEF RouteInv

LEMMA StepRoutes == IInv /\ RouteInv /\ [Next]_vars => RouteInv' /\ AllReturn
<1> SUFFICES ASSUME IInv, RouteInv, [Next]_vars PROVE RouteInv' /\ AllReturn
  OBVIOUS
<1>1. ASSUME NEW t \in Tabs, NEW p \in Paths, Visit(t, p) \/ Move(t, p) PROVE RouteInv' /\ AllReturn
  BY <1>1, VisitRoutes, MoveRoutes
<1>2. ASSUME NEW t \in Tabs, NEW p \in Public, NEW u \in Users, Submit(t, p, u) PROVE RouteInv' /\ AllReturn
  BY <1>2, RoutesStay, UsersStay DEF Submit
<1>3. ASSUME NEW t \in Tabs, NEW p \in Public, SignedIn(t, p) PROVE RouteInv' /\ AllReturn
  BY <1>3, SignedInRoutes
<1>4. ASSUME NEW t \in Tabs, NEW p \in Public, Refused(t, p) PROVE RouteInv' /\ AllReturn
  BY <1>4, RoutesStay, UsersStay DEF Refused
<1>5. ASSUME NEW t \in Tabs, Authenticated(t) \/ SetUser(t) \/ Exit(t) PROVE RouteInv' /\ AllReturn
  BY <1>5, AuthenticatedRoutes, SetUserRoutes, LogOutRoutes DEF Exit
<1>6. ASSUME NEW t \in Tabs, Request(t) PROVE RouteInv' /\ AllReturn
  BY <1>6, RoutesStay, UsersStay DEF Request
<1>7. ASSUME NEW t \in Tabs, Answered(t) PROVE RouteInv' /\ AllReturn
  <2>1. CASE ~ Unauthorized(request[t])
    BY <1>7, <2>1, RoutesStay, UsersStay DEF Answered
  <2>2. CASE Unauthorized(request[t])
    BY <1>7, <2>2, LogOutRoutes DEF Answered
  <2> QED BY <2>1, <2>2
<1>8. ASSUME NEW t \in Tabs, AddProject(t) PROVE RouteInv' /\ AllReturn
  BY <1>8, RoutesStay, UsersStay DEF AddProject
<1>9. CASE \/ \E u \in Users : EditRights(u)
           \/ \E actions \in SUBSET Private : UpdateUser(actions)
           \/ \E token \in valid : Expire(token)
  BY <1>9, RoutesStay, UsersStay DEF EditRights, UpdateUser, Expire, tabs
<1>10. CASE UNCHANGED vars
  BY <1>10, RoutesStay, UsersStay DEF vars, tabs
<1> QED BY <1>1, <1>2, <1>3, <1>4, <1>5, <1>6, <1>7, <1>8, <1>9, <1>10 DEF Next

\* No tab is given up by React for redirections that do not end, whatever the user types
\* and whatever becomes of its rights, unless the user may not see the default page:
\* EntryPoint.ts 79-85, 169.
THEOREM RedirectionsComeToAnEnd == Spec => []RedirectionsEnd
<1>1. RouteInv => RedirectionsEnd
  BY DEF RouteInv, Route, EndsUnlessBarred, RedirectionsEnd
<1> QED BY InitInv, StepPreserves, InitRoute, StepRoutes, <1>1, PTL DEF Spec

\* Whoever signs in, or turns out to be signed in, is brought to the page last asked for,
\* however many redirections and other forms came between: EntryPoint.ts 79-85, 180-188.
THEOREM SignedInIsBroughtBack == Spec => BackToAsked
<1> DEFINE Returned == \A t \in Tabs :
             user[t] = NoUser /\ user'[t] # NoUser /\ cookie' # NoToken
               /\ Default \in user'[t].actions
               => shown'[t] = IF asked[t] \in user'[t].actions THEN asked[t] ELSE Default
<1>1. IInv /\ RouteInv /\ [Next]_vars => [Returned]_vars
  BY StepRoutes DEF AllReturn, Returns
<1>2. BackToAsked <=> [][Returned]_vars
  BY DEF BackToAsked
<1> QED BY InitInv, StepPreserves, InitRoute, StepRoutes, <1>1, <1>2, PTL DEF Spec

-----------------------------------------------------------------------------
(* Contexts: a page is drawn with what it needs.                           *)

\* What the context of the page can be, whatever happens.
Requests == UNION {Parts[l] : l \in Loaders}
LoadType ==
  {x \in [loader : Loaders, left : SUBSET Requests, copy : 1..MaxCopies, counted : BOOLEAN] :
     x.left \subseteq Parts[x.loader]}
ContextType ==
  [state : States, counter : Nat, actions : Nat, paused : BOOLEAN, loads : SUBSET LoadType,
   deleting : Nat, loaded : [Loaders -> BOOLEAN], filled : [Loaders -> SUBSET Requests],
   recent : [Loaders -> BOOLEAN], screen : Screens, disturbed : BOOLEAN]

\* A loader that has all its data, and one that has since the last click.
Has(c, l) == c.loaded[l] /\ c.filled[l] = Parts[l]
Done(c) == {l \in Loaders : Has(c, l) /\ c.recent[l]}

\* A page has been drawn with all its data, and loads nothing again but its own.
ScreenIsFilled(c) == c.screen = "page" => \A l \in Loaders \ OwnLoader(page) : Has(c, l)

NewCountsNothing(c) == c.state = "CREATED" => c.counter = 0 /\ c.actions = 0

\* The rest holds unless loads have overlapped.  There is one load of a loader,
OneEach(c) == \A x, y \in c.loads : x.loader = y.loader => x = y

\* of a loader that is not done and lacks what the load has left; those that are not
\* counted are the page's own,
UnderWay(c) ==
  \A x \in c.loads :
    /\ ~ c.loaded[x.loader] /\ c.recent[x.loader]
    /\ c.filled[x.loader] = Parts[x.loader] \ x.left
    /\ x.counted => c.state = "LOADING"
    /\ ~ x.counted => x.loader \in OwnLoader(page)

\* no more is counted than is done while there is something to count,
CountsDone(c) ==
  /\ c.state = "LOADING" => c.actions = Cardinality(Loaders) /\ c.counter < c.actions
  /\ \A x \in c.loads : x.counted => (\A y \in c.loads : y.counted) /\ c.counter <= Cardinality(Done(c))

\* and in the end all are done, but those that load again.
AllDone(c) ==
  c.state = "INITIALIZED" =>
    /\ c.counter = c.actions
    /\ \A l \in Loaders : l \in Done(c) \/ \E x \in c.loads : x.loader = l

Sound(c) == OneEach(c) /\ UnderWay(c) /\ CountsDone(c) /\ AllDone(c)

Good(c) ==
  /\ c \in ContextType
  /\ c.screen # "early"
  /\ ScreenIsFilled(c)
  /\ NewCountsNothing(c)
  /\ ~ c.disturbed => Sound(c)

LEMMA LoadersAreFinite == ASSUME page \in Pages PROVE IsFiniteSet(Loaders)
<1> DEFINE all == {"resources", "applications", "assemblies", "modules", "projects", "configurations"}
<1>1. Loaders \subseteq all
  BY ContextAssumption DEF Loaders, Contexts
<1>2. IsFiniteSet({}) 
  BY FS_EmptySet
<1>3. IsFiniteSet({} \cup {"resources"})
  BY <1>2, FS_AddElement
<1>4. IsFiniteSet(({} \cup {"resources"}) \cup {"applications"})
  BY <1>3, FS_AddElement
<1>5. IsFiniteSet((({} \cup {"resources"}) \cup {"applications"}) \cup {"assemblies"})
  BY <1>4, FS_AddElement
<1>6. IsFiniteSet(((({} \cup {"resources"}) \cup {"applications"}) \cup {"assemblies"}) \cup {"modules"})
  BY <1>5, FS_AddElement
<1>7. IsFiniteSet((((({} \cup {"resources"}) \cup {"applications"}) \cup {"assemblies"}) \cup {"modules"}) \cup {"projects"})
  BY <1>6, FS_AddElement
<1>8. IsFiniteSet(((((({} \cup {"resources"}) \cup {"applications"}) \cup {"assemblies"}) \cup {"modules"}) \cup {"projects"}) \cup {"configurations"})
  BY <1>7, FS_AddElement
<1>9. all = ((((({} \cup {"resources"}) \cup {"applications"}) \cup {"assemblies"}) \cup {"modules"}) \cup {"projects"}) \cup {"configurations"}
  OBVIOUS
<1> QED BY <1>1, <1>8, <1>9, FS_Subset

\* What a load asks for is among the requests.
LEMMA PartsAreRequests == \A l \in Loaders : Parts[l] \in SUBSET Requests
BY DEF Requests

LEMMA DoneIsCounted ==
  ASSUME page \in Pages, NEW c
  PROVE  /\ IsFiniteSet(Done(c))
         /\ Cardinality(Done(c)) \in Nat
         /\ Cardinality(Loaders) \in Nat
         /\ Cardinality(Done(c)) <= Cardinality(Loaders)
         /\ Cardinality(Done(c)) = Cardinality(Loaders) => Done(c) = Loaders
<1>1. Done(c) \in SUBSET Loaders
  BY DEF Done
<1> QED BY <1>1, LoadersAreFinite, FS_Subset, FS_CardinalityType

\* What Sound looks at.
LEMMA SoundDepends ==
  ASSUME NEW c, NEW d, Sound(c),
         d.state = c.state, d.counter = c.counter, d.actions = c.actions, d.loads = c.loads,
         d.loaded = c.loaded, d.filled = c.filled, d.recent = c.recent
  PROVE  Sound(d)
BY DEF Sound, OneEach, UnderWay, CountsDone, AllDone, Done, Has

-----------------------------------------------------------------------------
(* What the operators give, field by field. *)

\* Loads have begun: each of the loaders forgets what it has.
HasBegun(c, S, b, d) ==
  /\ d \in ContextType
  /\ d.state = c.state /\ d.counter = c.counter /\ d.actions = c.actions
  /\ d.screen = c.screen /\ d.disturbed = c.disturbed
  /\ \A l \in Loaders \ S : d.loaded[l] = c.loaded[l] /\ d.filled[l] = c.filled[l]
                            /\ d.recent[l] = c.recent[l]
  /\ \A l \in S : ~ d.loaded[l] /\ d.filled[l] = {} /\ d.recent[l]
  /\ c.loads = {} =>
       /\ \A x \in d.loads : x.loader \in S /\ x.left = Parts[x.loader] /\ x.copy = 1 /\ x.counted = b
       /\ \A l \in S : \E x \in d.loads : x.loader = l

LEMMA BegunGives ==
  ASSUME NEW c \in ContextType, NEW S \in SUBSET Loaders, NEW b \in BOOLEAN
  PROVE  HasBegun(c, S, b, Begun(c, S, b))
<1> DEFINE added == UNION {{[loader |-> l, left |-> Parts[l], copy |-> k, counted |-> b] :
                              k \in FreeCopy(c, l)} : l \in S}
           loaded == [l \in Loaders |-> c.loaded[l] /\ l \notin S]
           filled == [l \in Loaders |-> IF l \in S THEN {} ELSE c.filled[l]]
           recent == [l \in Loaders |-> c.recent[l] \/ l \in S]
           loads == c.loads \cup added
           d == Begun(c, S, b)
<1>1. d = [c EXCEPT !.loads = loads, !.loaded = loaded, !.filled = filled, !.recent = recent]
  BY Zenon DEF Begun
<1>2. loaded \in [Loaders -> BOOLEAN] /\ filled \in [Loaders -> SUBSET Requests]
      /\ recent \in [Loaders -> BOOLEAN]
  BY DEF ContextType
<1>3. added \in SUBSET LoadType
  <2>1. ASSUME NEW l \in S, NEW k \in FreeCopy(c, l)
        PROVE  [loader |-> l, left |-> Parts[l], copy |-> k, counted |-> b] \in LoadType
    <3>1. k \in 1..MaxCopies
      BY DEF FreeCopy
    <3> QED BY <3>1, PartsAreRequests DEF LoadType
  <2> QED BY <2>1
<1>4. c.loads = {} =>
        /\ \A x \in added : x.loader \in S /\ x.left = Parts[x.loader] /\ x.copy = 1 /\ x.counted = b
        /\ \A l \in S : \E x \in added : x.loader = l
  <2> SUFFICES ASSUME c.loads = {}
               PROVE  /\ \A x \in added : x.loader \in S /\ x.left = Parts[x.loader] /\ x.copy = 1 /\ x.counted = b
                      /\ \A l \in S : \E x \in added : x.loader = l
    OBVIOUS
  <2>1. ASSUME NEW l \in S PROVE FreeCopy(c, l) = {1}
    <3>1. Copies(c, l) = {}
      BY DEF Copies
    <3>2. MaxCopies \in Nat /\ MaxCopies >= 1
      BY ContextAssumption
    <3> QED BY <3>1, <3>2 DEF FreeCopy
  <2>2. ASSUME NEW l \in S
        PROVE  [loader |-> l, left |-> Parts[l], copy |-> 1, counted |-> b] \in added
    BY <2>1
  <2>3. ASSUME NEW x \in added
        PROVE  \E l \in S : x = [loader |-> l, left |-> Parts[l], copy |-> 1, counted |-> b]
    BY <2>1
  <2> HIDE DEF added
  <2>4. ASSUME NEW x \in added
        PROVE  x.loader \in S /\ x.left = Parts[x.loader] /\ x.copy = 1 /\ x.counted = b
    <3>1. PICK l \in S : x = [loader |-> l, left |-> Parts[l], copy |-> 1, counted |-> b]
      BY <2>3
    <3> QED BY <3>1
  <2>5. ASSUME NEW l \in S PROVE \E x \in added : x.loader = l
    <3> DEFINE x == [loader |-> l, left |-> Parts[l], copy |-> 1, counted |-> b]
    <3>1. x \in added /\ x.loader = l
      BY <2>2
    <3> HIDE DEF x
    <3> QED BY <3>1
  <2> QED BY <2>4, <2>5
<1>5. loads \in SUBSET LoadType
  BY <1>3 DEF ContextType
<1>6. /\ \A l \in Loaders \ S : loaded[l] = c.loaded[l] /\ filled[l] = c.filled[l] /\ recent[l] = c.recent[l]
      /\ \A l \in S : ~ loaded[l] /\ filled[l] = {} /\ recent[l]
  BY DEF ContextType
<1>7. c.loads = {} => loads = added
  OBVIOUS
<1> HIDE DEF d, loads, loaded, filled, recent, added
<1>8. /\ d \in ContextType
      /\ d.state = c.state /\ d.counter = c.counter /\ d.actions = c.actions
      /\ d.screen = c.screen /\ d.disturbed = c.disturbed
      /\ d.loads = loads /\ d.loaded = loaded /\ d.filled = filled /\ d.recent = recent
  BY <1>1, <1>2, <1>5 DEF ContextType
<1> HIDE DEF d
<1>9. HasBegun(c, S, b, d)
  BY <1>4, <1>6, <1>7, <1>8 DEF HasBegun
<1> QED BY <1>9 DEF d

LEMMA FilledGives ==
  ASSUME NEW c \in ContextType, NEW x \in c.loads, NEW part \in x.left
  PROVE  LET d == Filled(c, x, part) IN
         /\ d \in ContextType
         /\ d.state = c.state /\ d.counter = c.counter /\ d.actions = c.actions
         /\ d.screen = c.screen /\ d.disturbed = c.disturbed
         /\ \A l \in Loaders \ {x.loader} : d.loaded[l] = c.loaded[l] /\ d.filled[l] = c.filled[l]
         /\ d.recent = c.recent
         /\ d.loaded[x.loader] <=> c.loaded[x.loader] \/ x.left = {part}
         /\ d.filled[x.loader] = c.filled[x.loader] \cup {part}
         /\ part \in Parts[x.loader]
         /\ x.left = {part} => d.loads = c.loads \ {x}
         /\ x.left # {part} =>
              \E y \in LoadType : /\ d.loads = (c.loads \ {x}) \cup {y}
                                  /\ y.loader = x.loader /\ y.left = x.left \ {part}
                                  /\ y.counted = x.counted
<1> DEFINE left == x.left \ {part}
           y == [x EXCEPT !.left = left]
           next == IF left = {} THEN {} ELSE {y}
           loads == (c.loads \ {x}) \cup next
           filled == [c.filled EXCEPT ![x.loader] = c.filled[x.loader] \cup {part}]
           loaded == [c.loaded EXCEPT ![x.loader] = c.loaded[x.loader] \/ left = {}]
           d == Filled(c, x, part)
<1>1. d = [c EXCEPT !.loads = loads, !.filled = filled, !.loaded = loaded]
  BY Zenon DEF Filled
<1>2. x \in LoadType
  BY DEF ContextType
<1>3. x.loader \in Loaders /\ part \in Requests /\ left \in SUBSET Requests
  BY <1>2 DEF LoadType
<1>4. filled \in [Loaders -> SUBSET Requests] /\ loaded \in [Loaders -> BOOLEAN]
  BY <1>3 DEF ContextType
<1>12. x.left \subseteq Parts[x.loader]
  BY <1>2 DEF LoadType
<1> HIDE DEF left
<1>5. y \in LoadType /\ y.loader = x.loader /\ y.left = left /\ y.counted = x.counted
  <2>1. x \in [loader : Loaders, left : SUBSET Requests, copy : 1..MaxCopies, counted : BOOLEAN]
    BY <1>2 DEF LoadType
  <2>2. y \in [loader : Loaders, left : SUBSET Requests, copy : 1..MaxCopies, counted : BOOLEAN]
        /\ y.loader = x.loader /\ y.left = left /\ y.counted = x.counted
    BY <1>3, <2>1
  <2>3. left \subseteq Parts[x.loader]
    BY <1>2 DEF LoadType, left
  <2> HIDE DEF y
  <2> QED BY <2>2, <2>3 DEF LoadType
<1>6. loads \in SUBSET LoadType
  BY <1>5 DEF ContextType
<1>7. /\ \A l \in Loaders \ {x.loader} : loaded[l] = c.loaded[l] /\ filled[l] = c.filled[l]
      /\ loaded[x.loader] <=> c.loaded[x.loader] \/ left = {}
      /\ filled[x.loader] = c.filled[x.loader] \cup {part}
  BY <1>3 DEF ContextType
<1>8. /\ left = {} => loads = c.loads \ {x}
      /\ left # {} => loads = (c.loads \ {x}) \cup {y}
  OBVIOUS
<1>9. left = {} <=> x.left = {part}
  BY DEF left
<1> HIDE DEF d, loads, loaded, filled, y, next
<1>10. /\ d \in ContextType
       /\ d.state = c.state /\ d.counter = c.counter /\ d.actions = c.actions
       /\ d.screen = c.screen /\ d.disturbed = c.disturbed
       /\ d.loads = loads /\ d.loaded = loaded /\ d.filled = filled /\ d.recent = c.recent
  BY <1>1, <1>4, <1>6 DEF ContextType
<1>11. left = x.left \ {part}
  BY DEF left
<1> QED BY <1>5, <1>7, <1>8, <1>9, <1>10, <1>11, <1>12 DEF d

LEMMA DrawnGives ==
  ASSUME NEW c \in ContextType
  PROVE  LET d == Drawn(c) IN
         /\ d \in ContextType
         /\ d.state = c.state /\ d.counter = c.counter /\ d.actions = c.actions
         /\ d.disturbed = c.disturbed /\ d.loads = c.loads
         /\ d.loaded = c.loaded /\ d.filled = c.filled /\ d.recent = c.recent
         /\ d.screen = "page" => Complete(c)
         /\ d.screen = "early" => c.state = "INITIALIZED" /\ ~ Complete(c) /\ ~ c.disturbed
<1> DEFINE screen == IF c.state # "INITIALIZED" THEN "loader"
                     ELSE IF Complete(c) THEN "page"
                     ELSE IF c.disturbed THEN "spoiled" ELSE "early"
           d == Drawn(c)
<1>1. d = [c EXCEPT !.screen = screen]
  BY Zenon DEF Drawn
<1>2. /\ screen \in Screens
      /\ screen = "page" => Complete(c)
      /\ screen = "early" => c.state = "INITIALIZED" /\ ~ Complete(c) /\ ~ c.disturbed
  BY DEF Screens
<1> HIDE DEF d, screen
<1>3. /\ d \in ContextType
      /\ d.state = c.state /\ d.counter = c.counter /\ d.actions = c.actions
      /\ d.disturbed = c.disturbed /\ d.loads = c.loads
      /\ d.loaded = c.loaded /\ d.filled = c.filled /\ d.recent = c.recent /\ d.screen = screen
  BY <1>1, <1>2 DEF ContextType
<1> QED BY <1>2, <1>3 DEF d

\* A context that has nothing under way is ready to draw once its synchronizer has
\* started.
LEMMA RenderedIsGood ==
  ASSUME page \in Pages, NEW c, Good(c),
         ~ c.disturbed => c.loads = {} /\ c.counter \in {0, c.actions}
  PROVE  Good(Rendered(c))
<1> DEFINE p == Prepared(c)
           s == Started(p)
           d == Drawn(s)
<1>1. c \in ContextType /\ (~ c.disturbed => Sound(c))
  BY DEF Good
<1>2. /\ p \in ContextType /\ p.disturbed = c.disturbed /\ p.loads = c.loads
      /\ p.counter = c.counter
      /\ p.loaded = c.loaded /\ p.filled = c.filled /\ p.recent = c.recent
      /\ c.state = "CREATED" => p.state = "LOADING" /\ p.actions = Cardinality(Loaders) /\ p.counter = 0
      /\ c.state # "CREATED" => p.state = c.state /\ p.actions = c.actions
      /\ p.state # "CREATED"
  <2>1. CASE c.state # "CREATED"
    <3>1. p = c
      BY <2>1 DEF Prepared
    <3> QED BY <1>1, <2>1, <3>1
  <2>2. CASE c.state = "CREATED"
    <3> DEFINE n == c.actions + Cardinality(Loaders)
    <3>1. n = Cardinality(Loaders) /\ n \in Nat /\ c.counter = 0
      BY <1>1, <2>2, DoneIsCounted DEF Good, NewCountsNothing
    <3>2. p = [c EXCEPT !.state = "LOADING", !.actions = n]
      BY <2>2, Zenon DEF Prepared
    <3> HIDE DEF p, n
    <3> QED BY <1>1, <2>2, <3>1, <3>2 DEF ContextType, States
  <2> QED BY <2>1, <2>2
<1> HIDE DEF p
<1>3. /\ s \in ContextType /\ s.disturbed = c.disturbed /\ s.state # "CREATED"
      /\ ~ s.disturbed => Sound(s) /\ (s.state = "INITIALIZED" => Complete(s))
  <2>1. CASE p.counter = p.actions
    <3>1. s = [p EXCEPT !.state = "INITIALIZED"]
      BY <2>1, Zenon DEF Started
    <3> HIDE DEF s
    <3>2. /\ s \in ContextType /\ s.disturbed = c.disturbed /\ s.state = "INITIALIZED"
          /\ s.loads = c.loads /\ s.counter = p.counter /\ s.actions = p.actions
          /\ s.loaded = c.loaded /\ s.filled = c.filled /\ s.recent = c.recent
      BY <1>2, <3>1 DEF ContextType, States
    <3>3. SUFFICES ASSUME ~ c.disturbed PROVE Sound(s) /\ Complete(s)
      BY <3>2
    <3>4. c.loads = {} /\ Sound(c)
      BY <1>1, <3>3
    <3>5. \A l \in Loaders : l \in Done(s)
      <4>1. CASE c.state = "CREATED"
        <5>1. Cardinality(Loaders) = 0
          BY <1>2, <2>1, <4>1
        <5> QED BY <5>1, LoadersAreFinite, FS_EmptySet
      <4>2. CASE c.state = "LOADING"
        BY <1>1, <1>2, <2>1, <3>4, <4>2, DoneIsCounted DEF Sound, CountsDone, ContextType
      <4>3. CASE c.state = "INITIALIZED"
        BY <3>2, <3>4, <4>3 DEF Sound, AllDone, Done, Has
      <4> QED BY <1>1, <4>1, <4>2, <4>3 DEF ContextType, States
    <3>6. Complete(s)
      BY <3>5 DEF Complete, Done, Has
    <3>7. Sound(s)
      BY <2>1, <3>2, <3>4, <3>5 DEF Sound, OneEach, UnderWay, CountsDone, AllDone
    <3> QED BY <3>6, <3>7
  <2>2. CASE p.counter # p.actions /\ p.actions = 0
    <3> DEFINE yes == TRUE
    <3>1. s = [p EXCEPT !.paused = yes] /\ yes \in BOOLEAN
      BY <2>2, Zenon DEF Started
    <3> HIDE DEF s, yes
    <3>2. s \in ContextType /\ s.disturbed = c.disturbed /\ s.state = p.state
      BY <1>2, <3>1 DEF ContextType
    <3>3. c.disturbed
      <4> SUFFICES ASSUME ~ c.disturbed PROVE FALSE
        OBVIOUS
      <4>1. Sound(c) /\ c.state \in States /\ c.counter \in Nat
        BY <1>1 DEF ContextType
      <4> QED BY <1>2, <2>2, <4>1 DEF Sound, CountsDone, AllDone, States
    <3> QED BY <1>2, <3>2, <3>3
  <2>3. CASE p.counter # p.actions /\ p.actions # 0
    <3> DEFINE yes == TRUE
               q == [p EXCEPT !.paused = yes]
    <3>1. s = Begun(q, Loaders, yes) /\ yes \in BOOLEAN
      BY <2>3, Zenon DEF Started
    <3> HIDE DEF s, yes
    <3>2. /\ q \in ContextType /\ q.disturbed = c.disturbed /\ q.state = p.state /\ q.loads = c.loads
          /\ q.counter = p.counter /\ q.actions = p.actions
      BY <1>2, <3>1 DEF ContextType
    <3> HIDE DEF q
    <3>3. /\ s \in ContextType
          /\ s.state = p.state /\ s.counter = p.counter /\ s.actions = p.actions
          /\ s.disturbed = c.disturbed
          /\ \A l \in Loaders : ~ s.loaded[l] /\ s.filled[l] = {} /\ s.recent[l]
          /\ c.loads = {} =>
               /\ \A x \in s.loads : x.loader \in Loaders /\ x.left = Parts[x.loader] /\ x.copy = 1 /\ x.counted = yes
               /\ \A l \in Loaders : \E x \in s.loads : x.loader = l
      <4> DEFINE all == Loaders
      <4>1. all \in SUBSET Loaders /\ s = Begun(q, all, yes)
        BY <3>1
      <4> HIDE DEF all
      <4>2. HasBegun(q, all, yes, s)
        BY <3>1, <3>2, <4>1, BegunGives, Zenon
      <4> USE DEF all
      <4> QED BY <3>2, <4>2 DEF HasBegun
    <3>4. SUFFICES ASSUME ~ c.disturbed PROVE Sound(s) /\ s.state # "INITIALIZED"
      BY <1>2, <3>3
    <3>5. c.loads = {} /\ Sound(c) /\ c.counter \in {0, c.actions}
      BY <1>1, <3>4
    <3>6. p.state = "LOADING" /\ p.actions = Cardinality(Loaders) /\ p.counter = 0
      BY <1>1, <1>2, <2>3, <3>5 DEF Sound, CountsDone, AllDone, ContextType, States
    <3>7. \A x \in s.loads : x.loader \in Loaders /\ x.left = Parts[x.loader] /\ x.copy = 1 /\ x.counted
      BY <3>3, <3>5 DEF yes
    <3>8. OneEach(s)
      <4> SUFFICES ASSUME NEW x \in s.loads, NEW y \in s.loads, x.loader = y.loader PROVE x = y
        BY DEF OneEach
      <4>1. x \in LoadType /\ y \in LoadType
        BY <3>3 DEF ContextType
      <4>2. x.left = y.left /\ x.copy = y.copy /\ x.counted = y.counted
        BY <3>3, <3>5
      <4> QED BY <4>1, <4>2 DEF LoadType
    <3>9. UnderWay(s)
      BY <3>3, <3>6, <3>7 DEF UnderWay
    <3>10. CountsDone(s)
      <4>1. Cardinality(Done(s)) \in Nat /\ Cardinality(Loaders) \in Nat
        BY DoneIsCounted
      <4> QED BY <2>3, <3>3, <3>6, <3>7, <4>1 DEF CountsDone
    <3>11. AllDone(s)
      BY <3>3, <3>6 DEF AllDone
    <3> QED BY <3>3, <3>6, <3>8, <3>9, <3>10, <3>11 DEF Sound
  <2> QED BY <2>1, <2>2, <2>3
<1> HIDE DEF s
<1>4. /\ d \in ContextType
      /\ d.state = s.state /\ d.counter = s.counter /\ d.actions = s.actions
      /\ d.disturbed = s.disturbed /\ d.loads = s.loads
      /\ d.loaded = s.loaded /\ d.filled = s.filled /\ d.recent = s.recent
      /\ d.screen = "page" => Complete(s)
      /\ d.screen = "early" => s.state = "INITIALIZED" /\ ~ Complete(s) /\ ~ s.disturbed
  BY <1>3, DrawnGives
<1>5. Rendered(c) = d
  BY DEF Rendered, s, p
<1> HIDE DEF d
<1>6. ScreenIsFilled(d)
  BY <1>4 DEF ScreenIsFilled, Complete, Has
<1>7. d.screen # "early"
  BY <1>3, <1>4
<1>8. ~ d.disturbed => Sound(d)
  BY <1>3, <1>4, SoundDepends
<1> QED BY <1>3, <1>4, <1>5, <1>6, <1>7, <1>8 DEF Good, NewCountsNothing

\* What a context looks like from outside may change: what it has loaded does not.
LEMMA GoodDepends ==
  ASSUME NEW c, NEW d, Good(c), d \in ContextType,
         d.state = c.state, d.counter = c.counter, d.actions = c.actions, d.loads = c.loads,
         d.loaded = c.loaded, d.filled = c.filled, d.recent = c.recent,
         d.screen \in {c.screen, "none"}, c.disturbed => d.disturbed
  PROVE  Good(d)
<1>1. ~ d.disturbed => Sound(d)
  BY SoundDepends DEF Good
<1>2. ScreenIsFilled(d)
  BY DEF Good, ScreenIsFilled, Has
<1> QED BY <1>1, <1>2 DEF Good, NewCountsNothing

LEMMA OwnLoaderIsOne ==
  ASSUME page \in Pages
  PROVE  OwnLoader(page) \in SUBSET Loaders /\ \A l, m \in OwnLoader(page) : l = m
BY ContextAssumption DEF OwnLoader, Reloads, Loaders, Contexts

-----------------------------------------------------------------------------
(* Answers. *)

\* One more loader is done when the last request of a load is answered.
LEMMA FilledIsGood ==
  ASSUME page \in Pages, NEW c, Good(c), NEW x \in c.loads, NEW part \in x.left
  PROVE  LET d == Filled(c, x, part) IN
         /\ Good(d)
         /\ x.left = {part} /\ ~ c.disturbed =>
              x.loader \in Done(d) /\ x.loader \notin Done(c) /\ Done(c) \subseteq Done(d)
<1> DEFINE d == Filled(c, x, part)
<1>1. c \in ContextType /\ x \in LoadType /\ x.loader \in Loaders
  BY DEF Good, ContextType, LoadType
<1>2. /\ d \in ContextType
      /\ d.state = c.state /\ d.counter = c.counter /\ d.actions = c.actions
      /\ d.screen = c.screen /\ d.disturbed = c.disturbed
      /\ \A l \in Loaders \ {x.loader} : d.loaded[l] = c.loaded[l] /\ d.filled[l] = c.filled[l]
      /\ d.recent = c.recent
      /\ d.loaded[x.loader] <=> c.loaded[x.loader] \/ x.left = {part}
      /\ d.filled[x.loader] = c.filled[x.loader] \cup {part}
      /\ part \in Parts[x.loader]
      /\ x.left = {part} => d.loads = c.loads \ {x}
  BY <1>1, FilledGives
<1>3. x.left # {part} =>
        \E y \in LoadType : /\ d.loads = (c.loads \ {x}) \cup {y}
                            /\ y.loader = x.loader /\ y.left = x.left \ {part}
                            /\ y.counted = x.counted
  BY <1>1, FilledGives
<1> HIDE DEF d
<1>4. ScreenIsFilled(d)
  <2> SUFFICES ASSUME d.screen = "page", NEW l \in Loaders \ OwnLoader(page)
               PROVE  Has(d, l)
    BY DEF ScreenIsFilled
  <2>1. c.loaded[l] /\ c.filled[l] = Parts[l]
    BY <1>2 DEF Good, ScreenIsFilled, Has
  <2>2. CASE l # x.loader
    BY <1>2, <2>1, <2>2 DEF Has
  <2>3. CASE l = x.loader
    <3>1. d.loaded[l]
      BY <1>2, <2>1, <2>3
    <3>2. d.filled[l] = Parts[l]
      BY <1>2, <2>1, <2>3
    <3> QED BY <3>1, <3>2 DEF Has
  <2> QED BY <2>2, <2>3
<1>5. Good(c)
  OBVIOUS
<1>6. ASSUME ~ c.disturbed
      PROVE  Sound(d) /\ (x.left = {part} =>
               x.loader \in Done(d) /\ x.loader \notin Done(c) /\ Done(c) \subseteq Done(d))
  <2>1. /\ OneEach(c) /\ UnderWay(c) /\ CountsDone(c) /\ AllDone(c)
        /\ c.loads \in SUBSET LoadType
    BY <1>1, <1>5, <1>6 DEF Good, Sound, ContextType
  <2>2. /\ ~ c.loaded[x.loader] /\ c.recent[x.loader]
        /\ c.filled[x.loader] = Parts[x.loader] \ x.left
        /\ x.counted => c.state = "LOADING"
        /\ ~ x.counted => x.loader \in OwnLoader(page)
        /\ \A z \in c.loads : z.loader = x.loader => z = x
    BY <2>1 DEF UnderWay, OneEach
  <2>3. x.loader \notin Done(c) /\ Done(c) \subseteq Done(d)
    <3>1. x.loader \notin Done(c)
      BY <2>2 DEF Done, Has
    <3> QED BY <1>2, <3>1 DEF Done, Has
  <2>4. Cardinality(Done(c)) <= Cardinality(Done(d)) /\ Cardinality(Done(c)) \in Nat
        /\ Cardinality(Done(d)) \in Nat
    BY <2>3, DoneIsCounted, FS_Subset
  <2>5. CASE x.left = {part}
    <3>1. d.loads = c.loads \ {x}
      BY <1>2, <2>5
    <3>2. x.loader \in Done(d)
      <4>1. d.loaded[x.loader]
        BY <1>2, <2>5
      <4>2. d.filled[x.loader] = Parts[x.loader]
        BY <1>2, <2>2, <2>5
      <4>3. d.recent[x.loader]
        BY <1>2, <2>2
      <4> QED BY <1>1, <4>1, <4>2, <4>3 DEF Done, Has
    <3>3. OneEach(d)
      BY <2>1, <3>1 DEF OneEach
    <3>4. UnderWay(d)
      <4> SUFFICES ASSUME NEW z \in d.loads
                   PROVE  /\ ~ d.loaded[z.loader] /\ d.recent[z.loader]
                          /\ d.filled[z.loader] = Parts[z.loader] \ z.left
                          /\ z.counted => d.state = "LOADING"
                          /\ ~ z.counted => z.loader \in OwnLoader(page)
        BY DEF UnderWay
      <4>1. z \in c.loads /\ z.loader # x.loader /\ z.loader \in Loaders
        BY <2>1, <2>2, <3>1 DEF LoadType
      <4> QED BY <1>2, <2>1, <4>1 DEF UnderWay
    <3>5. CountsDone(d)
      BY <1>1, <1>2, <2>1, <2>4, <3>1 DEF CountsDone, ContextType
    <3>6. AllDone(d)
      BY <1>2, <2>1, <2>3, <3>1, <3>2 DEF AllDone
    <3> QED BY <2>3, <3>2, <3>3, <3>4, <3>5, <3>6 DEF Sound
  <2>6. CASE x.left # {part}
    <3>1. PICK y \in LoadType : /\ d.loads = (c.loads \ {x}) \cup {y}
                                /\ y.loader = x.loader /\ y.left = x.left \ {part}
                                /\ y.counted = x.counted
      BY <1>3, <2>6
    <3>2. \A z \in d.loads : z = y \/ (z \in c.loads /\ z.loader # x.loader /\ z.loader \in Loaders)
      BY <2>1, <2>2, <3>1 DEF LoadType
    <3>3. OneEach(d)
      BY <2>1, <3>1, <3>2 DEF OneEach
    <3>4. UnderWay(d)
      <4> SUFFICES ASSUME NEW z \in d.loads
                   PROVE  /\ ~ d.loaded[z.loader] /\ d.recent[z.loader]
                          /\ d.filled[z.loader] = Parts[z.loader] \ z.left
                          /\ z.counted => d.state = "LOADING"
                          /\ ~ z.counted => z.loader \in OwnLoader(page)
        BY DEF UnderWay
      <4>1. CASE z # y
        BY <1>2, <2>1, <3>2, <4>1 DEF UnderWay
      <4>2. CASE z = y
        BY <1>2, <2>2, <2>6, <3>1, <4>2
      <4> QED BY <4>1, <4>2
    <3>5. CountsDone(d)
      <4>1. \A z \in d.loads : \E w \in c.loads : w.counted = z.counted
        BY <3>1, <3>2
      <4>2. \A z \in c.loads : z.counted => (\A w \in c.loads : w.counted) /\ c.counter <= Cardinality(Done(c))
        BY <2>1 DEF CountsDone
      <4>3. \A z \in d.loads : z.counted => (\A w \in d.loads : w.counted) /\ c.counter <= Cardinality(Done(c))
        BY <3>1, <3>2, <4>2
      <4> QED BY <1>1, <1>2, <2>1, <2>4, <4>3 DEF CountsDone, ContextType
    <3>6. AllDone(d)
      BY <1>2, <2>1, <2>3, <3>1 DEF AllDone
    <3> QED BY <2>6, <3>3, <3>4, <3>5, <3>6 DEF Sound
  <2> QED BY <2>5, <2>6
<1> QED BY <1>2, <1>4, <1>5, <1>6 DEF Good, NewCountsNothing, d

LEMMA RedrawnIsGood ==
  ASSUME page \in Pages, NEW c, Good(c),
         ~ c.disturbed => \E l \in OwnLoader(page) : Has(c, l)
  PROVE  Good(Redrawn(c))
<1> DEFINE all == \A l \in Loaders : c.loaded[l] /\ c.filled[l] = Parts[l]
           screen == IF all THEN "page"
                     ELSE IF c.disturbed \/ c.screen = "spoiled" THEN "spoiled" ELSE "early"
           d == [c EXCEPT !.screen = screen]
<1>1. CASE c.screen \in {"none", "loader"}
  BY <1>1 DEF Redrawn
<1>2. CASE c.screen \notin {"none", "loader"}
  <2>1. Redrawn(c) = d
    BY <1>2, Zenon DEF Redrawn
  <2>2. c \in ContextType /\ c.screen \in {"page", "spoiled"}
    BY <1>2 DEF Good, ContextType, Screens
  <2>3. screen # "early"
    <3>1. SUFFICES ASSUME ~ c.disturbed, c.screen = "page" PROVE all
      BY <2>2
    <3>2. \A l \in Loaders : Has(c, l)
      BY <3>1, OwnLoaderIsOne DEF Good, ScreenIsFilled
    <3> QED BY <3>2 DEF Has
  <2>4. screen \in Screens /\ (screen = "page" => \A l \in Loaders : Has(c, l))
    BY DEF Screens, Has
  <2> HIDE DEF screen, all
  <2>5. /\ d \in ContextType /\ d.screen = screen
        /\ d.state = c.state /\ d.counter = c.counter /\ d.actions = c.actions
        /\ d.loads = c.loads /\ d.loaded = c.loaded /\ d.filled = c.filled /\ d.recent = c.recent
        /\ d.disturbed = c.disturbed
    BY <2>2, <2>4 DEF ContextType
  <2> HIDE DEF d
  <2>6. ~ d.disturbed => Sound(d)
    BY <2>5, SoundDepends DEF Good
  <2>7. ScreenIsFilled(d)
    BY <2>4, <2>5 DEF ScreenIsFilled, Has
  <2> QED BY <2>1, <2>3, <2>5, <2>6, <2>7 DEF Good, NewCountsNothing
<1> QED BY <1>1, <1>2

LEMMA ContinuedIsGood ==
  ASSUME page \in Pages, NEW c, Good(c),
         ~ c.disturbed => c.loads = {} /\ c.counter \in {0, c.actions}
  PROVE  Good(Continued(c))
<1> DEFINE no == FALSE
           d == [c EXCEPT !.paused = no]
<1>1. /\ ~ c.paused => Continued(c) = c
      /\ c.paused => Continued(c) = IF c.screen = "none" THEN d ELSE Rendered(d)
      /\ no \in BOOLEAN
  BY Zenon DEF Continued
<1> HIDE DEF no
<1>2. /\ d \in ContextType
      /\ d.state = c.state /\ d.counter = c.counter /\ d.actions = c.actions
      /\ d.loads = c.loads /\ d.loaded = c.loaded /\ d.filled = c.filled /\ d.recent = c.recent
      /\ d.disturbed = c.disturbed /\ d.screen = c.screen
  BY <1>1 DEF Good, ContextType
<1> HIDE DEF d
<1>3. Good(d)
  BY <1>2, GoodDepends
<1>4. Good(Rendered(d))
  BY <1>2, <1>3, RenderedIsGood
<1> QED BY <1>1, <1>3, <1>4

\* A load that is counted is done.
LEMMA ProcessedIsGood ==
  ASSUME page \in Pages, NEW c, Good(c),
         ~ c.disturbed => c.state = "LOADING" /\ c.counter < Cardinality(Done(c))
  PROVE  Good(Processed(c))
<1> DEFINE n == IF c.counter > c.actions THEN c.counter ELSE c.counter + 1
           d == Counted(c)
           e == [d EXCEPT !.state = "INITIALIZED"]
<1>1. d = [c EXCEPT !.counter = n]
  BY Zenon DEF Counted
<1>3. c \in ContextType /\ n \in Nat /\ c.counter \in Nat /\ c.actions \in Nat
  BY DEF Good, ContextType
<1>4. ~ c.disturbed => /\ Sound(c) /\ n = c.counter + 1 /\ n <= c.actions
                       /\ c.actions = Cardinality(Loaders) /\ c.state = "LOADING"
                       /\ n <= Cardinality(Done(c)) /\ Cardinality(Done(c)) \in Nat
  BY <1>3, DoneIsCounted DEF Good, Sound, CountsDone
<1> HIDE DEF n, d
<1>5. /\ d \in ContextType /\ d.counter = n
      /\ d.state = c.state /\ d.actions = c.actions /\ d.screen = c.screen
      /\ d.loads = c.loads /\ d.loaded = c.loaded /\ d.filled = c.filled /\ d.recent = c.recent
      /\ d.disturbed = c.disturbed
  BY <1>1, <1>3 DEF ContextType
<1>6. Done(d) = Done(c)
  BY <1>5 DEF Done, Has
<1>7. CASE d.counter < d.actions
  <2>1. Processed(c) = d
    BY <1>7 DEF Processed, d
  <2>2. NewCountsNothing(d)
    BY <1>3, <1>5, <1>7 DEF Good, NewCountsNothing
  <2>3. ScreenIsFilled(d)
    BY <1>5 DEF Good, ScreenIsFilled, Has
  <2>4. ASSUME ~ d.disturbed PROVE Sound(d)
    <3>1. OneEach(d) /\ UnderWay(d)
      BY <1>4, <1>5, <2>4 DEF Sound, OneEach, UnderWay
    <3>2. CountsDone(d)
      BY <1>4, <1>5, <1>6, <1>7, <2>4 DEF Sound, CountsDone
    <3>3. AllDone(d)
      BY <1>4, <1>5, <2>4 DEF AllDone
    <3> QED BY <3>1, <3>2, <3>3 DEF Sound
  <2> QED BY <1>5, <2>1, <2>2, <2>3, <2>4 DEF Good
<1>8. CASE ~ d.counter < d.actions
  <2>1. Processed(c) = Continued(e)
    BY <1>8 DEF Processed, d
  <2>2. /\ e \in ContextType /\ e.state = "INITIALIZED" /\ e.counter = n
        /\ e.actions = c.actions /\ e.screen = c.screen
        /\ e.loads = c.loads /\ e.loaded = c.loaded /\ e.filled = c.filled /\ e.recent = c.recent
        /\ e.disturbed = c.disturbed
    BY <1>5 DEF ContextType, States
  <2> HIDE DEF e
  <2>3. ASSUME ~ c.disturbed PROVE n = c.actions /\ Done(c) = Loaders /\ c.loads = {}
    <3>1. n = c.actions
      BY <1>3, <1>4, <1>5, <1>8, <2>3
    <3>2. Done(c) = Loaders
      BY <1>4, <2>3, <3>1, DoneIsCounted
    <3>3. c.loads = {}
      <4> SUFFICES ASSUME NEW x \in c.loads PROVE FALSE
        OBVIOUS
      <4>1. x.loader \in Loaders /\ ~ c.loaded[x.loader]
        BY <1>3, <1>4, <2>3 DEF ContextType, LoadType, Sound, UnderWay
      <4> QED BY <3>2, <4>1 DEF Done, Has
    <3> QED BY <3>1, <3>2, <3>3
  <2>4. ASSUME ~ e.disturbed PROVE Sound(e)
    <3>1. e.loads = {} /\ e.counter = e.actions /\ Done(c) = Loaders
      BY <2>2, <2>3, <2>4
    <3>2. Done(e) = Loaders
      BY <2>2, <3>1 DEF Done, Has
    <3> QED BY <2>2, <3>1, <3>2 DEF Sound, OneEach, UnderWay, CountsDone, AllDone
  <2>5. ScreenIsFilled(e)
    BY <2>2 DEF Good, ScreenIsFilled, Has
  <2>6. Good(e)
    BY <2>2, <2>4, <2>5 DEF Good, NewCountsNothing
  <2> QED BY <2>1, <2>2, <2>3, <2>6, ContinuedIsGood
<1> QED BY <1>7, <1>8

-----------------------------------------------------------------------------
(* Steps. *)

ContextInv == page \in Pages /\ Good(context)

LEMMA InitContext == ContextInit => ContextInv
<1> SUFFICES ASSUME ContextInit PROVE ContextInv
  OBVIOUS
<1>1. page \in Pages /\ context = FreshContext
  BY DEF ContextInit
<1>2. /\ context \in ContextType
      /\ context.state = "CREATED" /\ context.counter = 0 /\ context.actions = 0
      /\ context.loads = {} /\ context.screen = "none"
  BY <1>1 DEF FreshContext, ContextType, States, Screens
<1>3. Sound(context)
  BY <1>2 DEF Sound, OneEach, UnderWay, CountsDone, AllDone
<1> QED BY <1>1, <1>2, <1>3 DEF ContextInv, Good, ScreenIsFilled, NewCountsNothing

\* A page that loads its own data again.
LEMMA ReloadIsGood ==
  ASSUME page \in Pages, NEW c, Good(c)
  PROVE  Good(Reload(c))
<1> DEFINE no == FALSE
           own == OwnLoader(page)
           overlap == c.disturbed \/ c.loads # {}
           b == [c EXCEPT !.disturbed = overlap]
           d == Begun(b, own, no)
<1>1. Reload(c) = d /\ no \in BOOLEAN /\ own \in SUBSET Loaders
  BY OwnLoaderIsOne, Zenon DEF Reload
<1>2. overlap \in BOOLEAN /\ (overlap <=> c.disturbed \/ c.loads # {}) /\ c \in ContextType
  BY DEF Good, ContextType
<1>3. no <=> FALSE
  OBVIOUS
<1> HIDE DEF no, own, overlap
<1>4. /\ b \in ContextType
      /\ b.state = c.state /\ b.counter = c.counter /\ b.actions = c.actions /\ b.screen = c.screen
      /\ b.loads = c.loads /\ b.loaded = c.loaded /\ b.filled = c.filled /\ b.recent = c.recent
      /\ b.disturbed <=> c.disturbed \/ c.loads # {}
  BY <1>2 DEF ContextType
<1> HIDE DEF b
<1>5. HasBegun(b, own, no, d)
  BY <1>1, <1>4, BegunGives, Zenon
<1> HIDE DEF d
<1>6. /\ d \in ContextType
      /\ d.state = c.state /\ d.counter = c.counter /\ d.actions = c.actions /\ d.screen = c.screen
      /\ d.disturbed <=> c.disturbed \/ c.loads # {}
      /\ \A l \in Loaders \ own : d.loaded[l] = c.loaded[l] /\ d.filled[l] = c.filled[l]
                                  /\ d.recent[l] = c.recent[l]
      /\ \A l \in own : ~ d.loaded[l] /\ d.filled[l] = {} /\ d.recent[l]
  BY <1>4, <1>5 DEF HasBegun
<1>7. ScreenIsFilled(d)
  BY <1>6 DEF Good, ScreenIsFilled, Has, own
<1>8. ASSUME ~ d.disturbed PROVE Sound(d)
  <2>1. ~ c.disturbed /\ c.loads = {} /\ Sound(c)
    BY <1>6, <1>8 DEF Good
  <2>2. /\ \A x \in d.loads : x.loader \in own /\ x.left = Parts[x.loader] /\ x.copy = 1 /\ x.counted = no
        /\ \A l \in own : \E x \in d.loads : x.loader = l
    BY <1>4, <1>5, <2>1 DEF HasBegun
  <2>3. OneEach(d)
    <3> SUFFICES ASSUME NEW x \in d.loads, NEW y \in d.loads, x.loader = y.loader PROVE x = y
      BY DEF OneEach
    <3>1. x \in LoadType /\ y \in LoadType
      BY <1>6 DEF ContextType
    <3>2. x.left = y.left /\ x.copy = y.copy /\ x.counted = y.counted
      BY <2>2
    <3> QED BY <3>1, <3>2 DEF LoadType
  <2>4. \A x \in d.loads : ~ x.counted
    BY <2>2 DEF no
  <2>5. UnderWay(d)
    BY <1>6, <2>2, <2>4 DEF UnderWay, own
  <2>6. CountsDone(d)
    BY <1>6, <2>1, <2>4 DEF Sound, CountsDone
  <2>7. AllDone(d)
    <3> SUFFICES ASSUME c.state = "INITIALIZED"
                 PROVE  /\ c.counter = c.actions
                        /\ \A l \in Loaders : l \in Done(d) \/ \E x \in d.loads : x.loader = l
      BY <1>6 DEF AllDone
    <3>1. c.counter = c.actions /\ \A l \in Loaders : l \in Done(c)
      BY <2>1 DEF Sound, AllDone
    <3>2. \A l \in Loaders \ own : l \in Done(d)
      BY <1>6, <3>1 DEF Done, Has
    <3> QED BY <2>2, <3>1, <3>2
  <2> QED BY <2>3, <2>5, <2>6, <2>7 DEF Sound
<1> QED BY <1>1, <1>6, <1>7, <1>8 DEF Good, NewCountsNothing

\* A click on the menu.
LEMMA ReloadedIsGood ==
  ASSUME NEW c, Good(c)
  PROVE  LET d == Reloaded(c) IN
         /\ Good(d)
         /\ d.counter = 0 /\ d.loads = c.loads /\ (d.disturbed <=> c.loads # {})
<1> DEFINE none == [l \in Loaders |-> FALSE]
           overlap == c.loads # {}
           d == Reloaded(c)
<1>1. d = [c EXCEPT !.state = "CREATED", !.actions = 0, !.counter = 0, !.recent = none,
                    !.disturbed = overlap]
  BY Zenon DEF Reloaded
<1>2. none \in [Loaders -> BOOLEAN] /\ overlap \in BOOLEAN /\ (overlap <=> c.loads # {})
      /\ c \in ContextType
  BY DEF Good
<1> HIDE DEF none, overlap, d
<1>3. /\ d \in ContextType
      /\ d.state = "CREATED" /\ d.counter = 0 /\ d.actions = 0 /\ d.screen = c.screen
      /\ d.loads = c.loads /\ d.loaded = c.loaded /\ d.filled = c.filled
      /\ d.disturbed <=> c.loads # {}
  BY <1>1, <1>2 DEF ContextType, States
<1>4. ScreenIsFilled(d)
  BY <1>3 DEF Good, ScreenIsFilled, Has
<1>5. ~ d.disturbed => Sound(d)
  BY <1>3 DEF Sound, OneEach, UnderWay, CountsDone, AllDone
<1> QED BY <1>3, <1>4, <1>5 DEF Good, NewCountsNothing, d

LEMMA AnswerIsGood ==
  ASSUME ContextInv, NEW x \in context.loads, NEW part \in x.left, Answer(x, part)
  PROVE  Good(context')
<1> DEFINE d == Filled(context, x, part)
<1>1. page \in Pages /\ Good(context) /\ context \in ContextType /\ x \in LoadType
  BY DEF ContextInv, Good, ContextType
<1>2. context' = IF x.left = {part} THEN Completed(d, x) ELSE d
  BY DEF Answer
<1>3. /\ Good(d)
      /\ x.left = {part} /\ ~ context.disturbed =>
           x.loader \in Done(d) /\ x.loader \notin Done(context) /\ Done(context) \subseteq Done(d)
  BY <1>1, FilledIsGood
<1>4. /\ d.state = context.state /\ d.counter = context.counter /\ d.disturbed = context.disturbed
  BY <1>1, FilledGives
<1> HIDE DEF d
<1>5. ~ context.disturbed =>
        /\ x.counted => context.state = "LOADING" /\ context.counter <= Cardinality(Done(context))
        /\ ~ x.counted => x.loader \in OwnLoader(page)
  BY <1>1 DEF Good, Sound, UnderWay, CountsDone
<1>6. CASE x.left = {part} /\ x.counted
  <2>1. context' = Processed(d)
    BY <1>2, <1>6 DEF Completed
  <2>2. ASSUME ~ d.disturbed PROVE d.state = "LOADING" /\ d.counter < Cardinality(Done(d))
    <3>1. IsFiniteSet(Done(context)) /\ IsFiniteSet(Done(d))
      BY <1>1, DoneIsCounted
    <3>2. Cardinality(Done(context) \cup {x.loader}) = Cardinality(Done(context)) + 1
          /\ Done(context) \cup {x.loader} \subseteq Done(d)
      BY <1>3, <1>4, <1>6, <2>2, <3>1, FS_AddElement
    <3>3. Cardinality(Done(context)) + 1 <= Cardinality(Done(d))
      BY <3>1, <3>2, FS_Subset
    <3>4. Cardinality(Done(context)) \in Nat /\ Cardinality(Done(d)) \in Nat /\ context.counter \in Nat
      BY <1>1, DoneIsCounted DEF ContextType
    <3> QED BY <1>4, <1>5, <1>6, <2>2, <3>3, <3>4
  <2> QED BY <1>1, <1>3, <2>1, <2>2, ProcessedIsGood
<1>7. CASE x.left = {part} /\ ~ x.counted
  <2>1. context' = Redrawn(d)
    BY <1>2, <1>7 DEF Completed
  <2>2. ~ d.disturbed => \E l \in OwnLoader(page) : Has(d, l)
    BY <1>3, <1>4, <1>5, <1>7 DEF Done
  <2> QED BY <1>1, <1>3, <2>1, <2>2, RedrawnIsGood
<1>8. CASE x.left # {part}
  BY <1>2, <1>3, <1>8
<1> QED BY <1>6, <1>7, <1>8

LEMMA AnswerFailsIsGood ==
  ASSUME ContextInv, NEW x \in context.loads, AnswerFails(x)
  PROVE  Good(context')
<1> DEFINE c == context
           lost == c.disturbed \/ ~ x.counted
           loads == c.loads \ {x}
           d == [c EXCEPT !.loads = loads, !.disturbed = lost]
<1>1. context' = d
  BY Zenon DEF AnswerFails
<1>2. /\ Good(c) /\ c \in ContextType /\ x \in LoadType /\ lost \in BOOLEAN
      /\ lost <=> c.disturbed \/ ~ x.counted
      /\ loads \in SUBSET LoadType
  BY DEF ContextInv, Good, ContextType
<1>3. \A z \in loads : z \in c.loads
  OBVIOUS
<1> HIDE DEF lost, loads
<1>4. /\ d \in ContextType
      /\ d.state = c.state /\ d.counter = c.counter /\ d.actions = c.actions /\ d.screen = c.screen
      /\ d.loads = loads /\ d.loaded = c.loaded /\ d.filled = c.filled /\ d.recent = c.recent
      /\ d.disturbed <=> c.disturbed \/ ~ x.counted
  BY <1>2 DEF ContextType
<1> HIDE DEF d
<1>5. Done(d) = Done(c)
  BY <1>4 DEF Done, Has
<1>6. ASSUME ~ d.disturbed PROVE Sound(d)
  <2>1. Sound(c) /\ x.counted
    BY <1>2, <1>4, <1>6 DEF Good
  <2>2. c.state = "LOADING"
    BY <2>1 DEF Sound, UnderWay
  <2> QED BY <1>3, <1>4, <1>5, <2>1, <2>2 DEF Sound, OneEach, UnderWay, CountsDone, AllDone
<1>7. ScreenIsFilled(d)
  BY <1>2, <1>4 DEF Good, ScreenIsFilled, Has
<1> QED BY <1>1, <1>2, <1>4, <1>6, <1>7 DEF Good, NewCountsNothing

LEMMA EnterIsGood ==
  ASSUME ContextInv, Enter
  PROVE  Good(context')
<1> DEFINE overlap == context.disturbed \/ context.loads # {} \/ context.counter \notin {0, context.actions}
           d == [context EXCEPT !.disturbed = overlap]
<1>1. context' = Rendered(d)
  BY Zenon DEF Enter, Navigate
<1>2. /\ overlap \in BOOLEAN /\ Good(context) /\ context \in ContextType
      /\ overlap <=> context.disturbed \/ context.loads # {} \/ context.counter \notin {0, context.actions}
  BY DEF ContextInv, Good, ContextType
<1> HIDE DEF overlap
<1>3. /\ d \in ContextType
      /\ d.state = context.state /\ d.counter = context.counter /\ d.actions = context.actions
      /\ d.screen = context.screen
      /\ d.loads = context.loads /\ d.loaded = context.loaded /\ d.filled = context.filled
      /\ d.recent = context.recent
      /\ d.disturbed <=> context.disturbed \/ context.loads # {} \/ context.counter \notin {0, context.actions}
  BY <1>2 DEF ContextType
<1> HIDE DEF d
<1>4. Good(d)
  BY <1>2, <1>3, GoodDepends
<1> QED BY <1>1, <1>3, <1>4, RenderedIsGood DEF ContextInv

\* A page that is left, by the menu or not.
LEMMA LeftIsGood ==
  ASSUME NEW c, Good(c)
  PROVE  Good([c EXCEPT !.screen = "none"])
<1> DEFINE d == [c EXCEPT !.screen = "none"]
<1>1. /\ d \in ContextType
      /\ d.state = c.state /\ d.counter = c.counter /\ d.actions = c.actions /\ d.screen = "none"
      /\ d.loads = c.loads /\ d.loaded = c.loaded /\ d.filled = c.filled /\ d.recent = c.recent
      /\ d.disturbed = c.disturbed
  BY DEF Good, ContextType, Screens
<1> HIDE DEF d
<1>2. Good(d)
  BY <1>1, GoodDepends
<1> QED BY <1>2 DEF d

LEMMA DeletingIsGood ==
  ASSUME NEW c, Good(c), NEW n \in Nat
  PROVE  Good([c EXCEPT !.deleting = n])
<1> DEFINE d == [c EXCEPT !.deleting = n]
<1>1. /\ d \in ContextType
      /\ d.state = c.state /\ d.counter = c.counter /\ d.actions = c.actions /\ d.screen = c.screen
      /\ d.loads = c.loads /\ d.loaded = c.loaded /\ d.filled = c.filled /\ d.recent = c.recent
      /\ d.disturbed = c.disturbed
  BY DEF Good, ContextType
<1> HIDE DEF d
<1>2. Good(d)
  BY <1>1, GoodDepends
<1> QED BY <1>2 DEF d

LEMMA ClicksAreGood ==
  ASSUME ContextInv, ClickThis \/ ClickOther
  PROVE  Good(context')
<1> DEFINE d == Reloaded(context)
<1>1. Good(d) /\ d.counter = 0 /\ (~ d.disturbed => d.loads = {})
  BY ReloadedIsGood DEF ContextInv
<1>2. \/ context' = Rendered(d) \/ context' = d
      \/ context' = [d EXCEPT !.screen = "none"]
  BY Zenon DEF ClickThis, ClickOther, Navigate
<1> HIDE DEF d
<1>3. Good(Rendered(d))
  BY <1>1, RenderedIsGood DEF ContextInv
<1>4. Good([d EXCEPT !.screen = "none"])
  BY <1>1, LeftIsGood
<1> QED BY <1>1, <1>2, <1>3, <1>4

LEMMA DialogsAreGood ==
  ASSUME ContextInv, CloseDialog \/ Delete \/ Deleted
  PROVE  Good(context')
<1>1. page \in Pages /\ Good(context) /\ context.deleting \in Nat
  BY DEF ContextInv, Good, ContextType
<1>2. CASE CloseDialog
  BY <1>1, <1>2, ReloadIsGood DEF CloseDialog, Navigate
<1>3. CASE Delete
  <2>1. context' = [context EXCEPT !.deleting = context.deleting + 1]
    BY <1>3 DEF Delete, Navigate
  <2> QED BY <1>1, <2>1, DeletingIsGood
<1>4. CASE Deleted
  <2> DEFINE n == context.deleting - 1
  <2>1. context' = Reload([context EXCEPT !.deleting = n]) /\ n \in Nat
    BY <1>1, <1>4 DEF Deleted
  <2> HIDE DEF n
  <2> QED BY <1>1, <2>1, DeletingIsGood, ReloadIsGood
<1> QED BY <1>2, <1>3, <1>4

LEMMA ContextStep == ContextInv /\ [ContextNext]_contextVars => ContextInv'
<1> SUFFICES ASSUME ContextInv, [ContextNext]_contextVars PROVE ContextInv'
  OBVIOUS
<1>1. page' = page /\ Good(context')
  <2>1. CASE Answers
    BY <2>1, AnswerIsGood DEF Answers, Answer
  <2>2. CASE \E x \in context.loads : AnswerFails(x)
    BY <2>2, AnswerFailsIsGood DEF AnswerFails
  <2>3. CASE Enter
    BY <2>3, EnterIsGood DEF Enter, Navigate
  <2>4. CASE Leave
    BY <2>4, LeftIsGood DEF Leave, Navigate, ContextInv
  <2>5. CASE ClickThis \/ ClickOther
    BY <2>5, ClicksAreGood DEF ClickThis, ClickOther, Navigate
  <2>6. CASE CloseDialog \/ Delete \/ Deleted
    BY <2>6, DialogsAreGood DEF CloseDialog, Delete, Deleted, Navigate
  <2>7. CASE UNCHANGED contextVars
    BY <2>7 DEF contextVars, ContextInv
  <2> QED BY <2>1, <2>2, <2>3, <2>4, <2>5, <2>6, <2>7 DEF ContextNext
<1>2. page' \in Pages
  BY <1>1 DEF ContextInv
<1>3. Good(context)'
  BY <1>1 DEF Good, ContextType, LoadType, Requests, Loaders, ScreenIsFilled, NewCountsNothing, Sound,
              OneEach, UnderWay, CountsDone, AllDone, Done, Has
<1> QED BY <1>2, <1>3 DEF ContextInv

\* A page is drawn with all its data, asked for since the last click on the menu, unless
\* loads overlapped or a load of its own failed, however often it is entered and left,
\* whatever fails and in whichever order the answers come: PlatformContext.ts 89-93,
\* 119-165; Synchronizer.ts 23-71.
THEOREM PageIsDrawnWithItsData == ContextSpec => []PageHasData
<1>1. ContextInv => PageHasData
  BY DEF ContextInv, Good, PageHasData
<1> QED BY InitContext, ContextStep, <1>1, PTL DEF ContextSpec
=============================================================================
