--------------------- MODULE ClientAndCollectionsProofs ----------------------
(***************************************************************************)
(* Proofs that the handler of a stream is subscribed at most once, that a  *)
(* stream disposed in time is silent, and that no request waits without a  *)
(* socket, for any streams, requests, tries and faults.                    *)
(*                                                                         *)
(* None of the three is inductive alone: a first connection subscribes a   *)
(* handler, so a stream that waits for it, or was never opened, must not   *)
(* be fed yet (Fed), and a stream disposed while it waits must be one of   *)
(* the early (Early).                                                      *)
(*                                                                         *)
(* And proofs about the collections of a form, for any kinds, keys and     *)
(* numbers of items: what is blocked has a way out, through checks of the  *)
(* network too, and what opened valid has nothing bad beside the item that *)
(* can be edited.  The invariant                                           *)
(* looks at a collection as one value, because an operation goes through   *)
(* several, and each lemma says what one of them makes of it.  What a      *)
(* collection opens with is defined recursively: a least number of items   *)
(* for which it were not as it should be cannot exist (Least).             *)
(***************************************************************************)
EXTENDS PlatformClient, ItemCollections, WellFoundedInduction, TLAPS

\* Who has no subscription yet.
Fed == \A s \in Streams : s \in first \/ s \notin opened => feeds[s] = 0

\* Who was disposed before it was connected.
Early == first \cap disposed \subseteq early

IInv == TypeOK /\ HandlerFedOnce /\ DisposedIsSilent /\ PendingHasSocket /\ Fed /\ Early

\* A page that has just been loaded has everything in order.
LEMMA FreshPageInv ==
  ASSUME FreshPage, server \in BOOLEAN, faults \in [{"stop", "break"} -> Nat]
  PROVE  IInv
<1>1. TypeOK
  <2>1. status \in [Clients -> Statuses] /\ page \in Pages
    BY DEF FreshPage, Statuses, Pages
  <2>2. retries \in [Clients -> 0..MaxTries]
    BY ConstantsAssumption DEF FreshPage
  <2>3. feeds \in [Streams -> Nat]
    BY DEF FreshPage
  <2> QED BY <2>1, <2>2, <2>3 DEF FreshPage, TypeOK
<1> QED BY <1>1 DEF FreshPage, IInv, HandlerFedOnce, DisposedIsSilent, PendingHasSocket, Fed, Early

LEMMA InitInv == Init => IInv
BY FreshPageInv DEF Init

LEMMA FirstConnectsPreserves ==
  ASSUME IInv, NEW c \in Clients, FirstConnects(c)
  PROVE  IInv'
<1> USE DEF FirstConnects, Connected, IInv
<1>1. TypeOK'
  BY DEF TypeOK, Statuses, Pages, Clients
<1>2. HandlerFedOnce' /\ Fed'
  BY DEF HandlerFedOnce, Fed, TypeOK, Clients
<1>3. DisposedIsSilent' /\ Early'
  BY DEF DisposedIsSilent, Early, TypeOK, Clients
<1>4. PendingHasSocket'
  BY DEF PendingHasSocket
<1> QED BY <1>1, <1>2, <1>3, <1>4

LEMMA RetryConnectsPreserves ==
  ASSUME IInv, NEW c \in Clients, RetryConnects(c)
  PROVE  IInv'
<1> USE DEF RetryConnects, Connected, IInv
<1>1. TypeOK'
  BY ConstantsAssumption DEF TypeOK, Statuses
<1>2. HandlerFedOnce' /\ DisposedIsSilent' /\ PendingHasSocket' /\ Fed' /\ Early'
  BY DEF HandlerFedOnce, DisposedIsSilent, PendingHasSocket, Fed, Early
<1> QED BY <1>1, <1>2

LEMMA TryFailsPreserves ==
  ASSUME IInv, NEW c \in Clients, TryFails(c)
  PROVE  IInv'
<1> USE DEF TryFails, IInv, streams
<1>1. TypeOK'
  BY ConstantsAssumption DEF TypeOK, Statuses, Pages
<1>2. first' \subseteq first
  OBVIOUS
<1>3. HandlerFedOnce' /\ DisposedIsSilent' /\ PendingHasSocket' /\ Fed' /\ Early'
  BY <1>2 DEF HandlerFedOnce, DisposedIsSilent, PendingHasSocket, Fed, Early
<1> QED BY <1>1, <1>3

LEMMA TickPreserves ==
  ASSUME IInv, NEW c \in Clients, Tick(c)
  PROVE  IInv'
<1> USE DEF Tick, IInv, streams
<1>1. TypeOK'
  BY ConstantsAssumption DEF TypeOK
<1>2. HandlerFedOnce' /\ DisposedIsSilent' /\ PendingHasSocket' /\ Fed' /\ Early'
  BY DEF HandlerFedOnce, DisposedIsSilent, PendingHasSocket, Fed, Early
<1> QED BY <1>1, <1>2

LEMMA UnloadPreserves ==
  ASSUME IInv, Unload
  PROVE  IInv'
<1> USE DEF Unload
<1>1. TypeOK'
  <2>1. status' \in [Clients -> Statuses] /\ page' \in Pages
    BY DEF Statuses, Pages
  <2>2. retries' \in [Clients -> 0..MaxTries]
    BY ConstantsAssumption
  <2>3. feeds' \in [Streams -> Nat]
    OBVIOUS
  <2> QED BY <2>1, <2>2, <2>3 DEF IInv, TypeOK
<1> QED BY <1>1 DEF IInv, HandlerFedOnce, DisposedIsSilent, PendingHasSocket, Fed, Early

LEMMA OpenStreamPreserves ==
  ASSUME IInv, NEW s \in Streams, OpenStream(s)
  PROVE  IInv'
<1> USE DEF OpenStream, IInv
<1>1. TypeOK'
  BY DEF TypeOK
<1>2. s \notin disposed
  BY DEF TypeOK
<1>3. HandlerFedOnce' /\ DisposedIsSilent' /\ PendingHasSocket' /\ Fed' /\ Early'
  BY <1>2 DEF HandlerFedOnce, DisposedIsSilent, PendingHasSocket, Fed, Early
<1> QED BY <1>1, <1>3

LEMMA DisposeStreamPreserves ==
  ASSUME IInv, NEW s \in Streams, DisposeStream(s)
  PROVE  IInv'
<1> USE DEF DisposeStream, IInv
<1>1. s # Main
  BY ConstantsAssumption
<1>2. TypeOK'
  BY DEF TypeOK, Statuses, Clients
<1>3. feeds' = [feeds EXCEPT ![s] = 0] /\ feeds \in [Streams -> Nat]
  BY DEF TypeOK
<1>4. HandlerFedOnce' /\ Fed'
  BY <1>3 DEF HandlerFedOnce, Fed
<1>5. DisposedIsSilent' /\ Early'
  BY <1>3 DEF DisposedIsSilent, Early, TypeOK
<1>6. PendingHasSocket'
  BY <1>1 DEF PendingHasSocket
<1> QED BY <1>2, <1>4, <1>5, <1>6

LEMMA SocketLostPreserves ==
  ASSUME IInv, NEW c \in Clients, SocketLost(c),
         faults' \in [{"stop", "break"} -> Nat], alone' \subseteq Streams
  PROVE  IInv'
<1> USE DEF SocketLost, IInv
<1>1. TypeOK'
  BY DEF TypeOK, Statuses
<1>2. HandlerFedOnce' /\ Fed' /\ DisposedIsSilent' /\ Early'
  BY DEF HandlerFedOnce, Fed, DisposedIsSilent, Early, TypeOK
<1>3. PendingHasSocket'
  BY DEF PendingHasSocket
<1> QED BY <1>1, <1>2, <1>3

\* A step that touches neither streams nor sockets, and asks nothing without one.
LEMMA RestPreserves ==
  ASSUME IInv, TypeOK', UNCHANGED <<first, socket, streams>>,
         pending' # {} => pending # {} \/ Main \in socket
  PROVE  IInv'
BY DEF IInv, HandlerFedOnce, DisposedIsSilent, PendingHasSocket, Fed, Early, streams

LEMMA StepPreserves ==
  ASSUME IInv, [Next]_vars
  PROVE  IInv'
<1>1. CASE PageStep
  <2>1. CASE Unload
    BY <2>1, UnloadPreserves
  <2>2. ASSUME NEW c \in Clients,
               FirstConnects(c) \/ RetryConnects(c) \/ TryFails(c) \/ Tick(c) \/ SocketCloses(c)
        PROVE  IInv'
    <3>1. CASE SocketCloses(c)
      BY <3>1, SocketLostPreserves DEF SocketCloses, SocketLost, IInv, TypeOK
    <3> QED
      BY <2>2, <3>1, FirstConnectsPreserves, RetryConnectsPreserves, TryFailsPreserves,
         TickPreserves
  <2> QED BY <1>1, <2>1, <2>2 DEF PageStep
<1>2. CASE UserStep
  <2>1. ASSUME NEW s \in Streams, OpenStream(s) \/ DisposeStream(s)
        PROVE  IInv'
    BY <2>1, OpenStreamPreserves, DisposeStreamPreserves
  <2>2. ASSUME NEW r \in Requests, Request(r) \/ Answer(r)
        PROVE  IInv'
    <3>1. TypeOK'
      BY <2>2 DEF Request, Answer, IInv, TypeOK, connections, streams
    <3> QED BY <2>2, <3>1, RestPreserves DEF Request, Answer, connections
  <2> QED BY <1>2, <2>1, <2>2 DEF UserStep
<1>3. CASE ServerStops
  <2>1. faults' \in [{"stop", "break"} -> Nat]
    BY <1>3 DEF ServerStops, IInv, TypeOK
  <2>2. TypeOK'
    BY <1>3, <2>1 DEF ServerStops, IInv, TypeOK, streams
  <2> QED BY <1>3, <2>2, RestPreserves DEF ServerStops
<1>4. CASE ServerStarts
  <2>1. TypeOK'
    BY <1>4 DEF ServerStarts, IInv, TypeOK, connections, streams
  <2> QED BY <1>4, <2>1, RestPreserves DEF ServerStarts, connections
<1>5. ASSUME NEW c \in Clients, SocketBreaks(c)
      PROVE  IInv'
  <2>1. faults' \in [{"stop", "break"} -> Nat]
    BY <1>5 DEF SocketBreaks, IInv, TypeOK
  <2>2. alone' \subseteq Streams
    BY <1>5 DEF SocketBreaks, IInv, TypeOK, Clients
  <2> QED BY <1>5, <2>1, <2>2, SocketLostPreserves DEF SocketBreaks
<1>6. CASE UNCHANGED vars
  <2>1. TypeOK'
    BY <1>6 DEF IInv, TypeOK, vars, connections, streams
  <2> QED BY <1>6, <2>1, RestPreserves DEF vars, connections
<1> QED BY <1>1, <1>2, <1>3, <1>4, <1>5, <1>6 DEF Next

THEOREM Inductive == Spec => []IInv
<1>1. IInv /\ [Next]_vars => IInv'
  BY StepPreserves
<1> QED BY InitInv, <1>1, PTL DEF Spec

\* However often clients connect, retry, lose their sockets or are disposed, events are
\* never handled twice: PlatformClient.ts 342-350, 276-300.
THEOREM FedOnce == Spec => []HandlerFedOnce
<1>1. IInv => HandlerFedOnce
  BY DEF IInv
<1> QED BY Inductive, <1>1, PTL

\* The disposer of a stream that is connected stops it for good: PlatformClient.ts 80-97.
THEOREM Silent == Spec => []DisposedIsSilent
<1>1. IInv => DisposedIsSilent
  BY DEF IInv
<1> QED BY Inductive, <1>1, PTL

\* A request without an outcome has a socket it can be answered on: PlatformClient.ts
\* 99-125, 251-274.
THEOREM NoneIsForgotten == Spec => []PendingHasSocket
<1>1. IInv => PendingHasSocket
  BY DEF IInv
<1> QED BY Inductive, <1>1, PTL

-----------------------------------------------------------------------------
(* A collection as a value. *)

Keys == [text : Texts \cup {Blank, Odd}, parsed : BOOLEAN]

Collections ==
  [ids : SUBSET Numbers, key : [Numbers -> Keys], error : [Numbers -> BOOLEAN],
   duplicate : [Numbers -> BOOLEAN], disabled : [Numbers -> BOOLEAN], blocked : BOOLEAN,
   exclusion : Numbers \cup {None}]

\* What is blocked has one item that can be edited, or a check that is under way; and
\* exactly the others are disabled, but for the item m that a check took or gave back.
HasWayOut(c, check, freed, m) ==
  /\ c.blocked => c.exclusion # None \/ check
  /\ c.exclusion # None => c.exclusion \in c.ids /\ (c.blocked \/ freed)
  /\ \A i \in c.ids :
       /\ c.disabled[i] => c.exclusion \notin {None, i} \/ (check /\ i = m)
       /\ c.exclusion \notin {None, i} => c.disabled[i] \/ (freed /\ i = m)

\* A validation of x has blocked the collection for x and disabled all others, or it has
\* disabled nothing.
Settled(v, c, x) ==
  /\ v.ids \subseteq Numbers /\ x \in v.ids
  /\ v.exclusion \in {None, x} /\ (v.blocked <=> v.exclusion # None)
  /\ v.exclusion # None => \A i \in v.ids : v.disabled[i] <=> i # x
  /\ v.exclusion = None =>
       \A i \in v.ids : v.disabled[i] => i \in c.ids /\ c.disabled[i] /\ c.exclusion = None

\* No item of S is blank or named as another of S.
AllGood(c, S) ==
  \A i \in S : c.key[i].text # Blank /\ \A j \in S : ~ Same(c, i, j)

LEMMA NumbersAreNumbers == Numbers \subseteq Nat /\ None \notin Numbers /\ \A i \in Numbers : i # None
BY ItemsAssumption DEF Numbers, None

\* What is settled has a way out; m may be another item if it is blocked.
LEMMA SettledHasWayOut ==
  ASSUME NEW c, NEW v, NEW x, NEW check, NEW freed, NEW m, NEW n,
         HasWayOut(c, check, freed, m), Settled(v, c, x), v.exclusion # None \/ n = m
  PROVE  HasWayOut(v, check, FALSE, n)
<1>1. x # None
  BY NumbersAreNumbers DEF Settled
<1>2. CASE v.exclusion = None
  BY <1>2 DEF HasWayOut, Settled
<1>3. CASE v.exclusion # None
  BY <1>1, <1>3 DEF HasWayOut, Settled
<1> QED BY <1>2, <1>3

\* What listens is told that nothing is disabled, if something was.
IsOpened(u, c, L) ==
  /\ u \in Collections
  /\ u.ids = c.ids /\ u.key = c.key /\ u.exclusion = None /\ u.blocked = FALSE
  /\ \A i \in Numbers : u.disabled[i] = IF i \in L /\ c.exclusion # None THEN FALSE ELSE c.disabled[i]

LEMMA UnblockedGives ==
  ASSUME NEW c \in Collections, NEW L \in SUBSET Numbers
  PROVE  IsOpened(Unblocked(c, L), c, L)
<1> DEFINE d == [i \in Numbers |-> IF i \in L /\ c.exclusion # None THEN FALSE ELSE c.disabled[i]]
           u == Unblocked(c, L)
<1>1. u = [c EXCEPT !.blocked = FALSE, !.exclusion = None, !.disabled = d]
  BY Zenon DEF Unblocked
<1>2. d \in [Numbers -> BOOLEAN]
  BY DEF Collections
<1>3. \A i \in Numbers : d[i] = IF i \in L /\ c.exclusion # None THEN FALSE ELSE c.disabled[i]
  OBVIOUS
<1> HIDE DEF d, u
<1>4. u \in Collections /\ u.ids = c.ids /\ u.key = c.key /\ u.exclusion = None /\ u.blocked = FALSE /\ u.disabled = d
  BY <1>1, <1>2 DEF Collections
<1> QED BY <1>3, <1>4 DEF u, IsOpened

\* Everything that listens is disabled but one item.
IsBlocked(b, c, x, L) ==
  /\ b \in Collections
  /\ b.ids = c.ids /\ b.key = c.key /\ b.blocked = TRUE /\ b.exclusion = x
  /\ \A i \in Numbers : b.disabled[i] = IF i \in L THEN i # x ELSE c.disabled[i]

LEMMA BlockedGives ==
  ASSUME NEW c \in Collections, NEW L \in SUBSET Numbers, NEW x \in Numbers
  PROVE  IsBlocked(BlockedExcept(c, x, L), c, x, L)
<1> DEFINE d == [i \in Numbers |-> IF i \in L THEN i # x ELSE c.disabled[i]]
           b == BlockedExcept(c, x, L)
<1>1. b = [c EXCEPT !.blocked = TRUE, !.exclusion = x, !.disabled = d]
  BY Zenon DEF BlockedExcept
<1>2. d \in [Numbers -> BOOLEAN]
  BY DEF Collections
<1>3. \A i \in Numbers : d[i] = IF i \in L THEN i # x ELSE c.disabled[i]
  OBVIOUS
<1> HIDE DEF d, b
<1>4. b \in Collections /\ b.ids = c.ids /\ b.key = c.key /\ b.blocked = TRUE /\ b.exclusion = x /\ b.disabled = d
  BY <1>1, <1>2 DEF Collections
<1> QED BY <1>3, <1>4 DEF b, IsBlocked

\* A field that is told changes nothing but what it shows.
SameBut(d, c) ==
  /\ d \in Collections
  /\ d.ids = c.ids /\ d.key = c.key /\ d.disabled = c.disabled
  /\ d.blocked = c.blocked /\ d.exclusion = c.exclusion

LEMMA ToldGives ==
  ASSUME NEW k, NEW c \in Collections, NEW x \in Numbers, NEW v \in BOOLEAN
  PROVE  SameBut(Told(k, c, x, v), c)
<1> DEFINE e == [c.error EXCEPT ![x] = v]
           u == [c.duplicate EXCEPT ![x] = v]
           d == Told(k, c, x, v)
<1>1. \/ d = [c EXCEPT !.error = e]
      \/ d = c
      \/ d = [c EXCEPT !.duplicate = u, !.error = e]
  BY Zenon DEF Told
<1>2. e \in [Numbers -> BOOLEAN] /\ u \in [Numbers -> BOOLEAN]
  BY DEF Collections
<1> HIDE DEF e, u, d
<1>3. SameBut(d, c)
  BY <1>1, <1>2 DEF Collections, SameBut
<1> QED BY <1>3 DEF d

-----------------------------------------------------------------------------
(* Validation and the operations. *)

\* A validation blocks the collection for the item x that changed, or finds that no item
\* is blank or named as x.
IsValidated(v, c, x) ==
  /\ v \in Collections /\ Settled(v, c, x)
  /\ v.ids = c.ids /\ v.key = c.key
  /\ v.exclusion = None => \A i \in c.ids : c.key[i].text # Blank /\ ~ Same(c, i, x)

LEMMA ValidateGives ==
  ASSUME NEW k, NEW c \in Collections, NEW x \in c.ids, NEW L \in SUBSET Numbers,
         \A i \in c.ids \ L : i = x /\ ~ c.disabled[i]
  PROVE  IsValidated(ValidateItemsExcept(k, c, x, L), c, x)
<1> DEFINE u == Unblocked(c, L)
           v == ValidateItemsExcept(k, c, x, L)
           Stops(i) == Invalid(k, u, i) \/ Same(u, i, x)
           First(i) == i \in u.ids /\ Stops(i) /\ \A j \in u.ids : j < i => ~ Stops(j)
           refused == \E i \in u.ids : First(i) /\ Invalid(k, u, i)
           w == IF refused THEN u ELSE Told(k, u, x, TRUE)
<1>1. c.ids \subseteq Numbers /\ x \in Numbers /\ c.disabled \in [Numbers -> BOOLEAN]
  BY DEF Collections
<1>2. IsOpened(u, c, L)
  BY UnblockedGives, Zenon
<1>3. u \in Collections /\ \A i \in c.ids : u.disabled[i] => c.disabled[i] /\ c.exclusion = None
  <2> HIDE DEF u
  <2> QED BY <1>1, <1>2 DEF IsOpened
<1>4. \A i \in c.ids \ L : i = x /\ ~ c.disabled[i]
  OBVIOUS
<1>5. v = IF \A i \in u.ids : ~ Stops(i) THEN Told(k, u, x, FALSE) ELSE BlockedExcept(w, x, L)
  BY Zenon DEF ValidateItemsExcept
<1> HIDE DEF u, v
<1>6. ASSUME \A i \in u.ids : ~ Stops(i) PROVE IsValidated(v, c, x)
  <2>1. SameBut(v, u)
    <3>1. v = Told(k, u, x, FALSE)
      BY <1>5, <1>6
    <3> QED BY <1>1, <1>3, <3>1, ToldGives
  <2>2. \A i \in c.ids : c.key[i].text # Blank /\ ~ Same(c, i, x)
    <3>1. \A i \in u.ids : u.key[i].text # Blank /\ ~ Same(u, i, x)
      BY <1>6 DEF Invalid
    <3> QED BY <3>1, <1>2 DEF IsOpened, Same
  <2>3. /\ v \in Collections /\ v.ids = c.ids /\ v.key = c.key /\ v.exclusion = None /\ ~ v.blocked
        /\ \A i \in c.ids : v.disabled[i] => c.disabled[i] /\ c.exclusion = None
    BY <1>2, <1>3, <2>1 DEF SameBut, IsOpened
  <2>4. Settled(v, c, x)
    BY <1>1, <2>3 DEF Settled
  <2> QED BY <2>2, <2>3, <2>4 DEF IsValidated
<1>7. ASSUME ~ \A i \in u.ids : ~ Stops(i) PROVE IsValidated(v, c, x)
  <2> HIDE DEF refused
  <2>1. SameBut(Told(k, u, x, TRUE), u)
    BY <1>1, <1>3, ToldGives
  <2>2. SameBut(w, u)
    BY <1>3, <2>1 DEF SameBut
  <2>3. v = BlockedExcept(w, x, L)
    BY <1>5, <1>7
  <2> HIDE DEF w, Stops
  <2>4. w \in Collections
    BY <2>2 DEF SameBut
  <2>5. IsBlocked(v, w, x, L)
    BY <1>1, <2>3, <2>4, BlockedGives, Zenon
  <2>6. /\ v \in Collections /\ v.ids = c.ids /\ v.key = c.key /\ v.blocked = TRUE /\ v.exclusion = x
        /\ \A i \in Numbers : v.disabled[i] = IF i \in L THEN i # x ELSE w.disabled[i]
    BY <1>2, <2>2, <2>5 DEF SameBut, IsOpened, IsBlocked
  <2>7. \A i \in c.ids : v.disabled[i] <=> i # x
    BY <1>1, <1>3, <1>4, <2>2, <2>6 DEF SameBut
  <2>8. x # None
    BY <1>1, NumbersAreNumbers
  <2>9. Settled(v, c, x)
    BY <1>1, <2>6, <2>7, <2>8 DEF Settled
  <2> QED BY <2>6, <2>8, <2>9 DEF IsValidated
<1>8. IsValidated(v, c, x)
  <2> HIDE DEF Stops
  <2> QED BY <1>6, <1>7
<1> QED BY <1>8 DEF v

\* What an item is added to, before it is validated.
With(c, x, v) ==
  [c EXCEPT !.ids = @ \cup {x}, !.key[x] = v, !.error[x] = FALSE, !.duplicate[x] = FALSE,
            !.disabled[x] = FALSE]

LEMMA WithGives ==
  ASSUME NEW c \in Collections, NEW x \in Numbers, NEW v \in Keys
  PROVE  /\ With(c, x, v) \in Collections
         /\ With(c, x, v).ids = c.ids \cup {x} /\ With(c, x, v).exclusion = c.exclusion
         /\ With(c, x, v).key = [c.key EXCEPT ![x] = v]
         /\ With(c, x, v).disabled = [c.disabled EXCEPT ![x] = FALSE]
<1> DEFINE d == With(c, x, v)
           ids1 == c.ids \cup {x}
           key1 == [c.key EXCEPT ![x] = v]
           error1 == [c.error EXCEPT ![x] = FALSE]
           duplicate1 == [c.duplicate EXCEPT ![x] = FALSE]
           disabled1 == [c.disabled EXCEPT ![x] = FALSE]
<1>1. d = [c EXCEPT !.ids = ids1, !.key = key1, !.error = error1, !.duplicate = duplicate1, !.disabled = disabled1]
  BY Zenon DEF With
<1>2. /\ ids1 \in SUBSET Numbers /\ key1 \in [Numbers -> Keys] /\ error1 \in [Numbers -> BOOLEAN]
      /\ duplicate1 \in [Numbers -> BOOLEAN] /\ disabled1 \in [Numbers -> BOOLEAN]
  BY DEF Collections
<1> HIDE DEF d, ids1, key1, error1, duplicate1, disabled1
<1>3. d \in Collections /\ d.ids = ids1 /\ d.exclusion = c.exclusion /\ d.key = key1 /\ d.disabled = disabled1
  BY <1>1, <1>2 DEF Collections
<1> QED BY <1>3 DEF d, ids1, key1, disabled1

\* An item that is added blocks the collection, or is as good as the others are.
IsAdded(a, c, x, v) ==
  /\ a \in Collections /\ Settled(a, c, x)
  /\ a.ids = c.ids \cup {x} /\ a.key = [c.key EXCEPT ![x] = v]
  /\ a.exclusion = None => \A i \in a.ids : a.key[i].text # Blank /\ ~ Same(a, i, x)

LEMMA AddItemGives ==
  ASSUME NEW k, NEW c \in Collections, NEW x \in Numbers, NEW v \in Keys
  PROVE  IsAdded(AddItem(k, c, x, v), c, x, v)
<1> DEFINE d == With(c, x, v)
           b == ValidateItemsExcept(k, d, x, c.ids)
           a == AddItem(k, c, x, v)
<1>1. a = IF b.exclusion = None THEN b ELSE [b EXCEPT !.disabled[x] = (b.exclusion # x)]
  BY Zenon DEF AddItem, With
<1> HIDE DEF d
<1>2. /\ d \in Collections /\ d.ids = c.ids \cup {x} /\ d.exclusion = c.exclusion
      /\ d.key = [c.key EXCEPT ![x] = v] /\ d.disabled = [c.disabled EXCEPT ![x] = FALSE]
  BY WithGives DEF d
<1>3. c.ids \in SUBSET Numbers /\ x \in d.ids /\ c.disabled \in [Numbers -> BOOLEAN]
  BY <1>2 DEF Collections
<1>4. \A i \in d.ids \ c.ids : i = x /\ ~ d.disabled[i]
  BY <1>2, <1>3
<1>5. IsValidated(b, d, x)
  BY <1>2, <1>3, <1>4, ValidateGives, Zenon
<1> HIDE DEF a, b
<1>6. a = b
  <2>1. CASE b.exclusion = None
    BY <1>1, <2>1
  <2>2. CASE b.exclusion # None
    <3>1. b.exclusion = x /\ b.disabled[x] = FALSE /\ b.disabled \in [Numbers -> BOOLEAN]
      BY <1>2, <1>3, <1>5, <2>2 DEF IsValidated, Settled, Collections
    <3>2. [b.disabled EXCEPT ![x] = FALSE] = b.disabled
      BY <3>1
    <3>3. (b.exclusion # x) = FALSE
      BY <3>1
    <3>4. a = [b EXCEPT !.disabled = [b.disabled EXCEPT ![x] = FALSE]]
      BY <1>1, <2>2, <3>3, Zenon
    <3> QED BY <1>5, <3>2, <3>4 DEF IsValidated, Collections
  <2> QED BY <2>1, <2>2
<1>7. Settled(a, c, x)
  <2>1. Settled(b, d, x) /\ b.ids = d.ids
    BY <1>5 DEF IsValidated
  <2>2. \A i \in d.ids : d.disabled[i] => i \in c.ids /\ c.disabled[i]
    BY <1>2, <1>3
  <2> QED BY <1>2, <1>6, <2>1, <2>2 DEF Settled
<1>8. IsAdded(a, c, x, v)
  BY <1>2, <1>5, <1>6, <1>7 DEF IsAdded, IsValidated, Same
<1> QED BY <1>8 DEF a

-----------------------------------------------------------------------------
(* The collection as it opens. *)

LEMMA Least ==
  ASSUME NEW T \in SUBSET Nat, T # {}
  PROVE  \E m \in T : \A k \in T : ~ (k < m)
<1> DEFINE R == {rs \in Nat \X Nat : rs[1] < rs[2]}
<1>1. IsWellFoundedOn(R, Nat)
  BY NatLessThanWellFounded DEF OpToRel
<1>2. PICK x \in T : \A y \in T : ~ (<<y, x>> \in R)
  BY <1>1, WFMin
<1> QED BY <1>2

\* The collections with the first items that were saved, one item after the other.
Openings(k, saved, size, with) ==
  with = [n \in 0..size |->
           IF n = 0 THEN Empty ELSE AddItem(k, with[n - 1], n - 1, saved[n - 1])]

\* There are such collections, for otherwise there is a least size that has none.
LEMMA OpeningsExist ==
  ASSUME NEW k, NEW saved, NEW size \in Nat
  PROVE  \E with : Openings(k, saved, size, with)
<1> DEFINE T == {n \in Nat : ~ \E with : Openings(k, saved, n, with)}
<1>1. SUFFICES ASSUME T # {} PROVE FALSE
  OBVIOUS
<1>2. PICK m \in T : \A n \in T : ~ (n < m)
  <2> HIDE DEF T
  <2>1. T \in SUBSET Nat
    BY DEF T
  <2> QED BY <1>1, <2>1, Least
<1>3. CASE m = 0
  <2> DEFINE w == [n \in 0..0 |-> Empty]
  <2>1. Openings(k, saved, 0, w)
    BY DEF Openings
  <2> QED BY <1>3, <2>1
<1>4. CASE m # 0
  <2>1. m - 1 \in Nat /\ m - 1 < m
    BY <1>4
  <2>2. PICK g : Openings(k, saved, m - 1, g)
    BY <1>2, <2>1
  <2> DEFINE w == [n \in 0..m |-> IF n = m THEN AddItem(k, g[m - 1], m - 1, saved[m - 1]) ELSE g[n]]
  <2>3. \A n \in 0..m : w[n] = IF n = 0 THEN Empty ELSE AddItem(k, w[n - 1], n - 1, saved[n - 1])
    <3>1. \A n \in 0..(m - 1) : g[n] = IF n = 0 THEN Empty ELSE AddItem(k, g[n - 1], n - 1, saved[n - 1])
      BY <2>2 DEF Openings
    <3>2. \A n \in 0..(m - 1) : w[n] = g[n]
      BY <2>1
    <3>3. w[m] = AddItem(k, g[m - 1], m - 1, saved[m - 1])
      OBVIOUS
    <3> HIDE DEF w
    <3>4. \A n \in 0..m : n # m => n \in 0..(m - 1) /\ (n # 0 => n - 1 \in 0..(m - 1))
      BY <2>1
    <3>5. m - 1 \in 0..(m - 1)
      BY <2>1
    <3> QED BY <1>4, <3>1, <3>2, <3>3, <3>4, <3>5
  <2>4. DOMAIN w = 0..m /\ w = [n \in DOMAIN w |-> w[n]]
    OBVIOUS
  <2> HIDE DEF w
  <2>5. Openings(k, saved, m, w)
    BY <2>3, <2>4 DEF Openings
  <2> QED BY <2>5
<1> QED BY <1>3, <1>4

LEMMA OpenedIsAnOpening ==
  ASSUME NEW k, NEW saved, NEW size \in Nat
  PROVE  \E with : Openings(k, saved, size, with) /\ Opened(k, saved, size) = with[size]
<1> DEFINE with == CHOOSE with : Openings(k, saved, size, with)
<1>1. Openings(k, saved, size, with)
  BY OpeningsExist
<1>2. Opened(k, saved, size) = with[size]
  BY DEF Opened, Openings
<1> QED BY <1>1, <1>2

LEMMA EmptyIsThere ==
  Empty \in Collections /\ HasWayOut(Empty, FALSE, FALSE, None) /\ Empty.ids = {}
<1>1. Typed(Blank) \in Keys
  BY DEF Typed, Keys
<1> QED BY <1>1 DEF Empty, Collections, HasWayOut

\* What a collection with the first items saved is like.
HasOpened(c, saved, n) ==
  /\ c \in Collections /\ HasWayOut(c, FALSE, FALSE, None)
  /\ c.ids = 0..(n - 1)
  /\ \A i \in 0..(n - 1) : c.key[i] = saved[i]

LEMMA OpenedGives ==
  ASSUME NEW k, NEW size \in 0..MaxOpen, NEW saved \in [0..(size - 1) -> Keys]
  PROVE  HasOpened(Opened(k, saved, size), saved, size)
<1>1. PICK with : Openings(k, saved, size, with) /\ Opened(k, saved, size) = with[size]
  BY OpenedIsAnOpening, ItemsAssumption
<1>2. \A n \in 0..size : with[n] = IF n = 0 THEN Empty ELSE AddItem(k, with[n - 1], n - 1, saved[n - 1])
  BY <1>1 DEF Openings
<1> DEFINE T == {n \in 0..size : ~ HasOpened(with[n], saved, n)}
<1>3. ASSUME T # {} PROVE FALSE
  <2>1. PICK m \in T : \A n \in T : ~ (n < m)
    <3> HIDE DEF T
    <3>1. T \in SUBSET Nat
      BY DEF T
    <3> QED BY <1>3, <3>1, Least
  <2>2. CASE m = 0
    <3>1. HasOpened(Empty, saved, 0)
      <4>1. 0..(0 - 1) = {}
        OBVIOUS
      <4> QED BY <4>1, EmptyIsThere, Zenon DEF HasOpened
    <3> QED BY <1>2, <2>2, <3>1
  <2>3. CASE m # 0
    <3> DEFINE c == with[m - 1]
    <3>1. m - 1 \in 0..size /\ m - 1 < m /\ m \in 0..size /\ m - 1 \in 0..(size - 1) /\ m - 1 \in Numbers
      BY <2>3, ItemsAssumption DEF Numbers
    <3>2. HasOpened(c, saved, m - 1)
      BY <2>1, <3>1
    <3>3. with[m] = AddItem(k, c, m - 1, saved[m - 1])
      BY <1>2, <2>3, <3>1
    <3> HIDE DEF c
    <3>4. IsAdded(with[m], c, m - 1, saved[m - 1])
      BY <3>1, <3>2, <3>3, AddItemGives DEF HasOpened
    <3>8. HasWayOut(with[m], FALSE, FALSE, None)
      BY <3>2, <3>4, SettledHasWayOut DEF HasOpened, IsAdded
    <3>5. with[m].ids = 0..(m - 1)
      BY <3>1, <3>2, <3>4 DEF IsAdded, HasOpened
    <3>6. \A i \in 0..(m - 1) : with[m].key[i] = saved[i]
      <4>1. c.key \in [Numbers -> Keys] /\ with[m].key = [c.key EXCEPT ![m - 1] = saved[m - 1]]
        BY <3>2, <3>4 DEF HasOpened, IsAdded, Collections
      <4>2. \A i \in 0..(m - 1) : i \in Numbers /\ (i # m - 1 => i \in 0..((m - 1) - 1))
        BY <3>1, ItemsAssumption DEF Numbers
      <4>3. \A i \in 0..((m - 1) - 1) : c.key[i] = saved[i]
        BY <3>2 DEF HasOpened
      <4> QED BY <3>1, <4>1, <4>2, <4>3
    <3>7. HasOpened(with[m], saved, m)
      BY <3>4, <3>5, <3>8, <3>6 DEF IsAdded, HasOpened
    <3> QED BY <3>7
  <2> QED BY <2>2, <2>3
<1>4. size \in 0..size
  BY ItemsAssumption
<1> QED BY <1>1, <1>3, <1>4

-----------------------------------------------------------------------------
(* The invariant of the form's collection. *)

ItemsInv ==
  /\ Collection \in Collections /\ HasWayOut(Collection, checking, released, Latest)
  /\ next \in Nat
  /\ sound => AllGood(Collection, ids \ {exclusion})

LEMMA CollectionFields ==
  /\ Collection.ids = ids /\ Collection.key = key /\ Collection.error = error
  /\ Collection.duplicate = duplicate /\ Collection.disabled = disabled
  /\ Collection.blocked = blocked /\ Collection.exclusion = exclusion
BY DEF Collection

LEMMA ItemsInvImplies == ItemsInv => BlockedHasWayOut /\ OnlyExclusionIsBad
<1> SUFFICES ASSUME ItemsInv PROVE BlockedHasWayOut /\ OnlyExclusionIsBad
  OBVIOUS
<1>1. BlockedHasWayOut
  <2>1. HasWayOut(Collection, checking, released, Latest)
    BY DEF ItemsInv
  <2> QED BY <2>1, CollectionFields, Zenon DEF HasWayOut, BlockedHasWayOut
<1>2. OnlyExclusionIsBad
  <2>1. sound => AllGood(Collection, ids \ {exclusion})
    BY DEF ItemsInv
  <2> QED BY <2>1, CollectionFields, Zenon DEF AllGood, OnlyExclusionIsBad
<1> QED BY <1>1, <1>2

\* A collection that becomes a value is that value.
LEMMA BecomesIt ==
  ASSUME NEW c \in Collections, Becomes(c)
  PROVE  Collection' = c /\ ids' = c.ids /\ exclusion' = c.exclusion
BY DEF Becomes, Collection, Collections

\* The operations keep the others good: those beside the item that changed were good
\* already, and it is good too unless it is the one that is excluded.
LEMMA ChangeKeepsGood ==
  ASSUME NEW c \in Collections, NEW v \in Collections, NEW x \in Numbers,
         v.exclusion \in {None, x},
         AllGood(c, c.ids \ {c.exclusion}),
         \A j \in v.ids \ {x} : v.key[j] = c.key[j] /\ j \in c.ids \ {c.exclusion},
         v.exclusion = None => \A i \in v.ids : v.key[i].text # Blank /\ ~ Same(v, i, x)
  PROVE  AllGood(v, v.ids \ {v.exclusion})
<1>1. x # None /\ \A i \in v.ids : i # None
  BY NumbersAreNumbers DEF Collections
<1>2. \A i, j \in v.ids \ {x} : v.key[i].text # Blank /\ ~ Same(v, i, j)
  BY DEF AllGood, Same
<1>3. CASE v.exclusion = x
  BY <1>2, <1>3 DEF AllGood
<1>4. CASE v.exclusion = None
  <2>1. \A i \in v.ids : v.key[i].text # Blank /\ ~ Same(v, i, x) /\ ~ Same(v, x, i)
    BY <1>4 DEF Same
  <2>2. ~ Same(v, x, x)
    BY DEF Same
  <2> QED BY <1>2, <2>1, <2>2 DEF AllGood
<1> QED BY <1>3, <1>4

\* Of every kind it is said whether its saved keys are of another type than typed ones.
LEMMA ParsedOrNot == \A k \in DOMAIN Rules : Rules[k].parsed \in BOOLEAN
<1> DEFINE K == [strict : BOOLEAN, masked : BOOLEAN, parsed : BOOLEAN, sticky : BOOLEAN,
                 checked : BOOLEAN]
<1>1. KeyedByText \in K
  BY DEF KeyedByText
<1>2. fileCollection \in K
  BY <1>1 DEF fileCollection
<1>3. portsCollection \in K
  <2>1. [KeyedByText EXCEPT !.masked = TRUE] \in K
    BY <1>1
  <2>2. [[KeyedByText EXCEPT !.masked = TRUE] EXCEPT !.parsed = TRUE] \in K
    BY <2>1
  <2> QED BY <2>2, Zenon DEF portsCollection
<1>4. propertiesCollection \in K
  <2>1. [KeyedByText EXCEPT !.masked = TRUE] \in K
    BY <1>1
  <2>2. [[KeyedByText EXCEPT !.masked = TRUE] EXCEPT !.sticky = TRUE] \in K
    BY <2>1
  <2> QED BY <2>2, Zenon DEF propertiesCollection
<1>7. nodeSelectorLabels \in K
  BY <1>1 DEF nodeSelectorLabels, keyValueCollection
<1>5. \A r \in K : r.parsed \in BOOLEAN
  OBVIOUS
<1> HIDE DEF K
<1>6. \A k \in DOMAIN Rules : Rules[k] \in K
  BY <1>1, <1>2, <1>3, <1>4, <1>7 DEF Rules, environmentVariablesCollection, variablesCollection,
     stringCollection, keyValueCollection
<1> QED BY <1>5, <1>6, Zenon

LEMMA ItemsStart == ItemsInit => ItemsInv
<1> SUFFICES ASSUME ItemsInit PROVE ItemsInv
  OBVIOUS
<1> DEFINE good(saved, size) == \A i \in 0..(size - 1) :
                     /\ saved[i].text # Blank
                     /\ \A j \in 0..(size - 1) : i # j => saved[i] # saved[j]
<1> DEFINE opens(size, saved) ==
         LET c == Opened(kind, saved, size) IN
         /\ ids = c.ids /\ key = c.key /\ error = c.error /\ duplicate = c.duplicate
         /\ disabled = c.disabled /\ blocked = c.blocked /\ exclusion = c.exclusion
         /\ next = IF size = 0 THEN 1 ELSE size
         /\ sound = good(saved, size)
<1> DEFINE most == IF Rules[kind].checked THEN 0 ELSE MaxOpen
<1>9. most \in Nat /\ most <= MaxOpen
  BY ItemsAssumption
<1>10. \E size \in 0..most : \E saved \in [0..(size - 1) -> Savable(kind)] : opens(size, saved)
  BY Zenon DEF ItemsInit
<1> HIDE DEF most
<1>11. 0..most \subseteq 0..MaxOpen
  BY <1>9, ItemsAssumption
<1>0. PICK size \in 0..MaxOpen : \E saved \in [0..(size - 1) -> Savable(kind)] : opens(size, saved)
  <2> HIDE DEF opens
  <2> QED BY <1>10, <1>11
<1>1. PICK saved \in [0..(size - 1) -> Savable(kind)] : opens(size, saved)
  BY <1>0, Zenon
<1> DEFINE c == Opened(kind, saved, size)
<1>2. Rules[kind].parsed \in BOOLEAN
  BY ItemsAssumption, ParsedOrNot DEF ItemsInit
<1>3. Savable(kind) \subseteq Keys
  BY <1>2 DEF Savable, Keys
<1>4. saved \in [0..(size - 1) -> Keys]
  BY <1>3
<1>5. HasOpened(c, saved, size)
  BY <1>4, OpenedGives
<1>6. Collection = c
  <2>1. c \in Collections
    BY <1>5 DEF HasOpened
  <2>2. /\ ids = c.ids /\ key = c.key /\ error = c.error /\ duplicate = c.duplicate
        /\ disabled = c.disabled /\ blocked = c.blocked /\ exclusion = c.exclusion
    BY <1>1, Zenon
  <2> HIDE DEF c
  <2> QED BY <2>1, <2>2 DEF Collection, Collections
<1>7. next \in Nat
  <2>1. next = IF size = 0 THEN 1 ELSE size
    BY <1>1, Zenon
  <2> QED BY <2>1, ItemsAssumption
<1>8. ASSUME sound PROVE AllGood(Collection, ids \ {exclusion})
  <2>1. good(saved, size)
    BY <1>1, <1>8, Zenon
  <2> HIDE DEF c
  <2>2. Collection.ids = ids /\ ids = 0..(size - 1) /\ \A i \in 0..(size - 1) : Collection.key[i] = saved[i]
    BY <1>5, <1>6, CollectionFields DEF HasOpened
  <2> QED BY <2>1, <2>2 DEF AllGood, Same
<1>12. HasWayOut(Collection, checking, released, Latest)
  <2>1. checking = FALSE /\ released = FALSE
    BY Zenon DEF ItemsInit
  <2>2. HasWayOut(c, FALSE, FALSE, None)
    BY <1>5 DEF HasOpened
  <2> HIDE DEF c
  <2> QED BY <1>6, <2>1, <2>2 DEF HasWayOut
<1> QED BY <1>5, <1>6, <1>7, <1>8, <1>12, Zenon DEF ItemsInv, HasOpened

LEMMA AddNewItemKeepsIt == ItemsInv /\ AddNewItem => ItemsInv'
<1> SUFFICES ASSUME ItemsInv, AddNewItem PROVE ItemsInv'
  OBVIOUS
<1> DEFINE v == Typed(Blank)
           c == Collection
           a == AddItem(kind, c, next, v)
<1>1. /\ next \in Numbers /\ next' \in Nat /\ (sound' => sound /\ ~ released)
      /\ checking' = checking /\ released' = FALSE /\ Latest' = next
  <2>1. next \in Nat /\ next <= MaxId /\ next' = next + 1
    BY DEF ItemsInv, AddNewItem
  <2>2. (sound' => sound /\ ~ released) /\ checking' = checking /\ released' = FALSE
    BY Zenon DEF AddNewItem
  <2>3. next \in Numbers /\ next' \in Nat /\ Latest' = next
    BY <2>1, ItemsAssumption DEF Numbers, Latest
  <2> QED BY <2>2, <2>3
<1>2. v \in Keys /\ v.text = Blank
  BY DEF Typed, Keys
<1>3. /\ c \in Collections /\ HasWayOut(c, checking, released, Latest)
      /\ sound => AllGood(c, c.ids \ {c.exclusion})
  BY CollectionFields DEF ItemsInv
<1>4. Becomes(a)
  BY DEF AddNewItem
<1>5. sound' => c.exclusion = None
  BY <1>1, <1>3, CollectionFields DEF HasWayOut, AddNewItem
<1> HIDE DEF v, c
<1>6. IsAdded(a, c, next, v)
  BY <1>1, <1>2, <1>3, AddItemGives
<1> HIDE DEF a
<1>7. Collection' = a /\ ids' = a.ids /\ exclusion' = a.exclusion
  BY <1>4, <1>6, BecomesIt DEF IsAdded
<1>8. ASSUME sound' PROVE AllGood(a, a.ids \ {a.exclusion})
  <2>1. AllGood(c, c.ids \ {c.exclusion})
    BY <1>1, <1>3, <1>8, Zenon
  <2>2. \A j \in a.ids \ {next} : a.key[j] = c.key[j] /\ j \in c.ids \ {c.exclusion}
    BY <1>1, <1>3, <1>5, <1>6, <1>8, NumbersAreNumbers DEF IsAdded, Collections
  <2> QED BY <1>1, <1>3, <1>6, <2>1, <2>2, ChangeKeepsGood DEF IsAdded, Settled
<1>9. a.exclusion # None
  <2>1. a.key[next].text = Blank /\ next \in a.ids
    BY <1>1, <1>2, <1>3, <1>6 DEF IsAdded, Collections
  <2> QED BY <1>6, <2>1 DEF IsAdded
<1>10. HasWayOut(a, checking, FALSE, next)
  BY <1>3, <1>6, <1>9, SettledHasWayOut DEF IsAdded
<1>11. HasWayOut(Collection', checking', released', Latest')
  BY <1>1, <1>7, <1>10
<1> QED BY <1>1, <1>6, <1>7, <1>8, <1>11, Zenon DEF ItemsInv, IsAdded

LEMMA TypeKeepsIt ==
  ASSUME ItemsInv, NEW i \in Numbers, NEW t \in Texts \cup {Blank, Odd}, Type(i, t)
  PROVE  ItemsInv'
<1> DEFINE c == Collection
           key1 == [key EXCEPT ![i] = Typed(t)]
           error1 == [error EXCEPT ![i] = (t = Odd)]
           d == [Collection EXCEPT !.key[i] = Typed(t), !.error[i] = (t = Odd)]
           v == ValidateItemsExcept(kind, d, i, ids)
<1>1. /\ i \in ids /\ ~ disabled[i] /\ next' = next /\ Becomes(v)
      /\ checking' = checking /\ released' = FALSE
      /\ sound' => sound /\ (released => i = exclusion)
  BY DEF Type
<1>2. /\ c \in Collections /\ HasWayOut(c, checking, released, Latest)
      /\ sound => AllGood(c, c.ids \ {c.exclusion})
  BY CollectionFields DEF ItemsInv
<1>3. d = [c EXCEPT !.key = key1, !.error = error1]
  BY CollectionFields, Zenon
<1>4. key1 \in [Numbers -> Keys] /\ error1 \in [Numbers -> BOOLEAN] /\ ids \in SUBSET Numbers
  <2>1. key \in [Numbers -> Keys] /\ error \in [Numbers -> BOOLEAN] /\ ids \in SUBSET Numbers
    BY <1>2, CollectionFields DEF Collections
  <2>2. Typed(t) \in Keys
    BY DEF Typed, Keys
  <2>3. (t = Odd) \in BOOLEAN
    OBVIOUS
  <2> HIDE DEF c
  <2>4. \A b \in BOOLEAN : [error EXCEPT ![i] = b] \in [Numbers -> BOOLEAN]
    BY <2>1
  <2>5. error1 \in [Numbers -> BOOLEAN]
    BY <2>3, <2>4, Zenon
  <2>6. key1 \in [Numbers -> Keys]
    BY <2>1, <2>2
  <2> QED BY <2>1, <2>5, <2>6
<1>5. \A j \in Numbers \ {i} : key1[j] = key[j]
  BY <1>2, CollectionFields DEF Collections
<1> HIDE DEF d, key1, error1
<1>6. d \in Collections /\ d.ids = ids /\ d.key = key1 /\ d.disabled = disabled /\ d.exclusion = exclusion
  <2>1. c \in Collections /\ c.ids = ids /\ c.disabled = disabled /\ c.exclusion = exclusion
    BY <1>2, CollectionFields
  <2> HIDE DEF c
  <2> QED BY <1>3, <1>4, <2>1 DEF Collections
<1>8. IsValidated(v, d, i)
  BY <1>1, <1>4, <1>6, ValidateGives
<1>9. sound' => exclusion \in {None, i}
  BY <1>1, <1>2, CollectionFields DEF HasWayOut
<1>7. HasWayOut(d, checking, released, Latest)
  <2>1. d.ids = c.ids /\ d.disabled = c.disabled /\ d.exclusion = c.exclusion /\ d.blocked = c.blocked
    <3>1. c \in Collections /\ c.ids = ids /\ c.disabled = disabled /\ c.exclusion = exclusion
      BY <1>2, CollectionFields
    <3> HIDE DEF c
    <3> QED BY <1>3, <1>4, <3>1 DEF Collections
  <2>2. HasWayOut(c, checking, released, Latest)
    BY <1>2
  <2> HIDE DEF c
  <2> QED BY <2>1, <2>2, Zenon DEF HasWayOut
<1>10. c.key = key /\ c.ids = ids /\ c.exclusion = exclusion
  BY CollectionFields
<1> HIDE DEF v, c
<1>11. Collection' = v /\ ids' = v.ids /\ exclusion' = v.exclusion
  BY <1>1, <1>8, BecomesIt DEF IsValidated
<1>12. ASSUME sound' PROVE AllGood(v, v.ids \ {v.exclusion})
  <2>1. AllGood(c, c.ids \ {c.exclusion})
    BY <1>1, <1>2, <1>12, Zenon
  <2>2. \A j \in v.ids \ {i} : v.key[j] = c.key[j] /\ j \in c.ids \ {c.exclusion}
    BY <1>4, <1>5, <1>6, <1>8, <1>9, <1>10, <1>12, NumbersAreNumbers DEF IsValidated
  <2>3. v.exclusion = None => \A j \in v.ids : v.key[j].text # Blank /\ ~ Same(v, j, i)
    BY <1>8 DEF IsValidated, Same
  <2> QED BY <1>2, <1>8, <2>1, <2>2, <2>3, ChangeKeepsGood DEF IsValidated, Settled
<1>13. next' \in Nat /\ Latest' = Latest
  BY <1>1 DEF ItemsInv, Latest
<1>14. HasWayOut(v, checking, FALSE, Latest)
  BY <1>7, <1>8, SettledHasWayOut DEF IsValidated
<1>15. HasWayOut(Collection', checking', released', Latest')
  BY <1>1, <1>11, <1>13, <1>14
<1> QED BY <1>8, <1>11, <1>12, <1>13, <1>15, Zenon DEF ItemsInv, IsValidated

LEMMA DeleteKeepsIt ==
  ASSUME ItemsInv, NEW i \in Numbers, Delete(i)
  PROVE  ItemsInv'
<1> DEFINE c == Collection
           enabled == IF c.exclusion = i THEN Unblocked(c, c.ids) ELSE [c EXCEPT !.blocked = FALSE]
           d == DeleteItem(c, i)
<1>1. /\ i \in ids /\ exclusion \in {None, i} /\ next' = next /\ sound' = sound /\ Becomes(d)
      /\ checking' = checking /\ released' = FALSE
  BY DEF Delete
<1>2. /\ c \in Collections /\ HasWayOut(c, checking, released, Latest)
      /\ sound => AllGood(c, c.ids \ {c.exclusion})
  BY CollectionFields DEF ItemsInv
<1>3. c.ids \in SUBSET Numbers /\ c.exclusion \in {None, i}
  BY <1>1, <1>2, CollectionFields DEF Collections
<1>4. d = [enabled EXCEPT !.ids = enabled.ids \ {i}]
  BY Zenon DEF DeleteItem
<1> HIDE DEF c
<1>5. /\ enabled \in Collections /\ enabled.ids = c.ids /\ enabled.key = c.key
      /\ enabled.blocked = FALSE /\ enabled.exclusion = None
      /\ \A j \in c.ids : enabled.disabled[j] => checking /\ j = Latest
  <2>1. CASE c.exclusion = i
    <3>1. IsOpened(Unblocked(c, c.ids), c, c.ids)
      BY <1>2, <1>3, UnblockedGives
    <3>2. enabled = Unblocked(c, c.ids)
      BY <2>1
    <3> HIDE DEF enabled
    <3>3. c.exclusion # None
      BY <2>1, NumbersAreNumbers
    <3> QED BY <1>3, <3>1, <3>2, <3>3 DEF IsOpened
  <2>2. CASE c.exclusion # i
    <3>1. c.exclusion = None
      BY <1>3, <2>2
    <3>2. enabled = [c EXCEPT !.blocked = FALSE]
      BY <2>2
    <3>3. \A j \in c.ids : c.disabled[j] => checking /\ j = Latest
      BY <1>2, <3>1 DEF HasWayOut
    <3> HIDE DEF enabled
    <3> QED BY <1>2, <3>1, <3>2, <3>3 DEF Collections
  <2> QED BY <2>1, <2>2
<1> HIDE DEF enabled, d
<1>6. /\ d \in Collections /\ d.ids = c.ids \ {i} /\ d.key = c.key /\ d.blocked = FALSE
      /\ d.exclusion = None /\ d.disabled = enabled.disabled
  BY <1>4, <1>5 DEF Collections
<1>7. HasWayOut(d, checking, FALSE, Latest)
  BY <1>5, <1>6 DEF HasWayOut
<1>8. Collection' = d /\ ids' = d.ids /\ exclusion' = d.exclusion
  BY <1>1, <1>6, BecomesIt
<1>9. ASSUME sound' PROVE AllGood(d, d.ids \ {d.exclusion})
  <2>1. AllGood(c, c.ids \ {c.exclusion})
    BY <1>1, <1>2, <1>9, Zenon
  <2>2. d.ids \ {d.exclusion} \subseteq c.ids \ {c.exclusion}
    BY <1>3, <1>6, NumbersAreNumbers
  <2> QED BY <1>6, <2>1, <2>2 DEF AllGood, Same
<1>10. next' \in Nat /\ Latest' = Latest
  BY <1>1 DEF ItemsInv, Latest
<1>11. HasWayOut(Collection', checking', released', Latest')
  BY <1>1, <1>7, <1>8, <1>10
<1> QED BY <1>6, <1>8, <1>9, <1>10, <1>11, Zenon DEF ItemsInv

LEMMA ClearKeepsIt == ItemsInv /\ Clear => ItemsInv'
<1> SUFFICES ASSUME ItemsInv, Clear PROVE ItemsInv'
  OBVIOUS
<1> DEFINE c == Collection
           u == Unblocked(c, ids)
           d == [u EXCEPT !.ids = {}]
<1>1. c \in Collections /\ ids \in SUBSET Numbers
  BY CollectionFields DEF ItemsInv, Collections
<1>2. Becomes(d) /\ next' = next /\ checking' = checking /\ released' = released
  BY DEF Clear
<1> HIDE DEF c
<1>3. u \in Collections /\ u.exclusion = None /\ u.blocked = FALSE
  BY <1>1, UnblockedGives DEF IsOpened
<1> HIDE DEF u
<1>4. d \in Collections /\ d.ids = {} /\ d.exclusion = None /\ d.blocked = FALSE
  BY <1>3 DEF Collections
<1> HIDE DEF d
<1>5. HasWayOut(d, checking', released', Latest') /\ AllGood(d, d.ids \ {d.exclusion})
  BY <1>4 DEF HasWayOut, AllGood
<1>6. Collection' = d /\ ids' = d.ids /\ exclusion' = d.exclusion
  BY <1>2, <1>4, BecomesIt
<1>7. next' \in Nat
  BY <1>2 DEF ItemsInv
<1> QED BY <1>4, <1>5, <1>6, <1>7, Zenon DEF ItemsInv

\* A check leaves the items, what they hold and the exclusion alone.
LEMMA CheckSets ==
  ASSUME ItemsInv, NEW b \in BOOLEAN, NEW d,
         d = [Collection EXCEPT !.disabled[Latest] = b, !.blocked = b], Becomes(d), sound' = sound
  PROVE  /\ Collection' = d /\ d \in Collections
         /\ ids' = ids /\ exclusion' = exclusion /\ blocked' = b
         /\ \A i \in Numbers : disabled'[i] = IF i = Latest THEN b ELSE disabled[i]
         /\ sound' => AllGood(Collection', ids' \ {exclusion'})
<1> DEFINE c == Collection
           disabled1 == [disabled EXCEPT ![Latest] = b]
<1>1. c \in Collections /\ (sound => AllGood(c, ids \ {exclusion}))
  BY DEF ItemsInv
<1>2. d = [c EXCEPT !.disabled = disabled1, !.blocked = b]
  BY CollectionFields, Zenon
<1>3. disabled1 \in [Numbers -> BOOLEAN] /\ \A i \in Numbers : disabled1[i] = IF i = Latest THEN b ELSE disabled[i]
  BY <1>1, CollectionFields DEF Collections
<1>4. c.ids = ids /\ c.key = key /\ c.exclusion = exclusion
  BY CollectionFields
<1> HIDE DEF c, disabled1
<1>5. /\ d \in Collections /\ d.ids = ids /\ d.key = c.key /\ d.exclusion = exclusion
      /\ d.blocked = b /\ d.disabled = disabled1
  BY <1>1, <1>2, <1>3, <1>4 DEF Collections
<1>6. /\ Collection' = d /\ ids' = ids /\ exclusion' = exclusion
      /\ blocked' = b /\ disabled' = disabled1
  BY <1>5, BecomesIt DEF Becomes
<1>7. ASSUME sound' PROVE AllGood(d, ids \ {exclusion})
  BY <1>1, <1>4, <1>5, <1>7 DEF AllGood, Same
<1> QED BY <1>3, <1>5, <1>6, <1>7

LEMMA StartCheckKeepsIt == ItemsInv /\ StartCheck => ItemsInv'
<1> SUFFICES ASSUME ItemsInv, StartCheck PROVE ItemsInv'
  OBVIOUS
<1> DEFINE d == [Collection EXCEPT !.disabled[Latest] = TRUE, !.blocked = TRUE]
<1>1. Becomes(d) /\ sound' = sound /\ next' = next /\ checking' = TRUE /\ released' = FALSE
  BY DEF StartCheck
<1> HIDE DEF d
<1>2. /\ Collection' = d /\ d \in Collections
      /\ ids' = ids /\ exclusion' = exclusion /\ blocked' = TRUE
      /\ \A i \in Numbers : disabled'[i] = IF i = Latest THEN TRUE ELSE disabled[i]
      /\ sound' => AllGood(Collection', ids' \ {exclusion'})
  BY <1>1, CheckSets DEF d
<1>3. next' \in Nat /\ Latest' = Latest
  BY <1>1 DEF ItemsInv, Latest
<1>4. HasWayOut(Collection', TRUE, FALSE, Latest)
  <2>1. ids \subseteq Numbers /\ HasWayOut(Collection, checking, released, Latest)
    BY CollectionFields DEF ItemsInv, Collections
  <2>2. /\ (Collection').ids = ids /\ (Collection').exclusion = exclusion /\ (Collection').blocked = TRUE
        /\ (Collection').disabled = disabled'
    BY <1>2 DEF Collection
  <2> QED BY <1>2, <2>1, <2>2, CollectionFields DEF HasWayOut
<1> QED BY <1>1, <1>2, <1>3, <1>4 DEF ItemsInv

LEMMA EndCheckKeepsIt == ItemsInv /\ EndCheck => ItemsInv'
<1> SUFFICES ASSUME ItemsInv, EndCheck PROVE ItemsInv'
  OBVIOUS
<1> DEFINE d == [Collection EXCEPT !.disabled[Latest] = FALSE, !.blocked = FALSE]
<1>1. /\ Becomes(d) /\ sound' = sound /\ next' = next /\ checking /\ checking' = FALSE
      /\ released' <=> exclusion # None
  BY DEF EndCheck
<1> HIDE DEF d
<1>2. /\ Collection' = d /\ d \in Collections
      /\ ids' = ids /\ exclusion' = exclusion /\ blocked' = FALSE
      /\ \A i \in Numbers : disabled'[i] = IF i = Latest THEN FALSE ELSE disabled[i]
      /\ sound' => AllGood(Collection', ids' \ {exclusion'})
  BY <1>1, CheckSets DEF d
<1>3. next' \in Nat /\ Latest' = Latest
  BY <1>1 DEF ItemsInv, Latest
<1>4. HasWayOut(Collection', FALSE, released', Latest)
  <2>1. ids \subseteq Numbers /\ HasWayOut(Collection, checking, released, Latest)
    BY CollectionFields DEF ItemsInv, Collections
  <2>2. /\ (Collection').ids = ids /\ (Collection').exclusion = exclusion /\ (Collection').blocked = FALSE
        /\ (Collection').disabled = disabled'
    BY <1>2 DEF Collection
  <2> QED BY <1>1, <1>2, <2>1, <2>2, CollectionFields DEF HasWayOut
<1> QED BY <1>1, <1>2, <1>3, <1>4 DEF ItemsInv

LEMMA ItemsStepKeepsIt == ItemsInv /\ [ItemsNext]_itemsVars => ItemsInv'
<1> SUFFICES ASSUME ItemsInv, [ItemsNext]_itemsVars PROVE ItemsInv'
  OBVIOUS
<1>1. CASE AddNewItem
  BY <1>1, AddNewItemKeepsIt
<1>2. ASSUME NEW i \in Numbers, Delete(i) PROVE ItemsInv'
  BY <1>2, DeleteKeepsIt
<1>3. ASSUME NEW i \in Numbers, NEW t \in Texts \cup {Blank, Odd}, Type(i, t) PROVE ItemsInv'
  BY <1>3, TypeKeepsIt
<1>4. CASE Clear
  BY <1>4, ClearKeepsIt
<1>5. CASE UNCHANGED itemsVars
  BY <1>5 DEF itemsVars, ItemsInv, Collection, Latest
<1>6. CASE StartCheck
  BY <1>6, StartCheckKeepsIt
<1>7. CASE EndCheck
  BY <1>7, EndCheckKeepsIt
<1> QED BY <1>1, <1>2, <1>3, <1>4, <1>5, <1>6, <1>7 DEF ItemsNext

LEMMA ItemsInvIsKept == ItemsSpec => []ItemsInv
BY ItemsStart, ItemsStepKeepsIt, PTL DEF ItemsSpec

\* A collection that is blocked has exactly one item that can be edited, which is there,
\* or a check of the network that ends; the others are disabled, and none is left disabled
\* without cause, whatever was typed, added and deleted, before, during and after checks,
\* and in whatever order: validateItemsExcept, addItem, deleteItem, clear, disable and
\* enable.  ManagedCollection.tsx 91-146, OpenShiftPodConfigurator.ts 41-53.
THEOREM BlockedCollectionsHaveAWayOut == ItemsSpec => []BlockedHasWayOut
<1>1. ItemsInv => BlockedHasWayOut
  BY ItemsInvImplies
<1> QED BY <1>1, ItemsInvIsKept, PTL

\* In a collection that opened with valid items every item but the one that may be
\* edited is neither blank nor named as another such item, although a validation
\* compares with the item that changed only; until something is added or typed past an
\* item that the end of a check has released.  ManagedCollection.tsx 116-146.
THEOREM OnlyTheExclusionIsBad == ItemsSpec => []OnlyExclusionIsBad
<1>1. ItemsInv => OnlyExclusionIsBad
  BY ItemsInvImplies
<1> QED BY <1>1, ItemsInvIsKept, PTL
=============================================================================
