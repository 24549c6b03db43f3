---------------------------- MODULE PlatformClient ----------------------------
(***************************************************************************)
(* The connections of one page of the web client (PlatformClient.ts and    *)
(* the start of the page in index.ts).  One client, Main, is shared by all *)
(* requests and decides what the page shows; every stream the page opens   *)
(* has a client and a socket of its own.  A client that has once tried to  *)
(* connect listens: at each tick it looks at the state of Main, whoever it *)
(* is itself, and tries again; whichever try succeeds reloads the page.    *)
(*                                                                         *)
(* Covered: servers that stop and start, sockets that break alone, several *)
(* tries under way at once, streams disposed at any time, requests pending *)
(* when the connection breaks.  Left out: payloads and tokens; requests by *)
(* fireAndForget, which have no answer; errors the server answers with,    *)
(* which end a request as its answer does.                                 *)
(*                                                                         *)
(* Definitions headed "Slip" are plausible mistakes in the definition that *)
(* follows them; no specification uses them.                               *)
(***************************************************************************)
EXTENDS Naturals, FiniteSets

CONSTANTS
  Main,        \* the client all requests share
  Streams,     \* the streams a page opens, each with a client of its own
  Requests,    \* requests of the page
  MaxTries,    \* bound: tries of one client under way at once
  MaxStops,    \* bound: stops of the server
  MaxBreaks    \* bound: sockets that break alone

ASSUME ConstantsAssumption ==
  /\ Main \notin Streams
  /\ MaxTries \in Nat \ {0} /\ MaxStops \in Nat /\ MaxBreaks \in Nat

Clients == {Main} \cup Streams
Statuses == {"NOT_CONNECTED", "CONNECTED", "CLOSED", "ERROR"}
Lost == {"NOT_CONNECTED", "CLOSED", "ERROR"}
Pages == {"loading", "shown", "failed"}

VARIABLES
  page,        \* what index.ts has rendered
  reloading,   \* has window.location.reload been called?
  status,      \* connectionStatus of each client
  first,       \* clients whose first connection is under way
  retries,     \* [Clients -> Nat]: further connections under way
  listening,   \* clients whose reconnectionInterval is set
  socket,      \* clients whose socket is open
  doomed,      \* clients whose open socket leads to a server that has stopped
  feeds,       \* [Streams -> Nat]: subscriptions of a stream's handler at the server
  opened,      \* streams the page has asked for
  disposed,    \* streams whose disposer was called
  early,       \* history: streams disposed before they were connected
  pending,     \* requests without an outcome
  alone,       \* history: streams whose socket broke alone
  server,      \* is the server up?
  faults       \* [{"stop", "break"} -> Nat]: faults so far

connections == <<status, first, retries, listening, socket, doomed>>
streams == <<feeds, opened, disposed, early, alone>>
vars == <<page, reloading, connections, streams, pending, server, faults>>

\* Everything a page keeps is gone when it is loaded: Main connects afresh.
FreshPage ==
  /\ page = "loading"
  /\ reloading = FALSE
  /\ status = [c \in Clients |-> "NOT_CONNECTED"]
  /\ first = {Main}
  /\ retries = [c \in Clients |-> 0]
  /\ listening = {} /\ socket = {} /\ doomed = {}
  /\ feeds = [s \in Streams |-> 0]
  /\ opened = {} /\ disposed = {} /\ early = {} /\ alone = {}
  /\ pending = {}

Init ==
  /\ FreshPage
  /\ server \in BOOLEAN
  /\ faults = [f \in {"stop", "break"} |-> 0]

-----------------------------------------------------------------------------
\* What every successful connection does before it calls back.
Connected(c) ==
  /\ server
  /\ status' = [status EXCEPT ![c] = "CONNECTED"]
  /\ socket' = socket \cup {c}
  /\ doomed' = doomed \ {c}
  /\ UNCHANGED <<opened, disposed, early, alone, pending, server, faults>>

\* The first connection calls back who asked for it: index.ts renders the page,
\* requestStream subscribes the handler, disposed or not.
FirstConnects(c) ==
  /\ c \in first
  /\ Connected(c)
  /\ first' = first \ {c}
  /\ listening' = listening \cup {c}
  /\ page' = IF c = Main THEN "shown" ELSE page
  /\ feeds' = IF c = Main THEN feeds ELSE [feeds EXCEPT ![c] = @ + 1]
  /\ UNCHANGED <<retries, reloading>>

\* Slip: a further connection calls back who asked for the first.
RetrySubscribes(c) ==
  /\ retries[c] > 0
  /\ Connected(c)
  /\ retries' = [retries EXCEPT ![c] = @ - 1]
  /\ page' = IF c = Main THEN "shown" ELSE page
  /\ feeds' = IF c = Main THEN feeds ELSE [feeds EXCEPT ![c] = @ + 1]
  /\ UNCHANGED <<first, listening, reloading>>

\* Slip: a further connection shows the page that is there.
RetryShows(c) ==
  /\ retries[c] > 0
  /\ Connected(c)
  /\ retries' = [retries EXCEPT ![c] = @ - 1]
  /\ page' = IF c = Main THEN "shown" ELSE page
  /\ UNCHANGED <<first, listening, reloading, feeds>>

\* A further connection stops the interval and reloads the page.
RetryConnects(c) ==
  /\ retries[c] > 0
  /\ Connected(c)
  /\ retries' = [retries EXCEPT ![c] = @ - 1]
  /\ listening' = listening \ {c}
  /\ reloading' = TRUE
  /\ UNCHANGED <<page, first, feeds>>

\* A connection fails: Main shows the failure, a stream tells its handler.
TryFails(c) ==
  /\ ~ server
  /\ \/ c \in first /\ first' = first \ {c} /\ UNCHANGED retries
     \/ retries[c] > 0 /\ retries' = [retries EXCEPT ![c] = @ - 1] /\ UNCHANGED first
  /\ status' = [status EXCEPT ![c] = "ERROR"]
  /\ listening' = listening \cup {c}
  /\ page' = IF c = Main THEN "failed" ELSE page
  /\ UNCHANGED <<reloading, socket, doomed, streams, pending, server, faults>>

\* Slip: a tick takes a connection that failed for one under way.
TickUnlessError(c) ==
  /\ c \in listening
  /\ status[Main] = "CLOSED"
  /\ retries[c] < MaxTries
  /\ retries' = [retries EXCEPT ![c] = @ + 1]
  /\ UNCHANGED <<page, reloading, status, first, listening, socket, doomed, streams, pending, server, faults>>

\* A tick of the interval of any client looks at the state of Main.
Tick(c) ==
  /\ c \in listening
  /\ status[Main] \in Lost
  /\ retries[c] < MaxTries
  /\ retries' = [retries EXCEPT ![c] = @ + 1]
  /\ UNCHANGED <<page, reloading, status, first, listening, socket, doomed, streams, pending, server, faults>>

\* The page is left: beforeunload disposes all, and the page loads anew.
Unload ==
  /\ reloading
  /\ page' = "loading"
  /\ reloading' = FALSE
  /\ status' = [c \in Clients |-> "NOT_CONNECTED"]
  /\ first' = {Main}
  /\ retries' = [c \in Clients |-> 0]
  /\ listening' = {} /\ socket' = {} /\ doomed' = {}
  /\ feeds' = [s \in Streams |-> 0]
  /\ opened' = {} /\ disposed' = {} /\ early' = {} /\ alone' = {}
  /\ pending' = {}
  /\ UNCHANGED <<server, faults>>

-----------------------------------------------------------------------------
\* requestStream: a new client, which connects.
OpenStream(s) ==
  /\ page = "shown"
  /\ s \notin opened
  /\ opened' = opened \cup {s}
  /\ first' = first \cup {s}
  /\ UNCHANGED <<page, reloading, status, retries, listening, socket, doomed,
                 feeds, disposed, early, alone, pending, server, faults>>

\* Slip: the disposer forgets the stream without cancelling its subscription.
DisposeForgetting(s) ==
  /\ s \in opened \ disposed
  /\ disposed' = disposed \cup {s}
  /\ early' = IF s \in first THEN early \cup {s} ELSE early
  /\ UNCHANGED <<page, reloading, connections, feeds, opened, alone, pending, server, faults>>

\* The disposer cancels the subscriptions of the client and closes its socket, when it
\* has one; a connection still under way, and the interval, stay.
DisposeStream(s) ==
  /\ s \in opened \ disposed
  /\ disposed' = disposed \cup {s}
  /\ early' = IF s \in first THEN early \cup {s} ELSE early
  /\ feeds' = [feeds EXCEPT ![s] = 0]
  /\ socket' = socket \ {s}
  /\ doomed' = doomed \ {s}
  /\ status' = IF s \in socket THEN [status EXCEPT ![s] = "CLOSED"] ELSE status
  /\ UNCHANGED <<page, reloading, first, retries, listening, opened, alone, pending, server, faults>>

\* A request on a socket that is closed fails at once, with no step to show it.
Request(r) ==
  /\ page = "shown"
  /\ Main \in socket
  /\ r \notin pending
  /\ pending' = pending \cup {r}
  /\ UNCHANGED <<page, reloading, connections, streams, server, faults>>

Answer(r) ==
  /\ r \in pending
  /\ server /\ Main \in socket \ doomed
  /\ pending' = pending \ {r}
  /\ UNCHANGED <<page, reloading, connections, streams, server, faults>>

\* What a client does when its socket is closed under it: its subscriptions end with
\* an error, and so do the requests on Main.
SocketLost(c) ==
  /\ socket' = socket \ {c}
  /\ doomed' = doomed \ {c}
  /\ status' \in {[status EXCEPT ![c] = "CLOSED"], [status EXCEPT ![c] = "ERROR"]}
  /\ feeds' = IF c = Main THEN feeds ELSE [feeds EXCEPT ![c] = 0]
  /\ pending' = IF c = Main THEN {} ELSE pending
  /\ UNCHANGED <<page, reloading, first, retries, listening, opened, disposed, early, server>>

SocketCloses(c) ==
  /\ c \in socket \cap doomed
  /\ SocketLost(c)
  /\ UNCHANGED <<alone, faults>>

SocketBreaks(c) ==
  /\ c \in socket \ doomed
  /\ faults["break"] < MaxBreaks
  /\ faults' = [faults EXCEPT !["break"] = @ + 1]
  /\ SocketLost(c)
  /\ alone' = IF c = Main THEN alone ELSE alone \cup {c}

-----------------------------------------------------------------------------
ServerStops ==
  /\ server
  /\ faults["stop"] < MaxStops
  /\ server' = FALSE
  /\ doomed' = socket
  /\ faults' = [faults EXCEPT !["stop"] = @ + 1]
  /\ UNCHANGED <<page, reloading, status, first, retries, listening, socket, streams, pending>>

ServerStarts ==
  /\ ~ server
  /\ server' = TRUE
  /\ UNCHANGED <<page, reloading, connections, streams, pending, faults>>

PageStep ==
  \/ Unload
  \/ \E c \in Clients : FirstConnects(c) \/ RetryConnects(c) \/ TryFails(c) \/ Tick(c) \/ SocketCloses(c)

UserStep ==
  \/ \E s \in Streams : OpenStream(s) \/ DisposeStream(s)
  \/ \E r \in Requests : Request(r) \/ Answer(r)

Next == PageStep \/ UserStep \/ ServerStops \/ ServerStarts \/ \E c \in Clients : SocketBreaks(c)

Spec == Init /\ [][Next]_vars

\* The browser runs its timers and callbacks, sockets of a stopped server close within
\* the lifetime of RSocket, the server answers or stops, and comes back when it stopped.
Fairness ==
  /\ WF_vars(Unload) /\ WF_vars(ServerStarts)
  /\ \A c \in Clients :
       /\ WF_vars(FirstConnects(c)) /\ WF_vars(TryFails(c))
       /\ WF_vars(RetryConnects(c)) /\ WF_vars(Tick(c)) /\ WF_vars(SocketCloses(c))
  /\ \A r \in Requests : WF_vars(Answer(r))

FairSpec == Spec /\ Fairness

-----------------------------------------------------------------------------
\* The connections of a client fit what the page has asked for: only a client that
\* exists connects, and only a stream that was opened is disposed.
TypeOK ==
  /\ page \in Pages /\ reloading \in BOOLEAN /\ server \in BOOLEAN
  /\ status \in [Clients -> Statuses]
  /\ first \subseteq {Main} \cup opened
  /\ retries \in [Clients -> 0..MaxTries]
  /\ listening \subseteq Clients
  /\ socket \subseteq Clients /\ doomed \subseteq socket
  /\ feeds \in [Streams -> Nat]
  /\ opened \subseteq Streams /\ disposed \subseteq opened
  /\ early \subseteq disposed /\ alone \subseteq Streams
  /\ pending \subseteq Requests
  /\ faults \in [{"stop", "break"} -> Nat]

\* However many connections a client makes, the handler of a stream is subscribed at
\* most once: events are never handled twice (further connections reload the page
\* instead of calling back).
HandlerFedOnce == \A s \in Streams : feeds[s] <= 1

\* A stream that was disposed feeds nobody, unless it was disposed while its connection
\* was being made: requestStream's disposer finds no stream to stop then.
DisposedIsSilent == \A s \in disposed \ early : feeds[s] = 0

\* A request never waits on a socket that is gone: it ended with an error then, or the
\* page was loaded anew.
PendingHasSocket == pending # {} => Main \in socket

\* The page comes back however the server and the sockets fail.
PageReturns == []<>(page = "shown" /\ status[Main] = "CONNECTED")

\* A stream that was lost with the server comes back by a reload of the page; only one
\* whose socket breaks while the others stand is lost silently.
LostStreamsEnd ==
  \A s \in Streams :
    (s \in opened \ (disposed \cup alone) /\ feeds[s] = 0) ~>
      (s \notin opened \/ s \in disposed \cup alone \/ feeds[s] = 1)
=============================================================================
