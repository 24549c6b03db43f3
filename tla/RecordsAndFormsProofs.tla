--------------------------- MODULE RecordsAndFormsProofs ----------------------
(***************************************************************************)
(* Proofs about a page of records, for any projects, records, versions,    *)
(* changes and clicks: the loader never stays for nothing; a page with     *)
(* nothing under way shows what its tab and versions ask for; and a card   *)
(* that has a record has by then been handed the latest.                   *)
(*                                                                         *)
(* The loader is its own inductive part: what an answer takes away while   *)
(* the loader is shown is silent, or it removes the loader, or it asks     *)
(* again aloud.  For what the page shows, the invariant follows the reason *)
(* why it will be right: an event that makes the page ask again, a request *)
(* that leads to another, or a last request whose answer is, or will be,   *)
(* the list that is wanted; a module that was moved to another version has *)
(* no such reason.  For the cards it follows the latest event of each      *)
(* record, from the wire through StreamsActivator to the card.             *)
(*                                                                         *)
(* And proofs about the forms of the client, for any of them: whatever     *)
(* lists, keys, clicks and answers come when, the button stands for a form *)
(* in order, a duplicate is shown, and nothing is sent twice.  The         *)
(* invariant follows the request too: it will enable the button of a page  *)
(* whatever the page holds, so the page must stay in order until then; and *)
(* a dialog that has sent its request is closed, its name blank and its    *)
(* button disabled, which is what a late click of the Enter key finds.     *)
(***************************************************************************)
EXTENDS RecordViews, EntityForms, SequenceTheorems, TLAPS

QueryType ==
  [step : {"filter", "list"}, tab : Projects, chosen : SUBSET Versions, silent : BOOLEAN,
   answer : [Records -> Int], overtaken : BOOLEAN]

\* What the argument needs of the types.
Typed ==
  /\ queries \in Seq(QueryType)
  /\ tab \in Projects /\ chosen \subseteq Versions
  /\ filtering \in BOOLEAN
  /\ db \in [Records -> Nat]
  /\ kind \in Kinds

IInv == Typed /\ LoaderHasQuery

\* A sequence of requests one of which is not silent.
Loud(qs) == \E i \in DOMAIN qs : ~ qs[i].silent

LEMMA QueryIsTyped ==
  ASSUME NEW step \in {"filter", "list"}, NEW p \in Projects, NEW vs \in SUBSET Versions,
         NEW silent \in BOOLEAN
  PROVE  /\ Query(step, p, vs, silent) \in QueryType
         /\ Query(step, p, vs, silent).silent = silent
BY DEF Query, QueryType, Unserved

LEMMA FirstIsTyped ==
  ASSUME kind \in Kinds, NEW p \in Projects, NEW vs \in SUBSET Versions, NEW silent \in BOOLEAN
  PROVE  /\ First(kind, p, vs, silent) \in QueryType
         /\ silent = FALSE => ~ First(kind, p, vs, silent).silent
<1>1. kind \in {"assemblies", "modules", "configurations"}
  BY DEF Kinds
<1> QED BY <1>1, QueryIsTyped DEF First

\* One more request keeps the others, and is heard itself.
LEMMA AppendIsLoud ==
  ASSUME NEW qs \in Seq(QueryType), NEW q \in QueryType
  PROVE  /\ Append(qs, q) \in Seq(QueryType)
         /\ Loud(qs) => Loud(Append(qs, q))
         /\ ~ q.silent => Loud(Append(qs, q))
<1>1. Append(qs, q) \in Seq(QueryType)
  OBVIOUS
<1>2. ASSUME Loud(qs) PROVE Loud(Append(qs, q))
  <2>1. PICK i \in DOMAIN qs : ~ qs[i].silent
    BY <1>2 DEF Loud
  <2>2. i \in DOMAIN Append(qs, q) /\ Append(qs, q)[i] = qs[i]
    OBVIOUS
  <2> QED BY <2>1, <2>2 DEF Loud
<1>3. ASSUME ~ q.silent PROVE Loud(Append(qs, q))
  <2>1. Len(qs) + 1 \in DOMAIN Append(qs, q) /\ Append(qs, q)[Len(qs) + 1] = q
    OBVIOUS
  <2> QED BY <1>3, <2>1 DEF Loud
<1> QED BY <1>1, <1>2, <1>3

\* What is left when one request goes.
LEMMA RemoveGives ==
  ASSUME NEW qs \in Seq(QueryType), NEW i \in DOMAIN qs
  PROVE  /\ RemoveAt(qs, i) \in Seq(QueryType)
         /\ Len(RemoveAt(qs, i)) = Len(qs) - 1
         /\ \A j \in 1..(Len(qs) - 1) : RemoveAt(qs, i)[j] = IF j < i THEN qs[j] ELSE qs[j + 1]
<1> DEFINE rest == RemoveAt(qs, i)
<1>0. i \in 1..Len(qs) /\ Len(qs) \in Nat
  OBVIOUS
<1> DEFINE before == SubSeq(qs, 1, i - 1)
           after == SubSeq(qs, i + 1, Len(qs))
<1>1. before \in Seq(QueryType) /\ Len(before) = i - 1 /\ \A j \in 1..(i - 1) : before[j] = qs[j]
  BY <1>0
<1>2. after \in Seq(QueryType) /\ Len(after) = Len(qs) - i
  BY <1>0
<1>3. \A j \in 1..(Len(qs) - i) : after[j] = qs[i + j]
  BY <1>0
<1>4. rest = before \o after
  BY DEF RemoveAt
<1> HIDE DEF before, after, rest
<1>5. rest \in Seq(QueryType) /\ Len(rest) = Len(qs) - 1
  BY <1>0, <1>1, <1>2, <1>4
<1>6. ASSUME NEW j \in 1..(Len(qs) - 1)
      PROVE  rest[j] = IF j < i THEN qs[j] ELSE qs[j + 1]
  <2>1. CASE j < i
    BY <1>0, <1>1, <1>2, <1>4, <2>1
  <2>2. CASE ~ (j < i)
    <3>0. j - (i - 1) \in 1..(Len(qs) - i) /\ j \in 1..(Len(before) + Len(after)) /\ j > Len(before)
      BY <1>0, <1>1, <1>2, <2>2
    <3>1. (before \o after)[j] = after[j - Len(before)]
      BY <1>1, <1>2, <3>0
    <3>2. rest[j] = after[j - (i - 1)]
      BY <1>1, <1>4, <3>1
    <3>3. i + (j - (i - 1)) = j + 1
      BY <1>0
    <3> QED BY <1>3, <2>2, <3>0, <3>2, <3>3
  <2> QED BY <2>1, <2>2
<1> QED BY <1>5, <1>6 DEF rest

\* A silent request that goes leaves the others.
LEMMA RemoveIsLoud ==
  ASSUME NEW qs \in Seq(QueryType), NEW i \in DOMAIN qs
  PROVE  /\ RemoveAt(qs, i) \in Seq(QueryType)
         /\ qs[i].silent /\ Loud(qs) => Loud(RemoveAt(qs, i))
<1> DEFINE rest == RemoveAt(qs, i)
<1>0. i \in 1..Len(qs) /\ Len(qs) \in Nat
  OBVIOUS
<1>1. /\ rest \in Seq(QueryType)
      /\ Len(rest) = Len(qs) - 1
      /\ \A j \in 1..(Len(qs) - 1) : rest[j] = IF j < i THEN qs[j] ELSE qs[j + 1]
  BY RemoveGives
<1> HIDE DEF rest
<1>2. ASSUME qs[i].silent, Loud(qs) PROVE Loud(rest)
  <2>1. PICK k \in DOMAIN qs : ~ qs[k].silent
    BY <1>2 DEF Loud
  <2>2. k # i
    BY <1>2, <2>1
  <2>3. CASE k < i
    <3>1. k \in DOMAIN rest /\ rest[k] = qs[k]
      BY <1>0, <1>1, <2>3
    <3> QED BY <2>1, <3>1 DEF Loud
  <2>4. CASE k > i
    <3>1. k - 1 \in DOMAIN rest /\ rest[k - 1] = qs[k]
      BY <1>0, <1>1, <2>4
    <3> QED BY <2>1, <3>1 DEF Loud
  <2> QED BY <1>0, <2>2, <2>3, <2>4
<1> QED BY <1>1, <1>2 DEF rest

\* Asking for a list keeps the loader justified when it was so by what is left.
LEMMA FilterPreserves ==
  ASSUME NEW qs \in Seq(QueryType), NEW p \in Projects, NEW vs \in SUBSET Versions,
         NEW silent \in BOOLEAN, filtering \in BOOLEAN,
         Filter(p, vs, silent, qs), filtering => failed \/ Loud(qs) \/ ~ silent
  PROVE  /\ queries' \in Seq(QueryType) /\ filtering' \in BOOLEAN
         /\ filtering' => failed \/ Loud(queries')
<1> DEFINE q == Query("list", p, vs, silent)
<1>1. q \in QueryType /\ q.silent = silent
  BY QueryIsTyped
<1>2. queries' = Append(qs, q) /\ filtering' = (filtering \/ ~ silent)
  BY DEF Filter
<1> QED BY <1>1, <1>2, AppendIsLoud

LEMMA UpdateFilterPreserves ==
  ASSUME IInv, NEW qs \in Seq(QueryType), NEW p \in Projects,
         NEW vs \in SUBSET Versions, NEW silent \in BOOLEAN,
         UpdateFilter(p, vs, silent, qs), Loud(queries) => Loud(qs)
  PROVE  /\ queries' \in Seq(QueryType) /\ filtering' \in BOOLEAN
         /\ filtering' => failed \/ Loud(queries')
<1>1. filtering \in BOOLEAN /\ (filtering => failed \/ Loud(qs)) /\ kind \in Kinds
  BY DEF IInv, Typed, LoaderHasQuery, Loud
<1>2. CASE kind = "assemblies"
  BY <1>1, <1>2, FilterPreserves DEF UpdateFilter
<1>3. CASE kind # "assemblies"
  <2>1. queries' = Append(qs, First(kind, p, vs, silent)) /\ filtering' = filtering
    BY <1>3 DEF UpdateFilter
  <2> QED BY <1>1, <2>1, FirstIsTyped, AppendIsLoud
<1> QED BY <1>2, <1>3

\* The only request there is.
LEMMA OneIsLoud ==
  ASSUME NEW q \in QueryType, ~ q.silent
  PROVE  <<q>> \in Seq(QueryType) /\ Loud(<<q>>)
<1>1. 1 \in DOMAIN <<q>> /\ <<q>>[1] = q
  OBVIOUS
<1> QED BY <1>1 DEF Loud

LEMMA InitInv == Init => IInv
<1> SUFFICES ASSUME Init PROVE IInv
  OBVIOUS
<1> DEFINE q == First(kind, tab, {}, FALSE)
<1>1. q \in QueryType /\ ~ q.silent
  BY FirstIsTyped DEF Init
<1>2. queries = <<q>>
  BY DEF Init
<1> HIDE DEF q
<1>3. queries \in Seq(QueryType) /\ Loud(queries)
  BY <1>1, <1>2, OneIsLoud
<1>4. Typed
  <2>1. db \in [Records -> Nat]
    BY DEF Init
  <2> QED BY <1>3, <2>1 DEF Init, Typed
<1> QED BY <1>3, <1>4 DEF IInv, LoaderHasQuery, Loud

\* A step that leaves the requests and the loader alone.
LEMMA RestPreserves ==
  ASSUME IInv, UNCHANGED <<kind, queries, tab, filtering, failed>>, chosen' \subseteq Versions,
         db' \in [Records -> Nat]
  PROVE  IInv'
BY DEF IInv, Typed, LoaderHasQuery

LEMMA ServeQueryPreserves ==
  ASSUME IInv, NEW i \in DOMAIN queries, ServeQuery(i)
  PROVE  IInv'
<1>0. PICK L : queries' = [queries EXCEPT ![i].answer = [r \in Records |-> IF r \in L THEN db[r] ELSE 0]]
  BY DEF ServeQuery
<1> DEFINE answer == [r \in Records |-> IF r \in L THEN db[r] ELSE 0]
<1>1. queries' = [queries EXCEPT ![i].answer = answer]
  BY <1>0
<1>2. answer \in [Records -> Int]
  BY DEF IInv, Typed
<1> HIDE DEF answer
<1> DEFINE q == [queries[i] EXCEPT !.answer = answer]
<1>3. queries \in Seq(QueryType) /\ i \in 1..Len(queries)
  BY DEF IInv, Typed
<1>4. q \in QueryType /\ q.silent = queries[i].silent
  <2>1. queries[i] \in QueryType
    BY <1>3
  <2> QED BY <1>2, <2>1 DEF QueryType
<1>5. queries' = [queries EXCEPT ![i] = q]
  BY <1>1
<1> HIDE DEF q
<1>6. queries' \in Seq(QueryType) /\ Len(queries') = Len(queries)
  BY <1>3, <1>4, <1>5, ExceptSeq
<1>7. \A j \in 1..Len(queries) : queries'[j] = IF j = i THEN q ELSE queries[j]
  BY <1>3, <1>4, <1>5, ExceptSeq
<1>8. Loud(queries) => Loud(queries')
  BY <1>3, <1>4, <1>6, <1>7 DEF Loud
<1> QED BY <1>6, <1>8 DEF ServeQuery, IInv, Typed, LoaderHasQuery, Loud, server

LEMMA SelectTabPreserves ==
  ASSUME IInv, NEW p \in Projects, SelectTab(p)
  PROVE  IInv'
<1>1. tab' \in Projects /\ chosen' \subseteq Versions /\ db' \in [Records -> Nat] /\ failed' = failed
  BY DEF SelectTab, Kept, IInv, Typed, server
<1>2. queries \in Seq(QueryType)
  BY DEF IInv, Typed
<1>3. CASE chosen' = chosen
  <2>1. UpdateFilter(p, chosen', FALSE, queries)
    BY <1>3 DEF SelectTab
  <2>2. /\ queries' \in Seq(QueryType) /\ filtering' \in BOOLEAN
        /\ filtering' => failed \/ Loud(queries')
    BY <1>1, <1>2, <2>1, UpdateFilterPreserves
  <2> QED BY <1>1, <2>2 DEF SelectTab, IInv, Typed, LoaderHasQuery, Loud
<1>4. CASE chosen' # chosen
  <2> DEFINE q == Query("list", p, chosen', FALSE)
             f == First(kind, p, chosen', FALSE)
  <2>1. filtering' = TRUE /\ queries' = queries \o <<q, f>>
    BY <1>4 DEF SelectTab
  <2>2. q \in QueryType /\ ~ q.silent /\ f \in QueryType
    BY <1>1, QueryIsTyped, FirstIsTyped DEF IInv, Typed
  <2> HIDE DEF q, f
  <2>3. <<q, f>> \in Seq(QueryType) /\ Len(<<q, f>>) = 2 /\ <<q, f>>[1] = q
    BY <2>2
  <2>4. /\ queries' \in Seq(QueryType) /\ Len(queries) + 1 \in DOMAIN queries'
        /\ queries'[Len(queries) + 1] = q
    BY <1>2, <2>1, <2>3
  <2> QED BY <1>1, <2>1, <2>2, <2>4 DEF SelectTab, IInv, Typed, LoaderHasQuery
<1> QED BY <1>3, <1>4

LEMMA ChangePreserves ==
  ASSUME IInv, NEW r \in Records, Change(r) \/ DeleteConfiguration(r)
  PROVE  IInv'
<1>1. UNCHANGED <<kind, queries, tab, filtering, failed, chosen>>
  BY DEF Change, DeleteConfiguration, page
<1>2. db' \in [Records -> Nat]
  BY DEF Change, DeleteConfiguration, IInv, Typed
<1> QED BY <1>1, <1>2, RestPreserves DEF IInv, Typed

\* The steps that leave the requests, the loader and the records alone.
LEMMA OthersPreserve ==
  ASSUME IInv,
         \/ StreamSubscribes
         \/ \E r \in Records : ServeReading(r) \/ AnswerReading(r) \/ Expand(r)
         \/ \E v \in Versions : TogglePanel(v)
         \/ UNCHANGED vars
  PROVE  IInv'
<1>1. UNCHANGED <<kind, queries, tab, filtering, failed, chosen, db>>
  BY DEF StreamSubscribes, ServeReading, AnswerReading, Expand, TogglePanel, vars, page, server
<1> QED BY <1>1, RestPreserves DEF IInv, Typed

LEMMA ClickPreserves ==
  ASSUME IInv, CloseAddition \/ \E vs \in SUBSET Versions : ChooseVersions(vs)
  PROVE  IInv'
<1>1. queries \in Seq(QueryType) /\ tab \in Projects /\ chosen \in SUBSET Versions
      /\ filtering \in BOOLEAN
  BY DEF IInv, Typed
<1>2. CASE CloseAddition
  <2>1. /\ queries' \in Seq(QueryType) /\ filtering' \in BOOLEAN
        /\ filtering' => failed \/ Loud(queries')
    BY <1>1, <1>2, UpdateFilterPreserves DEF CloseAddition
  <2> QED BY <1>2, <2>1 DEF CloseAddition, IInv, Typed, LoaderHasQuery, Loud, server
<1>3. ASSUME NEW vs \in SUBSET Versions, ChooseVersions(vs) PROVE IInv'
  <2>1. Filter(tab, vs, FALSE, queries)
    BY <1>3 DEF ChooseVersions
  <2>2. filtering => failed \/ Loud(queries)
    BY DEF IInv, LoaderHasQuery, Loud
  <2>3. /\ queries' \in Seq(QueryType) /\ filtering' \in BOOLEAN
        /\ filtering' => failed \/ Loud(queries')
    BY <1>1, <2>1, <2>2, FilterPreserves
  <2> QED BY <1>3, <2>3 DEF ChooseVersions, IInv, Typed, LoaderHasQuery, Loud, server
<1> QED BY <1>2, <1>3

LEMMA QueryFailsPreserves ==
  ASSUME IInv, NEW i \in DOMAIN queries, QueryFails(i)
  PROVE  IInv'
<1>1. queries' \in Seq(QueryType)
  BY RemoveIsLoud DEF QueryFails, IInv, Typed
<1> QED BY <1>1 DEF QueryFails, IInv, Typed, LoaderHasQuery, server

\* An event makes the page ask again, silently, or not at all.
LEMMA DeliverPreserves ==
  ASSUME IInv, NEW e, Deliver(e)
  PROVE  /\ queries' \in Seq(QueryType) /\ filtering' \in BOOLEAN
         /\ filtering' => failed \/ Loud(queries')
         /\ UNCHANGED <<tab, chosen, failed>>
<1>1. queries \in Seq(QueryType) /\ tab \in Projects /\ chosen \in SUBSET Versions
      /\ filtering \in BOOLEAN /\ (filtering => failed \/ Loud(queries))
  BY DEF IInv, Typed, LoaderHasQuery, Loud
<1>2. CASE AsksAgain(e)
  BY <1>1, <1>2, UpdateFilterPreserves DEF Deliver
<1>3. CASE ~ AsksAgain(e)
  BY <1>1, <1>3 DEF Deliver, Loud
<1> QED BY <1>2, <1>3

LEMMA EventPreserves ==
  ASSUME IInv, Receive \/ \E e \in resolving : Resolve(e)
  PROVE  IInv'
<1>1. ASSUME NEW e, Deliver(e), UNCHANGED <<kind, server>>
      PROVE  IInv'
  <2>1. /\ queries' \in Seq(QueryType) /\ filtering' \in BOOLEAN
        /\ filtering' => failed \/ Loud(queries')
        /\ UNCHANGED <<tab, chosen, failed>>
    BY <1>1, DeliverPreserves
  <2> QED BY <1>1, <2>1 DEF IInv, Typed, LoaderHasQuery, Loud, server
<1>2. CASE Receive
  <2>1. CASE Head(wire).type = "DELETE"
    BY <1>1, <1>2, <2>1 DEF Receive
  <2>2. CASE Head(wire).type # "DELETE"
    <3>1. UNCHANGED <<kind, queries, tab, filtering, failed, chosen, db>>
      BY <1>2, <2>2 DEF Receive, page, server
    <3> QED BY <3>1, RestPreserves DEF IInv, Typed
  <2> QED BY <2>1, <2>2
<1>3. CASE \E e \in resolving : Resolve(e)
  BY <1>1, <1>3 DEF Resolve
<1> QED BY <1>2, <1>3

LEMMA AnswerFilterPreserves ==
  ASSUME IInv, NEW i \in DOMAIN queries, AnswerFilter(i)
  PROVE  IInv'
<1> DEFINE q == queries[i]
           rest == RemoveAt(queries, i)
           further == Query("list", tab, chosen', FALSE)
<1>1. queries \in Seq(QueryType) /\ tab \in Projects /\ chosen \in SUBSET Versions
      /\ filtering \in BOOLEAN /\ (filtering => failed \/ Loud(queries))
  BY DEF IInv, Typed, LoaderHasQuery, Loud
<1>2. rest \in Seq(QueryType) /\ (q.silent /\ Loud(queries) => Loud(rest))
  BY <1>1, RemoveIsLoud
<1>3. q.silent \in BOOLEAN
  <2>1. q \in QueryType
    BY <1>1, ElementOfSeq
  <2> QED BY <2>1 DEF QueryType
<1>4. chosen' \in SUBSET Versions
  BY <1>1 DEF AnswerFilter
<1>5. further \in QueryType
  BY <1>1, <1>4, QueryIsTyped
<1>6. ASSUME kind # "configurations"
      PROVE  /\ queries' \in Seq(QueryType) /\ filtering' \in BOOLEAN
             /\ filtering' => failed \/ Loud(queries')
  <2>1. Filter(tab, chosen, q.silent, rest)
    BY <1>6 DEF AnswerFilter
  <2> HIDE DEF q, rest
  <2>2. filtering => failed \/ Loud(rest) \/ ~ q.silent
    BY <1>1, <1>2, <1>3
  <2> QED BY <1>1, <1>2, <1>3, <2>1, <2>2, FilterPreserves
<1>7. ASSUME kind = "configurations"
      PROVE  /\ queries' \in Seq(QueryType) /\ filtering' \in BOOLEAN
             /\ filtering' => failed \/ Loud(queries')
  <2> DEFINE qs == IF chosen' = chosen THEN rest ELSE Append(rest, further)
  <2>1. Filter(tab, chosen', FALSE, qs)
    BY <1>7 DEF AnswerFilter
  <2> HIDE DEF rest, further
  <2>2. qs \in Seq(QueryType)
    BY <1>2, <1>5, AppendIsLoud
  <2> HIDE DEF qs
  <2> QED BY <1>1, <1>4, <2>1, <2>2, FilterPreserves
<1>8. /\ queries' \in Seq(QueryType) /\ filtering' \in BOOLEAN
      /\ filtering' => failed \/ Loud(queries')
  BY <1>6, <1>7
<1> QED BY <1>4, <1>8 DEF AnswerFilter, IInv, Typed, LoaderHasQuery, Loud, server

\* An answer with a list removes the loader when it was asked for aloud; when not,
\* the other requests stay as loud as they were.
LEMMA RefreshCardsPreserves ==
  ASSUME IInv, NEW i \in DOMAIN queries, RefreshCards(i)
  PROVE  IInv'
<1>1. queries \in Seq(QueryType) /\ i \in 1..Len(queries) /\ Len(queries) \in Nat
  BY DEF IInv, Typed
<1> DEFINE n == Len(queries) - 1
           elem(j) == IF j < i THEN [queries[j] EXCEPT !.overtaken = (queries[j].step = "list")]
                      ELSE queries[j + 1]
<1>2. n \in Nat /\ queries' = [j \in 1..n |-> elem(j)]
  BY <1>1 DEF RefreshCards
<1>3. ASSUME NEW j \in 1..n
      PROVE  /\ elem(j) \in QueryType
             /\ elem(j).silent = IF j < i THEN queries[j].silent ELSE queries[j + 1].silent
  <2>1. j \in 1..Len(queries) /\ j + 1 \in 1..Len(queries)
    BY <1>1
  <2>2. queries[j] \in QueryType /\ queries[j + 1] \in QueryType
    BY <1>1, <2>1, ElementOfSeq
  <2>3. CASE j < i
    BY <2>2, <2>3 DEF QueryType
  <2>4. CASE ~ (j < i)
    BY <2>2, <2>4
  <2> QED BY <2>3, <2>4
<1> HIDE DEF n, elem
<1>4. queries' \in Seq(QueryType) /\ Len(queries') = n
  <2>1. queries' \in [1..n -> QueryType]
    BY <1>2, <1>3
  <2>2. queries' \in Seq(QueryType)
    BY <1>2, <2>1, SeqDef
  <2> QED BY <1>2, <2>1, <2>2
<1>5. ASSUME queries[i].silent, Loud(queries) PROVE Loud(queries')
  <2>1. PICK k \in 1..Len(queries) : ~ queries[k].silent
    BY <1>1, <1>5 DEF Loud
  <2>2. CASE k < i
    <3>1. k \in 1..n
      BY <1>1, <2>2 DEF n
    <3>2. ~ queries'[k].silent
      BY <1>2, <1>3, <2>1, <2>2, <3>1
    <3> QED BY <1>4, <3>1, <3>2 DEF Loud
  <2>3. CASE k > i
    <3>1. k - 1 \in 1..n /\ ~ (k - 1 < i) /\ k - 1 + 1 = k
      BY <1>1, <2>3 DEF n
    <3>2. ~ queries'[k - 1].silent
      BY <1>2, <1>3, <2>1, <3>1
    <3> QED BY <1>4, <3>1, <3>2 DEF Loud
  <2> QED BY <1>1, <1>5, <2>1, <2>2, <2>3
<1>6. filtering' = (filtering /\ queries[i].silent) /\ UNCHANGED <<kind, tab, chosen, failed, db>>
  BY DEF RefreshCards, server
<1>7. filtering' => failed' \/ Loud(queries')
  BY <1>5, <1>6 DEF IInv, LoaderHasQuery, Loud
<1>8. filtering' \in BOOLEAN
  BY <1>6
<1> QED BY <1>4, <1>6, <1>7, <1>8 DEF IInv, Typed, LoaderHasQuery, Loud

LEMMA StepPreserves == IInv /\ [Next]_vars => IInv'
<1> SUFFICES ASSUME IInv, [Next]_vars PROVE IInv'
  OBVIOUS
<1>1. CASE Receive \/ \E e \in resolving : Resolve(e)
  BY <1>1, EventPreserves
<1>2. ASSUME NEW i \in DOMAIN queries,
             ServeQuery(i) \/ AnswerFilter(i) \/ RefreshCards(i) \/ QueryFails(i)
      PROVE  IInv'
  BY <1>2, ServeQueryPreserves, AnswerFilterPreserves, RefreshCardsPreserves, QueryFailsPreserves
<1>3. CASE CloseAddition \/ \E vs \in SUBSET Versions : ChooseVersions(vs)
  BY <1>3, ClickPreserves
<1>4. CASE \E r \in Records : Change(r) \/ DeleteConfiguration(r)
  BY <1>4, ChangePreserves
<1>5. CASE \E p \in Projects : SelectTab(p)
  BY <1>5, SelectTabPreserves
<1>6. CASE \/ StreamSubscribes
           \/ \E r \in Records : ServeReading(r) \/ AnswerReading(r) \/ Expand(r)
           \/ \E v \in Versions : TogglePanel(v)
           \/ UNCHANGED vars
  BY <1>6, OthersPreserve
<1> QED BY <1>1, <1>2, <1>3, <1>4, <1>5, <1>6 DEF Next, PageStep

\* The loader of a page of records is shown only while a request whose answer
\* removes it is under way, or after an error, whatever the panel, the user and the
\* events do, and in whatever order the answers come.
THEOREM LoaderIsJustified == Spec => []LoaderHasQuery
<1>1. IInv => LoaderHasQuery
  BY DEF IInv
<1> QED BY <1>1, InitInv, StepPreserves, PTL DEF Spec

-----------------------------------------------------------------------------
(* When nothing is under way the page shows what it should: until then an  *)
(* event that makes it ask again, or the answer to its last question, is   *)
(* on its way.                                                             *)

Event == [type : EventTypes, id : Records, ver : Nat, old : BOOLEAN]
CardType == [base : Int, held : Int, newest : Int, astray : BOOLEAN, reading : Int]

Shaped ==
  /\ wire \in Seq(Event) /\ resolving \subseteq Event
  /\ cards \in [Records -> CardType]
  /\ live \in BOOLEAN /\ unseen \in BOOLEAN /\ listed \in [Records -> Int]

\* What the panel has answered is what it had.
Sound(answer) == answer = Unserved \/ \A r \in Records : answer[r] \in 0 .. db[r]
Answers(qs) == \A i \in DOMAIN qs : Sound(qs[i].answer)

\* The cards are those of the list last applied, each of a record that was there.
Carded(r) ==
  /\ HasCard(r) <=> listed[r] > 0
  /\ listed[r] \in 0 .. db[r]
  /\ HasCard(r) => cards[r].base > 0 /\ db[r] > 0

Events == resolving \cup {wire[i] : i \in DOMAIN wire}
Coming == \E e \in Events : AsksAgain(e)
Filling(qs) == \E i \in DOMAIN qs : qs[i].step = "filter"

\* A list is what the page wants, but for modules that were moved.
Fits(answer) ==
  \E L \in Limited(Wanted) : \A r \in Records : ~ Moved(r) => (answer[r] > 0 <=> r \in L)

\* The answer is, or will be, the list that the page wants.
Good(q) ==
  /\ q.tab = tab /\ q.chosen = chosen
  /\ q.answer = Unserved \/ Fits(q.answer)

Followed ==
  ~ unseen /\ ~ failed =>
    \/ Coming
    \/ Filling(queries)
    \/ queries # <<>> /\ (queries[Len(queries)].overtaken \/ Good(queries[Len(queries)]))
    \/ queries = <<>> /\ (late \/ Fits(listed))

\* The panels are those of the selected tab, or they will be drawn again.
Panelled ==
  kind = "modules" =>
    \/ failed \/ queries # <<>>
    \/ DOMAIN panels = {v \in VersionsOf[tab] :
                          \E r \in Records : listed[r] > 0 /\ VersionAt(r, listed[r]) = v}

ListInv == Shaped /\ Answers(queries) /\ (\A r \in Records : Carded(r)) /\ Followed /\ Panelled

\* A module that was not moved is listed with the version it has.
LEMMA StaysInPanel ==
  ASSUME NEW r \in Records, ~ Moved(r), NEW n \in Nat, n > 0, n <= db[r], db[r] \in Nat
  PROVE  VersionAt(r, n) = VersionAt(r, db[r])
<1>1. n \in 1 .. db[r]
  OBVIOUS
<1> QED BY <1>1 DEF Moved

LEMMA ListGives == IInv /\ ListInv => QuietShowsTab
<1> SUFFICES ASSUME IInv, ListInv, Quiet, Told, ~ late, ~ failed
             PROVE  \E L \in Limited(Wanted) :
                      \A r \in Records : ~ Moved(r) => (Drawn(r) <=> r \in L /\ InPanel(r))
  BY DEF QuietShowsTab
<1>1. Events = {}
  BY DEF Quiet, Events
<1>2. ~ Coming /\ ~ Filling(queries)
  BY <1>1 DEF Coming, Filling, Quiet
<1>3. PICK L \in Limited(Wanted) : \A r \in Records : ~ Moved(r) => (listed[r] > 0 <=> r \in L)
  BY <1>2 DEF ListInv, Followed, Told, Quiet, Fits
<1>4. \A r \in Records : /\ HasCard(r) <=> listed[r] > 0
                         /\ listed[r] \in 0 .. db[r] /\ db[r] \in Nat
  BY DEF ListInv, Carded, IInv, Typed
<1>5. kind = "modules" =>
        DOMAIN panels = {v \in VersionsOf[tab] :
                           \E r \in Records : listed[r] > 0 /\ VersionAt(r, listed[r]) = v}
  BY DEF ListInv, Panelled, Quiet
<1>6. ASSUME NEW r \in Records, ~ Moved(r) PROVE Drawn(r) <=> r \in L /\ InPanel(r)
  <2>1. CASE listed[r] > 0
    <3>1. VersionAt(r, listed[r]) = VersionAt(r, db[r])
      BY <1>4, <1>6, <2>1, StaysInPanel
    <3>2. kind = "modules" => (VersionAt(r, listed[r]) \in DOMAIN panels <=>
                                 VersionAt(r, db[r]) \in VersionsOf[tab])
      BY <1>5, <2>1, <3>1
    <3> QED BY <1>3, <1>4, <1>6, <2>1, <3>2 DEF Drawn, InPanel
  <2>2. CASE ~ (listed[r] > 0)
    BY <1>3, <1>4, <1>6, <2>2 DEF Drawn
  <2> QED BY <2>1, <2>2
<1> QED BY <1>3, <1>6

-----------------------------------------------------------------------------
\* Whatever else there is, the page has just asked for the list it wants, or for what
\* will make it ask.
Asks(qs, p, vs) ==
  \/ Filling(qs)
  \/ /\ qs # <<>>
     /\ qs[Len(qs)].tab = p /\ qs[Len(qs)].chosen = vs /\ qs[Len(qs)].answer = Unserved

LEMMA AsksFollowed == Asks(queries', tab', chosen') => Followed'
BY DEF Asks, Followed, Good, Filling

\* One more request is the last one.
LEMMA AppendGives ==
  ASSUME NEW qs \in Seq(QueryType), NEW q \in QueryType, q.answer = Unserved
  PROVE  /\ Append(qs, q) \in Seq(QueryType) /\ Append(qs, q) # <<>>
         /\ Append(qs, q)[Len(Append(qs, q))] = q
         /\ q.step = "filter" \/ Filling(qs) => Filling(Append(qs, q))
         /\ Answers(qs) => Answers(Append(qs, q))
<1>1. /\ Append(qs, q) \in Seq(QueryType) /\ Append(qs, q) # <<>>
      /\ Len(Append(qs, q)) = Len(qs) + 1 /\ Append(qs, q)[Len(qs) + 1] = q
      /\ \A j \in 1 .. Len(qs) : Append(qs, q)[j] = qs[j]
      /\ DOMAIN Append(qs, q) = 1 .. (Len(qs) + 1) /\ DOMAIN qs = 1 .. Len(qs) /\ Len(qs) \in Nat
  BY AppendProperties
<1>2. ASSUME q.step = "filter" \/ Filling(qs) PROVE Filling(Append(qs, q))
  BY <1>1, <1>2 DEF Filling
<1>3. ASSUME Answers(qs) PROVE Answers(Append(qs, q))
  BY <1>1, <1>3 DEF Answers, Sound
<1> QED BY <1>1, <1>2, <1>3

LEMMA QueryFields ==
  ASSUME NEW step, NEW p, NEW vs, NEW silent \in BOOLEAN
  PROVE  /\ Query(step, p, vs, silent).step = step /\ Query(step, p, vs, silent).tab = p
         /\ Query(step, p, vs, silent).chosen = vs /\ Query(step, p, vs, silent).answer = Unserved
BY DEF Query

LEMMA FirstFields ==
  ASSUME kind \in Kinds, NEW p, NEW vs, NEW silent \in BOOLEAN
  PROVE  /\ First(kind, p, vs, silent).answer = Unserved
         /\ \/ First(kind, p, vs, silent).step = "filter"
            \/ First(kind, p, vs, silent).tab = p /\ First(kind, p, vs, silent).chosen = vs
<1>1. CASE kind = "assemblies"
  <2>1. First(kind, p, vs, silent) = Query("list", p, vs, silent)
    BY <1>1 DEF First
  <2> QED BY <2>1, QueryFields
<1>2. CASE kind = "modules"
  <2>1. First(kind, p, vs, silent) = Query("filter", p, {}, silent)
    BY <1>2 DEF First
  <2> QED BY <2>1, QueryFields
<1>3. CASE kind = "configurations"
  BY <1>3 DEF First, Query
<1> QED BY <1>1, <1>2, <1>3 DEF Kinds

\* A page that asks for its list.
LEMMA FilterAsks ==
  ASSUME NEW qs \in Seq(QueryType), NEW p \in Projects, NEW vs \in SUBSET Versions,
         NEW silent \in BOOLEAN, Filter(p, vs, silent, qs)
  PROVE  /\ Asks(queries', p, vs)
         /\ Answers(qs) => Answers(queries')
<1> DEFINE q == Query("list", p, vs, silent)
<1>1. q \in QueryType /\ q.tab = p /\ q.chosen = vs /\ q.answer = Unserved
  BY QueryIsTyped, QueryFields
<1>2. queries' = Append(qs, q)
  BY DEF Filter
<1> HIDE DEF q
<1> QED BY <1>1, <1>2, AppendGives DEF Asks

LEMMA UpdateFilterAsks ==
  ASSUME kind \in Kinds, NEW qs \in Seq(QueryType), NEW p \in Projects, NEW vs \in SUBSET Versions,
         NEW silent \in BOOLEAN, UpdateFilter(p, vs, silent, qs)
  PROVE  /\ Asks(queries', p, vs)
         /\ Answers(qs) => Answers(queries')
<1> DEFINE q == First(kind, p, vs, silent)
<1>1. CASE kind = "assemblies"
  BY <1>1, FilterAsks DEF UpdateFilter
<1>2. CASE kind # "assemblies"
  <2>1. /\ q \in QueryType /\ q.answer = Unserved
        /\ q.step = "filter" \/ (q.tab = p /\ q.chosen = vs)
    BY FirstIsTyped, FirstFields
  <2>2. queries' = Append(qs, q)
    BY <1>2 DEF UpdateFilter
  <2> HIDE DEF q
  <2> QED BY <2>1, <2>2, AppendGives DEF Asks
<1> QED BY <1>1, <1>2

LEMMA InitList == Init => ListInv
<1> SUFFICES ASSUME Init PROVE ListInv
  OBVIOUS
<1> DEFINE q == First(kind, tab, {}, FALSE)
<1>1. Shaped
  <2>1. wire \in Seq(Event) /\ NoCard \in CardType
    BY EmptySeq DEF Init, CardType, NoCard, Idle
  <2>2. live = FALSE /\ unseen = FALSE /\ listed = [r \in Records |-> 0] /\ resolving = {}
        /\ cards = [r \in Records |-> NoCard]
    BY DEF Init
  <2>3. cards \in [Records -> CardType] /\ listed \in [Records -> Int]
    BY <2>1, <2>2
  <2> QED BY <2>1, <2>2, <2>3 DEF Shaped
<1>5. \A r \in Records : Carded(r)
  BY DEF Init, Carded, HasCard
<1>2. q.answer = Unserved /\ (q.step = "filter" \/ (q.tab = tab /\ q.chosen = chosen))
      /\ queries = <<q>>
  <2>1. kind \in Kinds /\ chosen = {} /\ queries = <<q>>
    BY DEF Init
  <2> QED BY <2>1, FirstFields
<1> HIDE DEF q
<1>3. queries # <<>> /\ Len(queries) = 1 /\ queries[1] = q /\ DOMAIN queries = {1}
  BY <1>2
<1>4. Answers(queries) /\ Followed
  BY <1>2, <1>3 DEF Answers, Sound, Followed, Good, Filling
<1>6. Panelled
  BY <1>3 DEF Panelled
<1> QED BY <1>1, <1>4, <1>5, <1>6 DEF ListInv

\* A card that keeps its record, and its place.
LEMMA CardKeeps ==
  ASSUME NEW r \in Records, Carded(r), listed' = listed, db[r] \in Nat, db'[r] \in Nat,
         db[r] <= db'[r],
         cards'[r].base = cards[r].base, cards[r] = NoCard => cards'[r] = NoCard
  PROVE  Carded(r)'
<1>1. NoCard.base = 0
  BY DEF NoCard
<1> QED BY <1>1 DEF Carded, HasCard

\* What was listed, and not moved, fits while the page wants what it did: an update
\* matters only to a list of assemblies, and moves nothing else without a trace.
SameWants ==
  /\ kind' = kind /\ tab' = tab /\ chosen' = chosen /\ Present' = Present
  /\ db \in [Records -> Nat] /\ db' \in [Records -> Nat] /\ \A r \in Records : db[r] <= db'[r]
  /\ kind = "assemblies" => started' = started

LEMMA VersionStays ==
  ASSUME SameWants, NEW r \in Records, ~ Moved(r)'
  PROVE  ~ Moved(r) /\ (r \in Wanted' <=> r \in Wanted)
<1> DEFINE V(n) == VersionOf[r][IF kind = "modules" THEN n ELSE 1]
<1>1. /\ db[r] \in Nat /\ db'[r] \in Nat /\ db[r] <= db'[r] /\ kind' = kind
  BY DEF SameWants
<1>2. \A n \in 1 .. db'[r] : V(n) = V(db'[r])
  BY <1>1 DEF Moved, VersionAt
<1> HIDE DEF V
<1>3. db[r] > 0 => V(db'[r]) = V(db[r])
  BY <1>1, <1>2
<1>4. \A n \in 1 .. db[r] : V(n) = V(db[r])
  BY <1>1, <1>2
<1>5. ~ Moved(r)
  BY <1>4 DEF Moved, VersionAt, V
<1>6. r \in Present => db[r] > 0
  BY DEF Present
<1> QED BY <1>1, <1>3, <1>5, <1>6 DEF SameWants, Wanted, VersionAt, V

LEMMA FitsStays ==
  ASSUME SameWants, NEW a, Fits(a)
  PROVE  Fits(a)'
<1>1. PICK L \in Limited(Wanted) : \A r \in Records : ~ Moved(r) => (a[r] > 0 <=> r \in L)
  BY DEF Fits
<1>2. CASE kind = "assemblies"
  <2>1. Wanted' = Wanted
    BY <1>2 DEF SameWants, Wanted, VersionAt
  <2>2. L \in Limited(Wanted)'
    BY <1>1, <1>2, <2>1 DEF Limited, SameWants
  <2>3. \A r \in Records : ~ Moved(r)' => (a[r] > 0 <=> r \in L)
    BY <1>1, VersionStays
  <2> QED BY <2>2, <2>3 DEF Fits
<1>3. CASE kind # "assemblies"
  <2>1. L = Wanted
    BY <1>1, <1>3 DEF Limited
  <2>2. Wanted' \in Limited(Wanted)'
    BY <1>3 DEF Limited, SameWants
  <2>3. \A r \in Records : ~ Moved(r)' => (a[r] > 0 <=> r \in Wanted')
    BY <1>1, <2>1, VersionStays
  <2> QED BY <2>2, <2>3 DEF Fits
<1> QED BY <1>2, <1>3

\* A step that neither asks nor answers, while the page wants what it did.
LEMMA FollowedStays ==
  ASSUME Followed, SameWants, UNCHANGED <<queries, late, failed, listed>>,
         ~ unseen' => ~ unseen, Coming => Coming'
  PROVE  Followed'
<1>1. \A a : Fits(a) => Fits(a)'
  BY FitsStays
<1>2. \A q : Good(q) => Good(q)'
  BY <1>1 DEF Good, SameWants
<1> QED BY <1>1, <1>2 DEF Followed, Filling

\* A step that redraws nothing.
LEMMA PanelledStays ==
  ASSUME Panelled, UNCHANGED kind,
         \/ failed'
         \/ queries' # <<>>
         \/ UNCHANGED <<queries, failed, tab, listed>> /\ DOMAIN panels' = DOMAIN panels
  PROVE  Panelled'
BY DEF Panelled, VersionAt

\* What the record of an event does to a card.
LEMMA HandedGives ==
  ASSUME NEW c \in CardType, NEW e \in Event
  PROVE  /\ Handed(c, e) \in CardType
         /\ Handed(c, e).base = c.base /\ Handed(c, e).reading = c.reading
         /\ Handed(c, e).held = e.ver
         /\ Handed(c, e).newest = IF e.ver > c.newest THEN e.ver ELSE c.newest
         /\ Handed(c, e).astray = (c.astray \/ e.old)
<1> DEFINE newest == IF e.ver > c.newest THEN e.ver ELSE c.newest
           astray == c.astray \/ e.old
           h == e.ver
<1>1. h \in Int /\ newest \in Int /\ astray \in BOOLEAN
  BY DEF CardType, Event
<1>2. Handed(c, e) = [c EXCEPT !.held = h, !.newest = newest, !.astray = astray]
  BY DEF Handed
<1> HIDE DEF h, newest, astray
<1>3. /\ Handed(c, e) \in CardType
      /\ Handed(c, e).base = c.base /\ Handed(c, e).reading = c.reading
      /\ Handed(c, e).held = h /\ Handed(c, e).newest = newest /\ Handed(c, e).astray = astray
  BY <1>1, <1>2 DEF CardType
<1> QED BY <1>3 DEF h, newest, astray

\* What an event does to the cards.
LEMMA CardsAfterGives ==
  ASSUME Shaped, NEW e \in Event
  PROVE  /\ CardsAfter(e) \in [Records -> CardType]
         /\ \A r \in Records :
              /\ CardsAfter(e)[r].base = cards[r].base /\ CardsAfter(e)[r].reading = cards[r].reading
              /\ r # e.id \/ cards[r] = NoCard \/ e.type # "UPDATE" => CardsAfter(e)[r] = cards[r]
              /\ ~ CardMounted(e.id) =>
                   \/ CardsAfter(e)[r] = cards[r]
                   \/ CardsAfter(e)[r].astray
              /\ CardMounted(e.id) /\ r = e.id /\ cards[r] # NoCard /\ e.type = "UPDATE" =>
                   /\ CardsAfter(e)[r].held = e.ver
                   /\ CardsAfter(e)[r].newest = IF e.ver > cards[r].newest THEN e.ver
                                                ELSE cards[r].newest
                   /\ CardsAfter(e)[r].astray = (cards[r].astray \/ e.old)
<1>1. cards \in [Records -> CardType] /\ e.id \in Records /\ e.ver \in Nat /\ e.old \in BOOLEAN
  BY DEF Shaped, Event
<1> DEFINE c == cards[e.id]
           missed == [c EXCEPT !.astray = TRUE]
           after == IF c = NoCard \/ e.type # "UPDATE" THEN c
                    ELSE IF ~ CardMounted(e.id) THEN missed ELSE Handed(c, e)
<1>3. c \in CardType
  BY <1>1
<1>4. /\ Handed(c, e) \in CardType
      /\ Handed(c, e).base = c.base /\ Handed(c, e).reading = c.reading
      /\ Handed(c, e).held = e.ver
      /\ Handed(c, e).newest = IF e.ver > c.newest THEN e.ver ELSE c.newest
      /\ Handed(c, e).astray = (c.astray \/ e.old)
  <2> HIDE DEF c
  <2> QED BY <1>3, HandedGives
<1>5. missed \in CardType /\ missed.base = c.base /\ missed.reading = c.reading /\ missed.astray
  BY <1>3 DEF CardType
<1>2. CardsAfter(e) = [cards EXCEPT ![e.id] = after]
  BY Zenon DEF CardsAfter
<1> HIDE DEF missed
<1>6. after \in CardType /\ after.base = c.base /\ after.reading = c.reading
  BY <1>3, <1>4, <1>5
<1>7. CardsAfter(e) \in [Records -> CardType] /\ CardsAfter(e)[e.id] = after
      /\ \A r \in Records \ {e.id} : CardsAfter(e)[r] = cards[r]
  <2> HIDE DEF after
  <2> QED BY <1>1, <1>2, <1>6
<1> QED BY <1>1, <1>4, <1>5, <1>6, <1>7

LEMMA DeliverList ==
  ASSUME IInv, ListInv, NEW e \in Event, Deliver(e), UNCHANGED <<kind, server, live, unseen>>,
         Coming /\ ~ AsksAgain(e) => Coming'
  PROVE  /\ cards' \in [Records -> CardType] /\ Answers(queries)' /\ Followed' /\ Panelled'
         /\ listed' = listed /\ \A r \in Records : Carded(r)'
<1>1. /\ cards' = CardsAfter(e)
      /\ UNCHANGED <<kind, tab, chosen, listed, panels, late, failed, db, gone, started>>
      /\ db \in [Records -> Nat]
  BY DEF Deliver, server, panelled, IInv, Typed
<1>2. cards' \in [Records -> CardType]
  BY <1>1, CardsAfterGives DEF ListInv
<1>3. ASSUME NEW r \in Records PROVE Carded(r)'
  <2>1. cards'[r].base = cards[r].base /\ (cards[r] = NoCard => cards'[r] = NoCard)
    BY <1>1, CardsAfterGives DEF ListInv
  <2> QED BY <1>1, <2>1, CardKeeps DEF ListInv
<1>4. CASE AsksAgain(e)
  <2>1. UpdateFilter(tab, chosen, TRUE, queries)
    BY <1>4 DEF Deliver
  <2>2. kind \in Kinds /\ queries \in Seq(QueryType) /\ tab \in Projects /\ chosen \in SUBSET Versions
    BY DEF IInv, Typed
  <2>3. Asks(queries', tab, chosen) /\ (Answers(queries) => Answers(queries'))
    BY <2>1, <2>2, UpdateFilterAsks
  <2>4. Answers(queries)'
    BY <1>1, <2>3 DEF ListInv, Answers, Sound
  <2>5. Followed'
    BY <1>1, <2>3, AsksFollowed
  <2>6. Panelled'
    BY <1>1, <2>3, PanelledStays DEF ListInv, Asks, Filling
  <2> QED BY <1>1, <1>2, <1>3, <2>4, <2>5, <2>6
<1>5. CASE ~ AsksAgain(e)
  <2>1. queries' = queries
    BY <1>5 DEF Deliver
  <2>2. Answers(queries)'
    BY <1>1, <2>1 DEF ListInv, Answers, Sound
  <2>3. SameWants
    BY <1>1 DEF SameWants, Present
  <2>4. Followed'
    BY <1>1, <1>5, <2>1, <2>3, FollowedStays DEF ListInv
  <2>5. Panelled'
    BY <1>1, <2>1, PanelledStays DEF ListInv
  <2> QED BY <1>1, <1>2, <1>3, <2>2, <2>4, <2>5
<1> QED BY <1>4, <1>5

\* An event that is taken from the wire.
LEMMA TailGives ==
  ASSUME Shaped, wire # <<>>, wire' = Tail(wire)
  PROVE  /\ Head(wire) \in Event /\ wire' \in Seq(Event)
         /\ DOMAIN wire = 1 .. Len(wire) /\ Len(wire) \in Nat \ {0} /\ wire[1] = Head(wire)
         /\ DOMAIN wire' = 1 .. (Len(wire) - 1) /\ \A i \in DOMAIN wire' : wire'[i] = wire[i + 1]
         /\ {wire[i] : i \in DOMAIN wire} = {Head(wire)} \cup {wire'[i] : i \in DOMAIN wire'}
<1>1. Head(wire) \in Event /\ wire' \in Seq(Event) /\ Len(wire') = Len(wire) - 1
      /\ \A i \in 1 .. Len(wire') : wire'[i] = wire[i + 1]
  BY HeadTailProperties DEF Shaped
<1>2. DOMAIN wire = 1 .. Len(wire) /\ Len(wire) \in Nat \ {0} /\ wire[1] = Head(wire)
      /\ DOMAIN wire' = 1 .. Len(wire')
  BY <1>1, LenProperties, EmptySeq DEF Shaped
<1>3. ASSUME NEW i \in DOMAIN wire
      PROVE  wire[i] \in {Head(wire)} \cup {wire'[j] : j \in DOMAIN wire'}
  <2>1. CASE i = 1
    BY <1>2, <2>1
  <2>2. CASE i # 1
    <3>1. i - 1 \in 1 .. Len(wire') /\ wire'[i - 1] = wire[(i - 1) + 1] /\ (i - 1) + 1 = i
      BY <1>1, <1>2, <2>2
    <3> QED BY <1>2, <3>1
  <2> QED BY <2>1, <2>2
<1>4. ASSUME NEW i \in DOMAIN wire'
      PROVE  wire'[i] \in {wire[j] : j \in DOMAIN wire}
  <2>1. i + 1 \in DOMAIN wire /\ wire'[i] = wire[i + 1]
    BY <1>1, <1>2
  <2> QED BY <2>1
<1>5. Head(wire) \in {wire[j] : j \in DOMAIN wire}
  BY <1>2
<1> QED BY <1>1, <1>2, <1>3, <1>4, <1>5

LEMMA ReceiveList ==
  ASSUME IInv, ListInv, Receive
  PROVE  ListInv'
<1> DEFINE e == Head(wire)
<1>1. wire # <<>> /\ wire' = Tail(wire) /\ UNCHANGED <<kind, server, live, unseen, clicks>>
  BY DEF Receive
<1>2. e \in Event /\ wire' \in Seq(Event)
      /\ {wire[i] : i \in DOMAIN wire} = {e} \cup {wire'[i] : i \in DOMAIN wire'}
  BY <1>1, TailGives DEF ListInv
<1>3. CASE e.type = "DELETE"
  <2>1. Deliver(e) /\ UNCHANGED resolving
    BY <1>3 DEF Receive
  <2> HIDE DEF e
  <2>2. AsksAgain(e)
    BY <1>3 DEF AsksAgain
  <2>3. /\ cards' \in [Records -> CardType] /\ Answers(queries)' /\ Followed' /\ Panelled'
        /\ listed' = listed /\ \A r \in Records : Carded(r)'
    BY <1>1, <1>2, <2>1, <2>2, DeliverList
  <2> QED BY <1>1, <1>2, <2>1, <2>3 DEF ListInv, Shaped
<1>4. CASE e.type # "DELETE"
  <2>1. resolving' = resolving \cup {e} /\ UNCHANGED <<page, cards>>
    BY <1>4 DEF Receive
  <2> HIDE DEF e
  <2>2. Events' = Events
    BY <1>2, <2>1 DEF Events
  <2>3. SameWants
    BY <1>1, <2>1 DEF SameWants, Present, page, server, IInv, Typed
  <2>5. Coming => Coming'
    BY <1>1, <2>2 DEF Coming, AsksAgain
  <2>6. Followed' /\ Panelled'
    BY <1>1, <2>1, <2>3, <2>5, FollowedStays, PanelledStays DEF ListInv, page, panelled
  <2>4. Answers(queries)' /\ listed' = listed /\ \A r \in Records : Carded(r)'
    BY <1>1, <2>1 DEF ListInv, Answers, Sound, Carded, HasCard, page, server
  <2> QED BY <1>1, <1>2, <2>1, <2>4, <2>6 DEF ListInv, Shaped
<1> QED BY <1>3, <1>4

\* The events that StreamsActivator still looks up when it has passed one on.
LEMMA ResolvingGives ==
  ASSUME Shaped, NEW e \in resolving, Resolve(e)
  PROVE  /\ e \in Event /\ resolving' \subseteq Event
         /\ \A g \in resolving' :
              \E f \in resolving \ {e} :
                /\ g.type = f.type /\ g.id = f.id /\ g.ver = f.ver
                /\ g.old = (f.old \/ (f.id = e.id /\ f.ver < e.ver))
         /\ \A f \in resolving \ {e} :
              \E g \in resolving' : g.type = f.type /\ g.id = f.id /\ g.ver = f.ver
<1> DEFINE now(f) == [f EXCEPT !.old = @ \/ (f.id = e.id /\ f.ver < e.ver)]
<1>1. resolving' = {now(f) : f \in resolving \ {e}}
  BY DEF Resolve
<1>2. ASSUME NEW f \in resolving
      PROVE  /\ now(f) \in Event
             /\ now(f).type = f.type /\ now(f).id = f.id /\ now(f).ver = f.ver
             /\ now(f).old = (f.old \/ (f.id = e.id /\ f.ver < e.ver))
  BY DEF Shaped, Event
<1> HIDE DEF now
<1> QED BY <1>1, <1>2 DEF Shaped

LEMMA ResolveList ==
  ASSUME IInv, ListInv, NEW e \in resolving, Resolve(e)
  PROVE  ListInv'
<1>1. e \in Event /\ resolving' \subseteq Event
      /\ \A f \in resolving \ {e} : \E g \in resolving' : g.type = f.type
  BY ResolvingGives DEF ListInv
<1>2. Deliver(e) /\ UNCHANGED <<kind, server, live, unseen, wire, clicks>>
  BY DEF Resolve
<1>3. Coming /\ ~ AsksAgain(e) => Coming'
  BY <1>1, <1>2 DEF Coming, Events, AsksAgain
<1>4. /\ cards' \in [Records -> CardType] /\ Answers(queries)' /\ Followed' /\ Panelled'
      /\ listed' = listed /\ \A r \in Records : Carded(r)'
  BY <1>1, <1>2, <1>3, DeliverList
<1> QED BY <1>1, <1>2, <1>4 DEF ListInv, Shaped

\* A step that only the cards see, and not where they are.
LEMMA CardsOnlyList ==
  ASSUME IInv, ListInv, UNCHANGED <<kind, server, unseen, wire, resolving, page>>,
         live' \in BOOLEAN, cards' \in [Records -> CardType],
         \A r \in Records : /\ cards'[r].base = cards[r].base
                            /\ cards[r] = NoCard => cards'[r] = NoCard
  PROVE  ListInv'
<1>1. UNCHANGED <<db, gone, started, queries, tab, chosen, late, failed, listed, panels>>
      /\ db \in [Records -> Nat]
  BY DEF server, page, panelled, IInv, Typed
<1>2. \A r \in Records : Carded(r)'
  BY <1>1, CardKeeps DEF ListInv
<1>3. Followed' /\ Panelled'
  <2>1. SameWants /\ (Coming => Coming')
    BY <1>1 DEF SameWants, Present, Coming, Events, AsksAgain
  <2> QED BY <1>1, <2>1, FollowedStays, PanelledStays DEF ListInv
<1> QED BY <1>1, <1>2, <1>3 DEF ListInv, Shaped, Answers, Sound

\* A card with the answer to its reading.
HasRead(c, n, m) == [c EXCEPT !.held = n, !.newest = m, !.reading = Idle]

LEMMA ReadGives ==
  ASSUME NEW c \in CardType, NEW n \in Int, NEW m \in Int
  PROVE  /\ HasRead(c, n, m) \in CardType
         /\ HasRead(c, n, m).base = c.base /\ HasRead(c, n, m).astray = c.astray
         /\ HasRead(c, n, m).held = n /\ HasRead(c, n, m).newest = m
         /\ HasRead(c, n, m).reading = Idle
<1> Idle \in Int
  BY DEF Idle
<1> QED BY DEF HasRead, CardType

LEMMA ReadingGives ==
  ASSUME IInv, Shaped, NEW r \in Records, ServeReading(r) \/ AnswerReading(r) \/ Expand(r)
  PROVE  \E c \in CardType :
           /\ cards' = [cards EXCEPT ![r] = c]
           /\ c.base = cards[r].base /\ c.astray = cards[r].astray
           /\ \/ /\ c.held = cards[r].held /\ c.newest = cards[r].newest
                 /\ c.reading \in {Asked, Idle, db[r]}
              \/ /\ cards[r].reading > 0 /\ c.held = cards[r].reading /\ c.reading = Idle
                 /\ c.newest = IF cards[r].reading > cards[r].newest THEN cards[r].reading
                               ELSE cards[r].newest
<1>2. cards[r] \in CardType /\ cards \in [Records -> CardType] /\ db[r] \in Nat
  BY DEF Shaped, IInv, Typed
<1> DEFINE k == cards[r]
<1>3. k \in CardType /\ Asked \in Int /\ Idle \in Int
  BY <1>2 DEF Asked, Idle
<1>4. CASE ServeReading(r) \/ Expand(r)
  <2> DEFINE n == IF Expand(r) THEN Asked ELSE IF r \in Present THEN db[r] ELSE Idle
             c == [k EXCEPT !.reading = n]
  <2>1. n \in Int /\ n \in {Asked, Idle, db[r]}
    BY <1>2, <1>3
  <2>2. cards' = [cards EXCEPT ![r] = c]
    <3>1. CASE Expand(r)
      BY <3>1 DEF Expand
    <3>2. CASE ~ Expand(r)
      BY <1>4, <3>2 DEF ServeReading
    <3> QED BY <3>1, <3>2
  <2> HIDE DEF k, n
  <2>3. /\ c \in CardType /\ c.base = k.base /\ c.astray = k.astray
        /\ c.held = k.held /\ c.newest = k.newest /\ c.reading = n
    BY <1>3, <2>1 DEF CardType
  <2> HIDE DEF c
  <2> QED BY <2>1, <2>2, <2>3 DEF k
<1>5. CASE AnswerReading(r)
  <2> DEFINE n == k.reading
             m == IF n > k.newest THEN n ELSE k.newest
             c == HasRead(k, n, m)
  <2>1. n \in Int /\ m \in Int
    BY <1>3 DEF CardType
  <2>2. cards' = [cards EXCEPT ![r] = c] /\ n > 0
    BY <1>2, <1>5, Zenon DEF AnswerReading, HasRead
  <2> HIDE DEF k, n, m
  <2>3. /\ c \in CardType /\ c.base = k.base /\ c.astray = k.astray
        /\ c.held = n /\ c.newest = m /\ c.reading = Idle
    BY <1>3, <2>1, ReadGives
  <2> HIDE DEF c
  <2> QED BY <2>2, <2>3 DEF k, n, m
<1> QED BY <1>4, <1>5

LEMMA ReadingList ==
  ASSUME IInv, ListInv, NEW r \in Records, ServeReading(r) \/ AnswerReading(r) \/ Expand(r)
  PROVE  ListInv'
<1>1. UNCHANGED <<kind, server, unseen, wire, resolving, page>> /\ live' = live /\ HasCard(r)
  BY DEF ServeReading, AnswerReading, Expand, CardMounted, Drawn
<1>2. PICK c \in CardType : cards' = [cards EXCEPT ![r] = c] /\ c.base = cards[r].base
  BY ReadingGives DEF ListInv
<1>3. /\ cards' \in [Records -> CardType]
      /\ \A s \in Records : /\ cards'[s].base = cards[s].base
                            /\ cards[s] = NoCard => cards'[s] = NoCard
  BY <1>1, <1>2 DEF HasCard, ListInv, Shaped
<1> QED BY <1>1, <1>3, CardsOnlyList DEF ListInv, Shaped

LEMMA QuietStepList ==
  ASSUME IInv, ListInv, StreamSubscribes \/ UNCHANGED vars
  PROVE  ListInv'
<1>1. UNCHANGED <<kind, server, unseen, wire, resolving, page, cards>> /\ live' \in BOOLEAN
  BY DEF StreamSubscribes, vars, ListInv, Shaped
<1> QED BY <1>1, CardsOnlyList DEF ListInv, Shaped

-----------------------------------------------------------------------------
\* What was answered stays an answer while the records only grow.
LEMMA AnswersGrow ==
  ASSUME Answers(queries), queries' = queries, db \in [Records -> Nat], db' \in [Records -> Nat],
         \A r \in Records : db[r] <= db'[r]
  PROVE  Answers(queries)'
<1> SUFFICES ASSUME NEW i \in DOMAIN queries, queries[i].answer # Unserved, NEW r \in Records
             PROVE  queries[i].answer[r] \in 0 .. db'[r]
  BY DEF Answers, Sound
<1>1. queries[i].answer[r] \in 0 .. db[r]
  BY DEF Answers, Sound
<1> QED BY <1>1

\* A change and its event.
LEMMA ChangeGives ==
  ASSUME IInv, NEW r \in Records, Change(r)
  PROVE  \E e \in Event :
           /\ e.id = r /\ ~ e.old
           /\ \/ e.type = "DELETE" /\ db' = db
              \/ /\ db' = [db EXCEPT ![r] = @ + 1] /\ gone' = gone
                 /\ kind # "assemblies" => started' = started
                 /\ \/ e.type = "ADD" /\ db[r] = 0
                    \/ e.type = "UPDATE" /\ db[r] > 0 /\ e.ver = db[r] + 1
           /\ wire' = IF live THEN Append(wire, e) ELSE wire
           /\ unseen' = (unseen \/ ~ live)
<1>1. db[r] \in Nat
  BY DEF IInv, Typed
<1>2. CASE db' = [db EXCEPT ![r] = @ + 1] /\ gone' = gone /\ (kind # "assemblies" => started' = started)
           /\ Emit(IF db[r] = 0 THEN "ADD" ELSE "UPDATE", r, db[r] + 1)
  <2> DEFINE t == IF db[r] = 0 THEN "ADD" ELSE "UPDATE"
             e == [type |-> t, id |-> r, ver |-> db[r] + 1, old |-> FALSE]
  <2>1. t \in EventTypes /\ db[r] + 1 \in Nat
        /\ \/ t = "ADD" /\ db[r] = 0
           \/ t = "UPDATE" /\ db[r] > 0
    BY <1>1 DEF EventTypes
  <2>2. e \in Event /\ e.type = t /\ e.id = r /\ e.ver = db[r] + 1 /\ ~ e.old
    BY <2>1 DEF Event
  <2>3. wire' = IF live THEN Append(wire, e) ELSE wire
    BY <1>2 DEF Emit
  <2>5. kind # "assemblies" => started' = started
    BY <1>2
  <2>4. unseen' = (unseen \/ ~ live)
    BY <1>2 DEF Emit
  <2> HIDE DEF e, t
  <2> QED BY <1>2, <2>1, <2>2, <2>3, <2>4, <2>5
<1>3. CASE Emit("DELETE", r, db[r]) /\ db' = db
  <2> DEFINE e == [type |-> "DELETE", id |-> r, ver |-> db[r], old |-> FALSE]
  <2>1. e \in Event /\ e.type = "DELETE" /\ e.id = r /\ ~ e.old
    BY <1>1 DEF Event, EventTypes
  <2>2. wire' = IF live THEN Append(wire, e) ELSE wire
    BY <1>3 DEF Emit
  <2>3. unseen' = (unseen \/ ~ live)
    BY <1>3 DEF Emit
  <2> HIDE DEF e
  <2> QED BY <1>3, <2>1, <2>2, <2>3
<1> QED BY <1>2, <1>3 DEF Change

LEMMA ChangeList ==
  ASSUME IInv, ListInv, NEW r \in Records, Change(r)
  PROVE  ListInv'
<1>1. UNCHANGED <<kind, live, resolving, page, cards>> /\ db \in [Records -> Nat] /\ wire \in Seq(Event)
      /\ resolving \subseteq Event /\ live \in BOOLEAN /\ unseen \in BOOLEAN
  BY DEF Change, IInv, Typed, ListInv, Shaped
<1>2. /\ db' \in [Records -> Nat] /\ \A s \in Records : db[s] <= db'[s] /\ (s # r => db'[s] = db[s])
  BY <1>1 DEF Change
<1>3. PICK e \in Event :
        /\ e.type = "UPDATE" => /\ db[r] > 0 /\ gone' = gone
                                /\ kind # "assemblies" => started' = started
        /\ wire' = IF live THEN Append(wire, e) ELSE wire
        /\ unseen' = (unseen \/ ~ live)
  BY ChangeGives
<1>4. wire' \in Seq(Event) /\ unseen' \in BOOLEAN
  BY <1>1, <1>3
<1>5. \A s \in Records : Carded(s)'
  <2>1. UNCHANGED listed
    BY <1>1 DEF page
  <2> QED BY <1>1, <1>2, <2>1, CardKeeps DEF ListInv
<1>8. listed' = listed /\ Panelled'
  <2>1. UNCHANGED <<tab, queries, failed, listed, panels>>
    BY <1>1 DEF page, panelled
  <2> QED BY <1>1, <2>1, PanelledStays DEF ListInv
<1>6. Answers(queries)'
  BY <1>1, <1>2, AnswersGrow DEF ListInv, page
<1>7. Followed'
  <2>1. CASE unseen'
    BY <2>1 DEF Followed
  <2>2. ASSUME ~ unseen'
        PROVE  /\ ~ unseen
               /\ e \in Events'
               /\ Events \subseteq Events'
    <3>1. live /\ ~ unseen /\ wire' = Append(wire, e)
      BY <1>1, <1>3, <2>2
    <3>2. /\ Len(wire) + 1 \in DOMAIN wire' /\ wire'[Len(wire) + 1] = e
          /\ \A i \in DOMAIN wire : i \in DOMAIN wire' /\ wire'[i] = wire[i]
      BY <1>1, <3>1, AppendProperties
    <3> QED BY <1>1, <3>1, <3>2 DEF Events
  <2>3. CASE ~ unseen' /\ AsksAgain(e)'
    BY <2>2, <2>3 DEF Followed, Coming
  <2>4. CASE ~ unseen' /\ ~ AsksAgain(e)'
    <3>1. kind # "assemblies" /\ e.type = "UPDATE"
      BY <1>1, <2>4 DEF AsksAgain
    <3>2. SameWants
      <4>1. Present' = Present
        BY <1>1, <1>2, <1>3, <3>1 DEF Present
      <4>2. tab' = tab /\ chosen' = chosen
        BY <1>1 DEF page
      <4> QED BY <1>1, <1>2, <3>1, <4>1, <4>2 DEF SameWants
    <3>3. Coming => Coming'
      BY <1>1, <2>2, <2>4 DEF Coming, AsksAgain
    <3>4. UNCHANGED <<queries, late, failed, listed>>
      BY <1>1 DEF page
    <3> QED BY <2>2, <2>4, <3>2, <3>3, <3>4, FollowedStays DEF ListInv
  <2> QED BY <2>1, <2>3, <2>4
<1> QED BY <1>1, <1>4, <1>5, <1>6, <1>7, <1>8 DEF ListInv, Shaped

LEMMA DeleteConfigurationList ==
  ASSUME IInv, ListInv, NEW r \in Records, DeleteConfiguration(r)
  PROVE  ListInv'
<1> DEFINE e == [type |-> "DELETE", id |-> r, ver |-> db[r], old |-> FALSE]
<1>1. UNCHANGED <<kind, db, live, unseen, wire, page, cards>> /\ db \in [Records -> Nat]
      /\ resolving' = resolving \cup {e}
  BY DEF DeleteConfiguration, IInv, Typed
<1>2. e \in Event /\ e.type = "DELETE"
  BY <1>1 DEF Event, EventTypes
<1> HIDE DEF e
<1>3. Followed'
  BY <1>1, <1>2 DEF Followed, Coming, Events, AsksAgain
<1>4. listed' = listed /\ Panelled' /\ \A s \in Records : Carded(s)'
  <2>1. UNCHANGED <<tab, queries, failed, listed, panels>>
    BY <1>1 DEF page, panelled
  <2> QED BY <1>1, <2>1, CardKeeps, PanelledStays DEF ListInv
<1> QED BY <1>1, <1>2, <1>3, <1>4 DEF ListInv, Shaped, Answers, Sound, page

-----------------------------------------------------------------------------
\* What is left of the requests when one goes.
LEMMA RemoveAnswers ==
  ASSUME NEW qs \in Seq(QueryType), NEW i \in DOMAIN qs, Answers(qs)
  PROVE  RemoveAt(qs, i) \in Seq(QueryType) /\ Answers(RemoveAt(qs, i))
<1> DEFINE rest == RemoveAt(qs, i)
<1>1. /\ rest \in Seq(QueryType) /\ Len(rest) = Len(qs) - 1
      /\ \A j \in 1..(Len(qs) - 1) : rest[j] = IF j < i THEN qs[j] ELSE qs[j + 1]
  BY RemoveGives
<1>2. DOMAIN qs = 1 .. Len(qs) /\ Len(qs) \in Nat /\ i \in 1 .. Len(qs)
  OBVIOUS
<1> HIDE DEF rest
<1>3. ASSUME NEW j \in DOMAIN rest PROVE Sound(rest[j].answer)
  <2>1. j \in 1 .. (Len(qs) - 1) /\ j \in DOMAIN qs /\ j + 1 \in DOMAIN qs
    BY <1>1, <1>2
  <2>2. rest[j] = qs[j] \/ rest[j] = qs[j + 1]
    BY <1>1, <2>1
  <2> QED BY <2>1, <2>2 DEF Answers
<1>4. rest \in Seq(QueryType) /\ Answers(rest)
  BY <1>1, <1>3 DEF Answers
<1> QED BY <1>4 DEF rest

\* A step of the page that asks for what it wants.
LEMMA AskingList ==
  ASSUME IInv, ListInv,
         UNCHANGED <<kind, server, live, unseen, wire, resolving, listed, panels, cards>>,
         Answers(queries'), Asks(queries', tab', chosen')
  PROVE  ListInv'
<1>1. UNCHANGED <<db, gone>> /\ db \in [Records -> Nat]
  BY DEF server, IInv, Typed
<1>2. \A r \in Records : Carded(r)'
  BY <1>1, CardKeeps DEF ListInv
<1>3. Followed' /\ Panelled'
  <2>1. queries' # <<>>
    BY DEF Asks, Filling
  <2> QED BY <2>1, AsksFollowed, PanelledStays DEF ListInv
<1>4. Answers(queries)'
  BY <1>1 DEF Answers, Sound
<1> QED BY <1>2, <1>3, <1>4 DEF ListInv, Shaped

LEMMA SelectTabList ==
  ASSUME IInv, ListInv, NEW p \in Projects, SelectTab(p)
  PROVE  ListInv'
<1>1. /\ kind \in Kinds /\ queries \in Seq(QueryType) /\ Answers(queries)
      /\ tab' = p /\ chosen' \in SUBSET Versions
      /\ UNCHANGED <<kind, server, live, unseen, wire, resolving, listed, panels, cards>>
  BY DEF SelectTab, Kept, IInv, Typed, ListInv, panelled
<1>2. CASE chosen' = chosen
  <2>1. UpdateFilter(p, chosen', FALSE, queries)
    BY <1>2 DEF SelectTab
  <2>2. Asks(queries', p, chosen') /\ Answers(queries')
    BY <1>1, <2>1, UpdateFilterAsks
  <2> QED BY <1>1, <2>2, AskingList
<1>3. CASE chosen' # chosen
  <2> DEFINE q == Query("list", p, chosen', FALSE)
             f == First(kind, p, chosen', FALSE)
             one == Append(queries, q)
  <2>1. queries' = queries \o <<q, f>>
    BY <1>3 DEF SelectTab
  <2>2. q \in QueryType /\ q.answer = Unserved /\ f \in QueryType /\ f.answer = Unserved
        /\ (f.step = "filter" \/ (f.tab = p /\ f.chosen = chosen'))
    <3>1. q \in QueryType /\ f \in QueryType
      BY <1>1, QueryIsTyped, FirstIsTyped
    <3>2. q.answer = Unserved
      BY DEF Query
    <3>3. f.answer = Unserved /\ (f.step = "filter" \/ (f.tab = p /\ f.chosen = chosen'))
      BY <1>1, FirstFields
    <3> QED BY <3>1, <3>2, <3>3
  <2> HIDE DEF q, f
  <2>3. queries' = Append(one, f)
    BY <1>1, <2>1, <2>2
  <2>4. one \in Seq(QueryType) /\ Answers(one)
    BY <1>1, <2>2, AppendGives
  <2> HIDE DEF one
  <2>5. Asks(queries', p, chosen') /\ Answers(queries')
    BY <2>2, <2>3, <2>4, AppendGives DEF Asks
  <2> QED BY <1>1, <2>5, AskingList
<1> QED BY <1>2, <1>3

LEMMA ClickList ==
  ASSUME IInv, ListInv, CloseAddition \/ \E vs \in SUBSET Versions : ChooseVersions(vs)
  PROVE  ListInv'
<1>1. /\ kind \in Kinds /\ queries \in Seq(QueryType) /\ Answers(queries)
      /\ tab \in Projects /\ chosen \in SUBSET Versions
  BY DEF IInv, Typed, ListInv
<1>2. CASE CloseAddition
  <2>1. Asks(queries', tab, chosen) /\ Answers(queries')
    BY <1>1, <1>2, UpdateFilterAsks DEF CloseAddition
  <2> QED BY <1>2, <2>1, AskingList DEF CloseAddition, panelled
<1>3. ASSUME NEW vs \in SUBSET Versions, ChooseVersions(vs) PROVE ListInv'
  <2>1. Filter(tab, vs, FALSE, queries) /\ chosen' = vs
    BY <1>3 DEF ChooseVersions
  <2>2. Asks(queries', tab, vs) /\ Answers(queries')
    BY <1>1, <2>1, FilterAsks
  <2> QED BY <1>3, <2>1, <2>2, AskingList DEF ChooseVersions, panelled
<1> QED BY <1>2, <1>3

LEMMA AnswerFilterList ==
  ASSUME IInv, ListInv, NEW i \in DOMAIN queries, AnswerFilter(i)
  PROVE  ListInv'
<1> DEFINE q == queries[i]
           rest == RemoveAt(queries, i)
           further == Query("list", tab, chosen', FALSE)
<1>1. queries \in Seq(QueryType) /\ Answers(queries) /\ tab \in Projects /\ chosen \in SUBSET Versions
  BY DEF IInv, Typed, ListInv
<1>2. rest \in Seq(QueryType) /\ Answers(rest)
  BY <1>1, RemoveAnswers
<1>3. q.silent \in BOOLEAN
  <2>1. q \in QueryType
    BY <1>1, ElementOfSeq
  <2> QED BY <2>1 DEF QueryType
<1>4. /\ UNCHANGED <<kind, server, live, unseen, wire, resolving, tab, listed, panels, cards>>
      /\ chosen' \in SUBSET Versions
  BY <1>1 DEF AnswerFilter
<1>5. Asks(queries', tab, chosen') /\ Answers(queries')
  <2>1. CASE kind # "configurations"
    <3>1. Filter(tab, chosen, q.silent, rest) /\ chosen' = chosen
      BY <2>1 DEF AnswerFilter
    <3> HIDE DEF q, rest
    <3> QED BY <1>1, <1>2, <1>3, <3>1, FilterAsks
  <2>2. CASE kind = "configurations"
    <3> DEFINE qs == IF chosen' = chosen THEN rest ELSE Append(rest, further)
    <3>1. Filter(tab, chosen', FALSE, qs)
      BY <2>2 DEF AnswerFilter
    <3>2. further \in QueryType /\ further.answer = Unserved
      <4>1. further \in QueryType
        BY <1>1, <1>4, QueryIsTyped
      <4> QED BY <4>1 DEF Query
    <3> HIDE DEF rest, further
    <3>3. qs \in Seq(QueryType) /\ Answers(qs)
      BY <1>2, <3>2, AppendGives
    <3> HIDE DEF qs
    <3> QED BY <1>1, <1>4, <3>1, <3>3, FilterAsks
  <2> QED BY <2>1, <2>2
<1> QED BY <1>4, <1>5, AskingList

LEMMA QueryFailsList ==
  ASSUME IInv, ListInv, NEW i \in DOMAIN queries, QueryFails(i)
  PROVE  ListInv'
<1>1. /\ queries \in Seq(QueryType) /\ Answers(queries) /\ failed' = TRUE
      /\ queries' = RemoveAt(queries, i)
      /\ UNCHANGED <<kind, server, live, unseen, wire, resolving, listed, cards, db>>
      /\ db \in [Records -> Nat]
  BY DEF QueryFails, IInv, Typed, ListInv, server
<1>2. Answers(queries')
  BY <1>1, RemoveAnswers
<1>3. \A r \in Records : Carded(r)'
  BY <1>1, CardKeeps DEF ListInv
<1>4. Panelled'
  BY <1>1, PanelledStays DEF ListInv
<1> QED BY <1>1, <1>2, <1>3, <1>4 DEF ListInv, Shaped, Answers, Sound, Followed

\* The panel answers with what it has: of the last request, what the page wants.
LEMMA ServeQueryList ==
  ASSUME IInv, ListInv, NEW i \in DOMAIN queries, ServeQuery(i)
  PROVE  ListInv'
<1> DEFINE S == {r \in Present : Selects(queries[i], r)}
<1>0. PICK L \in Limited(S) :
        queries' = [queries EXCEPT ![i].answer = [r \in Records |-> IF r \in L THEN db[r] ELSE 0]]
  BY DEF ServeQuery
<1> DEFINE served == [r \in Records |-> IF r \in L THEN db[r] ELSE 0]
           q == [queries[i] EXCEPT !.answer = served]
<1>1. /\ UNCHANGED <<kind, server, live, unseen, wire, resolving, tab, chosen, listed, panels, late,
                     failed, cards>>
      /\ queries' = [queries EXCEPT ![i].answer = served]
      /\ queries \in Seq(QueryType) /\ db \in [Records -> Nat]
  BY <1>0 DEF ServeQuery, IInv, Typed, panelled
<1>2. UNCHANGED <<db, gone, started>>
  BY <1>1 DEF server
<1>3. served \in [Records -> Int] /\ Sound(served)
  BY <1>1 DEF Sound
<1>4. q.step = queries[i].step /\ q.tab = queries[i].tab /\ q.chosen = queries[i].chosen
      /\ q.overtaken = queries[i].overtaken /\ q.answer = served /\ q \in QueryType
      /\ queries[i].step \in {"filter", "list"}
  <2> HIDE DEF served
  <2>1. queries[i] \in QueryType
    BY <1>1, ElementOfSeq
  <2> QED BY <1>3, <2>1 DEF QueryType
<1>5. /\ Len(queries') = Len(queries) /\ DOMAIN queries = 1 .. Len(queries) /\ Len(queries) \in Nat
      /\ DOMAIN queries' = 1 .. Len(queries) /\ queries'[i] = q
      /\ \A j \in 1 .. Len(queries) : j # i => queries'[j] = queries[j]
  BY <1>1, <1>4
<1> HIDE DEF q
<1>6. Answers(queries')
  BY <1>3, <1>4, <1>5 DEF ListInv, Answers
<1>7. ASSUME Good(queries[i]), queries[i].step = "list" PROVE Good(q)
  <2>1. q.tab = tab /\ q.chosen = chosen /\ q.answer = served
    BY <1>4, <1>7 DEF Good
  <2>2. S = Wanted
    BY <1>1, <1>7, <2>1, <1>4 DEF Present, Wanted, Selects
  <2>3. L \subseteq S
    BY DEF Limited
  <2>4. \A r \in Records : served[r] > 0 <=> r \in L
    BY <1>1, <2>3 DEF Present
  <2>5. Fits(served)
    BY <2>2, <2>4 DEF Fits
  <2> QED BY <2>1, <2>5 DEF Good
<1>8. Followed'
  <2> DEFINE n == Len(queries)
  <2>1. /\ Coming => Coming'
        /\ SameWants
    BY <1>1, <1>2 DEF Coming, Events, AsksAgain, Present, SameWants
  <2>0. \A a : Fits(a) => Fits(a)'
    BY <2>1, FitsStays
  <2>2. \A x : Good(x) => Good(x)'
    BY <1>1, <2>0 DEF Good
  <2>3. Filling(queries) => Filling(queries')
    BY <1>4, <1>5 DEF Filling
  <2>4. queries # <<>> /\ queries' # <<>> /\ n \in DOMAIN queries
    BY <1>1, <1>5
  <2>5. \/ Filling(queries) \/ queries[i].step = "list"
    BY <1>4 DEF Filling
  <2>6. queries[n].overtaken \/ Good(queries[n]) =>
          Filling(queries') \/ queries'[n].overtaken \/ Good(queries'[n])
    BY <1>4, <1>5, <1>7, <2>3, <2>4, <2>5
  <2> HIDE DEF n
  <2>7. Filling(queries)' = Filling(queries')
    BY DEF Filling
  <2>8. n = Len(queries)'
    BY <1>5 DEF n
  <2>9. queries'[n] = (queries[Len(queries)])'
    BY <2>8
  <2> QED BY <1>1, <2>1, <2>2, <2>3, <2>4, <2>6, <2>7, <2>9 DEF ListInv, Followed, n
<1>9. Panelled' /\ \A r \in Records : Carded(r)'
  <2>1. queries' # <<>>
    BY <1>5
  <2> QED BY <1>1, <1>2, <2>1, CardKeeps, PanelledStays DEF ListInv
<1>10. Answers(queries)'
  BY <1>2, <1>6 DEF Answers, Sound
<1> QED BY <1>1, <1>8, <1>9, <1>10 DEF ListInv, Shaped

-----------------------------------------------------------------------------
\* A card on the screen, and one that is given to a record.
LEMMA MountedGives ==
  ASSUME NEW c \in CardType
  PROVE  /\ Mounted(c) \in CardType
         /\ Mounted(c).base = c.base /\ Mounted(c).held = c.held /\ Mounted(c).newest = c.newest
         /\ Mounted(c).astray = c.astray
         /\ Mounted(c).reading \in {Asked, Idle, c.reading}
<1> DEFINE reads == \/ kind = "assemblies" /\ c.reading = New /\ Running(c.base)
                    \/ kind = "configurations" /\ c.reading \in {New, Idle} /\ c.held = 0
           n == IF reads THEN Asked ELSE IF c.reading = New THEN Idle ELSE c.reading
<1>1. n \in Int /\ n \in {Asked, Idle, c.reading}
  <2> HIDE DEF reads
  <2> QED BY DEF CardType, Asked, Idle
<1>2. Mounted(c) = [c EXCEPT !.reading = n]
  BY DEF Mounted
<1> HIDE DEF n
<1> QED BY <1>1, <1>2 DEF CardType

LEMMA CardGives ==
  ASSUME NEW v \in Int
  PROVE  /\ Card(v) \in CardType
         /\ Card(v).base = v /\ Card(v).held = 0 /\ Card(v).newest = 0 /\ Card(v).reading = New
<1>1. NoCard \in CardType /\ NoCard.held = 0 /\ NoCard.newest = 0
  BY DEF NoCard, CardType, Idle
<1>2. PICK n \in Int : n = New
  BY DEF New
<1>3. PICK c \in CardType : c = NoCard
  BY <1>1
<1>4. Card(v) = [c EXCEPT !.base = v, !.reading = n]
  BY <1>2, <1>3 DEF Card
<1>5. /\ Card(v) \in CardType
      /\ Card(v).base = v /\ Card(v).held = c.held /\ Card(v).newest = c.newest
      /\ Card(v).reading = n
  BY <1>2, <1>3, <1>4 DEF CardType
<1> QED BY <1>1, <1>2, <1>3, <1>5

LEMMA RefreshedGives ==
  ASSUME Shaped, NEW answer \in [Records -> Nat], NEW shown \in BOOLEAN
  PROVE  /\ Refreshed(answer, shown) \in [Records -> CardType]
         /\ \A r \in Records :
              LET d == Refreshed(answer, shown)[r] IN
              \/ answer[r] = 0 /\ d = NoCard
              \/ /\ answer[r] > 0 /\ ~ HasCard(r)
                 /\ d.base = answer[r] /\ d.held = 0 /\ d.newest = 0 /\ d.reading \in {Asked, Idle, New}
              \/ /\ answer[r] > 0 /\ HasCard(r)
                 /\ d.base = cards[r].base /\ d.held = cards[r].held /\ d.newest = cards[r].newest
                 /\ d.astray = cards[r].astray /\ d.reading \in {Asked, Idle, cards[r].reading}
<1>1. NoCard \in CardType /\ cards \in [Records -> CardType]
  BY DEF NoCard, CardType, Idle, Shaped
<1>2. ASSUME NEW r \in Records
      PROVE  LET d == Refreshed(answer, shown)[r] IN
             /\ d \in CardType
             /\ \/ answer[r] = 0 /\ d = NoCard
                \/ /\ answer[r] > 0 /\ ~ HasCard(r)
                   /\ d.base = answer[r] /\ d.held = 0 /\ d.newest = 0 /\ d.reading \in {Asked, Idle, New}
                \/ /\ answer[r] > 0 /\ HasCard(r)
                   /\ d.base = cards[r].base /\ d.held = cards[r].held /\ d.newest = cards[r].newest
                   /\ d.astray = cards[r].astray /\ d.reading \in {Asked, Idle, cards[r].reading}
  <2> DEFINE c == IF HasCard(r) THEN cards[r] ELSE Card(answer[r])
             d == Refreshed(answer, shown)[r]
  <2>1. d = IF answer[r] = 0 THEN NoCard ELSE IF shown THEN Mounted(c) ELSE c
    BY DEF Refreshed
  <2>2. /\ Card(answer[r]) \in CardType
        /\ Card(answer[r]).base = answer[r] /\ Card(answer[r]).held = 0
        /\ Card(answer[r]).newest = 0 /\ Card(answer[r]).reading = New
    BY CardGives
  <2>3. c \in CardType
    BY <1>1, <2>2
  <2>4. HasCard(r) => c = cards[r]
    OBVIOUS
  <2>5. ~ HasCard(r) => c = Card(answer[r])
    OBVIOUS
  <2> HIDE DEF c, d
  <2>6. CASE answer[r] = 0
    BY <1>1, <2>1, <2>6 DEF d
  <2>7. CASE answer[r] # 0
    <3>1. answer[r] > 0
      BY <2>7
    <3>2. d = Mounted(c) \/ d = c
      BY <2>1, <2>7
    <3>3. /\ d \in CardType
          /\ d.base = c.base /\ d.held = c.held /\ d.newest = c.newest
          /\ d.astray = c.astray /\ d.reading \in {Asked, Idle, c.reading}
      BY <2>3, <3>2, MountedGives
    <3>4. CASE HasCard(r)
      BY <2>4, <3>1, <3>3, <3>4 DEF d
    <3>5. CASE ~ HasCard(r)
      BY <2>2, <2>5, <3>1, <3>3, <3>5 DEF d
    <3> QED BY <3>4, <3>5
  <2> QED BY <2>6, <2>7
<1>3. Refreshed(answer, shown) = [r \in Records |-> Refreshed(answer, shown)[r]]
  BY DEF Refreshed
<1> QED BY <1>2, <1>3

\* The list that is applied is what the panel had.
LEMMA RefreshTakes ==
  ASSUME IInv, ListInv, NEW i \in DOMAIN queries, RefreshCards(i)
  PROVE  /\ queries[i].answer \in [Records -> Nat]
         /\ \A r \in Records : queries[i].answer[r] <= db[r]
         /\ \E shown \in BOOLEAN : cards' = Refreshed(queries[i].answer, shown)
<1>1. queries[i] \in QueryType /\ db \in [Records -> Nat]
  BY ElementOfSeq DEF IInv, Typed
<1>2. /\ queries[i].answer # Unserved /\ queries[i].answer \in [Records -> Int]
      /\ \E shown \in BOOLEAN : cards' = Refreshed(queries[i].answer, shown)
  BY <1>1 DEF RefreshCards, QueryType
<1>3. \A r \in Records : queries[i].answer[r] \in 0 .. db[r]
  BY <1>2 DEF ListInv, Answers, Sound
<1> QED BY <1>1, <1>2, <1>3

LEMMA RefreshCardsList ==
  ASSUME IInv, ListInv, NEW i \in DOMAIN queries, RefreshCards(i)
  PROVE  ListInv'
<1> DEFINE q == queries[i]
           n == Len(queries)
           before(x) == [x EXCEPT !.overtaken = (x.step = "list")]
<1>1. /\ queries \in Seq(QueryType) /\ DOMAIN queries = 1 .. n /\ n \in Nat /\ i \in 1 .. n
      /\ \A j \in 1 .. n : queries[j] \in QueryType
  BY ElementOfSeq DEF IInv, Typed
<1>2. /\ q.step = "list" /\ q.answer # Unserved /\ q.answer \in [Records -> Int]
      /\ listed' = q.answer /\ late' = q.overtaken
      /\ UNCHANGED <<kind, server, live, unseen, wire, resolving, tab, chosen, failed>>
  BY <1>1 DEF RefreshCards, QueryType
<1>3. DOMAIN queries' = 1 .. (n - 1) /\ Len(queries') = n - 1
      /\ \A j \in 1 .. (n - 1) : queries'[j] = IF j < i THEN before(queries[j]) ELSE queries[j + 1]
  <2>1. queries' = [j \in 1 .. (n - 1) |-> IF j < i THEN before(queries[j]) ELSE queries[j + 1]]
    BY DEF RefreshCards
  <2>2. DOMAIN queries' = 1 .. (n - 1) /\ n - 1 \in Nat
    BY <1>1, <2>1
  <2>3. queries' \in Seq(QueryType)
    BY RefreshCardsPreserves DEF IInv, Typed
  <2> QED BY <2>1, <2>2, <2>3, LenProperties
<1>4. ASSUME NEW y \in QueryType
      PROVE  /\ before(y).step = y.step /\ before(y).answer = y.answer
             /\ y.step = "list" => before(y).overtaken
  BY DEF QueryType
<1> HIDE DEF before, n
<1>5. UNCHANGED <<db, gone, started>> /\ db \in [Records -> Nat]
  BY <1>2 DEF server, IInv, Typed
<1>6. Answers(queries')
  <2>1. \A j \in 1 .. n : Sound(queries[j].answer)
    BY <1>1 DEF ListInv, Answers
  <2>2. ASSUME NEW j \in 1 .. (n - 1) PROVE Sound(queries'[j].answer)
    <3>1. j \in 1 .. n /\ j + 1 \in 1 .. n
      BY <1>1
    <3>2. CASE j < i
      BY <1>1, <1>3, <1>4, <2>1, <3>1, <3>2
    <3>3. CASE ~ (j < i)
      BY <1>3, <2>1, <3>1, <3>3
    <3> QED BY <3>2, <3>3
  <2> QED BY <1>3, <2>2 DEF Answers
<1>7. /\ q.answer \in [Records -> Nat]
      /\ \A r \in Records : q.answer[r] <= db[r]
  BY RefreshTakes
<1>8. cards' \in [Records -> CardType] /\ \A r \in Records : Carded(r)'
  <2> HIDE DEF q
  <2>1. NoCard.base = 0
    BY DEF NoCard
  <2>0. PICK s \in BOOLEAN : cards' = Refreshed(q.answer, s)
    BY RefreshTakes DEF q
  <2>2. cards' \in [Records -> CardType]
    BY <1>7, <2>0, RefreshedGives DEF ListInv
  <2>3. ASSUME NEW r \in Records
        PROVE  /\ q.answer[r] = 0 => cards'[r] = NoCard
               /\ q.answer[r] > 0 => cards'[r].base > 0
    <3>1. \/ q.answer[r] = 0 /\ cards'[r] = NoCard
          \/ q.answer[r] > 0 /\ ~ HasCard(r) /\ cards'[r].base = q.answer[r]
          \/ q.answer[r] > 0 /\ HasCard(r) /\ cards'[r].base = cards[r].base
      BY <1>7, <2>0, RefreshedGives DEF ListInv
    <3>2. HasCard(r) => cards[r].base > 0
      BY DEF ListInv, Carded
    <3> QED BY <3>1, <3>2
  <2>4. ASSUME NEW r \in Records PROVE Carded(r)'
    <3>1. q.answer[r] \in Nat /\ q.answer[r] <= db[r] /\ db[r] \in Nat /\ db' = db
      BY <1>5, <1>7
    <3>2. listed'[r] = q.answer[r]
      BY <1>2
    <3>3. CASE q.answer[r] = 0
      BY <2>3, <3>1, <3>2, <3>3 DEF Carded, HasCard
    <3>4. CASE q.answer[r] > 0
      BY <2>1, <2>3, <3>1, <3>2, <3>4 DEF Carded, HasCard
    <3> QED BY <3>1, <3>3, <3>4
  <2> QED BY <2>2, <2>4
<1>9. Followed'
  <2>1. SameWants /\ (Coming => Coming')
    BY <1>2, <1>5 DEF SameWants, Present, Coming, Events, AsksAgain
  <2>0. \A a : Fits(a) => Fits(a)'
    BY <2>1, FitsStays
  <2>2. \A x : Good(x) => Good(x)'
    BY <1>2, <2>0 DEF Good
  <2>3. ASSUME Filling(queries) PROVE Filling(queries')
    <3>1. PICK k \in 1 .. n : queries[k].step = "filter"
      BY <1>1, <2>3 DEF Filling
    <3>2. CASE k < i
      <4>1. k \in 1 .. (n - 1) /\ queries'[k].step = "filter"
        BY <1>1, <1>3, <1>4, <3>1, <3>2
      <4> QED BY <1>3, <4>1 DEF Filling
    <3>3. CASE k > i
      <4>1. k - 1 \in 1 .. (n - 1) /\ ~ (k - 1 < i) /\ (k - 1) + 1 = k
        BY <1>1, <3>3
      <4>2. queries'[k - 1].step = "filter"
        BY <1>3, <3>1, <4>1
      <4> QED BY <1>3, <4>1, <4>2 DEF Filling
    <3> QED BY <1>1, <1>2, <3>1, <3>2, <3>3
  <2>4. CASE i < n
    <3>1. n - 1 \in 1 .. (n - 1) /\ ~ (n - 1 < i) /\ (n - 1) + 1 = n
      BY <1>1, <2>4
    <3>2. queries'[n - 1] = queries[n] /\ queries' # <<>> /\ queries # <<>>
      BY <1>1, <1>3, <3>1
    <3>3. queries'[Len(queries')] = queries[Len(queries)]
      BY <1>3, <3>2 DEF n
    <3> QED BY <1>2, <2>1, <2>2, <2>3, <3>2, <3>3 DEF ListInv, Followed, Filling
  <2>5. CASE i = n
    <3>1. queries # <<>> /\ q = queries[Len(queries)]
      BY <1>1, <2>5 DEF n
    <3>2. CASE n = 1
      <4>1. queries' = <<>>
        BY <1>3, <3>2
      <4>2. q.overtaken => late'
        BY <1>2
      <4>3. Good(q) => Fits(listed)'
        <5>1. Good(q) => Fits(q.answer)
          BY <1>2 DEF Good
        <5> QED BY <1>2, <2>0, <5>1
      <4> QED BY <1>2, <2>1, <2>3, <3>1, <4>1, <4>2, <4>3 DEF ListInv, Followed, Filling
    <3>3. CASE n # 1
      <4>1. n - 1 \in 1 .. (n - 1) /\ n - 1 < i /\ n - 1 \in 1 .. n
        BY <1>1, <2>5, <3>3
      <4>2. queries'[n - 1] = before(queries[n - 1]) /\ queries[n - 1] \in QueryType
        BY <1>1, <1>3, <4>1
      <4>3. queries'[n - 1].step = "filter" \/ queries'[n - 1].overtaken
        BY <1>4, <4>2 DEF QueryType
      <4>4. queries' # <<>> /\ queries'[n - 1] = queries'[Len(queries')]
        BY <1>3, <4>1
      <4>5. Filling(queries') \/ queries'[Len(queries')].overtaken
        BY <1>3, <4>1, <4>3, <4>4 DEF Filling
      <4> QED BY <4>4, <4>5 DEF Followed, Filling
    <3> QED BY <3>2, <3>3
  <2> QED BY <1>1, <2>4, <2>5
<1>10. Answers(queries)'
  BY <1>5, <1>6 DEF Answers, Sound
<1>11. Panelled'
  <2>1. panels' = Redrawn(q.answer)
    BY DEF RefreshCards
  <2> QED BY <1>2, <2>1 DEF Panelled, Redrawn, VersionAt
<1>12. listed' \in [Records -> Int]
  BY <1>2
<1> QED BY <1>2, <1>8, <1>9, <1>10, <1>11, <1>12 DEF ListInv, Shaped

\* Opening a panel moves no card.
LEMMA TogglePanelList ==
  ASSUME IInv, ListInv, NEW v \in Versions, TogglePanel(v)
  PROVE  ListInv'
<1>1. /\ UNCHANGED <<kind, db, gone, started, live, unseen, wire, resolving, tab, chosen, queries,
                     listed, late, failed, cards>>
      /\ DOMAIN panels' = DOMAIN panels /\ db \in [Records -> Nat]
  BY DEF TogglePanel, server, IInv, Typed
<1>2. SameWants /\ (Coming => Coming')
  BY <1>1 DEF SameWants, Present, Coming, Events, AsksAgain
<1>3. Followed' /\ Panelled'
  BY <1>1, <1>2, FollowedStays, PanelledStays DEF ListInv
<1>4. \A r \in Records : Carded(r)'
  BY <1>1, CardKeeps DEF ListInv
<1> QED BY <1>1, <1>3, <1>4 DEF ListInv, Shaped, Answers, Sound

LEMMA StepList == IInv /\ ListInv /\ [Next]_vars => ListInv'
<1> SUFFICES ASSUME IInv, ListInv, [Next]_vars PROVE ListInv'
  OBVIOUS
<1>1. CASE Receive \/ \E e \in resolving : Resolve(e)
  BY <1>1, ReceiveList, ResolveList
<1>2. ASSUME NEW i \in DOMAIN queries,
             ServeQuery(i) \/ AnswerFilter(i) \/ RefreshCards(i) \/ QueryFails(i)
      PROVE  ListInv'
  BY <1>2, ServeQueryList, AnswerFilterList, RefreshCardsList, QueryFailsList
<1>3. CASE CloseAddition \/ \E vs \in SUBSET Versions : ChooseVersions(vs)
  BY <1>3, ClickList
<1>4. CASE \E r \in Records : Change(r) \/ DeleteConfiguration(r)
  BY <1>4, ChangeList, DeleteConfigurationList
<1>5. CASE \E p \in Projects : SelectTab(p)
  BY <1>5, SelectTabList
<1>6. CASE \E r \in Records : ServeReading(r) \/ AnswerReading(r) \/ Expand(r)
  BY <1>6, ReadingList
<1>7. CASE StreamSubscribes \/ UNCHANGED vars
  BY <1>7, QuietStepList
<1>8. CASE \E v \in Versions : TogglePanel(v)
  BY <1>8, TogglePanelList
<1> QED BY <1>1, <1>2, <1>3, <1>4, <1>5, <1>6, <1>7, <1>8 DEF Next, PageStep

\* When nothing is under way the page shows the records of its tab and versions that
\* exist, unless its last list overtook another, a request failed or a change came
\* before the stream: in whatever order the panel answers, and whatever the user
\* selects meanwhile.
THEOREM QuietPageShowsTab == Spec => []QuietShowsTab
<1>1. Init => IInv /\ ListInv
  BY InitInv, InitList
<1>2. IInv /\ ListInv /\ [Next]_vars => IInv' /\ ListInv'
  BY StepPreserves, StepList
<1>3. IInv /\ ListInv => QuietShowsTab
  BY ListGives
<1> QED BY <1>1, <1>2, <1>3, PTL DEF Spec

-----------------------------------------------------------------------------
(* A card that has a record has been handed the latest, or the event that  *)
(* hands it over is on its way: on the wire there is always one that no    *)
(* later one follows, and StreamsActivator holds it back only together     *)
(* with one that is not marked as old.                                     *)

Update(e, r) == e.type = "UPDATE" /\ e.id = r

\* The event with the latest record is on its way.
Pending(r) == \E e \in Events : Update(e, r) /\ e.ver = db[r]

Ordered(r) ==
  /\ \A e \in Events : Update(e, r) => e.ver > 0 /\ e.ver <= db[r]
  /\ \A e \in resolving : Update(e, r) /\ ~ e.old => Pending(r)
  /\ \A i \in DOMAIN wire : Update(wire[i], r) =>
       /\ ~ wire[i].old
       /\ \E j \in DOMAIN wire : j >= i /\ Update(wire[j], r) /\ wire[j].ver = db[r]

UpToDate(r) ==
  /\ cards[r].newest <= db[r] /\ cards[r].reading <= db[r]
  /\ HasCard(r) /\ ~ cards[r].astray =>
       /\ cards[r].held > 0 => cards[r].newest = db[r] \/ Pending(r)
       /\ cards[r].reading > 0 =>
            cards[r].reading = db[r] \/ cards[r].newest = db[r] \/ Pending(r)

LatestInv == ~ unseen => \A r \in Records : Ordered(r) /\ UpToDate(r)

LEMMA LatestGives == LatestInv => LoadedCardsHandedLatest
<1> SUFFICES ASSUME LatestInv, Quiet, Told, NEW r \in Present,
                    HasCard(r), cards[r].held > 0, ~ cards[r].astray
             PROVE  cards[r].newest = db[r]
  BY DEF LoadedCardsHandedLatest
<1>1. Events = {}
  BY DEF Quiet, Events
<1>2. ~ Pending(r)
  BY <1>1 DEF Pending
<1> QED BY <1>2 DEF LatestInv, UpToDate, Told, Present

LEMMA EventsTyped == Shaped => Events \subseteq Event
<1> SUFFICES ASSUME Shaped, NEW i \in DOMAIN wire PROVE wire[i] \in Event
  BY DEF Events, Shaped
<1> QED BY ElementOfSeq DEF Shaped

LEMMA InitLatest == Init => LatestInv
<1> SUFFICES ASSUME Init, NEW r \in Records PROVE Ordered(r) /\ UpToDate(r)
  BY DEF LatestInv
<1>1. Events = {} /\ DOMAIN wire = {} /\ resolving = {}
  BY DEF Init, Events
<1>2. cards[r] = NoCard /\ db[r] \in Nat
  BY DEF Init
<1>3. NoCard.newest = 0 /\ NoCard.reading = -1
  BY DEF NoCard, Idle
<1> QED BY <1>1, <1>2, <1>3 DEF Ordered, UpToDate, HasCard

\* A step that changes neither the record nor the events keeps their order.
LEMMA OrderStays ==
  ASSUME NEW r \in Records, Ordered(r), UNCHANGED <<wire, resolving>>, db'[r] = db[r]
  PROVE  Ordered(r)' /\ Pending(r)' = Pending(r)
BY DEF Ordered, Pending, Events, Update

\* A card that nobody touches.
LEMMA CardStays ==
  ASSUME NEW r \in Records, UpToDate(r), cards'[r] = cards[r], db'[r] = db[r],
         Pending(r) => Pending(r)'
  PROVE  UpToDate(r)'
BY DEF UpToDate, HasCard

\* The steps of the page that leave the cards alone.
LEMMA PageLatest ==
  ASSUME LatestInv, UNCHANGED <<server, wire, resolving, unseen, cards>>
  PROVE  LatestInv'
<1>1. UNCHANGED db
  BY DEF server
<1>2. ASSUME NEW r \in Records, ~ unseen' PROVE Ordered(r)' /\ UpToDate(r)'
  <2>1. Ordered(r) /\ UpToDate(r)
    BY <1>2 DEF LatestInv
  <2> QED BY <1>1, <2>1, OrderStays, CardStays
<1> QED BY <1>2 DEF LatestInv

LEMMA ReadingLatest ==
  ASSUME IInv, ListInv, LatestInv, NEW r \in Records, ServeReading(r) \/ AnswerReading(r) \/ Expand(r)
  PROVE  LatestInv'
<1>1. UNCHANGED <<db, unseen, wire, resolving>> /\ HasCard(r) /\ cards \in [Records -> CardType]
      /\ db[r] \in Nat
  BY DEF ServeReading, AnswerReading, Expand, CardMounted, Drawn, server, ListInv, Shaped, IInv, Typed
<1>2. PICK c \in CardType :
           /\ cards' = [cards EXCEPT ![r] = c]
           /\ c.base = cards[r].base /\ c.astray = cards[r].astray
           /\ \/ /\ c.held = cards[r].held /\ c.newest = cards[r].newest
                 /\ c.reading \in {Asked, Idle, db[r]}
              \/ /\ cards[r].reading > 0 /\ c.held = cards[r].reading /\ c.reading = Idle
                 /\ c.newest = IF cards[r].reading > cards[r].newest THEN cards[r].reading
                               ELSE cards[r].newest
  BY ReadingGives DEF ListInv
<1>3. ASSUME NEW s \in Records, ~ unseen' PROVE Ordered(s)' /\ UpToDate(s)'
  <2>1. Ordered(s) /\ UpToDate(s)
    BY <1>1, <1>3 DEF LatestInv
  <2>2. Ordered(s)' /\ Pending(s)' = Pending(s)
    BY <1>1, <2>1, OrderStays
  <2>3. CASE s # r
    BY <1>1, <1>2, <2>1, <2>2, <2>3, CardStays
  <2>4. CASE s = r
    <3>1. cards'[r] = c /\ cards[r] \in CardType /\ Asked = 0 /\ Idle = -1
      BY <1>1, <1>2 DEF Asked, Idle
    <3>2. /\ cards[r].held \in Int /\ cards[r].newest \in Int /\ cards[r].reading \in Int
      BY <3>1 DEF CardType
    <3> QED BY <1>1, <1>2, <2>1, <2>2, <2>4, <3>1, <3>2 DEF UpToDate, HasCard
  <2> QED BY <2>3, <2>4
<1> QED BY <1>3 DEF LatestInv

LEMMA RefreshCardsLatest ==
  ASSUME IInv, ListInv, LatestInv, NEW i \in DOMAIN queries, RefreshCards(i)
  PROVE  LatestInv'
<1> DEFINE answer == queries[i].answer
<1>1. UNCHANGED <<db, unseen, wire, resolving>> /\ db \in [Records -> Nat]
  BY DEF RefreshCards, server, IInv, Typed
<1>2. answer \in [Records -> Nat] /\ \E shown \in BOOLEAN : cards' = Refreshed(answer, shown)
  BY RefreshTakes
<1>3. NoCard.newest = 0 /\ NoCard.reading = -1
  BY DEF NoCard, Idle
<1> HIDE DEF answer
<1>4. ASSUME NEW r \in Records, ~ unseen' PROVE Ordered(r)' /\ UpToDate(r)'
  <2>1. Ordered(r) /\ UpToDate(r)
    BY <1>1, <1>4 DEF LatestInv
  <2>2. Ordered(r)' /\ Pending(r)' = Pending(r)
    BY <1>1, <2>1, OrderStays
  <2>3. \/ cards'[r] = NoCard
        \/ /\ cards'[r].held = 0 /\ cards'[r].newest = 0 /\ cards'[r].reading \in {0, -1, -2}
        \/ /\ HasCard(r)
           /\ cards'[r].held = cards[r].held /\ cards'[r].newest = cards[r].newest
           /\ cards'[r].astray = cards[r].astray /\ cards'[r].reading \in {0, -1, cards[r].reading}
    BY <1>2, RefreshedGives DEF ListInv, Asked, Idle, New
  <2>4. db[r] \in Nat /\ db' = db
    BY <1>1
  <2>5. UpToDate(r)'
    BY <1>3, <2>1, <2>2, <2>3, <2>4 DEF UpToDate, HasCard
  <2> QED BY <2>2, <2>5
<1> QED BY <1>4 DEF LatestInv

LEMMA ChangeLatest ==
  ASSUME IInv, ListInv, LatestInv, NEW r \in Records, Change(r)
  PROVE  LatestInv'
<1>1. /\ UNCHANGED <<resolving, cards>> /\ db \in [Records -> Nat]
      /\ wire \in Seq(Event) /\ cards \in [Records -> CardType]
  BY DEF Change, IInv, Typed, ListInv, Shaped
<1>2. PICK e \in Event :
           /\ e.id = r /\ ~ e.old
           /\ \/ e.type = "DELETE" /\ db' = db
              \/ /\ db' = [db EXCEPT ![r] = @ + 1] /\ gone' = gone
                 /\ \/ e.type = "ADD" /\ db[r] = 0
                    \/ e.type = "UPDATE" /\ db[r] > 0 /\ e.ver = db[r] + 1
           /\ wire' = IF live THEN Append(wire, e) ELSE wire
           /\ unseen' = (unseen \/ ~ live)
  BY ChangeGives
<1>3. ASSUME NEW s \in Records, ~ unseen' PROVE Ordered(s)' /\ UpToDate(s)'
  <2> DEFINE n == Len(wire)
  <2>1. Ordered(s) /\ UpToDate(s)
    BY <1>2, <1>3 DEF LatestInv
  <2>2. /\ n \in Nat /\ DOMAIN wire = 1 .. n /\ DOMAIN wire' = 1 .. (n + 1) /\ wire'[n + 1] = e
        /\ \A i \in 1 .. n : wire'[i] = wire[i]
    <3>1. wire' = Append(wire, e)
      BY <1>2, <1>3
    <3>2. Len(wire') = n + 1 /\ wire' \in Seq(Event)
      BY <1>1, <3>1, AppendProperties
    <3> QED BY <1>1, <3>1, <3>2, AppendProperties, LenProperties
  <2> HIDE DEF n
  <2>3. Events' = Events \cup {e}
    <3>1. {wire'[i] : i \in DOMAIN wire'} = {wire[i] : i \in DOMAIN wire} \cup {e}
      <4>1. ASSUME NEW i \in DOMAIN wire' PROVE wire'[i] \in {wire[j] : j \in DOMAIN wire} \cup {e}
        BY <2>2
      <4>2. e \in {wire'[i] : i \in DOMAIN wire'}
        BY <2>2
      <4>3. ASSUME NEW i \in DOMAIN wire PROVE wire[i] \in {wire'[j] : j \in DOMAIN wire'}
        <5>1. i \in DOMAIN wire' /\ wire'[i] = wire[i]
          BY <2>2
        <5> QED BY <5>1
      <4> QED BY <4>1, <4>2, <4>3
    <3> QED BY <1>1, <3>1 DEF Events
  <2>4. CASE ~ Update(e, s) /\ db'[s] = db[s]
    <3>1. Pending(s) => Pending(s)'
      BY <2>3, <2>4 DEF Pending, Update
    <3>2. \A f \in Events' : Update(f, s)' => f.ver > 0 /\ f.ver <= db'[s]
      BY <2>1, <2>3, <2>4 DEF Ordered, Update
    <3>3. \A f \in resolving' : Update(f, s)' /\ ~ f.old => Pending(s)'
      BY <1>1, <2>1, <3>1 DEF Ordered, Update
    <3>4. ASSUME NEW i \in DOMAIN wire', Update(wire'[i], s)
          PROVE  /\ ~ wire'[i].old
                 /\ \E j \in DOMAIN wire' : j >= i /\ Update(wire'[j], s) /\ wire'[j].ver = db'[s]
      <4>1. i \in 1 .. n /\ wire'[i] = wire[i]
        BY <2>2, <2>4, <3>4
      <4>2. /\ ~ wire[i].old
            /\ \E j \in 1 .. n : j >= i /\ Update(wire[j], s) /\ wire[j].ver = db[s]
        BY <2>1, <2>2, <3>4, <4>1 DEF Ordered
      <4>3. \A j \in 1 .. n : j \in DOMAIN wire' /\ wire'[j] = wire[j]
        BY <2>2
      <4> QED BY <2>4, <4>1, <4>2, <4>3
    <3>5. Ordered(s)'
      BY <3>2, <3>3, <3>4 DEF Ordered, Update
    <3> QED BY <1>1, <2>1, <2>4, <3>1, <3>5, CardStays
  <2>5. CASE s = r /\ e.type = "ADD"
    <3>1. db[s] = 0 /\ db'[s] = 1 /\ ~ HasCard(s)
      BY <1>1, <1>2, <2>5 DEF ListInv, Carded
    <3>2. \A f \in Events : ~ Update(f, s)
      <4>1. \A f \in Events : f.ver \in Nat
        BY EventsTyped DEF Event, ListInv
      <4> QED BY <2>1, <3>1, <4>1 DEF Ordered
    <3>3. \A f \in Events' : ~ Update(f, s)
      BY <2>3, <2>5, <3>2 DEF Update
    <3>4. resolving' \subseteq Events' /\ \A i \in DOMAIN wire' : wire'[i] \in Events'
      BY DEF Events
    <3>5. Ordered(s)'
      BY <3>3, <3>4 DEF Ordered, Update
    <3>6. UpToDate(s)'
      <4>1. cards' = cards /\ cards[s].newest \in Int /\ cards[s].reading \in Int
        BY <1>1 DEF CardType
      <4> QED BY <2>1, <3>1, <4>1 DEF UpToDate, HasCard
    <3> QED BY <3>5, <3>6
  <2>6. CASE s = r /\ e.type = "UPDATE"
    <3>1. db'[s] = db[s] + 1 /\ db[s] \in Nat /\ e.ver = db'[s] /\ Update(e, s)
      BY <1>1, <1>2, <2>6 DEF Update
    <3>2. Pending(s)'
      BY <2>3, <3>1 DEF Pending, Update
    <3>3. \A f \in Events : f.ver \in Nat
      BY EventsTyped DEF Event, ListInv
    <3>4. \A f \in Events' : Update(f, s) => f.ver > 0 /\ f.ver <= db'[s]
      BY <2>1, <2>3, <3>1, <3>3 DEF Ordered
    <3>5. ASSUME NEW i \in DOMAIN wire', Update(wire'[i], s)
          PROVE  /\ ~ wire'[i].old
                 /\ \E j \in DOMAIN wire' : j >= i /\ Update(wire'[j], s) /\ wire'[j].ver = db'[s]
      <4>1. n + 1 \in DOMAIN wire' /\ n + 1 >= i
        BY <2>2
      <4>2. ~ wire'[i].old
        BY <1>2, <2>1, <2>2, <3>5 DEF Ordered
      <4> QED BY <2>2, <3>1, <4>1, <4>2
    <3>6. Ordered(s)'
      BY <3>2, <3>4, <3>5 DEF Ordered, Update
    <3>7. UpToDate(s)'
      <4>1. cards' = cards /\ cards[s].newest \in Int /\ cards[s].reading \in Int
        BY <1>1 DEF CardType
      <4> QED BY <2>1, <3>1, <3>2, <4>1 DEF UpToDate, HasCard
    <3> QED BY <3>6, <3>7
  <2>7. \/ ~ Update(e, s) /\ db'[s] = db[s]
        \/ s = r /\ e.type = "ADD"
        \/ s = r /\ e.type = "UPDATE"
    BY <1>1, <1>2 DEF Update
  <2> QED BY <2>4, <2>5, <2>6, <2>7
<1> QED BY <1>3 DEF LatestInv

LEMMA DeleteConfigurationLatest ==
  ASSUME IInv, ListInv, LatestInv, NEW r \in Records, DeleteConfiguration(r)
  PROVE  LatestInv'
<1> DEFINE e == [type |-> "DELETE", id |-> r, ver |-> db[r], old |-> FALSE]
<1>1. /\ UNCHANGED <<db, unseen, wire, cards>> /\ resolving' = resolving \cup {e}
      /\ e.type # "UPDATE"
  BY DEF DeleteConfiguration
<1> HIDE DEF e
<1>2. ASSUME NEW s \in Records, ~ unseen' PROVE Ordered(s)' /\ UpToDate(s)'
  <2>1. Ordered(s) /\ UpToDate(s)
    BY <1>1, <1>2 DEF LatestInv
  <2>2. Events' = Events \cup {e} /\ ~ Update(e, s)
    BY <1>1 DEF Events, Update
  <2>3. Pending(s) => Pending(s)'
    BY <1>1, <2>2 DEF Pending, Update
  <2>4. Ordered(s)'
    BY <1>1, <2>1, <2>2, <2>3 DEF Ordered, Update
  <2> QED BY <1>1, <2>1, <2>3, <2>4, CardStays
<1> QED BY <1>2 DEF LatestInv

LEMMA ReceiveLatest ==
  ASSUME IInv, ListInv, LatestInv, Receive
  PROVE  LatestInv'
<1> DEFINE e == Head(wire)
<1>1. wire # <<>> /\ wire' = Tail(wire) /\ UNCHANGED <<db, unseen>>
  BY DEF Receive, server
<1>2. /\ e \in Event
      /\ DOMAIN wire = 1 .. Len(wire) /\ Len(wire) \in Nat \ {0} /\ wire[1] = e
      /\ DOMAIN wire' = 1 .. (Len(wire) - 1) /\ \A i \in DOMAIN wire' : wire'[i] = wire[i + 1]
      /\ {wire[i] : i \in DOMAIN wire} = {e} \cup {wire'[i] : i \in DOMAIN wire'}
  BY <1>1, TailGives DEF ListInv
<1>3. /\ cards' = cards
      /\ \/ e.type = "DELETE" /\ resolving' = resolving
         \/ resolving' = resolving \cup {e}
  <2>1. CASE e.type = "DELETE"
    <3>1. cards' = CardsAfter(e) /\ resolving' = resolving
      BY <2>1 DEF Receive, Deliver
    <3> HIDE DEF e
    <3>2. \A s \in Records : cards'[s] = cards[s]
      BY <1>2, <2>1, <3>1, CardsAfterGives DEF ListInv
    <3>3. cards' \in [Records -> CardType] /\ cards \in [Records -> CardType]
      BY <1>2, <3>1, CardsAfterGives DEF ListInv, Shaped
    <3> QED BY <2>1, <3>1, <3>2, <3>3
  <2>2. CASE e.type # "DELETE"
    BY <2>2 DEF Receive
  <2> QED BY <2>1, <2>2
<1> HIDE DEF e
<1>4. ASSUME NEW s \in Records, ~ unseen' PROVE Ordered(s)' /\ UpToDate(s)'
  <2>1. Ordered(s) /\ UpToDate(s)
    BY <1>1, <1>4 DEF LatestInv
  <2>2. /\ Events' \subseteq Events
        /\ \A f \in Events : f \in Events' \/ f.type = "DELETE"
    BY <1>2, <1>3 DEF Events
  <2>3. Pending(s) => Pending(s)'
    BY <1>1, <2>2 DEF Pending, Update
  <2>4. \A i \in DOMAIN wire : Update(wire[i], s) => Pending(s)
    <3>1. \A j \in DOMAIN wire : wire[j] \in Events
      BY DEF Events
    <3> QED BY <2>1, <3>1 DEF Ordered, Pending
  <2>5. \A f \in resolving' : Update(f, s) /\ ~ f.old => Pending(s)'
    BY <1>2, <1>3, <2>1, <2>3, <2>4 DEF Ordered
  <2>6. ASSUME NEW i \in DOMAIN wire', Update(wire'[i], s)
        PROVE  /\ ~ wire'[i].old
               /\ \E j \in DOMAIN wire' : j >= i /\ Update(wire'[j], s) /\ wire'[j].ver = db'[s]
    <3>1. i + 1 \in DOMAIN wire /\ wire'[i] = wire[i + 1]
      BY <1>2
    <3>2. ~ wire[i + 1].old
      BY <2>1, <2>6, <3>1 DEF Ordered
    <3>3. PICK j \in DOMAIN wire : j >= i + 1 /\ Update(wire[j], s) /\ wire[j].ver = db[s]
      BY <2>1, <2>6, <3>1 DEF Ordered
    <3>4. j - 1 \in DOMAIN wire' /\ j - 1 >= i /\ (j - 1) + 1 = j
      BY <1>2, <3>3
    <3>5. wire'[j - 1] = wire[j]
      BY <1>2, <3>4
    <3> QED BY <1>1, <3>1, <3>2, <3>3, <3>4, <3>5
  <2>7. Ordered(s)'
    BY <1>1, <2>1, <2>2, <2>5, <2>6 DEF Ordered, Update
  <2> QED BY <1>1, <1>3, <2>1, <2>3, <2>7, CardStays
<1> QED BY <1>4 DEF LatestInv

\* Of the events of a record that StreamsActivator holds back, passing one on makes
\* those before it old: one that is not old waits with the latest, or is it.
LEMMA ResolveLatest ==
  ASSUME IInv, ListInv, LatestInv, NEW e \in resolving, Resolve(e)
  PROVE  LatestInv'
<1>1. /\ e \in Event
      /\ \A g \in resolving' :
           \E f \in resolving \ {e} :
             /\ g.type = f.type /\ g.id = f.id /\ g.ver = f.ver
             /\ g.old = (f.old \/ (f.id = e.id /\ f.ver < e.ver))
      /\ \A f \in resolving \ {e} :
           \E g \in resolving' : g.type = f.type /\ g.id = f.id /\ g.ver = f.ver
  BY ResolvingGives DEF ListInv
<1>2. /\ UNCHANGED <<db, unseen, wire>> /\ cards' = CardsAfter(e)
      /\ db \in [Records -> Nat] /\ cards \in [Records -> CardType]
  BY DEF Resolve, Deliver, server, IInv, Typed, ListInv, Shaped
<1>3. \A f \in Events : f.ver \in Nat
  BY EventsTyped DEF Event, ListInv
<1>4. ASSUME NEW s \in Records, ~ unseen' PROVE Ordered(s)' /\ UpToDate(s)'
  <2>1. Ordered(s) /\ UpToDate(s)
    BY <1>2, <1>4 DEF LatestInv
  <2>2. \A f \in Events \ {e} :
          \E g \in Events' : g.type = f.type /\ g.id = f.id /\ g.ver = f.ver
    BY <1>1, <1>2 DEF Events
  <2>3. \A g \in Events' :
          \E f \in Events : g.type = f.type /\ g.id = f.id /\ g.ver = f.ver
    BY <1>1, <1>2 DEF Events
  <2>4. Pending(s) => Pending(s)' \/ (Update(e, s) /\ e.ver = db[s])
    BY <1>2, <2>2 DEF Pending, Update
  <2>5. ASSUME NEW g \in resolving', Update(g, s), ~ g.old PROVE Pending(s)'
    <3>1. PICK f \in resolving \ {e} :
             /\ g.type = f.type /\ g.id = f.id /\ g.ver = f.ver
             /\ g.old = (f.old \/ (f.id = e.id /\ f.ver < e.ver))
      BY <1>1
    <3>2. Update(f, s) /\ ~ f.old /\ ~ (f.id = e.id /\ f.ver < e.ver)
      BY <2>5, <3>1 DEF Update
    <3>3. Pending(s)
      BY <2>1, <3>2 DEF Ordered
    <3>4. CASE Update(e, s) /\ e.ver = db[s]
      <4>1. f \in Events /\ e \in Events
        BY DEF Events
      <4>2. f.ver >= db[s]
        BY <1>2, <1>3, <3>2, <3>4, <4>1 DEF Update
      <4>3. f.ver <= db[s]
        BY <2>1, <3>2, <4>1 DEF Ordered
      <4>4. g.ver = db'[s]
        BY <1>2, <1>3, <3>1, <4>1, <4>2, <4>3
      <4>5. g \in Events'
        BY DEF Events
      <4> QED BY <2>5, <4>4, <4>5 DEF Pending, Update
    <3> QED BY <2>4, <3>3, <3>4
  <2>6. Ordered(s)'
    <3>1. \A g \in Events' : Update(g, s) => g.ver > 0 /\ g.ver <= db'[s]
      BY <1>2, <2>1, <2>3 DEF Ordered, Update
    <3>2. \A i \in DOMAIN wire' : Update(wire'[i], s) =>
            /\ ~ wire'[i].old
            /\ \E j \in DOMAIN wire' : j >= i /\ Update(wire'[j], s) /\ wire'[j].ver = db'[s]
      BY <1>2, <2>1 DEF Ordered
    <3> QED BY <2>5, <3>1, <3>2 DEF Ordered, Update
  <2>7. UpToDate(s)'
    <3>1. CASE cards'[s] = cards[s] /\ ~ Update(e, s)
      BY <1>2, <2>1, <2>4, <3>1, CardStays
    <3>2. CASE Update(e, s)
      <4>1. s = e.id /\ e.type = "UPDATE"
        BY <3>2 DEF Update
      <4>2. /\ cards[s].newest \in Int /\ cards[s].reading \in Int /\ db[s] \in Nat /\ db'[s] = db[s]
            /\ cards[s].newest <= db[s] /\ cards[s].reading <= db[s]
        BY <1>2, <2>1 DEF CardType, UpToDate
      <4>3. e.ver \in Nat /\ e.ver > 0 /\ e.ver <= db[s] /\ (~ e.old => Pending(s))
        <5>1. e \in Events
          BY DEF Events
        <5> QED BY <1>3, <2>1, <3>2, <5>1 DEF Ordered
      <4>4. cards'[s].reading = cards[s].reading
        BY <1>1, <1>2, CardsAfterGives DEF ListInv
      <4>5. CASE ~ HasCard(s)
        <5>1. cards'[s] = cards[s]
          BY <1>1, <1>2, <4>5, CardsAfterGives DEF ListInv, HasCard
        <5> QED BY <4>2, <4>5, <5>1 DEF UpToDate, HasCard
      <4>6. CASE HasCard(s) /\ ~ CardMounted(e.id)
        <5>1. cards'[s].newest = cards[s].newest /\ cards'[s].astray
          BY <1>2, <4>1, <4>6 DEF CardsAfter, HasCard, CardType
        <5> QED BY <4>2, <4>4, <5>1 DEF UpToDate
      <4>7. CASE HasCard(s) /\ CardMounted(e.id)
        <5>1. /\ cards'[s].held = e.ver
              /\ cards'[s].newest = IF e.ver > cards[s].newest THEN e.ver ELSE cards[s].newest
              /\ cards'[s].astray = (cards[s].astray \/ e.old)
          BY <1>1, <1>2, <4>1, <4>7, CardsAfterGives DEF ListInv, HasCard
        <5>2. cards'[s].astray \/ Pending(s)' \/ e.ver = db[s]
          BY <2>4, <4>3, <5>1, Zenon
        <5>3. cards'[s].newest <= db'[s] /\ (e.ver = db[s] => cards'[s].newest = db'[s])
          BY <4>2, <4>3, <5>1
        <5>4. cards'[s].reading <= db'[s]
          BY <4>2, <4>4
        <5> QED BY <5>2, <5>3, <5>4 DEF UpToDate
      <4> QED BY <4>5, <4>6, <4>7
    <3>3. ~ Update(e, s) => cards'[s] = cards[s]
      BY <1>1, <1>2, CardsAfterGives DEF ListInv, Update
    <3> QED BY <3>1, <3>2, <3>3
  <2> QED BY <2>6, <2>7
<1> QED BY <1>4 DEF LatestInv

LEMMA StepLatest == IInv /\ ListInv /\ LatestInv /\ [Next]_vars => LatestInv'
<1> SUFFICES ASSUME IInv, ListInv, LatestInv, [Next]_vars PROVE LatestInv'
  OBVIOUS
<1>1. CASE Receive \/ \E e \in resolving : Resolve(e)
  BY <1>1, ReceiveLatest, ResolveLatest
<1>2. CASE \E i \in DOMAIN queries : RefreshCards(i)
  BY <1>2, RefreshCardsLatest
<1>3. CASE \E r \in Records : Change(r) \/ DeleteConfiguration(r)
  BY <1>3, ChangeLatest, DeleteConfigurationLatest
<1>4. CASE \E r \in Records : ServeReading(r) \/ AnswerReading(r) \/ Expand(r)
  BY <1>4, ReadingLatest
<1>5. CASE \/ \E i \in DOMAIN queries : ServeQuery(i) \/ AnswerFilter(i) \/ QueryFails(i)
           \/ \E p \in Projects : SelectTab(p)
           \/ \E vs \in SUBSET Versions : ChooseVersions(vs)
           \/ \E v \in Versions : TogglePanel(v)
           \/ CloseAddition \/ StreamSubscribes \/ UNCHANGED vars
  <2>1. UNCHANGED <<server, wire, resolving, unseen, cards>>
    BY <1>5 DEF ServeQuery, AnswerFilter, QueryFails, SelectTab, ChooseVersions, CloseAddition,
                TogglePanel, StreamSubscribes, vars
  <2> QED BY <2>1, PageLatest
<1> QED BY <1>1, <1>2, <1>3, <1>4, <1>5 DEF Next, PageStep

\* A card that has a record of its own has been handed the latest one when nothing is
\* under way, unless an event passed it by or events of its record changed places:
\* however the lookups of StreamsActivator, the answers and the clicks interleave.
THEOREM LoadedCardsAreLatest == Spec => []LoadedCardsHandedLatest
<1>1. Init => IInv /\ ListInv /\ LatestInv
  BY InitInv, InitList, InitLatest
<1>2. IInv /\ ListInv /\ LatestInv /\ [Next]_vars => IInv' /\ ListInv' /\ LatestInv'
  BY StepPreserves, StepList, StepLatest
<1> QED BY <1>1, <1>2, LatestGives, PTL DEF Spec

-----------------------------------------------------------------------------
(* Forms: their rules. *)

\* What the rules of the forms have in common: a field that is required, checked or
\* looked up is watched, and what is looked up is checked; a dialog watches and clears
\* its name, and cannot be sent without it; a page watches all its fields, and a click
\* disables them.
WellFormed(r) ==
  /\ r.required \cup r.checked \cup r.listed \subseteq r.watched
  /\ r.watched \subseteq DOMAIN r.values
  /\ r.listed \subseteq r.checked /\ r.listed \subseteq {"name", "email"}
  /\ r.paired => {"name", "profile"} \subseteq r.watched /\ "name" \in r.checked
  /\ ~ r.page => "name" \in r.required \cap r.cleared
  /\ r.page => r.watched = DOMAIN r.values /\ r.locks = DOMAIN r.values

LEMMA NamedValues == \A v : DOMAIN Named(v) = {"name"} \cup DOMAIN v
BY DEF Named

LEMMA DialogIsWellFormed ==
  ASSUME NEW f, f.required \subseteq DOMAIN f.values
  PROVE  WellFormed(Dialog(f)) /\ DOMAIN Dialog(f).values = {"name"} \cup DOMAIN f.values
BY NamedValues DEF WellFormed, Dialog

LEMMA EditingIsWellFormed ==
  ASSUME NEW f, f.required \subseteq DOMAIN f.values
  PROVE  WellFormed(Editing(Dialog(f)))
BY NamedValues DEF WellFormed, Dialog, Editing

LEMMA ResourceFields ==
  ASSUME NEW f \in {OpenShiftResourceFields, GitResourceFields, ArtifactsResourceFields, ProxyResourceFields,
                    FilebeatApplicationFields, ProjectFields}
  PROVE  f.required \subseteq DOMAIN f.values
BY DEF OpenShiftResourceFields, GitResourceFields, ArtifactsResourceFields, ProxyResourceFields,
       FilebeatApplicationFields, ProjectFields

\* Fewer fields are checked and cleared, other options set: the name is still looked at.
LEMMA NameOnly ==
  ASSUME NEW r, {"checked", "cleared", "entered", "ready"} \subseteq DOMAIN r, WellFormed(r),
         r.listed = {"name"}, ~ r.page, ~ r.paired, NEW C, "name" \in C
  PROVE  /\ C \subseteq r.watched => WellFormed([r EXCEPT !.checked = C, !.cleared = C])
         /\ WellFormed([r EXCEPT !.entered = FALSE, !.cleared = C, !.ready = TRUE])
<1>1. ASSUME C \subseteq r.watched PROVE WellFormed([r EXCEPT !.checked = C, !.cleared = C])
  BY <1>1 DEF WellFormed
<1>2. WellFormed([r EXCEPT !.entered = FALSE, !.cleared = C, !.ready = TRUE])
  BY DEF WellFormed
<1> QED BY <1>1, <1>2

LEMMA EditingDialog ==
  ASSUME NEW f, f.required \subseteq DOMAIN f.values
  PROVE  /\ {"checked", "cleared", "entered", "ready"} \subseteq DOMAIN Editing(Dialog(f))
         /\ Editing(Dialog(f)).listed = {"name"}
         /\ ~ Editing(Dialog(f)).page /\ ~ Editing(Dialog(f)).paired
         /\ "name" \in Editing(Dialog(f)).watched
BY NamedValues DEF Dialog, Editing

LEMMA RulesAreWellFormed ==
  ASSUME NEW k \in Forms
  PROVE  WellFormed(Rules[k])
<1>1. ASSUME NEW f, f.required \subseteq DOMAIN f.values
      PROVE  WellFormed(ResourceAdditionDialog(f)) /\ WellFormed(ResourceEditingDialog(f))
  BY <1>1, DialogIsWellFormed, NamedValues DEF ResourceAdditionDialog, ResourceEditingDialog, WellFormed, Dialog, Editing
<1>2. WellFormed(ProjectAdditionDialog)
  BY NamedValues DEF ProjectAdditionDialog, WellFormed, Dialog, ProjectFields
<1>3. WellFormed(ProjectEditingDialog)
  <2>1. ProjectFields.required \subseteq DOMAIN ProjectFields.values
    BY ResourceFields
  <2> QED BY <2>1, EditingIsWellFormed, EditingDialog, NameOnly DEF ProjectEditingDialog
<1>4. WellFormed(ApplicationAdditionDialog(FilebeatApplicationFields))
  BY NamedValues DEF ApplicationAdditionDialog, WellFormed, Dialog, FilebeatApplicationFields
<1>5. WellFormed(ApplicationEditingDialog(FilebeatApplicationFields))
  <2>1. FilebeatApplicationFields.required \subseteq DOMAIN FilebeatApplicationFields.values
    BY ResourceFields
  <2> QED BY <2>1, EditingIsWellFormed, EditingDialog, NameOnly DEF ApplicationEditingDialog
<1>6. WellFormed(PreparedConfigurationAdditionDialog)
  <2> DEFINE f == [values |-> [profile |-> Patterned, content |-> Plain],
                   required |-> {"profile", "content"}]
             d == Dialog(f)
  <2>1. /\ d.required = {"name", "profile", "content"} /\ d.watched = {"name", "profile", "content"}
        /\ DOMAIN d.values = {"name", "profile", "content"} /\ "name" \in d.cleared /\ ~ d.page
        /\ {"checked", "listed", "entered", "paired"} \subseteq DOMAIN d
    BY NamedValues DEF Dialog
  <2>2. PreparedConfigurationAdditionDialog
          = [d EXCEPT !.checked = {"name", "profile"}, !.listed = {}, !.entered = FALSE, !.paired = TRUE]
    BY Zenon DEF PreparedConfigurationAdditionDialog
  <2> HIDE DEF d
  <2> QED BY <2>1, <2>2 DEF WellFormed
<1>7. WellFormed(AuthorizationPage)
  BY NamedValues DEF AuthorizationPage, WellFormed, Dialog
<1>8. WellFormed(RegistrationPage)
  BY NamedValues DEF RegistrationPage, WellFormed, Dialog
<1>9. WellFormed(NetworkAccessesPage)
  BY NamedValues DEF NetworkAccessesPage, WellFormed, Dialog
<1>10. k \in DOMAIN Rules
  BY FormsAssumption
<1> QED BY <1>1, <1>2, <1>3, <1>4, <1>5, <1>6, <1>7, <1>8, <1>9, <1>10, ResourceFields DEF Rules

-----------------------------------------------------------------------------
(* What a validation does. *)

\* What a button that can be clicked has behind it.
Justified(r, t, l) ==
  /\ \A f \in r.required : t[f] # ""
  /\ \A f \in r.checked : t[f] # "odd"
  /\ Duplicates(r, t, l) = {}

\* One error for each field, TRUE for what its pattern refuses.
Marks(r, t, e) ==
  /\ DOMAIN t = DOMAIN r.values
  /\ e \in [DOMAIN r.values -> BOOLEAN]
  /\ \A f \in DOMAIN t : t[f] = "odd" => e[f]

LEMMA DuplicatesAreLooked ==
  ASSUME NEW r, WellFormed(r), NEW t, NEW l
  PROVE  /\ Duplicates(r, t, l) \subseteq r.checked
         /\ Duplicates(r, t, l) \subseteq r.watched
         /\ r.watched \subseteq DOMAIN r.values
<1>1. CASE r.paired
  BY <1>1 DEF WellFormed, Duplicates
<1>2. CASE ~ r.paired
  BY <1>2 DEF WellFormed, Duplicates
<1> QED BY <1>1, <1>2

\* What is justified, and what is a duplicate, depends on the watched fields only.
LEMMA OnlyWatchedCount ==
  ASSUME NEW r, WellFormed(r), NEW t, NEW u, NEW l, \A f \in r.watched : t[f] = u[f]
  PROVE  /\ Duplicates(r, t, l) = Duplicates(r, u, l)
         /\ Justified(r, t, l) => Justified(r, u, l)
<1>1. Duplicates(r, t, l) = Duplicates(r, u, l)
  <2>1. CASE r.paired
    BY <2>1 DEF WellFormed, Duplicates
  <2>2. CASE ~ r.paired
    BY <2>2 DEF WellFormed, Duplicates
  <2> QED BY <2>1, <2>2
<1> QED BY <1>1 DEF Justified, WellFormed

LEMMA MarkedGives ==
  ASSUME NEW r, WellFormed(r), NEW t, NEW e, NEW l, Marks(r, t, e)
  PROVE  /\ Marks(r, t, Marked(r, t, e, l))
         /\ \A f \in Duplicates(r, t, l) : Marked(r, t, e, l)[f]
         /\ ~ Disabled(r, t, Marked(r, t, e, l)) => Justified(r, t, l)
<1> DEFINE D == Duplicates(r, t, l)
           m == Marked(r, t, e, l)
<1>1. D \subseteq r.checked /\ D \subseteq DOMAIN t
  BY DuplicatesAreLooked DEF Marks
<1> HIDE DEF D
<1>2. /\ m \in [DOMAIN r.values -> BOOLEAN]
      /\ \A f \in D : m[f]
      /\ \A f \in DOMAIN t : t[f] = "odd" => m[f]
  BY <1>1 DEF Marked, Marks, D
<1>3. Marks(r, t, m)
  BY <1>2 DEF Marks
<1> HIDE DEF m
<1>4. ASSUME ~ Disabled(r, t, m) PROVE Justified(r, t, l)
  <2>1. \A f \in r.required : t[f] # ""
    BY <1>4 DEF Disabled
  <2>2. \A f \in r.checked : ~ m[f]
    BY <1>4 DEF Disabled
  <2>3. \A f \in r.checked : t[f] # "odd"
    BY <2>2, <1>2 DEF WellFormed, Marks
  <2>4. Duplicates(r, t, l) = {}
    BY <2>2, <1>1, <1>2 DEF D
  <2> QED BY <2>1, <2>3, <2>4 DEF Justified
<1> QED BY <1>2, <1>3, <1>4 DEF m, D

\* Validation marks the duplicates, and enables the button of a form that is in order.
Validated(t) ==
  /\ Marks(Rule, t, error')
  /\ \A f \in Duplicates(Rule, t, lists) : error'[f]
  /\ enabled' \in BOOLEAN /\ current' = TRUE
  /\ enabled' => Justified(Rule, t, lists)

LEMMA ValidateGives ==
  ASSUME WellFormed(Rule), NEW t, NEW e, Marks(Rule, t, e), Validate(Rule, t, e)
  PROVE  Validated(t)
<1>1. /\ error' = Marked(Rule, t, e, lists)
      /\ enabled' = ~ Disabled(Rule, t, error')
      /\ current' = TRUE
  BY DEF Validate
<1>2. enabled' \in BOOLEAN /\ (enabled' => ~ Disabled(Rule, t, error'))
  BY <1>1 DEF Disabled
<1> QED BY <1>1, <1>2, MarkedGives, Zenon DEF Validated

-----------------------------------------------------------------------------
(* The invariant. *)

FormTypes ==
  /\ form \in Forms
  /\ Marks(Rule, text, error)
  /\ open \in BOOLEAN /\ enabled \in BOOLEAN /\ current \in BOOLEAN
  /\ sent \in Nat /\ unanswered \in Nat

\* A request on its way will enable the button whatever the form holds, so the form
\* must stay in order as long as it is not answered.
InOrder == (enabled \/ unanswered > 0) /\ current => Justified(Rule, text, lists)

\* A page waits for its answer with all its fields and its button disabled.
PageWaits ==
  Rule.page =>
    /\ unanswered <= 1
    /\ unanswered = 1 => ~ enabled /\ DOMAIN text \subseteq frozen

\* A dialog that has sent its request is closed, its button is disabled, and it stays so.
DialogIsSpent ==
  ~ Rule.page =>
    /\ unanswered = 0 /\ sent <= 1
    /\ enabled => open /\ text["name"] # ""
    /\ open => sent = 0

FormInv == FormTypes /\ InOrder /\ DuplicateIsShown /\ PageWaits /\ DialogIsSpent

LEMMA FormRule == FormInv => WellFormed(Rule)
BY RulesAreWellFormed DEF FormInv, FormTypes, Rule

LEMMA FormInvGivesProperties == FormInv => ButtonIsJustified /\ DuplicateIsShown /\ SentOnce
<1> SUFFICES ASSUME FormInv PROVE ButtonIsJustified /\ DuplicateIsShown /\ SentOnce
  OBVIOUS
<1>1. ButtonIsJustified
  BY DEF FormInv, InOrder, Justified, ButtonIsJustified
<1>2. SentOnce
  BY DEF FormInv, FormTypes, PageWaits, DialogIsSpent, SentOnce
<1> QED BY <1>1, <1>2 DEF FormInv

LEMMA FormInitGivesInv == FormInit => FormInv
<1> SUFFICES ASSUME FormInit PROVE FormInv
  OBVIOUS
<1>1. /\ text = [f \in DOMAIN Rule.values |-> ""] /\ error = [f \in DOMAIN Rule.values |-> FALSE]
  BY DEF FormInit, Blank
<1>2. Marks(Rule, text, error)
  BY <1>1 DEF Marks
<1>3. form \in Forms /\ open = FALSE /\ enabled = FALSE /\ current = TRUE /\ sent = 0 /\ unanswered = 0
  BY DEF FormInit
<1>4. FormTypes
  BY <1>2, <1>3 DEF FormTypes
<1>5. ~ enabled /\ ~ open
  BY <1>3
<1>6. InOrder
  BY <1>3, <1>5 DEF InOrder
<1>7. DuplicateIsShown
  BY <1>5 DEF DuplicateIsShown
<1>8. PageWaits
  BY <1>3 DEF PageWaits
<1>9. DialogIsSpent
  <2>1. unanswered = 0 /\ sent <= 1 /\ sent = 0
    BY <1>3
  <2> QED BY <1>5, <2>1, Zenon DEF DialogIsSpent
<1> QED BY <1>4, <1>6, <1>7, <1>8, <1>9 DEF FormInv

-----------------------------------------------------------------------------
(* Its steps. *)

\* What a step gives that leaves the form, and what is on its way, alone.
LEMMA ListKeeps == ASSUME FormInv, NEW g \in {"name", "email"}, ListArrives(g) PROVE FormInv'
<1>1. WellFormed(Rule) /\ Rule' = Rule
  BY FormRule DEF ListArrives, Rule
<1>2. error' = Marked(Rule, text, error, lists') /\ Marks(Rule, text, error)
  BY DEF ListArrives, FormInv, FormTypes
<1>3. /\ Marks(Rule, text, error')
      /\ \A f \in Duplicates(Rule, text, lists') : error'[f]
  BY <1>1, <1>2, MarkedGives, Zenon
<1>4. /\ form' = form /\ open' = open /\ text' = text /\ frozen' = frozen /\ enabled' = enabled
      /\ sent' = sent /\ unanswered' = unanswered /\ current' = FALSE
  BY DEF ListArrives
<1>5. FormTypes'
  BY <1>1, <1>3, <1>4 DEF FormInv, FormTypes, Marks
<1>6. DuplicateIsShown'
  BY <1>1, <1>3, <1>4, Zenon DEF DuplicateIsShown
<1>7. InOrder' /\ PageWaits' /\ DialogIsSpent'
  BY <1>1, <1>4 DEF FormInv, InOrder, PageWaits, DialogIsSpent
<1> QED BY <1>5, <1>6, <1>7 DEF FormInv

LEMMA OpenKeeps == ASSUME FormInv, NEW k \in Forms, Open(k) PROVE FormInv'
<1> DEFINE r == Rules[k]
<1>1. /\ form' = k /\ open' = TRUE /\ error' = Blank(r) /\ sent' = 0 /\ unanswered' = 0 /\ current' = TRUE
      /\ text' \in OpeningTexts(r)
      /\ enabled' = (r.ready /\ ~ Disabled(r, text', error'))
      /\ lists' = [f \in {"name", "email"} |-> IF r.paired THEN {"taken"} ELSE {}]
  BY DEF Open, FormInv, FormTypes
<1>2. WellFormed(r) /\ Rule' = r
  BY <1>1, RulesAreWellFormed DEF Rule
<1> HIDE DEF r
<1>3. text' \in [DOMAIN r.values -> {"", "good", "own"}]
  BY <1>1 DEF OpeningTexts
<1>4. Marks(r, text', error')
  BY <1>1, <1>3 DEF Marks, Blank
<1>5. Duplicates(r, text', lists') = {}
  <2>1. CASE r.paired
    BY <2>1, <1>1, <1>2, <1>3 DEF Duplicates, WellFormed
  <2>2. CASE ~ r.paired
    BY <2>2, <1>1, <1>2, <1>3 DEF Duplicates, WellFormed
  <2> QED BY <2>1, <2>2
<1>6. enabled' \in BOOLEAN /\ (enabled' => ~ Disabled(r, text', error'))
  BY <1>1 DEF Disabled
<1>7. ASSUME enabled' PROVE Justified(r, text', lists') /\ (~ r.page => text'["name"] # "")
  <2>1. \A f \in r.required : text'[f] # ""
    BY <1>6, <1>7 DEF Disabled
  <2>2. \A f \in r.checked : text'[f] # "odd"
    BY <1>2, <1>3 DEF WellFormed
  <2> QED BY <2>1, <2>2, <1>2, <1>5 DEF Justified, WellFormed
<1>8. FormTypes'
  BY <1>1, <1>2, <1>4, <1>6 DEF FormTypes, Marks
<1>9. InOrder'
  <2>1. ~ (unanswered' > 0)
    BY <1>1
  <2> QED BY <1>2, <1>7, <2>1, Zenon DEF InOrder
<1>10. DuplicateIsShown'
  BY <1>2, <1>5, Zenon DEF DuplicateIsShown
<1>11. PageWaits'
  BY <1>1 DEF PageWaits
<1>12. DialogIsSpent'
  <2>1. unanswered' = 0 /\ sent' <= 1 /\ sent' = 0 /\ open'
    BY <1>1
  <2> QED BY <1>2, <1>7, <2>1, Zenon DEF DialogIsSpent
<1> QED BY <1>8, <1>9, <1>10, <1>11, <1>12 DEF FormInv

LEMMA TypeKeeps ==
  ASSUME FormInv, NEW f \in DOMAIN text, NEW v \in Rule.values[f], Type(f, v) PROVE FormInv'
<1> DEFINE e == [error EXCEPT ![f] = (v = "odd")]
<1>1. WellFormed(Rule) /\ Rule' = Rule
  BY FormRule DEF Type, Rule
<1>2. /\ f \notin frozen /\ open
      /\ text' = [text EXCEPT ![f] = v]
      /\ form' = form /\ open' = open /\ frozen' = frozen /\ lists' = lists
      /\ sent' = sent /\ unanswered' = unanswered
  BY DEF Type
<1>3. Marks(Rule, text', e)
  BY <1>2 DEF FormInv, FormTypes, Marks
<1>4. CASE f \in Rule.watched
  <2>1. Validate(Rule, text', e)
    BY <1>4, Zenon DEF Type
  <2> HIDE DEF e
  <2>2. Validated(text')
    BY <2>1, <1>1, <1>3, ValidateGives, Zenon
  <2>3. /\ Marks(Rule', text', error') /\ enabled' \in BOOLEAN /\ current' \in BOOLEAN
        /\ \A g \in Duplicates(Rule', text', lists') : error'[g]
        /\ enabled' => Justified(Rule', text', lists')
    BY <1>1, <1>2, <2>2, Zenon DEF Validated
  <2>4. FormTypes' /\ DuplicateIsShown'
    BY <1>1, <1>2, <2>3 DEF FormInv, FormTypes, DuplicateIsShown, Marks
  <2>5. Rule.page => unanswered = 0
    BY <1>2 DEF FormInv, FormTypes, PageWaits
  <2>6. unanswered = 0
    BY <2>5 DEF FormInv, DialogIsSpent
  <2>7. InOrder' /\ PageWaits'
    BY <1>1, <1>2, <2>3, <2>6 DEF InOrder, PageWaits
  <2>8. DialogIsSpent'
    BY <1>1, <1>2, <2>3, <2>6 DEF FormInv, DialogIsSpent, Justified, WellFormed
  <2> QED BY <2>4, <2>7, <2>8 DEF FormInv
<1>5. CASE f \notin Rule.watched
  <2>1. error' = e /\ enabled' = enabled /\ current' = current
    BY <1>5, Zenon DEF Type
  <2>2. \A g \in Rule.watched : text[g] = text'[g]
    BY <1>1, <1>2, <1>5 DEF FormInv, FormTypes, Marks, WellFormed
  <2>3. /\ Duplicates(Rule, text, lists) = Duplicates(Rule, text', lists)
        /\ Justified(Rule, text, lists) => Justified(Rule, text', lists)
    BY <1>1, <2>2, OnlyWatchedCount
  <2>4. ~ Rule.page /\ unanswered = 0
    BY <1>1, <1>5 DEF FormInv, FormTypes, Marks, WellFormed, DialogIsSpent
  <2>5. FormTypes'
    BY <1>1, <1>2, <1>3, <2>1 DEF FormInv, FormTypes, Marks
  <2>6. DuplicateIsShown'
    <3>1. \A g \in Duplicates(Rule, text', lists) : g \in Rule.watched /\ error[g]
      BY <1>1, <1>2, <2>3, DuplicatesAreLooked DEF FormInv, DuplicateIsShown
    <3>2. \A g \in Rule.watched : error'[g] = error[g]
      BY <2>1, <1>1, <1>5 DEF FormInv, FormTypes, Marks, WellFormed
    <3> QED BY <1>1, <1>2, <3>1, <3>2 DEF DuplicateIsShown
  <2>7. InOrder'
    <3>1. (enabled \/ unanswered > 0) /\ current => Justified(Rule', text', lists')
      BY <1>1, <1>2, <2>3, Zenon DEF FormInv, InOrder
    <3>2. (enabled' \/ unanswered' > 0) /\ current' => (enabled \/ unanswered > 0) /\ current
      BY <1>2, <2>1, Zenon
    <3> QED BY <3>1, <3>2, Zenon DEF InOrder
  <2>8. PageWaits' /\ DialogIsSpent'
    <3>1. text'["name"] = text["name"]
      BY <1>1, <2>2, <2>4 DEF WellFormed
    <3>2. Rule'.page = Rule.page
      BY <1>1
    <3>3. PageWaits'
      BY <2>4, <3>2 DEF PageWaits
    <3>4. unanswered = 0 /\ sent <= 1 /\ (enabled => open /\ text["name"] # "") /\ (open => sent = 0)
      BY <2>4 DEF FormInv, DialogIsSpent
    <3>5. unanswered' = 0 /\ sent' <= 1 /\ (enabled' => open' /\ text'["name"] # "") /\ (open' => sent' = 0)
      BY <1>2, <2>1, <3>1, <3>4, Zenon
    <3> QED BY <3>3, <3>5, Zenon DEF DialogIsSpent
  <2> QED BY <2>5, <2>6, <2>7, <2>8 DEF FormInv
<1> QED BY <1>4, <1>5

\* A dialog that closes has a blank name and so a button that is disabled.
LEMMA CloseKeeps ==
  ASSUME FormInv, ~ Rule.page, Close, form' = form, lists' = lists, unanswered' = unanswered,
         sent' \in Nat, sent' <= 1
  PROVE  FormInv'
<1> DEFINE blank == [f \in DOMAIN text |-> IF f \in Rule.cleared THEN "" ELSE text[f]]
           e == [f \in DOMAIN text |-> IF f \in Rule.cleared THEN FALSE ELSE error[f]]
           changed == {f \in Rule.cleared : text[f] # ""}
<1>1. WellFormed(Rule) /\ Rule' = Rule
  BY FormRule DEF Rule
<1>2. /\ open' = FALSE /\ text' = blank
      /\ changed \cap Rule.watched # {} => Validate(Rule, blank, e)
      /\ changed \cap Rule.watched = {} => error' = error /\ enabled' = enabled /\ current' = current
  BY DEF Close
<1>3. Marks(Rule, blank, e)
  BY DEF FormInv, FormTypes, Marks
<1>4. DOMAIN blank = DOMAIN text /\ "name" \in DOMAIN text /\ blank["name"] = "" /\ "name" \in Rule.required
  BY <1>1 DEF WellFormed, FormInv, FormTypes, Marks
<1>5. unanswered = 0
  BY DEF FormInv, DialogIsSpent
<1>6. /\ Marks(Rule, blank, error') /\ enabled' \in BOOLEAN /\ current' \in BOOLEAN
      /\ ~ enabled'
  <2>1. CASE changed \cap Rule.watched # {}
    <3> HIDE DEF blank, e
    <3>1. Validated(blank)
      BY <1>1, <1>2, <1>3, <2>1, ValidateGives, Zenon
    <3>2. Marks(Rule, blank, error') /\ enabled' \in BOOLEAN /\ current' \in BOOLEAN
      BY <3>1 DEF Validated
    <3>3. ~ Justified(Rule, blank, lists)
      BY <1>4 DEF Justified
    <3>4. ~ enabled'
      BY <3>1, <3>3, Zenon DEF Validated
    <3> QED BY <3>2, <3>4
  <2>2. CASE changed \cap Rule.watched = {}
    <3>1. "name" \in Rule.cleared \cap Rule.watched
      BY <1>1 DEF WellFormed
    <3>2. text["name"] = ""
      BY <2>2, <3>1
    <3>3. ~ enabled
      BY <3>2 DEF FormInv, DialogIsSpent
    <3>4. Marks(Rule, blank, error)
      BY DEF FormInv, FormTypes, Marks
    <3>5. error' = error /\ enabled' = enabled /\ current' = current
      BY <1>2, <2>2
    <3>6. Marks(Rule, blank, error')
      <4> HIDE DEF blank
      <4> QED BY <3>4, <3>5
    <3> QED BY <3>3, <3>5, <3>6 DEF FormInv, FormTypes
  <2> QED BY <2>1, <2>2
<1> HIDE DEF blank, e, changed
<1>7. FormTypes'
  BY <1>1, <1>2, <1>6 DEF FormInv, FormTypes, Marks
<1>8. InOrder' /\ DuplicateIsShown'
  BY <1>2, <1>5, <1>6 DEF InOrder, DuplicateIsShown
<1>9. PageWaits' /\ DialogIsSpent'
  BY <1>1, <1>2, <1>5, <1>6 DEF PageWaits, DialogIsSpent
<1> QED BY <1>7, <1>8, <1>9 DEF FormInv

LEMMA CloseDialogKeeps == ASSUME FormInv, CloseDialog PROVE FormInv'
<1>1. sent \in Nat /\ sent <= 1
  BY DEF FormInv, FormTypes, DialogIsSpent, CloseDialog
<1> QED BY <1>1, CloseKeeps DEF CloseDialog

\* A click on a page finds no request on its way, and disables what it was sent from.
LEMMA ClickKeeps ==
  ASSUME FormInv, Click, form' = form, lists' = lists
  PROVE  FormInv'
<1>1. WellFormed(Rule) /\ Rule' = Rule
  BY FormRule DEF Rule
<1>2. CASE ~ enabled
  <2>1. UNCHANGED <<form, open, text, error, frozen, enabled, lists, current, sent, unanswered>>
    BY <1>2 DEF Click
  <2> QED BY <2>1 DEF FormInv, FormTypes, InOrder, DuplicateIsShown, PageWaits, DialogIsSpent, Rule
<1>3. CASE enabled /\ Rule.page
  <2>1. /\ unanswered' = unanswered + 1 /\ enabled' = FALSE /\ frozen' = frozen \cup Rule.locks
        /\ open' = open /\ text' = text /\ error' = error /\ current' = current /\ sent' = sent
    BY <1>3 DEF Click, Lock
  <2>2. unanswered = 0 /\ Rule.locks = DOMAIN text
    BY <1>1, <1>3 DEF WellFormed, FormInv, FormTypes, PageWaits, Marks
  <2>3. FormTypes'
    <3>1. /\ form' \in Forms /\ open' \in BOOLEAN /\ current' \in BOOLEAN
          /\ sent' \in Nat /\ unanswered' \in Nat
      BY <2>1 DEF FormInv, FormTypes
    <3>2. enabled' \in BOOLEAN
      BY <2>1
    <3>3. Marks(Rule', text', error')
      BY <1>1, <2>1 DEF FormInv, FormTypes
    <3> QED BY <3>1, <3>2, <3>3 DEF FormTypes
  <2>4. current => Justified(Rule', text', lists')
    BY <1>1, <1>3, <2>1, Zenon DEF FormInv, InOrder
  <2>5. InOrder'
    BY <2>1, <2>4, Zenon DEF InOrder
  <2>6. DuplicateIsShown'
    BY <1>1, <2>1, Zenon DEF FormInv, DuplicateIsShown
  <2>7. Rule'.page /\ unanswered' <= 1 /\ ~ enabled' /\ DOMAIN text' \subseteq frozen'
    BY <1>1, <1>3, <2>1, <2>2
  <2> QED BY <2>3, <2>5, <2>6, <2>7, Zenon DEF FormInv, PageWaits, DialogIsSpent
<1>4. CASE enabled /\ ~ Rule.page
  <2>1. sent' = sent + 1 /\ Close /\ unanswered' = unanswered
    BY <1>4 DEF Click
  <2>2. sent = 0
    BY <1>4 DEF FormInv, DialogIsSpent
  <2> QED BY <1>4, <2>1, <2>2, CloseKeeps
<1> QED BY <1>2, <1>3, <1>4 DEF FormInv, FormTypes

LEMMA AnswerKeeps == ASSUME FormInv, NEW accepted \in BOOLEAN, Answer(accepted) PROVE FormInv'
<1>1. WellFormed(Rule) /\ Rule' = Rule
  BY FormRule DEF Rule, Answer
<1>2. /\ unanswered > 0 /\ unanswered' = unanswered - 1 /\ enabled' = TRUE
      /\ open' = (open /\ ~ (accepted /\ Rule.leaves))
      /\ form' = form /\ text' = text /\ error' = error /\ lists' = lists /\ current' = current /\ sent' = sent
  BY DEF Answer, Unlock
<1>3. Rule.page /\ unanswered' = 0
  <2>1. unanswered \in Nat /\ (Rule.page => unanswered <= 1)
    BY DEF FormInv, FormTypes, PageWaits
  <2>2. ~ Rule.page => unanswered = 0
    BY DEF FormInv, DialogIsSpent
  <2> QED BY <1>2, <2>1, <2>2
<1>4. open' \in BOOLEAN /\ (open' => open)
  BY <1>2
<1>5. FormTypes'
  BY <1>1, <1>2, <1>3, <1>4 DEF FormInv, FormTypes, Marks
<1>6. current => Justified(Rule', text', lists')
  BY <1>1, <1>2, Zenon DEF FormInv, InOrder
<1>7. InOrder'
  BY <1>2, <1>6, Zenon DEF InOrder
<1>8. DuplicateIsShown'
  BY <1>1, <1>2, <1>4, Zenon DEF FormInv, DuplicateIsShown
<1>9. Rule'.page /\ unanswered' <= 1 /\ ~ (unanswered' = 1)
  BY <1>1, <1>3
<1> QED BY <1>5, <1>7, <1>8, <1>9, Zenon DEF FormInv, PageWaits, DialogIsSpent

LEMMA FormStutters ==
  ASSUME FormInv,
         UNCHANGED <<form, open, text, error, frozen, enabled, lists, current, sent, unanswered>>
  PROVE  FormInv'
BY DEF FormInv, FormTypes, InOrder, DuplicateIsShown, PageWaits, DialogIsSpent, Rule

LEMMA FormNextKeeps == FormInv /\ [FormNext]_formVars => FormInv'
<1> SUFFICES ASSUME FormInv, [FormNext]_formVars PROVE FormInv'
  OBVIOUS
<1>1. ASSUME NEW k \in Forms, Open(k) PROVE FormInv'
  BY <1>1, OpenKeeps
<1>2. CASE TakeName \/ PressEnter \/ UNCHANGED formVars
  BY <1>2, FormStutters DEF TakeName, PressEnter, formVars
<1>3. ASSUME NEW f \in {"name", "email"}, ListArrives(f) PROVE FormInv'
  BY <1>3, ListKeeps
<1>4. ASSUME NEW f \in DOMAIN text, NEW v \in Rule.values[f], Type(f, v) PROVE FormInv'
  BY <1>4, TypeKeeps
<1>5. CASE PressButton \/ EnterFires
  BY <1>5, ClickKeeps DEF PressButton, EnterFires
<1>6. CASE CloseDialog
  BY <1>6, CloseDialogKeeps
<1>7. ASSUME NEW accepted \in BOOLEAN, Answer(accepted) PROVE FormInv'
  BY <1>7, AnswerKeeps
<1> QED BY <1>1, <1>2, <1>3, <1>4, <1>5, <1>6, <1>7 DEF FormNext

LEMMA FormStaysInOrder == FormSpec => []FormInv
BY FormInitGivesInv, FormNextKeeps, PTL DEF FormSpec

\* A button that can be clicked has a form behind it in which nothing required is blank,
\* nothing checked is refused and no name is known to be in use: ResourceAdditionDialog.ts
\* 43-60 and the forms like it, whatever lists, clicks and answers come when.
THEOREM FormsAreInOrder == FormSpec => []ButtonIsJustified
BY FormStaysInOrder, FormInvGivesProperties, PTL

\* A name known to be in use is shown as an error, whichever came first, the name or the
\* list: ResourceAdditionDialog.ts 51-59, 139-142.
THEOREM DuplicatesAreShown == FormSpec => []DuplicateIsShown
BY FormStaysInOrder, FormInvGivesProperties, PTL

\* A dialog sends its request once and a page has one on its way, however many clicks of
\* the Enter key are still to come: ResourceAdditionDialog.ts 98-99, 132-135;
\* AuthorizationPage.ts 72-81, 169-181.
THEOREM RequestsAreSentOnce == FormSpec => []SentOnce
BY FormStaysInOrder, FormInvGivesProperties, PTL

=============================================================================
