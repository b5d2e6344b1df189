---------------------------- MODULE StreamsProofs ----------------------------
(***************************************************************************)
(* Proofs about Streams, for any finite number of pages, any limits and    *)
(* any number of changes and breaks.                                       *)
(***************************************************************************)
EXTENDS Streams, FiniteSetTheorems, SequenceTheorems, WellFoundedInduction, TLAPS

-----------------------------------------------------------------------------
(* Sequences.                                                              *)

(* Append and Tail, element by element.                                    *)
LEMMA AppendSteps ==
    ASSUME NEW S, NEW q \in Seq(S), NEW e \in S
    PROVE  /\ Append(q, e) \in Seq(S) /\ Len(Append(q, e)) = Len(q) + 1
           /\ ToSet(Append(q, e)) = ToSet(q) \cup {e}
<1>1. /\ Append(q, e) \in Seq(S) /\ Len(Append(q, e)) = Len(q) + 1
      /\ \A i \in 1 .. Len(q) : Append(q, e)[i] = q[i]
      /\ Append(q, e)[Len(q) + 1] = e
  OBVIOUS
<1>2. /\ DOMAIN q = 1 .. Len(q) /\ DOMAIN Append(q, e) = 1 .. Len(q) + 1 /\ Len(q) \in Nat
  BY <1>1
<1>3. \A n \in Nat : 1 .. n + 1 = (1 .. n) \cup {n + 1}
  OBVIOUS
<1> QED BY <1>1, <1>2, <1>3 DEF ToSet

LEMMA TailSteps ==
    ASSUME NEW S, NEW q \in Seq(S), q # <<>>
    PROVE  /\ Head(q) \in S /\ Tail(q) \in Seq(S) /\ Len(Tail(q)) = Len(q) - 1
           /\ ToSet(q) = {Head(q)} \cup ToSet(Tail(q))
<1>1. /\ Len(q) \in Nat /\ Len(q) # 0 /\ DOMAIN q = 1 .. Len(q)
      /\ Head(q) = q[1] /\ Head(q) \in S
      /\ Tail(q) \in Seq(S) /\ Len(Tail(q)) = Len(q) - 1
      /\ \A i \in 1 .. Len(q) - 1 : Tail(q)[i] = q[i + 1]
  BY EmptySeq
<1>2. DOMAIN Tail(q) = 1 .. Len(q) - 1
  BY <1>1
<1>3. \A n \in Nat \ {0} : \A i \in 1 .. n : i = 1 \/ (i - 1 \in 1 .. n - 1 /\ (i - 1) + 1 = i)
  OBVIOUS
<1>4. ASSUME NEW x \in ToSet(q) PROVE x \in {Head(q)} \cup ToSet(Tail(q))
  <2>1. PICK i \in 1 .. Len(q) : x = q[i]
    BY <1>1 DEF ToSet
  <2>2. CASE i = 1
    BY <1>1, <2>1, <2>2
  <2>3. CASE i - 1 \in 1 .. Len(q) - 1 /\ (i - 1) + 1 = i
    <3>1. Tail(q)[i - 1] = x
      BY <1>1, <2>1, <2>3
    <3> QED BY <1>2, <2>3, <3>1 DEF ToSet
  <2> QED BY <1>1, <1>3, <2>2, <2>3
<1>5. ASSUME NEW x \in ToSet(Tail(q)) PROVE x \in ToSet(q)
  <2>1. PICK i \in 1 .. Len(q) - 1 : x = Tail(q)[i]
    BY <1>2, <1>5 DEF ToSet
  <2>2. i + 1 \in 1 .. Len(q)
    BY <1>1
  <2> QED BY <1>1, <2>1, <2>2 DEF ToSet
<1>6. Head(q) \in ToSet(q)
  BY <1>1 DEF ToSet
<1> QED BY <1>1, <1>4, <1>5, <1>6

(* Concatenation keeps the elements of both.                               *)
LEMMA ConcatSteps ==
    ASSUME NEW S, NEW q \in Seq(S), NEW r \in Seq(S)
    PROVE  q \o r \in Seq(S) /\ ToSet(q \o r) = ToSet(q) \cup ToSet(r)
<1>1. /\ q \o r \in Seq(S) /\ Len(q \o r) = Len(q) + Len(r)
      /\ Len(q) \in Nat /\ Len(r) \in Nat
      /\ DOMAIN q = 1 .. Len(q) /\ DOMAIN r = 1 .. Len(r) /\ DOMAIN (q \o r) = 1 .. Len(q) + Len(r)
      /\ \A i \in 1 .. Len(q) + Len(r) :
            (q \o r)[i] = IF i <= Len(q) THEN q[i] ELSE r[i - Len(q)]
  OBVIOUS
<1>2. \A m, n \in Nat : \A i \in 1 .. m + n :
          i \in 1 .. m \/ (~ (i <= m) /\ i - m \in 1 .. n)
  OBVIOUS
<1>3. \A m, n \in Nat : \A i \in 1 .. n : i + m \in 1 .. m + n /\ ~ (i + m <= m) /\ (i + m) - m = i
  OBVIOUS
<1>4. \A m, n \in Nat : \A i \in 1 .. m : i \in 1 .. m + n /\ i <= m
  OBVIOUS
<1>5. ASSUME NEW x \in ToSet(q \o r) PROVE x \in ToSet(q) \cup ToSet(r)
  <2>1. PICK i \in 1 .. Len(q) + Len(r) : x = (q \o r)[i]
    BY <1>1 DEF ToSet
  <2> QED BY <1>1, <1>2, <1>4, <2>1 DEF ToSet
<1>6. ASSUME NEW x \in ToSet(q) PROVE x \in ToSet(q \o r)
  <2>1. PICK i \in 1 .. Len(q) : x = q[i]
    BY <1>1 DEF ToSet
  <2> QED BY <1>1, <1>4, <2>1 DEF ToSet
<1>7. ASSUME NEW x \in ToSet(r) PROVE x \in ToSet(q \o r)
  <2>1. PICK i \in 1 .. Len(r) : x = r[i]
    BY <1>1 DEF ToSet
  <2>2. i + Len(q) \in 1 .. Len(q) + Len(r) /\ (q \o r)[i + Len(q)] = x
    BY <1>1, <1>3, <2>1
  <2> QED BY <1>1, <2>2 DEF ToSet
<1> QED BY <1>1, <1>5, <1>6, <1>7

(* A finite set as a sequence has the elements of the set.                 *)
LEMMA SetToSeqSteps ==
    ASSUME NEW S, IsFiniteSet(S)
    PROVE  SetToSeq(S) \in Seq(S) /\ ToSet(SetToSeq(S)) = S
<1> DEFINE f == SetToSeq(S)
<1>1. \E g \in [1 .. Cardinality(S) -> S] : IsInjective(g)
  BY FS_CardinalityType DEF ExistsBijection, Bijection, Injection, IsInjective
<1>2. f \in [1 .. Cardinality(S) -> S] /\ IsInjective(f)
  BY <1>1 DEF SetToSeq
<1> HIDE DEF f
<1>3. Cardinality(S) \in Nat
  BY FS_CardinalityType
<1>4. f \in Seq(S)
  BY <1>2, <1>3
<1>5. f \in Surjection(1 .. Cardinality(S), S)
  <2>1. Cardinality(1 .. Cardinality(S)) = Cardinality(S) /\ IsFiniteSet(1 .. Cardinality(S))
    BY <1>3, FS_Interval
  <2>2. f \in Injection(1 .. Cardinality(S), S)
    BY <1>2 DEF Injection, IsInjective
  <2> QED BY <2>1, <2>2, FS_Injection
<1>6. ToSet(f) = S
  BY <1>2, <1>5 DEF ToSet, Surjection
<1> QED BY <1>4, <1>6 DEF f

-----------------------------------------------------------------------------
(* Types.                                                                  *)

(* The type invariant, and what the states of the coalescer and the timers *)
(* have to do with the kind of the pages.                                  *)
CoalescerOK ==
    /\ coalescer.state = "idle" => coalescer = Idle
    /\ coalescer.state = "read" => kind # "worker"

LEMMA InitType == Init => TypeOK /\ CoalescerOK
<1> SUFFICES ASSUME Init PROVE TypeOK /\ CoalescerOK
  OBVIOUS
<1>1. NewPage \in Page /\ Len(NewPage.queue) = 0
  BY StreamsAssumption DEF NewPage, Page
<1>2. \A S : <<>> \in Seq(S) /\ Len(<<>>) = 0
  OBVIOUS
<1>3. kind \in Kinds /\ version \in 0 .. MaxChanges /\ breaks \in 0 .. MaxBreaks
  BY StreamsAssumption DEF Init
<1>4. /\ owed \subseteq {"runner", "admin"} \X Changes /\ sending \in SUBSET Changes
      /\ link \in BOOLEAN /\ lost \subseteq Changes
  BY DEF Init
<1>5. coalescer \in [state : {"idle", "asleep", "read"}, version : 0 .. MaxChanges] /\ CoalescerOK
  BY StreamsAssumption DEF Init, CoalescerOK, Idle
<1>6. /\ outbox \in Seq(SUBSET Changes) /\ Len(outbox) <= QueueLimit
      /\ wire \in Seq(SUBSET Changes)
      /\ ready \in Seq([page : Pages, event : Event, open : BOOLEAN])
  BY <1>2, StreamsAssumption DEF Init
<1>7. pages \in [Pages -> Page] /\ \A p \in Pages : Len(pages[p].queue) <= BacklogLimit
  BY <1>1, StreamsAssumption DEF Init
<1> QED BY <1>3, <1>4, <1>5, <1>6, <1>7 DEF TypeOK

(* A bounded set of numbers that is not empty has a greatest one.          *)
LEMMA Greatest ==
    ASSUME NEW n \in Nat, NEW S, S \subseteq 1 .. n, S # {}
    PROVE  Max(S) \in S
<1> DEFINE R == OpToRel(<, Nat)
           T == {k \in Nat : \E i \in S : k = n - i}
<1>1. IsWellFoundedOn(R, Nat)
  BY NatLessThanWellFounded
<1>2. \A x, y \in Nat : <<x, y>> \in R <=> x < y
  BY DEF OpToRel
<1> HIDE DEF R
<1>3. T \subseteq Nat /\ \A i \in S : i \in Nat /\ n - i \in T
  OBVIOUS
<1>4. PICK x \in T : \A y \in T : ~ (<<y, x>> \in R)
  <2>1. T # {}
    BY <1>3
  <2> HIDE DEF T
  <2> QED BY <1>1, <1>3, <2>1, WFMin
<1>5. PICK i \in S : x = n - i
  BY <1>4
<1>6. \A j \in S : i >= j
  <2> SUFFICES ASSUME NEW j \in S PROVE i >= j
    OBVIOUS
  <2>1. n - j \in T /\ n - j \in Nat /\ x \in Nat
    BY <1>3, <1>4
  <2>2. ~ (n - j < x)
    BY <1>2, <1>4, <2>1
  <2> QED BY <1>3, <1>5, <2>2
<1> HIDE DEF T
<1> QED BY <1>5, <1>6 DEF Max

(* The publisher's queue keeps its limit, and forgets nothing but what     *)
(* finds it full of other topics' events.                                  *)
LEMMA QueuedSteps ==
    ASSUME NEW q \in Seq(SUBSET Changes), Len(q) <= QueueLimit, NEW e \in SUBSET Changes
    PROVE  /\ Queued(q, e) \in Seq(SUBSET Changes) /\ Len(Queued(q, e)) <= QueueLimit
           /\ Dropped(q, e) \in SUBSET e
           /\ \A v \in e \cup UNION ToSet(q) :
                  v \in UNION ToSet(Queued(q, e)) \/ v \in Dropped(q, e)
<1>0. Len(q) \in Nat /\ QueueLimit \in Nat \ {0} /\ DOMAIN q = 1 .. Len(q)
  BY StreamsAssumption
<1>1. CASE Len(q) < QueueLimit
  <2>1. Queued(q, e) = Append(q, e) /\ Dropped(q, e) = {}
    BY <1>1 DEF Queued, Dropped
  <2>2. /\ Append(q, e) \in Seq(SUBSET Changes) /\ Len(Append(q, e)) = Len(q) + 1
        /\ ToSet(Append(q, e)) = ToSet(q) \cup {e}
    BY AppendSteps
  <2> QED BY <1>0, <1>1, <2>1, <2>2
<1>2. CASE ~ (Len(q) < QueueLimit) /\ Own(q) = {}
  <2>1. Queued(q, e) = q /\ Dropped(q, e) = e
    BY <1>2 DEF Queued, Dropped
  <2> QED BY <2>1
<1>3. CASE ~ (Len(q) < QueueLimit) /\ Own(q) # {}
  <2> DEFINE n == Len(q)
             m == Max(Own(q))
             r == [q EXCEPT ![m] = @ \cup e]
  <2>1. Queued(q, e) = r /\ Dropped(q, e) = {}
    BY <1>3 DEF Queued, Dropped
  <2>2. m \in 1 .. n /\ q \in [1 .. n -> SUBSET Changes] /\ n \in Nat
    <3>1. Own(q) \subseteq 1 .. n
      BY <1>0 DEF Own
    <3> QED BY <1>0, <1>3, <3>1, Greatest
  <2> HIDE DEF m
  <2>3. r \in [1 .. n -> SUBSET Changes]
    BY <2>2
  <2>4. r \in Seq(SUBSET Changes) /\ Len(r) = n /\ DOMAIN r = 1 .. n
    BY <2>2, <2>3
  <2>5. ASSUME NEW v PROVE v \in UNION ToSet(r) <=> v \in e \cup UNION ToSet(q)
    <3>1. v \in UNION ToSet(r) <=> \E i \in 1 .. n : v \in r[i]
      BY <2>4 DEF ToSet
    <3>2. v \in UNION ToSet(q) <=> \E i \in 1 .. n : v \in q[i]
      BY <1>0 DEF ToSet
    <3>3. \A i \in 1 .. n : r[i] = IF i = m THEN q[i] \cup e ELSE q[i]
      BY <2>2
    <3> HIDE DEF r, n
    <3> QED BY <2>2, <3>1, <3>2, <3>3
  <2> HIDE DEF r
  <2> QED BY <2>1, <2>4, <2>5
<1> QED BY <1>1, <1>2, <1>3

LEMMA PutBackSteps ==
    ASSUME NEW q \in Seq(SUBSET Changes), Len(q) <= QueueLimit, NEW e \in SUBSET Changes
    PROVE  /\ PutBack(q, e) \in Seq(SUBSET Changes) /\ Len(PutBack(q, e)) <= QueueLimit
           /\ \A v \in e \cup UNION ToSet(q) :
                  v \in UNION ToSet(PutBack(q, e)) \/ v \in Dropped(q, e)
BY QueuedSteps DEF PutBack

(* Publishing calls every page that has a subscription.                    *)
Call(p, event) == [page |-> p, event |-> event, open |-> TRUE]
LEMMA PublishSteps ==
    ASSUME TypeOK, NEW event \in Event, Publish(event)
    PROVE  /\ ready' \in Seq([page : Pages, event : Event, open : BOOLEAN])
           /\ ToSet(ready') = ToSet(ready) \cup {Call(p, event) : p \in Subscribers}
<1> DEFINE C == {Call(p, event) : p \in Subscribers}
           T == [page : Pages, event : Event, open : BOOLEAN]
           f == [p \in Subscribers |-> Call(p, event)]
<1>1. IsFiniteSet(Subscribers)
  BY StreamsAssumption, FS_Subset DEF Subscribers
<1>2. IsFiniteSet(C)
  <2>1. f \in Surjection(Subscribers, C)
    BY DEF Surjection
  <2> HIDE DEF f, C
  <2> QED BY <1>1, <2>1, FS_Surjection
<1>3. SetToSeq(C) \in Seq(C) /\ ToSet(SetToSeq(C)) = C
  BY <1>2, SetToSeqSteps
<1>4. C \subseteq T
  <2>1. \A p \in Pages : Call(p, event) \in T
    BY DEF Call
  <2> HIDE DEF T
  <2> QED BY <2>1 DEF Subscribers
<1>5. SetToSeq(C) \in Seq(T)
  <2> HIDE DEF C, T
  <2> QED BY <1>3, <1>4
<1>6. ready' = ready \o SetToSeq(C)
  BY DEF Publish, Call
<1>7. ready \in Seq(T)
  BY DEF TypeOK
<1> HIDE DEF C, T
<1>8. ready' \in Seq(T) /\ ToSet(ready') = ToSet(ready) \cup C
  BY <1>3, <1>5, <1>6, <1>7, ConcatSteps
<1> QED BY <1>8 DEF C, T

(* What the steps make of a page is a page, with a backlog in its limit.   *)
PageOK(page) == page \in Page /\ Len(page.queue) <= BacklogLimit
LEMMA PageTypes ==
    ASSUME NEW page, PageOK(page)
    PROVE  /\ \A event \in Event : PageOK(Enqueued(page, event))
           /\ \A stream \in {"closed", "subscribed"} :
                 PageOK([page EXCEPT !.stream = stream, !.queue = <<>>])
           /\ \A v \in 0 .. MaxChanges : PageOK([page EXCEPT !.stream = "open", !.view = v])
           /\ page.queue # <<>> /\ version \in 0 .. MaxChanges => 
                 PageOK([Handled(page, Head(page.queue)) EXCEPT !.queue = Tail(page.queue)])
           /\ PageOK([page EXCEPT !.timer = FALSE, !.request = "asked", !.answer = 0])
           /\ \A v \in 0 .. MaxChanges : PageOK([page EXCEPT !.request = "answered", !.answer = v])
           /\ PageOK([page EXCEPT !.request = "none", !.answer = 0, !.view = page.answer])
<1>a. ASSUME NEW q \in Seq(Event), Len(q) <= BacklogLimit
      PROVE  /\ PageOK([page EXCEPT !.queue = q])
             /\ \A stream \in {"closed", "subscribed", "overrun"} :
                   PageOK([page EXCEPT !.stream = stream, !.queue = q])
  <2>1. [page EXCEPT !.queue = q] \in Page /\ [page EXCEPT !.queue = q].queue = q
    BY DEF PageOK, Page
  <2>2. ASSUME NEW stream \in {"closed", "subscribed", "overrun"}
        PROVE  /\ [page EXCEPT !.stream = stream, !.queue = q] \in Page
               /\ [page EXCEPT !.stream = stream, !.queue = q].queue = q
    BY DEF PageOK, Page
  <2> QED BY <1>a, <2>1, <2>2 DEF PageOK
<1>0. /\ page.queue \in Seq(Event) /\ Len(page.queue) <= BacklogLimit /\ Len(page.queue) \in Nat
      /\ page.answer \in 0 .. MaxChanges /\ BacklogLimit \in Nat \ {0} /\ 0 \in 0 .. MaxChanges
  BY StreamsAssumption DEF PageOK, Page
<1>1. ASSUME NEW event \in Event PROVE PageOK(Enqueued(page, event))
  <2>1. /\ Append(page.queue, event) \in Seq(Event)
        /\ Len(Append(page.queue, event)) = Len(page.queue) + 1
    BY <1>0, AppendSteps
  <2>2. <<End>> \in Seq(Event) /\ Len(<<End>>) <= BacklogLimit
    <3>1. End \in Event
      BY <1>0 DEF End, Event
    <3>2. <<End>> \in Seq(Event) /\ Len(<<End>>) = 1
      BY <3>1
    <3> QED BY <1>0, <3>2
  <2>3. CASE page.stream = "overrun"
    BY <2>3 DEF Enqueued
  <2>4. CASE page.stream # "overrun" /\ Len(page.queue) < BacklogLimit
    <3>1. Enqueued(page, event) = [page EXCEPT !.queue = Append(page.queue, event)]
      BY <2>4 DEF Enqueued
    <3>2. Len(page.queue) + 1 <= BacklogLimit
      BY <1>0, <2>4
    <3> QED BY <1>a, <2>1, <3>1, <3>2
  <2>5. CASE page.stream # "overrun" /\ ~ (Len(page.queue) < BacklogLimit)
    <3>1. Enqueued(page, event) = [page EXCEPT !.stream = "overrun", !.queue = <<End>>]
      BY <2>5 DEF Enqueued
    <3>2. PageOK([page EXCEPT !.stream = "overrun", !.queue = <<End>>])
      <4> DEFINE q == <<End>>
      <4>1. q \in Seq(Event) /\ Len(q) <= BacklogLimit
        BY <2>2
      <4> HIDE DEF q
      <4>2. PageOK([page EXCEPT !.stream = "overrun", !.queue = q])
        BY <1>a, <4>1
      <4> QED BY <4>2 DEF q
    <3> QED BY <3>1, <3>2
  <2> QED BY <2>3, <2>4, <2>5
<1>2. ASSUME NEW stream \in {"closed", "subscribed"}
      PROVE  PageOK([page EXCEPT !.stream = stream, !.queue = <<>>])
  <2> DEFINE q == <<>>
  <2>1. q \in Seq(Event) /\ Len(q) <= BacklogLimit
    BY <1>0
  <2> HIDE DEF q
  <2>2. PageOK([page EXCEPT !.stream = stream, !.queue = q])
    BY <1>a, <2>1
  <2> QED BY <2>2 DEF q
<1>3. ASSUME NEW v \in 0 .. MaxChanges
      PROVE  /\ PageOK([page EXCEPT !.stream = "open", !.view = v])
             /\ PageOK([page EXCEPT !.request = "answered", !.answer = v])
  BY <1>0 DEF PageOK, Page
<1>4. /\ PageOK([page EXCEPT !.timer = FALSE, !.request = "asked", !.answer = 0])
      /\ PageOK([page EXCEPT !.request = "none", !.answer = 0, !.view = page.answer])
  BY <1>0 DEF PageOK, Page
<1>5. ASSUME page.queue # <<>>, version \in 0 .. MaxChanges
      PROVE  PageOK([Handled(page, Head(page.queue)) EXCEPT !.queue = Tail(page.queue)])
  <2> DEFINE event == Head(page.queue)
             rest == Tail(page.queue)
  <2>1. event \in Event /\ rest \in Seq(Event) /\ Len(rest) = Len(page.queue) - 1
    BY <1>0, <1>5, TailSteps
  <2>2. event.version \in 0 .. MaxChanges
    BY <2>1 DEF Event
  <2> HIDE DEF event, rest
  <2> DEFINE new == [page EXCEPT !.queue = rest]
  <2>3. PageOK(new)
    <3>1. Len(rest) <= BacklogLimit
      BY <1>0, <2>1
    <3> QED BY <1>a, <2>1, <3>1
  <2> HIDE DEF new
  <2>4. /\ PageOK([new EXCEPT !.view = version])
        /\ PageOK([new EXCEPT !.view = event.version])
        /\ PageOK([new EXCEPT !.timer = TRUE])
    BY <1>5, <2>2, <2>3 DEF PageOK, Page
  <2>5. \/ [Handled(page, event) EXCEPT !.queue = rest] = [new EXCEPT !.view = version]
        \/ [Handled(page, event) EXCEPT !.queue = rest] = [new EXCEPT !.view = event.version]
        \/ [Handled(page, event) EXCEPT !.queue = rest] = [new EXCEPT !.timer = TRUE]
    <3>1. page \in Page
      BY DEF PageOK
    <3>2. /\ [[page EXCEPT !.view = version] EXCEPT !.queue = rest]
                 = [[page EXCEPT !.queue = rest] EXCEPT !.view = version]
          /\ [[page EXCEPT !.view = event.version] EXCEPT !.queue = rest]
                 = [[page EXCEPT !.queue = rest] EXCEPT !.view = event.version]
          /\ [[page EXCEPT !.timer = TRUE] EXCEPT !.queue = rest]
                 = [[page EXCEPT !.queue = rest] EXCEPT !.timer = TRUE]
      BY <3>1 DEF Page
    <3>3. \/ Handled(page, event) = [page EXCEPT !.view = version]
          \/ Handled(page, event) = [page EXCEPT !.view = event.version]
          \/ Handled(page, event) = [page EXCEPT !.timer = TRUE]
      BY DEF Handled
    <3> QED BY <3>2, <3>3 DEF new
  <2> QED BY <2>4, <2>5 DEF event, rest
<1> QED BY <1>1, <1>2, <1>3, <1>4, <1>5

(* The pages, one by one.                                                  *)
LEMMA PagesType ==
    TypeOK <=> /\ kind \in Kinds /\ version \in 0 .. MaxChanges
               /\ owed \subseteq {"runner", "admin"} \X Changes
               /\ outbox \in Seq(SUBSET Changes) /\ Len(outbox) <= QueueLimit
               /\ sending \in SUBSET Changes /\ wire \in Seq(SUBSET Changes)
               /\ link \in BOOLEAN /\ lost \subseteq Changes
               /\ coalescer \in [state : {"idle", "asleep", "read"}, version : 0 .. MaxChanges]
               /\ ready \in Seq([page : Pages, event : Event, open : BOOLEAN])
               /\ pages = [p \in Pages |-> pages[p]] /\ \A p \in Pages : PageOK(pages[p])
               /\ breaks \in 0 .. MaxBreaks
BY DEF TypeOK, PageOK

(* Every step keeps every domain.                                          *)
LEMMA NextType == TypeOK /\ CoalescerOK /\ [Next]_vars => TypeOK' /\ CoalescerOK'
<1> SUFFICES ASSUME TypeOK, CoalescerOK, [Next]_vars PROVE TypeOK' /\ CoalescerOK'
  OBVIOUS
<1> DEFINE RunnerOK == /\ owed \subseteq {"runner", "admin"} \X Changes
                       /\ outbox \in Seq(SUBSET Changes) /\ Len(outbox) <= QueueLimit
                       /\ sending \in SUBSET Changes /\ wire \in Seq(SUBSET Changes)
                       /\ link \in BOOLEAN /\ lost \subseteq Changes
           Calls == Seq([page : Pages, event : Event, open : BOOLEAN])
           PagesOK == pages = [p \in Pages |-> pages[p]] /\ \A p \in Pages : PageOK(pages[p])
           TaskOK == /\ coalescer \in [state : {"idle", "asleep", "read"}, version : 0 .. MaxChanges]
                     /\ CoalescerOK
<1>0. /\ kind \in Kinds /\ version \in 0 .. MaxChanges /\ breaks \in 0 .. MaxBreaks
      /\ RunnerOK /\ ready \in Calls /\ PagesOK /\ TaskOK
  BY PagesType
<1>t. ASSUME kind' \in Kinds, version' \in 0 .. MaxChanges, breaks' \in 0 .. MaxBreaks,
             RunnerOK', ready' \in Calls, PagesOK', TaskOK'
      PROVE  TypeOK' /\ CoalescerOK'
  BY <1>t DEF TypeOK, PageOK
<1>p. ASSUME NEW p \in Pages, NEW page, PageOK(page), pages' = [pages EXCEPT ![p] = page]
      PROVE  PagesOK'
  BY <1>0, <1>p DEF PageOK
<1>u. ASSUME NEW p \in Pages, Unsubscribe(p) PROVE ready' \in Calls /\ PagesOK'
  <2>1. PagesOK'
    <3>1. pages' = [pages EXCEPT ![p] = [pages[p] EXCEPT !.stream = "closed", !.queue = <<>>]]
      BY <1>u DEF Unsubscribe
    <3>2. PageOK([pages[p] EXCEPT !.stream = "closed", !.queue = <<>>])
      BY <1>0, PageTypes
    <3> HIDE DEF PagesOK
    <3> QED BY <1>p, <3>1, <3>2
  <2>2. ready' \in Calls
    <3> DEFINE T == [page : Pages, event : Event, open : BOOLEAN]
    <3>0. ready \in Seq(T)
      BY <1>0
    <3>2. \A call \in T : [call EXCEPT !.open = FALSE] \in T
      OBVIOUS
    <3> HIDE DEF T
    <3>1. Len(ready) \in Nat /\ DOMAIN ready = 1 .. Len(ready) /\ \A i \in DOMAIN ready : ready[i] \in T
      BY <3>0
    <3>3. ready' \in [1 .. Len(ready) -> T]
      BY <1>u, <3>1, <3>2 DEF Unsubscribe
    <3>4. ready' \in Seq(T)
      BY <3>1, <3>3
    <3> QED BY <3>4 DEF T
  <2> QED BY <2>1, <2>2
<1>e. Changed \in Event /\ \A v \in 0 .. MaxChanges : [type |-> "snapshot", version |-> v] \in Event
  BY StreamsAssumption DEF Changed, Event
<1>v. \A event \in Event : Publish(event) => ready' \in Calls
  BY PublishSteps
<1>w. UNCHANGED pages => PagesOK'
  BY <1>0 DEF PageOK
<1>c. UNCHANGED <<kind, coalescer>> => TaskOK'
  BY <1>0 DEF CoalescerOK, Idle
<1>i. UNCHANGED kind /\ coalescer' = Idle => TaskOK'
  BY StreamsAssumption DEF CoalescerOK, Idle
<1>r. UNCHANGED runnerVars => RunnerOK'
  BY <1>0 DEF runnerVars
<1> HIDE DEF Calls, PagesOK, TaskOK
<1>1. ASSUME NEW who \in {"runner", "admin"}, Commits(who) PROVE TypeOK' /\ CoalescerOK'
  <2>1. version' \in 0 .. MaxChanges /\ <<who, version + 1>> \in {"runner", "admin"} \X Changes
    BY <1>0, <1>1, StreamsAssumption DEF Commits, Changes
  <2>2. RunnerOK'
    BY <1>0, <1>1, <2>1 DEF Commits
  <2> QED BY <1>0, <1>1, <1>t, <1>w, <1>c, <2>1, <2>2 DEF Commits
<1>2. ASSUME RunnerPublishes PROVE TypeOK' /\ CoalescerOK'
  <2>1. RunnerOK'
    <3>1. PICK w \in Changes :
              /\ owed' = owed \ {<<"runner", w>>} /\ outbox' = Queued(outbox, {w})
              /\ lost' = lost \cup Dropped(outbox, {w})
      BY <1>2 DEF RunnerPublishes
    <3>2. Dropped(outbox, {w}) \subseteq Changes /\ outbox' \in Seq(SUBSET Changes)
          /\ Len(outbox') <= QueueLimit
      BY <1>0, <3>1, QueuedSteps
    <3>3. UNCHANGED <<sending, wire, link>>
      BY <1>2 DEF RunnerPublishes
    <3> QED BY <1>0, <3>1, <3>2, <3>3
  <2> QED BY <1>0, <1>2, <1>t, <1>w, <1>c, <2>1 DEF RunnerPublishes
<1>17. ASSUME OthersPublish PROVE TypeOK' /\ CoalescerOK'
  <2>1. RunnerOK'
    <3>1. /\ Append(outbox, {}) \in Seq(SUBSET Changes)
          /\ Len(Append(outbox, {})) = Len(outbox) + 1 /\ Len(outbox) \in Nat
      BY <1>0, AppendSteps
    <3> QED BY <1>0, <1>17, <3>1, StreamsAssumption DEF OthersPublish
  <2> QED BY <1>0, <1>17, <1>t, <1>w, <1>c, <2>1 DEF OthersPublish
<1>3. ASSUME AdminPublishes PROVE TypeOK' /\ CoalescerOK'
  <2>1. RunnerOK'
    BY <1>0, <1>3 DEF AdminPublishes
  <2> QED BY <1>0, <1>3, <1>t, <1>v, <1>e, <1>w, <1>c, <2>1 DEF AdminPublishes
<1>4. ASSUME SendTakes PROVE TypeOK' /\ CoalescerOK'
  <2>1. RunnerOK'
    <3>1. /\ Head(outbox) \in SUBSET Changes /\ Tail(outbox) \in Seq(SUBSET Changes)
          /\ Len(Tail(outbox)) = Len(outbox) - 1 /\ Len(outbox) \in Nat
      BY <1>0, <1>4, TailSteps DEF SendTakes
    <3> QED BY <1>0, <1>4, <3>1, StreamsAssumption DEF SendTakes
  <2> QED BY <1>0, <1>4, <1>t, <1>w, <1>c, <2>1 DEF SendTakes
<1>5. ASSUME SendReturns PROVE TypeOK' /\ CoalescerOK'
  <2>1. RunnerOK'
    BY <1>0, <1>5, AppendSteps DEF SendReturns
  <2> QED BY <1>0, <1>5, <1>t, <1>w, <1>c, <2>1 DEF SendReturns
<1>6. ASSUME LinkBreaks PROVE TypeOK' /\ CoalescerOK'
  <2>1. RunnerOK'
    <3>1. UNION ToSet(wire) \subseteq Changes
      BY <1>0 DEF ToSet
    <3>2. /\ PutBack(outbox, sending) \in Seq(SUBSET Changes)
          /\ Len(PutBack(outbox, sending)) <= QueueLimit
          /\ Dropped(outbox, sending) \subseteq Changes
      BY <1>0, PutBackSteps, QueuedSteps
    <3>3. <<>> \in Seq(SUBSET Changes)
      OBVIOUS
    <3>4. /\ link' = FALSE /\ wire' = <<>> /\ sending' = {} /\ owed' = owed
          /\ outbox' = PutBack(outbox, sending) \/ outbox' = outbox
          /\ \/ lost' = lost \cup Dropped(outbox, sending) \cup UNION ToSet(wire)
             \/ lost' = lost \cup sending \cup UNION ToSet(wire)
      BY <1>6 DEF LinkBreaks
    <3>5. lost' \subseteq Changes
      <4> DEFINE U == UNION ToSet(wire)
                 D == Dropped(outbox, sending)
      <4>1. /\ U \subseteq Changes /\ lost \subseteq Changes /\ sending \subseteq Changes
            /\ D \subseteq Changes
        BY <1>0, <3>1, <3>2
      <4>2. lost' = lost \cup D \cup U \/ lost' = lost \cup sending \cup U
        BY <3>4
      <4> HIDE DEF U, D
      <4> QED BY <4>1, <4>2
    <3>6. outbox' \in Seq(SUBSET Changes) /\ Len(outbox') <= QueueLimit
      BY <1>0, <3>2, <3>4
    <3>7. wire' \in Seq(SUBSET Changes) /\ sending' \in SUBSET Changes /\ link' \in BOOLEAN
      BY <3>3, <3>4
    <3> QED BY <1>0, <3>4, <3>5, <3>6, <3>7
  <2>2. breaks' \in 0 .. MaxBreaks
    BY <1>0, <1>6, StreamsAssumption DEF LinkBreaks
  <2> QED BY <1>0, <1>6, <1>t, <1>w, <1>c, <2>1, <2>2 DEF LinkBreaks
<1>7. ASSUME LinkReturns PROVE TypeOK' /\ CoalescerOK'
  <2>1. RunnerOK'
    BY <1>0, <1>7 DEF LinkReturns
  <2> QED BY <1>0, <1>7, <1>t, <1>w, <1>c, <2>1 DEF LinkReturns
<1>8. ASSUME ReceiveEvent PROVE TypeOK' /\ CoalescerOK'
  <2>1. RunnerOK'
    <3>1. Head(wire) \in SUBSET Changes /\ Tail(wire) \in Seq(SUBSET Changes)
      BY <1>0, <1>8, TailSteps DEF ReceiveEvent
    <3> QED BY <1>0, <1>8, <3>1 DEF ReceiveEvent
  <2>2. TaskOK'
    BY <1>0, <1>8, StreamsAssumption DEF ReceiveEvent, TaskOK, CoalescerOK, Idle
  <2> QED BY <1>0, <1>8, <1>t, <1>w, <2>1, <2>2 DEF ReceiveEvent
<1>9. ASSUME PublishWorkerSnapshot PROVE TypeOK' /\ CoalescerOK'
  BY <1>0, <1>9, <1>t, <1>v, <1>e, <1>i, <1>r, <1>w DEF PublishWorkerSnapshot
<1>10. ASSUME SnapshotForBroadcast PROVE TypeOK' /\ CoalescerOK'
  <2>1. TaskOK'
    BY <1>0, <1>10 DEF SnapshotForBroadcast, TaskOK, CoalescerOK
  <2> QED BY <1>0, <1>10, <1>t, <1>r, <1>w, <2>1 DEF SnapshotForBroadcast
<1>11. ASSUME PublishTournamentSnapshot PROVE TypeOK' /\ CoalescerOK'
  <2>1. coalescer.version \in 0 .. MaxChanges
    BY <1>0 DEF TaskOK
  <2>2. ready' \in Calls
    BY <1>11, <1>v, <1>e, <2>1 DEF PublishTournamentSnapshot
  <2> QED BY <1>0, <1>11, <1>t, <1>i, <1>r, <1>w, <2>2 DEF PublishTournamentSnapshot
<1>12. ASSUME Enqueue PROVE TypeOK' /\ CoalescerOK'
  <2> DEFINE call == Head(ready)
  <2>1. call \in [page : Pages, event : Event, open : BOOLEAN] /\ Tail(ready) \in Calls
    BY <1>0, <1>12, TailSteps DEF Enqueue, Calls
  <2>2. PageOK(Enqueued(pages[call.page], call.event))
    BY <1>0, <2>1, PageTypes DEF PagesOK
  <2>3. PagesOK'
    BY <1>12, <1>p, <1>w, <2>1, <2>2 DEF Enqueue
  <2> QED BY <1>0, <1>12, <1>t, <1>r, <1>c, <2>1, <2>3 DEF Enqueue
<1>13. ASSUME NEW p \in Pages,
              \/ Subscribe(p) \/ FirstSnapshot(p) \/ Deliver(p)
              \/ LoadDetail(p) \/ AnswerDetail(p) \/ ApplyDetail(p)
       PROVE  TypeOK' /\ CoalescerOK'
  <2>0. PageOK(pages[p])
    BY <1>0 DEF PagesOK
  <2>1. ASSUME NEW page, PageOK(page), pages' = [pages EXCEPT ![p] = page],
               UNCHANGED <<kind, version, runnerVars, coalescer, ready, breaks>>
        PROVE  TypeOK' /\ CoalescerOK'
    BY <2>1, <1>0, <1>t, <1>r, <1>c, <1>p
  <2>2. CASE Subscribe(p)
    <3>1. pages' = [pages EXCEPT ![p] = [pages[p] EXCEPT !.stream = "subscribed", !.queue = <<>>]]
      BY <2>2 DEF Subscribe
    <3> QED BY <2>0, <2>1, <2>2, <3>1, PageTypes DEF Subscribe
  <2>3. CASE FirstSnapshot(p)
    <3>1. pages' = [pages EXCEPT ![p] = [pages[p] EXCEPT !.stream = "open", !.view = version]]
      BY <2>3 DEF FirstSnapshot
    <3>2. PageOK([pages[p] EXCEPT !.stream = "open", !.view = version])
      BY <1>0, <2>0, PageTypes
    <3> QED BY <2>1, <2>3, <3>1, <3>2 DEF FirstSnapshot
  <2>4. CASE Deliver(p)
    <3>1. pages' = [pages EXCEPT ![p] =
              [Handled(pages[p], Head(pages[p].queue)) EXCEPT !.queue = Tail(pages[p].queue)]]
      BY <2>4 DEF Deliver
    <3> QED BY <1>0, <2>0, <2>1, <2>4, <3>1, PageTypes DEF Deliver
  <2>5. CASE LoadDetail(p)
    <3>1. pages' = [pages EXCEPT ![p] =
              [pages[p] EXCEPT !.timer = FALSE, !.request = "asked", !.answer = 0]]
      BY <2>5 DEF LoadDetail
    <3> QED BY <2>0, <2>1, <2>5, <3>1, PageTypes DEF LoadDetail
  <2>6. CASE AnswerDetail(p)
    <3>1. pages' = [pages EXCEPT ![p] = [pages[p] EXCEPT !.request = "answered", !.answer = version]]
      BY <2>6 DEF AnswerDetail
    <3>2. PageOK([pages[p] EXCEPT !.request = "answered", !.answer = version])
      BY <1>0, <2>0, PageTypes
    <3> QED BY <2>1, <2>6, <3>1, <3>2 DEF AnswerDetail
  <2>7. CASE ApplyDetail(p)
    <3>1. pages' = [pages EXCEPT ![p] =
              [pages[p] EXCEPT !.request = "none", !.answer = 0, !.view = pages[p].answer]]
      BY <2>7 DEF ApplyDetail
    <3> QED BY <2>0, <2>1, <2>7, <3>1, PageTypes DEF ApplyDetail
  <2> QED BY <1>13, <2>2, <2>3, <2>4, <2>5, <2>6, <2>7
<1>14. ASSUME NEW p \in Pages, StreamEnds(p) \/ StreamBreaks(p) PROVE TypeOK' /\ CoalescerOK'
  <2>1. breaks' \in 0 .. MaxBreaks
    BY <1>0, <1>14, StreamsAssumption DEF StreamEnds, StreamBreaks
  <2>2. RunnerOK' /\ TaskOK' /\ kind' = kind /\ version' = version /\ Unsubscribe(p)
    BY <1>14, <1>r, <1>c DEF StreamEnds, StreamBreaks
  <2> QED BY <1>0, <1>t, <1>u, <2>1, <2>2
<1>15. ASSUME WebRestarts PROVE TypeOK' /\ CoalescerOK'
  <2>1. RunnerOK'
    <3>1. /\ PutBack(outbox, sending) \in Seq(SUBSET Changes)
          /\ Len(PutBack(outbox, sending)) <= QueueLimit
      BY <1>0, PutBackSteps
    <3>2. <<>> \in Seq(SUBSET Changes)
      OBVIOUS
    <3> QED BY <1>0, <1>15, <3>1, <3>2 DEF WebRestarts
  <2>2. PagesOK'
    <3>1. \A p \in Pages : PageOK([pages[p] EXCEPT !.stream = "closed", !.queue = <<>>])
      BY <1>0, PageTypes DEF PagesOK
    <3> QED BY <1>15, <3>1 DEF WebRestarts, PagesOK
  <2>3. breaks' \in 0 .. MaxBreaks
    <3>1. breaks < MaxBreaks /\ breaks' = breaks + 1
      BY <1>15 DEF WebRestarts
    <3> QED BY <1>0, <3>1, StreamsAssumption
  <2>4. ready' \in Calls
    <3>1. ready' = <<>>
      BY <1>15 DEF WebRestarts
    <3> QED BY <3>1 DEF Calls
  <2> QED BY <1>0, <1>15, <1>t, <1>i, <2>1, <2>2, <2>3, <2>4 DEF WebRestarts
<1>16. CASE UNCHANGED vars
  BY <1>0, <1>16, <1>t, <1>r, <1>c, <1>w DEF vars, runnerVars
<1> QED
  BY <1>1, <1>2, <1>3, <1>4, <1>5, <1>6, <1>7, <1>8, <1>9, <1>10, <1>11, <1>12, <1>13, <1>14,
     <1>15, <1>16, <1>17 DEF Next

(* The queues keep their limits and every variable its domain.             *)
THEOREM TypeCorrect == Spec => []TypeOK
<1>1. Init => TypeOK /\ CoalescerOK
  BY InitType
<1>2. (TypeOK /\ CoalescerOK) /\ [Next]_vars => (TypeOK /\ CoalescerOK)'
  BY NextType
<1> QED BY <1>1, <1>2, PTL DEF Spec

-----------------------------------------------------------------------------
(* What is on its way.                                                     *)

(* The places where a change, or what will bring it to a page, can be.     *)
IsOwed(v) == \E who \in {"runner", "admin"} : <<who, v>> \in owed
IsSent(v) == v \in UNION ToSet(outbox) \/ v \in sending \/ v \in UNION ToSet(wire)
IsPublished(v) ==
    coalescer.state = "asleep"
    \/ (coalescer.state = "read" /\ (kind = "large" \/ coalescer.version >= v))
IsCalled(p, v) ==
    \E call \in ToSet(ready) : call.page = p /\ call.open /\ Brings(call.event, v)
Reads(page, v) ==
    \/ \E event \in ToSet(page.queue) : Brings(event, v)
    \/ page.stream # "open" \/ page.timer \/ page.request = "asked"
    \/ page.request = "answered" /\ page.answer >= v

LEMMA Ways ==
    ASSUME NEW p \in Pages, NEW v
    PROVE  /\ OnItsWay(p, v) <=> \/ IsOwed(v) \/ IsSent(v) \/ IsPublished(v)
                                 \/ IsCalled(p, v) \/ Reads(pages[p], v)
           /\ OnItsWay(p, v)' <=> \/ IsOwed(v)' \/ IsSent(v)' \/ IsPublished(v)'
                                  \/ IsCalled(p, v)' \/ Reads(pages[p], v)'
<1>1. \A S, T, e : (\E event \in S \cup {e} \cup T : v \in event)
                       <=> v \in UNION S \/ v \in e \/ v \in UNION T
  OBVIOUS
<1>2. /\ (\E event \in ToSet(outbox) \cup {sending} \cup ToSet(wire) : v \in event) <=> IsSent(v)
      /\ (\E event \in ToSet(outbox) \cup {sending} \cup ToSet(wire) : v \in event)' <=> IsSent(v)'
  BY <1>1 DEF IsSent
<1> QED BY <1>2, Zenon DEF OnItsWay, IsOwed, IsPublished, IsCalled, Reads

(* What a page does with an event that brings a change.                    *)
LEMMA HandledReads ==
    ASSUME NEW page, PageOK(page), NEW event \in Event, NEW v \in Nat, v <= version,
           version \in Nat, Brings(event, v)
    PROVE  Handled(page, event).view >= v \/ Handled(page, event).timer
<1>1. page \in Page /\ event.type \in {"changed", "snapshot", "end"}
  BY DEF PageOK, Event
<1>2. event.type = "snapshot" /\ kind # "worker" => event.version >= v
  BY DEF Brings
<1>3. CASE kind = "worker"
  <2>1. Handled(page, event) = [page EXCEPT !.view = version]
    BY <1>3 DEF Handled
  <2>2. [page EXCEPT !.view = version].view = version
    BY <1>1 DEF Page
  <2> QED BY <2>1, <2>2
<1>4. CASE kind # "worker" /\ event.type = "snapshot"
  BY <1>1, <1>2, <1>4 DEF Handled, Page
<1>5. CASE kind # "worker" /\ event.type # "snapshot"
  BY <1>1, <1>5 DEF Handled, Page
<1> QED BY <1>3, <1>4, <1>5

(* A page that is called with such an event will handle it, or its stream  *)
(* ends; and it still reads whatever it was to read.                       *)
LEMMA EnqueuedReads ==
    ASSUME NEW page, PageOK(page), NEW event \in Event, NEW v
    PROVE  /\ Brings(event, v) => Reads(Enqueued(page, event), v)
           /\ Reads(page, v) => Reads(Enqueued(page, event), v)
<1>0. page \in Page /\ page.queue \in Seq(Event)
  BY DEF PageOK, Page
<1>1. CASE page.stream = "overrun"
  BY <1>1 DEF Enqueued, Reads
<1>2. CASE page.stream # "overrun" /\ Len(page.queue) < BacklogLimit
  <2> DEFINE q == Append(page.queue, event)
  <2>1. Enqueued(page, event) = [page EXCEPT !.queue = q]
    BY <1>2 DEF Enqueued
  <2>2. ToSet(q) = ToSet(page.queue) \cup {event}
    BY <1>0, AppendSteps
  <2> HIDE DEF q
  <2>3. /\ [page EXCEPT !.queue = q].queue = q
        /\ [page EXCEPT !.queue = q].stream = page.stream
        /\ [page EXCEPT !.queue = q].timer = page.timer
        /\ [page EXCEPT !.queue = q].request = page.request
        /\ [page EXCEPT !.queue = q].answer = page.answer
    BY <1>0 DEF Page
  <2> QED BY <2>1, <2>2, <2>3 DEF Reads
<1>3. CASE page.stream # "overrun" /\ ~ (Len(page.queue) < BacklogLimit)
  <2>1. Enqueued(page, event) = [page EXCEPT !.stream = "overrun", !.queue = <<End>>]
    BY <1>3 DEF Enqueued
  <2>2. [page EXCEPT !.stream = "overrun", !.queue = <<End>>].stream = "overrun"
    BY <1>0 DEF Page
  <2> QED BY <2>1, <2>2 DEF Reads
<1> QED BY <1>1, <1>2, <1>3

(* What the steps of its stream and its requests leave a page to read.     *)
LEMMA PageReads ==
    ASSUME NEW page, PageOK(page), NEW v \in Nat, v <= version, version \in Nat, Reads(page, v)
    PROVE  /\ Reads([page EXCEPT !.timer = FALSE, !.request = "asked", !.answer = 0], v)
           /\ Reads([page EXCEPT !.request = "answered", !.answer = version], v)
           /\ LET new == [page EXCEPT !.request = "none", !.answer = 0, !.view = page.answer]
              IN  page.request = "answered" => Reads(new, v) \/ new.view >= v
           /\ LET new == [Handled(page, Head(page.queue)) EXCEPT !.queue = Tail(page.queue)]
              IN  page.queue # <<>> => Reads(new, v) \/ new.view >= v
<1>0. page \in Page /\ page.queue \in Seq(Event) /\ page.answer \in Nat
  BY DEF PageOK, Page
<1>1. Reads([page EXCEPT !.timer = FALSE, !.request = "asked", !.answer = 0], v)
  BY <1>0 DEF Reads, Page
<1>2. Reads([page EXCEPT !.request = "answered", !.answer = version], v)
  BY <1>0 DEF Reads, Page
<1>3. ASSUME page.request = "answered"
      PROVE  LET new == [page EXCEPT !.request = "none", !.answer = 0, !.view = page.answer]
             IN  Reads(new, v) \/ new.view >= v
  <2> DEFINE new == [page EXCEPT !.request = "none", !.answer = 0, !.view = page.answer]
  <2>1. /\ new.view = page.answer /\ new.queue = page.queue /\ new.stream = page.stream
        /\ new.timer = page.timer
    BY <1>0 DEF Page
  <2> HIDE DEF new
  <2>2. Reads(new, v) \/ new.view >= v
    BY <1>3, <2>1 DEF Reads
  <2> QED BY <2>2 DEF new
<1>4. ASSUME page.queue # <<>>
      PROVE  LET new == [Handled(page, Head(page.queue)) EXCEPT !.queue = Tail(page.queue)]
             IN  Reads(new, v) \/ new.view >= v
  <2> DEFINE event == Head(page.queue)
             new == [Handled(page, Head(page.queue)) EXCEPT !.queue = Tail(page.queue)]
  <2>1. event \in Event /\ ToSet(page.queue) = {event} \cup ToSet(Tail(page.queue))
    BY <1>0, <1>4, TailSteps
  <2> DEFINE handled == Handled(page, event)
  <2>2. Brings(event, v) => handled.view >= v \/ handled.timer
    BY <2>1, HandledReads
  <2> DEFINE rest == Tail(page.queue)
  <2>3. /\ new.queue = rest /\ new.stream = page.stream /\ new.request = page.request
        /\ new.answer = page.answer /\ new.view = handled.view /\ new.timer = handled.timer
        /\ page.timer => new.timer
    <3> HIDE DEF event, rest
    <3>1. /\ new = [handled EXCEPT !.queue = rest]
          /\ \/ handled = [page EXCEPT !.view = version]
             \/ handled = [page EXCEPT !.view = event.version]
             \/ handled = [page EXCEPT !.timer = TRUE]
      BY DEF Handled, event, rest
    <3> HIDE DEF new, handled
    <3> QED BY <1>0, <3>1 DEF Page
  <2> HIDE DEF new, handled, event, rest
  <2>4. Reads(new, v) \/ new.view >= v
    <3>1. CASE Brings(event, v)
      BY <2>2, <2>3, <3>1 DEF Reads
    <3>2. CASE ~ Brings(event, v)
      <4>1. (\E e \in ToSet(page.queue) : Brings(e, v)) => \E e \in ToSet(rest) : Brings(e, v)
        BY <2>1, <3>2 DEF rest
      <4> QED BY <2>3, <4>1 DEF Reads
    <3> QED BY <3>1, <3>2
  <2> QED BY <2>4 DEF new
<1> QED BY <1>1, <1>2, <1>3, <1>4

(* One step keeps a change on its way, shows it, or loses its event.       *)
LEMMA NextForgetsNothing ==
    ASSUME TypeOK, CoalescerOK, [Next]_vars, NEW p \in Pages, NEW v \in 1 .. version',
           v > version \/ OnItsWay(p, v)
    PROVE  OnItsWay(p, v)' \/ pages'[p].view >= v \/ v \in lost'
<1> DEFINE Goal == OnItsWay(p, v)' \/ pages'[p].view >= v \/ v \in lost'
           Old == IsOwed(v) \/ IsSent(v) \/ IsPublished(v) \/ IsCalled(p, v) \/ Reads(pages[p], v)
<1>0. /\ version \in Nat /\ v \in Nat
      /\ outbox \in Seq(SUBSET Changes) /\ Len(outbox) <= QueueLimit
      /\ sending \in SUBSET Changes /\ wire \in Seq(SUBSET Changes)
      /\ coalescer.state \in {"idle", "asleep", "read"} /\ coalescer.version \in 0 .. MaxChanges
      /\ ready \in Seq([page : Pages, event : Event, open : BOOLEAN])
      /\ \A q \in Pages : PageOK(pages[q])
  <2>1. version \in Nat /\ version' \in Nat
    BY StreamsAssumption, NextType DEF TypeOK
  <2> QED BY <2>1, PagesType
<1>g. IsOwed(v)' \/ IsSent(v)' \/ IsPublished(v)' \/ IsCalled(p, v)' \/ Reads(pages[p], v)' => Goal
  BY Ways
<1>a. UNCHANGED version => v <= version /\ Old
  BY <1>0, Ways
<1>o. UNCHANGED owed => IsOwed(v)' = IsOwed(v)
  BY DEF IsOwed
<1>s. UNCHANGED <<outbox, sending, wire>> => IsSent(v)' = IsSent(v)
  BY DEF IsSent
<1>p. UNCHANGED <<kind, coalescer>> => IsPublished(v)' = IsPublished(v)
  BY DEF IsPublished
<1>c. UNCHANGED <<kind, ready>> => IsCalled(p, v)' = IsCalled(p, v)
  BY DEF IsCalled, Brings
<1>r. UNCHANGED <<kind, pages>> => Reads(pages[p], v)' = Reads(pages[p], v)
  BY DEF Reads, Brings
<1> HIDE DEF Goal, Old
<1>1. ASSUME NEW who \in {"runner", "admin"}, Commits(who) PROVE Goal
  <2>1. CASE v > version
    <3>1. v = version + 1
      BY <1>0, <1>1, <2>1 DEF Commits
    <3>2. IsOwed(v)'
      BY <1>1, <3>1 DEF Commits, IsOwed
    <3> QED BY <1>g, <3>2
  <2>2. CASE OnItsWay(p, v)
    <3>1. IsOwed(v) => IsOwed(v)'
      BY <1>1 DEF Commits, IsOwed
    <3> QED BY <1>1, <1>g, <1>s, <1>p, <1>c, <1>r, <2>2, <3>1, Ways DEF Commits
  <2> QED BY <2>1, <2>2
<1>2. ASSUME RunnerPublishes PROVE Goal
  <2>1. PICK w \in Changes :
            /\ owed' = owed \ {<<"runner", w>>} /\ outbox' = Queued(outbox, {w})
            /\ lost' = lost \cup Dropped(outbox, {w})
    BY <1>2 DEF RunnerPublishes
  <2>2. \A u \in {w} \cup UNION ToSet(outbox) : u \in UNION ToSet(outbox') \/ u \in lost'
    <3>1. {w} \in SUBSET Changes
      OBVIOUS
    <3>2. \A u \in {w} \cup UNION ToSet(outbox) :
              u \in UNION ToSet(Queued(outbox, {w})) \/ u \in Dropped(outbox, {w})
      BY <1>0, <3>1, QueuedSteps
    <3> QED BY <2>1, <3>2
  <2>3. IsSent(v) \/ v = w => IsSent(v)' \/ v \in lost'
    BY <1>2, <2>2 DEF RunnerPublishes, IsSent
  <2>4. IsOwed(v) => IsOwed(v)' \/ v = w
    BY <2>1 DEF IsOwed
  <2> QED BY <1>2, <1>a, <1>g, <1>p, <1>c, <1>r, <2>3, <2>4 DEF RunnerPublishes, Old, Goal
<1>18. ASSUME OthersPublish PROVE Goal
  <2>1. ToSet(outbox') = ToSet(outbox) \cup {{}}
    <3> DEFINE none == {}
    <3>1. outbox' = Append(outbox, none) /\ none \in SUBSET Changes
      BY <1>18 DEF OthersPublish
    <3> HIDE DEF none
    <3>2. ToSet(Append(outbox, none)) = ToSet(outbox) \cup {none}
      BY <1>0, <3>1, AppendSteps
    <3> QED BY <3>1, <3>2 DEF none
  <2>2. IsSent(v) => IsSent(v)'
    BY <1>18, <2>1 DEF OthersPublish, IsSent
  <2> QED BY <1>18, <1>a, <1>g, <1>o, <1>p, <1>c, <1>r, <2>2 DEF OthersPublish, Old
<1>p1. ASSUME NEW event \in Event, Publish(event), UNCHANGED kind
       PROVE  /\ IsCalled(p, v) => IsCalled(p, v)'
              /\ Brings(event, v) => IsCalled(p, v)' \/ pages[p].stream # "open"
  <2>1. ToSet(ready') = ToSet(ready) \cup {Call(q, event) : q \in Subscribers}
    BY <1>p1, PublishSteps
  <2>2. pages[p].stream = "open" => Call(p, event) \in ToSet(ready')
    BY <2>1 DEF Subscribers
  <2>3. Brings(event, v)' = Brings(event, v)
    BY <1>p1 DEF Brings
  <2> QED BY <1>p1, <2>1, <2>2, <2>3 DEF IsCalled, Call, Brings
<1>e. Changed \in Event /\ Brings(Changed, v)
  BY StreamsAssumption DEF Changed, Event, Brings, End
<1>3. ASSUME AdminPublishes PROVE Goal
  <2>1. PICK w \in Changes : owed' = owed \ {<<"admin", w>>} /\ Publish(Changed)
    BY <1>3 DEF AdminPublishes
  <2>2. IsCalled(p, v)' \/ pages[p].stream # "open"
    BY <1>3, <1>e, <1>p1, <2>1 DEF AdminPublishes
  <2>3. pages[p].stream # "open" => Reads(pages[p], v)'
    BY <1>3 DEF AdminPublishes, Reads
  <2> QED BY <1>g, <2>2, <2>3
<1>4. ASSUME SendTakes PROVE Goal
  <2>1. ToSet(outbox) = {Head(outbox)} \cup ToSet(Tail(outbox))
    BY <1>0, <1>4, TailSteps DEF SendTakes
  <2>2. IsSent(v) => IsSent(v)'
    BY <1>4, <2>1 DEF SendTakes, IsSent
  <2> QED BY <1>4, <1>a, <1>g, <1>o, <1>p, <1>c, <1>r, <2>2 DEF SendTakes, Old
<1>5. ASSUME SendReturns PROVE Goal
  <2>1. ToSet(wire') = ToSet(wire) \cup {sending}
    BY <1>0, <1>5, AppendSteps DEF SendReturns
  <2>2. IsSent(v) => IsSent(v)'
    BY <1>5, <2>1 DEF SendReturns, IsSent
  <2> QED BY <1>5, <1>a, <1>g, <1>o, <1>p, <1>c, <1>r, <2>2 DEF SendReturns, Old
<1>6. ASSUME LinkBreaks PROVE Goal
  <2>1. \A u \in sending \cup UNION ToSet(outbox) :
            u \in UNION ToSet(PutBack(outbox, sending)) \/ u \in Dropped(outbox, sending)
    BY <1>0, PutBackSteps
  <2>2. IsSent(v) => IsSent(v)' \/ v \in lost'
    BY <1>6, <2>1 DEF LinkBreaks, IsSent
  <2> QED BY <1>6, <1>a, <1>g, <1>o, <1>p, <1>c, <1>r, <2>2 DEF LinkBreaks, Old, Goal
<1>7. ASSUME LinkReturns PROVE Goal
  BY <1>7, <1>a, <1>g, <1>o, <1>s, <1>p, <1>c, <1>r DEF LinkReturns, Old
<1>8. ASSUME ReceiveEvent PROVE Goal
  <2>1. ToSet(wire) = {Head(wire)} \cup ToSet(Tail(wire))
    BY <1>0, <1>8, TailSteps DEF ReceiveEvent
  <2>2. CASE v \in Head(wire)
    <3>1. CASE TooLate
      BY <1>8, <2>2, <3>1 DEF ReceiveEvent, Goal
    <3>2. CASE ~TooLate
      <4>1. coalescer.state = "read" => kind = "large"
        BY <3>2, StreamsAssumption DEF TooLate, CoalescerOK, TypeOK
      <4>2. coalescer'.state = "asleep" \/ (coalescer'.state = "read" /\ kind' = "large")
        BY <1>0, <1>8, <4>1 DEF ReceiveEvent, CoalescerOK, Idle
      <4> QED BY <1>g, <4>2 DEF IsPublished
    <3> QED BY <3>1, <3>2
  <2>3. CASE v \notin Head(wire)
    <3>1. IsSent(v) => IsSent(v)'
      BY <1>8, <2>1, <2>3 DEF ReceiveEvent, IsSent
    <3>2. IsPublished(v) => IsPublished(v)'
      BY <1>8 DEF ReceiveEvent, IsPublished, Idle
    <3> QED BY <1>8, <1>a, <1>g, <1>o, <1>c, <1>r, <3>1, <3>2 DEF ReceiveEvent, Old
  <2> QED BY <2>2, <2>3
<1>9. ASSUME PublishWorkerSnapshot PROVE Goal
  <2>1. IsCalled(p, v)' \/ pages[p].stream # "open"
    BY <1>9, <1>e, <1>p1 DEF PublishWorkerSnapshot
  <2>2. pages[p].stream # "open" => Reads(pages[p], v)'
    BY <1>9 DEF PublishWorkerSnapshot, Reads
  <2> QED BY <1>g, <2>1, <2>2
<1>10. ASSUME SnapshotForBroadcast PROVE Goal
  <2>1. v <= version
    BY <1>10, <1>a DEF SnapshotForBroadcast
  <2>2. IsPublished(v)'
    BY <1>0, <1>10, <2>1 DEF SnapshotForBroadcast, IsPublished
  <2> QED BY <1>g, <2>2
<1>11. ASSUME PublishTournamentSnapshot PROVE Goal
  <2> DEFINE event == IF kind = "large" THEN Changed
                      ELSE [type |-> "snapshot", version |-> coalescer.version]
  <2>1. event \in Event /\ Publish(event) /\ UNCHANGED kind
    BY <1>0, <1>11, <1>e DEF PublishTournamentSnapshot, Event
  <2>2. IsPublished(v) => Brings(event, v)
    BY <1>11, <1>e DEF PublishTournamentSnapshot, IsPublished, Brings, End
  <2> HIDE DEF event
  <2>3. IsCalled(p, v) \/ IsPublished(v) => IsCalled(p, v)' \/ pages[p].stream # "open"
    BY <1>p1, <2>1, <2>2
  <2>4. pages[p].stream # "open" => Reads(pages[p], v)'
    BY <1>11 DEF PublishTournamentSnapshot, Reads
  <2>5. UNCHANGED <<version, owed, outbox, sending, wire, kind, pages>>
    BY <1>11 DEF PublishTournamentSnapshot, runnerVars
  <2> QED BY <1>a, <1>g, <1>o, <1>s, <1>r, <2>3, <2>4, <2>5 DEF Old
<1>k. ASSUME NEW page, UNCHANGED kind, pages'[p] = page
      PROVE  Reads(pages[p], v)' = Reads(page, v)
  BY <1>k DEF Reads, Brings
<1>12. ASSUME Enqueue PROVE Goal
  <2> DEFINE call == Head(ready)
  <2>1. /\ call \in [page : Pages, event : Event, open : BOOLEAN]
        /\ ToSet(ready) = {call} \cup ToSet(Tail(ready))
    BY <1>0, <1>12, TailSteps DEF Enqueue
  <2>2. UNCHANGED <<kind, version, owed, outbox, sending, wire, coalescer>>
    BY <1>12 DEF Enqueue, runnerVars
  <2>3. /\ ready' = Tail(ready)
        /\ pages' = IF call.open THEN [pages EXCEPT ![call.page] = Enqueued(pages[call.page], call.event)]
                                 ELSE pages
    BY <1>12 DEF Enqueue
  <2> HIDE DEF call
  <2>4. CASE call.open /\ call.page = p
    <3> DEFINE page == Enqueued(pages[p], call.event)
    <3>1. pages'[p] = page
      BY <2>3, <2>4 DEF TypeOK
    <3>2. /\ Brings(call.event, v) => Reads(page, v)
          /\ Reads(pages[p], v) => Reads(page, v)
      BY <1>0, <2>1, EnqueuedReads
    <3> HIDE DEF page
    <3>3. Reads(page, v) => Reads(pages[p], v)'
      BY <1>k, <2>2, <3>1
    <3>4. IsCalled(p, v) => IsCalled(p, v)' \/ Reads(page, v)
      BY <2>1, <2>2, <2>3, <3>2 DEF IsCalled, Brings
    <3> QED BY <1>a, <1>g, <1>o, <1>s, <1>p, <2>2, <3>2, <3>3, <3>4 DEF Old
  <2>5. CASE ~ (call.open /\ call.page = p)
    <3>1. pages'[p] = pages[p]
      BY <2>1, <2>3, <2>5 DEF TypeOK
    <3>2. Reads(pages[p], v) => Reads(pages[p], v)'
      BY <1>k, <2>2, <3>1
    <3>3. IsCalled(p, v) => IsCalled(p, v)'
      BY <2>1, <2>2, <2>3, <2>5 DEF IsCalled, Brings
    <3> QED BY <1>a, <1>g, <1>o, <1>s, <1>p, <2>2, <3>2, <3>3 DEF Old
  <2> QED BY <2>4, <2>5
<1>13. ASSUME NEW q \in Pages, NEW page, pages' = [pages EXCEPT ![q] = page],
              UNCHANGED <<kind, version, runnerVars, coalescer, ready>>,
              Reads(pages[q], v) => Reads(page, v) \/ page.view >= v
       PROVE  Goal
  <2>1. CASE q = p
    <3>1. pages'[p] = page
      BY <1>13, <2>1 DEF TypeOK
    <3>2. Reads(page, v) => Reads(pages[p], v)'
      BY <1>13, <1>k, <3>1
    <3> QED
      BY <1>13, <1>a, <1>g, <1>o, <1>s, <1>p, <1>c, <2>1, <3>1, <3>2 DEF Old, runnerVars, Goal
  <2>2. CASE q # p
    <3>1. pages'[p] = pages[p]
      BY <1>13, <2>2 DEF TypeOK
    <3>2. Reads(pages[p], v) => Reads(pages[p], v)'
      BY <1>13, <1>k, <3>1
    <3> QED
      BY <1>13, <1>a, <1>g, <1>o, <1>s, <1>p, <1>c, <3>2 DEF Old, runnerVars
  <2> QED BY <2>1, <2>2
<1>14. ASSUME NEW q \in Pages,
              \/ Subscribe(q) \/ FirstSnapshot(q) \/ Deliver(q)
              \/ LoadDetail(q) \/ AnswerDetail(q) \/ ApplyDetail(q)
       PROVE  Goal
  <2>0. /\ PageOK(pages[q]) /\ pages[q] \in Page /\ v <= version
        /\ UNCHANGED <<kind, version, runnerVars, coalescer, ready>>
    BY <1>0, <1>a, <1>14
       DEF PageOK, Subscribe, FirstSnapshot, Deliver, LoadDetail, AnswerDetail, ApplyDetail
  <2>1. CASE Subscribe(q)
    <3> DEFINE page == [pages[q] EXCEPT !.stream = "subscribed", !.queue = <<>>]
    <3>1. pages' = [pages EXCEPT ![q] = page]
      BY <2>1 DEF Subscribe
    <3>2. Reads(page, v)
      BY <2>0 DEF Reads, Page
    <3> HIDE DEF page
    <3> QED BY <1>13, <2>0, <3>1, <3>2
  <2>2. CASE FirstSnapshot(q)
    <3> DEFINE page == [pages[q] EXCEPT !.stream = "open", !.view = version]
    <3>1. pages' = [pages EXCEPT ![q] = page]
      BY <2>2 DEF FirstSnapshot
    <3>2. page.view >= v
      BY <1>0, <2>0 DEF Page
    <3> HIDE DEF page
    <3> QED BY <1>13, <2>0, <3>1, <3>2
  <2>3. CASE Deliver(q)
    <3> DEFINE page == [Handled(pages[q], Head(pages[q].queue)) EXCEPT !.queue = Tail(pages[q].queue)]
    <3>1. pages' = [pages EXCEPT ![q] = page]
      BY <2>3 DEF Deliver
    <3>2. Reads(pages[q], v) => Reads(page, v) \/ page.view >= v
      BY <1>0, <2>0, <2>3, PageReads DEF Deliver
    <3> HIDE DEF page
    <3> QED BY <1>13, <2>0, <3>1, <3>2
  <2>4. CASE LoadDetail(q)
    <3> DEFINE page == [pages[q] EXCEPT !.timer = FALSE, !.request = "asked", !.answer = 0]
    <3>1. pages' = [pages EXCEPT ![q] = page]
      BY <2>4 DEF LoadDetail
    <3>2. Reads(pages[q], v) => Reads(page, v)
      BY <1>0, <2>0, PageReads
    <3> HIDE DEF page
    <3> QED BY <1>13, <2>0, <3>1, <3>2
  <2>5. CASE AnswerDetail(q)
    <3> DEFINE page == [pages[q] EXCEPT !.request = "answered", !.answer = version]
    <3>1. pages' = [pages EXCEPT ![q] = page]
      BY <2>5 DEF AnswerDetail
    <3>2. Reads(pages[q], v) => Reads(page, v)
      BY <1>0, <2>0, PageReads
    <3> HIDE DEF page
    <3> QED BY <1>13, <2>0, <3>1, <3>2
  <2>6. CASE ApplyDetail(q)
    <3> DEFINE page == [pages[q] EXCEPT !.request = "none", !.answer = 0, !.view = pages[q].answer]
    <3>1. pages' = [pages EXCEPT ![q] = page]
      BY <2>6 DEF ApplyDetail
    <3>2. Reads(pages[q], v) => Reads(page, v) \/ page.view >= v
      BY <1>0, <2>0, <2>6, PageReads DEF ApplyDetail
    <3> HIDE DEF page
    <3> QED BY <1>13, <2>0, <3>1, <3>2
  <2> QED BY <1>14, <2>1, <2>2, <2>3, <2>4, <2>5, <2>6
<1>15. ASSUME NEW q \in Pages, StreamEnds(q) \/ StreamBreaks(q) PROVE Goal
  <2>1. /\ UNCHANGED <<kind, version, owed, outbox, sending, wire, coalescer>>
        /\ Unsubscribe(q)
    BY <1>15 DEF StreamEnds, StreamBreaks, runnerVars
  <2>2. CASE q = p
    <3>1. pages'[p].stream # "open"
      BY <1>0, <2>1, <2>2 DEF Unsubscribe, TypeOK, Page
    <3> QED BY <1>g, <3>1 DEF Reads
  <2>3. CASE q # p
    <3>1. pages'[p] = pages[p]
      BY <2>1, <2>3 DEF Unsubscribe, TypeOK
    <3>2. Reads(pages[p], v) => Reads(pages[p], v)'
      BY <1>k, <2>1, <3>1
    <3>3. ASSUME IsCalled(p, v) PROVE IsCalled(p, v)'
      <4>1. PICK i \in DOMAIN ready : /\ ready[i].page = p /\ ready[i].open
                                      /\ Brings(ready[i].event, v)
        BY <3>3 DEF IsCalled, ToSet
      <4>2. DOMAIN ready' = DOMAIN ready /\ ready'[i] = ready[i]
        BY <2>1, <2>3, <4>1 DEF Unsubscribe
      <4> QED BY <2>1, <4>1, <4>2 DEF IsCalled, ToSet, Brings
    <3> QED BY <1>a, <1>g, <1>o, <1>s, <1>p, <2>1, <3>2, <3>3 DEF Old
  <2> QED BY <2>2, <2>3
<1>16. ASSUME WebRestarts PROVE Goal
  <2>1. pages' = [q \in Pages |-> [pages[q] EXCEPT !.stream = "closed", !.queue = <<>>]]
    BY <1>16 DEF WebRestarts
  <2>2. pages'[p].stream # "open"
    BY <1>0, <2>1 DEF PageOK, Page
  <2> QED BY <1>g, <2>2 DEF Reads
<1>17. CASE UNCHANGED vars
  <2>1. UNCHANGED <<kind, version, owed, outbox, sending, wire, lost, coalescer, ready, pages>>
    BY <1>17 DEF vars, runnerVars
  <2> QED BY <2>1, <1>a, <1>g, <1>o, <1>s, <1>p, <1>k, <1>c, <1>r DEF Old, Goal
<1> QED
  BY <1>1, <1>2, <1>3, <1>4, <1>5, <1>6, <1>7, <1>8, <1>9, <1>10, <1>11, <1>12, <1>14, <1>15,
     <1>16, <1>17, <1>18 DEF Next, Goal

(* A committed change stays on its way to a page until the page shows it   *)
(* or its event is lost: with a connection, in a queue that is full of     *)
(* other topics' events, or behind a snapshot read before it.              *)
THEOREM NothingIsForgotten == Spec => NothingForgotten
<1>1. TypeOK /\ CoalescerOK /\ [Next]_vars
          => [\A p \in Pages, v \in 1 .. version' :
                 v > version \/ OnItsWay(p, v)
                     => OnItsWay(p, v)' \/ pages'[p].view >= v \/ v \in lost']_vars
  BY NextForgetsNothing
<1>2. Init => TypeOK /\ CoalescerOK
  BY InitType
<1>3. (TypeOK /\ CoalescerOK) /\ [Next]_vars => (TypeOK /\ CoalescerOK)'
  BY NextType
<1> QED BY <1>1, <1>2, <1>3, PTL DEF Spec, NothingForgotten
=============================================================================
