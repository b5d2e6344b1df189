-------------------------------- MODULE Streams --------------------------------
(***************************************************************************)
(* How a page that is open in a browser learns of a committed change.      *)
(*                                                                         *)
(* The runner's threads commit and then queue an event for the publisher   *)
(* (cope/runner/events.py), which sends it over one websocket to the web   *)
(* application.  There, on the event loop, a coalescer turns the events of *)
(* a topic into one publication, and the StreamHub (cope/web/app.py) hands *)
(* that to the queue of every subscribed page.  Threads that serve an      *)
(* administrator's request commit and publish through the same hub.  A     *)
(* page is a server-sent-events stream; it subscribes, is sent a first     *)
(* snapshot, and then what its queue brings.                               *)
(*                                                                         *)
(* The database is the number of changes committed so far, and what a page *)
(* shows is the number it has read.  All pages of a behaviour are of one   *)
(* kind, and so on one topic.                                              *)
(***************************************************************************)
EXTENDS Naturals, Sequences, SequencesExt

CONSTANTS
    Pages,
    Kinds,         \* which pages are looked at, out of
                   \*   "worker": WorkerPage.vue, whose stream reads the row again
                   \*   "large", "small": TournamentPage.vue, of a tournament with
                   \*             more than MAX_BROADCAST_SNAPSHOT_GAMES games or not
    QueueLimit,    \* PUBLISHER_QUEUE_SIZE
    BacklogLimit,  \* max_queue of a subscription
    MaxChanges,    \* bounds the changes of a behaviour
    MaxBreaks      \* bounds its broken connections and restarts

ASSUME StreamsAssumption ==
    /\ IsFiniteSet(Pages)
    /\ Kinds \subseteq {"worker", "large", "small"} /\ Kinds # {}
    /\ {QueueLimit, BacklogLimit} \subseteq Nat \ {0}
    /\ {MaxChanges, MaxBreaks} \subseteq Nat

VARIABLES
    kind,       \* of the pages
    version,    \* changes committed
    owed,       \* committed, to be published: who by, and which change
    outbox,     \* the publisher's queue, of the events of every topic; an event
                \* stands for a set of changes ({}: it is of another topic than
                \* the pages', or asks for no snapshot)
    sending,    \* the event in websocket.send ({}: none)
    wire,       \* events the websocket has accepted
    link,       \* the websocket is open
    lost,       \* changes whose event went down with a connection, found the
                \* publisher's queue full of other topics' events, or came when
                \* the snapshot it should have asked for was read (history)
    coalescer,  \* the snapshot task of the topic, and what it has read
    ready,      \* callbacks handed to the loop: enqueue this event for that
                \* page, if the subscription it was listed with is still open
    pages,
    breaks

runnerVars == <<owed, outbox, sending, wire, link, lost>>
vars == <<kind, version, runnerVars, coalescer, ready, pages, breaks>>

Changes == 1 .. MaxChanges
Event == [type : {"changed", "snapshot", "end"}, version : 0 .. MaxChanges]
Changed == [type |-> "changed", version |-> 0]
End == [type |-> "end", version |-> 0]
Idle == [state |-> "idle", version |-> 0]

Page == [stream : {"closed", "subscribed", "open", "overrun"}, queue : Seq(Event),
         view : 0 .. MaxChanges, timer : BOOLEAN,
         request : {"none", "asked", "answered"}, answer : 0 .. MaxChanges]
NewPage == [stream |-> "closed", queue |-> <<>>, view |-> 0, timer |-> FALSE,
            request |-> "none", answer |-> 0]

Init ==
    /\ kind \in Kinds
    /\ version = 0
    /\ owed = {} /\ outbox = <<>> /\ sending = {} /\ wire = <<>>
    /\ link = FALSE /\ lost = {}
    /\ coalescer = Idle
    /\ ready = <<>>
    /\ pages = [p \in Pages |-> NewPage]
    /\ breaks = 0

-----------------------------------------------------------------------------
(* A transaction commits; what announces it comes after.                   *)
Commits(who) ==
    /\ version < MaxChanges
    /\ version' = version + 1
    /\ owed' = owed \cup {<<who, version + 1>>}
    /\ UNCHANGED <<kind, outbox, sending, wire, link, lost, coalescer, ready, pages, breaks>>

(* An event that finds the queue full, and still full a second later, is   *)
(* dropped.  The change it stood for is committed, so that the last event  *)
(* of its own topic in the queue announces it too; if all of the queue is  *)
(* other topics', nothing does.                                            *)
Own(q) == {i \in DOMAIN q : q[i] # {}}
Queued(q, event) ==
    IF Len(q) < QueueLimit THEN Append(q, event)
    ELSE IF Own(q) = {} THEN q
    ELSE [q EXCEPT ![Max(Own(q))] = @ \cup event]
Dropped(q, event) == IF Len(q) < QueueLimit \/ Own(q) # {} THEN {} ELSE event

RunnerPublishes ==
    \E v \in Changes :
        /\ <<"runner", v>> \in owed
        /\ owed' = owed \ {<<"runner", v>>}
        /\ outbox' = Queued(outbox, {v})
        /\ lost' = lost \cup Dropped(outbox, {v})
        /\ UNCHANGED <<kind, version, sending, wire, link, coalescer, ready, pages, breaks>>

(* Everything else that the runner's threads publish takes the same queue. *)
OthersPublish ==
    /\ Len(outbox) < QueueLimit
    /\ outbox' = Append(outbox, {})
    /\ UNCHANGED <<kind, version, owed, sending, wire, link, lost, coalescer, ready,
                   pages, breaks>>

-----------------------------------------------------------------------------
(* The publisher's connection.  An event of another topic is sent at once. *)
SendTakes ==
    /\ link /\ sending = {} /\ outbox # <<>>
    /\ sending' = Head(outbox)
    /\ outbox' = Tail(outbox)
    /\ UNCHANGED <<kind, version, owed, wire, link, lost, coalescer, ready, pages, breaks>>

SendReturns ==
    /\ link /\ sending # {}
    /\ wire' = Append(wire, sending)
    /\ sending' = {}
    /\ UNCHANGED <<kind, version, owed, outbox, link, lost, coalescer, ready, pages, breaks>>

(* The send that is under way fails with ConnectionClosed and puts its     *)
(* event back, at the end of the queue, if there is room.                  *)
PutBack_Drops(q, event) == q

PutBack(q, event) == IF event = {} THEN q ELSE Queued(q, event)

(* The sender and the receiver notice the end of a connection on their     *)
(* own: either the send fails, or the receiver was first and the sender is *)
(* cancelled.  What the websocket had accepted is gone.                    *)
LinkBreaks ==
    /\ link /\ breaks < MaxBreaks
    /\ link' = FALSE
    /\ \/ /\ outbox' = PutBack(outbox, sending)
          /\ lost' = lost \cup Dropped(outbox, sending) \cup UNION ToSet(wire)
       \/ /\ sending # {}
          /\ lost' = lost \cup sending \cup UNION ToSet(wire)
          /\ UNCHANGED outbox
    /\ wire' = <<>> /\ sending' = {}
    /\ breaks' = breaks + 1
    /\ UNCHANGED <<kind, version, owed, coalescer, ready, pages>>

LinkReturns ==
    /\ ~link
    /\ link' = TRUE
    /\ UNCHANGED <<kind, version, owed, outbox, sending, wire, lost, coalescer, ready,
                   pages, breaks>>

-----------------------------------------------------------------------------
(* The event loop runs one thing at a time; between a subscription and the *)
(* first snapshot, which is read on the loop, it runs nothing else.        *)
LoopFree == \A p \in Pages : pages[p].stream # "subscribed"

(* StreamHub.publish: lists the subscribers under the lock and has the     *)
(* loop call their enqueue.                                                *)
Subscribers == {p \in Pages : pages[p].stream # "closed"}
Publish(event) ==
    ready' = ready \o SetToSeq({[page |-> p, event |-> event, open |-> TRUE] : p \in Subscribers})

AdminPublishes ==
    \E v \in Changes :
        /\ <<"admin", v>> \in owed
        /\ owed' = owed \ {<<"admin", v>>}
        /\ Publish(Changed)
        /\ UNCHANGED <<kind, version, outbox, sending, wire, link, lost, coalescer,
                       pages, breaks>>

(* A task that is not done stands for the event as well: it is dropped,    *)
(* even when the task has read its snapshot and only has to publish it.    *)
TooLate == coalescer.state = "read" /\ kind = "small"

ReceiveEvent ==
    /\ wire # <<>> /\ LoopFree
    /\ wire' = Tail(wire)
    /\ lost' = IF TooLate THEN lost \cup Head(wire) ELSE lost
    /\ coalescer' = IF coalescer = Idle THEN [Idle EXCEPT !.state = "asleep"] ELSE coalescer
    /\ UNCHANGED <<kind, version, owed, outbox, sending, link, ready, pages, breaks>>

PublishWorkerSnapshot ==
    /\ kind = "worker"
    /\ coalescer.state = "asleep" /\ LoopFree
    /\ Publish(Changed)
    /\ coalescer' = Idle
    /\ UNCHANGED <<kind, version, runnerVars, pages, breaks>>

(* The tournament's snapshot is read in a thread while the task waits.     *)
SnapshotForBroadcast ==
    /\ kind \in {"large", "small"}
    /\ coalescer.state = "asleep"
    /\ coalescer' = [state |-> "read", version |-> version]
    /\ UNCHANGED <<kind, version, runnerVars, ready, pages, breaks>>

PublishTournamentSnapshot ==
    /\ coalescer.state = "read" /\ LoopFree
    /\ Publish(IF kind = "large" THEN Changed
               ELSE [type |-> "snapshot", version |-> coalescer.version])
    /\ coalescer' = Idle
    /\ UNCHANGED <<kind, version, runnerVars, pages, breaks>>

(* StreamSubscription.enqueue: a subscription that is closed ignores it,   *)
(* and a backlog that is full ends the stream.                             *)
Enqueued_Drops(page, event) ==
    IF Len(page.queue) < BacklogLimit THEN [page EXCEPT !.queue = Append(@, event)] ELSE page
Enqueued(page, event) ==
    IF page.stream = "overrun" THEN page
    ELSE IF Len(page.queue) < BacklogLimit THEN [page EXCEPT !.queue = Append(@, event)]
    ELSE [page EXCEPT !.stream = "overrun", !.queue = <<End>>]

Enqueue ==
    /\ ready # <<>> /\ LoopFree
    /\ LET call == Head(ready)
       IN pages' = IF call.open THEN [pages EXCEPT ![call.page] = Enqueued(@, call.event)]
                                ELSE pages
    /\ ready' = Tail(ready)
    /\ UNCHANGED <<kind, version, runnerVars, coalescer, breaks>>

-----------------------------------------------------------------------------
(* The streams of the pages.                                               *)
Subscribe(p) ==
    /\ pages[p].stream = "closed" /\ LoopFree
    /\ pages' = [pages EXCEPT ![p].stream = "subscribed", ![p].queue = <<>>]
    /\ UNCHANGED <<kind, version, runnerVars, coalescer, ready, breaks>>

FirstSnapshot(p) ==
    /\ pages[p].stream = "subscribed"
    /\ pages' = [pages EXCEPT ![p].stream = "open", ![p].view = version]
    /\ UNCHANGED <<kind, version, runnerVars, coalescer, ready, breaks>>

(* What the page does with an event: a worker's stream has turned it into  *)
(* a snapshot of its own; a tournament's page shows a snapshot at once and *)
(* goes and asks about a change, 120 ms after the last one.                *)
Handled(page, event) ==
    CASE kind = "worker" -> [page EXCEPT !.view = version]
      [] kind # "worker" /\ event.type = "snapshot" -> [page EXCEPT !.view = event.version]
      [] OTHER -> [page EXCEPT !.timer = TRUE]

Deliver(p) ==
    /\ pages[p].stream \in {"open", "overrun"} /\ pages[p].queue # <<>> /\ LoopFree
    /\ Head(pages[p].queue) # End
    /\ LET page == pages[p]
       IN pages' = [pages EXCEPT ![p] = [Handled(page, Head(page.queue))
                                           EXCEPT !.queue = Tail(page.queue)]]
    /\ UNCHANGED <<kind, version, runnerVars, coalescer, ready, breaks>>

(* The subscription is closed; callbacks may still be on their way to it.  *)
Unsubscribe(p) ==
    /\ pages' = [pages EXCEPT ![p].stream = "closed", ![p].queue = <<>>]
    /\ ready' = [i \in DOMAIN ready |->
                    IF ready[i].page = p THEN [ready[i] EXCEPT !.open = FALSE] ELSE ready[i]]

StreamEnds(p) ==
    /\ pages[p].queue = <<End>> /\ LoopFree
    /\ Unsubscribe(p)
    /\ UNCHANGED <<kind, version, runnerVars, coalescer, breaks>>

StreamBreaks(p) ==
    /\ pages[p].stream \in {"open", "overrun"} /\ LoopFree /\ breaks < MaxBreaks
    /\ Unsubscribe(p)
    /\ breaks' = breaks + 1
    /\ UNCHANGED <<kind, version, runnerVars, coalescer>>

(* loadDetail: a new request gives up the one before.                      *)
LoadDetail(p) ==
    /\ pages[p].timer
    /\ pages' = [pages EXCEPT ![p].timer = FALSE, ![p].request = "asked", ![p].answer = 0]
    /\ UNCHANGED <<kind, version, runnerVars, coalescer, ready, breaks>>

AnswerDetail(p) ==
    /\ pages[p].request = "asked"
    /\ pages' = [pages EXCEPT ![p].request = "answered", ![p].answer = version]
    /\ UNCHANGED <<kind, version, runnerVars, coalescer, ready, breaks>>

ApplyDetail(p) ==
    /\ pages[p].request = "answered"
    /\ pages' = [pages EXCEPT ![p].request = "none", ![p].answer = 0,
                              ![p].view = pages[p].answer]
    /\ UNCHANGED <<kind, version, runnerVars, coalescer, ready, breaks>>

(* The web application starts again.  The connections end with it, and so  *)
(* does what its threads still owed; every page will read a new snapshot.  *)
WebRestarts ==
    /\ breaks < MaxBreaks
    /\ owed' = {o \in owed : o[1] = "runner"}
    /\ link' = FALSE /\ wire' = <<>> /\ sending' = {}
    /\ outbox' \in {outbox, PutBack(outbox, sending)}
    /\ coalescer' = Idle /\ ready' = <<>>
    /\ pages' = [p \in Pages |-> [pages[p] EXCEPT !.stream = "closed", !.queue = <<>>]]
    /\ breaks' = breaks + 1
    /\ UNCHANGED <<kind, version, lost>>

-----------------------------------------------------------------------------
Next ==
    \/ \E who \in {"runner", "admin"} : Commits(who)
    \/ RunnerPublishes \/ OthersPublish \/ AdminPublishes
    \/ SendTakes \/ SendReturns \/ LinkBreaks \/ LinkReturns
    \/ ReceiveEvent \/ PublishWorkerSnapshot
    \/ SnapshotForBroadcast \/ PublishTournamentSnapshot \/ Enqueue
    \/ \E p \in Pages : \/ Subscribe(p) \/ FirstSnapshot(p) \/ Deliver(p)
                        \/ StreamEnds(p) \/ StreamBreaks(p)
                        \/ LoadDetail(p) \/ AnswerDetail(p) \/ ApplyDetail(p)
    \/ WebRestarts

Spec == Init /\ [][Next]_vars

(* Threads run, the publisher connects again for ever, the loop serves its *)
(* callbacks and tasks in order, a browser opens its stream again and gets *)
(* answers.  Nothing has to change, and nothing has to break.              *)
Fairness ==
    /\ WF_vars(RunnerPublishes) /\ WF_vars(AdminPublishes)
    /\ WF_vars(SendTakes) /\ WF_vars(SendReturns) /\ WF_vars(LinkReturns)
    /\ WF_vars(ReceiveEvent) /\ WF_vars(PublishWorkerSnapshot)
    /\ WF_vars(SnapshotForBroadcast) /\ WF_vars(PublishTournamentSnapshot)
    /\ WF_vars(Enqueue)
    /\ \A p \in Pages :
           /\ WF_vars(Subscribe(p)) /\ WF_vars(FirstSnapshot(p)) /\ WF_vars(Deliver(p))
           /\ WF_vars(StreamEnds(p)) /\ WF_vars(LoadDetail(p))
           /\ WF_vars(AnswerDetail(p)) /\ WF_vars(ApplyDetail(p))

FairSpec == Spec /\ Fairness

-----------------------------------------------------------------------------
(* Every variable keeps its domain; the queues keep their limits.          *)
TypeOK ==
    /\ kind \in Kinds
    /\ version \in 0 .. MaxChanges
    /\ owed \subseteq {"runner", "admin"} \X Changes
    /\ outbox \in Seq(SUBSET Changes) /\ Len(outbox) <= QueueLimit
    /\ sending \in SUBSET Changes
    /\ wire \in Seq(SUBSET Changes)
    /\ link \in BOOLEAN
    /\ lost \subseteq Changes
    /\ coalescer \in [state : {"idle", "asleep", "read"}, version : 0 .. MaxChanges]
    /\ ready \in Seq([page : Pages, event : Event, open : BOOLEAN])
    /\ pages \in [Pages -> Page]
    /\ \A p \in Pages : Len(pages[p].queue) <= BacklogLimit
    /\ breaks \in 0 .. MaxBreaks

(* Change v is on its way to page p: it will be published, its event is in *)
(* a queue or with the coalescer, the page is called, asks or is answered, *)
(* or it has no stream and will read a first snapshot.                     *)
Brings(event, v) ==
    event # End /\ (kind = "worker" \/ event.type = "changed" \/ event.version >= v)
OnItsWay(p, v) ==
    \/ \E who \in {"runner", "admin"} : <<who, v>> \in owed
    \/ \E event \in ToSet(outbox) \cup {sending} \cup ToSet(wire) : v \in event
    \/ coalescer.state = "asleep"
    \/ coalescer.state = "read" /\ (kind = "large" \/ coalescer.version >= v)
    \/ \E call \in ToSet(ready) : call.page = p /\ call.open /\ Brings(call.event, v)
    \/ \E event \in ToSet(pages[p].queue) : Brings(event, v)
    \/ pages[p].stream # "open" \/ pages[p].timer \/ pages[p].request = "asked"
    \/ pages[p].request = "answered" /\ pages[p].answer >= v

(* A committed change stays on its way to a page until the page shows it   *)
(* or its event is lost: with a connection, or by the publisher whose      *)
(* queue is full of other topics' events, or behind a snapshot that was    *)
(* read before it.  Nothing else that drops an event, gives up a request   *)
(* or merges two publications drops the last thing that would have brought *)
(* a change (events.py:138, 200, app.py:169, 2126).                        *)
NothingForgotten ==
    [][\A p \in Pages, v \in 1 .. version' :
          v > version \/ OnItsWay(p, v)
              => OnItsWay(p, v)' \/ pages'[p].view >= v \/ v \in lost']_vars

(* Every page comes to show every change, unless the change's event was    *)
(* in a websocket that broke, found the publisher's queue full of other    *)
(* topics' events, or came too late for a small tournament's snapshot.     *)
(* What is dropped by the coalescer because a task is pending, by the      *)
(* publisher while an earlier event of the topic is queued, by a           *)
(* subscription that is overrun or not there yet, or with the web          *)
(* application when it starts again, is covered by something read later.   *)
(* What a worker's page shows stays shown.  A tournament's page may fall   *)
(* back: an answer that was slower than the stream's new snapshot is       *)
(* applied over it.                                                        *)
ViewsCatchUp ==
    \A p \in Pages : \A v \in Changes :
        LET Shown == pages[p].view >= v \/ v \in lost
        IN  /\ [](version < v) \/ <>Shown
            /\ (kind = "worker" /\ version >= v) ~> Shown
=============================================================================
