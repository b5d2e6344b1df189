------------------------------- MODULE Wakeups -------------------------------
(***************************************************************************)
(* How the worker server (cope/runner/worker_server.py) keeps its idle     *)
(* connections waiting for games without asking the database in vain, and  *)
(* without leaving one asleep beside a game that it could play.            *)
(*                                                                         *)
(* A wake raises a generation number, empties a cache and notifies a       *)
(* condition.  A connection whose claim found nothing waits until the      *)
(* generation is no longer the one it claimed at.  The cache says at which *)
(* generation a claim found nothing, for each set of capabilities: claims  *)
(* at that generation are not even tried.  Wakes are merged: whoever asks  *)
(* for one while another is about to happen relies on that one.            *)
(*                                                                         *)
(* Generations grow for ever, and only their distance to the current one   *)
(* matters: the model keeps that distance, the lag.  What assignments go   *)
(* through in the database is the subject of module Dispatch; a game here  *)
(* can be played (Pool), is being played by a connection, or neither       *)
(* (Gone: not created, over, paused, aborted, or over the tournament's     *)
(* limit).                                                                 *)
(***************************************************************************)
EXTENDS Integers

CONSTANTS
    Workers,       \* connections of workers that may be open at once
    Capabilities,  \* sets of resources and hardware
    CapabilityOf,  \* those of each worker
    Games,
    Playable,      \* the games that the holders of a capability can play
    MaxLag,        \* bound: larger lags are not told apart
    Pool, Gone,    \* owners of games that nobody is playing
    Elsewhere,     \* the fallback loop, or a task that a stream event started
    None

ASSUME WakeupsAssumption ==
    /\ CapabilityOf \in [Workers -> Capabilities]
    /\ Playable \in [Capabilities -> SUBSET Games]
    /\ MaxLag \in Nat \ {0}
    /\ Pool # Gone /\ {Pool, Gone, Elsewhere, None} \cap Workers = {}
    /\ Elsewhere # None /\ None \notin 0..MaxLag

VARIABLES
    owner,        \* of each game: Pool, Gone or a connection
    workers,      \* the coroutine of each connection
    empty,        \* _empty_claim_generation: None, or the entry's lag
    sleeper,      \* who sleeps in _wake_workers (_wake_pending); None: nobody
    unannounced   \* games came without a wake that is due (a history variable)

vars == <<owner, workers, empty, sleeper, unannounced>>

-----------------------------------------------------------------------------
Lags == 0..MaxLag

(* Where a coroutine is.  In the states of Waking it is about to await     *)
(* _wake_workers, or sleeps in it.                                         *)
Waking == {"greets", "ended", "failed", "leaves"}
Steps == Waking \cup {"away", "claims", "reads", "waits", "plays", "backs off"}

(* saw is what a claim has read so far; valid is whether the worker's row  *)
(* still names this connection's session.                                  *)
Worker == [pc : Steps, lag : Lags, saw : SUBSET Games, valid : BOOLEAN]
Away == [pc |-> "away", lag |-> 0, saw |-> {}, valid |-> FALSE]
Greeting == [Away EXCEPT !.pc = "greets", !.valid = TRUE]
Leaving == [Away EXCEPT !.pc = "leaves"]

Fitting(w) == Playable[CapabilityOf[w]]
InPool == {g \in Games : owner[g] = Pool}

(* What w plays goes to another owner.                                     *)
Passed(w, to) == [g \in Games |-> IF owner[g] = w THEN to ELSE owner[g]]

(* Claims are synchronous: no other coroutine runs in the middle of one,   *)
(* only threads of games and other processes.                              *)
LoopFree == \A w \in Workers : workers[w].pc # "reads"

Goes(w, pc) == workers' = [workers EXCEPT ![w].pc = pc]

Init ==
    /\ owner \in [Games -> {Pool, Gone}]
    /\ workers = [w \in Workers |-> Away]
    /\ empty = [c \in Capabilities |-> None]
    /\ sleeper = None
    /\ unannounced = TRUE

-----------------------------------------------------------------------------
(* handle_connection up to its wake.  The handshake may replace another    *)
(* connection of the same worker, whose game returns to the pool.          *)
Accept(w) ==
    /\ LoopFree
    /\ workers[w].pc = "away"
    /\ \E v \in Workers :
          /\ owner' = Passed(v, Pool)
          /\ workers' = [workers EXCEPT ![v].valid = FALSE,
                                        ![w] = Greeting]
    /\ UNCHANGED <<empty, sleeper, unannounced>>

(* The end of a connection outside a game: the websocket is closed when    *)
(* that matters, or the database fails.  The finally clause of             *)
(* handle_connection follows.                                              *)
Leave(w) ==
    /\ \A v \in Workers \ {w} : workers[v].pc # "reads"
    /\ workers[w].pc \in {"greets", "claims", "reads", "waits", "ended"} /\ sleeper # w
    /\ workers' = [workers EXCEPT ![w] = Leaving]
    /\ UNCHANGED <<owner, empty, sleeper, unannounced>>

(* _record_worker_disconnected fails: nobody is woken.                     *)
CleanupFails(w) ==
    /\ LoopFree
    /\ workers[w].pc = "leaves" /\ sleeper # w
    /\ workers' = [workers EXCEPT ![w] = Away]
    /\ unannounced' = TRUE
    /\ UNCHANGED <<owner, empty, sleeper>>

(* _claim_next_assignment, when the cache knows that there is nothing.     *)
(* Lags of MaxLag may be different ones.                                   *)
SkipClaim(w) ==
    /\ LoopFree
    /\ workers[w].pc = "claims"
    /\ empty[CapabilityOf[w]] = workers[w].lag
    /\ Goes(w, "waits")
    /\ UNCHANGED <<owner, empty, sleeper, unannounced>>

(* _claim_next_assignment_from_database begins: it validates the session   *)
(* and reads the games.                                                    *)
ReadPool(w) ==
    /\ LoopFree
    /\ workers[w].pc = "claims"
    /\ empty[CapabilityOf[w]] # workers[w].lag \/ workers[w].lag = MaxLag
    /\ IF workers[w].valid
       THEN workers' = [workers EXCEPT ![w].pc = "reads", ![w].saw = InPool \cap Fitting(w)]
       ELSE workers' = [workers EXCEPT ![w] = Leaving]
    /\ UNCHANGED <<owner, empty, sleeper, unannounced>>

(* The claim succeeds, possibly with a game that came after the first read.*)
TakeGame(w) ==
    /\ workers[w].pc = "reads"
    /\ \E g \in InPool \cap Fitting(w) : owner' = [owner EXCEPT ![g] = w]
    /\ workers' = [workers EXCEPT ![w].pc = "plays", ![w].saw = {}]
    /\ UNCHANGED <<empty, sleeper, unannounced>>

(* It finds nothing, or only games that are no longer to be had.           *)
FindNothing(w) ==
    /\ workers[w].pc = "reads"
    /\ workers[w].saw \cap InPool = {}
    /\ empty' = [empty EXCEPT ![CapabilityOf[w]] = workers[w].lag]
    /\ workers' = [workers EXCEPT ![w].pc = "waits", ![w].saw = {}]
    /\ UNCHANGED <<owner, sleeper, unannounced>>

(* _wait_for_work returns the generation that is current by then.          *)
Resume(w) ==
    /\ LoopFree
    /\ workers[w].pc = "waits" /\ workers[w].lag > 0
    /\ workers' = [workers EXCEPT ![w].pc = "claims", ![w].lag = 0]
    /\ UNCHANGED <<owner, empty, sleeper, unannounced>>

(* The game's thread commits its end, which may let others be played: the  *)
(* next round, or one that the tournament's limit held back (whose name    *)
(* may be that of the game that is over).  A thread whose game was taken   *)
(* away fails (AssignmentFails).                                           *)
AfterGame_NoWake == "claims"
AfterGame == "ended"

GameEnds(w) ==
    /\ workers[w].pc = "plays"
    /\ \E g \in Games : owner[g] = w
    /\ \E more \in SUBSET {g \in Games : owner[g] \in {w, Gone}} :
          owner' = [g \in Games |-> IF g \in more THEN Pool ELSE Passed(w, Gone)[g]]
    /\ Goes(w, AfterGame)
    /\ UNCHANGED <<empty, sleeper, unannounced>>

(* The game or its preparation fails; its rows are released first.  The    *)
(* coroutine wakes the others and goes on (and a back-off comes after a    *)
(* preparation that failed), or the connection is over.                    *)
AssignmentFails(w) ==
    /\ LoopFree
    /\ workers[w].pc = "plays"
    /\ owner' = Passed(w, Pool)
    /\ \/ \E pc \in {"ended", "failed"} : Goes(w, pc)
       \/ workers' = [workers EXCEPT ![w] = Leaving]
    /\ UNCHANGED <<empty, sleeper, unannounced>>

BackOffEnds(w) ==
    /\ LoopFree
    /\ workers[w].pc = "backs off"
    /\ Goes(w, "claims")
    /\ UNCHANGED <<owner, empty, sleeper, unannounced>>

-----------------------------------------------------------------------------
(* A coroutine after its wake.                                             *)
Woken(r) ==
    CASE r.pc = "leaves" -> Away
      [] r.pc \in {"greets", "ended"} -> [r EXCEPT !.pc = "claims"]
      [] r.pc = "failed" -> [r EXCEPT !.pc = "backs off"]

(* _wake_workers called by w: it sleeps, unless somebody else does.        *)
CallWake(w) ==
    /\ LoopFree
    /\ workers[w].pc \in Waking /\ sleeper # w
    /\ IF sleeper = None
       THEN sleeper' = w /\ UNCHANGED workers
       ELSE workers' = [workers EXCEPT ![w] = Woken(@)] /\ UNCHANGED sleeper
    /\ UNCHANGED <<owner, empty, unannounced>>

(* The same by the fallback loop, or for an event of the stream.           *)
CallWakeElsewhere_NoFallback == FALSE
CallWakeElsewhere ==
    /\ LoopFree
    /\ sleeper = None
    /\ sleeper' = Elsewhere
    /\ UNCHANGED <<owner, workers, empty, unannounced>>

(* One generation later, for who is in _serve_worker: it begins at the     *)
(* generation after the wake of the handshake.                             *)
Older(r) ==
    IF r.pc \notin {"away", "greets", "leaves"} /\ r.lag < MaxLag
    THEN [r EXCEPT !.lag = @ + 1] ELSE r
Forgotten_Kept == empty
Forgotten == [c \in Capabilities |-> None]

(* The rest of _wake_workers, without an await in it.                      *)
Wake ==
    /\ LoopFree
    /\ sleeper # None
    /\ workers' = [w \in Workers |-> IF w = sleeper THEN Woken(Older(workers[w]))
                                                    ELSE Older(workers[w])]
    /\ empty' = Forgotten
    /\ sleeper' = None
    /\ unannounced' = FALSE
    /\ UNCHANGED owner

-----------------------------------------------------------------------------
(* Other processes: a game is created or resumed, or comes back because    *)
(* its worker is removed; a game is paused or aborted.                     *)
Open(g) ==
    /\ owner[g] # Pool
    /\ owner' = [owner EXCEPT ![g] = Pool]
    /\ workers' = [w \in Workers |-> IF owner[g] = w THEN [workers[w] EXCEPT !.valid = FALSE]
                                                     ELSE workers[w]]
    /\ unannounced' = TRUE
    /\ UNCHANGED <<empty, sleeper>>

Close(g) ==
    /\ owner[g] # Gone
    /\ owner' = [owner EXCEPT ![g] = Gone]
    /\ workers' = [w \in Workers |-> [workers[w] EXCEPT !.saw = @ \ {g}]]
    /\ UNCHANGED <<empty, sleeper, unannounced>>

-----------------------------------------------------------------------------
(* What a coroutine does without anybody else's help.                      *)
Turn(w) ==
    \/ SkipClaim(w) \/ ReadPool(w) \/ TakeGame(w) \/ FindNothing(w)
    \/ Resume(w) \/ BackOffEnds(w) \/ CallWake(w)

Next ==
    \/ \E w \in Workers :
          \/ Turn(w) \/ Accept(w) \/ Leave(w) \/ CleanupFails(w)
          \/ GameEnds(w) \/ AssignmentFails(w)
    \/ CallWakeElsewhere \/ Wake
    \/ \E g \in Games : Open(g) \/ Close(g)

Spec == Init /\ [][Next]_vars

(* asyncio schedules whatever can run, first come, first served: strong    *)
(* fairness because claims take the loop now and then.  The fallback loop  *)
(* calls for ever.  No game has to end, and nobody has to connect.         *)
Fairness ==
    /\ \A w \in Workers : SF_vars(Turn(w))
    /\ SF_vars(Wake) /\ SF_vars(CallWakeElsewhere)

FairSpec == Spec /\ Fairness
-----------------------------------------------------------------------------
(* The types of the variables; one claim at a time, and only it has read.  *)
TypeOK ==
    /\ owner \in [Games -> {Pool, Gone} \cup Workers]
    /\ workers \in [Workers -> Worker]
    /\ \A v, w \in Workers : workers[v].pc = "reads" /\ workers[w].pc = "reads" => v = w
    /\ \A w \in Workers : workers[w].pc # "reads" => workers[w].saw = {}
    /\ empty \in [Capabilities -> Lags \cup {None}]
    /\ sleeper \in Workers \cup {Elsewhere, None}
    /\ sleeper \in Workers => workers[sleeper].pc \in Waking
    /\ unannounced \in BOOLEAN

(* A wake is on its way: somebody sleeps in _wake_workers or is about to   *)
(* call it, or another process changed the pool and only its event or the  *)
(* fallback loop will tell.                                                *)
WakeIsDue ==
    \/ unannounced
    \/ sleeper # None
    \/ \E w \in Workers : workers[w].pc \in Waking

(* No connection waits at the current generation beside a game that it     *)
(* could play, unless a wake is on its way: merged wakes, reads that       *)
(* overlap with commits of other threads, and connections that break       *)
(* between a release and its wake lose nothing (worker_server.py:521-538). *)
NobodySleepsBesideAGame ==
    \A w \in Workers :
        workers[w].pc = "waits" /\ workers[w].lag = 0 /\ InPool \cap Fitting(w) # {}
            => WakeIsDue

(* The cache never hides a game: while an entry says that a claim with     *)
(* these capabilities found nothing there is nothing, or a wake, which     *)
(* empties the cache, is on its way (worker_server.py:786-794).            *)
CacheHidesNothing ==
    \A c \in Capabilities : empty[c] # None /\ InPool \cap Playable[c] # {} => WakeIsDue

(* A game in the pool and a connection that could play it and is idle do   *)
(* not stay so for ever, even if every event of the stream is lost and     *)
(* other connections claim with the same capabilities before it.           *)
Idle(w) == workers[w].pc \in {"claims", "reads", "waits"}

IdleWorkersAreOffered ==
    \A w \in Workers : \A g \in Games :
        g \in Fitting(w) => []<>~(Idle(w) /\ owner[g] = Pool)
=============================================================================
