---------------------------- MODULE EngineTransport ----------------------------
(***************************************************************************)
(* One worker's websocket while games are played over it.                  *)
(*                                                                         *)
(* On the runner's side: the coroutine that serves the worker and the      *)
(* WorkerEngineTransport of its assignment (cope/runner/worker_server.py), *)
(* the game thread (GameRunner, run_worker_assignment_game), which sends   *)
(* the engines one command after the other and judges the clock, and       *)
(* Python's collector, which may find the EngineInstance objects of a game *)
(* that is over and then has their __del__ send "quit".                    *)
(* On the worker's side: _serve_assignment and _EngineInfoPublisher        *)
(* (cope/worker/client.py) and the engine's process behind                 *)
(* UciEngineProcess (cope/worker/uci_engine.py), whose binaries come from  *)
(* the machine's ArtifactCache.                                            *)
(*                                                                         *)
(* Messages name the assignment and the engine, which is all the code      *)
(* compares; the number of the command they belong to is history.          *)
(***************************************************************************)
EXTENDS ArtifactCache, GameClock, Sequences

CONSTANTS
    Engines,    \* "white" and "black"
    Instances   \* what a behaviour is bounded by: its assignments, the
                \* max_plies and time controls of its games, how long a
                \* search may take (as the worker measures), its engine_info
                \* messages per search, whether other slots use the cache,
                \* and its mishaps there

(* Both engines of an assignment may be the same binary; the preparations  *)
(* of this entry of the cache are theirs and those of other slots.         *)
Preparation(n) == {n} \X Engines

ASSUME TransportAssumption ==
    /\ Engines = {"white", "black"}
    /\ Instances \subseteq
           [assignments : Nat \ {0}, plies : Nat,
            timeControls : (SUBSET TimeControl) \ {{}}, elapsed : SUBSET Nat,
            infos : Nat, others : BOOLEAN, mishaps : Nat]
    /\ \A i \in Instances : \A n \in 1 .. i.assignments :
           Preparation(n) \subseteq Preparers \ Mortal

VARIABLES
    bounds,      \* the instance
    server,      \* the serving coroutine and the number of its assignment
    game,        \* the game thread of that assignment
    call,        \* the engine command that is executed for a thread
    client,      \* the worker's coroutine and its engine processes
    publisher,   \* the command whose info line waits (0: none), lines sent
    toWorker,    \* messages on their way to the worker
    toServer,    \* messages on their way to the runner
    socketOpen,
    collected    \* engine objects were collected before transport.close()

serverVars == <<server, game, call, collected>>
clientVars == <<client, publisher>>
wireVars == <<toWorker, toServer, socketOpen>>
vars == <<bounds, server, game, call, collected, client, publisher,
          toWorker, toServer, socketOpen, cacheVars>>

-----------------------------------------------------------------------------
Message == [type : {"assignment", "engine_command", "assignment_complete",
                    "assignment_ready", "assignment_failed", "engine_info",
                    "engine_command_result"},
            n : Nat \ {0}, engine : Engines \cup {"any"}, id : Nat,
            what : {"setup", "go", "quit", "none"}, elapsed : Nat]
Plain(type, n) == [type |-> type, n |-> n, engine |-> "any", id |-> 0,
                   what |-> "none", elapsed |-> 0]
Reply(type, command, elapsed) == [command EXCEPT !.type = type, !.elapsed = elapsed]
Reads(channel, type, n) ==
    channel # <<>> /\ Head(channel).type = type /\ Head(channel).n = n

NoCall == [call EXCEPT !.state = "none"]
NoGame == [pc |-> "off", side |-> "white", plies |-> 0, started |-> {},
           timeControl |-> CHOOSE tc \in bounds.timeControls : TRUE,
           clock |-> [e \in Engines |-> [remaining |-> 0, movesToGo |-> 0]],
           searches |-> [e \in Engines |-> 0], spent |-> [e \in Engines |-> 0],
           termination |-> "none"]
NewGame(tc, side) ==
    [NoGame EXCEPT !.pc = "toMove", !.side = side, !.timeControl = tc,
                   !.clock = [e \in Engines |-> TimeManager(tc)]]
Other(e) == IF e = "white" THEN "black" ELSE "white"

Init ==
    /\ bounds \in Instances
    /\ CacheInit
    /\ server = [pc |-> "idle", n |-> 0]
    /\ game = NoGame
    /\ call = [state |-> "none", engine |-> "any", what |-> "none", id |-> 0]
    /\ client = [pc |-> "idle", n |-> 0, command |-> Plain("engine_command", 1), running |-> {}]
    /\ publisher = [latest |-> 0, sent |-> 0]
    /\ toWorker = <<>> /\ toServer = <<>>
    /\ socketOpen = TRUE
    /\ collected = FALSE

-----------------------------------------------------------------------------
(* The serving coroutine.                                                  *)

SendToWorker(m) ==
    /\ socketOpen
    /\ toWorker' = Append(toWorker, m)
    /\ UNCHANGED <<toServer, socketOpen>>

Dispatch ==
    /\ server.pc = "idle" /\ server.n < bounds.assignments
    /\ server' = [pc |-> "preparing", n |-> server.n + 1]
    /\ SendToWorker(Plain("assignment", server.n + 1))
    /\ UNCHANGED <<game, call, collected, clientVars, cacheVars>>

(* The assignment is over for the runner: the transport is closed, which   *)
(* cancels a command under way, and the worker is told.  Sending to a      *)
(* closed websocket ends the session.                                      *)
PendingCall_Kept == call
PendingCall == NoCall
Completes ==
    /\ call' = PendingCall
    /\ game' = NoGame
    /\ \/ /\ SendToWorker(Plain("assignment_complete", server.n))
          /\ server' = [server EXCEPT !.pc = "idle"]
       \/ /\ ~socketOpen
          /\ server' = [server EXCEPT !.pc = "over"]
          /\ UNCHANGED wireVars

(* _receive_assignment_ready and what follows it.                          *)
ReceiveReady ==
    /\ server.pc = "preparing"
    /\ Reads(toServer, "assignment_ready", server.n)
    /\ toServer' = Tail(toServer)
    /\ server' = [server EXCEPT !.pc = "playing"]
    /\ \E tc \in bounds.timeControls, side \in Engines : game' = NewGame(tc, side)
    /\ UNCHANGED <<call, collected, clientVars, toWorker, socketOpen, cacheVars>>

(* The worker could not prepare an engine: no assignment_complete follows. *)
ReceivePreparationFailed ==
    /\ server.pc = "preparing"
    /\ Reads(toServer, "assignment_failed", server.n)
    /\ toServer' = Tail(toServer)
    /\ server' = [server EXCEPT !.pc = "backoff"]
    /\ UNCHANGED <<game, call, collected, clientVars, toWorker, socketOpen, cacheVars>>

BackoffOver ==
    /\ server.pc = "backoff"
    /\ server' = [server EXCEPT !.pc = "idle"]
    /\ UNCHANGED <<game, call, collected, clientVars, wireVars, cacheVars>>

(* Any other message is a protocol error and fails the assignment.         *)
ReceiveUnexpected ==
    /\ server.pc = "preparing" /\ toServer # <<>>
    /\ \A type \in {"assignment_ready", "assignment_failed"} :
           ~Reads(toServer, type, server.n)
    /\ socketOpen
    /\ toServer' = Tail(toServer)
    /\ toWorker' = Append(toWorker, Plain("assignment_complete", server.n))
    /\ server' = [server EXCEPT !.pc = "idle"]
    /\ UNCHANGED <<game, call, collected, clientVars, socketOpen, cacheVars>>

EndSession ==
    /\ server.pc \in {"idle", "preparing"} /\ ~socketOpen
    /\ server' = [server EXCEPT !.pc = "over"]
    /\ UNCHANGED <<game, call, collected, clientVars, wireVars, cacheVars>>

(* The game thread has returned or raised.                                 *)
LoopBlocked == call.state = "blocking"
CompleteAssignment ==
    /\ server.pc = "playing" /\ game.pc \in {"over", "raised"} /\ ~LoopBlocked
    /\ Completes
    /\ UNCHANGED <<collected, clientVars, cacheVars>>

-----------------------------------------------------------------------------
(* The game thread.                                                        *)

Execute(engine, what) ==
    call' = [state |-> "scheduled", engine |-> engine, what |-> what, id |-> call.id + 1]

MorePlies_AtMost == game.plies <= bounds.plies
MorePlies == game.plies < bounds.plies

(* _start_game before the first move (uci, the options, ucinewgame and the *)
(* isready's, white first), then position and go for the side to move.     *)
RunNextMove ==
    LET toStart == Engines \ game.started IN
    /\ game.pc = "toMove" /\ MorePlies
    /\ game' = [game EXCEPT !.pc = "waiting"]
    /\ IF toStart # {} THEN Execute(IF "white" \in toStart THEN "white" ELSE "black", "setup")
       ELSE Execute(game.side, "go")
    /\ UNCHANGED <<server, collected, clientVars, wireVars, cacheVars>>

(* The database says that the assignment is no longer this one's, or a     *)
(* statement fails: before the game, around every move and at its end.     *)
AssignmentLost ==
    /\ game.pc \in {"toMove", "ending"}
    /\ game' = [game EXCEPT !.pc = "raised"]
    /\ UNCHANGED <<server, call, collected, clientVars, wireVars, cacheVars>>

FinishGame ==
    /\ \/ game.pc = "ending"
       \/ game.pc = "toMove" /\ ~MorePlies
    /\ game' = [game EXCEPT !.pc = "over"]
    /\ UNCHANGED <<server, call, collected, clientVars, wireVars, cacheVars>>

Ends(termination) == [game EXCEPT !.pc = "ending", !.termination = termination]

(* The clock is charged what the worker measured, not the round trip.      *)
ChargedTime_RoundTrip(m) == m.elapsed + 1
ChargedTime(m) == m.elapsed

(* run_next_move after the search.  Lines without a legal bestmove are an  *)
(* engine error whatever the clock says; otherwise the clock is stopped,   *)
(* and then the move counts, which may end the game by the rules.          *)
AfterSearch(m) ==
    LET tc == game.timeControl
        e == game.side
        charged == ChargedTime(m)
        searched == [game EXCEPT !.searches[e] = @ + 1,
                        !.spent[e] = IF Banks(tc) THEN @ + m.elapsed ELSE m.elapsed]
        moved == [searched EXCEPT !.clock[e] = StopClock(tc, @, charged)]
    IN  {Ends("engine error")} \cup
        (IF TimedOut(tc, game.clock[e], charged)
         THEN {[searched EXCEPT !.pc = "ending", !.termination = "timeout"]}
         ELSE {[moved EXCEPT !.pc = "ending", !.termination = "by the rules"],
               [moved EXCEPT !.pc = "toMove", !.side = Other(e), !.plies = @ + 1]})

(* What execute_engine_command returns to the thread, ...                  *)
Returns(m) ==
    /\ call' = NoCall
    /\ CASE call.what = "setup" -> game' = [game EXCEPT !.pc = "toMove", !.started = @ \cup {call.engine}]
         [] call.what = "go" -> game' \in AfterSearch(m)
         [] call.what = "quit" -> UNCHANGED game

(* ... and what it raises: an engine that cannot be started fails the      *)
(* assignment, a search that fails loses the game for the side to move.    *)
Raises ==
    /\ call' = NoCall
    /\ game' = CASE call.what = "setup" -> [game EXCEPT !.pc = "raised"]
                 [] call.what = "go" -> Ends("engine error")
                 [] call.what = "quit" -> game

-----------------------------------------------------------------------------
(* WorkerEngineTransport: a coroutine of the loop executes the command.    *)

SendCommand ==
    /\ call.state = "scheduled"
    /\ call' = [call EXCEPT !.state = "sent"]
    /\ SendToWorker([type |-> "engine_command", n |-> server.n, engine |-> call.engine,
                     id |-> call.id, what |-> call.what, elapsed |-> 0])
    /\ UNCHANGED <<server, game, collected, clientVars, cacheVars>>

(* _validate_engine_reply                                                  *)
Matches_AnyEngine(m) == m.n = server.n
Matches(m) == m.n = server.n /\ m.engine = call.engine

ReceiveInfo ==
    /\ call.state = "sent" /\ toServer # <<>>
    /\ Head(toServer).type = "engine_info" /\ Matches(Head(toServer))
    /\ toServer' = Tail(toServer)
    /\ UNCHANGED <<serverVars, clientVars, toWorker, socketOpen, cacheVars>>

ReceiveResult ==
    /\ call.state = "sent" /\ toServer # <<>>
    /\ Head(toServer).type = "engine_command_result" /\ Matches(Head(toServer))
    /\ Returns(Head(toServer))
    /\ toServer' = Tail(toServer)
    /\ UNCHANGED <<server, collected, clientVars, toWorker, socketOpen, cacheVars>>

(* assignment_failed, or a message that is not an answer.                  *)
ReceiveFailure ==
    /\ call.state = "sent" /\ toServer # <<>>
    /\ ~(/\ Head(toServer).type \in {"engine_info", "engine_command_result"}
         /\ Matches(Head(toServer)))
    /\ Raises
    /\ toServer' = Tail(toServer)
    /\ UNCHANGED <<server, collected, clientVars, toWorker, socketOpen, cacheVars>>

CommandCutOff ==
    /\ call.state \in {"scheduled", "sent"} /\ ~socketOpen
    /\ Raises
    /\ UNCHANGED <<server, collected, clientVars, wireVars, cacheVars>>

(* The thread is done, its objects are garbage in a cycle, the coroutine   *)
(* has not closed the transport yet, and a thread happens to run the       *)
(* collector: __del__ sends "quit" to an engine that was started and waits *)
(* for the answer.  If that thread is the loop's own, it waits for what    *)
(* only it could do, and nothing happens on the loop any more.             *)
Collect ==
    /\ game.pc = "over" /\ call.state = "none"
    /\ \E e \in game.started :
           /\ \/ Execute(e, "quit")
              \/ call' = [state |-> "blocking", engine |-> e, what |-> "quit", id |-> call.id]
           /\ game' = [game EXCEPT !.started = @ \ {e}]
    /\ collected' = TRUE
    /\ UNCHANGED <<server, clientVars, wireVars, cacheVars>>

-----------------------------------------------------------------------------
(* The worker: _serve_assignment.                                          *)

SendToServer(m) ==
    /\ socketOpen
    /\ toServer' = Append(toServer, m)

(* Leaving _serve_assignment closes every engine process, on every path.   *)
Closed_WhenComplete(pc) == [client EXCEPT !.pc = pc]
Closed(pc) == [client EXCEPT !.pc = pc, !.running = {}]

(* _ensure_process, then the line is written; "quit" closes the process.   *)
Handled(pc) ==
    [client EXCEPT !.pc = pc,
                   !.running = IF client.command.what = "quit"
                               THEN @ \ {client.command.engine}
                               ELSE @ \cup {client.command.engine}]

ReceiveAssignment ==
    /\ client.pc = "idle"
    /\ toWorker # <<>> /\ Head(toWorker).type = "assignment"
    /\ client' = [client EXCEPT !.pc = "preparing", !.n = Head(toWorker).n]
    /\ Begin(Preparation(Head(toWorker).n))
    /\ toWorker' = Tail(toWorker)
    /\ UNCHANGED <<serverVars, publisher, toServer, socketOpen>>

ReportReady ==
    /\ client.pc = "preparing"
    /\ \A p \in Preparation(client.n) : preparers[p] = "prepared"
    /\ client' = [client EXCEPT !.pc = "ready"]
    /\ SendToServer(Plain("assignment_ready", client.n))
    /\ UNCHANGED <<serverVars, publisher, toWorker, socketOpen, cacheVars>>

(* The first failure is reported; the other preparation goes on alone.     *)
ReportNotPrepared ==
    /\ client.pc = "preparing"
    /\ \E p \in Preparation(client.n) : preparers[p] = "failed"
    /\ client' = Closed("idle")
    /\ SendToServer(Plain("assignment_failed", client.n))
    /\ UNCHANGED <<serverVars, publisher, toWorker, socketOpen, cacheVars>>

ReceiveCommand ==
    /\ client.pc = "ready"
    /\ Reads(toWorker, "engine_command", client.n)
    /\ client' = [client EXCEPT !.pc = "working", !.command = Head(toWorker)]
    /\ publisher' = [latest |-> 0, sent |-> 0]
    /\ toWorker' = Tail(toWorker)
    /\ UNCHANGED <<serverVars, toServer, socketOpen, cacheVars>>

(* The engine prints an info line while it searches; the publisher keeps   *)
(* the latest only and sends it when its interval has passed.              *)
EmitInfo ==
    /\ client.pc = "working" /\ client.command.what = "go"
    /\ publisher.sent < bounds.infos /\ publisher.latest = 0
    /\ publisher' = [publisher EXCEPT !.latest = client.command.id]
    /\ UNCHANGED <<serverVars, client, wireVars, cacheVars>>

PublishInfo ==
    /\ publisher.latest # 0
    /\ publisher' = [latest |-> 0, sent |-> publisher.sent + 1]
    /\ SendToServer(Reply("engine_info", client.command, 0))
    /\ UNCHANGED <<serverVars, client, toWorker, socketOpen, cacheVars>>

(* The publisher's finish() and cancel() drop the line that still waits.   *)
Finished_LeavesLine == publisher
Finished == [publisher EXCEPT !.latest = 0]

(* The engine answers within the deadline: uciok, readyok or bestmove.     *)
AnswerCommand ==
    /\ client.pc = "working"
    /\ publisher' = Finished
    /\ client' = Handled("ready")
    /\ \E elapsed \in IF client.command.what = "go" THEN bounds.elapsed ELSE {0} :
           SendToServer(Reply("engine_command_result", client.command, elapsed))
    /\ UNCHANGED <<serverVars, toWorker, socketOpen, cacheVars>>

(* The process cannot be started, exits or misses the deadline.            *)
EngineFails_Silently ==
    /\ client.pc = "working"
    /\ publisher' = Finished
    /\ client' = Handled("failed")
    /\ UNCHANGED <<serverVars, wireVars, cacheVars>>
EngineFails ==
    /\ client.pc = "working"
    /\ publisher' = Finished
    /\ client' = Handled("failed")
    /\ SendToServer(Reply("assignment_failed", client.command, 0))
    /\ UNCHANGED <<serverVars, toWorker, socketOpen, cacheVars>>

(* _wait_for_failed_assignment_complete repeats the failure.               *)
RepeatFailure ==
    /\ client.pc = "failed"
    /\ Reads(toWorker, "engine_command", client.n)
    /\ toWorker' = Tail(toWorker)
    /\ SendToServer([Head(toWorker) EXCEPT !.type = "assignment_failed",
                                           !.engine = client.command.engine])
    /\ UNCHANGED <<serverVars, clientVars, socketOpen, cacheVars>>

ReceiveComplete ==
    /\ client.pc \in {"ready", "failed"}
    /\ Reads(toWorker, "assignment_complete", client.n)
    /\ client' = Closed("idle")
    /\ toWorker' = Tail(toWorker)
    /\ UNCHANGED <<serverVars, publisher, toServer, socketOpen, cacheVars>>

(* Any other message, or a lost connection, ends the connection here, and  *)
(* a protocol error the process.                                           *)
Understood(m) ==
    CASE client.pc = "idle" -> m.type = "assignment"
      [] client.pc \in {"ready", "failed"} ->
            m.type \in {"engine_command", "assignment_complete"} /\ m.n = client.n
      [] OTHER -> TRUE
ClientStops ==
    /\ client.pc # "dead"
    /\ ~socketOpen \/ (toWorker # <<>> /\ ~Understood(Head(toWorker)))
    /\ client' = Closed("dead")
    /\ publisher' = Finished
    /\ socketOpen' = FALSE
    /\ UNCHANGED <<serverVars, toWorker, toServer, cacheVars>>

(* The network fails.  What was sent may still be read, or may be lost.    *)
SocketCloses ==
    /\ socketOpen
    /\ socketOpen' = FALSE
    /\ UNCHANGED <<serverVars, clientVars, toWorker, toServer, cacheVars>>

(* The cache works for this worker's preparations and for other slots'.    *)
OtherSlots == IF bounds.others THEN {p \in Preparers : p[2] \notin Engines} ELSE {}
CacheStep ==
    /\ \/ \E p \in Preparers : Prepares(p) \/ LockFails(p)
       \/ \E p \in OtherSlots : Begin({p})
       \/ CooldownEnds \/ Damage \/ \E p \in Mortal : Dies(p)
    /\ mishaps' <= bounds.mishaps
    /\ UNCHANGED <<serverVars, clientVars, wireVars>>

-----------------------------------------------------------------------------
Serves == \/ Dispatch \/ ReceiveReady \/ ReceivePreparationFailed \/ BackoffOver
          \/ ReceiveUnexpected \/ EndSession \/ CompleteAssignment
Plays == RunNextMove \/ AssignmentLost \/ FinishGame
Transports == \/ SendCommand \/ ReceiveInfo \/ ReceiveResult \/ ReceiveFailure
              \/ CommandCutOff
Works == \/ ReceiveAssignment \/ ReportReady \/ ReportNotPrepared
         \/ ReceiveCommand \/ AnswerCommand \/ EngineFails \/ RepeatFailure
         \/ ReceiveComplete \/ ClientStops

Next == /\ \/ Serves \/ Plays \/ Transports \/ Works
           \/ Collect \/ EmitInfo \/ PublishInfo \/ SocketCloses \/ CacheStep
        /\ UNCHANGED bounds

Spec == Init /\ [][Next]_vars

(* Both event loops and the game thread run unless the collector blocks    *)
(* the server's, an engine answers or misses its deadline, and a           *)
(* preparation that holds the cache's lock goes on (its sockets have       *)
(* timeouts).                                                              *)
Fairness ==
    /\ WF_vars(Serves /\ UNCHANGED bounds) /\ WF_vars(Plays /\ UNCHANGED bounds)
    /\ WF_vars(Transports /\ UNCHANGED bounds) /\ WF_vars(Works /\ UNCHANGED bounds)
    /\ \A p \in Preparers :
           WF_vars(Prepares(p) /\ UNCHANGED <<bounds, serverVars, clientVars, wireVars>>)
FairSpec == Spec /\ Fairness

-----------------------------------------------------------------------------
(* Every record and every message keeps its shape.                         *)
TypeOK ==
    /\ CacheTypeOK
    /\ bounds \in Instances
    /\ server \in [pc : {"idle", "preparing", "backoff", "playing", "over"},
                   n : Nat]
    /\ game \in [pc : {"off", "toMove", "waiting", "ending", "over", "raised"},
                 side : Engines, plies : 0 .. bounds.plies, started : SUBSET Engines,
                 timeControl : bounds.timeControls, clock : [Engines -> Clock],
                 searches : [Engines -> Nat], spent : [Engines -> Nat],
                 termination : {"none", "timeout", "by the rules", "engine error"}]
    /\ call \in [state : {"none", "scheduled", "sent", "blocking"}, engine : Engines \cup {"any"},
                 what : {"none", "setup", "go", "quit"}, id : Nat]
    /\ client \in [pc : {"idle", "preparing", "ready", "working", "failed", "dead"},
                   n : Nat, command : Message, running : SUBSET Engines]
    /\ publisher \in [latest : Nat, sent : 0 .. bounds.infos]
    /\ toWorker \in Seq(Message) /\ toServer \in Seq(Message)
    /\ socketOpen \in BOOLEAN /\ collected \in BOOLEAN

(* The lines that a thread gets back are the answer to the very command it *)
(* gave, although a reply only names its assignment and its engine.        *)
RepliesAreItsOwn ==
    call.state = "sent" /\ toServer # <<>> /\ Matches(Head(toServer))
        => Head(toServer).id = call.id

(* As long as no engine object was collected between the end of its game   *)
(* and the close of its transport, neither end ever reads a message it     *)
(* does not expect: no "assignment mismatch", no "unexpected message", in  *)
(* whatever way the assignments before it ended.  And what the thread      *)
(* takes for a started engine is one, of this assignment.                  *)
InStep ==
    ~collected =>
        /\ server.pc = "preparing" /\ toServer # <<>> =>
               \E type \in {"assignment_ready", "assignment_failed"} :
                   Reads(toServer, type, server.n)
        /\ call.state = "sent" /\ toServer # <<>> =>
               Matches(Head(toServer)) /\ Head(toServer).id = call.id
        /\ toWorker # <<>> => Understood(Head(toWorker))
        /\ client.pc \in {"idle", "preparing", "dead"} => client.running = {}
        /\ client.pc \in {"ready", "working"} => game.started \subseteq client.running

(* test_game_does_not_charge_remote_round_trip_latency, over whole games:  *)
(* a side loses on time exactly when the time that the worker measured for *)
(* its searches, up to one that found a move, has used up what its time    *)
(* control gives it.                                                       *)
Budget(e) ==
    IF Banks(game.timeControl)
    THEN game.timeControl.initialTime + game.timeControl.increment * (game.searches[e] - 1)
    ELSE game.timeControl.moveTime
OutOfTime(e) ==
    /\ game.timeControl.category # "MOVENODES"
    /\ game.searches[e] > 0 /\ game.spent[e] >= Budget(e)
TimeoutsAreEarned ==
    game.pc \in {"toMove", "waiting", "ending", "over"} =>
        \A e \in Engines : OutOfTime(e) <=> (game.termination = "timeout" /\ e = game.side)

(* Every assignment that was sent is over some day: played, failed or cut  *)
(* off, and nobody waits for a message that does not come, whichever ends, *)
(* engines and connections fail on the way.  The one exception is a loop   *)
(* that waits for itself, because the collector ran on its thread in the   *)
(* wrong moment (engine_instance.py:370, worker_server.py:1043): then all  *)
(* workers of this server stand still until it is started again.           *)
AssignmentsAreOver ==
    \A n \in UNION {1 .. i.assignments : i \in Instances} :
        server.n = n ~> \/ server.n = n /\ server.pc \in {"idle", "backoff", "over"}
                        \/ LoopBlocked
=============================================================================
