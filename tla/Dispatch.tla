------------------------------- MODULE Dispatch -------------------------------
(***************************************************************************)
(* How games reach workers and results reach the database.                 *)
(*                                                                         *)
(* The rows of one tournament live in PostgreSQL and are written by four   *)
(* parties, each in short READ COMMITTED transactions:                     *)
(*   - the worker server's event loop: one coroutine per websocket         *)
(*     (cope/runner/worker_server.py), whose database calls are            *)
(*     synchronous, so that no other coroutine runs during one;            *)
(*   - the game threads that those coroutines wait for                     *)
(*     (run_worker_assignment_game in cope/runner/local.py);               *)
(*   - the scheduler's poll cycle (run_tournament_matches);                *)
(*   - the administrator's requests, served by the web process.            *)
(* A coroutine and the thread it waits for never run together, so they are *)
(* one process here, named by the session of its websocket.                *)
(*                                                                         *)
(* A transaction is one action when its row locks make it serializable     *)
(* with all the others, and one action per statement where another writer  *)
(* can commit in between and change the outcome: the end of a game, the    *)
(* administrator's read-then-write and the removal of a worker.            *)
(***************************************************************************)
EXTENDS Integers, FiniteSets, Sequences

CONSTANTS
    Games,        \* ids of the tournament's games, in playing order
    Workers,      \* registered workers
    Sessions,     \* bound: every session id the server ever hands out
    Keys,         \* bound: every assignment key the server ever hands out
    Admins,       \* bound: administrator requests in flight at once
    Concurrency,  \* the tournament's limit on simultaneous games
    MaxPly,       \* max_plies of an assignment
    MaxCrashes,   \* bound: how often the worker server dies
    Removable,    \* the workers an administrator may revoke or delete
    Overlapping,  \* the workers that may connect again while the server
                  \* still serves their previous session
    None          \* absent worker, session, key or game

ASSUME DispatchAssumption ==
    /\ Games \subseteq Nat /\ IsFiniteSet(Games)
    /\ Concurrency \in Nat /\ MaxPly \in Nat /\ MaxCrashes \in Nat
    /\ Removable \subseteq Workers /\ Overlapping \subseteq Workers
    /\ None \notin Workers \cup Sessions \cup Keys \cup Games

VARIABLES
    tournament,   \* tournaments.status
    games,        \* games.status of each game
    assignments,  \* the game_assignments row of each game
    moves,        \* the rows of the moves table: who played which ply
    workers,      \* workers.status and workers.session_id
    conns,        \* the coroutine (with its game thread) of each session
    issued,       \* assignment keys handed out so far
    admin,        \* the action each administrator request is about to write
    removal,      \* an uncommitted revoke_worker or delete_worker
    scheduler,    \* what the scheduler's open cycle is about to write
    serverUp,     \* the worker server's process is running
    crashes       \* how often it died

dbVars == <<tournament, games, assignments, moves, workers>>
vars == <<tournament, games, assignments, moves, workers, conns, issued,
          admin, removal, scheduler, serverUp, crashes>>

-----------------------------------------------------------------------------
TERMINAL_GAME_STATUSES == {"finished", "abandoned"}
ASSIGNABLE_WORKER_STATUSES == {"connected", "downloading", "ready", "busy"}
OPEN_GAME_STATUSES == {"assigned", "live"}
ACTIVE_ASSIGNMENT_STATUSES == {"assigned", "acked", "live"}

(* "deleted" stands for the absence of the row; 'expired', the status that *)
(* delete_worker writes, is folded into 'abandoned': both are inactive.    *)
WorkerRow == [status : ASSIGNABLE_WORKER_STATUSES \cup {"offline", "deleted"},
              session : Sessions \cup {None}]
AssignmentRow ==
    [key : Keys \cup {None}, worker : Workers \cup {None},
     status : ACTIVE_ASSIGNMENT_STATUSES \cup {"none", "finished", "abandoned"}]
Move == [ply : 1 .. MaxPly, by : Keys]

(* Where a coroutine is.  Between LoopBusy points it awaits nothing.       *)
LoopBusy == {"authenticated", "claimed", "acked"}
ThreadAt == {"start", "marking", "playing", "recording", "ending",
             "finishing", "committing", "failed"}
Holding == ThreadAt \cup {"claimed", "offered", "acked"}
PC == Holding \cup {"unused", "authenticated", "idle", "closed"}
Conn == [worker : Workers \cup {None}, pc : PC, open : BOOLEAN,
         game : Games \cup {None}, key : Keys \cup {None},
         board : SUBSET Move, verdict : {"none", "finished", "aborted"}]

NoConn(pc) == [worker |-> None, pc |-> pc, open |-> FALSE, game |-> None,
               key |-> None, board |-> {}, verdict |-> "none"]
NoRemoval == [stage |-> "none", worker |-> None, games |-> {}, rows |-> {}]
At(s, pc) == conns' = [conns EXCEPT ![s].pc = pc]
Idle(s) == conns' = [conns EXCEPT ![s] =
    [NoConn("idle") EXCEPT !.worker = conns[s].worker, !.open = conns[s].open]]

Active(g) == assignments[g].status \in ACTIVE_ASSIGNMENT_STATUSES
OpenGames == {g \in Games : games[g] \in OPEN_GAME_STATUSES}

(* Row locks that an open transaction holds on a game or its assignment.   *)
GameLocked(g) ==
    \/ \E s \in Sessions : conns[s].game = g /\ conns[s].pc \in {"finishing", "committing"}
    \/ g \in removal.games
AssignmentLocked(g) ==
    \/ \E s \in Sessions : conns[s].game = g /\ conns[s].pc = "committing"
    \/ g \in removal.rows

(* No other coroutine is between two database calls of one loop turn.      *)
LoopFree(s) == serverUp /\ \A o \in Sessions \ {s} : conns[o].pc \notin LoopBusy

-----------------------------------------------------------------------------
(* The effects of the repository's multi-row updates.                      *)

(* _release_worker_active_assignments for every worker of W.               *)
HeldBy(W) == {g \in Games : Active(g) /\ assignments[g].worker \in W}
GamesReleased(R) ==
    [g \in Games |-> IF g \in R /\ games[g] \in OPEN_GAME_STATUSES
                     THEN "pending" ELSE games[g]]
AssignmentsReleased_KeepsActive(R) ==
    [g \in Games |-> IF g \in R THEN [assignments[g] EXCEPT !.worker = None]
                     ELSE assignments[g]]
AssignmentsReleased(R) ==
    [g \in Games |-> IF g \in R
                     THEN [assignments[g] EXCEPT !.status = "abandoned",
                                                 !.worker = None]
                     ELSE assignments[g]]

(* _abandon_tournament_games, on the game statuses gs.                     *)
GamesAbandoned(gs) ==
    [g \in Games |-> IF gs[g] = "finished" THEN "finished" ELSE "abandoned"]
AssignmentsAbandoned(as, gs) ==
    [g \in Games |-> IF /\ as[g].status \in ACTIVE_ASSIGNMENT_STATUSES
                        /\ gs[g] # "finished"
                     THEN [as[g] EXCEPT !.status = "abandoned"]
                     ELSE as[g]]

(* set_tournament_status on rows whose other columns became gs and as.     *)
SetTournamentStatus(status, gs, as) ==
    /\ tournament' = status
    /\ games' = IF status = "aborted" THEN GamesAbandoned(gs) ELSE gs
    /\ assignments' = IF status = "aborted" THEN AssignmentsAbandoned(as, gs) ELSE as

(* _finish_tournament_if_complete for a schedule whose games all exist     *)
(* (round robin and gauntlet): what it decides about the game statuses gs. *)
Verdict(status, gs) ==
    IF \/ status # "running" \/ Games = {}
       \/ \E g \in Games : gs[g] \notin TERMINAL_GAME_STATUSES
    THEN "none"
    ELSE IF \E g \in Games : gs[g] = "abandoned" THEN "aborted" ELSE "finished"

-----------------------------------------------------------------------------
Init ==
    /\ tournament = "scheduled"
    /\ games = [g \in Games |-> "pending"]
    /\ assignments = [g \in Games |-> [key |-> None, worker |-> None, status |-> "none"]]
    /\ moves = [g \in Games |-> {}]
    /\ workers = [w \in Workers |-> [status |-> "offline", session |-> None]]
    /\ conns = [s \in Sessions |-> NoConn("unused")]
    /\ issued = {}
    /\ admin = [a \in Admins |-> "none"]
    /\ removal = NoRemoval
    /\ scheduler = "idle"
    /\ serverUp = TRUE
    /\ crashes = 0

-----------------------------------------------------------------------------
(* Connections.                                                            *)

(* _authenticate_worker: the credential names a worker row that exists.    *)
Authenticate(w, s) ==
    /\ LoopFree(s)
    /\ conns[s].pc = "unused"
    /\ workers[w].status # "deleted"
    /\ w \in Overlapping \/ \A o \in Sessions : conns[o].worker # w
    /\ conns' = [conns EXCEPT ![s] = [NoConn("authenticated") EXCEPT
                                         !.worker = w, !.open = TRUE]]
    /\ UNCHANGED <<dbVars, issued, admin, removal, scheduler, serverUp, crashes>>

(* _record_connection: what the previous session held is released, then    *)
(* the row gets the new session.  upsert_worker_connection INSERTs the row *)
(* again when it was removed since _authenticate_worker read it.           *)
ReleasedOnConnect_Nothing(w) == {}
ReleasedOnConnect(w) == HeldBy({w})
RecordConnection(s) ==
    LET w == conns[s].worker
        R == ReleasedOnConnect(w)
    IN  /\ serverUp /\ conns[s].pc = "authenticated"
        /\ \A g \in R : ~GameLocked(g) /\ ~AssignmentLocked(g)
        /\ games' = GamesReleased(R)
        /\ assignments' = AssignmentsReleased(R)
        /\ workers' = [workers EXCEPT ![w] = [status |-> "connected", session |-> s]]
        /\ At(s, "idle")
        /\ UNCHANGED <<tournament, moves, issued, admin, removal, scheduler,
                       serverUp, crashes>>

SessionCurrent(s) == workers[conns[s].worker].session = s

(* _record_worker_disconnected, once the coroutine has nothing to serve:   *)
(* its websocket closed, or a call found its session superseded.           *)
Disconnect(s) ==
    LET w == conns[s].worker
        R == IF SessionCurrent(s) THEN HeldBy({w}) ELSE {}
    IN  /\ LoopFree(s) /\ conns[s].pc = "idle"
        /\ ~conns[s].open \/ ~SessionCurrent(s)
        /\ \A g \in R : ~GameLocked(g) /\ ~AssignmentLocked(g)
        /\ games' = GamesReleased(R)
        /\ assignments' = AssignmentsReleased(R)
        /\ workers' = IF SessionCurrent(s)
                      THEN [workers EXCEPT ![w].status = "offline"] ELSE workers
        /\ conns' = [conns EXCEPT ![s] = NoConn("closed")]
        /\ UNCHANGED <<tournament, moves, issued, admin, removal, scheduler,
                       serverUp, crashes>>

(* The peer or the network closes the websocket at any time.               *)
SocketCloses(s) ==
    /\ serverUp /\ conns[s].open
    /\ conns' = [conns EXCEPT ![s].open = FALSE]
    /\ UNCHANGED <<dbVars, issued, admin, removal, scheduler, serverUp, crashes>>

-----------------------------------------------------------------------------
(* Claiming and preparing an assignment.                                   *)

(* _validate_assignable_worker.                                            *)
Assignable(s) ==
    /\ SessionCurrent(s)
    /\ workers[conns[s].worker].status \in ASSIGNABLE_WORKER_STATUSES

(* _next_playable_game: the first pending one.                             *)
NextPlayable(g) ==
    games[g] = "pending" /\ \A h \in Games : h < g => games[h] # "pending"

(* The tournament has a free slot.                                         *)
SlotFree_CountsLive == Cardinality({g \in Games : games[g] = "live"}) < Concurrency
SlotFree == Cardinality(OpenGames) < Concurrency

(* next_worker_assignment and assign_game_to_worker.  The tournament's     *)
(* worker profile is taken to fit every worker.                            *)
Claim(s, g, k) ==
    /\ LoopFree(s) /\ conns[s].pc = "idle" /\ conns[s].open
    /\ Assignable(s)
    /\ tournament = "running"
    /\ SlotFree
    /\ NextPlayable(g) /\ ~GameLocked(g) /\ ~AssignmentLocked(g)
    /\ k \notin issued
    /\ issued' = issued \cup {k}
    /\ games' = [games EXCEPT ![g] = "assigned"]
    /\ assignments' = [assignments EXCEPT ![g] =
                          [key |-> k, worker |-> conns[s].worker, status |-> "assigned"]]
    /\ conns' = [conns EXCEPT ![s].pc = "claimed", ![s].game = g, ![s].key = k]
    /\ UNCHANGED <<tournament, moves, workers, admin, removal, scheduler,
                   serverUp, crashes>>

(* _record_worker_status(status) writes only the current session's row.    *)
RecordStatus(s, status) ==
    workers' = IF SessionCurrent(s)
               THEN [workers EXCEPT ![conns[s].worker].status = status] ELSE workers

(* The claim found nothing (or the empty-claim cache said so).             *)
NoAssignment(s) ==
    /\ LoopFree(s) /\ conns[s].pc = "idle" /\ conns[s].open
    /\ SessionCurrent(s)
    /\ workers[conns[s].worker].status # "ready"
    /\ RecordStatus(s, "ready")
    /\ UNCHANGED <<tournament, games, assignments, moves, conns, issued, admin,
                   removal, scheduler, serverUp, crashes>>

(* The assignment is sent only after the row says "downloading".           *)
RecordDownloading(s) ==
    /\ serverUp /\ conns[s].pc = "claimed"
    /\ RecordStatus(s, "downloading")
    /\ At(s, IF SessionCurrent(s) THEN "offered" ELSE "failed")
    /\ UNCHANGED <<tournament, games, assignments, moves, issued, admin,
                   removal, scheduler, serverUp, crashes>>

(* acknowledge_game_assignment, when the worker answers assignment_ready.  *)
Acknowledge(s) ==
    LET g == conns[s].game
        awaited == /\ assignments[g].key = conns[s].key
                   /\ assignments[g].status \in {"assigned", "acked"}
    IN  /\ LoopFree(s) /\ conns[s].pc = "offered" /\ conns[s].open
        /\ ~AssignmentLocked(g)
        /\ assignments' = IF awaited THEN [assignments EXCEPT ![g].status = "acked"]
                          ELSE assignments
        /\ At(s, IF awaited THEN "acked" ELSE "failed")
        /\ UNCHANGED <<tournament, games, moves, workers, issued, admin, removal,
                       scheduler, serverUp, crashes>>

(* The row says "busy", and a thread starts the game.                      *)
RecordBusy(s) ==
    /\ serverUp /\ conns[s].pc = "acked"
    /\ RecordStatus(s, "busy")
    /\ At(s, IF SessionCurrent(s) THEN "start" ELSE "failed")
    /\ UNCHANGED <<tournament, games, assignments, moves, issued, admin,
                   removal, scheduler, serverUp, crashes>>

(* assignment_failed, a protocol error or a closed websocket instead.      *)
PreparationFails(s) ==
    /\ serverUp /\ conns[s].pc = "offered"
    /\ At(s, "failed")
    /\ UNCHANGED <<dbVars, issued, admin, removal, scheduler, serverUp, crashes>>

(* fail_game_assignment, then the coroutine goes on with its session.      *)
FailAssignment(s) ==
    LET g == conns[s].game
        own == assignments[g].key = conns[s].key
    IN  /\ LoopFree(s) /\ conns[s].pc = "failed"
        /\ ~GameLocked(g) /\ ~AssignmentLocked(g)
        /\ assignments' = IF own /\ Active(g)
                          THEN [assignments EXCEPT ![g].status = "abandoned"]
                          ELSE assignments
        /\ games' = IF own THEN GamesReleased({g}) ELSE games
        /\ Idle(s)
        /\ UNCHANGED <<tournament, moves, workers, issued, admin, removal,
                       scheduler, serverUp, crashes>>

-----------------------------------------------------------------------------
(* A game thread: run_worker_assignment_game.                              *)

(* _validated_assignment_record.                                           *)
ValidAssignment_AnyStatus(s) == assignments[conns[s].game].key = conns[s].key
ValidAssignment(s) ==
    /\ assignments[conns[s].game].key = conns[s].key
    /\ Active(conns[s].game)

ThreadStep(s, pc) ==
    /\ serverUp /\ conns[s].pc = pc
    /\ UNCHANGED <<issued, admin, removal, scheduler, serverUp, crashes>>

(* A statement raises: the transaction is rolled back and the coroutine    *)
(* sees the exception.  PostgreSQL raises one on a deadlock victim too.    *)
ThreadFails_Unreported(s) ==
    /\ \E pc \in ThreadAt \ {"failed"} : ThreadStep(s, pc)
    /\ Idle(s)
    /\ UNCHANGED dbVars
ThreadFails(s) ==
    /\ \E pc \in ThreadAt \ {"failed"} : ThreadStep(s, pc)
    /\ At(s, "failed")
    /\ UNCHANGED dbVars

(* The assignment is valid, the game not over: replay the recorded moves.  *)
StartGame(s) ==
    LET g == conns[s].game IN
    /\ ThreadStep(s, "start")
    /\ ValidAssignment(s) /\ games[g] \notin TERMINAL_GAME_STATUSES
    /\ conns' = [conns EXCEPT ![s].pc = "marking", ![s].board = moves[g]]
    /\ UNCHANGED dbVars

(* mark_worker_assignment_live, the check behind it and the commit: the    *)
(* update locks the assignment's row, so nothing changes it before commit. *)
MarkLive(s) ==
    LET g == conns[s].game IN
    /\ ThreadStep(s, "marking")
    /\ ValidAssignment(s) /\ ~GameLocked(g) /\ ~AssignmentLocked(g)
    /\ assignments' = [assignments EXCEPT ![g].status = "live"]
    /\ games' = [games EXCEPT ![g] = "live"]
    /\ At(s, "playing")
    /\ UNCHANGED <<tournament, moves, workers>>

(* An engine finds a move and the assignment is still valid after it.  A   *)
(* search needs the websocket: without it the engine "errs" and loses.     *)
BelowMaxPlies_AtMost(s) == Cardinality(conns[s].board) <= MaxPly
BelowMaxPlies(s) == Cardinality(conns[s].board) < MaxPly
FindMove(s) ==
    /\ ThreadStep(s, "playing")
    /\ conns[s].open /\ BelowMaxPlies(s)
    /\ ValidAssignment(s)
    /\ At(s, "recording")
    /\ UNCHANGED dbVars

(* record_move and its commit; (game_id, ply) is the table's primary key.  *)
PlyFree_Always(g, ply) == TRUE
PlyFree(g, ply) == \A m \in moves[g] : m.ply # ply
NextPly_OfTheTable(s) == Cardinality(moves[conns[s].game]) + 1
NextPly(s) == Cardinality(conns[s].board) + 1
RecordMove(s) ==
    LET g == conns[s].game
        ply == NextPly(s)
        move == [ply |-> ply, by |-> conns[s].key]
    IN  /\ ThreadStep(s, "recording")
        /\ PlyFree(g, ply)
        /\ moves' = [moves EXCEPT ![g] = @ \cup {move}]
        /\ conns' = [conns EXCEPT ![s].pc = "playing", ![s].board = @ \cup {move}]
        /\ UNCHANGED <<tournament, games, assignments, workers>>

(* The game is over (by the rules, adjudication, a lost engine or the ply  *)
(* limit), and the assignment is valid when the thread looks a last time.  *)
EndGame(s) ==
    /\ ThreadStep(s, "playing")
    /\ ValidAssignment(s)
    /\ At(s, "ending")
    /\ UNCHANGED dbVars

(* finish_game, by id alone: the row is locked until commit.               *)
FinishGame(s) ==
    /\ ThreadStep(s, "ending")
    /\ ~GameLocked(conns[s].game)
    /\ At(s, "finishing")
    /\ UNCHANGED dbVars

(* finish_game_assignment locks the assignment's row, then the thread      *)
(* judges the tournament by its own write and what others have committed.  *)
JudgeTournament(s) ==
    LET g == conns[s].game IN
    /\ ThreadStep(s, "finishing")
    /\ ~AssignmentLocked(g)
    /\ conns' = [conns EXCEPT ![s].pc = "committing",
                    ![s].verdict = Verdict(tournament, [games EXCEPT ![g] = "finished"])]
    /\ UNCHANGED dbVars

(* The game's end becomes visible, with the tournament's if judged so.     *)
CommitGame(s) ==
    LET g == conns[s].game
        gs == [games EXCEPT ![g] = "finished"]
        as == IF assignments[g].key = conns[s].key
              THEN [assignments EXCEPT ![g].status = "finished"] ELSE assignments
        verdict == conns[s].verdict
    IN  /\ ThreadStep(s, "committing")
        /\ verdict = "aborted" => \A h \in Games \ {g} : ~GameLocked(h) /\ ~AssignmentLocked(h)
        /\ IF verdict = "none" THEN tournament' = tournament /\ games' = gs /\ assignments' = as
           ELSE SetTournamentStatus(verdict, gs, as)
        /\ Idle(s)
        /\ UNCHANGED <<moves, workers>>

-----------------------------------------------------------------------------
(* The administrator, the scheduler and the process's death.               *)

(* TOURNAMENT_ACTIONS, without the draft's: the games exist from here on.  *)
TOURNAMENT_ACTIONS(status) ==
    CASE status \in {"scheduled", "running"} -> {"paused", "aborted"}
      [] status = "paused" -> {"scheduled", "aborted"}
      [] OTHER -> {}

(* _change_tournament_status reads the status and checks the action, ...   *)
AdminReads(a) ==
    /\ admin[a] = "none"
    /\ \E target \in TOURNAMENT_ACTIONS(tournament) :
           admin' = [admin EXCEPT ![a] = target]
    /\ UNCHANGED <<dbVars, conns, issued, removal, scheduler, serverUp, crashes>>

(* ... then writes by id alone, whatever the status has become.            *)
AdminWrites(a) ==
    /\ admin[a] # "none"
    /\ admin[a] = "aborted" =>
           \A g \in Games : ~GameLocked(g) /\ ~AssignmentLocked(g)
    /\ SetTournamentStatus(admin[a], games, assignments)
    /\ admin' = [admin EXCEPT ![a] = "none"]
    /\ UNCHANGED <<moves, workers, conns, issued, removal, scheduler, serverUp, crashes>>

(* revoke_worker and delete_worker: UPDATE games, UPDATE game_assignments, *)
(* DELETE.  A claim of this worker can commit between any two of them: it  *)
(* only shares a key lock on the worker's row, which the DELETE waits for. *)
RemoveGames(w) ==
    LET R == {g \in HeldBy({w}) : games[g] \in OPEN_GAME_STATUSES} IN
    /\ removal.stage = "none" /\ workers[w].status # "deleted"
    /\ \A g \in R : ~GameLocked(g)
    /\ removal' = [stage |-> "games", worker |-> w, games |-> R, rows |-> {}]
    /\ UNCHANGED <<dbVars, conns, issued, admin, scheduler, serverUp, crashes>>

RowsToRelease_None == {}
RowsToRelease == HeldBy({removal.worker})
RemoveAssignments ==
    LET R == RowsToRelease IN
    /\ removal.stage = "games"
    /\ \A g \in R : ~AssignmentLocked(g)
    /\ removal' = [removal EXCEPT !.stage = "assignments", !.rows = R]
    /\ UNCHANGED <<dbVars, conns, issued, admin, scheduler, serverUp, crashes>>

(* The DELETE and the commit; worker_id is ON DELETE SET NULL.             *)
RemoveRow ==
    /\ removal.stage = "assignments"
    /\ games' = GamesReleased(removal.games)
    /\ assignments' =
           [g \in Games |->
               IF assignments[g].worker = removal.worker
               THEN [AssignmentsReleased(removal.rows)[g] EXCEPT !.worker = None]
               ELSE assignments[g]]
    /\ workers' = [workers EXCEPT ![removal.worker] =
                       [status |-> "deleted", session |-> None]]
    /\ removal' = NoRemoval
    /\ UNCHANGED <<tournament, moves, conns, issued, admin, scheduler, serverUp, crashes>>

(* run_tournament_matches reads what its cycle will act on, ...            *)
SchedulerReads_PreparesOnly ==
    /\ scheduler = "idle" /\ tournament = "scheduled"
    /\ scheduler' = "prepare"
    /\ UNCHANGED <<dbVars, conns, issued, admin, removal, serverUp, crashes>>
SchedulerReads ==
    /\ scheduler = "idle"
    /\ scheduler' = IF tournament = "scheduled" THEN "prepare"
                    ELSE Verdict(tournament, games)
    /\ scheduler' # "none"
    /\ UNCHANGED <<dbVars, conns, issued, admin, removal, serverUp, crashes>>

(* ... then prepare_tournament makes a scheduled one "running" (and judges *)
(* it at once), or the verdict on a running one is written.                *)
SchedulerWrites ==
    LET judged == IF scheduler # "prepare" THEN scheduler
                  ELSE IF Verdict("running", games) = "none" THEN "running"
                  ELSE Verdict("running", games)
    IN  /\ scheduler # "idle"
        /\ judged = "aborted" => \A g \in Games : ~GameLocked(g) /\ ~AssignmentLocked(g)
        /\ SetTournamentStatus(judged, games, assignments)
        /\ scheduler' = "idle"
        /\ UNCHANGED <<moves, workers, conns, issued, admin, removal, serverUp, crashes>>

(* The worker server dies: its coroutines, threads and open transactions   *)
(* are gone.                                                               *)
Crash ==
    /\ serverUp /\ crashes < MaxCrashes
    /\ serverUp' = FALSE /\ crashes' = crashes + 1
    /\ conns' = [s \in Sessions |-> IF conns[s].pc = "unused" THEN conns[s]
                                    ELSE NoConn("closed")]
    /\ UNCHANGED <<dbVars, issued, admin, removal, scheduler>>

(* reset_orphaned_worker_connections, before the server listens again.     *)
OrphanedWorkers_None == {}
OrphanedWorkers == {w \in Workers : workers[w].status \in ASSIGNABLE_WORKER_STATUSES}
Restart ==
    LET R == HeldBy(OrphanedWorkers) IN
    /\ ~serverUp
    /\ \A g \in R : ~GameLocked(g) /\ ~AssignmentLocked(g)
    /\ serverUp' = TRUE
    /\ games' = GamesReleased(R)
    /\ assignments' = AssignmentsReleased(R)
    /\ workers' = [w \in Workers |-> IF w \in OrphanedWorkers
                                     THEN [workers[w] EXCEPT !.status = "offline"]
                                     ELSE workers[w]]
    /\ UNCHANGED <<tournament, moves, conns, issued, admin, removal, scheduler, crashes>>

-----------------------------------------------------------------------------
Connects(s) == (\E w \in Workers : Authenticate(w, s)) \/ RecordConnection(s)
Prepares(s) == \/ RecordDownloading(s) \/ Acknowledge(s) \/ RecordBusy(s)
               \/ PreparationFails(s) \/ FailAssignment(s)
Plays(s) == \/ StartGame(s) \/ MarkLive(s) \/ FindMove(s) \/ RecordMove(s)
            \/ EndGame(s) \/ FinishGame(s) \/ JudgeTournament(s) \/ CommitGame(s)
            \/ ThreadFails(s)

Next ==
    \/ \E s \in Sessions :
          \/ Connects(s) \/ Disconnect(s) \/ SocketCloses(s)
          \/ (\E g \in Games, k \in Keys : Claim(s, g, k)) \/ NoAssignment(s)
          \/ Prepares(s) \/ Plays(s)
    \/ \E a \in Admins : AdminReads(a) \/ AdminWrites(a)
    \/ (\E w \in Removable : RemoveGames(w)) \/ RemoveAssignments \/ RemoveRow
    \/ SchedulerReads \/ SchedulerWrites
    \/ Crash \/ Restart

Spec == Init /\ [][Next]_vars

(* A coroutine that can take its next step does: the loop and the threads  *)
(* are scheduled, a worker's answer is awaited behind websocket pings that *)
(* close a dead connection, every engine search has a deadline, and a      *)
(* process supervisor restarts the server.  Nobody must connect, and no    *)
(* administrator must act, but a request that read the status goes on.     *)
Fairness ==
    /\ \A s \in Sessions : /\ WF_vars(RecordConnection(s)) /\ SF_vars(Disconnect(s))
                           /\ SF_vars(Prepares(s)) /\ WF_vars(Plays(s))
    /\ WF_vars(\E a \in Admins : AdminWrites(a))
    /\ WF_vars(RemoveAssignments) /\ WF_vars(RemoveRow)
    /\ WF_vars(SchedulerReads) /\ WF_vars(SchedulerWrites)
    /\ WF_vars(Restart)

FairSpec == Spec /\ Fairness

-----------------------------------------------------------------------------
(* Every column and every local variable keeps its domain; in particular   *)
(* no move is recorded beyond max_plies.                                   *)
TypeOK ==
    /\ tournament \in {"scheduled", "running", "paused", "finished", "aborted"}
    /\ games \in [Games -> OPEN_GAME_STATUSES \cup TERMINAL_GAME_STATUSES \cup {"pending"}]
    /\ assignments \in [Games -> AssignmentRow]
    /\ moves \in [Games -> SUBSET Move]
    /\ workers \in [Workers -> WorkerRow]
    /\ conns \in [Sessions -> Conn]
    /\ issued \subseteq Keys
    /\ admin \in [Admins -> {"none", "paused", "scheduled", "aborted"}]
    /\ removal \in [stage : {"none", "games", "assignments"},
                    worker : Workers \cup {None}, games : SUBSET Games, rows : SUBSET Games]
    /\ scheduler \in {"idle", "prepare", "finished", "aborted"}
    /\ serverUp \in BOOLEAN
    /\ crashes \in 0 .. MaxCrashes

(* Whoever releases a game, whatever races with it: a game that can be     *)
(* claimed has no active assignment that somebody could still act on.      *)
PendingGamesAreFree == \A g \in Games : games[g] = "pending" => ~Active(g)

(* While the server runs, a game that is assigned or live has a coroutine  *)
(* that holds the key of its assignment, and so will finish or fail it.    *)
(* (After a removal that raced a claim and then a crash, nobody has.)      *)
Holds(s, g) == /\ conns[s].pc \in Holding /\ conns[s].game = g
               /\ conns[s].key = assignments[g].key
OpenGamesAreHeld ==
    serverUp /\ (crashes = 0 \/ Removable = {}) =>
        \A g \in OpenGames : \E s \in Sessions : Holds(s, g)

(* A worker is never given a second game while it still has one, however   *)
(* often it reconnects: its threads and memory are reserved once.          *)
OneGamePerWorker ==
    \A g, h \in Games :
        /\ Active(g) /\ Active(h) /\ assignments[g].worker = assignments[h].worker
        => g = h \/ assignments[g].worker = None

(* The recorded moves are one line of play, however often the game was     *)
(* reassigned and whoever still plays it: every ply up to the last exactly *)
(* once, and a thread's board shows recorded moves only.                   *)
OneLineOfPlay ==
    /\ \A g \in Games : \A m, n \in moves[g] : m.ply = n.ply => m = n
    /\ \A g \in Games : \A m \in moves[g] : \A p \in 1 .. m.ply :
           \E n \in moves[g] : n.ply = p
    /\ \A s \in Sessions : conns[s].game # None => conns[s].board \subseteq moves[conns[s].game]

(* The moves table as the list of who played each ply: the games keep what *)
(* Scoresheet promises.  In particular an assignment that was passed on    *)
(* never writes a ply behind one of its successor.                         *)
score == [g \in Games |->
             [p \in 1 .. Cardinality(moves[g]) |->
                 (CHOOSE m \in moves[g] : m.ply = p).by]]
Sheet == INSTANCE Scoresheet WITH score <- score, issued <- issued
MovesAreAppended == Sheet!Spec

(* A thread whose game was passed on, because its worker connected again   *)
(* or was removed, may end the game under its successor, which then marks  *)
(* it live once more (TerminalGamesStayTerminal): what follows is about    *)
(* tournaments whose workers do neither.                                   *)
NobodySuperseded == Overlapping = {} /\ Removable = {}

(* An aborted tournament plays no more: nothing is pending, assigned or    *)
(* live in it and no assignment is active, whoever aborted it and whatever *)
(* the game threads were about to write.                                   *)
AbortedStopsPlay ==
    NobodySuperseded /\ tournament = "aborted" =>
        \A g \in Games : games[g] \in TERMINAL_GAME_STATUSES /\ ~Active(g)

(* next_worker_assignment counts the open games and then opens one more,   *)
(* with game threads committing ends of games in between.                  *)
ConcurrencyRespected == NobodySuperseded => Cardinality(OpenGames) <= Concurrency

(* "game ... is already finished": a game that ended keeps its status.     *)
TerminalGamesStayTerminal ==
    [][\A g \in Games : games[g] \in TERMINAL_GAME_STATUSES => games'[g] = games[g]]_vars

(* Every assignment is over some day: finished, failed or released.        *)
AssignmentsEnd ==
    \A g \in Games, k \in Keys :
        Active(g) /\ assignments[g].key = k ~> ~(Active(g) /\ assignments[g].key = k)

(* Two games that end together each see the other one open and neither     *)
(* ends the tournament; somebody does all the same.                        *)
PlayedTournamentsEnd ==
    tournament = "running" /\ OpenGames = {} /\ (\A g \in Games : games[g] # "pending")
        ~> tournament # "running"
=============================================================================
