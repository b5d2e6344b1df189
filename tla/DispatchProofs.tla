---------------------------- MODULE DispatchProofs ----------------------------
(***************************************************************************)
(* Proofs about Dispatch, for every set of games, workers, sessions, keys  *)
(* and administrators: the rows of games and assignments, then the lines   *)
(* of play and what an overtaken thread may still write.                   *)
(***************************************************************************)
EXTENDS Dispatch, FiniteSetTheorems, SequenceTheorems, TLAPS

GameStatus == OPEN_GAME_STATUSES \cup TERMINAL_GAME_STATUSES \cup {"pending"}

-----------------------------------------------------------------------------
(* What the helpers of Dispatch do to the rows and the coroutines.         *)

(* A coroutine that has nothing to serve is a well-formed coroutine.       *)
LEMMA NoConnType ==
    ASSUME NEW pc \in PC
    PROVE  NoConn(pc) \in Conn
BY DEF NoConn, Conn

(* Moving a coroutine on changes its place and nothing else.               *)
LEMMA AtEffect ==
    ASSUME TypeOK, NEW s \in Sessions, NEW pc \in PC, At(s, pc)
    PROVE  /\ conns' \in [Sessions -> Conn]
           /\ \A o \in Sessions \ {s} : conns'[o] = conns[o]
           /\ conns'[s] = [conns[s] EXCEPT !.pc = pc]
           /\ conns'[s].pc = pc /\ conns'[s].board = conns[s].board
           /\ conns'[s].game = conns[s].game /\ conns'[s].key = conns[s].key
           /\ conns'[s].worker = conns[s].worker
<1>1. /\ conns' \in [Sessions -> Conn]
      /\ \A o \in Sessions \ {s} : conns'[o] = conns[o]
      /\ conns'[s] = [conns[s] EXCEPT !.pc = pc]
  BY DEF TypeOK, At, Conn
<1>2. conns[s] \in Conn
  BY DEF TypeOK
<1> QED BY <1>1, <1>2 DEF Conn

(* A coroutine that is done with its assignment keeps only its socket.     *)
LEMMA IdleEffect ==
    ASSUME TypeOK, NEW s \in Sessions, Idle(s)
    PROVE  /\ conns' \in [Sessions -> Conn]
           /\ \A o \in Sessions \ {s} : conns'[o] = conns[o]
           /\ conns'[s] = [NoConn("idle") EXCEPT !.worker = conns[s].worker,
                                                 !.open = conns[s].open]
BY DEF TypeOK, Idle, NoConn, Conn, PC

(* Releasing games leaves them and their assignments well-formed.          *)
LEMMA ReleaseType ==
    ASSUME TypeOK, NEW R
    PROVE  /\ GamesReleased(R) \in [Games -> GameStatus]
           /\ AssignmentsReleased(R) \in [Games -> AssignmentRow]
BY DEF TypeOK, GamesReleased, AssignmentsReleased, GameStatus, AssignmentRow

(* So does a change of the tournament's status.                            *)
LEMMA StatusType ==
    ASSUME NEW status, NEW gs \in [Games -> GameStatus],
           NEW as \in [Games -> AssignmentRow],
           SetTournamentStatus(status, gs, as)
    PROVE  /\ tournament' = status
           /\ games' \in [Games -> GameStatus]
           /\ assignments' \in [Games -> AssignmentRow]
BY DEF SetTournamentStatus, GamesAbandoned, AssignmentsAbandoned, GameStatus,
       TERMINAL_GAME_STATUSES, AssignmentRow

LEMMA VerdictType ==
    ASSUME NEW status, NEW gs
    PROVE  Verdict(status, gs) \in {"none", "finished", "aborted"}
BY DEF Verdict

LEMMA AssignmentStatusType ==
    ASSUME TypeOK, NEW g,
           NEW status \in ACTIVE_ASSIGNMENT_STATUSES \cup {"finished", "abandoned"}
    PROVE  [assignments EXCEPT ![g].status = status] \in [Games -> AssignmentRow]
<1>1. \A h \in Games : assignments[h] \in AssignmentRow
  BY DEF TypeOK
<1>2. \A h \in Games : [assignments[h] EXCEPT !.status = status] \in AssignmentRow
  BY <1>1 DEF AssignmentRow
<1> QED BY <1>1, <1>2 DEF TypeOK

LEMMA WorkerStatusType ==
    ASSUME TypeOK, NEW w, NEW status \in ASSIGNABLE_WORKER_STATUSES \cup {"offline"}
    PROVE  [workers EXCEPT ![w].status = status] \in [Workers -> WorkerRow]
<1>1. \A v \in Workers : workers[v] \in WorkerRow
  BY DEF TypeOK
<1>2. \A v \in Workers : [workers[v] EXCEPT !.status = status] \in WorkerRow
  BY <1>1 DEF WorkerRow
<1> QED BY <1>1, <1>2 DEF TypeOK

LEMMA RecordStatusType ==
    ASSUME TypeOK, NEW s, NEW status \in ASSIGNABLE_WORKER_STATUSES, RecordStatus(s, status)
    PROVE  workers' \in [Workers -> WorkerRow]
BY WorkerStatusType DEF TypeOK, RecordStatus

-----------------------------------------------------------------------------
(* Type correctness.  RecordMove adds a ply that the check of              *)
(* BelowMaxPlies keeps within max_plies; that needs the boards finite.     *)
Boards ==
    \A s \in Sessions : /\ IsFiniteSet(conns[s].board)
                        /\ conns[s].pc = "recording" => BelowMaxPlies(s)
MovesFinite == \A g \in Games : IsFiniteSet(moves[g])

(* What every coroutine that is past its authentication knows.             *)
Bound ==
    \A s \in Sessions :
        /\ conns[s].pc \in Holding => conns[s].game \in Games /\ conns[s].key \in issued
        /\ conns[s].pc \in Holding \cup {"authenticated", "idle"} =>
               conns[s].worker \in Workers
RemovalBound == removal.stage # "none" => removal.worker \in Workers

TInv == TypeOK /\ MovesFinite /\ Boards /\ Bound /\ RemovalBound

(* The initial rows are well-formed.                                       *)
LEMMA InitTInv == Init => TInv
<1> SUFFICES ASSUME Init PROVE TInv OBVIOUS
<1> USE DispatchAssumption
<1>1. conns \in [Sessions -> Conn]
  BY NoConnType DEF Init, PC
<1>2. TypeOK
  BY <1>1 DEF Init, TypeOK, AssignmentRow, WorkerRow, NoRemoval
<1>3. MovesFinite /\ Boards /\ Bound /\ RemovalBound
  BY FS_EmptySet DEF Init, MovesFinite, Boards, Bound, RemovalBound, NoConn, Holding,
                     ThreadAt, NoRemoval
<1> QED BY <1>2, <1>3 DEF TInv

(* What TInv says of one coroutine.                                        *)
LEMMA OneConn ==
    ASSUME TInv, NEW s \in Sessions
    PROVE  /\ conns[s] \in Conn /\ IsFiniteSet(conns[s].board)
           /\ conns[s].pc = "recording" => Cardinality(conns[s].board) < MaxPly
           /\ conns[s].pc \in Holding => conns[s].game \in Games /\ conns[s].key \in issued
           /\ conns[s].pc \in Holding \cup {"authenticated", "idle"} =>
                  conns[s].worker \in Workers
<1>1. conns[s] \in Conn
  BY DEF TInv, TypeOK
<1>2. IsFiniteSet(conns[s].board)
  BY DEF TInv, Boards
<1>3. conns[s].pc = "recording" => Cardinality(conns[s].board) < MaxPly
  BY DEF TInv, Boards, BelowMaxPlies
<1>4. /\ conns[s].pc \in Holding => conns[s].game \in Games /\ conns[s].key \in issued
      /\ conns[s].pc \in Holding \cup {"authenticated", "idle"} => conns[s].worker \in Workers
  BY DEF TInv, Bound
<1> QED BY <1>1, <1>2, <1>3, <1>4

(* TInv of the coroutines depends on the one that takes the step only.     *)
LEMMA ConnStep ==
    ASSUME TInv, NEW s \in Sessions, NEW c \in Conn, conns' = [conns EXCEPT ![s] = c],
           issued \subseteq issued', IsFiniteSet(c.board),
           c.pc = "recording" => Cardinality(c.board) < MaxPly,
           c.pc \in Holding => c.game \in Games /\ c.key \in issued',
           c.pc \in Holding \cup {"authenticated", "idle"} => c.worker \in Workers
    PROVE  conns' \in [Sessions -> Conn] /\ Boards' /\ Bound'
<1>1. conns' \in [Sessions -> Conn] /\ \A o \in Sessions \ {s} : conns'[o] = conns[o]
  BY DEF TInv, TypeOK
<1>2. conns'[s] = c
  BY DEF TInv, TypeOK
<1>3. Boards'
  BY <1>1, <1>2 DEF TInv, Boards, BelowMaxPlies
<1>4. Bound'
  BY <1>1, <1>2 DEF TInv, Bound
<1> QED BY <1>1, <1>3, <1>4

(* A coroutine that moves on within its assignment keeps what TInv says of *)
(* the coroutines; so does one that is done with it.                       *)
LEMMA AtStep ==
    ASSUME TInv, NEW s \in Sessions, NEW pc \in PC, At(s, pc), issued' = issued,
           pc \in Holding => conns[s].pc \in Holding,
           pc \in Holding \cup {"authenticated", "idle"} =>
               conns[s].pc \in Holding \cup {"authenticated", "idle"},
           pc = "recording" => BelowMaxPlies(s)
    PROVE  conns' \in [Sessions -> Conn] /\ Boards' /\ Bound'
<1>1. /\ conns' \in [Sessions -> Conn]
      /\ \A o \in Sessions \ {s} : conns'[o] = conns[o]
      /\ conns'[s].pc = pc /\ conns'[s].board = conns[s].board
      /\ conns'[s].game = conns[s].game /\ conns'[s].key = conns[s].key
      /\ conns'[s].worker = conns[s].worker
  BY AtEffect DEF TInv
<1>2. Boards'
  BY <1>1 DEF TInv, Boards, BelowMaxPlies
<1>3. Bound'
  BY <1>1 DEF TInv, Bound
<1> QED BY <1>1, <1>2, <1>3

LEMMA IdleStep ==
    ASSUME TInv, NEW s \in Sessions, Idle(s), issued' = issued,
           conns[s].pc \in Holding
    PROVE  conns' \in [Sessions -> Conn] /\ Boards' /\ Bound'
<1>1. /\ conns' \in [Sessions -> Conn]
      /\ \A o \in Sessions \ {s} : conns'[o] = conns[o]
      /\ conns'[s] = [NoConn("idle") EXCEPT !.worker = conns[s].worker,
                                            !.open = conns[s].open]
  BY IdleEffect DEF TInv
<1>2. conns[s].worker \in Workers
  BY DEF TInv, Bound
<1>3. conns'[s].pc = "idle" /\ conns'[s].board = {} /\ conns'[s].worker = conns[s].worker
  BY <1>1 DEF NoConn
<1>4. Boards'
  BY <1>1, <1>3, FS_EmptySet DEF TInv, Boards, BelowMaxPlies
<1>5. Bound'
  BY <1>1, <1>2, <1>3 DEF TInv, Bound, Holding, ThreadAt
<1> QED BY <1>1, <1>4, <1>5

(* Every action keeps the rows and the coroutines well-formed.             *)
LEMMA NextTInv == TInv /\ [Next]_vars => TInv'
<1> SUFFICES ASSUME TInv, [Next]_vars PROVE TInv' OBVIOUS
<1> USE DispatchAssumption
<1>1. ASSUME NEW w \in Workers, NEW s \in Sessions, Authenticate(w, s) PROVE TInv'
  <2> DEFINE c == [NoConn("authenticated") EXCEPT !.worker = w, !.open = TRUE]
  <2>1. /\ c \in Conn /\ c.pc = "authenticated" /\ c.worker = w /\ c.board = {}
    BY DEF NoConn, Conn, PC
  <2>2. conns' = [conns EXCEPT ![s] = c] /\ issued' = issued
    BY <1>1 DEF Authenticate
  <2> HIDE DEF c
  <2>3. conns' \in [Sessions -> Conn] /\ Boards' /\ Bound'
    BY <2>1, <2>2, ConnStep, FS_EmptySet DEF Holding, ThreadAt
  <2> QED BY <1>1, <2>3 DEF TInv, TypeOK, MovesFinite, RemovalBound, Authenticate, dbVars
<1>2. ASSUME NEW s \in Sessions, RecordConnection(s) PROVE TInv'
  <2> DEFINE w == conns[s].worker
             R == ReleasedOnConnect(w)
  <2>1. conns' \in [Sessions -> Conn] /\ Boards' /\ Bound'
    BY <1>2, AtStep DEF RecordConnection, PC, Holding, ThreadAt
  <2>2. w \in Workers
    BY <1>2 DEF TInv, Bound, RecordConnection
  <2>3. /\ games' \in [Games -> GameStatus]
        /\ assignments' \in [Games -> AssignmentRow]
    BY <1>2, ReleaseType DEF TInv, RecordConnection
  <2>4. workers' \in [Workers -> WorkerRow]
    BY <1>2, <2>2 DEF TInv, TypeOK, RecordConnection, WorkerRow, ASSIGNABLE_WORKER_STATUSES
  <2> QED BY <1>2, <2>1, <2>3, <2>4
          DEF TInv, TypeOK, MovesFinite, RemovalBound, RecordConnection, GameStatus
<1>3. ASSUME NEW s \in Sessions, Disconnect(s) PROVE TInv'
  <2> DEFINE w == conns[s].worker
             R == IF SessionCurrent(s) THEN HeldBy({w}) ELSE {}
  <2>1. conns' \in [Sessions -> Conn] /\ Boards' /\ Bound'
    <3>1. NoConn("closed") \in Conn
      BY NoConnType DEF PC
    <3> QED BY <1>3, <3>1, ConnStep, FS_EmptySet DEF Disconnect, NoConn, Holding, ThreadAt
  <2>2. /\ games' \in [Games -> GameStatus]
        /\ assignments' \in [Games -> AssignmentRow]
    BY <1>3, ReleaseType DEF TInv, Disconnect
  <2>3. workers' \in [Workers -> WorkerRow]
    BY <1>3, WorkerStatusType DEF TInv, TypeOK, Disconnect
  <2> QED BY <1>3, <2>1, <2>2, <2>3
          DEF TInv, TypeOK, MovesFinite, RemovalBound, Disconnect, GameStatus
<1>4. ASSUME NEW s \in Sessions, SocketCloses(s) PROVE TInv'
  <2> DEFINE c == [conns[s] EXCEPT !.open = FALSE]
  <2>1. conns[s] \in Conn
    BY DEF TInv, TypeOK
  <2>2. /\ c \in Conn /\ c.pc = conns[s].pc /\ c.game = conns[s].game /\ c.key = conns[s].key
        /\ c.worker = conns[s].worker /\ c.board = conns[s].board
    BY <2>1 DEF Conn
  <2>3. conns' = [conns EXCEPT ![s] = c] /\ issued' = issued
    BY <1>4 DEF SocketCloses
  <2> HIDE DEF c
  <2>4. conns' \in [Sessions -> Conn] /\ Boards' /\ Bound'
    BY <2>2, <2>3, ConnStep, OneConn
  <2> QED BY <1>4, <2>4 DEF TInv, TypeOK, MovesFinite, RemovalBound, SocketCloses, dbVars
<1>5. ASSUME NEW s \in Sessions, NEW g \in Games, NEW k \in Keys, Claim(s, g, k)
      PROVE  TInv'
  <2> DEFINE c == [conns[s] EXCEPT !.pc = "claimed", !.game = g, !.key = k]
  <2>1. conns[s] \in Conn /\ conns[s].worker \in Workers /\ IsFiniteSet(conns[s].board)
    BY <1>5, OneConn DEF Claim
  <2>2. /\ c \in Conn /\ c.pc = "claimed" /\ c.game = g /\ c.key = k
        /\ c.worker = conns[s].worker /\ c.board = conns[s].board
    BY <2>1 DEF Conn, PC, Holding
  <2>3. conns' = [conns EXCEPT ![s] = c] /\ issued' = issued \cup {k}
    BY <1>5 DEF Claim, TInv, TypeOK
  <2> HIDE DEF c
  <2>4. conns' \in [Sessions -> Conn] /\ Boards' /\ Bound'
    BY <2>1, <2>2, <2>3, ConnStep
  <2>5. games' \in [Games -> GameStatus]
    BY <1>5 DEF TInv, TypeOK, Claim, GameStatus, OPEN_GAME_STATUSES
  <2>6. [key |-> k, worker |-> conns[s].worker, status |-> "assigned"] \in AssignmentRow
    BY <2>1 DEF AssignmentRow, ACTIVE_ASSIGNMENT_STATUSES
  <2>7. assignments' \in [Games -> AssignmentRow]
    BY <1>5, <2>6 DEF TInv, TypeOK, Claim
  <2> QED BY <1>5, <2>3, <2>4, <2>5, <2>7
          DEF TInv, TypeOK, MovesFinite, RemovalBound, Claim, GameStatus
<1>6. ASSUME NEW s \in Sessions, NoAssignment(s) PROVE TInv'
  <2>1. workers' \in [Workers -> WorkerRow]
    BY <1>6, RecordStatusType DEF TInv, NoAssignment, ASSIGNABLE_WORKER_STATUSES
  <2> QED BY <1>6, <2>1 DEF TInv, TypeOK, MovesFinite, Boards, Bound, RemovalBound,
                            NoAssignment, BelowMaxPlies
<1>7. ASSUME NEW s \in Sessions, RecordDownloading(s) PROVE TInv'
  <2>1. conns' \in [Sessions -> Conn] /\ Boards' /\ Bound'
    BY <1>7, AtStep DEF RecordDownloading, PC, Holding, ThreadAt
  <2>2. workers' \in [Workers -> WorkerRow]
    BY <1>7, RecordStatusType DEF TInv, RecordDownloading, ASSIGNABLE_WORKER_STATUSES
  <2> QED BY <1>7, <2>1, <2>2 DEF TInv, TypeOK, MovesFinite, RemovalBound, RecordDownloading
<1>8. ASSUME NEW s \in Sessions, Acknowledge(s) PROVE TInv'
  <2>1. conns' \in [Sessions -> Conn] /\ Boards' /\ Bound'
    BY <1>8, AtStep DEF Acknowledge, PC, Holding, ThreadAt
  <2>2. assignments' \in [Games -> AssignmentRow]
    BY <1>8, AssignmentStatusType DEF TInv, TypeOK, Acknowledge, ACTIVE_ASSIGNMENT_STATUSES
  <2> QED BY <1>8, <2>1, <2>2 DEF TInv, TypeOK, MovesFinite, RemovalBound, Acknowledge
<1>9. ASSUME NEW s \in Sessions, RecordBusy(s) PROVE TInv'
  <2>1. conns' \in [Sessions -> Conn] /\ Boards' /\ Bound'
    BY <1>9, AtStep DEF RecordBusy, PC, Holding, ThreadAt
  <2>2. workers' \in [Workers -> WorkerRow]
    BY <1>9, RecordStatusType DEF TInv, RecordBusy, ASSIGNABLE_WORKER_STATUSES
  <2> QED BY <1>9, <2>1, <2>2 DEF TInv, TypeOK, MovesFinite, RemovalBound, RecordBusy
<1>10. ASSUME NEW s \in Sessions, PreparationFails(s) PROVE TInv'
  <2>1. conns' \in [Sessions -> Conn] /\ Boards' /\ Bound'
    BY <1>10, AtStep DEF PreparationFails, PC, Holding, ThreadAt
  <2> QED BY <1>10, <2>1 DEF TInv, TypeOK, MovesFinite, RemovalBound, PreparationFails, dbVars
<1>11. ASSUME NEW s \in Sessions, FailAssignment(s) PROVE TInv'
  <2>1. conns' \in [Sessions -> Conn] /\ Boards' /\ Bound'
    BY <1>11, IdleStep DEF FailAssignment, Holding, ThreadAt
  <2>2. games' \in [Games -> GameStatus]
    BY <1>11, ReleaseType DEF TInv, TypeOK, FailAssignment, GameStatus
  <2>3. assignments' \in [Games -> AssignmentRow]
    BY <1>11, AssignmentStatusType DEF TInv, TypeOK, FailAssignment
  <2> QED BY <1>11, <2>1, <2>2, <2>3
          DEF TInv, TypeOK, MovesFinite, RemovalBound, FailAssignment, GameStatus
<1>12. ASSUME NEW s \in Sessions, StartGame(s) PROVE TInv'
  <2> DEFINE c == [conns[s] EXCEPT !.pc = "marking", !.board = moves[conns[s].game]]
  <2>1. conns[s].game \in Games /\ conns[s] \in Conn
    BY <1>12 DEF TInv, TypeOK, Bound, StartGame, ThreadStep, Holding, ThreadAt
  <2>2. moves[conns[s].game] \in SUBSET Move /\ IsFiniteSet(moves[conns[s].game])
    BY <2>1 DEF TInv, TypeOK, MovesFinite
  <2>3. /\ c \in Conn /\ c.pc = "marking" /\ c.game = conns[s].game /\ c.key = conns[s].key
        /\ c.worker = conns[s].worker /\ c.board = moves[conns[s].game]
    BY <2>1, <2>2 DEF Conn, PC, Holding, ThreadAt
  <2>4. conns' = [conns EXCEPT ![s] = c] /\ issued' = issued
    BY <1>12 DEF StartGame, ThreadStep, TInv, TypeOK
  <2>5. conns[s].key \in issued /\ conns[s].worker \in Workers
    BY <1>12 DEF TInv, Bound, StartGame, ThreadStep, Holding, ThreadAt
  <2> HIDE DEF c
  <2>6. conns' \in [Sessions -> Conn] /\ Boards' /\ Bound'
    BY <2>1, <2>2, <2>3, <2>4, <2>5, ConnStep
  <2> QED BY <1>12, <2>6 DEF TInv, TypeOK, MovesFinite, RemovalBound, StartGame, ThreadStep,
                             dbVars
<1>13. ASSUME NEW s \in Sessions, MarkLive(s) PROVE TInv'
  <2>1. conns' \in [Sessions -> Conn] /\ Boards' /\ Bound'
    BY <1>13, AtStep DEF MarkLive, ThreadStep, PC, Holding, ThreadAt
  <2>2. /\ games' \in [Games -> GameStatus]
        /\ assignments' \in [Games -> AssignmentRow]
    BY <1>13, AssignmentStatusType
    DEF TInv, TypeOK, MarkLive, GameStatus, OPEN_GAME_STATUSES, ACTIVE_ASSIGNMENT_STATUSES
  <2> QED BY <1>13, <2>1, <2>2 DEF TInv, TypeOK, MovesFinite, RemovalBound, MarkLive,
                                  ThreadStep, GameStatus
<1>14. ASSUME NEW s \in Sessions, FindMove(s) PROVE TInv'
  <2>1. conns' \in [Sessions -> Conn] /\ Boards' /\ Bound'
    BY <1>14, AtStep DEF FindMove, ThreadStep, PC, Holding, ThreadAt
  <2> QED BY <1>14, <2>1 DEF TInv, TypeOK, MovesFinite, RemovalBound, FindMove, ThreadStep,
                             dbVars
<1>15. ASSUME NEW s \in Sessions, RecordMove(s) PROVE TInv'
  <2> DEFINE g == conns[s].game
             ply == Cardinality(conns[s].board) + 1
             move == [ply |-> ply, by |-> conns[s].key]
             c == [conns[s] EXCEPT !.pc = "playing", !.board = @ \cup {move}]
  <2>1. conns[s].pc = "recording"
    BY <1>15 DEF RecordMove, NextPly, ThreadStep
  <2>2. /\ g \in Games /\ conns[s].key \in issued /\ conns[s].worker \in Workers
        /\ conns[s].key \in Keys /\ conns[s] \in Conn
    BY <2>1 DEF TInv, TypeOK, Bound, Holding, ThreadAt
  <2>3. IsFiniteSet(conns[s].board) /\ Cardinality(conns[s].board) < MaxPly
    BY <2>1, OneConn
  <2>4. Cardinality(conns[s].board) \in Nat
    BY <2>3, FS_CardinalityType
  <2>5. ply \in 1 .. MaxPly
    BY <2>3, <2>4
  <2>6. move \in Move
    BY <2>2, <2>5 DEF Move
  <2>7. IsFiniteSet(conns[s].board \cup {move}) /\ IsFiniteSet(moves[g] \cup {move})
    BY <2>2, <2>3, FS_AddElement DEF TInv, MovesFinite
  <2> HIDE DEF move
  <2>8. /\ c \in Conn /\ c.pc = "playing" /\ c.game = g /\ c.key = conns[s].key
        /\ c.worker = conns[s].worker /\ c.board = conns[s].board \cup {move}
    BY <2>2, <2>6 DEF Conn, PC, Holding, ThreadAt
  <2>9. conns' = [conns EXCEPT ![s] = c] /\ issued' = issued
    BY <1>15 DEF RecordMove, NextPly, ThreadStep, TInv, TypeOK, move
  <2> HIDE DEF c
  <2>10. conns' \in [Sessions -> Conn] /\ Boards' /\ Bound'
    BY <2>2, <2>7, <2>8, <2>9, ConnStep
  <2>11. moves' = [moves EXCEPT ![g] = @ \cup {move}]
    BY <1>15 DEF RecordMove, NextPly, move
  <2>12. moves' \in [Games -> SUBSET Move] /\ MovesFinite'
    BY <2>2, <2>6, <2>7, <2>11 DEF TInv, TypeOK, MovesFinite
  <2> QED BY <1>15, <2>10, <2>12 DEF TInv, TypeOK, RemovalBound, RecordMove, NextPly, ThreadStep
<1>16. ASSUME NEW s \in Sessions, EndGame(s) \/ FinishGame(s) \/ ThreadFails(s) PROVE TInv'
  <2>1. conns' \in [Sessions -> Conn] /\ Boards' /\ Bound'
    BY <1>16, AtStep DEF EndGame, FinishGame, ThreadFails, ThreadStep, PC, Holding, ThreadAt
  <2> QED BY <1>16, <2>1 DEF TInv, TypeOK, MovesFinite, RemovalBound, EndGame, FinishGame,
                             ThreadFails, ThreadStep, dbVars
<1>17. ASSUME NEW s \in Sessions, JudgeTournament(s) PROVE TInv'
  <2> DEFINE verdict == Verdict(tournament, [games EXCEPT ![conns[s].game] = "finished"])
             c == [conns[s] EXCEPT !.pc = "committing", !.verdict = verdict]
  <2>1. verdict \in {"none", "finished", "aborted"}
    BY VerdictType
  <2>2. conns[s] \in Conn /\ conns[s].pc = "finishing"
    BY <1>17 DEF TInv, TypeOK, JudgeTournament, ThreadStep
  <2>3. conns' = [conns EXCEPT ![s] = c] /\ issued' = issued
    BY <1>17 DEF JudgeTournament, ThreadStep, TInv, TypeOK
  <2> HIDE DEF verdict
  <2>4. /\ c \in Conn /\ c.pc = "committing" /\ c.game = conns[s].game /\ c.key = conns[s].key
        /\ c.worker = conns[s].worker /\ c.board = conns[s].board
    BY <2>1, <2>2 DEF Conn, PC, Holding, ThreadAt
  <2> HIDE DEF c
  <2>5. conns' \in [Sessions -> Conn] /\ Boards' /\ Bound'
    BY <2>2, <2>3, <2>4, ConnStep, OneConn DEF Holding, ThreadAt
  <2> QED BY <1>17, <2>5 DEF TInv, TypeOK, MovesFinite, RemovalBound, JudgeTournament,
                             ThreadStep, dbVars
<1>18. ASSUME NEW s \in Sessions, CommitGame(s) PROVE TInv'
  <2> DEFINE g == conns[s].game
             gs == [games EXCEPT ![g] = "finished"]
             as == IF assignments[g].key = conns[s].key
                   THEN [assignments EXCEPT ![g].status = "finished"] ELSE assignments
             verdict == conns[s].verdict
  <2>1. conns' \in [Sessions -> Conn] /\ Boards' /\ Bound'
    BY <1>18, IdleStep DEF CommitGame, ThreadStep, Holding, ThreadAt
  <2>2. gs \in [Games -> GameStatus] /\ as \in [Games -> AssignmentRow]
    BY AssignmentStatusType DEF TInv, TypeOK, GameStatus, TERMINAL_GAME_STATUSES
  <2>3. \/ verdict = "none" /\ tournament' = tournament /\ games' = gs /\ assignments' = as
        \/ verdict # "none" /\ SetTournamentStatus(verdict, gs, as)
    BY <1>18 DEF CommitGame
  <2>4. verdict \in {"none", "finished", "aborted"}
    BY DEF TInv, TypeOK, Conn
  <2> HIDE DEF gs, as
  <2>5. /\ games' \in [Games -> GameStatus]
        /\ assignments' \in [Games -> AssignmentRow]
        /\ tournament' \in {tournament, "finished", "aborted"}
    BY <2>2, <2>3, <2>4, StatusType
  <2> QED BY <1>18, <2>1, <2>5
          DEF TInv, TypeOK, MovesFinite, RemovalBound, CommitGame, ThreadStep, GameStatus
<1>19. ASSUME NEW a \in Admins, AdminReads(a) \/ AdminWrites(a) PROVE TInv'
  <2>1. CASE AdminReads(a)
    <3>1. admin' \in [Admins -> {"none", "paused", "scheduled", "aborted"}]
      BY <2>1 DEF TInv, TypeOK, AdminReads, TOURNAMENT_ACTIONS
    <3> QED BY <2>1, <3>1 DEF TInv, TypeOK, MovesFinite, Boards, Bound, RemovalBound,
                              AdminReads, dbVars, BelowMaxPlies
  <2>2. CASE AdminWrites(a)
    <3>1. SetTournamentStatus(admin[a], games, assignments)
      BY <2>2 DEF AdminWrites
    <3>2. /\ games' \in [Games -> GameStatus]
          /\ assignments' \in [Games -> AssignmentRow]
          /\ tournament' = admin[a]
      BY <3>1, StatusType DEF TInv, TypeOK, GameStatus
    <3> QED BY <2>2, <3>2 DEF TInv, TypeOK, MovesFinite, Boards, Bound, RemovalBound,
                              AdminWrites, BelowMaxPlies, GameStatus
  <2> QED BY <1>19, <2>1, <2>2
<1>20. ASSUME NEW w \in Removable, RemoveGames(w) PROVE TInv'
  BY <1>20 DEF TInv, TypeOK, MovesFinite, Boards, Bound, RemovalBound, BelowMaxPlies, dbVars,
            RemoveGames, HeldBy
<1>21. CASE RemoveAssignments
  BY <1>21 DEF TInv, TypeOK, MovesFinite, Boards, Bound, RemovalBound, BelowMaxPlies, dbVars,
            RemoveAssignments, RowsToRelease, HeldBy
<1>22. CASE RemoveRow
  <2> DEFINE R == removal.rows
  <2>1. /\ games' \in [Games -> GameStatus]
        /\ AssignmentsReleased(R) \in [Games -> AssignmentRow]
    BY <1>22, ReleaseType DEF TInv, RemoveRow
  <2>2. assignments' \in [Games -> AssignmentRow]
    <3>1. \A row \in AssignmentRow : [row EXCEPT !.worker = None] \in AssignmentRow
      BY DEF AssignmentRow
    <3>2. \A g \in Games : assignments[g] \in AssignmentRow
      BY DEF TInv, TypeOK
    <3>3. \A g \in Games : AssignmentsReleased(R)[g] \in AssignmentRow
      BY <2>1
    <3> QED BY <1>22, <3>1, <3>2, <3>3 DEF RemoveRow
  <2>3. workers' \in [Workers -> WorkerRow]
    BY <1>22 DEF TInv, TypeOK, RemoveRow, WorkerRow
  <2>4. /\ removal' \in [stage : {"none", "games", "assignments"}, worker : Workers \cup {None},
                          games : SUBSET Games, rows : SUBSET Games]
        /\ RemovalBound'
    BY <1>22 DEF RemoveRow, NoRemoval, RemovalBound
  <2> QED BY <1>22, <2>1, <2>2, <2>3, <2>4
          DEF TInv, TypeOK, MovesFinite, Boards, Bound, BelowMaxPlies, RemoveRow, GameStatus
<1>23. CASE SchedulerReads
  BY <1>23, VerdictType DEF TInv, TypeOK, MovesFinite, Boards, Bound, RemovalBound, BelowMaxPlies, dbVars,
            SchedulerReads
<1>24. CASE SchedulerWrites
  <2> DEFINE judged == IF scheduler # "prepare" THEN scheduler
                       ELSE IF Verdict("running", games) = "none" THEN "running"
                       ELSE Verdict("running", games)
  <2>1. judged \in {"running", "finished", "aborted"}
    BY <1>24, VerdictType DEF TInv, TypeOK, SchedulerWrites
  <2>2. SetTournamentStatus(judged, games, assignments)
    BY <1>24 DEF SchedulerWrites
  <2> HIDE DEF judged
  <2>3. /\ games' \in [Games -> GameStatus]
        /\ assignments' \in [Games -> AssignmentRow]
        /\ tournament' = judged
    BY <2>2, StatusType DEF TInv, TypeOK, GameStatus
  <2> QED BY <1>24, <2>1, <2>3
          DEF TInv, TypeOK, MovesFinite, Boards, Bound, RemovalBound, BelowMaxPlies, dbVars,
              SchedulerWrites, GameStatus
<1>25. CASE Crash
  <2>1. conns' \in [Sessions -> Conn]
    BY <1>25, NoConnType DEF TInv, TypeOK, Crash, PC
  <2>2. Boards' /\ Bound'
    BY <1>25, FS_EmptySet DEF TInv, Boards, Bound, Crash, NoConn, BelowMaxPlies, Holding, ThreadAt
  <2>3. crashes' \in 0 .. MaxCrashes
    BY <1>25 DEF TInv, TypeOK, Crash
  <2> QED BY <1>25, <2>1, <2>2, <2>3 DEF TInv, TypeOK, MovesFinite, RemovalBound, Crash, dbVars
<1>26. CASE Restart
  <2>1. /\ games' \in [Games -> GameStatus]
        /\ assignments' \in [Games -> AssignmentRow]
    BY <1>26, ReleaseType DEF TInv, Restart
  <2>2. workers' \in [Workers -> WorkerRow]
    <3>1. \A w \in Workers : /\ workers[w] \in WorkerRow
                             /\ [workers[w] EXCEPT !.status = "offline"] \in WorkerRow
      BY DEF TInv, TypeOK, WorkerRow
    <3> QED BY <1>26, <3>1 DEF Restart
  <2> QED BY <1>26, <2>1, <2>2
          DEF TInv, TypeOK, MovesFinite, Boards, Bound, RemovalBound, BelowMaxPlies, dbVars, Restart,
              GameStatus
<1>27. CASE UNCHANGED vars
  BY <1>27 DEF vars, TInv, TypeOK, MovesFinite, Boards, Bound, RemovalBound, BelowMaxPlies, dbVars
<1> QED
  BY <1>1, <1>2, <1>3, <1>4, <1>5, <1>6, <1>7, <1>8, <1>9, <1>10, <1>11, <1>12, <1>13,
     <1>14, <1>15, <1>16, <1>17, <1>18, <1>19, <1>20, <1>21, <1>22, <1>23, <1>24,
     <1>25, <1>26, <1>27
  DEF Next, Connects, Prepares, Plays

(* Every column and every local variable keeps its domain, for every       *)
(* number of games, workers and sessions; no ply beyond max_plies is ever  *)
(* recorded (record_move).                                                 *)
THEOREM TypeCorrect == Spec => []TypeOK
<1>1. Init => TInv
  BY InitTInv
<1>2. TInv /\ [Next]_vars => TInv'
  BY NextTInv
<1>3. TInv => TypeOK
  BY DEF TInv
<1> QED BY <1>1, <1>2, <1>3, PTL DEF Spec

(* What the end of a game changes: its own row and, if the tournament is   *)
(* aborted with it, the rows of games that nobody has locked.              *)
LEMMA CommitEffect ==
    ASSUME TInv, NEW s \in Sessions, CommitGame(s), NEW g \in Games, g = conns[s].game
    PROVE  \A h \in Games :
              /\ games'[h] \notin TERMINAL_GAME_STATUSES =>
                     h # g /\ games'[h] = games[h] /\ assignments'[h] = assignments[h]
              /\ Active(h)' => /\ assignments'[h] = assignments[h]
                               /\ h = g => assignments[h].key # conns[s].key
              /\ GameLocked(h) /\ h # g => assignments'[h] = assignments[h]
<1> DEFINE gs == [games EXCEPT ![g] = "finished"]
           as == IF assignments[g].key = conns[s].key
                 THEN [assignments EXCEPT ![g].status = "finished"] ELSE assignments
<1>1. \/ games' = gs /\ assignments' = as
      \/ /\ SetTournamentStatus("aborted", gs, as)
         /\ \A h \in Games \ {g} : ~GameLocked(h)
  BY DEF CommitGame, SetTournamentStatus
<1>2. /\ as \in [Games -> AssignmentRow] /\ gs[g] = "finished"
      /\ \A h \in Games \ {g} : as[h] = assignments[h] /\ gs[h] = games[h]
      /\ \/ as[g] = assignments[g] /\ as[g].key # conns[s].key
         \/ as[g].status = "finished"
  <2>1. CASE assignments[g].key = conns[s].key
    <3>1. as = [assignments EXCEPT ![g].status = "finished"]
      BY <2>1
    <3>2. [assignments EXCEPT ![g].status = "finished"] \in [Games -> AssignmentRow]
      BY AssignmentStatusType DEF TInv
    <3>3. as[g].status = "finished"
      BY <3>1 DEF TInv, TypeOK, AssignmentRow
    <3> QED BY <3>1, <3>2, <3>3 DEF TInv, TypeOK
  <2>2. CASE assignments[g].key # conns[s].key
    BY <2>2 DEF TInv, TypeOK
  <2> QED BY <2>1, <2>2
<1> HIDE DEF gs, as
<1>3. CASE games' = gs /\ assignments' = as
  BY <1>2, <1>3 DEF TERMINAL_GAME_STATUSES, Active, ACTIVE_ASSIGNMENT_STATUSES
<1>4. CASE /\ SetTournamentStatus("aborted", gs, as)
           /\ \A h \in Games \ {g} : ~GameLocked(h)
  <2>1. \A row \in AssignmentRow : [row EXCEPT !.status = "abandoned"].status = "abandoned"
    BY DEF AssignmentRow
  <2>2. \A h \in Games : as[h] \in AssignmentRow
    BY <1>2
  <2>3. \A h \in Games : assignments'[h] = as[h] \/ assignments'[h].status = "abandoned"
    BY <1>4, <2>1, <2>2 DEF SetTournamentStatus, AssignmentsAbandoned
  <2>4. \A h \in Games : games'[h] \in TERMINAL_GAME_STATUSES
    BY <1>4 DEF SetTournamentStatus, GamesAbandoned, TERMINAL_GAME_STATUSES
  <2> QED BY <1>2, <1>4, <2>3, <2>4 DEF Active, ACTIVE_ASSIGNMENT_STATUSES
<1> QED BY <1>1, <1>3, <1>4

-----------------------------------------------------------------------------
(* A pending game has no active assignment.  Everybody who makes a game    *)
(* pending ends its assignment in the same transaction; only a removal     *)
(* does so in two statements.  Its second statement finds every row that   *)
(* belongs to the games of its first, because their row locks keep all     *)
(* others from changing them: so the invariant must say what is locked.    *)
LockedGames ==
    /\ removal.stage = "none" => removal.games = {}
    /\ removal.stage = "games" =>
           \A g \in removal.games : Active(g) /\ assignments[g].worker = removal.worker
    /\ removal.stage = "assignments" =>
           /\ removal.games \subseteq removal.rows
           /\ \A g \in removal.games : assignments[g].worker = removal.worker
Finishing == {"finishing", "committing"}
LocksExclude ==
    \A s \in Sessions : conns[s].pc \in Finishing => conns[s].game \notin removal.games

FreeInv == PendingGamesAreFree /\ LockedGames /\ LocksExclude

(* A release of games that no removal has locked.                          *)
LEMMA ReleaseFree ==
    ASSUME TInv, FreeInv, NEW R, \A g \in R : ~GameLocked(g),
           games' = GamesReleased(R), assignments' = AssignmentsReleased(R),
           removal' = removal
    PROVE  PendingGamesAreFree' /\ LockedGames'
<1>1. \A g \in Games : /\ g \in R => assignments'[g].status = "abandoned"
                       /\ g \notin R => /\ assignments'[g] = assignments[g]
                                        /\ games'[g] = games[g]
  BY DEF TInv, TypeOK, GamesReleased, AssignmentsReleased, AssignmentRow
<1>2. PendingGamesAreFree'
  BY <1>1 DEF FreeInv, PendingGamesAreFree, Active, ACTIVE_ASSIGNMENT_STATUSES
<1>3. \A g \in removal.games : g \in Games /\ g \notin R
  BY DEF GameLocked, TInv, TypeOK
<1>4. LockedGames'
  BY <1>1, <1>3 DEF FreeInv, LockedGames, Active
<1> QED BY <1>2, <1>4

(* A change of the tournament's status, which aborts no locked game.       *)
LEMMA StatusFree ==
    ASSUME TInv, FreeInv, NEW status, SetTournamentStatus(status, games, assignments),
           status = "aborted" => \A g \in Games : ~GameLocked(g),
           removal' = removal
    PROVE  PendingGamesAreFree' /\ LockedGames'
<1>1. CASE status = "aborted"
  <2>1. \A g \in Games : games'[g] # "pending"
    BY <1>1 DEF SetTournamentStatus, GamesAbandoned
  <2>2. removal.games = {}
    BY <1>1 DEF GameLocked, TInv, TypeOK
  <2>3. removal.stage # "games" => LockedGames'
    BY <2>2 DEF FreeInv, LockedGames
  <2> QED BY <2>1, <2>2, <2>3 DEF PendingGamesAreFree, LockedGames
<1>2. CASE status # "aborted"
  BY <1>2 DEF SetTournamentStatus, FreeInv, PendingGamesAreFree, LockedGames, Active
<1> QED BY <1>1, <1>2

(* A step of one coroutine alone.                                          *)
LEMMA CoroutineFree ==
    ASSUME FreeInv, UNCHANGED <<games, assignments, removal>>,
           NEW s \in Sessions, \A o \in Sessions \ {s} : conns'[o] = conns[o],
           conns'[s].pc \in Finishing => conns'[s].game \notin removal.games
    PROVE  FreeInv'
BY DEF FreeInv, PendingGamesAreFree, LockedGames, LocksExclude, Active

(* A coroutine that is not ending a game has nothing to say about locks.   *)
LEMMA FinishersFree ==
    ASSUME TInv, FreeInv, removal' = removal, NEW s \in Sessions, NEW pc \in PC \ Finishing,
           At(s, pc) \/ (pc = "idle" /\ Idle(s))
    PROVE  LocksExclude'
<1>1. /\ \A o \in Sessions \ {s} : conns'[o] = conns[o]
      /\ conns'[s].pc = pc
  <2>1. CASE At(s, pc)
    BY <2>1, AtEffect DEF TInv
  <2>2. CASE pc = "idle" /\ Idle(s)
    BY <2>2, IdleEffect DEF TInv, NoConn
  <2> QED BY <2>1, <2>2
<1> QED BY <1>1 DEF FreeInv, LocksExclude

(* Every action keeps pending games free.                                  *)
LEMMA NextFree == TInv /\ FreeInv /\ [Next]_vars => FreeInv'
<1> SUFFICES ASSUME TInv, FreeInv, [Next]_vars PROVE FreeInv' OBVIOUS
<1>1. ASSUME NEW w \in Workers, NEW s \in Sessions, Authenticate(w, s) PROVE FreeInv'
  <2>1. /\ UNCHANGED <<games, assignments, removal>>
        /\ \A o \in Sessions \ {s} : conns'[o] = conns[o]
    BY <1>1 DEF Authenticate, dbVars, TInv, TypeOK
  <2>2. conns'[s].pc = "authenticated"
    BY <1>1 DEF Authenticate, NoConn, TInv, TypeOK
  <2> QED BY <2>1, <2>2, CoroutineFree DEF Finishing
<1>2. ASSUME NEW s \in Sessions, RecordConnection(s) PROVE FreeInv'
  <2>1. PendingGamesAreFree' /\ LockedGames'
    BY <1>2, ReleaseFree DEF RecordConnection
  <2>2. LocksExclude'
    BY <1>2, FinishersFree DEF RecordConnection, PC, Finishing
  <2> QED BY <2>1, <2>2 DEF FreeInv
<1>3. ASSUME NEW s \in Sessions, Disconnect(s) PROVE FreeInv'
  <2>1. PendingGamesAreFree' /\ LockedGames'
    BY <1>3, ReleaseFree DEF Disconnect
  <2>2. LocksExclude'
    BY <1>3 DEF FreeInv, LocksExclude, Disconnect, NoConn, Finishing, TInv, TypeOK
  <2> QED BY <2>1, <2>2 DEF FreeInv
<1>4. ASSUME NEW s \in Sessions, SocketCloses(s) PROVE FreeInv'
  <2>1. /\ UNCHANGED <<games, assignments, removal>>
        /\ \A o \in Sessions \ {s} : conns'[o] = conns[o]
    BY <1>4 DEF SocketCloses, dbVars, TInv, TypeOK
  <2>2. conns'[s].pc = conns[s].pc /\ conns'[s].game = conns[s].game
    BY <1>4 DEF SocketCloses, TInv, TypeOK, Conn
  <2> QED BY <2>1, <2>2, CoroutineFree DEF FreeInv, LocksExclude
<1>5. ASSUME NEW s \in Sessions, NEW g \in Games, NEW k \in Keys, Claim(s, g, k)
      PROVE  FreeInv'
  <2>1. /\ \A h \in Games \ {g} : games'[h] = games[h] /\ assignments'[h] = assignments[h]
        /\ games'[g] = "assigned" /\ g \notin removal.games /\ removal' = removal
    BY <1>5 DEF Claim, GameLocked, TInv, TypeOK
  <2>2. PendingGamesAreFree' /\ LockedGames'
    BY <2>1 DEF FreeInv, PendingGamesAreFree, LockedGames, Active, TInv, TypeOK
  <2>3. LocksExclude'
    <3>1. \A o \in Sessions \ {s} : conns'[o] = conns[o]
      BY <1>5 DEF Claim, TInv, TypeOK
    <3>2. conns'[s].pc = "claimed"
      BY <1>5 DEF Claim, TInv, TypeOK, Conn
    <3> QED BY <2>1, <3>1, <3>2 DEF FreeInv, LocksExclude, Finishing
  <2> QED BY <2>2, <2>3 DEF FreeInv
<1>6. ASSUME NEW s \in Sessions, NoAssignment(s) PROVE FreeInv'
  BY <1>6 DEF NoAssignment, FreeInv, PendingGamesAreFree, LockedGames, LocksExclude, Active
<1>7. ASSUME NEW s \in Sessions,
             \/ RecordDownloading(s) \/ RecordBusy(s) \/ PreparationFails(s)
             \/ FindMove(s) \/ EndGame(s) \/ ThreadFails(s)
      PROVE  FreeInv'
  <2>1. UNCHANGED <<games, assignments, removal>>
    BY <1>7 DEF RecordDownloading, RecordBusy, PreparationFails, FindMove, EndGame, ThreadFails,
                ThreadStep, dbVars
  <2>2. \E pc \in PC \ Finishing : At(s, pc)
    BY <1>7 DEF RecordDownloading, RecordBusy, PreparationFails, FindMove, EndGame, ThreadFails,
                PC, Holding, ThreadAt, Finishing
  <2>3. LocksExclude'
    BY <2>1, <2>2, FinishersFree
  <2> QED BY <2>1, <2>3 DEF FreeInv, PendingGamesAreFree, LockedGames, Active
<1>8. ASSUME NEW s \in Sessions, Acknowledge(s) PROVE FreeInv'
  <2>1. \A g \in Games : /\ assignments'[g].worker = assignments[g].worker
                         /\ Active(g)' <=> Active(g)
    BY <1>8 DEF Acknowledge, Active, ACTIVE_ASSIGNMENT_STATUSES, TInv, TypeOK, AssignmentRow
  <2>2. UNCHANGED <<games, removal>> /\ removal.games \subseteq Games
    BY <1>8 DEF Acknowledge, TInv, TypeOK
  <2>3. LocksExclude'
    BY <1>8, FinishersFree DEF Acknowledge, PC, Holding, ThreadAt, Finishing
  <2> QED BY <2>1, <2>2, <2>3 DEF FreeInv, PendingGamesAreFree, LockedGames
<1>9. ASSUME NEW s \in Sessions, FailAssignment(s) PROVE FreeInv'
  <2>1. PICK g \in Games : g = conns[s].game
    BY <1>9, OneConn DEF FailAssignment, Holding, ThreadAt
  <2>2. g \notin removal.games /\ removal' = removal
    BY <1>9, <2>1 DEF FailAssignment, GameLocked
  <2>3. \A h \in Games \ {g} : games'[h] = games[h] /\ assignments'[h] = assignments[h]
    BY <1>9, <2>1 DEF FailAssignment, GamesReleased, TInv, TypeOK
  <2>4. (games'[g] = games[g] /\ assignments'[g] = assignments[g]) \/ ~Active(g)'
    BY <1>9, <2>1 DEF FailAssignment, Active, ACTIVE_ASSIGNMENT_STATUSES, TInv, TypeOK,
                      AssignmentRow
  <2>5. PendingGamesAreFree'
    BY <2>3, <2>4 DEF FreeInv, PendingGamesAreFree, Active
  <2>6. LockedGames'
    BY <2>2, <2>3 DEF FreeInv, LockedGames, Active, TInv, TypeOK
  <2>7. LocksExclude'
    BY <1>9, <2>2, FinishersFree DEF FailAssignment, PC, Finishing
  <2> QED BY <2>5, <2>6, <2>7 DEF FreeInv
<1>10. ASSUME NEW s \in Sessions, StartGame(s) PROVE FreeInv'
  <2>1. /\ UNCHANGED <<games, assignments, removal>>
        /\ \A o \in Sessions \ {s} : conns'[o] = conns[o]
    BY <1>10 DEF StartGame, ThreadStep, dbVars, TInv, TypeOK
  <2>2. conns'[s].pc = "marking"
    BY <1>10 DEF StartGame, TInv, TypeOK, Conn
  <2> QED BY <2>1, <2>2, CoroutineFree DEF Finishing
<1>11. ASSUME NEW s \in Sessions, MarkLive(s) PROVE FreeInv'
  <2> DEFINE g == conns[s].game
  <2>1. g \in Games /\ g \notin removal.games /\ removal' = removal
    BY <1>11, OneConn DEF MarkLive, ThreadStep, GameLocked, Holding, ThreadAt
  <2>2. /\ \A h \in Games \ {g} : games'[h] = games[h] /\ assignments'[h] = assignments[h]
        /\ games'[g] = "live"
    BY <1>11, <2>1 DEF MarkLive, TInv, TypeOK
  <2>3. PendingGamesAreFree' /\ LockedGames'
    BY <2>1, <2>2 DEF FreeInv, PendingGamesAreFree, LockedGames, Active, TInv, TypeOK
  <2>4. LocksExclude'
    BY <1>11, <2>1, FinishersFree DEF MarkLive, PC, Holding, ThreadAt, Finishing
  <2> QED BY <2>3, <2>4 DEF FreeInv
<1>12. ASSUME NEW s \in Sessions, RecordMove(s) PROVE FreeInv'
  <2>1. /\ UNCHANGED <<games, assignments, removal>>
        /\ \A o \in Sessions \ {s} : conns'[o] = conns[o]
    BY <1>12 DEF RecordMove, NextPly, ThreadStep, TInv, TypeOK
  <2>2. conns'[s].pc = "playing"
    BY <1>12 DEF RecordMove, NextPly, TInv, TypeOK, Conn
  <2> QED BY <2>1, <2>2, CoroutineFree DEF Finishing
<1>13. ASSUME NEW s \in Sessions, FinishGame(s) PROVE FreeInv'
  <2>1. UNCHANGED <<games, assignments, removal>> /\ conns[s].game \notin removal.games
    BY <1>13 DEF FinishGame, ThreadStep, dbVars, GameLocked
  <2>2. /\ \A o \in Sessions \ {s} : conns'[o] = conns[o]
        /\ conns'[s].game = conns[s].game
    BY <1>13, AtEffect DEF FinishGame, PC, Holding, ThreadAt, TInv
  <2> QED BY <2>1, <2>2, CoroutineFree
<1>14. ASSUME NEW s \in Sessions, JudgeTournament(s) PROVE FreeInv'
  <2>1. /\ UNCHANGED <<games, assignments, removal>>
        /\ \A o \in Sessions \ {s} : conns'[o] = conns[o]
    BY <1>14 DEF JudgeTournament, ThreadStep, dbVars, TInv, TypeOK
  <2>2. conns'[s].game = conns[s].game /\ conns[s].pc = "finishing"
    BY <1>14 DEF JudgeTournament, ThreadStep, TInv, TypeOK, Conn
  <2> QED BY <2>1, <2>2, CoroutineFree DEF FreeInv, LocksExclude, Finishing
<1>15. ASSUME NEW s \in Sessions, CommitGame(s) PROVE FreeInv'
  <2>1. PICK g \in Games : g = conns[s].game
    BY <1>15, OneConn DEF CommitGame, ThreadStep, Holding, ThreadAt
  <2>2. g \notin removal.games /\ removal' = removal /\ removal.games \subseteq Games
    BY <1>15, <2>1 DEF CommitGame, ThreadStep, FreeInv, LocksExclude, Finishing, TInv, TypeOK
  <2>3. PendingGamesAreFree'
    BY <1>15, <2>1, CommitEffect
    DEF FreeInv, PendingGamesAreFree, Active, TERMINAL_GAME_STATUSES
  <2>4. \A h \in removal.games : assignments'[h] = assignments[h]
    BY <1>15, <2>1, <2>2, CommitEffect DEF GameLocked
  <2>5. LockedGames'
    BY <2>2, <2>4 DEF FreeInv, LockedGames, Active
  <2>6. LocksExclude'
    BY <1>15, <2>2, FinishersFree DEF CommitGame, PC, Finishing
  <2> QED BY <2>3, <2>5, <2>6 DEF FreeInv
<1>16. ASSUME NEW a \in Admins, AdminReads(a) PROVE FreeInv'
  BY <1>16 DEF AdminReads, dbVars, FreeInv, PendingGamesAreFree, LockedGames, LocksExclude, Active
<1>17. ASSUME NEW a \in Admins, AdminWrites(a) PROVE FreeInv'
  <2>1. PendingGamesAreFree' /\ LockedGames'
    BY <1>17, StatusFree DEF AdminWrites
  <2> QED BY <1>17, <2>1 DEF AdminWrites, FreeInv, LocksExclude
<1>18. ASSUME NEW w \in Removable, RemoveGames(w) PROVE FreeInv'
  <2> DEFINE R == {g \in HeldBy({w}) : games[g] \in OPEN_GAME_STATUSES}
  <2>1. /\ UNCHANGED <<games, assignments, conns>> /\ removal.stage = "none"
        /\ removal' = [stage |-> "games", worker |-> w, games |-> R, rows |-> {}]
    BY <1>18 DEF RemoveGames, dbVars
  <2>2. \A g \in R : ~GameLocked(g) /\ Active(g) /\ assignments[g].worker = w
    BY <1>18 DEF RemoveGames, HeldBy
  <2>3. LockedGames'
    BY <2>1, <2>2 DEF LockedGames, Active
  <2>4. LocksExclude'
    BY <2>1, <2>2 DEF LocksExclude, GameLocked, Finishing
  <2> QED BY <2>1, <2>3, <2>4 DEF FreeInv, PendingGamesAreFree, Active
<1>19. CASE RemoveAssignments
  <2>1. /\ UNCHANGED <<games, assignments, conns>> /\ removal.stage = "games"
        /\ removal'.stage = "assignments" /\ removal'.worker = removal.worker
        /\ removal'.games = removal.games /\ removal'.rows = HeldBy({removal.worker})
    BY <1>19 DEF RemoveAssignments, RowsToRelease, dbVars, TInv, TypeOK
  <2>2. removal.games \subseteq HeldBy({removal.worker})
    BY <2>1 DEF FreeInv, LockedGames, HeldBy, TInv, TypeOK
  <2>3. LockedGames'
    BY <2>1, <2>2 DEF FreeInv, LockedGames
  <2> QED BY <2>1, <2>3 DEF FreeInv, PendingGamesAreFree, LocksExclude, Active
<1>20. CASE RemoveRow
  <2>1. \A g \in Games : g \notin removal.games => games'[g] = games[g]
    BY <1>20 DEF RemoveRow, GamesReleased
  <2>2. \A g \in Games :
            assignments'[g].status = IF /\ assignments[g].worker = removal.worker
                                        /\ g \in removal.rows
                                     THEN "abandoned" ELSE assignments[g].status
    <3>1. \A row \in AssignmentRow : [row EXCEPT !.worker = None].status = row.status
      BY DEF AssignmentRow
    <3>2. \A g \in Games : AssignmentsReleased(removal.rows)[g] \in AssignmentRow
      BY ReleaseType DEF TInv
    <3>3. \A row \in AssignmentRow :
              [row EXCEPT !.status = "abandoned", !.worker = None].status = "abandoned"
      BY DEF AssignmentRow
    <3>4. \A g \in Games : AssignmentsReleased(removal.rows)[g].status =
                               IF g \in removal.rows THEN "abandoned" ELSE assignments[g].status
      BY <3>3 DEF AssignmentsReleased, TInv, TypeOK
    <3> QED BY <1>20, <3>1, <3>2, <3>4 DEF RemoveRow
  <2>3. \A g \in removal.games : g \in removal.rows /\ assignments[g].worker = removal.worker
    BY <1>20 DEF RemoveRow, FreeInv, LockedGames
  <2>4. \A g \in Games : /\ Active(g)' => Active(g)
                         /\ g \in removal.games => ~Active(g)'
    BY <2>2, <2>3 DEF Active, ACTIVE_ASSIGNMENT_STATUSES
  <2>5. PendingGamesAreFree'
    BY <2>1, <2>4 DEF FreeInv, PendingGamesAreFree
  <2>6. LockedGames' /\ LocksExclude'
    BY <1>20 DEF RemoveRow, NoRemoval, LockedGames, LocksExclude
  <2> QED BY <2>5, <2>6 DEF FreeInv
<1>21. CASE SchedulerReads
  BY <1>21 DEF SchedulerReads, dbVars, FreeInv, PendingGamesAreFree, LockedGames, LocksExclude,
               Active
<1>22. CASE SchedulerWrites
  <2>1. PendingGamesAreFree' /\ LockedGames'
    BY <1>22, StatusFree DEF SchedulerWrites
  <2> QED BY <1>22, <2>1 DEF SchedulerWrites, FreeInv, LocksExclude
<1>23. CASE Crash
  <2>1. \A s \in Sessions : conns'[s].pc \notin Finishing
    BY <1>23 DEF Crash, NoConn, Finishing
  <2> QED BY <1>23, <2>1 DEF Crash, dbVars, FreeInv, PendingGamesAreFree, LockedGames,
                             LocksExclude, Active
<1>24. CASE Restart
  <2>1. PendingGamesAreFree' /\ LockedGames'
    BY <1>24, ReleaseFree DEF Restart
  <2> QED BY <1>24, <2>1 DEF Restart, FreeInv, LocksExclude
<1>25. CASE UNCHANGED vars
  BY <1>25 DEF vars, FreeInv, PendingGamesAreFree, LockedGames, LocksExclude, Active
<1> QED
  BY <1>1, <1>2, <1>3, <1>4, <1>5, <1>6, <1>7, <1>8, <1>9, <1>10, <1>11, <1>12, <1>13,
     <1>14, <1>15, <1>16, <1>17, <1>18, <1>19, <1>20, <1>21, <1>22, <1>23, <1>24, <1>25
  DEF Next, Connects, Prepares, Plays

(* Whoever releases a game, whatever races with it, a game that can be     *)
(* claimed has no active assignment that somebody could still act on: for  *)
(* _release_worker_active_assignments, fail_game_assignment,               *)
(* reset_orphaned_worker_connections, revoke_worker and delete_worker.     *)
THEOREM PendingFree == Spec => []PendingGamesAreFree
<1>1. Init => TInv /\ FreeInv
  <2>1. ASSUME Init PROVE FreeInv
    BY <2>1 DEF Init, FreeInv, PendingGamesAreFree, LockedGames, LocksExclude, NoRemoval, Active,
                ACTIVE_ASSIGNMENT_STATUSES, NoConn, Finishing
  <2> QED BY <2>1, InitTInv
<1>2. TInv /\ FreeInv /\ [Next]_vars => (TInv /\ FreeInv)'
  BY NextTInv, NextFree
<1>3. TInv /\ FreeInv => PendingGamesAreFree
  BY DEF FreeInv
<1> QED BY <1>1, <1>2, <1>3, PTL DEF Spec

-----------------------------------------------------------------------------
(* One game per worker.  An assignment is active only while its worker's   *)
(* current session is a coroutine that holds exactly this assignment: a    *)
(* new session releases what the previous one held, a coroutine lets go of *)
(* an assignment only after ending it, and a restart releases everything   *)
(* of every worker whose row says that it is connected.                    *)
OwnedBySession ==
    serverUp => \A g \in Games :
        Active(g) /\ assignments[g].worker # None =>
            /\ workers[assignments[g].worker].session \in Sessions
            /\ Holds(workers[assignments[g].worker].session, g)
WorkersOn ==
    \A g \in Games : Active(g) /\ assignments[g].worker # None =>
        workers[assignments[g].worker].status \in ASSIGNABLE_WORKER_STATUSES

OwnerInv == OwnedBySession /\ WorkersOn /\ OneGamePerWorker

(* A step that ends assignments or takes the worker from them, changes no  *)
(* worker that has one and lets no coroutine go that holds one.            *)
Ends ==
    \A g \in Games : Active(g)' => /\ Active(g) /\ assignments'[g].key = assignments[g].key
                                   /\ assignments'[g].worker \in {assignments[g].worker, None}
StillOn ==
    \A g \in Games : Active(g)' /\ assignments'[g].worker # None =>
        LET w == assignments[g].worker IN
        /\ workers'[w].session = workers[w].session
        /\ workers[w].status \in ASSIGNABLE_WORKER_STATUSES =>
               workers'[w].status \in ASSIGNABLE_WORKER_STATUSES
StillHeld ==
    serverUp' => /\ serverUp
                 /\ \A s \in Sessions, g \in Games :
                       Holds(s, g) /\ Active(g)' => /\ conns'[s].pc \in Holding
                                                    /\ conns'[s].game = g
                                                    /\ conns'[s].key = conns[s].key

LEMMA ShrinkOwner ==
    ASSUME OwnerInv, Ends, StillOn, StillHeld
    PROVE  OwnerInv'
<1>1. ASSUME NEW g \in Games, Active(g)', assignments'[g].worker # None
      PROVE  /\ Active(g) /\ assignments'[g].key = assignments[g].key
             /\ assignments'[g].worker = assignments[g].worker
  BY <1>1 DEF Ends
<1>2. WorkersOn'
  BY <1>1 DEF StillOn, OwnerInv, WorkersOn
<1>3. OneGamePerWorker'
  <2> SUFFICES ASSUME NEW g \in Games, NEW h \in Games, Active(g)', Active(h)',
                      assignments'[g].worker = assignments'[h].worker
               PROVE  g = h \/ assignments'[g].worker = None
    BY DEF OneGamePerWorker
  <2> QED BY <1>1 DEF OwnerInv, OneGamePerWorker
<1>4. OwnedBySession'
  <2> SUFFICES ASSUME serverUp', NEW g \in Games, Active(g)', assignments'[g].worker # None,
                      NEW w, w = assignments'[g].worker
               PROVE  /\ workers'[w].session \in Sessions
                      /\ conns'[workers'[w].session].pc \in Holding
                      /\ conns'[workers'[w].session].game = g
                      /\ conns'[workers'[w].session].key = assignments'[g].key
    BY DEF OwnedBySession, Holds
  <2>1. Active(g) /\ assignments[g].worker = w /\ assignments'[g].key = assignments[g].key
    BY <1>1
  <2>2. workers[w].session \in Sessions /\ Holds(workers[w].session, g)
    BY <2>1 DEF StillHeld, OwnerInv, OwnedBySession
  <2>3. workers'[w].session = workers[w].session
    BY <2>1 DEF StillOn
  <2> QED BY <2>1, <2>2, <2>3 DEF StillHeld, Holds
<1> QED BY <1>2, <1>3, <1>4 DEF OwnerInv

LEMMA EndsRelease ==
    ASSUME TInv, NEW R, assignments' = AssignmentsReleased(R)
    PROVE  Ends /\ \A g \in R \cap Games : ~Active(g)'
<1>1. \A g \in Games : /\ g \in R => assignments'[g].status = "abandoned"
                       /\ g \notin R => assignments'[g] = assignments[g]
  BY DEF TInv, TypeOK, AssignmentsReleased, AssignmentRow
<1> QED BY <1>1 DEF Ends, Active, ACTIVE_ASSIGNMENT_STATUSES

LEMMA EndsStatus ==
    ASSUME TInv, NEW status, SetTournamentStatus(status, games, assignments)
    PROVE  Ends
<1>1. \A g \in Games : assignments'[g].status = "abandoned" \/ assignments'[g] = assignments[g]
  BY DEF TInv, TypeOK, SetTournamentStatus, AssignmentsAbandoned, AssignmentRow
<1> QED BY <1>1 DEF Ends, Active, ACTIVE_ASSIGNMENT_STATUSES

LEMMA EndsSame == assignments' = assignments => Ends
BY DEF Ends, Active

LEMMA StillOnStatus ==
    ASSUME TInv, Ends, NEW s, NEW status \in ASSIGNABLE_WORKER_STATUSES,
           RecordStatus(s, status) \/ workers' = workers
    PROVE  StillOn
<1>1. \A w \in Workers : /\ workers'[w].session = workers[w].session
                         /\ workers'[w].status \in {status, workers[w].status}
  BY DEF RecordStatus, TInv, TypeOK, WorkerRow
<1>2. \A g \in Games : assignments[g].worker \in Workers \cup {None}
  BY DEF TInv, TypeOK, AssignmentRow
<1> QED BY <1>1, <1>2 DEF StillOn, Ends

LEMMA StillOnSame == workers' = workers => StillOn
BY DEF StillOn

LEMMA StillHeldAt ==
    ASSUME TInv, NEW s \in Sessions, NEW pc \in PC, At(s, pc), serverUp' = serverUp,
           conns[s].pc \in Holding => pc \in Holding
    PROVE  StillHeld
<1>1. /\ \A o \in Sessions \ {s} : conns'[o] = conns[o]
      /\ conns'[s].pc = pc /\ conns'[s].game = conns[s].game /\ conns'[s].key = conns[s].key
  BY AtEffect DEF TInv
<1> QED BY <1>1 DEF StillHeld, Holds

LEMMA StillHeldSame == UNCHANGED <<conns, serverUp>> => StillHeld
BY DEF StillHeld, Holds

(* Every action leaves each worker with one game at most.                  *)
LEMMA NextOwner == TInv /\ OwnerInv /\ [Next]_vars => OwnerInv'
<1> SUFFICES ASSUME TInv, OwnerInv, [Next]_vars PROVE OwnerInv' OBVIOUS
<1> USE ShrinkOwner
<1>1. ASSUME NEW w \in Workers, NEW s \in Sessions, Authenticate(w, s) PROVE OwnerInv'
  <2>1. \A o \in Sessions \ {s} : conns'[o] = conns[o]
    BY <1>1 DEF Authenticate, TInv, TypeOK
  <2>2. StillHeld
    BY <1>1, <2>1 DEF Authenticate, StillHeld, Holds, Holding, ThreadAt
  <2> QED BY <1>1, <2>2, EndsSame, StillOnSame DEF Authenticate, dbVars
<1>2. ASSUME NEW s \in Sessions, RecordConnection(s) PROVE OwnerInv'
  <2>1. PICK w \in Workers : w = conns[s].worker
    BY <1>2, OneConn DEF RecordConnection
  <2>2. Ends /\ \A g \in HeldBy({w}) \cap Games : ~Active(g)'
    BY <1>2, <2>1, EndsRelease DEF RecordConnection, ReleasedOnConnect
  <2>3. \A g \in Games : Active(g)' => assignments[g].worker # w
    BY <2>2 DEF Ends, HeldBy
  <2>4. \A v \in Workers \ {w} : workers'[v] = workers[v]
    BY <1>2, <2>1 DEF RecordConnection, TInv, TypeOK
  <2>5. StillOn
    BY <2>2, <2>3, <2>4 DEF StillOn, Ends, TInv, TypeOK, AssignmentRow
  <2>6. StillHeld
    BY <1>2, StillHeldAt DEF RecordConnection, PC, Holding, ThreadAt
  <2> QED BY <2>2, <2>5, <2>6
<1>3. ASSUME NEW s \in Sessions, Disconnect(s) PROVE OwnerInv'
  <2>1. PICK w \in Workers : w = conns[s].worker
    BY <1>3, OneConn DEF Disconnect
  <2>2. StillHeld
    BY <1>3 DEF Disconnect, StillHeld, Holds, Holding, ThreadAt, TInv, TypeOK
  <2>3. CASE SessionCurrent(s)
    <3>1. Ends /\ \A g \in HeldBy({w}) \cap Games : ~Active(g)'
      BY <1>3, <2>1, <2>3, EndsRelease DEF Disconnect
    <3>2. \A g \in Games : Active(g)' => assignments[g].worker # w
      BY <3>1 DEF Ends, HeldBy
    <3>3. \A v \in Workers \ {w} : workers'[v] = workers[v]
      BY <1>3, <2>1, <2>3 DEF Disconnect, TInv, TypeOK
    <3>4. StillOn
      BY <3>1, <3>2, <3>3 DEF StillOn, Ends, TInv, TypeOK, AssignmentRow
    <3> QED BY <3>1, <3>4, <2>2
  <2>4. CASE ~SessionCurrent(s)
    <3>1. Ends /\ StillOn
      BY <1>3, <2>4, EndsRelease, StillOnSame DEF Disconnect
    <3> QED BY <3>1, <2>2
  <2> QED BY <2>3, <2>4
<1>4. ASSUME NEW s \in Sessions, SocketCloses(s) PROVE OwnerInv'
  <2>1. \A o \in Sessions : /\ conns'[o].pc = conns[o].pc /\ conns'[o].game = conns[o].game
                            /\ conns'[o].key = conns[o].key
    BY <1>4 DEF SocketCloses, TInv, TypeOK, Conn
  <2>2. StillHeld
    BY <1>4, <2>1 DEF SocketCloses, StillHeld, Holds
  <2> QED BY <1>4, <2>2, EndsSame, StillOnSame DEF SocketCloses, dbVars
<1>5. ASSUME NEW s \in Sessions, NEW g \in Games, NEW k \in Keys, Claim(s, g, k)
      PROVE  OwnerInv'
  <2>1. PICK w \in Workers : w = conns[s].worker
    BY <1>5, OneConn DEF Claim
  <2>2. /\ workers[w].session = s /\ workers[w].status \in ASSIGNABLE_WORKER_STATUSES
        /\ serverUp /\ conns[s].pc = "idle" /\ workers' = workers
    BY <1>5, <2>1 DEF Claim, Assignable, SessionCurrent, LoopFree
  <2>3. /\ \A h \in Games \ {g} : assignments'[h] = assignments[h]
        /\ assignments'[g] = [key |-> k, worker |-> w, status |-> "assigned"]
    BY <1>5, <2>1 DEF Claim, TInv, TypeOK
  <2>4. /\ \A o \in Sessions \ {s} : conns'[o] = conns[o]
        /\ conns'[s].pc = "claimed" /\ conns'[s].game = g /\ conns'[s].key = k
    BY <1>5 DEF Claim, TInv, TypeOK, Conn
  <2>5. \A h \in Games : Active(h) => /\ assignments[h].worker # w \/ w = None
                                      /\ ~Holds(s, h)
    BY <2>2 DEF OwnerInv, OwnedBySession, Holds, Holding, ThreadAt
  <2>6. \A h \in Games \ {g} : Active(h)' <=> Active(h)
    BY <2>3 DEF Active
  <2>7. WorkersOn'
    BY <2>2, <2>3, <2>6 DEF OwnerInv, WorkersOn
  <2>8. OneGamePerWorker'
    BY <2>3, <2>5, <2>6 DEF OwnerInv, OneGamePerWorker
  <2>9. OwnedBySession'
    BY <2>2, <2>3, <2>4, <2>5, <2>6 DEF OwnerInv, OwnedBySession, Holds, Holding
  <2> QED BY <2>7, <2>8, <2>9 DEF OwnerInv
<1>6. ASSUME NEW s \in Sessions, NoAssignment(s) PROVE OwnerInv'
  BY <1>6, EndsSame, StillOnStatus, StillHeldSame DEF NoAssignment, ASSIGNABLE_WORKER_STATUSES
<1>7. ASSUME NEW s \in Sessions, RecordDownloading(s) \/ RecordBusy(s) PROVE OwnerInv'
  <2>1. StillHeld
    BY <1>7, StillHeldAt DEF RecordDownloading, RecordBusy, PC, Holding, ThreadAt
  <2> QED BY <1>7, <2>1, EndsSame, StillOnStatus
          DEF RecordDownloading, RecordBusy, ASSIGNABLE_WORKER_STATUSES
<1>8. ASSUME NEW s \in Sessions,
             \/ PreparationFails(s) \/ FindMove(s) \/ EndGame(s) \/ FinishGame(s)
             \/ ThreadFails(s)
      PROVE  OwnerInv'
  <2>1. UNCHANGED <<assignments, workers, serverUp>>
    BY <1>8 DEF PreparationFails, FindMove, EndGame, FinishGame, ThreadFails, ThreadStep, dbVars
  <2>2. StillHeld
    BY <1>8, <2>1, StillHeldAt DEF PreparationFails, FindMove, EndGame, FinishGame, ThreadFails,
                                   PC, Holding, ThreadAt
  <2> QED BY <2>1, <2>2, EndsSame, StillOnSame
<1>9. ASSUME NEW s \in Sessions, Acknowledge(s) PROVE OwnerInv'
  <2>1. \A g \in Games : /\ assignments'[g].worker = assignments[g].worker
                         /\ assignments'[g].key = assignments[g].key
                         /\ Active(g)' <=> Active(g)
    BY <1>9 DEF Acknowledge, Active, ACTIVE_ASSIGNMENT_STATUSES, TInv, TypeOK, AssignmentRow
  <2>2. StillHeld
    BY <1>9, StillHeldAt DEF Acknowledge, PC, Holding, ThreadAt
  <2> QED BY <1>9, <2>1, <2>2, StillOnSame DEF Acknowledge, Ends
<1>10. ASSUME NEW s \in Sessions, FailAssignment(s) PROVE OwnerInv'
  <2>1. PICK g \in Games : g = conns[s].game
    BY <1>10, OneConn DEF FailAssignment, Holding, ThreadAt
  <2>2. \A h \in Games \ {g} : assignments'[h] = assignments[h]
    BY <1>10, <2>1 DEF FailAssignment, TInv, TypeOK
  <2>3. (assignments[g].key # conns[s].key /\ assignments'[g] = assignments[g]) \/ ~Active(g)'
    BY <1>10, <2>1 DEF FailAssignment, Active, ACTIVE_ASSIGNMENT_STATUSES, TInv, TypeOK,
                       AssignmentRow
  <2>4. Ends
    BY <2>2, <2>3 DEF Ends, Active
  <2>5. \A o \in Sessions \ {s} : conns'[o] = conns[o]
    BY <1>10, IdleEffect DEF FailAssignment, TInv
  <2>6. StillHeld
    BY <1>10, <2>1, <2>3, <2>5 DEF FailAssignment, StillHeld, Holds
  <2> QED BY <1>10, <2>4, <2>6, StillOnSame DEF FailAssignment
<1>11. ASSUME NEW s \in Sessions, StartGame(s) \/ RecordMove(s) \/ JudgeTournament(s)
       PROVE  OwnerInv'
  <2>1. UNCHANGED <<assignments, workers, serverUp>>
    BY <1>11 DEF StartGame, RecordMove, NextPly, JudgeTournament, ThreadStep, dbVars
  <2>2. /\ \A o \in Sessions \ {s} : conns'[o] = conns[o]
        /\ conns'[s].pc \in Holding /\ conns'[s].game = conns[s].game
        /\ conns'[s].key = conns[s].key
    BY <1>11 DEF StartGame, RecordMove, NextPly, JudgeTournament, Holding, ThreadAt, TInv, TypeOK, Conn
  <2>3. StillHeld
    BY <2>1, <2>2 DEF StillHeld, Holds
  <2> QED BY <2>1, <2>3, EndsSame, StillOnSame
<1>12. ASSUME NEW s \in Sessions, MarkLive(s) PROVE OwnerInv'
  <2>1. \A g \in Games : /\ assignments'[g].worker = assignments[g].worker
                         /\ assignments'[g].key = assignments[g].key
                         /\ Active(g)' <=> Active(g)
    BY <1>12 DEF MarkLive, ValidAssignment, Active, ACTIVE_ASSIGNMENT_STATUSES, TInv, TypeOK,
                 AssignmentRow
  <2>2. StillHeld
    BY <1>12, StillHeldAt DEF MarkLive, ThreadStep, PC, Holding, ThreadAt
  <2> QED BY <1>12, <2>1, <2>2, StillOnSame DEF MarkLive, Ends
<1>13. ASSUME NEW s \in Sessions, CommitGame(s) PROVE OwnerInv'
  <2>1. PICK g \in Games : g = conns[s].game
    BY <1>13, OneConn DEF CommitGame, ThreadStep, Holding, ThreadAt
  <2>2. \A h \in Games : Active(h)' => /\ assignments'[h] = assignments[h]
                                       /\ h = g => assignments[h].key # conns[s].key
    BY <1>13, <2>1, CommitEffect
  <2>3. Ends
    BY <2>2 DEF Ends, Active
  <2>4. \A o \in Sessions \ {s} : conns'[o] = conns[o]
    BY <1>13, IdleEffect DEF CommitGame, TInv
  <2>5. StillHeld
    BY <1>13, <2>1, <2>2, <2>4 DEF CommitGame, ThreadStep, StillHeld, Holds
  <2> QED BY <1>13, <2>3, <2>5, StillOnSame DEF CommitGame
<1>14. CASE \/ \E a \in Admins : AdminReads(a)
            \/ (\E w \in Removable : RemoveGames(w)) \/ RemoveAssignments \/ SchedulerReads
  BY <1>14, EndsSame, StillOnSame, StillHeldSame
  DEF AdminReads, RemoveGames, RemoveAssignments, SchedulerReads, dbVars
<1>15. CASE (\E a \in Admins : AdminWrites(a)) \/ SchedulerWrites
  BY <1>15, EndsStatus, StillOnSame, StillHeldSame DEF AdminWrites, SchedulerWrites
<1>16. CASE RemoveRow
  <2>1. \A g \in Games :
            /\ assignments[g].worker # removal.worker => assignments'[g] = assignments[g]
            /\ assignments[g].worker = removal.worker =>
                   /\ assignments'[g].worker = None
                   /\ assignments'[g].key = assignments[g].key
                   /\ Active(g)' => Active(g)
    <3>1. \A g \in Games : AssignmentsReleased(removal.rows)[g] \in AssignmentRow
      BY ReleaseType DEF TInv
    <3>2. \A g \in Games :
              /\ AssignmentsReleased(removal.rows)[g].key = assignments[g].key
              /\ AssignmentsReleased(removal.rows)[g].status \in {"abandoned", assignments[g].status}
      BY DEF AssignmentsReleased, TInv, TypeOK, AssignmentRow
    <3>3. \A row \in AssignmentRow : /\ [row EXCEPT !.worker = None].status = row.status
                                     /\ [row EXCEPT !.worker = None].key = row.key
                                     /\ [row EXCEPT !.worker = None].worker = None
      BY DEF AssignmentRow
    <3> QED BY <1>16, <3>1, <3>2, <3>3 DEF RemoveRow, Active, ACTIVE_ASSIGNMENT_STATUSES
  <2>2. Ends
    BY <2>1 DEF Ends, Active
  <2>3. \A w \in Workers \ {removal.worker} : workers'[w] = workers[w]
    BY <1>16 DEF RemoveRow, TInv, TypeOK
  <2>4. StillOn
    BY <2>1, <2>2, <2>3 DEF StillOn, Ends, TInv, TypeOK, AssignmentRow
  <2> QED BY <1>16, <2>2, <2>4, StillHeldSame DEF RemoveRow
<1>17. CASE Crash
  BY <1>17, EndsSame, StillOnSame DEF Crash, dbVars, StillHeld
<1>18. CASE Restart
  <2>1. Ends /\ \A g \in HeldBy(OrphanedWorkers) \cap Games : ~Active(g)'
    BY <1>18, EndsRelease DEF Restart
  <2>2. \A g \in Games : Active(g)' => assignments'[g].worker = None
    BY <2>1 DEF Ends, HeldBy, OrphanedWorkers, OwnerInv, WorkersOn, TInv, TypeOK, AssignmentRow
  <2> QED BY <2>2 DEF OwnerInv, OwnedBySession, WorkersOn, OneGamePerWorker
<1>19. CASE UNCHANGED vars
  BY <1>19, EndsSame, StillOnSame, StillHeldSame DEF vars
<1> QED
  BY <1>1, <1>2, <1>3, <1>4, <1>5, <1>6, <1>7, <1>8, <1>9, <1>10, <1>11, <1>12, <1>13,
     <1>14, <1>15, <1>16, <1>17, <1>18, <1>19
  DEF Next, Connects, Prepares, Plays

(* A worker is never given a second game while it still has one, however   *)
(* often it reconnects, is removed or the server restarts: claims, session *)
(* replacement and _release_worker_active_assignments together.            *)
THEOREM OneGameEach == Spec => []OneGamePerWorker
<1>1. Init => TInv /\ OwnerInv
  <2>1. ASSUME Init PROVE OwnerInv
    BY <2>1 DEF Init, OwnerInv, OwnedBySession, WorkersOn, OneGamePerWorker, Active,
                ACTIVE_ASSIGNMENT_STATUSES
  <2> QED BY <2>1, InitTInv
<1>2. TInv /\ OwnerInv /\ [Next]_vars => (TInv /\ OwnerInv)'
  BY NextTInv, NextOwner
<1>3. TInv /\ OwnerInv => OneGamePerWorker
  BY DEF OwnerInv
<1> QED BY <1>1, <1>2, <1>3, PTL DEF Spec

-----------------------------------------------------------------------------
(* Open games are held.  While the server runs, an open game loses its     *)
(* coroutine only in the transaction that closes or releases it.  A crash  *)
(* takes the coroutines away: the restart then finds every open game       *)
(* through the worker of its assignment, unless a removal that raced a     *)
(* claim has cut the game off from its worker.                             *)
CutOff == Removable = {} =>
    /\ removal.stage = "none"
    /\ \A g \in Games : /\ Active(g) => assignments[g].worker # None
                        /\ g \in OpenGames => Active(g)
DeadOnce == ~serverUp => crashes # 0

HeldInv == CutOff /\ DeadOnce /\ OpenGamesAreHeld

(* What an open game needs to stay held by the coroutine that holds it.    *)
StaysHeld ==
    /\ serverUp' => serverUp /\ crashes' = crashes
    /\ \A s \in Sessions, g \in Games :
          games'[g] \in OPEN_GAME_STATUSES /\ Holds(s, g) =>
              /\ conns'[s].pc \in Holding /\ conns'[s].game = g
              /\ conns'[s].key = assignments'[g].key
    /\ \A g \in Games : games'[g] \in OPEN_GAME_STATUSES =>
           g \in OpenGames \/ \E s \in Sessions : Holds(s, g)

LEMMA StaysHeldStep ==
    ASSUME OpenGamesAreHeld, StaysHeld
    PROVE  OpenGamesAreHeld'
<1> SUFFICES ASSUME serverUp', crashes' = 0 \/ Removable = {},
                    NEW g \in Games, games'[g] \in OPEN_GAME_STATUSES
             PROVE  \E s \in Sessions : /\ conns'[s].pc \in Holding /\ conns'[s].game = g
                                        /\ conns'[s].key = assignments'[g].key
  BY DEF OpenGamesAreHeld, OpenGames, Holds
<1>1. \E s \in Sessions : Holds(s, g)
  BY DEF StaysHeld, OpenGamesAreHeld
<1> QED BY <1>1 DEF StaysHeld

(* A step that opens no game and takes no assignment away from one that    *)
(* stays open.                                                             *)
Closes ==
    /\ Removable = {} => removal'.stage = "none"
    /\ \A g \in Games :
          /\ games'[g] \in OPEN_GAME_STATUSES =>
                 g \in OpenGames /\ (Active(g) => Active(g)')
          /\ Removable = {} /\ Active(g)' =>
                 Active(g) /\ assignments'[g].worker = assignments[g].worker

LEMMA ClosesStep ==
    ASSUME CutOff, Closes
    PROVE  CutOff'
BY DEF CutOff, Closes, OpenGames

(* Nothing but coroutines moves, and none leaves an assignment.            *)
LEMMA QuietHeld ==
    ASSUME HeldInv, UNCHANGED <<games, assignments, serverUp, crashes>>,
           Removable = {} => removal'.stage = "none",
           \A s \in Sessions : conns[s].pc \in Holding =>
               /\ conns'[s].pc \in Holding /\ conns'[s].game = conns[s].game
               /\ conns'[s].key = conns[s].key
    PROVE  HeldInv'
<1>1. StaysHeld
  BY DEF StaysHeld, Holds, OpenGames
<1>2. Closes
  BY DEF Closes, OpenGames, Active
<1> QED BY <1>1, <1>2, StaysHeldStep, ClosesStep DEF HeldInv, DeadOnce

(* A coroutine moves on with its assignment, or without having one.        *)
LEMMA QuietAt ==
    ASSUME TInv, HeldInv, UNCHANGED <<games, assignments, serverUp, crashes, removal>>,
           NEW s \in Sessions, NEW pc \in PC, At(s, pc),
           conns[s].pc \in Holding => pc \in Holding
    PROVE  HeldInv'
<1>1. /\ \A o \in Sessions \ {s} : conns'[o] = conns[o]
      /\ conns'[s].pc = pc /\ conns'[s].game = conns[s].game /\ conns'[s].key = conns[s].key
  BY AtEffect DEF TInv
<1> QED BY <1>1, QuietHeld DEF HeldInv, CutOff

(* Games are released while no coroutine leaves an assignment.             *)
LEMMA ReleaseHeld ==
    ASSUME TInv, HeldInv, NEW R \in SUBSET Games,
           games' = GamesReleased(R), assignments' = AssignmentsReleased(R),
           UNCHANGED <<serverUp, crashes, removal>>,
           \A s \in Sessions : conns[s].pc \in Holding => conns'[s] = conns[s]
    PROVE  HeldInv'
<1>1. \A g \in Games : /\ g \in R => /\ games'[g] \notin OPEN_GAME_STATUSES
                                     /\ assignments'[g].status = "abandoned"
                       /\ g \notin R => games'[g] = games[g] /\ assignments'[g] = assignments[g]
  BY DEF GamesReleased, AssignmentsReleased, OPEN_GAME_STATUSES, TInv, TypeOK, AssignmentRow
<1>2. StaysHeld
  BY <1>1 DEF StaysHeld, Holds, OpenGames
<1>3. Closes
  BY <1>1 DEF Closes, OpenGames, Active, ACTIVE_ASSIGNMENT_STATUSES, HeldInv, CutOff
<1> QED BY <1>2, <1>3, StaysHeldStep, ClosesStep DEF HeldInv, DeadOnce

(* A status is written; an aborted tournament has no open game left.       *)
LEMMA StatusHeld ==
    ASSUME TInv, HeldInv, NEW status, SetTournamentStatus(status, games, assignments),
           UNCHANGED <<serverUp, crashes, removal, conns>>
    PROVE  HeldInv'
<1>1. CASE status = "aborted"
  <2>1. \A g \in Games :
            /\ games'[g] \notin OPEN_GAME_STATUSES
            /\ assignments'[g].status = "abandoned" \/ assignments'[g] = assignments[g]
    BY <1>1 DEF SetTournamentStatus, GamesAbandoned, AssignmentsAbandoned, OPEN_GAME_STATUSES,
                TInv, TypeOK, AssignmentRow
  <2>2. StaysHeld
    BY <2>1 DEF StaysHeld
  <2>3. Closes
    BY <2>1 DEF Closes, Active, ACTIVE_ASSIGNMENT_STATUSES, HeldInv, CutOff
  <2> QED BY <2>2, <2>3, StaysHeldStep, ClosesStep DEF HeldInv, DeadOnce
<1>2. CASE status # "aborted"
  BY <1>2, QuietHeld DEF SetTournamentStatus, HeldInv, CutOff
<1> QED BY <1>1, <1>2

(* Every action keeps open games held.                                     *)
LEMMA NextHeld == TInv /\ OwnerInv /\ HeldInv /\ [Next]_vars => HeldInv'
<1> SUFFICES ASSUME TInv, OwnerInv, HeldInv, [Next]_vars PROVE HeldInv' OBVIOUS
<1>1. ASSUME NEW w \in Workers, NEW s \in Sessions, Authenticate(w, s) PROVE HeldInv'
  <2>1. \A o \in Sessions \ {s} : conns'[o] = conns[o]
    BY <1>1 DEF Authenticate, TInv, TypeOK
  <2>2. conns[s].pc \notin Holding
    BY <1>1 DEF Authenticate, Holding, ThreadAt
  <2> QED BY <1>1, <2>1, <2>2, QuietHeld DEF Authenticate, dbVars, HeldInv, CutOff
<1>2. ASSUME NEW s \in Sessions, RecordConnection(s) PROVE HeldInv'
  <2>1. \A o \in Sessions : conns[o].pc \in Holding => conns'[o] = conns[o]
    BY <1>2, AtEffect DEF RecordConnection, PC, Holding, ThreadAt, TInv
  <2> QED BY <1>2, <2>1, ReleaseHeld DEF RecordConnection, ReleasedOnConnect, HeldBy
<1>3. ASSUME NEW s \in Sessions, Disconnect(s) PROVE HeldInv'
  <2>1. \A o \in Sessions : conns[o].pc \in Holding => conns'[o] = conns[o]
    BY <1>3 DEF Disconnect, Holding, ThreadAt, TInv, TypeOK
  <2> QED BY <1>3, <2>1, ReleaseHeld DEF Disconnect, HeldBy
<1>4. ASSUME NEW s \in Sessions, SocketCloses(s) PROVE HeldInv'
  <2>1. \A o \in Sessions : /\ conns'[o].pc = conns[o].pc /\ conns'[o].game = conns[o].game
                            /\ conns'[o].key = conns[o].key
    BY <1>4 DEF SocketCloses, TInv, TypeOK, Conn
  <2> QED BY <1>4, <2>1, QuietHeld DEF SocketCloses, dbVars, HeldInv, CutOff
<1>5. ASSUME NEW s \in Sessions, NEW g \in Games, NEW k \in Keys, Claim(s, g, k)
      PROVE  HeldInv'
  <2>1. /\ serverUp' = serverUp /\ crashes' = crashes /\ removal' = removal
        /\ conns[s].pc = "idle" /\ games[g] = "pending" /\ conns[s].worker \in Workers
    BY <1>5, OneConn DEF Claim, NextPlayable
  <2>2. /\ \A h \in Games \ {g} : assignments'[h] = assignments[h] /\ games'[h] = games[h]
        /\ assignments'[g] = [key |-> k, worker |-> conns[s].worker, status |-> "assigned"]
    BY <1>5 DEF Claim, TInv, TypeOK
  <2>3. /\ \A o \in Sessions \ {s} : conns'[o] = conns[o]
        /\ conns'[s].pc = "claimed" /\ conns'[s].game = g /\ conns'[s].key = k
    BY <1>5 DEF Claim, TInv, TypeOK, Conn
  <2>4. ASSUME serverUp', crashes' = 0 \/ Removable = {},
               NEW h \in Games, games'[h] \in OPEN_GAME_STATUSES
        PROVE  \E o \in Sessions : /\ conns'[o].pc \in Holding /\ conns'[o].game = h
                                   /\ conns'[o].key = assignments'[h].key
    <3>1. CASE h = g
      BY <2>2, <2>3, <3>1 DEF Holding
    <3>2. CASE h # g
      <4>1. PICK o \in Sessions : Holds(o, h)
        BY <2>1, <2>2, <2>4, <3>2 DEF HeldInv, OpenGamesAreHeld, OpenGames
      <4>2. o # s
        BY <2>1, <4>1 DEF Holds, Holding, ThreadAt
      <4> QED BY <2>2, <2>3, <3>2, <4>1, <4>2 DEF Holds
    <3> QED BY <3>1, <3>2
  <2>5. OpenGamesAreHeld'
    BY <2>4 DEF OpenGamesAreHeld, OpenGames, Holds
  <2>6. CutOff'
    BY <2>1, <2>2, DispatchAssumption
    DEF HeldInv, CutOff, OpenGames, Active, ACTIVE_ASSIGNMENT_STATUSES
  <2> QED BY <2>1, <2>5, <2>6 DEF HeldInv, DeadOnce
<1>6. ASSUME NEW s \in Sessions, NoAssignment(s) PROVE HeldInv'
  BY <1>6, QuietHeld DEF NoAssignment, HeldInv, CutOff
<1>7. ASSUME NEW s \in Sessions,
             \/ RecordDownloading(s) \/ RecordBusy(s) \/ PreparationFails(s)
             \/ FindMove(s) \/ EndGame(s) \/ FinishGame(s) \/ ThreadFails(s)
      PROVE  HeldInv'
  <2>1. UNCHANGED <<games, assignments, serverUp, crashes, removal>>
    BY <1>7 DEF RecordDownloading, RecordBusy, PreparationFails, FindMove, EndGame, FinishGame,
                ThreadFails, ThreadStep, dbVars
  <2>2. \E pc \in PC \cap Holding : At(s, pc)
    BY <1>7 DEF RecordDownloading, RecordBusy, PreparationFails, FindMove, EndGame, FinishGame,
                ThreadFails, PC, Holding, ThreadAt
  <2> QED BY <2>1, <2>2, QuietAt
<1>8. ASSUME NEW s \in Sessions, Acknowledge(s) PROVE HeldInv'
  <2>1. \A g \in Games : /\ assignments'[g].worker = assignments[g].worker
                         /\ assignments'[g].key = assignments[g].key
                         /\ Active(g)' <=> Active(g)
    BY <1>8 DEF Acknowledge, Active, ACTIVE_ASSIGNMENT_STATUSES, TInv, TypeOK, AssignmentRow
  <2>2. UNCHANGED <<games, removal, serverUp, crashes>>
    BY <1>8 DEF Acknowledge
  <2>3. /\ \A o \in Sessions \ {s} : conns'[o] = conns[o]
        /\ conns'[s].pc \in Holding /\ conns'[s].game = conns[s].game
        /\ conns'[s].key = conns[s].key
    BY <1>8, AtEffect DEF Acknowledge, PC, Holding, ThreadAt, TInv
  <2>4. StaysHeld
    BY <2>1, <2>2, <2>3 DEF StaysHeld, Holds, OpenGames
  <2>5. Closes
    BY <2>1, <2>2 DEF Closes, OpenGames, HeldInv, CutOff
  <2> QED BY <2>2, <2>4, <2>5, StaysHeldStep, ClosesStep DEF HeldInv, DeadOnce
<1>9. ASSUME NEW s \in Sessions, FailAssignment(s) PROVE HeldInv'
  <2>1. PICK g \in Games : g = conns[s].game
    BY <1>9, OneConn DEF FailAssignment, Holding, ThreadAt
  <2>2. /\ UNCHANGED <<removal, serverUp, crashes>>
        /\ \A h \in Games \ {g} : assignments'[h] = assignments[h] /\ games'[h] = games[h]
    BY <1>9, <2>1 DEF FailAssignment, GamesReleased, TInv, TypeOK
  <2>3. \/ /\ assignments[g].key # conns[s].key
           /\ assignments'[g] = assignments[g] /\ games'[g] = games[g]
        \/ ~Active(g)' /\ games'[g] \notin OPEN_GAME_STATUSES
    BY <1>9, <2>1 DEF FailAssignment, GamesReleased, Active, ACTIVE_ASSIGNMENT_STATUSES,
                      OPEN_GAME_STATUSES, TInv, TypeOK, AssignmentRow
  <2>4. \A o \in Sessions \ {s} : conns'[o] = conns[o]
    BY <1>9, IdleEffect DEF FailAssignment, TInv
  <2>5. \A o \in Sessions, h \in Games :
            games'[h] \in OPEN_GAME_STATUSES /\ Holds(o, h) =>
                o # s /\ games'[h] = games[h] /\ assignments'[h].key = assignments[h].key
    <3> SUFFICES ASSUME NEW o \in Sessions, NEW h \in Games,
                        games'[h] \in OPEN_GAME_STATUSES, Holds(o, h)
                 PROVE  o # s /\ games'[h] = games[h] /\ assignments'[h].key = assignments[h].key
      OBVIOUS
    <3>1. CASE h = g
      BY <2>1, <2>3, <3>1 DEF Holds
    <3>2. CASE h # g
      BY <2>1, <2>2, <3>2 DEF Holds
    <3> QED BY <3>1, <3>2
  <2>6. \A h \in Games : games'[h] \in OPEN_GAME_STATUSES => games'[h] = games[h]
    BY <2>2, <2>3
  <2>7. StaysHeld
    BY <2>2, <2>4, <2>5, <2>6 DEF StaysHeld, Holds, OpenGames
  <2>8. Closes
    BY <2>2, <2>3, <2>6 DEF Closes, OpenGames, Active, HeldInv, CutOff
  <2> QED BY <2>2, <2>7, <2>8, StaysHeldStep, ClosesStep DEF HeldInv, DeadOnce
<1>10. ASSUME NEW s \in Sessions, StartGame(s) \/ RecordMove(s) \/ JudgeTournament(s)
       PROVE  HeldInv'
  <2>1. UNCHANGED <<games, assignments, serverUp, crashes, removal>>
    BY <1>10 DEF StartGame, RecordMove, NextPly, JudgeTournament, ThreadStep, dbVars
  <2>2. /\ \A o \in Sessions \ {s} : conns'[o] = conns[o]
        /\ conns'[s].pc \in Holding /\ conns'[s].game = conns[s].game
        /\ conns'[s].key = conns[s].key
    BY <1>10 DEF StartGame, RecordMove, NextPly, JudgeTournament, Holding, ThreadAt, TInv, TypeOK, Conn
  <2> QED BY <2>1, <2>2, QuietHeld DEF HeldInv, CutOff
<1>11. ASSUME NEW s \in Sessions, MarkLive(s) PROVE HeldInv'
  <2>1. PICK g \in Games : g = conns[s].game
    BY <1>11, OneConn DEF MarkLive, ThreadStep, Holding, ThreadAt
  <2>2. \A h \in Games : /\ assignments'[h].worker = assignments[h].worker
                         /\ assignments'[h].key = assignments[h].key
                         /\ Active(h)' <=> Active(h)
    BY <1>11 DEF MarkLive, ValidAssignment, Active, ACTIVE_ASSIGNMENT_STATUSES, TInv, TypeOK,
                 AssignmentRow
  <2>3. /\ UNCHANGED <<removal, serverUp, crashes>>
        /\ \A h \in Games \ {g} : games'[h] = games[h]
    BY <1>11, <2>1 DEF MarkLive, ThreadStep, TInv, TypeOK
  <2>4. Active(g) /\ Holds(s, g)
    BY <1>11, <2>1 DEF MarkLive, ThreadStep, ValidAssignment, Holds, Holding, ThreadAt
  <2>5. /\ \A o \in Sessions \ {s} : conns'[o] = conns[o]
        /\ conns'[s].pc \in Holding /\ conns'[s].game = conns[s].game
        /\ conns'[s].key = conns[s].key
    BY <1>11, AtEffect DEF MarkLive, PC, Holding, ThreadAt, TInv
  <2>6. StaysHeld
    BY <2>2, <2>3, <2>4, <2>5 DEF StaysHeld, Holds, OpenGames
  <2>7. CutOff'
    BY <2>2, <2>3, <2>4 DEF HeldInv, CutOff, OpenGames
  <2> QED BY <2>3, <2>6, <2>7, StaysHeldStep DEF HeldInv, DeadOnce
<1>12. ASSUME NEW s \in Sessions, CommitGame(s) PROVE HeldInv'
  <2>1. PICK g \in Games : g = conns[s].game
    BY <1>12, OneConn DEF CommitGame, ThreadStep, Holding, ThreadAt
  <2>2. UNCHANGED <<removal, serverUp, crashes>>
    BY <1>12 DEF CommitGame, ThreadStep
  <2>3. \A h \in Games :
            /\ games'[h] \in OPEN_GAME_STATUSES =>
                   h # g /\ games'[h] = games[h] /\ assignments'[h] = assignments[h]
            /\ Active(h)' => assignments'[h] = assignments[h]
    BY <1>12, <2>1, CommitEffect DEF OPEN_GAME_STATUSES, TERMINAL_GAME_STATUSES
  <2>4. \A o \in Sessions \ {s} : conns'[o] = conns[o]
    BY <1>12, IdleEffect DEF CommitGame, TInv
  <2>5. StaysHeld
    BY <2>1, <2>2, <2>3, <2>4 DEF StaysHeld, Holds, OpenGames
  <2>6. Closes
    BY <2>2, <2>3 DEF Closes, OpenGames, Active, HeldInv, CutOff
  <2> QED BY <2>2, <2>5, <2>6, StaysHeldStep, ClosesStep DEF HeldInv, DeadOnce
<1>13. CASE (\E a \in Admins : AdminReads(a)) \/ SchedulerReads
  BY <1>13, QuietHeld DEF AdminReads, SchedulerReads, dbVars, HeldInv, CutOff
<1>14. CASE (\E a \in Admins : AdminWrites(a)) \/ SchedulerWrites
  BY <1>14, StatusHeld DEF AdminWrites, SchedulerWrites
<1>15. CASE (\E w \in Removable : RemoveGames(w)) \/ RemoveAssignments
  BY <1>15, QuietHeld DEF RemoveGames, RemoveAssignments, dbVars, HeldInv, CutOff
<1>16. CASE RemoveRow
  <2>1. Removable # {} /\ UNCHANGED <<conns, serverUp, crashes>>
    BY <1>16 DEF RemoveRow, HeldInv, CutOff
  <2>2. \A g \in Games : assignments'[g].key = assignments[g].key
    <3>1. \A g \in Games : AssignmentsReleased(removal.rows)[g] \in AssignmentRow
      BY ReleaseType DEF TInv
    <3>2. \A g \in Games : AssignmentsReleased(removal.rows)[g].key = assignments[g].key
      BY DEF AssignmentsReleased, TInv, TypeOK, AssignmentRow
    <3>3. \A row \in AssignmentRow : [row EXCEPT !.worker = None].key = row.key
      BY DEF AssignmentRow
    <3> QED BY <1>16, <3>1, <3>2, <3>3 DEF RemoveRow
  <2>3. \A g \in Games : games'[g] \in OPEN_GAME_STATUSES => games'[g] = games[g]
    BY <1>16 DEF RemoveRow, GamesReleased, OPEN_GAME_STATUSES
  <2>4. StaysHeld
    BY <2>1, <2>2, <2>3 DEF StaysHeld, Holds, OpenGames
  <2> QED BY <2>1, <2>4, StaysHeldStep DEF HeldInv, CutOff, DeadOnce
<1>17. CASE Crash
  <2>1. CutOff'
    BY <1>17 DEF Crash, dbVars, HeldInv, CutOff, OpenGames, Active
  <2>2. ~serverUp' /\ crashes' # 0
    BY <1>17, DispatchAssumption DEF Crash, TInv, TypeOK
  <2> QED BY <2>1, <2>2 DEF HeldInv, DeadOnce, OpenGamesAreHeld
<1>18. CASE Restart
  <2> DEFINE R == HeldBy(OrphanedWorkers)
  <2>1. \A g \in Games : /\ g \in R => /\ games'[g] \notin OPEN_GAME_STATUSES
                                       /\ assignments'[g].status = "abandoned"
                         /\ g \notin R => /\ games'[g] = games[g]
                                          /\ assignments'[g] = assignments[g]
    BY <1>18 DEF Restart, GamesReleased, AssignmentsReleased, OPEN_GAME_STATUSES, TInv, TypeOK,
                 AssignmentRow
  <2>2. crashes' # 0 /\ serverUp' /\ removal' = removal
    BY <1>18 DEF Restart, HeldInv, DeadOnce
  <2>3. Removable = {} => \A g \in OpenGames : g \in R
    BY DEF HeldInv, CutOff, OpenGames, OwnerInv, WorkersOn, HeldBy, OrphanedWorkers, TInv,
           TypeOK, AssignmentRow
  <2>4. Removable = {} => \A g \in Games : games'[g] \notin OPEN_GAME_STATUSES
    BY <2>1, <2>3 DEF OpenGames
  <2>5. CutOff'
    BY <2>1, <2>2, <2>4 DEF HeldInv, CutOff, OpenGames, Active, ACTIVE_ASSIGNMENT_STATUSES
  <2> QED BY <2>2, <2>4, <2>5 DEF HeldInv, DeadOnce, OpenGamesAreHeld, OpenGames
<1>19. CASE UNCHANGED vars
  BY <1>19, QuietHeld DEF vars, HeldInv, CutOff
<1> QED
  BY <1>1, <1>2, <1>3, <1>4, <1>5, <1>6, <1>7, <1>8, <1>9, <1>10, <1>11, <1>12, <1>13,
     <1>14, <1>15, <1>16, <1>17, <1>18, <1>19
  DEF Next, Connects, Prepares, Plays

(* While the server runs, a game that is assigned or live has a coroutine  *)
(* that holds the key of its assignment and so will finish or fail it:     *)
(* through session replacement, aborts, failures and, when no worker is    *)
(* removed, crashes and reset_orphaned_worker_connections.                 *)
THEOREM OpenHeld == Spec => []OpenGamesAreHeld
<1>1. Init => TInv /\ OwnerInv /\ HeldInv
  <2>1. ASSUME Init PROVE OwnerInv
    BY <2>1 DEF Init, OwnerInv, OwnedBySession, WorkersOn, OneGamePerWorker, Active,
                ACTIVE_ASSIGNMENT_STATUSES
  <2>2. ASSUME Init PROVE HeldInv
    BY <2>2 DEF Init, HeldInv, CutOff, DeadOnce, OpenGamesAreHeld, OpenGames, Active,
                ACTIVE_ASSIGNMENT_STATUSES, OPEN_GAME_STATUSES, NoRemoval
  <2> QED BY <2>1, <2>2, InitTInv
<1>2. TInv /\ OwnerInv /\ HeldInv /\ [Next]_vars => (TInv /\ OwnerInv /\ HeldInv)'
  BY NextTInv, NextOwner, NextHeld
<1>3. TInv /\ OwnerInv /\ HeldInv => OpenGamesAreHeld
  BY DEF HeldInv
<1> QED BY <1>1, <1>2, <1>3, PTL DEF Spec

-----------------------------------------------------------------------------
(* Lines of play: as many moves as plies, each ply once, no ply missing.   *)
IsLine(B) ==
    /\ B \in SUBSET Move /\ IsFiniteSet(B)
    /\ \A m, n \in B : m.ply = n.ply => m = n
    /\ \A m \in B : m.ply <= Cardinality(B)
    /\ \A p \in 1 .. Cardinality(B) : \E m \in B : m.ply = p

LEMMA EmptyLine == IsLine({})
BY FS_EmptySet DEF IsLine

LEMMA LongerLine ==
    ASSUME NEW B, IsLine(B), NEW k \in Keys, Cardinality(B) < MaxPly,
           NEW move, move = [ply |-> Cardinality(B) + 1, by |-> k]
    PROVE  /\ IsLine(B \cup {move}) /\ move \in Move /\ move \notin B
           /\ Cardinality(B \cup {move}) = Cardinality(B) + 1
<1> DEFINE n == Cardinality(B)
<1>1. n \in Nat /\ MaxPly \in Nat
  BY FS_CardinalityType, DispatchAssumption DEF IsLine
<1>2. move \in Move
  BY <1>1 DEF Move
<1>3. \A m \in B : m.ply # n + 1
  BY <1>1 DEF IsLine, Move
<1>4. move \notin B
  BY <1>3
<1>5. IsFiniteSet(B \cup {move}) /\ Cardinality(B \cup {move}) = n + 1
  BY <1>4, FS_AddElement DEF IsLine
<1> HIDE DEF n
<1>6. \A p \in 1 .. n + 1 : p \in 1 .. n \/ p = n + 1
  BY <1>1
<1>7. move.ply = n + 1
  BY DEF n
<1>8. \A m \in B : m.ply <= n + 1
  BY <1>1 DEF IsLine, Move, n
<1>9. \A p \in 1 .. n : \E m \in B : m.ply = p
  BY DEF IsLine, n
<1>10. \A m, o \in B \cup {move} : m.ply = o.ply => m = o
  BY <1>3, <1>7 DEF IsLine
<1>11. \A m \in B \cup {move} : m.ply <= n + 1
  BY <1>1, <1>7, <1>8
<1>12. \A p \in 1 .. n + 1 : \E m \in B \cup {move} : m.ply = p
  BY <1>6, <1>7, <1>9
<1>13. IsLine(B \cup {move})
  <2>1. PICK C : C = B \cup {move}
    OBVIOUS
  <2>2. C \in SUBSET Move
    BY <1>2, <2>1 DEF IsLine
  <2>3. IsFiniteSet(C) /\ Cardinality(C) = n + 1
    BY <1>5, <2>1
  <2>4. IsLine(C)
    <3>1. \A m, o \in C : m.ply = o.ply => m = o
      BY <1>10, <2>1
    <3>2. \A m \in C : m.ply <= Cardinality(C)
      BY <1>11, <2>1, <2>3
    <3>3. \A p \in 1 .. Cardinality(C) : \E m \in C : m.ply = p
      BY <1>12, <2>1, <2>3
    <3> QED BY <2>2, <2>3, <3>1, <3>2, <3>3 DEF IsLine
  <2> QED BY <2>1, <2>4
<1> QED BY <1>2, <1>4, <1>5, <1>13 DEF n

(* A board that shows part of a game's moves shows all of them when the    *)
(* ply after its last is free.                                             *)
LEMMA UpToDate ==
    ASSUME NEW B, NEW M, IsLine(B), IsLine(M), B \subseteq M,
           \A m \in M : m.ply # Cardinality(B) + 1
    PROVE  B = M
<1>1. Cardinality(B) \in Nat /\ Cardinality(M) \in Nat
  BY FS_CardinalityType DEF IsLine
<1>2. Cardinality(B) <= Cardinality(M)
  BY FS_Subset DEF IsLine
<1>3. ~(Cardinality(B) + 1 \in 1 .. Cardinality(M))
  BY DEF IsLine
<1>4. Cardinality(B) = Cardinality(M)
  BY <1>1, <1>2, <1>3
<1> QED BY <1>4, FS_Subset DEF IsLine

-----------------------------------------------------------------------------
(* What holds of the moves and the boards.  A key is with one coroutine;   *)
(* before its game is replayed nobody has written with it; then its moves  *)
(* are the last ones of its board.                                         *)
Before == {"claimed", "offered", "acked", "start"}
Writing == {"marking", "playing", "recording"}

Lines == /\ \A g \in Games : IsLine(moves[g])
         /\ \A s \in Sessions : IsLine(conns[s].board)
BoardsShown ==
    \A s \in Sessions :
        /\ conns[s].game # None => conns[s].board \subseteq moves[conns[s].game]
        /\ conns[s].pc \in Before \cup {"authenticated", "idle"} => conns[s].board = {}
KeysApart ==
    \A s, t \in Sessions :
        conns[s].pc \in Holding /\ conns[t].pc \in Holding /\ conns[s].key = conns[t].key => s = t
KeysIssued == \A g \in Games : \A m \in moves[g] : m.by \in issued
Writers ==
    \A s \in Sessions :
        /\ conns[s].pc \in Before =>
               \A g \in Games : \A m \in moves[g] : m.by # conns[s].key
        /\ conns[s].pc \in Writing =>
               /\ \A g \in Games : \A m \in moves[g] : m.by = conns[s].key =>
                      g = conns[s].game /\ m \in conns[s].board
               /\ \A m, n \in conns[s].board :
                      m.by = conns[s].key /\ m.ply <= n.ply => n.by = conns[s].key

MovesInv == Lines /\ BoardsShown /\ KeysApart /\ KeysIssued /\ Writers

(* A coroutine that moves on without touching its board, or that lets go   *)
(* of its assignment.                                                      *)
MovesOn(s) ==
    \/ /\ conns'[s].game = conns[s].game /\ conns'[s].key = conns[s].key
       /\ conns'[s].board = conns[s].board
       /\ \A pcs \in {Holding, Before, Writing, Before \cup {"authenticated", "idle"}} :
              conns'[s].pc \in pcs => conns[s].pc \in pcs
    \/ conns'[s].board = {} /\ conns'[s].pc \notin Holding

LEMMA QuietMoves ==
    ASSUME MovesInv, UNCHANGED <<moves, issued>>, \A s \in Sessions : MovesOn(s)
    PROVE  MovesInv'
<1>1. Before \subseteq Holding /\ Writing \subseteq Holding
  BY DEF Before, Writing, Holding, ThreadAt
<1>2. ASSUME NEW s \in Sessions
      PROVE  /\ conns'[s].pc \in Holding => conns[s].pc \in Holding /\ conns'[s].key = conns[s].key
             /\ conns'[s].board = {} \/ (/\ conns'[s].board = conns[s].board
                                         /\ conns'[s].game = conns[s].game)
             /\ conns'[s].pc \in Before =>
                    conns[s].pc \in Before /\ conns'[s].key = conns[s].key
             /\ conns'[s].pc \in Writing =>
                    /\ conns[s].pc \in Writing /\ conns'[s].key = conns[s].key
                    /\ conns'[s].board = conns[s].board /\ conns'[s].game = conns[s].game
             /\ conns'[s].board # {} /\ conns'[s].pc \in Before \cup {"authenticated", "idle"} =>
                    conns[s].pc \in Before \cup {"authenticated", "idle"}
  BY <1>1 DEF MovesOn
<1>3. Lines'
  BY <1>2, EmptyLine DEF MovesInv, Lines
<1>4. BoardsShown'
  BY <1>2 DEF MovesInv, BoardsShown
<1>5. KeysApart'
  BY <1>2 DEF MovesInv, KeysApart
<1>6. KeysIssued'
  BY DEF MovesInv, KeysIssued
<1>7. Writers'
  BY <1>2 DEF MovesInv, Writers
<1> QED BY <1>3, <1>4, <1>5, <1>6, <1>7 DEF MovesInv

LEMMA AtMoves ==
    ASSUME TInv, MovesInv, UNCHANGED <<moves, issued>>, NEW s \in Sessions,
           NEW pc \in PC, At(s, pc),
           \A pcs \in {Holding, Before, Writing, Before \cup {"authenticated", "idle"}} :
               pc \in pcs => conns[s].pc \in pcs
    PROVE  MovesInv'
<1>1. /\ \A o \in Sessions \ {s} : conns'[o] = conns[o]
      /\ conns'[s].pc = pc /\ conns'[s].board = conns[s].board
      /\ conns'[s].game = conns[s].game /\ conns'[s].key = conns[s].key
  BY AtEffect DEF TInv
<1>2. \A o \in Sessions : MovesOn(o)
  BY <1>1 DEF MovesOn
<1> QED BY <1>2, QuietMoves

LEMMA IdleMoves ==
    ASSUME TInv, MovesInv, UNCHANGED <<moves, issued>>, NEW s \in Sessions, Idle(s)
    PROVE  MovesInv'
<1>1. \A o \in Sessions \ {s} : conns'[o] = conns[o]
  BY IdleEffect DEF TInv
<1>2. conns'[s].board = {} /\ conns'[s].pc = "idle"
  BY IdleEffect DEF TInv, NoConn
<1>3. \A o \in Sessions : MovesOn(o)
  BY <1>1, <1>2 DEF MovesOn, Holding, ThreadAt
<1> QED BY <1>3, QuietMoves

LEMMA SameMoves ==
    ASSUME MovesInv, UNCHANGED <<moves, issued, conns>>
    PROVE  MovesInv'
<1>1. \A o \in Sessions : MovesOn(o)
  BY DEF MovesOn
<1> QED BY <1>1, QuietMoves

(* A new key has written nothing yet.                                      *)
LEMMA ClaimMoves ==
    ASSUME TInv, MovesInv, NEW s \in Sessions, NEW g \in Games, NEW k \in Keys, Claim(s, g, k)
    PROVE  MovesInv'
<1>1. /\ moves' = moves /\ issued' = issued \cup {k} /\ k \notin issued
      /\ conns[s].pc = "idle" /\ \A o \in Sessions \ {s} : conns'[o] = conns[o]
      /\ conns'[s].pc = "claimed" /\ conns'[s].key = k /\ conns'[s].game = g
      /\ conns'[s].board = conns[s].board
  BY DEF Claim, TInv, TypeOK, Conn
<1>2. conns[s].board = {}
  BY <1>1 DEF MovesInv, BoardsShown
<1>3. \A o \in Sessions : conns[o].pc \in Holding => conns[o].key # k
  BY <1>1, OneConn
<1>4. Lines' /\ BoardsShown' /\ KeysIssued'
  BY <1>1, <1>2 DEF MovesInv, Lines, BoardsShown, KeysIssued
<1>5. KeysApart'
  BY <1>1, <1>3 DEF MovesInv, KeysApart
<1>6. Writers'
  BY <1>1 DEF MovesInv, Writers, KeysIssued, Writing
<1> QED BY <1>4, <1>5, <1>6 DEF MovesInv

(* The board of a thread that starts is what the table holds.              *)
LEMMA StartMoves ==
    ASSUME TInv, MovesInv, NEW s \in Sessions, StartGame(s)
    PROVE  MovesInv'
<1>1. /\ UNCHANGED <<moves, issued>> /\ conns[s].pc = "start" /\ conns[s].game \in Games
      /\ \A o \in Sessions \ {s} : conns'[o] = conns[o]
      /\ conns'[s].pc = "marking" /\ conns'[s].key = conns[s].key
      /\ conns'[s].game = conns[s].game /\ conns'[s].board = moves[conns[s].game]
  <2>1. conns[s].pc = "start" /\ conns[s] \in Conn
    BY DEF StartGame, ThreadStep, TInv, TypeOK
  <2>2. conns[s].game \in Games
    BY <2>1, OneConn DEF Holding, ThreadAt
  <2> QED BY <2>1, <2>2 DEF StartGame, ThreadStep, dbVars, TInv, TypeOK, Conn
<1>2. \A g \in Games : \A m \in moves[g] : m.by # conns[s].key
  BY <1>1 DEF MovesInv, Writers, Before
<1>3. Lines' /\ BoardsShown' /\ KeysIssued'
  BY <1>1 DEF MovesInv, Lines, BoardsShown, KeysIssued, Before
<1>4. KeysApart'
  BY <1>1 DEF MovesInv, KeysApart, Holding, ThreadAt
<1>5. Writers'
  BY <1>1, <1>2 DEF MovesInv, Writers, Before
<1> QED BY <1>3, <1>4, <1>5 DEF MovesInv

(* A move is recorded behind all others, or its ply is taken.              *)
LEMMA RecordedMove ==
    ASSUME TInv, MovesInv, NEW s \in Sessions, RecordMove(s),
           NEW g, g = conns[s].game, NEW k, k = conns[s].key,
           NEW B, B = conns[s].board
    PROVE  LET move == [ply |-> Cardinality(B) + 1, by |-> k] IN
           /\ g \in Games /\ k \in issued /\ k \in Keys
           /\ B = moves[g] /\ Cardinality(B) < MaxPly
           /\ moves' = [moves EXCEPT ![g] = B \cup {move}]
           /\ \A o \in Sessions \ {s} : conns'[o] = conns[o]
           /\ conns'[s].board = B \cup {move} /\ conns'[s].pc = "playing"
           /\ conns'[s].game = g /\ conns'[s].key = k /\ issued' = issued
           /\ conns[s].pc = "recording"
<1> DEFINE move == [ply |-> Cardinality(B) + 1, by |-> k]
<1>1. conns[s].pc = "recording" /\ issued' = issued
  BY DEF RecordMove, ThreadStep
<1>2. g \in Games /\ k \in issued /\ k \in Keys /\ Cardinality(B) < MaxPly /\ conns[s] \in Conn
  BY <1>1, OneConn DEF TInv, TypeOK, Holding, ThreadAt
<1>3. /\ \A m \in moves[g] : m.ply # Cardinality(B) + 1
      /\ moves' = [moves EXCEPT ![g] = @ \cup {move}]
      /\ conns' = [conns EXCEPT ![s].pc = "playing", ![s].board = @ \cup {move}]
  BY DEF RecordMove, PlyFree, NextPly
<1>4. B \subseteq moves[g] /\ IsLine(B) /\ IsLine(moves[g])
  <2>1. g # None
    BY <1>2, DispatchAssumption
  <2> QED BY <1>2, <2>1 DEF MovesInv, BoardsShown, Lines
<1>5. B = moves[g]
  BY <1>3, <1>4, UpToDate
<1> HIDE DEF move
<1>6. moves' = [moves EXCEPT ![g] = B \cup {move}]
  BY <1>2, <1>3, <1>5 DEF TInv, TypeOK
<1>7. /\ \A o \in Sessions \ {s} : conns'[o] = conns[o]
      /\ conns'[s].board = B \cup {move} /\ conns'[s].pc = "playing"
      /\ conns'[s].game = g /\ conns'[s].key = k
  BY <1>2, <1>3 DEF TInv, TypeOK, Conn
<1> QED BY <1>1, <1>2, <1>5, <1>6, <1>7 DEF move

LEMMA RecordMoves ==
    ASSUME TInv, MovesInv, NEW s \in Sessions, RecordMove(s)
    PROVE  MovesInv'
<1>1. PICK g, k, B : g = conns[s].game /\ k = conns[s].key /\ B = conns[s].board
  OBVIOUS
<1>2. PICK move : move = [ply |-> Cardinality(B) + 1, by |-> k]
  OBVIOUS
<1>3. /\ g \in Games /\ k \in issued /\ k \in Keys
      /\ B = moves[g] /\ Cardinality(B) < MaxPly
      /\ moves' = [moves EXCEPT ![g] = B \cup {move}]
      /\ \A o \in Sessions \ {s} : conns'[o] = conns[o]
      /\ conns'[s].board = B \cup {move} /\ conns'[s].pc = "playing"
      /\ conns'[s].game = g /\ conns'[s].key = k /\ issued' = issued
      /\ conns[s].pc = "recording"
  BY <1>1, <1>2, RecordedMove
<1>4. IsLine(B)
  BY <1>1 DEF MovesInv, Lines
<1>5. IsLine(B \cup {move}) /\ move.by = k
  BY <1>2, <1>3, <1>4, LongerLine
<1>6. moves'[g] = B \cup {move} /\ \A h \in Games \ {g} : moves'[h] = moves[h]
  BY <1>3 DEF TInv, TypeOK
<1>7. Lines'
  BY <1>3, <1>5, <1>6 DEF MovesInv, Lines
<1>8. BoardsShown'
  <2>1. ASSUME NEW o \in Sessions \ {s}, conns[o].game # None
        PROVE  conns[o].board \subseteq moves'[conns[o].game]
    <3>1. conns[o].game \in Games /\ conns[o].board \subseteq moves[conns[o].game]
      BY <2>1 DEF TInv, TypeOK, Conn, MovesInv, BoardsShown
    <3> QED BY <1>3, <1>6, <3>1
  <2>2. conns'[s].board \subseteq moves'[conns'[s].game]
    BY <1>3, <1>6
  <2> QED BY <1>3, <2>1, <2>2 DEF MovesInv, BoardsShown, Before
<1>9. KeysApart'
  BY <1>1, <1>3 DEF MovesInv, KeysApart, Holding, ThreadAt
<1>10. KeysIssued'
  BY <1>3, <1>5, <1>6 DEF MovesInv, KeysIssued
<1>11. \A o \in Sessions \ {s} : conns[o].pc \in Before \cup Writing => conns[o].key # k
  BY <1>1, <1>3 DEF MovesInv, KeysApart, Holding, ThreadAt, Before, Writing
<1>12. Writers'
  <2>1. ASSUME NEW o \in Sessions \ {s}
        PROVE  /\ conns[o].pc \in Before =>
                      \A h \in Games : \A m \in moves'[h] : m.by # conns[o].key
               /\ conns[o].pc \in Writing =>
                      \A h \in Games : \A m \in moves'[h] : m.by = conns[o].key =>
                          h = conns[o].game /\ m \in conns[o].board
    BY <1>3, <1>5, <1>6, <1>11 DEF MovesInv, Writers
  <2>2. \A h \in Games : \A m \in moves'[h] : m.by = k => h = g /\ m \in B \cup {move}
    BY <1>1, <1>3, <1>6 DEF MovesInv, Writers, Writing
  <2>3. \A m, n \in B \cup {move} : m.by = k /\ m.ply <= n.ply => n.by = k
    <3>1. \A m, n \in B : m.by = k /\ m.ply <= n.ply => n.by = k
      BY <1>1, <1>3 DEF MovesInv, Writers, Writing
    <3>2. \A n \in B : ~(move.ply <= n.ply)
      <4>1. Cardinality(B) \in Nat /\ move.ply = Cardinality(B) + 1
        BY <1>2, <1>4, FS_CardinalityType DEF IsLine
      <4> QED BY <1>4, <4>1 DEF IsLine, Move
    <3> QED BY <1>5, <3>1, <3>2
  <2> QED BY <1>3, <2>1, <2>2, <2>3 DEF MovesInv, Writers, Before
<1> QED BY <1>7, <1>8, <1>9, <1>10, <1>12 DEF MovesInv

(* Every action keeps the moves in line.                                   *)
LEMMA NextMoves == TInv /\ MovesInv /\ [Next]_vars => MovesInv'
<1> SUFFICES ASSUME TInv, MovesInv, [Next]_vars PROVE MovesInv'
  OBVIOUS
<1> USE DEF Holding, ThreadAt, Before, Writing, PC
<1>1. ASSUME NEW s \in Sessions, Connects(s) PROVE MovesInv'
  <2>1. CASE RecordConnection(s)
    BY <2>1, AtMoves DEF RecordConnection
  <2>2. ASSUME NEW w \in Workers, Authenticate(w, s) PROVE MovesInv'
    <3>1. /\ \A o \in Sessions \ {s} : conns'[o] = conns[o]
          /\ conns'[s].board = {} /\ conns'[s].pc = "authenticated"
      BY <2>2 DEF Authenticate, NoConn, TInv, TypeOK
    <3>2. \A o \in Sessions : MovesOn(o)
      BY <3>1 DEF MovesOn
    <3> QED BY <2>2, <3>2, QuietMoves DEF Authenticate, dbVars
  <2> QED BY <1>1, <2>1, <2>2 DEF Connects
<1>2. ASSUME NEW s \in Sessions, Disconnect(s) \/ SocketCloses(s) PROVE MovesInv'
  <2>1. CASE Disconnect(s)
    <3>1. /\ \A o \in Sessions \ {s} : conns'[o] = conns[o]
          /\ conns'[s].board = {} /\ conns'[s].pc = "closed"
      BY <2>1 DEF Disconnect, NoConn, TInv, TypeOK
    <3>2. \A o \in Sessions : MovesOn(o)
      BY <3>1 DEF MovesOn
    <3> QED BY <2>1, <3>2, QuietMoves DEF Disconnect
  <2>2. CASE SocketCloses(s)
    <3>1. \A o \in Sessions :
              /\ conns'[o].pc = conns[o].pc /\ conns'[o].game = conns[o].game
              /\ conns'[o].key = conns[o].key /\ conns'[o].board = conns[o].board
      BY <2>2 DEF SocketCloses, TInv, TypeOK, Conn
    <3>2. \A o \in Sessions : MovesOn(o)
      BY <3>1 DEF MovesOn
    <3> QED BY <2>2, <3>2, QuietMoves DEF SocketCloses, dbVars
  <2> QED BY <1>2, <2>1, <2>2
<1>3. ASSUME NEW s \in Sessions, NoAssignment(s) PROVE MovesInv'
  BY <1>3, SameMoves DEF NoAssignment
<1>4. ASSUME NEW s \in Sessions, Prepares(s) PROVE MovesInv'
  <2>1. CASE RecordDownloading(s)
    BY <2>1, AtMoves DEF RecordDownloading
  <2>2. CASE Acknowledge(s)
    BY <2>2, AtMoves DEF Acknowledge
  <2>3. CASE RecordBusy(s)
    BY <2>3, AtMoves DEF RecordBusy
  <2>4. CASE PreparationFails(s)
    BY <2>4, AtMoves DEF PreparationFails, dbVars
  <2>5. CASE FailAssignment(s)
    BY <2>5, IdleMoves DEF FailAssignment
  <2> QED BY <1>4, <2>1, <2>2, <2>3, <2>4, <2>5 DEF Prepares
<1>5. ASSUME NEW s \in Sessions, Plays(s) PROVE MovesInv'
  <2>1. CASE MarkLive(s)
    BY <2>1, AtMoves DEF MarkLive, ThreadStep
  <2>2. CASE FindMove(s)
    BY <2>2, AtMoves DEF FindMove, ThreadStep, dbVars
  <2>3. CASE EndGame(s)
    BY <2>3, AtMoves DEF EndGame, ThreadStep, dbVars
  <2>4. CASE FinishGame(s)
    BY <2>4, AtMoves DEF FinishGame, ThreadStep, dbVars
  <2>5. CASE ThreadFails(s)
    BY <2>5, AtMoves DEF ThreadFails, ThreadStep, dbVars
  <2>6. CASE CommitGame(s)
    BY <2>6, IdleMoves DEF CommitGame, ThreadStep
  <2>7. CASE JudgeTournament(s)
    <3>1. /\ \A o \in Sessions \ {s} : conns'[o] = conns[o]
          /\ conns'[s].pc = "committing" /\ conns[s].pc = "finishing"
          /\ conns'[s].game = conns[s].game /\ conns'[s].key = conns[s].key
          /\ conns'[s].board = conns[s].board
      BY <2>7 DEF JudgeTournament, ThreadStep, TInv, TypeOK, Conn
    <3>2. \A o \in Sessions : MovesOn(o)
      BY <3>1 DEF MovesOn
    <3> QED BY <2>7, <3>2, QuietMoves DEF JudgeTournament, ThreadStep, dbVars
  <2> QED BY <1>5, <2>1, <2>2, <2>3, <2>4, <2>5, <2>6, <2>7, StartMoves, RecordMoves DEF Plays
<1>6. ASSUME NEW a \in Admins, AdminReads(a) \/ AdminWrites(a) PROVE MovesInv'
  BY <1>6, SameMoves DEF AdminReads, AdminWrites, dbVars
<1>7. CASE (\E w \in Removable : RemoveGames(w)) \/ RemoveAssignments \/ RemoveRow
  BY <1>7, SameMoves DEF RemoveGames, RemoveAssignments, RemoveRow, dbVars
<1>8. CASE SchedulerReads \/ SchedulerWrites
  BY <1>8, SameMoves DEF SchedulerReads, SchedulerWrites, dbVars
<1>9. CASE Crash
  <2>1. \A o \in Sessions : MovesOn(o)
    BY <1>9 DEF Crash, MovesOn, NoConn
  <2> QED BY <1>9, <2>1, QuietMoves DEF Crash, dbVars
<1>10. CASE Restart \/ UNCHANGED vars
  BY <1>10, SameMoves DEF Restart, vars
<1> QED BY <1>1, <1>2, <1>3, <1>4, <1>5, <1>6, <1>7, <1>8, <1>9, <1>10, ClaimMoves DEF Next

LEMMA InitMoves == Init => MovesInv
<1> SUFFICES ASSUME Init PROVE MovesInv
  OBVIOUS
<1>1. \A s \in Sessions : conns[s].pc = "unused" /\ conns[s].board = {}
  BY DEF Init, NoConn
<1>2. \A g \in Games : moves[g] = {}
  BY DEF Init
<1>3. Lines
  BY <1>1, <1>2, EmptyLine DEF Lines
<1>4. BoardsShown /\ KeysApart /\ KeysIssued /\ Writers
  BY <1>1, <1>2
     DEF BoardsShown, KeysApart, KeysIssued, Writers, Holding, ThreadAt, Before, Writing
<1> QED BY <1>3, <1>4 DEF MovesInv

(* The moves table never branches and never skips a ply, and no thread     *)
(* plays on from a position that the table does not have (record_move and  *)
(* the replay in run_worker_assignment_game), for every number of          *)
(* assignments of a game.                                                  *)
THEOREM OneLine == Spec => []OneLineOfPlay
<1>1. TInv /\ MovesInv => OneLineOfPlay
  <2> SUFFICES ASSUME TInv, MovesInv PROVE OneLineOfPlay
    OBVIOUS
  <2>1. ASSUME NEW g \in Games, NEW m \in moves[g], NEW p \in 1 .. m.ply
        PROVE  \E n \in moves[g] : n.ply = p
    <3>1. IsLine(moves[g]) /\ Cardinality(moves[g]) \in Nat /\ m.ply \in Nat
      BY FS_CardinalityType DEF MovesInv, Lines, IsLine, Move
    <3>2. p \in 1 .. Cardinality(moves[g])
      BY <3>1 DEF IsLine
    <3> QED BY <3>1, <3>2 DEF IsLine
  <2> QED BY <2>1 DEF OneLineOfPlay, MovesInv, Lines, BoardsShown, IsLine
<1> QED BY <1>1, InitTInv, InitMoves, NextTInv, NextMoves, PTL DEF Spec

-----------------------------------------------------------------------------
(* The moves table implements Scoresheet.                                  *)
ScoreLine(M) == [p \in 1 .. Cardinality(M) |-> (CHOOSE m \in M : m.ply = p).by]

LEMMA ScoreLines ==
    ASSUME NEW M, IsLine(M)
    PROVE  /\ ScoreLine(M) \in Seq(Keys) /\ Len(ScoreLine(M)) = Cardinality(M)
           /\ Cardinality(M) \in Nat
           /\ \A m \in M : m.ply \in 1 .. Cardinality(M) /\ ScoreLine(M)[m.ply] = m.by
           /\ \A p \in 1 .. Cardinality(M) : \E m \in M : m.ply = p /\ ScoreLine(M)[p] = m.by
<1> DEFINE n == Cardinality(M)
           at(p) == CHOOSE m \in M : m.ply = p
<1>1. n \in Nat
  BY FS_CardinalityType DEF IsLine
<1>2. \A p \in 1 .. n : \E m \in M : m.ply = p
  BY DEF IsLine
<1>3. \A p \in 1 .. n : at(p) \in M /\ at(p).ply = p
  BY <1>2
<1>4. \A m \in M : m.ply \in 1 .. n /\ m.by \in Keys
  BY <1>1 DEF IsLine, Move
<1>5. \A m \in M : at(m.ply) = m
  BY <1>3, <1>4 DEF IsLine
<1>6. ScoreLine(M) = [p \in 1 .. n |-> at(p).by]
  BY DEF ScoreLine
<1> HIDE DEF at, n
<1>7. ScoreLine(M) \in [1 .. n -> Keys]
  BY <1>3, <1>4, <1>6
<1>8. ScoreLine(M) \in Seq(Keys)
  BY <1>1, <1>7, SeqDef
<1>9. Len(ScoreLine(M)) = n
  BY <1>1, <1>7, <1>8, LenProperties
<1>10. \A m \in M : ScoreLine(M)[m.ply] = m.by
  BY <1>4, <1>5, <1>6
<1>11. \A p \in 1 .. n : \E m \in M : m.ply = p /\ ScoreLine(M)[p] = m.by
  BY <1>3, <1>6
<1> QED BY <1>1, <1>4, <1>8, <1>9, <1>10, <1>11 DEF n

LEMMA LongerScore ==
    ASSUME NEW B, IsLine(B), NEW k \in Keys, Cardinality(B) < MaxPly,
           NEW move, move = [ply |-> Cardinality(B) + 1, by |-> k]
    PROVE  ScoreLine(B \cup {move}) = Append(ScoreLine(B), k)
<1>1. PICK C : C = B \cup {move}
  OBVIOUS
<1>2. IsLine(C) /\ Cardinality(C) = Cardinality(B) + 1 /\ move \in C /\ B \subseteq C
  BY <1>1, LongerLine
<1> DEFINE s == ScoreLine(B)
           t == ScoreLine(C)
           n == Cardinality(B)
<1>3. /\ n \in Nat /\ s \in Seq(Keys) /\ Len(s) = n
      /\ \A p \in 1 .. n : \E m \in B : m.ply = p /\ s[p] = m.by
  BY ScoreLines
<1>4. /\ t \in Seq(Keys) /\ Len(t) = n + 1
      /\ \A m \in C : t[m.ply] = m.by
  BY <1>2, ScoreLines
<1> HIDE DEF s, t
<1>5. move.ply = n + 1 /\ move.by = k
  OBVIOUS
<1> HIDE DEF n
<1>6. t[n + 1] = k
  BY <1>2, <1>4, <1>5
<1>7. \A p \in 1 .. n : t[p] = s[p]
  BY <1>2, <1>3, <1>4
<1>8. /\ Append(s, k) \in Seq(Keys) /\ Len(Append(s, k)) = n + 1
      /\ \A p \in 1 .. n : Append(s, k)[p] = s[p]
      /\ Append(s, k)[n + 1] = k
  BY <1>3, AppendProperties
<1>9. \A p \in 1 .. n + 1 : p \in 1 .. n \/ p = n + 1
  BY <1>3
<1>10. \A p \in 1 .. Len(t) : t[p] = Append(s, k)[p]
  BY <1>4, <1>6, <1>7, <1>8, <1>9
<1>11. t = Append(s, k)
  BY <1>4, <1>8, <1>10, SeqEqual
<1> QED BY <1>1, <1>11 DEF s, t

LEMMA RecordWrites ==
    ASSUME TInv, MovesInv, NEW s \in Sessions, RecordMove(s)
    PROVE  Sheet!Next
<1>1. PICK g, k, B : g = conns[s].game /\ k = conns[s].key /\ B = conns[s].board
  OBVIOUS
<1>2. PICK move : move = [ply |-> Cardinality(B) + 1, by |-> k]
  OBVIOUS
<1>3. /\ g \in Games /\ k \in issued /\ k \in Keys
      /\ B = moves[g] /\ Cardinality(B) < MaxPly
      /\ moves' = [moves EXCEPT ![g] = B \cup {move}]
      /\ issued' = issued /\ conns[s].pc = "recording"
  BY <1>1, <1>2, RecordedMove
<1>4. IsLine(B)
  BY <1>1 DEF MovesInv, Lines
<1>5. score = [h \in Games |-> ScoreLine(moves[h])] /\ score' = [h \in Games |-> ScoreLine(moves'[h])]
  BY DEF score, ScoreLine
<1>6. score' = [score EXCEPT ![g] = Append(@, k)]
  <2>1. ScoreLine(B \cup {move}) = Append(ScoreLine(B), k)
    BY <1>2, <1>3, <1>4, LongerScore
  <2>2. moves'[g] = B \cup {move} /\ \A h \in Games \ {g} : moves'[h] = moves[h]
    BY <1>3 DEF TInv, TypeOK
  <2>3. score'[g] = Append(score[g], k)
    <3>1. score'[g] = ScoreLine(moves'[g]) /\ score[g] = ScoreLine(moves[g])
      BY <1>3, <1>5
    <3>2. ScoreLine(moves'[g]) = Append(ScoreLine(moves[g]), k)
      BY <1>3, <2>1, <2>2
    <3> QED BY <3>1, <3>2
  <2>4. \A h \in Games \ {g} : score'[h] = score[h]
    BY <1>5, <2>2
  <2> QED BY <1>5, <2>3, <2>4
<1>7. score[g] = ScoreLine(B)
  BY <1>3, <1>5
<1>8. Len(score[g]) < MaxPly
  BY <1>3, <1>4, <1>7, ScoreLines
<1>9. Sheet!HasTurn(g, k)
  <2> SUFFICES ASSUME NEW p \in 1 .. Len(score[g]), score[g][p] = k,
                      NEW q \in p .. Len(score[g])
               PROVE  score[g][q] = k
    BY DEF Sheet!HasTurn
  <2>1. Cardinality(B) \in Nat /\ Len(score[g]) = Cardinality(B)
    BY <1>4, <1>7, ScoreLines
  <2>2. PICK m \in B : m.ply = p /\ m.by = k
    BY <1>4, <1>7, <2>1, ScoreLines
  <2>3. q \in 1 .. Cardinality(B) /\ p <= q
    BY <2>1
  <2>4. PICK n \in B : n.ply = q /\ score[g][q] = n.by
    BY <1>4, <1>7, <2>3, ScoreLines
  <2>5. \A m1, n1 \in B : m1.by = k /\ m1.ply <= n1.ply => n1.by = k
    BY <1>1, <1>3 DEF MovesInv, Writers, Writing
  <2> QED BY <2>2, <2>3, <2>4, <2>5
<1>10. Sheet!Write(g, k)
  BY <1>3, <1>6, <1>8, <1>9 DEF Sheet!Write
<1> QED BY <1>3, <1>10 DEF Sheet!Next

LEMMA StepsAppend == TInv /\ MovesInv /\ [Next]_vars => [Sheet!Next]_(Sheet!vars)
<1> SUFFICES ASSUME TInv, MovesInv, [Next]_vars PROVE Sheet!Next \/ UNCHANGED Sheet!vars
  OBVIOUS
<1>1. moves' = moves => score' = score
  BY DEF score
<1>2. ASSUME NEW s \in Sessions, RecordMove(s) PROVE Sheet!Next
  BY <1>2, RecordWrites
<1>3. ASSUME NEW s \in Sessions, NEW g \in Games, NEW k \in Keys, Claim(s, g, k) PROVE Sheet!Next
  BY <1>1, <1>3 DEF Claim, Sheet!Next, Sheet!Issue
<1>4. CASE UNCHANGED <<moves, issued>>
  BY <1>1, <1>4 DEF Sheet!vars
<1>5. ASSUME NEW s \in Sessions, Connects(s) \/ Disconnect(s) \/ SocketCloses(s) \/ NoAssignment(s)
                                 \/ Prepares(s)
      PROVE  UNCHANGED <<moves, issued>>
  BY <1>5 DEF Connects, Authenticate, RecordConnection, Disconnect, SocketCloses, NoAssignment,
     Prepares, RecordDownloading, Acknowledge, RecordBusy, PreparationFails, FailAssignment, dbVars
<1>6. ASSUME NEW s \in Sessions, Plays(s) PROVE RecordMove(s) \/ UNCHANGED <<moves, issued>>
  BY <1>6 DEF Plays, StartGame, MarkLive, FindMove, EndGame, FinishGame, JudgeTournament,
     CommitGame, ThreadFails, ThreadStep, dbVars
<1>7. ASSUME NEW a \in Admins, AdminReads(a) \/ AdminWrites(a) PROVE UNCHANGED <<moves, issued>>
  BY <1>7 DEF AdminReads, AdminWrites, dbVars
<1>8. ASSUME NEW w \in Removable, RemoveGames(w) PROVE UNCHANGED <<moves, issued>>
  BY <1>8 DEF RemoveGames, dbVars
<1>9. CASE RemoveAssignments \/ RemoveRow \/ SchedulerReads \/ SchedulerWrites \/ Crash \/ Restart
  BY <1>4, <1>9 DEF RemoveAssignments, RemoveRow, SchedulerReads, SchedulerWrites, Crash, Restart,
     dbVars
<1>10. CASE UNCHANGED vars
  BY <1>4, <1>10 DEF vars
<1> QED BY <1>2, <1>3, <1>4, <1>5, <1>6, <1>7, <1>8, <1>9, <1>10 DEF Next

(* Dispatch implements Scoresheet: the list of a game's moves only grows   *)
(* at its end, and an assignment that another one has written after never  *)
(* writes again, however many workers play the same game at once.          *)
THEOREM MovesAppended == Spec => MovesAreAppended
<1>1. Init => Sheet!Init
  <2> SUFFICES ASSUME Init PROVE Sheet!Init
    OBVIOUS
  <2>1. \A g \in Games : moves[g] = {}
    BY DEF Init
  <2>2. ScoreLine({}) = <<>>
    <3>1. ScoreLine({}) \in Seq(Keys) /\ Len(ScoreLine({})) = 0
      BY EmptyLine, ScoreLines, FS_EmptySet
    <3> QED BY <3>1, EmptySeq
  <2>3. score = [g \in Games |-> ScoreLine(moves[g])]
    BY DEF score, ScoreLine
  <2> QED BY <2>1, <2>2, <2>3 DEF Init, Sheet!Init
<1> QED BY <1>1, InitTInv, InitMoves, NextTInv, NextMoves, StepsAppend, PTL
        DEF Spec, MovesAreAppended, Sheet!Spec

-----------------------------------------------------------------------------
(* Nobody is superseded: a worker has one coroutine, which holds its       *)
(* assignment until it ends it, so that an active assignment is one of an  *)
(* open game, and no thread ends a game that is somebody else's.           *)
Served == Holding \cup {"authenticated", "idle"}
WorkersApart ==
    \A s, t \in Sessions :
        (conns[s].pc \in Served /\ conns[t].pc \in Served /\ conns[s].worker = conns[t].worker)
            => s = t
Owners ==
    \A s \in Sessions : conns[s].pc \in Holding =>
        /\ assignments[conns[s].game].key = conns[s].key
        /\ Active(conns[s].game) => assignments[conns[s].game].worker = conns[s].worker
        /\ games[conns[s].game] # "pending"
ActiveOpen == \A g \in Games : Active(g) => games[g] \in OPEN_GAME_STATUSES
DownQuiet == ~serverUp => \A s \in Sessions : conns[s].pc \notin Served

OneThread ==
    /\ removal.stage = "none" /\ WorkersApart /\ Owners /\ ActiveOpen /\ DownQuiet
    /\ tournament = "aborted" => \A g \in Games : games[g] \in TERMINAL_GAME_STATUSES
    /\ Cardinality(OpenGames) <= Concurrency

(* A step that opens no game, brings none back and takes no assignment     *)
(* from a coroutine that keeps holding it.                                 *)
Shrinks ==
    /\ removal'.stage = "none"
    /\ \A g \in Games :
          /\ games'[g] \in OPEN_GAME_STATUSES => games[g] \in OPEN_GAME_STATUSES
          /\ games[g] \in TERMINAL_GAME_STATUSES => games'[g] \in TERMINAL_GAME_STATUSES
          /\ Active(g)' => /\ Active(g) /\ games'[g] \in OPEN_GAME_STATUSES
                           /\ assignments'[g].worker = assignments[g].worker
          /\ assignments'[g].key = assignments[g].key
    /\ tournament' = "aborted" =>
          \/ tournament = "aborted"
          \/ \A g \in Games : games'[g] \in TERMINAL_GAME_STATUSES
    /\ serverUp /\ ~serverUp' => \A s \in Sessions : conns'[s].pc \notin Served

(* The coroutines keep their worker, game and key, or leave their game;    *)
(* and the game of one that holds it is not released.                      *)
HoldersStay ==
    \A s \in Sessions :
        /\ conns'[s].pc \in Served =>
               conns[s].pc \in Served /\ conns'[s].worker = conns[s].worker
        /\ conns'[s].pc \in Holding =>
               /\ conns[s].pc \in Holding /\ games'[conns[s].game] # "pending"
               /\ conns'[s].game = conns[s].game /\ conns'[s].key = conns[s].key

LEMMA FewerOpen ==
    ASSUME Cardinality(OpenGames) <= Concurrency,
           \A g \in Games : games'[g] \in OPEN_GAME_STATUSES => games[g] \in OPEN_GAME_STATUSES
    PROVE  Cardinality(OpenGames)' <= Concurrency
<1>1. OpenGames' \subseteq OpenGames /\ OpenGames \subseteq Games
  BY DEF OpenGames
<1>2. IsFiniteSet(OpenGames)
  BY <1>1, FS_Subset, DispatchAssumption
<1>3. Cardinality(OpenGames') <= Cardinality(OpenGames) /\ IsFiniteSet(OpenGames')
  BY <1>1, <1>2, FS_Subset
<1>4. Cardinality(OpenGames') \in Nat /\ Cardinality(OpenGames) \in Nat
  BY <1>2, <1>3, FS_CardinalityType
<1> QED BY <1>3, <1>4, DispatchAssumption

LEMMA ShrinkStep ==
    ASSUME TInv, OneThread, Shrinks, HoldersStay
    PROVE  OneThread'
<1>1. WorkersApart'
  <2> SUFFICES ASSUME NEW s \in Sessions, NEW t \in Sessions, conns'[s].pc \in Served,
                      conns'[t].pc \in Served, conns'[s].worker = conns'[t].worker
               PROVE  s = t
    BY DEF WorkersApart
  <2>1. /\ conns[s].pc \in Served /\ conns[t].pc \in Served
        /\ conns[s].worker = conns[t].worker
    BY DEF HoldersStay
  <2> QED BY <2>1 DEF OneThread, WorkersApart
<1>2. Owners'
  <2> SUFFICES ASSUME NEW s \in Sessions, conns'[s].pc \in Holding,
                      NEW g, g = conns[s].game
               PROVE  /\ conns'[s].game = g /\ assignments'[g].key = conns'[s].key
                      /\ Active(g)' => assignments'[g].worker = conns'[s].worker
                      /\ games'[g] # "pending"
    BY DEF Owners, Active
  <2>1. /\ conns[s].pc \in Holding /\ games'[g] # "pending" /\ conns'[s].game = g
        /\ conns'[s].key = conns[s].key /\ conns'[s].worker = conns[s].worker
    BY DEF HoldersStay, Served
  <2>2. g \in Games
    BY <2>1, OneConn
  <2> QED BY <2>1, <2>2 DEF Shrinks, OneThread, Owners
<1>3. ActiveOpen'
  BY DEF Shrinks, ActiveOpen
<1>4. DownQuiet'
  BY DEF OneThread, DownQuiet, Shrinks, HoldersStay
<1>5. Cardinality(OpenGames)' <= Concurrency
  BY FewerOpen DEF OneThread, Shrinks
<1>6. tournament' = "aborted" => \A g \in Games : games'[g] \in TERMINAL_GAME_STATUSES
  BY DEF Shrinks, OneThread
<1> QED BY <1>1, <1>2, <1>3, <1>4, <1>5, <1>6 DEF OneThread, Shrinks

(* Nothing but one coroutine moves.                                        *)
LEMMA ThreadMovesOn ==
    ASSUME TInv, OneThread, UNCHANGED <<tournament, games, assignments, removal, serverUp>>,
           NEW s \in Sessions, NEW pc \in PC, At(s, pc) \/ (pc = "idle" /\ Idle(s)),
           conns[s].pc \in Served, pc \in Holding => conns[s].pc \in Holding
    PROVE  OneThread'
<1>1. \A o \in Sessions \ {s} : conns'[o] = conns[o]
  BY AtEffect, IdleEffect DEF TInv
<1>2. /\ conns'[s].pc = pc /\ conns'[s].worker = conns[s].worker
      /\ pc \in Holding => conns'[s].game = conns[s].game /\ conns'[s].key = conns[s].key
  <2>1. CASE At(s, pc)
    BY <2>1, AtEffect DEF TInv
  <2>2. CASE pc = "idle" /\ Idle(s)
    BY <2>2, IdleEffect DEF TInv, NoConn, Holding, ThreadAt
  <2> QED BY <2>1, <2>2
<1>3. HoldersStay
  <2>1. \A o \in Sessions : conns[o].pc \in Holding => games[conns[o].game] # "pending"
    BY DEF OneThread, Owners
  <2> QED BY <1>1, <1>2, <2>1 DEF HoldersStay
<1>4. Shrinks
  BY DEF Shrinks, OneThread, ActiveOpen, Active
<1> QED BY <1>3, <1>4, ShrinkStep

LEMMA NothingChanges ==
    ASSUME TInv, OneThread, UNCHANGED <<games, assignments, removal, serverUp, conns>>,
           tournament' # "aborted" \/ tournament = "aborted"
    PROVE  OneThread'
<1>1. HoldersStay
  BY DEF HoldersStay, OneThread, Owners
<1>2. Shrinks
  BY DEF Shrinks, OneThread, ActiveOpen, Active
<1> QED BY <1>1, <1>2, ShrinkStep

(* What a worker's coroutine no longer serves is released.                 *)
LEMMA ReleaseShrinks ==
    ASSUME TInv, OneThread, NEW R \in SUBSET Games,
           games' = GamesReleased(R), assignments' = AssignmentsReleased(R),
           UNCHANGED <<removal, tournament>>, serverUp'
    PROVE  /\ Shrinks
           /\ \A g \in Games \ R : games'[g] = games[g]
<1>1. \A g \in Games :
          /\ g \in R => /\ games[g] \in OPEN_GAME_STATUSES => games'[g] = "pending"
                        /\ games[g] \notin OPEN_GAME_STATUSES => games'[g] = games[g]
                        /\ assignments'[g].status = "abandoned"
          /\ g \notin R => games'[g] = games[g] /\ assignments'[g] = assignments[g]
          /\ assignments'[g].key = assignments[g].key
  BY DEF GamesReleased, AssignmentsReleased, TInv, TypeOK, AssignmentRow
<1>2. \A g \in Games :
          /\ games'[g] \in OPEN_GAME_STATUSES => games[g] \in OPEN_GAME_STATUSES
          /\ games[g] \in TERMINAL_GAME_STATUSES => games'[g] \in TERMINAL_GAME_STATUSES
  BY <1>1 DEF OPEN_GAME_STATUSES, TERMINAL_GAME_STATUSES
<1>3. \A g \in Games : Active(g)' =>
          /\ Active(g) /\ games'[g] \in OPEN_GAME_STATUSES
          /\ assignments'[g].worker = assignments[g].worker
  BY <1>1 DEF Active, ACTIVE_ASSIGNMENT_STATUSES, OneThread, ActiveOpen
<1> QED BY <1>1, <1>2, <1>3 DEF Shrinks, OneThread

LEMMA ReleaseStep ==
    ASSUME TInv, OneThread, NEW s \in Sessions, RecordConnection(s) \/ Disconnect(s)
    PROVE  OneThread'
<1>1. PICK w, R : /\ w = conns[s].worker
                  /\ R = IF RecordConnection(s) \/ SessionCurrent(s) THEN HeldBy({w}) ELSE {}
  OBVIOUS
<1>2. /\ games' = GamesReleased(R) /\ assignments' = AssignmentsReleased(R)
      /\ UNCHANGED <<removal, tournament, serverUp>> /\ serverUp
      /\ conns[s].pc \in {"authenticated", "idle"}
      /\ At(s, "idle") \/ conns' = [conns EXCEPT ![s] = NoConn("closed")]
  <2>1. CASE RecordConnection(s)
    BY <1>1, <2>1 DEF RecordConnection, ReleasedOnConnect
  <2>2. CASE ~RecordConnection(s) /\ Disconnect(s)
    BY <1>1, <2>2 DEF Disconnect, LoopFree
  <2> QED BY <2>1, <2>2
<1>3. R \in SUBSET Games /\ \A g \in R : Active(g) /\ assignments[g].worker = w
  BY <1>1 DEF HeldBy
<1>4. Shrinks /\ \A g \in Games \ R : games'[g] = games[g]
  BY <1>2, <1>3, ReleaseShrinks
<1>5. /\ \A o \in Sessions \ {s} : conns'[o] = conns[o]
      /\ conns'[s].pc \in {"idle", "closed"}
      /\ conns'[s].pc = "idle" => conns'[s].worker = w
  <2>1. CASE At(s, "idle")
    BY <1>1, <2>1, AtEffect DEF TInv, PC
  <2>2. CASE conns' = [conns EXCEPT ![s] = NoConn("closed")]
    BY <2>2 DEF NoConn, TInv, TypeOK
  <2> QED BY <1>2, <2>1, <2>2
<1>6. ASSUME NEW o \in Sessions, conns'[o].pc \in Holding
      PROVE  o # s /\ conns[o].game \in Games \ R /\ games[conns[o].game] # "pending"
  <2>1. o # s /\ conns[o].pc \in Holding
    BY <1>5, <1>6 DEF Holding, ThreadAt
  <2>2. /\ conns[o].game \in Games /\ games[conns[o].game] # "pending"
        /\ Active(conns[o].game) => assignments[conns[o].game].worker = conns[o].worker
    BY <2>1, OneConn DEF OneThread, Owners
  <2>3. conns[o].worker # w
    BY <1>1, <1>2, <2>1 DEF OneThread, WorkersApart, Served
  <2> QED BY <1>3, <2>1, <2>2, <2>3
<1>7. HoldersStay
  BY <1>1, <1>2, <1>4, <1>5, <1>6 DEF HoldersStay, Served, Holding, ThreadAt
<1> QED BY <1>4, <1>7, ShrinkStep

(* A status is written over rows whose other columns became gs and as.     *)
LEMMA StatusShrinks ==
    ASSUME TInv, OneThread, NEW status, NEW gs, NEW as \in [Games -> AssignmentRow],
           SetTournamentStatus(status, gs, as),
           gs \in [Games -> GameStatus],
           UNCHANGED <<removal, serverUp>>,
           \A g \in Games :
              /\ gs[g] \in {games[g], "finished"}
              /\ as[g].key = assignments[g].key /\ as[g].worker = assignments[g].worker
              /\ as[g].status \in ACTIVE_ASSIGNMENT_STATUSES =>
                    Active(g) /\ gs[g] = games[g]
    PROVE  /\ Shrinks
           /\ \A g \in Games : games'[g] = "pending" => games[g] = "pending"
<1>1. \A g \in Games : as[g].status \in ACTIVE_ASSIGNMENT_STATUSES =>
          gs[g] \in OPEN_GAME_STATUSES
  BY DEF OneThread, ActiveOpen
<1>2. CASE status = "aborted"
  <2>1. \A g \in Games : games'[g] \in TERMINAL_GAME_STATUSES
    BY <1>2 DEF SetTournamentStatus, GamesAbandoned, TERMINAL_GAME_STATUSES
  <2>2. \A g \in Games : /\ assignments'[g].key = as[g].key
                         /\ assignments'[g].status \notin ACTIVE_ASSIGNMENT_STATUSES
    BY <1>1, <1>2
       DEF SetTournamentStatus, AssignmentsAbandoned, AssignmentRow, OPEN_GAME_STATUSES,
           ACTIVE_ASSIGNMENT_STATUSES
  <2> QED BY <2>1, <2>2 DEF Shrinks, OneThread, Active, TERMINAL_GAME_STATUSES, OPEN_GAME_STATUSES
<1>3. CASE status # "aborted"
  <2>1. games' = gs /\ assignments' = as /\ tournament' = status
    BY <1>3 DEF SetTournamentStatus
  <2>2. \A g \in Games :
            /\ gs[g] \in OPEN_GAME_STATUSES => games[g] \in OPEN_GAME_STATUSES
            /\ games[g] \in TERMINAL_GAME_STATUSES => gs[g] \in TERMINAL_GAME_STATUSES
            /\ gs[g] = "pending" => games[g] = "pending"
    BY DEF OPEN_GAME_STATUSES, TERMINAL_GAME_STATUSES
  <2> QED BY <1>1, <1>3, <2>1, <2>2 DEF Shrinks, OneThread, Active
<1> QED BY <1>2, <1>3

LEMMA StatusStep ==
    ASSUME TInv, OneThread, NEW status, SetTournamentStatus(status, games, assignments),
           UNCHANGED <<removal, serverUp, conns>>
    PROVE  OneThread'
<1>1. games \in [Games -> GameStatus] /\ assignments \in [Games -> AssignmentRow]
  BY DEF TInv, TypeOK, GameStatus
<1>2. Shrinks /\ \A g \in Games : games'[g] = "pending" => games[g] = "pending"
  BY <1>1, StatusShrinks DEF Active
<1>3. HoldersStay
  <2>1. \A s \in Sessions : conns[s].pc \in Holding =>
            conns[s].game \in Games /\ games[conns[s].game] # "pending"
    BY OneConn DEF OneThread, Owners
  <2> QED BY <1>2, <2>1 DEF HoldersStay
<1> QED BY <1>2, <1>3, ShrinkStep

(* A worker comes: no other coroutine serves it.                           *)
LEMMA AuthenticateStep ==
    ASSUME TInv, OneThread, NobodySuperseded, NEW w \in Workers, NEW s \in Sessions,
           Authenticate(w, s)
    PROVE  OneThread'
<1>1. /\ UNCHANGED <<tournament, games, assignments, removal, serverUp>> /\ serverUp
      /\ \A o \in Sessions \ {s} : conns'[o] = conns[o] /\ conns[o].worker # w
      /\ conns'[s].pc = "authenticated" /\ conns'[s].worker = w
  <2>1. \A o \in Sessions : conns[o].worker # w
    BY DEF Authenticate, NobodySuperseded
  <2> QED BY <2>1 DEF Authenticate, LoopFree, NoConn, TInv, TypeOK, dbVars
<1>2. WorkersApart'
  BY <1>1 DEF OneThread, WorkersApart
<1>3. Owners'
  BY <1>1 DEF OneThread, Owners, Holding, ThreadAt, Active
<1>4. OpenGames' = OpenGames
  BY <1>1 DEF OpenGames
<1> QED BY <1>1, <1>2, <1>3, <1>4 DEF OneThread, ActiveOpen, Active, DownQuiet

(* A pending game is nobody's, and one more may be open.                   *)
LEMMA ClaimStep ==
    ASSUME TInv, OneThread, NEW s \in Sessions, NEW g \in Games, NEW k \in Keys, Claim(s, g, k)
    PROVE  OneThread'
<1>1. /\ UNCHANGED <<tournament, removal, serverUp>> /\ serverUp /\ tournament = "running"
      /\ conns[s].pc = "idle" /\ games[g] = "pending" /\ Cardinality(OpenGames) < Concurrency
      /\ games' = [games EXCEPT ![g] = "assigned"]
      /\ assignments'[g] = [key |-> k, worker |-> conns[s].worker, status |-> "assigned"]
      /\ \A h \in Games \ {g} : games'[h] = games[h] /\ assignments'[h] = assignments[h]
      /\ \A o \in Sessions \ {s} : conns'[o] = conns[o]
      /\ conns'[s].pc = "claimed" /\ conns'[s].game = g /\ conns'[s].key = k
      /\ conns'[s].worker = conns[s].worker /\ games'[g] = "assigned"
  BY DEF Claim, LoopFree, NextPlayable, SlotFree, TInv, TypeOK, Conn
<1>2. WorkersApart'
  BY <1>1 DEF OneThread, WorkersApart, Served, Holding
<1>3. Owners'
  <2>1. ASSUME NEW o \in Sessions \ {s}, conns[o].pc \in Holding
        PROVE  conns[o].game \in Games \ {g}
    BY <1>1, <2>1, OneConn DEF OneThread, Owners
  <2> QED BY <1>1, <2>1 DEF OneThread, Owners, Active
<1>4. ActiveOpen' /\ DownQuiet'
  BY <1>1 DEF OneThread, ActiveOpen, Active, OPEN_GAME_STATUSES, DownQuiet
<1>5. Cardinality(OpenGames') <= Concurrency
  <2>1. OpenGames' = OpenGames \cup {g} /\ g \notin OpenGames
    BY <1>1 DEF OpenGames, OPEN_GAME_STATUSES, TInv, TypeOK
  <2>2. IsFiniteSet(OpenGames)
    BY FS_Subset, DispatchAssumption DEF OpenGames
  <2>3. Cardinality(OpenGames') = Cardinality(OpenGames) + 1
    BY <2>1, <2>2, FS_AddElement
  <2>4. Cardinality(OpenGames) \in Nat
    BY <2>2, FS_CardinalityType
  <2> QED BY <1>1, <2>3, <2>4, DispatchAssumption
<1> QED BY <1>1, <1>2, <1>3, <1>4, <1>5 DEF OneThread

(* acknowledge_game_assignment and mark_worker_assignment_live renew an    *)
(* assignment that is active, so its game is open already.                 *)
LEMMA RenewStep ==
    ASSUME TInv, OneThread, NEW s \in Sessions, Acknowledge(s) \/ MarkLive(s)
    PROVE  OneThread'
<1>1. PICK g : g = conns[s].game
  OBVIOUS
<1>2. /\ UNCHANGED <<tournament, removal, serverUp>> /\ conns[s].pc \in Holding
      /\ \E pc \in Holding : At(s, pc)
      /\ \/ assignments' = assignments /\ games' = games
         \/ /\ Active(g)
            /\ \E status \in ACTIVE_ASSIGNMENT_STATUSES :
                   assignments' = [assignments EXCEPT ![g].status = status]
            /\ games' = games \/ games' = [games EXCEPT ![g] = "live"]
  <2>1. CASE Acknowledge(s)
    BY <1>1, <2>1 DEF Acknowledge, Active, ACTIVE_ASSIGNMENT_STATUSES, Holding, ThreadAt
  <2>2. CASE MarkLive(s)
    BY <1>1, <2>2 DEF MarkLive, ThreadStep, ValidAssignment, ACTIVE_ASSIGNMENT_STATUSES, Holding,
       ThreadAt
  <2> QED BY <2>1, <2>2
<1>3. g \in Games
  BY <1>1, <1>2, OneConn
<1>4. /\ \A h \in Games \ {g} : games'[h] = games[h] /\ assignments'[h] = assignments[h]
      /\ assignments'[g].key = assignments[g].key
      /\ assignments'[g].worker = assignments[g].worker
      /\ games'[g] # games[g] \/ assignments'[g] # assignments[g] => Active(g)
      /\ games'[g] \in {games[g], "live"}
  BY <1>2, <1>3 DEF TInv, TypeOK, AssignmentRow
<1>5. Active(g) => games[g] \in OPEN_GAME_STATUSES /\ games'[g] \in OPEN_GAME_STATUSES
  BY <1>3, <1>4 DEF OneThread, ActiveOpen, OPEN_GAME_STATUSES
<1>6. \A h \in Games : games'[h] = "pending" => games[h] = "pending"
  BY <1>4
<1>7. Shrinks
  BY <1>2, <1>4, <1>5
     DEF Shrinks, OneThread, ActiveOpen, Active, OPEN_GAME_STATUSES, TERMINAL_GAME_STATUSES
<1>8. HoldersStay
  <2>1. \A o \in Sessions :
            /\ conns'[o].pc \in Served => conns[o].pc \in Served
            /\ conns'[o].pc \in Holding => conns[o].pc \in Holding
            /\ conns'[o].worker = conns[o].worker
            /\ conns'[o].game = conns[o].game /\ conns'[o].key = conns[o].key
    BY <1>2, AtEffect DEF TInv, PC, Served
  <2>2. \A o \in Sessions : conns[o].pc \in Holding => games'[conns[o].game] # "pending"
    <3>1. \A o \in Sessions : conns[o].pc \in Holding =>
              conns[o].game \in Games /\ games[conns[o].game] # "pending"
      BY OneConn DEF OneThread, Owners
    <3> QED BY <1>6, <3>1
  <2> QED BY <2>1, <2>2 DEF HoldersStay
<1> QED BY <1>7, <1>8, ShrinkStep

(* fail_game_assignment and the end of a game are of this coroutine's own  *)
(* game: no other one holds it.                                            *)
LEMMA OwnGame ==
    ASSUME TInv, KeysApart, OneThread, NEW s \in Sessions, conns[s].pc \in Holding
    PROVE  /\ conns[s].game \in Games /\ assignments[conns[s].game].key = conns[s].key
           /\ \A o \in Sessions \ {s} : conns[o].pc \in Holding =>
                  /\ conns[o].game \in Games \ {conns[s].game}
                  /\ games[conns[o].game] # "pending"
BY OneConn DEF KeysApart, OneThread, Owners

LEMMA FailStep ==
    ASSUME TInv, KeysApart, OneThread, NEW s \in Sessions, FailAssignment(s)
    PROVE  OneThread'
<1>1. PICK g : g = conns[s].game
  OBVIOUS
<1>2. /\ conns[s].pc = "failed" /\ conns[s].pc \in Holding /\ serverUp
      /\ UNCHANGED <<tournament, removal, serverUp>> /\ Idle(s)
  BY DEF FailAssignment, Holding, ThreadAt, LoopFree
<1>3. /\ g \in Games /\ assignments[g].key = conns[s].key
      /\ \A o \in Sessions \ {s} : conns[o].pc \in Holding =>
             conns[o].game \in Games \ {g} /\ games[conns[o].game] # "pending"
  BY <1>1, <1>2, OwnGame
<1>4. /\ games' = GamesReleased({g})
      /\ assignments' = IF Active(g) THEN [assignments EXCEPT ![g].status = "abandoned"]
                        ELSE assignments
  BY <1>1, <1>3 DEF FailAssignment
<1>5. /\ \A h \in Games \ {g} : games'[h] = games[h] /\ assignments'[h] = assignments[h]
      /\ games'[g] = IF games[g] \in OPEN_GAME_STATUSES THEN "pending" ELSE games[g]
      /\ assignments'[g].key = assignments[g].key
      /\ assignments'[g].worker = assignments[g].worker
      /\ assignments'[g].status \notin ACTIVE_ASSIGNMENT_STATUSES
  BY <1>3, <1>4 DEF GamesReleased, Active, ACTIVE_ASSIGNMENT_STATUSES, TInv, TypeOK, AssignmentRow
<1>6. Shrinks
  BY <1>2, <1>5
     DEF Shrinks, OneThread, ActiveOpen, Active, OPEN_GAME_STATUSES, TERMINAL_GAME_STATUSES
<1>7. /\ \A o \in Sessions \ {s} : conns'[o] = conns[o]
      /\ conns'[s].pc = "idle" /\ conns'[s].worker = conns[s].worker
  BY <1>2, IdleEffect DEF TInv, NoConn
<1>8. HoldersStay
  BY <1>2, <1>3, <1>5, <1>7 DEF HoldersStay, Served, Holding, ThreadAt
<1> QED BY <1>6, <1>8, ShrinkStep

LEMMA CommitStep ==
    ASSUME TInv, KeysApart, OneThread, NEW s \in Sessions, CommitGame(s)
    PROVE  OneThread'
<1>1. PICK g : g = conns[s].game
  OBVIOUS
<1>2. /\ conns[s].pc = "committing" /\ conns[s].pc \in Holding /\ serverUp
      /\ UNCHANGED <<removal, serverUp>> /\ Idle(s)
  BY DEF CommitGame, ThreadStep, Holding, ThreadAt
<1>3. /\ g \in Games /\ assignments[g].key = conns[s].key
      /\ \A o \in Sessions \ {s} : conns[o].pc \in Holding =>
             conns[o].game \in Games \ {g} /\ games[conns[o].game] # "pending"
  BY <1>1, <1>2, OwnGame
<1>4. PICK gs, as, status :
          /\ gs = [games EXCEPT ![g] = "finished"]
          /\ as = [assignments EXCEPT ![g].status = "finished"]
          /\ SetTournamentStatus(status, gs, as) \/ (/\ tournament' = tournament
                                                     /\ games' = gs /\ assignments' = as)
  <2>1. PICK gs, as : /\ gs = [games EXCEPT ![g] = "finished"]
                      /\ as = [assignments EXCEPT ![g].status = "finished"]
    OBVIOUS
  <2>2. \/ SetTournamentStatus(conns[s].verdict, gs, as)
        \/ tournament' = tournament /\ games' = gs /\ assignments' = as
    BY <1>1, <1>3, <2>1 DEF CommitGame
  <2> QED BY <2>1, <2>2
<1>5. /\ gs \in [Games -> GameStatus] /\ as \in [Games -> AssignmentRow]
      /\ \A h \in Games : /\ h # g => gs[h] = games[h] /\ as[h] = assignments[h]
                          /\ as[h].key = assignments[h].key
                          /\ as[h].worker = assignments[h].worker
      /\ gs[g] = "finished" /\ as[g].status = "finished"
  <2>1. [assignments EXCEPT ![g].status = "finished"] \in [Games -> AssignmentRow]
    BY AssignmentStatusType DEF TInv
  <2>2. games \in [Games -> GameStatus] /\ assignments \in [Games -> AssignmentRow]
    BY DEF TInv, TypeOK, GameStatus
  <2>3. "finished" \in GameStatus
    BY DEF GameStatus, TERMINAL_GAME_STATUSES
  <2> QED BY <1>3, <1>4, <2>1, <2>2, <2>3 DEF AssignmentRow
<1>6. /\ Shrinks
      /\ \A h \in Games : games'[h] = "pending" => games[h] = "pending"
  <2>1. \A h \in Games :
            /\ gs[h] \in {games[h], "finished"}
            /\ as[h].key = assignments[h].key /\ as[h].worker = assignments[h].worker
            /\ as[h].status \in ACTIVE_ASSIGNMENT_STATUSES => Active(h) /\ gs[h] = games[h]
    BY <1>5 DEF Active, ACTIVE_ASSIGNMENT_STATUSES
  <2>2. CASE SetTournamentStatus(status, gs, as)
    <3>1. removal' = removal /\ serverUp' = serverUp
      BY <1>2
    <3>2. gs \in [Games -> GameStatus] /\ as \in [Games -> AssignmentRow]
      BY <1>5
    <3> QED BY <2>1, <2>2, <3>1, <3>2, StatusShrinks
  <2>3. CASE tournament' = tournament /\ games' = gs /\ assignments' = as
    <3>1. \A h \in Games : /\ gs[h] \in OPEN_GAME_STATUSES => games[h] \in OPEN_GAME_STATUSES
                           /\ games[h] \in TERMINAL_GAME_STATUSES =>
                                  gs[h] \in TERMINAL_GAME_STATUSES
                           /\ gs[h] = "pending" => games[h] = "pending"
      BY <2>1 DEF OPEN_GAME_STATUSES, TERMINAL_GAME_STATUSES
    <3>2. \A h \in Games : Active(h)' => /\ Active(h) /\ games'[h] \in OPEN_GAME_STATUSES
                                         /\ assignments'[h].worker = assignments[h].worker
      BY <2>1, <2>3 DEF Active, OneThread, ActiveOpen
    <3> QED BY <1>2, <2>1, <2>3, <3>1, <3>2 DEF Shrinks, OneThread
  <2> QED BY <1>4, <2>2, <2>3
<1>7. /\ \A o \in Sessions \ {s} : conns'[o] = conns[o]
      /\ conns'[s].pc = "idle" /\ conns'[s].worker = conns[s].worker
  BY <1>2, IdleEffect DEF TInv, NoConn
<1>8. HoldersStay
  BY <1>2, <1>3, <1>6, <1>7 DEF HoldersStay, Served, Holding, ThreadAt
<1> QED BY <1>6, <1>8, ShrinkStep

(* The coroutines only change what they show, or move on within a game.    *)
LEMMA SameHolders ==
    ASSUME TInv, OneThread, UNCHANGED <<tournament, games, assignments, removal, serverUp>>,
           \A o \in Sessions :
              /\ conns'[o].worker = conns[o].worker /\ conns'[o].game = conns[o].game
              /\ conns'[o].key = conns[o].key
              /\ \/ conns'[o].pc = conns[o].pc
                 \/ conns'[o].pc \in Holding /\ conns[o].pc \in Holding
    PROVE  OneThread'
<1>1. HoldersStay
  <2>1. \A o \in Sessions : conns[o].pc \in Holding => games[conns[o].game] # "pending"
    BY DEF OneThread, Owners
  <2> QED BY <2>1 DEF HoldersStay, Served
<1>2. Shrinks
  BY DEF Shrinks, OneThread, ActiveOpen, Active
<1> QED BY <1>1, <1>2, ShrinkStep

(* The server dies, and cleans up before it listens again.                 *)
LEMMA CrashStep ==
    ASSUME TInv, OneThread, Crash
    PROVE  OneThread'
<1>1. \A s \in Sessions : conns'[s].pc \notin Served
  BY DEF Crash, NoConn, Served, Holding, ThreadAt
<1>2. UNCHANGED <<tournament, games, assignments, removal>>
  BY DEF Crash, dbVars
<1>3. HoldersStay
  BY <1>1 DEF HoldersStay, Served
<1>4. Shrinks
  BY <1>1, <1>2 DEF Shrinks, OneThread, ActiveOpen, Active
<1> QED BY <1>3, <1>4, ShrinkStep

LEMMA RestartStep ==
    ASSUME TInv, OneThread, Restart
    PROVE  OneThread'
<1>1. PICK R : R = HeldBy(OrphanedWorkers)
  OBVIOUS
<1>2. R \in SUBSET Games
  BY <1>1 DEF HeldBy
<1>3. /\ games' = GamesReleased(R) /\ assignments' = AssignmentsReleased(R)
      /\ UNCHANGED <<removal, tournament, conns>> /\ serverUp' /\ ~serverUp
  BY <1>1 DEF Restart
<1>4. Shrinks
  BY <1>2, <1>3, ReleaseShrinks
<1>5. HoldersStay
  BY <1>3 DEF HoldersStay, OneThread, DownQuiet, Served
<1> QED BY <1>4, <1>5, ShrinkStep

-----------------------------------------------------------------------------
LEMMA InitThread == Init => OneThread
<1> SUFFICES ASSUME Init PROVE OneThread
  OBVIOUS
<1>1. OpenGames = {}
  BY DEF Init, OpenGames, OPEN_GAME_STATUSES
<1>2. Cardinality(OpenGames) <= Concurrency
  BY <1>1, FS_EmptySet, DispatchAssumption
<1>3. \A s \in Sessions : conns[s].pc = "unused"
  BY DEF Init, NoConn
<1>4. WorkersApart /\ Owners /\ DownQuiet
  BY <1>3 DEF WorkersApart, Owners, DownQuiet, Served, Holding, ThreadAt
<1>5. ActiveOpen
  BY DEF Init, ActiveOpen, Active, ACTIVE_ASSIGNMENT_STATUSES
<1> QED BY <1>2, <1>4, <1>5 DEF Init, OneThread, NoRemoval

LEMMA NextThread ==
    NobodySuperseded /\ TInv /\ KeysApart /\ OneThread /\ [Next]_vars => OneThread'
<1> SUFFICES ASSUME NobodySuperseded, TInv, KeysApart, OneThread, [Next]_vars
             PROVE  OneThread'
  OBVIOUS
<1> USE DEF Holding, ThreadAt, Served, PC
<1>1. ASSUME NEW s \in Sessions, Connects(s) PROVE OneThread'
  BY <1>1, AuthenticateStep, ReleaseStep DEF Connects
<1>2. ASSUME NEW s \in Sessions, Disconnect(s) PROVE OneThread'
  BY <1>2, ReleaseStep
<1>3. ASSUME NEW s \in Sessions, SocketCloses(s) PROVE OneThread'
  <2>1. \A o \in Sessions :
            /\ conns'[o].worker = conns[o].worker /\ conns'[o].game = conns[o].game
            /\ conns'[o].key = conns[o].key /\ conns'[o].pc = conns[o].pc
    BY <1>3 DEF SocketCloses, TInv, TypeOK, Conn
  <2> QED BY <1>3, <2>1, SameHolders DEF SocketCloses, dbVars
<1>4. ASSUME NEW s \in Sessions, NEW g \in Games, NEW k \in Keys, Claim(s, g, k)
      PROVE  OneThread'
  BY <1>4, ClaimStep
<1>5. ASSUME NEW s \in Sessions, NoAssignment(s) PROVE OneThread'
  BY <1>5, NothingChanges DEF NoAssignment, LoopFree
<1>6. ASSUME NEW s \in Sessions, Prepares(s) PROVE OneThread'
  <2>1. CASE RecordDownloading(s)
    BY <2>1, ThreadMovesOn DEF RecordDownloading
  <2>2. CASE RecordBusy(s)
    BY <2>2, ThreadMovesOn DEF RecordBusy
  <2>3. CASE PreparationFails(s)
    BY <2>3, ThreadMovesOn DEF PreparationFails, dbVars
  <2>4. CASE Acknowledge(s)
    BY <2>4, RenewStep
  <2>5. CASE FailAssignment(s)
    BY <2>5, FailStep
  <2> QED BY <1>6, <2>1, <2>2, <2>3, <2>4, <2>5 DEF Prepares
<1>7. ASSUME NEW s \in Sessions, Plays(s) PROVE OneThread'
  <2>1. CASE FindMove(s)
    BY <2>1, ThreadMovesOn DEF FindMove, ThreadStep, dbVars
  <2>2. CASE EndGame(s)
    BY <2>2, ThreadMovesOn DEF EndGame, ThreadStep, dbVars
  <2>3. CASE FinishGame(s)
    BY <2>3, ThreadMovesOn DEF FinishGame, ThreadStep, dbVars
  <2>4. CASE ThreadFails(s)
    BY <2>4, ThreadMovesOn DEF ThreadFails, ThreadStep, dbVars
  <2>5. CASE StartGame(s) \/ RecordMove(s) \/ JudgeTournament(s)
    <3>1. \A o \in Sessions :
              /\ conns'[o].worker = conns[o].worker /\ conns'[o].game = conns[o].game
              /\ conns'[o].key = conns[o].key
              /\ \/ conns'[o].pc = conns[o].pc
                 \/ conns'[o].pc \in Holding /\ conns[o].pc \in Holding
      BY <2>5 DEF StartGame, RecordMove, JudgeTournament, ThreadStep, TInv, TypeOK, Conn
    <3>2. UNCHANGED <<tournament, games, assignments, removal, serverUp>>
      BY <2>5 DEF StartGame, RecordMove, JudgeTournament, ThreadStep, dbVars
    <3> QED BY <3>1, <3>2, SameHolders
  <2>6. CASE MarkLive(s)
    BY <2>6, RenewStep
  <2>7. CASE CommitGame(s)
    BY <2>7, CommitStep
  <2> QED BY <1>7, <2>1, <2>2, <2>3, <2>4, <2>5, <2>6, <2>7 DEF Plays
<1>8. ASSUME NEW a \in Admins, AdminReads(a) \/ AdminWrites(a) PROVE OneThread'
  <2>1. CASE AdminReads(a)
    BY <2>1, NothingChanges DEF AdminReads, dbVars
  <2>2. CASE AdminWrites(a)
    BY <2>2, StatusStep DEF AdminWrites
  <2> QED BY <1>8, <2>1, <2>2
<1>9. CASE (\E w \in Removable : RemoveGames(w)) \/ RemoveAssignments \/ RemoveRow
  BY <1>9 DEF NobodySuperseded, OneThread, RemoveAssignments, RemoveRow
<1>10. CASE SchedulerReads
  BY <1>10, NothingChanges DEF SchedulerReads, dbVars
<1>11. CASE SchedulerWrites
  <2>1. \E judged : SetTournamentStatus(judged, games, assignments)
    BY <1>11 DEF SchedulerWrites
  <2> QED BY <1>11, <2>1, StatusStep DEF SchedulerWrites
<1>12. CASE Crash
  BY <1>12, CrashStep
<1>13. CASE Restart
  BY <1>13, RestartStep
<1>14. CASE UNCHANGED vars
  BY <1>14, NothingChanges DEF vars
<1> QED BY <1>1, <1>2, <1>3, <1>4, <1>5, <1>6, <1>7, <1>8, <1>9, <1>10, <1>11, <1>12, <1>13,
           <1>14 DEF Next

(* In a tournament whose workers are neither removed nor superseded, every *)
(* coroutine is the only one of its worker and owns the assignment it      *)
(* holds: this is what the two theorems below rest on.                     *)
LEMMA ThreadsAlone == ASSUME NobodySuperseded PROVE Spec => []OneThread
<1>1. TInv /\ MovesInv /\ OneThread /\ [Next]_vars => OneThread'
  BY NextThread DEF MovesInv
<1> QED BY <1>1, InitTInv, InitMoves, InitThread, NextTInv, NextMoves, PTL DEF Spec

(* However many coroutines and game threads claim, fail and finish games:  *)
(* never more of them are open than the tournament allows.                 *)
THEOREM ConcurrencyKept == Spec => []ConcurrencyRespected
<1>1. CASE NobodySuperseded
  <2>1. OneThread => ConcurrencyRespected
    BY DEF OneThread, ConcurrencyRespected
  <2> QED BY <1>1, <2>1, ThreadsAlone, PTL
<1>2. CASE ~NobodySuperseded
  <2>1. ConcurrencyRespected
    BY <1>2 DEF ConcurrencyRespected
  <2> QED BY <2>1, PTL
<1> QED BY <1>1, <1>2

(* An abort is final for the games: nothing is claimed, acknowledged,      *)
(* marked live or released back to "pending" after it.                     *)
THEOREM AbortIsFinal == Spec => []AbortedStopsPlay
<1>1. CASE NobodySuperseded
  <2>1. OneThread => AbortedStopsPlay
    BY DEF OneThread, AbortedStopsPlay, ActiveOpen, OPEN_GAME_STATUSES, TERMINAL_GAME_STATUSES
  <2> QED BY <1>1, <2>1, ThreadsAlone, PTL
<1>2. CASE ~NobodySuperseded
  <2>1. AbortedStopsPlay
    BY <1>2 DEF AbortedStopsPlay
  <2> QED BY <2>1, PTL
<1> QED BY <1>1, <1>2
=============================================================================
