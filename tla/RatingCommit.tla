----------------------------- MODULE RatingCommit -----------------------------
(***************************************************************************)
(* How the results of an ended tournament become part of the ratings.      *)
(*                                                                         *)
(* An administrator's request (request_tournament_rating_commit) queues a  *)
(* command and a tournament_rating_commits row that names it.  The         *)
(* scheduler's next cycle claims the pending commands one by one and       *)
(* applies each under a savepoint (process_pending_runner_commands,        *)
(* apply_tournament_rating_commit); one commit at the end of the cycle     *)
(* makes all of it visible.  A tournament can also be deleted.             *)
(*                                                                         *)
(* A request reads in separate statements before it writes, so its reads   *)
(* are actions of their own.  What the open cycle has written and not yet  *)
(* committed is kept apart from the committed rows: others read the old    *)
(* rows, and wait before they write one of them.  Between the statements   *)
(* of one command nothing can change what the command does: the first      *)
(* UPDATE of its row checks command_id again, and the last one that the    *)
(* row is still its own.                                                   *)
(***************************************************************************)
EXTENDS Integers, FiniteSets

CONSTANTS
    Tournaments,  \* ended, rated tournaments of a category
    Commands,     \* bound: ids of the runner commands ever queued
    Requests,     \* bound: administrator requests in flight at once
    MaxRollbacks, \* bound: how often the scheduler's cycle is rolled back
    None          \* absent tournament or command

ASSUME RatingCommitAssumption ==
    /\ Commands \subseteq Nat /\ MaxRollbacks \in Nat
    /\ None \notin Tournaments \cup Commands

VARIABLES
    exists,     \* the tournament's row is there
    commits,    \* tournament_rating_commits: status and command_id
    commands,   \* runner_commands: status and tournament of the payload
    rated,      \* how often the tournament's games went into the ratings
    requests,   \* what each administrator request is about to do
    cycle,      \* what the scheduler's open transaction has written
    rollbacks   \* how often it was rolled back

vars == <<exists, commits, commands, rated, requests, cycle, rollbacks>>

-----------------------------------------------------------------------------
OPEN_STATUSES == {"pending", "claimed"}

(* A request or a command is "claimed" inside a cycle only: no other reads *)
(* it as such, but all code that reads the column allows for it.           *)
(* A commit that exists names its command.                                 *)
NoRow == [status |-> "none", command |-> None]
CommitRow == [status : OPEN_STATUSES \cup {"applied", "failed"}, command : Commands]
                 \cup {NoRow}
Unqueued == [status |-> "unused", tournament |-> None]
CommandRow == [status : OPEN_STATUSES \cup {"applied", "failed"}, tournament : Tournaments]
                  \cup {Unqueued}
NoRequest == [step |-> "none", tournament |-> None, command |-> None]
Request == [step : {"checking"}, tournament : Tournaments, command : Commands]
               \cup [step : {"writing", "deleting"}, tournament : Tournaments, command : {None}]
               \cup {NoRequest}
Cycle == [outcomes : [Commands -> {"none", "applied", "failed"}],
          rows : [Tournaments -> CommitRow], locked : SUBSET Tournaments,
          rated : [Tournaments -> Nat]]
NoCycle == [outcomes |-> [c \in Commands |-> "none"],
            rows |-> [t \in Tournaments |-> NoRow], locked |-> {},
            rated |-> [t \in Tournaments |-> 0]]

Init ==
    /\ exists = [t \in Tournaments |-> TRUE]
    /\ commits = [t \in Tournaments |-> NoRow]
    /\ commands = [c \in Commands |-> Unqueued]
    /\ rated = [t \in Tournaments |-> 0]
    /\ requests = [r \in Requests |-> NoRequest]
    /\ cycle = NoCycle
    /\ rollbacks = 0

-----------------------------------------------------------------------------
(* The administrator's requests.                                           *)

Goes(r, step, t, c) ==
    requests' = [requests EXCEPT ![r] = [step |-> step, tournament |-> t, command |-> c]]

(* The commit that exists is read: one that failed may be asked for again, *)
(* a pending one only when its command turns out to be over.               *)
RequestReads(r, t) ==
    /\ requests[r].step = "none" /\ exists[t]
    /\ \/ /\ commits[t].status \in {"none", "failed"}
          /\ Goes(r, "writing", t, None)
       \/ /\ commits[t].status = "pending"
          /\ Goes(r, "checking", t, commits[t].command)
    /\ UNCHANGED <<exists, commits, commands, rated, cycle, rollbacks>>

RequestChecks(r) ==
    LET open == commands[requests[r].command].status \in OPEN_STATUSES IN
    /\ requests[r].step = "checking"
    /\ IF open THEN requests' = [requests EXCEPT ![r] = NoRequest]
       ELSE Goes(r, "writing", requests[r].tournament, None)
    /\ UNCHANGED <<exists, commits, commands, rated, cycle, rollbacks>>

(* The command and the row that names it, whatever that row has become.    *)
(* The foreign key refuses the row of a deleted tournament, and with it    *)
(* the command.                                                            *)
RequestWrites(r, c) ==
    LET t == requests[r].tournament IN
    /\ requests[r].step = "writing"
    /\ t \notin cycle.locked
    /\ commands[c].status = "unused"
    /\ IF exists[t]
       THEN /\ commands' = [commands EXCEPT ![c] = [status |-> "pending", tournament |-> t]]
            /\ commits' = [commits EXCEPT ![t] = [status |-> "pending", command |-> c]]
       ELSE UNCHANGED <<commands, commits>>
    /\ requests' = [requests EXCEPT ![r] = NoRequest]
    /\ UNCHANGED <<exists, rated, cycle, rollbacks>>

(* delete_tournament refuses an applied and an unfinished commit, ...      *)
DeleteReads(r, t) ==
    /\ requests[r].step = "none" /\ exists[t]
    /\ commits[t].status \in {"none", "failed"}
    /\ Goes(r, "deleting", t, None)
    /\ UNCHANGED <<exists, commits, commands, rated, cycle, rollbacks>>

(* ... and its DELETE, which takes the commit's row along, is refused when *)
(* rating_history still references the tournament.                         *)
NoHistory_Cascades(t) == TRUE
NoHistory(t) == rated[t] = 0
DeleteWrites(r) ==
    LET t == requests[r].tournament IN
    /\ requests[r].step = "deleting"
    /\ t \notin cycle.locked
    /\ IF exists[t] /\ NoHistory(t)
       THEN /\ exists' = [exists EXCEPT ![t] = FALSE]
            /\ commits' = [commits EXCEPT ![t] = NoRow]
       ELSE UNCHANGED <<exists, commits>>
    /\ requests' = [requests EXCEPT ![r] = NoRequest]
    /\ UNCHANGED <<commands, rated, cycle, rollbacks>>

-----------------------------------------------------------------------------
(* The scheduler's cycle.                                                  *)

(* What the cycle sees: its own writes, then what others have committed.   *)
Row(t) == IF t \in cycle.locked THEN cycle.rows[t] ELSE commits[t]
TimesRated(t) == rated[t] + cycle.rated[t]

(* claim_next_runner_command.                                              *)
Claimable == {c \in Commands : commands[c].status = "pending" /\ cycle.outcomes[c] = "none"}
IsNext(c) == c \in Claimable /\ \A d \in Claimable : c <= d

(* The checks of apply_tournament_rating_commit on its row ...             *)
OwnRow(c, t) == Row(t).command = c /\ Row(t).status \in OPEN_STATUSES
(* ... and on the rating history.                                          *)
NotYetRated_Always(t) == TRUE
NotYetRated(t) == TimesRated(t) = 0

(* The command is applied: games into rating_history and ratings, the row  *)
(* and the command "applied".                                              *)
ApplyCommand(c) ==
    LET t == commands[c].tournament IN
    /\ IsNext(c)
    /\ exists[t] /\ OwnRow(c, t) /\ NotYetRated(t)
    /\ cycle' = [cycle EXCEPT !.outcomes[c] = "applied",
                              !.rows[t] = [status |-> "applied", command |-> c],
                              !.locked = @ \cup {t},
                              !.rated[t] = @ + 1]
    /\ UNCHANGED <<exists, commits, commands, rated, requests, rollbacks>>

(* A check failed (these, or one on the games themselves): back to the     *)
(* savepoint, and _fail_linked_rating_commit fails the row that is its own.*)
FailedRow(c) == [status |-> "failed", command |-> c]
FailLinked_Nothing(c, t) == FALSE
FailLinked(c, t) == OwnRow(c, t)
FailCommand(c) ==
    LET t == commands[c].tournament IN
    /\ IsNext(c)
    /\ cycle' = IF FailLinked(c, t)
                THEN [cycle EXCEPT !.outcomes[c] = "failed",
                                   !.rows[t] = FailedRow(c),
                                   !.locked = @ \cup {t}]
                ELSE [cycle EXCEPT !.outcomes[c] = "failed"]
    /\ UNCHANGED <<exists, commits, commands, rated, requests, rollbacks>>

(* No command is left: run_tournament_matches commits.                     *)
CommitCycle ==
    /\ cycle # NoCycle /\ Claimable = {}
    /\ commands' = [c \in Commands |->
                       IF cycle.outcomes[c] = "none" THEN commands[c]
                       ELSE [commands[c] EXCEPT !.status = cycle.outcomes[c]]]
    /\ commits' = [t \in Tournaments |-> Row(t)]
    /\ rated' = [t \in Tournaments |-> TimesRated(t)]
    /\ cycle' = NoCycle
    /\ UNCHANGED <<exists, requests, rollbacks>>

(* The cycle raises, or the scheduler dies: PostgreSQL rolls it back.      *)
RollBackCycle_KeepsClaims ==
    /\ cycle # NoCycle /\ rollbacks < MaxRollbacks
    /\ commands' = [c \in Commands |->
                       IF cycle.outcomes[c] = "none" THEN commands[c]
                       ELSE [commands[c] EXCEPT !.status = "claimed"]]
    /\ cycle' = NoCycle
    /\ rollbacks' = rollbacks + 1
    /\ UNCHANGED <<exists, commits, rated, requests>>
RollBackCycle ==
    /\ cycle # NoCycle /\ rollbacks < MaxRollbacks
    /\ cycle' = NoCycle
    /\ rollbacks' = rollbacks + 1
    /\ UNCHANGED <<exists, commits, commands, rated, requests>>

-----------------------------------------------------------------------------
Next ==
    \/ \E r \in Requests :
          \/ \E t \in Tournaments : RequestReads(r, t) \/ DeleteReads(r, t)
          \/ RequestChecks(r) \/ DeleteWrites(r)
          \/ \E c \in Commands : RequestWrites(r, c)
    \/ \E c \in Commands : ApplyCommand(c) \/ FailCommand(c)
    \/ CommitCycle \/ RollBackCycle

Spec == Init /\ [][Next]_vars

(* The scheduler polls for ever; nobody has to request anything.           *)
Fairness ==
    /\ WF_vars(\E c \in Commands : ApplyCommand(c) \/ FailCommand(c))
    /\ WF_vars(CommitCycle)

FairSpec == Spec /\ Fairness

-----------------------------------------------------------------------------
(* Every row, request and uncommitted write keeps its domain.              *)
TypeOK ==
    /\ exists \in [Tournaments -> BOOLEAN]
    /\ commits \in [Tournaments -> CommitRow]
    /\ commands \in [Commands -> CommandRow]
    /\ rated \in [Tournaments -> Nat]
    /\ requests \in [Requests -> Request]
    /\ cycle \in Cycle
    /\ rollbacks \in 0 .. MaxRollbacks

(* However often a commit is requested, by whomever and while it is being  *)
(* applied, and however often the cycle is rolled back and repeated: the   *)
(* games of a tournament go into the ratings once.                         *)
RatedOnce == \A t \in Tournaments : rated[t] <= 1

(* A commit shown as pending has a command that will decide it, so asking  *)
(* again is rightly refused; one shown as applied is in the ratings.       *)
CommitsTellTheTruth ==
    \A t \in Tournaments :
        /\ commits[t].status = "pending" =>
               /\ commits[t].command # None
               /\ commands[commits[t].command].status = "pending"
               /\ commands[commits[t].command].tournament = t
        /\ commits[t].status = "applied" => rated[t] = 1

(* "tournament results are already part of the ratings": such a tournament *)
(* is never deleted, not even by a request that looked before the commit.  *)
RatedTournamentsStay == \A t \in Tournaments : rated[t] > 0 => exists[t]

(* Every commit requested is applied or fails some day, even if the cycle  *)
(* that processes it is rolled back.                                       *)
RequestsAreDecided ==
    \A t \in Tournaments : commits[t].status = "pending" ~> commits[t].status # "pending"
=============================================================================
