-------------------------- MODULE RatingCommitProofs --------------------------
(***************************************************************************)
(* Proofs about RatingCommit, for any number of tournaments, requests and  *)
(* commands.                                                               *)
(***************************************************************************)
EXTENDS RatingCommit, TLAPS

(* The cycle has processed only commands that are queued.                  *)
Processed == \A c \in Commands : cycle.outcomes[c] # "none" => commands[c].status = "pending"

TypeInv == TypeOK /\ Processed

(* What the open cycle may hold: only locked rows differ from the committed*)
(* ones, and a tournament it rates is there, is locked and was not rated.  *)
CycleInv ==
    \A t \in Tournaments :
        cycle.rated[t] > 0 => /\ t \in cycle.locked /\ exists[t]
                              /\ cycle.rated[t] = 1 /\ rated[t] = 0

RatedInv == RatedOnce /\ RatedTournamentsStay /\ CycleInv

(* A commit that is still open, as the cycle sees it, has a command that   *)
(* the cycle has not processed; a row the cycle wrote is decided, and one  *)
(* it wrote as applied is rated by then.                                   *)
CycleTruth ==
    /\ \A t \in Tournaments : commits[t].status # "claimed"
    /\ \A t \in Tournaments \ cycle.locked :
           commits[t].status = "pending" => cycle.outcomes[commits[t].command] = "none"
    /\ \A t \in cycle.locked :
           /\ cycle.rows[t].status \in {"applied", "failed"}
           /\ cycle.rows[t].status = "applied" => TimesRated(t) = 1

TruthInv == CommitsTellTheTruth /\ CycleTruth

-----------------------------------------------------------------------------
(* What the cycle reads of a commit is a row.                              *)
LEMMA RowType ==
    ASSUME TypeOK, NEW t \in Tournaments
    PROVE  Row(t) \in CommitRow /\ TimesRated(t) \in Nat
BY DEF TypeOK, Row, TimesRated, Cycle

(* A cycle that has written nothing is a well-formed cycle.                *)
LEMMA NoCycleType == NoCycle \in Cycle
BY DEF NoCycle, Cycle, NoRow, CommitRow

(* A command that waits has a tournament.                                  *)
LEMMA ClaimableType ==
    ASSUME TypeOK, NEW c \in Commands, c \in Claimable
    PROVE  commands[c].tournament \in Tournaments /\ commands[c] \in CommandRow
BY DEF TypeOK, Claimable, CommandRow, Unqueued

(* Processing a command leaves a well-formed cycle.                        *)
LEMMA CommandType ==
    ASSUME TypeOK, NEW c \in Commands, NEW t \in Tournaments,
           NEW outcome \in {"none", "applied", "failed"}, NEW row \in CommitRow
    PROVE  /\ [cycle EXCEPT !.outcomes[c] = outcome, !.rows[t] = row,
                            !.locked = @ \cup {t}, !.rated[t] = @ + 1] \in Cycle
           /\ [cycle EXCEPT !.outcomes[c] = outcome, !.rows[t] = row,
                            !.locked = @ \cup {t}] \in Cycle
           /\ [cycle EXCEPT !.outcomes[c] = outcome] \in Cycle
<1>1. [cycle.outcomes EXCEPT ![c] = outcome] \in [Commands -> {"none", "applied", "failed"}]
  BY DEF TypeOK, Cycle
<1>2. [cycle.rows EXCEPT ![t] = row] \in [Tournaments -> CommitRow]
  BY DEF TypeOK, Cycle
<1>3. [cycle.rated EXCEPT ![t] = @ + 1] \in [Tournaments -> Nat]
  BY DEF TypeOK, Cycle
<1>4. cycle.locked \cup {t} \in SUBSET Tournaments
  BY DEF TypeOK, Cycle
<1> QED BY <1>1, <1>2, <1>3, <1>4, Zenon DEF TypeOK, Cycle

LEMMA InitType == Init => TypeOK
<1> SUFFICES ASSUME Init PROVE TypeOK
  OBVIOUS
<1>1. rollbacks \in 0 .. MaxRollbacks
  BY RatingCommitAssumption DEF Init
<1> QED BY <1>1, NoCycleType DEF Init, TypeOK, CommitRow, CommandRow, Request

-----------------------------------------------------------------------------
(* Every action keeps the rows, the requests and the cycle well-formed.    *)
LEMMA NextType == TypeInv /\ [Next]_vars => TypeOK'
<1> SUFFICES ASSUME TypeOK, Processed, [Next]_vars PROVE TypeOK'
  BY DEF TypeInv
<1> USE DEF TypeOK
<1>1. ASSUME NEW r \in Requests, NEW t \in Tournaments, RequestReads(r, t) PROVE TypeOK'
  <2>1. commits[t].status = "pending" => commits[t].command \in Commands
    BY DEF CommitRow, NoRow, OPEN_STATUSES
  <2>2. requests' \in [Requests -> Request]
    BY <1>1, <2>1 DEF RequestReads, Goes, Request
  <2> QED BY <1>1, <2>2 DEF RequestReads
<1>2. ASSUME NEW r \in Requests, NEW t \in Tournaments, DeleteReads(r, t) PROVE TypeOK'
  <2>1. requests' \in [Requests -> Request]
    BY <1>2 DEF DeleteReads, Goes, Request
  <2> QED BY <1>2, <2>1 DEF DeleteReads
<1>3. ASSUME NEW r \in Requests, RequestChecks(r) PROVE TypeOK'
  <2>1. requests[r].tournament \in Tournaments
    BY <1>3 DEF RequestChecks, Request, NoRequest
  <2>2. requests' \in [Requests -> Request]
    BY <1>3, <2>1 DEF RequestChecks, Goes, Request
  <2> QED BY <1>3, <2>2 DEF RequestChecks
<1>4. ASSUME NEW r \in Requests, DeleteWrites(r) PROVE TypeOK'
  <2>1. requests' \in [Requests -> Request]
    BY <1>4 DEF DeleteWrites, Request
  <2>2. exists' \in [Tournaments -> BOOLEAN] /\ commits' \in [Tournaments -> CommitRow]
    BY <1>4 DEF DeleteWrites, CommitRow
  <2> QED BY <1>4, <2>1, <2>2 DEF DeleteWrites
<1>5. ASSUME NEW r \in Requests, NEW c \in Commands, RequestWrites(r, c) PROVE TypeOK'
  <2>1. requests[r].tournament \in Tournaments
    BY <1>5 DEF RequestWrites, Request, NoRequest
  <2>2. requests' \in [Requests -> Request]
    BY <1>5 DEF RequestWrites, Request
  <2>3. commands' \in [Commands -> CommandRow] /\ commits' \in [Tournaments -> CommitRow]
    BY <1>5, <2>1 DEF RequestWrites, CommitRow, CommandRow, OPEN_STATUSES
  <2> QED BY <1>5, <2>2, <2>3 DEF RequestWrites
<1>6. ASSUME NEW c \in Commands, ApplyCommand(c) PROVE TypeOK'
  <2> DEFINE t == commands[c].tournament
             row == [status |-> "applied", command |-> c]
  <2>1. t \in Tournaments
    BY <1>6, ClaimableType DEF ApplyCommand, IsNext
  <2>2. row \in CommitRow
    BY DEF CommitRow
  <2>3. cycle' \in Cycle
    BY <1>6, <2>1, <2>2, CommandType DEF ApplyCommand
  <2> QED BY <1>6, <2>3 DEF ApplyCommand
<1>7. ASSUME NEW c \in Commands, FailCommand(c) PROVE TypeOK'
  <2> DEFINE t == commands[c].tournament
  <2>1. t \in Tournaments
    BY <1>7, ClaimableType DEF FailCommand, IsNext
  <2>2. FailedRow(c) \in CommitRow
    BY DEF CommitRow, FailedRow
  <2>3. cycle' \in Cycle
    BY <1>7, <2>1, <2>2, CommandType DEF FailCommand
  <2> QED BY <1>7, <2>3 DEF FailCommand
<1>8. ASSUME CommitCycle PROVE TypeOK'
  <2>1. \A c \in Commands : cycle.outcomes[c] # "none" =>
            [commands[c] EXCEPT !.status = cycle.outcomes[c]] \in CommandRow
    <3> SUFFICES ASSUME NEW c \in Commands, cycle.outcomes[c] # "none"
                 PROVE  [commands[c] EXCEPT !.status = cycle.outcomes[c]] \in CommandRow
      OBVIOUS
    <3>1. cycle.outcomes[c] \in {"applied", "failed"}
      BY DEF Cycle
    <3>2. commands[c] # Unqueued
      BY DEF Processed, Unqueued
    <3> QED BY <3>1, <3>2 DEF CommandRow
  <2> QED BY <1>8, <2>1, RowType, NoCycleType DEF CommitCycle
<1>9. CASE RollBackCycle
  BY <1>9, NoCycleType, RatingCommitAssumption DEF RollBackCycle
<1>10. CASE UNCHANGED vars
  BY <1>10 DEF vars
<1> QED BY <1>1, <1>2, <1>3, <1>4, <1>5, <1>6, <1>7, <1>8, <1>9, <1>10 DEF Next

(* What the cycle has processed stays queued until it commits.             *)
LEMMA NextProcessed == TypeInv /\ [Next]_vars => Processed'
<1> SUFFICES ASSUME TypeOK, Processed, [Next]_vars PROVE Processed'
  BY DEF TypeInv
<1> USE DEF Processed
<1>1. ASSUME NEW r \in Requests, NEW c \in Commands, RequestWrites(r, c) PROVE Processed'
  BY <1>1 DEF RequestWrites, TypeOK, CommandRow
<1>2. ASSUME NEW c \in Commands, ApplyCommand(c) PROVE Processed'
  BY <1>2 DEF ApplyCommand, IsNext, Claimable, TypeOK, Cycle
<1>3. ASSUME NEW c \in Commands, FailCommand(c) PROVE Processed'
  BY <1>3 DEF FailCommand, IsNext, Claimable, TypeOK, Cycle
<1>4. cycle' = NoCycle => Processed'
  BY DEF NoCycle
<1>5. UNCHANGED <<commands, cycle>> => Processed'
  OBVIOUS
<1> QED
  BY <1>1, <1>2, <1>3, <1>4, <1>5
  DEF Next, RequestReads, RequestChecks, DeleteReads, DeleteWrites, CommitCycle, RollBackCycle, vars

(* Every row, request and uncommitted write keeps its domain: a commit     *)
(* that exists always names its command (request_tournament_rating_commit, *)
(* apply_tournament_rating_commit, _fail_linked_rating_commit).            *)
THEOREM TypeCorrect == Spec => []TypeOK
<1>1. Init => TypeInv
  BY InitType DEF Init, TypeInv, Processed, NoCycle
<1>2. TypeInv /\ [Next]_vars => TypeInv'
  BY NextType, NextProcessed DEF TypeInv
<1>3. TypeInv => TypeOK
  BY DEF TypeInv
<1> QED BY <1>1, <1>2, <1>3, PTL DEF Spec

-----------------------------------------------------------------------------
(* Every action keeps what is rated rated once, and there.                 *)
LEMMA NextRated == TypeInv /\ RatedInv /\ [Next]_vars => RatedInv'
<1> SUFFICES ASSUME TypeOK, RatedInv, [Next]_vars PROVE RatedInv'
  BY DEF TypeInv
<1> USE DEF RatedInv, RatedOnce, RatedTournamentsStay, CycleInv
<1>1. ASSUME NEW r \in Requests, DeleteWrites(r) PROVE RatedInv'
  BY <1>1 DEF DeleteWrites, NoHistory, TypeOK
<1>2. ASSUME NEW c \in Commands, ApplyCommand(c) PROVE RatedInv'
  <2> DEFINE t == commands[c].tournament
  <2>1. t \in Tournaments /\ exists[t]
    BY <1>2, ClaimableType DEF ApplyCommand, IsNext
  <2>2. rated[t] = 0 /\ cycle.rated[t] = 0
    BY <1>2, <2>1 DEF ApplyCommand, NotYetRated, TimesRated, TypeOK, Cycle
  <2>3. /\ cycle'.rated = [cycle.rated EXCEPT ![t] = @ + 1]
        /\ cycle'.locked = cycle.locked \cup {t}
    BY <1>2 DEF ApplyCommand, TypeOK, Cycle
  <2> HIDE DEF t
  <2> QED BY <1>2, <2>1, <2>2, <2>3 DEF ApplyCommand, TypeOK, Cycle
<1>3. ASSUME NEW c \in Commands, FailCommand(c) PROVE RatedInv'
  <2>1. cycle'.rated = cycle.rated /\ cycle.locked \subseteq cycle'.locked
    BY <1>3 DEF FailCommand, TypeOK, Cycle
  <2> QED BY <1>3, <2>1 DEF FailCommand
<1>4. CASE CommitCycle
  <2>1. \A t \in Tournaments : rated'[t] = rated[t] + cycle.rated[t]
    BY <1>4 DEF CommitCycle, TimesRated
  <2>2. \A t \in Tournaments : rated[t] \in Nat /\ cycle.rated[t] \in Nat
    BY DEF TypeOK, Cycle
  <2>3. \A t \in Tournaments : cycle'.rated[t] = 0
    BY <1>4 DEF CommitCycle, NoCycle
  <2>4. exists' = exists
    BY <1>4 DEF CommitCycle
  <2> QED BY <2>1, <2>2, <2>3, <2>4
<1>5. CASE RollBackCycle
  BY <1>5 DEF RollBackCycle, NoCycle
<1>6. UNCHANGED <<exists, rated, cycle>> => RatedInv'
  OBVIOUS
<1> QED
  BY <1>1, <1>2, <1>3, <1>4, <1>5, <1>6
  DEF Next, RequestReads, RequestChecks, RequestWrites, DeleteReads, vars

LEMMA InitInv == Init => TypeInv /\ RatedInv /\ TruthInv
BY InitType DEF Init, TypeInv, Processed, RatedInv, RatedOnce, RatedTournamentsStay,
    CycleInv, TruthInv, CommitsTellTheTruth, CycleTruth, NoCycle, NoRow

(* The games of a tournament go into the ratings once, whatever the        *)
(* requests for it and the cycles interleave: the check of rating_history  *)
(* in apply_tournament_rating_commit, made in the transaction that writes. *)
THEOREM RatedAtMostOnce == Spec => []RatedOnce
<1>1. TypeInv /\ [Next]_vars => TypeInv'
  BY NextType, NextProcessed DEF TypeInv
<1>2. RatedInv => RatedOnce
  BY DEF RatedInv
<1> QED BY InitInv, NextRated, <1>1, <1>2, PTL DEF Spec

(* A rated tournament is never deleted: what delete_tournament checked     *)
(* before may be stale, and the foreign key of rating_history is not.      *)
THEOREM RatedNotDeleted == Spec => []RatedTournamentsStay
<1>1. TypeInv /\ [Next]_vars => TypeInv'
  BY NextType, NextProcessed DEF TypeInv
<1>2. RatedInv => RatedTournamentsStay
  BY DEF RatedInv
<1> QED BY InitInv, NextRated, <1>1, <1>2, PTL DEF Spec

-----------------------------------------------------------------------------
(* Every action keeps the commits' statuses true.                          *)
LEMMA NextTruth == TypeInv /\ RatedInv /\ TruthInv /\ [Next]_vars => TruthInv'
<1> SUFFICES ASSUME TypeOK, Processed, RatedInv, TruthInv, [Next]_vars PROVE TruthInv'
  BY DEF TypeInv
<1> USE DEF TruthInv, CommitsTellTheTruth, CycleTruth
<1>1. ASSUME NEW r \in Requests, DeleteWrites(r) PROVE TruthInv'
  BY <1>1 DEF DeleteWrites, NoRow, TimesRated, TypeOK
<1>2. ASSUME NEW r \in Requests, NEW c \in Commands, RequestWrites(r, c) PROVE TruthInv'
  <2> DEFINE t == requests[r].tournament
  <2>1. t \in Tournaments /\ t \notin cycle.locked
    BY <1>2 DEF RequestWrites, TypeOK, Request, NoRequest
  <2>2. CASE ~exists[t]
    BY <1>2, <2>2 DEF RequestWrites, TimesRated
  <2>3. CASE exists[t]
    <3>1. /\ commands' = [commands EXCEPT ![c] = [status |-> "pending", tournament |-> t]]
          /\ commits' = [commits EXCEPT ![t] = [status |-> "pending", command |-> c]]
          /\ UNCHANGED <<rated, cycle>>
      BY <1>2, <2>3 DEF RequestWrites
    <3>2. cycle.outcomes[c] = "none" /\ commands[c].status = "unused"
      BY <1>2 DEF RequestWrites, Processed
    <3>3. \A u \in Tournaments : commits[u].status = "pending" => commits[u].command # c
      BY <3>2
    <3>4. c # None
      BY RatingCommitAssumption
    <3> HIDE DEF t
    <3>5. CommitsTellTheTruth'
      BY <3>1, <3>3, <3>4, <2>1 DEF TypeOK
    <3>6. CycleTruth'
      BY <3>1, <3>2, <2>1 DEF TypeOK, Cycle, TimesRated
    <3> QED BY <3>5, <3>6
  <2> QED BY <2>2, <2>3
<1>3. ASSUME NEW c \in Commands, NEW row \in CommitRow, NEW n \in Nat,
             NEW t \in Tournaments, OwnRow(c, t), commands[c].tournament = t,
             row.status \in {"applied", "failed"},
             row.status = "applied" => rated[t] + n = 1,
             cycle'.outcomes = [cycle.outcomes EXCEPT ![c] = row.status],
             cycle'.rows = [cycle.rows EXCEPT ![t] = row],
             cycle'.locked = cycle.locked \cup {t},
             cycle'.rated = [cycle.rated EXCEPT ![t] = n],
             UNCHANGED <<commits, commands, rated>>
      PROVE  TruthInv'
  <2>1. t \notin cycle.locked
    BY <1>3 DEF OwnRow, Row, OPEN_STATUSES
  <2>2. \A u \in Tournaments \ {t} : commits[u].status = "pending" => commits[u].command # c
    <3> SUFFICES ASSUME NEW u \in Tournaments \ {t}, commits[u].status = "pending",
                        commits[u].command = c
                 PROVE  FALSE
      OBVIOUS
    <3> QED BY <1>3
  <2>3. \A u \in Tournaments \ cycle'.locked :
            commits'[u].status = "pending" => cycle'.outcomes[commits'[u].command] = "none"
    BY <1>3, <2>2 DEF TypeOK, Cycle, CommitRow, NoRow
  <2>4. \A u \in cycle'.locked :
            /\ cycle'.rows[u].status \in {"applied", "failed"}
            /\ cycle'.rows[u].status = "applied" => TimesRated(u)' = 1
    BY <1>3 DEF TypeOK, Cycle, TimesRated
  <2> QED BY <1>3, <2>3, <2>4
<1>4. ASSUME NEW c \in Commands, ApplyCommand(c) PROVE TruthInv'
  <2> DEFINE t == commands[c].tournament
             row == [status |-> "applied", command |-> c]
  <2>1. t \in Tournaments /\ OwnRow(c, t) /\ row \in CommitRow
    BY <1>4, ClaimableType DEF ApplyCommand, IsNext, CommitRow
  <2>2. rated[t] = 0 /\ cycle.rated[t] = 0
    BY <1>4, <2>1 DEF ApplyCommand, NotYetRated, TimesRated, TypeOK, Cycle
  <2>3. /\ cycle'.outcomes = [cycle.outcomes EXCEPT ![c] = row.status]
        /\ cycle'.rows = [cycle.rows EXCEPT ![t] = row]
        /\ cycle'.locked = cycle.locked \cup {t}
        /\ cycle'.rated = [cycle.rated EXCEPT ![t] = 1]
        /\ UNCHANGED <<commits, commands, rated>>
    BY <1>4, <2>2 DEF ApplyCommand, TypeOK, Cycle
  <2>4. rated[t] + 1 = 1 /\ row.status = "applied" /\ 1 \in Nat
    BY <2>2
  <2>5. commands[c].tournament = t
    OBVIOUS
  <2> HIDE DEF row, t
  <2>6. row.status \in {"applied", "failed"} /\ (row.status = "applied" => rated[t] + 1 = 1)
    BY <2>4, <2>2
  <2> QED BY <1>3, <2>1, <2>3, <2>4, <2>5, <2>6, SMTT(30)
<1>5. ASSUME NEW c \in Commands, FailCommand(c) PROVE TruthInv'
  <2> DEFINE t == commands[c].tournament
  <2>1. t \in Tournaments /\ c \in Claimable /\ UNCHANGED <<commits, commands, rated>>
    BY <1>5, ClaimableType DEF FailCommand, IsNext
  <2>2. CASE OwnRow(c, t)
    <3>1. FailedRow(c) \in CommitRow /\ FailedRow(c).status = "failed"
      BY DEF CommitRow, FailedRow
    <3>2. /\ cycle'.outcomes = [cycle.outcomes EXCEPT ![c] = FailedRow(c).status]
          /\ cycle'.rows = [cycle.rows EXCEPT ![t] = FailedRow(c)]
          /\ cycle'.locked = cycle.locked \cup {t}
          /\ cycle'.rated = [cycle.rated EXCEPT ![t] = cycle.rated[t]]
      BY <1>5, <2>2 DEF FailCommand, FailLinked, FailedRow, TypeOK, Cycle
    <3>3. cycle.rated[t] \in Nat
      BY <2>1 DEF TypeOK, Cycle
    <3>4. FailedRow(c).status = "applied" => rated[t] + cycle.rated[t] = 1
      BY <3>1
    <3>5. commands[c].tournament = t /\ FailedRow(c).status \in {"applied", "failed"}
      BY <3>1
    <3> HIDE DEF t
    <3> QED BY <1>3, <2>1, <2>2, <3>1, <3>2, <3>3, <3>4, <3>5
  <2>3. CASE ~OwnRow(c, t)
    <3>1. /\ cycle'.outcomes = [cycle.outcomes EXCEPT ![c] = "failed"]
          /\ UNCHANGED <<cycle.rows, cycle.locked, cycle.rated>>
      BY <1>5, <2>3 DEF FailCommand, FailLinked, TypeOK, Cycle
    <3>2. \A u \in Tournaments \ cycle.locked :
              commits[u].status = "pending" => commits[u].command # c
      BY <2>1, <2>3 DEF OwnRow, Row, OPEN_STATUSES
    <3> QED BY <2>1, <3>1, <3>2 DEF TypeOK, Cycle, TimesRated
  <2> QED BY <2>2, <2>3
<1>6. CASE CommitCycle
  <2>1. \A t \in Tournaments : commits'[t] = Row(t) /\ rated'[t] = TimesRated(t)
    BY <1>6 DEF CommitCycle
  <2>2. cycle' = NoCycle
    BY <1>6 DEF CommitCycle
  <2>3. \A c \in Commands : cycle.outcomes[c] = "none" => commands'[c] = commands[c]
    BY <1>6 DEF CommitCycle
  <2>4. ASSUME NEW t \in Tournaments PROVE
            /\ Row(t).status # "claimed"
            /\ Row(t).status = "pending" =>
                   /\ Row(t).command # None
                   /\ commands'[Row(t).command].status = "pending"
                   /\ commands'[Row(t).command].tournament = t
            /\ Row(t).status = "applied" => TimesRated(t) = 1
    <3>1. CASE t \in cycle.locked
      BY <3>1 DEF Row
    <3>2. CASE t \notin cycle.locked
      <4>1. cycle.rated[t] = 0 /\ Row(t) = commits[t] /\ rated[t] \in Nat
        BY <3>2 DEF RatedInv, CycleInv, TypeOK, Cycle, Row
      <4>2. commits[t].status = "pending" => commits[t].command \in Commands
        BY DEF TypeOK, CommitRow, NoRow
      <4> QED BY <4>1, <4>2, <2>3, <3>2 DEF TimesRated
    <3> QED BY <3>1, <3>2
  <2>5. CommitsTellTheTruth'
    BY <2>1, <2>4
  <2>6. CycleTruth'
    <3>1. \A t \in Tournaments : commits'[t] \in CommitRow /\ commits'[t].status # "claimed"
      BY <2>1, <2>4, RowType
    <3>2. \A t \in Tournaments : commits'[t].status = "pending" => commits'[t].command \in Commands
      BY <3>1 DEF CommitRow, NoRow
    <3>3. cycle'.locked = {} /\ \A c \in Commands : cycle'.outcomes[c] = "none"
      BY <2>2 DEF NoCycle
    <3> QED BY <3>1, <3>2, <3>3
  <2> QED BY <2>5, <2>6
<1>7. CASE RollBackCycle
  BY <1>7 DEF RollBackCycle, NoCycle, TypeOK, CommitRow, NoRow
<1>8. UNCHANGED <<commits, commands, rated, cycle>> => TruthInv'
  BY DEF TimesRated
<1> QED
  BY <1>1, <1>2, <1>4, <1>5, <1>6, <1>7, <1>8
  DEF Next, RequestReads, RequestChecks, DeleteReads, vars

(* A pending commit always has a queued command of its own that will       *)
(* decide it, and an applied one is in the ratings: requests, commands,    *)
(* savepoints and rolled back cycles together.                             *)
THEOREM CommitsTrue == Spec => []CommitsTellTheTruth
<1>1. TypeInv /\ [Next]_vars => TypeInv'
  BY NextType, NextProcessed DEF TypeInv
<1>2. TruthInv => CommitsTellTheTruth
  BY DEF TruthInv
<1> QED BY InitInv, NextRated, NextTruth, <1>1, <1>2, PTL DEF Spec
=============================================================================
