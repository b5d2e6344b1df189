------------------------- MODULE EngineTransportProofs -------------------------
(***************************************************************************)
(* Proofs about EngineTransport: the cache keeps its promises under the    *)
(* worker that uses it, a side loses on time exactly when it has used its  *)
(* time, every reply is the one to the command it is read for, and neither *)
(* end of the websocket gets out of step, for any instances (numbers of    *)
(* assignments, plies, info lines, time controls and search times).        *)
(***************************************************************************)
EXTENDS EngineTransport, FiniteSetTheorems, SequenceTheorems, TLAPS

-----------------------------------------------------------------------------
(* The cache, for any number of preparations and any bound on mishaps.     *)
Fetching == {"downloading", "installing"}

(* The lock is one preparation's, dead ones included.                      *)
Exclusive ==
    \A p, q \in Preparers : preparers[p] \in Locked /\ preparers[q] \in Locked => p = q

(* While a preparation downloads there is nothing to run from, and what it *)
(* installs it has verified, into a place that is free.                    *)
InProgress ==
    \A p \in Preparers :
        /\ preparers[p] \in Fetching => sourceDir # "ready"
        /\ preparers[p] = "installing" => sourceDir = "absent" /\ temporary = "verified"

(* Each mishap pays for one download beyond the first; when the next       *)
(* preparation would download again, it has been paid for.                 *)
Paid ==
    /\ downloads <= 1 + mishaps
    /\ sourceDir # "ready" /\ ~failure /\ (\A p \in Preparers : preparers[p] \notin Fetching)
           => downloads <= mishaps

CacheInv == CacheTypeOK /\ Exclusive /\ InProgress /\ Paid

-----------------------------------------------------------------------------
LEMMA InitCache == CacheInit => CacheInv
<1> SUFFICES ASSUME CacheInit PROVE CacheInv
  OBVIOUS
<1>1. CacheTypeOK
  <2>1. mishaps \in 0 .. MaxMishaps
    BY CacheAssumption DEF CacheInit
  <2> QED BY <2>1 DEF CacheInit, CacheTypeOK
<1>2. \A p \in Preparers : preparers[p] = "idle"
  BY DEF CacheInit
<1>3. Exclusive /\ InProgress
  BY <1>2 DEF Exclusive, InProgress, Locked, Fetching
<1>4. Paid
  BY DEF CacheInit, Paid
<1> QED BY <1>1, <1>3, <1>4 DEF CacheInv

LEMMA CacheTypeStep == CacheTypeOK /\ CacheNext => CacheTypeOK'
<1> SUFFICES ASSUME CacheTypeOK, CacheNext PROVE CacheTypeOK'
  OBVIOUS
<1> DEFINE Pcs == Locked \cup {"idle", "waiting", "prepared", "failed"}
<1>0. \A p \in Preparers : \A pc \in Pcs :
          [preparers EXCEPT ![p] = pc] \in [Preparers -> Pcs]
  BY DEF CacheTypeOK
<1>3. ASSUME Mishap PROVE mishaps' \in 0 .. MaxMishaps
  BY <1>3, CacheAssumption DEF Mishap, CacheTypeOK
<1>1. ASSUME NEW p \in Preparers, Prepares(p) PROVE CacheTypeOK'
  <2>1. CASE Lock(p) \/ Hit(p) \/ Suppressed(p)
    BY <1>0, <2>1 DEF Lock, Hit, Suppressed, Moves, Locked, CacheTypeOK
  <2>2. CASE StartDownload(p)
    BY <1>0, <2>2 DEF StartDownload, Moves, Locked, CacheTypeOK
  <2>3. CASE Verify(p)
    BY <1>0, <2>3 DEF Verify, Moves, Locked, CacheTypeOK
  <2>4. CASE Install(p)
    BY <1>0, <2>4 DEF Install, Installed, Moves, Locked, CacheTypeOK
  <2>5. CASE DownloadFails(p)
    <3>1. failure' \in BOOLEAN /\ mishaps' \in 0 .. MaxMishaps
      BY <1>3, <2>5 DEF DownloadFails, RecordFailure, CacheTypeOK
    <3> QED BY <1>0, <2>5, <3>1 DEF DownloadFails, Installed, Moves, Locked, CacheTypeOK
  <2> QED BY <1>1, <2>1, <2>2, <2>3, <2>4, <2>5 DEF Prepares
<1>2. ASSUME NEW P \in SUBSET Preparers, Begin(P) PROVE CacheTypeOK'
  BY <1>2 DEF Begin, CacheTypeOK
<1>6. ASSUME NEW p \in Preparers, LockFails(p) PROVE CacheTypeOK'
  BY <1>0, <1>6 DEF LockFails, Moves, Locked, CacheTypeOK
<1>4. CASE CooldownEnds \/ Damage
  BY <1>3, <1>4 DEF CooldownEnds, Damage, CacheTypeOK
<1>5. ASSUME NEW p \in Mortal, Dies(p) PROVE CacheTypeOK'
  BY <1>0, <1>3, <1>5, CacheAssumption DEF Dies, CacheTypeOK
<1> QED BY <1>1, <1>2, <1>4, <1>5, <1>6 DEF CacheNext

(* One step of one preparation.                                            *)
LEMMA PreparesStep ==
    ASSUME CacheInv, NEW p \in Preparers, Prepares(p)
    PROVE  Exclusive' /\ InProgress' /\ Paid'
<1> USE DEF CacheInv, CacheTypeOK, Moves
<1>1. CASE Lock(p)
  <2>1. \A q \in Preparers : preparers[q] \notin Locked
    BY <1>1 DEF Lock, LockFree
  <2>2. /\ preparers'[p] = "looking" /\ preparers[p] = "waiting"
        /\ \A q \in Preparers : q # p => preparers'[q] = preparers[q]
    BY <1>1 DEF Lock
  <2>3. Exclusive' /\ InProgress'
    BY <2>1, <2>2 DEF Exclusive, InProgress, Locked, Fetching
  <2>4. Paid'
    BY <1>1, <2>2 DEF Lock, Paid, Fetching
  <2> QED BY <2>3, <2>4
<1>2. CASE Hit(p) \/ Suppressed(p)
  <2>1. /\ preparers'[p] \in {"prepared", "failed"} /\ preparers[p] = "looking"
        /\ \A q \in Preparers : q # p => preparers'[q] = preparers[q]
    BY <1>2 DEF Hit, Suppressed
  <2>2. Exclusive' /\ InProgress'
    BY <1>2, <2>1 DEF Hit, Suppressed, Exclusive, InProgress, Locked, Fetching
  <2>3. Paid'
    BY <1>2, <2>1 DEF Hit, Suppressed, Paid, Fetching
  <2> QED BY <2>2, <2>3
<1>3. CASE StartDownload(p)
  <2>1. /\ preparers'[p] = "downloading" /\ preparers[p] = "looking"
        /\ \A q \in Preparers : q # p => preparers'[q] = preparers[q]
    BY <1>3 DEF StartDownload
  <2>2. \A q \in Preparers : q # p => preparers[q] \notin Locked
    BY <2>1 DEF Exclusive, Locked
  <2>3. Exclusive' /\ InProgress'
    BY <1>3, <2>1, <2>2
       DEF StartDownload, ArtifactIsReady, Exclusive, InProgress, Locked, Fetching
  <2>4. downloads <= mishaps
    BY <1>3, <2>1, <2>2 DEF StartDownload, ArtifactIsReady, RecentFailure, Paid, Locked, Fetching
  <2>5. Paid'
    BY <1>3, <2>1, <2>4 DEF StartDownload, Paid, Fetching
  <2> QED BY <2>3, <2>5
<1>4. CASE Verify(p)
  <2>1. /\ preparers'[p] = "installing" /\ preparers[p] = "downloading"
        /\ \A q \in Preparers : q # p => preparers'[q] = preparers[q]
    BY <1>4 DEF Verify
  <2>2. Exclusive' /\ InProgress'
    BY <1>4, <2>1 DEF Verify, Exclusive, InProgress, Locked, Fetching
  <2>3. Paid'
    BY <1>4, <2>1 DEF Verify, Paid, Fetching
  <2> QED BY <2>2, <2>3
<1>5. CASE Install(p)
  <2>1. /\ preparers'[p] = "prepared" /\ preparers[p] = "installing"
        /\ \A q \in Preparers : q # p => preparers'[q] = preparers[q]
    BY <1>5 DEF Install
  <2>2. \A q \in Preparers : q # p => preparers[q] \notin Locked
    BY <2>1 DEF Exclusive, Locked
  <2>3. sourceDir' = "ready"
    BY <1>5, <2>1 DEF Install, Installed, InProgress
  <2>4. Exclusive' /\ InProgress'
    BY <2>1, <2>2 DEF Exclusive, InProgress, Locked, Fetching
  <2>5. Paid'
    BY <1>5, <2>3 DEF Install, Paid
  <2> QED BY <2>4, <2>5
<1>6. CASE DownloadFails(p)
  <2>1. /\ preparers'[p] = "failed" /\ preparers[p] \in Fetching
        /\ \A q \in Preparers : q # p => preparers'[q] = preparers[q]
    BY <1>6 DEF DownloadFails, Fetching
  <2>2. \A q \in Preparers : q # p => preparers[q] \notin Locked
    BY <2>1 DEF Exclusive, Locked, Fetching
  <2>3. Exclusive' /\ InProgress'
    BY <2>1, <2>2 DEF Exclusive, InProgress, Locked, Fetching
  <2>4. /\ downloads' = downloads /\ downloads \in Nat /\ mishaps \in Nat
        /\ (failure' = TRUE /\ mishaps' = mishaps) \/ mishaps' = mishaps + 1
    BY <1>6, CacheAssumption DEF DownloadFails, RecordFailure, Mishap
  <2>5. downloads <= 1 + mishaps
    BY DEF Paid
  <2>6. Paid'
    BY <2>4, <2>5 DEF Paid
  <2> QED BY <2>3, <2>6
<1> QED BY <1>1, <1>2, <1>3, <1>4, <1>5, <1>6 DEF Prepares

LEMMA CacheStepInv == CacheInv /\ [CacheNext]_cacheVars => CacheInv'
<1> SUFFICES ASSUME CacheInv, [CacheNext]_cacheVars PROVE CacheInv'
  OBVIOUS
<1>1. CASE UNCHANGED cacheVars
  BY <1>1 DEF cacheVars, CacheInv, CacheTypeOK, Exclusive, InProgress, Paid
<1>2. CASE CacheNext
  <2>0. CacheTypeOK'
    BY <1>2, CacheTypeStep DEF CacheInv
  <2>1. ASSUME NEW p \in Preparers, Prepares(p) PROVE Exclusive' /\ InProgress' /\ Paid'
    BY <2>1, PreparesStep
  <2>2. ASSUME NEW P \in SUBSET Preparers, Begin(P) PROVE Exclusive' /\ InProgress' /\ Paid'
    <3>1. \A p \in Preparers :
              preparers'[p] = preparers[p]
                  \/ (preparers[p] = "idle" /\ preparers'[p] = "waiting")
      BY <2>2 DEF Begin
    <3> QED BY <2>2, <3>1 DEF Begin, CacheInv, Exclusive, InProgress, Paid, Locked, Fetching
  <2>3. CASE CooldownEnds
    <3>1. downloads \in Nat /\ mishaps \in Nat /\ mishaps' = mishaps + 1
      BY <2>3, CacheAssumption DEF CooldownEnds, Mishap, CacheInv, CacheTypeOK
    <3>2. Exclusive' /\ InProgress'
      BY <2>3 DEF CooldownEnds, CacheInv, Exclusive, InProgress
    <3>3. Paid'
      BY <2>3, <3>1 DEF CooldownEnds, CacheInv, Paid
    <3> QED BY <2>0, <3>2, <3>3 DEF CacheInv
  <2>4. CASE Damage
    <3>1. \A p \in Preparers : preparers[p] \notin Fetching
      BY <2>4 DEF Damage, CacheInv, InProgress
    <3>2. downloads \in Nat /\ mishaps \in Nat /\ mishaps' = mishaps + 1
      BY <2>4, CacheAssumption DEF Damage, Mishap, CacheInv, CacheTypeOK
    <3>3. Exclusive' /\ InProgress'
      BY <2>4, <3>1 DEF Damage, CacheInv, Exclusive, InProgress, Fetching
    <3>4. Paid'
      BY <2>4, <3>2 DEF Damage, CacheInv, Paid
    <3> QED BY <2>0, <3>3, <3>4 DEF CacheInv
  <2>5. ASSUME NEW p \in Mortal, Dies(p) PROVE Exclusive' /\ InProgress' /\ Paid'
    <3>1. p \in Preparers
      BY CacheAssumption
    <3>2. /\ preparers'[p] = "waiting"
          /\ \A q \in Preparers : q # p => preparers'[q] = preparers[q]
      BY <2>5, <3>1 DEF Dies, CacheInv, CacheTypeOK
    <3>3. Exclusive' /\ InProgress'
      BY <2>5, <3>2 DEF Dies, CacheInv, Exclusive, InProgress, Locked, Fetching
    <3>4. Paid'
      BY <2>5 DEF Dies, Mishap, CacheInv, CacheTypeOK, Paid
    <3> QED BY <3>3, <3>4
  <2>6. ASSUME NEW p \in Preparers, LockFails(p) PROVE Exclusive' /\ InProgress' /\ Paid'
    <3>1. \A q \in Preparers :
              preparers'[q] = preparers[q]
                  \/ (preparers[q] = "waiting" /\ preparers'[q] = "failed")
      BY <2>6 DEF LockFails, Moves, CacheInv, CacheTypeOK
    <3> QED BY <2>6, <3>1 DEF LockFails, CacheInv, Exclusive, InProgress, Paid, Locked, Fetching
  <2> QED BY <1>2, <2>0, <2>1, <2>2, <2>3, <2>4, <2>5, <2>6 DEF CacheInv, CacheNext
<1> QED BY <1>1, <1>2

LEMMA AtMostOneLocked ==
    ASSUME Exclusive
    PROVE  Cardinality({p \in Preparers : preparers[p] \in Locked}) <= 1
<1> DEFINE L == {p \in Preparers : preparers[p] \in Locked}
<1>1. CASE L = {}
  BY <1>1, FS_EmptySet
<1>2. CASE L # {}
  <2>1. PICK p \in L : TRUE
    BY <1>2
  <2>2. L = {p}
    BY <2>1 DEF Exclusive
  <2>3. Cardinality(L) = 1
    BY <2>2, FS_Singleton
  <2> QED BY <2>3
<1> QED BY <1>1, <1>2

-----------------------------------------------------------------------------
(* Every variable of the cache keeps its domain, mishaps their bound.      *)
THEOREM CacheTypeCorrect == CacheSpec => []CacheTypeOK
<1>1. CacheInv => CacheTypeOK
  BY DEF CacheInv
<1> QED BY InitCache, CacheStepInv, <1>1, PTL DEF CacheSpec

(* However many slots of a machine want a binary, it is asked for once,    *)
(* and once more at most for every cooldown that passed, damaged copy,     *)
(* death in a download and failure whose file could not be written         *)
(* (_exclusive_artifact_lock, _recent_artifact_failure,                    *)
(* _record_artifact_failure).                                              *)
THEOREM Shared == CacheSpec => []DownloadsAreShared
<1>1. CacheInv => DownloadsAreShared
  BY AtMostOneLocked DEF CacheInv, Paid, DownloadsAreShared
<1> QED BY InitCache, CacheStepInv, <1>1, PTL DEF CacheSpec

(* Nothing but damage from outside takes an installed artifact away, and   *)
(* only verified files are installed (_ensure_artifact).                   *)
THEOREM IntactStays == CacheSpec => IntactArtifactsStay
<1>1. CacheInv /\ [CacheNext]_cacheVars =>
          [/\ sourceDir = "ready" => sourceDir' = "ready" \/ mishaps' # mishaps
           /\ sourceDir' = "damaged" => sourceDir = "damaged" \/ mishaps' # mishaps]_cacheVars
  <2> SUFFICES ASSUME CacheInv, CacheNext
               PROVE  /\ sourceDir = "ready" => sourceDir' = "ready" \/ mishaps' # mishaps
                      /\ sourceDir' = "damaged" => sourceDir = "damaged" \/ mishaps' # mishaps
    OBVIOUS
  <2>1. ASSUME NEW p \in Preparers, Prepares(p)
        PROVE  /\ sourceDir = "ready" => sourceDir' = "ready"
               /\ sourceDir' = "damaged" => sourceDir = "damaged"
    <3>1. CASE Lock(p) \/ Hit(p) \/ Suppressed(p) \/ StartDownload(p) \/ Verify(p)
      BY <3>1 DEF Lock, Hit, Suppressed, StartDownload, Verify, ArtifactIsReady
    <3>2. CASE Install(p)
      BY <3>2 DEF Install, Installed, Moves, CacheInv, InProgress
    <3>3. CASE DownloadFails(p)
      BY <3>3 DEF DownloadFails, Installed, Moves, CacheInv, InProgress, Fetching
    <3> QED BY <2>1, <3>1, <3>2, <3>3 DEF Prepares
  <2>2. ASSUME NEW P \in SUBSET Preparers, Begin(P) PROVE UNCHANGED sourceDir
    BY <2>2 DEF Begin
  <2>3. CASE CooldownEnds \/ Damage
    BY <2>3 DEF CooldownEnds, Damage, Mishap, CacheInv, CacheTypeOK
  <2>4. ASSUME NEW p \in Mortal, Dies(p) PROVE UNCHANGED sourceDir
    BY <2>4 DEF Dies
  <2>5. ASSUME NEW p \in Preparers, LockFails(p) PROVE UNCHANGED sourceDir
    BY <2>5 DEF LockFails
  <2> QED BY <2>1, <2>2, <2>3, <2>4, <2>5 DEF CacheNext
<1> QED BY InitCache, CacheStepInv, <1>1, PTL DEF CacheSpec, IntactArtifactsStay

-----------------------------------------------------------------------------

(* A step of the transport is a step of the cache or leaves it alone: only *)
(* the worker's ReceiveAssignment and the cache's own steps touch it.      *)
LEMMA BeginsPreparation ==
    ASSUME NEW P, Begin(P)
    PROVE  CacheNext
<1>1. Begin(P \cap Preparers)
  BY DEF Begin
<1> QED BY <1>1 DEF CacheNext

LEMMA TransportStepsCache == [Next]_vars => [CacheNext]_cacheVars
<1> SUFFICES ASSUME Next PROVE CacheNext \/ UNCHANGED cacheVars
  BY DEF vars
<1>1. CASE Serves
  BY <1>1 DEF Serves, Dispatch, ReceiveReady, ReceivePreparationFailed, BackoffOver,
     ReceiveUnexpected, EndSession, CompleteAssignment
<1>2. CASE Plays
  BY <1>2 DEF Plays, RunNextMove, AssignmentLost, FinishGame
<1>3. CASE Transports
  BY <1>3 DEF Transports, SendCommand, ReceiveInfo, ReceiveResult, ReceiveFailure, CommandCutOff
<1>4. CASE Works
  <2>1. CASE ReceiveAssignment
    BY <2>1, BeginsPreparation DEF ReceiveAssignment
  <2> QED BY <1>4, <2>1 DEF Works, ReportReady, ReportNotPrepared, ReceiveCommand,
          AnswerCommand, EngineFails, RepeatFailure, ReceiveComplete, ClientStops
<1>5. CASE Collect \/ EmitInfo \/ PublishInfo \/ SocketCloses
  BY <1>5 DEF Collect, EmitInfo, PublishInfo, SocketCloses
<1>6. CASE CacheStep
  <2>1. ASSUME NEW p \in OtherSlots, Begin({p}) PROVE CacheNext
    BY <2>1, BeginsPreparation
  <2> QED BY <1>6, <2>1 DEF CacheStep, CacheNext
<1> QED BY <1>1, <1>2, <1>3, <1>4, <1>5, <1>6 DEF Next

(* The worker's preparations are behaviours of ArtifactCache: what that    *)
(* module promises holds while games are played (_ensure_artifact, called  *)
(* by _prepare_assignment).                                                *)
THEOREM CacheImplemented == Spec => CacheSpec
<1>1. Init => CacheInit
  BY DEF Init
<1> QED BY <1>1, TransportStepsCache, PTL DEF Spec, CacheSpec

(* The machine asks for a binary once, whatever becomes of the assignments *)
(* that want it.                                                           *)
THEOREM TransportShares == Spec => []DownloadsAreShared
BY CacheImplemented, Shared, PTL

(* No assignment's preparation spoils an artifact that is installed.       *)
THEOREM TransportKeepsArtifacts == Spec => IntactArtifactsStay
BY CacheImplemented, IntactStays, PTL

-----------------------------------------------------------------------------
(* What the variables hold, part by part.                                  *)
ServerOK ==
    /\ server \in [pc : {"idle", "preparing", "backoff", "playing", "over"}, n : Nat]
    /\ server.pc \in {"preparing", "playing"} => server.n \in Nat \ {0}
Games == [pc : {"off", "toMove", "waiting", "ending", "over", "raised"},
          side : Engines, plies : 0 .. bounds.plies, started : SUBSET Engines,
          timeControl : bounds.timeControls, clock : [Engines -> Clock],
          searches : [Engines -> Nat], spent : [Engines -> Nat],
          termination : {"none", "timeout", "by the rules", "engine error"}]
(* A game is played for an assignment, and waits only to make a ply.       *)
GameOK ==
    /\ game \in Games
    /\ game.pc # "off" => server.pc = "playing"
    /\ game.pc = "waiting" => game.plies < bounds.plies
(* A command under way is the one that the thread waits for, or a "quit"   *)
(* of the collector.                                                       *)
CallOK ==
    /\ call \in [state : {"none", "scheduled", "sent", "blocking"}, engine : Engines \cup {"any"},
                 what : {"none", "setup", "go", "quit"}, id : Nat]
    /\ call.state # "none" =>
           /\ call.engine \in Engines
           /\ \/ call.what \in {"setup", "go"} /\ game.pc = "waiting"
              \/ call.what = "quit" /\ game.pc = "over"
    /\ call.state = "blocking" => call.what = "quit"
ClientOK ==
    /\ client \in [pc : {"idle", "preparing", "ready", "working", "failed", "dead"},
                   n : Nat, command : Message, running : SUBSET Engines]
    /\ client.pc \in {"preparing", "ready", "working", "failed"} => client.n \in Nat \ {0}
    /\ client.pc \in {"working", "failed"} => client.command.engine \in Engines
PublisherOK ==
    /\ publisher \in [latest : Nat, sent : 0 .. bounds.infos]
    /\ publisher.latest # 0 => publisher.sent < bounds.infos
(* A command names one of the engines.                                     *)
Downward == {m \in Message : m.type = "engine_command" => m.engine \in Engines}
WireOK == toWorker \in Seq(Downward) /\ toServer \in Seq(Message) /\ socketOpen \in BOOLEAN
TransportOK ==
    /\ bounds \in Instances /\ collected \in BOOLEAN
    /\ ServerOK /\ GameOK /\ CallOK /\ ClientOK /\ PublisherOK /\ WireOK

LEMMA BoundsTypes ==
    ASSUME bounds \in Instances
    PROVE  /\ bounds.assignments \in Nat \ {0} /\ bounds.plies \in Nat /\ bounds.infos \in Nat
           /\ bounds.elapsed \subseteq Nat /\ bounds.timeControls \subseteq TimeControl
           /\ (CHOOSE tc \in bounds.timeControls : TRUE) \in bounds.timeControls
<1>1. bounds \in [assignments : Nat \ {0}, plies : Nat,
                  timeControls : (SUBSET TimeControl) \ {{}}, elapsed : SUBSET Nat,
                  infos : Nat, others : BOOLEAN, mishaps : Nat]
  BY TransportAssumption
<1>2. \E tc \in bounds.timeControls : TRUE
  <2>1. bounds.timeControls # {}
    BY <1>1
  <2> QED BY <2>1
<1>3. (CHOOSE tc \in bounds.timeControls : TRUE) \in bounds.timeControls
  BY <1>2
<1> QED BY <1>1, <1>3

-----------------------------------------------------------------------------
(* Messages.                                                               *)
LEMMA Messages ==
    /\ \A type \in {"assignment", "assignment_complete"}, n \in Nat \ {0} :
           Plain(type, n) \in Downward
    /\ \A type \in {"assignment_ready", "assignment_failed", "engine_command"}, n \in Nat \ {0} :
           Plain(type, n) \in Message
    /\ \A type \in {"assignment_failed", "engine_info", "engine_command_result"},
          m \in Message, elapsed \in Nat : Reply(type, m, elapsed) \in Message
    /\ \A m \in Message, e \in Engines \cup {"any"} :
           [m EXCEPT !.type = "assignment_failed", !.engine = e] \in Message
    /\ \A n \in Nat \ {0}, e \in Engines, id \in Nat, what \in {"setup", "go", "quit"} :
           [type |-> "engine_command", n |-> n, engine |-> e, id |-> id,
            what |-> what, elapsed |-> 0] \in Downward
    /\ \A m \in Message : /\ m.n \in Nat \ {0} /\ m.elapsed \in Nat /\ m.id \in Nat
                          /\ m.engine \in Engines \cup {"any"}
<1>0. \A type \in {"assignment", "assignment_complete"}, n \in Nat \ {0} :
          Plain(type, n) \in Downward
  BY DEF Plain, Message, Downward
<1>1. \A type \in {"assignment_ready", "assignment_failed", "engine_command"}, n \in Nat \ {0} :
          Plain(type, n) \in Message
  BY DEF Plain, Message
<1>2. \A type \in {"assignment_failed", "engine_info", "engine_command_result"},
         m \in Message, elapsed \in Nat : Reply(type, m, elapsed) \in Message
  BY DEF Reply, Message
<1>3. \A m \in Message, e \in Engines \cup {"any"} :
          [m EXCEPT !.type = "assignment_failed", !.engine = e] \in Message
  BY DEF Message
<1>4. \A n \in Nat \ {0}, e \in Engines, id \in Nat, what \in {"setup", "go", "quit"} :
          [type |-> "engine_command", n |-> n, engine |-> e, id |-> id,
           what |-> what, elapsed |-> 0] \in Downward
  BY DEF Message, Downward
<1>5. \A m \in Message : /\ m.n \in Nat \ {0} /\ m.elapsed \in Nat /\ m.id \in Nat
                         /\ m.engine \in Engines \cup {"any"}
  BY DEF Message
<1> QED BY <1>0, <1>1, <1>2, <1>3, <1>4, <1>5

LEMMA Sends ==
    ASSUME WireOK
    PROVE  /\ \A m \in Downward : SendToWorker(m) => WireOK'
           /\ \A m \in Message :
                  SendToServer(m) /\ UNCHANGED <<toWorker, socketOpen>> => WireOK'
<1>1. \A m \in Downward : Append(toWorker, m) \in Seq(Downward)
  BY AppendProperties DEF WireOK
<1>2. \A m \in Message : Append(toServer, m) \in Seq(Message)
  BY AppendProperties DEF WireOK
<1> QED BY <1>1, <1>2 DEF WireOK, SendToWorker, SendToServer

LEMMA Received ==
    ASSUME WireOK
    PROVE  /\ toServer # <<>> /\ toServer' = Tail(toServer) /\ UNCHANGED <<toWorker, socketOpen>>
                  => WireOK'
           /\ toWorker # <<>> /\ toWorker' = Tail(toWorker) /\ UNCHANGED <<toServer, socketOpen>>
                  => WireOK'
           /\ toServer # <<>> => Head(toServer) \in Message
           /\ toWorker # <<>> => Head(toWorker) \in Downward /\ Head(toWorker) \in Message
<1>1. toServer # <<>> => Head(toServer) \in Message /\ Tail(toServer) \in Seq(Message)
  BY HeadTailProperties DEF WireOK
<1>2. toWorker # <<>> => Head(toWorker) \in Downward /\ Tail(toWorker) \in Seq(Downward)
  BY HeadTailProperties DEF WireOK
<1> QED BY <1>1, <1>2 DEF WireOK, Downward

-----------------------------------------------------------------------------
(* The worker's side.                                                      *)
LEMMA ServerSideStutters ==
    ASSUME TransportOK, UNCHANGED <<bounds, serverVars>>
    PROVE  bounds' \in Instances /\ collected' \in BOOLEAN /\ ServerOK' /\ GameOK' /\ CallOK'
<1> USE DEF TransportOK, serverVars
<1>1. ServerOK'
  BY DEF ServerOK
<1>2. GameOK'
  BY DEF GameOK, Games
<1>3. CallOK'
  BY DEF CallOK
<1> QED BY <1>1, <1>2, <1>3

LEMMA ClientSideStutters ==
    ASSUME TransportOK, UNCHANGED <<bounds, clientVars>>
    PROVE  ClientOK' /\ PublisherOK'
BY DEF TransportOK, clientVars, ClientOK, PublisherOK

LEMMA ClientRecords ==
    ASSUME ClientOK
    PROVE  /\ client.command \in Message /\ client.running \in SUBSET Engines /\ client.n \in Nat
           /\ \A pc \in {"idle", "dead"} :
                  /\ Closed(pc) \in [pc : {"idle", "preparing", "ready", "working", "failed", "dead"},
                                     n : Nat, command : Message, running : SUBSET Engines]
                  /\ Closed(pc).pc = pc
           /\ client.command.engine \in Engines =>
                  \A pc \in {"ready", "failed"} :
                     /\ Handled(pc) \in [pc : {"idle", "preparing", "ready", "working", "failed", "dead"},
                                         n : Nat, command : Message, running : SUBSET Engines]
                     /\ Handled(pc).n = client.n /\ Handled(pc).pc = pc
BY DEF ClientOK, Closed, Handled

LEMMA WorkerSteps ==
    ASSUME TransportOK, UNCHANGED bounds, Works \/ EmitInfo \/ PublishInfo \/ SocketCloses \/ CacheStep
    PROVE  TransportOK'
<1> USE DEF TransportOK
<1>0. ASSUME UNCHANGED <<bounds, serverVars>>, ClientOK', PublisherOK', WireOK' PROVE TransportOK'
  BY <1>0, ServerSideStutters
<1>1. CASE ReceiveAssignment
  <2>1. Head(toWorker) \in Message /\ Head(toWorker).n \in Nat \ {0}
    BY <1>1, Received, Messages DEF ReceiveAssignment
  <2>2. WireOK'
    BY <1>1, Received DEF ReceiveAssignment
  <2>3. ClientOK'
    BY <1>1, <2>1 DEF ReceiveAssignment, ClientOK
  <2> QED BY <1>0, <1>1, <2>2, <2>3 DEF ReceiveAssignment, PublisherOK
<1>2. CASE ReportReady
  <2>1. WireOK'
    BY <1>2, Sends, Messages DEF ReportReady, ClientOK
  <2>2. ClientOK'
    BY <1>2 DEF ReportReady, ClientOK
  <2> QED BY <1>0, <1>2, <2>1, <2>2 DEF ReportReady, PublisherOK
<1>3. CASE ReportNotPrepared
  <2>1. WireOK'
    BY <1>3, Sends, Messages DEF ReportNotPrepared, ClientOK
  <2>2. ClientOK'
    BY <1>3, ClientRecords DEF ReportNotPrepared, ClientOK
  <2> QED BY <1>0, <1>3, <2>1, <2>2 DEF ReportNotPrepared, PublisherOK
<1>4. CASE ReceiveCommand
  <2>1. toWorker # <<>> /\ Head(toWorker).type = "engine_command"
    BY <1>4 DEF ReceiveCommand, Reads
  <2>2. Head(toWorker) \in Message /\ Head(toWorker).engine \in Engines
    BY <2>1, Received DEF Downward
  <2>3. WireOK'
    BY <1>4, <2>1, Received DEF ReceiveCommand
  <2>4. ClientOK'
    BY <1>4, <2>2 DEF ReceiveCommand, ClientOK
  <2>5. PublisherOK'
    BY <1>4, BoundsTypes DEF ReceiveCommand, PublisherOK
  <2> QED BY <1>0, <1>4, <2>3, <2>4, <2>5 DEF ReceiveCommand
<1>5. Finished \in [latest : Nat, sent : 0 .. bounds.infos] /\ Finished.latest = 0
  BY DEF Finished, PublisherOK
<1>6. CASE AnswerCommand
  <2>1. PICK elapsed \in Nat : SendToServer(Reply("engine_command_result", client.command, elapsed))
    BY <1>6, BoundsTypes DEF AnswerCommand
  <2>2. WireOK'
    BY <1>6, <2>1, Sends, Messages, ClientRecords DEF AnswerCommand
  <2>3. ClientOK'
    BY <1>6, ClientRecords DEF AnswerCommand, ClientOK
  <2>4. PublisherOK'
    BY <1>5, <1>6 DEF AnswerCommand, PublisherOK
  <2> QED BY <1>0, <1>6, <2>2, <2>3, <2>4 DEF AnswerCommand
<1>7. CASE EngineFails
  <2>1. Handled("failed").command = client.command
    BY DEF Handled, ClientOK
  <2>2. WireOK'
    BY <1>7, Sends, Messages, ClientRecords DEF EngineFails
  <2>3. ClientOK'
    BY <1>7, <2>1, ClientRecords DEF EngineFails, ClientOK
  <2>4. PublisherOK'
    BY <1>5, <1>7 DEF EngineFails, PublisherOK
  <2> QED BY <1>0, <1>7, <2>2, <2>3, <2>4 DEF EngineFails
<1>8. CASE RepeatFailure
  <2>1. toWorker # <<>>
    BY <1>8 DEF RepeatFailure, Reads
  <2>2. [Head(toWorker) EXCEPT !.type = "assignment_failed",
                               !.engine = client.command.engine] \in Message
    BY <2>1, Received, Messages, ClientRecords
  <2>3. Tail(toWorker) \in Seq(Downward)
    BY <2>1, HeadTailProperties DEF WireOK
  <2>4. WireOK'
    BY <1>8, <2>2, <2>3, AppendProperties DEF RepeatFailure, SendToServer, WireOK
  <2>5. UNCHANGED <<bounds, serverVars, clientVars>>
    BY <1>8 DEF RepeatFailure
  <2> QED BY <1>0, <2>4, <2>5, ClientSideStutters
<1>9. CASE ReceiveComplete
  <2>1. WireOK'
    BY <1>9, Received DEF ReceiveComplete, Reads
  <2>2. ClientOK'
    BY <1>9, ClientRecords DEF ReceiveComplete, ClientOK
  <2> QED BY <1>0, <1>9, <2>1, <2>2 DEF ReceiveComplete, PublisherOK
<1>10. CASE ClientStops
  <2>1. ClientOK'
    BY <1>10, ClientRecords DEF ClientStops, ClientOK
  <2>2. PublisherOK'
    BY <1>5, <1>10 DEF ClientStops, PublisherOK
  <2>3. WireOK'
    BY <1>10 DEF ClientStops, WireOK
  <2> QED BY <1>0, <1>10, <2>1, <2>2, <2>3 DEF ClientStops
<1>11. CASE EmitInfo
  <2>1. client.command.id \in Nat
    BY ClientRecords, Messages
  <2>2. PublisherOK'
    BY <1>11, <2>1, BoundsTypes DEF EmitInfo, PublisherOK
  <2> QED BY <1>0, <1>11, <2>2 DEF EmitInfo, ClientOK, WireOK, wireVars
<1>12. CASE PublishInfo
  <2>1. PublisherOK'
    BY <1>12, BoundsTypes DEF PublishInfo, PublisherOK
  <2>2. WireOK'
    BY <1>12, Sends, Messages, ClientRecords DEF PublishInfo
  <2> QED BY <1>0, <1>12, <2>1, <2>2 DEF PublishInfo, ClientOK
<1>13. CASE SocketCloses \/ CacheStep
  <2>1. WireOK'
    BY <1>13 DEF SocketCloses, CacheStep, WireOK, wireVars
  <2> QED BY <1>0, <1>13, <2>1, ClientSideStutters DEF SocketCloses, CacheStep
<1> QED BY <1>1, <1>2, <1>3, <1>4, <1>6, <1>7, <1>8, <1>9, <1>10, <1>11, <1>12, <1>13 DEF Works

-----------------------------------------------------------------------------
(* The runner's side: the records of games.                                *)
GamePcs == {"off", "toMove", "waiting", "ending", "over", "raised"}
Terminations == {"none", "timeout", "by the rules", "engine error"}

LEMMA FreshGames ==
    ASSUME bounds \in Instances
    PROVE  /\ NoGame \in Games /\ NoGame.pc = "off" /\ NoGame.termination = "none"
           /\ \A tc \in bounds.timeControls, side \in Engines :
                  /\ NewGame(tc, side) \in Games /\ NewGame(tc, side).pc = "toMove"
                  /\ NewGame(tc, side).termination = "none"
                  /\ NewGame(tc, side).timeControl = tc
                  /\ \A e \in Engines :
                         /\ NewGame(tc, side).clock[e].remaining = tc.initialTime
                         /\ NewGame(tc, side).searches[e] = 0
                         /\ NewGame(tc, side).spent[e] = 0
<1> DEFINE first == CHOOSE tc \in bounds.timeControls : TRUE
<1>1. first \in bounds.timeControls /\ bounds.timeControls \subseteq TimeControl
      /\ bounds.plies \in Nat
  BY BoundsTypes
<1>2. [e \in Engines |-> [remaining |-> 0, movesToGo |-> 0]] \in [Engines -> Clock]
  BY DEF Clock
<1>3. NoGame \in Games
  <2> HIDE DEF first
  <2>1. NoGame = [pc |-> "off", side |-> "white", plies |-> 0, started |-> {},
                  timeControl |-> first,
                  clock |-> [e \in Engines |-> [remaining |-> 0, movesToGo |-> 0]],
                  searches |-> [e \in Engines |-> 0], spent |-> [e \in Engines |-> 0],
                  termination |-> "none"]
    BY DEF NoGame, first
  <2>2. "white" \in Engines /\ 0 \in 0 .. bounds.plies
    BY <1>1, TransportAssumption
  <2> QED BY <1>1, <1>2, <2>1, <2>2 DEF Games
<1>4. NoGame.pc = "off" /\ NoGame.termination = "none"
      /\ NoGame.searches = [e \in Engines |-> 0] /\ NoGame.spent = [e \in Engines |-> 0]
  BY DEF NoGame
<1>5. ASSUME NEW tc \in bounds.timeControls, NEW side \in Engines
      PROVE  /\ NewGame(tc, side) \in Games /\ NewGame(tc, side).pc = "toMove"
             /\ NewGame(tc, side).termination = "none"
             /\ NewGame(tc, side).timeControl = tc
             /\ \A e \in Engines :
                    /\ NewGame(tc, side).clock[e].remaining = tc.initialTime
                    /\ NewGame(tc, side).searches[e] = 0
                    /\ NewGame(tc, side).spent[e] = 0
  <2> DEFINE clock == [e \in Engines |-> TimeManager(tc)]
  <2>1. TimeManager(tc) \in Clock /\ TimeManager(tc).remaining = tc.initialTime
    BY <1>1 DEF TimeManager, Clock, TimeControl
  <2>2. clock \in [Engines -> Clock] /\ \A e \in Engines : clock[e].remaining = tc.initialTime
    BY <2>1
  <2> HIDE DEF clock
  <2>3. NewGame(tc, side) = [NoGame EXCEPT !.pc = "toMove", !.side = side,
                                           !.timeControl = tc, !.clock = clock]
    BY DEF NewGame, clock
  <2>4. NewGame(tc, side) \in Games
    BY <1>3, <2>2, <2>3 DEF Games
  <2>5. /\ NewGame(tc, side).pc = "toMove" /\ NewGame(tc, side).termination = NoGame.termination
        /\ NewGame(tc, side).timeControl = tc /\ NewGame(tc, side).clock = clock
        /\ NewGame(tc, side).searches = NoGame.searches /\ NewGame(tc, side).spent = NoGame.spent
    BY <1>3, <2>3 DEF Games
  <2> QED BY <1>4, <2>2, <2>4, <2>5
<1> QED BY <1>3, <1>4, <1>5

LEMMA GameRecords ==
    ASSUME NEW g \in Games
    PROVE  /\ \A pc \in GamePcs :
                  /\ [g EXCEPT !.pc = pc] \in Games /\ [g EXCEPT !.pc = pc].pc = pc
                  /\ [g EXCEPT !.pc = pc].plies = g.plies
           /\ \A started \in SUBSET Engines : \A pc \in GamePcs :
                  /\ [g EXCEPT !.pc = pc, !.started = started] \in Games
                  /\ [g EXCEPT !.pc = pc, !.started = started].pc = pc
                  /\ [g EXCEPT !.started = started] \in Games
                  /\ [g EXCEPT !.started = started].pc = g.pc
           /\ \A pc \in GamePcs, termination \in Terminations :
                  /\ [g EXCEPT !.pc = pc, !.termination = termination] \in Games
                  /\ [g EXCEPT !.pc = pc, !.termination = termination].pc = pc
<1>1. \A pc \in GamePcs :
          /\ [g EXCEPT !.pc = pc] \in Games /\ [g EXCEPT !.pc = pc].pc = pc
          /\ [g EXCEPT !.pc = pc].plies = g.plies
  BY DEF Games, GamePcs
<1>2. \A started \in SUBSET Engines : \A pc \in GamePcs :
          /\ [g EXCEPT !.pc = pc, !.started = started] \in Games
          /\ [g EXCEPT !.pc = pc, !.started = started].pc = pc
  BY DEF Games, GamePcs
<1>3. \A started \in SUBSET Engines :
          /\ [g EXCEPT !.started = started] \in Games
          /\ [g EXCEPT !.started = started].pc = g.pc
  BY DEF Games
<1>4. \A pc \in GamePcs, termination \in Terminations :
          /\ [g EXCEPT !.pc = pc, !.termination = termination] \in Games
          /\ [g EXCEPT !.pc = pc, !.termination = termination].pc = pc
  BY DEF Games, GamePcs, Terminations
<1> QED BY <1>1, <1>2, <1>3, <1>4

(* What stop_clock leaves of a clock.                                      *)
LEMMA StoppedClock ==
    ASSUME NEW tc \in TimeControl, NEW clock \in Clock, NEW elapsed \in Nat
    PROVE  /\ StopClock(tc, clock, elapsed) \in Clock
           /\ Banks(tc) => StopClock(tc, clock, elapsed).remaining
                               = clock.remaining - elapsed + tc.increment
BY DEF StopClock, Clock, TimeControl

(* The game after a search, as AfterSearch has it.                         *)
Charged(g, e, elapsed) ==
    [g EXCEPT !.searches[e] = @ + 1,
              !.spent[e] = IF Banks(g.timeControl) THEN @ + elapsed ELSE elapsed]
Stopped(g, e, elapsed) ==
    [Charged(g, e, elapsed) EXCEPT !.clock[e] = StopClock(g.timeControl, @, elapsed)]

-----------------------------------------------------------------------------
(* The clock.  As long as nobody has lost on time, a bank holds what the   *)
(* time control gave for the searches so far less what was spent.          *)
Earned(tc, searches) == tc.initialTime + tc.increment * searches
Late(tc, searches, spent) ==
    /\ tc.category # "MOVENODES" /\ searches > 0
    /\ spent >= IF Banks(tc) THEN Earned(tc, searches - 1)
               ELSE tc.moveTime
LateIn(g, e) == Late(g.timeControl, g.searches[e], g.spent[e])
Balanced(g, e) ==
    Banks(g.timeControl) /\ ~LateIn(g, e) =>
        g.clock[e].remaining = Earned(g.timeControl, g.searches[e]) - g.spent[e]
ClockOK(g) ==
    g.pc \in {"toMove", "waiting", "ending", "over"} =>
        /\ g.pc \in {"toMove", "waiting"} => g.termination = "none"
        /\ \A e \in Engines : /\ LateIn(g, e) <=> (g.termination = "timeout" /\ e = g.side)
                              /\ Balanced(g, e)

LEMMA Arithmetic ==
    ASSUME NEW n \in Nat, NEW k \in Nat
    PROVE  /\ k * ((n + 1) - 1) = k * n /\ k * (n + 1) = k * n + k
           /\ k * n \in Nat /\ k * 0 = 0
OBVIOUS

LEMMA FreshClock ==
    ASSUME bounds \in Instances, NEW tc \in bounds.timeControls, NEW side \in Engines
    PROVE  ClockOK(NewGame(tc, side))
<1>1. tc.initialTime \in Nat /\ tc.increment \in Nat
  BY BoundsTypes DEF TimeControl
<1>2. tc.increment * 0 = 0
  BY <1>1, Arithmetic
<1>3. \A e \in Engines : /\ ~LateIn(NewGame(tc, side), e)
                         /\ Balanced(NewGame(tc, side), e)
  BY <1>1, <1>2, FreshGames DEF LateIn, Late, Balanced, Earned
<1> QED BY <1>3, FreshGames DEF ClockOK

(* A step that leaves clock, searches and time spent, and ends no game on  *)
(* time.                                                                   *)
LEMMA ClockUntouched ==
    ASSUME NEW g, NEW h, ClockOK(g), g.pc \in {"toMove", "waiting", "ending", "over"},
           h.timeControl = g.timeControl, h.clock = g.clock, h.searches = g.searches,
           h.spent = g.spent, h.side = g.side,
           h.termination = g.termination
               \/ (g.termination = "none" /\ h.termination # "timeout"),
           h.pc \in {"toMove", "waiting"} => h.termination = "none"
    PROVE  ClockOK(h)
BY DEF ClockOK, LateIn, Balanced

(* What may become of the game after a search.                             *)
Searched(h) == h \in Games /\ h.pc \in {"toMove", "ending"} /\ ClockOK(h)

LEMMA SearchOutcomes ==
    ASSUME TransportOK, game.pc = "waiting", ClockOK(game), NEW elapsed \in Nat,
           NEW e, e = game.side, NEW tc, tc = game.timeControl,
           NEW spent, spent = IF Banks(tc) THEN game.spent[e] + elapsed ELSE elapsed
    PROVE  /\ Searched(Ends("engine error"))
           /\ TimedOut(tc, game.clock[e], elapsed) =>
                  Searched([Charged(game, e, elapsed) EXCEPT !.pc = "ending",
                                                             !.termination = "timeout"])
           /\ ~TimedOut(tc, game.clock[e], elapsed) =>
                  /\ Searched([Stopped(game, e, elapsed) EXCEPT !.pc = "ending",
                                                                !.termination = "by the rules"])
                  /\ Searched([Stopped(game, e, elapsed) EXCEPT
                                   !.pc = "toMove", !.side = Other(e), !.plies = @ + 1])
<1>0. bounds \in Instances /\ game \in Games /\ game.plies < bounds.plies
  BY DEF TransportOK, GameOK
<1> DEFINE charged == Charged(game, e, elapsed)
           stopped == Stopped(game, e, elapsed)
<1>1. e \in Engines /\ elapsed \in Nat /\ game \in Games
  BY <1>0 DEF Games
<1>2. /\ tc \in TimeControl /\ game.clock \in [Engines -> Clock]
      /\ game.searches \in [Engines -> Nat] /\ game.spent \in [Engines -> Nat]
      /\ game.plies \in 0 .. bounds.plies /\ game.plies < bounds.plies
      /\ bounds.plies \in Nat /\ Other(e) \in Engines /\ game.termination = "none"
  <2>1. tc \in TimeControl
    BY <1>0, BoundsTypes DEF Games
  <2>2. Other(e) \in Engines
    BY <1>1, TransportAssumption DEF Other
  <2>3. game.termination = "none"
    BY DEF ClockOK
  <2> HIDE DEF charged, stopped
  <2> QED BY <1>0, <2>1, <2>2, <2>3, BoundsTypes DEF Games
<1>3. /\ charged \in Games
      /\ charged.timeControl = tc /\ charged.side = e /\ charged.termination = "none"
      /\ charged.clock = game.clock /\ charged.plies = game.plies
      /\ charged.searches = [game.searches EXCEPT ![e] = @ + 1]
      /\ charged.spent = [game.spent EXCEPT ![e] = spent]
  <2> DEFINE s == [game.searches EXCEPT ![e] = @ + 1]
             t == [game.spent EXCEPT ![e] = spent]
  <2>1. charged = [game EXCEPT !.searches = s, !.spent = t]
    BY <1>0 DEF Charged, Games
  <2>2. spent \in Nat /\ game.searches[e] + 1 \in Nat
    BY <1>1, <1>2
  <2>3. s \in [Engines -> Nat] /\ t \in [Engines -> Nat]
    BY <1>2, <2>2
  <2> HIDE DEF s, t, charged
  <2>4. charged \in Games
    BY <1>0, <2>1, <2>3 DEF Games
  <2>5. /\ charged.timeControl = tc /\ charged.side = e /\ charged.termination = "none"
        /\ charged.clock = game.clock /\ charged.plies = game.plies
        /\ charged.searches = s /\ charged.spent = t
    BY <1>0, <1>2, <2>1 DEF Games
  <2> QED BY <2>4, <2>5 DEF s, t
<1>4. /\ stopped \in Games
      /\ stopped.timeControl = tc /\ stopped.side = e /\ stopped.termination = "none"
      /\ stopped.clock = [game.clock EXCEPT ![e] = StopClock(tc, @, elapsed)]
      /\ stopped.searches = charged.searches /\ stopped.spent = charged.spent
      /\ stopped.plies = game.plies
  <2> DEFINE c == [game.clock EXCEPT ![e] = StopClock(tc, @, elapsed)]
  <2>1. c \in [Engines -> Clock]
    BY <1>1, <1>2, StoppedClock
  <2>2. stopped = [charged EXCEPT !.clock = c]
    BY <1>3 DEF Stopped, Games
  <2> HIDE DEF c, charged, stopped
  <2>3. stopped \in Games
    BY <1>3, <2>1, <2>2 DEF Games
  <2>4. /\ stopped.timeControl = tc /\ stopped.side = e /\ stopped.termination = "none"
        /\ stopped.clock = c
        /\ stopped.searches = charged.searches /\ stopped.spent = charged.spent
        /\ stopped.plies = game.plies
    BY <1>3, <2>2 DEF Games
  <2> QED BY <2>3, <2>4 DEF c
<1> HIDE DEF charged, stopped
(* Nobody was late before; the side to move is late now if it timed out.   *)
<1>7. \A f \in Engines : ~LateIn(game, f) /\ Balanced(game, f)
  <2>1. game.termination # "timeout"
    BY <1>2
  <2> QED BY <2>1 DEF ClockOK
<1>8. /\ Late(tc, game.searches[e] + 1, spent) <=> TimedOut(tc, game.clock[e], elapsed)
      /\ Banks(tc) => StopClock(tc, game.clock[e], elapsed).remaining
                          = Earned(tc, game.searches[e] + 1) - spent
  <2>1. game.clock[e] \in Clock /\ game.searches[e] \in Nat /\ game.spent[e] \in Nat
    BY <1>1, <1>2
  <2>2. spent \in Nat
    BY <1>1, <2>1
  <2>3. ~Late(tc, game.searches[e], game.spent[e])
    BY <1>1, <1>7 DEF LateIn
  <2>4. Banks(tc) => game.clock[e].remaining
                        = Earned(tc, game.searches[e]) - game.spent[e]
    BY <1>1, <1>7 DEF Balanced
  <2>5. PICK clock, searches, used :
            clock = game.clock[e] /\ searches = game.searches[e] /\ used = game.spent[e]
    OBVIOUS
  <2>6. /\ Late(tc, searches + 1, spent) <=> TimedOut(tc, clock, elapsed)
        /\ Banks(tc) => StopClock(tc, clock, elapsed).remaining
                            = Earned(tc, searches + 1) - spent
    <3>1. /\ tc \in TimeControl /\ clock \in Clock /\ searches \in Nat /\ used \in Nat
          /\ elapsed \in Nat /\ spent \in Nat
      BY <1>1, <1>2, <2>1, <2>2, <2>5
    <3>2. /\ ~Late(tc, searches, used)
          /\ Banks(tc) => clock.remaining = Earned(tc, searches) - used
          /\ spent = IF Banks(tc) THEN used + elapsed ELSE elapsed
      BY <2>3, <2>4, <2>5
    <3>3. /\ tc.initialTime \in Nat /\ tc.increment \in Nat /\ tc.moveTime \in Nat
          /\ clock.remaining \in Int
      BY <3>1 DEF TimeControl, Clock
    <3> DEFINE earned == Earned(tc, searches)
    <3>4. /\ earned \in Nat /\ Earned(tc, (searches + 1) - 1) = earned
          /\ Earned(tc, searches + 1) = earned + tc.increment
      <4>1. /\ tc.increment * ((searches + 1) - 1) = tc.increment * searches
            /\ tc.increment * (searches + 1) = tc.increment * searches + tc.increment
            /\ tc.increment * searches \in Nat
        BY <3>1, <3>3, Arithmetic
      <4>2. PICK gained : gained = tc.increment * searches
        OBVIOUS
      <4>3. earned = tc.initialTime + gained /\ gained \in Nat
        BY <4>1, <4>2 DEF Earned
      <4>4. Earned(tc, (searches + 1) - 1) = earned
        BY <4>1, <4>2, <4>3 DEF Earned
      <4>5. Earned(tc, searches + 1) = tc.initialTime + (gained + tc.increment)
        BY <4>1, <4>2 DEF Earned
      <4> QED BY <3>3, <4>3, <4>4, <4>5
    <3>5. Banks(tc) => clock.remaining = earned - used
      BY <3>2
    <3> HIDE DEF earned
    <3>6. CASE tc.category = "MOVENODES"
      BY <3>6 DEF Late, TimedOut, Banks
    <3>7. CASE tc.category # "MOVENODES" /\ Banks(tc)
      <4>1. Late(tc, searches + 1, spent) <=> used + elapsed >= earned
        BY <3>1, <3>2, <3>4, <3>7 DEF Late
      <4>2. TimedOut(tc, clock, elapsed) <=> earned - used - elapsed <= 0
        BY <3>1, <3>3, <3>4, <3>5, <3>7 DEF TimedOut, RemainingAfter
      <4>3. StopClock(tc, clock, elapsed).remaining
                = earned - used - elapsed + tc.increment
        <5>1. StopClock(tc, clock, elapsed).remaining = clock.remaining - elapsed + tc.increment
          BY <3>1, <3>7, StoppedClock
        <5> QED BY <3>1, <3>3, <3>4, <3>5, <3>7, <5>1
      <4>4. spent = used + elapsed
        BY <3>2, <3>7
      <4> QED BY <3>1, <3>3, <3>4, <3>7, <4>1, <4>2, <4>3, <4>4
    <3>8. CASE tc.category # "MOVENODES" /\ ~Banks(tc)
      BY <3>1, <3>2, <3>3, <3>8 DEF Late, TimedOut, RemainingAfter
    <3> QED BY <3>6, <3>7, <3>8
  <2> QED BY <2>5, <2>6
<1>9. /\ charged.searches[e] = game.searches[e] + 1 /\ charged.spent[e] = spent
      /\ \A f \in Engines : f # e => /\ charged.searches[f] = game.searches[f]
                                     /\ charged.spent[f] = game.spent[f]
  BY <1>1, <1>2, <1>3
<1>10. /\ LateIn(charged, e) <=> TimedOut(tc, game.clock[e], elapsed)
       /\ LateIn(stopped, e) <=> TimedOut(tc, game.clock[e], elapsed)
       /\ \A f \in Engines : f # e => ~LateIn(charged, f) /\ ~LateIn(stopped, f)
  BY <1>3, <1>4, <1>7, <1>8, <1>9 DEF LateIn
<1>11. \A f \in Engines : Balanced(stopped, f) /\ (f # e => Balanced(charged, f))
  <2>1. \A f \in Engines : f # e => Balanced(stopped, f) /\ Balanced(charged, f)
    BY <1>2, <1>3, <1>4, <1>7, <1>9 DEF Balanced, LateIn
  <2>2. stopped.clock[e] = StopClock(tc, game.clock[e], elapsed)
    BY <1>1, <1>2, <1>4
  <2>3. Balanced(stopped, e)
    BY <1>4, <1>8, <1>9, <2>2 DEF Balanced
  <2> QED BY <2>1, <2>3
<1>12. ASSUME NEW h, h = Ends("engine error") PROVE Searched(h)
  <2>1. h \in Games /\ h.pc = "ending"
    BY <1>1, <1>12, GameRecords DEF Ends, GamePcs, Terminations
  <2>2. /\ h.timeControl = game.timeControl /\ h.clock = game.clock /\ h.side = game.side
        /\ h.searches = game.searches /\ h.spent = game.spent /\ h.termination = "engine error"
    BY <1>1, <1>12 DEF Ends, Games
  <2> QED BY <1>2, <2>1, <2>2, ClockUntouched DEF Searched
<1>13. ASSUME NEW h, TimedOut(tc, game.clock[e], elapsed),
              h = [charged EXCEPT !.pc = "ending", !.termination = "timeout"]
       PROVE  Searched(h)
  <2>1. h \in Games /\ h.pc = "ending"
    BY <1>3, <1>13 DEF Games
  <2>2. /\ h.timeControl = tc /\ h.clock = charged.clock /\ h.side = e
        /\ h.searches = charged.searches /\ h.spent = charged.spent /\ h.termination = "timeout"
    BY <1>3, <1>4, <1>13 DEF Games
  <2>3. \A f \in Engines : /\ LateIn(h, f) <=> LateIn(charged, f)
                           /\ Balanced(h, f) <=> Balanced(charged, f)
    BY <1>3, <2>2 DEF LateIn, Balanced
  <2>4. \A f \in Engines : LateIn(h, f) <=> f = e
    BY <1>10, <1>13, <2>3
  <2>5. \A f \in Engines : Balanced(h, f)
    BY <1>11, <2>3, <2>4 DEF Balanced
  <2> QED BY <2>1, <2>2, <2>4, <2>5 DEF ClockOK, Searched
<1>14. ASSUME NEW h, ~TimedOut(tc, game.clock[e], elapsed),
              h = [stopped EXCEPT !.pc = "ending", !.termination = "by the rules"]
       PROVE  Searched(h)
  <2>1. h \in Games /\ h.pc = "ending"
    BY <1>4, <1>14 DEF Games
  <2>2. /\ h.timeControl = stopped.timeControl /\ h.clock = stopped.clock
        /\ h.searches = stopped.searches /\ h.spent = stopped.spent
        /\ h.termination = "by the rules"
    BY <1>4, <1>14 DEF Games
  <2>3. \A f \in Engines : ~LateIn(h, f) /\ Balanced(h, f)
    BY <1>10, <1>11, <1>14, <2>2 DEF LateIn, Balanced
  <2> QED BY <2>1, <2>2, <2>3 DEF ClockOK, Searched
<1>15. ASSUME NEW h, ~TimedOut(tc, game.clock[e], elapsed),
              h = [stopped EXCEPT !.pc = "toMove", !.side = Other(e), !.plies = @ + 1]
       PROVE  Searched(h)
  <2>1. stopped.plies + 1 \in 0 .. bounds.plies
    BY <1>2, <1>4
  <2>2. h \in Games /\ h.pc = "toMove"
    BY <1>2, <1>4, <1>15, <2>1 DEF Games
  <2>3. /\ h.timeControl = stopped.timeControl /\ h.clock = stopped.clock
        /\ h.searches = stopped.searches /\ h.spent = stopped.spent /\ h.termination = "none"
    BY <1>4, <1>15 DEF Games
  <2>4. \A f \in Engines : ~LateIn(h, f) /\ Balanced(h, f)
    BY <1>10, <1>11, <1>15, <2>3 DEF LateIn, Balanced
  <2> QED BY <2>2, <2>3, <2>4 DEF ClockOK, Searched
<1> QED BY <1>12, <1>13, <1>14, <1>15 DEF charged, stopped

LEMMA AfterSearchGames ==
    ASSUME TransportOK, game.pc = "waiting", ClockOK(game), NEW m \in Message
    PROVE  \A h \in AfterSearch(m) : Searched(h)
<1>1. m.elapsed \in Nat
  BY Messages
<1>2. PICK e, tc, elapsed, spent :
          /\ e = game.side /\ tc = game.timeControl /\ elapsed = m.elapsed
          /\ spent = IF Banks(tc) THEN game.spent[e] + elapsed ELSE elapsed
  OBVIOUS
<1>3. AfterSearch(m) = {Ends("engine error")} \cup
          (IF TimedOut(tc, game.clock[e], elapsed)
           THEN {[Charged(game, e, elapsed) EXCEPT !.pc = "ending", !.termination = "timeout"]}
           ELSE {[Stopped(game, e, elapsed) EXCEPT !.pc = "ending",
                                                   !.termination = "by the rules"],
                 [Stopped(game, e, elapsed) EXCEPT
                     !.pc = "toMove", !.side = Other(e), !.plies = @ + 1]})
  BY <1>2 DEF AfterSearch, ChargedTime, Charged, Stopped
<1>4. elapsed \in Nat
  BY <1>1, <1>2
<1>5. /\ Searched(Ends("engine error"))
      /\ TimedOut(tc, game.clock[e], elapsed) =>
             Searched([Charged(game, e, elapsed) EXCEPT !.pc = "ending",
                                                        !.termination = "timeout"])
      /\ ~TimedOut(tc, game.clock[e], elapsed) =>
             /\ Searched([Stopped(game, e, elapsed) EXCEPT !.pc = "ending",
                                                           !.termination = "by the rules"])
             /\ Searched([Stopped(game, e, elapsed) EXCEPT
                              !.pc = "toMove", !.side = Other(e), !.plies = @ + 1])
  BY <1>2, <1>4, SearchOutcomes
<1> QED BY <1>3, <1>5

-----------------------------------------------------------------------------
(* The runner's side: its steps.                                           *)
LEMMA GameSteps ==
    ASSUME game \in Games, ClockOK(game), game.pc \in {"toMove", "waiting", "ending", "over"}
    PROVE  /\ \A pc \in GamePcs :
                  (pc \in {"toMove", "waiting"} => game.pc \in {"toMove", "waiting"})
                      => ClockOK([game EXCEPT !.pc = pc])
           /\ \A pc \in GamePcs, started \in SUBSET Engines :
                  (pc \in {"toMove", "waiting"} => game.pc \in {"toMove", "waiting"})
                      => ClockOK([game EXCEPT !.pc = pc, !.started = started])
           /\ \A started \in SUBSET Engines : ClockOK([game EXCEPT !.started = started])
<1>1. ASSUME NEW pc \in GamePcs, pc \in {"toMove", "waiting"} => game.pc \in {"toMove", "waiting"},
             NEW h, h = [game EXCEPT !.pc = pc]
      PROVE  ClockOK(h)
  <2>1. /\ h.timeControl = game.timeControl /\ h.clock = game.clock /\ h.side = game.side
        /\ h.searches = game.searches /\ h.spent = game.spent
        /\ h.termination = game.termination /\ h.pc = pc
    BY <1>1 DEF Games
  <2>2. h.pc \in {"toMove", "waiting"} => h.termination = "none"
    BY <1>1, <2>1 DEF ClockOK
  <2> QED BY <2>1, <2>2, ClockUntouched
<1>2. ASSUME NEW pc \in GamePcs, pc \in {"toMove", "waiting"} => game.pc \in {"toMove", "waiting"},
             NEW started \in SUBSET Engines,
             NEW h, h = [game EXCEPT !.pc = pc, !.started = started]
      PROVE  ClockOK(h)
  <2>1. /\ h.timeControl = game.timeControl /\ h.clock = game.clock /\ h.side = game.side
        /\ h.searches = game.searches /\ h.spent = game.spent
        /\ h.termination = game.termination /\ h.pc = pc
    BY <1>2 DEF Games
  <2>2. h.pc \in {"toMove", "waiting"} => h.termination = "none"
    BY <1>2, <2>1 DEF ClockOK
  <2> QED BY <2>1, <2>2, ClockUntouched
<1>3. ASSUME NEW started \in SUBSET Engines, NEW h, h = [game EXCEPT !.started = started]
      PROVE  ClockOK(h)
  <2>1. /\ h.timeControl = game.timeControl /\ h.clock = game.clock /\ h.side = game.side
        /\ h.searches = game.searches /\ h.spent = game.spent
        /\ h.termination = game.termination /\ h.pc = game.pc
    BY <1>3 DEF Games
  <2>2. h.pc \in {"toMove", "waiting"} => h.termination = "none"
    BY <2>1 DEF ClockOK
  <2> QED BY <2>1, <2>2, ClockUntouched
<1> QED BY <1>1, <1>2, <1>3

(* What a step of the runner must leave true.                              *)
RunnerOK == ServerOK /\ GameOK /\ CallOK /\ WireOK /\ ClockOK(game)

LEMMA ServerSteps ==
    ASSUME TransportOK, ClockOK(game), UNCHANGED bounds, Serves
    PROVE  RunnerOK'
<1> USE DEF TransportOK
<1>1. bounds \in Instances /\ Games' = Games /\ server.n \in Nat
  BY DEF Games, ServerOK
<1>2. ASSUME game' = game, game.pc = "off"
      PROVE  game' \in Games' /\ ClockOK(game)' /\ GameOK'
  BY <1>1, <1>2 DEF GameOK, ClockOK
<1>3. ASSUME call' = call, call.state = "none" PROVE CallOK'
  BY <1>3 DEF CallOK
<1>4. game.pc = "off" => call.state = "none"
  BY DEF CallOK
<1>5. server.pc # "playing" => game.pc = "off"
  BY DEF GameOK
<1>6. CASE Dispatch
  <2>1. server.n + 1 \in Nat \ {0}
    BY <1>1
  <2>2. WireOK'
    BY <1>6, <2>1, Sends, Messages DEF Dispatch
  <2>3. ServerOK'
    BY <1>6, <2>1 DEF Dispatch, ServerOK
  <2> QED BY <1>2, <1>3, <1>4, <1>5, <1>6, <2>2, <2>3 DEF Dispatch, RunnerOK
<1>7. CASE ReceiveReady
  <2>1. PICK tc \in bounds.timeControls, side \in Engines : game' = NewGame(tc, side)
    BY <1>7 DEF ReceiveReady
  <2>2. game' \in Games /\ game'.pc = "toMove" /\ ClockOK(game')
    BY <1>1, <2>1, FreshGames, FreshClock
  <2>3. ServerOK' /\ server'.pc = "playing"
    BY <1>7 DEF ReceiveReady, ServerOK
  <2>4. GameOK'
    BY <1>1, <2>2, <2>3 DEF GameOK
  <2>5. WireOK'
    BY <1>7, Received DEF ReceiveReady, Reads
  <2>6. CallOK'
    BY <1>3, <1>4, <1>5, <1>7 DEF ReceiveReady
  <2> QED BY <2>2, <2>3, <2>4, <2>5, <2>6 DEF RunnerOK
<1>8. CASE ReceivePreparationFailed \/ BackoffOver \/ EndSession
  <2>1. WireOK'
    BY <1>8, Received
       DEF ReceivePreparationFailed, BackoffOver, EndSession, Reads, wireVars, WireOK
  <2>2. ServerOK'
    BY <1>8 DEF ReceivePreparationFailed, BackoffOver, EndSession, ServerOK
  <2> QED BY <1>2, <1>3, <1>4, <1>5, <1>8, <2>1, <2>2
          DEF ReceivePreparationFailed, BackoffOver, EndSession, RunnerOK
<1>9. CASE ReceiveUnexpected
  <2>1. Plain("assignment_complete", server.n) \in Downward
    BY <1>9, Messages DEF ReceiveUnexpected, ServerOK
  <2>2. toWorker' \in Seq(Downward) /\ toServer' \in Seq(Message)
    BY <1>9, <2>1, AppendProperties, HeadTailProperties DEF ReceiveUnexpected, WireOK
  <2>3. WireOK' /\ ServerOK'
    BY <1>9, <2>2 DEF ReceiveUnexpected, WireOK, ServerOK
  <2> QED BY <1>2, <1>3, <1>4, <1>5, <1>9, <2>3 DEF ReceiveUnexpected, RunnerOK
<1>10. CASE CompleteAssignment
  <2>1. /\ server.pc = "playing" /\ game' = NoGame /\ call' = NoCall
        /\ \/ /\ SendToWorker(Plain("assignment_complete", server.n))
              /\ server' = [server EXCEPT !.pc = "idle"]
           \/ /\ server' = [server EXCEPT !.pc = "over"]
              /\ UNCHANGED wireVars
    BY <1>10 DEF CompleteAssignment, Completes, PendingCall
  <2>2. Plain("assignment_complete", server.n) \in Downward
    BY <2>1, Messages DEF ServerOK
  <2>3. WireOK'
    BY <2>1, <2>2, Sends DEF WireOK, wireVars
  <2>4. ServerOK'
    BY <2>1 DEF ServerOK
  <2>5. CallOK'
    BY <2>1 DEF CallOK, NoCall
  <2>6. GameOK' /\ ClockOK(game)'
    BY <1>1, <2>1, FreshGames DEF GameOK, ClockOK
  <2> QED BY <2>3, <2>4, <2>5, <2>6 DEF RunnerOK
<1> QED BY <1>6, <1>7, <1>8, <1>9, <1>10 DEF Serves

LEMMA ThreadSteps ==
    ASSUME TransportOK, ClockOK(game), UNCHANGED bounds, Plays \/ Collect
    PROVE  RunnerOK'
<1> USE DEF TransportOK
<1>1. /\ bounds \in Instances /\ bounds.plies \in Nat /\ Games' = Games /\ game \in Games
      /\ game.plies \in 0 .. bounds.plies /\ call.id + 1 \in Nat
      /\ "white" \in Engines /\ "black" \in Engines
  <2>1. bounds \in Instances /\ Games' = Games /\ game \in Games
    BY DEF Games, GameOK
  <2>2. game.plies \in 0 .. bounds.plies
    BY <2>1 DEF Games
  <2>3. call.id + 1 \in Nat
    BY DEF CallOK
  <2> QED BY <2>1, <2>2, <2>3, BoundsTypes, TransportAssumption
<1>2. game.pc = "toMove" \/ game.pc = "ending" => call.state = "none" /\ server.pc = "playing"
  BY DEF CallOK, GameOK
<1>3. CASE RunNextMove
  <2>1. game.pc = "toMove" /\ game.plies < bounds.plies /\ game' = [game EXCEPT !.pc = "waiting"]
    BY <1>3 DEF RunNextMove, MorePlies
  <2>2. game' \in Games /\ game'.pc = "waiting" /\ game'.plies = game.plies
    BY <1>1, <2>1, GameRecords DEF GamePcs
  <2>3. ClockOK(game')
    BY <1>1, <2>1, GameSteps DEF GamePcs
  <2>4. PICK e \in Engines, what \in {"setup", "go"} : Execute(e, what)
    BY <1>1, <1>3 DEF RunNextMove, Games
  <2>5. CallOK'
    BY <1>1, <2>2, <2>4 DEF Execute, CallOK
  <2>6. ServerOK' /\ WireOK'
    BY <1>3 DEF RunNextMove, ServerOK, WireOK, wireVars
  <2>7. GameOK'
    BY <1>1, <1>2, <1>3, <2>1, <2>2 DEF RunNextMove, GameOK
  <2> QED BY <2>3, <2>5, <2>6, <2>7 DEF RunnerOK
<1>4. CASE AssignmentLost \/ FinishGame
  <2>1. PICK pc \in {"raised", "over"} :
            game' = [game EXCEPT !.pc = pc] /\ game.pc \in {"toMove", "ending"}
    BY <1>4 DEF AssignmentLost, FinishGame
  <2>2. game' \in Games /\ game'.pc = pc
    BY <1>1, <2>1 DEF Games
  <2>3. ClockOK(game')
    BY <1>1, <2>1, GameSteps DEF GamePcs
  <2>4. CallOK' /\ ServerOK' /\ WireOK'
    BY <1>2, <1>4, <2>1 DEF AssignmentLost, FinishGame, CallOK, ServerOK, WireOK, wireVars
  <2>5. GameOK'
    BY <1>1, <1>2, <1>4, <2>1, <2>2 DEF AssignmentLost, FinishGame, GameOK
  <2> QED BY <2>3, <2>4, <2>5 DEF RunnerOK
<1>5. CASE Collect
  <2>1. PICK e \in Engines :
            /\ \/ Execute(e, "quit")
               \/ call' = [state |-> "blocking", engine |-> e, what |-> "quit", id |-> call.id]
            /\ game' = [game EXCEPT !.started = @ \ {e}]
    BY <1>1, <1>5 DEF Collect, Games
  <2>2. game.started \ {e} \in SUBSET Engines /\ game.pc = "over"
    BY <1>1, <1>5 DEF Collect, Games
  <2>3. game' \in Games /\ game'.pc = "over"
    BY <1>1, <2>1, <2>2 DEF Games
  <2>4. ClockOK(game')
    BY <1>1, <2>1, <2>2, GameSteps
  <2>5. CallOK'
    BY <1>1, <2>1, <2>3 DEF Execute, CallOK
  <2>6. ServerOK' /\ WireOK'
    BY <1>5 DEF Collect, ServerOK, WireOK, wireVars
  <2>7. GameOK'
    BY <1>1, <1>5, <2>2, <2>3 DEF Collect, GameOK
  <2> QED BY <2>4, <2>5, <2>6, <2>7 DEF RunnerOK
<1> QED BY <1>3, <1>4, <1>5 DEF Plays

(* The thread goes on with an answer or with an error.                     *)
LEMMA AnswerSteps ==
    ASSUME TransportOK, ClockOK(game), UNCHANGED <<bounds, server>>, call.state # "none",
           Raises \/ \E m \in Message : Returns(m)
    PROVE  GameOK' /\ CallOK' /\ ClockOK(game)'
<1> USE DEF TransportOK
<1>1. /\ bounds \in Instances /\ Games' = Games /\ game \in Games
      /\ call.engine \in Engines
      /\ call.what = "quit" \/ (call.what \in {"setup", "go"} /\ game.pc = "waiting")
  BY DEF Games, GameOK, CallOK
<1>2. CallOK'
  <2>1. call' = NoCall
    BY DEF Raises, Returns
  <2> QED BY <2>1 DEF NoCall, CallOK
<1>3. ASSUME game' \in Games, game'.pc # "waiting", game.pc = "waiting" PROVE GameOK'
  BY <1>1, <1>3 DEF GameOK
<1>4. CASE call.what = "quit"
  <2>1. game' = game
    BY <1>4 DEF Raises, Returns
  <2> QED BY <1>1, <1>2, <2>1 DEF GameOK
<1>5. CASE Raises /\ call.what = "setup"
  <2>1. game' = [game EXCEPT !.pc = "raised"] /\ game.pc = "waiting"
    BY <1>1, <1>5 DEF Raises
  <2>2. game' \in Games /\ game'.pc = "raised"
    BY <1>1, <2>1 DEF Games
  <2>3. ClockOK(game')
    BY <2>2 DEF ClockOK
  <2> QED BY <1>2, <1>3, <2>1, <2>2, <2>3
<1>6. CASE Raises /\ call.what = "go"
  <2>1. game' = Ends("engine error") /\ game.pc = "waiting"
    BY <1>1, <1>6 DEF Raises
  <2>2. Searched(game')
    <3>1. PICK e, tc, spent : /\ e = game.side /\ tc = game.timeControl
                              /\ spent = IF Banks(tc) THEN game.spent[e] + 0 ELSE 0
      OBVIOUS
    <3>2. 0 \in Nat
      OBVIOUS
    <3>3. Searched(Ends("engine error"))
      BY <2>1, <3>1, <3>2, SearchOutcomes
    <3> QED BY <2>1, <3>3
  <2> QED BY <1>2, <1>3, <2>1, <2>2 DEF Searched
<1>7. ASSUME NEW m \in Message, Returns(m), call.what = "setup" PROVE GameOK' /\ ClockOK(game)'
  <2>1. /\ game.pc = "waiting" /\ game.started \cup {call.engine} \in SUBSET Engines
        /\ game' = [game EXCEPT !.pc = "toMove", !.started = @ \cup {call.engine}]
    BY <1>1, <1>7 DEF Returns, Games
  <2>2. game' \in Games /\ game'.pc = "toMove"
    BY <1>1, <2>1 DEF Games
  <2>3. ClockOK(game')
    BY <1>1, <2>1, GameSteps DEF GamePcs
  <2> QED BY <1>3, <2>1, <2>2, <2>3
<1>8. ASSUME NEW m \in Message, Returns(m), call.what = "go" PROVE GameOK' /\ ClockOK(game)'
  <2>1. game.pc = "waiting" /\ game' \in AfterSearch(m)
    BY <1>1, <1>8 DEF Returns
  <2>2. Searched(game')
    BY <2>1, AfterSearchGames
  <2> QED BY <1>3, <2>1, <2>2 DEF Searched
<1> QED BY <1>1, <1>2, <1>4, <1>5, <1>6, <1>7, <1>8

LEMMA TransportSteps ==
    ASSUME TransportOK, ClockOK(game), UNCHANGED bounds, Transports
    PROVE  RunnerOK'
<1> USE DEF TransportOK
<1>1. CASE SendCommand
  <2>1. /\ call.state # "none" /\ call.engine \in Engines
        /\ call.what \in {"setup", "go", "quit"} /\ call.id \in Nat
        /\ server.n \in Nat \ {0}
    BY <1>1 DEF SendCommand, CallOK, GameOK, ServerOK
  <2>2. WireOK'
    BY <1>1, <2>1, Sends, Messages DEF SendCommand
  <2>3. CallOK'
    BY <1>1, <2>1 DEF SendCommand, CallOK
  <2>4. ServerOK' /\ GameOK' /\ ClockOK(game)'
    BY <1>1 DEF SendCommand, ServerOK, GameOK, Games
  <2> QED BY <2>2, <2>3, <2>4 DEF RunnerOK
<1>2. CASE ReceiveInfo
  <2>1. WireOK'
    BY <1>2, Received DEF ReceiveInfo
  <2>2. CallOK' /\ ServerOK' /\ GameOK' /\ ClockOK(game)'
    BY <1>2 DEF ReceiveInfo, serverVars, CallOK, ServerOK, GameOK, Games
  <2> QED BY <2>1, <2>2 DEF RunnerOK
<1>3. CASE ReceiveResult
  <2>1. /\ WireOK' /\ Head(toServer) \in Message /\ Returns(Head(toServer))
        /\ call.state # "none" /\ UNCHANGED server
    BY <1>3, Received DEF ReceiveResult
  <2>2. GameOK' /\ CallOK' /\ ClockOK(game)'
    BY <2>1, AnswerSteps
  <2> QED BY <2>1, <2>2 DEF RunnerOK, ServerOK
<1>4. CASE ReceiveFailure \/ CommandCutOff
  <2>1. Raises /\ call.state # "none" /\ UNCHANGED server
    BY <1>4 DEF ReceiveFailure, CommandCutOff
  <2>2. WireOK'
    BY <1>4, Received DEF ReceiveFailure, CommandCutOff, WireOK, wireVars
  <2>3. GameOK' /\ CallOK' /\ ClockOK(game)'
    BY <2>1, AnswerSteps
  <2> QED BY <2>1, <2>2, <2>3 DEF RunnerOK, ServerOK
<1> QED BY <1>1, <1>2, <1>3, <1>4 DEF Transports

-----------------------------------------------------------------------------
(* The inductive invariant: the types, who may wait for what, and the      *)
(* balance of the clocks.                                                  *)
TransportInv == TransportOK /\ ClockOK(game)

LEMMA Initially == Init => TransportInv
<1> SUFFICES ASSUME Init PROVE TransportInv
  OBVIOUS
<1>1. bounds \in Instances /\ game = NoGame /\ game \in Games /\ game.pc = "off"
  BY FreshGames DEF Init
<1>2. bounds.infos \in Nat
  BY <1>1, BoundsTypes
<1>3. Plain("engine_command", 1) \in Message
  BY DEF Plain, Message
<1>4. ServerOK /\ GameOK /\ CallOK
  BY <1>1 DEF Init, ServerOK, GameOK, CallOK
<1>5. ClientOK /\ PublisherOK
  BY <1>2, <1>3 DEF Init, ClientOK, PublisherOK
<1>6. WireOK
  BY EmptySeq DEF Init, WireOK
<1>7. ClockOK(game)
  BY <1>1 DEF ClockOK
<1> QED BY <1>1, <1>4, <1>5, <1>6, <1>7 DEF Init, TransportInv, TransportOK

LEMMA Inductive == TransportInv /\ [Next]_vars => TransportInv'
<1> SUFFICES ASSUME TransportInv, [Next]_vars PROVE TransportInv'
  OBVIOUS
<1>0. TransportOK /\ ClockOK(game)
  BY DEF TransportInv
<1>1. CASE UNCHANGED vars
  <2>1. UNCHANGED <<bounds, serverVars>> /\ UNCHANGED <<bounds, clientVars>> /\ WireOK'
    BY <1>0, <1>1 DEF vars, serverVars, clientVars, TransportOK, WireOK
  <2> QED BY <1>0, <2>1, ServerSideStutters, ClientSideStutters
          DEF TransportInv, TransportOK, serverVars
<1>2. CASE (Works \/ EmitInfo \/ PublishInfo \/ SocketCloses \/ CacheStep) /\ UNCHANGED bounds
  <2>1. TransportOK'
    BY <1>0, <1>2, WorkerSteps
  <2>2. game' = game
    BY <1>2 DEF Works, ReceiveAssignment, ReportReady, ReportNotPrepared, ReceiveCommand,
       AnswerCommand, EngineFails, RepeatFailure, ReceiveComplete, ClientStops, EmitInfo,
       PublishInfo, SocketCloses, CacheStep, serverVars
  <2> QED BY <1>0, <2>1, <2>2 DEF TransportInv
<1>3. CASE (Serves \/ Plays \/ Collect \/ Transports) /\ UNCHANGED bounds
  <2>1. RunnerOK'
    BY <1>0, <1>3, ServerSteps, ThreadSteps, TransportSteps
  <2>2. UNCHANGED clientVars /\ collected' \in BOOLEAN
    BY <1>0, <1>3 DEF Serves, Dispatch, ReceiveReady, ReceivePreparationFailed, BackoffOver,
       ReceiveUnexpected, EndSession, CompleteAssignment, Plays, RunNextMove, AssignmentLost,
       FinishGame, Collect, Transports, SendCommand, ReceiveInfo, ReceiveResult,
       ReceiveFailure, CommandCutOff, serverVars, TransportOK
  <2>3. ClientOK' /\ PublisherOK'
    BY <1>0, <1>3, <2>2, ClientSideStutters
  <2>4. bounds' \in Instances
    BY <1>0, <1>3 DEF TransportOK
  <2> QED BY <2>1, <2>2, <2>3, <2>4 DEF TransportInv, TransportOK, RunnerOK
<1> QED BY <1>1, <1>2, <1>3 DEF Next

(* Every record and every message keeps its shape, the cache's included.   *)
THEOREM TransportTypeCorrect == Spec => []TypeOK
<1>1. TransportInv /\ CacheTypeOK => TypeOK
  <2> SUFFICES ASSUME TransportInv, CacheTypeOK PROVE TypeOK
    OBVIOUS
  <2>1. Downward \subseteq Message
    BY DEF Downward
  <2>2. toWorker \in Seq(Message)
    BY <2>1 DEF TransportInv, TransportOK, WireOK
  <2> QED BY <2>2 DEF TransportInv, TransportOK, ServerOK, GameOK, Games, CallOK, ClientOK,
             PublisherOK, WireOK, TypeOK
<1> QED BY <1>1, Initially, Inductive, CacheImplemented, CacheTypeCorrect, PTL DEF Spec

(* A side loses on time exactly when it has used up what its time control  *)
(* gives it (time_control.py), whatever the network and the commands that  *)
(* failed in between cost.                                                 *)
THEOREM Timeouts == Spec => []TimeoutsAreEarned
<1>1. TransportInv => TimeoutsAreEarned
  <2> SUFFICES ASSUME TransportInv, game.pc \in {"toMove", "waiting", "ending", "over"}
      PROVE \A e \in Engines : OutOfTime(e) <=> (game.termination = "timeout" /\ e = game.side)
    BY DEF TimeoutsAreEarned
  <2>1. \A e \in Engines : OutOfTime(e) <=> LateIn(game, e)
    BY DEF OutOfTime, Budget, LateIn, Late, Earned
  <2> QED BY <2>1 DEF TransportInv, ClockOK
<1> QED BY <1>1, Initially, Inductive, PTL DEF Spec

-----------------------------------------------------------------------------
(* The conversation.  A reply names its assignment and its engine, and     *)
(* that it answers the last command follows from what is on its way: no    *)
(* message is of a later assignment, and while a game is played there is   *)
(* nothing, or one command, or its info lines and at last its answer.      *)
Past ==
    /\ client.n <= server.n
    /\ \A i \in 1 .. Len(toWorker) : toWorker[i].n <= server.n
    /\ \A i \in 1 .. Len(toServer) : toServer[i].n <= server.n

(* The worker works on a command of its own assignment, and only then has  *)
(* an info line to send.                                                   *)
Attentive ==
    /\ client.pc = "working" => client.command.n = client.n
    /\ publisher.latest # 0 => client.pc = "working"

(* The messages of this phase, while the websocket is open.                *)
IsCommand(m) ==
    m.n = server.n /\ m.engine = call.engine /\ m.id = call.id /\ m.type = "engine_command"
NoCommand == call.state # "sent" /\ Len(toWorker) = 0 /\ Len(toServer) = 0 /\ client.pc # "working"
CommandWaits ==
    /\ call.state = "sent" /\ Len(toServer) = 0 /\ client.pc # "working"
    /\ Len(toWorker) = 1 /\ IsCommand(toWorker[1])
CommandWorks ==
    /\ call.state = "sent" /\ Len(toWorker) = 0 /\ client.pc = "working"
    /\ IsCommand(client.command)
    /\ \A i \in 1 .. Len(toServer) : toServer[i].type = "engine_info"
CommandAnswered ==
    /\ call.state = "sent" /\ Len(toWorker) = 0 /\ client.pc # "working"
    /\ Len(toServer) > 0 /\ toServer[Len(toServer)].type # "engine_info"
Conversation == NoCommand \/ CommandWaits \/ CommandWorks \/ CommandAnswered

(* While a game is played only info lines come before the last message,    *)
(* and everything that arrives is about the command that is executed.      *)
InfosFirst ==
    \A i \in 1 .. Len(toServer) : i < Len(toServer) => toServer[i].type = "engine_info"
Answering ==
    call.state = "sent" => \A i \in 1 .. Len(toServer) :
        /\ toServer[i].n = server.n /\ toServer[i].id = call.id
        /\ toServer[i].type \in {"engine_info", "engine_command_result"} =>
               toServer[i].engine = call.engine
Serving ==
    socketOpen => /\ client.n = server.n /\ client.pc \in {"ready", "working", "failed"}
                  /\ Conversation
InPlay == server.pc = "playing" => InfosFirst /\ Answering /\ Serving

(* While the runner waits for the engines, what is on its way is left from *)
(* assignments before, the order to prepare them, or the worker's report.  *)
LeftOver == \A i \in 1 .. Len(toServer) : toServer[i].n < server.n
Ordered ==
    /\ Len(toWorker) > 0 /\ toWorker[Len(toWorker)].type = "assignment"
    /\ toWorker[Len(toWorker)].n = server.n
    /\ \A i \in 1 .. Len(toWorker) : i < Len(toWorker) => toWorker[i].n < server.n
    /\ client.n < server.n /\ LeftOver
Preparing == client.pc = "preparing" /\ client.n = server.n /\ Len(toWorker) = 0 /\ LeftOver
Reported ==
    /\ client.n = server.n /\ Len(toWorker) = 0
    /\ Len(toServer) > 0 /\ toServer[Len(toServer)].n = server.n
    /\ \/ client.pc = "ready" /\ toServer[Len(toServer)].type = "assignment_ready"
       \/ client.pc = "idle" /\ toServer[Len(toServer)].type = "assignment_failed"
LastIsTheReport ==
    \A i \in 1 .. Len(toServer) :
        /\ i < Len(toServer) => toServer[i].n < server.n
        /\ toServer[i].n = server.n => toServer[i].type \in {"assignment_ready", "assignment_failed"}
InPreparation ==
    server.pc = "preparing" =>
        LastIsTheReport /\ (socketOpen => Ordered \/ Preparing \/ Reported)

ConversationOK == Past /\ Attentive /\ InPlay /\ InPreparation

(* Queues, told by their lengths.                                          *)
LEMMA Queues ==
    ASSUME WireOK
    PROVE  /\ Len(toServer) \in Nat /\ Len(toWorker) \in Nat
           /\ toServer = <<>> <=> Len(toServer) = 0
           /\ toWorker = <<>> <=> Len(toWorker) = 0
           /\ \A i \in 1 .. Len(toServer) : toServer[i] \in Message /\ toServer[i].n \in Nat
           /\ \A i \in 1 .. Len(toWorker) : toWorker[i] \in Message /\ toWorker[i].n \in Nat
           /\ toServer # <<>> => Head(toServer) = toServer[1] /\ 1 \in 1 .. Len(toServer)
           /\ toWorker # <<>> => Head(toWorker) = toWorker[1] /\ 1 \in 1 .. Len(toWorker)
<1>1. toServer \in Seq(Message) /\ toWorker \in Seq(Message)
  <2>1. Downward \subseteq Message
    BY DEF Downward
  <2> QED BY <2>1 DEF WireOK
<1>2. ASSUME NEW s \in Seq(Message)
      PROVE  /\ Len(s) \in Nat /\ (s = <<>> <=> Len(s) = 0)
             /\ \A i \in 1 .. Len(s) : s[i] \in Message
             /\ s # <<>> => Head(s) = s[1] /\ 1 \in 1 .. Len(s)
  <2>1. Len(s) \in Nat /\ (s = <<>> <=> Len(s) = 0)
    BY EmptySeq
  <2>2. \A i \in 1 .. Len(s) : s[i] \in Message
    OBVIOUS
  <2> QED BY <2>1, <2>2
<1> QED BY <1>1, <1>2, Messages

LEMMA QueueSteps ==
    ASSUME NEW s \in Seq(Message), NEW t
    PROVE  /\ \A m \in Message : t = Append(s, m) =>
                  /\ Len(t) = Len(s) + 1 /\ t[Len(t)] = m
                  /\ \A i \in 1 .. Len(t) : i # Len(t) => i \in 1 .. Len(s) /\ t[i] = s[i]
           /\ s # <<>> /\ t = Tail(s) =>
                  /\ Len(t) = Len(s) - 1
                  /\ \A i \in 1 .. Len(t) : i + 1 \in 1 .. Len(s) /\ t[i] = s[i + 1]
<1>1. Len(s) \in Nat
  OBVIOUS
<1>2. ASSUME NEW m \in Message, t = Append(s, m)
      PROVE  /\ Len(t) = Len(s) + 1 /\ t[Len(t)] = m
             /\ \A i \in 1 .. Len(t) : i # Len(t) => i \in 1 .. Len(s) /\ t[i] = s[i]
  BY <1>1, <1>2, AppendProperties
<1>3. ASSUME s # <<>>, t = Tail(s)
      PROVE  /\ Len(t) = Len(s) - 1
             /\ \A i \in 1 .. Len(t) : i + 1 \in 1 .. Len(s) /\ t[i] = s[i + 1]
  BY <1>1, <1>3, HeadTailProperties
<1> QED BY <1>2, <1>3

LEMMA WireSteps ==
    ASSUME WireOK
    PROVE  /\ \A m \in Message : toServer' = Append(toServer, m) =>
                  /\ Len(toServer') = Len(toServer) + 1 /\ toServer'[Len(toServer')] = m
                  /\ \A i \in 1 .. Len(toServer') : i # Len(toServer') =>
                         i \in 1 .. Len(toServer) /\ toServer'[i] = toServer[i]
           /\ \A m \in Message : toWorker' = Append(toWorker, m) =>
                  /\ Len(toWorker') = Len(toWorker) + 1 /\ toWorker'[Len(toWorker')] = m
                  /\ \A i \in 1 .. Len(toWorker') : i # Len(toWorker') =>
                         i \in 1 .. Len(toWorker) /\ toWorker'[i] = toWorker[i]
           /\ toServer # <<>> /\ toServer' = Tail(toServer) =>
                  /\ Len(toServer') = Len(toServer) - 1
                  /\ \A i \in 1 .. Len(toServer') :
                         i + 1 \in 1 .. Len(toServer) /\ toServer'[i] = toServer[i + 1]
           /\ toWorker # <<>> /\ toWorker' = Tail(toWorker) =>
                  /\ Len(toWorker') = Len(toWorker) - 1
                  /\ \A i \in 1 .. Len(toWorker') :
                         i + 1 \in 1 .. Len(toWorker) /\ toWorker'[i] = toWorker[i + 1]
<1>1. toServer \in Seq(Message) /\ toWorker \in Seq(Message)
  <2>1. Downward \subseteq Message
    BY DEF Downward
  <2> QED BY <2>1 DEF WireOK
<1> QED BY <1>1, QueueSteps

(* What the types say of the numbers and of the phases.                    *)
LEMMA Phases ==
    ASSUME TransportOK
    PROVE  /\ WireOK /\ server.n \in Nat /\ client.n \in Nat
           /\ client.command \in Message /\ client.command.n \in Nat
           /\ call.state # "none" => server.pc = "playing" /\ game.pc \in {"waiting", "over"}
           /\ game.pc # "off" => server.pc = "playing"
BY ClientRecords, Messages DEF TransportOK, ServerOK, GameOK, CallOK

LEMMA PlainFields ==
    \A type, n : /\ Plain(type, n).type = type /\ Plain(type, n).n = n
                 /\ Plain(type, n).what = "none"
BY DEF Plain

LEMMA ReplyFields ==
    \A type, elapsed : \A m \in Message :
        /\ Reply(type, m, elapsed).type = type /\ Reply(type, m, elapsed).n = m.n
        /\ Reply(type, m, elapsed).id = m.id /\ Reply(type, m, elapsed).engine = m.engine
BY DEF Reply, Message

(* The runner sends a message, or reads the one that came first.           *)
LEMMA ServesConversation ==
    ASSUME TransportOK, ConversationOK, Serves
    PROVE  ConversationOK'
<1> USE DEF ConversationOK
<1>0. WireOK /\ server.n \in Nat /\ client.n \in Nat /\ call.state \in {"none", "scheduled", "sent", "blocking"}
  BY Phases DEF TransportOK, CallOK
<1>1. CASE Dispatch
  <2>1. /\ server' = [pc |-> "preparing", n |-> server.n + 1] /\ server.pc = "idle"
        /\ toWorker' = Append(toWorker, Plain("assignment", server.n + 1))
        /\ UNCHANGED <<toServer, socketOpen, client, publisher, call>> /\ socketOpen
    BY <1>1 DEF Dispatch, SendToWorker, clientVars
  <2>2. server'.pc = "preparing" /\ server'.n = server.n + 1
    BY <2>1 DEF TransportOK, ServerOK
  <2>3. Plain("assignment", server.n + 1) \in Message
    <3>1. server.n + 1 \in Nat \ {0}
      BY <1>0
    <3> QED BY <3>1, Messages DEF Downward
  <2> DEFINE m == Plain("assignment", server.n + 1)
  <2>4. m.type = "assignment" /\ m.n = server.n + 1
    BY PlainFields
  <2>5. /\ Len(toWorker') = Len(toWorker) + 1 /\ toWorker'[Len(toWorker')] = m
        /\ \A i \in 1 .. Len(toWorker') : i # Len(toWorker') =>
               i \in 1 .. Len(toWorker) /\ toWorker'[i] = toWorker[i]
    BY <1>0, <2>1, <2>3, WireSteps
  <2> HIDE DEF m
  <2>6. Past'
    BY <1>0, <2>1, <2>2, <2>4, <2>5, Queues DEF Past
  <2>7. Attentive'
    BY <2>1 DEF Attentive
  <2>8. Ordered' /\ LastIsTheReport'
    BY <1>0, <2>1, <2>2, <2>4, <2>5, Queues DEF Past, Ordered, LeftOver, LastIsTheReport
  <2> QED BY <2>2, <2>6, <2>7, <2>8 DEF InPlay, InPreparation
<1>2. ASSUME toServer # <<>>, toServer' = Tail(toServer)
      PROVE  /\ Len(toServer') = Len(toServer) - 1
             /\ \A i \in 1 .. Len(toServer') :
                    i + 1 \in 1 .. Len(toServer) /\ toServer'[i] = toServer[i + 1]
  BY <1>0, <1>2, WireSteps
<1>3. CASE ReceiveReady
  <2>1. /\ server' = [server EXCEPT !.pc = "playing"] /\ server.pc = "preparing"
        /\ toServer # <<>> /\ Head(toServer).type = "assignment_ready" /\ Head(toServer).n = server.n
        /\ toServer' = Tail(toServer)
        /\ UNCHANGED <<toWorker, socketOpen, client, publisher, call>>
    BY <1>3 DEF ReceiveReady, Reads, clientVars
  <2>2. server'.pc = "playing" /\ server'.n = server.n
    BY <2>1 DEF TransportOK, ServerOK
  <2>3. Len(toServer) \in Nat /\ 1 \in 1 .. Len(toServer) /\ Head(toServer) = toServer[1]
    BY <1>0, <2>1, Queues
  <2>4. Len(toServer) = 1 /\ ~LeftOver
    <3>1. toServer[1].n = server.n /\ ~(toServer[1].n < server.n)
      BY <1>0, <2>1, <2>3
    <3>2. ~(1 < Len(toServer))
      BY <2>1, <2>3, <3>1 DEF InPreparation, LastIsTheReport
    <3>3. \A l \in Nat : 1 \in 1 .. l /\ ~(1 < l) => l = 1
      OBVIOUS
    <3>4. ~LeftOver
      BY <2>3, <3>1 DEF LeftOver
    <3> QED BY <2>3, <3>2, <3>3, <3>4
  <2>5. Len(toServer') = 0
    BY <1>2, <2>1, <2>4
  <2>6. Past'
    BY <2>1, <2>2, <2>5 DEF Past
  <2>7. Attentive'
    BY <2>1 DEF Attentive
  <2>8. call.state = "none"
    BY <2>1, Phases
  <2>9. InfosFirst' /\ Answering'
    BY <2>5 DEF InfosFirst, Answering
  <2>10. ASSUME socketOpen PROVE Reported
    BY <2>1, <2>4, <2>10 DEF InPreparation, Ordered, Preparing
  <2>11. Serving'
    BY <2>1, <2>2, <2>3, <2>4, <2>5, <2>8, <2>10
       DEF Serving, Reported, Conversation, NoCommand, ConversationOK
  <2> QED BY <2>2, <2>6, <2>7, <2>9, <2>11 DEF InPlay, InPreparation
<1>4. CASE ReceivePreparationFailed \/ BackoffOver \/ EndSession
  <2>1. /\ server'.pc \notin {"preparing", "playing"} /\ server'.n = server.n
        /\ \/ UNCHANGED toServer
           \/ toServer # <<>> /\ toServer' = Tail(toServer)
        /\ UNCHANGED <<toWorker, client, publisher>>
    BY <1>4 DEF ReceivePreparationFailed, BackoffOver, EndSession, Reads, clientVars, wireVars,
       TransportOK, ServerOK
  <2>2. Past' /\ Attentive'
    BY <1>0, <1>2, <2>1, Queues DEF Past, Attentive
  <2> QED BY <2>1, <2>2 DEF InPlay, InPreparation
<1>5. CASE ReceiveUnexpected \/ CompleteAssignment
  <2> DEFINE m == Plain("assignment_complete", server.n)
  <2>1. /\ server'.pc \notin {"preparing", "playing"} /\ server'.n = server.n
        /\ server.n \in Nat \ {0}
        /\ UNCHANGED <<client, publisher>>
        /\ \/ UNCHANGED toServer
           \/ toServer # <<>> /\ toServer' = Tail(toServer)
        /\ UNCHANGED toWorker \/ toWorker' = Append(toWorker, m)
    BY <1>5 DEF ReceiveUnexpected, CompleteAssignment, Completes, SendToWorker, clientVars, wireVars,
       TransportOK, ServerOK
  <2>2. m \in Message /\ m.n = server.n
    BY <2>1, Messages, PlainFields DEF Downward
  <2>3. toWorker' = Append(toWorker, m) =>
            /\ Len(toWorker') = Len(toWorker) + 1 /\ toWorker'[Len(toWorker')] = m
            /\ \A i \in 1 .. Len(toWorker') : i # Len(toWorker') =>
                   i \in 1 .. Len(toWorker) /\ toWorker'[i] = toWorker[i]
    BY <1>0, <2>2, WireSteps
  <2> HIDE DEF m
  <2>4. \A i \in 1 .. Len(toWorker') : toWorker'[i].n <= server.n
    BY <1>0, <2>1, <2>2, <2>3, Queues DEF Past
  <2>5. \A i \in 1 .. Len(toServer') : toServer'[i].n <= server.n
    BY <1>0, <1>2, <2>1, Queues DEF Past
  <2>6. Past' /\ Attentive'
    BY <2>1, <2>4, <2>5 DEF Past, Attentive
  <2> QED BY <2>1, <2>6 DEF InPlay, InPreparation
<1> QED BY <1>1, <1>3, <1>4, <1>5 DEF Serves

(* The thread gives commands only when none is on its way.                 *)
LEMMA ThreadConversation ==
    ASSUME TransportOK, ConversationOK, Plays \/ Collect
    PROVE  ConversationOK'
<1> USE DEF ConversationOK
<1>1. /\ UNCHANGED <<server, client, publisher, toWorker, toServer, socketOpen>>
      /\ UNCHANGED call \/ (call.state # "sent" /\ call'.state # "sent")
  <2>1. CASE RunNextMove
    <3>1. call.state = "none"
      BY <2>1, Phases DEF RunNextMove
    <3> QED BY <2>1, <3>1 DEF RunNextMove, Execute, clientVars, wireVars
  <2>2. CASE AssignmentLost \/ FinishGame
    BY <2>2 DEF AssignmentLost, FinishGame, clientVars, wireVars
  <2>3. CASE Collect
    BY <2>3 DEF Collect, Execute, clientVars, wireVars
  <2> QED BY <2>1, <2>2, <2>3 DEF Plays
<1>2. Past' /\ Attentive'
  BY <1>1 DEF Past, Attentive
<1>3. InPreparation'
  BY <1>1 DEF InPreparation, LastIsTheReport, Ordered, Preparing, Reported, LeftOver
<1>4. InfosFirst => InfosFirst'
  BY <1>1 DEF InfosFirst
<1>5. Answering => Answering'
  BY <1>1 DEF Answering
<1>6. Serving => Serving'
  BY <1>1 DEF Serving, Conversation, NoCommand, CommandWaits, CommandWorks, CommandAnswered, IsCommand
<1> QED BY <1>1, <1>2, <1>3, <1>4, <1>5, <1>6 DEF InPlay

(* A command goes out when nothing else is on its way, and what ends it is *)
(* the last message.                                                       *)
LEMMA TransportConversation ==
    ASSUME TransportOK, ConversationOK, Transports
    PROVE  ConversationOK'
<1> USE DEF ConversationOK
<1>0. /\ WireOK /\ server.n \in Nat /\ client.n \in Nat
      /\ call.state # "none" /\ server.pc = "playing" /\ InfosFirst /\ Answering /\ Serving
      /\ server' = server /\ client' = client /\ publisher' = publisher
  <2>1. /\ call.state # "none"
        /\ server' = server /\ client' = client /\ publisher' = publisher
    BY DEF Transports, SendCommand, ReceiveInfo, ReceiveResult, ReceiveFailure,
       CommandCutOff, clientVars, serverVars
  <2> QED BY <2>1, Phases DEF InPlay
<1>1. Attentive' /\ InPreparation'
  BY <1>0 DEF Attentive, InPreparation
<1>2. ASSUME toServer # <<>>, toServer' = Tail(toServer)
      PROVE  /\ Len(toServer) \in Nat /\ 1 \in 1 .. Len(toServer) /\ Head(toServer) = toServer[1]
             /\ Len(toServer') = Len(toServer) - 1
             /\ \A i \in 1 .. Len(toServer') :
                    i + 1 \in 1 .. Len(toServer) /\ toServer'[i] = toServer[i + 1]
  BY <1>0, <1>2, Queues, WireSteps
<1>3. CASE SendCommand
  <2> DEFINE m == [type |-> "engine_command", n |-> server.n, engine |-> call.engine,
                   id |-> call.id, what |-> call.what, elapsed |-> 0]
  <2>1. /\ call.state = "scheduled" /\ call' = [call EXCEPT !.state = "sent"]
        /\ toWorker' = Append(toWorker, m) /\ UNCHANGED <<toServer, socketOpen>> /\ socketOpen
    BY <1>3 DEF SendCommand, SendToWorker
  <2>2. m \in Message
    <3>1. /\ server.n \in Nat \ {0} /\ call.engine \in Engines /\ call.id \in Nat
          /\ call.what \in {"setup", "go", "quit"}
      BY <1>0 DEF TransportOK, ServerOK, CallOK
    <3> QED BY <3>1, Messages DEF Downward
  <2>3. call'.state = "sent" /\ call'.engine = call.engine /\ call'.id = call.id
    BY <2>1 DEF TransportOK, CallOK
  <2>4. m.type = "engine_command" /\ m.n = server.n /\ m.engine = call.engine /\ m.id = call.id
    OBVIOUS
  <2>5. Len(toWorker') = Len(toWorker) + 1 /\ toWorker'[Len(toWorker')] = m
    BY <1>0, <2>1, <2>2, WireSteps
  <2> HIDE DEF m
  <2>6. client.n = server.n /\ client.pc \in {"ready", "working", "failed"} /\ NoCommand
    BY <1>0, <2>1 DEF Serving, Conversation, CommandWaits, CommandWorks, CommandAnswered
  <2>7. Len(toWorker') = 1 /\ toWorker'[1] = m
    BY <2>5, <2>6 DEF NoCommand
  <2>8. CommandWaits'
    BY <1>0, <2>1, <2>3, <2>4, <2>6, <2>7 DEF NoCommand, CommandWaits, IsCommand
  <2>9. Past'
    BY <1>0, <2>1, <2>4, <2>7 DEF Past
  <2>10. InfosFirst' /\ Answering'
    BY <2>1, <2>6 DEF NoCommand, InfosFirst, Answering
  <2> QED BY <1>0, <1>1, <2>6, <2>8, <2>9, <2>10 DEF InPlay, Serving, Conversation
<1>4. CASE ReceiveInfo
  <2>1. /\ toServer # <<>> /\ toServer' = Tail(toServer) /\ Head(toServer).type = "engine_info"
        /\ UNCHANGED <<call, toWorker, socketOpen>> /\ call.state = "sent"
    BY <1>4 DEF ReceiveInfo, serverVars
  <2>2. Past'
    BY <1>0, <1>2, <2>1 DEF Past
  <2>3. InfosFirst'
    BY <1>0, <1>2, <2>1 DEF InfosFirst
  <2>4. Answering'
    BY <1>0, <1>2, <2>1 DEF Answering
  <2>5. CommandWorks => CommandWorks'
    BY <1>0, <1>2, <2>1 DEF CommandWorks, IsCommand
  <2>6. CommandAnswered => CommandAnswered'
    <3>1. ASSUME CommandAnswered
          PROVE  Len(toServer') > 0 /\ toServer'[Len(toServer')] = toServer[Len(toServer)]
      <4>1. Len(toServer) # 1
        BY <1>2, <2>1, <3>1 DEF CommandAnswered
      <4>2. \A k, l \in Nat : 1 \in 1 .. l /\ l # 1 /\ k = l - 1 => k > 0 /\ k \in 1 .. k /\ k + 1 = l
        OBVIOUS
      <4>3. \A l \in Nat : 1 \in 1 .. l => l - 1 \in Nat
        OBVIOUS
      <4>4. Len(toServer') > 0 /\ Len(toServer') \in 1 .. Len(toServer')
            /\ Len(toServer') + 1 = Len(toServer)
        BY <1>2, <2>1, <4>1, <4>2, <4>3
      <4>5. toServer'[Len(toServer')] = toServer[Len(toServer') + 1]
        BY <1>2, <2>1, <4>4
      <4> QED BY <4>4, <4>5
    <3> QED BY <1>0, <2>1, <3>1 DEF CommandAnswered
  <2>7. ~NoCommand /\ ~CommandWaits
    BY <1>2, <2>1 DEF NoCommand, CommandWaits
  <2>8. Serving'
    BY <1>0, <2>1, <2>5, <2>6, <2>7 DEF Serving, Conversation
  <2> QED BY <1>0, <1>1, <2>2, <2>3, <2>4, <2>8 DEF InPlay
<1>5. CASE ReceiveResult \/ ReceiveFailure
  <2>1. /\ toServer # <<>> /\ toServer' = Tail(toServer)
        /\ UNCHANGED <<toWorker, socketOpen>> /\ call.state = "sent" /\ call'.state = "none"
    BY <1>5 DEF ReceiveResult, ReceiveFailure, Returns, Raises, NoCall, TransportOK, CallOK
  <2>2. Head(toServer).type # "engine_info"
    <3>1. toServer[1].type \in {"engine_info", "engine_command_result"} => Matches(toServer[1])
      BY <1>0, <1>2, <2>1 DEF Answering, Matches
    <3> QED BY <1>2, <1>5, <2>1, <3>1 DEF ReceiveResult, ReceiveFailure
  <2>3. Len(toServer) = 1
    <3>1. ~(1 < Len(toServer))
      BY <1>0, <1>2, <2>1, <2>2 DEF InfosFirst
    <3>2. \A l \in Nat : 1 \in 1 .. l /\ ~(1 < l) => l = 1
      OBVIOUS
    <3> QED BY <1>2, <2>1, <3>1, <3>2
  <2>4. Len(toServer') = 0
    BY <1>2, <2>1, <2>3
  <2>5. Past'
    BY <1>0, <2>1, <2>4 DEF Past
  <2>6. InfosFirst' /\ Answering'
    BY <2>4 DEF InfosFirst, Answering
  <2>7. CommandWorks \/ CommandAnswered => NoCommand'
    BY <1>0, <1>2, <2>1, <2>2, <2>4 DEF CommandWorks, CommandAnswered, NoCommand
  <2>8. ~NoCommand /\ ~CommandWaits
    BY <2>1, <2>3 DEF NoCommand, CommandWaits
  <2>9. Serving'
    BY <1>0, <2>1, <2>7, <2>8 DEF Serving, Conversation
  <2> QED BY <1>0, <1>1, <2>5, <2>6, <2>9 DEF InPlay
<1>6. CASE CommandCutOff
  <2>1. UNCHANGED <<toServer, toWorker, socketOpen>> /\ ~socketOpen /\ call'.state = "none"
    BY <1>6 DEF CommandCutOff, Raises, NoCall, wireVars, TransportOK, CallOK
  <2>2. Past' /\ InfosFirst' /\ Answering' /\ Serving'
    BY <1>0, <2>1 DEF Past, InfosFirst, Answering, Serving
  <2> QED BY <1>0, <1>1, <2>2 DEF InPlay
<1> QED BY <1>3, <1>4, <1>5, <1>6 DEF Transports

(* A worker that serves an assignment reads one message, or sends one of   *)
(* that assignment, or both: what the runner waits for is not disturbed.   *)
WorkerReads == toWorker # <<>> /\ Head(toWorker).type # "assignment" /\ toWorker' = Tail(toWorker)
WorkerSays(m) ==
    m \in Message /\ m.n = client.n /\ toServer' = Append(toServer, m) /\ socketOpen
LEMMA WorkerMoves ==
    ASSUME TransportOK, ConversationOK, UNCHANGED <<server, socketOpen>>, client'.n = client.n,
           WorkerReads \/ UNCHANGED toWorker,
           UNCHANGED toServer \/ \E m : WorkerSays(m),
           client.pc \in {"working", "failed"} \/ (client.pc = "ready" /\ WorkerReads)
    PROVE  Past' /\ InPreparation'
<1> USE DEF ConversationOK
<1>0. WireOK /\ server.n \in Nat /\ client.n \in Nat
  BY Phases
<1>1. WorkerReads => /\ Len(toWorker) \in Nat /\ 1 \in 1 .. Len(toWorker)
                     /\ Head(toWorker) = toWorker[1] /\ Len(toWorker') = Len(toWorker) - 1
                     /\ \A i \in 1 .. Len(toWorker') :
                            i + 1 \in 1 .. Len(toWorker) /\ toWorker'[i] = toWorker[i + 1]
  BY <1>0, Queues, WireSteps DEF WorkerReads
<1>2. \A m : WorkerSays(m) =>
          /\ m.n = client.n /\ Len(toServer) \in Nat
          /\ Len(toServer') = Len(toServer) + 1 /\ toServer'[Len(toServer')] = m
          /\ \A i \in 1 .. Len(toServer') : i # Len(toServer') =>
                 i \in 1 .. Len(toServer) /\ toServer'[i] = toServer[i]
  BY <1>0, Queues, WireSteps DEF WorkerSays
<1>3. \A i \in 1 .. Len(toWorker') : toWorker'[i].n <= server.n
  BY <1>0, <1>1 DEF Past
<1>4. \A i \in 1 .. Len(toServer') : toServer'[i].n <= server.n
  BY <1>0, <1>2 DEF Past
<1>5. Past'
  BY <1>3, <1>4 DEF Past
<1>6. ASSUME server.pc = "preparing", socketOpen PROVE Ordered
  <2>1. ~Preparing /\ ~Reported
    BY <1>0, <1>1 DEF Preparing, Reported
  <2> QED BY <1>6, <2>1 DEF InPreparation
<1>7. ASSUME Ordered PROVE Ordered' /\ LastIsTheReport'
  <2>1. \A i \in 1 .. Len(toServer') : toServer'[i].n < server.n
    BY <1>0, <1>2, <1>7 DEF Ordered, LeftOver
  <2>2. /\ Len(toWorker') > 0 /\ toWorker'[Len(toWorker')].type = "assignment"
        /\ toWorker'[Len(toWorker')].n = server.n
        /\ \A i \in 1 .. Len(toWorker') : i < Len(toWorker') => toWorker'[i].n < server.n
    <3>1. CASE UNCHANGED toWorker
      BY <1>7, <3>1 DEF Ordered
    <3>2. CASE WorkerReads
      <4>1. Len(toWorker) # 1
        BY <1>1, <1>7, <3>2 DEF Ordered, WorkerReads
      <4>2. \A l \in Nat : 1 \in 1 .. l /\ l # 1 =>
                l - 1 > 0 /\ l - 1 \in Nat /\ l - 1 \in 1 .. (l - 1) /\ (l - 1) + 1 = l
        OBVIOUS
      <4>3. /\ Len(toWorker') > 0 /\ Len(toWorker') \in Nat
            /\ Len(toWorker') \in 1 .. Len(toWorker') /\ Len(toWorker') + 1 = Len(toWorker)
        BY <1>1, <3>2, <4>1, <4>2
      <4>4. toWorker'[Len(toWorker')] = toWorker[Len(toWorker)]
        BY <1>1, <3>2, <4>3
      <4>5. \A i \in 1 .. Len(toWorker') : i < Len(toWorker') =>
                /\ i + 1 \in 1 .. Len(toWorker) /\ i + 1 < Len(toWorker)
                /\ toWorker'[i] = toWorker[i + 1]
        BY <1>1, <3>2, <4>3
      <4> QED BY <1>7, <4>3, <4>4, <4>5 DEF Ordered
    <3> QED BY <3>1, <3>2
  <2>3. Ordered'
    BY <1>7, <2>1, <2>2 DEF Ordered, LeftOver
  <2>4. LastIsTheReport'
    BY <1>0, <2>1 DEF LastIsTheReport
  <2> QED BY <2>3, <2>4
<1>8. InPreparation'
  <2>1. ~socketOpen /\ LastIsTheReport => LastIsTheReport'
    BY DEF LastIsTheReport, WorkerSays
  <2> QED BY <1>6, <1>7, <2>1 DEF InPreparation
<1> QED BY <1>5, <1>8

(* The worker prepares: the order is read, or its outcome reported.        *)
LEMMA PreparationConversation ==
    ASSUME TransportOK, ConversationOK,
           ReceiveAssignment \/ ReportReady \/ ReportNotPrepared
    PROVE  ConversationOK'
<1> USE DEF ConversationOK
<1>0. WireOK /\ server.n \in Nat /\ client.n \in Nat /\ UNCHANGED <<server, call, socketOpen, publisher>>
  BY Phases DEF ReceiveAssignment, ReportReady, ReportNotPrepared, SendToServer, serverVars
<1>1. client.pc \in {"idle", "preparing"} /\ publisher.latest = 0
  BY DEF ReceiveAssignment, ReportReady, ReportNotPrepared, Attentive
<1>2. CASE ReceiveAssignment
  <2>1. /\ toWorker # <<>> /\ toWorker' = Tail(toWorker) /\ toServer' = toServer
        /\ client' = [client EXCEPT !.pc = "preparing", !.n = Head(toWorker).n] /\ client.pc = "idle"
    BY <1>2 DEF ReceiveAssignment
  <2>2. client'.pc = "preparing" /\ client'.n = Head(toWorker).n
    BY <2>1 DEF TransportOK, ClientOK
  <2>3. /\ Len(toWorker) \in Nat /\ 1 \in 1 .. Len(toWorker)
        /\ Head(toWorker) = toWorker[1] /\ Len(toWorker') = Len(toWorker) - 1
        /\ \A i \in 1 .. Len(toWorker') :
               i + 1 \in 1 .. Len(toWorker) /\ toWorker'[i] = toWorker[i + 1]
    BY <1>0, <2>1, Queues, WireSteps
  <2>4. Past'
    BY <1>0, <2>1, <2>2, <2>3 DEF Past
  <2>5. Attentive'
    BY <1>0, <1>1, <2>2 DEF Attentive
  <2>6. InPlay'
    BY <1>0, <1>1, <2>1 DEF InPlay, InfosFirst, Answering, Serving
  <2>7. ~Preparing /\ ~Reported
    BY <2>3 DEF Preparing, Reported
  <2>8. ASSUME Ordered PROVE Ordered' \/ Preparing'
    <3>1. CASE Len(toWorker) = 1
      BY <1>0, <2>1, <2>2, <2>3, <2>8, <3>1 DEF Ordered, Preparing, LeftOver
    <3>2. CASE Len(toWorker) # 1
      <4>1. \A l \in Nat : 1 \in 1 .. l /\ l # 1 =>
                /\ l - 1 > 0 /\ l - 1 \in Nat /\ l - 1 \in 1 .. (l - 1) /\ (l - 1) + 1 = l /\ 1 < l
        OBVIOUS
      <4>2. /\ Len(toWorker') > 0 /\ Len(toWorker') \in Nat /\ 1 < Len(toWorker)
            /\ Len(toWorker') \in 1 .. Len(toWorker') /\ Len(toWorker') + 1 = Len(toWorker)
        BY <2>3, <3>2, <4>1
      <4>3. toWorker'[Len(toWorker')] = toWorker[Len(toWorker)]
        BY <2>3, <4>2
      <4>4. \A i \in 1 .. Len(toWorker') : i < Len(toWorker') =>
                /\ i + 1 \in 1 .. Len(toWorker) /\ i + 1 < Len(toWorker)
                /\ toWorker'[i] = toWorker[i + 1]
        BY <2>3, <4>2
      <4>5. client'.n < server.n
        BY <2>2, <2>3, <2>8, <4>2 DEF Ordered
      <4> QED BY <1>0, <2>1, <2>8, <4>2, <4>3, <4>4, <4>5 DEF Ordered, LeftOver
    <3> QED BY <3>1, <3>2
  <2>9. InPreparation'
    BY <1>0, <2>1, <2>7, <2>8 DEF InPreparation, LastIsTheReport
  <2> QED BY <2>4, <2>5, <2>6, <2>9
<1>3. CASE ReportReady \/ ReportNotPrepared
  <2>1. PICK type \in {"assignment_ready", "assignment_failed"} :
            /\ toServer' = Append(toServer, Plain(type, client.n))
            /\ client'.n = client.n
            /\ \/ client'.pc = "ready" /\ type = "assignment_ready"
               \/ client'.pc = "idle" /\ type = "assignment_failed"
    BY <1>3 DEF ReportReady, ReportNotPrepared, SendToServer, Closed, TransportOK, ClientOK
  <2> DEFINE m == Plain(type, client.n)
  <2>2. toWorker' = toWorker /\ client.pc = "preparing" /\ client.n \in Nat \ {0} /\ socketOpen
    BY <1>3 DEF ReportReady, ReportNotPrepared, SendToServer, TransportOK, ClientOK
  <2>3. m \in Message /\ m.n = client.n /\ m.type = type
    BY <2>2, Messages, PlainFields
  <2>4. /\ Len(toServer') = Len(toServer) + 1 /\ toServer'[Len(toServer')] = m
        /\ \A i \in 1 .. Len(toServer') : i # Len(toServer') =>
               i \in 1 .. Len(toServer) /\ toServer'[i] = toServer[i]
        /\ Len(toServer) \in Nat
    BY <1>0, <2>1, <2>3, WireSteps, Queues
  <2> HIDE DEF m
  <2>5. Past'
    BY <1>0, <2>1, <2>2, <2>3, <2>4 DEF Past
  <2>6. Attentive'
    BY <1>0, <1>1, <2>1 DEF Attentive
  <2>7. server.pc # "playing"
    BY <2>2 DEF InPlay, Serving
  <2>8. ASSUME server.pc = "preparing" PROVE LastIsTheReport' /\ (Ordered' \/ Reported')
    <3>1. Ordered \/ Preparing
      BY <2>2, <2>8 DEF InPreparation, Reported
    <3>2. LeftOver /\ client.n <= server.n
      BY <3>1 DEF Ordered, Preparing, Past
    <3>3. \A i \in 1 .. Len(toServer') : i < Len(toServer') => toServer'[i].n < server.n
      BY <1>0, <2>4, <3>2 DEF LeftOver
    <3>4. LastIsTheReport'
      BY <1>0, <2>1, <2>3, <2>4, <3>3 DEF LastIsTheReport
    <3>5. ASSUME Ordered PROVE Ordered'
      <4>1. \A i \in 1 .. Len(toServer') : toServer'[i].n < server.n
        BY <1>0, <2>3, <2>4, <3>3, <3>5 DEF Ordered
      <4> QED BY <1>0, <2>1, <2>2, <3>5, <4>1 DEF Ordered, LeftOver
    <3>6. ASSUME Preparing PROVE Reported'
      BY <1>0, <2>1, <2>2, <2>3, <2>4, <3>6 DEF Preparing, Reported
    <3> QED BY <3>1, <3>4, <3>5, <3>6
  <2>9. InPreparation' /\ InPlay'
    BY <1>0, <2>7, <2>8 DEF InPreparation, InPlay
  <2> QED BY <2>5, <2>6, <2>9
<1> QED BY <1>2, <1>3

(* The worker serves a command.                                            *)
LEMMA CommandConversation ==
    ASSUME TransportOK, ConversationOK,
           \/ ReceiveCommand \/ EmitInfo \/ PublishInfo \/ AnswerCommand \/ EngineFails
           \/ RepeatFailure \/ ReceiveComplete
    PROVE  ConversationOK'
<1> USE DEF ConversationOK
<1>0. /\ WireOK /\ server.n \in Nat /\ client.n \in Nat /\ client.command \in Message
      /\ UNCHANGED <<server, call, socketOpen>>
  BY Phases DEF ReceiveCommand, EmitInfo, PublishInfo, AnswerCommand, EngineFails,
     RepeatFailure, ReceiveComplete, SendToServer, serverVars, wireVars
<1>1. \A m : WorkerSays(m) =>
          /\ Len(toServer) \in Nat
          /\ Len(toServer') = Len(toServer) + 1 /\ toServer'[Len(toServer')] = m
          /\ \A i \in 1 .. Len(toServer') : i # Len(toServer') =>
                 i \in 1 .. Len(toServer) /\ toServer'[i] = toServer[i]
  BY <1>0, Queues, WireSteps DEF WorkerSays
<1>2. WorkerReads => /\ Len(toWorker) \in Nat /\ 1 \in 1 .. Len(toWorker)
                     /\ Head(toWorker) = toWorker[1] /\ Len(toWorker') = Len(toWorker) - 1
  BY <1>0, Queues, WireSteps DEF WorkerReads
<1>3. CASE ReceiveCommand \/ ReceiveComplete
  <2>1. /\ WorkerReads /\ toServer' = toServer
        /\ client.pc \in {"ready", "failed"} /\ client'.n = client.n
        /\ \/ /\ Head(toWorker).type = "engine_command" /\ Head(toWorker).n = client.n
              /\ client.pc = "ready" /\ client'.pc = "working"
              /\ client'.command = Head(toWorker) /\ publisher'.latest = 0
           \/ /\ Head(toWorker).type = "assignment_complete"
              /\ client'.pc = "idle" /\ publisher' = publisher
    <3>1. CASE ReceiveCommand
      BY <3>1 DEF ReceiveCommand, Reads, WorkerReads, TransportOK, ClientOK
    <3>2. CASE ReceiveComplete
      <4>1. Closed("idle").n = client.n /\ Closed("idle").pc = "idle"
        BY DEF Closed, TransportOK, ClientOK
      <4> QED BY <3>2, <4>1 DEF ReceiveComplete, Reads, WorkerReads
    <3> QED BY <1>3, <3>1, <3>2
  <2>2. Past' /\ InPreparation'
    BY <1>0, <2>1, WorkerMoves
  <2>3. Attentive'
    BY <2>1 DEF Attentive
  <2>4. InfosFirst => InfosFirst'
    BY <2>1 DEF InfosFirst
  <2>5. Answering => Answering'
    BY <1>0, <2>1 DEF Answering
  <2>6. ASSUME Serving, socketOpen PROVE Serving'
    <3>1. CommandWaits /\ client.n = server.n
      BY <1>2, <2>1, <2>6 DEF Serving, Conversation, NoCommand, CommandWorks, CommandAnswered
    <3>2. Len(toWorker') = 0 /\ Head(toWorker) = toWorker[1]
      BY <1>2, <2>1, <3>1 DEF CommandWaits
    <3>3. CommandWorks' /\ client'.pc = "working"
      BY <1>0, <2>1, <3>1, <3>2 DEF CommandWaits, CommandWorks, IsCommand
    <3> QED BY <1>0, <2>1, <3>1, <3>3 DEF Serving, Conversation
  <2>7. Serving => Serving'
    BY <1>0, <2>6 DEF Serving
  <2> QED BY <1>0, <2>2, <2>3, <2>4, <2>5, <2>7 DEF InPlay
<1>4. CASE EmitInfo
  <2>1. UNCHANGED <<client, toWorker, toServer>> /\ client.pc = "working"
    BY <1>4 DEF EmitInfo, wireVars
  <2>2. Past' /\ Attentive'
    BY <1>0, <2>1 DEF Past, Attentive
  <2>3. InPlay'
    BY <1>0, <2>1 DEF InPlay, InfosFirst, Answering, Serving, Conversation, NoCommand, CommandWaits,
       CommandWorks, CommandAnswered, IsCommand
  <2>4. InPreparation'
    BY <1>0, <2>1 DEF InPreparation, LastIsTheReport, Ordered, Preparing, Reported, LeftOver
  <2> QED BY <2>2, <2>3, <2>4
<1>5. CASE PublishInfo \/ AnswerCommand \/ EngineFails
  <2>1. PICK m : /\ WorkerSays(m) /\ client.pc = "working" /\ m.id = client.command.id
                 /\ m.engine = client.command.engine /\ client'.n = client.n /\ toWorker' = toWorker
                 /\ \/ /\ m.type = "engine_info" /\ client'.pc = "working"
                       /\ client'.command = client.command
                    \/ /\ m.type # "engine_info" /\ client'.pc \in {"ready", "failed"}
                       /\ publisher'.latest = 0
    <3>0. \A type \in {"engine_info", "engine_command_result", "assignment_failed"}, elapsed \in Nat :
              client.pc = "working" => /\ Reply(type, client.command, elapsed) \in Message
                                       /\ Reply(type, client.command, elapsed).n = client.n
      <4>1. client.pc = "working" => client.command.n = client.n
        BY DEF Attentive
      <4>2. \A type, elapsed : Reply(type, client.command, elapsed).n = client.command.n
        BY <1>0, ReplyFields
      <4>3. \A type \in {"assignment_failed", "engine_info", "engine_command_result"}, elapsed \in Nat :
                Reply(type, client.command, elapsed) \in Message
        BY <1>0, Messages
      <4> QED BY <4>1, <4>2, <4>3
    <3>1. CASE PublishInfo
      <4>1. WorkerSays(Reply("engine_info", client.command, 0))
        BY <3>0, <3>1 DEF PublishInfo, SendToServer, WorkerSays, Attentive
      <4> QED BY <1>0, <3>1, <4>1, ReplyFields DEF PublishInfo, Attentive
    <3>2. client.command.engine \in Engines /\ Finished.latest = 0
      BY <1>5 DEF AnswerCommand, EngineFails, PublishInfo, Attentive, TransportOK, ClientOK,
         PublisherOK, Finished
    <3>3. CASE AnswerCommand
      <4>1. PICK elapsed \in Nat :
                SendToServer(Reply("engine_command_result", client.command, elapsed))
        BY <3>3, BoundsTypes DEF AnswerCommand, TransportOK
      <4>2. WorkerSays(Reply("engine_command_result", client.command, elapsed))
        BY <3>0, <3>3, <4>1 DEF AnswerCommand, SendToServer, WorkerSays
      <4> QED BY <1>0, <3>2, <3>3, <4>2, ReplyFields, ClientRecords DEF AnswerCommand, TransportOK
    <3>4. CASE EngineFails
      <4>1. WorkerSays(Reply("assignment_failed", client.command, 0))
        BY <3>0, <3>4 DEF EngineFails, SendToServer, WorkerSays, Attentive
      <4> QED BY <1>0, <3>2, <3>4, <4>1, ReplyFields, ClientRecords DEF EngineFails, TransportOK
    <3> QED BY <1>5, <3>1, <3>3, <3>4
  <2>2. Past' /\ InPreparation'
    BY <1>0, <2>1, WorkerMoves
  <2>3. Attentive'
    BY <1>0, <2>1 DEF Attentive, WorkerSays
  <2>4. ASSUME server.pc = "playing"
        PROVE  InfosFirst' /\ Answering' /\ Serving'
    <3>1. CommandWorks /\ client.n = server.n /\ m.n = server.n /\ socketOpen
      BY <2>1, <2>4 DEF InPlay, Serving, Conversation, NoCommand, CommandWaits, CommandAnswered, WorkerSays
    <3>2. InfosFirst'
      BY <1>0, <1>1, <2>1, <3>1 DEF InfosFirst, CommandWorks
    <3>3. Answering'
      BY <1>0, <1>1, <2>1, <2>4, <3>1 DEF InPlay, Answering, CommandWorks, IsCommand
    <3>4. CASE m.type = "engine_info"
      <4>1. CommandWorks'
        BY <1>0, <1>1, <2>1, <3>1, <3>4 DEF CommandWorks, IsCommand
      <4> QED BY <1>0, <2>1, <3>1, <3>2, <3>3, <3>4, <4>1 DEF Serving, Conversation
    <3>5. CASE m.type # "engine_info"
      <4>1. Len(toServer') > 0 /\ toServer'[Len(toServer')] = m
        BY <1>1, <2>1
      <4>2. CommandAnswered'
        BY <1>0, <2>1, <3>1, <3>5, <4>1 DEF CommandWorks, CommandAnswered
      <4> QED BY <1>0, <2>1, <3>1, <3>2, <3>3, <3>5, <4>2 DEF Serving, Conversation
    <3> QED BY <3>4, <3>5
  <2> QED BY <1>0, <2>2, <2>3, <2>4 DEF InPlay
<1>6. CASE RepeatFailure
  <2> DEFINE m == [Head(toWorker) EXCEPT !.type = "assignment_failed",
                                         !.engine = client.command.engine]
  <2>1. /\ toWorker # <<>> /\ Head(toWorker) \in Message /\ Head(toWorker).n = client.n
        /\ Head(toWorker).type = "engine_command"
        /\ toWorker' = Tail(toWorker) /\ UNCHANGED <<client, publisher>>
        /\ toServer' = Append(toServer, m) /\ socketOpen /\ client.pc = "failed"
    BY <1>0, <1>6, Received DEF RepeatFailure, Reads, SendToServer, clientVars
  <2>2. m \in Message /\ m.n = client.n /\ m.type = "assignment_failed" /\ m.id = Head(toWorker).id
    <3>1. client.command.engine \in Engines \cup {"any"}
      BY <1>0, Messages
    <3>2. m \in Message
      BY <2>1, <3>1, Messages
    <3> QED BY <2>1, <3>2 DEF Message
  <2> HIDE DEF m
  <2>3. WorkerSays(m) /\ WorkerReads
    BY <2>1, <2>2 DEF WorkerSays, WorkerReads
  <2>4. Past' /\ InPreparation'
    BY <1>0, <2>1, <2>3, WorkerMoves
  <2>5. Attentive'
    BY <2>1 DEF Attentive
  <2>6. ASSUME server.pc = "playing"
        PROVE  InfosFirst' /\ Answering' /\ Serving'
    <3>1. CommandWaits /\ client.n = server.n
      BY <1>2, <2>1, <2>3, <2>6 DEF InPlay, Serving, Conversation, NoCommand, CommandWorks, CommandAnswered
    <3>2. Len(toServer') = 1 /\ toServer'[1] = m
      BY <1>1, <2>3, <3>1 DEF CommandWaits
    <3>3. Len(toWorker') = 0
      BY <1>2, <2>3, <3>1 DEF CommandWaits
    <3>4. InfosFirst' /\ Answering'
      <4>1. m.id = call.id /\ m.n = server.n
        BY <1>2, <2>2, <2>3, <3>1 DEF CommandWaits, IsCommand
      <4> QED BY <1>0, <2>2, <3>2, <4>1 DEF InfosFirst, Answering
    <3>5. CommandAnswered'
      BY <1>0, <2>1, <2>2, <3>1, <3>2, <3>3 DEF CommandWaits, CommandAnswered
    <3> QED BY <1>0, <2>1, <3>1, <3>4, <3>5 DEF Serving, Conversation
  <2> QED BY <1>0, <2>4, <2>5, <2>6 DEF InPlay
<1> QED BY <1>3, <1>4, <1>5, <1>6

(* The connection is lost: what was sent may still be read.                *)
LEMMA LossConversation ==
    ASSUME TransportOK, ConversationOK, ClientStops \/ SocketCloses
    PROVE  ConversationOK'
<1> USE DEF ConversationOK
<1>1. /\ UNCHANGED <<server, call, toWorker, toServer>> /\ ~socketOpen'
      /\ client'.n = client.n
      /\ \/ client' = client /\ publisher' = publisher
         \/ client'.pc = "dead" /\ publisher'.latest = 0
  BY DEF ClientStops, SocketCloses, serverVars, clientVars, Closed, Finished, TransportOK,
     ClientOK, PublisherOK
<1>2. Past' /\ Attentive'
  BY <1>1 DEF Past, Attentive
<1>3. InPlay'
  BY <1>1 DEF InPlay, InfosFirst, Answering, Serving
<1>4. InPreparation'
  BY <1>1 DEF InPreparation, LastIsTheReport
<1> QED BY <1>2, <1>3, <1>4

LEMMA ConversationInductive ==
    TransportInv /\ ConversationOK /\ [Next]_vars => ConversationOK'
<1> SUFFICES ASSUME TransportInv, ConversationOK, [Next]_vars PROVE ConversationOK'
  OBVIOUS
<1>0. TransportOK
  BY DEF TransportInv
<1>1. CASE UNCHANGED vars \/ CacheStep
  <2>1. UNCHANGED <<server, call, client, publisher, toWorker, toServer, socketOpen>>
    BY <1>1 DEF vars, CacheStep, serverVars, clientVars, wireVars
  <2>2. Past' /\ Attentive'
    BY <2>1 DEF ConversationOK, Past, Attentive
  <2>3. InPlay'
    BY <2>1 DEF ConversationOK, InPlay, InfosFirst, Answering, Serving, Conversation, NoCommand,
       CommandWaits, CommandWorks, CommandAnswered, IsCommand
  <2>4. InPreparation'
    BY <2>1 DEF ConversationOK, InPreparation, LastIsTheReport, Ordered, Preparing, Reported, LeftOver
  <2> QED BY <2>2, <2>3, <2>4 DEF ConversationOK
<1> QED BY <1>0, <1>1, ServesConversation, ThreadConversation, TransportConversation,
        PreparationConversation, CommandConversation, LossConversation DEF Next, Works

LEMMA ConversationInitially == Init => ConversationOK
<1> SUFFICES ASSUME Init PROVE ConversationOK
  OBVIOUS
<1>1. /\ server.pc = "idle" /\ server.n = 0 /\ client.pc = "idle" /\ client.n = 0
      /\ publisher.latest = 0 /\ toWorker = <<>> /\ toServer = <<>>
  BY DEF Init
<1>2. Len(toWorker) = 0 /\ Len(toServer) = 0
  BY <1>1, EmptySeq
<1> QED BY <1>1, <1>2 DEF ConversationOK, Past, Attentive, InPlay, InPreparation

(* The lines that a thread gets back are the answer to the command it gave *)
(* (_execute_engine_command_locked, _validate_engine_reply).               *)
THEOREM Replies == Spec => []RepliesAreItsOwn
<1>1. TransportInv /\ ConversationOK => RepliesAreItsOwn
  <2> SUFFICES ASSUME TransportInv, ConversationOK, call.state = "sent", toServer # <<>>,
                      Matches(Head(toServer))
      PROVE Head(toServer).id = call.id
    BY DEF RepliesAreItsOwn
  <2>1. /\ server.pc = "playing" /\ 1 \in 1 .. Len(toServer)
        /\ Head(toServer) = toServer[1]
    BY Phases, Queues DEF TransportInv
  <2> QED BY <2>1 DEF ConversationOK, InPlay, Answering
<1> QED BY <1>1, Initially, Inductive, ConversationInitially, ConversationInductive, PTL DEF Spec

-----------------------------------------------------------------------------
(* An engine runs only for the assignment that is served, and only engines *)
(* of the game that is played count as started.                            *)
NoEngines ==
    /\ client.pc \in {"idle", "preparing", "dead"} => client.running = {}
    /\ game.pc = "off" => game.started = {}

(* As long as nothing was collected too early: nobody is told to quit, ... *)
NoQuits ==
    /\ call.state # "none" => call.what # "quit"
    /\ client.pc = "working" => client.command.what # "quit"
    /\ \A i \in 1 .. Len(toWorker) : toWorker[i].what # "quit"

(* ... the worker is sent what it waits for, ...                           *)
Concerns(m, type) == m.type = type /\ m.n = client.n
Expected ==
    /\ client.pc = "idle" =>
           Len(toWorker) = 0 \/ (Len(toWorker) = 1 /\ toWorker[1].type = "assignment")
    /\ client.pc \in {"preparing", "working"} => Len(toWorker) = 0
    /\ client.pc \in {"ready", "failed"} =>
           \/ Len(toWorker) = 0
           \/ Len(toWorker) = 1 /\ Concerns(toWorker[1], "engine_command")
           \/ /\ Len(toWorker) \in {1, 2} /\ Concerns(toWorker[1], "assignment_complete")
              /\ Len(toWorker) = 2 => toWorker[2].type = "assignment"

(* ... between two assignments at most the end of the last is on its way,  *)
AtRest ==
    server.pc \in {"idle", "backoff"} /\ socketOpen =>
        /\ Len(toServer) = 0
        /\ \/ client.pc = "idle" /\ Len(toWorker) = 0
           \/ /\ client.pc \in {"ready", "failed"} /\ server.pc = "idle"
              /\ Len(toWorker) = 1 /\ Concerns(toWorker[1], "assignment_complete")

(* ... what the runner gets is about its assignment and its command, ...   *)
Answers ==
    /\ server.pc = "preparing" => \A i \in 1 .. Len(toServer) : toServer[i].n = server.n
    /\ call.state = "sent" => \A i \in 1 .. Len(toServer) : toServer[i].engine = call.engine

(* ... a worker that has given up says so, and is given no more commands,  *)
Failure ==
    server.pc = "playing" /\ socketOpen /\ client.pc = "failed" =>
        \/ /\ call.state = "sent" /\ Len(toServer) > 0
           /\ toServer[Len(toServer)].type = "assignment_failed"
        \/ call.state = "none" /\ game.pc \in {"ending", "over", "raised"}

(* ... and one that has not runs the engines that were started.            *)
Running ==
    server.pc = "playing" /\ client.pc \in {"ready", "working"} =>
        /\ game.started \subseteq client.running
        /\ \A i \in 1 .. Len(toServer) :
               call.state = "sent" /\ toServer[i].type = "engine_command_result" =>
                   call.engine \in client.running

Orderly == NoQuits /\ Expected /\ AtRest /\ Answers /\ Failure /\ Running

(* A search leaves the engines as they are.                                *)
LEMMA AfterSearchStarted ==
    ASSUME game \in Games, NEW m, NEW h \in AfterSearch(m)
    PROVE  h.started = game.started /\ h.pc \in {"ending", "toMove"}
<1> DEFINE e == game.side
           tc == game.timeControl
           s == [game.searches EXCEPT ![e] = @ + 1]
           t == [game.spent EXCEPT ![e] = IF Banks(tc) THEN @ + m.elapsed ELSE m.elapsed]
           c == [game.clock EXCEPT ![e] = StopClock(tc, @, ChargedTime(m))]
           R(pc, side, plies, clock, searches, spent, termination) ==
               [pc |-> pc, side |-> side, plies |-> plies, started |-> game.started,
                timeControl |-> tc, clock |-> clock, searches |-> searches, spent |-> spent,
                termination |-> termination]
           searched == [game EXCEPT !.searches[e] = @ + 1,
                            !.spent[e] = IF Banks(tc) THEN @ + m.elapsed ELSE m.elapsed]
           moved == [searched EXCEPT !.clock[e] = StopClock(tc, @, ChargedTime(m))]
<1>1. searched = [game EXCEPT !.searches = s, !.spent = t]
  BY DEF Games
<1> HIDE DEF s, t
<1>2. searched = R(game.pc, game.side, game.plies, game.clock, s, t, game.termination)
  <2> HIDE DEF searched
  <2>1. game = R(game.pc, game.side, game.plies, game.clock, game.searches, game.spent, game.termination)
    BY DEF Games
  <2>2. PICK pc, side, plies, clock, searches, spent, termination, started, control :
            game = [pc |-> pc, side |-> side, plies |-> plies, started |-> started,
                    timeControl |-> control, clock |-> clock, searches |-> searches,
                    spent |-> spent, termination |-> termination]
    BY <2>1
  <2> QED BY <1>1, <2>2
<1>3. moved = [searched EXCEPT !.clock = c]
  <2> HIDE DEF searched
  <2>1. searched.clock = game.clock
    BY <1>2
  <2> QED BY <1>2, <2>1
<1> HIDE DEF searched, c
<1>4. moved = R(game.pc, game.side, game.plies, c, s, t, game.termination)
  BY <1>2, <1>3
<1> HIDE DEF moved
<1>5. \/ h = Ends("engine error")
      \/ h = [searched EXCEPT !.pc = "ending", !.termination = "timeout"]
      \/ h = [moved EXCEPT !.pc = "ending", !.termination = "by the rules"]
      \/ h = [moved EXCEPT !.pc = "toMove", !.side = Other(e), !.plies = @ + 1]
  BY DEF AfterSearch, searched, moved
<1>6. CASE h = Ends("engine error")
  BY <1>6 DEF Ends, Games
<1>7. CASE h = [searched EXCEPT !.pc = "ending", !.termination = "timeout"]
  BY <1>2, <1>7
<1>8. CASE \/ h = [moved EXCEPT !.pc = "ending", !.termination = "by the rules"]
           \/ h = [moved EXCEPT !.pc = "toMove", !.side = Other(e), !.plies = @ + 1]
  BY <1>4, <1>8
<1> QED BY <1>5, <1>6, <1>7, <1>8

(* Engines stop with their assignment.                                     *)
LEMMA EnginesStop ==
    ASSUME TransportInv, NoEngines, [Next]_vars
    PROVE  NoEngines'
<1>0. TransportOK /\ game \in Games
  BY DEF TransportInv, TransportOK, GameOK
<1>1. ASSUME UNCHANGED game PROVE game'.pc = "off" => game'.started = {}
  BY <1>1 DEF NoEngines
<1>2. ASSUME UNCHANGED client
      PROVE  client'.pc \in {"idle", "preparing", "dead"} => client'.running = {}
  BY <1>2 DEF NoEngines
<1>3. CASE UNCHANGED vars \/ CacheStep \/ EmitInfo \/ PublishInfo \/ SocketCloses
  <2>1. UNCHANGED <<game, client>>
    BY <1>3 DEF vars, CacheStep, EmitInfo, PublishInfo, SocketCloses, serverVars, clientVars
  <2> QED BY <2>1 DEF NoEngines
<1>4. CASE Works
  <2>1. UNCHANGED game
    BY <1>4 DEF Works, ReceiveAssignment, ReportReady, ReportNotPrepared, ReceiveCommand,
       AnswerCommand, EngineFails, RepeatFailure, ReceiveComplete, ClientStops, serverVars
  <2>2. \A pc \in {"idle", "dead"} : Closed(pc).running = {}
    BY <1>0 DEF Closed, TransportOK, ClientOK
  <2>3. \A pc \in {"ready", "failed"} : Handled(pc).pc = pc
    BY <1>0 DEF Handled, TransportOK, ClientOK
  <2>4. client'.pc \in {"idle", "preparing", "dead"} => client'.running = {}
    <3>1. CASE ReceiveAssignment
      BY <1>0, <3>1 DEF ReceiveAssignment, NoEngines, TransportOK, ClientOK
    <3>2. CASE ReportReady
      BY <1>0, <3>2 DEF ReportReady, TransportOK, ClientOK
    <3>3. CASE ReportNotPrepared \/ ReceiveComplete \/ ClientStops
      BY <2>2, <3>3 DEF ReportNotPrepared, ReceiveComplete, ClientStops
    <3>4. CASE AnswerCommand \/ EngineFails
      BY <2>3, <3>4 DEF AnswerCommand, EngineFails
    <3>5. CASE ReceiveCommand
      BY <1>0, <3>5 DEF ReceiveCommand, TransportOK, ClientOK
    <3>6. CASE RepeatFailure
      BY <3>6 DEF RepeatFailure, clientVars, NoEngines
    <3> QED BY <1>4, <3>1, <3>2, <3>3, <3>4, <3>5, <3>6 DEF Works
  <2> QED BY <1>1, <2>1, <2>4 DEF NoEngines
<1>5. CASE Serves \/ Plays \/ Transports \/ Collect
  <2>1. UNCHANGED client
    BY <1>5 DEF Serves, Dispatch, ReceiveReady, ReceivePreparationFailed, BackoffOver,
       ReceiveUnexpected, EndSession, CompleteAssignment, Plays, RunNextMove, AssignmentLost,
       FinishGame, Collect, Transports, SendCommand, ReceiveInfo, ReceiveResult,
       ReceiveFailure, CommandCutOff, clientVars
  <2>2. game'.pc = "off" => game'.started = {}
    <3>1. CASE Serves
      <4>1. NoGame.started = {}
        BY DEF NoGame
      <4>2. UNCHANGED game \/ game' = NoGame \/ game'.pc = "toMove"
        BY <1>0, <3>1, FreshGames DEF Serves, Dispatch, ReceiveReady, ReceivePreparationFailed,
           BackoffOver, ReceiveUnexpected, EndSession, CompleteAssignment, Completes, TransportOK
      <4> QED BY <1>1, <4>1, <4>2
    <3>2. CASE Plays \/ Collect
      <4>1. game.pc # "off" /\ (game'.pc = game.pc \/ game'.pc \in {"waiting", "raised", "over"})
        BY <1>0, <3>2 DEF Plays, RunNextMove, AssignmentLost, FinishGame, Collect, Games
      <4> QED BY <4>1
    <3>3. CASE Transports
      <4>1. UNCHANGED game \/ game'.pc \in {"toMove", "raised", "ending"}
        <5>1. ASSUME Raises, call.what \in {"setup", "go", "quit"}
              PROVE  UNCHANGED game \/ game'.pc \in {"toMove", "raised", "ending"}
          BY <1>0, <5>1 DEF Raises, Ends, Games
        <5>2. ASSUME NEW m, Returns(m), call.what \in {"setup", "go", "quit"}
              PROVE  UNCHANGED game \/ game'.pc \in {"toMove", "raised", "ending"}
          <6>1. CASE call.what = "go"
            BY <1>0, <5>2, <6>1, AfterSearchStarted DEF Returns
          <6> QED BY <1>0, <5>2, <6>1 DEF Returns, Games
        <5>3. call.state # "none" => call.what \in {"setup", "go", "quit"}
          BY <1>0 DEF TransportOK, CallOK
        <5> QED BY <3>3, <5>1, <5>2, <5>3 DEF Transports, SendCommand, ReceiveInfo, ReceiveResult,
                ReceiveFailure, CommandCutOff, serverVars
      <4> QED BY <1>1, <4>1
    <3> QED BY <1>5, <3>1, <3>2, <3>3
  <2> QED BY <1>2, <2>1, <2>2 DEF NoEngines
<1> QED BY <1>3, <1>4, <1>5 DEF Next

LEMMA OrderlyCalls ==
    ASSUME TransportOK, NoQuits
    PROVE  /\ call.state \in {"none", "scheduled", "sent"}
           /\ call.state # "none" =>
                  /\ call.what \in {"setup", "go"} /\ call.engine \in Engines
                  /\ game.pc = "waiting" /\ server.pc = "playing"
BY DEF TransportOK, CallOK, GameOK, NoQuits

(* The report of a preparation is all that there was to read.              *)
LEMMA ReportRead ==
    ASSUME TransportOK, ConversationOK, server.pc = "preparing",
           toServer # <<>>, Head(toServer).n = server.n, toServer' = Tail(toServer)
    PROVE  /\ Len(toServer') = 0 /\ Head(toServer) = toServer[Len(toServer)]
           /\ socketOpen => Reported
<1>0. WireOK /\ server.n \in Nat
  BY Phases
<1>1. /\ Len(toServer) \in Nat /\ 1 \in 1 .. Len(toServer) /\ Head(toServer) = toServer[1]
      /\ Len(toServer') = Len(toServer) - 1
  BY <1>0, Queues, WireSteps
<1>2. ~(toServer[1].n < server.n)
  BY <1>0, <1>1
<1>3. ~(1 < Len(toServer))
  BY <1>1, <1>2 DEF ConversationOK, InPreparation, LastIsTheReport
<1>4. \A l \in Nat : 1 \in 1 .. l /\ ~(1 < l) => l = 1
  OBVIOUS
<1>5. Len(toServer) = 1
  BY <1>1, <1>3, <1>4
<1>6. ~LeftOver
  BY <1>1, <1>2 DEF LeftOver
<1> QED BY <1>1, <1>5, <1>6 DEF ConversationOK, InPreparation, Ordered, Preparing

LEMMA ServesOrderly ==
    ASSUME TransportOK, ConversationOK, Orderly, Serves
    PROVE  Orderly'
<1> USE DEF Orderly
<1>0. /\ WireOK /\ server.n \in Nat /\ client.n \in Nat /\ UNCHANGED client
      /\ bounds \in Instances
  BY Phases DEF Serves, Dispatch, ReceiveReady, ReceivePreparationFailed, BackoffOver,
     ReceiveUnexpected, EndSession, CompleteAssignment, clientVars, TransportOK
<1>1. server.pc # "playing" => call.state = "none"
  BY Phases
<1>2. ASSUME UNCHANGED toWorker, UNCHANGED call PROVE NoQuits' /\ Expected'
  BY <1>0, <1>2 DEF NoQuits, Expected, Concerns
<1>3. CASE Dispatch
  <2> DEFINE m == Plain("assignment", server.n + 1)
  <2>1. /\ server' = [pc |-> "preparing", n |-> server.n + 1] /\ server.pc = "idle"
        /\ toWorker' = Append(toWorker, m) /\ socketOpen /\ UNCHANGED <<toServer, socketOpen, call>>
    BY <1>3 DEF Dispatch, SendToWorker
  <2>2. m \in Message
    <3>1. server.n + 1 \in Nat \ {0}
      BY <1>0
    <3> QED BY <3>1, Messages DEF Downward
  <2>3. m.type = "assignment" /\ m.what = "none"
    BY PlainFields
  <2>4. /\ Len(toWorker') = Len(toWorker) + 1 /\ toWorker'[Len(toWorker')] = m
        /\ \A i \in 1 .. Len(toWorker') : i # Len(toWorker') =>
               i \in 1 .. Len(toWorker) /\ toWorker'[i] = toWorker[i]
    BY <1>0, <2>1, <2>2, WireSteps
  <2> HIDE DEF m
  <2>5. NoQuits'
    BY <1>0, <2>1, <2>3, <2>4 DEF NoQuits
  <2>6. CASE client.pc = "idle" /\ Len(toWorker) = 0
    <3>1. Len(toWorker') = 1 /\ toWorker'[1] = m
      BY <2>4, <2>6
    <3> QED BY <1>0, <1>1, <2>1, <2>3, <2>5, <2>6, <3>1
            DEF Expected, AtRest, Answers, Failure, Running
  <2>7. CASE /\ client.pc \in {"ready", "failed"} /\ Len(toWorker) = 1
             /\ Concerns(toWorker[1], "assignment_complete")
    <3>1. Len(toWorker') = 2 /\ toWorker'[1] = toWorker[1] /\ toWorker'[2] = m
      BY <2>4, <2>7
    <3>2. Expected'
      BY <1>0, <2>3, <2>7, <3>1 DEF Expected, Concerns
    <3> QED BY <1>0, <1>1, <2>1, <2>5, <3>2 DEF AtRest, Answers, Failure, Running
  <2> QED BY <2>1, <2>6, <2>7 DEF AtRest
<1>4. CASE ReceiveReady
  <2>1. /\ server' = [server EXCEPT !.pc = "playing"] /\ server.pc = "preparing"
        /\ toServer # <<>> /\ Head(toServer).type = "assignment_ready" /\ Head(toServer).n = server.n
        /\ toServer' = Tail(toServer) /\ UNCHANGED <<toWorker, socketOpen, call>>
    BY <1>4 DEF ReceiveReady, Reads
  <2>2. server'.pc = "playing"
    BY <2>1 DEF TransportOK, ServerOK
  <2>3. Len(toServer') = 0 /\ (socketOpen => client.pc = "ready")
    BY <2>1, ReportRead DEF Reported
  <2>4. game'.started = {}
    <3>1. PICK tc \in bounds.timeControls, side \in Engines : game' = NewGame(tc, side)
      BY <1>4 DEF ReceiveReady
    <3>2. NewGame(tc, side).started = {}
      BY DEF NewGame, NoGame
    <3> QED BY <3>1, <3>2
  <2>5. AtRest' /\ Answers' /\ Failure' /\ Running'
    BY <1>0, <1>1, <2>1, <2>2, <2>3, <2>4 DEF AtRest, Answers, Failure, Running
  <2> QED BY <1>2, <2>1, <2>5
<1>5. CASE ReceivePreparationFailed
  <2>1. /\ server'.pc = "backoff" /\ server.pc = "preparing"
        /\ toServer # <<>> /\ Head(toServer).type = "assignment_failed" /\ Head(toServer).n = server.n
        /\ toServer' = Tail(toServer) /\ UNCHANGED <<toWorker, socketOpen, call>>
    BY <1>5 DEF ReceivePreparationFailed, Reads, TransportOK, ServerOK
  <2>2. Len(toServer') = 0 /\ (socketOpen => client.pc = "idle" /\ Len(toWorker) = 0)
    BY <2>1, ReportRead DEF Reported
  <2>3. AtRest' /\ Answers' /\ Failure' /\ Running'
    BY <1>0, <1>1, <2>1, <2>2 DEF AtRest, Answers, Failure, Running
  <2> QED BY <1>2, <2>1, <2>3
<1>6. CASE BackoffOver \/ EndSession
  <2>1. /\ UNCHANGED <<toWorker, toServer, socketOpen, call>>
        /\ \/ server.pc = "backoff" /\ server'.pc = "idle"
           \/ server.pc \in {"idle", "preparing"} /\ server'.pc = "over"
    BY <1>6 DEF BackoffOver, EndSession, wireVars, TransportOK, ServerOK
  <2>2. AtRest' /\ Answers' /\ Failure' /\ Running'
    BY <1>0, <1>1, <2>1 DEF AtRest, Answers, Failure, Running, Concerns
  <2> QED BY <1>2, <2>1, <2>2
<1>7. CASE ReceiveUnexpected
  <2>1. /\ server.pc = "preparing" /\ toServer # <<>>
        /\ \A type \in {"assignment_ready", "assignment_failed"} :
               ~(Head(toServer).type = type /\ Head(toServer).n = server.n)
    BY <1>7 DEF ReceiveUnexpected, Reads
  <2>2. Head(toServer) = toServer[1] /\ 1 \in 1 .. Len(toServer)
    BY <1>0, <2>1, Queues
  <2>3. toServer[1].n = server.n /\ toServer[1].type \in {"assignment_ready", "assignment_failed"}
    BY <2>1, <2>2 DEF Answers, ConversationOK, InPreparation, LastIsTheReport
  <2> QED BY <2>1, <2>2, <2>3
<1>8. CASE CompleteAssignment
  <2> DEFINE m == Plain("assignment_complete", server.n)
  <2>1. /\ server.pc = "playing" /\ game.pc \in {"over", "raised"} /\ call'.state = "none"
        /\ toServer' = toServer /\ socketOpen' = socketOpen
        /\ \/ socketOpen /\ toWorker' = Append(toWorker, m) /\ server'.pc = "idle"
           \/ ~socketOpen /\ toWorker' = toWorker /\ server'.pc = "over"
    BY <1>8 DEF CompleteAssignment, Completes, PendingCall, NoCall, SendToWorker, wireVars,
       TransportOK, ServerOK, CallOK
  <2>2. call.state = "none"
    BY <2>1, OrderlyCalls
  <2>3. CASE ~socketOpen
    <3>1. NoQuits' /\ Expected'
      BY <1>0, <2>1, <2>3 DEF NoQuits, Expected, Concerns
    <3> QED BY <2>1, <2>3, <3>1 DEF AtRest, Answers, Failure, Running
  <2>4. CASE socketOpen
    <3>1. /\ client.n = server.n /\ client.pc \in {"ready", "failed"}
          /\ Len(toWorker) = 0 /\ Len(toServer) = 0
      BY <2>1, <2>2, <2>4 DEF ConversationOK, InPlay, Serving, Conversation, NoCommand, CommandWaits,
         CommandWorks, CommandAnswered
    <3>2. m \in Message /\ m.type = "assignment_complete" /\ m.n = server.n /\ m.what = "none"
      <4>1. server.n \in Nat \ {0}
        BY <2>1 DEF TransportOK, ServerOK
      <4> QED BY <4>1, Messages, PlainFields DEF Downward
    <3>3. toWorker' = Append(toWorker, m) /\ server'.pc = "idle"
      BY <2>1, <2>4
    <3>4. Len(toWorker') = Len(toWorker) + 1 /\ toWorker'[Len(toWorker')] = m
      BY <1>0, <3>2, <3>3, WireSteps
    <3> HIDE DEF m
    <3>5. Len(toWorker') = 1 /\ toWorker'[1] = m
      BY <3>1, <3>4
    <3>6. NoQuits'
      BY <1>0, <2>1, <3>2, <3>5 DEF NoQuits
    <3>7. Expected' /\ AtRest'
      BY <1>0, <2>1, <3>1, <3>2, <3>5 DEF Expected, AtRest, Concerns
    <3> QED BY <2>1, <3>3, <3>6, <3>7 DEF Answers, Failure, Running
  <2> QED BY <2>3, <2>4
<1> QED BY <1>3, <1>4, <1>5, <1>6, <1>7, <1>8 DEF Serves

LEMMA ThreadOrderly ==
    ASSUME TransportOK, ConversationOK, Orderly, Plays
    PROVE  Orderly'
<1> USE DEF Orderly
<1>1. game \in Games
  BY DEF TransportOK, GameOK
<1>2. /\ UNCHANGED <<server, client, toWorker, toServer, socketOpen>>
      /\ game'.started = game.started
      /\ \/ /\ game.pc = "toMove" /\ call.state = "none" /\ call'.state = "scheduled"
            /\ call'.what \in {"setup", "go"}
         \/ game.pc \in {"toMove", "ending"} /\ game'.pc \in {"over", "raised"} /\ call' = call
  <2>1. CASE RunNextMove
    <3>1. game.pc = "toMove" => call.state = "none"
      BY OrderlyCalls
    <3>2. call'.state = "scheduled" /\ call'.what \in {"setup", "go"}
      <4>1. PICK e \in {"white", "black", game.side}, what \in {"setup", "go"} : Execute(e, what)
        BY <2>1 DEF RunNextMove
      <4> QED BY <4>1 DEF Execute
    <3>3. game.pc = "toMove" /\ game' = [game EXCEPT !.pc = "waiting"]
      BY <2>1 DEF RunNextMove
    <3>4. game'.started = game.started
      BY <1>1, <3>3 DEF Games
    <3> QED BY <2>1, <3>1, <3>2, <3>3, <3>4 DEF RunNextMove, clientVars, wireVars
  <2>2. CASE AssignmentLost \/ FinishGame
    BY <1>1, <2>2 DEF AssignmentLost, FinishGame, clientVars, wireVars, Games
  <2> QED BY <2>1, <2>2 DEF Plays
<1>3. NoQuits' /\ Expected' /\ AtRest' /\ Answers'
  BY <1>2 DEF NoQuits, Expected, AtRest, Answers, Concerns
<1>4. Failure'
  BY <1>2, OrderlyCalls DEF Failure
<1>5. Running'
  BY <1>2 DEF Running
<1> QED BY <1>3, <1>4, <1>5

(* What ends a command is all that there was to read.                      *)
LEMMA EndRead ==
    ASSUME TransportOK, ConversationOK, call.state = "sent", toServer # <<>>,
           Head(toServer).type # "engine_info", toServer' = Tail(toServer)
    PROVE  Len(toServer') = 0 /\ Len(toServer) = 1 /\ Head(toServer) = toServer[1]
<1>1. /\ Len(toServer) \in Nat /\ 1 \in 1 .. Len(toServer) /\ Head(toServer) = toServer[1]
      /\ Len(toServer') = Len(toServer) - 1
  BY Phases, Queues, WireSteps
<1>2. ~(1 < Len(toServer))
  BY <1>1, Phases DEF ConversationOK, InPlay, InfosFirst
<1>3. \A l \in Nat : 1 \in 1 .. l /\ ~(1 < l) => l = 1
  OBVIOUS
<1> QED BY <1>1, <1>2, <1>3

LEMMA TransportOrderly ==
    ASSUME TransportOK, ConversationOK, Orderly, Transports
    PROVE  Orderly'
<1> USE DEF Orderly
<1>0. /\ WireOK /\ game \in Games
      /\ call.state # "none" /\ server.pc = "playing" /\ Serving /\ Answering
      /\ server' = server /\ client' = client
      /\ call.what \in {"setup", "go"} /\ call.engine \in Engines
  <2>1. call.state # "none" /\ server' = server /\ client' = client
    BY DEF Transports, SendCommand, ReceiveInfo, ReceiveResult, ReceiveFailure,
       CommandCutOff, clientVars, serverVars
  <2> QED BY <2>1, Phases, OrderlyCalls DEF ConversationOK, InPlay, TransportOK, GameOK
<1>1. AtRest'
  BY <1>0 DEF AtRest
<1>2. ASSUME UNCHANGED toWorker, UNCHANGED call \/ call'.state = "none" PROVE NoQuits' /\ Expected'
  BY <1>0, <1>2 DEF NoQuits, Expected, Concerns
<1>3. ASSUME Raises
      PROVE  call'.state = "none" /\ game'.started = game.started /\ game'.pc \in {"raised", "ending"}
  BY <1>0, <1>3 DEF Raises, Ends, NoCall, Games, TransportOK, CallOK
<1>4. CASE SendCommand
  <2> DEFINE m == [type |-> "engine_command", n |-> server.n, engine |-> call.engine,
                   id |-> call.id, what |-> call.what, elapsed |-> 0]
  <2>1. /\ call.state = "scheduled" /\ call' = [call EXCEPT !.state = "sent"]
        /\ toWorker' = Append(toWorker, m) /\ UNCHANGED <<toServer, socketOpen, game>> /\ socketOpen
    BY <1>4 DEF SendCommand, SendToWorker
  <2>2. m \in Message
    <3>1. server.n \in Nat \ {0} /\ call.id \in Nat
      BY <1>0 DEF TransportOK, ServerOK, CallOK
    <3> QED BY <1>0, <3>1, Messages DEF Downward
  <2>3. call'.state = "sent" /\ call'.what = call.what /\ call'.engine = call.engine
    BY <2>1 DEF TransportOK, CallOK
  <2>4. m.type = "engine_command" /\ m.n = server.n /\ m.what = call.what
    OBVIOUS
  <2>5. Len(toWorker') = Len(toWorker) + 1 /\ toWorker'[Len(toWorker')] = m
    BY <1>0, <2>1, <2>2, WireSteps
  <2> HIDE DEF m
  <2>6. client.n = server.n /\ client.pc \in {"ready", "failed"} /\ NoCommand
    BY <1>0, <2>1 DEF Serving, Conversation, CommandWaits, CommandWorks, CommandAnswered, NoCommand
  <2>7. Len(toWorker') = 1 /\ toWorker'[1] = m /\ Len(toServer') = 0
    BY <2>1, <2>5, <2>6 DEF NoCommand
  <2>8. client.pc = "ready"
    BY <1>0, <2>1, <2>6 DEF Failure
  <2>9. NoQuits'
    BY <1>0, <2>3, <2>4, <2>7, <2>8 DEF NoQuits
  <2>10. Expected'
    BY <1>0, <2>4, <2>6, <2>7, <2>8 DEF Expected, Concerns
  <2>11. Answers' /\ Failure' /\ Running'
    BY <1>0, <2>1, <2>7, <2>8 DEF Answers, Failure, Running
  <2> QED BY <1>1, <2>9, <2>10, <2>11
<1>5. CASE ReceiveInfo
  <2>1. /\ toServer # <<>> /\ toServer' = Tail(toServer) /\ Head(toServer).type = "engine_info"
        /\ UNCHANGED <<call, game, toWorker, socketOpen>> /\ call.state = "sent"
    BY <1>5 DEF ReceiveInfo, serverVars
  <2>2. /\ Len(toServer) \in Nat /\ 1 \in 1 .. Len(toServer) /\ Head(toServer) = toServer[1]
        /\ Len(toServer') = Len(toServer) - 1
        /\ \A i \in 1 .. Len(toServer') :
               i + 1 \in 1 .. Len(toServer) /\ toServer'[i] = toServer[i + 1]
    BY <1>0, <2>1, Queues, WireSteps
  <2>3. Answers'
    BY <1>0, <2>1, <2>2 DEF Answers
  <2>4. Running'
    BY <1>0, <2>1, <2>2 DEF Running
  <2>5. ASSUME Len(toServer) > 0, toServer[Len(toServer)].type = "assignment_failed"
        PROVE  Len(toServer') > 0 /\ toServer'[Len(toServer')].type = "assignment_failed"
    <3>1. Len(toServer) # 1
      BY <2>1, <2>2, <2>5
    <3>2. \A l \in Nat : 1 \in 1 .. l /\ l # 1 =>
              l - 1 > 0 /\ l - 1 \in Nat /\ l - 1 \in 1 .. (l - 1) /\ (l - 1) + 1 = l
      OBVIOUS
    <3>3. /\ Len(toServer') > 0 /\ Len(toServer') \in 1 .. Len(toServer')
          /\ Len(toServer') + 1 = Len(toServer)
      BY <2>2, <3>1, <3>2
    <3> QED BY <2>2, <2>5, <3>3
  <2>6. Failure'
    BY <1>0, <2>1, <2>5 DEF Failure
  <2> QED BY <1>1, <1>2, <2>1, <2>3, <2>4, <2>6
<1>6. CASE ReceiveResult
  <2>1. /\ toServer # <<>> /\ toServer' = Tail(toServer) /\ call.state = "sent"
        /\ Head(toServer).type = "engine_command_result" /\ Returns(Head(toServer))
        /\ UNCHANGED <<toWorker, socketOpen>>
    BY <1>6 DEF ReceiveResult
  <2>2. call'.state = "none"
    BY <2>1 DEF Returns, NoCall, TransportOK, CallOK
  <2>3. Len(toServer') = 0 /\ Len(toServer) = 1 /\ Head(toServer) = toServer[1]
    BY <2>1, EndRead
  <2>4. ~(socketOpen /\ client.pc = "failed")
    BY <1>0, <2>1, <2>3 DEF Failure
  <2>5. client.pc \in {"ready", "working"} =>
            game.started \subseteq client.running /\ call.engine \in client.running
    BY <1>0, <2>1, <2>3 DEF Running
  <2>6. game'.started \subseteq game.started \cup {call.engine}
    <3>1. CASE call.what = "setup"
      BY <1>0, <2>1, <3>1 DEF Returns, Games
    <3>2. CASE call.what = "go"
      BY <1>0, <2>1, <3>2, AfterSearchStarted DEF Returns
    <3> QED BY <1>0, <3>1, <3>2
  <2>7. Answers' /\ Failure' /\ Running'
    BY <1>0, <2>1, <2>2, <2>3, <2>4, <2>5, <2>6 DEF Answers, Failure, Running
  <2> QED BY <1>1, <1>2, <2>1, <2>2, <2>7
<1>7. CASE ReceiveFailure
  <2>1. /\ toServer # <<>> /\ toServer' = Tail(toServer) /\ call.state = "sent" /\ Raises
        /\ ~(/\ Head(toServer).type \in {"engine_info", "engine_command_result"}
             /\ Matches(Head(toServer)))
        /\ UNCHANGED <<toWorker, socketOpen>>
    BY <1>7 DEF ReceiveFailure
  <2>2. Head(toServer).type # "engine_info"
    <3>1. Head(toServer) = toServer[1] /\ 1 \in 1 .. Len(toServer)
      BY <1>0, <2>1, Queues
    <3>2. Matches(toServer[1])
      BY <1>0, <2>1, <3>1 DEF Answers, Answering, Matches
    <3> QED BY <2>1, <3>1, <3>2
  <2>3. Len(toServer') = 0
    BY <2>1, <2>2, EndRead
  <2>4. Answers' /\ Failure' /\ Running'
    BY <1>0, <1>3, <2>1, <2>3 DEF Answers, Failure, Running
  <2> QED BY <1>1, <1>2, <1>3, <2>1, <2>4
<1>8. CASE CommandCutOff
  <2>1. UNCHANGED <<toServer, toWorker, socketOpen>> /\ ~socketOpen /\ Raises
    BY <1>8 DEF CommandCutOff, wireVars
  <2>2. Answers' /\ Failure' /\ Running'
    BY <1>0, <1>3, <2>1 DEF Answers, Failure, Running
  <2> QED BY <1>1, <1>2, <1>3, <2>1, <2>2
<1> QED BY <1>4, <1>5, <1>6, <1>7, <1>8 DEF Transports

LEMMA WorkerOrderly ==
    ASSUME TransportOK, ConversationOK, NoEngines, Orderly,
           Works \/ EmitInfo \/ PublishInfo \/ SocketCloses \/ CacheStep
    PROVE  Orderly'
<1> USE DEF Orderly
<1>0. /\ WireOK /\ client.command \in Message /\ UNCHANGED <<server, game, call>>
      /\ client.n \in Nat /\ server.n \in Nat
  BY Phases DEF Works, ReceiveAssignment, ReportReady, ReportNotPrepared, ReceiveCommand, AnswerCommand,
     EngineFails, RepeatFailure, ReceiveComplete, ClientStops, EmitInfo, PublishInfo, SocketCloses,
     CacheStep, serverVars
<1>1. call.state = "sent" => server.pc = "playing"
  BY Phases
<1>2. toWorker # <<>> /\ toWorker' = Tail(toWorker) =>
          /\ Len(toWorker) \in Nat /\ 1 \in 1 .. Len(toWorker)
          /\ Head(toWorker) = toWorker[1] /\ Len(toWorker') = Len(toWorker) - 1
          /\ \A i \in 1 .. Len(toWorker') :
                 i + 1 \in 1 .. Len(toWorker) /\ toWorker'[i] = toWorker[i + 1]
  BY <1>0, Queues, WireSteps
<1>3. \A m \in Message : toServer' = Append(toServer, m) =>
          /\ Len(toServer) \in Nat
          /\ Len(toServer') = Len(toServer) + 1 /\ toServer'[Len(toServer')] = m
          /\ \A i \in 1 .. Len(toServer') : i # Len(toServer') =>
                 i \in 1 .. Len(toServer) /\ toServer'[i] = toServer[i]
  BY <1>0, Queues, WireSteps
<1>4. CASE ReceiveAssignment
  <2>1. /\ client.pc = "idle" /\ toWorker # <<>> /\ toWorker' = Tail(toWorker)
        /\ client'.pc = "preparing" /\ UNCHANGED <<toServer, socketOpen>>
    BY <1>4 DEF ReceiveAssignment, TransportOK, ClientOK
  <2>2. Len(toWorker) = 1 /\ Len(toWorker') = 0
    BY <1>2, <2>1 DEF Expected
  <2>3. NoQuits' /\ Expected'
    <3>1. NoQuits'
      BY <1>0, <1>2, <2>1, <2>2 DEF NoQuits
    <3>2. Expected'
      BY <2>1, <2>2 DEF Expected
    <3> QED BY <3>1, <3>2
  <2>4. AtRest' /\ Answers' /\ Failure' /\ Running'
    BY <1>0, <2>1, <2>2 DEF AtRest, Answers, Failure, Running
  <2> QED BY <2>3, <2>4
<1>5. CASE ReportReady \/ ReportNotPrepared
  <2>1. PICK m \in Message : /\ m.n = client.n /\ toServer' = Append(toServer, m)
    <3>1. client.n \in Nat \ {0}
      BY <1>5 DEF ReportReady, ReportNotPrepared, TransportOK, ClientOK
    <3>2. \A type \in {"assignment_ready", "assignment_failed"} :
              Plain(type, client.n) \in Message /\ Plain(type, client.n).n = client.n
      BY <3>1, Messages, PlainFields
    <3> QED BY <1>5, <3>2 DEF ReportReady, ReportNotPrepared, SendToServer
  <2>2. /\ client.pc = "preparing" /\ client'.pc \in {"ready", "idle"} /\ toWorker' = toWorker
        /\ socketOpen /\ socketOpen' = socketOpen
    BY <1>5 DEF ReportReady, ReportNotPrepared, SendToServer, Closed, TransportOK, ClientOK
  <2>3. Len(toWorker) = 0
    BY <2>2 DEF Expected
  <2>4. server.pc \notin {"idle", "backoff", "playing"}
    BY <2>2 DEF AtRest, ConversationOK, InPlay, Serving
  <2>5. server.pc = "preparing" => client.n = server.n
    BY <2>2, <2>3 DEF ConversationOK, InPreparation, Ordered, Preparing, Reported
  <2>6. Answers'
    BY <1>0, <1>1, <1>3, <2>1, <2>4, <2>5 DEF Answers
  <2>7. NoQuits' /\ Expected'
    BY <1>0, <2>2, <2>3 DEF NoQuits, Expected
  <2> QED BY <1>0, <2>2, <2>4, <2>6, <2>7 DEF AtRest, Failure, Running
<1>6. CASE ReceiveCommand
  <2>1. /\ client.pc = "ready" /\ toWorker # <<>> /\ toWorker' = Tail(toWorker)
        /\ Head(toWorker).type = "engine_command"
        /\ client'.pc = "working" /\ client'.command = Head(toWorker) /\ client'.running = client.running
        /\ UNCHANGED <<toServer, socketOpen>>
    BY <1>6 DEF ReceiveCommand, Reads, TransportOK, ClientOK
  <2>2. Len(toWorker) = 1 /\ Len(toWorker') = 0
    BY <1>2, <2>1 DEF Expected, Concerns
  <2>3. NoQuits' /\ Expected'
    BY <1>0, <1>2, <2>1, <2>2 DEF NoQuits, Expected
  <2>4. AtRest'
    BY <1>0, <1>2, <2>1, <2>2 DEF AtRest, Concerns
  <2>5. Answers' /\ Failure' /\ Running'
    BY <1>0, <2>1 DEF Answers, Failure, Running
  <2> QED BY <2>3, <2>4, <2>5
<1>7. CASE PublishInfo \/ AnswerCommand \/ EngineFails
  <2>1. PICK m \in Message :
            /\ toServer' = Append(toServer, m) /\ m.engine = client.command.engine
            /\ \/ /\ m.type = "engine_info" /\ client' = client
               \/ /\ m.type = "engine_command_result" /\ client' = Handled("ready")
               \/ /\ m.type = "assignment_failed" /\ client' = Handled("failed")
    <3>1. \A type \in {"assignment_failed", "engine_info", "engine_command_result"}, elapsed \in Nat :
              Reply(type, client.command, elapsed) \in Message
      BY <1>0, Messages
    <3>2. CASE PublishInfo
      BY <1>0, <3>1, <3>2, ReplyFields DEF PublishInfo, SendToServer
    <3>3. CASE AnswerCommand
      <4>1. PICK elapsed \in Nat :
                SendToServer(Reply("engine_command_result", client.command, elapsed))
        BY <3>3, BoundsTypes DEF AnswerCommand, TransportOK
      <4> QED BY <1>0, <3>1, <3>3, <4>1, ReplyFields DEF AnswerCommand, SendToServer
    <3>4. CASE EngineFails
      BY <1>0, <3>1, <3>4, ReplyFields DEF EngineFails, SendToServer
    <3> QED BY <1>7, <3>2, <3>3, <3>4
  <2>2. client.pc = "working" /\ toWorker' = toWorker /\ socketOpen /\ socketOpen' = socketOpen
    BY <1>7 DEF PublishInfo, AnswerCommand, EngineFails, SendToServer, ConversationOK, Attentive
  <2>3. Len(toWorker) = 0
    BY <2>2 DEF Expected
  <2>4. \A pc \in {"ready", "failed"} :
            /\ Handled(pc).pc = pc
            /\ Handled(pc).running = client.running \cup {client.command.engine}
    BY <2>2 DEF Handled, NoQuits, TransportOK, ClientOK
  <2>5. NoQuits' /\ Expected'
    BY <1>0, <2>1, <2>2, <2>3, <2>4 DEF NoQuits, Expected
  <2>6. server.pc \notin {"idle", "backoff", "preparing"}
    BY <2>2, <2>3 DEF AtRest, ConversationOK, InPreparation, Ordered, Preparing, Reported
  <2>7. server.pc = "playing" => call.state = "sent" /\ client.command.engine = call.engine
    BY <2>2 DEF ConversationOK, InPlay, Serving, Conversation, NoCommand, CommandWaits, CommandWorks,
       CommandAnswered, IsCommand
  <2>8. Answers'
    BY <1>0, <1>1, <1>3, <2>1, <2>6, <2>7 DEF Answers
  <2>9. Failure'
    <3>1. Len(toServer') > 0 /\ toServer'[Len(toServer')] = m
      BY <1>3, <2>1
    <3> QED BY <1>0, <2>1, <2>2, <2>4, <2>7, <3>1 DEF Failure
  <2>10. Running'
    <3>1. CASE client' = client
      BY <1>0, <1>3, <2>1, <2>2, <2>4, <3>1 DEF Running
    <3>2. CASE client' = Handled("ready")
      BY <1>0, <2>2, <2>4, <2>7, <3>2 DEF Running
    <3>3. CASE client' = Handled("failed")
      BY <2>4, <3>3 DEF Running
    <3> QED BY <2>1, <3>1, <3>2, <3>3
  <2> QED BY <1>0, <2>5, <2>6, <2>8, <2>9, <2>10 DEF AtRest
<1>8. CASE RepeatFailure
  <2>1. /\ client.pc = "failed" /\ toWorker # <<>> /\ toWorker' = Tail(toWorker)
        /\ Head(toWorker).type = "engine_command" /\ UNCHANGED <<client, socketOpen>> /\ socketOpen
    BY <1>8 DEF RepeatFailure, Reads, SendToServer, clientVars
  <2>2. Len(toWorker) = 1 /\ Len(toWorker') = 0 /\ toWorker[1].type = "engine_command"
    BY <1>2, <2>1 DEF Expected, Concerns
  <2>3. server.pc \notin {"idle", "backoff"}
    BY <2>1, <2>2 DEF AtRest, Concerns
  <2>4. server.pc # "preparing"
    BY <2>1, <2>2 DEF ConversationOK, InPreparation, Ordered, Preparing, Reported
  <2>5. server.pc # "playing"
    BY <2>1, <2>2 DEF Failure, ConversationOK, InPlay, Serving, Conversation, NoCommand, CommandWaits,
       CommandWorks, CommandAnswered
  <2>6. NoQuits' /\ Expected'
    <3>1. NoQuits'
      BY <1>0, <1>2, <2>1, <2>2 DEF NoQuits
    <3>2. Expected'
      BY <2>1, <2>2 DEF Expected
    <3> QED BY <3>1, <3>2
  <2> QED BY <1>0, <1>1, <2>3, <2>4, <2>5, <2>6 DEF AtRest, Answers, Failure, Running
<1>9. CASE ReceiveComplete
  <2>1. /\ client.pc \in {"ready", "failed"} /\ toWorker # <<>> /\ toWorker' = Tail(toWorker)
        /\ Head(toWorker).type = "assignment_complete" /\ client'.pc = "idle"
        /\ UNCHANGED <<toServer, socketOpen>>
    BY <1>9 DEF ReceiveComplete, Reads, Closed, TransportOK, ClientOK
  <2>2. /\ Len(toWorker) \in {1, 2} /\ toWorker[1].type = "assignment_complete"
        /\ Len(toWorker') = 1 => toWorker'[1].type = "assignment"
        /\ Len(toWorker') = Len(toWorker) - 1
    BY <1>2, <2>1 DEF Expected, Concerns
  <2>3. NoQuits' /\ Expected'
    BY <1>0, <1>2, <2>1, <2>2 DEF NoQuits, Expected
  <2>4. AtRest'
    BY <1>0, <2>1, <2>2 DEF AtRest
  <2>5. Answers' /\ Failure' /\ Running'
    BY <1>0, <2>1 DEF Answers, Failure, Running
  <2> QED BY <2>3, <2>4, <2>5
<1>10. CASE ClientStops
  <2>1. client'.pc = "dead" /\ ~socketOpen' /\ UNCHANGED <<toWorker, toServer>>
    BY <1>10 DEF ClientStops, Closed, TransportOK, ClientOK
  <2> QED BY <1>0, <2>1 DEF NoQuits, Expected, AtRest, Answers, Failure, Running
<1>11. CASE EmitInfo \/ SocketCloses \/ CacheStep
  <2>1. UNCHANGED <<client, toWorker, toServer>> /\ (UNCHANGED socketOpen \/ ~socketOpen')
    BY <1>11 DEF EmitInfo, SocketCloses, CacheStep, clientVars, wireVars
  <2> QED BY <1>0, <2>1 DEF NoQuits, Expected, AtRest, Answers, Failure, Running, Concerns
<1> QED BY <1>4, <1>5, <1>6, <1>7, <1>8, <1>9, <1>10, <1>11 DEF Works

(* All of it: the types and the clocks, the conversation, and order on the *)
(* wire as long as nothing was collected.                                  *)
StepInv == TransportInv /\ ConversationOK /\ NoEngines /\ (~collected => Orderly)

LEMMA StepInitially == Init => StepInv
<1> SUFFICES ASSUME Init PROVE StepInv
  OBVIOUS
<1>1. NoGame.started = {} /\ Len(toWorker) = 0 /\ Len(toServer) = 0
  BY EmptySeq DEF Init, NoGame
<1>2. NoEngines
  BY <1>1 DEF Init, NoEngines
<1>3. Orderly
  BY <1>1 DEF Init, Orderly, NoQuits, Expected, AtRest, Answers, Failure, Running
<1> QED BY <1>2, <1>3, Initially, ConversationInitially DEF StepInv

LEMMA StepInductive == StepInv /\ [Next]_vars => StepInv'
<1> SUFFICES ASSUME StepInv, [Next]_vars PROVE StepInv'
  OBVIOUS
<1>1. TransportInv /\ TransportOK /\ ConversationOK /\ NoEngines
  BY DEF StepInv, TransportInv
<1>2. TransportInv' /\ ConversationOK' /\ NoEngines'
  BY <1>1, Inductive, ConversationInductive, EnginesStop
<1>3. ASSUME ~collected' PROVE ~collected /\ ~Collect
  <2>1. ~Collect
    BY <1>3 DEF Collect
  <2>2. CASE UNCHANGED vars
    BY <1>3, <2>1, <2>2 DEF vars
  <2> QED BY <1>3, <2>1, <2>2 DEF Next, Serves, Dispatch, ReceiveReady, ReceivePreparationFailed,
          BackoffOver, ReceiveUnexpected, EndSession, CompleteAssignment, Plays, RunNextMove,
          AssignmentLost, FinishGame, Transports, SendCommand, ReceiveInfo, ReceiveResult,
          ReceiveFailure, CommandCutOff, Works, ReceiveAssignment, ReportReady, ReportNotPrepared,
          ReceiveCommand, AnswerCommand, EngineFails, RepeatFailure, ReceiveComplete, ClientStops,
          EmitInfo, PublishInfo, SocketCloses, CacheStep, serverVars
<1>4. ASSUME ~collected' PROVE Orderly'
  <2>1. Orderly /\ ~Collect
    BY <1>3, <1>4 DEF StepInv
  <2>2. CASE UNCHANGED vars
    <3>1. UNCHANGED <<server, game, call, client, toWorker, toServer, socketOpen>>
      BY <2>2 DEF vars
    <3> QED BY <2>1, <3>1 DEF Orderly, NoQuits, Expected, AtRest, Answers, Failure, Running, Concerns
  <2> QED BY <1>1, <2>1, <2>2, ServesOrderly, ThreadOrderly, TransportOrderly, WorkerOrderly DEF Next
<1> QED BY <1>2, <1>4 DEF StepInv

(* Neither end reads a message that it does not expect, and what the game  *)
(* thread takes for a started engine is one, as long as no engine object   *)
(* was collected before its transport was closed (_serve_worker,           *)
(* _serve_assignment).                                                     *)
THEOREM NeverOutOfStep == Spec => []InStep
<1>1. StepInv => InStep
  <2> SUFFICES ASSUME StepInv, ~collected PROVE InStep
    BY DEF InStep
  <2>0. TransportOK /\ ConversationOK /\ NoEngines /\ Orderly /\ WireOK
    BY DEF StepInv, TransportInv, TransportOK
  <2>1. ASSUME server.pc = "preparing", toServer # <<>>
        PROVE  \E type \in {"assignment_ready", "assignment_failed"} :
                   Reads(toServer, type, server.n)
    <3>1. Head(toServer) = toServer[1] /\ 1 \in 1 .. Len(toServer)
      BY <2>0, <2>1, Queues
    <3> QED BY <2>0, <2>1, <3>1
            DEF Orderly, Answers, ConversationOK, InPreparation, LastIsTheReport, Reads
  <2>2. ASSUME call.state = "sent", toServer # <<>>
        PROVE  Matches(Head(toServer)) /\ Head(toServer).id = call.id
    <3>1. Head(toServer) = toServer[1] /\ 1 \in 1 .. Len(toServer) /\ server.pc = "playing"
      BY <2>0, <2>2, Queues, Phases
    <3> QED BY <2>0, <2>2, <3>1
            DEF Orderly, Answers, ConversationOK, InPlay, Answering, Matches
  <2>3. ASSUME toWorker # <<>> PROVE Understood(Head(toWorker))
    <3>1. Head(toWorker) = toWorker[1] /\ Len(toWorker) # 0
      BY <2>0, <2>3, Queues
    <3> QED BY <2>0, <3>1 DEF Orderly, Expected, Concerns, Understood
  <2>4. client.pc \in {"ready", "working"} => game.started \subseteq client.running
    <3>1. server.pc # "playing" => game.pc = "off"
      BY <2>0, Phases
    <3> QED BY <2>0, <3>1 DEF Orderly, Running, NoEngines
  <2> QED BY <2>0, <2>1, <2>2, <2>3, <2>4 DEF InStep, NoEngines
<1> QED BY <1>1, StepInitially, StepInductive, PTL DEF Spec
=============================================================================
