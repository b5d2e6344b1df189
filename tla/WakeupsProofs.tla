---------------------------- MODULE WakeupsProofs ----------------------------
(***************************************************************************)
(* Proofs about Wakeups, for any connections, capabilities, games and any  *)
(* bound on lags.                                                          *)
(***************************************************************************)
EXTENDS Wakeups, TLAPS

(* A claim in progress has read every game that it could take, unless a    *)
(* wake will tell of the others.                                           *)
ClaimsSeeTheGames ==
    \A w \in Workers :
        workers[w].pc = "reads" => InPool \cap Fitting(w) \subseteq workers[w].saw \/ WakeIsDue

WakeInv == NobodySleepsBesideAGame /\ CacheHidesNothing /\ ClaimsSeeTheGames

-----------------------------------------------------------------------------
(* Records that the actions write are well-formed.                         *)
LEMMA AwayType == Away \in Worker /\ 0 \in Lags
<1>1. 0 \in Lags
  BY WakeupsAssumption DEF Lags
<1> QED BY <1>1 DEF Away, Worker, Steps, Waking

LEMMA RecordTypes ==
    ASSUME NEW r \in Worker
    PROVE  /\ Away \in Worker /\ Greeting \in Worker /\ Leaving \in Worker
           /\ \A pc \in Steps : [r EXCEPT !.pc = pc] \in Worker
           /\ \A v \in BOOLEAN : [r EXCEPT !.valid = v] \in Worker
           /\ \A s \in SUBSET Games : [r EXCEPT !.saw = s] \in Worker
           /\ Older(r) \in Worker /\ Older(r).pc = r.pc /\ Older(r).saw = r.saw
<1>2. Greeting \in Worker /\ Leaving \in Worker
  BY AwayType DEF Greeting, Leaving, Worker, Steps, Waking
<1>3. /\ \A pc \in Steps : [r EXCEPT !.pc = pc] \in Worker
      /\ \A v \in BOOLEAN : [r EXCEPT !.valid = v] \in Worker
      /\ \A s \in SUBSET Games : [r EXCEPT !.saw = s] \in Worker
  BY DEF Worker
<1>4. Older(r) \in Worker /\ Older(r).pc = r.pc /\ Older(r).saw = r.saw
  BY WakeupsAssumption DEF Older, Worker, Lags
<1> QED BY AwayType, <1>2, <1>3, <1>4

(* The step after a wake is taken by one that was about to wake.           *)
LEMMA WokenType ==
    ASSUME NEW r \in Worker, r.pc \in Waking, r.saw = {}
    PROVE  /\ Woken(r) \in Worker /\ Woken(r).saw = {}
           /\ Woken(r).pc \in {"away", "claims", "backs off"}
<1>1. CASE r.pc = "leaves"
  BY <1>1, RecordTypes DEF Woken, Away
<1>2. CASE r.pc \in {"greets", "ended"}
  BY <1>2 DEF Woken, Worker, Steps
<1>3. CASE r.pc = "failed"
  BY <1>3 DEF Woken, Worker, Steps
<1> QED BY <1>1, <1>2, <1>3 DEF Waking

LEMMA PassedType ==
    ASSUME TypeOK, NEW w \in Workers, NEW to \in {Pool, Gone}
    PROVE  Passed(w, to) \in [Games -> {Pool, Gone} \cup Workers]
BY DEF Passed, TypeOK

LEMMA InitType == Init => TypeOK
<1> SUFFICES ASSUME Init PROVE TypeOK
  OBVIOUS
<1>1. \A w \in Workers : workers[w] = Away /\ Away.pc = "away" /\ Away.saw = {}
  BY DEF Init, Away
<1>2. workers \in [Workers -> Worker]
  BY AwayType DEF Init
<1> QED BY <1>1, <1>2, WakeupsAssumption DEF Init, TypeOK

(* One coroutine that does not sleep in a wake takes a step to a           *)
(* well-formed record, and the loop is free if it begins a claim.          *)
LEMMA StepType ==
    ASSUME TypeOK, NEW w \in Workers, NEW r \in Worker,
           r.pc # "reads" => r.saw = {},
           r.pc = "reads" => LoopFree,
           sleeper # w, sleeper' = sleeper,
           workers' = [workers EXCEPT ![w] = r],
           owner' \in [Games -> {Pool, Gone} \cup Workers],
           empty' \in [Capabilities -> Lags \cup {None}],
           unannounced' \in BOOLEAN
    PROVE  TypeOK'
<1>1. /\ workers' \in [Workers -> Worker]
      /\ \A v \in Workers \ {w} : workers'[v] = workers[v]
      /\ workers'[w] = r
  BY DEF TypeOK
<1>2. \A v, u \in Workers : workers'[v].pc = "reads" /\ workers'[u].pc = "reads" => v = u
  BY <1>1 DEF TypeOK, LoopFree
<1>3. \A v \in Workers : workers'[v].pc # "reads" => workers'[v].saw = {}
  BY <1>1 DEF TypeOK
<1>4. sleeper \in Workers => workers'[sleeper].pc \in Waking
  BY <1>1 DEF TypeOK
<1> QED BY <1>1, <1>2, <1>3, <1>4 DEF TypeOK

(* Records change, but not where the coroutines are.                       *)
LEMMA SamePlaces ==
    ASSUME TypeOK, workers' \in [Workers -> Worker],
           \A w \in Workers : /\ workers'[w].pc = workers[w].pc
                              /\ workers'[w].saw \subseteq workers[w].saw,
           owner' \in [Games -> {Pool, Gone} \cup Workers],
           UNCHANGED <<empty, sleeper>>, unannounced' \in BOOLEAN
    PROVE  TypeOK'
<1>1. \A v, u \in Workers : workers'[v].pc = "reads" /\ workers'[u].pc = "reads" => v = u
  BY DEF TypeOK
<1>2. \A v \in Workers : workers'[v].pc # "reads" => workers'[v].saw = {}
  BY DEF TypeOK
<1>3. sleeper \in Workers => workers'[sleeper].pc \in Waking
  BY DEF TypeOK
<1> QED BY <1>1, <1>2, <1>3 DEF TypeOK

LEMMA NextType == TypeOK /\ [Next]_vars => TypeOK'
<1> SUFFICES ASSUME TypeOK, [Next]_vars PROVE TypeOK'
  OBVIOUS
<1> USE DEF Goes
<1>t. workers \in [Workers -> Worker]
  BY DEF TypeOK
<1>o. /\ owner \in [Games -> {Pool, Gone} \cup Workers]
      /\ empty \in [Capabilities -> Lags \cup {None}]
      /\ unannounced \in BOOLEAN
      /\ sleeper \in Workers => workers[sleeper].pc \in Waking
  BY DEF TypeOK
<1>r. \A w \in Workers :
         /\ workers[w].pc \in Steps
         /\ workers[w].lag \in Lags
         /\ workers[w].pc # "reads" => workers[w].saw = {}
  BY <1>t DEF TypeOK, Worker
<1>p. \A w \in Workers : \A pc \in Steps :
         /\ [workers[w] EXCEPT !.pc = pc] \in Worker
         /\ [workers[w] EXCEPT !.pc = pc].pc = pc
         /\ [workers[w] EXCEPT !.pc = pc].saw = workers[w].saw
  BY <1>t DEF Worker
<1>l. Leaving \in Worker /\ Leaving.pc = "leaves" /\ Leaving.saw = {}
  BY AwayType, RecordTypes DEF Leaving, Away
<1>1. ASSUME NEW w \in Workers, Accept(w) PROVE TypeOK'
  <2> PICK v \in Workers : /\ owner' = Passed(v, Pool)
                           /\ workers' = [workers EXCEPT ![v].valid = FALSE, ![w] = Greeting]
    BY <1>1 DEF Accept
  <2>1. [workers[v] EXCEPT !.valid = FALSE] \in Worker /\ Greeting \in Worker
    BY <1>t, RecordTypes
  <2>2. /\ workers' \in [Workers -> Worker] /\ workers'[w] = Greeting
        /\ \A u \in Workers \ {w} : /\ workers'[u].pc = workers[u].pc
                                    /\ workers'[u].saw = workers[u].saw
    BY <1>t, <2>1 DEF Worker
  <2>3. Greeting.pc = "greets" /\ Greeting.saw = {}
    BY DEF Greeting, Away
  <2>4. \A u \in Workers : workers'[u].pc # "reads" /\ workers'[u].saw = {}
    BY <1>1, <1>r, <2>2, <2>3 DEF Accept, LoopFree
  <2>5. sleeper # w
    BY <1>1, <1>o DEF Accept, Waking
  <2>6. sleeper \in Workers => workers'[sleeper].pc \in Waking
    BY <2>5, <2>2, <1>o
  <2> QED BY <1>1, <2>2, <2>4, <2>6, <1>o, PassedType DEF Accept, TypeOK
<1>2. ASSUME NEW w \in Workers, Leave(w) PROVE TypeOK'
  BY <1>2, <1>l, <1>o, StepType DEF Leave
<1>3. ASSUME NEW w \in Workers, CleanupFails(w) PROVE TypeOK'
  <2>1. Away \in Worker /\ Away.pc = "away" /\ Away.saw = {}
    BY AwayType DEF Away
  <2> QED BY <1>3, <2>1, <1>o, StepType DEF CleanupFails
<1>4. ASSUME NEW w \in Workers, SkipClaim(w) PROVE TypeOK'
  <2>1. "waits" \in Steps /\ workers[w].saw = {} /\ sleeper # w
    BY <1>4, <1>r, <1>o DEF SkipClaim, Steps, Waking
  <2> QED BY <1>4, <2>1, <1>p, <1>o, StepType DEF SkipClaim
<1>5. ASSUME NEW w \in Workers, ReadPool(w) PROVE TypeOK'
  <2> DEFINE r == [workers[w] EXCEPT !.pc = "reads", !.saw = InPool \cap Fitting(w)]
  <2>1. r \in Worker /\ r.pc = "reads"
    BY <1>t DEF Worker, Steps, InPool
  <2>2. sleeper # w /\ LoopFree
    BY <1>5, <1>o DEF ReadPool, Waking
  <2>3. CASE workers' = [workers EXCEPT ![w] = r]
    <3> HIDE DEF r
    <3> QED BY <1>5, <2>1, <2>2, <2>3, <1>o, StepType DEF ReadPool
  <2>4. CASE workers' = [workers EXCEPT ![w] = Leaving]
    BY <1>5, <2>2, <2>4, <1>l, <1>o, StepType DEF ReadPool
  <2> QED BY <1>5, <2>3, <2>4 DEF ReadPool
<1>6. ASSUME NEW w \in Workers, TakeGame(w) \/ FindNothing(w) PROVE TypeOK'
  <2>1. \A pc \in {"plays", "waits"} : /\ [workers[w] EXCEPT !.pc = pc, !.saw = {}] \in Worker
                                       /\ [workers[w] EXCEPT !.pc = pc, !.saw = {}].pc = pc
                                       /\ [workers[w] EXCEPT !.pc = pc, !.saw = {}].saw = {}
    BY <1>t DEF Worker, Steps
  <2>2. PICK pc \in {"plays", "waits"} :
           workers' = [workers EXCEPT ![w] = [workers[w] EXCEPT !.pc = pc, !.saw = {}]]
    BY <1>6 DEF TakeGame, FindNothing
  <2> DEFINE r == [workers[w] EXCEPT !.pc = pc, !.saw = {}]
  <2>3. r \in Worker /\ r.pc # "reads" /\ r.saw = {} /\ workers' = [workers EXCEPT ![w] = r]
    BY <2>1, <2>2
  <2>4. sleeper # w /\ sleeper' = sleeper /\ unannounced' = unannounced
    BY <1>6, <1>o DEF TakeGame, FindNothing, Waking
  <2>5. owner' \in [Games -> {Pool, Gone} \cup Workers]
    BY <1>6, <1>o DEF TakeGame, FindNothing
  <2>6. empty' \in [Capabilities -> Lags \cup {None}]
    BY <1>6, <1>o, <1>r DEF TakeGame, FindNothing
  <2> HIDE DEF r
  <2> QED BY <2>3, <2>4, <2>5, <2>6, <1>o, StepType
<1>7. ASSUME NEW w \in Workers, Resume(w) PROVE TypeOK'
  <2> DEFINE r == [workers[w] EXCEPT !.pc = "claims", !.lag = 0]
  <2>1. r \in Worker /\ r.pc = "claims" /\ r.saw = {}
    BY <1>7, <1>t, <1>r, AwayType DEF Worker, Steps, Resume
  <2>2. sleeper # w /\ workers' = [workers EXCEPT ![w] = r]
    BY <1>7, <1>o DEF Resume, Waking
  <2> HIDE DEF r
  <2> QED BY <1>7, <2>1, <2>2, <1>o, StepType DEF Resume
<1>8. ASSUME NEW w \in Workers, GameEnds(w) PROVE TypeOK'
  <2>1. "ended" \in Steps /\ workers[w].saw = {} /\ sleeper # w
    BY <1>8, <1>r, <1>o DEF GameEnds, Steps, Waking
  <2>2. owner' \in [Games -> {Pool, Gone} \cup Workers]
    BY <1>8, PassedType DEF GameEnds
  <2> QED BY <1>8, <2>1, <2>2, <1>p, <1>o, StepType DEF GameEnds, AfterGame
<1>9. ASSUME NEW w \in Workers, AssignmentFails(w) PROVE TypeOK'
  <2>1. workers[w].saw = {} /\ sleeper # w /\ owner' \in [Games -> {Pool, Gone} \cup Workers]
    BY <1>9, <1>r, <1>o, PassedType DEF AssignmentFails, Waking
  <2>2. \E r \in Worker : /\ r.pc # "reads" /\ r.saw = {}
                          /\ workers' = [workers EXCEPT ![w] = r]
    BY <1>9, <2>1, <1>p, <1>l DEF AssignmentFails, Steps, Waking
  <2> QED BY <1>9, <2>1, <2>2, <1>o, StepType DEF AssignmentFails
<1>10. ASSUME NEW w \in Workers, BackOffEnds(w) PROVE TypeOK'
  <2>1. "claims" \in Steps /\ workers[w].saw = {} /\ sleeper # w
    BY <1>10, <1>r, <1>o DEF BackOffEnds, Steps, Waking
  <2> QED BY <1>10, <2>1, <1>p, <1>o, StepType DEF BackOffEnds
<1>11. ASSUME NEW w \in Workers, CallWake(w) PROVE TypeOK'
  <2>1. CASE sleeper = None
    BY <1>11, <2>1 DEF CallWake, TypeOK
  <2>2. CASE sleeper # None
    <3>1. workers[w].pc \in Waking /\ workers[w].saw = {} /\ workers[w] \in Worker
      BY <1>11, <1>r, <1>t DEF CallWake, Waking
    <3>2. Woken(workers[w]) \in Worker /\ Woken(workers[w]).pc # "reads" /\ Woken(workers[w]).saw = {}
      BY <3>1, WokenType
    <3> QED BY <1>11, <2>2, <3>2, <1>o, StepType DEF CallWake
  <2> QED BY <2>1, <2>2
<1>12. ASSUME CallWakeElsewhere PROVE TypeOK'
  BY <1>12, WakeupsAssumption DEF CallWakeElsewhere, TypeOK
<1>13. ASSUME Wake PROVE TypeOK'
  <2>1. \A w \in Workers : /\ Older(workers[w]) \in Worker
                           /\ Older(workers[w]).pc = workers[w].pc
                           /\ Older(workers[w]).saw = workers[w].saw
    BY <1>t, RecordTypes
  <2>2. ASSUME NEW w \in Workers
        PROVE  workers'[w] \in Worker /\ workers'[w].pc # "reads" /\ workers'[w].saw = {}
    <3>1. workers[w].saw = {} /\ workers[w].pc # "reads"
      BY <1>13, <1>r DEF Wake, LoopFree
    <3>2. CASE w = sleeper
      <4>1. Older(workers[w]).pc \in Waking
        BY <3>2, <2>1, <1>o
      <4> QED BY <1>13, <3>1, <3>2, <4>1, <2>1, WokenType DEF Wake
    <3>3. CASE w # sleeper
      BY <1>13, <3>1, <3>3, <2>1 DEF Wake
    <3> QED BY <3>2, <3>3
  <2>3. workers' \in [Workers -> Worker]
    BY <1>13, <2>2 DEF Wake
  <2> QED BY <1>13, <2>2, <2>3, <1>o, WakeupsAssumption DEF Wake, TypeOK, Forgotten
<1>14. ASSUME NEW g \in Games, Open(g) PROVE TypeOK'
  <2>1. \A w \in Workers : /\ [workers[w] EXCEPT !.valid = FALSE] \in Worker
                           /\ [workers[w] EXCEPT !.valid = FALSE].pc = workers[w].pc
                           /\ [workers[w] EXCEPT !.valid = FALSE].saw = workers[w].saw
    BY <1>t DEF Worker
  <2>2. /\ workers' \in [Workers -> Worker]
        /\ \A w \in Workers : workers'[w].pc = workers[w].pc /\ workers'[w].saw = workers[w].saw
    BY <1>14, <1>t, <2>1 DEF Open
  <2> QED BY <1>14, <2>2, <1>o, SamePlaces DEF Open
<1>15. ASSUME NEW g \in Games, Close(g) PROVE TypeOK'
  <2>1. /\ workers' \in [Workers -> Worker]
        /\ \A w \in Workers : /\ workers'[w].pc = workers[w].pc
                               /\ workers'[w].saw = workers[w].saw \ {g}
    BY <1>15, <1>t DEF Close, Worker
  <2> QED BY <1>15, <2>1, <1>o, SamePlaces DEF Close
<1>16. CASE UNCHANGED vars
  BY <1>16 DEF vars, TypeOK
<1> QED BY <1>1, <1>2, <1>3, <1>4, <1>5, <1>6, <1>7, <1>8, <1>9, <1>10, <1>11, <1>12, <1>13,
           <1>14, <1>15, <1>16 DEF Next, Turn

(* Typing: the records of coroutines, the cache and the merged wake stay   *)
(* well-formed, and at most one claim is in progress.                      *)
THEOREM TypeCorrect == Spec => []TypeOK
BY InitType, NextType, PTL DEF Spec

-----------------------------------------------------------------------------
(* A wake that is due stays due until it happens.                          *)
LEMMA DueStays == TypeOK /\ WakeIsDue /\ [Next]_vars /\ ~Wake => WakeIsDue'
<1> SUFFICES ASSUME TypeOK, WakeIsDue, [Next]_vars, ~Wake PROVE WakeIsDue'
  OBVIOUS
<1> USE DEF WakeIsDue
<1>t. workers \in [Workers -> Worker]
  BY DEF TypeOK
<1>1. CASE unannounced
  <2>1. unannounced'
    BY <1>1 DEF Next, Turn, vars, Accept, Leave, CleanupFails, SkipClaim, ReadPool, TakeGame,
         FindNothing, Resume, GameEnds, AssignmentFails, BackOffEnds, CallWake,
         CallWakeElsewhere, Open, Close
  <2> QED BY <2>1
<1>2. CASE sleeper # None
  <2>1. sleeper' = sleeper
    BY <1>2 DEF Next, Turn, vars, Accept, Leave, CleanupFails, SkipClaim, ReadPool, TakeGame,
         FindNothing, Resume, GameEnds, AssignmentFails, BackOffEnds, CallWake,
         CallWakeElsewhere, Open, Close
  <2> QED BY <1>2, <2>1
<1>3. ASSUME NEW w \in Workers, workers[w].pc \in Waking, sleeper = None PROVE WakeIsDue'
  <2>1. ASSUME NEW v \in Workers, CallWake(v) \/ CleanupFails(v) PROVE WakeIsDue'
    BY <1>3, <2>1, WakeupsAssumption DEF CallWake, CleanupFails
  <2>2. ASSUME CallWakeElsewhere PROVE WakeIsDue'
    BY <2>2, WakeupsAssumption DEF CallWakeElsewhere
  <2>3. ASSUME NEW v \in Workers, Leave(v) PROVE WakeIsDue'
    BY <1>3, <1>t, <2>3 DEF Leave, Leaving, Away, Waking
  <2>4. ASSUME NEW v \in Workers, NEW u \in Workers,
               workers' = [workers EXCEPT ![u].valid = FALSE, ![v] = Greeting]
        PROVE  WakeIsDue'
    BY <1>t, <2>4 DEF Greeting, Away, Waking
  <2>5. ASSUME NEW v \in Workers, Accept(v) PROVE WakeIsDue'
    BY <2>4, <2>5 DEF Accept
  <2>6. ASSUME NEW v \in Workers, workers[v].pc \notin Waking,
               \A u \in Workers \ {v} : workers'[u] = workers[u]
        PROVE  WakeIsDue'
    BY <1>3, <2>6
  <2>7. ASSUME NEW v \in Workers,
               \/ SkipClaim(v) \/ ReadPool(v) \/ TakeGame(v) \/ FindNothing(v) \/ Resume(v)
               \/ GameEnds(v) \/ AssignmentFails(v) \/ BackOffEnds(v)
        PROVE  WakeIsDue'
    <3>1. workers[v].pc \notin Waking
      BY <2>7 DEF SkipClaim, ReadPool, TakeGame, FindNothing, Resume, GameEnds, AssignmentFails,
           BackOffEnds, Waking
    <3>2. \A u \in Workers \ {v} : workers'[u] = workers[u]
      BY <1>t, <2>7 DEF SkipClaim, ReadPool, TakeGame, FindNothing, Resume, GameEnds,
           AssignmentFails, BackOffEnds, Goes
    <3> QED BY <2>6, <3>1, <3>2
  <2>8. ASSUME NEW g \in Games, Open(g) PROVE WakeIsDue'
    BY <2>8 DEF Open
  <2>9. ASSUME NEW g \in Games, Close(g) PROVE WakeIsDue'
    <3>1. workers'[w].pc = workers[w].pc
      BY <1>t, <2>9 DEF Close, Worker
    <3> QED BY <1>3, <3>1
  <2>10. CASE UNCHANGED vars
    BY <1>3, <2>10 DEF vars
  <2> QED BY <2>1, <2>2, <2>3, <2>5, <2>7, <2>8, <2>9, <2>10 DEF Next, Turn
<1> QED BY <1>1, <1>2, <1>3

(* While no wake is due afterwards, nothing has entered the pool.          *)
LEMMA QuietSteps ==
    ASSUME TypeOK, [Next]_vars, ~Wake, ~WakeIsDue'
    PROVE  /\ ~WakeIsDue /\ InPool' \subseteq InPool
           /\ \/ \E w \in Workers : \/ SkipClaim(w) \/ ReadPool(w) \/ TakeGame(w) \/ FindNothing(w)
                                     \/ Resume(w) \/ BackOffEnds(w)
              \/ \E g \in Games : Close(g)
              \/ UNCHANGED vars
<1>1. ~WakeIsDue
  BY DueStays
<1>t. workers \in [Workers -> Worker]
  BY DEF TypeOK
<1>2. \A w \in Workers : workers'[w].pc \notin Waking
  BY DEF WakeIsDue
<1>3. ASSUME NEW w \in Workers, Accept(w) \/ Leave(w) \/ AssignmentFails(w) \/ GameEnds(w)
      PROVE  FALSE
  <2>1. \A pc \in Waking : [workers[w] EXCEPT !.pc = pc].pc = pc
    BY <1>t DEF Worker
  <2>2. \E r : workers'[w] = r /\ r.pc \in Waking
    <3>1. CASE Accept(w)
      BY <3>1, <1>t DEF Accept, Greeting, Away, Waking
    <3>2. CASE Leave(w)
      BY <3>2, <1>t DEF Leave, Leaving, Away, Waking
    <3>3. CASE AssignmentFails(w)
      <4>1. CASE workers' = [workers EXCEPT ![w] = Leaving]
        BY <4>1, <1>t DEF Leaving, Away, Waking
      <4>2. ASSUME NEW pc \in {"ended", "failed"}, Goes(w, pc)
            PROVE  \E r : workers'[w] = r /\ r.pc \in Waking
        BY <4>2, <2>1, <1>t DEF Goes, Waking
      <4> QED BY <3>3, <4>1, <4>2 DEF AssignmentFails
    <3>4. CASE GameEnds(w)
      BY <3>4, <2>1, <1>t DEF GameEnds, AfterGame, Goes, Waking
    <3> QED BY <1>3, <3>1, <3>2, <3>3, <3>4
  <2> QED BY <1>2, <2>2
<1>4. ASSUME NEW w \in Workers, CallWake(w) \/ CleanupFails(w) PROVE FALSE
  BY <1>1, <1>4 DEF CallWake, CleanupFails, WakeIsDue
<1>5. ~CallWakeElsewhere
  BY WakeupsAssumption DEF CallWakeElsewhere, WakeIsDue
<1>6. ASSUME NEW g \in Games, Open(g) PROVE FALSE
  BY <1>6 DEF Open, WakeIsDue
<1>7. \/ \E w \in Workers : \/ SkipClaim(w) \/ ReadPool(w) \/ TakeGame(w) \/ FindNothing(w)
                            \/ Resume(w) \/ BackOffEnds(w)
      \/ \E g \in Games : Close(g)
      \/ UNCHANGED vars
  <2>1. CASE UNCHANGED vars
    BY <2>1 DEF vars
  <2>2. CASE Next
    BY <2>2, <1>3, <1>4, <1>5, <1>6 DEF Next, Turn
  <2> QED BY <2>1, <2>2
<1>8. InPool' \subseteq InPool
  BY <1>7, WakeupsAssumption DEF SkipClaim, ReadPool, TakeGame, FindNothing, Resume, BackOffEnds,
       Close, vars, InPool, TypeOK
<1> QED BY <1>1, <1>7, <1>8

-----------------------------------------------------------------------------
LEMMA InitWake == Init => WakeInv
BY DEF Init, Away, WakeInv, NobodySleepsBesideAGame, CacheHidesNothing, ClaimsSeeTheGames

(* After a wake nobody waits at the current generation, and the cache is   *)
(* empty.                                                                  *)
LEMMA WakeStep == TypeOK /\ Wake => WakeInv'
<1> SUFFICES ASSUME TypeOK, Wake PROVE WakeInv'
  OBVIOUS
<1>1. ASSUME NEW w \in Workers
      PROVE  /\ workers'[w].pc # "reads"
             /\ workers'[w].pc = "waits" => workers'[w].lag # 0
  <2>1. workers[w] \in Worker /\ workers[w].pc # "reads"
    BY DEF TypeOK, Wake, LoopFree
  <2>2. Older(workers[w]).pc = workers[w].pc
    BY <2>1, RecordTypes
  <2>3. CASE w = sleeper
    <3>1. Older(workers[w]) \in Worker /\ Older(workers[w]).pc \in Waking /\ Older(workers[w]).saw = {}
      BY <2>1, <2>2, <2>3, RecordTypes DEF TypeOK
    <3> QED BY <2>3, <3>1, WokenType DEF Wake
  <2>4. CASE w # sleeper
    <3>1. workers[w].pc = "waits" => Older(workers[w]).lag # 0
      BY <2>1, WakeupsAssumption DEF Older, Worker, Lags
    <3> QED BY <2>1, <2>2, <2>4, <3>1 DEF Wake
  <2> QED BY <2>3, <2>4
<1>2. \A c \in Capabilities : empty'[c] = None
  BY DEF Wake, Forgotten
<1> QED BY <1>1, <1>2 DEF WakeInv, NobodySleepsBesideAGame, CacheHidesNothing, ClaimsSeeTheGames

LEMMA NextWake == TypeOK /\ WakeInv /\ [Next]_vars => WakeInv'
<1> SUFFICES ASSUME TypeOK, WakeInv, [Next]_vars, ~Wake, ~WakeIsDue' PROVE WakeInv'
  BY WakeStep DEF WakeInv, NobodySleepsBesideAGame, CacheHidesNothing, ClaimsSeeTheGames
<1>t. workers \in [Workers -> Worker] /\ empty \in [Capabilities -> Lags \cup {None}]
  BY DEF TypeOK
<1>q. InPool' \subseteq InPool
  BY QuietSteps
<1>n. \A w \in Workers :
         /\ workers[w].pc = "waits" /\ workers[w].lag = 0 => InPool \cap Fitting(w) = {}
         /\ workers[w].pc = "reads" => InPool \cap Fitting(w) \subseteq workers[w].saw
  BY QuietSteps DEF WakeInv, NobodySleepsBesideAGame, ClaimsSeeTheGames
<1>c. \A c \in Capabilities : empty[c] # None => InPool \cap Playable[c] = {}
  BY QuietSteps DEF WakeInv, CacheHidesNothing
<1>w. \A w \in Workers : CapabilityOf[w] \in Capabilities /\ Fitting(w) = Playable[CapabilityOf[w]]
  BY WakeupsAssumption DEF Fitting
(* What a step has to say of each coroutine and of the cache.              *)
<1>g. ASSUME \A w \in Workers :
                /\ workers'[w].pc = "waits" /\ workers'[w].lag = 0 => InPool' \cap Fitting(w) = {}
                /\ workers'[w].pc = "reads" => InPool' \cap Fitting(w) \subseteq workers'[w].saw,
             \A c \in Capabilities : empty'[c] # None => InPool' \cap Playable[c] = {}
      PROVE  WakeInv'
  BY <1>g DEF WakeInv, NobodySleepsBesideAGame, CacheHidesNothing, ClaimsSeeTheGames, Fitting
<1>1. ASSUME NEW w \in Workers, SkipClaim(w) PROVE WakeInv'
  <2>1. InPool \cap Fitting(w) = {}
    BY <1>1, <1>c, <1>w, <1>t, WakeupsAssumption DEF SkipClaim, Worker, Lags
  <2>2. \A v \in Workers \ {w} : workers'[v] = workers[v]
    BY <1>1, <1>t DEF SkipClaim, Goes
  <2>3. workers'[w].pc = "waits"
    BY <1>1, <1>t DEF SkipClaim, Goes, Worker
  <2> QED BY <1>1, <1>g, <1>q, <1>n, <1>c, <2>1, <2>2, <2>3 DEF SkipClaim
<1>2. ASSUME NEW w \in Workers, ReadPool(w) PROVE WakeInv'
  <2>1. \A v \in Workers \ {w} : workers'[v] = workers[v]
    BY <1>2, <1>t DEF ReadPool
  <2>2. workers'[w].pc # "waits" /\ (workers'[w].pc = "reads" => workers'[w].saw = InPool \cap Fitting(w))
    BY <1>2, <1>t DEF ReadPool, Worker, Leaving, Away
  <2> QED BY <1>2, <1>g, <1>q, <1>n, <1>c, <2>1, <2>2 DEF ReadPool
<1>3. ASSUME NEW w \in Workers, TakeGame(w) PROVE WakeInv'
  <2>1. /\ \A v \in Workers \ {w} : workers'[v] = workers[v]
        /\ workers'[w].pc = "plays"
    BY <1>3, <1>t DEF TakeGame, Worker
  <2> QED BY <1>3, <1>g, <1>q, <1>n, <1>c, <2>1 DEF TakeGame
<1>4. ASSUME NEW w \in Workers, FindNothing(w) PROVE WakeInv'
  <2>1. InPool \cap Fitting(w) = {}
    BY <1>4, <1>n DEF FindNothing
  <2>2. /\ \A v \in Workers \ {w} : workers'[v] = workers[v]
        /\ workers'[w].pc = "waits"
    BY <1>4, <1>t DEF FindNothing, Worker
  <2>3. \A c \in Capabilities : empty'[c] # None => InPool \cap Playable[c] = {}
    BY <1>4, <1>c, <1>w, <1>t, <2>1 DEF FindNothing
  <2> QED BY <1>4, <1>g, <1>q, <1>n, <2>1, <2>2, <2>3
<1>5. ASSUME NEW w \in Workers, Resume(w) \/ BackOffEnds(w) PROVE WakeInv'
  <2>1. /\ \A v \in Workers \ {w} : workers'[v] = workers[v]
        /\ workers'[w].pc = "claims"
        /\ empty' = empty
    BY <1>5, <1>t DEF Resume, BackOffEnds, Goes, Worker
  <2> QED BY <1>g, <1>q, <1>n, <1>c, <2>1
<1>6. ASSUME NEW g \in Games, Close(g) PROVE WakeInv'
  <2>1. \A w \in Workers : /\ workers'[w].pc = workers[w].pc /\ workers'[w].lag = workers[w].lag
                           /\ workers'[w].saw = workers[w].saw \ {g}
    BY <1>6, <1>t DEF Close, Worker
  <2>2. g \notin InPool' /\ empty' = empty
    BY <1>6, WakeupsAssumption DEF Close, InPool, TypeOK
  <2> QED BY <1>g, <1>q, <1>n, <1>c, <2>1, <2>2
<1>7. CASE UNCHANGED vars
  <2>1. UNCHANGED <<workers, empty>>
    BY <1>7 DEF vars
  <2> QED BY <1>g, <1>q, <1>n, <1>c, <2>1
<1> QED BY QuietSteps, <1>1, <1>2, <1>3, <1>4, <1>5, <1>6, <1>7

LEMMA AlwaysWakeInv == Spec => []WakeInv
BY InitType, NextType, InitWake, NextWake, PTL DEF Spec

(* No lost wake-up: however releases, claims, broken connections and       *)
(* merged wakes interleave, a connection that waits at the current         *)
(* generation beside a game it could play has a wake coming.               *)
THEOREM NoLostWakeup == Spec => []NobodySleepsBesideAGame
<1>1. WakeInv => NobodySleepsBesideAGame
  BY DEF WakeInv
<1> QED BY <1>1, AlwaysWakeInv, PTL

(* The cache of empty claims never hides a game for good.                  *)
THEOREM CacheIsSafe == Spec => []CacheHidesNothing
<1>1. WakeInv => CacheHidesNothing
  BY DEF WakeInv
<1> QED BY <1>1, AlwaysWakeInv, PTL
=============================================================================
