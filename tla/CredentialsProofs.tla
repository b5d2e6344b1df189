--------------------------- MODULE CredentialsProofs ---------------------------
(***************************************************************************)
(* Proofs about Credentials, for any number of workers, pools, tokens and  *)
(* sessions.                                                               *)
(***************************************************************************)
EXTENDS Credentials, FiniteSetTheorems, TLAPS

-----------------------------------------------------------------------------
(* Types.                                                                  *)

(* Every column and every process keeps its domain.                        *)
LEMMA InitType == Init => TypeOK
BY DEF Init, TypeOK, Row, NoRow, PoolRow, Client, Down, Process, Stopped, Workers

(* A client between two connections, and one that is down, are clients.    *)
LEMMA ClientTypes ==
    /\ Down \in Client
    /\ \A c \in Credential : Idle(c) \in Client
    /\ \A c \in Client : c.pc # "down" => c.credential \in Credential
    /\ \A c \in Client : c.pc \in {"accepted", "serving"} =>
           c.link \in Sessions /\ c.link \in Credential
BY DEF Client, Down, Idle, Credential

(* What the steps of its connections make of a worker's row are rows.      *)
LEMMA RowTypes ==
    /\ NoRow \in Row
    /\ [NoRow EXCEPT !.status = "offline"] \in Row
    /\ \A w \in Workers, s \in Sessions : Connected(w, s) \in Row
    /\ \A r \in Row : r.status \in {"online", "offline"} =>
           /\ [r EXCEPT !.status = "offline"] \in Row
           /\ r.token = None
    /\ \A r \in Row : r.session # None => r.status \in {"online", "offline"}
    /\ \A r \in Row : r.session \in Sessions \cup {None} /\ r.token \in Tokens \cup {None}
    /\ \A r \in Row, t \in Tokens : r.session = None =>
           [r EXCEPT !.token = t, !.status = "minted"] \in Row
<1>1. /\ NoRow \in Row
      /\ [NoRow EXCEPT !.status = "offline"] \in Row
  BY DEF Row, NoRow
<1>2. \A w \in Workers, s \in Sessions : Connected(w, s) \in Row
  BY DEF Row, Connected
<1>3. \A r \in Row : r.status \in {"online", "offline"} =>
           /\ [r EXCEPT !.status = "offline"] \in Row
           /\ r.token = None
  BY DEF Row, NoRow
<1>4. /\ \A r \in Row : r.session # None => r.status \in {"online", "offline"}
      /\ \A r \in Row : r.session \in Sessions \cup {None} /\ r.token \in Tokens \cup {None}
  BY DEF Row, NoRow
<1>5. \A r \in Row, t \in Tokens : r.session = None =>
           [r EXCEPT !.token = t, !.status = "minted"] \in Row
  <2> SUFFICES ASSUME NEW r \in Row, NEW t \in Tokens, r.session = None
               PROVE  [r EXCEPT !.token = t, !.status = "minted"] \in Row
    OBVIOUS
  <2>1. [r EXCEPT !.token = t, !.status = "minted"]
            \in [status : {"minted"}, session : {None}, token : Tokens]
    BY DEF Row, NoRow
  <2> QED BY <2>1 DEF Row
<1> QED BY <1>1, <1>2, <1>3, <1>4, <1>5

(* Every step keeps every domain.                                          *)
LEMMA NextType == TypeOK /\ [Next]_vars => TypeOK'
<1> SUFFICES ASSUME TypeOK, [Next]_vars PROVE TypeOK'
  OBVIOUS
<1>1. ASSUME NEW w \in Workers, NEW t \in Tokens, Mint(w, t) PROVE TypeOK'
  <2>1. rows[w] \in Row /\ rows[w].session = None
    BY <1>1 DEF Mint, MayBeMinted, TypeOK
  <2>3. rows' = [rows EXCEPT ![w] = [rows[w] EXCEPT !.token = t, !.status = "minted"]]
    BY <1>1 DEF Mint
  <2>4. rows' \in [Workers -> Row]
    BY <2>1, <2>3, RowTypes DEF TypeOK
  <2> QED BY <1>1, <2>4 DEF Mint, poolVars, TypeOK
<1>2. ASSUME NEW w \in Workers, NEW s \in Sessions, Accept(w, s) PROVE TypeOK'
  <2>1. clients[w] \in Client /\ clients[w].pc = "idle"
    BY <1>2 DEF Accept, TypeOK
  <2>2. [clients[w] EXCEPT !.pc = "accepted", !.link = s] \in Client
    <3>1. clients[w] \in [pc : {"idle"}, credential : Credential, link : {None}]
      BY <2>1 DEF Client, Down
    <3> QED BY <3>1 DEF Client
  <2>3. clients' \in [Workers -> Client]
    BY <1>2, <2>2 DEF Accept, TypeOK
  <2>4. rows' \in [Workers -> Row]
    BY <1>2, RowTypes DEF Accept, TypeOK
  <2> QED BY <1>2, <2>3, <2>4 DEF Accept, poolVars, TypeOK
<1>3. ASSUME NEW w \in Workers, Revoke(w) PROVE TypeOK'
  BY <1>3, RowTypes DEF Revoke, poolVars, TypeOK
<1>4. ASSUME NEW w \in Workers, Start(w) PROVE TypeOK'
  <2>1. PICK c \in {rows[w].token, rows[w].session} \ {None} :
            clients' = [clients EXCEPT ![w] = Idle(c)]
    BY <1>4 DEF Start
  <2>2. c \in Credential
    <3>1. rows[w].token \in Tokens \cup {None} /\ rows[w].session \in Sessions \cup {None}
      BY RowTypes DEF TypeOK
    <3> QED BY <2>1, <3>1 DEF Credential
  <2>3. clients' \in [Workers -> Client]
    BY <2>1, <2>2, ClientTypes DEF TypeOK
  <2> QED BY <1>4, <2>3 DEF Start, dbVars, poolVars, TypeOK
<1>5. ASSUME NEW w \in Workers, Stop(w) PROVE TypeOK'
  BY <1>5, ClientTypes DEF Stop, dbVars, poolVars, TypeOK
<1>6. ASSUME NEW w \in Workers, Welcome(w) PROVE TypeOK'
  <2>1. clients[w] \in Client /\ clients[w].pc = "accepted"
    BY <1>6 DEF Welcome, TypeOK
  <2>2. [clients[w] EXCEPT !.pc = "serving", !.credential = clients[w].link] \in Client
    <3>1. clients[w] \in [pc : {"accepted", "serving"}, credential : Credential,
                          link : Sessions]
      BY <2>1 DEF Client, Down
    <3> QED BY <3>1 DEF Client, Credential
  <2>3. clients' \in [Workers -> Client]
    BY <1>6, <2>2 DEF Welcome, TypeOK
  <2> QED BY <1>6, <2>3 DEF Welcome, dbVars, poolVars, TypeOK
<1>7. ASSUME NEW w \in Workers, LinkBreaks(w) PROVE TypeOK'
  <2>1. clients[w] \in Client /\ clients[w].pc # "down"
    BY <1>7 DEF LinkBreaks, TypeOK
  <2>2. clients' \in [Workers -> Client]
    BY <1>7, <2>1, ClientTypes DEF LinkBreaks, TypeOK
  <2> QED BY <1>7, <2>2 DEF LinkBreaks, dbVars, poolVars, TypeOK
<1>8. ASSUME NEW w \in Workers, SlotRetries(w) PROVE TypeOK'
  <2>1. w \in Credential
    BY <1>8 DEF SlotRetries, Credential
  <2> QED BY <1>8, <2>1, ClientTypes DEF SlotRetries, dbVars, poolVars, TypeOK
<1>9. ASSUME NEW p \in Pools, NEW t \in Tokens, MintPool(p, t) PROVE TypeOK'
  <2>1. pools' \in [Pools -> PoolRow]
    BY <1>9 DEF MintPool, TypeOK, PoolRow
  <2> QED BY <1>9, <2>1 DEF MintPool, poolVars, TypeOK
<1>10. ASSUME NEW p \in Pools, RevokePoolReads(p) PROVE TypeOK'
  BY <1>10 DEF RevokePoolReads, poolVars, TypeOK, SlotsOf
<1>11. ASSUME NEW p \in Pools, RevokePoolWrites(p) PROVE TypeOK'
  <2>1. pools' \in [Pools -> PoolRow]
    BY <1>11 DEF RevokePoolWrites, TypeOK, PoolRow
  <2>2. rows' \in [Workers -> Row]
    BY <1>11, RowTypes DEF RevokePoolWrites, TypeOK
  <2> QED BY <1>11, <2>1, <2>2 DEF RevokePoolWrites, poolVars, TypeOK
<1>12. ASSUME NEW p \in Pools, Enroll(p) PROVE TypeOK'
  <2>1. processes[p] \in Process /\ processes[p].pc = "enrolling"
    BY <1>12 DEF Enroll, TypeOK
  <2>2. /\ processes[p].token \in Tokens
        /\ [processes[p] EXCEPT !.pc = "welcomed"] \in Process
    BY <2>1 DEF Process, Stopped
  <2>3. processes' \in [Pools -> Process]
    BY <1>12, <2>2 DEF Enroll, TypeOK
  <2>4. pools' \in [Pools -> PoolRow]
    BY <1>12 DEF Enroll, TypeOK, PoolRow
  <2>5. rows' \in [Workers -> Row]
    BY <1>12, RowTypes DEF Enroll, TypeOK
  <2> QED BY <1>12, <2>2, <2>3, <2>4, <2>5 DEF Enroll, TypeOK
<1>13. ASSUME NEW p \in Pools, StartPool(p) PROVE TypeOK'
  <2>1. processes[p] = Stopped
    BY <1>13 DEF StartPool, TypeOK, Process
  <2>2. [processes[p] EXCEPT !.pc = "running"] \in Process
    BY <2>1 DEF Process, Stopped
  <2>3. pools[p].token # None => [pc |-> "enrolling", token |-> pools[p].token] \in Process
    BY DEF TypeOK, PoolRow, Process
  <2>4. processes' \in [Pools -> Process]
    BY <1>13, <2>2, <2>3 DEF StartPool, TypeOK
  <2>5. clients' \in [Workers -> Client]
    BY <1>13, ClientTypes DEF StartPool, Running, SlotsOf, TypeOK, Credential
  <2> QED BY <1>13, <2>4, <2>5 DEF StartPool, dbVars, TypeOK
<1>14. ASSUME NEW p \in Pools, WelcomePool(p) PROVE TypeOK'
  <2>1. clients' \in [Workers -> Client]
    BY <1>14, ClientTypes DEF WelcomePool, Running, SlotsOf, TypeOK, Credential
  <2>2. processes' \in [Pools -> Process]
    BY <1>14 DEF WelcomePool, TypeOK, Process
  <2> QED BY <1>14, <2>1, <2>2 DEF WelcomePool, dbVars, TypeOK
<1>15. ASSUME NEW p \in Pools, StopPool(p) PROVE TypeOK'
  <2>1. clients' \in [Workers -> Client]
    BY <1>15, ClientTypes DEF StopPool, SlotsOf, TypeOK
  <2>2. processes' \in [Pools -> Process]
    BY <1>15 DEF StopPool, TypeOK, Process
  <2> QED BY <1>15, <2>1, <2>2 DEF StopPool, dbVars, TypeOK
<1>16. ASSUME NEW t \in Tokens, TokenExpires(t) PROVE TypeOK'
  BY <1>16 DEF TokenExpires, poolVars, TypeOK
<1>17. ASSUME NEW s \in Sessions, Disconnect(s) PROVE TypeOK'
  <2>1. PICK w \in Workers : w = coroutines[s]
    BY <1>17 DEF Disconnect, TypeOK
  <2>2. rows[w] \in Row
    BY DEF TypeOK
  <2>3. Disconnected(w, s) \in Row
    <3>1. rows[w].session = s => rows[w].status \in {"online", "offline"}
      BY <2>2, RowTypes, CredentialsAssumption
    <3> QED BY <2>2, <3>1, RowTypes DEF Disconnected
  <2>4. rows' \in [Workers -> Row]
    BY <1>17, <2>1, <2>3 DEF Disconnect, TypeOK
  <2> QED BY <1>17, <2>4 DEF Disconnect, poolVars, TypeOK
<1>18. CASE Restart
  <2>1. rows' \in [Workers -> Row]
    BY <1>18, RowTypes DEF Restart, TypeOK
  <2> QED BY <1>18, <2>1 DEF Restart, poolVars, TypeOK
<1>19. CASE UNCHANGED vars
  BY <1>19 DEF vars, TypeOK
<1> QED BY <1>1, <1>2, <1>3, <1>4, <1>5, <1>6, <1>7, <1>8, <1>9, <1>10, <1>11, <1>12,
           <1>13, <1>14, <1>15, <1>16, <1>17, <1>18, <1>19 DEF Next
(* Every row, process and client keeps its domain, whatever connects,      *)
(* breaks, is minted, enrolled or removed.                                 *)
THEOREM TypeCorrect == Spec => []TypeOK
BY InitType, NextType, PTL DEF Spec

-----------------------------------------------------------------------------
(* The status that administrators see.                                     *)

(* In the beginning no worker is online and no coroutine runs.             *)
LEMMA InitStatus == Init => StatusTellsTheTruth
<1> SUFFICES ASSUME Init PROVE StatusTellsTheTruth
  OBVIOUS
<1>1. ASSUME NEW w \in Workers PROVE rows[w].status # "online"
  BY DEF Init, NoRow
<1>2. ASSUME NEW s \in Sessions, NEW w \in Workers PROVE coroutines[s] # w
  BY CredentialsAssumption DEF Init
<1> QED BY <1>1, <1>2 DEF StatusTellsTheTruth

(* Every step keeps the status true.  A worker whose row loses its session *)
(* has no current coroutine; that is why a removal in the middle of a      *)
(* session, and the late end of a superseded one, do no harm.              *)
LEMMA NextStatus == TypeOK /\ StatusTellsTheTruth /\ [Next]_vars => StatusTellsTheTruth'
<1> SUFFICES ASSUME TypeOK, StatusTellsTheTruth, [Next]_vars,
                    NEW v \in Workers
             PROVE  rows'[v].status = "online" <=>
                        \E s \in Sessions : rows'[v].session = s /\ coroutines'[s] = v
  BY DEF StatusTellsTheTruth
<1>0. rows[v].status = "online" <=>
          \E s \in Sessions : rows[v].session = s /\ coroutines[s] = v
  BY DEF StatusTellsTheTruth
<1>none. None \notin Sessions /\ None \notin Workers
  BY CredentialsAssumption
<1>same. rows'[v] = rows[v] /\ coroutines' = coroutines =>
             (rows'[v].status = "online" <=>
                  \E s \in Sessions : rows'[v].session = s /\ coroutines'[s] = v)
  BY <1>0
<1>off. rows'[v].status # "online" /\ rows'[v].session = None =>
             (rows'[v].status = "online" <=>
                  \E s \in Sessions : rows'[v].session = s /\ coroutines'[s] = v)
  BY <1>none
<1>1. ASSUME NEW w \in Workers, NEW t \in Tokens, Mint(w, t)
      PROVE  \/ rows'[v] = rows[v] /\ coroutines' = coroutines
             \/ rows'[v].status # "online" /\ rows'[v].session = None
  <2>1. CASE v = w
    <3>1. rows'[v].status = "minted" /\ rows'[v].session = rows[v].session
      <4>1. rows[v] \in Row
        BY DEF TypeOK
      <4>2. rows'[v] = [rows[v] EXCEPT !.token = t, !.status = "minted"]
        BY <1>1, <2>1 DEF Mint, TypeOK
      <4> QED BY <4>1, <4>2 DEF Row, NoRow
    <3> QED BY <1>1, <2>1, <3>1 DEF Mint, MayBeMinted
  <2>2. CASE v # w
    BY <1>1, <2>2 DEF Mint, TypeOK
  <2> QED BY <2>1, <2>2
<1>2. ASSUME NEW w \in Workers, NEW s \in Sessions, Accept(w, s)
      PROVE  rows'[v].status = "online" <=>
                 \E r \in Sessions : rows'[v].session = r /\ coroutines'[r] = v
  <2>1. CASE v = w
    BY <1>2, <2>1 DEF Accept, Connected, TypeOK
  <2>2. CASE v # w
    <3>1. rows'[v] = rows[v] /\ rows[v].session # s
      BY <1>2, <2>2 DEF Accept, Fresh, TypeOK
    <3>2. \A r \in Sessions : r # s => coroutines'[r] = coroutines[r]
      BY <1>2 DEF Accept, TypeOK
    <3>3. coroutines'[s] = w
      BY <1>2 DEF Accept, TypeOK
    <3> QED BY <1>0, <2>2, <3>1, <3>2, <3>3
  <2> QED BY <2>1, <2>2
<1>3. ASSUME NEW w \in Workers, Revoke(w)
      PROVE  \/ rows'[v] = rows[v] /\ coroutines' = coroutines
             \/ rows'[v].status # "online" /\ rows'[v].session = None
  BY <1>3 DEF Revoke, NoRow, TypeOK
<1>4. ASSUME NEW p \in Pools, RevokePoolWrites(p)
      PROVE  \/ rows'[v] = rows[v] /\ coroutines' = coroutines
             \/ rows'[v].status # "online" /\ rows'[v].session = None
  BY <1>4 DEF RevokePoolWrites, NoRow
<1>5. ASSUME NEW p \in Pools, Enroll(p)
      PROVE  \/ rows'[v] = rows[v] /\ coroutines' = coroutines
             \/ rows'[v].status # "online" /\ rows'[v].session = None
  BY <1>5 DEF Enroll, NoRow
<1>6. ASSUME NEW s \in Sessions, Disconnect(s)
      PROVE  rows'[v].status = "online" <=>
                 \E r \in Sessions : rows'[v].session = r /\ coroutines'[r] = v
  <2>1. coroutines[s] \in Workers /\ coroutines'[s] = None
    BY <1>6 DEF Disconnect, TypeOK
  <2>2. \A r \in Sessions : r # s => coroutines'[r] = coroutines[r]
    BY <1>6 DEF Disconnect, TypeOK
  <2>3. v # coroutines[s] => rows'[v] = rows[v]
    BY <1>6 DEF Disconnect, TypeOK
  <2>4. v = coroutines[s] => rows'[v] = Disconnected(v, s)
    BY <1>6 DEF Disconnect, TypeOK
  <2>5. CASE v # coroutines[s] \/ rows[v].session # s
    <3>1. rows'[v] = rows[v]
      BY <2>3, <2>4, <2>5 DEF Disconnected
    <3> QED BY <1>0, <1>none, <2>1, <2>2, <2>5, <3>1
  <2>6. CASE v = coroutines[s] /\ rows[v].session = s
    <3>1. rows[v] \in Row /\ Exists(v)
      BY <1>none, <2>6, RowTypes DEF TypeOK, Exists
    <3>2. rows'[v] = [rows[v] EXCEPT !.status = "offline"]
      BY <2>4, <2>6, <3>1 DEF Disconnected
    <3>3. rows'[v].status = "offline" /\ rows'[v].session = s
      BY <2>6, <3>1, <3>2 DEF Row, NoRow
    <3> QED BY <1>none, <2>1, <3>3
  <2> QED BY <2>5, <2>6
<1>7. ASSUME Restart
      PROVE  rows'[v].status = "online" <=>
                 \E r \in Sessions : rows'[v].session = r /\ coroutines'[r] = v
  <2>1. \A r \in Sessions : coroutines'[r] # v
    BY <1>7, <1>none DEF Restart
  <2>2. rows[v] \in Row
    BY DEF TypeOK
  <2>3. rows'[v] = IF rows[v].status = "online" THEN [rows[v] EXCEPT !.status = "offline"]
                   ELSE rows[v]
    BY <1>7 DEF Restart
  <2>4. rows'[v].status # "online"
    BY <2>2, <2>3 DEF Row, NoRow
  <2> QED BY <2>1, <2>4
<1>8. ASSUME \/ UNCHANGED vars
             \/ \E w \in Workers : \/ Start(w) \/ Stop(w)
                                   \/ Welcome(w) \/ LinkBreaks(w) \/ SlotRetries(w)
             \/ \E p \in Pools : \/ \E t \in Tokens : MintPool(p, t)
                                 \/ RevokePoolReads(p) \/ StartPool(p)
                                 \/ WelcomePool(p) \/ StopPool(p)
             \/ \E t \in Tokens : TokenExpires(t)
      PROVE  rows' = rows /\ coroutines' = coroutines
  BY <1>8 DEF vars, dbVars, Start, Stop, Welcome, LinkBreaks, SlotRetries, MintPool,
              RevokePoolReads, StartPool, WelcomePool, StopPool, TokenExpires
<1> QED BY <1>same, <1>off, <1>1, <1>2, <1>3, <1>4, <1>5, <1>6, <1>7, <1>8 DEF Next

(* For any number of workers and sessions, and in whatever order a         *)
(* superseded session's end and its successor's begin come: a worker is    *)
(* shown online iff the coroutine of its current session runs.             *)
THEOREM StatusTrue == Spec => []StatusTellsTheTruth
BY TypeCorrect, InitStatus, NextStatus, PTL DEF Spec

-----------------------------------------------------------------------------
(* One-time tokens.                                                        *)

(* No token is in two places; a second copy of a spent one would let       *)
(* somebody in again.                                                      *)
TokensApart ==
    /\ \A v, w \in Workers : v # w /\ rows[v].token # None => rows[v].token # rows[w].token
    /\ \A p, q \in Pools : p # q /\ pools[p].token # None => pools[p].token # pools[q].token
    /\ \A w \in Workers, p \in Pools :
           rows[w].token # None => rows[w].token # pools[p].token

(* What a step that mints nothing does: a row or a pool keeps its token or *)
(* loses it.                                                               *)
TokensOnlyLeave ==
    /\ \A w \in Workers : rows'[w].token \in {rows[w].token, None}
    /\ \A p \in Pools : pools'[p].token \in {pools[p].token, None}

(* In the beginning no token exists.                                       *)
LEMMA InitTokens == Init => TokensApart /\ TokensAreSpentOnce
<1> SUFFICES ASSUME Init PROVE TokensApart /\ TokensAreSpentOnce
  OBVIOUS
<1>1. /\ \A w \in Workers : rows[w].token = None
      /\ \A p \in Pools : pools[p].token = None
      /\ spent = {}
  BY DEF Init, NoRow
<1> QED BY <1>1 DEF TokensApart, TokensAreSpentOnce

(* If tokens only leave, they stay apart.                                  *)
LEMMA LeavingKeepsApart == TokensApart /\ TokensOnlyLeave => TokensApart'
BY DEF TokensApart, TokensOnlyLeave

(* If moreover the step spends nothing, no spent token is left anywhere.   *)
LEMMA LeavingKeepsSpent ==
    TypeOK /\ TokensAreSpentOnce /\ TokensOnlyLeave /\ spent' = spent => TokensAreSpentOnce'
<1> SUFFICES ASSUME TypeOK, TokensAreSpentOnce, TokensOnlyLeave, spent' = spent
             PROVE  TokensAreSpentOnce'
  OBVIOUS
<1>1. \A t \in spent : t # None
  BY CredentialsAssumption DEF TypeOK
<1> QED BY <1>1 DEF TokensAreSpentOnce, TokensOnlyLeave

(* Every step keeps both: what is minted is new, and what is spent leaves  *)
(* the one place it was in.                                                *)
LEMMA NextTokens ==
    TypeOK /\ TokensApart /\ TokensAreSpentOnce /\ [Next]_vars
        => TokensApart' /\ TokensAreSpentOnce'
<1> SUFFICES ASSUME TypeOK, TokensApart, TokensAreSpentOnce, [Next]_vars
             PROVE  TokensApart' /\ TokensAreSpentOnce'
  OBVIOUS
<1>none. None \notin Tokens /\ Tokens \cap Sessions = {} /\ Tokens \cap Slots = {}
  BY CredentialsAssumption
<1>1. ASSUME NEW w \in Workers, NEW t \in Tokens, Mint(w, t)
      PROVE  TokensApart' /\ TokensAreSpentOnce'
  <2>1. rows'[w].token = t
    <3>1. rows[w] \in Row
      BY DEF TypeOK
    <3>2. rows'[w] = [rows[w] EXCEPT !.token = t, !.status = "minted"]
      BY <1>1 DEF Mint, TypeOK
    <3> QED BY <3>1, <3>2 DEF Row, NoRow
  <2>2. \A v \in Workers : v # w => rows'[v] = rows[v]
    BY <1>1 DEF Mint, TypeOK
  <2>3. pools' = pools /\ spent' = spent
    BY <1>1 DEF Mint
  <2>4. /\ t \notin spent
        /\ \A v \in Workers : rows[v].token # t
        /\ \A p \in Pools : pools[p].token # t
    BY <1>1 DEF Mint, Unused
  <2> QED BY <2>1, <2>2, <2>3, <2>4 DEF TokensApart, TokensAreSpentOnce
<1>2. ASSUME NEW p \in Pools, NEW t \in Tokens, MintPool(p, t)
      PROVE  TokensApart' /\ TokensAreSpentOnce'
  <2>1. pools'[p].token = t
    BY <1>2 DEF MintPool, TypeOK, PoolRow
  <2>2. \A q \in Pools : q # p => pools'[q] = pools[q]
    BY <1>2 DEF MintPool, TypeOK
  <2>3. rows' = rows /\ spent' = spent
    BY <1>2 DEF MintPool
  <2>4. /\ t \notin spent
        /\ \A v \in Workers : rows[v].token # t
        /\ \A q \in Pools : pools[q].token # t
    BY <1>2 DEF MintPool, Unused
  <2> QED BY <2>1, <2>2, <2>3, <2>4 DEF TokensApart, TokensAreSpentOnce
<1>3. ASSUME NEW w \in Workers, NEW s \in Sessions, Accept(w, s)
      PROVE  TokensApart' /\ TokensAreSpentOnce'
  <2>1. rows'[w].token = None /\ \A v \in Workers : v # w => rows'[v] = rows[v]
    BY <1>3 DEF Accept, Connected, TypeOK
  <2>2. pools' = pools
    BY <1>3 DEF Accept
  <2>3. TokensOnlyLeave
    BY <2>1, <2>2 DEF TokensOnlyLeave
  <2>4. ASSUME NEW t \in spent', t \notin spent PROVE t \in Tokens /\ rows[w].token = t
    <3>1. t = clients[w].credential /\ t \in Tokens
      BY <1>3, <2>4 DEF Accept
    <3> QED BY <1>3, <1>none, <3>1 DEF Accept, Recognised
  <2>5. TokensAreSpentOnce'
    <3> SUFFICES ASSUME NEW t \in spent'
                 PROVE  /\ \A v \in Workers : rows'[v].token # t
                        /\ \A p \in Pools : pools'[p].token # t
      BY DEF TokensAreSpentOnce
    <3>1. CASE t \in spent
      <4>1. t # None
        BY <1>none, <3>1 DEF TypeOK
      <4> QED BY <2>1, <2>2, <3>1, <4>1 DEF TokensAreSpentOnce
    <3>2. CASE t \notin spent
      BY <1>none, <2>1, <2>2, <2>4, <3>2 DEF TokensApart
    <3> QED BY <3>1, <3>2
  <2> QED BY <2>3, <2>5, LeavingKeepsApart
<1>4. ASSUME NEW p \in Pools, Enroll(p)
      PROVE  TokensApart' /\ TokensAreSpentOnce'
  <2>1. pools'[p].token = None /\ \A q \in Pools : q # p => pools'[q] = pools[q]
    BY <1>4 DEF Enroll, TypeOK
  <2>2. \A w \in Workers : rows'[w].token \in {rows[w].token, None}
    BY <1>4 DEF Enroll, NoRow
  <2>3. TokensOnlyLeave
    BY <2>1, <2>2 DEF TokensOnlyLeave
  <2>4. /\ processes[p].token \in Tokens /\ pools[p].token = processes[p].token
        /\ spent' = spent \cup {processes[p].token}
    <3>1. processes[p] \in Process /\ processes[p].pc = "enrolling"
      BY <1>4 DEF Enroll, TypeOK
    <3>2. processes[p].token \in Tokens
      BY <3>1 DEF Process, Stopped
    <3> QED BY <1>4, <3>2 DEF Enroll
  <2>5. TokensAreSpentOnce'
    <3> SUFFICES ASSUME NEW t \in spent'
                 PROVE  /\ \A v \in Workers : rows'[v].token # t
                        /\ \A q \in Pools : pools'[q].token # t
      BY DEF TokensAreSpentOnce
    <3>1. t \in Tokens
      BY <2>4 DEF TypeOK
    <3>2. /\ \A v \in Workers : rows[v].token # t
          /\ \A q \in Pools : q # p => pools[q].token # t
      BY <1>none, <2>4 DEF TokensAreSpentOnce, TokensApart
    <3> QED BY <1>none, <2>1, <2>2, <3>1, <3>2
  <2> QED BY <2>3, <2>5, LeavingKeepsApart
<1>5. ASSUME NEW w \in Workers, Revoke(w) PROVE TokensOnlyLeave /\ spent' = spent
  BY <1>5 DEF Revoke, NoRow, TypeOK, TokensOnlyLeave
<1>6. ASSUME NEW p \in Pools, RevokePoolWrites(p) PROVE TokensOnlyLeave /\ spent' = spent
  BY <1>6 DEF RevokePoolWrites, NoRow, TypeOK, TokensOnlyLeave
<1>7. ASSUME NEW r \in Row PROVE [r EXCEPT !.status = "offline"].token = r.token
  BY DEF Row, NoRow
<1>8. ASSUME NEW s \in Sessions, Disconnect(s) PROVE TokensOnlyLeave /\ spent' = spent
  <2>1. ASSUME NEW w \in Workers PROVE rows'[w].token = rows[w].token
    <3>1. rows[w] \in Row
      BY DEF TypeOK
    <3>2. rows'[w] \in {rows[w], [rows[w] EXCEPT !.status = "offline"]}
      BY <1>8 DEF Disconnect, Disconnected, TypeOK
    <3> QED BY <1>7, <3>1, <3>2
  <2> QED BY <1>8, <2>1 DEF Disconnect, TokensOnlyLeave
<1>9. ASSUME Restart PROVE TokensOnlyLeave /\ spent' = spent
  <2>1. ASSUME NEW w \in Workers PROVE rows'[w].token = rows[w].token
    <3>1. rows[w] \in Row
      BY DEF TypeOK
    <3>2. rows'[w] \in {rows[w], [rows[w] EXCEPT !.status = "offline"]}
      BY <1>9 DEF Restart
    <3> QED BY <1>7, <3>1, <3>2
  <2> QED BY <1>9, <2>1 DEF Restart, TokensOnlyLeave
<1>10. ASSUME \/ UNCHANGED vars
              \/ \E w \in Workers : \/ Start(w) \/ Stop(w)
                                    \/ Welcome(w) \/ LinkBreaks(w) \/ SlotRetries(w)
              \/ \E p \in Pools : \/ RevokePoolReads(p) \/ StartPool(p)
                                  \/ WelcomePool(p) \/ StopPool(p)
              \/ \E t \in Tokens : TokenExpires(t)
       PROVE  TokensOnlyLeave /\ spent' = spent
  BY <1>10 DEF vars, dbVars, Start, Stop, Welcome, LinkBreaks, SlotRetries, RevokePoolReads,
               StartPool, WelcomePool, StopPool, TokenExpires, TokensOnlyLeave
<1> QED BY <1>1, <1>2, <1>3, <1>4, <1>5, <1>6, <1>8, <1>9, <1>10,
           LeavingKeepsApart, LeavingKeepsSpent DEF Next

(* A token that let a worker or a pool in, whether or not the answer       *)
(* arrived, never lets anybody in again.                                   *)
THEOREM SpentOnce == Spec => []TokensAreSpentOnce
<1>1. TypeOK /\ (TokensApart /\ TokensAreSpentOnce) /\ [Next]_vars
          => (TokensApart /\ TokensAreSpentOnce)'
  BY NextTokens
<1> QED BY <1>1, InitTokens, TypeCorrect, PTL DEF Spec

-----------------------------------------------------------------------------
(* Sessions are durable as long as welcomes arrive.                        *)

(* What a client holds of the session its row names, at each step of a     *)
(* connection.  A worker of Lossy loses it at LinkBreaks: an accepted      *)
(* client still holds what its row no longer names.                        *)
ClientsHoldSessions ==
    \A w \in Workers \ Lossy :
        LET c == clients[w] IN
        rows[w].session # None =>
            /\ c.pc = "idle" => c.credential = rows[w].session
                                \/ (w \in Slots /\ c.credential = w)
            /\ c.pc = "accepted" => c.link = rows[w].session
            /\ c.pc = "serving" => c.credential = rows[w].session

(* In the beginning no client runs.                                        *)
LEMMA InitHold == Init => ClientsHoldSessions
BY DEF Init, Down, ClientsHoldSessions

(* Each step keeps what a client holds equal to what its row names, or     *)
(* falls back to the token of the slot.                                    *)
LEMMA NextHold == TypeOK /\ ClientsHoldSessions /\ [Next]_vars => ClientsHoldSessions'
<1> SUFFICES ASSUME TypeOK, ClientsHoldSessions, [Next]_vars PROVE ClientsHoldSessions'
  OBVIOUS
<1> DEFINE Holds(c, r, w) ==
               r.session # None =>
                   /\ c.pc = "idle" => c.credential = r.session \/ (w \in Slots /\ c.credential = w)
                   /\ c.pc = "accepted" => c.link = r.session
                   /\ c.pc = "serving" => c.credential = r.session
<1>0. \A w \in Workers \ Lossy : Holds(clients[w], rows[w], w)
  BY DEF ClientsHoldSessions
<1>q. (\A w \in Workers \ Lossy : Holds(clients'[w], rows'[w], w)) => ClientsHoldSessions'
  BY DEF ClientsHoldSessions
<1>rows. ASSUME clients' = clients,
                \A w \in Workers : rows'[w].session \in {rows[w].session, None}
         PROVE  ClientsHoldSessions'
  BY <1>0, <1>q, <1>rows
<1>off. ASSUME NEW r \in Row PROVE [r EXCEPT !.status = "offline"].session = r.session
  BY DEF Row, NoRow
<1>1. ASSUME NEW w \in Workers, NEW t \in Tokens, Mint(w, t) PROVE ClientsHoldSessions'
  <2>1. rows'[w].session = None
    <3>1. rows[w] \in Row /\ rows[w].session = None
      BY <1>1 DEF Mint, MayBeMinted, TypeOK
    <3>2. rows'[w] = [rows[w] EXCEPT !.token = t, !.status = "minted"]
      BY <1>1 DEF Mint, TypeOK
    <3> QED BY <3>1, <3>2 DEF Row, NoRow
  <2>2. \A v \in Workers : v # w => rows'[v] = rows[v]
    BY <1>1 DEF Mint, TypeOK
  <2> QED BY <1>1, <1>rows, <2>1, <2>2 DEF Mint
<1>2. ASSUME NEW w \in Workers, NEW s \in Sessions, Accept(w, s) PROVE ClientsHoldSessions'
  <2>1. rows'[w].session = s /\ \A v \in Workers : v # w => rows'[v] = rows[v]
    BY <1>2 DEF Accept, Connected, TypeOK
  <2>2. \A v \in Workers : v # w => clients'[v] = clients[v]
    BY <1>2 DEF Accept, TypeOK
  <2>3. clients'[w].pc = "accepted" /\ clients'[w].link = s
    <3>1. clients[w] \in [pc : {"idle"}, credential : Credential, link : {None}]
      BY <1>2 DEF Accept, TypeOK, Client, Down
    <3>2. clients'[w] = [clients[w] EXCEPT !.pc = "accepted", !.link = s]
      BY <1>2 DEF Accept, TypeOK
    <3> QED BY <3>1, <3>2
  <2>4. \A v \in Workers \ Lossy : Holds(clients'[v], rows'[v], v)
    BY <1>0, <2>1, <2>2, <2>3
  <2> QED BY <1>q, <2>4
<1>3. ASSUME NEW w \in Workers, Revoke(w) PROVE ClientsHoldSessions'
  <2>1. \A v \in Workers : rows'[v].session \in {rows[v].session, None}
    BY <1>3 DEF Revoke, NoRow, TypeOK
  <2> QED BY <1>3, <1>rows, <2>1 DEF Revoke
<1>4. ASSUME NEW p \in Pools, RevokePoolWrites(p) PROVE ClientsHoldSessions'
  <2>1. \A v \in Workers : rows'[v].session \in {rows[v].session, None}
    BY <1>4 DEF RevokePoolWrites, NoRow
  <2> QED BY <1>4, <1>rows, <2>1 DEF RevokePoolWrites
<1>5. ASSUME NEW p \in Pools, Enroll(p) PROVE ClientsHoldSessions'
  <2>1. \A v \in Workers : rows'[v].session \in {rows[v].session, None}
    BY <1>5 DEF Enroll, NoRow
  <2> QED BY <1>5, <1>rows, <2>1 DEF Enroll
<1>6. ASSUME NEW s \in Sessions, Disconnect(s) PROVE ClientsHoldSessions'
  <2>1. ASSUME NEW v \in Workers PROVE rows'[v].session = rows[v].session
    <3>1. rows[v] \in Row /\ rows'[v] \in {rows[v], [rows[v] EXCEPT !.status = "offline"]}
      BY <1>6 DEF Disconnect, Disconnected, TypeOK
    <3> QED BY <1>off, <3>1
  <2> QED BY <1>6, <1>rows, <2>1 DEF Disconnect
<1>7. ASSUME Restart PROVE ClientsHoldSessions'
  <2>1. ASSUME NEW v \in Workers PROVE rows'[v].session = rows[v].session
    <3>1. rows[v] \in Row /\ rows'[v] \in {rows[v], [rows[v] EXCEPT !.status = "offline"]}
      BY <1>7 DEF Restart, TypeOK
    <3> QED BY <1>off, <3>1
  <2> QED BY <1>7, <1>rows, <2>1 DEF Restart
<1>8. ASSUME NEW w \in Workers, Start(w) PROVE ClientsHoldSessions'
  <2>1. PICK c \in {rows[w].token, rows[w].session} \ {None} :
            clients' = [clients EXCEPT ![w] = Idle(c)]
    BY <1>8 DEF Start
  <2>2. rows[w].session # None => c = rows[w].session
    <3>1. rows[w] \in Row
      BY DEF TypeOK
    <3>2. rows[w].session # None => rows[w].token = None
      BY <3>1, RowTypes
    <3> QED BY <2>1, <3>2
  <2>3. clients'[w] = Idle(c) /\ \A v \in Workers : v # w => clients'[v] = clients[v]
    BY <2>1 DEF TypeOK
  <2>4. rows' = rows
    BY <1>8 DEF Start, dbVars
  <2> QED BY <1>0, <1>q, <2>2, <2>3, <2>4 DEF Idle
<1>9. ASSUME NEW w \in Workers, Stop(w) PROVE ClientsHoldSessions'
  <2>1. clients'[w] = Down /\ \A v \in Workers : v # w => clients'[v] = clients[v]
    BY <1>9 DEF Stop, TypeOK
  <2> QED BY <1>0, <1>9, <1>q, <2>1 DEF Stop, dbVars, Down
<1>10. ASSUME NEW w \in Workers, Welcome(w) PROVE ClientsHoldSessions'
  <2>1. clients[w].pc = "accepted" /\ \A v \in Workers : v # w => clients'[v] = clients[v]
    BY <1>10 DEF Welcome, TypeOK
  <2>2. clients'[w].pc = "serving" /\ clients'[w].credential = clients[w].link
    <3>1. clients[w] \in [pc : {"accepted"}, credential : Credential, link : Sessions]
      BY <2>1 DEF TypeOK, Client, Down
    <3>2. clients'[w] = [clients[w] EXCEPT !.pc = "serving", !.credential = clients[w].link]
      BY <1>10 DEF Welcome, TypeOK
    <3> QED BY <3>1, <3>2
  <2>3. rows' = rows
    BY <1>10 DEF Welcome, dbVars
  <2> QED BY <1>0, <1>q, <2>1, <2>2, <2>3
<1>11. ASSUME NEW w \in Workers, LinkBreaks(w) PROVE ClientsHoldSessions'
  <2>1. w \notin Lossy => clients[w].pc = "serving"
    BY <1>11 DEF LinkBreaks
  <2>2. /\ clients'[w] = Idle(clients[w].credential)
        /\ \A v \in Workers : v # w => clients'[v] = clients[v]
    BY <1>11 DEF LinkBreaks, TypeOK
  <2>3. rows' = rows
    BY <1>11 DEF LinkBreaks, dbVars
  <2> QED BY <1>0, <1>q, <2>1, <2>2, <2>3 DEF Idle
<1>12. ASSUME NEW w \in Workers, SlotRetries(w) PROVE ClientsHoldSessions'
  <2>1. /\ w \in Slots /\ clients'[w] = Idle(w)
        /\ \A v \in Workers : v # w => clients'[v] = clients[v]
    BY <1>12 DEF SlotRetries, TypeOK
  <2>2. rows' = rows
    BY <1>12 DEF SlotRetries, dbVars
  <2> QED BY <1>0, <1>q, <2>1, <2>2 DEF Idle
<1>13. ASSUME NEW p \in Pools, rows' = rows,
              \/ clients' = clients
              \/ clients' = Running(p)
              \/ clients' = [w \in Workers |-> IF w \in SlotsOf(p) THEN Down ELSE clients[w]]
       PROVE  ClientsHoldSessions'
  <2>1. \A w \in Workers : clients'[w] \in {clients[w], Down}
                           \/ (w \in Slots /\ clients'[w] = Idle(w))
    BY <1>13 DEF Running, SlotsOf
  <2>2. ASSUME NEW w \in Workers \ Lossy PROVE Holds(clients'[w], rows'[w], w)
    <3>1. CASE clients'[w] = clients[w]
      BY <1>0, <1>13, <3>1
    <3>2. CASE clients'[w] = Down
      BY <3>2 DEF Down
    <3>3. CASE w \in Slots /\ clients'[w] = Idle(w)
      BY <3>3 DEF Idle
    <3> QED BY <2>1, <3>1, <3>2, <3>3
  <2> HIDE DEF Holds
  <2> QED BY <1>q, <2>2
<1>14. ASSUME NEW p \in Pools, StartPool(p) \/ WelcomePool(p) \/ StopPool(p)
       PROVE  ClientsHoldSessions'
  BY <1>13, <1>14 DEF StartPool, WelcomePool, StopPool, dbVars
<1>15. ASSUME \/ UNCHANGED vars
              \/ \E p \in Pools : (\E t \in Tokens : MintPool(p, t)) \/ RevokePoolReads(p)
              \/ \E t \in Tokens : TokenExpires(t)
       PROVE  ClientsHoldSessions'
  <2>1. rows' = rows /\ clients' = clients
    BY <1>15 DEF vars, MintPool, RevokePoolReads, TokenExpires
  <2> QED BY <1>rows, <2>1
<1> QED BY <1>1, <1>2, <1>3, <1>4, <1>5, <1>6, <1>7, <1>8, <1>9, <1>10, <1>11, <1>12,
           <1>14, <1>15 DEF Next

(* A client that holds the session of its row, or the token of its slot,   *)
(* is recognised.                                                          *)
LEMMA HeldIsRecognised == TypeOK /\ ClientsHoldSessions => AcceptedClientsStayKnown
<1> SUFFICES ASSUME TypeOK, ClientsHoldSessions, NEW w \in Workers \ Lossy,
                    clients[w].pc = "idle", Exists(w), rows[w].session # None
             PROVE  Recognised(w)
  BY DEF AcceptedClientsStayKnown, KnowsIfAccepted
<1>1. rows[w].session \in Sessions
  BY RowTypes DEF TypeOK
<1>2. clients[w].credential = rows[w].session \/ (w \in Slots /\ clients[w].credential = w)
  BY DEF ClientsHoldSessions
<1> QED BY <1>1, <1>2 DEF Recognised

(* No interleaving of broken connections, restarts of the server, of a     *)
(* pool or of a client leaves a client whose worker was accepted, and      *)
(* whose welcomes arrive, without a credential that the server knows.      *)
THEOREM AcceptedStayKnown == Spec => []AcceptedClientsStayKnown
BY InitHold, NextHold, HeldIsRecognised, TypeCorrect, PTL DEF Spec
-----------------------------------------------------------------------------
(* Induction: the library states it for a predicate, here it is for a set. *)

(* Induction over the naturals, with the set G of those that satisfy it.   *)
LEMMA Induction ==
    ASSUME NEW G, 0 \in G, \A n \in Nat : n \in G => n + 1 \in G
    PROVE  \A n \in Nat : n \in G
<1> DEFINE R == OpToRel(<, Nat)
           T == {n \in Nat : n \notin G}
<1>1. IsWellFoundedOn(R, Nat)
  BY NatLessThanWellFounded
<1>2. \A x, y \in Nat : <<x, y>> \in R <=> x < y
  BY DEF OpToRel
<1> HIDE DEF R
<1>3. ASSUME T # {} PROVE FALSE
  <2>0. T \subseteq Nat
    OBVIOUS
  <2>1. PICK x \in T : \A y \in T : ~ (<<y, x>> \in R)
    <3> HIDE DEF T
    <3> QED BY <1>1, <1>3, <2>0, WFMin
  <2>2. x \in Nat /\ x # 0
    OBVIOUS
  <2>3. x - 1 \in Nat /\ x - 1 < x /\ (x - 1) + 1 = x
    BY <2>2
  <2>4. x - 1 \notin G
    BY <2>3
  <2>5. <<x - 1, x>> \in R
    BY <1>2, <2>2, <2>3
  <2> QED BY <2>1, <2>3, <2>4, <2>5
<1> QED BY <1>3

(* The same over the subsets of a finite set.                              *)
LEMMA SubsetInduction ==
    ASSUME NEW S, IsFiniteSet(S), NEW G,
           \A T \in SUBSET S : (\A U \in SUBSET T : U # T => U \in G) => T \in G
    PROVE  \A T \in SUBSET S : T \in G
<1> DEFINE R == StrictSubsetOrdering(S)
           B == {T \in SUBSET S : T \notin G}
<1>1. IsWellFoundedOn(R, SUBSET S)
  BY FS_StrictSubsetOrderingWellFounded, FS_FiniteSubsetsOfFinite
<1>2. \A u, s \in SUBSET S : <<u, s>> \in R <=> u \subseteq s /\ u # s
  BY DEF StrictSubsetOrdering
<1> HIDE DEF R
<1>3. ASSUME B # {} PROVE FALSE
  <2>1. B \subseteq SUBSET S
    OBVIOUS
  <2>2. PICK T \in B : \A U \in B : ~ (<<U, T>> \in R)
    <3> HIDE DEF B
    <3> QED BY <1>1, <1>3, <2>1, WFMin
  <2>3. ASSUME NEW U \in SUBSET T, U # T PROVE U \in G
    <3>1. U \in SUBSET S /\ T \in SUBSET S
      BY <2>3
    <3>2. <<U, T>> \in R
      BY <1>2, <2>3, <3>1
    <3> QED BY <2>2, <3>1, <3>2
  <2> QED BY <2>3
<1> QED BY <1>3

-----------------------------------------------------------------------------
(* Sums of threads.  ThreadsOf is a fold of the library: a function on the *)
(* subsets of a set, chosen to satisfy its recursive equation.             *)
Pick(s) == CHOOSE x \in s : TRUE
IsSum(h, S) ==
    h = [s \in SUBSET S |-> IF s = {} THEN 0 ELSE Threads[Pick(s)] + h[s \ {Pick(s)}]]

(* The fold takes out one element after the other, ...                     *)
LEMMA PickIn == \A s : s # {} => Pick(s) \in s
BY DEF Pick

(* ... which makes the set smaller, ...                                    *)
LEMMA Smaller ==
    ASSUME NEW S, IsFiniteSet(S), NEW s \in SUBSET S, s # {}
    PROVE  /\ Cardinality(s) \in Nat /\ Cardinality(s) # 0
           /\ Cardinality(s \ {Pick(s)}) = Cardinality(s) - 1
           /\ s \ {Pick(s)} \in SUBSET S
<1>1. IsFiniteSet(s)
  BY FS_Subset
<1> QED BY <1>1, FS_CardinalityType, FS_EmptySet, FS_RemoveElement, PickIn

(* ... and so some function satisfies the equation: by induction on the    *)
(* size of the sets on which it does.                                      *)
LEMMA SumExists ==
    ASSUME NEW S, IsFiniteSet(S)
    PROVE  \E h : IsSum(h, S)
<1> DEFINE F(h, s) == IF s = {} THEN 0 ELSE Threads[Pick(s)] + h[s \ {Pick(s)}]
           Good(n) == \E h : \A s \in SUBSET S : Cardinality(s) <= n => h[s] = F(h, s)
           G == {n \in Nat : Good(n)}
<1>0. \A s \in SUBSET S : Cardinality(s) \in Nat /\ (Cardinality(s) = 0 => s = {})
  BY FS_Subset, FS_CardinalityType, FS_EmptySet
<1>1. 0 \in G
  <2> DEFINE g == [s \in SUBSET S |-> 0]
  <2>1. \A s \in SUBSET S : Cardinality(s) <= 0 => g[s] = F(g, s)
    BY <1>0
  <2> HIDE DEF g
  <2> QED BY <2>1
<1>2. ASSUME NEW n \in Nat, n \in G PROVE n + 1 \in G
  <2>1. PICK h : \A s \in SUBSET S : Cardinality(s) <= n => h[s] = F(h, s)
    BY <1>2
  <2> DEFINE g == [s \in SUBSET S |-> IF Cardinality(s) <= n THEN h[s] ELSE F(h, s)]
  <2>2. ASSUME NEW s \in SUBSET S, Cardinality(s) <= n + 1 PROVE g[s] = F(g, s)
    <3>1. g[s] = F(h, s)
      BY <2>1
    <3>2. CASE s = {}
      BY <3>1, <3>2
    <3>3. CASE s # {}
      <4>1. s \ {Pick(s)} \in SUBSET S /\ Cardinality(s \ {Pick(s)}) <= n
        BY <2>2, <3>3, Smaller
      <4>2. g[s \ {Pick(s)}] = h[s \ {Pick(s)}]
        BY <4>1
      <4> HIDE DEF g
      <4> QED BY <3>1, <3>3, <4>2
    <3> QED BY <3>2, <3>3
  <2>3. Good(n + 1)
    <3> HIDE DEF g
    <3> QED BY <2>2
  <2>4. n + 1 \in Nat
    OBVIOUS
  <2> HIDE DEF Good
  <2> QED BY <2>3, <2>4
<1>3. Good(Cardinality(S))
  <2> HIDE DEF Good
  <2>1. \A n \in Nat : n \in G
    <3> HIDE DEF G
    <3> QED BY <1>1, <1>2, Induction
  <2> QED BY <2>1, FS_CardinalityType
<1>4. PICK h : \A s \in SUBSET S : Cardinality(s) <= Cardinality(S) => h[s] = F(h, s)
  BY <1>3
<1> DEFINE g == [s \in SUBSET S |-> h[s]]
<1>5. \A s \in SUBSET S : h[s] = F(h, s)
  BY <1>4, FS_Subset
<1>6. \A s \in SUBSET S : F(g, s) = F(h, s)
  OBVIOUS
<1>7. g = [s \in SUBSET S |-> F(g, s)]
  BY <1>5, <1>6
<1> HIDE DEF g
<1> QED BY <1>7 DEF IsSum

(* The fold is such a function.                                            *)
LEMMA ThreadsOfIsSum ==
    ASSUME NEW S, IsFiniteSet(S)
    PROVE  \E h : IsSum(h, S) /\ ThreadsOf(S) = h[S]
<1> DEFINE g == CHOOSE h : IsSum(h, S)
<1>1. IsSum(g, S)
  BY SumExists
<1>2. ThreadsOf(S) = g[S]
  BY DEF ThreadsOf, MapThenSumSet, MapThenFoldSet, Pick, IsSum
<1> HIDE DEF g
<1> QED BY <1>1, <1>2

(* Two such functions, of a set and of a subset, agree on the subset.      *)
LEMMA SumsAgree ==
    ASSUME NEW S, IsFiniteSet(S), NEW T \in SUBSET S,
           NEW h, IsSum(h, S), NEW k, IsSum(k, T)
    PROVE  h[T] = k[T]
<1> DEFINE G == {s \in SUBSET T : h[s] = k[s]}
<1>1. ASSUME NEW s \in SUBSET T, \A u \in SUBSET s : u # s => u \in G
      PROVE  s \in G
  <2>1. s \in SUBSET S
    OBVIOUS
  <2>2. CASE s = {}
    BY <2>1, <2>2 DEF IsSum
  <2>3. CASE s # {}
    <3>1. s \ {Pick(s)} \in SUBSET s /\ s \ {Pick(s)} # s
      BY <2>3, PickIn
    <3>2. h[s \ {Pick(s)}] = k[s \ {Pick(s)}]
      BY <1>1, <3>1
    <3>3. h[s] = Threads[Pick(s)] + h[s \ {Pick(s)}] /\ k[s] = Threads[Pick(s)] + k[s \ {Pick(s)}]
      BY <2>1, <2>3 DEF IsSum
    <3> QED BY <3>2, <3>3
  <2> QED BY <2>2, <2>3
<1>2. IsFiniteSet(T)
  BY FS_Subset
<1>3. T \in G
  <2> HIDE DEF G
  <2> QED BY <1>1, <1>2, SubsetInduction
<1> QED BY <1>3

(* Nobody has no threads, and one element counts with the rest.            *)
LEMMA SumOfNothing == ThreadsOf({}) = 0
BY FS_EmptySet, ThreadsOfIsSum DEF IsSum

LEMMA SumPicks ==
    ASSUME NEW S, IsFiniteSet(S), S # {}
    PROVE  ThreadsOf(S) = Threads[Pick(S)] + ThreadsOf(S \ {Pick(S)})
<1> DEFINE U == S \ {Pick(S)}
<1>1. U \in SUBSET S /\ IsFiniteSet(U)
  BY FS_Subset
<1>2. PICK h : IsSum(h, S) /\ ThreadsOf(S) = h[S]
  BY ThreadsOfIsSum
<1>3. PICK k : IsSum(k, U) /\ ThreadsOf(U) = k[U]
  BY <1>1, ThreadsOfIsSum
<1>4. h[U] = k[U]
  <2> HIDE DEF U
  <2> QED BY <1>1, <1>2, <1>3, SumsAgree
<1>5. h[S] = Threads[Pick(S)] + h[U]
  BY <1>2 DEF IsSum
<1> QED BY <1>2, <1>3, <1>4, <1>5

(* A sum of threads is a number.                                           *)
LEMMA SumType ==
    ASSUME NEW S, IsFiniteSet(S), S \subseteq Workers
    PROVE  ThreadsOf(S) \in Nat
<1> DEFINE G == {s \in SUBSET S : ThreadsOf(s) \in Nat}
<1>1. ASSUME NEW s \in SUBSET S, \A u \in SUBSET s : u # s => u \in G
      PROVE  s \in G
  <2>1. CASE s = {}
    BY <2>1, SumOfNothing
  <2>2. CASE s # {}
    <3>1. Pick(s) \in s /\ s \ {Pick(s)} \in SUBSET s /\ s \ {Pick(s)} # s
      BY <2>2, PickIn
    <3>2. ThreadsOf(s \ {Pick(s)}) \in Nat
      BY <1>1, <3>1
    <3>3. IsFiniteSet(s)
      BY FS_Subset
    <3>4. ThreadsOf(s) = Threads[Pick(s)] + ThreadsOf(s \ {Pick(s)})
      BY <2>2, <3>3, SumPicks
    <3>5. Threads[Pick(s)] \in Nat
      BY <3>1, CredentialsAssumption
    <3> QED BY <3>2, <3>4, <3>5
  <2> QED BY <2>1, <2>2
<1>3. S \in G
  <2> HIDE DEF G
  <2> QED BY <1>1, SubsetInduction
<1> QED BY <1>3

(* Any element can be taken out of a sum.                                  *)
LEMMA SumTakes ==
    ASSUME NEW S, IsFiniteSet(S), S \subseteq Workers
    PROVE  \A x \in S : ThreadsOf(S) = Threads[x] + ThreadsOf(S \ {x})
<1> DEFINE G == {s \in SUBSET S : \A x \in s : ThreadsOf(s) = Threads[x] + ThreadsOf(s \ {x})}
<1>1. ASSUME NEW s \in SUBSET S, \A u \in SUBSET s : u # s => u \in G
      PROVE  s \in G
  <2> SUFFICES ASSUME NEW x \in s PROVE ThreadsOf(s) = Threads[x] + ThreadsOf(s \ {x})
    OBVIOUS
  <2> DEFINE p == Pick(s)
  <2>1. /\ p \in s
        /\ IsFiniteSet(s) /\ IsFiniteSet(s \ {p}) /\ IsFiniteSet(s \ {x})
        /\ IsFiniteSet((s \ {p}) \ {x})
    BY PickIn, FS_Subset
  <2>2. ThreadsOf(s) = Threads[p] + ThreadsOf(s \ {p})
    BY <2>1, SumPicks
  <2> HIDE DEF p
  <2>3. CASE x = p
    BY <2>2, <2>3
  <2>4. CASE x # p
    <3>1. s \ {p} \in G /\ s \ {x} \in G
      BY <1>1, <2>1
    <3>2. ThreadsOf(s \ {p}) = Threads[x] + ThreadsOf((s \ {p}) \ {x})
      BY <2>4, <3>1
    <3>3. ThreadsOf(s \ {x}) = Threads[p] + ThreadsOf((s \ {x}) \ {p})
      BY <2>1, <2>4, <3>1
    <3>4. (s \ {p}) \ {x} = (s \ {x}) \ {p}
      OBVIOUS
    <3>5. Threads[x] \in Nat /\ Threads[p] \in Nat /\ ThreadsOf((s \ {p}) \ {x}) \in Nat
      BY <2>1, SumType, CredentialsAssumption
    <3>6. ThreadsOf((s \ {p}) \ {x}) = ThreadsOf((s \ {x}) \ {p})
      BY <3>4
    <3>7. \A i, j, k \in Nat : i + (j + k) = j + (i + k)
      OBVIOUS
    <3> HIDE DEF G
    <3> QED BY <2>2, <3>2, <3>3, <3>5, <3>6, <3>7
  <2> QED BY <2>3, <2>4
<1>3. S \in G
  <2> HIDE DEF G
  <2> QED BY <1>1, SubsetInduction
<1> QED BY <1>3

(* More workers have no fewer threads.                                     *)
LEMMA SumGrows ==
    ASSUME NEW S, IsFiniteSet(S), S \subseteq Workers, NEW T \in SUBSET S
    PROVE  ThreadsOf(T) <= ThreadsOf(S)
<1> DEFINE G == {s \in SUBSET S : T \subseteq s => ThreadsOf(T) <= ThreadsOf(s)}
<1>0. IsFiniteSet(T) /\ \A u \in SUBSET S : IsFiniteSet(u) /\ ThreadsOf(u) \in Nat
  BY FS_Subset, SumType
<1>1. ASSUME NEW s \in SUBSET S, \A u \in SUBSET s : u # s => u \in G
      PROVE  s \in G
  <2>1. CASE s = T \/ ~ (T \subseteq s)
    BY <1>0, <2>1
  <2>2. CASE s # T /\ T \subseteq s
    <3>1. PICK x \in s : x \notin T
      BY <2>2
    <3>2. T \subseteq s \ {x} /\ s \ {x} \in G /\ s \ {x} \in SUBSET S
      BY <1>1, <2>2, <3>1
    <3>3. ThreadsOf(T) <= ThreadsOf(s \ {x})
      BY <3>2
    <3>4. ThreadsOf(s) = Threads[x] + ThreadsOf(s \ {x})
      BY <1>0, SumTakes
    <3>5. Threads[x] \in Nat
      BY <3>1, CredentialsAssumption
    <3> QED BY <1>0, <3>2, <3>3, <3>4, <3>5
  <2> QED BY <2>1, <2>2
<1>3. S \in G
  <2> HIDE DEF G
  <2> QED BY <1>1, SubsetInduction
<1> QED BY <1>3

-----------------------------------------------------------------------------
(* Reservations.                                                           *)

(* ReservationsFit names what Fits counts.                                 *)
LEMMA ReservationsAre == ReservationsFit <=> ThreadsOf(Reserved) <= Cores
BY DEF ReservationsFit, Reserved

(* A step that reserves nothing new, and one that asks first, keep the     *)
(* reservations within the machine.                                        *)
LEMMA StillFits ==
    ASSUME ReservationsFit,
           \/ Reserved' \subseteq Reserved
           \/ \E W \in SUBSET Workers : Fits(W) /\ Reserved' \subseteq Reserved \cup W
    PROVE  ReservationsFit'
<1>1. ASSUME NEW V \in SUBSET Workers, NEW U \in SUBSET V, ThreadsOf(V) <= Cores
      PROVE  ThreadsOf(U) <= Cores
  <2>1. IsFiniteSet(V) /\ IsFiniteSet(U)
    BY FS_Subset, CredentialsAssumption
  <2>2. ThreadsOf(V) \in Nat /\ ThreadsOf(U) \in Nat /\ ThreadsOf(U) <= ThreadsOf(V)
    BY <2>1, SumType, SumGrows
  <2> QED BY <1>1, <2>2, CredentialsAssumption
<1>2. Reserved \in SUBSET Workers
  BY DEF Reserved
<1>3. CASE Reserved' \subseteq Reserved
  <2>1. ThreadsOf(Reserved) <= Cores
    BY ReservationsAre
  <2>2. ThreadsOf(Reserved') <= Cores
    BY <1>1, <1>2, <1>3, <2>1
  <2> QED BY <2>2 DEF ReservationsFit, Reserved
<1>4. ASSUME NEW W \in SUBSET Workers, Fits(W), Reserved' \subseteq Reserved \cup W
      PROVE  ReservationsFit'
  <2>1. ThreadsOf(Reserved \cup W) <= Cores /\ Reserved \cup W \in SUBSET Workers
    BY <1>2, <1>4 DEF Fits
  <2>2. ThreadsOf(Reserved') <= Cores
    BY <1>1, <1>4, <2>1
  <2> QED BY <2>2 DEF ReservationsFit, Reserved
<1> QED BY <1>3, <1>4

(* In the beginning nobody is online and no slot has a row.                *)
LEMMA InitFits == Init => ReservationsFit
<1> SUFFICES ASSUME Init PROVE ReservationsFit
  OBVIOUS
<1>1. Reserved = {}
  BY CredentialsAssumption DEF Init, Reserved, NoRow, Exists, Workers
<1> QED BY <1>1, SumOfNothing, ReservationsAre, CredentialsAssumption

(* Only a hello that is accepted and an enrollment reserve threads, and    *)
(* both ask whether they fit before they write.                            *)
LEMMA NextFits == TypeOK /\ ReservationsFit /\ [Next]_vars => ReservationsFit'
<1> SUFFICES ASSUME TypeOK, ReservationsFit, [Next]_vars PROVE ReservationsFit'
  OBVIOUS
<1> DEFINE Counts(r, w) == r[w].status = "online" \/ (w \in Slots /\ r[w].status # "absent")
<1>0. Reserved = {w \in Workers : Counts(rows, w)} /\ Reserved' = {w \in Workers : Counts(rows', w)}
  BY DEF Reserved, Exists
<1>1. ASSUME \A w \in Workers : Counts(rows', w) => Counts(rows, w) PROVE ReservationsFit'
  BY <1>0, <1>1, StillFits
<1>2. ASSUME NEW w \in Workers, NEW t \in Tokens, Mint(w, t) PROVE ReservationsFit'
  BY <1>1, <1>2, CredentialsAssumption DEF Mint, MayBeMinted, TypeOK, Exists
<1>3. ASSUME NEW w \in Workers, NEW s \in Sessions, Accept(w, s) PROVE ReservationsFit'
  <2>1. Fits({w}) /\ rows' = [rows EXCEPT ![w] = Connected(w, s)]
    BY <1>3 DEF Accept
  <2>2. Reserved' \subseteq Reserved \cup {w}
    BY <1>0, <2>1 DEF TypeOK
  <2> QED BY <2>1, <2>2, StillFits
<1>4. ASSUME NEW w \in Workers, Revoke(w) PROVE ReservationsFit'
  BY <1>1, <1>4 DEF Revoke, TypeOK, NoRow
<1>5. ASSUME NEW p \in Pools, RevokePoolWrites(p) PROVE ReservationsFit'
  BY <1>1, <1>5 DEF RevokePoolWrites, NoRow
<1>6. ASSUME NEW p \in Pools, Enroll(p) PROVE ReservationsFit'
  <2>1. Fits(SlotsOf(p)) /\ \A w \in Workers \ SlotsOf(p) : rows'[w] = rows[w]
    BY <1>6 DEF Enroll
  <2>2. Reserved' \subseteq Reserved \cup SlotsOf(p) /\ SlotsOf(p) \in SUBSET Workers
    BY <1>0, <2>1 DEF SlotsOf, Workers
  <2> QED BY <2>1, <2>2, StillFits
<1>7. ASSUME NEW s \in Sessions, Disconnect(s) PROVE ReservationsFit'
  <2> DEFINE w == coroutines[s]
  <2>1. w \in Workers /\ rows[w] \in Row /\ rows' = [rows EXCEPT ![w] = Disconnected(w, s)]
    BY <1>7 DEF Disconnect, TypeOK
  <2>2. \A r \in Row : [r EXCEPT !.status = "offline"].status = "offline"
    BY DEF Row, NoRow
  <2>3. Disconnected(w, s).status = rows[w].status
        \/ (Disconnected(w, s).status = "offline" /\ Exists(w))
    BY <2>1, <2>2 DEF Disconnected
  <2> HIDE DEF w
  <2> QED BY <1>1, <2>1, <2>3 DEF Exists, TypeOK
<1>8. ASSUME Restart PROVE ReservationsFit'
  <2>1. \A r \in Row : [r EXCEPT !.status = "offline"].status = "offline"
    BY DEF Row, NoRow
  <2> QED BY <1>1, <1>8, <2>1 DEF Restart, TypeOK
<1>9. ASSUME UNCHANGED rows PROVE ReservationsFit'
  BY <1>1, <1>9
<1>10. CASE UNCHANGED vars
  BY <1>9, <1>10 DEF vars
<1> QED
  BY <1>2, <1>3, <1>4, <1>5, <1>6, <1>7, <1>8, <1>9, <1>10
  DEF Next, MintPool, TokenExpires, RevokePoolReads, Start, Stop, Welcome, LinkBreaks,
      SlotRetries, StartPool, WelcomePool, StopPool, dbVars

(* No sequence of enrollments, reconnections, removals and restarts makes  *)
(* the workers' threads more than the machine's cores.                     *)
THEOREM Fit == Spec => []ReservationsFit
BY TypeCorrect, InitFits, NextFits, PTL DEF Spec
=============================================================================
