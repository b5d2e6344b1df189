------------------------------ MODULE Credentials ------------------------------
(***************************************************************************)
(* How workers of one machine are let in, and how they come back.          *)
(*                                                                         *)
(* A single worker is started with a one-time token, or with the session   *)
(* id that the administrators' page shows.  A pool is enrolled with a      *)
(* one-time token of its own, which creates one worker row and one lasting *)
(* slot token per slot; the pool's process keeps them in a file and runs   *)
(* one client per slot.  Whoever is accepted gets a fresh session id, and  *)
(* from then on its client (cope/worker/client.py) greets with that one    *)
(* only.  The server (cope/runner/worker_server.py) commits the session    *)
(* and spends the token before the welcome that tells the client leaves.   *)
(*                                                                         *)
(* The server handles a hello from the authentication to the commit of the *)
(* session without awaiting anything, so no other coroutine comes between; *)
(* that a removal can is the subject of module Dispatch.  Games are left   *)
(* out here, and so are the other machines.                                *)
(***************************************************************************)
EXTENDS Integers, FiniteSets, FiniteSetsExt

CONSTANTS
    Singles,   \* workers that are registered one by one
    Slots,     \* workers that are slots of a pool
    Pools,     \* worker pools
    PoolOf,    \* the pool of each slot
    Threads,   \* assigned_threads of each worker
    Cores,     \* physical cores of the machine
    Tokens,    \* bound: every one-time token that is ever minted
    Sessions,  \* bound: session ids in use at once
    Lossy,     \* workers whose connection may break before the welcome arrives
    None       \* absent token, session, credential or worker

Workers == Singles \cup Slots

ASSUME CredentialsAssumption ==
    /\ IsFiniteSet(Workers) /\ Singles \cap Slots = {}
    /\ PoolOf \in [Slots -> Pools]
    /\ Threads \in [Workers -> Nat] /\ Cores \in Nat
    /\ Lossy \subseteq Workers
    /\ Tokens \cap Sessions = {} /\ (Tokens \cup Sessions) \cap Slots = {}
    /\ None \notin Tokens \cup Sessions \cup Workers

VARIABLES
    rows,        \* the workers table: status, session_id, one-time token
    pools,       \* the worker_pools table: status and enrollment token
    revoking,    \* slots an open revoke_worker_pool has read; None: not open
    spent,       \* one-time tokens that were accepted
    expired,     \* one-time tokens whose time is over
    coroutines,  \* the worker that each session's coroutine serves
    clients,     \* each worker's client process, as it knows itself
    processes,   \* each pool's process, and the token it was started with
    files        \* the pool's state file is written

vars == <<rows, pools, revoking, spent, expired, coroutines, clients, processes, files>>
dbVars == <<rows, pools, revoking, spent, expired>>
poolVars == <<processes, files>>

-----------------------------------------------------------------------------
(* "online" stands for connected, downloading, ready and busy; "absent"    *)
(* for a row that is not, or no longer, there.  Only a worker that never   *)
(* connected has a one-time token.                                         *)
NoRow == [status |-> "absent", session |-> None, token |-> None]
Row == [status : {"minted"}, session : {None}, token : Tokens \cup {None}]
           \cup [status : {"offline", "online"}, session : Sessions \cup {None}, token : {None}]
           \cup {NoRow}
PoolRow == [status : {"pending", "enrolled", "revoked"}, token : Tokens \cup {None}]

(* A credential is a one-time token, a session id or, for a slot's token,  *)
(* the slot.  A client is down, between connections, accepted by the       *)
(* server without knowing it yet, or serving.                              *)
Credential == Tokens \cup Sessions \cup Slots
Down == [pc |-> "down", credential |-> None, link |-> None]
Idle(credential) == [pc |-> "idle", credential |-> credential, link |-> None]
Client == {Down} \cup [pc : {"idle"}, credential : Credential, link : {None}]
                \cup [pc : {"accepted", "serving"}, credential : Credential, link : Sessions]
Stopped == [pc |-> "down", token |-> None]
Process == {Stopped} \cup [pc : {"enrolling", "welcomed"}, token : Tokens]
                    \cup [pc : {"running"}, token : {None}]

SlotsOf(p) == {w \in Slots : PoolOf[w] = p}
Exists(w) == rows[w].status # "absent"

Init ==
    /\ rows = [w \in Workers |->
                  IF w \in Singles THEN [NoRow EXCEPT !.status = "minted"] ELSE NoRow]
    /\ pools = [p \in Pools |-> [status |-> "pending", token |-> None]]
    /\ revoking = [p \in Pools |-> None]
    /\ spent = {} /\ expired = {}
    /\ coroutines = [s \in Sessions |-> None]
    /\ clients = [w \in Workers |-> Down]
    /\ processes = [p \in Pools |-> Stopped]
    /\ files = [p \in Pools |-> FALSE]

-----------------------------------------------------------------------------
(* The administrator.                                                      *)

Unused(t) ==
    /\ t \notin spent \cup expired
    /\ \A w \in Workers : rows[w].token # t /\ clients[w].credential # t
    /\ \A p \in Pools : pools[p].token # t /\ processes[p].token # t

(* mint_worker_token_for_worker: only a worker that never connected.       *)
MayBeMinted_Again(w) == w \in Singles /\ Exists(w)
MayBeMinted(w) == w \in Singles /\ Exists(w) /\ rows[w].session = None
Mint(w, t) ==
    /\ MayBeMinted(w)
    /\ Unused(t)
    /\ rows' = [rows EXCEPT ![w].token = t, ![w].status = "minted"]
    /\ UNCHANGED <<pools, revoking, spent, expired, coroutines, clients, poolVars>>

MintPool(p, t) ==
    /\ pools[p].status = "pending"
    /\ Unused(t)
    /\ pools' = [pools EXCEPT ![p].token = t]
    /\ UNCHANGED <<rows, revoking, spent, expired, coroutines, clients, poolVars>>

TokenExpires(t) ==
    /\ t \notin spent \cup expired
    /\ expired' = expired \cup {t}
    /\ UNCHANGED <<rows, pools, revoking, spent, coroutines, clients, poolVars>>

(* revoke_worker, and delete_worker for a single one.                      *)
Revoke(w) ==
    /\ Exists(w)
    /\ rows' = [rows EXCEPT ![w] = NoRow]
    /\ UNCHANGED <<pools, revoking, spent, expired, coroutines, clients, poolVars>>

(* revoke_worker_pool reads the pool's slots, ...                          *)
RevokePoolReads(p) ==
    /\ revoking[p] = None
    /\ revoking' = [revoking EXCEPT ![p] = {w \in SlotsOf(p) : Exists(w)}]
    /\ UNCHANGED <<rows, pools, spent, expired, coroutines, clients, poolVars>>

(* ... removes those, and then revokes the pool.                           *)
RevokePoolWrites(p) ==
    /\ revoking[p] # None
    /\ rows' = [w \in Workers |-> IF w \in revoking[p] THEN NoRow ELSE rows[w]]
    /\ pools' = [pools EXCEPT ![p] = [status |-> "revoked", token |-> None]]
    /\ revoking' = [revoking EXCEPT ![p] = None]
    /\ UNCHANGED <<spent, expired, coroutines, clients, poolVars>>

-----------------------------------------------------------------------------
(* The worker server.                                                      *)

(* _validate_worker_resources and enroll_worker_pool count what is online  *)
(* on the machine and every slot of a pool, online or not.                 *)
Reserved_OnlineOnly == {w \in Workers : rows[w].status = "online"}
Reserved == {w \in Workers : rows[w].status = "online" \/ (w \in Slots /\ Exists(w))}
ThreadsOf(W) == MapThenSumSet(LAMBDA w : Threads[w], W)
Fits(W) == ThreadsOf(Reserved \cup W) <= Cores

(* _authenticate_worker.                                                   *)
Recognised_ConnectedOnly(w) ==
    LET c == clients[w].credential IN
    /\ Exists(w)
    /\ \/ c \in Tokens /\ rows[w].token = c /\ c \notin expired
       \/ c \in Sessions /\ rows[w].session = c /\ rows[w].status = "online"
       \/ c \in Slots /\ c = w
Recognised(w) ==
    LET c == clients[w].credential IN
    /\ Exists(w)
    /\ \/ c \in Tokens /\ rows[w].token = c /\ c \notin expired
       \/ c \in Sessions /\ rows[w].session = c
       \/ c \in Slots /\ c = w

Fresh(s) ==
    /\ coroutines[s] = None
    /\ \A w \in Workers : s \notin {rows[w].session, clients[w].credential, clients[w].link}

(* upsert_worker_connection: the new session replaces the old one and the  *)
(* one-time token.                                                         *)
Connected_KeepsToken(w, s) == [rows[w] EXCEPT !.status = "online", !.session = s]
Connected(w, s) == [status |-> "online", session |-> s, token |-> None]

(* A hello: _authenticate_worker and _record_connection.  A client that is *)
(* refused stays as it is and tries again.                                 *)
Accept(w, s) ==
    /\ clients[w].pc = "idle"
    /\ Recognised(w) /\ Fits({w}) /\ Fresh(s)
    /\ rows' = [rows EXCEPT ![w] = Connected(w, s)]
    /\ spent' = spent \cup ({clients[w].credential} \cap Tokens)
    /\ coroutines' = [coroutines EXCEPT ![s] = w]
    /\ clients' = [clients EXCEPT ![w].pc = "accepted", ![w].link = s]
    /\ UNCHANGED <<pools, revoking, expired, poolVars>>

(* The coroutine of a session ends, because the connection broke or a call *)
(* found the session superseded: disconnect_worker.                        *)
Disconnected_AnySession(w, s) == [rows[w] EXCEPT !.status = "offline"]
Disconnected(w, s) ==
    IF Exists(w) /\ rows[w].session = s
    THEN [rows[w] EXCEPT !.status = "offline"] ELSE rows[w]
Disconnect(s) ==
    LET w == coroutines[s] IN
    /\ w # None
    /\ coroutines' = [coroutines EXCEPT ![s] = None]
    /\ rows' = [rows EXCEPT ![w] = Disconnected(w, s)]
    /\ UNCHANGED <<pools, revoking, spent, expired, clients, poolVars>>

(* The server is gone with all its coroutines, and is started again:       *)
(* reset_orphaned_worker_connections.                                      *)
Restart ==
    /\ coroutines # [s \in Sessions |-> None]
    /\ coroutines' = [s \in Sessions |-> None]
    /\ rows' = [w \in Workers |-> IF rows[w].status = "online"
                                  THEN [rows[w] EXCEPT !.status = "offline"] ELSE rows[w]]
    /\ UNCHANGED <<pools, revoking, spent, expired, clients, poolVars>>

(* _enroll_worker_pool: the slots' rows and tokens exist from here on.     *)
Enroll(p) ==
    LET t == processes[p].token IN
    /\ processes[p].pc = "enrolling"
    /\ pools[p] = [status |-> "pending", token |-> t] /\ t \notin expired
    /\ Fits(SlotsOf(p))
    /\ rows' = [w \in Workers |-> IF w \in SlotsOf(p)
                                  THEN [NoRow EXCEPT !.status = "offline"] ELSE rows[w]]
    /\ pools' = [pools EXCEPT ![p] = [status |-> "enrolled", token |-> None]]
    /\ spent' = spent \cup {t}
    /\ processes' = [processes EXCEPT ![p].pc = "welcomed"]
    /\ UNCHANGED <<revoking, expired, coroutines, clients, files>>

-----------------------------------------------------------------------------
(* Clients.                                                                *)

(* The operator starts a single worker with what the page shows: its token *)
(* or its session id.                                                      *)
Start(w) ==
    /\ w \in Singles /\ clients[w].pc = "down"
    /\ \E c \in {rows[w].token, rows[w].session} \ {None} :
           clients' = [clients EXCEPT ![w] = Idle(c)]
    /\ UNCHANGED <<dbVars, coroutines, poolVars>>

Stop(w) ==
    /\ w \in Singles /\ clients[w].pc # "down"
    /\ clients' = [clients EXCEPT ![w] = Down]
    /\ UNCHANGED <<dbVars, coroutines, poolVars>>

(* The welcome arrives: _run_worker_connection keeps the session's id.     *)
Welcome(w) ==
    /\ clients[w].pc = "accepted"
    /\ clients' = [clients EXCEPT ![w].pc = "serving", ![w].credential = clients[w].link]
    /\ UNCHANGED <<dbVars, coroutines, poolVars>>

(* The connection breaks: run_worker_client connects again, with the       *)
(* credential that _connection_config chooses.                             *)
LinkBreaks(w) ==
    /\ clients[w].pc = "serving" \/ (clients[w].pc = "accepted" /\ w \in Lossy)
    /\ clients' = [clients EXCEPT ![w] = Idle(clients[w].credential)]
    /\ UNCHANGED <<dbVars, coroutines, poolVars>>

(* Any other exception, of serving or of connecting (a proxy answers in    *)
(* the server's place), ends run_worker_client; _run_slot starts it anew.  *)
SlotRetries(w) ==
    /\ w \in Slots /\ clients[w].pc \in {"idle", "serving"}
    /\ clients' = [clients EXCEPT ![w] = Idle(w)]
    /\ UNCHANGED <<dbVars, coroutines, poolVars>>

(* A pool's process is started: with its state file, or to be enrolled.    *)
Running(p) == [w \in Workers |-> IF w \in SlotsOf(p) THEN Idle(w) ELSE clients[w]]
StartPool(p) ==
    /\ processes[p].pc = "down"
    /\ \/ /\ files[p]
          /\ processes' = [processes EXCEPT ![p].pc = "running"]
          /\ clients' = Running(p)
       \/ /\ ~files[p] /\ pools[p].token # None
          /\ processes' = [processes EXCEPT ![p] = [pc |-> "enrolling", token |-> pools[p].token]]
          /\ UNCHANGED clients
    /\ UNCHANGED <<dbVars, coroutines, files>>

(* pool_welcome arrives: _write_state replaces the file in one step.       *)
WelcomePool(p) ==
    /\ processes[p].pc = "welcomed"
    /\ files' = [files EXCEPT ![p] = TRUE]
    /\ processes' = [processes EXCEPT ![p] = [pc |-> "running", token |-> None]]
    /\ clients' = Running(p)
    /\ UNCHANGED <<dbVars, coroutines>>

(* The process dies at any time, also because its enrollment is refused or *)
(* pool_welcome does not arrive.                                           *)
StopPool(p) ==
    /\ processes[p].pc # "down"
    /\ processes' = [processes EXCEPT ![p] = Stopped]
    /\ clients' = [w \in Workers |-> IF w \in SlotsOf(p) THEN Down ELSE clients[w]]
    /\ UNCHANGED <<dbVars, coroutines, files>>

-----------------------------------------------------------------------------
Next ==
    \/ \E w \in Workers : \/ \E t \in Tokens : Mint(w, t)
                          \/ \E s \in Sessions : Accept(w, s)
                          \/ Revoke(w) \/ Start(w) \/ Stop(w)
                          \/ Welcome(w) \/ LinkBreaks(w) \/ SlotRetries(w)
    \/ \E p \in Pools : \/ \E t \in Tokens : MintPool(p, t)
                        \/ RevokePoolReads(p) \/ RevokePoolWrites(p)
                        \/ Enroll(p) \/ StartPool(p) \/ WelcomePool(p) \/ StopPool(p)
    \/ \E t \in Tokens : TokenExpires(t)
    \/ \E s \in Sessions : Disconnect(s)
    \/ Restart

Spec == Init /\ [][Next]_vars

(* Both ends notice a connection that is no more (by closing it or by      *)
(* pings), clients try again for ever and the server answers.  No client   *)
(* or pool has to be started, and no connection has to break.              *)
Fairness ==
    /\ \A w \in Workers :
          /\ WF_vars(\E s \in Sessions : Accept(w, s))
          /\ WF_vars(Welcome(w))
          /\ WF_vars(clients[w].link # None /\ coroutines[clients[w].link] # w /\ LinkBreaks(w))
    /\ \A s \in Sessions :
          WF_vars(coroutines[s] # None /\ clients[coroutines[s]].link # s /\ Disconnect(s))

FairSpec == Spec /\ Fairness

-----------------------------------------------------------------------------
(* Every column and every process keeps its domain.                        *)
TypeOK ==
    /\ rows \in [Workers -> Row]
    /\ pools \in [Pools -> PoolRow]
    /\ revoking \in [Pools -> (SUBSET Slots) \cup {None}]
    /\ spent \subseteq Tokens /\ expired \subseteq Tokens
    /\ coroutines \in [Sessions -> Workers \cup {None}]
    /\ clients \in [Workers -> Client]
    /\ processes \in [Pools -> Process]
    /\ files \in [Pools -> BOOLEAN]

(* The status an administrator sees is true, whatever order a superseded   *)
(* session's end and its successor's begin come in: a worker is online iff *)
(* the coroutine of its current session runs.                              *)
StatusTellsTheTruth ==
    \A w \in Workers :
        rows[w].status = "online" <=>
            \E s \in Sessions : rows[w].session = s /\ coroutines[s] = w

(* "One-time": a token that let somebody in, whether or not the answer     *)
(* arrived, will not let anybody in again.                                 *)
TokensAreSpentOnce ==
    \A t \in spent : /\ \A w \in Workers : rows[w].token # t
                     /\ \A p \in Pools : pools[p].token # t

(* Enrollments, reconnections and replaced sessions never promise more     *)
(* threads than the machine has; offline slots keep their reservation, so  *)
(* that no slot that comes back is refused.                                *)
ReservationsFit ==
    ThreadsOf({w \in Workers : rows[w].status = "online" \/ (w \in Slots /\ Exists(w))}) <= Cores

(* "Use the durable server session after the first accepted connection.":  *)
(* a client that was accepted once, and whose worker was not removed,      *)
(* holds a credential that the server knows, as long as its welcomes       *)
(* arrive.  One that is lost on a reconnection leaves the client with a    *)
(* session that no row names any more.                                     *)
KnowsIfAccepted(w) ==
    clients[w].pc = "idle" /\ Exists(w) /\ rows[w].session # None => Recognised(w)
AcceptedClientsStayKnown == \A w \in Workers \ Lossy : KnowsIfAccepted(w)

(* A slot that lost its connection serves again, for as long as its pool's *)
(* process runs, its welcomes arrive and nobody removes it.                *)
SlotsReturn ==
    \A w \in Slots \ Lossy :
        clients[w].pc = "idle" ~> clients[w].pc \in {"serving", "down"} \/ ~Exists(w)
=============================================================================
