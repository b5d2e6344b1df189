--------------------------- MODULE RegistryProofs ---------------------------
(***************************************************************************)
(* Proofs about Registry, for any installation, any configurations that    *)
(* are submitted, and any number of requests side by side.                 *)
(***************************************************************************)
EXTENDS Registry, TLAPS

(* What a handler carries from its check to its write.                     *)
CarriesContent ==
    \A r \in Requests :
        requests[r].op \in {"upload", "stored", "checkedVersion", "deletedVersion", "unlink"}
            => requests[r].content \in Contents
RequestsOK == requests \in [Requests -> Request] /\ CarriesContent

-----------------------------------------------------------------------------
(* The helpers that move a request on.                                     *)
LEMMA BlankRequest == NoConfig \in Config /\ NoRequest \in Request
<1>1. NoConfig \in Config
  BY DEF NoConfig, Config
<1> QED BY <1>1 DEF NoRequest, Request, Ops, Status

LEMMA BeginsType ==
    ASSUME RequestsOK, NEW r \in Requests, NEW request \in Request, Begins(r, request),
           request.op \in {"upload", "checkedVersion"} => request.content \in Contents,
           request.op \notin {"stored", "deletedVersion", "unlink"}, served \in Nat
    PROVE  RequestsOK' /\ served' \in Nat
BY DEF RequestsOK, CarriesContent, Begins

LEMMA ContinuesType ==
    ASSUME RequestsOK, NEW r \in Requests, NEW op \in Ops, Continues(r, op),
           requests[r].content \in Contents, served \in Nat
    PROVE  RequestsOK' /\ served' \in Nat
<1>1. [requests[r] EXCEPT !.op = op] \in Request
  BY DEF RequestsOK, Request
<1>2. requests' = [requests EXCEPT ![r] = [requests[r] EXCEPT !.op = op]]
  BY DEF Continues, RequestsOK
<1> QED BY <1>1, <1>2 DEF RequestsOK, CarriesContent, Continues, Request

LEMMA EndsType ==
    ASSUME RequestsOK, NEW r \in Requests, Ends(r), served \in Nat
    PROVE  RequestsOK' /\ served' \in Nat
BY BlankRequest DEF RequestsOK, CarriesContent, Ends, NoRequest

LEMMA AtOnceType ==
    ASSUME RequestsOK, AtOnce, served \in Nat
    PROVE  RequestsOK' /\ served' \in Nat
BY DEF RequestsOK, CarriesContent, AtOnce

(* What the first steps write.                                             *)
LEMMA FirstRequests ==
    /\ \A e \in Families, c \in Contents :
           [NoRequest EXCEPT !.op = "upload", !.engine = e, !.content = c] \in Request
    /\ \A v \in Versions, c \in Contents :
           [NoRequest EXCEPT !.op = "checkedVersion", !.version = v, !.content = c] \in Request
    /\ \A e \in Families : [NoRequest EXCEPT !.op = "checkedEngine", !.engine = e] \in Request
    /\ \A c \in Config : [NoRequest EXCEPT !.op = "validated", !.config = c] \in Request
    /\ \A t \in Tournaments, c \in Config :
           [NoRequest EXCEPT !.op = "checkedDraft", !.tournament = t, !.config = c] \in Request
    /\ \A t \in Tournaments, s \in Status :
           [NoRequest EXCEPT !.op = "checkedStatus", !.tournament = t, !.target = s] \in Request
    /\ \A t \in Tournaments :
           [NoRequest EXCEPT !.op = "checkedDeletion", !.tournament = t] \in Request
    /\ \A c \in Categories, op \in {"checkedCategory", "unusedCategory"} :
           [NoRequest EXCEPT !.op = op, !.category = c] \in Request
    /\ \A s \in Suites, op \in {"checkedSuite", "unusedSuite"} :
           [NoRequest EXCEPT !.op = op, !.suite = s] \in Request
<1>1. \A e \in Families, c \in Contents : [NoRequest EXCEPT !.op = "upload", !.engine = e, !.content = c] \in Request
  BY BlankRequest DEF Request, Ops, NoRequest
<1>2. \A v \in Versions, c \in Contents : [NoRequest EXCEPT !.op = "checkedVersion", !.version = v, !.content = c] \in Request
  BY BlankRequest DEF Request, Ops, NoRequest
<1>3. \A e \in Families : [NoRequest EXCEPT !.op = "checkedEngine", !.engine = e] \in Request
  BY BlankRequest DEF Request, Ops, NoRequest
<1>4. \A c \in Config : [NoRequest EXCEPT !.op = "validated", !.config = c] \in Request
  BY BlankRequest DEF Request, Ops, NoRequest
<1>5. \A t \in Tournaments, c \in Config : [NoRequest EXCEPT !.op = "checkedDraft", !.tournament = t, !.config = c] \in Request
  BY BlankRequest DEF Request, Ops, NoRequest
<1>6. \A t \in Tournaments, s \in Status : [NoRequest EXCEPT !.op = "checkedStatus", !.tournament = t, !.target = s] \in Request
  BY BlankRequest DEF Request, Ops, NoRequest
<1>7. \A t \in Tournaments : [NoRequest EXCEPT !.op = "checkedDeletion", !.tournament = t] \in Request
  BY BlankRequest DEF Request, Ops, NoRequest
<1>8. \A c \in Categories, op \in {"checkedCategory", "unusedCategory"} : [NoRequest EXCEPT !.op = op, !.category = c] \in Request
  BY BlankRequest DEF Request, Ops, NoRequest
<1>9. \A s \in Suites, op \in {"checkedSuite", "unusedSuite"} : [NoRequest EXCEPT !.op = op, !.suite = s] \in Request
  BY BlankRequest DEF Request, Ops, NoRequest
<1> QED BY <1>1, <1>2, <1>3, <1>4, <1>5, <1>6, <1>7, <1>8, <1>9

-----------------------------------------------------------------------------
(* What the tables and the files hold, apart from the requests.            *)
Tables == <<engines, versions, issued, artifacts, categories, suites, saves,
            tournaments, games, abandoned>>
TablesOK ==
    /\ engines \subseteq Families
    /\ versions \in [Versions -> VersionRow \cup {None}]
    /\ issued \subseteq Ids
    /\ artifacts \subseteq Contents
    /\ categories \in [Categories -> BOOLEAN \cup {None}]
    /\ suites \in [Suites -> Nat]
    /\ saves \in Nat
    /\ tournaments \in [Tournaments -> TournamentRow \cup {None}]
    /\ games \in [Tournaments -> GameRow]
    /\ abandoned \subseteq Contents
Typed == TablesOK /\ RequestsOK /\ served \in Nat

LEMMA Rows ==
    ASSUME TablesOK
    PROVE  /\ \A v \in Registered : /\ versions[v] \in VersionRow
                                    /\ versions[v].key \in Contents
                                    /\ versions[v].engine \in Families
           /\ \A t \in Existing : /\ tournaments[t] \in TournamentRow
                                  /\ tournaments[t].status \in Status
                                  /\ tournaments[t].config \in Config
BY DEF TablesOK, Registered, Existing, VersionRow, TournamentRow

LEMMA TablesStutter == ASSUME TablesOK, UNCHANGED Tables PROVE TablesOK'
BY DEF TablesOK, Tables

LEMMA InitTyped == Init => Typed
<1> SUFFICES ASSUME Init PROVE Typed
  OBVIOUS
<1>1. versions \in [Versions -> VersionRow \cup {None}]
  BY DEF Init, VersionRow
<1>2. artifacts \subseteq Contents /\ issued \subseteq Ids
  BY <1>1 DEF Init, Keys, Registered, VersionRow, Ids
<1>3. games \in [Tournaments -> GameRow]
  BY DEF Init, GameRow, NoGames
<1>4. TablesOK
  BY <1>1, <1>2, <1>3 DEF TablesOK, Init
<1>5. RequestsOK /\ served \in Nat
  BY BlankRequest DEF RequestsOK, CarriesContent, Init, NoRequest
<1> QED BY <1>4, <1>5 DEF Typed

(* Engines and versions.                                                   *)
LEMMA EngineSteps ==
    ASSUME Typed, NEW r \in Requests,
           \/ ReceiveUpload(r) \/ StoreUpload(r) \/ RefuseUpload(r)
           \/ RegisterVersion(r) \/ RefuseVersion(r)
           \/ CheckVersion(r) \/ DeleteVersion(r) \/ CountReferences(r) \/ Unlink(r)
           \/ CheckEngine(r) \/ DeleteEngine(r)
    PROVE  Typed'
<1> USE DEF Typed
<1>1. CASE ReceiveUpload(r)
  <2>1. PICK e \in engines, c \in Contents :
            Begins(r, [NoRequest EXCEPT !.op = "upload", !.engine = e, !.content = c])
    BY <1>1 DEF ReceiveUpload
  <2>2. [NoRequest EXCEPT !.op = "upload", !.engine = e, !.content = c] \in Request
    BY FirstRequests DEF TablesOK
  <2>3. RequestsOK' /\ served' \in Nat
    BY <2>1, <2>2, BeginsType DEF NoRequest
  <2> QED BY <1>1, <2>3, TablesStutter DEF ReceiveUpload, Tables, engineTables, files,
          openingTables, tournamentTables
<1>2. CASE StoreUpload(r)
  <2>1. requests[r].content \in Contents
    BY <1>2 DEF StoreUpload, RequestsOK, CarriesContent
  <2>2. RequestsOK' /\ served' \in Nat
    BY <1>2, <2>1, ContinuesType DEF StoreUpload, Ops
  <2>3. TablesOK'
    BY <1>2, <2>1 DEF StoreUpload, TablesOK, engineTables, openingTables, tournamentTables
  <2> QED BY <2>2, <2>3
<1>3. CASE RegisterVersion(r)
  <2>1. requests[r].content \in Contents /\ requests[r].engine \in Families
    BY <1>3 DEF RegisterVersion, RequestsOK, CarriesContent, TablesOK
  <2>2. RequestsOK' /\ served' \in Nat
    BY <1>3, EndsType DEF RegisterVersion
  <2>3. PICK v \in Fresh(Versions) :
            /\ versions' = [versions EXCEPT ![v] = [engine |-> requests[r].engine,
                                                    key |-> requests[r].content]]
            /\ issued' = issued \cup {v}
    BY <1>3 DEF RegisterVersion
  <2>4. [engine |-> requests[r].engine, key |-> requests[r].content] \in VersionRow
    BY <2>1 DEF VersionRow
  <2>5. issued' \subseteq Ids /\ versions' \in [Versions -> VersionRow \cup {None}]
    BY <2>3, <2>4 DEF TablesOK, Fresh, Ids
  <2>6. TablesOK'
    BY <1>3, <2>5 DEF RegisterVersion, TablesOK, openingTables, tournamentTables
  <2> QED BY <2>2, <2>6
<1>4. CASE RefuseVersion(r)
  <2>0. requests[r].content \in Contents
    BY <1>4 DEF RefuseVersion, RequestsOK, CarriesContent
  <2>1. RequestsOK' /\ served' \in Nat
    BY <1>4, EndsType DEF RefuseVersion
  <2>2. TablesOK'
    BY <1>4, <2>0 DEF RefuseVersion, Removed, LeftBehind, TablesOK, engineTables,
       openingTables, tournamentTables
  <2> QED BY <2>1, <2>2
<1>11. CASE RefuseUpload(r)
  <2>0. requests[r].content \in Contents
    BY <1>11 DEF RefuseUpload, RequestsOK, CarriesContent
  <2>1. RequestsOK' /\ served' \in Nat
    BY <1>11, EndsType DEF RefuseUpload
  <2>2. TablesOK'
    BY <1>11, <2>0 DEF RefuseUpload, TablesOK, engineTables, files, openingTables,
       tournamentTables
  <2> QED BY <2>1, <2>2
<1>5. CASE CheckVersion(r)
  <2>1. PICK v \in Registered :
            Begins(r, [NoRequest EXCEPT !.op = "checkedVersion", !.version = v,
                                        !.content = versions[v].key])
    BY <1>5 DEF CheckVersion
  <2>2. v \in Versions /\ versions[v].key \in Contents
    BY Rows DEF Registered
  <2>3. [NoRequest EXCEPT !.op = "checkedVersion", !.version = v,
                          !.content = versions[v].key] \in Request
    BY <2>2, FirstRequests
  <2>4. RequestsOK' /\ served' \in Nat
    BY <2>1, <2>2, <2>3, BeginsType DEF NoRequest
  <2> QED BY <1>5, <2>4, TablesStutter DEF CheckVersion, Tables, engineTables, files,
          openingTables, tournamentTables
<1>6. CASE DeleteVersion(r)
  <2>1. requests[r].content \in Contents
    BY <1>6 DEF DeleteVersion, RequestsOK, CarriesContent
  <2>2. RequestsOK' /\ served' \in Nat
    BY <1>6, <2>1, ContinuesType, EndsType DEF DeleteVersion, Ops
  <2>3. versions' \in [Versions -> VersionRow \cup {None}]
    BY <1>6 DEF DeleteVersion, TablesOK
  <2>4. TablesOK'
    BY <1>6, <2>3 DEF DeleteVersion, TablesOK, files, openingTables, tournamentTables
  <2> QED BY <2>2, <2>4
<1>7. CASE CountReferences(r)
  <2>1. requests[r].content \in Contents
    BY <1>7 DEF CountReferences, RequestsOK, CarriesContent
  <2>2. RequestsOK' /\ served' \in Nat
    BY <1>7, <2>1, ContinuesType, EndsType DEF CountReferences, Ops
  <2>3. TablesOK'
    BY <1>7, <2>1 DEF CountReferences, LeftBehind, TablesOK, engineTables, files,
       openingTables, tournamentTables
  <2> QED BY <2>2, <2>3
<1>8. CASE Unlink(r)
  <2>0. requests[r].content \in Contents
    BY <1>8 DEF Unlink, RequestsOK, CarriesContent
  <2>1. RequestsOK' /\ served' \in Nat
    BY <1>8, EndsType DEF Unlink
  <2>2. TablesOK'
    BY <1>8, <2>0 DEF Unlink, Removed, LeftBehind, TablesOK, engineTables, openingTables,
       tournamentTables
  <2> QED BY <2>1, <2>2
<1>9. CASE CheckEngine(r)
  <2>1. PICK e \in engines :
            Begins(r, [NoRequest EXCEPT !.op = "checkedEngine", !.engine = e])
    BY <1>9 DEF CheckEngine
  <2>2. [NoRequest EXCEPT !.op = "checkedEngine", !.engine = e] \in Request
    BY FirstRequests DEF TablesOK
  <2>3. RequestsOK' /\ served' \in Nat
    BY <2>1, <2>2, BeginsType DEF NoRequest
  <2> QED BY <1>9, <2>3, TablesStutter DEF CheckEngine, Tables, engineTables, files,
          openingTables, tournamentTables
<1>10. CASE DeleteEngine(r)
  <2>1. RequestsOK' /\ served' \in Nat
    BY <1>10, EndsType DEF DeleteEngine
  <2>2. Keys \subseteq Contents
    BY Rows DEF Keys
  <2>3. engines' \subseteq Families /\ abandoned' \subseteq Contents
    BY <1>10, <2>2 DEF DeleteEngine, TablesOK
  <2>4. versions' \in [Versions -> VersionRow \cup {None}]
    BY <1>10 DEF DeleteEngine, TablesOK
  <2>5. TablesOK'
    BY <1>10, <2>3, <2>4 DEF DeleteEngine, TablesOK, openingTables, tournamentTables
  <2> QED BY <2>1, <2>5
<1> QED BY <1>1, <1>2, <1>3, <1>4, <1>5, <1>6, <1>7, <1>8, <1>9, <1>10, <1>11

(* Tournaments.                                                            *)
LEMMA RowTypes ==
    /\ \A s \in Status, c \in Config : [status |-> s, config |-> c] \in TournamentRow
    /\ \A row \in TournamentRow, s \in Status : [row EXCEPT !.status = s] \in TournamentRow
    /\ \A row \in TournamentRow, c \in Config : [row EXCEPT !.config = c] \in TournamentRow
    /\ NoGames \in GameRow
    /\ \A vs \in SUBSET Versions, n \in Nat : [engines |-> vs, opening |-> n] \in GameRow
BY DEF TournamentRow, GameRow, NoGames

LEMMA ConfigsFit == Configs \subseteq Config
BY RegistryAssumption

LEMMA Carried ==
    ASSUME RequestsOK, NEW r \in Requests
    PROVE  /\ requests[r] \in Request /\ requests[r].config \in Config
           /\ requests[r].target \in Status
           /\ requests[r].drafts \in [Tournaments -> Config \cup {None}]
BY DEF RequestsOK, Request

LEMMA TournamentSteps ==
    ASSUME Typed, NEW r \in Requests,
           \/ ValidateTournament(r) \/ CreateTournament(r)
           \/ CheckDraft(r) \/ UpdateTournament(r) \/ CheckStatus(r) \/ ChangeStatus(r)
           \/ CheckDeletion(r) \/ DeleteTournament(r)
    PROVE  Typed'
<1> USE DEF Typed
<1>1. CASE ValidateTournament(r)
  <2>1. PICK config \in Configs :
            Begins(r, [NoRequest EXCEPT !.op = "validated", !.config = config])
    BY <1>1 DEF ValidateTournament
  <2>2. [NoRequest EXCEPT !.op = "validated", !.config = config] \in Request
    BY FirstRequests, ConfigsFit
  <2>3. RequestsOK' /\ served' \in Nat
    BY <2>1, <2>2, BeginsType DEF NoRequest
  <2> QED BY <1>1, <2>3, TablesStutter DEF ValidateTournament, Tables, engineTables, files,
          openingTables, tournamentTables
<1>2. CASE CreateTournament(r)
  <2>1. RequestsOK' /\ served' \in Nat
    BY <1>2, EndsType DEF CreateTournament
  <2>2. CASE Insertable(requests[r].config)
    <3>1. PICK t \in Fresh(Tournaments) :
              /\ tournaments' = [tournaments EXCEPT ![t] =
                                     [status |-> "draft", config |-> requests[r].config]]
              /\ issued' = issued \cup {t}
      BY <1>2, <2>2 DEF CreateTournament
    <3>2. [status |-> "draft", config |-> requests[r].config] \in TournamentRow
      BY Carried, RowTypes DEF Status
    <3>3. /\ issued' \subseteq Ids
          /\ tournaments' \in [Tournaments -> TournamentRow \cup {None}]
      BY <3>1, <3>2 DEF TablesOK, Fresh, Ids
    <3> QED BY <1>2, <2>1, <3>3 DEF CreateTournament, TablesOK, files, openingTables
  <2>3. CASE ~Insertable(requests[r].config)
    BY <1>2, <2>1, <2>3 DEF CreateTournament, TablesOK, files, openingTables
  <2> QED BY <2>1, <2>2, <2>3
<1>3. CASE CheckDraft(r)
  <2>1. PICK t \in Existing, config \in Configs :
            Begins(r, [NoRequest EXCEPT !.op = "checkedDraft", !.tournament = t, !.config = config])
    BY <1>3 DEF CheckDraft
  <2>2. [NoRequest EXCEPT !.op = "checkedDraft", !.tournament = t, !.config = config] \in Request
    BY FirstRequests, ConfigsFit DEF Existing
  <2>3. RequestsOK' /\ served' \in Nat
    BY <2>1, <2>2, BeginsType DEF NoRequest
  <2> QED BY <1>3, <2>3, TablesStutter DEF CheckDraft, Tables, engineTables, files,
          openingTables, tournamentTables
<1>4. CASE UpdateTournament(r)
  <2>1. RequestsOK' /\ served' \in Nat
    BY <1>4, EndsType DEF UpdateTournament
  <2>2. tournaments' \in [Tournaments -> TournamentRow \cup {None}]
    <3> DEFINE t == requests[r].tournament
               c == requests[r].config
    <3>1. CASE t \in Existing /\ Insertable(c)
      <4>1. [tournaments[t] EXCEPT !.config = c] \in TournamentRow
        BY <3>1, Rows, Carried, RowTypes
      <4>2. tournaments' = [tournaments EXCEPT ![t] = [tournaments[t] EXCEPT !.config = c]]
        BY <1>4, <3>1 DEF UpdateTournament, Rewritten
      <4> QED BY <4>1, <4>2 DEF TablesOK
    <3>2. CASE ~(t \in Existing /\ Insertable(c))
      BY <1>4, <3>2 DEF UpdateTournament, TablesOK
    <3> QED BY <3>1, <3>2
  <2>3. TablesOK'
    BY <1>4, <2>2 DEF UpdateTournament, TablesOK, engineTables, files, openingTables
  <2> QED BY <2>1, <2>3
<1>5. CASE CheckStatus(r)
  <2>1. PICK t \in Existing : \E target \in TOURNAMENT_ACTIONS[tournaments[t].status] :
            Begins(r, [NoRequest EXCEPT !.op = "checkedStatus", !.tournament = t,
                                        !.target = target])
    BY <1>5 DEF CheckStatus
  <2>2. TOURNAMENT_ACTIONS[tournaments[t].status] \subseteq Status
    BY Rows DEF TOURNAMENT_ACTIONS, Status
  <2>3. PICK target \in Status :
            Begins(r, [NoRequest EXCEPT !.op = "checkedStatus", !.tournament = t,
                                        !.target = target])
    BY <2>1, <2>2
  <2>4. [NoRequest EXCEPT !.op = "checkedStatus", !.tournament = t,
                          !.target = target] \in Request
    BY FirstRequests DEF Existing
  <2>5. RequestsOK' /\ served' \in Nat
    BY <2>3, <2>4, BeginsType DEF NoRequest
  <2> QED BY <1>5, <2>5, TablesStutter DEF CheckStatus, Tables, engineTables, files,
          openingTables, tournamentTables
<1>6. CASE ChangeStatus(r)
  <2>1. RequestsOK' /\ served' \in Nat
    BY <1>6, EndsType DEF ChangeStatus
  <2>2. tournaments' \in [Tournaments -> TournamentRow \cup {None}]
    <3> DEFINE t == requests[r].tournament
               target == requests[r].target
    <3>1. CASE t \in Existing
      <4>1. [tournaments[t] EXCEPT !.status = target] \in TournamentRow
        BY <3>1, Rows, Carried, RowTypes
      <4>2. tournaments' = [tournaments EXCEPT ![t] = [tournaments[t] EXCEPT !.status = target]]
        BY <1>6, <3>1 DEF ChangeStatus
      <4> QED BY <4>1, <4>2 DEF TablesOK
    <3>2. CASE t \notin Existing
      BY <1>6, <3>2 DEF ChangeStatus, TablesOK
    <3> QED BY <3>1, <3>2
  <2>3. TablesOK'
    BY <1>6, <2>2 DEF ChangeStatus, TablesOK, engineTables, files, openingTables
  <2> QED BY <2>1, <2>3
<1>7. CASE CheckDeletion(r)
  <2>1. PICK t \in Existing :
            Begins(r, [NoRequest EXCEPT !.op = "checkedDeletion", !.tournament = t])
    BY <1>7 DEF CheckDeletion
  <2>2. [NoRequest EXCEPT !.op = "checkedDeletion", !.tournament = t] \in Request
    BY FirstRequests DEF Existing
  <2>3. RequestsOK' /\ served' \in Nat
    BY <2>1, <2>2, BeginsType DEF NoRequest
  <2> QED BY <1>7, <2>3, TablesStutter DEF CheckDeletion, Tables, engineTables, files,
          openingTables, tournamentTables
<1>8. CASE DeleteTournament(r)
  <2>1. RequestsOK' /\ served' \in Nat
    BY <1>8, EndsType DEF DeleteTournament
  <2>2. TablesOK'
    BY <1>8, RowTypes DEF DeleteTournament, TablesOK, engineTables, files, openingTables
  <2> QED BY <2>1, <2>2
<1> QED BY <1>1, <1>2, <1>3, <1>4, <1>5, <1>6, <1>7, <1>8

(* Categories and suites.                                                  *)
LEMMA CategorySteps ==
    ASSUME Typed, NEW r \in Requests,
           \/ CheckCategory(r) \/ ListDrafts(r) \/ UpdateCategory(r)
           \/ CheckUnused(r) \/ DeleteCategory(r)
           \/ CheckSuite(r) \/ SaveSuite(r) \/ DeleteSuite(r)
    PROVE  Typed'
<1> USE DEF Typed
<1>1. CASE CheckCategory(r)
  <2>1. PICK c \in Categories :
            Begins(r, [NoRequest EXCEPT !.op = "checkedCategory", !.category = c])
    BY <1>1 DEF CheckCategory
  <2>2. [NoRequest EXCEPT !.op = "checkedCategory", !.category = c] \in Request
    BY FirstRequests
  <2>3. RequestsOK' /\ served' \in Nat
    BY <2>1, <2>2, BeginsType DEF NoRequest
  <2> QED BY <1>1, <2>3, TablesStutter DEF CheckCategory, Tables, engineTables, files,
          openingTables, tournamentTables
<1>2. CASE ListDrafts(r)
  <2> DEFINE drafts == DraftsOf(requests[r].category)
             request == [requests[r] EXCEPT !.op = "listedDrafts", !.drafts = drafts]
  <2>1. drafts \in [Tournaments -> Config \cup {None}]
    BY Rows DEF DraftsOf
  <2>2. request \in Request
    <3> HIDE DEF drafts
    <3> QED BY <2>1, Carried DEF Request, Ops
  <2>3. requests' = [requests EXCEPT ![r] = request]
    BY <1>2 DEF ListDrafts, RequestsOK
  <2>4. request.op = "listedDrafts"
    BY Carried DEF Request
  <2>5. RequestsOK'
    <3> HIDE DEF request
    <3> QED BY <2>2, <2>3, <2>4 DEF RequestsOK, CarriesContent
  <2> QED BY <1>2, <2>5, TablesStutter DEF ListDrafts, Tables, engineTables, files,
          openingTables, tournamentTables
<1>3. CASE UpdateCategory(r)
  <2>1. RequestsOK' /\ served' \in Nat
    BY <1>3, EndsType DEF UpdateCategory
  <2>2. CASE UNCHANGED <<categories, tournaments>>
    BY <1>3, <2>1, <2>2 DEF UpdateCategory, TablesOK, engineTables, files, openingTables
  <2>3. ASSUME NEW active \in BOOLEAN, NEW drafts \in {requests[r].drafts, NoRequest.drafts},
               Propagates(drafts, active),
               categories' = [categories EXCEPT ![requests[r].category] = active],
               tournaments' = [t \in Tournaments |->
                         IF drafts[t] = None THEN tournaments[t]
                         ELSE [tournaments[t] EXCEPT !.config = drafts[t]]]
        PROVE  TablesOK'
    <3>1. drafts \in [Tournaments -> Config \cup {None}]
      BY Carried, BlankRequest DEF Request
    <3>2. \A t \in Tournaments : drafts[t] # None =>
              [tournaments[t] EXCEPT !.config = drafts[t]] \in TournamentRow
      BY <2>3, <3>1, Rows, RowTypes DEF Propagates
    <3>3. tournaments' \in [Tournaments -> TournamentRow \cup {None}]
      BY <2>3, <3>2 DEF TablesOK
    <3>4. categories' \in [Categories -> BOOLEAN \cup {None}]
      BY <2>3 DEF TablesOK
    <3> QED BY <1>3, <3>3, <3>4 DEF UpdateCategory, TablesOK, engineTables, files, openingTables
  <2> QED BY <1>3, <2>1, <2>2, <2>3 DEF UpdateCategory
<1>4. CASE CheckUnused(r)
  <2>1. PICK c \in Categories :
            Begins(r, [NoRequest EXCEPT !.op = "unusedCategory", !.category = c])
    BY <1>4 DEF CheckUnused
  <2>2. [NoRequest EXCEPT !.op = "unusedCategory", !.category = c] \in Request
    BY FirstRequests
  <2>3. RequestsOK' /\ served' \in Nat
    BY <2>1, <2>2, BeginsType DEF NoRequest
  <2> QED BY <1>4, <2>3, TablesStutter DEF CheckUnused, Tables, engineTables, files,
          openingTables, tournamentTables
<1>5. CASE DeleteCategory(r)
  <2>1. RequestsOK' /\ served' \in Nat
    BY <1>5, EndsType DEF DeleteCategory
  <2>2. TablesOK'
    BY <1>5 DEF DeleteCategory, TablesOK, engineTables, files, openingTables, tournamentTables
  <2> QED BY <2>1, <2>2
<1>6. CASE CheckSuite(r)
  <2>1. PICK s \in Suites, op \in {"checkedSuite", "unusedSuite"} :
            Begins(r, [NoRequest EXCEPT !.op = op, !.suite = s])
    BY <1>6 DEF CheckSuite
  <2>2. [NoRequest EXCEPT !.op = op, !.suite = s] \in Request
    BY FirstRequests
  <2>3. RequestsOK' /\ served' \in Nat
    BY <2>1, <2>2, BeginsType DEF NoRequest
  <2> QED BY <1>6, <2>3, TablesStutter DEF CheckSuite, Tables, engineTables, files,
          openingTables, tournamentTables
<1>7. CASE SaveSuite(r)
  <2>1. RequestsOK' /\ served' \in Nat
    BY <1>7, EndsType DEF SaveSuite
  <2>2. TablesOK'
    BY <1>7 DEF SaveSuite, TablesOK, engineTables, files, openingTables, tournamentTables
  <2> QED BY <2>1, <2>2
<1>8. CASE DeleteSuite(r)
  <2>1. RequestsOK' /\ served' \in Nat
    BY <1>8, EndsType DEF DeleteSuite
  <2>2. TablesOK'
    BY <1>8 DEF DeleteSuite, TablesOK, engineTables, files, openingTables, tournamentTables
  <2> QED BY <2>1, <2>2
<1> QED BY <1>1, <1>2, <1>3, <1>4, <1>5, <1>6, <1>7, <1>8

(* Steps of no request that is under way.                                  *)
LEMMA OtherSteps ==
    ASSUME Typed,
           \/ CreateEngine \/ CreateCategory \/ CreateSuite
           \/ \E t \in Tournaments : PrepareTournament(t) \/ FinishTournament(t)
    PROVE  Typed'
<1> USE DEF Typed
<1>1. CASE CreateEngine
  BY <1>1, AtOnceType DEF CreateEngine, TablesOK, Fresh, Ids, files, openingTables,
     tournamentTables
<1>2. CASE CreateCategory
  BY <1>2, AtOnceType DEF CreateCategory, TablesOK, Fresh, Ids, files, openingTables,
     tournamentTables
<1>3. CASE CreateSuite
  <2>1. RequestsOK' /\ served' \in Nat
    BY <1>3, AtOnceType DEF CreateSuite
  <2>2. TablesOK'
    BY <1>3 DEF CreateSuite, TablesOK, Fresh, Ids, files, tournamentTables
  <2> QED BY <2>1, <2>2
<1>4. ASSUME NEW t \in Existing, NEW s \in Status,
             tournaments' = [tournaments EXCEPT ![t].status = s]
      PROVE  tournaments' \in [Tournaments -> TournamentRow \cup {None}]
  <2>1. [tournaments[t] EXCEPT !.status = s] \in TournamentRow
    BY Rows, RowTypes
  <2>2. tournaments' = [tournaments EXCEPT ![t] = [tournaments[t] EXCEPT !.status = s]]
    BY <1>4
  <2> QED BY <2>1, <2>2 DEF TablesOK
<1>5. ASSUME NEW t \in Tournaments, PrepareTournament(t) PROVE Typed'
  <2> DEFINE config == tournaments[t].config
             row == [engines |-> config.participants,
                     opening |-> IF config.suite = None THEN 0 ELSE suites[config.suite]]
  <2>1. tournaments' \in [Tournaments -> TournamentRow \cup {None}]
    BY <1>4, <1>5 DEF PrepareTournament, Status
  <2>2. /\ config.participants \in SUBSET Versions
        /\ (IF config.suite = None THEN 0 ELSE suites[config.suite]) \in Nat
    BY <1>5, Rows DEF PrepareTournament, Config, TablesOK
  <2>3. row \in GameRow
    BY <2>2, RowTypes
  <2>4. games' \in [Tournaments -> GameRow]
    <3> HIDE DEF row
    <3>1. games' = games \/ games' = [games EXCEPT ![t] = row]
      BY <1>5 DEF PrepareTournament, row
    <3> QED BY <2>3, <3>1 DEF TablesOK
  <2>5. TablesOK'
    BY <1>5, <2>1, <2>4 DEF PrepareTournament, TablesOK, engineTables, files, openingTables
  <2>6. RequestsOK' /\ served' \in Nat
    BY <1>5 DEF PrepareTournament, RequestsOK, CarriesContent
  <2> QED BY <2>5, <2>6
<1>6. ASSUME NEW t \in Tournaments, FinishTournament(t) PROVE Typed'
  <2>1. tournaments' \in [Tournaments -> TournamentRow \cup {None}]
    BY <1>4, <1>6 DEF FinishTournament, Status
  <2>2. TablesOK'
    BY <1>6, <2>1 DEF FinishTournament, TablesOK, engineTables, files, openingTables
  <2>3. RequestsOK' /\ served' \in Nat
    BY <1>6 DEF FinishTournament, RequestsOK, CarriesContent
  <2> QED BY <2>2, <2>3
<1> QED BY <1>1, <1>2, <1>3, <1>5, <1>6

LEMMA TypedStep == Typed /\ [Next]_vars => Typed'
<1> SUFFICES ASSUME Typed, [Next]_vars PROVE Typed'
  OBVIOUS
<1>1. CASE UNCHANGED vars
  BY <1>1 DEF vars, Typed, TablesOK, RequestsOK, CarriesContent
<1>2. CASE Next
  BY <1>2, EngineSteps, TournamentSteps, CategorySteps, OtherSteps DEF Next
<1> QED BY <1>1, <1>2

-----------------------------------------------------------------------------
(* References.  Ids are given out once, so a registration replaces no      *)
(* version; a tournament that is not there has no games.                   *)
IdsOK == Registered \subseteq issued
GamesOK == \A t \in Tournaments \ Existing : games[t] = NoGames
(* The drafts that a propagation holds are its category's.                 *)
DraftsLinked ==
    \A r \in Requests : \A t \in Tournaments :
        requests[r].op = "listedDrafts" /\ requests[r].drafts[t] # None
            => requests[r].drafts[t].category = requests[r].category
(* A deletion carries the content of the version that it names.            *)
ContentsMatch ==
    \A r \in Requests :
        requests[r].op = "checkedVersion"
            => /\ requests[r].version \in issued
               /\ requests[r].version \in Registered
                      => versions[requests[r].version].key = requests[r].content
RegistryInv ==
    /\ Typed /\ IdsOK /\ GamesOK /\ DraftsLinked /\ ContentsMatch
    /\ ReferencesHold /\ OrphansAreRemoved

-----------------------------------------------------------------------------
(* Which steps write which table.                                          *)
Uploads(r) == \/ ReceiveUpload(r) \/ StoreUpload(r) \/ RefuseUpload(r)
              \/ RegisterVersion(r) \/ RefuseVersion(r)
Removals(r) == \/ CheckVersion(r) \/ DeleteVersion(r) \/ CountReferences(r) \/ Unlink(r)
               \/ CheckEngine(r) \/ DeleteEngine(r)
Contests(r) == \/ ValidateTournament(r) \/ CreateTournament(r)
               \/ CheckDraft(r) \/ UpdateTournament(r) \/ CheckStatus(r) \/ ChangeStatus(r)
               \/ CheckDeletion(r) \/ DeleteTournament(r)
Settings(r) == \/ CheckCategory(r) \/ ListDrafts(r) \/ UpdateCategory(r)
               \/ CheckUnused(r) \/ DeleteCategory(r)
               \/ CheckSuite(r) \/ SaveSuite(r) \/ DeleteSuite(r)

LEMMA NextSteps ==
    Next => \/ \E r \in Requests : Uploads(r) \/ Removals(r) \/ Contests(r) \/ Settings(r)
            \/ CreateEngine \/ CreateCategory \/ CreateSuite
            \/ \E t \in Tournaments : PrepareTournament(t) \/ FinishTournament(t)
BY DEF Next, Uploads, Removals, Contests, Settings

LEMMA UploadsWrite ==
    ASSUME NEW r \in Requests, Uploads(r)
    PROVE  /\ issued \subseteq issued'
           /\ UNCHANGED <<engines, categories, tournaments, games>>
           /\ versions' = versions \/ RegisterVersion(r)
BY DEF Uploads, ReceiveUpload, StoreUpload, RefuseUpload, RegisterVersion, RefuseVersion,
   engineTables, files, openingTables, tournamentTables

LEMMA RemovalsWrite ==
    ASSUME NEW r \in Requests, Removals(r)
    PROVE  /\ UNCHANGED <<issued, categories, tournaments, games>>
           /\ UNCHANGED <<engines, versions>> \/ DeleteVersion(r) \/ DeleteEngine(r)
BY DEF Removals, CheckVersion, DeleteVersion, CountReferences, Unlink, CheckEngine,
   DeleteEngine, engineTables, files, openingTables, tournamentTables

LEMMA ContestsWrite ==
    ASSUME NEW r \in Requests, Contests(r)
    PROVE  /\ issued \subseteq issued'
           /\ UNCHANGED <<engines, versions, artifacts, categories, abandoned>>
           /\ \/ UNCHANGED <<tournaments, games>>
              \/ CreateTournament(r) \/ UpdateTournament(r) \/ ChangeStatus(r)
              \/ DeleteTournament(r)
BY DEF Contests, ValidateTournament, CreateTournament, CheckDraft, UpdateTournament,
   CheckStatus, ChangeStatus, CheckDeletion, DeleteTournament, engineTables,
   files, openingTables, tournamentTables

LEMMA SettingsWrite ==
    ASSUME NEW r \in Requests, Settings(r)
    PROVE  /\ UNCHANGED <<engines, versions, issued, artifacts, games, abandoned>>
           /\ \/ UNCHANGED <<tournaments, categories>>
              \/ UpdateCategory(r) \/ DeleteCategory(r)
BY DEF Settings, CheckCategory, ListDrafts, UpdateCategory, CheckUnused, DeleteCategory,
   CheckSuite, SaveSuite, DeleteSuite, engineTables, files, openingTables, tournamentTables

(* No registered version is registered again, and no id comes back.        *)
LEMMA IdsStep ==
    ASSUME Typed, IdsOK, Next
    PROVE  IdsOK' /\ issued \subseteq issued'
<1>1. ASSUME NEW r \in Requests, RegisterVersion(r)
      PROVE  Registered' \subseteq issued'
  BY <1>1 DEF RegisterVersion, IdsOK, Registered, Typed, TablesOK
<1>2. ASSUME NEW r \in Requests, DeleteVersion(r) \/ DeleteEngine(r)
      PROVE  Registered' \subseteq Registered
  BY <1>2 DEF DeleteVersion, DeleteEngine, Registered, Typed, TablesOK
<1>3. ASSUME NEW r \in Requests, Uploads(r) \/ Removals(r) \/ Contests(r) \/ Settings(r)
      PROVE  IdsOK' /\ issued \subseteq issued'
  BY <1>1, <1>2, <1>3, UploadsWrite, RemovalsWrite, ContestsWrite, SettingsWrite
     DEF IdsOK, Registered
<1>4. ASSUME \/ CreateEngine \/ CreateCategory \/ CreateSuite
             \/ \E t \in Tournaments : PrepareTournament(t) \/ FinishTournament(t)
      PROVE  IdsOK' /\ issued \subseteq issued'
  BY <1>4 DEF CreateEngine, CreateCategory, CreateSuite, PrepareTournament, FinishTournament,
     IdsOK, Registered, engineTables
<1> QED BY <1>3, <1>4, NextSteps

(* The rows that the steps leave behind.                                   *)
LEMMA RowsStay ==
    ASSUME Typed, Typed', NEW r \in Requests
    PROVE  /\ UpdateTournament(r) \/ ChangeStatus(r) => Existing' = Existing
           /\ UpdateCategory(r) => Existing' = Existing
           /\ CreateTournament(r) => Existing \subseteq Existing'
<1> USE DEF Typed, TablesOK
<1>1. None \notin TournamentRow
  BY RegistryAssumption
<1>2. ASSUME UpdateTournament(r) \/ ChangeStatus(r) PROVE Existing' = Existing
  <2>1. \A t \in Existing : /\ [tournaments[t] EXCEPT !.config = requests[r].config] # None
                            /\ [tournaments[t] EXCEPT !.status = requests[r].target] # None
    BY <1>1, Rows, RowTypes, Carried
  <2> QED BY <1>2, <2>1 DEF UpdateTournament, ChangeStatus, Rewritten, Existing
<1>3. ASSUME UpdateCategory(r) PROVE Existing' = Existing
  <2>1. CASE UNCHANGED tournaments
    BY <2>1 DEF Existing
  <2>2. ASSUME NEW active \in BOOLEAN, NEW drafts \in {requests[r].drafts, NoRequest.drafts},
               Propagates(drafts, active),
               tournaments' = [t \in Tournaments |->
                         IF drafts[t] = None THEN tournaments[t]
                         ELSE [tournaments[t] EXCEPT !.config = drafts[t]]]
        PROVE  Existing' = Existing
    <3>1. drafts \in [Tournaments -> Config \cup {None}]
      BY Carried, BlankRequest DEF Request
    <3>2. \A t \in Tournaments : drafts[t] # None =>
              t \in Existing /\ [tournaments[t] EXCEPT !.config = drafts[t]] # None
      BY <1>1, <2>2, <3>1, Rows, RowTypes DEF Propagates
    <3> QED BY <2>2, <3>2 DEF Existing
  <2> QED BY <1>3, <2>1, <2>2 DEF UpdateCategory
<1>4. ASSUME CreateTournament(r) PROVE Existing \subseteq Existing'
  <2>1. [status |-> "draft", config |-> requests[r].config] # None
    BY <1>1, RowTypes, Carried DEF Status
  <2> QED BY <1>4, <2>1 DEF CreateTournament, Existing
<1> QED BY <1>2, <1>3, <1>4

LEMMA StatusMoves ==
    ASSUME Typed, NEW t \in Existing, NEW status \in Status,
           tournaments' = [tournaments EXCEPT ![t].status = status]
    PROVE  /\ Existing' = Existing
           /\ \A u \in Existing : tournaments'[u].config = tournaments[u].config
<1>1. /\ [tournaments[t] EXCEPT !.status = status] # None
      /\ [tournaments[t] EXCEPT !.status = status].config = tournaments[t].config
  BY RegistryAssumption, Rows, RowTypes DEF Typed, TournamentRow
<1>2. tournaments' = [tournaments EXCEPT ![t] = [tournaments[t] EXCEPT !.status = status]]
  OBVIOUS
<1> QED BY <1>1, <1>2 DEF Existing, Typed, TablesOK

LEMMA GamesStep ==
    ASSUME Typed, Typed', GamesOK, Next
    PROVE  GamesOK'
<1>1. ASSUME NEW r \in Requests, DeleteTournament(r) PROVE GamesOK'
  BY <1>1 DEF DeleteTournament, GamesOK, Existing, Typed, TablesOK
<1>2. ASSUME NEW r \in Requests,
             CreateTournament(r) \/ UpdateTournament(r) \/ ChangeStatus(r) \/ UpdateCategory(r)
      PROVE  GamesOK'
  <2>1. Existing \subseteq Existing'
    BY <1>2, RowsStay
  <2>2. UNCHANGED games
    BY <1>2 DEF CreateTournament, UpdateTournament, ChangeStatus, UpdateCategory
  <2> QED BY <2>1, <2>2 DEF GamesOK
<1>3. ASSUME NEW t \in Tournaments, PrepareTournament(t) \/ FinishTournament(t)
      PROVE  GamesOK'
  <2>1. Existing' = Existing
    BY <1>3, StatusMoves DEF PrepareTournament, FinishTournament, Status
  <2>2. \A u \in Tournaments \ Existing : games'[u] = games[u]
    BY <1>3 DEF PrepareTournament, FinishTournament, Typed, TablesOK
  <2> QED BY <2>1, <2>2 DEF GamesOK
<1>4. ASSUME UNCHANGED <<tournaments, games>> PROVE GamesOK'
  BY <1>4 DEF GamesOK, Existing
<1>5. ASSUME NEW r \in Requests, DeleteCategory(r) PROVE UNCHANGED <<tournaments, games>>
  BY <1>5 DEF DeleteCategory, tournamentTables
<1>6. ASSUME CreateEngine \/ CreateCategory \/ CreateSuite
      PROVE  UNCHANGED <<tournaments, games>>
  BY <1>6 DEF CreateEngine, CreateCategory, CreateSuite, tournamentTables
<1> QED BY <1>1, <1>2, <1>3, <1>4, <1>5, <1>6, NextSteps, UploadsWrite, RemovalsWrite,
        ContestsWrite, SettingsWrite

-----------------------------------------------------------------------------
(* How a step changes the requests: one of them, and only two steps give   *)
(* it the operations that DraftsLinked and ContentsMatch are about.        *)
Unrelated(r) ==
    /\ requests'[r].op \notin {"listedDrafts", "checkedVersion"}
    /\ requests' = [requests EXCEPT ![r] = requests'[r]]

LEMMA HelpersMove ==
    ASSUME Typed, NEW r \in Requests
    PROVE  /\ \A request \in Request : Begins(r, request) =>
                   requests' = [requests EXCEPT ![r] = requests'[r]] /\ requests'[r] = request
           /\ \A op \in {"stored", "deletedVersion", "unlink"} : Continues(r, op) =>
                   Unrelated(r) /\ requests'[r] = [requests[r] EXCEPT !.op = op]
           /\ Ends(r) => Unrelated(r) /\ requests'[r] = NoRequest
<1> USE DEF Typed, RequestsOK
<1>1. \A request \in Request : Begins(r, request) =>
          requests' = [requests EXCEPT ![r] = requests'[r]] /\ requests'[r] = request
  BY DEF Begins
<1>2. ASSUME NEW op \in {"stored", "deletedVersion", "unlink"}, Continues(r, op)
      PROVE  Unrelated(r) /\ requests'[r] = [requests[r] EXCEPT !.op = op]
  <2>1. requests' = [requests EXCEPT ![r] = [requests[r] EXCEPT !.op = op]]
    BY <1>2 DEF Continues
  <2>2. [requests[r] EXCEPT !.op = op].op = op
    BY Carried DEF Request
  <2> QED BY <2>1, <2>2 DEF Unrelated
<1>3. Ends(r) => Unrelated(r) /\ requests'[r] = NoRequest
  BY DEF Ends, Unrelated, NoRequest
<1> QED BY <1>1, <1>2, <1>3

LEMMA Moved ==
    ASSUME Typed, NEW r \in Requests, Uploads(r) \/ Removals(r) \/ Contests(r) \/ Settings(r)
    PROVE  Unrelated(r) \/ CheckVersion(r) \/ ListDrafts(r)
<1>1. ASSUME NEW request \in Request, Begins(r, request),
             request.op \notin {"listedDrafts", "checkedVersion"}
      PROVE  Unrelated(r)
  BY <1>1, HelpersMove DEF Unrelated
<1>2. CASE ReceiveUpload(r)
  <2>1. PICK e \in engines, c \in Contents :
            Begins(r, [NoRequest EXCEPT !.op = "upload", !.engine = e, !.content = c])
    BY <1>2 DEF ReceiveUpload
  <2>2. [NoRequest EXCEPT !.op = "upload", !.engine = e, !.content = c] \in Request
    BY FirstRequests DEF Typed, TablesOK
  <2> QED BY <1>1, <2>1, <2>2 DEF NoRequest
<1>3. CASE CheckEngine(r)
  <2>1. PICK e \in engines :
            Begins(r, [NoRequest EXCEPT !.op = "checkedEngine", !.engine = e])
    BY <1>3 DEF CheckEngine
  <2>2. [NoRequest EXCEPT !.op = "checkedEngine", !.engine = e] \in Request
    BY FirstRequests DEF Typed, TablesOK
  <2> QED BY <1>1, <2>1, <2>2 DEF NoRequest
<1>4. CASE ValidateTournament(r)
  <2>1. PICK config \in Configs :
            Begins(r, [NoRequest EXCEPT !.op = "validated", !.config = config])
    BY <1>4 DEF ValidateTournament
  <2>2. [NoRequest EXCEPT !.op = "validated", !.config = config] \in Request
    BY FirstRequests, ConfigsFit
  <2> QED BY <1>1, <2>1, <2>2 DEF NoRequest
<1>5. CASE CheckDraft(r)
  <2>1. PICK t \in Existing, config \in Configs :
            Begins(r, [NoRequest EXCEPT !.op = "checkedDraft", !.tournament = t, !.config = config])
    BY <1>5 DEF CheckDraft
  <2>2. [NoRequest EXCEPT !.op = "checkedDraft", !.tournament = t, !.config = config] \in Request
    BY FirstRequests, ConfigsFit DEF Existing
  <2> QED BY <1>1, <2>1, <2>2 DEF NoRequest
<1>6. CASE CheckDeletion(r)
  <2>1. PICK t \in Existing :
            Begins(r, [NoRequest EXCEPT !.op = "checkedDeletion", !.tournament = t])
    BY <1>6 DEF CheckDeletion
  <2>2. [NoRequest EXCEPT !.op = "checkedDeletion", !.tournament = t] \in Request
    BY FirstRequests DEF Existing
  <2> QED BY <1>1, <2>1, <2>2 DEF NoRequest
<1>7. CASE CheckCategory(r)
  <2>1. PICK c \in Categories :
            Begins(r, [NoRequest EXCEPT !.op = "checkedCategory", !.category = c])
    BY <1>7 DEF CheckCategory
  <2>2. [NoRequest EXCEPT !.op = "checkedCategory", !.category = c] \in Request
    BY FirstRequests
  <2> QED BY <1>1, <2>1, <2>2 DEF NoRequest
<1>8. CASE CheckUnused(r)
  <2>1. PICK c \in Categories :
            Begins(r, [NoRequest EXCEPT !.op = "unusedCategory", !.category = c])
    BY <1>8 DEF CheckUnused
  <2>2. [NoRequest EXCEPT !.op = "unusedCategory", !.category = c] \in Request
    BY FirstRequests
  <2> QED BY <1>1, <2>1, <2>2 DEF NoRequest
<1>9. CASE CheckSuite(r)
  <2>1. PICK s \in Suites, op \in {"checkedSuite", "unusedSuite"} :
            Begins(r, [NoRequest EXCEPT !.op = op, !.suite = s])
    BY <1>9 DEF CheckSuite
  <2>2. [NoRequest EXCEPT !.op = op, !.suite = s] \in Request
    BY FirstRequests
  <2> QED BY <1>1, <2>1, <2>2 DEF NoRequest
<1>10. CASE CheckStatus(r)
  <2>1. PICK t \in Existing : \E target \in TOURNAMENT_ACTIONS[tournaments[t].status] :
            Begins(r, [NoRequest EXCEPT !.op = "checkedStatus", !.tournament = t,
                                        !.target = target])
    BY <1>10 DEF CheckStatus
  <2>2. TOURNAMENT_ACTIONS[tournaments[t].status] \subseteq Status
    BY Rows DEF TOURNAMENT_ACTIONS, Status, Typed
  <2>3. PICK target \in Status :
            Begins(r, [NoRequest EXCEPT !.op = "checkedStatus", !.tournament = t,
                                        !.target = target])
    BY <2>1, <2>2
  <2>4. [NoRequest EXCEPT !.op = "checkedStatus", !.tournament = t,
                          !.target = target] \in Request
    BY FirstRequests DEF Existing
  <2> QED BY <1>1, <2>3, <2>4 DEF NoRequest
<1>11. CASE StoreUpload(r) \/ DeleteVersion(r) \/ CountReferences(r)
  BY <1>11, HelpersMove DEF StoreUpload, DeleteVersion, CountReferences
<1>12. CASE \/ RefuseUpload(r) \/ RegisterVersion(r) \/ RefuseVersion(r)
             \/ Unlink(r) \/ DeleteEngine(r)
  BY <1>12, HelpersMove DEF RefuseUpload, RegisterVersion, RefuseVersion, Unlink, DeleteEngine
<1>13. CASE CreateTournament(r) \/ UpdateTournament(r) \/ ChangeStatus(r) \/ DeleteTournament(r)
  BY <1>13, HelpersMove DEF CreateTournament, UpdateTournament, ChangeStatus, DeleteTournament
<1>14. CASE UpdateCategory(r) \/ DeleteCategory(r) \/ SaveSuite(r) \/ DeleteSuite(r)
  BY <1>14, HelpersMove DEF UpdateCategory, DeleteCategory, SaveSuite, DeleteSuite
<1> QED BY <1>2, <1>3, <1>4, <1>5, <1>6, <1>7, <1>8, <1>9, <1>10, <1>11,
        <1>12, <1>13, <1>14 DEF Uploads, Removals, Contests, Settings

LEMMA VersionChecked ==
    ASSUME Typed, NEW r \in Requests, CheckVersion(r)
    PROVE  \E v \in Registered :
               /\ requests' = [requests EXCEPT ![r] = requests'[r]]
               /\ requests'[r].op = "checkedVersion" /\ requests'[r].version = v
               /\ requests'[r].content = versions[v].key
<1>1. PICK v \in Registered :
          Begins(r, [NoRequest EXCEPT !.op = "checkedVersion", !.version = v,
                                      !.content = versions[v].key])
  BY DEF CheckVersion
<1> DEFINE request == [NoRequest EXCEPT !.op = "checkedVersion", !.version = v,
                                        !.content = versions[v].key]
<1>2. request \in Request
  BY FirstRequests, Rows DEF Registered, Typed
<1>3. /\ request.op = "checkedVersion" /\ request.version = v
      /\ request.content = versions[v].key
  BY DEF NoRequest
<1> HIDE DEF request
<1>4. requests' = [requests EXCEPT ![r] = requests'[r]] /\ requests'[r] = request
  BY <1>1, <1>2, HelpersMove DEF request
<1> QED BY <1>3, <1>4

LEMMA OthersKeepRequests ==
    ASSUME \/ CreateEngine \/ CreateCategory \/ CreateSuite
           \/ \E t \in Tournaments : PrepareTournament(t) \/ FinishTournament(t)
    PROVE  UNCHANGED requests
BY DEF CreateEngine, CreateCategory, CreateSuite, PrepareTournament, FinishTournament, AtOnce

LEMMA LinkedStep ==
    ASSUME Typed, DraftsLinked, Next
    PROVE  DraftsLinked'
<1> USE DEF Typed, RequestsOK
<1>1. ASSUME NEW r \in Requests, Unrelated(r) PROVE DraftsLinked'
  BY <1>1 DEF DraftsLinked, Unrelated
<1>2. ASSUME NEW r \in Requests, CheckVersion(r) PROVE DraftsLinked'
  <2>1. /\ requests' = [requests EXCEPT ![r] = requests'[r]]
        /\ requests'[r].op = "checkedVersion"
    BY <1>2, VersionChecked
  <2> QED BY <2>1 DEF DraftsLinked
<1>3. ASSUME NEW r \in Requests, ListDrafts(r) PROVE DraftsLinked'
  <2> DEFINE drafts == DraftsOf(requests[r].category)
  <2>1. \A t \in Tournaments : drafts[t] # None => drafts[t].category = requests[r].category
    BY DEF DraftsOf
  <2> HIDE DEF drafts
  <2>2. requests' = [requests EXCEPT ![r] = [requests[r] EXCEPT !.op = "listedDrafts",
                                                                 !.drafts = drafts]]
    BY <1>3 DEF ListDrafts, drafts
  <2>3. /\ requests'[r].drafts = drafts /\ requests'[r].category = requests[r].category
        /\ \A q \in Requests : q # r => requests'[q] = requests[q]
    BY <2>2, Carried DEF Request
  <2> QED BY <2>1, <2>3 DEF DraftsLinked
<1>4. ASSUME UNCHANGED requests PROVE DraftsLinked'
  BY <1>4 DEF DraftsLinked
<1> QED BY <1>1, <1>2, <1>3, <1>4, OthersKeepRequests, NextSteps, Moved

LEMMA ContentsStep ==
    ASSUME Typed, IdsOK, ContentsMatch, Next
    PROVE  ContentsMatch'
<1> USE DEF Typed, RequestsOK
<1>1. /\ issued \subseteq issued'
      /\ \A v \in issued \cap Registered' : v \in Registered /\ versions'[v].key = versions[v].key
  <2>1. issued \subseteq issued'
    BY IdsStep
  <2>2. ASSUME NEW r \in Requests, RegisterVersion(r)
        PROVE  \A v \in issued : versions'[v] = versions[v]
    BY <2>2 DEF RegisterVersion, Fresh, TablesOK
  <2>3. ASSUME NEW r \in Requests, DeleteVersion(r) \/ DeleteEngine(r)
        PROVE  \A v \in Registered' : v \in Registered /\ versions'[v] = versions[v]
    BY <2>3 DEF DeleteVersion, DeleteEngine, Registered, TablesOK
  <2>4. \/ UNCHANGED versions
        \/ \E r \in Requests : RegisterVersion(r) \/ DeleteVersion(r) \/ DeleteEngine(r)
    BY NextSteps, UploadsWrite, RemovalsWrite, ContestsWrite, SettingsWrite
       DEF CreateEngine, CreateCategory, CreateSuite, PrepareTournament, FinishTournament,
           engineTables
  <2>5. CASE UNCHANGED versions
    BY <2>1, <2>5 DEF Registered
  <2>6. ASSUME NEW r \in Requests, RegisterVersion(r)
        PROVE  \A v \in issued \cap Registered' :
                   v \in Registered /\ versions'[v].key = versions[v].key
    BY <2>2, <2>6 DEF Registered
  <2>7. ASSUME NEW r \in Requests, DeleteVersion(r) \/ DeleteEngine(r)
        PROVE  \A v \in issued \cap Registered' :
                   v \in Registered /\ versions'[v].key = versions[v].key
    BY <2>3, <2>7
  <2> QED BY <2>1, <2>4, <2>5, <2>6, <2>7
<1>2. ASSUME NEW r \in Requests, Unrelated(r) PROVE ContentsMatch'
  BY <1>1, <1>2 DEF ContentsMatch, Unrelated
<1>3. ASSUME NEW r \in Requests, CheckVersion(r) PROVE ContentsMatch'
  <2>1. PICK v \in Registered :
            /\ requests' = [requests EXCEPT ![r] = requests'[r]]
            /\ requests'[r].op = "checkedVersion" /\ requests'[r].version = v
            /\ requests'[r].content = versions[v].key
    BY <1>3, VersionChecked
  <2>2. v \in issued
    BY DEF IdsOK
  <2> QED BY <1>1, <2>1, <2>2 DEF ContentsMatch
<1>4. ASSUME NEW r \in Requests, ListDrafts(r) PROVE ContentsMatch'
  <2> DEFINE drafts == DraftsOf(requests[r].category)
  <2> HIDE DEF drafts
  <2>1. requests' = [requests EXCEPT ![r] = [requests[r] EXCEPT !.op = "listedDrafts",
                                                                 !.drafts = drafts]]
    BY <1>4 DEF ListDrafts, drafts
  <2>2. /\ requests'[r].op = "listedDrafts"
        /\ \A q \in Requests : q # r => requests'[q] = requests[q]
    BY <2>1, Carried DEF Request
  <2> QED BY <1>1, <2>2 DEF ContentsMatch
<1>5. ASSUME UNCHANGED requests PROVE ContentsMatch'
  BY <1>1, <1>5 DEF ContentsMatch
<1> QED BY <1>2, <1>3, <1>4, <1>5, OthersKeepRequests, NextSteps, Moved

-----------------------------------------------------------------------------
(* A write insists on what it refers to; a deletion on what refers to it.  *)
LEMMA ReferencesFrame ==
    ASSUME ReferencesHold, UNCHANGED <<engines, versions, categories, tournaments, games>>
    PROVE  ReferencesHold'
BY DEF ReferencesHold, Registered, Existing

(* Nothing is lost from the tables that tournaments refer to, and the      *)
(* tournaments refer to what they did.                                     *)
LEMMA ReferencesKept ==
    ASSUME ReferencesHold, Existing' = Existing,
           UNCHANGED <<engines, versions, categories>>,
           \A t \in Existing :
               /\ tournaments'[t].config = tournaments[t].config
               /\ games'[t].engines \subseteq
                      games[t].engines \cup tournaments[t].config.participants
    PROVE  ReferencesHold'
BY DEF ReferencesHold, Registered

LEMMA VersionsKeepReferences ==
    ASSUME Typed, ReferencesHold, NEW r \in Requests,
           RegisterVersion(r) \/ DeleteVersion(r) \/ DeleteEngine(r)
    PROVE  ReferencesHold'
<1> USE DEF Typed, TablesOK
<1>1. CASE RegisterVersion(r)
  <2>1. PICK v \in Fresh(Versions) :
            versions' = [versions EXCEPT ![v] = [engine |-> requests[r].engine,
                                                 key |-> requests[r].content]]
    BY <1>1 DEF RegisterVersion
  <2>2. requests[r].content \in Contents
    BY <1>1 DEF RegisterVersion, RequestsOK, CarriesContent
  <2>3. [engine |-> requests[r].engine, key |-> requests[r].content] # None
    BY <1>1, <2>2, RegistryAssumption DEF RegisterVersion, VersionRow
  <2>4. Registered' = Registered \cup {v} /\ versions'[v].engine \in engines
    BY <1>1, <2>1, <2>3 DEF Registered, Fresh, RegisterVersion
  <2>5. \A u \in Registered' : versions'[u].engine \in engines
    BY <2>1, <2>4 DEF ReferencesHold, Fresh
  <2>6. UNCHANGED <<engines, categories, tournaments, games>>
    BY <1>1 DEF RegisterVersion, tournamentTables
  <2> QED BY <2>4, <2>5, <2>6 DEF ReferencesHold, Existing
<1>2. CASE DeleteVersion(r)
  <2> DEFINE v == requests[r].version
  <2>1. UNCHANGED <<engines, categories, tournaments, games>>
    BY <1>2 DEF DeleteVersion, tournamentTables
  <2>2. CASE Deletable({v})
    <3>1. versions' = [versions EXCEPT ![v] = None]
      BY <1>2, <2>2 DEF DeleteVersion
    <3>2. Registered' = Registered \ {v}
          /\ \A u \in Registered' : versions'[u] = versions[u]
      BY <3>1 DEF Registered
    <3>3. ~ReferredTo(v)
      BY <2>2 DEF Deletable
    <3> QED BY <2>1, <3>2, <3>3 DEF ReferencesHold, ReferredTo, Existing
  <2>3. CASE ~Deletable({v})
    BY <1>2, <2>1, <2>3, ReferencesFrame DEF DeleteVersion
  <2> QED BY <2>2, <2>3
<1>3. CASE DeleteEngine(r)
  <2> DEFINE e == requests[r].engine
             gone == VersionsOf(e)
  <2>1. UNCHANGED <<categories, tournaments, games>>
    BY <1>3 DEF DeleteEngine, tournamentTables
  <2>2. CASE Deletable(gone)
    <3>1. /\ engines' = engines \ {e}
          /\ versions' = [v \in Versions |-> IF v \in gone THEN None ELSE versions[v]]
      BY <1>3, <2>2 DEF DeleteEngine
    <3>2. Registered' = Registered \ gone
          /\ \A u \in Registered' : versions'[u] = versions[u]
      BY <3>1 DEF Registered
    <3>3. \A u \in Registered' : versions'[u].engine \in engines'
      BY <3>1, <3>2 DEF ReferencesHold, VersionsOf
    <3>4. \A v \in gone : ~ReferredTo(v)
      BY <2>2 DEF Deletable
    <3> QED BY <2>1, <3>2, <3>3, <3>4 DEF ReferencesHold, ReferredTo, Existing
  <2>3. CASE ~Deletable(gone)
    BY <1>3, <2>1, <2>3, ReferencesFrame DEF DeleteEngine
  <2> QED BY <2>2, <2>3
<1> QED BY <1>1, <1>2, <1>3

LEMMA TournamentsKeepReferences ==
    ASSUME Typed, Typed', GamesOK, ReferencesHold, NEW r \in Requests,
           \/ CreateTournament(r) \/ UpdateTournament(r) \/ ChangeStatus(r)
           \/ DeleteTournament(r)
    PROVE  ReferencesHold'
<1> USE DEF Typed, TablesOK
<1>0. UNCHANGED <<engines, versions, categories>>
  BY DEF CreateTournament, UpdateTournament, ChangeStatus, DeleteTournament, engineTables
<1>1. ASSUME NEW t \in Existing', Insertable(tournaments'[t].config),
             Existing' \subseteq Existing \cup {t},
             \A u \in Existing' \ {t} : tournaments'[u] = tournaments[u],
             UNCHANGED games
      PROVE  ReferencesHold'
  <2>1. games'[t].engines \subseteq Registered
    BY <1>1 DEF ReferencesHold, GamesOK, NoGames, Existing
  <2> QED BY <1>0, <1>1, <2>1 DEF ReferencesHold, Insertable, Registered
<1>2. CASE CreateTournament(r)
  <2> DEFINE row == [status |-> "draft", config |-> requests[r].config]
  <2>1. CASE Insertable(requests[r].config)
    <3>1. PICK t \in Fresh(Tournaments) : tournaments' = [tournaments EXCEPT ![t] = row]
      BY <1>2, <2>1 DEF CreateTournament
    <3>2. row # None
      <4>1. "draft" \in Status /\ requests[r].config \in Config
        BY Carried DEF Status
      <4>2. row \in TournamentRow
        BY <4>1, RowTypes
      <4> QED BY <4>2, RegistryAssumption
    <3>3. /\ t \in Existing' /\ tournaments'[t].config = requests[r].config
          /\ Existing' \subseteq Existing \cup {t}
          /\ \A u \in Existing' \ {t} : tournaments'[u] = tournaments[u]
      BY <3>1, <3>2 DEF Fresh, Existing
    <3> QED BY <1>1, <1>2, <2>1, <3>3 DEF CreateTournament
  <2>2. CASE ~Insertable(requests[r].config)
    BY <1>0, <1>2, <2>2, ReferencesFrame DEF CreateTournament
  <2> QED BY <2>1, <2>2
<1>3. CASE UpdateTournament(r)
  <2> DEFINE t == requests[r].tournament
             c == requests[r].config
  <2>1. CASE t \in Existing /\ Insertable(c)
    <3>1. tournaments' = [tournaments EXCEPT ![t] = [tournaments[t] EXCEPT !.config = c]]
      BY <1>3, <2>1 DEF UpdateTournament, Rewritten
    <3>2. [tournaments[t] EXCEPT !.config = c].config = c
      BY <2>1, Rows DEF TournamentRow
    <3>3. /\ tournaments'[t].config = c
          /\ \A u \in Tournaments \ {t} : tournaments'[u] = tournaments[u]
      BY <2>1, <3>1, <3>2 DEF Existing
    <3>4. Existing' = Existing
      BY <1>3, RowsStay
    <3> QED BY <1>1, <1>3, <2>1, <3>3, <3>4 DEF UpdateTournament, Existing
  <2>2. CASE ~(t \in Existing /\ Insertable(c))
    BY <1>0, <1>3, <2>2, ReferencesFrame DEF UpdateTournament
  <2> QED BY <2>1, <2>2
<1>4. CASE ChangeStatus(r)
  <2> DEFINE t == requests[r].tournament
  <2>1. CASE t \in Existing
    BY <1>0, <1>4, <2>1, Carried, StatusMoves, ReferencesKept DEF ChangeStatus
  <2>2. CASE t \notin Existing
    BY <1>0, <1>4, <2>2, ReferencesFrame DEF ChangeStatus
  <2> QED BY <2>1, <2>2
<1>5. CASE DeleteTournament(r)
  <2> DEFINE t == requests[r].tournament
  <2>1. /\ Existing' \subseteq Existing
        /\ \A u \in Existing' : tournaments'[u] = tournaments[u] /\ games'[u] = games[u]
    BY <1>5 DEF DeleteTournament, Existing
  <2> QED BY <1>0, <2>1 DEF ReferencesHold, Registered
<1> QED BY <1>2, <1>3, <1>4, <1>5

LEMMA CategoriesKeepReferences ==
    ASSUME Typed, Typed', DraftsLinked, ReferencesHold, NEW r \in Requests,
           UpdateCategory(r) \/ DeleteCategory(r)
    PROVE  ReferencesHold'
<1> USE DEF Typed, TablesOK
<1> DEFINE c == requests[r].category
<1>1. UNCHANGED <<engines, versions, games>>
  BY DEF UpdateCategory, DeleteCategory, engineTables, tournamentTables
<1>2. CASE UpdateCategory(r)
  <2>1. ASSUME NEW active \in BOOLEAN, NEW drafts \in {requests[r].drafts, NoRequest.drafts},
               categories[c] # None, Propagates(drafts, active),
               categories' = [categories EXCEPT ![c] = active],
               tournaments' = [t \in Tournaments |->
                         IF drafts[t] = None THEN tournaments[t]
                         ELSE [tournaments[t] EXCEPT !.config = drafts[t]]]
        PROVE  ReferencesHold'
    <3>1. drafts \in [Tournaments -> Config \cup {None}]
      BY Carried, BlankRequest DEF Request
    <3>2. \A t \in Tournaments : drafts[t] # None => drafts[t].category = c
      BY <1>2 DEF UpdateCategory, DraftsLinked, NoRequest
    <3>3. Existing' = Existing
      BY <1>2, RowsStay
    <3>4. \A d \in Categories : categories[d] # None => categories'[d] # None
      BY <2>1, RegistryAssumption
    <3>5. \A t \in Existing : drafts[t] # None =>
              /\ tournaments'[t].config = drafts[t]
              /\ drafts[t].participants \subseteq Registered
      BY <2>1, <3>1, Rows DEF Propagates, TournamentRow, Existing
    <3>6. \A t \in Existing : drafts[t] = None => tournaments'[t] = tournaments[t]
      BY <2>1 DEF Existing
    <3>7. ASSUME NEW t \in Existing
          PROVE  /\ tournaments'[t].config.participants \cup games[t].engines \subseteq Registered
                 /\ tournaments'[t].config.category # None
                        => categories'[tournaments'[t].config.category] # None
      <4>1. CASE drafts[t] = None
        <5>1. tournaments[t].config.category \in Categories \cup {None}
          BY Rows DEF Config
        <5> QED BY <3>4, <3>6, <4>1, <5>1 DEF ReferencesHold
      <4>2. CASE drafts[t] # None
        <5>1. t \in Tournaments /\ drafts[t] \in Config
          BY <3>1, <4>2 DEF Existing
        <5>2. drafts[t].category = c /\ c \in Categories \cup {None}
          BY <3>2, <4>2, <5>1 DEF Config
        <5> QED BY <2>1, <3>4, <3>5, <4>2, <5>2 DEF ReferencesHold
      <4> QED BY <4>1, <4>2
    <3> QED BY <1>1, <3>3, <3>7 DEF ReferencesHold, Registered
  <2>2. CASE UNCHANGED <<categories, tournaments>>
    BY <1>1, <2>2, ReferencesFrame
  <2> QED BY <1>2, <2>1, <2>2 DEF UpdateCategory
<1>3. CASE DeleteCategory(r)
  <2>1. UNCHANGED tournaments
    BY <1>3 DEF DeleteCategory, tournamentTables
  <2>2. CASE Rated(c)
    BY <1>1, <1>3, <2>1, <2>2, ReferencesFrame DEF DeleteCategory
  <2>3. CASE ~Rated(c)
    <3>1. categories' = [categories EXCEPT ![c] = None]
      BY <1>3, <2>3 DEF DeleteCategory
    <3>2. \A t \in Existing : tournaments[t].config.category # c
      BY <2>3 DEF Rated
    <3>3. \A t \in Existing : tournaments[t].config.category \in Categories \cup {None}
      BY Rows DEF Config
    <3> QED BY <1>1, <2>1, <3>1, <3>2, <3>3 DEF ReferencesHold, Registered, Existing
  <2> QED BY <2>2, <2>3
<1> QED BY <1>2, <1>3

LEMMA ReferencesStep ==
    ASSUME Typed, Typed', GamesOK, DraftsLinked, ReferencesHold, Next
    PROVE  ReferencesHold'
<1>1. ASSUME NEW r \in Requests, Uploads(r) PROVE ReferencesHold'
  BY <1>1, UploadsWrite, ReferencesFrame, VersionsKeepReferences
<1>2. ASSUME NEW r \in Requests, Removals(r) PROVE ReferencesHold'
  BY <1>2, RemovalsWrite, ReferencesFrame, VersionsKeepReferences
<1>3. ASSUME NEW r \in Requests, Contests(r) PROVE ReferencesHold'
  BY <1>3, ContestsWrite, ReferencesFrame, TournamentsKeepReferences
<1>4. ASSUME NEW r \in Requests, Settings(r) PROVE ReferencesHold'
  BY <1>4, SettingsWrite, ReferencesFrame, CategoriesKeepReferences
<1>5. CASE CreateEngine
  BY <1>5 DEF CreateEngine, ReferencesHold, Registered, Existing, tournamentTables
<1>6. CASE CreateCategory
  <2>1. \A d \in Categories : categories[d] # None => categories'[d] # None
    BY <1>6, RegistryAssumption DEF CreateCategory, Typed, TablesOK
  <2>2. \A t \in Existing : tournaments[t].config.category \in Categories \cup {None}
    BY Rows DEF Config, Typed
  <2> QED BY <1>6, <2>1, <2>2 DEF CreateCategory, ReferencesHold, Registered, Existing,
          tournamentTables
<1>7. CASE CreateSuite
  BY <1>7, ReferencesFrame DEF CreateSuite, tournamentTables
<1>8. ASSUME NEW t \in Tournaments, PrepareTournament(t) PROVE ReferencesHold'
  <2>1. /\ Existing' = Existing
        /\ \A u \in Existing : tournaments'[u].config = tournaments[u].config
    BY <1>8, StatusMoves DEF PrepareTournament, Status
  <2>2. \A u \in Existing : games'[u].engines \subseteq
            games[u].engines \cup tournaments[u].config.participants
    BY <1>8 DEF PrepareTournament, Typed, TablesOK, Existing
  <2>3. UNCHANGED <<engines, versions, categories>>
    BY <1>8 DEF PrepareTournament, engineTables
  <2> QED BY <2>1, <2>2, <2>3, ReferencesKept
<1>9. ASSUME NEW t \in Tournaments, FinishTournament(t) PROVE ReferencesHold'
  BY <1>9, StatusMoves, ReferencesKept DEF FinishTournament, Status, engineTables
<1> QED BY <1>1, <1>2, <1>3, <1>4, <1>5, <1>6, <1>7, <1>8, <1>9, NextSteps

-----------------------------------------------------------------------------
(* Files.                                                                  *)
Looking == {"stored", "deletedVersion", "unlink"}

LEMMA OneMoves ==
    ASSUME Typed, NEW r \in Requests, Uploads(r) \/ Removals(r) \/ Contests(r) \/ Settings(r)
    PROVE  requests' = [requests EXCEPT ![r] = requests'[r]]
<1>1. ASSUME ListDrafts(r) PROVE requests' = [requests EXCEPT ![r] = requests'[r]]
  <2> DEFINE drafts == DraftsOf(requests[r].category)
             request == [requests[r] EXCEPT !.op = "listedDrafts", !.drafts = drafts]
  <2>1. requests' = [requests EXCEPT ![r] = request]
    BY <1>1 DEF ListDrafts, Typed, RequestsOK
  <2> HIDE DEF request
  <2> QED BY <2>1 DEF Typed, RequestsOK
<1> QED BY <1>1, Moved, VersionChecked DEF Unrelated

LEMMA OneLooks ==
    ASSUME Typed, NEW r \in Requests, requests' = [requests EXCEPT ![r] = requests'[r]],
           NEW c, LooksAgain(c)
    PROVE  LooksAgain(c)' \/ (requests[r].op \in Looking /\ requests[r].content = c)
BY DEF LooksAgain, Looking, Typed, RequestsOK

(* Who may be looking for orphans when a step begins.                      *)
LEMMA Lookers ==
    ASSUME Typed, NEW r \in Requests, requests[r].op \in Looking,
           Uploads(r) \/ Removals(r) \/ Contests(r) \/ Settings(r)
    PROVE  RegisterVersion(r) \/ RefuseVersion(r) \/ CountReferences(r) \/ Unlink(r)
BY DEF Looking, Uploads, Removals, Contests, Settings, ReceiveUpload, StoreUpload, RefuseUpload,
   CheckVersion, DeleteVersion, CheckEngine, DeleteEngine, ValidateTournament,
   CreateTournament, CheckDraft, UpdateTournament, CheckStatus, ChangeStatus, CheckDeletion,
   DeleteTournament, CheckCategory, ListDrafts, UpdateCategory, CheckUnused, DeleteCategory,
   CheckSuite, SaveSuite, DeleteSuite, Begins

LEMMA OrphansFrame ==
    ASSUME Typed, OrphansAreRemoved, UNCHANGED <<versions, artifacts, abandoned>>,
           NEW r \in Requests, requests' = [requests EXCEPT ![r] = requests'[r]],
           requests[r].op \notin Looking
    PROVE  OrphansAreRemoved'
BY OneLooks DEF OrphansAreRemoved, Keys, Registered

(* A handler is done with its content when the file is removed or left.    *)
LEMMA DoneLooking ==
    ASSUME Typed, OrphansAreRemoved, NEW r \in Requests, versions' = versions,
           requests' = [requests EXCEPT ![r] = requests'[r]],
           Removed(requests[r].content) \/ LeftBehind(requests[r].content)
    PROVE  OrphansAreRemoved'
<1> DEFINE content == requests[r].content
<1>1. Keys' = Keys
  BY DEF Keys, Registered
<1>2. ASSUME NEW c \in artifacts', c # content PROVE c \in Keys \cup abandoned' \/ LooksAgain(c)'
  <2>1. c \in artifacts /\ (c \in abandoned => c \in abandoned')
    BY <1>2 DEF Removed, LeftBehind
  <2>2. LooksAgain(c) => LooksAgain(c)'
    BY <1>2, OneLooks
  <2> QED BY <2>1, <2>2 DEF OrphansAreRemoved
<1>3. content \in artifacts' => content \in Keys \cup abandoned'
  BY DEF Removed, LeftBehind
<1> QED BY <1>1, <1>2, <1>3 DEF OrphansAreRemoved

LEMMA UploadsLeaveNoOrphans ==
    ASSUME Typed, IdsOK, OrphansAreRemoved, NEW r \in Requests, Uploads(r)
    PROVE  OrphansAreRemoved'
<1> USE DEF Typed, TablesOK
<1> DEFINE content == requests[r].content
<1>0. requests' = [requests EXCEPT ![r] = requests'[r]]
  BY OneMoves
<1>1. CASE ReceiveUpload(r)
  BY <1>0, <1>1, Lookers, OrphansFrame DEF ReceiveUpload, engineTables, files, Begins, Looking
<1>2. CASE StoreUpload(r)
  <2>1. /\ artifacts' = artifacts \cup {content} /\ UNCHANGED <<versions, abandoned>>
        /\ requests[r].op = "upload"
    BY <1>2 DEF StoreUpload, engineTables
  <2>2. requests'[r].op = "stored" /\ requests'[r].content = content
    BY <1>2, HelpersMove, Carried DEF StoreUpload, Request
  <2>3. \A c : c = content => LooksAgain(c)'
    BY <2>2 DEF LooksAgain
  <2>4. \A c \in Contents : LooksAgain(c) => LooksAgain(c)'
    BY <1>0, <2>1, OneLooks DEF Looking
  <2> QED BY <2>1, <2>3, <2>4 DEF OrphansAreRemoved, Keys, Registered
<1>3. CASE RegisterVersion(r)
  <2>1. PICK v \in Fresh(Versions) :
            versions' = [versions EXCEPT ![v] = [engine |-> requests[r].engine,
                                                 key |-> content]]
    BY <1>3 DEF RegisterVersion
  <2>2. content \in Contents
    BY <1>3 DEF RegisterVersion, RequestsOK, CarriesContent
  <2>3. [engine |-> requests[r].engine, key |-> content] # None
    BY <1>3, <2>2, RegistryAssumption DEF RegisterVersion, VersionRow
  <2>4. v \in Versions /\ v \notin Registered
    BY DEF Fresh, IdsOK
  <2>5. /\ Registered' = Registered \cup {v} /\ versions'[v].key = content
        /\ \A u \in Registered : versions'[u] = versions[u]
    BY <2>1, <2>3, <2>4 DEF Registered
  <2>6. Keys' = Keys \cup {content}
    BY <2>5 DEF Keys
  <2>7. artifacts' = artifacts /\ abandoned' = abandoned \ {content}
    BY <1>3 DEF RegisterVersion
  <2> QED BY <1>0, <2>6, <2>7, OneLooks DEF OrphansAreRemoved
<1>4. CASE RefuseVersion(r)
  <2>1. versions' = versions /\ (Removed(content) \/ LeftBehind(content))
    BY <1>4 DEF RefuseVersion, engineTables
  <2> QED BY <1>0, <2>1, DoneLooking
<1>5. CASE RefuseUpload(r)
  <2>1. /\ requests[r].op = "upload" /\ versions' = versions
        /\ \/ UNCHANGED <<artifacts, abandoned>>
           \/ /\ artifacts' = artifacts \cup {content}
              /\ abandoned' = abandoned \cup ({content} \ Keys)
    BY <1>5 DEF RefuseUpload, engineTables, files
  <2>2. \A c \in Contents : LooksAgain(c) => LooksAgain(c)'
    BY <1>0, <2>1, OneLooks DEF Looking
  <2>3. Keys' = Keys
    BY <2>1 DEF Keys, Registered
  <2>4. \A c \in artifacts' : c \in artifacts \/ c \in Keys' \cup abandoned'
    BY <2>1, <2>3
  <2>5. abandoned \subseteq abandoned'
    BY <2>1
  <2> QED BY <2>2, <2>3, <2>4, <2>5 DEF OrphansAreRemoved
<1> QED BY <1>1, <1>2, <1>3, <1>4, <1>5 DEF Uploads

LEMMA RemovalsLeaveNoOrphans ==
    ASSUME Typed, ContentsMatch, OrphansAreRemoved, NEW r \in Requests, Removals(r)
    PROVE  OrphansAreRemoved'
<1> USE DEF Typed, TablesOK
<1> DEFINE content == requests[r].content
<1>0. requests' = [requests EXCEPT ![r] = requests'[r]]
  BY OneMoves
<1>1. CASE CheckVersion(r) \/ CheckEngine(r)
  <2>1. requests[r].op \notin Looking
    BY <1>1 DEF CheckVersion, CheckEngine, Begins, Looking
  <2>2. UNCHANGED <<versions, artifacts, abandoned>>
    BY <1>1 DEF CheckVersion, CheckEngine, engineTables, files
  <2> QED BY <1>0, <2>1, <2>2, OrphansFrame
<1>2. CASE DeleteVersion(r)
  <2> DEFINE v == requests[r].version
  <2>0. requests[r].op = "checkedVersion" /\ UNCHANGED <<artifacts, abandoned>>
    BY <1>2 DEF DeleteVersion, files
  <2>1. \A c \in Contents : LooksAgain(c) => LooksAgain(c)'
    BY <1>0, <2>0, OneLooks DEF Looking
  <2>2. CASE Deletable({v})
    <3>1. versions' = [versions EXCEPT ![v] = None] /\ Continues(r, "deletedVersion")
      BY <1>2, <2>2 DEF DeleteVersion
    <3>2. requests'[r].op = "deletedVersion" /\ requests'[r].content = content
      BY <3>1, HelpersMove, Carried DEF Request
    <3>3. \A c : c = content => LooksAgain(c)'
      BY <3>2 DEF LooksAgain
    <3>4. Registered' = Registered \ {v}
          /\ \A u \in Registered' : versions'[u] = versions[u]
      BY <3>1 DEF Registered
    <3>5. v \in Registered => versions[v].key = content
      BY <2>0 DEF ContentsMatch
    <3>6. \A c \in Keys : c \in Keys' \/ c = content
      BY <3>4, <3>5 DEF Keys
    <3> QED BY <2>0, <2>1, <3>3, <3>6 DEF OrphansAreRemoved
  <2>3. CASE ~Deletable({v})
    BY <1>0, <1>2, <2>0, <2>3, OrphansFrame DEF DeleteVersion, Looking
  <2> QED BY <2>2, <2>3
<1>3. CASE CountReferences(r)
  <2>0. versions' = versions
    BY <1>3 DEF CountReferences, engineTables
  <2>1. CASE LeftBehind(content)
    BY <1>0, <2>0, <2>1, DoneLooking
  <2>2. CASE Continues(r, "unlink") /\ UNCHANGED files
    <3>1. requests'[r].op = "unlink" /\ requests'[r].content = content
      BY <2>2, HelpersMove, Carried DEF Request
    <3>2. \A c : c = content => LooksAgain(c)'
      BY <3>1 DEF LooksAgain
    <3>3. UNCHANGED <<artifacts, abandoned>>
      BY <2>2 DEF files
    <3> QED BY <1>0, <2>0, <3>2, <3>3, OneLooks DEF OrphansAreRemoved, Keys, Registered
  <2> QED BY <1>3, <2>1, <2>2 DEF CountReferences
<1>4. CASE Unlink(r)
  <2>1. versions' = versions /\ (Removed(content) \/ LeftBehind(content))
    BY <1>4 DEF Unlink, engineTables
  <2> QED BY <1>0, <2>1, DoneLooking
<1>5. CASE DeleteEngine(r)
  <2> DEFINE gone == VersionsOf(requests[r].engine)
  <2>0. requests[r].op = "checkedEngine" /\ UNCHANGED artifacts
    BY <1>5 DEF DeleteEngine
  <2>1. CASE Deletable(gone)
    <3>1. abandoned' = abandoned \cup (Keys \ Keys')
      BY <1>5, <2>1 DEF DeleteEngine
    <3>2. \A c \in Keys : c \in Keys' \cup abandoned'
      BY <3>1
    <3> QED BY <1>0, <2>0, <3>1, <3>2, OneLooks DEF OrphansAreRemoved, Looking
  <2>2. CASE ~Deletable(gone)
    BY <1>0, <1>5, <2>0, <2>2, OrphansFrame DEF DeleteEngine, Looking
  <2> QED BY <2>1, <2>2
<1> QED BY <1>1, <1>2, <1>3, <1>4, <1>5 DEF Removals

LEMMA OrphansStep ==
    ASSUME Typed, IdsOK, ContentsMatch, OrphansAreRemoved, Next
    PROVE  OrphansAreRemoved'
<1>1. ASSUME NEW r \in Requests, Contests(r) \/ Settings(r) PROVE OrphansAreRemoved'
  <2>1. requests' = [requests EXCEPT ![r] = requests'[r]]
    BY <1>1, OneMoves
  <2>2. UNCHANGED <<versions, artifacts, abandoned>>
    BY <1>1, ContestsWrite, SettingsWrite
  <2>3. requests[r].op \notin Looking
    BY <1>1 DEF Looking, Contests, Settings, ValidateTournament, CreateTournament,
       CheckDraft, UpdateTournament, CheckStatus, ChangeStatus, CheckDeletion,
       DeleteTournament, CheckCategory, ListDrafts, UpdateCategory, CheckUnused,
       DeleteCategory, CheckSuite, SaveSuite, DeleteSuite, Begins
  <2> QED BY <2>1, <2>2, <2>3, OrphansFrame
<1>2. ASSUME \/ CreateEngine \/ CreateCategory \/ CreateSuite
             \/ \E t \in Tournaments : PrepareTournament(t) \/ FinishTournament(t)
      PROVE  OrphansAreRemoved'
  <2>1. UNCHANGED <<versions, artifacts, abandoned, requests>>
    BY <1>2, OthersKeepRequests DEF CreateEngine, CreateCategory, CreateSuite,
       PrepareTournament, FinishTournament, engineTables, files
  <2> QED BY <2>1 DEF OrphansAreRemoved, Keys, Registered, LooksAgain
<1> QED BY <1>1, <1>2, NextSteps, UploadsLeaveNoOrphans, RemovalsLeaveNoOrphans

-----------------------------------------------------------------------------
(* The invariant, and what it means.                                       *)
LEMMA InitRegistry == Init => RegistryInv
<1> SUFFICES ASSUME Init PROVE RegistryInv
  OBVIOUS
<1>1. Typed
  BY InitTyped
<1>2. IdsOK /\ GamesOK
  BY DEF Init, IdsOK, GamesOK
<1>3. DraftsLinked /\ ContentsMatch
  BY DEF Init, DraftsLinked, ContentsMatch, NoRequest
<1>4. \A v \in Registered : versions[v].engine \in engines
  BY DEF Init, Registered
<1>5. Existing = {}
  BY DEF Init, Existing
<1>6. ReferencesHold
  BY <1>4, <1>5 DEF ReferencesHold
<1>7. OrphansAreRemoved
  BY DEF Init, OrphansAreRemoved
<1> QED BY <1>1, <1>2, <1>3, <1>6, <1>7 DEF RegistryInv

LEMMA RegistryStep == RegistryInv /\ [Next]_vars => RegistryInv'
<1> SUFFICES ASSUME RegistryInv, [Next]_vars PROVE RegistryInv'
  OBVIOUS
<1>1. Typed'
  BY TypedStep DEF RegistryInv
<1>2. CASE Next
  <2>1. IdsOK' /\ GamesOK'
    BY <1>1, <1>2, IdsStep, GamesStep DEF RegistryInv
  <2>2. DraftsLinked' /\ ContentsMatch'
    BY <1>2, LinkedStep, ContentsStep DEF RegistryInv
  <2>3. ReferencesHold' /\ OrphansAreRemoved'
    BY <1>1, <1>2, ReferencesStep, OrphansStep DEF RegistryInv
  <2> QED BY <1>1, <2>1, <2>2, <2>3 DEF RegistryInv
<1>3. CASE UNCHANGED vars
  BY <1>1, <1>3 DEF vars, RegistryInv, IdsOK, GamesOK, DraftsLinked, ContentsMatch,
     ReferencesHold, OrphansAreRemoved, LooksAgain, Keys, Registered, Existing
<1> QED BY <1>2, <1>3

(* Tables, files and handlers keep their domains: in particular a handler  *)
(* that is to store or to remove a file carries a content.                 *)
THEOREM TypeCorrect == Spec => []TypeOK
<1>1. RegistryInv => TypeOK
  BY DEF RegistryInv, Typed, TablesOK, RequestsOK, TypeOK
<1> QED BY InitRegistry, RegistryStep, <1>1, PTL DEF Spec

(* However requests overlap, no version is left without its engine and no  *)
(* tournament or game without its versions and its category                *)
(* (cope/db/repo.py, the foreign keys and what the handlers insist on).    *)
THEOREM References == Spec => []ReferencesHold
<1>1. RegistryInv => ReferencesHold
  BY DEF RegistryInv
<1> QED BY InitRegistry, RegistryStep, <1>1, PTL DEF Spec

(* However uploads and deletions of one content overlap and fail, a file   *)
(* stays behind only if its version went with the engine, or an error kept *)
(* a handler from storing, counting or removing                            *)
(* (_store_engine_upload, _remove_unreferenced_artifact).                  *)
THEOREM OrphansRemoved == Spec => []OrphansAreRemoved
<1>1. RegistryInv => OrphansAreRemoved
  BY DEF RegistryInv
<1> QED BY InitRegistry, RegistryStep, <1>1, PTL DEF Spec
=============================================================================
