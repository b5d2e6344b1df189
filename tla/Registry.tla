------------------------------- MODULE Registry -------------------------------
(***************************************************************************)
(* What administrators register: engines and the versions uploaded for     *)
(* them, rating categories, opening suites and tournaments                 *)
(* (cope/web/api.py, the forms of cope/web/app.py, cope/db/repo.py).       *)
(*                                                                         *)
(* A request is handled in steps: it reads and checks, on the event loop   *)
(* or in a thread, then writes and commits, and sometimes cleans up after  *)
(* that.  Requests run side by side; between two steps of one, others      *)
(* commit.  A write is one transaction, in which the database refuses a    *)
(* row that refers to no other and a deletion of a row that is referred    *)
(* to.  The binaries of the versions are files named by their content, in  *)
(* a directory beside the database.                                        *)
(***************************************************************************)
EXTENDS Naturals, FiniteSets

CONSTANTS
    Families,      \* ids of engines
    Versions,      \* ids of engine versions
    Contents,      \* of binaries; storage_key is the SHA-256 of the content
    Categories,    \* ids of rating categories
    Suites,        \* ids of opening suites
    Tournaments,   \* ids of tournaments
    Configs,       \* the configurations that administrators submit
    Requests,      \* requests under way at a time
    MaxRequests,   \* bounds the requests of a behaviour
    None

Ids == Families \cup Versions \cup Categories \cup Suites \cup Tournaments

Config == [participants : SUBSET Versions, category : Categories \cup {None},
           suite : Suites \cup {None}]

Status == {"draft", "scheduled", "running", "paused", "finished", "aborted"}
VersionRow == [engine : Families, key : Contents]
TournamentRow == [status : Status, config : Config]

(* None is no id, no content and no row.                                   *)
ASSUME RegistryAssumption ==
    /\ Configs \subseteq Config
    /\ MaxRequests \in Nat
    /\ None \notin Ids \cup Contents \cup BOOLEAN
    /\ None \notin VersionRow /\ None \notin TournamentRow /\ None \notin Config

VARIABLES
    engines,      \* families in the table engines
    versions,     \* table engine_versions: the family and the content of each
    issued,       \* ids that were given out (the tables' sequences)
    artifacts,    \* the files in the directory
    categories,   \* table categories: the active flag of each
    suites,       \* table openings: the save that a suite's rows come from
    saves,        \* saves so far; each gives the openings new ids
    tournaments,  \* table tournaments, and participants
    games,        \* what the games of a tournament refer to
    requests,     \* handlers under way
    served,       \* requests so far
    abandoned     \* contents whose file nobody is going to look at (history)

vars == <<engines, versions, issued, artifacts, categories, suites, saves,
          tournaments, games, requests, served, abandoned>>
files == <<artifacts, abandoned>>
engineTables == <<engines, versions, issued>>
openingTables == <<suites, saves>>
tournamentTables == <<tournaments, games>>

TOURNAMENT_ACTIONS ==
    [draft |-> {"scheduled"}, scheduled |-> {"paused", "aborted"},
     running |-> {"paused", "aborted"}, paused |-> {"scheduled", "aborted"},
     finished |-> {}, aborted |-> {}]

GameRow == [engines : SUBSET Versions, opening : Nat]
NoGames == [engines |-> {}, opening |-> 0]

Ops == {"none", "upload", "stored", "checkedVersion", "deletedVersion", "unlink",
        "checkedEngine", "validated", "checkedDraft", "checkedStatus",
        "checkedDeletion", "checkedCategory", "listedDrafts", "unusedCategory",
        "checkedSuite", "unusedSuite"}
Request == [op : Ops,
            engine : Families \cup {None}, version : Versions \cup {None},
            content : Contents \cup {None}, category : Categories \cup {None},
            suite : Suites \cup {None}, tournament : Tournaments \cup {None},
            config : Config, target : Status,
            drafts : [Tournaments -> Config \cup {None}]]
NoConfig == [participants |-> {}, category |-> None, suite |-> None]
NoRequest == [op |-> "none", engine |-> None, version |-> None, content |-> None,
              category |-> None, suite |-> None, tournament |-> None,
              config |-> NoConfig, target |-> "draft",
              drafts |-> [t \in Tournaments |-> None]]

Registered == {v \in Versions : versions[v] # None}
Keys == {versions[v].key : v \in Registered}
Existing == {t \in Tournaments : tournaments[t] # None}
Fresh(ids) == ids \ issued

-----------------------------------------------------------------------------
(* The first step of a request, and its end.                               *)
Begins(r, request) ==
    /\ requests[r].op = "none" /\ served < MaxRequests
    /\ requests' = [requests EXCEPT ![r] = request]
    /\ served' = served + 1
AtOnce == /\ served < MaxRequests /\ served' = served + 1
          /\ UNCHANGED requests
Continues(r, op) == requests' = [requests EXCEPT ![r].op = op] /\ UNCHANGED served
Ends(r) == requests' = [requests EXCEPT ![r] = NoRequest] /\ UNCHANGED served

-----------------------------------------------------------------------------
(* Registering an engine, and uploading a version of it.                   *)
CreateEngine ==
    /\ AtOnce
    /\ \E e \in Fresh(Families) : engines' = engines \cup {e} /\ issued' = issued \cup {e}
    /\ UNCHANGED <<versions, files, categories, openingTables, tournamentTables>>

ReceiveUpload(r) ==
    /\ \E e \in engines, c \in Contents :
           Begins(r, [NoRequest EXCEPT !.op = "upload", !.engine = e, !.content = c])
    /\ UNCHANGED <<engineTables, files, categories, openingTables, tournamentTables>>

(* A file of that content that is there already is kept.                   *)
StoreUpload(r) ==
    /\ requests[r].op = "upload"
    /\ artifacts' = artifacts \cup {requests[r].content}
    /\ Continues(r, "stored")
    /\ UNCHANGED <<engineTables, abandoned, categories, openingTables, tournamentTables>>

(* A file that somebody has removed, and one that is left behind.          *)
Removed(content) == artifacts' = artifacts \ {content} /\ abandoned' = abandoned \ {content}
LeftBehind(content) == UNCHANGED artifacts /\ abandoned' = abandoned \cup ({content} \ Keys)

(* It cannot be stored; when setting its mode or closing the upload is     *)
(* what fails, the file has its name already, and stays.                   *)
RefuseUpload(r) ==
    LET content == requests[r].content
    IN  /\ requests[r].op = "upload"
        /\ \/ UNCHANGED files
           \/ /\ artifacts' = artifacts \cup {content}
              /\ abandoned' = abandoned \cup ({content} \ Keys)
        /\ Ends(r)
        /\ UNCHANGED <<engineTables, categories, openingTables, tournamentTables>>

(* The row refers to its engine; the version's name may be taken as well.  *)
RegisterVersion(r) ==
    /\ requests[r].op = "stored" /\ requests[r].engine \in engines
    /\ \E v \in Fresh(Versions) :
           /\ versions' = [versions EXCEPT ![v] = [engine |-> requests[r].engine,
                                                   key |-> requests[r].content]]
           /\ issued' = issued \cup {v}
    /\ abandoned' = abandoned \ {requests[r].content}
    /\ Ends(r)
    /\ UNCHANGED <<engines, artifacts, categories, openingTables, tournamentTables>>

(* _remove_unreferenced_artifact.  What an upload finds unreferenced can   *)
(* become referenced by another upload only, and both are on the loop: the *)
(* count and the removal are one step for it.  An error of the removal is  *)
(* logged and one of the rollback or the count goes up: the file stays.    *)
Unreferenced(content) == content \notin Keys

RefuseVersion_Keeps(r) ==
    /\ requests[r].op = "stored"
    /\ Ends(r)
    /\ UNCHANGED <<engineTables, files, categories, openingTables, tournamentTables>>

RefuseVersion(r) ==
    /\ requests[r].op = "stored"
    /\ \/ Unreferenced(requests[r].content) /\ Removed(requests[r].content)
       \/ LeftBehind(requests[r].content)
    /\ Ends(r)
    /\ UNCHANGED <<engineTables, categories, openingTables, tournamentTables>>

-----------------------------------------------------------------------------
(* Deleting a version, and its engine.                                     *)
ReferredTo(v) ==
    \E t \in Existing : v \in tournaments[t].config.participants \cup games[t].engines

CheckVersion(r) ==
    /\ \E v \in Registered :
           /\ ~ReferredTo(v)
           /\ Begins(r, [NoRequest EXCEPT !.op = "checkedVersion", !.version = v,
                                          !.content = versions[v].key])
    /\ UNCHANGED <<engineTables, files, categories, openingTables, tournamentTables>>

Deletable_Unchecked(vs) == TRUE
Deletable(vs) == \A v \in vs : ~ReferredTo(v)

DeleteVersion(r) ==
    LET v == requests[r].version
    IN  /\ requests[r].op = "checkedVersion"
        /\ IF Deletable({v})
           THEN versions' = [versions EXCEPT ![v] = None] /\ Continues(r, "deletedVersion")
           ELSE UNCHANGED versions /\ Ends(r)
        /\ UNCHANGED <<engines, issued, files, categories, openingTables, tournamentTables>>

CountReferences(r) ==
    /\ requests[r].op = "deletedVersion"
    /\ \/ Unreferenced(requests[r].content) /\ Continues(r, "unlink") /\ UNCHANGED files
       \/ LeftBehind(requests[r].content) /\ Ends(r)
    /\ UNCHANGED <<engineTables, categories, openingTables, tournamentTables>>

Unlink(r) ==
    /\ requests[r].op = "unlink"
    /\ Removed(requests[r].content) \/ LeftBehind(requests[r].content)
    /\ Ends(r)
    /\ UNCHANGED <<engineTables, categories, openingTables, tournamentTables>>

CheckEngine(r) ==
    /\ \E e \in engines :
           /\ \A v \in Registered : versions[v].engine # e
           /\ Begins(r, [NoRequest EXCEPT !.op = "checkedEngine", !.engine = e])
    /\ UNCHANGED <<engineTables, files, categories, openingTables, tournamentTables>>

(* A version that was uploaded since goes with its engine; nobody looks    *)
(* after its file.                                                         *)
VersionsOf(e) == {v \in Registered : versions[v].engine = e}

DeleteEngine(r) ==
    LET gone == VersionsOf(requests[r].engine)
    IN  /\ requests[r].op = "checkedEngine"
        /\ IF Deletable(gone)
           THEN /\ engines' = engines \ {requests[r].engine}
                /\ versions' = [v \in Versions |-> IF v \in gone THEN None ELSE versions[v]]
                /\ abandoned' = abandoned \cup (Keys \ Keys')
           ELSE UNCHANGED <<engines, versions, abandoned>>
        /\ Ends(r)
        /\ UNCHANGED <<issued, artifacts, categories, openingTables, tournamentTables>>

-----------------------------------------------------------------------------
(* Tournaments.  Both the API and the form come to                         *)
(* _resolve_tournament_category_config, which wants an active category.    *)
Resolvable(config) == config.category # None => categories[config.category] = TRUE

(* What the write itself insists on: the rows that it refers to.           *)
Insertable_Unchecked(config) == TRUE

Insertable(config) ==
    /\ config.participants \subseteq Registered
    /\ config.category # None => categories[config.category] # None

ValidateTournament(r) ==
    /\ \E config \in Configs :
           /\ Resolvable(config)
           /\ Begins(r, [NoRequest EXCEPT !.op = "validated", !.config = config])
    /\ UNCHANGED <<engineTables, files, categories, openingTables, tournamentTables>>

CreateTournament(r) ==
    /\ requests[r].op = "validated"
    /\ IF Insertable(requests[r].config)
       THEN \E t \in Fresh(Tournaments) :
                /\ tournaments' = [tournaments EXCEPT ![t] =
                                      [status |-> "draft", config |-> requests[r].config]]
                /\ issued' = issued \cup {t}
       ELSE UNCHANGED <<tournaments, issued>>
    /\ Ends(r)
    /\ UNCHANGED <<engines, versions, files, categories, openingTables, games>>

CheckDraft(r) ==
    /\ \E t \in Existing, config \in Configs :
           /\ tournaments[t].status = "draft" /\ Resolvable(config)
           /\ Begins(r, [NoRequest EXCEPT !.op = "checkedDraft", !.tournament = t,
                                          !.config = config])
    /\ UNCHANGED <<engineTables, files, categories, openingTables, tournamentTables>>

(* By id, whatever the status is by now; the participants of a tournament  *)
(* that is gone refer to nothing.                                          *)
Rewritten(table, t, config) == [table EXCEPT ![t].config = config]

UpdateTournament(r) ==
    LET t == requests[r].tournament
    IN  /\ requests[r].op = "checkedDraft"
        /\ tournaments' = IF t \in Existing /\ Insertable(requests[r].config)
                          THEN Rewritten(tournaments, t, requests[r].config) ELSE tournaments
        /\ Ends(r)
        /\ UNCHANGED <<engineTables, files, categories, openingTables, games>>

CheckStatus(r) ==
    /\ \E t \in Existing : \E target \in TOURNAMENT_ACTIONS[tournaments[t].status] :
           Begins(r, [NoRequest EXCEPT !.op = "checkedStatus", !.tournament = t,
                                       !.target = target])
    /\ UNCHANGED <<engineTables, files, categories, openingTables, tournamentTables>>

ChangeStatus(r) ==
    LET t == requests[r].tournament
    IN  /\ requests[r].op = "checkedStatus"
        /\ tournaments' = IF t \in Existing
                          THEN [tournaments EXCEPT ![t].status = requests[r].target]
                          ELSE tournaments
        /\ Ends(r)
        /\ UNCHANGED <<engineTables, files, categories, openingTables, games>>

CheckDeletion(r) ==
    /\ \E t \in Existing :
           /\ tournaments[t].status \notin {"scheduled", "running"}
           /\ Begins(r, [NoRequest EXCEPT !.op = "checkedDeletion", !.tournament = t])
    /\ UNCHANGED <<engineTables, files, categories, openingTables, tournamentTables>>

DeleteTournament(r) ==
    LET t == requests[r].tournament
    IN  /\ requests[r].op = "checkedDeletion"
        /\ tournaments' = [tournaments EXCEPT ![t] = None]
        /\ games' = [games EXCEPT ![t] = NoGames]
        /\ Ends(r)
        /\ UNCHANGED <<engineTables, files, categories, openingTables>>

(* The scheduler opens a tournament: its games take the openings that the  *)
(* suite has now.  A tournament whose games are there keeps them.          *)
PrepareTournament(t) ==
    /\ t \in Existing /\ tournaments[t].status = "scheduled"
    /\ LET config == tournaments[t].config
       IN games' = IF games[t] # NoGames THEN games
                   ELSE [games EXCEPT ![t] =
                            [engines |-> config.participants,
                             opening |-> IF config.suite = None THEN 0
                                         ELSE suites[config.suite]]]
    /\ tournaments' = [tournaments EXCEPT ![t].status = "running"]
    /\ UNCHANGED <<engineTables, files, categories, openingTables, requests, served>>

(* All its games are over, or one was abandoned.                           *)
FinishTournament(t) ==
    /\ t \in Existing /\ tournaments[t].status = "running" /\ games[t] # NoGames
    /\ \E status \in {"finished", "aborted"} :
           tournaments' = [tournaments EXCEPT ![t].status = status]
    /\ UNCHANGED <<engineTables, files, categories, openingTables, games, requests, served>>

-----------------------------------------------------------------------------
(* Categories.  An update is copied to the linked drafts, in one           *)
(* transaction that lists them first.                                      *)
CreateCategory ==
    /\ AtOnce
    /\ \E c \in Fresh(Categories), active \in BOOLEAN :
           categories' = [categories EXCEPT ![c] = active] /\ issued' = issued \cup {c}
    /\ UNCHANGED <<engines, versions, files, openingTables, tournamentTables>>

CheckCategory(r) ==
    /\ \E c \in Categories :
           /\ categories[c] # None
           /\ Begins(r, [NoRequest EXCEPT !.op = "checkedCategory", !.category = c])
    /\ UNCHANGED <<engineTables, files, categories, openingTables, tournamentTables>>

DraftsOf(c) ==
    [t \in Tournaments |->
        IF t \in Existing /\ tournaments[t].status = "draft"
                          /\ tournaments[t].config.category = c
        THEN tournaments[t].config ELSE None]

(* The transaction has locked the row of its category when it lists.       *)
Locked(c) == \E r \in Requests : requests[r].op = "listedDrafts" /\ requests[r].category = c

ListDrafts(r) ==
    /\ requests[r].op = "checkedCategory" /\ ~Locked(requests[r].category)
    /\ requests' = [requests EXCEPT ![r].op = "listedDrafts",
                                    ![r].drafts = DraftsOf(requests[r].category)]
    /\ UNCHANGED <<engineTables, files, categories, openingTables, tournamentTables, served>>

(* The drafts are written as they were listed, and only while the category *)
(* is active; one that refuses undoes the whole transaction.  The form     *)
(* writes the category alone.                                              *)
Propagates(drafts, active) ==
    \A t \in Tournaments :
        drafts[t] # None => /\ active
                            /\ t \in Existing
                            /\ drafts[t].participants \subseteq Registered

UpdateCategory(r) ==
    LET c == requests[r].category
    IN  /\ requests[r].op = "listedDrafts"
        /\ \/ \E active \in BOOLEAN, drafts \in {requests[r].drafts, NoRequest.drafts} :
                  /\ categories[c] # None /\ Propagates(drafts, active)
                  /\ categories' = [categories EXCEPT ![c] = active]
                  /\ tournaments' = [t \in Tournaments |->
                         IF drafts[t] = None THEN tournaments[t]
                         ELSE [tournaments[t] EXCEPT !.config = drafts[t]]]
           \/ UNCHANGED <<categories, tournaments>>
        /\ Ends(r)
        /\ UNCHANGED <<engineTables, files, openingTables, games>>

Rated(c) == \E t \in Existing : tournaments[t].config.category = c

CheckUnused(r) ==
    /\ \E c \in Categories :
           /\ categories[c] # None /\ ~Rated(c)
           /\ Begins(r, [NoRequest EXCEPT !.op = "unusedCategory", !.category = c])
    /\ UNCHANGED <<engineTables, files, categories, openingTables, tournamentTables>>

DeleteCategory(r) ==
    LET c == requests[r].category
    IN  /\ requests[r].op = "unusedCategory" /\ ~Locked(c)
        /\ categories' = IF Rated(c) THEN categories ELSE [categories EXCEPT ![c] = None]
        /\ Ends(r)
        /\ UNCHANGED <<engineTables, files, openingTables, tournamentTables>>

-----------------------------------------------------------------------------
(* Opening suites.  The API refuses to delete one that a tournament names; *)
(* the form does not look.                                                 *)
CreateSuite ==
    /\ AtOnce
    /\ \E s \in Fresh(Suites) :
           suites' = [suites EXCEPT ![s] = saves + 1] /\ issued' = issued \cup {s}
    /\ saves' = saves + 1
    /\ UNCHANGED <<engines, versions, files, categories, tournamentTables>>

CheckSuite(r) ==
    /\ \E s \in Suites, op \in {"checkedSuite", "unusedSuite"} :
           /\ suites[s] # 0
           /\ Begins(r, [NoRequest EXCEPT !.op = op, !.suite = s])
    /\ UNCHANGED <<engineTables, files, categories, openingTables, tournamentTables>>

(* replace_suite_openings deletes the rows of the suite and inserts them   *)
(* again, whatever the mode of the import; a suite that is gone has none.  *)
SaveSuite(r) ==
    LET s == requests[r].suite
    IN  /\ requests[r].op = "checkedSuite"
        /\ IF suites[s] # 0
           THEN saves' = saves + 1 /\ suites' = [suites EXCEPT ![s] = saves + 1]
           ELSE UNCHANGED openingTables
        /\ Ends(r)
        /\ UNCHANGED <<engineTables, files, categories, tournamentTables>>

DeleteSuite(r) ==
    /\ requests[r].op = "unusedSuite"
    /\ suites' = [suites EXCEPT ![requests[r].suite] = 0]
    /\ Ends(r)
    /\ UNCHANGED <<engineTables, files, categories, saves, tournamentTables>>

-----------------------------------------------------------------------------
(* Any installation whose tables and files agree, without tournaments.     *)
Init ==
    /\ engines \in SUBSET Families
    /\ versions \in [Versions -> [engine : engines, key : Contents] \cup {None}]
    /\ artifacts = Keys
    /\ categories \in [Categories -> BOOLEAN \cup {None}]
    /\ suites \in [Suites -> {0, 1}]
    /\ issued = engines \cup Registered \cup {c \in Categories : categories[c] # None}
                    \cup {s \in Suites : suites[s] # 0}
    /\ saves = 1
    /\ tournaments = [t \in Tournaments |-> None]
    /\ games = [t \in Tournaments |-> NoGames]
    /\ requests = [r \in Requests |-> NoRequest]
    /\ served = 0
    /\ abandoned = {}

Next ==
    \/ \E r \in Requests :
          \/ ReceiveUpload(r) \/ StoreUpload(r) \/ RefuseUpload(r)
          \/ RegisterVersion(r) \/ RefuseVersion(r)
          \/ CheckVersion(r) \/ DeleteVersion(r) \/ CountReferences(r) \/ Unlink(r)
          \/ CheckEngine(r) \/ DeleteEngine(r)
          \/ ValidateTournament(r) \/ CreateTournament(r)
          \/ CheckDraft(r) \/ UpdateTournament(r) \/ CheckStatus(r) \/ ChangeStatus(r)
          \/ CheckDeletion(r) \/ DeleteTournament(r)
          \/ CheckCategory(r) \/ ListDrafts(r) \/ UpdateCategory(r)
          \/ CheckUnused(r) \/ DeleteCategory(r)
          \/ CheckSuite(r) \/ SaveSuite(r) \/ DeleteSuite(r)
    \/ CreateEngine \/ CreateCategory \/ CreateSuite
    \/ \E t \in Tournaments : PrepareTournament(t) \/ FinishTournament(t)

Spec == Init /\ [][Next]_vars

-----------------------------------------------------------------------------
(* Every table and every handler's variables keep their domains; ids are   *)
(* given out once.                                                         *)
TypeOK ==
    /\ engines \subseteq Families
    /\ versions \in [Versions -> VersionRow \cup {None}]
    /\ issued \subseteq Ids
    /\ artifacts \subseteq Contents
    /\ categories \in [Categories -> BOOLEAN \cup {None}]
    /\ suites \in [Suites -> Nat]
    /\ saves \in Nat
    /\ tournaments \in [Tournaments -> TournamentRow \cup {None}]
    /\ games \in [Tournaments -> GameRow]
    /\ requests \in [Requests -> Request]
    /\ served \in Nat
    /\ abandoned \subseteq Contents

(* Whatever was checked before a row is written or deleted, and however    *)
(* much of it has changed since: no version is without its engine, and no  *)
(* tournament, nor its games, without a version or a category.             *)
ReferencesHold ==
    /\ \A v \in Registered : versions[v].engine \in engines
    /\ \A t \in Existing :
           /\ tournaments[t].config.participants \cup games[t].engines \subseteq Registered
           /\ tournaments[t].config.category # None
                  => categories[tournaments[t].config.category] # None

(* A file is some version's, or a request is under way that will look at   *)
(* it again ("Uploaded binary data is removed when no other version uses   *)
(* it.", EngineFormPage.vue): uploads of one content may overlap, fail and *)
(* be cleaned up while other versions of that content are deleted.  Only a *)
(* version that goes with its engine leaves its file behind, and a handler *)
(* that an error stops short of storing, counting or removing, until that  *)
(* content is registered or removed again.                                 *)
LooksAgain(c) ==
    \E r \in Requests : /\ requests[r].op \in {"stored", "deletedVersion", "unlink"}
                        /\ requests[r].content = c
OrphansAreRemoved == \A c \in artifacts : c \in Keys \cup abandoned \/ LooksAgain(c)

(* The opening of a game that was created is still there.  A recorded move *)
(* is legal only on the board that the game began from: without the        *)
(* opening "recorded move ... is illegal at ply ..." ends the assignment.  *)
GamesKeepTheirOpenings ==
    \A t \in Existing :
        games[t].opening # 0 => \E s \in Suites : suites[s] = games[t].opening
=============================================================================
