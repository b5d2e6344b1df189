----------------------------- MODULE ArtifactCache -----------------------------
(***************************************************************************)
(* One engine's binary in a machine's cache (_ensure_artifact in           *)
(* cope/worker/uci_engine.py).  The cache is a directory that all worker   *)
(* processes of the machine share.  A preparation takes the artifact's     *)
(* lock, looks, downloads into a temporary directory where it must, and    *)
(* renames that into place; a process may die anywhere on the way, which   *)
(* frees its lock and leaves its files.                                    *)
(***************************************************************************)
EXTENDS Integers, FiniteSets

CONSTANTS
    Preparers,    \* the calls of UciEngineProcess.prepare for this binary
    Mortal,       \* the preparers whose process may die on the way
    MaxMishaps    \* bound: deaths, damages, expired and unrecorded failures

ASSUME CacheAssumption ==
    IsFiniteSet(Preparers) /\ Mortal \subseteq Preparers /\ MaxMishaps \in Nat

VARIABLES
    sourceDir,    \* the cache directory of the artifact
    temporary,    \* its directory under .tmp
    failure,      \* a failure file younger than the cooldown exists
    preparers,    \* how far each preparation is
    downloads,    \* downloads begun (history)
    mishaps       \* deaths, damages, expired and unrecorded failures (history)

cacheVars == <<sourceDir, temporary, failure, preparers, downloads, mishaps>>

Locked == {"looking", "downloading", "installing"}
LockFree == \A p \in Preparers : preparers[p] \notin Locked
Moves(p, from, to) ==
    preparers[p] = from /\ preparers' = [preparers EXCEPT ![p] = to]
Mishap == mishaps < MaxMishaps /\ mishaps' = mishaps + 1

CacheInit ==
    /\ sourceDir = "absent" /\ temporary = "absent"
    /\ failure = FALSE
    /\ preparers = [p \in Preparers |-> "idle"]
    /\ downloads = 0 /\ mishaps = 0

(* _exclusive_artifact_lock: a thread lock inside the process and a file   *)
(* lock between processes; the kernel frees a dead process's.              *)
Lock_Anyone(p) ==
    /\ Moves(p, "waiting", "looking")
    /\ UNCHANGED <<sourceDir, temporary, failure, downloads, mishaps>>
Lock(p) ==
    /\ LockFree
    /\ Moves(p, "waiting", "looking")
    /\ UNCHANGED <<sourceDir, temporary, failure, downloads, mishaps>>

(* The file of the lock cannot be made or opened.                          *)
LockFails(p) ==
    /\ Moves(p, "waiting", "failed")
    /\ UNCHANGED <<sourceDir, temporary, failure, downloads, mishaps>>

(* _artifact_is_ready reads marker, size and hash anew every time.         *)
ArtifactIsReady_Never == FALSE
ArtifactIsReady == sourceDir = "ready"
Hit(p) ==
    /\ ArtifactIsReady
    /\ Moves(p, "looking", "prepared")
    /\ UNCHANGED <<sourceDir, temporary, failure, downloads, mishaps>>

(* _recent_artifact_failure: somebody on this machine just failed.         *)
RecentFailure_Forgotten == FALSE
RecentFailure == failure
Suppressed(p) ==
    /\ ~ArtifactIsReady /\ RecentFailure
    /\ Moves(p, "looking", "failed")
    /\ UNCHANGED <<sourceDir, temporary, failure, downloads, mishaps>>

(* What a dead process left is removed before the download begins; where   *)
(* it cannot be removed, the attempt can only fail.                        *)
StartDownload(p) ==
    /\ ~ArtifactIsReady /\ ~RecentFailure
    /\ Moves(p, "looking", "downloading")
    /\ sourceDir' \in {"absent", sourceDir} /\ temporary' = "partial"
    /\ downloads' = downloads + 1
    /\ UNCHANGED <<failure, mishaps>>

(* All bytes there, hash and size as registered, marker written.           *)
Verify(p) ==
    /\ sourceDir = "absent"
    /\ Moves(p, "downloading", "installing")
    /\ temporary' = "verified"
    /\ UNCHANGED <<sourceDir, failure, downloads, mishaps>>

(* os.replace, and the failure file goes.                                  *)
Installed == IF temporary = "verified" THEN "ready" ELSE "damaged"
Install(p) ==
    /\ Moves(p, "installing", "prepared")
    /\ sourceDir' = Installed
    /\ temporary' = "absent" /\ failure' = FALSE
    /\ UNCHANGED <<downloads, mishaps>>

(* _record_artifact_failure swallows the OSError of a file that cannot be  *)
(* written, as on a full filesystem: then nobody learns of the failure.    *)
RecordFailure ==
    \/ failure' = TRUE /\ UNCHANGED mishaps
    \/ Mishap /\ UNCHANGED failure

(* The download, the verification or the installation raises, the last     *)
(* also when the directory is in place and an old failure file cannot be   *)
(* removed.  The temporary directory may be impossible to remove, too.     *)
DownloadFails(p) ==
    /\ \/ Moves(p, "downloading", "failed") /\ UNCHANGED sourceDir
       \/ Moves(p, "installing", "failed") /\ sourceDir' \in {sourceDir, Installed}
    /\ temporary' \in {"absent", temporary}
    /\ RecordFailure
    /\ UNCHANGED downloads

(* The cooldown of a failure file passes, or a look cannot read it.        *)
CooldownEnds ==
    /\ Mishap /\ failure
    /\ failure' = FALSE
    /\ UNCHANGED <<sourceDir, temporary, preparers, downloads>>

(* The disk or somebody on the machine damages the installed files, or a   *)
(* look cannot read them.                                                  *)
Damage ==
    /\ Mishap /\ sourceDir = "ready"
    /\ sourceDir' = "damaged"
    /\ UNCHANGED <<temporary, failure, preparers, downloads>>

(* A worker process is killed in a preparation and started again.          *)
Dies(p) ==
    /\ Mishap /\ preparers[p] \in Locked
    /\ preparers' = [preparers EXCEPT ![p] = "waiting"]
    /\ UNCHANGED <<sourceDir, temporary, failure, downloads>>

Prepares(p) == Lock(p) \/ Hit(p) \/ Suppressed(p) \/ StartDownload(p)
               \/ Verify(p) \/ Install(p) \/ DownloadFails(p)

(* A preparation of some assignment begins.                                *)
Begin(P) ==
    /\ \A p \in P : preparers[p] = "idle"
    /\ preparers' = [p \in Preparers |-> IF p \in P THEN "waiting" ELSE preparers[p]]
    /\ UNCHANGED <<sourceDir, temporary, failure, downloads, mishaps>>

CacheNext ==
    \/ \E p \in Preparers : Prepares(p) \/ LockFails(p)
    \/ \E P \in SUBSET Preparers : Begin(P)
    \/ CooldownEnds \/ Damage \/ \E p \in Mortal : Dies(p)

CacheSpec == CacheInit /\ [][CacheNext]_cacheVars

CacheTypeOK ==
    /\ sourceDir \in {"absent", "ready", "damaged"}
    /\ temporary \in {"absent", "partial", "verified"}
    /\ failure \in BOOLEAN
    /\ preparers \in [Preparers -> Locked \cup {"idle", "waiting", "prepared", "failed"}]
    /\ downloads \in Nat /\ mishaps \in 0 .. MaxMishaps

(* What is installed is what was verified, whoever died while writing it,  *)
(* and no preparation removes an intact artifact that others may run from. *)
IntactArtifactsStay ==
    [][/\ sourceDir = "ready" => sourceDir' = "ready" \/ mishaps' # mishaps
       /\ sourceDir' = "damaged" => sourceDir = "damaged" \/ mishaps' # mishaps]_cacheVars

(* The machine asks the server for a binary once, and once more for every  *)
(* cooldown that passed, damaged copy, death in a download and failure     *)
(* that could not be written down, however many slots want it and whether  *)
(* or not the server answers.  A filesystem that stays full may take no    *)
(* failure file at all: each slot then downloads anew.                     *)
DownloadsAreShared ==
    /\ downloads <= 1 + mishaps
    /\ Cardinality({p \in Preparers : preparers[p] \in Locked}) <= 1
=============================================================================
