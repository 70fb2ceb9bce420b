------------------------------ MODULE ModelSync ------------------------------
(***************************************************************************)
(* How one registered model reaches the trading loop: the API sets the     *)
(* production alias and inserts a deployment row (api/routers/models.py),  *)
(* ModelSyncDaemon downloads the version and puts it into models_dir       *)
(* (store/model_sync.py), ModelRegistry scans models_dir and serves what   *)
(* it can load (model_registry.py, main.scan_models).                      *)
(*                                                                         *)
(* The daemon's poll and its Redis listener work in threads of their own,  *)
(* on the same directories, while the event loop scans them: the steps     *)
(* here are single file operations, requests and commits.  Different       *)
(* models touch different directories and rows, so one model is modelled.  *)
(***************************************************************************)
EXTENDS Integers, Sequences, FiniteSets

CONSTANTS
    LastVersion,    \* bound: the versions are 1..LastVersion
    MaxAttempts,    \* model_sync.max_download_attempts
    MaxRows,        \* bound: deployment rows
    Scenes          \* the circumstances to be examined, see Scene

Versions == 1..LastVersion
Workers == {"poll", "listener"}
Files == {"manifest", "backtest", "onnx"}

\* How a version was logged: completely; with the network stored apart from the
\* run's artifacts; without a run, a backtest, any network, or a manifest
Kinds == {"good", "split", "unlogged", "bare", "headless", "anonymous"}

\* publish: model.ready with an artifact prefix; trigger: model.ready without;
\* retry: retry-deploy; demote; delete; rollback: promotion of an older version
\* expire: backtest.schedule_enabled, on which the expiry of deployments hangs;
\* unreachable: the download of a network stored apart may fail
Events == {"publish", "trigger", "retry", "demote", "delete", "rollback", "expire",
           "unreachable"}

Scene == [
    kind : [Versions -> Kinds],
    unhashed : SUBSET Versions,     \* model_hash in the manifest is "unknown"
    events : SUBSET Events,
    changes : Nat,          \* bound: API calls and messages
    crashes : Nat,          \* bound: crashes
    overlap : BOOLEAN]      \* do the daemon's threads go on during a scan?

ASSUME SyncAssumption ==
    /\ LastVersion \in Nat /\ MaxAttempts \in Nat \ {0} /\ MaxRows \in Nat
    /\ Scenes \subseteq Scene

VARIABLES
    \* outside
    prod,       \* the version of the production alias, 0 for none
    rows,       \* table model_deployments: the status of each row, oldest first
    \* models_dir
    dir,        \* dir[p]: .tmp/<name> ("staging"), <name>.tmp ("copy"), <name> ("model")
    record,     \* .sync/<name>
    \* the process
    fails,      \* _download_fail_counts
    workers,
    scan,       \* the registry's scan of models_dir
    served,     \* by_run_name: versions of the manifest and of the network
    api,        \* the rest of an API call
    changes, crashes,
    scene       \* never changes

diskVars == <<dir, record>>
outVars == <<prod, rows>>
scanVars == <<scan, served>>
envVars == <<api, changes, crashes, scene>>
vars == <<outVars, diskVars, fails, workers, scanVars, envVars>>

-----------------------------------------------------------------------------
Places == {"staging", "copy", "model"}
Nothing == [f \in Files |-> 0]
NoDir == [on |-> FALSE, file |-> Nothing]
EmptyDir == [on |-> TRUE, file |-> Nothing]
NoRecord == [status |-> "none", version |-> 0]
Synced(v) == [status |-> "ok", version |-> v]
Failed(v) == [status |-> "FAILED", version |-> v]
IdleWorker == [pc |-> "idle", via |-> "mlflow", v |-> 0, left |-> {}, bad |-> FALSE]
IdleScan == [pc |-> "idle", todo |-> <<>>, m |-> 0, found |-> [manifest |-> 0, net |-> 0]]
NotServed == [manifest |-> 0, net |-> 0]

\* The files that a version has among its run's artifacts
Logged(v) ==
    CASE scene.kind[v] = "good" -> Files
      [] scene.kind[v] = "unlogged" -> {}
      [] scene.kind[v] = "bare" -> Files \ {"backtest"}
      [] scene.kind[v] = "anonymous" -> Files \ {"manifest"}
      [] scene.kind[v] \in {"split", "headless"} -> Files \ {"onnx"}

\* The files of an installed version
Complete(v) == Logged(v) \cup (IF scene.kind[v] = "split" THEN {"onnx"} ELSE {})
Installed(v) == dir["model"] = [on |-> TRUE, file |-> [f \in Files |-> IF f \in Complete(v) THEN v ELSE 0]]

\* The latest row that is still launching, 0 for none
Latest == LET L == {n \in 1..Len(rows) : rows[n] = "launching"}
          IN IF L = {} THEN 0 ELSE CHOOSE n \in L : \A k \in L : k <= n

\* mark_active and mark_failed
Mark(status) == rows' = IF Latest = 0 THEN rows ELSE [rows EXCEPT ![Latest] = status]

Init ==
    /\ prod = 0 /\ rows = <<>>
    /\ dir = [p \in Places |-> NoDir] /\ record = NoRecord
    /\ fails = [v \in Versions |-> 0]
    /\ workers = [w \in Workers |-> IdleWorker]
    /\ scan = IdleScan /\ served = NotServed
    /\ api = "idle" /\ changes = 0 /\ crashes = 0
    /\ scene \in Scenes

-----------------------------------------------------------------------------
\* A thread of the daemon is at `pc`
At(w, pc) == workers[w].pc = pc
Version(w) == workers[w].v
Goto(w, pc) == workers' = [workers EXCEPT ![w].pc = pc]
Leave(w) == workers' = [workers EXCEPT ![w] = IdleWorker]
Clear(p) == dir' = [dir EXCEPT ![p] = NoDir]

\* The production alias is asked for; without one the model is skipped
AskAlias(w) ==
    /\ prod # 0
    /\ workers' = [workers EXCEPT ![w] = [IdleWorker EXCEPT !.pc = "compare", !.v = prod]]
    /\ UNCHANGED <<outVars, diskVars, fails, scanVars, api, crashes, scene>>

PollStarts == At("poll", "idle") /\ AskAlias("poll") /\ UNCHANGED changes

\* A model.ready message makes the listener poll
Triggered ==
    /\ "trigger" \in scene.events /\ changes < scene.changes
    /\ At("listener", "idle") /\ AskAlias("listener") /\ changes' = changes + 1

\* Mutant: a version that failed is taken for one that is installed
CompareRecovering(w) ==
    /\ At(w, "compare")
    /\ IF record.version = Version(w)
       THEN Mark("active") /\ Leave(w)
       ELSE Goto(w, "clean") /\ UNCHANGED rows
    /\ UNCHANGED <<prod, diskVars, fails, scanVars, envVars>>

\* The version was synced (a row left launching is recovered) or has failed
\* for good; else it is downloaded
Compare(w) ==
    /\ At(w, "compare")
    /\ IF record = Synced(Version(w)) THEN Mark("active") /\ Leave(w)
       ELSE IF record = Failed(Version(w)) THEN UNCHANGED rows /\ Leave(w)
       ELSE Goto(w, "clean") /\ UNCHANGED rows
    /\ UNCHANGED <<prod, diskVars, fails, scanVars, envVars>>

\* Mutant: what an interrupted download left behind is kept
CleanKept(w) ==
    /\ At(w, "clean")
    /\ IF scene.kind[Version(w)] = "unlogged"
       THEN Clear("staging") /\ Goto(w, "fail")
       ELSE /\ dir' = [dir EXCEPT !["staging"].on = TRUE]
            /\ workers' = [workers EXCEPT ![w].pc = "download", ![w].left = Logged(Version(w))]
    /\ UNCHANGED <<outVars, record, fails, scanVars, envVars>>

Clean(w) ==
    /\ At(w, "clean")
    /\ IF scene.kind[Version(w)] = "unlogged"
       THEN Clear("staging") /\ Goto(w, "fail")
       ELSE /\ dir' = [dir EXCEPT !["staging"] = EmptyDir]
            /\ workers' = [workers EXCEPT ![w].pc = "download", ![w].left = Logged(Version(w))]
    /\ UNCHANGED <<outVars, record, fails, scanVars, envVars>>

\* A model.ready message with an artifact prefix: _sync_from_minio does not
\* clean the staging directory
Published ==
    /\ "publish" \in scene.events /\ changes < scene.changes
    /\ At("listener", "idle")
    /\ \E v \in Versions :
        /\ Logged(v) # {}
        /\ workers' = [workers EXCEPT !["listener"] =
               [pc |-> "download", via |-> "minio", v |-> v, left |-> Logged(v), bad |-> FALSE]]
    /\ dir' = [dir EXCEPT !["staging"].on = TRUE]
    /\ changes' = changes + 1
    /\ UNCHANGED <<outVars, record, fails, scanVars, api, crashes, scene>>

\* One file arrives (in a directory made for it, if need be)
Download(w) ==
    /\ At(w, "download")
    /\ \E f \in workers[w].left :
        /\ dir' = [dir EXCEPT !["staging"].on = TRUE, !["staging"].file[f] = Version(w)]
        /\ workers' = [workers EXCEPT ![w].left = @ \ {f}]
    /\ UNCHANGED <<outVars, record, fails, scanVars, envVars>>

\* _download_fail_counts.pop
Forgiven(v) == fails' = [fails EXCEPT ![v] = 0]

Downloaded(w) ==
    /\ At(w, "download") /\ workers[w].left = {}
    /\ Goto(w, "inspect")
    /\ IF workers[w].via = "mlflow" THEN Forgiven(Version(w)) ELSE UNCHANGED fails
    /\ UNCHANGED <<outVars, diskVars, scanVars, envVars>>

\* Mutant: failures are not counted
GiveUpNever(w) == Leave(w) /\ UNCHANGED fails

\* A download failed: counted, and after the last attempt permanent.  The
\* count survives the failure, and a download from MinIO is not counted.
GiveUp(w) ==
    IF workers[w].via = "mlflow"
    THEN /\ fails' = [fails EXCEPT ![Version(w)] = @ + 1]
         /\ IF fails[Version(w)] + 1 >= MaxAttempts THEN Goto(w, "fail") ELSE Leave(w)
    ELSE Leave(w) /\ UNCHANGED fails

DownloadFails(w) ==
    /\ At(w, "download") \/ (At(w, "fetch") /\ "unreachable" \in scene.events)
    /\ Clear("staging")
    /\ GiveUp(w)
    /\ UNCHANGED <<outVars, record, scanVars, envVars>>

-----------------------------------------------------------------------------
Has(p, f) == dir[p].file[f] # 0
Required(w) == IF workers[w].via = "mlflow" THEN {"backtest"} ELSE {"manifest", "onnx"}

\* Mutant: a network stored elsewhere is not looked for
InspectStrict(w) ==
    /\ At(w, "inspect")
    /\ IF \A f \in Required(w) \cup {"onnx"} : Has("staging", f)
       THEN Goto(w, "copy") /\ UNCHANGED dir
       ELSE Clear("staging") /\ Goto(w, "fail")
    /\ UNCHANGED <<outVars, record, fails, scanVars, envVars>>

\* A required file is missing: permanent.  Only the network is: it is fetched
\* from the logged model.
Inspect(w) ==
    /\ At(w, "inspect")
    /\ IF \A f \in Required(w) : Has("staging", f)
       THEN Goto(w, IF Has("staging", "onnx") THEN "copy" ELSE "fetch") /\ UNCHANGED dir
       ELSE Clear("staging") /\ Goto(w, "fail")
    /\ UNCHANGED <<outVars, record, fails, scanVars, envVars>>

\* The logged model is there; it has a network or not
Fetch(w) ==
    /\ At(w, "fetch")
    /\ IF scene.kind[Version(w)] = "headless"
       THEN Clear("staging") /\ Goto(w, "fail")
       ELSE dir' = [dir EXCEPT !["staging"] = [on |-> TRUE, file |-> [@.file EXCEPT !["onnx"] = Version(w)]]]
            /\ Goto(w, "copy")
    /\ Forgiven(Version(w))
    /\ UNCHANGED <<outVars, record, scanVars, envVars>>

\* _permanently_fail: the record, then the row
FailRecorded(w) ==
    /\ At(w, "fail")
    /\ record' = Failed(Version(w))
    /\ Goto(w, "failing")
    /\ UNCHANGED <<outVars, dir, fails, scanVars, envVars>>

FailMarked(w) ==
    /\ At(w, "failing")
    /\ Mark("failed") /\ Leave(w)
    /\ UNCHANGED <<prod, diskVars, fails, scanVars, envVars>>

-----------------------------------------------------------------------------
\* An exception in _promote ends the poll; after a publication the staging
\* directory is removed
Raise(w) ==
    /\ Leave(w)
    /\ IF workers[w].via = "minio" THEN Clear("staging") ELSE UNCHANGED dir

\* _promote: an old copy is removed, then the files of the staging directory
\* are copied one by one; a missing directory raises at once
CopyStarts(w) ==
    /\ At(w, "copy")
    /\ IF dir["staging"].on
       THEN /\ dir' = [dir EXCEPT !["copy"] = EmptyDir]
            /\ workers' = [workers EXCEPT ![w].pc = "copying",
                                          ![w].left = {f \in Files : Has("staging", f)}]
       ELSE /\ Leave(w)
            /\ dir' = [p \in Places |-> IF p = "copy" \/ (workers[w].via = "minio" /\ p = "staging")
                                         THEN NoDir ELSE dir[p]]
    /\ UNCHANGED <<outVars, record, fails, scanVars, envVars>>

\* A file that cannot be copied is noted, and copytree raises at its end
CopyFile(w) ==
    /\ At(w, "copying")
    /\ \E f \in workers[w].left :
        IF Has("staging", f) /\ dir["copy"].on
        THEN /\ dir' = [dir EXCEPT !["copy"].file[f] = dir["staging"].file[f]]
             /\ workers' = [workers EXCEPT ![w].left = @ \ {f}]
        ELSE /\ workers' = [workers EXCEPT ![w].left = @ \ {f}, ![w].bad = TRUE]
             /\ UNCHANGED dir
    /\ UNCHANGED <<outVars, record, fails, scanVars, envVars>>

\* The installed version is removed
Swap(w) ==
    /\ At(w, "copying") /\ workers[w].left = {}
    /\ IF workers[w].bad THEN Raise(w) ELSE Clear("model") /\ Goto(w, "rename")
    /\ UNCHANGED <<outVars, record, fails, scanVars, envVars>>

\* rename() raises without a source, and on a target that is not empty
Rename(w) ==
    /\ At(w, "rename")
    /\ IF dir["copy"].on /\ dir["model"].file = Nothing
       THEN /\ dir' = [dir EXCEPT !["model"] = dir["copy"], !["copy"] = NoDir]
            /\ Goto(w, "record")
       ELSE Raise(w)
    /\ UNCHANGED <<outVars, record, fails, scanVars, envVars>>

Recorded(w) ==
    /\ At(w, "record")
    /\ record' = Synced(Version(w))
    /\ Goto(w, "active")
    /\ UNCHANGED <<outVars, dir, fails, scanVars, envVars>>

Activated(w) ==
    /\ At(w, "active")
    /\ Clear("staging") /\ Mark("active") /\ Leave(w)
    /\ UNCHANGED <<prod, record, fails, scanVars, envVars>>

Sync(w) ==
    \/ Compare(w) \/ Clean(w) \/ Download(w) \/ Downloaded(w) \/ DownloadFails(w)
    \/ Inspect(w) \/ Fetch(w) \/ FailRecorded(w) \/ FailMarked(w)
    \/ CopyStarts(w) \/ CopyFile(w) \/ Swap(w) \/ Rename(w) \/ Recorded(w) \/ Activated(w)

-----------------------------------------------------------------------------
\* Mutant: the hash is not compared
VerifiedNot(p, m) == TRUE

\* verify_model_hash: the network in p is the one that manifest m names, if
\* the manifest names one
Verified(p, m) == m \in scene.unhashed \/ dir[p].file["onnx"] = m

Loaded(p, m) == [manifest |-> m, net |-> dir[p].file["onnx"]]

\* ModelRegistry.refresh, at start-up, after a promotion and in ticks: the
\* directories are listed and loaded one after the other.  Both have the same
\* run name: the last one loaded stays.
ScanAtOnce ==
    /\ ~scene.overlap
    /\ LET Loads(p) == /\ Has(p, "manifest") /\ Has(p, "onnx")
                       /\ Verified(p, dir[p].file["manifest"])
       IN served' = CASE Loads("copy") -> Loaded("copy", dir["copy"].file["manifest"])
                      [] ~Loads("copy") /\ Loads("model") -> Loaded("model", dir["model"].file["manifest"])
                      [] OTHER -> NotServed
    /\ UNCHANGED <<outVars, diskVars, fails, workers, scan, envVars>>

Present(p) == IF dir[p].on THEN <<p>> ELSE <<>>

\* The same while the daemon's threads go on: the list ...
ScanStarts ==
    /\ scene.overlap /\ scan.pc = "idle"
    /\ scan' = [IdleScan EXCEPT !.pc = "read",
            !.todo = Present("model") \o Present("copy")]
    /\ UNCHANGED <<outVars, diskVars, fails, workers, served, envVars>>

Here == Head(scan.todo)
NextDir(found) == [IdleScan EXCEPT !.pc = "read", !.todo = Tail(scan.todo), !.found = found]

\* ... the manifest of a directory that has both files ...
ScanReads ==
    /\ scan.pc = "read" /\ scan.todo # <<>>
    /\ scan' = IF Has(Here, "manifest") /\ Has(Here, "onnx")
               THEN [scan EXCEPT !.pc = "hash", !.m = dir[Here].file["manifest"]]
               ELSE NextDir(scan.found)
    /\ UNCHANGED <<outVars, diskVars, fails, workers, served, envVars>>

\* ... the hash of its network ...
ScanHashes ==
    /\ scan.pc = "hash"
    /\ scan' = IF Verified(Here, scan.m) THEN [scan EXCEPT !.pc = "load"] ELSE NextDir(scan.found)
    /\ UNCHANGED <<outVars, diskVars, fails, workers, served, envVars>>

\* ... and the network, which is read again
ScanLoads ==
    /\ scan.pc = "load"
    /\ scan' = NextDir(IF Has(Here, "onnx") THEN Loaded(Here, scan.m) ELSE scan.found)
    /\ UNCHANGED <<outVars, diskVars, fails, workers, served, envVars>>

ScanEnds ==
    /\ scan.pc = "read" /\ scan.todo = <<>>
    /\ served' = scan.found
    /\ scan' = IdleScan
    /\ UNCHANGED <<outVars, diskVars, fails, workers, envVars>>

ScanRuns == ScanReads \/ ScanHashes \/ ScanLoads \/ ScanEnds

-----------------------------------------------------------------------------
\* An API call begins
Calls(then) ==
    /\ api = "idle" /\ changes < scene.changes
    /\ api' = then /\ changes' = changes + 1
    /\ UNCHANGED <<fails, workers, scanVars, crashes, scene>>

\* promote_model: the alias, then the row
Promote ==
    /\ Len(rows) < MaxRows
    /\ Calls("insert")
    /\ \E v \in Versions : ("rollback" \in scene.events \/ v > prod) /\ prod' = v
    /\ UNCHANGED <<rows, diskVars>>

\* retry_deploy: the record is removed, then a row inserted
RetryDeploy ==
    /\ "retry" \in scene.events /\ prod # 0 /\ Len(rows) < MaxRows
    /\ Calls("insert")
    /\ record' = NoRecord
    /\ UNCHANGED <<outVars, dir>>

InsertLaunching ==
    /\ api = "insert"
    /\ api' = "idle" /\ rows' = Append(rows, "launching")
    /\ UNCHANGED <<prod, diskVars, fails, workers, scanVars, changes, crashes, scene>>

Demote ==
    /\ "demote" \in scene.events /\ prod # 0
    /\ Calls("idle")
    /\ prod' = 0
    /\ UNCHANGED <<rows, diskVars>>

\* _delete_model: the registered model, the directory, the record
Delete ==
    /\ "delete" \in scene.events
    /\ Calls("remove")
    /\ prod' = 0
    /\ UNCHANGED <<rows, diskVars>>

DeleteFiles ==
    /\ \/ api = "remove" /\ Clear("model") /\ api' = "unlink" /\ UNCHANGED record
       \/ api = "unlink" /\ record' = NoRecord /\ api' = "idle" /\ UNCHANGED dir
    /\ UNCHANGED <<outVars, fails, workers, scanVars, changes, crashes, scene>>

\* expire_stale: five minutes without an answer
Expire ==
    /\ "expire" \in scene.events
    /\ \E n \in 1..Len(rows) : rows[n] = "launching" /\ rows' = [rows EXCEPT ![n] = "failed"]
    /\ UNCHANGED <<prod, diskVars, fails, workers, scanVars, envVars>>

\* The process dies and is started again: files, rows and aliases stay
Crash ==
    /\ crashes < scene.crashes /\ crashes' = crashes + 1
    /\ fails' = [v \in Versions |-> 0]
    /\ workers' = [w \in Workers |-> IdleWorker]
    /\ scan' = IdleScan /\ served' = NotServed /\ api' = "idle"
    /\ UNCHANGED <<outVars, diskVars, changes, scene>>

Next ==
    \/ PollStarts \/ Triggered \/ Published
    \/ \E w \in Workers : Sync(w)
    \/ ScanAtOnce \/ ScanStarts \/ ScanRuns
    \/ Promote \/ RetryDeploy \/ InsertLaunching \/ Demote \/ Delete \/ DeleteFiles
    \/ Expire \/ Crash

\* The poll repeats (poll_interval), every request and file operation ends,
\* a scan ends.  Nothing forces scans, API calls, messages or crashes.
Fairness ==
    /\ WF_vars(PollStarts) /\ WF_vars(ScanRuns)
    /\ \A w \in Workers : WF_vars(Sync(w))

Spec == Init /\ [][Next]_vars
FairSpec == Spec /\ Fairness

-----------------------------------------------------------------------------
Dir == [on : BOOLEAN, file : [Files -> 0..LastVersion]]
Pair == [manifest : 0..LastVersion, net : 0..LastVersion]
WorkerRecord == [
    via : {"mlflow", "minio"}, v : 0..LastVersion, left : SUBSET Files, bad : BOOLEAN,
    pc : {"idle", "compare", "clean", "download", "inspect", "fetch", "fail", "failing",
          "copy", "copying", "rename", "record", "active"}]
ScanRecord == [pc : {"idle", "read", "hash", "load"}, todo : Seq(Places), m : 0..LastVersion, found : Pair]

TypeOK ==
    /\ prod \in 0..LastVersion
    /\ rows \in Seq({"launching", "active", "failed"}) /\ Len(rows) <= MaxRows
    /\ dir \in [Places -> Dir]
    /\ record \in [status : {"none", "ok", "FAILED"}, version : 0..LastVersion]
    /\ fails \in [Versions -> Nat]
    /\ workers \in [Workers -> WorkerRecord]
    /\ \A w \in Workers : workers[w].pc # "idle" => workers[w].v \in Versions
    /\ scan \in ScanRecord /\ served \in Pair
    /\ scan.pc \in {"hash", "load"} => scan.todo # <<>>
    /\ api \in {"idle", "insert", "remove", "unlink"} /\ (api = "insert" => Len(rows) < MaxRows)
    /\ changes \in 0..scene.changes /\ crashes \in 0..scene.crashes
    /\ scene \in Scenes

\* Scenes with one thread at work; without deletion; in which a promotion
\* that a crash cut short is not followed by the promotion of the version
\* whose files it had removed (after a demotion any version may follow)
Solo == scene.events \cap {"publish", "trigger"} = {}
NoDelete == "delete" \notin scene.events
Recoverable == scene.crashes = 0 \/ scene.events \cap {"rollback", "demote"} = {}

\* What is served is a manifest and the network it was written for, as long as
\* no thread exchanges the files during the scan (OnnxModel.__init__): crashes
\* and interrupted downloads leave no mixture behind that a later scan could
\* load, with or without a hash in the manifest, and the mixtures that two
\* colliding threads leave in the directories are refused for their hash.
\* Only what these threads mix under a manifest without a hash is served.
ServedWhole ==
    ~scene.overlap =>
        served.manifest = served.net \/ (~Solo /\ served.manifest \in scene.unhashed)

\* If the record says that the production version is synced, its files are
\* complete and alone in the model's directory, so that skipping the download
\* is right, also after a crash (_sync_once, _promote).
RecordIsTrue ==
    Solo /\ NoDelete /\ Recoverable => \A v \in Versions :
        record = Synced(v) /\ prod = v /\ (\A w \in Workers : workers[w].pc \notin {"rename", "record"})
            => Installed(v)

\* A version is given up for good only if it lacks something or its download
\* has failed max_download_attempts times (_permanently_fail).
OnlyFaultyFails ==
    [][Solo => \A v \in Versions :
        record # Failed(v) /\ record' = Failed(v)
            => scene.kind[v] \in {"unlogged", "bare", "headless"} \/ fails[v] >= MaxAttempts]_vars

\* A deployment becomes active only when a version is installed.
ActiveInstalled ==
    [][Solo /\ NoDelete /\ Recoverable => \A n \in 1..Len(rows) :
        rows[n] # "active" /\ rows'[n] = "active" => \E v \in Versions : Installed(v)]_vars

\* A production version is eventually installed or given up for good, unless
\* the alias moves on ...
DeployedOrGivenUp ==
    \A v \in Versions : prod = v ~> prod # v \/ Installed(v) \/ record = Failed(v)

\* ... if networks that are stored apart can be had, one thread is at work,
\* nothing is deleted, and no crashed promotion is rolled back (_sync_once).
Deployed ==
    \A v \in Versions :
        prod = v /\ Solo /\ NoDelete /\ Recoverable /\ "unreachable" \notin scene.events
            ~> prod # v \/ Installed(v) \/ record = Failed(v)
=============================================================================
