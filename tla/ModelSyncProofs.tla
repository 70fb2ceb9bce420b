---------------------------- MODULE ModelSyncProofs ----------------------------
(***************************************************************************)
(* Theorems about ModelSync: the types, what a scan of models_dir serves,  *)
(* when a version is given up, and what the record of a synced version     *)
(* promises about the files.                                               *)
(***************************************************************************)
EXTENDS ModelSync, TLAPS

\* The records that reset a variable are of its type.
LEMMA ConstantTypes ==
    /\ NoDir \in Dir /\ EmptyDir \in Dir /\ NotServed \in Pair
    /\ IdleWorker \in WorkerRecord /\ IdleWorker.pc = "idle" /\ IdleWorker.via = "mlflow"
    /\ IdleScan \in ScanRecord /\ IdleScan.pc = "idle"
    /\ MaxAttempts \in Nat \ {0} /\ LastVersion \in Nat
<1>1. MaxAttempts \in Nat \ {0} /\ LastVersion \in Nat
  BY SyncAssumption
<1>2. NoDir \in Dir /\ EmptyDir \in Dir
  BY <1>1 DEF NoDir, EmptyDir, Dir, Nothing
<1>3. NotServed \in Pair
  BY <1>1 DEF NotServed, Pair
<1>4. IdleWorker \in WorkerRecord /\ IdleWorker.pc = "idle" /\ IdleWorker.via = "mlflow"
  BY <1>1 DEF IdleWorker, WorkerRecord
<1>5. IdleScan \in ScanRecord /\ IdleScan.pc = "idle"
  BY <1>1 DEF IdleScan, ScanRecord, Pair
<1>6. QED
  BY <1>1, <1>2, <1>3, <1>4, <1>5

\* The types that a scene gives to what the steps read in it.
LEMMA SceneTypes ==
    ASSUME TypeOK
    PROVE  /\ scene \in Scene /\ scene.changes \in Nat /\ scene.crashes \in Nat
           /\ \A v \in Versions : scene.kind[v] \in Kinds /\ Logged(v) \subseteq Files /\ Complete(v) \subseteq Files
<1>1. scene \in Scene
  BY SyncAssumption DEF TypeOK
<1>2. ASSUME NEW v \in Versions
      PROVE  scene.kind[v] \in Kinds /\ Logged(v) \subseteq Files /\ Complete(v) \subseteq Files
  <2>1. scene.kind[v] \in Kinds
    BY <1>1 DEF Scene
  <2>2. Logged(v) \subseteq Files
    BY <2>1 DEF Logged, Kinds, Files
  <2>3. QED
    BY <2>1, <2>2 DEF Complete, Files
<1>3. QED
  BY <1>1, <1>2 DEF Scene

\* A deployment row gets a status, and nothing else changes in the table.
LEMMA MarkTypes ==
    ASSUME rows \in Seq({"launching", "active", "failed"}),
           NEW status \in {"active", "failed"}, Mark(status)
    PROVE  /\ rows' \in Seq({"launching", "active", "failed"}) /\ Len(rows') = Len(rows)
           /\ \A n \in 1..Len(rows) : rows'[n] = rows[n] \/ rows'[n] = status
<1> DEFINE n == Latest
<1>1. CASE n = 0
  BY <1>1 DEF Mark
<1>2. CASE n # 0
  <2>1. rows' = [rows EXCEPT ![n] = status]
    BY <1>2 DEF Mark
  <2> HIDE DEF n
  <2> DEFINE S == {"launching", "active", "failed"}
  <2>2. rows \in [1..Len(rows) -> S] /\ Len(rows) \in Nat
    OBVIOUS
  <2>3. rows' \in [1..Len(rows) -> S] /\ \A k \in 1..Len(rows) : rows'[k] = rows[k] \/ rows'[k] = status
    BY <2>1, <2>2
  <2>4. rows' \in Seq(S) /\ Len(rows') = Len(rows)
    <3> HIDE DEF S
    <3>1. QED
      BY <2>2, <2>3
  <2>5. QED
    BY <2>3, <2>4
<1>3. QED
  BY <1>1, <1>2

-----------------------------------------------------------------------------
\* The worker goes on, or leaves: it stays a record of a worker.
LEMMA WorkerTypes ==
    ASSUME TypeOK, NEW w \in Workers,
           Leave(w) \/ (workers[w].pc # "idle" /\ \E pc \in {"compare", "clean", "download", "inspect", "fetch", "fail",
                           "failing", "copy", "copying", "rename", "record", "active"} : Goto(w, pc))
    PROVE  /\ workers' \in [Workers -> WorkerRecord]
           /\ \A u \in Workers : workers'[u].pc # "idle" => workers'[u].v \in Versions
<1>1. workers \in [Workers -> WorkerRecord] /\ \A u \in Workers : workers[u].pc # "idle" => workers[u].v \in Versions
  BY DEF TypeOK
<1>2. CASE Leave(w)
  BY <1>1, <1>2, ConstantTypes DEF Leave
<1>3. ASSUME workers[w].pc # "idle",
             NEW pc \in {"compare", "clean", "download", "inspect", "fetch", "fail",
                           "failing", "copy", "copying", "rename", "record", "active"}, Goto(w, pc)
      PROVE  /\ workers' \in [Workers -> WorkerRecord]
             /\ \A u \in Workers : workers'[u].pc # "idle" => workers'[u].v \in Versions
  <2> DEFINE r == [workers[w] EXCEPT !.pc = pc]
  <2>1. workers' = [workers EXCEPT ![w] = r]
    BY <1>1, <1>3 DEF Goto
  <2>2. r \in WorkerRecord /\ r.v = workers[w].v
    BY <1>1 DEF WorkerRecord
  <2> HIDE DEF r
  <2>3. QED
    BY <1>1, <1>3, <2>1, <2>2
<1>4. QED
  BY <1>2, <1>3

\* A file arrives in a directory, or the directory is made anew.
LEMMA PlaceTypes ==
    ASSUME dir \in [Places -> Dir]
    PROVE  /\ \A p \in Places : [dir EXCEPT ![p] = NoDir] \in [Places -> Dir]
           /\ \A p \in Places : [dir EXCEPT ![p] = EmptyDir] \in [Places -> Dir]
           /\ \A p \in Places : [dir EXCEPT ![p].on = TRUE] \in [Places -> Dir]
           /\ \A p \in Places, f \in Files, v \in 0..LastVersion :
                 /\ [dir EXCEPT ![p].on = TRUE, ![p].file[f] = v] \in [Places -> Dir]
                 /\ [dir EXCEPT ![p].file[f] = v] \in [Places -> Dir]
                 /\ [on |-> TRUE, file |-> [dir[p].file EXCEPT ![f] = v]] \in Dir
<1>1. \A p \in Places : dir[p] \in Dir /\ dir[p].file \in [Files -> 0..LastVersion]
  BY DEF Dir
<1>2. ASSUME NEW p \in Places, NEW d \in Dir PROVE [dir EXCEPT ![p] = d] \in [Places -> Dir]
  OBVIOUS
<1>3. ASSUME NEW p \in Places PROVE [dir EXCEPT ![p].on = TRUE] \in [Places -> Dir]
  <2>1. [dir[p] EXCEPT !.on = TRUE] \in Dir
    BY <1>1 DEF Dir
  <2>2. [dir EXCEPT ![p].on = TRUE] = [dir EXCEPT ![p] = [dir[p] EXCEPT !.on = TRUE]]
    OBVIOUS
  <2>3. QED
    BY <2>1, <2>2, <1>2
<1>4. ASSUME NEW p \in Places, NEW f \in Files, NEW v \in 0..LastVersion
      PROVE  /\ [dir EXCEPT ![p].on = TRUE, ![p].file[f] = v] \in [Places -> Dir]
             /\ [dir EXCEPT ![p].file[f] = v] \in [Places -> Dir]
             /\ [on |-> TRUE, file |-> [dir[p].file EXCEPT ![f] = v]] \in Dir
  <2> DEFINE c == [dir[p].file EXCEPT ![f] = v]
             d == [dir[p] EXCEPT !.file[f] = v]
             e == [dir[p] EXCEPT !.on = TRUE, !.file[f] = v]
  <2>1. c \in [Files -> 0..LastVersion]
    BY <1>1
  <2>2. [on |-> TRUE, file |-> c] \in Dir
    BY <2>1 DEF Dir
  <2>3. d \in Dir
    BY <1>1, <2>1 DEF Dir
  <2>4. e \in Dir
    BY <1>1, <2>1 DEF Dir
  <2>5. [dir EXCEPT ![p].file[f] = v] = [dir EXCEPT ![p] = d]
    OBVIOUS
  <2>6. [dir EXCEPT ![p].on = TRUE, ![p].file[f] = v] = [dir EXCEPT ![p] = e]
    BY <1>1
  <2> HIDE DEF d, e
  <2>7. QED
    BY <1>2, <2>2, <2>3, <2>4, <2>5, <2>6
<1>5. QED
  BY <1>2, <1>3, <1>4, ConstantTypes

\* The daemon begins with a version.
LEMMA TypedBegins ==
    ASSUME TypeOK, PollStarts \/ Triggered \/ Published
    PROVE  TypeOK'
<1>1. ASSUME NEW w \in Workers, AskAlias(w), changes' \in 0..scene.changes PROVE TypeOK'
  <2> DEFINE r == [IdleWorker EXCEPT !.pc = "compare", !.v = prod]
  <2>1. r \in WorkerRecord /\ r.v \in Versions
    <3>1. prod \in Versions /\ prod \in 0..LastVersion
      BY <1>1, ConstantTypes DEF AskAlias, TypeOK, Versions
    <3>2. QED
      BY <3>1 DEF IdleWorker, WorkerRecord
  <2>2. workers' = [workers EXCEPT ![w] = r]
    BY <1>1 DEF AskAlias
  <2> HIDE DEF r
  <2>3. workers' \in [Workers -> WorkerRecord] /\ \A u \in Workers : workers'[u].pc # "idle" => workers'[u].v \in Versions
    BY <2>1, <2>2 DEF TypeOK
  <2>4. QED
    BY <1>1, <2>3 DEF TypeOK, AskAlias, outVars, diskVars, scanVars
<1>2. CASE PollStarts \/ Triggered
  BY SMTT(60), <1>1, <1>2, SceneTypes DEF PollStarts, Triggered, Workers, TypeOK
<1>3. CASE Published
  <2> DEFINE r(v) == [pc |-> "download", via |-> "minio", v |-> v, left |-> Logged(v), bad |-> FALSE]
  <2>1. PICK v \in Versions : workers' = [workers EXCEPT !["listener"] = r(v)]
    BY <1>3 DEF Published
  <2>2. r(v) \in WorkerRecord /\ r(v).v \in Versions
    BY SceneTypes, ConstantTypes DEF WorkerRecord, Versions
  <2> HIDE DEF r
  <2>3. workers' \in [Workers -> WorkerRecord] /\ \A u \in Workers : workers'[u].pc # "idle" => workers'[u].v \in Versions
    BY <2>1, <2>2 DEF TypeOK
  <2>4. dir' \in [Places -> Dir]
    BY <1>3, PlaceTypes DEF Published, TypeOK, Places
  <2>5. changes' \in 0..scene.changes
    BY SMTT(60), <1>3, SceneTypes DEF Published, TypeOK
  <2>6. QED
    BY <1>3, <2>3, <2>4, <2>5 DEF TypeOK, Published, outVars, diskVars, scanVars
<1>4. QED
  BY <1>2, <1>3

\* The steps of a worker from the comparison to the last file that arrives.
LEMMA TypedFetching ==
    ASSUME TypeOK, NEW w \in Workers,
           Compare(w) \/ Clean(w) \/ Download(w) \/ Downloaded(w) \/ DownloadFails(w) \/ Inspect(w) \/ Fetch(w)
    PROVE  TypeOK'
<1>1. workers[w] \in WorkerRecord /\ workers \in [Workers -> WorkerRecord] /\ dir \in [Places -> Dir]
  BY DEF TypeOK
<1>2. ASSUME NEW r \in WorkerRecord, workers' = [workers EXCEPT ![w] = r], r.v = workers[w].v, workers[w].pc # "idle"
      PROVE  /\ workers' \in [Workers -> WorkerRecord]
             /\ \A u \in Workers : workers'[u].pc # "idle" => workers'[u].v \in Versions
  BY <1>2 DEF TypeOK
<1>3. workers[w].pc # "idle" /\ Version(w) \in Versions /\ Version(w) \in 0..LastVersion
  BY ConstantTypes DEF Compare, Clean, Download, Downloaded, DownloadFails, Inspect, Fetch, At, TypeOK, Version, Versions
<1>4. CASE Compare(w)
  <2>1. rows' \in Seq({"launching", "active", "failed"}) /\ Len(rows') = Len(rows)
    BY <1>4, MarkTypes DEF Compare, TypeOK
  <2>2. Leave(w) \/ Goto(w, "clean")
    BY <1>4 DEF Compare
  <2>3. QED
    BY <1>3, <1>4, <2>1, <2>2, WorkerTypes DEF Compare, TypeOK, diskVars, scanVars, envVars
<1>5. CASE Clean(w)
  <2>1. dir' \in [Places -> Dir]
    BY ZenonT(60), <1>1, <1>5, PlaceTypes DEF Clean, Clear, Places
  <2> DEFINE r == [workers[w] EXCEPT !.pc = "download", !.left = Logged(Version(w))]
  <2>2. r \in WorkerRecord /\ r.v = workers[w].v
    BY <1>1, <1>3, SceneTypes DEF WorkerRecord
  <2>3. Goto(w, "fail") \/ workers' = [workers EXCEPT ![w] = r]
    BY <1>1, <1>5 DEF Clean
  <2> HIDE DEF r
  <2>4. workers' \in [Workers -> WorkerRecord] /\ \A u \in Workers : workers'[u].pc # "idle" => workers'[u].v \in Versions
    BY <1>2, <1>3, <2>2, <2>3, WorkerTypes
  <2>5. QED
    BY <1>5, <2>1, <2>4 DEF Clean, TypeOK, outVars, scanVars, envVars
<1>6. CASE Download(w)
  <2>1. PICK f \in workers[w].left :
          /\ dir' = [dir EXCEPT !["staging"].on = TRUE, !["staging"].file[f] = Version(w)]
          /\ workers' = [workers EXCEPT ![w].left = @ \ {f}]
    BY <1>6 DEF Download
  <2>2. f \in Files
    BY <1>1 DEF WorkerRecord
  <2>3. dir' \in [Places -> Dir]
    BY <1>1, <1>3, <2>1, <2>2, PlaceTypes DEF Places
  <2> DEFINE r == [workers[w] EXCEPT !.left = @ \ {f}]
  <2>4. r \in WorkerRecord /\ r.v = workers[w].v
    BY <1>1 DEF WorkerRecord
  <2>5. workers' = [workers EXCEPT ![w] = r]
    BY <2>1
  <2> HIDE DEF r
  <2>6. workers' \in [Workers -> WorkerRecord] /\ \A u \in Workers : workers'[u].pc # "idle" => workers'[u].v \in Versions
    BY <1>2, <1>3, <2>4, <2>5
  <2>7. QED
    BY <1>6, <2>3, <2>6 DEF Download, TypeOK, outVars, scanVars, envVars
<1>7. CASE Downloaded(w)
  <2>1. fails' \in [Versions -> Nat]
    <3>1. fails \in [Versions -> Nat]
      BY DEF TypeOK
    <3>2. fails' = fails \/ fails' = [fails EXCEPT ![Version(w)] = 0]
      BY <1>7 DEF Downloaded, Forgiven
    <3>3. QED
      BY <3>1, <3>2
  <2>2. QED
    BY <1>3, <1>7, <2>1, WorkerTypes DEF Downloaded, TypeOK, outVars, diskVars, scanVars, envVars
<1>8. CASE DownloadFails(w)
  <2>1. fails' \in [Versions -> Nat]
    <3>1. fails \in [Versions -> Nat] /\ fails[Version(w)] + 1 \in Nat
      BY <1>3 DEF TypeOK
    <3>2. fails' = fails \/ fails' = [fails EXCEPT ![Version(w)] = fails[Version(w)] + 1]
      BY <1>8 DEF DownloadFails, GiveUp
    <3>3. QED
      BY <3>1, <3>2
  <2>2. Leave(w) \/ Goto(w, "fail")
    BY <1>8 DEF DownloadFails, GiveUp
  <2>3. dir' \in [Places -> Dir]
    BY <1>1, <1>8, PlaceTypes DEF DownloadFails, Clear, Places
  <2>4. workers' \in [Workers -> WorkerRecord] /\ \A u \in Workers : workers'[u].pc # "idle" => workers'[u].v \in Versions
    BY <1>3, <2>2, WorkerTypes
  <2>5. QED
    BY <1>8, <2>1, <2>3, <2>4 DEF DownloadFails, TypeOK, outVars, scanVars, envVars
<1>9. CASE Inspect(w)
  <2>1. Goto(w, "copy") \/ Goto(w, "fetch") \/ Goto(w, "fail")
    BY <1>9 DEF Inspect
  <2>2. dir' \in [Places -> Dir]
    BY <1>1, <1>9, PlaceTypes DEF Inspect, Clear, Places
  <2>3. workers' \in [Workers -> WorkerRecord] /\ \A u \in Workers : workers'[u].pc # "idle" => workers'[u].v \in Versions
    BY <1>3, <2>1, WorkerTypes
  <2>4. QED
    BY <1>9, <2>2, <2>3 DEF Inspect, TypeOK, outVars, scanVars, envVars
<1>10. CASE Fetch(w)
  <2>1. Goto(w, "copy") \/ Goto(w, "fail")
    BY <1>10 DEF Fetch
  <2>2. dir' \in [Places -> Dir]
    <3>1. CASE scene.kind[Version(w)] = "headless"
      BY <1>1, <1>10, <3>1, PlaceTypes DEF Fetch, Clear, Places
    <3>2. CASE scene.kind[Version(w)] # "headless"
      <4> DEFINE d == [on |-> TRUE, file |-> [dir["staging"].file EXCEPT !["onnx"] = Version(w)]]
      <4>1. d \in Dir
        BY <1>1, <1>3, PlaceTypes DEF Places, Files
      <4>2. dir' = [dir EXCEPT !["staging"] = d]
        BY <1>1, <1>10, <3>2 DEF Fetch, Places
      <4> HIDE DEF d
      <4>3. QED
        BY <1>1, <4>1, <4>2
    <3>3. QED
      BY <3>1, <3>2
  <2>3. workers' \in [Workers -> WorkerRecord] /\ \A u \in Workers : workers'[u].pc # "idle" => workers'[u].v \in Versions
    BY <1>3, <2>1, WorkerTypes
  <2>4. fails' \in [Versions -> Nat]
    BY <1>10 DEF Fetch, Forgiven, TypeOK
  <2>5. QED
    BY <1>10, <2>2, <2>3, <2>4 DEF Fetch, TypeOK, outVars, scanVars, envVars
<1>11. QED
  BY <1>4, <1>5, <1>6, <1>7, <1>8, <1>9, <1>10

\* The steps of a worker that give a version up or put its files in place.
LEMMA TypedInstalling ==
    ASSUME TypeOK, NEW w \in Workers,
           \/ FailRecorded(w) \/ FailMarked(w) \/ CopyStarts(w) \/ CopyFile(w)
           \/ Swap(w) \/ Rename(w) \/ Recorded(w) \/ Activated(w)
    PROVE  TypeOK'
<1>1. workers[w] \in WorkerRecord /\ workers \in [Workers -> WorkerRecord] /\ dir \in [Places -> Dir]
  BY DEF TypeOK
<1>2. ASSUME NEW r \in WorkerRecord, workers' = [workers EXCEPT ![w] = r], r.v = workers[w].v, workers[w].pc # "idle"
      PROVE  /\ workers' \in [Workers -> WorkerRecord]
             /\ \A u \in Workers : workers'[u].pc # "idle" => workers'[u].v \in Versions
  BY <1>2 DEF TypeOK
<1>3. workers[w].pc # "idle" /\ Version(w) \in Versions /\ Version(w) \in 0..LastVersion
  BY ConstantTypes DEF FailRecorded, FailMarked, CopyStarts, CopyFile, Swap, Rename, Recorded, Activated, At,
     TypeOK, Version, Versions
<1>4. CASE FailRecorded(w) \/ Recorded(w)
  <2>1. Goto(w, "failing") \/ Goto(w, "active")
    BY <1>4 DEF FailRecorded, Recorded
  <2>2. record' \in [status : {"none", "ok", "FAILED"}, version : 0..LastVersion]
    BY <1>3, <1>4 DEF FailRecorded, Recorded, Failed, Synced
  <2>3. workers' \in [Workers -> WorkerRecord] /\ \A u \in Workers : workers'[u].pc # "idle" => workers'[u].v \in Versions
    BY <1>3, <2>1, WorkerTypes
  <2>4. QED
    BY <1>4, <2>2, <2>3 DEF FailRecorded, Recorded, TypeOK, outVars, scanVars, envVars
<1>5. CASE FailMarked(w) \/ Activated(w)
  <2>1. Leave(w) /\ (Mark("failed") \/ Mark("active"))
    BY <1>5 DEF FailMarked, Activated
  <2>2. rows' \in Seq({"launching", "active", "failed"}) /\ Len(rows') = Len(rows)
    BY <2>1, MarkTypes DEF TypeOK
  <2>3. workers' \in [Workers -> WorkerRecord] /\ \A u \in Workers : workers'[u].pc # "idle" => workers'[u].v \in Versions
    BY <2>1, WorkerTypes
  <2>4. dir' \in [Places -> Dir]
    BY ZenonT(60), <1>1, <1>5, PlaceTypes DEF FailMarked, Activated, Clear, Places, diskVars
  <2>5. QED
    BY <1>5, <2>2, <2>3, <2>4 DEF FailMarked, Activated, TypeOK, diskVars, scanVars, envVars
<1>6. CASE CopyStarts(w)
  <2> DEFINE r == [workers[w] EXCEPT !.pc = "copying", !.left = {f \in Files : Has("staging", f)}]
  <2>1. r \in WorkerRecord /\ r.v = workers[w].v
    BY <1>1 DEF WorkerRecord
  <2>2. Leave(w) \/ workers' = [workers EXCEPT ![w] = r]
    BY <1>1, <1>6 DEF CopyStarts
  <2>3. dir' \in [Places -> Dir]
    <3>1. CASE dir["staging"].on
      BY <1>1, <1>6, <3>1, PlaceTypes DEF CopyStarts, Places
    <3>2. CASE ~dir["staging"].on
      BY <1>1, <1>6, <3>2, ConstantTypes DEF CopyStarts
    <3>3. QED
      BY <3>1, <3>2
  <2> HIDE DEF r
  <2>4. workers' \in [Workers -> WorkerRecord] /\ \A u \in Workers : workers'[u].pc # "idle" => workers'[u].v \in Versions
    BY <1>2, <1>3, <2>1, <2>2, WorkerTypes
  <2>5. QED
    BY <1>6, <2>3, <2>4 DEF CopyStarts, TypeOK, outVars, scanVars, envVars
<1>7. CASE CopyFile(w)
  <2>1. PICK f \in workers[w].left :
          IF Has("staging", f) /\ dir["copy"].on
          THEN /\ dir' = [dir EXCEPT !["copy"].file[f] = dir["staging"].file[f]]
               /\ workers' = [workers EXCEPT ![w].left = @ \ {f}]
          ELSE /\ workers' = [workers EXCEPT ![w].left = @ \ {f}, ![w].bad = TRUE]
               /\ UNCHANGED dir
    BY <1>7 DEF CopyFile
  <2>2. f \in Files /\ dir["staging"].file[f] \in 0..LastVersion
    BY <1>1 DEF WorkerRecord, Dir, Places
  <2>3. dir' \in [Places -> Dir]
    <3> DEFINE v == dir["staging"].file[f]
    <3>1. dir' = dir \/ dir' = [dir EXCEPT !["copy"].file[f] = v]
      BY <2>1
    <3>2. v \in 0..LastVersion /\ "copy" \in Places
      BY <2>2 DEF Places
    <3> HIDE DEF v
    <3>3. [dir EXCEPT !["copy"].file[f] = v] \in [Places -> Dir]
      BY <1>1, <2>2, <3>2, PlaceTypes
    <3>4. QED
      BY <1>1, <3>1, <3>3
  <2> DEFINE q == [workers[w] EXCEPT !.left = @ \ {f}]
             r == [workers[w] EXCEPT !.left = @ \ {f}, !.bad = TRUE]
  <2>4. /\ q \in WorkerRecord /\ q.v = workers[w].v
        /\ r \in WorkerRecord /\ r.v = workers[w].v
    BY <1>1 DEF WorkerRecord
  <2>5. workers' = [workers EXCEPT ![w] = q] \/ workers' = [workers EXCEPT ![w] = r]
    BY <2>1
  <2> HIDE DEF q, r
  <2>6. QED
    BY <1>2, <1>3, <1>7, <2>3, <2>4, <2>5 DEF CopyFile, TypeOK, outVars, scanVars, envVars
<1>8. CASE Swap(w) \/ Rename(w)
  <2>1. Leave(w) \/ Goto(w, "rename") \/ Goto(w, "record")
    BY <1>8 DEF Swap, Rename, Raise
  <2>2. workers' \in [Workers -> WorkerRecord] /\ \A u \in Workers : workers'[u].pc # "idle" => workers'[u].v \in Versions
    BY <1>3, <2>1, WorkerTypes
  <2>3. dir' \in [Places -> Dir]
    <3>1. CASE dir' = [dir EXCEPT !["model"] = dir["copy"], !["copy"] = NoDir]
      BY <1>1, <3>1, ConstantTypes DEF Places
    <3>2. CASE dir' # [dir EXCEPT !["model"] = dir["copy"], !["copy"] = NoDir]
      BY ZenonT(60), <1>1, <1>8, <3>2, PlaceTypes DEF Swap, Rename, Raise, Clear, Places
    <3>3. QED
      BY <3>1, <3>2
  <2>4. QED
    BY <1>8, <2>2, <2>3 DEF Swap, Rename, TypeOK, outVars, scanVars, envVars
<1>9. QED
  BY <1>4, <1>5, <1>6, <1>7, <1>8

\* The registry's scan.
LEMMA TypedScan ==
    ASSUME TypeOK, ScanAtOnce \/ ScanStarts \/ ScanRuns
    PROVE  TypeOK'
<1>1. /\ dir \in [Places -> Dir] /\ scan \in ScanRecord /\ scan.todo \in Seq(Places) /\ scan.found \in Pair
      /\ IdleScan \in ScanRecord /\ IdleScan.todo = <<>> /\ IdleScan.pc = "idle" /\ IdleScan.found \in Pair
      /\ (scan.pc \in {"hash", "load"} => scan.todo # <<>>)
  BY ConstantTypes DEF TypeOK, ScanRecord, IdleScan
<1>2. \A p \in Places, f \in Files : dir[p].file[f] \in 0..LastVersion
  BY <1>1 DEF Dir
<1>3. \A p \in Places, m \in 0..LastVersion : Loaded(p, m) \in Pair
  BY <1>2 DEF Loaded, Pair, Files
<1>4. CASE ScanAtOnce
  <2>1. served' \in Pair
    <3>1. \A p \in Places : Loaded(p, dir[p].file["manifest"]) \in Pair
      BY <1>2, <1>3 DEF Files
    <3>2. QED
      BY <1>4, <3>1, ConstantTypes DEF ScanAtOnce, Places
  <2>2. QED
    BY <1>4, <2>1 DEF ScanAtOnce, TypeOK, outVars, diskVars, envVars
<1>5. CASE ScanStarts
  <2> DEFINE todo == Present("model") \o Present("copy")
  <2>1. todo \in Seq(Places)
    <3>1. ASSUME NEW p \in Places PROVE Present(p) \in Seq(Places)
      BY <3>1 DEF Present
    <3>2. Present("model") \in Seq(Places) /\ Present("copy") \in Seq(Places)
      BY <3>1 DEF Places
    <3>3. QED
      BY <3>2
  <2>2. scan' = [IdleScan EXCEPT !.pc = "read", !.todo = todo]
    BY <1>5 DEF ScanStarts
  <2> HIDE DEF todo
  <2>3. scan' \in ScanRecord /\ scan'.pc = "read"
    BY <1>1, <2>1, <2>2, ConstantTypes DEF ScanRecord
  <2>4. QED
    BY <1>5, <2>3 DEF ScanStarts, TypeOK, outVars, diskVars, envVars
<1>6. ASSUME scan.todo # <<>> PROVE Here \in Places /\ Tail(scan.todo) \in Seq(Places)
  BY <1>1, <1>6 DEF Here
<1>7. ASSUME scan.todo # <<>>, NEW found \in Pair PROVE NextDir(found) \in ScanRecord /\ NextDir(found).pc = "read"
  <2>1. Tail(scan.todo) \in Seq(Places)
    BY <1>6, <1>7
  <2>2. QED
    BY <1>1, <1>7, <2>1 DEF NextDir, ScanRecord
<1>8. CASE ScanReads
  <2>1. scan' \in ScanRecord /\ scan'.pc \in {"read", "hash"} /\ (scan'.pc = "hash" => scan'.todo # <<>>)
    <3>1. Here \in Places /\ dir[Here].file["manifest"] \in 0..LastVersion
      BY <1>2, <1>6, <1>8 DEF ScanReads, Files
    <3>2. CASE scan' = NextDir(scan.found)
      BY <1>1, <1>7, <1>8, <3>2 DEF ScanReads
    <3>3. CASE scan' = [scan EXCEPT !.pc = "hash", !.m = dir[Here].file["manifest"]]
      BY <1>1, <1>8, <3>1, <3>3 DEF ScanReads, ScanRecord
    <3>4. QED
      BY <1>8, <3>2, <3>3 DEF ScanReads
  <2>2. QED
    BY <1>8, <2>1 DEF ScanReads, TypeOK, outVars, diskVars, envVars
<1>9. CASE ScanHashes
  <2>1. scan' \in ScanRecord /\ scan'.pc \in {"read", "load"} /\ (scan'.pc = "load" => scan'.todo # <<>>)
    <3>1. CASE scan' = NextDir(scan.found)
      BY <1>1, <1>7, <1>9, <3>1 DEF ScanHashes
    <3>2. CASE scan' = [scan EXCEPT !.pc = "load"]
      BY <1>1, <1>9, <3>2 DEF ScanHashes, ScanRecord
    <3>3. QED
      BY <1>9, <3>1, <3>2 DEF ScanHashes
  <2>2. QED
    BY <1>9, <2>1 DEF ScanHashes, TypeOK, outVars, diskVars, envVars
<1>10. CASE ScanLoads
  <2>1. scan' \in ScanRecord /\ scan'.pc = "read"
    <3>1. Loaded(Here, scan.m) \in Pair
      BY <1>1, <1>3, <1>6, <1>10 DEF ScanLoads, ScanRecord
    <3>2. QED
      BY <1>1, <1>7, <1>10, <3>1 DEF ScanLoads
  <2>2. QED
    BY <1>10, <2>1 DEF ScanLoads, TypeOK, outVars, diskVars, envVars
<1>11. CASE ScanEnds
  BY <1>1, <1>11 DEF ScanEnds, TypeOK, outVars, diskVars, envVars
<1>12. QED
  BY <1>4, <1>5, <1>8, <1>9, <1>10, <1>11 DEF ScanRuns

\* The API, the expiry of deployments, and crashes.
LEMMA TypedRequests ==
    ASSUME TypeOK,
           Promote \/ RetryDeploy \/ InsertLaunching \/ Demote \/ Delete \/ DeleteFiles \/ Expire \/ Crash
    PROVE  TypeOK'
<1>1. /\ scene.changes \in Nat /\ scene.crashes \in Nat /\ MaxRows \in Nat
      /\ rows \in Seq({"launching", "active", "failed"}) /\ dir \in [Places -> Dir]
      /\ Versions \subseteq 0..LastVersion /\ 0 \in 0..LastVersion
  BY SceneTypes, ConstantTypes, SyncAssumption DEF TypeOK, Versions
<1>2. ASSUME NEW then \in {"idle", "insert", "remove"}, Calls(then)
      PROVE  changes' \in 0..scene.changes /\ api' = then /\ UNCHANGED <<fails, workers, scan, served, crashes, scene>>
  BY <1>1, <1>2 DEF Calls, TypeOK, scanVars
<1>3. CASE Promote
  BY <1>1, <1>2, <1>3 DEF Promote, TypeOK, diskVars
<1>4. CASE RetryDeploy
  <2>1. NoRecord \in [status : {"none", "ok", "FAILED"}, version : 0..LastVersion]
    BY <1>1 DEF NoRecord
  <2>2. QED
    BY <1>2, <1>4, <2>1 DEF RetryDeploy, TypeOK, outVars
<1>5. CASE InsertLaunching
  <2>1. rows' \in Seq({"launching", "active", "failed"}) /\ Len(rows') = Len(rows) + 1
    BY <1>1, <1>5 DEF InsertLaunching
  <2>2. Len(rows') <= MaxRows
    BY <1>1, <1>5, <2>1 DEF InsertLaunching, TypeOK
  <2>3. QED
    BY <1>5, <2>1, <2>2 DEF InsertLaunching, TypeOK, diskVars, scanVars
<1>6. CASE Demote \/ Delete
  BY <1>1, <1>2, <1>6 DEF Demote, Delete, TypeOK, diskVars
<1>7. CASE DeleteFiles
  <2>1. NoRecord \in [status : {"none", "ok", "FAILED"}, version : 0..LastVersion]
    BY <1>1 DEF NoRecord
  <2>2. dir' \in [Places -> Dir]
    BY ZenonT(60), <1>1, <1>7, PlaceTypes DEF DeleteFiles, Clear, Places
  <2>3. QED
    BY <1>7, <2>1, <2>2 DEF DeleteFiles, TypeOK, outVars, scanVars
<1>8. CASE Expire
  <2>1. PICK n \in 1..Len(rows) : rows' = [rows EXCEPT ![n] = "failed"]
    BY <1>8 DEF Expire
  <2>2. rows' \in Seq({"launching", "active", "failed"}) /\ Len(rows') = Len(rows)
    BY <1>1, <2>1
  <2>3. QED
    BY <1>8, <2>2 DEF Expire, TypeOK, diskVars, scanVars, envVars
<1>9. CASE Crash
  <2>1. crashes' \in 0..scene.crashes
    BY <1>1, <1>9 DEF Crash, TypeOK
  <2>2. workers' \in [Workers -> WorkerRecord] /\ \A u \in Workers : workers'[u].pc = "idle"
    BY <1>9, ConstantTypes DEF Crash
  <2>3. fails' \in [Versions -> Nat] /\ scan' \in ScanRecord /\ scan'.pc = "idle" /\ served' \in Pair /\ api' = "idle"
    BY <1>9, ConstantTypes DEF Crash
  <2>4. QED
    BY <1>9, <2>1, <2>2, <2>3 DEF Crash, TypeOK, outVars, diskVars
<1>10. QED
  BY <1>3, <1>4, <1>5, <1>6, <1>7, <1>8, <1>9

\* The types hold in every step.
LEMMA TypedStep == TypeOK /\ [Next]_vars => TypeOK'
<1> SUFFICES ASSUME TypeOK, [Next]_vars PROVE TypeOK'
  OBVIOUS
<1>1. CASE UNCHANGED vars
  BY <1>1 DEF TypeOK, vars, outVars, diskVars, scanVars, envVars
<1>2. ASSUME NEW w \in Workers, Sync(w) PROVE TypeOK'
  BY <1>2, TypedFetching, TypedInstalling DEF Sync
<1>3. QED
  BY <1>1, <1>2, TypedBegins, TypedScan, TypedRequests DEF Next

\* The types hold at the start.
LEMMA TypedInit == Init => TypeOK
<1> SUFFICES ASSUME Init PROVE TypeOK
  OBVIOUS
<1>1. scene \in Scene
  BY SyncAssumption DEF Init
<1>2. rows \in Seq({"launching", "active", "failed"}) /\ Len(rows) <= MaxRows
  BY SyncAssumption DEF Init
<1>3. record \in [status : {"none", "ok", "FAILED"}, version : 0..LastVersion]
  BY ConstantTypes DEF Init, NoRecord
<1>4. changes \in 0..scene.changes /\ crashes \in 0..scene.crashes
  BY <1>1 DEF Init, Scene
<1>5. QED
  BY <1>1, <1>2, <1>3, <1>4, ConstantTypes DEF Init, TypeOK

\* The state of the sync has its types, whatever the versions, the crashes and
\* the threads (ModelSyncDaemon, ModelRegistry).
THEOREM SyncTypes == Spec => []TypeOK
<1> QED
  BY TypedInit, TypedStep, PTL DEF Spec

-----------------------------------------------------------------------------
\* The steps of a worker touch neither the alias nor the registry.
LEMMA SyncKeeps ==
    ASSUME NEW w \in Workers, Sync(w)
    PROVE  UNCHANGED <<prod, scanVars, envVars>>
<1>1. CASE Compare(w) \/ Clean(w) \/ Download(w) \/ Downloaded(w) \/ DownloadFails(w) \/ Inspect(w) \/ Fetch(w)
  BY <1>1 DEF Compare, Clean, Download, Downloaded, DownloadFails, Inspect, Fetch, outVars
<1>2. CASE FailRecorded(w) \/ FailMarked(w) \/ CopyStarts(w) \/ CopyFile(w) \/ Swap(w) \/ Rename(w)
           \/ Recorded(w) \/ Activated(w)
  BY <1>2 DEF FailRecorded, FailMarked, CopyStarts, CopyFile, Swap, Rename, Recorded, Activated, outVars
<1>3. QED
  BY <1>1, <1>2 DEF Sync

\* The scene never changes.
LEMMA SceneStays == [Next]_vars => UNCHANGED scene
<1>1. ASSUME NEW w \in Workers, Sync(w) PROVE UNCHANGED scene
  BY <1>1, SyncKeeps DEF envVars
<1>2. PollStarts \/ Triggered \/ Published => UNCHANGED scene
  BY DEF PollStarts, Triggered, Published, AskAlias
<1>3. ScanAtOnce \/ ScanStarts \/ ScanRuns => UNCHANGED scene
  BY DEF ScanAtOnce, ScanStarts, ScanRuns, ScanReads, ScanHashes, ScanLoads, ScanEnds, envVars
<1>4. Promote \/ RetryDeploy \/ InsertLaunching \/ Demote \/ Delete => UNCHANGED scene
  BY DEF Promote, RetryDeploy, InsertLaunching, Demote, Delete, Calls
<1>5. DeleteFiles \/ Expire \/ Crash \/ UNCHANGED vars => UNCHANGED scene
  BY DEF DeleteFiles, Expire, Crash, vars, envVars
<1>6. QED
  BY <1>1, <1>2, <1>3, <1>4, <1>5 DEF Next

-----------------------------------------------------------------------------
\* With one thread at work, what it finds in the directories is what it has put
\* there for the version it works at.
P == workers["poll"]
Content(S, v) == [f \in Files |-> IF f \in S THEN v ELSE 0]
Filled(S, v) == [on |-> TRUE, file |-> Content(S, v)]
Defective(v) == scene.kind[v] \in {"unlogged", "bare", "headless"}

Staged ==
    /\ P.pc = "download" => P.left \subseteq Logged(P.v) /\ dir["staging"] = Filled(Logged(P.v) \ P.left, P.v)
    /\ P.pc \in {"inspect", "fetch"} => dir["staging"] = Filled(Logged(P.v), P.v)
    /\ P.pc = "fetch" => scene.kind[P.v] \in {"split", "headless"}
    /\ P.pc \in {"copy", "copying"} => dir["staging"] = Filled(Complete(P.v), P.v)

Copied ==
    /\ P.pc = "copying" => P.left \subseteq Complete(P.v) /\ dir["copy"] = Filled(Complete(P.v) \ P.left, P.v)
    /\ P.pc = "rename" => dir["copy"] = Filled(Complete(P.v), P.v)

Steady ==
    /\ workers["listener"] = IdleWorker
    /\ P.via = "mlflow" /\ ~P.bad
    /\ Staged /\ Copied
    /\ P.pc = "fail" => Defective(P.v) \/ fails[P.v] >= MaxAttempts

Working == TypeOK /\ (Solo => Steady)

\* Steps that leave the worker and its directories alone.
LEMMA SteadyKept ==
    ASSUME Steady, UNCHANGED <<workers, fails, scene>>, dir'["staging"] = dir["staging"], dir'["copy"] = dir["copy"]
    PROVE  Steady'
BY ZenonT(60) DEF Steady, Staged, Copied, P, Defective, Logged, Complete

\* The worker leaves.
LEMMA SteadyLeaves ==
    ASSUME TypeOK, Steady, Leave("poll")
    PROVE  Steady'
<1>1. workers' = [workers EXCEPT !["poll"] = IdleWorker] /\ workers \in [Workers -> WorkerRecord]
  BY DEF Leave, TypeOK
<1>2. workers'["poll"] = IdleWorker /\ workers'["listener"] = workers["listener"]
  BY <1>1 DEF Workers
<1>3. IdleWorker.pc = "idle" /\ IdleWorker.via = "mlflow" /\ ~IdleWorker.bad
  BY DEF IdleWorker
<1>4. QED
  BY <1>2, <1>3 DEF Steady, Staged, Copied, P

\* The worker goes on to another place, with the version it has.
LEMMA PollGoes ==
    ASSUME TypeOK, NEW pc, Goto("poll", pc)
    PROVE  /\ P' = [P EXCEPT !.pc = pc] /\ P'.pc = pc /\ P'.v = P.v /\ P'.left = P.left
           /\ P'.via = P.via /\ P'.bad = P.bad
           /\ workers'["listener"] = workers["listener"]
<1>1. workers \in [Workers -> WorkerRecord] /\ P \in WorkerRecord
  BY DEF TypeOK, P, Workers
<1>2. P' = [P EXCEPT !.pc = pc] /\ workers'["listener"] = workers["listener"]
  BY <1>1 DEF Goto, P, Workers
<1>3. QED
  BY <1>1, <1>2 DEF WorkerRecord

\* The comparison, and what comes before the first file.
LEMMA SteadyBegins ==
    ASSUME TypeOK, Steady, Solo, PollStarts \/ Triggered \/ Published \/ Compare("poll") \/ Clean("poll")
    PROVE  Steady'
<1>1. ~Triggered /\ ~Published
  BY DEF Solo, Triggered, Published
<1>2. P \in WorkerRecord /\ workers \in [Workers -> WorkerRecord]
  BY DEF TypeOK, P, Workers
<1>3. CASE PollStarts
  <2> DEFINE r == [IdleWorker EXCEPT !.pc = "compare", !.v = prod]
  <2>1. r.pc = "compare" /\ r.via = "mlflow" /\ ~r.bad
    BY DEF IdleWorker
  <2>2. P' = r /\ workers'["listener"] = workers["listener"]
    BY <1>2, <1>3 DEF PollStarts, AskAlias, P, Workers
  <2> HIDE DEF r
  <2>3. QED
    BY <2>1, <2>2 DEF Steady, Staged, Copied
<1>4. CASE Compare("poll")
  <2>1. CASE Goto("poll", "clean")
    BY <2>1, PollGoes DEF Steady, Staged, Copied
  <2>2. CASE Leave("poll")
    BY <2>2, SteadyLeaves
  <2>3. QED
    BY <1>4, <2>1, <2>2 DEF Compare
<1>5. CASE Clean("poll")
  <2>1. CASE scene.kind[Version("poll")] = "unlogged"
    <3>1. Goto("poll", "fail") /\ UNCHANGED scene
      BY <1>5, <2>1 DEF Clean, envVars
    <3>2. Defective(P.v)'
      BY <2>1, <3>1, PollGoes DEF Defective, Version, P
    <3>3. QED
      BY <3>1, <3>2, PollGoes DEF Steady, Staged, Copied
  <2>2. CASE scene.kind[Version("poll")] # "unlogged"
    <3> DEFINE r == [P EXCEPT !.pc = "download", !.left = Logged(P.v)]
    <3>1. P' = r /\ workers'["listener"] = workers["listener"] /\ UNCHANGED scene
      BY <1>2, <1>5, <2>2 DEF Clean, P, Workers, Version, envVars
    <3>2. r.pc = "download" /\ r.left = Logged(P.v) /\ r.via = P.via /\ r.bad = P.bad /\ r.v = P.v
      BY <1>2 DEF WorkerRecord
    <3>3. dir'["staging"] = EmptyDir
      BY <1>5, <2>2 DEF Clean, TypeOK, Places
    <3>4. EmptyDir = Filled({}, P.v)
      BY DEF EmptyDir, Filled, Content, Nothing
    <3>5. Logged(P.v)' = Logged(P.v)
      BY <3>1, <3>2 DEF Logged
    <3> HIDE DEF r
    <3>6. QED
      BY <3>1, <3>2, <3>3, <3>4, <3>5 DEF Steady, Staged, Copied
  <2>3. QED
    BY <2>1, <2>2
<1>6. QED
  BY <1>1, <1>3, <1>4, <1>5

\* The files arrive one after the other.
LEMMA SteadyDownloads ==
    ASSUME TypeOK, Steady, Solo, Download("poll") \/ Downloaded("poll") \/ DownloadFails("poll")
    PROVE  Steady'
<1>1. P \in WorkerRecord /\ workers \in [Workers -> WorkerRecord] /\ dir \in [Places -> Dir] /\ UNCHANGED scene
  BY DEF TypeOK, P, Workers, Download, Downloaded, DownloadFails, envVars
<1>2. P.pc # "idle" /\ P.v \in Versions /\ fails \in [Versions -> Nat]
  BY DEF Download, Downloaded, DownloadFails, At, TypeOK, P, Workers
<1>3. CASE Download("poll")
  <2>1. PICK f \in P.left :
          /\ dir' = [dir EXCEPT !["staging"].on = TRUE, !["staging"].file[f] = P.v]
          /\ workers' = [workers EXCEPT !["poll"].left = @ \ {f}]
    BY <1>3 DEF Download, P, Version
  <2> DEFINE r == [P EXCEPT !.left = @ \ {f}]
  <2>2. P' = r /\ workers'["listener"] = workers["listener"]
    BY <1>1, <2>1 DEF P, Workers
  <2>3. r.pc = P.pc /\ r.left = P.left \ {f} /\ r.via = P.via /\ r.bad = P.bad /\ r.v = P.v
    BY <1>1 DEF WorkerRecord
  <2>4. P.pc = "download" /\ P.left \subseteq Logged(P.v) /\ dir["staging"] = Filled(Logged(P.v) \ P.left, P.v)
    BY <1>3 DEF Download, At, P, Steady, Staged
  <2>5. dir'["staging"] = [dir["staging"] EXCEPT !.on = TRUE, !.file[f] = P.v]
    BY <1>1, <2>1 DEF Places
  <2>6. dir'["staging"] = Filled(Logged(P.v) \ r.left, P.v)
    <3>1. f \in Files
      BY <1>1 DEF WorkerRecord
    <3>2. dir'["staging"] = [on |-> TRUE, file |-> [Content(Logged(P.v) \ P.left, P.v) EXCEPT ![f] = P.v]]
      <4>1. dir["staging"].file = Content(Logged(P.v) \ P.left, P.v)
        BY <2>4 DEF Filled
      <4>2. dir["staging"] \in Dir
        BY <1>1 DEF Places
      <4>3. dir'["staging"] = [on |-> TRUE, file |-> [dir["staging"].file EXCEPT ![f] = P.v]]
        BY <2>5, <4>2 DEF Dir
      <4>4. QED
        BY <4>1, <4>3
    <3>3. [Content(Logged(P.v) \ P.left, P.v) EXCEPT ![f] = P.v] = Content(Logged(P.v) \ r.left, P.v)
      BY <2>3, <2>4, <3>1 DEF Content
    <3>4. QED
      BY <3>2, <3>3 DEF Filled
  <2>7. Logged(P.v)' = Logged(P.v)
    BY <1>1, <2>2, <2>3 DEF Logged
  <2> HIDE DEF r
  <2>8. QED
    BY <2>2, <2>3, <2>4, <2>6, <2>7 DEF Steady, Staged, Copied
<1>4. CASE Downloaded("poll")
  <2>1. Goto("poll", "inspect") /\ UNCHANGED dir /\ P.pc = "download" /\ P.left = {}
    BY <1>4 DEF Downloaded, diskVars, At, P
  <2>2. dir["staging"] = Filled(Logged(P.v), P.v)
    BY <2>1 DEF Steady, Staged
  <2>3. Logged(P.v)' = Logged(P.v)
    BY <1>1, <2>1, PollGoes DEF Logged
  <2>4. QED
    BY <2>1, <2>2, <2>3, PollGoes DEF Steady, Staged, Copied
<1>5. CASE DownloadFails("poll")
  <2>1. CASE Leave("poll")
    BY <2>1, SteadyLeaves
  <2>2. CASE ~Leave("poll")
    <3>1. /\ fails' = [fails EXCEPT ![P.v] = fails[P.v] + 1] /\ fails[P.v] + 1 >= MaxAttempts
          /\ Goto("poll", "fail")
      BY <1>5, <2>2 DEF DownloadFails, GiveUp, Version, P
    <3>2. fails'[P.v] >= MaxAttempts
      BY <1>2, <3>1
    <3>3. P'.pc = "fail" /\ P'.v = P.v /\ P'.via = P.via /\ P'.bad = P.bad /\ workers'["listener"] = workers["listener"]
      BY <3>1, PollGoes
    <3>4. QED
      BY <3>2, <3>3 DEF Steady, Staged, Copied
  <2>3. QED
    BY <2>1, <2>2
<1>6. QED
  BY <1>3, <1>4, <1>5

\* What lacks a file is given up, a network stored apart is fetched.
LEMMA SteadyInspects ==
    ASSUME TypeOK, Steady, Solo, Inspect("poll") \/ Fetch("poll")
    PROVE  Steady'
<1>1. P \in WorkerRecord /\ workers \in [Workers -> WorkerRecord] /\ dir \in [Places -> Dir] /\ UNCHANGED scene
  BY DEF TypeOK, P, Workers, Inspect, Fetch, envVars
<1>2. /\ P.pc \in {"inspect", "fetch"} /\ P.v \in Versions /\ P.v # 0 /\ scene.kind[P.v] \in Kinds
      /\ dir["staging"] = Filled(Logged(P.v), P.v)
  BY SceneTypes DEF Inspect, Fetch, At, TypeOK, P, Workers, Versions, Steady, Staged
<1>3. \A f \in Files : Has("staging", f) <=> f \in Logged(P.v)
  BY <1>2 DEF Has, Filled, Content
<1>4. ASSUME Goto("poll", "fail"), Defective(P.v) PROVE Steady'
  <2>1. P'.pc = "fail" /\ P'.v = P.v /\ P'.via = P.via /\ P'.bad = P.bad /\ workers'["listener"] = workers["listener"]
    BY <1>4, PollGoes
  <2>2. Defective(P.v)'
    BY <1>1, <1>4, <2>1 DEF Defective
  <2>3. QED
    BY <2>1, <2>2 DEF Steady, Staged, Copied
<1>5. ASSUME Goto("poll", "copy"), dir'["staging"] = Filled(Complete(P.v), P.v) PROVE Steady'
  <2>1. P'.pc = "copy" /\ P'.v = P.v /\ P'.via = P.via /\ P'.bad = P.bad /\ workers'["listener"] = workers["listener"]
    BY <1>5, PollGoes
  <2>2. Complete(P.v)' = Complete(P.v)
    BY <1>1, <2>1 DEF Complete, Logged
  <2>3. QED
    BY <1>5, <2>1, <2>2 DEF Steady, Staged, Copied
<1>6. CASE Inspect("poll")
  <2>1. Required("poll") = {"backtest"}
    BY DEF Required, Steady, P
  <2>2. CASE "backtest" \notin Logged(P.v)
    <3>1. Goto("poll", "fail")
      BY <1>3, <1>6, <2>1, <2>2 DEF Inspect, Files
    <3>2. Defective(P.v)
      BY <1>2, <2>2 DEF Defective, Logged, Kinds, Files
    <3>3. QED
      BY <1>4, <3>1, <3>2
  <2>3. CASE "backtest" \in Logged(P.v) /\ "onnx" \in Logged(P.v)
    <3>1. Goto("poll", "copy") /\ UNCHANGED dir
      BY <1>3, <1>6, <2>1, <2>3 DEF Inspect, Files
    <3>2. Complete(P.v) = Logged(P.v)
      BY <2>3 DEF Complete
    <3>3. QED
      BY <1>2, <1>5, <3>1, <3>2
  <2>4. CASE "backtest" \in Logged(P.v) /\ "onnx" \notin Logged(P.v)
    <3>1. Goto("poll", "fetch") /\ UNCHANGED dir
      BY <1>3, <1>6, <2>1, <2>4 DEF Inspect, Files
    <3>2. scene.kind[P.v] \in {"split", "headless"}
      BY <1>2, <2>4 DEF Logged, Kinds, Files
    <3>3. P'.pc = "fetch" /\ P'.v = P.v /\ P'.via = P.via /\ P'.bad = P.bad /\ workers'["listener"] = workers["listener"]
      BY <3>1, PollGoes
    <3>4. Logged(P.v)' = Logged(P.v)
      BY <1>1, <3>3 DEF Logged
    <3>5. QED
      BY <1>1, <1>2, <3>1, <3>2, <3>3, <3>4 DEF Steady, Staged, Copied
  <2>5. QED
    BY <2>2, <2>3, <2>4
<1>7. CASE Fetch("poll")
  <2>1. scene.kind[P.v] \in {"split", "headless"}
    BY <1>7 DEF Fetch, At, P, Steady, Staged
  <2>2. CASE scene.kind[P.v] = "headless"
    BY <1>4, <1>7, <2>2 DEF Fetch, Version, P, Defective
  <2>3. CASE scene.kind[P.v] = "split"
    <3>1. /\ dir' = [dir EXCEPT !["staging"] = [on |-> TRUE, file |-> [@.file EXCEPT !["onnx"] = P.v]]]
          /\ Goto("poll", "copy")
      BY <1>7, <2>3 DEF Fetch, Version, P
    <3>2. dir'["staging"] = [on |-> TRUE, file |-> [Content(Logged(P.v), P.v) EXCEPT !["onnx"] = P.v]]
      BY <1>1, <1>2, <3>1 DEF Places, Filled
    <3>3. [Content(Logged(P.v), P.v) EXCEPT !["onnx"] = P.v] = Content(Complete(P.v), P.v)
      BY <2>3 DEF Content, Complete, Files
    <3>4. QED
      BY <1>5, <3>1, <3>2, <3>3 DEF Filled
  <2>4. QED
    BY <2>1, <2>2, <2>3
<1>8. QED
  BY <1>6, <1>7

\* The copy is complete before it takes the place of the installed version.
LEMMA SteadyInstalls ==
    ASSUME TypeOK, Steady, Solo,
           \/ FailRecorded("poll") \/ FailMarked("poll") \/ CopyStarts("poll") \/ CopyFile("poll")
           \/ Swap("poll") \/ Rename("poll") \/ Recorded("poll") \/ Activated("poll")
    PROVE  Steady'
<1>1. P \in WorkerRecord /\ workers \in [Workers -> WorkerRecord] /\ dir \in [Places -> Dir] /\ UNCHANGED scene
  BY DEF TypeOK, P, Workers, FailRecorded, FailMarked, CopyStarts, CopyFile, Swap, Rename, Recorded, Activated, envVars
<1>2. P.pc # "idle" /\ P.v \in Versions /\ P.v # 0 /\ Complete(P.v) \subseteq Files
  BY SceneTypes DEF FailRecorded, FailMarked, CopyStarts, CopyFile, Swap, Rename, Recorded, Activated, At,
     TypeOK, P, Workers, Versions
<1>3. ASSUME NEW pc \in {"failing", "record", "active"}, Goto("poll", pc) PROVE Steady'
  BY <1>3, PollGoes DEF Steady, Staged, Copied
<1>4. CASE FailRecorded("poll") \/ FailMarked("poll") \/ Recorded("poll") \/ Activated("poll")
  BY <1>3, <1>4, SteadyLeaves DEF FailRecorded, FailMarked, Recorded, Activated
<1>5. CASE CopyStarts("poll")
  <2>1. dir["staging"] = Filled(Complete(P.v), P.v)
    BY <1>5 DEF CopyStarts, At, P, Steady, Staged
  <2>2. dir["staging"].on /\ \A f \in Files : Has("staging", f) <=> f \in Complete(P.v)
    BY <1>2, <2>1 DEF Has, Filled, Content
  <2> DEFINE S == {f \in Files : Has("staging", f)}
             r == [P EXCEPT !.pc = "copying", !.left = S]
  <2>3. S = Complete(P.v)
    BY <1>2, <2>2
  <2>4. /\ dir' = [dir EXCEPT !["copy"] = EmptyDir]
        /\ workers' = [workers EXCEPT !["poll"] = r]
    BY <1>1, <1>5, <2>2 DEF CopyStarts, P, Workers
  <2> HIDE DEF S
  <2>5. P' = r /\ workers'["listener"] = workers["listener"]
    BY <1>1, <2>4 DEF P, Workers
  <2>6. r.pc = "copying" /\ r.left = S /\ r.via = P.via /\ r.bad = P.bad /\ r.v = P.v
    BY <1>1 DEF WorkerRecord
  <2>7. dir'["copy"] = Filled({}, P.v) /\ dir'["staging"] = dir["staging"]
    BY <1>1, <2>4 DEF Places, EmptyDir, Filled, Content, Nothing
  <2>8. Complete(P.v)' = Complete(P.v)
    BY <1>1, <2>5, <2>6 DEF Complete, Logged
  <2> HIDE DEF r
  <2>9. QED
    BY <2>1, <2>3, <2>5, <2>6, <2>7, <2>8 DEF Steady, Staged, Copied
<1>6. CASE CopyFile("poll")
  <2>1. /\ dir["staging"] = Filled(Complete(P.v), P.v) /\ P.left \subseteq Complete(P.v) /\ P.pc = "copying"
        /\ dir["copy"] = Filled(Complete(P.v) \ P.left, P.v)
    BY <1>6 DEF CopyFile, At, P, Steady, Staged, Copied
  <2>2. PICK f \in P.left :
          IF Has("staging", f) /\ dir["copy"].on
          THEN /\ dir' = [dir EXCEPT !["copy"].file[f] = dir["staging"].file[f]]
               /\ workers' = [workers EXCEPT !["poll"].left = @ \ {f}]
          ELSE /\ workers' = [workers EXCEPT !["poll"].left = @ \ {f}, !["poll"].bad = TRUE]
               /\ UNCHANGED dir
    BY <1>6 DEF CopyFile, P
  <2>3. f \in Files /\ f \in Complete(P.v) /\ dir["staging"].file[f] = P.v /\ Has("staging", f) /\ dir["copy"].on
    BY <1>2, <2>1 DEF Has, Filled, Content
  <2>4. /\ dir' = [dir EXCEPT !["copy"].file[f] = P.v]
        /\ workers' = [workers EXCEPT !["poll"].left = @ \ {f}]
    BY <2>2, <2>3
  <2> DEFINE r == [P EXCEPT !.left = @ \ {f}]
  <2>5. P' = r /\ workers'["listener"] = workers["listener"]
    BY <1>1, <2>4 DEF P, Workers
  <2>6. r.pc = "copying" /\ r.left = P.left \ {f} /\ r.via = P.via /\ r.bad = P.bad /\ r.v = P.v
    BY <1>1, <2>1 DEF WorkerRecord
  <2>7. dir'["copy"] = [on |-> TRUE, file |-> [Content(Complete(P.v) \ P.left, P.v) EXCEPT ![f] = P.v]]
    <3>1. dir["copy"].file = Content(Complete(P.v) \ P.left, P.v) /\ dir["copy"].on
      BY <2>1 DEF Filled
    <3>2. dir["copy"] \in Dir
      BY <1>1 DEF Places
    <3>3. dir'["copy"] = [dir["copy"] EXCEPT !.file[f] = P.v]
      BY <1>1, <2>4 DEF Places
    <3>4. dir'["copy"] = [on |-> TRUE, file |-> [dir["copy"].file EXCEPT ![f] = P.v]]
      BY <3>1, <3>2, <3>3 DEF Dir
    <3>5. QED
      BY <3>1, <3>4
  <2>8. [Content(Complete(P.v) \ P.left, P.v) EXCEPT ![f] = P.v] = Content(Complete(P.v) \ r.left, P.v)
    BY <2>3, <2>6 DEF Content
  <2>9. Complete(P.v)' = Complete(P.v)
    BY <1>1, <2>5, <2>6 DEF Complete, Logged
  <2>10. dir'["staging"] = dir["staging"]
    BY <1>1, <2>4 DEF Places
  <2> HIDE DEF r
  <2>11. dir'["copy"] = Filled(Complete(P.v) \ r.left, P.v)
    BY <2>7, <2>8 DEF Filled
  <2>12. QED
    BY <2>1, <2>5, <2>6, <2>9, <2>10, <2>11 DEF Steady, Staged, Copied
<1>7. CASE Swap("poll")
  <2>1. P.pc = "copying" /\ P.left = {} /\ ~P.bad
    BY <1>7 DEF Swap, At, P, Steady
  <2>2. Clear("model") /\ Goto("poll", "rename")
    BY <1>7, <2>1 DEF Swap, P
  <2>3. dir'["copy"] = Filled(Complete(P.v), P.v)
    BY <1>1, <2>1, <2>2 DEF Clear, Steady, Copied, Places
  <2>4. P'.pc = "rename" /\ P'.v = P.v /\ P'.via = P.via /\ P'.bad = P.bad /\ workers'["listener"] = workers["listener"]
    BY <2>2, PollGoes
  <2>5. Complete(P.v)' = Complete(P.v)
    BY <1>1, <2>4 DEF Complete, Logged
  <2>6. QED
    BY <2>3, <2>4, <2>5 DEF Steady, Staged, Copied
<1>8. CASE Rename("poll")
  BY <1>3, <1>8, SteadyLeaves DEF Rename, Raise
<1>9. QED
  BY <1>4, <1>5, <1>6, <1>7, <1>8

\* One thread works alone, whatever is requested and wherever the process dies.
LEMMA WorkingStep == Working /\ [Next]_vars => Working'
<1> SUFFICES ASSUME Working, [Next]_vars, Solo PROVE Steady'
  BY TypedStep, SceneStays DEF Working, Solo
<1>1. TypeOK /\ Steady /\ UNCHANGED scene
  BY SceneStays DEF Working
<1>2. ASSUME NEW w \in Workers, Sync(w) PROVE Steady'
  <2>1. w = "poll"
    <3>1. workers["listener"].pc = "idle"
      BY <1>1 DEF Steady, IdleWorker
    <3>2. workers[w].pc # "idle"
      BY <1>2 DEF Sync, At, Compare, Clean, Download, Downloaded, DownloadFails, Inspect, Fetch,
         FailRecorded, FailMarked, CopyStarts, CopyFile, Swap, Rename, Recorded, Activated
    <3>3. QED
      BY <3>1, <3>2 DEF Workers
  <2>2. QED
    BY <1>1, <1>2, <2>1, SteadyBegins, SteadyDownloads, SteadyInspects, SteadyInstalls DEF Sync
<1>3. CASE PollStarts \/ Triggered \/ Published
  BY <1>1, <1>3, SteadyBegins
<1>4. CASE ScanAtOnce \/ ScanStarts \/ ScanRuns
  <2>1. UNCHANGED <<workers, fails, dir>>
    BY <1>4 DEF ScanAtOnce, ScanStarts, ScanRuns, ScanReads, ScanHashes, ScanLoads, ScanEnds, diskVars
  <2>2. QED
    BY <1>1, <2>1, SteadyKept
<1>5. CASE Promote \/ RetryDeploy \/ InsertLaunching \/ Demote \/ Delete \/ Expire
  <2>1. UNCHANGED <<workers, fails, dir>>
    BY <1>5 DEF Promote, RetryDeploy, InsertLaunching, Demote, Delete, Expire, Calls, diskVars
  <2>2. QED
    BY <1>1, <2>1, SteadyKept
<1>6. CASE DeleteFiles
  <2>1. UNCHANGED <<workers, fails>> /\ dir' \in {dir, [dir EXCEPT !["model"] = NoDir]}
    BY <1>6 DEF DeleteFiles, Clear
  <2>2. dir'["staging"] = dir["staging"] /\ dir'["copy"] = dir["copy"]
    BY <1>1, <2>1 DEF TypeOK, Places
  <2>3. QED
    BY <1>1, <2>1, <2>2, SteadyKept
<1>7. CASE Crash
  <2>1. workers'["listener"] = IdleWorker /\ workers'["poll"] = IdleWorker
    BY <1>7 DEF Crash, Workers
  <2>2. IdleWorker.pc = "idle" /\ IdleWorker.via = "mlflow" /\ ~IdleWorker.bad
    BY DEF IdleWorker
  <2>3. QED
    BY <2>1, <2>2 DEF Steady, Staged, Copied, P
<1>8. CASE UNCHANGED vars
  <2>1. UNCHANGED <<workers, fails, dir>>
    BY <1>8 DEF vars, diskVars
  <2>2. QED
    BY <1>1, <2>1, SteadyKept
<1>9. QED
  BY <1>2, <1>3, <1>4, <1>5, <1>6, <1>7, <1>8 DEF Next

\* The one thread starts idle.
LEMMA WorkingInit == Init => Working
<1> SUFFICES ASSUME Init PROVE Steady
  BY TypedInit DEF Working
<1>1. IdleWorker.pc = "idle" /\ IdleWorker.via = "mlflow" /\ ~IdleWorker.bad
  BY DEF IdleWorker
<1>2. QED
  BY <1>1 DEF Init, Workers, Steady, Staged, Copied, P

\* The working directories hold what the one thread has put there.
LEMMA WorkingAlways == Spec => []Working
BY WorkingInit, WorkingStep, PTL DEF Spec

\* A version is given up for good only if it lacks something or its download
\* has failed max_download_attempts times (_permanently_fail).
THEOREM GivenUpForCause == Spec => OnlyFaultyFails
<1>1. Working /\ [Next]_vars =>
        [Solo => \A v \in Versions :
            record # Failed(v) /\ record' = Failed(v)
                => scene.kind[v] \in {"unlogged", "bare", "headless"} \/ fails[v] >= MaxAttempts]_vars
  <2> SUFFICES ASSUME Working, [Next]_vars, Solo, NEW v \in Versions, record # Failed(v), record' = Failed(v)
               PROVE  Defective(v) \/ fails[v] >= MaxAttempts
    BY DEF Defective
  <2>1. \E w \in Workers : FailRecorded(w)
    <3>1. ASSUME NEW w \in Workers, Sync(w), ~FailRecorded(w) PROVE record' = record \/ Recorded(w)
      BY <3>1 DEF Sync, Compare, Clean, Download, Downloaded, DownloadFails, Inspect, Fetch, FailMarked,
         CopyStarts, CopyFile, Swap, Rename, Activated, diskVars
    <3>2. \A w \in Workers : ~Recorded(w)
      BY DEF Recorded, Failed, Synced
    <3>3. ~RetryDeploy /\ ~DeleteFiles
      BY DEF RetryDeploy, DeleteFiles, NoRecord, Failed
    <3>4. record' = record \/ \E w \in Workers : Sync(w)
      BY <3>3 DEF Next, vars, diskVars, PollStarts, Triggered, Published, AskAlias, ScanAtOnce, ScanStarts, ScanRuns,
         ScanReads, ScanHashes, ScanLoads, ScanEnds, Promote, InsertLaunching, Demote, Delete, Calls, Expire, Crash
    <3>5. QED
      BY <3>1, <3>2, <3>4
  <2>2. PICK w \in Workers : FailRecorded(w)
    BY <2>1
  <2>3. w = "poll" /\ P.pc = "fail" /\ v = P.v
    BY <2>2 DEF FailRecorded, At, Working, Steady, IdleWorker, Workers, P, Version, Failed
  <2>4. QED
    BY <2>3 DEF Working, Steady
<1>2. QED
  BY <1>1, WorkingAlways, PTL DEF Spec, OnlyFaultyFails

-----------------------------------------------------------------------------
\* With one thread at work, no directory that a scan looks at has files of two
\* versions, whatever crashes and interrupted downloads have left in it.
Mixed(p) == \E f, g \in Files : Has(p, f) /\ Has(p, g) /\ dir[p].file[f] # dir[p].file[g]
Unmixed == Solo => ~Mixed("copy") /\ ~Mixed("model")

\* What is served belongs together, or stems from a mixture of two threads.
Together == served.manifest = served.net \/ (~Solo /\ served.manifest \in scene.unhashed)

\* Without steps of the daemon in between, a scan is over at once.
ScansAlone == ~scene.overlap => scan.pc = "idle" /\ Together

Whole == Working /\ Unmixed /\ ScansAlone

\* A directory without files is not mixed.
LEMMA EmptyUnmixed ==
    ASSUME NEW p \in Places, dir[p] \in {NoDir, EmptyDir}
    PROVE  ~Mixed(p)
BY DEF Mixed, Has, NoDir, EmptyDir, Nothing

\* The copy is filled from a staging directory of one version, and moved as it
\* is; all else removes directories.
LEMMA UnmixedStep == Working /\ Unmixed /\ [Next]_vars => Unmixed'
<1> SUFFICES ASSUME Working, Unmixed, [Next]_vars, Solo PROVE ~Mixed("copy")' /\ ~Mixed("model")'
  BY SceneStays DEF Unmixed, Solo
<1>1. TypeOK /\ Steady /\ dir \in [Places -> Dir] /\ ~Mixed("copy") /\ ~Mixed("model") /\ UNCHANGED scene
  BY SceneStays DEF Working, Unmixed, TypeOK
<1>2. Working'
  BY WorkingStep
<1>3. Steady' /\ TypeOK' /\ dir' \in [Places -> Dir]
  BY <1>1, <1>2 DEF Working, Solo, TypeOK
<1>4. ASSUME NEW p \in Places, ~Mixed(p), dir'[p] = dir[p] PROVE ~Mixed(p)'
  BY <1>4 DEF Mixed, Has
<1>5. ASSUME NEW p \in Places, dir'[p] \in {NoDir, EmptyDir} PROVE ~Mixed(p)'
  BY <1>5 DEF Mixed, Has, NoDir, EmptyDir, Nothing
<1>6. ASSUME UNCHANGED dir PROVE ~Mixed("copy")' /\ ~Mixed("model")'
  BY <1>1, <1>6 DEF Mixed, Has
<1>7. ASSUME NEW w \in Workers, Sync(w) PROVE ~Mixed("copy")' /\ ~Mixed("model")'
  <2>1. w = "poll"
    <3>1. workers["listener"].pc = "idle"
      BY <1>1 DEF Steady, IdleWorker
    <3>2. workers[w].pc # "idle"
      BY <1>7 DEF Sync, At, Compare, Clean, Download, Downloaded, DownloadFails, Inspect, Fetch,
         FailRecorded, FailMarked, CopyStarts, CopyFile, Swap, Rename, Recorded, Activated
    <3>3. QED
      BY <3>1, <3>2 DEF Workers
  <2>2. P.via = "mlflow" /\ ~P.bad
    BY <1>1 DEF Steady
  <2>3. CASE dir'["copy"] = dir["copy"] /\ dir'["model"] = dir["model"]
    BY <1>1, <1>4, <2>3 DEF Places
  <2>4. CASE CopyStarts("poll")
    <3>1. dir'["copy"] \in {NoDir, EmptyDir} /\ dir'["model"] = dir["model"]
      BY <1>1, <2>2, <2>4 DEF CopyStarts, P, Places
    <3>2. QED
      BY <1>1, <1>4, <1>5, <3>1 DEF Places
  <2>5. CASE CopyFile("poll")
    <3>1. P.pc = "copying" /\ P \in WorkerRecord /\ workers \in [Workers -> WorkerRecord]
      BY <1>1, <2>5 DEF CopyFile, At, P, TypeOK, Workers
    <3>2. P'.pc = "copying"
      <4>1. \E f \in P.left : P' \in {[P EXCEPT !.left = @ \ {f}], [P EXCEPT !.left = @ \ {f}, !.bad = TRUE]}
        BY <2>5, <3>1 DEF CopyFile, P, Workers
      <4>2. QED
        BY <3>1, <4>1 DEF WorkerRecord
    <3>3. (dir["copy"] = Filled(Complete(P.v) \ P.left, P.v))'
      BY <1>3, <3>2 DEF Steady, Copied
    <3>4. ~Mixed("copy")'
      <4>1. \A f, g \in Files : dir'["copy"].file[f] # 0 /\ dir'["copy"].file[g] # 0
                                  => dir'["copy"].file[f] = dir'["copy"].file[g]
        BY <3>3 DEF Filled, Content
      <4>2. QED
        BY <4>1 DEF Mixed, Has
    <3>5. dir'["model"] = dir["model"]
      BY <1>1, <2>5 DEF CopyFile, Places
    <3>6. QED
      BY <1>1, <1>4, <3>4, <3>5 DEF Places
  <2>6. CASE Swap("poll")
    <3>1. dir'["copy"] = dir["copy"] /\ dir'["model"] \in {NoDir, dir["model"]}
      BY <1>1, <2>2, <2>6 DEF Swap, Raise, Clear, P, Places
    <3>2. QED
      BY <1>1, <1>4, <1>5, <3>1 DEF Places
  <2>7. CASE Rename("poll")
    <3>1. CASE dir' = [dir EXCEPT !["model"] = dir["copy"], !["copy"] = NoDir]
      <4>1. dir'["model"] = dir["copy"] /\ dir'["copy"] = NoDir
        BY <1>1, <3>1 DEF Places
      <4>2. ~Mixed("model")'
        BY <1>1, <4>1 DEF Mixed, Has
      <4>3. QED
        BY <1>5, <4>1, <4>2 DEF Places
    <3>2. CASE UNCHANGED dir
      BY <1>6, <3>2
    <3>3. QED
      BY <2>2, <2>7, <3>1, <3>2 DEF Rename, Raise, P
  <2>8. CASE \/ Compare("poll") \/ Clean("poll") \/ Download("poll") \/ Downloaded("poll") \/ DownloadFails("poll")
             \/ Inspect("poll") \/ Fetch("poll") \/ FailRecorded("poll") \/ FailMarked("poll")
             \/ Recorded("poll") \/ Activated("poll")
    <3>1. dir'["copy"] = dir["copy"] /\ dir'["model"] = dir["model"]
      BY <1>1, <2>8 DEF Compare, Clean, Download, Downloaded, DownloadFails, Inspect, Fetch, FailRecorded, FailMarked,
         Recorded, Activated, Clear, diskVars, Places
    <3>2. QED
      BY <2>3, <3>1
  <2>9. QED
    BY <1>7, <2>1, <2>4, <2>5, <2>6, <2>7, <2>8 DEF Sync
<1>8. CASE DeleteFiles
  <2>1. dir'["copy"] = dir["copy"] /\ dir'["model"] \in {NoDir, dir["model"]}
    BY <1>1, <1>8 DEF DeleteFiles, Clear, Places
  <2>2. QED
    BY <1>1, <1>4, <1>5, <2>1 DEF Places
<1>9. CASE PollStarts \/ ScanAtOnce \/ ScanStarts \/ ScanRuns \/ Promote \/ RetryDeploy \/ InsertLaunching \/ Demote
           \/ Delete \/ Expire \/ Crash \/ UNCHANGED vars
  <2>1. UNCHANGED dir
    BY <1>9 DEF PollStarts, AskAlias, ScanAtOnce, ScanStarts, ScanRuns, ScanReads, ScanHashes, ScanLoads, ScanEnds,
       Promote, RetryDeploy, InsertLaunching, Demote, Delete, Expire, Crash, Calls, diskVars, vars
  <2>2. QED
    BY <1>6, <2>1
<1>10. ~Triggered /\ ~Published
  BY DEF Triggered, Published, Solo
<1>11. QED
  BY <1>7, <1>8, <1>9, <1>10 DEF Next

\* A scan serves a pair of one directory: its hash was compared, or its manifest
\* has none, and then the directory is not mixed if one thread works alone.
LEMMA ScansAloneStep == Working /\ Unmixed /\ ScansAlone /\ [Next]_vars => ScansAlone'
<1> SUFFICES ASSUME Working, Unmixed, ScansAlone, [Next]_vars, ~scene.overlap PROVE scan'.pc = "idle" /\ Together'
  BY SceneStays DEF ScansAlone
<1>1. scan.pc = "idle" /\ Together /\ UNCHANGED scene
  BY SceneStays DEF ScansAlone
<1>2. ASSUME served' = NotServed PROVE Together'
  BY <1>2 DEF NotServed, Together
<1>3. CASE ScanAtOnce
  <2>1. UNCHANGED scan
    BY <1>3 DEF ScanAtOnce
  <2>2. ASSUME NEW p \in {"copy", "model"}, Has(p, "manifest"), Has(p, "onnx"), Verified(p, dir[p].file["manifest"]),
               served' = Loaded(p, dir[p].file["manifest"])
        PROVE  Together'
    <3>1. served'.manifest = dir[p].file["manifest"] /\ served'.net = dir[p].file["onnx"]
      BY <2>2 DEF Loaded
    <3>2. Solo => dir[p].file["manifest"] = dir[p].file["onnx"]
      BY <2>2 DEF Unmixed, Mixed, Files
    <3>3. served'.manifest = served'.net \/ (~Solo /\ served'.manifest \in scene.unhashed)
      BY <2>2, <3>1, <3>2 DEF Verified
    <3>4. QED
      BY <1>1, <3>3 DEF Together, Solo
  <2>3. Together'
    BY <1>2, <1>3, <2>2 DEF ScanAtOnce
  <2>4. QED
    BY <1>1, <2>1, <2>3
<1>4. CASE Crash
  BY <1>2, <1>4 DEF Crash, IdleScan
<1>5. CASE ScanStarts \/ ScanRuns
  BY <1>1, <1>5 DEF ScanStarts, ScanRuns, ScanReads, ScanHashes, ScanLoads, ScanEnds
<1>6. ASSUME UNCHANGED scanVars PROVE scan'.pc = "idle" /\ Together'
  BY <1>1, <1>6 DEF scanVars, Together, Solo
<1>7. ASSUME NEW w \in Workers, Sync(w) PROVE UNCHANGED scanVars
  BY <1>7, SyncKeeps
<1>8. CASE PollStarts \/ Triggered \/ Published \/ Promote \/ RetryDeploy \/ InsertLaunching \/ Demote \/ Delete
           \/ DeleteFiles \/ Expire
  BY <1>6, <1>8 DEF PollStarts, Triggered, Published, AskAlias, Promote, RetryDeploy, Calls, InsertLaunching, Demote,
     Delete, DeleteFiles, Expire
<1>9. CASE UNCHANGED vars
  BY <1>6, <1>9 DEF vars
<1>10. QED
  BY <1>3, <1>4, <1>5, <1>6, <1>7, <1>8, <1>9 DEF Next

\* What is served is a manifest and the network it was written for, as long as
\* no thread exchanges the files during the scan: by its hash, or, without one,
\* because nothing mixes two versions while one thread works alone, across
\* crashes and interrupted downloads (OnnxModel.__init__, _sync_once, _promote).
THEOREM ManifestMatchesNetwork == Spec => []ServedWhole
<1>1. Init => Whole
  <2> SUFFICES ASSUME Init PROVE Unmixed /\ ScansAlone
    BY WorkingInit DEF Whole
  <2>1. dir["copy"] = NoDir /\ dir["model"] = NoDir
    BY DEF Init, Places
  <2>2. Unmixed
    BY <2>1, EmptyUnmixed DEF Unmixed, Places
  <2>3. ScansAlone
    BY DEF Init, ScansAlone, Together, IdleScan, NotServed
  <2>4. QED
    BY <2>2, <2>3
<1>2. Whole /\ [Next]_vars => Whole'
  BY WorkingStep, UnmixedStep, ScansAloneStep DEF Whole
<1>3. Whole => ServedWhole
  BY DEF Whole, ScansAlone, Together, ServedWhole
<1>4. QED
  BY <1>1, <1>2, <1>3, PTL DEF Spec

-----------------------------------------------------------------------------
\* What the record of a synced version says of the files.  A version that is
\* recorded and no longer installed was removed by a promotion that a crash cut
\* short: the alias stands on a later version, and stays there.
Undisturbed == Solo /\ NoDelete /\ Recoverable
Forward == scene.events \cap {"rollback", "demote"} = {}

InOrder ==
    Forward => /\ P.pc # "idle" => P.v <= prod
               /\ \A u \in Versions : record = Synced(u) => u <= prod /\ (P.pc # "idle" => u <= P.v)

Lost(u) == record = Synced(u) /\ ~Installed(u) /\ P.pc \notin {"rename", "record"}

InPlace ==
    /\ api \in {"idle", "insert"}
    /\ P.pc = "rename" => dir["model"] = NoDir
    /\ P.pc \in {"record", "active"} => Installed(P.v)
    /\ P.pc \notin {"idle", "compare", "active"} => record # Synced(P.v)
    /\ InOrder
    /\ \A u \in Versions : Lost(u) => scene.crashes # 0 /\ u < prod /\ (P.pc # "idle" => u < P.v)

Truthful == Working /\ (Undisturbed => InPlace)

\* An installed version depends on its directory only.
LEMMA InstalledKept ==
    ASSUME UNCHANGED scene, dir'["model"] = dir["model"]
    PROVE  \A u : Installed(u)' = Installed(u)
BY DEF Installed, Complete, Logged

Middle == {"clean", "download", "inspect", "fetch", "fail", "failing", "copy", "copying"}

\* The worker moves on before the installed version is touched.
LEMMA InPlaceMoves ==
    ASSUME TypeOK, InPlace, UNCHANGED <<scene, prod, record, api>>, dir'["model"] = dir["model"],
           P.pc \in Middle \cup {"compare"}, P'.v = P.v, P'.pc \in Middle,
           P.pc = "compare" => record # Synced(P.v)
    PROVE  InPlace'
<1>1. \A u \in Versions : Installed(u)' = Installed(u)
  BY InstalledKept
<1>2. \A u \in Versions : Lost(u)' => Lost(u)
  BY <1>1 DEF Lost, Synced, Middle
<1>3. InOrder'
  BY DEF InPlace, InOrder, Forward, Middle, Synced
<1>4. \A u \in Versions : Lost(u)' => scene.crashes # 0 /\ u < prod /\ u < P.v
  BY <1>2 DEF InPlace, Middle
<1>5. record # Synced(P.v)
  BY DEF InPlace, Middle
<1>6. QED
  BY <1>3, <1>4, <1>5 DEF InPlace, Middle, Synced

\* The worker leaves, whatever it has done.
LEMMA InPlaceLeaves ==
    ASSUME TypeOK, InPlace, UNCHANGED <<scene, prod, record, api>>, dir'["model"] = dir["model"],
           P.pc \notin {"rename", "record"}, P'.pc = "idle"
    PROVE  InPlace'
<1>1. \A u \in Versions : Installed(u)' = Installed(u)
  BY InstalledKept
<1>2. \A u \in Versions : Lost(u)' => Lost(u)
  BY <1>1 DEF Lost, Synced
<1>3. InOrder'
  BY DEF InPlace, InOrder, Forward, Synced
<1>4. QED
  BY <1>2, <1>3 DEF InPlace

\* Requests move the alias forward, or undo no crash.
LEMMA InPlaceKept ==
    ASSUME TypeOK, InPlace, Recoverable, UNCHANGED <<scene, workers>>, record' \in {record, NoRecord},
           dir'["model"] = dir["model"], api' \in {"idle", "insert"}, prod' \in 0..LastVersion,
           Forward => prod' >= prod
    PROVE  InPlace'
<1>1. \A u \in Versions : Installed(u)' = Installed(u)
  BY InstalledKept
<1>2. P' = P /\ (P.pc # "idle" => P.v \in Versions) /\ Versions \subseteq Nat /\ prod \in Nat /\ prod' \in Nat
  BY ConstantTypes DEF P, TypeOK, Versions, Workers
<1>3. \A u : record' = Synced(u) => record = Synced(u)
  BY DEF Synced, NoRecord
<1>4. InOrder'
  <2> SUFFICES ASSUME Forward PROVE InOrder'
    BY DEF InOrder, Forward
  <2>1. prod <= prod' /\ P' = P
    BY <1>2
  <2>2. P.pc # "idle" => P.v <= prod
    BY DEF InPlace, InOrder
  <2>3. P.pc # "idle" => P.v <= prod'
    <3>1. P.pc # "idle" => P.v \in Nat
      BY <1>2
    <3>2. prod \in Nat /\ prod' \in Nat /\ prod <= prod'
      BY <1>2, <2>1
    <3>3. QED
      BY <2>2, <3>1, <3>2
  <2>4. ASSUME NEW u \in Versions, record' = Synced(u) PROVE u <= prod' /\ (P.pc # "idle" => u <= P.v)
    <3>1. u <= prod /\ (P.pc # "idle" => u <= P.v)
      BY <1>3, <2>4 DEF InPlace, InOrder
    <3>2. QED
      BY <1>2, <2>1, <3>1
  <2>5. QED
    BY <2>1, <2>3, <2>4 DEF InOrder, Synced
<1>5. scene.crashes # 0 => Forward
  BY DEF Recoverable, Forward
<1>6. ASSUME NEW u \in Versions, Lost(u)' PROVE scene.crashes # 0 /\ u < prod' /\ (P.pc # "idle" => u < P.v)
  <2>1. Lost(u)
    BY <1>1, <1>2, <1>3, <1>6 DEF Lost, Synced
  <2>2. scene.crashes # 0 /\ u < prod /\ (P.pc # "idle" => u < P.v)
    BY <2>1 DEF InPlace
  <2>3. QED
    BY <1>2, <1>5, <2>2
<1>7. P.pc \in {"record", "active"} => Installed(P.v)'
  BY <1>1, <1>2 DEF InPlace
<1>8. P.pc \notin {"idle", "compare", "active"} => record' # Synced(P.v)
  BY <1>3 DEF InPlace
<1>9. QED
  BY <1>2, <1>4, <1>6, <1>7, <1>8 DEF InPlace, Synced

\* The worker's steps up to the copy.
LEMMA InPlaceFetching ==
    ASSUME TypeOK, Steady, InPlace,
           \/ PollStarts \/ Compare("poll") \/ Clean("poll") \/ Download("poll") \/ Downloaded("poll")
           \/ DownloadFails("poll") \/ Inspect("poll") \/ Fetch("poll")
    PROVE  InPlace'
<1>1. P \in WorkerRecord /\ workers \in [Workers -> WorkerRecord] /\ dir \in [Places -> Dir]
  BY DEF TypeOK, P, Workers
<1>2. dir'["model"] = dir["model"]
  BY <1>1 DEF PollStarts, AskAlias, Compare, Clean, Download, Downloaded, DownloadFails, Inspect, Fetch, Clear,
     diskVars, Places
<1>3. UNCHANGED <<scene, prod, record, api>>
  BY DEF PollStarts, AskAlias, Compare, Clean, Download, Downloaded, DownloadFails, Inspect, Fetch, diskVars, outVars,
     envVars
<1>4. Leave("poll") => P'.pc = "idle"
  BY <1>1 DEF Leave, P, Workers, IdleWorker
<1>5. CASE PollStarts
  <2>1. P'.pc = "compare" /\ P'.v = prod /\ P.pc = "idle"
    BY <1>1, <1>5 DEF PollStarts, AskAlias, At, P, Workers, IdleWorker
  <2>2. \A u \in Versions : Installed(u)' = Installed(u)
    BY <1>2, <1>3, InstalledKept
  <2>3. \A u \in Versions : Lost(u)' => Lost(u)
    BY <1>3, <2>1, <2>2 DEF Lost, Synced
  <2>4. prod \in Nat
    BY ConstantTypes DEF TypeOK
  <2>5. InOrder'
    BY <1>3, <2>1, <2>4 DEF InPlace, InOrder, Forward, Synced
  <2>6. QED
    BY <1>3, <2>1, <2>3, <2>5 DEF InPlace
<1>6. CASE Compare("poll")
  <2>1. P.pc = "compare" /\ (Leave("poll") \/ (Goto("poll", "clean") /\ record # Synced(P.v)))
    BY <1>6 DEF Compare, At, P, Version
  <2>2. QED
    BY <1>2, <1>3, <1>4, <2>1, PollGoes, InPlaceLeaves, InPlaceMoves DEF Middle
<1>7. CASE Clean("poll") \/ Download("poll")
  <2>1. P.pc \in Middle /\ P'.v = P.v /\ P'.pc \in Middle
    BY <1>1, <1>7 DEF Clean, Download, Goto, At, P, Workers, Middle, WorkerRecord
  <2>2. QED
    BY <1>2, <1>3, <2>1, InPlaceMoves DEF Middle
<1>8. CASE Downloaded("poll") \/ DownloadFails("poll") \/ Inspect("poll") \/ Fetch("poll")
  <2>1. P.pc \in Middle /\ (Leave("poll") \/ \E pc \in Middle : Goto("poll", pc))
    BY <1>8 DEF Downloaded, DownloadFails, Inspect, Fetch, GiveUp, At, P, Middle
  <2>2. P.pc \notin {"rename", "record", "compare"}
    BY <2>1 DEF Middle
  <2>3. CASE Leave("poll")
    BY <1>2, <1>3, <1>4, <2>2, <2>3, InPlaceLeaves
  <2>4. ASSUME NEW pc \in Middle, Goto("poll", pc) PROVE InPlace'
    <3>1. P'.pc = pc /\ P'.v = P.v
      BY <2>4, PollGoes
    <3>2. QED
      BY <1>2, <1>3, <2>1, <2>2, <3>1, InPlaceMoves
  <2>5. QED
    BY <2>1, <2>3, <2>4
<1>9. QED
  BY <1>5, <1>6, <1>7, <1>8

\* The worker's steps from the copy on: the version is installed before it is
\* recorded.
LEMMA InPlaceInstalling ==
    ASSUME TypeOK, Steady, InPlace,
           \/ FailRecorded("poll") \/ FailMarked("poll") \/ CopyStarts("poll") \/ CopyFile("poll")
           \/ Swap("poll") \/ Rename("poll") \/ Recorded("poll") \/ Activated("poll")
    PROVE  InPlace'
<1>1. P \in WorkerRecord /\ workers \in [Workers -> WorkerRecord] /\ dir \in [Places -> Dir]
  BY DEF TypeOK, P, Workers
<1>2. UNCHANGED <<scene, prod, api>> /\ P.pc # "idle" /\ P.v \in Versions
  BY DEF FailRecorded, FailMarked, CopyStarts, CopyFile, Swap, Rename, Recorded, Activated, outVars, envVars,
     At, P, TypeOK, Workers
<1>3. Leave("poll") => P'.pc = "idle"
  BY <1>1 DEF Leave, P, Workers, IdleWorker
<1>4. CASE FailMarked("poll") \/ CopyStarts("poll") \/ CopyFile("poll") \/ Activated("poll")
  <2>1. UNCHANGED record
    BY <1>4 DEF FailMarked, CopyStarts, CopyFile, Activated, diskVars
  <2>2. dir'["model"] = dir["model"]
    BY <1>1, <1>4 DEF FailMarked, CopyStarts, CopyFile, Activated, Clear, diskVars, Places
  <2>3. CASE FailMarked("poll") \/ Activated("poll")
    BY <1>2, <1>3, <2>1, <2>2, <2>3, InPlaceLeaves DEF FailMarked, Activated, At, P
  <2>4. CASE CopyStarts("poll") \/ CopyFile("poll")
    <3>1. P.pc \in Middle /\ P.pc \notin {"compare", "rename", "record"}
      BY <2>4 DEF CopyStarts, CopyFile, At, P, Middle
    <3>2. P'.pc = "idle" \/ (P'.pc = "copying" /\ P'.v = P.v)
      <4>1. ASSUME CopyStarts("poll") PROVE P'.pc = "idle" \/ (P'.pc = "copying" /\ P'.v = P.v)
        BY <1>1, <1>3, <4>1 DEF CopyStarts, P, Workers, WorkerRecord
      <4>2. ASSUME CopyFile("poll") PROVE P'.pc = "copying" /\ P'.v = P.v
        <5>1. P.pc = "copying" /\ \E f \in P.left : P' \in {[P EXCEPT !.left = @ \ {f}], [P EXCEPT !.left = @ \ {f}, !.bad = TRUE]}
          BY <1>1, <4>2 DEF CopyFile, At, P, Workers
        <5>2. QED
          BY <1>1, <5>1 DEF WorkerRecord
      <4>3. QED
        BY <2>4, <4>1, <4>2
    <3>3. QED
      BY <1>2, <2>1, <2>2, <3>1, <3>2, InPlaceLeaves, InPlaceMoves DEF Middle
  <2>5. QED
    BY <1>4, <2>3, <2>4
<1>5. CASE FailRecorded("poll")
  <2>1. /\ record' = Failed(P.v) /\ UNCHANGED dir /\ P'.pc = "failing" /\ P'.v = P.v
    BY <1>5, PollGoes DEF FailRecorded, Version, P
  <2>2. \A u : record' # Synced(u)
    BY <2>1 DEF Failed, Synced
  <2>3. InOrder'
    BY <1>2, <2>1, <2>2 DEF InPlace, InOrder, Forward, Synced
  <2>4. \A u \in Versions : ~Lost(u)'
    BY <2>2 DEF Lost, Synced
  <2>5. QED
    BY <1>2, <2>1, <2>2, <2>3, <2>4 DEF InPlace, Synced
<1>6. CASE Swap("poll")
  <2>1. P.pc = "copying" /\ ~P.bad /\ UNCHANGED record
    BY <1>6 DEF Swap, At, P, Steady
  <2>2. dir'["model"] = NoDir /\ Goto("poll", "rename")
    BY <1>1, <1>6, <2>1 DEF Swap, Clear, P, Places
  <2>3. P'.pc = "rename" /\ P'.v = P.v
    BY <2>2, PollGoes
  <2>4. InOrder'
    BY <1>2, <2>1, <2>3 DEF InPlace, InOrder, Forward, Synced
  <2>5. \A u \in Versions : ~Lost(u)'
    BY <2>3 DEF Lost
  <2>6. QED
    BY <1>2, <2>1, <2>2, <2>3, <2>4, <2>5 DEF InPlace, Synced
<1>7. CASE Rename("poll")
  <2>1. P.pc = "rename" /\ UNCHANGED record
    BY <1>7 DEF Rename, At, P
  <2>2. dir["copy"] = Filled(Complete(P.v), P.v) /\ dir["model"] = NoDir
    BY <2>1 DEF Steady, Copied, InPlace
  <2>3. dir["copy"].on /\ dir["model"].file = Nothing
    BY <2>2 DEF Filled, NoDir
  <2>4. dir' = [dir EXCEPT !["model"] = dir["copy"], !["copy"] = NoDir] /\ Goto("poll", "record")
    BY <1>7, <2>3 DEF Rename
  <2>5. P'.pc = "record" /\ P'.v = P.v
    BY <2>4, PollGoes
  <2>6. dir'["model"] = Filled(Complete(P.v), P.v)
    BY <1>1, <2>2, <2>4 DEF Places
  <2>7. Installed(P.v)'
    BY <1>2, <2>5, <2>6 DEF Installed, Filled, Content, Complete, Logged
  <2>8. InOrder'
    BY <1>2, <2>1, <2>5 DEF InPlace, InOrder, Forward, Synced
  <2>9. \A u \in Versions : ~Lost(u)'
    BY <2>5 DEF Lost
  <2>10. QED
    BY <1>2, <2>1, <2>5, <2>7, <2>8, <2>9 DEF InPlace, Synced
<1>8. CASE Recorded("poll")
  <2>1. /\ record' = Synced(P.v) /\ UNCHANGED dir /\ P'.pc = "active" /\ P'.v = P.v /\ P.pc = "record"
    BY <1>8, PollGoes DEF Recorded, Version, P, At
  <2>2. \A u : record' = Synced(u) => u = P.v
    BY <2>1 DEF Synced
  <2>3. Installed(P.v)' /\ Installed(P.v)
    BY <1>2, <2>1, InstalledKept DEF InPlace
  <2>4. P.v \in Int
    BY <1>2 DEF Versions
  <2>5. InOrder'
    BY <1>2, <2>1, <2>2, <2>4 DEF InPlace, InOrder, Forward, Synced
  <2>6. \A u \in Versions : ~Lost(u)'
    BY <2>1, <2>2, <2>3 DEF Lost, Synced
  <2>7. QED
    BY <1>2, <2>1, <2>3, <2>5, <2>6 DEF InPlace
<1>9. QED
  BY <1>4, <1>5, <1>6, <1>7, <1>8

\* A crash leaves the directory of the installed version missing if it comes
\* between its removal and the record of the one that replaces it.
LEMMA InPlaceCrash ==
    ASSUME TypeOK, InPlace, Recoverable, Crash
    PROVE  InPlace'
<1>1. P' = IdleWorker /\ P'.pc = "idle" /\ api' = "idle" /\ UNCHANGED <<prod, record, dir, scene>>
  BY DEF Crash, P, Workers, IdleWorker, outVars, diskVars
<1>2. \A u \in Versions : Installed(u)' = Installed(u)
  BY <1>1, InstalledKept
<1>3. scene.crashes # 0
  <2>1. crashes < scene.crashes /\ crashes \in Nat
    BY DEF Crash, TypeOK
  <2>2. QED
    BY <2>1
<1>4. Forward
  BY <1>3 DEF Recoverable, Forward
<1>5. InOrder'
  BY <1>1, <1>4 DEF InPlace, InOrder, Forward, Synced
<1>6. ASSUME NEW u \in Versions, Lost(u)' PROVE u < prod
  <2>1. record = Synced(u) /\ ~Installed(u)
    BY <1>1, <1>2, <1>6 DEF Lost, Synced
  <2>2. CASE P.pc \notin {"rename", "record"}
    BY <2>1, <2>2 DEF InPlace, Lost
  <2>3. CASE P.pc \in {"rename", "record"}
    <3>1. P.v \in Nat /\ u \in Nat /\ prod \in Nat
      BY <2>3, ConstantTypes DEF TypeOK, P, Workers, Versions
    <3>2. u <= P.v /\ P.v <= prod /\ record # Synced(P.v)
      BY <1>4, <2>1, <2>3 DEF InPlace, InOrder
    <3>3. u # P.v
      BY <2>1, <3>2
    <3>4. QED
      BY <3>1, <3>2, <3>3
  <2>4. QED
    BY <2>2, <2>3
<1>7. QED
  BY <1>1, <1>3, <1>5, <1>6 DEF InPlace

\* The API's calls: no demotion follows a crash, nothing is deleted.
LEMMA InPlaceRequests ==
    ASSUME TypeOK, InPlace, Recoverable, NoDelete,
           Promote \/ RetryDeploy \/ InsertLaunching \/ Demote \/ Delete \/ DeleteFiles \/ Expire
    PROVE  InPlace'
<1>1. prod \in 0..LastVersion /\ LastVersion \in Nat /\ Versions = 1..LastVersion
  BY ConstantTypes DEF TypeOK, Versions
<1>2. ~Delete /\ ~DeleteFiles
  BY DEF Delete, NoDelete, DeleteFiles, InPlace
<1>3. UNCHANGED <<scene, workers, dir>>
  BY <1>2 DEF Promote, RetryDeploy, InsertLaunching, Demote, Expire, Calls, diskVars, envVars
<1>4. record' \in {record, NoRecord} /\ api' \in {"idle", "insert"}
  BY <1>2 DEF Promote, RetryDeploy, InsertLaunching, Demote, Expire, Calls, diskVars, envVars, InPlace
<1>5. prod' \in 0..LastVersion /\ (Forward => prod' >= prod)
  <2>1. CASE Promote
    <3>1. PICK v \in Versions : ("rollback" \in scene.events \/ v > prod) /\ prod' = v
      BY <2>1 DEF Promote
    <3>2. QED
      BY <1>1, <3>1 DEF Forward
  <2>2. CASE Demote
    BY <1>1, <2>2 DEF Demote, Forward
  <2>3. CASE RetryDeploy \/ InsertLaunching \/ Expire
    <3>1. prod' = prod
      BY <2>3 DEF RetryDeploy, InsertLaunching, Expire, outVars
    <3>2. QED
      BY <1>1, <3>1
  <2>4. QED
    BY <1>2, <2>1, <2>2, <2>3
<1>6. QED
  BY <1>3, <1>4, <1>5, InPlaceKept

\* In the scenes that the properties are about, the record of a synced version
\* says what is installed.
LEMMA TruthfulStep == Truthful /\ [Next]_vars => Truthful'
<1> SUFFICES ASSUME Truthful, [Next]_vars, Undisturbed PROVE InPlace'
  BY WorkingStep, SceneStays DEF Truthful, Undisturbed, Solo, NoDelete, Recoverable
<1>1. TypeOK /\ Steady /\ InPlace /\ Solo /\ NoDelete /\ Recoverable /\ UNCHANGED scene
  BY SceneStays DEF Truthful, Working, Undisturbed
<1>2. ASSUME NEW w \in Workers, Sync(w) PROVE InPlace'
  <2>1. w = "poll"
    <3>1. workers["listener"].pc = "idle"
      BY <1>1 DEF Steady, IdleWorker
    <3>2. workers[w].pc # "idle"
      BY <1>2 DEF Sync, At, Compare, Clean, Download, Downloaded, DownloadFails, Inspect, Fetch,
         FailRecorded, FailMarked, CopyStarts, CopyFile, Swap, Rename, Recorded, Activated
    <3>3. QED
      BY <3>1, <3>2 DEF Workers
  <2>2. QED
    BY <1>1, <1>2, <2>1, InPlaceFetching, InPlaceInstalling DEF Sync
<1>3. CASE PollStarts
  BY <1>1, <1>3, InPlaceFetching
<1>4. ~Triggered /\ ~Published
  BY <1>1 DEF Triggered, Published, Solo
<1>5. CASE ScanAtOnce \/ ScanStarts \/ ScanRuns \/ UNCHANGED vars
  <2>1. UNCHANGED <<scene, workers, dir, record, prod, api>>
    BY <1>5 DEF ScanAtOnce, ScanStarts, ScanRuns, ScanReads, ScanHashes, ScanLoads, ScanEnds, vars, diskVars,
       outVars, envVars
  <2>2. prod' \in 0..LastVersion /\ prod' >= prod /\ api' \in {"idle", "insert"}
    BY <1>1, <2>1, ConstantTypes DEF TypeOK, InPlace
  <2>3. QED
    BY <1>1, <2>1, <2>2, InPlaceKept
<1>6. CASE Promote \/ RetryDeploy \/ InsertLaunching \/ Demote \/ Delete \/ DeleteFiles \/ Expire
  BY <1>1, <1>6, InPlaceRequests
<1>7. CASE Crash
  BY <1>1, <1>7, InPlaceCrash
<1>8. QED
  BY <1>2, <1>3, <1>4, <1>5, <1>6, <1>7 DEF Next

\* A record of a synced version is one of an installed version, or of an older
\* one than the alias stands on.
LEMMA TruthfulAlways == Spec => []Truthful
<1>1. Init => Truthful
  <2> SUFFICES ASSUME Init PROVE Truthful
    OBVIOUS
  <2>1. Working
    BY WorkingInit
  <2>2. P.pc = "idle" /\ api = "idle" /\ \A u \in Versions : record # Synced(u)
    BY DEF Init, P, Workers, IdleWorker, NoRecord, Synced
  <2>3. QED
    BY <2>1, <2>2 DEF Truthful, InPlace, InOrder, Lost
<1>2. QED
  BY <1>1, TruthfulStep, PTL DEF Spec

\* If the record says that the production version is synced, its files are
\* complete and alone in the model's directory, so that skipping the download
\* is right, also after a crash (_sync_once, _promote).
THEOREM RecordOfInstalled == Spec => []RecordIsTrue
<1>1. Truthful => RecordIsTrue
  <2> SUFFICES ASSUME Truthful, Undisturbed, NEW v \in Versions, record = Synced(v), prod = v,
                      \A w \in Workers : workers[w].pc \notin {"rename", "record"}
               PROVE  Installed(v)
    BY DEF RecordIsTrue, Undisturbed
  <2>1. P.pc \notin {"rename", "record"}
    BY DEF P, Workers
  <2>2. SUFFICES ASSUME ~Installed(v) PROVE FALSE
    OBVIOUS
  <2>3. v < prod
    BY <2>1, <2>2 DEF Lost, Truthful, InPlace
  <2>4. v \in Nat
    BY ConstantTypes DEF Versions
  <2>5. QED
    BY <2>3, <2>4
<1>2. QED
  BY <1>1, TruthfulAlways, PTL

\* A row of the table becomes active only by mark_active.
LEMMA RowActivated ==
    ASSUME TypeOK, [Next]_vars, NEW n \in 1..Len(rows), rows[n] # "active", rows'[n] = "active"
    PROVE  \E w \in Workers : Activated(w) \/ (Compare(w) /\ record = Synced(Version(w)))
<1>1. rows \in Seq({"launching", "active", "failed"}) /\ n \in DOMAIN rows
  BY DEF TypeOK
<1>2. \A status : Mark(status) => rows'[n] \in {rows[n], status}
  BY <1>1 DEF Mark
<1>3. rows' # rows
  OBVIOUS
<1>4. ~InsertLaunching
  BY <1>1 DEF InsertLaunching
<1>5. ~Expire
  BY <1>1 DEF Expire
<1>6. \E w \in Workers : Sync(w)
  BY <1>3, <1>4, <1>5 DEF Next, PollStarts, Triggered, Published, AskAlias, ScanAtOnce, ScanStarts, ScanRuns, ScanReads,
     ScanHashes, ScanLoads, ScanEnds, Promote, RetryDeploy, Demote, Delete, DeleteFiles, Crash, vars, outVars
<1>7. PICK w \in Workers : Sync(w)
  BY <1>6
<1>8. Compare(w) \/ FailMarked(w) \/ Activated(w)
  BY <1>3, <1>7 DEF Sync, Clean, Download, Downloaded, DownloadFails, Inspect, Fetch, FailRecorded, CopyStarts, CopyFile,
     Swap, Rename, Recorded, outVars
<1>9. ~FailMarked(w)
  BY <1>2 DEF FailMarked
<1>10. Compare(w) => record = Synced(Version(w))
  BY <1>3 DEF Compare
<1>11. QED
  BY <1>8, <1>9, <1>10

\* A deployment becomes active only when a version is installed.
THEOREM ActiveIsInstalled == Spec => ActiveInstalled
<1>1. Truthful /\ [Next]_vars =>
        [Solo /\ NoDelete /\ Recoverable => \A n \in 1..Len(rows) :
            rows[n] # "active" /\ rows'[n] = "active" => \E v \in Versions : Installed(v)]_vars
  <2> SUFFICES ASSUME Truthful, [Next]_vars, Undisturbed, NEW n \in 1..Len(rows),
                      rows[n] # "active", rows'[n] = "active"
               PROVE  \E v \in Versions : Installed(v)
    BY DEF Undisturbed
  <2>1. TypeOK /\ Steady /\ InPlace
    BY DEF Truthful, Working, Undisturbed
  <2>2. PICK w \in Workers : Activated(w) \/ (Compare(w) /\ record = Synced(Version(w)))
    BY <2>1, RowActivated
  <2>3. w = "poll" /\ P.pc \in {"active", "compare"} /\ (P.pc = "compare" => record = Synced(P.v))
    BY <2>1, <2>2 DEF Activated, Compare, At, Steady, IdleWorker, Workers, P, Version
  <2>4. P.v \in Versions /\ P.v \in Nat
    BY <2>1, <2>3, ConstantTypes DEF TypeOK, P, Workers, Versions
  <2>5. CASE P.pc = "active"
    BY <2>1, <2>4, <2>5 DEF InPlace
  <2>6. CASE P.pc = "compare"
    <3>1. Lost(P.v) => P.v < P.v
      BY <2>1, <2>4, <2>6 DEF InPlace
    <3>2. Installed(P.v)
      BY <2>3, <2>4, <2>6, <3>1 DEF Lost
    <3>3. QED
      BY <2>4, <3>2
  <2>7. QED
    BY <2>3, <2>5, <2>6
<1>2. QED
  BY <1>1, TruthfulAlways, PTL DEF Spec, ActiveInstalled

=============================================================================
