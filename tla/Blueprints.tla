----------------------------- MODULE Blueprints -----------------------------
(***************************************************************************)
(* Blueprints: a row in the database, a directory of archives and an       *)
(* extracted folder on the file server, all under the blueprint's id.  A   *)
(* PUT request creates the row, stores the archive and starts the          *)
(* upload_blueprint workflow, which reads the archive back, parses it and  *)
(* PATCHes the row; the last PATCH extracts the archive to the folder.     *)
(* Meanwhile requests delete blueprints, replace failed ones, change icons *)
(* and create deployments.  The file server is the local one               *)
(* (LocalStorageHandler).                                                  *)
(***************************************************************************)
EXTENDS Naturals, FiniteSets

CONSTANTS
  Blueprint,    \* ids
  Upload,       \* the PUT requests, each with its upload_execution
  Handler,      \* handlers of DELETE requests
  Deployment,
  Modes,        \* which of "file", "url", "validate" the PUT requests are
  ForceFlags,   \* values of ?force
  ArchiveTypes, \* places in SUPPORTED_ARCHIVE_TYPES of the types of archives
  MaxRare,      \* bound: lost answers, icons and deaths of handlers, together
  None, Icon    \* no row, no file; the contents of a folder with an icon only

\* The type of the archives that the manager makes, tar.gz.
TarGz == 3

ASSUME BlueprintAssumption ==
  /\ ArchiveTypes \subseteq 1..4 /\ TarGz \in ArchiveTypes
  /\ Modes \subseteq {"file", "url", "validate"}
  /\ ForceFlags \subseteq BOOLEAN
  /\ MaxRare \in Nat
  /\ None \notin Upload \cup Blueprint /\ Icon \notin Upload \cup {None}

VARIABLES
  row,       \* blueprints: state, upload_execution and the plan's imports
  archive,   \* uploaded-blueprints/<tenant>/<id>/<id>.<type>: whose archive it is
  folder,    \* blueprints/<tenant>/<id>: whose files it has
  up,        \* PUT requests and their workflows
  del,       \* DELETE requests
  dep,       \* deployments: the row each was made from, None if it is not there
  rare,      \* how many of those there were
  mixed,     \* history: uploads whose files were touched by something else
  excused,   \* history: imports a delete was allowed not to see
  unanswered,\* history: uploads whose last PATCH was not answered
  swept      \* history: uploads whose deployments went with them, although the
             \* request that deleted the blueprint could see them

vars == <<row, archive, folder, up, del, dep, rare, mixed, excused,
          unanswered, swept>>
files == <<archive, folder, mixed>>
faults == <<rare, unanswered>>
history == <<excused, swept>>

\* BlueprintUploadState; "failed" stands for all FAILED_STATES.
State == {"pending", "uploading", "extracting", "parsing", "uploaded", "failed",
          "validating"}

\* The steps of a PUT request and, from "sent" on, of its workflow.
Steps == {"new", "replaced", "stored", "sent", "fetching", "fetched", "extracting",
          "parsing", "parsed", "patching", "extracted", "failing", "done", "stopped"}

Idle == [pc |-> "idle"]
Content == Upload \cup {Icon, None}

BlueprintRow == [st : State, up : Upload, plan : {None} \cup SUBSET Blueprint]
UploadState == [pc : Steps, bp : Blueprint \cup {None}, mode : Modes \cup {None},
                local : Content, imports : SUBSET Blueprint]
DeleteRequest == [pc : {"files", "row"}, bp : Blueprint, up : Upload,
                  deps : SUBSET Deployment, checked : BOOLEAN]
DeploymentRow == [bp : Blueprint, up : Upload, made : BOOLEAN]

ASSUME NoneAssumption ==
  /\ None \notin BlueprintRow \cup DeploymentRow
  /\ \A imports \in SUBSET Blueprint : imports # None

\* The types, the foreign keys of upload executions and of deployments included.
TypeOK ==
  /\ row \in [Blueprint -> {None} \cup BlueprintRow]
  /\ archive \in [Blueprint -> [ArchiveTypes -> Content]]
  /\ folder \in [Blueprint -> Content]
  /\ up \in [Upload -> UploadState]
  /\ del \in [Handler -> {Idle} \cup DeleteRequest]
  /\ dep \in [Deployment -> {None} \cup DeploymentRow]
  /\ rare \in 0..MaxRare
  /\ mixed \subseteq Upload /\ excused \subseteq Upload \X Blueprint
  /\ unanswered \subseteq Upload /\ swept \subseteq Upload
  /\ \A b \in Blueprint : row[b] # None => up[row[b].up].bp = b
  /\ \A d \in Deployment : dep[d] # None /\ dep[d].made =>
       row[dep[d].bp] # None /\ row[dep[d].bp].up = dep[d].up

NoArchive == [t \in ArchiveTypes |-> None]

Init ==
  /\ row = [b \in Blueprint |-> None]
  /\ archive = [b \in Blueprint |-> NoArchive] /\ folder = [b \in Blueprint |-> None]
  /\ up = [a \in Upload |-> [pc |-> "new", bp |-> None, mode |-> None,
                             local |-> None, imports |-> {}]]
  /\ del = [h \in Handler |-> Idle]
  /\ dep = [d \in Deployment |-> None]
  /\ rare = 0
  /\ mixed = {} /\ excused = {} /\ unanswered = {} /\ swept = {}

Exists(b) == row[b] # None
Failed(b) == Exists(b) /\ row[b].st = "failed"
Uploaded(b) == Exists(b) /\ row[b].st = "uploaded"
Made(b) == {d \in Deployment : /\ dep[d] # None /\ dep[d].made
                               /\ Exists(b) /\ dep[d].bp = b /\ dep[d].up = row[b].up}

\* The execution goes with its blueprint (cascade), and its token with it: the
\* workflow's requests are answered 401 once its row is gone.
Authorised(a) == Exists(up[a].bp) /\ row[up[a].bp].up = a

At(a, pc) == up' = [up EXCEPT ![a].pc = pc]

\* Nothing is kept of an upload that ended and whose row is gone.
Gone == [pc |-> "done", bp |-> None, mode |-> None, local |-> None, imports |-> {}]
Ended(a) == IF Authorised(a) THEN [up[a] EXCEPT !.pc = "done"] ELSE Gone
End(a) == up' = [up EXCEPT ![a] = Ended(a)]

\* One that stops half way leaves its row as it is.
Stop(a) == up' = [up EXCEPT ![a] =
                    IF Authorised(a) THEN [up[a] EXCEPT !.pc = "stopped"] ELSE Gone]
SetState(a, st) == row' = [row EXCEPT ![up[a].bp].st = st]

\* The last PATCH of the upload is being handled.
Patching(a) == up[a].pc \in {"patching", "extracted"}

\* Steps that are bounded.
Rarely == rare < MaxRare /\ rare' = rare + 1

-----------------------------------------------------------------------------
\* The archives of an id: one of each type.
Present(b) == {t \in ArchiveTypes : archive[b][t] # None}
Archives(b) == {archive[b][t] : t \in Present(b)}

\* find looks for the types in their order.
FoundType(b) == CHOOSE t \in Present(b) : \A u \in Present(b) : t <= u
Found(b) == IF Present(b) = {} THEN None ELSE archive[b][FoundType(b)]

\* A bug: an archive that is there already is kept.
StoreArchiveKeeps(a, b) ==
  \E t \in ArchiveTypes :
    /\ archive' = [archive EXCEPT ![b][t] = IF @ = None THEN a ELSE @]
    /\ mixed' = IF Exists(b) /\ (row[b].up # a \/ Present(b) \ {t} # {})
                  THEN mixed \cup {row[b].up} ELSE mixed

\* The archive of upload a is stored, beside those of other types that are there.
StoreArchive(a, b) ==
  \E t \in ArchiveTypes :
    /\ archive' = [archive EXCEPT ![b][t] = a]
    /\ mixed' = IF Exists(b) /\ (row[b].up # a \/ Present(b) \ {t} # {})
                  THEN mixed \cup {row[b].up} ELSE mixed

\* The directory of archives goes.
RemoveArchives(b) == archive' = [archive EXCEPT ![b] = NoArchive]

-----------------------------------------------------------------------------
\* Rows go: their deployments go with them (ondelete CASCADE), whether or not the
\* request looked at them.

\* A bug: the deployments stay.
DropRowKeeps(b, seen) ==
  /\ row' = [row EXCEPT ![b] = None]
  /\ UNCHANGED <<dep, swept>>

\* The row of b goes; `seen` are the deployments the request knew of.
DropRow(b, seen) ==
  /\ row' = [row EXCEPT ![b] = None]
  /\ dep' = [d \in Deployment |-> IF d \in Made(b) THEN None ELSE dep[d]]
  /\ swept' = IF Made(b) \cap seen # {} THEN swept \cup {row[b].up} ELSE swept

Forgotten(b) == IF up[row[b].up].pc \in {"done", "stopped"} THEN [up EXCEPT ![row[b].up] = Gone] ELSE up

\* Uploads that import b.
Importing(b) == {<<a, b>> : a \in {u \in Upload : b \in up[u].imports}}

-----------------------------------------------------------------------------
\* PUT /blueprints/<id>

\* A failed blueprint of that id is deleted first, with no look at its
\* deployments, its importers or its files.
PutReplace(a, b, mode) ==
  /\ up[a].pc = "new" /\ mode # "validate" /\ Failed(b)
  /\ up' = [Forgotten(b) EXCEPT ![a].pc = "replaced", ![a].bp = b, ![a].mode = mode]
  /\ DropRow(b, Made(b)) /\ excused' = excused \cup Importing(b)
  /\ UNCHANGED <<files, del, faults>>

\* A row of upload a.
Insert(a, b, mode, st) ==
  /\ row' = [row EXCEPT ![b] = [st |-> st, up |-> a, plan |-> None]]
  /\ up' = [up EXCEPT ![a].pc = "stored", ![a].bp = b, ![a].mode = mode]

\* The row is created, unless somebody else was first.
PutRow(a, b, mode) ==
  /\ mode # "validate"
  /\ \/ up[a].pc = "new" /\ ~Exists(b)
     \/ up[a].pc = "replaced" /\ up[a].bp = b /\ up[a].mode = mode
  /\ IF Exists(b) THEN End(a) /\ UNCHANGED row
     ELSE Insert(a, b, mode, IF mode = "file" THEN "uploading" ELSE "pending")
  /\ UNCHANGED <<files, del, dep, faults, history>>

\* PUT /blueprints/<id>/validate: the row it creates is deleted in the end.
ValidateRow(a, b) ==
  /\ "validate" \in Modes
  /\ up[a].pc = "new" /\ ~Exists(b) /\ Insert(a, b, "validate", "validating")
  /\ UNCHANGED <<files, del, dep, faults, history>>

\* The archive is stored and the workflow is sent; with a URL there is no archive
\* yet.
PutArchive(a) ==
  /\ up[a].pc = "stored" /\ At(a, "sent")
  /\ IF up[a].mode = "url" THEN UNCHANGED <<archive, mixed>>
                           ELSE StoreArchive(a, up[a].bp)
  /\ UNCHANGED <<row, folder, del, dep, faults, history>>

\* The archive cannot be stored or the workflow cannot be sent.  The row fails, if
\* it is still there, and then the archive is removed.  Otherwise an archive that
\* was stored stays: a validation goes no further (sm.sm.delete raises another
\* error), and neither does the update of a row that is gone.
PutFails(a) ==
  LET b == up[a].bp IN
  /\ up[a].pc = "stored" /\ End(a)
  /\ IF up[a].mode # "validate" /\ Authorised(a)
       THEN SetState(a, "failed") /\ RemoveArchives(b) /\ UNCHANGED mixed
       ELSE /\ UNCHANGED row
            /\ \/ UNCHANGED <<archive, mixed>>
               \/ up[a].mode # "url" /\ StoreArchive(a, b)
  /\ UNCHANGED <<folder, del, dep, faults, history>>

-----------------------------------------------------------------------------
\* The upload_blueprint workflow

\* PATCH with a failed state: the archive is removed, the folder is not.  A PATCH
\* of a blueprint that is being validated deletes the row and the archive.
PatchFailed(a) ==
  LET b == up[a].bp IN
  IF ~Authorised(a) THEN UNCHANGED <<row, archive, dep, swept>>
  ELSE /\ RemoveArchives(b)
       /\ IF up[a].mode = "validate" THEN DropRow(b, {})
          ELSE SetState(a, "failed") /\ UNCHANGED <<dep, swept>>

\* The workflow gives up.  Who imports the blueprint is not looked at when the row
\* of a validation goes.
Fail(a) ==
  /\ PatchFailed(a)
  /\ up' = [up EXCEPT ![a] = IF Authorised(a) /\ @.mode # "validate"
                              THEN [@ EXCEPT !.pc = "done", !.local = None, !.imports = {}]
                              ELSE Gone]
  /\ excused' = IF Authorised(a) /\ up[a].mode = "validate"
                  THEN excused \cup Importing(up[a].bp) ELSE excused
  /\ UNCHANGED <<folder, mixed, del, faults>>

\* A PATCH of the state alone, skipped in a validation.
Step(a, from, st, to) ==
  /\ up[a].pc = from
  /\ IF up[a].mode = "validate" THEN At(a, to) /\ UNCHANGED row
     ELSE IF Authorised(a) THEN At(a, to) /\ SetState(a, st)
     ELSE End(a) /\ UNCHANGED row
  /\ UNCHANGED <<files, del, dep, faults, history>>

\* With a URL the state is uploading while the archive is fetched.
WfStart(a) == up[a].mode = "url" /\ Step(a, "sent", "uploading", "fetching")

\* The archive is fetched: from the URL, and stored without a look at the row, or
\* from the manager, which sends the first one that it lists.
WfFetch(a) ==
  LET b == up[a].bp IN
  /\ up[a].pc \in {"sent", "fetching"} /\ Authorised(a)
  /\ \/ /\ up[a].pc = "fetching" /\ StoreArchive(a, b)
        /\ up' = [up EXCEPT ![a].pc = "fetched", ![a].local = a]
     \/ /\ up[a].pc = "sent" /\ up[a].mode # "url"
        /\ \E x \in Archives(b) : up' = [up EXCEPT ![a].pc = "fetched", ![a].local = x]
        /\ UNCHANGED <<archive, mixed>>
  /\ UNCHANGED <<row, folder, del, dep, faults, history>>

WfFetchFails(a) ==
  /\ up[a].pc = "fetching" \/ (up[a].pc = "sent" /\ up[a].mode # "url")
  /\ Fail(a)

WfExtracting(a) == Step(a, "fetched", "extracting", "extracting")

\* The archive is unpacked: an archive made of an icon has no main file.
WfUnpack(a) == up[a].local # Icon /\ Step(a, "extracting", "parsing", "parsing")

WfUnpackFails(a) == up[a].pc = "extracting" /\ Fail(a)

\* The plan is parsed.  A blueprint can be imported when its row, the name of its
\* main file (a validation has none) and its archive are there, whatever its state.
WfParse(a) ==
  /\ up[a].pc = "parsing" /\ Authorised(a)
  /\ \E imports \in SUBSET {b \in Blueprint \ {up[a].bp} :
                    Exists(b) /\ row[b].st # "validating" /\ Present(b) # {}} :
       up' = [up EXCEPT ![a].pc = "parsed", ![a].imports = imports]
  /\ UNCHANGED <<row, files, del, dep, faults, history>>

\* A bug: the workflow ends without a PATCH.
WfParseFailsSilently(a) ==
  /\ up[a].pc = "parsing" /\ End(a)
  /\ UNCHANGED <<row, files, del, dep, faults, history>>

WfParseFails(a) == up[a].pc = "parsing" /\ Fail(a)

\* An error outside of any try: a PATCH of the state, or of a failed one, that does
\* not come through, an archive that unpacks to nothing, or a provider context that
\* cannot be read.  The workflow ends without a PATCH.
WfStops(a) ==
  /\ up[a].pc \in {"sent", "fetching", "fetched", "extracting", "parsing", "parsed", "failing"}
  /\ Stop(a)
  /\ UNCHANGED <<row, files, del, dep, faults, history>>

\* The end of a validation: the row and the archive are deleted.
WfValidated(a) == up[a].pc = "parsed" /\ up[a].mode = "validate" /\ Fail(a)

-----------------------------------------------------------------------------
\* PATCH with state uploaded: it reads the row, extracts the archive and commits.

\* The row is read, and the imported blueprints must exist.
PatchRead(a) ==
  /\ up[a].pc = "parsed" /\ up[a].mode # "validate"
  /\ IF Authorised(a)
       THEN At(a, IF \A i \in up[a].imports : Exists(i) THEN "patching" ELSE "failing")
       ELSE End(a)
  /\ excused' = excused \cup
       {<<a, i>> : i \in {j \in up[a].imports : \E h \in Handler : del[h] # Idle /\ del[h].bp = j}}
  /\ UNCHANGED <<row, files, del, dep, faults, swept>>

\* shutil.move into a folder that is already there puts the new files inside it.
Moved(b) == IF folder[b] = None THEN Found(b) ELSE folder[b]

\* An archive that is not there is an error before anything is written.
PatchExtract(a) ==
  LET b == up[a].bp IN
  /\ up[a].pc = "patching"
  /\ IF Present(b) = {}
       THEN At(a, "failing") /\ UNCHANGED <<folder, mixed>>
       ELSE /\ At(a, "extracted")
            /\ folder' = [folder EXCEPT ![b] = Moved(b)]
            /\ mixed' = mixed \cup (IF folder[b] # None THEN {a} ELSE {})
                          \cup (IF Exists(b) THEN {row[b].up} \ {a} ELSE {})
  /\ UNCHANGED <<row, archive, del, dep, faults, history>>

\* The archive cannot be extracted: that is committed, the plan included, and
\* the workflow is told.
PatchExtractFails(a) ==
  LET b == up[a].bp IN
  /\ up[a].pc = "patching" /\ Present(b) # {} /\ At(a, "failing")
  /\ row' = IF Authorised(a)
              THEN [row EXCEPT ![b].st = "failed", ![b].plan = up[a].imports]
              ELSE row
  /\ UNCHANGED <<files, del, dep, faults, history>>

\* The commit.  The row that was read may be gone.
PatchCommit(a) ==
  LET b == up[a].bp IN
  /\ up[a].pc = "extracted"
  /\ IF Authorised(a)
       THEN End(a) /\ row' = [row EXCEPT ![b].st = "uploaded",
                                                ![b].plan = up[a].imports]
       ELSE At(a, "failing") /\ UNCHANGED row
  /\ UNCHANGED <<files, del, dep, faults, history>>

\* The answer to the commit is lost, and the workflow takes it for a failure.
PatchUnanswered(a) ==
  LET b == up[a].bp IN
  /\ up[a].pc = "extracted" /\ Authorised(a)
  /\ Rarely /\ unanswered' = unanswered \cup {a}
  /\ At(a, "failing")
  /\ row' = [row EXCEPT ![b].st = "uploaded", ![b].plan = up[a].imports]
  /\ UNCHANGED <<files, del, dep, history>>

\* The labels of the plan are refused, or the database fails, after the archive
\* was extracted: nothing is committed.
PatchRefused(a) ==
  /\ up[a].pc = "extracted" /\ At(a, "failing")
  /\ UNCHANGED <<row, files, del, dep, faults, history>>

\* The workflow PATCHes the state failed_uploading.
WfFailed(a) == up[a].pc = "failing" /\ Fail(a)

-----------------------------------------------------------------------------
\* DELETE /blueprints/<id>

\* A bug: blueprints that are imported are not protected.
ImportersNone(b) == {}

\* Blueprints that import b and may still be used.
Importers(b) == {c \in Blueprint : /\ Exists(c) /\ ~Failed(c)
                                   /\ row[c].plan # None /\ b \in row[c].plan}

\* A bug: the deployments are not looked at.
DeleteCheckBlind(h, b, force) ==
  LET request(pc) == [pc |-> pc, bp |-> b, up |-> row[b].up, deps |-> Made(b),
                      checked |-> ~force /\ ~Failed(b)] IN
  /\ del[h] = Idle /\ Exists(b)
  /\ \/ Failed(b) /\ del' = [del EXCEPT ![h] = request("row")]
     \/ /\ ~Failed(b) /\ (force \/ (Uploaded(b) /\ Importers(b) = {}))
        /\ del' = [del EXCEPT ![h] = request("files")]
  /\ excused' = excused \cup {x \in Importing(b) : force \/ Failed(b) \/ Patching(x[1])}
  /\ UNCHANGED <<row, files, up, dep, faults, swept>>

\* The checks: none for a failed blueprint, and its files are not removed.
DeleteCheck(h, b, force) ==
  LET request(pc) == [pc |-> pc, bp |-> b, up |-> row[b].up, deps |-> Made(b),
                      checked |-> ~force /\ ~Failed(b)] IN
  /\ del[h] = Idle /\ Exists(b)
  /\ \/ Failed(b) /\ del' = [del EXCEPT ![h] = request("row")]
     \/ /\ ~Failed(b) /\ (force \/ (Uploaded(b) /\ Importers(b) = {}))
        /\ Made(b) = {}
        /\ del' = [del EXCEPT ![h] = request("files")]
  /\ excused' = excused \cup {x \in Importing(b) : force \/ Failed(b) \/ Patching(x[1])}
  /\ UNCHANGED <<row, files, up, dep, faults, swept>>

\* The files go, by the blueprint's id.
DeleteFiles(h) ==
  LET b == del[h].bp IN
  /\ del[h].pc = "files" /\ del' = [del EXCEPT ![h].pc = "row"]
  /\ RemoveArchives(b) /\ folder' = [folder EXCEPT ![b] = None]
  /\ mixed' = IF Exists(b) THEN mixed \cup {row[b].up} ELSE mixed
  /\ UNCHANGED <<row, up, dep, faults, history>>

\* The row goes, if it is the one that was read.
DeleteRow(h) ==
  LET b == del[h].bp IN
  /\ del[h].pc = "row" /\ del' = [del EXCEPT ![h] = Idle]
  /\ IF Exists(b) /\ row[b].up = del[h].up
       THEN DropRow(b, del[h].deps) /\ up' = Forgotten(b)
       ELSE UNCHANGED <<row, dep, swept, up>>
  /\ excused' = IF del[h].checked THEN excused ELSE excused \cup Importing(b)
  /\ UNCHANGED <<files, faults>>

-----------------------------------------------------------------------------
\* The other requests

\* PATCH /blueprints/<id>/icon, in whatever state: an icon is put into the folder,
\* which it creates, or removed from it; then the archive that is found is replaced
\* by one that is made of the folder.
Repacked(b, content) == [archive[b] EXCEPT ![FoundType(b)] = None, ![TarGz] = content]

SetIcon(b) ==
  /\ Rarely /\ Exists(b)
  /\ folder' = [folder EXCEPT ![b] = IF @ = None THEN Icon ELSE @]
  /\ archive' = IF Present(b) = {} THEN archive
                ELSE [archive EXCEPT ![b] = Repacked(b, folder'[b])]
  /\ mixed' = mixed \cup {row[b].up}
  /\ UNCHANGED <<row, up, del, dep, unanswered, history>>

RemoveIcon(b) ==
  /\ Rarely /\ Exists(b) /\ folder[b] # None /\ Present(b) # {}
  /\ archive' = [archive EXCEPT ![b] = Repacked(b, folder[b])]
  /\ mixed' = mixed \cup {row[b].up}
  /\ UNCHANGED <<row, folder, up, del, dep, unanswered, history>>

\* PUT /deployments/<id>: the blueprint is uploaded when it is looked at.
CreateCheck(d, b) ==
  /\ dep[d] = None /\ Uploaded(b)
  /\ dep' = [dep EXCEPT ![d] = [bp |-> b, up |-> row[b].up, made |-> FALSE]]
  /\ UNCHANGED <<row, files, up, del, faults, history>>

\* The foreign key holds when the deployment is inserted.
CreateCommit(d) ==
  /\ dep[d] # None /\ ~dep[d].made
  /\ dep' = [dep EXCEPT ![d] =
       IF Exists(dep[d].bp) /\ row[dep[d].bp].up = dep[d].up
         THEN [dep[d] EXCEPT !.made = TRUE] ELSE None]
  /\ UNCHANGED <<row, files, up, del, faults, history>>

-----------------------------------------------------------------------------
\* The handler of a PUT or PATCH, or a workflow, dies; nothing takes over what it
\* was doing.
UploadDies(a) ==
  /\ up[a].pc \notin {"new", "done", "stopped"} /\ Stop(a)
  /\ UNCHANGED <<row, files, del, dep, faults, history>>

\* The handler of a DELETE dies.
DeleteDies(h) ==
  /\ del[h] # Idle /\ del' = [del EXCEPT ![h] = Idle] /\ Rarely
  /\ UNCHANGED <<row, files, up, dep, unanswered, history>>

Workflow(a) ==
  \/ WfStart(a) \/ WfFetch(a) \/ WfFetchFails(a) \/ WfExtracting(a) \/ WfUnpack(a)
  \/ WfUnpackFails(a) \/ WfParse(a) \/ WfParseFails(a) \/ WfValidated(a) \/ WfStops(a)
  \/ PatchRead(a) \/ PatchExtract(a) \/ PatchExtractFails(a) \/ PatchCommit(a)
  \/ PatchUnanswered(a) \/ PatchRefused(a) \/ WfFailed(a)

Next ==
  \/ \E a \in Upload : \/ \E b \in Blueprint, m \in Modes : PutReplace(a, b, m) \/ PutRow(a, b, m)
                       \/ \E b \in Blueprint : ValidateRow(a, b)
                       \/ PutArchive(a) \/ PutFails(a) \/ Workflow(a) \/ UploadDies(a)
  \/ \E h \in Handler : \/ \E b \in Blueprint, f \in ForceFlags : DeleteCheck(h, b, f)
                        \/ DeleteFiles(h) \/ DeleteRow(h) \/ DeleteDies(h)
  \/ \E b \in Blueprint : SetIcon(b) \/ RemoveIcon(b)
  \/ \E d \in Deployment : (\E b \in Blueprint : CreateCheck(d, b)) \/ CreateCommit(d)

Spec == Init /\ [][Next]_vars

-----------------------------------------------------------------------------
\* Properties

\* An uploaded blueprint has its own archive, and no other, and its own files, and
\* was parsed from its own archive (the archive is extracted before the state is
\* committed, and removed on failure only), unless a request wrote to the same id
\* meanwhile (an icon, a delete of an earlier row, an upload whose row is gone), or
\* it found an archive of another type, or a folder, left by an earlier upload.
FilesMatch ==
  \A b \in Blueprint : Uploaded(b) /\ row[b].up \notin mixed =>
    /\ Archives(b) = {row[b].up} /\ folder[b] = row[b].up
    /\ up[row[b].up].local = row[b].up

\* What an uploaded blueprint imports is there, unless a forced delete took it, it
\* had not been uploaded itself, the delete and the importer's last PATCH
\* overlapped, or that PATCH took the row of a validation for it: the check of
\* delete_blueprint and the one of _validate_imported_blueprints together leave
\* nothing else.
ImportsHold ==
  \A b \in Blueprint : Uploaded(b) =>
    \A i \in row[b].plan : Exists(i) \/ <<row[b].up, i>> \in excused

\* Deployments go with their blueprint only when they were made after the delete
\* had looked for them, or when the upload was taken for failed because an
\* answer was lost.
NoDeploymentSwept == swept \subseteq unanswered

\* An upload that ended left its blueprint uploaded, failed or deleted, so that
\* its id can be used again, unless the archive of a validation was refused.  (One
\* that stopped half way, WfStops or UploadDies, did not end: its row stays as it was.)
NoHalfUploads ==
  \A b \in Blueprint : Exists(b) /\ up[row[b].up].pc = "done" =>
    row[b].st \in {"uploaded", "failed", "validating"}

\* What the comment in extract_blueprint_archive_to_file_server promises ("e.g.
\* directory not empty" is a conflict): an uploaded blueprint has its own files.
OwnFiles == \A b \in Blueprint : Uploaded(b) => folder[b] = row[b].up
=============================================================================
