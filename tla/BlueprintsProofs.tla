-------------------------- MODULE BlueprintsProofs --------------------------
(***************************************************************************)
(* Proofs about Blueprints, for any blueprints, uploads, deployments and   *)
(* delete requests: its type invariant with the foreign keys, that uploads *)
(* that end leave no row half way, that deployments are not swept away,    *)
(* that what is imported stays, and that an uploaded blueprint has its own *)
(* files.                                                                  *)
(***************************************************************************)
EXTENDS Blueprints, TLAPS

USE BlueprintAssumption, NoneAssumption

-----------------------------------------------------------------------------
(* The inductive invariant of rows and uploads. *)

Active(pc) == pc \notin {"new", "replaced"}

\* An upload knows its blueprint while it is under way, and only a real one gets
\* to the last PATCH.
UploadsKept ==
  \A a \in Upload :
    /\ up[a].pc \notin {"new", "done"} => up[a].bp \in Blueprint /\ up[a].mode \in Modes
    /\ up[a].pc \in {"replaced", "fetching", "patching", "extracted", "failing"} =>
         up[a].mode # "validate"

\* The row of a blueprint agrees with the upload that made it.
RowsKept ==
  \A b \in Blueprint : Exists(b) =>
    /\ Active(up[row[b].up].pc)
    /\ up[row[b].up].mode = "validate" <=> row[b].st = "validating"
    /\ Uploaded(b) => \/ up[row[b].up].pc \in {"done", "stopped"}
                      \/ up[row[b].up].pc = "failing" /\ row[b].up \in unanswered

\* A deployment comes from an upload whose row was there.
DeploymentsKept == \A d \in Deployment : dep[d] # None => Active(up[dep[d].up].pc)

\* The types of the variables, and the foreign keys with what they rest on.
Types ==
  /\ row \in [Blueprint -> {None} \cup BlueprintRow]
  /\ archive \in [Blueprint -> [ArchiveTypes -> Content]]
  /\ folder \in [Blueprint -> Content]
  /\ up \in [Upload -> UploadState]
  /\ del \in [Handler -> {Idle} \cup DeleteRequest]
  /\ dep \in [Deployment -> {None} \cup DeploymentRow]
  /\ rare \in 0..MaxRare
  /\ mixed \subseteq Upload /\ excused \subseteq Upload \X Blueprint
  /\ unanswered \subseteq Upload /\ swept \subseteq Upload

RowKeys == \A b \in Blueprint : row[b] # None => up[row[b].up].bp = b
DeploymentKeys ==
  \A d \in Deployment : dep[d] # None /\ dep[d].made =>
    row[dep[d].bp] # None /\ row[dep[d].bp].up = dep[d].up

Keys == RowKeys /\ DeploymentKeys /\ UploadsKept /\ RowsKept /\ DeploymentsKept

Typed == Types /\ Keys

LEMMA TypedImpliesTypeOK == Typed => TypeOK
  BY DEF Typed, Types, Keys, RowKeys, DeploymentKeys, TypeOK

-----------------------------------------------------------------------------
(* What the operators the actions are made of do. *)

LEMMA RowTypes ==
  ASSUME Types, NEW b \in Blueprint, Exists(b)
  PROVE  /\ row[b] \in BlueprintRow
         /\ row[b].up \in Upload /\ row[b].st \in State
         /\ row[b].plan \in {None} \cup SUBSET Blueprint
  BY DEF Types, Exists, BlueprintRow

LEMMA UpTypes ==
  ASSUME Types, NEW a \in Upload
  PROVE  /\ up[a] \in UploadState /\ up[a].pc \in Steps
         /\ up[a].bp \in Blueprint \cup {None} /\ up[a].mode \in Modes \cup {None}
         /\ up[a].local \in Content /\ up[a].imports \in SUBSET Blueprint
  BY DEF Types, UploadState

\* The row made by an upload is that of its blueprint.
LEMMA Owner ==
  ASSUME Typed, NEW b \in Blueprint, Exists(b)
  PROVE  up[row[b].up].bp = b /\ Authorised(row[b].up)
  BY DEF Typed, Keys, RowKeys, Authorised, Exists

\* Upload a becomes s, and nobody else moves.
Becomes(a, s) ==
  /\ up' \in [Upload -> UploadState]
  /\ up'[a] = s
  /\ \A c \in Upload \ {a} : up'[c] = up[c]

\* Upload a goes on: its blueprint and its mode stay.
Now(a, pc, local, imports) ==
  [pc |-> pc, bp |-> up[a].bp, mode |-> up[a].mode, local |-> local, imports |-> imports]
Goes(a, pc) == Becomes(a, Now(a, pc, up[a].local, up[a].imports))

LEMMA BecomesEffect ==
  ASSUME Types, NEW a \in Upload, NEW s \in UploadState, up' = [up EXCEPT ![a] = s]
  PROVE  Becomes(a, s)
  BY DEF Types, Becomes

LEMMA NowType ==
  ASSUME Types, NEW a \in Upload, NEW pc \in Steps, NEW l \in Content,
         NEW i \in SUBSET Blueprint
  PROVE  Now(a, pc, l, i) \in UploadState
  BY UpTypes DEF Now, UploadState

LEMMA NowFields ==
  ASSUME NEW a, NEW pc, NEW l, NEW i
  PROVE  /\ Now(a, pc, l, i).pc = pc /\ Now(a, pc, l, i).bp = up[a].bp
         /\ Now(a, pc, l, i).mode = up[a].mode
         /\ Now(a, pc, l, i).local = l /\ Now(a, pc, l, i).imports = i
  BY DEF Now

LEMMA AtEffect ==
  ASSUME Types, NEW a \in Upload, NEW pc \in Steps, At(a, pc)
  PROVE  Goes(a, pc)
<1>1. up[a] \in UploadState
  BY UpTypes
<1>2. [up[a] EXCEPT !.pc = pc] = Now(a, pc, up[a].local, up[a].imports)
  BY <1>1 DEF Now, UploadState
<1>3. up' = [up EXCEPT ![a] = Now(a, pc, up[a].local, up[a].imports)]
  BY <1>2 DEF At, Types
<1>4. Now(a, pc, up[a].local, up[a].imports) \in UploadState
  BY NowType, UpTypes
<1> QED BY <1>3, <1>4, BecomesEffect DEF Goes

LEMMA GoneOK ==
  /\ Gone \in UploadState
  /\ Gone.pc = "done" /\ Gone.bp = None /\ Gone.mode = None /\ Gone.imports = {}
<1>1. {} \in SUBSET Blueprint /\ "done" \in Steps /\ None \in Content
  BY DEF Steps, Content
<1> QED BY <1>1 DEF Gone, UploadState

LEMMA EndEffect ==
  ASSUME Types, NEW a \in Upload, End(a)
  PROVE  /\ Authorised(a) => Goes(a, "done")
         /\ ~Authorised(a) => Becomes(a, Gone)
<1>1. CASE Authorised(a)
  <2>1. At(a, "done")
    BY <1>1 DEF End, Ended, At, Types
  <2> QED BY <1>1, <2>1, AtEffect DEF Steps
<1>2. CASE ~Authorised(a)
  BY <1>2, BecomesEffect, GoneOK DEF End, Ended
<1> QED BY <1>1, <1>2

LEMMA StopEffect ==
  ASSUME Types, NEW a \in Upload, Stop(a)
  PROVE  /\ Authorised(a) => Goes(a, "stopped")
         /\ ~Authorised(a) => Becomes(a, Gone)
<1>1. CASE Authorised(a)
  <2>1. At(a, "stopped")
    BY <1>1 DEF Stop, At, Types
  <2> QED BY <1>1, <2>1, AtEffect DEF Steps
<1>2. CASE ~Authorised(a)
  BY <1>2, BecomesEffect, GoneOK DEF Stop
<1> QED BY <1>1, <1>2

\* The row of b becomes r, and no other one changes.
RowBecomes(b, r) ==
  /\ row' \in [Blueprint -> {None} \cup BlueprintRow]
  /\ row'[b] = r
  /\ \A c \in Blueprint \ {b} : row'[c] = row[c]

\* The row of b gets another state and another plan.
RowSets(b, st, plan) ==
  /\ RowBecomes(b, row'[b])
  /\ row'[b] # None /\ row'[b].up = row[b].up
  /\ row'[b].st = st /\ row'[b].plan = plan

LEMMA RowUpdate ==
  ASSUME NEW x \in BlueprintRow, NEW st \in State, NEW plan \in {None} \cup SUBSET Blueprint
  PROVE  [x EXCEPT !.st = st, !.plan = plan] = [st |-> st, up |-> x.up, plan |-> plan]
<1> DEFINE y == [x EXCEPT !.st = st]
<1>1. y \in BlueprintRow /\ y.st = st /\ y.up = x.up
  BY DEF BlueprintRow
<1>2. [x EXCEPT !.st = st, !.plan = plan] = [y EXCEPT !.plan = plan]
  OBVIOUS
<1> HIDE DEF y
<1>3. [y EXCEPT !.plan = plan] = [st |-> y.st, up |-> y.up, plan |-> plan]
  BY <1>1 DEF BlueprintRow
<1> QED BY <1>1, <1>2, <1>3

LEMMA RowSetsEffect ==
  ASSUME Types, NEW b \in Blueprint, Exists(b), NEW st \in State,
         NEW plan \in {None} \cup SUBSET Blueprint,
         row' = [row EXCEPT ![b].st = st, ![b].plan = plan]
  PROVE  RowSets(b, st, plan)
<1> DEFINE r == [st |-> st, up |-> row[b].up, plan |-> plan]
<1>1. row[b] \in BlueprintRow /\ row[b].up \in Upload
  BY RowTypes
<1>2. r \in BlueprintRow
  BY <1>1 DEF BlueprintRow
<1>3. row' = [row EXCEPT ![b] = r]
  <2>1. row' = [row EXCEPT ![b] = [row[b] EXCEPT !.st = st, !.plan = plan]]
    BY DEF Types
  <2>2. [row[b] EXCEPT !.st = st, !.plan = plan] = r
    BY <1>1, RowUpdate
  <2> QED BY <2>1, <2>2
<1>4. r # None
  BY <1>2
<1>5. r.up = row[b].up /\ r.st = st /\ r.plan = plan
  OBVIOUS
<1> HIDE DEF r
<1>6. row' \in [Blueprint -> {None} \cup BlueprintRow] /\ row'[b] = r
      /\ \A c \in Blueprint \ {b} : row'[c] = row[c]
  <2>1. r \in {None} \cup BlueprintRow /\ row \in [Blueprint -> {None} \cup BlueprintRow]
    BY <1>2 DEF Types
  <2> QED BY <1>3, <2>1
<1> QED BY <1>4, <1>5, <1>6 DEF RowSets, RowBecomes

LEMMA SetStateEffect ==
  ASSUME Types, NEW a \in Upload, up[a].bp \in Blueprint, Exists(up[a].bp),
         NEW st \in State, SetState(a, st)
  PROVE  RowSets(up[a].bp, st, row[up[a].bp].plan)
<1> DEFINE b == up[a].bp
<1>1. row[b] \in BlueprintRow /\ row[b].plan \in {None} \cup SUBSET Blueprint
  BY RowTypes
<1>2. row' = [row EXCEPT ![b].st = st, ![b].plan = row[b].plan]
  BY <1>1 DEF SetState, Types, BlueprintRow
<1> QED BY <1>1, <1>2, RowSetsEffect

\* The row of b goes, and its deployments with it.
Drops(b) ==
  /\ RowBecomes(b, None)
  /\ dep' \in [Deployment -> {None} \cup DeploymentRow]
  /\ \A d \in Deployment : dep'[d] = IF d \in Made(b) THEN None ELSE dep[d]

LEMMA DropRowEffect ==
  ASSUME Types, NEW b \in Blueprint, Exists(b), NEW seen, DropRow(b, seen)
  PROVE  /\ Drops(b) /\ swept' \subseteq Upload
         /\ swept' = IF Made(b) \cap seen # {} THEN swept \cup {row[b].up} ELSE swept
<1>1. RowBecomes(b, None)
  BY DEF DropRow, Types, RowBecomes
<1>2. /\ dep' \in [Deployment -> {None} \cup DeploymentRow]
      /\ \A d \in Deployment : dep'[d] = IF d \in Made(b) THEN None ELSE dep[d]
  BY DEF DropRow, Types
<1>3. row[b].up \in Upload
  BY RowTypes
<1>4. /\ swept' \subseteq Upload
      /\ swept' = IF Made(b) \cap seen # {} THEN swept \cup {row[b].up} ELSE swept
  BY <1>3 DEF DropRow, Types
<1> QED BY <1>1, <1>2, <1>4 DEF Drops

\* Nothing changes but, perhaps, the upload of the row b, which is forgotten.
Forgets(b) ==
  /\ up' \in [Upload -> UploadState]
  /\ \A c \in Upload : up'[c] = up[c] \/ (c = row[b].up /\ up'[c] = Gone)

LEMMA ForgottenEffect ==
  ASSUME Types, NEW b \in Blueprint, Exists(b), up' = Forgotten(b)
  PROVE  Forgets(b)
<1>1. row[b].up \in Upload
  BY RowTypes
<1>2. CASE up[row[b].up].pc \in {"done", "stopped"}
  <2>1. Becomes(row[b].up, Gone)
    BY <1>1, <1>2, BecomesEffect, GoneOK DEF Forgotten
  <2> QED BY <2>1 DEF Becomes, Forgets
<1>3. CASE up[row[b].up].pc \notin {"done", "stopped"}
  BY <1>3 DEF Forgotten, Types, Forgets
<1> QED BY <1>2, <1>3

LEMMA ImportingType ==
  ASSUME Types, NEW b \in Blueprint
  PROVE  Importing(b) \subseteq Upload \X Blueprint
  BY DEF Importing

-----------------------------------------------------------------------------
(* Archives. *)

LEMMA ArchivesType ==
  ASSUME Types, NEW b \in Blueprint, NEW x \in Archives(b)
  PROVE  x \in Content \ {None}
  BY DEF Types, Archives, Present

LEMMA NoArchiveType == NoArchive \in [ArchiveTypes -> Content]
  BY DEF NoArchive, Content

\* The type that is found is one of those that are there.
LEMMA FoundTypePresent ==
  ASSUME NEW b \in Blueprint, Present(b) # {}
  PROVE  FoundType(b) \in Present(b)
<1>1. Present(b) \subseteq 1..4
  BY DEF Present
<1>2. \E t \in Present(b) : \A u \in Present(b) : t <= u
  <2>1. CASE 1 \in Present(b)
    BY <1>1, <2>1
  <2>2. CASE 1 \notin Present(b) /\ 2 \in Present(b)
    BY <1>1, <2>2
  <2>3. CASE 1 \notin Present(b) /\ 2 \notin Present(b) /\ 3 \in Present(b)
    BY <1>1, <2>3
  <2>4. CASE 1 \notin Present(b) /\ 2 \notin Present(b) /\ 3 \notin Present(b)
    BY <1>1, <2>4
  <2> QED BY <2>1, <2>2, <2>3, <2>4
<1> QED BY <1>2 DEF FoundType

\* What is found is one of the archives.
LEMMA FoundArchive ==
  ASSUME Types, NEW b \in Blueprint
  PROVE  /\ Found(b) \in Content
         /\ Present(b) # {} => Found(b) \in Archives(b)
<1>1. CASE Present(b) = {}
  BY <1>1 DEF Found, Content
<1>2. CASE Present(b) # {}
  <2>1. Found(b) \in Archives(b)
    BY <1>2, FoundTypePresent DEF Found, Archives
  <2> QED BY <2>1, ArchivesType
<1> QED BY <1>1, <1>2

\* An archive is stored for upload a.
LEMMA StoreArchiveEffect ==
  ASSUME Types, NEW a \in Upload, NEW b \in Blueprint, StoreArchive(a, b)
  PROVE  /\ archive' \in [Blueprint -> [ArchiveTypes -> Content]]
         /\ \A c \in Blueprint \ {b} : archive'[c] = archive[c]
         /\ a \in Archives(b)'
         /\ Archives(b)' \subseteq Archives(b) \cup {a}
         /\ mixed \subseteq mixed' /\ mixed' \subseteq Upload
         /\ Exists(b) /\ row[b].up \notin mixed' => row[b].up = a /\ Archives(b)' = {a}
<1>1. PICK t \in ArchiveTypes :
        /\ archive' = [archive EXCEPT ![b][t] = a]
        /\ mixed' = IF Exists(b) /\ (row[b].up # a \/ Present(b) \ {t} # {})
                      THEN mixed \cup {row[b].up} ELSE mixed
  BY DEF StoreArchive
<1>2. a \in Content /\ a # None /\ archive[b] \in [ArchiveTypes -> Content]
  BY DEF Content, Types
<1>3. /\ archive' \in [Blueprint -> [ArchiveTypes -> Content]]
      /\ \A c \in Blueprint \ {b} : archive'[c] = archive[c]
      /\ archive'[b] = [archive[b] EXCEPT ![t] = a]
  BY <1>1, <1>2 DEF Types
<1>4. archive'[b][t] = a /\ \A u \in ArchiveTypes \ {t} : archive'[b][u] = archive[b][u]
  BY <1>2, <1>3
<1>5. a \in Archives(b)' /\ Archives(b)' \subseteq Archives(b) \cup {a}
  BY <1>2, <1>4 DEF Archives, Present
<1>6. mixed \subseteq mixed' /\ mixed' \subseteq Upload
  <2>1. Exists(b) => row[b].up \in Upload
    BY RowTypes
  <2> QED BY <1>1, <2>1 DEF Types
<1>7. ASSUME Exists(b), row[b].up \notin mixed'
      PROVE  row[b].up = a /\ Archives(b)' = {a}
  <2>1. row[b].up = a /\ Present(b) \ {t} = {}
    BY <1>1, <1>7
  <2>2. \A u \in Present(b)' : u = t
    BY <1>4, <2>1 DEF Present
  <2> QED BY <1>4, <1>5, <2>1, <2>2 DEF Archives
<1> QED BY <1>3, <1>5, <1>6, <1>7

LEMMA RemoveArchivesEffect ==
  ASSUME Types, NEW b \in Blueprint, RemoveArchives(b)
  PROVE  /\ archive' \in [Blueprint -> [ArchiveTypes -> Content]]
         /\ \A c \in Blueprint \ {b} : archive'[c] = archive[c]
  BY NoArchiveType DEF Types, RemoveArchives

LEMMA RepackedType ==
  ASSUME Types, NEW b \in Blueprint, Present(b) # {}, NEW x \in Content
  PROVE  Repacked(b, x) \in [ArchiveTypes -> Content]
<1>1. FoundType(b) \in ArchiveTypes /\ TarGz \in ArchiveTypes /\ None \in Content
  BY FoundTypePresent DEF Present, Content
<1>2. archive[b] \in [ArchiveTypes -> Content]
  BY DEF Types
<1> QED BY <1>1, <1>2 DEF Repacked

-----------------------------------------------------------------------------
(* The kinds of steps, and that the keys hold after each. *)

\* Upload a goes on, with or without a change of its row.
Onward(a, pc) ==
  /\ up[a].pc \notin {"new", "replaced", "done", "stopped"} /\ Active(pc)
  /\ pc \in {"fetching", "patching", "extracted", "failing"} => up[a].mode # "validate"

\* Upload a goes on and leaves its row alone.
Moves(a, pc, local, imports) ==
  /\ Onward(a, pc) /\ (pc \in {"done", "stopped"} \/ up[a].pc # "failing")
  /\ Becomes(a, Now(a, pc, local, imports))
  /\ UNCHANGED <<row, dep, unanswered>>

\* Upload a goes on and sets the state of its row.
Sets(a, pc, local, imports, st, plan) ==
  /\ Onward(a, pc) /\ up[a].mode # "validate" /\ Authorised(a)
  /\ Becomes(a, Now(a, pc, local, imports))
  /\ RowSets(up[a].bp, st, plan) /\ st \in State \ {"validating"}
  /\ st = "uploaded" => pc = "done" \/ (pc = "failing" /\ a \in unanswered')
  /\ UNCHANGED dep /\ unanswered \subseteq unanswered'

\* Upload a ends when its row is gone.
Leaves(a) ==
  /\ up[a].pc \notin {"new", "done", "stopped"} /\ ~Authorised(a)
  /\ Becomes(a, Gone)
  /\ UNCHANGED <<row, dep, unanswered>>

\* Upload a gets its row.
Inserts(a, b, mode, st) ==
  /\ up[a].pc \in {"new", "replaced"} /\ ~Exists(b) /\ mode \in Modes
  /\ Becomes(a, [pc |-> "stored", bp |-> b, mode |-> mode,
                 local |-> up[a].local, imports |-> up[a].imports])
  /\ RowBecomes(b, [st |-> st, up |-> a, plan |-> None])
  /\ (mode = "validate" <=> st = "validating") /\ st # "uploaded"
  /\ UNCHANGED <<dep, unanswered>>

\* The row of b goes, and upload a takes over its id.
Replaces(a, b, mode) ==
  /\ up[a].pc = "new" /\ Exists(b) /\ Drops(b)
  /\ mode \in Modes /\ mode # "validate"
  /\ up' \in [Upload -> UploadState]
  /\ up'[a] = [pc |-> "replaced", bp |-> b, mode |-> mode,
               local |-> up[a].local, imports |-> up[a].imports]
  /\ \A c \in Upload \ {a} : up'[c] = up[c] \/ (c = row[b].up /\ up'[c] = Gone)
  /\ UNCHANGED unanswered

\* The row of b goes.
Removes(b) == Exists(b) /\ Drops(b) /\ Forgets(b) /\ UNCHANGED unanswered

\* The row of an upload that is under way is not an uploaded one.
LEMMA UnderWay ==
  ASSUME Typed, NEW a \in Upload, up[a].pc \notin {"new", "done", "stopped"}, Authorised(a)
  PROVE  /\ up[a].bp \in Blueprint /\ Exists(up[a].bp) /\ row[up[a].bp].up = a
         /\ up[a].pc # "replaced"
         /\ up[a].pc # "failing" \/ a \notin unanswered => ~Uploaded(up[a].bp)
  BY DEF Typed, Keys, UploadsKept, RowsKept, Authorised, Active

\* Only the row of its blueprint can be the one of an upload.
LEMMA OneRow ==
  ASSUME Typed, NEW b \in Blueprint, Exists(b), NEW a \in Upload, row[b].up = a
  PROVE  up[a].bp = b /\ Authorised(a) /\ Active(up[a].pc)
  BY Owner DEF Typed, Keys, RowsKept

LEMMA MovesKeys ==
  ASSUME Typed, NEW a \in Upload, NEW pc, NEW l, NEW i, Moves(a, pc, l, i)
  PROVE  Keys'
<1> DEFINE n == Now(a, pc, l, i)
<1>1. /\ n.pc = pc /\ n.bp = up[a].bp /\ n.mode = up[a].mode
      /\ up'[a] = n /\ \A c \in Upload \ {a} : up'[c] = up[c]
      /\ row' = row /\ dep' = dep /\ unanswered' = unanswered
  BY NowFields DEF Moves, Becomes
<1> HIDE DEF n
<1>2. /\ \A b \in Blueprint : Exists(b) => row[b].up \in Upload
      /\ \A d \in Deployment : dep[d] # None => dep[d].up \in Upload
  BY RowTypes DEF Typed, Types, DeploymentRow
<1>3. RowKeys' /\ DeploymentKeys'
  BY <1>1, <1>2 DEF Typed, Keys, RowKeys, DeploymentKeys, Exists
<1>4. UploadsKept'
  BY <1>1 DEF Typed, Keys, UploadsKept, Moves, Onward, Active
<1>5. DeploymentsKept'
  BY <1>1, <1>2 DEF Typed, Keys, DeploymentsKept, Moves, Onward
<1>6. RowsKept'
  <2> SUFFICES ASSUME NEW b \in Blueprint, Exists(b)
               PROVE  /\ Active(up'[row[b].up].pc)
                      /\ up'[row[b].up].mode = "validate" <=> row[b].st = "validating"
                      /\ Uploaded(b) => \/ up'[row[b].up].pc \in {"done", "stopped"}
                                        \/ up'[row[b].up].pc = "failing" /\ row[b].up \in unanswered
    BY <1>1 DEF RowsKept, Exists, Uploaded
  <2>1. CASE row[b].up = a
    BY <1>1, <2>1 DEF Typed, Keys, RowsKept, Moves, Onward
  <2>2. CASE row[b].up # a
    BY <1>1, <1>2, <2>2 DEF Typed, Keys, RowsKept
  <2> QED BY <2>1, <2>2
<1> QED BY <1>3, <1>4, <1>5, <1>6 DEF Keys

LEMMA SetsKeys ==
  ASSUME Typed, NEW a \in Upload, NEW pc, NEW l, NEW i, NEW st, NEW plan,
         Sets(a, pc, l, i, st, plan)
  PROVE  Keys'
<1> DEFINE n == Now(a, pc, l, i)
           c == up[a].bp
<1>1. /\ n.pc = pc /\ n.bp = up[a].bp /\ n.mode = up[a].mode
      /\ up'[a] = n /\ \A e \in Upload \ {a} : up'[e] = up[e]
      /\ dep' = dep /\ unanswered \subseteq unanswered'
  BY NowFields DEF Sets, Becomes
<1> HIDE DEF n
<1>2. /\ \A b \in Blueprint : Exists(b) => row[b].up \in Upload
      /\ \A d \in Deployment : dep[d] # None => dep[d].up \in Upload /\ dep[d].bp \in Blueprint
  BY RowTypes DEF Typed, Types, DeploymentRow
<1>3. /\ c \in Blueprint /\ Exists(c) /\ row[c].up = a
      /\ row'[c] # None /\ row'[c].up = a /\ row'[c].st = st
      /\ \A b \in Blueprint \ {c} : row'[b] = row[b]
  BY UnderWay DEF Sets, RowSets, RowBecomes, Onward
<1> HIDE DEF c
<1>4. \A b \in Blueprint \ {c} : Exists(b) => row[b].up \in Upload \ {a}
  BY <1>2, OneRow DEF c
<1>5. RowKeys'
  BY <1>1, <1>3, <1>4 DEF Typed, Keys, RowKeys, Exists, c
<1>6. DeploymentKeys'
  BY <1>1, <1>2, <1>3 DEF Typed, Keys, DeploymentKeys
<1>7. UploadsKept'
  BY <1>1 DEF Typed, Keys, UploadsKept, Sets, Onward, Active
<1>8. DeploymentsKept'
  BY <1>1, <1>2 DEF Typed, Keys, DeploymentsKept, Sets, Onward
<1>9. RowsKept'
  <2> SUFFICES ASSUME NEW b \in Blueprint, row'[b] # None
               PROVE  /\ Active(up'[row'[b].up].pc)
                      /\ up'[row'[b].up].mode = "validate" <=> row'[b].st = "validating"
                      /\ row'[b].st = "uploaded" =>
                           \/ up'[row'[b].up].pc \in {"done", "stopped"}
                           \/ up'[row'[b].up].pc = "failing" /\ row'[b].up \in unanswered'
    BY DEF RowsKept, Exists, Uploaded
  <2>1. CASE b = c
    BY <1>1, <1>3, <2>1 DEF Sets, Onward
  <2>2. CASE b # c
    <3>1. row'[b] = row[b] /\ Exists(b) /\ row[b].up \in Upload /\ row[b].up # a
      BY <1>3, <1>4, <2>2 DEF Exists
    <3> QED BY <1>1, <3>1 DEF Typed, Keys, RowsKept, Uploaded
  <2> QED BY <2>1, <2>2
<1> QED BY <1>5, <1>6, <1>7, <1>8, <1>9 DEF Keys

LEMMA LeavesKeys ==
  ASSUME Typed, NEW a \in Upload, Leaves(a)
  PROVE  Keys'
<1>1. /\ up'[a] = Gone /\ \A c \in Upload \ {a} : up'[c] = up[c]
      /\ row' = row /\ dep' = dep /\ unanswered' = unanswered
  BY DEF Leaves, Becomes
<1>2. /\ \A b \in Blueprint : Exists(b) => row[b].up \in Upload \ {a}
      /\ \A d \in Deployment : dep[d] # None => dep[d].up \in Upload
  BY RowTypes, OneRow DEF Typed, Types, DeploymentRow, Leaves
<1>3. RowKeys' /\ DeploymentKeys'
  BY <1>1, <1>2 DEF Typed, Keys, RowKeys, DeploymentKeys, Exists
<1>4. UploadsKept' /\ DeploymentsKept'
  BY <1>1, <1>2, GoneOK DEF Typed, Keys, UploadsKept, DeploymentsKept, Active
<1>5. RowsKept'
  <2> SUFFICES ASSUME NEW b \in Blueprint, Exists(b)
               PROVE  /\ Active(up'[row[b].up].pc)
                      /\ up'[row[b].up].mode = "validate" <=> row[b].st = "validating"
                      /\ Uploaded(b) => \/ up'[row[b].up].pc \in {"done", "stopped"}
                                        \/ up'[row[b].up].pc = "failing" /\ row[b].up \in unanswered
    BY <1>1 DEF RowsKept, Exists, Uploaded
  <2> QED BY <1>1, <1>2 DEF Typed, Keys, RowsKept
<1> QED BY <1>3, <1>4, <1>5 DEF Keys

LEMMA InsertsKeys ==
  ASSUME Typed, NEW a \in Upload, NEW b \in Blueprint, NEW mode, NEW st \in State,
         Inserts(a, b, mode, st)
  PROVE  Keys'
<1> DEFINE n == [pc |-> "stored", bp |-> b, mode |-> mode,
                 local |-> up[a].local, imports |-> up[a].imports]
           r == [st |-> st, up |-> a, plan |-> None]
<1>1. /\ n.pc = "stored" /\ n.bp = b /\ n.mode = mode
      /\ r.st = st /\ r.up = a
      /\ up'[a] = n /\ \A c \in Upload \ {a} : up'[c] = up[c]
      /\ row'[b] = r /\ \A c \in Blueprint \ {b} : row'[c] = row[c]
      /\ dep' = dep /\ unanswered' = unanswered
  BY DEF Inserts, Becomes, RowBecomes
<1>2. r # None
  <2>1. r \in BlueprintRow
    BY DEF BlueprintRow
  <2> QED BY <2>1
<1> HIDE DEF n, r
<1>3. /\ \A c \in Blueprint : Exists(c) => row[c].up \in Upload \ {a}
      /\ \A d \in Deployment : dep[d] # None => dep[d].up \in Upload \ {a} /\ dep[d].bp \in Blueprint
  <2>1. ~Active(up[a].pc)
    BY DEF Inserts, Active
  <2> QED BY <2>1, RowTypes, OneRow DEF Typed, Types, DeploymentRow, Keys, DeploymentsKept
<1>4. RowKeys'
  BY <1>1, <1>3 DEF Typed, Keys, RowKeys, Exists
<1>5. DeploymentKeys'
  BY <1>1, <1>3 DEF Typed, Keys, DeploymentKeys, Inserts, Exists
<1>6. UploadsKept' /\ DeploymentsKept'
  BY <1>1, <1>3 DEF Typed, Keys, UploadsKept, DeploymentsKept, Active, Inserts
<1>7. RowsKept'
  <2> SUFFICES ASSUME NEW c \in Blueprint, row'[c] # None
               PROVE  /\ Active(up'[row'[c].up].pc)
                      /\ up'[row'[c].up].mode = "validate" <=> row'[c].st = "validating"
                      /\ row'[c].st = "uploaded" =>
                           \/ up'[row'[c].up].pc \in {"done", "stopped"}
                           \/ up'[row'[c].up].pc = "failing" /\ row'[c].up \in unanswered'
    BY DEF RowsKept, Exists, Uploaded
  <2>1. CASE c = b
    BY <1>1, <2>1 DEF Inserts, Active
  <2>2. CASE c # b
    <3>1. row'[c] = row[c] /\ Exists(c) /\ row[c].up \in Upload /\ row[c].up # a
      BY <1>1, <1>3, <2>2 DEF Exists
    <3> QED BY <1>1, <3>1 DEF Typed, Keys, RowsKept, Uploaded
  <2> QED BY <2>1, <2>2
<1> QED BY <1>4, <1>5, <1>6, <1>7 DEF Keys

\* What is left of rows and deployments after a row went.
LEMMA DropsKeys ==
  ASSUME Typed, NEW b \in Blueprint, Exists(b), Drops(b)
  PROVE  /\ \A c \in Blueprint : row'[c] # None => c # b /\ row'[c] = row[c]
         /\ \A c \in Blueprint : row'[c] # None => row[c].up \in Upload /\ row[c].up # row[b].up
         /\ \A d \in Deployment : dep'[d] # None => dep'[d] = dep[d] /\ dep[d] # None /\ dep[d].up \in Upload
         /\ DeploymentKeys'
<1>1. /\ \A c \in Blueprint : row'[c] # None => c # b /\ row'[c] = row[c]
      /\ \A d \in Deployment : dep'[d] # None => dep'[d] = dep[d] /\ d \notin Made(b) /\ dep[d] # None
      /\ \A c \in Blueprint \ {b} : row'[c] = row[c]
  BY DEF Drops, RowBecomes
<1>2. \A c \in Blueprint : row'[c] # None => row[c].up \in Upload /\ row[c].up # row[b].up
  BY <1>1, OneRow, RowTypes DEF Exists, Typed
<1>3. \A d \in Deployment : dep[d] # None => dep[d].up \in Upload /\ dep[d].bp \in Blueprint
  BY DEF Typed, Types, DeploymentRow
<1>4. DeploymentKeys'
  <2> SUFFICES ASSUME NEW d \in Deployment, dep'[d] # None, dep'[d].made
               PROVE  row'[dep'[d].bp] # None /\ row'[dep'[d].bp].up = dep'[d].up
    BY DEF DeploymentKeys
  <2>1. dep'[d] = dep[d] /\ d \notin Made(b) /\ dep[d] # None /\ dep[d].made
    BY <1>1
  <2>2. row[dep[d].bp] # None /\ row[dep[d].bp].up = dep[d].up
    BY <2>1 DEF Typed, Keys, DeploymentKeys
  <2>3. dep[d].bp # b
    BY <2>1, <2>2 DEF Made, Exists
  <2> QED BY <1>1, <1>3, <2>1, <2>2, <2>3
<1> QED BY <1>1, <1>2, <1>3, <1>4

LEMMA RemovesKeys ==
  ASSUME Typed, NEW b \in Blueprint, Removes(b)
  PROVE  Keys'
<1>1. /\ \A c \in Blueprint : row'[c] # None => c # b /\ row'[c] = row[c]
      /\ \A c \in Blueprint : row'[c] # None => row[c].up \in Upload /\ row[c].up # row[b].up
      /\ \A d \in Deployment : dep'[d] # None => dep'[d] = dep[d] /\ dep[d] # None /\ dep[d].up \in Upload
      /\ DeploymentKeys'
  BY DropsKeys DEF Removes
<1>2. /\ \A c \in Upload : up'[c] = up[c] \/ (c = row[b].up /\ up'[c] = Gone)
      /\ unanswered' = unanswered
  BY DEF Removes, Forgets
<1>3. RowKeys'
  BY <1>1, <1>2 DEF Typed, Keys, RowKeys
<1>4. UploadsKept' /\ DeploymentsKept'
  BY <1>1, <1>2, GoneOK DEF Typed, Keys, UploadsKept, DeploymentsKept, Active
<1>5. RowsKept'
  BY <1>1, <1>2 DEF Typed, Keys, RowsKept, Exists, Uploaded
<1> QED BY <1>1, <1>3, <1>4, <1>5 DEF Keys

LEMMA ReplacesKeys ==
  ASSUME Typed, NEW a \in Upload, NEW b \in Blueprint, NEW mode, Replaces(a, b, mode)
  PROVE  Keys'
<1>1. /\ \A c \in Blueprint : row'[c] # None => c # b /\ row'[c] = row[c]
      /\ \A c \in Blueprint : row'[c] # None => row[c].up \in Upload /\ row[c].up # row[b].up
      /\ \A d \in Deployment : dep'[d] # None => dep'[d] = dep[d] /\ dep[d] # None /\ dep[d].up \in Upload
      /\ DeploymentKeys'
  BY DropsKeys DEF Replaces
<1>2. /\ \A c \in Upload \ {a} : up'[c] = up[c] \/ (c = row[b].up /\ up'[c] = Gone)
      /\ up'[a].pc = "replaced" /\ up'[a].bp = b /\ up'[a].mode = mode
      /\ unanswered' = unanswered /\ ~Active(up[a].pc)
  BY DEF Replaces, Active
<1>3. /\ \A c \in Blueprint : row'[c] # None => row[c].up # a
      /\ \A d \in Deployment : dep'[d] # None => dep[d].up # a
  BY <1>1, <1>2, OneRow DEF Exists, Typed, Keys, DeploymentsKept
<1>4. RowKeys'
  BY <1>1, <1>2, <1>3 DEF Typed, Keys, RowKeys
<1>5. UploadsKept' /\ DeploymentsKept'
  BY <1>1, <1>2, <1>3, GoneOK DEF Typed, Keys, UploadsKept, DeploymentsKept, Active, Replaces
<1>6. RowsKept'
  BY <1>1, <1>2, <1>3 DEF Typed, Keys, RowsKept, Exists, Uploaded
<1> QED BY <1>1, <1>4, <1>5, <1>6 DEF Keys

-----------------------------------------------------------------------------
(* Which kind each action is. *)

LEMMA UploadUpdate ==
  ASSUME NEW x \in UploadState, NEW pc \in Steps, NEW b \in Blueprint, NEW mode \in Modes
  PROVE  [x EXCEPT !.pc = pc, !.bp = b, !.mode = mode] =
           [pc |-> pc, bp |-> b, mode |-> mode, local |-> x.local, imports |-> x.imports]
<1> DEFINE y == [x EXCEPT !.pc = pc]
           z == [y EXCEPT !.bp = b]
<1>1. y \in UploadState /\ y.pc = pc /\ y.local = x.local /\ y.imports = x.imports
  BY DEF UploadState
<1> HIDE DEF y
<1>2. z \in UploadState /\ z.pc = pc /\ z.bp = b /\ z.local = x.local /\ z.imports = x.imports
  BY <1>1 DEF UploadState
<1>3. [x EXCEPT !.pc = pc, !.bp = b, !.mode = mode] = [z EXCEPT !.mode = mode]
  BY DEF y
<1> HIDE DEF z
<1>4. [z EXCEPT !.mode = mode] =
        [pc |-> z.pc, bp |-> z.bp, mode |-> mode, local |-> z.local, imports |-> z.imports]
  BY <1>2 DEF UploadState
<1> QED BY <1>2, <1>3, <1>4

LEMMA UploadImports ==
  ASSUME NEW x \in UploadState, NEW i
  PROVE  [x EXCEPT !.imports = i] =
           [pc |-> x.pc, bp |-> x.bp, mode |-> x.mode, local |-> x.local, imports |-> i]
  BY DEF UploadState

LEMMA UploadReset ==
  ASSUME NEW x \in UploadState
  PROVE  [x EXCEPT !.pc = "done", !.local = None, !.imports = {}] =
           [pc |-> "done", bp |-> x.bp, mode |-> x.mode, local |-> None, imports |-> {}]
<1> DEFINE y == [x EXCEPT !.pc = "done"]
           z == [y EXCEPT !.local = None]
<1>0. None \in Content /\ "done" \in Steps
  BY DEF Content, Steps
<1>1. y \in UploadState /\ y.pc = "done" /\ y.bp = x.bp /\ y.mode = x.mode
  BY <1>0 DEF UploadState
<1> HIDE DEF y
<1>2. z \in UploadState /\ z.pc = "done" /\ z.bp = x.bp /\ z.mode = x.mode /\ z.local = None
  BY <1>0, <1>1 DEF UploadState
<1>3. [x EXCEPT !.pc = "done", !.local = None, !.imports = {}] = [z EXCEPT !.imports = {}]
  BY DEF y
<1> HIDE DEF z
<1>4. [z EXCEPT !.imports = {}] =
        [pc |-> z.pc, bp |-> z.bp, mode |-> z.mode, local |-> z.local, imports |-> {}]
  BY <1>2, UploadImports
<1> QED BY <1>2, <1>3, <1>4

LEMMA UploadFetched ==
  ASSUME NEW x \in UploadState, NEW pc \in Steps, NEW l \in Content
  PROVE  [x EXCEPT !.pc = pc, !.local = l] =
           [pc |-> pc, bp |-> x.bp, mode |-> x.mode, local |-> l, imports |-> x.imports]
<1> DEFINE y == [x EXCEPT !.pc = pc]
<1>1. y \in UploadState /\ y.pc = pc /\ y.bp = x.bp /\ y.mode = x.mode /\ y.imports = x.imports
  BY DEF UploadState
<1>2. [x EXCEPT !.pc = pc, !.local = l] = [y EXCEPT !.local = l]
  OBVIOUS
<1> HIDE DEF y
<1>3. [y EXCEPT !.local = l] =
        [pc |-> y.pc, bp |-> y.bp, mode |-> y.mode, local |-> l, imports |-> y.imports]
  BY <1>1 DEF UploadState
<1> QED BY <1>1, <1>2, <1>3

LEMMA UploadParsed ==
  ASSUME NEW x \in UploadState, NEW pc \in Steps, NEW i \in SUBSET Blueprint
  PROVE  [x EXCEPT !.pc = pc, !.imports = i] =
           [pc |-> pc, bp |-> x.bp, mode |-> x.mode, local |-> x.local, imports |-> i]
<1> DEFINE y == [x EXCEPT !.pc = pc]
<1>1. y \in UploadState /\ y.pc = pc /\ y.bp = x.bp /\ y.mode = x.mode /\ y.local = x.local
  BY DEF UploadState
<1>2. [x EXCEPT !.pc = pc, !.imports = i] = [y EXCEPT !.imports = i]
  OBVIOUS
<1> HIDE DEF y
<1>3. [y EXCEPT !.imports = i] =
        [pc |-> y.pc, bp |-> y.bp, mode |-> y.mode, local |-> y.local, imports |-> i]
  BY <1>1 DEF UploadState
<1> QED BY <1>1, <1>2, <1>3

LEMMA PutReplaceKind ==
  ASSUME Typed, NEW a \in Upload, NEW b \in Blueprint, NEW mode \in Modes, PutReplace(a, b, mode)
  PROVE  /\ Replaces(a, b, mode) /\ Failed(b)
         /\ swept' \subseteq Upload
         /\ swept' = IF Made(b) # {} THEN swept \cup {row[b].up} ELSE swept
<1>1. Exists(b) /\ up[a].pc = "new" /\ Types
  BY DEF PutReplace, Failed, Typed
<1>2. /\ Drops(b) /\ swept' \subseteq Upload
      /\ swept' = IF Made(b) \cap Made(b) # {} THEN swept \cup {row[b].up} ELSE swept
  BY <1>1, DropRowEffect DEF PutReplace
<1>3. a # row[b].up /\ row[b].up \in Upload
  BY <1>1, OneRow, RowTypes DEF Active
<1> DEFINE F == Forgotten(b)
           n == [pc |-> "replaced", bp |-> b, mode |-> mode,
                 local |-> up[a].local, imports |-> up[a].imports]
<1>4. /\ F \in [Upload -> UploadState] /\ F[a] = up[a]
      /\ \A c \in Upload : F[c] = up[c] \/ (c = row[b].up /\ F[c] = Gone)
  <2>1. CASE up[row[b].up].pc \in {"done", "stopped"}
    BY <1>1, <1>3, <2>1, GoneOK DEF Forgotten, Types
  <2>2. CASE up[row[b].up].pc \notin {"done", "stopped"}
    BY <1>1, <2>2 DEF Forgotten, Types
  <2> QED BY <2>1, <2>2
<1>5. up[a] \in UploadState
  BY <1>1, UpTypes
<1>6. n \in UploadState
  BY <1>1, UpTypes DEF UploadState, Steps
<1>7. up' = [F EXCEPT ![a] = [F[a] EXCEPT !.pc = "replaced", !.bp = b, !.mode = mode]]
  <2> HIDE DEF F
  <2>1. up' = [F EXCEPT ![a].pc = "replaced", ![a].bp = b, ![a].mode = mode]
    BY DEF PutReplace, F
  <2> QED BY <1>4, <2>1
<1>8. [F[a] EXCEPT !.pc = "replaced", !.bp = b, !.mode = mode] = n
  <2>1. "replaced" \in Steps
    BY DEF Steps
  <2> QED BY <1>4, <1>5, <2>1, UploadUpdate
<1> HIDE DEF F, n
<1>9. /\ up' \in [Upload -> UploadState] /\ up'[a] = n
      /\ \A c \in Upload \ {a} : up'[c] = F[c]
  BY <1>4, <1>6, <1>7, <1>8
<1>10. unanswered' = unanswered /\ mode # "validate"
  BY DEF PutReplace, faults
<1> QED BY <1>1, <1>2, <1>4, <1>9, <1>10 DEF Replaces, n, PutReplace

LEMMA InsertKind ==
  ASSUME Typed, NEW a \in Upload, NEW b \in Blueprint, NEW mode \in Modes, NEW st \in State,
         Insert(a, b, mode, st), up[a].pc \in {"new", "replaced"}, ~Exists(b),
         UNCHANGED <<dep, unanswered>>, mode = "validate" <=> st = "validating",
         st # "uploaded"
  PROVE  Inserts(a, b, mode, st)
<1> DEFINE n == [pc |-> "stored", bp |-> b, mode |-> mode,
                 local |-> up[a].local, imports |-> up[a].imports]
           r == [st |-> st, up |-> a, plan |-> None]
<1>1. Types /\ up[a] \in UploadState /\ "stored" \in Steps
  BY UpTypes DEF Typed, Steps
<1>2. n \in UploadState /\ r \in BlueprintRow
  BY <1>1, UpTypes DEF UploadState, BlueprintRow
<1>3. [up[a] EXCEPT !.pc = "stored", !.bp = b, !.mode = mode] = n
  BY <1>1, UploadUpdate
<1>4. up' = [up EXCEPT ![a] = n]
  <2>1. up' = [up EXCEPT ![a] = [up[a] EXCEPT !.pc = "stored", !.bp = b, !.mode = mode]]
    BY <1>1 DEF Insert, Types
  <2> QED BY <1>3, <2>1
<1>5. row' = [row EXCEPT ![b] = r]
  BY DEF Insert
<1> HIDE DEF n, r
<1>6. Becomes(a, n)
  BY <1>1, <1>2, <1>4, BecomesEffect
<1>7. RowBecomes(b, r)
  BY <1>1, <1>2, <1>5 DEF Types, RowBecomes
<1> QED BY <1>6, <1>7 DEF Inserts, n, r

\* PUT of a row: it is inserted, or somebody else was first.
LEMMA PutRowKind ==
  ASSUME Typed, NEW a \in Upload, NEW b \in Blueprint, NEW mode \in Modes, PutRow(a, b, mode)
  PROVE  Leaves(a) \/ \E st \in State : Inserts(a, b, mode, st)
<1>1. UNCHANGED <<dep, unanswered>> /\ mode # "validate" /\ up[a].pc \in {"new", "replaced"}
  BY DEF PutRow, faults
<1>2. CASE Exists(b)
  <2>1. up[a].pc = "replaced" /\ up[a].bp = b /\ End(a) /\ UNCHANGED row
    BY <1>2 DEF PutRow
  <2>2. ~Authorised(a)
    BY <1>2, <2>1, OneRow DEF Authorised, Active
  <2>3. Becomes(a, Gone)
    BY <2>1, <2>2, EndEffect DEF Typed
  <2> QED BY <1>1, <2>1, <2>2, <2>3 DEF Leaves
<1>3. CASE ~Exists(b)
  <2> DEFINE st == IF mode = "file" THEN "uploading" ELSE "pending"
  <2>1. st \in State /\ st # "validating" /\ st # "uploaded"
    BY DEF State
  <2>2. Insert(a, b, mode, st)
    BY <1>3 DEF PutRow
  <2> QED BY <1>1, <1>3, <2>1, <2>2, InsertKind
<1> QED BY <1>2, <1>3

LEMMA ValidateRowKind ==
  ASSUME Typed, NEW a \in Upload, NEW b \in Blueprint, ValidateRow(a, b)
  PROVE  Inserts(a, b, "validate", "validating")
<1>1. /\ UNCHANGED <<dep, unanswered>> /\ up[a].pc \in {"new", "replaced"} /\ ~Exists(b)
      /\ Insert(a, b, "validate", "validating")
      /\ "validate" \in Modes /\ "validating" \in State /\ "validating" # "uploaded"
  BY DEF ValidateRow, faults, State
<1> QED BY <1>1, InsertKind

LEMMA GoesKind ==
  ASSUME Typed, NEW a \in Upload, NEW pc \in Steps, At(a, pc), Onward(a, pc),
         pc \in {"done", "stopped"} \/ up[a].pc # "failing", UNCHANGED <<row, dep, unanswered>>
  PROVE  Moves(a, pc, up[a].local, up[a].imports)
  BY AtEffect DEF Typed, Moves, Goes

LEMMA EndKind ==
  ASSUME Typed, NEW a \in Upload, End(a), up[a].pc \notin {"new", "replaced", "done", "stopped"},
         UNCHANGED <<row, dep, unanswered>>
  PROVE  /\ Authorised(a) => Moves(a, "done", up[a].local, up[a].imports)
         /\ ~Authorised(a) => Leaves(a)
  BY EndEffect DEF Typed, Moves, Goes, Leaves, Onward, Active

\* One that stops half way.
LEMMA StopKind ==
  ASSUME Typed, NEW a \in Upload, Stop(a), up[a].pc \notin {"new", "done", "stopped"},
         UNCHANGED <<row, dep, unanswered>>
  PROVE  \/ Leaves(a)
         \/ Moves(a, "stopped", up[a].local, up[a].imports) /\ Authorised(a)
<1>1. CASE Authorised(a)
  <2>1. up[a].pc # "replaced"
    BY <1>1, UnderWay
  <2> QED BY <1>1, <2>1, StopEffect DEF Typed, Moves, Goes, Onward, Active
<1>2. CASE ~Authorised(a)
  BY <1>2, StopEffect DEF Leaves, Typed
<1> QED BY <1>1, <1>2

LEMMA WfStopsKind ==
  ASSUME Typed, NEW a \in Upload, WfStops(a)
  PROVE  /\ \/ Leaves(a)
            \/ Moves(a, "stopped", up[a].local, up[a].imports) /\ Authorised(a)
         /\ UNCHANGED <<row, files, del, dep, faults, history>>
<1>1. /\ up[a].pc \notin {"new", "done", "stopped"} /\ Stop(a)
      /\ UNCHANGED <<row, files, del, dep, faults, history>> /\ UNCHANGED unanswered
  BY DEF WfStops, faults
<1> QED BY <1>1, StopKind

LEMMA PutArchiveKind ==
  ASSUME Typed, NEW a \in Upload, PutArchive(a)
  PROVE  Moves(a, "sent", up[a].local, up[a].imports)
  BY GoesKind DEF PutArchive, Steps, Onward, Active, faults

LEMMA PutFailsKind ==
  ASSUME Typed, NEW a \in Upload, PutFails(a)
  PROVE  /\ ~Authorised(a) => Leaves(a)
         /\ Authorised(a) /\ up[a].mode = "validate" => Moves(a, "done", up[a].local, up[a].imports)
         /\ Authorised(a) /\ up[a].mode # "validate" =>
              Sets(a, "done", up[a].local, up[a].imports, "failed", row[up[a].bp].plan)
<1>1. up[a].pc = "stored" /\ End(a) /\ UNCHANGED <<dep, unanswered>>
  BY DEF PutFails, faults
<1>2. CASE Authorised(a) /\ up[a].mode # "validate"
  <2>1. SetState(a, "failed") /\ "failed" \in State
    BY <1>2 DEF PutFails, State
  <2>2. RowSets(up[a].bp, "failed", row[up[a].bp].plan)
    BY <1>1, <1>2, <2>1, UnderWay, SetStateEffect DEF Typed
  <2>3. Becomes(a, Now(a, "done", up[a].local, up[a].imports))
    BY <1>1, <1>2, EndEffect DEF Typed, Goes
  <2> QED BY <1>1, <1>2, <2>1, <2>2, <2>3 DEF Sets, Onward, Active
<1>3. CASE ~(Authorised(a) /\ up[a].mode # "validate")
  <2>1. UNCHANGED row
    BY <1>3 DEF PutFails
  <2> QED BY <1>1, <1>3, <2>1, EndKind
<1> QED BY <1>2, <1>3

\* A workflow that gives up.
LEMMA FailKind ==
  ASSUME Typed, NEW a \in Upload, Fail(a), up[a].pc \notin {"new", "replaced", "done", "stopped"}
  PROVE  /\ ~Authorised(a) => Leaves(a)
         /\ Authorised(a) /\ up[a].mode = "validate" => Removes(up[a].bp) /\ up'[a] = Gone
         /\ Authorised(a) /\ up[a].mode # "validate" =>
              Sets(a, "done", None, {}, "failed", row[up[a].bp].plan)
         /\ swept' = swept
<1>1. PatchFailed(a) /\ UNCHANGED unanswered /\ Types
  BY DEF Fail, faults, Typed
<1>2. CASE ~Authorised(a)
  <2>1. up' = [up EXCEPT ![a] = Gone] /\ UNCHANGED <<row, dep, swept>>
    BY <1>1, <1>2 DEF Fail, PatchFailed
  <2>2. Becomes(a, Gone)
    BY <1>1, <2>1, BecomesEffect, GoneOK
  <2> QED BY <1>1, <1>2, <2>1, <2>2 DEF Leaves
<1>3. CASE Authorised(a) /\ up[a].mode = "validate"
  <2>1. up' = [up EXCEPT ![a] = Gone] /\ DropRow(up[a].bp, {})
    BY <1>1, <1>3 DEF Fail, PatchFailed, Types
  <2>2. up[a].bp \in Blueprint /\ Exists(up[a].bp) /\ row[up[a].bp].up = a
    BY <1>3, UnderWay
  <2>3. Drops(up[a].bp) /\ swept' = IF Made(up[a].bp) \cap {} # {} THEN swept \cup {row[up[a].bp].up} ELSE swept
    BY <1>1, <2>1, <2>2, DropRowEffect
  <2>4. swept' = swept
    BY <2>3
  <2>5. Becomes(a, Gone)
    BY <1>1, <2>1, BecomesEffect, GoneOK
  <2> QED BY <1>1, <1>3, <2>2, <2>3, <2>4, <2>5 DEF Removes, Forgets, Becomes
<1>4. CASE Authorised(a) /\ up[a].mode # "validate"
  <2>1. up' = [up EXCEPT ![a] = [up[a] EXCEPT !.pc = "done", !.local = None, !.imports = {}]]
    BY <1>1, <1>4 DEF Fail, Types
  <2>2. SetState(a, "failed") /\ UNCHANGED <<dep, swept>> /\ "failed" \in State
    BY <1>1, <1>4 DEF PatchFailed, State
  <2>3. up[a] \in UploadState
    BY <1>1, UpTypes
  <2>4. up' = [up EXCEPT ![a] = Now(a, "done", None, {})]
    BY <2>1, <2>3, UploadReset DEF Now
  <2>5. Now(a, "done", None, {}) \in UploadState
    BY <1>1, NowType DEF Steps, Content
  <2>6. Becomes(a, Now(a, "done", None, {}))
    BY <1>1, <2>4, <2>5, BecomesEffect
  <2>7. RowSets(up[a].bp, "failed", row[up[a].bp].plan)
    BY <1>1, <1>4, <2>2, UnderWay, SetStateEffect
  <2> QED BY <1>1, <1>4, <2>2, <2>6, <2>7 DEF Sets, Onward, Active
<1> QED BY <1>2, <1>3, <1>4

LEMMA StepKind ==
  ASSUME Typed, NEW a \in Upload, NEW from \in Steps, NEW st \in State, NEW to \in Steps,
         Step(a, from, st, to), from \notin {"new", "replaced", "done", "stopped", "failing"},
         to \notin {"new", "replaced", "patching", "extracted", "failing"},
         to = "fetching" => up[a].mode # "validate", st \notin {"validating", "uploaded"}
  PROVE  \/ Moves(a, to, up[a].local, up[a].imports)
         \/ Sets(a, to, up[a].local, up[a].imports, st, row[up[a].bp].plan)
         \/ Leaves(a)
<1>1. up[a].pc = from /\ UNCHANGED <<dep, unanswered>>
  BY DEF Step, faults
<1>2. Onward(a, to)
  BY <1>1 DEF Onward, Active
<1>3. CASE up[a].mode = "validate"
  BY <1>1, <1>2, <1>3, GoesKind DEF Step
<1>4. CASE up[a].mode # "validate" /\ Authorised(a)
  <2>1. At(a, to) /\ SetState(a, st)
    BY <1>4 DEF Step
  <2>2. Becomes(a, Now(a, to, up[a].local, up[a].imports))
    BY <2>1, AtEffect DEF Typed, Goes
  <2>3. RowSets(up[a].bp, st, row[up[a].bp].plan)
    BY <1>1, <1>4, <2>1, UnderWay, SetStateEffect DEF Typed
  <2> QED BY <1>1, <1>2, <1>4, <2>2, <2>3 DEF Sets
<1>5. CASE up[a].mode # "validate" /\ ~Authorised(a)
  <2>1. End(a) /\ UNCHANGED row
    BY <1>5 DEF Step
  <2> QED BY <1>1, <1>5, <2>1, EndKind
<1> QED BY <1>3, <1>4, <1>5

\* The three PATCHes of the state alone.
Patches(a) == WfStart(a) \/ WfExtracting(a) \/ WfUnpack(a)

Reached(a) == CASE up[a].pc = "sent" -> "fetching"
                [] up[a].pc = "fetched" -> "extracting"
                [] OTHER -> "parsing"

LEMMA PatchesKind ==
  ASSUME Typed, NEW a \in Upload, Patches(a)
  PROVE  /\ \/ up[a].pc = "sent" /\ Reached(a) = "fetching"
            \/ up[a].pc = "fetched" /\ Reached(a) = "extracting"
            \/ up[a].pc = "extracting" /\ Reached(a) = "parsing"
         /\ \/ Moves(a, Reached(a), up[a].local, up[a].imports)
            \/ \E st \in State \ {"uploaded", "validating"} :
                 Sets(a, Reached(a), up[a].local, up[a].imports, st, row[up[a].bp].plan)
            \/ Leaves(a)
         /\ UNCHANGED <<files, del, dep, faults, history>>
<1>1. CASE WfStart(a)
  <2>1. /\ Step(a, "sent", "uploading", "fetching") /\ up[a].pc = "sent" /\ up[a].mode = "url"
        /\ UNCHANGED <<files, del, dep, faults, history>>
        /\ "sent" \in Steps /\ "fetching" \in Steps /\ "uploading" \in State
        /\ Reached(a) = "fetching"
    BY <1>1 DEF WfStart, Step, Steps, State, Reached
  <2> QED BY <2>1, StepKind
<1>2. CASE WfExtracting(a)
  <2>1. /\ Step(a, "fetched", "extracting", "extracting") /\ up[a].pc = "fetched"
        /\ UNCHANGED <<files, del, dep, faults, history>>
        /\ "fetched" \in Steps /\ "extracting" \in Steps /\ "extracting" \in State
        /\ Reached(a) = "extracting"
    BY <1>2 DEF WfExtracting, Step, Steps, State, Reached
  <2> QED BY <2>1, StepKind
<1>3. CASE WfUnpack(a)
  <2>1. /\ Step(a, "extracting", "parsing", "parsing") /\ up[a].pc = "extracting"
        /\ UNCHANGED <<files, del, dep, faults, history>>
        /\ "extracting" \in Steps /\ "parsing" \in Steps /\ "parsing" \in State
        /\ Reached(a) = "parsing"
    BY <1>3 DEF WfUnpack, Step, Steps, State, Reached
  <2> QED BY <2>1, StepKind
<1> QED BY <1>1, <1>2, <1>3 DEF Patches

LEMMA WfFetchKind ==
  ASSUME Typed, NEW a \in Upload, WfFetch(a)
  PROVE  /\ up[a].pc \in {"sent", "fetching"} /\ Authorised(a)
         /\ \E l \in Content : /\ Moves(a, "fetched", l, up[a].imports)
                              /\ IF up[a].pc = "fetching" THEN l = a /\ StoreArchive(a, up[a].bp)
                                 ELSE l \in Archives(up[a].bp) /\ UNCHANGED <<archive, mixed>>
         /\ UNCHANGED folder
<1>0. up[a].pc \in {"sent", "fetching"} /\ Authorised(a) /\ UNCHANGED <<row, dep, unanswered, folder>>
  BY DEF WfFetch, faults
<1>2. up[a].bp \in Blueprint /\ Types
  BY <1>0, UnderWay DEF Typed
<1>1. PICK l \in Content :
        /\ up' = [up EXCEPT ![a].pc = "fetched", ![a].local = l]
        /\ IF up[a].pc = "fetching" THEN l = a /\ StoreArchive(a, up[a].bp)
           ELSE l \in Archives(up[a].bp) /\ UNCHANGED <<archive, mixed>>
  <2>1. CASE up[a].pc = "fetching"
    <3>1. a \in Content /\ StoreArchive(a, up[a].bp)
          /\ up' = [up EXCEPT ![a].pc = "fetched", ![a].local = a]
      BY <2>1 DEF WfFetch, Content
    <3> QED BY <2>1, <3>1
  <2>2. CASE up[a].pc # "fetching"
    <3>1. PICK x \in Archives(up[a].bp) :
            up' = [up EXCEPT ![a].pc = "fetched", ![a].local = x]
      BY <2>2 DEF WfFetch
    <3>2. UNCHANGED <<archive, mixed>>
      BY <2>2 DEF WfFetch
    <3>3. x \in Content
      BY <1>2, <3>1, ArchivesType
    <3> QED BY <2>2, <3>1, <3>2, <3>3
  <2> QED BY <2>1, <2>2
<1>3. "fetched" \in Steps /\ up[a] \in UploadState /\ up[a].imports \in SUBSET Blueprint
  BY <1>2, UpTypes DEF Steps
<1>4. up' = [up EXCEPT ![a] = Now(a, "fetched", l, up[a].imports)]
  <2>1. up' = [up EXCEPT ![a] = [up[a] EXCEPT !.pc = "fetched", !.local = l]]
    BY <1>1, <1>2 DEF Types
  <2> QED BY <1>3, <2>1, UploadFetched DEF Now
<1>5. Becomes(a, Now(a, "fetched", l, up[a].imports))
  BY <1>2, <1>3, <1>4, NowType, BecomesEffect
<1>6. Moves(a, "fetched", l, up[a].imports)
  BY <1>0, <1>5 DEF Moves, Onward, Active
<1> QED BY <1>0, <1>1, <1>6

LEMMA WfParseKind ==
  ASSUME Typed, NEW a \in Upload, WfParse(a)
  PROVE  up[a].pc = "parsing" /\ \E i \in SUBSET Blueprint : Moves(a, "parsed", up[a].local, i)
<1>1. PICK i \in SUBSET {b \in Blueprint \ {up[a].bp} :
                    Exists(b) /\ row[b].st # "validating" /\ Present(b) # {}} :
        up' = [up EXCEPT ![a].pc = "parsed", ![a].imports = i]
  BY DEF WfParse
<1>2. up[a].pc = "parsing" /\ UNCHANGED <<row, dep, unanswered>> /\ Types
  BY DEF WfParse, faults, Typed
<1>3. /\ i \in SUBSET Blueprint /\ "parsed" \in Steps /\ up[a] \in UploadState
      /\ up[a].local \in Content
  BY <1>2, UpTypes DEF Steps
<1>4. up' = [up EXCEPT ![a] = Now(a, "parsed", up[a].local, i)]
  <2>1. up' = [up EXCEPT ![a] = [up[a] EXCEPT !.pc = "parsed", !.imports = i]]
    BY <1>1, <1>2 DEF Types
  <2> QED BY <1>3, <2>1, UploadParsed DEF Now
<1>5. Becomes(a, Now(a, "parsed", up[a].local, i))
  BY <1>2, <1>3, <1>4, NowType, BecomesEffect
<1> QED BY <1>2, <1>3, <1>5 DEF Moves, Onward, Active

LEMMA PatchReadKind ==
  ASSUME Typed, NEW a \in Upload, PatchRead(a)
  PROVE  /\ up[a].pc = "parsed"
         /\ \/ Leaves(a)
            \/ Moves(a, "failing", up[a].local, up[a].imports)
            \/ /\ Moves(a, "patching", up[a].local, up[a].imports)
               /\ \A i \in up[a].imports : Exists(i)
<1>1. /\ up[a].pc = "parsed" /\ UNCHANGED <<row, dep, unanswered>> /\ up[a].mode # "validate"
      /\ "failing" \in Steps /\ "patching" \in Steps
  BY DEF PatchRead, faults, Steps
<1>2. CASE ~Authorised(a)
  BY <1>1, <1>2, EndKind DEF PatchRead
<1>3. CASE Authorised(a) /\ \A i \in up[a].imports : Exists(i)
  BY <1>1, <1>3, GoesKind DEF PatchRead, Onward, Active
<1>4. CASE Authorised(a) /\ ~\A i \in up[a].imports : Exists(i)
  BY <1>1, <1>4, GoesKind DEF PatchRead, Onward, Active
<1> QED BY <1>1, <1>2, <1>3, <1>4

\* Only real uploads get to the last PATCH.
LEMMA RealUpload ==
  ASSUME Typed, NEW a \in Upload, up[a].pc \in {"patching", "extracted", "failing"}
  PROVE  up[a].mode # "validate" /\ up[a].bp \in Blueprint
  BY DEF Typed, Keys, UploadsKept

LEMMA PatchExtractKind ==
  ASSUME Typed, NEW a \in Upload, PatchExtract(a)
  PROVE  /\ up[a].pc = "patching"
         /\ Moves(a, IF Present(up[a].bp) = {} THEN "failing" ELSE "extracted",
                  up[a].local, up[a].imports)
<1>1. /\ up[a].pc = "patching" /\ UNCHANGED <<row, dep, unanswered>>
      /\ "failing" \in Steps /\ "extracted" \in Steps /\ up[a].mode # "validate"
  BY RealUpload DEF PatchExtract, faults, Steps
<1>2. CASE Present(up[a].bp) = {}
  BY <1>1, <1>2, GoesKind DEF PatchExtract, Onward, Active
<1>3. CASE Present(up[a].bp) # {}
  BY <1>1, <1>3, GoesKind DEF PatchExtract, Onward, Active
<1> QED BY <1>1, <1>2, <1>3

\* The row is committed with the plan of the upload.
LEMMA CommitKind ==
  ASSUME Typed, NEW a \in Upload, up[a].pc \in {"patching", "extracted"}, Authorised(a),
         NEW st \in {"uploaded", "failed"}, NEW pc \in {"done", "failing"},
         Goes(a, pc), row' = [row EXCEPT ![up[a].bp].st = st, ![up[a].bp].plan = up[a].imports],
         st = "uploaded" => pc = "done" \/ a \in unanswered',
         UNCHANGED dep, unanswered \subseteq unanswered'
  PROVE  Sets(a, pc, up[a].local, up[a].imports, st, up[a].imports)
<1>1. /\ up[a].bp \in Blueprint /\ Exists(up[a].bp) /\ up[a].mode # "validate"
      /\ st \in State \ {"validating"} /\ Types
  BY UnderWay, RealUpload DEF State, Typed
<1>2. up[a].imports \in {None} \cup SUBSET Blueprint
  BY <1>1, UpTypes
<1>3. RowSets(up[a].bp, st, up[a].imports)
  BY <1>1, <1>2, RowSetsEffect
<1> QED BY <1>1, <1>3 DEF Sets, Goes, Onward, Active

LEMMA PatchExtractFailsKind ==
  ASSUME Typed, NEW a \in Upload, PatchExtractFails(a)
  PROVE  /\ up[a].pc = "patching"
         /\ \/ Moves(a, "failing", up[a].local, up[a].imports)
            \/ Sets(a, "failing", up[a].local, up[a].imports, "failed", up[a].imports)
<1>1. /\ up[a].pc = "patching" /\ UNCHANGED <<dep, unanswered>> /\ At(a, "failing")
      /\ up[a].mode # "validate" /\ "failing" \in Steps /\ Types
  BY RealUpload DEF PatchExtractFails, faults, Steps, Typed
<1>2. CASE Authorised(a)
  <2>1. Goes(a, "failing")
    BY <1>1, AtEffect
  <2>2. row' = [row EXCEPT ![up[a].bp].st = "failed", ![up[a].bp].plan = up[a].imports]
    BY <1>2 DEF PatchExtractFails
  <2> QED BY <1>1, <1>2, <2>1, <2>2, CommitKind
<1>3. CASE ~Authorised(a)
  BY <1>1, <1>3, GoesKind DEF PatchExtractFails, Onward, Active
<1> QED BY <1>1, <1>2, <1>3

LEMMA PatchCommitKind ==
  ASSUME Typed, NEW a \in Upload, PatchCommit(a)
  PROVE  /\ up[a].pc = "extracted"
         /\ \/ ~Authorised(a) /\ Moves(a, "failing", up[a].local, up[a].imports)
            \/ Sets(a, "done", up[a].local, up[a].imports, "uploaded", up[a].imports)
<1>1. /\ up[a].pc = "extracted" /\ UNCHANGED <<dep, unanswered>>
      /\ up[a].mode # "validate" /\ "failing" \in Steps /\ Types
  BY RealUpload DEF PatchCommit, faults, Steps, Typed
<1>2. CASE Authorised(a)
  <2>1. Goes(a, "done")
    BY <1>1, <1>2, EndEffect DEF PatchCommit
  <2>2. row' = [row EXCEPT ![up[a].bp].st = "uploaded", ![up[a].bp].plan = up[a].imports]
    BY <1>2 DEF PatchCommit
  <2> QED BY <1>1, <1>2, <2>1, <2>2, CommitKind
<1>3. CASE ~Authorised(a)
  BY <1>1, <1>3, GoesKind DEF PatchCommit, Onward, Active
<1> QED BY <1>1, <1>2, <1>3

LEMMA PatchUnansweredKind ==
  ASSUME Typed, NEW a \in Upload, PatchUnanswered(a)
  PROVE  /\ up[a].pc = "extracted"
         /\ Sets(a, "failing", up[a].local, up[a].imports, "uploaded", up[a].imports)
<1>1. /\ up[a].pc = "extracted" /\ Authorised(a) /\ UNCHANGED dep /\ At(a, "failing")
      /\ "failing" \in Steps /\ unanswered \subseteq unanswered' /\ a \in unanswered'
      /\ row' = [row EXCEPT ![up[a].bp].st = "uploaded", ![up[a].bp].plan = up[a].imports]
  BY DEF PatchUnanswered, Steps
<1>2. Goes(a, "failing")
  BY <1>1, AtEffect DEF Typed
<1> QED BY <1>1, <1>2, CommitKind

LEMMA PatchRefusedKind ==
  ASSUME Typed, NEW a \in Upload, PatchRefused(a)
  PROVE  up[a].pc = "extracted" /\ Moves(a, "failing", up[a].local, up[a].imports)
<1>1. /\ up[a].pc = "extracted" /\ UNCHANGED <<row, dep, unanswered>> /\ At(a, "failing")
      /\ up[a].mode # "validate" /\ "failing" \in Steps
  BY RealUpload DEF PatchRefused, faults, Steps
<1> QED BY <1>1, GoesKind DEF Onward, Active

\* The steps at which a workflow gives up.
GivesUp(a) == WfFetchFails(a) \/ WfUnpackFails(a) \/ WfParseFails(a) \/ WfValidated(a) \/ WfFailed(a)

LEMMA GivesUpKind ==
  ASSUME Typed, NEW a \in Upload, GivesUp(a)
  PROVE  /\ Fail(a) /\ up[a].pc \notin {"new", "replaced", "done", "stopped"}
         /\ ~Authorised(a) => Leaves(a)
         /\ Authorised(a) /\ up[a].mode = "validate" => Removes(up[a].bp) /\ up'[a] = Gone
         /\ Authorised(a) /\ up[a].mode # "validate" =>
              Sets(a, "done", None, {}, "failed", row[up[a].bp].plan)
         /\ swept' = swept
<1>1. Fail(a) /\ up[a].pc \notin {"new", "replaced", "done", "stopped"}
  BY DEF GivesUp, WfFetchFails, WfUnpackFails, WfParseFails, WfValidated, WfFailed
<1> QED BY <1>1, FailKind

\* DELETE of the row that was read.
LEMMA DeleteRowKind ==
  ASSUME Typed, NEW h \in Handler, DeleteRow(h)
  PROVE  /\ del[h] \in DeleteRequest /\ del[h].bp \in Blueprint /\ UNCHANGED unanswered
         /\ \/ UNCHANGED <<row, up, dep, swept>>
            \/ /\ Removes(del[h].bp) /\ row[del[h].bp].up = del[h].up
               /\ swept' \subseteq Upload
               /\ swept' = IF Made(del[h].bp) \cap del[h].deps # {}
                             THEN swept \cup {row[del[h].bp].up} ELSE swept
<1>1. Types /\ del[h].pc = "row" /\ UNCHANGED unanswered
  BY DEF DeleteRow, faults, Typed
<1>2. del[h] \in DeleteRequest /\ del[h].bp \in Blueprint
  BY <1>1 DEF Types, Idle, DeleteRequest
<1>3. CASE Exists(del[h].bp) /\ row[del[h].bp].up = del[h].up
  <2>1. DropRow(del[h].bp, del[h].deps) /\ up' = Forgotten(del[h].bp)
    BY <1>3 DEF DeleteRow
  <2> QED BY <1>1, <1>2, <1>3, <2>1, DropRowEffect, ForgottenEffect DEF Removes
<1>4. CASE ~(Exists(del[h].bp) /\ row[del[h].bp].up = del[h].up)
  BY <1>1, <1>2, <1>4 DEF DeleteRow
<1> QED BY <1>3, <1>4

\* Something dies.
Dies == (\E a \in Upload : UploadDies(a)) \/ (\E h \in Handler : DeleteDies(h))

LEMMA DiesKind ==
  ASSUME Typed, Dies
  PROVE  /\ UNCHANGED <<row, files, dep, unanswered, history>>
         /\ \/ UNCHANGED up
            \/ /\ UNCHANGED del
               /\ \E a \in Upload :
                    \/ Leaves(a)
                    \/ Moves(a, "stopped", up[a].local, up[a].imports) /\ Authorised(a)
<1>1. UNCHANGED <<row, files, dep, unanswered, history>>
  BY DEF Dies, UploadDies, DeleteDies, faults
<1>2. ASSUME NEW h \in Handler, DeleteDies(h)
      PROVE  UNCHANGED up
  BY <1>2 DEF DeleteDies
<1>3. ASSUME NEW a \in Upload, UploadDies(a)
      PROVE  /\ UNCHANGED del
             /\ \/ Leaves(a)
                \/ Moves(a, "stopped", up[a].local, up[a].imports) /\ Authorised(a)
  BY <1>1, <1>3, StopKind DEF UploadDies
<1> QED BY <1>1, <1>2, <1>3 DEF Dies

-----------------------------------------------------------------------------
(* Types. *)

\* The types of rows, uploads and deployments, and those of all else.
TableTypes ==
  /\ row \in [Blueprint -> {None} \cup BlueprintRow]
  /\ up \in [Upload -> UploadState]
  /\ dep \in [Deployment -> {None} \cup DeploymentRow]

FileTypes ==
  /\ archive \in [Blueprint -> [ArchiveTypes -> Content]]
  /\ folder \in [Blueprint -> Content]
  /\ mixed \subseteq Upload

OtherTypes ==
  /\ del \in [Handler -> {Idle} \cup DeleteRequest]
  /\ rare \in 0..MaxRare
  /\ excused \subseteq Upload \X Blueprint
  /\ unanswered \subseteq Upload /\ swept \subseteq Upload

LEMMA TypesParts == Types <=> TableTypes /\ FileTypes /\ OtherTypes
  BY DEF Types, TableTypes, FileTypes, OtherTypes

LEMMA TypedStep ==
  ASSUME Types, Keys', TableTypes', FileTypes', OtherTypes'
  PROVE  Typed'
  BY DEF Typed, Types, TableTypes, FileTypes, OtherTypes

\* Every kind of step keeps tables and keys.
LEMMA MovesTables ==
  ASSUME Typed, NEW a \in Upload, NEW pc, NEW l, NEW i, Moves(a, pc, l, i)
  PROVE  Keys' /\ TableTypes'
<1>1. Keys'
  BY MovesKeys
<1> QED BY <1>1 DEF Moves, Becomes, Typed, Types, TableTypes

LEMMA SetsTables ==
  ASSUME Typed, NEW a \in Upload, NEW pc, NEW l, NEW i, NEW st, NEW plan,
         Sets(a, pc, l, i, st, plan)
  PROVE  Keys' /\ TableTypes'
<1>1. Keys'
  BY SetsKeys
<1> QED BY <1>1 DEF Sets, RowSets, RowBecomes, Becomes, Typed, Types, TableTypes

LEMMA LeavesTables ==
  ASSUME Typed, NEW a \in Upload, Leaves(a)
  PROVE  Keys' /\ TableTypes'
<1>1. Keys'
  BY LeavesKeys
<1> QED BY <1>1 DEF Leaves, Becomes, Typed, Types, TableTypes

LEMMA InsertsTables ==
  ASSUME Typed, NEW a \in Upload, NEW b \in Blueprint, NEW mode, NEW st \in State,
         Inserts(a, b, mode, st)
  PROVE  Keys' /\ TableTypes'
<1>1. Keys'
  BY InsertsKeys
<1> QED BY <1>1 DEF Inserts, RowBecomes, Becomes, Typed, Types, TableTypes

LEMMA ReplacesTables ==
  ASSUME Typed, NEW a \in Upload, NEW b \in Blueprint, NEW mode, Replaces(a, b, mode)
  PROVE  Keys' /\ TableTypes'
<1>1. Keys'
  BY ReplacesKeys
<1> QED BY <1>1 DEF Replaces, Drops, RowBecomes, TableTypes

LEMMA RemovesTables ==
  ASSUME Typed, NEW b \in Blueprint, Removes(b)
  PROVE  Keys' /\ TableTypes'
<1>1. Keys'
  BY RemovesKeys
<1> QED BY <1>1 DEF Removes, Forgets, Drops, RowBecomes, TableTypes

LEMMA QuietTables ==
  ASSUME Typed, UNCHANGED <<row, up, dep, unanswered>>
  PROVE  Keys' /\ TableTypes'
  BY DEF Typed, Types, TableTypes, Keys, RowKeys, DeploymentKeys, UploadsKept, RowsKept,
         DeploymentsKept, Exists, Uploaded

LEMMA FilesSame ==
  ASSUME Types, UNCHANGED files
  PROVE  FileTypes'
  BY DEF files, Types, FileTypes

LEMMA OthersSame ==
  ASSUME Types, UNCHANGED <<del, faults, history>>
  PROVE  OtherTypes'
  BY DEF faults, history, Types, OtherTypes

LEMMA InitTyped == Init => Typed
<1> SUFFICES ASSUME Init PROVE Typed
  OBVIOUS
<1>1. /\ \A b \in Blueprint : row[b] = None
      /\ \A d \in Deployment : dep[d] = None
      /\ \A a \in Upload : up[a].pc = "new"
  BY DEF Init
<1>2. Keys
  BY <1>1 DEF Keys, RowKeys, DeploymentKeys, UploadsKept, RowsKept, DeploymentsKept, Exists
<1>3. up \in [Upload -> UploadState]
  <2> DEFINE n == [pc |-> "new", bp |-> None, mode |-> None, local |-> None, imports |-> {}]
  <2>1. n \in UploadState
    <3>1. {} \in SUBSET Blueprint /\ "new" \in Steps /\ None \in Content
      BY DEF Steps, Content
    <3> QED BY <3>1 DEF UploadState
  <2>2. up = [a \in Upload |-> n]
    BY DEF Init
  <2> HIDE DEF n
  <2> QED BY <2>1, <2>2
<1>4. FileTypes /\ OtherTypes
  BY NoArchiveType DEF Init, FileTypes, OtherTypes, Content
<1>5. TableTypes
  BY <1>3 DEF Init, TableTypes
<1> QED BY <1>2, <1>4, <1>5, TypesParts DEF Typed

LEMMA UploadTyped ==
  ASSUME Typed, NEW a \in Upload, PutArchive(a) \/ PutFails(a) \/ Workflow(a)
  PROVE  Typed'
<1> USE DEF Typed
<1>1. CASE PutArchive(a)
  <2>1. Keys' /\ TableTypes'
    BY <1>1, PutArchiveKind, MovesTables
  <2>2. /\ UNCHANGED <<archive, mixed>> \/ StoreArchive(a, up[a].bp)
        /\ folder' = folder /\ up[a].bp \in Blueprint
    BY <1>1 DEF PutArchive, Keys, UploadsKept
  <2>3. FileTypes'
    BY <2>2, StoreArchiveEffect DEF Types, FileTypes
  <2>4. OtherTypes'
    BY <1>1, OthersSame DEF PutArchive
  <2> QED BY <2>1, <2>3, <2>4, TypedStep
<1>2. CASE PutFails(a)
  <2>1. Keys' /\ TableTypes'
    BY <1>2, PutFailsKind, MovesTables, SetsTables, LeavesTables
  <2>2. /\ \/ UNCHANGED <<archive, mixed>>
           \/ RemoveArchives(up[a].bp) /\ UNCHANGED mixed
           \/ StoreArchive(a, up[a].bp)
        /\ folder' = folder /\ up[a].bp \in Blueprint
    BY <1>2 DEF PutFails, Keys, UploadsKept
  <2>3. FileTypes'
    BY <2>2, StoreArchiveEffect, RemoveArchivesEffect DEF Types, FileTypes
  <2>4. OtherTypes'
    BY <1>2, OthersSame DEF PutFails
  <2> QED BY <2>1, <2>3, <2>4, TypedStep
<1>3. CASE Patches(a)
  <2>1. Keys' /\ TableTypes'
    BY <1>3, PatchesKind, MovesTables, SetsTables, LeavesTables
  <2>2. FileTypes' /\ OtherTypes'
    BY <1>3, PatchesKind, FilesSame, OthersSame
  <2> QED BY <2>1, <2>2, TypedStep
<1>4. CASE WfFetch(a)
  <2>1. Keys' /\ TableTypes'
    BY <1>4, WfFetchKind, MovesTables
  <2>2. /\ UNCHANGED <<archive, mixed>> \/ StoreArchive(a, up[a].bp)
        /\ folder' = folder /\ up[a].bp \in Blueprint
    BY <1>4, WfFetchKind, UnderWay
  <2>3. FileTypes'
    BY <2>2, StoreArchiveEffect DEF Types, FileTypes
  <2>4. OtherTypes'
    BY <1>4, OthersSame DEF WfFetch
  <2> QED BY <2>1, <2>3, <2>4, TypedStep
<1>5. CASE GivesUp(a)
  <2>1. Fail(a) /\ swept' = swept
    BY <1>5, GivesUpKind
  <2>2. Authorised(a) => up[a].bp \in Blueprint
    BY <1>5, GivesUpKind, UnderWay
  <2>3. Keys' /\ TableTypes'
    <3>1. CASE ~Authorised(a)
      BY <1>5, <3>1, GivesUpKind, LeavesTables
    <3>2. CASE Authorised(a) /\ up[a].mode = "validate"
      BY <1>5, <2>2, <3>2, GivesUpKind, RemovesTables
    <3>3. CASE Authorised(a) /\ up[a].mode # "validate"
      BY <1>5, <3>3, GivesUpKind, SetsTables
    <3> QED BY <3>1, <3>2, <3>3
  <2>4. /\ archive' = archive \/ (Authorised(a) /\ RemoveArchives(up[a].bp))
        /\ folder' = folder /\ mixed' = mixed
    BY <2>1 DEF Fail, PatchFailed
  <2>5. FileTypes'
    BY <2>2, <2>4, RemoveArchivesEffect DEF Types, FileTypes
  <2>6. excused' \subseteq Upload \X Blueprint
    BY <2>1, <2>2, ImportingType DEF Fail, Types
  <2>7. OtherTypes'
    BY <2>1, <2>6 DEF Fail, Types, OtherTypes, faults
  <2> QED BY <2>3, <2>5, <2>7, TypedStep
<1>6. CASE WfParse(a)
  <2>1. Keys' /\ TableTypes'
    BY <1>6, WfParseKind, MovesTables
  <2>2. FileTypes' /\ OtherTypes'
    BY <1>6, FilesSame, OthersSame DEF WfParse
  <2> QED BY <2>1, <2>2, TypedStep
<1>7. CASE PatchRead(a)
  <2>1. Keys' /\ TableTypes'
    BY <1>7, PatchReadKind, MovesTables, LeavesTables
  <2>2. FileTypes'
    BY <1>7, FilesSame DEF PatchRead
  <2>3. up[a].imports \in SUBSET Blueprint
    BY UpTypes
  <2>4. excused' \subseteq Upload \X Blueprint
    BY <1>7, <2>3 DEF PatchRead, Types
  <2>5. OtherTypes'
    BY <1>7, <2>4 DEF PatchRead, Types, OtherTypes, faults
  <2> QED BY <2>1, <2>2, <2>5, TypedStep
<1>8. CASE PatchExtract(a)
  <2>1. Keys' /\ TableTypes'
    BY <1>8, PatchExtractKind, MovesTables
  <2>2. up[a].bp \in Blueprint
    BY <1>8, PatchExtractKind, RealUpload
  <2>3. Exists(up[a].bp) => row[up[a].bp].up \in Upload
    BY <2>2, RowTypes
  <2>4. mixed' \subseteq Upload
    BY <1>8, <2>3 DEF PatchExtract, Types
  <2>5. /\ folder' = folder \/ folder' = [folder EXCEPT ![up[a].bp] = Moved(up[a].bp)]
        /\ archive' = archive /\ Moved(up[a].bp) \in Content
    BY <1>8, <2>2, FoundArchive DEF PatchExtract, Moved, Types
  <2>6. FileTypes'
    BY <2>4, <2>5 DEF Types, FileTypes
  <2>7. OtherTypes'
    BY <1>8, OthersSame DEF PatchExtract
  <2> QED BY <2>1, <2>6, <2>7, TypedStep
<1>9. CASE PatchExtractFails(a)
  <2>1. Keys' /\ TableTypes'
    BY <1>9, PatchExtractFailsKind, MovesTables, SetsTables
  <2>2. FileTypes' /\ OtherTypes'
    BY <1>9, FilesSame, OthersSame DEF PatchExtractFails
  <2> QED BY <2>1, <2>2, TypedStep
<1>10. CASE PatchCommit(a)
  <2>1. Keys' /\ TableTypes'
    BY <1>10, PatchCommitKind, MovesTables, SetsTables
  <2>2. FileTypes' /\ OtherTypes'
    BY <1>10, FilesSame, OthersSame DEF PatchCommit
  <2> QED BY <2>1, <2>2, TypedStep
<1>11. CASE PatchUnanswered(a)
  <2>1. Keys' /\ TableTypes'
    BY <1>11, PatchUnansweredKind, SetsTables
  <2>2. FileTypes'
    BY <1>11, FilesSame DEF PatchUnanswered
  <2>3. OtherTypes'
    BY <1>11 DEF PatchUnanswered, Rarely, OtherTypes, Types, history
  <2> QED BY <2>1, <2>2, <2>3, TypedStep
<1>12. CASE PatchRefused(a)
  <2>1. Keys' /\ TableTypes'
    BY <1>12, PatchRefusedKind, MovesTables
  <2>2. FileTypes' /\ OtherTypes'
    BY <1>12, FilesSame, OthersSame DEF PatchRefused
  <2> QED BY <2>1, <2>2, TypedStep
<1>13. CASE WfStops(a)
  <2>1. Keys' /\ TableTypes'
    BY <1>13, WfStopsKind, MovesTables, LeavesTables
  <2>2. FileTypes' /\ OtherTypes'
    BY <1>13, WfStopsKind, FilesSame, OthersSame
  <2> QED BY <2>1, <2>2, TypedStep
<1> QED BY <1>1, <1>2, <1>3, <1>4, <1>5, <1>6, <1>7, <1>8, <1>9, <1>10, <1>11, <1>12, <1>13
        DEF Workflow, Patches, GivesUp

LEMMA DeleteTyped ==
  ASSUME Typed, NEW h \in Handler,
         (\E b \in Blueprint, f \in ForceFlags : DeleteCheck(h, b, f)) \/ DeleteFiles(h) \/ DeleteRow(h)
  PROVE  Typed'
<1> USE DEF Typed
<1>1. ASSUME NEW b \in Blueprint, NEW f \in ForceFlags, DeleteCheck(h, b, f)
      PROVE  Typed'
  <2>1. UNCHANGED <<row, up, dep, unanswered>> /\ UNCHANGED files /\ Exists(b)
    BY <1>1 DEF DeleteCheck, faults
  <2>2. Keys' /\ TableTypes' /\ FileTypes'
    BY <2>1, QuietTables, FilesSame
  <2> DEFINE request(pc) == [pc |-> pc, bp |-> b, up |-> row[b].up, deps |-> Made(b),
                             checked |-> ~f /\ ~Failed(b)]
  <2>3. request("files") \in DeleteRequest /\ request("row") \in DeleteRequest
    <3>1. row[b].up \in Upload /\ Made(b) \in SUBSET Deployment /\ (~f /\ ~Failed(b)) \in BOOLEAN
      BY <2>1, RowTypes DEF Made
    <3> HIDE DEF Made, Failed
    <3> QED BY <3>1 DEF DeleteRequest
  <2>4. \/ del' = [del EXCEPT ![h] = request("files")]
        \/ del' = [del EXCEPT ![h] = request("row")]
    BY <1>1 DEF DeleteCheck
  <2>5. del' \in [Handler -> {Idle} \cup DeleteRequest]
    <3> HIDE DEF request
    <3> QED BY <2>3, <2>4 DEF Types
  <2>6. excused' \subseteq Upload \X Blueprint
    BY <1>1, ImportingType DEF DeleteCheck, Types
  <2>7. OtherTypes'
    BY <1>1, <2>5, <2>6 DEF DeleteCheck, Types, OtherTypes, faults
  <2> QED BY <2>2, <2>7, TypedStep
<1>2. CASE DeleteFiles(h)
  <2>1. UNCHANGED <<row, up, dep, unanswered>> /\ del[h].pc = "files"
    BY <1>2 DEF DeleteFiles, faults
  <2>2. Keys' /\ TableTypes'
    BY <2>1, QuietTables
  <2>3. del[h] \in DeleteRequest /\ del[h].bp \in Blueprint
    BY <2>1 DEF Types, Idle, DeleteRequest
  <2>4. Exists(del[h].bp) => row[del[h].bp].up \in Upload
    BY <2>3, RowTypes
  <2>5. FileTypes'
    BY <1>2, <2>3, <2>4, RemoveArchivesEffect DEF DeleteFiles, Types, FileTypes, Content
  <2>6. [del[h] EXCEPT !.pc = "row"] \in DeleteRequest
    BY <2>3 DEF DeleteRequest
  <2>7. del' = [del EXCEPT ![h] = [del[h] EXCEPT !.pc = "row"]]
    BY <1>2 DEF DeleteFiles, Types
  <2>8. del' \in [Handler -> {Idle} \cup DeleteRequest]
    BY <2>6, <2>7 DEF Types
  <2>9. OtherTypes'
    BY <1>2, <2>8 DEF DeleteFiles, Types, OtherTypes, faults, history
  <2> QED BY <2>2, <2>5, <2>9, TypedStep
<1>3. CASE DeleteRow(h)
  <2>1. del[h].bp \in Blueprint /\ swept' \subseteq Upload
    BY <1>3, DeleteRowKind DEF Types
  <2>2. Keys' /\ TableTypes'
    <3>1. CASE UNCHANGED <<row, up, dep, swept>>
      BY <1>3, <3>1, DeleteRowKind, QuietTables
    <3>2. CASE Removes(del[h].bp)
      BY <2>1, <3>2, RemovesTables
    <3> QED BY <1>3, <3>1, <3>2, DeleteRowKind
  <2>3. FileTypes'
    BY <1>3, FilesSame DEF DeleteRow
  <2>4. excused' \subseteq Upload \X Blueprint
    BY <1>3, <2>1, ImportingType DEF DeleteRow, Types
  <2>5. OtherTypes'
    BY <1>3, <2>1, <2>4 DEF DeleteRow, Types, OtherTypes, faults
  <2> QED BY <2>2, <2>3, <2>5, TypedStep
<1> QED BY <1>1, <1>2, <1>3

LEMMA DeploymentTyped ==
  ASSUME Typed, NEW d \in Deployment,
         (\E b \in Blueprint : CreateCheck(d, b)) \/ CreateCommit(d)
  PROVE  Typed'
<1> USE DEF Typed
<1>1. /\ UNCHANGED <<row, up, unanswered>> /\ UNCHANGED files
      /\ UNCHANGED <<del, faults, history>>
  BY DEF CreateCheck, CreateCommit, faults
<1>2. FileTypes' /\ OtherTypes'
  BY <1>1, FilesSame, OthersSame
<1>3. RowKeys' /\ UploadsKept' /\ RowsKept'
  BY <1>1 DEF Keys, RowKeys, UploadsKept, RowsKept, Exists, Uploaded
<1>4. ASSUME NEW b \in Blueprint, CreateCheck(d, b)
      PROVE  TableTypes' /\ DeploymentKeys' /\ DeploymentsKept'
  <2> DEFINE n == [bp |-> b, up |-> row[b].up, made |-> FALSE]
  <2>1. Exists(b) /\ row[b].up \in Upload /\ Active(up[row[b].up].pc)
    BY <1>4, RowTypes DEF CreateCheck, Uploaded, Keys, RowsKept
  <2>2. n \in DeploymentRow /\ n.up = row[b].up /\ ~n.made
    BY <2>1 DEF DeploymentRow
  <2>3. dep' = [dep EXCEPT ![d] = n]
    BY <1>4 DEF CreateCheck
  <2> HIDE DEF n
  <2>4. /\ dep' \in [Deployment -> {None} \cup DeploymentRow] /\ dep'[d] = n
        /\ \A e \in Deployment \ {d} : dep'[e] = dep[e]
    BY <2>2, <2>3 DEF Types
  <2>5. DeploymentKeys'
    BY <1>1, <2>2, <2>4 DEF Keys, DeploymentKeys
  <2>6. DeploymentsKept'
    BY <1>1, <2>1, <2>2, <2>4 DEF Keys, DeploymentsKept
  <2>7. TableTypes'
    BY <1>1, <2>4 DEF TableTypes, Types
  <2> QED BY <2>5, <2>6, <2>7
<1>5. CASE CreateCommit(d)
  <2>1. dep[d] # None /\ dep[d] \in DeploymentRow
    BY <1>5 DEF CreateCommit, Types
  <2> DEFINE n == [dep[d] EXCEPT !.made = TRUE]
  <2>2. n \in DeploymentRow /\ n.up = dep[d].up /\ n.bp = dep[d].bp
    BY <2>1 DEF DeploymentRow
  <2>3. /\ dep' \in [Deployment -> {None} \cup DeploymentRow]
        /\ \A e \in Deployment \ {d} : dep'[e] = dep[e]
        /\ \/ dep'[d] = None
           \/ dep'[d] = n /\ Exists(dep[d].bp) /\ row[dep[d].bp].up = dep[d].up
    <3>1. CASE Exists(dep[d].bp) /\ row[dep[d].bp].up = dep[d].up
      <4>1. dep' = [dep EXCEPT ![d] = n]
        BY <1>5, <3>1 DEF CreateCommit
      <4> HIDE DEF n
      <4> QED BY <2>2, <3>1, <4>1 DEF Types
    <3>2. CASE ~(Exists(dep[d].bp) /\ row[dep[d].bp].up = dep[d].up)
      BY <1>5, <3>2 DEF CreateCommit, Types
    <3> QED BY <3>1, <3>2
  <2> HIDE DEF n
  <2>4. DeploymentKeys'
    BY <1>1, <2>2, <2>3 DEF Keys, DeploymentKeys, Exists
  <2>5. DeploymentsKept'
    BY <1>1, <2>1, <2>2, <2>3 DEF Keys, DeploymentsKept
  <2>6. TableTypes'
    BY <1>1, <2>3 DEF TableTypes, Types
  <2> QED BY <1>2, <1>3, <2>4, <2>5, <2>6, TypedStep DEF Keys
<1> QED BY <1>2, <1>3, <1>4, <1>5, TypedStep DEF Keys

LEMMA OtherTyped ==
  ASSUME Typed, Dies \/ \E b \in Blueprint : SetIcon(b) \/ RemoveIcon(b)
  PROVE  Typed'
<1> USE DEF Typed
<1>1. CASE Dies
  <2>1. Keys' /\ TableTypes'
    <3>1. CASE UNCHANGED up
      BY <1>1, <3>1, DiesKind, QuietTables
    <3>2. CASE ~UNCHANGED up
      BY <1>1, <3>2, DiesKind, LeavesTables, MovesTables
    <3> QED BY <3>1, <3>2
  <2>2. FileTypes'
    BY <1>1, DiesKind, FilesSame
  <2>3. OtherTypes'
    <3>1. ASSUME NEW h \in Handler, DeleteDies(h)
          PROVE  OtherTypes'
      BY <3>1 DEF DeleteDies, Rarely, Types, OtherTypes, history
    <3>2. ASSUME NEW a \in Upload, UploadDies(a)
          PROVE  OtherTypes'
      BY <3>2, OthersSame DEF UploadDies
    <3> QED BY <1>1, <3>1, <3>2 DEF Dies
  <2> QED BY <2>1, <2>2, <2>3, TypedStep
<1>2. ASSUME NEW b \in Blueprint, SetIcon(b) \/ RemoveIcon(b)
      PROVE  Typed'
  <2>1. UNCHANGED <<row, up, dep, unanswered>> /\ UNCHANGED <<del, history>> /\ Rarely /\ Exists(b)
    BY <1>2 DEF SetIcon, RemoveIcon
  <2>2. Keys' /\ TableTypes' /\ OtherTypes'
    BY <2>1, QuietTables DEF Rarely, Types, OtherTypes, history
  <2>3. row[b].up \in Upload /\ mixed' = mixed \cup {row[b].up}
    BY <1>2, <2>1, RowTypes DEF SetIcon, RemoveIcon
  <2>4. folder' \in [Blueprint -> Content]
    BY <1>2 DEF SetIcon, RemoveIcon, Types, Content
  <2>5. archive' \in [Blueprint -> [ArchiveTypes -> Content]]
    <3>1. \/ archive' = archive
          \/ Present(b) # {} /\ archive' = [archive EXCEPT ![b] = Repacked(b, folder'[b])]
      BY <1>2 DEF SetIcon, RemoveIcon
    <3>2. Present(b) # {} => Repacked(b, folder'[b]) \in [ArchiveTypes -> Content]
      BY <2>4, RepackedType
    <3> QED BY <3>1, <3>2 DEF Types
  <2>6. FileTypes'
    BY <2>3, <2>4, <2>5 DEF FileTypes, Types
  <2> QED BY <2>2, <2>6, TypedStep
<1> QED BY <1>1, <1>2

LEMMA PutTyped ==
  ASSUME Typed, NEW a \in Upload, NEW b \in Blueprint, NEW mode \in Modes,
         PutReplace(a, b, mode) \/ PutRow(a, b, mode) \/ ValidateRow(a, b)
  PROVE  Typed'
<1> USE DEF Typed
<1>1. CASE PutReplace(a, b, mode)
  <2>1. Keys' /\ TableTypes' /\ swept' \subseteq Upload
    BY <1>1, PutReplaceKind, ReplacesTables
  <2>2. FileTypes'
    BY <1>1, FilesSame DEF PutReplace
  <2>3. excused' \subseteq Upload \X Blueprint
    BY <1>1, ImportingType DEF PutReplace, Types
  <2>4. OtherTypes'
    BY <1>1, <2>1, <2>3 DEF PutReplace, OtherTypes, Types, faults
  <2> QED BY <2>1, <2>2, <2>4, TypedStep
<1>2. CASE PutRow(a, b, mode)
  <2>1. Keys' /\ TableTypes'
    BY <1>2, PutRowKind, InsertsTables, LeavesTables
  <2>2. FileTypes' /\ OtherTypes'
    BY <1>2, FilesSame, OthersSame DEF PutRow
  <2> QED BY <2>1, <2>2, TypedStep
<1>3. CASE ValidateRow(a, b)
  <2>1. Keys' /\ TableTypes'
    BY <1>3, ValidateRowKind, InsertsTables DEF State
  <2>2. FileTypes' /\ OtherTypes'
    BY <1>3, FilesSame, OthersSame DEF ValidateRow
  <2> QED BY <2>1, <2>2, TypedStep
<1> QED BY <1>1, <1>2, <1>3

LEMMA NextTyped == Typed /\ [Next]_vars => Typed'
<1> SUFFICES ASSUME Typed, [Next]_vars PROVE Typed'
  OBVIOUS
<1>1. CASE UNCHANGED vars
  <2>1. UNCHANGED <<row, up, dep, unanswered>> /\ UNCHANGED files /\ UNCHANGED <<del, faults, history>>
    BY <1>1 DEF vars, files, faults, history
  <2> QED BY <2>1, QuietTables, FilesSame, OthersSame, TypedStep DEF Typed
<1>2. ASSUME NEW a \in Upload,
             \/ \E b \in Blueprint, m \in Modes : PutReplace(a, b, m) \/ PutRow(a, b, m)
             \/ \E b \in Blueprint : ValidateRow(a, b)
      PROVE  Typed'
  BY <1>2, PutTyped DEF ValidateRow
<1> QED BY <1>1, <1>2, UploadTyped, DeleteTyped, DeploymentTyped, OtherTyped DEF Next, Dies

\* Every variable has its type and the foreign keys hold: the row of a blueprint
\* names an upload of that blueprint, and a deployment a row that is there.
THEOREM TypeCorrect == Spec => []TypeOK
<1>1. Spec => []Typed
  BY InitTyped, NextTyped, PTL DEF Spec
<1> QED BY <1>1, TypedImpliesTypeOK, PTL

-----------------------------------------------------------------------------
(* What each kind of step leaves alone. *)

\* The row of b and the upload that made it are as they were.
Same(b) == Exists(b) /\ row'[b] = row[b] /\ up'[row[b].up] = up[row[b].up]

LEMMA MovesFrame ==
  ASSUME Typed, NEW a \in Upload, NEW pc, NEW l, NEW i, Moves(a, pc, l, i),
         NEW b \in Blueprint, row'[b] # None
  PROVE  /\ row' = row /\ Exists(b)
         /\ \/ Same(b) /\ row[b].up # a
            \/ /\ row[b].up = a /\ b = up[a].bp /\ Authorised(a)
               /\ up'[a].pc = pc /\ up'[a].mode = up[a].mode
               /\ up'[a].local = l /\ up'[a].imports = i
<1>1. row' = row /\ Exists(b)
  BY DEF Moves, Exists
<1>2. row[b].up \in Upload
  BY <1>1, RowTypes DEF Typed
<1>3. CASE row[b].up = a
  BY <1>1, <1>3, OneRow, NowFields DEF Moves, Becomes
<1>4. CASE row[b].up # a
  BY <1>1, <1>2, <1>4 DEF Moves, Becomes, Same
<1> QED BY <1>1, <1>3, <1>4

LEMMA SetsFrame ==
  ASSUME Typed, NEW a \in Upload, NEW pc, NEW l, NEW i, NEW st, NEW plan,
         Sets(a, pc, l, i, st, plan), NEW b \in Blueprint, row'[b] # None
  PROVE  /\ Exists(b)
         /\ \/ Same(b) /\ row[b].up # a
            \/ /\ row[b].up = a /\ b = up[a].bp
               /\ row'[b].up = a /\ row'[b].st = st /\ row'[b].plan = plan
               /\ up'[a].pc = pc /\ up'[a].mode = up[a].mode
               /\ up'[a].local = l /\ up'[a].imports = i
<1>1. up[a].bp \in Blueprint /\ Exists(up[a].bp) /\ row[up[a].bp].up = a
  BY UnderWay DEF Sets, Onward
<1>2. CASE b = up[a].bp
  BY <1>1, <1>2, NowFields DEF Sets, RowSets, Becomes
<1>3. CASE b # up[a].bp
  <2>1. Exists(b) /\ row'[b] = row[b]
    BY <1>3 DEF Sets, RowSets, RowBecomes, Exists
  <2>2. row[b].up \in Upload \ {a}
    BY <1>3, <2>1, RowTypes, OneRow DEF Typed
  <2> QED BY <2>1, <2>2 DEF Sets, Becomes, Same
<1> QED BY <1>2, <1>3

LEMMA LeavesFrame ==
  ASSUME Typed, NEW a \in Upload, Leaves(a), NEW b \in Blueprint, row'[b] # None
  PROVE  row' = row /\ Same(b)
<1>1. row' = row /\ Exists(b)
  BY DEF Leaves, Exists
<1>2. row[b].up \in Upload \ {a}
  BY <1>1, RowTypes, OneRow DEF Typed, Leaves
<1> QED BY <1>1, <1>2 DEF Leaves, Becomes, Same

LEMMA InsertsFrame ==
  ASSUME Typed, NEW a \in Upload, NEW c \in Blueprint, NEW mode, NEW st,
         Inserts(a, c, mode, st), NEW b \in Blueprint, row'[b] # None
  PROVE  \/ Same(b) /\ row[b].up # a /\ b # c
         \/ /\ b = c /\ ~Exists(b) /\ row'[b].up = a /\ row'[b].st = st
            /\ up'[a].pc = "stored" /\ up'[a].mode = mode
<1>1. CASE b = c
  BY <1>1 DEF Inserts, Becomes, RowBecomes
<1>2. CASE b # c
  <2>1. Exists(b) /\ row'[b] = row[b]
    BY <1>2 DEF Inserts, RowBecomes, Exists
  <2>2. row[b].up \in Upload \ {a}
    BY <2>1, RowTypes, OneRow DEF Typed, Inserts, Active
  <2> QED BY <1>2, <2>1, <2>2 DEF Inserts, Becomes, Same
<1> QED BY <1>1, <1>2

LEMMA ReplacesFrame ==
  ASSUME Typed, NEW a \in Upload, NEW c \in Blueprint, NEW mode,
         Replaces(a, c, mode), NEW b \in Blueprint, row'[b] # None
  PROVE  Same(b) /\ b # c /\ row[b].up # a
<1>1. b # c /\ row'[b] = row[b] /\ row[b].up \in Upload /\ row[b].up # row[c].up
  BY DropsKeys DEF Replaces
<1>2. Exists(b)
  BY <1>1 DEF Exists
<1>3. row[b].up # a
  BY <1>1, <1>2, OneRow DEF Replaces, Active
<1> QED BY <1>1, <1>2, <1>3 DEF Replaces, Same

LEMMA RemovesFrame ==
  ASSUME Typed, NEW c \in Blueprint, Removes(c), NEW b \in Blueprint, row'[b] # None
  PROVE  Same(b) /\ b # c
<1>1. b # c /\ row'[b] = row[b] /\ row[b].up \in Upload /\ row[b].up # row[c].up
  BY DropsKeys DEF Removes
<1> QED BY <1>1 DEF Removes, Forgets, Same, Exists

-----------------------------------------------------------------------------
(* Uploads that end. *)

\* The upload of b did not end half way.
Settles(b) ==
  up'[row'[b].up].pc = "done" => row'[b].st \in {"uploaded", "failed", "validating"}

LEMMA SameSettles ==
  ASSUME Typed, NoHalfUploads, NEW b \in Blueprint, Same(b)
  PROVE  Settles(b)
  BY DEF NoHalfUploads, Same, Settles

LEMMA HalfStep == Typed /\ NoHalfUploads /\ [Next]_vars => NoHalfUploads'
<1> SUFFICES ASSUME Typed, NoHalfUploads, [Next]_vars, NEW b \in Blueprint, row'[b] # None
             PROVE  Settles(b)
  BY DEF NoHalfUploads, Exists, Settles
<1>1. Same(b) => Settles(b)
  BY SameSettles
<1>2. CASE UNCHANGED <<row, up>>
  BY <1>1, <1>2 DEF Same, Exists
<1>3. ASSUME NEW a \in Upload, NEW pc, NEW l, NEW i, Moves(a, pc, l, i),
             pc # "done" \/ up[a].mode = "validate"
      PROVE  Settles(b)
  <2>1. CASE Same(b)
    BY <1>1, <2>1
  <2>2. CASE ~Same(b)
    <3>1. row' = row /\ Exists(b) /\ row[b].up = a /\ up'[a].pc = pc
      BY <1>3, <2>2, MovesFrame
    <3>2. up[a].mode = "validate" => row[b].st = "validating"
      BY <3>1 DEF Typed, Keys, RowsKept
    <3> QED BY <1>3, <3>1, <3>2 DEF Settles
  <2> QED BY <2>1, <2>2
<1>4. ASSUME NEW a \in Upload, NEW pc, NEW l, NEW i, NEW st, NEW plan,
             Sets(a, pc, l, i, st, plan), pc # "done" \/ st \in {"uploaded", "failed"}
      PROVE  Settles(b)
  BY <1>1, <1>4, SetsFrame DEF Settles
<1>5. ASSUME NEW a \in Upload, Leaves(a)
      PROVE  Settles(b)
  BY <1>1, <1>5, LeavesFrame
<1>6. ASSUME NEW a \in Upload, NEW c \in Blueprint, NEW mode, NEW st, Inserts(a, c, mode, st)
      PROVE  Settles(b)
  BY <1>1, <1>6, InsertsFrame DEF Settles
<1>7. ASSUME NEW a \in Upload, NEW c \in Blueprint, NEW mode, Replaces(a, c, mode)
      PROVE  Settles(b)
  BY <1>1, <1>7, ReplacesFrame
<1>8. ASSUME NEW c \in Blueprint, Removes(c)
      PROVE  Settles(b)
  BY <1>1, <1>8, RemovesFrame
<1>9. ASSUME NEW a \in Upload,
             \/ \E c \in Blueprint, m \in Modes : PutReplace(a, c, m) \/ PutRow(a, c, m)
             \/ \E c \in Blueprint : ValidateRow(a, c)
             \/ PutArchive(a) \/ PutFails(a)
      PROVE  Settles(b)
  <2>1. ASSUME NEW c \in Blueprint, NEW m \in Modes, PutReplace(a, c, m)
        PROVE  Settles(b)
    BY <1>7, <2>1, PutReplaceKind
  <2>2. ASSUME NEW c \in Blueprint, NEW m \in Modes, PutRow(a, c, m)
        PROVE  Settles(b)
    BY <1>5, <1>6, <2>2, PutRowKind
  <2>3. ASSUME NEW c \in Blueprint, ValidateRow(a, c)
        PROVE  Settles(b)
    BY <1>6, <2>3, ValidateRowKind
  <2>4. CASE PutArchive(a)
    BY <1>3, <2>4, PutArchiveKind
  <2>5. CASE PutFails(a)
    BY <1>3, <1>4, <1>5, <2>5, PutFailsKind
  <2> QED BY <1>9, <2>1, <2>2, <2>3, <2>4, <2>5
<1>10. ASSUME NEW a \in Upload, Workflow(a)
       PROVE  Settles(b)
  <2>1. CASE Patches(a)
    <3>1. Reached(a) # "done"
      BY <2>1, PatchesKind
    <3> QED BY <1>3, <1>4, <1>5, <2>1, <3>1, PatchesKind
  <2>2. CASE WfFetch(a)
    BY <1>3, <2>2, WfFetchKind
  <2>3. CASE GivesUp(a)
    <3>1. CASE ~Authorised(a)
      BY <1>5, <2>3, <3>1, GivesUpKind
    <3>2. CASE Authorised(a) /\ up[a].mode = "validate"
      BY <1>8, <2>3, <3>2, GivesUpKind, UnderWay
    <3>3. CASE Authorised(a) /\ up[a].mode # "validate"
      BY <1>4, <2>3, <3>3, GivesUpKind
    <3> QED BY <3>1, <3>2, <3>3
  <2>4. CASE WfParse(a)
    BY <1>3, <2>4, WfParseKind
  <2>5. CASE PatchRead(a)
    BY <1>3, <1>5, <2>5, PatchReadKind
  <2>6. CASE PatchExtract(a)
    BY <1>3, <2>6, PatchExtractKind
  <2>7. CASE PatchExtractFails(a)
    BY <1>3, <1>4, <2>7, PatchExtractFailsKind
  <2>8. CASE PatchCommit(a)
    BY <1>3, <1>4, <2>8, PatchCommitKind
  <2>9. CASE PatchUnanswered(a)
    BY <1>4, <2>9, PatchUnansweredKind
  <2>10. CASE PatchRefused(a)
    BY <1>3, <2>10, PatchRefusedKind
  <2>11. CASE WfStops(a)
    BY <1>3, <1>5, <2>11, WfStopsKind
  <2> QED BY <1>10, <2>1, <2>2, <2>3, <2>4, <2>5, <2>6, <2>7, <2>8, <2>9, <2>10, <2>11
          DEF Workflow, Patches, GivesUp
<1>11. ASSUME NEW h \in Handler, DeleteRow(h)
       PROVE  Settles(b)
  BY <1>2, <1>8, <1>11, DeleteRowKind
<1>12. CASE Dies
  <2>1. UNCHANGED row
    BY <1>12, DiesKind
  <2>2. CASE UNCHANGED up
    BY <1>2, <2>1, <2>2
  <2>3. ASSUME NEW a \in Upload, \/ Leaves(a)
                                 \/ Moves(a, "stopped", up[a].local, up[a].imports)
        PROVE  Settles(b)
    BY <1>3, <1>5, <2>3
  <2> QED BY <1>12, <2>2, <2>3, DiesKind
<1>13. CASE \/ UNCHANGED vars
            \/ \E h \in Handler : (\E c \in Blueprint, f \in ForceFlags : DeleteCheck(h, c, f)) \/ DeleteFiles(h)
            \/ \E c \in Blueprint : SetIcon(c) \/ RemoveIcon(c)
            \/ \E d \in Deployment : (\E c \in Blueprint : CreateCheck(d, c)) \/ CreateCommit(d)
  <2>1. UNCHANGED <<row, up>>
    BY <1>13 DEF vars, DeleteCheck, DeleteFiles, SetIcon, RemoveIcon, CreateCheck, CreateCommit
  <2> QED BY <1>2, <2>1
<1> QED BY <1>9, <1>10, <1>11, <1>12, <1>13 DEF Next, Dies

\* An upload that ended left its blueprint uploaded, failed or deleted, unless it
\* was a validation whose archive was refused: a PUT request that fails, and every
\* error that the workflow catches, PATCHes the row.  An upload that stops, because
\* a process dies or by an error outside of any try, did not end.
THEOREM UploadsSettle == Spec => []NoHalfUploads
<1>1. Init => NoHalfUploads
  BY DEF Init, NoHalfUploads, Exists
<1>2. Spec => []Typed
  BY InitTyped, NextTyped, PTL DEF Spec
<1> QED BY <1>1, <1>2, HalfStep, PTL DEF Spec

-----------------------------------------------------------------------------
(* Deployments that go with their blueprint. *)

\* A row that has a deployment was uploaded, and still is unless the answer was
\* lost.
DeployedUploaded ==
  \A d \in Deployment : dep[d] # None /\ Exists(dep[d].bp) /\ row[dep[d].bp].up = dep[d].up =>
    row[dep[d].bp].st = "uploaded" \/ dep[d].up \in unanswered

\* A delete that has seen deployments is of such a row.
DeletesSee == \A h \in Handler : del[h] # Idle /\ del[h].deps # {} => del[h].up \in unanswered

Deployed == DeployedUploaded /\ DeletesSee /\ NoDeploymentSwept

\* Deployment d fits its row after the step.
Fits(d) ==
  dep'[d] # None /\ row'[dep'[d].bp] # None /\ row'[dep'[d].bp].up = dep'[d].up =>
    row'[dep'[d].bp].st = "uploaded" \/ dep'[d].up \in unanswered'

LEMMA SameFits ==
  ASSUME Typed, DeployedUploaded, NEW d \in Deployment, dep'[d] # None => dep'[d] = dep[d],
         row'[dep'[d].bp] # None => row'[dep'[d].bp] = row[dep'[d].bp],
         unanswered \subseteq unanswered'
  PROVE  Fits(d)
  BY DEF DeployedUploaded, Fits, Exists

LEMMA DeploymentRows ==
  ASSUME Typed, NEW d \in Deployment, dep[d] # None
  PROVE  dep[d].bp \in Blueprint /\ dep[d].up \in Upload
  BY DEF Typed, Types, DeploymentRow

LEMMA SetsFits ==
  ASSUME Typed, DeployedUploaded, NEW a \in Upload, NEW pc, NEW l, NEW i, NEW st, NEW plan,
         Sets(a, pc, l, i, st, plan), NEW d \in Deployment
  PROVE  Fits(d)
<1> SUFFICES ASSUME dep'[d] # None, row'[dep'[d].bp] # None, row'[dep'[d].bp].up = dep'[d].up
             PROVE  row'[dep'[d].bp].st = "uploaded" \/ dep'[d].up \in unanswered'
  BY DEF Fits
<1>1. dep' = dep /\ unanswered \subseteq unanswered'
  BY DEF Sets
<1>2. dep[d].bp \in Blueprint
  BY <1>1, DeploymentRows
<1> DEFINE b == dep[d].bp
<1>3. Exists(b)
  BY <1>1, <1>2, SetsFrame
<1>4. CASE Same(b)
  BY <1>1, <1>4, SameFits DEF Same, Fits
<1>5. CASE ~Same(b)
  <2>1. row[b].up = a /\ b = up[a].bp /\ row'[b].up = a
    BY <1>1, <1>2, <1>5, SetsFrame
  <2>2. row[b].st = "uploaded" \/ a \in unanswered
    BY <1>1, <1>3, <2>1 DEF DeployedUploaded
  <2>3. ~Uploaded(b) \/ a \in unanswered
    BY <2>1, UnderWay DEF Sets, Onward
  <2> QED BY <1>1, <1>3, <2>1, <2>2, <2>3 DEF Uploaded
<1> QED BY <1>4, <1>5

LEMMA InsertsFits ==
  ASSUME Typed, DeployedUploaded, NEW a \in Upload, NEW c \in Blueprint, NEW mode, NEW st,
         Inserts(a, c, mode, st), NEW d \in Deployment
  PROVE  Fits(d)
<1> SUFFICES ASSUME dep'[d] # None, row'[dep'[d].bp] # None, row'[dep'[d].bp].up = dep'[d].up
             PROVE  row'[dep'[d].bp].st = "uploaded" \/ dep'[d].up \in unanswered'
  BY DEF Fits
<1>1. dep' = dep /\ unanswered' = unanswered /\ ~Active(up[a].pc)
  BY DEF Inserts, Active
<1>2. dep[d].bp \in Blueprint
  BY <1>1, DeploymentRows
<1>3. dep[d].up # a
  BY <1>1 DEF Typed, Keys, DeploymentsKept
<1>4. Same(dep[d].bp)
  BY <1>1, <1>2, <1>3, InsertsFrame
<1> QED BY <1>1, <1>4, SameFits DEF Same, Fits

LEMMA DropsFits ==
  ASSUME Typed, DeployedUploaded, NEW c \in Blueprint, Exists(c), Drops(c),
         UNCHANGED unanswered, NEW d \in Deployment
  PROVE  Fits(d)
<1>1. dep'[d] # None => dep'[d] = dep[d] /\ dep[d].bp \in Blueprint
  BY DropsKeys, DeploymentRows
<1>2. dep'[d] # None /\ row'[dep'[d].bp] # None => row'[dep'[d].bp] = row[dep'[d].bp]
  BY <1>1, DropsKeys
<1> QED BY <1>1, <1>2, SameFits DEF Fits

LEMMA KeptFits ==
  ASSUME Typed, DeployedUploaded, UNCHANGED <<row, dep, unanswered>>, NEW d \in Deployment
  PROVE  Fits(d)
  BY SameFits

\* What each kind of step means for deployments.
LEMMA KindFits ==
  ASSUME Typed, DeployedUploaded, NEW d \in Deployment
  PROVE  /\ \A a \in Upload : Leaves(a) => Fits(d)
         /\ \A a \in Upload : \A pc, l, i : Moves(a, pc, l, i) => Fits(d)
         /\ \A a \in Upload : \A pc, l, i, st, plan : Sets(a, pc, l, i, st, plan) => Fits(d)
         /\ \A a \in Upload, c \in Blueprint : \A mode, st : Inserts(a, c, mode, st) => Fits(d)
         /\ \A a \in Upload, c \in Blueprint : \A mode : Replaces(a, c, mode) => Fits(d)
         /\ \A c \in Blueprint : Removes(c) => Fits(d)
<1>1. \A a \in Upload : Leaves(a) => Fits(d)
  BY KeptFits DEF Leaves
<1>2. \A a \in Upload : \A pc, l, i : Moves(a, pc, l, i) => Fits(d)
  BY KeptFits DEF Moves
<1>3. \A a \in Upload : \A pc, l, i, st, plan : Sets(a, pc, l, i, st, plan) => Fits(d)
  BY SetsFits
<1>4. \A a \in Upload, c \in Blueprint : \A mode, st : Inserts(a, c, mode, st) => Fits(d)
  BY InsertsFits
<1>5. \A a \in Upload, c \in Blueprint : \A mode : Replaces(a, c, mode) => Fits(d)
  BY DropsFits DEF Replaces
<1>6. \A c \in Blueprint : Removes(c) => Fits(d)
  BY DropsFits DEF Removes
<1> QED BY <1>1, <1>2, <1>3, <1>4, <1>5, <1>6

\* The steps of Next by the tables they touch: the ones that create deployments,
\* and the ones of one of the kinds above.
Kinds ==
  \/ \E a \in Upload :
       \/ Leaves(a)
       \/ \E pc, l, i : Moves(a, pc, l, i)
       \/ \E pc, l, i, st, plan : Sets(a, pc, l, i, st, plan)
       \/ \E c \in Blueprint, mode \in Modes : \/ Replaces(a, c, mode)
                                               \/ \E st \in State : Inserts(a, c, mode, st)
  \/ \E c \in Blueprint : Removes(c)
  \/ UNCHANGED <<row, up, dep, unanswered>>

LEMMA WorkflowKinds ==
  ASSUME Typed, NEW a \in Upload, Workflow(a)
  PROVE  Kinds
<1>1. CASE Patches(a)
  BY <1>1, PatchesKind DEF Kinds
<1>2. CASE WfFetch(a)
  BY <1>2, WfFetchKind DEF Kinds
<1>3. CASE GivesUp(a)
  <2>1. CASE ~Authorised(a)
    BY <1>3, <2>1, GivesUpKind DEF Kinds
  <2>2. CASE Authorised(a) /\ up[a].mode = "validate"
    BY <1>3, <2>2, GivesUpKind, UnderWay DEF Kinds
  <2>3. CASE Authorised(a) /\ up[a].mode # "validate"
    BY <1>3, <2>3, GivesUpKind DEF Kinds
  <2> QED BY <2>1, <2>2, <2>3
<1>4. CASE WfParse(a)
  BY <1>4, WfParseKind DEF Kinds
<1>5. CASE PatchRead(a)
  BY <1>5, PatchReadKind DEF Kinds
<1>6. CASE PatchExtract(a)
  BY <1>6, PatchExtractKind DEF Kinds
<1>7. CASE PatchExtractFails(a)
  BY <1>7, PatchExtractFailsKind DEF Kinds
<1>8. CASE PatchCommit(a)
  BY <1>8, PatchCommitKind DEF Kinds
<1>9. CASE PatchUnanswered(a)
  BY <1>9, PatchUnansweredKind DEF Kinds
<1>10. CASE PatchRefused(a)
  BY <1>10, PatchRefusedKind DEF Kinds
<1>11. CASE WfStops(a)
  BY <1>11, WfStopsKind DEF Kinds
<1> QED BY <1>1, <1>2, <1>3, <1>4, <1>5, <1>6, <1>7, <1>8, <1>9, <1>10, <1>11
        DEF Workflow, Patches, GivesUp

LEMMA StepKinds ==
  ASSUME Typed, [Next]_vars
  PROVE  Kinds \/ \E d \in Deployment : (\E b \in Blueprint : CreateCheck(d, b)) \/ CreateCommit(d)
<1>1. ASSUME NEW a \in Upload, NEW b \in Blueprint, NEW m \in Modes, PutReplace(a, b, m) \/ PutRow(a, b, m)
      PROVE  Kinds
  BY <1>1, PutReplaceKind, PutRowKind DEF Kinds
<1>2. ASSUME NEW a \in Upload, NEW b \in Blueprint, ValidateRow(a, b)
      PROVE  Kinds
  BY <1>2, ValidateRowKind DEF Kinds, Inserts, State
<1>3. ASSUME NEW a \in Upload, PutArchive(a) \/ PutFails(a)
      PROVE  Kinds
  BY <1>3, PutArchiveKind, PutFailsKind DEF Kinds
<1>4. CASE Dies
  BY <1>4, DiesKind DEF Kinds
<1>5. ASSUME NEW h \in Handler, DeleteRow(h)
      PROVE  Kinds
  BY <1>5, DeleteRowKind DEF Kinds
<1>6. CASE \/ UNCHANGED vars
           \/ \E h \in Handler : (\E c \in Blueprint, f \in ForceFlags : DeleteCheck(h, c, f)) \/ DeleteFiles(h)
           \/ \E c \in Blueprint : SetIcon(c) \/ RemoveIcon(c)
  <2>1. UNCHANGED <<row, up, dep, unanswered>>
    BY <1>6 DEF vars, DeleteCheck, DeleteFiles, SetIcon, RemoveIcon, faults
  <2> QED BY <2>1 DEF Kinds
<1> QED BY <1>1, <1>2, <1>3, <1>4, <1>5, <1>6, WorkflowKinds DEF Next, Dies

LEMMA DeployedUploadedStep ==
  ASSUME Typed, DeployedUploaded, [Next]_vars
  PROVE  DeployedUploaded'
<1> SUFFICES ASSUME NEW d \in Deployment PROVE Fits(d)
  BY DEF DeployedUploaded, Fits, Exists
<1>1. CASE Kinds
  <2>1. CASE UNCHANGED <<row, up, dep, unanswered>>
    BY <2>1, KeptFits
  <2>2. CASE ~UNCHANGED <<row, up, dep, unanswered>>
    BY <1>1, <2>2, KindFits DEF Kinds
  <2> QED BY <2>1, <2>2
<1>2. ASSUME NEW e \in Deployment, NEW b \in Blueprint, CreateCheck(e, b)
      PROVE  Fits(d)
  <2>1. UNCHANGED <<row, unanswered>> /\ row[b].st = "uploaded"
    BY <1>2 DEF CreateCheck, faults, Uploaded
  <2>2. CASE d = e
    BY <1>2, <2>1, <2>2 DEF CreateCheck, Fits, Typed, Types
  <2>3. CASE d # e
    <3>1. dep'[d] = dep[d]
      BY <1>2, <2>3 DEF CreateCheck, Typed, Types
    <3> QED BY <2>1, <3>1, SameFits
  <2> QED BY <2>2, <2>3
<1>3. ASSUME NEW e \in Deployment, CreateCommit(e)
      PROVE  Fits(d)
  <2>1. UNCHANGED <<row, unanswered>> /\ dep[e] # None
    BY <1>3 DEF CreateCommit, faults
  <2>2. CASE d = e
    <3>1. dep[e] \in DeploymentRow
      BY <2>1 DEF Typed, Types
    <3>2. dep'[d] = None \/ (dep'[d] = [dep[e] EXCEPT !.made = TRUE])
      BY <1>3, <2>2 DEF CreateCommit, Typed, Types
    <3>3. dep'[d] # None => dep'[d].bp = dep[e].bp /\ dep'[d].up = dep[e].up
      BY <3>1, <3>2 DEF DeploymentRow
    <3> QED BY <2>1, <2>2, <3>3 DEF Fits, DeployedUploaded, Exists
  <2>3. CASE d # e
    <3>1. dep'[d] = dep[d]
      BY <1>3, <2>3 DEF CreateCommit, Typed, Types
    <3> QED BY <2>1, <3>1, SameFits
  <2> QED BY <2>2, <2>3
<1> QED BY <1>1, <1>2, <1>3, StepKinds

\* Which steps change what is known of deletes and of swept deployments.
LEMMA Bookkeeping ==
  ASSUME Typed, [Next]_vars
  PROVE  /\ unanswered \subseteq unanswered'
         /\ \/ UNCHANGED del
            \/ \E h \in Handler : \/ \E b \in Blueprint, f \in ForceFlags : DeleteCheck(h, b, f)
                                  \/ DeleteFiles(h) \/ DeleteRow(h)
                                  \/ del' = [del EXCEPT ![h] = Idle] /\ UNCHANGED <<row, up, excused>>
         /\ \/ UNCHANGED swept
            \/ \E a \in Upload, b \in Blueprint, m \in Modes : PutReplace(a, b, m)
            \/ \E h \in Handler : DeleteRow(h)
<1>1. CASE UNCHANGED vars
  BY <1>1 DEF vars
<1>2. CASE Dies
  <2>1. \/ UNCHANGED del
        \/ \E h \in Handler : del' = [del EXCEPT ![h] = Idle] /\ UNCHANGED <<row, up, excused>>
    BY <1>2 DEF Dies, UploadDies, DeleteDies, history
  <2>2. UNCHANGED swept /\ unanswered' = unanswered
    BY <1>2, DiesKind DEF history
  <2> QED BY <2>1, <2>2
<1>3. ASSUME NEW h \in Handler, \/ \E b \in Blueprint, f \in ForceFlags : DeleteCheck(h, b, f)
                                \/ DeleteFiles(h) \/ DeleteRow(h)
      PROVE  unanswered' = unanswered /\ (UNCHANGED swept \/ DeleteRow(h))
  BY <1>3 DEF DeleteCheck, DeleteFiles, DeleteRow, faults, history
<1>4. CASE \E b \in Blueprint : SetIcon(b) \/ RemoveIcon(b)
  BY <1>4 DEF SetIcon, RemoveIcon, faults, history
<1>5. CASE \E d \in Deployment : (\E b \in Blueprint : CreateCheck(d, b)) \/ CreateCommit(d)
  BY <1>5, SMTT(30) DEF CreateCheck, CreateCommit, faults, history
<1>6. ASSUME NEW a \in Upload,
             \/ \E b \in Blueprint, m \in Modes : PutReplace(a, b, m) \/ PutRow(a, b, m)
             \/ \E b \in Blueprint : ValidateRow(a, b)
             \/ PutArchive(a) \/ PutFails(a)
      PROVE  /\ unanswered' = unanswered /\ UNCHANGED del
             /\ UNCHANGED swept \/ \E b \in Blueprint, m \in Modes : PutReplace(a, b, m)
  BY <1>6 DEF PutReplace, PutRow, ValidateRow, PutArchive, PutFails, faults, history
<1>7. ASSUME NEW a \in Upload, Workflow(a)
      PROVE  unanswered \subseteq unanswered' /\ UNCHANGED <<del, swept>>
  <2>1. CASE Patches(a)
    BY <2>1, PatchesKind DEF faults, history
  <2>2. CASE GivesUp(a)
    BY <2>2, GivesUpKind DEF Fail, faults
  <2>3. CASE WfFetch(a) \/ WfParse(a) \/ PatchRead(a) \/ PatchExtract(a) \/ PatchExtractFails(a)
    BY <2>3 DEF WfFetch, WfParse, PatchRead, PatchExtract, PatchExtractFails, faults, history
  <2>4. CASE PatchCommit(a) \/ PatchUnanswered(a) \/ PatchRefused(a) \/ WfStops(a)
    BY <2>4 DEF PatchCommit, PatchUnanswered, PatchRefused, WfStops, faults, history
  <2> QED BY <1>7, <2>1, <2>2, <2>3, <2>4 DEF Workflow, Patches, GivesUp
<1> QED BY <1>1, <1>2, <1>3, <1>4, <1>5, <1>6, <1>7 DEF Next, Dies

LEMMA IdleNotRequest == Idle \notin DeleteRequest
  BY DEF Idle, DeleteRequest

\* The request that a delete starts with.
LEMMA DeleteCheckEffect ==
  ASSUME Typed, NEW h \in Handler, NEW b \in Blueprint, NEW f \in ForceFlags, DeleteCheck(h, b, f)
  PROVE  /\ \A g \in Handler \ {h} : del'[g] = del[g]
         /\ del'[h].bp = b /\ del'[h].up = row[b].up /\ del'[h].deps = Made(b)
         /\ del'[h].checked <=> ~f /\ ~Failed(b)
         /\ Exists(b) /\ (Failed(b) \/ Made(b) = {})
         /\ del'[h].checked => Importers(b) = {}
         /\ UNCHANGED <<row, up>>
<1> DEFINE request(pc) == [pc |-> pc, bp |-> b, up |-> row[b].up, deps |-> Made(b),
                           checked |-> ~f /\ ~Failed(b)]
<1>1. \/ Failed(b) /\ del' = [del EXCEPT ![h] = request("row")]
      \/ /\ ~Failed(b) /\ (f \/ Importers(b) = {}) /\ Made(b) = {}
         /\ del' = [del EXCEPT ![h] = request("files")]
  BY DEF DeleteCheck
<1>2. ASSUME NEW pc
      PROVE  /\ request(pc).bp = b /\ request(pc).up = row[b].up /\ request(pc).deps = Made(b)
             /\ request(pc).checked <=> ~f /\ ~Failed(b)
  OBVIOUS
<1>3. Exists(b) /\ UNCHANGED <<row, up>>
  BY DEF DeleteCheck
<1> HIDE DEF request
<1>4. del \in [Handler -> {Idle} \cup DeleteRequest]
  BY DEF Typed, Types
<1>5. \E pc : del'[h] = request(pc) /\ \A g \in Handler \ {h} : del'[g] = del[g]
  BY <1>1, <1>4
<1> QED BY <1>1, <1>2, <1>3, <1>5

LEMMA DeleteFilesEffect ==
  ASSUME Typed, NEW h \in Handler, DeleteFiles(h)
  PROVE  /\ \A g \in Handler \ {h} : del'[g] = del[g]
         /\ del[h] # Idle /\ del[h].bp \in Blueprint
         /\ del'[h].bp = del[h].bp /\ del'[h].up = del[h].up
         /\ del'[h].deps = del[h].deps /\ del'[h].checked = del[h].checked
<1>1. del[h].pc = "files" /\ del' = [del EXCEPT ![h].pc = "row"]
  BY DEF DeleteFiles
<1>2. del \in [Handler -> {Idle} \cup DeleteRequest]
  BY DEF Typed, Types
<1>3. del[h] \in DeleteRequest /\ del[h] # Idle /\ del[h].bp \in Blueprint
  BY <1>1, <1>2 DEF Idle, DeleteRequest
<1>4. del'[h] = [del[h] EXCEPT !.pc = "row"] /\ \A g \in Handler \ {h} : del'[g] = del[g]
  BY <1>1, <1>2
<1> QED BY <1>3, <1>4 DEF DeleteRequest

LEMMA DeletesSeeStep ==
  ASSUME Typed, DeployedUploaded, DeletesSee, [Next]_vars
  PROVE  DeletesSee'
<1> SUFFICES ASSUME NEW g \in Handler, del'[g] # Idle, del'[g].deps # {}
             PROVE  del'[g].up \in unanswered'
  BY DEF DeletesSee
<1>0. unanswered \subseteq unanswered'
  BY Bookkeeping
<1>1. CASE del'[g] = del[g]
  BY <1>0, <1>1 DEF DeletesSee
<1>2. ASSUME NEW h \in Handler, NEW b \in Blueprint, NEW f \in ForceFlags, DeleteCheck(h, b, f)
      PROVE  del'[g].up \in unanswered'
  <2>1. CASE g = h
    <3>1. PICK d \in Deployment : d \in Made(b)
      BY <1>2, <2>1, DeleteCheckEffect DEF Made
    <3>2. Failed(b) /\ dep[d] # None /\ dep[d].bp = b /\ dep[d].up = row[b].up
      BY <1>2, <3>1, DeleteCheckEffect DEF Made
    <3>3. row[b].up \in unanswered
      BY <3>2 DEF DeployedUploaded, Failed
    <3> QED BY <1>0, <1>2, <2>1, <3>3, DeleteCheckEffect
  <2>2. CASE g # h
    BY <1>1, <1>2, <2>2, DeleteCheckEffect
  <2> QED BY <2>1, <2>2
<1>3. ASSUME NEW h \in Handler, DeleteFiles(h)
      PROVE  del'[g].up \in unanswered'
  BY <1>0, <1>1, <1>3, DeleteFilesEffect DEF DeletesSee
<1>4. ASSUME NEW h \in Handler, del' = [del EXCEPT ![h] = Idle]
      PROVE  del'[g].up \in unanswered'
  BY <1>1, <1>4 DEF Typed, Types
<1> QED BY <1>1, <1>2, <1>3, <1>4, Bookkeeping DEF DeleteRow

LEMMA SweptStep ==
  ASSUME Typed, Deployed, [Next]_vars
  PROVE  NoDeploymentSwept'
<1>0. unanswered \subseteq unanswered' /\ swept \subseteq unanswered
  BY Bookkeeping DEF Deployed, NoDeploymentSwept
<1>1. CASE UNCHANGED swept
  BY <1>0, <1>1 DEF NoDeploymentSwept
<1>2. ASSUME NEW a \in Upload, NEW b \in Blueprint, NEW m \in Modes, PutReplace(a, b, m)
      PROVE  swept' \subseteq unanswered'
  <2>1. /\ Failed(b)
        /\ swept' = IF Made(b) # {} THEN swept \cup {row[b].up} ELSE swept
    BY <1>2, PutReplaceKind
  <2>2. ASSUME NEW d \in Made(b)
        PROVE  row[b].up \in unanswered
    BY <2>1, <2>2 DEF Made, Deployed, DeployedUploaded, Failed
  <2> QED BY <1>0, <2>1, <2>2
<1>3. ASSUME NEW h \in Handler, DeleteRow(h)
      PROVE  swept' \subseteq unanswered'
  <2>1. CASE UNCHANGED swept
    BY <1>0, <2>1
  <2>2. CASE ~UNCHANGED swept
    <3>1. /\ del[h] \in DeleteRequest /\ row[del[h].bp].up = del[h].up
          /\ swept' = IF Made(del[h].bp) \cap del[h].deps # {}
                        THEN swept \cup {row[del[h].bp].up} ELSE swept
      BY <1>3, <2>2, DeleteRowKind
    <3>2. del[h] # Idle /\ del[h].deps # {}
      BY <2>2, <3>1, IdleNotRequest
    <3> QED BY <1>0, <3>1, <3>2 DEF Deployed, DeletesSee
  <2> QED BY <2>1, <2>2
<1> QED BY <1>1, <1>2, <1>3, Bookkeeping DEF NoDeploymentSwept

\* Deployments go with their blueprint only when the delete could not see them, or
\* when an upload whose answer was lost was taken for failed: a delete and a
\* replacement that do not look at deployments are of failed rows only.
THEOREM DeploymentsNotSwept == Spec => []NoDeploymentSwept
<1>1. Init => Deployed
  BY DEF Init, Deployed, DeployedUploaded, DeletesSee, NoDeploymentSwept
<1>2. Typed /\ Deployed /\ [Next]_vars => Deployed'
  BY DeployedUploadedStep, DeletesSeeStep, SweptStep DEF Deployed
<1>3. Deployed => NoDeploymentSwept
  BY DEF Deployed
<1>4. Spec => []Typed
  BY InitTyped, NextTyped, PTL DEF Spec
<1> QED BY <1>1, <1>2, <1>3, <1>4, PTL DEF Spec

-----------------------------------------------------------------------------
(* Imported blueprints. *)

\* Upload a is past the check of its imports, or its row is uploaded.
Using(a) == Patching(a) \/ \E b \in Blueprint : Uploaded(b) /\ row[b].up = a

PlansKept == \A b \in Blueprint : Uploaded(b) => row[b].plan = up[row[b].up].imports

\* What such an upload imports is there, or excused,
ImportsThere ==
  \A a \in Upload : Using(a) => \A i \in up[a].imports : Exists(i) \/ <<a, i>> \in excused

\* and a checked delete of it is under way only if that is excused.
DeletesKnown ==
  \A a \in Upload : Using(a) =>
    \A h \in Handler : del[h] # Idle /\ del[h].checked /\ del[h].bp \in up[a].imports =>
      <<a, del[h].bp>> \in excused

ImportsKept == PlansKept /\ ImportsThere /\ DeletesKnown

\* Imports are excused for good, and a row goes only if they are or if a checked
\* delete takes it.
LEMMA ExcusedStep ==
  ASSUME Typed, [Next]_vars
  PROVE  /\ excused \subseteq excused'
         /\ \A i \in Blueprint : Exists(i) /\ row'[i] = None =>
              \/ Importing(i) \subseteq excused'
              \/ \E h \in Handler : del[h] # Idle /\ del[h].bp = i /\ del[h].checked
<1> DEFINE P == /\ excused \subseteq excused'
                /\ \A i \in Blueprint : Exists(i) /\ row'[i] = None =>
                     \/ Importing(i) \subseteq excused'
                     \/ \E h \in Handler : del[h] # Idle /\ del[h].bp = i /\ del[h].checked
<1>1. ASSUME UNCHANGED row, excused \subseteq excused'
      PROVE  P
  BY <1>1 DEF Exists
<1>2. ASSUME NEW a \in Upload, NEW pc, NEW l, NEW j, NEW st, NEW plan, Sets(a, pc, l, j, st, plan),
             excused \subseteq excused'
      PROVE  P
  BY <1>2 DEF Sets, RowSets, RowBecomes, Exists
<1>3. ASSUME NEW a \in Upload, NEW b \in Blueprint, NEW m \in Modes, PutReplace(a, b, m)
      PROVE  P
  <2>1. Drops(b) /\ excused' = excused \cup Importing(b)
    BY <1>3, PutReplaceKind DEF PutReplace, Replaces
  <2> QED BY <2>1 DEF Drops, RowBecomes, Exists
<1>4. ASSUME NEW a \in Upload, NEW b \in Blueprint, NEW m \in Modes, PutRow(a, b, m) \/ ValidateRow(a, b)
      PROVE  P
  <2>1. excused' = excused
    BY <1>4 DEF PutRow, ValidateRow, history
  <2>2. UNCHANGED row \/ \E r : row' = [row EXCEPT ![b] = r] /\ ~Exists(b)
    BY <1>4 DEF PutRow, ValidateRow, Insert
  <2> QED BY <2>1, <2>2 DEF Exists, Typed, Types
<1>5. ASSUME NEW a \in Upload, PutArchive(a)
      PROVE  P
  BY <1>1, <1>5 DEF PutArchive, history
<1>6. ASSUME NEW a \in Upload, PutFails(a)
      PROVE  P
  <2>1. excused' = excused
    BY <1>6 DEF PutFails, history
  <2> QED BY <1>1, <1>2, <1>6, <2>1, PutFailsKind DEF Moves, Leaves
<1>7. ASSUME NEW a \in Upload, Workflow(a)
      PROVE  P
  <2>1. CASE Patches(a)
    <3>1. excused' = excused
      BY <2>1, PatchesKind DEF history
    <3> QED BY <1>1, <1>2, <2>1, <3>1, PatchesKind DEF Moves, Leaves
  <2>2. CASE WfFetch(a) \/ WfParse(a) \/ PatchRead(a) \/ PatchExtract(a) \/ PatchRefused(a) \/ WfStops(a)
    BY <1>1, <2>2 DEF WfFetch, WfParse, PatchRead, PatchExtract, PatchRefused, WfStops, history
  <2>3. CASE PatchExtractFails(a) \/ PatchCommit(a) \/ PatchUnanswered(a)
    <3>1. excused' = excused
      BY <2>3 DEF PatchExtractFails, PatchCommit, PatchUnanswered, history
    <3> QED BY <1>1, <1>2, <2>3, <3>1, PatchExtractFailsKind, PatchCommitKind, PatchUnansweredKind
            DEF Moves
  <2>4. CASE GivesUp(a)
    <3>1. Fail(a)
      BY <2>4, GivesUpKind
    <3>2. excused \subseteq excused'
      BY <3>1 DEF Fail
    <3>3. CASE ~Authorised(a)
      BY <1>1, <2>4, <3>2, <3>3, GivesUpKind DEF Leaves
    <3>4. CASE Authorised(a) /\ up[a].mode = "validate"
      <4>1. Drops(up[a].bp) /\ Importing(up[a].bp) \subseteq excused'
        BY <2>4, <3>1, <3>4, GivesUpKind DEF Fail, Removes
      <4> QED BY <3>2, <4>1 DEF Drops, RowBecomes, Exists
    <3>5. CASE Authorised(a) /\ up[a].mode # "validate"
      BY <1>2, <2>4, <3>2, <3>5, GivesUpKind
    <3> QED BY <3>3, <3>4, <3>5
  <2> QED BY <1>7, <2>1, <2>2, <2>3, <2>4 DEF Workflow, Patches, GivesUp
<1>8. ASSUME NEW h \in Handler, DeleteRow(h)
      PROVE  P
  <2>1. excused' = IF del[h].checked THEN excused ELSE excused \cup Importing(del[h].bp)
    BY <1>8 DEF DeleteRow
  <2>2. del[h] # Idle
    BY <1>8, DeleteRowKind, IdleNotRequest
  <2>3. UNCHANGED row \/ Drops(del[h].bp)
    BY <1>8, DeleteRowKind DEF Removes
  <2> QED BY <2>1, <2>2, <2>3 DEF Drops, RowBecomes, Exists
<1>9. ASSUME \/ UNCHANGED vars \/ Dies
             \/ \E h \in Handler : (\E c \in Blueprint, f \in ForceFlags : DeleteCheck(h, c, f)) \/ DeleteFiles(h)
             \/ \E c \in Blueprint : SetIcon(c) \/ RemoveIcon(c)
             \/ \E d \in Deployment : (\E c \in Blueprint : CreateCheck(d, c)) \/ CreateCommit(d)
      PROVE  P
  <2>1. UNCHANGED row /\ excused \subseteq excused'
    BY <1>9 DEF vars, Dies, UploadDies, DeleteDies, DeleteCheck, DeleteFiles, SetIcon, RemoveIcon, CreateCheck,
                CreateCommit, history
  <2> QED BY <1>1, <2>1
<1> HIDE DEF P
<1>10. P
  <2>1. ASSUME NEW a \in Upload, NEW b \in Blueprint, ValidateRow(a, b)
        PROVE  P
    <3>1. "validate" \in Modes
      BY <2>1 DEF ValidateRow
    <3> QED BY <1>4, <2>1, <3>1
  <2>2. ASSUME NEW a \in Upload,
               \/ \E b \in Blueprint, m \in Modes : PutReplace(a, b, m) \/ PutRow(a, b, m)
               \/ \E b \in Blueprint : ValidateRow(a, b)
               \/ PutArchive(a) \/ PutFails(a) \/ Workflow(a)
        PROVE  P
    BY <1>3, <1>4, <1>5, <1>6, <1>7, <2>1, <2>2
  <2> QED BY <1>8, <1>9, <2>2 DEF Next, Dies
<1> QED BY <1>10 DEF P

\* An upload that uses its imports after the step did so before.
UsingKept(c) == Using(c)' => Using(c) /\ up'[c].imports = up[c].imports

LEMMA UsingNext ==
  ASSUME NEW c \in Upload
  PROVE  Using(c)' <=> \/ up'[c].pc \in {"patching", "extracted"}
                       \/ \E b \in Blueprint : /\ row'[b] # None /\ row'[b].st = "uploaded"
                                               /\ row'[b].up = c
  BY DEF Using, Patching, Uploaded, Exists

LEMMA SameUsing ==
  ASSUME NEW c \in Upload, NEW b \in Blueprint, Same(b), row'[b].st = "uploaded", row'[b].up = c
  PROVE  Using(c) /\ up'[c].imports = up[c].imports
  BY DEF Same, Using, Uploaded

LEMMA MovesUsing ==
  ASSUME Typed, NEW a \in Upload, NEW pc, NEW l, NEW i, Moves(a, pc, l, i),
         pc \in {"patching", "extracted"} => Patching(a),
         i = up[a].imports \/ (up[a].pc = "parsing" /\ pc = "parsed"),
         NEW c \in Upload
  PROVE  UsingKept(c)
<1> SUFFICES ASSUME Using(c)'
             PROVE  Using(c) /\ up'[c].imports = up[c].imports
  BY DEF UsingKept
<1>1. /\ row' = row /\ \A e \in Upload \ {a} : up'[e] = up[e]
      /\ up'[a].pc = pc /\ up'[a].imports = i
  BY NowFields DEF Moves, Becomes
<1>2. CASE c # a
  BY <1>1, <1>2, UsingNext DEF Using, Patching, Uploaded, Exists
<1>3. CASE c = a
  <2>1. Using(a)
    BY <1>1, <1>3, UsingNext DEF Using, Uploaded, Exists
  <2>2. up[a].pc = "parsing" => ~Using(a)
    <3> SUFFICES ASSUME up[a].pc = "parsing", NEW b \in Blueprint, Uploaded(b), row[b].up = a
                 PROVE  FALSE
      BY DEF Using, Patching
    <3>1. up[a].bp = b /\ Authorised(a)
      BY OneRow DEF Uploaded
    <3> QED BY <3>1, UnderWay
  <2> QED BY <1>1, <1>3, <2>1, <2>2
<1> QED BY <1>2, <1>3

LEMMA SetsUsing ==
  ASSUME Typed, NEW a \in Upload, NEW pc, NEW l, NEW i, NEW st, NEW plan,
         Sets(a, pc, l, i, st, plan), pc \notin {"patching", "extracted"},
         st = "uploaded" => Patching(a) /\ i = up[a].imports,
         NEW c \in Upload
  PROVE  UsingKept(c)
<1> SUFFICES ASSUME Using(c)'
             PROVE  Using(c) /\ up'[c].imports = up[c].imports
  BY DEF UsingKept
<1>1. /\ \A e \in Upload \ {a} : up'[e] = up[e]
      /\ up'[a].pc = pc /\ up'[a].imports = i
  BY NowFields DEF Sets, Becomes
<1>2. CASE up'[c].pc \in {"patching", "extracted"}
  BY <1>1, <1>2 DEF Using, Patching
<1>3. ASSUME NEW b \in Blueprint, row'[b] # None, row'[b].st = "uploaded", row'[b].up = c
      PROVE  Using(c) /\ up'[c].imports = up[c].imports
  <2>1. CASE Same(b)
    BY <1>3, <2>1, SameUsing
  <2>2. CASE ~Same(b)
    <3>1. c = a /\ st = "uploaded"
      BY <1>3, <2>2, SetsFrame
    <3> QED BY <1>1, <3>1 DEF Using
  <2> QED BY <2>1, <2>2
<1> QED BY <1>2, <1>3, UsingNext

LEMMA LeavesUsing ==
  ASSUME Typed, NEW a \in Upload, Leaves(a), NEW c \in Upload
  PROVE  UsingKept(c)
<1>1. \A b \in Blueprint : row'[b] # None => Same(b)
  BY LeavesFrame
<1>2. up'[c].pc \in {"patching", "extracted"} => up'[c] = up[c]
  BY GoneOK DEF Leaves, Becomes
<1> QED BY <1>1, <1>2, UsingNext, SameUsing DEF UsingKept, Using, Patching

LEMMA InsertsUsing ==
  ASSUME Typed, NEW a \in Upload, NEW e \in Blueprint, NEW mode, NEW st,
         Inserts(a, e, mode, st), NEW c \in Upload
  PROVE  UsingKept(c)
<1>1. \A b \in Blueprint : row'[b] # None /\ row'[b].st = "uploaded" => Same(b)
  BY InsertsFrame DEF Inserts
<1>2. up'[c].pc \in {"patching", "extracted"} => up'[c] = up[c]
  BY DEF Inserts, Becomes
<1> QED BY <1>1, <1>2, UsingNext, SameUsing DEF UsingKept, Using, Patching

LEMMA ReplacesUsing ==
  ASSUME Typed, NEW a \in Upload, NEW e \in Blueprint, NEW mode, Replaces(a, e, mode),
         NEW c \in Upload
  PROVE  UsingKept(c)
<1>1. \A b \in Blueprint : row'[b] # None => Same(b)
  BY ReplacesFrame
<1>2. up'[c].pc \in {"patching", "extracted"} => up'[c] = up[c]
  BY GoneOK DEF Replaces
<1> QED BY <1>1, <1>2, UsingNext, SameUsing DEF UsingKept, Using, Patching

LEMMA RemovesUsing ==
  ASSUME Typed, NEW e \in Blueprint, Removes(e), NEW c \in Upload
  PROVE  UsingKept(c)
<1>1. \A b \in Blueprint : row'[b] # None => Same(b)
  BY RemovesFrame
<1>2. up'[c].pc \in {"patching", "extracted"} => up'[c] = up[c]
  BY GoneOK DEF Removes, Forgets
<1> QED BY <1>1, <1>2, UsingNext, SameUsing DEF UsingKept, Using, Patching

LEMMA QuietUsing ==
  ASSUME Typed, UNCHANGED <<row, up>>, NEW c \in Upload
  PROVE  UsingKept(c)
  BY UsingNext DEF UsingKept, Using, Patching, Uploaded, Exists

\* A step of the last PATCH that reads the row.
Reads(a) == /\ PatchRead(a) /\ Moves(a, "patching", up[a].local, up[a].imports)
            /\ \A i \in up[a].imports : Exists(i)

LEMMA UsingStep ==
  ASSUME Typed, [Next]_vars, NEW c \in Upload
  PROVE  UsingKept(c) \/ Reads(c)
<1> USE QuietUsing, MovesUsing, SetsUsing, LeavesUsing
<1>1. ASSUME NEW a \in Upload, NEW b \in Blueprint, NEW m \in Modes, PutReplace(a, b, m)
      PROVE  UsingKept(c)
  BY <1>1, PutReplaceKind, ReplacesUsing
<1>2. ASSUME NEW a \in Upload, NEW b \in Blueprint, NEW m \in Modes, PutRow(a, b, m)
      PROVE  UsingKept(c)
  BY <1>2, PutRowKind, InsertsUsing
<1>3. ASSUME NEW a \in Upload, NEW b \in Blueprint, ValidateRow(a, b)
      PROVE  UsingKept(c)
  BY <1>3, ValidateRowKind, InsertsUsing
<1>4. ASSUME NEW a \in Upload, PutArchive(a)
      PROVE  UsingKept(c)
  BY <1>4, PutArchiveKind
<1>5. ASSUME NEW a \in Upload, PutFails(a)
      PROVE  UsingKept(c)
  BY <1>5, PutFailsKind
<1>6. ASSUME NEW a \in Upload, Workflow(a)
      PROVE  UsingKept(c) \/ Reads(c)
  <2>1. CASE Patches(a)
    BY <2>1, PatchesKind
  <2>2. CASE WfFetch(a)
    BY <2>2, WfFetchKind
  <2>3. CASE GivesUp(a)
    <3>1. CASE ~Authorised(a)
      BY <2>3, <3>1, GivesUpKind
    <3>2. CASE Authorised(a) /\ up[a].mode = "validate"
      BY <2>3, <3>2, GivesUpKind, UnderWay, RemovesUsing
    <3>3. CASE Authorised(a) /\ up[a].mode # "validate"
      BY <2>3, <3>3, GivesUpKind
    <3> QED BY <3>1, <3>2, <3>3
  <2>4. CASE WfParse(a)
    BY <2>4, WfParseKind
  <2>5. CASE PatchRead(a)
    <3>1. CASE Reads(a)
      <4>1. CASE c = a
        BY <3>1, <4>1
      <4>2. CASE c # a
        <5>1. row' = row /\ up'[c] = up[c]
          BY <3>1, <4>2 DEF Reads, Moves, Becomes
        <5> QED BY <5>1, UsingNext DEF UsingKept, Using, Patching, Uploaded, Exists
      <4> QED BY <4>1, <4>2
    <3>2. CASE ~Reads(a)
      BY <2>5, <3>2, PatchReadKind DEF Reads
    <3> QED BY <3>1, <3>2
  <2>6. CASE PatchExtract(a)
    BY <2>6, PatchExtractKind DEF Patching
  <2>7. CASE PatchExtractFails(a)
    BY <2>7, PatchExtractFailsKind
  <2>8. CASE PatchCommit(a)
    BY <2>8, PatchCommitKind DEF Patching
  <2>9. CASE PatchUnanswered(a)
    BY <2>9, PatchUnansweredKind DEF Patching
  <2>10. CASE PatchRefused(a)
    BY <2>10, PatchRefusedKind
  <2>11. CASE WfStops(a)
    BY <2>11, WfStopsKind
  <2> QED BY <1>6, <2>1, <2>2, <2>3, <2>4, <2>5, <2>6, <2>7, <2>8, <2>9, <2>10, <2>11
          DEF Workflow, Patches, GivesUp
<1>7. ASSUME NEW h \in Handler, DeleteRow(h)
      PROVE  UsingKept(c)
  BY <1>7, DeleteRowKind, RemovesUsing
<1>8. CASE Dies
  BY <1>8, DiesKind
<1>9. CASE \/ UNCHANGED vars
           \/ \E h \in Handler : (\E b \in Blueprint, f \in ForceFlags : DeleteCheck(h, b, f)) \/ DeleteFiles(h)
           \/ \E b \in Blueprint : SetIcon(b) \/ RemoveIcon(b)
           \/ \E d \in Deployment : (\E b \in Blueprint : CreateCheck(d, b)) \/ CreateCommit(d)
  <2>1. UNCHANGED <<row, up>>
    BY <1>9 DEF vars, DeleteCheck, DeleteFiles, SetIcon, RemoveIcon, CreateCheck, CreateCommit
  <2> QED BY <2>1
<1> QED BY <1>1, <1>2, <1>3, <1>4, <1>5, <1>6, <1>7, <1>8, <1>9 DEF Next, Dies

LEMMA PairImporting ==
  ASSUME NEW a \in Upload, NEW i \in up[a].imports
  PROVE  <<a, i>> \in Importing(i)
  BY DEF Importing

LEMMA ImportsThereStep ==
  ASSUME Typed, ImportsKept, [Next]_vars
  PROVE  ImportsThere'
<1> SUFFICES ASSUME NEW c \in Upload, Using(c)', NEW i \in up'[c].imports
             PROVE  row'[i] # None \/ <<c, i>> \in excused'
  BY DEF ImportsThere, Exists
<1>1. CASE UsingKept(c)
  <2>1. Using(c) /\ i \in up[c].imports
    BY <1>1 DEF UsingKept
  <2>2. i \in Blueprint
    BY <2>1, UpTypes DEF Typed
  <2>3. CASE <<c, i>> \in excused
    BY <2>3, ExcusedStep
  <2>4. CASE Exists(i) /\ row'[i] = None
    <3>1. CASE Importing(i) \subseteq excused'
      BY <2>1, <3>1, PairImporting
    <3>2. CASE \E h \in Handler : del[h] # Idle /\ del[h].bp = i /\ del[h].checked
      BY <2>1, <3>2, ExcusedStep DEF ImportsKept, DeletesKnown
    <3> QED BY <2>2, <2>4, <3>1, <3>2, ExcusedStep
  <2> QED BY <2>1, <2>3, <2>4 DEF ImportsKept, ImportsThere
<1>2. CASE Reads(c)
  <2>1. row' = row /\ up'[c].imports = up[c].imports
    BY <1>2, NowFields DEF Reads, Moves, Becomes
  <2> QED BY <1>2, <2>1 DEF Reads, Exists
<1> QED BY <1>1, <1>2, UsingStep

LEMMA DeletesKnownStep ==
  ASSUME Typed, ImportsKept, [Next]_vars
  PROVE  DeletesKnown'
<1> SUFFICES ASSUME NEW c \in Upload, Using(c)', NEW h \in Handler,
                    del'[h] # Idle, del'[h].checked, del'[h].bp \in up'[c].imports
             PROVE  <<c, del'[h].bp>> \in excused'
  BY DEF DeletesKnown
<1>1. CASE UsingKept(c)
  <2>0. /\ Using(c) /\ up'[c].imports = up[c].imports
        /\ excused \subseteq excused'
    BY <1>1, ExcusedStep DEF UsingKept
  <2>1. ASSUME del[h] # Idle, del'[h].bp = del[h].bp, del'[h].checked = del[h].checked
        PROVE  <<c, del'[h].bp>> \in excused'
    BY <2>0, <2>1 DEF ImportsKept, DeletesKnown
  <2>2. ASSUME NEW g \in Handler, NEW b \in Blueprint, NEW f \in ForceFlags, DeleteCheck(g, b, f)
        PROVE  <<c, del'[h].bp>> \in excused'
    <3>1. CASE g = h
      <4>1. del'[h].bp = b /\ Importers(b) = {} /\ b \in up[c].imports
        BY <2>0, <2>2, <3>1, DeleteCheckEffect
      <4>2. CASE Patching(c)
        <5>1. <<c, b>> \in Importing(b)
          BY <4>1, PairImporting
        <5> DEFINE x == <<c, b>>
        <5>2. x[1] = c
          OBVIOUS
        <5> HIDE DEF x
        <5>3. x \in {y \in Importing(b) : f \/ Failed(b) \/ Patching(y[1])}
          BY <4>2, <5>1, <5>2 DEF x
        <5>4. excused' = excused \cup {y \in Importing(b) : f \/ Failed(b) \/ Patching(y[1])}
          BY <2>2 DEF DeleteCheck
        <5> QED BY <4>1, <5>3, <5>4 DEF x
      <4>3. ASSUME NEW e \in Blueprint, Uploaded(e), row[e].up = c
            PROVE  FALSE
        <5>1. row[e].plan = up[c].imports
          BY <4>3 DEF ImportsKept, PlansKept
        <5>2. up[c].imports # None
          BY UpTypes DEF Typed
        <5>3. e \in Importers(b)
          BY <4>1, <4>3, <5>1, <5>2 DEF Importers, Uploaded, Failed
        <5> QED BY <4>1, <5>3
      <4> QED BY <2>0, <4>2, <4>3 DEF Using
    <3>2. CASE g # h
      BY <2>1, <2>2, <3>2, DeleteCheckEffect
    <3> QED BY <3>1, <3>2
  <2>3. ASSUME NEW g \in Handler, DeleteFiles(g)
        PROVE  <<c, del'[h].bp>> \in excused'
    BY <2>1, <2>3, DeleteFilesEffect
  <2>4. ASSUME NEW g \in Handler, del' = [del EXCEPT ![g] = Idle]
        PROVE  <<c, del'[h].bp>> \in excused'
    <3>1. del'[h] = del[h]
      BY <2>4 DEF Typed, Types
    <3> QED BY <2>1, <3>1
  <2>5. CASE del' = del
    BY <2>1, <2>5
  <2> QED BY <2>2, <2>3, <2>4, <2>5, Bookkeeping DEF DeleteRow
<1>2. CASE Reads(c)
  <2>1. up'[c].imports = up[c].imports /\ del' = del
    BY <1>2, NowFields DEF Reads, Moves, Becomes, PatchRead
  <2>2. excused' = excused \cup
         {<<c, i>> : i \in {j \in up[c].imports : \E g \in Handler : del[g] # Idle /\ del[g].bp = j}}
    BY <1>2 DEF Reads, PatchRead
  <2> QED BY <2>1, <2>2
<1> QED BY <1>1, <1>2, UsingStep

\* The plan of an uploaded row after the step.
PlanFits(b) == row'[b].st = "uploaded" => row'[b].plan = up'[row'[b].up].imports

LEMMA PlansKeptStep ==
  ASSUME Typed, PlansKept, [Next]_vars
  PROVE  PlansKept'
<1> SUFFICES ASSUME NEW b \in Blueprint, row'[b] # None
             PROVE  PlanFits(b)
  BY DEF PlansKept, PlanFits, Uploaded, Exists
<1>1. Same(b) => PlanFits(b)
  BY DEF Same, PlanFits, PlansKept, Uploaded
<1>2. UNCHANGED <<row, up>> => PlanFits(b)
  BY <1>1 DEF Same, Exists
<1>3. ASSUME NEW a \in Upload, NEW pc, NEW l, NEW i, Moves(a, pc, l, i),
             i = up[a].imports \/ up[a].pc = "parsing"
      PROVE  PlanFits(b)
  <2>1. CASE Same(b)
    BY <1>1, <2>1
  <2>2. CASE ~Same(b)
    <3>1. /\ row' = row /\ Exists(b) /\ row[b].up = a /\ b = up[a].bp /\ Authorised(a)
          /\ up'[a].imports = i
      BY <1>3, <2>2, MovesFrame
    <3>2. up[a].pc = "parsing" => ~Uploaded(b)
      BY <3>1, UnderWay
    <3> QED BY <1>3, <3>1, <3>2 DEF PlanFits, PlansKept, Uploaded
  <2> QED BY <2>1, <2>2
<1>4. ASSUME NEW a \in Upload, NEW pc, NEW l, NEW i, NEW st, NEW plan,
             Sets(a, pc, l, i, st, plan), st = "uploaded" => plan = i
      PROVE  PlanFits(b)
  BY <1>1, <1>4, SetsFrame DEF PlanFits
<1>5. ASSUME NEW a \in Upload, Leaves(a)
      PROVE  PlanFits(b)
  BY <1>1, <1>5, LeavesFrame
<1>6. ASSUME NEW a \in Upload, NEW c \in Blueprint, NEW mode, NEW st, Inserts(a, c, mode, st)
      PROVE  PlanFits(b)
  BY <1>1, <1>6, InsertsFrame DEF PlanFits, Inserts
<1>7. ASSUME NEW a \in Upload, NEW c \in Blueprint, NEW mode, Replaces(a, c, mode)
      PROVE  PlanFits(b)
  BY <1>1, <1>7, ReplacesFrame
<1>8. ASSUME NEW c \in Blueprint, Removes(c)
      PROVE  PlanFits(b)
  BY <1>1, <1>8, RemovesFrame
<1>9. ASSUME NEW a \in Upload, NEW c \in Blueprint, NEW m \in Modes, PutReplace(a, c, m) \/ PutRow(a, c, m)
      PROVE  PlanFits(b)
  BY <1>5, <1>6, <1>7, <1>9, PutReplaceKind, PutRowKind
<1>10. ASSUME NEW a \in Upload, NEW c \in Blueprint, ValidateRow(a, c)
       PROVE  PlanFits(b)
  BY <1>6, <1>10, ValidateRowKind
<1>11. ASSUME NEW a \in Upload, PutArchive(a) \/ PutFails(a)
       PROVE  PlanFits(b)
  BY <1>3, <1>4, <1>5, <1>11, PutArchiveKind, PutFailsKind
<1>12. ASSUME NEW a \in Upload, Workflow(a)
       PROVE  PlanFits(b)
  <2>1. CASE Patches(a)
    BY <1>3, <1>4, <1>5, <2>1, PatchesKind
  <2>2. CASE WfFetch(a)
    BY <1>3, <2>2, WfFetchKind
  <2>3. CASE GivesUp(a)
    <3>1. CASE ~Authorised(a)
      BY <1>5, <2>3, <3>1, GivesUpKind
    <3>2. CASE Authorised(a) /\ up[a].mode = "validate"
      BY <1>8, <2>3, <3>2, GivesUpKind, UnderWay
    <3>3. CASE Authorised(a) /\ up[a].mode # "validate"
      BY <1>4, <2>3, <3>3, GivesUpKind
    <3> QED BY <3>1, <3>2, <3>3
  <2>4. CASE WfParse(a)
    BY <1>3, <2>4, WfParseKind
  <2>5. CASE PatchRead(a)
    BY <1>3, <1>5, <2>5, PatchReadKind
  <2>6. CASE PatchExtract(a)
    BY <1>3, <2>6, PatchExtractKind
  <2>7. CASE PatchExtractFails(a)
    BY <1>3, <1>4, <2>7, PatchExtractFailsKind
  <2>8. CASE PatchCommit(a)
    BY <1>3, <1>4, <2>8, PatchCommitKind
  <2>9. CASE PatchUnanswered(a)
    BY <1>4, <2>9, PatchUnansweredKind
  <2>10. CASE PatchRefused(a)
    BY <1>3, <2>10, PatchRefusedKind
  <2>11. CASE WfStops(a)
    BY <1>3, <1>5, <2>11, WfStopsKind
  <2> QED BY <1>12, <2>1, <2>2, <2>3, <2>4, <2>5, <2>6, <2>7, <2>8, <2>9, <2>10, <2>11
          DEF Workflow, Patches, GivesUp
<1>13. ASSUME NEW h \in Handler, DeleteRow(h)
       PROVE  PlanFits(b)
  BY <1>2, <1>8, <1>13, DeleteRowKind
<1>14. CASE Dies
  BY <1>2, <1>3, <1>5, <1>14, DiesKind
<1>15. CASE \/ UNCHANGED vars
            \/ \E h \in Handler : (\E c \in Blueprint, f \in ForceFlags : DeleteCheck(h, c, f)) \/ DeleteFiles(h)
            \/ \E c \in Blueprint : SetIcon(c) \/ RemoveIcon(c)
            \/ \E d \in Deployment : (\E c \in Blueprint : CreateCheck(d, c)) \/ CreateCommit(d)
  <2>1. UNCHANGED <<row, up>>
    BY <1>15 DEF vars, DeleteCheck, DeleteFiles, SetIcon, RemoveIcon, CreateCheck, CreateCommit
  <2> QED BY <1>2, <2>1
<1> QED BY <1>9, <1>10, <1>11, <1>12, <1>13, <1>14, <1>15 DEF Next, Dies

\* What an uploaded blueprint imports is there, or its loss is excused: the check
\* of delete_blueprint and that of the importer's last PATCH leave nothing else.
THEOREM ImportsAreThere == Spec => []ImportsHold
<1>1. Init => ImportsKept
  BY DEF Init, ImportsKept, PlansKept, ImportsThere, DeletesKnown, Using, Patching, Uploaded, Exists
<1>2. Typed /\ ImportsKept /\ [Next]_vars => ImportsKept'
  BY PlansKeptStep, ImportsThereStep, DeletesKnownStep DEF ImportsKept
<1>3. Typed /\ ImportsKept => ImportsHold
  <2> SUFFICES ASSUME Typed, ImportsKept, NEW b \in Blueprint, Uploaded(b), NEW i \in row[b].plan
               PROVE  Exists(i) \/ <<row[b].up, i>> \in excused
    BY DEF ImportsHold
  <2>1. row[b].up \in Upload /\ i \in up[row[b].up].imports /\ Using(row[b].up)
    BY RowTypes DEF Uploaded, ImportsKept, PlansKept, Typed, Using
  <2> QED BY <2>1 DEF ImportsKept, ImportsThere
<1>4. Spec => []Typed
  BY InitTyped, NextTyped, PTL DEF Spec
<1> QED BY <1>1, <1>2, <1>3, <1>4, PTL DEF Spec

-----------------------------------------------------------------------------
(* Archives and folders. *)

\* The workflow has its copy of the archive.
Fetched == {"fetched", "extracting", "parsing", "parsed", "patching", "extracted"}

LEMMA FetchedSteps ==
  /\ {"fetched", "extracting", "parsing", "parsed", "patching", "extracted"} \subseteq Fetched
  /\ {"new", "replaced", "stored", "sent", "fetching", "failing", "done", "stopped"} \cap Fetched = {}
  BY DEF Fetched

\* The archive of upload x is stored.
Stored(x) == (x.pc = "sent" /\ x.mode # "url") \/ x.pc \in Fetched

\* From the moment an upload has stored its archive, what is under its id is its
\* own, unless something else was written there.
FilesKept ==
  \A b \in Blueprint : Exists(b) /\ row[b].up \notin mixed =>
    /\ Stored(up[row[b].up]) \/ Uploaded(b) => Archives(b) = {row[b].up}
    /\ up[row[b].up].pc \in Fetched \/ Uploaded(b) => up[row[b].up].local = row[b].up
    /\ up[row[b].up].pc = "extracted" \/ Uploaded(b) => folder[b] = row[b].up

\* The same of one row after the step, its upload and its state given.
Holds(b, a, st) ==
  a \notin mixed' =>
    /\ Stored(up'[a]) \/ st = "uploaded" => Archives(b)' = {a}
    /\ up'[a].pc \in Fetched \/ st = "uploaded" => up'[a].local = a
    /\ up'[a].pc = "extracted" \/ st = "uploaded" => folder'[b] = a

FilesFit(b) == Holds(b, row'[b].up, row'[b].st)

LEMMA FilesNext ==
  ASSUME \A b \in Blueprint : row'[b] # None => FilesFit(b)
  PROVE  FilesKept'
  BY DEF FilesKept, FilesFit, Holds, Exists, Uploaded

LEMMA SameArchives ==
  ASSUME NEW b \in Blueprint, archive'[b] = archive[b]
  PROVE  Archives(b)' = Archives(b)
  BY DEF Archives, Present

LEMMA SameFiles ==
  ASSUME FilesKept, mixed \subseteq mixed', NEW b \in Blueprint, Same(b),
         archive'[b] = archive[b], folder'[b] = folder[b]
  PROVE  FilesFit(b)
  BY SameArchives DEF FilesKept, FilesFit, Holds, Same, Exists, Uploaded

\* Nothing is claimed of an upload that has no archive.
LEMMA NoClaim ==
  ASSUME NEW b \in Blueprint, row'[b].st # "uploaded",
         up'[row'[b].up].pc \notin {"sent"} \cup Fetched
  PROVE  FilesFit(b)
  BY FetchedSteps DEF FilesFit, Holds, Stored

LEMMA MovesFiles ==
  ASSUME Typed, FilesKept, NEW a \in Upload, NEW pc, NEW i, Moves(a, pc, up[a].local, i),
         pc \in Fetched => up[a].pc \in Fetched, pc \notin {"sent", "extracted"},
         UNCHANGED files, NEW b \in Blueprint, row'[b] # None
  PROVE  FilesFit(b)
<1>1. archive' = archive /\ folder' = folder /\ mixed' = mixed
  BY DEF files
<1>2. CASE Same(b)
  BY <1>1, <1>2, SameFiles
<1>3. CASE ~Same(b)
  <2>1. /\ row' = row /\ Exists(b) /\ row[b].up = a /\ b = up[a].bp /\ Authorised(a)
        /\ up'[a].pc = pc /\ up'[a].local = up[a].local
    BY <1>3, MovesFrame
  <2>2. Archives(b)' = Archives(b)
    BY <1>1, SameArchives
  <2> QED BY <1>1, <2>1, <2>2, FetchedSteps DEF FilesKept, FilesFit, Holds, Exists, Uploaded, Stored
<1> QED BY <1>2, <1>3

LEMMA SetsFiles ==
  ASSUME Typed, FilesKept, NEW a \in Upload, NEW pc, NEW i, NEW st, NEW plan,
         Sets(a, pc, up[a].local, i, st, plan),
         pc \in Fetched => up[a].pc \in Fetched, pc \notin {"sent", "extracted"},
         st = "uploaded" => up[a].pc = "extracted",
         UNCHANGED files, NEW b \in Blueprint, row'[b] # None
  PROVE  FilesFit(b)
<1>1. archive' = archive /\ folder' = folder /\ mixed' = mixed
  BY DEF files
<1>2. CASE Same(b)
  BY <1>1, <1>2, SameFiles
<1>3. CASE ~Same(b)
  <2>1. /\ Exists(b) /\ row[b].up = a /\ row'[b].up = a /\ row'[b].st = st
        /\ up'[a].pc = pc /\ up'[a].local = up[a].local
    BY <1>3, SetsFrame
  <2>2. Archives(b)' = Archives(b)
    BY <1>1, SameArchives
  <2> QED BY <1>1, <2>1, <2>2, FetchedSteps DEF FilesKept, FilesFit, Holds, Stored
<1> QED BY <1>2, <1>3

LEMMA LeavesFiles ==
  ASSUME Typed, FilesKept, NEW a \in Upload, Leaves(a), UNCHANGED files,
         NEW b \in Blueprint, row'[b] # None
  PROVE  FilesFit(b)
  BY LeavesFrame, SameFiles DEF files

LEMMA QuietFiles ==
  ASSUME Typed, FilesKept, UNCHANGED <<row, up>>, UNCHANGED files,
         NEW b \in Blueprint, row'[b] # None
  PROVE  FilesFit(b)
  BY SameFiles DEF files, Same, Exists

LEMMA PutFiles ==
  ASSUME Typed, FilesKept, NEW a \in Upload, NEW c \in Blueprint, NEW m \in Modes,
         PutReplace(a, c, m) \/ PutRow(a, c, m) \/ ValidateRow(a, c),
         NEW b \in Blueprint, row'[b] # None
  PROVE  FilesFit(b)
<1>1. UNCHANGED files /\ archive' = archive /\ folder' = folder /\ mixed' = mixed
  BY DEF PutReplace, PutRow, ValidateRow, files
<1>2. CASE PutReplace(a, c, m)
  BY <1>1, <1>2, PutReplaceKind, ReplacesFrame, SameFiles
<1>3. ASSUME NEW mode, NEW st, Inserts(a, c, mode, st)
      PROVE  FilesFit(b)
  <2>1. CASE Same(b)
    BY <1>1, <2>1, SameFiles
  <2>2. CASE ~Same(b)
    <3>1. row'[b].up = a /\ row'[b].st = st /\ up'[a].pc = "stored" /\ st # "uploaded"
      BY <1>3, <2>2, InsertsFrame DEF Inserts
    <3> QED BY <3>1, NoClaim, FetchedSteps
  <2> QED BY <2>1, <2>2
<1>4. CASE PutRow(a, c, m)
  BY <1>1, <1>3, <1>4, PutRowKind, LeavesFiles
<1>5. CASE ValidateRow(a, c)
  BY <1>3, <1>5, ValidateRowKind
<1> QED BY <1>2, <1>4, <1>5

\* An upload that stores its archive leaves the files of others alone, or they are
\* mixed.
LEMMA OtherFiles ==
  ASSUME Typed, FilesKept, NEW a \in Upload, up[a].bp \in Blueprint, NEW b \in Blueprint,
         Same(b), row[b].up # a,
         UNCHANGED <<archive, mixed>> \/ StoreArchive(a, up[a].bp), UNCHANGED folder
  PROVE  FilesFit(b)
<1>1. CASE UNCHANGED <<archive, mixed>>
  BY <1>1, SameFiles
<1>2. CASE StoreArchive(a, up[a].bp)
  <2>1. CASE b = up[a].bp
    <3>1. row'[b].up \in mixed'
      BY <1>2, <2>1, StoreArchiveEffect DEF Same, Typed
    <3> QED BY <3>1 DEF FilesFit, Holds
  <2>2. CASE b # up[a].bp
    <3>1. archive'[b] = archive[b] /\ mixed \subseteq mixed'
      BY <1>2, <2>2, StoreArchiveEffect DEF Typed
    <3> QED BY <3>1, SameFiles
  <2> QED BY <2>1, <2>2
<1> QED BY <1>1, <1>2

LEMMA PutArchiveFiles ==
  ASSUME Typed, FilesKept, NEW a \in Upload, PutArchive(a), NEW b \in Blueprint, row'[b] # None
  PROVE  FilesFit(b)
<1>1. Moves(a, "sent", up[a].local, up[a].imports) /\ up[a].pc = "stored"
  BY PutArchiveKind DEF PutArchive
<1>2. /\ row' = row /\ Exists(b)
      /\ \/ Same(b) /\ row[b].up # a
         \/ /\ row[b].up = a /\ b = up[a].bp /\ Authorised(a)
            /\ up'[a].pc = "sent" /\ up'[a].mode = up[a].mode
  BY <1>1, MovesFrame
<1>3. /\ folder' = folder /\ up[a].bp \in Blueprint
      /\ IF up[a].mode = "url" THEN UNCHANGED <<archive, mixed>> ELSE StoreArchive(a, up[a].bp)
  BY <1>1 DEF PutArchive, Typed, Keys, UploadsKept
<1>5. CASE row[b].up = a
  <2>1. b = up[a].bp /\ up'[a].pc = "sent" /\ up'[a].mode = up[a].mode /\ ~Uploaded(b)
    BY <1>1, <1>2, <1>5, UnderWay DEF Same
  <2>2. up[a].mode # "url" /\ a \notin mixed' => Archives(b)' = {a}
    BY <1>2, <1>3, <1>5, <2>1, StoreArchiveEffect DEF Typed
  <2> QED BY <1>2, <1>5, <2>1, <2>2, FetchedSteps DEF FilesFit, Holds, Stored, Uploaded
<1>6. CASE row[b].up # a
  BY <1>2, <1>3, <1>6, OtherFiles
<1> QED BY <1>5, <1>6

\* The archive of an upload whose row fails or goes.
LEMMA FailedFiles ==
  ASSUME Typed, FilesKept, NEW a \in Upload, Authorised(a), up[a].bp \in Blueprint,
         RemoveArchives(up[a].bp), UNCHANGED <<folder, mixed>>,
         NEW b \in Blueprint, row'[b] # None,
         \/ Removes(up[a].bp)
         \/ \E l, i, plan : Sets(a, "done", l, i, "failed", plan)
  PROVE  FilesFit(b)
<1>2. CASE b # up[a].bp
  <2>1. Same(b)
    BY <1>2, RemovesFrame, SetsFrame
  <2>2. archive'[b] = archive[b]
    BY <1>2, RemoveArchivesEffect DEF Typed
  <2> QED BY <2>1, <2>2, SameFiles
<1>3. CASE b = up[a].bp
  <2>1. row[b].up = a
    BY <1>3 DEF Authorised
  <2>2. PICK l, i, plan : Sets(a, "done", l, i, "failed", plan)
    BY <1>3, RemovesFrame
  <2>3. row'[b].up = a /\ row'[b].st = "failed" /\ up'[a].pc = "done"
    BY <2>1, <2>2, SetsFrame DEF Same
  <2> QED BY <2>3, NoClaim, FetchedSteps
<1> QED BY <1>2, <1>3

LEMMA PutFailsFiles ==
  ASSUME Typed, FilesKept, NEW a \in Upload, PutFails(a), NEW b \in Blueprint, row'[b] # None
  PROVE  FilesFit(b)
<1>1. up[a].pc = "stored" /\ UNCHANGED folder /\ up[a].bp \in Blueprint
  BY DEF PutFails, Typed, Keys, UploadsKept
<1>2. CASE Authorised(a) /\ up[a].mode # "validate"
  <2>1. RemoveArchives(up[a].bp) /\ UNCHANGED mixed
    BY <1>2 DEF PutFails
  <2> QED BY <1>1, <1>2, <2>1, PutFailsKind, FailedFiles
<1>3. CASE ~(Authorised(a) /\ up[a].mode # "validate")
  <2>1. UNCHANGED <<archive, mixed>> \/ StoreArchive(a, up[a].bp)
    BY <1>3 DEF PutFails
  <2>2. \/ Leaves(a) /\ ~Authorised(a)
        \/ Moves(a, "done", up[a].local, up[a].imports)
    BY <1>3, PutFailsKind
  <2>3. CASE Same(b) /\ row[b].up # a
    BY <1>1, <2>1, <2>3, OtherFiles
  <2>4. CASE ~(Same(b) /\ row[b].up # a)
    <3>1. Moves(a, "done", up[a].local, up[a].imports)
      BY <2>2, <2>4, LeavesFrame, OneRow DEF Same
    <3>2. /\ row' = row /\ Exists(b) /\ row[b].up = a /\ b = up[a].bp /\ Authorised(a)
          /\ up'[a].pc = "done"
      BY <2>4, <3>1, MovesFrame
    <3>3. ~Uploaded(b)
      BY <1>1, <3>2, UnderWay
    <3> QED BY <3>2, <3>3, NoClaim, FetchedSteps DEF Uploaded
  <2> QED BY <2>3, <2>4
<1> QED BY <1>2, <1>3

LEMMA GivesUpFiles ==
  ASSUME Typed, FilesKept, NEW a \in Upload, GivesUp(a), NEW b \in Blueprint, row'[b] # None
  PROVE  FilesFit(b)
<1>1. Fail(a) /\ up[a].pc \notin {"new", "replaced", "done", "stopped"}
  BY GivesUpKind
<1>2. UNCHANGED <<folder, mixed>>
  BY <1>1 DEF Fail
<1>3. CASE Authorised(a)
  <2>1. RemoveArchives(up[a].bp)
    BY <1>1, <1>3 DEF Fail, PatchFailed
  <2>2. up[a].bp \in Blueprint
    BY <1>1, <1>3, UnderWay
  <2> QED BY <1>2, <1>3, <2>1, <2>2, GivesUpKind, FailedFiles
<1>4. CASE ~Authorised(a)
  <2>1. UNCHANGED files
    BY <1>1, <1>2, <1>4 DEF Fail, PatchFailed, files
  <2> QED BY <1>4, <2>1, GivesUpKind, LeavesFiles
<1> QED BY <1>3, <1>4

LEMMA WfFetchFiles ==
  ASSUME Typed, FilesKept, NEW a \in Upload, WfFetch(a), NEW b \in Blueprint, row'[b] # None
  PROVE  FilesFit(b)
<1>1. PICK l \in Content :
        /\ Moves(a, "fetched", l, up[a].imports)
        /\ IF up[a].pc = "fetching" THEN l = a /\ StoreArchive(a, up[a].bp)
           ELSE l \in Archives(up[a].bp) /\ UNCHANGED <<archive, mixed>>
  BY WfFetchKind
<1>2. /\ up[a].pc \in {"sent", "fetching"} /\ Authorised(a) /\ UNCHANGED folder
      /\ up[a].pc = "sent" => up[a].mode # "url"
  BY DEF WfFetch
<1>3. up[a].bp \in Blueprint
  BY <1>2, UnderWay
<1>4. /\ row' = row /\ Exists(b)
      /\ \/ Same(b) /\ row[b].up # a
         \/ row[b].up = a /\ b = up[a].bp /\ up'[a].pc = "fetched" /\ up'[a].local = l
  BY <1>1, MovesFrame
<1>5. CASE row[b].up # a
  BY <1>1, <1>2, <1>3, <1>4, <1>5, OtherFiles
<1>6. CASE row[b].up = a
  <2>1. b = up[a].bp /\ up'[a].pc = "fetched" /\ up'[a].local = l /\ ~Uploaded(b)
    BY <1>2, <1>4, <1>6, UnderWay DEF Same
  <2>2. a \notin mixed' => Archives(b)' = {a} /\ l = a
    <3>1. CASE up[a].pc = "fetching"
      BY <1>1, <1>3, <1>4, <1>6, <2>1, <3>1, StoreArchiveEffect DEF Typed
    <3>2. CASE up[a].pc = "sent"
      <4>1. a \notin mixed' => Archives(b) = {a}
        BY <1>1, <1>2, <1>4, <1>6, <2>1, <3>2 DEF FilesKept, Stored
      <4> QED BY <1>1, <2>1, <3>2, <4>1, SameArchives
    <3> QED BY <1>2, <3>1, <3>2
  <2> QED BY <1>4, <1>6, <2>1, <2>2, FetchedSteps DEF FilesFit, Holds, Stored, Uploaded
<1> QED BY <1>5, <1>6

LEMMA PatchExtractFiles ==
  ASSUME Typed, FilesKept, NEW a \in Upload, PatchExtract(a), NEW b \in Blueprint, row'[b] # None
  PROVE  FilesFit(b)
<1>1. up[a].pc = "patching" /\ up[a].bp \in Blueprint
  BY PatchExtractKind, RealUpload
<1>2. CASE Present(up[a].bp) = {}
  <2>1. UNCHANGED files /\ Moves(a, "failing", up[a].local, up[a].imports)
    BY <1>2, PatchExtractKind DEF PatchExtract, files
  <2> QED BY <2>1, MovesFiles, FetchedSteps
<1>3. CASE Present(up[a].bp) # {}
  <2>1. Moves(a, "extracted", up[a].local, up[a].imports)
    BY <1>3, PatchExtractKind
  <2>2. /\ folder' = [folder EXCEPT ![up[a].bp] = Moved(up[a].bp)] /\ archive' = archive
        /\ mixed' = mixed \cup (IF folder[up[a].bp] # None THEN {a} ELSE {})
                       \cup (IF Exists(up[a].bp) THEN {row[up[a].bp].up} \ {a} ELSE {})
    BY <1>3 DEF PatchExtract
  <2>3. folder \in [Blueprint -> Content]
    BY DEF Typed, Types
  <2>4. /\ row' = row /\ Exists(b)
        /\ \/ Same(b) /\ row[b].up # a
           \/ /\ row[b].up = a /\ b = up[a].bp /\ Authorised(a)
              /\ up'[a].pc = "extracted" /\ up'[a].local = up[a].local
    BY <2>1, MovesFrame
  <2>5. CASE row[b].up # a /\ b = up[a].bp
    <3>1. row'[b].up \in mixed'
      BY <2>2, <2>4, <2>5
    <3> QED BY <3>1 DEF FilesFit, Holds
  <2>6. CASE row[b].up # a /\ b # up[a].bp
    <3>1. Same(b) /\ archive'[b] = archive[b] /\ folder'[b] = folder[b] /\ mixed \subseteq mixed'
      BY <2>2, <2>3, <2>4, <2>6
    <3> QED BY <3>1, SameFiles
  <2>7. CASE row[b].up = a
    <3>1. /\ b = up[a].bp /\ up'[a].pc = "extracted" /\ up'[a].local = up[a].local
          /\ ~Uploaded(b)
      BY <1>1, <2>4, <2>7, UnderWay DEF Same
    <3>2. a \notin mixed' => Archives(b) = {a} /\ up[a].local = a /\ folder[b] = None
      BY <1>1, <2>2, <2>4, <2>7, <3>1, FetchedSteps DEF FilesKept, Stored
    <3>3. a \notin mixed' => folder'[b] = a
      <4>1. Found(b) \in Archives(b)
        BY <1>3, <3>1, FoundArchive DEF Typed
      <4> QED BY <2>2, <2>3, <3>1, <3>2, <4>1 DEF Moved
    <3>4. Archives(b)' = Archives(b)
      BY <2>2, SameArchives
    <3> QED BY <2>2, <2>4, <2>7, <3>1, <3>2, <3>3, <3>4, FetchedSteps DEF FilesFit, Holds, Stored, Uploaded
  <2> QED BY <2>5, <2>6, <2>7
<1> QED BY <1>2, <1>3

LEMMA WorkflowFiles ==
  ASSUME Typed, FilesKept, NEW a \in Upload, Workflow(a), NEW b \in Blueprint, row'[b] # None
  PROVE  FilesFit(b)
<1>1. CASE Patches(a)
  <2>1. /\ UNCHANGED files /\ Reached(a) \notin {"sent", "extracted"}
        /\ Reached(a) \in Fetched => up[a].pc \in Fetched
    BY <1>1, PatchesKind, FetchedSteps
  <2> QED BY <1>1, <2>1, PatchesKind, MovesFiles, SetsFiles, LeavesFiles
<1>2. CASE WfParse(a)
  <2>1. UNCHANGED files
    BY <1>2 DEF WfParse
  <2>2. PICK i \in SUBSET Blueprint : Moves(a, "parsed", up[a].local, i)
    BY <1>2, WfParseKind
  <2>3. "parsed" \in Fetched => up[a].pc \in Fetched
    BY <1>2, WfParseKind, FetchedSteps
  <2>4. "parsed" \notin {"sent", "extracted"}
    OBVIOUS
  <2> QED BY <2>1, <2>2, <2>3, <2>4, MovesFiles
<1>3. CASE PatchRead(a)
  <2>1. UNCHANGED files
    BY <1>3 DEF PatchRead
  <2>2. "patching" \in Fetched => up[a].pc \in Fetched
    BY <1>3, PatchReadKind, FetchedSteps
  <2>3. "patching" \notin {"sent", "extracted"}
    OBVIOUS
  <2> QED BY <1>3, <2>1, <2>2, <2>3, PatchReadKind, MovesFiles, LeavesFiles, FetchedSteps
<1>4. CASE PatchExtractFails(a)
  <2>1. UNCHANGED files
    BY <1>4 DEF PatchExtractFails
  <2> QED BY <1>4, <2>1, PatchExtractFailsKind, MovesFiles, SetsFiles, FetchedSteps
<1>5. CASE PatchCommit(a)
  <2>1. UNCHANGED files
    BY <1>5 DEF PatchCommit
  <2> QED BY <1>5, <2>1, PatchCommitKind, MovesFiles, SetsFiles, FetchedSteps
<1>6. CASE PatchUnanswered(a)
  <2>1. UNCHANGED files
    BY <1>6 DEF PatchUnanswered
  <2> QED BY <1>6, <2>1, PatchUnansweredKind, SetsFiles, FetchedSteps
<1>7. CASE PatchRefused(a)
  <2>1. UNCHANGED files
    BY <1>7 DEF PatchRefused
  <2> QED BY <1>7, <2>1, PatchRefusedKind, MovesFiles, FetchedSteps
<1>8. CASE WfStops(a)
  <2>1. UNCHANGED files
    BY <1>8 DEF WfStops
  <2> QED BY <1>8, <2>1, WfStopsKind, MovesFiles, LeavesFiles, FetchedSteps
<1> QED BY <1>1, <1>2, <1>3, <1>4, <1>5, <1>6, <1>7, <1>8, WfFetchFiles, GivesUpFiles, PatchExtractFiles
        DEF Workflow, Patches, GivesUp

LEMMA DeleteIconFiles ==
  ASSUME Typed, FilesKept, NEW b \in Blueprint, row'[b] # None,
         \/ \E h \in Handler : DeleteFiles(h)
         \/ \E c \in Blueprint : SetIcon(c) \/ RemoveIcon(c)
  PROVE  FilesFit(b)
<1>1. ASSUME NEW c \in Blueprint, UNCHANGED <<row, up>>,
             archive'[b] = archive[b] \/ b = c, folder'[b] = folder[b] \/ b = c,
             mixed' = IF Exists(c) THEN mixed \cup {row[c].up} ELSE mixed
      PROVE  FilesFit(b)
  <2>1. CASE b = c
    BY <1>1, <2>1 DEF FilesFit, Holds, Exists
  <2>2. CASE b # c
    <3>1. Same(b) /\ archive'[b] = archive[b] /\ folder'[b] = folder[b] /\ mixed \subseteq mixed'
      BY <1>1, <2>2 DEF Same, Exists
    <3> QED BY <3>1, SameFiles
  <2> QED BY <2>1, <2>2
<1>2. archive \in [Blueprint -> [ArchiveTypes -> Content]] /\ folder \in [Blueprint -> Content]
  BY DEF Typed, Types
<1>3. ASSUME NEW h \in Handler, DeleteFiles(h)
      PROVE  FilesFit(b)
  <2>1. del[h].bp \in Blueprint
    BY <1>3, DeleteFilesEffect
  <2>2. /\ UNCHANGED <<row, up>>
        /\ archive'[b] = archive[b] \/ b = del[h].bp
        /\ folder'[b] = folder[b] \/ b = del[h].bp
        /\ mixed' = IF Exists(del[h].bp) THEN mixed \cup {row[del[h].bp].up} ELSE mixed
    BY <1>2, <1>3 DEF DeleteFiles, RemoveArchives
  <2> QED BY <1>1, <2>1, <2>2
<1>4. ASSUME NEW c \in Blueprint, SetIcon(c) \/ RemoveIcon(c)
      PROVE  FilesFit(b)
  <2>1. /\ UNCHANGED <<row, up>>
        /\ archive'[b] = archive[b] \/ b = c
        /\ folder'[b] = folder[b] \/ b = c
        /\ mixed' = IF Exists(c) THEN mixed \cup {row[c].up} ELSE mixed
    BY <1>2, <1>4 DEF SetIcon, RemoveIcon
  <2> QED BY <1>1, <2>1
<1> QED BY <1>3, <1>4

LEMMA FilesStep ==
  ASSUME Typed, FilesKept, [Next]_vars
  PROVE  FilesKept'
<1> SUFFICES ASSUME NEW b \in Blueprint, row'[b] # None
             PROVE  FilesFit(b)
  BY FilesNext
<1>1. ASSUME NEW a \in Upload, NEW c \in Blueprint, ValidateRow(a, c)
      PROVE  FilesFit(b)
  <2>1. "validate" \in Modes
    BY <1>1 DEF ValidateRow
  <2> QED BY <1>1, <2>1, PutFiles
<1>2. ASSUME NEW a \in Upload,
             \/ \E c \in Blueprint, m \in Modes : PutReplace(a, c, m) \/ PutRow(a, c, m)
             \/ \E c \in Blueprint : ValidateRow(a, c)
             \/ PutArchive(a) \/ PutFails(a) \/ Workflow(a)
      PROVE  FilesFit(b)
  BY <1>1, <1>2, PutFiles, PutArchiveFiles, PutFailsFiles, WorkflowFiles
<1>3. ASSUME NEW h \in Handler, DeleteRow(h)
      PROVE  FilesFit(b)
  <2>1. UNCHANGED files /\ archive' = archive /\ folder' = folder /\ mixed' = mixed
    BY <1>3 DEF DeleteRow, files
  <2> QED BY <1>3, <2>1, DeleteRowKind, RemovesFrame, SameFiles, QuietFiles
<1>4. CASE Dies
  <2>1. UNCHANGED files
    BY <1>4, DiesKind
  <2>2. UNCHANGED row
    BY <1>4, DiesKind
  <2> QED BY <1>4, <2>1, <2>2, DiesKind, QuietFiles, LeavesFiles, MovesFiles, FetchedSteps
<1>5. CASE \/ UNCHANGED vars
           \/ \E h \in Handler, c \in Blueprint, f \in ForceFlags : DeleteCheck(h, c, f)
           \/ \E d \in Deployment : (\E c \in Blueprint : CreateCheck(d, c)) \/ CreateCommit(d)
  <2>1. UNCHANGED <<row, up>> /\ UNCHANGED files
    BY <1>5 DEF vars, files, DeleteCheck, CreateCheck, CreateCommit
  <2> QED BY <2>1, QuietFiles
<1> QED BY <1>2, <1>3, <1>4, <1>5, DeleteIconFiles DEF Next, Dies

\* An uploaded blueprint whose files nothing else wrote to, and that found no archive
\* of another type under its id, has its own archive and no other, its own folder,
\* and was parsed from its own archive: the archive is extracted before the state is
\* committed, and removed on failure only.
THEOREM FilesAreOwn == Spec => []FilesMatch
<1>1. Init => FilesKept
  BY DEF Init, FilesKept, Exists
<1>2. Typed /\ FilesKept /\ [Next]_vars => FilesKept'
  BY FilesStep
<1>3. FilesKept => FilesMatch
  BY DEF FilesKept, FilesMatch, Uploaded
<1>4. Spec => []Typed
  BY InitTyped, NextTyped, PTL DEF Spec
<1> QED BY <1>1, <1>2, <1>3, <1>4, PTL DEF Spec
=============================================================================
