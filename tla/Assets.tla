-------------------------------- MODULE Assets --------------------------------
(***************************************************************************)
(* The files of a function (apps/web/src/server/fn-assets.ts): uploads,    *)
(* renames and deletions, the README that is kept a second time in the     *)
(* marketplace profile, and what a deploy takes of them: once into the     *)
(* bundle, once into the version's snapshot (dashboard/[fn]/actions.ts).   *)
(*                                                                         *)
(* The statements are steps.  Sizes are left out: the limit on the bytes   *)
(* is read and used up like the one on the number of files.                *)
(***************************************************************************)
EXTENDS Naturals, FiniteSets

CONSTANTS
    Path, README,
    Content, Nothing,   \* Nothing is no file, and the empty readme
    Text,               \* what a profile's readme can be, apart from empty
    Cut,                \* body.slice(0, 50_000), by the file's content
    Tidied,             \* readme.trim().slice(0, 8000), by what the form sent
    RowId,              \* primary keys of fn_asset, used again once nobody knows them
    Request,
    MaxFiles            \* ASSET_MAX_FILES_PER_FN

ASSUME AssetConstants ==
    /\ README \in Path
    /\ Nothing \notin Text \cup Content \cup RowId \cup [path : Path, content : Content]
    /\ Cut \in [Content -> Text] /\ Tidied \in [Content -> Text \cup {Nothing}]
    /\ IsFiniteSet(RowId) /\ IsFiniteSet(Request) /\ Request # {}
    /\ MaxFiles \in Nat \ {0}

VARIABLES
    file,       \* fn_asset: path and content by id
    readme,     \* fn_marketplace_profile.readme
    request,    \* what a request is doing
    apart,      \* README and readme may have come apart (a history)
    touched     \* paths that have changed since a deploy listed the files (a history)

assetVars == <<file, readme, request, apart, touched>>

File == [path : Path, content : Content]
Stored == [Path -> Content \cup {Nothing}]
NoFiles == [p \in Path |-> Nothing]

\* alone: no other request that writes was there at any time since it began.
Resting == [op |-> "none", at |-> "idle", path |-> README, to |-> README, body |-> Nothing,
            id |-> Nothing, list |-> {}, bundle |-> NoFiles, snap |-> NoFiles, alone |-> TRUE]

Working == [op : {"put", "rename", "delete", "profile", "deploy"},
            at : {"profile", "find", "caps", "write", "collision", "move", "remove", "clear", "sync",
                  "list", "load", "snapshot", "done"},
            path : Path, to : Path, body : Content \cup {Nothing}, id : RowId \cup {Nothing},
            list : SUBSET Path, bundle : Stored, snap : Stored, alone : BOOLEAN]

Files == {i \in RowId : file[i] # Nothing}
Row(p) == {i \in Files : file[i].path = p}

AssetTypeOK ==
    /\ file \in [RowId -> File \cup {Nothing}]
    /\ \A p \in Path : \A i, j \in Row(p) : i = j
    /\ readme \in Text \cup {Nothing}
    /\ request \in [Request -> Working \cup {Resting}]
    /\ apart \in BOOLEAN
    /\ touched \in [Request -> SUBSET Path]

AssetInit ==
    /\ file = [i \in RowId |-> Nothing]
    /\ readme = Nothing
    /\ request = [r \in Request |-> Resting]
    /\ apart = FALSE
    /\ touched = [r \in Request |-> {}]

In(r, step) == request[r].at = step
To(r, step) == request' = [request EXCEPT ![r].at = step]
End(r) == request' = [request EXCEPT ![r] = Resting]

ContentAt(p) == IF Row(p) = {} THEN Nothing ELSE file[CHOOSE i \in Row(p) : TRUE].content

\* The rows of some paths change, by a request that is alone or not.
Touch(paths, alone) ==
    /\ touched' = [r \in Request |-> IF request[r].op = "deploy" THEN touched[r] \cup paths ELSE {}]
    /\ apart' = (apart \/ (README \in paths /\ ~alone))

\* What syncReadmeToMarketplace makes the readme of a file, and the profile form of its field.
Shown(body) == IF body = Nothing THEN Nothing ELSE Cut[body]
Trimmed(body) == IF body = Nothing THEN Nothing ELSE Tidied[body]

Writers == {r \in Request : request[r].op \notin {"none", "deploy"}}

Begins(r, job) ==
    /\ In(r, "idle")
    /\ request' = [q \in Request |->
                    IF q = r THEN [job EXCEPT !.alone = Writers = {}]
                    ELSE IF q \in Writers THEN [request[q] EXCEPT !.alone = FALSE] ELSE request[q]]
    /\ UNCHANGED <<file, readme, apart, touched>>

-----------------------------------------------------------------------------
(* upsertFunctionAsset, which the dashboard's profile form calls too        *)

Put(r, p, c) == Begins(r, [Resting EXCEPT !.op = "put", !.at = "find", !.path = p, !.body = c])

\* updateMarketplaceProfileAction writes the profile and then the file with what was sent
\* as it is, or no file when only white space was.
EditProfile(r, c) ==
    Begins(r, [Resting EXCEPT !.op = "profile", !.at = "profile", !.body = c])

WriteProfile(r) ==
    /\ In(r, "profile")
    /\ readme' = Trimmed(request[r].body)
    /\ To(r, IF Trimmed(request[r].body) = Nothing THEN "remove" ELSE "find")
    /\ Touch({README}, request[r].alone)
    /\ UNCHANGED file

Find(r) ==
    /\ In(r, "find")
    /\ \E i \in IF Row(request[r].path) = {} THEN {Nothing} ELSE Row(request[r].path) :
        request' = [request EXCEPT ![r].at = "caps", ![r].id = i]
    /\ UNCHANGED <<file, readme, apart, touched>>

\* Mutant of CheckCaps: the file to come is not counted.
CheckCapsOver(r) ==
    /\ In(r, "caps")
    /\ IF request[r].id = Nothing /\ Cardinality(Files) > MaxFiles
       THEN End(r) /\ apart' = (apart \/ request[r].op = "profile")
       ELSE To(r, "write") /\ UNCHANGED apart
    /\ UNCHANGED <<file, readme, touched>>

\* A refusal leaves a profile that was edited without its file.
CheckCaps(r) ==
    /\ In(r, "caps")
    /\ IF request[r].id = Nothing /\ Cardinality(Files) + 1 > MaxFiles
       THEN End(r) /\ apart' = (apart \/ request[r].op = "profile")
       ELSE To(r, "write") /\ UNCHANGED apart
    /\ UNCHANGED <<file, readme, touched>>

\* The ids a new row may get.  Which one it gets makes no difference.
Fresh == {i \in RowId \ Files : \A q \in Request : request[q].id # i}

\* Mutant of Conflict: no unique index on (function, path).
NoConflict(q) == FALSE

Conflict(q) == q.id = Nothing /\ Row(q.path) # {}

\* The row found before is updated, wherever it is now; a new row conflicts with one that
\* has got the path meanwhile.
Write(r) ==
    LET q == request[r]
    IN  /\ In(r, "write")
        /\ \/ /\ q.id # Nothing
              /\ file' = [file EXCEPT ![q.id] = IF @ = Nothing THEN @ ELSE [@ EXCEPT !.content = q.body]]
              /\ Touch({q.path} \cup (IF q.id \in Files THEN {file[q.id].path} ELSE {}), q.alone)
              /\ IF q.path = README THEN To(r, "sync") ELSE End(r)
           \/ /\ q.id = Nothing /\ ~Conflict(q)
              /\ Fresh # {}
              /\ file' = [file EXCEPT ![CHOOSE i \in Fresh : TRUE] = [path |-> q.path, content |-> q.body]]
              /\ Touch({q.path}, q.alone)
              /\ IF q.path = README THEN To(r, "sync") ELSE End(r)
           \/ /\ Conflict(q)
              /\ End(r)
              /\ Touch({}, q.alone) /\ UNCHANGED file
        /\ UNCHANGED readme

\* syncReadmeToMarketplace.  A change that had the files for itself leaves the two equal.
Sync(r) ==
    /\ In(r, "sync")
    /\ readme' = Shown(request[r].body)
    /\ apart' = (apart /\ ~request[r].alone)
    /\ End(r)
    /\ UNCHANGED <<file, touched>>

-----------------------------------------------------------------------------
(* renameFunctionAsset, deleteFunctionAsset                                 *)

RenameFile(r, p, to) ==
    /\ p # to
    /\ Row(p) # {}
    /\ Begins(r, [Resting EXCEPT !.op = "rename", !.at = "collision", !.path = p, !.to = to,
                    !.id = CHOOSE i \in Row(p) : TRUE, !.body = ContentAt(p)])

CheckCollision(r) ==
    /\ In(r, "collision")
    /\ IF Row(request[r].to) = {} THEN To(r, "move") ELSE End(r)
    /\ UNCHANGED <<file, readme, apart, touched>>

\* Mutant of AfterMove: the profile of a README that was renamed is kept.
AfterMoveKeeping(q) == IF q.to = README THEN "sync" ELSE "idle"

AfterMove(q) == IF q.path = README THEN "clear" ELSE IF q.to = README THEN "sync" ELSE "idle"

MoveFile(r) ==
    LET q == request[r]
        there == Row(q.to) \ {q.id}
    IN  /\ In(r, "move")
        /\ \/ /\ there # {} /\ q.id \in Files
              /\ End(r) /\ UNCHANGED <<file, apart, touched>>
           \/ /\ there = {} \/ q.id \notin Files
              /\ file' = [file EXCEPT ![q.id] = IF @ = Nothing THEN @ ELSE [@ EXCEPT !.path = q.to]]
              /\ Touch({q.path, q.to} \cup (IF q.id \in Files THEN {file[q.id].path} ELSE {}), q.alone)
              /\ IF AfterMove(q) = "idle" THEN End(r) ELSE To(r, AfterMove(q))
        /\ UNCHANGED readme

Clear(r) ==
    /\ In(r, "clear")
    /\ readme' = Nothing
    /\ apart' = (apart /\ ~request[r].alone)
    /\ End(r)
    /\ UNCHANGED <<file, touched>>

Delete(r, p) == Begins(r, [Resting EXCEPT !.op = "delete", !.at = "remove", !.path = p])

Remove(r) ==
    /\ In(r, "remove")
    /\ file' = [i \in RowId |-> IF i \in Row(request[r].path) THEN Nothing ELSE file[i]]
    /\ Touch({request[r].path}, request[r].alone)
    /\ IF request[r].path = README THEN To(r, "clear") ELSE End(r)
    /\ UNCHANGED readme

-----------------------------------------------------------------------------
(* What deployFunction takes                                                *)

Publish(r) == Begins(r, [Resting EXCEPT !.op = "deploy", !.at = "list"])

List(r) ==
    /\ In(r, "list")
    /\ request' = [request EXCEPT ![r].at = "load", ![r].list = {file[i].path : i \in Files}]
    /\ touched' = [touched EXCEPT ![r] = {}]
    /\ UNCHANGED <<file, readme, apart>>

\* All at once, each with a query of its own.
Load(r, p) ==
    /\ In(r, "load") /\ p \in request[r].list
    /\ request' = [request EXCEPT ![r].list = @ \ {p}, ![r].bundle[p] = ContentAt(p)]
    /\ UNCHANGED <<file, readme, apart, touched>>

\* Mutant of Loaded: one file is not snapshotted.
LoadedMany(r) ==
    /\ In(r, "load") /\ request[r].list = {}
    /\ To(r, IF \E p, q \in Path : p # q /\ Nothing \notin {request[r].bundle[p], request[r].bundle[q]}
             THEN "snapshot" ELSE "done")
    /\ UNCHANGED <<file, readme, apart, touched>>

Loaded(r) ==
    /\ In(r, "load") /\ request[r].list = {}
    /\ To(r, IF request[r].bundle = NoFiles THEN "done" ELSE "snapshot")
    /\ UNCHANGED <<file, readme, apart, touched>>

\* snapshotAssetsToVersion reads the rows again.
Snapshot(r) ==
    /\ In(r, "snapshot")
    /\ request' = [request EXCEPT ![r].at = "done", ![r].snap = [p \in Path |-> ContentAt(p)]]
    /\ UNCHANGED <<file, readme, apart, touched>>

\* A statement throws, the process dies, or the deploy goes on (Deploy).
Leave(r) ==
    /\ ~In(r, "idle")
    /\ End(r)
    /\ apart' = (apart \/ In(r, "sync") \/ In(r, "clear")
                       \/ (request[r].op = "profile" /\ ~In(r, "profile")))
    /\ UNCHANGED <<file, readme, touched>>

HandleFiles(r) ==
    \/ WriteProfile(r) \/ Find(r) \/ CheckCaps(r) \/ Write(r) \/ Sync(r)
    \/ CheckCollision(r) \/ MoveFile(r) \/ Clear(r) \/ Remove(r)
    \/ Publish(r) \/ List(r) \/ Loaded(r) \/ Snapshot(r) \/ Leave(r)
    \/ \E c \in Content \cup {Nothing} : EditProfile(r, c)
    \/ \E p \in Path : \/ Delete(r, p) \/ Load(r, p)
                       \/ \E c \in Content : Put(r, p, c)
                       \/ \E to \in Path : RenameFile(r, p, to)

AssetNext == \E r \in Request : HandleFiles(r)

AssetSpec == AssetInit /\ [][AssetNext]_assetVars

-----------------------------------------------------------------------------
(* Properties                                                               *)

\* The number of files is checked before the insert: concurrent uploads exceed the limit
\* by less than their number.
FilesOvershoot == Cardinality(Files) < MaxFiles + Cardinality(Request)

\* What a deploy bundled and what it snapshotted for the version differ only in files that
\* were changed while it read them.
BundleIsSnapshot ==
    \A r \in Request : In(r, "done") =>
        \A p \in Path : request[r].bundle[p] # request[r].snap[p] => p \in touched[r]

\* The marketplace shows as much of README.md as the profile takes once no change is under
\* way, unless two changes overlapped or one ended half-way since a change of README.md
\* last ran alone.
ReadmeShown == Writers = {} /\ ~apart => readme = Shown(ContentAt(README))

=============================================================================
