----------------------------- MODULE Integrations -----------------------------
(***************************************************************************)
(* A workspace's GitHub connection (apps/web/src/server/                   *)
(* github-integrations.ts) and the metadata column of its organization,    *)
(* one JSON document that five features read, change and write back as a   *)
(* whole: the GitHub token, the onboarding skip, the selected repositories,*)
(* the AI and vector settings (integrations.ts) and the SDK key            *)
(* (api-tokens.ts).                                                        *)
(*                                                                         *)
(* A task is a request; its steps are a list, and a step that writes what  *)
(* it read is two statements, a look and a write.  One repository stands   *)
(* for all.                                                                *)
(***************************************************************************)
EXTENDS Sequences

CONSTANTS
    Task,
    Field       \* the fields of the document looked at

ASSUME LinkConstants ==
    "token" \in Field /\ Field \subseteq {"token", "skip", "picks", "settings", "sdkKey"}

VARIABLES
    meta,       \* the fields of organization.metadata that are set
    link,       \* github_installation: at most one row, unique on (org, 0)
    repo,       \* github_repo_access has the row
    task,       \* what a request is doing
    wanted,     \* the fields set by the last edit of each (a history)
    unsound,    \* fields wrong since an overtaken write or a save of the settings (a history)
    torn        \* the connection's tables may disagree (a history)

linkVars == <<meta, link, repo, task, wanted, unsound, torn>>

Program == [connect |-> <<"storeToken", "unskip", "link", "sync">>,
            disconnect |-> <<"unlink", "removeRepos", "clearToken", "unpick">>,
            refresh |-> <<"needToken", "sync">>,
            select |-> <<"pick">>, deselect |-> <<"unpick">>, skip |-> <<"skip">>,
            settings |-> <<"saveSettings">>, sdk |-> <<"lackKey", "storeKey">>]

Connecting == {"connect", "disconnect", "refresh"}

NoTask == [flow |-> "none", todo |-> <<>>, looked |-> FALSE, read |-> {}, found |-> FALSE, alone |-> TRUE]

LinkTypeOK ==
    /\ meta \subseteq Field /\ wanted \subseteq Field /\ unsound \subseteq Field
    /\ link \in {"none", "active", "disconnected"}
    /\ repo \in BOOLEAN /\ torn \in BOOLEAN
    /\ DOMAIN task = Task
    /\ \A t \in Task :
        /\ task[t].flow \in DOMAIN Program \cup {"none"}
        /\ task[t].flow = "none" => task[t] = NoTask
        /\ task[t].read \subseteq Field
        /\ {task[t].looked, task[t].found, task[t].alone} \subseteq BOOLEAN

LinkInit ==
    /\ meta = {} /\ wanted = {} /\ unsound = {}
    /\ link = "none" /\ repo = FALSE /\ torn = FALSE
    /\ task = [t \in Task |-> NoTask]

Rest(t) == task[t].flow = "none"
Doing(t, step) == ~Rest(t) /\ Head(task[t].todo) = step
Connections == {t \in Task : task[t].flow \in Connecting}

\* A step is done: on to the next one.  A connect or disconnect that had the tables for
\* itself leaves them whole.
Advance(t) ==
    LET q == task[t]
        last == Len(q.todo) = 1
    IN  /\ task' = [task EXCEPT ![t] =
                        IF last THEN NoTask
                        ELSE [q EXCEPT !.todo = Tail(@), !.looked = FALSE, !.read = {}, !.found = FALSE]]
        /\ torn' = IF ~last \/ q.flow \notin Connecting THEN torn
                   ELSE IF ~q.alone THEN TRUE ELSE torn /\ q.flow = "refresh"

\* The request ends at once: an error, or the process died.
Break(t) ==
    /\ task' = [task EXCEPT ![t] = NoTask]
    /\ torn' = (torn \/ task[t].flow \in Connecting)

Look(t, read, found) ==
    /\ ~task[t].looked
    /\ task' = [task EXCEPT ![t].looked = TRUE, ![t].read = read, ![t].found = found]
    /\ UNCHANGED <<meta, link, repo, wanted, unsound, torn>>

-----------------------------------------------------------------------------

StartTask(t, f) ==
    /\ Rest(t)
    /\ task' = [s \in Task |->
                 IF s = t THEN [NoTask EXCEPT !.flow = f, !.todo = Program[f],
                                  !.alone = f \notin Connecting \/ Connections = {}]
                 ELSE IF f \in Connecting /\ s \in Connections THEN [task[s] EXCEPT !.alone = FALSE]
                 ELSE task[s]]
    /\ UNCHANGED <<meta, link, repo, wanted, unsound, torn>>

Puts == [storeToken |-> {"token"}, skip |-> {"skip"}, pick |-> {"picks"},
         saveSettings |-> {"settings"}, storeKey |-> {"sdkKey"},
         clearToken |-> {}, unskip |-> {}, unpick |-> {}]
Takes == [storeToken |-> {}, skip |-> {}, pick |-> {}, saveSettings |-> {}, storeKey |-> {},
          clearToken |-> {"token"}, unskip |-> {"skip"}, unpick |-> {"picks"}]

\* Mutant of Kept: taking the token away takes the other secrets with it.
KeptPublic(edit) == IF edit = "clearToken" THEN Field \ {"sdkKey"} ELSE Field

\* updateWorkspaceIntegrations writes the settings and the secrets, and nothing else.
Kept(edit) == IF edit = "saveSettings" THEN {"settings", "token", "sdkKey"} ELSE Field

\* What NothingLost allows it to drop.
Dropped(edit) == IF edit = "saveSettings" THEN {"picks", "skip"} ELSE {}

Apart(a, b) == (a \ b) \cup (b \ a)

ReadMeta(t) ==
    /\ \E e \in DOMAIN Puts : Doing(t, e)
    /\ Look(t, meta, FALSE)

WriteMeta(t, e) ==
    LET read == task[t].read
        overtaken == Apart(read, meta)
    IN  /\ Doing(t, e) /\ task[t].looked
        /\ meta' = Field \cap (((read \cap Kept(e)) \cup Puts[e]) \ Takes[e])
        /\ wanted' = Field \cap ((wanted \cup Puts[e]) \ Takes[e])
        /\ unsound' = (unsound \cup overtaken \cup Dropped(e)) \cap Apart(meta', wanted')
        /\ Advance(t)
        /\ UNCHANGED <<link, repo>>

\* ensureWorkspaceSdkApiKey and refreshGithubReposForOrg look at a field first.
LookForKey(t) ==
    /\ Doing(t, "lackKey")
    /\ IF "sdkKey" \in meta THEN Break(t) ELSE Advance(t)
    /\ UNCHANGED <<meta, link, repo, wanted, unsound>>

LookForToken(t) ==
    /\ Doing(t, "needToken")
    /\ task' = [task EXCEPT ![t] = IF "token" \in meta THEN [task[t] EXCEPT !.todo = Tail(task[t].todo)]
                                   ELSE NoTask]
    /\ torn' = (torn \/ "token" \in unsound)
    /\ UNCHANGED <<meta, link, repo, wanted, unsound>>

FindLink(t) == Doing(t, "link") /\ Look(t, {}, link = "active")

\* Mutant of Link: no unique index on (org, installation).
LinkAnyway(t) ==
    /\ Doing(t, "link") /\ task[t].looked
    /\ link' = "active" /\ Advance(t)
    /\ UNCHANGED <<meta, repo, wanted, unsound>>

\* The row that was found active is made active again by id; else a row is inserted with
\* the installation id 0, which conflicts with a row that is there, disconnected or not.
Link(t) ==
    /\ Doing(t, "link") /\ task[t].looked
    /\ \/ /\ task[t].found \/ link = "none"
          /\ link' = "active" /\ Advance(t)
       \/ /\ ~task[t].found /\ link # "none"
          /\ Break(t) /\ UNCHANGED link
    /\ UNCHANGED <<meta, repo, wanted, unsound>>

FindRepo(t) == Doing(t, "sync") /\ Look(t, {}, repo)

\* An update changes no row that is gone; an insert conflicts with one that has come.
SyncRepo(t) ==
    /\ Doing(t, "sync") /\ task[t].looked
    /\ repo' = (repo \/ ~task[t].found)
    /\ IF repo /\ ~task[t].found THEN Break(t) ELSE Advance(t)
    /\ UNCHANGED <<meta, link, wanted, unsound>>

Unlink(t) ==
    /\ Doing(t, "unlink")
    /\ link' = IF link = "active" THEN "disconnected" ELSE link
    /\ Advance(t)
    /\ UNCHANGED <<meta, repo, wanted, unsound>>

\* Mutant of RemoveRepos: the rows of a disconnected installation are kept.
RemoveReposLater(t) ==
    /\ Doing(t, "removeRepos")
    /\ Advance(t)
    /\ UNCHANGED <<meta, link, repo, wanted, unsound>>

RemoveRepos(t) ==
    /\ Doing(t, "removeRepos")
    /\ repo' = FALSE
    /\ Advance(t)
    /\ UNCHANGED <<meta, link, wanted, unsound>>

BreakOff(t) ==
    /\ ~Rest(t)
    /\ Break(t)
    /\ UNCHANGED <<meta, link, repo, wanted, unsound>>

Do(t) ==
    \/ \E f \in DOMAIN Program : StartTask(t, f)
    \/ ReadMeta(t) \/ \E e \in DOMAIN Puts : WriteMeta(t, e)
    \/ LookForKey(t) \/ LookForToken(t) \/ FindLink(t) \/ Link(t) \/ FindRepo(t) \/ SyncRepo(t)
    \/ Unlink(t) \/ RemoveRepos(t) \/ BreakOff(t)

LinkNext == \E t \in Task : Do(t)

LinkSpec == LinkInit /\ [][LinkNext]_linkVars

-----------------------------------------------------------------------------
(* Properties                                                               *)

\* No feature loses what another one stored: a field of the metadata is what its last edit
\* made it, unless a write that had been overtaken put an older value back, or a save of
\* the settings dropped it.
NothingLost == \A f \in Field \ unsound : f \in meta <=> f \in wanted

\* Once no connect, disconnect or refresh is under way, the workspace has a token iff it
\* is connected, and no repositories without, unless the last of them overlapped another,
\* ended half-way, as every reconnect after a disconnect does, or used a token left over.
ConnectionIsWhole ==
    Connections = {} /\ ~torn /\ "token" \notin unsound =>
        /\ link = "active" <=> "token" \in meta
        /\ repo => link = "active"

\* A disconnected workspace is connected again only by a connect that raced the disconnect:
\* its row is in the way of any other.
ReconnectIsRace ==
    [][link = "disconnected" /\ link' = "active" =>
          \E t \in Connections : Doing(t, "link") /\ ~task[t].alone]_linkVars

=============================================================================
