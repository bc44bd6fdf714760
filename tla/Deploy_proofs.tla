---------------------------- MODULE Deploy_proofs ----------------------------
(***************************************************************************)
(* Deploys, renames, deletions and lookups for any functions, versions and *)
(* actors: what is served is uploaded and not marked failed, a stale       *)
(* cached lookup is accounted for, and the plan's limit is overshot by     *)
(* less than the number of actors.                                         *)
(*                                                                         *)
(* What an actor may still do to a version, a script or an entry is stated *)
(* of its job (JobOK); a step of one actor must leave it true of the jobs  *)
(* of all others (Others).                                                 *)
(***************************************************************************)
EXTENDS Deploy, FiniteSetTheorems, TLAPS

DeploySteps == {"count", "insert", "upload", "mark", "set", "track", "fail"}
MadeSteps == {"upload", "mark", "set", "track", "fail"}

MadeOne(a) == job[a] # None /\ job[a].at \in MadeSteps

\* The version an actor's deploy made is its own: before the deploy sets it, it is not
\* current, and when the deploy has failed it is only after that.
MadeOK(a, v) ==
    /\ job[a].handles = {v} /\ owner[v] = job[a].fn
    /\ job[a].at \in {"mark", "set"} => slug[owner[v]] = None \/ v \in script
    /\ job[a].at \in {"set", "track"} => status[v] \in {"deployed", "gone"}
    /\ job[a].at \in {"upload", "mark", "set"} => current[owner[v]] # v
    /\ job[a].at = "fail" /\ current[owner[v]] = v => v \in unsure

\* What a deletion deletes is its function's, and the scripts go once that is gone.
DeleteOK(a) ==
    /\ \A v \in job[a].handles : owner[v] = job[a].fn
    /\ job[a].at = "scripts" => slug[job[a].fn] = None

JobOK(a) ==
    job[a] # None =>
        /\ job[a].at \in DeploySteps => job[a].op \in {"deploy", "cli"}
        /\ job[a].at \in {"versions", "delete", "scripts"} => job[a].op = "delete"
        /\ job[a].at \in {"rename", "purgeNext"} => job[a].op = "rename"
        /\ job[a].op # "rename" => job[a].to = None
        /\ job[a].at \in {"purge", "purgeNext"} /\ job[a].op = "rename" => job[a].to \in Slug
        /\ job[a].at \in MadeSteps => \E v \in Version : MadeOK(a, v)
        /\ job[a].at \in {"delete", "scripts"} => DeleteOK(a)

Distinct == \A a, b \in Actor :
                MadeOne(a) /\ MadeOne(b) /\ job[a].handles = job[b].handles => a = b

\* A row that is gone has no current version, and a deleted version's function is gone.
RowInv ==
    /\ \A f \in Fn : slug[f] = None => current[f] = None
    /\ \A v \in Version :
        /\ owner[v] # None <=> status[v] # "none"
        /\ v \in handled => status[v] # "none"
        /\ status[v] = "gone" => slug[owner[v]] = None

\* An answer of the lookup, cached or still to be cached.
Sound(x) == owner[x.version] = x.fn /\ (slug[x.fn] # None => x.version \in script)
FoundInv ==
    \A r \in Visit : visit[r].at = "put" =>
        /\ \A x \in visit[r].found : Sound(x)
        /\ \A x, y \in visit[r].found : x = y

\* Actors that passed the plan's limit and have not made their function active yet.
Pending == {a \in Actor : /\ job[a] # None /\ job[a].at \in {"insert", "upload", "mark", "set"}
                          /\ slug[job[a].fn] # None /\ current[job[a].fn] = None}

LimitInv == Cardinality(Active) + Cardinality(Pending) < MaxActive + Cardinality(Actor)

IInv ==
    /\ DeployTypeOK /\ (\A a \in Actor : JobOK(a)) /\ Distinct /\ RowInv /\ FoundInv
    /\ ServedIsUploaded /\ FailedIsNotServed /\ StaleIsAccountedFor /\ LimitInv

USE DEF DeploySteps, MadeSteps

Step == DeploySteps \cup {"versions", "delete", "scripts", "rename", "purge", "purgeNext"}

-----------------------------------------------------------------------------
(* Jobs                                                                     *)

\* An actor goes on to a step, its job the same but for that, or is done.
LEMMA GoFacts ==
    ASSUME DeployTypeOK, NEW a \in Actor, job[a] # None, NEW step \in Step, Go(a, step)
    PROVE  /\ job' \in [Actor -> Job \cup {None}]
           /\ \A b \in Actor : b # a => job'[b] = job[b]
           /\ job'[a] # None /\ job'[a] \in Job /\ job'[a].at = step
           /\ job'[a].op = job[a].op /\ job'[a].fn = job[a].fn /\ job'[a].slug = job[a].slug
           /\ job'[a].to = job[a].to /\ job'[a].handles = job[a].handles
<1>1. job[a] \in Job
  BY DEF DeployTypeOK
<1> DEFINE new == [job[a] EXCEPT !.at = step]
<1>2. /\ new \in Job /\ new.at = step /\ new.op = job[a].op /\ new.fn = job[a].fn
      /\ new.slug = job[a].slug /\ new.to = job[a].to /\ new.handles = job[a].handles
  BY <1>1 DEF Job, Step
<1>3. job' = [job EXCEPT ![a] = new]
  BY DEF Go
<1> HIDE DEF new
<1> QED  BY <1>2, <1>3, NoneIsNoJob DEF DeployTypeOK

LEMMA DoneFacts ==
    ASSUME DeployTypeOK, NEW a \in Actor, Done(a)
    PROVE  /\ job' \in [Actor -> Job \cup {None}]
           /\ job'[a] = None /\ \A b \in Actor : b # a => job'[b] = job[b]
<1> QED  BY DEF Done, DeployTypeOK

LEMMA BeginFacts ==
    ASSUME DeployTypeOK, NEW a \in Actor, NEW op \in {"deploy", "cli", "delete", "rename"},
           NEW f \in Fn, NEW step \in Step, Begin(a, op, f, step)
    PROVE  /\ job' \in [Actor -> Job \cup {None}]
           /\ job[a] = None /\ slug[f] # None
           /\ \A b \in Actor : b # a => job'[b] = job[b]
           /\ job'[a] # None /\ job'[a].op = op /\ job'[a].fn = f /\ job'[a].to = None
           /\ job'[a].at = step
<1> DEFINE new == [op |-> op, fn |-> f, slug |-> slug[f], to |-> None, at |-> step, handles |-> {}]
<1>1. slug[f] \in Slug
  BY DEF DeployTypeOK, Begin
<1>2. new \in Job
  BY <1>1 DEF Job, Step
<1> QED  BY <1>2, NoneIsNoJob DEF Begin, DeployTypeOK

\* The fields of a job.
LEMMA JobFields ==
    ASSUME DeployTypeOK, NEW a \in Actor, job[a] # None
    PROVE  /\ job[a].fn \in Fn /\ job[a].slug \in Slug /\ job[a].to \in Slug \cup {None}
           /\ job[a].handles \subseteq Version
           /\ job[a].op \in {"deploy", "cli", "delete", "rename"} /\ job[a].at \in Step
           /\ job[a] \in Job
<1> QED  BY DEF DeployTypeOK, Job, Step

\* Steps of an actor leave the jobs of the others as they must be, and the answers.
Keeps(a) ==
    /\ \A v \in Version : owner[v] # None => owner'[v] = owner[v]
    /\ \A f \in Fn : slug[f] = None => slug'[f] = None
    /\ \A v \in Version : owner[v] # None /\ v \in script /\ slug'[owner[v]] # None => v \in script'
    /\ \A v \in Version : owner[v] # None /\ ~(MadeOne(a) /\ job[a].handles = {v}) =>
        /\ status[v] \in {"deployed", "gone"} => status'[v] \in {"deployed", "gone"}
        /\ current'[owner[v]] = v => current[owner[v]] = v /\ (v \in unsure => v \in unsure')

LEMMA Others ==
    ASSUME IInv, NEW a \in Actor, Keeps(a), NEW b \in Actor, b # a, job'[b] = job[b]
    PROVE  JobOK(b)'
<1>0. DeployTypeOK /\ JobOK(b) /\ Distinct
  BY DEF IInv
<1> SUFFICES ASSUME job[b] # None PROVE JobOK(b)'
  BY DEF JobOK
<1>1. /\ job[b].fn \in Fn /\ job[b].handles \subseteq Version /\ None \notin Fn
  BY <1>0, JobFields, DeployConstants DEF DeployConstants
<1>2. ASSUME NEW v \in Version, MadeOK(b, v), MadeOne(b) PROVE MadeOK(b, v)'
  <2>1. owner[v] \in Fn /\ owner[v] # None
    BY <1>1, <1>2 DEF MadeOK
  <2>2. ~(MadeOne(a) /\ job[a].handles = {v})
    BY <1>0, <1>2 DEF Distinct, MadeOK
  <2> QED  BY <1>2, <2>1, <2>2 DEF MadeOK, Keeps
<1>3. ASSUME DeleteOK(b) PROVE DeleteOK(b)'
  BY <1>1, <1>3 DEF DeleteOK, Keeps
<1> QED  BY <1>0, <1>2, <1>3 DEF JobOK, MadeOne

LEMMA AnswerIs ==
    ASSUME DeployTypeOK, NEW a, Keeps(a), NEW x \in Answer, Sound(x)
    PROVE  Sound(x)'
<1> QED  BY DeployConstants DEF DeployConstants, Answer, Sound, Keeps

-----------------------------------------------------------------------------
(* The plan's limit                                                         *)

LEMMA Finite ==
    /\ IsFiniteSet(Active) /\ IsFiniteSet(Pending)
    /\ IsFiniteSet(Actor) /\ Cardinality(Actor) \in Nat /\ Cardinality(Pending) <= Cardinality(Actor)
    /\ Cardinality(Active) \in Nat /\ Cardinality(Pending) \in Nat /\ MaxActive \in Nat \ {0}
<1>1. Active \subseteq Fn /\ Pending \subseteq Actor /\ IsFiniteSet(Fn) /\ IsFiniteSet(Actor)
  BY DeployConstants DEF Active, Pending, DeployConstants
<1> QED  BY <1>1, FS_Subset, FS_CardinalityType, DeployConstants DEF DeployConstants

LEMMA LimitKept ==
    ASSUME LimitInv, Active' \subseteq Active, Pending' \subseteq Pending
    PROVE  LimitInv'
<1>1. Cardinality(Active') <= Cardinality(Active) /\ Cardinality(Pending') <= Cardinality(Pending)
  BY Finite, FS_Subset
<1>2. Cardinality(Active') \in Nat /\ Cardinality(Pending') \in Nat
  BY Finite, FS_Subset, FS_CardinalityType
<1> QED  BY <1>1, <1>2, Finite DEF LimitInv

-----------------------------------------------------------------------------
(* Steps that only move a job                                               *)

\* An entry is fine if it is empty, accounted for, or what it was and needed no account.
LEMMA StaleKept ==
    ASSUME StaleIsAccountedFor, NEW a \in Actor, \A b \in Actor : b # a => job'[b] = job[b],
           \A s \in Slug : \/ index'[s] = {}
                           \/ s \in unpurged' \cup Owed(a)'
                           \/ /\ index'[s] = index[s] /\ Truth(s)' = Truth(s)
                              /\ s \notin unpurged \cup Owed(a)
    PROVE  StaleIsAccountedFor'
<1> SUFFICES ASSUME NEW s \in Slug, index'[s] # {}, index'[s] # Truth(s)',
                    index'[s] = index[s], Truth(s)' = Truth(s), s \notin unpurged \cup Owed(a)
             PROVE  \E b \in Actor : s \in Owed(b)'
  BY DEF StaleIsAccountedFor
<1>1. PICK b \in Actor : s \in Owed(b)
  BY DEF StaleIsAccountedFor
<1>2. Owed(b)' = Owed(b)
  BY <1>1 DEF Owed, At
<1> QED  BY <1>1, <1>2

LEMMA JobMove ==
    ASSUME IInv, DeployTypeOK', NEW a \in Actor, \A b \in Actor : b # a => job'[b] = job[b],
           UNCHANGED <<slug, current, owner, status, handled, visit>>,
           script \subseteq script', unsure \subseteq unsure',
           \A s \in Slug : index'[s] = index[s] \/ index'[s] = {},
           JobOK(a)', MadeOne(a)' => MadeOne(a) /\ job'[a].handles = job[a].handles,
           \A s \in Slug : index'[s] = {} \/ s \in unpurged' \cup Owed(a)' \/ s \notin unpurged \cup Owed(a),
           LimitInv'
    PROVE  IInv'
<1>0. /\ DeployTypeOK /\ (\A b \in Actor : JobOK(b)) /\ Distinct /\ RowInv /\ FoundInv
      /\ ServedIsUploaded /\ FailedIsNotServed /\ StaleIsAccountedFor
  BY DEF IInv
<1>1. Keeps(a)
  BY DEF Keeps
<1>2. \A b \in Actor : JobOK(b)'
  BY <1>1, Others
<1>3. Distinct'
  BY <1>0 DEF Distinct, MadeOne
<1>4. RowInv' /\ FailedIsNotServed'
  BY <1>0 DEF RowInv, FailedIsNotServed
<1>5. \A x : Sound(x) => Sound(x)'
  BY DEF Sound
<1>6. FoundInv'
  BY <1>0, <1>5 DEF FoundInv
<1>7. ServedIsUploaded'
  BY <1>0, <1>5 DEF ServedIsUploaded, Sound
<1>8. StaleIsAccountedFor'
  <2>1. \A s : Truth(s)' = Truth(s)
    BY DEF Truth
  <2> QED  BY <1>0, <2>1, StaleKept
<1> QED  BY <1>2, <1>3, <1>4, <1>6, <1>7, <1>8 DEF IInv

\* The job of an actor that is not at a step with a version of its own.
LEMMA StartStep ==
    ASSUME IInv, NEW a \in Actor, NEW f \in Fn,
           (\E op \in {"deploy", "cli"} : StartDeploy(a, f, op)) \/ StartDelete(a, f) \/ StartRename(a, f)
    PROVE  IInv'
<1>0. DeployTypeOK /\ LimitInv
  BY DEF IInv
<1>1. UNCHANGED <<fnVars, script, index, visit, unpurged, unsure>>
  BY DEF StartDeploy, StartDelete, StartRename
<1>2. PICK op \in {"deploy", "cli", "delete", "rename"},
           step \in {"count", "insert", "versions", "rename"} :
        /\ Begin(a, op, f, step)
        /\ step \in {"count", "insert"} => op \in {"deploy", "cli"}
        /\ step = "versions" => op = "delete"
        /\ step = "rename" => op = "rename"
        /\ step = "insert" => current[f] # None
  <2>1. CASE \E op \in {"deploy", "cli"} : StartDeploy(a, f, op)
    BY <2>1 DEF StartDeploy
  <2>2. CASE StartDelete(a, f)
    BY <2>2 DEF StartDelete
  <2>3. CASE StartRename(a, f)
    BY <2>3 DEF StartRename
  <2> QED  BY <2>1, <2>2, <2>3
<1>3. /\ job' \in [Actor -> Job \cup {None}]
      /\ job[a] = None /\ \A b \in Actor : b # a => job'[b] = job[b]
      /\ job'[a] # None /\ job'[a].op = op /\ job'[a].fn = f /\ job'[a].to = None
      /\ job'[a].at = step
  BY <1>0, <1>2, BeginFacts DEF Step
<1>4. DeployTypeOK'
  BY <1>0, <1>1, <1>3 DEF DeployTypeOK, Answer, fnVars
<1>5. JobOK(a)' /\ ~MadeOne(a)'
  BY <1>2, <1>3 DEF JobOK, MadeOne
<1>6. Owed(a) = {}
  BY <1>3 DEF Owed, At
<1>7. LimitInv'
  <2>1. Pending' \subseteq Pending /\ Active' \subseteq Active
    BY <1>1, <1>2, <1>3 DEF Pending, Active, fnVars
  <2> QED  BY <1>0, <2>1, LimitKept
<1> QED  BY <1>1, <1>3, <1>4, <1>5, <1>6, <1>7, JobMove DEF fnVars

\* A job ends, with what it still had to purge on record.
LEMMA DoneStep ==
    ASSUME IInv, NEW a \in Actor, Done(a),
           UNCHANGED <<fnVars, script, visit>>, unsure \subseteq unsure', unsure' \subseteq Version,
           unpurged' \subseteq Slug, index' \in [Slug -> SUBSET Answer],
           \A s \in Slug : \/ index'[s] = {}
                           \/ index'[s] = index[s] /\ (s \in unpurged \cup Owed(a) => s \in unpurged')
    PROVE  IInv'
<1>0. DeployTypeOK /\ LimitInv
  BY DEF IInv
<1>1. job' \in [Actor -> Job \cup {None}] /\ job'[a] = None /\ \A b \in Actor : b # a => job'[b] = job[b]
  BY <1>0, DoneFacts
<1>2. DeployTypeOK'
  <2>1. \A s \in Slug : \A x, y \in index'[s] : x = y
    BY <1>0 DEF DeployTypeOK
  <2> QED  BY <1>0, <1>1, <2>1 DEF DeployTypeOK, Answer, fnVars
<1>3. JobOK(a)' /\ ~MadeOne(a)'
  BY <1>1 DEF JobOK, MadeOne
<1>4. LimitInv'
  <2>1. Pending' \subseteq Pending /\ Active' \subseteq Active
    BY <1>1 DEF Pending, Active, fnVars
  <2> QED  BY <1>0, <2>1, LimitKept
<1> QED  BY <1>1, <1>2, <1>3, <1>4, JobMove DEF fnVars

\* What an actor has yet to purge, by where it is.
LEMMA OwedIs ==
    ASSUME NEW a \in Actor
    PROVE  /\ job[a] = None => Owed(a) = {}
           /\ job[a] # None =>
                /\ job[a].at = "purge" => Owed(a) = {job[a].slug, job[a].to} \cap Slug
                /\ job[a].at = "purgeNext" => Owed(a) = {job[a].to} \cap Slug
                /\ job[a].at = "scripts" => Owed(a) = {job[a].slug}
                /\ job[a].at \notin {"purge", "purgeNext", "scripts"} => Owed(a) = {}
<1>1. job[a] = None => Owed(a) = {}
  BY DEF Owed, At
<1>2. ASSUME job[a] # None, job[a].at = "purge" PROVE Owed(a) = {job[a].slug, job[a].to} \cap Slug
  BY <1>2 DEF Owed, At
<1>3. ASSUME job[a] # None, job[a].at = "purgeNext" PROVE Owed(a) = {job[a].to} \cap Slug
  BY <1>3 DEF Owed, At
<1>4. ASSUME job[a] # None, job[a].at = "scripts" PROVE Owed(a) = {job[a].slug}
  BY <1>4 DEF Owed, At
<1>5. ASSUME job[a] # None, job[a].at \notin {"purge", "purgeNext", "scripts"} PROVE Owed(a) = {}
  BY <1>5 DEF Owed, At
<1> QED  BY <1>1, <1>2, <1>3, <1>4, <1>5

LEMMA CountStep ==
    ASSUME IInv, NEW a \in Actor, CountActive(a)
    PROVE  IInv'
<1>0. DeployTypeOK /\ JobOK(a)
  BY DEF IInv
<1>1. At(a, "count") /\ UNCHANGED <<fnVars, script, index, visit, unpurged, unsure>>
  BY DEF CountActive
<1>2. Owed(a) = {}
  BY <1>1, OwedIs DEF At
<1>3. CASE Done(a)
  BY <1>0, <1>1, <1>2, <1>3, DoneStep DEF DeployTypeOK
<1>4. CASE ~(Cardinality(Active) >= MaxActive) /\ Go(a, "insert")
  <2>1. /\ job' \in [Actor -> Job \cup {None}]
        /\ \A b \in Actor : b # a => job'[b] = job[b]
        /\ job'[a] # None /\ job'[a].at = "insert"
        /\ job'[a].op = job[a].op /\ job'[a].to = job[a].to
    BY <1>0, <1>1, <1>4, GoFacts DEF At, Step
  <2>2. DeployTypeOK'
    BY <1>0, <1>1, <2>1 DEF DeployTypeOK, Answer, fnVars
  <2>3. JobOK(a)' /\ ~MadeOne(a)'
    BY <1>0, <1>1, <2>1 DEF JobOK, MadeOne, At
  <2>4. LimitInv'
    <3>1. Active' = Active /\ Pending' \subseteq Actor
      BY <1>1 DEF Active, Pending, fnVars
    <3>2. IsFiniteSet(Pending') /\ Cardinality(Pending') <= Cardinality(Actor) /\ Cardinality(Pending') \in Nat
      BY <3>1, Finite, FS_Subset, FS_CardinalityType
    <3>3. Cardinality(Active) < MaxActive
      BY <1>4, Finite
    <3> QED  BY <3>1, <3>2, <3>3, Finite DEF LimitInv
  <2> QED  BY <1>1, <1>2, <2>1, <2>2, <2>3, <2>4, JobMove DEF fnVars
<1> QED  BY <1>3, <1>4 DEF CountActive

LEMMA UploadStep ==
    ASSUME IInv, NEW a \in Actor, Upload(a)
    PROVE  IInv'
<1>0. DeployTypeOK /\ JobOK(a) /\ LimitInv
  BY DEF IInv
<1>1. At(a, "upload") /\ UNCHANGED <<fnVars, index, visit, unpurged, unsure>>
  BY DEF Upload
<1>2. PICK step \in {"mark", "fail"} :
        /\ Go(a, step) /\ script' \in {script, script \cup job[a].handles}
        /\ step = "mark" => script' = script \cup job[a].handles
  BY DEF Upload
<1>3. /\ job' \in [Actor -> Job \cup {None}]
      /\ \A b \in Actor : b # a => job'[b] = job[b]
      /\ job'[a] # None /\ job'[a].at = step
      /\ job'[a].op = job[a].op /\ job'[a].fn = job[a].fn
      /\ job'[a].to = job[a].to /\ job'[a].handles = job[a].handles
  BY <1>0, <1>1, <1>2, GoFacts DEF At, Step
<1>4. job[a].handles \subseteq Version
  BY <1>0, <1>1, JobFields DEF At
<1>5. DeployTypeOK'
  BY <1>0, <1>1, <1>2, <1>3, <1>4 DEF DeployTypeOK, Answer, fnVars
<1>6. PICK v \in Version : MadeOK(a, v)
  BY <1>0, <1>1 DEF JobOK, At
<1>7. MadeOK(a, v)'
  BY <1>1, <1>2, <1>3, <1>6 DEF MadeOK, At, fnVars
<1>8. JobOK(a)'
  BY <1>0, <1>1, <1>3, <1>7 DEF JobOK, At
<1>9. MadeOne(a)
  BY <1>1 DEF MadeOne, At
<1>10. Owed(a) = {}
  BY <1>1, OwedIs DEF At
<1>11. LimitInv'
  <2>1. Pending' \subseteq Pending /\ Active' \subseteq Active
    BY <1>1, <1>2, <1>3 DEF Pending, Active, fnVars, At
  <2> QED  BY <1>0, <2>1, LimitKept
<1> QED  BY <1>1, <1>2, <1>3, <1>5, <1>8, <1>9, <1>10, <1>11, JobMove DEF fnVars

LEMMA TrackStep ==
    ASSUME IInv, NEW a \in Actor, Track(a)
    PROVE  IInv'
<1>0. DeployTypeOK /\ JobOK(a) /\ LimitInv
  BY DEF IInv
<1>1. At(a, "track") /\ UNCHANGED <<fnVars, script, index, visit, unpurged>>
  BY DEF Track
<1>2. Owed(a) = {} /\ job[a].handles \subseteq Version
  BY <1>0, <1>1, OwedIs, JobFields DEF At
<1>3. CASE Done(a) /\ UNCHANGED unsure
  BY <1>0, <1>1, <1>2, <1>3, DoneStep DEF DeployTypeOK
<1>4. CASE Go(a, "fail") /\ unsure' = unsure \cup job[a].handles
  <2>1. /\ job' \in [Actor -> Job \cup {None}]
        /\ \A b \in Actor : b # a => job'[b] = job[b]
        /\ job'[a] # None /\ job'[a].at = "fail"
        /\ job'[a].op = job[a].op /\ job'[a].fn = job[a].fn
        /\ job'[a].to = job[a].to /\ job'[a].handles = job[a].handles
    BY <1>0, <1>1, <1>4, GoFacts DEF At, Step
  <2>2. DeployTypeOK'
    BY <1>0, <1>1, <1>2, <1>4, <2>1 DEF DeployTypeOK, Answer, fnVars
  <2>3. PICK v \in Version : MadeOK(a, v)
    BY <1>0, <1>1 DEF JobOK, At
  <2>4. MadeOK(a, v)'
    BY <1>1, <1>4, <2>1, <2>3 DEF MadeOK, fnVars
  <2>5. JobOK(a)' /\ MadeOne(a)
    BY <1>0, <1>1, <2>1, <2>4 DEF JobOK, At, MadeOne
  <2>6. LimitInv'
    <3>1. Pending' \subseteq Pending /\ Active' \subseteq Active
      BY <1>1, <2>1 DEF Pending, Active, fnVars
    <3> QED  BY <1>0, <3>1, LimitKept
  <2> QED  BY <1>1, <1>2, <1>4, <2>1, <2>2, <2>5, <2>6, JobMove DEF fnVars
<1> QED  BY <1>3, <1>4 DEF Track

LEMMA ReadVersionsStep ==
    ASSUME IInv, NEW a \in Actor, ReadVersions(a)
    PROVE  IInv'
<1> DEFINE new == [job[a] EXCEPT !.at = "delete", !.handles = {v \in handled : owner[v] = job[a].fn}]
<1>0. DeployTypeOK /\ JobOK(a) /\ LimitInv
  BY DEF IInv
<1>1. At(a, "versions") /\ UNCHANGED <<fnVars, script, index, visit, unpurged, unsure>>
  BY DEF ReadVersions
<1>2. job[a] \in Job /\ job[a] # None
  BY <1>0, <1>1, JobFields DEF At
<1>3. /\ new \in Job /\ new.at = "delete" /\ new.op = job[a].op /\ new.fn = job[a].fn /\ new.to = job[a].to
      /\ new.handles = {v \in handled : owner[v] = job[a].fn}
  BY <1>0, <1>2 DEF Job, DeployTypeOK
<1>4. job' = [job EXCEPT ![a] = new]
  BY <1>2 DEF ReadVersions, Job
<1> HIDE DEF new
<1>5. /\ job' \in [Actor -> Job \cup {None}] /\ job'[a] = new /\ new # None
      /\ \A b \in Actor : b # a => job'[b] = job[b]
  BY <1>0, <1>3, <1>4, NoneIsNoJob DEF DeployTypeOK
<1>6. DeployTypeOK'
  BY <1>0, <1>1, <1>5 DEF DeployTypeOK, Answer, fnVars
<1>7. JobOK(a)' /\ ~MadeOne(a)'
  <2>1. DeleteOK(a)'
    BY <1>1, <1>3, <1>5 DEF DeleteOK, fnVars
  <2> QED  BY <1>0, <1>1, <1>3, <1>5, <2>1 DEF JobOK, MadeOne, At
<1>8. Owed(a) = {}
  BY <1>1, OwedIs DEF At
<1>9. LimitInv'
  <2>1. Pending' \subseteq Pending /\ Active' \subseteq Active
    BY <1>1, <1>3, <1>5 DEF Pending, Active, fnVars
  <2> QED  BY <1>0, <2>1, LimitKept
<1> QED  BY <1>1, <1>5, <1>6, <1>7, <1>8, <1>9, JobMove DEF fnVars

LEMMA PurgeStep ==
    ASSUME IInv, NEW a \in Actor, Purge(a)
    PROVE  IInv'
<1> DEFINE s == IF At(a, "purgeNext") THEN job[a].to ELSE job[a].slug
<1>0. DeployTypeOK /\ JobOK(a) /\ LimitInv /\ None \notin Slug
  BY DeployConstants DEF IInv, DeployConstants
<1>1. /\ job[a] # None /\ job[a].at \in {"purge", "purgeNext"}
      /\ UNCHANGED <<fnVars, script, visit, unsure>>
      /\ \/ index' = [index EXCEPT ![s] = {}] /\ unpurged' = unpurged \ {s}
         \/ index' = index /\ unpurged' = unpurged \cup {s}
  BY DEF Purge, At
<1>2. s \in Slug
  BY <1>0, <1>1, JobFields DEF At, JobOK
<1>3. Owed(a) \ {s} \subseteq (IF job[a].at = "purge" THEN {job[a].to} ELSE {}) \cap Slug
  BY <1>1, OwedIs DEF At
<1> HIDE DEF s
<1>4. \A x \in Slug : index'[x] = {} \/ (index'[x] = index[x] /\ (x \in unpurged \cup {s} => x \in unpurged'))
  BY <1>0, <1>1, <1>2 DEF DeployTypeOK
<1>5. unpurged' \subseteq Slug /\ index' \in [Slug -> SUBSET Answer]
  BY <1>0, <1>1, <1>2 DEF DeployTypeOK
<1>6. CASE Done(a) /\ ~(At(a, "purge") /\ job[a].op = "rename")
  <2>1. Owed(a) \subseteq {s}
    BY <1>0, <1>1, <1>3, <1>6 DEF JobOK, At
  <2> QED  BY <1>0, <1>1, <1>4, <1>5, <1>6, <2>1, DoneStep DEF DeployTypeOK
<1>7. CASE Go(a, "purgeNext") /\ At(a, "purge") /\ job[a].op = "rename"
  <2>1. /\ job' \in [Actor -> Job \cup {None}]
        /\ \A b \in Actor : b # a => job'[b] = job[b]
        /\ job'[a] # None /\ job'[a].at = "purgeNext"
        /\ job'[a].op = job[a].op /\ job'[a].to = job[a].to
    BY <1>0, <1>1, <1>7, GoFacts DEF Step
  <2>2. DeployTypeOK'
    <3>1. \A z \in Slug : \A x, y \in index'[z] : x = y
      BY <1>0, <1>4 DEF DeployTypeOK
    <3> QED  BY <1>0, <1>1, <1>5, <2>1, <3>1 DEF DeployTypeOK, Answer, fnVars
  <2>3. JobOK(a)' /\ ~MadeOne(a)'
    BY <1>0, <1>1, <1>7, <2>1 DEF JobOK, MadeOne, At
  <2>4. Owed(a)' = {job[a].to} \cap Slug
    BY <2>1 DEF Owed, At
  <2>5. LimitInv'
    <3>1. Pending' \subseteq Pending /\ Active' \subseteq Active
      BY <1>1, <2>1 DEF Pending, Active, fnVars
    <3> QED  BY <1>0, <3>1, LimitKept
  <2>6. \A x \in Slug : index'[x] = {} \/ x \in unpurged' \cup Owed(a)' \/ x \notin unpurged \cup Owed(a)
    BY <1>3, <1>4, <1>7, <2>4 DEF At
  <2>7. \A x \in Slug : index'[x] = index[x] \/ index'[x] = {}
    BY <1>4
  <2> QED  BY <1>1, <2>1, <2>2, <2>3, <2>5, <2>6, <2>7, JobMove DEF fnVars
<1> QED  BY <1>1, <1>6, <1>7 DEF Purge

\* A statement or a call that throws leads to the catch or to the end.
LEMMA AbortStep ==
    ASSUME IInv, NEW a \in Actor, Abort(a)
    PROVE  IInv'
<1>0. DeployTypeOK /\ JobOK(a) /\ LimitInv
  BY DEF IInv
<1>1. job[a] # None /\ UNCHANGED <<fnVars, script, index, visit, unpurged, unsure>>
  BY DEF Abort
<1>2. CASE Done(a) /\ job[a].at \in {"count", "insert", "versions", "delete", "rename", "fail"}
  <2>1. Owed(a) = {}
    BY <1>1, <1>2, OwedIs
  <2> QED  BY <1>0, <1>1, <1>2, <2>1, DoneStep DEF DeployTypeOK
<1>3. CASE Go(a, "fail") /\ job[a].at \in {"upload", "mark", "set"}
  <2>1. /\ job' \in [Actor -> Job \cup {None}]
        /\ \A b \in Actor : b # a => job'[b] = job[b]
        /\ job'[a] # None /\ job'[a].at = "fail"
        /\ job'[a].op = job[a].op /\ job'[a].fn = job[a].fn
        /\ job'[a].to = job[a].to /\ job'[a].handles = job[a].handles
    BY <1>0, <1>1, <1>3, GoFacts DEF Step
  <2>2. DeployTypeOK'
    BY <1>0, <1>1, <2>1 DEF DeployTypeOK, Answer, fnVars
  <2>3. PICK v \in Version : MadeOK(a, v)
    BY <1>0, <1>1, <1>3 DEF JobOK
  <2>4. MadeOK(a, v)'
    BY <1>1, <1>3, <2>1, <2>3 DEF MadeOK, fnVars
  <2>5. JobOK(a)' /\ MadeOne(a)
    BY <1>0, <1>1, <1>3, <2>1, <2>4 DEF JobOK, MadeOne
  <2>6. Owed(a) = {}
    BY <1>1, <1>3, OwedIs
  <2>7. LimitInv'
    <3>1. Pending' \subseteq Pending /\ Active' \subseteq Active
      BY <1>1, <2>1 DEF Pending, Active, fnVars
    <3> QED  BY <1>0, <3>1, LimitKept
  <2> QED  BY <1>1, <2>1, <2>2, <2>5, <2>6, <2>7, JobMove DEF fnVars
<1> QED  BY <1>2, <1>3 DEF Abort

LEMMA DieStep ==
    ASSUME IInv, NEW a \in Actor, Die(a)
    PROVE  IInv'
<1>0. DeployTypeOK /\ job[a] # None
  BY DEF IInv, Die
<1>1. job[a].slug \in Slug /\ job[a].at \in Step
  BY <1>0, JobFields
<1>2. Owed(a) \subseteq Slug
  BY <1>0, <1>1, OwedIs DEF Step
<1> QED  BY <1>0, <1>2, DoneStep DEF Die, DeployTypeOK

-----------------------------------------------------------------------------
(* Steps of a deploy that change its version or its function                *)

\* The jobs of all actors, if the actor's own job is as it must be and its version is
\* the one it had.
LEMMA MadeKept ==
    ASSUME IInv, NEW a \in Actor, Keeps(a), JobOK(a)', \A b \in Actor : b # a => job'[b] = job[b],
           MadeOne(a)' => MadeOne(a) /\ job'[a].handles = job[a].handles
    PROVE  (\A b \in Actor : JobOK(b)') /\ Distinct'
<1>1. \A b \in Actor : JobOK(b)'
  BY Others
<1>2. Distinct'
  BY DEF IInv, Distinct, MadeOne
<1> QED  BY <1>1, <1>2

\* AnswerIs that were given, and those that are cached.
LEMMA AnswersKept ==
    ASSUME IInv, NEW a \in Actor, Keeps(a), UNCHANGED visit, \A s \in Slug : index'[s] \subseteq index[s]
    PROVE  FoundInv' /\ \A s \in Slug : \A x \in index'[s] : Sound(x)'
<1>0. DeployTypeOK /\ FoundInv /\ ServedIsUploaded
  BY DEF IInv
<1>1. ASSUME NEW r \in Visit, visit[r].at = "put", NEW x \in visit[r].found PROVE Sound(x)'
  <2>1. x \in Answer
    BY <1>0, <1>1 DEF DeployTypeOK, NoVisit
  <2> QED  BY <1>0, <1>1, <2>1, AnswerIs DEF FoundInv
<1>2. ASSUME NEW s \in Slug, NEW x \in index'[s] PROVE Sound(x)'
  <2>1. x \in Answer /\ Sound(x)
    BY <1>0, <1>2 DEF DeployTypeOK, ServedIsUploaded, Sound
  <2> QED  BY <1>0, <2>1, AnswerIs
<1> QED  BY <1>0, <1>1, <1>2 DEF FoundInv

LEMMA InsertStep ==
    ASSUME IInv, NEW a \in Actor, InsertVersion(a)
    PROVE  IInv'
<1>0. /\ DeployTypeOK /\ JobOK(a) /\ Distinct /\ RowInv /\ FoundInv
      /\ ServedIsUploaded /\ FailedIsNotServed /\ StaleIsAccountedFor /\ LimitInv
  BY DEF IInv
<1>1. /\ job[a] # None /\ job[a].at = "insert" /\ job[a].fn \in Fn /\ job[a] \in Job
      /\ UNCHANGED <<slug, current, handled, script, index, visit, unpurged, unsure>>
  BY <1>0, JobFields DEF InsertVersion, At
<1>2. Owed(a) = {} /\ ~MadeOne(a)
  BY <1>1, OwedIs DEF MadeOne
<1>3. CASE Done(a) /\ UNCHANGED <<owner, status>>
  BY <1>0, <1>1, <1>2, <1>3, DoneStep DEF DeployTypeOK, fnVars
<1>4. CASE slug[job[a].fn] # None /\ ~(Done(a) /\ UNCHANGED <<owner, status>>)
  <2> DEFINE f == job[a].fn
  <2>1. PICK v \in Version :
            /\ status[v] = "none" /\ status' = [status EXCEPT ![v] = "deploying"]
            /\ owner' = [owner EXCEPT ![v] = f]
            /\ job' = [job EXCEPT ![a].at = "upload", ![a].handles = {v}]
    BY <1>4 DEF InsertVersion
  <2> DEFINE new == [job[a] EXCEPT !.at = "upload", !.handles = {v}]
  <2>2. /\ new \in Job /\ new.at = "upload" /\ new.op = job[a].op /\ new.fn = f /\ new.to = job[a].to
        /\ new.handles = {v}
    BY <1>1 DEF Job
  <2>3. job' = [job EXCEPT ![a] = new]
    BY <1>0, <1>1, <2>1 DEF Job, DeployTypeOK
  <2> HIDE DEF new
  <2>4. /\ job' \in [Actor -> Job \cup {None}] /\ job'[a] = new /\ new # None
        /\ \A b \in Actor : b # a => job'[b] = job[b]
    BY <1>0, <2>2, <2>3, NoneIsNoJob DEF DeployTypeOK
  <2>5. /\ \A w \in Version : w # v => owner'[w] = owner[w] /\ status'[w] = status[w]
        /\ owner'[v] = f /\ status'[v] = "deploying" /\ owner[v] = None /\ v \notin handled
    BY <1>0, <2>1 DEF DeployTypeOK, RowInv
  <2>6. f \in Fn /\ f # None /\ None \notin Fn \cup Version
    BY <1>1, DeployConstants DEF DeployConstants
  <2> HIDE DEF f
  <2>7. DeployTypeOK'
    <3>1. owner' \in [Version -> Fn \cup {None}]
          /\ status' \in [Version -> {"none", "deploying", "deployed", "failed", "gone"}]
      BY <1>0, <2>1, <2>6 DEF DeployTypeOK
    <3> QED  BY <1>0, <1>1, <2>4, <3>1 DEF DeployTypeOK, Answer
  <2>8. Keeps(a)
    BY <1>1, <2>5 DEF Keeps
  <2>9. \A g \in Fn : current[g] # v
    BY <1>0, <2>5, <2>6 DEF ServedIsUploaded
  <2>10. MadeOK(a, v)'
    BY <1>1, <2>2, <2>4, <2>5, <2>6, <2>9 DEF MadeOK
  <2>11. JobOK(a)'
    BY <1>0, <1>1, <2>2, <2>4, <2>10 DEF JobOK
  <2>12. \A b \in Actor : JobOK(b)'
    BY <2>4, <2>8, <2>11, Others
  <2>13. Distinct'
    <3>1. ASSUME NEW b \in Actor, b # a, MadeOne(b) PROVE job[b].handles # {v}
      <4>1. PICK w \in Version : MadeOK(b, w)
        BY <3>1 DEF IInv, JobOK, MadeOne
      <4>2. job[b].fn \in Fn
        BY <1>0, <3>1, JobFields DEF MadeOne
      <4> QED  BY <2>5, <2>6, <4>1, <4>2 DEF MadeOK
    <3> QED  BY <1>0, <2>2, <2>4, <3>1 DEF Distinct, MadeOne
  <2>14. RowInv'
    BY <1>0, <1>1, <2>5, <2>6 DEF RowInv
  <2>15. FoundInv' /\ \A s \in Slug : \A x \in index'[s] : Sound(x)'
    BY <1>1, <2>8, AnswersKept
  <2>16. ServedIsUploaded' /\ FailedIsNotServed'
    <3>1. \A g \in Fn : current[g] # None => current[g] \in Version
      BY <1>0 DEF DeployTypeOK
    <3> QED  BY <1>0, <1>1, <2>5, <2>9, <2>15, <3>1 DEF ServedIsUploaded, FailedIsNotServed, Sound
  <2>17. StaleIsAccountedFor'
    <3>1. \A s : Truth(s)' = Truth(s)
      BY <1>1 DEF Truth
    <3> QED  BY <1>0, <1>1, <1>2, <2>4, <3>1, StaleKept
  <2>18. LimitInv'
    <3>1. Pending' \subseteq Pending /\ Active' \subseteq Active
      BY <1>1, <2>2, <2>4 DEF Pending, Active, f
    <3> QED  BY <1>0, <3>1, LimitKept
  <2> QED  BY <2>7, <2>12, <2>13, <2>14, <2>15, <2>16, <2>17, <2>18 DEF IInv
<1> QED  BY <1>3, <1>4 DEF InsertVersion

\* MarkDeployed and MarkVersionFailed.
LEMMA StatusStep ==
    ASSUME IInv, NEW a \in Actor, MarkDeployed(a) \/ MarkVersionFailed(a)
    PROVE  IInv'
<1>0. /\ DeployTypeOK /\ JobOK(a) /\ Distinct /\ RowInv /\ FoundInv
      /\ ServedIsUploaded /\ FailedIsNotServed /\ StaleIsAccountedFor /\ LimitInv
  BY DEF IInv
<1>1. /\ job[a] # None /\ job[a].at \in {"mark", "fail"} /\ MadeOne(a)
      /\ UNCHANGED <<slug, current, owner, script, index, visit, unpurged, unsure>>
  BY DEF MarkDeployed, MarkVersionFailed, At, MadeOne
<1>2. PICK v \in Version : MadeOK(a, v)
  BY <1>0, <1>1 DEF JobOK
<1>3. /\ job[a].fn \in Fn /\ None \notin Fn \cup Version
      /\ owner[v] # None /\ status[v] # "none"
  BY <1>0, <1>1, <1>2, JobFields, DeployConstants DEF DeployConstants, MadeOK, RowInv
<1>4. PICK new \in {"deployed", "failed"} :
        /\ SetStatus(a, new)
        /\ new = "deployed" <=> job[a].at = "mark"
        /\ \/ handled' = handled
           \/ new = "deployed" /\ handled' = handled \cup {w \in job[a].handles : status[w] # "gone"}
        /\ Done(a) \/ (new = "deployed" /\ \E step \in {"set", "fail"} : Go(a, step))
  <2>1. CASE MarkDeployed(a)
    BY <2>1 DEF MarkDeployed, At
  <2>2. CASE MarkVersionFailed(a)
    BY <2>2 DEF MarkVersionFailed, At
  <2> QED  BY <2>1, <2>2
<1>5. /\ \A w \in Version : w # v => status'[w] = status[w]
      /\ status'[v] = IF status[v] = "gone" THEN "gone" ELSE new
      /\ status' \in [Version -> {"none", "deploying", "deployed", "failed", "gone"}]
      /\ handled \subseteq handled' /\ handled' \subseteq handled \cup {v}
  BY <1>0, <1>2, <1>4 DEF SetStatus, MadeOK, DeployTypeOK
<1>6. /\ job' \in [Actor -> Job \cup {None}] /\ \A b \in Actor : b # a => job'[b] = job[b]
      /\ job'[a] # None =>
            /\ new = "deployed"
            /\ job'[a].at \in {"set", "fail"}
            /\ job'[a].op = job[a].op /\ job'[a].fn = job[a].fn
            /\ job'[a].to = job[a].to /\ job'[a].handles = job[a].handles
  <2>1. CASE Done(a)
    BY <1>0, <2>1, DoneFacts
  <2>2. CASE new = "deployed" /\ \E step \in {"set", "fail"} : Go(a, step)
    BY <1>0, <1>1, <2>2, GoFacts DEF Step
  <2> QED  BY <1>4, <2>1, <2>2
<1>7. DeployTypeOK'
  BY <1>0, <1>1, <1>5, <1>6 DEF DeployTypeOK, Answer
<1>8. Keeps(a)
  BY <1>1, <1>2, <1>5 DEF Keeps, MadeOK
<1>9. JobOK(a)'
  <2>1. CASE job'[a] = None
    BY <2>1 DEF JobOK
  <2>2. CASE job'[a] # None
    <3>1. MadeOK(a, v)'
      BY <1>1, <1>2, <1>4, <1>5, <1>6, <2>2 DEF MadeOK
    <3> QED  BY <1>0, <1>1, <1>6, <2>2, <3>1 DEF JobOK
  <2> QED  BY <2>1, <2>2
<1>10. (\A b \in Actor : JobOK(b)') /\ Distinct'
  BY <1>1, <1>6, <1>8, <1>9, MadeKept DEF MadeOne
<1>11. RowInv'
  BY <1>0, <1>1, <1>3, <1>5 DEF RowInv
<1>12. FoundInv' /\ \A s \in Slug : \A x \in index'[s] : Sound(x)'
  BY <1>1, <1>8, AnswersKept
<1>13. ServedIsUploaded'
  BY <1>0, <1>1 DEF ServedIsUploaded
<1>14. FailedIsNotServed'
  <2> SUFFICES ASSUME NEW f \in Fn, current[f] # None
               PROVE  status'[current[f]] = "deployed" \/ current[f] \in unsure
    BY <1>1 DEF FailedIsNotServed
  <2>1. current[f] \in Version /\ (status[current[f]] = "deployed" \/ current[f] \in unsure)
    BY <1>0 DEF DeployTypeOK, FailedIsNotServed
  <2>2. ASSUME current[f] = v PROVE job[a].at = "fail" /\ v \in unsure
    <3>1. f = owner[v]
      BY <1>0, <2>2 DEF ServedIsUploaded
    <3> QED  BY <1>1, <1>2, <2>2, <3>1 DEF MadeOK
  <2> QED  BY <1>5, <2>1, <2>2
<1>15. StaleIsAccountedFor'
  <2>1. \A s : Truth(s)' = Truth(s)
    BY <1>1 DEF Truth
  <2>2. Owed(a) = {}
    BY <1>1, OwedIs
  <2> QED  BY <1>0, <1>1, <1>6, <2>1, <2>2, StaleKept
<1>16. LimitInv'
  <2>1. Pending' \subseteq Pending /\ Active' \subseteq Active
    BY <1>1, <1>4, <1>6 DEF Pending, Active
  <2> QED  BY <1>0, <2>1, LimitKept
<1> QED  BY <1>7, <1>10, <1>11, <1>12, <1>13, <1>14, <1>15, <1>16 DEF IInv

\* The deploy's version becomes the current one, unless the function is gone.
LEMMA SetCurrentStep ==
    ASSUME IInv, NEW a \in Actor, SetCurrent(a)
    PROVE  IInv'
<1> DEFINE f == job[a].fn
           here == {slug[f]} \cap Slug
<1>0. /\ DeployTypeOK /\ JobOK(a) /\ Distinct /\ RowInv /\ FoundInv
      /\ ServedIsUploaded /\ FailedIsNotServed /\ StaleIsAccountedFor /\ LimitInv
  BY DEF IInv
<1>1. /\ job[a] # None /\ job[a].at = "set" /\ MadeOne(a)
      /\ UNCHANGED <<slug, owner, status, handled, script, index, visit>>
      /\ current' = IF slug[f] = None THEN current ELSE [current EXCEPT ![f] = Made(a)]
  BY DEF SetCurrent, At, MadeOne
<1>2. PICK v \in Version : MadeOK(a, v)
  BY <1>0, <1>1 DEF JobOK
<1>3. /\ f \in Fn /\ job[a].slug \in Slug /\ None \notin Fn \cup Version \cup Slug
      /\ owner[v] = f /\ job[a].handles = {v} /\ Made(a) = v
      /\ slug[f] \in Slug \cup {None}
  BY <1>0, <1>1, <1>2, JobFields, DeployConstants DEF DeployConstants, MadeOK, Made, DeployTypeOK
<1>4. PICK step \in {"track", "purge", "fail"} :
        /\ Go(a, step)
        /\ unpurged \cup here \subseteq unpurged' \cup (IF step = "purge" THEN {job[a].slug} ELSE {})
        /\ unpurged \subseteq unpurged' /\ unpurged' \subseteq unpurged \cup here
        /\ step \in {"track", "purge"} => unsure' = unsure
        /\ step = "fail" => unsure' = (unsure \ {current[f]}) \cup {v}
        /\ step = "track" => job[a].op = "cli"
        /\ step = "purge" => job[a].op = "deploy"
  <2>1. CASE job[a].op = "cli" /\ Go(a, "track") /\ unpurged' = unpurged \cup here /\ UNCHANGED unsure
    BY <2>1
  <2>2. CASE /\ job[a].op = "deploy" /\ Go(a, "purge")
             /\ unpurged' = unpurged \cup (here \ {job[a].slug}) /\ UNCHANGED unsure
    BY <2>2
  <2>3. CASE /\ Go(a, "fail") /\ unpurged' = unpurged \cup here
             /\ unsure' = (unsure \ {current[f]}) \cup job[a].handles
    BY <1>3, <2>3
  <2> QED  BY <2>1, <2>2, <2>3 DEF SetCurrent
<1>5. /\ job' \in [Actor -> Job \cup {None}] /\ \A b \in Actor : b # a => job'[b] = job[b]
      /\ job'[a] # None /\ job'[a].at = step
      /\ job'[a].op = job[a].op /\ job'[a].fn = job[a].fn /\ job'[a].slug = job[a].slug
      /\ job'[a].to = job[a].to /\ job'[a].handles = job[a].handles
  BY <1>0, <1>1, <1>4, GoFacts DEF Step
<1> HIDE DEF f
<1>6. /\ \A g \in Fn : g # f => current'[g] = current[g]
      /\ current'[f] = IF slug[f] = None THEN None ELSE v
      /\ current' \in [Fn -> Version \cup {None}]
  BY <1>0, <1>1, <1>3 DEF DeployTypeOK, RowInv
<1>7. DeployTypeOK'
  <2>1. unsure' \subseteq Version /\ unpurged' \subseteq Slug
    BY <1>0, <1>4 DEF DeployTypeOK
  <2> QED  BY <1>0, <1>1, <1>5, <1>6, <2>1 DEF DeployTypeOK, Answer
<1>8. Keeps(a)
  <2> SUFFICES ASSUME NEW w \in Version, owner[w] # None, w # v, current'[owner[w]] = w
               PROVE  current[owner[w]] = w /\ (w \in unsure => w \in unsure')
    BY <1>1, <1>3 DEF Keeps
  <2>1. owner[w] \in Fn
    BY <1>0 DEF DeployTypeOK
  <2>2. owner[w] # f /\ current[owner[w]] = w
    BY <1>3, <1>6, <2>1
  <2>3. current[f] # w
    <3>1. current[f] # None => owner[current[f]] = f
      BY <1>0, <1>3 DEF ServedIsUploaded
    <3> QED  BY <1>3, <2>2, <3>1
  <2> QED  BY <1>4, <2>2, <2>3
<1>9. JobOK(a)'
  <2>1. step # "purge" => MadeOK(a, v)'
    BY <1>1, <1>2, <1>3, <1>4, <1>5, <1>6 DEF MadeOK
  <2> QED  BY <1>0, <1>1, <1>4, <1>5, <2>1 DEF JobOK
<1>10. (\A b \in Actor : JobOK(b)') /\ Distinct'
  BY <1>1, <1>5, <1>8, <1>9, MadeKept DEF MadeOne
<1>11. RowInv'
  BY <1>0, <1>1, <1>6 DEF RowInv
<1>12. FoundInv' /\ \A s \in Slug : \A x \in index'[s] : Sound(x)'
  BY <1>1, <1>8, AnswersKept
<1>13. ServedIsUploaded'
  <2>1. slug[f] # None => v \in script
    BY <1>1, <1>2, <1>3 DEF MadeOK
  <2> QED  BY <1>0, <1>1, <1>3, <1>6, <2>1 DEF ServedIsUploaded
<1>14. FailedIsNotServed'
  <2> SUFFICES ASSUME NEW g \in Fn, current'[g] # None
               PROVE  status[current'[g]] = "deployed" \/ current'[g] \in unsure'
    BY <1>1 DEF FailedIsNotServed
  <2>1. CASE g = f
    BY <1>0, <1>1, <1>2, <1>3, <1>6, <2>1 DEF MadeOK, RowInv
  <2>2. CASE g # f
    <3>1. current[g] # current[f]
      BY <1>0, <1>3, <1>6, <2>2 DEF ServedIsUploaded
    <3> QED  BY <1>0, <1>4, <1>6, <2>2, <3>1 DEF FailedIsNotServed
  <2> QED  BY <2>1, <2>2
<1>15. StaleIsAccountedFor'
  <2>1. Owed(a) = {}
    BY <1>1, OwedIs
  <2>2. step = "purge" => job[a].slug \in Owed(a)'
    BY <1>3, <1>5 DEF Owed, At
  <2>3. \A s \in Slug : s # slug[f] => Truth(s)' = Truth(s)
    BY <1>1, <1>6 DEF Truth
  <2>4. ASSUME NEW s \in Slug PROVE s \in unpurged' \cup Owed(a)' \/ (Truth(s)' = Truth(s) /\ s \notin unpurged)
    BY <1>4, <2>2, <2>3 DEF f
  <2> QED  BY <1>0, <1>1, <1>5, <2>1, <2>4, StaleKept
<1>16. LimitInv'
  <2>1. Pending' \subseteq Pending /\ a \notin Pending'
    <3>1. \A b \in Actor : job[b] # None => job[b].fn \in Fn
      BY <1>0, JobFields
    <3> QED  BY <1>1, <1>3, <1>4, <1>5, <1>6, <3>1 DEF Pending
  <2>2. CASE slug[f] # None /\ current[f] = None
    <3>1. Active' = Active \cup {f} /\ f \notin Active
      BY <1>3, <1>6, <2>2 DEF Active
    <3>2. a \in Pending /\ Pending' \subseteq Pending \ {a}
      BY <1>1, <2>1, <2>2 DEF Pending, f
    <3>3. Cardinality(Active') = Cardinality(Active) + 1
      BY <3>1, Finite, FS_AddElement
    <3>4. Cardinality(Pending \ {a}) = Cardinality(Pending) - 1 /\ IsFiniteSet(Pending \ {a})
      BY <3>2, Finite, FS_RemoveElement
    <3>5. Cardinality(Pending') <= Cardinality(Pending) - 1 /\ Cardinality(Pending') \in Nat
      BY <3>2, <3>4, FS_Subset, FS_CardinalityType
    <3> QED  BY <1>0, <3>3, <3>5, Finite DEF LimitInv
  <2>3. CASE ~(slug[f] # None /\ current[f] = None)
    <3>1. Active' \subseteq Active
      BY <1>0, <1>6, <2>3 DEF Active, RowInv
    <3> QED  BY <1>0, <2>1, <3>1, LimitKept
  <2> QED  BY <2>2, <2>3
<1> QED  BY <1>7, <1>10, <1>11, <1>12, <1>13, <1>14, <1>15, <1>16 DEF IInv

-----------------------------------------------------------------------------
(* Renames and deletions                                                    *)

LEMMA RenameStep ==
    ASSUME IInv, NEW a \in Actor, NEW s \in Slug, Rename(a, s)
    PROVE  IInv'
<1> DEFINE f == job[a].fn
           left == {slug[f], s} \cap Slug
           new == [job[a] EXCEPT !.at = "purge", !.to = s]
<1>0. /\ DeployTypeOK /\ JobOK(a) /\ RowInv /\ FoundInv
      /\ ServedIsUploaded /\ FailedIsNotServed /\ StaleIsAccountedFor /\ LimitInv
  BY DEF IInv
<1>1. /\ job[a] # None /\ job[a].at = "rename" /\ job[a].op = "rename" /\ ~MadeOne(a)
      /\ job[a] \in Job /\ f \in Fn /\ job[a].slug \in Slug
      /\ UNCHANGED <<current, owner, status, handled, script, index, visit, unsure>>
  BY <1>0, JobFields DEF Rename, At, MadeOne, JobOK
<1>2. Owed(a) = {}
  BY <1>1, OwedIs
<1>3. /\ new \in Job /\ new.at = "purge" /\ new.op = "rename" /\ new.fn = f /\ new.to = s
      /\ new.slug = job[a].slug
  BY <1>1 DEF Job
<1>4. CASE Done(a) /\ UNCHANGED <<slug, unpurged>>
  BY <1>0, <1>1, <1>2, <1>4, DoneStep DEF DeployTypeOK, fnVars
<1>5. CASE \/ /\ slug[f] = None /\ UNCHANGED <<slug, unpurged>>
              /\ job' = [job EXCEPT ![a].at = "purge", ![a].to = s]
           \/ /\ slug[f] # None /\ (\A g \in Fn \ {f} : slug[g] # s) /\ slug' = [slug EXCEPT ![f] = s]
              /\ \/ /\ job' = [job EXCEPT ![a].at = "purge", ![a].to = s]
                    /\ unpurged' = unpurged \cup (left \ {s, job[a].slug})
                 \/ Done(a) /\ unpurged' = unpurged \cup left
  <2>1. PICK next \in {new, None} :
            /\ job' = [job EXCEPT ![a] = next]
            /\ unpurged \subseteq unpurged' /\ unpurged' \subseteq Slug
            /\ slug[f] # None => left \subseteq unpurged' \cup (IF next = new THEN {s, job[a].slug} ELSE {})
    <3>1. CASE /\ job' = [job EXCEPT ![a].at = "purge", ![a].to = s]
               /\ \/ slug[f] = None /\ unpurged' = unpurged
                  \/ unpurged' = unpurged \cup (left \ {s, job[a].slug})
      <4>1. job' = [job EXCEPT ![a] = new]
        BY <1>0, <1>1, <3>1 DEF Job, DeployTypeOK
      <4>2. unpurged' = unpurged \/ unpurged' = unpurged \cup (left \ {s, job[a].slug})
        BY <3>1
      <4>3. slug[f] # None => left \subseteq unpurged' \cup {s, job[a].slug}
        BY <3>1
      <4> HIDE DEF new
      <4> QED  BY <1>0, <4>1, <4>2, <4>3 DEF DeployTypeOK
    <3>2. CASE Done(a) /\ slug[f] # None /\ unpurged' = unpurged \cup left
      <4>1. None # new
        BY <1>3, NoneIsNoJob
      <4> HIDE DEF new
      <4> QED  BY <1>0, <3>2, <4>1 DEF Done, DeployTypeOK
    <3> HIDE DEF new, left
    <3> QED  BY <1>5, <3>1, <3>2
  <2> HIDE DEF new
  <2>2. /\ job' \in [Actor -> Job \cup {None}] /\ job'[a] = next /\ new # None
        /\ \A b \in Actor : b # a => job'[b] = job[b]
    BY <1>0, <1>3, <2>1, NoneIsNoJob DEF DeployTypeOK
  <2>3. /\ slug' \in [Fn -> Slug \cup {None}]
        /\ \A g \in Fn : g # f => slug'[g] = slug[g]
        /\ slug'[f] = slug[f] \/ (slug[f] # None /\ slug'[f] = s /\ \A g \in Fn \ {f} : slug[g] # s)
        /\ slug[f] = None => slug' = slug
    BY <1>0, <1>1, <1>5 DEF DeployTypeOK
  <2>4. None \notin Slug
    BY DeployConstants DEF DeployConstants
  <2> HIDE DEF f
  <2>5. DeployTypeOK'
    <3>1. \A g, h \in Fn : slug'[g] = slug'[h] /\ slug'[g] # None => g = h
      BY <1>0, <1>1, <2>3 DEF DeployTypeOK
    <3> QED  BY <1>0, <1>1, <2>1, <2>2, <2>3, <3>1 DEF DeployTypeOK, Answer
  <2>6. Keeps(a)
    BY <1>1, <2>3 DEF Keeps
  <2>7. JobOK(a)' /\ ~MadeOne(a)'
    BY <1>3, <2>1, <2>2 DEF JobOK, MadeOne
  <2>8. (\A b \in Actor : JobOK(b)') /\ Distinct'
    BY <2>2, <2>6, <2>7, MadeKept
  <2>9. \A g \in Fn : slug'[g] = None <=> slug[g] = None
    BY <2>3, <2>4
  <2>10. RowInv' /\ FailedIsNotServed'
    <3>1. \A v \in Version : status[v] = "gone" => slug'[owner[v]] = None
      BY <1>0, <2>3 DEF RowInv, DeployTypeOK
    <3> QED  BY <1>0, <1>1, <2>9, <3>1 DEF RowInv, FailedIsNotServed
  <2>11. FoundInv' /\ \A x \in Slug : \A y \in index'[x] : Sound(y)'
    BY <1>1, <2>6, AnswersKept
  <2>12. ServedIsUploaded'
    BY <1>0, <1>1, <2>11 DEF ServedIsUploaded, Sound
  <2>13. StaleIsAccountedFor'
    <3>1. next = new => {s, job[a].slug} \subseteq Owed(a)'
      <4>1. ASSUME next = new PROVE Owed(a)' = {job'[a].slug, job'[a].to} \cap Slug
        BY <1>3, <2>2, <4>1 DEF Owed, At
      <4> QED  BY <1>1, <1>3, <2>2, <4>1
    <3>2. \A x \in Slug : x \notin {slug[f], slug'[f]} => Truth(x)' = Truth(x)
      BY <1>1, <2>3 DEF Truth
    <3>3. slug'[f] # slug[f] => slug[f] # None /\ {slug[f], slug'[f]} \cap Slug = left
      BY <2>3 DEF f
    <3>4. slug'[f] = slug[f] => \A x \in Slug : Truth(x)' = Truth(x)
      BY <1>1, <2>3 DEF Truth
    <3>5. ASSUME NEW x \in Slug
          PROVE  x \in unpurged' \cup Owed(a)' \/ (Truth(x)' = Truth(x) /\ x \notin unpurged)
      <4> HIDE DEF left
      <4> QED  BY <2>1, <3>1, <3>2, <3>3, <3>4
    <3> QED  BY <1>0, <1>1, <1>2, <2>2, <3>5, StaleKept
  <2>14. LimitInv'
    <3>1. \A b \in Actor : job[b] # None => job[b].fn \in Fn
      BY <1>0, JobFields
    <3>2. Pending' \subseteq Pending /\ Active' \subseteq Active
      BY <1>1, <1>3, <2>1, <2>2, <2>9, <3>1 DEF Pending, Active
    <3> QED  BY <1>0, <3>2, LimitKept
  <2> QED  BY <2>5, <2>8, <2>10, <2>11, <2>12, <2>13, <2>14 DEF IInv
<1> QED  BY <1>1, <1>4, <1>5 DEF Rename

LEMMA DeleteRowsStep ==
    ASSUME IInv, NEW a \in Actor, DeleteRows(a)
    PROVE  IInv'
<1> DEFINE f == job[a].fn
           here == {slug[f]} \cap Slug
<1>0. /\ DeployTypeOK /\ JobOK(a) /\ RowInv /\ FoundInv
      /\ ServedIsUploaded /\ FailedIsNotServed /\ StaleIsAccountedFor /\ LimitInv
  BY DEF IInv
<1>1. /\ job[a] # None /\ job[a].at = "delete" /\ ~MadeOne(a)
      /\ f \in Fn /\ job[a].slug \in Slug /\ None \notin Fn \cup Version
      /\ UNCHANGED <<owner, handled, script, index, visit, unsure>>
      /\ slug' = [slug EXCEPT ![f] = None] /\ current' = [current EXCEPT ![f] = None]
      /\ status' = [v \in Version |-> IF owner[v] = f THEN "gone" ELSE status[v]]
  BY <1>0, JobFields, DeployConstants DEF DeleteRows, At, MadeOne, DeployConstants
<1>2. Owed(a) = {}
  BY <1>1, OwedIs
<1>3. \/ Go(a, "scripts") /\ unpurged' = unpurged \cup ({slug[f]} \cap (Slug \ {job[a].slug}))
      \/ Done(a) /\ unpurged' = unpurged \cup here
  BY DEF DeleteRows
<1>4. /\ job' \in [Actor -> Job \cup {None}] /\ \A b \in Actor : b # a => job'[b] = job[b]
      /\ job'[a] # None =>
           /\ job'[a].at = "scripts" /\ job'[a].op = job[a].op /\ job'[a].fn = job[a].fn
           /\ job'[a].slug = job[a].slug /\ job'[a].to = job[a].to
           /\ job'[a].handles = job[a].handles
           /\ here \subseteq unpurged' \cup {job[a].slug}
      /\ job'[a] = None => here \subseteq unpurged'
      /\ unpurged \subseteq unpurged' /\ unpurged' \subseteq unpurged \cup here
  <2>1. CASE Go(a, "scripts") /\ unpurged' = unpurged \cup ({slug[f]} \cap (Slug \ {job[a].slug}))
    BY <1>0, <1>1, <2>1, GoFacts DEF Step
  <2>2. CASE Done(a) /\ unpurged' = unpurged \cup here
    BY <1>0, <2>2, DoneFacts
  <2> QED  BY <1>3, <2>1, <2>2
<1> HIDE DEF f
<1>5. /\ \A g \in Fn : g # f => slug'[g] = slug[g] /\ current'[g] = current[g]
      /\ slug'[f] = None /\ current'[f] = None
      /\ \A v \in Version : status'[v] = IF owner[v] = f THEN "gone" ELSE status[v]
  BY <1>0, <1>1 DEF DeployTypeOK
<1>6. DeployTypeOK'
  <2>1. \A g, h \in Fn : slug'[g] = slug'[h] /\ slug'[g] # None => g = h
    BY <1>0, <1>1, <1>5 DEF DeployTypeOK
  <2>2. unpurged' \subseteq Slug
    BY <1>0, <1>4 DEF DeployTypeOK
  <2>3. status' \in [Version -> {"none", "deploying", "deployed", "failed", "gone"}]
    BY <1>0, <1>1 DEF DeployTypeOK
  <2> QED  BY <1>0, <1>1, <1>4, <2>1, <2>2, <2>3 DEF DeployTypeOK, Answer
<1>7. Keeps(a)
  <2>1. \A v \in Version : current'[owner[v]] = v /\ owner[v] # None => current[owner[v]] = v
    BY <1>0, <1>1, <1>5 DEF DeployTypeOK
  <2> QED  BY <1>1, <1>5, <2>1 DEF Keeps
<1>8. JobOK(a)' /\ ~MadeOne(a)'
  <2>1. job'[a] # None => DeleteOK(a)'
    BY <1>0, <1>1, <1>4, <1>5 DEF JobOK, DeleteOK, f
  <2> QED  BY <1>0, <1>1, <1>4, <2>1 DEF JobOK, MadeOne
<1>9. (\A b \in Actor : JobOK(b)') /\ Distinct'
  BY <1>4, <1>7, <1>8, MadeKept
<1>10. RowInv'
  <2>1. \A v \in Version : status'[v] = "gone" => slug'[owner[v]] = None
    BY <1>0, <1>1, <1>5 DEF RowInv, DeployTypeOK
  <2> QED  BY <1>0, <1>1, <1>5, <2>1 DEF RowInv
<1>11. FoundInv' /\ \A x \in Slug : \A y \in index'[x] : Sound(y)'
  BY <1>1, <1>7, AnswersKept
<1>12. ServedIsUploaded' /\ FailedIsNotServed'
  <2>1. \A g \in Fn : current[g] # None => current[g] \in Version
    BY <1>0 DEF DeployTypeOK
  <2> QED  BY <1>0, <1>1, <1>5, <1>11, <2>1 DEF ServedIsUploaded, FailedIsNotServed, Sound
<1>13. StaleIsAccountedFor'
  <2>1. job'[a] # None => Owed(a)' = {job[a].slug}
    BY <1>4 DEF Owed, At
  <2>2. \A x \in Slug : x # slug[f] => Truth(x)' = Truth(x)
    BY <1>1, <1>5 DEF Truth
  <2>3. ASSUME NEW x \in Slug
        PROVE  x \in unpurged' \cup Owed(a)' \/ (Truth(x)' = Truth(x) /\ x \notin unpurged)
    BY <1>4, <2>1, <2>2
  <2> QED  BY <1>0, <1>1, <1>2, <1>4, <2>3, StaleKept
<1>14. LimitInv'
  <2>1. \A b \in Actor : job[b] # None => job[b].fn \in Fn
    BY <1>0, JobFields
  <2>2. Pending' \subseteq Pending /\ Active' \subseteq Active
    BY <1>1, <1>4, <1>5, <2>1 DEF Pending, Active
  <2> QED  BY <1>0, <2>2, LimitKept
<1> QED  BY <1>6, <1>9, <1>10, <1>11, <1>12, <1>13, <1>14 DEF IInv

\* The scripts of a deleted function: no function that is there has one of them.
LEMMA DeleteScriptsStep ==
    ASSUME IInv, NEW a \in Actor, DeleteScripts(a)
    PROVE  IInv'
<1>0. /\ DeployTypeOK /\ JobOK(a) /\ RowInv /\ FoundInv
      /\ ServedIsUploaded /\ FailedIsNotServed /\ StaleIsAccountedFor /\ LimitInv
  BY DEF IInv
<1>1. /\ job[a] # None /\ job[a].at = "scripts" /\ ~MadeOne(a) /\ Go(a, "purge")
      /\ job[a].fn \in Fn /\ job[a].slug \in Slug /\ job[a].handles \subseteq Version
      /\ UNCHANGED <<fnVars, index, visit, unpurged, unsure>>
  BY <1>0, JobFields DEF DeleteScripts, At, MadeOne
<1>2. /\ job' \in [Actor -> Job \cup {None}]
      /\ \A b \in Actor : b # a => job'[b] = job[b]
      /\ job'[a] # None /\ job'[a].at = "purge" /\ job'[a].slug = job[a].slug
      /\ job'[a].op = job[a].op /\ job'[a].fn = job[a].fn /\ job'[a].to = job[a].to
  BY <1>0, <1>1, GoFacts DEF Step
<1>3. /\ script' \subseteq script /\ script \subseteq script' \cup job[a].handles
      /\ \A v \in job[a].handles : owner[v] = job[a].fn
      /\ slug[job[a].fn] = None /\ job[a].op = "delete"
  BY <1>0, <1>1 DEF DeleteScripts, JobOK, DeleteOK
<1>4. DeployTypeOK'
  BY <1>0, <1>1, <1>2, <1>3 DEF DeployTypeOK, Answer, fnVars
<1>5. Keeps(a)
  BY <1>1, <1>3 DEF Keeps, fnVars
<1>6. JobOK(a)' /\ ~MadeOne(a)'
  BY <1>0, <1>1, <1>2, <1>3 DEF JobOK, MadeOne
<1>7. (\A b \in Actor : JobOK(b)') /\ Distinct'
  BY <1>2, <1>5, <1>6, MadeKept
<1>8. RowInv' /\ FailedIsNotServed'
  BY <1>0, <1>1 DEF RowInv, FailedIsNotServed, fnVars
<1>9. FoundInv' /\ \A x \in Slug : \A y \in index'[x] : Sound(y)'
  BY <1>1, <1>5, AnswersKept
<1>10. ServedIsUploaded'
  <2>1. \A f \in Fn : current[f] # None => current[f] \notin job[a].handles
    BY <1>0, <1>3 DEF ServedIsUploaded, RowInv
  <2> QED  BY <1>0, <1>1, <1>3, <1>9, <2>1 DEF ServedIsUploaded, Sound, fnVars
<1>11. StaleIsAccountedFor'
  <2>1. Owed(a) = {job[a].slug}
    BY <1>1, OwedIs
  <2>2. Owed(a)' = {job'[a].slug, job'[a].to} \cap Slug
    BY <1>2 DEF Owed, At
  <2>3. \A x \in Slug : Truth(x)' = Truth(x)
    BY <1>1 DEF Truth, fnVars
  <2> QED  BY <1>0, <1>1, <1>2, <2>1, <2>2, <2>3, StaleKept
<1>12. LimitInv'
  <2>1. Pending' \subseteq Pending /\ Active' \subseteq Active
    BY <1>1, <1>2 DEF Pending, Active, fnVars
  <2> QED  BY <1>0, <2>1, LimitKept
<1> QED  BY <1>4, <1>7, <1>8, <1>9, <1>10, <1>11, <1>12 DEF IInv

-----------------------------------------------------------------------------
(* Lookups                                                                  *)

\* Steps that change only the index and a visit.
LEMMA LookupKept ==
    ASSUME IInv, DeployTypeOK', UNCHANGED <<fnVars, script, job, unsure>>,
           FoundInv', \A s \in Slug : \A x \in index'[s] : Sound(x),
           \A s \in Slug : \/ index'[s] = {} \/ s \in unpurged' \/ index'[s] = Truth(s)
                           \/ index'[s] = index[s] /\ (s \in unpurged => s \in unpurged')
    PROVE  IInv'
<1>0. /\ (\A b \in Actor : JobOK(b)) /\ Distinct /\ RowInv
      /\ ServedIsUploaded /\ FailedIsNotServed /\ StaleIsAccountedFor /\ LimitInv
  BY DEF IInv
<1>1. (\A b \in Actor : JobOK(b)') /\ Distinct' /\ RowInv'
  BY <1>0 DEF JobOK, MadeOK, DeleteOK, Distinct, MadeOne, RowInv, fnVars
<1>2. ServedIsUploaded' /\ FailedIsNotServed'
  BY <1>0 DEF ServedIsUploaded, FailedIsNotServed, Sound, fnVars
<1>3. StaleIsAccountedFor'
  <2>1. \A b : Owed(b)' = Owed(b)
    BY DEF Owed, At
  <2>2. \A s : Truth(s)' = Truth(s)
    BY DEF Truth, fnVars
  <2> QED  BY <1>0, <2>1, <2>2 DEF StaleIsAccountedFor
<1>4. LimitInv'
  <2>1. Pending' \subseteq Pending /\ Active' \subseteq Active
    BY DEF Pending, Active, fnVars
  <2> QED  BY <1>0, <2>1, LimitKept
<1> QED  BY <1>1, <1>2, <1>3, <1>4 DEF IInv

\* What a lookup answers is of one function, and its version is uploaded.
LEMMA TruthIs ==
    ASSUME IInv, NEW s \in Slug
    PROVE  /\ Truth(s) \in SUBSET Answer /\ \A x, y \in Truth(s) : x = y
           /\ \A x \in Truth(s) : Sound(x)
<1>0. DeployTypeOK /\ ServedIsUploaded /\ None \notin Slug
  BY DeployConstants DEF IInv, DeployConstants
<1>1. ASSUME NEW x \in Truth(s)
      PROVE  \E f \in Fn : slug[f] = s /\ current[f] # None /\ x = [fn |-> f, version |-> current[f]]
  BY <1>1 DEF Truth
<1>2. \A x \in Truth(s) : x \in Answer
  BY <1>0, <1>1 DEF DeployTypeOK, Answer
<1>3. \A x, y \in Truth(s) : x = y
  BY <1>0, <1>1 DEF DeployTypeOK
<1>4. \A x \in Truth(s) : Sound(x)
  BY <1>0, <1>1 DEF ServedIsUploaded, Sound
<1> QED  BY <1>2, <1>3, <1>4

LEMMA VisitStep ==
    ASSUME IInv, NEW r \in Visit, NEW found \in SUBSET Answer, NEW s \in Slug,
           UNCHANGED <<fnVars, script, job, unsure, index, unpurged>>,
           NEW step \in {"lookup", "put"},
           visit' \in {[visit EXCEPT ![r] = [at |-> step, slug |-> s, found |-> found]],
                       [visit EXCEPT ![r] = NoVisit]},
           step = "put" => found = Truth(s)
    PROVE  IInv'
<1>0. DeployTypeOK /\ FoundInv /\ ServedIsUploaded
  BY DEF IInv
<1>1. DeployTypeOK'
  BY <1>0 DEF DeployTypeOK, Answer, fnVars
<1>2. FoundInv'
  <2> SUFFICES ASSUME NEW q \in Visit, visit'[q].at = "put", NEW x \in visit'[q].found PROVE Sound(x)
    <3>1. ASSUME NEW q \in Visit, visit'[q].at = "put" PROVE \A x, y \in visit'[q].found : x = y
      <4>1. CASE q # r
        BY <1>0, <3>1, <4>1 DEF DeployTypeOK, FoundInv
      <4>2. CASE q = r
        <5>1. visit'[r].found = Truth(s)
          BY <1>0, <3>1, <4>2 DEF DeployTypeOK, NoVisit
        <5> QED  BY <4>2, <5>1, TruthIs
      <4> QED  BY <4>1, <4>2
    <3> QED  BY <3>1 DEF FoundInv, Sound, fnVars
  <2>1. CASE q # r
    BY <1>0, <2>1 DEF DeployTypeOK, FoundInv
  <2>2. CASE q = r
    <3>1. visit'[r].found = Truth(s)
      BY <1>0, <2>2 DEF DeployTypeOK, NoVisit
    <3> QED  BY <2>2, <3>1, TruthIs
  <2> QED  BY <2>1, <2>2
<1>3. \A z \in Slug : \A x \in index'[z] : Sound(x)
  BY <1>0 DEF ServedIsUploaded, Sound
<1> QED  BY <1>1, <1>2, <1>3, LookupKept

LEMMA LookupStep ==
    ASSUME IInv, NEW r \in Visit,
           Lookup(r) \/ GiveUp(r) \/ \E s \in Slug : Miss(r, s)
    PROVE  IInv'
<1>0. DeployTypeOK
  BY DEF IInv
<1>1. CASE \E s \in Slug : Miss(r, s)
  <2>1. PICK s \in Slug : Miss(r, s)
    BY <1>1
  <2>2. /\ UNCHANGED <<fnVars, script, job, unsure, index, unpurged>>
        /\ visit' = [visit EXCEPT ![r] = [at |-> "lookup", slug |-> s, found |-> {}]]
    BY <2>1 DEF Miss
  <2>3. {} \in SUBSET Answer /\ "lookup" \in {"lookup", "put"} /\ "lookup" # "put"
    OBVIOUS
  <2> QED  BY <2>2, <2>3, VisitStep
<1>2. CASE Lookup(r) \/ GiveUp(r)
  <2>1. visit[r] # NoVisit /\ visit[r].slug \in Slug
    BY <1>0, <1>2 DEF Lookup, GiveUp, DeployTypeOK, NoVisit
  <2>2. Truth(visit[r].slug) \in SUBSET Answer
    BY <2>1, TruthIs
  <2>3. visit' \in {[visit EXCEPT ![r] = [at |-> "put", slug |-> visit[r].slug, found |-> Truth(visit[r].slug)]],
                    [visit EXCEPT ![r] = NoVisit]}
    BY <1>2 DEF Lookup, GiveUp
  <2>4. UNCHANGED <<fnVars, script, job, unsure, index, unpurged>>
    BY <1>2 DEF Lookup, GiveUp
  <2> QED  BY <2>1, <2>2, <2>3, <2>4, VisitStep
<1> QED  BY <1>1, <1>2

LEMMA IndexStep ==
    ASSUME IInv, (\E r \in Visit : PutIndex(r)) \/ (\E s \in Slug : Lapse(s))
    PROVE  IInv'
<1>0. DeployTypeOK /\ FoundInv /\ ServedIsUploaded
  BY DEF IInv
<1>1. UNCHANGED <<fnVars, script, job, unsure>>
  BY DEF PutIndex, Lapse
<1>2. PICK s \in Slug, found \in SUBSET Answer :
        /\ index' = [index EXCEPT ![s] = found]
        /\ \A x, y \in found : x = y
        /\ \A x \in found : Sound(x)
        /\ found = {} \/ found = Truth(s) \/ s \in unpurged'
        /\ unpurged' \in {unpurged \ {s}, unpurged \cup {s}}
        /\ \A r \in Visit : visit'[r] = visit[r] \/ visit'[r] = NoVisit
        /\ visit' \in [Visit -> [at : {"lookup", "put"}, slug : Slug, found : SUBSET Answer] \cup {NoVisit}]
  <2>1. CASE \E r \in Visit : PutIndex(r)
    <3>1. PICK r \in Visit : PutIndex(r)
      BY <2>1
    <3>2. visit[r].at = "put" /\ visit[r].slug \in Slug /\ visit[r].found \in SUBSET Answer
      BY <1>0, <3>1 DEF PutIndex, DeployTypeOK, NoVisit
    <3>3. \A x \in visit[r].found : Sound(x)
      BY <1>0, <3>2 DEF FoundInv
    <3>4. \A x, y \in visit[r].found : x = y
      BY <1>0, <3>2 DEF FoundInv
    <3>5. /\ index' = [index EXCEPT ![visit[r].slug] = visit[r].found]
          /\ visit' = [visit EXCEPT ![r] = NoVisit]
          /\ unpurged' = IF visit[r].found = Truth(visit[r].slug)
                         THEN unpurged \ {visit[r].slug} ELSE unpurged \cup {visit[r].slug}
      BY <3>1 DEF PutIndex
    <3>6. /\ \A q \in Visit : visit'[q] = visit[q] \/ visit'[q] = NoVisit
          /\ visit' \in [Visit -> [at : {"lookup", "put"}, slug : Slug, found : SUBSET Answer] \cup {NoVisit}]
      BY <1>0, <3>5 DEF DeployTypeOK
    <3> QED  BY <3>2, <3>3, <3>4, <3>5, <3>6
  <2>2. CASE \E s \in Slug : Lapse(s)
    <3>1. PICK s \in Slug : Lapse(s)
      BY <2>2
    <3>2. index' = [index EXCEPT ![s] = {}] /\ unpurged' = unpurged \ {s} /\ visit' = visit
      BY <3>1 DEF Lapse
    <3>3. {} \in SUBSET Answer
      OBVIOUS
    <3> QED  BY <1>0, <3>2, <3>3 DEF DeployTypeOK
  <2> QED  BY <2>1, <2>2
<1>3. /\ index' \in [Slug -> SUBSET Answer]
      /\ index'[s] = found /\ \A z \in Slug : z # s => index'[z] = index[z]
  BY <1>0, <1>2 DEF DeployTypeOK
<1>4. DeployTypeOK'
  <2>1. \A z \in Slug : \A x, y \in index'[z] : x = y
    BY <1>0, <1>2, <1>3 DEF DeployTypeOK
  <2>2. unpurged' \subseteq Slug
    BY <1>0, <1>2 DEF DeployTypeOK
  <2> QED  BY <1>0, <1>1, <1>2, <1>3, <2>1, <2>2 DEF DeployTypeOK, Answer, fnVars
<1>5. FoundInv'
  BY <1>0, <1>1, <1>2 DEF FoundInv, Sound, NoVisit, fnVars
<1>6. \A z \in Slug : \A x \in index'[z] : Sound(x)
  <2>1. \A z \in Slug : \A x \in index[z] : Sound(x)
    BY <1>0 DEF ServedIsUploaded, Sound
  <2> QED  BY <1>2, <1>3, <2>1
<1> QED  BY <1>1, <1>2, <1>3, <1>4, <1>5, <1>6, LookupKept

-----------------------------------------------------------------------------
(* The theorems                                                             *)

LEMMA InitInv == DeployInit => IInv
<1> SUFFICES ASSUME DeployInit PROVE IInv
  OBVIOUS
<1> USE DEF DeployInit
<1>0. None \notin Slug \cup Version \cup Fn
  BY DeployConstants DEF DeployConstants
<1>1. DeployTypeOK
  <2>1. visit \in [Visit -> [at : {"lookup", "put"}, slug : Slug, found : SUBSET Answer] \cup {NoVisit}]
    OBVIOUS
  <2>2. index \in [Slug -> SUBSET Answer]
    OBVIOUS
  <2> QED  BY <2>1, <2>2 DEF DeployTypeOK
<1>2. (\A a \in Actor : JobOK(a)) /\ Distinct
  BY DEF JobOK, Distinct, MadeOne
<1>3. RowInv /\ FailedIsNotServed
  BY <1>0 DEF RowInv, FailedIsNotServed
<1>4. FoundInv /\ ServedIsUploaded /\ StaleIsAccountedFor
  BY DEF FoundInv, NoVisit, ServedIsUploaded, StaleIsAccountedFor
<1>5. LimitInv
  <2>1. Active = {} /\ Pending = {}
    BY DEF Active, Pending
  <2> QED  BY <2>1, Finite, FS_EmptySet DEF LimitInv
<1> QED  BY <1>1, <1>2, <1>3, <1>4, <1>5 DEF IInv

LEMMA NextInv == IInv /\ [DeployNext]_deployVars => IInv'
<1> SUFFICES ASSUME IInv, [DeployNext]_deployVars PROVE IInv'
  OBVIOUS
<1>1. CASE \E a \in Actor : Act(a)
  <2>1. PICK a \in Actor : Act(a)
    BY <1>1
  <2>2. CASE CountActive(a) \/ InsertVersion(a) \/ Upload(a) \/ MarkDeployed(a) \/ SetCurrent(a)
    BY <2>2, CountStep, InsertStep, UploadStep, StatusStep, SetCurrentStep
  <2>3. CASE Track(a) \/ MarkVersionFailed(a) \/ ReadVersions(a) \/ DeleteRows(a) \/ DeleteScripts(a)
    BY <2>3, TrackStep, StatusStep, ReadVersionsStep, DeleteRowsStep, DeleteScriptsStep
  <2>4. CASE Purge(a) \/ Abort(a) \/ Die(a) \/ \E s \in Slug : Rename(a, s)
    BY <2>4, PurgeStep, AbortStep, DieStep, RenameStep
  <2>5. CASE \E f \in Fn : \/ \E op \in {"deploy", "cli"} : StartDeploy(a, f, op)
                           \/ StartDelete(a, f) \/ StartRename(a, f)
    BY <2>5, StartStep
  <2> QED  BY <2>1, <2>2, <2>3, <2>4, <2>5 DEF Act
<1>2. CASE \E r \in Visit : Lookup(r) \/ PutIndex(r) \/ GiveUp(r) \/ \E s \in Slug : Miss(r, s)
  BY <1>2, LookupStep, IndexStep
<1>3. CASE \E s \in Slug : Lapse(s)
  BY <1>3, IndexStep
<1>4. CASE UNCHANGED deployVars
  BY <1>4 DEF IInv, deployVars, fnVars, DeployTypeOK, JobOK, MadeOK, DeleteOK, Distinct, MadeOne,
     RowInv, FoundInv, Sound, ServedIsUploaded, FailedIsNotServed, StaleIsAccountedFor, Owed, At,
     Truth, LimitInv, Active, Pending
<1> QED  BY <1>1, <1>2, <1>3, <1>4 DEF DeployNext

LEMMA Invariant == DeploySpec => []IInv
<1> QED  BY InitInv, NextInv, PTL DEF DeploySpec

\* Functions, versions, entries, jobs and visits keep their types.
THEOREM DeployTypeCorrect == DeploySpec => []DeployTypeOK
<1>1. IInv => DeployTypeOK
  BY DEF IInv
<1> QED  BY Invariant, <1>1, PTL

\* What is current, and what a cached lookup leads to, is uploaded.
THEOREM ServedCorrect == DeploySpec => []ServedIsUploaded
<1>1. IInv => ServedIsUploaded
  BY DEF IInv
<1> QED  BY Invariant, <1>1, PTL

\* A failed deploy is not what is served, unless it failed after it was.
THEOREM FailedCorrect == DeploySpec => []FailedIsNotServed
<1>1. IInv => FailedIsNotServed
  BY DEF IInv
<1> QED  BY Invariant, <1>1, PTL

\* A cached lookup is the truth, or somebody is to purge it or failed to.
THEOREM StaleCorrect == DeploySpec => []StaleIsAccountedFor
<1>1. IInv => StaleIsAccountedFor
  BY DEF IInv
<1> QED  BY Invariant, <1>1, PTL

\* Deploys that count at the same time overshoot the limit by less than their number.
THEOREM OvershootCorrect == DeploySpec => []ActiveOvershoot
<1>1. IInv => ActiveOvershoot
  BY Finite DEF IInv, LimitInv, ActiveOvershoot
<1> QED  BY Invariant, <1>1, PTL

=============================================================================
