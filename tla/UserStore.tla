----------------------------- MODULE UserStore -----------------------------
(***************************************************************************)
(* The user preferences of internal/storage: for each user a Redis hash of *)
(* the task types enabled or disabled, a set of all users, and for each    *)
(* task type the set of users who enabled it, from which the scheduler     *)
(* takes the users it pushes jobs for.                                     *)
(*                                                                         *)
(* An update is a pipeline: its commands are sent together and Redis runs  *)
(* each one atomically, but not the pipeline (Watch is given no keys and   *)
(* tx.Pipeline sends no MULTI).  The commands of other updates come in     *)
(* between, and a connection that breaks leaves a pipeline half done.  A   *)
(* caller that gives up on a pipeline still under way and starts the next  *)
(* one is two writers.                                                     *)
(***************************************************************************)
EXTENDS Integers

CONSTANTS
  Writers,     \* the callers of the user store
  Users,
  Types,       \* task types
  Prefs,       \* EnabledTasks of the preferences that are saved
  MaxUpdates,  \* bound: updates in a behaviour
  MaxBreaks,   \* bound: broken pipelines in a behaviour
  NoUser       \* the user of a writer that updates nothing

\* Preferences say enabled or disabled for some of the types.
Preferences == UNION {[S -> BOOLEAN] : S \in SUBSET Types}

\* A Redis hash without fields, and what HSET of some fields makes of a hash.
NoTasks == [t \in {} |-> FALSE]
Merged(to, hash) ==
  [t \in DOMAIN to \cup DOMAIN hash |-> IF t \in DOMAIN to THEN to[t] ELSE hash[t]]

ASSUME ConstantsAssumption ==
  /\ Prefs \subseteq Preferences
  /\ MaxUpdates \in Nat
  /\ MaxBreaks \in Nat
  /\ NoUser \notin Users

VARIABLES
  tasks,    \* Redis: the tasks hash of each user
  users,    \* Redis: the set of all users
  index,    \* Redis: the set of users of each task type
  user,     \* writer: whose preferences it updates
  reading,  \* writer: whether it is DeleteUser before GetUserPreference returned
  pipe,     \* writer: the commands of its pipeline that were not executed yet, by stage
  covers,   \* writer: the types its pipeline sets in the index
  alone,    \* history: whether no other update of the user overlapped this one
  clean,    \* history: users and types whose last update completed alone
  updates,  \* number of updates so far
  breaks    \* number of broken pipelines so far

storeVars == <<tasks, users, index>>
writerVars == <<user, reading, pipe, covers>>
vars == <<storeVars, writerVars, alone, clean, updates, breaks>>

\* The commands of an update of one user.
Commands ==
  [cmd : {"clear"}] \cup
  [cmd : {"set"}, to : Preferences] \cup
  [cmd : {"listUser", "unlistUser"}] \cup
  [cmd : {"index", "unindex"}, type : Types]

\* A pipeline sends its commands in stages: those on the tasks hash, on the set of
\* users and on the index.  The last are sent in an arbitrary order, that of a Go
\* map.
Stages == 1..4
Nothing == <<{}, {}, {}, {}>>

TypeOK ==
  /\ tasks \in [Users -> Preferences]
  /\ users \subseteq Users
  /\ index \in [Types -> SUBSET Users]
  /\ user \in [Writers -> Users \cup {NoUser}]
  /\ reading \in [Writers -> BOOLEAN]
  /\ pipe \in [Writers -> [Stages -> SUBSET Commands]]
  /\ covers \in [Writers -> SUBSET Types]
  /\ alone \in [Writers -> BOOLEAN]
  /\ clean \subseteq Users \X Types
  /\ updates \in Nat
  /\ breaks \in Nat

Init ==
  /\ tasks = [u \in Users |-> NoTasks]
  /\ users = {}
  /\ index = [t \in Types |-> {}]
  /\ user = [w \in Writers |-> NoUser]
  /\ reading = [w \in Writers |-> FALSE]
  /\ pipe = [w \in Writers |-> Nothing]
  /\ covers = [w \in Writers |-> {}]
  /\ alone = [w \in Writers |-> TRUE]
  /\ clean = {}
  /\ updates = 0
  /\ breaks = 0

-----------------------------------------------------------------------------
\* The pipelines.

Clear == [cmd |-> "clear"]
SetTasks(to) == [cmd |-> "set", to |-> to]
ListUser == [cmd |-> "listUser"]
UnlistUser == [cmd |-> "unlistUser"]
IndexUser(t) == [cmd |-> "index", type |-> t]
UnindexUser(t) == [cmd |-> "unindex", type |-> t]

EnablePipe(t) == <<{}, {SetTasks([s \in {t} |-> TRUE])}, {ListUser}, {IndexUser(t)}>>

\* Mutant of DisablePipe: the index is left alone.
DisablePipeUnindexed(t) == <<{}, {SetTasks([s \in {t} |-> FALSE])}, {}, {}>>

DisablePipe(t) == <<{}, {SetTasks([s \in {t} |-> FALSE])}, {}, {UnindexUser(t)}>>

\* A preference without tasks sets none.
SavePipe(pref) ==
  <<{Clear},
    IF DOMAIN pref = {} THEN {} ELSE {SetTasks(pref)},
    {ListUser},
    {IF pref[t] THEN IndexUser(t) ELSE UnindexUser(t) : t \in DOMAIN pref}>>

\* Mutant of DeletePipe: the index is cleaned of all types as if they were one.
DeletePipeAtOnce(types) == <<{Clear}, {}, {UnlistUser}, {UnindexUser(types)}>>

DeletePipe(types) == <<{Clear}, {}, {UnlistUser}, {UnindexUser(t) : t \in types}>>

\* What Redis does for one command of an update of user u.
Run(u, c) ==
  \/ /\ c.cmd = "clear"
     /\ tasks' = [tasks EXCEPT ![u] = NoTasks]
     /\ UNCHANGED <<users, index>>
  \/ /\ c.cmd = "set"
     /\ tasks' = [tasks EXCEPT ![u] = Merged(c.to, @)]
     /\ UNCHANGED <<users, index>>
  \/ /\ c.cmd = "listUser"
     /\ users' = users \cup {u}
     /\ UNCHANGED <<tasks, index>>
  \/ /\ c.cmd = "unlistUser"
     /\ users' = users \ {u}
     /\ UNCHANGED <<tasks, index>>
  \/ /\ c.cmd = "index"
     /\ index' = [index EXCEPT ![c.type] = @ \cup {u}]
     /\ UNCHANGED <<tasks, users>>
  \/ /\ c.cmd = "unindex"
     /\ index' = [index EXCEPT ![c.type] = @ \ {u}]
     /\ UNCHANGED <<tasks, users>>

-----------------------------------------------------------------------------
\* The updates.

\* A writer begins to update a user.
Begin(w, u) ==
  /\ user[w] = NoUser
  /\ updates < MaxUpdates
  /\ updates' = updates + 1
  /\ user' = [user EXCEPT ![w] = u]
  /\ alone' = [v \in Writers |-> IF v = w THEN u \notin {user[x] : x \in Writers}
                                 ELSE alone[v] /\ user[v] # u]
  /\ clean' = clean \ ({u} \X Types)
  /\ UNCHANGED <<storeVars, breaks>>

Send(w, types, pipeline) ==
  /\ pipe' = [pipe EXCEPT ![w] = pipeline]
  /\ covers' = [covers EXCEPT ![w] = types]

EnableTaskForUser(w, u, t) ==
  /\ Begin(w, u)
  /\ Send(w, {t}, EnablePipe(t))
  /\ UNCHANGED reading

DisableTaskForUser(w, u, t) ==
  /\ Begin(w, u)
  /\ Send(w, {t}, DisablePipe(t))
  /\ UNCHANGED reading

SaveUserPreference(w, u, pref) ==
  /\ Begin(w, u)
  /\ Send(w, DOMAIN pref, SavePipe(pref))
  /\ UNCHANGED reading

\* DeleteUser first reads the user's tasks, enabled or not.
DeleteUser(w, u) ==
  /\ Begin(w, u)
  /\ reading' = [reading EXCEPT ![w] = TRUE]
  /\ UNCHANGED <<pipe, covers>>

ReadTasks(w) ==
  /\ reading[w]
  /\ reading' = [reading EXCEPT ![w] = FALSE]
  /\ LET types == DOMAIN tasks[user[w]] IN Send(w, types, DeletePipe(types))
  /\ UNCHANGED <<storeVars, user, alone, clean, updates, breaks>>

Executed(w) == \A i \in Stages : pipe[w][i] = {}

\* Redis runs the next command of a pipeline.
Execute(w) ==
  /\ \E i \in Stages :
       /\ \A k \in 1..(i - 1) : pipe[w][k] = {}
       /\ \E c \in pipe[w][i] :
            /\ Run(user[w], c)
            /\ pipe' = [pipe EXCEPT ![w][i] = @ \ {c}]
  /\ UNCHANGED <<user, reading, covers, alone, clean, updates, breaks>>

Return(w) ==
  /\ user' = [user EXCEPT ![w] = NoUser]
  /\ reading' = [reading EXCEPT ![w] = FALSE]
  /\ pipe' = [pipe EXCEPT ![w] = Nothing]
  /\ covers' = [covers EXCEPT ![w] = {}]
  /\ alone' = [alone EXCEPT ![w] = TRUE]

\* The whole pipeline was executed and the update returns.
Complete(w) ==
  /\ user[w] # NoUser
  /\ ~reading[w]
  /\ Executed(w)
  /\ clean' = IF alone[w] THEN clean \cup ({user[w]} \X covers[w]) ELSE clean
  /\ Return(w)
  /\ UNCHANGED <<storeVars, updates, breaks>>

\* The connection breaks: the rest of the pipeline never runs.  DeleteUser whose
\* read fails returns without an error.
Break(w) ==
  /\ reading[w] \/ ~Executed(w)
  /\ breaks < MaxBreaks
  /\ breaks' = breaks + 1
  /\ Return(w)
  /\ UNCHANGED <<storeVars, clean, updates>>

\* Nobody has anything to update.
Rest == (\A w \in Writers : user[w] = NoUser) /\ UNCHANGED vars

Next ==
  \/ \E w \in Writers :
       \/ \E u \in Users :
            \/ \E t \in Types : EnableTaskForUser(w, u, t) \/ DisableTaskForUser(w, u, t)
            \/ \E pref \in Prefs : SaveUserPreference(w, u, pref)
            \/ DeleteUser(w, u)
       \/ ReadTasks(w)
       \/ Execute(w)
       \/ Complete(w)
       \/ Break(w)
  \/ Rest

Spec == Init /\ [][Next]_vars

-----------------------------------------------------------------------------
\* What the user store must keep.

\* Whether the user's own hash says a type is enabled (IsTaskEnabledForUser).
Enabled(u, t) == t \in DOMAIN tasks[u] /\ tasks[u][t]

Agrees(u, t) == Enabled(u, t) <=> u \in index[t]

\* After an update that completed, and that no other update of the user has
\* overlapped since it began, the scheduler's index agrees with the user's tasks
\* for the types it set, whatever earlier updates left behind half done.
CompletedUpdatesAgree == \A p \in clean : Agrees(p[1], p[2])

-----------------------------------------------------------------------------
\* Why: where a pipeline is going once it has been executed.

\* Whether the tasks will say t is enabled, and whether the index will list the
\* user, when the rest of w's pipeline has run undisturbed.
WillEnable(w, t) ==
  \/ \E c \in pipe[w][2] : t \in DOMAIN c.to /\ c.to[t]
  \/ /\ pipe[w][1] = {}
     /\ \A c \in pipe[w][2] : t \notin DOMAIN c.to
     /\ Enabled(user[w], t)

WillIndex(w, t) ==
  \/ IndexUser(t) \in pipe[w][4]
  \/ UnindexUser(t) \notin pipe[w][4] /\ user[w] \in index[t]

\* Each stage holds its commands, and no two of them fight.
PipeShape(p) ==
  /\ p[1] \subseteq {Clear}
  /\ p[2] \subseteq {SetTasks(to) : to \in Preferences}
  /\ \A c, d \in p[2] : c = d
  /\ p[3] \subseteq {ListUser, UnlistUser}
  /\ p[4] \subseteq {IndexUser(t) : t \in Types} \cup {UnindexUser(t) : t \in Types}
  /\ \A t \in Types : ~({IndexUser(t), UnindexUser(t)} \subseteq p[4])

\* A writer with commands to run has a user and is done reading.
PipesHaveUsers ==
  \A w \in Writers : user[w] = NoUser \/ reading[w] => Executed(w)

ReadersHaveUsers == \A w \in Writers : reading[w] => user[w] # NoUser

AloneIsAlone ==
  \A w, v \in Writers : w # v /\ alone[w] /\ user[w] # NoUser => user[v] # user[w]

CleanIsIdle == \A p \in clean, w \in Writers : user[w] # p[1]

\* An update nobody overlapped will leave tasks and index in agreement.
PipesWillAgree ==
  \A w \in Writers : alone[w] /\ user[w] # NoUser /\ ~reading[w] =>
    \A t \in covers[w] : WillEnable(w, t) <=> WillIndex(w, t)

\* At every moment an update that nobody overlapped is on its way to agreement
\* between tasks and index, whatever it found there and wherever the commands of
\* updates of other users come in between; CompletedUpdatesAgree is where it ends.
IndInv ==
  /\ TypeOK
  /\ \A w \in Writers : PipeShape(pipe[w])
  /\ PipesHaveUsers
  /\ ReadersHaveUsers
  /\ AloneIsAlone
  /\ CleanIsIdle
  /\ PipesWillAgree
  /\ CompletedUpdatesAgree
=============================================================================
