---------------------------- MODULE UserStoreProofs ----------------------------
(***************************************************************************)
(* The invariant IndInv of UserStore is inductive, for any writers, users, *)
(* task types and preferences; TypeOK and CompletedUpdatesAgree are parts  *)
(* of it.                                                                  *)
(***************************************************************************)
EXTENDS UserStore, TLAPS

LEMMA PreferenceType ==
  ASSUME NEW p \in Preferences
  PROVE  /\ DOMAIN p \subseteq Types
         /\ p \in [DOMAIN p -> BOOLEAN]
         /\ \A t \in DOMAIN p : p[t] \in BOOLEAN
<1>1. PICK S \in SUBSET Types : p \in [S -> BOOLEAN] BY DEF Preferences
<1> QED BY <1>1

LEMMA NewPreference ==
  ASSUME NEW S \in SUBSET Types, NEW p \in [S -> BOOLEAN]
  PROVE  p \in Preferences
  BY DEF Preferences

LEMMA NoTasksType == NoTasks \in Preferences /\ DOMAIN NoTasks = {}
<1>1. NoTasks \in [{} -> BOOLEAN] /\ {} \in SUBSET Types BY DEF NoTasks
<1> QED BY <1>1, NewPreference DEF NoTasks

LEMMA MergedType ==
  ASSUME NEW p \in Preferences, NEW q \in Preferences
  PROVE  Merged(p, q) \in Preferences
<1> DEFINE S == DOMAIN p \cup DOMAIN q
<1>1. S \in SUBSET Types BY PreferenceType
<1>2. Merged(p, q) \in [S -> BOOLEAN] BY PreferenceType DEF Merged
<1> QED BY <1>1, <1>2, NewPreference

-----------------------------------------------------------------------------
\* The commands and the pipelines.

LEMMA CommandType ==
  ASSUME NEW c \in Commands
  PROVE  /\ c.cmd \in {"clear", "set", "listUser", "unlistUser", "index", "unindex"}
         /\ c.cmd = "set" => c.to \in Preferences
         /\ c.cmd \in {"index", "unindex"} => c.type \in Types
  BY DEF Commands

LEMMA CommandsAre ==
  /\ Clear \in Commands /\ ListUser \in Commands /\ UnlistUser \in Commands
  /\ \A to \in Preferences : SetTasks(to) \in Commands
  /\ \A t \in Types : IndexUser(t) \in Commands /\ UnindexUser(t) \in Commands
  BY DEF Commands, Clear, ListUser, UnlistUser, SetTasks, IndexUser, UnindexUser

\* Commands that say different things are different.
LEMMA CommandsDiffer ==
  /\ \A t, s \in Types : /\ IndexUser(t) # UnindexUser(s)
                         /\ IndexUser(t) = IndexUser(s) => t = s
                         /\ UnindexUser(t) = UnindexUser(s) => t = s
  /\ \A p : SetTasks(p).to = p /\ SetTasks(p).cmd = "set"
  /\ \A t : IndexUser(t).type = t /\ IndexUser(t).cmd = "index"
  /\ \A t : UnindexUser(t).type = t /\ UnindexUser(t).cmd = "unindex"
  /\ Clear.cmd = "clear" /\ ListUser.cmd = "listUser" /\ UnlistUser.cmd = "unlistUser"
<1>1. \A t : IndexUser(t).type = t /\ IndexUser(t).cmd = "index" BY DEF IndexUser
<1>2. \A t : UnindexUser(t).type = t /\ UnindexUser(t).cmd = "unindex" BY DEF UnindexUser
<1>3. \A p : SetTasks(p).to = p /\ SetTasks(p).cmd = "set" BY DEF SetTasks
<1>4. Clear.cmd = "clear" /\ ListUser.cmd = "listUser" /\ UnlistUser.cmd = "unlistUser"
  BY DEF Clear, ListUser, UnlistUser
<1>5. "index" # "unindex" OBVIOUS
<1>6. \A t, s \in Types : IndexUser(t) # UnindexUser(s)
  <2> SUFFICES ASSUME NEW t \in Types, NEW s \in Types, IndexUser(t) = UnindexUser(s)
               PROVE  FALSE
    OBVIOUS
  <2> QED BY <1>1, <1>2, <1>5
<1> QED BY <1>1, <1>2, <1>3, <1>4, <1>6

\* Redis runs one command of user u: nobody else's data changes.
LEMMA RunEffect ==
  ASSUME TypeOK, NEW u \in Users, NEW c \in Commands, Run(u, c)
  PROVE  /\ tasks' \in [Users -> Preferences]
         /\ users' \subseteq Users
         /\ index' \in [Types -> SUBSET Users]
         /\ \A x \in Users : x # u => tasks'[x] = tasks[x]
         /\ \A x \in Users, t \in Types : x # u => (x \in index'[t] <=> x \in index[t])
<1> USE DEF TypeOK
<1>1. CASE c.cmd = "clear" BY <1>1, NoTasksType DEF Run
<1>2. CASE c.cmd = "set"
  <2>1. tasks[u] \in Preferences /\ c.to \in Preferences BY <1>2, CommandType
  <2>2. Merged(c.to, tasks[u]) \in Preferences BY <2>1, MergedType
  <2>3. /\ tasks' = [tasks EXCEPT ![u] = Merged(c.to, tasks[u])]
        /\ UNCHANGED <<users, index>>
    BY <1>2 DEF Run
  <2> QED BY <2>2, <2>3
<1>3. CASE c.cmd = "listUser" BY <1>3 DEF Run
<1>4. CASE c.cmd = "unlistUser" BY <1>4 DEF Run
<1>5. CASE c.cmd = "index"
  <2>1. /\ c.type \in Types /\ index' = [index EXCEPT ![c.type] = index[c.type] \cup {u}]
        /\ UNCHANGED <<tasks, users>>
    BY <1>5, CommandType DEF Run
  <2>2. index' \in [Types -> SUBSET Users] BY <2>1
  <2>3. \A x \in Users, t \in Types : x # u => (x \in index'[t] <=> x \in index[t]) BY <2>1
  <2> QED BY <2>1, <2>2, <2>3
<1>6. CASE c.cmd = "unindex"
  <2>1. /\ c.type \in Types /\ index' = [index EXCEPT ![c.type] = index[c.type] \ {u}]
        /\ UNCHANGED <<tasks, users>>
    BY <1>6, CommandType DEF Run
  <2>2. index' \in [Types -> SUBSET Users] BY <2>1
  <2>3. \A x \in Users, t \in Types : x # u => (x \in index'[t] <=> x \in index[t]) BY <2>1
  <2> QED BY <2>1, <2>2, <2>3
<1> QED BY <1>1, <1>2, <1>3, <1>4, <1>5, <1>6, CommandType

-----------------------------------------------------------------------------
\* Beginning an update.

\* An update that begins with a pipeline of the right shape, and that would leave
\* tasks and index in agreement if it ran undisturbed, keeps the invariant.
LEMMA BeginKeeps ==
  ASSUME IndInv, NEW w \in Writers, NEW u \in Users, NEW types \in SUBSET Types, NEW p,
         p \in [Stages -> SUBSET Commands], PipeShape(p),
         NEW r \in BOOLEAN, r => \A i \in Stages : p[i] = {},
         Begin(w, u), Send(w, types, p), reading' = [reading EXCEPT ![w] = r],
         ~r => \A t \in types : WillEnable(w, t)' <=> WillIndex(w, t)'
  PROVE  IndInv'
<1> USE DEF IndInv
<1>1. /\ user[w] = NoUser /\ user' = [user EXCEPT ![w] = u] /\ UNCHANGED storeVars
      /\ clean' = clean \ ({u} \X Types)
      /\ alone' = [v \in Writers |-> IF v = w THEN u \notin {user[x] : x \in Writers}
                                     ELSE alone[v] /\ user[v] # u]
  BY DEF Begin
<1>2. pipe' = [pipe EXCEPT ![w] = p] /\ covers' = [covers EXCEPT ![w] = types] BY DEF Send
<1>3. TypeOK'
  <2>1. /\ tasks' \in [Users -> Preferences] /\ users' \subseteq Users
        /\ index' \in [Types -> SUBSET Users]
    BY <1>1 DEF TypeOK, storeVars
  <2>2. user' \in [Writers -> Users \cup {NoUser}] /\ reading' \in [Writers -> BOOLEAN]
    BY <1>1 DEF TypeOK
  <2>3. pipe' \in [Writers -> [Stages -> SUBSET Commands]]
        /\ covers' \in [Writers -> SUBSET Types]
    BY <1>2 DEF TypeOK
  <2>4. alone' \in [Writers -> BOOLEAN] BY <1>1, Zenon DEF TypeOK
  <2>5. clean' \subseteq Users \X Types BY <1>1 DEF TypeOK
  <2>6. updates' \in Nat /\ breaks' \in Nat BY DEF TypeOK, Begin
  <2> QED BY <2>1, <2>2, <2>3, <2>4, <2>5, <2>6 DEF TypeOK
<1>4. (\A v \in Writers : PipeShape(pipe[v]))' BY <1>2 DEF TypeOK
<1>5. u # NoUser BY ConstantsAssumption
<1>7. PipesHaveUsers' BY <1>1, <1>2, <1>5 DEF PipesHaveUsers, Executed, TypeOK
<1>8. ReadersHaveUsers' BY <1>1, <1>5 DEF ReadersHaveUsers, TypeOK
<1>9. AloneIsAlone' BY <1>1 DEF AloneIsAlone, TypeOK
<1>10. CleanIsIdle'
  <2> SUFFICES ASSUME NEW q \in clean', NEW v \in Writers PROVE user'[v] # q[1]
    BY DEF CleanIsIdle
  <2>1. q \in clean /\ q \in Users \X Types /\ q \notin {u} \X Types BY <1>1 DEF TypeOK
  <2>2. q[1] # u BY <2>1
  <2> QED BY <1>1, <2>1, <2>2 DEF CleanIsIdle, TypeOK
<1>11. PipesWillAgree'
  <2> SUFFICES ASSUME NEW v \in Writers, alone'[v], user'[v] # NoUser, ~reading'[v],
                      NEW t \in covers'[v]
               PROVE  WillEnable(v, t)' <=> WillIndex(v, t)'
    BY DEF PipesWillAgree
  <2>1. CASE v = w BY <2>1, <1>2 DEF TypeOK
  <2>2. CASE v # w
    <3>1. /\ pipe'[v] = pipe[v] /\ user'[v] = user[v] /\ covers'[v] = covers[v]
          /\ alone[v] /\ ~reading[v]
      BY <2>2, <1>1, <1>2 DEF TypeOK
    <3>2. WillEnable(v, t) <=> WillIndex(v, t) BY <3>1 DEF PipesWillAgree
    <3> QED BY <3>1, <3>2, <1>1 DEF WillEnable, WillIndex, Enabled, storeVars
  <2> QED BY <2>1, <2>2
<1>12. CompletedUpdatesAgree'
  BY <1>1 DEF CompletedUpdatesAgree, Agrees, Enabled, storeVars
<1> QED BY <1>3, <1>4, <1>7, <1>8, <1>9, <1>10, <1>11, <1>12

LEMMA FourStages ==
  ASSUME NEW A \in SUBSET Commands, NEW B \in SUBSET Commands,
         NEW C \in SUBSET Commands, NEW D \in SUBSET Commands
  PROVE  <<A, B, C, D>> \in [Stages -> SUBSET Commands]
<1>1. Stages = {1, 2, 3, 4} BY DEF Stages
<1> QED BY <1>1

\* The pipelines the store sends have four stages, each with its commands.
LEMMA EnablePipeShape ==
  ASSUME NEW t \in Types
  PROVE  EnablePipe(t) \in [Stages -> SUBSET Commands] /\ PipeShape(EnablePipe(t))
<1>1. [s \in {t} |-> TRUE] \in Preferences
  <2>1. [s \in {t} |-> TRUE] \in [{t} -> BOOLEAN] OBVIOUS
  <2> QED BY <2>1, NewPreference
<1>2. EnablePipe(t) \in [Stages -> SUBSET Commands]
  <2>1. {SetTasks([s \in {t} |-> TRUE])} \in SUBSET Commands BY <1>1, CommandsAre
  <2>2. {} \in SUBSET Commands /\ {ListUser} \in SUBSET Commands
        /\ {IndexUser(t)} \in SUBSET Commands
    BY CommandsAre
  <2> QED BY <2>1, <2>2, FourStages DEF EnablePipe
<1>3. PipeShape(EnablePipe(t)) BY <1>1, CommandsDiffer DEF EnablePipe, PipeShape
<1> QED BY <1>2, <1>3

\* A writer without a user is not reading.
LEMMA NotReading ==
  ASSUME IndInv, NEW w \in Writers, NEW u, Begin(w, u)
  PROVE  ~reading[w] /\ reading = [reading EXCEPT ![w] = FALSE]
<1>1. ~reading[w] BY DEF IndInv, ReadersHaveUsers, Begin
<1> QED BY <1>1 DEF IndInv, TypeOK

LEMMA EnableKeeps ==
  ASSUME IndInv, NEW w \in Writers, NEW u \in Users, NEW t \in Types,
         EnableTaskForUser(w, u, t)
  PROVE  IndInv'
<1> DEFINE p == EnablePipe(t)
<1>1. p \in [Stages -> SUBSET Commands] /\ PipeShape(p) BY EnablePipeShape
<1>2. Begin(w, u) /\ Send(w, {t}, p) /\ reading' = [reading EXCEPT ![w] = FALSE]
  BY NotReading DEF EnableTaskForUser
<1>3. pipe'[w] = p BY <1>2 DEF Send, IndInv, TypeOK
<1>4. WillEnable(w, t)'
  <2> DEFINE c == SetTasks([s \in {t} |-> TRUE])
  <2>1. c \in pipe'[w][2] BY <1>3 DEF EnablePipe
  <2>2. t \in DOMAIN c.to /\ c.to[t] BY DEF SetTasks
  <2> QED BY <2>1, <2>2 DEF WillEnable
<1>5. WillIndex(w, t)' BY <1>3 DEF EnablePipe, WillIndex
<1>6. {t} \in SUBSET Types OBVIOUS
<1>7. ASSUME NEW s \in {t} PROVE WillEnable(w, s)' <=> WillIndex(w, s)'
  <2>1. s = t OBVIOUS
  <2> QED BY <1>4, <1>5, <2>1
<1> HIDE DEF p
<1> QED BY <1>1, <1>2, <1>6, <1>7, BeginKeeps

LEMMA DisablePipeShape ==
  ASSUME NEW t \in Types
  PROVE  DisablePipe(t) \in [Stages -> SUBSET Commands] /\ PipeShape(DisablePipe(t))
<1>1. [s \in {t} |-> FALSE] \in Preferences
  <2>1. [s \in {t} |-> FALSE] \in [{t} -> BOOLEAN] OBVIOUS
  <2> QED BY <2>1, NewPreference
<1>2. DisablePipe(t) \in [Stages -> SUBSET Commands]
  <2>1. {SetTasks([s \in {t} |-> FALSE])} \in SUBSET Commands BY <1>1, CommandsAre
  <2>2. {} \in SUBSET Commands /\ {ListUser} \in SUBSET Commands
        /\ {UnindexUser(t)} \in SUBSET Commands
    BY CommandsAre
  <2> QED BY <2>1, <2>2, FourStages DEF DisablePipe
<1>3. PipeShape(DisablePipe(t)) BY <1>1, CommandsDiffer DEF DisablePipe, PipeShape
<1> QED BY <1>2, <1>3

LEMMA DisableKeeps ==
  ASSUME IndInv, NEW w \in Writers, NEW u \in Users, NEW t \in Types,
         DisableTaskForUser(w, u, t)
  PROVE  IndInv'
<1> DEFINE p == DisablePipe(t)
<1>1. p \in [Stages -> SUBSET Commands] /\ PipeShape(p) BY DisablePipeShape
<1>2. Begin(w, u) /\ Send(w, {t}, p) /\ reading' = [reading EXCEPT ![w] = FALSE]
  BY NotReading DEF DisableTaskForUser
<1>3. pipe'[w] = p BY <1>2 DEF Send, IndInv, TypeOK
<1>4. ~WillEnable(w, t)'
  <2> DEFINE c == SetTasks([s \in {t} |-> FALSE])
  <2>1. pipe'[w][2] = {c} BY <1>3 DEF DisablePipe
  <2>2. t \in DOMAIN c.to /\ ~c.to[t] BY DEF SetTasks
  <2> QED BY <2>1, <2>2 DEF WillEnable
<1>5. ~WillIndex(w, t)' BY <1>3, CommandsDiffer DEF DisablePipe, WillIndex
<1>6. {t} \in SUBSET Types OBVIOUS
<1>7. ASSUME NEW s \in {t} PROVE WillEnable(w, s)' <=> WillIndex(w, s)'
  <2>1. s = t OBVIOUS
  <2> QED BY <1>4, <1>5, <2>1
<1> HIDE DEF p
<1> QED BY <1>1, <1>2, <1>6, <1>7, BeginKeeps

LEMMA SavePipeShape ==
  ASSUME NEW pref \in Preferences
  PROVE  SavePipe(pref) \in [Stages -> SUBSET Commands] /\ PipeShape(SavePipe(pref))
<1>1. DOMAIN pref \subseteq Types BY PreferenceType
<1>2. SavePipe(pref) \in [Stages -> SUBSET Commands]
  <2> DEFINE B == IF DOMAIN pref = {} THEN {} ELSE {SetTasks(pref)}
             D == {IF pref[t] THEN IndexUser(t) ELSE UnindexUser(t) : t \in DOMAIN pref}
  <2>1. B \in SUBSET Commands BY CommandsAre
  <2>2. D \in SUBSET Commands BY <1>1, CommandsAre
  <2>3. {Clear} \in SUBSET Commands /\ {ListUser} \in SUBSET Commands BY CommandsAre
  <2> QED BY <2>1, <2>2, <2>3, FourStages DEF SavePipe
<1>3. PipeShape(SavePipe(pref)) BY <1>1, CommandsDiffer DEF SavePipe, PipeShape
<1> QED BY <1>2, <1>3

LEMMA SaveKeeps ==
  ASSUME IndInv, NEW w \in Writers, NEW u \in Users, NEW pref \in Prefs,
         SaveUserPreference(w, u, pref)
  PROVE  IndInv'
<1> DEFINE p == SavePipe(pref)
           types == DOMAIN pref
<1>0. pref \in Preferences BY ConstantsAssumption
<1>1. p \in [Stages -> SUBSET Commands] /\ PipeShape(p) BY <1>0, SavePipeShape
<1>2. Begin(w, u) /\ Send(w, types, p) /\ reading' = [reading EXCEPT ![w] = FALSE]
  BY NotReading DEF SaveUserPreference
<1>3. pipe'[w] = p BY <1>2 DEF Send, IndInv, TypeOK
<1>4. ASSUME NEW t \in types PROVE WillEnable(w, t)' <=> WillIndex(w, t)'
  <2>1. types \subseteq Types /\ types # {} BY <1>0, PreferenceType
  <2>2. pipe'[w][2] = {SetTasks(pref)} BY <1>3, <2>1 DEF SavePipe
  <2>3. pref[t] \in BOOLEAN BY <1>0, PreferenceType
  <2>4. pipe'[w][1] # {} BY <1>3 DEF SavePipe
  <2>5. WillEnable(w, t)' <=> pref[t] BY <2>2, <2>3, <2>4, CommandsDiffer DEF WillEnable
  <2>6. pipe'[w][4] = {IF pref[s] THEN IndexUser(s) ELSE UnindexUser(s) : s \in types}
    BY <1>3 DEF SavePipe
  <2>7. CASE pref[t]
    <3>1. IndexUser(t) \in pipe'[w][4] BY <2>6, <2>7
    <3> QED BY <2>5, <2>7, <3>1 DEF WillIndex
  <2>8. CASE ~pref[t]
    <3>1. UnindexUser(t) \in pipe'[w][4] BY <2>6, <2>8
    <3>2. IndexUser(t) \notin pipe'[w][4] BY <2>1, <2>6, <2>8, CommandsDiffer
    <3> QED BY <2>5, <2>8, <3>1, <3>2 DEF WillIndex
  <2> QED BY <2>3, <2>7, <2>8
<1>5. types \in SUBSET Types BY <1>0, PreferenceType
<1> HIDE DEF p, types
<1> QED BY <1>1, <1>2, <1>4, <1>5, BeginKeeps

LEMMA DeletePipeShape ==
  ASSUME NEW types \in SUBSET Types
  PROVE  DeletePipe(types) \in [Stages -> SUBSET Commands] /\ PipeShape(DeletePipe(types))
<1>1. DeletePipe(types) \in [Stages -> SUBSET Commands]
  <2> DEFINE D == {UnindexUser(t) : t \in types}
  <2>1. {Clear} \in SUBSET Commands /\ {UnlistUser} \in SUBSET Commands
        /\ {} \in SUBSET Commands /\ D \in SUBSET Commands
    BY CommandsAre
  <2> QED BY <2>1, FourStages DEF DeletePipe
<1>2. PipeShape(DeletePipe(types)) BY CommandsDiffer DEF DeletePipe, PipeShape
<1> QED BY <1>1, <1>2

\* DeleteUser begins with nothing to run.
LEMMA DeleteKeeps ==
  ASSUME IndInv, NEW w \in Writers, NEW u \in Users, DeleteUser(w, u)
  PROVE  IndInv'
<1> DEFINE p == pipe[w]
           types == covers[w]
<1>1. p \in [Stages -> SUBSET Commands] /\ PipeShape(p) /\ types \in SUBSET Types
  BY DEF IndInv, TypeOK
<1>2. \A i \in Stages : p[i] = {}
  BY DEF DeleteUser, Begin, IndInv, PipesHaveUsers, Executed
<1>3. Begin(w, u) /\ reading' = [reading EXCEPT ![w] = TRUE] BY DEF DeleteUser
<1>4. Send(w, types, p) BY DEF DeleteUser, Send, IndInv, TypeOK
<1> DEFINE r == TRUE
<1>5. /\ r \in BOOLEAN /\ reading' = [reading EXCEPT ![w] = r]
      /\ ~r => \A t \in types : WillEnable(w, t)' <=> WillIndex(w, t)'
      /\ r => \A i \in Stages : p[i] = {}
  BY <1>2, <1>3
<1> HIDE DEF p, types, r
<1> QED BY <1>1, <1>3, <1>4, <1>5, BeginKeeps

-----------------------------------------------------------------------------
\* In the middle of an update.

LEMMA ReadTasksKeeps ==
  ASSUME IndInv, NEW w \in Writers, ReadTasks(w)
  PROVE  IndInv'
<1> DEFINE types == DOMAIN tasks[user[w]]
           p == DeletePipe(types)
<1> USE DEF IndInv
<1>1. user[w] \in Users BY DEF ReadTasks, ReadersHaveUsers, TypeOK
<1>2. types \in SUBSET Types BY <1>1, PreferenceType DEF TypeOK
<1>3. p \in [Stages -> SUBSET Commands] /\ PipeShape(p) BY <1>2, DeletePipeShape
<1>4. /\ pipe' = [pipe EXCEPT ![w] = p] /\ covers' = [covers EXCEPT ![w] = types]
      /\ reading[w] /\ reading' = [reading EXCEPT ![w] = FALSE]
      /\ UNCHANGED <<storeVars, user, alone, clean, updates, breaks>>
  BY DEF ReadTasks, Send
<1>5. p[1] = {Clear} /\ p[2] = {} /\ p[4] = {UnindexUser(t) : t \in types} BY DEF DeletePipe
<1> HIDE DEF p, types
<1>6. TypeOK' BY <1>2, <1>3, <1>4 DEF TypeOK, storeVars
<1>7. (\A v \in Writers : PipeShape(pipe[v]))' BY <1>3, <1>4 DEF TypeOK
<1>8. user[w] # NoUser BY <1>1, ConstantsAssumption
<1>9. PipesHaveUsers' BY <1>4, <1>8 DEF PipesHaveUsers, Executed, TypeOK
<1>10. ReadersHaveUsers' BY <1>4 DEF ReadersHaveUsers, TypeOK
<1>11. AloneIsAlone' /\ CleanIsIdle' BY <1>4 DEF AloneIsAlone, CleanIsIdle
<1>12. PipesWillAgree'
  <2> SUFFICES ASSUME NEW v \in Writers, alone'[v], user'[v] # NoUser, ~reading'[v],
                      NEW t \in covers'[v]
               PROVE  WillEnable(v, t)' <=> WillIndex(v, t)'
    BY DEF PipesWillAgree
  <2>1. CASE v = w
    <3>1. t \in types /\ pipe'[v] = p BY <2>1, <1>4 DEF TypeOK
    <3>2. ~WillEnable(v, t)' BY <3>1, <1>5 DEF WillEnable
    <3>3. UnindexUser(t) \in p[4] BY <3>1, <1>5
    <3>4. IndexUser(t) \notin p[4] BY <3>1, <1>2, <1>5, CommandsDiffer
    <3> QED BY <3>1, <3>2, <3>3, <3>4 DEF WillIndex
  <2>2. CASE v # w
    <3>1. pipe'[v] = pipe[v] /\ covers'[v] = covers[v] /\ ~reading[v]
      BY <2>2, <1>4 DEF TypeOK
    <3>2. WillEnable(v, t) <=> WillIndex(v, t) BY <3>1, <1>4 DEF PipesWillAgree
    <3> QED BY <3>1, <3>2, <1>4 DEF WillEnable, WillIndex, Enabled, storeVars
  <2> QED BY <2>1, <2>2
<1>13. CompletedUpdatesAgree' BY <1>4 DEF CompletedUpdatesAgree, Agrees, Enabled, storeVars
<1> QED BY <1>6, <1>7, <1>9, <1>10, <1>11, <1>12, <1>13

\* A command of w's pipeline runs: it was in its stage, and those before are done.
LEMMA ExecuteFacts ==
  ASSUME IndInv, NEW w \in Writers, NEW i \in Stages, NEW c \in pipe[w][i],
         pipe' = [pipe EXCEPT ![w][i] = @ \ {c}]
  PROVE  /\ user[w] \in Users /\ user[w] # NoUser /\ ~reading[w] /\ c \in Commands
         /\ pipe' \in [Writers -> [Stages -> SUBSET Commands]]
         /\ pipe'[w][i] = pipe[w][i] \ {c}
         /\ \A k \in Stages : k # i => pipe'[w][k] = pipe[w][k]
         /\ \A v \in Writers : v # w => pipe'[v] = pipe[v]
         /\ PipeShape(pipe[w])
<1> USE DEF IndInv
<1>1. ~Executed(w) BY DEF Executed
<1>2. user[w] # NoUser /\ ~reading[w] BY <1>1 DEF PipesHaveUsers
<1>3. user[w] \in Users /\ c \in Commands BY <1>2 DEF TypeOK
<1>4. pipe[w] \in [Stages -> SUBSET Commands] BY DEF TypeOK
<1>5. pipe' = [pipe EXCEPT ![w] = [pipe[w] EXCEPT ![i] = pipe[w][i] \ {c}]] OBVIOUS
<1>6. /\ pipe' \in [Writers -> [Stages -> SUBSET Commands]]
      /\ pipe'[w][i] = pipe[w][i] \ {c}
      /\ \A k \in Stages : k # i => pipe'[w][k] = pipe[w][k]
      /\ \A v \in Writers : v # w => pipe'[v] = pipe[v]
  BY <1>4, <1>5 DEF TypeOK
<1> QED BY <1>2, <1>3, <1>6

\* The command changes nothing about where the pipeline is going.
LEMMA ExecuteStaysOnCourse ==
  ASSUME IndInv, NEW w \in Writers, NEW i \in Stages, NEW c \in pipe[w][i],
         \A k \in 1..(i - 1) : pipe[w][k] = {}, Run(user[w], c),
         pipe' = [pipe EXCEPT ![w][i] = @ \ {c}], user' = user, NEW t \in Types
  PROVE  /\ WillEnable(w, t)' <=> WillEnable(w, t)
         /\ WillIndex(w, t)' <=> WillIndex(w, t)
<1> DEFINE u == user[w]
<1>1. /\ u \in Users /\ c \in Commands
      /\ pipe'[w][i] = pipe[w][i] \ {c}
      /\ \A k \in Stages : k # i => pipe'[w][k] = pipe[w][k]
      /\ PipeShape(pipe[w])
  BY ExecuteFacts
<1>2. tasks[u] \in Preferences /\ tasks \in [Users -> Preferences]
      /\ index \in [Types -> SUBSET Users]
  BY <1>1 DEF IndInv, TypeOK
<1>3. 1 \in Stages /\ 2 \in Stages /\ 3 \in Stages /\ 4 \in Stages /\ i \in {1, 2, 3, 4}
  BY DEF Stages
<1>4. CASE i = 1
  <2>1. c = Clear /\ pipe[w][1] = {c} /\ pipe'[w][1] = {}
    BY <1>1, <1>4 DEF PipeShape
  <2>2. tasks' = [tasks EXCEPT ![u] = NoTasks] /\ UNCHANGED index
    BY <2>1, CommandsDiffer DEF Run
  <2>3. DOMAIN tasks'[u] = {} BY <2>2, <1>1, <1>2, NoTasksType
  <2>4. pipe'[w][2] = pipe[w][2] /\ pipe'[w][4] = pipe[w][4] BY <1>1, <1>3, <1>4
  <2> QED BY <2>1, <2>2, <2>3, <2>4 DEF WillEnable, WillIndex, Enabled
<1>5. CASE i = 2
  <2>1. PICK to \in Preferences : c = SetTasks(to) BY <1>1, <1>5 DEF PipeShape
  <2>2. pipe[w][2] = {c} /\ pipe'[w][2] = {} BY <1>1, <1>5 DEF PipeShape
  <2>3. c.to = to /\ c.cmd = "set" BY <2>1, CommandsDiffer
  <2>4. tasks' = [tasks EXCEPT ![u] = Merged(to, tasks[u])] /\ UNCHANGED index
    BY <2>3 DEF Run
  <2>5. tasks'[u] = Merged(to, tasks[u]) BY <2>4, <1>1, <1>2
  <2>6. pipe[w][1] = {} /\ pipe'[w][1] = {} /\ pipe'[w][4] = pipe[w][4]
    BY <1>1, <1>3, <1>5
  <2>7. Enabled(u, t)' <=> \/ t \in DOMAIN to /\ to[t]
                           \/ t \notin DOMAIN to /\ t \in DOMAIN tasks[u] /\ tasks[u][t]
    <3>1. DOMAIN Merged(to, tasks[u]) = DOMAIN to \cup DOMAIN tasks[u] BY DEF Merged
    <3>2. CASE t \in DOMAIN to
      <4>1. Merged(to, tasks[u])[t] = to[t] BY <3>2 DEF Merged
      <4> QED BY <3>1, <3>2, <4>1, <2>5 DEF Enabled
    <3>3. CASE t \notin DOMAIN to /\ t \in DOMAIN tasks[u]
      <4>1. Merged(to, tasks[u])[t] = tasks[u][t] BY <3>3 DEF Merged
      <4> QED BY <3>1, <3>3, <4>1, <2>5 DEF Enabled
    <3>4. CASE t \notin DOMAIN to /\ t \notin DOMAIN tasks[u]
      BY <3>1, <3>4, <2>5 DEF Enabled
    <3> QED BY <3>2, <3>3, <3>4
  <2>8. WillEnable(w, t)' <=> Enabled(u, t)' BY <2>2, <2>6 DEF WillEnable
  <2>9. WillEnable(w, t) <=> \/ t \in DOMAIN to /\ to[t]
                             \/ t \notin DOMAIN to /\ Enabled(u, t)
    BY <2>2, <2>3, <2>6 DEF WillEnable
  <2>10. WillIndex(w, t)' <=> WillIndex(w, t) BY <2>4, <2>6 DEF WillIndex
  <2> QED BY <2>7, <2>8, <2>9, <2>10 DEF Enabled
<1>6. CASE i = 3
  <2>1. c \in {ListUser, UnlistUser} BY <1>1, <1>6 DEF PipeShape
  <2>2. UNCHANGED <<tasks, index>> BY <2>1, CommandsDiffer DEF Run
  <2>3. /\ pipe'[w][1] = pipe[w][1] /\ pipe'[w][2] = pipe[w][2]
        /\ pipe'[w][4] = pipe[w][4]
    BY <1>1, <1>3, <1>6
  <2> QED BY <2>2, <2>3 DEF WillEnable, WillIndex, Enabled
<1>7. CASE i = 4
  <2>1. pipe'[w][1] = pipe[w][1] /\ pipe'[w][2] = pipe[w][2] BY <1>1, <1>3, <1>7
  <2>2. pipe'[w][4] = pipe[w][4] \ {c} BY <1>1, <1>7
  <2>3. ~({IndexUser(t), UnindexUser(t)} \subseteq pipe[w][4])
    BY <1>1 DEF PipeShape
  <2>4. \/ \E s \in Types : c = IndexUser(s)
        \/ \E s \in Types : c = UnindexUser(s)
    BY <1>1, <1>7 DEF PipeShape
  <2>5. CASE \E s \in Types : c = IndexUser(s)
    <3>1. PICK s \in Types : c = IndexUser(s) BY <2>5
    <3>2. index' = [index EXCEPT ![s] = @ \cup {u}] /\ UNCHANGED tasks
      BY <3>1, CommandsDiffer DEF Run
    <3>3. u \in index'[t] <=> (u \in index[t] \/ t = s) BY <3>2, <1>2
    <3>4. UnindexUser(t) \in pipe'[w][4] <=> UnindexUser(t) \in pipe[w][4]
      BY <3>1, <2>2, CommandsDiffer
    <3>5. IndexUser(t) \in pipe'[w][4] <=> IndexUser(t) \in pipe[w][4] /\ t # s
      BY <3>1, <2>2, CommandsDiffer
    <3>6. IndexUser(s) \in pipe[w][4] BY <3>1, <1>7
    <3>7. WillIndex(w, t)' <=> WillIndex(w, t)
      BY <3>3, <3>4, <3>5, <3>6, <2>3 DEF WillIndex
    <3> QED BY <3>2, <3>7, <2>1 DEF WillEnable, Enabled
  <2>6. CASE \E s \in Types : c = UnindexUser(s)
    <3>1. PICK s \in Types : c = UnindexUser(s) BY <2>6
    <3>2. index' = [index EXCEPT ![s] = @ \ {u}] /\ UNCHANGED tasks
      BY <3>1, CommandsDiffer DEF Run
    <3>3. u \in index'[t] <=> (u \in index[t] /\ t # s) BY <3>2, <1>2
    <3>4. IndexUser(t) \in pipe'[w][4] <=> IndexUser(t) \in pipe[w][4]
      BY <3>1, <2>2, CommandsDiffer
    <3>5. UnindexUser(t) \in pipe'[w][4] <=> UnindexUser(t) \in pipe[w][4] /\ t # s
      BY <3>1, <2>2, CommandsDiffer
    <3>6. UnindexUser(s) \in pipe[w][4] BY <3>1, <1>7
    <3>7. WillIndex(w, t)' <=> WillIndex(w, t)
      BY <3>3, <3>4, <3>5, <3>6, <2>3 DEF WillIndex
    <3> QED BY <3>2, <3>7, <2>1 DEF WillEnable, Enabled
  <2> QED BY <2>4, <2>5, <2>6
<1> QED BY <1>3, <1>4, <1>5, <1>6, <1>7

LEMMA ExecuteKeeps ==
  ASSUME IndInv, NEW w \in Writers, Execute(w)
  PROVE  IndInv'
<1>0. PICK i \in Stages :
        /\ \A k \in 1..(i - 1) : pipe[w][k] = {}
        /\ \E c \in pipe[w][i] : /\ Run(user[w], c)
                                 /\ pipe' = [pipe EXCEPT ![w][i] = @ \ {c}]
  BY DEF Execute
<1>1. PICK c \in pipe[w][i] : /\ Run(user[w], c)
                              /\ pipe' = [pipe EXCEPT ![w][i] = @ \ {c}]
  BY <1>0
<1>2. UNCHANGED <<user, reading, covers, alone, clean, updates, breaks>> BY DEF Execute
<1>3. /\ user[w] \in Users /\ user[w] # NoUser /\ ~reading[w] /\ c \in Commands
      /\ pipe' \in [Writers -> [Stages -> SUBSET Commands]]
      /\ pipe'[w][i] = pipe[w][i] \ {c}
      /\ \A k \in Stages : k # i => pipe'[w][k] = pipe[w][k]
      /\ \A v \in Writers : v # w => pipe'[v] = pipe[v]
      /\ PipeShape(pipe[w])
  BY <1>1, ExecuteFacts
<1>4. /\ tasks' \in [Users -> Preferences] /\ users' \subseteq Users
      /\ index' \in [Types -> SUBSET Users]
      /\ \A x \in Users : x # user[w] => tasks'[x] = tasks[x]
      /\ \A x \in Users, t \in Types : x # user[w] => (x \in index'[t] <=> x \in index[t])
  BY <1>1, <1>3, RunEffect DEF IndInv
<1> USE DEF IndInv
<1>5. TypeOK' BY <1>2, <1>3, <1>4 DEF TypeOK
<1>6. (\A v \in Writers : PipeShape(pipe[v]))'
  <2> SUFFICES ASSUME NEW v \in Writers PROVE PipeShape(pipe'[v]) OBVIOUS
  <2>1. CASE v # w BY <2>1, <1>3
  <2>2. CASE v = w
    <3>1. \A k \in Stages : pipe'[w][k] \subseteq pipe[w][k] BY <1>3
    <3>2. 1 \in Stages /\ 2 \in Stages /\ 3 \in Stages /\ 4 \in Stages BY DEF Stages
    <3> QED BY <2>2, <3>1, <3>2, <1>3 DEF PipeShape
  <2> QED BY <2>1, <2>2
<1>7. PipesHaveUsers' BY <1>2, <1>3 DEF PipesHaveUsers, Executed
<1>8. ReadersHaveUsers' /\ AloneIsAlone' /\ CleanIsIdle'
  BY <1>2 DEF ReadersHaveUsers, AloneIsAlone, CleanIsIdle
<1>9. PipesWillAgree'
  <2> SUFFICES ASSUME NEW v \in Writers, alone[v], user[v] # NoUser, ~reading[v],
                      NEW t \in covers[v]
               PROVE  WillEnable(v, t)' <=> WillIndex(v, t)'
    BY <1>2 DEF PipesWillAgree
  <2>1. WillEnable(v, t) <=> WillIndex(v, t) BY DEF PipesWillAgree
  <2>2. t \in Types BY DEF TypeOK
  <2>3. CASE v = w
    <3>1. WillEnable(w, t)' <=> WillEnable(w, t)
      BY <1>0, <1>1, <1>2, <2>2, ExecuteStaysOnCourse
    <3>2. WillIndex(w, t)' <=> WillIndex(w, t)
      BY <1>0, <1>1, <1>2, <2>2, ExecuteStaysOnCourse
    <3> QED BY <2>1, <2>3, <3>1, <3>2
  <2>4. CASE v # w
    <3>1. user[v] \in Users /\ user[v] # user[w] BY <2>4 DEF AloneIsAlone, TypeOK
    <3>2. tasks'[user[v]] = tasks[user[v]]
          /\ (user[v] \in index'[t] <=> user[v] \in index[t])
      BY <3>1, <2>2, <1>4
    <3>3. pipe'[v] = pipe[v] /\ user'[v] = user[v] BY <2>4, <1>2, <1>3
    <3> QED BY <2>1, <3>2, <3>3 DEF WillEnable, WillIndex, Enabled
  <2> QED BY <2>3, <2>4
<1>10. CompletedUpdatesAgree'
  <2> SUFFICES ASSUME NEW q \in clean PROVE Agrees(q[1], q[2])'
    BY <1>2 DEF CompletedUpdatesAgree
  <2>1. q[1] \in Users /\ q[2] \in Types BY DEF TypeOK
  <2>2. q[1] # user[w] BY DEF CleanIsIdle
  <2>3. Agrees(q[1], q[2]) BY DEF CompletedUpdatesAgree
  <2> QED BY <2>1, <2>2, <2>3, <1>4 DEF Agrees, Enabled
<1> QED BY <1>5, <1>6, <1>7, <1>8, <1>9, <1>10

-----------------------------------------------------------------------------
\* The end of an update.

\* A writer that returns leaves agreements behind that nobody is about to disturb.
LEMMA ReturnKeeps ==
  ASSUME IndInv, NEW w \in Writers, Return(w), UNCHANGED storeVars,
         updates' \in Nat, breaks' \in Nat, clean' \subseteq Users \X Types,
         \A q \in clean' : q \in clean \/ /\ alone[w] /\ user[w] # NoUser /\ q[1] = user[w]
                                          /\ Agrees(q[1], q[2])
  PROVE  IndInv'
<1> USE DEF IndInv
<1>1. /\ user' = [user EXCEPT ![w] = NoUser] /\ reading' = [reading EXCEPT ![w] = FALSE]
      /\ pipe' = [pipe EXCEPT ![w] = Nothing] /\ covers' = [covers EXCEPT ![w] = {}]
      /\ alone' = [alone EXCEPT ![w] = TRUE]
  BY DEF Return
<1>2. Nothing \in [Stages -> SUBSET Commands] /\ PipeShape(Nothing)
      /\ \A i \in Stages : Nothing[i] = {}
  <2>1. \A i \in Stages : Nothing[i] = {} BY DEF Nothing, Stages
  <2>2. {} \in SUBSET Commands OBVIOUS
  <2>3. Nothing \in [Stages -> SUBSET Commands] BY <2>2, FourStages DEF Nothing
  <2>4. PipeShape(Nothing) BY DEF PipeShape, Nothing
  <2> QED BY <2>1, <2>3, <2>4
<1>3. TypeOK' BY <1>1, <1>2 DEF TypeOK, storeVars
<1>4. (\A v \in Writers : PipeShape(pipe[v]))' BY <1>1, <1>2 DEF TypeOK
<1>5. PipesHaveUsers' BY <1>1, <1>2 DEF PipesHaveUsers, Executed, TypeOK
<1>6. ReadersHaveUsers' BY <1>1 DEF ReadersHaveUsers, TypeOK
<1>7. AloneIsAlone' BY <1>1 DEF AloneIsAlone, TypeOK
<1>8. CleanIsIdle'
  <2> SUFFICES ASSUME NEW q \in clean', NEW v \in Writers PROVE user'[v] # q[1]
    BY DEF CleanIsIdle
  <2>1. q[1] \in Users /\ q[1] # NoUser BY ConstantsAssumption
  <2>2. CASE v = w BY <2>1, <2>2, <1>1 DEF TypeOK
  <2>3. CASE v # w
    <3>1. user'[v] = user[v] BY <2>3, <1>1 DEF TypeOK
    <3> QED BY <2>3, <3>1 DEF CleanIsIdle, AloneIsAlone
  <2> QED BY <2>2, <2>3
<1>9. PipesWillAgree'
  <2> SUFFICES ASSUME NEW v \in Writers, alone'[v], user'[v] # NoUser, ~reading'[v],
                      NEW t \in covers'[v]
               PROVE  WillEnable(v, t)' <=> WillIndex(v, t)'
    BY DEF PipesWillAgree
  <2>1. v # w BY <1>1 DEF TypeOK
  <2>2. /\ user'[v] = user[v] /\ reading'[v] = reading[v] /\ pipe'[v] = pipe[v]
        /\ covers'[v] = covers[v] /\ alone'[v] = alone[v]
    BY <2>1, <1>1 DEF TypeOK
  <2>3. WillEnable(v, t) <=> WillIndex(v, t) BY <2>2 DEF PipesWillAgree
  <2> QED BY <2>2, <2>3 DEF WillEnable, WillIndex, Enabled, storeVars
<1>10. CompletedUpdatesAgree'
  BY DEF CompletedUpdatesAgree, Agrees, Enabled, storeVars
<1> QED BY <1>3, <1>4, <1>5, <1>6, <1>7, <1>8, <1>9, <1>10

\* The pipeline has arrived where it was going.
LEMMA CompleteKeeps ==
  ASSUME IndInv, NEW w \in Writers, Complete(w)
  PROVE  IndInv'
<1> USE DEF IndInv
<1>1. /\ user[w] # NoUser /\ ~reading[w] /\ Executed(w) /\ Return(w)
      /\ UNCHANGED <<storeVars, updates, breaks>>
      /\ clean' = IF alone[w] THEN clean \cup ({user[w]} \X covers[w]) ELSE clean
  BY DEF Complete
<1>2. user[w] \in Users /\ covers[w] \subseteq Types BY <1>1 DEF TypeOK
<1>3. clean' \subseteq Users \X Types BY <1>1, <1>2 DEF TypeOK
<1>4. updates' \in Nat /\ breaks' \in Nat BY <1>1 DEF TypeOK
<1>5. ASSUME NEW q \in clean', q \notin clean
      PROVE  alone[w] /\ user[w] # NoUser /\ q[1] = user[w] /\ Agrees(q[1], q[2])
  <2>1. alone[w] /\ q \in {user[w]} \X covers[w] BY <1>1, <1>5
  <2>2. q[1] = user[w] /\ q[2] \in covers[w] BY <2>1
  <2>3. WillEnable(w, q[2]) <=> WillIndex(w, q[2])
    BY <2>1, <2>2, <1>1 DEF PipesWillAgree
  <2>4. pipe[w][1] = {} /\ pipe[w][2] = {} /\ pipe[w][4] = {}
    BY <1>1 DEF Executed, Stages
  <2>5. WillEnable(w, q[2]) <=> Enabled(user[w], q[2]) BY <2>4 DEF WillEnable
  <2>6. WillIndex(w, q[2]) <=> user[w] \in index[q[2]] BY <2>4 DEF WillIndex
  <2> QED BY <1>1, <2>1, <2>2, <2>3, <2>5, <2>6 DEF Agrees
<1> QED BY <1>1, <1>3, <1>4, <1>5, ReturnKeeps

LEMMA BreakKeeps ==
  ASSUME IndInv, NEW w \in Writers, Break(w)
  PROVE  IndInv'
  BY ReturnKeeps DEF Break, IndInv, TypeOK

-----------------------------------------------------------------------------
\* The theorems.

\* IndInv holds of every reachable state of every instance: whatever the
\* interleaving of pipelines (user_store.go, ExecutePipeline), an update that no
\* other update of the user overlaps is on course to agreement.
THEOREM Inductive == Spec => []IndInv
<1>1. Init => IndInv
  <2> SUFFICES ASSUME Init PROVE IndInv OBVIOUS
  <2>1. Nothing \in [Stages -> SUBSET Commands] /\ PipeShape(Nothing)
        /\ \A i \in Stages : Nothing[i] = {}
    <3>1. \A i \in Stages : Nothing[i] = {} BY DEF Nothing, Stages
    <3>2. {} \in SUBSET Commands OBVIOUS
    <3>3. Nothing \in [Stages -> SUBSET Commands] BY <3>2, FourStages DEF Nothing
    <3>4. PipeShape(Nothing) BY DEF PipeShape, Nothing
    <3> QED BY <3>1, <3>3, <3>4
  <2>2. TypeOK BY <2>1, NoTasksType DEF Init, TypeOK
  <2>3. \A w \in Writers : PipeShape(pipe[w]) BY <2>1 DEF Init
  <2>4. PipesHaveUsers /\ ReadersHaveUsers
    BY <2>1 DEF Init, PipesHaveUsers, ReadersHaveUsers, Executed
  <2>5. AloneIsAlone /\ CleanIsIdle /\ PipesWillAgree /\ CompletedUpdatesAgree
    BY DEF Init, AloneIsAlone, CleanIsIdle, PipesWillAgree, CompletedUpdatesAgree
  <2> QED BY <2>2, <2>3, <2>4, <2>5 DEF IndInv
<1>2. IndInv /\ [Next]_vars => IndInv'
  <2> SUFFICES ASSUME IndInv, [Next]_vars PROVE IndInv' OBVIOUS
  <2>1. ASSUME NEW w \in Writers, NEW u \in Users, NEW t \in Types,
               EnableTaskForUser(w, u, t)
        PROVE  IndInv'
    BY <2>1, EnableKeeps
  <2>2. ASSUME NEW w \in Writers, NEW u \in Users, NEW t \in Types,
               DisableTaskForUser(w, u, t)
        PROVE  IndInv'
    BY <2>2, DisableKeeps
  <2>3. ASSUME NEW w \in Writers, NEW u \in Users, NEW pref \in Prefs,
               SaveUserPreference(w, u, pref)
        PROVE  IndInv'
    BY <2>3, SaveKeeps
  <2>4. ASSUME NEW w \in Writers, NEW u \in Users, DeleteUser(w, u) PROVE IndInv'
    BY <2>4, DeleteKeeps
  <2>5. ASSUME NEW w \in Writers, ReadTasks(w) PROVE IndInv' BY <2>5, ReadTasksKeeps
  <2>6. ASSUME NEW w \in Writers, Execute(w) PROVE IndInv' BY <2>6, ExecuteKeeps
  <2>7. ASSUME NEW w \in Writers, Complete(w) PROVE IndInv' BY <2>7, CompleteKeeps
  <2>8. ASSUME NEW w \in Writers, Break(w) PROVE IndInv' BY <2>8, BreakKeeps
  <2>9. CASE UNCHANGED vars
    <3> USE <2>9 DEF vars, storeVars, writerVars
    <3>1. TypeOK' /\ PipesHaveUsers' /\ ReadersHaveUsers' /\ AloneIsAlone' /\ CleanIsIdle'
      BY DEF IndInv, TypeOK, PipesHaveUsers, ReadersHaveUsers, Executed, AloneIsAlone,
             CleanIsIdle
    <3>2. (\A w \in Writers : PipeShape(pipe[w]))' BY DEF IndInv
    <3>3. PipesWillAgree' /\ CompletedUpdatesAgree'
      BY DEF IndInv, PipesWillAgree, CompletedUpdatesAgree, WillEnable, WillIndex, Agrees,
             Enabled
    <3> QED BY <3>1, <3>2, <3>3 DEF IndInv
  <2> QED
    BY <2>1, <2>2, <2>3, <2>4, <2>5, <2>6, <2>7, <2>8, <2>9 DEF Next, Rest
<1> QED BY <1>1, <1>2, PTL DEF Spec

\* The store holds preferences, a set of users and an index of users, and a writer
\* commands of the pipelines above, at every moment of every interleaving.
THEOREM TypeCorrect == Spec => []TypeOK
  BY Inductive, PTL DEF IndInv

\* EnableTaskForUser, DisableTaskForUser, SaveUserPreference and DeleteUser leave the
\* index (GetUsersForTask) and the user's tasks in agreement on the types they set if
\* they complete and no other update of the user has begun since they did, for any
\* number of writers, users, types and updates and any number of broken pipelines.
THEOREM UpdatesAgree == Spec => []CompletedUpdatesAgree
  BY Inductive, PTL DEF IndInv
=============================================================================
