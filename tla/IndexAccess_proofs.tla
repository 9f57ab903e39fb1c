------------------------- MODULE IndexAccess_proofs -------------------------
(***************************************************************************)
(* Proofs about IndexAccess, for every number of processes and of tasks in *)
(* each, whatever calls they make.                                         *)
(***************************************************************************)
EXTENDS IndexAccess, SequenceTheorems, TLAPS

(***************************************************************************)
(* The inductive invariant.  Everything rests on the lock of the process:  *)
(* a task that has come past it is its holder, so that nobody else of the  *)
(* process is past it, and what config() and close() change they change    *)
(* under it.                                                               *)
(***************************************************************************)
Past == {"create", "connect", "open", "run"}

\* A call past the lock holds it.
Holders == \A t \in Tasks : pc[t] \in Past => HoldsLock(t)

\* One version of config.json is as new as another.
Newer(v, w) == v.embedding >= w.embedding /\ v.llm >= w.llm

\* A stack was made from config.json as it was after some saves.
Since(stk, v) == stk.embedding.at >= v.embedding /\ stk.llm.at >= v.llm

\* Settings are those of the last save there had been when they were read,
\* unless a save or a load went wrong.
Faithful(setting) == spoilt \/ setting.is = setting.at

Working(t) == pc[t] \in {"connect", "open", "run"} /\ op[t] \in {"search", "sync"}

\* Which calls come to which step, with which connection, and with a stack
\* that is their client's and as new as what was known when they were made.
CallOK(t) ==
    LET c == ClientOf[t] IN
    /\ pc[t] = "create" => op[t] \in {"search", "sync"}
    /\ pc[t] \in {"connect", "open", "run"} => op[t] \in {"search", "sync", "api"}
    /\ conn[t] = IF pc[t] \in {"open", "run"} THEN Mode(t) ELSE "none"
    /\ pc[t] = "run" => storage[c] = t
    /\ Newer(known[c], floor[t])
    /\ pc[t] = "create" => held[t] \in Stack /\ Since(held[t], known[c])
    /\ Working(t) => /\ held[t] \in Stack /\ Since(held[t], floor[t])
                     /\ embedder[c] = held[t].embedding
    /\ pc[t] = "create" \/ Working(t) =>
         Faithful(held[t].embedding) /\ Faithful(held[t].llm)

\* A client has an embedder and a distiller, or neither, both as new as what
\* it knows of config.json, and that has been saved, or config() has tried to.
ClientOK(c) ==
    /\ embedder[c] = None <=> distiller[c] = None
    /\ Newer(saves, known[c])
    /\ embedder[c] # None => /\ embedder[c].at >= known[c].embedding
                             /\ distiller[c].at >= known[c].llm
                             /\ Faithful(embedder[c]) /\ Faithful(distiller[c])

CallsOK   == \A t \in Tasks : CallOK(t)
ClientsOK == \A c \in Clients : ClientOK(c)

\* As long as no save went wrong, config.json is what was saved last.
FileOK == spoilt \/ config = saves

AInv ==
    /\ TypeOK
    /\ Holders
    /\ CallsOK /\ ClientsOK /\ FileOK
    /\ WriterIsAlone

\* The two halves of TypeOK: the queue, and all the rest.
QueueOK ==
    /\ lock \in [Clients -> Seq(Tasks)]
    /\ \A c \in Clients :
         /\ IsInjective(lock[c])
         /\ ToSet(lock[c]) = {t \in Tasks : ClientOf[t] = c /\ pc[t] # "idle"}

DataOK ==
    /\ config \in Version /\ saves \in Version /\ spoilt \in BOOLEAN
    /\ exists \in BOOLEAN
    /\ conn \in [Tasks -> {"none", "ro", "rw"}]
    /\ embedder \in [Clients -> Setting \cup {None}]
    /\ distiller \in [Clients -> Setting \cup {None}]
    /\ storage \in [Clients -> Tasks \cup {None}]
    /\ pc \in [Tasks -> Steps] /\ op \in [Tasks -> Ops \cup {"none"}]
    /\ held \in [Tasks -> Stack \cup {NoStack}]
    /\ known \in [Clients -> Version] /\ floor \in [Tasks -> Version]

\* The type invariant is a part about the queues for the lock and one about all
\* other variables.
LEMMA TypeParts == TypeOK <=> DataOK /\ QueueOK
BY DEF TypeOK, DataOK, QueueOK
-----------------------------------------------------------------------------
(***************************************************************************)
(* Queues.                                                                 *)
(***************************************************************************)
\* Who queues last is in the queue, once, and the first stays the first.
LEMMA AppendQueue ==
  ASSUME NEW S, NEW s \in Seq(S), NEW e \in S, IsInjective(s), e \notin ToSet(s)
  PROVE  /\ Append(s, e) \in Seq(S) /\ IsInjective(Append(s, e))
         /\ ToSet(Append(s, e)) = ToSet(s) \cup {e}
         /\ Append(s, e) # << >>
         /\ s # << >> => Head(Append(s, e)) = Head(s)
<1>1. /\ Append(s, e) \in Seq(S) /\ Len(Append(s, e)) = Len(s) + 1 /\ Len(s) \in Nat
      /\ \A i \in 1..Len(s) : Append(s, e)[i] = s[i]
      /\ Append(s, e)[Len(s) + 1] = e
  OBVIOUS
<1>2. DOMAIN s = 1..Len(s) /\ DOMAIN Append(s, e) = 1..(Len(s) + 1)
  BY <1>1
<1>3. \A i \in 1..(Len(s) + 1) : i \in 1..Len(s) \/ i = Len(s) + 1
  BY <1>1
<1>4. \A i \in 1..Len(s) : s[i] # e
  BY <1>2 DEF ToSet
<1>5. IsInjective(Append(s, e))
  <2> SUFFICES ASSUME NEW i \in 1..(Len(s) + 1), NEW j \in 1..(Len(s) + 1),
                      Append(s, e)[i] = Append(s, e)[j]
               PROVE  i = j
    BY <1>2 DEF IsInjective
  <2>1. CASE i \in 1..Len(s) /\ j \in 1..Len(s)
    BY <1>1, <1>2, <2>1 DEF IsInjective
  <2>2. CASE i \in 1..Len(s) /\ j = Len(s) + 1
    BY <1>1, <1>4, <2>2
  <2>3. CASE i = Len(s) + 1 /\ j \in 1..Len(s)
    BY <1>1, <1>4, <2>3
  <2> QED
    BY <1>3, <2>1, <2>2, <2>3
<1>6. ToSet(Append(s, e)) = ToSet(s) \cup {e}
  BY <1>1, <1>2, <1>3 DEF ToSet
<1>7. Append(s, e) # << >>
  BY <1>1
<1>8. s # << >> => Head(Append(s, e)) = Head(s)
  BY <1>1, EmptySeq
<1> QED
  BY <1>1, <1>5, <1>6, <1>7, <1>8

\* The one served leaves the queue, and nobody else does.
LEMMA TailQueue ==
  ASSUME NEW S, NEW s \in Seq(S), s # << >>, IsInjective(s)
  PROVE  /\ Tail(s) \in Seq(S) /\ IsInjective(Tail(s))
         /\ ToSet(Tail(s)) = ToSet(s) \ {Head(s)}
<1>1. /\ Tail(s) \in Seq(S) /\ Len(Tail(s)) = Len(s) - 1 /\ Len(s) \in Nat \ {0}
      /\ \A i \in 1..Len(Tail(s)) : Tail(s)[i] = s[i + 1]
      /\ Head(s) = s[1]
  BY HeadTailProperties, EmptySeq
<1>2. DOMAIN s = 1..Len(s) /\ DOMAIN Tail(s) = 1..(Len(s) - 1)
  BY <1>1
<1>3. IsInjective(Tail(s))
  BY <1>1, <1>2 DEF IsInjective
<1>4. \A i \in 2..Len(s) : i - 1 \in 1..(Len(s) - 1) /\ Tail(s)[i - 1] = s[i] /\ s[i] # s[1]
  <2> TAKE i \in 2..Len(s)
  <2>1. i - 1 \in 1..(Len(s) - 1) /\ (i - 1) + 1 = i /\ i \in 1..Len(s) /\ 1 \in 1..Len(s) /\ i # 1
    BY <1>1
  <2>2. Tail(s)[i - 1] = s[i]
    BY <1>1, <2>1
  <2> QED
    BY <1>2, <2>1, <2>2 DEF IsInjective
<1>5. \A i \in 1..(Len(s) - 1) : i + 1 \in 2..Len(s) /\ Tail(s)[i] = s[i + 1]
  BY <1>1
<1>6. ToSet(Tail(s)) \subseteq ToSet(s) \ {Head(s)}
  BY <1>1, <1>2, <1>4, <1>5 DEF ToSet
<1>7. ToSet(s) \ {Head(s)} \subseteq ToSet(Tail(s))
  <2> SUFFICES ASSUME NEW i \in 1..Len(s), s[i] # s[1] PROVE s[i] \in ToSet(Tail(s))
    BY <1>1, <1>2 DEF ToSet
  <2>1. i \in 2..Len(s)
    BY <1>1
  <2> QED
    BY <1>2, <1>4, <2>1 DEF ToSet
<1> QED
  BY <1>1, <1>3, <1>6, <1>7
-----------------------------------------------------------------------------
(***************************************************************************)
(* _op_lock.                                                               *)
(***************************************************************************)
\* Nobody else of the process is past the lock.
LEMMA OnePast ==
  ASSUME Holders, NEW t \in Tasks, HoldsLock(t),
         NEW u \in Tasks, pc[u] \in Past, ClientOf[u] = ClientOf[t]
  PROVE  u = t
BY DEF Holders, HoldsLock

\* A call that ends hands the lock on, and disturbs no other.
LEMMA ReturnStep ==
  ASSUME TypeOK, Holders, NEW t \in Tasks, HoldsLock(t), Return(t)
  PROVE  QueueOK' /\ Holders'
<1> DEFINE c == ClientOf[t]
<1>1. c \in Clients /\ ClientOf \in [Tasks -> Clients]
  BY AccessAssumption
<1>2. /\ lock[c] \in Seq(Tasks) /\ lock[c] # << >> /\ IsInjective(lock[c])
      /\ Head(lock[c]) = t
      /\ lock \in [Clients -> Seq(Tasks)] /\ lock' = [lock EXCEPT ![c] = Tail(@)]
      /\ pc' = [pc EXCEPT ![t] = "idle"] /\ pc \in [Tasks -> Steps]
  BY <1>1 DEF Return, HoldsLock, TypeOK
<1>3. /\ Tail(lock[c]) \in Seq(Tasks) /\ IsInjective(Tail(lock[c]))
      /\ ToSet(Tail(lock[c])) = ToSet(lock[c]) \ {t}
  BY <1>2, TailQueue
<1>4. \A d \in Clients : lock'[d] = IF d = c THEN Tail(lock[c]) ELSE lock[d]
  BY <1>1, <1>2
<1>5. QueueOK'
  <2>1. lock' \in [Clients -> Seq(Tasks)]
    BY <1>1, <1>2, <1>3
  <2>2. ASSUME NEW d \in Clients
        PROVE  /\ IsInjective(lock'[d])
               /\ ToSet(lock'[d]) = {u \in Tasks : ClientOf[u] = d /\ pc'[u] # "idle"}
    <3>1. /\ IsInjective(lock[d])
          /\ ToSet(lock[d]) = {u \in Tasks : ClientOf[u] = d /\ pc[u] # "idle"}
      BY DEF TypeOK
    <3>2. CASE d = c
      BY <1>2, <1>3, <1>4, <3>1, <3>2
    <3>3. CASE d # c
      BY <1>2, <1>4, <3>1, <3>3
    <3> QED
      BY <3>2, <3>3
  <2> QED
    BY <2>1, <2>2 DEF QueueOK
<1>6. Holders'
  <2> SUFFICES ASSUME NEW u \in Tasks, pc'[u] \in Past PROVE HoldsLock(u)'
    BY DEF Holders
  <2>1. u # t /\ pc[u] \in Past
    BY <1>2 DEF Past
  <2>2. ClientOf[u] # c /\ HoldsLock(u) /\ ClientOf[u] \in Clients
    BY <1>1, <2>1, OnePast DEF Holders
  <2> QED
    BY <1>4, <2>2 DEF HoldsLock
<1> QED
  BY <1>5, <1>6

\* A call that goes on goes on holding the lock.
LEMMA GoStep ==
  ASSUME TypeOK, Holders, NEW t \in Tasks, NEW step \in Past,
         pc[t] # "idle", HoldsLock(t), Go(t, step)
  PROVE  QueueOK' /\ Holders'
<1>1. lock' = lock /\ pc' = [pc EXCEPT ![t] = step] /\ pc \in [Tasks -> Steps]
  BY DEF Go, TypeOK
<1>2. step # "idle" /\ \A u \in Tasks : pc'[u] = IF u = t THEN step ELSE pc[u]
  BY <1>1 DEF Past
<1>3. \A u \in Tasks : pc'[u] # "idle" <=> pc[u] # "idle"
  BY <1>2
<1>4. QueueOK'
  BY <1>1, <1>3 DEF TypeOK, QueueOK
<1>5. Holders'
  BY <1>1, <1>2 DEF Holders, HoldsLock
<1> QED
  BY <1>4, <1>5

\* A call that is made queues behind the others.
LEMMA CallStep ==
  ASSUME TypeOK, Holders, NEW t \in Tasks, NEW o, Call(t, o)
  PROVE  QueueOK' /\ Holders'
<1> DEFINE c == ClientOf[t]
<1>1. c \in Clients /\ ClientOf \in [Tasks -> Clients]
  BY AccessAssumption
<1>2. /\ pc[t] = "idle" /\ pc' = [pc EXCEPT ![t] = "locked"] /\ pc \in [Tasks -> Steps]
      /\ lock \in [Clients -> Seq(Tasks)] /\ lock' = [lock EXCEPT ![c] = Append(@, t)]
  BY DEF Call, TypeOK
<1>3. lock[c] \in Seq(Tasks) /\ IsInjective(lock[c]) /\ t \notin ToSet(lock[c])
  BY <1>1, <1>2 DEF TypeOK
<1>4. /\ Append(lock[c], t) \in Seq(Tasks) /\ IsInjective(Append(lock[c], t))
      /\ ToSet(Append(lock[c], t)) = ToSet(lock[c]) \cup {t}
      /\ Append(lock[c], t) # << >>
      /\ lock[c] # << >> => Head(Append(lock[c], t)) = Head(lock[c])
  BY <1>3, AppendQueue
<1>5. \A d \in Clients : lock'[d] = IF d = c THEN Append(lock[c], t) ELSE lock[d]
  BY <1>1, <1>2
<1>6. QueueOK'
  <2>1. lock' \in [Clients -> Seq(Tasks)]
    BY <1>1, <1>2, <1>4
  <2>2. ASSUME NEW d \in Clients
        PROVE  /\ IsInjective(lock'[d])
               /\ ToSet(lock'[d]) = {u \in Tasks : ClientOf[u] = d /\ pc'[u] # "idle"}
    <3>1. /\ IsInjective(lock[d])
          /\ ToSet(lock[d]) = {u \in Tasks : ClientOf[u] = d /\ pc[u] # "idle"}
      BY DEF TypeOK
    <3>2. CASE d = c
      BY <1>2, <1>4, <1>5, <3>1, <3>2
    <3>3. CASE d # c
      BY <1>2, <1>5, <3>1, <3>3
    <3> QED
      BY <3>2, <3>3
  <2> QED
    BY <2>1, <2>2 DEF QueueOK
<1>7. Holders'
  <2> SUFFICES ASSUME NEW u \in Tasks, pc'[u] \in Past PROVE HoldsLock(u)'
    BY DEF Holders
  <2>1. pc[u] \in Past
    BY <1>2 DEF Past
  <2>2. lock[ClientOf[u]] # << >> /\ Head(lock[ClientOf[u]]) = u /\ ClientOf[u] \in Clients
    BY <1>1, <2>1 DEF Holders, HoldsLock
  <2> QED
    BY <1>4, <1>5, <2>2 DEF HoldsLock
<1> QED
  BY <1>6, <1>7

\* With a process its lock and its tasks are gone.
LEMMA CrashQueue ==
  ASSUME TypeOK, Holders, NEW c \in Clients, Crash(c)
  PROVE  QueueOK' /\ Holders'
<1>0. ClientOf \in [Tasks -> Clients]
  BY AccessAssumption
<1>1. /\ \A u \in Tasks : pc'[u] = IF ClientOf[u] = c THEN "idle" ELSE pc[u]
      /\ lock' = [lock EXCEPT ![c] = << >>] /\ lock \in [Clients -> Seq(Tasks)]
  BY DEF Crash, TypeOK
<1>2. IsInjective(<< >>) /\ ToSet(<< >>) = {} /\ << >> \in Seq(Tasks)
  BY DEF IsInjective, ToSet
<1>3. \A d \in Clients : lock'[d] = IF d = c THEN << >> ELSE lock[d]
  BY <1>1
<1>4. lock' \in [Clients -> Seq(Tasks)]
  BY <1>1, <1>2
<1>5. QueueOK'
  <2>1. ASSUME NEW d \in Clients
        PROVE  /\ IsInjective(lock'[d])
               /\ ToSet(lock'[d]) = {u \in Tasks : ClientOf[u] = d /\ pc'[u] # "idle"}
    <3>1. /\ IsInjective(lock[d])
          /\ ToSet(lock[d]) = {u \in Tasks : ClientOf[u] = d /\ pc[u] # "idle"}
      BY DEF TypeOK
    <3>2. CASE d = c
      BY <1>1, <1>2, <1>3, <3>2
    <3>3. CASE d # c
      BY <1>1, <1>3, <3>1, <3>3
    <3> QED
      BY <3>2, <3>3
  <2> QED
    BY <1>4, <2>1 DEF QueueOK
<1>6. Holders'
  BY <1>0, <1>1, <1>3 DEF Holders, HoldsLock, Past
<1> QED
  BY <1>5, <1>6

\* Every step keeps the queues in order and the lock with its holder.
LEMMA QueueStep == TypeOK /\ Holders /\ [Next]_vars => QueueOK' /\ Holders'
<1> SUFFICES ASSUME TypeOK, Holders, [Next]_vars PROVE QueueOK' /\ Holders'
  OBVIOUS
<1>0. {"create", "connect", "open", "run"} = Past /\ "idle" \notin Past /\ "locked" \notin Past
  BY DEF Past
<1>1. ASSUME NEW t \in Tasks, Step(t) PROVE QueueOK' /\ Holders'
  <2>1. pc[t] # "idle" /\ HoldsLock(t)
    BY <1>0, <1>1 DEF Holders, Step, EnsureStack, LoadConfig, CreateStack, CreateStackFails,
       ApiJava, Connect, ConnectFails, Open, OpenFails, CloseStorage, InvalidateEmbedder,
       InvalidateDistiller, Close
  <2>2. Return(t) \/ \E step \in Past : Go(t, step)
    BY <1>0, <1>1 DEF Step, EnsureStack, LoadConfig, CreateStack, CreateStackFails,
       ApiJava, Connect, ConnectFails, Open, OpenFails, CloseStorage, InvalidateEmbedder,
       InvalidateDistiller, Close
  <2> QED
    BY <2>1, <2>2, ReturnStep, GoStep
<1>2. CASE UNCHANGED vars
  BY <1>2 DEF vars, TypeOK, QueueOK, Holders, HoldsLock
<1> QED
  BY <1>1, <1>2, CallStep, CrashQueue DEF Next
-----------------------------------------------------------------------------
(***************************************************************************)
(* Types, steps and stacks.                                                *)
(***************************************************************************)
\* A version of config.json has two halves, and a stack two settings, which are
\* not None.
LEMMA Versions ==
  /\ Oldest \in Version
  /\ \A v \in Version : v.embedding \in 0..MaxConfigs /\ v.llm \in 0..MaxConfigs
  /\ \A s \in Setting : s.at \in 0..MaxConfigs /\ s.is \in 0..MaxConfigs
  /\ \A s \in Stack : s.embedding \in Setting /\ s.llm \in Setting
  /\ \A r, s \in Setting : [embedding |-> r, llm |-> s] \in Stack
  /\ None \notin Setting
<1>1. MaxConfigs \in Nat /\ None \notin [is : Nat, at : Nat]
  BY AccessAssumption
<1>2. Setting \subseteq [is : Nat, at : Nat]
  BY <1>1 DEF Setting
<1>3. None \notin Setting
  BY <1>1, <1>2
<1> QED
  BY <1>1, <1>3 DEF Oldest, Version, Setting, Stack

\* What is read of a half of config.json is a setting, and as new as the saves.
LEMMA LoadStep ==
  ASSUME TypeOK, NEW seen \in Version, Load(seen), NEW half \in {"embedding", "llm"}
  PROVE  /\ Loaded(seen, half) \in Setting
         /\ Loaded(seen, half).at = saves[half]
         /\ spoilt' \in BOOLEAN /\ (spoilt => spoilt')
         /\ FileOK => spoilt' \/ Loaded(seen, half).is = Loaded(seen, half).at
<1>1. /\ seen[half] \in 0..MaxConfigs /\ saves[half] \in 0..MaxConfigs
      /\ Loaded(seen, half) = [is |-> seen[half], at |-> saves[half]]
  BY DEF TypeOK, Version, Loaded
<1>2. spoilt' \in BOOLEAN /\ (spoilt => spoilt') /\ (seen = config \/ spoilt')
  BY DEF Load, TypeOK
<1>3. FileOK => spoilt' \/ seen[half] = saves[half]
  BY DEF Load, FileOK
<1> QED
  BY <1>1, <1>2, <1>3 DEF Setting

\* As new as what is as new is as new.
LEMMA NewerTransitive ==
  \A u, v, w \in Version : Newer(u, v) /\ Newer(v, w) => Newer(u, w)
BY AccessAssumption DEF Version, Newer

\* A stack as new as what is as new is as new.
LEMMA SinceTransitive ==
  \A s \in Stack, v, w \in Version : Since(s, v) /\ Newer(v, w) => Since(s, w)
<1> SUFFICES ASSUME NEW s \in Stack, NEW v \in Version, NEW w \in Version,
                    Since(s, v), Newer(v, w)
             PROVE  Since(s, w)
  OBVIOUS
<1>1. /\ s.embedding.at \in Nat /\ s.llm.at \in Nat
      /\ v.embedding \in Nat /\ v.llm \in Nat /\ w.embedding \in Nat /\ w.llm \in Nat
  BY Versions, AccessAssumption
<1> QED
  BY <1>1 DEF Since, Newer

\* What the end of a call leaves.
LEMMA ReturnData ==
  ASSUME TypeOK, NEW t \in Tasks, Return(t)
  PROVE  /\ pc' \in [Tasks -> Steps] /\ op' \in [Tasks -> Ops \cup {"none"}]
         /\ held' \in [Tasks -> Stack \cup {NoStack}] /\ floor' \in [Tasks -> Version]
         /\ pc'[t] = "idle" /\ floor'[t] = Oldest
         /\ \A u \in Tasks \ {t} : /\ pc'[u] = pc[u] /\ op'[u] = op[u]
                                   /\ held'[u] = held[u] /\ floor'[u] = floor[u]
BY Versions DEF Return, TypeOK, Steps

\* What going on leaves.
LEMMA GoData ==
  ASSUME TypeOK, NEW t \in Tasks, NEW step \in Past, Go(t, step)
  PROVE  /\ pc' \in [Tasks -> Steps] /\ pc'[t] = step
         /\ \A u \in Tasks \ {t} : pc'[u] = pc[u]
         /\ UNCHANGED <<op, floor>>
BY DEF Go, TypeOK, Steps, Past

\* config() saves one half of config.json, or tries to.
LEMMA SaveConfigStep ==
  ASSUME TypeOK, FileOK, NEW half \in {"embedding", "llm"}, SaveConfig(half)
  PROVE  /\ config' \in Version /\ saves' \in Version /\ Newer(saves', saves)
         /\ spoilt' \in BOOLEAN /\ (spoilt => spoilt') /\ FileOK'
<1> DEFINE saved == [config EXCEPT ![half] = saves[half] + 1]
           earlier == {v \in Version : \A h \in DOMAIN v : v[h] <= saves[h]}
<1>1. /\ saves[half] + 1 \in 0..MaxConfigs /\ saves' = [saves EXCEPT ![half] = saves[half] + 1]
      /\ saves' \in Version /\ Newer(saves', saves)
  BY AccessAssumption DEF SaveConfig, TypeOK, Version, Newer
<1>2. saved \in Version /\ saved[half] \in 0..MaxConfigs
  BY <1>1 DEF TypeOK, Version
<1>3. \A v \in Version : [v EXCEPT ![half] = saved[half]] \in Version
  BY <1>2 DEF Version
<1>4. \/ config' = saved /\ spoilt' = spoilt
      \/ /\ config' \in {config, Oldest} \cup {[v EXCEPT ![half] = saved[half]] : v \in earlier}
         /\ spoilt' = TRUE
  BY DEF SaveConfig
<1>5. config' \in Version
  BY <1>2, <1>3, <1>4, Versions DEF TypeOK
<1>6. spoilt' \in BOOLEAN /\ (spoilt => spoilt')
  BY <1>4 DEF TypeOK
<1>7. FileOK'
  BY <1>1, <1>4 DEF FileOK
<1> QED
  BY <1>1, <1>5, <1>6, <1>7

\* What config() has returned from are the saves there were by then.
LEMMA LearnStep ==
  ASSUME TypeOK, NEW c \in Clients, NEW halves, Learn(c, halves)
  PROVE  /\ known' \in [Clients -> Version]
         /\ \A d \in Clients \ {c} : known'[d] = known[d]
         /\ known'[c].embedding = IF "embedding" \in halves THEN saves.embedding
                                                            ELSE known[c].embedding
         /\ known'[c].llm = IF "llm" \in halves THEN saves.llm ELSE known[c].llm
BY DEF Learn, TypeOK, Version

\* What a call begins with.
LEMMA CallData ==
  ASSUME TypeOK, FileOK, NEW t \in Tasks, NEW o \in Ops, Call(t, o)
  PROVE  /\ config' \in Version /\ saves' \in Version /\ Newer(saves', saves)
         /\ spoilt' \in BOOLEAN /\ (spoilt => spoilt') /\ FileOK'
         /\ pc' \in [Tasks -> Steps] /\ op' \in [Tasks -> Ops \cup {"none"}]
         /\ floor' \in [Tasks -> Version]
         /\ pc[t] = "idle" /\ pc'[t] = "locked"
         /\ floor'[t] = floor[t] \/ floor'[t] = known[ClientOf[t]]
         /\ \A u \in Tasks \ {t} : pc'[u] = pc[u] /\ op'[u] = op[u] /\ floor'[u] = floor[u]
         /\ UNCHANGED <<exists, conn, stack, storage, held, known>>
<1>1. /\ config' \in Version /\ saves' \in Version /\ Newer(saves', saves)
      /\ spoilt' \in BOOLEAN /\ (spoilt => spoilt') /\ FileOK'
  <2>1. CASE o \in {"configEmbedding", "configLlm"}
    <3>1. \E half \in {"embedding", "llm"} : SaveConfig(half)
      BY <2>1 DEF Call
    <3> QED
      BY <3>1, SaveConfigStep
  <2>2. CASE o \notin {"configEmbedding", "configLlm"}
    <3>1. UNCHANGED settings
      BY <2>2 DEF Call
    <3>2. Newer(saves, saves)
      BY AccessAssumption DEF TypeOK, Version, Newer
    <3> QED
      BY <3>1, <3>2 DEF settings, TypeOK, FileOK
  <2> QED
    BY <2>1, <2>2
<1>2. known[ClientOf[t]] \in Version
  BY AccessAssumption DEF TypeOK
<1> QED
  BY <1>1, <1>2 DEF Call, TypeOK, Steps

\* What the end of a process leaves.
LEMMA CrashData ==
  ASSUME TypeOK, NEW c \in Clients, Crash(c)
  PROVE  /\ DataOK' /\ UNCHANGED <<config, saves, spoilt, exists, known>>
         /\ embedder'[c] = None /\ distiller'[c] = None
         /\ \A d \in Clients \ {c} : /\ embedder'[d] = embedder[d]
                                     /\ distiller'[d] = distiller[d]
                                     /\ storage'[d] = storage[d]
         /\ \A t \in Tasks : IF ClientOf[t] = c
              THEN pc'[t] = "idle" /\ conn'[t] = "none" /\ floor'[t] = Oldest
              ELSE /\ pc'[t] = pc[t] /\ op'[t] = op[t] /\ conn'[t] = conn[t]
                   /\ held'[t] = held[t] /\ floor'[t] = floor[t]
BY Versions DEF Crash, TypeOK, DataOK, Steps, settings

\* Every step keeps the types.
LEMMA DataStep == TypeOK /\ CallsOK /\ ClientsOK /\ FileOK /\ [Next]_vars => DataOK'
<1> SUFFICES ASSUME TypeOK, CallsOK, ClientsOK, FileOK, [Next]_vars PROVE DataOK'
  OBVIOUS
<1>0. /\ ClientOf \in [Tasks -> Clients] /\ Calls \in [Tasks -> SUBSET Ops]
      /\ {"create", "connect", "open", "run"} = Past
  BY AccessAssumption DEF Past
<1> USE DEF DataOK, files, settings, stack
<1>1. ASSUME NEW t \in Tasks, NEW o \in Ops, Call(t, o) PROVE DataOK'
  BY <1>1, CallData DEF TypeOK
<1>2. ASSUME NEW t \in Tasks, EnsureStack(t) PROVE DataOK'
  <2>1. /\ Go(t, "connect") /\ UNCHANGED <<files, stack, storage, known>>
        /\ held' = [held EXCEPT ![t] = [embedding |-> embedder[ClientOf[t]],
                                        llm |-> distiller[ClientOf[t]]]]
        /\ embedder[ClientOf[t]] # None
    BY <1>2 DEF EnsureStack
  <2>2. [embedding |-> embedder[ClientOf[t]], llm |-> distiller[ClientOf[t]]] \in Stack
    BY <1>0, <2>1, Versions DEF ClientsOK, ClientOK, TypeOK
  <2> QED
    BY <1>0, <2>1, <2>2, GoData DEF TypeOK
<1>3. ASSUME NEW t \in Tasks, LoadConfig(t) PROVE DataOK'
  <2>1. /\ Go(t, "create") /\ UNCHANGED <<config, saves, exists, conn, stack, storage, known>>
    BY <1>3 DEF LoadConfig
  <2>2. PICK seen \in Version :
          /\ Load(seen)
          /\ held' = [held EXCEPT ![t] = [embedding |-> Loaded(seen, "embedding"),
                                          llm |-> Loaded(seen, "llm")]]
    BY <1>3 DEF LoadConfig
  <2>3. /\ Loaded(seen, "embedding") \in Setting /\ Loaded(seen, "llm") \in Setting
        /\ spoilt' \in BOOLEAN
    BY <2>2, LoadStep
  <2>4. held' \in [Tasks -> Stack \cup {NoStack}]
    BY <2>2, <2>3, Versions DEF TypeOK
  <2> QED
    BY <1>0, <2>1, <2>3, <2>4, GoData DEF TypeOK
<1>4. ASSUME NEW t \in Tasks, CreateStack(t) PROVE DataOK'
  <2>1. /\ Go(t, "connect") /\ UNCHANGED <<files, storage, held, known>>
        /\ embedder' = [embedder EXCEPT ![ClientOf[t]] = held[t].embedding]
        /\ distiller' = [distiller EXCEPT ![ClientOf[t]] = held[t].llm]
        /\ held[t] \in Stack
    BY <1>0, <1>4 DEF CreateStack, CallsOK, CallOK
  <2> QED
    BY <1>0, <2>1, GoData, Versions DEF TypeOK
<1>5. ASSUME NEW t \in Tasks, CreateStackFails(t) \/ ConnectFails(t) PROVE DataOK'
  BY <1>5, ReturnData DEF CreateStackFails, ConnectFails, TypeOK
<1>6. ASSUME NEW t \in Tasks, ApiJava(t) PROVE DataOK'
  BY <1>0, <1>6, GoData DEF ApiJava, TypeOK
<1>7. ASSUME NEW t \in Tasks, Connect(t) PROVE DataOK'
  <2>1. /\ Go(t, "open") /\ UNCHANGED <<settings, stack, storage, held, known>>
        /\ conn' = [conn EXCEPT ![t] = Mode(t)] /\ exists' = TRUE
    BY <1>7 DEF Connect
  <2> QED
    BY <1>0, <2>1, GoData DEF TypeOK, Mode
<1>8. ASSUME NEW t \in Tasks, Open(t) PROVE DataOK'
  <2>1. /\ Go(t, "run") /\ UNCHANGED <<files, stack, held, known>>
        /\ storage' = [storage EXCEPT ![ClientOf[t]] = t]
    BY <1>8 DEF Open
  <2> QED
    BY <1>0, <2>1, GoData DEF TypeOK
<1>9. ASSUME NEW t \in Tasks, OpenFails(t) PROVE DataOK'
  BY <1>9, ReturnData DEF OpenFails, TypeOK
<1>10. ASSUME NEW t \in Tasks, CloseStorage(t) PROVE DataOK'
  <2>1. /\ Return(t) /\ UNCHANGED <<settings, exists, stack, known>>
        /\ conn' = [conn EXCEPT ![t] = "none"]
        /\ storage' = [storage EXCEPT ![ClientOf[t]] = None]
    BY <1>10 DEF CloseStorage
  <2> QED
    BY <1>0, <2>1, ReturnData DEF TypeOK
<1>11. ASSUME NEW t \in Tasks, InvalidateEmbedder(t) PROVE DataOK'
  <2>1. /\ Return(t) /\ UNCHANGED <<files, storage>> /\ Learn(ClientOf[t], {"embedding"})
        /\ embedder' = [embedder EXCEPT ![ClientOf[t]] = None]
        /\ distiller' = [distiller EXCEPT ![ClientOf[t]] = None]
    BY <1>11 DEF InvalidateEmbedder
  <2> QED
    BY <1>0, <2>1, ReturnData, LearnStep DEF TypeOK
<1>12. ASSUME NEW t \in Tasks, InvalidateDistiller(t) PROVE DataOK'
  <2>1. /\ Return(t) /\ Learn(ClientOf[t], {"llm"})
        /\ UNCHANGED <<config, saves, exists, conn, embedder, storage>>
    BY <1>12 DEF InvalidateDistiller
  <2>2. spoilt' \in BOOLEAN /\ distiller' \in [Clients -> Setting \cup {None}]
    <3>1. CASE UNCHANGED <<distiller, spoilt>>
      BY <3>1 DEF TypeOK
    <3>2. ASSUME NEW seen \in Version, Load(seen),
                 distiller' = [distiller EXCEPT ![ClientOf[t]] = Loaded(seen, "llm")]
          PROVE  spoilt' \in BOOLEAN /\ distiller' \in [Clients -> Setting \cup {None}]
      <4>1. Loaded(seen, "llm") \in Setting /\ spoilt' \in BOOLEAN
        BY <3>2, LoadStep
      <4> QED
        BY <3>2, <4>1 DEF TypeOK
    <3> QED
      BY <1>12, <3>1, <3>2 DEF InvalidateDistiller
  <2> QED
    BY <1>0, <2>1, <2>2, ReturnData, LearnStep DEF TypeOK
<1>13. ASSUME NEW t \in Tasks, Close(t) PROVE DataOK'
  <2>1. /\ Return(t) /\ UNCHANGED <<files, storage, known>>
        /\ embedder' = [embedder EXCEPT ![ClientOf[t]] = None]
        /\ distiller' = [distiller EXCEPT ![ClientOf[t]] = None]
    BY <1>13 DEF Close
  <2> QED
    BY <1>0, <2>1, ReturnData DEF TypeOK
<1>14. ASSUME NEW c \in Clients, Crash(c) PROVE DataOK'
  BY <1>14, CrashData
<1>15. CASE UNCHANGED vars
  BY <1>15 DEF vars, TypeOK
<1> QED
  BY <1>0, <1>1, <1>2, <1>3, <1>4, <1>5, <1>6, <1>7, <1>8, <1>9, <1>10, <1>11, <1>12, <1>13,
     <1>14, <1>15 DEF Next, Step

-----------------------------------------------------------------------------
(***************************************************************************)
(* Calls and clients.                                                      *)
(***************************************************************************)
\* A step of a call is about itself and its client.
LEMMA OthersStay ==
  ASSUME TypeOK, NEW t \in Tasks, Step(t)
  PROVE  /\ UNCHANGED <<config, saves>> /\ (spoilt => spoilt')
         /\ \A u \in Tasks \ {t} : /\ pc'[u] = pc[u] /\ op'[u] = op[u] /\ conn'[u] = conn[u]
                                   /\ held'[u] = held[u] /\ floor'[u] = floor[u]
         /\ \A d \in Clients \ {ClientOf[t]} :
              /\ embedder'[d] = embedder[d] /\ distiller'[d] = distiller[d]
              /\ storage'[d] = storage[d] /\ known'[d] = known[d]
<1> DEFINE Calls4 == \A u \in Tasks \ {t} : /\ pc'[u] = pc[u] /\ op'[u] = op[u]
                                            /\ held'[u] = held[u] /\ floor'[u] = floor[u]
           Rest == /\ UNCHANGED <<config, saves>> /\ (spoilt => spoilt')
                   /\ \A u \in Tasks \ {t} : conn'[u] = conn[u]
                   /\ \A d \in Clients \ {ClientOf[t]} :
                        /\ embedder'[d] = embedder[d] /\ distiller'[d] = distiller[d]
                        /\ storage'[d] = storage[d] /\ known'[d] = known[d]
<1>1. Calls4
  <2>1. CASE EnsureStack(t) \/ LoadConfig(t) \/ CreateStack(t) \/ ApiJava(t) \/ Connect(t) \/ Open(t)
    BY <2>1 DEF EnsureStack, LoadConfig, CreateStack, ApiJava, Connect, Open, Go, TypeOK
  <2>2. Return(t) => Calls4
    BY ReturnData
  <2> QED
    BY <2>1, <2>2 DEF Step, CreateStackFails, ConnectFails, OpenFails, CloseStorage,
       InvalidateEmbedder, InvalidateDistiller, Close
<1>2. Rest
  <2>1. CASE InvalidateEmbedder(t) \/ InvalidateDistiller(t)
    <3>1. \E halves : Learn(ClientOf[t], halves)
      BY <2>1 DEF InvalidateEmbedder, InvalidateDistiller
    <3>2. \A d \in Clients \ {ClientOf[t]} : known'[d] = known[d]
      BY <3>1 DEF Learn, TypeOK
    <3>3. spoilt => spoilt'
      BY <2>1 DEF InvalidateEmbedder, InvalidateDistiller, Load, files, settings
    <3> QED
      BY <2>1, <3>2, <3>3 DEF InvalidateEmbedder, InvalidateDistiller, TypeOK, files, settings
  <2>2. CASE LoadConfig(t)
    BY <2>2 DEF LoadConfig, Load, stack
  <2>3. CASE ~ (InvalidateEmbedder(t) \/ InvalidateDistiller(t) \/ LoadConfig(t))
    BY <2>3 DEF Step, EnsureStack, CreateStack, CreateStackFails, ApiJava, Connect,
       ConnectFails, Open, OpenFails, CloseStorage, Close, TypeOK, files, settings, stack
  <2> QED
    BY <2>1, <2>2, <2>3
<1> QED
  BY <1>1, <1>2

\* Who does nothing has no connection, and counts on nothing.
LEMMA IdleOK ==
  ASSUME NEW t \in Tasks, pc'[t] = "idle", floor'[t] = Oldest, conn'[t] = "none",
         known' \in [Clients -> Version]
  PROVE  CallOK(t)'
<1>1. known'[ClientOf[t]].embedding >= 0 /\ known'[ClientOf[t]].llm >= 0
  BY AccessAssumption, Versions
<1>2. Newer(known'[ClientOf[t]], Oldest)
  BY <1>1 DEF Newer, Oldest
<1> QED
  BY <1>2 DEF CallOK, Working, Newer

\* A step of a call keeps what is said of it and of its client.
LEMMA OwnStep ==
  ASSUME TypeOK, Holders, CallsOK, ClientsOK, FileOK, NEW t \in Tasks, Step(t), DataOK'
  PROVE  CallOK(t)' /\ ClientOK(ClientOf[t])' /\ Newer(known'[ClientOf[t]], known[ClientOf[t]])
<1> DEFINE c == ClientOf[t]
           Goal == CallOK(t)' /\ ClientOK(c)' /\ Newer(known'[c], known[c])
<1>0. /\ c \in Clients /\ CallOK(t) /\ ClientOK(c)
      /\ saves \in Version /\ known[c] \in Version /\ known' \in [Clients -> Version]
      /\ \A v \in Version : Newer(v, v)
      /\ {"create", "connect", "open", "run"} = Past
  BY AccessAssumption DEF CallsOK, ClientsOK, TypeOK, DataOK, Past, Newer, Version
<1>1. CASE EnsureStack(t)
  <2>1. /\ Go(t, "connect")
        /\ UNCHANGED <<saves, spoilt, conn, embedder, distiller, storage, known>>
        /\ held'[t] = [embedding |-> embedder[c], llm |-> distiller[c]]
        /\ embedder[c] # None /\ op[t] \in {"search", "sync"} /\ pc[t] = "locked"
    BY <1>1 DEF EnsureStack, files, settings, stack, TypeOK
  <2>2. pc'[t] = "connect" /\ UNCHANGED <<op, floor>>
    BY <1>0, <2>1, GoData
  <2>3. held'[t] \in Stack
    BY <1>0, <2>1, Versions DEF ClientOK, TypeOK
  <2>4. Since(held'[t], known[c]) /\ Newer(known[c], floor[t])
    BY <1>0, <2>1 DEF ClientOK, CallOK, Since
  <2>5. Since(held'[t], floor[t])
    BY <1>0, <2>3, <2>4, SinceTransitive DEF TypeOK
  <2>6. /\ spoilt' \/ held'[t].embedding.is = held'[t].embedding.at
        /\ spoilt' \/ held'[t].llm.is = held'[t].llm.at
    BY <1>0, <2>1 DEF ClientOK, Faithful
  <2>7. CallOK(t)'
    BY <1>0, <2>1, <2>2, <2>3, <2>4, <2>5, <2>6 DEF CallOK, Working, Faithful
  <2> QED
    BY <1>0, <2>1, <2>7 DEF ClientOK, Faithful
<1>2. CASE LoadConfig(t)
  <2>1. /\ Go(t, "create") /\ UNCHANGED <<saves, conn, embedder, distiller, storage, known>>
        /\ op[t] \in {"search", "sync"} /\ pc[t] = "locked"
    BY <1>2 DEF LoadConfig, stack
  <2>2. pc'[t] = "create" /\ UNCHANGED <<op, floor>>
    BY <1>0, <2>1, GoData
  <2>3. PICK seen \in Version :
          /\ Load(seen)
          /\ held' = [held EXCEPT ![t] = [embedding |-> Loaded(seen, "embedding"),
                                          llm |-> Loaded(seen, "llm")]]
    BY <1>2 DEF LoadConfig
  <2>4. /\ Loaded(seen, "embedding") \in Setting /\ Loaded(seen, "llm") \in Setting
        /\ Loaded(seen, "embedding").at = saves.embedding
        /\ Loaded(seen, "llm").at = saves.llm
        /\ spoilt' \/ Loaded(seen, "embedding").is = Loaded(seen, "embedding").at
        /\ spoilt' \/ Loaded(seen, "llm").is = Loaded(seen, "llm").at
        /\ spoilt => spoilt'
    BY <2>3, LoadStep
  <2>5. held'[t] = [embedding |-> Loaded(seen, "embedding"), llm |-> Loaded(seen, "llm")]
    BY <2>3 DEF TypeOK
  <2>6. held'[t] \in Stack
    BY <2>4, <2>5, Versions
  <2>7. Since(held'[t], known[c])
    BY <1>0, <2>4, <2>5 DEF ClientOK, Since, Newer
  <2>8. /\ spoilt' \/ held'[t].embedding.is = held'[t].embedding.at
        /\ spoilt' \/ held'[t].llm.is = held'[t].llm.at
    BY <2>4, <2>5
  <2>9. CallOK(t)'
    BY <1>0, <2>1, <2>2, <2>6, <2>7, <2>8 DEF CallOK, Working, Faithful
  <2> QED
    BY <1>0, <2>1, <2>4, <2>9 DEF ClientOK, Faithful
<1>3. CASE CreateStack(t)
  <2>1. /\ Go(t, "connect") /\ UNCHANGED <<saves, spoilt, conn, storage, held, known>>
        /\ embedder'[c] = held[t].embedding /\ distiller'[c] = held[t].llm
        /\ pc[t] = "create"
    BY <1>0, <1>3 DEF CreateStack, files, settings, TypeOK
  <2>2. pc'[t] = "connect" /\ UNCHANGED <<op, floor>>
    BY <1>0, <2>1, GoData
  <2>3. /\ held[t] \in Stack /\ Since(held[t], known[c]) /\ Newer(known[c], floor[t])
        /\ Faithful(held[t].embedding) /\ Faithful(held[t].llm)
        /\ op[t] \in {"search", "sync"}
    BY <1>0, <2>1 DEF CallOK
  <2>4. Since(held[t], floor[t])
    BY <1>0, <2>3, SinceTransitive DEF TypeOK
  <2>5. CallOK(t)'
    BY <1>0, <2>1, <2>2, <2>3, <2>4 DEF CallOK, Working, Faithful
  <2>6. embedder'[c] # None /\ distiller'[c] # None
    BY <2>1, <2>3, Versions
  <2> QED
    BY <1>0, <2>1, <2>3, <2>5, <2>6 DEF ClientOK, Since, Faithful
<1>4. CASE CreateStackFails(t) \/ ConnectFails(t)
  <2>1. /\ Return(t) /\ UNCHANGED <<saves, spoilt, conn, embedder, distiller, storage, known>>
        /\ pc[t] \in {"create", "connect"}
    BY <1>4 DEF CreateStackFails, ConnectFails, files, settings, stack
  <2>2. pc'[t] = "idle" /\ floor'[t] = Oldest /\ conn'[t] = "none"
    BY <1>0, <2>1, ReturnData DEF CallOK
  <2> QED
    BY <1>0, <2>1, <2>2, IdleOK DEF ClientOK, Faithful
<1>5. CASE ApiJava(t)
  <2>1. /\ Go(t, "connect") /\ UNCHANGED <<saves, spoilt, conn, embedder, distiller, storage, held, known>>
        /\ op[t] = "api" /\ pc[t] = "locked"
    BY <1>5 DEF ApiJava, files, settings, stack
  <2>2. pc'[t] = "connect" /\ UNCHANGED <<op, floor>>
    BY <1>0, <2>1, GoData
  <2>3. CallOK(t)'
    BY <1>0, <2>1, <2>2 DEF CallOK, Working, Faithful
  <2> QED
    BY <1>0, <2>1, <2>3 DEF ClientOK, Faithful
<1>6. CASE Connect(t)
  <2>1. /\ Go(t, "open") /\ UNCHANGED <<saves, spoilt, embedder, distiller, storage, held, known>>
        /\ conn'[t] = Mode(t) /\ pc[t] = "connect"
    BY <1>6 DEF Connect, settings, stack, TypeOK
  <2>2. pc'[t] = "open" /\ UNCHANGED <<op, floor>>
    BY <1>0, <2>1, GoData
  <2>3. CallOK(t)'
    BY <1>0, <2>1, <2>2 DEF CallOK, Working, Mode, Faithful
  <2> QED
    BY <1>0, <2>1, <2>3 DEF ClientOK, Faithful
<1>7. CASE Open(t)
  <2>1. /\ Go(t, "run") /\ UNCHANGED <<saves, spoilt, conn, embedder, distiller, held, known>>
        /\ storage'[c] = t /\ pc[t] = "open"
    BY <1>0, <1>7 DEF Open, files, settings, stack, TypeOK
  <2>2. pc'[t] = "run" /\ UNCHANGED <<op, floor>>
    BY <1>0, <2>1, GoData
  <2>3. CallOK(t)'
    BY <1>0, <2>1, <2>2 DEF CallOK, Working, Mode, Faithful
  <2> QED
    BY <1>0, <2>1, <2>3 DEF ClientOK, Faithful
<1>8. CASE OpenFails(t) \/ CloseStorage(t)
  <2>1. /\ Return(t) /\ UNCHANGED <<saves, spoilt, embedder, distiller, known>> /\ conn'[t] = "none"
    BY <1>8 DEF OpenFails, CloseStorage, settings, stack, TypeOK
  <2>2. pc'[t] = "idle" /\ floor'[t] = Oldest
    BY <2>1, ReturnData
  <2> QED
    BY <1>0, <2>1, <2>2, IdleOK DEF ClientOK, Faithful
<1>9. CASE InvalidateEmbedder(t)
  <2>1. /\ Return(t) /\ UNCHANGED <<saves, spoilt, conn, storage>> /\ Learn(c, {"embedding"})
        /\ embedder'[c] = None /\ distiller'[c] = None /\ pc[t] = "locked"
    BY <1>0, <1>9 DEF InvalidateEmbedder, files, settings, TypeOK
  <2>2. pc'[t] = "idle" /\ floor'[t] = Oldest /\ conn'[t] = "none"
    BY <1>0, <2>1, ReturnData DEF CallOK
  <2>3. Newer(saves, known'[c]) /\ Newer(known'[c], known[c])
    BY <1>0, <2>1, LearnStep DEF ClientOK, Newer, Version
  <2> QED
    BY <1>0, <2>1, <2>2, <2>3, IdleOK DEF ClientOK, Faithful
<1>10. CASE InvalidateDistiller(t)
  <2>1. /\ Return(t) /\ UNCHANGED <<saves, conn, storage, embedder>> /\ Learn(c, {"llm"})
        /\ pc[t] = "locked"
    BY <1>10 DEF InvalidateDistiller
  <2>2. pc'[t] = "idle" /\ floor'[t] = Oldest /\ conn'[t] = "none"
    BY <1>0, <2>1, ReturnData DEF CallOK
  <2>3. Newer(saves, known'[c]) /\ Newer(known'[c], known[c])
    BY <1>0, <2>1, LearnStep DEF ClientOK, Newer, Version
  <2>4. saves.llm >= saves.llm
    BY <1>0, Versions
  <2>5. known'[c].embedding = known[c].embedding /\ known'[c].llm = saves.llm
    BY <1>0, <2>1, LearnStep
  <2>6. ClientOK(c)'
    <3>1. CASE distiller[c] = None /\ UNCHANGED <<distiller, spoilt>>
      BY <1>0, <2>1, <2>3, <3>1 DEF ClientOK
    <3>2. ASSUME distiller[c] # None, NEW seen \in Version, Load(seen),
                 distiller' = [distiller EXCEPT ![c] = Loaded(seen, "llm")]
          PROVE  ClientOK(c)'
      <4>1. /\ Loaded(seen, "llm") \in Setting /\ Loaded(seen, "llm").at = saves.llm
            /\ spoilt' \/ Loaded(seen, "llm").is = Loaded(seen, "llm").at
            /\ spoilt => spoilt'
        BY <3>2, LoadStep
      <4>2. distiller'[c] = Loaded(seen, "llm") /\ distiller'[c] # None
        BY <1>0, <3>2, <4>1, Versions DEF TypeOK
      <4> QED
        BY <1>0, <2>1, <2>3, <2>4, <2>5, <3>2, <4>1, <4>2 DEF ClientOK, Faithful
    <3> QED
      BY <1>10, <3>1, <3>2 DEF InvalidateDistiller
  <2> QED
    BY <1>0, <2>2, <2>3, <2>6, IdleOK
<1>11. CASE Close(t)
  <2>1. /\ Return(t) /\ UNCHANGED <<saves, spoilt, conn, storage, known>>
        /\ embedder'[c] = None /\ distiller'[c] = None /\ pc[t] = "locked"
    BY <1>0, <1>11 DEF Close, files, settings, TypeOK
  <2>2. pc'[t] = "idle" /\ floor'[t] = Oldest /\ conn'[t] = "none"
    BY <1>0, <2>1, ReturnData DEF CallOK
  <2> QED
    BY <1>0, <2>1, <2>2, IdleOK DEF ClientOK, Faithful
<1> QED
  BY <1>1, <1>2, <1>3, <1>4, <1>5, <1>6, <1>7, <1>8, <1>9, <1>10, <1>11 DEF Step

\* What is said of the calls and clients stays true of all of them.
LEMMA AllStep ==
  TypeOK /\ Holders /\ CallsOK /\ ClientsOK /\ FileOK /\ [Next]_vars =>
    CallsOK' /\ ClientsOK'
<1> SUFFICES ASSUME TypeOK, Holders, CallsOK, ClientsOK, FileOK, [Next]_vars
             PROVE  CallsOK' /\ ClientsOK'
  OBVIOUS
<1>0. /\ DataOK' /\ ClientOf \in [Tasks -> Clients] /\ Calls \in [Tasks -> SUBSET Ops]
      /\ known \in [Clients -> Version] /\ floor \in [Tasks -> Version]
      /\ \A v \in Version : Newer(v, v)
  BY DataStep, AccessAssumption DEF TypeOK, Newer, Version
<1>1. ASSUME NEW t \in Tasks, Step(t) PROVE CallsOK' /\ ClientsOK'
  <2> DEFINE c == ClientOf[t]
  <2>1. /\ CallOK(t)' /\ ClientOK(c)' /\ Newer(known'[c], known[c])
    BY <1>0, <1>1, OwnStep
  <2>2. HoldsLock(t)
    BY <1>1 DEF Holders, Past, Step, EnsureStack, LoadConfig, CreateStack, CreateStackFails,
       ApiJava, Connect, ConnectFails, Open, OpenFails, CloseStorage, InvalidateEmbedder,
       InvalidateDistiller, Close
  <2>3. ASSUME NEW u \in Tasks \ {t} PROVE CallOK(u)'
    <3>1. /\ pc'[u] = pc[u] /\ op'[u] = op[u] /\ conn'[u] = conn[u]
          /\ held'[u] = held[u] /\ floor'[u] = floor[u] /\ CallOK(u)
          /\ spoilt => spoilt'
      BY <1>1, OthersStay DEF CallsOK
    <3>2. CASE ClientOf[u] = c
      <4>1. pc[u] \notin Past
        BY <2>2, <3>2, OnePast
      <4>2. Newer(known'[c], floor[u])
        BY <1>0, <2>1, <3>1, <3>2, NewerTransitive DEF CallOK, DataOK
      <4> QED
        BY <3>1, <3>2, <4>1, <4>2 DEF CallOK, Working, Past
    <3>3. CASE ClientOf[u] # c
      <4>1. /\ embedder'[ClientOf[u]] = embedder[ClientOf[u]]
            /\ storage'[ClientOf[u]] = storage[ClientOf[u]]
            /\ known'[ClientOf[u]] = known[ClientOf[u]]
        BY <1>0, <1>1, <3>3, OthersStay
      <4> QED
        BY <3>1, <4>1 DEF CallOK, Working, Mode, Faithful
    <3> QED
      BY <3>2, <3>3
  <2>4. ASSUME NEW d \in Clients \ {c} PROVE ClientOK(d)'
    BY <1>1, OthersStay DEF ClientsOK, ClientOK, Faithful
  <2> QED
    BY <2>1, <2>3, <2>4 DEF CallsOK, ClientsOK
<1>2. ASSUME NEW t \in Tasks, NEW o \in Ops, Call(t, o) PROVE CallsOK' /\ ClientsOK'
  <2>1. ASSUME NEW d \in Clients PROVE ClientOK(d)'
    <3>1. /\ ClientOK(d) /\ UNCHANGED <<embedder, distiller, known>>
          /\ Newer(saves', saves)
          /\ saves \in Version /\ saves' \in Version /\ known[d] \in Version
          /\ spoilt => spoilt'
      BY <1>2, CallData DEF ClientsOK, TypeOK, stack
    <3>2. Newer(saves', known[d])
      BY <3>1, NewerTransitive DEF ClientOK
    <3>3. /\ embedder'[d] = embedder[d] /\ distiller'[d] = distiller[d]
          /\ known'[d] = known[d]
      BY <3>1
    <3> QED
      BY <3>1, <3>2, <3>3 DEF ClientOK, Faithful
  <2>2. ASSUME NEW u \in Tasks \ {t} PROVE CallOK(u)'
    BY <1>2, <2>2, CallData DEF CallsOK, CallOK, Working, Mode, stack, Faithful
  <2>3. CallOK(t)'
    <3>1. /\ pc[t] = "idle" /\ pc'[t] = "locked" /\ UNCHANGED <<conn, known>>
          /\ floor'[t] = floor[t] \/ floor'[t] = known[ClientOf[t]]
          /\ CallOK(t)
      BY <1>2, CallData DEF CallsOK
    <3>2. Newer(known[ClientOf[t]], floor'[t])
      BY <1>0, <3>1 DEF CallOK
    <3> QED
      BY <3>1, <3>2 DEF CallOK, Working
  <2> QED
    BY <2>1, <2>2, <2>3 DEF CallsOK, ClientsOK
<1>3. ASSUME NEW c \in Clients, Crash(c) PROVE CallsOK' /\ ClientsOK'
  <2>1. ASSUME NEW d \in Clients PROVE ClientOK(d)'
    <3>1. ClientOK(d) /\ UNCHANGED <<saves, spoilt, known>>
      BY <1>3, CrashData DEF ClientsOK
    <3>2. CASE d = c
      BY <1>3, <3>1, <3>2, CrashData DEF ClientOK
    <3>3. CASE d # c
      <4>1. embedder'[d] = embedder[d] /\ distiller'[d] = distiller[d]
        BY <1>3, <3>3, CrashData
      <4> QED
        BY <3>1, <4>1 DEF ClientOK, Faithful
    <3> QED
      BY <3>2, <3>3
  <2>2. ASSUME NEW t \in Tasks PROVE CallOK(t)'
    <3>1. CASE ClientOf[t] = c
      BY <1>0, <1>3, <3>1, CrashData, IdleOK DEF DataOK
    <3>2. CASE ClientOf[t] # c
      BY <1>0, <1>3, <3>2, CrashData DEF CallsOK, CallOK, Working, Mode, Faithful
    <3> QED
      BY <3>1, <3>2
  <2> QED
    BY <2>1, <2>2 DEF CallsOK, ClientsOK
<1>4. CASE UNCHANGED vars
  BY <1>4 DEF vars, files, settings, stack, CallsOK, CallOK, ClientsOK, ClientOK, Working, Mode,
     Faithful
<1> QED
  BY <1>0, <1>1, <1>2, <1>3, <1>4 DEF Next

\* config.json is what was saved last until a save goes wrong.
LEMMA FileStep == TypeOK /\ FileOK /\ [Next]_vars => FileOK'
<1> SUFFICES ASSUME TypeOK, FileOK, [Next]_vars PROVE FileOK'
  OBVIOUS
<1>1. ASSUME NEW t \in Tasks, Step(t) PROVE FileOK'
  <2>1. UNCHANGED <<config, saves>> /\ (spoilt => spoilt')
    BY <1>1, OthersStay
  <2> QED
    BY <2>1 DEF FileOK
<1>2. ASSUME NEW t \in Tasks, NEW o \in Calls[t], Call(t, o) PROVE FileOK'
  <2>1. o \in Ops
    BY AccessAssumption
  <2> QED
    BY <1>2, <2>1, CallData
<1>3. ASSUME NEW c \in Clients, Crash(c) PROVE FileOK'
  BY <1>3, CrashData DEF FileOK
<1>4. CASE UNCHANGED vars
  BY <1>4 DEF vars, files, settings, FileOK
<1> QED
  BY <1>1, <1>2, <1>3, <1>4 DEF Next

\* DuckDB's lock keeps two processes apart, and _op_lock two calls of one.
LEMMA WriterStep ==
  TypeOK /\ Holders /\ CallsOK /\ WriterIsAlone /\ [Next]_vars => WriterIsAlone'
<1> SUFFICES ASSUME TypeOK, Holders, CallsOK, WriterIsAlone, [Next]_vars PROVE WriterIsAlone'
  OBVIOUS
<1>1. ASSUME \A u \in Tasks : conn'[u] = conn[u] \/ conn'[u] = "none" PROVE WriterIsAlone'
  BY <1>1 DEF WriterIsAlone
<1>2. ASSUME NEW t \in Tasks, Connect(t) PROVE WriterIsAlone'
  <2>1. /\ conn' = [conn EXCEPT ![t] = Mode(t)] /\ pc[t] = "connect" /\ FileFree(t)
        /\ Mode(t) \in {"ro", "rw"}
    BY <1>2 DEF Connect, Mode
  <2>2. HoldsLock(t)
    BY <2>1 DEF Holders, Past
  <2>3. ASSUME NEW u \in Tasks \ {t}, conn[u] # "none" PROVE conn[u] = "ro" /\ Mode(t) = "ro"
    <3>1. pc[u] \in Past
      BY <2>3 DEF CallsOK, CallOK, Past
    <3>2. ClientOf[u] # ClientOf[t]
      BY <2>2, <2>3, <3>1, OnePast
    <3> QED
      BY <2>1, <2>3, <3>2 DEF FileFree
  <2>4. conn'[t] = Mode(t) /\ \A u \in Tasks \ {t} : conn'[u] = conn[u]
    BY <2>1 DEF TypeOK
  <2> QED
    BY <2>3, <2>4 DEF WriterIsAlone
<1>3. ASSUME NEW t \in Tasks, Step(t), ~ Connect(t) PROVE WriterIsAlone'
  <2>1. \A u \in Tasks : conn'[u] = conn[u] \/ conn'[u] = "none"
    BY <1>3 DEF Step, EnsureStack, LoadConfig, CreateStack, CreateStackFails, ApiJava,
       ConnectFails, Open, OpenFails, CloseStorage, InvalidateEmbedder, InvalidateDistiller,
       Close, files, settings, TypeOK
  <2> QED
    BY <2>1, <1>1
<1>4. ASSUME NEW t \in Tasks, NEW o, Call(t, o) PROVE WriterIsAlone'
  BY <1>1, <1>4 DEF Call
<1>5. ASSUME NEW c \in Clients, Crash(c) PROVE WriterIsAlone'
  BY <1>1, <1>5 DEF Crash
<1>6. CASE UNCHANGED vars
  BY <1>1, <1>6 DEF vars, files
<1> QED
  BY <1>2, <1>3, <1>4, <1>5, <1>6 DEF Next
-----------------------------------------------------------------------------
(***************************************************************************)
(* The theorems.                                                           *)
(***************************************************************************)
\* The invariant holds before the first call.
LEMMA InitAInv == Init => AInv
<1> SUFFICES ASSUME Init PROVE AInv
  OBVIOUS
<1>1. DataOK
  BY Versions DEF Init, DataOK, Steps
<1>2. QueueOK
  <2>1. << >> \in Seq(Tasks) /\ IsInjective(<< >>) /\ ToSet(<< >>) = {}
    BY DEF IsInjective, ToSet
  <2> QED
    BY <2>1 DEF Init, QueueOK
<1>3. \A v \in Version : Newer(v, v)
  BY AccessAssumption DEF Newer, Version
<1>4. \A t \in Tasks : CallOK(t)
  <2> TAKE t \in Tasks
  <2>1. /\ pc[t] = "idle" /\ conn[t] = "none"
        /\ known[ClientOf[t]] = Oldest /\ floor[t] = Oldest
    BY AccessAssumption DEF Init
  <2>2. Newer(Oldest, Oldest)
    BY <1>3, Versions
  <2> QED
    BY <2>1, <2>2 DEF CallOK, Working
<1>5. \A c \in Clients : ClientOK(c)
  <2>1. Newer(Oldest, Oldest)
    BY <1>3, Versions
  <2> QED
    BY <2>1 DEF Init, ClientOK
<1>6. Holders /\ WriterIsAlone
  BY DEF Init, Holders, Past, WriterIsAlone
<1>7. FileOK
  BY DEF Init, FileOK
<1> QED
  BY <1>1, <1>2, <1>4, <1>5, <1>6, <1>7, TypeParts DEF AInv, CallsOK, ClientsOK

\* Every step keeps it.
LEMMA NextAInv == AInv /\ [Next]_vars => AInv'
<1> SUFFICES ASSUME AInv, [Next]_vars PROVE AInv'
  OBVIOUS
<1>1. TypeOK'
  <2>1. DataOK' /\ QueueOK'
    BY DataStep, QueueStep DEF AInv
  <2> QED
    BY <2>1 DEF TypeOK, DataOK, QueueOK
<1>2. Holders' /\ CallsOK' /\ ClientsOK' /\ FileOK' /\ WriterIsAlone'
  BY QueueStep, AllStep, FileStep, WriterStep DEF AInv
<1> QED
  BY <1>1, <1>2 DEF AInv

\* So it holds whatever any number of processes do.
LEMMA Invariant == Spec => []AInv
BY InitAInv, NextAInv, PTL DEF Spec

\* The calls, the clients and the queues for _op_lock keep their types; a task
\* is in the queue of its own client, once, exactly while it is in a call.
THEOREM AccessTypes == Spec => []TypeOK
<1>1. AInv => TypeOK
  BY DEF AInv
<1> QED
  BY <1>1, Invariant, PTL

\* A task whose connection writes is the only one connected, in its process as
\* in all others.
THEOREM OneWriter == Spec => []WriterIsAlone
<1>1. AInv => WriterIsAlone
  BY DEF AInv
<1> QED
  BY <1>1, Invariant, PTL

\* The embedder and the storage a call of search or sync works with are its
\* client's until it ends.
THEOREM StackLasts == Spec => []StackOutlivesCall
<1>1. AInv => StackOutlivesCall
  BY DEF AInv, CallsOK, CallOK, Working, StackOutlivesCall
<1> QED
  BY <1>1, Invariant, PTL

\* A call works with a stack made from config.json as it was after every
\* config() that had returned to its client when the call was made, and with
\* what those were given, unless a save failed or undid another or a load met
\* a truncated file.
THEOREM SettingsReach == Spec => []ConfigTakesEffect
<1>1. AInv => ConfigTakesEffect
  <2> SUFFICES ASSUME AInv, NEW t \in Tasks,
                      op[t] \in {"search", "sync"}, pc[t] = "run",
                      NEW half \in {"embedding", "llm"}
               PROVE  /\ held[t][half].at >= floor[t][half]
                      /\ spoilt \/ held[t][half].is >= floor[t][half]
    BY DEF ConfigTakesEffect
  <2>1. CallOK(t) /\ Working(t)
    BY DEF AInv, CallsOK, Working
  <2>2. /\ Since(held[t], floor[t])
        /\ Faithful(held[t].embedding) /\ Faithful(held[t].llm)
    BY <2>1 DEF CallOK
  <2>3. CASE half = "embedding"
    BY <2>2, <2>3 DEF Since, Faithful
  <2>4. CASE half = "llm"
    BY <2>2, <2>4 DEF Since, Faithful
  <2> QED
    BY <2>3, <2>4
<1> QED
  BY <1>1, Invariant, PTL

\* A task that is in no call has no connection.
THEOREM NothingLeaks == Spec => []NoLeakedConnection
<1>1. AInv => NoLeakedConnection
  BY DEF AInv, CallsOK, CallOK, NoLeakedConnection
<1> QED
  BY <1>1, Invariant, PTL
-----------------------------------------------------------------------------
(***************************************************************************)
(* What CallsReturn rests on: the first in the queue for _op_lock has a    *)
(* step to take, each of its steps brings it nearer its end, and nobody    *)
(* comes to stand before a call that is waiting.                           *)
(***************************************************************************)
\* Those that stand before a task in a queue.
Before(q, t) == {u \in Tasks : \E i, j \in 1..Len(q) : i < j /\ q[i] = u /\ q[j] = t}

Left(step) ==
    CASE step = "locked" -> 5 [] step = "create" -> 4 [] step = "connect" -> 3
      [] step = "open" -> 2 [] step = "run" -> 1 [] OTHER -> 0

InOrder ==
    \A t \in Tasks :
        /\ Step(t) => Left(pc'[t]) < Left(pc[t])
        /\ pc[t] # "idle" /\ pc'[t] # "idle" =>
             /\ Left(pc'[t]) <= Left(pc[t])
             /\ Before(lock'[ClientOf[t]], t) \subseteq Before(lock[ClientOf[t]], t)

\* The guards of the steps of a call, those that differ only in what the call
\* is taken together: a connection is made or, by the deadline, is not.
HasStep(t) ==
    \/ pc[t] = "locked" /\ HoldsLock(t) /\ op[t] \in Ops
    \/ pc[t] \in {"create", "connect", "open", "run"}

LockMoves == \A c \in Clients : lock[c] # << >> => HasStep(Head(lock[c]))

\* A call that waits for the lock is one of the calls there are.
Named == \A t \in Tasks : pc[t] = "locked" => op[t] \in Ops

\* Every step keeps it.
LEMMA NamedStep == TypeOK /\ Named /\ [Next]_vars => Named'
<1> SUFFICES ASSUME TypeOK, Named, [Next]_vars PROVE Named'
  OBVIOUS
<1>1. ASSUME NEW t \in Tasks, Step(t) PROVE Named'
  <2>1. pc'[t] # "locked"
    BY <1>1 DEF Step, EnsureStack, LoadConfig, CreateStack, CreateStackFails, ApiJava,
       Connect, ConnectFails, Open, OpenFails, CloseStorage, InvalidateEmbedder,
       InvalidateDistiller, Close, Go, Return, TypeOK
  <2> QED
    BY <1>1, <2>1, OthersStay DEF Named
<1>2. ASSUME NEW t \in Tasks, NEW o \in Calls[t], Call(t, o) PROVE Named'
  <2>1. o \in Ops
    BY AccessAssumption
  <2> QED
    BY <1>2, <2>1 DEF Call, Named, TypeOK
<1>3. ASSUME NEW c \in Clients, Crash(c) PROVE Named'
  BY <1>3 DEF Crash, Named
<1>4. CASE UNCHANGED vars
  BY <1>4 DEF vars, Named
<1> QED
  BY <1>1, <1>2, <1>3, <1>4 DEF Next

\* Who calls is behind all that wait.
LEMMA AppendBefore ==
  ASSUME NEW s \in Seq(Tasks), NEW e \in Tasks, NEW t \in Tasks, t # e
  PROVE  Before(Append(s, e), t) \subseteq Before(s, t)
<1> SUFFICES ASSUME NEW i \in 1..Len(Append(s, e)), NEW j \in 1..Len(Append(s, e)),
                    i < j, Append(s, e)[j] = t
             PROVE  i \in 1..Len(s) /\ j \in 1..Len(s)
                    /\ Append(s, e)[i] = s[i] /\ s[j] = t
  BY DEF Before
<1>1. /\ Len(Append(s, e)) = Len(s) + 1 /\ Len(s) \in Nat
      /\ \A k \in 1..Len(s) : Append(s, e)[k] = s[k]
      /\ Append(s, e)[Len(s) + 1] = e
  OBVIOUS
<1>2. j # Len(s) + 1
  BY <1>1
<1> QED
  BY <1>1, <1>2

\* When the first leaves, nobody gets before anybody.
LEMMA TailBefore ==
  ASSUME NEW s \in Seq(Tasks), s # << >>, NEW t \in Tasks
  PROVE  Before(Tail(s), t) \subseteq Before(s, t)
<1>1. /\ Len(Tail(s)) = Len(s) - 1 /\ Len(s) \in Nat \ {0}
      /\ \A i \in 1..Len(Tail(s)) : Tail(s)[i] = s[i + 1]
  BY HeadTailProperties, EmptySeq
<1> SUFFICES ASSUME NEW i \in 1..Len(Tail(s)), NEW j \in 1..Len(Tail(s)), i < j
             PROVE  /\ i + 1 \in 1..Len(s) /\ j + 1 \in 1..Len(s) /\ i + 1 < j + 1
                    /\ Tail(s)[i] = s[i + 1] /\ Tail(s)[j] = s[j + 1]
  BY DEF Before
<1> QED
  BY <1>1

\* A step of a call is past the one before, and keeps the queue or leaves it.
LEMMA StepNearer ==
  ASSUME TypeOK, Holders, NEW t \in Tasks, Step(t)
  PROVE  /\ Left(pc'[t]) < Left(pc[t])
         /\ lock' = lock \/ (Return(t) /\ HoldsLock(t))
<1> USE DEF TypeOK, Left, Go, Return
<1>0. {"create", "connect", "open", "run"} = Past
  BY DEF Past
<1>1. CASE EnsureStack(t) \/ LoadConfig(t) \/ ApiJava(t)
  BY <1>1 DEF EnsureStack, LoadConfig, ApiJava
<1>2. CASE CreateStack(t) \/ Connect(t) \/ Open(t)
  BY <1>2 DEF CreateStack, Connect, Open
<1>3. CASE CreateStackFails(t) \/ ConnectFails(t) \/ OpenFails(t) \/ CloseStorage(t)
  <2>1. HoldsLock(t) /\ Return(t)
    BY <1>0, <1>3 DEF CreateStackFails, ConnectFails, OpenFails, CloseStorage, Holders
  <2>2. pc[t] \in {"create", "connect", "open", "run"} /\ pc'[t] = "idle"
    BY <1>3 DEF CreateStackFails, ConnectFails, OpenFails, CloseStorage
  <2> QED
    BY <2>1, <2>2
<1>4. CASE InvalidateEmbedder(t) \/ InvalidateDistiller(t) \/ Close(t)
  BY <1>4 DEF InvalidateEmbedder, InvalidateDistiller, Close
<1> QED
  BY <1>1, <1>2, <1>3, <1>4 DEF Step

\* Whoever heads the queue for _op_lock can go on: none of the calls waits for
\* another while it holds the lock.
THEOREM LockIsNotStuck == Spec => []LockMoves
<1>1. AInv /\ Named => LockMoves
  <2> SUFFICES ASSUME AInv, Named, NEW c \in Clients, lock[c] # << >>
               PROVE  HasStep(Head(lock[c]))
    BY DEF LockMoves
  <2> DEFINE t == Head(lock[c])
  <2>1. lock[c] \in Seq(Tasks) /\ t \in ToSet(lock[c])
    <3>1. lock[c] \in Seq(Tasks)
      BY DEF AInv, TypeOK
    <3>2. Len(lock[c]) \in Nat \ {0} /\ DOMAIN lock[c] = 1..Len(lock[c])
      BY <3>1, EmptySeq
    <3>3. t = lock[c][1] /\ 1 \in DOMAIN lock[c]
      BY <3>1, <3>2
    <3> QED
      BY <3>1, <3>3 DEF ToSet
  <2>2. t \in Tasks /\ ClientOf[t] = c /\ pc[t] # "idle"
    BY <2>1 DEF AInv, TypeOK
  <2>3. HoldsLock(t) /\ pc[t] \in Steps
    BY <2>2 DEF HoldsLock, AInv, TypeOK
  <2>4. pc[t] = "locked" => op[t] \in Ops
    BY <2>2 DEF Named
  <2> HIDE DEF t
  <2>5. HasStep(t)
    BY <2>2, <2>3, <2>4 DEF HasStep, Steps
  <2> QED
    BY <2>5 DEF t
<1>2. Init => Named
  BY DEF Init, Named
<1>3. AInv => TypeOK
  BY DEF AInv
<1> QED
  BY <1>1, <1>2, <1>3, NamedStep, Invariant, PTL DEF Spec

\* Nobody overtakes: those before a waiting call become fewer and never more,
\* and each of their steps, as each of its own, is one less to take.
THEOREM NobodyOvertakes == Spec => [][InOrder]_vars
<1>1. ASSUME AInv, Next PROVE InOrder
  <2>0. /\ TypeOK /\ Holders /\ ClientOf \in [Tasks -> Clients]
        /\ lock \in [Clients -> Seq(Tasks)]
    BY <1>1, AccessAssumption DEF AInv, TypeOK
  <2>1. ASSUME NEW u \in Tasks, Step(u) PROVE Left(pc'[u]) < Left(pc[u])
    BY <2>0, <2>1, StepNearer
  <2> SUFFICES ASSUME NEW t \in Tasks, pc[t] # "idle", pc'[t] # "idle"
               PROVE  /\ Left(pc'[t]) <= Left(pc[t])
                      /\ Before(lock'[ClientOf[t]], t) \subseteq Before(lock[ClientOf[t]], t)
    BY <2>1 DEF InOrder
  <2>2. \A step : Left(step) \in Nat
    BY DEF Left
  <2>3. ASSUME NEW u \in Tasks, Step(u)
        PROVE  /\ Left(pc'[t]) <= Left(pc[t])
               /\ Before(lock'[ClientOf[t]], t) \subseteq Before(lock[ClientOf[t]], t)
    <3>1. Left(pc'[t]) <= Left(pc[t])
      <4>1. CASE u = t
        BY <2>2, <2>3, <2>1, <4>1
      <4>2. CASE u # t
        <5>1. pc'[t] = pc[t]
          BY <2>0, <2>3, <4>2, OthersStay
        <5> QED
          BY <2>2, <5>1
      <4> QED
        BY <4>1, <4>2
    <3>2. CASE lock' = lock
      BY <3>1, <3>2
    <3>3. CASE Return(u) /\ HoldsLock(u)
      <4> DEFINE c == ClientOf[u]
      <4>1. lock[c] \in Seq(Tasks) /\ lock[c] # << >> /\ lock' = [lock EXCEPT ![c] = Tail(@)]
        BY <2>0, <3>3 DEF Return, HoldsLock
      <4>2. Before(Tail(lock[c]), t) \subseteq Before(lock[c], t)
        BY <4>1, TailBefore
      <4>3. lock'[ClientOf[t]] = IF ClientOf[t] = c THEN Tail(lock[c]) ELSE lock[ClientOf[t]]
        BY <2>0, <4>1
      <4> QED
        BY <3>1, <4>2, <4>3
    <3> QED
      BY <2>0, <2>3, <3>2, <3>3, StepNearer
  <2>4. ASSUME NEW u \in Tasks, NEW o, Call(u, o)
        PROVE  /\ Left(pc'[t]) <= Left(pc[t])
               /\ Before(lock'[ClientOf[t]], t) \subseteq Before(lock[ClientOf[t]], t)
    <3> DEFINE c == ClientOf[u]
    <3>1. /\ pc[u] = "idle" /\ pc' = [pc EXCEPT ![u] = "locked"]
          /\ lock' = [lock EXCEPT ![c] = Append(@, u)]
      BY <2>4 DEF Call
    <3>2. u # t /\ pc'[t] = pc[t]
      BY <3>1
    <3>3. lock[c] \in Seq(Tasks)
      BY <2>0
    <3>4. Before(Append(lock[c], u), t) \subseteq Before(lock[c], t)
      BY <3>2, <3>3, AppendBefore
    <3>5. lock'[ClientOf[t]] = IF ClientOf[t] = c THEN Append(lock[c], u)
                               ELSE lock[ClientOf[t]]
      BY <2>0, <3>1
    <3>6. Left(pc'[t]) <= Left(pc[t])
      BY <2>2, <3>2
    <3> QED
      BY <3>4, <3>5, <3>6
  <2>5. ASSUME NEW c \in Clients, Crash(c)
        PROVE  /\ Left(pc'[t]) <= Left(pc[t])
               /\ Before(lock'[ClientOf[t]], t) \subseteq Before(lock[ClientOf[t]], t)
    <3>1. ClientOf[t] # c /\ pc'[t] = pc[t]
      BY <2>5 DEF Crash
    <3>2. lock'[ClientOf[t]] = lock[ClientOf[t]]
      BY <2>0, <2>5, <3>1 DEF Crash
    <3> QED
      BY <2>2, <3>1, <3>2
  <2> QED
    BY <1>1, <2>3, <2>4, <2>5 DEF Next
<1>2. AInv /\ [Next]_vars => [InOrder]_vars
  BY <1>1
<1> QED
  BY <1>2, Invariant, PTL DEF Spec
=============================================================================
