--------------------------- MODULE SessionPool_proofs ---------------------------
(***************************************************************************)
(* What holds of SessionPool for every set of callers, ids and accounts,   *)
(* every capacity and every bound:                                         *)
(*   PoolTypesHold    Spec => []PoolTypeOK                                 *)
(*   CapacityHolds    Spec => []WithinCapacity, if hosts only launch with  *)
(*                    an id                                                *)
(*   NothingUntracked Spec => []NoUntracked                                *)
(*   OneProcess       Spec => []OneProcessPerId, both if besides no        *)
(*                    process dies by itself                               *)
(* All four rest on the lock: a task that is creating, starting or         *)
(* stopping a session holds it, and only the holder changes the pool.      *)
(***************************************************************************)
EXTENDS SessionPool, FiniteSetTheorems, SequenceTheorems, TLAPS

GetPlaces  == {"start", "settle", "cleanup", "replace", "evict", "rekey"}
HeldPlaces == {"start", "settle", "cleanup", "replace", "evict", "stop"}

(* What is known of task t from its place. *)
Fits(t) ==
    LET c == call[t] IN
    /\ c.obj \in 0 .. born
    /\ c.pc \in HeldPlaces <=> lock = t
    /\ c.pc \in HeldPlaces \cup {"rekey", "retire"} => c.obj # NoObj
    /\ c.pc \in GetPlaces => c.op = "get"
    /\ c.pc = "rekey" => c.sid = Fresh
    /\ c.op = "get" => c.acc \in Accounts
    /\ c.op \in {"get", "remove", "retire", "kill"} => c.sid \in Ids
    /\ c.pc = "stop" /\ c.op \in Sweeps => c.todo \subseteq Pooled(pool)
    /\ t = Reaper => c.op # "get"

(* What is in the pool and in the hands of tasks and hosts has been created. *)
DataInv ==
    /\ lock \in Tasks \cup {None} /\ waiters \in Seq(Tasks)
    /\ born \in 0 .. MaxObjs /\ pool \in [Ids -> 0 .. born]
    /\ state \in [Objs -> {"unborn", "starting", "live", "dead", "stopped"}]
    /\ ident \in [Objs -> Ids \cup {None}]
    /\ \A o \in 1 .. born : ident[o] \in Ids
    /\ account \in [Objs -> Accounts \cup {None}]
    /\ busy \in [Objs -> BOOLEAN] /\ idle \in [Objs -> {"fresh", "idle", "expired"}]
    /\ work \in [Objs -> {"none", "hold", "children"}]
    /\ handed \subseteq 1 .. born /\ resuming \subseteq Objs
    /\ unstopped \subseteq Objs /\ call \in [Tasks -> CallType]

TypeInv == DataInv /\ \A t \in Tasks : Fits(t)

(* No call asks for the key of a session without an id. *)
NoFresh == \A t \in Tasks : call[t].op = "get" => call[t].sid # Fresh

(* There is room for the session that starts. *)
CapInv ==
    /\ NoFresh
    /\ Cardinality(Pooled(pool)) <= MaxSessions
    /\ \A t \in Tasks : At(t, "start") => Cardinality(Pooled(pool)) < MaxSessions

(* What the holder of the lock knows of its session and of the pool. *)
HolderInv(t) ==
    LET c == call[t] IN
    /\ c.pc \in {"start", "settle", "cleanup"} => c.sid = ident[c.obj]
    /\ c.pc \in {"start", "settle", "cleanup", "evict"} => pool[c.sid] = NoObj
    /\ c.pc = "replace" => pool[c.sid] = c.obj
    /\ c.pc = "evict" => pool[ident[c.obj]] = NoObj
    /\ c.pc = "stop" /\ c.op # "stopall" => pool[ident[c.obj]] = NoObj
    /\ c.pc = "stop" /\ c.op = "stopall" => pool[ident[c.obj]] = c.obj
    /\ c.pc = "stop" /\ c.op = "stopall" =>
         \A k \in Pooled(pool) : \/ k \in c.todo \/ pool[k] = c.obj
                                 \/ ~Running(pool[k])

TrackInv ==
    /\ NoFresh
    /\ resuming = {}
    /\ \A o \in Objs : state[o] # "dead"
    /\ \A o \in Objs : o > born => ~Running(o)
    /\ \A k \in Pooled(pool) : ident[pool[k]] = k /\ state[pool[k]] # "starting"
    /\ \A t \in Tasks : HolderInv(t)
    /\ NoUntracked

PoolInv ==
    /\ TypeInv
    /\ "fresh" \notin Env => CapInv
    /\ Env \cap {"fresh", "crash"} = {} => TrackInv
--------------------------------------------------------------------------------
(* Queues, keys and their number. *)

LEMMA LeaveTyped ==
  ASSUME waiters \in Seq(Tasks), NEW t
  PROVE  Leave(t) \in Seq(Tasks)
<1> DEFINE places == {i \in DOMAIN waiters : waiters[i] = t}
           i == CHOOSE j \in places : TRUE
<1>1. CASE places # {}
  <2>1. i \in places
    BY <1>1
  <2>2. i \in 1 .. Len(waiters) /\ Len(waiters) \in Nat
    BY <2>1
  <2> HIDE DEF i
  <2>3. /\ SubSeq(waiters, 1, i - 1) \in Seq(Tasks)
        /\ SubSeq(waiters, i + 1, Len(waiters)) \in Seq(Tasks)
    BY <2>2, SubSeqProperties
  <2>4. SubSeq(waiters, 1, i - 1) \o SubSeq(waiters, i + 1, Len(waiters)) \in Seq(Tasks)
    BY <2>3
  <2> QED BY <1>1, <2>4 DEF Leave, i
<1> QED BY <1>1 DEF Leave

(* The queue after a call of Queue or NextWaiter. *)
LEMMA QueuesTyped ==
  ASSUME waiters \in Seq(Tasks), NEW t \in Tasks
  PROVE  /\ Append(waiters, t) \in Seq(Tasks)
         /\ waiters # <<>> => /\ Tail(waiters) \in Seq(Tasks)
                              /\ Append(Tail(waiters), t) \in Seq(Tasks)
<1>1. Append(waiters, t) \in Seq(Tasks)
  BY AppendProperties
<1>2. ASSUME waiters # <<>>
      PROVE  Tail(waiters) \in Seq(Tasks) /\ Append(Tail(waiters), t) \in Seq(Tasks)
  <2>1. Tail(waiters) \in Seq(Tasks)
    BY <1>2, HeadTailProperties
  <2> QED BY <2>1, AppendProperties
<1> QED BY <1>1, <1>2

LEMMA IdsFinite == IsFiniteSet(Ids)
<1>1. IsFiniteSet(Objs)
  BY LimitsAssumption, FS_Interval DEF Objs
<1>2. IsFiniteSet(Sids \cup {Fresh})
  BY IdsAssumption, FS_AddElement
<1> QED BY <1>1, <1>2, FS_Union DEF Ids

(* A pool with fewer keys is smaller, *)
LEMMA FewerKeys ==
  ASSUME NEW p, NEW q, Pooled(q) \subseteq Pooled(p)
  PROVE  /\ Cardinality(Pooled(p)) \in Nat /\ Cardinality(Pooled(q)) \in Nat
         /\ Cardinality(Pooled(q)) <= Cardinality(Pooled(p))
<1>1. IsFiniteSet(Pooled(p)) /\ IsFiniteSet(Pooled(q))
  BY IdsFinite, FS_Subset DEF Pooled
<1> QED BY <1>1, FS_Subset, FS_CardinalityType

(* and one more key makes it larger by one at most. *)
LEMMA OneMoreKey ==
  ASSUME NEW p, NEW q, NEW k, Pooled(q) \subseteq Pooled(p) \cup {k}
  PROVE  /\ Cardinality(Pooled(p)) \in Nat /\ Cardinality(Pooled(q)) \in Nat
         /\ Cardinality(Pooled(q)) <= Cardinality(Pooled(p)) + 1
<1>1. IsFiniteSet(Pooled(p)) /\ IsFiniteSet(Pooled(q))
  BY IdsFinite, FS_Subset DEF Pooled
<1> DEFINE n == Cardinality(Pooled(p))
<1>2. n \in Nat /\ Cardinality(Pooled(q)) \in Nat
  BY <1>1, FS_CardinalityType
<1>3. /\ IsFiniteSet(Pooled(p) \cup {k})
      /\ Cardinality(Pooled(p) \cup {k}) \in {n, n + 1}
  BY <1>1, FS_AddElement
<1>4. Cardinality(Pooled(q)) <= Cardinality(Pooled(p) \cup {k})
  BY <1>3, FS_Subset
<1> HIDE DEF n
<1> QED BY <1>2, <1>3, <1>4 DEF n
--------------------------------------------------------------------------------
(* One task moves.  Nobody but the holder of the lock, or who takes it, changes
   it, the pool, or the sessions that exist. *)
Moves(t, pc, obj, todo) ==
    /\ call' \in [Tasks -> CallType]
    /\ call'[t].pc = pc /\ call'[t].obj = obj /\ call'[t].todo = todo
    /\ call'[t].op = call[t].op /\ call'[t].sid = call[t].sid
    /\ call'[t].acc = call[t].acc
    /\ \A x \in Tasks : x # t => call'[x] = call[x]

PcPlaces == {"idle", "sleep", "lock", "start", "settle", "cleanup", "replace",
             "evict", "stop", "rekey", "retire", "done"}

LEMMA GotoMoves ==
  ASSUME TypeInv, NEW t \in Tasks,
         NEW pc \in PcPlaces,
         Goto(t, pc)
  PROVE  Moves(t, pc, call[t].obj, call[t].todo)
<1> DEFINE c == [call[t] EXCEPT !.pc = pc]
<1>1. call \in [Tasks -> CallType] /\ call' = [call EXCEPT ![t] = c]
  BY DEF TypeInv, DataInv, Goto
<1>2. c \in CallType
  BY <1>1 DEF CallType, PcPlaces
<1> QED BY <1>1, <1>2 DEF Moves, CallType

LEMMA ObjMoves ==
  ASSUME TypeInv, NEW t \in Tasks, NEW obj \in Objs \cup {NoObj},
         NEW pc \in PcPlaces,
         call' = [call EXCEPT ![t].pc = pc, ![t].obj = obj]
  PROVE  Moves(t, pc, obj, call[t].todo)
<1> DEFINE c == [[call[t] EXCEPT !.pc = pc] EXCEPT !.obj = obj]
<1>1. call \in [Tasks -> CallType] /\ call' = [call EXCEPT ![t] = c]
  BY DEF TypeInv, DataInv
<1>2. c \in CallType
  BY <1>1 DEF CallType, PcPlaces
<1> QED BY <1>1, <1>2 DEF Moves, CallType

LEMMA TodoMoves ==
  ASSUME TypeInv, NEW t \in Tasks, NEW obj \in Objs, NEW todo \in SUBSET Ids,
         call' = [call EXCEPT ![t].pc = "stop", ![t].obj = obj, ![t].todo = todo]
  PROVE  Moves(t, "stop", obj, todo)
<1> DEFINE c == [[[call[t] EXCEPT !.pc = "stop"] EXCEPT !.obj = obj] EXCEPT !.todo = todo]
<1>1. call \in [Tasks -> CallType] /\ call' = [call EXCEPT ![t] = c]
  BY DEF TypeInv, DataInv
<1>2. c \in CallType
  BY <1>1 DEF CallType
<1> QED BY <1>1, <1>2 DEF Moves, CallType

(* Where the task that moves goes to fits. *)
LEMMA MoverFits ==
  ASSUME TypeInv, NEW t \in Tasks, NEW pc, NEW obj \in 0 .. born', NEW todo,
         Moves(t, pc, obj, todo),
         lock' = t <=> pc \in HeldPlaces,
         pc \in HeldPlaces \cup {"rekey", "retire"} => obj # NoObj,
         pc \in GetPlaces => call[t].op = "get",
         pc = "rekey" => call[t].sid = Fresh,
         pc = "stop" /\ call[t].op \in Sweeps => todo \subseteq Pooled(pool')
  PROVE  Fits(t)'
<1>1. Fits(t)
  BY DEF TypeInv
<1> QED BY <1>1 DEF Fits, Moves, Pooled

(* The others stay as they are. *)
LEMMA OtherFits ==
  ASSUME TypeInv, NEW x \in Tasks, call'[x] = call[x],
         lock' = lock \/ (lock # x /\ lock' # x),
         pool' = pool \/ lock # x,
         born \in Nat, born' \in {born, born + 1}
  PROVE  Fits(x)'
<1>1. Fits(x)
  BY DEF TypeInv
<1>2. call[x].obj \in 0 .. born => call[x].obj \in 0 .. born'
  OBVIOUS
<1>3. call[x].pc = "stop" => lock = x
  BY <1>1 DEF Fits, HeldPlaces
<1> QED BY <1>1, <1>2, <1>3 DEF Fits, Pooled
--------------------------------------------------------------------------------
(* The keys that calls ask for stay. *)
LEMMA FreshKept ==
  ASSUME NoFresh, NEW t \in Tasks, NEW pc, NEW obj, NEW todo, Moves(t, pc, obj, todo)
  PROVE  NoFresh'
  BY DEF NoFresh, Moves

(* A step that publishes nothing and starts nothing leaves the room that is. *)
LEMMA CapKept ==
  ASSUME CapInv, NoFresh', Pooled(pool') \subseteq Pooled(pool),
         \A x \in Tasks : call'[x].pc = "start" => call[x].pc = "start"
  PROVE  CapInv'
<1>1. Pooled(pool)' = Pooled(pool')
  BY DEF Pooled
<1>2. /\ Cardinality(Pooled(pool)) \in Nat /\ Cardinality(Pooled(pool')) \in Nat
      /\ Cardinality(Pooled(pool')) <= Cardinality(Pooled(pool))
  BY FewerKeys
<1>3. MaxSessions \in Nat
  BY LimitsAssumption
<1> QED BY <1>1, <1>2, <1>3 DEF CapInv, At

(* What the other tasks know stays true, as only the holder of the lock knows
   anything. *)
LEMMA OtherHolds ==
  ASSUME TypeInv, NEW x \in Tasks, HolderInv(x), call'[x] = call[x],
         pool' = pool \/ lock # x,
         \A o \in 1 .. born : ident'[o] = ident[o],
         lock # x \/ \A o \in Objs : Running(o)' => Running(o)
  PROVE  HolderInv(x)'
<1>1. Fits(x) /\ born \in 0 .. MaxObjs /\ pool \in [Ids -> 0 .. born]
  BY DEF TypeInv, DataInv
<1>2. CASE call[x].pc \notin HeldPlaces
  BY <1>2 DEF HolderInv, HeldPlaces
<1>3. CASE call[x].pc \in HeldPlaces
  <2>1. lock = x /\ pool' = pool /\ call[x].obj \in 1 .. born
    BY <1>1, <1>3 DEF Fits, NoObj
  <2>2. ident'[call[x].obj] = ident[call[x].obj]
    BY <2>1
  <2>3. \A k \in Pooled(pool) : pool[k] \in Objs
    BY <1>1, LimitsAssumption DEF Pooled, Objs, NoObj
  <2>4. \A k \in Pooled(pool) : ~Running(pool[k]) => ~Running(pool[k])'
    BY <2>1, <2>3
  <2>5. Pooled(pool)' = Pooled(pool)
    BY <2>1 DEF Pooled
  <2> QED BY <2>1, <2>2, <2>4, <2>5 DEF HolderInv
<1> QED BY <1>2, <1>3

(* Nothing is lost if a step keeps track of what it starts, of what it takes out
   of the pool, and of what the task had in its hands. *)
LEMMA UntrackedKept ==
  ASSUME NoUntracked, NEW t \in Tasks, NEW pc, NEW obj, NEW todo,
         Moves(t, pc, obj, todo), unstopped \subseteq unstopped',
         \A o \in Objs : Running(o)' => Running(o) \/ Tracked(o)',
         \A o \in Objs, k \in Ids :
             pool[k] = o => pool'[k] = o \/ ~Running(o)' \/ Tracked(o)',
         \A o \in Objs : o = call[t].obj /\ (Held(t) \/ At(t, "rekey")) =>
             ~Running(o)' \/ Tracked(o)' \/ o \in unstopped'
  PROVE  NoUntracked'
<1> SUFFICES ASSUME NEW o \in Objs, Running(o)', ~Tracked(o)', o \notin unstopped'
             PROVE  FALSE
  BY DEF NoUntracked
<1>1. Running(o) /\ Tracked(o)
  BY DEF NoUntracked
<1>2. CASE \E k \in Ids : pool[k] = o
  <2>1. PICK k \in Ids : pool[k] = o
    BY <1>2
  <2>2. pool'[k] = o
    BY <2>1
  <2> QED BY <2>2 DEF Tracked
<1>3. CASE \E x \in Tasks : call[x].obj = o /\ (Held(x) \/ At(x, "rekey"))
  <2>1. PICK x \in Tasks : call[x].obj = o /\ (Held(x) \/ At(x, "rekey"))
    BY <1>3
  <2>2. CASE x = t
    BY <2>1, <2>2
  <2>3. CASE x # t
    <3>1. call'[x] = call[x]
      BY <2>3 DEF Moves
    <3> QED BY <2>1, <3>1 DEF Tracked, Held, At
  <2> QED BY <2>2, <2>3
<1> QED BY <1>1, <1>2, <1>3 DEF Tracked

LEMMA TrackStep ==
  ASSUME TypeInv, TrackInv, NEW t \in Tasks, NEW pc, NEW obj, NEW todo,
         Moves(t, pc, obj, todo),
         resuming' = resuming, unstopped \subseteq unstopped',
         \A o \in 1 .. born : ident'[o] = ident[o],
         pool' = pool \/ lock \in {None, t},
         lock \in {None, t} \/ \A o \in Objs : Running(o)' => Running(o),
         \A o \in Objs : state'[o] # "dead",
         \A o \in Objs : o > born' => ~Running(o)',
         \A k \in Pooled(pool') : ident'[pool'[k]] = k /\ state'[pool'[k]] # "starting",
         HolderInv(t)',
         \A o \in Objs : Running(o)' => Running(o) \/ Tracked(o)',
         \A o \in Objs, k \in Ids :
             pool[k] = o => pool'[k] = o \/ ~Running(o)' \/ Tracked(o)',
         \A o \in Objs : o = call[t].obj /\ (Held(t) \/ At(t, "rekey")) =>
             ~Running(o)' \/ Tracked(o)' \/ o \in unstopped'
  PROVE  TrackInv'
<1>1. NoFresh'
  BY FreshKept DEF TrackInv
<1>2. NoUntracked'
  BY UntrackedKept DEF TrackInv
<1>3. ASSUME NEW x \in Tasks PROVE HolderInv(x)'
  <2>1. CASE x # t
    <3>1. lock # x \/ lock \notin {None, t}
      BY <2>1, TasksAssumption DEF Tasks
    <3> QED BY <2>1, <3>1, OtherHolds DEF Moves, TrackInv
  <2> QED BY <2>1
<1>4. \A k \in Pooled(pool)' : ident'[pool'[k]] = k /\ state'[pool'[k]] # "starting"
  BY DEF Pooled
<1> QED BY <1>1, <1>2, <1>3, <1>4 DEF TrackInv

(* The same for the many steps that leave the pool alone. *)
LEMMA QuietTrack ==
  ASSUME TypeInv, TrackInv, NEW t \in Tasks, NEW pc, NEW obj, NEW todo,
         Moves(t, pc, obj, todo),
         UNCHANGED <<pool, born, ident, resuming>>, unstopped \subseteq unstopped',
         \A o \in Objs : state'[o] \in {state[o], "stopped"},
         HolderInv(t)',
         \A o \in Objs : o = call[t].obj /\ (Held(t) \/ At(t, "rekey")) =>
             \/ ~Running(o)' \/ o \in unstopped'
             \/ pc \in HeldPlaces /\ obj = o
  PROVE  TrackInv'
<1>1. \A o \in Objs : Running(o)' => Running(o)
  BY DEF Running
<1>2. \A o \in Objs : pc \in HeldPlaces /\ obj = o => Tracked(o)'
  BY DEF Tracked, Moves, HeldPlaces, Held
<1>3. pool \in [Ids -> 0 .. born] /\ born \in 0 .. MaxObjs
  BY DEF TypeInv, DataInv
<1>4. \A k \in Pooled(pool) : pool[k] \in Objs
  BY <1>3, LimitsAssumption DEF Pooled, Objs, NoObj
<1>5. \A k \in Pooled(pool') : ident'[pool'[k]] = k /\ state'[pool'[k]] # "starting"
  BY <1>4 DEF TrackInv
<1>6. \A o \in Objs : state'[o] # "dead"
  BY DEF TrackInv
<1>7. \A o \in Objs : o > born' => ~Running(o)'
  BY <1>1 DEF TrackInv
<1> QED BY <1>1, <1>2, <1>5, <1>6, <1>7, TrackStep
--------------------------------------------------------------------------------
(* Who moves takes or gives back the lock, or leaves it as it is. *)
LockStep(t, pc) ==
    /\ lock' = lock \/ (lock \in {None, t} /\ lock' \in {None, t})
    /\ lock' = t <=> pc \in HeldPlaces

LEMMA AllFit ==
  ASSUME TypeInv, NEW t \in Tasks, NEW pc, NEW obj \in 0 .. born', NEW todo,
         Moves(t, pc, obj, todo), LockStep(t, pc),
         pool' = pool \/ lock \in {None, t}, born' \in {born, born + 1},
         pc \in HeldPlaces \cup {"rekey", "retire"} => obj # NoObj,
         pc \in GetPlaces => call[t].op = "get",
         pc = "rekey" => call[t].sid = Fresh,
         pc = "stop" /\ call[t].op \in Sweeps => todo \subseteq Pooled(pool')
  PROVE  \A x \in Tasks : Fits(x)'
<1> SUFFICES ASSUME NEW x \in Tasks PROVE Fits(x)'
  OBVIOUS
<1>1. CASE x = t
  BY <1>1, MoverFits DEF LockStep
<1>2. CASE x # t
  <2>1. call'[x] = call[x] /\ born \in Nat
    BY <1>2, LimitsAssumption DEF Moves, TypeInv, DataInv
  <2>2. x # None
    BY TasksAssumption DEF Tasks
  <2> QED BY <1>2, <2>1, <2>2, OtherFits DEF LockStep
<1> QED BY <1>1, <1>2

(* A step of one task that leaves the pool as it is, and starts nothing. *)
LEMMA QuietKeeps ==
  ASSUME PoolInv, NEW t \in Tasks, NEW pc, NEW obj \in 0 .. born, NEW todo,
         Moves(t, pc, obj, todo), LockStep(t, pc), DataInv',
         UNCHANGED <<pool, born, ident, resuming>>, unstopped \subseteq unstopped',
         \A o \in Objs : state'[o] \in {state[o], "stopped"},
         pc \in HeldPlaces \cup {"rekey", "retire"} => obj # NoObj,
         pc \in GetPlaces => call[t].op = "get",
         pc = "start" => call[t].pc = "start",
         pc = "rekey" => call[t].sid = Fresh,
         pc = "stop" /\ call[t].op \in Sweeps => todo \subseteq Pooled(pool),
         TrackInv => HolderInv(t)',
         TrackInv => \A o \in Objs : o = call[t].obj /\ (Held(t) \/ At(t, "rekey")) =>
             \/ ~Running(o)' \/ o \in unstopped'
             \/ pc \in HeldPlaces /\ obj = o
  PROVE  PoolInv'
<1>1. TypeInv /\ TypeInv'
  BY AllFit DEF PoolInv, TypeInv
<1>2. ASSUME "fresh" \notin Env PROVE CapInv'
  <2>1. CapInv /\ NoFresh'
    BY <1>2, FreshKept DEF PoolInv, CapInv
  <2>2. \A x \in Tasks : call'[x].pc = "start" => call[x].pc = "start"
    BY DEF Moves
  <2> QED BY <2>1, <2>2, CapKept
<1>3. ASSUME Env \cap {"fresh", "crash"} = {} PROVE TrackInv'
  BY <1>1, <1>3, QuietTrack DEF PoolInv
<1> QED BY <1>1, <1>2, <1>3 DEF PoolInv
--------------------------------------------------------------------------------
(* The steps that leave the pool alone. *)

(* The object that an id of a call leads to. *)
LEMMA FoundTyped ==
  ASSUME TypeInv, NEW t \in Tasks, call[t].sid \in Ids
  PROVE  Found(t) \in 0 .. born /\ (Found(t) # NoObj => Found(t) \in Objs)
<1>1. pool \in [Ids -> 0 .. born] /\ born \in 0 .. MaxObjs
  BY DEF TypeInv, DataInv
<1> QED BY <1>1, LimitsAssumption DEF Found, Objs, NoObj

LEMMA PooledTyped ==
  ASSUME TypeInv
  PROVE  \A k \in Pooled(pool) : k \in Ids /\ pool[k] \in 1 .. born /\ pool[k] \in Objs
<1>1. pool \in [Ids -> 0 .. born] /\ born \in 0 .. MaxObjs
  BY DEF TypeInv, DataInv
<1> QED BY <1>1, LimitsAssumption DEF Pooled, Objs, NoObj

LEMMA ReuseKeeps ==
  ASSUME PoolInv, NEW t \in Tasks, Reuse(t)
  PROVE  PoolInv'
<1> DEFINE pc == IF call[t].sid = Fresh THEN "rekey" ELSE "done"
<1>1. TypeInv /\ Fits(t) /\ call[t].op = "get" /\ call[t].pc = "lock"
  BY DEF PoolInv, TypeInv, Reuse, Enters, At
<1>2. Found(t) \in 1 .. born /\ Found(t) \in Objs
  BY <1>1, FoundTyped DEF Reuse, Alive, Fits, NoObj, TypeInv, DataInv
<1>3. Moves(t, pc, Found(t), call[t].todo)
  <2>1. call' = [call EXCEPT ![t].pc = pc, ![t].obj = Found(t)]
    BY DEF Reuse
  <2> QED BY <1>1, <1>2, <2>1, ObjMoves DEF PcPlaces
<1>4. LockStep(t, pc)
  BY <1>1 DEF Reuse, LockStep, HeldPlaces, Fits
<1>5. DataInv'
  <2>1. waiters' \in Seq(Tasks)
    BY <1>1, QueuesTyped DEF Reuse, Enters, Served, TypeInv, DataInv
  <2> QED BY <1>1, <1>2, <1>3, <2>1 DEF Reuse, TypeInv, DataInv, session, Moves
<1>6. HolderInv(t)'
  BY <1>3 DEF HolderInv, Moves
<1>7. UNCHANGED <<pool, born, state, ident, resuming, unstopped>>
  BY DEF Reuse, session
<1>8. ~(Held(t) \/ At(t, "rekey"))
  BY <1>1 DEF Held, At
<1> QED BY <1>1, <1>2, <1>3, <1>4, <1>5, <1>6, <1>7, <1>8, QuietKeeps
        DEF HeldPlaces, GetPlaces, NoObj

LEMMA ReplaceKeeps ==
  ASSUME PoolInv, NEW t \in Tasks, Replace(t)
  PROVE  PoolInv'
<1>1. TypeInv /\ Fits(t) /\ call[t].op = "get" /\ call[t].pc = "lock" /\ lock = None
  BY DEF PoolInv, TypeInv, Replace, Enters, At, Served
<1>2. Found(t) \in 1 .. born /\ Found(t) \in Objs
  BY <1>1, FoundTyped DEF Replace, Alive, Fits, NoObj, TypeInv, DataInv
<1>3. Moves(t, "replace", Found(t), call[t].todo)
  <2>1. call' = [call EXCEPT ![t].pc = "replace", ![t].obj = Found(t)]
    BY DEF Replace
  <2> QED BY <1>1, <1>2, <2>1, ObjMoves DEF PcPlaces
<1>4. LockStep(t, "replace")
  BY <1>1 DEF Replace, LockStep, HeldPlaces
<1>5. DataInv'
  <2>1. waiters' \in Seq(Tasks)
    BY <1>1, QueuesTyped DEF Replace, NextWaiter, Enters, Served, TypeInv, DataInv
  <2> QED BY <1>1, <1>3, <2>1 DEF Replace, TypeInv, DataInv, session, usage, Moves
<1>6. HolderInv(t)'
  BY <1>3 DEF HolderInv, Moves, Replace, Found
<1>7. UNCHANGED <<pool, born, state, ident, resuming, unstopped>>
  BY DEF Replace, session, usage
<1>8. ~(Held(t) \/ At(t, "rekey"))
  BY <1>1 DEF Held, At
<1> QED BY <1>1, <1>2, <1>3, <1>4, <1>5, <1>6, <1>7, <1>8, QuietKeeps
        DEF HeldPlaces, GetPlaces, NoObj

(* A start that fails or is cancelled is still the holder's. *)
LEMMA StartEndsKeeps ==
  ASSUME PoolInv, NEW t \in Tasks, StartFails(t) \/ CancelStart(t)
  PROVE  PoolInv'
<1>1. TypeInv /\ Fits(t) /\ call[t].pc = "start"
  BY DEF PoolInv, TypeInv, StartFails, CancelStart, At
<1>2. PICK pc \in {"cleanup", "settle"} : Goto(t, pc)
  BY DEF StartFails, CancelStart
<1>3. Moves(t, pc, call[t].obj, call[t].todo)
  BY <1>1, <1>2, GotoMoves DEF PcPlaces
<1>4. UNCHANGED <<mutex, pool, session, usage, unstopped>>
  BY DEF StartFails, CancelStart
<1>5. LockStep(t, pc)
  BY <1>1, <1>4 DEF LockStep, HeldPlaces, Fits, mutex
<1>6. DataInv'
  BY <1>1, <1>3, <1>4 DEF TypeInv, DataInv, mutex, session, usage, Moves
<1>7. TrackInv => HolderInv(t)'
  BY <1>1, <1>3, <1>4 DEF TrackInv, HolderInv, Moves, session
<1>8. UNCHANGED <<pool, born, state, ident, resuming, unstopped>>
  BY <1>4 DEF session, usage
<1> QED BY <1>1, <1>3, <1>5, <1>6, <1>7, <1>8, QuietKeeps
        DEF HeldPlaces, GetPlaces, Fits

(* A session that was stopped: its stop ends a failed start or a removal. *)
LEMMA StoppedKeeps ==
  ASSUME PoolInv, NEW t \in Tasks, CleanedUp(t) \/ Removed(t)
  PROVE  PoolInv'
<1>1. TypeInv /\ Fits(t) /\ call[t].pc \in {"cleanup", "stop"} /\ lock = t
  BY DEF PoolInv, TypeInv, CleanedUp, Removed, At, Fits, HeldPlaces
<1>2. Goto(t, "done") /\ lock' = None /\ state' = Stopped(call[t].obj)
  BY DEF CleanedUp, Removed
<1>3. Moves(t, "done", call[t].obj, call[t].todo)
  BY <1>1, <1>2, GotoMoves DEF PcPlaces
<1>4. UNCHANGED <<waiters, pool, born, ident, account, usage, unstopped>>
  BY DEF CleanedUp, Removed
<1>5. LockStep(t, "done")
  BY <1>1, <1>2, TasksAssumption DEF LockStep, HeldPlaces, Tasks
<1>6. DataInv'
  BY <1>1, <1>2, <1>3, <1>4 DEF TypeInv, DataInv, usage, Moves, Stopped
<1>7. HolderInv(t)'
  BY <1>3 DEF HolderInv, Moves
<1>8. /\ UNCHANGED <<pool, born, ident, resuming, unstopped>>
      /\ \A o \in Objs : state'[o] \in {state[o], "stopped"}
      /\ \A o \in Objs : o = call[t].obj => ~Running(o)'
  BY <1>1, <1>2, <1>4 DEF usage, Stopped, Running, TypeInv, DataInv
<1> QED BY <1>1, <1>3, <1>5, <1>6, <1>7, <1>8, QuietKeeps
        DEF HeldPlaces, GetPlaces, Fits

LEMMA CancelWaitKeeps ==
  ASSUME PoolInv, NEW t \in Tasks, CancelWait(t)
  PROVE  PoolInv'
<1>1. TypeInv /\ Fits(t) /\ call[t].pc \in {"lock", "rekey"}
  BY DEF PoolInv, TypeInv, CancelWait
<1>2. Moves(t, "done", call[t].obj, call[t].todo)
  BY <1>1, GotoMoves DEF PcPlaces, CancelWait
<1>3. UNCHANGED <<lock, pool, session, usage, unstopped>>
  BY DEF CancelWait
<1>4. LockStep(t, "done")
  BY <1>1, <1>3 DEF LockStep, HeldPlaces, Fits
<1>5. DataInv'
  <2>1. waiters' \in Seq(Tasks)
    BY <1>1, LeaveTyped DEF CancelWait, TypeInv, DataInv
  <2> QED BY <1>1, <1>2, <1>3, <2>1 DEF TypeInv, DataInv, session, usage, Moves
<1>6. HolderInv(t)'
  BY <1>2 DEF HolderInv, Moves
<1>7. UNCHANGED <<pool, born, state, ident, resuming, unstopped>>
  BY <1>3 DEF session, usage
<1>8. ASSUME TrackInv PROVE call[t].pc # "rekey"
  BY <1>1, <1>8 DEF TrackInv, NoFresh, Fits, GetPlaces
<1> QED BY <1>1, <1>2, <1>4, <1>5, <1>6, <1>7, <1>8, QuietKeeps
        DEF HeldPlaces, GetPlaces, Fits, Held, At

LEMMA RetiredKeeps ==
  ASSUME PoolInv, NEW t \in Tasks, Retired(t)
  PROVE  PoolInv'
<1>1. TypeInv /\ Fits(t) /\ call[t].pc = "retire"
  BY DEF PoolInv, TypeInv, Retired, At
<1>2. PICK pc \in {"done", "lock"} :
        Goto(t, pc) /\ waiters' \in {waiters, Append(waiters, t)}
  BY DEF Retired, Queue
<1>3. Moves(t, pc, call[t].obj, call[t].todo)
  BY <1>1, <1>2, GotoMoves DEF PcPlaces
<1>4. UNCHANGED <<lock, pool, born, ident, account, usage, unstopped>>
  BY DEF Retired
<1>5. LockStep(t, pc)
  BY <1>1, <1>4 DEF LockStep, HeldPlaces, Fits
<1>6. DataInv'
  <2>1. waiters' \in Seq(Tasks)
    BY <1>1, <1>2, QueuesTyped DEF TypeInv, DataInv
  <2> QED BY <1>1, <1>3, <1>4, <2>1 DEF TypeInv, DataInv, usage, Moves, Stopped, Retired
<1>7. HolderInv(t)'
  BY <1>3 DEF HolderInv, Moves
<1>8. /\ UNCHANGED <<pool, born, ident, resuming, unstopped>>
      /\ \A o \in Objs : state'[o] \in {state[o], "stopped"}
  BY <1>1, <1>4 DEF usage, Stopped, Retired, TypeInv, DataInv
<1> QED BY <1>1, <1>3, <1>5, <1>6, <1>7, <1>8, QuietKeeps
        DEF HeldPlaces, GetPlaces, Fits, Held, At

LEMMA CutStopKeeps ==
  ASSUME PoolInv, NEW t \in Tasks, CutStop(t)
  PROVE  PoolInv'
<1>1. TypeInv /\ Fits(t) /\ call[t].pc \in {"replace", "evict", "stop"} /\ lock = t
  BY DEF PoolInv, TypeInv, CutStop, At, Fits, HeldPlaces
<1>2. call[t].obj \in Objs
  BY <1>1, LimitsAssumption DEF Fits, HeldPlaces, TypeInv, DataInv, Objs, NoObj
<1>3. Goto(t, "done") /\ lock' = None
  BY DEF CutStop
<1>4. Moves(t, "done", call[t].obj, call[t].todo)
  BY <1>1, <1>3, GotoMoves DEF PcPlaces
<1>5. UNCHANGED <<waiters, pool, born, ident, account, usage>>
  BY DEF CutStop
<1>6. LockStep(t, "done")
  BY <1>1, <1>3, TasksAssumption DEF LockStep, HeldPlaces, Tasks
<1>7. DataInv'
  BY <1>1, <1>2, <1>3, <1>4, <1>5 DEF TypeInv, DataInv, usage, Moves, Stopped, CutStop
<1>8. HolderInv(t)'
  BY <1>4 DEF HolderInv, Moves
<1>9. /\ UNCHANGED <<pool, born, ident, resuming>> /\ unstopped \subseteq unstopped'
      /\ \A o \in Objs : state'[o] \in {state[o], "stopped"}
      /\ \A o \in Objs : o = call[t].obj => ~Running(o)' \/ o \in unstopped'
  BY <1>1, <1>2, <1>5 DEF usage, CutStop, Stopped, Running, TypeInv, DataInv
<1> QED BY <1>1, <1>4, <1>6, <1>7, <1>8, <1>9, QuietKeeps
        DEF HeldPlaces, GetPlaces, Fits

LEMMA ReaperWakesKeeps ==
  ASSUME PoolInv, ReaperWakes
  PROVE  PoolInv'
<1> DEFINE t == Reaper
<1>1. t \in Tasks
  BY DEF Tasks
<1>2. TypeInv /\ Fits(t) /\ call[t].pc = "sleep"
  BY <1>1 DEF PoolInv, TypeInv, ReaperWakes, At
<1>3. Moves(t, "lock", call[t].obj, call[t].todo)
  BY <1>1, <1>2, GotoMoves DEF PcPlaces, ReaperWakes
<1>4. UNCHANGED <<lock, pool, session, usage, unstopped>>
  BY DEF ReaperWakes
<1>5. LockStep(t, "lock")
  BY <1>2, <1>4 DEF LockStep, HeldPlaces, Fits
<1>6. DataInv'
  <2>1. waiters' \in Seq(Tasks)
    BY <1>1, <1>2, QueuesTyped DEF ReaperWakes, Queue, TypeInv, DataInv
  <2> QED BY <1>2, <1>3, <1>4, <2>1 DEF TypeInv, DataInv, session, usage, Moves
<1>7. HolderInv(t)'
  BY <1>3 DEF HolderInv, Moves
<1>8. UNCHANGED <<pool, born, state, ident, resuming, unstopped>>
  BY <1>4 DEF session, usage
<1> QED BY <1>1, <1>2, <1>3, <1>5, <1>6, <1>7, <1>8, QuietKeeps
        DEF HeldPlaces, GetPlaces, Fits, Held, At
--------------------------------------------------------------------------------
(* Starting: the holder publishes what it has started. *)

LEMMA SettledKeeps ==
  ASSUME PoolInv, NEW t \in Tasks, Settled(t)
  PROVE  PoolInv'
<1>1. TypeInv /\ Fits(t) /\ call[t].pc = "settle" /\ lock = t
  BY DEF PoolInv, TypeInv, Settled, At, Fits, HeldPlaces
<1>2. call[t].obj \in 1 .. born /\ call[t].obj \in Objs
  BY <1>1, LimitsAssumption DEF Fits, HeldPlaces, TypeInv, DataInv, Objs, NoObj
<1>3. Moves(t, "cleanup", call[t].obj, call[t].todo)
  BY <1>1, GotoMoves DEF PcPlaces, Settled
<1>4. UNCHANGED <<mutex, pool, born, ident, account, usage, unstopped>>
  BY DEF Settled
<1>5. LockStep(t, "cleanup")
  BY <1>1, <1>4 DEF LockStep, HeldPlaces, mutex
<1>6. DataInv'
  BY <1>1, <1>3, <1>4 DEF TypeInv, DataInv, mutex, usage, Moves, Settled
<1>7. TypeInv'
  BY <1>1, <1>3, <1>4, <1>5, <1>6, AllFit DEF TypeInv, Fits, HeldPlaces, GetPlaces
<1>8. ASSUME "fresh" \notin Env PROVE CapInv'
  <2>1. CapInv /\ NoFresh'
    BY <1>3, <1>8, FreshKept DEF PoolInv, CapInv
  <2>2. \A x \in Tasks : call'[x].pc = "start" => call[x].pc = "start"
    BY <1>3 DEF Moves
  <2> QED BY <1>4, <2>1, <2>2, CapKept
<1>9. ASSUME Env \cap {"fresh", "crash"} = {} PROVE TrackInv'
  <2>1. TrackInv /\ HolderInv(t)
    BY <1>9 DEF PoolInv, TrackInv
  <2>2. HolderInv(t)'
    BY <1>1, <1>3, <1>4, <2>1 DEF HolderInv, Moves
  <2>3. \A k \in Pooled(pool) : pool[k] \in Objs
    BY <1>1, PooledTyped
  <2>4. \A o \in Objs : o # call[t].obj => state'[o] = state[o]
    BY <1>1 DEF Settled, TypeInv, DataInv
  <2>5. \A o \in Objs : o = call[t].obj => Tracked(o)'
    BY <1>3 DEF Tracked, Moves, Held
  <2>6. \A o \in Objs : Running(o)' => Running(o) \/ Tracked(o)'
    BY <2>4, <2>5 DEF Running
  <2>7. \A o \in Objs : state'[o] # "dead"
    BY <1>1, <2>1 DEF Settled, TrackInv, TypeInv, DataInv
  <2>8. \A o \in Objs : o > born' => ~Running(o)'
    <3> SUFFICES ASSUME NEW o \in Objs, o > born PROVE ~Running(o)'
      BY <1>4
    <3>1. o # call[t].obj
      BY <1>1, <1>2, LimitsAssumption DEF Objs, TypeInv, DataInv
    <3> QED BY <2>1, <2>4, <3>1 DEF TrackInv, Running
  <2>9. \A k \in Pooled(pool') : ident'[pool'[k]] = k /\ state'[pool'[k]] # "starting"
    BY <1>1, <1>4, <2>1, <2>3 DEF Settled, TrackInv, TypeInv, DataInv
  <2>10. resuming' = resuming
    BY <1>4 DEF usage
  <2> QED BY <1>1, <1>3, <1>4, <2>1, <2>2, <2>5, <2>6, <2>7, <2>8, <2>9, <2>10, TrackStep
<1> QED BY <1>7, <1>8, <1>9 DEF PoolInv

(* One task at a time holds the lock. *)
LEMMA OneHolder ==
  ASSUME TypeInv, NEW t \in Tasks, lock \in {None, t}
  PROVE  \A x \in Tasks : x # t => call[x].pc \notin HeldPlaces
  BY TasksAssumption DEF TypeInv, Fits, Tasks

LEMMA StartedKeeps ==
  ASSUME PoolInv, NEW t \in Tasks, Started(t)
  PROVE  PoolInv'
<1> DEFINE pc == IF call[t].sid = Fresh THEN "rekey" ELSE "done"
           k == call[t].sid
           obj == call[t].obj
<1>1. TypeInv /\ Fits(t) /\ call[t].pc = "start" /\ lock = t /\ call[t].op = "get"
  BY DEF PoolInv, TypeInv, Started, At, Fits, HeldPlaces, GetPlaces
<1>2. obj \in 1 .. born /\ obj \in Objs /\ k \in Ids
  BY <1>1, LimitsAssumption DEF Fits, HeldPlaces, TypeInv, DataInv, Objs, NoObj
<1>3. Moves(t, pc, obj, call[t].todo)
  <2>1. Goto(t, pc)
    BY DEF Started
  <2> QED BY <1>1, <2>1, GotoMoves DEF PcPlaces
<1>4. /\ UNCHANGED <<born, ident, account, busy, resuming, idle, work, unstopped>>
      /\ pool' = [pool EXCEPT ![k] = obj] /\ state' = [state EXCEPT ![obj] = "live"]
      /\ lock' = None /\ handed' = handed \cup {obj}
  BY DEF Started
<1>5. LockStep(t, pc)
  BY <1>1, <1>4, TasksAssumption DEF LockStep, HeldPlaces, Tasks
<1>6. DataInv'
  <2>1. waiters' \in Seq(Tasks)
    BY <1>1, QueuesTyped DEF Started, Queue, TypeInv, DataInv
  <2>2. pool' \in [Ids -> 0 .. born]
    <3>1. obj \in 0 .. born
      BY <1>2
    <3> QED BY <1>1, <1>4, <3>1 DEF TypeInv, DataInv
  <2>3. handed' \subseteq 1 .. born
    BY <1>1, <1>2, <1>4 DEF TypeInv, DataInv
  <2> QED BY <1>1, <1>3, <1>4, <2>1, <2>2, <2>3 DEF TypeInv, DataInv, Moves
<1>7. TypeInv'
  BY <1>1, <1>2, <1>3, <1>4, <1>5, <1>6, AllFit DEF TypeInv, HeldPlaces, GetPlaces, NoObj
<1>8. ASSUME "fresh" \notin Env PROVE CapInv'
  <2>1. CapInv /\ NoFresh'
    BY <1>3, <1>8, FreshKept DEF PoolInv, CapInv
  <2>2. \A x \in Tasks : ~At(x, "start")'
    BY <1>1, <1>3, OneHolder DEF Moves, At, HeldPlaces
  <2>3. Pooled(pool') \subseteq Pooled(pool) \cup {k}
    BY <1>1, <1>4 DEF Pooled, TypeInv, DataInv
  <2>4. /\ Cardinality(Pooled(pool)) \in Nat /\ Cardinality(Pooled(pool')) \in Nat
        /\ Cardinality(Pooled(pool')) <= Cardinality(Pooled(pool)) + 1
    BY <2>3, OneMoreKey
  <2>5. Cardinality(Pooled(pool)) < MaxSessions
    BY <1>1, <2>1 DEF CapInv, At
  <2>6. Cardinality(Pooled(pool')) <= MaxSessions
    BY <2>4, <2>5, LimitsAssumption
  <2>7. Pooled(pool)' = Pooled(pool')
    BY DEF Pooled
  <2> QED BY <2>1, <2>2, <2>6, <2>7 DEF CapInv
<1>9. ASSUME Env \cap {"fresh", "crash"} = {} PROVE TrackInv'
  <2>1. TrackInv /\ HolderInv(t)
    BY <1>9 DEF PoolInv, TrackInv
  <2>2. k = ident[obj] /\ pool[k] = NoObj /\ pool'[k] = obj
    BY <1>1, <1>2, <1>4, <2>1 DEF HolderInv, TypeInv, DataInv
  <2>3. HolderInv(t)'
    BY <1>3 DEF HolderInv, Moves
  <2>4. \A o \in Objs : o = obj => Tracked(o)'
    BY <1>2, <2>2 DEF Tracked
  <2>5. \A o \in Objs : o # obj => state'[o] = state[o]
    BY <1>1, <1>4 DEF TypeInv, DataInv
  <2>6. \A o \in Objs : Running(o)' => Running(o) \/ Tracked(o)'
    BY <2>4, <2>5 DEF Running
  <2>7. \A o \in Objs : state'[o] # "dead"
    BY <1>1, <1>4, <2>1 DEF TrackInv, TypeInv, DataInv
  <2>8. \A o \in Objs : o > born' => ~Running(o)'
    <3> SUFFICES ASSUME NEW o \in Objs, o > born PROVE ~Running(o)'
      BY <1>4
    <3>1. o # obj
      BY <1>1, <1>2, LimitsAssumption DEF Objs, TypeInv, DataInv
    <3> QED BY <2>1, <2>5, <3>1 DEF TrackInv, Running
  <2>9. \A j \in Pooled(pool') : ident'[pool'[j]] = j /\ state'[pool'[j]] # "starting"
    <3> SUFFICES ASSUME NEW j \in Pooled(pool')
                 PROVE  ident'[pool'[j]] = j /\ state'[pool'[j]] # "starting"
      OBVIOUS
    <3>1. CASE j = k
      BY <1>1, <1>2, <1>4, <2>2, <3>1 DEF TypeInv, DataInv
    <3>2. CASE j # k
      <4>1. pool'[j] = pool[j] /\ j \in Pooled(pool)
        BY <1>1, <1>4, <3>2 DEF Pooled, TypeInv, DataInv
      <4>2. pool[j] \in Objs /\ ident[pool[j]] = j /\ state[pool[j]] # "starting"
        BY <1>1, <2>1, <4>1, PooledTyped DEF TrackInv
      <4> QED BY <1>1, <1>4, <4>1, <4>2 DEF TypeInv, DataInv
    <3> QED BY <3>1, <3>2
  <2>10. \A o \in Objs, j \in Ids : pool[j] = o => pool'[j] = o
    BY <1>1, <1>4, <2>2, LimitsAssumption DEF TypeInv, DataInv, Objs, NoObj
  <2>11. /\ resuming' = resuming /\ unstopped \subseteq unstopped'
         /\ \A o \in 1 .. born : ident'[o] = ident[o]
    BY <1>4
  <2> HIDE DEF pc, obj
  <2> QED BY <1>1, <1>3, <2>1, <2>3, <2>4, <2>6, <2>7, <2>8, <2>9, <2>10, <2>11, TrackStep
          DEF obj
<1> QED BY <1>7, <1>8, <1>9 DEF PoolInv

LEMMA RekeyKeeps ==
  ASSUME PoolInv, NEW t \in Tasks, Rekey(t)
  PROVE  PoolInv'
<1>1. /\ TypeInv /\ Fits(t) /\ call[t].pc = "rekey" /\ lock = None
      /\ call[t].op = "get" /\ call[t].sid = Fresh
  BY DEF PoolInv, TypeInv, Rekey, At, Fits, Served, GetPlaces
<1>2. call[t].obj \in 1 .. born /\ call[t].obj \in Objs
  BY <1>1, LimitsAssumption DEF Fits, HeldPlaces, TypeInv, DataInv, Objs, NoObj
<1>3. Moves(t, "done", call[t].obj, call[t].todo)
  BY <1>1, GotoMoves DEF PcPlaces, Rekey
<1>4. /\ UNCHANGED <<lock, session, usage, unstopped>>
      /\ pool' = [Without(pool, Fresh) EXCEPT ![ident[call[t].obj]] = call[t].obj]
  BY DEF Rekey
<1>5. LockStep(t, "done")
  BY <1>1, <1>4 DEF LockStep, HeldPlaces, Fits
<1>6. DataInv'
  <2>1. waiters' \in Seq(Tasks)
    BY <1>1, QueuesTyped DEF Rekey, NextWaiter, Served, TypeInv, DataInv
  <2>2. pool' \in [Ids -> 0 .. born]
    <3>1. Without(pool, Fresh) \in [Ids -> 0 .. born]
      <4>1. pool \in [Ids -> 0 .. born] /\ 0 \in 0 .. born
        BY <1>1, LimitsAssumption DEF TypeInv, DataInv
      <4> QED BY <4>1 DEF Without, NoObj
    <3>2. call[t].obj \in 0 .. born
      BY <1>2
    <3> QED BY <1>4, <3>1, <3>2
  <2> QED BY <1>1, <1>3, <1>4, <2>1, <2>2 DEF TypeInv, DataInv, Moves, session, usage
<1>7. TypeInv'
  BY <1>1, <1>2, <1>3, <1>4, <1>5, <1>6, AllFit
     DEF TypeInv, HeldPlaces, GetPlaces, session
<1>8. "fresh" \in Env
  BY <1>1 DEF PoolInv, CapInv, NoFresh
<1> QED BY <1>7, <1>8 DEF PoolInv
--------------------------------------------------------------------------------
(* Making room.  p and st are the pool and the sessions that MakeRoom is given:
   the id is free in p, and a session that p lacks has been stopped. *)
RoomGiven(t, p, st) ==
    /\ call[t].op = "get" /\ call[t].pc # "rekey" /\ lock \in {None, t}
    /\ p \in [Ids -> 0 .. born]
    /\ st \in [Objs -> {"unborn", "starting", "live", "dead", "stopped"}]
    /\ \A k \in Ids : p[k] \in {pool[k], NoObj}
    /\ \A o \in Objs : st[o] \in {state[o], "stopped"}
    /\ TrackInv =>
         /\ p[call[t].sid] = NoObj
         /\ \A o \in Objs, k \in Ids :
              pool[k] = o => p[k] = o \/ st[o] \notin {"starting", "live"}
         /\ \A o \in Objs : o = call[t].obj /\ Held(t) =>
              st[o] \notin {"starting", "live"}

LEMMA CreateKeeps ==
  ASSUME PoolInv, NEW t \in Tasks, NEW p, NEW st, RoomGiven(t, p, st),
         Create(t, p, st), UNCHANGED <<usage, unstopped>>, waiters' \in Seq(Tasks)
  PROVE  PoolInv'
<1> DEFINE new == born + 1
           k == call[t].sid
<1>1. TypeInv /\ Fits(t) /\ k \in Ids /\ call[t].acc \in Accounts /\ born \in Nat
  BY LimitsAssumption DEF PoolInv, TypeInv, DataInv, RoomGiven, Fits
<1>2. /\ born' = new /\ pool' = p /\ lock' = t /\ new \in Objs /\ new \in 0 .. MaxObjs
      /\ state' = [st EXCEPT ![new] = "starting"]
      /\ account' = [account EXCEPT ![new] = call[t].acc]
      /\ ident' = [ident EXCEPT ![new] = IF k = Fresh THEN new ELSE k]
      /\ UNCHANGED <<usage, unstopped>>
  BY <1>1, LimitsAssumption DEF Create, Objs
<1>3. Moves(t, "start", new, call[t].todo)
  <2>1. call' = [call EXCEPT ![t].pc = "start", ![t].obj = new]
    BY <1>2 DEF Create
  <2> QED BY <1>1, <1>2, <2>1, ObjMoves DEF PcPlaces
<1>4. LockStep(t, "start")
  BY <1>2 DEF LockStep, HeldPlaces, RoomGiven
<1>5. \A o \in Objs : o \in 1 .. born => ident'[o] = ident[o] /\ state'[o] = st[o]
  BY <1>1, <1>2 DEF TypeInv, DataInv, RoomGiven, Objs
<1>6. 1 .. born' = (1 .. born) \cup {new} /\ 1 .. born \subseteq Objs
  BY <1>1, <1>2, LimitsAssumption DEF Objs
<1>7. DataInv'
  <2>1. ident' \in [Objs -> Ids \cup {None}] /\ \A o \in 1 .. born' : ident'[o] \in Ids
    <3>1. ident'[new] \in Ids /\ ident' \in [Objs -> Ids \cup {None}]
      BY <1>1, <1>2 DEF TypeInv, DataInv, Ids
    <3>2. \A o \in 1 .. born : ident'[o] \in Ids
      BY <1>1, <1>5, <1>6 DEF TypeInv, DataInv
    <3> QED BY <1>6, <3>1, <3>2
  <2>2. state' \in [Objs -> {"unborn", "starting", "live", "dead", "stopped"}]
    BY <1>2 DEF RoomGiven
  <2>3. pool' \in [Ids -> 0 .. born']
    <3>1. 0 .. born \subseteq 0 .. born'
      BY <1>1, <1>2
    <3> QED BY <1>2, <3>1 DEF RoomGiven
  <2>4. account' \in [Objs -> Accounts \cup {None}]
    BY <1>1, <1>2 DEF TypeInv, DataInv
  <2>5. handed' \subseteq 1 .. born'
    BY <1>1, <1>2, <1>6 DEF TypeInv, DataInv, usage
  <2>6. /\ lock' \in Tasks /\ busy' = busy /\ idle' = idle /\ work' = work
        /\ resuming' = resuming /\ unstopped' = unstopped
    BY <1>2 DEF usage
  <2> QED BY <1>1, <1>2, <1>3, <2>1, <2>2, <2>3, <2>4, <2>5, <2>6 DEF TypeInv, DataInv, Moves
<1>8. TypeInv'
  <2>1. new \in 0 .. born' /\ new # NoObj /\ born' \in {born, born + 1}
    BY <1>1, <1>2 DEF NoObj
  <2>2. pool' = pool \/ lock \in {None, t}
    BY DEF RoomGiven
  <2> HIDE DEF new
  <2> QED BY <1>1, <1>3, <1>4, <1>7, <2>1, <2>2, AllFit
          DEF TypeInv, HeldPlaces, GetPlaces, RoomGiven
<1>9. ASSUME "fresh" \notin Env PROVE CapInv'
  <2>1. NoFresh'
    BY <1>3, <1>9, FreshKept DEF PoolInv, CapInv
  <2>2. Cardinality(Pooled(p)) < MaxSessions /\ Cardinality(Pooled(p)) \in Nat
    BY FewerKeys DEF Create, HasRoom
  <2>3. Pooled(pool)' = Pooled(p)
    BY <1>2 DEF Pooled
  <2> QED BY <2>1, <2>2, <2>3, LimitsAssumption DEF CapInv
<1>10. ASSUME Env \cap {"fresh", "crash"} = {} PROVE TrackInv'
  <2>1. TrackInv /\ k # Fresh
    BY <1>10 DEF PoolInv, TrackInv, NoFresh, RoomGiven
  <2>2. HolderInv(t)'
    <3>1. ident'[new] = k /\ pool'[k] = NoObj
      BY <1>1, <1>2, <2>1 DEF TypeInv, DataInv, RoomGiven
    <3> QED BY <1>3, <3>1 DEF HolderInv, Moves
  <2>3. \A o \in Objs : o = new => Tracked(o)'
    BY <1>3 DEF Tracked, Moves, Held
  <2>4. \A o \in Objs : o # new => state'[o] = st[o]
    BY <1>2 DEF RoomGiven
  <2>5. \A o \in Objs : Running(o)' => Running(o) \/ Tracked(o)'
    BY <2>3, <2>4 DEF Running, RoomGiven
  <2>6. \A o \in Objs : state'[o] # "dead"
    BY <1>2, <2>1 DEF TrackInv, RoomGiven
  <2>7. \A o \in Objs : o > born' => ~Running(o)'
    <3> SUFFICES ASSUME NEW o \in Objs, o > new PROVE ~Running(o)'
      BY <1>2
    <3>1. o # new /\ o > born
      BY <1>1, LimitsAssumption DEF Objs
    <3> QED BY <2>1, <2>4, <3>1 DEF TrackInv, Running, RoomGiven
  <2>8. ASSUME NEW j \in Pooled(pool')
        PROVE  ident'[pool'[j]] = j /\ state'[pool'[j]] # "starting"
    <3>1. j \in Pooled(pool) /\ pool'[j] = pool[j]
      BY <1>2 DEF Pooled, RoomGiven
    <3>2. pool[j] \in 1 .. born /\ pool[j] \in Objs
      BY <1>1, <3>1, PooledTyped
    <3>3. ident[pool[j]] = j /\ state[pool[j]] # "starting"
      BY <2>1, <3>1 DEF TrackInv
    <3> QED BY <1>5, <3>1, <3>2, <3>3 DEF RoomGiven
  <2>9. \A o \in Objs : (\E j \in Ids : pool[j] = o) \/ o = call[t].obj => state'[o] = st[o]
    <3>1. \A o \in Objs : (\E j \in Ids : pool[j] = o) => o \in 0 .. born
      BY <1>1 DEF TypeInv, DataInv
    <3>2. call[t].obj \in 0 .. born
      BY <1>1 DEF Fits
    <3>3. \A o \in Objs : o \in 0 .. born => o # new
      BY <1>1
    <3> QED BY <2>4, <3>1, <3>2, <3>3
  <2>10. \A o \in Objs, j \in Ids : pool[j] = o => pool'[j] = o \/ ~Running(o)'
    BY <1>2, <2>1, <2>9 DEF RoomGiven, Running
  <2>11. \A o \in Objs : o = call[t].obj /\ (Held(t) \/ At(t, "rekey")) => ~Running(o)'
    BY <2>1, <2>9 DEF RoomGiven, Running, At
  <2>12. \A o \in 1 .. born : ident'[o] = ident[o]
    BY <1>5, <1>6
  <2>13. resuming' = resuming /\ unstopped' = unstopped /\ lock \in {None, t}
    BY <1>2 DEF usage, RoomGiven
  <2> HIDE DEF new, k
  <2> QED BY <1>1, <1>3, <2>1, <2>2, <2>5, <2>6, <2>7, <2>8, <2>10, <2>11, <2>12, <2>13,
             TrackStep
<1> QED BY <1>8, <1>9, <1>10 DEF PoolInv

(* What Evict and Exhausted have in common: they create nothing. *)
LEMMA RoomTracks ==
  ASSUME TypeInv, TrackInv, NEW t \in Tasks, NEW p, NEW st, RoomGiven(t, p, st),
         NEW pc, NEW obj, NEW todo, Moves(t, pc, obj, todo), HolderInv(t)',
         state' = st, UNCHANGED <<born, ident, usage, unstopped>>,
         \A k \in Ids : pool'[k] \in {p[k], NoObj}, pool' \in [Ids -> 0 .. born],
         \A o \in Objs, k \in Ids : p[k] = o => pool'[k] = o \/ Tracked(o)'
  PROVE  TrackInv'
<1>1. \A o \in Objs : Running(o)' => Running(o)
  BY DEF Running, RoomGiven
<1>2. \A o \in Objs : state'[o] # "dead"
  BY DEF TrackInv, RoomGiven
<1>3. \A o \in Objs : o > born' => ~Running(o)'
  BY <1>1 DEF TrackInv
<1>4. ASSUME NEW k \in Pooled(pool')
      PROVE  ident'[pool'[k]] = k /\ state'[pool'[k]] # "starting"
  <2>1. k \in Pooled(pool) /\ pool'[k] = pool[k]
    BY <1>4 DEF Pooled, RoomGiven
  <2>2. pool[k] \in Objs
    BY <2>1, PooledTyped
  <2>3. ident[pool[k]] = k /\ state[pool[k]] # "starting"
    BY <2>1 DEF TrackInv
  <2> QED BY <2>1, <2>2, <2>3 DEF RoomGiven
<1>5. \A o \in Objs, k \in Ids : pool[k] = o => pool'[k] = o \/ ~Running(o)' \/ Tracked(o)'
  BY DEF RoomGiven, Running
<1>6. \A o \in Objs : o = call[t].obj /\ (Held(t) \/ At(t, "rekey")) => ~Running(o)'
  BY DEF RoomGiven, Running, At
<1>7. /\ resuming' = resuming /\ unstopped' = unstopped /\ lock \in {None, t}
      /\ \A o \in 1 .. born : ident'[o] = ident[o]
  BY DEF usage, RoomGiven
<1> QED BY <1>1, <1>2, <1>3, <1>4, <1>5, <1>6, <1>7, TrackStep

LEMMA EvictKeeps ==
  ASSUME PoolInv, NEW t \in Tasks, NEW p, NEW st, RoomGiven(t, p, st),
         Evict(t, p, st), UNCHANGED <<usage, unstopped>>, waiters' \in Seq(Tasks)
  PROVE  PoolInv'
<1>1. TypeInv /\ Fits(t)
  BY DEF PoolInv, TypeInv
<1>2. PICK k \in Pooled(p) :
        /\ pool' = Without(p, k)
        /\ call' = [call EXCEPT ![t].pc = "evict", ![t].obj = p[k]]
  BY DEF Evict, Candidates, PastTimeout, Unlocked
<1>3. k \in Ids /\ p[k] = pool[k] /\ pool[k] \in 1 .. born /\ p[k] \in Objs
  <2>1. k \in Pooled(pool) /\ p[k] = pool[k]
    BY DEF Pooled, RoomGiven
  <2> QED BY <1>1, <2>1, PooledTyped
<1>4. Moves(t, "evict", p[k], call[t].todo)
  BY <1>1, <1>2, <1>3, ObjMoves DEF PcPlaces
<1>5. /\ lock' = t /\ state' = st
      /\ UNCHANGED <<born, ident, account, usage, unstopped>>
  BY DEF Evict
<1>6. LockStep(t, "evict")
  BY <1>5 DEF LockStep, HeldPlaces, RoomGiven
<1>7. /\ pool' \in [Ids -> 0 .. born] /\ \A j \in Ids : pool'[j] \in {p[j], NoObj}
      /\ \A j \in Ids : j # k => pool'[j] = p[j]
  <2>1. 0 \in 0 .. born
    BY <1>1, LimitsAssumption DEF TypeInv, DataInv
  <2> QED BY <1>2, <2>1 DEF Without, NoObj, RoomGiven
<1>8. DataInv'
  BY <1>1, <1>4, <1>5, <1>7 DEF TypeInv, DataInv, usage, Moves, RoomGiven
<1>9. TypeInv'
  <2>1. p[k] \in 0 .. born' /\ p[k] # NoObj /\ lock \in {None, t} /\ call[t].op = "get"
    BY <1>3, <1>5 DEF NoObj, RoomGiven
  <2> QED BY <1>1, <1>4, <1>5, <1>6, <1>8, <2>1, AllFit DEF TypeInv, HeldPlaces, GetPlaces
<1>10. ASSUME "fresh" \notin Env PROVE CapInv'
  <2>1. CapInv /\ NoFresh'
    BY <1>4, <1>10, FreshKept DEF PoolInv, CapInv
  <2>2. Pooled(pool') \subseteq Pooled(pool)
    BY <1>7 DEF Pooled, RoomGiven
  <2>3. \A x \in Tasks : call'[x].pc = "start" => call[x].pc = "start"
    BY <1>4 DEF Moves
  <2> QED BY <2>1, <2>2, <2>3, CapKept
<1>11. ASSUME Env \cap {"fresh", "crash"} = {} PROVE TrackInv'
  <2>1. TrackInv
    BY <1>11 DEF PoolInv
  <2>2. HolderInv(t)'
    <3>1. ident'[p[k]] = k
      BY <1>3, <1>5, <2>1 DEF TrackInv, Pooled, RoomGiven
    <3>2. pool'[k] = NoObj
      BY <1>2, <1>3 DEF Without, RoomGiven
    <3>3. pool'[call[t].sid] = NoObj
      BY <1>1, <1>7, <2>1 DEF RoomGiven, Fits
    <3> QED BY <1>4, <3>1, <3>2, <3>3 DEF HolderInv, Moves
  <2>3. \A o \in Objs : o = p[k] => Tracked(o)'
    BY <1>4 DEF Tracked, Moves, Held
  <2>4. \A o \in Objs, j \in Ids : p[j] = o => pool'[j] = o \/ Tracked(o)'
    BY <1>7, <2>3
  <2> QED BY <1>1, <1>4, <1>5, <1>7, <2>1, <2>2, <2>4, RoomTracks
<1> QED BY <1>9, <1>10, <1>11 DEF PoolInv

LEMMA ExhaustedKeeps ==
  ASSUME PoolInv, NEW t \in Tasks, NEW p, NEW st, RoomGiven(t, p, st),
         Exhausted(t, p, st), UNCHANGED <<usage, unstopped>>, waiters' \in Seq(Tasks)
  PROVE  PoolInv'
<1>1. TypeInv /\ Fits(t)
  BY DEF PoolInv, TypeInv
<1>2. Moves(t, "done", call[t].obj, call[t].todo)
  BY <1>1, GotoMoves DEF PcPlaces, Exhausted
<1>3. /\ lock' = None /\ state' = st /\ pool' = p
      /\ UNCHANGED <<born, ident, account, usage, unstopped>>
  BY DEF Exhausted
<1>4. LockStep(t, "done")
  BY <1>3, TasksAssumption DEF LockStep, HeldPlaces, RoomGiven, Tasks
<1>5. DataInv'
  BY <1>1, <1>2, <1>3 DEF TypeInv, DataInv, usage, Moves, RoomGiven
<1>6. TypeInv'
  <2>1. call[t].obj \in 0 .. born' /\ lock \in {None, t}
    BY <1>1, <1>3 DEF Fits, RoomGiven
  <2> QED BY <1>1, <1>2, <1>3, <1>4, <1>5, <2>1, AllFit DEF TypeInv, HeldPlaces, GetPlaces
<1>7. ASSUME "fresh" \notin Env PROVE CapInv'
  <2>1. CapInv /\ NoFresh'
    BY <1>2, <1>7, FreshKept DEF PoolInv, CapInv
  <2>2. Pooled(pool') \subseteq Pooled(pool)
    BY <1>3 DEF Pooled, RoomGiven
  <2>3. \A x \in Tasks : call'[x].pc = "start" => call[x].pc = "start"
    BY <1>2 DEF Moves
  <2> QED BY <2>1, <2>2, <2>3, CapKept
<1>8. ASSUME Env \cap {"fresh", "crash"} = {} PROVE TrackInv'
  <2>1. TrackInv
    BY <1>8 DEF PoolInv
  <2>2. HolderInv(t)'
    BY <1>2 DEF HolderInv, Moves
  <2>3. /\ \A k \in Ids : pool'[k] \in {p[k], NoObj}
        /\ pool' \in [Ids -> 0 .. born]
        /\ \A o \in Objs, k \in Ids : p[k] = o => pool'[k] = o
    BY <1>3 DEF RoomGiven
  <2> QED BY <1>1, <1>2, <1>3, <2>1, <2>2, <2>3, RoomTracks
<1> QED BY <1>6, <1>7, <1>8 DEF PoolInv

LEMMA MakeRoomKeeps ==
  ASSUME PoolInv, NEW t \in Tasks, NEW p, NEW st, RoomGiven(t, p, st),
         MakeRoom(t, p, st), waiters' \in Seq(Tasks)
  PROVE  PoolInv'
  BY CreateKeeps, EvictKeeps, ExhaustedKeeps DEF MakeRoom

LEMMA ClaimKeeps ==
  ASSUME PoolInv, NEW t \in Tasks, Claim(t)
  PROVE  PoolInv'
<1> DEFINE k == call[t].sid
           p == Without(pool, k)
<1>1. TypeInv /\ Fits(t) /\ call[t].op = "get" /\ call[t].pc = "lock" /\ lock = None
  BY DEF PoolInv, TypeInv, Claim, Enters, At, Served
<1>2. k \in Ids /\ Found(t) = pool[k]
  BY <1>1 DEF Fits, Found
<1>3. /\ p \in [Ids -> 0 .. born] /\ p[k] = NoObj
      /\ \A j \in Ids : p[j] \in {pool[j], NoObj} /\ (j # k => p[j] = pool[j])
  <2>1. 0 \in 0 .. born
    BY <1>1, LimitsAssumption DEF TypeInv, DataInv
  <2> QED BY <1>1, <1>2, <2>1 DEF Without, NoObj, TypeInv, DataInv
<1>4. RoomGiven(t, p, state)
  <2>1. ASSUME TrackInv, NEW o \in Objs, NEW j \in Ids, pool[j] = o, p[j] # o
        PROVE  state[o] \notin {"starting", "live"}
    <3>1. j = k /\ state[o] # "live" /\ j \in Pooled(pool)
      BY <1>2, <1>3, <2>1, LimitsAssumption DEF Claim, Alive, Pooled, Objs, NoObj
    <3> QED BY <2>1, <3>1 DEF TrackInv
  <2>2. ~Held(t)
    BY <1>1 DEF Held
  <2> HIDE DEF p
  <2> QED BY <1>1, <1>3, <2>1, <2>2 DEF RoomGiven, TypeInv, DataInv
<1>5. waiters' \in Seq(Tasks)
  BY <1>1, QueuesTyped DEF Claim, NextWaiter, Enters, Served, TypeInv, DataInv
<1> QED BY <1>4, <1>5, MakeRoomKeeps DEF Claim

LEMMA ReplacedKeeps ==
  ASSUME PoolInv, NEW t \in Tasks, Replaced(t)
  PROVE  PoolInv'
<1> DEFINE k == call[t].sid
           p == Without(pool, k)
           st == Stopped(call[t].obj)
<1>1. TypeInv /\ Fits(t) /\ call[t].op = "get" /\ call[t].pc = "replace" /\ lock = t
  BY DEF PoolInv, TypeInv, Replaced, At, Fits, HeldPlaces, GetPlaces
<1>2. k \in Ids
  BY <1>1 DEF Fits
<1>3. /\ p \in [Ids -> 0 .. born] /\ p[k] = NoObj
      /\ \A j \in Ids : p[j] \in {pool[j], NoObj} /\ (j # k => p[j] = pool[j])
  <2>1. 0 \in 0 .. born
    BY <1>1, LimitsAssumption DEF TypeInv, DataInv
  <2> QED BY <1>1, <1>2, <2>1 DEF Without, NoObj, TypeInv, DataInv
<1>4. /\ st \in [Objs -> {"unborn", "starting", "live", "dead", "stopped"}]
      /\ \A o \in Objs : st[o] \in {state[o], "stopped"}
      /\ \A o \in Objs : o = call[t].obj => st[o] = "stopped"
  BY <1>1 DEF Stopped, TypeInv, DataInv
<1>5. RoomGiven(t, p, st)
  <2>1. ASSUME TrackInv, NEW o \in Objs, NEW j \in Ids, pool[j] = o, p[j] # o
        PROVE  st[o] \notin {"starting", "live"}
    <3>1. j = k /\ HolderInv(t)
      BY <1>3, <2>1 DEF TrackInv
    <3>2. o = call[t].obj
      BY <1>1, <2>1, <3>1 DEF HolderInv
    <3> QED BY <1>4, <3>2
  <2> HIDE DEF p, st
  <2> QED BY <1>1, <1>3, <1>4, <2>1 DEF RoomGiven
<1>6. waiters' \in Seq(Tasks)
  BY <1>1 DEF Replaced, TypeInv, DataInv
<1> QED BY <1>5, <1>6, MakeRoomKeeps DEF Replaced, AfterReplace

LEMMA EvictedKeeps ==
  ASSUME PoolInv, NEW t \in Tasks, Evicted(t)
  PROVE  PoolInv'
<1> DEFINE st == Stopped(call[t].obj)
<1>1. TypeInv /\ Fits(t) /\ call[t].op = "get" /\ call[t].pc = "evict" /\ lock = t
  BY DEF PoolInv, TypeInv, Evicted, At, Fits, HeldPlaces, GetPlaces
<1>2. /\ st \in [Objs -> {"unborn", "starting", "live", "dead", "stopped"}]
      /\ \A o \in Objs : st[o] \in {state[o], "stopped"}
      /\ \A o \in Objs : o = call[t].obj => st[o] = "stopped"
  BY <1>1 DEF Stopped, TypeInv, DataInv
<1>3. TrackInv => pool[call[t].sid] = NoObj
  BY <1>1 DEF TrackInv, HolderInv
<1>4. RoomGiven(t, pool, st)
  BY <1>1, <1>2, <1>3 DEF RoomGiven, TypeInv, DataInv
<1>5. waiters' \in Seq(Tasks)
  BY <1>1 DEF Evicted, TypeInv, DataInv
<1> QED BY <1>4, <1>5, MakeRoomKeeps DEF Evicted
--------------------------------------------------------------------------------
(* The steps that take sessions out of the pool, and start nothing. *)
LEMMA TakeOutKeeps ==
  ASSUME PoolInv, NEW t \in Tasks, NEW pc, NEW obj \in 0 .. born, NEW todo,
         Moves(t, pc, obj, todo), LockStep(t, pc), lock \in {None, t},
         waiters' \in Seq(Tasks), pool' \in [Ids -> 0 .. born],
         \A k \in Ids : pool'[k] \in {pool[k], NoObj},
         state' \in [Objs -> {"unborn", "starting", "live", "dead", "stopped"}],
         \A o \in Objs : state'[o] \in {state[o], "stopped"},
         UNCHANGED <<born, ident, account, usage, unstopped>>,
         pc \notin GetPlaces \cup {"retire"}, pc \in HeldPlaces => obj # NoObj,
         pc = "stop" /\ call[t].op \in Sweeps => todo \subseteq Pooled(pool'),
         TrackInv =>
           /\ HolderInv(t)'
           /\ \A o \in Objs, k \in Ids : pool[k] = o =>
                pool'[k] = o \/ ~Running(o)' \/ (pc \in HeldPlaces /\ obj = o)
           /\ \A o \in Objs : o = call[t].obj /\ (Held(t) \/ At(t, "rekey")) =>
                ~Running(o)' \/ (pc \in HeldPlaces /\ obj = o)
  PROVE  PoolInv'
<1>1. TypeInv /\ Fits(t)
  BY DEF PoolInv, TypeInv
<1>2. DataInv'
  BY <1>1, TasksAssumption DEF TypeInv, DataInv, usage, Moves, LockStep, Tasks
<1>3. TypeInv'
  BY <1>1, <1>2, AllFit DEF TypeInv, GetPlaces
<1>4. ASSUME "fresh" \notin Env PROVE CapInv'
  <2>1. CapInv /\ NoFresh'
    BY <1>4, FreshKept DEF PoolInv, CapInv
  <2>2. Pooled(pool') \subseteq Pooled(pool)
    BY DEF Pooled
  <2>3. \A x \in Tasks : call'[x].pc = "start" => call[x].pc = "start"
    BY DEF Moves, GetPlaces
  <2> QED BY <2>1, <2>2, <2>3, CapKept
<1>5. ASSUME Env \cap {"fresh", "crash"} = {} PROVE TrackInv'
  <2>1. TrackInv
    BY <1>5 DEF PoolInv
  <2>2. \A o \in Objs : Running(o)' => Running(o)
    BY DEF Running
  <2>3. \A o \in Objs : state'[o] # "dead"
    BY <2>1 DEF TrackInv
  <2>4. \A o \in Objs : o > born' => ~Running(o)'
    BY <2>1, <2>2 DEF TrackInv
  <2>5. ASSUME NEW k \in Pooled(pool')
        PROVE  ident'[pool'[k]] = k /\ state'[pool'[k]] # "starting"
    <3>1. k \in Pooled(pool) /\ pool'[k] = pool[k]
      BY <2>5 DEF Pooled
    <3>2. pool[k] \in Objs
      BY <1>1, <3>1, PooledTyped
    <3>3. ident[pool[k]] = k /\ state[pool[k]] # "starting"
      BY <2>1, <3>1 DEF TrackInv
    <3> QED BY <3>1, <3>2, <3>3
  <2>6. \A o \in Objs : pc \in HeldPlaces /\ obj = o => Tracked(o)'
    BY DEF Tracked, Moves, HeldPlaces, Held
  <2>7. resuming' = resuming
    BY DEF usage
  <2> QED BY <1>1, <2>1, <2>2, <2>3, <2>4, <2>5, <2>6, <2>7, TrackStep
<1> QED BY <1>3, <1>4, <1>5 DEF PoolInv

LEMMA RemoveKeeps ==
  ASSUME PoolInv, NEW t \in Tasks, Remove(t)
  PROVE  PoolInv'
<1> DEFINE k == call[t].sid
<1>1. /\ TypeInv /\ Fits(t) /\ call[t].pc = "lock" /\ lock = None
      /\ call[t].op \in {"remove", "retire", "kill"}
  BY DEF PoolInv, TypeInv, Remove, Enters, At, Served
<1>2. k \in Ids /\ Found(t) = pool[k] /\ Found(t) \in 0 .. born
  BY <1>1, FoundTyped DEF Fits, Found
<1>3. /\ pool' \in [Ids -> 0 .. born] /\ pool'[k] = NoObj
      /\ \A j \in Ids : pool'[j] \in {pool[j], NoObj} /\ (j # k => pool'[j] = pool[j])
  <2>1. 0 \in 0 .. born
    BY <1>1, LimitsAssumption DEF TypeInv, DataInv
  <2> QED BY <1>1, <1>2, <2>1 DEF Remove, Without, NoObj, TypeInv, DataInv
<1>4. waiters' \in Seq(Tasks)
  BY <1>1, QueuesTyped DEF Remove, NextWaiter, Enters, Served, TypeInv, DataInv
<1>5. UNCHANGED <<born, state, ident, account, usage, unstopped>>
  BY DEF Remove, session
<1>6. /\ state' \in [Objs -> {"unborn", "starting", "live", "dead", "stopped"}]
      /\ \A o \in Objs : state'[o] \in {state[o], "stopped"}
  BY <1>1, <1>5 DEF TypeInv, DataInv
<1>7. ~Held(t) /\ ~At(t, "rekey") /\ call[t].op \notin Sweeps
  BY <1>1 DEF Held, At, Sweeps
<1>8. CASE Found(t) = NoObj
  <2>1. Goto(t, "done") /\ lock' = lock
    BY <1>8 DEF Remove
  <2>2. Moves(t, "done", call[t].obj, call[t].todo)
    BY <1>1, <2>1, GotoMoves DEF PcPlaces
  <2>3. LockStep(t, "done")
    BY <1>1, <2>1 DEF LockStep, HeldPlaces, Fits
  <2>4. HolderInv(t)'
    BY <2>2 DEF HolderInv, Moves
  <2>5. \A o \in Objs, j \in Ids : pool[j] = o => pool'[j] = o
    BY <1>2, <1>3, <1>8 DEF Objs, NoObj
  <2>6. call[t].obj \in 0 .. born
    BY <1>1 DEF Fits
  <2>7. TrackInv =>
          /\ HolderInv(t)'
          /\ \A o \in Objs, j \in Ids : pool[j] = o => pool'[j] = o \/ ~Running(o)'
          /\ \A o \in Objs : o = call[t].obj /\ (Held(t) \/ At(t, "rekey")) => ~Running(o)'
    BY <1>7, <2>4, <2>5
  <2>8. "done" \notin HeldPlaces \cup GetPlaces \cup {"retire"}
    BY DEF HeldPlaces, GetPlaces
  <2> QED BY <1>1, <1>3, <1>4, <1>5, <1>6, <1>7, <2>2, <2>3, <2>6, <2>7, <2>8, TakeOutKeeps
<1>9. CASE Found(t) # NoObj
  <2>1. call' = [call EXCEPT ![t].pc = "stop", ![t].obj = Found(t)] /\ lock' = t
    BY <1>9 DEF Remove
  <2>2. Found(t) \in Objs
    BY <1>1, <1>2, <1>9, FoundTyped
  <2>3. Moves(t, "stop", Found(t), call[t].todo)
    BY <1>1, <2>1, <2>2, ObjMoves DEF PcPlaces
  <2>4. LockStep(t, "stop")
    BY <1>1, <2>1 DEF LockStep, HeldPlaces
  <2>5. TrackInv => HolderInv(t)'
    <3>1. TrackInv => ident'[Found(t)] = k
      BY <1>2, <1>5, <1>9 DEF TrackInv, Pooled
    <3> QED BY <1>1, <1>3, <2>3, <3>1 DEF HolderInv, Moves
  <2>6. \A o \in Objs, j \in Ids : pool[j] = o => pool'[j] = o \/ Found(t) = o
    BY <1>2, <1>3
  <2> DEFINE obj == Found(t)
  <2>7. TrackInv =>
          /\ HolderInv(t)'
          /\ \A o \in Objs, j \in Ids : pool[j] = o => pool'[j] = o \/ obj = o
          /\ \A o \in Objs : o = call[t].obj /\ (Held(t) \/ At(t, "rekey")) => ~Running(o)'
    BY <1>7, <2>5, <2>6
  <2>8. "stop" \in HeldPlaces /\ "stop" \notin GetPlaces \cup {"retire"}
    BY DEF HeldPlaces, GetPlaces
  <2>9. obj \in 0 .. born /\ obj # NoObj /\ Moves(t, "stop", obj, call[t].todo)
    BY <1>2, <1>9, <2>3
  <2> HIDE DEF obj
  <2> QED BY <1>1, <1>3, <1>4, <1>5, <1>6, <1>7, <2>4, <2>7, <2>8, <2>9, TakeOutKeeps
<1> QED BY <1>8, <1>9

(* A sweep goes on to its next session or ends.  Of stop_all, which clears the
   dictionary at its end, all that is not listed any more has been stopped. *)
LEMMA SweepOnKeeps ==
  ASSUME PoolInv, NEW t \in Tasks, lock \in {None, t}, call[t].op \in Sweeps,
         call[t].pc \in {"lock", "stop"},
         NEW todo \in SUBSET Pooled(pool), SweepOn(t, todo), waiters' \in Seq(Tasks),
         state' \in [Objs -> {"unborn", "starting", "live", "dead", "stopped"}],
         \A o \in Objs : state'[o] \in {state[o], "stopped"},
         UNCHANGED <<born, ident, account, usage, unstopped>>,
         TrackInv =>
           /\ call[t].op = "stopall" => \A j \in Pooled(pool) :
                j \in todo \/ state'[pool[j]] \notin {"starting", "live"}
           /\ \A o \in Objs : o = call[t].obj /\ Held(t) => ~Running(o)'
  PROVE  PoolInv'
<1>1. TypeInv /\ Fits(t) /\ ~At(t, "rekey") /\ pool \in [Ids -> 0 .. born]
  BY DEF PoolInv, TypeInv, DataInv, At
<1>2. 0 \in 0 .. born
  BY <1>1, LimitsAssumption DEF TypeInv, DataInv
<1>3. CASE \E k \in todo :
         /\ call' = [call EXCEPT ![t].pc = "stop", ![t].obj = pool[k],
                                 ![t].todo = Rest(todo, k)]
         /\ pool' = IF call[t].op = "stopall" THEN pool ELSE Without(pool, k)
         /\ lock' = t
  <2>1. PICK k \in todo :
         /\ call' = [call EXCEPT ![t].pc = "stop", ![t].obj = pool[k],
                                 ![t].todo = todo \ {k}]
         /\ pool' = IF call[t].op = "stopall" THEN pool ELSE Without(pool, k)
         /\ lock' = t
    BY <1>3 DEF Rest
  <2>2. k \in Ids /\ pool[k] \in 1 .. born /\ pool[k] \in Objs
    BY <1>1, PooledTyped
  <2>3. Moves(t, "stop", pool[k], todo \ {k})
    <3>1. todo \ {k} \in SUBSET Ids
      BY DEF Pooled
    <3> QED BY <1>1, <2>1, <2>2, <3>1, TodoMoves
  <2>4. LockStep(t, "stop")
    BY <2>1 DEF LockStep, HeldPlaces
  <2>5. /\ pool' \in [Ids -> 0 .. born]
        /\ \A j \in Ids : pool'[j] \in {pool[j], NoObj} /\ (j # k => pool'[j] = pool[j])
        /\ call[t].op # "stopall" => pool'[k] = NoObj
        /\ call[t].op = "stopall" => pool' = pool
    BY <1>1, <1>2, <2>1, <2>2 DEF Without, NoObj
  <2>6. todo \ {k} \subseteq Pooled(pool')
    BY <2>5 DEF Pooled
  <2>7. ASSUME TrackInv PROVE HolderInv(t)'
    <3>1. ident'[pool[k]] = k
      BY <2>7 DEF TrackInv
    <3>2. CASE call[t].op # "stopall"
      BY <2>3, <2>5, <3>1, <3>2 DEF HolderInv, Moves
    <3>3. CASE call[t].op = "stopall"
      <4>1. \A j \in Pooled(pool') :
              j \in todo \ {k} \/ pool'[j] = pool[k] \/ state'[pool'[j]] \notin {"starting", "live"}
        BY <2>5, <2>7, <3>3
      <4>2. Pooled(pool)' = Pooled(pool')
        BY DEF Pooled
      <4>3. pool'[ident'[pool[k]]] = pool[k]
        BY <2>2, <2>5, <3>1, <3>3
      <4> QED BY <2>3, <3>3, <4>1, <4>2, <4>3 DEF HolderInv, Moves, Running
    <3> QED BY <3>2, <3>3
  <2>8. \A o \in Objs, j \in Ids : pool[j] = o => pool'[j] = o \/ pool[k] = o
    BY <2>5
  <2>9. pool[k] \in 0 .. born /\ pool[k] # NoObj
    BY <2>2 DEF NoObj
  <2> QED BY <1>1, <2>3, <2>4, <2>5, <2>6, <2>7, <2>8, <2>9, TakeOutKeeps
          DEF HeldPlaces, GetPlaces
<1>4. CASE /\ todo = {}
           /\ call' = [call EXCEPT ![t].pc = IF t = Reaper THEN "sleep" ELSE "done",
                                   ![t].obj = NoObj]
           /\ pool' = IF call[t].op = "stopall" THEN [k \in Ids |-> NoObj] ELSE pool
           /\ lock' = None
  <2>1. PICK pc \in {"sleep", "done"} : call' = [call EXCEPT ![t].pc = pc, ![t].obj = NoObj]
    BY <1>4
  <2>2. Moves(t, pc, NoObj, call[t].todo)
    BY <1>1, <2>1, ObjMoves DEF PcPlaces
  <2>3. LockStep(t, pc)
    BY <1>4, <2>1, TasksAssumption DEF LockStep, HeldPlaces, Tasks
  <2>4. /\ pool' \in [Ids -> 0 .. born]
        /\ \A j \in Ids : pool'[j] \in {pool[j], NoObj}
        /\ call[t].op # "stopall" => pool' = pool
    BY <1>1, <1>2, <1>4 DEF NoObj
  <2>5. HolderInv(t)'
    BY <2>1, <2>2 DEF HolderInv, Moves
  <2>6. ASSUME TrackInv, NEW o \in Objs, NEW j \in Ids, pool[j] = o
        PROVE  pool'[j] = o \/ ~Running(o)'
    <3>1. j \in Pooled(pool)
      BY <2>6, LimitsAssumption DEF Pooled, Objs, NoObj
    <3> QED BY <1>4, <2>4, <2>6, <3>1 DEF Running
  <2>7. NoObj \in 0 .. born
    BY <1>2 DEF NoObj
  <2> QED BY <1>1, <2>1, <2>2, <2>3, <2>4, <2>5, <2>6, <2>7, TakeOutKeeps
          DEF HeldPlaces, GetPlaces
<1> QED BY <1>3, <1>4 DEF SweepOn

LEMMA SweepKeeps ==
  ASSUME PoolInv, NEW t \in Tasks, Sweep(t)
  PROVE  PoolInv'
<1>1. PICK op \in Sweeps : Enters(t, op) /\ SweepOn(t, Listed(op))
  BY DEF Sweep
<1>2. TypeInv /\ call[t].op = op /\ call[t].pc = "lock" /\ lock = None
  BY <1>1 DEF PoolInv, Enters, At, Served
<1>3. Listed(op) \in SUBSET Pooled(pool) /\ (op = "stopall" => Listed(op) = Pooled(pool))
  BY <1>1 DEF Listed, Sweeps
<1>4. waiters' \in Seq(Tasks)
  BY <1>1, <1>2, QueuesTyped DEF Sweep, NextWaiter, Enters, Served, TypeInv, DataInv
<1>5. /\ UNCHANGED <<born, ident, account, usage, unstopped>>
      /\ state' \in [Objs -> {"unborn", "starting", "live", "dead", "stopped"}]
      /\ \A o \in Objs : state'[o] \in {state[o], "stopped"}
  BY <1>2 DEF Sweep, session, TypeInv, DataInv
<1>6. ~Held(t)
  BY <1>2 DEF Held, At
<1> DEFINE todo == Listed(op)
<1>7. /\ todo \in SUBSET Pooled(pool) /\ SweepOn(t, todo) /\ lock \in {None, t}
      /\ call[t].op \in Sweeps /\ call[t].pc \in {"lock", "stop"}
      /\ call[t].op = "stopall" => todo = Pooled(pool)
  BY <1>1, <1>2, <1>3
<1> HIDE DEF todo
<1>8. TrackInv =>
        /\ call[t].op = "stopall" => \A j \in Pooled(pool) :
             j \in todo \/ state'[pool[j]] \notin {"starting", "live"}
        /\ \A o \in Objs : o = call[t].obj /\ Held(t) => ~Running(o)'
  BY <1>6, <1>7
<1> QED BY <1>4, <1>5, <1>7, <1>8, SweepOnKeeps

LEMMA SweepNextKeeps ==
  ASSUME PoolInv, NEW t \in Tasks, SweepNext(t)
  PROVE  PoolInv'
<1>1. TypeInv /\ Fits(t) /\ call[t].op \in Sweeps /\ call[t].pc = "stop" /\ lock = t
  BY DEF PoolInv, TypeInv, SweepNext, At, Fits, HeldPlaces
<1>2. call[t].todo \in SUBSET Pooled(pool) /\ call[t].obj \in Objs
  BY <1>1, LimitsAssumption DEF Fits, HeldPlaces, TypeInv, DataInv, Objs, NoObj
<1>3. waiters' \in Seq(Tasks) /\ UNCHANGED <<born, ident, account, usage, unstopped>>
  BY <1>1 DEF SweepNext, TypeInv, DataInv
<1>4. /\ state' \in [Objs -> {"unborn", "starting", "live", "dead", "stopped"}]
      /\ \A o \in Objs : state'[o] = IF o = call[t].obj THEN "stopped" ELSE state[o]
  BY <1>1 DEF SweepNext, Stopped, TypeInv, DataInv
<1>5. ASSUME TrackInv, call[t].op = "stopall", NEW j \in Pooled(pool)
      PROVE  j \in call[t].todo \/ state'[pool[j]] \notin {"starting", "live"}
  <2>1. j \in call[t].todo \/ pool[j] = call[t].obj \/ ~Running(pool[j])
    BY <1>1, <1>5 DEF TrackInv, HolderInv
  <2>2. pool[j] \in Objs
    BY <1>1, PooledTyped
  <2> QED BY <1>4, <2>1, <2>2 DEF Running
<1>6. \A o \in Objs : o = call[t].obj => ~Running(o)'
  BY <1>4 DEF Running
<1>7. \A o \in Objs : state'[o] \in {state[o], "stopped"}
  BY <1>4
<1> DEFINE todo == call[t].todo
<1>8. /\ todo \in SUBSET Pooled(pool) /\ SweepOn(t, todo) /\ lock \in {None, t}
      /\ call[t].pc \in {"lock", "stop"}
  BY <1>1, <1>2 DEF SweepNext
<1>9. TrackInv =>
        /\ call[t].op = "stopall" => \A j \in Pooled(pool) :
             j \in todo \/ state'[pool[j]] \notin {"starting", "live"}
        /\ \A o \in Objs : o = call[t].obj /\ Held(t) => ~Running(o)'
  BY <1>5, <1>6
<1> HIDE DEF todo
<1> QED BY <1>1, <1>3, <1>4, <1>7, <1>8, <1>9, SweepOnKeeps
--------------------------------------------------------------------------------
(* The steps in which tasks that had nothing in their hands get a new call, and
   the one that cancels the reaper: M is who moves. *)
LEMMA ArrivalKeeps ==
  ASSUME PoolInv, NEW M \in SUBSET Tasks, DataInv',
         UNCHANGED <<pool, born, ident, usage>>, unstopped \subseteq unstopped',
         \A o \in Objs : state'[o] \in {state[o], "stopped"},
         \A x \in Tasks \ M : call'[x] = call[x] /\ (lock' = x <=> lock = x),
         \A x \in M : /\ Fits(x)' /\ call[x].pc # "rekey"
                      /\ call'[x].pc \notin HeldPlaces
                      /\ call'[x].op = "get" /\ "fresh" \notin Env =>
                           call'[x].sid # Fresh,
         \A x \in M, o \in Objs : Held(x) /\ o = call[x].obj =>
             ~Running(o)' \/ o \in unstopped'
  PROVE  PoolInv'
<1>1. TypeInv
  BY DEF PoolInv
<1>2. ASSUME NEW x \in Tasks, x \notin M PROVE Fits(x)'
  BY <1>1, <1>2 DEF TypeInv, Fits, Pooled
<1>3. TypeInv'
  BY <1>2 DEF TypeInv
<1>4. ASSUME "fresh" \notin Env, NoFresh PROVE NoFresh'
  BY <1>4 DEF NoFresh
<1>5. ASSUME "fresh" \notin Env PROVE CapInv'
  <2>1. CapInv /\ NoFresh'
    BY <1>4, <1>5 DEF PoolInv, CapInv
  <2>2. \A x \in Tasks : call'[x].pc = "start" => call[x].pc = "start"
    BY DEF HeldPlaces
  <2> QED BY <2>1, <2>2, CapKept
<1>6. ASSUME Env \cap {"fresh", "crash"} = {} PROVE TrackInv'
  <2>1. TrackInv /\ NoFresh'
    BY <1>4, <1>6 DEF PoolInv, TrackInv
  <2>2. \A o \in Objs : Running(o)' => Running(o)
    BY DEF Running
  <2>3. ASSUME NEW x \in Tasks PROVE HolderInv(x)'
    <3>1. CASE x \in M
      BY <3>1 DEF HolderInv, HeldPlaces
    <3>2. CASE x \notin M
      BY <1>1, <2>1, <2>2, <3>2, OtherHolds DEF TrackInv
    <3> QED BY <3>1, <3>2
  <2>4. NoUntracked'
    <3> SUFFICES ASSUME NEW o \in Objs, Running(o)', ~Tracked(o)', o \notin unstopped'
                 PROVE  FALSE
      BY DEF NoUntracked
    <3>1. Tracked(o)
      BY <2>1, <2>2 DEF TrackInv, NoUntracked
    <3>2. PICK x \in Tasks : call[x].obj = o /\ (Held(x) \/ At(x, "rekey"))
      BY <3>1 DEF Tracked
    <3>3. CASE x \in M
      BY <3>2, <3>3 DEF At
    <3>4. CASE x \notin M
      <4>1. call'[x] = call[x]
        BY <3>4
      <4> QED BY <3>2, <4>1 DEF Tracked, Held, At
    <3> QED BY <3>3, <3>4
  <2>5. ASSUME NEW k \in Pooled(pool)'
        PROVE  ident'[pool'[k]] = k /\ state'[pool'[k]] # "starting"
    <3>1. k \in Pooled(pool) /\ pool[k] \in Objs
      BY <1>1, PooledTyped DEF Pooled
    <3> QED BY <2>1, <3>1 DEF TrackInv
  <2>6. /\ resuming' = {} /\ \A o \in Objs : state'[o] # "dead"
        /\ \A o \in Objs : o > born' => ~Running(o)'
    BY <2>1, <2>2 DEF TrackInv, usage
  <2> QED BY <2>1, <2>3, <2>4, <2>5, <2>6 DEF TrackInv
<1> QED BY <1>3, <1>5, <1>6 DEF PoolInv

(* A task that is not in a call holds nothing. *)
LEMMA NotInCall ==
  ASSUME TypeInv, NEW t \in Tasks, call[t].pc = "idle"
  PROVE  lock # t /\ ~Held(t) /\ born \in Nat /\ NoObj \in 0 .. born
  BY LimitsAssumption DEF TypeInv, DataInv, Fits, HeldPlaces, Held, NoObj

LEMMA CallKeeps ==
  ASSUME PoolInv, NEW t \in Tasks, NEW op \in AllOps, NEW k \in Ids,
         NEW a \in Accounts, Call(t, op, k, a)
  PROVE  PoolInv'
<1> DEFINE c == [NoCall EXCEPT !.pc = "lock", !.op = op, !.sid = k, !.acc = a]
           woken == [NoCall EXCEPT !.pc = "sleep", !.op = "reap"]
           M == {t} \cup (IF StartsReaper(op) THEN {Reaper} ELSE {})
<1>1. TypeInv /\ t # Reaper /\ Reaper \in Tasks /\ call[t].pc = "idle"
  BY TasksAssumption DEF PoolInv, Call, At, Tasks
<1>2. /\ UNCHANGED <<lock, pool, session, usage, unstopped>>
      /\ waiters' = Append(waiters, t) /\ op \in {"get", "remove", "drain"}
      /\ call' = [x \in Tasks |-> IF x = t THEN c
                                  ELSE IF x = Reaper /\ StartsReaper(op)
                                  THEN woken ELSE call[x]]
  BY DEF Call, Queue
<1>3. c \in CallType /\ woken \in CallType
  BY DEF CallType, NoCall, AllOps
<1>4. DataInv'
  <2>1. waiters' \in Seq(Tasks)
    BY <1>1, <1>2, QueuesTyped DEF TypeInv, DataInv
  <2>2. call' \in [Tasks -> CallType]
    <3> HIDE DEF c, woken
    <3> QED BY <1>1, <1>2, <1>3 DEF TypeInv, DataInv
  <2> QED BY <1>1, <1>2, <2>1, <2>2 DEF TypeInv, DataInv, session, usage
<1>5. \A x \in M : x \in Tasks /\ call[x].pc = "idle" /\ call'[x] \in {c, woken}
                 /\ (x = Reaper => call'[x] = woken)
  BY <1>1, <1>2 DEF StartsReaper, At
<1>6. /\ c.pc = "lock" /\ c.op = op /\ c.sid = k /\ c.acc = a /\ c.obj = NoObj
      /\ woken.pc = "sleep" /\ woken.op = "reap" /\ woken.obj = NoObj
  BY DEF NoCall
<1>7. "fresh" \notin Env => k # Fresh
  BY IdsAssumption DEF Call, Known
<1>8. \A x \in Tasks \ M : call'[x] = call[x] /\ (lock' = x <=> lock = x)
  BY <1>2
<1> HIDE DEF c, woken
<1>9. ASSUME NEW x \in M
      PROVE  /\ Fits(x)' /\ call[x].pc # "rekey" /\ ~Held(x)
             /\ call'[x].pc \notin HeldPlaces
             /\ call'[x].op = "get" /\ "fresh" \notin Env => call'[x].sid # Fresh
  <2>1. lock # x /\ ~Held(x) /\ NoObj \in 0 .. born
    BY <1>1, <1>5, NotInCall
  <2>2. CASE call'[x] = c
    BY <1>1, <1>2, <1>5, <1>6, <1>7, <2>1, <2>2
       DEF Fits, session, HeldPlaces, GetPlaces
  <2>3. CASE call'[x] = woken
    BY <1>2, <1>5, <1>6, <2>1, <2>3 DEF Fits, session, HeldPlaces, GetPlaces
  <2> QED BY <1>5, <2>2, <2>3
<1>10. M \in SUBSET Tasks
  BY <1>1
<1>11. UNCHANGED <<pool, born, state, ident, usage, unstopped>>
  BY <1>2 DEF session
<1> HIDE DEF M
<1> QED BY <1>4, <1>8, <1>9, <1>10, <1>11, ArrivalKeeps

LEMMA RetireKeeps ==
  ASSUME PoolInv, NEW t \in Tasks, NEW op \in AllOps, NEW o \in Objs, Retire(t, op, o)
  PROVE  PoolInv'
<1> DEFINE c == [NoCall EXCEPT !.pc = "retire", !.op = op, !.obj = o, !.sid = ident[o]]
<1>1. /\ TypeInv /\ call[t].pc = "idle" /\ t # Reaper
      /\ op \in {"retire", "kill"} /\ o \in handed
  BY TasksAssumption DEF PoolInv, Retire, At
<1>2. /\ UNCHANGED <<mutex, pool, session, usage, unstopped>>
      /\ call' = [call EXCEPT ![t] = c]
  BY DEF Retire
<1>3. o \in 1 .. born /\ ident[o] \in Ids
  BY <1>1 DEF TypeInv, DataInv
<1>4. c \in CallType /\ c.pc = "retire" /\ c.op = op /\ c.obj = o /\ c.sid = ident[o]
  BY <1>3 DEF CallType, NoCall, AllOps
<1> HIDE DEF c
<1>5. call'[t] = c /\ \A x \in Tasks \ {t} : call'[x] = call[x]
  BY <1>1, <1>2 DEF TypeInv, DataInv
<1>6. DataInv'
  BY <1>1, <1>2, <1>4 DEF TypeInv, DataInv, mutex, session, usage
<1>7. lock # t /\ ~Held(t) /\ o \in 0 .. born /\ o # NoObj
  BY <1>1, <1>3, NotInCall DEF NoObj
<1>8. Fits(t)'
  BY <1>1, <1>2, <1>3, <1>4, <1>5, <1>7
     DEF Fits, mutex, session, HeldPlaces, GetPlaces, Sweeps
<1>9. UNCHANGED <<lock, pool, born, state, ident, usage, unstopped>>
  BY <1>2 DEF session, mutex
<1>10. /\ call'[t].pc \notin HeldPlaces /\ call'[t].op # "get" /\ call[t].pc # "rekey"
       /\ {t} \in SUBSET Tasks
  BY <1>1, <1>4, <1>5 DEF HeldPlaces
<1> QED BY <1>5, <1>6, <1>7, <1>8, <1>9, <1>10, ArrivalKeeps

LEMMA CallStopAllKeeps ==
  ASSUME PoolInv, NEW t \in Tasks, CallStopAll(t)
  PROVE  PoolInv'
<1> DEFINE c == [NoCall EXCEPT !.pc = "lock", !.op = "stopall"]
           M == {t, Reaper}
<1>1. /\ TypeInv /\ Fits(t) /\ Fits(Reaper) /\ call[t].pc = "idle"
      /\ t # Reaper /\ Reaper \in Tasks
  BY TasksAssumption DEF PoolInv, TypeInv, CallStopAll, At, Tasks
<1>2. /\ call' = [call EXCEPT ![t] = c, ![Reaper] = NoCall]
      /\ waiters' = Append(Leave(Reaper), t)
      /\ UNCHANGED <<pool, born, ident, account, usage>>
  BY DEF CallStopAll
<1>3. c \in CallType /\ NoCall \in CallType
  BY DEF CallType, NoCall, AllOps
<1>4. /\ c.pc = "lock" /\ c.op = "stopall" /\ c.obj = NoObj
      /\ NoCall.pc = "idle" /\ NoCall.op = "none" /\ NoCall.obj = NoObj
  BY DEF NoCall
<1> HIDE DEF c
<1>5. call'[t] = c /\ call'[Reaper] = NoCall /\ \A x \in Tasks \ M : call'[x] = call[x]
  BY <1>1, <1>2 DEF TypeInv, DataInv
<1>6. /\ lock # t /\ ~Held(t) /\ NoObj \in 0 .. born /\ call[Reaper].pc # "rekey"
      /\ call[Reaper].pc \in HeldPlaces => call[Reaper].pc = "stop"
  BY <1>1, NotInCall DEF Fits, HeldPlaces, GetPlaces
<1>7. lock' = IF lock = Reaper THEN None ELSE lock
  BY <1>1, <1>6 DEF CallStopAll, At, Fits, HeldPlaces
<1>8. /\ state' \in [Objs -> {"unborn", "starting", "live", "dead", "stopped"}]
      /\ \A o \in Objs : state'[o] \in {state[o], "stopped"}
      /\ unstopped \subseteq unstopped'
  BY <1>1 DEF CallStopAll, Stopped, TypeInv, DataInv
<1>9. At(Reaper, "stop") => call[Reaper].obj \in Objs
  BY <1>1, LimitsAssumption DEF Fits, HeldPlaces, TypeInv, DataInv, Objs, NoObj, At
<1>10. \A o \in Objs : Held(Reaper) /\ o = call[Reaper].obj =>
         ~Running(o)' \/ o \in unstopped'
  <2>1. Held(Reaper) => At(Reaper, "stop")
    BY <1>6 DEF Held, HeldPlaces, At
  <2> QED BY <1>1, <1>9, <2>1 DEF CallStopAll, Stopped, Running, TypeInv, DataInv
<1>11. DataInv'
  <2>1. waiters' \in Seq(Tasks)
    <3>1. Leave(Reaper) \in Seq(Tasks)
      BY <1>1, LeaveTyped DEF TypeInv, DataInv
    <3> QED BY <1>2, <3>1, AppendProperties
  <2>2. call' \in [Tasks -> CallType]
    BY <1>1, <1>2, <1>3 DEF TypeInv, DataInv
  <2>3. unstopped' \subseteq Objs
    BY <1>1, <1>9 DEF CallStopAll, TypeInv, DataInv
  <2> QED BY <1>1, <1>2, <1>7, <1>8, <2>1, <2>2, <2>3 DEF TypeInv, DataInv, usage
<1>12. lock' # t /\ lock' # Reaper
  BY <1>1, <1>6, <1>7, TasksAssumption DEF Tasks
<1>13. Fits(t)' /\ Fits(Reaper)'
  BY <1>2, <1>4, <1>5, <1>6, <1>12 DEF Fits, HeldPlaces, GetPlaces
<1>14. /\ call'[t].pc \notin HeldPlaces /\ call'[t].op # "get" /\ call[t].pc # "rekey"
       /\ call'[Reaper].pc \notin HeldPlaces /\ call'[Reaper].op # "get"
  BY <1>1, <1>4, <1>5 DEF HeldPlaces
<1>15. \A x \in Tasks \ M : call'[x] = call[x] /\ (lock' = x <=> lock = x)
  BY <1>5, <1>7, TasksAssumption DEF Tasks
<1>16. M \in SUBSET Tasks /\ UNCHANGED <<pool, born, ident, usage>>
  BY <1>1, <1>2
<1>17. \A x \in M : /\ Fits(x)' /\ call[x].pc # "rekey"
                    /\ call'[x].pc \notin HeldPlaces /\ call'[x].op # "get"
  BY <1>6, <1>13, <1>14
<1>18. \A x \in M, o \in Objs : Held(x) /\ o = call[x].obj =>
         ~Running(o)' \/ o \in unstopped'
  BY <1>6, <1>10
<1> HIDE DEF M
<1> QED BY <1>8, <1>11, <1>15, <1>16, <1>17, <1>18, ArrivalKeeps
--------------------------------------------------------------------------------
(* What sessions and hosts do without the pool, and steps that change nothing. *)
LEMMA UseKeeps ==
  ASSUME PoolInv, DataInv',
         UNCHANGED <<lock, pool, born, ident, call, unstopped>>,
         TrackInv /\ "crash" \notin Env => UNCHANGED <<state, resuming>>
  PROVE  PoolInv'
<1>1. TypeInv'
  BY DEF PoolInv, TypeInv, Fits, Pooled
<1>2. Pooled(pool)' = Pooled(pool)
  BY DEF Pooled
<1>3. CapInv => CapInv'
  BY <1>2 DEF CapInv, NoFresh, At
<1>4. ASSUME TrackInv, "crash" \notin Env PROVE TrackInv'
  <2>1. state' = state /\ resuming' = resuming
    BY <1>4
  <2>2. NoUntracked'
    BY <1>4, <2>1 DEF TrackInv, NoUntracked, Tracked, Running, Held, At
  <2>3. \A x \in Tasks : HolderInv(x)'
    BY <1>2, <1>4, <2>1 DEF TrackInv, HolderInv, Running
  <2> QED BY <1>2, <1>4, <2>1, <2>2, <2>3 DEF TrackInv, NoFresh, Running
<1> QED BY <1>1, <1>3, <1>4 DEF PoolInv

LEMMA SessionKeeps ==
  ASSUME PoolInv, NEW o \in Objs, SessionStep(o)
  PROVE  PoolInv'
<1>1. DataInv /\ Use
  BY DEF PoolInv, TypeInv, SessionStep, PromptStart, PromptEnd, Silence, Activity,
         WorkChanges, Crash, Resume
<1>2. /\ state' \in [Objs -> {"unborn", "starting", "live", "dead", "stopped"}]
      /\ busy' \in [Objs -> BOOLEAN] /\ idle' \in [Objs -> {"fresh", "idle", "expired"}]
      /\ work' \in [Objs -> {"none", "hold", "children"}] /\ resuming' \subseteq Objs
  <2>1. CASE PromptStart(o) \/ PromptEnd(o)
    BY <1>1, <2>1 DEF DataInv, PromptStart, PromptEnd
  <2>2. CASE Crash(o) \/ Resume(o)
    BY <1>1, <2>2 DEF DataInv, Crash, Resume
  <2>3. CASE Silence(o) \/ Activity(o)
    BY <1>1, <2>3 DEF DataInv, Silence, Activity
  <2>4. CASE WorkChanges(o)
    BY <1>1, <2>4 DEF DataInv, WorkChanges
  <2> QED BY <2>1, <2>2, <2>3, <2>4 DEF SessionStep
<1>3. UNCHANGED <<lock, waiters, pool, born, ident, account, handed, call, unstopped>>
  BY <1>1 DEF Use, mutex
<1>4. DataInv'
  BY <1>1, <1>2, <1>3 DEF DataInv
<1>5. TrackInv /\ "crash" \notin Env => UNCHANGED <<state, resuming>>
  BY DEF SessionStep, PromptStart, PromptEnd, Silence, Activity, WorkChanges, Crash,
         Resume, TrackInv
<1> QED BY <1>3, <1>4, <1>5, UseKeeps

(* The invariant is inductive. *)
LEMMA PoolInit == Init => PoolInv
<1> SUFFICES ASSUME Init PROVE PoolInv
  OBVIOUS
<1>1. \A t \in Tasks : call[t] = NoCall
  BY DEF Init
<1>2. NoCall \in CallType
  BY DEF CallType, NoCall, AllOps
<1>3. DataInv
  <2>1. waiters \in Seq(Tasks)
    BY DEF Init
  <2>2. call \in [Tasks -> CallType]
    BY <1>2 DEF Init
  <2> QED BY <2>1, <2>2, LimitsAssumption DEF Init, DataInv, NoObj
<1>4. TypeInv
  BY <1>1, <1>3, TasksAssumption
     DEF TypeInv, Fits, NoCall, Init, HeldPlaces, GetPlaces, NoObj, Tasks
<1>5. Pooled(pool) = {}
  BY DEF Init, Pooled
<1>6. NoFresh
  BY <1>1 DEF NoFresh, NoCall
<1>7. CapInv
  BY <1>1, <1>5, <1>6, FS_EmptySet, LimitsAssumption DEF CapInv, At, NoCall
<1>8. TrackInv
  <2>1. \A o \in Objs : state[o] = "unborn"
    BY DEF Init
  <2>2. \A t \in Tasks : HolderInv(t)
    BY <1>1 DEF HolderInv, NoCall
  <2> QED BY <1>5, <1>6, <2>1, <2>2 DEF TrackInv, NoUntracked, Running, Init
<1> QED BY <1>4, <1>7, <1>8 DEF PoolInv

LEMMA TaskKeeps ==
  ASSUME PoolInv, NEW t \in Tasks, Step(t) \/ Disturb(t)
  PROVE  PoolInv'
<1>1. CASE GetOrCreate(t)
  BY <1>1, ReuseKeeps, ClaimKeeps, ReplaceKeeps, ReplacedKeeps, EvictedKeeps,
     StartedKeeps, SettledKeeps, StoppedKeeps, RekeyKeeps DEF GetOrCreate
<1>2. CASE Teardown(t)
  BY <1>2, RetiredKeeps, RemoveKeeps, StoppedKeeps, SweepKeeps, SweepNextKeeps DEF Teardown
<1>3. CASE Disturb(t)
  BY <1>3, CallKeeps, RetireKeeps, CallStopAllKeeps, StartEndsKeeps, CancelWaitKeeps,
     CutStopKeeps DEF Disturb
<1> QED BY <1>1, <1>2, <1>3 DEF Step

LEMMA PoolStep == PoolInv /\ [Next]_vars => PoolInv'
<1> SUFFICES ASSUME PoolInv, [Next]_vars PROVE PoolInv'
  OBVIOUS
<1>1. CASE \E t \in Tasks : Step(t) \/ Disturb(t)
  BY <1>1, TaskKeeps
<1>2. CASE ReaperWakes
  BY <1>2, ReaperWakesKeeps
<1>3. CASE \E o \in Objs : SessionStep(o)
  BY <1>3, SessionKeeps
<1>4. CASE UNCHANGED vars
  <2>1. DataInv'
    BY <1>4 DEF PoolInv, TypeInv, DataInv, vars, mutex, session, usage
  <2>2. UNCHANGED <<lock, pool, born, ident, call, unstopped, state, resuming>>
    BY <1>4 DEF vars, mutex, session, usage
  <2> QED BY <2>1, <2>2, UseKeeps
<1> QED BY <1>1, <1>2, <1>3, <1>4 DEF Next

LEMMA PoolInvariant == Spec => []PoolInv
  BY PoolInit, PoolStep, PTL DEF Spec
--------------------------------------------------------------------------------
(* Types; and whatever is cancelled or fails, a task that is starting, evicting,
   replacing or stopping has a session in its hands (get_or_create, remove and
   the sweeps of pool.py). *)
THEOREM PoolTypesHold == Spec => []PoolTypeOK
<1>1. PoolInv => PoolTypeOK
  <2> SUFFICES ASSUME PoolInv PROVE PoolTypeOK
    OBVIOUS
  <2>1. DataInv /\ \A t \in Tasks : Fits(t)
    BY DEF PoolInv, TypeInv
  <2>2. 0 .. born \subseteq Objs \cup {NoObj} /\ 1 .. born \subseteq Objs
    BY <2>1, LimitsAssumption DEF DataInv, Objs, NoObj
  <2>3. \A t \in Tasks : Held(t) => call[t].obj \in Objs
    BY <2>1, <2>2 DEF Fits, Held, HeldPlaces
  <2>4. pool \in [Ids -> Objs \cup {NoObj}] /\ handed \cup resuming \subseteq Objs
    BY <2>1, <2>2 DEF DataInv
  <2> QED BY <2>1, <2>3, <2>4 DEF PoolTypeOK, DataInv
<1> QED BY <1>1, PoolInvariant, PTL

(* config.max_sessions bounds the sessions in the pool and the one that starts,
   however calls, evictions, failed starts and sweeps follow each other.  The
   hosts launch with an id: the key "" of a session without one is published
   first and moved later (adapters/base.py:60-74), without a look at the room. *)
THEOREM CapacityHolds ==
  ASSUME "fresh" \notin Env PROVE Spec => []WithinCapacity
<1>1. PoolInv => WithinCapacity
  <2> SUFFICES ASSUME PoolInv PROVE WithinCapacity
    OBVIOUS
  <2> DEFINE S == {t \in Tasks : At(t, "start")}
             n == Cardinality(Pooled(pool))
  <2>1. CapInv /\ TypeInv
    BY DEF PoolInv
  <2>2. n \in Nat /\ MaxSessions \in Nat
    BY FewerKeys, LimitsAssumption
  <2>3. CASE S = {}
    <3>1. Cardinality(S) = 0
      BY <2>3, FS_EmptySet
    <3>2. n <= MaxSessions
      BY <2>1 DEF CapInv
    <3> HIDE DEF S, n
    <3> QED BY <2>2, <3>1, <3>2 DEF WithinCapacity, S, n
  <2>4. CASE S # {}
    <3>1. PICK t \in S : TRUE
      BY <2>4
    <3>2. S = {t}
      BY <2>1, <3>1 DEF TypeInv, Fits, At, HeldPlaces
    <3>3. Cardinality(S) = 1
      BY <3>2, FS_Singleton
    <3>4. n < MaxSessions
      BY <2>1, <3>1 DEF CapInv
    <3> HIDE DEF S, n
    <3> QED BY <2>2, <3>3, <3>4 DEF WithinCapacity, S, n
  <2> QED BY <2>3, <2>4
<1> QED BY <1>1, PoolInvariant, PTL

(* No process that get_or_create started is lost, whatever is cancelled, fails
   or is stopped meanwhile: it is in the pool or in the hands of a task, unless
   its own stop was cut.  A process that dies and is resumed is left out: the
   resumption does not look again whether its session is still wanted. *)
THEOREM NothingUntracked ==
  ASSUME Env \cap {"fresh", "crash"} = {} PROVE Spec => []NoUntracked
<1>1. PoolInv => NoUntracked
  BY DEF PoolInv, TrackInv
<1> QED BY <1>1, PoolInvariant, PTL

(* Two processes never run one conversation: each is in the pool under its own
   id, or is the one that the holder of the lock has in its hands, and then that
   id is not in the pool. *)
THEOREM OneProcess ==
  ASSUME Env \cap {"fresh", "crash"} = {} PROVE Spec => []OneProcessPerId
<1>1. PoolInv => OneProcessPerId
  <2> SUFFICES ASSUME PoolInv, NEW o \in Objs, NEW q \in Objs,
                      o \notin unstopped, q \notin unstopped,
                      Running(o), Running(q), ident[o] = ident[q]
               PROVE  o = q
    BY DEF OneProcessPerId
  <2>1. TrackInv /\ TypeInv /\ Tracked(o) /\ Tracked(q)
    BY DEF PoolInv, TrackInv, NoUntracked
  <2>2. \A p \in Objs, k \in Ids : pool[k] = p => ident[p] = k
    BY <2>1, LimitsAssumption DEF TrackInv, Pooled, Objs, NoObj
  <2>3. \A t \in Tasks : Held(t) \/ At(t, "rekey") => lock = t /\ call[t].pc \in HeldPlaces
    BY <2>1 DEF TypeInv, Fits, HeldPlaces, GetPlaces, TrackInv, NoFresh, Held, At
  <2>4. ASSUME NEW p \in Objs, NEW r \in Objs, Running(p), Running(r),
               NEW k \in Ids, pool[k] = p, ident[p] = ident[r],
               NEW t \in Tasks, call[t].obj = r, call[t].pc \in HeldPlaces
        PROVE  p = r
    <3>1. HolderInv(t) /\ Fits(t) /\ k = ident[r]
      BY <2>1, <2>2, <2>4 DEF TrackInv, TypeInv
    <3>2. pool[ident[r]] # NoObj
      BY <2>4, <3>1, LimitsAssumption DEF Objs, NoObj
    <3>3. CASE call[t].pc \in {"start", "settle", "cleanup", "evict"}
      BY <2>4, <3>1, <3>2, <3>3 DEF HolderInv
    <3>4. CASE call[t].pc = "replace"
      <4>1. pool[call[t].sid] = r /\ call[t].sid \in Ids
        BY <2>4, <3>1, <3>4 DEF HolderInv, Fits, GetPlaces
      <4>2. ident[r] = call[t].sid
        BY <2>2, <4>1
      <4> QED BY <2>4, <3>1, <4>1, <4>2
    <3>5. CASE call[t].pc = "stop"
      BY <2>4, <3>1, <3>2, <3>5 DEF HolderInv
    <3> QED BY <2>4, <3>3, <3>4, <3>5 DEF HeldPlaces
  <2>5. CASE (\E k \in Ids : pool[k] = o) /\ (\E k \in Ids : pool[k] = q)
    BY <2>2, <2>5
  <2>6. CASE ~(\E k \in Ids : pool[k] = o) /\ ~(\E k \in Ids : pool[k] = q)
    BY <2>1, <2>3, <2>6 DEF Tracked
  <2>7. CASE (\E k \in Ids : pool[k] = o) /\ ~(\E k \in Ids : pool[k] = q)
    BY <2>1, <2>3, <2>4, <2>7 DEF Tracked
  <2>8. CASE ~(\E k \in Ids : pool[k] = o) /\ (\E k \in Ids : pool[k] = q)
    BY <2>1, <2>3, <2>4, <2>8 DEF Tracked
  <2> QED BY <2>5, <2>6, <2>7, <2>8
<1> QED BY <1>1, PoolInvariant, PTL
================================================================================
