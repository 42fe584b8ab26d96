---------------------------- MODULE UpstreamProofs ----------------------------
(***************************************************************************)
(* Proofs about Upstream, for any workers, costs, capacities and bounds:   *)
(* type correctness, the budget of a window, that one sleep is enough, and *)
(* that a probe ends with a row for every provider.                        *)
(***************************************************************************)
EXTENDS Upstream, SequenceTheorems, TLAPS

USE UpstreamAssumption DEF Callers

\* A bucket holds no more than its capacity, and a request fits in.
LEMMA LevelIsBounded ==
    ASSUME TypeOK, NEW b \in Callers
    PROVE  /\ Level(b) \in 0 .. Capacity
           /\ Level(b) >= tokens[b]
           /\ BucketOf(b) \in Callers
  BY DEF TypeOK, Level, BucketOf

LEMMA Updated ==
    ASSUME NEW f \in [Callers -> 0 .. Capacity], NEW b \in Callers, NEW x \in 0 .. Capacity
    PROVE  [f EXCEPT ![b] = x] \in [Callers -> 0 .. Capacity]
  OBVIOUS

-----------------------------------------------------------------------------
(***************************************************************************)
(* Types.                                                                  *)
(***************************************************************************)
LEMMA InitTyped == Init => TypeOK
  BY DEF Init, TypeOK

LEMMA TakeTyped == ASSUME TypeOK, NEW c \in Callers, Take(c) PROVE TypeOK'
  <1> DEFINE b == BucketOf(c)
  <1>1. b \in Callers /\ Level(b) \in 0 .. Capacity /\ Level(b) >= Cost
    BY LevelIsBounded DEF Take, Enough
  <1>2. Level(b) - Cost \in 0 .. Capacity
    BY <1>1
  <1>3. tokens' = [tokens EXCEPT ![b] = Level(b) - Cost] /\ age' = [age EXCEPT ![b] = 0]
    BY DEF Take
  <1> HIDE DEF b
  <1>4. tokens' \in [Callers -> 0 .. Capacity] /\ age' \in [Callers -> 0 .. Capacity]
    <2>1. 0 \in 0 .. Capacity /\ tokens \in [Callers -> 0 .. Capacity] /\ age \in [Callers -> 0 .. Capacity]
      BY DEF TypeOK
    <2> QED BY <1>1, <1>2, <1>3, <2>1, Updated
  <1>5. spent' \in Nat
    BY DEF Take, TypeOK
  <1>6. at' \in [Callers -> {"idle", "take", "sleep", "http"}]
    BY DEF Take, TypeOK
  <1> QED BY <1>4, <1>5, <1>6 DEF Take, TypeOK

LEMMA FallShortTyped == ASSUME TypeOK, NEW c \in Callers, FallShort(c) PROVE TypeOK'
  <1> DEFINE b == BucketOf(c)
  <1>1. b \in Callers /\ Level(b) \in 0 .. Capacity /\ Level(b) < Cost
    BY LevelIsBounded DEF FallShort, Enough
  <1>2. Delay(b) \in 0 .. Cost
    BY <1>1 DEF Delay
  <1>3. /\ tokens' = [tokens EXCEPT ![b] = Level(b)] /\ age' = [age EXCEPT ![b] = 0]
        /\ timer' = [timer EXCEPT ![c] = Delay(b)]
    BY DEF FallShort
  <1> HIDE DEF b
  <1>4. tokens' \in [Callers -> 0 .. Capacity] /\ age' \in [Callers -> 0 .. Capacity]
    <2>1. 0 \in 0 .. Capacity /\ tokens \in [Callers -> 0 .. Capacity] /\ age \in [Callers -> 0 .. Capacity]
      BY DEF TypeOK
    <2> QED BY <1>1, <1>3, <2>1, Updated
  <1>5. timer' \in [Callers -> 0 .. Cost]
    BY <1>2, <1>3 DEF TypeOK
  <1>6. at' \in [Callers -> {"idle", "take", "sleep", "http"}]
    BY DEF FallShort, TypeOK
  <1> QED BY <1>4, <1>5, <1>6 DEF FallShort, TypeOK, window

LEMMA TickTyped == ASSUME TypeOK, Tick PROVE TypeOK'
  <1>1. age' \in [Callers -> 0 .. Capacity] /\ timer' \in [Callers -> 0 .. Cost]
    BY DEF Tick, TypeOK
  <1>2. watched' \in Callers \cup {None} /\ spent' \in Nat /\ elapsed' \in Nat
    BY DEF Tick, TypeOK, Unwatch
  <1> QED BY <1>1, <1>2 DEF Tick, TypeOK

LEMMA EndTyped == ASSUME TypeOK, NEW c \in Callers, End(c), rows' \in Nat PROVE TypeOK'
  <1>1. tokens' \in [Callers -> 0 .. Capacity] /\ age' \in [Callers -> 0 .. Capacity]
    <2>1. 0 \in 0 .. Capacity /\ Capacity \in 0 .. Capacity /\ tokens \in [Callers -> 0 .. Capacity] /\ age \in [Callers -> 0 .. Capacity]
      BY DEF TypeOK
    <2> QED BY <2>1, Updated DEF End, bucket
  <1>2. watched' \in Callers \cup {None} /\ spent' \in Nat /\ elapsed' \in Nat
    <2>1. Unwatch \/ UNCHANGED window
      BY DEF End
    <2>2. CASE Unwatch
      BY <2>2 DEF Unwatch
    <2>3. CASE UNCHANGED window
      BY <2>3 DEF TypeOK, window
    <2> QED BY <2>1, <2>2, <2>3
  <1>3. /\ at' \in [Callers -> {"idle", "take", "sleep", "http"}]
        /\ job' \in [Callers -> {"none", "search", "probe", "render"}]
        /\ todo' \in [Callers -> Nat]
    BY DEF End, TypeOK
  <1> QED BY <1>1, <1>2, <1>3 DEF End, TypeOK

LEMMA GoOnTyped == ASSUME TypeOK, NEW c \in Callers, GoOn(c), rows' \in Nat PROVE TypeOK'
  <1>1. CASE todo[c] <= 1 /\ End(c)
    BY <1>1, EndTyped
  <1>2. CASE /\ todo[c] > 1
             /\ at' = [at EXCEPT ![c] = "take"]
             /\ todo' = [todo EXCEPT ![c] = @ - 1]
             /\ UNCHANGED <<shared, bucket, job, timer, queue, window>>
    <2>1. todo' \in [Callers -> Nat]
      <3>1. todo \in [Callers -> Nat] /\ todo[c] \in Nat
        BY DEF TypeOK
      <3>2. todo[c] > 1 => todo[c] - 1 \in Nat
        BY <3>1
      <3>3. todo[c] > 1 /\ todo' = [todo EXCEPT ![c] = todo[c] - 1]
        BY <1>2
      <3> QED BY <3>1, <3>2, <3>3
    <2>2. at' \in [Callers -> {"idle", "take", "sleep", "http"}]
      BY <1>2 DEF TypeOK
    <2> QED BY <1>2, <2>1, <2>2 DEF TypeOK, bucket, window
  <1> QED BY <1>1, <1>2 DEF GoOn

LEMMA BeginTyped ==
    ASSUME TypeOK, NEW c \in Callers, NEW n \in Nat, rows' \in Nat, queue' \in Seq(Kind),
           NEW kind \in {"search", "probe", "render"}, Begin(c, kind, n)
    PROVE  TypeOK'
  BY DEF Begin, TypeOK, bucket, window

LEMMA NextTyped == TypeOK /\ [Next]_vars => TypeOK'
  <1> SUFFICES ASSUME TypeOK, [Next]_vars PROVE TypeOK'
    OBVIOUS
  <1>1. CASE Tick
    BY <1>1, TickTyped
  <1>2. CASE Arrive
    BY <1>2 DEF Arrive, TypeOK, bucket, caller, window
  <1>3. CASE Serve
    <2>1. queue # <<>> /\ queue' = Tail(queue) /\ queue' \in Seq(Kind)
      <3>1. queue # <<>> /\ queue' = Tail(queue)
        BY <1>3 DEF Serve, Index, Search, Probe
      <3>2. Tail(queue) \in Seq(Kind)
        BY <3>1, HeadTailProperties DEF TypeOK
      <3> QED BY <3>1, <3>2
    <2>2. CASE Index
      BY <2>1, <2>2 DEF Index, TypeOK, bucket, caller, window
    <2>3. CASE Search
      BY <2>1, <2>3, BeginTyped DEF Search, TypeOK
    <2>4. CASE Probe
      BY <2>1, <2>4, BeginTyped DEF Probe, TypeOK
    <2> QED BY <1>3, <2>2, <2>3, <2>4 DEF Serve
  <1>4. CASE Probed
    <2>1. GoOn(Loop) /\ rows' \in Nat
      BY <1>4 DEF Probed, NextProvider, TypeOK
    <2> QED BY <2>1, GoOnTyped
  <1>5. ASSUME NEW w \in Workers, Render(w) PROVE TypeOK'
    <2>1. PICK n \in 1 .. MaxGets : Begin(w, "render", n)
      BY <1>5 DEF Render
    <2>2. n \in Nat /\ rows' \in Nat /\ queue' \in Seq(Kind)
      BY <1>5, <2>1 DEF Render, TypeOK
    <2> QED BY <2>1, <2>2, BeginTyped
  <1>6. ASSUME NEW c \in Callers, Step(c) PROVE TypeOK'
    <2>1. CASE Take(c)
      BY <2>1, TakeTyped
    <2>2. CASE FallShort(c)
      BY <2>2, FallShortTyped
    <2>3. CASE Wake(c)
      BY <2>3 DEF Wake, TypeOK, bucket, window
    <2>4. CASE Answered(c)
      BY <2>4, GoOnTyped DEF Answered, TypeOK
    <2>5. CASE Raises(c)
      BY <2>5, EndTyped DEF Raises, TypeOK
    <2> QED BY <1>6, <2>1, <2>2, <2>3, <2>4, <2>5 DEF Step
  <1>7. ASSUME NEW b \in Callers, Watch(b) PROVE TypeOK'
    BY <1>7 DEF Watch, TypeOK, bucket, caller
  <1>8. CASE UNCHANGED vars
    BY <1>8 DEF vars, bucket, caller, window, TypeOK
  <1> QED BY <1>1, <1>2, <1>3, <1>4, <1>5, <1>6, <1>7, <1>8 DEF Next

\* Every variable of the callers and their buckets keeps its type: the lock of
\* take leaves no bucket overdrawn (ratelimit.py:49-53).
THEOREM TypeCorrect == Spec => []TypeOK
  BY InitTyped, NextTyped, PTL DEF Spec

-----------------------------------------------------------------------------
(***************************************************************************)
(* What a step does to a bucket.                                           *)
(***************************************************************************)
LEMMA LevelAfterTake ==
    ASSUME TypeOK, NEW c \in Callers, Take(c), NEW b \in Callers
    PROVE  Level(b)' = IF b = BucketOf(c) THEN Level(b) - Cost ELSE Level(b)
  <1> DEFINE d == BucketOf(c)
  <1>1. d \in Callers /\ Level(d) \in 0 .. Capacity /\ Level(d) >= Cost
    BY LevelIsBounded DEF Take, Enough
  <1>2. tokens' = [tokens EXCEPT ![d] = Level(d) - Cost] /\ age' = [age EXCEPT ![d] = 0]
    BY DEF Take
  <1>3. tokens \in [Callers -> 0 .. Capacity] /\ age \in [Callers -> 0 .. Capacity]
    BY DEF TypeOK
  <1> HIDE DEF d
  <1>4. CASE b = d
    <2>1. tokens'[b] = Level(b) - Cost /\ age'[b] = 0
      BY <1>2, <1>3, <1>4
    <2>2. Level(b)' = Level(b) - Cost
      BY <1>1, <1>4, <2>1 DEF Level
    <2> QED BY <1>4, <2>2 DEF d
  <1>5. CASE b # d
    <2>1. tokens'[b] = tokens[b] /\ age'[b] = age[b]
      BY <1>2, <1>3, <1>5
    <2> QED BY <1>5, <2>1 DEF d, Level
  <1> QED BY <1>4, <1>5

LEMMA LevelAfterFallShort ==
    ASSUME TypeOK, NEW c \in Callers, FallShort(c), NEW b \in Callers
    PROVE  Level(b)' = Level(b)
  <1> DEFINE d == BucketOf(c)
  <1>1. d \in Callers /\ Level(d) \in 0 .. Capacity
    BY LevelIsBounded
  <1>2. tokens' = [tokens EXCEPT ![d] = Level(d)] /\ age' = [age EXCEPT ![d] = 0]
    BY DEF FallShort
  <1>3. tokens \in [Callers -> 0 .. Capacity] /\ age \in [Callers -> 0 .. Capacity]
    BY DEF TypeOK
  <1> HIDE DEF d
  <1>4. CASE b = d
    <2>1. tokens'[b] = Level(b) /\ age'[b] = 0
      BY <1>2, <1>3, <1>4
    <2> QED BY <1>1, <1>4, <2>1 DEF Level
  <1>5. CASE b # d
    <2>1. tokens'[b] = tokens[b] /\ age'[b] = age[b]
      BY <1>2, <1>3, <1>5
    <2> QED BY <2>1 DEF Level
  <1> QED BY <1>4, <1>5

LEMMA LevelAfterTick ==
    ASSUME TypeOK, Tick, NEW b \in Callers
    PROVE  /\ Level(b)' >= Level(b) /\ Level(b)' <= Level(b) + 1
           /\ InUse(b) => Level(b)' = IF Level(b) < Capacity THEN Level(b) + 1 ELSE Capacity
  <1>1. /\ tokens'[b] = tokens[b] /\ tokens[b] \in 0 .. Capacity /\ age[b] \in 0 .. Capacity
        /\ age'[b] = IF InUse(b) /\ age[b] < Capacity THEN age[b] + 1 ELSE age[b]
    BY DEF Tick, TypeOK
  <1>2. Capacity \in Nat
    OBVIOUS
  <1> QED BY <1>1, <1>2 DEF Level

\* The steps that leave the other buckets, and the time, alone.
LEMMA LevelAfterEnd ==
    ASSUME TypeOK, NEW c \in Callers, End(c), NEW b \in Callers, shared \/ b # c
    PROVE  Level(b)' = Level(b)
  BY DEF End, TypeOK, Level, bucket

-----------------------------------------------------------------------------
(***************************************************************************)
(* The budget.                                                             *)
(***************************************************************************)
\* What was granted since the window opened, and what is left, is no more than
\* what a full bucket and the time since make up.
BudgetInv ==
    IF watched = None THEN spent = 0 /\ elapsed = 0
    ELSE spent + Level(watched) <= Capacity + elapsed

LEMMA EndKeepsBudget ==
    ASSUME TypeOK, BudgetInv, NEW c \in Callers, End(c)
    PROVE  BudgetInv'
  <1>1. CASE ~shared /\ watched = c
    BY <1>1 DEF End, BudgetInv, Unwatch
  <1>2. CASE shared \/ watched # c
    <2>1. UNCHANGED window
      BY <1>2 DEF End
    <2>2. CASE watched = None
      BY <2>1, <2>2 DEF BudgetInv, window
    <2>3. CASE watched # None
      <3>1. watched \in Callers
        BY <2>3 DEF TypeOK
      <3>2. Level(watched)' = Level(watched)
        <4>1. Level(watched') = Level(watched)
          BY <2>1 DEF window
        <4>2. \A b \in Callers : shared \/ b # c => Level(b)' = Level(b)
          BY LevelAfterEnd
        <4> QED BY <1>2, <2>1, <3>1, <4>1, <4>2 DEF Level, window
      <3> QED BY <2>1, <2>3, <3>2 DEF BudgetInv, window
    <2> QED BY <2>2, <2>3
  <1> QED BY <1>1, <1>2

LEMMA IdleKeepsBudget ==
    ASSUME BudgetInv, UNCHANGED <<bucket, window>>
    PROVE  BudgetInv'
  BY DEF BudgetInv, bucket, window, Level

LEMMA GoOnKeepsBudget ==
    ASSUME TypeOK, BudgetInv, NEW c \in Callers, GoOn(c)
    PROVE  BudgetInv'
  BY EndKeepsBudget, IdleKeepsBudget DEF GoOn

LEMMA TakeKeepsBudget ==
    ASSUME TypeOK, BudgetInv, NEW c \in Callers, Take(c)
    PROVE  BudgetInv'
  <1>1. watched' = watched /\ elapsed' = elapsed
    BY DEF Take
  <1>2. spent' = IF watched = BucketOf(c) THEN spent + Cost ELSE spent
    BY DEF Take
  <1>3. BucketOf(c) \in Callers
    BY LevelIsBounded
  <1>4. CASE watched = None
    BY <1>1, <1>2, <1>3, <1>4 DEF BudgetInv
  <1>5. CASE watched # None
    <2>1. watched \in Callers
      BY <1>5 DEF TypeOK
    <2>2. \A b \in Callers : Level(b)' = IF b = BucketOf(c) THEN Level(b) - Cost ELSE Level(b)
      BY LevelAfterTake
    <2>3. Level(watched)' = IF watched = BucketOf(c) THEN Level(watched) - Cost ELSE Level(watched)
      BY <1>1, <2>1, <2>2 DEF Level
    <2>4. /\ spent \in Nat /\ elapsed \in Nat /\ Level(watched) \in Nat
          /\ spent + Level(watched) <= Capacity + elapsed
      BY <1>5, <2>1, LevelIsBounded DEF BudgetInv, TypeOK
    <2> HIDE DEF BucketOf
    <2>5. spent' + Level(watched)' <= Capacity + elapsed'
      BY <1>1, <1>2, <2>3, <2>4
    <2> QED BY <1>1, <1>5, <2>5 DEF BudgetInv
  <1> QED BY <1>4, <1>5

LEMMA FallShortKeepsBudget ==
    ASSUME TypeOK, BudgetInv, NEW c \in Callers, FallShort(c)
    PROVE  BudgetInv'
  <1>1. UNCHANGED window
    BY DEF FallShort
  <1>2. CASE watched = None
    BY <1>1, <1>2 DEF BudgetInv, window
  <1>3. CASE watched # None
    <2>1. watched \in Callers
      BY <1>3 DEF TypeOK
    <2>2. \A b \in Callers : Level(b)' = Level(b)
      BY LevelAfterFallShort
    <2>3. Level(watched)' = Level(watched)
      BY <1>1, <2>1, <2>2 DEF Level, window
    <2> QED BY <1>1, <1>3, <2>3 DEF BudgetInv, window
  <1> QED BY <1>2, <1>3

LEMMA TickKeepsBudget == ASSUME TypeOK, BudgetInv, Tick PROVE BudgetInv'
  <1>1. CASE watched = None \/ elapsed >= Horizon
    BY <1>1 DEF Tick, Unwatch, BudgetInv
  <1>2. CASE ~(watched = None \/ elapsed >= Horizon)
    <2>1. elapsed' = elapsed + 1 /\ watched' = watched /\ spent' = spent
      BY <1>2 DEF Tick
    <2>2. watched \in Callers
      BY <1>2 DEF TypeOK
    <2>3. \A b \in Callers : Level(b)' <= Level(b) + 1
      BY LevelAfterTick
    <2>4. Level(watched)' <= Level(watched) + 1
      BY <2>1, <2>2, <2>3 DEF Level
    <2>5. Level(watched) \in Nat /\ Level(watched)' \in Nat
      <3>1. TypeOK'
        BY TickTyped
      <3>2. watched' \in Callers /\ tokens' \in [Callers -> 0 .. Capacity] /\ age' \in [Callers -> 0 .. Capacity]
        BY <2>1, <2>2, <3>1 DEF TypeOK
      <3> QED BY <2>2, <3>2, LevelIsBounded DEF Level
    <2> QED BY <1>2, <2>1, <2>4, <2>5 DEF BudgetInv, TypeOK
  <1> QED BY <1>1, <1>2

LEMMA NextKeepsBudget == TypeOK /\ BudgetInv /\ [Next]_vars => BudgetInv'
  <1> SUFFICES ASSUME TypeOK, BudgetInv, [Next]_vars PROVE BudgetInv'
    OBVIOUS
  <1>1. CASE Tick
    BY <1>1, TickKeepsBudget
  <1>2. CASE Arrive \/ Serve
    BY <1>2, IdleKeepsBudget DEF Arrive, Serve, Index, Search, Probe, Begin
  <1>3. CASE Probed
    BY <1>3, GoOnKeepsBudget DEF Probed, NextProvider
  <1>4. ASSUME NEW w \in Workers, Render(w) PROVE BudgetInv'
    BY <1>4, IdleKeepsBudget DEF Render, Begin
  <1>5. ASSUME NEW c \in Callers, Step(c) PROVE BudgetInv'
    <2>1. CASE Take(c)
      BY <2>1, TakeKeepsBudget
    <2>2. CASE FallShort(c)
      BY <2>2, FallShortKeepsBudget
    <2>3. CASE Wake(c)
      BY <2>3, IdleKeepsBudget DEF Wake
    <2>4. CASE Answered(c) \/ Raises(c)
      BY <2>4, GoOnKeepsBudget, EndKeepsBudget DEF Answered, Raises
    <2> QED BY <1>5, <2>1, <2>2, <2>3, <2>4 DEF Step
  <1>6. ASSUME NEW b \in Callers, Watch(b) PROVE BudgetInv'
    <2>1. spent = 0 /\ elapsed = 0 /\ Level(b) \in 0 .. Capacity /\ b # None
      BY <1>6, LevelIsBounded DEF Watch, BudgetInv
    <2>2. watched' = b /\ spent' = 0 /\ elapsed' = 0 /\ Level(b)' = Level(b)
      BY <1>6, <2>1 DEF Watch, Level, bucket
    <2>3. Level(watched)' = Level(b)
      BY <2>2 DEF Level
    <2> QED BY <2>1, <2>2, <2>3 DEF BudgetInv
  <1>7. CASE UNCHANGED vars
    BY <1>7, IdleKeepsBudget DEF vars
  <1> QED BY <1>1, <1>2, <1>3, <1>4, <1>5, <1>6, <1>7 DEF Next

\* A bucket keeps its budget over every span of time, however many threads
\* share it, sleep for the same shortfall and wake late (ratelimit.py:43-57).
THEOREM BudgetHolds == Spec => []WindowBudget
  <1>1. Init => BudgetInv
    BY DEF Init, BudgetInv
  <1>2. TypeOK /\ BudgetInv => WindowBudget
    <2> SUFFICES ASSUME TypeOK, BudgetInv PROVE WindowBudget
      OBVIOUS
    <2>1. CASE watched = None
      BY <2>1 DEF BudgetInv, WindowBudget
    <2>2. CASE watched # None
      <3>1. Level(watched) \in Nat /\ spent \in Nat /\ elapsed \in Nat
        BY <2>2, LevelIsBounded DEF TypeOK
      <3> QED BY <2>2, <3>1 DEF BudgetInv, WindowBudget
    <2> QED BY <2>1, <2>2
  <1> QED BY <1>1, <1>2, NextKeepsBudget, TypeCorrect, PTL DEF Spec

-----------------------------------------------------------------------------
(***************************************************************************)
(* The sleep.                                                              *)
(***************************************************************************)
LEMMA NextKeepsSleep == TypeOK /\ SleepIsEnough /\ [Next]_vars => SleepIsEnough'
  <1> SUFFICES ASSUME TypeOK, SleepIsEnough, [Next]_vars,
                      NEW d \in Callers, ~shared', at'[d] = "sleep"
               PROVE  Level(d)' + timer'[d] >= Cost
    BY DEF SleepIsEnough
  <1>0. ~shared /\ Level(d) \in 0 .. Capacity /\ timer[d] \in 0 .. Cost
    BY LevelIsBounded DEF TypeOK, Next, vars, Tick, Arrive, Serve, Index, Search, Probe, Probed,
       NextProvider, GoOn, End, Render, Begin, Step, Take, FallShort, Wake, Answered, Raises, Watch
  <1>1. CASE Tick
    <2>1. at[d] = "sleep" /\ InUse(d) /\ timer'[d] = IF timer[d] > 0 THEN timer[d] - 1 ELSE 0
      BY <1>0, <1>1 DEF Tick, InUse
    <2>2. Level(d) + timer[d] >= Cost
      BY <1>0, <2>1 DEF SleepIsEnough
    <2>3. Level(d)' = IF Level(d) < Capacity THEN Level(d) + 1 ELSE Capacity
      BY <1>1, <2>1, LevelAfterTick
    <2> QED BY <1>0, <2>1, <2>2, <2>3
  <1>2. ASSUME at'[d] = at[d], timer' = timer, Level(d)' = Level(d)
        PROVE  Level(d)' + timer'[d] >= Cost
    BY <1>0, <1>2 DEF SleepIsEnough
  <1>3. ASSUME NEW c \in Callers, End(c) PROVE Level(d)' + timer'[d] >= Cost
    <2>1. c # d
      BY <1>3 DEF End, TypeOK
    <2> QED BY <1>2, <1>3, <2>1, LevelAfterEnd DEF End, TypeOK
  <1>4. ASSUME NEW c \in Callers, GoOn(c) PROVE Level(d)' + timer'[d] >= Cost
    <2>1. CASE End(c)
      BY <1>3, <2>1
    <2>2. CASE at' = [at EXCEPT ![c] = "take"] /\ UNCHANGED <<bucket, timer>>
      BY <1>2, <2>2 DEF TypeOK, bucket, Level
    <2> QED BY <1>4, <2>1, <2>2 DEF GoOn
  <1>5. ASSUME NEW c \in Callers, NEW k, NEW n, Begin(c, k, n) PROVE Level(d)' + timer'[d] >= Cost
    BY <1>2, <1>5 DEF Begin, TypeOK, bucket, Level
  <1>6. CASE Arrive \/ Serve
    BY <1>2, <1>5, <1>6 DEF Arrive, Serve, Index, Search, Probe, caller, bucket, Level
  <1>7. CASE Probed
    BY <1>4, <1>7 DEF Probed, NextProvider
  <1>8. ASSUME NEW w \in Workers, Render(w) PROVE Level(d)' + timer'[d] >= Cost
    BY <1>5, <1>8 DEF Render
  <1>9. ASSUME NEW c \in Callers, Step(c) PROVE Level(d)' + timer'[d] >= Cost
    <2>1. CASE Take(c)
      <3>1. c # d
        BY <2>1 DEF Take, TypeOK
      <3>2. BucketOf(c) = c
        BY <1>0 DEF BucketOf
      <3>3. Level(d)' = Level(d)
        BY <2>1, <3>1, <3>2, LevelAfterTake
      <3> QED BY <1>2, <2>1, <3>1, <3>3 DEF Take, TypeOK
    <2>2. CASE FallShort(c)
      <3>1. Level(d)' = Level(d)
        BY <2>2, LevelAfterFallShort
      <3>2. CASE c = d
        <4>1. timer'[d] = Cost - Level(d)
          BY <1>0, <2>2, <3>2 DEF FallShort, Delay, BucketOf, TypeOK
        <4> QED BY <1>0, <3>1, <4>1
      <3>3. CASE c # d
        <4>1. at'[d] = at[d] /\ timer'[d] = timer[d]
          BY <2>2, <3>3 DEF FallShort, TypeOK
        <4> QED BY <1>0, <3>1, <4>1 DEF SleepIsEnough
      <3> QED BY <3>2, <3>3
    <2>3. CASE Wake(c)
      BY <1>2, <2>3 DEF Wake, TypeOK, bucket, Level
    <2>4. CASE Answered(c) \/ Raises(c)
      BY <1>3, <1>4, <2>4 DEF Answered, Raises
    <2> QED BY <1>9, <2>1, <2>2, <2>3, <2>4 DEF Step
  <1>10. ASSUME NEW b \in Callers, Watch(b) PROVE Level(d)' + timer'[d] >= Cost
    BY <1>2, <1>10 DEF Watch, caller, bucket, Level
  <1>11. CASE UNCHANGED vars
    BY <1>2, <1>11 DEF vars, caller, bucket, Level
  <1> QED BY <1>1, <1>6, <1>7, <1>8, <1>9, <1>10, <1>11 DEF Next

\* With a bucket of its own no request sleeps twice (ratelimit.py:54-56).
THEOREM OneSleepIsEnough == Spec => []SleepIsEnough
  <1>1. Init => SleepIsEnough
    BY DEF Init, SleepIsEnough
  <1> QED BY <1>1, NextKeepsSleep, TypeCorrect, PTL DEF Spec
-----------------------------------------------------------------------------
(***************************************************************************)
(* The rows of a probe.                                                    *)
(***************************************************************************)
\* The rows a probe has and the requests it still has to make are its providers.
ProbeInv == job[Loop] = "probe" => /\ at[Loop] # "idle" /\ todo[Loop] >= 1
                                   /\ rows + todo[Loop] = Providers

ProbeIsDone == job[Loop] = "probe" /\ at'[Loop] = "idle" => rows' = Providers

\* A step that leaves the loop where it is in its probe.
LEMMA ProbeUntouched ==
    ASSUME TypeOK, ProbeInv, job'[Loop] = job[Loop], todo'[Loop] = todo[Loop],
           rows' = rows, at'[Loop] = "idle" => at[Loop] = "idle"
    PROVE  ProbeInv' /\ ProbeIsDone
  BY DEF ProbeInv, ProbeIsDone

\* A thread that makes or ends a request touches no other thread's.
LEMMA OwnRequest ==
    ASSUME TypeOK, NEW c \in Callers, c # Loop,
           \/ Take(c) \/ FallShort(c) \/ Wake(c) \/ GoOn(c) \/ End(c)
           \/ \E n \in Nat, kind \in {"search", "probe", "render"} : Begin(c, kind, n)
    PROVE  at'[Loop] = at[Loop] /\ job'[Loop] = job[Loop] /\ todo'[Loop] = todo[Loop]
  BY DEF Take, FallShort, Wake, GoOn, End, Begin, TypeOK, bucket

\* The loop answers one provider after the other, and counts each.
LEMMA ProbedCounts == ASSUME TypeOK, ProbeInv, Probed PROVE ProbeInv' /\ ProbeIsDone
  <1>1. /\ job[Loop] = "probe" /\ rows' = rows + 1 /\ GoOn(Loop)
        /\ rows \in Nat /\ todo[Loop] \in Nat /\ todo[Loop] >= 1
        /\ rows + todo[Loop] = Providers
    BY DEF Probed, NextProvider, ProbeInv, TypeOK
  <1>2. CASE todo[Loop] <= 1 /\ End(Loop)
    <2>1. job'[Loop] = "none"
      BY <1>2 DEF End, TypeOK
    <2>2. rows' = Providers
      BY <1>1, <1>2
    <2> QED BY <2>1, <2>2 DEF ProbeInv, ProbeIsDone
  <1>3. CASE ~(todo[Loop] <= 1 /\ End(Loop))
    <2>1. at'[Loop] = "take" /\ todo'[Loop] = todo[Loop] - 1 /\ todo[Loop] > 1
      BY <1>1, <1>3 DEF GoOn, TypeOK
    <2> QED BY <1>1, <2>1 DEF ProbeInv, ProbeIsDone
  <1> QED BY <1>2, <1>3

LEMMA NextKeepsProbe ==
    ASSUME TypeOK, ProbeInv, [Next]_vars PROVE ProbeInv' /\ ProbeIsDone
  <1>1. CASE Tick \/ Arrive \/ (\E b \in Callers : Watch(b)) \/ UNCHANGED vars
    <2>1. UNCHANGED <<at, job, todo, rows>>
      BY <1>1 DEF Tick, Arrive, Watch, vars, caller
    <2> QED BY <2>1, ProbeUntouched
  <1>2. CASE Serve
    <2>1. CASE Index
      BY <2>1, ProbeUntouched DEF Index, caller
    <2>2. CASE Search
      <3>1. job'[Loop] = "search" /\ at'[Loop] = "take"
        BY <2>2 DEF Search, Begin, TypeOK
      <3> QED BY <3>1 DEF ProbeInv, ProbeIsDone
    <2>3. CASE Probe
      <3>1. /\ job'[Loop] = "probe" /\ at'[Loop] = "take" /\ todo'[Loop] = Providers
            /\ rows' = 0
        BY <2>3 DEF Probe, Begin, TypeOK
      <3> QED BY <3>1 DEF ProbeInv, ProbeIsDone
    <2> QED BY <1>2, <2>1, <2>2, <2>3 DEF Serve
  <1>3. CASE Probed
    BY <1>3, ProbedCounts
  <1>4. ASSUME NEW w \in Workers, Render(w) PROVE ProbeInv' /\ ProbeIsDone
    <2>1. w # Loop /\ rows' = rows /\ \E n \in Nat : Begin(w, "render", n)
      BY <1>4 DEF Render
    <2> QED BY <2>1, OwnRequest, ProbeUntouched
  <1>5. ASSUME NEW c \in Callers, Step(c), c # Loop PROVE ProbeInv' /\ ProbeIsDone
    <2>1. rows' = rows
      BY <1>5 DEF Step, Take, FallShort, Wake, Answered, Raises
    <2>2. Take(c) \/ FallShort(c) \/ Wake(c) \/ GoOn(c) \/ End(c)
      BY <1>5 DEF Step, Answered, Raises
    <2> QED BY <1>5, <2>1, <2>2, OwnRequest, ProbeUntouched
  <1>6. CASE Step(Loop)
    <2>1. CASE Take(Loop) \/ FallShort(Loop) \/ Wake(Loop)
      <3>1. UNCHANGED <<job, todo, rows>> /\ at'[Loop] # "idle"
        BY <2>1 DEF Take, FallShort, Wake, TypeOK
      <3> QED BY <3>1, ProbeUntouched
    <2>2. CASE Answered(Loop) \/ Raises(Loop)
      <3>1. job[Loop] # "probe" /\ (GoOn(Loop) \/ End(Loop))
        BY <2>2 DEF Answered, Raises
      <3>2. job'[Loop] # "probe"
        BY <3>1 DEF GoOn, End, TypeOK
      <3> QED BY <3>1, <3>2 DEF ProbeInv, ProbeIsDone
    <2> QED BY <1>6, <2>1, <2>2 DEF Step
  <1> QED BY <1>1, <1>2, <1>3, <1>4, <1>5, <1>6 DEF Next

\* A probe that ends has a row for every provider, for any number of them and
\* whatever failed (udl.py:303-320).
THEOREM ProbesEndWhole == Spec => ProbeEndsWhole
  <1>1. Init => ProbeInv
    BY DEF Init, ProbeInv
  <1>2. TypeOK /\ ProbeInv /\ [Next]_vars => ProbeInv' /\ ProbeIsDone
    BY NextKeepsProbe
  <1>3. ProbeIsDone => [job[Loop] = "probe" /\ at'[Loop] = "idle" => rows' = Providers]_vars
    BY DEF ProbeIsDone
  <1> QED BY <1>1, <1>2, <1>3, TypeCorrect, PTL DEF Spec, ProbeEndsWhole
=============================================================================
