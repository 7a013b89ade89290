-------------------------- MODULE PreAuthGateProofs --------------------------
(***************************************************************************)
(* Proofs about PreAuthGate for any set of sources, any address list, any  *)
(* table size and any rate: the type invariant, the bound on the table,    *)
(* the address list, and that the gate is the unbounded limiter RateLimit  *)
(* as long as a forgotten bucket would have been full.                     *)
(***************************************************************************)
EXTENDS PreAuthGate, FiniteSetTheorems, TLAPS

-----------------------------------------------------------------------------
(* Arithmetic and the table *)

\* What is earned in k units is a natural number, and grows with k.
LEMMA Earned ==
    ASSUME NEW k \in Nat, NEW j \in Nat, j <= k
    PROVE  /\ k * Rate \in Nat /\ j * Rate \in Nat
           /\ j * Rate <= k * Rate
           /\ (k + 1) * Rate = k * Rate + Rate
<1> DEFINE d == k - j
<1>1. Rate \in Nat BY RateAssumption
<1>2. d \in Nat /\ k = j + d OBVIOUS
<1>3. d * Rate \in Nat /\ k * Rate \in Nat /\ j * Rate \in Nat BY <1>1, <1>2
<1>4. k * Rate = j * Rate + d * Rate BY <1>1, <1>2
<1>5. (k + 1) * Rate = k * Rate + Rate BY <1>1
<1> HIDE DEF d
<1> QED BY <1>3, <1>4, <1>5

LEMMA BucketType ==
    ASSUME TypeOK, NEW s \in Sources, buckets[s] # None
    PROVE  /\ buckets[s] \in Bucket
           /\ buckets[s].tokens \in 0..Burst /\ buckets[s].tokens \in Nat
           /\ now - buckets[s].last \in Nat
           /\ now \in Nat /\ buckets[s].last \in Nat
BY RateAssumption, TimeAssumption DEF TypeOK, Bucket

LEMMA AvailableType ==
    ASSUME TypeOK, NEW s \in Sources, buckets[s] # None
    PROVE  Available(buckets[s]) \in 0..Burst
<1> DEFINE e == (now - buckets[s].last) * Rate
<1>1. e \in Nat
      BY BucketType, Earned
<1> HIDE DEF e
<1> QED BY <1>1, BucketType, RateAssumption DEF Available, Least, e

\* Making room removes whole buckets and changes none.
LEMMA RoomType ==
    ASSUME TypeOK, NEW s \in Sources
    PROVE  /\ MakeRoom(s) \in [Sources -> Bucket \cup {None}]
           /\ \A r \in Sources : MakeRoom(s)[r] \in {buckets[r], None}
           /\ buckets[s] # None => MakeRoom(s) = buckets
BY DEF TypeOK, MakeRoom, Pruned

LEMMA RefilledType ==
    ASSUME TypeOK, NEW s \in Sources
    PROVE  /\ Refilled(MakeRoom(s), s) \in Bucket
           /\ Refilled(MakeRoom(s), s).last = now
           /\ Refilled(MakeRoom(s), s).tokens \in 0..Burst
<1> DEFINE b == MakeRoom(s)
<1>1. now \in 0..MaxTime /\ Burst \in 0..Burst
      BY RateAssumption DEF TypeOK
<1>2. CASE b[s] = None
      BY <1>1, <1>2 DEF Refilled, Bucket
<1>3. CASE b[s] # None
      <2>1. b[s] = buckets[s] /\ buckets[s] # None
            BY <1>3, RoomType
      <2>2. Available(b[s]) \in 0..Burst
            BY <2>1, AvailableType
      <2>3. Refilled(b, s) = [tokens |-> Available(b[s]), last |-> now]
            BY <1>3 DEF Refilled
      <2> QED BY <2>2, <2>3, <1>1 DEF Bucket
<1> QED BY <1>2, <1>3

-----------------------------------------------------------------------------
(* Types *)

LEMMA TypeInit == Init => TypeOK
BY TimeAssumption, NoneAssumption DEF Init, TypeOK, NoAnswer

\* What a check that reaches the limiter leaves in the table.
LEMMA SpendType ==
    ASSUME TypeOK, NEW s \in Sources, NEW b \in Bucket, b.last = now,
           buckets' = [MakeRoom(s) EXCEPT ![s] = b]
    PROVE  /\ buckets' \in [Sources -> Bucket \cup {None}]
           /\ \A r \in Sources : buckets'[r] # None => buckets'[r].last <= now
<1>1. MakeRoom(s) \in [Sources -> Bucket \cup {None}]
      BY RoomType
<1>2. now \in Nat BY DEF TypeOK
<1>3. ASSUME NEW r \in Sources, buckets'[r] # None
      PROVE  buckets'[r].last <= now
      <2>1. CASE r = s BY <2>1, <1>1, <1>2
      <2>2. CASE r # s
            <3>1. buckets'[r] = MakeRoom(s)[r] BY <2>2, <1>1
            <3>2. buckets'[r] = buckets[r] BY <3>1, <1>3, RoomType
            <3> QED BY <3>2, <1>3 DEF TypeOK
      <2> QED BY <2>1, <2>2
<1> QED BY <1>1, <1>3

LEMMA CheckType == ASSUME TypeOK, NEW s \in Sources, Check(s) PROVE TypeOK'
<1>1. now' = now
      BY DEF Check, DropAcl, DropOversize, DropTableFull, DropRate, Charge,
             Answer
<1>2. answer' \in [source : Sources, verdict : Verdicts]
      BY DEF Check, DropAcl, DropOversize, DropTableFull, DropRate, Charge,
             Answer, Verdicts
<1>3. /\ buckets' \in [Sources -> Bucket \cup {None}]
      /\ \A r \in Sources : buckets'[r] # None => buckets'[r].last <= now
      <2>1. CASE DropAcl(s) \/ DropOversize(s)
            BY <2>1 DEF DropAcl, DropOversize, TypeOK
      <2>2. CASE DropTableFull(s)
            <3>1. buckets' = MakeRoom(s) BY <2>2 DEF DropTableFull
            <3> QED BY <3>1, RoomType DEF TypeOK
      <2>3. CASE DropRate(s)
            BY <2>3, RefilledType, SpendType DEF DropRate
      <2>4. CASE Charge(s)
            <3> DEFINE b == Refilled(MakeRoom(s), s)
                       c == [b EXCEPT !.tokens = @ - Cost]
            <3>1. buckets' = [MakeRoom(s) EXCEPT ![s] = c] /\ b.tokens >= Cost
                  BY <2>4 DEF Charge
            <3>2. b \in Bucket /\ b.last = now /\ b.tokens \in 0..Burst
                  BY RefilledType
            <3> HIDE DEF b
            <3>3. b.tokens - Cost \in 0..Burst
                  BY <3>1, <3>2, RateAssumption
            <3>4. c \in Bucket /\ c.last = now
                  BY <3>2, <3>3 DEF Bucket
            <3> QED BY <3>1, <3>4, SpendType
      <2> QED BY <2>1, <2>2, <2>3, <2>4 DEF Check
<1> QED BY <1>1, <1>2, <1>3 DEF TypeOK

LEMMA TypeNext == TypeOK /\ [Next]_vars => TypeOK'
<1> SUFFICES ASSUME TypeOK, [Next]_vars PROVE TypeOK' OBVIOUS
<1>1. CASE Prune
      BY <1>1 DEF Prune, Pruned, TypeOK, NoAnswer
<1>2. CASE Tick
      <2>1. now' \in 0..MaxTime /\ now' >= now
            BY <1>2, TimeAssumption DEF Tick, TypeOK
      <2>2. \A s \in Sources : buckets[s] # None => buckets[s].last <= now'
            BY <2>1, BucketType DEF TypeOK
      <2> QED BY <1>2, <2>1, <2>2 DEF Tick, TypeOK, NoAnswer
<1>3. ASSUME NEW s \in Sources, Check(s) PROVE TypeOK'
      BY <1>3, CheckType
<1>4. CASE UNCHANGED vars
      BY <1>4 DEF vars, TypeOK
<1> QED BY <1>1, <1>2, <1>3, <1>4 DEF Next

\* TypeOK holds in every reachable state, for all constants.
THEOREM TypeCorrect == Spec => []TypeOK
<1>1. Init => TypeOK BY TypeInit
<1>2. TypeOK /\ [Next]_vars => TypeOK' BY TypeNext
<1> QED BY <1>1, <1>2, PTL DEF Spec

-----------------------------------------------------------------------------
(* The ceiling of the table *)

LEMMA FewerTracked ==
    ASSUME NEW b, NEW c, TrackedIn(c) \subseteq TrackedIn(b)
    PROVE  /\ IsFiniteSet(TrackedIn(c)) /\ Cardinality(TrackedIn(c)) \in Nat
           /\ Cardinality(TrackedIn(c)) <= Cardinality(TrackedIn(b))
<1>1. IsFiniteSet(TrackedIn(b))
      BY SourcesAssumption, FS_Subset DEF TrackedIn
<1>2. /\ IsFiniteSet(TrackedIn(c))
      /\ Cardinality(TrackedIn(c)) <= Cardinality(TrackedIn(b))
      <2> DEFINE B == TrackedIn(b)
                 C == TrackedIn(c)
      <2>1. C \in SUBSET B /\ IsFiniteSet(B) BY <1>1
      <2> HIDE DEF B, C
      <2>2. IsFiniteSet(C) /\ Cardinality(C) <= Cardinality(B)
            BY <2>1, FS_Subset
      <2> QED BY <2>2 DEF B, C
<1>3. Cardinality(TrackedIn(c)) \in Nat
      <2> DEFINE C == TrackedIn(c)
      <2> HIDE DEF C
      <2>1. IsFiniteSet(C) => Cardinality(C) \in Nat BY FS_CardinalityType
      <2> QED BY <2>1, <1>2 DEF C
<1> QED BY <1>2, <1>3

\* Giving s a bucket adds at most s, and only when there was room.
LEMMA SpendBounded ==
    ASSUME TypeOK, TableBounded, NEW s \in Sources, NEW b \in Bucket,
           ~NoRoom(s, MakeRoom(s)),
           buckets' = [MakeRoom(s) EXCEPT ![s] = b]
    PROVE  TableBounded'
<1> DEFINE m == MakeRoom(s)
<1>1. m \in [Sources -> Bucket \cup {None}] BY RoomType
<1>2. TrackedIn(m) \subseteq TrackedIn(buckets) BY RoomType DEF TrackedIn
<1>3. /\ IsFiniteSet(TrackedIn(m)) /\ Cardinality(TrackedIn(m)) \in Nat
      /\ Cardinality(TrackedIn(m)) <= Cardinality(TrackedIn(buckets))
      BY <1>2, FewerTracked
<1>4. Cardinality(TrackedIn(buckets)) \in Nat /\ MaxTracked \in Nat
      BY FewerTracked, RateAssumption
<1>5. TrackedIn(buckets') = TrackedIn(m) \cup {s}
      BY <1>1, NoneAssumption DEF TrackedIn
<1>6. CASE s \in TrackedIn(m)
      <2>1. TrackedIn(buckets') = TrackedIn(m) BY <1>5, <1>6
      <2> QED BY <2>1, <1>3, <1>4 DEF TableBounded
<1>7. CASE s \notin TrackedIn(m)
      <2>1. Cardinality(TrackedIn(m)) < MaxTracked
            BY <1>7, <1>3, <1>4 DEF NoRoom, TrackedIn
      <2>2. Cardinality(TrackedIn(m) \cup {s}) = Cardinality(TrackedIn(m)) + 1
            BY <1>3, <1>7, FS_AddElement
      <2>3. Cardinality(TrackedIn(buckets')) = Cardinality(TrackedIn(m)) + 1
            BY <1>5, <2>2
      <2>4. Cardinality(TrackedIn(buckets')) <= MaxTracked
            <3> HIDE DEF m
            <3> QED BY <2>1, <2>3, <1>3, <1>4
      <2> QED BY <2>4 DEF TableBounded
<1> QED BY <1>6, <1>7

\* A step that adds no bucket keeps the bound.
LEMMA ShrinkBounded ==
    ASSUME TableBounded, TrackedIn(buckets') \subseteq TrackedIn(buckets)
    PROVE  TableBounded'
<1>1. /\ Cardinality(TrackedIn(buckets')) \in Nat
      /\ Cardinality(TrackedIn(buckets)) \in Nat
      /\ Cardinality(TrackedIn(buckets')) <= Cardinality(TrackedIn(buckets))
      BY FewerTracked
<1> QED BY <1>1, RateAssumption DEF TableBounded

LEMMA BoundedNext ==
    TypeOK /\ TableBounded /\ [Next]_vars => TableBounded'
<1> SUFFICES ASSUME TypeOK, TableBounded, [Next]_vars PROVE TableBounded'
    OBVIOUS
<1>1. CASE Prune
      <2>1. TrackedIn(buckets') \subseteq TrackedIn(buckets)
            BY <1>1 DEF Prune, Pruned, TrackedIn
      <2> QED BY <2>1, ShrinkBounded
<1>2. CASE Tick \/ UNCHANGED vars
      BY <1>2 DEF Tick, vars, TableBounded
<1>3. ASSUME NEW s \in Sources, Check(s) PROVE TableBounded'
      <2>1. CASE DropAcl(s) \/ DropOversize(s)
            BY <2>1 DEF DropAcl, DropOversize, TableBounded
      <2>2. CASE DropTableFull(s)
            <3>1. TrackedIn(buckets') \subseteq TrackedIn(buckets)
                  BY <2>2, RoomType DEF DropTableFull, TrackedIn
            <3> QED BY <3>1, ShrinkBounded
      <2>3. CASE DropRate(s)
            BY <2>3, RefilledType, SpendBounded DEF DropRate
      <2>4. CASE Charge(s)
            <3> DEFINE b == Refilled(MakeRoom(s), s)
                       c == [b EXCEPT !.tokens = @ - Cost]
            <3>1. buckets' = [MakeRoom(s) EXCEPT ![s] = c] /\ b.tokens >= Cost
                  BY <2>4 DEF Charge
            <3>2. b \in Bucket /\ b.tokens \in 0..Burst
                  BY RefilledType
            <3> HIDE DEF b
            <3>3. b.tokens - Cost \in 0..Burst BY <3>1, <3>2, RateAssumption
            <3>4. c \in Bucket BY <3>2, <3>3 DEF Bucket
            <3>5. ~NoRoom(s, MakeRoom(s)) BY <2>4 DEF Charge
            <3> QED BY <3>1, <3>4, <3>5, SpendBounded
      <2> QED BY <1>3, <2>1, <2>2, <2>3, <2>4 DEF Check
<1> QED BY <1>1, <1>2, <1>3 DEF Next

\* The table never holds more than MaxTracked buckets, whatever arrives.
THEOREM FloodBounded == Spec => []TableBounded
<1>1. Init => TableBounded
      <2> SUFFICES ASSUME Init PROVE TableBounded OBVIOUS
      <2>1. TrackedIn(buckets) = {} BY DEF Init, TrackedIn
      <2> QED BY <2>1, FS_EmptySet, RateAssumption DEF TableBounded
<1>2. TypeOK /\ TableBounded /\ [Next]_vars => TableBounded'
      BY BoundedNext
<1> QED BY <1>1, <1>2, TypeCorrect, PTL DEF Spec

-----------------------------------------------------------------------------
(* The address list and the known sources *)

\* What a check can do to the table and to the answer.
LEMMA CheckEffect ==
    ASSUME TypeOK, NEW s \in Sources, Check(s)
    PROVE  /\ now' = now
           /\ answer'.source = s /\ answer' = [source |-> s, verdict |-> answer'.verdict]
           /\ ~Allowed(s) => answer'.verdict \in {"acl"} /\ buckets' = buckets
           /\ \A r \in Sources \ {s} :
                 buckets'[r] \in {buckets[r], MakeRoom(s)[r]}
           /\ answer'.verdict = "source_table_full"
                 => NoRoom(s, MakeRoom(s)) /\ buckets' = MakeRoom(s)
           /\ answer'.verdict # "source_table_full"
                 => buckets'[s] # None \/ buckets' = buckets
<1>1. CASE DropAcl(s) \/ DropOversize(s)
      BY <1>1 DEF DropAcl, DropOversize, Answer
<1>2. CASE DropTableFull(s)
      BY <1>2 DEF DropTableFull, Answer
<1>3. ASSUME NEW b, b # None, buckets' = [MakeRoom(s) EXCEPT ![s] = b]
      PROVE  /\ buckets'[s] # None
             /\ \A r \in Sources \ {s} : buckets'[r] = MakeRoom(s)[r]
      BY <1>3, RoomType
<1>4. CASE DropRate(s)
      <2>1. Refilled(MakeRoom(s), s) # None
            BY RefilledType, NoneAssumption
      <2> QED BY <1>4, <2>1, <1>3 DEF DropRate, Answer
<1>5. CASE Charge(s)
      <2> DEFINE b == Refilled(MakeRoom(s), s)
                 c == [b EXCEPT !.tokens = @ - Cost]
      <2>1. b \in Bucket /\ b.tokens \in 0..Burst BY RefilledType
      <2>2. buckets' = [MakeRoom(s) EXCEPT ![s] = c] /\ b.tokens >= Cost
            BY <1>5 DEF Charge
      <2> HIDE DEF b
      <2>3. b.tokens - Cost \in 0..Burst BY <2>1, <2>2, RateAssumption
      <2>4. c \in Bucket BY <2>1, <2>3 DEF Bucket
      <2>5. c # None BY <2>4, NoneAssumption
      <2>6. /\ buckets'[s] # None
            /\ \A r \in Sources \ {s} : buckets'[r] = MakeRoom(s)[r]
            BY <2>2, <2>5, <1>3
      <2> QED BY <1>5, <2>6 DEF Charge, Answer
<1> QED BY <1>1, <1>2, <1>4, <1>5 DEF Check

LEMMA SourceNext ==
    TypeOK /\ OutsidersLeaveNoTrace /\ [Next]_vars => OutsidersLeaveNoTrace'
<1> SUFFICES ASSUME TypeOK, OutsidersLeaveNoTrace, [Next]_vars,
                    NEW r \in Sources \ (Loopback \cup UNION Networks)
             PROVE  /\ buckets'[r] = None
                    /\ answer'.source = r => answer'.verdict = "acl"
    BY DEF OutsidersLeaveNoTrace
<1>1. buckets[r] = None BY DEF OutsidersLeaveNoTrace
<1>2. CASE Prune \/ Tick
      BY <1>1, <1>2, NoneAssumption DEF Prune, Pruned, Tick, NoAnswer
<1>3. ASSUME NEW s \in Sources, Check(s)
      PROVE  /\ buckets'[r] = None
             /\ answer'.source = r => answer'.verdict = "acl"
      <2>1. ~Allowed(r) BY DEF Allowed
      <2>2. MakeRoom(s)[r] = None BY <1>1, RoomType
      <2>3. CASE r = s BY <2>1, <2>3, <1>1, <1>3, CheckEffect
      <2>4. CASE r # s BY <2>2, <2>4, <1>1, <1>3, CheckEffect
      <2> QED BY <2>3, <2>4
<1>4. CASE UNCHANGED vars
      BY <1>4, <1>1 DEF vars, OutsidersLeaveNoTrace
<1> QED BY <1>2, <1>3, <1>4 DEF Next

\* A source outside loopback and every configured network never owns a bucket
\* and is never answered anything but "acl".
THEOREM OutsidersExcluded == Spec => []OutsidersLeaveNoTrace
<1>1. Init => OutsidersLeaveNoTrace
      BY NoneAssumption DEF Init, OutsidersLeaveNoTrace, NoAnswer
<1> QED BY <1>1, SourceNext, TypeCorrect, PTL DEF Spec

LEMMA KnownStep ==
    ASSUME TypeOK, Next, NEW s \in Active
    PROVE  /\ buckets'[s] # None
           /\ answer' # [source |-> s, verdict |-> "source_table_full"]
<1>1. /\ s \in Sources /\ buckets[s] # None /\ now - buckets[s].last <= Idle
      BY DEF Active, TrackedIn
<1>2. Pruned(buckets)[s] = buckets[s]
      BY <1>1, BucketType, RateAssumption DEF Pruned
<1>3. CASE Prune \/ Tick
      BY <1>1, <1>2, <1>3, NoneAssumption DEF Prune, Tick, NoAnswer
<1>4. ASSUME NEW r \in Sources, Check(r)
      PROVE  /\ buckets'[s] # None
             /\ answer' # [source |-> s, verdict |-> "source_table_full"]
      <2>1. MakeRoom(r)[s] = buckets[s]
            BY <1>2 DEF MakeRoom
      <2>2. CASE s = r
            <3>1. ~NoRoom(s, MakeRoom(s))
                  BY <2>1, <2>2, <1>1 DEF NoRoom
            <3>2. answer'.verdict # "source_table_full"
                  BY <3>1, <2>2, <1>4, CheckEffect
            <3>3. buckets'[s] # None
                  BY <3>2, <2>2, <1>4, <1>1, CheckEffect
            <3> QED BY <3>2, <3>3
      <2>3. CASE s # r
            <3>1. buckets'[s] = buckets[s]
                  BY <2>1, <2>3, <1>1, <1>4, CheckEffect
            <3>2. answer'.source = r BY <1>4, CheckEffect
            <3> QED BY <3>1, <3>2, <2>3, <1>1
      <2> QED BY <2>2, <2>3
<1> QED BY <1>3, <1>4 DEF Next

\* A source heard from recently keeps its bucket and is never turned away for
\* lack of room, whoever else fills the table.
THEOREM KnownSourceSafe == Spec => KnownSourceKept
<1>1. TypeOK /\ [Next]_vars =>
          [\A s \in Active :
              /\ buckets'[s] # None
              /\ answer' # [source |-> s, verdict |-> "source_table_full"]]_vars
      BY KnownStep
<1> QED BY <1>1, TypeCorrect, PTL DEF Spec, KnownSourceKept

\* After the prune the table holds the sources heard from recently, no others.
LEMMA PrunedIsActive ==
    ASSUME TypeOK PROVE TrackedIn(Pruned(buckets)) = Active
<1>1. ASSUME NEW r \in Sources
      PROVE  r \in TrackedIn(Pruned(buckets)) <=> r \in Active
      BY BucketType, RateAssumption DEF TrackedIn, Pruned, Active
<1> QED BY <1>1 DEF TrackedIn, Active

\* The step that answers "source_table_full" is a check of that source, which
\* found the table full a second time, after the prune.
LEMMA TurnedAwayStep ==
    ASSUME TypeOK, Next, NEW s \in Sources,
           answer' = [source |-> s, verdict |-> "source_table_full"]
    PROVE  buckets[s] = None /\ Cardinality(Active) >= MaxTracked
<1>1. ~Prune /\ ~Tick
      BY NoneAssumption DEF Prune, Tick, NoAnswer
<1>2. PICK r \in Sources : Check(r)
      BY <1>1 DEF Next
<1>3. r = s
      BY <1>2, CheckEffect
<1>4. NoRoom(s, MakeRoom(s))
      BY <1>2, <1>3, CheckEffect
<1>5. buckets[s] = None
      BY <1>4, RoomType DEF NoRoom
<1>6. Cardinality(TrackedIn(MakeRoom(s))) >= MaxTracked
      BY <1>4 DEF NoRoom
<1>7. MakeRoom(s) = Pruned(buckets)
      BY <1>5, <1>6 DEF MakeRoom
<1> QED BY <1>5, <1>6, <1>7, PrunedIsActive

\* Whoever is turned away for lack of room is new, and MaxTracked others were
\* heard from in the last Idle units: a table full of quiet sources is pruned
\* and looked at again before anyone is refused.
THEOREM QuietMakesRoom == Spec => TurnedAwayOnlyWhenBusy
<1>1. TypeOK /\ [Next]_vars =>
          [\A s \in Sources :
              answer' = [source |-> s, verdict |-> "source_table_full"]
                  => /\ buckets[s] = None
                     /\ Cardinality(Active) >= MaxTracked]_vars
      BY TurnedAwayStep
<1> QED BY <1>1, TypeCorrect, PTL DEF Spec, TurnedAwayOnlyWhenBusy

-----------------------------------------------------------------------------
(* The gate implements the limiter that never forgets *)

LevelIn(b) == [s \in Sources |-> IF b[s] = None THEN Burst
                                 ELSE Available(b[s])]

\* A bucket idle for longer than Idle is full.
LEMMA IdleIsFull ==
    ASSUME TypeOK, RefillAssumption,
           NEW s \in Sources, buckets[s] # None, now - buckets[s].last > Idle
    PROVE  Available(buckets[s]) = Burst
<1> DEFINE k == now - buckets[s].last
           t == buckets[s].tokens
           e == k * Rate
           r == Idle * Rate
<1>1. k \in Nat /\ Idle \in Nat /\ Idle <= k /\ t \in Nat
      BY BucketType, RateAssumption
<1>2. e \in Nat /\ r \in Nat /\ r <= e
      <2> HIDE DEF k, t
      <2> QED BY <1>1, Earned
<1>3. r >= Burst BY RateAssumption DEF RefillAssumption
<1>4. Available(buckets[s]) = Least(Burst, t + e) BY DEF Available
<1>5. t + e >= Burst
      <2> HIDE DEF t, e, r
      <2> QED BY <1>1, <1>2, <1>3, RateAssumption
<1>6. t + e \in Nat
      <2> HIDE DEF t, e
      <2> QED BY <1>1, <1>2
<1> HIDE DEF t, e
<1> QED BY <1>4, <1>5, <1>6, RateAssumption DEF Least

\* Pruning changes no level.
LEMMA PruneKeepsLevel ==
    ASSUME TypeOK, RefillAssumption
    PROVE  LevelIn(Pruned(buckets)) = Level
<1>1. ASSUME NEW s \in Sources
      PROVE  LevelIn(Pruned(buckets))[s] = Level[s]
      <2>1. CASE buckets[s] # None /\ now - buckets[s].last > Idle
            BY <2>1, IdleIsFull DEF LevelIn, Level, Pruned
      <2>2. CASE ~(buckets[s] # None /\ now - buckets[s].last > Idle)
            BY <2>2 DEF LevelIn, Level, Pruned
      <2> QED BY <2>1, <2>2
<1> QED BY <1>1 DEF LevelIn, Level

LEMMA RoomKeepsLevel ==
    ASSUME TypeOK, RefillAssumption, NEW s \in Sources
    PROVE  LevelIn(MakeRoom(s)) = Level
BY PruneKeepsLevel DEF MakeRoom, LevelIn, Level

\* What the limiter sees in the bucket it refilled is the level of the source.
LEMMA RefilledIsLevel ==
    ASSUME TypeOK, RefillAssumption, NEW s \in Sources
    PROVE  Refilled(MakeRoom(s), s).tokens = Level[s]
<1>1. Level[s] = LevelIn(MakeRoom(s))[s] BY RoomKeepsLevel
<1> QED BY <1>1 DEF LevelIn, Refilled

\* A bucket written now is worth its tokens.
LEMMA FreshLevel ==
    ASSUME TypeOK, NEW b \in Bucket, b.last = now
    PROVE  Available(b) = b.tokens
<1>1. now \in Nat /\ Rate \in Nat BY RateAssumption DEF TypeOK
<1>2. (now - b.last) * Rate = 0 BY <1>1
<1>3. b.tokens \in 0..Burst /\ Burst \in Nat BY RateAssumption DEF Bucket
<1>4. Available(b) = Least(Burst, b.tokens + 0) BY <1>2 DEF Available
<1> QED BY <1>3, <1>4 DEF Least

\* Writing the bucket b of s sets the level of s and no other.
LEMMA SpendLevel ==
    ASSUME TypeOK, RefillAssumption, NEW s \in Sources,
           NEW b \in Bucket, b.last = now, now' = now,
           buckets' = [MakeRoom(s) EXCEPT ![s] = b]
    PROVE  Level' = [Level EXCEPT ![s] = b.tokens]
<1>1. MakeRoom(s) \in [Sources -> Bucket \cup {None}] BY RoomType
<1>2. Level' = LevelIn(buckets')
      BY DEF Level, LevelIn, Available
<1>3. ASSUME NEW r \in Sources, r # s
      PROVE  LevelIn(buckets')[r] = Level[r]
      <2>1. buckets'[r] = MakeRoom(s)[r] BY <1>1, <1>3
      <2>2. LevelIn(buckets')[r] = LevelIn(MakeRoom(s))[r]
            BY <2>1 DEF LevelIn
      <2> QED BY <2>2, RoomKeepsLevel
<1>4. LevelIn(buckets')[s] = b.tokens
      <2>1. buckets'[s] = b /\ b # None BY <1>1, NoneAssumption
      <2> QED BY <2>1, FreshLevel DEF LevelIn
<1>5. /\ LevelIn(buckets') = [r \in Sources |-> LevelIn(buckets')[r]]
      /\ Level = [r \in Sources |-> Level[r]]
      BY DEF LevelIn, Level
<1> DEFINE new == LevelIn(buckets')
<1> HIDE DEF new
<1> QED BY <1>2, <1>3, <1>4, <1>5 DEF new

LEMMA TickLevel ==
    ASSUME TypeOK, Tick
    PROVE  Level' = [s \in Sources |-> RL!Least(Burst, Level[s] + Rate)]
<1>1. now' = now + 1 /\ buckets' = buckets BY DEF Tick
<1>2. ASSUME NEW s \in Sources
      PROVE  Level'[s] = RL!Least(Burst, Level[s] + Rate)
      <2>1. CASE buckets[s] = None
            BY <2>1, <1>1, RateAssumption DEF Level, RL!Least
      <2>2. CASE buckets[s] # None
            <3> DEFINE k == now - buckets[s].last
                       t == buckets[s].tokens
                       e == k * Rate
            <3>1. k \in Nat /\ t \in Nat /\ now \in Nat
                  /\ buckets[s].last \in Nat
                  BY <2>2, BucketType
            <3>2. now' - buckets[s].last = k + 1 BY <1>1, <3>1
            <3>3. e \in Nat /\ (k + 1) * Rate = e + Rate
                  <4> HIDE DEF k
                  <4> QED BY <3>1, Earned
            <3>4. Level[s] = Least(Burst, t + e)
                  BY <2>2 DEF Level, Available
            <3>5. Level'[s] = Least(Burst, t + (e + Rate))
                  BY <2>2, <1>1, <3>2, <3>3 DEF Level, Available
            <3> HIDE DEF t, e
            <3>6. Rate \in Nat /\ Burst \in Nat BY RateAssumption
            <3> QED BY <3>1, <3>3, <3>4, <3>5, <3>6 DEF Least, RL!Least
      <2> QED BY <2>1, <2>2
<1>3. Level' = [s \in Sources |-> Level'[s]] BY DEF Level
<1> QED BY <1>2, <1>3

LEMMA CheckRefines ==
    ASSUME TypeOK, RefillAssumption, NEW s \in Sources, Check(s)
    PROVE  RL!Admit(s) \/ RL!Refuse(s) \/ RL!TurnAway(s)
<1>1. now' = now BY CheckEffect
<1>2. CASE DropAcl(s) \/ DropOversize(s)
      <2>1. Level' = Level
            BY <1>1, <1>2 DEF DropAcl, DropOversize, Level, Available
      <2> QED BY <1>2, <2>1 DEF DropAcl, DropOversize, Answer, RL!TurnAway,
                               RL!Unmetered
<1>3. CASE DropTableFull(s)
      <2>1. buckets' = MakeRoom(s) BY <1>3 DEF DropTableFull
      <2>2. Level' = LevelIn(MakeRoom(s))
            BY <2>1, <1>1 DEF Level, LevelIn, Available
      <2>3. Level' = Level BY <2>2, RoomKeepsLevel
      <2> QED BY <1>3, <2>3 DEF DropTableFull, Answer, RL!TurnAway,
                               RL!Unmetered
<1>4. CASE DropRate(s)
      <2> DEFINE b == Refilled(MakeRoom(s), s)
      <2>1. b \in Bucket /\ b.last = now BY RefilledType
      <2>2. b.tokens = Level[s] BY RefilledIsLevel
      <2>3. buckets' = [MakeRoom(s) EXCEPT ![s] = b] /\ b.tokens < Cost
            BY <1>4 DEF DropRate
      <2> HIDE DEF b
      <2>4. Level' = [Level EXCEPT ![s] = b.tokens]
            BY <2>1, <2>3, <1>1, SpendLevel
      <2>5. Level' = Level BY <2>2, <2>4 DEF Level
      <2> QED BY <1>4, <2>2, <2>3, <2>5 DEF DropRate, Answer, RL!Refuse
<1>5. CASE Charge(s)
      <2> DEFINE b == Refilled(MakeRoom(s), s)
                 c == [b EXCEPT !.tokens = @ - Cost]
      <2>1. b \in Bucket /\ b.last = now /\ b.tokens \in 0..Burst
            BY RefilledType
      <2>2. b.tokens = Level[s] BY RefilledIsLevel
      <2>3. buckets' = [MakeRoom(s) EXCEPT ![s] = c] /\ b.tokens >= Cost
            BY <1>5 DEF Charge
      <2> HIDE DEF b
      <2>4. b.tokens - Cost \in 0..Burst BY <2>1, <2>3, RateAssumption
      <2>5. c \in Bucket /\ c.last = now /\ c.tokens = b.tokens - Cost
            BY <2>1, <2>4 DEF Bucket
      <2>6. Level' = [Level EXCEPT ![s] = c.tokens]
            <3> HIDE DEF c
            <3> QED BY <2>3, <2>5, <1>1, SpendLevel
      <2>7. Level' = [Level EXCEPT ![s] = @ - Cost]
            BY <2>2, <2>5, <2>6
      <2>8. \E v \in RL!Charged : answer' = [source |-> s, verdict |-> v]
            BY <1>5 DEF Charge, Answer, RL!Charged
      <2> QED BY <2>2, <2>3, <2>7, <2>8 DEF RL!Admit
<1> QED BY <1>2, <1>3, <1>4, <1>5 DEF Check

LEMMA StepRefines ==
    ASSUME TypeOK, RefillAssumption, [Next]_vars
    PROVE  [RL!Next]_(RL!vars)
<1>1. CASE Prune
      <2>1. now' = now /\ answer' = RL!NoAnswer /\ buckets' = Pruned(buckets)
            BY <1>1 DEF Prune, NoAnswer, RL!NoAnswer
      <2>2. Level' = LevelIn(Pruned(buckets))
            BY <2>1 DEF Level, LevelIn, Available
      <2> QED BY <2>1, <2>2, PruneKeepsLevel DEF RL!Rest, RL!Next
<1>2. CASE Tick
      BY <1>2, TickLevel DEF Tick, RL!Tick, RL!Next, NoAnswer, RL!NoAnswer
<1>3. ASSUME NEW s \in Sources, Check(s) PROVE RL!Next
      BY <1>3, CheckRefines DEF RL!Next
<1>4. CASE UNCHANGED vars
      BY <1>4 DEF vars, RL!vars, Level, Available
<1> QED BY <1>1, <1>2, <1>3, <1>4 DEF Next

\* Whatever the other sources do, each source is admitted and refused as by a
\* limiter that keeps its bucket for ever, provided Idle refills a bucket.
THEOREM RateLimitedCorrect ==
    ASSUME RefillAssumption PROVE Spec => RateLimited
<1>1. Init => RL!Init
      BY DEF Init, Level, RL!Init, NoAnswer, RL!NoAnswer
<1>2. TypeOK /\ [Next]_vars => [RL!Next]_(RL!vars)
      BY StepRefines
<1> QED BY <1>1, <1>2, TypeCorrect, PTL DEF Spec, RL!Spec, RateLimited
==============================================================================
