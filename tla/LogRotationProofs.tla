-------------------------- MODULE LogRotationProofs ---------------------------
(***************************************************************************)
(* The theorems about the log and its rotation, for any number of writers, *)
(* files and lines.                                                        *)
(***************************************************************************)
EXTENDS LogRotation, FiniteSetTheorems, WellFoundedInduction, TLAPS

\* Those that found the log too long and have not yet done what follows.
Owing ==
    {w \in Writers : \/ pc[w] = "written" /\ slot[w] > LOG_MAX
                     \/ pc[w] \in {"look", "move", "truncate"}}

\* Each line over the limit has a writer that will rotate, or a fault that kept
\* one from it; an older file was the log once.
LengthInv ==
    /\ Len(Content(0)) <= LOG_MAX + Cardinality(Owing) + faults
    /\ \A n \in Slots \ {0} :
           Len(Content(n)) <= LOG_MAX + Cardinality(Writers) + faults

\* InOrder, and the last line is the highest.
OrderInv ==
    /\ \A n \in Slots : \A k \in DOMAIN Content(n) : Content(n)[k] <= line
    /\ InOrder

-----------------------------------------------------------------------------
(* Types *)

LEMMA SlotFacts == 0 \in Slots /\ Slots \subseteq Nat /\ LOG_KEEP \in Slots
  BY LogAssumption, SMT DEF Slots

LEMMA ContentType ==
  ASSUME TypeOK, NEW n \in Slots
  PROVE  Content(n) \in Seq(Nat) /\ Len(Content(n)) \in Nat
  <1>1. file[n] \in Seq(Nat) \cup {None}
    BY DEF TypeOK
  <1> QED
    BY <1>1 DEF Content

\* What a step of a rotation moves is a file.
LEMMA MovedType ==
  ASSUME TypeOK, NEW n \in Slots
  PROVE  Moved(n) \in [Slots -> Seq(Nat) \cup {None}]
  BY LogAssumption, SMT DEF TypeOK, Moved, Slots

\* Every action keeps the types.
LEMMA TypeStep == TypeOK /\ [Next]_vars => TypeOK'
  <1> SUFFICES ASSUME TypeOK, [Next]_vars PROVE TypeOK'
    OBVIOUS
  <1> USE SlotFacts, LogAssumption
  <1>1. ASSUME NEW w \in Writers, Open(w) PROVE TypeOK'
    <2>1. Content(0) \in Seq(Nat)
      BY ContentType
    <2> QED
      BY <1>1, <2>1 DEF Open, TypeOK
  <1>2. ASSUME NEW w \in Writers, Write(w) PROVE TypeOK'
    <2>1. Content(0) \in Seq(Nat) /\ Len(Content(0)) \in Nat
      BY ContentType
    <2>2. line + 1 \in Nat
      BY DEF TypeOK
    <2>3. Append(Content(0), line + 1) \in Seq(Nat) /\ Len(Content(0)) + 1 \in Nat
      BY <2>1, <2>2
    <2> QED
      BY <1>2, <2>2, <2>3 DEF Write, TypeOK
  <1>3. ASSUME NEW w \in Writers, Close(w) PROVE TypeOK'
    <2>1. CASE slot[w] > LOG_MAX
      BY <1>3, <2>1 DEF Close, TypeOK
    <2>2. CASE ~(slot[w] > LOG_MAX)
      BY <1>3, <2>2 DEF Close, TypeOK
    <2> QED
      BY <2>1, <2>2
  <1>4. ASSUME NEW w \in Writers, Look(w) PROVE TypeOK'
    <2>1. slot[w] \in Slots /\ slot[w] \in Nat
      BY <1>4 DEF Look, TypeOK
    <2>2. CASE slot[w] = 0 \/ file[slot[w]] # None
      BY <1>4, <2>1, <2>2 DEF Look, TypeOK
    <2>3. CASE ~(slot[w] = 0 \/ file[slot[w]] # None)
      <3>1. slot[w] - 1 \in Slots
        BY <2>1, <2>3, SMT DEF Slots
      <3> QED
        BY <1>4, <2>1, <2>3, <3>1 DEF Look, TypeOK
    <2> QED
      BY <2>2, <2>3
  <1>5. ASSUME NEW w \in Writers, Move(w) PROVE TypeOK'
    <2>1. slot[w] \in Slots
      BY <1>5 DEF Move, TypeOK
    <2>2. Moved(slot[w]) \in [Slots -> Seq(Nat) \cup {None}]
      BY <2>1, MovedType
    <2>3. CASE Movable(slot[w])
      <3>1. file' \in [Slots -> Seq(Nat) \cup {None}]
        BY <1>5, <2>2, <2>3 DEF Move
      <3>2. CASE slot[w] = 0
        BY <1>5, <2>3, <3>1, <3>2 DEF Move, TypeOK
      <3>3. CASE slot[w] # 0
        <4>1. slot[w] - 1 \in Slots
          BY <2>1, <3>3, SMT DEF Slots
        <4> QED
          BY <1>5, <2>3, <3>1, <3>3, <4>1 DEF Move, TypeOK
      <3> QED
        BY <3>2, <3>3
    <2>4. CASE ~Movable(slot[w])
      BY <1>5, <2>4 DEF Move, TypeOK
    <2> QED
      BY <2>3, <2>4
  <1>6. ASSUME NEW w \in Writers, Truncate(w) PROVE TypeOK'
    <2>1. line + 1 \in Nat /\ <<line + 1>> \in Seq(Nat) /\ faults + 1 \in Nat
      BY DEF TypeOK
    <2> QED
      BY <1>6, <2>1 DEF Truncate, TypeOK
  <1>7. ASSUME NEW w \in Writers, Crash(w) PROVE TypeOK'
    BY <1>7 DEF Crash, TypeOK
  <1>8. ASSUME NEW n \in Slots, Hold(n) PROVE TypeOK'
    BY <1>8 DEF Hold, TypeOK
  <1>9. CASE Release
    BY <1>9 DEF Release, TypeOK
  <1>10. CASE UNCHANGED vars
    BY <1>10 DEF vars, TypeOK
  <1> QED
    BY <1>1, <1>2, <1>3, <1>4, <1>5, <1>6, <1>7, <1>8, <1>9, <1>10 DEF Next

LEMMA TypeInit == Init => TypeOK
  BY SlotFacts, LogAssumption DEF Init, TypeOK

\* The variables of the log have their types in every reachable state.
THEOREM LogTypeCorrect == Spec => []TypeOK
  BY TypeInit, TypeStep, PTL DEF Spec

-----------------------------------------------------------------------------
(* The limit *)

LEMMA OwingFinite ==
  /\ IsFiniteSet(Owing) /\ Cardinality(Owing) \in Nat
  /\ Cardinality(Writers) \in Nat
  /\ Cardinality(Owing) <= Cardinality(Writers)
  <1>1. Owing \subseteq Writers /\ IsFiniteSet(Writers)
    BY LogAssumption DEF Owing
  <1>2. IsFiniteSet(Owing) /\ Cardinality(Owing) <= Cardinality(Writers)
    BY <1>1, FS_Subset
  <1>3. Cardinality(Owing) \in Nat /\ Cardinality(Writers) \in Nat
    BY <1>1, <1>2, FS_CardinalityType
  <1> QED
    BY <1>2, <1>3

\* A set that lacks at most w of another one.
LEMMA OneLess ==
  ASSUME NEW S, NEW T, NEW w, IsFiniteSet(S), IsFiniteSet(T), S \ {w} \subseteq T
  PROVE  /\ Cardinality(S) \in Nat /\ Cardinality(T) \in Nat
         /\ Cardinality(S) <= Cardinality(T) + 1
         /\ w \notin S \/ w \in T => Cardinality(S) <= Cardinality(T)
  <1>1. IsFiniteSet(T \cup {w}) /\ S \in SUBSET (T \cup {w})
    BY FS_AddElement
  <1>2. /\ Cardinality(S) \in Nat /\ Cardinality(T) \in Nat
        /\ Cardinality(T \cup {w}) \in Nat
    BY <1>1, FS_CardinalityType
  <1>3. Cardinality(T \cup {w}) <= Cardinality(T) + 1
    BY <1>2, FS_AddElement
  <1>4. Cardinality(S) <= Cardinality(T \cup {w})
    BY <1>1, FS_Subset
  <1>5. ASSUME w \notin S \/ w \in T PROVE Cardinality(S) <= Cardinality(T)
    <2>1. S \in SUBSET T
      BY <1>5
    <2> QED
      BY <2>1, FS_Subset
  <1> QED
    BY <1>2, <1>3, <1>4, <1>5

\* A step that leaves the lines and owes as much as before, or has a fault for
\* the one rotation it no longer owes.
LEMMA LengthKept ==
  ASSUME TypeOK, TypeOK', LengthInv, NEW w \in Writers,
         \A n \in Slots : Content(n)' = Content(n),
         Owing \ {w} \subseteq Owing',
         \/ faults' = faults /\ (w \notin Owing \/ w \in Owing')
         \/ faults' = faults + 1
  PROVE  LengthInv'
  <1>1. IsFiniteSet(Owing) /\ Cardinality(Writers) \in Nat
    BY OwingFinite
  <1>2. Owing' \in SUBSET Writers
    BY DEF Owing
  <1>3. IsFiniteSet(Owing')
    BY <1>2, LogAssumption, FS_Subset
  <1>4. /\ Cardinality(Owing) \in Nat /\ Cardinality(Owing') \in Nat
        /\ Cardinality(Owing) <= Cardinality(Owing') + 1
        /\ w \notin Owing \/ w \in Owing' =>
               Cardinality(Owing) <= Cardinality(Owing')
    BY <1>1, <1>3, OneLess
  <1>5. \A n \in Slots : Len(Content(n)) \in Nat
    BY ContentType
  <1>6. faults \in Nat /\ LOG_MAX \in Nat
    BY LogAssumption DEF TypeOK
  <1>7. Len(Content(0)') <= LOG_MAX + Cardinality(Owing') + faults'
    BY <1>4, <1>5, <1>6, SlotFacts DEF LengthInv
  <1>8. \A n \in Slots \ {0} :
            Len(Content(n)') <= LOG_MAX + Cardinality(Writers) + faults'
    BY <1>1, <1>5, <1>6 DEF LengthInv
  <1> QED
    BY <1>7, <1>8 DEF LengthInv

\* What each file holds after a rotation's move: the file it came to is empty,
\* the next one has its lines, the others are as they were.
LEMMA MovedContent ==
  ASSUME TypeOK, NEW n \in Slots, file' = Moved(n)
  PROVE  /\ Content(n)' = <<>>
         /\ \A m \in Slots \ {n} :
                Content(m)' = IF m = n + 1 THEN Content(n) ELSE Content(m)
  <1> USE SlotFacts, LogAssumption
  <1>1. file \in [Slots -> Seq(Nat) \cup {None}]
    BY DEF TypeOK
  <1>2. CASE n = LOG_KEEP
    <2>1. \A m \in Slots : m # n + 1
      BY <1>2, SMT DEF Slots
    <2>2. file' = [file EXCEPT ![n] = None]
      BY <1>2 DEF Moved
    <2> QED
      BY <1>1, <2>1, <2>2 DEF Content
  <1>3. CASE n # LOG_KEEP
    <2>1. n + 1 \in Slots /\ n + 1 # n
      BY <1>3, SMT DEF Slots
    <2>2. file' = [file EXCEPT ![n + 1] = file[n], ![n] = None]
      BY <1>3 DEF Moved
    <2>3. /\ file'[n] = None /\ file'[n + 1] = file[n]
          /\ \A m \in Slots \ {n, n + 1} : file'[m] = file[m]
      BY <1>1, <2>1, <2>2
    <2> QED
      BY <2>1, <2>3 DEF Content
  <1> QED
    BY <1>2, <1>3

\* What the log holds after a line was written, or after it was opened.
LEMMA WrittenContent ==
  ASSUME TypeOK, NEW c, file' = [file EXCEPT ![0] = c]
  PROVE  /\ Content(0)' = IF c = None THEN <<>> ELSE c
         /\ \A n \in Slots \ {0} : Content(n)' = Content(n)
  <1>1. /\ file'[0] = c
        /\ \A n \in Slots \ {0} : file'[n] = file[n]
    BY SlotFacts DEF TypeOK
  <1> QED
    BY <1>1 DEF Content

LEMMA OneLine ==
  ASSUME NEW s, NEW c, s = IF c = None THEN <<>> ELSE c,
         Len(c) = 1 /\ Len(<<>>) = 0
  PROVE  Len(s) = 1 \/ Len(s) = 0
  <1>1. CASE c = None
    BY <1>1
  <1>2. CASE c # None
    <2>1. s = c
      BY <1>2
    <2>2. Len(s) = 1
      BY <2>1
    <2> QED
      BY <2>2
  <1> QED
    BY <1>1, <1>2

LEMMA Room ==
  ASSUME NEW l, l = 1 \/ l = 0,
         NEW a \in Nat, a >= 1, NEW b \in Nat, NEW f \in Nat
  PROVE  l <= a + b + f
  OBVIOUS

\* Every action keeps the limit.
LEMMA LengthStep == TypeOK /\ TypeOK' /\ LengthInv /\ [Next]_vars => LengthInv'
  <1> SUFFICES ASSUME TypeOK, TypeOK', LengthInv, [Next]_vars PROVE LengthInv'
    OBVIOUS
  <1> USE SlotFacts
  <1>a. /\ LOG_MAX \in Nat /\ LOG_MAX >= 1 /\ faults \in Nat /\ faults' \in Nat
        /\ line \in Nat
    BY LogAssumption DEF TypeOK
  <1>b. Owing' \in SUBSET Writers /\ IsFiniteSet(Owing)
    BY OwingFinite DEF Owing
  <1>c. /\ IsFiniteSet(Owing') /\ Cardinality(Owing) \in Nat
        /\ Cardinality(Owing') \in Nat /\ Cardinality(Writers) \in Nat
        /\ Cardinality(Owing) <= Cardinality(Writers)
    BY <1>b, OwingFinite, LogAssumption, FS_Subset, FS_CardinalityType
  <1>d. \A n \in Slots : Len(Content(n)) \in Nat
    BY ContentType
  <1>1. ASSUME NEW w \in Writers, Open(w) PROVE LengthInv'
    <2>1. \A n \in Slots : Content(n)' = Content(n)
      BY <1>1, WrittenContent DEF Open, Content
    <2>2. Owing \ {w} \subseteq Owing' /\ w \notin Owing /\ faults' = faults
      BY <1>1 DEF Open, Owing, TypeOK
    <2> QED
      BY <2>1, <2>2, LengthKept
  <1>2. ASSUME NEW w \in Writers, Write(w) PROVE LengthInv'
    <2> DEFINE c == Append(Content(0), line + 1)
    <2>1. Content(0) \in Seq(Nat)
      BY ContentType
    <2>2. Len(c) = Len(Content(0)) + 1
      BY <2>1, <1>a
    <2>3. file' = [file EXCEPT ![0] = c] /\ faults' = faults
      BY <1>2 DEF Write
    <2>4. \A n \in Slots \ {0} : Content(n)' = Content(n)
      BY <2>3, WrittenContent
    <2>5. Len(Content(0)') <= Len(Content(0)) + 1
      <3>1. Content(0)' = IF c = None THEN <<>> ELSE c
        BY <2>3, WrittenContent
      <3>2. Len(<<>>) = 0
        OBVIOUS
      <3> QED
        BY <3>1, <3>2, <2>2, <1>d
    <2>6. Len(Content(0)') \in Nat
      <3>1. Content(0)' = IF c = None THEN <<>> ELSE c
        BY <2>3, WrittenContent
      <3>2. Len(<<>>) = 0
        OBVIOUS
      <3> QED
        BY <3>1, <3>2, <2>2, <1>d
    <2>7. Owing \subseteq Owing' /\ w \notin Owing
      BY <1>2 DEF Write, Owing, TypeOK
    <2>8. Cardinality(Owing) <= Cardinality(Owing')
      BY <2>7, <1>b, <1>c, OneLess
    <2>9. Len(Content(0)') <= LOG_MAX + Cardinality(Owing') + faults'
      <3>1. CASE Len(Content(0)) + 1 <= LOG_MAX
        BY <3>1, <2>5, <2>6, <1>a, <1>c, <1>d
      <3>2. CASE Len(Content(0)) + 1 > LOG_MAX
        <4>1. slot'[w] = Len(Content(0)) + 1 /\ pc'[w] = "written"
          BY <1>2 DEF Write, TypeOK
        <4>2. w \in Owing'
          BY <4>1, <3>2 DEF Owing
        <4>3. /\ w \in Owing' /\ Owing \in SUBSET (Owing' \ {w})
              /\ IsFiniteSet(Owing' \ {w})
              /\ Cardinality(Owing' \ {w}) = Cardinality(Owing') - 1
          BY <4>2, <2>7, <1>c, FS_RemoveElement
        <4>4. Cardinality(Owing) <= Cardinality(Owing') - 1
          BY <4>3, FS_Subset
        <4> QED
          BY <4>4, <2>3, <2>5, <2>6, <1>a, <1>c, <1>d DEF LengthInv
      <3> QED
        BY <3>1, <3>2, <1>a, <1>d
    <2> QED
      BY <2>3, <2>4, <2>9 DEF LengthInv
  <1>3. ASSUME NEW w \in Writers, Close(w) PROVE LengthInv'
    <2>1. \A n \in Slots : Content(n)' = Content(n)
      BY <1>3 DEF Close, Content
    <2>2. faults' = faults
      BY <1>3 DEF Close
    <2>3. CASE slot[w] > LOG_MAX
      <3>1. Owing \ {w} \subseteq Owing' /\ w \in Owing'
        BY <1>3, <2>3 DEF Close, Owing, TypeOK
      <3> QED
        BY <2>1, <2>2, <3>1, LengthKept
    <2>4. CASE ~(slot[w] > LOG_MAX)
      <3>1. Owing \ {w} \subseteq Owing' /\ w \notin Owing
        BY <1>3, <2>4 DEF Close, Owing, TypeOK
      <3> QED
        BY <2>1, <2>2, <3>1, LengthKept
    <2> QED
      BY <2>3, <2>4
  <1>4. ASSUME NEW w \in Writers, Look(w) PROVE LengthInv'
    <2>1. \A n \in Slots : Content(n)' = Content(n)
      BY <1>4 DEF Look, Content
    <2>2. faults' = faults
      BY <1>4 DEF Look
    <2>3. /\ \A v \in Writers \ {w} : pc'[v] = pc[v] /\ slot'[v] = slot[v]
          /\ pc'[w] \in {"look", "move"}
      BY <1>4 DEF Look, TypeOK
    <2>4. Owing \ {w} \subseteq Owing' /\ w \in Owing'
      BY <2>3 DEF Owing
    <2> QED
      BY <2>1, <2>2, <2>4, LengthKept
  <1>5. ASSUME NEW w \in Writers, Move(w) PROVE LengthInv'
    <2>1. slot[w] \in Slots /\ faults' = faults
      BY <1>5 DEF Move, TypeOK
    <2>2. CASE ~Movable(slot[w])
      <3>1. \A n \in Slots : Content(n)' = Content(n)
        BY <1>5, <2>2 DEF Move, Content
      <3>2. Owing \ {w} \subseteq Owing' /\ w \in Owing'
        BY <1>5, <2>2 DEF Move, Owing, TypeOK
      <3> QED
        BY <2>1, <3>1, <3>2, LengthKept
    <2>3. CASE Movable(slot[w])
      <3>1. PICK n \in Slots : n = slot[w]
        BY <2>1
      <3>2. file' = Moved(n)
        BY <1>5, <2>3, <3>1 DEF Move
      <3>3. /\ Content(n)' = <<>>
            /\ \A m \in Slots \ {n} :
                   Content(m)' = IF m = n + 1 THEN Content(n) ELSE Content(m)
        BY <3>2, MovedContent
      <3>4. \A m \in Slots :
                Len(Content(m)) <= LOG_MAX + Cardinality(Writers) + faults
        BY <1>a, <1>c, <1>d DEF LengthInv
      <3>5. Len(<<>>) = 0
        OBVIOUS
      <3>6. \A m \in Slots \ {0} :
                Len(Content(m)') <= LOG_MAX + Cardinality(Writers) + faults'
        BY <2>1, <3>3, <3>4, <3>5, <1>a, <1>c
      <3>7. Len(Content(0)') <= LOG_MAX + Cardinality(Owing') + faults'
        <4>1. CASE n = 0
          BY <4>1, <2>1, <3>3, <3>5, <1>a, <1>c
        <4>2. CASE n # 0
          <5>1. Content(0)' = Content(0)
            <6>1. 0 # n + 1
              BY SMT DEF Slots
            <6> QED
              BY <4>2, <3>3, <6>1
          <5>2. Owing \ {w} \subseteq Owing' /\ w \in Owing'
            BY <1>5, <2>3, <3>1, <4>2 DEF Move, Owing, TypeOK
          <5>3. Cardinality(Owing) <= Cardinality(Owing')
            BY <5>2, <1>b, <1>c, OneLess
          <5> QED
            BY <5>1, <5>3, <2>1, <1>a, <1>c, <1>d DEF LengthInv
        <4> QED
          BY <4>1, <4>2
      <3> QED
        BY <3>6, <3>7 DEF LengthInv
    <2> QED
      BY <2>2, <2>3
  <1>6. ASSUME NEW w \in Writers, Truncate(w) PROVE LengthInv'
    <2>1. CASE file' = [file EXCEPT ![0] = <<line + 1>>] /\ faults' = faults
      <3>1. \A n \in Slots \ {0} : Content(n)' = Content(n)
        BY <2>1, WrittenContent
      <3>2. Content(0)' = IF <<line + 1>> = None THEN <<>> ELSE <<line + 1>>
        BY <2>1, WrittenContent
      <3>3. Len(<<line + 1>>) = 1 /\ Len(<<>>) = 0
        BY <1>a
      <3>4. Len(Content(0)') <= LOG_MAX + Cardinality(Owing') + faults'
        <4>1. Len(Content(0)') = 1 \/ Len(Content(0)') = 0
          BY <3>2, <3>3, OneLine
        <4> QED
          BY <4>1, <1>a, <1>c, Room
      <3> QED
        BY <2>1, <3>1, <3>4 DEF LengthInv
    <2>2. CASE UNCHANGED file /\ faults' = faults + 1
      <3>1. \A n \in Slots : Content(n)' = Content(n)
        BY <2>2 DEF Content
      <3>2. Owing \ {w} \subseteq Owing'
        BY <1>6 DEF Truncate, Owing, TypeOK
      <3> QED
        BY <2>2, <3>1, <3>2, LengthKept
    <2> QED
      BY <1>6, <2>1, <2>2 DEF Truncate
  <1>7. ASSUME NEW w \in Writers, Crash(w) PROVE LengthInv'
    <2>1. \A n \in Slots : Content(n)' = Content(n)
      BY <1>7 DEF Crash, Content
    <2>2. Owing \ {w} \subseteq Owing' /\ faults' = faults + 1
      BY <1>7 DEF Crash, Owing, TypeOK
    <2> QED
      BY <2>1, <2>2, LengthKept
  <1>8. CASE UNCHANGED <<file, pc, slot, faults>>
    <2>1. \A n \in Slots : Content(n)' = Content(n)
      BY <1>8 DEF Content
    <2>2. Owing' = Owing
      BY <1>8 DEF Owing
    <2> QED
      BY <1>8, <2>1, <2>2 DEF LengthInv
  <1>9. (\E n \in Slots : Hold(n)) \/ Release \/ UNCHANGED vars
          => UNCHANGED <<file, pc, slot, faults>>
    BY DEF Hold, Release, vars
  <1> QED
    BY <1>1, <1>2, <1>3, <1>4, <1>5, <1>6, <1>7, <1>8, <1>9 DEF Next

LEMMA LengthInit == Init => LengthInv
  <1> SUFFICES ASSUME Init PROVE LengthInv
    OBVIOUS
  <1>1. \A n \in Slots : Content(n) = <<>>
    BY DEF Init, Content
  <1>2. Len(<<>>) = 0 /\ LOG_MAX \in Nat /\ faults = 0
    BY LogAssumption DEF Init
  <1> QED
    BY <1>1, <1>2, OwingFinite, SlotFacts DEF LengthInv

LEMMA LengthBounds == TypeOK /\ LengthInv => LogBounded
  <1> SUFFICES ASSUME TypeOK, LengthInv PROVE LogBounded
    OBVIOUS
  <1>1. LOG_MAX \in Nat /\ faults \in Nat
    BY LogAssumption DEF TypeOK
  <1>2. \A n \in Slots : Len(Content(n)) \in Nat
    BY ContentType
  <1> QED
    BY <1>1, <1>2, OwingFinite, SlotFacts DEF LengthInv, LogBounded

\* No file of the log ever outgrows its limit by more than a line for each
\* writer and fault, with any number of them rotating at once.
THEOREM LogIsBounded == Spec => []LogBounded
  <1>1. TypeOK /\ LengthInv /\ [Next]_vars => (TypeOK /\ LengthInv)'
    BY TypeStep, LengthStep
  <1> QED
    BY <1>1, TypeInit, LengthInit, LengthBounds, PTL DEF Spec

-----------------------------------------------------------------------------
(* The order of the lines *)

\* A step that leaves each file as it was or empties it.
LEMMA OrderKept ==
  ASSUME TypeOK, OrderInv, line' = line,
         \A n \in Slots : Content(n)' = Content(n) \/ Content(n)' = <<>>
  PROVE  OrderInv'
  <1>1. \A n \in Slots : \A k \in DOMAIN Content(n)' :
            k \in DOMAIN Content(n) /\ Content(n)'[k] = Content(n)[k]
    OBVIOUS
  <1> QED
    BY <1>1 DEF OrderInv, InOrder

\* A line that is written is the last one.
LEMMA OrderWritten ==
  ASSUME TypeOK, OrderInv, line' = line + 1,
         \A n \in Slots \ {0} : Content(n)' = Content(n),
         \/ Content(0)' = <<>>
         \/ Content(0)' = <<line + 1>>
         \/ Content(0)' = Append(Content(0), line + 1)
  PROVE  OrderInv'
  <1> USE SlotFacts
  <1>0. line \in Nat
    BY DEF TypeOK
  <1>1. \A n \in Slots : Content(n) \in Seq(Nat)
    BY ContentType
  <1>2. \A n \in Slots : \A k \in DOMAIN Content(n) :
            Content(n)[k] \in Nat /\ Content(n)[k] <= line
    BY <1>1 DEF OrderInv
  <1>3. \A k \in DOMAIN Content(0)' :
            \/ k \in DOMAIN Content(0) /\ Content(0)'[k] = Content(0)[k]
            \/ /\ Content(0)'[k] = line + 1
               /\ \A j \in DOMAIN Content(0)' :
                      /\ ~(k < j)
                      /\ j < k => /\ j \in DOMAIN Content(0)
                                  /\ Content(0)'[j] = Content(0)[j]
    <2>1. CASE Content(0)' = <<>>
      BY <2>1
    <2>2. CASE Content(0)' = <<line + 1>>
      <3>1. DOMAIN Content(0)' = {1} /\ Content(0)'[1] = line + 1
        BY <2>2
      <3> QED
        BY <3>1
    <2>3. CASE Content(0)' = Append(Content(0), line + 1)
      <3> DEFINE c == Content(0)
                 last == Len(Content(0)) + 1
      <3>1. c \in Seq(Nat) /\ Len(c) \in Nat
        BY <1>1
      <3>2. /\ DOMAIN c = 1..Len(c)
            /\ DOMAIN Append(c, line + 1) = 1..last
            /\ Append(c, line + 1)[last] = line + 1
            /\ \A j \in 1..Len(c) : Append(c, line + 1)[j] = c[j]
        BY <3>1, <1>0
      <3>3. \A j \in 1..last : j = last \/ (j < last /\ j \in 1..Len(c))
        BY <3>1
      <3>4. \A j \in 1..last : ~(last < j)
        BY <3>1
      <3> QED
        BY <2>3, <3>2, <3>3, <3>4
    <2> QED
      BY <2>1, <2>2, <2>3
  <1>4. ASSUME NEW n \in Slots, NEW k \in DOMAIN Content(n)'
        PROVE  Content(n)'[k] <= line'
    <2>1. CASE n = 0
      <3>1. CASE k \in DOMAIN Content(0) /\ Content(0)'[k] = Content(0)[k]
        BY <2>1, <3>1, <1>0, <1>2
      <3>2. CASE Content(0)'[k] = line + 1
        BY <2>1, <3>2, <1>0
      <3> QED
        BY <2>1, <3>1, <3>2, <1>3
    <2>2. CASE n # 0
      BY <2>2, <1>0, <1>2
    <2> QED
      BY <2>1, <2>2
  <1>5. ASSUME NEW m \in Slots, NEW n \in Slots,
               NEW j \in DOMAIN Content(m)', NEW k \in DOMAIN Content(n)',
               m > n \/ (m = n /\ j < k)
        PROVE  Content(m)'[j] < Content(n)'[k]
    <2>1. CASE m = 0
      <3>1. n = 0 /\ j < k
        BY <2>1, <1>5, SMT DEF Slots
      <3>2. j \in DOMAIN Content(0) /\ Content(0)'[j] = Content(0)[j]
        BY <2>1, <3>1, <1>3
      <3>3. CASE k \in DOMAIN Content(0) /\ Content(0)'[k] = Content(0)[k]
        BY <2>1, <3>1, <3>2, <3>3 DEF OrderInv, InOrder
      <3>4. CASE Content(0)'[k] = line + 1
        BY <2>1, <3>1, <3>2, <3>4, <1>0, <1>2
      <3> QED
        BY <3>1, <3>3, <3>4, <1>3
    <2>2. CASE m # 0
      <3>1. j \in DOMAIN Content(m) /\ Content(m)'[j] = Content(m)[j]
        BY <2>2
      <3>2. CASE n = 0
        <4>1. m > 0
          BY <2>2, SMT DEF Slots
        <4>2. CASE k \in DOMAIN Content(0) /\ Content(0)'[k] = Content(0)[k]
          BY <3>1, <3>2, <4>1, <4>2 DEF OrderInv, InOrder
        <4>3. CASE Content(0)'[k] = line + 1
          BY <3>1, <3>2, <4>3, <1>0, <1>2
        <4> QED
          BY <3>2, <4>2, <4>3, <1>3
      <3>3. CASE n # 0
        BY <3>1, <3>3, <1>5 DEF OrderInv, InOrder
      <3> QED
        BY <3>2, <3>3
    <2> QED
      BY <2>1, <2>2
  <1> QED
    BY <1>4, <1>5 DEF OrderInv, InOrder

\* A file that replaces the next older one takes its place in the order.
LEMMA OrderMoved ==
  ASSUME TypeOK, OrderInv, line' = line, NEW n \in Slots, file' = Moved(n)
  PROVE  OrderInv'
  <1> USE SlotFacts
  <1>1. /\ Content(n)' = <<>>
        /\ \A m \in Slots \ {n} :
               Content(m)' = IF m = n + 1 THEN Content(n) ELSE Content(m)
    BY MovedContent
  <1> DEFINE From(m) == IF m = n + 1 THEN n ELSE m
  <1>2. \A m \in Slots \ {n} : From(m) \in Slots /\ Content(m)' = Content(From(m))
    BY <1>1
  <1>3. \A m \in Slots : \A j \in DOMAIN Content(m)' : m # n
    BY <1>1
  <1>4. \A m, k \in Slots \ {n} : m > k => From(m) > From(k)
    BY SMT DEF Slots
  <1> HIDE DEF From
  <1>5. ASSUME NEW m \in Slots, NEW k \in Slots,
               NEW i \in DOMAIN Content(m)', NEW j \in DOMAIN Content(k)',
               m > k \/ (m = k /\ i < j)
        PROVE  Content(m)'[i] < Content(k)'[j]
    <2>1. m # n /\ k # n
      BY <1>3
    <2>2. /\ From(m) \in Slots /\ From(k) \in Slots
          /\ Content(m)' = Content(From(m)) /\ Content(k)' = Content(From(k))
      BY <1>2, <2>1
    <2>3. From(m) > From(k) \/ (From(m) = From(k) /\ i < j)
      BY <1>4, <1>5, <2>1
    <2> QED
      BY <2>2, <2>3 DEF OrderInv, InOrder
  <1>6. ASSUME NEW m \in Slots, NEW i \in DOMAIN Content(m)'
        PROVE  Content(m)'[i] <= line'
    <2>1. m # n
      BY <1>3
    <2>2. From(m) \in Slots /\ Content(m)' = Content(From(m))
      BY <1>2, <2>1
    <2> QED
      BY <2>2 DEF OrderInv, InOrder
  <1> QED
    BY <1>5, <1>6 DEF OrderInv, InOrder

\* Every action keeps the order.
LEMMA OrderStep == TypeOK /\ OrderInv /\ [Next]_vars => OrderInv'
  <1> SUFFICES ASSUME TypeOK, OrderInv, [Next]_vars PROVE OrderInv'
    OBVIOUS
  <1> USE SlotFacts
  <1>1. ASSUME UNCHANGED <<file, line>> PROVE OrderInv'
    <2>1. \A n \in Slots : Content(n)' = Content(n)
      BY <1>1 DEF Content
    <2> QED
      BY <1>1, <2>1, OrderKept
  <1>2. ASSUME NEW w \in Writers, Open(w) PROVE OrderInv'
    <2>1. /\ line' = line
          /\ \A n \in Slots : Content(n)' = Content(n)
      BY <1>2, WrittenContent DEF Open, Content
    <2> QED
      BY <2>1, OrderKept
  <1>3. ASSUME NEW w \in Writers, Write(w) PROVE OrderInv'
    <2>1. /\ line' = line + 1
          /\ file' = [file EXCEPT ![0] = Append(Content(0), line + 1)]
      BY <1>3 DEF Write
    <2>2. /\ \A n \in Slots \ {0} : Content(n)' = Content(n)
          /\ \/ Content(0)' = <<>>
             \/ Content(0)' = Append(Content(0), line + 1)
      BY <2>1, WrittenContent
    <2> QED
      BY <2>1, <2>2, OrderWritten
  <1>4. ASSUME NEW w \in Writers, Move(w) PROVE OrderInv'
    <2>1. slot[w] \in Slots /\ line' = line
      BY <1>4 DEF Move, TypeOK
    <2>2. CASE Movable(slot[w])
      <3>1. PICK n \in Slots : n = slot[w]
        BY <2>1
      <3>2. file' = Moved(n)
        BY <1>4, <2>2, <3>1 DEF Move
      <3> QED
        BY <2>1, <3>2, OrderMoved
    <2>3. CASE ~Movable(slot[w])
      BY <1>1, <1>4, <2>3 DEF Move
    <2> QED
      BY <2>2, <2>3
  <1>5. ASSUME NEW w \in Writers, Truncate(w) PROVE OrderInv'
    <2>1. CASE UNCHANGED <<file, line>>
      BY <1>1, <2>1
    <2>2. CASE /\ line' = line + 1
               /\ file' = [file EXCEPT ![0] = <<line + 1>>]
      <3>1. /\ \A n \in Slots \ {0} : Content(n)' = Content(n)
            /\ Content(0)' = <<>> \/ Content(0)' = <<line + 1>>
        BY <2>2, WrittenContent
      <3> QED
        BY <2>2, <3>1, OrderWritten
    <2> QED
      BY <1>5, <2>1, <2>2 DEF Truncate
  <1>6. ASSUME NEW w \in Writers, Close(w) \/ Look(w) \/ Crash(w) PROVE OrderInv'
    BY <1>1, <1>6 DEF Close, Look, Crash
  <1>7. (\E n \in Slots : Hold(n)) \/ Release \/ UNCHANGED vars
          => UNCHANGED <<file, line>>
    BY DEF Hold, Release, vars
  <1> QED
    BY <1>1, <1>2, <1>3, <1>4, <1>5, <1>6, <1>7 DEF Next

LEMMA OrderInit == Init => OrderInv
  <1> SUFFICES ASSUME Init PROVE OrderInv
    OBVIOUS
  <1>1. \A n \in Slots : Content(n) = <<>>
    BY DEF Init, Content
  <1> QED
    BY <1>1 DEF OrderInv, InOrder

-----------------------------------------------------------------------------
(* The lines that are kept *)

\* The lines a full file has at least, n times.
Width(n) == n * (LOG_MAX + 1)

\* A rotation has come past file n, and moved it.
Shifted(n) == \E w \in Rotating : slot[w] < n

\* While nothing went wrong, a rotation is alone, the log it is for is too long
\* and its next move replaces no file.
QuietInv ==
    ~trouble =>
        /\ \A w \in Writers : pc[w] # "truncate"
        /\ \A v, w \in Rotating : v = w
        /\ \A w \in Writers : pc[w] = "written" => slot[w] <= Len(Content(0))
        /\ \A w \in Rotating :
               /\ Len(Content(0)) > LOG_MAX
               /\ slot[w] < LOG_KEEP => file[slot[w] + 1] = None

\* ... and the lines of an older file are as old as the full files before it
\* make them, and older by the log while it has not been moved for it.
AgeInv ==
    ~trouble =>
        \A n \in Slots \ {0} : \A k \in DOMAIN Content(n) :
            Content(n)[k] + Width(n - 1)
                + (IF Shifted(n) THEN 0 ELSE Len(Content(0))) <= line

\* ... and only lines older than LOG_KEEP full files are gone, and than all
\* those that are there.
GoneInv ==
    ~trouble =>
        /\ Lines \subseteq 1..line
        /\ \A y \in (1..line) \ Lines :
               y + Width(LOG_KEEP) <= line /\ \A x \in Lines : y < x

LEMMA WidthFacts ==
  /\ Width(0) = 0
  /\ \A n \in Nat : Width(n) \in Nat /\ Width(n + 1) = Width(n) + (LOG_MAX + 1)
  <1>1. LOG_MAX + 1 \in Nat
    BY LogAssumption
  <1>2. ASSUME NEW n \in Nat, NEW m \in Nat
        PROVE  n * m \in Nat /\ (n + 1) * m = n * m + m /\ 0 * m = 0
    OBVIOUS
  <1> QED
    BY <1>1, <1>2 DEF Width

\* What trouble there was stays.
LEMMA TroubleStays == TypeOK /\ [Next]_vars /\ ~trouble' => ~trouble
  <1> SUFFICES ASSUME TypeOK, [Next]_vars, trouble PROVE trouble'
    OBVIOUS
  <1> QED
    BY DEF Next, Open, Write, Close, Look, Move, Truncate, Crash, Hold, Release,
           vars, TypeOK

\* A file is never None once it is one.
LEMMA FileHeld ==
  ASSUME TypeOK
  PROVE  /\ \A n \in Slots : Content(n) # None
         /\ line + 1 \in Nat
         /\ Append(Content(0), line + 1) \in Seq(Nat)
         /\ Append(Content(0), line + 1) # None
  <1>1. \A n \in Slots : Content(n) \in Seq(Nat)
    BY ContentType
  <1>2. line + 1 \in Nat
    BY DEF TypeOK
  <1>3. Append(Content(0), line + 1) \in Seq(Nat)
    BY <1>1, <1>2, SlotFacts
  <1> QED
    BY <1>1, <1>2, <1>3, NoneAssumption

\* Opening the log changes no lines.
LEMMA OpenedContent ==
  ASSUME TypeOK, NEW w \in Writers, Open(w)
  PROVE  /\ \A n \in Slots : Content(n)' = Content(n)
         /\ \A n \in Slots \ {0} : file'[n] = file[n]
  <1>1. file' = [file EXCEPT ![0] = Content(0)] /\ file'[0] = Content(0)
    BY SlotFacts DEF Open, TypeOK
  <1>2. Content(0)' = Content(0)
    BY <1>1, FileHeld, SlotFacts DEF Content
  <1>3. \A n \in Slots \ {0} : file'[n] = file[n]
    BY <1>1 DEF TypeOK
  <1> QED
    BY <1>2, <1>3 DEF Content

\* A line that is written comes last in the log.
LEMMA LineContent ==
  ASSUME TypeOK, NEW w \in Writers, Write(w)
  PROVE  /\ Content(0)' = Append(Content(0), line + 1)
         /\ Len(Content(0)') = Len(Content(0)) + 1
         /\ \A n \in Slots \ {0} : Content(n)' = Content(n) /\ file'[n] = file[n]
  <1> DEFINE c == Append(Content(0), line + 1)
  <1>1. file' = [file EXCEPT ![0] = c]
    BY DEF Write
  <1>2. c \in Seq(Nat) /\ c # None
    BY FileHeld
  <1>3. Len(c) = Len(Content(0)) + 1
    BY FileHeld, ContentType, SlotFacts
  <1> HIDE DEF c
  <1>4. Content(0)' = c
    BY <1>1, <1>2, WrittenContent
  <1>5. \A n \in Slots \ {0} : file'[n] = file[n]
    BY <1>1 DEF TypeOK
  <1>6. \A n \in Slots \ {0} : Content(n)' = Content(n)
    BY <1>5 DEF Content
  <1> QED
    BY <1>3, <1>4, <1>5, <1>6 DEF c

\* Every action keeps a rotation alone.
LEMMA QuietStep == TypeOK /\ QuietInv /\ [Next]_vars => QuietInv'
  <1> SUFFICES ASSUME TypeOK, QuietInv, [Next]_vars, ~trouble' PROVE QuietInv'
    BY DEF QuietInv
  <1> USE SlotFacts
  <1>a. /\ ~trouble
        /\ \A w \in Writers : pc[w] # "truncate"
        /\ \A v, w \in Rotating : v = w
        /\ \A w \in Writers : pc[w] = "written" => slot[w] <= Len(Content(0))
        /\ \A w \in Rotating :
               /\ Len(Content(0)) > LOG_MAX
               /\ slot[w] < LOG_KEEP => file[slot[w] + 1] = None
    BY TroubleStays DEF QuietInv
  <1>b. /\ LOG_MAX \in Nat /\ LOG_KEEP \in Nat
        /\ \A n \in Slots : Len(Content(n)) \in Nat
        /\ \A w \in Writers : slot[w] \in Nat
    BY LogAssumption, ContentType DEF TypeOK
  <1>1. ASSUME NEW w \in Writers, Open(w) PROVE QuietInv'
    <2>1. /\ Content(0)' = Content(0)
          /\ \A n \in Slots \ {0} : file'[n] = file[n]
      BY <1>1, OpenedContent
    <2>2. /\ slot' = slot /\ pc'[w] = "open"
          /\ \A v \in Writers \ {w} : pc'[v] = pc[v]
          /\ pc[w] = "idle"
      BY <1>1 DEF Open, TypeOK
    <2>3. Rotating' = Rotating
      BY <2>2 DEF Rotating
    <2>4. ASSUME NEW v \in Rotating', slot'[v] < LOG_KEEP
          PROVE  file'[slot'[v] + 1] = None
      <3>1. v \in Rotating /\ slot'[v] = slot[v] /\ slot[v] \in Nat
        BY <2>2, <2>3, <1>b DEF Rotating
      <3>2. slot[v] + 1 \in Slots \ {0}
        BY <3>1, <2>4, <1>b DEF Slots
      <3> QED
        BY <3>1, <3>2, <2>1, <2>4, <1>a
    <2> QED
      BY <2>1, <2>2, <2>3, <2>4, <1>a DEF QuietInv
  <1>2. ASSUME NEW w \in Writers, Write(w) PROVE QuietInv'
    <2>1. /\ Len(Content(0)') = Len(Content(0)) + 1
          /\ \A n \in Slots \ {0} : file'[n] = file[n]
      BY <1>2, LineContent
    <2>2. /\ slot'[w] = Len(Content(0)) + 1 /\ pc'[w] = "written"
          /\ \A v \in Writers \ {w} : pc'[v] = pc[v] /\ slot'[v] = slot[v]
          /\ pc[w] = "open"
      BY <1>2 DEF Write, TypeOK
    <2>3. Rotating' = Rotating /\ w \notin Rotating
      BY <2>2 DEF Rotating
    <2>4. ASSUME NEW v \in Rotating', slot'[v] < LOG_KEEP
          PROVE  file'[slot'[v] + 1] = None
      <3>1. v \in Rotating /\ slot'[v] = slot[v] /\ slot[v] \in Nat
        BY <2>2, <2>3, <1>b DEF Rotating
      <3>2. slot[v] + 1 \in Slots \ {0}
        BY <3>1, <2>4, <1>b DEF Slots
      <3> QED
        BY <3>1, <3>2, <2>1, <2>4, <1>a
    <2>5. \A v \in Writers : pc'[v] = "written" => slot'[v] <= Len(Content(0)')
      BY <2>1, <2>2, <1>a, <1>b
    <2>6. \A v \in Rotating' : Len(Content(0)') > LOG_MAX
      BY <2>1, <2>3, <1>a, <1>b
    <2>7. \A v \in Writers : pc'[v] # "truncate"
      BY <2>2, <1>a
    <2> QED
      BY <2>3, <2>4, <2>5, <2>6, <2>7, <1>a DEF QuietInv
  <1>3. ASSUME NEW w \in Writers, Close(w) PROVE QuietInv'
    <2>1. file' = file /\ Content(0)' = Content(0) /\ pc[w] = "written"
      BY <1>3 DEF Close, Content
    <2>2. \A v \in Writers \ {w} : pc'[v] = pc[v] /\ slot'[v] = slot[v]
      BY <1>3 DEF Close, TypeOK
    <2>3. CASE slot[w] > LOG_MAX
      <3>1. pc'[w] = "look" /\ slot'[w] = LOG_KEEP /\ Rotating = {}
        BY <1>3, <2>3 DEF Close, TypeOK
      <3>2. Rotating' = {w}
        BY <3>1, <2>2 DEF Rotating
      <3>3. Len(Content(0)') > LOG_MAX
        BY <2>1, <2>3, <1>a, <1>b
      <3> QED
        BY <2>1, <2>2, <3>1, <3>2, <3>3, <1>a, <1>b DEF QuietInv
    <2>4. CASE ~(slot[w] > LOG_MAX)
      <3>1. pc'[w] = "idle"
        BY <1>3, <2>4 DEF Close, TypeOK
      <3>2. Rotating' = Rotating /\ w \notin Rotating
        BY <3>1, <2>1, <2>2 DEF Rotating
      <3>3. \A v \in Rotating' : slot'[v] = slot[v]
        BY <2>2, <3>2 DEF Rotating
      <3> QED
        BY <2>1, <2>2, <3>1, <3>2, <3>3, <1>a DEF QuietInv
    <2> QED
      BY <2>3, <2>4
  <1>4. ASSUME NEW w \in Writers, Look(w) PROVE QuietInv'
    <2>1. file' = file /\ Content(0)' = Content(0) /\ pc[w] = "look"
      BY <1>4 DEF Look, Content
    <2>2. /\ \A v \in Writers \ {w} : pc'[v] = pc[v] /\ slot'[v] = slot[v]
          /\ pc'[w] \in {"look", "move"} /\ slot[w] \in Slots
      BY <1>4 DEF Look, TypeOK
    <2>3. Rotating' = Rotating /\ w \in Rotating
      BY <2>1, <2>2 DEF Rotating
    <2>4. slot'[w] < LOG_KEEP => file[slot'[w] + 1] = None
      <3>1. CASE slot[w] = 0 \/ file[slot[w]] # None
        <4>1. slot' = slot
          BY <3>1, <1>4 DEF Look
        <4> QED
          BY <4>1, <2>3, <1>a
      <3>2. CASE slot[w] # 0 /\ file[slot[w]] = None
        <4>1. slot'[w] = slot[w] - 1
          BY <3>2, <1>4 DEF Look, TypeOK
        <4>2. slot'[w] + 1 = slot[w]
          BY <4>1, <1>b
        <4> QED
          BY <4>2, <3>2
      <3> QED
        BY <3>1, <3>2
    <2> QED
      BY <2>1, <2>2, <2>3, <2>4, <1>a DEF QuietInv
  <1>5. ASSUME NEW w \in Writers, Move(w) PROVE QuietInv'
    <2>1. PICK s \in Slots : s = slot[w]
      BY <1>5 DEF Move, TypeOK
    <2>2. Movable(s) /\ file' = Moved(s) /\ pc[w] = "move"
      BY <1>5, <2>1 DEF Move
    <2>3. /\ \A v \in Writers \ {w} : pc'[v] = pc[v] /\ slot'[v] = slot[v]
          /\ pc'[w] = IF s = 0 THEN "idle" ELSE "look"
          /\ slot'[w] = IF s = 0 THEN 0 ELSE s - 1
      BY <1>5, <2>1, <2>2 DEF Move, TypeOK
    <2>4. Rotating = {w}
      BY <2>2, <1>a DEF Rotating
    <2>5. /\ Content(s)' = <<>>
          /\ \A m \in Slots \ {s} :
                 Content(m)' = IF m = s + 1 THEN Content(s) ELSE Content(m)
      BY <2>2, MovedContent
    <2>6. CASE s = 0
      <3>1. Rotating' = {}
        BY <2>3, <2>4, <2>6 DEF Rotating
      <3>2. \A v \in Writers : pc[v] # "written" /\ pc'[v] # "written"
        BY <2>2, <2>3, <2>6 DEF Movable, Busy
      <3> QED
        BY <2>3, <2>6, <3>1, <3>2, <1>a DEF QuietInv
    <2>7. CASE s # 0
      <3>1. Content(0)' = Content(0)
        BY <2>5, <2>7, SMT DEF Slots
      <3>2. Rotating' = {w} /\ slot'[w] = s - 1 /\ slot'[w] + 1 = s
        BY <2>1, <2>3, <2>4, <2>7 DEF Rotating
      <3>3. file'[s] = None
        <4>1. CASE s = LOG_KEEP
          BY <2>2, <4>1 DEF Moved, TypeOK
        <4>2. CASE s # LOG_KEEP
          BY <2>2, <4>2 DEF Moved, TypeOK
        <4> QED
          BY <4>1, <4>2
      <3> QED
        BY <2>3, <2>4, <2>7, <3>1, <3>2, <3>3, <1>a DEF QuietInv
    <2> QED
      BY <2>6, <2>7
  <1>6. ASSUME NEW w \in Writers, Truncate(w) PROVE QuietInv'
    BY <1>6, <1>a DEF Truncate
  <1>7. ASSUME NEW w \in Writers, Crash(w) PROVE QuietInv'
    BY <1>7 DEF Crash
  <1>8. CASE UNCHANGED <<file, pc, slot, trouble>>
    <2>1. Content(0)' = Content(0) /\ Rotating' = Rotating
      BY <1>8 DEF Content, Rotating
    <2> QED
      BY <1>8, <2>1 DEF QuietInv
  <1>9. (\E n \in Slots : Hold(n)) \/ Release \/ UNCHANGED vars
          => UNCHANGED <<file, pc, slot, trouble>>
    BY DEF Hold, Release, vars
  <1> QED
    BY <1>1, <1>2, <1>3, <1>4, <1>5, <1>6, <1>7, <1>8, <1>9 DEF Next

\* A step that leaves the lines and moves no file.
LEMMA AgeKept ==
  ASSUME TypeOK, AgeInv, ~trouble, line' = line,
         \A n \in Slots : Content(n)' = Content(n),
         \A n \in Slots \ {0} : Shifted(n) => Shifted(n)'
  PROVE  AgeInv'
  <1> SUFFICES ASSUME NEW n \in Slots \ {0}, NEW k \in DOMAIN Content(n)
               PROVE  Content(n)[k] + Width(n - 1)
                        + (IF Shifted(n)' THEN 0 ELSE Len(Content(0))) <= line
    BY SlotFacts DEF AgeInv, Width
  <1>1. Content(n)[k] + Width(n - 1)
            + (IF Shifted(n) THEN 0 ELSE Len(Content(0))) <= line
    BY DEF AgeInv
  <1>2. Content(n)[k] \in Nat /\ Len(Content(0)) \in Nat /\ line \in Nat
    BY ContentType, SlotFacts DEF TypeOK
  <1>3. Width(n - 1) \in Nat
    BY WidthFacts, SMT DEF Slots
  <1> QED
    BY <1>1, <1>2, <1>3

\* Every action keeps the ages.
LEMMA AgeStep == TypeOK /\ OrderInv /\ QuietInv /\ AgeInv /\ [Next]_vars => AgeInv'
  <1> SUFFICES ASSUME TypeOK, OrderInv, QuietInv, AgeInv, [Next]_vars, ~trouble'
               PROVE  AgeInv'
    BY DEF AgeInv
  <1> USE SlotFacts
  <1>a. /\ ~trouble
        /\ \A w \in Writers : pc[w] # "truncate"
        /\ \A v, w \in Rotating : v = w
        /\ \A w \in Rotating : Len(Content(0)) > LOG_MAX
    BY TroubleStays DEF QuietInv
  <1>b. /\ LOG_MAX \in Nat /\ LOG_KEEP \in Nat /\ line \in Nat
        /\ \A n \in Slots : Len(Content(n)) \in Nat
        /\ \A n \in Slots : \A k \in DOMAIN Content(n) : Content(n)[k] \in Nat
        /\ \A w \in Writers : slot[w] \in Nat
    BY LogAssumption, ContentType DEF TypeOK
  <1>c. \A n \in Slots \ {0} : n \in Nat /\ Width(n - 1) \in Nat
    BY WidthFacts, SMT DEF Slots
  <1>d. ASSUME \A v \in Rotating : v \in Rotating' /\ slot'[v] = slot[v]
        PROVE  \A n \in Slots \ {0} : Shifted(n) => Shifted(n)'
    BY <1>d DEF Shifted
  <1>1. ASSUME NEW w \in Writers, Open(w) PROVE AgeInv'
    <2>1. \A n \in Slots : Content(n)' = Content(n)
      BY <1>1, OpenedContent
    <2>2. line' = line /\ \A v \in Rotating : v \in Rotating' /\ slot'[v] = slot[v]
      BY <1>1 DEF Open, TypeOK, Rotating
    <2> QED
      BY <2>1, <2>2, <1>a, <1>d, AgeKept
  <1>2. ASSUME NEW w \in Writers, Write(w) PROVE AgeInv'
    <2>1. /\ Len(Content(0)') = Len(Content(0)) + 1
          /\ \A n \in Slots \ {0} : Content(n)' = Content(n)
      BY <1>2, LineContent
    <2>2. line' = line + 1 /\ \A v \in Rotating : v \in Rotating' /\ slot'[v] = slot[v]
      BY <1>2 DEF Write, TypeOK, Rotating
    <2>3. \A n \in Slots \ {0} : Shifted(n) => Shifted(n)'
      BY <2>2, <1>d
    <2>4. ASSUME NEW n \in Slots \ {0}, NEW k \in DOMAIN Content(n)
          PROVE  Content(n)[k] + Width(n - 1)
                   + (IF Shifted(n)' THEN 0 ELSE Len(Content(0)')) <= line'
      <3>1. Content(n)[k] + Width(n - 1)
                + (IF Shifted(n) THEN 0 ELSE Len(Content(0))) <= line
        BY <1>a DEF AgeInv
      <3> QED
        BY <3>1, <2>1, <2>2, <2>3, <1>b, <1>c
    <2> QED
      BY <2>1, <2>4 DEF AgeInv, Width
  <1>3. ASSUME NEW w \in Writers, Close(w) PROVE AgeInv'
    <2>1. line' = line /\ \A n \in Slots : Content(n)' = Content(n)
      BY <1>3 DEF Close, Content
    <2>2. \A v \in Rotating : v \in Rotating' /\ slot'[v] = slot[v]
      <3>1. CASE slot[w] > LOG_MAX
        <4>1. Rotating = {}
          BY <1>3, <3>1 DEF Close
        <4> QED
          BY <4>1
      <3>2. CASE ~(slot[w] > LOG_MAX)
        BY <1>3, <3>2 DEF Close, TypeOK, Rotating
      <3> QED
        BY <3>1, <3>2
    <2> QED
      BY <2>1, <2>2, <1>a, <1>d, AgeKept
  <1>4. ASSUME NEW w \in Writers, Look(w) PROVE AgeInv'
    <2>1. line' = line /\ \A n \in Slots : Content(n)' = Content(n)
      BY <1>4 DEF Look, Content
    <2>2. \A v \in Rotating : v \in Rotating' /\ slot'[v] \in Int /\ slot'[v] <= slot[v]
      <3>1. \A v \in Rotating : v \in Writers /\ slot[v] \in Nat
        BY <1>b DEF Rotating
      <3>2. CASE slot[w] = 0 \/ file[slot[w]] # None
        BY <1>4, <3>1, <3>2 DEF Look, TypeOK, Rotating
      <3>3. CASE ~(slot[w] = 0 \/ file[slot[w]] # None)
        <4>1. /\ pc' = pc /\ slot'[w] = slot[w] - 1
              /\ \A v \in Writers \ {w} : slot'[v] = slot[v]
          BY <1>4, <3>3 DEF Look, TypeOK
        <4>2. Rotating' = Rotating
          BY <4>1 DEF Rotating
        <4> QED
          BY <4>1, <4>2, <3>1
      <3> QED
        BY <3>2, <3>3
    <2>3. \A n \in Slots \ {0} : Shifted(n) => Shifted(n)'
      <3>1. \A v \in Rotating : slot[v] \in Nat
        BY <1>b DEF Rotating
      <3> QED
        BY <2>2, <3>1, <1>c DEF Shifted
    <2> QED
      BY <2>1, <2>3, <1>a, AgeKept
  <1>5. ASSUME NEW w \in Writers, Move(w) PROVE AgeInv'
    <2>1. PICK s \in Slots : s = slot[w]
      BY <1>5 DEF Move, TypeOK
    <2>2. Movable(s) /\ file' = Moved(s) /\ pc[w] = "move" /\ line' = line
      BY <1>5, <2>1 DEF Move
    <2>3. /\ pc'[w] = IF s = 0 THEN "idle" ELSE "look"
          /\ slot'[w] = IF s = 0 THEN 0 ELSE s - 1
      BY <1>5, <2>1, <2>2 DEF Move, TypeOK
    <2>4. Rotating = {w}
      BY <2>2, <1>a DEF Rotating
    <2>5. /\ Content(s)' = <<>>
          /\ \A m \in Slots \ {s} :
                 Content(m)' = IF m = s + 1 THEN Content(s) ELSE Content(m)
      BY <2>2, MovedContent
    <2>6. \A n \in Slots \ {0} : Shifted(n) <=> s < n
      BY <2>1, <2>4 DEF Shifted
    <2>7. s \in Nat /\ Len(Content(0)) > LOG_MAX
      BY <2>4, <1>a
    <2>8. IF s = 0 THEN Len(Content(0)') = 0
                   ELSE /\ Content(0)' = Content(0)
                        /\ \A n \in Slots \ {0} : s < n => Shifted(n)'
      <3>1. CASE s = 0
        BY <2>5, <3>1
      <3>2. CASE s # 0
        <4>1. Content(0)' = Content(0)
          BY <2>5, <2>7, <3>2
        <4>2. w \in Rotating' /\ slot'[w] = s - 1
          BY <2>3, <3>2 DEF Rotating
        <4>3. \A n \in Slots \ {0} : s < n => slot'[w] < n
          BY <4>2, <2>7, <1>c
        <4> QED
          BY <4>1, <4>2, <4>3, <3>2 DEF Shifted
      <3> QED
        BY <3>1, <3>2
    <2>9. ASSUME NEW n \in Slots \ {0}, NEW k \in DOMAIN Content(n)'
          PROVE  Content(n)'[k] + Width(n - 1)
                   + (IF Shifted(n)' THEN 0 ELSE Len(Content(0)')) <= line'
      <3>1. n # s
        BY <2>5
      <3>2. CASE n = s + 1
        <4>1. Content(n)' = Content(s) /\ k \in DOMAIN Content(s)
          BY <2>5, <3>1, <3>2
        <4>2. Content(s)[k] <= line /\ Content(s)[k] \in Nat
          BY <4>1, <1>b DEF OrderInv
        <4>3. CASE s = 0
          <5>1. Width(n - 1) = 0
            BY <3>2, <4>3, WidthFacts
          <5> QED
            BY <5>1, <4>1, <4>2, <4>3, <2>2, <2>8, <1>b
        <4>4. CASE s # 0
          <5>1. ~Shifted(s)
            BY <2>6, <2>7, <4>4
          <5>2. Content(s)[k] + Width(s - 1) + Len(Content(0)) <= line
            BY <5>1, <4>1, <4>4, <1>a DEF AgeInv
          <5>3. s - 1 \in Nat /\ n - 1 = (s - 1) + 1
            BY <3>2, <4>4, <2>7
          <5>4. /\ Width(s - 1) \in Nat
                /\ Width(n - 1) = Width(s - 1) + (LOG_MAX + 1)
            BY <5>3, WidthFacts
          <5>5. Shifted(n)'
            BY <2>7, <2>8, <3>2, <4>4
          <5> QED
            BY <5>2, <5>4, <5>5, <4>1, <4>2, <2>2, <2>7, <1>b
        <4> QED
          BY <4>3, <4>4
      <3>3. CASE n # s + 1
        <4>1. Content(n)' = Content(n) /\ k \in DOMAIN Content(n)
          BY <2>5, <3>1, <3>3
        <4>2. Content(n)[k] + Width(n - 1)
                  + (IF Shifted(n) THEN 0 ELSE Len(Content(0))) <= line
          BY <4>1, <1>a DEF AgeInv
        <4>3. Content(n)[k] \in Nat
          BY <4>1, <1>b
        <4>4. CASE s = 0
          <5>1. Shifted(n)
            BY <2>6, <4>4, <1>c
          <5> QED
            BY <5>1, <4>1, <4>2, <4>3, <4>4, <2>2, <2>8, <1>b, <1>c
        <4>5. CASE s # 0
          <5>1. Shifted(n) => Shifted(n)'
            BY <2>6, <2>8, <4>5
          <5> QED
            BY <5>1, <4>1, <4>2, <4>3, <4>5, <2>2, <2>8, <1>b, <1>c
        <4> QED
          BY <4>4, <4>5
      <3> QED
        BY <3>2, <3>3
    <2> QED
      BY <2>9 DEF AgeInv, Width
  <1>6. ASSUME NEW w \in Writers, Truncate(w) PROVE AgeInv'
    BY <1>6, <1>a DEF Truncate
  <1>7. ASSUME NEW w \in Writers, Crash(w) PROVE AgeInv'
    BY <1>7 DEF Crash
  <1>8. CASE UNCHANGED <<file, pc, slot, line>>
    <2>1. \A n \in Slots : Content(n)' = Content(n)
      BY <1>8 DEF Content
    <2>2. \A v \in Rotating : v \in Rotating' /\ slot'[v] = slot[v]
      BY <1>8 DEF Rotating
    <2> QED
      BY <2>1, <2>2, <1>8, <1>a, <1>d, AgeKept
  <1>9. (\E n \in Slots : Hold(n)) \/ Release \/ UNCHANGED vars
          => UNCHANGED <<file, pc, slot, line>>
    BY DEF Hold, Release, vars
  <1> QED
    BY <1>1, <1>2, <1>3, <1>4, <1>5, <1>6, <1>7, <1>8, <1>9 DEF Next

\* The lines are those of the files.
LEMMA LineFound ==
  /\ \A y \in Lines :
         \E n \in Slots : \E k \in DOMAIN Content(n) : y = Content(n)[k]
  /\ \A n \in Slots : \A k \in DOMAIN Content(n) : Content(n)[k] \in Lines
  BY DEF Lines

LEMMA SameLines ==
  (\A n \in Slots : Content(n)' = Content(n)) => Lines' = Lines
  BY DEF Lines

\* A line that is written joins those that are there.
LEMMA LineJoins ==
  ASSUME TypeOK, NEW w \in Writers, Write(w)
  PROVE  Lines' = Lines \cup {line + 1}
  <1> DEFINE c == Content(0)
             d == Append(c, line + 1)
  <1>1. c \in Seq(Nat) /\ Len(c) \in Nat /\ line + 1 \in Nat
    BY ContentType, SlotFacts DEF TypeOK
  <1>2. /\ DOMAIN c = 1..Len(c) /\ DOMAIN d = 1..(Len(c) + 1)
        /\ d[Len(c) + 1] = line + 1
        /\ \A k \in 1..Len(c) : d[k] = c[k]
    BY <1>1
  <1>3. \A k \in DOMAIN d :
            d[k] = line + 1 \/ (k \in DOMAIN c /\ d[k] = c[k])
    BY <1>1, <1>2
  <1>4. \A k \in DOMAIN c : k \in DOMAIN d /\ d[k] = c[k]
    BY <1>1, <1>2
  <1>5. Len(c) + 1 \in DOMAIN d
    BY <1>1, <1>2
  <1>6. /\ Content(0)' = d
        /\ \A n \in Slots \ {0} : Content(n)' = Content(n)
    BY LineContent
  <1> HIDE DEF d
  <1>7. ASSUME NEW y \in Lines' PROVE y \in Lines \cup {line + 1}
    <2>1. PICK n \in Slots : \E k \in DOMAIN Content(n)' : y = Content(n)'[k]
      BY DEF Lines
    <2>2. PICK k \in DOMAIN Content(n)' : y = Content(n)'[k]
      BY <2>1
    <2>3. CASE n = 0
      BY <2>2, <2>3, <1>3, <1>6, LineFound, SlotFacts
    <2>4. CASE n # 0
      BY <2>2, <2>4, <1>6, LineFound
    <2> QED
      BY <2>3, <2>4
  <1>8. ASSUME NEW n \in Slots, NEW k \in DOMAIN Content(n)'
        PROVE  Content(n)'[k] \in Lines'
    BY DEF Lines
  <1>9. ASSUME NEW y \in Lines PROVE y \in Lines'
    <2>1. PICK n \in Slots : \E k \in DOMAIN Content(n) : y = Content(n)[k]
      BY LineFound
    <2>2. PICK k \in DOMAIN Content(n) : y = Content(n)[k]
      BY <2>1
    <2>3. k \in DOMAIN Content(n)' /\ Content(n)'[k] = y
      BY <2>2, <1>4, <1>6
    <2> QED
      BY <2>3, <1>8
  <1>10. line + 1 \in Lines'
    BY <1>2, <1>5, <1>6, <1>8, SlotFacts
  <1> QED
    BY <1>7, <1>9, <1>10

\* A move loses no lines, but those of the oldest file.
LEMMA LinesMoved ==
  ASSUME TypeOK, NEW s \in Slots, file' = Moved(s),
         s < LOG_KEEP => file[s + 1] = None
  PROVE  /\ Lines' \subseteq Lines
         /\ \A y \in Lines \ Lines' :
                s = LOG_KEEP /\ \E k \in DOMAIN Content(s) : y = Content(s)[k]
         /\ s = LOG_KEEP => \A y \in Lines' :
                \E n \in Slots \ {s} : \E k \in DOMAIN Content(n) : y = Content(n)[k]
  <1> USE SlotFacts
  <1>1. /\ Content(s)' = <<>>
        /\ \A m \in Slots \ {s} :
               Content(m)' = IF m = s + 1 THEN Content(s) ELSE Content(m)
    BY MovedContent
  <1>2. \A n \in Slots : \A k \in DOMAIN Content(n)' : Content(n)'[k] \in Lines'
    BY DEF Lines
  <1>3. LOG_KEEP \in Nat /\ \A n \in Slots : n \in Nat /\ n <= LOG_KEEP
    BY LogAssumption, SMT DEF Slots
  <1>4. ASSUME NEW y \in Lines'
        PROVE  \E n \in Slots : /\ \E k \in DOMAIN Content(n) : y = Content(n)[k]
                                /\ s = LOG_KEEP => n # s
    <2>1. PICK n \in Slots : \E k \in DOMAIN Content(n)' : y = Content(n)'[k]
      BY DEF Lines
    <2>2. n # s
      BY <2>1, <1>1
    <2>3. CASE n = s + 1
      BY <2>1, <2>2, <2>3, <1>1, <1>3
    <2>4. CASE n # s + 1
      BY <2>1, <2>2, <2>4, <1>1
    <2> QED
      BY <2>3, <2>4
  <1>5. Lines' \subseteq Lines
    BY <1>4, LineFound
  <1>6. ASSUME NEW y \in Lines \ Lines'
        PROVE  s = LOG_KEEP /\ \E k \in DOMAIN Content(s) : y = Content(s)[k]
    <2>1. PICK n \in Slots : \E k \in DOMAIN Content(n) : y = Content(n)[k]
      BY LineFound
    <2>2. n = s
      <3>1. SUFFICES ASSUME n # s PROVE FALSE
        OBVIOUS
      <3>2. n # s + 1
        <4>1. n = s + 1 => s < LOG_KEEP /\ Content(n) = <<>>
          BY <1>3 DEF Content
        <4> QED
          BY <4>1, <2>1
      <3>3. Content(n)' = Content(n)
        BY <1>1, <3>1, <3>2
      <3> QED
        BY <3>3, <2>1, <1>2
    <2>3. s = LOG_KEEP
      <3>1. SUFFICES ASSUME s # LOG_KEEP PROVE FALSE
        OBVIOUS
      <3>2. s + 1 \in Slots /\ s + 1 # s
        BY <3>1, <1>3 DEF Slots
      <3>3. Content(s + 1)' = Content(s)
        BY <3>2, <1>1
      <3> QED
        BY <3>2, <3>3, <2>1, <2>2, <1>2
    <2> QED
      BY <2>1, <2>2, <2>3
  <1> QED
    BY <1>4, <1>5, <1>6

\* Every action keeps the lines that are not as old as LOG_KEEP files.
LEMMA GoneStep ==
  TypeOK /\ OrderInv /\ QuietInv /\ AgeInv /\ GoneInv /\ [Next]_vars => GoneInv'
  <1> SUFFICES ASSUME TypeOK, OrderInv, QuietInv, AgeInv, GoneInv, [Next]_vars,
                      ~trouble'
               PROVE  GoneInv'
    BY DEF GoneInv
  <1> USE SlotFacts
  <1>a. /\ ~trouble
        /\ \A w \in Writers : pc[w] # "truncate"
        /\ \A v, w \in Rotating : v = w
        /\ \A w \in Rotating :
               /\ Len(Content(0)) > LOG_MAX
               /\ slot[w] < LOG_KEEP => file[slot[w] + 1] = None
    BY TroubleStays DEF QuietInv
  <1>b. /\ Lines \subseteq 1..line
        /\ \A y \in (1..line) \ Lines :
               y + Width(LOG_KEEP) <= line /\ \A x \in Lines : y < x
    BY <1>a DEF GoneInv
  <1>c. /\ LOG_MAX \in Nat /\ LOG_KEEP \in Nat \ {0} /\ line \in Nat
        /\ Len(Content(0)) \in Nat /\ Width(LOG_KEEP) \in Nat
    BY LogAssumption, ContentType, WidthFacts DEF TypeOK
  <1>1. ASSUME \A n \in Slots : Content(n)' = Content(n), line' = line
        PROVE  GoneInv'
    <2>1. Lines' = Lines
      BY <1>1, SameLines
    <2> QED
      BY <2>1, <1>1, <1>b DEF GoneInv, Width
  <1>2. ASSUME NEW w \in Writers, Write(w) PROVE GoneInv'
    <2>1. Lines' = Lines \cup {line + 1} /\ line' = line + 1
      BY <1>2, LineJoins DEF Write
    <2>2. Lines' \subseteq 1..line'
      BY <2>1, <1>b, <1>c
    <2>3. ASSUME NEW y \in (1..line') \ Lines'
          PROVE  y + Width(LOG_KEEP) <= line' /\ \A x \in Lines' : y < x
      <3>1. y \in (1..line) \ Lines
        BY <2>1, <1>c
      <3>2. y + Width(LOG_KEEP) <= line /\ \A x \in Lines : y < x
        BY <3>1, <1>b
      <3>3. y < line + 1
        BY <3>1, <1>c
      <3> QED
        BY <3>1, <3>2, <3>3, <2>1, <1>c
    <2> QED
      BY <2>2, <2>3 DEF GoneInv, Width
  <1>3. ASSUME NEW w \in Writers, Open(w) PROVE GoneInv'
    <2>1. line' = line /\ \A n \in Slots : Content(n)' = Content(n)
      BY <1>3, OpenedContent DEF Open
    <2> QED
      BY <2>1, <1>1
  <1>4. ASSUME NEW w \in Writers, Move(w) PROVE GoneInv'
    <2>1. PICK s \in Slots : s = slot[w]
      BY <1>4 DEF Move, TypeOK
    <2>2. file' = Moved(s) /\ pc[w] = "move" /\ line' = line
      BY <1>4, <2>1 DEF Move
    <2>3. Rotating = {w}
      BY <2>2, <1>a DEF Rotating
    <2>4. /\ Lines' \subseteq Lines
          /\ \A y \in Lines \ Lines' :
                 s = LOG_KEEP /\ \E k \in DOMAIN Content(s) : y = Content(s)[k]
          /\ s = LOG_KEEP => \A y \in Lines' :
                 \E n \in Slots \ {s} : \E k \in DOMAIN Content(n) :
                     y = Content(n)[k]
      BY <2>1, <2>2, <2>3, <1>a, LinesMoved
    <2>5. ASSUME NEW y \in Lines \ Lines'
          PROVE  y + Width(LOG_KEEP) <= line /\ \A x \in Lines' : y < x
      <3>1. PICK k \in DOMAIN Content(LOG_KEEP) : y = Content(LOG_KEEP)[k]
        BY <2>4
      <3>2. s = LOG_KEEP
        BY <2>4
      <3>3. y + Width(LOG_KEEP) <= line
        <4>1. ~Shifted(LOG_KEEP)
          <5>1. \A v \in Rotating : slot[v] = LOG_KEEP
            BY <2>1, <2>3, <3>2, Zenon
          <5>2. ~(LOG_KEEP < LOG_KEEP)
            BY <1>c, SMT
          <5> QED
            BY <5>1, <5>2, Zenon DEF Shifted
        <4>2. y + Width(LOG_KEEP - 1) + Len(Content(0)) <= line
          BY <3>1, <4>1, <1>a, <1>c DEF AgeInv
        <4>3. /\ Width(LOG_KEEP - 1) \in Nat
              /\ Width(LOG_KEEP) = Width(LOG_KEEP - 1) + (LOG_MAX + 1)
          <5>1. LOG_KEEP - 1 \in Nat /\ LOG_KEEP = (LOG_KEEP - 1) + 1
            BY <1>c
          <5>2. /\ Width(LOG_KEEP - 1) \in Nat
                /\ Width((LOG_KEEP - 1) + 1) = Width(LOG_KEEP - 1) + (LOG_MAX + 1)
            BY <5>1, WidthFacts
          <5> QED
            BY <5>1, <5>2
        <4>4. Len(Content(0)) > LOG_MAX
          BY <2>3, <1>a
        <4>5. y \in Nat
          BY <1>b
        <4> QED
          BY <4>2, <4>3, <4>4, <4>5, <1>c
      <3>4. ASSUME NEW x \in Lines' PROVE y < x
        <4>1. PICK n \in Slots \ {s} : \E j \in DOMAIN Content(n) : x = Content(n)[j]
          BY <2>4, <3>2
        <4>2. LOG_KEEP > n
          BY <3>2, SMT DEF Slots
        <4> QED
          BY <3>1, <4>1, <4>2 DEF OrderInv, InOrder
      <3> QED
        BY <3>3, <3>4
    <2>6. ASSUME NEW y \in (1..line') \ Lines'
          PROVE  y + Width(LOG_KEEP) <= line' /\ \A x \in Lines' : y < x
      <3>1. CASE y \in Lines
        BY <3>1, <2>2, <2>5
      <3>2. CASE y \notin Lines
        BY <3>2, <2>2, <2>4, <1>b
      <3> QED
        BY <3>1, <3>2
    <2> QED
      BY <2>2, <2>4, <2>6, <1>b DEF GoneInv, Width
  <1>5. ASSUME NEW w \in Writers, Truncate(w) PROVE GoneInv'
    BY <1>5, <1>a DEF Truncate
  <1>6. ASSUME UNCHANGED <<file, line>> PROVE GoneInv'
    BY <1>1, <1>6 DEF Content
  <1>7. \A w \in Writers : Close(w) \/ Look(w) \/ Crash(w) => UNCHANGED <<file, line>>
    BY DEF Close, Look, Crash
  <1>8. (\E n \in Slots : Hold(n)) \/ Release \/ UNCHANGED vars
          => UNCHANGED <<file, line>>
    BY DEF Hold, Release, vars
  <1> QED
    BY <1>2, <1>3, <1>4, <1>5, <1>6, <1>7, <1>8 DEF Next

LEMMA KeepInit == Init => QuietInv /\ AgeInv /\ GoneInv
  <1> SUFFICES ASSUME Init PROVE QuietInv /\ AgeInv /\ GoneInv
    OBVIOUS
  <1>1. \A n \in Slots : Content(n) = <<>>
    BY DEF Init, Content
  <1>2. Rotating = {} /\ Lines = {} /\ line = 0
    BY <1>1 DEF Init, Rotating, Lines
  <1>3. QuietInv
    BY <1>2 DEF Init, QuietInv
  <1>4. AgeInv
    BY <1>1 DEF AgeInv
  <1>5. GoneInv
    BY <1>2 DEF GoneInv
  <1> QED
    BY <1>3, <1>4, <1>5

LEMMA LeastLine ==
  ASSUME NEW T \in SUBSET Nat, T # {}
  PROVE  \E x \in T : \A y \in T : x <= y
  <1>1. IsWellFoundedOn(OpToRel(<, Nat), Nat)
    BY NatLessThanWellFounded
  <1>2. PICK x \in T : \A y \in T : <<y, x>> \notin OpToRel(<, Nat)
    BY <1>1, WFMin
  <1>3. \A y \in T : ~(y < x)
    BY <1>2 DEF OpToRel
  <1> QED
    BY <1>3

\* Lines of which only old ones are gone are the last ones without a gap.
LEMMA KeptBounds == TypeOK /\ OrderInv /\ GoneInv => RecentKept
  <1> SUFFICES ASSUME TypeOK, OrderInv, GoneInv, ~trouble
               PROVE  /\ Lines = (line - Cardinality(Lines) + 1)..line
                      /\ \/ Cardinality(Lines) = line
                         \/ Cardinality(Lines) >= Width(LOG_KEEP)
    BY DEF OrderInv, RecentKept, Width
  <1>1. /\ Lines \subseteq 1..line
        /\ \A y \in (1..line) \ Lines :
               y + Width(LOG_KEEP) <= line /\ \A x \in Lines : y < x
    BY DEF GoneInv
  <1>2. line \in Nat /\ LOG_MAX \in Nat /\ LOG_KEEP \in Nat \ {0}
    BY LogAssumption DEF TypeOK
  <1>3. Width(LOG_KEEP) \in Nat /\ Width(LOG_KEEP) >= 1
    <2>1. LOG_KEEP - 1 \in Nat /\ LOG_KEEP = (LOG_KEEP - 1) + 1
      BY <1>2
    <2>2. /\ Width(LOG_KEEP - 1) \in Nat
          /\ Width((LOG_KEEP - 1) + 1) = Width(LOG_KEEP - 1) + (LOG_MAX + 1)
      BY <2>1, WidthFacts
    <2>3. Width(LOG_KEEP) = Width(LOG_KEEP - 1) + (LOG_MAX + 1)
      BY <2>1, <2>2
    <2> QED
      BY <2>2, <2>3, <1>2
  <1>4. CASE Lines = {}
    <2>1. line = 0
      <3>1. SUFFICES ASSUME line # 0 PROVE FALSE
        OBVIOUS
      <3>2. line \in (1..line) \ Lines
        BY <1>2, <1>4, <3>1
      <3>3. line + Width(LOG_KEEP) <= line
        BY <1>1, <3>2
      <3> QED
        BY <1>2, <1>3, <3>3
    <2>2. Cardinality(Lines) = 0
      BY <1>4, FS_EmptySet
    <2> QED
      BY <2>1, <2>2, <1>4
  <1>5. CASE Lines # {}
    <2>1. PICK x \in Lines : \A y \in Lines : x <= y
      <3>1. Lines \in SUBSET Nat
        BY <1>1, <1>2
      <3> QED
        BY <3>1, <1>5, LeastLine
    <2>2. x \in 1..line
      BY <1>1
    <2>3. Lines = x..line
      <3>1. ASSUME NEW y \in x..line PROVE y \in Lines
        BY <2>1, <2>2, <3>1, <1>1, <1>2
      <3>2. ASSUME NEW y \in Lines PROVE y \in x..line
        BY <2>1, <2>2, <3>2, <1>1, <1>2
      <3> QED
        BY <3>1, <3>2
    <2>4. Cardinality(Lines) = line - x + 1
      BY <2>2, <2>3, <1>2, FS_Interval
    <2>5. Lines = (line - Cardinality(Lines) + 1)..line
      <3>1. line - Cardinality(Lines) + 1 = x
        BY <2>2, <2>4, <1>2
      <3> QED
        BY <2>3, <3>1
    <2>6. Cardinality(Lines) = line \/ Cardinality(Lines) >= Width(LOG_KEEP)
      <3>1. CASE x = 1
        BY <2>4, <3>1, <1>2
      <3>2. CASE x # 1
        <4>1. x - 1 \in (1..line) \ Lines
          BY <2>2, <2>3, <3>2, <1>2
        <4>2. (x - 1) + Width(LOG_KEEP) <= line
          BY <4>1, <1>1
        <4> QED
          BY <2>2, <2>4, <4>2, <1>2, <1>3
      <3> QED
        BY <3>1, <3>2
    <2> QED
      BY <2>5, <2>6
  <1> QED
    BY <1>4, <1>5

\* Where each rotation was alone and found no file open, the lines that are left
\* are the last ones without a gap, LOG_KEEP full files of them or all there
\* ever were; and the older a file, the older its lines, however many rotate.
THEOREM RecentLinesKept == Spec => []RecentKept
  <1> DEFINE Inv == TypeOK /\ OrderInv /\ QuietInv /\ AgeInv /\ GoneInv
  <1>1. Init => Inv
    BY TypeInit, OrderInit, KeepInit
  <1>2. Inv /\ [Next]_vars => Inv'
    BY TypeStep, OrderStep, QuietStep, AgeStep, GoneStep
  <1>3. Inv => RecentKept
    BY KeptBounds
  <1> QED
    BY <1>1, <1>2, <1>3, PTL DEF Spec
===============================================================================
