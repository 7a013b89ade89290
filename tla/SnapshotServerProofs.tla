------------------------- MODULE SnapshotServerProofs -------------------------
(***************************************************************************)
(* Proofs about SnapshotServer for any tree, any sizes and budget, any     *)
(* repetition counts and any number of rebuilds and troubles: the type     *)
(* invariant, that a finished walk has every lasting row, and that it has  *)
(* each row once; and that the loop which answers GETBULK computes the     *)
(* slices that the walk is made of.                                        *)
(***************************************************************************)
EXTENDS BulkSlice, FiniteSetTheorems, SequenceTheorems, WellFoundedInduction,
        TLAPS

-----------------------------------------------------------------------------
(* Greatest and least elements *)

\* A non-empty set of naturals has a least element.
LEMMA LeastExists ==
    ASSUME NEW T \in SUBSET Nat, T # {}
    PROVE  \E x \in T : \A y \in T : x <= y
<1>1. IsWellFoundedOn(OpToRel(<, Nat), Nat) BY NatLessThanWellFounded
<1>2. PICK x \in T : \A y \in T : <<y, x>> \notin OpToRel(<, Nat)
      BY <1>1, WFMin
<1>3. \A y \in T : ~(y < x) BY <1>2 DEF OpToRel
<1> QED BY <1>3

\* A finite non-empty set of naturals has a greatest element: the one below
\* which most of the set lies.
LEMMA GreatestExists ==
    ASSUME NEW S \in SUBSET Nat, IsFiniteSet(S), S # {}
    PROVE  \E x \in S : \A y \in S : y <= x
<1> DEFINE Below(x) == {z \in S : z <= x}
           Above(x) == Cardinality(S) - Cardinality(Below(x))
           T == {Above(x) : x \in S}
<1>1. ASSUME NEW x \in S
      PROVE  /\ IsFiniteSet(Below(x)) /\ Cardinality(Below(x)) \in Nat
             /\ Cardinality(S) \in Nat /\ Above(x) \in Nat
      <2> DEFINE B == Below(x)
      <2>1. B \in SUBSET S OBVIOUS
      <2> HIDE DEF B
      <2>2. IsFiniteSet(B) /\ Cardinality(B) <= Cardinality(S)
            BY <2>1, FS_Subset
      <2>3. Cardinality(B) \in Nat /\ Cardinality(S) \in Nat
            BY <2>2, FS_CardinalityType
      <2>4. Cardinality(S) - Cardinality(B) \in Nat BY <2>2, <2>3
      <2> QED BY <2>2, <2>3, <2>4 DEF B
<1>2. T \in SUBSET Nat /\ T # {} BY <1>1
<1>3. PICK x \in S : \A y \in S : Above(x) <= Above(y)
      <2>1. PICK a \in T : \A b \in T : a <= b
            <3> HIDE DEF T
            <3> QED BY <1>2, LeastExists
      <2> QED BY <2>1
<1>4. ASSUME NEW y \in S, ~(y <= x) PROVE FALSE
      <2>0. x \in Nat /\ y \in Nat /\ x < y BY <1>4
      <2>1. Below(x) \in SUBSET Below(y)
            <3>1. ASSUME NEW z \in S, z <= x PROVE z <= y
                  <4>1. z \in Nat OBVIOUS
                  <4> QED BY <4>1, <2>0, <3>1
            <3> QED BY <3>1
      <2>2. Below(x) # Below(y) BY <2>0
      <2>3. Cardinality(Below(x)) <= Cardinality(Below(y))
            /\ Cardinality(Below(x)) # Cardinality(Below(y))
            <3> DEFINE B == Below(x)
                       C == Below(y)
            <3>1. IsFiniteSet(C) /\ B \in SUBSET C /\ B # C
                  BY <1>1, <2>1, <2>2
            <3> HIDE DEF B, C
            <3>2. Cardinality(B) <= Cardinality(C)
                  /\ Cardinality(B) # Cardinality(C)
                  BY <3>1, FS_Subset
            <3> QED BY <3>2 DEF B, C
      <2>4. Above(y) < Above(x)
            <3> HIDE DEF Below
            <3> QED BY <1>1, <2>3
      <2>5. Above(x) <= Above(y) BY <1>3
      <2>6. Above(x) \in Nat /\ Above(y) \in Nat BY <1>1
      <2> HIDE DEF Above
      <2> QED BY <2>4, <2>5, <2>6
<1> QED BY <1>4

\* Max is the greatest element of a finite non-empty set of naturals.
LEMMA MaxIsGreatest ==
    ASSUME NEW S \in SUBSET Nat, IsFiniteSet(S), S # {}
    PROVE  Max(S) \in S /\ \A y \in S : y <= Max(S)
<1>1. \E x \in S : \A y \in S : x >= y
      <2>1. PICK x \in S : \A y \in S : y <= x BY GreatestExists
      <2> QED BY <2>1
<1> QED BY <1>1 DEF Max

-----------------------------------------------------------------------------
(* Slices *)

LEMMA OidSets ==
    ASSUME NEW s \in SUBSET Oids
    PROVE  IsFiniteSet(s) /\ s \in SUBSET Nat
BY OidsAssumption, FS_Subset

\* A slice holds every entry between where it starts and its last one, and is
\* empty only at the end of the array.
LEMMA SliceIsPage ==
    ASSUME NEW s \in SUBSET Oids, NEW x \in Oids \cup {0}
    PROVE  LET rows == NextSlice(s, x) IN
           /\ rows \in SUBSET s
           /\ \A o \in rows : o > x
           /\ \A o \in s, p \in rows : x < o /\ o <= p => o \in rows
           /\ rows = {} => After(s, x) = {}
<1> DEFINE ends == {y \in After(s, x) : Fits(Page(s, x, y))}
<1>1. ends \in SUBSET Oids BY DEF After
<1>2. IsFiniteSet(ends) /\ ends \in SUBSET Nat
      <2> HIDE DEF ends
      <2> QED BY <1>1, OidSets
<1>3. CASE ends # {}
      <2>1. Max(ends) \in ends
            <3> HIDE DEF ends
            <3> QED BY <1>2, <1>3, MaxIsGreatest
      <2>2. NextSlice(s, x) = Page(s, x, Max(ends)) BY <1>3 DEF NextSlice
      <2>3. Max(ends) \in Page(s, x, Max(ends))
            <3>1. Max(ends) \in After(s, x) /\ Max(ends) \in Nat BY <1>2, <2>1
            <3> HIDE DEF ends
            <3> QED BY <3>1 DEF Page
      <2> DEFINE y == Max(ends)
      <2>4. y \in Nat BY <1>2, <2>1
      <2> HIDE DEF y
      <2>5. s \in SUBSET Nat /\ x \in Nat BY OidsAssumption
      <2>6. NextSlice(s, x) = Page(s, x, y) BY <2>2 DEF y
      <2>7. y \in Page(s, x, y) BY <2>3 DEF y
      <2>8. ASSUME NEW o \in s, NEW p \in Page(s, x, y), x < o, o <= p
            PROVE  o \in Page(s, x, y)
            <3>1. o \in Nat /\ p \in Nat /\ p <= y BY <2>5 DEF Page, After
            <3>2. o <= y BY <3>1, <2>8, <2>4
            <3> QED BY <3>2, <2>8 DEF Page, After
      <2> QED BY <2>6, <2>7, <2>8 DEF Page, After
<1>4. CASE ends = {}
      <2>1. NextSlice(s, x) = {} BY <1>4 DEF NextSlice
      <2>2. After(s, x) = {}
            <3> SUFFICES ASSUME After(s, x) # {} PROVE FALSE OBVIOUS
            <3>1. After(s, x) \in SUBSET Nat BY OidsAssumption DEF After
            <3>2. PICK y \in After(s, x) : \A z \in After(s, x) : y <= z
                  BY <3>1, LeastExists
            <3>3. Page(s, x, y) = {y} BY <3>1, <3>2 DEF Page
            <3>4. Cardinality({y}) = 1 BY FS_Singleton
            <3>5. Repetitions >= 1 BY CountAssumption DEF Repetitions
            <3>6. Fits(Page(s, x, y)) BY <3>3, <3>4, <3>5 DEF Fits
            <3> QED BY <3>6, <1>4
      <2> QED BY <2>1, <2>2
<1> QED BY <1>3, <1>4

\* The same is true of the one entry that GETNEXT is answered with.
LEMMA NextRowIsPage ==
    ASSUME NEW s \in SUBSET Oids, NEW x \in Oids \cup {0}
    PROVE  LET rows == NextRow(s, x) IN
           /\ rows \in SUBSET s
           /\ \A o \in rows : o > x
           /\ \A o \in s, p \in rows : x < o /\ o <= p => o \in rows
           /\ rows = {} => After(s, x) = {}
<1>1. s \in SUBSET Nat /\ x \in Nat BY OidsAssumption
<1>2. After(s, x) \in SUBSET Nat BY <1>1 DEF After
<1>3. ASSUME NEW o \in s, NEW p \in NextRow(s, x), x < o, o <= p
      PROVE  o \in NextRow(s, x)
      <2>1. o \in After(s, x) /\ o \in Nat BY <1>1, <1>3 DEF After
      <2>2. p \in After(s, x) /\ p \in Nat /\ p <= o
            BY <1>2, <2>1 DEF NextRow
      <2>3. o = p BY <2>1, <2>2, <1>3
      <2> QED BY <2>3
<1>4. ASSUME After(s, x) # {} PROVE NextRow(s, x) # {}
      <2>1. PICK y \in After(s, x) : \A z \in After(s, x) : y <= z
            BY <1>2, <1>4, LeastExists
      <2> QED BY <2>1 DEF NextRow
<1> QED BY <1>3, <1>4 DEF NextRow, After

-----------------------------------------------------------------------------
(* Types *)

LEMMA RequestType ==
    ASSUME TypeOK, NEW r \in requests, r.kind # "get"
    PROVE  r.id \in Nat /\ r.from \in Oids \cup {0}
BY DEF TypeOK, Request, Steps

LEMMA ResponseType ==
    ASSUME TypeOK, NEW m \in responses
    PROVE  /\ m.rows \in SUBSET Oids
           /\ m.kind # "get" => m.id \in Nat /\ m.from \in Oids \cup {0}
BY DEF TypeOK, Response, Steps

\* The rows of a reply: finite, and the last of them is an OID.
LEMMA RowsType ==
    ASSUME TypeOK, NEW m \in responses
    PROVE  /\ IsFiniteSet(m.rows) /\ Cardinality(m.rows) \in Nat
           /\ m.rows # {} => /\ Max(m.rows) \in m.rows
                             /\ \A o \in m.rows : o <= Max(m.rows)
<1> DEFINE rows == m.rows
<1>1. rows \in SUBSET Oids BY ResponseType
<1> HIDE DEF rows
<1>2. IsFiniteSet(rows) /\ rows \in SUBSET Nat BY <1>1, OidSets
<1>3. Cardinality(rows) \in Nat BY <1>2, FS_CardinalityType
<1>4. rows # {} => Max(rows) \in rows /\ \A o \in rows : o <= Max(rows)
      BY <1>2, MaxIsGreatest
<1> QED BY <1>2, <1>3, <1>4 DEF rows

\* What a request of the walk is answered with.
RowsFor(r) == IF r.kind = "bulk" THEN NextSlice(served.oids, r.from)
                                 ELSE NextRow(served.oids, r.from)

Reply(r) == [id |-> r.id, kind |-> r.kind, from |-> r.from, rows |-> RowsFor(r)]

LEMMA RepliesWith ==
    ASSUME TypeOK, NEW r \in requests, HandleBulk(r) \/ HandleNext(r)
    PROVE  responses' = responses \cup {Reply(r)} /\ r.kind # "get"
<1>1. CASE HandleBulk(r) BY <1>1 DEF HandleBulk, Reply, RowsFor
<1>2. CASE HandleNext(r) BY <1>2 DEF HandleNext, Reply, RowsFor
<1> QED BY <1>1, <1>2

LEMMA ReplyType ==
    ASSUME TypeOK, NEW r \in requests, r.kind # "get"
    PROVE  /\ Reply(r) \in Response
           /\ Reply(r).rows \in SUBSET served.oids
           /\ \A o \in Reply(r).rows : o > r.from
           /\ \A o \in served.oids, p \in Reply(r).rows :
                 r.from < o /\ o <= p => o \in Reply(r).rows
           /\ Reply(r).rows = {} => After(served.oids, r.from) = {}
<1>1. served.oids \in SUBSET Oids BY DEF TypeOK, Snapshot
<1>2. r.id \in Nat /\ r.from \in Oids \cup {0} BY RequestType
<1> DEFINE rows == RowsFor(r)
<1>3. /\ rows \in SUBSET served.oids
      /\ \A o \in rows : o > r.from
      /\ \A o \in served.oids, p \in rows : r.from < o /\ o <= p => o \in rows
      /\ rows = {} => After(served.oids, r.from) = {}
      <2>1. CASE r.kind = "bulk" BY <1>1, <1>2, <2>1, SliceIsPage DEF RowsFor
      <2>2. CASE r.kind # "bulk" BY <1>1, <1>2, <2>2, NextRowIsPage DEF RowsFor
      <2> QED BY <2>1, <2>2
<1> HIDE DEF rows
<1>4. Reply(r) = [id |-> r.id, kind |-> r.kind, from |-> r.from, rows |-> rows]
      BY DEF Reply, rows
<1>5. r.kind \in Steps BY DEF TypeOK, Request, Steps
<1> QED BY <1>1, <1>2, <1>3, <1>4, <1>5 DEF Response

LEMMA TypeNext == TypeOK /\ [Next]_vars => TypeOK'
<1> SUFFICES ASSUME TypeOK, [Next]_vars PROVE TypeOK' OBVIOUS
<1> USE DEF agent, manager, net
<1>1. CASE Rebuild
      <2>1. CASE StartBuild BY <2>1 DEF StartBuild, TypeOK
      <2>2. CASE Collect
            BY <2>2 DEF Collect, TypeOK, Snapshot
      <2>3. CASE Swap BY <2>3 DEF Swap, TypeOK
      <2>4. CASE BuildFails BY <2>4 DEF BuildFails, TypeOK
      <2> QED BY <1>1, <2>1, <2>2, <2>3, <2>4 DEF Rebuild
<1>2. ASSUME NEW r \in requests, Handle(r) PROVE TypeOK'
      <2>1. responses' \subseteq Response
            <3>1. CASE HandleBulk(r) \/ HandleNext(r)
                  <4>1. responses' = responses \cup {Reply(r)} /\ r.kind # "get"
                        BY <3>1, RepliesWith
                  <4> QED BY <4>1, ReplyType DEF TypeOK
            <3>2. CASE HandleGet(r)
                  <4>1. r.kind = "get" /\ r \in Request BY <3>2 DEF HandleGet, TypeOK
                  <4>2. r.names \cap served.oids \in SUBSET Oids
                        BY <4>1 DEF TypeOK, Snapshot
                  <4> QED BY <3>2, <4>2 DEF HandleGet, TypeOK, Response
            <3> QED BY <1>2, <3>1, <3>2 DEF Handle
      <2>2. requests' \subseteq Request /\ troubles' \in Nat
            BY <1>2 DEF Handle, Trouble, TypeOK
      <2> QED BY <1>2, <2>1, <2>2 DEF Handle, TypeOK
<1>3. ASSUME NEW m \in responses, Receive(m) PROVE TypeOK'
      <2>1. CASE Ignore(m)
            BY <1>3, <2>1 DEF Receive, Ignore, TypeOK
      <2>2. CASE Accept(m) /\ m.rows = {}
            BY <1>3, <2>2 DEF Receive, Accept, TypeOK
      <2>3. CASE Accept(m) /\ m.rows # {}
            <3>1. m.rows \in SUBSET Oids /\ Max(m.rows) \in Oids
                  /\ Cardinality(m.rows) \in Nat
                  BY <2>3, ResponseType, RowsType
            <3> DEFINE x == Max(m.rows)
            <3> HIDE DEF x
            <3>2. got' = got \cup m.rows /\ count' = count + Cardinality(m.rows)
                  /\ cur' = x /\ id' = id + 1 /\ walk' = walk
                  /\ requests' = requests \cup
                        {[id |-> id + 1, kind |-> step, from |-> x]}
                  BY <2>3 DEF Accept, Send, x
            <3>3. x \in Oids BY <3>1 DEF x
            <3>4. [id |-> id + 1, kind |-> step, from |-> x] \in Request
                  BY <3>3 DEF Request, TypeOK
            <3>5. step' = step BY <2>3 DEF Accept
            <3> QED BY <3>5, <1>3, <3>1, <3>2, <3>3, <3>4 DEF Receive, TypeOK
      <2> QED BY <1>3, <2>1, <2>2, <2>3 DEF Receive
<1>4. CASE StartWalk
      <2>1. [id |-> 1, kind |-> step, from |-> 0] \in Request BY DEF Request, TypeOK
      <2> QED BY <1>4, <2>1 DEF StartWalk, Send, TypeOK
<1>5. CASE Retransmit
      <2>1. [id |-> id + 1, kind |-> step, from |-> cur] \in Request
            BY DEF Request, TypeOK
      <2>2. troubles' \in Nat BY <1>5 DEF Retransmit, Trouble, TypeOK
      <2> QED BY <1>5, <2>1, <2>2 DEF Retransmit, Send, TypeOK
<1>6. CASE Poll
      <2>1. ASSUME NEW names \in Polls
            PROVE  [id |-> 0, kind |-> "get", names |-> names] \in Request
            BY OidsAssumption DEF Request
      <2> QED BY <1>6, <2>1 DEF Poll, TypeOK
<1>7. ASSUME NEW m \in requests \cup responses, Lose(m) PROVE TypeOK'
      BY <1>7 DEF Lose, Trouble, TypeOK
<1>8. CASE UNCHANGED vars
      BY <1>8 DEF vars, TypeOK
<1> QED BY <1>1, <1>2, <1>3, <1>4, <1>5, <1>6, <1>7, <1>8 DEF Next

LEMMA TypeInit == Init => TypeOK
BY DEF Init, TypeOK, Snapshot

\* TypeOK holds in every reachable state, for all constants.
THEOREM TypeCorrect == Spec => []TypeOK
<1> QED BY TypeInit, TypeNext, PTL DEF Spec

-----------------------------------------------------------------------------
(* A walk across snapshots *)

\* A message of the request the manager waits for is about where the walk is.
RequestInv ==
    /\ walk = "idle" => id = 0 /\ cur = 0 /\ got = {}
    /\ \A r \in requests : r.kind # "get" =>
           r.id <= id /\ (r.id = id => r.from = cur)

\* Whenever it was given, a reply holds every lasting row between where it
\* starts and its last row, and all of them when it is endOfMibView.
ReplyInv ==
    \A m \in responses : m.kind # "get" =>
        /\ m.id <= id /\ (m.id = id => m.from = cur)
        /\ \A o \in m.rows : o > m.from
        /\ \A o \in Stable, p \in m.rows : m.from < o /\ o <= p => o \in m.rows
        /\ m.rows = {} => \A o \in Stable : o <= m.from

\* The manager has what lasts up to where it is, and nothing beyond.
WalkInv ==
    /\ \A o \in Stable : o <= cur => o \in got
    /\ \A o \in got : o <= cur
    /\ count = Cardinality(got)
    /\ walk = "done" => Stable \subseteq got

IInv == RequestInv /\ ReplyInv /\ WalkInv

LEMMA Naturals ==
    ASSUME TypeOK
    PROVE  /\ Oids \subseteq Nat \ {0} /\ Stable \subseteq Oids
           /\ cur \in Nat /\ id \in Nat /\ count \in Nat
           /\ got \in SUBSET Oids
BY OidsAssumption DEF TypeOK

\* The reply to a request, from the snapshot served at that moment.
LEMMA HandleInv ==
    ASSUME TypeOK, IInv, NEW r \in requests, Handle(r)
    PROVE  IInv'
<1>1. UNCHANGED manager /\ requests' \subseteq requests
      BY DEF Handle
<1>2. RequestInv' BY <1>1 DEF manager, IInv, RequestInv
<1>3. WalkInv' BY <1>1 DEF manager, IInv, WalkInv
<1>4. ReplyInv'
      <2>1. CASE HandleGet(r)
            <3>1. ASSUME NEW m \in responses', m.kind # "get"
                  PROVE  m \in responses
                  BY <2>1, <3>1 DEF HandleGet
            <3> QED BY <3>1, <1>1 DEF manager, IInv, ReplyInv
      <2>2. CASE HandleBulk(r) \/ HandleNext(r)
            <3>1. responses' = responses \cup {Reply(r)} /\ r.kind # "get"
                  BY <2>2, RepliesWith
            <3> DEFINE n == Reply(r)
            <3>2. /\ n.rows \in SUBSET served.oids
                  /\ \A o \in n.rows : o > r.from
                  /\ \A o \in served.oids, p \in n.rows :
                        r.from < o /\ o <= p => o \in n.rows
                  /\ n.rows = {} => After(served.oids, r.from) = {}
                  BY <3>1, ReplyType
            <3>3. n.id = r.id /\ n.from = r.from BY DEF Reply
            <3> HIDE DEF n
            <3>4. Stable \subseteq served.oids BY DEF TypeOK, Snapshot
            <3>5. r.id <= id /\ (r.id = id => r.from = cur)
                  BY <3>1 DEF IInv, RequestInv
            <3>6. ASSUME n.rows = {}, NEW o \in Stable PROVE o <= r.from
                  <4>1. ~(o > r.from) BY <3>2, <3>4, <3>6 DEF After
                  <4>2. o \in Nat /\ r.from \in Nat
                        BY <3>1, RequestType, Naturals
                  <4> QED BY <4>1, <4>2
            <3>7. /\ n.id <= id /\ (n.id = id => n.from = cur)
                  /\ \A o \in n.rows : o > n.from
                  /\ \A o \in Stable, p \in n.rows :
                        n.from < o /\ o <= p => o \in n.rows
                  /\ n.rows = {} => \A o \in Stable : o <= n.from
                  BY <3>2, <3>3, <3>4, <3>5, <3>6
            <3>8. responses' = responses \cup {n} BY <3>1 DEF n
            <3> QED BY <3>7, <3>8, <1>1 DEF manager, IInv, ReplyInv
      <2> QED BY <2>1, <2>2 DEF Handle
<1> QED BY <1>2, <1>3, <1>4 DEF IInv

\* The next request starts where the walk is, under an id not used before.
LEMMA SendInv ==
    ASSUME TypeOK, IInv, NEW x \in Nat, Send(id + 1, x), cur' = x,
           responses' \subseteq responses, walk' = "walking"
    PROVE  RequestInv' /\ ReplyInv'
<1>1. id' = id + 1 /\ id \in Nat BY Naturals DEF Send
<1>2. ASSUME NEW r \in requests', r.kind # "get"
      PROVE  r.id <= id' /\ (r.id = id' => r.from = cur')
      <2>1. CASE r \in requests
            <3>1. r.id <= id /\ r.id \in Nat
                  BY <2>1, <1>2, RequestType DEF IInv, RequestInv
            <3> QED BY <3>1, <1>1
      <2>2. CASE r \notin requests
            <3>1. r = [id |-> id + 1, kind |-> step, from |-> x]
                  BY <2>2, <1>2 DEF Send
            <3> QED BY <3>1, <1>1
      <2> QED BY <2>1, <2>2
<1>3. ASSUME NEW m \in responses', m.kind # "get"
      PROVE  m.id <= id' /\ m.id # id'
      <2>1. m.id <= id /\ m.id \in Nat
            BY <1>3, ResponseType DEF IInv, ReplyInv
      <2> QED BY <2>1, <1>1
<1> QED BY <1>2, <1>3 DEF IInv, RequestInv, ReplyInv

\* Rows of an accepted reply are new, and none that lasts is passed over.
LEMMA AcceptInv ==
    ASSUME TypeOK, IInv, NEW m \in responses, Receive(m), Accept(m)
    PROVE  IInv'
<1>1. /\ m.kind # "get" /\ m.id = id /\ walk = "walking"
      /\ responses' \subseteq responses
      BY DEF Accept, Receive
<1>2. /\ m.from = cur
      /\ \A o \in m.rows : o > cur
      /\ \A o \in Stable, p \in m.rows : cur < o /\ o <= p => o \in m.rows
      /\ m.rows = {} => \A o \in Stable : o <= cur
      BY <1>1 DEF IInv, ReplyInv
<1>3. CASE m.rows = {}
      <2>1. UNCHANGED <<requests, cur, id, got, count>> /\ walk' = "done"
            BY <1>3 DEF Accept
      <2>2. Stable \subseteq got BY <1>2, <1>3 DEF IInv, WalkInv
      <2> QED BY <2>1, <2>2, <1>1 DEF IInv, RequestInv, ReplyInv, WalkInv
<1>4. CASE m.rows # {}
      <2> DEFINE x == Max(m.rows)
                 rows == m.rows
      <2>1. x \in rows /\ \A o \in rows : o <= x BY <1>4, RowsType
      <2>2. rows \in SUBSET Oids BY ResponseType
      <2>3. /\ got' = got \cup rows /\ count' = count + Cardinality(rows)
            /\ cur' = x /\ Send(id + 1, x) /\ walk' = "walking"
            BY <1>4, <1>1 DEF Accept
      <2> HIDE DEF x, rows
      <2>4. x \in Nat /\ cur \in Nat /\ rows \in SUBSET Nat
            BY <2>1, <2>2, Naturals
      <2>5. RequestInv' /\ ReplyInv' BY <2>3, <2>4, <1>1, SendInv
      <2>6. \A o \in rows : o > cur BY <1>2 DEF rows
      <2>7. ASSUME NEW o \in Stable, o <= x PROVE o \in got'
            <3>1. o \in Nat BY Naturals
            <3>2. CASE o <= cur BY <3>2, <2>3 DEF IInv, WalkInv
            <3>3. CASE cur < o BY <3>3, <2>1, <2>3, <2>7, <1>2 DEF rows
            <3> QED BY <3>1, <3>2, <3>3, <2>4
      <2>8. ASSUME NEW o \in got' PROVE o <= x
            <3>1. CASE o \in rows BY <3>1, <2>1
            <3>2. CASE o \in got
                  <4>1. o <= cur /\ o \in Nat
                        BY <3>2, Naturals DEF IInv, WalkInv
                  <4>2. cur < x BY <2>1, <2>6
                  <4> QED BY <4>1, <4>2, <2>4
            <3> QED BY <3>1, <3>2, <2>3
      <2>9. count' = Cardinality(got')
            <3>1. got \cap rows = {}
                  <4> SUFFICES ASSUME NEW o \in got, o \in rows PROVE FALSE
                      OBVIOUS
                  <4>1. o <= cur /\ o \in Nat BY Naturals DEF IInv, WalkInv
                  <4> QED BY <4>1, <2>4, <2>6
            <3>2. IsFiniteSet(got) /\ IsFiniteSet(rows)
                  BY <2>2, Naturals, OidSets
            <3>3. Cardinality(got \cap rows) = 0 BY <3>1, FS_EmptySet
            <3>4. Cardinality(got) \in Nat /\ Cardinality(rows) \in Nat
                  BY <3>2, FS_CardinalityType
            <3>5. Cardinality(got \cup rows) = Cardinality(got)
                        + Cardinality(rows) - Cardinality(got \cap rows)
                  BY <3>2, FS_Union
            <3>6. Cardinality(got \cup rows)
                        = Cardinality(got) + Cardinality(rows)
                  BY <3>3, <3>4, <3>5
            <3> QED BY <3>6, <2>3 DEF IInv, WalkInv
      <2> QED BY <2>3, <2>5, <2>7, <2>8, <2>9 DEF IInv, WalkInv
<1> QED BY <1>3, <1>4

LEMMA InvNext == TypeOK /\ IInv /\ [Next]_vars => IInv'
<1> SUFFICES ASSUME TypeOK, IInv, [Next]_vars PROVE IInv' OBVIOUS
<1>1. CASE UNCHANGED <<net, manager>>
      BY <1>1 DEF net, manager, IInv, RequestInv, ReplyInv, WalkInv
<1>2. CASE Rebuild \/ UNCHANGED vars
      BY <1>2, <1>1 DEF Rebuild, StartBuild, Collect, Swap, BuildFails, vars
<1>3. ASSUME NEW r \in requests, Handle(r) PROVE IInv'
      BY <1>3, HandleInv
<1>4. ASSUME NEW m \in responses, Receive(m) PROVE IInv'
      <2>1. CASE Accept(m) BY <1>4, <2>1, AcceptInv
      <2>2. CASE Ignore(m)
            BY <1>4, <2>2 DEF Receive, Ignore, manager, IInv, RequestInv,
                              ReplyInv, WalkInv
      <2> QED BY <1>4, <2>1, <2>2 DEF Receive
<1>5. CASE StartWalk
      <2>1. /\ UNCHANGED <<cur, got, count, responses>>
            /\ walk' = "walking" /\ id = 0 /\ cur = 0
            BY <1>5 DEF StartWalk, IInv, RequestInv
      <2>2. Send(id + 1, 0) BY <1>5, <2>1 DEF StartWalk
      <2>3. RequestInv' /\ ReplyInv' BY <2>1, <2>2, SendInv
      <2> QED BY <2>1, <2>3 DEF IInv, WalkInv
<1>6. CASE Retransmit
      <2>1. /\ UNCHANGED <<cur, got, count, responses>>
            /\ walk' = "walking" /\ Send(id + 1, cur)
            BY <1>6 DEF Retransmit
      <2>2. RequestInv' /\ ReplyInv' BY <2>1, Naturals, SendInv
      <2> QED BY <2>1, <2>2 DEF IInv, WalkInv
<1>7. CASE Poll
      <2>1. ASSUME NEW r \in requests', r.kind # "get" PROVE r \in requests
            BY <1>7, <2>1 DEF Poll
      <2>2. UNCHANGED <<manager, responses>> BY <1>7 DEF Poll
      <2> QED BY <2>1, <2>2 DEF manager, IInv, RequestInv, ReplyInv, WalkInv
<1>8. ASSUME NEW m \in requests \cup responses, Lose(m) PROVE IInv'
      BY <1>8 DEF Lose, manager, IInv, RequestInv, ReplyInv, WalkInv
<1> QED BY <1>2, <1>3, <1>4, <1>5, <1>6, <1>7, <1>8 DEF Next

LEMMA InvCorrect == Spec => []IInv
<1>1. Init => IInv
      <2> SUFFICES ASSUME Init PROVE IInv OBVIOUS
      <2>1. RequestInv /\ ReplyInv BY DEF Init, RequestInv, ReplyInv
      <2>2. WalkInv
            <3>1. Stable \subseteq Nat \ {0} BY OidsAssumption
            <3>2. \A o \in Stable : ~(o <= 0) BY <3>1
            <3> QED BY <3>2, FS_EmptySet DEF Init, WalkInv
      <2> QED BY <2>1, <2>2 DEF IInv
<1> QED BY <1>1, InvNext, TypeCorrect, PTL DEF Spec

\* A walk that has ended has every row that all snapshots hold, whatever was
\* swapped, lost, delayed, duplicated or asked again on the way.
THEOREM WalkIsComplete == Spec => []WalkComplete
<1>1. IInv => WalkComplete BY DEF IInv, WalkInv, WalkComplete
<1> QED BY <1>1, InvCorrect, PTL

\* A walk collects no row twice.
THEOREM WalkHasNoRepeats == Spec => []ExactlyOnce
<1>1. IInv => ExactlyOnce BY DEF IInv, WalkInv, ExactlyOnce
<1> QED BY <1>1, InvCorrect, PTL

-----------------------------------------------------------------------------
(* Folds *)

\* Induction on the naturals, for a set of them.
LEMMA AllNaturals ==
    ASSUME NEW T \in SUBSET Nat, 0 \in T, \A n \in T : n + 1 \in T
    PROVE  T = Nat
<1> SUFFICES ASSUME Nat \ T # {} PROVE FALSE OBVIOUS
<1>1. Nat \ T \in SUBSET Nat OBVIOUS
<1>2. PICK n \in Nat \ T : \A m \in Nat \ T : n <= m BY <1>1, LeastExists
<1>3. n # 0 BY <1>2
<1>4. n - 1 \in Nat /\ n - 1 < n /\ n = (n - 1) + 1 BY <1>3
<1>5. n - 1 \in T BY <1>2, <1>4
<1> QED BY <1>4, <1>5

\* An element of each non-empty subset of S.
Picks(pick, S) == \A s \in SUBSET S : s # {} => pick[s] \in s

\* g folds h over the subsets of S, from base, in the order that pick gives.
IsFold(g, S, base, pick, h) ==
    /\ g[{}] = base
    /\ \A s \in SUBSET S : s # {} => g[s] = h[<<pick[s], g[s \ {pick[s]}]>>]

\* A function on the subsets of a finite set that is defined, on each, by its
\* value without one element of it.
LEMMA FoldExists ==
    ASSUME NEW S, IsFiniteSet(S), NEW V, NEW base \in V,
           NEW pick, Picks(pick, S), NEW h \in [S \X V -> V]
    PROVE  \E g \in [SUBSET S -> V] : IsFold(g, S, base, pick, h)
<1> DEFINE Small(k) == {s \in SUBSET S : Cardinality(s) <= k}
           Eqn(g, s) == g[s] = IF s = {} THEN base
                               ELSE h[<<pick[s], g[s \ {pick[s]}]>>]
           T == {k \in Nat : \E g \in [Small(k) -> V] : \A s \in Small(k) : Eqn(g, s)}
<1>1. \A s \in SUBSET S : IsFiniteSet(s) /\ Cardinality(s) \in Nat
      BY FS_Subset, FS_CardinalityType
<1>2. \A s \in SUBSET S : s # {} =>
          /\ pick[s] \in S /\ s \ {pick[s]} \in SUBSET S
          /\ Cardinality(s \ {pick[s]}) = Cardinality(s) - 1
      BY <1>1, FS_RemoveElement DEF Picks
<1>3. 0 \in T
      <2> DEFINE g == [s \in Small(0) |-> base]
      <2>1. \A s \in Small(0) : s = {} BY <1>1, FS_EmptySet
      <2>2. g \in [Small(0) -> V] /\ \A s \in Small(0) : Eqn(g, s) BY <2>1
      <2> QED BY <2>2
<1>4. ASSUME NEW k \in T PROVE k + 1 \in T
      <2>1. PICK f \in [Small(k) -> V] : \A s \in Small(k) : Eqn(f, s) OBVIOUS
      <2> DEFINE g == [s \in Small(k + 1) |->
                          IF s = {} THEN base ELSE h[<<pick[s], f[s \ {pick[s]}]>>]]
      <2>2. \A s \in Small(k + 1) : s # {} => s \ {pick[s]} \in Small(k)
            BY <1>1, <1>2
      <2>3. g \in [Small(k + 1) -> V]
            <3>1. ASSUME NEW s \in Small(k + 1), s # {}
                  PROVE  h[<<pick[s], f[s \ {pick[s]}]>>] \in V
                  <4>1. pick[s] \in S /\ f[s \ {pick[s]}] \in V
                        BY <3>1, <1>2, <2>1, <2>2
                  <4> QED BY <4>1
            <3> QED BY <3>1
      <2>4. \A s \in Small(k) : s \in Small(k + 1) /\ g[s] = f[s]
            <3>1. \A s \in Small(k) : s \in Small(k + 1) BY <1>1
            <3>2. ASSUME NEW s \in Small(k) PROVE g[s] = f[s]
                  <4>1. g[s] = IF s = {} THEN base
                               ELSE h[<<pick[s], f[s \ {pick[s]}]>>]
                        BY <3>1
                  <4>2. Eqn(f, s) BY <2>1
                  <4> QED BY <4>1, <4>2
            <3> QED BY <3>1, <3>2
      <2>5. ASSUME NEW s \in Small(k + 1) PROVE Eqn(g, s)
            <3>1. g[s] = IF s = {} THEN base ELSE h[<<pick[s], f[s \ {pick[s]}]>>]
                  OBVIOUS
            <3>2. s # {} => g[s \ {pick[s]}] = f[s \ {pick[s]}] BY <2>2, <2>4
            <3> HIDE DEF g
            <3> QED BY <3>1, <3>2
      <2>6. \E e \in [Small(k + 1) -> V] : \A s \in Small(k + 1) : Eqn(e, s)
            <3> HIDE DEF g, Small, Eqn
            <3> QED BY <2>3, <2>5
      <2>7. k + 1 \in Nat OBVIOUS
      <2> QED BY <2>6, <2>7
<1>5. T = Nat
      <2>1. T \in SUBSET Nat OBVIOUS
      <2> HIDE DEF T
      <2> QED BY <1>3, <1>4, <2>1, AllNaturals
<1>6. Cardinality(S) \in T BY <1>5, FS_CardinalityType
<1>7. Small(Cardinality(S)) = SUBSET S BY FS_Subset
<1>8. PICK g \in [SUBSET S -> V] : \A s \in SUBSET S : Eqn(g, s) BY <1>6, <1>7
<1> QED BY <1>8 DEF IsFold

-----------------------------------------------------------------------------
(* The sizes of rows *)

\* What MapThenSumSet is for the rows of a set.
Sums(S) ==
    CHOOSE g : g = [s \in SUBSET S |->
                       IF s = {} THEN 0
                       ELSE Size[CHOOSE x \in s : TRUE]
                            + g[s \ {CHOOSE x \in s : TRUE}]]

LEMMA SumsAre ==
    ASSUME NEW S \in SUBSET Oids
    PROVE  /\ Sums(S) \in [SUBSET S -> Nat] /\ Sums(S)[{}] = 0
           /\ \A s \in SUBSET S : s # {} =>
                  Sums(S)[s] = Size[CHOOSE x \in s : TRUE]
                               + Sums(S)[s \ {CHOOSE x \in s : TRUE}]
<1> DEFINE pick == [s \in SUBSET S |-> CHOOSE x \in s : TRUE]
           h == [p \in S \X Nat |-> Size[p[1]] + p[2]]
<1>1. IsFiniteSet(S) BY OidSets
<1>2. Picks(pick, S) BY DEF Picks
<1>3. h \in [S \X Nat -> Nat]
      <2>1. \A p \in S \X Nat : Size[p[1]] \in Nat /\ p[2] \in Nat
            BY SizeAssumption
      <2> QED BY <2>1
<1>4. PICK g \in [SUBSET S -> Nat] : IsFold(g, S, 0, pick, h)
      <2> HIDE DEF pick, h
      <2>1. 0 \in Nat OBVIOUS
      <2> QED BY <1>1, <1>2, <1>3, <2>1, FoldExists
<1>5. ASSUME NEW s \in SUBSET S, s # {}
      PROVE  h[<<pick[s], g[s \ {pick[s]}]>>]
               = Size[CHOOSE x \in s : TRUE] + g[s \ {CHOOSE x \in s : TRUE}]
      <2>3. pick[s] = CHOOSE x \in s : TRUE OBVIOUS
      <2>1. pick[s] \in S /\ g[s \ {pick[s]}] \in Nat
            <3> HIDE DEF pick
            <3>1. pick[s] \in S /\ s \ {pick[s]} \in SUBSET S BY <1>2, <1>5 DEF Picks
            <3> QED BY <3>1
      <2> HIDE DEF pick
      <2>2. <<pick[s], g[s \ {pick[s]}]>> \in S \X Nat BY <2>1
      <2>4. h[<<pick[s], g[s \ {pick[s]}]>>] = Size[pick[s]] + g[s \ {pick[s]}]
            BY <2>2
      <2> QED BY <2>3, <2>4
<1>6. g = [s \in SUBSET S |-> IF s = {} THEN 0
                              ELSE Size[CHOOSE x \in s : TRUE]
                                   + g[s \ {CHOOSE x \in s : TRUE}]]
      <2> HIDE DEF pick, h
      <2>1. \A s \in SUBSET S : IF s = {} THEN g[s] = 0
                ELSE g[s] = h[<<pick[s], g[s \ {pick[s]}]>>]
            BY <1>4 DEF IsFold
      <2>2. \A s \in SUBSET S :
                g[s] = IF s = {} THEN 0
                       ELSE Size[CHOOSE x \in s : TRUE]
                            + g[s \ {CHOOSE x \in s : TRUE}]
            BY <1>5, <2>1
      <2> QED BY <2>2
<1>7. Sums(S) = [s \in SUBSET S |-> IF s = {} THEN 0
                              ELSE Size[CHOOSE x \in s : TRUE]
                                   + Sums(S)[s \ {CHOOSE x \in s : TRUE}]]
      BY <1>6, Zenon DEF Sums
<1> DEFINE f == Sums(S)
<1>8. f = [s \in SUBSET S |-> IF s = {} THEN 0
                              ELSE Size[CHOOSE x \in s : TRUE]
                                   + f[s \ {CHOOSE x \in s : TRUE}]]
      BY <1>7
<1> HIDE DEF f
<1>9. /\ f[{}] = 0
      /\ \A s \in SUBSET S : s # {} =>
             f[s] = Size[CHOOSE x \in s : TRUE] + f[s \ {CHOOSE x \in s : TRUE}]
      BY <1>8
<1>10. \A s \in SUBSET S : f[s] \in Nat
      <2> DEFINE T == {k \in Nat : \A s \in SUBSET S : Cardinality(s) = k => f[s] \in Nat}
      <2>1. \A s \in SUBSET S : IsFiniteSet(s) /\ Cardinality(s) \in Nat
            BY <1>1, FS_Subset, FS_CardinalityType
      <2>2. 0 \in T
            <3>1. \A s \in SUBSET S : Cardinality(s) = 0 => s = {}
                  BY <2>1, FS_EmptySet
            <3>2. f[{}] \in Nat BY <1>9
            <3> QED BY <3>1, <3>2
      <2>3. ASSUME NEW k \in T PROVE k + 1 \in T
            <3>1. ASSUME NEW s \in SUBSET S, Cardinality(s) = k + 1
                  PROVE  f[s] \in Nat
                  <4>1. s # {}
                        <5>1. Cardinality({}) = 0 BY FS_EmptySet
                        <5>2. k \in Nat /\ k + 1 # 0 OBVIOUS
                        <5> HIDE DEF T
                        <5> QED BY <5>1, <5>2, <3>1
                  <4> DEFINE c == CHOOSE x \in s : TRUE
                  <4>2. c \in s BY <4>1
                  <4> HIDE DEF c
                  <4>3. Cardinality(s \ {c}) = k
                        <5>1. IsFiniteSet(s) BY <2>1
                        <5>2. Cardinality(s \ {c}) = Cardinality(s) - 1
                              BY <5>1, <4>2, FS_RemoveElement
                        <5>3. k \in Nat OBVIOUS
                        <5> HIDE DEF T
                        <5> QED BY <5>2, <5>3, <3>1
                  <4>4. f[s \ {c}] \in Nat
                        <5>1. s \ {c} \in SUBSET S OBVIOUS
                        <5> QED BY <4>3, <5>1
                  <4>5. Size[c] \in Nat BY <4>2, SizeAssumption
                  <4>6. f[s] = Size[c] + f[s \ {c}] BY <4>1, <1>9 DEF c
                  <4> QED BY <4>4, <4>5, <4>6
            <3> QED BY <3>1
      <2>4. T = Nat
            <3>1. T \in SUBSET Nat OBVIOUS
            <3> HIDE DEF T
            <3> QED BY <3>1, <2>2, <2>3, AllNaturals
      <2> QED BY <2>1, <2>4
<1>11. f \in [SUBSET S -> Nat] BY <1>8, <1>10
<1> QED BY <1>9, <1>11 DEF f

\* Induction on the subsets of a finite set, for a set of them: taking any one
\* element out leaves a smaller one.
LEMMA AllSubsets ==
    ASSUME NEW S, IsFiniteSet(S), NEW Q \in SUBSET SUBSET S, {} \in Q,
           \A s \in SUBSET S : s # {} /\ (\A x \in s : s \ {x} \in Q) => s \in Q
    PROVE  Q = SUBSET S
<1> SUFFICES ASSUME (SUBSET S) \ Q # {} PROVE FALSE OBVIOUS
<1> DEFINE T == {Cardinality(s) : s \in (SUBSET S) \ Q}
<1>1. \A s \in SUBSET S : IsFiniteSet(s) /\ Cardinality(s) \in Nat
      BY FS_Subset, FS_CardinalityType
<1>2. T \in SUBSET Nat /\ T # {} BY <1>1
<1>3. PICK k \in T : \A m \in T : k <= m
      <2> HIDE DEF T
      <2> QED BY <1>2, LeastExists
<1>4. PICK s \in (SUBSET S) \ Q : Cardinality(s) = k OBVIOUS
<1> HIDE DEF T
<1>5. s # {} BY <1>4
<1>6. PICK x \in s : s \ {x} \notin Q BY <1>5
<1>7. Cardinality(s \ {x}) = k - 1 BY <1>1, <1>4, FS_RemoveElement
<1>8. k - 1 \in T
      <2>1. s \ {x} \in (SUBSET S) \ Q BY <1>6
      <2> QED BY <2>1, <1>7 DEF T
<1>9. k \in Nat BY <1>2
<1> QED BY <1>3, <1>8, <1>9

\* What MapThenSumSet computes, by its definition.
LEMMA BytesAre ==
    ASSUME NEW S PROVE Bytes(S) = Sums(S)[S]
BY Zenon DEF Bytes, MapThenSumSet, MapThenFoldSet, Sums

\* The sum over a set does not depend on the set it is taken in.
LEMMA SumsAgree ==
    ASSUME NEW S \in SUBSET Oids, NEW T \in SUBSET S
    PROVE  Sums(T)[T] = Sums(S)[T]
<1> DEFINE f == Sums(T)
           g == Sums(S)
           Q == {s \in SUBSET T : f[s] = g[s]}
<1>1. T \in SUBSET Oids /\ IsFiniteSet(T) /\ SUBSET T \subseteq SUBSET S
      BY OidSets
<1>2. /\ f[{}] = 0 /\ g[{}] = 0
      /\ \A s \in SUBSET T : s # {} =>
             /\ f[s] = Size[CHOOSE x \in s : TRUE] + f[s \ {CHOOSE x \in s : TRUE}]
             /\ g[s] = Size[CHOOSE x \in s : TRUE] + g[s \ {CHOOSE x \in s : TRUE}]
      BY <1>1, SumsAre
<1> HIDE DEF f, g
<1>3. ASSUME NEW s \in SUBSET T, s # {}, \A x \in s : s \ {x} \in Q
      PROVE  s \in Q
      <2> DEFINE c == CHOOSE x \in s : TRUE
      <2>1. c \in s BY <1>3
      <2>2. f[s] = Size[c] + f[s \ {c}] /\ g[s] = Size[c] + g[s \ {c}]
            BY <1>2, <1>3
      <2> HIDE DEF c
      <2>3. f[s \ {c}] = g[s \ {c}] BY <2>1, <1>3
      <2> QED BY <2>2, <2>3
<1>4. {} \in Q BY <1>2
<1>5. Q = SUBSET T
      <2>1. Q \in SUBSET SUBSET T OBVIOUS
      <2> HIDE DEF Q
      <2> QED BY <1>1, <1>3, <1>4, <2>1, AllSubsets
<1> QED BY <1>5 DEF f, g

\* The bytes of rows are the bytes of one of them and of the others, whichever
\* one it is.
LEMMA BytesWithout ==
    ASSUME NEW S \in SUBSET Oids
    PROVE  /\ Bytes(S) \in Nat /\ Bytes({}) = 0
           /\ \A x \in S : Bytes(S) = Size[x] + Bytes(S \ {x})
<1> DEFINE f == Sums(Oids)
<1>0. /\ f \in [SUBSET Oids -> Nat] /\ f[{}] = 0
      /\ \A s \in SUBSET Oids : s # {} =>
             f[s] = Size[CHOOSE x \in s : TRUE] + f[s \ {CHOOSE x \in s : TRUE}]
      BY SumsAre
<1>1. \A s \in SUBSET Oids : Bytes(s) = f[s] BY BytesAre, SumsAgree
<1> HIDE DEF f
<1> DEFINE Q == {s \in SUBSET Oids : \A x \in s : f[s] = Size[x] + f[s \ {x}]}
<1>2. ASSUME NEW s \in SUBSET Oids, s # {}, \A x \in s : s \ {x} \in Q, NEW x \in s
      PROVE  f[s] = Size[x] + f[s \ {x}]
      <2> DEFINE c == CHOOSE y \in s : TRUE
      <2>1. c \in s BY <1>2
      <2>2. f[s] = Size[c] + f[s \ {c}] BY <1>0, <1>2
      <2> HIDE DEF c
      <2>3. CASE c = x BY <2>2, <2>3
      <2>4. CASE c # x
            <3>1. f[s \ {c}] = Size[x] + f[(s \ {c}) \ {x}] BY <2>1, <2>4, <1>2
            <3>2. f[s \ {x}] = Size[c] + f[(s \ {x}) \ {c}] BY <2>1, <2>4, <1>2
            <3>3. (s \ {c}) \ {x} = (s \ {x}) \ {c} OBVIOUS
            <3> DEFINE b == (s \ {x}) \ {c}
            <3>4. Size[x] \in Nat /\ Size[c] \in Nat /\ f[b] \in Nat
                  BY <2>1, <1>0, SizeAssumption
            <3>5. /\ f[s \ {c}] = Size[x] + f[b] /\ f[s \ {x}] = Size[c] + f[b]
                  BY <3>1, <3>2, <3>3
            <3> HIDE DEF b
            <3> QED BY <2>2, <3>4, <3>5
      <2> QED BY <2>3, <2>4
<1>3. Q = SUBSET Oids
      <2>1. Q \in SUBSET SUBSET Oids /\ {} \in Q OBVIOUS
      <2>2. \A s \in SUBSET Oids :
                s # {} /\ (\A x \in s : s \ {x} \in Q) => s \in Q
            BY <1>2
      <2>3. IsFiniteSet(Oids) BY OidsAssumption
      <2> HIDE DEF Q
      <2> QED BY <2>1, <2>2, <2>3, AllSubsets
<1>4. \A x \in S : f[S] = Size[x] + f[S \ {x}] BY <1>3
<1> HIDE DEF Q
<1>5. \A x \in S : S \ {x} \in SUBSET Oids OBVIOUS
<1> QED BY <1>0, <1>1, <1>4, <1>5

-----------------------------------------------------------------------------
(* Bytes of more rows *)

\* More rows are at least as many bytes.
LEMMA BytesMonotone ==
    ASSUME NEW T \in SUBSET Oids, NEW S \in SUBSET T
    PROVE  Bytes(S) <= Bytes(T)
<1> DEFINE Q == {t \in SUBSET Oids : \A s \in SUBSET t : Bytes(s) <= Bytes(t)}
<1>1. ASSUME NEW t \in SUBSET Oids, t # {}, \A x \in t : t \ {x} \in Q,
             NEW s \in SUBSET t
      PROVE  Bytes(s) <= Bytes(t)
      <2>1. Bytes(s) \in Nat /\ Bytes(t) \in Nat BY BytesWithout
      <2>2. CASE s = t BY <2>1, <2>2
      <2>3. CASE s # t
            <3>1. PICK x \in t : x \notin s BY <2>3
            <3>2. Bytes(s) <= Bytes(t \ {x}) BY <3>1, <1>1
            <3>3. Bytes(t) = Size[x] + Bytes(t \ {x}) BY BytesWithout
            <3>4. Bytes(t \ {x}) \in Nat BY BytesWithout
            <3>5. Size[x] \in Nat BY SizeAssumption
            <3> QED BY <2>1, <3>2, <3>3, <3>4, <3>5
      <2> QED BY <2>2, <2>3
<1>2. {} \in Q
      <2>1. Bytes({}) \in Nat BY BytesWithout
      <2> QED BY <2>1
<1>3. Q = SUBSET Oids
      <2>1. Q \in SUBSET SUBSET Oids OBVIOUS
      <2>2. \A s \in SUBSET Oids :
                s # {} /\ (\A x \in s : s \ {x} \in Q) => s \in Q
            BY <1>1
      <2>3. IsFiniteSet(Oids) BY OidsAssumption
      <2> HIDE DEF Q
      <2> QED BY <1>2, <2>1, <2>2, <2>3, AllSubsets
<1> QED BY <1>3

-----------------------------------------------------------------------------
(* Arrays *)

\* The first j entries of r.
Pre(r, j) == {r[i] : i \in 1..j}

\* An array of OIDs holds each of them, and its first j entries are j OIDs.
LEMMA ArrayFacts ==
    ASSUME NEW S \in SUBSET Oids, NEW r \in Arrays(S)
    PROVE  /\ Cardinality(S) \in Nat /\ r \in Seq(Oids) /\ Len(r) = Cardinality(S)
           /\ DOMAIN r = 1..Len(r)
           /\ \A i \in 1..Len(r) : r[i] \in S /\ r[i] \in Nat
           /\ \A i, j \in 1..Len(r) : i < j => r[i] < r[j]
           /\ \A j \in 0..Len(r) : IsFiniteSet(Pre(r, j)) /\ Cardinality(Pre(r, j)) = j
           /\ Pre(r, Len(r)) = S
<1> DEFINE n == Cardinality(S)
<1>1. IsFiniteSet(S) /\ S \in SUBSET Nat BY OidSets
<1>2. n \in Nat BY <1>1, FS_CardinalityType
<1>3. r \in [1..n -> S] /\ \A i, j \in 1..n : i < j => r[i] < r[j]
      BY DEF Arrays
<1> HIDE DEF n
<1>4. r \in Seq(Oids) /\ Len(r) = n /\ DOMAIN r = 1..n
      <2>1. r \in Seq(S) /\ Len(r) = n BY <1>2, <1>3
      <2> QED BY <2>1, <1>3
<1>5. \A i \in 1..n : r[i] \in S /\ r[i] \in Nat BY <1>1, <1>3
<1>6. ASSUME NEW j \in 0..n
      PROVE  IsFiniteSet(Pre(r, j)) /\ Cardinality(Pre(r, j)) = j
      <2> DEFINE f == [i \in 1..j |-> r[i]]
      <2>1. 1..j \subseteq 1..n BY <1>2
      <2>2. \A i, k \in 1..j : i # k => r[i] # r[k]
            <3> SUFFICES ASSUME NEW i \in 1..j, NEW k \in 1..j, i < k
                         PROVE  r[i] # r[k]
                BY <1>2
            <3>1. r[i] < r[k] /\ r[i] \in Nat /\ r[k] \in Nat
                  BY <2>1, <1>3, <1>5
            <3> QED BY <3>1
      <2>3. f \in Bijection(1..j, Pre(r, j))
            <3>1. f \in Surjection(1..j, Pre(r, j)) BY DEF Surjection, Pre
            <3>2. f \in Injection(1..j, Pre(r, j))
                  BY <2>2 DEF Injection, Pre, IsInjective
            <3> QED BY <3>1, <3>2 DEF Bijection
      <2>4. ExistsBijection(1..j, Pre(r, j)) BY <2>3 DEF ExistsBijection
      <2>5. IsFiniteSet(1..j) /\ Cardinality(1..j) = j
            BY <1>2, FS_Interval
      <2> QED BY <2>4, <2>5, FS_Bijection
<1>7. Pre(r, n) = S
      <2>1. Pre(r, n) \in SUBSET S BY <1>5 DEF Pre
      <2>2. n \in 0..n BY <1>2
      <2>3. Cardinality(Pre(r, n)) = n BY <1>6, <2>2
      <2> QED BY <1>1, <2>1, <2>3, FS_Subset DEF n
<1> QED BY <1>2, <1>3, <1>4, <1>5, <1>6, <1>7 DEF n

\* A set of positions that has, with one of them, all those before it.
LEMMA LowPositions ==
    ASSUME NEW n \in Nat, NEW D \in SUBSET (1..n),
           \A j \in D : \A i \in 1..n : i <= j => i \in D
    PROVE  Cardinality(D) \in 0..n /\ D = 1..Cardinality(D)
<1>1. CASE D = {}
      <2>1. Cardinality(D) = 0 BY <1>1, FS_EmptySet
      <2> QED BY <1>1, <2>1
<1>2. CASE D # {}
      <2>1. IsFiniteSet(D)
            <3>1. IsFiniteSet(1..n) BY FS_Interval
            <3> QED BY <3>1, FS_Subset
      <2>2. D \in SUBSET Nat OBVIOUS
      <2>3. PICK d \in D : \A y \in D : y <= d BY <1>2, <2>1, <2>2, GreatestExists
      <2>4. d \in 1..n OBVIOUS
      <2>5. D = 1..d
            <3>1. D \subseteq 1..d BY <2>3
            <3>2. \A i \in 1..d : i \in 1..n /\ i <= d BY <2>4
            <3> QED BY <3>1, <3>2
      <2>6. Cardinality(1..d) = d BY <2>4, FS_Interval
      <2> QED BY <2>4, <2>5, <2>6
<1> QED BY <1>1, <1>2

\* What follows x in an array is an array.
LEMMA RestIsArray ==
    ASSUME NEW S \in SUBSET Oids, NEW oids \in Arrays(S), NEW x \in Oids \cup {0}
    PROVE  SubSeq(oids, BisectRight(oids, x), Len(oids)) \in Arrays(After(S, x))
<1> DEFINE n == Len(oids)
           D == {i \in DOMAIN oids : oids[i] <= x}
           m == Cardinality(D)
           rest == SubSeq(oids, BisectRight(oids, x), Len(oids))
<1>1. /\ n \in Nat /\ DOMAIN oids = 1..n /\ oids \in Seq(Oids)
      /\ \A i \in 1..n : oids[i] \in S /\ oids[i] \in Nat
      /\ \A i, j \in 1..n : i < j => oids[i] < oids[j]
      /\ Pre(oids, n) = S
      BY ArrayFacts
<1>2. x \in Nat BY OidsAssumption
<1>3. BisectRight(oids, x) = m + 1 BY DEF BisectRight
<1> HIDE DEF n
<1>4. D \in SUBSET (1..n) BY <1>1
<1>5. ASSUME NEW j \in D, NEW i \in 1..n, i <= j PROVE i \in D
      <2>1. j \in 1..n /\ oids[j] <= x BY <1>4
      <2>2. i = j \/ i < j BY <2>1, <1>1, <1>5
      <2>3. oids[i] <= oids[j]
            <3>1. oids[i] \in Nat /\ oids[j] \in Nat BY <1>1, <2>1
            <3> QED BY <3>1, <2>1, <2>2, <1>1
      <2>4. oids[i] <= x BY <2>1, <2>3, <1>1, <1>2
      <2> QED BY <2>4, <1>1
<1>6. m \in 0..n /\ D = 1..m
      <2> HIDE DEF D
      <2> QED BY <1>1, <1>4, <1>5, LowPositions
<1>7. \A i \in 1..n : i <= m <=> oids[i] <= x
      <2>1. \A i \in 1..n : i \in D <=> oids[i] <= x BY <1>1
      <2>2. \A i \in 1..n : i \in 1..m <=> i <= m BY <1>6
      <2> QED BY <2>1, <2>2, <1>6
<1> HIDE DEF m
<1>8. /\ Len(rest) = n - m /\ rest \in Seq(Oids)
      /\ \A i \in 1..(n - m) : rest[i] = oids[i + m]
      <2>1. \A i \in (m + 1)..n : oids[i] \in Oids BY <1>1, <1>6
      <2>2. m + 1 \in Int /\ n \in Int BY <1>1, <1>6
      <2>3. /\ SubSeq(oids, m + 1, n) \in Seq(Oids)
            /\ Len(SubSeq(oids, m + 1, n)) = IF m + 1 <= n THEN n - (m + 1) + 1 ELSE 0
            /\ \A i \in 1..(n - (m + 1) + 1) :
                   SubSeq(oids, m + 1, n)[i] = oids[(m + 1) + i - 1]
            BY <2>1, <2>2, SubSeqProperties
      <2>4. rest = SubSeq(oids, m + 1, n) BY <1>3 DEF n
      <2> DEFINE q == SubSeq(oids, m + 1, n)
      <2>5. /\ q \in Seq(Oids)
            /\ Len(q) = IF m + 1 <= n THEN n - (m + 1) + 1 ELSE 0
            /\ \A i \in 1..(n - (m + 1) + 1) : q[i] = oids[(m + 1) + i - 1]
            BY <2>3
      <2> HIDE DEF q, rest
      <2>6. Len(q) = n - m BY <2>5, <1>1, <1>6
      <2>7. ASSUME NEW i \in 1..(n - m) PROVE q[i] = oids[i + m]
            <3>1. n - m = n - (m + 1) + 1 /\ (m + 1) + i - 1 = i + m BY <1>1, <1>6
            <3> QED BY <3>1, <2>5
      <2> QED BY <2>4, <2>5, <2>6, <2>7 DEF q
<1> HIDE DEF rest
<1>9. ASSUME NEW i \in 1..(n - m)
      PROVE  i + m \in 1..n /\ rest[i] = oids[i + m] /\ rest[i] \in After(S, x)
      <2>1. i + m \in 1..n /\ ~(i + m <= m) BY <1>1, <1>6
      <2>2. ~(oids[i + m] <= x) /\ oids[i + m] \in S /\ oids[i + m] \in Nat
            BY <2>1, <1>1, <1>7
      <2>3. oids[i + m] > x BY <2>2, <1>2
      <2> QED BY <2>1, <2>2, <2>3, <1>8 DEF After
<1>10. \A i, j \in 1..(n - m) : i < j => rest[i] < rest[j]
      <2> SUFFICES ASSUME NEW i \in 1..(n - m), NEW j \in 1..(n - m), i < j
                   PROVE  rest[i] < rest[j]
          OBVIOUS
      <2>1. i + m < j + m BY <1>6, <1>1
      <2>2. i + m \in 1..n /\ j + m \in 1..n BY <1>9
      <2>3. oids[i + m] < oids[j + m] BY <2>1, <2>2, <1>1
      <2> QED BY <2>3, <1>9
<1>11. \A o \in After(S, x) : \E i \in 1..(n - m) : rest[i] = o
      <2> TAKE o \in After(S, x)
      <2>1. o \in S /\ o > x BY DEF After
      <2>2. PICK j \in 1..n : oids[j] = o BY <2>1, <1>1 DEF Pre
      <2>3. ~(j <= m) BY <2>1, <2>2, <1>1, <1>2, <1>7
      <2>4. j - m \in 1..(n - m) /\ (j - m) + m = j BY <2>3, <1>1, <1>6
      <2> QED BY <2>2, <2>4, <1>9
<1>12. Cardinality(After(S, x)) = n - m
      <2> DEFINE k == n - m
      <2>1. k \in Nat BY <1>1, <1>6
      <2>2. rest \in [1..k -> After(S, x)]
            <3>1. rest \in [1..k -> Oids] BY <1>8
            <3> QED BY <3>1, <1>9
      <2>3. \A i, j \in 1..k : i # j => rest[i] # rest[j]
            <3> SUFFICES ASSUME NEW i \in 1..k, NEW j \in 1..k, i < j
                         PROVE  rest[i] # rest[j]
                BY <2>1
            <3>1. i + m \in 1..n /\ j + m \in 1..n BY <1>9
            <3>2. rest[i] \in Nat /\ rest[j] \in Nat BY <3>1, <1>1, <1>9
            <3> QED BY <3>2, <1>10
      <2>4. \A o \in After(S, x) : \E i \in 1..k : rest[i] = o BY <1>11
      <2> HIDE DEF k
      <2>5. rest \in Bijection(1..k, After(S, x))
            <3>1. rest \in Surjection(1..k, After(S, x))
                  BY <2>2, <2>4 DEF Surjection
            <3>2. rest \in Injection(1..k, After(S, x))
                  BY <2>2, <2>3 DEF Injection, IsInjective
            <3> QED BY <3>1, <3>2 DEF Bijection
      <2>6. ExistsBijection(1..k, After(S, x)) BY <2>5 DEF ExistsBijection
      <2>7. IsFiniteSet(1..k) /\ Cardinality(1..k) = k BY <2>1, FS_Interval
      <2> QED BY <2>6, <2>7, FS_Bijection DEF k
<1>13. rest \in [1..(n - m) -> After(S, x)]
      <2>1. rest \in [1..(n - m) -> Oids] BY <1>8
      <2> QED BY <2>1, <1>9
<1> QED BY <1>10, <1>12, <1>13 DEF Arrays, rest

-----------------------------------------------------------------------------
(* The loop *)

Turns == [out : Seq(Oids), used : Nat, stop : BOOLEAN]

Start == [out |-> <<>>, used |-> 0, stop |-> FALSE]

\* What FoldLeft is for the loop over r: where it is after each set of turns.
LoopOf(r) ==
    CHOOSE g : g = [s \in SUBSET DOMAIN r |->
                       IF s = {} THEN Start
                       ELSE SliceStep(g[s \ {Max(s)}], r[Max(s)])]

\* What the loop computes, by the definition of FoldLeft.
LEMMA LoopIs ==
    ASSUME NEW oids, NEW x
    PROVE  LET rest == SubSeq(oids, BisectRight(oids, x), Len(oids))
           IN ReadNextSlice(oids, x) = LoopOf(rest)[DOMAIN rest].out
BY Zenon DEF ReadNextSlice, FoldLeft, MapThenFoldSet, LoopOf, Start

LEMMA TurnType ==
    ASSUME NEW a \in Turns, NEW o \in Oids
    PROVE  SliceStep(a, o) \in Turns
<1>1. a.used + Size[o] \in Nat BY SizeAssumption DEF Turns
<1>2. Append(a.out, o) \in Seq(Oids) BY DEF Turns
<1> QED BY <1>1, <1>2 DEF SliceStep, Turns

\* The loop starts before the first entry, and turn k takes entry k.
LEMMA LoopTurns ==
    ASSUME NEW r \in Seq(Oids)
    PROVE  LET at == [k \in 0..Len(r) |-> LoopOf(r)[1..k]] IN
           /\ at[0] = Start
           /\ \A k \in 1..Len(r) : at[k] = SliceStep(at[k - 1], r[k])
<1> DEFINE n == Len(r)
           S == 1..n
           pick == [s \in SUBSET S |-> Max(s)]
           h == [p \in S \X Turns |-> SliceStep(p[2], r[p[1]])]
<1>1. n \in Nat /\ DOMAIN r = S /\ IsFiniteSet(S) /\ S \in SUBSET Nat
      BY FS_Interval
<1> HIDE DEF n
<1>2. Picks(pick, S)
      <2>1. ASSUME NEW s \in SUBSET S, s # {} PROVE Max(s) \in s
            <3>1. IsFiniteSet(s) /\ s \in SUBSET Nat BY <1>1, FS_Subset
            <3> QED BY <3>1, <2>1, MaxIsGreatest
      <2> QED BY <2>1 DEF Picks
<1>3. h \in [S \X Turns -> Turns]
      <2>1. \A p \in S \X Turns : r[p[1]] \in Oids /\ p[2] \in Turns
            BY <1>1
      <2>2. \A p \in S \X Turns : SliceStep(p[2], r[p[1]]) \in Turns
            BY <2>1, TurnType
      <2> QED BY <2>2
<1>4. Start \in Turns BY DEF Start, Turns
<1>5. PICK g \in [SUBSET S -> Turns] : IsFold(g, S, Start, pick, h)
      <2> HIDE DEF S, pick, h
      <2> QED BY <1>1, <1>2, <1>3, <1>4, FoldExists
<1>6. ASSUME NEW s \in SUBSET S, s # {}
      PROVE  g[s] = SliceStep(g[s \ {Max(s)}], r[Max(s)])
      <2>1. Max(s) \in S /\ pick[s] = Max(s) BY <1>2, <1>6 DEF Picks
      <2>2. g[s] = h[<<Max(s), g[s \ {Max(s)}]>>] BY <1>5, <1>6, <2>1 DEF IsFold
      <2>3. g[s \ {Max(s)}] \in Turns OBVIOUS
      <2>4. <<Max(s), g[s \ {Max(s)}]>> \in S \X Turns BY <2>1, <2>3
      <2> DEFINE p == <<Max(s), g[s \ {Max(s)}]>>
      <2>5. h[p] = SliceStep(p[2], r[p[1]]) BY <2>4
      <2>6. p[1] = Max(s) /\ p[2] = g[s \ {Max(s)}] OBVIOUS
      <2> HIDE DEF h, pick
      <2> QED BY <2>2, <2>5, <2>6
<1>7. g = [s \in SUBSET S |-> IF s = {} THEN Start
                              ELSE SliceStep(g[s \ {Max(s)}], r[Max(s)])]
      <2> HIDE DEF pick, h
      <2>1. \A s \in SUBSET S :
                g[s] = IF s = {} THEN Start
                       ELSE SliceStep(g[s \ {Max(s)}], r[Max(s)])
            BY <1>5, <1>6 DEF IsFold
      <2> QED BY <2>1
<1> DEFINE f == LoopOf(r)
<1>8. f = [s \in SUBSET S |-> IF s = {} THEN Start
                              ELSE SliceStep(f[s \ {Max(s)}], r[Max(s)])]
      <2> HIDE DEF S, pick, h
      <2> QED BY <1>1, <1>7, Zenon DEF LoopOf
<1> HIDE DEF f
<1>9. /\ f[{}] = Start
      /\ \A s \in SUBSET S :
             s # {} => f[s] = SliceStep(f[s \ {Max(s)}], r[Max(s)])
      BY <1>8
<1>10. 1..0 = {} OBVIOUS
<1>11. ASSUME NEW k \in 1..n
       PROVE  f[1..k] = SliceStep(f[1..(k - 1)], r[k])
       <2>2. k \in 1..k /\ \A i \in 1..k : i <= k BY <1>1
       <2>1. 1..k \in SUBSET S /\ 1..k # {}
             <3>1. \A i \in 1..k : i \in 1..n BY <1>1
             <3> QED BY <2>2, <3>1
       <2>3. Max(1..k) = k
             <3>1. IsFiniteSet(1..k) /\ 1..k \in SUBSET Nat
                   BY <1>1, <2>1, FS_Subset
             <3>2. Max(1..k) \in 1..k /\ \A y \in 1..k : y <= Max(1..k)
                   BY <2>1, <3>1, MaxIsGreatest
             <3> DEFINE m == Max(1..k)
             <3>3. m \in 1..k /\ k <= m BY <2>2, <3>2
             <3> HIDE DEF m
             <3>4. m = k BY <3>3
             <3> QED BY <3>4 DEF m
       <2>4. (1..k) \ {k} = 1..(k - 1) BY <1>1
       <2> QED BY <1>9, <2>1, <2>3, <2>4
<1>12. \A k \in 1..n : k \in 0..n /\ k - 1 \in 0..n BY <1>1
<1>13. 0 \in 0..n BY <1>1
<1> QED BY <1>9, <1>10, <1>11, <1>12, <1>13 DEF n, f

-----------------------------------------------------------------------------
(* What the loop has after k turns *)

\* The loop has the first entries, as many as fit: all k while it goes on, and
\* one more would not fit once it has stopped.
LoopInv(a, r, k) ==
    LET c == Len(a.out) IN
    /\ a \in Turns /\ c \in 0..k
    /\ \A i \in 1..c : a.out[i] = r[i]
    /\ a.used = Bytes(Pre(r, c))
    /\ Fits(Pre(r, c))
    /\ IF a.stop THEN c < Len(r) /\ ~Fits(Pre(r, c + 1)) ELSE c = k

\* Taking one more entry adds its bytes.
LEMMA PreAdd ==
    ASSUME NEW S \in SUBSET Oids, NEW r \in Arrays(S), NEW c \in 0..(Len(r) - 1)
    PROVE  /\ Pre(r, c) \in SUBSET Oids /\ Pre(r, c + 1) \in SUBSET Oids
           /\ Cardinality(Pre(r, c)) = c /\ Cardinality(Pre(r, c + 1)) = c + 1
           /\ r[c + 1] \in Oids
           /\ Bytes(Pre(r, c)) \in Nat /\ Size[r[c + 1]] \in Nat
           /\ Bytes(Pre(r, c + 1)) = Bytes(Pre(r, c)) + Size[r[c + 1]]
<1> DEFINE n == Len(r)
<1>1. /\ n \in Nat
      /\ \A i \in 1..n : r[i] \in S /\ r[i] \in Nat
      /\ \A i, j \in 1..n : i < j => r[i] < r[j]
      /\ \A j \in 0..n : IsFiniteSet(Pre(r, j)) /\ Cardinality(Pre(r, j)) = j
      BY ArrayFacts
<1> HIDE DEF n
<1>2. c \in 0..(n - 1) BY DEF n
<1>3. c \in 0..n /\ c + 1 \in 0..n /\ c + 1 \in 1..n BY <1>1, <1>2
<1>4. \A i \in 1..(c + 1) : i \in 1..n /\ (i \in 1..c \/ i = c + 1)
      BY <1>1, <1>2
<1>5. \A i \in 1..c : i \in 1..(c + 1) BY <1>2
<1>6. Pre(r, c) \in SUBSET Oids /\ Pre(r, c + 1) \in SUBSET Oids
      BY <1>1, <1>4, <1>5 DEF Pre
<1>7. \A i \in 1..c : r[i] # r[c + 1]
      <2> TAKE i \in 1..c
      <2>1. i \in 1..n /\ i < c + 1 BY <1>2, <1>4, <1>5
      <2>2. r[i] < r[c + 1] /\ r[i] \in Nat /\ r[c + 1] \in Nat
            BY <2>1, <1>1, <1>3
      <2> QED BY <2>2
<1>8. r[c + 1] \in Pre(r, c + 1) /\ Pre(r, c + 1) \ {r[c + 1]} = Pre(r, c)
      <2>1. c + 1 \in 1..(c + 1) BY <1>2
      <2> QED BY <2>1, <1>4, <1>5, <1>7 DEF Pre
<1>9. Bytes(Pre(r, c + 1)) = Size[r[c + 1]] + Bytes(Pre(r, c))
      BY <1>6, <1>8, BytesWithout
<1>10. Bytes(Pre(r, c)) \in Nat BY <1>6, BytesWithout
<1>11. r[c + 1] \in Oids /\ Size[r[c + 1]] \in Nat
       BY <1>6, <1>8, SizeAssumption
<1>12. Bytes(Pre(r, c + 1)) = Bytes(Pre(r, c)) + Size[r[c + 1]]
       BY <1>9, <1>10, <1>11
<1> QED BY <1>1, <1>3, <1>6, <1>10, <1>11, <1>12

LEMMA LoopStart ==
    ASSUME NEW S \in SUBSET Oids, NEW r \in Arrays(S)
    PROVE  LoopInv(Start, r, 0)
<1>1. Pre(r, 0) = {} BY DEF Pre
<1>2. Cardinality({}) = 0 BY FS_EmptySet
<1>3. Bytes({}) = 0 BY BytesWithout
<1>4. Fits({}) BY <1>2, CountAssumption DEF Fits, Repetitions
<1>5. Len(Start.out) = 0 /\ Start.stop = FALSE /\ Start.used = 0
      BY DEF Start
<1>6. Start \in Turns BY DEF Start, Turns
<1> DEFINE c == Len(Start.out)
<1>7. c = 0 BY <1>5
<1> HIDE DEF c
<1>8. c \in 0..0 /\ 1..c = {} BY <1>7
<1>9. Pre(r, c) = {} BY <1>1, <1>7
<1> QED BY <1>3, <1>4, <1>5, <1>6, <1>7, <1>8, <1>9 DEF LoopInv, c

LEMMA LoopTurn ==
    ASSUME NEW S \in SUBSET Oids, NEW r \in Arrays(S), NEW k \in 1..Len(r),
           NEW a, LoopInv(a, r, k - 1)
    PROVE  LoopInv(SliceStep(a, r[k]), r, k)
<1> DEFINE n == Len(r)
           c == Len(a.out)
           b == SliceStep(a, r[k])
<1>1. n \in Nat /\ r \in Seq(Oids) BY ArrayFacts
<1>2. /\ a \in Turns /\ c \in 0..(k - 1)
      /\ \A i \in 1..c : a.out[i] = r[i]
      /\ a.used = Bytes(Pre(r, c)) /\ Fits(Pre(r, c))
      /\ IF a.stop THEN c < n /\ ~Fits(Pre(r, c + 1)) ELSE c = k - 1
      BY DEF LoopInv
<1>3. a.out \in Seq(Oids) /\ a.used \in Nat /\ a.stop \in BOOLEAN
      BY <1>2 DEF Turns
<1>4. c \in 0..(n - 1) /\ c \in 0..k BY <1>1, <1>2
<1>5. /\ Cardinality(Pre(r, c + 1)) = c + 1 /\ r[c + 1] \in Oids
      /\ Cardinality(Pre(r, c)) = c
      /\ Bytes(Pre(r, c + 1)) = Bytes(Pre(r, c)) + Size[r[c + 1]]
      /\ Size[r[c + 1]] \in Nat
      BY <1>4, PreAdd
<1>6. Repetitions \in Nat /\ Budget \in Nat
      BY CountAssumption, SizeAssumption DEF Repetitions
<1>7. ASSUME ~Fits(Pre(r, c + 1)), b = [a EXCEPT !.stop = TRUE]
      PROVE  LoopInv(b, r, k)
      <2>1. b.out = a.out /\ b.used = a.used /\ b.stop = TRUE /\ b \in Turns
            BY <1>2, <1>7 DEF Turns
      <2>2. c < n BY <1>1, <1>4
      <2> HIDE DEF b
      <2> QED BY <1>2, <1>4, <1>7, <2>1, <2>2 DEF LoopInv
<1>8. CASE a.stop = TRUE
      <2>1. b = [a EXCEPT !.stop = TRUE] BY <1>8 DEF SliceStep
      <2> QED BY <1>2, <1>7, <1>8, <2>1
<1>9. CASE a.stop = FALSE
      <2>1. c = k - 1 BY <1>2, <1>9
      <2>2. c + 1 = k BY <2>1
      <2>3. CASE c >= Repetitions
            <3>1. b = [a EXCEPT !.stop = TRUE] BY <2>3 DEF SliceStep
            <3>2. ~(c + 1 <= Repetitions) BY <2>3, <1>4, <1>6
            <3>3. ~Fits(Pre(r, c + 1)) BY <3>2, <1>5 DEF Fits
            <3> QED BY <3>1, <3>3, <1>7
      <2>4. CASE a.out # <<>> /\ a.used + Size[r[k]] > Budget
            <3>1. b = [a EXCEPT !.stop = TRUE] BY <2>4 DEF SliceStep
            <3>2. c # 0 BY <2>4, <1>3
            <3>3. ~(c + 1 <= 1) BY <3>2, <1>4
            <3>4. Bytes(Pre(r, c + 1)) > Budget BY <2>2, <2>4, <1>2, <1>5
            <3>5. ~(Bytes(Pre(r, c + 1)) <= Budget)
                  BY <3>4, <1>2, <1>3, <1>5, <1>6
            <3>6. ~Fits(Pre(r, c + 1)) BY <3>3, <3>5, <1>5 DEF Fits
            <3> QED BY <3>1, <3>6, <1>7
      <2>5. CASE /\ ~(c >= Repetitions)
                 /\ ~(a.out # <<>> /\ a.used + Size[r[k]] > Budget)
            <3>1. b = [a EXCEPT !.out = Append(@, r[k]), !.used = @ + Size[r[k]]]
                  BY <2>5, <1>9 DEF SliceStep
            <3>2. /\ b.out = Append(a.out, r[k]) /\ b.used = a.used + Size[r[k]]
                  /\ b.stop = FALSE
                  BY <3>1, <1>2, <1>3, <1>9 DEF Turns
            <3>3. b \in Turns BY <1>2, <1>5, <2>2, TurnType
            <3> HIDE DEF b
            <3>4. Len(b.out) = c + 1 BY <3>2, <1>3
            <3>5. \A i \in 1..(c + 1) : b.out[i] = r[i]
                  <4> TAKE i \in 1..(c + 1)
                  <4>1. CASE i \in 1..c
                        <5>1. b.out[i] = a.out[i] BY <4>1, <3>2, <1>3
                        <5> QED BY <5>1, <4>1, <1>2
                  <4>2. CASE i = c + 1
                        <5>1. b.out[c + 1] = r[k] BY <3>2, <1>3
                        <5> QED BY <5>1, <4>2, <2>2
                  <4>3. i \in 1..c \/ i = c + 1 BY <1>4
                  <4> QED BY <4>1, <4>2, <4>3
            <3>6. b.used = Bytes(Pre(r, c + 1)) BY <3>2, <1>2, <1>5, <2>2
            <3>7. Fits(Pre(r, c + 1))
                  <4>1. c + 1 <= Repetitions BY <2>5, <1>4, <1>6
                  <4>2. c + 1 <= 1 \/ Bytes(Pre(r, c + 1)) <= Budget
                        <5>1. CASE a.out = <<>>
                              <6>1. c = 0 BY <5>1
                              <6> QED BY <6>1
                        <5>2. CASE ~(a.used + Size[r[k]] > Budget)
                              <6>1. a.used + Size[r[k]] = Bytes(Pre(r, c + 1))
                                    BY <1>2, <1>5, <2>2
                              <6>2. a.used + Size[r[k]] \in Nat
                                    BY <1>3, <1>5, <2>2
                              <6> QED BY <5>2, <6>1, <6>2, <1>6
                        <5> QED BY <5>1, <5>2, <2>5
                  <4> QED BY <4>1, <4>2, <1>5 DEF Fits
            <3>8. c + 1 \in 0..k BY <2>2, <1>4
            <3>9. LoopInv(b, r, k)
                  <4> HIDE DEF c
                  <4> QED BY <3>2, <3>3, <3>4, <3>5, <3>6, <3>7, <3>8, <2>2
                          DEF LoopInv
            <3> QED BY <3>9 DEF b
      <2> QED BY <2>3, <2>4, <2>5
<1> QED BY <1>3, <1>8, <1>9

\* So after the last turn.
LEMMA LoopEnds ==
    ASSUME NEW S \in SUBSET Oids, NEW r \in Arrays(S)
    PROVE  LoopInv(LoopOf(r)[DOMAIN r], r, Len(r))
<1> DEFINE n == Len(r)
           at == [k \in 0..n |-> LoopOf(r)[1..k]]
           T == {k \in Nat : k <= n => LoopInv(at[k], r, k)}
<1>1. n \in Nat /\ r \in Seq(Oids) /\ DOMAIN r = 1..n BY ArrayFacts
<1>2. at[0] = Start /\ \A k \in 1..n : at[k] = SliceStep(at[k - 1], r[k])
      BY <1>1, LoopTurns
<1>3. at[n] = LoopOf(r)[DOMAIN r]
      <2>1. n \in 0..n BY <1>1
      <2> HIDE DEF n
      <2> QED BY <1>1, <2>1
<1> HIDE DEF at
<1>4. 0 \in T BY <1>2, LoopStart
<1>5. ASSUME NEW k \in T PROVE k + 1 \in T
      <2>1. k \in Nat /\ k + 1 \in Nat OBVIOUS
      <2>2. ASSUME k + 1 <= n PROVE LoopInv(at[k + 1], r, k + 1)
            <3>1. k <= n BY <2>1, <2>2, <1>1
            <3>2. LoopInv(at[k], r, k) BY <3>1
            <3>3. k + 1 \in 1..n /\ (k + 1) - 1 = k BY <2>1, <2>2, <1>1
            <3>4. LoopInv(SliceStep(at[k], r[k + 1]), r, k + 1)
                  BY <3>2, <3>3, LoopTurn
            <3>5. at[k + 1] = SliceStep(at[k], r[k + 1]) BY <3>3, <1>2
            <3> QED BY <3>4, <3>5
      <2> QED BY <2>1, <2>2
<1>6. T = Nat
      <2>1. T \in SUBSET Nat OBVIOUS
      <2> HIDE DEF T
      <2> QED BY <1>4, <1>5, <2>1, AllNaturals
<1>7. n \in T BY <1>1, <1>6
<1>8. n <= n BY <1>1
<1>9. LoopInv(at[n], r, n) BY <1>7, <1>8
<1> QED BY <1>3, <1>9

\* The first entries that fit, where one more would not, are the slice.
LEMMA SliceIsPrefix ==
    ASSUME NEW S \in SUBSET Oids, NEW x \in Oids \cup {0},
           NEW r \in Arrays(After(S, x)), NEW c \in 0..Len(r),
           Fits(Pre(r, c)), c < Len(r) => ~Fits(Pre(r, c + 1))
    PROVE  NextSlice(S, x) = Pre(r, c)
<1> DEFINE n == Len(r)
           A == After(S, x)
           ends == {y \in A : Fits(Page(S, x, y))}
<1>0. A \in SUBSET Oids /\ A \in SUBSET Nat BY OidsAssumption DEF After
<1>1. /\ n \in Nat
      /\ \A i \in 1..n : r[i] \in A /\ r[i] \in Nat
      /\ \A i, j \in 1..n : i < j => r[i] < r[j]
      /\ \A j \in 0..n : IsFiniteSet(Pre(r, j)) /\ Cardinality(Pre(r, j)) = j
      /\ Pre(r, n) = A
      BY <1>0, ArrayFacts
<1> HIDE DEF n
<1>2. c \in 0..n /\ (c < n => ~Fits(Pre(r, c + 1))) BY DEF n
<1>3. \A i, j \in 1..n : i <= j <=> r[i] <= r[j]
      <2> TAKE i, j \in 1..n
      <2>1. i < j \/ i = j \/ j < i BY <1>1
      <2>2. r[i] \in Nat /\ r[j] \in Nat BY <1>1
      <2>3. i < j => r[i] < r[j] BY <1>1
      <2>4. j < i => r[j] < r[i] BY <1>1
      <2> QED BY <2>1, <2>2, <2>3, <2>4
<1>4. ASSUME NEW j \in 1..n PROVE Page(S, x, r[j]) = Pre(r, j)
      <2>1. \A i \in 1..j : i \in 1..n /\ i <= j BY <1>1
      <2>2. Pre(r, j) \subseteq Page(S, x, r[j])
            BY <2>1, <1>1, <1>3 DEF Pre, Page
      <2>3. ASSUME NEW o \in Page(S, x, r[j]) PROVE o \in Pre(r, j)
            <3>1. o \in A /\ o <= r[j] BY DEF Page
            <3>2. PICK i \in 1..n : r[i] = o BY <3>1, <1>1 DEF Pre
            <3>3. i <= j BY <3>1, <3>2, <1>3
            <3>4. i \in 1..j BY <3>3, <1>1
            <3> QED BY <3>2, <3>4 DEF Pre
      <2> QED BY <2>2, <2>3
<1>5. ASSUME NEW i \in 0..n, NEW j \in 0..n, i <= j, Fits(Pre(r, j))
      PROVE  Fits(Pre(r, i))
      <2>1. \A p \in 1..i : p \in 1..j BY <1>1, <1>5
      <2>2. \A p \in 1..j : p \in 1..n BY <1>1
      <2>3. Pre(r, i) \in SUBSET Pre(r, j) /\ Pre(r, j) \in SUBSET Oids
            /\ Pre(r, i) \in SUBSET Oids
            BY <2>1, <2>2, <1>0, <1>1 DEF Pre
      <2>4. Bytes(Pre(r, i)) <= Bytes(Pre(r, j)) BY <2>3, BytesMonotone
      <2>5. Bytes(Pre(r, i)) \in Nat /\ Bytes(Pre(r, j)) \in Nat
            BY <2>3, BytesWithout
      <2>6. Cardinality(Pre(r, i)) = i /\ Cardinality(Pre(r, j)) = j BY <1>1
      <2>7. Repetitions \in Nat /\ Budget \in Nat
            BY CountAssumption, SizeAssumption DEF Repetitions
      <2>8. j <= Repetitions /\ (j <= 1 \/ Bytes(Pre(r, j)) <= Budget)
            BY <2>6, <1>5 DEF Fits
      <2>9. i <= Repetitions BY <2>7, <2>8, <1>1, <1>5
      <2>10. i <= 1 \/ Bytes(Pre(r, i)) <= Budget
             BY <2>4, <2>5, <2>7, <2>8, <1>1, <1>5
      <2> QED BY <2>6, <2>9, <2>10 DEF Fits
<1>6. \A j \in 1..n : r[j] \in ends <=> j <= c
      <2> TAKE j \in 1..n
      <2>1. r[j] \in ends <=> Fits(Pre(r, j)) BY <1>1, <1>4
      <2>2. j \in 0..n /\ j \in Nat /\ c \in Nat BY <1>1, <1>2
      <2>3. j <= c => Fits(Pre(r, j)) BY <1>2, <1>5, <2>2
      <2>4. ASSUME ~(j <= c) PROVE ~Fits(Pre(r, j))
            <3>1. c < n /\ c + 1 \in 0..n /\ c + 1 <= j
                  BY <2>2, <2>4, <1>1
            <3> QED BY <3>1, <2>2, <1>2, <1>5
      <2> HIDE DEF ends
      <2> QED BY <2>1, <2>3, <2>4
<1>7. CASE c = 0
      <2>1. ASSUME NEW y \in ends PROVE FALSE
            <3>1. PICK j \in 1..n : r[j] = y BY <1>1 DEF Pre
            <3>2. ~(j <= c) BY <1>7, <1>1
            <3> QED BY <3>1, <3>2, <1>6
      <2>2. ends = {} BY <2>1
      <2>3. NextSlice(S, x) = {} BY <2>2 DEF NextSlice
      <2>4. Pre(r, c) = {} BY <1>7 DEF Pre
      <2> QED BY <2>3, <2>4
<1>8. CASE c # 0
      <2>1. c \in 1..n /\ c <= c BY <1>1, <1>2, <1>8
      <2>2. r[c] \in ends BY <2>1, <1>6
      <2>3. ASSUME NEW y \in ends PROVE y <= r[c]
            <3>1. PICK j \in 1..n : r[j] = y BY <1>1 DEF Pre
            <3>2. j <= c BY <3>1, <1>6
            <3> QED BY <2>1, <3>1, <3>2, <1>3
      <2>4. ends \in SUBSET Oids BY <1>0
      <2>5. IsFiniteSet(ends) /\ ends \in SUBSET Nat
            <3> HIDE DEF ends
            <3> QED BY <2>4, OidSets
      <2>6. NextSlice(S, x) = Page(S, x, Max(ends)) BY <2>2 DEF NextSlice
      <2> HIDE DEF ends
      <2>7. Max(ends) \in ends /\ \A y \in ends : y <= Max(ends)
            BY <2>2, <2>5, MaxIsGreatest
      <2>8. Max(ends) = r[c]
            <3>1. Max(ends) <= r[c] /\ r[c] <= Max(ends) BY <2>2, <2>3, <2>7
            <3>2. Max(ends) \in Nat /\ r[c] \in Nat BY <2>2, <2>5, <2>7
            <3> DEFINE m == Max(ends)
                       q == r[c]
            <3>3. m <= q /\ q <= m /\ m \in Nat /\ q \in Nat BY <3>1, <3>2
            <3> HIDE DEF m, q
            <3>4. m = q BY <3>3
            <3> QED BY <3>4 DEF m, q
      <2> QED BY <2>1, <2>6, <2>8, <1>4
<1> QED BY <1>7, <1>8

\* What the loop returns is the slice, in the order of the OIDs.
LEMMA LoopIsSlice ==
    ASSUME NEW S \in SUBSET Oids, NEW x \in Oids \cup {0}, NEW oids \in Arrays(S)
    PROVE  LET out == ReadNextSlice(oids, x)
           IN /\ ToSet(out) = NextSlice(S, x)
              /\ \A i \in 1..(Len(out) - 1) : out[i] < out[i + 1]
<1> DEFINE r == SubSeq(oids, BisectRight(oids, x), Len(oids))
           a == LoopOf(r)[DOMAIN r]
           A == After(S, x)
           n == Len(r)
<1>1. r \in Arrays(A) BY RestIsArray
<1>2. ReadNextSlice(oids, x) = a.out BY LoopIs
<1>3. A \in SUBSET Oids BY DEF After
<1> HIDE DEF r, A
<1>4. n \in Nat /\ \A i, j \in 1..n : i < j => r[i] < r[j] BY <1>1, <1>3, ArrayFacts
<1>5. LoopInv(a, r, n) BY <1>1, <1>3, LoopEnds
<1> HIDE DEF a, n
<1> DEFINE c == Len(a.out)
<1>6. /\ a \in Turns /\ c \in 0..n /\ Fits(Pre(r, c))
      /\ \A i \in 1..c : a.out[i] = r[i]
      /\ IF a.stop THEN c < n /\ ~Fits(Pre(r, c + 1)) ELSE c = n
      BY <1>5 DEF LoopInv, n
<1>7. c < n => ~Fits(Pre(r, c + 1)) BY <1>4, <1>6
<1>8. NextSlice(S, x) = Pre(r, c)
      <2> HIDE DEF c
      <2> QED BY <1>1, <1>6, <1>7, SliceIsPrefix DEF A, n
<1>9. a.out \in Seq(Oids) /\ DOMAIN a.out = 1..c BY <1>6 DEF Turns
<1>10. ToSet(a.out) = Pre(r, c) BY <1>6, <1>9 DEF ToSet, Pre
<1>11. ASSUME NEW i \in 1..(c - 1) PROVE a.out[i] < a.out[i + 1]
       <2>1. i \in 1..c /\ i + 1 \in 1..c /\ i \in 1..n /\ i + 1 \in 1..n
             /\ i < i + 1
             BY <1>4, <1>6
       <2> HIDE DEF c
       <2> QED BY <2>1, <1>4, <1>6
<1> QED BY <1>2, <1>8, <1>10, <1>11

\* SliceIsTheLoop: every slice the server answers with is, in the order of the
\* OIDs, what the code's scan of its sorted array produces, for any array and
\* sizes, any budget and any cap (read_next_slice).
THEOREM SlicesAreTheLoop == Spec => []SliceIsTheLoop
<1>1. TypeOK => SliceIsTheLoop
      <2> SUFFICES ASSUME TypeOK, NEW x \in Oids \cup {0},
                          NEW oids \in Arrays(served.oids)
                   PROVE  LET out == ReadNextSlice(oids, x)
                          IN /\ ToSet(out) = NextSlice(served.oids, x)
                             /\ \A i \in 1..(Len(out) - 1) : out[i] < out[i + 1]
          BY DEF SliceIsTheLoop
      <2>1. served.oids \in SUBSET Oids BY DEF TypeOK, Snapshot
      <2> QED BY <2>1, LoopIsSlice
<1> QED BY <1>1, TypeCorrect, PTL
==============================================================================
