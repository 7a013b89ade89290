---------------------------- MODULE SnapshotServer ----------------------------
(***************************************************************************)
(* Serving SNMP from a snapshot (deploy/jt_agent.py, run_agent's loop and  *)
(* SnapshotController): the event loop answers requests from the snapshot  *)
(* in ctrl.oids and ctrl.vals while build_snapshot runs on an executor     *)
(* thread, and installs the new snapshot when that returns.                *)
(*                                                                         *)
(* Around it, a manager walks the tree over UDP, which loses, delays and   *)
(* duplicates, with GETBULK or with GETNEXT; it also polls single objects  *)
(* with GET.  A walk is many requests, and any number of snapshots are     *)
(* swapped under it.                                                       *)
(***************************************************************************)
EXTENDS Integers, FiniteSets, FiniteSetsExt

CONSTANTS
    Oids,        \* OIDs a snapshot may hold, in their order
    Stable,      \* those that every snapshot holds
    Size,        \* _varbind_size of each
    Budget,      \* MAX_RESPONSE_BYTES - MESSAGE_OVERHEAD_RESERVE
    MaxRepCap,   \* MAXREP_CAP
    MaxReps,     \* max-repetitions in the manager's requests
    Polls,       \* sets of OIDs the manager asks for in one GET
    MaxBuilds,   \* bound: rebuilds
    MaxTroubles, \* bound: lost and duplicated datagrams, early timeouts
    None         \* the result of a rebuild that raised

ASSUME OidsAssumption ==
    /\ Oids \subseteq Nat \ {0} /\ IsFiniteSet(Oids)
    /\ Stable \subseteq Oids /\ Polls \subseteq SUBSET Oids
ASSUME SizeAssumption == Size \in [Oids -> Nat] /\ Budget \in Nat
ASSUME CountAssumption ==
    /\ MaxRepCap \in Nat \ {0} /\ MaxReps \in Nat \ {0}
    /\ MaxBuilds \in Nat /\ MaxTroubles \in Nat

VARIABLES
    served,     \* the snapshot in ctrl: its OIDs, and the failure count in it
    loop,       \* the main loop: asleep, awaiting the executor, or resumed
    built,      \* what build_snapshot returned
    failures,   \* _health["snapshot_failures"]
    rebuilds,   \* how much of MaxBuilds is used up
    requests,   \* datagrams to the agent
    responses,  \* datagrams to the manager
    step,       \* the requests the manager walks with
    walk,       \* the manager's walk: idle, walking or done
    cur,        \* the OID the walk is at, 0 before the first
    id,         \* the request id the manager waits for
    got,        \* the OIDs the walk has collected
    count,      \* the number of rows it has collected
    troubles    \* how much of MaxTroubles is used up

agent == <<served, loop, built, failures, rebuilds>>
manager == <<step, walk, cur, id, got, count>>
net == <<requests, responses>>
vars == <<agent, net, manager, troubles>>

-----------------------------------------------------------------------------
(* The snapshot and what is read from it *)

Snapshot == [oids : {s \in SUBSET Oids : Stable \subseteq s}, failures : Nat]

\* The requests a walk is made of.
Steps == {"bulk", "next"}

Request == [id : Nat, kind : Steps, from : Oids \cup {0}]
           \cup [id : {0}, kind : {"get"}, names : SUBSET Oids]

\* No rows is one endOfMibView.
Response == [id : Nat, kind : Steps, from : Oids \cup {0}, rows : SUBSET Oids]
            \cup [id : {0}, kind : {"get"}, rows : SUBSET Oids]

\* Mutation of After: the search finds the name itself, as bisect_left does.
AfterInclusive(s, x) == {o \in s : o >= x}

After(s, x) == {o \in s : o > x}

\* The entries after x up to and including y.
Page(s, x, y) == {o \in After(s, x) : o <= y}

Bytes(rows) == MapThenSumSet(LAMBDA o : Size[o], rows)

Repetitions == IF MaxReps < MaxRepCap THEN MaxReps ELSE MaxRepCap

\* The first entry goes in whatever its size.
Fits(rows) ==
    /\ Cardinality(rows) <= Repetitions
    /\ Cardinality(rows) <= 1 \/ Bytes(rows) <= Budget

\* read_next_slice: the longest run of entries after x that fits.
NextSlice(s, x) ==
    LET ends == {y \in After(s, x) : Fits(Page(s, x, y))}
    IN IF ends = {} THEN {} ELSE Page(s, x, Max(ends))

\* read_next_variables, for one name: the entry after it, whatever its size.
NextRow(s, x) == {o \in After(s, x) : \A p \in After(s, x) : o <= p}

-----------------------------------------------------------------------------
Init ==
    /\ \E s \in {s \in SUBSET Oids : Stable \subseteq s} :
           served = [oids |-> s, failures |-> 0]
    /\ loop = "asleep" /\ built = None /\ failures = 0 /\ rebuilds = 0
    /\ requests = {} /\ responses = {}
    /\ step \in Steps
    /\ walk = "idle" /\ cur = 0 /\ id = 0 /\ got = {} /\ count = 0
    /\ troubles = 0

-----------------------------------------------------------------------------
(* The main loop and the executor thread *)

\* sleep(5) is over: run_in_executor(None, build_snapshot).
StartBuild ==
    /\ loop = "asleep" /\ rebuilds < MaxBuilds
    /\ loop' = "building" /\ rebuilds' = rebuilds + 1
    /\ UNCHANGED <<served, built, failures, net, manager, troubles>>

\* On the executor thread: build_snapshot reads the machine and the failure
\* count, and raises on a duplicate OID or any error outside a collector.
Collect ==
    /\ loop = "building"
    /\ \/ \E s \in {s \in SUBSET Oids : Stable \subseteq s} :
              built' = [oids |-> s, failures |-> failures]
       \/ built' = None
    /\ loop' = "resumed"
    /\ UNCHANGED <<served, failures, rebuilds, net, manager, troubles>>

\* The await returns and both arrays are assigned in one statement.
Swap ==
    /\ loop = "resumed" /\ built # None
    /\ served' = built
    /\ built' = None /\ loop' = "asleep"
    /\ UNCHANGED <<failures, rebuilds, net, manager, troubles>>

\* Mutation of BuildFails: whatever had been collected is installed.
BuildFailsInstallsPartial ==
    /\ loop = "resumed" /\ built = None
    /\ failures' = failures + 1 /\ loop' = "asleep"
    /\ served' = [oids |-> {}, failures |-> failures]
    /\ UNCHANGED <<built, rebuilds, net, manager, troubles>>

\* The await raises: the failure is counted and the old snapshot kept.
BuildFails ==
    /\ loop = "resumed" /\ built = None
    /\ failures' = failures + 1 /\ loop' = "asleep"
    /\ UNCHANGED <<served, built, rebuilds, net, manager, troubles>>

-----------------------------------------------------------------------------
(* Requests, on the event loop *)

\* Mutation of HandleBulk: no answer while a snapshot is being built.
HandleBulkOnLoop(r) ==
    /\ r.kind = "bulk" /\ loop # "building"
    /\ responses' = responses \cup
           {[id |-> r.id, kind |-> "bulk", from |-> r.from,
             rows |-> NextSlice(served.oids, r.from)]}

\* CappedBulkResponder, one repeater and no non-repeaters: the slice path.
HandleBulk(r) ==
    /\ r.kind = "bulk"
    /\ responses' = responses \cup
           {[id |-> r.id, kind |-> "bulk", from |-> r.from,
             rows |-> NextSlice(served.oids, r.from)]}

\* NextCommandResponder.
HandleNext(r) ==
    /\ r.kind = "next"
    /\ responses' = responses \cup
           {[id |-> r.id, kind |-> "next", from |-> r.from,
             rows |-> NextRow(served.oids, r.from)]}

\* read_variables: every name is answered, noSuchInstance when it is absent.
HandleGet(r) ==
    /\ r.kind = "get"
    /\ responses' = responses \cup
           {[id |-> 0, kind |-> "get", rows |-> r.names \cap served.oids]}

Trouble == troubles < MaxTroubles /\ troubles' = troubles + 1

\* A request reaches the agent, which answers it; the network may deliver it
\* once more later.
Handle(r) ==
    /\ HandleBulk(r) \/ HandleNext(r) \/ HandleGet(r)
    /\ \/ requests' = requests \ {r} /\ UNCHANGED troubles
       \/ UNCHANGED requests /\ Trouble
    /\ UNCHANGED <<agent, manager>>

-----------------------------------------------------------------------------
(* The manager and the network *)

Send(i, x) ==
    /\ id' = i
    /\ requests' = requests \cup {[id |-> i, kind |-> step, from |-> x]}

StartWalk ==
    /\ walk = "idle" /\ walk' = "walking"
    /\ Send(1, 0)
    /\ UNCHANGED <<agent, responses, step, cur, got, count, troubles>>

\* Nothing of the current request is on its way.
Lost == \A m \in requests \cup responses : m.kind # "get" => m.id # id

\* The manager times out and asks again; early, when an answer was on its way.
Retransmit ==
    /\ walk = "walking"
    /\ Send(id + 1, cur)
    /\ (Lost /\ UNCHANGED troubles) \/ (~Lost /\ Trouble)
    /\ UNCHANGED <<agent, responses, step, walk, cur, got, count>>

\* A reply to the current request: take the rows and ask for what follows the
\* last of them, or stop at endOfMibView.
Accept(m) ==
    /\ m.kind # "get" /\ m.id = id /\ walk = "walking"
    /\ UNCHANGED step
    /\ IF m.rows = {}
       THEN /\ walk' = "done"
            /\ UNCHANGED <<requests, cur, id, got, count>>
       ELSE /\ got' = got \cup m.rows
            /\ count' = count + Cardinality(m.rows)
            /\ cur' = Max(m.rows)
            /\ Send(id + 1, Max(m.rows))
            /\ UNCHANGED walk

\* A late reply, or one to a GET.
Ignore(m) ==
    /\ m.kind = "get" \/ m.id # id \/ walk # "walking"
    /\ UNCHANGED <<manager, requests>>

Receive(m) ==
    /\ responses' = responses \ {m}
    /\ Accept(m) \/ Ignore(m)
    /\ UNCHANGED <<agent, troubles>>

\* A GET of several objects, one at a time.
Poll ==
    /\ \A m \in requests \cup responses : m.kind # "get"
    /\ \E names \in Polls :
           requests' = requests \cup {[id |-> 0, kind |-> "get", names |-> names]}
    /\ UNCHANGED <<agent, responses, manager, troubles>>

Lose(m) ==
    /\ Trouble
    /\ requests' = requests \ {m} /\ responses' = responses \ {m}
    /\ UNCHANGED <<agent, manager>>

-----------------------------------------------------------------------------
Rebuild == StartBuild \/ Collect \/ Swap \/ BuildFails

Next ==
    \/ Rebuild
    \/ \E r \in requests : Handle(r)
    \/ \E m \in responses : Receive(m)
    \/ StartWalk \/ Retransmit \/ Poll
    \/ \E m \in requests \cup responses : Lose(m)

Current(m) == m.kind # "get" /\ m.id = id

\* The event loop serves datagrams in the order they arrived in, so each one
\* in the end, and the manager reads the reply and times out.  Nothing is
\* assumed of a rebuild: a system call in it may block as long as it likes.
Fairness ==
    /\ WF_vars(\E r \in requests : Current(r) /\ Handle(r))
    /\ WF_vars(\E m \in responses : Current(m) /\ Receive(m))
    /\ WF_vars(Lost /\ Retransmit)

Spec == Init /\ [][Next]_vars /\ Fairness

-----------------------------------------------------------------------------
(* Properties *)

TypeOK ==
    /\ served \in Snapshot
    /\ loop \in {"asleep", "building", "resumed"}
    /\ built \in Snapshot \cup {None}
    /\ failures \in Nat /\ rebuilds \in Nat /\ troubles \in Nat
    /\ requests \subseteq Request /\ responses \subseteq Response
    /\ step \in Steps /\ walk \in {"idle", "walking", "done"}
    /\ cur \in Oids \cup {0} /\ id \in Nat
    /\ got \subseteq Oids /\ count \in Nat

\* A walk that runs to its end has collected every row that was there all the
\* time, however many snapshots were swapped, whatever was lost, delayed or
\* answered twice, and whatever rebuilds failed on the way.
WalkComplete == walk = "done" => Stable \subseteq got

\* No row is collected twice: the walk never goes back and never loops.
ExactlyOnce == count = Cardinality(got)

\* A walk ends, even if a rebuild blocks for ever: the event loop answers from
\* the previous snapshot meanwhile.
WalkEnds == walk = "walking" ~> walk = "done"

\* "Alive but broken" can be told from the self-health objects: the failure
\* count that is served is at most one rebuild behind.
HealthShowsFailures == failures <= served.failures + 1
==============================================================================
