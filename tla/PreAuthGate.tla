----------------------------- MODULE PreAuthGate -----------------------------
(***************************************************************************)
(* The gate in front of pysnmp (deploy/preauth.py): an address list, a     *)
(* size limit, a token bucket per source in a table of bounded size, and a *)
(* sanity check of the outer TLV, in that order.  Datagrams reach it on    *)
(* the event loop (GatedUdpTransport), which also prunes the table after   *)
(* each snapshot rebuild.                                                  *)
(*                                                                         *)
(* Time is in whole units; a packet costs Cost and a source earns Rate per *)
(* unit, so that Rate < Cost models rates below one packet per unit.       *)
(***************************************************************************)
EXTENDS Integers, FiniteSets

CONSTANTS
    Sources,     \* addresses a packet can come from
    Loopback,    \* the loopback ones
    Networks,    \* allowed_networks, each the set of its addresses
    MaxTracked,  \* MAX_TRACKED_SOURCES
    Rate,        \* rate_pps
    Burst,       \* rate_burst
    Cost,        \* one packet
    Idle,        \* idle_seconds, the age at which a bucket is dropped
    MaxTime,     \* bound: units of time
    None         \* a source with no bucket

ASSUME SourcesAssumption ==
    /\ IsFiniteSet(Sources)
    /\ Loopback \subseteq Sources /\ Networks \subseteq SUBSET Sources
ASSUME RateAssumption ==
    /\ MaxTracked \in Nat \ {0} /\ Idle \in Nat
    /\ Rate \in Nat \ {0} /\ Cost \in Nat \ {0}
    /\ Burst \in Nat /\ Burst >= Cost
ASSUME TimeAssumption == MaxTime \in Nat

VARIABLES
    buckets,   \* _buckets: per source its bucket, or None
    now,       \* time.monotonic()
    answer     \* the packet this step answered: its source and the verdict,
               \* which `counters' counts

vars == <<buckets, now, answer>>

-----------------------------------------------------------------------------
(* The table *)

Verdicts == {"acl", "oversize", "source_table_full", "rate_limit",
             "malformed", "passed"}

\* A step that answers no packet.
NoAnswer == [source |-> "none", verdict |-> "none"]

Bucket == [tokens : 0..Burst, last : 0..MaxTime]

ASSUME NoneAssumption == None \notin Bucket /\ "none" \notin Sources

TrackedIn(b) == {s \in Sources : b[s] # None}

\* What the source could spend: the bucket with the time since `last' added.
Least(a, b) == IF a < b THEN a ELSE b
Available(b) == Least(Burst, b.tokens + (now - b.last) * Rate)

\* _ip_allowed: loopback, or in a configured network; an empty list denies.
Allowed(s) == s \in Loopback \/ \E n \in Networks : s \in n

\* Mutation of Pruned: a bucket is dropped as soon as it is not in use.
PrunedEarly(b) ==
    [s \in Sources |-> IF b[s] # None /\ now > b[s].last THEN None ELSE b[s]]

\* prune: drop the buckets that were idle for more than Idle.
Pruned(b) ==
    [s \in Sources |-> IF b[s] # None /\ now - b[s].last > Idle THEN None
                                                               ELSE b[s]]

\* The table check looks at, pruned when an unknown source finds it full.
MakeRoom(s) ==
    IF buckets[s] = None /\ Cardinality(TrackedIn(buckets)) >= MaxTracked
    THEN Pruned(buckets) ELSE buckets

\* Mutation of NoRoom: an unknown source always gets a bucket.
NoRoomNever(s, b) == FALSE

\* Mutation of NoRoom: a full table turns away everyone.
NoRoomForAnyone(s, b) == Cardinality(TrackedIn(b)) >= MaxTracked

NoRoom(s, b) == b[s] = None /\ Cardinality(TrackedIn(b)) >= MaxTracked

\* Mutation of Refilled: refilling is not capped at Burst.
RefilledUncapped(b, s) ==
    IF b[s] = None THEN [tokens |-> Burst, last |-> now]
    ELSE [tokens |-> b[s].tokens + (now - b[s].last) * Rate, last |-> now]

\* _rate_ok: a new bucket is full, a known one earns for the time elapsed.
Refilled(b, s) ==
    IF b[s] = None THEN [tokens |-> Burst, last |-> now]
    ELSE [tokens |-> Available(b[s]), last |-> now]

-----------------------------------------------------------------------------
(* check *)

\* Each return of check counts its verdict, and ends the check.
Answer(s, verdict) ==
    /\ answer' = [source |-> s, verdict |-> verdict]
    /\ UNCHANGED now

DropAcl(s) ==
    /\ ~Allowed(s)
    /\ Answer(s, "acl")
    /\ UNCHANGED buckets

\* Mutation of DropOversize: the size is looked at before the address.
DropOversizeFirst(s) ==
    /\ Answer(s, "oversize")
    /\ UNCHANGED buckets

DropOversize(s) ==
    /\ Allowed(s)
    /\ Answer(s, "oversize")
    /\ UNCHANGED buckets

\* Mutation of DropTableFull: the table is not looked at again after the prune.
DropTableFullAtOnce(s) ==
    /\ Allowed(s)
    /\ NoRoom(s, buckets)
    /\ Answer(s, "source_table_full")
    /\ buckets' = MakeRoom(s)

\* Full even after the prune: it is the second look that decides.
DropTableFull(s) ==
    /\ Allowed(s)
    /\ NoRoom(s, MakeRoom(s))
    /\ Answer(s, "source_table_full")
    /\ buckets' = MakeRoom(s)

\* The bucket is refilled even when it then refuses.
DropRate(s) ==
    LET b == Refilled(MakeRoom(s), s) IN
    /\ Allowed(s)
    /\ ~NoRoom(s, MakeRoom(s))
    /\ b.tokens < Cost
    /\ Answer(s, "rate_limit")
    /\ buckets' = [MakeRoom(s) EXCEPT ![s] = b]

\* Paid for, and then passed on or found malformed.
Charge(s) ==
    LET b == Refilled(MakeRoom(s), s) IN
    /\ Allowed(s)
    /\ ~NoRoom(s, MakeRoom(s))
    /\ b.tokens >= Cost
    /\ \E verdict \in {"passed", "malformed"} : Answer(s, verdict)
    /\ buckets' = [MakeRoom(s) EXCEPT ![s] = [b EXCEPT !.tokens = @ - Cost]]

\* The prune that follows a snapshot rebuild.
Prune ==
    /\ buckets' = Pruned(buckets)
    /\ answer' = NoAnswer
    /\ UNCHANGED now

Tick ==
    /\ now < MaxTime /\ now' = now + 1
    /\ answer' = NoAnswer
    /\ UNCHANGED buckets

-----------------------------------------------------------------------------
Init ==
    /\ buckets = [s \in Sources |-> None]
    /\ now = 0
    /\ answer = NoAnswer

Check(s) == DropAcl(s) \/ DropOversize(s) \/ DropTableFull(s)
            \/ DropRate(s) \/ Charge(s)

Next == Prune \/ Tick \/ \E s \in Sources : Check(s)

Spec == Init /\ [][Next]_vars

-----------------------------------------------------------------------------
(* Properties *)

TypeOK ==
    /\ buckets \in [Sources -> Bucket \cup {None}]
    /\ now \in 0..MaxTime
    /\ answer \in [source : Sources, verdict : Verdicts] \cup {NoAnswer}
    /\ \A s \in Sources : buckets[s] # None => buckets[s].last <= now

\* A flood from any number of addresses cannot grow the table past its
\* ceiling: every path that adds a bucket goes through the table check.
TableBounded == Cardinality(TrackedIn(buckets)) <= MaxTracked

\* The address comes first: a source outside loopback and every configured
\* network never owns a bucket, so it cannot fill the table, and is never
\* told anything but "acl", whatever it sends.
OutsidersLeaveNoTrace ==
    \A s \in Sources \ (Loopback \cup UNION Networks) :
        /\ buckets[s] = None
        /\ answer.source = s => answer.verdict = "acl"

\* Sources heard from in the last Idle units.
Active == {s \in TrackedIn(buckets) : now - buckets[s].last <= Idle}

\* A source already known goes on being answered while others fill the table:
\* no step takes its bucket away or turns it away for lack of room.
KnownSourceKept ==
    [][\A s \in Active :
           /\ buckets'[s] # None
           /\ answer' # [source |-> s, verdict |-> "source_table_full"]]_vars

\* Quiet sources make room: whenever a packet is answered with
\* "source_table_full", its source is a new one and MaxTracked others have been
\* heard from in the last Idle units.
TurnedAwayOnlyWhenBusy ==
    [][\A s \in Sources :
           answer' = [source |-> s, verdict |-> "source_table_full"]
               => /\ buckets[s] = None
                  /\ Cardinality(Active) >= MaxTracked]_vars

\* The allowance of a source as a limiter that never forgets would have it.
Level == [s \in Sources |-> IF buckets[s] = None THEN Burst
                            ELSE Available(buckets[s])]

RL == INSTANCE RateLimit WITH level <- Level

\* Forgetting is harmless when an idle bucket would have been full anyway:
\* 300 seconds at 50 per second against a burst of 300.
RefillAssumption == Rate * Idle >= Burst

\* For every source and over every interval, the gate lets through what the
\* unbounded limiter of RateLimit would, and refuses for rate only when it
\* would: neither pruning nor a full table nor other sources change that.
RateLimited == RL!Spec
==============================================================================
