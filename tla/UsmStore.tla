------------------------------- MODULE UsmStore -------------------------------
(***************************************************************************)
(* The SNMPv3 account store: secrets\usm.dat with its .bak and .tmp, and   *)
(* provision.json (deploy/usm.py, load_store and save_store; deploy/       *)
(* jt_agent.py, _consume_provisioning, _shred, _register_v3_users and      *)
(* _usm_cli).  The service consumes the provisioning file and loads the    *)
(* accounts when it starts; each `user add` or `user remove` is a process  *)
(* of its own that loads, changes and saves the store.                     *)
(*                                                                         *)
(* The environment ends processes between any two steps, drops             *)
(* provisioning files, and, for the kinds in Faults, makes calls fail,     *)
(* damages files and clones the machine.                                   *)
(***************************************************************************)
EXTENDS Naturals

CONSTANTS
    Names,      \* account names
    Passes,     \* pairs of passphrases
    Service,    \* the service process
    Clis,       \* processes of the `user` command line
    Faults,     \* kinds of environment fault that may happen
    MaxStarts,  \* bound: process starts
    MaxDrops,   \* bound: provisioning files dropped
    MaxFaults,  \* bound: faults
    Absent,     \* a file that does not exist
    Damaged,    \* a file that cannot be decrypted or parsed
    Zeroed,     \* a provisioning file that has been overwritten
    None        \* no account, no command

\* "clone": the image comes up with another engineID; "identity": MachineGuid
\* cannot be read and the process runs under an engineID of the host name;
\* "damage": a file stops being readable; "read": it cannot be opened this once;
\* "save", "backup", "shred": a call in a save, the rename to .bak, or the
\* deletion of the provisioning file fails.
FaultKinds == {"clone", "identity", "damage", "read", "save", "backup", "shred"}
EventKinds == FaultKinds \cup {"together", "leftover"}

ASSUME FaultsAssumption == Faults \subseteq FaultKinds
ASSUME ServiceAssumption == Service \notin Clis
ASSUME BoundsAssumption ==
    MaxStarts \in Nat /\ MaxDrops \in Nat /\ MaxFaults \in Nat

VARIABLES
    engine,     \* the engineID of the machine
    main, bak, tmp,  \* usm.dat, usm.dat.bak, usm.dat.tmp
    drop,       \* provision.json
    pc,         \* where each process is
    job,        \* the command of each CLI process
    eid,        \* the engineID each process resolved
    users,      \* the accounts each process has loaded or is about to save
    entries,    \* the entries the service read from the provisioning file
    promised,   \* history: the accounts as last confirmed, on this machine
    spent,      \* history: the provisioning file has been stored already
    late,       \* history: the file was dropped after the service started
    seen,       \* history: the accounts confirmed since the last load began
    happened,   \* history: the kinds of event so far
    starts, drops, faults   \* how much of the bounds is used up

files == <<main, bak, tmp>>
locals == <<job, eid, users>>
provisioning == <<drop, entries, spent, late>>
history == <<promised, seen>>
events == <<happened, faults>>
bounds == <<starts, drops>>
vars == <<engine, files, pc, locals, provisioning, history, events, bounds>>

-----------------------------------------------------------------------------
(* Values *)

Procs == Clis \cup {Service}

\* The engineID of a process that could not read MachineGuid.
HostEngine == 0

\* A key is bound to the engineID it was localized for.
Keys == [pass : Passes, engine : Nat]
Table == [Names -> Keys \cup {None}]
NoUsers == [n \in Names |-> None]
Store == [engine : Nat, users : Table]
File == Store \cup {Absent, Damaged}

\* The usable entries of a provisioning file; one that is Damaged has none.
Entries == [Names -> Passes \cup {None}]
NoEntries == [n \in Names |-> None]
Drop == Entries \cup {Absent, Damaged, Zeroed}

Jobs == [op : {"add", "remove"}, name : Names, pass : Passes] \cup {None}

ASSUME ValuesAssumption ==
    /\ Absent \notin Store \cup Entries /\ Damaged \notin Store \cup Entries
    /\ Absent # Damaged /\ Zeroed \notin Entries \cup {Absent, Damaged}
    /\ None \notin Keys \cup Passes /\ None \notin [op : {"add", "remove"},
                                         name : Names, pass : Passes]

Goto(p, label) == pc' = [pc EXCEPT ![p] = label]

\* The process is over; the service goes on at the label.
EndOr(p, label) ==
    /\ Goto(p, IF p = Service THEN label ELSE "down")
    /\ IF p = Service
       THEN UNCHANGED locals
       ELSE /\ job' = [job EXCEPT ![p] = None]
            /\ eid' = [eid EXCEPT ![p] = HostEngine]
            /\ users' = [users EXCEPT ![p] = NoUsers]

\* The process is between loading the store to change it and its last rename.
Updating(p) ==
    pc[p] \in {"load", "loadbak", "change", "open", "write", "backup",
               "replace"}

\* The service loads the accounts to register them.
StartLoad == Goto(Service, "reload") /\ seen' = {promised}
Registering == pc[Service] \in {"reload", "reloadbak", "register"}

\* What a step meets: at most one fault, and the events noted with it.
Happens(kinds, noted) ==
    /\ kinds \subseteq Faults
    /\ kinds # {} => faults < MaxFaults
    /\ faults' = IF kinds = {} THEN faults ELSE faults + 1
    /\ happened' = happened \cup kinds \cup noted

\* Noted when a process starts to change the store while another does.
Together(p) ==
    IF \E q \in Procs \ {p} : Updating(q) THEN {"together"} ELSE {}

-----------------------------------------------------------------------------
Init ==
    /\ engine = HostEngine + 1
    /\ main = Absent /\ bak = Absent /\ tmp = Absent
    /\ drop = Absent /\ entries = NoEntries /\ spent = FALSE /\ late = FALSE
    /\ pc = [p \in Procs |-> "down"]
    /\ job = [p \in Procs |-> None]
    /\ eid = [p \in Procs |-> HostEngine]
    /\ users = [p \in Procs |-> NoUsers]
    /\ promised = NoUsers /\ seen = {}
    /\ happened = {} /\ starts = 0 /\ drops = 0 /\ faults = 0

-----------------------------------------------------------------------------
(* Starting *)

\* A process starts and resolves its engineID.
Begin(p, kinds, noted) ==
    /\ pc[p] = "down" /\ starts < MaxStarts /\ starts' = starts + 1
    /\ Happens(kinds, noted)
    /\ eid' = [eid EXCEPT ![p] = IF "identity" \in kinds THEN HostEngine
                                                         ELSE engine]

\* The service gets to _register_v3_users.
StartService ==
    /\ \E kinds \in {{}, {"identity"}} : Begin(Service, kinds, {})
    /\ Goto(Service, "look")
    /\ late' = FALSE
    /\ UNCHANGED <<engine, files, job, users, drop, entries, spent, history,
                   drops>>

\* `user add` or `user remove`, before it has asked for anything.
StartCommand(p) ==
    /\ \E kinds \in {{}, {"identity"}} : Begin(p, kinds, Together(p))
    /\ \E j \in Jobs \ {None} : job' = [job EXCEPT ![p] = j]
    /\ Goto(p, "load")
    /\ UNCHANGED <<engine, files, users, provisioning, history, drops>>

-----------------------------------------------------------------------------
(* load_store *)

\* Mutation of Usable: an empty store counts as a failure to load.
UsableIfNotEmpty(file, id) ==
    file \in Store /\ file.engine = id /\ file.users # NoUsers

\* Mutation of Usable: the engineID is not compared.
UsableForAnyEngine(file, id) == file \in Store

\* The file decrypts and parses, and its keys are for this engineID.
Usable(file, id) == file \in Store /\ file.engine = id

\* Who has loaded goes on to change the store or to register the accounts.
Loaded(p, table) ==
    /\ users' = [users EXCEPT ![p] = table]
    /\ Goto(p, IF pc[p] \in {"load", "loadbak"} THEN "change" ELSE "register")

\* The first candidate.
LoadMain(p) ==
    /\ pc[p] \in {"load", "reload"}
    /\ \/ /\ Usable(main, eid[p]) /\ Loaded(p, main.users)
          /\ UNCHANGED events
       \/ /\ IF Usable(main, eid[p]) THEN Happens({"read"}, {})
                                     ELSE UNCHANGED events
          /\ Goto(p, IF pc[p] = "load" THEN "loadbak" ELSE "reloadbak")
          /\ UNCHANGED users
    /\ UNCHANGED <<engine, files, job, eid, provisioning, history, bounds>>

\* Mutation of LoadBak: there is no second candidate.
LoadBakIgnored(p) ==
    /\ pc[p] \in {"loadbak", "reloadbak"}
    /\ Loaded(p, NoUsers)
    /\ UNCHANGED <<engine, files, job, eid, provisioning, history, events,
                   bounds>>

\* Mutation of LoadBak: the .bak is taken as it is.
LoadBakUnchecked(p) ==
    /\ pc[p] \in {"loadbak", "reloadbak"}
    /\ users' = [users EXCEPT ![p] = bak]
    /\ Goto(p, IF pc[p] = "loadbak" THEN "change" ELSE "register")
    /\ UNCHANGED <<engine, files, job, eid, provisioning, history, events,
                   bounds>>

\* The .bak, or no accounts.
LoadBak(p) ==
    /\ pc[p] \in {"loadbak", "reloadbak"}
    /\ Loaded(p, IF Usable(bak, eid[p]) THEN bak.users ELSE NoUsers)
    /\ UNCHANGED <<engine, files, job, eid, provisioning, history, events,
                   bounds>>

-----------------------------------------------------------------------------
(* Changing the accounts *)

\* localize
KeyFor(p, pass) == [pass |-> pass, engine |-> eid[p]]

\* The command refuses a name that is there, or one that is not, and ends ...
Refused(p) ==
    /\ p # Service /\ pc[p] = "change"
    /\ (job[p].op = "add") <=> (users[p][job[p].name] # None)
    /\ EndOr(p, "down")
    /\ UNCHANGED <<engine, files, provisioning, history, events, bounds>>

\* ... or it asks for the passphrases and changes the list.
Change(p) ==
    /\ p # Service /\ pc[p] = "change"
    /\ (job[p].op = "add") <=> (users[p][job[p].name] = None)
    /\ users' = [users EXCEPT ![p][job[p].name] =
                     IF job[p].op = "add" THEN KeyFor(p, job[p].pass) ELSE None]
    /\ Goto(p, "open")
    /\ UNCHANGED <<engine, files, job, eid, provisioning, history, events,
                   bounds>>

\* The accounts of the provisioning file are added or replaced; if it has
\* none, nothing is saved.
Merge ==
    /\ pc[Service] = "change"
    /\ users' = [users EXCEPT ![Service] =
                     [n \in Names |-> IF entries[n] # None
                                      THEN KeyFor(Service, entries[n])
                                      ELSE users[Service][n]]]
    /\ Goto(Service, IF entries = NoEntries THEN "shred" ELSE "open")
    /\ UNCHANGED <<engine, files, job, eid, provisioning, history, events,
                   bounds>>

-----------------------------------------------------------------------------
(* save_store *)

\* Opening the .tmp truncates it ...
OpenTmp(p) ==
    /\ pc[p] = "open" /\ Goto(p, "write")
    /\ tmp' = Damaged
    /\ UNCHANGED <<engine, main, bak, locals, provisioning, history, events,
                   bounds>>

\* ... it is written and flushed to the disk ...
WriteTmp(p) ==
    /\ pc[p] = "write" /\ Goto(p, "backup")
    /\ tmp' = [engine |-> eid[p], users |-> users[p]]
    /\ UNCHANGED <<engine, main, bak, locals, provisioning, history, events,
                   bounds>>

\* ... an existing store becomes the .bak, or stays if that fails ...
Backup(p) ==
    /\ pc[p] = "backup" /\ Goto(p, "replace")
    /\ \/ main # Absent /\ bak' = main /\ main' = Absent /\ UNCHANGED events
       \/ main = Absent /\ UNCHANGED <<main, bak, events>>
       \/ main # Absent /\ Happens({"backup"}, {}) /\ UNCHANGED <<main, bak>>
    /\ UNCHANGED <<engine, tmp, locals, provisioning, history, bounds>>

\* A file another process holds open for writing cannot be renamed (Windows).
CanRename(p) == tmp # Absent /\ \A q \in Procs \ {p} : pc[q] # "write"

\* What the operator is told: "added", "removed", or "stored" in the log.
Confirmed(p) ==
    IF p = Service
    THEN [n \in Names |-> IF entries[n] # None THEN KeyFor(p, entries[n])
                                               ELSE promised[n]]
    ELSE [promised EXCEPT ![job[p].name] = users[p][job[p].name]]

\* Mutation of Replace: the provisioning file is not deleted after a success.
ReplaceKeepsFile(p) ==
    /\ pc[p] = "replace" /\ CanRename(p)
    /\ EndOr(p, "reload")
    /\ main' = tmp /\ tmp' = Absent
    /\ promised' = Confirmed(p)
    /\ seen' = IF p = Service THEN {promised'} ELSE seen \cup {promised'}
    /\ spent' = (spent \/ p = Service)
    /\ UNCHANGED <<engine, bak, drop, entries, late, events, bounds>>

\* ... and the .tmp becomes the store.
Replace(p) ==
    /\ pc[p] = "replace" /\ CanRename(p)
    /\ EndOr(p, "shred")
    /\ main' = tmp /\ tmp' = Absent
    /\ promised' = Confirmed(p)
    /\ seen' = IF Registering THEN seen \cup {promised'} ELSE seen
    /\ spent' = (spent \/ p = Service)
    /\ UNCHANGED <<engine, bak, drop, entries, late, events, bounds>>

\* Mutation of SaveFails: the provisioning file is kept for another try.
SaveFailsKeepsFile(p) ==
    /\ \/ pc[p] \in {"open", "write", "replace"} /\ Happens({"save"}, {})
       \/ pc[p] = "replace" /\ ~CanRename(p) /\ UNCHANGED events
    /\ EndOr(p, "reload") /\ seen' = {promised}
    /\ UNCHANGED <<engine, files, provisioning, promised, bounds>>

\* An OSError in any of these.  The command says so; the service goes on, and
\* deletes the provisioning file nevertheless.
SaveFails(p) ==
    /\ \/ pc[p] \in {"open", "write", "replace"} /\ Happens({"save"}, {})
       \/ pc[p] = "replace" /\ ~CanRename(p) /\ UNCHANGED events
    /\ EndOr(p, "shred")
    /\ UNCHANGED <<engine, files, provisioning, history, bounds>>

-----------------------------------------------------------------------------
(* The service: _consume_provisioning and _register_v3_users *)

\* Whether there is a provisioning file.
Look ==
    /\ pc[Service] = "look"
    /\ \/ drop = Absent /\ StartLoad
       \/ drop # Absent /\ Goto(Service, "read") /\ UNCHANGED seen
    /\ UNCHANGED <<engine, files, locals, provisioning, promised, events,
                   bounds>>

\* It is read; one that cannot be used is deleted too.
ReadDrop ==
    /\ pc[Service] = "read"
    /\ \/ /\ drop \in Entries
          /\ entries' = drop /\ Goto(Service, "load")
          /\ Happens({}, Together(Service))
       \/ /\ IF drop \in Entries THEN Happens({"read"}, {})
                                  ELSE UNCHANGED events
          /\ Goto(Service, "shred") /\ UNCHANGED entries
    /\ UNCHANGED <<engine, files, locals, drop, spent, late, history, bounds>>

\* _shred overwrites the file ...
Overwrite ==
    /\ pc[Service] = "shred" /\ Goto(Service, "remove")
    /\ drop' = Zeroed /\ spent' = FALSE
    /\ UNCHANGED <<engine, files, locals, entries, late, history, events,
                   bounds>>

\* ... and removes it, whatever it is by now.
Remove ==
    /\ pc[Service] = "remove" /\ StartLoad
    /\ drop' = Absent /\ spent' = FALSE /\ entries' = NoEntries
    /\ UNCHANGED <<engine, files, locals, late, promised, events, bounds>>

\* Or it fails: the log says that the passphrases are still there.
ShredFails ==
    /\ pc[Service] \in {"shred", "remove"} /\ StartLoad
    /\ Happens({"shred"}, IF spent THEN {"leftover"} ELSE {})
    /\ entries' = NoEntries
    /\ UNCHANGED <<engine, files, locals, drop, spent, late, promised, bounds>>

\* The loaded accounts are registered, and the agent goes on to serve.
Register ==
    /\ pc[Service] = "register" /\ Goto(Service, "up")
    /\ seen' = {}
    /\ UNCHANGED <<engine, files, locals, provisioning, promised, events,
                   bounds>>

-----------------------------------------------------------------------------
(* The environment *)

\* Processes end, wherever they are.
End(ps) ==
    /\ pc' = [p \in Procs |-> IF p \in ps THEN "down" ELSE pc[p]]
    /\ job' = [p \in Procs |-> IF p \in ps THEN None ELSE job[p]]
    /\ eid' = [p \in Procs |-> IF p \in ps THEN HostEngine ELSE eid[p]]
    /\ users' = [p \in Procs |-> IF p \in ps THEN NoUsers ELSE users[p]]
    /\ entries' = IF Service \in ps THEN NoEntries ELSE entries
    /\ seen' = IF Service \in ps THEN {} ELSE seen

\* The service is about to delete a file it has stored.
Leftover(ps) ==
    IF Service \in ps /\ spent /\ pc[Service] = "shred" THEN {"leftover"}
                                                        ELSE {}

\* A process is stopped or killed, or has no more to do.
Exit(p) ==
    /\ pc[p] # "down" /\ End({p})
    /\ Happens({}, Leftover({p}))
    /\ UNCHANGED <<engine, files, drop, spent, late, promised, bounds>>

\* The image comes up as another machine, to which nothing was promised.
Clone ==
    /\ Happens({"clone"}, Leftover(Procs)) /\ End(Procs)
    /\ engine' = engine + 1 /\ promised' = NoUsers
    /\ UNCHANGED <<files, drop, spent, late, bounds>>

\* A deployment tool drops a file, over the old one if there is one.
DropFile ==
    /\ drops < MaxDrops /\ drops' = drops + 1
    /\ drop' \in Entries \cup {Damaged}
    /\ spent' = FALSE /\ late' = (late \/ pc[Service] # "down")
    /\ UNCHANGED <<engine, files, pc, locals, entries, history, events, starts>>

\* A file stops being readable.
Damage ==
    /\ Happens({"damage"}, {})
    /\ \/ main \in Store /\ main' = Damaged /\ UNCHANGED bak
       \/ bak \in Store /\ bak' = Damaged /\ UNCHANGED main
    /\ UNCHANGED <<engine, tmp, pc, locals, provisioning, history, bounds>>

-----------------------------------------------------------------------------
Command(p) == StartCommand(p) \/ Refused(p) \/ Change(p)

Storing(p) ==
    \/ LoadMain(p) \/ LoadBak(p)
    \/ OpenTmp(p) \/ WriteTmp(p) \/ Backup(p) \/ Replace(p) \/ SaveFails(p)

Provisioning ==
    \/ StartService \/ Look \/ ReadDrop \/ Merge \/ Overwrite \/ Remove
    \/ ShredFails \/ Register

Next ==
    \/ \E p \in Clis : Command(p)
    \/ \E p \in Procs : Storing(p) \/ Exit(p)
    \/ Provisioning \/ Clone \/ DropFile \/ Damage

Spec == Init /\ [][Next]_vars

-----------------------------------------------------------------------------
(* Properties *)

Labels == {"down", "look", "read", "load", "loadbak", "change", "open", "write",
           "backup", "replace", "shred", "remove", "reload", "reloadbak",
           "register", "up"}

TypeOK ==
    /\ engine \in Nat \ {HostEngine}
    /\ main \in File /\ bak \in File /\ tmp \in File
    /\ drop \in Drop /\ entries \in Entries
    /\ spent \in BOOLEAN /\ late \in BOOLEAN
    /\ pc \in [Procs -> Labels] /\ job \in [Procs -> Jobs]
    /\ \A p \in Clis : pc[p] # "down" => job[p] # None
    /\ eid \in [Procs -> Nat] /\ users \in [Procs -> Table]
    /\ promised \in Table /\ seen \subseteq Table
    /\ happened \subseteq EventKinds
    /\ starts \in Nat /\ drops \in Nat /\ faults \in Nat

\* What load_store returns to a process with this engineID.
Loadable(id) == IF Usable(main, id) THEN main.users
                ELSE IF Usable(bak, id) THEN bak.users ELSE NoUsers

\* The events after which an account may be lost, or a removed one be back: a
\* damaged or unreadable store, a process under another engineID, and two
\* processes that change the store at once.  A clone starts without accounts;
\* failed saves, renames to .bak and deletions are survived.
Harmful == {"damage", "read", "identity", "together"}
Unharmed == happened \cap Harmful = {}

\* What a restart would load is exactly what was confirmed: no account that
\* was added or provisioned is lost, and none that was removed is back from
\* the .bak, in the middle of a save and after an interrupted one too.
PromisesKept == Unharmed => Loadable(engine) = promised

\* The keys a service registers were localized for its own engineID, whatever
\* the store went through; others would fail to authenticate without a word.
KeysFitEngine ==
    pc[Service] = "up" =>
        \A n \in Names : users[Service][n] # None
                            => users[Service][n].engine = eid[Service]

\* The service registers the accounts as they were confirmed at one moment of
\* its load, so with what it has just provisioned, while commands rename the
\* files under it.
RegisteredWasConfirmed ==
    Unharmed /\ pc[Service] = "register" => users[Service] \in seen

\* Once the service is up the provisioning file is gone, whether it could be
\* used and stored or not, unless its deletion failed or it came later.
NoPassphraseLeft ==
    pc[Service] \in {"reload", "reloadbak", "register", "up"}
        => \/ drop \in {Absent, Zeroed} \/ late \/ "shred" \in happened

\* A provisioning file is stored once: a removed account comes back by a new
\* `user add` or a new file only, unless the service was interrupted between
\* the save and the deletion.
RemovedStaysRemoved ==
    [][Unharmed' /\ "leftover" \notin happened' =>
         \A n \in Names :
             Loadable(engine)[n] = None /\ Loadable(engine)'[n] # None
                 => \/ \E p \in Clis :
                           /\ pc[p] = "replace"
                           /\ job[p].op = "add" /\ job[p].name = n
                    \/ /\ pc[Service] = "replace"
                       /\ entries[n] # None /\ ~spent]_vars

-----------------------------------------------------------------------------
(* The inductive invariant *)

\* The keys of these accounts were localized for this engineID.
Fits(table, id) ==
    \A n \in Names : table[n] # None => table[n].engine = id

\* All keys fit, on disk and in the processes, whatever happened.
KeysInv ==
    /\ \A f \in {main, bak, tmp} : f \in Store => Fits(f.users, f.engine)
    /\ \A p \in Procs : Fits(users[p], eid[p])
    /\ \A p \in Procs : pc[p] = "down" => users[p] = NoUsers

\* The .bak is only ever needed when there is no store, or a foreign one that
\* came with the .bak.
StoreInv ==
    /\ main # Damaged /\ bak # Damaged
    /\ \A f \in {main, bak} : f \in Store => f.engine <= engine
    /\ Usable(bak, engine) /\ main \in Store => Usable(main, engine)
    /\ Loadable(engine) = promised

\* What the one process that changes the store is about to save differs from
\* what was confirmed by its own change.
UpdateInv(p) ==
    /\ pc[p] = "loadbak" => ~Usable(main, engine)
    /\ pc[p] = "change" => users[p] = promised
    /\ pc[p] \in {"open", "write", "backup", "replace"} =>
           /\ users[p] = Confirmed(p)
           /\ p # Service =>
                  ((job[p].op = "add") <=> (users[p][job[p].name] # None))
    /\ pc[p] \in {"backup", "replace"} =>
           tmp = [engine |-> engine, users |-> users[p]]

UpdatesInv ==
    /\ \A p \in Procs : pc[p] # "down" => eid[p] = engine
    /\ \A p, q \in Procs : Updating(p) /\ Updating(q) => p = q
    /\ \A p \in Procs : Updating(p) => UpdateInv(p)

\* A loading service finds nothing that was not confirmed during its load.
SeenInv ==
    /\ pc[Service] \in {"reload", "reloadbak"} => promised \in seen
    /\ pc[Service] = "reloadbak" =>
           (IF Usable(bak, engine) THEN bak.users ELSE NoUsers) \in seen
    /\ pc[Service] = "register" => users[Service] \in seen

\* A stored file is the next to be deleted.
SpentInv == "leftover" \notin happened /\ spent => pc[Service] = "shred"

IInv ==
    /\ TypeOK /\ KeysInv /\ NoPassphraseLeft /\ SpentInv
    /\ Unharmed => StoreInv /\ UpdatesInv /\ SeenInv
===============================================================================
