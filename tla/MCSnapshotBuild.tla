--------------------------- MODULE MCSnapshotBuild ----------------------------
(***************************************************************************)
(* A small instance of SnapshotBuild: six machines with up to three        *)
(* adapters and disks, which show what the tables have to cope with.       *)
(***************************************************************************)
EXTENDS SnapshotBuild

CONSTANTS l1, l2, l3      \* the adapters

Nic(win, speed, hardware) ==
    [win |-> win, speed |-> speed, hardware |-> hardware]

Disk(property, nvme, ata, verdict) ==
    [opens |-> TRUE, property |-> property, nvme |-> nvme, ata |-> ata,
     status |-> verdict]

Nvme(warning, kelvin) ==
    [warning |-> warning, kelvin |-> kelvin, used |-> 3, spare |-> 100,
     hours |-> 10, errors |-> 0]

Attr(id, raw) == [id |-> id, raw |-> raw]

Sound == Disk(40, None, <<Attr(5, 0), Attr(9, 10), Attr(194, 40)>>, "pass")
Hot == Disk(None, None, <<Attr(5, 0), Attr(190, 75)>>, "pass")
Worn == Disk(60, None, <<Attr(5, 3), Attr(194, 30 + 256 * 70)>>, "pass")
Failing == Disk(50, None, <<Attr(197, 8), Attr(231, 0)>>, "fail")
WarningNvme == Disk(None, Nvme(4, 330), None, None)
SoundNvme == Disk(45, Nvme(0, 273), None, None)
Absurd == Disk(200, None, None, "pass")
Silent == [Sound EXCEPT !.opens = FALSE]

Structure(type) == [type |-> type, whole |-> TRUE, populated |-> TRUE,
                    size |-> 8, maker |-> "maker", product |-> "product"]

Full == <<Structure(0), Structure(1), Structure(2), Structure(4), Structure(17),
          Structure(17), Structure(127), Structure(17)>>

\* A board whose product was left unfilled, an empty socket and slot.
Unfilled == <<[Structure(2) EXCEPT !.product = "To be filled by O.E.M."],
              [Structure(4) EXCEPT !.populated = FALSE],
              [Structure(17) EXCEPT !.size = 0], Structure(17),
              [Structure(0) EXCEPT !.whole = FALSE], Structure(1)>>

Buffer(fixed, claimed, count) ==
    [held |-> 200, claimed |-> claimed, fixed |-> fixed, data_off |-> 80,
     inst_count |-> count, inst_size |-> 40,
     listed |-> [i \in 0..7 |-> [off |-> 80 + 50 * i, len |-> 40]],
     plausible |-> {80, 120, 130, 180, 200}]

Address(luid, version, addr) ==
    [luid |-> luid, win |-> 0, version |-> version, addr |-> addr]
Neighbor(luid, addr) == [luid |-> luid, win |-> 0, addr |-> addr]
Route(luid, dest, metric) ==
    [luid |-> luid, win |-> 0, dest |-> dest, metric |-> metric]

Usual ==
    [nics |-> l1 :> Nic(1, 100, TRUE) @@ l2 :> Nic(2, 200, TRUE)
              @@ l3 :> Nic(3, 0, FALSE),
     pools |-> 3, volumes |-> 1, smbios |-> Full,
     disks |-> 0 :> Sound @@ 1 :> Worn, cpus |-> 2,
     addresses |-> {Address(l1, 4, 1), Address(l2, 4, 2), Address(l2, 6, 2),
                    Address(l3, 4, 3)},
     neighbors |-> {Neighbor(l1, 7), Neighbor(l2, 7)},
     routes |-> {Route(l1, 0, 5), Route(l2, 0, 3), Route(l3, 0, 1),
                 Route(l2, 9, 3)},
     zones |-> Buffer(TRUE, 150, 9), frequencies |-> 2, battery |-> TRUE]

\* The adapters' Windows indexes changed places, and the first disk is gone.
Renumbered ==
    [Usual EXCEPT !.nics = l1 :> Nic(2, 100, TRUE) @@ l2 :> Nic(1, 200, TRUE),
                  !.disks = 1 :> WarningNvme, !.smbios = Unfilled,
                  !.zones = Buffer(FALSE, 1000, 9)]

\* A link-local address on both ports.
Shared == [Usual EXCEPT !.addresses = {Address(l1, 6, 1), Address(l2, 6, 1)},
                        !.disks = 0 :> Hot @@ 1 :> Failing]

\* An adapter that does not know its speed.
NoSpeed == [Usual EXCEPT !.nics = l1 :> Nic(1, 2^20, TRUE)]

Cooler == [Usual EXCEPT !.disks = 0 :> [Sound EXCEPT !.property = 30]
                                  @@ 1 :> SoundNvme]

\* Next to nothing, and an adapter that is not published under a Windows index
\* another one had.
Bare == [Usual EXCEPT !.nics = l3 :> Nic(1, 0, FALSE), !.smbios = <<>>,
                      !.disks = 0 :> Absurd @@ 1 :> Hot @@ 2 :> Silent,
                      !.zones = Buffer(FALSE, 8, 0), !.battery = FALSE,
                      !.frequencies = 0, !.cpus = 1]

MCMachines == {Usual, Renumbered, Shared, NoSpeed, Cooler, Bare}

MCIfIndex == l1 :> 1 @@ l2 :> 2 @@ l3 :> 3
===============================================================================
