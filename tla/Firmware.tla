------------------------------- MODULE Firmware -------------------------------
(***************************************************************************)
(* What is taken from the firmware's own tables: the SMBIOS structures     *)
(* (deploy/smbios.py) and the ACPI thermal zones (deploy/sensors.py).      *)
(* Every number in them is the firmware's, and none of it is believed.     *)
(***************************************************************************)
EXTENDS Integers, Sequences, FiniteSets, FiniteSetsExt

CONSTANTS
    MAX_STRUCTURES,  \* ceiling on the SMBIOS structures
    MAX_INSTANCES,   \* ceiling on the thermal zones
    Placeholders     \* texts an OEM left unfilled

ASSUME CeilingsAssumption == MAX_STRUCTURES \in Nat /\ MAX_INSTANCES \in Nat

-----------------------------------------------------------------------------
(* SMBIOS: a table is a sequence of structures *)

\* A structure has a type and the fields that type has; whole: its length field
\* is at least 4.

\* parse_smbios stops behind the end-of-table structure, before one that is
\* too short, and at the ceiling.
parse_smbios(table) ==
    {k \in DOMAIN table :
        /\ k <= MAX_STRUCTURES
        /\ \A j \in 1..k : table[j].whole /\ (j < k => table[j].type # 127)}

OfType(table, type) == {k \in parse_smbios(table) : table[k].type = type}

\* _s: a placeholder is no text.
_s(text) == IF text \in Placeholders THEN "" ELSE text

bios_info(table) == OfType(table, 0) # {}

system_info(table) == OfType(table, 1) # {}

baseboard_info(table) ==
    IF OfType(table, 2) = {} THEN [maker |-> "", product |-> ""]
    ELSE LET board == table[Min(OfType(table, 2))]
         IN [maker |-> _s(board.maker), product |-> _s(board.product)]

\* Only sockets that are populated.
processors(table) ==
    Cardinality({k \in OfType(table, 4) : table[k].populated})

\* Only slots with a module in them.
memory_devices(table) ==
    Cardinality({k \in OfType(table, 17) : table[k].size # 0})

\* A table without a structure says nothing at all.
collect(table) ==
    [system |-> bios_info(table) \/ system_info(table),
     board |-> baseboard_info(table),
     processors |-> processors(table), memory |-> memory_devices(table)]

-----------------------------------------------------------------------------
(* Thermal zones: a WNODE_ALL_DATA buffer as the driver wrote it *)

\* held bytes, of which the header claims some; the instances follow each other
\* at one size (fixed, inst_size) from data_off on, or are listed with offset
\* and length; plausible: the offsets where a record with a plausible
\* temperature is.

\* The size that is claimed never exceeds the bytes that are held.
Limit(b) == IF b.claimed >= 64 THEN Min({b.claimed, b.held}) ELSE b.held

Count(b) == Min({b.inst_count, MAX_INSTANCES})

\* The entries of the list that the buffer has room for.
Listed(b) == IF 60 + Count(b) * 8 > Limit(b) THEN (Limit(b) - 60) \div 8
                                             ELSE Count(b)

Inside(b, off, len) == len > 0 /\ off + len <= Limit(b)

\* parse_wnode_all_data: the instances that lie inside the buffer.
Spans(b) ==
    IF b.held < 64 THEN {}
    ELSE IF b.fixed
         THEN {[i |-> i, off |-> b.data_off + i * b.inst_size,
                len |-> b.inst_size] :
                   i \in {j \in 0..(Count(b) - 1) :
                              Inside(b, b.data_off + j * b.inst_size,
                                     b.inst_size)}}
         ELSE {[i |-> i, off |-> b.listed[i].off, len |-> b.listed[i].len] :
                   i \in {j \in 0..(Listed(b) - 1) :
                              Inside(b, b.listed[j].off, b.listed[j].len)}}

\* parse_thermal_zone: nine words, and a temperature that can be one.
Zones(b) == {s \in Spans(b) : s.len >= 36 /\ s.off \in b.plausible}
===============================================================================
