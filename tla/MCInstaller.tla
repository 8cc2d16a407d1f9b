---------------------------- MODULE MCInstaller ----------------------------
(***************************************************************************)
(* Values of the constants of Installer for TLC.  Device A has two drivers *)
(* from one archive, device B one driver that is already on disk, device C *)
(* none.  D is one more device with a driver on disk.                      *)
(***************************************************************************)
EXTENDS Installer

MCMatches == {"a1", "a2", "b1", "d1"}

MCDevices == {"A", "B", "C", "D"}

MCLabel == [d \in MCDevices |-> IF d = "C" THEN "" ELSE d]

MCHwidIndex == [m \in MCMatches |-> CASE m = "a1" -> 1 [] m = "a2" -> 2
                                      [] m = "b1" -> 3 [] m = "d1" -> 4]

MCPackOf == [m \in MCMatches |-> IF m \in {"a1", "a2"} THEN "archive" ELSE "unpacked"]

\* The two rows of a driver: the name of its pack, the driver
Rows(m, d) == <<[match |-> m, dev |-> d, name |-> TRUE], [match |-> m, dev |-> d, name |-> FALSE]>>

NoDriver(d) == <<[match |-> NoMatch, dev |-> d, name |-> FALSE]>>

Full == Rows("a1", "A") \o Rows("a2", "A") \o Rows("b1", "B") \o NoDriver("C")

OneLayout == {Full}

Small == Rows("a1", "A") \o Rows("b1", "B")

SmallLayout == {Small}

\* Device C is unplugged or plugged in, before or after B
HotPlug == {Small, Rows("a1", "A") \o NoDriver("C") \o Rows("b1", "B")}

\* A's pack is removed: no driver is found for it any more
PackRemoved == {Full, NoDriver("A") \o Rows("b1", "B") \o NoDriver("C")}

\* All of these: devices come and go and packs are removed
Layouts == HotPlug \cup PackRemoved

\* Drivers on disk, for the runs about what must eventually happen
Disk == {Rows("b1", "B") \o Rows("d1", "D")}

\* The lists of every run satisfy what the theorems about the selection assume
ASSUME ListsAssumption == Distinct

=============================================================================
