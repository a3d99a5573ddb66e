--------------------------- MODULE MCSlotMigration ---------------------------
(* Small instances of SlotMigration.                                        *)
EXTENDS SlotMigration, TLC

\* Two slots of one master, two keys in the first.
From2 == "s1" :> "a" @@ "s2" :> "a"
SlotOf2 == "k1" :> "s1" @@ "k2" :> "s1" @@ "k3" :> "s2"

\* One slot with all the keys.
From1 == "s1" :> "a"
SlotOf1 == "k1" :> "s1" @@ "k2" :> "s1" @@ "k3" :> "s1"

MCEnvironments == {{}, {"cmd"}}
Dependably == {{}}
=============================================================================
