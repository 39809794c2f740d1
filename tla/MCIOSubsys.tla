----------------------------- MODULE MCIOSubsys -----------------------------
(* Instances of IOSubsys for TLC: a driver CObject Python opens, reads and *)
(* drops, over valid and invalid option dicts.                             *)
EXTENDS IOSubsys

\* A dict of two string pairs, an empty dict, and one with a non-string value.
MCOptionArgs == {Missing, <<TRUE, TRUE>>, <<>>, <<TRUE, FALSE>>}

\* Known driver names only, and the name of no driver.
MCKnownDrivers == {"standard", "ewf", Missing}
MCAnyDriver == {"standard", "nosuch", Missing}

\* A len of -1, which "l" wraps to the largest uint32_t, zero, and a small one.
MCLenArgs == {-1, 0, 2}
=============================================================================
