------------------------- MODULE MC_PlatformDevice -------------------------
(***************************************************************************)
(* Two devices (so FindDevice has a list to scan and a first match), two  *)
(* threads (one deleting while the other gets and puts), one notifier.    *)
(***************************************************************************)
EXTENDS PlatformDevice, TLC

CONSTANTS p1, p2, t1, t2, n1

MCDevs == {p1, p2}

MCThreads == {t1, t2}

MCNotifiers == {n1}

=============================================================================
