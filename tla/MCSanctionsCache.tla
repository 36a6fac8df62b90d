-------------------------- MODULE MCSanctionsCache --------------------------
(***************************************************************************)
(* Small instances of SanctionsCache for TLC: required feeds that a worker *)
(* and the cron job refresh at the same time while the worker screens.     *)
(***************************************************************************)
EXTENDS SanctionsCache, TLC

CONSTANTS un, uk, w1, cron

OneFeed == {un}
TwoFeeds == {un, uk}
OneWorker == {w1}
OneCron == {cron}

\* The required feeds are treated alike.
FeedSymmetry == Permutations({un, uk})

=============================================================================
