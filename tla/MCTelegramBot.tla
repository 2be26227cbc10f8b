----------------------------- MODULE MCTelegramBot -----------------------------
(* A finite instance of TelegramBot for TLC: an admin, a user, two goroutines. *)
EXTENDS TelegramBot, TLC

CONSTANTS admin, user, c1, c2, x, d1, w1, w2

Accounts     == {admin, user}
OneAdmin     == {admin}
TwoComplaints == {c1, c2}
OneText      == {x}
OneDraft     == {d1}
TwoWorkers   == {w1, w2}

Alike == Permutations(TwoWorkers) \cup Permutations(TwoComplaints)
=============================================================================
