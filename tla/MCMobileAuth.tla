---------------------------- MODULE MCMobileAuth ----------------------------
(* Finite instances of MobileAuth for TLC. *)
EXTENDS MobileAuth, TLC

CONSTANTS u1, u2, i1, i2, l1, l2, m1, m2, g1, g2

OneUser     == {u1}
TwoUsers    == {u1, u2}
OneInstall  == {i1}
TwoInstalls == {i1, i2}
OneLogin    == {l1}
TwoLogins   == {l1, l2}
OneSession  == {m1}
TwoSessions == {m1, m2}
TwoRequests == {g1, g2}

LoginKinds   == {"approve", "exchange"}
SessionKinds == {"approve", "exchange", "refresh", "access", "logout", "revoke"}

NoLimits   == {}
SomeLimits == {-1, 1, 2}
Nobody     == {}

LoginsOnly   == Logins
SessionsOnly == Sessions

Symmetry == Permutations(Users) \cup Permutations(Installs) \cup Permutations(Logins)
                \cup Permutations(Sessions) \cup Permutations(Requests)
=============================================================================
