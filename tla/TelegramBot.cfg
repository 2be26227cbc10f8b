SPECIFICATION Spec
CONSTANTS
  admin = admin
  user = user
  c1 = c1
  c2 = c2
  x = x
  d1 = d1
  w1 = w1
  w2 = w2
  None = None
  TgIds <- Accounts
  Admins <- OneAdmin
  Complaints <- TwoComplaints
  Texts <- OneText
  Drafts <- OneDraft
  Workers <- TwoWorkers
  MaxUpdates = 3
SYMMETRY Alike
INVARIANT TypeOK
INVARIANT OneUserPerAccount
INVARIANT RepliesReachTheAuthor
INVARIANT HeardOnce
PROPERTY NothingStoredIsUndone
CHECK_DEADLOCK FALSE
