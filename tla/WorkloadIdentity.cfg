SPECIFICATION FairSpec
CONSTANTS
  Members = {"m1"}
  UIDs = {"ours", "theirs"}
  Malformed = {}
  MaxEdits = 2
INVARIANT IdentityInv
PROPERTY PinIsKept
PROPERTY FreezeIsSticky
PROPERTY ActsOnPinnedCluster
PROPERTY MismatchFreezes
