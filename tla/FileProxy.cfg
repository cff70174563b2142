SPECIFICATION Spec
CONSTANTS
  k1 = k1
  k2 = k2
  k3 = k3
  Key = {k1, k2, k3}
  Json <- Texts
  Secret <- Secrets
  Browser = {b1}
  Skews <- Ahead
  Second = 2
  LinkTTL = 1
  MaxAge = 1
  MaxFiles = 1
  MaxLinks = 1
  Horizon = 6
  Nothing = Nothing
INVARIANTS
  TypeOK
  GoneFilesFade
PROPERTIES
  WholeLinksOnly
  LinkLifetime
