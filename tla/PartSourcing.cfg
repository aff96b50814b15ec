\* Two overlapping resolutions, three ticks of the clock, and one change: a rooftop is
\* created or updated, or an import changes the discount.
CONSTANTS
  home = home
  other = other
  third = third
  c1 = c1
  c2 = c2
  c3 = c3
  n1 = n1
  n2 = n2
  Slug = {home, other, third}
  BranchCode = {c1, c2, c3}
  BranchName = {n1, n2}
  Seeded <- SeededRooftops
  Offered <- OfferedRooftops
  Patches <- AskedPatches
  MaxRooftops = 3
  MaxRooftopWrites = 1
  Home = home
  Portals = {"OEM"}
  Resolvers = {r1, r2}
  MaxChanges = 1
  Ttl = 1
  MaxProbe = 1
  MaxTime = 3
SYMMETRY SourcingSymmetry
SPECIFICATION SourcingSpec
INVARIANTS PriceRecent CacheWhole
CHECK_DEADLOCK FALSE
