SPECIFICATION SuiteSpec
CONSTANTS
  s1 = s1  ann = ann  bob = bob  kim = kim  eve = eve  dot = dot  web = web  foe = foe  wp = wp
  acct = acct  key = key  hash = hash
  r1 = r1  r2 = r2  car = car  fix = fix  big = big  old = old  new = new
  Piece = {s1}
  Value = {ann, bob, kim, eve, dot, web, foe, wp, acct, key, hash}
  Content <- Files
  OnHand = {s1}
  Named = {ann, wp, dot}
  Nameable = {bob, kim}
  Elsewhere = {eve, web, foe}
  Long = {ann, bob, kim, dot, foe, wp}
  Overlooked = {web}
  Split = {dot}
  Longer <- Begins
  Stock = {wp}
  Prefixing = {bob}
  Within = {ann}
  Keep = {foe}
  Spared = {foe}
  Pseudonym = {acct}
  Credential = {key}
  Sealed = {}
  HexDigest = {hash}
  Secretive = {s1}
  Lookalike <- Alike
  NoBytes = NoBytes
  Nobody = Nobody
  Row = {r1, r2}
  Rule = {"X", "Y"}
  Want <- Reports
  Carrier = {car}
  Fixture = {fix}
  KnownFP = {}
  Pinned = {"X"}
  File = {fix, big}
  Oversize = {big}
  Build = {old, new}
  Fires <- Scanners
  Becomes <- Reviews
  Accounts = {new}
  NoRun = NoRun
  NoVerdict = NoVerdict
INVARIANTS
  PassedMeansNameless
  VouchedBytesAreTheGated
  GreenIsEarned
  FigureIsOverTheTrees
CHECK_DEADLOCK FALSE
