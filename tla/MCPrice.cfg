\* Two currencies, two requests at a time.
CONSTANTS
  r1 = r1
  r2 = r2
  usd = usd
  jpy = jpy
  Currencies = {usd, jpy}
  Requests = {r1, r2}
SPECIFICATION FairSpec
INVARIANTS
  TypeOK
  PriceIsAsRequested
PROPERTIES
  SettlesOnChoice
