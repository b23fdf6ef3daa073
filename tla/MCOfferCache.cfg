SPECIFICATION Spec
CONSTANTS
  c1 = c1
  g1 = g1
  g2 = g2
  o1 = o1
  all = all
  gpu = gpu
  none = none
  Clients = {c1}
  Refreshers = {g1, g2}
  Offers = {o1}
  NoOffer = none
  Keys = {all, gpu}
  Listings = {{all}, {gpu}}
  Unfiltered = {all}
  Admits <- AdmitsOne
  None = none
  MaxErrors = 1
INVARIANTS TypeOK FlagHasRefresh
SYMMETRY MCSymmetry
