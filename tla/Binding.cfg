SPECIFICATION Spec
CONSTANTS
  a1 = a1
  a2 = a2
  c1 = c1
  c2 = c2
  t1 = t1
  t2 = t2
  AdapterNames = {a1, a2}
  ClientNames = {c1, c2}
  Tenants = {t1, t2}
  Empty = Empty
  Unset = Unset
  DefaultAdapterName = Empty
  DefaultClientName = Empty
  OptionValues = {o1}
  Offered <- Registrations
  MaxRegistrations = 2
  Callers = {g1, g2}
  NoUnit = NoUnit
  NoCall = NoCall
  Missing = Missing
  Ambiguous = Ambiguous
INVARIANTS
  BindingTypeOK OrderIrrelevant TenantIsolation OptionsGranted BeginsWithinCapabilities
PROPERTIES
  StableWhenSelected
CHECK_DEADLOCK FALSE
