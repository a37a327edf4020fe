CONSTANTS
  boss = boss
  ana = ana
  neo = neo
  pana = pana
  pneo = pneo
  inhouse = inhouse
  admin = admin
  consulta = consulta
  r1 = r1
  r2 = r2
  Address <- Addresses
  Person <- People
  Mail <- Mails
  Domain <- Domains
  DomainOf <- DomainsOf
  Seeded <- Seeds
  Role <- Roles
  Administrator = admin
  ReadOnly = consulta
  FirstRole <- Firsts
  None = None
  Slot <- Slots
  Lifetime = 1
  MaxRequests = 4
  LastTick = 2
SPECIFICATION Spec
SYMMETRY AccessSymmetry
INVARIANTS DecisionsStand AccountsAreVouched TokensLapse
CHECK_DEADLOCK FALSE
