CONSTANTS
  r1 = r1
  r2 = r2
  NoInvoice = NoInvoice
  Invoice <- OneInvoice
  Purchase <- TwoPurchases
  Date <- Dates
  Total = 3
  Tolerance = 1
  Note <- FourNotes
  NoteOf <- Halves
  Worth <- Ones
  Beginning <- Beginnings
  PageSize = 1
  MaxPages = 4
  Run <- TwoRuns
  Window = 0
  LastDay = 1
  MaxEvents = 1
SPECIFICATION Spec
SYMMETRY RunSymmetry
PROPERTIES NoFalseAnnulment QuietRunMirrorsSiigo ReconcileReachesOpenRows AnnulmentSeenOrReported
CHECK_DEADLOCK FALSE
