SPECIFICATION Spec
CONSTANTS
  a1 = a1  a2 = a2
  ann = ann  bob = bob
  Nobody = Nobody
  Users <- TwoUsers
  Clients <- TwoClients
  Hasty <- HastyClient
  MaxToken = 2
  AutoLogin <- PatientClient
SYMMETRY UserSymmetry
INVARIANTS
  TypeOK
  OwnSessionKept
  LogoutFinal
  EntryOfConnection
\* All clients may leave the server alone.
CHECK_DEADLOCK FALSE
