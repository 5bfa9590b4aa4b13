SPECIFICATION RegistrationSpec
CONSTANTS
  Programs <- MCPrograms
  Late <- MCLate
  ValuesOf <- Generated
  Meant <- MCMeant
INVARIANTS
  RegistrationSound
  DiesOfMistakes
CHECK_DEADLOCK FALSE
