SPECIFICATION Spec
CONSTANTS
  h1 = h1
  h2 = h2
  h3 = h3
  r1 = r1
  r2 = r2
  NoHelper = NoHelper
  NoRun = NoRun
  Original = Original
  Helper <- MCHelper
  Run <- MCRun
  Faults <- Expected
INVARIANTS
  HermesRunsWhatIsWritten
  TokenStaysActive
  UndoneClientsAreRevoked
  PassedRunsAreCommitted
  BackupsOutliveTheirUse
PROPERTIES
  ImplementsContract
SYMMETRY Symmetry
CHECK_DEADLOCK FALSE
