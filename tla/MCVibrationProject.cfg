CONSTANTS
  Waves = {wa, wb}
  Settings = {x, y}
  None = None
  Sample = Sample
  Csv = Csv
  MaxRuns = 2
  MaxVersion = 2
  MaxTurns = 3
SPECIFICATION MCSpec
SYMMETRY Alike
INVARIANT ViewShowsItsCase
INVARIANT CasesNameTheirRuns
PROPERTY SavedRoundTrip
