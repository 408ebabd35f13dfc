SPECIFICATION ZoneFairSpec
CONSTANTS
  SlotCount = 2
  Clocked = {2}
  Overridden = {}
  MaxRetries = 2
  ZoneEnvironments <- MCEnvironments
INVARIANTS ZoneTypeOK ActiveIsFresh
PROPERTIES RowsKept RecordsSurvive ZonesReturn
