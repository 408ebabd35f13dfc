SPECIFICATION EntitySpec
CONSTANTS
  EntityCases <- MCCases
INVARIANTS EntityTypeOK RefusalStands ChoiceStands OrderIsFree
PROPERTIES ProjectionsFit EnabledIsPolled
