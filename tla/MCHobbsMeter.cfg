SPECIFICATION Spec
CONSTANTS
  TakeoffDebounce = 2
  LandingDebounce = 2
  MinimumLeg = 3
  Minute = 3
  SaveInterval = 3
  MaxLeg = 7
  MaxFlights = 2
INVARIANTS TypeOK OpenLeg CleanIsSaved LossBounded
PROPERTIES FlightsStay BadEditStays TotalNeverFalls ChangesAreSaved
