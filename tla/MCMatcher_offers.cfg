SPECIFICATION Spec
CONSTANTS
  Offers <- AllOffers
  Currents <- AllCurrents
  NoDriver = NoDriver
  OptionSets <- AllOptions
  MaxFound = 3
  Printer = FALSE
  Major = 10
  Minor = 0
  Build = 19045
  Arch = 1
INVARIANTS Sorted DupsRepresented Improves RecommendsBest OneChoice
PROPERTY ReofferEnds
