SPECIFICATION Spec
CONSTANTS
  Integrations = {"catalog", "pos"}
  Streams = {"catalog.product_snapshot", "savana.product_snapshot"}
  Of <- StreamOf
  Paged = {"catalog.product_snapshot"}
  Products = {x1}
  MaxSnapshots <- TwoOrOne
  Past <- First
  PageCount <- TwoOrOne
  MaxAccidents = 1
CHECK_DEADLOCK FALSE
INVARIANTS
  TypeOK
  ShownFollowsSnapshots
  NewestIsApplied
PROPERTIES
  ImplementsStorefront
