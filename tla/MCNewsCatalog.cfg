CONSTANTS
    Requests = {r1, r2}
    Bases = {gia}
    Articles = {news}
    SlugAttempts = 3
    MaxCategory = 3
    ExplicitOrders = {0}
    None = None
SPECIFICATION Spec
SYMMETRY MCSymmetry
INVARIANT CatalogIsConsistent
PROPERTIES MovesExchangeNeighbours CategoriesAreLostOnlyInRaces
CHECK_DEADLOCK FALSE
