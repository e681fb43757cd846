CONSTANTS
    Requests = {r1}
    gia = gia
    news = news
    top = top
    nested = nested
    Bases = {gia}
    Articles = {news}
    SlugAttempts = 2
    MaxCategory = 2
    ExplicitOrders = {0}
    None = None
    SeedCategories <- MCSeedCategories
    SeedArticles <- MCSeedArticles
    Sections <- MCSections
    LegacySections = {hero}
SPECIFICATION DeploymentSpec
INVARIANT SeedsAreConsistent
CHECK_DEADLOCK FALSE
