\* Requests end for good, so the system may stop.
CHECK_DEADLOCK FALSE
CONSTANTS
    Request = {r1, r2, r3}
    MaxFaults = 1
    Id = {x1, x2, x3}
    Account = {x1, x2, x3}
    Staff = {x1, x2}
    Email = {mail}
    Password = {p1, p2}
    MaxAttempts = 2
    MaxToken = 2
    Category = {x1, x2, x3}
    Unit = {x1, x2, x3}
    Seed = {x1, x2}
    Product = {x1, x2, x3}
    Sku = {s1, s2}
    Picture = {i1, i2, i3}
    Cashier = {x1, x2, x3}
    Money = {1, 3}
    Setting = {x1, x2, x3}
    Key = {1, 2, 3}
    MaxId = 6
    tea = tea
    teapot = teapot
    Opening <- Openings
    Shape <- Shapes
    Goods <- Stock
    Ware = {tea, teapot}
    Tracked = {tea}
    AlertQuantity = 2
    PageRows = 1
    Marks = {"paid"}
    Amounts = {0}
    MaxReports = 2
    MaxWrites = 1
    Item = {tea, teapot}
    Manager = {m1, m2}
    Code <- Codes
    Labels <- LabelsThere
    Mention <- Mentions
    MaxNotices = 2
    Schedule = {t1, t2}
    Frequency = {"daily", "weekly"}
    Adjustment = {x1, x2, x3}
    Business = {x1, x2, x3}
    Founder = {u1, u2}
    MaxSecond = 4
    Desks = {"accounts", "products", "cash", "defaults", "reports", "alerts",
        "schedules", "composites", "backups", "brands", "customerGroups", "warranties",
        "priceGroups",
        "discounts", "templates", "locations", "expenses", "variations", "crm", "essentials",
        "superadmin", "hms", "projects", "repair", "assets", "manufacturing", "contacts",
        "accounting", "restaurant"}
SPECIFICATION Spec
SYMMETRY Symmetry
INVARIANTS
    WrongPasswordsCount
    TokenReuseNeedsOverlap
    LastAdminExplained
    CategoriesFormAForest
    UnitsHaveTwoLevels
    SkusAreUnique
    StaleListExplained
    ImagesExplained
    OneOpenSession
    ClosingReconciles
    DefaultsExplained
    GroupTaxesAsAsked
    KeysExplained
    PostingsExplained
    StatementsAgree
    NoticesExplained
    HalvesExplained
    BackupsExplained
