SPECIFICATION Spec
CONSTANTS
    Purchases = {p1, p2}
    Users = {ann, bob}
    Editors = {e1, e2}
    Requests = {r1, r2}
    Quantities = {1, 2}
    Capacities = {NoCapacity, 0, 2}
    Prices = {0, 1}
    NoCapacity = NoCapacity
    NoPurchase = NoPurchase
    StartFunds = 3
    MaxEdits = 2
    CartKeys = {k1}
    StockKeys = {k2, k3}
    Staff = {s}
    Funds = 3
    MaxOrders = 2
    Questions = {q1, q2}
    None = None
SYMMETRY Symmetry
INVARIANTS TypeOK TicketsSound StoreSound CatalogueHolds GameHolds
CHECK_DEADLOCK FALSE
