SPECIFICATION FeesSpec
CONSTANTS
    ann = ann
    bob = bob
    cem = cem
    r1 = r1
    r2 = r2
    People = {ann, bob, cem}
    Accounts = {ann}
    PhoneOf <- Phones
    NoPhone = NoPhone
    Nobody = Nobody
    Requests = {r1, r2}
    Free = Free
    Occasions <- Events
INVARIANTS
    CapHeld
    OneEntryEach
    FeesSettled
SYMMETRY Alike
CHECK_DEADLOCK FALSE
