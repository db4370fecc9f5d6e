\* Three members, caps of one and two seats, billing events, administrators' acts.
SPECIFICATION Spec
CONSTANTS
    ann = ann  bob = bob  eve = eve  r1 = r1  r2 = r2  h1 = h1
    Members <- MCMembers
    Slots <- MCSlots
    Hooks = {h1}
    MaxSeats <- MCMaxSeats
    OnSale <- MCOnSale
    Updates <- MCUpdates
    MaxEvents = 3
    Grants <- MCOnSale
    MaxActs = 1
SYMMETRY Symmetry
CONSTRAINT Bounds
VIEW View
INVARIANT SeatOverrunBounded OverSeatsOnlyUnguarded InOrderBillingAgrees
