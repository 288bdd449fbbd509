SPECIFICATION MCSpec
CONSTANTS
    Process = {p1, p2}
    Fingerprint = {"today", "past"}
    Document = {d1, d2}
    DailyLimit = 1
    PayloadDay <- MCPayloadDay
    MaxGeneration = 2
    MaxDay = 1
    Claimant = p2
    OtherDocument = d2
INVARIANTS
    OneOrderPerReservation
    ReservationBeforeOrder
    OnlyExpiredIsRebought
    DailyAllowanceKept
    RowTellsItsActivity
    CheckConstraint
    OneRequestPerFingerprint
    CallsAgreeWithTable
PROPERTIES
    SettledRowIsFinal
    PurchasesSpec
    CallEnds
