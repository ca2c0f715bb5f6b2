SPECIFICATION Spec
CONSTANTS
    key = key  account = account  brokenKey = brokenKey
    Push = {p1, p2}
    Change = {c1}
    Client = {"apns", "fcm"}
    Cred = {key, account, brokenKey}
    Broken = {brokenKey}
    None = None
    Offers <- MCOffers
    Bundle <- MCBundle
    Attempts = {2}
    Base = 2
    MaxWait = 3
    Bits = 3
    RetryAfters = {0, 3, 4}
SYMMETRY Symmetry
INVARIANTS TypeOK BundleCurrentUnlessOvertaken RetriesInBudget ConfirmedIsFinal
PROPERTIES RetryUsesNewToken
