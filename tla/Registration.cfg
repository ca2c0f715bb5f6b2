SPECIFICATION RegistrationSpec
CONSTANTS
    req1 = req1
    Request = {req1}
    MaxChanges = 6
INVARIANTS TypeOK RegistrationGuarded
