SPECIFICATION Spec
CONSTANTS
    None = None
    phone = phone
    tablet = tablet
    p1 = p1
    p2 = p2
    p3 = p3
    t1 = t1
    Devices <- MCOnePhone
    Sockets <- MCPhoneSockets
    DeviceOf <- MCPhoneOf
    Compatible <- MCPhoneCompatible
    MaxAttempts = 2
INVARIANTS
    TypeOK SessionIsSound CallingIsRight
PROPERTIES
    PairingEnds
