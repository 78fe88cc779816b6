\* A start from the menu and a nested one over three files; two days of validity.
CONSTANTS
    t1 = t1
    t2 = t2
    Teams = {t1}
    None = None
    Missing = Missing
    Damaged = Damaged
    Torn = Torn
    Starts <- MCStarts
    Devices <- MCDevices
    Reprovision <- MCBoth
    Lifetime = 2
    RenewBefore = 1
    MaxDay = 3
    MaxCrashes = 1
    MaxRevoked = 2
SPECIFICATION FairSpec
INVARIANTS
    FilesAreWhole
    ReadyIsUsable
PROPERTIES
    AcceptedDeviceIsKept
    
