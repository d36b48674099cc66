SPECIFICATION FairSpec
CONSTANTS
    Idx = {hci, acpi}
    Absent = Absent
    MaxEvents = 2
INVARIANT KernelIsMirrored
PROPERTY IconSettles
