\* Six messages under way: an announcement and two more.
SPECIFICATION FairSpec
CONSTANTS
    WireLen = 6
    MaxCount = 3
INVARIANTS TypeOK Announced OnlineHasSession OnlineIsServed
PROPERTIES CountGrows DeathIsShown OnlineSettles UsbSettles
