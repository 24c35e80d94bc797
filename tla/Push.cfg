SPECIFICATION Spec
CONSTANTS
    Parts = {"api", "web"}
    Stories <- AllStories
    Theirs <- AllTheirs
    Settings <- AllSettings
    MaxMain = 3
CHECK_DEADLOCK FALSE
INVARIANTS
    WhatSparesARunIsTrue
PROPERTIES
    MainStaysGreen
    MainIsAccountedFor
