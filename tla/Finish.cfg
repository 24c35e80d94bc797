SPECIFICATION Spec
CONSTANTS
    Work = {"code", "note"}
    Mates = {"mate"}
    Theirs = {"theirs"}
    Quiet = {"note", "archive"}
    Red <- Seen
    Broken <- Unseen
    Runs = 2
    Moves = 3
    Writings = 2
    Items = {"login", "search"}
    Feature = "search"
    Shelf <- OnShelf
    Shelves <- AllShelves
    SpecFiles <- Files
    Parts <- TwoParts
    Denied = {}
CHECK_DEADLOCK FALSE
PROPERTIES
    LandsChecked
    TidySparesWork
    TidySparesRecords
    PublishedThenPruned
