SPECIFICATION TextSpec
CONSTANTS
    Trees <- DocumentedTrees
    Layouts <- SomeLayouts
    Events <- SomeEvents
    Texts = {"a", "b"}
    MaxEvents = 0
    Docs <- NoDocs
INVARIANTS
    DocumentedMeans
CHECK_DEADLOCK FALSE
