SPECIFICATION TextSpec
CONSTANTS
    Trees <- SomeTrees
    Layouts <- SomeLayouts
    Events <- SomeEvents
    Texts = {"a", "b"}
    MaxEvents = 9
    Docs <- SomeDocs
INVARIANTS
    ConditionMeans
    YamlFaithful
PROPERTIES
    ImplementsReference
CHECK_DEADLOCK FALSE
