CONSTANTS
    Kinds = {"get", "lost", "denied", "close", "post", "zero", "noLength", "badLine", "badHeader", "badLength"}
    MaxRequests = 3
SPECIFICATION Spec
INVARIANT HandledInOrder
PROPERTY RequestAnswered
