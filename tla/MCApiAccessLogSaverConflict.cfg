SPECIFICATION Spec
CONSTANTS
    Messages = {m1}
    Workers = {w1, w2}
    NoMessage = NoMessage
    Unreadable = {}
    MaxMishaps = 1
    PoisonLimit = 2
    Floor = 2
    Ceiling = 3
PROPERTY AddUpdatesExisting
