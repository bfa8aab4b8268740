SPECIFICATION Spec
CONSTANTS
    p1 = p1
    p2 = p2
    p3 = p3
    Peers = {p1, p2, p3}
    Heads <- SomeHeads
    MaxClients = 2
    MimeTypes = {"text/plain"}
    Nothing = Nothing
SYMMETRY Symmetry
INVARIANTS OwnUnlessMoved AnsweredAsAlone
