\* Two ticks and a publisher over a chain of one block, with every way a
\* rebuild or a root can be left behind.
SPECIFICATION ControlSpec
CONSTANTS
    Tick = {t1, t2}
    Sideload = {}
    Publisher = {p1}
    Nobody = Nobody
    Dead = Dead
    h1 = h1
    h2 = h2
    Handle = {h1}
    Chain <- OneBlock
    MaxEvents = 2
PROPERTIES
    IndexAndRootAreRebuilt
