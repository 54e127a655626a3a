SPECIFICATION RingSpec
CONSTANTS
    Byte = {0, 1, 2}
    Zero = 0
    size = 4
    ItemSize = 2
    Locked = FALSE
    RingAdversity = {}
PROPERTY IsFifo
