SPECIFICATION KeyboardSpec
CONSTANTS
    Keys = {a, b, shift}
    Printing = {a, b}
    KB_BUFFER_SIZE = 3
    KB_EVENT_BUF = 3
    Burst = 2
SYMMETRY PrintingSymmetry
PROPERTIES
    EventsAreAQueue
    CharsAreAQueue
    
