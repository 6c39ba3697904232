SPECIFICATION Readers
CONSTANTS
    a = a
    b = b
    Byte = {a, b}
    Newline = Newline
    Handshakes <- MCHandshakes
    Selected <- MCSelected
    Unselected <- MCUnselected
    MaxLine = 2
    MaxBytes = 7
    Base = 2
    HeaderSize = 2
    Messages <- MCMessages
    MaxPayload = 2
    MaxOctets = 8
    Radix = 9
    Widths <- MCWidths
    MaxSafe = 300
    ManyElements = 2
    MaxMessage = 7
    Characters <- MCCharacters
    Bom <- MCBom
    Replacement <- MCReplacement
    Lone = Lone
    Utf8 <- MCUtf8
    Fields <- MCFields
    Server <- MCServer
    Client <- MCClient
    MaxForeign = 5
INVARIANTS
    ReadersTypeOK
    ReadsTheLanguage
    WrittenIsRead
PROPERTIES
    ImplementsLineFeed
    ImplementsFrameFeed
    LinesArrive
CHECK_DEADLOCK FALSE
