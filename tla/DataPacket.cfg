CONSTANTS
    Capacity = 32
    StreamFields <- StreamOut
    Markers <- AnyMarker
    Types = {0, 3}
    Numbers <- NewNumbers
    CsrcLists <- Lists
    Extensions <- Exts
    Payloads <- Datas
    PadTos = {3}
    KnownTypes = {0, 3}
    OldBuffers <- Buffers
    Careful = TRUE
SPECIFICATION Spec
INVARIANTS TypeOK ReceiverReadsTheSame
 
