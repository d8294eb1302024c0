CONSTANTS
    NoFolder = NoFolder
    NoChat = NoChat
    Folders = {f, g}
    Chats = {a, b}
    MaxConcurrent = 2
SPECIFICATION SpecRerouted
INVARIANTS
    OneWorkerPerChat
