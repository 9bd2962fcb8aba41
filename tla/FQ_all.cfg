SPECIFICATION Spec
CONSTANTS
    Kind = {register, event, status, update}
    Register = register
    Wide = {register}
    Batchable = {update}
    Stages = {event}
    SizeOf <- MCSizeOf
    FrameLimit = 4
    ByteLimit = 16
    PressureCap = 2
    RunLimit = 2
    Inventories = {0, 1}
    MaxFrames = 6
INVARIANTS QueueInv PreparationInv RoomWhileReading
PROPERTIES FramesAreHandled CloseHandshakeEnds
CHECK_DEADLOCK FALSE
