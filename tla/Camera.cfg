SPECIFICATION CameraFairSpec
CONSTANTS
    CAMERASIZE = 3
    DMASIZE = 2
    MaxFrame = 6
    DATASIZE = 13
    PIECE = 2
    HELD = 1
    RANGE = 7
INVARIANTS WholePicture InBuffer
PROPERTY Films
