CONSTANTS
    Kind <- MCKind
    Inner <- MCInner
    Base <- MCBase
    Root = "root"
    InitNodes <- MCInitNodes
    InitMounts <- MCInitMounts
    Written <- MCWritten
    Places <- MCPlaces
    Visited <- MCVisited
    BuiltinPaths <- MCBuiltinPaths
    MountPaths <- MCMountPaths
    Mountable <- MCMountable
    Handles = {h1}
    MaxSize = 1
    None = None
SPECIFICATION Spec
PROPERTIES
    OneTree
    WritesStayConfined
