CONSTANTS
    p1 = p1
    p2 = p2
    i1 = i1
    i2 = i2
    Plugins = {p1}
    InstallRequests = {i1, i2}
    RequestPlugin <- MCRequestPlugin
    LaunchingConcurrent = 1
    MaxRuntimes = 2
    MaxInstances = 1
    NoRuntime = NoRuntime
SPECIFICATION Spec
PROPERTY LaunchCallReturns
