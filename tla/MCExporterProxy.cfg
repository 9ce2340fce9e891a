SPECIFICATION Spec
CONSTANTS
    NoModel = NoModel
    Request = {r1}
    Label = {NoModel, m1}
INVARIANT ProxyDrainsBeforeExit
