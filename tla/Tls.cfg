CONSTANTS
    Kinds = {"get"}
    MaxRequests = 1
SPECIFICATION TlsSpec
PROPERTY HandshakeCompletes
