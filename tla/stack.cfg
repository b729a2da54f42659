SPECIFICATION Spec
CONSTANTS
    Scenes <- MCScenes
    Errors = {2, 256, 1000, 65534}
    Ids = {7}
    SeqNums = 2
    Half = 16
    Digest <- MCDigest
    WindowWidth = 8
    window_scale = 1
    advertised_mss = 4
    FALLBACK_MSS = 2
    handshake_retries = 3
    max_backlog = 1
    Datagrams <- MCDatagrams
INVARIANTS
    
    RequestsMatchPings
    
    HandshakeAgreement
    WindowsGranted
    WrittenIsRead
    DamageIsDetected
PROPERTIES
    
    HandshakeRecovers
