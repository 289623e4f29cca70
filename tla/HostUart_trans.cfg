SPECIFICATION FairSpec
CONSTANTS
    StaticMsg = {"uart_rx", "free_tx_sent_data"}
    Callback = {"uart_tx", "socket_create"}
    Ctx = {"uart1", "port0", "port1"}
    Handler = {"uart_rx_timeout", "sock_recv_timeout"}
    Delay <- MCDelay
    TickMs = 2
    TickMod = 3
    CntMod = 4
    Setup <- MCSetup
    BufSize = 8
    SendSize = 2
    CacheLimit = 1
    RxMax = 1
    OwnMax = 18
INVARIANTS TypeOK CountExact NothingStranded EachByteOnce OwnRoom
PROPERTIES NotEarly BytesFlow RxResumes SentFreed SocketsPolled
