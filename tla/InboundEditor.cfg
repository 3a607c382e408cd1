SPECIFICATION Spec
CHECK_DEADLOCK FALSE
SYMMETRY Symmetric
CONSTANTS
    a = a
    b = b
    Client = {a, b}
    Protocol = {"vmess", "vless", "trojan", "shadowsocks", "http"}
    Network = {"tcp", "ws", "kcp"}
    Text <- MCText
    Form <- MCForm
    MaxCount = 1
    MaxElsewhere = 1
INVARIANT TypeOK
INVARIANT TlsAllowed
INVARIANT FlowAllowed
INVARIANT LinksAgree
INVARIANT HeadersSurvive
PROPERTY NothingLost
