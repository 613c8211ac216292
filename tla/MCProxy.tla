------------------------------ MODULE MCProxy ------------------------------
(***************************************************************************)
(* The functions of the Flow modules and the entry functions among them:   *)
(* what the runtime gives each one, what it returns to its caller when it  *)
(* succeeds, what its caller still owns when it fails, and what a dial of  *)
(* the client's choice needs.                                              *)
(***************************************************************************)
EXTENDS ProxyFlow, FlowSniffer, FlowHttp, FlowSocks, FlowRelay, FlowTunnel, FlowWeb, FlowDns,
        FlowLocal, FlowNet, FlowConnect, FlowDial, FlowListenMux, FlowApi,
        TLC

AllPrograms ==
    SnifferPrograms @@ HttpPrograms @@ SocksPrograms @@ RelayPrograms @@ TunnelPrograms
    @@ WebPrograms @@ DnsPrograms @@ LocalPrograms @@ NetPrograms @@ ConnectPrograms
    @@ DialPrograms @@ ListenPrograms @@ ListenMuxPrograms @@ ApiPrograms

Entry(fs, given, keeps, left, needs) ==
    {[f |-> f, given |-> given, keeps |-> keeps, left |-> left, needs |-> needs] : f \in fs}

All == {"rate", "auth", "bypass"}

\* A client's connection, which the handler closes.
Handlers ==
    UNION {Entry({"HttpHandle", "Http2Handle", "Socks4Handle", "Socks5Handle", "RelayHandle", "TunnelHandle",
                  "AutoHandle"}, {"conn"}, {}, {}, All),
           Entry({"SsHandle", "SsuHandle", "SshdHandle", "DnsHandle", "SniHandle", "RedirectHandle",
                  "RedirectUDP", "Http3Handle", "LocalHandle", "RemoteHandle"}, {"conn"}, {}, {}, {"rate", "bypass"}),
           \* Their targets are configured.
           Entry({"EntryHandle", "RouterHandle", "UnixHandle", "SerialHandle", "FileHandle", "ApiHandle",
                  "MetricsHandle", "TunHandle", "TapHandle"}, {"conn"}, {}, {}, {})}

\* Configuration, and the loops and servers it starts.
Inits ==
    UNION {Entry({"HttpInit", "Socks4Init", "Socks5Init", "RelayInit", "Http2Init", "LocalInit", "RemoteInit",
                  "SniInit", "RedirectInit", "DnsInit", "SsInit", "SsuInit", "UnixInit", "ApiInit",
                  "MetricsInit", "SshdInit", "TapInit", "AutoInit"}, {}, {"observer"}, {}, {}),
           Entry({"FileInit"}, {}, {"server"}, {}, {}),
           Entry({"TunnelInit"}, {}, {"pool", "entry point", "observer"}, {}, {}),
           Entry({"RouterInit"}, {}, {"entry point", "observer"}, {}, {})}

\* What runs beside a handler, and the functions of what a handler returns.
Goroutines ==
    UNION {Entry({"HttpObserve", "Socks4Observe", "Socks5Observe", "RelayObserve", "TunnelObserve",
                  "Http2Observe", "RouterObserve", "RouterRenew", "RouterWrite", "RouterEntry", "RelayBindDrain",
                  "SshdAccept", "TunToPeers", "TunToDevice", "TunKeepalive", "TapToPeers", "TapToDevice",
                  "DnsExchange", "WsKeepalive", "MwsKeepalive", "SerialRecord", "FileServe", "MetricsServe"},
                 {}, {}, {}, {}),
           Entry({"Socks5MuxDrain"}, {"ln"}, {}, {}, {}),
           Entry({"Socks5MuxConn", "RelayBindConn", "SshdConn", "AnytlsServe", "KcpMux"}, {"rc"}, {}, {}, {}),
           Entry({"IcmpMux", "QuicMux"}, {"session"}, {}, {}, {}),
           Entry({"MtcpMux", "MtlsMux", "SshServe", "SshdServe"}, {"conn"}, {}, {}, {}),
           Entry({"SshChannels", "SshdChannels", "SshdRequests"}, {}, {}, {}, {}),
           Entry({"TunnelClose"}, {"pool", "entry point", "observer"}, {}, {}, {}),
           Entry({"RouterClose"}, {"entry point", "observer"}, {}, {}, {})}

\* A connection to the next node, which the caller closes when Connect or Bind
\* fails; what they return is kept.
Connectors ==
    UNION {Entry({"PlainConnect", "HttpConnectorConnect", "RelayConnectorConnect", "RouterConnect", "Socks4Connector",
                  "Socks5Handshake", "SsConnect", "SsuConnect", "TunnelConnectorConnect"},
                 {"conn"}, {"conn"}, {"conn"}, {}),
           Entry({"DirectConnect"}, {"conn"}, {"conn", "target"}, {"conn"}, {}),
           Entry({"Http2Connector"}, {"conn"}, {"conn", "body"}, {"conn"}, {}),
           Entry({"RelayConnectorBind", "Socks5ConnectorBind"}, {"conn"}, {"conn", "ln", "session"}, {"conn"}, {}),
           Entry({"TunnelConnectorBind"}, {"conn"}, {"conn", "session"}, {"conn"}, {}),
           Entry({"Socks5ConnectorConnect"}, {"conn"}, {"conn", "pc"}, {"conn"}, {}),
           Entry({"SshdConnect"}, {"conn"}, {"conn", "stream", "ln"}, {"conn"}, {}),
           Entry({"RelayConnRead", "RelayConnWrite", "RelayUDPRead", "RelayUDPWrite", "RelayBindPacket",
                  "RouterConnPacket", "SniConnWrite", "Socks5Datagram", "TunnelDatagram", "TunnelBindPacket",
                  "RouterConnectorMetadata", "Socks5ConnectorInit", "TunnelConnectorMetadata"},
                 {}, {}, {}, {}),
           Entry({"Http2ConnClose", "Socks5RelayClose"}, {"conn"}, {}, {}, {}),
           Entry({"RelayAccept", "Socks5Accept", "Socks5MuxAccept", "TunnelAccept"}, {}, {"stream"}, {}, {})}

\* A session is cached: it is also kept when a stream cannot be opened on it.
Dialers ==
    UNION {Entry({"TcpDial", "UnixDial", "WgDial", "SerialDial", "TlsDial", "AnytlsDial", "ObfsHTTPDial",
                  "ObfsTLSDial", "Http2Dial"}, {}, {"target"}, {}, {}),
           Entry({"UdpDial", "FtcpDial", "DtlsDial"}, {}, {"pc"}, {}, {}),
           Entry({"TlsHandshake", "AnytlsHandshake", "WsHandshake"}, {"target"}, {"target"}, {"target"}, {}),
           Entry({"MtlsSession", "MtcpSession", "MwsSession"},
                 {"target"}, {"target", "session"}, {"target"}, {}),
           Entry({"H2Dial"}, {}, {"body"}, {}, {}),
           Entry({"Http3Dial", "PhtDial"}, {}, {"stream"}, {}, {}),
           Entry({"IcmpDial", "QuicDial", "KcpDial"}, {}, {"session", "stream"}, {}, {}),
           Entry({"GrpcDial", "WtDial"}, {}, {"session", "stream"}, {"session"}, {}),
           Entry({"SshDial"}, {}, {"target", "session", "keepalive", "stream"},
                 {"target", "session", "keepalive"}, {}),
           Entry({"Http3DialQUIC"}, {}, {"session"}, {}, {}),
           Entry({"SshdDial"}, {}, {"target", "session", "keepalive"}, {}, {}),
           Entry({"ObfsHTTPRead", "ObfsHTTPWrite", "ObfsTLSRead", "ObfsTLSWrite", "GrpcConn"}, {}, {}, {}, {})}

\* A listener keeps its port and its server; Accept keeps the connection.
Listeners ==
    UNION {Entry({"TcpListen", "UdpListen", "UnixListen", "SerialListen", "TlsListen", "AnytlsListen", "DtlsListen",
                  "FtcpListen", "GrpcListen", "H2Listen", "Http2Listen", "H3Listen", "Http3Listen", "WtListen",
                  "DnsListen", "DnsListenPacket", "MtcpListen", "MtlsListen",
                  "MwsListen", "WsListen", "ObfsHttpListen", "ObfsTlsListen", "PhtListen",
                  "RtcpListen", "RudpListen", "SshListen", "SshdListen", "RedListen", "ReduListen", "TunListen",
                  "TapListen", "IcmpListen", "KcpListen", "QuicListen"},
                 {}, {"ln", "pc", "server"}, {}, {}),
           Entry({"TcpAccept", "UnixAccept", "SerialAccept", "TlsListenerAccept", "AnytlsAccept", "DtlsAccept",
                  "FtcpAccept", "GrpcAccept", "H2Accept", "Http2Accept", "H3Accept", "Http3Accept", "WtAccept",
                  "IcmpAccept", "KcpAccept", "DnsAccept", "MtcpAccept", "MtlsAccept", "MwsAccept", "WsAccept",
                  "ObfsHttpAccept", "ObfsTlsAccept", "QuicAccept", "PhtAccept", "RtcpAccept", "RudpAccept",
                  "SshAccept", "SshdListenerAccept", "RedAccept", "ReduAccept", "TunAccept", "TapAccept"},
                 {}, {"conn"}, {}, {}),
           Entry({"AnytlsLoop", "IcmpLoop", "KcpLoop", "MtcpLoop", "MtlsLoop", "QuicLoop", "SshLoop", "SshdLoop",
                  "GrpcTunnel", "GrpcServerConn", "H2Handle", "Http2Request",
                  "Http3Request", "WtUpgrade", "DnsServeDNS", "DnsServerConn", "MwsUpgrade",
                  "WsUpgrade", "ObfsHttpRead", "ObfsHttpWrite", "ObfsTlsRead", "ObfsTlsWrite", "ReduConn", "TunRead",
                  "SerialLoop", "TunDevices", "TapDevices", "DnsServeHTTP", "DohServe"},
                 {}, {}, {}, {}),
           Entry({"RtcpClose", "RudpClose"}, {"ln"}, {}, {}, {}),
           Entry({"Http3ListenerClose"}, {"ln", "server"}, {}, {}, {})}

\* Requests of the REST API, and of the panel over the WebSocket.
Requests ==
    Entry({"createAdmission", "updateAdmission", "deleteAdmission", "createAuther", "updateAuther", "deleteAuther",
           "createBypass", "updateBypass", "deleteBypass", "createChain", "updateChain", "deleteChain",
           "createConnLimiter", "updateConnLimiter", "deleteConnLimiter", "createHop", "updateHop", "deleteHop",
           "createHosts", "updateHosts", "deleteHosts", "createIngress", "updateIngress", "deleteIngress",
           "createLimiter", "updateLimiter", "deleteLimiter", "createObserver", "updateObserver", "deleteObserver",
           "createRateLimiter", "updateRateLimiter", "deleteRateLimiter", "createRecorder", "updateRecorder",
           "deleteRecorder", "createResolver", "updateResolver", "deleteResolver", "createRouter", "updateRouter",
           "deleteRouter", "createSD", "updateSD", "deleteSD", "createService", "updateService", "deleteService",
           "createServices", "updateServices", "deleteServices", "pauseService", "resumeService", "pauseServices",
           "resumeServices", "getServiceStatus", "getConfig", "saveConfig", "reloadConfig",
           "AgentCreateChain", "AgentUpdateChain", "AgentDeleteChain", "AgentCreateLimiter", "AgentUpdateLimiter",
           "AgentDeleteLimiter"}, {}, {}, {}, {})

Entries == UNION {Handlers, Inits, Goroutines, Connectors, Dialers, Listeners, Requests}
=============================================================================
