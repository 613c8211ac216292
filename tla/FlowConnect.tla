---------------------------- MODULE FlowConnect ----------------------------
(* The client sides of the protocols (x/connector): what is sent over the   *)
(* connection to a proxy so that it becomes a connection to the target, or  *)
(* a listener on the proxy.  The caller closes the connection on an error.  *)
EXTENDS Control

\* The request that opens a tunnel and its answer.
Request == Check("write request") \o Check("read response") \o Check("status")

\* x/connector/direct/connector.go:34-71 Init, Connect
DirectConnect == When("reject", Return) \o Open("target") \o Return

\* x/connector/forward/connector.go:36-47 Connect
PlainConnect == Return

\* x/connector/http/connector.go:46-131 Connect
HttpConnectorConnect ==
    If("tcp", Check("stream"), Check("udp"))
    \o Timed("conn") \o Request \o Return

\* The connection carries other streams; it is given up when a request on it fails.
\* x/connector/http2/connector.go:46-123 Connect
Http2Connector ==
    Check("client") \o Timed("conn")
    \o Or("open", "body", Close("conn") \o Fail)
    \o Or("test", "status", Close("body") \o Fail) \o Return

\* x/connector/http2/conn.go:26-34 Close
Http2ConnClose == Close("body") \o Close("conn") \o Return

\* Without nodelay the request goes out with the first data.
\* x/connector/relay/connector.go:42-146 Connect
RelayConnectorConnect ==
    Timed("conn")
    \o When("udp association", Call("RelayBindRequest") \o Return)
    \o When("address", Check("address"))
    \o When("nodelay", Request)
    \o Check("network") \o Return

\* x/connector/relay/conn.go:26-37 Read
RelayConnRead == When("first read", When("buffered", Check("response"))) \o Check("read") \o Return

\* x/connector/relay/conn.go:39-53 Write
RelayConnWrite ==
    Locked \o When("buffered", Do("test", "write both") \o Return) \o Check("write") \o Return

\* x/connector/relay/conn.go:62-89 Read
RelayUDPRead ==
    When("first read", When("buffered", Check("response"))) \o Check("length") \o Check("data") \o Return

\* x/connector/relay/conn.go:91-118 Write
RelayUDPWrite ==
    Check("length") \o Locked
    \o When("buffered", Check("write all") \o Return)
    \o Check("write length") \o Check("write") \o Return

\* x/connector/relay/conn.go:166-202 Read, Write
RelayBindPacket == If("read", Check("length") \o Check("data"), Check("length") \o Check("write")) \o Return

\* x/connector/relay/bind.go:18-40 Bind
RelayConnectorBind ==
    When("tcp", ReturnOf("RelayListen")) \o When("udp", ReturnOf("RelayListenUDP")) \o Fail

\* x/connector/relay/bind.go:42-59 bindTCP
RelayListen == Call("RelayBindRequest") \o Open("session") \o Return

\* x/connector/relay/bind.go:61-81 bindUDP
RelayListenUDP == Call("RelayBindRequest") \o Start("ln") \o Return

\* x/connector/relay/bind.go:83-145 bind
RelayBindRequest == Request \o Check("address") \o Return

\* A stream of the session is a connection that a peer made to the proxy.
\* x/connector/relay/listener.go:22-36 Accept
RelayAccept == Open("stream") \o Or("call", "RelayPeer", Close("stream") \o Fail) \o Return

\* x/connector/relay/listener.go:38-91 getPeerConn
RelayPeer == Check("read response") \o Check("status") \o Check("address") \o Return

\* x/connector/router/metadata.go:22-34 parseMetadata
RouterConnectorMetadata == When("id", Check("id")) \o Return

\* x/connector/router/connector.go:40-120 Connect
RouterConnect == Timed("conn") \o Request \o Check("network") \o Return

\* x/connector/router/conn.go:20-54 Read, Write
RouterConnPacket == If("read", Check("length") \o Check("data"), Check("length") \o Check("write")) \o Return

\* The name of the target is hidden in the first data, once.
\* x/connector/sni/conn.go:22-86 Write, obfuscate
SniConnWrite ==
    When("hidden or no host", Check("write") \o Return)
    \o If("tls", Call("SniHello"), While("line", Check("read line")))
    \o Check("write") \o Return

\* x/connector/sni/conn.go:88-121 readClientHelloRecord
SniHello == Check("record") \o Check("hello") \o Check("encode") \o Check("write record") \o Return

\* x/connector/socks/v4/connector.go:43-125 Connect
Socks4Connector ==
    Check("network") \o Check("stream") \o Check("address")
    \o Timed("conn") \o Request \o Return

\* x/connector/socks/v5/connector.go:42-73 Init
Socks5ConnectorInit == Check("metadata") \o Return

\* x/connector/socks/v5/connector.go:75-93 Handshake
Socks5Handshake == Timed("conn") \o Call("Socks5Selected") \o Return

\* x/connector/socks/v5/selector.go:33-77 OnSelected
Socks5Selected ==
    When("no auth or tls", Return)
    \o When("password", Request \o Return)
    \o Fail

\* x/connector/socks/v5/connector.go:95-161 Connect
Socks5ConnectorConnect ==
    Timed("conn")
    \o When("udp", ReturnOf("Socks5ConnectUDP"))
    \o Check("network") \o Check("stream") \o Check("address")
    \o Request \o Return

\* x/connector/socks/v5/connector.go:163-192 connectUDP
Socks5ConnectUDP ==
    Check("address")
    \o When("relay", ReturnOf("Socks5RelayUDP"))
    \o Request \o Return

\* Its read timeout is set once: it bounds the association's life.
\* x/connector/socks/v5/connector.go:194-234 relayUDP
Socks5RelayUDP == Request \o Open("pc") \o Do("test", "read timeout") \o Return

\* x/connector/socks/v5/conn.go:35-100 ReadFrom, WriteTo
Socks5Datagram ==
    If("read", Check("read") \o Check("datagram") \o Check("address"),
               Check("address") \o Check("datagram") \o Check("write")) \o Return

\* Both connections of an association end together.
\* x/connector/socks/v5/conn.go:114-117 Close
Socks5RelayClose == Close("pc") \o Close("conn") \o Return

\* x/connector/socks/v5/bind.go:17-44 Bind
Socks5ConnectorBind ==
    When("tcp", If("mux", ReturnOf("Socks5ListenMux"), ReturnOf("Socks5Listen")))
    \o When("udp", ReturnOf("Socks5ListenUDP")) \o Fail

\* x/connector/socks/v5/bind.go:46-57 bindTCP
Socks5Listen == Call("Socks5BindRequest") \o Return

\* x/connector/socks/v5/bind.go:59-75 muxBindTCP
Socks5ListenMux == Call("Socks5BindRequest") \o Open("session") \o Return

\* x/connector/socks/v5/bind.go:77-95 bindUDP
Socks5ListenUDP == Call("Socks5BindRequest") \o Start("ln") \o Return

\* x/connector/socks/v5/bind.go:97-132 bind
Socks5BindRequest == Request \o Check("address") \o Return

\* The connection itself becomes the connection of the one peer.
\* x/connector/socks/v5/listener.go:18-40 Accept
Socks5Accept == Check("read reply") \o Check("status") \o Check("address") \o Return

\* x/connector/socks/v5/listener.go:56-69 Accept
Socks5MuxAccept == Open("stream") \o Or("call", "Socks5MuxPeer", Close("stream") \o Fail) \o Return

\* x/connector/socks/v5/listener.go:71-94 getPeerConn
Socks5MuxPeer == Check("read reply") \o Check("status") \o Check("address") \o Return

\* x/connector/ss/connector.go:40-113 Init, Connect
SsConnect ==
    Check("network") \o Check("stream") \o Check("address") \o Check("encode")
    \o Timed("conn")
    \o When("nodelay", Check("write address")) \o Return

\* x/connector/ss/udp/connector.go:39-97 Init, Connect
SsuConnect == Check("network") \o Timed("conn") \o Return

\* x/connector/sshd/connector.go:38-82 Connect, Bind
SshdConnect == Check("client") \o If("connect", Open("stream"), Open("ln")) \o Return

\* x/connector/tunnel/metadata.go:24-64 parseMetadata
TunnelConnectorMetadata == When("id", Check("id")) \o When("no id", Check("new id")) \o Return

\* x/connector/tunnel/connector.go:40-114 Connect
TunnelConnectorConnect == Timed("conn") \o Request \o Check("network") \o Return

\* x/connector/tunnel/bind.go:15-44 Bind
TunnelConnectorBind == Call("TunnelRequest") \o Open("session") \o Return

\* x/connector/tunnel/bind.go:46-110 initTunnel
TunnelRequest == Request \o Return

\* x/connector/tunnel/conn.go:21-56 Read, Write
TunnelDatagram ==
    If("read", Check("length") \o Check("data"),
               Check("length") \o Check("write length") \o Check("write")) \o Return

\* x/connector/tunnel/conn.go:104-140 Read, Write
TunnelBindPacket == If("read", Check("length") \o Check("data"), Check("length") \o Check("write")) \o Return

\* x/connector/tunnel/listener.go:22-36 Accept
TunnelAccept == Open("stream") \o Or("call", "TunnelPeer", Close("stream") \o Fail) \o Return

\* x/connector/tunnel/listener.go:38-91 getPeerConn
TunnelPeer == Check("read response") \o Check("status") \o Check("address") \o Return

ConnectPrograms == [
    DirectConnect |-> DirectConnect, PlainConnect |-> PlainConnect,
    HttpConnectorConnect |-> HttpConnectorConnect, Http2Connector |-> Http2Connector,
    Http2ConnClose |-> Http2ConnClose, RelayConnectorConnect |-> RelayConnectorConnect,
    RelayConnRead |-> RelayConnRead, RelayConnWrite |-> RelayConnWrite,
    RelayUDPRead |-> RelayUDPRead, RelayUDPWrite |-> RelayUDPWrite,
    RelayBindPacket |-> RelayBindPacket, RelayConnectorBind |-> RelayConnectorBind,
    RelayListen |-> RelayListen, RelayListenUDP |-> RelayListenUDP,
    RelayBindRequest |-> RelayBindRequest, RelayAccept |-> RelayAccept, RelayPeer |-> RelayPeer,
    RouterConnectorMetadata |-> RouterConnectorMetadata, RouterConnect |-> RouterConnect,
    RouterConnPacket |-> RouterConnPacket, SniConnWrite |-> SniConnWrite, SniHello |-> SniHello,
    Socks4Connector |-> Socks4Connector, Socks5ConnectorInit |-> Socks5ConnectorInit,
    Socks5Handshake |-> Socks5Handshake, Socks5Selected |-> Socks5Selected,
    Socks5ConnectorConnect |-> Socks5ConnectorConnect, Socks5ConnectUDP |-> Socks5ConnectUDP,
    Socks5RelayUDP |-> Socks5RelayUDP, Socks5Datagram |-> Socks5Datagram,
    Socks5RelayClose |-> Socks5RelayClose, Socks5ConnectorBind |-> Socks5ConnectorBind,
    Socks5Listen |-> Socks5Listen, Socks5ListenMux |-> Socks5ListenMux,
    Socks5ListenUDP |-> Socks5ListenUDP, Socks5BindRequest |-> Socks5BindRequest,
    Socks5Accept |-> Socks5Accept, Socks5MuxAccept |-> Socks5MuxAccept,
    Socks5MuxPeer |-> Socks5MuxPeer, SsConnect |-> SsConnect, SsuConnect |-> SsuConnect,
    SshdConnect |-> SshdConnect, TunnelConnectorMetadata |-> TunnelConnectorMetadata,
    TunnelConnectorConnect |-> TunnelConnectorConnect,
    TunnelConnectorBind |-> TunnelConnectorBind, TunnelRequest |-> TunnelRequest,
    TunnelDatagram |-> TunnelDatagram, TunnelBindPacket |-> TunnelBindPacket,
    TunnelAccept |-> TunnelAccept, TunnelPeer |-> TunnelPeer]
=============================================================================
