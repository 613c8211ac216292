--------------------------- MODULE FlowListenMux ---------------------------
(* Listeners whose connections are streams of a session, messages, or come   *)
(* from a port that another node binds for this one (x/listener: dns, mtcp, *)
(* mtls, mws, ws, obfs, quic, pht, rtcp, rudp, ssh, sshd, red, redu, tun,   *)
(* tap).                                                                    *)
EXTENDS FlowListen

\* Every connection of the port gets a goroutine of its own.
Serving(f) == Loop(Or("open", "conn", Return) \o Go(f))

\* The streams of one multiplexed connection.
Muxed      == DeferClose("conn") \o Or("open", "session", Return) \o DeferClose("session") \o Streams

\* A device that was set up is kept in the queue until its connection is closed.
Device(f)  == Loop(Got("call", f, Give("device")) \o When("closed", Return))

\* x/listener/dns/listener.go:53-131 Init
DnsListen == Check("address") \o Open("ln") \o Start("server") \o Return

\* x/listener/dns/listener.go:133-230 Init
DnsListenPacket == Check("address") \o If("https", Open("ln"), Open("pc")) \o Start("server") \o Return

\* x/listener/dns/listener.go:232-258 Accept, Close
DnsAccept == Dequeued

\* x/listener/dns/listener.go:264-274 ServeDNS
DnsServeDNS == Or("test", "pack", Return) \o Invoke("DnsServe") \o Return

\* x/listener/dns/listener.go:276-323 ServeHTTP
DnsServeHTTP ==
    Read
    \o When("bad method, type or body", Reply \o Return)
    \o Or("test", "unpack", Reply \o Return)
    \o Invoke("DnsServe") \o Reply \o Return

\* The message is the connection: it is answered when the connection is closed.
\* x/listener/dns/listener.go:325-341 serve
DnsServe == Open("stream") \o If("room", Give("stream"), Close("stream") \o Fail) \o Do("test", "wait") \o Return

\* The server closes the port when it ends.
\* x/listener/dns/server.go:40-55 Serve
DohServe == If("listener", Do("open", "ln"), Open("ln")) \o Do("test", "serve") \o Close("ln") \o Fail

\* x/listener/dns/server.go:82-114 Read, Write, Close, Wait
DnsServerConn == When("closed", Fail) \o Check("read or write") \o Return

\* x/listener/mtcp/listener.go:47-91 Init, Close
MtcpListen == Open("ln") \o Start("server") \o Return

\* x/listener/mtcp/listener.go:93-112 Accept
MtcpAccept == Dequeued

\* x/listener/mtcp/listener.go:114-124 listenLoop
MtcpLoop == Serving("MtcpMux")

\* x/listener/mtcp/listener.go:126-150 mux
MtcpMux == Muxed

\* x/listener/mtls/listener.go:48-82 Init
MtlsListen == Open("ln") \o Start("server") \o Return

\* x/listener/mtls/listener.go:84-104 Accept
MtlsAccept == Dequeued

\* x/listener/mtls/listener.go:106-116 listenLoop
MtlsLoop == Serving("MtlsMux")

\* x/listener/mtls/listener.go:118-142 mux
MtlsMux == Muxed

\* x/listener/mws/listener.go:68-132 Init
MwsListen == Open("ln") \o Start("server") \o Return

\* x/listener/mws/listener.go:134-158 Accept, Close
MwsAccept == Dequeued

\* x/listener/mws/listener.go:164-182 upgrade
MwsUpgrade == Read \o Or("open", "conn", Reply \o Return) \o Reply \o Invoke("MwsMux") \o Return

\* x/listener/mws/listener.go:184-208 mux
MwsMux == Muxed

\* x/listener/ws/listener.go:68-128 Init
WsListen == Open("ln") \o Start("server") \o Return

\* x/listener/ws/listener.go:130-154 Accept, Close
WsAccept == Dequeued

\* x/listener/ws/listener.go:160-188 upgrade
WsUpgrade == Read \o Or("open", "stream", Reply \o Return) \o Reply \o Enqueue \o Return

\* x/listener/obfs/http/listener.go:44-72 Init
ObfsHttpListen == Open("ln") \o Return

\* x/listener/obfs/http/listener.go:74-95 Accept
ObfsHttpAccept == Accepted

\* The first Read or Write makes the handshake, one at a time; one that failed
\* is made again by the next call.
\* x/listener/obfs/http/conn.go:29-112 Handshake
ObfsHttpHandshake ==
    Locked \o When("done", Return)
    \o Read \o Or("test", "rest", Silent \o Fail)
    \o When("no websocket", Reply \o Fail)
    \o When("early data", Reply \o Return)
    \o Try("reply", "") \o Return

\* x/listener/obfs/http/conn.go:114-123 Read
ObfsHttpRead == Call("ObfsHttpHandshake") \o When("buffered", Return) \o Check("read") \o Return

\* x/listener/obfs/http/conn.go:125-136 Write
ObfsHttpWrite == Call("ObfsHttpHandshake") \o If("buffered", Check("flush"), Check("write")) \o Return

\* x/listener/obfs/tls/listener.go:44-72 Init
ObfsTlsListen == Open("ln") \o Return

\* x/listener/obfs/tls/listener.go:74-93 Accept
ObfsTlsAccept == Accepted

\* The answer is buffered: the first Write sends it with the first data.
\* x/listener/obfs/tls/conn.go:26-110 Handshake
ObfsTlsHandshake ==
    Locked \o When("done", Return)
    \o Check("record") \o Check("handshake") \o Check("decode")
    \o When("ticket", Check("encode")) \o Check("answer") \o Return

\* x/listener/obfs/tls/conn.go:112-127 Read
ObfsTlsRead == Call("ObfsTlsHandshake") \o When("buffered", Return) \o Check("record") \o Return

\* x/listener/obfs/tls/conn.go:129-161 Write
ObfsTlsWrite ==
    Call("ObfsTlsHandshake")
    \o While("more", If("answer buffered", Do("test", "flush") \o Return, Check("write"))) \o Return

\* The socket stays open when the listener cannot be made of it.
\* x/listener/quic/listener.go:47-114 Init
QuicListen == Check("address") \o Open("pc") \o Or("open", "ln", Leak("pc") \o Fail) \o Start("server") \o Return

\* x/listener/quic/listener.go:116-139 Accept, Close
QuicAccept == Dequeued

\* x/listener/quic/listener.go:145-157 listenLoop
QuicLoop == Loop(Or("open", "session", Return) \o Go("QuicMux"))

\* x/listener/quic/listener.go:159-183 mux
QuicMux == DeferClose("session") \o Streams

\* x/listener/pht/listener.go:58-89 Init
PhtListen == Check("address") \o Start("server") \o Return

\* x/listener/pht/listener.go:91-117 Accept, Close
PhtAccept == Accepted

\* x/listener/rtcp/listener.go:48-65 Init
RtcpListen == Check("metadata") \o Return

\* The port of another node, bound when the first connection is awaited and
\* bound again after an error.
\* x/listener/rtcp/listener.go:67-116 Accept
RtcpAccept ==
    When("closed", Fail)
    \o If("bound", Do("open", "ln"), Open("ln"))
    \o When("closed", Close("ln") \o Fail)
    \o Or("open", "conn", Close("ln") \o Fail)
    \o Give("ln") \o Return

\* x/listener/rtcp/listener.go:122-145 Close, setListener, getListener
RtcpClose == When("closed", Give("ln") \o Return) \o Do("lock", "") \o Do("unlock", "") \o Close("ln") \o Return

\* x/listener/rudp/listener.go:48-65 Init
RudpListen == Check("metadata") \o Return

\* x/listener/rudp/listener.go:67-122 Accept
RudpAccept == RtcpAccept

\* x/listener/rudp/listener.go:128-151 Close, setListener, getListener
RudpClose == RtcpClose

\* x/listener/ssh/listener.go:50-94 Init
SshListen == Open("ln") \o Start("server") \o Return

\* x/listener/ssh/listener.go:96-115 Accept
SshAccept == Dequeued

\* x/listener/ssh/listener.go:117-128 listenLoop
SshLoop == Serving("SshServe")

\* x/listener/ssh/listener.go:130-178 serveConn
SshServe ==
    Or("test", "handshake", Close("conn") \o Return) \o DeferClose("conn")
    \o Go("SshChannels") \o Do("test", "wait") \o Return

\* A channel of another kind is rejected; one that finds the queue full is closed.
\* x/listener/ssh/listener.go:148-175 serveConn
SshChannels ==
    While("channel", When("tunnel", Got("open", "stream", Enqueue)))

\* x/listener/sshd/listener.go:58-102 Init
SshdListen == Open("ln") \o Start("server") \o Return

\* x/listener/sshd/listener.go:104-124 Accept
SshdListenerAccept == Dequeued

\* x/listener/sshd/listener.go:126-137 listenLoop
SshdLoop == Serving("SshdServe")

\* The requests for remote ports end with the session.
\* x/listener/sshd/listener.go:139-219 serveConn
SshdServe ==
    Or("test", "handshake", Close("conn") \o Return) \o DeferClose("conn")
    \o Go("SshdChannels") \o Go("SshdRequests") \o Do("test", "wait") \o Return

\* x/listener/sshd/listener.go:156-192 serveConn
SshdChannels ==
    While("channel", When("direct-tcpip", Got("open", "stream", Enqueue)))

\* A forward is its handler's to read and to answer; it is answered here when the
\* queue is full.
\* x/listener/sshd/listener.go:197-216 serveConn
SshdRequests ==
    LET Answer == Do("read", "request") \o Reply
    IN  While("request", If("forward",
            Do("open", "stream") \o If("room", Give("stream"), Answer \o Close("stream")), Answer))

\* x/listener/redirect/tcp/listener.go:46-76 Init
RedListen == Open("ln") \o Return

\* x/listener/redirect/tcp/listener.go:78-103 Accept, Close
RedAccept == Accepted

\* x/listener/redirect/udp/listener.go:39-51 Init
ReduListen == ReturnOf("ReduListenUDP")

\* The options of a transparent socket are set as far as they can be.
\* x/listener/redirect/udp/listener_linux.go:23-60 listenUDP
ReduListenUDP == Open("pc") \o Return

\* x/listener/redirect/udp/listener.go:53-79 Accept, Close
ReduAccept == ReturnOf("ReduReceive")

\* The thread goes back to its namespace, and the namespace is released, also
\* when the socket cannot be opened.
\* x/listener/redirect/udp/listener_linux.go:62-118 accept
ReduReceive ==
    Call("ReduReadFrom")
    \o When("netns", Do("lock", "") \o Do("defer", "unlock") \o Check("current")
                     \o Open("namespace") \o DeferClose("namespace") \o Check("enter"))
    \o ReturnOf("ReduDialUDP")

\* x/listener/redirect/udp/listener_linux.go:120-170 readFromUDP
ReduReadFrom ==
    Check("read") \o Check("parse")
    \o While("message", When("original destination", Check("decode"))) \o Check("destination") \o Return

\* The socket is closed when one of its options, its address or its peer fails.
\* x/listener/redirect/udp/listener_linux.go:172-229 dialUDP
ReduDialUDP ==
    Check("remote") \o Check("local") \o Open("fd") \o Undo("fd")
    \o Check("transparent") \o Check("reuse") \o Check("bind") \o Check("connect")
    \o DeferClose("fd") \o Open("conn") \o Return

\* x/listener/redirect/udp/conn.go:18-42 Read, Write
ReduConn ==
    If("read", Timed("conn") \o When("first", Return) \o Check("read"), Timed("conn") \o Check("write")) \o Return

\* x/listener/tun/listener.go:47-66 Init
TunListen == Check("address") \o Start("server") \o Return

\* x/listener/tun/listener.go:68-127 listenLoop
TunDevices == Device("TunSetup")

\* A device that was set up but has no interface stays open.
\* x/listener/tun/listener.go:71-113 listenLoop
TunSetup ==
    Or("call", "TunCreate", Close("device") \o Fail)
    \o Or("test", "interface", Leak("device") \o Fail) \o Return

\* x/listener/tun/listener.go:129-151 Accept, Close
TunAccept == Dequeued

\* x/listener/tun/tun_linux.go:13-65 createTun
TunCreate ==
    Call("TunCreateDevice") \o Check("interface") \o Check("link")
    \o While("net", Do("test", "address")) \o Check("up") \o Call("TunAddRoutes")
    \o When("dns", Check("resolvectl")) \o Return

\* x/listener/tun/tun_linux.go:67-85 addRoutes
TunAddRoutes == While("route", When("net", Check("replace"))) \o Return

\* x/listener/tun/tun.go:22-51 Read
TunRead == When("buffered", Return) \o Check("read") \o Return

\* x/listener/tun/tun.go:64-76 createTunDevice
TunCreateDevice == Open("device") \o Check("name") \o Return

\* x/listener/tap/listener.go:45-65 Init
TapListen == Check("address") \o Start("server") \o Return

\* x/listener/tap/listener.go:67-126 listenLoop
TapDevices == Device("TapSetup")

\* x/listener/tap/listener.go:70-112 listenLoop
TapSetup ==
    Or("call", "TapCreate", Close("device") \o Fail)
    \o Or("test", "interface", Leak("device") \o Fail) \o Return

\* x/listener/tap/listener.go:128-150 Accept, Close
TapAccept == Dequeued

\* x/listener/tap/tap_linux.go:13-66 createTap
TapCreate ==
    Open("device") \o Check("interface") \o Check("link") \o Check("mtu")
    \o When("net", Check("parse") \o Check("address")) \o Check("up") \o Call("TapAddRoutes") \o Return

\* x/listener/tap/tap_linux.go:68-82 addRoutes
TapAddRoutes == While("route", Check("replace")) \o Return

ListenMuxPrograms == [
    DnsListen |-> DnsListen, DnsListenPacket |-> DnsListenPacket, DnsAccept |-> DnsAccept,
    DnsServeDNS |-> DnsServeDNS, DnsServeHTTP |-> DnsServeHTTP, DnsServe |-> DnsServe,
    DohServe |-> DohServe, DnsServerConn |-> DnsServerConn, MtcpListen |-> MtcpListen,
    MtcpAccept |-> MtcpAccept, MtcpLoop |-> MtcpLoop, MtcpMux |-> MtcpMux,
    MtlsListen |-> MtlsListen, MtlsAccept |-> MtlsAccept, MtlsLoop |-> MtlsLoop,
    MtlsMux |-> MtlsMux, MwsListen |-> MwsListen, MwsAccept |-> MwsAccept,
    MwsUpgrade |-> MwsUpgrade, MwsMux |-> MwsMux, WsListen |-> WsListen, WsAccept |-> WsAccept,
    WsUpgrade |-> WsUpgrade, ObfsHttpListen |-> ObfsHttpListen,
    ObfsHttpAccept |-> ObfsHttpAccept, ObfsHttpHandshake |-> ObfsHttpHandshake,
    ObfsHttpRead |-> ObfsHttpRead, ObfsHttpWrite |-> ObfsHttpWrite,
    ObfsTlsListen |-> ObfsTlsListen, ObfsTlsAccept |-> ObfsTlsAccept,
    ObfsTlsHandshake |-> ObfsTlsHandshake, ObfsTlsRead |-> ObfsTlsRead,
    ObfsTlsWrite |-> ObfsTlsWrite, QuicListen |-> QuicListen, QuicAccept |-> QuicAccept,
    QuicLoop |-> QuicLoop, QuicMux |-> QuicMux, PhtListen |-> PhtListen,
    PhtAccept |-> PhtAccept, RtcpListen |-> RtcpListen, RtcpAccept |-> RtcpAccept,
    RtcpClose |-> RtcpClose, RudpListen |-> RudpListen, RudpAccept |-> RudpAccept,
    RudpClose |-> RudpClose, SshListen |-> SshListen, SshAccept |-> SshAccept,
    SshLoop |-> SshLoop, SshServe |-> SshServe, SshChannels |-> SshChannels,
    SshdListen |-> SshdListen, SshdListenerAccept |-> SshdListenerAccept, SshdLoop |-> SshdLoop,
    SshdServe |-> SshdServe, SshdChannels |-> SshdChannels, SshdRequests |-> SshdRequests,
    RedListen |-> RedListen, RedAccept |-> RedAccept, ReduListen |-> ReduListen,
    ReduListenUDP |-> ReduListenUDP, ReduAccept |-> ReduAccept, ReduReceive |-> ReduReceive,
    ReduReadFrom |-> ReduReadFrom, ReduDialUDP |-> ReduDialUDP, ReduConn |-> ReduConn,
    TunListen |-> TunListen, TunDevices |-> TunDevices, TunSetup |-> TunSetup,
    TunAccept |-> TunAccept, TunCreate |-> TunCreate, TunAddRoutes |-> TunAddRoutes,
    TunRead |-> TunRead, TunCreateDevice |-> TunCreateDevice, TapListen |-> TapListen,
    TapDevices |-> TapDevices, TapSetup |-> TapSetup, TapAccept |-> TapAccept,
    TapCreate |-> TapCreate, TapAddRoutes |-> TapAddRoutes]
=============================================================================
