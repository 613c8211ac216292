----------------------------- MODULE FlowListen -----------------------------
(* Listeners (x/listener): Init binds a port and starts what serves it,      *)
(* Accept returns a connection, streams of a session wait in a queue and    *)
(* are closed when it is full.  A listener that failed to start is not      *)
(* closed by its owner.                                                     *)
EXTENDS Control

\* Connections come from the port itself, or from a queue until the server ends.
Accepted == Open("conn") \o Return
Dequeued == If("queued", Open("conn"), Fail) \o Return

\* The streams of one session; the end of the session ends the loop.
Enqueue  == If("room", Give("stream"), Close("stream"))
Streams  == Loop(Or("open", "stream", Return) \o Enqueue)

\* A request that becomes a connection is held until the connection is closed.
Held     == Open("stream") \o If("room", Give("stream"), Close("stream") \o Return) \o Do("test", "wait") \o Return

\* x/listener/tcp/listener.go:44-75 Init
TcpListen == Open("ln") \o Return

\* x/listener/tcp/listener.go:77-94 Accept
TcpAccept == Accepted

\* x/listener/udp/listener.go:42-82 Init
UdpListen == Check("address") \o Open("pc") \o Start("ln") \o Return

\* x/listener/unix/listener.go:40-58 Init
UnixListen == Open("ln") \o Return

\* x/listener/unix/listener.go:60-77 Accept
UnixAccept == Accepted

\* x/listener/serial/listener.go:49-62 Init
SerialListen == Start("server") \o Return

\* x/listener/serial/listener.go:64-86 Accept, Close
SerialAccept == Dequeued

\* The port is opened again when its connection has been closed.  A connection
\* nobody accepts before the listener is closed stays open.
\* x/listener/serial/listener.go:88-128 listenLoop
SerialLoop == Loop(Got("open", "stream", If("accepted", Give("stream"), Leak("stream"))) \o When("closed", Return))

\* x/listener/tls/listener.go:45-74 Init
TlsListen == Open("ln") \o Return

\* x/listener/tls/listener.go:76-93 Accept
TlsListenerAccept == Call("TlsAccept") \o Return

\* Mutant: the deadline of the handshake stays.
TlsAcceptStale ==
    Loop(Open("conn")
         \o Do("deadline", "conn")
         \o Got("test", "handshake", Return)
         \o Close("conn"))

\* Failed handshakes are not reported: the next connection is awaited.  The
\* handshake is made here, one at a time, within ten seconds.
\* x/listener/tls/listener.go:118-143 Accept
TlsAccept ==
    Loop(Open("conn")
         \o Do("deadline", "conn")
         \o Got("test", "handshake", NoDeadline("conn") \o Return)
         \o Close("conn"))

\* x/listener/anytls/listener.go:38-53 Init
AnytlsListen == Check("password") \o Open("ln") \o Start("server") \o Return

\* An error other than the listener's end is tried again at once.
\* x/listener/anytls/listener.go:55-74 acceptLoop
AnytlsLoop == Loop(Or("open", "rc", When("closed", Return) \o Jump(2)) \o Go("AnytlsServe"))

\* x/listener/anytls/listener.go:66-72 acceptLoop
AnytlsServe == DeferClose("rc") \o Loop(Or("open", "stream", Return) \o If("accepted", Give("stream"), Close("stream")))

\* x/listener/anytls/listener.go:76-97 Accept, Close
AnytlsAccept == Dequeued

\* x/listener/dtls/listener.go:47-92 Init
DtlsListen == Check("address") \o Open("ln") \o Return

\* x/listener/dtls/listener.go:94-111 Accept
DtlsAccept == Accepted

\* x/listener/ftcp/listener.go:43-81 Init
FtcpListen == Open("pc") \o Start("ln") \o Return

\* x/listener/ftcp/listener.go:83-100 Accept
FtcpAccept == Accepted

\* x/listener/grpc/listener.go:51-115 Init
GrpcListen == Open("ln") \o Start("server") \o Return

\* x/listener/grpc/listener.go:117-142 Accept, Close
GrpcAccept == Dequeued

\* x/listener/grpc/server.go:21-42 Tunnel
GrpcTunnel == Held

\* x/listener/grpc/server.go:52-104 Read, Write, Close
GrpcServerConn ==
    When("cancelled or closed", Fail)
    \o If("read", When("empty", Check("receive")), Check("send")) \o Return

\* x/listener/http2/h2/listener.go:67-120 Init
H2Listen ==
    Open("ln")
    \o When("tls", Or("test", "configure", Close("ln") \o Fail))
    \o Start("server") \o Return

\* x/listener/http2/h2/listener.go:122-156 Accept, Close
H2Accept == Dequeued

\* x/listener/http2/h2/listener.go:158-176 handleFunc
H2Handle ==
    Read \o Or("call", "H2Upgrade", Return)
    \o Open("stream") \o If("room", Give("stream"), Close("stream") \o Return)
    \o Do("test", "wait") \o Return

\* x/listener/http2/h2/listener.go:178-208 upgrade
H2Upgrade == When("bad method or path", Reply \o Fail) \o Reply \o Return

\* x/listener/http2/listener.go:51-101 Init
Http2Listen == Check("configure") \o Open("ln") \o Start("server") \o Return

\* x/listener/http2/listener.go:103-138 Accept, Close
Http2Accept == Dequeued

\* x/listener/http2/listener.go:140-159 handleFunc
Http2Request == Held

\* x/listener/http3/h3/listener.go:43-81 Init
H3Listen == Check("address") \o Start("server") \o Return

\* x/listener/http3/h3/listener.go:83-110 Accept, Close
H3Accept == Accepted

\* x/listener/http3/listener.go:44-94 Init
Http3Listen == Check("address") \o Open("ln") \o Start("server") \o Return

\* x/listener/http3/listener.go:96-107 Accept
Http3Accept == Dequeued

\* x/listener/http3/listener.go:112-124 Close
Http3ListenerClose ==
    Locked \o When("closed", Give("ln") \o Give("server") \o Return) \o Close("ln") \o Close("server") \o Return

\* x/listener/http3/listener.go:126-145 handleFunc
Http3Request == Held

\* x/listener/http3/wt/listener.go:50-124 Init
WtListen == Check("address") \o Open("pc") \o Start("server") \o Return

\* x/listener/http3/wt/listener.go:126-153 Accept, Close
WtAccept == Dequeued

\* x/listener/http3/wt/listener.go:155-173 upgrade
WtUpgrade == Read \o Or("open", "session", Reply \o Return) \o Reply \o Call("WtMux") \o Return

\* x/listener/http3/wt/listener.go:175-199 mux
WtMux == DeferClose("session") \o Streams

\* The socket stays open when the QUIC listener cannot be made.
\* x/listener/icmp/listener.go:60-117 Init
IcmpListen == Open("pc") \o Or("open", "ln", Leak("pc") \o Fail) \o Start("server") \o Return

\* x/listener/icmp/listener.go:119-142 Accept, Close
IcmpAccept == Dequeued

\* x/listener/icmp/listener.go:148-161 listenLoop
IcmpLoop == Loop(Or("open", "session", Return) \o Go("IcmpMux"))

\* x/listener/icmp/listener.go:163-187 mux
IcmpMux == DeferClose("session") \o Streams

\* x/listener/kcp/listener.go:49-119 Init
KcpListen == Check("address") \o Open("pc") \o Or("open", "ln", Leak("pc") \o Fail) \o Start("server") \o Return

\* x/listener/kcp/listener.go:121-145 Accept, Close
KcpAccept == Dequeued

\* x/listener/kcp/listener.go:151-174 listenLoop
KcpLoop == Loop(Or("open", "rc", Return) \o Go("KcpMux"))

\* x/listener/kcp/listener.go:176-214 mux
KcpMux == DeferClose("rc") \o Or("open", "session", Return) \o DeferClose("session") \o Streams

ListenPrograms == [
    TcpListen |-> TcpListen, TcpAccept |-> TcpAccept, UdpListen |-> UdpListen,
    UnixListen |-> UnixListen, UnixAccept |-> UnixAccept, SerialListen |-> SerialListen,
    SerialAccept |-> SerialAccept, SerialLoop |-> SerialLoop, TlsListen |-> TlsListen,
    TlsListenerAccept |-> TlsListenerAccept, TlsAccept |-> TlsAccept,
    AnytlsListen |-> AnytlsListen, AnytlsLoop |-> AnytlsLoop, AnytlsServe |-> AnytlsServe,
    AnytlsAccept |-> AnytlsAccept, DtlsListen |-> DtlsListen, DtlsAccept |-> DtlsAccept,
    FtcpListen |-> FtcpListen, FtcpAccept |-> FtcpAccept, GrpcListen |-> GrpcListen,
    GrpcAccept |-> GrpcAccept, GrpcTunnel |-> GrpcTunnel, GrpcServerConn |-> GrpcServerConn,
    H2Listen |-> H2Listen, H2Accept |-> H2Accept, H2Handle |-> H2Handle,
    H2Upgrade |-> H2Upgrade, Http2Listen |-> Http2Listen, Http2Accept |-> Http2Accept,
    Http2Request |-> Http2Request, H3Listen |-> H3Listen, H3Accept |-> H3Accept,
    Http3Listen |-> Http3Listen, Http3Accept |-> Http3Accept,
    Http3ListenerClose |-> Http3ListenerClose, Http3Request |-> Http3Request,
    WtListen |-> WtListen, WtAccept |-> WtAccept, WtUpgrade |-> WtUpgrade, WtMux |-> WtMux,
    IcmpListen |-> IcmpListen, IcmpAccept |-> IcmpAccept, IcmpLoop |-> IcmpLoop,
    IcmpMux |-> IcmpMux, KcpListen |-> KcpListen, KcpAccept |-> KcpAccept, KcpLoop |-> KcpLoop,
    KcpMux |-> KcpMux]
=============================================================================
