------------------------------ MODULE FlowDial ------------------------------
(* Dialers (x/dialer): how a connection to the next proxy is opened and     *)
(* secured.  Dialers that multiplex keep a session per address under a      *)
(* lock and open streams on it; the caller of a handshake closes the        *)
(* connection on an error.                                                  *)
EXTENDS Control

\* A dial whose connection is given to the caller.
Dialed(r) == Open(r) \o Return

\* x/dialer/tcp/dialer.go:37-48 Dial
TcpDial == Dialed("target")

\* x/dialer/udp/dialer.go:37-50 Dial
UdpDial == Dialed("pc")

\* x/dialer/unix/dialer.go:37-48 Dial
UnixDial == Dialed("target")

\* x/dialer/wg/dialer.go:37-48 Dial
WgDial == Dialed("target")

\* x/dialer/serial/dialer.go:38-51 Dial
SerialDial == Dialed("target")

\* x/dialer/ftcp/dialer.go:38-51 Dial
FtcpDial == Check("address") \o Dialed("pc")

\* The library closes the connection when its handshake fails.
\* x/dialer/dtls/dialer.go:42-74 Dial
DtlsDial == Open("pc") \o Or("test", "handshake", Close("pc") \o Fail) \o Return

\* x/dialer/tls/dialer.go:41-52 Dial
TlsDial == Dialed("target")

\* x/dialer/tls/dialer.go:55-68 Handshake
TlsHandshake == Timed("target") \o Or("test", "handshake", Close("target") \o Fail) \o Return

\* x/dialer/anytls/dialer.go:42-61 Dial
AnytlsDial ==
    Check("configured")
    \o Do("lock", "") \o When("no client", Do("test", "new client")) \o Do("unlock", "")
    \o Dialed("target")

\* x/dialer/anytls/dialer.go:63-70 Handshake
AnytlsHandshake == Timed("target") \o Return

\* The deferred reset also takes back the deadline of the first pong.
\* x/dialer/ws/dialer.go:54-120 Dial, Handshake
WsHandshake ==
    Timed("target")
    \o Or("test", "upgrade", Close("target") \o Fail)
    \o When("keepalive", Go("WsKeepalive")) \o Return

\* x/dialer/ws/dialer.go:122-135 keepalive
WsKeepalive ==
    Loop(Do("deadline", "target") \o Or("test", "ping", Return) \o NoDeadline("target"))

\* x/dialer/obfs/http/dialer.go:52-90 Dial, Handshake
ObfsHTTPDial == Dialed("target")

\* x/dialer/obfs/http/conn.go:31-75 Handshake, handshake
ObfsHTTPHandshake == Locked \o When("done", Return) \o Check("write request") \o Return

\* x/dialer/obfs/http/conn.go:77-124 Read, drainHeader
ObfsHTTPRead ==
    Call("ObfsHTTPHandshake")
    \o When("header pending", While("header line", Check("read line")) \o Do("test", "keep rest"))
    \o When("buffered", Do("test", "read buffer") \o Return)
    \o Check("read") \o Return

\* x/dialer/obfs/http/conn.go:126-137 Write
ObfsHTTPWrite ==
    Call("ObfsHTTPHandshake")
    \o When("buffered", Check("write both") \o Return) \o Check("write") \o Return

\* x/dialer/obfs/tls/dialer.go:37-67 Dial, Handshake
ObfsTLSDial == Dialed("target")

\* The records of the server: the hello, the cipher change, the handshake, data.
\* x/dialer/obfs/tls/conn.go:58-135 Parse
ObfsTLSParse ==
    While("byte",
          If("header", Check("type") \o Check("version") \o Check("length"), Do("test", "copy data")))
    \o Return

\* x/dialer/obfs/tls/conn.go:155-214 Handshake, handshake
ObfsTLSHandshake == Locked \o When("done", Return) \o Check("encode") \o Check("write hello") \o Return

\* x/dialer/obfs/tls/conn.go:216-228 Read
ObfsTLSRead == Do("test", "wait for handshake") \o Check("read") \o When("data", Call("ObfsTLSParse")) \o Return

\* x/dialer/obfs/tls/conn.go:230-266 Write
ObfsTLSWrite ==
    When("no handshake", Call("ObfsTLSHandshake"))
    \o While("data", Check("write record")) \o Return

\* x/dialer/grpc/dialer.go:51-118 Dial
GrpcDial ==
    Locked
    \o When("no client", Open("session"))
    \o Open("stream") \o Return

\* x/dialer/grpc/conn.go:20-61 Read, Write, Close
GrpcConn ==
    When("cancelled", Fail)
    \o If("read", When("empty", Check("receive")), Check("send")) \o Return

\* A first connection only shows that the server can be reached.
\* x/dialer/http2/dialer.go:56-118 Dial
Http2Dial ==
    Check("address") \o Locked
    \o When("no client", Open("target") \o Close("target") \o Do("test", "new client")) \o Return

\* x/dialer/http2/h2/dialer.go:76-170 Dial
H2Dial ==
    Check("address")
    \o Do("lock", "") \o When("no client", Do("test", "new client")) \o Do("unlock", "")
    \o Open("body")
    \o Or("test", "status", Close("body") \o Fail) \o Return

\* x/dialer/http3/dialer.go:50-111 Dial
Http3Dial == Locked \o When("no client", Do("test", "new client")) \o Dialed("stream")

\* The socket is closed neither when no connection is made over it nor with one.
\* x/dialer/http3/dialer.go:75-88 Dial
Http3DialQUIC == Check("address") \o Open("pc") \o Leak("pc") \o Open("session") \o Return

\* x/dialer/http3/wt/dialer.go:51-109 Dial
WtDial == Locked \o When("no client", Do("test", "new client")) \o Call("WtOpen") \o Return

\* x/dialer/http3/wt/client.go:24-58 Dial
WtOpen == When("no session", Open("session")) \o Dialed("stream")

\* x/dialer/pht/dialer.go:68-118 Dial
PhtDial == Locked \o When("no client", Do("test", "new client")) \o Dialed("stream")

\* A session that cannot open a stream is closed and forgotten.
Stream(r) == Or("open", "stream", Close(r) \o Fail) \o Return

\* x/dialer/icmp/dialer.go:68-123 Dial
IcmpDial ==
    Check("address") \o Locked
    \o When("no session", Open("pc") \o Or("call", "IcmpSession", Close("pc") \o Fail) \o Give("pc"))
    \o Stream("session")

\* x/dialer/icmp/dialer.go:125-144 initSession
IcmpSession == Dialed("session")

\* x/dialer/quic/dialer.go:50-102 Dial
QuicDial ==
    Check("address") \o Locked
    \o When("no session",
            Open("pc") \o Or("test", "packet conn", Close("pc") \o Fail)
            \o Or("call", "QuicSession", Close("pc") \o Fail) \o Give("pc"))
    \o Stream("session")

\* x/dialer/quic/dialer.go:104-125 initSession
QuicSession == Dialed("session")

\* x/dialer/kcp/dialer.go:55-116 Dial
KcpDial ==
    Check("address") \o Locked
    \o When("no session or dead",
            Open("pc") \o Or("test", "packet conn", Close("pc") \o Fail)
            \o Or("call", "KcpSession", Close("pc") \o Fail) \o Give("pc"))
    \o Stream("session")

\* x/dialer/kcp/dialer.go:118-164 initSession
KcpSession == Check("kcp") \o Dialed("session")

\* x/dialer/mtls/dialer.go:125-138 initSession
MtlsSession == Check("handshake") \o Dialed("session")

\* x/dialer/mtcp/dialer.go:124-131 initSession
MtcpSession == Dialed("session")

\* x/dialer/mws/dialer.go:146-196 initSession
MwsSession ==
    Deadline("target") \o Check("upgrade") \o NoDeadline("target")
    \o When("keepalive", Go("WsKeepalive"))
    \o Dialed("session")

\* x/dialer/mws/dialer.go:198-210 keepAlive
MwsKeepalive == Loop(Or("test", "ping", Return))

\* x/dialer/ssh/dialer.go:52-96 Dial
SshDial ==
    Locked
    \o When("no session or dead",
            Open("target") \o Timed("target")
            \o Or("call", "SshSession", Close("target") \o Fail)
            \o Start("keepalive"))
    \o Dialed("stream")

\* x/dialer/ssh/dialer.go:98-121 initSession
SshSession == Dialed("session")

\* x/dialer/sshd/dialer.go:54-94 Dial
SshdDial ==
    Locked
    \o When("no session or dead",
            Open("target") \o Timed("target")
            \o Or("call", "SshdSession", Close("target") \o Fail)
            \o Start("keepalive"))
    \o Return

\* The connection to the SSH agent is never closed.
\* x/dialer/sshd/dialer.go:96-124 initSession
SshdSession == Do("open", "agent") \o Leak("agent") \o Dialed("session")

DialPrograms == [
    TcpDial |-> TcpDial, UdpDial |-> UdpDial, UnixDial |-> UnixDial, WgDial |-> WgDial,
    SerialDial |-> SerialDial, FtcpDial |-> FtcpDial, DtlsDial |-> DtlsDial,
    TlsDial |-> TlsDial, TlsHandshake |-> TlsHandshake, AnytlsDial |-> AnytlsDial,
    AnytlsHandshake |-> AnytlsHandshake, WsHandshake |-> WsHandshake,
    WsKeepalive |-> WsKeepalive, ObfsHTTPDial |-> ObfsHTTPDial,
    ObfsHTTPHandshake |-> ObfsHTTPHandshake, ObfsHTTPRead |-> ObfsHTTPRead,
    ObfsHTTPWrite |-> ObfsHTTPWrite, ObfsTLSDial |-> ObfsTLSDial, ObfsTLSParse |-> ObfsTLSParse,
    ObfsTLSHandshake |-> ObfsTLSHandshake, ObfsTLSRead |-> ObfsTLSRead,
    ObfsTLSWrite |-> ObfsTLSWrite, GrpcDial |-> GrpcDial, GrpcConn |-> GrpcConn,
    Http2Dial |-> Http2Dial, H2Dial |-> H2Dial, Http3Dial |-> Http3Dial,
    Http3DialQUIC |-> Http3DialQUIC, WtDial |-> WtDial, WtOpen |-> WtOpen, PhtDial |-> PhtDial,
    IcmpDial |-> IcmpDial, IcmpSession |-> IcmpSession, QuicDial |-> QuicDial,
    QuicSession |-> QuicSession, KcpDial |-> KcpDial, KcpSession |-> KcpSession,
    MtlsSession |-> MtlsSession, MtcpSession |-> MtcpSession, MwsSession |-> MwsSession,
    MwsKeepalive |-> MwsKeepalive, SshDial |-> SshDial, SshSession |-> SshSession,
    SshdDial |-> SshdDial, SshdSession |-> SshdSession]
=============================================================================
