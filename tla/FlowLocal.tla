----------------------------- MODULE FlowLocal -----------------------------
(* Handlers without a negotiation of their own: Shadowsocks, UNIX sockets,  *)
(* serial ports, the automatic choice of a protocol, and the HTTP services  *)
(* for files, the API and metrics.                                          *)
EXTENDS Control

\* x/handler/ss/metadata.go:31-62 parseMetadata
SsMetadata == Certificate

\* x/handler/ss/handler.go:53-78 Init
SsInit == Call("SsMetadata") \o When("auth", Check("cipher")) \o Return

\* What cannot be decrypted is read to its end, so that a probe learns nothing.
\* The protocol has no answers.
\* x/handler/ss/handler.go:80-174 Handle
SsHandle ==
    DeferClose("conn") \o Rate
    \o Do("deadline", "conn")
    \o Or("read", "request", Do("test", "drain") \o Fail)
    \o NoDeadline("conn") \o Silent
    \o Or("bypass", "", Return)
    \o Dial("cc") \o DeferClose("cc")
    \o ReturnOf("SsTransfer")

\* x/handler/ss/handler.go:176-235 Handle
SsTransfer == Transfer

\* x/handler/ss/udp/handler.go:45-67 Init
SsuInit == When("auth", Check("cipher")) \o Return

\* x/handler/ss/udp/handler.go:69-146 Handle
SsuHandle ==
    DeferClose("conn") \o Rate
    \o Open("pc") \o DeferClose("pc") \o Check("packet conn")
    \o Invoke("SsuRelay") \o Return

\* Either direction, datagram by datagram; the first error of one ends both.
\* x/handler/ss/udp/handler.go:148-216 relayPacket
SsuRelay == Loop(Check("read packet") \o Got("bypass", "", Check("write packet")))

\* x/handler/unix/metadata.go:27-52 parseMetadata
UnixMetadata == Certificate

\* x/handler/unix/handler.go:53-70 Init
UnixInit == Call("UnixMetadata")

\* x/handler/unix/handler.go:77-201 Handle
UnixHandle ==
    DeferClose("conn")
    \o When("hop", Check("select") \o ReturnOf("UnixForward"))
    \o Open("target") \o DeferClose("target")
    \o Transfer

\* x/handler/unix/handler.go:203-252 forwardUnix
UnixForward ==
    Open("target") \o DeferClose("target")
    \o When("sniffing", Sniffed \o When("http", ReturnOf("UnixHTTP"))
                                \o When("tls", ReturnOf("UnixTLS")))
    \o Pipe \o Return

\* The bypass is asked for the host of the first request.
\* x/handler/unix/sniffing.go:31-82 handleHTTP
UnixHTTP ==
    Check("request") \o Bypass
    \o Call("UnixRoundTrip")
    \o Loop(When("close", Return)
            \o Or("test", "request", When("end of input", Return) \o Fail)
            \o Call("UnixRoundTrip"))

\* x/handler/unix/sniffing.go:84-206 httpRoundTrip
UnixRoundTrip ==
    Check("write request")
    \o Do("deadline", "target") \o Open("body") \o DeferClose("body") \o NoDeadline("target")
    \o Check("write response")
    \o When("websocket", Pipe) \o Return

\* x/handler/unix/sniffing.go:208-259 handleTLS
UnixTLS ==
    Check("client hello") \o Check("write hello")
    \o Do("deadline", "target") \o Do("test", "server hello") \o NoDeadline("target")
    \o Check("write hello") \o Pipe \o Return

\* x/handler/serial/handler.go:65-110 Handle
SerialHandle ==
    DeferClose("conn")
    \o When("hop", Check("select") \o ReturnOf("SerialForward"))
    \o Open("target") \o DeferClose("target") \o Pipe \o Return

\* x/handler/serial/handler.go:112-139 forwardSerial
SerialForward == Open("target") \o DeferClose("target") \o Pipe \o Return

\* x/handler/serial/conn.go:18-63 Read, Write
SerialRecord ==
    If("read", Do("test", "read") \o When("data and recorder", Do("test", "record")),
               When("recorder", Do("test", "record")) \o Check("write"))

\* x/handler/file/handler.go:41-65 Init
FileInit == Start("server")

\* The server takes the connection over; once the handler is closed nobody does.
\* x/handler/file/handler.go:67-79 Handle, Close
FileHandle == Call("FileSend") \o Return

\* x/handler/file/handler.go:148-182 Accept, Close, send
FileSend == If("taken", Give("conn"), Leak("conn"))

\* x/handler/file/handler.go:82-139 handleFunc
FileServe ==
    Read \o When("auther", Or("auth", "", Reply \o Return)) \o Reply \o Return

\* What one handler has started goes on when the next cannot be configured.
\* x/handler/auto/handler.go:59-77 Init
AutoInit ==
    Call("HttpInit")
    \o Or("call", "Socks4Init", Leak("observer") \o Fail)
    \o Or("call", "Socks5Init", Leak("observer") \o Fail) \o Return

\* The version byte chooses the handler.
\* x/handler/auto/handler.go:79-120 Handle
AutoHandle ==
    Or("test", "first byte", Close("conn") \o Fail)
    \o When("version 4", ReturnOf("Socks4Handle"))
    \o When("version 5", ReturnOf("Socks5Handle"))
    \o ReturnOf("HttpHandle")

\* x/handler/api/handler.go:36-52 Init
ApiInit == Return

\* A server of its own for each connection, which closes it.
\* x/handler/api/handler.go:54-66 Handle
ApiHandle == Give("conn") \o Check("shutdown")

\* x/handler/metrics/handler.go:38-52 Init
MetricsInit == Return

\* x/handler/metrics/handler.go:54-66 Handle
MetricsHandle == Give("conn") \o Check("shutdown")

\* x/handler/metrics/handler.go:72-91 handleFunc
MetricsServe ==
    Read \o When("auther", Or("auth", "", Reply \o Return)) \o Reply \o Return

LocalPrograms == [
    SsMetadata |-> SsMetadata, SsInit |-> SsInit, SsHandle |-> SsHandle,
    SsTransfer |-> SsTransfer, SsuInit |-> SsuInit, SsuHandle |-> SsuHandle,
    SsuRelay |-> SsuRelay, UnixMetadata |-> UnixMetadata, UnixInit |-> UnixInit,
    UnixHandle |-> UnixHandle, UnixForward |-> UnixForward, UnixHTTP |-> UnixHTTP,
    UnixRoundTrip |-> UnixRoundTrip, UnixTLS |-> UnixTLS, SerialHandle |-> SerialHandle,
    SerialForward |-> SerialForward, SerialRecord |-> SerialRecord, FileInit |-> FileInit,
    FileHandle |-> FileHandle, FileSend |-> FileSend, FileServe |-> FileServe,
    AutoInit |-> AutoInit, AutoHandle |-> AutoHandle, ApiInit |-> ApiInit,
    ApiHandle |-> ApiHandle, MetricsInit |-> MetricsInit, MetricsHandle |-> MetricsHandle,
    MetricsServe |-> MetricsServe]
=============================================================================
