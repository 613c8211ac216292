------------------------------- MODULE FlowWeb -------------------------------
(* HTTP/2 and HTTP/3 proxies, SNI proxies and transparent proxies            *)
(* (x/handler/http2, http3, sni, redirect).                                  *)
EXTENDS FlowSniffer

\* x/handler/http2/handler.go:67-96 Init
Http2Init == Check("metadata") \o When("observer", Start("observer"))

\* The request was read by the listener.
\* x/handler/http2/handler.go:98-150 Handle
Http2Handle ==
    DeferClose("conn") \o Rate \o Check("request") \o Read \o ReturnOf("Http2RoundTrip")

\* Other methods than CONNECT are refused after the dial.
\* x/handler/http2/handler.go:162-262 roundTrip
Http2RoundTrip ==
    Call("Http2Authenticate")
    \o Or("bypass", "", Reply \o Fail)
    \o Or("dial", "cc", Reply \o Fail) \o DeferClose("cc")
    \o When("connect", ReturnOf("Http2Connect"))
    \o Reply \o Return

\* x/handler/http2/handler.go:264-320 roundTrip
Http2Connect ==
    Reply
    \o When("HTTP/1", Or("open", "hijacked", Reply \o Fail) \o DeferClose("hijacked"))
    \o Counted
    \o Pipe \o Return

\* x/handler/http2/handler.go:361-461 authenticate, forwardRequest
Http2Authenticate ==
    When("no auther", Pass("auth") \o Return)
    \o Or("auth", "",
       When("probe resistance",
            When("host", Got("open", "probe",
                 DeferClose("probe")
                 \o Or("open", "body", Silent \o Fail) \o DeferClose("body") \o Reply \o Fail))
            \o When("web", Got("open", "page", DeferClose("page")))
            \o When("file", Got("open", "page", DeferClose("page"))))
       \o Reply \o Fail)
    \o Return

\* x/handler/http2/handler.go:486-515 observeStats
Http2Observe == ObserveStats

\* A refused rate is no error here.
\* x/handler/http3/handler.go:56-88 Handle
Http3Handle ==
    DeferClose("conn") \o Or("rate", "", Return) \o Check("request") \o Read
    \o ReturnOf("Http3RoundTrip")

\* Without a target there is no answer.  The connection is the transport's, which
\* closes it when it has been idle.
\* x/handler/http3/handler.go:90-164 roundTrip
Http3RoundTrip ==
    Or("bypass", "", Reply \o Return)
    \o Or("test", "select", Silent \o Fail)
    \o Or("dial", "cc", Do("test", "mark") \o Reply \o Return) \o Give("cc")
    \o Reply \o Pipe \o Return

\* x/handler/sni/handler.go:51-68 Init
SniInit == Check("metadata") \o Return

\* x/handler/sni/handler.go:70-179 Handle
SniHandle ==
    DeferClose("conn") \o Rate
    \o Do("test", "sniff")
    \o When("http", ReturnOf("SniHTTP"))
    \o When("tls", ReturnOf("SniTLS"))
    \o Fail

\* What the client sends names the target.
\* x/handler/sni/handler.go:129-166 Handle
SniHTTP == SniffingHTTP(HostBypass, Dial("sniffed"), "SniServeH2")

\* x/handler/sni/handler.go:167-174 Handle
SniTLS == SniffingTLS(HostBypass, Dial("sniffed"))

\* x/internal/util/sniffing/sniffer.go:218-264 serveH2
SniServeH2 == SniffingServeH2("SniServeHTTP")

\* x/handler/sni/handler.go:135-144 Handle
SniServeHTTP == SniffingServeHTTP(Unchecked("bypass") \o Or("dial", "sniffed", Reply \o Return))

\* x/handler/redirect/tcp/handler.go:53-70 Init
RedirectInit == Check("metadata") \o Return

\* x/handler/redirect/tcp/handler.go:72-221 Handle
RedirectHandle ==
    DeferClose("conn") \o Rate
    \o When("not tproxy", Check("original address"))
    \o When("sniffing", Sniffed \o When("http", ReturnOf("RedirectHTTP"))
                                \o When("tls", ReturnOf("RedirectTLS")))
    \o ReturnOf("RedirectForward")

\* x/handler/redirect/tcp/handler.go:200-209 Handle
RedirectHTTP == SniffingHTTP(HostBypass, Call("RedirectDial"), "RedirectServeH2")

\* x/handler/redirect/tcp/handler.go:210-218 Handle
RedirectTLS == SniffingTLS(HostBypass, Call("RedirectDial"))

\* x/internal/util/sniffing/sniffer.go:218-264 serveH2
RedirectServeH2 == SniffingServeH2("RedirectServeHTTP")

\* x/handler/redirect/tcp/handler.go:184-186 Handle
RedirectServeHTTP ==
    SniffingServeHTTP(Unchecked("bypass") \o Or("call", "RedirectDial", Reply \o Return))

\* A dial of the sniffer: to the host it found, whose lookup is the sniffer's,
\* else to the address the client used.
\* x/handler/redirect/tcp/handler.go:152-183 Handle
RedirectDial ==
    When("host", Got("dial", "sniffed", Return) \o When("no fallback", Fail))
    \o Bypass \o Dial("sniffed") \o Return

\* x/handler/redirect/tcp/handler.go:224-247 Handle
RedirectForward == Bypass \o Dial("cc") \o DeferClose("cc") \o Pipe \o Return

\* x/handler/redirect/udp/handler.go:60-141 Handle
RedirectUDP ==
    DeferClose("conn") \o Rate \o Bypass
    \o Dial("cc") \o DeferClose("cc")
    \o Pipe \o Return

WebPrograms == [
    Http2Init |-> Http2Init, Http2Handle |-> Http2Handle, Http2RoundTrip |-> Http2RoundTrip,
    Http2Connect |-> Http2Connect, Http2Authenticate |-> Http2Authenticate,
    Http2Observe |-> Http2Observe, Http3Handle |-> Http3Handle,
    Http3RoundTrip |-> Http3RoundTrip, SniInit |-> SniInit, SniHandle |-> SniHandle,
    SniHTTP |-> SniHTTP, SniTLS |-> SniTLS, SniServeH2 |-> SniServeH2,
    SniServeHTTP |-> SniServeHTTP, RedirectHTTP |-> RedirectHTTP, RedirectTLS |-> RedirectTLS,
    RedirectServeH2 |-> RedirectServeH2, RedirectServeHTTP |-> RedirectServeHTTP,
    RedirectInit |-> RedirectInit, RedirectHandle |-> RedirectHandle,
    RedirectDial |-> RedirectDial, RedirectForward |-> RedirectForward,
    RedirectUDP |-> RedirectUDP]
=============================================================================
