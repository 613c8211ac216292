---------------------------- MODULE FlowSniffer ----------------------------
(* Traffic that is recognised and recorded on its way: the sniffers of the   *)
(* proxy handlers and of the forwarding handlers, which also select a node.  *)
(* A proxy handler brings the lookup of a host and the function that dials   *)
(* it.  For a tunnel that is open already there is neither: its connection   *)
(* is used, also for the later requests over it (SniffHTTP, SniffTLS); the   *)
(* handlers that learn their target here (FlowWeb) bring both.  This sniffer *)
(* gives no answers of its own but to the streams of HTTP/2.                 *)
EXTENDS Control

(* The lookup of the host in the bypass, and the connection of a tunnel.     *)
HostBypass == If("host", Bypass, Pass("bypass"))
Tunnelled  == Do("open", "sniffed")

\* x/internal/util/sniffing/sniffer.go:112-216 HandleHTTP
SniffingHTTP(look, dial, serve) ==
    Check("request")
    \o When("HTTP/2 preface", ReturnOf(serve))
    \o look
    \o dial \o DeferClose("sniffed")
    \o Call("SniffRoundTrip")
    \o Loop(When("close", Return)
            \o Or("test", "next request", When("end of input", Return) \o Fail)
            \o Call("SniffRoundTrip"))

\* The transport dials when it has no connection to a stream's host, and closes
\* its connections at the end.
\* x/internal/util/sniffing/sniffer.go:218-264 serveH2
SniffingServeH2(serve) ==
    Check("read preface") \o Check("preface") \o DeferClose("sniffed")
    \o While("stream", Invoke(serve)) \o Return

\* The host of a stream is not looked up in the bypass.
\* x/internal/util/sniffing/sniffer.go:759-882 ServeHTTP
SniffingServeHTTP(dial) ==
    Do("read", "request")
    \o When("no connection", dial)
    \o Or("open", "body", Reply \o Return) \o DeferClose("body") \o Reply \o Pipe \o Return

\* x/internal/util/sniffing/sniffer.go:548-639 HandleTLS
SniffingTLS(look, dial) ==
    Check("client hello")
    \o look
    \o dial \o DeferClose("sniffed")
    \o When("certificate", When("not bypassed", ReturnOf("SniffTerminateTLS")))
    \o Check("write client hello")
    \o Do("deadline", "sniffed") \o Do("test", "server hello") \o NoDeadline("sniffed")
    \o Check("write server hello")
    \o Pipe \o Check("server hello") \o Return

\* x/internal/util/sniffing/sniffer.go:112-216 HandleHTTP
SniffHTTP == SniffingHTTP(<<>>, Tunnelled, "SniffServeH2")

\* x/internal/util/sniffing/sniffer.go:218-264 serveH2
SniffServeH2 == SniffingServeH2("SniffServeHTTP")

\* x/internal/util/sniffing/sniffer.go:759-882 ServeHTTP
SniffServeHTTP == SniffingServeHTTP(Tunnelled)

\* x/internal/util/sniffing/sniffer.go:548-639 HandleTLS
SniffTLS == SniffingTLS(<<>>, Tunnelled)

\* x/internal/util/sniffing/sniffer.go:266-402 httpRoundTrip
SniffRoundTrip ==
    Check("write request")
    \o Do("deadline", "sniffed")
    \o Open("body") \o DeferClose("body")
    \o NoDeadline("sniffed")
    \o When("101", Invoke("SniffUpgrade") \o Return)
    \o Check("write response") \o Return

\* x/internal/util/sniffing/sniffer.go:411-428 handleUpgradeResponse
SniffUpgrade ==
    Check("upgrade type") \o Check("write response")
    \o When("websocket", ReturnOf("SniffFrames"))
    \o Pipe \o Return

\* x/internal/util/sniffing/sniffer.go:430-546 sniffingWebsocketFrame, copyWebsocketFrame
SniffFrames == CopyFrames

\* x/internal/util/sniffing/sniffer.go:641-749 terminateTLS
SniffTerminateTLS ==
    Check("handshake with the server")
    \o When("no valid certificate", Check("generate"))
    \o Check("handshake with the client")
    \o ReturnOf("SniffHTTP")

\* x/internal/util/forwarder/sniffer.go:121-208 HandleHTTP
ForwardHTTP ==
    Check("request")
    \o When("HTTP/2 preface", ReturnOf("ForwardServeH2"))
    \o Do("read", "request")
    \o Call("ForwardDial") \o DeferClose("sniffed")
    \o Call("ForwardRoundTrip")
    \o Loop(When("close", Return)
            \o Or("read", "request", When("end of input", Return) \o Fail)
            \o Call("ForwardRoundTrip"))

\* To a node of the hop, or to the client's host where there is no hop.
\* x/internal/util/forwarder/sniffer.go:210-308 dial
ForwardDial ==
    When("node", Tunnelled \o Return)
    \o If("host", Or("bypass", "", Reply \o Fail), Pass("bypass"))
    \o If("hop",
          Or("test", "select", Reply \o Fail)
          \o Or("open", "sniffed", Do("test", "mark") \o Reply \o Fail),
          Or("dial", "sniffed", Reply \o Fail))
    \o Do("test", "reset mark") \o Return

\* x/internal/util/forwarder/sniffer.go:310-351 serveH2
ForwardServeH2 ==
    Check("read preface") \o Check("preface") \o DeferClose("sniffed")
    \o While("stream", Invoke("ForwardServeHTTP")) \o Return

\* x/internal/util/forwarder/sniffer.go:353-470 httpRoundTrip
ForwardRoundTrip ==
    When("auther", Or("test", "authenticate", Reply \o Fail))
    \o Or("test", "write request", Reply \o Fail)
    \o ReturnOf("ForwardResponse")

\* x/internal/util/forwarder/sniffer.go:473-554 httpRoundTrip
ForwardResponse ==
    Do("deadline", "sniffed")
    \o Or("open", "body", Reply \o Fail) \o DeferClose("body")
    \o NoDeadline("sniffed")
    \o When("101", Invoke("ForwardUpgrade") \o Return)
    \o Or("call", "ForwardRewrite", Silent \o Fail)
    \o Try("reply", "") \o Return

\* x/internal/util/forwarder/sniffer.go:563-580 handleUpgradeResponse
ForwardUpgrade ==
    Or("test", "upgrade type", Silent \o Fail) \o Try("reply", "")
    \o When("websocket", ReturnOf("ForwardFrames"))
    \o Pipe \o Return

\* x/internal/util/forwarder/sniffer.go:582-698 sniffingWebsocketFrame, copyWebsocketFrame
ForwardFrames == CopyFrames

\* The body is read, closed and replaced.
\* x/internal/util/forwarder/sniffer.go:700-746 rewriteRespBody, drainBody
ForwardRewrite ==
    When("not to rewrite", Return)
    \o When("no body", Return)
    \o Check("read body") \o Close("body") \o Return

\* x/internal/util/forwarder/sniffer.go:748-837 HandleTLS
ForwardTLS ==
    Check("client hello")
    \o HostBypass
    \o Call("ForwardDialTLS") \o DeferClose("sniffed")
    \o When("certificate", When("not bypassed", ReturnOf("ForwardTerminateTLS")))
    \o Check("write client hello")
    \o Do("deadline", "sniffed") \o Do("test", "server hello") \o NoDeadline("sniffed")
    \o Check("write server hello")
    \o Pipe \o Check("server hello") \o Return

\* x/internal/util/forwarder/sniffer.go:839-918 dialTLS
ForwardDialTLS ==
    When("node", Tunnelled \o Return)
    \o If("hop",
          Check("select") \o Or("open", "sniffed", Do("test", "mark") \o Fail),
          Check("host") \o Dial("sniffed"))
    \o Do("test", "reset mark") \o Return

\* x/internal/util/forwarder/sniffer.go:920-1027 terminateTLS
ForwardTerminateTLS ==
    Check("handshake with the server")
    \o When("no valid certificate", Check("generate"))
    \o Check("handshake with the client")
    \o ReturnOf("ForwardHTTP")

\* x/internal/util/forwarder/sniffer.go:1037-1159 ServeHTTP
ForwardServeHTTP ==
    SniffingServeHTTP(Unchecked("bypass") \o Or("call", "ForwardDialTLS", Reply \o Return))

SnifferPrograms == [
    SniffHTTP |-> SniffHTTP, SniffServeH2 |-> SniffServeH2, SniffRoundTrip |-> SniffRoundTrip,
    SniffUpgrade |-> SniffUpgrade, SniffFrames |-> SniffFrames, SniffTLS |-> SniffTLS,
    SniffTerminateTLS |-> SniffTerminateTLS, SniffServeHTTP |-> SniffServeHTTP,
    ForwardHTTP |-> ForwardHTTP, ForwardDial |-> ForwardDial, ForwardServeH2 |-> ForwardServeH2,
    ForwardRoundTrip |-> ForwardRoundTrip, ForwardResponse |-> ForwardResponse,
    ForwardUpgrade |-> ForwardUpgrade, ForwardFrames |-> ForwardFrames,
    ForwardRewrite |-> ForwardRewrite, ForwardTLS |-> ForwardTLS,
    ForwardDialTLS |-> ForwardDialTLS, ForwardTerminateTLS |-> ForwardTerminateTLS,
    ForwardServeHTTP |-> ForwardServeHTTP]
=============================================================================
