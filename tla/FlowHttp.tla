------------------------------ MODULE FlowHttp ------------------------------
(* The handlers of HTTP proxy requests (x/handler/http). *)
EXTENDS Control

\* x/handler/http/metadata.go:50-120 parseMetadata
HttpMetadata == Certificate

\* x/handler/http/handler.go:79-120 Init
HttpInit ==
    Call("HttpMetadata") \o When("observer", Start("observer"))

\* Mutant: the connection is only closed on success.
HttpHandleLeaks == Rate \o Read \o Call("HttpAdmit") \o Close("conn")

\* x/handler/http/handler.go:122-192 Handle
HttpHandle ==
    DeferClose("conn") \o Rate \o Read \o Do("open", "body") \o DeferClose("body")
    \o ReturnOf("HttpAdmit")

\* x/handler/http/handler.go:201-339 handleRequest
HttpAdmit ==
    Or("test", "method and scheme", Reply \o Return)
    \o Call("HttpAuthenticate")
    \o Or("bypass", "", Reply \o Fail)
    \o When("udp", ReturnOf("HttpHandleUDP"))
    \o Counted
    \o When("not CONNECT", ReturnOf("HttpHandleProxy"))
    \o ReturnOf("HttpConnect")

\* Mutant: a failed dial is not answered.
HttpConnectMute == Dial("cc") \o DeferClose("cc") \o Try("reply", "") \o Transfer

\* x/handler/http/handler.go:341-428 handleRequest
HttpConnect ==
    Or("dial", "cc", Reply \o Fail) \o DeferClose("cc")
    \o Try("reply", "")
    \o Transfer

\* One request after the other over the connection, without authentication.
\* x/handler/http/handler.go:430-461 handleProxy
HttpHandleProxy ==
    Call("HttpRoundTrip")
    \o Loop(When("close", Return)
            \o Or("read", "request", When("end of input", Return) \o Fail)
            \o Call("HttpRoundTrip"))

\* Mutant: only the first request's target is looked up in the bypass.
HttpRoundTripTrusting ==
    Or("dial", "cc", Reply \o Fail) \o DeferClose("cc")
    \o When("101", ReturnOf("HttpUpgrade"))
    \o ReturnOf("HttpRespond")

\* x/handler/http/handler.go:463-612 proxyRoundTrip
HttpRoundTrip ==
    Or("bypass", "", Reply \o Fail)
    \o Or("dial", "cc", Reply \o Fail) \o DeferClose("cc")
    \o When("101", ReturnOf("HttpUpgrade"))
    \o ReturnOf("HttpRespond")

\* x/handler/http/handler.go:614-644 proxyRoundTrip
HttpRespond == Try("reply", "") \o Return

\* The upstream server switched to another protocol than the one asked for: the
\* client only sees its connection end.
\* x/handler/http/handler.go:672-694 handleUpgradeResponse
HttpUpgrade ==
    Or("test", "upgrade type", Silent \o Fail) \o Or("test", "writable body", Silent \o Fail)
    \o Try("reply", "")
    \o When("websocket", ReturnOf("HttpFrames"))
    \o Pipe \o Return

\* x/handler/http/handler.go:696-812 sniffingWebsocketFrame, copyWebsocketFrame
HttpFrames == CopyFrames

\* Answers itself when it refuses: a status, a page, or another server's answer.
\* x/handler/http/handler.go:853-941 authenticate
HttpAuthenticate ==
    When("no auther", Pass("auth") \o Return)
    \o Or("auth", "",
       When("probe resistance",
            When("host", Got("open", "probe", DeferClose("probe") \o Reply \o Pipe \o Fail))
            \o When("web", Got("open", "page", DeferClose("page")))
            \o When("file", Got("open", "page", DeferClose("page"))))
       \o Reply \o Fail)
    \o Return

\* x/handler/http/udp.go:19-85 handleUDP
HttpHandleUDP ==
    When("disabled", Reply \o Return)
    \o Try("reply", "")
    \o Open("pc") \o DeferClose("pc")
    \o Check("packet conn")
    \o Do("pipe", "relay") \o Return

\* x/handler/http/handler.go:955-984 observeStats
HttpObserve == ObserveStats

HttpPrograms == [
    HttpMetadata |-> HttpMetadata, HttpInit |-> HttpInit, HttpHandle |-> HttpHandle,
    HttpAdmit |-> HttpAdmit, HttpConnect |-> HttpConnect, HttpHandleProxy |-> HttpHandleProxy,
    HttpRoundTrip |-> HttpRoundTrip, HttpRespond |-> HttpRespond, HttpUpgrade |-> HttpUpgrade,
    HttpFrames |-> HttpFrames, HttpAuthenticate |-> HttpAuthenticate,
    HttpHandleUDP |-> HttpHandleUDP, HttpObserve |-> HttpObserve]
=============================================================================
