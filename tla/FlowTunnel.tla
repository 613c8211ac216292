----------------------------- MODULE FlowTunnel -----------------------------
(* The server of reverse tunnels and its entry points (x/handler/tunnel).  *)
(* TunnelPool models the pool of tunnels they share.                       *)
EXTENDS Control

\* The goroutine of the pool runs before the entry point is bound, and goes on
\* when it cannot be bound.
\* x/handler/tunnel/handler.go:70-134 Init
TunnelInit ==
    Check("metadata") \o Check("uuid")
    \o Start("pool")
    \o Or("call", "TunnelInitEntrypoint", Leak("pool") \o Fail)
    \o When("observer", Start("observer"))
    \o Return

\* x/handler/tunnel/handler.go:136-185 initEntrypoint
TunnelInitEntrypoint ==
    When("no entry point", Return) \o Open("entry point") \o Return

\* x/handler/tunnel/handler.go:187-298 Handle
TunnelHandle ==
    Undo("conn") \o Rate \o Deadline("conn") \o Read \o NoDeadline("conn")
    \o Or("test", "version", Reply \o Fail)
    \o Or("test", "tunnel id", Reply \o Fail)
    \o If("auther", Or("auth", "", Reply \o Fail), Pass("auth"))
    \o When("connect", DeferClose("conn") \o ReturnOf("TunnelConnect"))
    \o When("bind", ReturnOf("TunnelBind"))
    \o Reply \o Fail

\* x/handler/tunnel/handler.go:300-311 Close
TunnelClose ==
    Close("entry point") \o Close("pool") \o Close("observer") \o Return

\* x/handler/tunnel/connect.go:14-125 handleConnect
TunnelConnect ==
    Or("bypass", "", Try("reply", "") \o Return)
    \o If("entry point",
          Or("test", "route", Reply \o Fail) \o Or("test", "not private", Reply \o Fail),
          Or("test", "same tunnel", Reply \o Fail))
    \o Or("call", "TunnelDial", Reply \o Fail) \o DeferClose("cc")
    \o If("own node", Try("reply", ""), Do("reply", "by the other node"))
    \o Pipe \o Return

\* The connection belongs to the session of a connector from now on.
\* x/handler/tunnel/bind.go:18-109 handleBind
TunnelBind ==
    Or("test", "uuid", Reply \o Fail)
    \o Reply
    \o Open("session")
    \o Give("session") \o Give("conn")
    \o When("sd", Do("test", "register"))
    \o Return

\* Connectors of this node first, then what is registered for other nodes.
\* x/handler/tunnel/dialer.go:21-78 Dial
TunnelDial ==
    When("connector", Loop(Got("dial", "cc", Return) \o When("no retry or connector left", Fail)))
    \o Check("sd") \o Check("registered") \o Check("address")
    \o Dial("cc") \o Return

\* x/handler/tunnel/handler.go:325-354 observeStats
TunnelObserve == ObserveStats

\* x/handler/tunnel/entrypoint.go:69-125 Handle
EntryHandle ==
    DeferClose("conn") \o Check("peek")
    \o When("relay", ReturnOf("EntryConnect"))
    \o When("tls", ReturnOf("EntryTLS"))
    \o ReturnOf("EntryHTTP")

\* x/handler/tunnel/entrypoint.go:127-196 dial
EntryDial ==
    Check("route") \o Check("not private")
    \o Call("TunnelDial")
    \o When("own node", Or("test", "write addresses", Close("cc") \o Fail))
    \o Return

\* x/handler/tunnel/entrypoint.go:198-252 handleHTTP
EntryHTTP ==
    Read \o Call("EntryRoundTrip")
    \o Loop(Or("read", "request", When("end of input", Return) \o Fail)
            \o Call("EntryRoundTrip"))

\* x/handler/tunnel/entrypoint.go:254-367 httpRoundTrip
EntryRoundTrip ==
    Or("call", "EntryDial", Reply \o Fail) \o DeferClose("cc")
    \o Or("open", "body", Reply \o Fail) \o DeferClose("body")
    \o ReturnOf("EntryRespond")

\* x/handler/tunnel/entrypoint.go:368-407 httpRoundTrip
EntryRespond ==
    When("101", ReturnOf("EntryUpgrade")) \o Try("reply", "") \o Return

\* As in the HTTP proxy, the client of a switch nobody asked for gets no answer.
\* x/handler/tunnel/entrypoint.go:416-439 handleUpgradeResponse
EntryUpgrade ==
    Or("test", "upgrade type", Silent \o Fail) \o Or("test", "writable body", Silent \o Fail)
    \o DeferClose("body")
    \o Try("reply", "")
    \o When("websocket", ReturnOf("EntryFrames"))
    \o Pipe \o Return

\* x/handler/tunnel/entrypoint.go:441-557 sniffingWebsocketFrame, copyWebsocketFrame
EntryFrames == CopyFrames

\* x/handler/tunnel/entrypoint.go:559-621 HandleTLS
EntryTLS ==
    Check("client hello")
    \o Call("EntryDial") \o DeferClose("cc")
    \o Check("write client hello")
    \o Do("deadline", "cc") \o Do("test", "server hello") \o NoDeadline("cc")
    \o Check("write server hello")
    \o Pipe \o Check("server hello") \o Return

\* x/handler/tunnel/entrypoint.go:623-707 handleConnect
EntryConnect ==
    Read
    \o Or("test", "tunnel id", Reply \o Fail)
    \o Or("call", "TunnelDial", Reply \o Fail) \o DeferClose("cc")
    \o Try("reply", "")
    \o Pipe \o Return

TunnelPrograms == [
    TunnelInit |-> TunnelInit, TunnelInitEntrypoint |-> TunnelInitEntrypoint,
    TunnelHandle |-> TunnelHandle, TunnelClose |-> TunnelClose, TunnelConnect |-> TunnelConnect,
    TunnelBind |-> TunnelBind, TunnelDial |-> TunnelDial, TunnelObserve |-> TunnelObserve,
    EntryHandle |-> EntryHandle, EntryDial |-> EntryDial, EntryHTTP |-> EntryHTTP,
    EntryRoundTrip |-> EntryRoundTrip, EntryRespond |-> EntryRespond,
    EntryUpgrade |-> EntryUpgrade, EntryFrames |-> EntryFrames, EntryTLS |-> EntryTLS,
    EntryConnect |-> EntryConnect]
=============================================================================
