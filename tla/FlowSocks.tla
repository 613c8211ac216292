----------------------------- MODULE FlowSocks -----------------------------
(* The handlers of SOCKS4 and SOCKS5 requests (x/handler/socks). *)
EXTENDS Control

\* x/handler/socks/v4/metadata.go:39-79 parseMetadata
Socks4Metadata == Certificate

\* x/handler/socks/v4/handler.go:66-99 Init
Socks4Init == Call("Socks4Metadata") \o When("observer", Start("observer"))

\* A refused user is answered without an error; BIND and unknown commands are
\* not answered.
\* x/handler/socks/v4/handler.go:101-192 Handle
Socks4Handle ==
    DeferClose("conn") \o Rate \o Deadline("conn") \o Read \o NoDeadline("conn")
    \o If("auther", Or("auth", "", Try("reply", "") \o Return), Pass("auth"))
    \o When("connect", ReturnOf("Socks4Connect"))
    \o Silent \o Fail

\* x/handler/socks/v4/handler.go:201-323 handleConnect
Socks4Connect ==
    Counted
    \o Or("bypass", "", Try("reply", "") \o Return)
    \o Or("dial", "cc", Reply \o Fail) \o DeferClose("cc")
    \o Try("reply", "")
    \o Transfer

\* x/handler/socks/v4/handler.go:342-371 observeStats
Socks4Observe == ObserveStats

\* x/handler/socks/v5/metadata.go:42-99 parseMetadata
Socks5Metadata == Certificate

\* x/handler/socks/v5/handler.go:60-100 Init
Socks5Init == Call("Socks5Metadata") \o When("observer", Start("observer"))

\* x/handler/socks/v5/handler.go:102-200 Handle
Socks5Handle ==
    DeferClose("conn") \o Rate
    \o Do("deadline", "conn") \o Call("Socks5Select") \o Read \o NoDeadline("conn")
    \o When("connect", ReturnOf("Socks5Connect"))
    \o When("bind", ReturnOf("Socks5Bind"))
    \o When("mbind", ReturnOf("Socks5MuxBind"))
    \o When("udp", ReturnOf("Socks5UDP"))
    \o When("udp tunnel", ReturnOf("Socks5UDPTun"))
    \o Reply \o Fail

\* The method is the server's choice: with an authenticator, one with a password.
\* x/handler/socks/v5/selector.go:27-101 Select, OnSelected
Socks5Select ==
    Check("methods")
    \o If("authenticator",
          Check("credentials") \o Or("auth", "", Reply \o Fail) \o Try("reply", ""),
          Pass("auth"))
    \o Return

\* x/handler/socks/v5/connect.go:24-145 handleConnect
Socks5Connect ==
    Counted
    \o Or("bypass", "", Try("reply", "") \o Return)
    \o Or("dial", "cc", Reply \o Fail) \o DeferClose("cc")
    \o Try("reply", "")
    \o Transfer

\* x/handler/socks/v5/bind.go:19-101 handleBind, bindLocal
Socks5Bind ==
    When("disabled", Try("reply", "") \o Return)
    \o Counted
    \o Or("open", "ln", Reply \o Fail)
    \o Or("reply", "", Close("ln") \o Fail)
    \o Invoke("Socks5ServeBind") \o Return

\* Whichever comes first, a connection or the end of the client.  A connection
\* accepted while the client ends is stored and forgotten.
\* x/handler/socks/v5/bind.go:103-181 serveBind
Socks5ServeBind ==
    Do("open", "pipe") \o DeferClose("pipe")
    \o When("client gone",
            When("accepted meanwhile", Do("open", "rc") \o Leak("rc")) \o Close("ln") \o Return)
    \o Or("open", "rc", Close("ln") \o Reply \o Return)
    \o Close("ln") \o DeferClose("rc")
    \o Reply \o Pipe

\* x/handler/socks/v5/mbind.go:20-101 handleMuxBind, muxBindLocal
Socks5MuxBind ==
    When("disabled", Try("reply", "") \o Return)
    \o Counted
    \o Or("open", "ln", Reply \o Fail)
    \o Or("reply", "", Close("ln") \o Fail)
    \o ReturnOf("Socks5ServeMuxBind")

\* The listener is closed by the goroutine that accepts from the session, which
\* is not started when there is no session.
\* x/handler/socks/v5/mbind.go:103-130 serveMuxBind
Socks5ServeMuxBind ==
    Or("open", "session", Leak("ln") \o Fail) \o DeferClose("session")
    \o Go("Socks5MuxDrain")
    \o Loop(Open("rc") \o Go("Socks5MuxConn"))

\* x/handler/socks/v5/mbind.go:112-122 serveMuxBind
Socks5MuxDrain ==
    DeferClose("ln")
    \o Loop(Or("open", "stream", Return) \o Close("stream"))

\* x/handler/socks/v5/mbind.go:132-163 serveMuxBind
Socks5MuxConn ==
    DeferClose("rc")
    \o Or("open", "stream", Return) \o DeferClose("stream")
    \o When("not compatible", Or("test", "write address", Return))
    \o Pipe

\* x/handler/socks/v5/udp.go:26-125 handleUDP
Socks5UDP ==
    When("disabled", Try("reply", "") \o Return)
    \o Or("open", "relay", Reply \o Fail) \o DeferClose("relay")
    \o Try("reply", "")
    \o Open("pc") \o DeferClose("pc")
    \o Check("packet conn")
    \o Counted
    \o Pipe \o Return

\* A tunnel that cannot be opened is not answered.
\* x/handler/socks/v5/udp_tun.go:23-139 handleUDPTun
Socks5UDPTun ==
    Counted
    \o If("associate",
          When("disabled", Try("reply", "") \o Return)
          \o Or("open", "pc", Silent \o Fail) \o DeferClose("pc")
          \o Or("test", "packet conn", Silent \o Fail),
          When("disabled", Try("reply", "") \o Return)
          \o Or("open", "pc", Reply \o Fail))
    \o DeferClose("pc")
    \o Try("reply", "")
    \o Counted
    \o Pipe \o Return

\* x/handler/socks/v5/handler.go:221-250 observeStats
Socks5Observe == ObserveStats

SocksPrograms == [
    Socks4Metadata |-> Socks4Metadata, Socks4Init |-> Socks4Init, Socks4Handle |-> Socks4Handle,
    Socks4Connect |-> Socks4Connect, Socks4Observe |-> Socks4Observe,
    Socks5Metadata |-> Socks5Metadata, Socks5Init |-> Socks5Init, Socks5Handle |-> Socks5Handle,
    Socks5Select |-> Socks5Select, Socks5Connect |-> Socks5Connect, Socks5Bind |-> Socks5Bind,
    Socks5ServeBind |-> Socks5ServeBind, Socks5MuxBind |-> Socks5MuxBind,
    Socks5ServeMuxBind |-> Socks5ServeMuxBind, Socks5MuxDrain |-> Socks5MuxDrain,
    Socks5MuxConn |-> Socks5MuxConn, Socks5UDP |-> Socks5UDP, Socks5UDPTun |-> Socks5UDPTun,
    Socks5Observe |-> Socks5Observe]
=============================================================================
