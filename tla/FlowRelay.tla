----------------------------- MODULE FlowRelay -----------------------------
(* The handlers of the relay protocol and of port forwarding (x/handler/relay, *)
(* x/handler/forward).                                                         *)
EXTENDS Control

\* x/handler/relay/metadata.go:40-95 parseMetadata
RelayMetadata == Certificate

\* x/handler/relay/handler.go:62-95 Init
RelayInit == Call("RelayMetadata") \o When("observer", Start("observer"))

\* x/handler/relay/handler.go:102-237 Handle
RelayHandle ==
    DeferClose("conn") \o Rate \o Deadline("conn") \o Read \o NoDeadline("conn")
    \o Or("test", "version", Reply \o Fail)
    \o If("auther", Or("auth", "", Reply \o Fail), Pass("auth"))
    \o When("hop", ReturnOf("RelayForward"))
    \o When("connect", ReturnOf("RelayConnect"))
    \o When("bind", ReturnOf("RelayBind"))
    \o Reply \o Fail

\* Without nodelay the answer goes out with the first data.
\* x/handler/relay/connect.go:28-147 handleConnect
RelayConnect ==
    Counted
    \o Or("test", "address", Reply \o Fail)
    \o Or("bypass", "", Reply \o Fail)
    \o Or("dial", "cc", Reply \o Fail) \o DeferClose("cc")
    \o If("nodelay", Try("reply", ""), Do("reply", "buffered"))
    \o ReturnOf("RelayTransfer")

\* x/handler/relay/connect.go:149-208 handleConnect
RelayTransfer == Transfer

\* The configured target is not looked up in the bypass.
\* x/handler/relay/forward.go:20-123 handleForward
RelayForward ==
    Or("test", "select", Reply \o Fail)
    \o Counted
    \o Or("open", "target", Do("test", "mark") \o Reply \o Fail) \o DeferClose("target")
    \o Do("test", "reset mark")
    \o If("nodelay", Try("reply", ""), Do("reply", "buffered"))
    \o Pipe \o Return

\* x/handler/relay/bind.go:26-75 handleBind
RelayBind ==
    Counted
    \o When("disabled", Try("reply", "") \o Return)
    \o If("tcp", ReturnOf("RelayBindTCP"), ReturnOf("RelayBindUDP"))

\* x/handler/relay/bind.go:77-158 bindTCP
RelayBindTCP ==
    Or("open", "ln", Reply \o Fail) \o DeferClose("ln")
    \o Try("reply", "")
    \o Open("session") \o DeferClose("session")
    \o Go("RelayBindDrain")
    \o Loop(Open("rc") \o Go("RelayBindConn"))

\* The end of the client's session ends the service.
\* x/handler/relay/bind.go:145-155 bindTCP
RelayBindDrain == Loop(Or("open", "stream", Return) \o Close("stream"))

\* x/handler/relay/entrypoint.go:79-120 Handle
RelayBindConn ==
    DeferClose("rc")
    \o Open("stream") \o DeferClose("stream")
    \o Check("write address")
    \o Pipe \o Return

\* A port that cannot be bound is not answered.
\* x/handler/relay/bind.go:160-214 bindUDP
RelayBindUDP ==
    Or("open", "pc", Silent \o Fail) \o DeferClose("pc")
    \o Try("reply", "")
    \o Pipe \o Return

\* x/handler/relay/handler.go:258-287 observeStats
RelayObserve == ObserveStats

\* x/handler/forward/local/metadata.go:30-60 parseMetadata
LocalMetadata == Certificate

\* x/handler/forward/local/handler.go:54-72 Init
LocalInit == Call("LocalMetadata")

\* x/handler/forward/local/handler.go:78-224 Handle
LocalHandle ==
    DeferClose("conn") \o Rate
    \o When("sniffing", Sniffed \o When("http", ReturnOf("ForwardHTTP"))
                                \o When("tls", ReturnOf("ForwardTLS")))
    \o Check("select")
    \o Or("open", "target", Do("test", "mark") \o Fail)
    \o Do("test", "reset mark") \o DeferClose("target")
    \o Pipe \o Return

\* x/handler/forward/remote/metadata.go:31-61 parseMetadata
RemoteMetadata == Certificate

\* x/handler/forward/remote/handler.go:57-75 Init
RemoteInit == Call("RemoteMetadata")

\* x/handler/forward/remote/handler.go:81-225 Handle
RemoteHandle ==
    DeferClose("conn") \o Rate
    \o When("sniffing", Sniffed \o When("http", ReturnOf("ForwardHTTP"))
                                \o When("tls", ReturnOf("ForwardTLS")))
    \o Check("select")
    \o ReturnOf("RemoteForward")

\* x/handler/forward/remote/handler.go:242-269 Handle
RemoteForward ==
    Or("open", "target", Do("test", "mark") \o Fail) \o DeferClose("target")
    \o Do("test", "reset mark")
    \o Pipe \o Return

RelayPrograms == [
    RelayMetadata |-> RelayMetadata, RelayInit |-> RelayInit, RelayHandle |-> RelayHandle,
    RelayConnect |-> RelayConnect, RelayTransfer |-> RelayTransfer,
    RelayForward |-> RelayForward, RelayBind |-> RelayBind, RelayBindTCP |-> RelayBindTCP,
    RelayBindDrain |-> RelayBindDrain, RelayBindConn |-> RelayBindConn,
    RelayBindUDP |-> RelayBindUDP, RelayObserve |-> RelayObserve,
    LocalMetadata |-> LocalMetadata, LocalInit |-> LocalInit, LocalHandle |-> LocalHandle,
    RemoteMetadata |-> RemoteMetadata, RemoteInit |-> RemoteInit, RemoteHandle |-> RemoteHandle,
    RemoteForward |-> RemoteForward]
=============================================================================
