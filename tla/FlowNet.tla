------------------------------ MODULE FlowNet ------------------------------
(* Handlers for networks: the router protocol, SSH forwarding, TUN and TAP  *)
(* devices.                                                                 *)
EXTENDS Control

\* x/handler/router/metadata.go:41-77 parseMetadata
RouterMetadata == Return

\* x/handler/router/handler.go:66-103 Init
RouterInit ==
    Call("RouterMetadata") \o Check("id") \o Call("RouterInitEntrypoint")
    \o When("observer", Start("observer")) \o Return

\* x/handler/router/handler.go:105-132 initEntrypoint
RouterInitEntrypoint == When("no entry point", Return) \o Open("entry point") \o Go("RouterEntry") \o Return

\* x/handler/router/handler.go:134-234 Handle
RouterHandle ==
    DeferClose("conn") \o Rate \o Deadline("conn") \o Read \o NoDeadline("conn")
    \o Or("test", "version", Reply \o Fail)
    \o When("auther", Or("auth", "", Reply \o Fail))
    \o When("associate", ReturnOf("RouterAssociate"))
    \o Reply \o Fail

\* x/handler/router/handler.go:236-247 Close
RouterClose == Close("entry point") \o Call("RouterPoolClose") \o Close("observer") \o Return

\* x/handler/router/handler.go:261-290 observeStats
RouterObserve == ObserveStats

\* A registration that failed is still renewed and taken back.
\* x/handler/router/associate.go:33-136 handleAssociate
RouterAssociate ==
    When("ingress", Or("test", "rule", Reply \o Fail))
    \o Or("test", "connector id", Reply \o Fail)
    \o Reply
    \o Invoke("RouterPoolAdd") \o Do("open", "connector") \o DeferClose("connector")
    \o When("discovery", Do("open", "registration") \o DeferClose("registration")
                         \o Start("renewal") \o DeferClose("renewal"))
    \o Loop(Or("call", "RouterRead", When("end of input", Return) \o Fail)
            \o Invoke("RouterPacket"))

\* x/handler/router/associate.go:138-154 sdRenew
RouterRenew == Loop(When("done", Return) \o Do("test", "renew"))

\* To a connector of this node, or to the node where the gateway is registered.
\* x/handler/router/associate.go:156-234 handlePacket
RouterPacket ==
    Check("header") \o Call("RouterRoute")
    \o Invoke("RouterPoolGet")
    \o When("connector", When("writer", Do("test", "write")) \o Return)
    \o Or("call", "RouterAddr", Return)
    \o Do("test", "write to node") \o Return

\* x/handler/router/associate.go:236-256 getRoute
RouterRoute ==
    When("cache", When("cached", Check("route") \o Return))
    \o Do("test", "registered router") \o When("none", Do("test", "router"))
    \o When("cache", Do("test", "store"))
    \o Check("route") \o Return

\* x/handler/router/associate.go:258-282 getAddrforRoute
RouterAddr ==
    Check("discovery")
    \o When("cached", Check("address") \o Return)
    \o Do("test", "lookup") \o Do("test", "store") \o Check("address") \o Return

\* x/handler/router/associate.go:284-322 Read, Write
RouterRead == Check("length") \o Check("data") \o Return

\* x/handler/router/associate.go:333-338 Write
RouterWrite == Locked \o Check("write") \o Return

\* x/handler/router/router.go:99-139 AddConnector, GetConnector
RouterSelect == Locked \o When("single", Return) \o Check("weighted choice") \o Return

\* The slice is changed under the read lock.
\* x/handler/router/router.go:141-151 DelConnector
RouterDel == Locked \o While("connector", When("its id", Do("test", "cut"))) \o Return

\* x/handler/router/router.go:153-171 Close
RouterShut == Locked \o When("closed", Return) \o While("connector", Do("test", "close")) \o Return

\* x/handler/router/router.go:189-199 Add
RouterPoolAdd == Locked \o Do("test", "router of the id") \o Invoke("RouterSelect") \o Return

\* x/handler/router/router.go:201-231 Get, Del
RouterPoolGet == Check("pool") \o Locked \o Check("router of the id") \o If("get", Call("RouterSelect"), Call("RouterDel")) \o Return

\* x/handler/router/router.go:233-251 Close
RouterPoolClose == When("no pool", Return) \o Locked \o While("router", Invoke("RouterShut")) \o Return

\* x/handler/router/entrypoint.go:10-60 handleEntrypoint
RouterEntry ==
    Loop(Check("read packet")
         \o When("associate", Invoke("RouterPoolGet") \o When("writer", Do("test", "write"))))

\* x/handler/sshd/metadata.go:29-57 parseMetadata
SshdMetadata == Certificate

\* x/handler/sshd/handler.go:61-78 Init
SshdInit == Call("SshdMetadata") \o Return

\* x/handler/sshd/handler.go:80-137 Handle
SshdHandle ==
    DeferClose("conn") \o Rate
    \o When("direct", ReturnOf("SshdDirect"))
    \o When("remote", ReturnOf("SshdRemote"))
    \o Fail

\* x/handler/sshd/handler.go:139-222 handleDirectForward
SshdDirect == Bypass \o Dial("cc") \o DeferClose("cc") \o Transfer

\* x/handler/sshd/handler.go:224-331 handleRemoteForward
SshdRemote ==
    Read
    \o Or("open", "ln", Reply \o Fail) \o DeferClose("ln")
    \o Try("reply", "")
    \o Go("SshdAccept")
    \o Do("test", "wait for the end") \o Return

\* x/handler/sshd/handler.go:278-284 handleRemoteForward
SshdAccept == Loop(Or("open", "rc", Return) \o Go("SshdConn"))

\* x/handler/sshd/handler.go:285-319 handleRemoteForward
SshdConn ==
    DeferClose("rc")
    \o Check("address") \o Open("stream") \o DeferClose("stream") \o Pipe \o Return

\* x/handler/tun/handler.go:60-109 Handle
TunHandle ==
    DeferClose("conn") \o Check("device")
    \o When("target", Invoke("TunClient") \o Return)
    \o ReturnOf("TunServer")

\* Until the device fails, the socket is opened again.
\* x/handler/tun/server.go:20-38 handleServer
TunServer == Loop(Or("call", "TunServe", When("device error", Fail)))

\* x/handler/tun/server.go:23-30 handleServer
TunServe ==
    Open("pc") \o DeferClose("pc")
    \o Go("TunToPeers") \o Go("TunToDevice")
    \o Check("first error") \o Return

\* x/handler/tun/server.go:40-107 transportServer
TunToPeers ==
    Loop(Check("read device")
         \o When("ip packet", Invoke("TunFindRoute") \o When("route", Check("write packet"))))

\* A peer that announces addresses with the passphrase is the route to them;
\* without an authenticator every peer passes.
\* x/handler/tun/server.go:109-237 transportServer
TunToDevice ==
    Loop(Check("read packet")
         \o If("keepalive",
               When("addresses",
                    When("not ours", Got("auth", "", Do("test", "answer") \o Invoke("TunUpdateRoute")))),
               When("ip packet",
                    Invoke("TunFindRoute")
                    \o If("route", Check("write packet"), Check("write device")))))

\* x/handler/tun/server.go:240-254 updateRoute
TunUpdateRoute == When("stored", When("moved", Do("test", "store")))

\* x/handler/tun/server.go:256-278 findRouteFor
TunFindRoute ==
    When("known", Return) \o Check("router") \o Check("gateway") \o Check("known gateway") \o Return

\* x/handler/tun/client.go:30-63 handleClient
TunClient ==
    Check("addresses")
    \o Loop(Or("call", "TunConnect", When("device error", Fail)))

\* x/handler/tun/client.go:40-55 handleClient
TunConnect ==
    Open("target") \o DeferClose("target")
    \o When("udp", Start("keepalive") \o DeferClose("keepalive"))
    \o Call("TunExchange") \o Return

\* x/handler/tun/client.go:65-100 keepalive
TunKeepalive ==
    Or("test", "write", Return)
    \o When("no period", Return)
    \o Loop(When("done", Return) \o Or("test", "write", Return))

\* Either direction; the first error of one, or the cancellation, ends both.
\* x/handler/tun/client.go:102-227 transportClient
TunExchange ==
    Loop(When("cancelled", Fail)
         \o If("from device",
               Check("read device") \o When("ip packet", Check("write")),
               Check("read") \o If("keepalive", Do("test", "deadline"),
                                                When("ip packet", Check("write device")))))

\* x/handler/tap/handler.go:52-68 Init
TapInit == When("auth", Check("cipher")) \o Return

\* The end of the device is the end of the process.
\* x/handler/tap/handler.go:74-123 Handle
TapHandle ==
    DeferClose("conn") \o Check("device")
    \o When("target", Check("address"))
    \o Invoke("TapLoop") \o Return

\* x/handler/tap/handler.go:125-183 handleLoop
TapLoop == Loop(Invoke("TapConnect") \o When("exit", Return) \o Do("test", "delay"))

\* x/handler/tap/handler.go:128-157 handleLoop
TapConnect ==
    If("address", Open("pc") \o Or("test", "packet conn", Leak("pc") \o Fail), Open("pc"))
    \o DeferClose("pc")
    \o Go("TapToPeers") \o Go("TapToDevice")
    \o Check("first error") \o Return

\* x/handler/tap/handler.go:188-246 transport
TapToPeers ==
    Loop(Check("read device")
         \o If("address", Check("write packet"),
               If("broadcast", Do("test", "write to all"),
                               When("known", Check("write packet")))))

\* x/handler/tap/handler.go:248-322 transport
TapToDevice ==
    Loop(Check("read packet")
         \o If("address", Check("write device"),
               Do("test", "learn source")
               \o When("broadcast", Do("test", "write to others"))
               \o If("known", Check("write packet"), Check("write device"))))

NetPrograms == [
    RouterMetadata |-> RouterMetadata, RouterInit |-> RouterInit,
    RouterInitEntrypoint |-> RouterInitEntrypoint, RouterHandle |-> RouterHandle,
    RouterClose |-> RouterClose, RouterObserve |-> RouterObserve,
    RouterAssociate |-> RouterAssociate, RouterRenew |-> RouterRenew,
    RouterPacket |-> RouterPacket, RouterRoute |-> RouterRoute, RouterAddr |-> RouterAddr,
    RouterRead |-> RouterRead, RouterWrite |-> RouterWrite, RouterSelect |-> RouterSelect,
    RouterDel |-> RouterDel, RouterShut |-> RouterShut, RouterPoolAdd |-> RouterPoolAdd,
    RouterPoolGet |-> RouterPoolGet, RouterPoolClose |-> RouterPoolClose,
    RouterEntry |-> RouterEntry, SshdMetadata |-> SshdMetadata, SshdInit |-> SshdInit,
    SshdHandle |-> SshdHandle, SshdDirect |-> SshdDirect, SshdRemote |-> SshdRemote,
    SshdAccept |-> SshdAccept, SshdConn |-> SshdConn, TunHandle |-> TunHandle,
    TunServer |-> TunServer, TunServe |-> TunServe, TunToPeers |-> TunToPeers,
    TunToDevice |-> TunToDevice, TunUpdateRoute |-> TunUpdateRoute,
    TunFindRoute |-> TunFindRoute, TunClient |-> TunClient, TunConnect |-> TunConnect,
    TunKeepalive |-> TunKeepalive, TunExchange |-> TunExchange, TapInit |-> TapInit,
    TapHandle |-> TapHandle, TapLoop |-> TapLoop, TapConnect |-> TapConnect,
    TapToPeers |-> TapToPeers, TapToDevice |-> TapToDevice]
=============================================================================
