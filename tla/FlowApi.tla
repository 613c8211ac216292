------------------------------ MODULE FlowApi ------------------------------
(* The agent's REST API (x/api), the chains and limiters the panel manages   *)
(* over the WebSocket (x/socket), and how a configuration becomes running    *)
(* services (x/config).  An object that is parsed may hold a port or a       *)
(* goroutine that reloads it; the registry owns it once it is registered.    *)
(* Another request may take or free the name between any two operations on   *)
(* the registry.                                                             *)
EXTENDS Control

Refuse == Reply \o Fail

(* The request, and the name it is about.  A body that cannot be read has no *)
(* name.                                                                     *)
Bound      == Do("read", "request")
Named      == Or("test", "name", Refuse)
Free       == When("registered", Refuse)
Known      == Or("test", "registered", Refuse)
Configured == Or("test", "configured", Refuse)

(* ParseX: some kinds cannot fail.                                           *)
Made       == Do("open", "object")
Parsed     == Or("open", "object", Refuse)

(* registry.Unregister closes the object it finds under a name.  An object   *)
(* whose name was taken in the meantime is dropped with what it started.     *)
Unregister == Do("open", "old") \o Close("old")
Register   == Or("test", "register", Leak("object") \o Refuse) \o Give("object")

Update     == Invoke("OnUpdate")
Granted    == Reply \o Return

\* x/config/config.go:45-50 OnUpdate
OnUpdate == Locked \o Check("update") \o Return

(* The three requests that every kind of object has.  Only its entry is      *)
(* changed in the configuration, after the registry.                         *)
Created(parse) == Bound \o Named \o Free \o parse \o Register \o Update \o Granted
Updated(parse) == Bound \o Known \o parse \o Unregister \o Register \o Update \o Granted
Deleted        == Bound \o Known \o Unregister \o Update \o Granted

\* x/api/config_admission.go:26-67 createAdmission
createAdmission == Created(Made)

\* x/api/config_admission.go:84-130 updateAdmission
updateAdmission == Updated(Made)

\* x/api/config_admission.go:145-182 deleteAdmission
deleteAdmission == Deleted

\* x/api/config_auther.go:26-66 createAuther
createAuther == Created(Made)

\* x/api/config_auther.go:83-128 updateAuther
updateAuther == Updated(Made)

\* x/api/config_auther.go:143-180 deleteAuther
deleteAuther == Deleted

\* x/api/config_bypass.go:26-67 createBypass
createBypass == Created(Made)

\* x/api/config_bypass.go:84-130 updateBypass
updateBypass == Updated(Made)

\* x/api/config_bypass.go:145-182 deleteBypass
deleteBypass == Deleted

\* x/api/config_chain.go:27-72 createChain
createChain == Created(Parsed)

\* x/api/config_chain.go:90-140 updateChain
updateChain == Updated(Parsed)

\* x/api/config_chain.go:155-192 deleteChain
deleteChain == Deleted

\* x/api/config_conn_limiter.go:26-66 createConnLimiter
createConnLimiter == Created(Made)

\* x/api/config_conn_limiter.go:83-129 updateConnLimiter
updateConnLimiter == Updated(Made)

\* x/api/config_conn_limiter.go:144-181 deleteConnLimiter
deleteConnLimiter == Deleted

\* x/api/config_hop.go:27-72 createHop
createHop == Created(Parsed)

\* x/api/config_hop.go:90-139 updateHop
updateHop == Updated(Parsed)

\* x/api/config_hop.go:154-191 deleteHop
deleteHop == Deleted

\* x/api/config_hosts.go:26-67 createHosts
createHosts == Created(Made)

\* x/api/config_hosts.go:84-130 updateHosts
updateHosts == Updated(Made)

\* x/api/config_hosts.go:145-182 deleteHosts
deleteHosts == Deleted

\* x/api/config_ingress.go:26-67 createIngress
createIngress == Created(Made)

\* x/api/config_ingress.go:84-130 updateIngress
updateIngress == Updated(Made)

\* x/api/config_ingress.go:145-182 deleteIngress
deleteIngress == Deleted

\* x/api/config_limiter.go:26-67 createLimiter
createLimiter == Created(Made)

\* x/api/config_limiter.go:84-130 updateLimiter
updateLimiter == Updated(Made)

\* x/api/config_limiter.go:145-182 deleteLimiter
deleteLimiter == Deleted

\* x/api/config_observer.go:26-67 createObserver
createObserver == Created(Made)

\* x/api/config_observer.go:84-130 updateObserver
updateObserver == Updated(Made)

\* x/api/config_observer.go:145-182 deleteObserver
deleteObserver == Deleted

\* x/api/config_rate_limiter.go:26-67 createRateLimiter
createRateLimiter == Created(Made)

\* x/api/config_rate_limiter.go:84-130 updateRateLimiter
updateRateLimiter == Updated(Made)

\* x/api/config_rate_limiter.go:145-182 deleteRateLimiter
deleteRateLimiter == Deleted

\* x/api/config_recorder.go:26-66 createRecorder
createRecorder == Created(Made)

\* x/api/config_recorder.go:83-129 updateRecorder
updateRecorder == Updated(Made)

\* x/api/config_recorder.go:144-181 deleteRecorder
deleteRecorder == Deleted

\* x/api/config_resolver.go:26-71 createResolver
createResolver == Created(Parsed)

\* x/api/config_resolver.go:88-138 updateResolver
updateResolver == Updated(Parsed)

\* x/api/config_resolver.go:153-190 deleteResolver
deleteResolver == Deleted

\* x/api/config_router.go:26-67 createRouter
createRouter == Created(Made)

\* x/api/config_router.go:84-130 updateRouter
updateRouter == Updated(Made)

\* x/api/config_router.go:145-182 deleteRouter
deleteRouter == Deleted

\* x/api/config_sd.go:26-67 createSD
createSD == Created(Made)

\* x/api/config_sd.go:84-130 updateSD
updateSD == Updated(Made)

\* x/api/config_sd.go:145-182 deleteSD
deleteSD == Deleted

(* Services hold ports: a service that is not registered is closed.          *)
ParsedService  == Or("call", "ParseService", Refuse)
StartedService == Or("test", "register", Close("service") \o Refuse) \o Give("service")
KillConns      == When("address", Do("test", "kill connections"))
NotEmpty       == Or("test", "names", Refuse)

\* x/api/config_service.go:43-91 createService
createService ==
    Bound \o Named \o Free \o ParsedService \o StartedService \o Update \o Granted

\* What was parsed and not registered stays open when the batch is refused.
\* x/api/config_service.go:93-178 createServices
createServices ==
    LET Abandon == Leak("service") \o Refuse
    IN  Bound \o NotEmpty
        \o While("more", Or("test", "name", Abandon) \o When("registered", Abandon)
                         \o Or("call", "ParseService", Abandon))
        \o While("more", Or("test", "register", Close("registered") \o Abandon)
                         \o Do("open", "registered"))
        \o Give("service") \o Give("registered") \o Update \o Granted

\* The old service is gone when the new one cannot be started.
\* x/api/config_service.go:207-264 updateService
updateService ==
    Bound \o Or("open", "old", Refuse) \o Close("old")
    \o ParsedService \o StartedService \o Update \o Granted

\* A service that was deleted after the first loop ends the second with a panic,
\* which the server answers.
\* x/api/config_service.go:266-349 updateServices
updateServices ==
    Bound \o NotEmpty
    \o While("more", Named \o Known)
    \o While("more", Or("open", "old", Refuse) \o Close("old") \o ParsedService \o StartedService)
    \o Update \o Granted

\* x/api/config_service.go:376-416 deleteService
deleteService ==
    Bound \o Or("open", "old", Refuse) \o Close("old") \o Update \o Granted

\* x/api/config_service.go:418-490 deleteServices
deleteServices ==
    Bound \o NotEmpty \o While("more", Named \o Known) \o While("more", Unregister) \o Update \o Granted

\* The service itself goes on: its connections are killed and its entry is marked.
\* x/api/config_service.go:518-572 pauseService
pauseService ==
    Bound \o Known \o KillConns \o Update \o Granted

\* x/api/config_service.go:574-665 resumeService
resumeService ==
    Bound \o Known \o Configured \o Or("test", "paused", Refuse)
    \o Unregister \o ParsedService \o StartedService \o Update \o Granted

\* x/api/config_service.go:686-733 getServiceStatus
getServiceStatus ==
    Bound \o Known \o Do("test", "paused") \o Granted

\* x/api/config_service.go:736-771 rollbackPausedServices
rollbackPausedServices ==
    While("more", Got("call", "ParseService", If("register", Give("service") \o Update, Close("service"))))

\* x/api/config_service.go:774-799 rollbackResumedServices
rollbackResumedServices ==
    While("more", Got("open", "old", Close("old")) \o Update)

\* x/api/config_service.go:825-950 pauseServices
pauseServices ==
    Bound \o NotEmpty
    \o While("more", Named \o Known \o Do("test", "paused"))
    \o While("more", Or("test", "configured", Invoke("rollbackPausedServices") \o Refuse) \o KillConns)
    \o Or("call", "OnUpdate", Invoke("rollbackPausedServices") \o Refuse)
    \o Granted

\* x/api/config_service.go:952-1097 resumeServices
resumeServices ==
    Bound \o NotEmpty
    \o While("more", Named \o Known \o Configured \o Do("test", "paused"))
    \o While("more", Unregister
         \o Or("call", "ParseService", Invoke("rollbackResumedServices") \o Refuse)
         \o Or("test", "register", Close("service") \o Invoke("rollbackResumedServices") \o Refuse)
         \o Give("service"))
    \o Or("call", "OnUpdate", Invoke("rollbackResumedServices") \o Refuse)
    \o Granted

\* x/api/config.go:33-99 getConfig
getConfig == Bound \o Update \o Granted

\* x/api/config.go:117-166 saveConfig
saveConfig ==
    Bound \o Or("open", "file", Refuse) \o DeferClose("file") \o Or("test", "write", Refuse) \o Granted

\* x/api/config_reload.go:22-56 reloadConfig
reloadConfig ==
    Bound \o Or("test", "parse", Refuse) \o Or("call", "Load", Refuse) \o Granted

\* x/config/loader/loader.go:35-53 Load
Load == Check("tls") \o Call("RegisterAll") \o Return

\* Kind after kind, the old objects are closed and those of the configuration
\* take their place; the first that fails ends the load.  The object of a name
\* that is taken is left open.
\* x/config/loader/loader.go:55-232 register
RegisterAll ==
    While("kind", While("old", Unregister)
                  \o While("new", Open("object") \o Or("test", "register", Leak("object") \o Fail)
                                  \o Give("object")))
    \o While("old", Unregister)
    \o While("new", Call("ParseService") \o Or("test", "register", Leak("service") \o Fail)
                    \o Give("service"))
    \o Return

\* The handle of the network namespace to come back to is never closed.
\* x/config/parsing/service/parse.go:42-248 ParseService
ServicePort ==
    Check("certificate")
    \o When("netns", Locked \o Open("origin") \o Leak("origin") \o Open("ns") \o DeferClose("ns") \o Check("enter"))
    \o Check("listener type") \o Open("ln")

\* x/config/parsing/service/parse.go:250-375 ParseService
ServiceHandler ==
    Or("test", "certificate", Leak("ln") \o Fail)
    \o Or("test", "handler type", Leak("ln") \o Fail)
    \o When("forwarder", Or("call", "parseForwarder", Leak("ln") \o Fail))
    \o Or("test", "handler init", Leak("ln") \o Fail)
    \o Give("ln") \o Do("open", "service") \o Return

\* A port stays bound when the handler behind it cannot be configured.
\* x/config/parsing/service/parse.go:42-375 ParseService
ParseService == ServicePort \o ServiceHandler

\* The hop of a forwarder ends with the process: no registry has it.
\* x/config/parsing/service/parse.go:377-433 parseForwarder
parseForwarder ==
    When("no forwarder", Return) \o When("hop", Return)
    \o While("node", Do("test", "filter")) \o Check("hop") \o Return

(* What the panel asks for over the WebSocket: the errors are returned.      *)
Registering      == Or("test", "register", Leak("object") \o Fail) \o Give("object") \o Update \o Return
CreatedBy(parse) == Check("name") \o When("registered", Fail) \o parse \o Registering
UpdatedBy(parse) == Check("registered") \o parse \o Unregister \o Registering
DeletedBy        == Check("registered") \o Unregister \o Update \o Return

\* x/socket/chain.go:13-40 createChain
AgentCreateChain == CreatedBy(Open("object"))

\* x/socket/chain.go:42-74 updateChain
AgentUpdateChain == UpdatedBy(Open("object"))

\* x/socket/chain.go:76-98 deleteChain
AgentDeleteChain == DeletedBy

\* x/socket/limiter.go:11-34 createLimiter
AgentCreateLimiter == CreatedBy(Made)

\* x/socket/limiter.go:36-65 updateLimiter
AgentUpdateLimiter == UpdatedBy(Made)

\* x/socket/limiter.go:67-89 deleteLimiter
AgentDeleteLimiter == DeletedBy

ApiPrograms == [
    OnUpdate |-> OnUpdate, createAdmission |-> createAdmission,
    updateAdmission |-> updateAdmission, deleteAdmission |-> deleteAdmission,
    createAuther |-> createAuther, updateAuther |-> updateAuther, deleteAuther |-> deleteAuther,
    createBypass |-> createBypass, updateBypass |-> updateBypass, deleteBypass |-> deleteBypass,
    createChain |-> createChain, updateChain |-> updateChain, deleteChain |-> deleteChain,
    createConnLimiter |-> createConnLimiter, updateConnLimiter |-> updateConnLimiter,
    deleteConnLimiter |-> deleteConnLimiter, createHop |-> createHop, updateHop |-> updateHop,
    deleteHop |-> deleteHop, createHosts |-> createHosts, updateHosts |-> updateHosts,
    deleteHosts |-> deleteHosts, createIngress |-> createIngress,
    updateIngress |-> updateIngress, deleteIngress |-> deleteIngress,
    createLimiter |-> createLimiter, updateLimiter |-> updateLimiter,
    deleteLimiter |-> deleteLimiter, createObserver |-> createObserver,
    updateObserver |-> updateObserver, deleteObserver |-> deleteObserver,
    createRateLimiter |-> createRateLimiter, updateRateLimiter |-> updateRateLimiter,
    deleteRateLimiter |-> deleteRateLimiter, createRecorder |-> createRecorder,
    updateRecorder |-> updateRecorder, deleteRecorder |-> deleteRecorder,
    createResolver |-> createResolver, updateResolver |-> updateResolver,
    deleteResolver |-> deleteResolver, createRouter |-> createRouter,
    updateRouter |-> updateRouter, deleteRouter |-> deleteRouter, createSD |-> createSD,
    updateSD |-> updateSD, deleteSD |-> deleteSD, createService |-> createService,
    createServices |-> createServices, updateService |-> updateService,
    updateServices |-> updateServices, deleteService |-> deleteService,
    deleteServices |-> deleteServices, pauseService |-> pauseService,
    resumeService |-> resumeService, getServiceStatus |-> getServiceStatus,
    rollbackPausedServices |-> rollbackPausedServices,
    rollbackResumedServices |-> rollbackResumedServices, pauseServices |-> pauseServices,
    resumeServices |-> resumeServices, getConfig |-> getConfig, saveConfig |-> saveConfig,
    reloadConfig |-> reloadConfig, Load |-> Load, RegisterAll |-> RegisterAll,
    ServicePort |-> ServicePort, ServiceHandler |-> ServiceHandler,
    ParseService |-> ParseService, parseForwarder |-> parseForwarder,
    AgentCreateChain |-> AgentCreateChain, AgentUpdateChain |-> AgentUpdateChain,
    AgentDeleteChain |-> AgentDeleteChain, AgentCreateLimiter |-> AgentCreateLimiter,
    AgentUpdateLimiter |-> AgentUpdateLimiter, AgentDeleteLimiter |-> AgentDeleteLimiter]
=============================================================================
